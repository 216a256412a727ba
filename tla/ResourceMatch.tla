--------------------------- MODULE ResourceMatch ---------------------------
(***************************************************************************)
(* src/app/resource_match.py: which resource a user's token means.  A      *)
(* query is known by what match tests of it alone, and a resource by how   *)
(* the query fits its id and its display name.                             *)
(***************************************************************************)
EXTENDS Naturals, SequencesExt

\* blank: nothing but white space; ocid: starts with "ocid1."; short: has 8 to
\* 12 characters.
Query == {q \in [blank : BOOLEAN, ocid : BOOLEAN, short : BOOLEAN] : q.blank => ~q.ocid /\ ~q.short}

\* id, name: the query is the resource's id, its name; prefix: its name begins
\* with the query; suffix: its id ends with the query.
Fit == {f \in [id : BOOLEAN, name : BOOLEAN, prefix : BOOLEAN, suffix : BOOLEAN] :
          (f.name => f.prefix) /\ (f.id => f.suffix)}

\* Ids begin with "ocid1.", and no two resources have the same one.
Fits(q, resources) ==
  {fit \in [resources -> {f \in Fit : f.id => q.ocid}] :
     \A r, s \in resources : fit[r].id /\ fit[s].id => r = s}

\* A name that is only a prefix counts with the exact ones (for the checks of the
\* properties).
RulesLoose(q) ==
  IF q.blank THEN <<>>
  ELSE IF q.ocid THEN <<"id">>
  ELSE <<"prefix">> \o (IF q.short THEN <<"suffix">> ELSE <<>>)

\* The rules of match in the order it tries them.
Rules(q) ==
  IF q.blank THEN <<>>
  ELSE IF q.ocid THEN <<"id">>
  ELSE <<"name", "prefix">> \o (IF q.short THEN <<"suffix">> ELSE <<>>)

\* The comprehension of each rule: the resources it fits, in their order.
Hits(rule, resources, fit) ==
  LET hits[k \in 0 .. Len(resources)] ==
        IF k = 0 THEN <<>>
        ELSE IF fit[resources[k]][rule] THEN Append(hits[k - 1], resources[k]) ELSE hits[k - 1]
  IN hits[Len(resources)]

\* What match returns, or the exception it raises: the candidates of the first
\* rule that has any.
Match(q, resources, fit) ==
  LET hits == [k \in DOMAIN Rules(q) |-> Hits(Rules(q)[k], resources, fit)]
      first == SelectInSeq(hits, LAMBDA s : s # <<>>)
  IN IF first = 0 THEN [outcome |-> "ResourceNotFound", candidates |-> <<>>]
     ELSE IF q.ocid \/ Len(hits[first]) = 1
     THEN [outcome |-> "found", candidates |-> <<hits[first][1]>>]
     ELSE [outcome |-> "AmbiguousResource", candidates |-> hits[first]]

-----------------------------------------------------------------------------
(* The precedence as documented: exact OCID, exact name, prefix of the     *)
(* name, short id, and never a choice between equals.                      *)

Rank(q, f) ==
  IF q.blank THEN 5
  ELSE IF f.id THEN 1 ELSE IF f.name THEN 2 ELSE IF f.prefix THEN 3
  ELSE IF q.short /\ f.suffix THEN 4 ELSE 5

\* The resources none is better than.
Meant(q, resources, fit) ==
  {r \in resources : Rank(q, fit[r]) < 5 /\ \A s \in resources : Rank(q, fit[r]) <= Rank(q, fit[s])}
=============================================================================
