------------------------------ MODULE Reading ------------------------------
(***************************************************************************)
(* One read-only command after the other, from the first call of OCI to    *)
(* the last message: _instances, _instance, _public_ip, _security_lists,   *)
(* _security_list, _boot_volumes and _quota of src/app/commands/, with the *)
(* client they call (OciClient), the choice of a resource (ResourceMatch)  *)
(* and the splitting of the answer (Chunks).  The arguments, the profile   *)
(* and the audit log are in Handlers and Bot; here are the data that those *)
(* leave out: which resources an answer is about, and what of it is sent.  *)
(***************************************************************************)
EXTENDS OciClient, ResourceMatch, Chunks

CONSTANTS
  PageSize,        \* runtime.default_page_size
  QUOTA_SERVICES,  \* a sequence
  Queries,         \* the arguments of a lookup
  Texts,           \* what a list, a detail or a report may look like
  NoQuery,
  MayRaise         \* whether sending a message may raise

ASSUME PageSizeAssumption == PageSize \in Nat
ASSUME InputsAssumption ==
  /\ Queries \subseteq Query /\ NoQuery \notin Query
  /\ Texts \subseteq Text
  /\ MayRaise \in BOOLEAN
  /\ QUOTA_SERVICES \in Seq(Range(QUOTA_SERVICES))

VARIABLES
  read,   \* the command that runs, see Idle
  shown   \* of it: what the messages sent so far show, a sequence for each text

handlerVars == <<read, shown, chunkVars>>
vars == <<clientVars, handlerVars>>

\* stage: what the handler waits for; items: what the list call returned; fit:
\* how the query fits them; left: what is still to be asked about; rows: what was
\* learned; pages: the contents of the texts still to be sent; sent: the chunks
\* of the first of them that were sent.
Idle ==
  [cmd |-> "none", stage |-> "idle", q |-> NoQuery, items |-> <<>>, fit |-> <<>>,
   left |-> <<>>, rows |-> <<>>, pages |-> <<>>, sent |-> 0]

ListOf ==
  [instances |-> "list", instance |-> "list", public_ip |-> "list", quota |-> "list",
   security_lists |-> "list", security_list |-> "list", boot_volumes |-> "volumes"]

LookupCommands == {"instance", "security_list"}

\* These ask OCI about one instance or service after the other.
ItemCommands == {"public_ip", "quota"}

ReadingInit == ClientInit /\ read = Idle /\ shown = <<>> /\ ChunksInit

-----------------------------------------------------------------------------
(* Asking OCI *)

Command(cmd, q) ==
  /\ read.stage = "idle" /\ Begin(ListOf[cmd])
  /\ read' = [Idle EXCEPT !.cmd = cmd, !.stage = "listing", !.q = q]
  /\ UNCHANGED <<shown, chunkVars>>

\* A reply of one message that ends the command, or an exception instead.
Ends(how) ==
  \/ read' = [read EXCEPT !.stage = how]
  \/ MayRaise /\ read' = [read EXCEPT !.stage = "failed"]

ListFails ==
  /\ read.stage = "listing" /\ Taken
  /\ \/ call.step = "failed" /\ Ends("refused")
     \/ call.step = "raised" /\ read' = [read EXCEPT !.stage = "failed"]
  /\ UNCHANGED <<shown, chunkVars>>

\* A page has the first item of the next one as well (for the checks of the
\* properties).
PaginateOverlaps(items) ==
  IF PageSize = 0 THEN <<items>>
  ELSE [k \in 1 .. (Len(items) + PageSize - 1) \div PageSize |->
          SubSeq(items, (k - 1) * PageSize + 1, Min({k * PageSize + 1, Len(items)}))]

\* No item is none of a page, not an empty one.
Paginate(items) ==
  IF PageSize = 0 THEN <<items>>
  ELSE [k \in 1 .. (Len(items) + PageSize - 1) \div PageSize |->
          SubSeq(items, (k - 1) * PageSize + 1, Min({k * PageSize, Len(items)}))]

\* What the handler does about these resources.
Continues(items) ==
  LET r == [read EXCEPT !.q = NoQuery, !.fit = <<>>, !.items = items]
  IN read' =
       CASE read.cmd = "quota" -> [r EXCEPT !.stage = "asking", !.left = QUOTA_SERVICES]
         [] read.cmd = "public_ip" /\ items = <<>> -> [r EXCEPT !.stage = "empty"]
         [] read.cmd = "public_ip" /\ items # <<>> -> [r EXCEPT !.stage = "asking", !.left = items]
         [] read.cmd = "instances" -> [r EXCEPT !.stage = "texts", !.pages = Paginate(items)]
         [] OTHER -> [r EXCEPT !.stage = "texts", !.pages = <<items>>]

ListReturns ==
  /\ read.stage = "listing" /\ call.step = "done" /\ Taken
  /\ IF read.q = NoQuery THEN Continues(call.got)
     ELSE \E fit \in Fits(read.q, Range(call.got)) :
            read' = [read EXCEPT !.stage = "matched", !.items = call.got, !.fit = fit]
  /\ UNCHANGED <<shown, chunkVars>>

\* What resource_match.match says of the query, as soon as there is a list.
Matched == Match(read.q, read.items, read.fit)

Resolve ==
  /\ read.stage = "matched"
  /\ IF Matched.outcome = "found" THEN Continues(Matched.candidates) ELSE Ends("refused")
  /\ UNCHANGED <<clientVars, shown, chunkVars>>

AskNext ==
  /\ read.stage = "asking" /\ read.left # <<>>
  /\ Begin(IF read.cmd = "quota" THEN "limits" ELSE "vnics")
  /\ read' = [read EXCEPT !.stage = "item"]
  /\ UNCHANGED <<shown, chunkVars>>

\* A target whose call fails has no row (for the checks of the properties).
ItemReturnsOrNothing ==
  /\ read.stage = "item" /\ Taken
  /\ read' =
       CASE call.step = "done" ->
              [read EXCEPT !.stage = "asking", !.left = Tail(@),
                           !.rows = Append(@, [of |-> Head(read.left), vnic |-> call.vnic])]
         [] call.step = "failed" -> [read EXCEPT !.stage = "asking", !.left = Tail(@)]
         [] call.step = "raised" -> [read EXCEPT !.stage = "failed"]
  /\ UNCHANGED <<shown, chunkVars>>

\* A target whose call fails is asked about again (for the checks of the
\* properties).
ItemReturnsOrRetries ==
  /\ read.stage = "item" /\ Taken
  /\ read' =
       CASE call.step = "done" ->
              [read EXCEPT !.stage = "asking", !.left = Tail(@),
                           !.rows = Append(@, [of |-> Head(read.left), vnic |-> call.vnic])]
         [] call.step = "failed" -> [read EXCEPT !.stage = "asking"]
         [] call.step = "raised" -> [read EXCEPT !.stage = "failed"]
  /\ UNCHANGED <<shown, chunkVars>>

\* What fails with an OciApiError is a row too; any other exception ends the
\* handler.
ItemReturns ==
  /\ read.stage = "item" /\ Taken
  /\ read' =
       IF call.step = "raised" THEN [read EXCEPT !.stage = "failed"]
       ELSE LET found == IF call.step = "done" THEN call.vnic ELSE "failed"
            IN [read EXCEPT !.stage = "asking", !.left = Tail(@),
                            !.rows = Append(@, [of |-> Head(read.left), vnic |-> found])]
  /\ UNCHANGED <<shown, chunkVars>>

AllAsked ==
  /\ read.stage = "asking" /\ read.left = <<>>
  /\ read' = [read EXCEPT !.stage = "texts", !.pages = <<read.rows>>]
  /\ UNCHANGED <<clientVars, shown, chunkVars>>

-----------------------------------------------------------------------------
(* Answering *)

\* format_* and the start of chunk_message; _instance sends its summary, of at
\* most seven short lines, without it.
Format ==
  /\ read.stage = "texts" /\ read.pages # <<>>
  /\ \E t \in Texts :
       /\ read.cmd = "instance" => Joined(t, 1, Len(t)) <= Limit
       /\ BeginText(t)
  /\ read' = [read EXCEPT !.stage = "text"]
  /\ UNCHANGED <<clientVars, shown>>

SplitText == read.stage = "text" /\ Split /\ UNCHANGED <<clientVars, read, shown>>

Empty(chunk) == Joined(text, chunk[1], chunk[2]) = 0

\* Telegram takes no empty message.
SendChunk ==
  /\ read.stage = "text" /\ IsSplit /\ read.sent < Len(chunks)
  /\ LET empty == Empty(chunks[read.sent + 1])
     IN \/ ~empty /\ read' = [read EXCEPT !.sent = @ + 1]
        \/ (empty \/ MayRaise) /\ read' = [read EXCEPT !.stage = "failed"]
  /\ UNCHANGED <<clientVars, shown, chunkVars>>

TextSent ==
  /\ read.stage = "text" /\ IsSplit /\ read.sent = Len(chunks)
  /\ shown' = Append(shown, Head(read.pages))
  /\ read' = [read EXCEPT !.stage = "texts", !.pages = Tail(@), !.sent = 0]
  /\ ClearText
  /\ UNCHANGED clientVars

\* "No instances found.", "No instances in compartment."
EmptyState ==
  /\ \/ read.stage = "empty"
     \/ read.stage = "texts" /\ read.pages = <<>> /\ shown = <<>>
  /\ Ends("answered")
  /\ shown' = IF read'.stage = "answered" THEN <<(<<>>)>> ELSE shown
  /\ UNCHANGED <<clientVars, chunkVars>>

AllSent ==
  /\ read.stage = "texts" /\ read.pages = <<>> /\ shown # <<>>
  /\ read' = [read EXCEPT !.stage = "answered"]
  /\ UNCHANGED <<clientVars, shown, chunkVars>>

Over == {"answered", "refused", "failed"}

\* The next update.
Leave ==
  /\ read.stage \in Over
  /\ read' = Idle /\ shown' = <<>> /\ ClearText
  /\ UNCHANGED clientVars

Handler ==
  \/ ListFails \/ ListReturns \/ Resolve
  \/ AskNext \/ ItemReturns \/ AllAsked
  \/ Format \/ SplitText \/ SendChunk \/ TextSent
  \/ EmptyState \/ AllSent \/ Leave

Commands ==
  \E cmd \in DOMAIN ListOf : \E q \in Queries \cup {NoQuery} :
    /\ cmd \in LookupCommands => q # NoQuery
    /\ q # NoQuery => cmd \in LookupCommands \cup {"public_ip"}
    /\ Command(cmd, q)

ReadingNext ==
  \/ Commands \/ Handler
  \/ Working /\ UNCHANGED handlerVars
  \/ ResourcesChange /\ UNCHANGED handlerVars
  \/ VnicsChange /\ UNCHANGED handlerVars

ReadingSpec == ReadingInit /\ [][ReadingNext]_vars

\* The SDK and Telegram's client time out, so every call returns or raises.
FairReadingSpec == ReadingSpec /\ WF_vars(Handler) /\ WF_vars(Working /\ UNCHANGED handlerVars)

-----------------------------------------------------------------------------
(* Properties *)

Rows == [of : Resources \cup Range(QUOTA_SERVICES), vnic : Vnics \cup {NoVnic, "failed"}]

\* Every variable keeps its type, and the client is called only while the
\* handler waits for it.
ReadingTypeOK ==
  /\ read.cmd \in DOMAIN ListOf \cup {"none"} /\ read.q \in Queries \cup {NoQuery}
  /\ read.stage \in Over \cup {"idle", "listing", "matched", "asking", "item", "texts", "text", "empty"}
  /\ read.items \in Seq(Resources) /\ read.rows \in Seq(Rows)
  /\ read.sent \in 0 .. Len(chunks)
  /\ (call.step # "idle") <=> (read.stage \in {"listing", "item"})
  /\ text \in Text \cup {<<>>} /\ next \in 1 .. Len(text) + 1 /\ first \in 1 .. next
  /\ ads_cache \in {NoCache, Domains}

\* match finds what the documented precedence (resource_match.py:3-11) means, and
\* only if it is one resource; when several are meant it names them all.  A query
\* that starts with "ocid1." finds nothing but the id, though a name may fit.
MatchedAsMeant ==
  read.stage = "matched" =>
    LET meant == Meant(read.q, Range(read.items), read.fit)
        m == Matched
    IN /\ m.outcome = "found" => meant = Range(m.candidates) /\ Len(m.candidates) = 1
       /\ m.outcome = "AmbiguousResource" => meant = Range(m.candidates) /\ Len(m.candidates) > 1
       /\ m.outcome = "ResourceNotFound" => read.q.ocid \/ meant = {}

\* One row for each instance or service, in order, whichever of their calls
\* fail: a failure neither drops the row nor shifts it to the next
\* (instances.py:205-218, quota.py:62-71).
RowForEach ==
  read.cmd \in ItemCommands /\ read.stage \in {"asking", "item", "texts", "text"} =>
    LET targets == IF read.cmd = "quota" THEN QUOTA_SERVICES ELSE read.items
    IN /\ Len(read.rows) + Len(read.left) = Len(targets)
       /\ \A k \in DOMAIN read.rows : read.rows[k].of = targets[k]
       /\ \A k \in DOMAIN read.left : read.left[k] = targets[Len(read.rows) + k]

\* An answer shows everything it is about, in order and in at least one message,
\* over all pages and chunks; one that fails half-way has shown the beginning of
\* it; no page has more than PageSize instances (instances.py:58-71).
EverythingShown ==
  LET all == IF read.cmd \in ItemCommands THEN read.rows ELSE read.items
  IN /\ IsPrefix(FlattenSeq(shown), all)
     /\ read.stage = "answered" => shown # <<>> /\ FlattenSeq(shown) = all
     /\ read.cmd = "instances" /\ PageSize > 0 =>
          \A k \in DOMAIN shown : Len(shown[k]) <= PageSize

\* Every command comes to an end, however many calls of OCI and messages it takes
\* and whatever of it fails.
EveryCommandEnds == (read.stage = "listing") ~> (read.stage \in Over)
=============================================================================
