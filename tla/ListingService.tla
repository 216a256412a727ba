--------------------------- MODULE ListingService ---------------------------
(***************************************************************************)
(* What the caller of OciClient's list methods may rely on while resources *)
(* come and go: a listing that is not refused has everything that existed  *)
(* during the whole call and nothing that never existed during it, each    *)
(* once.  It need not be what existed at any one moment.                   *)
(***************************************************************************)
EXTENDS SequencesExt

CONSTANT Resources

VARIABLES
  existing,  \* the resources OCI has
  listing    \* what was asked for and got, if anything

serviceVars == <<existing, listing>>

NoListing == [state |-> "none", always |-> {}, ever |-> {}, items |-> <<>>]

ServiceInit == existing \in SUBSET Resources /\ listing = NoListing

Ask ==
  /\ listing.state = "none"
  /\ listing' = [state |-> "asked", always |-> existing, ever |-> existing, items |-> <<>>]
  /\ UNCHANGED existing

Answer ==
  /\ listing.state = "asked"
  /\ \E S \in SUBSET listing.ever : \E s \in SetToSeqs(S) :
       /\ listing.always \subseteq S
       /\ listing' = [listing EXCEPT !.state = "answered", !.items = s]
  /\ UNCHANGED existing

Refuse ==
  /\ listing.state = "asked"
  /\ listing' = [listing EXCEPT !.state = "refused"]
  /\ UNCHANGED existing

Forget ==
  /\ listing.state \in {"answered", "refused"}
  /\ listing' = NoListing
  /\ UNCHANGED existing

\* A listing that is asked for notices what happens meanwhile.
Change ==
  /\ existing' \in SUBSET Resources
  /\ listing' =
       IF listing.state = "asked"
       THEN [listing EXCEPT !.always = @ \cap existing', !.ever = @ \cup existing']
       ELSE listing

ServiceNext == Ask \/ Answer \/ Refuse \/ Forget \/ Change

ServiceSpec == ServiceInit /\ [][ServiceNext]_serviceVars
=============================================================================
