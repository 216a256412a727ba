---------------------------- MODULE OneShotGrant ----------------------------
(***************************************************************************)
(* What src/app/confirmations.py:1-13 promises of a confirmation, without  *)
(* saying how it is stored.  A token is granted to one user until a        *)
(* deadline.  It is honoured at most once, for its owner, while the clock  *)
(* is before the deadline.  It may lapse once the deadline has passed, and *)
(* a restart of the daemon voids every open one; nothing else ends it.     *)
(***************************************************************************)
EXTENDS Naturals

CONSTANTS Tokens, Users, TTL, NoUser

VARIABLES
  status,    \* how far each token is: granted or not, and what ended it
  owner,     \* the user a granted token belongs to
  deadline,  \* the time at which a granted token stops being valid
  clock      \* what the host's clock shows; an operator may set it

grantVars == <<status, owner, deadline, clock>>

GrantInit ==
  /\ status = [t \in Tokens |-> "unissued"]
  /\ owner = [t \in Tokens |-> NoUser]
  /\ deadline = [t \in Tokens |-> 0]
  /\ clock \in Nat

Overdue(t) == status[t] = "open" /\ clock >= deadline[t]

\* Tokens past their deadline may be forgotten as part of any step.
Lapsed(L) == [t \in Tokens |-> IF t \in L /\ Overdue(t) THEN "void" ELSE status[t]]

Lapse(L) ==
  /\ status' = Lapsed(L)
  /\ UNCHANGED <<owner, deadline, clock>>

Issue(t, u, L) ==
  /\ status[t] = "unissued"
  /\ status' = [Lapsed(L) EXCEPT ![t] = "open"]
  /\ owner' = [owner EXCEPT ![t] = u]
  /\ deadline' = [deadline EXCEPT ![t] = clock + TTL]
  /\ UNCHANGED clock

Redeem(t, u, L) ==
  /\ status[t] = "open"
  /\ owner[t] = u
  /\ clock < deadline[t]
  /\ status' = [Lapsed(L) EXCEPT ![t] = "used"]
  /\ UNCHANGED <<owner, deadline, clock>>

ClockMoves ==
  /\ clock' \in Nat
  /\ UNCHANGED <<status, owner, deadline>>

VoidAll ==
  /\ status' = [t \in Tokens |-> IF status[t] = "open" THEN "void" ELSE status[t]]
  /\ UNCHANGED <<owner, deadline, clock>>

GrantNext ==
  \/ \E L \in SUBSET Tokens :
       \/ Lapse(L)
       \/ \E t \in Tokens, u \in Users : Issue(t, u, L) \/ Redeem(t, u, L)
  \/ ClockMoves
  \/ VoidAll

GrantSpec == GrantInit /\ [][GrantNext]_grantVars
=============================================================================
