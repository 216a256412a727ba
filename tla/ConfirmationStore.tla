-------------------------- MODULE ConfirmationStore --------------------------
(***************************************************************************)
(* The in-memory store of pending high-risk actions,                       *)
(* src/app/confirmations.py.  create, take, cancel and size each hold the  *)
(* store's lock and contain no await, so each is one step.  Every one of   *)
(* them first sweeps what the wall clock (time.time()) says has expired.   *)
(*                                                                         *)
(* A request stands for the profile, instance and OCI action of a          *)
(* PendingAction: the store only carries them.  Tokens come from           *)
(* secrets.token_urlsafe(16); the model takes them to be fresh.            *)
(***************************************************************************)
EXTENDS Naturals, Sequences, Functions

CONSTANTS
  Users,          \* Telegram users who may ask for or press a button
  Tokens,         \* confirmation tokens
  Requests,       \* what a pending action would do
  TTL,            \* ttl_sec
  MaxTime,        \* bound: how long the model runs, in clock units
  MaxEpoch,       \* bound: how often the daemon is restarted
  ClockSettings,  \* wall-clock values an operator or NTP may set
  NoUser          \* nobody: the owner of a token not issued yet

ASSUME TTLAssumption == TTL \in Nat \ {0}
ASSUME BoundsAssumption == MaxTime \in Nat /\ MaxEpoch \in Nat
ASSUME ClockAssumption == ClockSettings \subseteq Nat
ASSUME UsersAssumption == NoUser \notin Users

VARIABLES
  pending,  \* the dict _pending: a function whose domain is the live tokens
  now,      \* time.time(), the clock the store reads
  \* The rest is history, read by the properties and by no operation.
  elapsed,  \* real time that has passed
  epoch,    \* how often the daemon has been restarted
  issued,   \* what create returned for each token, when and in which epoch
  taken,    \* what take and cancel returned, in order
  drifted   \* tokens that were pending while the wall clock was set

storeVars == <<pending, now, elapsed, epoch, issued, taken, drifted>>

PendingAction ==
  [token: Tokens, user_id: Users, request: Requests, expires_at: Nat]

Issuing == [grant: PendingAction, born: Nat, epoch: Nat]
Taking == [grant: PendingAction, by: Users, at: Nat, epoch: Nat]

-----------------------------------------------------------------------------
StoreInit ==
  /\ pending = [t \in {} |-> 0]
  /\ now = 0 /\ elapsed = 0 /\ epoch = 0
  /\ issued = [t \in {} |-> 0]
  /\ taken = <<>>
  /\ drifted = {}

\* Off by one, in either direction (for the checks of the properties).
ExpiredLate(p) == now > p.expires_at
ExpiredEarly(p) == now + 1 >= p.expires_at

Expired(p) == now >= p.expires_at

\* The dict without its expired entries.
Swept == Restrict(pending, {t \in DOMAIN pending : ~Expired(pending[t])})

With(f, k, v) == [x \in DOMAIN f \cup {k} |-> IF x = k THEN v ELSE f[x]]
Without(f, k) == Restrict(f, DOMAIN f \ {k})

\* One entry per user instead of one per token (for the checks of the properties).
CreatePerUser(t, u, r) ==
  LET p == [token |-> t, user_id |-> u, request |-> r, expires_at |-> now + TTL]
  IN /\ t \notin DOMAIN issued
     /\ pending' = With(Swept, u, p)
     /\ issued' = With(issued, t, [grant |-> p, born |-> elapsed, epoch |-> epoch])
     /\ UNCHANGED <<now, elapsed, epoch, taken, drifted>>

Create(t, u, r) ==
  LET p == [token |-> t, user_id |-> u, request |-> r, expires_at |-> now + TTL]
  IN /\ t \notin DOMAIN issued
     /\ pending' = With(Swept, t, p)
     /\ issued' = With(issued, t, [grant |-> p, born |-> elapsed, epoch |-> epoch])
     /\ UNCHANGED <<now, elapsed, epoch, taken, drifted>>

\* The owner is not compared (for the checks of the properties).
TakesUnowned(t, u) == t \in DOMAIN Swept

\* take(t, u) finds the token and it is u's.
Takes(t, u) == t \in DOMAIN Swept /\ pending[t].user_id = u

\* The entry is returned and kept (for the checks of the properties).
TakeHitKeeps(t, u) ==
  /\ Takes(t, u)
  /\ pending' = Swept
  /\ taken' = Append(taken, [grant |-> pending[t], by |-> u, at |-> elapsed, epoch |-> epoch])
  /\ UNCHANGED <<now, elapsed, epoch, issued, drifted>>

TakeHit(t, u) ==
  /\ Takes(t, u)
  /\ pending' = Without(Swept, t)
  /\ taken' = Append(taken, [grant |-> pending[t], by |-> u, at |-> elapsed, epoch |-> epoch])
  /\ UNCHANGED <<now, elapsed, epoch, issued, drifted>>

\* A stranger's click uses the token up (for the checks of the properties).
TakeMissBurns(t, u) ==
  /\ ~Takes(t, u)
  /\ pending' = Without(Swept, t)
  /\ UNCHANGED <<now, elapsed, epoch, issued, taken, drifted>>

\* take(t, u) answers None: an unknown, expired or foreign token stays as it is.
TakeMiss(t, u) ==
  /\ ~Takes(t, u)
  /\ pending' = Swept
  /\ UNCHANGED <<now, elapsed, epoch, issued, taken, drifted>>

Take(t, u) == TakeHit(t, u) \/ TakeMiss(t, u)

\* cancel returns what take returns, and removes it as take does.
Cancel(t, u) == Take(t, u)

Size ==
  /\ pending' = Swept
  /\ UNCHANGED <<now, elapsed, epoch, issued, taken, drifted>>

-----------------------------------------------------------------------------
(* The environment: time passes, the wall clock is set, the daemon restarts *)

Tick ==
  /\ elapsed < MaxTime
  /\ elapsed' = elapsed + 1
  /\ now' = now + 1
  /\ UNCHANGED <<pending, epoch, issued, taken, drifted>>

ClockSet(v) ==
  /\ now' = v
  /\ drifted' = drifted \cup DOMAIN pending
  /\ UNCHANGED <<pending, elapsed, epoch, issued, taken>>

\* The store outlives the process (for the checks of the properties).
RestartKeeps ==
  /\ epoch < MaxEpoch
  /\ epoch' = epoch + 1
  /\ UNCHANGED <<pending, now, elapsed, issued, taken, drifted>>

\* The store lives in memory: a new process starts with an empty one.
Restart ==
  /\ epoch < MaxEpoch
  /\ epoch' = epoch + 1
  /\ pending' = [t \in {} |-> 0]
  /\ UNCHANGED <<now, elapsed, issued, taken, drifted>>

StoreNext ==
  \/ \E t \in Tokens, u \in Users :
       \/ \E r \in Requests : Create(t, u, r)
       \/ Take(t, u)
       \/ Cancel(t, u)
  \/ Size
  \/ Tick
  \/ \E v \in ClockSettings : ClockSet(v)
  \/ Restart

StoreSpec == StoreInit /\ [][StoreNext]_storeVars

-----------------------------------------------------------------------------
(* Properties *)

\* Every variable keeps its type, and a token is filed under its own name.
TypeOK ==
  /\ now \in Nat /\ elapsed \in Nat /\ epoch \in Nat
  /\ DOMAIN issued \subseteq Tokens
  /\ \A t \in DOMAIN issued : issued[t] \in Issuing /\ issued[t].grant.token = t
  /\ DOMAIN pending \subseteq DOMAIN issued
  /\ \A t \in DOMAIN pending : pending[t] \in PendingAction
  /\ taken \in Seq(Taking)
  /\ drifted \subseteq DOMAIN issued

Used == {taken[i].grant.token : i \in DOMAIN taken}

\* "is single-use" (confirmations.py:9): take and cancel together return a
\* token at most once, whichever users press which buttons in which order.
SingleUse ==
  \A i, j \in DOMAIN taken :
    taken[i].grant.token = taken[j].grant.token => i = j

\* "can only be redeemed by the same Telegram user who created it"
\* (confirmations.py:8), and what comes back is what that user asked for.
RedeemedAsIssued ==
  \A i \in DOMAIN taken :
    LET x == taken[i]
    IN /\ x.grant.token \in DOMAIN issued
       /\ x.grant = issued[x.grant.token].grant
       /\ x.by = x.grant.user_id

\* "is valid for ttl_sec seconds" (confirmations.py:7), in real time, for the
\* tokens during whose life nobody set the wall clock the store reads.
WithinTTL ==
  \A i \in DOMAIN taken :
    LET x == taken[i]
    IN x.grant.token \notin drifted => x.at < issued[x.grant.token].born + TTL

\* The same with no exception for a wall clock that is set.
ValidForTTL ==
  \A i \in DOMAIN taken :
    taken[i].at < issued[taken[i].grant.token].born + TTL

\* "A daemon restart invalidates pending confirmations" (confirmations.py:11-12):
\* nothing issued by one process is honoured by a later one.
NoRevival ==
  \A i \in DOMAIN taken :
    taken[i].epoch = issued[taken[i].grant.token].epoch

\* A token stays redeemable by its owner until it is used, its time is over or
\* the daemon restarts: sweeps, other tokens and strangers' clicks on it
\* (take answers None to them) do not use it up.
StillRedeemable ==
  \A t \in DOMAIN issued :
    /\ t \notin Used \cup drifted
    /\ issued[t].epoch = epoch
    /\ elapsed < issued[t].born + TTL
    => Takes(t, issued[t].grant.user_id)

-----------------------------------------------------------------------------
(* The store implements the grant it promises. *)

StatusOf(t) ==
  IF t \in Used THEN "used"
  ELSE IF t \in DOMAIN pending THEN "open"
  ELSE IF t \in DOMAIN issued THEN "void"
  ELSE "unissued"

Grant == INSTANCE OneShotGrant WITH
  status <- [t \in Tokens |-> StatusOf(t)],
  owner <- [t \in Tokens |->
              IF t \in DOMAIN issued THEN issued[t].grant.user_id ELSE NoUser],
  deadline <- [t \in Tokens |->
              IF t \in DOMAIN issued THEN issued[t].grant.expires_at ELSE 0],
  clock <- now

\* Every step of the store is a step of the abstract grant or none at all.
ImplementsGrant == Grant!GrantSpec
=============================================================================
