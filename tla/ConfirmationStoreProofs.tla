----------------------- MODULE ConfirmationStoreProofs -----------------------
(***************************************************************************)
(* What ConfirmationStore's runs check on two users and two tokens, proved *)
(* for every set of users, tokens and requests, every TTL and every bound. *)
(***************************************************************************)
EXTENDS ConfirmationStore, TLAPS

-----------------------------------------------------------------------------
(* The sweep *)

LEMMA SweptLemma ==
  /\ DOMAIN Swept = {t \in DOMAIN pending : ~Expired(pending[t])}
  /\ \A t \in DOMAIN Swept : Swept[t] = pending[t]
BY DEF Swept, Restrict

\* The sweep that begins an operation only forgets entries.
LEMMA SweepForgets ==
  /\ DOMAIN Swept \subseteq DOMAIN pending
  /\ \A t \in DOMAIN Swept : Swept[t] = pending[t]
BY SweptLemma

-----------------------------------------------------------------------------
(* Types *)

LEMMA InitTypeOK == StoreInit => TypeOK
BY DEF StoreInit, TypeOK

LEMMA CreateTypeOK ==
  ASSUME TypeOK, NEW t \in Tokens, NEW u \in Users, NEW r \in Requests,
         Create(t, u, r)
  PROVE  TypeOK'
<1> DEFINE p == [token |-> t, user_id |-> u, request |-> r, expires_at |-> now + TTL]
           g == [grant |-> p, born |-> elapsed, epoch |-> epoch]
<1>1. /\ pending' = With(Swept, t, p)
      /\ issued' = With(issued, t, g)
      /\ t \notin DOMAIN issued
      /\ UNCHANGED <<now, elapsed, epoch, taken, drifted>>
  BY DEF Create
<1>2. p \in PendingAction /\ p.token = t
  BY TTLAssumption DEF PendingAction, TypeOK
<1>3. g \in Issuing /\ g.grant.token = t
  BY <1>2 DEF Issuing, TypeOK
<1> HIDE DEF p, g
<1>4. /\ DOMAIN issued' = DOMAIN issued \cup {t}
      /\ issued'[t] = g
      /\ \A x \in DOMAIN issued : issued'[x] = issued[x]
  BY <1>1 DEF With
<1>5. /\ DOMAIN pending' = DOMAIN Swept \cup {t}
      /\ pending'[t] = p
      /\ \A x \in DOMAIN Swept : x # t => pending'[x] = Swept[x]
  BY <1>1 DEF With
<1>6. /\ DOMAIN pending' \subseteq DOMAIN issued'
      /\ \A x \in DOMAIN pending' : pending'[x] \in PendingAction
  BY <1>2, <1>4, <1>5, SweepForgets DEF TypeOK
<1>7. /\ DOMAIN issued' \subseteq Tokens
      /\ \A x \in DOMAIN issued' : issued'[x] \in Issuing /\ issued'[x].grant.token = x
  BY <1>3, <1>4 DEF TypeOK
<1> QED
  BY <1>1, <1>4, <1>6, <1>7 DEF TypeOK

\* Every operation that only forgets entries and takes no note keeps the types.
LEMMA ForgetTypeOK ==
  ASSUME TypeOK,
         DOMAIN pending' \subseteq DOMAIN pending,
         \A t \in DOMAIN pending' : pending'[t] = pending[t],
         UNCHANGED <<now, elapsed, epoch, issued, drifted>>,
         taken' \in Seq(Taking)
  PROVE  TypeOK'
BY DEF TypeOK

\* Entries of the history of takes.
LEMMA TakeHitFacts ==
  ASSUME TypeOK, NEW t \in Tokens, NEW u \in Users, TakeHit(t, u)
  PROVE  /\ t \in DOMAIN pending /\ ~Expired(pending[t]) /\ pending[t].user_id = u
         /\ DOMAIN pending' = DOMAIN Swept \ {t}
         /\ \A x \in DOMAIN pending' : pending'[x] = pending[x]
         /\ taken' \in Seq(Taking)
         /\ Len(taken') = Len(taken) + 1
         /\ \A i \in DOMAIN taken : taken'[i] = taken[i]
         /\ taken'[Len(taken) + 1]
              = [grant |-> pending[t], by |-> u, at |-> elapsed, epoch |-> epoch]
         /\ UNCHANGED <<now, elapsed, epoch, issued, drifted>>
<1> DEFINE x == [grant |-> pending[t], by |-> u, at |-> elapsed, epoch |-> epoch]
<1>1. t \in DOMAIN pending /\ ~Expired(pending[t]) /\ pending[t].user_id = u
  BY SweptLemma DEF TakeHit, Takes
<1>2. /\ DOMAIN pending' = DOMAIN Swept \ {t}
      /\ \A y \in DOMAIN pending' : pending'[y] = pending[y]
  BY SweepForgets DEF TakeHit, Without, Restrict
<1>3. x \in Taking
  BY <1>1 DEF TypeOK, Taking
<1>4. taken' = Append(taken, x)
  BY DEF TakeHit
<1> HIDE DEF x
<1>5. /\ taken' \in Seq(Taking) /\ Len(taken') = Len(taken) + 1
      /\ \A i \in DOMAIN taken : taken'[i] = taken[i]
      /\ taken'[Len(taken) + 1] = x
  BY <1>3, <1>4 DEF TypeOK
<1> QED
  BY <1>1, <1>2, <1>5 DEF TakeHit, x

LEMMA SweepFacts ==
  ASSUME pending' = Swept
  PROVE  /\ DOMAIN pending' = {t \in DOMAIN pending : ~Expired(pending[t])}
         /\ \A t \in DOMAIN pending' : pending'[t] = pending[t]
BY SweptLemma

LEMMA NextTypeOK == TypeOK /\ [StoreNext]_storeVars => TypeOK'
<1> SUFFICES ASSUME TypeOK, [StoreNext]_storeVars PROVE TypeOK'
  OBVIOUS
<1>1. ASSUME NEW t \in Tokens, NEW u \in Users, NEW r \in Requests, Create(t, u, r)
      PROVE  TypeOK'
  BY <1>1, CreateTypeOK
<1>2. ASSUME NEW t \in Tokens, NEW u \in Users, TakeHit(t, u)
      PROVE  TypeOK'
  <2>1. DOMAIN pending' \subseteq DOMAIN pending
    BY <1>2, TakeHitFacts, SweepForgets
  <2> QED
    BY <1>2, <2>1, TakeHitFacts, ForgetTypeOK
<1>3. ASSUME pending' = Swept,
             UNCHANGED <<now, elapsed, epoch, issued, taken, drifted>>
      PROVE  TypeOK'
  BY <1>3, SweepFacts, ForgetTypeOK DEF TypeOK
<1>4. CASE Tick
  BY <1>4 DEF Tick, TypeOK
<1>5. ASSUME NEW v \in ClockSettings, ClockSet(v)
      PROVE  TypeOK'
  BY <1>5, ClockAssumption DEF ClockSet, TypeOK
<1>6. CASE Restart
  BY <1>6 DEF Restart, TypeOK
<1>7. CASE UNCHANGED storeVars
  BY <1>7 DEF storeVars, TypeOK
<1> QED
  BY <1>1, <1>2, <1>3, <1>4, <1>5, <1>6, <1>7
  DEF StoreNext, Take, Cancel, TakeMiss, Size

\* The variables of the store keep their types, and the dict
\* (confirmations.py:42) holds each action under its own token.
THEOREM StoreTypeOK == StoreSpec => []TypeOK
BY InitTypeOK, NextTypeOK, PTL DEF StoreSpec

-----------------------------------------------------------------------------
(* The inductive invariant behind the safety properties *)

\* A live entry is the grant that was issued, by this process, not taken yet;
\* unless the wall clock was set during its life, the time it has left by the
\* clock is what real time leaves of its TTL.
LiveEntry(t) ==
  /\ pending[t] = issued[t].grant
  /\ issued[t].epoch = epoch
  /\ t \notin Used
  /\ t \notin drifted =>
       pending[t].expires_at + elapsed = issued[t].born + TTL + now

\* What has been issued stays live until it is taken, its TTL is over or the
\* process ends.
NotForgotten(t) ==
  /\ issued[t].epoch <= epoch
  /\ /\ t \notin Used \cup drifted
     /\ issued[t].epoch = epoch
     /\ elapsed < issued[t].born + TTL
     => t \in DOMAIN pending

\* An entry of the history of takes that keeps the store's promises.
GoodTake(i) ==
  LET x == taken[i]
      s == issued[x.grant.token]
  IN /\ x.grant.token \in DOMAIN issued
     /\ x.grant = s.grant
     /\ x.by = x.grant.user_id
     /\ x.epoch = s.epoch
     /\ x.grant.token \notin drifted => x.at < s.born + TTL

StoreInv ==
  /\ TypeOK
  /\ \A t \in DOMAIN pending : LiveEntry(t)
  /\ \A t \in DOMAIN issued : NotForgotten(t)
  /\ \A i \in DOMAIN taken : GoodTake(i)
  /\ SingleUse

LEMMA InitStoreInv == StoreInit => StoreInv
BY InitTypeOK DEF StoreInit, StoreInv, SingleUse, LiveEntry, NotForgotten, GoodTake

\* The tokens taken so far.
LEMMA UsedAfterTakeHit ==
  ASSUME StoreInv, NEW t \in Tokens, NEW u \in Users, TakeHit(t, u)
  PROVE  /\ DOMAIN taken = 1 .. Len(taken) /\ Len(taken) \in Nat
         /\ DOMAIN taken' = 1 .. (Len(taken) + 1)
         /\ taken'[Len(taken) + 1].grant = issued[t].grant
         /\ issued[t].grant.token = t
         /\ Used' = Used \cup {t}
<1>0. TypeOK
  BY DEF StoreInv
<1>1. DOMAIN taken = 1 .. Len(taken) /\ Len(taken) \in Nat
  BY <1>0 DEF TypeOK
<1>2. DOMAIN taken' = 1 .. (Len(taken) + 1)
  <2>1. taken' \in Seq(Taking) /\ Len(taken') = Len(taken) + 1
    BY <1>0, TakeHitFacts
  <2> QED
    BY <2>1
<1>3. taken'[Len(taken) + 1].grant = issued[t].grant /\ issued[t].grant.token = t
  <2>1. /\ t \in DOMAIN pending
        /\ taken'[Len(taken) + 1]
             = [grant |-> pending[t], by |-> u, at |-> elapsed, epoch |-> epoch]
    BY <1>0, TakeHitFacts, Zenon
  <2> QED
    BY <2>1 DEF StoreInv, LiveEntry, TypeOK
<1>4. \A i \in DOMAIN taken : taken'[i] = taken[i]
  BY <1>0, TakeHitFacts
<1> QED
  BY <1>1, <1>2, <1>3, <1>4 DEF Used

\* An entry with time left is not swept.
LEMMA SweepSparesValid ==
  ASSUME StoreInv, NEW t \in DOMAIN pending, t \notin drifted,
         elapsed < issued[t].born + TTL
  PROVE  t \in DOMAIN Swept
<1>1. pending[t].expires_at + elapsed = issued[t].born + TTL + now
  BY DEF StoreInv, LiveEntry
<1>2. pending[t].expires_at \in Nat /\ issued[t].born \in Nat
  BY DEF StoreInv, TypeOK, PendingAction, Issuing
<1>3. ~Expired(pending[t])
  BY <1>1, <1>2, TTLAssumption DEF StoreInv, TypeOK, Expired
<1> QED
  BY <1>3, SweptLemma

\* Operations that only forget expired entries keep the invariant.
LEMMA SweepStoreInv ==
  ASSUME StoreInv, pending' = Swept,
         UNCHANGED <<now, elapsed, epoch, issued, taken, drifted>>
  PROVE  StoreInv'
<1>1. TypeOK'
  BY SweepFacts, ForgetTypeOK DEF StoreInv, TypeOK
<1>2. Used' = Used /\ SingleUse'
  BY DEF Used, SingleUse, StoreInv
<1>3. \A t \in DOMAIN pending' : LiveEntry(t)'
  BY <1>2, SweepFacts DEF StoreInv, LiveEntry
<1>4. ASSUME NEW t \in DOMAIN issued' PROVE NotForgotten(t)'
  BY <1>2, SweepSparesValid, SweptLemma DEF StoreInv, NotForgotten
<1>5. \A i \in DOMAIN taken' : GoodTake(i)'
  BY DEF StoreInv, GoodTake
<1> QED
  BY <1>1, <1>2, <1>3, <1>4, <1>5 DEF StoreInv

LEMMA CreateStoreInv ==
  ASSUME StoreInv, NEW t \in Tokens, NEW u \in Users, NEW r \in Requests,
         Create(t, u, r)
  PROVE  StoreInv'
<1> DEFINE p == [token |-> t, user_id |-> u, request |-> r, expires_at |-> now + TTL]
           g == [grant |-> p, born |-> elapsed, epoch |-> epoch]
<1>1. TypeOK /\ TypeOK'
  BY CreateTypeOK DEF StoreInv
<1>2. /\ DOMAIN issued' = DOMAIN issued \cup {t}
      /\ issued'[t] = g
      /\ \A x \in DOMAIN issued : x # t /\ issued'[x] = issued[x]
  BY DEF Create, With
<1>3. /\ DOMAIN pending' = DOMAIN Swept \cup {t}
      /\ pending'[t] = p
      /\ \A x \in DOMAIN Swept : x # t => pending'[x] = pending[x]
  BY SweepForgets DEF Create, With
<1>4. UNCHANGED <<now, elapsed, epoch, taken, drifted>>
  BY DEF Create
<1>5. Used' = Used /\ SingleUse'
  BY <1>4 DEF Used, SingleUse, StoreInv
<1>6. t \notin Used /\ t \notin drifted
  <2>1. t \notin DOMAIN issued
    BY <1>2
  <2> QED
    BY <2>1 DEF StoreInv, GoodTake, Used, TypeOK
<1>7. ASSUME NEW x \in DOMAIN pending' PROVE LiveEntry(x)'
  <2>1. CASE x = t
    BY <2>1, <1>1, <1>2, <1>3, <1>4, <1>5, <1>6, TTLAssumption DEF LiveEntry, TypeOK
  <2>2. CASE x # t
    <3>1. /\ x \in DOMAIN pending /\ pending'[x] = pending[x]
          /\ x \in DOMAIN issued /\ issued'[x] = issued[x]
      BY <2>2, <1>1, <1>2, <1>3, SweepForgets DEF TypeOK
    <3> QED
      BY <3>1, <1>4, <1>5 DEF StoreInv, LiveEntry
  <2> QED
    BY <2>1, <2>2
<1>8. ASSUME NEW x \in DOMAIN issued' PROVE NotForgotten(x)'
  <2>1. CASE x = t
    BY <2>1, <1>1, <1>2, <1>3, <1>4 DEF NotForgotten, TypeOK
  <2>2. CASE x # t
    <3>1. x \in DOMAIN issued /\ issued'[x] = issued[x]
      BY <2>2, <1>2
    <3> QED
      BY <3>1, SweepSparesValid, <1>3, <1>4, <1>5 DEF StoreInv, NotForgotten
  <2> QED
    BY <2>1, <2>2
<1>9. \A i \in DOMAIN taken' : GoodTake(i)'
  BY <1>2, <1>4 DEF StoreInv, GoodTake
<1> QED
  BY <1>1, <1>5, <1>7, <1>8, <1>9 DEF StoreInv

LEMMA TakeHitStoreInv ==
  ASSUME StoreInv, NEW t \in Tokens, NEW u \in Users, TakeHit(t, u)
  PROVE  StoreInv'
<1> DEFINE n == Len(taken) + 1
<1>0. TypeOK
  BY DEF StoreInv
<1>1. /\ t \in DOMAIN pending /\ ~Expired(pending[t]) /\ pending[t].user_id = u
      /\ DOMAIN pending' = DOMAIN Swept \ {t}
      /\ \A x \in DOMAIN pending' : pending'[x] = pending[x]
      /\ taken'[n] = [grant |-> pending[t], by |-> u, at |-> elapsed, epoch |-> epoch]
      /\ UNCHANGED <<now, elapsed, epoch, issued, drifted>>
  BY <1>0, TakeHitFacts, Zenon
<1>2. \A i \in DOMAIN taken : taken'[i] = taken[i]
  BY <1>0, TakeHitFacts, Zenon
<1>3. /\ DOMAIN taken = 1 .. Len(taken) /\ Len(taken) \in Nat
      /\ DOMAIN taken' = 1 .. n
      /\ Used' = Used \cup {t}
  BY UsedAfterTakeHit, Zenon
<1>4. TypeOK'
  <2>1. DOMAIN pending' \subseteq DOMAIN pending
    BY <1>1, SweepForgets
  <2>2. taken' \in Seq(Taking)
    BY <1>0, TakeHitFacts, Zenon
  <2> QED
    BY <1>0, <1>1, <2>1, <2>2, ForgetTypeOK
<1>5. ASSUME NEW x \in DOMAIN pending' PROVE LiveEntry(x)'
  <2>1. x \in DOMAIN pending /\ x # t
    BY <1>1, SweepForgets
  <2> QED
    BY <2>1, <1>1, <1>3 DEF StoreInv, LiveEntry
<1>6. ASSUME NEW x \in DOMAIN issued' PROVE NotForgotten(x)'
  BY SweepSparesValid, <1>1, <1>3 DEF StoreInv, NotForgotten
<1>7. pending[t] = issued[t].grant /\ issued[t].epoch = epoch /\ t \notin Used
      /\ issued[t].grant.token = t /\ t \in DOMAIN issued
  BY <1>0, <1>1 DEF StoreInv, LiveEntry, TypeOK
<1>8. ASSUME NEW i \in DOMAIN taken' PROVE GoodTake(i)'
  <2>1. CASE i \in DOMAIN taken
    BY <2>1, <1>1, <1>2 DEF StoreInv, GoodTake
  <2>2. CASE i = n
    <3>1. t \notin drifted => elapsed < issued[t].born + TTL
      <4>1. t \notin drifted =>
              pending[t].expires_at + elapsed = issued[t].born + TTL + now
        BY <1>1 DEF StoreInv, LiveEntry
      <4>2. pending[t].expires_at \in Nat /\ issued[t].born \in Nat
        BY <1>0, <1>1, <1>7 DEF TypeOK, PendingAction, Issuing
      <4> QED
        BY <1>0, <1>1, <4>1, <4>2, TTLAssumption DEF TypeOK, Expired
    <3> QED
      BY <2>2, <3>1, <1>1, <1>7 DEF GoodTake
  <2> QED
    BY <2>1, <2>2, <1>3
<1>9. SingleUse'
  <2>1. taken'[n].grant.token = t
    BY <1>1, <1>7
  <2>2. \A i \in DOMAIN taken : taken'[i].grant.token # t
    BY <1>2, <1>7 DEF Used
  <2> QED
    BY <2>1, <2>2, <1>2, <1>3 DEF StoreInv, SingleUse
<1> QED
  BY <1>4, <1>5, <1>6, <1>8, <1>9 DEF StoreInv

LEMMA TickStoreInv ==
  ASSUME StoreInv, Tick
  PROVE  StoreInv'
<1>1. TypeOK /\ TypeOK'
  BY NextTypeOK DEF StoreInv, StoreNext
<1>2. Used' = Used /\ SingleUse'
  BY DEF Tick, Used, SingleUse, StoreInv
<1>3. ASSUME NEW t \in DOMAIN pending' PROVE LiveEntry(t)'
  <2>1. pending[t].expires_at \in Nat /\ issued[t].born \in Nat
    BY <1>1 DEF Tick, TypeOK, PendingAction, Issuing
  <2>2. LiveEntry(t)
    BY DEF Tick, StoreInv
  <2>3. t \notin drifted =>
          pending[t].expires_at + elapsed' = issued[t].born + TTL + now'
    <3>1. t \notin drifted => pending[t].expires_at + elapsed = issued[t].born + TTL + now
      BY <2>2 DEF LiveEntry
    <3>2. elapsed' = elapsed + 1 /\ now' = now + 1 /\ elapsed \in Nat /\ now \in Nat
      BY <1>1 DEF Tick, TypeOK
    <3> QED
      BY <2>1, <3>1, <3>2, TTLAssumption
  <2> QED
    BY <1>2, <2>2, <2>3 DEF Tick, LiveEntry
<1>4. ASSUME NEW t \in DOMAIN issued' PROVE NotForgotten(t)'
  <2>1. issued[t].born \in Nat
    BY <1>1 DEF Tick, TypeOK, Issuing
  <2>2. elapsed' < issued[t].born + TTL => elapsed < issued[t].born + TTL
    BY <1>1, <2>1, TTLAssumption DEF Tick, TypeOK
  <2> QED
    BY <1>2, <2>2 DEF Tick, StoreInv, NotForgotten
<1>5. \A i \in DOMAIN taken' : GoodTake(i)'
  BY DEF Tick, StoreInv, GoodTake
<1> QED
  BY <1>1, <1>2, <1>3, <1>4, <1>5 DEF StoreInv

LEMMA ClockSetStoreInv ==
  ASSUME StoreInv, NEW v \in ClockSettings, ClockSet(v)
  PROVE  StoreInv'
<1>1. TypeOK'
  BY NextTypeOK DEF StoreInv, StoreNext
<1>2. Used' = Used /\ SingleUse'
  BY DEF ClockSet, Used, SingleUse, StoreInv
<1>3. \A t \in DOMAIN pending' : LiveEntry(t)'
  BY <1>2 DEF ClockSet, StoreInv, LiveEntry
<1>4. \A t \in DOMAIN issued' : NotForgotten(t)'
  BY <1>2 DEF ClockSet, StoreInv, NotForgotten
<1>5. \A i \in DOMAIN taken' : GoodTake(i)'
  BY DEF ClockSet, StoreInv, GoodTake
<1> QED
  BY <1>1, <1>2, <1>3, <1>4, <1>5 DEF StoreInv

LEMMA RestartStoreInv ==
  ASSUME StoreInv, Restart
  PROVE  StoreInv'
<1>1. TypeOK /\ TypeOK'
  BY NextTypeOK DEF StoreInv, StoreNext
<1>2. Used' = Used /\ SingleUse'
  BY DEF Restart, Used, SingleUse, StoreInv
<1>3. \A t \in DOMAIN pending' : LiveEntry(t)'
  BY DEF Restart
<1>4. ASSUME NEW t \in DOMAIN issued' PROVE NotForgotten(t)'
  <2>1. issued[t].epoch \in Nat /\ issued[t].epoch <= epoch
    BY <1>1 DEF Restart, StoreInv, NotForgotten, TypeOK, Issuing
  <2> QED
    BY <1>1, <2>1 DEF Restart, NotForgotten, TypeOK
<1>5. \A i \in DOMAIN taken' : GoodTake(i)'
  BY DEF Restart, StoreInv, GoodTake
<1> QED
  BY <1>1, <1>2, <1>3, <1>4, <1>5 DEF StoreInv

LEMMA NextStoreInv == StoreInv /\ [StoreNext]_storeVars => StoreInv'
<1> SUFFICES ASSUME StoreInv, [StoreNext]_storeVars PROVE StoreInv'
  OBVIOUS
<1>1. ASSUME NEW t \in Tokens, NEW u \in Users, NEW r \in Requests, Create(t, u, r)
      PROVE  StoreInv'
  BY <1>1, CreateStoreInv
<1>2. ASSUME NEW t \in Tokens, NEW u \in Users, TakeHit(t, u)
      PROVE  StoreInv'
  BY <1>2, TakeHitStoreInv
<1>3. ASSUME pending' = Swept,
             UNCHANGED <<now, elapsed, epoch, issued, taken, drifted>>
      PROVE  StoreInv'
  BY <1>3, SweepStoreInv
<1>4. CASE Tick
  BY <1>4, TickStoreInv
<1>5. ASSUME NEW v \in ClockSettings, ClockSet(v)
      PROVE  StoreInv'
  BY <1>5, ClockSetStoreInv
<1>6. CASE Restart
  BY <1>6, RestartStoreInv
<1>7. CASE UNCHANGED storeVars
  <2>1. TypeOK' /\ SingleUse'
    BY <1>7, NextTypeOK DEF StoreInv, storeVars, SingleUse
  <2> QED
    BY <1>7, <2>1 DEF storeVars, StoreInv, LiveEntry, NotForgotten, GoodTake, Used
<1> QED
  BY <1>1, <1>2, <1>3, <1>4, <1>5, <1>6, <1>7
  DEF StoreNext, Take, Cancel, TakeMiss, Size

LEMMA StoreInvariant == StoreSpec => []StoreInv
BY InitStoreInv, NextStoreInv, PTL DEF StoreSpec

-----------------------------------------------------------------------------
(* The promises of the store *)

\* No token is returned twice (confirmations.py:9, 86).
THEOREM StoreSingleUse == StoreSpec => []SingleUse
<1>1. StoreInv => SingleUse
  BY DEF StoreInv
<1> QED
  BY <1>1, StoreInvariant, PTL

\* A token is returned to the user who created it, with what that user asked
\* for (confirmations.py:8, 84).
THEOREM StoreRedeemedAsIssued == StoreSpec => []RedeemedAsIssued
<1>1. StoreInv => RedeemedAsIssued
  BY DEF StoreInv, GoodTake, RedeemedAsIssued
<1> QED
  BY <1>1, StoreInvariant, PTL

\* A token is returned less than TTL after it was created, unless the wall
\* clock was set meanwhile (confirmations.py:7, 34).
THEOREM StoreWithinTTL == StoreSpec => []WithinTTL
<1>1. StoreInv => WithinTTL
  BY DEF StoreInv, GoodTake, WithinTTL
<1> QED
  BY <1>1, StoreInvariant, PTL

\* No token outlives the process that created it (confirmations.py:11-12).
THEOREM StoreNoRevival == StoreSpec => []NoRevival
<1>1. StoreInv => NoRevival
  BY DEF StoreInv, GoodTake, NoRevival
<1> QED
  BY <1>1, StoreInvariant, PTL

\* A token with time left can be redeemed by its owner, whatever happened to
\* other tokens and whoever else clicked on it (confirmations.py:84-85).
THEOREM StoreStillRedeemable == StoreSpec => []StillRedeemable
<1>1. StoreInv => StillRedeemable
  <2> SUFFICES ASSUME StoreInv, NEW t \in DOMAIN issued,
                      t \notin Used \cup drifted, issued[t].epoch = epoch,
                      elapsed < issued[t].born + TTL
               PROVE  Takes(t, issued[t].grant.user_id)
    BY DEF StillRedeemable
  <2>1. t \in DOMAIN pending /\ pending[t] = issued[t].grant
    BY DEF StoreInv, NotForgotten, LiveEntry
  <2>2. t \in DOMAIN Swept
    BY <2>1, SweepSparesValid
  <2> QED
    BY <2>1, <2>2 DEF Takes
<1> QED
  BY <1>1, StoreInvariant, PTL

-----------------------------------------------------------------------------
(* The store implements the abstract grant. *)

\* The abstract status after a sweep: expired entries have lapsed.
LEMMA SweepStatus ==
  ASSUME StoreInv, NEW t \in Tokens
  PROVE  Grant!Lapsed(DOMAIN pending \ DOMAIN Swept)[t]
           = IF t \in Used THEN "used"
             ELSE IF t \in DOMAIN Swept THEN "open"
             ELSE IF t \in DOMAIN issued THEN "void"
             ELSE "unissued"
<1>1. \A x \in DOMAIN pending : /\ x \in DOMAIN issued
                                /\ x \notin Used
                                /\ issued[x].grant.expires_at = pending[x].expires_at
  BY DEF StoreInv, LiveEntry, TypeOK
<1> QED
  BY <1>1, SweptLemma DEF Grant!Lapsed, Grant!Overdue, StatusOf, Expired

LEMMA InitImplements == StoreInit => Grant!GrantInit
<1> SUFFICES ASSUME StoreInit PROVE Grant!GrantInit
  OBVIOUS
<1>1. Used = {} /\ DOMAIN pending = {} /\ DOMAIN issued = {} /\ now = 0
  BY DEF StoreInit, Used
<1> QED
  BY <1>1 DEF Grant!GrantInit, StatusOf

LEMMA CreateImplements ==
  ASSUME StoreInv, NEW t \in Tokens, NEW u \in Users, NEW r \in Requests,
         Create(t, u, r)
  PROVE  Grant!Issue(t, u, DOMAIN pending \ DOMAIN Swept)
<1>1. /\ t \notin DOMAIN issued
      /\ DOMAIN issued' = DOMAIN issued \cup {t}
      /\ issued'[t].grant.user_id = u /\ issued'[t].grant.expires_at = now + TTL
      /\ \A x \in DOMAIN issued : x # t /\ issued'[x] = issued[x]
      /\ DOMAIN pending' = DOMAIN Swept \cup {t}
      /\ now' = now
  BY DEF Create, With
<1>2. Used' = Used
  BY DEF Create, Used
<1>3. t \notin Used /\ t \notin DOMAIN pending
  BY <1>1 DEF StoreInv, GoodTake, Used, TypeOK
<1>4. [x \in Tokens |-> StatusOf(x)']
        = [Grant!Lapsed(DOMAIN pending \ DOMAIN Swept) EXCEPT ![t] = "open"]
  <2> DEFINE L == Grant!Lapsed(DOMAIN pending \ DOMAIN Swept)
  <2>1. L = [x \in Tokens |-> L[x]]
    BY DEF Grant!Lapsed
  <2>2. ASSUME NEW x \in Tokens
        PROVE  StatusOf(x)' = IF x = t THEN "open" ELSE L[x]
    BY <1>1, <1>2, <1>3, SweepStatus DEF StatusOf
  <2> QED
    BY <2>1, <2>2
<1> QED
  BY <1>1, <1>3, <1>4 DEF Grant!Issue, StatusOf

LEMMA TakeHitImplements ==
  ASSUME StoreInv, NEW t \in Tokens, NEW u \in Users, TakeHit(t, u)
  PROVE  Grant!Redeem(t, u, DOMAIN pending \ DOMAIN Swept)
<1>1. /\ t \in DOMAIN pending /\ ~Expired(pending[t]) /\ pending[t].user_id = u
      /\ DOMAIN pending' = DOMAIN Swept \ {t}
      /\ UNCHANGED <<now, issued>>
  BY TakeHitFacts, Zenon DEF StoreInv
<1>2. Used' = Used \cup {t}
  BY UsedAfterTakeHit, Zenon
<1>3. t \in DOMAIN issued /\ pending[t] = issued[t].grant /\ t \notin Used
      /\ pending[t].expires_at \in Nat /\ now \in Nat
  BY <1>1 DEF StoreInv, LiveEntry, TypeOK, PendingAction
<1>4. [x \in Tokens |-> StatusOf(x)']
        = [Grant!Lapsed(DOMAIN pending \ DOMAIN Swept) EXCEPT ![t] = "used"]
  <2> DEFINE L == Grant!Lapsed(DOMAIN pending \ DOMAIN Swept)
  <2>1. L = [x \in Tokens |-> L[x]]
    BY DEF Grant!Lapsed
  <2>2. ASSUME NEW x \in Tokens
        PROVE  StatusOf(x)' = IF x = t THEN "used" ELSE L[x]
    BY <1>1, <1>2, SweepStatus DEF StatusOf
  <2> QED
    BY <2>1, <2>2
<1> QED
  BY <1>1, <1>3, <1>4 DEF Grant!Redeem, StatusOf, Expired

LEMMA SweepImplements ==
  ASSUME StoreInv, pending' = Swept,
         UNCHANGED <<now, elapsed, epoch, issued, taken, drifted>>
  PROVE  Grant!Lapse(DOMAIN pending \ DOMAIN Swept)
<1>1. Used' = Used
  BY DEF Used
<1>2. [x \in Tokens |-> StatusOf(x)'] = Grant!Lapsed(DOMAIN pending \ DOMAIN Swept)
  <2> DEFINE L == Grant!Lapsed(DOMAIN pending \ DOMAIN Swept)
  <2>1. L = [x \in Tokens |-> L[x]]
    BY DEF Grant!Lapsed
  <2>2. ASSUME NEW x \in Tokens PROVE StatusOf(x)' = L[x]
    BY <1>1, SweepStatus DEF StatusOf
  <2> QED
    BY <2>1, <2>2
<1> QED
  BY <1>2 DEF Grant!Lapse

LEMMA NextImplements ==
  StoreInv /\ StoreInv' /\ [StoreNext]_storeVars => [Grant!GrantNext]_Grant!grantVars
<1> SUFFICES ASSUME StoreInv, StoreInv', [StoreNext]_storeVars
             PROVE  [Grant!GrantNext]_Grant!grantVars
  OBVIOUS
<1>0. (DOMAIN pending \ DOMAIN Swept) \in SUBSET Tokens
  BY DEF StoreInv, TypeOK
<1>1. ASSUME NEW t \in Tokens, NEW u \in Users, NEW r \in Requests, Create(t, u, r)
      PROVE  Grant!GrantNext
  <2>1. Grant!Issue(t, u, DOMAIN pending \ DOMAIN Swept)
    BY <1>1, CreateImplements
  <2> QED
    BY <1>0, <2>1 DEF Grant!GrantNext, Grant!Issue
<1>2. ASSUME NEW t \in Tokens, NEW u \in Users, TakeHit(t, u)
      PROVE  Grant!GrantNext
  BY <1>0, <1>2, TakeHitImplements DEF Grant!GrantNext
<1>3. ASSUME pending' = Swept,
             UNCHANGED <<now, elapsed, epoch, issued, taken, drifted>>
      PROVE  Grant!GrantNext
  BY <1>0, <1>3, SweepImplements DEF Grant!GrantNext
<1>4. ASSUME now' \in Nat, UNCHANGED <<pending, issued, taken>>
      PROVE  Grant!GrantNext
  BY <1>4 DEF Grant!GrantNext, Grant!ClockMoves, StatusOf, Used
<1>5. CASE Tick
  BY <1>4, <1>5 DEF Tick, StoreInv, TypeOK
<1>6. ASSUME NEW v \in ClockSettings, ClockSet(v)
      PROVE  Grant!GrantNext
  BY <1>4, <1>6, ClockAssumption DEF ClockSet
<1>7. CASE Restart
  <2>1. Used' = Used /\ DOMAIN pending' = {} /\ UNCHANGED <<now, issued>>
    BY <1>7 DEF Restart, Used
  <2>2. \A t \in DOMAIN pending : t \in DOMAIN issued
    BY DEF StoreInv, TypeOK
  <2>3. Grant!VoidAll
    BY <2>1, <2>2 DEF Grant!VoidAll, StatusOf
  <2> QED
    BY <2>3 DEF Grant!GrantNext
<1>8. CASE UNCHANGED storeVars
  BY <1>8 DEF storeVars, Grant!grantVars, StatusOf, Used
<1> QED
  BY <1>1, <1>2, <1>3, <1>5, <1>6, <1>7, <1>8
  DEF StoreNext, Take, Cancel, TakeMiss, Size

\* The dict, its sweeps and its two-step tests implement the grant that the
\* module's docstring promises (confirmations.py:1-13).
THEOREM StoreImplementsGrant == StoreSpec => ImplementsGrant
BY InitImplements, NextImplements, StoreInvariant, PTL
DEF StoreSpec, ImplementsGrant, Grant!GrantSpec
=============================================================================
