----------------------------- MODULE BotProofs -----------------------------
(***************************************************************************)
(* The bot uses the confirmation store as the store expects to be used:    *)
(* BotSpec implements StoreSpec, so what ConfirmationStoreProofs proves of *)
(* the store holds in every behaviour of the running daemon, for every     *)
(* number of users, updates, tokens and faults.                            *)
(***************************************************************************)
EXTENDS Bot, ConfirmationStoreProofs

\* The update being handled exists, and nothing is left of the one before.
QueueInv ==
  /\ sent \in Seq(UpdateType)
  /\ acked \in 0 .. fetched /\ fetched \in 0 .. Len(sent) /\ done \in 0 .. fetched
  /\ phase \in {"running", "stopping", "down"}
  /\ group \in {"idle", "guard", "handler"}
  /\ group # "idle" => done < fetched /\ phase # "down"
  /\ group = "idle" => todo = <<>>

LEMMA InitQueueInv == BotInit => QueueInv
BY DEF BotInit, QueueInv

-----------------------------------------------------------------------------
(* Users, polling and the process *)

LEMMA UpdateTyped ==
  ASSUME TypeOK, NEW u \in Users, NEW c \in Commands \cup Presses,
         NEW a \in Args \cup {NoArg}, NEW t \in Tokens \cup {NoToken}
  PROVE  Update(u, c, a, t) \in UpdateType
BY DEF Update, UpdateType, TypeOK

LEMMA UserSendsQueueInv ==
  ASSUME TypeOK, QueueInv, NEW u \in Users, UserSends(u)
  PROVE  QueueInv'
<1>1. \E x \in UpdateType : sent' = Append(sent, x)
  <2>1. CASE \E c \in Commands, a \in Args :
               sent' = Append(sent, Update(u, c, a, NoToken))
    BY <2>1, UpdateTyped
  <2>2. CASE \E c \in Presses, t \in Tokens :
               sent' = Append(sent, Update(u, c, NoArg, t))
    BY <2>2, UpdateTyped
  <2> QED
    BY <2>1, <2>2, Zenon DEF UserSends
<1>2. sent' \in Seq(UpdateType) /\ Len(sent') = Len(sent) + 1
  BY <1>1 DEF QueueInv
<1>3. UNCHANGED <<acked, fetched, done, phase, group, todo>>
  BY DEF UserSends, handlerVars
<1> QED
  BY <1>2, <1>3 DEF QueueInv

LEMMA ProcessQueueInv ==
  ASSUME QueueInv, Poll \/ Signal \/ Stopped \/ Crash \/ Start
  PROVE  QueueInv'
<1>1. CASE Poll
  BY <1>1 DEF Poll, QueueInv, handlerVars
<1>2. CASE Signal
  BY <1>2 DEF Signal, QueueInv, handlerVars
<1>3. CASE Stopped
  BY <1>3 DEF Stopped, QueueInv, handlerVars, queueVars
<1>4. CASE Crash
  BY <1>4 DEF Crash, QueueInv, handlerVars, queueVars
<1>5. CASE Start
  BY <1>5 DEF Start, QueueInv, handlerVars
<1> QED
  BY <1>1, <1>2, <1>3, <1>4, <1>5

-----------------------------------------------------------------------------
(* Handling *)

\* A step of a script keeps the update it belongs to.
LEMMA StepQueueInv ==
  ASSUME QueueInv, todo # <<>>, UNCHANGED <<queueVars, phase, group>>
  PROVE  QueueInv'
BY DEF QueueInv, queueVars

LEMMA HandlingQueueInv ==
  ASSUME QueueInv, Handling
  PROVE  QueueInv'
<1>1. CASE Dispatch
  BY <1>1 DEF Dispatch, QueueInv, queueVars
<1>2. CASE GuardEnds
  <2>1. CASE Denied(Current) /\ ~failed
    BY <1>2, <2>1 DEF GuardEnds, QueueInv
  <2>2. CASE ~(Denied(Current) /\ ~failed)
    BY <1>2, <2>2 DEF GuardEnds, QueueInv
  <2> QED
    BY <2>1, <2>2
<1>3. CASE HandlerEnds
  BY <1>3 DEF HandlerEnds, QueueInv
<1>4. CASE TelegramTakes \/ TelegramRaises \/ AuditWrites \/ AuditRaises
           \/ AnswerReturns \/ ListReturns \/ ItemReturns
           \/ OciPerforms \/ ActReturns \/ OciRaises
  <2>1. todo # <<>> /\ UNCHANGED <<queueVars, phase, group>>
    <3>1. CASE TelegramTakes
      BY <3>1 DEF TelegramTakes, Doing, Continue
    <3>2. CASE TelegramRaises
      BY <3>2 DEF TelegramRaises, Doing, Raise
    <3>3. CASE AuditWrites
      BY <3>3 DEF AuditWrites, Doing, Continue
    <3>4. CASE AuditRaises
      BY <3>4 DEF AuditRaises, Doing, Raise
    <3>5. CASE AnswerReturns
      BY <3>5, Zenon DEF AnswerReturns, Miss, Hit, Doing, Continue
    <3>6. CASE ListReturns
      BY <3>6, Zenon DEF ListReturns, Doing, Continue
    <3>7. CASE ItemReturns
      BY <3>7 DEF ItemReturns, Doing, Continue
    <3>8. CASE OciPerforms
      BY <3>8 DEF OciPerforms, Doing, Continue
    <3>9. CASE ActReturns
      BY <3>9 DEF ActReturns, Doing, Continue
    <3>10. CASE OciRaises
      BY <3>10 DEF OciRaises, Doing, Raise
    <3> QED
      BY <1>4, <3>1, <3>2, <3>3, <3>4, <3>5, <3>6, <3>7, <3>8, <3>9, <3>10
  <2> QED
    BY <2>1, StepQueueInv
<1> QED
  BY <1>1, <1>2, <1>3, <1>4 DEF Handling

LEMMA NextQueueInv == TypeOK /\ QueueInv /\ [BotNext]_botVars => QueueInv'
<1> SUFFICES ASSUME TypeOK, QueueInv, [BotNext]_botVars
             PROVE  QueueInv'
  OBVIOUS
<1>1. CASE \E u \in Users : UserSends(u)
  BY <1>1, UserSendsQueueInv
<1>2. CASE Poll \/ Signal \/ Stopped \/ Crash \/ Start
  BY <1>2, ProcessQueueInv
<1>3. CASE Handling
  BY <1>3, HandlingQueueInv
<1>4. CASE TimePasses
  BY <1>4 DEF TimePasses, QueueInv, queueVars, handlerVars
<1>5. CASE UNCHANGED botVars
  BY <1>5 DEF botVars, QueueInv, queueVars, handlerVars
<1> QED
  BY <1>1, <1>2, <1>3, <1>4, <1>5 DEF BotNext

-----------------------------------------------------------------------------
(* What the bot does to the store *)

\* While a handler runs, its update is one that a user has sent.
LEMMA CurrentTyped ==
  ASSUME QueueInv, todo # <<>>
  PROVE  Current \in UpdateType
<1>1. done + 1 \in 1 .. Len(sent)
  BY DEF QueueInv
<1> QED
  BY <1>1 DEF QueueInv, Current

\* A press takes the token it names, for the user who pressed, or sweeps.
LEMMA AnswerReturnsStore ==
  ASSUME TypeOK, QueueInv, AnswerReturns
  PROVE  [StoreNext]_storeVars
<1> DEFINE u == Current
<1>1. u.user \in Users
  BY CurrentTyped DEF AnswerReturns, Miss, Hit, Doing, UpdateType
<1>2. CASE UNCHANGED storeVars
  BY <1>2
<1>3. CASE TakeMiss(u.token, u.user)
  <2>1. Size
    BY <1>3 DEF TakeMiss, Size
  <2> QED
    BY <2>1 DEF StoreNext
<1>4. CASE TakeHit(u.token, u.user)
  <2>1. u.token \in DOMAIN pending
    BY <1>4, SweepForgets DEF TakeHit, Takes
  <2>2. u.token \in Tokens
    BY <2>1 DEF TypeOK
  <2> QED
    BY <1>1, <1>4, <2>2 DEF StoreNext, Take
<1> QED
  BY <1>2, <1>3, <1>4, Zenon DEF AnswerReturns, Miss, Hit

\* A confirmed command creates an action on an instance that exists, for the
\* user who sent it.
LEMMA ListReturnsStore ==
  ASSUME TypeOK, QueueInv, ListReturns
  PROVE  [StoreNext]_storeVars
<1> DEFINE u == Current
           r == [instance |-> u.arg, action |-> OciAction[u.cmd]]
<1>1. u.user \in Users
  BY CurrentTyped DEF ListReturns, Doing, UpdateType
<1>2. CASE UNCHANGED storeVars
  BY <1>2
<1>3. ASSUME u.cmd \in ConfirmedCommands, Found(u.arg),
             NEW t \in Tokens, Create(t, u.user, r)
      PROVE  StoreNext
  <2>1. u.arg \in Instances
    BY <1>3, ListingsAssumption DEF Found, Range
  <2>2. OciAction[u.cmd] \in ConfirmedActions
    BY <1>3 DEF ConfirmedActions
  <2>3. r \in Requests
    BY <2>1, <2>2, RequestsAssumption
  <2> QED
    BY <1>1, <1>3, <2>3 DEF StoreNext
<1>4. \/ UNCHANGED storeVars
      \/ /\ u.cmd \in ConfirmedCommands
         /\ NeedsArgument(u.cmd) => Found(u.arg)
         /\ \E t \in Tokens : Create(t, u.user, r)
  BY Zenon DEF ListReturns
<1> QED
  BY <1>2, <1>3, <1>4 DEF NeedsArgument, LifecycleCommands

LEMMA NextStore == TypeOK /\ QueueInv /\ [BotNext]_botVars => [StoreNext]_storeVars
<1> SUFFICES ASSUME TypeOK, QueueInv, [BotNext]_botVars
             PROVE  [StoreNext]_storeVars
  OBVIOUS
<1>1. CASE AnswerReturns
  BY <1>1, AnswerReturnsStore
<1>2. CASE ListReturns
  BY <1>2, ListReturnsStore
<1>3. CASE Start
  BY <1>3 DEF Start, StoreNext
<1>4. CASE TimePasses
  BY <1>4 DEF TimePasses, StoreNext
<1>5. CASE \E u \in Users : UserSends(u)
  BY <1>5 DEF UserSends
<1>6. CASE Poll \/ Signal \/ Stopped \/ Crash
  BY <1>6 DEF Poll, Signal, Stopped, Crash
<1>7. CASE Dispatch \/ GuardEnds \/ HandlerEnds
  BY <1>7 DEF Dispatch, GuardEnds, HandlerEnds
<1>8. CASE \/ TelegramTakes \/ TelegramRaises \/ AuditWrites \/ AuditRaises
           \/ ItemReturns \/ OciPerforms \/ ActReturns \/ OciRaises
  BY <1>8 DEF TelegramTakes, TelegramRaises, AuditWrites, AuditRaises,
              ItemReturns, OciPerforms, ActReturns, OciRaises
<1>9. CASE UNCHANGED botVars
  BY <1>9 DEF botVars
<1> QED
  BY <1>1, <1>2, <1>3, <1>4, <1>5, <1>6, <1>7, <1>8, <1>9 DEF BotNext, Handling

-----------------------------------------------------------------------------
(* The theorems *)

LEMMA BotInvariant == BotSpec => [](TypeOK /\ QueueInv)
<1>1. BotInit => TypeOK /\ QueueInv
  BY InitTypeOK, InitQueueInv DEF BotInit
<1>2. TypeOK /\ QueueInv /\ [BotNext]_botVars => (TypeOK /\ QueueInv)'
  BY NextStore, NextQueueInv, NextTypeOK
<1> QED
  BY <1>1, <1>2, PTL DEF BotSpec

\* Whatever users press, Telegram and OCI answer and the process goes through,
\* the daemon uses the store by its operations only, for users and requests
\* that exist: every behaviour of the bot is one of the store.
THEOREM BotImplementsStore == BotSpec => StoreSpec
<1>1. BotInit => StoreInit
  BY DEF BotInit
<1>2. TypeOK /\ QueueInv /\ [BotNext]_botVars => [StoreNext]_storeVars
  BY NextStore
<1> QED
  BY <1>1, <1>2, BotInvariant, PTL DEF BotSpec, StoreSpec

\* In the running daemon a token is honoured at most once.
THEOREM BotSingleUse == BotSpec => []SingleUse
BY BotImplementsStore, StoreSingleUse, PTL

\* What a click executes or cancels is what its own user asked for.
THEOREM BotRedeemedAsIssued == BotSpec => []RedeemedAsIssued
BY BotImplementsStore, StoreRedeemedAsIssued, PTL

\* A confirmation outlives neither its TTL nor the process.
THEOREM BotWithinTTL == BotSpec => [](WithinTTL /\ NoRevival)
BY BotImplementsStore, StoreWithinTTL, StoreNoRevival, PTL

-----------------------------------------------------------------------------
(* To Telegram *)

LEMMA InitProcess == ASSUME BotInit PROVE Process!DaemonInit
BY DEF BotInit, Process!DaemonInit

\* Starting an update and working on it leave Telegram's queue alone; ending it is
\* Handle.
LEMMA HandlingProcess ==
  ASSUME QueueInv, Handling
  PROVE  [Process!DaemonNext]_(Process!daemonVars)
<1>1. ASSUME UNCHANGED <<queueVars, phase>>
      PROVE  [Process!DaemonNext]_(Process!daemonVars)
  BY <1>1 DEF queueVars, Process!daemonVars
<1>2. ASSUME done < fetched, phase # "down", done' = done + 1,
             UNCHANGED <<sent, acked, fetched, phase>>
      PROVE  [Process!DaemonNext]_(Process!daemonVars)
  BY <1>2 DEF Process!Handle, Process!DaemonNext
<1>3. CASE GuardEnds
  <2>1. done < fetched /\ phase # "down" /\ UNCHANGED <<sent, acked, fetched, phase>>
    BY <1>3 DEF GuardEnds, QueueInv
  <2>2. done' = done + 1 \/ done' = done
    BY <1>3 DEF GuardEnds
  <2> QED
    BY <1>1, <1>2, <2>1, <2>2 DEF queueVars
<1>4. CASE HandlerEnds
  BY <1>2, <1>4 DEF HandlerEnds, QueueInv
<1>5. CASE Dispatch \/ TelegramTakes \/ TelegramRaises \/ AuditWrites \/ AuditRaises
           \/ ItemReturns \/ OciPerforms \/ ActReturns \/ OciRaises
  BY <1>1, <1>5 DEF Dispatch, TelegramTakes, TelegramRaises, AuditWrites, AuditRaises,
                    ItemReturns, OciPerforms, ActReturns, OciRaises, Continue, Raise
<1>6. CASE AnswerReturns \/ ListReturns
  BY <1>1, <1>6, Zenon DEF AnswerReturns, Miss, Hit, ListReturns, Continue
<1> QED
  BY <1>3, <1>4, <1>5, <1>6 DEF Handling

LEMMA NextProcess ==
  ASSUME QueueInv, [BotNext]_botVars
  PROVE  [Process!DaemonNext]_(Process!daemonVars)
<1>1. CASE Handling
  BY <1>1, HandlingProcess
<1>2. CASE \E u \in Users : UserSends(u)
  <2>1. \E y : sent' = Append(sent, y)
    BY <1>2, Zenon DEF UserSends
  <2>2. Len(sent') = Len(sent) + 1
    BY <2>1 DEF QueueInv
  <2> QED
    BY <1>2, <2>2 DEF UserSends, Process!Send, Process!DaemonNext
<1>3. CASE Poll
  BY <1>3 DEF Poll, Process!Fetch, Process!DaemonNext
<1>4. CASE Signal
  BY <1>4 DEF Signal, Process!Quit, Process!DaemonNext
<1>5. CASE Stopped
  BY <1>5 DEF Stopped, queueVars, Process!Finish, Process!DaemonNext
<1>6. CASE Crash
  BY <1>6 DEF Crash, queueVars, Process!Die, Process!DaemonNext
<1>7. CASE Start
  BY <1>7 DEF Start, Process!Launch, Process!DaemonNext
<1>8. CASE TimePasses \/ UNCHANGED botVars
  BY <1>8 DEF TimePasses, botVars, queueVars, Process!daemonVars
<1> QED
  BY <1>1, <1>2, <1>3, <1>4, <1>5, <1>6, <1>7, <1>8 DEF BotNext

\* What the bot does with Telegram's queue, whatever its handlers do and whatever
\* fails, is what Daemon describes: updates are handled once and in order, and a
\* process that starts leaves alone what was sent before (main.py:93, 102-108).
THEOREM BotImplementsDaemon == BotSpec => ImplementsDaemon
<1>1. QueueInv /\ [BotNext]_botVars => [Process!DaemonNext]_(Process!daemonVars)
  BY NextProcess
<1>2. BotInit => Process!DaemonInit
  BY InitProcess
<1> QED
  BY <1>1, <1>2, BotInvariant, PTL DEF BotSpec, ImplementsDaemon, Process!DaemonSpec
=============================================================================
