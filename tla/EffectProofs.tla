---------------------------- MODULE EffectProofs ----------------------------
(***************************************************************************)
(* What the bot makes OCI do: nothing that was not confirmed, and nothing  *)
(* twice; and the types of its variables.                                  *)
(***************************************************************************)
EXTENDS ScriptProofs

-----------------------------------------------------------------------------
(* The invariant *)

\* Before update i, the owner of t asked for what t would do.
Asked(t, i) ==
  \E k \in 1 .. (i - 1) :
    /\ sent[k].user = issued[t].grant.user_id
    /\ sent[k].cmd \in ConfirmedCommands
    /\ OciAction[sent[k].cmd] = issued[t].grant.request.action
    /\ sent[k].arg = issued[t].grant.request.instance

Honoured(t) ==
  \E j \in DOMAIN taken :
    taken[j].grant.token = t /\ taken[j].at < issued[t].born + TTL

\* Update id entitles the bot to x: x needs no confirmation, or the update is
\* the click that confirms it.
Justified(id, x) ==
  \/ x.token = NoToken /\ x.action \notin ConfirmedActions
  \/ /\ sent[id].cmd = "confirm" /\ sent[id].token = x.token /\ Check(sent[id].user)
     /\ x.token \in DOMAIN issued
     /\ issued[x.token].grant.user_id = sent[id].user
     /\ issued[x.token].grant.request = [instance |-> x.instance, action |-> x.action]
     /\ Honoured(x.token)

\* Only a token that was issued has buttons, and only buttons are pressed.
HistoryInv ==
  /\ drifted = {}
  /\ DOMAIN shown = Tokens
  /\ \A t \in Tokens : shown[t].text # "none" => t \in DOMAIN issued
  /\ \A t \in DOMAIN issued : Asked(t, Len(sent) + 1)
  /\ \A i \in DOMAIN sent : sent[i].cmd \in Presses =>
       sent[i].token \in DOMAIN issued /\ Asked(sent[i].token, i)

\* A script leads to no action of OCI, or a handler waits for the answer that
\* may decide on one, or for an action the current update entitles to.
ScriptInv ==
  \/ todo \in Plain(DOMAIN issued)
  \/ /\ group = "handler"
     /\ \/ todo = <<Answer>> /\ Current.cmd \in Presses
        \/ todo = <<List>>
        \/ \E x \in ActSteps : todo = <<x>> /\ Justified(done + 1, x)

\* The current update may still make OCI act.
Unacted == group # "handler" \/ Doing({"answer", "list", "act"})

EffectInv ==
  /\ oci \in Seq(EffectType)
  /\ \A k \in DOMAIN oci :
       /\ oci[k].id \in 1 .. Len(sent) /\ oci[k].id <= done + 1
       /\ Justified(oci[k].id, oci[k])
  /\ phase # "down" /\ Unacted => \A k \in DOMAIN oci : oci[k].id # done + 1
  /\ Doing({"act"}) /\ Step.token # NoToken =>
       \A k \in DOMAIN oci : oci[k].token # Step.token
  /\ OneEffectEach

BotInv == StoreInv /\ QueueInv /\ HistoryInv /\ ScriptInv /\ EffectInv

-----------------------------------------------------------------------------
(* History only grows *)

HistoryGrows ==
  /\ Len(sent) \in Nat /\ Len(sent') \in Nat /\ Len(sent) <= Len(sent')
  /\ \A i \in 1 .. Len(sent) : sent'[i] = sent[i]
  /\ DOMAIN issued \subseteq DOMAIN issued'
  /\ \A t \in DOMAIN issued : issued'[t] = issued[t]
  /\ DOMAIN taken \subseteq DOMAIN taken'
  /\ \A j \in DOMAIN taken : taken'[j] = taken[j]

LEMMA StoreHistoryGrows ==
  ASSUME TypeOK, [StoreNext]_storeVars
  PROVE  /\ DOMAIN issued \subseteq DOMAIN issued'
         /\ \A t \in DOMAIN issued : issued'[t] = issued[t]
         /\ DOMAIN taken \subseteq DOMAIN taken'
         /\ \A j \in DOMAIN taken : taken'[j] = taken[j]
<1>1. CASE \E t \in Tokens, u \in Users, r \in Requests : Create(t, u, r)
  BY <1>1 DEF Create, With
<1>2. ASSUME NEW t \in Tokens, NEW u \in Users, TakeHit(t, u)
      PROVE  /\ issued' = issued
             /\ DOMAIN taken \subseteq DOMAIN taken'
             /\ \A j \in DOMAIN taken : taken'[j] = taken[j]
  <2>1. /\ taken' \in Seq(Taking) /\ Len(taken') = Len(taken) + 1
        /\ \A i \in DOMAIN taken : taken'[i] = taken[i]
        /\ issued' = issued
    BY <1>2, TakeHitFacts
  <2> QED
    BY <2>1 DEF TypeOK
<1>3. CASE UNCHANGED <<issued, taken>>
  BY <1>3
<1>4. \/ \E t \in Tokens, u \in Users, r \in Requests : Create(t, u, r)
      \/ \E t \in Tokens, u \in Users : TakeHit(t, u)
      \/ UNCHANGED <<issued, taken>>
  BY DEF StoreNext, Take, Cancel, TakeMiss, Size, Tick, ClockSet, Restart, storeVars
<1> QED
  BY <1>1, <1>2, <1>3, <1>4

\* No handler writes to the queue, and the bot never sets the wall clock.
LEMMA HandlingQuiet ==
  ASSUME Handling
  PROVE  UNCHANGED <<sent, drifted>>
<1>1. CASE Dispatch \/ GuardEnds \/ HandlerEnds
  BY <1>1 DEF Dispatch, GuardEnds, HandlerEnds, storeVars, queueVars
<1>2. CASE \/ TelegramTakes \/ TelegramRaises \/ AuditWrites \/ AuditRaises
           \/ ItemReturns \/ OciPerforms \/ ActReturns \/ OciRaises
  BY <1>2 DEF TelegramTakes, TelegramRaises, AuditWrites, AuditRaises,
              ItemReturns, OciPerforms, ActReturns, OciRaises, Continue, Raise,
              storeVars, queueVars
<1>3. CASE AnswerReturns
  <2>1. UNCHANGED queueVars
    BY <1>3, Zenon DEF AnswerReturns, Miss, Hit, Continue
  <2>2. \/ UNCHANGED storeVars
        \/ TakeMiss(Current.token, Current.user) \/ TakeHit(Current.token, Current.user)
    BY <1>3, Zenon DEF AnswerReturns, Miss, Hit
  <2>3. drifted' = drifted
    BY <2>2 DEF storeVars, TakeMiss, TakeHit
  <2> QED
    BY <2>1, <2>3 DEF queueVars
<1>4. CASE ListReturns
  <2>1. UNCHANGED queueVars
    BY <1>4, Zenon DEF ListReturns, Continue
  <2>2. \/ UNCHANGED storeVars
        \/ \E t \in Tokens :
             Create(t, Current.user,
                    [instance |-> Current.arg, action |-> OciAction[Current.cmd]])
    BY <1>4, Zenon DEF ListReturns
  <2>3. drifted' = drifted
    BY <2>2 DEF storeVars, Create
  <2> QED
    BY <2>1, <2>3 DEF queueVars
<1> QED
  BY <1>1, <1>2, <1>3, <1>4 DEF Handling

LEMMA NextQuiet ==
  ASSUME [BotNext]_botVars
  PROVE  /\ drifted' = drifted
         /\ (\E u \in Users : UserSends(u)) \/ sent' = sent
<1>1. CASE \E u \in Users : UserSends(u)
  BY <1>1 DEF UserSends, storeVars
<1>2. CASE Handling
  BY <1>2, HandlingQuiet
<1>3. CASE Poll \/ Signal \/ Stopped \/ Crash \/ Start \/ TimePasses
  BY <1>3 DEF Poll, Signal, Stopped, Crash, Start, TimePasses, Restart, Tick,
              storeVars, queueVars
<1>4. CASE UNCHANGED botVars
  BY <1>4 DEF botVars, storeVars, queueVars
<1> QED
  BY <1>1, <1>2, <1>3, <1>4 DEF BotNext

LEMMA NextGrows ==
  ASSUME TypeOK, QueueInv, [BotNext]_botVars
  PROVE  HistoryGrows
<1>1. /\ Len(sent) \in Nat /\ Len(sent') \in Nat /\ Len(sent) <= Len(sent')
      /\ \A i \in 1 .. Len(sent) : sent'[i] = sent[i]
  <2>1. CASE \E u \in Users : UserSends(u)
    <3>1. \E y : sent' = Append(sent, y)
      BY <2>1, Zenon DEF UserSends
    <3> QED
      BY <3>1 DEF QueueInv
  <2>2. CASE sent' = sent
    BY <2>2 DEF QueueInv
  <2> QED
    BY <2>1, <2>2, NextQuiet
<1>2. [StoreNext]_storeVars
  BY NextStore
<1> QED
  BY <1>1, <1>2, StoreHistoryGrows, Zenon DEF HistoryGrows

LEMMA HonouredStable ==
  ASSUME HistoryGrows, NEW t \in DOMAIN issued, Honoured(t)
  PROVE  Honoured(t)'
BY DEF HistoryGrows, Honoured

LEMMA JustifiedStable ==
  ASSUME HistoryGrows, NEW id \in 1 .. Len(sent), NEW x, Justified(id, x)
  PROVE  Justified(id, x)'
<1>1. CASE x.token = NoToken /\ x.action \notin ConfirmedActions
  BY <1>1 DEF Justified
<1>2. CASE x.token \in DOMAIN issued /\ Honoured(x.token)
  <2>1. Honoured(x.token)'
    BY <1>2, HonouredStable
  <2>2. /\ sent'[id] = sent[id] /\ issued'[x.token] = issued[x.token]
        /\ x.token \in DOMAIN issued'
    BY <1>2 DEF HistoryGrows
  <2> QED
    BY <1>1, <2>1, <2>2 DEF Justified
<1> QED
  BY <1>1, <1>2 DEF Justified

-----------------------------------------------------------------------------
(* Only buttons that stand for what was asked for are pressed *)

\* Where nothing is sent, shown or issued, the history is as it was.
LEMMA SameHistory ==
  ASSUME HistoryInv, HistoryGrows, drifted' = drifted,
         sent' = sent, shown' = shown, issued' = issued
  PROVE  HistoryInv'
BY DEF HistoryInv, Asked

LEMMA UserSendsHistory ==
  ASSUME QueueInv, HistoryInv, HistoryGrows, drifted' = drifted,
         NEW u \in Users, UserSends(u)
  PROVE  HistoryInv'
<1>1. shown' = shown /\ issued' = issued
  BY DEF UserSends, worldVars, storeVars
<1>2. Len(sent) \in Nat /\ DOMAIN sent = 1 .. Len(sent)
  BY DEF QueueInv
<1>3. PICK y : /\ sent' = Append(sent, y)
               /\ y.cmd \in Presses =>
                    y.token \in DOMAIN issued /\ Asked(y.token, Len(sent) + 1)
  <2>1. CASE \E c \in Commands, a \in Args :
               sent' = Append(sent, Update(u, c, a, NoToken))
    <3>1. PICK c \in Commands, a \in Args :
            sent' = Append(sent, Update(u, c, a, NoToken))
      BY <2>1
    <3>2. c \notin Presses
      BY CommandsAssumption
         DEF Presses, SimpleCommands, ListCommands, LookupCommands, LifecycleCommands,
             ConfirmedCommands
    <3> QED
      BY <3>1, <3>2 DEF Update
  <2>2. CASE \E c \in Presses, t \in Tokens :
               /\ shown[t].text = "prompt"
               /\ sent' = Append(sent, Update(u, c, NoArg, t))
    <3>1. PICK c \in Presses, t \in Tokens :
            /\ shown[t].text = "prompt"
            /\ sent' = Append(sent, Update(u, c, NoArg, t))
      BY <2>2
    <3>2. t \in DOMAIN issued /\ Asked(t, Len(sent) + 1)
      BY <3>1 DEF HistoryInv
    <3> QED
      BY <3>1, <3>2 DEF Update
  <2> QED
    BY <2>1, <2>2, Zenon DEF UserSends
<1>4. /\ Len(sent') = Len(sent) + 1 /\ DOMAIN sent' = 1 .. (Len(sent) + 1)
      /\ sent'[Len(sent) + 1] = y
      /\ \A i \in 1 .. Len(sent) : sent'[i] = sent[i]
  BY <1>3 DEF QueueInv
<1>5. ASSUME NEW t \in DOMAIN issued'
      PROVE  Asked(t, Len(sent) + 1)'
  <2>1. Asked(t, Len(sent) + 1)
    BY <1>1 DEF HistoryInv
  <2> QED
    BY <1>1, <1>2, <1>4, <2>1 DEF Asked
<1>6. ASSUME NEW i \in DOMAIN sent', sent'[i].cmd \in Presses
      PROVE  sent'[i].token \in DOMAIN issued' /\ Asked(sent[i].token, i)'
  <2>1. CASE i \in 1 .. Len(sent)
    <3>1. sent'[i] = sent[i] /\ sent[i].token \in DOMAIN issued /\ Asked(sent[i].token, i)
      BY <1>2, <1>4, <1>6, <2>1 DEF HistoryInv
    <3> QED
      BY <1>1, <1>2, <1>4, <2>1, <3>1 DEF Asked
  <2>2. CASE i = Len(sent) + 1
    <3>1. y.token \in DOMAIN issued /\ Asked(y.token, i)
      BY <1>3, <1>4, <1>6, <2>2
    <3> QED
      BY <1>1, <1>2, <1>4, <2>2, <3>1 DEF Asked
  <2> QED
    BY <1>2, <1>4, <2>1, <2>2
<1> QED
  BY <1>1, <1>4, <1>5, <1>6 DEF HistoryInv

\* A message that shows something of a token that was issued.
LEMMA ShowHistory ==
  ASSUME HistoryInv, drifted' = drifted, sent' = sent, issued' = issued,
         NEW x \in PlainSteps(DOMAIN issued), shown' \in {shown, Delivered(x)}
  PROVE  HistoryInv'
<1>1. DOMAIN shown' = DOMAIN shown
  BY DEF Delivered
<1>2. \A t \in Tokens : shown'[t].text # "none" => t \in DOMAIN issued
  BY PlainKinds DEF Delivered, HistoryInv
<1> QED
  BY <1>1, <1>2 DEF HistoryInv, Asked

-----------------------------------------------------------------------------
(* What the steps of a script are *)

LEMMA WaitingTyped ==
  ASSUME QueueInv, done < fetched
  PROVE  done + 1 \in 1 .. Len(sent) /\ Current = sent[done + 1] /\ Current \in UpdateType
<1>1. done + 1 \in 1 .. Len(sent)
  BY DEF QueueInv
<1> QED
  BY <1>1 DEF QueueInv, Current

LEMMA AtPlainStep ==
  ASSUME ScriptInv, Doing({"reply", "show", "item", "audit"})
  PROVE  /\ Step \in PlainSteps(DOMAIN issued)
         /\ Tail(todo) \in Plain(DOMAIN issued)
<1>1. todo \in Plain(DOMAIN issued) /\ todo # <<>>
  BY DEF ScriptInv, Doing, Step, Answer, List, ActSteps
<1> QED
  BY <1>1, PlainSequences, Zenon DEF Step

LEMMA NotPlain ==
  ASSUME todo \in Plain(DOMAIN issued)
  PROVE  ~Doing({"answer", "list", "act", "performed"})
<1>1. CASE todo = <<>>
  BY <1>1 DEF Doing
<1>2. CASE todo # <<>>
  <2>1. Step \in PlainSteps(DOMAIN issued)
    BY <1>2, PlainSequences, Zenon DEF Step
  <2>2. Step.do \in {"reply", "item", "show", "audit"}
    BY <2>1, PlainKinds
  <2> QED
    BY <2>2 DEF Doing
<1> QED
  BY <1>1, <1>2

LEMMA AtAnswer ==
  ASSUME ScriptInv, Doing({"answer"})
  PROVE  group = "handler" /\ todo = <<Answer>> /\ Current.cmd \in Presses
<1>1. todo \notin Plain(DOMAIN issued)
  BY NotPlain DEF Doing
<1> QED
  BY <1>1 DEF ScriptInv, Doing, Step, List, ActSteps

LEMMA AtList ==
  ASSUME ScriptInv, Doing({"list"})
  PROVE  group = "handler" /\ todo = <<List>>
<1>1. todo \notin Plain(DOMAIN issued)
  BY NotPlain DEF Doing
<1> QED
  BY <1>1 DEF ScriptInv, Doing, Step, Answer, ActSteps

LEMMA AtAct ==
  ASSUME ScriptInv, Doing({"act", "performed"})
  PROVE  group = "handler" /\ Step \in ActSteps /\ todo = <<Step>> /\ Justified(done + 1, Step)
<1>1. todo \notin Plain(DOMAIN issued)
  BY NotPlain DEF Doing
<1>2. \E x \in ActSteps : todo = <<x>> /\ Justified(done + 1, x)
  BY <1>1 DEF ScriptInv, Doing, Step, Answer, List
<1>3. \A x \in ActSteps : todo = <<x>> => x = Step
  BY DEF Step
<1>4. group = "handler"
  BY <1>1 DEF ScriptInv
<1> QED
  BY <1>2, <1>3, <1>4, Zenon

LEMMA TailPlain ==
  ASSUME ScriptInv, todo # <<>>
  PROVE  Tail(todo) \in Plain(DOMAIN issued)
<1>1. CASE todo \in Plain(DOMAIN issued)
  BY <1>1, PlainSequences, Zenon
<1>2. CASE \E x : todo = <<x>>
  <2>1. Tail(todo) = <<>>
    BY <1>2
  <2> QED
    BY <2>1, PlainSequences, Zenon
<1> QED
  BY <1>1, <1>2 DEF ScriptInv

LEMMA PlainScript ==
  ASSUME todo' \in Plain(DOMAIN issued')
  PROVE  ScriptInv'
BY DEF ScriptInv, Plain, PlainSteps

LEMMA RaiseScript ==
  ASSUME ScriptInv, todo # <<>>, Raise, issued' = issued
  PROVE  todo' \in Plain(DOMAIN issued')
<1>1. Tail(todo) \in Plain(DOMAIN issued)
  BY TailPlain
<1>2. ErrorHandler \in Plain(DOMAIN issued)
  <2>1. "<error>" \in Names /\ NoTarget \in Targets
    BY DEF Names, Targets
  <2> QED
    BY <2>1, PlainStep, PlainSequences DEF ErrorHandler
<1> QED
  BY <1>1, <1>2 DEF Raise

-----------------------------------------------------------------------------
(* What follows each step *)

\* Talking to Telegram and to the audit log, and what OCI answers about an item
\* or an action, lead to nothing more.
LEMMA TalkScript ==
  ASSUME QueueInv, HistoryInv, ScriptInv,
         \/ TelegramTakes \/ TelegramRaises \/ AuditWrites \/ AuditRaises
         \/ ItemReturns \/ ActReturns \/ OciRaises
  PROVE  todo' \in Plain(DOMAIN issued') /\ issued' = issued
<1>1. issued' = issued
  BY DEF TelegramTakes, TelegramRaises, AuditWrites, AuditRaises, ItemReturns,
         ActReturns, OciRaises, storeVars
<1>2. CASE TelegramTakes \/ AuditWrites
  <2>1. Doing({"reply", "show", "item", "audit"}) /\ todo' = Tail(todo)
    BY <1>2 DEF TelegramTakes, AuditWrites, Doing, Continue
  <2> QED
    BY <2>1, <1>1, AtPlainStep
<1>3. CASE TelegramRaises \/ AuditRaises \/ OciRaises
  <2>1. todo # <<>> /\ Raise
    BY <1>3 DEF TelegramRaises, AuditRaises, OciRaises, Doing
  <2> QED
    BY <2>1, <1>1, RaiseScript
<1>4. CASE ItemReturns
  <2>1. Doing({"reply", "show", "item", "audit"}) /\ Step.do = "item" /\ todo # <<>>
    BY <1>4 DEF ItemReturns, Doing
  <2>2. /\ Step.target \in Targets
        /\ Tail(todo) \in Plain(DOMAIN issued)
    BY <2>1, AtPlainStep, PlainKinds
  <2>3. Current \in UpdateType
    BY <2>1, CurrentTyped
  <2>4. ItemFails(Current, Step.target) \in Plain(DOMAIN issued)
    <3>1. 1 \in Nat
      OBVIOUS
    <3> QED
      BY <2>2, <2>3, <3>1, ReportsPlain, Zenon
  <2>5. ItemFails(Current, Step.target) \o Tail(todo) \in Plain(DOMAIN issued)
    BY <2>2, <2>4, PlainSequences, Zenon
  <2> QED
    BY <1>1, <1>4, <2>2, <2>5 DEF ItemReturns, Continue
<1>5. CASE ActReturns
  <2>1. Doing({"act", "performed"}) /\ todo # <<>>
        /\ (todo' = Accepted(Current, Step) \/ todo' = Refused(Current, Step))
    BY <1>5 DEF ActReturns, Doing, Continue
  <2>2. Step \in ActSteps
    BY <2>1, AtAct
  <2>3. Current \in UpdateType /\ done + 1 \in DOMAIN sent /\ Current = sent[done + 1]
    BY <2>1, CurrentTyped DEF QueueInv, Current
  <2>4. Current.cmd \in Presses => Current.token \in DOMAIN issued
    BY <2>3 DEF HistoryInv
  <2>5. /\ Accepted(Current, Step) \in Plain(DOMAIN issued)
        /\ Refused(Current, Step) \in Plain(DOMAIN issued)
    BY <2>2, <2>3, <2>4, ActPlain
  <2> QED
    BY <1>1, <2>1, <2>5
<1> QED
  BY <1>1, <1>2, <1>3, <1>4, <1>5, Zenon

\* A list is followed by a report, a prompt, or a start that needs no
\* confirmation.
LEMMA ListScript ==
  ASSUME TypeOK, QueueInv, HistoryInv, ScriptInv, HistoryGrows, ListReturns
  PROVE  \/ todo' \in Plain(DOMAIN issued')
         \/ \E x \in ActSteps : /\ todo' = <<x>>
                                /\ x.token = NoToken /\ x.action \notin ConfirmedActions
<1> DEFINE u == Current
           T == DOMAIN issued'
<1>1. u \in UpdateType
  BY CurrentTyped DEF ListReturns, Doing
<1>2. Instances \subseteq Targets /\ STRING \subseteq Targets /\ u.arg \in Targets
  BY <1>1 DEF Targets, UpdateType
<1>3. Fails(u) \in Plain(T)
  <2>1. 1 \in Nat
    OBVIOUS
  <2> QED
    BY <1>1, <1>2, <2>1, ReportsPlain, Zenon
<1>4. \A n \in 1 .. MaxChunks : Reports(u, n) \in Plain(T)
  <2> TAKE n \in 1 .. MaxChunks
  <2>1. n \in Nat
    OBVIOUS
  <2> QED
    BY <1>1, <1>2, <2>1, ReportsPlain, Zenon
<1>5. \A n \in 1 .. MaxChunks, l \in Seq(Targets) : Collects(u, l, n) \in Plain(T)
  <2> TAKE n \in 1 .. MaxChunks, l \in Seq(Targets)
  <2>1. n \in Nat
    OBVIOUS
  <2> QED
    BY <1>1, <2>1, CollectsPlain, Zenon
<1>6. /\ \A l \in Listings : l \in Seq(Targets)
      /\ Services \in Seq(Targets)
      /\ <<u.arg>> \in Seq(Targets)
  <2>1. ASSUME NEW S, S \subseteq Targets, NEW l \in Seq(S)
        PROVE  l \in Seq(Targets)
    <3>1. \A i \in 1 .. Len(l) : l[i] \in Targets
      BY <2>1
    <3> QED
      BY <3>1
  <2>2. <<u.arg>> \in Seq(Targets)
    BY <1>2
  <2> QED
    BY <1>2, <2>1, <2>2, ListingsAssumption, ServicesAssumption
<1>7. ASSUME u.cmd = "start_instance", Found(u.arg),
             todo' = <<Act(u.arg, OciAction[u.cmd], NoToken)>>
      PROVE  \E x \in ActSteps : /\ todo' = <<x>>
                                 /\ x.token = NoToken /\ x.action \notin ConfirmedActions
  <2> DEFINE x == Act(u.arg, OciAction[u.cmd], NoToken)
  <2>1. u.arg \in Instances
    BY <1>7, ListingsAssumption DEF Found, Range
  <2>2. OciAction[u.cmd] \in Actions /\ OciAction[u.cmd] \notin ConfirmedActions
    BY <1>7 DEF Actions, OciAction, LifecycleCommands, ConfirmedActions, ConfirmedCommands
  <2>3. x \in ActSteps /\ x.token = NoToken /\ x.action = OciAction[u.cmd]
    BY <2>1, <2>2 DEF Act, ActSteps
  <2> QED
    BY <1>7, <2>2, <2>3
<1>8. ASSUME u.cmd \in ConfirmedCommands, NEW t \in Tokens,
             Create(t, u.user, [instance |-> u.arg, action |-> OciAction[u.cmd]])
      PROVE  Prompts(u, t) \in Plain(T)
  <2>1. t \in T
    BY <1>8 DEF Create, With
  <2> QED
    BY <1>1, <1>8, <2>1, PromptsPlain, Zenon
<1>9. \/ todo' = Fails(u)
      \/ \E n \in 1 .. MaxChunks : todo' = Reports(u, n)
      \/ \E n \in 1 .. MaxChunks, l \in Listings \cup {<<u.arg>>, Services} :
           todo' = Collects(u, l, n)
      \/ /\ u.cmd = "start_instance" /\ Found(u.arg)
         /\ todo' = <<Act(u.arg, OciAction[u.cmd], NoToken)>>
      \/ /\ u.cmd \in ConfirmedCommands
         /\ \E t \in Tokens :
              /\ Create(t, u.user, [instance |-> u.arg, action |-> OciAction[u.cmd]])
              /\ todo' = Prompts(u, t)
  BY DEF ListReturns, Continue, NeedsArgument, LifecycleCommands
<1> HIDE DEF u, T
<1>10. \A l \in Listings \cup {<<u.arg>>, Services} : l \in Seq(Targets)
  BY <1>6
<1> QED
  BY <1>3, <1>4, <1>5, <1>7, <1>8, <1>9, <1>10, Zenon DEF T

\* A press is answered; one that takes a token to confirm leads to the action it
\* stands for, and nothing was done with that token before.
LEMMA AnswerScript ==
  ASSUME StoreInv, StoreInv', QueueInv, HistoryInv, ScriptInv, HistoryGrows,
         drifted' = drifted, AnswerReturns
  PROVE  \/ todo' \in Plain(DOMAIN issued')
         \/ \E x \in ActSteps :
              todo' = <<x>> /\ Justified(done + 1, x)' /\ x.token \notin Used
<1> DEFINE u == Current
           T == DOMAIN issued
           r == pending[u.token].request
           x == Act(r.instance, r.action, u.token)
<1>0. TypeOK /\ todo # <<>>
  BY DEF StoreInv, AnswerReturns, Miss, Hit, Doing
<1>1. /\ u \in UpdateType /\ done + 1 \in 1 .. Len(sent) /\ u = sent[done + 1]
      /\ u.cmd \in Presses /\ u.token \in T
  <2>1. u \in UpdateType /\ done + 1 \in 1 .. Len(sent) /\ u = sent[done + 1]
    BY <1>0, WaitingTyped DEF QueueInv
  <2>2. u.cmd \in Presses
    BY AtAnswer DEF AnswerReturns, Miss, Hit
  <2>3. done + 1 \in DOMAIN sent
    BY <2>1 DEF QueueInv
  <2> QED
    BY <2>1, <2>2, <2>3 DEF HistoryInv
<1>2. T \subseteq DOMAIN issued' /\ sent'[done + 1] = u /\ done' = done
  <2>1. done' = done
    BY Zenon DEF AnswerReturns, Miss, Hit, Continue, queueVars
  <2> QED
    BY <1>1, <2>1 DEF HistoryGrows
<1>3. Plain(T) \subseteq Plain(DOMAIN issued')
  BY <1>2, PlainMonotone
<1>4. ASSUME u.token \in DOMAIN pending
      PROVE  r \in Requests /\ r.instance \in Instances /\ r.action \in ConfirmedActions
             /\ r = [instance |-> r.instance, action |-> r.action]
  <2>1. r \in Requests
    BY <1>0, <1>4 DEF TypeOK, PendingAction
  <2> QED
    BY <2>1, RequestsAssumption
<1>5. CASE todo' = ClickDenied(u) \/ todo' = Misses(u)
  <2>1. \A q \in Requests : ClickDenied(u) \in Plain(T) /\ Misses(u) \in Plain(T)
    BY <1>1, PressPlain, Zenon
  <2>2. issued[u.token].grant.request \in Requests
    BY <1>0, <1>1 DEF TypeOK, Issuing, PendingAction
  <2> QED
    BY <1>3, <1>5, <2>1, <2>2
<1>6. ASSUME TakeHit(u.token, u.user), Check(u.user), u.cmd = "confirm", todo' = <<x>>
      PROVE  \E y \in ActSteps :
               todo' = <<y>> /\ Justified(done + 1, y)' /\ y.token \notin Used
  <2>1. PICK y, n, t : y = x /\ n = Len(taken) + 1 /\ t = u.token
    OBVIOUS
  <2>2. t \in Tokens /\ u.user \in Users
    BY <1>0, <1>1, <2>1 DEF TypeOK, UpdateType
  <2>3. /\ t \in DOMAIN pending /\ pending[t].user_id = u.user
        /\ issued' = issued
        /\ taken'[n]
             = [grant |-> pending[t], by |-> u.user, at |-> elapsed, epoch |-> epoch]
    BY <1>0, <1>6, <2>1, <2>2, TakeHitFacts, Zenon
  <2>4. pending[t] = issued[t].grant /\ t \notin Used /\ issued[t].grant.token = t
    BY <1>0, <1>1, <2>1, <2>3 DEF StoreInv, LiveEntry, TypeOK
  <2>5. y = [do |-> "act", instance |-> r.instance, action |-> r.action, token |-> t]
    BY <2>1 DEF Act
  <2>6. y \in ActSteps
    <3>1. r.action \in Actions
      BY <1>4, <2>1, <2>3 DEF Actions, ConfirmedActions, LifecycleCommands
    <3> QED
      BY <1>4, <2>1, <2>2, <2>3, <2>5, <3>1 DEF ActSteps
  <2>7. Honoured(t)'
    <3>1. n \in DOMAIN taken'
      BY <1>6, <2>1, <2>2, UsedAfterTakeHit
    <3>2. GoodTake(n)'
      BY <3>1 DEF StoreInv
    <3> QED
      BY <2>3, <2>4, <3>1, <3>2 DEF GoodTake, Honoured, HistoryInv
  <2>8. issued'[t].grant.request = [instance |-> r.instance, action |-> r.action]
        /\ issued'[t].grant.user_id = u.user /\ t \in DOMAIN issued'
    BY <1>1, <1>4, <2>1, <2>3, <2>4
  <2>9. Justified(done + 1, y)'
    <3>1. y.token = t /\ y.instance = r.instance /\ y.action = r.action
      BY <2>5
    <3> HIDE DEF u, r, x
    <3> QED
      BY <1>2, <1>6, <2>1, <2>7, <2>8, <3>1 DEF Justified
  <2>10. todo' = <<y>>
    BY <1>6, <2>1, Zenon
  <2>11. y.token \notin Used
    BY <2>4, <2>5
  <2> QED
    BY <2>6, <2>9, <2>10, <2>11, Zenon DEF Justified
<1>7. ASSUME TakeHit(u.token, u.user), todo' = Cancels(u, r)
      PROVE  todo' \in Plain(DOMAIN issued')
  <2>1. r \in Requests
    BY <1>0, <1>4, <1>7, SweepForgets DEF TakeHit, Takes
  <2> QED
    BY <1>1, <1>3, <1>7, <2>1, PressPlain
<1>8. \/ todo' = ClickDenied(u) \/ todo' = Misses(u)
      \/ /\ TakeHit(u.token, u.user) /\ Check(u.user)
         /\ (u.cmd = "confirm" /\ todo' = <<x>>) \/ todo' = Cancels(u, r)
  BY DEF AnswerReturns, Miss, Hit, Continue
<1> HIDE DEF u, T, r, x
<1> QED
  BY <1>5, <1>6, <1>7, <1>8, Zenon

-----------------------------------------------------------------------------
(* Every script is one of those *)

LEMMA SameScript ==
  ASSUME QueueInv, ScriptInv, HistoryGrows, UNCHANGED <<todo, group, done, issued>>
  PROVE  ScriptInv'
<1>1. CASE todo \in Plain(DOMAIN issued)
  BY <1>1, PlainScript
<1>2. CASE group = "handler"
  <2>1. done + 1 \in 1 .. Len(sent) /\ Current' = Current
    BY <1>2, WaitingTyped DEF QueueInv, Current, HistoryGrows
  <2>2. CASE todo = <<Answer>> /\ Current.cmd \in Presses
    BY <1>2, <2>1, <2>2 DEF ScriptInv
  <2>3. CASE todo = <<List>>
    BY <1>2, <2>3 DEF ScriptInv
  <2>4. CASE \E x \in ActSteps : todo = <<x>> /\ Justified(done + 1, x)
    <3>1. PICK x \in ActSteps : todo = <<x>> /\ Justified(done + 1, x)
      BY <2>4
    <3>2. Justified(done + 1, x)'
      <4>1. PICK id : id = done + 1
        OBVIOUS
      <4>2. Justified(id, x)'
        BY <2>1, <3>1, <4>1, JustifiedStable
      <4> QED
        BY <4>1, <4>2 DEF Justified
    <3> QED
      BY <1>2, <3>1, <3>2, Zenon DEF ScriptInv, Justified
  <2> QED
    BY <1>1, <1>2, <2>2, <2>3, <2>4 DEF ScriptInv
<1> QED
  BY <1>1, <1>2 DEF ScriptInv

LEMMA DispatchScript ==
  ASSUME QueueInv, Dispatch
  PROVE  todo' \in Plain(DOMAIN issued') \/ (todo' = <<Answer>> /\ ScriptInv')
<1>1. Current \in UpdateType /\ Current' = Current
  BY WaitingTyped DEF Dispatch, Current, queueVars
<1>2. CASE Current.cmd \in Presses
  BY <1>1, <1>2 DEF Dispatch, ScriptInv
<1>3. CASE Current.cmd \notin Presses
  <2>1. todo' = Guard(Current)
    BY <1>3 DEF Dispatch
  <2>2. 1 \in Nat /\ NoTarget \in Targets
    BY DEF Targets
  <2>3. Guard(Current) \in Plain(DOMAIN issued')
    BY <1>1, <2>2, ReportsPlain, Zenon
  <2> QED
    BY <2>1, <2>3
<1> QED
  BY <1>2, <1>3

LEMMA GuardEndsScript ==
  ASSUME QueueInv, GuardEnds
  PROVE  todo' \in Plain(DOMAIN issued') \/ (todo' = <<List>> /\ ScriptInv')
<1>1. CASE Denied(Current) /\ ~failed
  <2>1. todo' = <<>>
    BY <1>1 DEF GuardEnds
  <2> QED
    BY <2>1, PlainSequences, Zenon
<1>2. CASE ~(Denied(Current) /\ ~failed)
  <2>1. todo' = Command(Current) /\ group' = "handler"
    BY <1>2 DEF GuardEnds
  <2>2. Current \in UpdateType
    BY WaitingTyped DEF GuardEnds, QueueInv
  <2>3. 1 \in Nat /\ NoTarget \in Targets
    BY DEF Targets
  <2>4. /\ Succeeds(Current, 1, NoTarget) \in Plain(DOMAIN issued')
        /\ Fails(Current) \in Plain(DOMAIN issued')
    BY <2>2, <2>3, ReportsPlain, Zenon
  <2>5. <<Reply>> \in Plain(DOMAIN issued')
    BY PlainStep, PlainSequences, Zenon
  <2> QED
    BY <2>1, <2>4, <2>5 DEF Command, ScriptInv
<1> QED
  BY <1>1, <1>2

LEMMA OciPerformsScript ==
  ASSUME QueueInv, ScriptInv, HistoryGrows, OciPerforms
  PROVE  ScriptInv'
<1>1. PICK x : x = Step
  OBVIOUS
<1>2. PICK id : id = done + 1
  OBVIOUS
<1>3. group = "handler" /\ x \in ActSteps /\ Justified(id, x)
  BY <1>1, <1>2, AtAct DEF OciPerforms, Doing
<1>4. UNCHANGED <<group, done>> /\ todo' = <<Performed(x)>>
  BY <1>1 DEF OciPerforms, Continue, queueVars
<1>5. Justified(id, x)'
  BY <1>2, <1>3, WaitingTyped, JustifiedStable DEF QueueInv
<1>6. /\ Performed(x) \in ActSteps
      /\ Performed(x).token = x.token /\ Performed(x).instance = x.instance
      /\ Performed(x).action = x.action
  BY <1>3 DEF Performed, ActSteps
<1>7. Justified(id, Performed(x))'
  BY <1>5, <1>6 DEF Justified
<1> QED
  BY <1>2, <1>3, <1>4, <1>6, <1>7, Zenon DEF ScriptInv, Justified

LEMMA HandlingScript ==
  ASSUME StoreInv, StoreInv', QueueInv, HistoryInv, ScriptInv, HistoryGrows,
         drifted' = drifted, Handling
  PROVE  ScriptInv'
<1>1. CASE Dispatch
  BY <1>1, DispatchScript, PlainScript
<1>2. CASE GuardEnds
  BY <1>2, GuardEndsScript, PlainScript
<1>3. CASE HandlerEnds
  <2>1. todo' = <<>>
    BY <1>3 DEF HandlerEnds
  <2>2. todo' \in Plain(DOMAIN issued')
    BY <2>1, PlainSequences, Zenon
  <2> QED
    BY <2>2, PlainScript
<1>4. CASE \/ TelegramTakes \/ TelegramRaises \/ AuditWrites \/ AuditRaises
           \/ ItemReturns \/ ActReturns \/ OciRaises
  BY <1>4, TalkScript, PlainScript
<1>5. CASE OciPerforms
  BY <1>5, OciPerformsScript
<1>6. CASE AnswerReturns
  <2>1. CASE todo' \in Plain(DOMAIN issued')
    BY <2>1, PlainScript
  <2>2. CASE \E x \in ActSteps : todo' = <<x>> /\ Justified(done + 1, x)'
    <3>1. group' = "handler"
      BY <1>6, AtAnswer, Zenon DEF AnswerReturns, Miss, Hit, Continue
    <3> QED
      BY <2>2, <3>1, Zenon DEF ScriptInv, Justified
  <2> QED
    BY <1>6, <2>1, <2>2, AnswerScript
<1>7. CASE ListReturns
  <2>1. CASE todo' \in Plain(DOMAIN issued')
    BY <2>1, PlainScript
  <2>2. CASE \E x \in ActSteps : /\ todo' = <<x>>
                                 /\ x.token = NoToken /\ x.action \notin ConfirmedActions
    <3>1. group' = "handler"
      BY <1>7, AtList, Zenon DEF ListReturns, Continue
    <3> QED
      BY <2>2, <3>1 DEF ScriptInv, Justified
  <2>3. TypeOK
    BY DEF StoreInv
  <2> QED
    BY <1>7, <2>1, <2>2, <2>3, ListScript
<1> QED
  BY <1>1, <1>2, <1>3, <1>4, <1>5, <1>6, <1>7 DEF Handling

LEMMA NextScript ==
  ASSUME StoreInv, StoreInv', QueueInv, HistoryInv, ScriptInv, HistoryGrows,
         drifted' = drifted, [BotNext]_botVars
  PROVE  ScriptInv'
<1>1. CASE Handling
  BY <1>1, HandlingScript
<1>2. CASE \/ \E u \in Users : UserSends(u)
           \/ Poll \/ Signal \/ Stopped \/ TimePasses \/ UNCHANGED botVars
  <2>1. UNCHANGED <<todo, group, done, issued>>
    BY <1>2 DEF UserSends, Poll, Signal, Stopped, TimePasses, Tick, botVars, storeVars,
                queueVars, handlerVars
  <2> QED
    BY <2>1, SameScript
<1>3. CASE Start \/ Crash
  <2>1. todo' = <<>>
    BY <1>3 DEF Start, Crash, QueueInv, handlerVars
  <2>2. todo' \in Plain(DOMAIN issued')
    BY <2>1, PlainSequences, Zenon
  <2> QED
    BY <2>2, PlainScript
<1> QED
  BY <1>1, <1>2, <1>3 DEF BotNext

-----------------------------------------------------------------------------
(* The history, for every step *)

LEMMA NextHistory ==
  ASSUME TypeOK, QueueInv, HistoryInv, ScriptInv, HistoryGrows,
         drifted' = drifted, [BotNext]_botVars
  PROVE  HistoryInv'
<1>1. CASE \E u \in Users : UserSends(u)
  BY <1>1, UserSendsHistory
<1>2. CASE ListReturns
  <2>1. CASE issued' = issued
    BY <1>2, <2>1, HandlingQuiet, SameHistory DEF Handling, ListReturns, worldVars
  <2>2. CASE \E t \in Tokens :
               /\ Current.cmd \in ConfirmedCommands
               /\ Create(t, Current.user,
                         [instance |-> Current.arg, action |-> OciAction[Current.cmd]])
    <3>1. PICK t \in Tokens :
            /\ Current.cmd \in ConfirmedCommands
            /\ Create(t, Current.user,
                      [instance |-> Current.arg, action |-> OciAction[Current.cmd]])
      BY <2>2
    <3>2. /\ DOMAIN issued' = DOMAIN issued \cup {t}
          /\ issued'[t].grant.user_id = Current.user
          /\ issued'[t].grant.request
               = [instance |-> Current.arg, action |-> OciAction[Current.cmd]]
          /\ \A y \in DOMAIN issued : issued'[y] = issued[y] /\ y # t
      BY <3>1 DEF Create, With
    <3>3. sent' = sent /\ shown' = shown
      BY <1>2, HandlingQuiet DEF Handling, ListReturns, worldVars
    <3>4. done + 1 \in 1 .. Len(sent) /\ Current = sent[done + 1] /\ Len(sent) \in Nat
      BY <1>2, WaitingTyped DEF ListReturns, Doing, QueueInv
    <3>5. Asked(t, Len(sent) + 1)'
      BY <3>1, <3>2, <3>3, <3>4 DEF Asked
    <3>6. \A y \in DOMAIN issued : Asked(y, Len(sent) + 1)'
      BY <3>2, <3>3 DEF HistoryInv, Asked
    <3>7. \A i \in DOMAIN sent' : sent'[i].cmd \in Presses =>
            sent'[i].token \in DOMAIN issued' /\ Asked(sent[i].token, i)'
      BY <3>2, <3>3 DEF HistoryInv, Asked
    <3> QED
      BY <3>2, <3>3, <3>5, <3>6, <3>7 DEF HistoryInv
  <2>3. \/ UNCHANGED storeVars
        \/ /\ Current.cmd \in ConfirmedCommands
           /\ \E t \in Tokens :
                Create(t, Current.user,
                       [instance |-> Current.arg, action |-> OciAction[Current.cmd]])
    BY <1>2, Zenon DEF ListReturns
  <2> QED
    BY <2>1, <2>2, <2>3 DEF storeVars
<1>3. CASE TelegramTakes \/ TelegramRaises
  <2>1. sent' = sent /\ issued' = issued
    BY <1>3, HandlingQuiet DEF Handling, TelegramTakes, TelegramRaises, storeVars
  <2>2. CASE shown' = shown
    BY <2>1, <2>2, SameHistory
  <2>3. CASE Step.do \in {"show", "reply"} /\ shown' = Delivered(Step)
    <3>1. Doing({"reply", "show", "item", "audit"})
      BY <1>3, <2>3 DEF TelegramTakes, TelegramRaises, Doing
    <3>2. PICK x \in PlainSteps(DOMAIN issued) : x = Step
      BY <3>1, AtPlainStep
    <3>3. shown' = Delivered(x)
      BY <2>3, <3>2
    <3> QED
      BY <2>1, <3>3, ShowHistory
  <2> QED
    BY <1>3, <2>2, <2>3 DEF TelegramTakes, TelegramRaises, Doing, Delivered
<1>4. CASE AnswerReturns
  <2>1. \/ UNCHANGED storeVars
        \/ TakeMiss(Current.token, Current.user) \/ TakeHit(Current.token, Current.user)
    BY <1>4, Zenon DEF AnswerReturns, Miss, Hit
  <2>2. issued' = issued
    BY <2>1 DEF storeVars, TakeMiss, TakeHit
  <2>3. shown' = shown
    BY <1>4 DEF AnswerReturns, Miss, Hit, worldVars
  <2> QED
    BY <1>4, <2>2, <2>3, HandlingQuiet, SameHistory DEF Handling
<1>5. CASE \/ Dispatch \/ GuardEnds \/ HandlerEnds \/ AuditWrites \/ AuditRaises
           \/ ItemReturns \/ OciPerforms \/ ActReturns \/ OciRaises
  <2>1. shown' = shown /\ issued' = issued
    BY <1>5 DEF Dispatch, GuardEnds, HandlerEnds, AuditWrites, AuditRaises, ItemReturns,
                OciPerforms, ActReturns, OciRaises, storeVars, worldVars
  <2> QED
    BY <1>5, <2>1, HandlingQuiet, SameHistory DEF Handling
<1>6. CASE Poll \/ Signal \/ Stopped \/ Crash \/ Start \/ TimePasses \/ UNCHANGED botVars
  <2>1. shown' = shown /\ issued' = issued /\ sent' = sent
    BY <1>6 DEF Poll, Signal, Stopped, Crash, Start, TimePasses, Restart, Tick, botVars,
                storeVars, worldVars, queueVars
  <2> QED
    BY <2>1, SameHistory
<1> QED
  BY <1>1, <1>2, <1>3, <1>4, <1>5, <1>6 DEF BotNext, Handling

-----------------------------------------------------------------------------
(* What OCI has performed *)

\* A step that makes OCI perform nothing, and after which the current update
\* may act only if it has not, with a token that has not.
LEMMA SameEffects ==
  ASSUME QueueInv, EffectInv, HistoryGrows, oci' = oci, done' \in Nat, done <= done',
         (phase' # "down" /\ Unacted') => \A k \in DOMAIN oci : oci[k].id # done' + 1,
         (Doing({"act"})' /\ Step'.token # NoToken) =>
           \A k \in DOMAIN oci : oci[k].token # Step'.token
  PROVE  EffectInv'
<1>1. ASSUME NEW k \in DOMAIN oci
      PROVE  /\ oci[k].id \in 1 .. Len(sent') /\ oci[k].id <= done' + 1
             /\ Justified(oci[k].id, oci[k])'
  <2>1. PICK e, id : e = oci[k] /\ id = oci[k].id
    OBVIOUS
  <2>2. id \in 1 .. Len(sent) /\ id <= done + 1 /\ Justified(id, e)
    BY <2>1 DEF EffectInv
  <2>3. Justified(id, e)'
    BY <2>2, JustifiedStable
  <2>4. id \in 1 .. Len(sent')
    BY <2>2 DEF HistoryGrows
  <2>5. done' >= done /\ done' \in Nat /\ done \in Nat
    BY DEF QueueInv
  <2>6. id <= done' + 1
    BY <2>2, <2>5
  <2> QED
    BY <2>1, <2>3, <2>4, <2>6 DEF Justified
<1>2. oci' \in Seq(EffectType) /\ OneEffectEach'
  BY DEF EffectInv, OneEffectEach
<1>3. \A k \in DOMAIN oci' :
        /\ oci'[k].id \in 1 .. Len(sent') /\ oci'[k].id <= done' + 1
        /\ Justified(oci[k].id, oci[k])'
  BY <1>1 DEF Justified
<1> QED
  BY <1>2, <1>3 DEF EffectInv

\* The same when nothing of the script was done, or it ended.
LEMMA PausedEffects ==
  ASSUME QueueInv, EffectInv, HistoryGrows, oci' = oci,
         UNCHANGED <<todo, group, done>>, phase' \in {phase, "down"}
  PROVE  EffectInv'
<1>1. Doing({"act"})' = Doing({"act"}) /\ Step' = Step /\ Unacted' = Unacted
  BY DEF Doing, Step, Unacted
<1>2. done' \in Nat /\ done <= done'
  BY DEF QueueInv
<1>3. (phase' # "down" /\ Unacted') => \A k \in DOMAIN oci : oci[k].id # done' + 1
  BY <1>1 DEF EffectInv
<1>4. (Doing({"act"})' /\ Step'.token # NoToken) =>
        \A k \in DOMAIN oci : oci[k].token # Step'.token
  BY <1>1 DEF EffectInv
<1> QED
  BY <1>2, <1>3, <1>4, SameEffects

\* A new update begins.
LEMMA EndEffects ==
  ASSUME QueueInv, EffectInv, HistoryGrows, oci' = oci, todo' = <<>>,
         done' \in Nat, done <= done', \A k \in DOMAIN oci : oci[k].id <= done'
  PROVE  EffectInv'
<1>1. ~Doing({"act"})'
  BY DEF Doing
<1>2. \A k \in DOMAIN oci : oci[k].id # done' + 1
  <2>1. \A k \in DOMAIN oci : oci[k].id \in Nat
    BY DEF EffectInv
  <2> QED
    BY <2>1
<1> QED
  BY <1>1, <1>2, SameEffects

\* A script that leads to no action follows.
LEMMA PlainEffects ==
  ASSUME QueueInv, EffectInv, HistoryGrows, oci' = oci, done' = done, phase' = phase,
         todo' \in Plain(DOMAIN issued'),
         group' = group \/ (phase # "down" /\ Unacted)
  PROVE  EffectInv'
<1>1. ~Doing({"answer", "list", "act"})' /\ ~Doing({"act"})'
  <2>1. CASE todo' = <<>>
    BY <2>1 DEF Doing
  <2>2. CASE todo' # <<>>
    <3>1. PICK x \in PlainSteps(DOMAIN issued') : x = Head(todo')
      BY <2>2, PlainSequences, Zenon
    <3>2. Head(todo').do \in {"reply", "item", "show", "audit"}
      BY <3>1, PlainKinds
    <3> QED
      BY <3>2 DEF Doing, Step
  <2> QED
    BY <2>1, <2>2
<1>2. (phase' # "down" /\ Unacted') => phase # "down" /\ Unacted
  BY <1>1 DEF Unacted
<1>3. (phase' # "down" /\ Unacted') => \A k \in DOMAIN oci : oci[k].id # done' + 1
  BY <1>2 DEF EffectInv
<1>4. done' \in Nat /\ done <= done'
  BY DEF QueueInv
<1> QED
  BY <1>1, <1>3, <1>4, SameEffects

\* A script follows in which the update may still act, with a new token if any.
LEMMA ActEffects ==
  ASSUME QueueInv, EffectInv, HistoryGrows, oci' = oci, done' = done, phase' = phase,
         phase # "down", Unacted, NEW x, todo' = <<x>>,
         (x.do = "act" /\ x.token # NoToken) => \A k \in DOMAIN oci : oci[k].token # x.token
  PROVE  EffectInv'
<1>1. Step' = x
  BY DEF Step
<1>2. (Doing({"act"})' /\ Step'.token # NoToken) =>
        \A k \in DOMAIN oci : oci[k].token # Step'.token
  BY <1>1 DEF Doing
<1>3. \A k \in DOMAIN oci : oci[k].id # done' + 1
  BY DEF EffectInv
<1>4. done' \in Nat /\ done <= done'
  BY DEF QueueInv
<1> QED
  BY <1>2, <1>3, <1>4, SameEffects

\* OCI performs what the current update entitles to.
LEMMA OciPerformsEffects ==
  ASSUME QueueInv, ScriptInv, EffectInv, HistoryGrows, OciPerforms
  PROVE  EffectInv'
<1> DEFINE n == Len(oci) + 1
<1>1. PICK x, id, e :
        /\ x = Step /\ id = done + 1
        /\ e = [id |-> id, instance |-> x.instance, action |-> x.action, token |-> x.token]
  OBVIOUS
<1>2. group = "handler" /\ x \in ActSteps /\ Justified(id, x)
  BY <1>1, AtAct DEF OciPerforms, Doing
<1>3. /\ UNCHANGED <<group, done, phase>> /\ todo' = <<Performed(x)>>
      /\ oci' = Append(oci, e)
  BY <1>1 DEF OciPerforms, Continue, queueVars
<1>4. done < fetched /\ phase # "down" /\ id \in 1 .. Len(sent)
  BY <1>1, <1>2, WaitingTyped DEF QueueInv
<1>5. e \in EffectType
  BY <1>1, <1>2, <1>4 DEF EffectType, ActSteps, Actions
<1>6. /\ \A k \in DOMAIN oci : oci[k].id # id
      /\ x.token # NoToken => \A k \in DOMAIN oci : oci[k].token # x.token
  <2>1. Doing({"act"}) /\ Unacted
    BY DEF OciPerforms, Unacted, Doing
  <2> QED
    BY <1>1, <1>4, <2>1 DEF EffectInv
<1>7. /\ oci' \in Seq(EffectType) /\ DOMAIN oci' = DOMAIN oci \cup {n} /\ n \notin DOMAIN oci
      /\ oci'[n] = e
      /\ \A k \in DOMAIN oci : oci'[k] = oci[k]
  BY <1>3, <1>5 DEF EffectInv
<1> HIDE DEF n
<1>8. Justified(id, e)'
  <2>1. Justified(id, x)'
    BY <1>2, <1>4, JustifiedStable
  <2> QED
    BY <1>1, <2>1 DEF Justified
<1>9. ASSUME NEW k \in DOMAIN oci'
      PROVE  /\ oci'[k].id \in 1 .. Len(sent') /\ oci'[k].id <= done' + 1
             /\ Justified(oci[k].id, oci[k])'
  <2>1. PICK f, i : f = oci'[k] /\ i = f.id
    OBVIOUS
  <2>2. i \in 1 .. Len(sent) /\ i <= done + 1 /\ Justified(i, f)'
    <3>1. CASE k \in DOMAIN oci
      <4>1. f = oci[k] /\ i \in 1 .. Len(sent) /\ i <= done + 1 /\ Justified(i, f)
        BY <1>7, <2>1, <3>1 DEF EffectInv
      <4> QED
        BY <4>1, JustifiedStable
    <3>2. CASE k = n
      <4>1. f = e /\ i = id
        BY <1>1, <1>7, <2>1, <3>2
      <4> QED
        BY <1>1, <1>4, <1>8, <4>1 DEF QueueInv
    <3> QED
      BY <1>7, <3>1, <3>2
  <2>3. i \in 1 .. Len(sent') /\ i <= done' + 1
    BY <1>3, <2>2 DEF HistoryGrows
  <2> QED
    BY <2>1, <2>2, <2>3 DEF Justified
<1>10. OneEffectEach'
  <2>1. ASSUME NEW j \in DOMAIN oci', NEW k \in DOMAIN oci',
               \/ oci'[j].id = oci'[k].id
               \/ oci'[j].token = oci'[k].token /\ oci'[j].token # NoToken
        PROVE  j = k
    <3>1. CASE j \in DOMAIN oci /\ k \in DOMAIN oci
      BY <1>7, <2>1, <3>1 DEF EffectInv, OneEffectEach
    <3>2. e.id = id /\ e.token = x.token
      BY <1>1
    <3> QED
      BY <1>6, <1>7, <2>1, <3>1, <3>2
  <2> QED
    BY <2>1 DEF OneEffectEach
<1>11. ~Doing({"act"})' /\ ~Unacted'
  <2>1. Step'.do = "performed"
    BY <1>2, <1>3 DEF Step, Performed, ActSteps
  <2> QED
    BY <1>2, <1>3, <2>1 DEF Doing, Unacted
<1> QED
  BY <1>7, <1>9, <1>10, <1>11 DEF EffectInv

\* Every token of an action OCI has performed is used.
LEMMA EffectsUse ==
  ASSUME EffectInv, NEW k \in DOMAIN oci, oci[k].token # NoToken
  PROVE  oci[k].token \in Used
<1>1. Honoured(oci[k].token)
  BY DEF EffectInv, Justified
<1> QED
  BY <1>1 DEF Honoured, Used

LEMMA HandlingEffects ==
  ASSUME StoreInv, StoreInv', QueueInv, HistoryInv, ScriptInv, EffectInv, HistoryGrows,
         drifted' = drifted, Handling
  PROVE  EffectInv'
<1>0. TypeOK
  BY DEF StoreInv
<1>1. CASE Dispatch
  <2>1. /\ oci' = oci /\ done' = done /\ phase' = phase /\ phase # "down" /\ Unacted
    BY <1>1 DEF Dispatch, worldVars, queueVars, Unacted
  <2>2. CASE todo' \in Plain(DOMAIN issued')
    BY <2>1, <2>2, PlainEffects
  <2>3. CASE todo' = <<Answer>>
    BY <2>1, <2>3, ActEffects DEF Answer
  <2> QED
    BY <1>1, <2>2, <2>3, DispatchScript
<1>2. CASE GuardEnds
  <2>1. oci' = oci /\ phase' = phase /\ phase # "down" /\ Unacted
    BY <1>2 DEF GuardEnds, worldVars, QueueInv, Unacted
  <2>2. CASE Denied(Current) /\ ~failed
    <3>1. todo' = <<>> /\ done' = done + 1
      BY <1>2, <2>2 DEF GuardEnds
    <3>2. \A k \in DOMAIN oci : oci[k].id <= done'
      BY <3>1 DEF EffectInv
    <3>3. done' \in Nat /\ done <= done'
      BY <3>1 DEF QueueInv
    <3> QED
      BY <2>1, <3>1, <3>2, <3>3, EndEffects
  <2>3. CASE ~(Denied(Current) /\ ~failed)
    <3>1. done' = done
      BY <1>2, <2>3 DEF GuardEnds
    <3>2. CASE todo' \in Plain(DOMAIN issued')
      BY <2>1, <3>1, <3>2, PlainEffects
    <3>3. CASE todo' = <<List>>
      BY <2>1, <3>1, <3>3, ActEffects DEF List
    <3> QED
      BY <1>2, <3>2, <3>3, GuardEndsScript
  <2> QED
    BY <2>2, <2>3
<1>3. CASE HandlerEnds
  <2>1. oci' = oci /\ todo' = <<>> /\ done' = done + 1
    BY <1>3 DEF HandlerEnds, worldVars
  <2>2. \A k \in DOMAIN oci : oci[k].id <= done'
    BY <2>1 DEF EffectInv
  <2>3. done' \in Nat /\ done <= done'
    BY <2>1 DEF QueueInv
  <2> QED
    BY <2>1, <2>2, <2>3, EndEffects
<1>4. CASE \/ TelegramTakes \/ TelegramRaises \/ AuditWrites \/ AuditRaises
           \/ ItemReturns \/ ActReturns \/ OciRaises
  <2>1. oci' = oci /\ done' = done /\ phase' = phase /\ group' = group
    BY <1>4 DEF TelegramTakes, TelegramRaises, AuditWrites, AuditRaises, ItemReturns,
                ActReturns, OciRaises, Continue, Raise, worldVars, queueVars
  <2> QED
    BY <1>4, <2>1, TalkScript, PlainEffects
<1>5. CASE OciPerforms
  BY <1>5, OciPerformsEffects
<1>6. CASE AnswerReturns
  <2>1. oci' = oci /\ done' = done /\ phase' = phase /\ group' = group
    BY <1>6, Zenon DEF AnswerReturns, Miss, Hit, Continue, worldVars, queueVars
  <2>2. CASE todo' \in Plain(DOMAIN issued')
    BY <2>1, <2>2, PlainEffects
  <2>3. CASE \E x \in ActSteps : todo' = <<x>> /\ x.token \notin Used
    <3>1. PICK x \in ActSteps : todo' = <<x>> /\ x.token \notin Used
      BY <2>3
    <3>2. x.token # NoToken => \A k \in DOMAIN oci : oci[k].token # x.token
      BY <3>1, EffectsUse
    <3>3. phase # "down" /\ Unacted
      BY <1>6, AtAnswer DEF AnswerReturns, Miss, Hit, QueueInv, Unacted, Doing
    <3> QED
      BY <2>1, <3>1, <3>2, <3>3, ActEffects
  <2> QED
    BY <1>6, <2>2, <2>3, AnswerScript
<1>7. CASE ListReturns
  <2>1. oci' = oci /\ done' = done /\ phase' = phase /\ group' = group
    BY <1>7, Zenon DEF ListReturns, Continue, worldVars, queueVars
  <2>2. CASE todo' \in Plain(DOMAIN issued')
    BY <2>1, <2>2, PlainEffects
  <2>3. CASE \E x \in ActSteps : todo' = <<x>> /\ x.token = NoToken
    <3>1. PICK x \in ActSteps : todo' = <<x>> /\ x.token = NoToken
      BY <2>3
    <3>2. phase # "down" /\ Unacted
      BY <1>7, AtList DEF ListReturns, QueueInv, Unacted, Doing
    <3> QED
      BY <2>1, <3>1, <3>2, ActEffects
  <2> QED
    BY <1>0, <1>7, <2>2, <2>3, ListScript
<1> QED
  BY <1>1, <1>2, <1>3, <1>4, <1>5, <1>6, <1>7 DEF Handling

LEMMA NextEffects ==
  ASSUME StoreInv, StoreInv', QueueInv, HistoryInv, ScriptInv, EffectInv, HistoryGrows,
         drifted' = drifted, [BotNext]_botVars
  PROVE  EffectInv'
<1>1. CASE Handling
  BY <1>1, HandlingEffects
<1>2. CASE \/ \E u \in Users : UserSends(u)
           \/ Poll \/ Signal \/ Stopped \/ TimePasses \/ UNCHANGED botVars
  <2>1. oci' = oci /\ UNCHANGED <<todo, group, done>>
    BY <1>2 DEF UserSends, Poll, Signal, Stopped, TimePasses, botVars,
                queueVars, handlerVars, worldVars
  <2>2. CASE phase' \in {phase, "down"}
    BY <2>1, <2>2, PausedEffects
  <2>3. CASE Signal
    <3>1. phase # "down" /\ UNCHANGED <<todo, group, done>>
      BY <2>1, <2>3 DEF Signal
    <3>2. Doing({"act"})' = Doing({"act"}) /\ Step' = Step /\ Unacted' = Unacted
      BY <3>1 DEF Doing, Step, Unacted
    <3>3. done' \in Nat /\ done <= done'
      BY <3>1 DEF QueueInv
    <3>4. (phase' # "down" /\ Unacted') => \A k \in DOMAIN oci : oci[k].id # done' + 1
      BY <3>1, <3>2 DEF EffectInv
    <3>5. (Doing({"act"})' /\ Step'.token # NoToken) =>
            \A k \in DOMAIN oci : oci[k].token # Step'.token
      BY <3>2 DEF EffectInv
    <3> QED
      BY <2>1, <3>3, <3>4, <3>5, SameEffects
  <2> QED
    BY <1>2, <2>2, <2>3 DEF UserSends, Poll, Stopped, TimePasses, botVars
<1>3. CASE Crash
  <2>1. /\ oci' = oci /\ todo' = <<>> /\ done' = done /\ phase' = "down"
    BY <1>3 DEF Crash, worldVars, queueVars
  <2>2. ~Doing({"act"})'
    BY <2>1 DEF Doing
  <2>3. done' \in Nat /\ done <= done'
    BY <2>1 DEF QueueInv
  <2> QED
    BY <2>1, <2>2, <2>3, SameEffects
<1>4. CASE Start
  <2>1. oci' = oci /\ todo' = <<>> /\ done' = Len(sent)
    BY <1>4 DEF Start, worldVars, handlerVars, QueueInv
  <2>2. done' \in Nat /\ done <= done' /\ \A k \in DOMAIN oci : oci[k].id <= done'
    BY <2>1 DEF QueueInv, EffectInv
  <2> QED
    BY <2>1, <2>2, EndEffects
<1> QED
  BY <1>1, <1>2, <1>3, <1>4 DEF BotNext

-----------------------------------------------------------------------------
(* The audit log, and the types of the bot's variables *)

RecordType ==
  [id : Nat, user : Users, cmd : Names, result : Results, target : Targets,
   action : Actions \cup {"none"}]

LogInv ==
  /\ failed \in BOOLEAN /\ (group = "idle" => failed = FALSE)
  /\ log \in Seq(RecordType)
  /\ \A k \in DOMAIN log : log[k].id \in 1 .. Len(sent)

\* The history of presses that missed only ever gains the current update.
LEMMA NextMissed ==
  ASSUME QueueInv, [BotNext]_botVars
  PROVE  \/ missed' = missed
         \/ missed' = missed \cup {done + 1} /\ done + 1 \in 1 .. Len(sent)
<1>1. CASE AnswerReturns
  <2>1. missed' = missed \/ missed' = missed \cup {done + 1}
    BY <1>1, Zenon DEF AnswerReturns, Miss, Hit
  <2>2. todo # <<>>
    BY <1>1 DEF AnswerReturns, Doing
  <2>3. done + 1 \in 1 .. Len(sent)
    BY <2>2 DEF QueueInv
  <2> QED
    BY <2>1, <2>3
<1>2. CASE TelegramTakes \/ AuditWrites \/ OciPerforms
  BY <1>2 DEF TelegramTakes, AuditWrites, OciPerforms
<1>3. CASE TelegramRaises \/ AuditRaises \/ OciRaises
  BY <1>3 DEF TelegramRaises, AuditRaises, OciRaises, worldVars
<1>4. CASE ListReturns
  BY <1>4, Zenon DEF ListReturns, worldVars
<1>5. CASE Dispatch \/ GuardEnds \/ HandlerEnds \/ ItemReturns \/ ActReturns
  BY <1>5 DEF Dispatch, GuardEnds, HandlerEnds, ItemReturns, ActReturns, worldVars
<1>6. CASE \/ \E u \in Users : UserSends(u)
           \/ Poll \/ Signal \/ Stopped \/ Crash \/ Start \/ TimePasses
           \/ UNCHANGED botVars
  BY <1>6 DEF UserSends, Poll, Signal, Stopped, Crash, Start, TimePasses, botVars,
              worldVars
<1> QED
  BY <1>1, <1>2, <1>3, <1>4, <1>5, <1>6, Zenon DEF BotNext, Handling

LEMMA SameLog ==
  ASSUME LogInv, HistoryGrows, log' = log, failed' \in BOOLEAN,
         group' = "idle" => failed' = FALSE
  PROVE  LogInv'
BY DEF LogInv, HistoryGrows

LEMMA AuditWritesLog ==
  ASSUME QueueInv, ScriptInv, LogInv, HistoryGrows, AuditWrites
  PROVE  LogInv'
<1>1. Step \in PlainSteps(DOMAIN issued) /\ Step.do = "audit" /\ todo # <<>>
  BY AtPlainStep DEF AuditWrites, Doing
<1>2. /\ Step.cmd \in Names /\ Step.result \in Results /\ Step.target \in Targets
      /\ Step.action \in Actions \cup {"none"}
  BY <1>1 DEF PlainSteps
<1>3. Current \in UpdateType /\ done + 1 \in 1 .. Len(sent)
  BY <1>1, WaitingTyped DEF QueueInv
<1>4. Current.user \in Users /\ done + 1 \in Nat
  BY <1>3 DEF UpdateType
<1>5. PICK e : e = [id |-> done + 1, user |-> Current.user, cmd |-> Step.cmd,
                    result |-> Step.result, target |-> Step.target,
                    action |-> Step.action]
  OBVIOUS
<1>6. e \in RecordType /\ e.id = done + 1
  BY <1>2, <1>4, <1>5 DEF RecordType
<1>7. log' = Append(log, e) /\ UNCHANGED <<group, failed>>
  BY <1>5 DEF AuditWrites, Continue
<1>8. /\ log' \in Seq(RecordType) /\ DOMAIN log' = DOMAIN log \cup {Len(log) + 1}
      /\ log'[Len(log) + 1] = e
      /\ \A k \in DOMAIN log : log'[k] = log[k]
  BY <1>6, <1>7 DEF LogInv
<1>9. \A k \in DOMAIN log' : log'[k].id \in 1 .. Len(sent')
  BY <1>3, <1>6, <1>8 DEF LogInv, HistoryGrows
<1> QED
  BY <1>7, <1>8, <1>9 DEF LogInv

LEMMA NextLog ==
  ASSUME QueueInv, ScriptInv, LogInv, HistoryGrows, [BotNext]_botVars
  PROVE  LogInv'
<1>1. CASE AuditWrites
  BY <1>1, AuditWritesLog
<1>2. CASE Dispatch \/ GuardEnds \/ HandlerEnds
  BY <1>2, SameLog DEF Dispatch, GuardEnds, HandlerEnds, worldVars
<1>3. CASE TelegramTakes \/ ItemReturns \/ OciPerforms \/ ActReturns
  <2>1. log' = log /\ UNCHANGED <<group, failed>>
    BY <1>3 DEF TelegramTakes, ItemReturns, OciPerforms, ActReturns, Continue, worldVars
  <2> QED
    BY <2>1, SameLog DEF LogInv
<1>4. CASE TelegramRaises \/ AuditRaises \/ OciRaises
  <2>1. log' = log /\ group' = group /\ failed' = TRUE /\ todo # <<>>
    BY <1>4 DEF TelegramRaises, AuditRaises, OciRaises, Raise, Doing, worldVars
  <2> QED
    BY <2>1, SameLog DEF QueueInv
<1>5. CASE AnswerReturns \/ ListReturns
  <2>1. log' = log /\ UNCHANGED <<group, failed>>
    BY <1>5, Zenon DEF AnswerReturns, Miss, Hit, ListReturns, Continue, worldVars
  <2> QED
    BY <2>1, SameLog DEF LogInv
<1>6. CASE \/ \E u \in Users : UserSends(u)
           \/ Poll \/ Signal \/ Stopped \/ Start \/ TimePasses \/ UNCHANGED botVars
  <2>1. log' = log /\ UNCHANGED <<group, failed>>
    BY <1>6 DEF UserSends, Poll, Signal, Stopped, Start, TimePasses, botVars,
                handlerVars, worldVars
  <2> QED
    BY <2>1, SameLog DEF LogInv
<1>7. CASE Crash
  BY <1>7, SameLog DEF Crash, worldVars
<1> QED
  BY <1>1, <1>2, <1>3, <1>4, <1>5, <1>6, <1>7 DEF BotNext, Handling

-----------------------------------------------------------------------------
(* The theorems *)

LEMMA InitBotInv == BotInit => BotInv
<1> SUFFICES ASSUME BotInit PROVE BotInv
  OBVIOUS
<1>1. StoreInv /\ QueueInv
  BY InitStoreInv, InitQueueInv DEF BotInit
<1>2. HistoryInv
  BY DEF BotInit, StoreInit, HistoryInv, Nothing
<1>3. ScriptInv
  BY PlainSequences, Zenon DEF BotInit, ScriptInv
<1>4. EffectInv
  BY DEF BotInit, EffectInv, OneEffectEach, Doing
<1> QED
  BY <1>1, <1>2, <1>3, <1>4 DEF BotInv

LEMMA NextBotInv == BotInv /\ [BotNext]_botVars => BotInv'
<1> SUFFICES ASSUME BotInv, [BotNext]_botVars PROVE BotInv'
  OBVIOUS
<1>1. StoreInv /\ QueueInv /\ HistoryInv /\ ScriptInv /\ EffectInv /\ TypeOK
  BY DEF BotInv, StoreInv
<1>2. StoreInv'
  BY <1>1, NextStore, NextStoreInv
<1>3. QueueInv'
  BY <1>1, NextQueueInv
<1>4. HistoryGrows /\ drifted' = drifted
  BY <1>1, NextGrows, NextQuiet
<1>5. HistoryInv'
  BY <1>1, <1>4, NextHistory
<1>6. ScriptInv'
  BY <1>1, <1>2, <1>4, NextScript
<1>7. EffectInv'
  BY <1>1, <1>2, <1>4, NextEffects
<1> QED
  BY <1>2, <1>3, <1>5, <1>6, <1>7 DEF BotInv

LEMMA BotInvHolds == BotSpec => []BotInv
BY InitBotInv, NextBotInv, PTL DEF BotSpec

LEMMA MissedHolds == BotSpec => [](missed \subseteq 1 .. Len(sent))
<1>1. BotInit => missed \subseteq 1 .. Len(sent)
  BY DEF BotInit
<1>2. BotInv /\ missed \subseteq 1 .. Len(sent) /\ [BotNext]_botVars
      => (missed \subseteq 1 .. Len(sent))'
  <2> SUFFICES ASSUME BotInv, missed \subseteq 1 .. Len(sent), [BotNext]_botVars
               PROVE  missed' \subseteq 1 .. Len(sent')
    OBVIOUS
  <2>1. QueueInv /\ ScriptInv /\ TypeOK
    BY DEF BotInv, StoreInv
  <2>2. Len(sent) \in Nat /\ Len(sent') \in Nat /\ Len(sent) <= Len(sent')
    BY <2>1, NextGrows DEF HistoryGrows
  <2>3. missed' \subseteq 1 .. Len(sent)
    BY <2>1, NextMissed
  <2> QED
    BY <2>2, <2>3
<1> QED
  BY <1>1, <1>2, BotInvHolds, PTL DEF BotSpec

LEMMA LogInvHolds == BotSpec => []LogInv
<1>1. BotInit => LogInv
  <2> SUFFICES ASSUME BotInit PROVE LogInv
    OBVIOUS
  <2>1. failed \in BOOLEAN /\ failed = FALSE
    BY Zenon DEF BotInit
  <2>2. log = <<>>
    BY Zenon DEF BotInit
  <2>3. log \in Seq(RecordType) /\ DOMAIN log = {}
    BY <2>2
  <2> QED
    BY <2>1, <2>3, Zenon DEF LogInv
<1>2. BotInv /\ LogInv /\ [BotNext]_botVars => LogInv'
  <2> SUFFICES ASSUME BotInv, LogInv, [BotNext]_botVars PROVE LogInv'
    OBVIOUS
  <2>1. QueueInv /\ ScriptInv /\ TypeOK
    BY DEF BotInv, StoreInv
  <2> QED
    BY <2>1, NextGrows, NextLog
<1> QED
  BY <1>1, <1>2, BotInvHolds, PTL DEF BotSpec

\* Every variable of the daemon keeps its type, and nothing of an update is left
\* over when the next one is dispatched (bot.py _authorize, _error_handler).
THEOREM BotTypes == BotSpec => []BotTypeOK
<1>1. BotInv /\ LogInv /\ missed \subseteq 1 .. Len(sent) => BotTypeOK
  <2> SUFFICES ASSUME BotInv, LogInv, missed \subseteq 1 .. Len(sent) PROVE BotTypeOK
    OBVIOUS
  <2>1. TypeOK /\ DOMAIN shown = Tokens /\ oci \in Seq(EffectType)
    BY DEF BotInv, StoreInv, HistoryInv, EffectInv
  <2>2. /\ sent \in Seq(UpdateType)
        /\ acked \in 0 .. fetched /\ fetched \in 0 .. Len(sent) /\ done \in 0 .. fetched
        /\ phase \in {"running", "stopping", "down"}
        /\ group \in {"idle", "guard", "handler"} /\ failed \in BOOLEAN
    BY Zenon DEF BotInv, QueueInv, LogInv
  <2>3. group = "idle" => Idle
    BY Zenon DEF BotInv, QueueInv, LogInv, Idle
  <2>4. \A k \in DOMAIN log : log[k].id \in 1 .. Len(sent) /\ log[k].user \in Users
    <3>1. log \in Seq(RecordType) /\ \A k \in DOMAIN log : log[k].id \in 1 .. Len(sent)
      BY Zenon DEF LogInv
    <3>2. \A k \in DOMAIN log : log[k] \in RecordType
      BY <3>1
    <3>3. \A x \in RecordType : x.user \in Users
      BY DEF RecordType
    <3> QED
      BY <3>1, <3>2, <3>3, Zenon
  <2> QED
    BY <2>1, <2>2, <2>3, <2>4, Zenon DEF BotTypeOK
<1> QED
  BY <1>1, BotInvHolds, LogInvHolds, MissedHolds, PTL

\* No stop and no reboot reaches OCI but by an allowed user's click, made in
\* time, on a button generated for that user's own request for it
\* (00_overview.md S2; operations.py:5-6).
THEOREM BotConfirmedOnly == BotSpec => []ConfirmedOnly
<1>1. BotInv => ConfirmedOnly
  <2> SUFFICES ASSUME BotInv, NEW k \in DOMAIN oci, oci[k].action \in ConfirmedActions
               PROVE  LET e == oci[k]
                          click == sent[e.id]
                      IN /\ click.cmd = "confirm" /\ Check(click.user)
                         /\ click.token = e.token /\ e.token \in DOMAIN issued
                         /\ issued[e.token].grant.user_id = click.user
                         /\ issued[e.token].grant.request
                              = [instance |-> e.instance, action |-> e.action]
                         /\ \E i \in 1 .. (e.id - 1) :
                              /\ sent[i].user = click.user
                              /\ sent[i].cmd \in ConfirmedCommands
                              /\ OciAction[sent[i].cmd] = e.action
                              /\ sent[i].arg = e.instance
                         /\ \E j \in DOMAIN taken :
                              /\ taken[j].grant.token = e.token
                              /\ taken[j].at < issued[e.token].born + TTL
    BY DEF ConfirmedOnly
  <2> DEFINE e == oci[k]
             click == sent[e.id]
  <2>1. /\ click.cmd = "confirm" /\ click.token = e.token /\ Check(click.user)
        /\ e.token \in DOMAIN issued
        /\ issued[e.token].grant.user_id = click.user
        /\ issued[e.token].grant.request = [instance |-> e.instance, action |-> e.action]
        /\ Honoured(e.token)
    BY DEF BotInv, EffectInv, Justified
  <2>2. e.id \in DOMAIN sent
    BY DEF BotInv, EffectInv, QueueInv
  <2>3. Asked(e.token, e.id)
    BY <2>1, <2>2 DEF BotInv, HistoryInv, Presses
  <2> QED
    BY <2>1, <2>3 DEF Asked, Honoured
<1> QED
  BY <1>1, BotInvHolds, PTL

\* An update, and a token, make OCI act at most once, whatever is pressed again,
\* raised or restarted (operations.py:60, 174, 218; main.py:93).
THEOREM BotOneEffectEach == BotSpec => []OneEffectEach
<1>1. BotInv => OneEffectEach
  BY DEF BotInv, EffectInv
<1> QED
  BY <1>1, BotInvHolds, PTL
=============================================================================
