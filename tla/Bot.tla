-------------------------------- MODULE Bot --------------------------------
(***************************************************************************)
(* The running daemon: Telegram's update queue, python-telegram-bot's      *)
(* dispatch, the guard and the handlers, the confirmation store, OCI and   *)
(* the audit log.  src/app/bot.py builds the application without           *)
(* concurrent_updates, so updates are handled one at a time, in the order  *)
(* Telegram numbered them; the steps of one handler interleave with new    *)
(* messages, with polling, with the clock, with signals and with crashes.  *)
(***************************************************************************)
EXTENDS ConfirmationStore, Handlers, FiniteSets

CONSTANTS
  Commands,    \* commands that users send
  Args,        \* arguments they give
  Instances,   \* instances an argument can name
  Listings,    \* what list_instances can return: sequences of instances
  Services,    \* QUOTA_SERVICES, a sequence
  Faults,      \* what may fail unexpectedly: "telegram", "oci", "disk"
  MaxUpdates,  \* bound: updates sent in a behaviour
  MaxChunks    \* bound: messages one answer is split into

ASSUME RequestsAssumption ==
  Requests = [instance : Instances, action : ConfirmedActions]
ASSUME CommandsAssumption ==
  Commands \subseteq SimpleCommands \cup ListCommands \cup LookupCommands
                      \cup LifecycleCommands \cup {"public_ip", "quota"}
ASSUME ListingsAssumption == Listings \subseteq Seq(Instances)
ASSUME ServicesAssumption == Services \in Seq(STRING)
\* What stands for a missing token or target is none.
ASSUME MissingAssumption == NoToken \notin Tokens /\ NoTarget \notin Instances

VARIABLES
  sent,     \* every update ever sent, in Telegram's order
  acked,    \* Telegram forgets updates up to here: they were acknowledged
  fetched,  \* get_updates has returned updates up to here
  done,     \* and they have been handled up to here
  phase,    \* the process: "running", "stopping" after a signal, "down"
  group,    \* the handler group the current update is in, or "idle"
  failed,   \* that group has raised and the error handler runs
  todo,     \* the rest of the current script
  shown,    \* what the message with a token's buttons shows
  oci,      \* actions OCI has performed, in order
  log,      \* the audit log
  missed    \* history: the presses whose take or cancel returned None

queueVars == <<sent, acked, fetched, done>>
handlerVars == <<group, failed, todo>>
worldVars == <<shown, oci, log, missed>>
botVars == <<storeVars, queueVars, phase, handlerVars, worldVars>>

Nothing == [text |-> "none", who |-> "anyone"]

BotInit ==
  /\ StoreInit
  /\ sent = <<>> /\ acked = 0 /\ fetched = 0 /\ done = 0
  /\ phase = "running"
  /\ group = "idle" /\ failed = FALSE /\ todo = <<>>
  /\ shown = [t \in Tokens |-> Nothing]
  /\ oci = <<>> /\ log = <<>> /\ missed = {}

-----------------------------------------------------------------------------
(* Users and Telegram's queue *)

\* A message, or a press of a button that is on somebody's screen.
Update(u, c, a, t) == [user |-> u, cmd |-> c, arg |-> a, token |-> t, at |-> elapsed]

\* Some commands ignore their arguments; some take a profile at most.
TakesArg(c, a) ==
  \/ a = NoArg
  \/ NeedsArgument(c) \/ c = "public_ip"
  \/ a = BadProfile /\ c \in ListCommands \cup {"quota"}

UserSends(u) ==
  /\ Len(sent) < MaxUpdates
  /\ \/ \E c \in Commands, a \in Args :
          TakesArg(c, a) /\ sent' = Append(sent, Update(u, c, a, NoToken))
     \/ \E c \in Presses, t \in Tokens :
          /\ shown[t].text = "prompt"
          /\ sent' = Append(sent, Update(u, c, NoArg, t))
  /\ UNCHANGED <<storeVars, acked, fetched, done, phase, handlerVars, worldVars>>

\* get_updates: asking for the next batch acknowledges the last one.
Poll ==
  /\ phase = "running"
  /\ acked < Len(sent)
  /\ acked' = fetched
  /\ fetched' = Len(sent)
  /\ UNCHANGED <<storeVars, sent, done, phase, handlerVars, worldVars>>

-----------------------------------------------------------------------------
(* Dispatch of one update *)

Current == sent[done + 1]

\* Nothing is dispatched any more after a signal (for the checks of the
\* properties).
DispatchWhileRunning ==
  /\ phase = "running" /\ group = "idle"
  /\ done < fetched
  /\ failed' = FALSE
  /\ IF Current.cmd \in Presses
     THEN group' = "handler" /\ todo' = <<Answer>>
     ELSE group' = "guard" /\ todo' = Guard(Current)
  /\ UNCHANGED <<storeVars, queueVars, phase, worldVars>>

\* A command passes the guard's group first; a callback query has only its
\* handler.
Dispatch ==
  /\ phase # "down" /\ group = "idle"
  /\ done < fetched
  /\ failed' = FALSE
  /\ IF Current.cmd \in Presses
     THEN group' = "handler" /\ todo' = <<Answer>>
     ELSE group' = "guard" /\ todo' = Guard(Current)
  /\ UNCHANGED <<storeVars, queueVars, phase, worldVars>>

\* The guard denies and returns (for the checks of the properties).
GuardEndsWithoutStop ==
  /\ group = "guard" /\ todo = <<>>
  /\ group' = "handler" /\ todo' = Command(Current)
  /\ failed' = FALSE
  /\ UNCHANGED <<storeVars, queueVars, phase, worldVars>>

\* The guard's group ends.  A denial that went through raises
\* ApplicationHandlerStop; a guard that failed does not stop the dispatch.
GuardEnds ==
  /\ group = "guard" /\ todo = <<>>
  /\ IF Denied(Current) /\ ~failed
     THEN group' = "idle" /\ done' = done + 1 /\ UNCHANGED todo
     ELSE group' = "handler" /\ todo' = Command(Current) /\ UNCHANGED done
  /\ failed' = FALSE
  /\ UNCHANGED <<storeVars, sent, acked, fetched, phase, worldVars>>

HandlerEnds ==
  /\ group = "handler" /\ todo = <<>>
  /\ group' = "idle" /\ done' = done + 1
  /\ failed' = FALSE /\ UNCHANGED todo
  /\ UNCHANGED <<storeVars, sent, acked, fetched, phase, worldVars>>

-----------------------------------------------------------------------------
(* Steps of a script *)

Step == Head(todo)
Doing(kinds) == todo # <<>> /\ Step.do \in kinds

Continue(script) ==
  /\ todo' = script
  /\ UNCHANGED <<queueVars, phase, group, failed>>

\* An exception goes to the error handler; one that leaves the error handler
\* is only logged, and its own reply is best effort.
Raise ==
  /\ todo' = IF failed THEN Tail(todo) ELSE ErrorHandler
  /\ failed' = TRUE
  /\ UNCHANGED <<queueVars, phase, group>>

Text(s) == [text |-> s.text, who |-> s.who]
Delivered(s) == IF s.do = "show" THEN [shown EXCEPT ![s.token] = Text(s)] ELSE shown

\* Telegram refuses an edit that changes nothing.
Unmodified(s) == s.do = "show" /\ shown[s.token] = Text(s)

TelegramTakes ==
  /\ Doing({"reply", "show"})
  /\ ~Unmodified(Step)
  /\ shown' = Delivered(Step)
  /\ Continue(Tail(todo))
  /\ UNCHANGED <<storeVars, oci, log, missed>>

\* A call that raises may have reached Telegram all the same.
TelegramRaises ==
  /\ Doing({"reply", "show", "answer"})
  /\ \/ Unmodified(Step) /\ UNCHANGED shown
     \/ "telegram" \in Faults /\ shown' \in {shown, Delivered(Step)}
  /\ Raise
  /\ UNCHANGED <<storeVars, oci, log, missed>>

AuditWrites ==
  /\ Doing({"audit"})
  /\ log' = Append(log, [id |-> done + 1, user |-> Current.user, cmd |-> Step.cmd,
                         result |-> Step.result, target |-> Step.target,
                         action |-> Step.action])
  /\ Continue(Tail(todo))
  /\ UNCHANGED <<storeVars, shown, oci, missed>>

AuditRaises ==
  /\ Doing({"audit"}) /\ "disk" \in Faults
  /\ Raise
  /\ UNCHANGED <<storeVars, worldVars>>

Miss(u) ==
  /\ TakeMiss(u.token, u.user)
  /\ missed' = missed \cup {done + 1}
  /\ Continue(Misses(u))

\* Another request of the user's is done, not the one of the button (for the
\* checks of the properties).
HitAnyRequest(u) ==
  /\ TakeHit(u.token, u.user)
  /\ \E t \in DOMAIN Swept :
       /\ Takes(t, u.user)
       /\ LET r == pending[t].request
          IN Continue(IF u.cmd = "confirm"
                      THEN <<Act(r.instance, r.action, u.token)>>
                      ELSE Cancels(u, r))
  /\ UNCHANGED missed

Hit(u) ==
  /\ TakeHit(u.token, u.user)
  /\ LET r == pending[u.token].request
     IN Continue(IF u.cmd = "confirm"
                 THEN <<Act(r.instance, r.action, u.token)>>
                 ELSE Cancels(u, r))
  /\ UNCHANGED missed

\* The callback relies on the guard for the allowlist (for the checks of the
\* properties).
AnswerReturnsUnchecked ==
  /\ Doing({"answer"})
  /\ Miss(Current) \/ Hit(Current)
  /\ UNCHANGED <<shown, oci, log>>

\* query.answer() returned.  No await separates the allowlist check from take
\* or cancel, so the store changes in the same step.
AnswerReturns ==
  /\ Doing({"answer"})
  /\ LET u == Current IN
     \/ ~Check(u.user) /\ Continue(ClickDenied(u)) /\ UNCHANGED <<storeVars, missed>>
     \/ Check(u.user) /\ (Miss(u) \/ Hit(u))
  /\ UNCHANGED <<shown, oci, log>>

\* list_instances and its like return, and resource_match has looked for the
\* argument: found, not found, or found more than once.
Found(i) == \E l \in Listings : i \in Range(l)

ListReturns ==
  /\ Doing({"list"})
  /\ LET u == Current IN
     \/ Continue(Fails(u)) /\ UNCHANGED storeVars
     \/ /\ NeedsArgument(u.cmd) => Found(u.arg)
        /\ \/ u.cmd \in ListCommands \cup LookupCommands /\ UNCHANGED storeVars
              /\ \E n \in 1 .. MaxChunks : Continue(Reports(u, n))
           \/ u.cmd = "public_ip" /\ UNCHANGED storeVars
              /\ \E n \in 1 .. MaxChunks, l \in Listings :
                   IF u.arg = NoArg THEN Continue(Collects(u, l, n))
                   ELSE u.arg \in Range(l) /\ Continue(Collects(u, <<u.arg>>, n))
           \/ u.cmd = "quota" /\ UNCHANGED storeVars
              /\ \E n \in 1 .. MaxChunks : Continue(Collects(u, Services, n))
           \/ u.cmd = "start_instance" /\ UNCHANGED storeVars
              /\ Continue(<<Act(u.arg, OciAction[u.cmd], NoToken)>>)
           \/ u.cmd \in ConfirmedCommands
              /\ \E t \in Tokens :
                   /\ Create(t, u.user, [instance |-> u.arg, action |-> OciAction[u.cmd]])
                   /\ Continue(Prompts(u, t))
  /\ UNCHANGED worldVars

\* The handler returns from the except clause (for the checks of the properties).
ItemReturnsEarly ==
  /\ Doing({"item"})
  /\ \/ Continue(Tail(todo))
     \/ Continue(ItemFails(Current, Step.target))
  /\ UNCHANGED <<storeVars, worldVars>>

ItemReturns ==
  /\ Doing({"item"})
  /\ \/ Continue(Tail(todo))
     \/ Continue(ItemFails(Current, Step.target) \o Tail(todo))
  /\ UNCHANGED <<storeVars, worldVars>>

\* instance_action: OCI performs the action, then the call returns; or OCI
\* refuses with a ServiceError and nothing happens.
OciPerforms ==
  /\ Doing({"act"})
  /\ oci' = Append(oci, [id |-> done + 1, instance |-> Step.instance,
                         action |-> Step.action, token |-> Step.token])
  /\ Continue(<<Performed(Step)>>)
  /\ UNCHANGED <<storeVars, shown, log, missed>>

ActReturns ==
  /\ \/ Doing({"performed"}) /\ Continue(Accepted(Current, Step))
     \/ Doing({"act"}) /\ Continue(Refused(Current, Step))
  /\ UNCHANGED <<storeVars, worldVars>>

\* Anything but a ServiceError (a timeout, a lost connection) is not caught by
\* the handlers; the action may have been performed or not.
OciRaises ==
  /\ Doing({"list", "item", "act", "performed"}) /\ "oci" \in Faults
  /\ Raise
  /\ UNCHANGED <<storeVars, worldVars>>

-----------------------------------------------------------------------------
(* The process *)

Idle == group = "idle" /\ failed = FALSE /\ todo = <<>>

\* Telegram forgets what was never fetched (for the checks of the properties).
SignalAcksAll ==
  /\ phase = "running"
  /\ phase' = "stopping" /\ acked' = Len(sent)
  /\ UNCHANGED <<storeVars, sent, fetched, done, handlerVars, worldVars>>

\* SIGTERM or SIGINT: updater.stop() acknowledges what was fetched, if it can,
\* and polling ends; application.stop() waits for the fetched updates.
Signal ==
  /\ phase = "running"
  /\ phase' = "stopping"
  /\ acked' \in IF "telegram" \in Faults THEN {acked, fetched} ELSE {fetched}
  /\ UNCHANGED <<storeVars, sent, fetched, done, handlerVars, worldVars>>

Stopped ==
  /\ phase = "stopping" /\ group = "idle" /\ done = fetched
  /\ phase' = "down"
  /\ UNCHANGED <<storeVars, queueVars, handlerVars, worldVars>>

\* The process dies: its queue, its script and its store are gone.
Crash ==
  /\ phase # "down" /\ epoch < MaxEpoch
  /\ phase' = "down"
  /\ group' = "idle" /\ failed' = FALSE /\ todo' = <<>>
  /\ UNCHANGED <<storeVars, queueVars, worldVars>>

\* start_polling() (for the checks of the properties).
StartKeepsBacklog ==
  /\ phase = "down"
  /\ Restart
  /\ phase' = "running"
  /\ fetched' = acked /\ done' = acked
  /\ UNCHANGED <<sent, acked, handlerVars, worldVars>>

\* start_polling(drop_pending_updates=True) and an empty store.
Start ==
  /\ phase = "down"
  /\ Restart
  /\ phase' = "running"
  /\ acked' = Len(sent) /\ fetched' = Len(sent) /\ done' = Len(sent)
  /\ UNCHANGED <<sent, handlerVars, worldVars>>

TimePasses ==
  /\ Tick
  /\ UNCHANGED <<queueVars, phase, handlerVars, worldVars>>

Handling ==
  \/ Dispatch \/ GuardEnds \/ HandlerEnds
  \/ TelegramTakes \/ TelegramRaises \/ AuditWrites \/ AuditRaises
  \/ AnswerReturns \/ ListReturns \/ ItemReturns
  \/ OciPerforms \/ ActReturns \/ OciRaises

BotNext ==
  \/ \E u \in Users : UserSends(u)
  \/ Poll
  \/ Handling
  \/ Signal \/ Stopped \/ Crash \/ Start
  \/ TimePasses

BotSpec == BotInit /\ [][BotNext]_botVars

\* The event loop polls and keeps running the handler it has started: every
\* call returns or raises, since the clients of Telegram and OCI time out.
FairBotSpec == BotSpec /\ WF_botVars(Poll) /\ WF_botVars(Handling) /\ WF_botVars(Stopped)

-----------------------------------------------------------------------------
(* Properties *)

UpdateType ==
  [user : Users, cmd : Commands \cup Presses, arg : Args \cup {NoArg},
   token : Tokens \cup {NoToken}, at : Nat]
EffectType ==
  [id : Nat, instance : Instances, action : {OciAction[c] : c \in LifecycleCommands},
   token : Tokens \cup {NoToken}]

\* Every variable keeps its type; the queue's three indexes stay in order
\* (Telegram, the fetched batch, the handled ones).
BotTypeOK ==
  /\ TypeOK
  /\ sent \in Seq(UpdateType)
  /\ acked \in 0 .. fetched /\ fetched \in 0 .. Len(sent) /\ done \in 0 .. fetched
  /\ phase \in {"running", "stopping", "down"}
  /\ group \in {"idle", "guard", "handler"} /\ failed \in BOOLEAN
  /\ group = "idle" => Idle
  /\ DOMAIN shown = Tokens
  /\ oci \in Seq(EffectType)
  /\ \A k \in DOMAIN log : log[k].id \in 1 .. Len(sent) /\ log[k].user \in Users
  /\ missed \subseteq 1 .. Len(sent)

Effects(i) == {k \in DOMAIN oci : oci[k].id = i}
Records(i) == {k \in DOMAIN log : log[k].id = i}

\* "/stop_instance and /reboot_instance cannot reach the OCI API without a click
\* on an inline button generated for that specific request, by the same user,
\* within the configured TTL" (docs/specs/00_overview.md S2; operations.py:5-6).
ConfirmedOnly ==
  \A k \in DOMAIN oci : oci[k].action \in ConfirmedActions =>
    LET e == oci[k]
        click == sent[e.id]
        button == issued[e.token].grant
    IN /\ click.cmd = "confirm" /\ Check(click.user)
       /\ click.token = e.token /\ e.token \in DOMAIN issued
       /\ button.user_id = click.user
       /\ button.request = [instance |-> e.instance, action |-> e.action]
       /\ \E i \in 1 .. (e.id - 1) :
            /\ sent[i].user = click.user
            /\ sent[i].cmd \in ConfirmedCommands
            /\ OciAction[sent[i].cmd] = e.action /\ sent[i].arg = e.instance
       /\ \E j \in DOMAIN taken :
            /\ taken[j].grant.token = e.token
            /\ taken[j].at < issued[e.token].born + TTL

\* An update makes OCI act at most once, and so does a token, whatever is sent
\* again after a crash (operations.py:60, 174, 218; main.py:93).
OneEffectEach ==
  \A j, k \in DOMAIN oci :
    \/ oci[j].id = oci[k].id
    \/ oci[j].token = oci[k].token /\ oci[j].token # NoToken
    => j = k

\* "Clicking Cancel leaves the instance running" (integration_acceptance.md 3.3):
\* once a cancellation is recorded its token never leads to an action, also
\* when a click on Confirm was queued with it (operations.py:191, 200).
CancelHolds ==
  \A r \in DOMAIN log : log[r].cmd = "callback:cancel" /\ log[r].result = "ok" =>
    \A k \in DOMAIN oci : oci[k].token # sent[log[r].id].token

\* What users and operators read happened: a confirmation message that says its
\* action was accepted, and an "ok" record of start_instance or of a confirmation,
\* follow OCI's performing just that; and an update with such a record has no
\* second record of the same command, done or refused (operations.py:60-84, 217-244).
TellsTruth ==
  /\ \A t \in Tokens : shown[t].text = "accepted" =>
       \E k \in DOMAIN oci : oci[k].token = t
  /\ \A r \in DOMAIN log :
       /\ log[r].cmd \in {"start_instance", "callback:confirm"}
       /\ log[r].result = "ok"
       => /\ \E k \in Effects(log[r].id) :
               oci[k].instance = log[r].target /\ oci[k].action = log[r].action
          /\ \A x \in Records(log[r].id) : log[x].cmd = log[r].cmd => x = r

\* "A Telegram user outside telegram.allowed_user_ids cannot trigger any command
\* except /whoami" (docs/specs/00_overview.md S1; bot.py:84-97): neither an
\* action nor a confirmation to be clicked.
AllowlistEnforced ==
  /\ \A k \in DOMAIN oci : Check(sent[oci[k].id].user)
  /\ \A t \in DOMAIN issued : Check(issued[t].grant.user_id)

\* The updates a handler leaves no record of: a usage reply (operations.py:256,
\* instances.py:88), and a Cancel whose store.cancel returned None
\* (operations.py:192-196).
Silent(i) ==
  \/ sent[i].cmd = "cancel" /\ i \in missed
  \/ NeedsArgument(sent[i].cmd) /\ sent[i].arg = NoArg /\ Check(sent[i].user)

\* Not what /public_ip records of an instance it could not read.
Main(x) == x.target = NoTarget \/ x.cmd # "public_ip"
Mains(i) == {k \in Records(i) : Main(log[k])}

\* "each command handler emits exactly one audit record" (audit.py:20-21): a
\* handled update has exactly one, denials and cancellations included, unless it is
\* a silent one.  /public_ip records every instance it could not read besides
\* (instances.py:209-218), which does not stand for its own record (227-233).
OneRecordEach ==
  \A i \in 1 .. done :
    /\ Silent(i) \/ Mains(i) # {}
    /\ Cardinality(Mains(i)) <= 1

\* "audit trail of every command outcome" (docs/specs/dev_security.md:11): when
\* its update has been handled, each action OCI performed is on record with its
\* target (operations.py:76, 237).
EffectsAudited ==
  \A k \in DOMAIN oci : oci[k].id <= done =>
    \E r \in Records(oci[k].id) :
      /\ log[r].result = "ok"
      /\ log[r].target = oci[k].instance /\ log[r].action = oci[k].action

\* A message whose token was used, successfully or not, has lost its buttons when
\* the handler is through (operations.py:197, 223, 234).
NoStaleButtons ==
  group = "idle" => \A t \in Used : shown[t].text # "prompt"

\* "the message is edited in place to reflect the outcome"
\* (integration_acceptance.md:85-86): what was accepted is what it shows.
OutcomeShown ==
  \A k \in DOMAIN oci :
    /\ oci[k].token # NoToken
    /\ group = "idle" /\ oci[k].id <= done
    => shown[oci[k].token].text = "accepted"

\* "Clicking Confirm Stop within 60 s does stop it" (integration_acceptance.md:85):
\* the owner's click made in time uses the token.
InTimeClickCounts ==
  \A i \in 1 .. done :
    LET u == sent[i]
    IN /\ u.cmd = "confirm"
       /\ u.user = issued[u.token].grant.user_id
       /\ u.at < issued[u.token].born + TTL
       => u.token \in Used

\* Every update that reached the process is handled to its end and recorded by
\* its own handler or by the error handler, whatever Telegram or OCI raise and
\* although the process is told to stop (bot.py:113-136).
EveryUpdateRecorded ==
  \A i \in 1 .. MaxUpdates :
    (i <= fetched /\ i > done)
      ~> (i <= done /\ (Silent(i) \/ Mains(i) # {}))

Process == INSTANCE Daemon WITH sent <- Len(sent)

\* What the bot does with Telegram's queue over signals, crashes and restarts is
\* what Daemon describes, and what Lifecycle implements from the steps of main.py:
\* updates are handled once and in their order, also after a signal, and a process
\* that starts leaves alone whatever was sent before (main.py:93, 102-108).
ImplementsDaemon == Process!DaemonSpec

\* A signal ends the process, after the updates it had fetched (main.py:102-109).
StopCompletes == (phase = "stopping") ~> (phase = "down" /\ done = fetched)
=============================================================================
