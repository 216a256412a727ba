------------------------------ MODULE Handlers ------------------------------
(***************************************************************************)
(* What each handler of the bot awaits, in order: src/app/commands/*.py,   *)
(* the guard and the error handler of src/app/bot.py.  A handler is a      *)
(* script, a sequence of steps at each of which it waits for Telegram, for *)
(* OCI or for the audit log; a step that asks OCI something is the last of *)
(* its script and the answer decides the script that follows.  Texts are   *)
(* left out, except what a confirmation message shows.                     *)
(***************************************************************************)
EXTENDS Naturals, Sequences

CONSTANTS
  Allowed,      \* telegram.allowed_user_ids
  NoArg,        \* the command came without an argument
  BadProfile,   \* its profile argument names no configured profile
  NoTarget,     \* an audit record without a target
  NoToken       \* an action that needed no confirmation

(* An update is a command message or a press of one of the two buttons:    *)
(* [user, cmd, arg, token, at], at being the real time it was sent.        *)

Presses == {"confirm", "cancel"}
SimpleCommands == {"start", "help", "status", "ping", "whoami", "regions"}
ListCommands == {"instances", "security_lists", "boot_volumes"}
LookupCommands == {"instance", "security_list"}
ConfirmedCommands == {"stop_instance", "reboot_instance"}
LifecycleCommands == ConfirmedCommands \cup {"start_instance"}
PUBLIC_COMMANDS == {"whoami"}

OciAction ==
  [start_instance |-> "START", stop_instance |-> "SOFTSTOP", reboot_instance |-> "SOFTRESET"]
ConfirmedActions == {OciAction[c] : c \in ConfirmedCommands}

RequestRecord ==
  [stop_instance |-> "stop_instance:request", reboot_instance |-> "reboot_instance:request"]
PressRecord == [confirm |-> "callback:confirm", cancel |-> "callback:cancel"]

-----------------------------------------------------------------------------
(* Steps *)

Reply == [do |-> "reply"]                      \* reply_text
Answer == [do |-> "answer"]                    \* query.answer
List == [do |-> "list"]                        \* list_* of OciClient
Item(i) == [do |-> "item", target |-> i]       \* get_ip_info, list_limit_values
\* reply_text with the buttons of t, or edit_message_text of that message.
Show(t, text, who) == [do |-> "show", token |-> t, text |-> text, who |-> who]
\* OciClient.instance_action, and the same when OCI has performed it.
Act(i, a, t) == [do |-> "act", instance |-> i, action |-> a, token |-> t]
Performed(s) == [s EXCEPT !.do = "performed"]
Audit(cmd, result, target, action) ==
  [do |-> "audit", cmd |-> cmd, result |-> result, target |-> target, action |-> action]

Replies(n) == [k \in 1 .. n |-> Reply]
Ok(cmd, target, action) == Audit(cmd, "ok", target, action)
Err(cmd, target) == Audit(cmd, "error", target, "none")

-----------------------------------------------------------------------------
(* Scripts *)

\* security.check
Check(user) == user \in Allowed

Denied(u) == u.cmd \notin PUBLIC_COMMANDS /\ ~Check(u.user)

\* bot.py _authorize, up to its ApplicationHandlerStop.
Guard(u) ==
  IF Denied(u) THEN <<Reply, Audit(u.cmd, "denied", NoTarget, "none")>> ELSE <<>>

\* Without the record (for the checks of the properties).
ErrorHandlerUnlogged == <<Reply>>

\* bot.py _error_handler: its reply is best effort.
ErrorHandler == <<Reply, Err("<error>", NoTarget)>>

Fails(u) == <<Reply, Err(u.cmd, NoTarget)>>
Succeeds(u, n, target) == Replies(n) \o <<Ok(u.cmd, target, "none")>>

NeedsArgument(cmd) == cmd \in LookupCommands \cup LifecycleCommands

\* A command's handler until its first answer from OCI.
Command(u) ==
  IF u.cmd \in SimpleCommands THEN Succeeds(u, 1, NoTarget)
  ELSE IF NeedsArgument(u.cmd) /\ u.arg = NoArg THEN <<Reply>>
  ELSE IF u.arg = BadProfile THEN Fails(u)
  ELSE <<List>>

\* _instances, _security_lists, _boot_volumes, _instance and _security_list,
\* the answer being sent in n messages.
Reports(u, n) ==
  Succeeds(u, n, IF u.cmd \in LookupCommands THEN u.arg ELSE NoTarget)

\* _public_ip and _quota, which ask OCI about one instance or service at a time.
Collects(u, items, n) ==
  IF items = <<>> THEN Succeeds(u, 1, NoTarget)
  ELSE [k \in DOMAIN items |-> Item(items[k])] \o Succeeds(u, n, NoTarget)

\* When one of them fails, _public_ip records it and _quota only shows it.
ItemFails(u, i) == IF u.cmd = "public_ip" THEN <<Err(u.cmd, i)>> ELSE <<>>

\* _confirm_command, once create has returned t.
Prompts(u, t) ==
  << Show(t, "prompt", "anyone"),
     Ok(RequestRecord[u.cmd], u.arg, OciAction[u.cmd]) >>

\* _callback: who edits the message is part of the text of a denial only.
ClickDenied(u) ==
  << Show(u.token, "unauthorized", u.user), Err("callback", NoTarget) >>
Edits(u, text) == Show(u.token, text, "anyone")
Misses(u) ==
  IF u.cmd = "confirm"
  THEN << Edits(u, "expired"), Err(PressRecord[u.cmd], NoTarget) >>
  ELSE << Edits(u, "nothing") >>
\* A cancellation is not recorded (for the checks of the properties).
CancelsUnlogged(u, request) == << Edits(u, "cancelled") >>

Cancels(u, request) ==
  << Edits(u, "cancelled"), Ok(PressRecord[u.cmd], request.instance, request.action) >>

\* The record lacks what was done to which instance (for the checks of the
\* properties).
AcceptedUnnamed(u, s) ==
  IF u.cmd = "confirm"
  THEN << Show(u.token, "accepted", "anyone"), Ok(PressRecord[u.cmd], NoTarget, "none") >>
  ELSE << Reply, Ok(u.cmd, NoTarget, "none") >>

\* After the OCI call of _start_instance and of _execute_pending.
Accepted(u, s) ==
  IF u.cmd = "confirm"
  THEN << Edits(u, "accepted"), Ok(PressRecord[u.cmd], s.instance, s.action) >>
  ELSE << Reply, Ok(u.cmd, s.instance, s.action) >>

\* The failure is answered, not edited in; no return after it (both for the
\* checks of the properties).
RefusedByReply(u, s) ==
  << Reply, Err(IF u.cmd = "confirm" THEN PressRecord[u.cmd] ELSE u.cmd, s.instance) >>
RefusedFallsThrough(u, s) ==
  (IF u.cmd = "confirm"
   THEN << Edits(u, "failed"), Err(PressRecord[u.cmd], s.instance) >>
   ELSE << Reply, Err(u.cmd, s.instance) >>) \o Accepted(u, s)

Refused(u, s) ==
  IF u.cmd = "confirm"
  THEN << Edits(u, "failed"), Err(PressRecord[u.cmd], s.instance) >>
  ELSE << Reply, Err(u.cmd, s.instance) >>
=============================================================================
