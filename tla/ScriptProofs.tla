---------------------------- MODULE ScriptProofs ----------------------------
(***************************************************************************)
(* The scripts of Handlers by what they can lead to.  A plain script talks *)
(* to Telegram, asks OCI about an item or writes the audit log; only what  *)
(* follows the answer to a press or to a list may make OCI act.            *)
(***************************************************************************)
EXTENDS BotProofs

-----------------------------------------------------------------------------
(* Scripts *)

Targets == Args \cup {NoArg, NoTarget} \cup Instances \cup STRING
Names ==
  Commands \cup Presses \cup {"<error>", "callback"}
    \cup {RequestRecord[c] : c \in ConfirmedCommands} \cup {PressRecord[c] : c \in Presses}
Texts == {"prompt", "unauthorized", "expired", "nothing", "cancelled", "accepted", "failed"}
Results == {"ok", "error", "denied"}
Actions == {OciAction[c] : c \in LifecycleCommands}

\* Steps that lead to no action of OCI, about the buttons of tokens in T.
PlainSteps(T) ==
  [do : {"reply"}]
    \cup [do : {"item"}, target : Targets]
    \cup [do : {"show"}, token : T, text : Texts, who : Users \cup {"anyone"}]
    \cup [do : {"audit"}, cmd : Names, result : Results, target : Targets,
          action : Actions \cup {"none"}]
Plain(T) == Seq(PlainSteps(T))

ActSteps ==
  [do : {"act", "performed"}, instance : Instances, action : Actions,
   token : Tokens \cup {NoToken}]

LEMMA PlainKinds ==
  ASSUME NEW T, NEW x \in PlainSteps(T)
  PROVE  /\ x.do \in {"reply", "item", "show", "audit"}
         /\ x.do = "show" => x.token \in T
         /\ x.do = "item" => x.target \in Targets
BY DEF PlainSteps

LEMMA PlainStep ==
  ASSUME NEW T
  PROVE  /\ Reply \in PlainSteps(T)
         /\ \A i \in Targets : Item(i) \in PlainSteps(T)
         /\ \A t \in T, text \in Texts, who \in Users \cup {"anyone"} :
              Show(t, text, who) \in PlainSteps(T)
         /\ \A cmd \in Names, i \in Targets : Err(cmd, i) \in PlainSteps(T)
         /\ \A cmd \in Names, i \in Targets, a \in Actions \cup {"none"} :
              Ok(cmd, i, a) \in PlainSteps(T)
         /\ \A cmd \in Names : Audit(cmd, "denied", NoTarget, "none") \in PlainSteps(T)
<1>1. Reply \in PlainSteps(T)
  BY DEF Reply, PlainSteps
<1>2. \A i \in Targets : Item(i) \in PlainSteps(T)
  BY DEF Item, PlainSteps
<1>3. \A t \in T, text \in Texts, who \in Users \cup {"anyone"} :
        Show(t, text, who) \in PlainSteps(T)
  BY DEF Show, PlainSteps
<1>4. \A cmd \in Names, result \in Results, i \in Targets, a \in Actions \cup {"none"} :
        Audit(cmd, result, i, a) \in PlainSteps(T)
  BY DEF Audit, PlainSteps
<1>5. NoTarget \in Targets
  BY DEF Targets
<1> QED
  BY <1>1, <1>2, <1>3, <1>4, <1>5 DEF Err, Ok, Results

LEMMA PlainMonotone ==
  ASSUME NEW T, NEW U, T \subseteq U
  PROVE  Plain(T) \subseteq Plain(U)
<1>1. PlainSteps(T) \subseteq PlainSteps(U)
  BY DEF PlainSteps
<1>2. ASSUME NEW s \in Seq(PlainSteps(T))
      PROVE  s \in Seq(PlainSteps(U))
  <2>1. \A i \in 1 .. Len(s) : s[i] \in PlainSteps(U)
    BY <1>1
  <2> QED
    BY <2>1
<1> QED
  BY <1>2 DEF Plain

LEMMA PlainSequences ==
  ASSUME NEW T
  PROVE  /\ \A s \in Plain(T) : s # <<>> => Tail(s) \in Plain(T) /\ Head(s) \in PlainSteps(T)
         /\ \A r, s \in Plain(T) : r \o s \in Plain(T)
         /\ <<>> \in Plain(T)
         /\ \A x \in PlainSteps(T) : <<x>> \in Plain(T)
         /\ \A x, y \in PlainSteps(T) : <<x, y>> \in Plain(T)
BY DEF Plain

-----------------------------------------------------------------------------
(* What each handler awaits leads to no action, except where it asks OCI. *)

LEMMA ReportsPlain ==
  ASSUME NEW T, NEW u \in UpdateType, NEW n \in Nat, NEW i \in Targets
  PROVE  /\ Fails(u) \in Plain(T)
         /\ Succeeds(u, n, i) \in Plain(T)
         /\ Reports(u, n) \in Plain(T)
         /\ Guard(u) \in Plain(T)
         /\ ErrorHandler \in Plain(T)
         /\ ItemFails(u, i) \in Plain(T)
<1>1. u.cmd \in Names /\ u.arg \in Targets /\ NoTarget \in Targets /\ "<error>" \in Names
  BY DEF UpdateType, Names, Targets
<1>2. Replies(n) \in Plain(T)
  BY PlainStep DEF Replies, Plain
<1>3. \A j \in Targets : Succeeds(u, n, j) \in Plain(T)
  <2> TAKE j \in Targets
  <2>1. Ok(u.cmd, j, "none") \in PlainSteps(T)
    BY <1>1, PlainStep
  <2> QED
    BY <1>2, <2>1, PlainSequences DEF Succeeds
<1>4. Fails(u) \in Plain(T)
  BY <1>1, PlainStep, PlainSequences DEF Fails
<1>5. Reports(u, n) \in Plain(T)
  BY <1>1, <1>3 DEF Reports
<1>6. Guard(u) \in Plain(T)
  BY <1>1, PlainStep, PlainSequences DEF Guard
<1>7. ErrorHandler \in Plain(T)
  BY <1>1, PlainStep, PlainSequences DEF ErrorHandler
<1>8. ItemFails(u, i) \in Plain(T)
  BY <1>1, PlainStep, PlainSequences DEF ItemFails
<1> QED
  BY <1>3, <1>4, <1>5, <1>6, <1>7, <1>8

LEMMA CollectsPlain ==
  ASSUME NEW T, NEW u \in UpdateType, NEW n \in Nat, NEW items \in Seq(Targets)
  PROVE  Collects(u, items, n) \in Plain(T)
<1>1. [k \in DOMAIN items |-> Item(items[k])] \in Plain(T)
  BY PlainStep DEF Plain
<1>2. /\ Succeeds(u, n, NoTarget) \in Plain(T)
      /\ Succeeds(u, 1, NoTarget) \in Plain(T)
  BY ReportsPlain DEF Targets
<1> QED
  BY <1>1, <1>2, PlainSequences DEF Collects

LEMMA PressPlain ==
  ASSUME NEW T, NEW u \in UpdateType, u.token \in T, u.cmd \in Presses,
         NEW r \in Requests
  PROVE  /\ ClickDenied(u) \in Plain(T)
         /\ Misses(u) \in Plain(T)
         /\ Cancels(u, r) \in Plain(T)
<1>1. u.user \in Users /\ NoTarget \in Targets /\ PressRecord[u.cmd] \in Names
      /\ "callback" \in Names
  BY DEF UpdateType, Targets, Names
<1>2. r.instance \in Targets /\ r.action \in Actions
  BY RequestsAssumption DEF Targets, ConfirmedActions, Actions, LifecycleCommands
<1>3. /\ Show(u.token, "unauthorized", u.user) \in PlainSteps(T)
      /\ Edits(u, "expired") \in PlainSteps(T)
      /\ Edits(u, "nothing") \in PlainSteps(T)
      /\ Edits(u, "cancelled") \in PlainSteps(T)
  BY <1>1, PlainStep DEF Edits, Texts
<1>4. /\ Err("callback", NoTarget) \in PlainSteps(T)
      /\ Err(PressRecord[u.cmd], NoTarget) \in PlainSteps(T)
      /\ Ok(PressRecord[u.cmd], r.instance, r.action) \in PlainSteps(T)
  BY <1>1, <1>2, PlainStep
<1> QED
  BY <1>3, <1>4, PlainSequences, Zenon DEF ClickDenied, Misses, Cancels

LEMMA PromptsPlain ==
  ASSUME NEW T, NEW u \in UpdateType, u.cmd \in ConfirmedCommands, NEW t \in T
  PROVE  Prompts(u, t) \in Plain(T)
<1>1. RequestRecord[u.cmd] \in Names /\ u.arg \in Targets /\ OciAction[u.cmd] \in Actions
  BY DEF UpdateType, Targets, Names, Actions, LifecycleCommands
<1>2. /\ Show(t, "prompt", "anyone") \in PlainSteps(T)
      /\ Ok(RequestRecord[u.cmd], u.arg, OciAction[u.cmd]) \in PlainSteps(T)
  BY <1>1, PlainStep DEF Texts
<1> QED
  BY <1>2, PlainSequences, Zenon DEF Prompts

LEMMA ActPlain ==
  ASSUME NEW T, NEW u \in UpdateType, u.cmd \in Presses => u.token \in T,
         NEW x \in ActSteps
  PROVE  Accepted(u, x) \in Plain(T) /\ Refused(u, x) \in Plain(T)
<1>1. x.instance \in Targets /\ x.action \in Actions
  BY DEF ActSteps, Targets
<1>2. u.cmd \in Names /\ "callback:confirm" \in Names
  BY DEF UpdateType, Names, PressRecord, Presses
<1>3. CASE u.cmd = "confirm"
  <2>1. u.token \in T /\ PressRecord[u.cmd] \in Names
    BY <1>3 DEF Presses, Names
  <2>2. /\ Edits(u, "accepted") \in PlainSteps(T) /\ Edits(u, "failed") \in PlainSteps(T)
        /\ Ok(PressRecord[u.cmd], x.instance, x.action) \in PlainSteps(T)
        /\ Err(PressRecord[u.cmd], x.instance) \in PlainSteps(T)
    BY <1>1, <2>1, PlainStep DEF Edits, Texts
  <2> QED
    BY <1>3, <2>2, PlainSequences, Zenon DEF Accepted, Refused
<1>4. CASE u.cmd # "confirm"
  <2>1. /\ Reply \in PlainSteps(T) /\ Err(u.cmd, x.instance) \in PlainSteps(T)
        /\ Ok(u.cmd, x.instance, x.action) \in PlainSteps(T)
    BY <1>1, <1>2, PlainStep
  <2> QED
    BY <1>4, <2>1, PlainSequences, Zenon DEF Accepted, Refused
<1> QED
  BY <1>3, <1>4
=============================================================================
