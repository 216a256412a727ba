--------------------------- MODULE OutcomeProofs ---------------------------
(***************************************************************************)
(* What users and operators are told of what the bot did: messages and     *)
(* audit records say what happened, once; a cancellation holds; and in a   *)
(* life of the process without faults nothing is missing from the log and  *)
(* no button outlives its use.                                             *)
(***************************************************************************)
EXTENDS EffectProofs, FiniteSetTheorems

-----------------------------------------------------------------------------
(* What a script will tell *)

\* The records that state that something was done or called off.
Claims == {"start_instance", "callback:confirm", "callback:cancel"}

\* A step that makes no such statement.
Mild(x) ==
  /\ x.do = "show" => x.text # "accepted"
  /\ x.do = "audit" /\ x.result = "ok" => x.cmd \notin Claims

\* The step that makes the record of an update.
MainAudit(x) == x.do = "audit" /\ Main(x)

\* The record is the last thing of a script; and a script that has one.
LastAudit(s) == \A j \in DOMAIN s : MainAudit(s[j]) => j = Len(s)
Closes(s) == s # <<>> /\ MainAudit(s[Len(s)])

\* Nothing in it asks OCI or claims anything, and its record comes last.
Tame(s) ==
  /\ LastAudit(s)
  /\ \A j \in DOMAIN s : Mild(s[j]) /\ s[j].do \notin {"answer", "list", "act", "performed"}

LEMMA TwoSteps ==
  ASSUME NEW x, NEW y, ~MainAudit(x)
  PROVE  /\ LastAudit(<<x, y>>)
         /\ MainAudit(y) => Closes(<<x, y>>)
<1>1. /\ DOMAIN <<x, y>> = {1, 2} /\ Len(<<x, y>>) = 2 /\ <<x, y>> # <<>>
      /\ <<x, y>>[1] = x /\ <<x, y>>[2] = y
  OBVIOUS
<1> QED
  BY <1>1 DEF LastAudit, Closes

LEMMA TameTwo ==
  ASSUME NEW x, NEW y, ~MainAudit(x), Mild(x), Mild(y),
         x.do \in {"reply", "show"}, y.do = "audit"
  PROVE  Tame(<<x, y>>)
<1>1. /\ DOMAIN <<x, y>> = {1, 2}
      /\ <<x, y>>[1] = x /\ <<x, y>>[2] = y
  OBVIOUS
<1> QED
  BY <1>1, TwoSteps DEF Tame

LEMMA TameOne ==
  ASSUME NEW x, Mild(x), x.do \in {"reply", "show", "audit"}
  PROVE  Tame(<<x>>) /\ (MainAudit(x) => Closes(<<x>>))
<1>1. DOMAIN <<x>> = {1} /\ Len(<<x>>) = 1 /\ <<x>>[1] = x /\ <<x>> # <<>>
  OBVIOUS
<1> QED
  BY <1>1 DEF Tame, LastAudit, Closes

LEMMA TameNone == Tame(<<>>)
BY DEF Tame, LastAudit

LEMMA TameTail ==
  ASSUME NEW S, NEW s \in Seq(S), s # <<>>
  PROVE  /\ LastAudit(s) => LastAudit(Tail(s))
         /\ Tame(s) => Tame(Tail(s))
         /\ LastAudit(s) /\ MainAudit(Head(s)) => Tail(s) = <<>>
         /\ Closes(s) /\ ~MainAudit(Head(s)) => Closes(Tail(s))
<1>1. /\ Tail(s) \in Seq(S) /\ Len(Tail(s)) = Len(s) - 1 /\ Len(s) \in Nat \ {0}
      /\ DOMAIN s = 1 .. Len(s) /\ DOMAIN Tail(s) = 1 .. (Len(s) - 1)
      /\ \A j \in 1 .. (Len(s) - 1) : Tail(s)[j] = s[j + 1]
      /\ Head(s) = s[1]
  OBVIOUS
<1>2. LastAudit(s) => LastAudit(Tail(s))
  BY <1>1 DEF LastAudit
<1>3. Tame(s) => Tame(Tail(s))
  BY <1>1, <1>2 DEF Tame
<1>4. LastAudit(s) /\ MainAudit(Head(s)) => Tail(s) = <<>>
  BY <1>1 DEF LastAudit
<1>5. Closes(s) /\ ~MainAudit(Head(s)) => Closes(Tail(s))
  <2>1. SUFFICES ASSUME Closes(s), ~MainAudit(Head(s)) PROVE Closes(Tail(s))
    OBVIOUS
  <2>2. Len(s) # 1 /\ MainAudit(s[Len(s)])
    BY <1>1, <2>1 DEF Closes
  <2>3. Len(s) - 1 \in 1 .. (Len(s) - 1)
    BY <1>1, <2>2
  <2>4. Tail(s)[Len(s) - 1] = s[Len(s) - 1 + 1] /\ Len(s) - 1 + 1 = Len(s)
    BY <1>1, <2>3
  <2>5. Len(Tail(s)) = Len(s) - 1 /\ Len(<<>>) = 0 /\ Len(s) - 1 # 0
    BY <1>1, <2>3
  <2>6. Tail(s) # <<>>
    BY <2>5, Zenon
  <2>7. Tail(s)[Len(Tail(s))] = s[Len(s)]
    BY <2>4, <2>5, Zenon
  <2> QED
    BY <2>2, <2>6, <2>7, Zenon DEF Closes
<1> QED
  BY <1>2, <1>3, <1>4, <1>5

\* Steps without a record before a script.
LEMMA TameAfter ==
  ASSUME NEW S, NEW r \in Seq(S), NEW s \in Seq(S), Tame(r),
         \A j \in DOMAIN r : ~MainAudit(r[j])
  PROVE  /\ LastAudit(s) => LastAudit(r \o s)
         /\ Tame(s) => Tame(r \o s)
         /\ Closes(s) => Closes(r \o s)
<1>1. /\ r \o s \in Seq(S) /\ Len(r \o s) = Len(r) + Len(s)
      /\ Len(r) \in Nat /\ Len(s) \in Nat
      /\ DOMAIN r = 1 .. Len(r) /\ DOMAIN s = 1 .. Len(s)
      /\ DOMAIN (r \o s) = 1 .. (Len(r) + Len(s))
      /\ \A j \in 1 .. (Len(r) + Len(s)) :
           (r \o s)[j] = IF j <= Len(r) THEN r[j] ELSE s[j - Len(r)]
  OBVIOUS
<1> DEFINE q == r \o s
<1>2. ASSUME NEW j \in DOMAIN q
      PROVE  \/ j \in DOMAIN r /\ q[j] = r[j]
             \/ \E i \in DOMAIN s : q[j] = s[i] /\ j = Len(r) + i
  <2>1. CASE j <= Len(r)
    <3>1. j \in DOMAIN r /\ q[j] = r[j]
      BY <1>1, <2>1
    <3> QED
      BY <3>1
  <2>2. CASE ~(j <= Len(r))
    <3>1. j - Len(r) \in DOMAIN s /\ q[j] = s[j - Len(r)]
      BY <1>1, <2>2
    <3> QED
      BY <1>1, <3>1
  <2> QED
    BY <2>1, <2>2
<1>3. Closes(s) => Closes(q)
  <2>1. SUFFICES ASSUME Closes(s) PROVE Closes(q)
    OBVIOUS
  <2>2. Len(s) # 0 /\ MainAudit(s[Len(s)])
    BY <1>1, <2>1 DEF Closes
  <2>3. q[Len(q)] = s[Len(s)] /\ q # <<>>
    BY <1>1, <2>2
  <2> HIDE DEF q
  <2> QED
    BY <2>2, <2>3 DEF Closes
<1>4. Len(q) = Len(r) + Len(s)
  BY <1>1
<1> HIDE DEF q
<1>5. LastAudit(s) => LastAudit(q)
  BY <1>2, <1>4 DEF LastAudit
<1>6. Tame(s) => Tame(q)
  BY <1>2, <1>5 DEF Tame
<1> QED
  BY <1>3, <1>5, <1>6 DEF q

-----------------------------------------------------------------------------
(* The scripts of Handlers *)

LEMMA FailsTells ==
  ASSUME NEW u \in UpdateType
  PROVE  /\ Tame(Fails(u)) /\ Closes(Fails(u))
         /\ Tame(Guard(u)) /\ (Denied(u) => Closes(Guard(u)))
         /\ \A j \in DOMAIN Guard(u) : Guard(u)[j].do \in {"reply", "audit"}
         /\ ~Denied(u) => Guard(u) = <<>>
<1>1. Mild(Reply) /\ Reply.do = "reply" /\ ~MainAudit(Reply)
  BY DEF Reply, Mild, MainAudit
<1>2. /\ Mild(Err(u.cmd, NoTarget)) /\ Err(u.cmd, NoTarget).do = "audit"
      /\ MainAudit(Err(u.cmd, NoTarget))
  BY DEF Err, Audit, Mild, MainAudit, Main
<1>3. PICK d : d = Audit(u.cmd, "denied", NoTarget, "none")
  OBVIOUS
<1>4. Mild(d) /\ d.do = "audit" /\ MainAudit(d)
  BY <1>3 DEF Audit, Mild, MainAudit, Main
<1>5. Tame(Fails(u)) /\ Closes(Fails(u))
  BY <1>1, <1>2, TameTwo, TwoSteps, Zenon DEF Fails
<1>6. CASE Denied(u)
  <2>1. Guard(u) = <<Reply, d>>
    BY <1>3, <1>6 DEF Guard
  <2>2. \A j \in DOMAIN <<Reply, d>> : <<Reply, d>>[j].do \in {"reply", "audit"}
    BY <1>1, <1>4
  <2>3. Tame(<<Reply, d>>) /\ Closes(<<Reply, d>>)
    BY <1>1, <1>4, TameTwo, TwoSteps, Zenon
  <2> QED
    BY <1>5, <1>6, <2>1, <2>2, <2>3, Zenon
<1>7. CASE ~Denied(u)
  <2>1. Guard(u) = <<>>
    BY <1>7 DEF Guard
  <2>2. \A j \in DOMAIN <<>> : <<>>[j].do \in {"reply", "audit"}
    OBVIOUS
  <2> QED
    BY <1>5, <1>7, <2>1, <2>2, TameNone, Zenon
<1> QED
  BY <1>6, <1>7

LEMMA ErrorHandlerTells ==
  /\ Tame(ErrorHandler) /\ Closes(ErrorHandler)
  /\ \A j \in DOMAIN ErrorHandler :
       /\ ErrorHandler[j].do = "audit" => ErrorHandler[j].cmd = "<error>"
       /\ ErrorHandler[j].do # "item"
<1>1. Mild(Reply) /\ Reply.do = "reply" /\ ~MainAudit(Reply)
  BY DEF Reply, Mild, MainAudit
<1>2. PICK e : e = Err("<error>", NoTarget)
  OBVIOUS
<1>3. Mild(e) /\ e.do = "audit" /\ MainAudit(e) /\ e.cmd = "<error>"
  BY <1>2 DEF Err, Audit, Mild, MainAudit, Main
<1>4. ErrorHandler = <<Reply, e>>
  BY <1>2 DEF ErrorHandler
<1>5. \A j \in DOMAIN <<Reply, e>> :
        /\ <<Reply, e>>[j].do = "audit" => <<Reply, e>>[j].cmd = "<error>"
        /\ <<Reply, e>>[j].do # "item"
  BY <1>1, <1>3
<1>6. Tame(<<Reply, e>>) /\ Closes(<<Reply, e>>)
  BY <1>1, <1>3, TameTwo, TwoSteps, Zenon
<1> QED
  BY <1>4, <1>5, <1>6, Zenon

LEMMA SucceedsTells ==
  ASSUME NEW u \in UpdateType, u.cmd \notin Claims, NEW n \in Nat, NEW i,
         i = NoTarget \/ u.cmd # "public_ip"
  PROVE  /\ Tame(Succeeds(u, n, i)) /\ Closes(Succeeds(u, n, i))
         /\ \A j \in DOMAIN Succeeds(u, n, i) : Succeeds(u, n, i)[j].do # "item"
<1>1. PICK ok : ok = Ok(u.cmd, i, "none")
  OBVIOUS
<1>2. Mild(ok) /\ ok.do = "audit" /\ MainAudit(ok)
  BY <1>1 DEF Ok, Audit, Mild, MainAudit, Main
<1>3. PICK S : S = {Reply, ok}
  OBVIOUS
<1>4. PICK r : r = Replies(n)
  OBVIOUS
<1>5. r \in Seq(S) /\ DOMAIN r = 1 .. n /\ \A j \in DOMAIN r : r[j] = Reply
  BY <1>3, <1>4 DEF Replies
<1>6. <<ok>> \in Seq(S) /\ Tame(<<ok>>) /\ Closes(<<ok>>)
  BY <1>2, <1>3, TameOne
<1>7. Mild(Reply) /\ Reply.do = "reply" /\ ~MainAudit(Reply)
  BY DEF Reply, Mild, MainAudit
<1>8. Tame(r) /\ \A j \in DOMAIN r : ~MainAudit(r[j])
  BY <1>5, <1>7 DEF Tame, LastAudit
<1>9. Tame(r \o <<ok>>) /\ Closes(r \o <<ok>>)
  BY <1>5, <1>6, <1>8, TameAfter, Zenon
<1>10. \A x \in S : x.do # "item"
  BY <1>2, <1>3, <1>7
<1>11. r \o <<ok>> \in Seq(S)
  BY <1>5, <1>6
<1>12. \A q \in Seq(S) : \A j \in DOMAIN q : q[j] \in S
  OBVIOUS
<1> QED
  BY <1>1, <1>4, <1>9, <1>10, <1>11, <1>12, Zenon DEF Succeeds

\* What may come of a command before OCI is asked.
LEMMA CommandTells ==
  ASSUME NEW u \in UpdateType
  PROVE  /\ \/ Command(u) = <<List>>
            \/ Tame(Command(u))
         /\ \/ Command(u) = <<List>> \/ Closes(Command(u))
            \/ Command(u) = <<Reply>> /\ NeedsArgument(u.cmd) /\ u.arg = NoArg
         /\ \A j \in DOMAIN Command(u) : Command(u)[j].do # "item"
         /\ Command(u) = <<List>> => ~(NeedsArgument(u.cmd) /\ u.arg = NoArg)
<1>1. CASE u.cmd \in SimpleCommands
  <2>1. u.cmd \notin Claims /\ 1 \in Nat
    BY <1>1 DEF SimpleCommands, Claims
  <2>2. Command(u) = Succeeds(u, 1, NoTarget)
    BY <1>1 DEF Command
  <2>3. ~NeedsArgument(u.cmd)
    BY <1>1 DEF SimpleCommands, NeedsArgument, LookupCommands, LifecycleCommands,
                ConfirmedCommands
  <2> QED
    BY <2>1, <2>2, <2>3, SucceedsTells, Zenon
<1>2. CASE u.cmd \notin SimpleCommands /\ NeedsArgument(u.cmd) /\ u.arg = NoArg
  <2>1. Command(u) = <<Reply>>
    BY <1>2 DEF Command
  <2>2. Mild(Reply) /\ Reply.do = "reply"
    BY DEF Reply, Mild
  <2>3. Tame(<<Reply>>)
    BY <2>2, TameOne, Zenon
  <2>4. <<Reply>> # <<List>> /\ \A j \in DOMAIN <<Reply>> : <<Reply>>[j].do # "item"
    BY DEF Reply, List
  <2> QED
    BY <1>2, <2>1, <2>3, <2>4, Zenon
<1>3. CASE /\ u.cmd \notin SimpleCommands /\ ~(NeedsArgument(u.cmd) /\ u.arg = NoArg)
           /\ u.arg = BadProfile
  <2>1. Command(u) = Fails(u)
    BY <1>3 DEF Command
  <2>2. \A j \in DOMAIN Fails(u) : Fails(u)[j].do # "item"
    BY DEF Fails, Reply, Err, Audit
  <2> QED
    BY <1>3, <2>1, <2>2, FailsTells, Zenon
<1>4. CASE /\ u.cmd \notin SimpleCommands /\ ~(NeedsArgument(u.cmd) /\ u.arg = NoArg)
           /\ u.arg # BadProfile
  <2>1. Command(u) = <<List>>
    BY <1>4 DEF Command
  <2>2. \A j \in DOMAIN <<List>> : <<List>>[j].do # "item"
    BY DEF List
  <2> QED
    BY <1>4, <2>1, <2>2, Zenon
<1> QED
  BY <1>1, <1>2, <1>3, <1>4

\* What follows the list of a command that only reads.
LEMMA ReportsTells ==
  ASSUME NEW u \in UpdateType, NEW n \in Nat,
         u.cmd \in ListCommands \cup LookupCommands
  PROVE  /\ Tame(Reports(u, n)) /\ Closes(Reports(u, n))
         /\ \A j \in DOMAIN Reports(u, n) : Reports(u, n)[j].do # "item"
<1>1. u.cmd \notin Claims /\ u.cmd # "public_ip"
  BY DEF ListCommands, LookupCommands, Claims
<1> QED
  BY <1>1, SucceedsTells, Zenon DEF Reports

LEMMA CollectsTells ==
  ASSUME NEW u \in UpdateType, u.cmd \in {"public_ip", "quota"}, NEW n \in Nat,
         NEW I, NEW items \in Seq(I), u.cmd = "public_ip" => NoTarget \notin I
  PROVE  /\ Tame(Collects(u, items, n)) /\ Closes(Collects(u, items, n))
         /\ u.cmd = "public_ip" =>
              \A j \in DOMAIN Collects(u, items, n) :
                Collects(u, items, n)[j].do = "item" =>
                  Collects(u, items, n)[j].target # NoTarget
<1>1. u.cmd \notin Claims /\ 1 \in Nat
  BY DEF Claims
<1>2. \A m \in Nat :
        /\ Tame(Succeeds(u, m, NoTarget)) /\ Closes(Succeeds(u, m, NoTarget))
        /\ \A j \in DOMAIN Succeeds(u, m, NoTarget) : Succeeds(u, m, NoTarget)[j].do # "item"
  BY <1>1, SucceedsTells, Zenon
<1>3. CASE items = <<>>
  BY <1>1, <1>2, <1>3, Zenon DEF Collects
<1>4. CASE items # <<>>
  <2>1. PICK r, s : r = [k \in DOMAIN items |-> Item(items[k])] /\ s = Succeeds(u, n, NoTarget)
    OBVIOUS
  <2>2. Collects(u, items, n) = r \o s
    BY <1>4, <2>1 DEF Collects
  <2>3. PICK S : S = {Item(i) : i \in I} \cup {Reply, Ok(u.cmd, NoTarget, "none")}
    OBVIOUS
  <2>4. r \in Seq(S)
    BY <2>1, <2>3
  <2>5. s \in Seq(S)
    <3>1. PICK ok : ok = Ok(u.cmd, NoTarget, "none")
      OBVIOUS
    <3>2. Replies(n) \in Seq(S) /\ <<ok>> \in Seq(S)
      BY <2>3, <3>1 DEF Replies
    <3> QED
      BY <2>1, <3>1, <3>2 DEF Succeeds
  <2>6. \A j \in DOMAIN r : r[j].do = "item" /\ \E i \in I : r[j].target = i
    BY <2>1 DEF Item
  <2>7. Tame(r) /\ \A j \in DOMAIN r : ~MainAudit(r[j])
    BY <2>6 DEF Tame, LastAudit, MainAudit, Mild
  <2>8. Tame(r \o s) /\ Closes(r \o s)
    BY <1>2, <2>1, <2>4, <2>5, <2>7, TameAfter, Zenon
  <2>9. ASSUME u.cmd = "public_ip", NEW j \in DOMAIN (r \o s), (r \o s)[j].do = "item"
        PROVE  (r \o s)[j].target # NoTarget
    <3>1. (\E i \in DOMAIN r : (r \o s)[j] = r[i]) \/ (\E i \in DOMAIN s : (r \o s)[j] = s[i])
      BY <2>4, <2>5
    <3>2. \A i \in DOMAIN s : s[i].do # "item"
      BY <1>2, <2>1
    <3> QED
      BY <2>6, <2>9, <3>1, <3>2
  <2> QED
    BY <2>2, <2>8, <2>9, Zenon
<1> QED
  BY <1>3, <1>4

LEMMA ItemFailsTells ==
  ASSUME NEW u \in UpdateType, NEW i, u.cmd = "public_ip" => i # NoTarget,
         NEW S, ItemFails(u, i) \in Seq(S), NEW s \in Seq(S)
  PROVE  /\ LastAudit(s) => LastAudit(ItemFails(u, i) \o s)
         /\ Closes(s) => Closes(ItemFails(u, i) \o s)
         /\ \A j \in DOMAIN (ItemFails(u, i) \o s) :
              (ItemFails(u, i) \o s)[j].do # "audit" =>
                \E k \in DOMAIN s : (ItemFails(u, i) \o s)[j] = s[k]
<1>1. PICK r : r = ItemFails(u, i)
  OBVIOUS
<1>2. r \in Seq(S)
  BY <1>1
<1>3. \A j \in DOMAIN r :
        /\ r[j].do = "audit" /\ Mild(r[j]) /\ ~MainAudit(r[j])
  <2>1. CASE u.cmd = "public_ip"
    <3>1. PICK e : e = Err(u.cmd, i)
      OBVIOUS
    <3>2. e.do = "audit" /\ e.cmd = "public_ip" /\ e.target # NoTarget /\ e.result = "error"
      BY <2>1, <3>1 DEF Err, Audit
    <3>3. r = <<e>>
      BY <1>1, <2>1, <3>1 DEF ItemFails
    <3> QED
      BY <3>2, <3>3 DEF Mild, MainAudit, Main
  <2>2. CASE u.cmd # "public_ip"
    BY <1>1, <2>2 DEF ItemFails
  <2> QED
    BY <2>1, <2>2
<1>4. Tame(r)
  BY <1>3 DEF Tame, LastAudit
<1>5. /\ LastAudit(s) => LastAudit(r \o s)
      /\ Closes(s) => Closes(r \o s)
  BY <1>2, <1>3, <1>4, TameAfter, Zenon
<1>6. ASSUME NEW j \in DOMAIN (r \o s)
      PROVE  (\E k \in DOMAIN r : (r \o s)[j] = r[k]) \/ (\E k \in DOMAIN s : (r \o s)[j] = s[k])
  <2>1. CASE j <= Len(r)
    <3>1. j \in DOMAIN r /\ (r \o s)[j] = r[j]
      BY <1>2, <2>1
    <3> QED
      BY <3>1, Zenon
  <2>2. CASE ~(j <= Len(r))
    <3>1. j - Len(r) \in DOMAIN s /\ (r \o s)[j] = s[j - Len(r)]
      BY <1>2, <2>2
    <3> QED
      BY <3>1, Zenon
  <2> QED
    BY <2>1, <2>2
<1>7. \A j \in DOMAIN (r \o s) :
        (r \o s)[j].do # "audit" => \E k \in DOMAIN s : (r \o s)[j] = s[k]
  <2> TAKE j \in DOMAIN (r \o s)
  <2>1. PICK x : x = (r \o s)[j]
    OBVIOUS
  <2>2. (\E k \in DOMAIN r : x = r[k]) \/ (\E k \in DOMAIN s : x = s[k])
    BY <1>6, <2>1, Zenon
  <2>3. x.do # "audit" => \E k \in DOMAIN s : x = s[k]
    BY <1>3, <2>2
  <2> QED
    BY <2>1, <2>3, Zenon
<1> QED
  BY <1>1, <1>5, <1>7, Zenon

LEMMA PromptsTells ==
  ASSUME NEW u \in UpdateType, u.cmd \in ConfirmedCommands, NEW t
  PROVE  Tame(Prompts(u, t)) /\ Closes(Prompts(u, t))
<1>1. PICK x, y : /\ x = Show(t, "prompt", "anyone")
                  /\ y = Ok(RequestRecord[u.cmd], u.arg, OciAction[u.cmd])
  OBVIOUS
<1>2. Mild(x) /\ ~MainAudit(x) /\ x.do = "show"
  BY <1>1 DEF Show, Mild, MainAudit
<1>3. RequestRecord[u.cmd] \notin Claims \cup {"public_ip"}
  BY DEF RequestRecord, ConfirmedCommands, Claims
<1>4. y.do = "audit" /\ y.cmd = RequestRecord[u.cmd]
  BY <1>1 DEF Ok, Audit
<1>5. Mild(y) /\ MainAudit(y)
  BY <1>3, <1>4 DEF Mild, MainAudit, Main
<1> QED
  BY <1>1, <1>2, <1>4, <1>5, TameTwo, TwoSteps, Zenon DEF Prompts

\* What follows a press that takes nothing.
LEMMA PressTells ==
  ASSUME NEW u \in UpdateType, u.cmd \in Presses
  PROVE  /\ Tame(ClickDenied(u)) /\ Closes(ClickDenied(u))
         /\ Tame(Misses(u)) /\ (Closes(Misses(u)) \/ u.cmd = "cancel")
<1>1. PICK x, y, z : /\ x = Show(u.token, "unauthorized", u.user)
                     /\ y = Err("callback", NoTarget)
                     /\ z = Err(PressRecord[u.cmd], NoTarget)
  OBVIOUS
<1>2. Mild(x) /\ ~MainAudit(x) /\ x.do = "show"
  BY <1>1 DEF Show, Mild, MainAudit
<1>3. Mild(y) /\ MainAudit(y) /\ y.do = "audit" /\ Mild(z) /\ MainAudit(z) /\ z.do = "audit"
  BY <1>1 DEF Err, Audit, Mild, MainAudit, Main
<1>4. Tame(ClickDenied(u)) /\ Closes(ClickDenied(u))
  BY <1>1, <1>2, <1>3, TameTwo, TwoSteps, Zenon DEF ClickDenied
<1>5. \A text \in {"expired", "nothing"} :
        /\ Mild(Edits(u, text)) /\ ~MainAudit(Edits(u, text)) /\ Edits(u, text).do = "show"
  BY DEF Edits, Show, Mild, MainAudit
<1>6. CASE u.cmd = "confirm"
  <2>1. Misses(u) = <<Edits(u, "expired"), z>>
    BY <1>1, <1>6 DEF Misses
  <2> QED
    BY <1>3, <1>4, <1>5, <2>1, TameTwo, TwoSteps, Zenon
<1>7. CASE u.cmd # "confirm"
  <2>1. Misses(u) = <<Edits(u, "nothing")>> /\ u.cmd = "cancel"
    BY <1>7 DEF Misses, Presses
  <2> QED
    BY <1>4, <1>5, <2>1, TameOne, Zenon
<1> QED
  BY <1>6, <1>7

\* What follows a press of Cancel that takes the token, and an action.
LEMMA OutcomeTells ==
  ASSUME NEW u \in UpdateType, NEW r, NEW x
  PROVE  /\ u.cmd = "cancel" =>
              /\ LastAudit(Cancels(u, r)) /\ Closes(Cancels(u, r))
         /\ u.cmd \in {"confirm", "start_instance"} =>
              /\ LastAudit(Accepted(u, x)) /\ Closes(Accepted(u, x))
              /\ Tame(Refused(u, x)) /\ Closes(Refused(u, x))
<1>1. \A text \in {"cancelled", "accepted", "failed"} :
        ~MainAudit(Edits(u, text)) /\ Edits(u, text).do = "show"
  BY DEF Edits, Show, MainAudit
<1>2. Mild(Edits(u, "failed")) /\ Mild(Reply) /\ ~MainAudit(Reply) /\ Reply.do = "reply"
  BY DEF Edits, Show, Reply, Mild, MainAudit
<1>3. ASSUME NEW cmd \in {"callback:cancel", "callback:confirm", "start_instance"},
             NEW i, NEW a
      PROVE  /\ MainAudit(Ok(cmd, i, a)) /\ MainAudit(Err(cmd, i))
             /\ Mild(Err(cmd, i)) /\ Err(cmd, i).do = "audit"
  BY DEF Ok, Err, Audit, MainAudit, Main, Mild
<1>4. /\ PressRecord["cancel"] = "callback:cancel"
      /\ PressRecord["confirm"] = "callback:confirm"
  BY DEF PressRecord
<1>5. ASSUME u.cmd = "cancel"
      PROVE  LastAudit(Cancels(u, r)) /\ Closes(Cancels(u, r))
  BY <1>1, <1>3, <1>4, <1>5, TwoSteps, Zenon DEF Cancels
<1>6. ASSUME u.cmd = "confirm"
      PROVE  /\ LastAudit(Accepted(u, x)) /\ Closes(Accepted(u, x))
             /\ Tame(Refused(u, x)) /\ Closes(Refused(u, x))
  <2>1. /\ Accepted(u, x) = <<Edits(u, "accepted"), Ok("callback:confirm", x.instance, x.action)>>
        /\ Refused(u, x) = <<Edits(u, "failed"), Err("callback:confirm", x.instance)>>
    BY <1>4, <1>6 DEF Accepted, Refused
  <2> QED
    BY <1>1, <1>2, <1>3, <2>1, TameTwo, TwoSteps, Zenon
<1>7. ASSUME u.cmd = "start_instance"
      PROVE  /\ LastAudit(Accepted(u, x)) /\ Closes(Accepted(u, x))
             /\ Tame(Refused(u, x)) /\ Closes(Refused(u, x))
  <2>1. /\ Accepted(u, x) = <<Reply, Ok("start_instance", x.instance, x.action)>>
        /\ Refused(u, x) = <<Reply, Err("start_instance", x.instance)>>
    BY <1>7 DEF Accepted, Refused
  <2> QED
    BY <1>2, <1>3, <2>1, TameTwo, TwoSteps, Zenon
<1> QED
  BY <1>5, <1>6, <1>7, Zenon

-----------------------------------------------------------------------------
(* What is told is so: the invariant *)

\* Token t was used, and led to no action and never will.
Dead(t) ==
  /\ t \in Used
  /\ \A k \in DOMAIN oci : oci[k].token # t
  /\ ~(Doing({"act"}) /\ Step.token = t)

\* What x, a record or a step that writes one, says of update id.
Vouched(id, x) ==
  x.result = "ok" =>
    /\ x.cmd \in {"start_instance", "callback:confirm"} =>
         \E k \in Effects(id) : oci[k].instance = x.target /\ oci[k].action = x.action
    /\ x.cmd = "callback:cancel" => Dead(sent[id].token)

Accomplished(t) == \E k \in DOMAIN oci : oci[k].token = t

Honest(x) ==
  /\ x.do = "show" /\ x.text = "accepted" => Accomplished(x.token)
  /\ x.do = "audit" => Vouched(done + 1, x)

\* An action is asked for by the command or the click being handled, and when OCI
\* has performed it, it is among its effects.
ActInv ==
  /\ Doing({"act", "performed"}) =>
       \/ Current.cmd = "start_instance"
       \/ Current.cmd = "confirm" /\ Step.token = Current.token
  /\ Doing({"performed"}) =>
       \E k \in Effects(done + 1) :
         /\ oci[k].instance = Step.instance /\ oci[k].action = Step.action
         /\ oci[k].token = Step.token

HonestScript == \A x \in Range(todo) : Honest(x)
HonestMessages == \A t \in Tokens : shown[t].text = "accepted" => Accomplished(t)
HonestLog == \A r \in DOMAIN log : Vouched(log[r].id, log[r])

TruthInv == HonestScript /\ HonestMessages /\ HonestLog /\ ActInv

-----------------------------------------------------------------------------
(* What is so stays so *)

LEMMA PlainHead ==
  ASSUME NEW T, NEW s \in Plain(T), s # <<>>
  PROVE  Head(s).do \in {"reply", "item", "show", "audit"}
<1>1. Head(s) \in PlainSteps(T)
  BY PlainSequences, Zenon
<1> QED
  BY <1>1, PlainKinds

LEMMA NextOci ==
  ASSUME [BotNext]_botVars
  PROVE  oci' = oci \/ OciPerforms
<1>1. CASE Handling
  <2>1. CASE AnswerReturns \/ ListReturns
    BY <2>1, Zenon DEF AnswerReturns, Miss, Hit, ListReturns, worldVars
  <2> QED
    BY <1>1, <2>1
       DEF Handling, Dispatch, GuardEnds, HandlerEnds, TelegramTakes, TelegramRaises,
           AuditWrites, AuditRaises, ItemReturns, ActReturns, OciRaises, worldVars
<1>2. CASE ~Handling
  BY <1>2 DEF BotNext, UserSends, Poll, Signal, Stopped, Crash, Start, TimePasses, botVars,
              worldVars
<1> QED
  BY <1>1, <1>2

LEMMA OciGrows ==
  ASSUME EffectInv, [BotNext]_botVars
  PROVE  DOMAIN oci \subseteq DOMAIN oci' /\ \A k \in DOMAIN oci : oci'[k] = oci[k]
<1>1. CASE oci' = oci
  BY <1>1
<1>2. CASE OciPerforms
  <2>1. \E e : oci' = Append(oci, e)
    BY <1>2, Zenon DEF OciPerforms
  <2> QED
    BY <2>1 DEF EffectInv
<1> QED
  BY <1>1, <1>2, NextOci

\* An action a script comes to ask for has no token that was used.
LEMMA ActFresh ==
  ASSUME BotInv, [BotNext]_botVars, todo' # todo, Doing({"act"})'
  PROVE  Step'.token = NoToken \/ Step'.token \notin Used
<1>1. /\ StoreInv /\ QueueInv /\ HistoryInv /\ ScriptInv /\ TypeOK
      /\ StoreInv' /\ HistoryGrows /\ drifted' = drifted
  BY NextBotInv, NextGrows, NextQuiet DEF BotInv, StoreInv
<1>2. todo' # <<>> /\ Head(todo').do = "act"
  BY DEF Doing, Step
<1>3. todo' \notin Plain(DOMAIN issued')
  BY <1>2, PlainHead
<1>4. ~(Crash \/ Start \/ HandlerEnds)
  <2>1. Crash \/ Start \/ HandlerEnds => todo' = <<>>
    BY <1>1 DEF Crash, Start, HandlerEnds, handlerVars, QueueInv
  <2> QED
    BY <1>2, <2>1
<1>5. ~(Dispatch \/ GuardEnds)
  BY <1>1, <1>2, <1>3, DispatchScript, GuardEndsScript DEF Answer, List
<1>6. ~OciPerforms
  <2>1. OciPerforms => todo' = <<Performed(Step)>> /\ Step \in ActSteps
    BY <1>1, AtAct DEF OciPerforms, Continue, Doing
  <2>2. OciPerforms => Head(todo').do = "performed"
    BY <2>1 DEF Performed, ActSteps
  <2> QED
    BY <1>2, <2>2
<1>7. ~(\/ TelegramTakes \/ TelegramRaises \/ AuditWrites \/ AuditRaises
        \/ ItemReturns \/ ActReturns \/ OciRaises)
  BY <1>1, <1>3, TalkScript
<1>8. CASE AnswerReturns
  <2>1. PICK x \in ActSteps : todo' = <<x>> /\ x.token \notin Used
    BY <1>1, <1>3, <1>8, AnswerScript
  <2> QED
    BY <2>1 DEF Step
<1>9. CASE ListReturns
  <2>1. PICK x \in ActSteps : todo' = <<x>> /\ x.token = NoToken
    BY <1>1, <1>3, <1>9, ListScript
  <2> QED
    BY <2>1 DEF Step
<1>10. \/ AnswerReturns \/ ListReturns
       \/ \E u \in Users : UserSends(u)
       \/ Poll \/ Signal \/ Stopped \/ TimePasses \/ UNCHANGED botVars
  BY <1>4, <1>5, <1>6, <1>7 DEF BotNext, Handling
<1>11. todo' = todo \/ AnswerReturns \/ ListReturns
  BY <1>10 DEF UserSends, Poll, Signal, Stopped, TimePasses, botVars, handlerVars
<1> QED
  BY <1>8, <1>9, <1>11

LEMMA UsedTokens ==
  ASSUME TypeOK, NEW t \in Used
  PROVE  t \in Tokens /\ t # NoToken
<1>1. PICK i \in DOMAIN taken : t = taken[i].grant.token
  BY DEF Used
<1>2. taken[i] \in Taking
  BY DEF TypeOK
<1>3. t \in Tokens
  BY <1>1, <1>2 DEF Taking, PendingAction
<1> QED
  BY <1>3, MissingAssumption

LEMMA DeadStable ==
  ASSUME BotInv, [BotNext]_botVars, NEW t, Dead(t)
  PROVE  Dead(t)'
<1>1. /\ TypeOK /\ QueueInv /\ EffectInv /\ HistoryGrows
  BY NextGrows DEF BotInv, StoreInv
<1>2. t \in Used /\ t # NoToken
  BY <1>1, UsedTokens DEF Dead
<1>3. t \in Used'
  BY <1>1, <1>2 DEF HistoryGrows, Used
<1>4. \A k \in DOMAIN oci' : oci'[k].token # t
  <2>1. CASE oci' = oci
    BY <2>1 DEF Dead
  <2>2. CASE OciPerforms
    <3>1. PICK e : oci' = Append(oci, e) /\ e.token = Step.token
      BY <2>2 DEF OciPerforms
    <3>2. e.token # t
      BY <2>2, <3>1 DEF Dead, OciPerforms
    <3>3. \A k \in DOMAIN oci' : (k \in DOMAIN oci /\ oci'[k] = oci[k]) \/ oci'[k] = e
      BY <1>1, <3>1 DEF EffectInv
    <3> QED
      BY <3>2, <3>3 DEF Dead
  <2> QED
    BY <2>1, <2>2, NextOci
<1>5. ~(Doing({"act"})' /\ Step'.token = t)
  <2>1. CASE todo' = todo
    BY <2>1 DEF Dead, Doing, Step
  <2>2. CASE todo' # todo
    BY <1>2, <2>2, ActFresh
  <2> QED
    BY <2>1, <2>2
<1> QED
  BY <1>3, <1>4, <1>5 DEF Dead

LEMMA VouchedStable ==
  ASSUME BotInv, [BotNext]_botVars, NEW id \in 1 .. Len(sent), NEW x, Vouched(id, x)
  PROVE  Vouched(id, x)'
<1>1. HistoryGrows /\ EffectInv
  BY NextGrows DEF BotInv, StoreInv
<1>2. sent'[id] = sent[id]
  BY <1>1 DEF HistoryGrows
<1>3. PICK t : t = sent[id].token
  OBVIOUS
<1>4. Dead(t) => Dead(t)'
  BY DeadStable
<1>5. ASSUME NEW k \in Effects(id)
      PROVE  k \in Effects(id)' /\ oci'[k] = oci[k]
  BY <1>1, OciGrows DEF Effects
<1>6. ASSUME x.result = "ok", x.cmd \in {"start_instance", "callback:confirm"}
      PROVE  \E k \in Effects(id)' : oci'[k].instance = x.target /\ oci'[k].action = x.action
  <2>1. PICK k \in Effects(id) : oci[k].instance = x.target /\ oci[k].action = x.action
    BY <1>6 DEF Vouched
  <2> QED
    BY <1>5, <2>1
<1>7. ASSUME x.result = "ok", x.cmd = "callback:cancel"
      PROVE  Dead(t)'
  BY <1>3, <1>4, <1>7 DEF Vouched
<1>8. x.result = "ok" /\ x.cmd = "callback:cancel" => Dead(sent[id].token)'
  BY <1>2, <1>3, <1>7 DEF Dead
<1> QED
  BY <1>6, <1>8, Zenon DEF Vouched

LEMMA AccomplishedStable ==
  ASSUME BotInv, [BotNext]_botVars, NEW t, Accomplished(t)
  PROVE  Accomplished(t)'
BY OciGrows DEF BotInv, Accomplished

LEMMA HonestStable ==
  ASSUME BotInv, [BotNext]_botVars, done' = done, done < fetched, NEW x, Honest(x)
  PROVE  Honest(x)'
<1>1. QueueInv
  BY DEF BotInv
<1>2. PICK id : id = done + 1
  OBVIOUS
<1>3. id \in 1 .. Len(sent)
  BY <1>1, <1>2, WaitingTyped
<1>4. x.do = "audit" => Vouched(id, x)
  BY <1>2 DEF Honest
<1>5. x.do = "audit" => Vouched(id, x)'
  BY <1>3, <1>4, VouchedStable
<1>6. x.do = "show" /\ x.text = "accepted" => Accomplished(x.token)'
  BY AccomplishedStable DEF Honest
<1>7. x.do = "audit" => Vouched(done + 1, x)'
  BY <1>2, <1>5 DEF Vouched, Effects, Dead
<1> QED
  BY <1>6, <1>7 DEF Honest

-----------------------------------------------------------------------------
(* What follows each step is so *)

LEMMA MildHonest ==
  ASSUME NEW x, Mild(x)
  PROVE  Honest(x) /\ Honest(x)'
BY DEF Mild, Honest, Vouched, Claims

LEMMA ScriptSeq ==
  ASSUME NEW s, NEW T, s \in Plain(T) \/ \E x : s = <<x>>
  PROVE  \E S : s \in Seq(S)
<1>1. CASE s \in Plain(T)
  BY <1>1 DEF Plain
<1>2. CASE \E x : s = <<x>>
  <2>1. PICK x : s = <<x>>
    BY <1>2
  <2>2. s \in Seq({x})
    BY <2>1
  <2> QED
    BY <2>2
<1> QED
  BY <1>1, <1>2

LEMMA TailRange ==
  ASSUME NEW S, NEW s \in Seq(S), s # <<>>
  PROVE  Range(Tail(s)) \subseteq Range(s) /\ Head(s) \in Range(s)
<1>1. 1 \in DOMAIN s /\ Head(s) = s[1]
  OBVIOUS
<1>2. ASSUME NEW j \in DOMAIN Tail(s)
      PROVE  \E k \in DOMAIN s : Tail(s)[j] = s[k]
  <2>1. j + 1 \in DOMAIN s /\ Tail(s)[j] = s[j + 1]
    OBVIOUS
  <2> QED
    BY <2>1
<1> QED
  BY <1>1, <1>2 DEF Range

LEMMA ErrorHandlerMild == \A x \in Range(ErrorHandler) : Mild(x)
BY ErrorHandlerTells DEF Range, Tame

\* Nothing is asked of OCI by a script that does not ask it.
LEMMA NoAct ==
  ASSUME todo' = <<>> \/ Head(todo').do \notin {"act", "performed"}
  PROVE  ActInv'
BY DEF ActInv, Doing, Step

LEMMA MessagesStay ==
  ASSUME BotInv, TruthInv, [BotNext]_botVars, shown' = shown
  PROVE  HonestMessages'
BY AccomplishedStable DEF TruthInv, HonestMessages

LEMMA LogStays ==
  ASSUME BotInv, LogInv, TruthInv, [BotNext]_botVars, log' = log
  PROVE  HonestLog'
<1>1. ASSUME NEW r \in DOMAIN log
      PROVE  Vouched(log[r].id, log[r])'
  <2>1. PICK id, x : id = log[r].id /\ x = log[r]
    OBVIOUS
  <2>2. id \in 1 .. Len(sent) /\ Vouched(id, x)
    BY <2>1 DEF LogInv, TruthInv, HonestLog
  <2>3. Vouched(id, x)'
    BY <2>2, VouchedStable
  <2>4. log'[r].id = id /\ log'[r] = x
    BY <2>1
  <2> QED
    BY <2>3, <2>4 DEF Vouched, Effects, Dead
<1> QED
  BY <1>1 DEF HonestLog

\* The steps of a script that were honest, and those that claim nothing.
LEMMA ScriptStays ==
  ASSUME BotInv, TruthInv, [BotNext]_botVars,
         \A x \in Range(todo') :
           \/ Mild(x) \/ Honest(x)'
           \/ x \in Range(todo) /\ done' = done /\ done < fetched
  PROVE  HonestScript'
<1>1. ASSUME NEW x \in Range(todo')
      PROVE  Honest(x)'
  BY <1>1, MildHonest, HonestStable DEF TruthInv, HonestScript
<1> QED
  BY <1>1 DEF HonestScript

\* A script that claims nothing follows.
LEMMA TameFollows ==
  ASSUME BotInv, LogInv, TruthInv, [BotNext]_botVars,
         shown' = shown, log' = log, Tame(todo')
  PROVE  TruthInv'
<1>1. PICK S : todo' \in Seq(S)
  <2>1. ScriptInv'
    BY NextBotInv DEF BotInv
  <2>2. todo' \in Plain(DOMAIN issued') \/ \E x : todo' = <<x>>
    BY <2>1 DEF ScriptInv
  <2> QED
    BY <2>2, ScriptSeq
<1>2. \A x \in Range(todo') : Mild(x) /\ x.do \notin {"act", "performed"}
  BY DEF Tame, Range
<1>3. todo' # <<>> => Head(todo') \in Range(todo')
  BY <1>1, TailRange
<1>4. HonestScript' /\ ActInv'
  BY <1>2, <1>3, ScriptStays, NoAct
<1> QED
  BY <1>4, MessagesStay, LogStays DEF TruthInv

\* A script goes on, or the error handler takes over.
LEMMA RestFollows ==
  ASSUME BotInv, TruthInv, [BotNext]_botVars, todo # <<>>, done' = done,
         todo' = Tail(todo) \/ todo' = ErrorHandler,
         HonestMessages', HonestLog'
  PROVE  TruthInv'
<1>1. QueueInv /\ ScriptInv
  BY DEF BotInv
<1>2. PICK S : todo \in Seq(S)
  <2>1. todo \in Plain(DOMAIN issued) \/ \E x : todo = <<x>>
    BY <1>1 DEF ScriptInv
  <2> QED
    BY <2>1, ScriptSeq
<1>3. done < fetched
  BY <1>1 DEF QueueInv
<1>4. HonestScript'
  BY <1>2, <1>3, TailRange, ErrorHandlerMild, ScriptStays
<1>5. ActInv'
  <2>1. CASE todo' = Tail(todo)
    <3>1. todo' \in Plain(DOMAIN issued)
      BY <1>1, <2>1, TailPlain
    <3> QED
      BY <3>1, PlainHead, NoAct
  <2>2. CASE todo' = ErrorHandler
    <3>1. Head(todo').do = "reply"
      BY <2>2 DEF ErrorHandler, Reply
    <3> QED
      BY <3>1, NoAct
  <2> QED
    BY <2>1, <2>2
<1> QED
  BY <1>4, <1>5 DEF TruthInv

\* The script waits while others act.
LEMMA SameFollows ==
  ASSUME BotInv, LogInv, TruthInv, [BotNext]_botVars,
         UNCHANGED <<todo, group, done, shown, log>>
  PROVE  TruthInv'
<1>1. CASE todo = <<>>
  BY <1>1, TameNone, TameFollows
<1>2. CASE todo # <<>>
  <2>1. QueueInv /\ EffectInv /\ HistoryGrows
    BY NextGrows DEF BotInv, StoreInv
  <2>2. done < fetched
    BY <1>2, <2>1 DEF QueueInv
  <2>3. Current' = Current
    BY <2>1, <2>2, WaitingTyped DEF HistoryGrows, Current
  <2>4. ActInv'
    <3>1. \A k \in Effects(done + 1) : k \in Effects(done + 1)' /\ oci'[k] = oci[k]
      BY <2>1, OciGrows DEF Effects
    <3>2. ActInv /\ Step' = Step
      BY DEF TruthInv, Step
    <3>3. Doing({"act", "performed"})' => Doing({"act", "performed"})
      BY DEF Doing, Step
    <3>4. Doing({"performed"})' => Doing({"performed"})
      BY DEF Doing, Step
    <3> QED
      BY <2>3, <3>1, <3>2, <3>3, <3>4 DEF ActInv
  <2>5. HonestScript'
    BY <2>2, ScriptStays
  <2> QED
    BY <2>4, <2>5, MessagesStay, LogStays DEF TruthInv
<1> QED
  BY <1>1, <1>2

-----------------------------------------------------------------------------
(* What follows an answer *)

\* What an update leaves no record of is what its handler may end without, and an
\* update that may end without a record may do so for good.
LEMMA SilentCases ==
  ASSUME NEW i, NeedsArgument(sent[i].cmd), sent[i].arg = NoArg, ~Denied(sent[i])
  PROVE  Silent(i)
<1>1. sent[i].cmd # "whoami"
  BY DEF NeedsArgument, LookupCommands, LifecycleCommands, ConfirmedCommands
<1> QED
  BY <1>1 DEF Silent, Denied, PUBLIC_COMMANDS

LEMMA SilentStays ==
  ASSUME NEW i, sent'[i] = sent[i], missed \subseteq missed', Silent(i)
  PROVE  Silent(i)'
BY DEF Silent

\* A list is followed by something that asks no more, with one record to end it,
\* or by the start of an instance.
LEMMA ListFollows ==
  ASSUME QueueInv, ListReturns
  PROVE  \/ /\ Tame(todo') /\ Closes(todo')
            /\ Current.cmd = "public_ip" =>
                 \A j \in DOMAIN todo' : todo'[j].do = "item" => todo'[j].target # NoTarget
         \/ /\ Current.cmd = "start_instance"
            /\ todo' = <<Act(Current.arg, OciAction[Current.cmd], NoToken)>>
<1>1. PICK u : u = Current
  OBVIOUS
<1>2. u \in UpdateType
  BY <1>1, CurrentTyped DEF ListReturns, Doing
<1>3. \/ todo' = Fails(u)
      \/ \E n \in 1 .. MaxChunks :
           u.cmd \in ListCommands \cup LookupCommands /\ todo' = Reports(u, n)
      \/ \E n \in 1 .. MaxChunks, l \in Listings :
           \/ u.cmd = "public_ip" /\ todo' = Collects(u, l, n)
           \/ u.cmd = "public_ip" /\ u.arg \in Range(l) /\ todo' = Collects(u, <<u.arg>>, n)
      \/ \E n \in 1 .. MaxChunks : u.cmd = "quota" /\ todo' = Collects(u, Services, n)
      \/ u.cmd = "start_instance" /\ todo' = <<Act(u.arg, OciAction[u.cmd], NoToken)>>
      \/ u.cmd \in ConfirmedCommands /\ \E t \in Tokens : todo' = Prompts(u, t)
  BY <1>1 DEF ListReturns, Continue
<1>4. CASE todo' = Fails(u)
  <2>1. \A j \in DOMAIN Fails(u) : Fails(u)[j].do # "item"
    BY DEF Fails, Reply, Err, Audit
  <2> QED
    BY <1>2, <1>4, <2>1, FailsTells, Zenon
<1>5. ASSUME NEW n \in 1 .. MaxChunks, u.cmd \in ListCommands \cup LookupCommands,
             todo' = Reports(u, n)
      PROVE  Tame(todo') /\ Closes(todo') /\ \A j \in DOMAIN todo' : todo'[j].do # "item"
  <2>1. n \in Nat
    OBVIOUS
  <2> QED
    BY <1>2, <1>5, <2>1, ReportsTells, Zenon
<1>6. ASSUME NEW n \in 1 .. MaxChunks, NEW items \in Seq(Instances),
             u.cmd = "public_ip", todo' = Collects(u, items, n)
      PROVE  /\ Tame(todo') /\ Closes(todo')
             /\ \A j \in DOMAIN todo' : todo'[j].do = "item" => todo'[j].target # NoTarget
  <2>1. n \in Nat
    OBVIOUS
  <2>2. u.cmd \in {"public_ip", "quota"} /\ NoTarget \notin Instances
    BY <1>6, MissingAssumption
  <2> QED
    BY <1>2, <1>6, <2>1, <2>2, CollectsTells, Zenon
<1>7. ASSUME NEW l \in Listings
      PROVE  l \in Seq(Instances) /\ (u.arg \in Range(l) => <<u.arg>> \in Seq(Instances))
  <2>1. l \in Seq(Instances)
    BY ListingsAssumption
  <2>2. u.arg \in Range(l) => u.arg \in Instances
    BY <2>1 DEF Range
  <2> QED
    BY <2>1, <2>2
<1>8. ASSUME NEW n \in 1 .. MaxChunks, u.cmd = "quota", todo' = Collects(u, Services, n)
      PROVE  Tame(todo') /\ Closes(todo') /\ u.cmd # "public_ip"
  <2>1. n \in Nat
    OBVIOUS
  <2>2. u.cmd \in {"public_ip", "quota"} /\ u.cmd # "public_ip"
    BY <1>8
  <2> QED
    BY <1>2, <1>8, <2>1, <2>2, CollectsTells, ServicesAssumption, Zenon
<1>9. ASSUME u.cmd \in ConfirmedCommands, NEW t \in Tokens, todo' = Prompts(u, t)
      PROVE  Tame(todo') /\ Closes(todo') /\ u.cmd # "public_ip"
  <2>1. u.cmd # "public_ip"
    BY <1>9 DEF ConfirmedCommands
  <2> QED
    BY <1>2, <1>9, <2>1, PromptsTells, Zenon
<1> QED
  BY <1>1, <1>3, <1>4, <1>5, <1>6, <1>7, <1>8, <1>9, Zenon

\* A press is followed by one record, by the action it confirms, or, when there was
\* nothing to cancel, by no record.
LEMMA AnswerFollows ==
  ASSUME QueueInv, ScriptInv, AnswerReturns
  PROVE  /\ done' = done /\ oci' = oci /\ Current.cmd \in Presses
         /\ missed \subseteq missed'
         /\ \/ /\ Tame(todo') /\ (Closes(todo') \/ Silent(done + 1)')
               /\ \/ todo' = ClickDenied(Current) /\ ~Check(Current.user) /\ taken' = taken
                  \/ todo' = Misses(Current) /\ taken' = taken
            \/ /\ TakeHit(Current.token, Current.user) /\ Check(Current.user)
               /\ \E r : \/ /\ Current.cmd = "confirm"
                            /\ todo' = <<Act(r.instance, r.action, Current.token)>>
                         \/ Current.cmd = "cancel" /\ todo' = Cancels(Current, r)
<1>1. Current \in UpdateType /\ Current.cmd \in Presses
  BY CurrentTyped, AtAnswer DEF AnswerReturns, Miss, Hit, Doing
<1>2. done' = done /\ sent' = sent /\ oci' = oci /\ missed \subseteq missed'
  BY Zenon DEF AnswerReturns, Miss, Hit, Continue, queueVars
<1>3. \/ ~Check(Current.user) /\ todo' = ClickDenied(Current) /\ taken' = taken
      \/ Check(Current.user) /\ todo' = Misses(Current) /\ taken' = taken /\ done + 1 \in missed'
      \/ /\ TakeHit(Current.token, Current.user) /\ Check(Current.user)
         /\ \E r : IF Current.cmd = "confirm"
                   THEN todo' = <<Act(r.instance, r.action, Current.token)>>
                   ELSE todo' = Cancels(Current, r)
  <2>1. CASE ~Check(Current.user) /\ Continue(ClickDenied(Current)) /\ UNCHANGED storeVars
    BY <2>1 DEF Continue, storeVars
  <2>2. CASE Check(Current.user) /\ TakeMiss(Current.token, Current.user)
                                 /\ Continue(Misses(Current))
                                 /\ missed' = missed \cup {done + 1}
    BY <2>2 DEF Continue, TakeMiss
  <2>3. CASE /\ TakeHit(Current.token, Current.user) /\ Check(Current.user)
             /\ LET r == pending[Current.token].request
                IN Continue(IF Current.cmd = "confirm"
                            THEN <<Act(r.instance, r.action, Current.token)>>
                            ELSE Cancels(Current, r))
    <3>1. PICK r : r = pending[Current.token].request
      OBVIOUS
    <3>2. todo' = IF Current.cmd = "confirm"
                  THEN <<Act(r.instance, r.action, Current.token)>>
                  ELSE Cancels(Current, r)
      BY <2>3, <3>1, Zenon DEF Continue
    <3> QED
      BY <2>3, <3>2, Zenon
  <2> QED
    BY <2>1, <2>2, <2>3, Zenon DEF AnswerReturns, Miss, Hit
<1>4. Current.cmd = "cancel" /\ done + 1 \in missed' => Silent(done + 1)'
  BY <1>2 DEF Silent, Current
<1>5. /\ Tame(ClickDenied(Current)) /\ Closes(ClickDenied(Current))
      /\ Tame(Misses(Current)) /\ (Closes(Misses(Current)) \/ Current.cmd = "cancel")
  BY <1>1, PressTells, Zenon
<1>6. Current.cmd = "confirm" \/ Current.cmd = "cancel"
  BY <1>1 DEF Presses
<1> QED
  BY <1>1, <1>2, <1>3, <1>4, <1>5, <1>6, Zenon

\* The handler of a command begins with its only record to come, with a question
\* to OCI, or with nothing to record.
LEMMA GuardFollows ==
  ASSUME QueueInv, GuardEnds, ~(Denied(Current) /\ ~failed)
  PROVE  /\ done' = done /\ group' = "handler" /\ failed' = FALSE
         /\ todo' = <<List>> \/ Tame(todo')
         /\ \/ todo' = <<List>> \/ Closes(todo')
            \/ NeedsArgument(Current.cmd) /\ Current.arg = NoArg /\ todo' # <<>>
         /\ \A j \in DOMAIN todo' : todo'[j].do # "item"
<1>1. Current \in UpdateType
  BY WaitingTyped DEF GuardEnds, QueueInv
<1>2. todo' = Command(Current) /\ done' = done /\ group' = "handler" /\ failed' = FALSE
  BY DEF GuardEnds
<1>3. PICK u, s : u = Current /\ s = Command(u)
  OBVIOUS
<1>4. /\ s = <<List>> \/ Tame(s)
      /\ s = <<List>> \/ Closes(s) \/ (s = <<Reply>> /\ NeedsArgument(u.cmd) /\ u.arg = NoArg)
      /\ \A j \in DOMAIN s : s[j].do # "item"
  BY <1>1, <1>3, CommandTells, Zenon
<1>5. todo' = s /\ <<Reply>> # <<>>
  BY <1>2, <1>3
<1> QED
  BY <1>2, <1>3, <1>4, <1>5

-----------------------------------------------------------------------------
(* What is told is so: every step *)

LEMMA TelegramTruth ==
  ASSUME BotInv, LogInv, TruthInv, [BotNext]_botVars, TelegramTakes \/ TelegramRaises
  PROVE  TruthInv'
<1>1. /\ todo # <<>> /\ done' = done /\ log' = log
      /\ todo' = Tail(todo) \/ todo' = ErrorHandler
      /\ shown' = shown \/ (shown' = Delivered(Step) /\ Doing({"reply", "show", "answer"}))
  BY DEF TelegramTakes, TelegramRaises, Doing, Continue, Raise, queueVars, Unmodified
<1>2. CASE shown' = shown
  BY <1>1, <1>2, MessagesStay, LogStays, RestFollows
<1>3. CASE shown' = Delivered(Step)
  <2>1. DOMAIN shown = Tokens /\ ScriptInv
    BY DEF BotInv, HistoryInv
  <2>2. PICK x : x = Step
    OBVIOUS
  <2>3. Honest(x)
    <3>1. PICK S : todo \in Seq(S)
      <4>1. todo \in Plain(DOMAIN issued) \/ \E y : todo = <<y>>
        BY <2>1 DEF ScriptInv
      <4> QED
        BY <4>1, ScriptSeq
    <3>2. x \in Range(todo)
      BY <1>1, <2>2, <3>1, TailRange DEF Step
    <3> QED
      BY <3>2 DEF TruthInv, HonestScript
  <2>4. ASSUME NEW t \in Tokens, shown'[t].text = "accepted"
        PROVE  Accomplished(t)
    <3>1. CASE shown'[t] = shown[t]
      BY <2>4, <3>1 DEF TruthInv, HonestMessages
    <3>2. CASE shown'[t] # shown[t]
      <4>1. x.do = "show" /\ x.token = t /\ shown'[t] = Text(x)
        BY <1>3, <2>1, <2>2, <3>2 DEF Delivered
      <4> QED
        BY <2>3, <2>4, <4>1 DEF Honest, Text
    <3> QED
      BY <3>1, <3>2
  <2>5. HonestMessages'
    BY <2>4, AccomplishedStable DEF HonestMessages
  <2> QED
    BY <1>1, <2>5, LogStays, RestFollows
<1> QED
  BY <1>1, <1>2, <1>3

LEMMA AuditTruth ==
  ASSUME BotInv, LogInv, TruthInv, [BotNext]_botVars, AuditWrites
  PROVE  TruthInv'
<1>1. PICK x, id, e :
        /\ x = Step /\ id = done + 1
        /\ e = [id |-> id, user |-> Current.user, cmd |-> x.cmd, result |-> x.result,
                target |-> x.target, action |-> x.action]
  OBVIOUS
<1>2. /\ todo # <<>> /\ x.do = "audit" /\ log' = Append(log, e) /\ shown' = shown
      /\ done' = done /\ todo' = Tail(todo)
  BY <1>1 DEF AuditWrites, Doing, Continue, queueVars
<1>3. Honest(x) /\ done < fetched /\ id \in 1 .. Len(sent)
  <2>1. ScriptInv /\ QueueInv
    BY DEF BotInv
  <2>2. PICK S : todo \in Seq(S)
    <3>1. todo \in Plain(DOMAIN issued) \/ \E y : todo = <<y>>
      BY <2>1 DEF ScriptInv
    <3> QED
      BY <3>1, ScriptSeq
  <2>3. x \in Range(todo)
    BY <1>1, <1>2, <2>2, TailRange DEF Step
  <2>4. done < fetched
    BY <1>2, <2>1 DEF QueueInv
  <2> QED
    BY <1>1, <2>1, <2>3, <2>4, WaitingTyped DEF TruthInv, HonestScript
<1>4. Vouched(id, x)
  BY <1>1, <1>2, <1>3 DEF Honest
<1>5. e.id = id /\ e.result = x.result /\ e.cmd = x.cmd /\ e.target = x.target
      /\ e.action = x.action
  BY <1>1
<1>6. Vouched(id, e)
  BY <1>4, <1>5 DEF Vouched
<1>7. Vouched(id, e)'
  BY <1>3, <1>6, VouchedStable
<1>8. ASSUME NEW r \in DOMAIN log'
      PROVE  Vouched(log[r].id, log[r])'
  <2>1. PICK i, y : i = log'[r].id /\ y = log'[r]
    OBVIOUS
  <2>2. (r \in DOMAIN log /\ y = log[r]) \/ y = e
    BY <1>2, <2>1 DEF LogInv
  <2>3. CASE r \in DOMAIN log /\ y = log[r]
    <3>1. i \in 1 .. Len(sent) /\ Vouched(i, y)
      BY <2>1, <2>3 DEF LogInv, TruthInv, HonestLog
    <3>2. Vouched(i, y)'
      BY <3>1, VouchedStable
    <3> QED
      BY <2>1, <3>2 DEF Vouched, Effects, Dead
  <2>4. CASE y = e
    <3>1. i = id
      BY <1>5, <2>1, <2>4
    <3> QED
      BY <1>7, <2>1, <2>4, <3>1 DEF Vouched, Effects, Dead
  <2> QED
    BY <2>2, <2>3, <2>4
<1>9. HonestLog'
  BY <1>8 DEF HonestLog
<1> QED
  BY <1>2, <1>9, MessagesStay, RestFollows

LEMMA RaiseTruth ==
  ASSUME BotInv, LogInv, TruthInv, [BotNext]_botVars, AuditRaises \/ OciRaises
  PROVE  TruthInv'
<1>1. /\ todo # <<>> /\ done' = done /\ log' = log /\ shown' = shown
      /\ todo' = Tail(todo) \/ todo' = ErrorHandler
  BY DEF AuditRaises, OciRaises, Doing, Raise, queueVars, worldVars
<1> QED
  BY <1>1, MessagesStay, LogStays, RestFollows

\* A handler asks, and nothing is claimed before the answer.
LEMMA AskFollows ==
  ASSUME BotInv, LogInv, TruthInv, [BotNext]_botVars, shown' = shown, log' = log,
         todo' = <<Answer>> \/ todo' = <<List>>
  PROVE  TruthInv'
<1>1. \A x \in Range(todo') : Mild(x)
  BY DEF Range, Answer, List, Mild
<1>2. Head(todo').do \notin {"act", "performed"}
  BY DEF Answer, List
<1> QED
  BY <1>1, <1>2, ScriptStays, NoAct, MessagesStay, LogStays DEF TruthInv

\* An update that asked for an action, or its click, asks OCI for it.
LEMMA ActFollows ==
  ASSUME BotInv, LogInv, TruthInv, [BotNext]_botVars, shown' = shown, log' = log,
         NEW i, NEW a, NEW t, todo' = <<Act(i, a, t)>>,
         \/ Current'.cmd = "start_instance"
         \/ Current'.cmd = "confirm" /\ t = Current'.token
  PROVE  TruthInv'
<1>1. PICK x : x = Act(i, a, t)
  OBVIOUS
<1>2. x.do = "act" /\ x.token = t
  BY <1>1 DEF Act
<1>3. todo' = <<x>> /\ Head(todo') = x
  BY <1>1
<1>4. \A y \in Range(todo') : Mild(y)
  BY <1>2, <1>3 DEF Range, Mild
<1>5. ActInv'
  BY <1>2, <1>3 DEF ActInv, Doing, Step
<1> QED
  BY <1>4, <1>5, ScriptStays, MessagesStay, LogStays DEF TruthInv

\* A press that is answered; a token that is cancelled leads to nothing any more.
LEMMA AnswerTruth ==
  ASSUME BotInv, LogInv, TruthInv, [BotNext]_botVars, AnswerReturns
  PROVE  TruthInv'
<1>1. /\ QueueInv /\ ScriptInv /\ EffectInv /\ StoreInv /\ TypeOK
      /\ shown' = shown /\ log' = log /\ sent' = sent /\ oci' = oci
      /\ todo # <<>> /\ done < fetched /\ done' = done
  <2>1. sent' = sent
    BY HandlingQuiet DEF Handling
  <2>2. shown' = shown /\ log' = log /\ oci' = oci /\ todo # <<>>
    BY DEF AnswerReturns, Miss, Hit, worldVars, Doing
  <2>3. done' = done
    BY Zenon DEF AnswerReturns, Miss, Hit, Continue, queueVars
  <2> QED
    BY <2>1, <2>2, <2>3 DEF BotInv, StoreInv, QueueInv
<1>2. Current' = Current /\ Current \in UpdateType /\ Current.cmd \in Presses
  BY <1>1, CurrentTyped, AnswerFollows DEF Current
<1>3. CASE Tame(todo')
  BY <1>1, <1>3, TameFollows
<1>4. ASSUME NEW r, Current.cmd = "confirm",
             todo' = <<Act(r.instance, r.action, Current.token)>>
      PROVE  TruthInv'
  BY <1>1, <1>2, <1>4, ActFollows
<1>5. ASSUME NEW r, Current.cmd = "cancel", todo' = Cancels(Current, r),
             TakeHit(Current.token, Current.user)
      PROVE  TruthInv'
  <2>1. PICK t, x, y : /\ t = Current.token /\ x = Edits(Current, "cancelled")
                       /\ y = Ok("callback:cancel", r.instance, r.action)
    OBVIOUS
  <2>2. Cancels(Current, r) = <<x, y>>
    BY <1>5, <2>1 DEF Cancels, PressRecord
  <2>3. todo' = <<x, y>>
    BY <1>5, <2>2, Zenon
  <2>4. Mild(x) /\ x.do = "show" /\ y.do = "audit" /\ y.cmd = "callback:cancel"
    BY <2>1 DEF Edits, Show, Ok, Audit, Mild
  <2>5. Head(todo').do = "show"
    BY <2>3, <2>4
  <2>6. t \in Tokens /\ Current.user \in Users
    <3>1. Current.token \in DOMAIN issued
      <4>1. done + 1 \in DOMAIN sent /\ Current = sent[done + 1]
        BY <1>1, WaitingTyped DEF QueueInv
      <4> QED
        BY <1>2, <4>1 DEF BotInv, HistoryInv
    <3> QED
      BY <1>1, <1>2, <2>1, <3>1 DEF TypeOK, UpdateType
  <2>7. t \in Used' /\ t \notin Used /\ t # NoToken
    <3>1. t \in Used'
      BY <1>1, <1>5, <2>1, <2>6, UsedAfterTakeHit
    <3>2. t \in DOMAIN pending
      BY <1>1, <1>5, <2>1, <2>6, TakeHitFacts
    <3>3. t \notin Used
      BY <1>1, <3>2 DEF StoreInv, LiveEntry
    <3> QED
      BY <2>6, <3>1, <3>3, MissingAssumption
  <2>8. Dead(t)'
    <3>1. \A k \in DOMAIN oci : oci[k].token # t
      BY <1>1, <2>7, EffectsUse
    <3>2. ~Doing({"act"})'
      BY <2>5 DEF Doing, Step
    <3> QED
      BY <1>1, <2>7, <3>1, <3>2 DEF Dead
  <2>9. Honest(y)'
    <3>1. sent'[done' + 1].token = t
      BY <1>1, <2>1 DEF Current
    <3>2. Dead(sent[done + 1].token)'
      BY <2>8, <3>1 DEF Dead
    <3> QED
      BY <2>4, <3>2 DEF Honest, Vouched
  <2>10. \A z \in Range(todo') : Mild(z) \/ Honest(z)'
    <3>1. \A z \in Range(todo') : z = x \/ z = y
      BY <2>3 DEF Range
    <3> QED
      BY <2>4, <2>9, <3>1
  <2>11. HonestScript'
    BY <2>10, ScriptStays
  <2>12. ActInv'
    BY <2>5, NoAct
  <2> QED
    BY <1>1, <2>11, <2>12, MessagesStay, LogStays DEF TruthInv
<1> QED
  BY <1>1, <1>3, <1>4, <1>5, AnswerFollows

LEMMA ListTruth ==
  ASSUME BotInv, LogInv, TruthInv, [BotNext]_botVars, ListReturns
  PROVE  TruthInv'
<1>1. /\ QueueInv /\ shown' = shown /\ log' = log /\ sent' = sent /\ done' = done
  <2>1. sent' = sent
    BY HandlingQuiet DEF Handling
  <2>2. shown' = shown /\ log' = log
    BY DEF ListReturns, worldVars
  <2>3. done' = done
    BY Zenon DEF ListReturns, Continue, queueVars
  <2> QED
    BY <2>1, <2>2, <2>3 DEF BotInv
<1>2. Current' = Current
  BY <1>1 DEF Current
<1>3. CASE Tame(todo')
  BY <1>1, <1>3, TameFollows
<1>4. CASE /\ Current.cmd = "start_instance"
           /\ todo' = <<Act(Current.arg, OciAction[Current.cmd], NoToken)>>
  BY <1>1, <1>2, <1>4, ActFollows
<1> QED
  BY <1>1, <1>3, <1>4, ListFollows

\* An item that could not be read is recorded, and the rest goes on.
LEMMA ItemTruth ==
  ASSUME BotInv, LogInv, TruthInv, [BotNext]_botVars, ItemReturns
  PROVE  TruthInv'
<1>1. /\ todo # <<>> /\ done' = done /\ shown' = shown /\ log' = log
      /\ \/ todo' = Tail(todo)
         \/ todo' = ItemFails(Current, Step.target) \o Tail(todo)
  BY DEF ItemReturns, Doing, Continue, queueVars, worldVars
<1>2. QueueInv /\ ScriptInv /\ Doing({"reply", "show", "item", "audit"}) /\ done < fetched
  BY <1>1 DEF BotInv, QueueInv, ItemReturns, Doing
<1>3. CASE todo' = Tail(todo)
  BY <1>1, <1>3, MessagesStay, LogStays, RestFollows
<1>4. CASE todo' = ItemFails(Current, Step.target) \o Tail(todo)
  <2>1. PICK f, q, S : /\ f = ItemFails(Current, Step.target) /\ q = Tail(todo)
                       /\ S = PlainSteps(DOMAIN issued)
    OBVIOUS
  <2>2. q \in Seq(S) /\ todo \in Seq(S)
    <3>1. Tail(todo) \in Plain(DOMAIN issued)
      BY <1>2, AtPlainStep
    <3>2. todo \in Plain(DOMAIN issued)
      BY <1>2 DEF ScriptInv, Doing, Step, Answer, List, ActSteps
    <3> QED
      BY <2>1, <3>1, <3>2 DEF Plain
  <2>3. f \in Seq(S)
    <3>1. Current \in UpdateType /\ Step \in S /\ Step.do = "item"
      BY <1>1, <1>2, <2>1, CurrentTyped, AtPlainStep DEF ItemReturns, Doing
    <3>2. Step.target \in Targets /\ 1 \in Nat
      BY <2>1, <3>1, PlainKinds
    <3>3. ItemFails(Current, Step.target) \in Plain(DOMAIN issued)
      BY <3>1, <3>2, ReportsPlain, Zenon
    <3> QED
      BY <2>1, <3>3 DEF Plain
  <2>4. \A x \in Range(f) : Mild(x)
    <3>1. PICK e : e = Err(Current.cmd, Step.target)
      OBVIOUS
    <3>2. Mild(e) /\ (f = <<e>> \/ f = <<>>)
      BY <2>1, <3>1 DEF ItemFails, Err, Audit, Mild
    <3> QED
      BY <3>2 DEF Range
  <2>5. \A x \in Range(f \o q) : x \in Range(f) \/ x \in Range(q)
    BY <2>2, <2>3 DEF Range
  <2>6. Range(q) \subseteq Range(todo)
    BY <1>1, <2>1, <2>2, TailRange
  <2>7. HonestScript'
    BY <1>1, <1>2, <1>4, <2>1, <2>4, <2>5, <2>6, ScriptStays
  <2>8. todo' \in Plain(DOMAIN issued)
    BY <1>4, <2>1, <2>2, <2>3 DEF Plain
  <2>9. ActInv'
    BY <2>8, PlainHead, NoAct
  <2> QED
    BY <1>1, <2>7, <2>9, MessagesStay, LogStays DEF TruthInv
<1> QED
  BY <1>1, <1>3, <1>4

LEMMA OciPerformsTruth ==
  ASSUME BotInv, LogInv, TruthInv, [BotNext]_botVars, OciPerforms
  PROVE  TruthInv'
<1>1. PICK x, id, e, y :
        /\ x = Step /\ id = done + 1 /\ y = Performed(x)
        /\ e = [id |-> id, instance |-> x.instance, action |-> x.action, token |-> x.token]
  OBVIOUS
<1>2. /\ x \in ActSteps /\ oci' = Append(oci, e) /\ todo' = <<y>> /\ done' = done
      /\ sent' = sent /\ shown' = shown /\ log' = log
  BY <1>1, AtAct DEF BotInv, OciPerforms, Doing, Continue, queueVars
<1>3. /\ y.do = "performed" /\ y.instance = x.instance /\ y.action = x.action
      /\ y.token = x.token
  BY <1>1, <1>2 DEF Performed, ActSteps
<1>4. Head(todo') = y /\ \A z \in Range(todo') : z = y
  BY <1>2 DEF Range
<1>5. Current.cmd = "start_instance" \/ (Current.cmd = "confirm" /\ y.token = Current.token)
  BY <1>1, <1>3 DEF TruthInv, ActInv, OciPerforms, Doing
<1>6. \E k \in Effects(done + 1)' :
        oci'[k].instance = y.instance /\ oci'[k].action = y.action /\ oci'[k].token = y.token
  <2>1. Len(oci) + 1 \in DOMAIN oci' /\ oci'[Len(oci) + 1] = e
    BY <1>2 DEF BotInv, EffectInv
  <2> QED
    BY <1>1, <1>2, <1>3, <2>1 DEF Effects
<1>7. ActInv'
  <2>1. Step' = y /\ Current' = Current
    BY <1>2, <1>4 DEF Step, Current
  <2> QED
    BY <1>5, <1>6, <2>1 DEF ActInv
<1>8. HonestScript'
  BY <1>3, <1>4, ScriptStays DEF Mild
<1> QED
  BY <1>2, <1>7, <1>8, MessagesStay, LogStays DEF TruthInv

\* What OCI performed is reported as accepted; what it refused is not.
LEMMA ActTruth ==
  ASSUME BotInv, LogInv, TruthInv, [BotNext]_botVars, ActReturns
  PROVE  TruthInv'
<1>1. PICK u, x : u = Current /\ x = Step
  OBVIOUS
<1>2. /\ Doing({"act", "performed"}) /\ x \in ActSteps /\ u \in UpdateType
      /\ u.cmd \in {"confirm", "start_instance"}
      /\ done' = done /\ shown' = shown /\ log' = log /\ done < fetched
  <2>1. Doing({"act", "performed"}) /\ QueueInv /\ ScriptInv
    BY DEF ActReturns, Doing, BotInv
  <2>2. done < fetched
    BY <2>1 DEF QueueInv, Doing
  <2>3. u \in UpdateType
    BY <1>1, <2>1, CurrentTyped DEF Doing
  <2>4. done' = done /\ shown' = shown /\ log' = log
    BY DEF ActReturns, Continue, worldVars, queueVars
  <2> QED
    BY <1>1, <2>1, <2>2, <2>3, <2>4, AtAct DEF TruthInv, ActInv
<1>3. CASE todo' = Refused(u, x)
  BY <1>2, <1>3, OutcomeTells, TameFollows
<1>4. CASE Doing({"performed"}) /\ todo' = Accepted(u, x)
  <2>1. \E k \in Effects(done + 1) :
          /\ oci[k].instance = x.instance /\ oci[k].action = x.action
          /\ oci[k].token = x.token
    BY <1>1, <1>4 DEF TruthInv, ActInv
  <2>2. u.cmd = "confirm" => Accomplished(u.token)
    <3>1. u.cmd = "confirm" => x.token = u.token
      BY <1>1, <1>2 DEF TruthInv, ActInv
    <3> QED
      BY <2>1, <3>1 DEF Accomplished, Effects
  <2>3. ASSUME NEW y, y \in {Ok("callback:confirm", x.instance, x.action),
                             Ok("start_instance", x.instance, x.action)}
        PROVE  Honest(y)
    <3>1. /\ y.do = "audit" /\ y.cmd # "callback:cancel"
          /\ y.target = x.instance /\ y.action = x.action
      BY <2>3 DEF Ok, Audit
    <3> QED
      BY <2>1, <3>1 DEF Honest, Vouched
  <2>4. Honest(Reply) /\ Reply.do = "reply"
    BY DEF Reply, Honest
  <2>5. u.cmd = "confirm" => Honest(Edits(u, "accepted")) /\ Edits(u, "accepted").do = "show"
    BY <2>2 DEF Edits, Show, Honest
  <2>6. PICK y, z : todo' = <<y, z>> /\ Honest(y) /\ Honest(z) /\ y.do \in {"reply", "show"}
    <3>1. CASE u.cmd = "confirm"
      <4>1. Accepted(u, x)
              = <<Edits(u, "accepted"), Ok("callback:confirm", x.instance, x.action)>>
        BY <3>1 DEF Accepted, PressRecord
      <4> QED
        BY <1>4, <2>3, <2>5, <3>1, <4>1
    <3>2. CASE u.cmd = "start_instance"
      <4>1. Accepted(u, x) = <<Reply, Ok("start_instance", x.instance, x.action)>>
        BY <3>2 DEF Accepted
      <4> QED
        BY <1>4, <2>3, <2>4, <4>1
    <3> QED
      BY <1>2, <3>1, <3>2
  <2>7. \A s \in Range(todo') : s = y \/ s = z
    BY <2>6 DEF Range
  <2>8. Honest(y)' /\ Honest(z)'
    BY <1>2, <2>6, HonestStable
  <2>9. HonestScript'
    BY <2>7, <2>8 DEF HonestScript
  <2>10. ActInv'
    <3>1. Head(todo') = y
      BY <2>6
    <3> QED
      BY <2>6, <3>1, NoAct
  <2> QED
    BY <1>2, <2>9, <2>10, MessagesStay, LogStays DEF TruthInv
<1> QED
  BY <1>1, <1>3, <1>4 DEF ActReturns, Continue

LEMMA DispatchTruth ==
  ASSUME BotInv, LogInv, TruthInv, [BotNext]_botVars, Dispatch \/ GuardEnds \/ HandlerEnds
  PROVE  TruthInv'
<1>1. shown' = shown /\ log' = log /\ QueueInv
  BY DEF Dispatch, GuardEnds, HandlerEnds, worldVars, BotInv
<1>2. CASE Dispatch
  <2>1. Current \in UpdateType
    BY <1>1, <1>2, WaitingTyped DEF Dispatch
  <2>2. Tame(Guard(Current))
    BY <2>1, FailsTells, Zenon
  <2>3. todo' = <<Answer>> \/ todo' = Guard(Current)
    BY <1>2 DEF Dispatch
  <2> QED
    BY <1>1, <2>2, <2>3, AskFollows, TameFollows
<1>3. CASE GuardEnds
  <2>1. CASE Denied(Current) /\ ~failed
    <3>1. todo' = <<>>
      BY <1>3, <2>1 DEF GuardEnds
    <3> QED
      BY <1>1, <3>1, TameNone, TameFollows
  <2>2. CASE ~(Denied(Current) /\ ~failed)
    BY <1>1, <1>3, <2>2, GuardFollows, AskFollows, TameFollows
  <2> QED
    BY <2>1, <2>2
<1>4. CASE HandlerEnds
  <2>1. todo' = <<>>
    BY <1>4 DEF HandlerEnds
  <2> QED
    BY <1>1, <2>1, TameNone, TameFollows
<1> QED
  BY <1>2, <1>3, <1>4

LEMMA NextTruth ==
  ASSUME BotInv, LogInv, TruthInv, [BotNext]_botVars
  PROVE  TruthInv'
<1>1. CASE Handling
  BY <1>1, DispatchTruth, TelegramTruth, AuditTruth, RaiseTruth, AnswerTruth, ListTruth,
     ItemTruth, OciPerformsTruth, ActTruth DEF Handling
<1>2. CASE \/ \E u \in Users : UserSends(u)
           \/ Poll \/ Signal \/ Stopped \/ TimePasses \/ UNCHANGED botVars
  <2>1. UNCHANGED <<todo, group, done, shown, log>>
    BY <1>2 DEF UserSends, Poll, Signal, Stopped, TimePasses, botVars, queueVars,
                handlerVars, worldVars
  <2> QED
    BY <2>1, SameFollows
<1>3. CASE Crash \/ Start
  <2>1. shown' = shown /\ log' = log /\ todo' = <<>>
    BY <1>3 DEF Crash, Start, worldVars, handlerVars, BotInv, QueueInv
  <2> QED
    BY <2>1, TameNone, TameFollows
<1> QED
  BY <1>1, <1>2, <1>3 DEF BotNext

LEMMA InitTruth == ASSUME BotInit PROVE TruthInv
<1>1. HonestScript
  BY DEF BotInit, HonestScript, Range
<1>2. HonestMessages
  BY DEF BotInit, HonestMessages, Nothing
<1>3. HonestLog /\ ActInv
  BY DEF BotInit, HonestLog, ActInv, Doing
<1> QED
  BY <1>1, <1>2, <1>3 DEF TruthInv

LEMMA TruthInvHolds == BotSpec => []TruthInv
<1>1. BotInit => TruthInv
  BY InitTruth
<1>2. BotInv /\ LogInv /\ TruthInv /\ [BotNext]_botVars => TruthInv'
  BY NextTruth
<1> QED
  BY <1>1, <1>2, BotInvHolds, LogInvHolds, PTL DEF BotSpec

\* Once a cancellation is on record its token leads to no action, also when a
\* click on Confirm came with it, and whatever raises or restarts
\* (operations.py:191, 200).
THEOREM BotCancelHolds == BotSpec => []CancelHolds
<1>1. TruthInv => CancelHolds
  BY DEF TruthInv, HonestLog, Vouched, Dead, CancelHolds
<1> QED
  BY <1>1, TruthInvHolds, PTL

-----------------------------------------------------------------------------
(* An outcome is told once: the invariant *)

\* What is left of the error handler.
Apology(s) ==
  \A x \in Range(s) : x.do \in {"reply", "audit"} /\ (x.do = "audit" => x.cmd = "<error>")

Named(s) == \A x \in Range(s) : x.do = "item" => x.target # NoTarget

\* The record of an update comes last in its script; after an exception only the
\* error handler writes; the guard has something to do only if it denies.
OnceScript ==
  /\ LastAudit(todo)
  /\ failed => Apology(todo)
  /\ todo # <<>> /\ Current.cmd = "public_ip" => Named(todo)
  /\ group = "guard" /\ todo # <<>> /\ ~failed => Denied(Current)

\* Update id has no record yet, but perhaps that of a failure.
Unrecorded(id) == \A k \in Records(id) : Main(log[k]) => log[k].cmd = "<error>"

\* No update that has yet to be handled is on record, one that has more to do has
\* no record of its own, and none has two.
OnceLog ==
  /\ \A k \in DOMAIN log :
       log[k].id <= done + 1 /\ (phase # "down" /\ group = "idle" => log[k].id <= done)
  /\ \/ group # "idle" /\ todo # <<>>
     \/ group = "guard" /\ (failed \/ ~Denied(Current))
     => Unrecorded(done + 1)
  /\ \A j, k \in DOMAIN log :
       /\ log[j].id = log[k].id /\ Main(log[j]) /\ Main(log[k])
       /\ log[j].cmd # "<error>" /\ log[k].cmd # "<error>"
       => j = k

OnceInv == OnceScript /\ OnceLog

LEMMA TodoSeq ==
  ASSUME ScriptInv
  PROVE  \E S : todo \in Seq(S)
<1>1. todo \in Plain(DOMAIN issued) \/ \E x : todo = <<x>>
  BY DEF ScriptInv
<1> QED
  BY <1>1, ScriptSeq

LEMMA StepInRange ==
  ASSUME ScriptInv, todo # <<>>
  PROVE  Step \in Range(todo) /\ Range(Tail(todo)) \subseteq Range(todo)
BY TodoSeq, TailRange DEF Step

\* After an exception nobody asks anything.
LEMMA AskingIsSound ==
  ASSUME ScriptInv, OnceScript, Doing({"answer", "list", "item", "act", "performed"})
  PROVE  failed # TRUE
BY StepInRange DEF OnceScript, Apology, Doing

LEMMA ErrorHandlerOnce ==
  LastAudit(ErrorHandler) /\ Apology(ErrorHandler) /\ Named(ErrorHandler)
BY ErrorHandlerTells DEF Tame, Apology, Named, Range, ErrorHandler, Reply, Err, Audit

\* One step alone, which writes nothing.
LEMMA LoneStep ==
  ASSUME NEW x, x.do \notin {"audit", "item"}
  PROVE  LastAudit(<<x>>) /\ Named(<<x>>)
BY DEF LastAudit, Named, Range, MainAudit

LEMMA NoneLeft == LastAudit(<<>>) /\ Apology(<<>>) /\ Named(<<>>)
BY DEF LastAudit, Apology, Named, Range

\* A script goes on or the error handler takes over.
LEMMA RestOnce ==
  ASSUME QueueInv, ScriptInv, OnceScript, todo # <<>>, UNCHANGED <<sent, done, group>>,
         \/ todo' = Tail(todo) /\ failed' = failed
         \/ Raise
  PROVE  OnceScript'
<1>1. Current' = Current
  BY DEF Current
<1>2. CASE todo' = Tail(todo) /\ (failed' = failed \/ failed)
  <2>1. LastAudit(todo')
    BY <1>2, TodoSeq, TameTail DEF OnceScript
  <2>2. Range(todo') \subseteq Range(todo)
    BY <1>2, StepInRange
  <2> QED
    BY <1>1, <1>2, <2>1, <2>2 DEF OnceScript, Apology, Named, LastAudit, Raise
<1>3. CASE ~failed /\ todo' = ErrorHandler /\ failed' = TRUE
  BY <1>3, ErrorHandlerOnce DEF OnceScript, Apology, Named, LastAudit
<1> QED
  BY <1>2, <1>3 DEF Raise

\* Another script follows.
LEMMA NextOnce ==
  ASSUME LastAudit(todo'), failed' # TRUE,
         todo' # <<>> /\ Current'.cmd = "public_ip" => Named(todo'),
         group' # "guard"
  PROVE  OnceScript'
BY DEF OnceScript, LastAudit, Named, MainAudit, Main

-----------------------------------------------------------------------------
(* An outcome is told once: every step *)

LEMMA TalkOnce ==
  ASSUME BotInv, OnceScript,
         TelegramTakes \/ TelegramRaises \/ AuditWrites \/ AuditRaises \/ OciRaises
  PROVE  OnceScript'
<1>1. QueueInv /\ ScriptInv
  BY DEF BotInv
<1>2. /\ todo # <<>> /\ UNCHANGED <<sent, done, group>>
      /\ (todo' = Tail(todo) /\ failed' = failed) \/ Raise
  BY DEF TelegramTakes, TelegramRaises, AuditWrites, AuditRaises, OciRaises, Doing,
         Continue, Raise, queueVars
<1> QED
  BY <1>1, <1>2, RestOnce

LEMMA AnswerOnce ==
  ASSUME BotInv, OnceScript, AnswerReturns
  PROVE  OnceScript' /\ failed' # TRUE
<1>1. QueueInv /\ ScriptInv /\ Doing({"answer"}) /\ todo # <<>>
  BY DEF BotInv, AnswerReturns, Miss, Hit, Doing
<1>2. group = "handler"
  BY <1>1, AtAnswer
<1>3. group' = group /\ failed' = failed /\ done' = done
  BY Zenon DEF AnswerReturns, Miss, Hit, Continue, queueVars
<1>4. failed # TRUE
  BY <1>1, AskingIsSound DEF Doing
<1>5. sent' = sent
  BY HandlingQuiet DEF Handling
<1>6. Current' = Current /\ Current.cmd \in Presses /\ Current \in UpdateType
  BY <1>1, <1>3, <1>5, AnswerFollows, CurrentTyped DEF Current
<1>7. Current'.cmd # "public_ip"
  BY <1>6 DEF Presses
<1>8. LastAudit(todo')
  <2>1. CASE Tame(todo')
    BY <2>1 DEF Tame
  <2>2. ASSUME NEW r, todo' = <<Act(r.instance, r.action, Current.token)>>
        PROVE  LastAudit(todo')
    BY <2>2, LoneStep DEF Act
  <2>3. ASSUME NEW r, Current.cmd = "cancel", todo' = Cancels(Current, r)
        PROVE  LastAudit(todo')
    BY <1>6, <2>3, OutcomeTells
  <2> QED
    BY <1>1, <2>1, <2>2, <2>3, AnswerFollows
<1> QED
  BY <1>2, <1>3, <1>4, <1>7, <1>8, NextOnce

LEMMA ListOnce ==
  ASSUME BotInv, OnceScript, ListReturns
  PROVE  OnceScript' /\ failed' # TRUE
<1>1. QueueInv /\ ScriptInv /\ Doing({"list"})
  BY DEF BotInv, ListReturns
<1>2. group = "handler"
  BY <1>1, AtList
<1>3. group' = group /\ failed' = failed /\ done' = done
  BY Zenon DEF ListReturns, Continue, queueVars
<1>4. failed # TRUE
  BY <1>1, AskingIsSound DEF Doing
<1>5. sent' = sent
  BY HandlingQuiet DEF Handling
<1>6. Current' = Current
  BY <1>3, <1>5 DEF Current
<1>7. CASE /\ Tame(todo')
           /\ Current.cmd = "public_ip" =>
                \A j \in DOMAIN todo' : todo'[j].do = "item" => todo'[j].target # NoTarget
  <2>1. LastAudit(todo')
    BY <1>7 DEF Tame
  <2>2. Current'.cmd = "public_ip" => Named(todo')
    BY <1>6, <1>7 DEF Named, Range
  <2> QED
    BY <1>2, <1>3, <1>4, <2>1, <2>2, NextOnce
<1>8. CASE /\ Current.cmd = "start_instance"
           /\ todo' = <<Act(Current.arg, OciAction[Current.cmd], NoToken)>>
  <2>1. LastAudit(todo')
    BY <1>8, LoneStep DEF Act
  <2> QED
    BY <1>2, <1>3, <1>4, <1>6, <1>8, <2>1, NextOnce
<1> QED
  BY <1>1, <1>7, <1>8, ListFollows

\* An item that could not be read is recorded before the rest.
LEMMA ItemFollows ==
  ASSUME BotInv, OnceScript, ItemReturns
  PROVE  /\ LastAudit(todo')
         /\ Closes(Tail(todo)) => Closes(todo')
         /\ \A x \in Range(todo') : x.do # "audit" => x \in Range(Tail(todo))
<1>1. /\ QueueInv /\ ScriptInv /\ todo # <<>> /\ Step.do = "item"
      /\ todo' = Tail(todo) \/ todo' = ItemFails(Current, Step.target) \o Tail(todo)
  BY DEF BotInv, ItemReturns, Continue, Doing
<1>2. PICK u, i, q, S : /\ u = Current /\ i = Step.target /\ q = Tail(todo)
                        /\ S = PlainSteps(DOMAIN issued)
  OBVIOUS
<1>3. LastAudit(q)
  BY <1>1, <1>2, TodoSeq, TameTail DEF OnceScript
<1>4. CASE todo' = q
  BY <1>2, <1>3, <1>4
<1>5. CASE todo' = ItemFails(u, i) \o q
  <2>1. q \in Seq(S) /\ Step \in S /\ u \in UpdateType
    BY <1>1, <1>2, AtPlainStep, CurrentTyped DEF Doing, Plain
  <2>2. ItemFails(u, i) \in Seq(S)
    <3>1. i \in Targets /\ 1 \in Nat
      BY <1>1, <1>2, <2>1, PlainKinds
    <3>2. ItemFails(u, i) \in Plain(DOMAIN issued)
      BY <2>1, <3>1, ReportsPlain, Zenon
    <3> QED
      BY <1>2, <3>2 DEF Plain
  <2>3. u.cmd = "public_ip" => i # NoTarget
    BY <1>1, <1>2, StepInRange DEF OnceScript, Named
  <2>4. /\ LastAudit(ItemFails(u, i) \o q)
        /\ Closes(q) => Closes(ItemFails(u, i) \o q)
        /\ \A j \in DOMAIN (ItemFails(u, i) \o q) :
             (ItemFails(u, i) \o q)[j].do # "audit" =>
               \E k \in DOMAIN q : (ItemFails(u, i) \o q)[j] = q[k]
    <3>1. u \in UpdateType /\ q \in Seq(S)
      BY <2>1
    <3>2. (u.cmd = "public_ip" => i # NoTarget) /\ LastAudit(q)
      BY <1>3, <2>3
    <3> HIDE <1>3, <2>1, <2>3
    <3>3. /\ LastAudit(q) => LastAudit(ItemFails(u, i) \o q)
          /\ Closes(q) => Closes(ItemFails(u, i) \o q)
          /\ \A j \in DOMAIN (ItemFails(u, i) \o q) :
               (ItemFails(u, i) \o q)[j].do # "audit" =>
                 \E k \in DOMAIN q : (ItemFails(u, i) \o q)[j] = q[k]
      BY <2>2, <3>1, <3>2, ItemFailsTells
    <3> QED
      BY <3>2, <3>3, Zenon
  <2>5. PICK s : s = ItemFails(u, i) \o q
    OBVIOUS
  <2>6. /\ LastAudit(s) /\ (Closes(q) => Closes(s))
        /\ \A j \in DOMAIN s : s[j].do # "audit" => \E k \in DOMAIN q : s[j] = q[k]
    BY <2>4, <2>5, Zenon
  <2>7. \A x \in Range(s) : x.do # "audit" => x \in Range(q)
    BY <2>6 DEF Range
  <2>8. todo' = s /\ q = Tail(todo)
    BY <1>2, <1>5, <2>5
  <2> QED
    BY <2>6, <2>7, <2>8, Zenon
<1> QED
  BY <1>1, <1>2, <1>4, <1>5

LEMMA ItemOnce ==
  ASSUME BotInv, OnceScript, ItemReturns
  PROVE  OnceScript' /\ failed' # TRUE
<1>1. /\ ScriptInv /\ todo # <<>> /\ Step.do = "item"
      /\ UNCHANGED <<sent, done, group, failed>>
  BY DEF BotInv, ItemReturns, Continue, Doing, queueVars
<1>2. failed # TRUE /\ Current' = Current
  BY <1>1, AskingIsSound DEF Doing, Current
<1>3. Named(todo) => Named(todo')
  BY <1>1, ItemFollows, StepInRange DEF Named
<1>4. group = "guard" => Denied(Current)
  BY <1>1, <1>2 DEF OnceScript
<1>5. LastAudit(todo')
  BY ItemFollows
<1> QED
  BY <1>1, <1>2, <1>3, <1>4, <1>5 DEF OnceScript, Denied

LEMMA ActOnce ==
  ASSUME BotInv, TruthInv, OnceScript, OciPerforms \/ ActReturns
  PROVE  OnceScript' /\ failed' # TRUE
<1>1. PICK u, x : u = Current /\ x = Step
  OBVIOUS
<1>2. /\ QueueInv /\ ScriptInv /\ todo # <<>> /\ Doing({"act", "performed"})
      /\ UNCHANGED <<sent, done, group, failed>>
      /\ todo' \in {<<Performed(x)>>, Accepted(u, x), Refused(u, x)}
  BY <1>1 DEF BotInv, OciPerforms, ActReturns, Continue, Doing, queueVars
<1>3. group = "handler" /\ failed # TRUE /\ x \in ActSteps /\ u \in UpdateType
  BY <1>1, <1>2, AskingIsSound, AtAct, CurrentTyped DEF Doing
<1>4. u.cmd \in {"confirm", "start_instance"}
  BY <1>1, <1>2 DEF TruthInv, ActInv
<1>5. Current' = u
  BY <1>1, <1>2 DEF Current
<1>6. LastAudit(<<Performed(x)>>)
  <2>1. Performed(x).do = "performed"
    BY <1>3 DEF Performed, ActSteps
  <2> QED
    BY <2>1, LoneStep
<1>7. LastAudit(Accepted(u, x)) /\ LastAudit(Refused(u, x))
  BY <1>3, <1>4, OutcomeTells DEF Tame
<1> QED
  BY <1>2, <1>3, <1>4, <1>5, <1>6, <1>7, NextOnce

LEMMA DispatchOnce ==
  ASSUME BotInv, OnceScript, Dispatch \/ GuardEnds \/ HandlerEnds
  PROVE  OnceScript'
<1>0. QueueInv
  BY DEF BotInv
<1>1. CASE Dispatch
  <2>1. /\ failed' = FALSE /\ Current' = Current /\ Current \in UpdateType
        /\ \/ group' = "handler" /\ todo' = <<Answer>>
           \/ group' = "guard" /\ todo' = Guard(Current)
    BY <1>0, <1>1, WaitingTyped DEF Dispatch, Current, queueVars
  <2>2. CASE group' = "handler" /\ todo' = <<Answer>>
    <3>1. LastAudit(<<Answer>>) /\ Named(<<Answer>>)
      BY LoneStep DEF Answer
    <3> QED
      BY <2>1, <2>2, <3>1, NextOnce
  <2>3. CASE group' = "guard" /\ todo' = Guard(Current)
    <3>1. PICK u, s : u = Current /\ s = Guard(u)
      OBVIOUS
    <3>2. /\ Tame(s) /\ (~Denied(u) => s = <<>>)
          /\ \A j \in DOMAIN s : s[j].do \in {"reply", "audit"}
      BY <2>1, <3>1, FailsTells, Zenon
    <3>3. LastAudit(s) /\ Named(s)
      BY <3>2 DEF Tame, Named, Range
    <3>4. todo' = s /\ Current' = u
      BY <2>1, <2>3, <3>1
    <3> QED
      BY <2>1, <2>3, <3>2, <3>3, <3>4 DEF OnceScript, LastAudit, Named, Denied
  <2> QED
    BY <2>1, <2>2, <2>3
<1>2. CASE (GuardEnds \/ HandlerEnds) /\ todo' = <<>> /\ failed' = FALSE /\ group' # "guard"
  BY <1>2, NoneLeft, NextOnce
<1>3. CASE GuardEnds /\ ~(Denied(Current) /\ ~failed)
  <2>1. /\ group' = "handler" /\ failed' = FALSE
        /\ todo' = <<List>> \/ Tame(todo')
        /\ \A j \in DOMAIN todo' : todo'[j].do # "item"
    BY <1>0, <1>3, GuardFollows
  <2>2. LastAudit(<<List>>)
    BY LoneStep DEF List
  <2>3. LastAudit(todo') /\ Named(todo')
    BY <2>1, <2>2 DEF Tame, Named, Range
  <2> QED
    BY <2>1, <2>3, NextOnce
<1>4. HandlerEnds => todo' = <<>> /\ failed' = FALSE /\ group' # "guard"
  BY DEF HandlerEnds
<1>5. GuardEnds /\ Denied(Current) /\ ~failed =>
        todo' = <<>> /\ failed' = FALSE /\ group' # "guard"
  BY DEF GuardEnds
<1> QED
  BY <1>1, <1>2, <1>3, <1>4, <1>5

\* No script moves, but users and Telegram's queue may.
LEMMA PausedCurrent ==
  ASSUME TypeOK, QueueInv, [BotNext]_botVars, done' = done, group # "idle"
  PROVE  Current' = Current
<1>1. HistoryGrows
  BY NextGrows
<1>2. done + 1 \in 1 .. Len(sent)
  BY WaitingTyped DEF QueueInv
<1> QED
  BY <1>1, <1>2 DEF HistoryGrows, Current

LEMMA PausedOnce ==
  ASSUME BotInv, OnceInv, [BotNext]_botVars,
         UNCHANGED <<todo, group, done, failed, log>>, phase' # "down" => phase # "down"
  PROVE  OnceInv'
<1>1. TypeOK /\ QueueInv
  BY DEF BotInv, StoreInv
<1>2. group # "idle" => Current' = Current
  BY <1>1, PausedCurrent
<1>3. todo # <<>> => group # "idle"
  BY <1>1 DEF QueueInv
<1>4. OnceScript'
  BY <1>2, <1>3 DEF OnceInv, OnceScript, LastAudit, Apology, Named
<1>5. Unrecorded(done + 1) => Unrecorded(done + 1)'
  BY DEF Unrecorded, Records
<1>6. \/ group' # "idle" /\ todo' # <<>>
      \/ group' = "guard" /\ (failed' \/ ~Denied(Current)')
      => Unrecorded(done + 1)'
  BY <1>2, <1>5 DEF OnceInv, OnceLog, Denied
<1>7. \A k \in DOMAIN log' :
        log'[k].id <= done' + 1 /\ (phase' # "down" /\ group' = "idle" => log'[k].id <= done')
  BY DEF OnceInv, OnceLog
<1>8. \A j, k \in DOMAIN log' :
        /\ log'[j].id = log'[k].id /\ Main(log'[j]) /\ Main(log'[k])
        /\ log'[j].cmd # "<error>" /\ log'[k].cmd # "<error>"
        => j = k
  BY DEF OnceInv, OnceLog
<1> QED
  BY <1>4, <1>6, <1>7, <1>8 DEF OnceInv, OnceLog, Main

\* A step that writes nothing.
LEMMA UnwrittenOnce ==
  ASSUME BotInv, OnceInv, OnceScript', todo # <<>>,
         UNCHANGED <<sent, done, group, log>>
  PROVE  OnceInv'
<1>1. QueueInv
  BY DEF BotInv
<1>2. group # "idle"
  BY <1>1 DEF QueueInv
<1>3. Unrecorded(done + 1)'
  BY <1>2 DEF OnceInv, OnceLog, Unrecorded, Records
<1>4. \A k \in DOMAIN log' :
        log'[k].id <= done' + 1 /\ (phase' # "down" /\ group' = "idle" => log'[k].id <= done')
  BY <1>2 DEF OnceInv, OnceLog
<1>5. \A j, k \in DOMAIN log' :
        /\ log'[j].id = log'[k].id /\ Main(log'[j]) /\ Main(log'[k])
        /\ log'[j].cmd # "<error>" /\ log'[k].cmd # "<error>"
        => j = k
  BY DEF OnceInv, OnceLog
<1> QED
  BY <1>3, <1>4, <1>5 DEF OnceInv, OnceLog

\* The record is written, and it was the first of its update.
LEMMA WrittenOnce ==
  ASSUME BotInv, LogInv, OnceInv, AuditWrites
  PROVE  OnceInv'
<1> DEFINE n == Len(log) + 1
<1>1. PICK x, id, e :
        /\ x = Step /\ id = done + 1
        /\ e = [id |-> id, user |-> Current.user, cmd |-> x.cmd, result |-> x.result,
                target |-> x.target, action |-> x.action]
  OBVIOUS
<1>2. /\ todo # <<>> /\ x.do = "audit" /\ log' = Append(log, e)
      /\ UNCHANGED <<sent, done, group, failed>> /\ todo' = Tail(todo)
  BY <1>1 DEF AuditWrites, Doing, Continue, queueVars
<1>3. e.id = id /\ e.cmd = x.cmd /\ e.target = x.target /\ (Main(e) <=> MainAudit(x))
  BY <1>1, <1>2 DEF Main, MainAudit
<1>4. QueueInv /\ ScriptInv /\ OnceScript /\ OnceLog
  BY DEF BotInv, OnceInv
<1>5. OnceScript' /\ group # "idle"
  BY <1>2, <1>4, TalkOnce DEF QueueInv
<1>6. Unrecorded(id)
  BY <1>1, <1>2, <1>4, <1>5 DEF OnceLog
<1>7. /\ DOMAIN log' = DOMAIN log \cup {n} /\ n \notin DOMAIN log /\ log'[n] = e
      /\ \A k \in DOMAIN log : log'[k] = log[k]
  BY <1>2 DEF LogInv
<1> HIDE DEF n
<1>8. \A k \in DOMAIN log' :
        log'[k].id <= done' + 1 /\ (phase' # "down" /\ group' = "idle" => log'[k].id <= done')
  BY <1>1, <1>2, <1>3, <1>4, <1>5, <1>7 DEF OnceLog, QueueInv
<1>9. \A j, k \in DOMAIN log' :
        /\ log'[j].id = log'[k].id /\ Main(log'[j]) /\ Main(log'[k])
        /\ log'[j].cmd # "<error>" /\ log'[k].cmd # "<error>"
        => j = k
  <2>1. \A k \in DOMAIN log : log[k].id = id /\ Main(log[k]) => log[k].cmd = "<error>"
    BY <1>6 DEF Unrecorded, Records
  <2>2. SUFFICES ASSUME NEW j \in DOMAIN log', NEW k \in DOMAIN log',
                        log'[j].id = log'[k].id, Main(log'[j]), Main(log'[k]),
                        log'[j].cmd # "<error>", log'[k].cmd # "<error>"
                 PROVE  j = k
    OBVIOUS
  <2>3. CASE j \in DOMAIN log /\ k \in DOMAIN log
    BY <1>4, <1>7, <2>2, <2>3 DEF OnceLog
  <2>4. CASE j \in DOMAIN log /\ k = n
    BY <1>3, <1>7, <2>1, <2>2, <2>4
  <2>5. CASE j = n /\ k \in DOMAIN log
    BY <1>3, <1>7, <2>1, <2>2, <2>5
  <2> QED
    BY <1>7, <2>3, <2>4, <2>5
<1>10. \/ group' # "idle" /\ todo' # <<>>
       \/ group' = "guard" /\ (failed' \/ ~Denied(Current)')
       => Unrecorded(done + 1)'
  <2>1. CASE MainAudit(x)
    <3>1. todo' = <<>>
      BY <1>1, <1>2, <1>4, <2>1, TodoSeq, TameTail DEF OnceScript, Step
    <3>2. failed => x.cmd = "<error>"
      BY <1>1, <1>2, <1>4, StepInRange DEF OnceScript, Apology
    <3>3. group = "guard" /\ ~failed => Denied(Current)
      BY <1>2, <1>4 DEF OnceScript
    <3>4. Denied(Current)' = Denied(Current)
      BY <1>2 DEF Denied, Current
    <3>5. failed => Unrecorded(done + 1)'
      BY <1>1, <1>2, <1>3, <1>6, <1>7, <3>2 DEF Unrecorded, Records
    <3> QED
      BY <1>2, <3>1, <3>3, <3>4, <3>5
  <2>2. CASE ~MainAudit(x)
    <3>1. Unrecorded(done + 1)'
      BY <1>1, <1>2, <1>3, <1>6, <1>7, <2>2 DEF Unrecorded, Records
    <3> QED
      BY <3>1
  <2> QED
    BY <2>1, <2>2
<1> QED
  BY <1>5, <1>8, <1>9, <1>10 DEF OnceInv, OnceLog

\* An update begins or ends.
LEMMA DispatchedOnce ==
  ASSUME BotInv, LogInv, OnceInv, Dispatch \/ GuardEnds \/ HandlerEnds
  PROVE  OnceInv'
<1>1. QueueInv /\ OnceScript /\ OnceLog /\ OnceScript'
  BY DispatchOnce DEF BotInv, OnceInv
<1>2. log' = log /\ sent' = sent /\ phase' = phase /\ phase # "down" /\ done \in Nat
  BY <1>1 DEF Dispatch, GuardEnds, HandlerEnds, worldVars, queueVars, QueueInv
<1>3. \A j, k \in DOMAIN log' :
        /\ log'[j].id = log'[k].id /\ Main(log'[j]) /\ Main(log'[k])
        /\ log'[j].cmd # "<error>" /\ log'[k].cmd # "<error>"
        => j = k
  BY <1>1, <1>2 DEF OnceLog
<1>4. CASE Dispatch
  <2>1. group = "idle" /\ group' # "idle" /\ done' = done
    BY <1>4 DEF Dispatch, queueVars
  <2>2. \A k \in DOMAIN log : log[k].id <= done
    BY <1>1, <1>2, <2>1 DEF OnceLog
  <2>3. Unrecorded(done + 1)'
    <3>1. \A k \in DOMAIN log : log[k].id # done + 1
      BY <1>2, <2>2
    <3> QED
      BY <1>2, <2>1, <3>1 DEF Unrecorded, Records
  <2>4. \A k \in DOMAIN log' : log'[k].id <= done' + 1
    BY <1>1, <1>2, <2>1 DEF OnceLog
  <2> QED
    BY <1>1, <1>3, <2>1, <2>3, <2>4 DEF OnceInv, OnceLog
<1>5. CASE GuardEnds /\ ~(Denied(Current) /\ ~failed)
  <2>1. group = "guard" /\ group' = "handler" /\ done' = done
    BY <1>5 DEF GuardEnds
  <2>2. Unrecorded(done + 1)
    BY <1>1, <1>5, <2>1 DEF OnceLog
  <2>3. Unrecorded(done + 1)'
    BY <1>2, <2>1, <2>2 DEF Unrecorded, Records
  <2>4. \A k \in DOMAIN log' : log'[k].id <= done' + 1
    BY <1>1, <1>2, <2>1 DEF OnceLog
  <2> QED
    BY <1>1, <1>3, <2>1, <2>3, <2>4 DEF OnceInv, OnceLog
<1>6. CASE (GuardEnds \/ HandlerEnds) /\ group' = "idle" /\ done' = done + 1
  <2>1. \A k \in DOMAIN log' : log'[k].id <= done' /\ log'[k].id <= done' + 1
    <3>1. \A k \in DOMAIN log : log[k].id <= done + 1 /\ log[k].id \in Nat
      BY <1>1 DEF OnceLog, LogInv
    <3> QED
      BY <1>2, <1>6, <3>1
  <2> QED
    BY <1>1, <1>3, <1>6, <2>1 DEF OnceInv, OnceLog
<1> QED
  BY <1>4, <1>5, <1>6 DEF GuardEnds, HandlerEnds

\* The process dies, and another leaves alone what was sent.
LEMMA DiedOnce ==
  ASSUME BotInv, LogInv, OnceInv, Crash \/ Start
  PROVE  OnceInv'
<1>1. QueueInv /\ OnceLog
  BY DEF BotInv, OnceInv
<1>2. /\ log' = log /\ sent' = sent /\ todo' = <<>> /\ failed' # TRUE /\ group' = "idle"
      /\ \/ phase' = "down" /\ done' = done
         \/ done' = Len(sent)
  <2>1. CASE Crash
    BY <2>1 DEF Crash, worldVars, queueVars
  <2>2. CASE Start
    <3>1. group = "idle" /\ todo = <<>>
      BY <1>1, <2>2 DEF Start, QueueInv
    <3> QED
      BY <2>2, <3>1 DEF Start, worldVars, handlerVars, LogInv
  <2> QED
    BY <2>1, <2>2
<1>3. OnceScript'
  BY <1>2, NoneLeft, NextOnce
<1>4. \A k \in DOMAIN log' :
        log'[k].id <= done' + 1 /\ (phase' # "down" /\ group' = "idle" => log'[k].id <= done')
  <2>1. CASE phase' = "down" /\ done' = done
    BY <1>1, <1>2, <2>1 DEF OnceLog
  <2>2. CASE done' = Len(sent)
    BY <1>1, <1>2, <2>2 DEF LogInv, QueueInv
  <2> QED
    BY <1>2, <2>1, <2>2
<1>5. \A j, k \in DOMAIN log' :
        /\ log'[j].id = log'[k].id /\ Main(log'[j]) /\ Main(log'[k])
        /\ log'[j].cmd # "<error>" /\ log'[k].cmd # "<error>"
        => j = k
  BY <1>1, <1>2 DEF OnceLog
<1> QED
  BY <1>2, <1>3, <1>4, <1>5 DEF OnceInv, OnceLog

LEMMA NextOnceInv ==
  ASSUME BotInv, LogInv, TruthInv, OnceInv, [BotNext]_botVars
  PROVE  OnceInv'
<1>1. CASE Dispatch \/ GuardEnds \/ HandlerEnds
  BY <1>1, DispatchedOnce
<1>2. CASE AuditWrites
  BY <1>2, WrittenOnce
<1>3. CASE \/ TelegramTakes \/ TelegramRaises \/ AuditRaises \/ OciRaises
           \/ AnswerReturns \/ ListReturns \/ ItemReturns \/ OciPerforms \/ ActReturns
  <2>1. OnceScript'
    BY <1>3, TalkOnce, AnswerOnce, ListOnce, ItemOnce, ActOnce DEF OnceInv
  <2>2. todo # <<>> /\ log' = log
    BY <1>3 DEF TelegramTakes, TelegramRaises, AuditRaises, OciRaises, AnswerReturns, Miss, Hit,
                ListReturns, ItemReturns, OciPerforms, ActReturns, Doing, worldVars
  <2>3. UNCHANGED <<done, group>>
    <3>1. CASE AnswerReturns \/ ListReturns
      BY <3>1, Zenon DEF AnswerReturns, Miss, Hit, ListReturns, Continue, queueVars
    <3>2. CASE \/ TelegramTakes \/ TelegramRaises \/ AuditRaises \/ OciRaises
               \/ ItemReturns \/ OciPerforms \/ ActReturns
      BY <3>2 DEF TelegramTakes, TelegramRaises, AuditRaises, OciRaises, ItemReturns,
                  OciPerforms, ActReturns, Continue, Raise, queueVars
    <3> QED
      BY <1>3, <3>1, <3>2
  <2>4. sent' = sent
    BY <1>3, HandlingQuiet DEF Handling
  <2> QED
    BY <2>1, <2>2, <2>3, <2>4, UnwrittenOnce
<1>4. CASE \/ \E u \in Users : UserSends(u)
           \/ Poll \/ Signal \/ Stopped \/ TimePasses \/ UNCHANGED botVars
  <2>1. UNCHANGED <<todo, group, done, failed, log>> /\ (phase' # "down" => phase # "down")
    BY <1>4 DEF UserSends, Poll, Signal, Stopped, TimePasses, botVars, queueVars,
                handlerVars, worldVars
  <2> QED
    BY <2>1, PausedOnce
<1>5. CASE Crash \/ Start
  BY <1>5, DiedOnce
<1> QED
  BY <1>1, <1>2, <1>3, <1>4, <1>5 DEF BotNext, Handling

LEMMA InitOnce == ASSUME BotInit PROVE OnceInv
<1>1. failed # TRUE /\ group # "guard" /\ todo = <<>> /\ DOMAIN log = {}
  <2>1. failed = FALSE
    BY Zenon DEF BotInit
  <2>2. group = "idle" /\ todo = <<>> /\ log = <<>>
    BY Zenon DEF BotInit
  <2>3. failed # TRUE
    BY <2>1, Zenon
  <2>4. group # "guard" /\ DOMAIN log = {}
    BY <2>2
  <2> QED
    BY <2>2, <2>3, <2>4, Zenon
<1>2. OnceScript
  BY <1>1, NoneLeft DEF OnceScript
<1>3. OnceLog
  BY <1>1 DEF OnceLog
<1> QED
  BY <1>2, <1>3 DEF OnceInv

LEMMA OnceInvHolds == BotSpec => []OnceInv
<1>1. BotInit => OnceInv
  BY InitOnce
<1>2. BotInv /\ LogInv /\ TruthInv /\ OnceInv /\ [BotNext]_botVars => OnceInv'
  BY NextOnceInv
<1> QED
  BY <1>1, <1>2, BotInvHolds, LogInvHolds, TruthInvHolds, PTL DEF BotSpec

\* A message that says an action was accepted, and an "ok" record of one, follow
\* OCI's performing it, and that record is the only one of its kind for its
\* update, whatever raises, crashes or starts again (operations.py:60-84, 217-244).
THEOREM BotTellsTruth == BotSpec => []TellsTruth
<1>1. TruthInv /\ OnceInv => TellsTruth
  <2> SUFFICES ASSUME TruthInv, OnceInv PROVE TellsTruth
    OBVIOUS
  <2>1. \A t \in Tokens : shown[t].text = "accepted" =>
          \E k \in DOMAIN oci : oci[k].token = t
    BY DEF TruthInv, HonestMessages, Accomplished
  <2>2. ASSUME NEW r \in DOMAIN log, log[r].cmd \in {"start_instance", "callback:confirm"},
               log[r].result = "ok"
        PROVE  \E k \in Effects(log[r].id) :
                 oci[k].instance = log[r].target /\ oci[k].action = log[r].action
    BY <2>2 DEF TruthInv, HonestLog, Vouched
  <2>3. ASSUME NEW r \in DOMAIN log, log[r].cmd \in {"start_instance", "callback:confirm"},
               NEW x \in Records(log[r].id), log[x].cmd = log[r].cmd
        PROVE  x = r
    BY <2>3 DEF OnceInv, OnceLog, Records, Main
  <2> QED
    BY <2>1, <2>2, <2>3 DEF TellsTruth
<1> QED
  BY <1>1, TruthInvHolds, OnceInvHolds, PTL

-----------------------------------------------------------------------------
(* The allowlist, where denials go through *)

\* Every record can be written, and a denial can be sent or there is nobody to deny.
DenialsPass == "disk" \notin Faults /\ ("telegram" \notin Faults \/ Users \subseteq Allowed)

\* The guard does not raise, and only a command it lets pass has a handler run.
GuardInv ==
  /\ group = "guard" => failed # TRUE /\ \A x \in Range(todo) : x.do \in {"reply", "audit"}
  /\ group = "handler" => Current.cmd \in Presses \/ ~Denied(Current)

\* The same handler, group and update go on.
LEMMA StepKeeps ==
  ASSUME \/ TelegramTakes \/ TelegramRaises \/ AuditWrites \/ AuditRaises \/ OciRaises
         \/ AnswerReturns \/ ListReturns \/ ItemReturns \/ OciPerforms \/ ActReturns
  PROVE  UNCHANGED <<sent, done, group, phase>> /\ Current' = Current /\ todo # <<>>
<1>1. UNCHANGED <<done, group, phase>>
  <2>1. CASE AnswerReturns \/ ListReturns
    BY <2>1, Zenon DEF AnswerReturns, Miss, Hit, ListReturns, Continue, queueVars
  <2>2. CASE \/ TelegramTakes \/ TelegramRaises \/ AuditWrites \/ AuditRaises \/ OciRaises
             \/ ItemReturns \/ OciPerforms \/ ActReturns
    BY <2>2 DEF TelegramTakes, TelegramRaises, AuditWrites, AuditRaises, OciRaises,
                ItemReturns, OciPerforms, ActReturns, Continue, Raise, queueVars
  <2> QED
    BY <2>1, <2>2
<1>2. sent' = sent
  BY HandlingQuiet DEF Handling
<1>3. todo # <<>>
  BY DEF TelegramTakes, TelegramRaises, AuditWrites, AuditRaises, OciRaises, AnswerReturns, Miss, Hit,
         ListReturns, ItemReturns, OciPerforms, ActReturns, Doing
<1> QED
  BY <1>1, <1>2, <1>3 DEF Current

\* What the guard does: it sends and writes its denial, and neither raises.
LEMMA GuardSteps ==
  ASSUME DenialsPass, BotInv, OnceInv, GuardInv, group = "guard",
         \/ TelegramTakes \/ TelegramRaises \/ AuditWrites \/ AuditRaises \/ OciRaises
         \/ AnswerReturns \/ ListReturns \/ ItemReturns \/ OciPerforms \/ ActReturns
  PROVE  TelegramTakes \/ AuditWrites
<1>1. todo # <<>> /\ QueueInv /\ ScriptInv
  BY StepKeeps DEF BotInv
<1>2. Step.do \in {"reply", "audit"}
  BY <1>1, StepInRange DEF GuardInv
<1>3. Denied(Current)
  BY <1>1 DEF GuardInv, OnceInv, OnceScript
<1>4. "telegram" \notin Faults
  <2>1. Current.user \in Users
    BY <1>1, CurrentTyped DEF UpdateType
  <2> QED
    BY <1>3, <2>1 DEF DenialsPass, Denied, Check
<1>5. ~TelegramRaises /\ ~AuditRaises
  BY <1>2, <1>4 DEF TelegramRaises, AuditRaises, Unmodified, DenialsPass
<1>6. ~(OciRaises \/ AnswerReturns \/ ListReturns \/ ItemReturns \/ OciPerforms \/ ActReturns)
  BY <1>2 DEF OciRaises, AnswerReturns, Miss, Hit, ListReturns, ItemReturns, OciPerforms, ActReturns,
              Doing
<1> QED
  BY <1>5, <1>6

LEMMA NextGuard ==
  ASSUME DenialsPass, BotInv, LogInv, OnceInv, GuardInv, [BotNext]_botVars
  PROVE  GuardInv'
<1>0. QueueInv /\ ScriptInv /\ TypeOK
  BY DEF BotInv, StoreInv
<1>1. CASE \/ TelegramTakes \/ TelegramRaises \/ AuditWrites \/ AuditRaises \/ OciRaises
           \/ AnswerReturns \/ ListReturns \/ ItemReturns \/ OciPerforms \/ ActReturns
  <2>1. UNCHANGED <<done, group>> /\ Current' = Current /\ todo # <<>>
    BY <1>1, StepKeeps
  <2>2. ASSUME group = "guard"
        PROVE  failed' # TRUE /\ \A x \in Range(todo') : x.do \in {"reply", "audit"}
    <3>1. todo' = Tail(todo) /\ failed' = failed
      BY <1>1, <2>2, GuardSteps DEF TelegramTakes, AuditWrites, Continue
    <3> QED
      BY <1>0, <2>1, <2>2, <3>1, StepInRange DEF GuardInv
  <2> QED
    BY <2>1, <2>2 DEF GuardInv, Denied
<1>2. CASE Dispatch
  <2>1. /\ failed' = FALSE /\ Current' = Current /\ Current \in UpdateType
        /\ \/ group' = "handler" /\ Current.cmd \in Presses
           \/ group' = "guard" /\ todo' = Guard(Current)
    BY <1>0, <1>2, WaitingTyped DEF Dispatch, Current, queueVars
  <2>2. CASE group' = "handler" /\ Current.cmd \in Presses
    BY <2>1, <2>2 DEF GuardInv
  <2>3. CASE group' = "guard" /\ todo' = Guard(Current)
    <3>1. \A j \in DOMAIN Guard(Current) : Guard(Current)[j].do \in {"reply", "audit"}
      BY <2>1, FailsTells, Zenon
    <3>2. \A x \in Range(todo') : x.do \in {"reply", "audit"}
      BY <2>3, <3>1 DEF Range
    <3> QED
      BY <2>1, <2>3, <3>2 DEF GuardInv
  <2> QED
    BY <2>1, <2>2, <2>3
<1>3. CASE GuardEnds
  <2>1. CASE group' = "idle"
    BY <2>1 DEF GuardInv
  <2>2. CASE group' # "idle"
    <3>1. group' = "handler" /\ done' = done /\ sent' = sent
          /\ ~(Denied(Current) /\ ~failed) /\ group = "guard"
      BY <1>3, <2>2 DEF GuardEnds
    <3>2. ~Denied(Current) /\ Current' = Current
      BY <3>1 DEF GuardInv, Current
    <3> QED
      BY <3>1, <3>2 DEF GuardInv, Denied
  <2> QED
    BY <2>1, <2>2
<1>4. CASE HandlerEnds \/ Crash \/ Start
  <2>1. group' = "idle"
    BY <1>0, <1>4 DEF HandlerEnds, Crash, Start, handlerVars, QueueInv
  <2> QED
    BY <2>1 DEF GuardInv
<1>5. CASE \/ \E u \in Users : UserSends(u)
           \/ Poll \/ Signal \/ Stopped \/ TimePasses \/ UNCHANGED botVars
  <2>1. UNCHANGED <<todo, group, done, failed>>
    BY <1>5 DEF UserSends, Poll, Signal, Stopped, TimePasses, botVars, queueVars,
                handlerVars
  <2>2. group # "idle" => Current' = Current
    BY <1>0, <2>1, PausedCurrent
  <2> QED
    BY <2>1, <2>2 DEF GuardInv, Denied
<1> QED
  BY <1>1, <1>2, <1>3, <1>4, <1>5 DEF BotNext, Handling

\* Tokens are issued by the handlers that prompt, when the list has returned.
LEMMA IssuedByList ==
  ASSUME [BotNext]_botVars
  PROVE  issued' = issued \/ ListReturns
<1>1. CASE AnswerReturns
  <2>1. \/ UNCHANGED storeVars
        \/ TakeMiss(Current.token, Current.user) \/ TakeHit(Current.token, Current.user)
    BY <1>1, Zenon DEF AnswerReturns, Miss, Hit
  <2> QED
    BY <2>1 DEF storeVars, TakeMiss, TakeHit
<1>2. CASE Handling /\ ~AnswerReturns /\ ~ListReturns
  BY <1>2 DEF Handling, Dispatch, GuardEnds, HandlerEnds, TelegramTakes, TelegramRaises,
              AuditWrites, AuditRaises, ItemReturns, OciPerforms, ActReturns, OciRaises,
              storeVars
<1>3. CASE \/ \E u \in Users : UserSends(u)
           \/ Poll \/ Signal \/ Stopped \/ Crash \/ Start \/ TimePasses \/ UNCHANGED botVars
  BY <1>3 DEF UserSends, Poll, Signal, Stopped, Crash, Start, TimePasses, Restart, Tick,
              botVars, storeVars
<1> QED
  BY <1>1, <1>2, <1>3 DEF BotNext

LEMMA NextAllowlist ==
  ASSUME BotInv, TruthInv, GuardInv, AllowlistEnforced, [BotNext]_botVars
  PROVE  AllowlistEnforced'
<1>0. QueueInv /\ ScriptInv /\ TypeOK /\ EffectInv /\ HistoryGrows
  BY NextGrows DEF BotInv, StoreInv
<1>1. ASSUME NEW k \in DOMAIN oci'
      PROVE  Check(sent'[oci'[k].id].user)
  <2>1. PICK e : e = oci'[k]
    OBVIOUS
  <2>2. CASE k \in DOMAIN oci /\ e = oci[k]
    <3>1. e.id \in 1 .. Len(sent) /\ Check(sent[e.id].user)
      BY <1>0, <2>2 DEF EffectInv, AllowlistEnforced
    <3> QED
      BY <1>0, <2>1, <3>1 DEF HistoryGrows
  <2>3. CASE OciPerforms /\ e.id = done + 1
    <3>1. group = "handler" /\ Doing({"act", "performed"}) /\ todo # <<>>
      BY <1>0, <2>3, AtAct DEF OciPerforms, Doing
    <3>2. Current.cmd = "start_instance" \/ (Current.cmd = "confirm" /\ Step.token = Current.token)
      BY <3>1 DEF TruthInv, ActInv
    <3>3. done + 1 \in 1 .. Len(sent) /\ sent[done + 1] = Current
      BY <1>0, <3>1, WaitingTyped DEF QueueInv
    <3>4. CASE Current.cmd = "start_instance"
      <4>1. Check(Current.user)
        BY <3>1, <3>4 DEF GuardInv, Presses, Denied, PUBLIC_COMMANDS
      <4> QED
        BY <1>0, <2>1, <2>3, <3>3, <4>1 DEF HistoryGrows
    <3>5. CASE Current.cmd = "confirm" /\ Step.token = Current.token
      <4>1. Step.token # NoToken
        <5>1. done + 1 \in DOMAIN sent
          BY <1>0, <3>3 DEF QueueInv
        <5>2. Current.token \in DOMAIN issued
          BY <3>3, <3>5, <5>1 DEF BotInv, HistoryInv, Presses
        <5> QED
          BY <1>0, <3>5, <5>2, MissingAssumption DEF TypeOK
      <4>2. Check(Current.user)
        BY <1>0, <3>1, <3>3, <4>1, AtAct DEF Justified
      <4> QED
        BY <1>0, <2>1, <2>3, <3>3, <4>2 DEF HistoryGrows
    <3> QED
      BY <3>2, <3>4, <3>5
  <2>4. OciPerforms => (k \in DOMAIN oci /\ e = oci[k]) \/ e.id = done + 1
    <3>1. SUFFICES ASSUME OciPerforms
                   PROVE  (k \in DOMAIN oci /\ e = oci[k]) \/ e.id = done + 1
      OBVIOUS
    <3>2. PICK y : oci' = Append(oci, y) /\ y.id = done + 1
      BY <3>1 DEF OciPerforms
    <3> QED
      BY <1>0, <2>1, <3>2 DEF EffectInv
  <2> QED
    BY <2>1, <2>2, <2>3, <2>4, NextOci
<1>2. ASSUME NEW t \in DOMAIN issued'
      PROVE  Check(issued'[t].grant.user_id)
  <2>1. CASE t \in DOMAIN issued
    BY <1>0, <2>1 DEF HistoryGrows, AllowlistEnforced
  <2>2. CASE ListReturns /\ t \notin DOMAIN issued
    <3>1. PICK y \in Tokens :
            /\ Current.cmd \in ConfirmedCommands
            /\ Create(y, Current.user,
                      [instance |-> Current.arg, action |-> OciAction[Current.cmd]])
      <4>1. \/ UNCHANGED storeVars
            \/ /\ Current.cmd \in ConfirmedCommands
               /\ \E y \in Tokens :
                    Create(y, Current.user,
                           [instance |-> Current.arg, action |-> OciAction[Current.cmd]])
        BY <2>2, Zenon DEF ListReturns
      <4> QED
        BY <1>2, <2>2, <4>1 DEF storeVars
    <3>2. issued'[t].grant.user_id = Current.user
      BY <1>2, <2>2, <3>1 DEF Create, With
    <3>3. group = "handler"
      BY <1>0, <2>2, AtList DEF ListReturns
    <3>4. Check(Current.user)
      BY <3>1, <3>3 DEF GuardInv, Presses, Denied, PUBLIC_COMMANDS, ConfirmedCommands
    <3> QED
      BY <3>2, <3>4
  <2>3. issued' = issued \/ ListReturns
    BY IssuedByList
  <2> QED
    BY <2>1, <2>2, <2>3
<1> QED
  BY <1>1, <1>2 DEF AllowlistEnforced

LEMMA GuardInvHolds == DenialsPass => (BotSpec => []GuardInv)
<1> SUFFICES ASSUME DenialsPass PROVE BotSpec => []GuardInv
  OBVIOUS
<1>1. BotInit => GuardInv
  <2>1. BotInit => group = "idle"
    BY Zenon DEF BotInit
  <2> QED
    BY <2>1 DEF GuardInv
<1>2. BotInv /\ LogInv /\ OnceInv /\ GuardInv /\ [BotNext]_botVars => GuardInv'
  BY NextGuard
<1> QED
  BY <1>1, <1>2, BotInvHolds, LogInvHolds, OnceInvHolds, PTL DEF BotSpec

\* Where denials go through, whatever OCI raises and however often the process
\* restarts, nobody outside the allowlist makes OCI act or gets a button that
\* could (00_overview.md S1; bot.py:84-97).
THEOREM BotAllowlistEnforced == DenialsPass => (BotSpec => []AllowlistEnforced)
<1> SUFFICES ASSUME DenialsPass PROVE BotSpec => []AllowlistEnforced
  OBVIOUS
<1>1. BotInit => AllowlistEnforced
  BY DEF BotInit, StoreInit, AllowlistEnforced
<1>2. BotInv /\ TruthInv /\ GuardInv /\ AllowlistEnforced /\ [BotNext]_botVars
        => AllowlistEnforced'
  BY NextAllowlist
<1> QED
  BY <1>1, <1>2, BotInvHolds, TruthInvHolds, GuardInvHolds, PTL DEF BotSpec

-----------------------------------------------------------------------------
(* Every update is recorded, in one life of the process *)

\* The script ends with a record, or waits for the answer that decides the script,
\* or may do without.
Asks == Doing({"answer", "list", "act", "performed"})
Promised == Asks \/ Closes(todo) \/ (group = "handler" /\ Silent(done + 1))

\* What was handled is on record; an update being handled has no record of its own
\* as long as its script promises one; the guard has recorded what it denies.
RecordInv ==
  /\ \A i \in 1 .. done : Silent(i) \/ Mains(i) # {}
  /\ \A j, k \in DOMAIN log :
       log[j].id = log[k].id /\ Main(log[j]) /\ Main(log[k]) => j = k
  /\ todo # <<>> => Promised /\ Mains(done + 1) = {}
  /\ group = "handler" /\ todo = <<>> => Silent(done + 1) \/ Mains(done + 1) # {}
  /\ group = "guard" =>
       /\ Denied(Current) /\ todo = <<>> => Mains(done + 1) # {}
       /\ ~Denied(Current) => Mains(done + 1) = {}

\* A step that writes nothing, after which the script still ends with a record.
LEMMA PromiseKept ==
  ASSUME RecordInv, todo # <<>>, UNCHANGED <<sent, done, group, log>>,
         missed \subseteq missed',
         \/ Asks'
         \/ Closes(todo')
         \/ group = "handler" /\ (Silent(done + 1) \/ Silent(done + 1)')
  PROVE  RecordInv'
<1>1. Current' = Current /\ (\A i : Mains(i)' = Mains(i)) /\ Mains(done + 1)' = Mains(done + 1)
  BY DEF Current, Mains, Records
<1>2. Mains(done + 1) = {} /\ (Denied(Current)' <=> Denied(Current))
  BY <1>1 DEF RecordInv, Denied
<1>6. Silent(done + 1) => Silent(done + 1)'
  BY DEF Silent
<1>3. /\ \A i \in 1 .. done' : Silent(i)' \/ Mains(i)' # {}
      /\ \A j, k \in DOMAIN log' :
           log'[j].id = log'[k].id /\ Main(log'[j]) /\ Main(log'[k]) => j = k
  BY <1>1, SilentStays DEF RecordInv
<1>4. todo' # <<>> => Promised'
  BY <1>6 DEF Promised
<1>5. todo' = <<>> => group' = "handler" /\ Silent(done + 1)'
  BY <1>6 DEF Asks, Doing, Closes
<1> QED
  BY <1>1, <1>2, <1>3, <1>4, <1>5 DEF RecordInv

\* A step that neither asks nor is the record leaves the promise to the rest.
LEMMA RestPromised ==
  ASSUME BotInv, RecordInv, todo # <<>>, ~Asks, ~MainAudit(Step)
  PROVE  Closes(Tail(todo)) \/ (group = "handler" /\ Silent(done + 1))
<1>1. \E S : todo \in Seq(S)
  BY TodoSeq DEF BotInv
<1>2. Closes(todo) => Closes(Tail(todo))
  BY <1>1, TameTail DEF Step
<1> QED
  BY <1>2 DEF RecordInv, Promised

\* An exception leads to the record of the error handler.
LEMMA RaiseRecord ==
  ASSUME BotInv, OnceInv, RecordInv, Raise, log' = log, sent' = sent, missed' = missed,
         Doing({"reply", "show", "answer", "list", "item", "act", "performed"})
  PROVE  RecordInv'
<1>1. todo # <<>> /\ ScriptInv /\ OnceScript /\ UNCHANGED <<sent, done, group, log>>
  BY DEF Doing, BotInv, OnceInv, Raise, queueVars
<1>2. CASE failed # TRUE
  <2>1. todo' = ErrorHandler
    BY <1>2 DEF Raise
  <2>2. Closes(todo')
    BY <2>1, ErrorHandlerTells
  <2> QED
    BY <1>1, <2>2, PromiseKept
<1>3. CASE failed = TRUE
  <2>1. todo' = Tail(todo) /\ ~Asks /\ ~MainAudit(Step)
    BY <1>1, <1>3, AskingIsSound DEF Raise, Asks, Doing, MainAudit
  <2>2. Closes(todo') \/ (group = "handler" /\ Silent(done + 1))
    BY <2>1, <1>1, RestPromised
  <2> QED
    BY <1>1, <2>2, PromiseKept
<1> QED
  BY <1>2, <1>3

LEMMA TalkRecord ==
  ASSUME BotInv, OnceInv, RecordInv, TelegramTakes \/ TelegramRaises \/ OciRaises
  PROVE  RecordInv'
<1>1. log' = log /\ missed' = missed /\ todo # <<>> /\ UNCHANGED <<sent, done, group>>
  <2>1. log' = log /\ missed' = missed
    BY DEF TelegramTakes, TelegramRaises, OciRaises, worldVars
  <2> QED
    BY <2>1, StepKeeps
<1>2. CASE TelegramTakes
  <2>1. todo' = Tail(todo) /\ ~Asks /\ ~MainAudit(Step)
    BY <1>2 DEF TelegramTakes, Continue, Asks, Doing, MainAudit
  <2> QED
    BY <1>1, <2>1, RestPromised, PromiseKept
<1>3. CASE TelegramRaises \/ OciRaises
  <2>1. Raise /\ Doing({"reply", "show", "answer", "list", "item", "act", "performed"})
    BY <1>3 DEF TelegramRaises, OciRaises, Doing
  <2> QED
    BY <1>1, <2>1, RaiseRecord
<1> QED
  BY <1>2, <1>3

LEMMA AuditRecord ==
  ASSUME BotInv, LogInv, OnceInv, GuardInv, RecordInv, AuditWrites
  PROVE  RecordInv'
<1> DEFINE n == Len(log) + 1
<1>1. PICK x, id, e :
        /\ x = Step /\ id = done + 1
        /\ e = [id |-> id, user |-> Current.user, cmd |-> x.cmd, result |-> x.result,
                target |-> x.target, action |-> x.action]
  OBVIOUS
<1>2. /\ todo # <<>> /\ x.do = "audit" /\ log' = Append(log, e)
      /\ UNCHANGED <<sent, done, group, missed>> /\ todo' = Tail(todo)
      /\ Current' = Current
  BY <1>1 DEF AuditWrites, Doing, Continue, queueVars, Current
<1>3. e.id = id /\ (Main(e) <=> MainAudit(x))
  BY <1>1, <1>2 DEF Main, MainAudit
<1>4. /\ DOMAIN log' = DOMAIN log \cup {n} /\ n \notin DOMAIN log /\ log'[n] = e
      /\ \A k \in DOMAIN log : log'[k] = log[k]
  BY <1>2 DEF LogInv
<1> HIDE DEF n
<1>5. Mains(id) = {} /\ id = done' + 1 /\ done \in Nat
  BY <1>1, <1>2 DEF RecordInv, BotInv, QueueInv
<1>6. \A i : Mains(i) \subseteq Mains(i)'
  BY <1>4 DEF Mains, Records
<1>7. \A i \in 1 .. done' : Silent(i)' \/ Mains(i)' # {}
  BY <1>2, <1>6, SilentStays DEF RecordInv
<1>8. \A j, k \in DOMAIN log' :
        log'[j].id = log'[k].id /\ Main(log'[j]) /\ Main(log'[k]) => j = k
  <2>1. \A k \in DOMAIN log : log[k].id = id => ~Main(log[k])
    BY <1>5 DEF Mains, Records
  <2>2. \A j, k \in DOMAIN log :
          log[j].id = log[k].id /\ Main(log[j]) /\ Main(log[k]) => j = k
    BY DEF RecordInv
  <2>3. SUFFICES ASSUME NEW j \in DOMAIN log', NEW k \in DOMAIN log',
                        log'[j].id = log'[k].id, Main(log'[j]), Main(log'[k])
                 PROVE  j = k
    OBVIOUS
  <2>4. CASE j \in DOMAIN log /\ k \in DOMAIN log
    BY <1>4, <2>2, <2>3, <2>4
  <2>5. CASE j \in DOMAIN log /\ k = n
    BY <1>3, <1>4, <2>1, <2>3, <2>5
  <2>6. CASE j = n /\ k \in DOMAIN log
    BY <1>3, <1>4, <2>1, <2>3, <2>6
  <2> QED
    BY <1>4, <2>4, <2>5, <2>6
<1>9. (Silent(done + 1) => Silent(done + 1)') /\ (Denied(Current)' <=> Denied(Current))
  BY <1>2 DEF Silent, Denied
<1>10. CASE MainAudit(x)
  <2>1. todo' = <<>>
    BY <1>1, <1>2, <1>10, TodoSeq, TameTail DEF BotInv, OnceInv, OnceScript, Step
  <2>2. n \in Mains(done + 1)'
    BY <1>3, <1>4, <1>5, <1>10 DEF Mains, Records
  <2>3. group' = "guard" => Denied(Current)'
    <3>1. group = "guard" => failed # TRUE
      BY DEF GuardInv
    <3> QED
      BY <1>2, <1>9, <3>1 DEF OnceInv, OnceScript
  <2> QED
    BY <1>7, <1>8, <2>1, <2>2, <2>3 DEF RecordInv
<1>11. CASE ~MainAudit(x)
  <2>1. Mains(done + 1)' = {}
    <3>1. Mains(done + 1)' = Mains(id)
      BY <1>3, <1>4, <1>5, <1>11 DEF Mains, Records
    <3> QED
      BY <1>5, <3>1
  <2>2. Closes(todo') \/ (group = "handler" /\ Silent(done + 1))
    <3>1. ~Asks /\ ~MainAudit(Step)
      BY <1>1, <1>2, <1>11 DEF Asks, Doing
    <3> QED
      BY <1>2, <3>1, RestPromised
  <2>3. todo' = <<>> => group' = "handler" /\ Silent(done + 1)'
    BY <1>2, <1>9, <2>2 DEF Closes
  <2>4. todo' # <<>> => Promised'
    BY <1>2, <1>9, <2>2 DEF Promised
  <2> QED
    BY <1>7, <1>8, <2>1, <2>3, <2>4 DEF RecordInv
<1> QED
  BY <1>10, <1>11

LEMMA AnswerRecord ==
  ASSUME BotInv, RecordInv, AnswerReturns
  PROVE  RecordInv'
<1>1. QueueInv /\ ScriptInv /\ todo # <<>> /\ Doing({"answer"})
      /\ UNCHANGED <<sent, done, group, log>> /\ group = "handler"
  <2>1. QueueInv /\ ScriptInv /\ Doing({"answer"}) /\ log' = log
    BY Zenon DEF BotInv, AnswerReturns
  <2> QED
    BY <2>1, StepKeeps, AtAnswer
<1>2. Current \in UpdateType
  BY <1>1, CurrentTyped
<1>3. PICK u : u = Current
  OBVIOUS
<1>4. /\ missed \subseteq missed'
      /\ \/ Closes(todo') \/ Silent(done + 1)'
         \/ \E r : \/ \E i, a, t : todo' = <<Act(i, a, t)>>
                   \/ u.cmd = "cancel" /\ todo' = Cancels(u, r)
  BY <1>1, <1>3, AnswerFollows
<1>5. CASE Closes(todo') \/ Silent(done + 1)'
  BY <1>1, <1>4, <1>5, PromiseKept
<1>6. CASE \E i, a, t : todo' = <<Act(i, a, t)>>
  <2>1. Asks'
    BY <1>6 DEF Asks, Doing, Step, Act
  <2> QED
    BY <1>1, <1>4, <2>1, PromiseKept
<1>7. CASE \E r : u.cmd = "cancel" /\ todo' = Cancels(u, r)
  <2>1. PICK r : u.cmd = "cancel" /\ todo' = Cancels(u, r)
    BY <1>7
  <2>2. Closes(Cancels(u, r))
    BY <1>2, <1>3, <2>1, OutcomeTells
  <2> QED
    BY <1>1, <1>4, <2>1, <2>2, PromiseKept
<1> QED
  BY <1>4, <1>5, <1>6, <1>7

LEMMA ListRecord ==
  ASSUME BotInv, RecordInv, ListReturns
  PROVE  RecordInv'
<1>1. QueueInv /\ todo # <<>> /\ UNCHANGED <<sent, done, group, log, missed>>
  <2>1. QueueInv /\ log' = log /\ missed' = missed
    BY Zenon DEF BotInv, ListReturns, worldVars
  <2> QED
    BY <2>1, StepKeeps
<1>2. CASE Closes(todo')
  BY <1>1, <1>2, PromiseKept
<1>3. CASE \E i, a, t : todo' = <<Act(i, a, t)>>
  <2>1. Asks'
    BY <1>3 DEF Asks, Doing, Step, Act
  <2> QED
    BY <1>1, <2>1, PromiseKept
<1> QED
  BY <1>1, <1>2, <1>3, ListFollows

LEMMA ItemRecord ==
  ASSUME BotInv, OnceInv, RecordInv, ItemReturns
  PROVE  RecordInv'
<1>1. Step.do = "item" /\ todo # <<>> /\ UNCHANGED <<sent, done, group, log, missed>>
  <2>1. Doing({"item"}) /\ log' = log /\ missed' = missed
    BY DEF ItemReturns, worldVars
  <2> QED
    BY <2>1, StepKeeps DEF Doing
<1>2. Closes(Tail(todo)) \/ (group = "handler" /\ Silent(done + 1))
  BY <1>1, RestPromised DEF Asks, Doing, MainAudit
<1>3. Closes(Tail(todo)) => Closes(todo')
  BY ItemFollows DEF OnceInv
<1> QED
  BY <1>1, <1>2, <1>3, PromiseKept

LEMMA ActRecord ==
  ASSUME BotInv, TruthInv, RecordInv, OciPerforms \/ ActReturns
  PROVE  RecordInv'
<1>1. QueueInv /\ todo # <<>> /\ UNCHANGED <<sent, done, group, log, missed>>
  <2>1. QueueInv /\ log' = log /\ missed' = missed
    BY DEF BotInv, OciPerforms, ActReturns, worldVars
  <2> QED
    BY <2>1, StepKeeps
<1>2. CASE OciPerforms
  <2>1. todo' = <<[Step EXCEPT !.do = "performed"]>> /\ Doing({"act", "performed"})
    BY <1>2 DEF OciPerforms, Continue, Performed, Doing
  <2>2. Step \in ActSteps
    BY <2>1, AtAct DEF BotInv
  <2>3. Asks'
    BY <2>1, <2>2 DEF Asks, Doing, Step, ActSteps
  <2> QED
    BY <1>1, <2>3, PromiseKept
<1>3. CASE ActReturns
  <2>1. PICK u, x : u = Current /\ x = Step
    OBVIOUS
  <2>2. u \in UpdateType /\ u.cmd \in {"confirm", "start_instance"}
    <3>1. Doing({"act", "performed"})
      BY <1>3 DEF ActReturns, Doing
    <3> QED
      BY <1>1, <2>1, <3>1, CurrentTyped DEF TruthInv, ActInv
  <2>3. Closes(Accepted(u, x)) /\ Closes(Refused(u, x))
    BY <2>2, OutcomeTells
  <2>4. todo' = Accepted(u, x) \/ todo' = Refused(u, x)
    BY <1>3, <2>1 DEF ActReturns, Continue
  <2>5. Closes(todo')
    BY <2>3, <2>4, Zenon
  <2> QED
    BY <1>1, <2>5, PromiseKept
<1> QED
  BY <1>2, <1>3

\* An update begins: nothing is on record of it.
LEMMA DispatchRecord ==
  ASSUME BotInv, OnceInv, RecordInv, Dispatch
  PROVE  RecordInv'
<1>1. /\ QueueInv /\ OnceLog /\ group = "idle" /\ phase # "down" /\ done < fetched
      /\ UNCHANGED <<sent, done, log, missed>> /\ Current' = Current
      /\ \/ group' = "handler" /\ todo' = <<Answer>>
         \/ group' = "guard" /\ todo' = Guard(Current)
  BY DEF BotInv, OnceInv, Dispatch, queueVars, worldVars, Current
<1>2. Mains(done + 1)' = {}
  <2>1. \A k \in DOMAIN log : log[k].id # done + 1
    <3>1. \A k \in DOMAIN log : log[k].id <= done
      BY <1>1 DEF OnceLog
    <3> QED
      BY <1>1, <3>1 DEF QueueInv
  <2> QED
    BY <1>1, <2>1 DEF Mains, Records
<1>3. /\ \A i \in 1 .. done' : Silent(i)' \/ Mains(i)' # {}
      /\ \A j, k \in DOMAIN log' :
           log'[j].id = log'[k].id /\ Main(log'[j]) /\ Main(log'[k]) => j = k
  BY <1>1, SilentStays DEF RecordInv, Mains, Records
<1>4. CASE group' = "handler" /\ todo' = <<Answer>>
  <2>1. Asks'
    BY <1>4 DEF Asks, Doing, Step, Answer
  <2> QED
    BY <1>2, <1>3, <1>4, <2>1 DEF RecordInv, Promised
<1>5. CASE group' = "guard" /\ todo' = Guard(Current)
  <2>1. PICK u : u = Current
    OBVIOUS
  <2>2. u \in UpdateType
    BY <1>1, <2>1, WaitingTyped
  <2>3. (Denied(u) => Closes(Guard(u))) /\ (~Denied(u) => Guard(u) = <<>>)
    BY <2>2, FailsTells
  <2>4. (Denied(u) => Closes(todo')) /\ (~Denied(u) => todo' = <<>>) /\ u = Current'
    BY <1>1, <1>5, <2>1, <2>3, Zenon
  <2>5. todo' # <<>> => Promised'
    BY <2>4 DEF Promised
  <2>6. Denied(u) => todo' # <<>>
    BY <2>4 DEF Closes
  <2>7. Denied(Current)' => todo' # <<>>
    BY <2>4, <2>6 DEF Denied
  <2> QED
    BY <1>2, <1>3, <1>5, <2>5, <2>7 DEF RecordInv
<1> QED
  BY <1>1, <1>4, <1>5

\* It ends when it is on record.
LEMMA EndRecord ==
  ASSUME BotInv, RecordInv, UNCHANGED <<sent, log, missed>>, group' = "idle", todo' = <<>>,
         done' = done + 1, Silent(done + 1) \/ Mains(done + 1) # {}
  PROVE  RecordInv'
<1>1. \A i : Mains(i)' = Mains(i)
  BY DEF Mains, Records
<1>2. \A i \in 1 .. done' : Silent(i)' \/ Mains(i)' # {}
  <2>1. \A i \in 1 .. done' : Silent(i) \/ Mains(i) # {}
    BY DEF RecordInv, BotInv, QueueInv
  <2> QED
    BY <1>1, <2>1, SilentStays
<1>3. \A j, k \in DOMAIN log' :
        log'[j].id = log'[k].id /\ Main(log'[j]) /\ Main(log'[k]) => j = k
  BY DEF RecordInv
<1> QED
  BY <1>2, <1>3 DEF RecordInv

LEMMA GuardEndsRecord ==
  ASSUME BotInv, GuardInv, RecordInv, GuardEnds
  PROVE  RecordInv'
<1>1. /\ QueueInv /\ group = "guard" /\ todo = <<>> /\ failed # TRUE
      /\ UNCHANGED <<sent, log, missed>>
  BY DEF BotInv, GuardInv, GuardEnds, worldVars
<1>2. CASE Denied(Current)
  <2>1. group' = "idle" /\ done' = done + 1 /\ todo' = <<>>
    BY <1>1, <1>2 DEF GuardEnds
  <2>2. Mains(done + 1) # {}
    BY <1>1, <1>2 DEF RecordInv
  <2> QED
    BY <1>1, <2>1, <2>2, EndRecord
<1>3. CASE ~Denied(Current)
  <2>1. done' = done /\ group' = "handler" /\ Current' = Current
    BY <1>1, <1>3 DEF GuardEnds, Current
  <2>2. Mains(done + 1) = {} /\ Mains(done + 1)' = Mains(done + 1)
    BY <1>1, <1>3, <2>1 DEF RecordInv, Mains, Records
  <2>3. \/ todo' = <<List>> \/ Closes(todo')
        \/ NeedsArgument(Current.cmd) /\ Current.arg = NoArg /\ todo' # <<>>
    BY <1>1, <1>3, GuardFollows
  <2>4. todo' # <<>> /\ Promised'
    <3>1. CASE todo' = <<List>>
      BY <3>1 DEF Promised, Asks, Doing, Step, List
    <3>2. CASE Closes(todo')
      BY <3>2 DEF Promised, Closes
    <3>3. CASE NeedsArgument(Current.cmd) /\ Current.arg = NoArg /\ todo' # <<>>
      <4>1. PICK i : i = done + 1
        OBVIOUS
      <4>2. Silent(i)
        BY <1>3, <3>3, <4>1, SilentCases DEF Current
      <4>3. Silent(done + 1)'
        BY <1>1, <2>1, <4>1, <4>2 DEF Silent
      <4> QED
        BY <2>1, <3>3, <4>3 DEF Promised
    <3> QED
      BY <2>3, <3>1, <3>2, <3>3
  <2>5. /\ \A i \in 1 .. done' : Silent(i)' \/ Mains(i)' # {}
        /\ \A j, k \in DOMAIN log' :
             log'[j].id = log'[k].id /\ Main(log'[j]) /\ Main(log'[k]) => j = k
    BY <1>1, <2>1, SilentStays DEF RecordInv, Mains, Records
  <2> QED
    BY <2>1, <2>2, <2>4, <2>5 DEF RecordInv
<1> QED
  BY <1>2, <1>3

LEMMA HandlerEndsRecord ==
  ASSUME BotInv, RecordInv, HandlerEnds
  PROVE  RecordInv'
<1>1. /\ UNCHANGED <<sent, log, missed>> /\ group' = "idle" /\ todo' = <<>>
      /\ done' = done + 1
      /\ group = "handler" /\ todo = <<>>
  BY DEF HandlerEnds, worldVars
<1>2. Silent(done + 1) \/ Mains(done + 1) # {}
  BY <1>1 DEF RecordInv
<1> QED
  BY <1>1, <1>2, EndRecord

LEMMA PausedRecord ==
  ASSUME BotInv, RecordInv, [BotNext]_botVars, UNCHANGED <<todo, group, done, log>>
  PROVE  RecordInv'
<1>1. QueueInv /\ TypeOK /\ HistoryGrows /\ missed \subseteq missed'
  BY NextGrows, NextMissed DEF BotInv, StoreInv
<1>2. \A i : Mains(i)' = Mains(i)
  BY DEF Mains, Records
<1>3. Mains(done + 1)' = Mains(done + 1)
  BY DEF Mains, Records
<1>9. \A i \in 1 .. Len(sent) : Silent(i) => Silent(i)'
  BY <1>1, SilentStays DEF HistoryGrows
<1>4. \A i \in 1 .. done' : Silent(i)' \/ Mains(i)' # {}
  BY <1>1, <1>2, <1>9 DEF RecordInv, QueueInv
<1>5. group # "idle" => Current' = Current
  BY <1>1, PausedCurrent
<1>6. ASSUME group # "idle"
      PROVE  /\ Silent(done + 1) => Silent(done + 1)'
             /\ Denied(Current)' <=> Denied(Current)
             /\ Promised => Promised'
  <2>1. Current' = Current
    BY <1>5, <1>6
  <2>2. Silent(done + 1) => Silent(done + 1)'
    BY <1>1, <2>1 DEF Silent, Current
  <2>3. Denied(Current)' <=> Denied(Current)
    BY <2>1 DEF Denied
  <2> QED
    BY <2>2, <2>3 DEF Promised, Asks, Doing, Step
<1>7. todo # <<>> => group # "idle"
  BY <1>1 DEF QueueInv
<1>8. \A j, k \in DOMAIN log' :
        log'[j].id = log'[k].id /\ Main(log'[j]) /\ Main(log'[k]) => j = k
  BY DEF RecordInv
<1> QED
  BY <1>3, <1>4, <1>6, <1>7, <1>8 DEF RecordInv

\* A process that may not start again neither dies nor starts.
LEMMA OneLife ==
  ASSUME TypeOK, MaxEpoch = 0
  PROVE  ~Crash /\ ~Start
BY DEF TypeOK, Crash, Start, Restart

LEMMA NextRecord ==
  ASSUME DenialsPass, MaxEpoch = 0, BotInv, LogInv, TruthInv, OnceInv, GuardInv, RecordInv,
         [BotNext]_botVars
  PROVE  RecordInv'
<1>1. CASE Dispatch \/ GuardEnds \/ HandlerEnds
  BY <1>1, DispatchRecord, GuardEndsRecord, HandlerEndsRecord
<1>2. CASE AuditWrites
  BY <1>2, AuditRecord
<1>3. CASE TelegramTakes \/ TelegramRaises \/ OciRaises
  BY <1>3, TalkRecord
<1>4. CASE AnswerReturns \/ ListReturns \/ ItemReturns \/ OciPerforms \/ ActReturns
  BY <1>4, AnswerRecord, ListRecord, ItemRecord, ActRecord
<1>5. ~AuditRaises
  BY DEF AuditRaises, DenialsPass
<1>6. CASE \/ \E u \in Users : UserSends(u)
           \/ Poll \/ Signal \/ Stopped \/ TimePasses \/ UNCHANGED botVars
  <2>1. UNCHANGED <<todo, group, done, log>>
    BY <1>6 DEF UserSends, Poll, Signal, Stopped, TimePasses, botVars, queueVars,
                handlerVars, worldVars
  <2> QED
    BY <2>1, PausedRecord
<1>7. ~Crash /\ ~Start
  BY OneLife DEF BotInv, StoreInv
<1> QED
  BY <1>1, <1>2, <1>3, <1>4, <1>5, <1>6, <1>7 DEF BotNext, Handling

LEMMA RecordInvHolds ==
  DenialsPass /\ MaxEpoch = 0 => (BotSpec => []RecordInv)
<1> SUFFICES ASSUME DenialsPass, MaxEpoch = 0
             PROVE  BotSpec => []RecordInv
  OBVIOUS
<1>1. BotInit => RecordInv
  <2>1. BotInit => done = 0 /\ log = <<>> /\ todo = <<>> /\ group = "idle"
    BY Zenon DEF BotInit
  <2> QED
    BY <2>1 DEF RecordInv
<1>2. BotInv /\ LogInv /\ TruthInv /\ OnceInv /\ GuardInv /\ RecordInv /\ [BotNext]_botVars
        => RecordInv'
  BY NextRecord
<1> QED
  BY <1>1, <1>2, BotInvHolds, LogInvHolds, TruthInvHolds, OnceInvHolds, GuardInvHolds, PTL
     DEF BotSpec

\* In one life of the process with a disk to write to and denials that go through,
\* every update that was handled has exactly one record of its own, whatever Telegram
\* and OCI raise and whenever the process is told to stop; only a usage reply and a
\* Cancel that found nothing to cancel may have none, and what /public_ip records of
\* the instances it could not read does not count (audit.py:20-21; bot.py:118-136;
\* instances.py:209-233).
THEOREM BotOneRecordEach ==
  DenialsPass /\ MaxEpoch = 0 => (BotSpec => []OneRecordEach)
<1> SUFFICES ASSUME DenialsPass, MaxEpoch = 0
             PROVE  BotSpec => []OneRecordEach
  OBVIOUS
<1>1. ASSUME RecordInv
      PROVE  OneRecordEach
  <2> SUFFICES ASSUME NEW i \in 1 .. done
               PROVE  /\ Silent(i) \/ Mains(i) # {}
                      /\ Cardinality(Mains(i)) <= 1
    BY Zenon DEF OneRecordEach
  <2>1. Silent(i) \/ Mains(i) # {}
    BY <1>1, Zenon DEF RecordInv
  <2>2. CASE Mains(i) = {}
    BY <2>1, <2>2, FS_EmptySet
  <2>3. CASE Mains(i) # {}
    <3>1. PICK k : k \in Mains(i)
      BY <2>3
    <3>2. \A j \in Mains(i) : j = k
      BY <1>1, <3>1 DEF RecordInv, Mains, Records
    <3>3. Mains(i) = {k}
      BY <3>1, <3>2
    <3>4. Cardinality(Mains(i)) = Cardinality({k}) /\ Cardinality({k}) = 1
      BY <3>3, FS_Singleton, Zenon
    <3> QED
      BY <2>1, <3>4
  <2> QED
    BY <2>2, <2>3
<1> QED
  BY <1>1, RecordInvHolds, PTL

-----------------------------------------------------------------------------
(* What was accepted is on record, in one life without faults *)

\* Nothing in a script announces an action.
Calm(s) == \A x \in Range(s) : x.do # "performed" /\ (x.do = "show" => x.text # "accepted")

\* A message is edited to say that an action was accepted where it does not say so
\* yet, so Telegram does not refuse the edit.
NewsInv ==
  \/ Calm(todo)
  \/ Doing({"performed"}) /\ (Step.token # NoToken => shown[Step.token].text # "accepted")
  \/ \E x, z : /\ todo = <<x, z>> /\ z.do = "audit"
               /\ x.do = "show" /\ x.text = "accepted"
               /\ shown[x.token].text # "accepted"

LEMMA CalmCases ==
  /\ Calm(<<>>)
  /\ \A s : Tame(s) => Calm(s)
  /\ \A x : x.do \notin {"performed", "show"} => Calm(<<x>>)
  /\ \A x, y : x.do \notin {"performed", "show"} /\ y.do \notin {"performed", "show"}
                 => Calm(<<x, y>>)
<1>1. Calm(<<>>)
  BY DEF Calm, Range
<1>2. \A s : Tame(s) => Calm(s)
  BY DEF Tame, Mild, Calm, Range
<1>3. \A x : x.do \notin {"performed", "show"} => Calm(<<x>>)
  BY DEF Calm, Range
<1>4. \A x, y : x.do \notin {"performed", "show"} /\ y.do \notin {"performed", "show"}
                 => Calm(<<x, y>>)
  BY DEF Calm, Range
<1> QED
  BY <1>1, <1>2, <1>3, <1>4

LEMMA NewsTail ==
  ASSUME BotInv, NewsInv, todo # <<>>
  PROVE  Calm(Tail(todo))
<1>1. CASE Calm(todo)
  BY <1>1, StepInRange DEF Calm, BotInv
<1>2. CASE Doing({"performed"})
  <2>1. todo = <<Step>>
    BY <1>2, AtAct DEF BotInv, Doing
  <2>2. Tail(todo) = <<>>
    BY <2>1
  <2> QED
    BY <2>2, CalmCases
<1>3. CASE \E x, z : todo = <<x, z>> /\ z.do = "audit"
  <2>1. PICK z : Tail(todo) = <<z>> /\ z.do = "audit"
    BY <1>3
  <2> QED
    BY <2>1, CalmCases
<1> QED
  BY <1>1, <1>2, <1>3 DEF NewsInv

LEMMA ItemNews ==
  ASSUME BotInv, OnceInv, NewsInv, ItemReturns
  PROVE  Calm(todo')
<1>1. todo # <<>>
  BY DEF ItemReturns, Doing
<1>2. Calm(Tail(todo))
  BY <1>1, NewsTail
<1>3. \A x \in Range(todo') : x.do # "audit" => x \in Range(Tail(todo))
  BY ItemFollows DEF OnceInv
<1> QED
  BY <1>2, <1>3 DEF Calm

LEMMA OciPerformsNews ==
  ASSUME BotInv, TruthInv, OciPerforms
  PROVE  NewsInv'
<1>1. PICK x, y : x = Step /\ y = Performed(x)
  OBVIOUS
<1>2. /\ x \in ActSteps /\ todo' = <<y>> /\ shown' = shown /\ Doing({"act"})
  BY <1>1, AtAct DEF BotInv, OciPerforms, Doing, Continue
<1>3. y.do = "performed" /\ y.token = x.token
  BY <1>1, <1>2 DEF Performed, ActSteps
<1>4. x.token # NoToken => shown[x.token].text # "accepted"
  <2>1. x.token # NoToken => x.token \in Tokens
    BY <1>2 DEF ActSteps
  <2>2. x.token # NoToken => \A k \in DOMAIN oci : oci[k].token # x.token
    BY <1>1, <1>2 DEF BotInv, EffectInv
  <2> QED
    BY <2>1, <2>2 DEF TruthInv, HonestMessages, Accomplished
<1>5. todo' # <<>> /\ Head(todo') = y
  BY <1>2
<1> QED
  BY <1>2, <1>3, <1>4, <1>5 DEF NewsInv, Doing, Step

LEMMA ActNews ==
  ASSUME BotInv, TruthInv, NewsInv, ActReturns
  PROVE  NewsInv'
<1>1. PICK u, x : u = Current /\ x = Step
  OBVIOUS
<1>2. /\ Doing({"act", "performed"}) /\ x \in ActSteps /\ u \in UpdateType
      /\ \/ u.cmd = "start_instance"
         \/ u.cmd = "confirm" /\ u.token = x.token
      /\ shown' = shown /\ ScriptInv /\ todo # <<>>
      /\ todo' = Refused(u, x) \/ (x.do = "performed" /\ todo' = Accepted(u, x))
  <2>1. Doing({"act", "performed"}) /\ QueueInv /\ ScriptInv /\ todo # <<>>
    BY DEF ActReturns, Doing, BotInv
  <2>2. u \in UpdateType
    BY <1>1, <2>1, CurrentTyped
  <2>3. shown' = shown
    BY DEF ActReturns, worldVars
  <2>4. todo' = Refused(u, x) \/ (x.do = "performed" /\ todo' = Accepted(u, x))
    BY <1>1 DEF ActReturns, Continue, Doing
  <2> QED
    BY <1>1, <2>1, <2>2, <2>3, <2>4, AtAct DEF TruthInv, ActInv
<1>3. CASE todo' = Refused(u, x)
  BY <1>2, <1>3, OutcomeTells, CalmCases DEF NewsInv
<1>4. CASE x.do = "performed" /\ todo' = Accepted(u, x) /\ u.cmd = "start_instance"
  <2>1. \E y, z : todo' = <<y, z>> /\ y.do = "reply" /\ z.do = "audit"
    BY <1>4 DEF Accepted, Reply, Ok, Audit
  <2> QED
    BY <2>1, CalmCases DEF NewsInv
<1>5. CASE x.do = "performed" /\ todo' = Accepted(u, x) /\ u.cmd = "confirm"
  <2>1. PICK y, z : /\ todo' = <<y, z>> /\ z.do = "audit" /\ y.do = "show"
                    /\ y.text = "accepted" /\ y.token = u.token
    BY <1>5 DEF Accepted, Edits, Show, Ok, Audit
  <2>2. u.token # NoToken
    <3>1. Current.cmd \in Presses /\ done + 1 \in DOMAIN sent /\ Current = sent[done + 1]
      BY <1>1, <1>2, <1>5, WaitingTyped DEF Presses, BotInv, QueueInv
    <3>2. u.token \in DOMAIN issued
      BY <1>1, <3>1 DEF BotInv, HistoryInv
    <3> QED
      BY <3>2, MissingAssumption DEF BotInv, StoreInv, TypeOK
  <2>3. shown[u.token].text # "accepted"
    <3>1. ~Calm(todo)
      BY <1>1, <1>2, <1>5, StepInRange DEF Calm
    <3>2. ~\E v, w : todo = <<v, w>> /\ v.do = "show"
      BY <1>1, <1>5 DEF Step
    <3> QED
      BY <1>1, <1>2, <1>5, <2>2, <3>1, <3>2 DEF NewsInv
  <2> QED
    BY <1>2, <2>1, <2>3 DEF NewsInv
<1> QED
  BY <1>2, <1>3, <1>4, <1>5

LEMMA NextNews ==
  ASSUME BotInv, TruthInv, OnceInv, NewsInv, [BotNext]_botVars
  PROVE  NewsInv'
<1>0. QueueInv /\ ScriptInv
  BY DEF BotInv
<1>1. CASE \/ TelegramTakes \/ TelegramRaises \/ AuditWrites \/ AuditRaises \/ OciRaises
  <2>1. todo # <<>> /\ (todo' = Tail(todo) \/ todo' = ErrorHandler)
    <3>1. todo' = Tail(todo) \/ todo' = ErrorHandler
      BY <1>1 DEF TelegramTakes, TelegramRaises, AuditWrites, AuditRaises, OciRaises,
                  Continue, Raise
    <3> QED
      BY <1>1, <3>1, StepKeeps
  <2>2. Calm(todo')
    BY <2>1, NewsTail, ErrorHandlerTells, CalmCases
  <2> QED
    BY <2>2 DEF NewsInv
<1>2. CASE AnswerReturns
  <2>1. PICK u : u = Current
    OBVIOUS
  <2>2. u \in UpdateType
    <3>1. todo # <<>>
      BY <1>2, StepKeeps
    <3> QED
      BY <1>0, <2>1, <3>1, CurrentTyped
  <2>3. \/ Tame(todo')
        \/ \E r : \/ \E i, a, t : todo' = <<Act(i, a, t)>>
                  \/ todo' = Cancels(u, r)
    BY <1>0, <1>2, <2>1, AnswerFollows
  <2>4. CASE Tame(todo')
    BY <2>4, CalmCases DEF NewsInv
  <2>5. CASE \E i, a, t : todo' = <<Act(i, a, t)>>
    <3>1. \E x : todo' = <<x>> /\ x.do = "act"
      BY <2>5 DEF Act
    <3> QED
      BY <3>1, CalmCases DEF NewsInv
  <2>6. CASE \E r : todo' = Cancels(u, r)
    <3>1. \E x, y : todo' = <<x, y>> /\ x.do = "show" /\ x.text = "cancelled" /\ y.do = "audit"
      BY <2>6 DEF Cancels, Edits, Show, Ok, Audit
    <3>2. Calm(todo')
      BY <3>1 DEF Calm, Range
    <3> QED
      BY <3>2 DEF NewsInv
  <2> QED
    BY <2>3, <2>4, <2>5, <2>6
<1>3. CASE ListReturns
  <2>1. Tame(todo') \/ \E i, a, t : todo' = <<Act(i, a, t)>>
    BY <1>0, <1>3, ListFollows
  <2>2. CASE Tame(todo')
    BY <2>2, CalmCases DEF NewsInv
  <2>3. CASE \E i, a, t : todo' = <<Act(i, a, t)>>
    <3>1. \E x : todo' = <<x>> /\ x.do = "act"
      BY <2>3 DEF Act
    <3> QED
      BY <3>1, CalmCases DEF NewsInv
  <2> QED
    BY <2>1, <2>2, <2>3
<1>4. CASE ItemReturns
  BY <1>4, ItemNews DEF NewsInv
<1>5. CASE OciPerforms \/ ActReturns
  BY <1>5, OciPerformsNews, ActNews
<1>6. CASE Dispatch \/ GuardEnds \/ HandlerEnds \/ Crash
  <2>1. \/ Tame(todo') \/ todo' = <<>>
        \/ todo' = <<Answer>> \/ todo' = <<List>>
    <3>1. CASE Dispatch
      <4>1. Current \in UpdateType /\ (todo' = <<Answer>> \/ todo' = Guard(Current))
        BY <1>0, <3>1, WaitingTyped DEF Dispatch
      <4> QED
        BY <4>1, FailsTells
    <3>2. CASE GuardEnds /\ Denied(Current) /\ ~failed
      BY <3>2 DEF GuardEnds
    <3>3. CASE GuardEnds /\ ~(Denied(Current) /\ ~failed)
      BY <1>0, <3>3, GuardFollows
    <3>4. CASE HandlerEnds \/ Crash
      BY <3>4 DEF HandlerEnds, Crash
    <3> QED
      BY <1>6, <3>1, <3>2, <3>3, <3>4
  <2>2. Calm(todo')
    <3>1. Calm(<<Answer>>) /\ Calm(<<List>>)
      BY CalmCases DEF Answer, List
    <3> QED
      BY <2>1, <3>1, CalmCases
  <2> QED
    BY <2>2 DEF NewsInv
<1>7. CASE \/ \E u \in Users : UserSends(u)
           \/ Poll \/ Signal \/ Stopped \/ Start \/ TimePasses \/ UNCHANGED botVars
  <2>1. UNCHANGED <<todo, shown>>
    BY <1>7 DEF UserSends, Poll, Signal, Stopped, Start, TimePasses, botVars,
                handlerVars, worldVars
  <2> QED
    BY <2>1 DEF NewsInv, Calm, Doing, Step
<1> QED
  BY <1>1, <1>2, <1>3, <1>4, <1>5, <1>6, <1>7 DEF BotNext, Handling

Recorded(e) ==
  \E r \in Records(e.id) :
    log[r].result = "ok" /\ log[r].target = e.instance /\ log[r].action = e.action

\* A step that writes the record of e; and what the handler is at until then.
Notes(z, e) ==
  z.do = "audit" /\ z.result = "ok" /\ z.target = e.instance /\ z.action = e.action
Pledged(e) ==
  \/ Doing({"performed"}) /\ Step.instance = e.instance /\ Step.action = e.action
  \/ \E z : todo = <<z>> /\ Notes(z, e)
  \/ \E y, z : /\ todo = <<y, z>> /\ Notes(z, e)
               /\ y.do = "reply" \/ (y.do = "show" /\ y.text = "accepted")

\* What OCI has performed is on record, or will be by the handler that is at it.
AuditedInv ==
  \A k \in DOMAIN oci :
    \/ Recorded(oci[k])
    \/ oci[k].id = done + 1 /\ group = "handler" /\ Pledged(oci[k])

LEMMA NextRecords ==
  ASSUME [BotNext]_botVars
  PROVE  log' = log \/ AuditWrites
<1>1. CASE AnswerReturns \/ ListReturns
  BY <1>1, Zenon DEF AnswerReturns, Miss, Hit, ListReturns, worldVars
<1>2. CASE Handling /\ ~AnswerReturns /\ ~ListReturns
  BY <1>2 DEF Handling, Dispatch, GuardEnds, HandlerEnds, TelegramTakes, TelegramRaises,
              AuditRaises, ItemReturns, OciPerforms, ActReturns, OciRaises, worldVars
<1>3. CASE \/ \E u \in Users : UserSends(u)
           \/ Poll \/ Signal \/ Stopped \/ Crash \/ Start \/ TimePasses \/ UNCHANGED botVars
  BY <1>3 DEF UserSends, Poll, Signal, Stopped, Crash, Start, TimePasses, botVars, worldVars
<1> QED
  BY <1>1, <1>2, <1>3 DEF BotNext

LEMMA RecordedStable ==
  ASSUME LogInv, [BotNext]_botVars, NEW e, Recorded(e)
  PROVE  Recorded(e)'
<1>1. DOMAIN log \subseteq DOMAIN log' /\ \A r \in DOMAIN log : log'[r] = log[r]
  <2>1. CASE log' = log
    BY <2>1
  <2>2. CASE AuditWrites
    <3>1. PICK x : log' = Append(log, x)
      BY <2>2 DEF AuditWrites
    <3> QED
      BY <3>1 DEF LogInv
  <2>3. log' = log \/ AuditWrites
    BY NextRecords
  <2> QED
    BY <2>1, <2>2, <2>3
<1> QED
  BY <1>1 DEF Recorded, Records

\* What is pledged stays so, or is recorded.
LEMMA PledgeStable ==
  ASSUME Faults = {}, MaxEpoch = 0, BotInv, LogInv, TruthInv, NewsInv, [BotNext]_botVars,
         NEW e, e.id = done + 1, group = "handler", Pledged(e)
  PROVE  Recorded(e)' \/ (done' = done /\ group' = "handler" /\ Pledged(e)')
<1>0. todo # <<>> /\ QueueInv /\ ScriptInv
  <2>1. todo # <<>>
    BY DEF Pledged, Doing
  <2> QED
    BY <2>1 DEF BotInv
<1>1. ~(Dispatch \/ GuardEnds \/ HandlerEnds \/ AuditRaises \/ OciRaises \/ Crash \/ Start)
  <2>1. ~Crash /\ ~Start
    BY OneLife DEF BotInv, StoreInv
  <2> QED
    BY <1>0, <2>1 DEF Dispatch, GuardEnds, HandlerEnds, AuditRaises, OciRaises
<1>2. CASE \/ \E u \in Users : UserSends(u)
           \/ Poll \/ Signal \/ Stopped \/ TimePasses \/ UNCHANGED botVars
  <2>1. UNCHANGED <<todo, group, done>>
    BY <1>2 DEF UserSends, Poll, Signal, Stopped, TimePasses, botVars, queueVars,
                handlerVars
  <2> QED
    BY <2>1 DEF Pledged, Doing, Step
<1>3. Handling /\ todo # <<>> => UNCHANGED <<done, group>>
  BY <1>1, StepKeeps DEF Handling
<1>4. CASE Doing({"performed"}) /\ Step.instance = e.instance /\ Step.action = e.action
           /\ Handling
  <2>1. ActReturns
    BY <1>1, <1>4 DEF Handling, TelegramTakes, TelegramRaises, AuditWrites, AnswerReturns, Miss, Hit,
                      ListReturns, ItemReturns, OciPerforms, Doing
  <2>2. PICK u, x : u = Current /\ x = Step
    OBVIOUS
  <2>3. todo' = Accepted(u, x)
    BY <1>4, <2>1, <2>2 DEF ActReturns, Continue, Doing
  <2>4. \E y, z : /\ todo' = <<y, z>> /\ Notes(z, e)
                  /\ y.do = "reply" \/ (y.do = "show" /\ y.text = "accepted")
    BY <1>4, <2>2, <2>3 DEF Accepted, Edits, Show, Reply, Ok, Audit, Notes
  <2>5. Pledged(e)'
    BY <2>4 DEF Pledged, Notes
  <2> QED
    BY <1>0, <1>3, <1>4, <2>5
<1>5. ASSUME NEW z, todo = <<z>>, Notes(z, e), Handling
      PROVE  Recorded(e)'
  <2>1. Step = z
    BY <1>5 DEF Step
  <2>2. AuditWrites
    BY <1>1, <1>5, <2>1 DEF Handling, TelegramTakes, TelegramRaises, AnswerReturns, Miss, Hit,
             ListReturns, ItemReturns, OciPerforms, ActReturns, Doing, Notes
  <2>3. PICK x : /\ log' = Append(log, x) /\ x.id = done + 1 /\ x.result = z.result
                 /\ x.target = z.target /\ x.action = z.action
    BY <2>1, <2>2 DEF AuditWrites
  <2>4. Len(log) + 1 \in DOMAIN log' /\ log'[Len(log) + 1] = x
    BY <2>3 DEF LogInv
  <2> QED
    BY <1>5, <2>3, <2>4 DEF Recorded, Records, Notes
<1>6. ASSUME NEW y, NEW z, todo = <<y, z>>, Notes(z, e), Handling,
             y.do = "reply" \/ (y.do = "show" /\ y.text = "accepted")
      PROVE  Pledged(e)'
  <2>1. Step = y /\ Tail(todo) = <<z>>
    BY <1>6 DEF Step
  <2>2. ~TelegramRaises
    <3>1. ASSUME y.do = "show"
          PROVE  ~Unmodified(y)
      <4>1. ~Calm(todo)
        <5>1. y \in Range(todo)
          BY <1>0, <2>1, StepInRange
        <5> QED
          BY <1>6, <3>1, <5>1 DEF Calm
      <4>2. ~Doing({"performed"})
        BY <2>1, <3>1 DEF Doing
      <4>3. PICK v, w : todo = <<v, w>> /\ shown[v.token].text # "accepted"
        BY <4>1, <4>2 DEF NewsInv
      <4>4. v = y
        BY <1>6, <4>3
      <4> QED
        BY <1>6, <3>1, <4>3, <4>4 DEF Unmodified, Text
    <3> QED
      BY <1>6, <2>1, <3>1 DEF TelegramRaises, Unmodified
  <2>3. TelegramTakes
    BY <1>1, <1>6, <2>1, <2>2 DEF Handling, AuditWrites, AnswerReturns, Miss, Hit,
             ListReturns, ItemReturns, OciPerforms, ActReturns, Doing
  <2>4. todo' = <<z>>
    BY <2>1, <2>3 DEF TelegramTakes, Continue
  <2> QED
    BY <1>6, <2>4 DEF Pledged, Notes
<1>7. CASE Handling
  <2>1. done' = done /\ group' = "handler"
    BY <1>0, <1>3, <1>7
  <2> QED
    BY <1>4, <1>5, <1>6, <1>7, <2>1 DEF Pledged
<1> QED
  BY <1>1, <1>2, <1>7 DEF BotNext

LEMMA NextAudited ==
  ASSUME Faults = {}, MaxEpoch = 0, BotInv, LogInv, TruthInv, NewsInv, AuditedInv,
         [BotNext]_botVars
  PROVE  AuditedInv'
<1>1. ASSUME NEW k \in DOMAIN oci
      PROVE  \/ Recorded(oci[k])'
             \/ oci'[k].id = done' + 1 /\ group' = "handler" /\ Pledged(oci[k])'
  <2>1. PICK e : e = oci[k]
    OBVIOUS
  <2>2. e = oci'[k]
    BY <2>1, OciGrows DEF BotInv
  <2>3. CASE Recorded(e)
    <3>1. Recorded(e)'
      BY <2>3, RecordedStable
    <3> QED
      BY <2>2, <3>1 DEF Recorded, Records
  <2>4. CASE e.id = done + 1 /\ group = "handler" /\ Pledged(e)
    <3>1. Recorded(e)' \/ (done' = done /\ group' = "handler" /\ Pledged(e)')
      BY <2>4, PledgeStable
    <3> QED
      BY <2>2, <2>4, <3>1 DEF Recorded, Records, Pledged, Notes
  <2> QED
    BY <2>1, <2>3, <2>4 DEF AuditedInv
<1>2. CASE oci' = oci
  BY <1>1, <1>2 DEF AuditedInv
<1>3. CASE OciPerforms
  <2>1. PICK x, e : /\ x = Step
                    /\ e = [id |-> done + 1, instance |-> x.instance, action |-> x.action,
                            token |-> x.token]
    OBVIOUS
  <2>2. /\ oci' = Append(oci, e) /\ done' = done /\ group' = "handler" /\ x \in ActSteps
        /\ todo' = <<Performed(x)>>
    BY <1>3, <2>1, AtAct DEF OciPerforms, Continue, queueVars, Doing, BotInv
  <2>3. PICK y : y = Performed(x)
    OBVIOUS
  <2>4. y.do = "performed" /\ y.instance = e.instance /\ y.action = e.action
    BY <2>1, <2>2, <2>3 DEF Performed, ActSteps
  <2>5. Head(todo') = y /\ todo' # <<>>
    BY <2>2, <2>3
  <2>6. Pledged(e)' /\ e.id = done' + 1
    BY <2>1, <2>2, <2>4, <2>5 DEF Pledged, Doing, Step
  <2>7. /\ DOMAIN oci' = DOMAIN oci \cup {Len(oci) + 1} /\ oci'[Len(oci) + 1] = e
    BY <2>2 DEF BotInv, EffectInv
  <2> QED
    BY <1>1, <2>2, <2>6, <2>7 DEF AuditedInv, Pledged, Notes
<1> QED
  BY <1>2, <1>3, NextOci

LEMMA NewsInvHolds == BotSpec => []NewsInv
<1>1. BotInit => NewsInv
  <2>1. BotInit => todo = <<>>
    BY Zenon DEF BotInit
  <2> QED
    BY <2>1, CalmCases DEF NewsInv
<1>2. BotInv /\ TruthInv /\ OnceInv /\ NewsInv /\ [BotNext]_botVars => NewsInv'
  BY NextNews
<1> QED
  BY <1>1, <1>2, BotInvHolds, TruthInvHolds, OnceInvHolds, PTL DEF BotSpec

\* In one life of the process, where nothing fails but by OCI's refusal, each action
\* that OCI has performed is on record with its target when its update has been
\* handled (operations.py:76, 237): no message it sends can be refused as unchanged
\* and keep the record from being written.
THEOREM BotEffectsAudited ==
  Faults = {} /\ MaxEpoch = 0 => (BotSpec => []EffectsAudited)
<1> SUFFICES ASSUME Faults = {}, MaxEpoch = 0
             PROVE  BotSpec => []EffectsAudited
  OBVIOUS
<1>1. BotInit => AuditedInv
  <2>1. BotInit => oci = <<>>
    BY Zenon DEF BotInit
  <2> QED
    BY <2>1 DEF AuditedInv
<1>2. BotInv /\ LogInv /\ TruthInv /\ NewsInv /\ AuditedInv /\ [BotNext]_botVars
        => AuditedInv'
  BY NextAudited
<1>3. BotInv /\ AuditedInv => EffectsAudited
  BY DEF BotInv, EffectInv, QueueInv, AuditedInv, EffectsAudited, Recorded
<1> QED
  BY <1>1, <1>2, <1>3, BotInvHolds, LogInvHolds, TruthInvHolds, NewsInvHolds, PTL
     DEF BotSpec

-----------------------------------------------------------------------------
(* No button outlives its use, in one life where Telegram and OCI only refuse *)

\* The handler is at the action of token t, or about to take its buttons away.
Finishing(t) ==
  /\ Doing({"act", "performed", "show"}) /\ Step.token = t
  /\ Step.do = "show" => Step.text # "prompt"

\* A script that shows no buttons.
Buttonless(s) == \A x \in Range(s) : x.do = "show" => x.text # "prompt"

\* The buttons of a token that was used are about to go, and none come back.
ButtonsInv ==
  /\ \A t \in Used : shown[t].text = "prompt" => Finishing(t)
  /\ \A x \in Range(todo) : x.do = "show" /\ x.text = "prompt" => x.token \notin Used

LEMMA ButtonlessCases ==
  /\ Buttonless(<<>>) /\ Buttonless(ErrorHandler)
  /\ \A s \in Plain({}) : Buttonless(s)
  /\ \A x : x.do # "show" \/ x.text # "prompt" => Buttonless(<<x>>)
  /\ \A x, y : (x.do # "show" \/ x.text # "prompt") /\ y.do = "audit" => Buttonless(<<x, y>>)
<1>1. Buttonless(<<>>) /\ Buttonless(ErrorHandler)
  BY DEF Buttonless, Range, ErrorHandler, Reply, Err, Audit
<1>2. \A s \in Plain({}) : Buttonless(s)
  <2> TAKE s \in Plain({})
  <2>1. \A x \in Range(s) : x \in PlainSteps({})
    BY DEF Plain, Range
  <2>2. \A x \in PlainSteps({}) : x.do # "show"
    BY DEF PlainSteps
  <2> QED
    BY <2>1, <2>2 DEF Buttonless
<1>3. \A x : x.do # "show" \/ x.text # "prompt" => Buttonless(<<x>>)
  BY DEF Buttonless, Range
<1>4. \A x, y : (x.do # "show" \/ x.text # "prompt") /\ y.do = "audit" => Buttonless(<<x, y>>)
  BY DEF Buttonless, Range
<1> QED
  BY <1>1, <1>2, <1>3, <1>4

\* Only _confirm_command shows buttons, those of a token that was never issued.
LEMMA ListButtons ==
  ASSUME QueueInv, ListReturns
  PROVE  \/ Buttonless(todo')
         \/ \E t, y : /\ t \notin DOMAIN issued /\ y.do = "audit"
                      /\ todo' = <<Show(t, "prompt", "anyone"), y>>
<1>1. PICK u : u = Current
  OBVIOUS
<1>2. u \in UpdateType
  BY <1>1, CurrentTyped DEF ListReturns, Doing
<1>3. \/ todo' = Fails(u)
      \/ \E n \in 1 .. MaxChunks : todo' = Reports(u, n)
      \/ \E n \in 1 .. MaxChunks, l \in Listings \cup {<<u.arg>>, Services} :
           todo' = Collects(u, l, n)
      \/ todo' = <<Act(u.arg, OciAction[u.cmd], NoToken)>>
      \/ /\ u.cmd \in ConfirmedCommands
         /\ \E t \in Tokens :
              /\ Create(t, u.user, [instance |-> u.arg, action |-> OciAction[u.cmd]])
              /\ todo' = Prompts(u, t)
  BY <1>1 DEF ListReturns, Continue
<1>4. NoTarget \in Targets /\ u.arg \in Targets /\ Instances \subseteq Targets
      /\ STRING \subseteq Targets
  BY <1>2 DEF Targets, UpdateType
<1>5. CASE todo' = Fails(u)
  <2>1. 1 \in Nat
    OBVIOUS
  <2>2. Fails(u) \in Plain({})
    BY <1>2, <1>4, <2>1, ReportsPlain, Zenon
  <2> QED
    BY <1>5, <2>2, ButtonlessCases
<1>6. ASSUME NEW n \in 1 .. MaxChunks, todo' = Reports(u, n)
      PROVE  Buttonless(todo')
  <2>1. n \in Nat
    OBVIOUS
  <2>2. Reports(u, n) \in Plain({})
    BY <1>2, <1>4, <2>1, ReportsPlain, Zenon
  <2> QED
    BY <1>6, <2>2, ButtonlessCases
<1>7. ASSUME NEW n \in 1 .. MaxChunks, NEW l \in Listings \cup {<<u.arg>>, Services},
             todo' = Collects(u, l, n)
      PROVE  Buttonless(todo')
  <2>1. n \in Nat
    OBVIOUS
  <2>2. l \in Seq(Targets)
    <3>1. ASSUME NEW S, S \subseteq Targets, NEW q \in Seq(S)
          PROVE  q \in Seq(Targets)
      <4>1. \A i \in 1 .. Len(q) : q[i] \in Targets
        BY <3>1
      <4> QED
        BY <4>1
    <3>2. <<u.arg>> \in Seq(Targets)
      BY <1>4
    <3> QED
      BY <1>4, <3>1, <3>2, ListingsAssumption, ServicesAssumption
  <2>3. Collects(u, l, n) \in Plain({})
    BY <1>2, <2>1, <2>2, CollectsPlain, Zenon
  <2> QED
    BY <1>7, <2>3, ButtonlessCases
<1>8. CASE todo' = <<Act(u.arg, OciAction[u.cmd], NoToken)>>
  <2>1. \E x : todo' = <<x>> /\ x.do = "act"
    BY <1>8 DEF Act
  <2> QED
    BY <2>1, ButtonlessCases
<1>9. ASSUME NEW t \in Tokens, todo' = Prompts(u, t),
             Create(t, u.user, [instance |-> u.arg, action |-> OciAction[u.cmd]])
      PROVE  \E y : /\ t \notin DOMAIN issued /\ y.do = "audit"
                    /\ todo' = <<Show(t, "prompt", "anyone"), y>>
  BY <1>9 DEF Create, Prompts, Ok, Audit
<1> QED
  BY <1>3, <1>5, <1>6, <1>7, <1>8, <1>9, Zenon

\* What a command's handler begins with, and the guard, shows none.
LEMMA CommandButtons ==
  ASSUME NEW u \in UpdateType
  PROVE  Buttonless(Command(u)) /\ Buttonless(Guard(u))
<1>1. 1 \in Nat /\ NoTarget \in Targets
  BY DEF Targets
<1>2. Succeeds(u, 1, NoTarget) \in Plain({}) /\ Fails(u) \in Plain({}) /\ Guard(u) \in Plain({})
  BY <1>1, ReportsPlain, Zenon
<1>3. Buttonless(<<Reply>>) /\ Buttonless(<<List>>)
  BY ButtonlessCases DEF Reply, List
<1> QED
  BY <1>2, <1>3, ButtonlessCases DEF Command

\* Another script follows a step that was at no token.
LEMMA ButtonsFollow ==
  ASSUME ButtonsInv, UNCHANGED <<shown, taken>>, \A t : ~Finishing(t),
         \/ Buttonless(todo')
         \/ todo # <<>> /\ Range(todo') \subseteq Range(todo)
  PROVE  ButtonsInv'
<1>1. Used' = Used
  BY DEF Used
<1>2. \A t \in Used' : shown'[t].text # "prompt"
  BY <1>1 DEF ButtonsInv
<1>3. \A x \in Range(todo') : x.do = "show" /\ x.text = "prompt" => x.token \notin Used'
  BY <1>1 DEF ButtonsInv, Buttonless
<1> QED
  BY <1>2, <1>3 DEF ButtonsInv

LEMMA TelegramButtons ==
  ASSUME "telegram" \notin Faults, BotInv, ButtonsInv, TelegramTakes \/ TelegramRaises
  PROVE  ButtonsInv'
<1>1. /\ todo # <<>> /\ taken' = taken /\ ScriptInv /\ DOMAIN shown = Tokens
      /\ DOMAIN issued \subseteq Tokens
  <2>1. taken' = taken
    BY DEF TelegramTakes, TelegramRaises, storeVars
  <2>2. DOMAIN issued \subseteq Tokens
    BY DEF BotInv, StoreInv, TypeOK
  <2> QED
    BY <2>1, <2>2, StepKeeps DEF BotInv, HistoryInv
<1>2. Used' = Used
  BY <1>1 DEF Used
<1>3. Range(todo') \subseteq Range(todo) \/ Buttonless(todo')
  <2>1. todo' = Tail(todo) \/ todo' = ErrorHandler
    BY DEF TelegramTakes, TelegramRaises, Continue, Raise
  <2> QED
    BY <1>1, <2>1, StepInRange, ButtonlessCases
<1>4. \A x \in Range(todo') : x.do = "show" /\ x.text = "prompt" => x.token \notin Used'
  BY <1>2, <1>3 DEF ButtonsInv, Buttonless
<1>5. PICK s : s = Step
  OBVIOUS
<1>6. s \in Range(todo) /\ Doing({"reply", "show", "answer"})
  BY <1>1, <1>5, StepInRange DEF TelegramTakes, TelegramRaises, Doing
<1>7. ASSUME NEW t \in Used
      PROVE  shown'[t].text # "prompt"
  <2>1. CASE TelegramTakes /\ s.do = "show" /\ s.token = t
    <3>1. s.token \in Tokens
      BY <1>1, <1>5, <2>1, AtPlainStep, PlainKinds DEF TelegramTakes, Doing
    <3>2. shown'[t].text = s.text
      BY <1>1, <1>5, <2>1, <3>1 DEF TelegramTakes, Delivered, Text
    <3> QED
      BY <1>6, <2>1, <3>2 DEF ButtonsInv
  <2>2. CASE ~(s.do = "show" /\ s.token = t)
    <3>1. ~Finishing(t)
      BY <1>5, <1>6, <2>2 DEF Finishing, Doing
    <3>2. shown'[t] = shown[t]
      <4>1. t \in Tokens
        BY UsedTokens DEF BotInv, StoreInv
      <4> QED
        BY <1>1, <1>5, <2>2, <4>1 DEF TelegramTakes, TelegramRaises, Delivered
    <3> QED
      BY <3>1, <3>2 DEF ButtonsInv
  <2>3. CASE TelegramRaises /\ s.do = "show" /\ s.token = t
    <3>1. Unmodified(s) /\ shown' = shown
      BY <1>5, <2>3 DEF TelegramRaises
    <3>2. shown[t].text = s.text
      BY <2>3, <3>1 DEF Unmodified, Text
    <3> QED
      BY <1>6, <2>3, <3>1, <3>2 DEF ButtonsInv
  <2> QED
    BY <2>1, <2>2, <2>3
<1> QED
  BY <1>2, <1>4, <1>7 DEF ButtonsInv

\* The click that uses a token up goes on to the end of its buttons.
LEMMA AnswerButtons ==
  ASSUME BotInv, ButtonsInv, AnswerReturns
  PROVE  ButtonsInv'
<1>1. PICK u : u = Current
  OBVIOUS
<1>2. /\ StoreInv /\ ScriptInv /\ QueueInv /\ Doing({"answer"}) /\ shown' = shown
      /\ todo # <<>>
  BY Zenon DEF BotInv, AnswerReturns, Miss, Hit, worldVars, Doing
<1>3. u \in UpdateType /\ u.cmd \in Presses
  BY <1>1, <1>2, CurrentTyped, AtAnswer
<1>4. \A t : ~Finishing(t)
  BY <1>2 DEF Finishing, Doing
<1>5. \/ todo' = ClickDenied(u) /\ taken' = taken
      \/ todo' = Misses(u) /\ taken' = taken
      \/ /\ TakeHit(u.token, u.user)
         /\ \E r : todo' = <<Act(r.instance, r.action, u.token)>> \/ todo' = Cancels(u, r)
  BY <1>1, <1>2, AnswerFollows
<1>6. CASE todo' = ClickDenied(u) /\ taken' = taken
  <2>1. \E x, y : todo' = <<x, y>> /\ x.text # "prompt" /\ y.do = "audit"
    BY <1>6 DEF ClickDenied, Show, Err, Audit
  <2>2. Buttonless(todo')
    BY <2>1, ButtonlessCases
  <2> QED
    BY <1>2, <1>4, <1>6, <2>2, ButtonsFollow
<1>7. CASE todo' = Misses(u) /\ taken' = taken
  <2>1. \/ \E x, y : todo' = <<x, y>> /\ x.text # "prompt" /\ y.do = "audit"
        \/ \E x : todo' = <<x>> /\ x.text # "prompt"
    BY <1>7 DEF Misses, Edits, Show, Err, Audit
  <2>2. Buttonless(todo')
    BY <2>1, ButtonlessCases
  <2> QED
    BY <1>2, <1>4, <1>7, <2>2, ButtonsFollow
<1>8. ASSUME TakeHit(u.token, u.user), NEW r,
             todo' = <<Act(r.instance, r.action, u.token)>> \/ todo' = Cancels(u, r)
      PROVE  ButtonsInv'
  <2>1. Used' = Used \cup {u.token}
    <3>1. u.token \in DOMAIN pending
      BY <1>8, SweptLemma DEF TakeHit, Takes
    <3>2. u.token \in Tokens /\ u.user \in Users
      BY <1>2, <1>3, <3>1 DEF StoreInv, TypeOK, UpdateType
    <3> QED
      BY <1>2, <1>8, <3>2, UsedAfterTakeHit
  <2>2. PICK x : /\ todo' # <<>> /\ Head(todo') = x /\ x.token = u.token
                 /\ x.do = "act" \/ (x.do = "show" /\ x.text # "prompt")
    BY <1>8 DEF Act, Cancels, Edits, Show
  <2>3. Finishing(u.token)'
    BY <2>2 DEF Finishing, Doing, Step
  <2>4. Buttonless(todo')
    <3>1. \/ \E y : todo' = <<y>> /\ y.do = "act"
          \/ \E y, z : todo' = <<y, z>> /\ y.text # "prompt" /\ z.do = "audit"
      BY <1>8 DEF Act, Cancels, Edits, Show, Ok, Audit
    <3> QED
      BY <3>1, ButtonlessCases
  <2>5. \A t \in Used : shown'[t].text # "prompt"
    BY <1>2, <1>4 DEF ButtonsInv
  <2>6. ASSUME NEW t \in Used', shown'[t].text = "prompt"
        PROVE  Finishing(t)'
    <3>1. t = u.token
      BY <2>1, <2>5, <2>6
    <3> QED
      BY <2>3, <3>1 DEF Finishing, Doing, Step
  <2> QED
    BY <2>4, <2>6 DEF ButtonsInv, Buttonless
<1> QED
  BY <1>5, <1>6, <1>7, <1>8

LEMMA ListButtonsInv ==
  ASSUME BotInv, ButtonsInv, ListReturns
  PROVE  ButtonsInv'
<1>1. QueueInv /\ StoreInv /\ Doing({"list"}) /\ shown' = shown
  BY Zenon DEF BotInv, ListReturns, worldVars
<1>2. taken' = taken
  <2>1. \/ UNCHANGED storeVars
        \/ \E t \in Tokens :
             Create(t, Current.user, [instance |-> Current.arg, action |-> OciAction[Current.cmd]])
    BY Zenon DEF ListReturns
  <2> QED
    BY <2>1 DEF storeVars, Create
<1>3. \A t : ~Finishing(t)
  BY <1>1 DEF Finishing, Doing
<1>4. CASE Buttonless(todo')
  BY <1>1, <1>2, <1>3, <1>4, ButtonsFollow
<1>5. ASSUME NEW t, NEW y, t \notin DOMAIN issued, y.do = "audit",
             todo' = <<Show(t, "prompt", "anyone"), y>>
      PROVE  ButtonsInv'
  <2>1. Used' = Used
    BY <1>2 DEF Used
  <2>2. Used \subseteq DOMAIN issued
    BY <1>1 DEF StoreInv, GoodTake, Used
  <2>3. PICK x : todo' = <<x, y>> /\ x.token = t
    BY <1>5 DEF Show
  <2>4. \A z \in Range(todo') : z.do = "show" /\ z.text = "prompt" => z.token \notin Used'
    BY <1>5, <2>1, <2>2, <2>3 DEF Range
  <2>5. \A v \in Used' : shown'[v].text # "prompt"
    BY <1>1, <1>3, <2>1 DEF ButtonsInv
  <2> QED
    BY <2>4, <2>5 DEF ButtonsInv
<1> QED
  BY <1>1, <1>4, <1>5, ListButtons

\* The action of a token ends with an edit of its message.
LEMMA ActButtons ==
  ASSUME BotInv, TruthInv, ButtonsInv, OciPerforms \/ ActReturns
  PROVE  ButtonsInv'
<1>1. PICK u, x : u = Current /\ x = Step
  OBVIOUS
<1>2. /\ Doing({"act", "performed"}) /\ x \in ActSteps /\ UNCHANGED <<shown, taken>>
      /\ todo = <<x>> /\ Justified(done + 1, x) /\ QueueInv /\ ScriptInv
  <2>1. Doing({"act", "performed"}) /\ UNCHANGED <<shown, taken>>
    BY DEF OciPerforms, ActReturns, Doing, storeVars, worldVars
  <2> QED
    BY <1>1, <2>1, AtAct DEF BotInv
<1>3. Used' = Used
  BY <1>2 DEF Used
<1>4. \A t \in Used : shown[t].text = "prompt" => x.token = t
  BY <1>1 DEF ButtonsInv, Finishing
<1>5. u \in UpdateType /\ u.cmd \in {"confirm", "start_instance"} /\ u = sent[done + 1]
  <2>1. todo # <<>> /\ done < fetched
    BY <1>2 DEF QueueInv
  <2> QED
    BY <1>1, <1>2, <2>1, CurrentTyped, WaitingTyped DEF TruthInv, ActInv
<1>6. u.cmd = "start_instance" => x.token = NoToken
  BY <1>2, <1>5 DEF Justified
<1>7. u.cmd = "confirm" => x.token = u.token
  BY <1>1, <1>2, <1>5 DEF TruthInv, ActInv
<1>8. x.token = NoToken => \A t \in Used : shown[t].text # "prompt"
  BY <1>4, UsedTokens DEF BotInv, StoreInv
<1>9. CASE OciPerforms
  <2>1. PICK y : /\ todo' = <<y>> /\ y.do = "performed" /\ y.token = x.token
    BY <1>1, <1>2, <1>9 DEF OciPerforms, Continue, Performed, ActSteps
  <2>2. Buttonless(todo')
    BY <2>1, ButtonlessCases
  <2>3. Head(todo') = y /\ todo' # <<>>
    BY <2>1
  <2>4. \A t \in Used' : shown'[t].text = "prompt" => Finishing(t)'
    BY <1>2, <1>3, <1>4, <2>1, <2>3 DEF Finishing, Doing, Step
  <2> QED
    BY <2>2, <2>4 DEF ButtonsInv, Buttonless
<1>10. CASE ActReturns
  <2>1. todo' = Accepted(u, x) \/ todo' = Refused(u, x)
    BY <1>1, <1>10 DEF ActReturns, Continue
  <2>2. PICK y, z : /\ todo' = <<y, z>> /\ z.do = "audit"
                    /\ \/ u.cmd = "start_instance" /\ y.do = "reply"
                       \/ /\ u.cmd = "confirm" /\ y.do = "show" /\ y.token = u.token
                          /\ y.text # "prompt"
    BY <1>5, <2>1 DEF Accepted, Refused, Reply, Edits, Show, Ok, Err, Audit
  <2>3. Buttonless(todo')
    BY <2>2, ButtonlessCases
  <2>4. Head(todo') = y /\ todo' # <<>>
    BY <2>2
  <2>5. \A t \in Used' : shown'[t].text = "prompt" => Finishing(t)'
    <3>1. CASE u.cmd = "start_instance"
      BY <1>2, <1>3, <1>6, <1>8, <3>1
    <3>2. CASE u.cmd = "confirm"
      BY <1>2, <1>3, <1>4, <1>7, <2>2, <2>4, <3>2 DEF Finishing, Doing, Step
    <3> QED
      BY <1>5, <3>1, <3>2
  <2> QED
    BY <2>3, <2>5 DEF ButtonsInv, Buttonless
<1> QED
  BY <1>9, <1>10

LEMMA NextButtons ==
  ASSUME Faults \subseteq {"disk"}, MaxEpoch = 0, BotInv, TruthInv, OnceInv, ButtonsInv,
         [BotNext]_botVars
  PROVE  ButtonsInv'
<1>0. QueueInv /\ ScriptInv
  BY DEF BotInv
<1>1. CASE TelegramTakes \/ TelegramRaises
  BY <1>1, TelegramButtons
<1>2. CASE AuditWrites \/ AuditRaises \/ ItemReturns
  <2>1. /\ UNCHANGED <<shown, taken>> /\ todo # <<>>
        /\ Doing({"audit", "item"})
    BY <1>2 DEF AuditWrites, AuditRaises, ItemReturns, storeVars, worldVars, Doing
  <2>2. \A t : ~Finishing(t)
    BY <2>1 DEF Finishing, Doing
  <2>3. Range(Tail(todo)) \subseteq Range(todo)
    BY <1>0, <2>1, StepInRange
  <2>4. CASE AuditWrites \/ AuditRaises
    <3>1. todo' = Tail(todo) \/ todo' = ErrorHandler
      BY <2>4 DEF AuditWrites, AuditRaises, Continue, Raise
    <3> QED
      BY <2>1, <2>2, <2>3, <3>1, ButtonlessCases, ButtonsFollow
  <2>5. CASE ItemReturns
    <3>1. \A x \in Range(todo') : x.do # "audit" => x \in Range(Tail(todo))
      BY <2>5, ItemFollows DEF OnceInv
    <3>2. Used' = Used
      BY <2>1 DEF Used
    <3>3. \A x \in Range(todo') : x.do = "show" /\ x.text = "prompt" => x.token \notin Used'
      BY <2>3, <3>1, <3>2 DEF ButtonsInv
    <3>4. \A t \in Used' : shown'[t].text # "prompt"
      BY <2>1, <2>2, <3>2 DEF ButtonsInv
    <3> QED
      BY <3>3, <3>4 DEF ButtonsInv
  <2> QED
    BY <1>2, <2>4, <2>5
<1>3. CASE AnswerReturns \/ ListReturns
  BY <1>3, AnswerButtons, ListButtonsInv
<1>4. CASE OciPerforms \/ ActReturns
  BY <1>4, ActButtons
<1>5. ~OciRaises /\ ~Crash /\ ~Start
  BY OneLife DEF OciRaises, BotInv, StoreInv
<1>6. CASE Dispatch \/ GuardEnds \/ HandlerEnds
  <2>1. UNCHANGED <<shown, taken>> /\ todo = <<>>
    BY <1>0, <1>6 DEF Dispatch, GuardEnds, HandlerEnds, storeVars, worldVars, QueueInv
  <2>2. \A t : ~Finishing(t)
    BY <2>1 DEF Finishing, Doing
  <2>3. Buttonless(todo')
    <3>1. CASE HandlerEnds
      BY <2>1, <3>1, ButtonlessCases DEF HandlerEnds
    <3>2. CASE Dispatch \/ GuardEnds
      <4>1. PICK u : u = Current
        OBVIOUS
      <4>2. u \in UpdateType
        BY <1>0, <3>2, <4>1, WaitingTyped DEF Dispatch, GuardEnds, QueueInv
      <4>3. Buttonless(<<Answer>>)
        BY ButtonlessCases DEF Answer
      <4>4. todo' \in {<<Answer>>, Guard(u), Command(u), todo}
        BY <3>2, <4>1 DEF Dispatch, GuardEnds
      <4> QED
        BY <2>1, <4>2, <4>3, <4>4, CommandButtons, ButtonlessCases
    <3> QED
      BY <1>6, <3>1, <3>2
  <2> QED
    BY <2>1, <2>2, <2>3, ButtonsFollow
<1>7. CASE \/ \E u \in Users : UserSends(u)
           \/ Poll \/ Signal \/ Stopped \/ TimePasses \/ UNCHANGED botVars
  <2>1. UNCHANGED <<todo, shown, taken>>
    BY <1>7 DEF UserSends, Poll, Signal, Stopped, TimePasses, Tick, botVars, storeVars,
                handlerVars, worldVars
  <2> QED
    BY <2>1 DEF ButtonsInv, Finishing, Doing, Step, Used
<1> QED
  BY <1>1, <1>2, <1>3, <1>4, <1>5, <1>6, <1>7 DEF BotNext, Handling

\* In one life of the process, where Telegram delivers and OCI's client raises
\* nothing unexpected, a message loses its buttons by the end of the handler of the
\* click that used its token, whatever OCI answers and whether or not the log could
\* be written (operations.py:197, 223, 234).
THEOREM BotNoStaleButtons ==
  Faults \subseteq {"disk"} /\ MaxEpoch = 0 => (BotSpec => []NoStaleButtons)
<1> SUFFICES ASSUME Faults \subseteq {"disk"}, MaxEpoch = 0
             PROVE  BotSpec => []NoStaleButtons
  OBVIOUS
<1>1. BotInit => ButtonsInv
  <2>1. BotInit => todo = <<>> /\ taken = <<>>
    BY Zenon DEF BotInit, StoreInit
  <2>2. Range(<<>>) = {}
    BY DEF Range
  <2> QED
    BY <2>1, <2>2 DEF ButtonsInv, Used
<1>2. BotInv /\ TruthInv /\ OnceInv /\ ButtonsInv /\ [BotNext]_botVars => ButtonsInv'
  BY NextButtons
<1>3. BotInv /\ ButtonsInv => NoStaleButtons
  BY DEF BotInv, QueueInv, ButtonsInv, Finishing, Doing, NoStaleButtons
<1> QED
  BY <1>1, <1>2, <1>3, BotInvHolds, TruthInvHolds, OnceInvHolds, PTL DEF BotSpec
=============================================================================
