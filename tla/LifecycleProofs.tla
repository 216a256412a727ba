-------------------------- MODULE LifecycleProofs --------------------------
(***************************************************************************)
(* Proofs about Lifecycle, for any configurations, faults and number of    *)
(* updates and starts.                                                     *)
(***************************************************************************)
EXTENDS Lifecycle, TLAPS

-----------------------------------------------------------------------------
(* The order of the steps *)

Booting == {"load", "audit", "oci", "store", "setup", "signals"}
Launching == Booting \cup {"initialize", "start", "start_polling"}
Polled == {"site", "wait", "updater.stop"}
Stopping == {"updater.stop", "app.stop", "app.shutdown", "cleanup"}
AllSteps == Launching \cup Polled \cup Stopping \cup {"exited"}

LEMMA StepsDiffer ==
  /\ DOMAIN Steps = 1 .. 16
  /\ \A j, k \in 1 .. 16 : Steps[j] = Steps[k] => j = k
BY DEF Steps

LEMMA AfterStep == ASSUME NEW j \in 1 .. 16 PROVE After(Steps[j]) = Steps[1 + j]
<1>1. (CHOOSE k \in DOMAIN Steps : Steps[k] = Steps[j]) = j
  BY StepsDiffer
<1> QED BY <1>1 DEF After

LEMMA Order ==
  /\ After("load") = "audit" /\ After("audit") = "oci" /\ After("oci") = "store"
  /\ After("store") = "setup" /\ After("setup") = "signals" /\ After("signals") = "initialize"
  /\ After("initialize") = "start" /\ After("start") = "start_polling"
  /\ After("start_polling") = "site" /\ After("site") = "wait" /\ After("wait") = "updater.stop"
  /\ After("updater.stop") = "app.stop" /\ After("app.stop") = "app.shutdown"
  /\ After("app.shutdown") = "cleanup"
<1>1. \A j \in 1 .. 16 : After(Steps[j]) = Steps[1 + j]
  BY AfterStep
<1>2. /\ Steps[1] = "load" /\ Steps[2] = "audit" /\ Steps[3] = "oci" /\ Steps[4] = "store"
      /\ Steps[5] = "setup" /\ Steps[6] = "signals" /\ Steps[7] = "initialize"
      /\ Steps[8] = "start" /\ Steps[9] = "start_polling" /\ Steps[10] = "site"
      /\ Steps[11] = "wait" /\ Steps[12] = "updater.stop" /\ Steps[13] = "app.stop"
      /\ Steps[14] = "app.shutdown" /\ Steps[15] = "cleanup"
  BY DEF Steps
<1> QED BY <1>1, <1>2

LEMMA StepNames ==
  /\ {Steps[k] : k \in DOMAIN Steps} = AllSteps
  /\ {Steps[k] : k \in 1 .. 6} = Booting
  /\ "hanging" \notin AllSteps
<1>1. \A x : x \in {Steps[k] : k \in 1 .. 6} <=> x \in Booting
  BY DEF Steps, Booting
<1>2. \A x : x \in {Steps[k] : k \in 1 .. 16} <=> x \in AllSteps
  BY DEF Steps, Booting, Launching, Polled, Stopping, AllSteps
<1>3. "hanging" \notin AllSteps
  BY DEF Booting, Launching, Polled, Stopping, AllSteps
<1> QED BY <1>1, <1>2, <1>3, StepsDiffer

-----------------------------------------------------------------------------
(* What is true of the process at each step *)

\* What load and the constructors let through.
Accepted(c) == Load(c) = "ok" /\ AuditDirectory(c) /\ SdkConfig(c) /\ PositiveTTL(c)

\* What has been looked at so far; and what runs was looked at.
CheckedInv ==
  /\ pc \notin {"load", "exited"} => Load(config) = "ok"
  /\ pc \notin {"load", "exited", "audit"} => AuditDirectory(config)
  /\ pc \notin {"load", "exited", "audit", "oci"} => SdkConfig(config)
  /\ pc \notin {"load", "exited", "audit", "oci", "store"} => PositiveTTL(config)
  /\ app # "none" \/ polling # "off" \/ http = "serving" => Accepted(config)

\* How far polling, the server and the signal are at each step.
StageInv ==
  /\ pc \in Launching => polling = "off" /\ ~busy
  /\ pc \in Polled => polling # "off"
  /\ pc \in {"app.stop", "app.shutdown", "cleanup"} => polling = "off"
  /\ pc \in {"app.shutdown", "cleanup"} => done = fetched /\ ~busy
  /\ pc = "cleanup" => app = "shut down"
  /\ http = "serving" => pc \in Stopping \cup {"wait", "exited", "hanging"}
  /\ pc = "hanging" => polling # "on"
  /\ pc = "hanging" /\ polling = "off" => ~busy /\ http # "serving"
  /\ pc \in Stopping => stop
  /\ code # "none" => pc = "exited"

LifeInv == LifecycleTypeOK /\ CheckedInv /\ StageInv /\ OrderlyExit

LEMMA LifeInvInit == ASSUME LifecycleInit PROVE LifeInv
<1>1. config \in Configuration /\ 1 \in 1 .. MaxStarts
  BY ConfigurationsAssumption, BoundsAssumption DEF LifecycleInit
<1>2. pc \in {Steps[k] : k \in DOMAIN Steps}
  <2>1. pc \in AllSteps
    BY DEF LifecycleInit, AllSteps, Launching, Booting
  <2> QED BY <2>1, StepNames, Zenon
<1>3. LifecycleTypeOK
  <2>1. /\ app \in {"none", "initialized", "running", "stopped", "shut down"}
        /\ polling \in {"off", "on", "dead"} /\ http \in {"down", "ready", "serving"}
        /\ code \in {"none", "0", "1", "2", "killed"}
    BY DEF LifecycleInit
  <2>3. stop \in BOOLEAN /\ busy \in BOOLEAN /\ (busy => done < fetched)
    BY Zenon DEF LifecycleInit
  <2>4. sent \in Nat /\ acked \in 0 .. fetched /\ fetched \in 0 .. sent /\ done \in 0 .. fetched
    BY DEF LifecycleInit
  <2>2. starts \in 1 .. MaxStarts
    BY <1>1, Zenon DEF LifecycleInit
  <2> QED BY <1>1, <1>2, <2>1, <2>2, <2>3, <2>4, Zenon DEF LifecycleTypeOK
<1>4. CheckedInv /\ StageInv /\ OrderlyExit
  BY DEF LifecycleInit, CheckedInv, StageInv, OrderlyExit, Booting, Launching, Polled, Stopping
<1> QED BY <1>3, <1>4 DEF LifeInv

\* A process that ends keeps what it has.
LEMMA ExitKeeps == ASSUME LifeInv, NEW how \in {"1", "2", "killed"}, Exit(how) PROVE LifeInv'
<1>1. LifecycleTypeOK'
  BY StepNames DEF Exit, LifeInv, LifecycleTypeOK, tasks, queue, AllSteps
<1>2. CheckedInv' /\ StageInv' /\ OrderlyExit'
  BY DEF Exit, LifeInv, CheckedInv, StageInv, OrderlyExit, Accepted, tasks, queue,
         Booting, Launching, Polled, Stopping
<1> QED BY <1>1, <1>2 DEF LifeInv

\* So does one that hangs, but for the polling.
LEMMA HangKeeps ==
  ASSUME LifeInv, pc \in {"start_polling", "site", "updater.stop"}, Hang
  PROVE  LifeInv'
<1>1. LifecycleTypeOK'
  <2>1. /\ pc' = "hanging" /\ polling' \in {"off", "on", "dead"}
        /\ config' = config /\ app' = app /\ http' = http /\ stop' = stop /\ busy' = busy
        /\ sent' = sent /\ acked' = acked /\ fetched' = fetched /\ done' = done
        /\ code' = code /\ starts' = starts
    BY DEF Hang, queue
  <2> QED BY <2>1, Zenon DEF LifeInv, LifecycleTypeOK
<1>2. CheckedInv' /\ StageInv' /\ OrderlyExit'
  BY DEF Hang, LifeInv, CheckedInv, StageInv, OrderlyExit, Accepted, queue,
         Booting, Launching, Polled, Stopping
<1> QED BY <1>1, <1>2 DEF LifeInv

LEMMA BootKeeps ==
  ASSUME LifeInv,
         \/ LoadConfig
         \/ Construct("audit", AuditDirectory(config))
         \/ Construct("oci", SdkConfig(config))
         \/ Construct("store", PositiveTTL(config))
  PROVE  LifeInv'
<1>1. CASE \E how \in {"1", "2", "killed"} : Exit(how)
  BY <1>1, ExitKeeps
<1>2. CASE /\ UNCHANGED <<config, code, starts, tasks, stop, busy, queue>>
           /\ \/ pc = "load" /\ pc' = "audit" /\ Load(config) = "ok"
              \/ pc = "audit" /\ pc' = "oci" /\ AuditDirectory(config)
              \/ pc = "oci" /\ pc' = "store" /\ SdkConfig(config)
              \/ pc = "store" /\ pc' = "setup" /\ PositiveTTL(config)
  <2>1. LifecycleTypeOK'
    <3>1. pc' \in {Steps[k] : k \in DOMAIN Steps}
      <4>1. pc' \in AllSteps
        BY <1>2 DEF AllSteps, Launching, Booting
      <4> QED BY <4>1, StepNames, Zenon
    <3>2. /\ config' = config /\ app' = app /\ http' = http /\ stop' = stop /\ busy' = busy
          /\ sent' = sent /\ acked' = acked /\ fetched' = fetched /\ done' = done
          /\ code' = code /\ starts' = starts /\ polling' = polling
      BY <1>2 DEF tasks, queue
    <3> QED BY <3>1, <3>2, Zenon DEF LifeInv, LifecycleTypeOK
  <2>2. CheckedInv'
    BY <1>2 DEF LifeInv, CheckedInv, Accepted, tasks, queue
  <2>3. StageInv' /\ OrderlyExit'
    BY <1>2 DEF LifeInv, StageInv, OrderlyExit, tasks, queue, Booting, Launching, Polled, Stopping
  <2> QED BY <2>1, <2>2, <2>3 DEF LifeInv
<1> QED BY <1>1, <1>2, Order DEF LoadConfig, Construct, Proceed

LEMMA StartKeeps ==
  ASSUME LifeInv,
         Setup \/ InstallSignalHandlers \/ Initialize \/ StartApplication \/ StartPolling \/ StartSite
  PROVE  LifeInv'
<1>1. CASE Exit("1") \/ (pc \in {"start_polling", "site"} /\ Hang)
  BY <1>1, ExitKeeps, HangKeeps
<1>2. CASE /\ UNCHANGED <<config, code, starts, stop, busy, sent>>
           /\ \/ /\ pc = "setup" /\ pc' = "signals" /\ http' = "ready"
                 /\ UNCHANGED <<app, polling, acked, fetched, done>>
              \/ /\ pc = "signals" /\ pc' = "initialize"
                 /\ UNCHANGED <<tasks, acked, fetched, done>>
              \/ /\ pc = "initialize" /\ pc' = "start" /\ app' = "initialized"
                 /\ UNCHANGED <<http, polling, acked, fetched, done>>
              \/ /\ pc = "start" /\ pc' = "start_polling" /\ app' = "running"
                 /\ UNCHANGED <<http, polling, acked, fetched, done>>
              \/ /\ pc = "start_polling" /\ pc' = "site" /\ polling' = "on"
                 /\ acked' = sent /\ fetched' = sent /\ done' = sent
                 /\ UNCHANGED <<app, http>>
              \/ /\ pc = "site" /\ pc' = "wait" /\ http' = "serving"
                 /\ UNCHANGED <<app, polling, acked, fetched, done>>
  <2>1. LifecycleTypeOK'
    <3>1. pc' \in {Steps[k] : k \in DOMAIN Steps}
      <4>1. pc' \in AllSteps
        BY <1>2 DEF AllSteps, Launching, Booting, Polled, Stopping
      <4> QED BY <4>1, StepNames, Zenon
    <3>2. /\ sent' \in Nat /\ acked' \in 0 .. fetched' /\ fetched' \in 0 .. sent'
          /\ done' \in 0 .. fetched' /\ (busy' => done' < fetched')
      <4>1. /\ sent \in Nat /\ acked \in 0 .. fetched /\ fetched \in 0 .. sent
            /\ done \in 0 .. fetched /\ (busy => done < fetched)
        BY Zenon DEF LifeInv, LifecycleTypeOK
      <4>2. pc = "start_polling" => ~busy
        BY DEF LifeInv, StageInv, Launching
      <4> QED BY <1>2, <4>1, <4>2 DEF tasks
    <3>3. /\ config' = config /\ starts' = starts /\ stop' = stop /\ busy' = busy
          /\ app' \in {"none", "initialized", "running", "stopped", "shut down"}
          /\ polling' \in {"off", "on", "dead"} /\ http' \in {"down", "ready", "serving"}
          /\ code' \in {"none", "0", "1", "2", "killed"}
      BY <1>2 DEF LifeInv, LifecycleTypeOK, tasks
    <3>4. config \in Configuration /\ starts \in 1 .. MaxStarts /\ stop \in BOOLEAN /\ busy \in BOOLEAN
      BY Zenon DEF LifeInv, LifecycleTypeOK
    <3> QED BY <3>1, <3>2, <3>3, <3>4, Zenon DEF LifecycleTypeOK
  <2>2. CheckedInv'
    BY <1>2 DEF LifeInv, CheckedInv, Accepted, tasks
  <2>3. StageInv' /\ OrderlyExit'
    BY <1>2 DEF LifeInv, StageInv, OrderlyExit, tasks, Booting, Launching, Polled, Stopping
  <2> QED BY <2>1, <2>2, <2>3 DEF LifeInv
<1> QED BY <1>1, <1>2, Order
    DEF Setup, InstallSignalHandlers, Initialize, StartApplication, StartPolling, StartSite,
        Proceed, tasks, queue

LEMMA StopKeeps ==
  ASSUME LifeInv, StopWait \/ StopUpdater \/ StopApplication \/ ShutdownApplication \/ Cleanup
  PROVE  LifeInv'
<1>1. CASE pc = "updater.stop" /\ Hang
  BY <1>1, HangKeeps
<1>2. CASE /\ UNCHANGED <<config, starts, stop, busy, sent, fetched, done>>
           /\ \/ /\ stop /\ pc = "wait" /\ pc' = "updater.stop"
                 /\ UNCHANGED <<tasks, acked, code>>
              \/ /\ pc = "updater.stop" /\ pc' = "app.stop" /\ polling' = "off"
                 /\ acked' \in {acked, fetched}
                 /\ UNCHANGED <<app, http, code>>
              \/ /\ pc = "app.stop" /\ pc' = "app.shutdown" /\ app' = "stopped"
                 /\ done = fetched /\ ~busy
                 /\ UNCHANGED <<polling, http, acked, code>>
              \/ /\ pc = "app.shutdown" /\ pc' = "cleanup" /\ app' = "shut down"
                 /\ UNCHANGED <<polling, http, acked, code>>
              \/ /\ pc = "cleanup" /\ pc' = "exited" /\ http' = "down" /\ code' = "0"
                 /\ UNCHANGED <<app, polling, acked>>
  <2>1. LifecycleTypeOK'
    <3>1. pc' \in {Steps[k] : k \in DOMAIN Steps}
      <4>1. pc' \in AllSteps
        BY <1>2 DEF AllSteps, Launching, Booting, Polled, Stopping
      <4> QED BY <4>1, StepNames, Zenon
    <3>2. /\ sent' \in Nat /\ acked' \in 0 .. fetched' /\ fetched' \in 0 .. sent'
          /\ done' \in 0 .. fetched' /\ (busy' => done' < fetched')
      <4>1. /\ sent \in Nat /\ acked \in 0 .. fetched /\ fetched \in 0 .. sent
            /\ done \in 0 .. fetched /\ (busy => done < fetched)
        BY Zenon DEF LifeInv, LifecycleTypeOK
      <4>2. acked' \in {acked, fetched}
        BY <1>2
      <4>3. sent' = sent /\ fetched' = fetched /\ done' = done /\ busy' = busy
        BY <1>2
      <4>4. acked' \in 0 .. fetched
        BY <4>1, <4>2
      <4> QED BY <4>1, <4>3, <4>4
    <3>3. /\ config' = config /\ starts' = starts /\ stop' = stop /\ busy' = busy
          /\ app' \in {"none", "initialized", "running", "stopped", "shut down"}
          /\ polling' \in {"off", "on", "dead"} /\ http' \in {"down", "ready", "serving"}
          /\ code' \in {"none", "0", "1", "2", "killed"}
      BY <1>2 DEF LifeInv, LifecycleTypeOK, tasks
    <3>4. config \in Configuration /\ starts \in 1 .. MaxStarts /\ stop \in BOOLEAN /\ busy \in BOOLEAN
      BY Zenon DEF LifeInv, LifecycleTypeOK
    <3> QED BY <3>1, <3>2, <3>3, <3>4, Zenon DEF LifecycleTypeOK
  <2>2. CheckedInv'
    BY <1>2 DEF LifeInv, CheckedInv, Accepted, tasks
  <2>3. StageInv' /\ OrderlyExit'
    BY <1>2 DEF LifeInv, StageInv, OrderlyExit, tasks, Booting, Launching, Polled, Stopping
  <2> QED BY <2>1, <2>2, <2>3 DEF LifeInv
<1> QED BY <1>1, <1>2, Order
    DEF StopWait, StopUpdater, StopApplication, ShutdownApplication, Cleanup, Proceed, tasks, queue

LEMMA Phases ==
  /\ Phase \in {"running", "stopping", "down"}
  /\ Phase = "running" <=> pc \notin {"exited", "app.stop", "hanging"} /\ polling # "off"
  /\ Phase = "stopping" <=> pc = "app.stop" \/ (pc = "hanging" /\ polling # "off")
BY DEF Phase

\* Beside _run.
LEMMA TasksKeep ==
  ASSUME LifeInv, UserSends \/ Poll \/ TokenRevoked \/ HandlerBegins \/ HandlerEnds \/ Signal
  PROVE  LifeInv'
<1>1. CASE Exit("killed")
  BY <1>1, ExitKeeps
<1>2. CASE /\ UNCHANGED <<config, pc, app, http, code, starts>>
           /\ \/ sent' = sent + 1 /\ UNCHANGED <<polling, stop, busy, acked, fetched, done>>
              \/ /\ pc # "exited" /\ polling = "on" /\ acked' = fetched /\ fetched' = sent
                 /\ UNCHANGED <<polling, stop, busy, sent, done>>
              \/ /\ pc # "exited" /\ polling = "on" /\ polling' = "dead"
                 /\ UNCHANGED <<stop, busy, queue>>
              \/ /\ Phase # "down" /\ done < fetched /\ busy' = TRUE
                 /\ UNCHANGED <<polling, stop, queue>>
              \/ /\ pc # "exited" /\ busy /\ busy' = FALSE /\ done' = done + 1
                 /\ UNCHANGED <<polling, stop, sent, acked, fetched>>
              \/ stop' = TRUE /\ pc # "exited" /\ UNCHANGED <<polling, busy, queue>>
  <2>1. LifecycleTypeOK'
    <3>1. pc' \in {Steps[k] : k \in DOMAIN Steps} \cup {"hanging"}
      BY <1>2, Zenon DEF LifeInv, LifecycleTypeOK
    <3>2. /\ sent' \in Nat /\ acked' \in 0 .. fetched' /\ fetched' \in 0 .. sent'
          /\ done' \in 0 .. fetched' /\ (busy' => done' < fetched')
      <4>1. /\ sent \in Nat /\ acked \in 0 .. fetched /\ fetched \in 0 .. sent
            /\ done \in 0 .. fetched /\ (busy => done < fetched)
        BY Zenon DEF LifeInv, LifecycleTypeOK
      <4> QED BY <1>2, <4>1 DEF queue
    <3>3. /\ config' = config /\ starts' = starts /\ app' = app /\ http' = http /\ code' = code
          /\ polling' \in {"off", "on", "dead"} /\ stop' \in BOOLEAN /\ busy' \in BOOLEAN
      BY <1>2, Zenon DEF LifeInv, LifecycleTypeOK
    <3>4. /\ config \in Configuration /\ starts \in 1 .. MaxStarts
          /\ app \in {"none", "initialized", "running", "stopped", "shut down"}
          /\ http \in {"down", "ready", "serving"} /\ code \in {"none", "0", "1", "2", "killed"}
      BY Zenon DEF LifeInv, LifecycleTypeOK
    <3> QED BY <3>1, <3>2, <3>3, <3>4, Zenon DEF LifecycleTypeOK
  <2>2. CheckedInv'
    BY <1>2 DEF LifeInv, CheckedInv, Accepted, queue
  <2>3. StageInv'
    <3> DEFINE Quiet == \/ pc \in Launching \cup {"app.shutdown", "cleanup"}
                        \/ pc = "hanging" /\ polling = "off"
    <3>1. Quiet => ~busy' /\ fetched' = fetched /\ done' = done
      <4>1. Quiet => polling = "off" /\ ~busy
        BY DEF LifeInv, StageInv
      <4>2. Quiet /\ polling = "off" => Phase = "down"
        BY Phases DEF Launching, Booting
      <4> QED BY <1>2, <4>1, <4>2 DEF queue
    <3>2. polling' = "off" <=> polling = "off"
      BY <1>2
    <3>3. (stop => stop') /\ (polling' = "on" => polling = "on")
      BY <1>2
    <3> QED BY <1>2, <3>1, <3>2, <3>3 DEF LifeInv, StageInv
  <2>4. OrderlyExit'
    BY <1>2, Phases DEF LifeInv, StageInv, OrderlyExit, queue
  <2> QED BY <2>1, <2>2, <2>3, <2>4 DEF LifeInv
<1> QED BY <1>1, <1>2
    DEF UserSends, Poll, TokenRevoked, HandlerBegins, HandlerEnds, Signal, tasks, queue

LEMMA RestartKeeps == ASSUME LifeInv, Restart PROVE LifeInv'
<1>1. LifecycleTypeOK'
  <2>1. pc' \in {Steps[k] : k \in DOMAIN Steps}
    <3>1. pc' \in AllSteps
      BY DEF Restart, AllSteps, Launching, Booting
    <3> QED BY <3>1, StepNames, Zenon
  <2>2. starts' \in 1 .. MaxStarts
    <3>1. starts \in 1 .. MaxStarts
      BY Zenon DEF LifeInv, LifecycleTypeOK
    <3> QED BY <3>1, BoundsAssumption DEF Restart
  <2>3. /\ app' \in {"none", "initialized", "running", "stopped", "shut down"}
        /\ polling' \in {"off", "on", "dead"} /\ http' \in {"down", "ready", "serving"}
        /\ code' \in {"none", "0", "1", "2", "killed"}
    BY DEF Restart
  <2>4. /\ config' \in Configuration /\ stop' \in BOOLEAN /\ busy' \in BOOLEAN
        /\ sent' \in Nat /\ acked' \in 0 .. fetched' /\ fetched' \in 0 .. sent'
        /\ done' \in 0 .. fetched' /\ (busy' => done' < fetched')
    BY Zenon DEF Restart, queue, LifeInv, LifecycleTypeOK
  <2> QED BY <2>1, <2>2, <2>3, <2>4, Zenon DEF LifecycleTypeOK
<1>2. CheckedInv' /\ StageInv' /\ OrderlyExit'
  BY DEF Restart, LifeInv, CheckedInv, StageInv, OrderlyExit,
         Booting, Launching, Polled, Stopping
<1> QED BY <1>1, <1>2 DEF LifeInv

LEMMA LifeInvNext == ASSUME LifeInv, [LifecycleNext]_lifecycleVars PROVE LifeInv'
<1>1. CASE Run
  BY <1>1, BootKeeps, StartKeeps, StopKeeps DEF Run
<1>2. CASE UserSends \/ Poll \/ TokenRevoked \/ HandlerBegins \/ HandlerEnds \/ Signal
  BY <1>2, TasksKeep
<1>3. CASE Kill
  BY <1>3, ExitKeeps DEF Kill
<1>4. CASE Restart
  BY <1>4, RestartKeeps
<1>5. CASE UNCHANGED lifecycleVars
  <2>1. /\ config' = config /\ pc' = pc /\ app' = app /\ polling' = polling /\ http' = http
        /\ stop' = stop /\ busy' = busy /\ sent' = sent /\ acked' = acked /\ fetched' = fetched
        /\ done' = done /\ code' = code /\ starts' = starts
    BY <1>5 DEF lifecycleVars, tasks, queue
  <2>2. LifecycleTypeOK'
    BY <2>1, Zenon DEF LifeInv, LifecycleTypeOK
  <2>3. CheckedInv' /\ StageInv' /\ OrderlyExit'
    BY <2>1 DEF LifeInv, CheckedInv, StageInv, OrderlyExit, Accepted
  <2> QED BY <2>2, <2>3 DEF LifeInv
<1> QED BY <1>1, <1>2, <1>3, <1>4, <1>5 DEF LifecycleNext

LEMMA LifeAlways == LifecycleSpec => []LifeInv
BY LifeInvInit, LifeInvNext, PTL DEF LifecycleSpec

-----------------------------------------------------------------------------
(* What load lets through *)

LEMMA SomeLeast ==
  ASSUME NEW S \in SUBSET (1 .. 15), S # {}
  PROVE  Min(S) \in S
<1>1. ASSUME \A x \in S : \E y \in S : y < x PROVE FALSE
  <2>1. 1 \notin S /\ 2 \notin S /\ 3 \notin S
    BY <1>1
  <2>2. 4 \notin S /\ 5 \notin S /\ 6 \notin S
    BY <1>1, <2>1
  <2>3. 7 \notin S /\ 8 \notin S /\ 9 \notin S
    BY <1>1, <2>1, <2>2
  <2>4. 10 \notin S /\ 11 \notin S /\ 12 \notin S
    BY <1>1, <2>1, <2>2, <2>3
  <2>5. 13 \notin S /\ 14 \notin S /\ 15 \notin S
    BY <1>1, <2>1, <2>2, <2>3, <2>4
  <2>6. PICK x \in S : x \in 1 .. 15
    OBVIOUS
  <2> QED BY <2>1, <2>2, <2>3, <2>4, <2>5, <2>6
<1>2. \E x \in S : \A y \in S : x =< y
  BY <1>1
<1> QED BY <1>2 DEF Min

\* The first check that fails decides, and it does not say "ok".
LEMMA LoadChecksAll ==
  ASSUME NEW c, Load(c) = "ok"
  PROVE  \A k \in 1 .. 15 : ~Checks(c)[k].bad
<1> DEFINE failing == {k \in DOMAIN Checks(c) : Checks(c)[k].bad}
<1>1. DOMAIN Checks(c) = 1 .. 15
  BY DEF Checks
<1>2. \A k \in 1 .. 15 : Checks(c)[k].raises # "ok"
  BY DEF Checks, Failing, ParseProfiles, KeyFiles, EachProfile
<1>3. failing = {}
  <2>1. failing \in SUBSET (1 .. 15)
    BY <1>1
  <2>2. CASE failing # {}
    <3>1. Min(failing) \in 1 .. 15
      BY <2>1, <2>2, SomeLeast
    <3>2. Load(c) = Checks(c)[Min(failing)].raises
      BY <2>2 DEF Load
    <3> QED BY <3>1, <3>2, <1>2
  <2> QED BY <2>2
<1> QED BY <1>1, <1>3

LEMMA AcceptedChecked ==
  ASSUME NEW c \in Configuration, Accepted(c)
  PROVE  Checked(c)
<1>1. \A k \in 1 .. 15 : ~Checks(c)[k].bad
  BY LoadChecksAll DEF Accepted
<1>2. /\ c.file \notin {"absent", "unreadable", "bad_yaml", "no_mapping"}
      /\ c.port # "word" /\ c.telegram \notin {"absent", "null"}
      /\ c.bot_token = "text" /\ c.allowed_user_ids # "other"
      /\ c.oci \notin {"absent", "null"}
      /\ c.default_profile \notin {"absent", "unlisted"} /\ c.profiles # <<>>
  <2>1. ASSUME NEW bad, NEW raises, ~Failing(bad, raises).bad PROVE ~bad
    BY <2>1, Zenon DEF Failing
  <2>2. /\ ~Failing(c.file = "absent", "ConfigError").bad
        /\ ~Failing(c.file = "unreadable", "OSError").bad
        /\ ~Failing(c.file \in {"bad_yaml", "no_mapping"}, "ConfigError").bad
        /\ ~Failing(c.port = "word", "ValueError").bad
        /\ ~Failing(c.telegram = "absent", "ConfigError").bad
        /\ ~Failing(c.telegram = "null", "TypeError").bad
    BY <1>1 DEF Checks
  <2>3. /\ ~Failing(c.bot_token # "text", "ConfigError").bad
        /\ ~Failing(c.allowed_user_ids = "other", "ConfigError").bad
        /\ ~Failing(c.oci = "absent", "ConfigError").bad
        /\ ~Failing(c.oci = "null", "TypeError").bad
        /\ ~Failing(c.default_profile = "absent" \/ c.profiles = <<>>, "ConfigError").bad
        /\ ~Failing(c.default_profile = "unlisted", "ConfigError").bad
    BY <1>1 DEF Checks
  <2>4. /\ ~(c.file = "absent") /\ ~(c.file = "unreadable")
        /\ ~(c.file \in {"bad_yaml", "no_mapping"}) /\ ~(c.port = "word")
        /\ ~(c.telegram = "absent") /\ ~(c.telegram = "null")
    BY <2>1, <2>2, Zenon
  <2>5. /\ ~(c.bot_token # "text") /\ ~(c.allowed_user_ids = "other")
        /\ ~(c.oci = "absent") /\ ~(c.oci = "null")
        /\ ~(c.default_profile = "absent" \/ c.profiles = <<>>)
        /\ ~(c.default_profile = "unlisted")
    BY <2>1, <2>3, Zenon
  <2> QED BY <2>4, <2>5
<1>3. /\ c.file \in {"absent", "unreadable", "bad_yaml", "no_mapping", "mapping"}
      /\ c.telegram \in {"absent", "null", "mapping"}
      /\ c.oci \in {"absent", "null", "mapping"}
      /\ c.default_profile \in {"absent", "unlisted", "listed"}
      /\ c.profiles \in Seq(ProfileKinds)
  BY DEF Configuration
<1>4. \A k \in DOMAIN c.profiles : c.profiles[k] \in {"good", "no_compartment"}
  <2>1. ~ParseProfiles(c).bad /\ ~KeyFiles(c).bad
    BY <1>1 DEF Checks
  <2>2. \A k \in DOMAIN c.profiles :
          c.profiles[k] \notin {"incomplete", "null", "null_key", "no_key", "directory_key",
                               "open_key"}
    BY <2>1 DEF ParseProfiles, KeyFiles, EachProfile, Failing
  <2>3. \A k \in DOMAIN c.profiles : c.profiles[k] \in ProfileKinds
    BY <1>3
  <2> QED BY <2>2, <2>3 DEF ProfileKinds
<1>5. c.ttl = "positive" /\ c.audit_log # "no_directory" /\ c.sdk = "valid"
  BY DEF Accepted, AuditDirectory, SdkConfig, PositiveTTL
<1> QED BY <1>2, <1>3, <1>4, <1>5 DEF Checked

-----------------------------------------------------------------------------

\* Every variable keeps its type, whatever the process meets.
THEOREM LifecycleTypes == LifecycleSpec => []LifecycleTypeOK
<1>1. LifeInv => LifecycleTypeOK
  BY DEF LifeInv
<1> QED BY <1>1, LifeAlways, PTL

\* A process whose configuration fails any of the checks of load or of a constructor,
\* for whichever of its profiles and whatever else is wrong with it, does not contact
\* Telegram (config.py:130-194; main.py:59-91).
THEOREM LifecycleNothingRunsUnchecked == LifecycleSpec => []NothingRunsUnchecked
<1>1. LifeInv => NothingRunsUnchecked
  BY AcceptedChecked DEF LifeInv, CheckedInv, NothingRunsUnchecked, LifecycleTypeOK
<1> QED BY <1>1, LifeAlways, PTL

\* Exit code 0 means that the shutdown was complete.
THEOREM LifecycleOrderlyExit == LifecycleSpec => []OrderlyExit
<1>1. LifeInv => OrderlyExit
  BY DEF LifeInv
<1> QED BY <1>1, LifeAlways, PTL

\* /healthz cannot be asked before polling.
THEOREM LifecycleHealthzAfterPolling == LifecycleSpec => []HealthzAfterPolling
<1>1. LifeInv => HealthzAfterPolling
  BY DEF LifeInv, StageInv, HealthzAfterPolling, Polled, Stopping
<1> QED BY <1>1, LifeAlways, PTL

-----------------------------------------------------------------------------
(* To Telegram *)

LEMMA DaemonInitially == ASSUME LifecycleInit PROVE D!DaemonInit
<1>1. Phase = "down"
  BY Phases DEF LifecycleInit
<1> QED BY <1>1 DEF LifecycleInit, D!DaemonInit

\* Ending at any step is Die, or nothing when the bot did not poll yet or no more.
LEMMA ExitIsDie ==
  ASSUME NEW how, Exit(how)
  PROVE  D!Die \/ UNCHANGED <<Phase, queue>>
<1>1. Phase' = "down"
  BY DEF Exit, Phase
<1> QED BY <1>1, Phases DEF Exit, D!Die, queue

\* Hanging is Quit, or nothing when the bot did not poll yet.
LEMMA HangIsQuit ==
  ASSUME LifeInv, pc \in {"start_polling", "site", "updater.stop"}, Hang
  PROVE  D!Quit \/ UNCHANGED <<Phase, queue>>
<1>1. CASE polling = "off"
  <2>1. Phase = "down" /\ Phase' = "down"
    BY <1>1 DEF Hang, Phase
  <2> QED BY <2>1 DEF Hang
<1>2. CASE polling # "off"
  <2>1. Phase = "running" /\ Phase' = "stopping"
    BY <1>2 DEF Hang, Phase
  <2> QED BY <2>1 DEF Hang, queue, D!Quit
<1> QED BY <1>1, <1>2

\* Phase is about polling but for the steps that end it.
LEMMA SamePhase ==
  ASSUME polling' = polling,
         pc \notin {"exited", "app.stop", "hanging"},
         pc' \notin {"exited", "app.stop", "hanging"}
  PROVE  Phase' = Phase
BY DEF Phase

LEMMA RunIsDaemon == ASSUME LifeInv, Run PROVE [D!DaemonNext]_(D!daemonVars)
<1>1. ASSUME NEW how, Exit(how) PROVE [D!DaemonNext]_(D!daemonVars)
  BY <1>1, ExitIsDie DEF D!DaemonNext, D!daemonVars, queue
<1>2. ASSUME Phase' = Phase, UNCHANGED queue PROVE [D!DaemonNext]_(D!daemonVars)
  BY <1>2 DEF D!daemonVars, queue
<1>0. ASSUME pc \in {"start_polling", "site", "updater.stop"}, Hang
      PROVE  [D!DaemonNext]_(D!daemonVars)
  BY <1>0, HangIsQuit DEF D!DaemonNext, D!daemonVars, queue
<1>3. CASE StartPolling
  <2>1. ASSUME /\ pc = "start_polling" /\ pc' = "site" /\ polling' = "on"
               /\ acked' = sent /\ fetched' = sent /\ done' = sent /\ sent' = sent
        PROVE  [D!DaemonNext]_(D!daemonVars)
    <3>1. polling = "off"
      BY <2>1 DEF LifeInv, StageInv, Launching
    <3>2. Phase = "down" /\ Phase' = "running"
      BY <3>1, <2>1 DEF Phase
    <3>3. D!Launch
      BY <3>2, <2>1 DEF D!Launch
    <3> QED BY <3>3 DEF D!DaemonNext
  <2> QED BY <1>0, <1>3, <2>1, Order DEF StartPolling, Proceed
<1>4. CASE StopUpdater
  <2>1. ASSUME /\ pc = "updater.stop" /\ pc' = "app.stop" /\ polling' = "off"
               /\ acked' \in {acked, fetched} /\ UNCHANGED <<sent, fetched, done>>
        PROVE  [D!DaemonNext]_(D!daemonVars)
    <3>1. polling # "off"
      BY <2>1 DEF LifeInv, StageInv, Polled
    <3>2. Phase = "running" /\ Phase' = "stopping"
      BY <3>1, <2>1 DEF Phase
    <3>3. D!Quit
      BY <3>2, <2>1 DEF D!Quit
    <3> QED BY <3>3 DEF D!DaemonNext
  <2> QED BY <1>0, <1>4, <2>1, Order DEF StopUpdater, Proceed
<1>5. CASE StopApplication
  <2>1. /\ pc = "app.stop" /\ pc' = "app.shutdown" /\ polling' = polling
        /\ done = fetched /\ UNCHANGED queue
    BY <1>5, Order DEF StopApplication, Proceed
  <2>2. polling = "off"
    BY <2>1 DEF LifeInv, StageInv
  <2>3. Phase = "stopping" /\ Phase' = "down"
    BY <2>1, <2>2 DEF Phase
  <2>4. D!Finish
    BY <2>1, <2>3 DEF D!Finish, queue
  <2> QED BY <2>4 DEF D!DaemonNext
<1>6. CASE ShutdownApplication \/ Cleanup
  <2>1. /\ polling = "off" /\ polling' = "off" /\ UNCHANGED queue
        /\ pc # "app.stop" /\ pc' # "app.stop"
    BY <1>6, Order DEF ShutdownApplication, Cleanup, Proceed, LifeInv, StageInv
  <2>2. Phase' = Phase
    BY <2>1 DEF Phase
  <2> QED BY <1>2, <2>1, <2>2
<1>7. ASSUME NEW step \in (Launching \cup {"site", "wait"}) \ {"start_polling"},
             Proceed(step), polling' = polling, UNCHANGED queue
      PROVE  [D!DaemonNext]_(D!daemonVars)
  <2>1. pc \notin {"exited", "app.stop", "hanging"} /\ pc' \notin {"exited", "app.stop", "hanging"}
    BY <1>7, Order DEF Proceed, Launching, Booting
  <2> QED BY <1>2, <1>7, <2>1, SamePhase
<1>8. CASE \/ LoadConfig
           \/ Construct("audit", AuditDirectory(config))
           \/ Construct("oci", SdkConfig(config))
           \/ Construct("store", PositiveTTL(config))
  BY <1>1, <1>7, <1>8 DEF LoadConfig, Construct, Launching, Booting, tasks
<1>9. CASE Setup \/ InstallSignalHandlers \/ Initialize \/ StartApplication
  BY <1>1, <1>7, <1>9 DEF Setup, InstallSignalHandlers, Initialize, StartApplication,
       Launching, Booting, tasks
<1>10. CASE StartSite \/ StopWait
  BY <1>0, <1>7, <1>10 DEF StartSite, StopWait, Launching, Booting, tasks
<1> QED BY <1>3, <1>4, <1>5, <1>6, <1>8, <1>9, <1>10 DEF Run

\* The tasks beside _run.
LEMMA TasksAreDaemon ==
  ASSUME LifeInv,
         UserSends \/ Poll \/ TokenRevoked \/ HandlerBegins \/ HandlerEnds \/ Signal \/ Kill \/ Restart
  PROVE  [D!DaemonNext]_(D!daemonVars)
<1>1. ASSUME NEW how, Exit(how) PROVE [D!DaemonNext]_(D!daemonVars)
  BY <1>1, ExitIsDie DEF D!DaemonNext, D!daemonVars, queue
<1>2. ASSUME Phase' = Phase, UNCHANGED queue PROVE [D!DaemonNext]_(D!daemonVars)
  BY <1>2 DEF D!daemonVars, queue
<1>3. CASE UserSends
  <2>1. D!Send
    BY <1>3 DEF UserSends, D!Send, Phase, tasks
  <2> QED BY <2>1 DEF D!DaemonNext
<1>4. CASE Poll
  <2>1. D!Fetch
    <3>1. pc \notin {"exited", "app.stop", "hanging"}
      BY <1>4 DEF Poll, LifeInv, StageInv
    <3> QED BY <1>4, <3>1 DEF Poll, D!Fetch, Phase, tasks
  <2> QED BY <2>1 DEF D!DaemonNext
<1>5. CASE TokenRevoked \/ HandlerBegins
  <2>1. Phase' = Phase /\ UNCHANGED queue
    <3>1. CASE TokenRevoked
      <4>1. pc \notin {"exited", "app.stop", "hanging"}
        BY <3>1 DEF TokenRevoked, LifeInv, StageInv
      <4> QED BY <3>1, <4>1 DEF TokenRevoked, Phase
    <3>2. CASE HandlerBegins
      BY <3>2 DEF HandlerBegins, Phase, tasks
    <3> QED BY <1>5, <3>1, <3>2
  <2> QED BY <2>1, <1>2
<1>6. CASE HandlerEnds
  <2>1. Phase # "down"
    <3>1. pc # "exited" /\ pc \in AllSteps \cup {"hanging"} /\ busy
      BY <1>6, StepNames DEF HandlerEnds, LifeInv, LifecycleTypeOK
    <3>2. pc \in Polled \cup {"app.stop"} \/ (pc = "hanging" /\ polling # "off")
      BY <3>1 DEF LifeInv, StageInv, AllSteps, Polled, Stopping
    <3> QED BY <3>2 DEF LifeInv, StageInv, Polled, Phase
  <2>2. Phase' = Phase /\ done < fetched
    BY <1>6 DEF HandlerEnds, Phase, tasks, LifeInv, LifecycleTypeOK
  <2>3. D!Handle
    BY <1>6, <2>1, <2>2 DEF HandlerEnds, D!Handle
  <2> QED BY <2>3 DEF D!DaemonNext
<1>7. CASE Signal \/ Kill
  <2>1. CASE pc' = pc /\ UNCHANGED <<tasks, queue>>
    <3>1. Phase' = Phase /\ UNCHANGED queue
      BY <2>1 DEF Phase, tasks
    <3> QED BY <3>1, <1>2
  <2> QED BY <1>1, <1>7, <2>1 DEF Signal, Kill
<1>8. CASE Restart
  <2>1. Phase' = Phase /\ UNCHANGED queue
    BY <1>8 DEF Restart, Phase
  <2> QED BY <2>1, <1>2
<1> QED BY <1>3, <1>4, <1>5, <1>6, <1>7, <1>8

\* The process is, to Telegram, the one that Daemon describes.
THEOREM LifecycleImplementsDaemon == LifecycleSpec => ImplementsDaemon
<1>1. LifeInv /\ [LifecycleNext]_lifecycleVars => [D!DaemonNext]_(D!daemonVars)
  <2> SUFFICES ASSUME LifeInv, [LifecycleNext]_lifecycleVars
               PROVE  [D!DaemonNext]_(D!daemonVars)
    OBVIOUS
  <2>1. CASE UNCHANGED lifecycleVars
    BY <2>1 DEF lifecycleVars, tasks, queue, D!daemonVars, Phase
  <2> QED BY <2>1, RunIsDaemon, TasksAreDaemon DEF LifecycleNext
<1> QED BY <1>1, DaemonInitially, LifeAlways, PTL DEF LifecycleSpec, ImplementsDaemon, D!DaemonSpec
=============================================================================
