----------------------------- MODULE Lifecycle -----------------------------
(***************************************************************************)
(* The process of src/app/main.py from its start to its exit: _run step by *)
(* step, beside python-telegram-bot's two tasks (polling, and handling     *)
(* what was polled), the HTTP server, signals, and the restarts of         *)
(* docker-compose.  What handling an update does is module Bot's.          *)
(***************************************************************************)
EXTENDS Config

CONSTANTS
  Configurations,  \* the configurations an operator may have written
  Faults,          \* "telegram" while starting, "port" in use, "token" revoked
  MaxSent,         \* bound: updates sent
  MaxStarts        \* bound: starts of the process

ASSUME ConfigurationsAssumption == Configurations \subseteq Configuration
ASSUME BoundsAssumption == MaxSent \in Nat /\ MaxStarts \in Nat \ {0}

VARIABLES
  config,   \* the configuration, which stays as it is
  pc,       \* the step of _run that comes next; "hanging" when there is none left
            \* and the process does not end
  app,      \* telegram_app: "none", "initialized", "running", "stopped", "shut down"
  polling,  \* its updater: "off", "on", or "dead" of an exception
  http,     \* the HTTP server: "down", "ready", "serving"
  stop,     \* the event that signals set
  busy,     \* a handler is running
  sent, acked, fetched, done,  \* updates, as in Daemon
  code,     \* how the process ended
  starts    \* how often it was started

queue == <<sent, acked, fetched, done>>
tasks == <<app, polling, http>>
lifecycleVars == <<config, pc, tasks, stop, busy, queue, code, starts>>

\* Telegram is polled after the HTTP server is up (for the checks of the
\* properties).
StepsServingFirst ==
  << "load", "audit", "oci", "store", "setup", "signals",
     "initialize", "start", "site", "start_polling", "wait",
     "updater.stop", "app.stop", "app.shutdown", "cleanup", "exited" >>

\* The application stops before its updater (for the checks of the properties).
StepsUpdaterLast ==
  << "load", "audit", "oci", "store", "setup", "signals",
     "initialize", "start", "start_polling", "site", "wait",
     "app.stop", "updater.stop", "app.shutdown", "cleanup", "exited" >>

\* _run in its order; the four before the last are its finally clause.
Steps ==
  << "load", "audit", "oci", "store", "setup", "signals",
     "initialize", "start", "start_polling", "site", "wait",
     "updater.stop", "app.stop", "app.shutdown", "cleanup", "exited" >>

After(step) == Steps[1 + CHOOSE k \in DOMAIN Steps : Steps[k] = step]

LifecycleInit ==
  /\ config \in Configurations
  /\ pc = "load"
  /\ app = "none" /\ polling = "off" /\ http = "down"
  /\ stop = FALSE /\ busy = FALSE
  /\ sent = 0 /\ acked = 0 /\ fetched = 0 /\ done = 0
  /\ code = "none" /\ starts = 1

-----------------------------------------------------------------------------
(* _run *)

Proceed(step) == pc = step /\ pc' = After(step) /\ UNCHANGED <<config, code, starts>>

\* _run returns or raises before application.start(), or the process is killed.
Exit(how) ==
  /\ pc' = "exited" /\ code' = how
  /\ UNCHANGED <<config, tasks, stop, busy, queue, starts>>

\* _run raises after application.start().  asyncio.run cancels what is left and
\* waits for it: polling ends, but python-telegram-bot's task that takes updates from
\* the queue ignores the cancellation and ends through application.stop() only,
\* which nobody calls any more.  It goes on with what was fetched.
Hang ==
  /\ pc' = "hanging"
  /\ polling' = IF polling = "off" THEN "off" ELSE "dead"
  /\ UNCHANGED <<config, app, http, stop, busy, queue, code, starts>>

LoadConfig ==
  \/ /\ Proceed("load") /\ Load(config) = "ok"
     /\ UNCHANGED <<tasks, stop, busy, queue>>
  \/ /\ pc = "load" /\ Load(config) # "ok"
     /\ Exit(IF Load(config) = "ConfigError" THEN "2" ELSE "1")

\* AuditLogger, OciClient and ConfirmationStore; what they raise is not caught.
Construct(step, accepts) ==
  \/ accepts /\ Proceed(step) /\ UNCHANGED <<tasks, stop, busy, queue>>
  \/ pc = step /\ ~accepts /\ Exit("1")

\* bot.build, build_app and runner.setup.
Setup ==
  /\ Proceed("setup") /\ http' = "ready"
  /\ UNCHANGED <<app, polling, stop, busy, queue>>

InstallSignalHandlers == Proceed("signals") /\ UNCHANGED <<tasks, stop, busy, queue>>

\* get_me: Telegram cannot be reached or refuses the token.
Initialize ==
  \/ /\ Proceed("initialize") /\ app' = "initialized"
     /\ UNCHANGED <<polling, http, stop, busy, queue>>
  \/ pc = "initialize" /\ "telegram" \in Faults /\ Exit("1")

StartApplication ==
  /\ Proceed("start") /\ app' = "running"
  /\ UNCHANGED <<polling, http, stop, busy, queue>>

\* start_polling() (for the checks of the properties).
StartPollingKeepsBacklog ==
  \/ /\ Proceed("start_polling") /\ polling' = "on"
     /\ fetched' = acked /\ done' = acked
     /\ UNCHANGED <<app, http, stop, busy, sent, acked>>
  \/ pc = "start_polling" /\ "telegram" \in Faults /\ Hang

\* start_polling(drop_pending_updates=True).
StartPolling ==
  \/ /\ Proceed("start_polling") /\ polling' = "on"
     /\ acked' = sent /\ fetched' = sent /\ done' = sent
     /\ UNCHANGED <<app, http, stop, busy, sent>>
  \/ pc = "start_polling" /\ "telegram" \in Faults /\ Hang

\* The port may be in use, or none; this is before the try whose finally stops the
\* bot.
StartSite ==
  \/ /\ config.port # "out_of_range"
     /\ Proceed("site") /\ http' = "serving"
     /\ UNCHANGED <<app, polling, stop, busy, queue>>
  \/ pc = "site" /\ ("port" \in Faults \/ config.port = "out_of_range") /\ Hang

StopWait == stop /\ Proceed("wait") /\ UNCHANGED <<tasks, stop, busy, queue>>

\* updater.stop() acknowledges what was fetched if it can, and raises again
\* what ended the polling.
StopUpdater ==
  \/ /\ polling # "dead" /\ Proceed("updater.stop") /\ polling' = "off"
     /\ acked' \in {acked, fetched}
     /\ UNCHANGED <<app, http, stop, busy, sent, fetched, done>>
  \/ pc = "updater.stop" /\ polling = "dead" /\ Hang

\* application.stop() waits for the updates in its queue.
StopApplication ==
  /\ done = fetched /\ ~busy
  /\ Proceed("app.stop") /\ app' = "stopped"
  /\ UNCHANGED <<polling, http, stop, busy, queue>>

ShutdownApplication ==
  /\ Proceed("app.shutdown") /\ app' = "shut down"
  /\ UNCHANGED <<polling, http, stop, busy, queue>>

\* runner.cleanup(), and _run returns.
Cleanup ==
  /\ pc = "cleanup" /\ http' = "down"
  /\ pc' = "exited" /\ code' = "0"
  /\ UNCHANGED <<config, app, polling, stop, busy, queue, starts>>

Run ==
  \/ LoadConfig
  \/ Construct("audit", AuditDirectory(config))
  \/ Construct("oci", SdkConfig(config))
  \/ Construct("store", PositiveTTL(config))
  \/ Setup \/ InstallSignalHandlers
  \/ Initialize \/ StartApplication \/ StartPolling \/ StartSite
  \/ StopWait
  \/ StopUpdater \/ StopApplication \/ ShutdownApplication \/ Cleanup

-----------------------------------------------------------------------------
(* Beside it *)

\* The phase of Daemon and of Bot.
Phase ==
  IF pc = "exited" \/ (polling = "off" /\ pc # "app.stop") THEN "down"
  ELSE IF pc \in {"app.stop", "hanging"} THEN "stopping"
  ELSE "running"

UserSends ==
  /\ sent < MaxSent /\ sent' = sent + 1
  /\ UNCHANGED <<config, pc, tasks, stop, busy, acked, fetched, done, code, starts>>

Poll ==
  /\ pc # "exited" /\ polling = "on" /\ acked < sent
  /\ acked' = fetched /\ fetched' = sent
  /\ UNCHANGED <<config, pc, tasks, stop, busy, sent, done, code, starts>>

\* InvalidToken ends the polling; every other error is retried.
TokenRevoked ==
  /\ pc # "exited" /\ polling = "on" /\ "token" \in Faults
  /\ polling' = "dead"
  /\ UNCHANGED <<config, pc, app, http, stop, busy, queue, code, starts>>

\* Nothing is handled after a signal (for the checks of the properties).
HandlerBeginsUnlessStopped ==
  /\ app = "running" /\ Phase # "down" /\ ~stop
  /\ done < fetched /\ ~busy
  /\ busy' = TRUE
  /\ UNCHANGED <<config, pc, tasks, stop, queue, code, starts>>

\* Before polling starts the queue of this process is empty.
HandlerBegins ==
  /\ app = "running" /\ Phase # "down"
  /\ done < fetched /\ ~busy
  /\ busy' = TRUE
  /\ UNCHANGED <<config, pc, tasks, stop, queue, code, starts>>

\* A handler is forgotten about (for the checks of the properties).
HandlerEndsTwice ==
  /\ pc # "exited" /\ busy
  /\ done' = done + 1 /\ busy' \in BOOLEAN
  /\ UNCHANGED <<config, pc, tasks, stop, sent, acked, fetched, code, starts>>

HandlerEnds ==
  /\ pc # "exited" /\ busy
  /\ busy' = FALSE /\ done' = done + 1
  /\ UNCHANGED <<config, pc, tasks, stop, sent, acked, fetched, code, starts>>

\* SIGTERM or SIGINT sets the event from when the handlers are installed on;
\* before, it ends the process.
Signal ==
  \/ /\ pc \notin {Steps[k] : k \in 1 .. 6} \cup {"exited"}
     /\ ~stop /\ stop' = TRUE
     /\ UNCHANGED <<config, pc, tasks, busy, queue, code, starts>>
  \/ pc \in {Steps[k] : k \in 1 .. 6} /\ Exit("killed")

\* SIGKILL, or the memory limit of docker-compose.yml.
Kill == pc # "exited" /\ Exit("killed")

\* "restart: always".
Restart ==
  /\ pc = "exited" /\ starts < MaxStarts
  /\ pc' = "load" /\ starts' = starts + 1 /\ code' = "none"
  /\ app' = "none" /\ polling' = "off" /\ http' = "down"
  /\ stop' = FALSE /\ busy' = FALSE
  /\ UNCHANGED <<config, queue>>

LifecycleNext ==
  \/ Run
  \/ UserSends \/ Poll \/ TokenRevoked
  \/ HandlerBegins \/ HandlerEnds
  \/ Signal \/ Kill \/ Restart

LifecycleSpec == LifecycleInit /\ [][LifecycleNext]_lifecycleVars

\* The event loop runs every task that is ready; every call of _run and of a
\* handler returns or raises, since the clients time out.
FairLifecycleSpec ==
  /\ LifecycleSpec
  /\ WF_lifecycleVars(Run)
  /\ WF_lifecycleVars(HandlerBegins) /\ WF_lifecycleVars(HandlerEnds)

-----------------------------------------------------------------------------
(* Properties *)

\* Every variable keeps its type, and what is fetched or handled was sent.
LifecycleTypeOK ==
  /\ config \in Configuration
  /\ pc \in {Steps[k] : k \in DOMAIN Steps} \cup {"hanging"}
  /\ app \in {"none", "initialized", "running", "stopped", "shut down"}
  /\ polling \in {"off", "on", "dead"} /\ http \in {"down", "ready", "serving"}
  /\ stop \in BOOLEAN /\ busy \in BOOLEAN
  /\ sent \in Nat /\ acked \in 0 .. fetched /\ fetched \in 0 .. sent /\ done \in 0 .. fetched
  /\ code \in {"none", "0", "1", "2", "killed"} /\ starts \in 1 .. MaxStarts
  /\ busy => done < fetched

\* What load and the constructors check: the file was found and read, the bot has a
\* token, the default profile exists, every profile has its fields and a key only its
\* owner can read, the numbers are numbers, and the audit log has a directory.  They
\* do not check that the port can be one, that the log can be written, or that
\* compartment_id has a value (config.py:101, 149; audit.py:28).
Checked(c) ==
  /\ c.file = "mapping" /\ c.telegram = "mapping" /\ c.oci = "mapping"
  /\ c.bot_token = "text" /\ c.allowed_user_ids # "other"
  /\ c.default_profile = "listed" /\ c.profiles # <<>>
  /\ \A k \in DOMAIN c.profiles : c.profiles[k] \in {"good", "no_compartment"}
  /\ c.port # "word" /\ c.ttl = "positive"
  /\ c.audit_log # "no_directory" /\ c.sdk = "valid"

\* "Config errors are fatal at startup" (docs/design/architecture.md:76), as far as
\* they are looked for: Telegram is not contacted and no backlog is dropped with a
\* configuration that fails a check, whichever it is, of whichever profile, and
\* whatever else is wrong (main.py:59-91).
NothingRunsUnchecked ==
  (app # "none" \/ polling # "off" \/ http = "serving") => Checked(config)

\* A process that exits with 0 has done so on a signal, polls no more, has
\* handled whatever it fetched and has cut no handler short, and its server is
\* down (main.py:102-110).
OrderlyExit ==
  code = "0" =>
    /\ stop
    /\ polling = "off" /\ app = "shut down" /\ http = "down"
    /\ done = fetched /\ ~busy

\* /healthz says {"telegram": "running"} without looking (web.py:35-43): it can
\* be asked only once polling was started, and while the process is not being
\* shut down it is wrong only if polling died (main.py:93-94).
HealthzAfterPolling ==
  http = "serving" /\ polling = "off" /\ pc # "exited" => stop

\* A process that will not end by itself: it polls no more and has handled what it
\* had fetched.
Hung == pc = "hanging" /\ (Phase = "down" \/ done = fetched)

\* "Shutdown is driven by SIGINT/SIGTERM" (main.py:5): a signal ends the process also
\* when it comes while _run still starts or a handler is busy, unless _run has raised
\* or will raise (main.py:93-94, 106), which leaves it hanging with its queue worked
\* off; and a process that waits for the signal ends on it unless its polling died.
SignalEndsProcess ==
  /\ stop ~> (pc = "exited" \/ Hung)
  /\ (stop /\ pc = "wait") ~> (pc = "exited" \/ polling = "dead")

D == INSTANCE Daemon WITH phase <- Phase

\* To Telegram and its users the process is the one that Daemon describes, and
\* that Bot implements too.
ImplementsDaemon == D!DaemonSpec
=============================================================================
