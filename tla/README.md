# A TLA+ model of light_oci_manager

light_oci_manager is a Telegram bot that lists and operates Oracle Cloud (OCI)
instances: one Python process, one asyncio event loop, python-telegram-bot (PTB)
for Telegram, the OCI SDK in worker threads, an aiohttp server for health checks.
Its central promise is that stopping or rebooting an instance takes a second,
deliberate click by the same allowlisted user within a minute, and that everything
is on record. This directory states that promise and its neighbours, checks them
with TLC on small instances, and proves the most important of it with TLAPS for every
instance: the confirmation store's promises, that the bot makes OCI do nothing
unconfirmed and nothing twice, that it tells the truth about what was done and has it on
record, that the process starts and stops as Telegram and its users may expect, and that
an answer shows everything it is about. Every safety property that a passing run checks is
a theorem too.

## 1. Inventory

| Component | Source (`src/app/`) | State | Operations | What makes it correct |
|---|---|---|---|---|
| Confirmation store | `confirmations.py` | dict of pending actions, a lock | `create`, `take`, `cancel`, `size`, each sweeping first | single use, owner only, within the TTL, void after a restart, never lost early |
| Application, guard, error handler | `bot.py` | PTB's handler groups and update queue | `_authorize` (group -1), handlers (group 0), `_error_handler` | strangers reach nothing but `/whoami`; every failure is recorded |
| Lifecycle commands, buttons | `commands/operations.py` | none of its own; the messages on screen | `_start_instance`, `_confirm_command`, `_callback`, `_execute_pending`, `_resolve` | no stop without a click; one effect per click; the outcome shown and recorded is what happened |
| Read-only commands | `commands/instances.py`, `network.py`, `volumes.py`, `quota.py` | none; what a running handler has collected | one handler each | one record per command on every path; the answer shows everything it is about, each thing in its place |
| Basic commands | `commands/basic.py`, `regions.py` | none | one reply and one record each | same |
| Audit log | `audit.py`, `commands/__init__.py` | the JSONL file, a lock | `record` | append-only; one record per command |
| OCI client | `oci_client.py` | one client bundle per profile, `ads_cache` | list calls, `get_ip_info`, `list_limit_values`, `instance_action` | errors are translated; a listing misses nothing and repeats nothing; the primary VNIC is the one reported |
| Process lifecycle | `main.py` | the step of `_run`, PTB's application and updater, the stop event | start-up, signals, shutdown | a signal ends the process, after what was fetched, unless `_run` has raised; exit code 0 means a complete shutdown; a restart does not repeat work |
| Allowlist, masking | `security.py` | none | `check`, `mask_ocid` | — |
| Resource matching | `resource_match.py` | none | `match` | the one resource meant, or an error |
| Formatters | `formatters.py` | none | `chunk_message`, `paginate` | nothing lost, limits respected, no empty message |
| Configuration | `config.py` | read once | `load` | a configuration that fails a check reaches nothing |
| HTTP endpoints | `web.py` | none | `/`, `/healthz`, `/version` | `/healthz` tells the truth |
| Shared context, packaging | `context.py`, Docker files | none | — | — |

**How they interact.** PTB polls Telegram (`get_updates`), queues what it gets and
hands updates to the application one at a time: `bot.build` does not enable
`concurrent_updates`. A command goes through the guard's group first and then to its
handler; a button press goes to `_callback` directly. Handlers await Telegram (replies,
edits), OCI (in a worker thread) and the audit log; while one waits, the loop polls,
receives signals and serves HTTP, but handles no other update. The store is touched
only between awaits: its lock is never contended, which is why each of its operations
is one step of the model. For the same reason at most one worker thread is in the OCI
client, and its cache has no second writer; what does change under a call is OCI.

**Where it is hard.** The order of presses of the same buttons and the edits that
remove them; a call that raises after its effect; the exception that stops a dispatch
being raised after other calls that may raise; wall-clock time; a crash with updates
fetched but not acknowledged; a signal with work queued, or before start-up is over; a
start-up or a shutdown that fails half-way; resources that come and go between the calls
of one listing; the boundaries of pages and of messages. `PROJECT.json` lists these
hazards, each at its line, with the properties about it.

## 2. Modules

| Module | Role |
|---|---|
| `OneShotGrant` | What `confirmations.py:1-13` promises of a token, without saying how it is stored. |
| `ConfirmationStore` | `confirmations.py`, with the wall clock, real time and restarts around it. |
| `ConfirmationStoreProofs` | Theorems about `ConfirmationStore`. |
| `Handlers` | What every handler awaits, in order, as scripts of steps. |
| `Bot` | Telegram's queue, dispatch, the steps of the scripts, OCI, the log, the process. Extends `ConfirmationStore` and `Handlers`. |
| `BotProofs` | `BotSpec` implements `StoreSpec`, which lifts the store's theorems to the bot, and `Daemon`. |
| `ScriptProofs` | Lemmas about the scripts of `Handlers`: which of them can lead to an action of OCI. |
| `EffectProofs` | The bot's invariant, and the theorems about what OCI is made to do. |
| `OutcomeProofs` | Theorems about what users and operators are told of it: messages, records, buttons. |
| `Daemon` | The process as Telegram sees it: what is fetched, acknowledged and handled, and when. |
| `Config` | `config.load`, check by check, and what the constructors demand of its result. |
| `Lifecycle` | `_run` of `main.py` beside PTB's tasks, the HTTP server, signals and restarts. Extends `Config`, implements `Daemon`. |
| `LifecycleProofs` | Theorems about `Lifecycle`, and that it implements `Daemon`. |
| `ListingService` | What the caller of a list method may rely on while resources come and go. |
| `OciClient` | The reads of `oci_client.py`, one SDK call a step. Implements `ListingService`. |
| `ResourceMatch` | `resource_match.match`, and the precedence it documents. |
| `Chunks` | `chunk_message`, one line a step. |
| `Reading` | A read-only command from the first call of OCI to the last message. Extends the three above. |
| `ChunksProofs`, `ReadingProofs` | Theorems about them. |
| `MCConfirmationStore`, `MCBot`, `MCLifecycle`, `MCReading` | Small instances for TLC. |

The bot is described twice, at two grains. `Bot` has every handler's awaits, replies and
records, and abstracts the data of an answer to "some messages". `Reading` has the data:
which resources an answer is about, what was learned of each, how it is paged, split and
sent, and abstracts arguments, profiles and records. `Lifecycle` abstracts a handler to
"busy" and has every step of the process around it. `Daemon` is what `Bot` and `Lifecycle`
have in common: both are checked to implement it, so what it says of the queue over signals
and restarts holds of both.

**ConfirmationStore.** `pending` is the dict, `now` is `time.time()`. `elapsed`
(real time), `epoch` (restarts), `issued`, `taken` and `drifted` are history: the
properties read them, no operation does. `Create`, `TakeHit`, `TakeMiss`, `Cancel` and
`Size` are the operations, each with the sweep it begins with. `Tick`, `ClockSet` and
`Restart` are the environment. A `Request` stands for the profile, instance and action
that a `PendingAction` carries.

**Handlers.** A handler is a script: a sequence of records such as `Reply`,
`Show(t, text, who)` (send or edit the message with the buttons of `t`),
`Audit(...)`, `List`, `Item(i)` or `Act(i, a, t)`. A step that asks OCI something is the
last of its script, and the answer (`Reports`, `Collects`, `Prompts`, `Accepted`,
`Refused`, `Fails`...) is the script that follows. So a handler's control is kept and
its wording is not. A message text matters only for the messages with buttons, which
is what `shown` records. A profile is folded into the instance it belongs to; an
unknown profile name is the argument `BadProfile`.

**Bot.** `sent` is every update in Telegram's order, with three indexes into it:
`acked` (Telegram has forgotten these), `fetched` (in the process) and `done`
(handled). `group`, `failed` and `todo` are the update being handled: PTB's handler
group, whether the error handler is running, and the rest of the script. `oci` and `log`
are what OCI did and what was recorded, both tagged with the update; `missed` is history: the presses
whose `take` or `cancel` returned `None`, which is when a Cancel writes no record. One action per kind
of step: `TelegramTakes`/`TelegramRaises`, `AuditWrites`/`AuditRaises`, `AnswerReturns`
(which contains the allowlist check and `take`, since no await separates them; `Hit` and `Miss` are
its outcomes),
`ListReturns`, `ItemReturns`, `OciPerforms`, `ActReturns`, `OciRaises`. `Raise` sends an
exception to the error handler, and an exception of the error handler itself nowhere.
`Poll`, `Signal`, `Stopped`, `Crash` and `Start` are the process.

`ImplementsDaemon` maps `phase`, the indexes and the number of updates sent to `Daemon`.

**Config, Lifecycle.** A configuration is a record of what each field is good for
(`"text"`, `"blank"`, `"absent"`...), not of its text. `Checks` lists the checks of `load` in
its order with the exception each raises: not all are a `ConfigError`. `AuditDirectory`, `SdkConfig`
and `PositiveTTL` are what the constructors demand. Three kinds of mistake pass all of them and are
there for that: a port out of range, a log that cannot be written, a `compartment_id` without a
value. `pc` is the step of
`_run` that comes next; the order is the sequence `Steps`, whose last steps are the
`finally` clause. Each action is one awaited call and says which ways it can end:
`Initialize` and `StartPolling` without Telegram, `StartSite` with the port in use
or no port (`site.start` stands between `start_polling` and the `try`, so nothing is stopped then),
`StopUpdater` after polling died. These last three come after `application.start()`, and what they
lead to is not an exit: `Hang` is the process that goes on without `_run` (§3). `polling`, `app` and `http` are the objects `_run` starts
and stops; `Poll`, `TokenRevoked`, `HandlerBegins`, `HandlerEnds` are PTB's tasks, `Signal`,
`Kill` and `Restart` the system's and docker-compose's. `code` is the exit code.

**OciClient, ListingService.** `call` is the client's method that runs: its next call of the
SDK, what it collected, the VNIC it has chosen. Between two steps `ResourcesChange` and
`VnicsChange` change OCI. `ads_cache` is filled by the first `list_boot_volumes` and kept.
`always` and `ever` are history: what existed during the whole call, and at any moment of
it. `ListingService` uses them to say what a listing is that is not taken at one moment.

**ResourceMatch.** A query is known by what `match` tests of it alone, a resource by how the
query fits its id and its name; `Fits` has every consistent combination. `Rules` and `Match`
are the code, `Rank` and `Meant` the documented precedence.

**Chunks.** A text is the sequence of its lines' ends, in characters; a chunk is a range of
lines. That is all the loop looks at. `buf_len` is the code's count, which has one newline
more than the message.

**Reading.** `read` is the local state of the running handler (`stage` is the await it is
at), `shown` what the messages of each text show. `Begin` and `Taken` are the call of the
client's coroutine and its return; `Continues` is what each handler does with a list;
`Paginate`, `Format`, `SplitText`, `SendChunk` are how it answers. Which text a formatter
returns is left open: any of `Texts`. A message of no characters is refused by Telegram.

A definition whose comment says "for the checks of the properties" is a mutated form of
the definition it precedes. No specification uses it: it shows that a property notices
the bug.

## 3. Assumptions about what is not in the repository

- **PTB 21** (locked in `uv.lock`): an exception other than `ApplicationHandlerStop` in a
  handler group goes to the error handlers, after which dispatch continues with the next
  group; an exception of an error handler is logged; updates are processed in sequence;
  `Updater.stop` acknowledges what was fetched if it can, and raises again the exception
  that ended the polling; only `InvalidToken` ends it, other errors are retried;
  `Application.stop` works off its queue; the task that takes updates from the queue ignores its
  cancellation and ends through `Application.stop` only, so that `asyncio.run`, which cancels what is
  left and waits for it, does not return when `_run` raises between the two; `drop_pending_updates`
  discards what Telegram holds at start-up.
- **Telegram** numbers updates; it keeps them until the next `get_updates` acknowledges
  them; it refuses an empty message and an edit that changes nothing; an edit without a markup removes the
  buttons; a button can be pressed only while some client shows it.
- **OCI**: an action is performed or refused; a call that fails in another way than a
  `ServiceError` may have been performed. The SDK does not retry by default. `list_call_get_all_results` is one
  step, as if all its pages were of one moment; different calls see different moments. Reading a
  VNIC that was detached is a `ServiceError`. A resource stays in its availability
  domain, the domains of a tenancy do not change, ids are unique and begin with `ocid1.`.
  Display names have at most 255 characters, so that the one text that is sent without
  `chunk_message`, `/instance`'s summary, fits a message.
- **Tokens** (128 random bits) are fresh. Every update has a user.

## 4. Runs

| Run | Instance | Result |
|---|---|---|
| `store` | 2 users, 2 tokens, 2 requests, TTL 2, 3 units of time, one restart, the clock set to 0 or 3; about 308 000 states | holds |
| `quiet` | alice allowed, mallory not, 2 tokens, 3 updates of start, stop, reboot and whoami, TTL 1 and one unit of time, nothing raises; about 3.4 million states | holds |
| `faults` | alice and bob both allowed, 2 tokens, 3 updates of start and stop, one crash and restart, Telegram, OCI and the disk may raise at every call, time stands still; about 2.3 million states | holds |
| `reads` | every read-only command, 0 to 2 instances, 2 services, answers of 1 or 2 messages, 2 updates | holds |
| `live` | alice and mallory, 1 token, 3 updates of stop, time stands still, Telegram and OCI may raise, fairness; about 120 000 states | holds |
| `process` | a good configuration and all with one or two mistakes, 2 starts, 3 updates, Telegram out of reach, the port in use, the token revoked, signals and kills, fairness; about 123 000 states | holds |
| `reading` | 2 resources in 2 availability domains, 2 VNICs of which the second is primary, 2 services, pages of one, messages of 3 characters, texts of 1 or 3 lines of 0, 1 or 4 characters, OCI and Telegram may raise, fairness | holds |
| `store_clock` | as `store` | `ValidForTTL` violated |
| `guard_fault` | one `/start_instance` of mallory, Telegram may raise | `AllowlistEnforced` violated |
| `audit_gap` | one stop, Telegram may raise | `EffectsAudited` violated |
| `double_click` | one stop, nothing raises | `OutcomeShown` violated |
| `slow_queue` | one stop, TTL 2, nothing raises | `InTimeClickCounts` violated |

**What they show.** `store`: the six promises about tokens, over the boundary instants of
the TTL, clocks that jump both ways (`drifted` names the tokens alive at a jump; only
`WithinTTL`, `StillRedeemable` excuse them) and a restart; and that each step is a step of
`OneShotGrant`. `quiet`: the allowlist, one record per update, every effect on record with
its target, no buttons left on a used token, and no stop or reboot but on a click in time on the
button issued for it (`ConfirmedOnly`, where time passes and one user may have a stop and a reboot open
at once), over all orders of two users' messages and presses. `faults`: even when calls raise after their effect and the process crashes,
no stop without a click on the button issued to that very user, at most one effect per update and
token, nothing after a recorded cancellation, and no message says "accepted" and no record `ok`
of what OCI did not do. It checks also that `Bot` implements `Daemon`:
updates are handled once and in order, and a process that starts leaves alone what was sent
before. `reads`: one record of its own per command on every path, also where the calls for
single instances fail. `live`: an update that was fetched is handled and recorded, a denied press
and its repetition included, and a signal ends the process after the queued updates.

`process`: a configuration that fails a check of `load` or of a constructor, whichever it is and
of whichever profile, gets nowhere near Telegram (`NothingRunsUnchecked`); `Checked` is what is
checked, and it is less than what is needed (§6). Exit code 0 means a complete shutdown
(`OrderlyExit`); `/healthz`, which says "running" without looking, is wrong only after a
signal or when polling died (`HealthzAfterPolling`); a signal ends the process from any step
unless `_run` has raised or will raise with the bot started, and ends one that waits for it
unless its polling died (`SignalEndsProcess`): otherwise the process hangs, with what it fetched
handled (`Hung`). Through all of this the process is `Daemon` to Telegram.

`reading`: each command after each other, while OCI changes under it. `ImplementsService`
says of the listings that none of what was there all the time is missing and nothing is
there twice, though boot volumes are collected domain by domain from a cached list of domains;
`PrimaryReported` that `/public_ip` never shows a secondary VNIC for a listed primary one;
`MatchedAsMeant` that `match` is the documented precedence; `RowForEach` that a failed call for
one instance does not shift the rows of the others; `EverythingShown` that pages and messages
together show the whole answer in order; `NothingLost`, `WithinLimit`, `NoNeedlessSplit` and
`NoEmptyMessage` what `chunk_message` promises at its boundaries; `EveryCommandEnds` that a
command ends, on which every other update waits.

`AllowlistEnforced` and `EffectsAudited` hold in `quiet` and fail in `guard_fault` and
`audit_gap`: what separates the runs is that a Telegram call may raise. These and the
three other violations are the findings in `PROJECT.json`, each with the sentence of the
docs it disagrees with.

**Bounds.** A lapse needs `TTL` ticks and a race needs two presses after the request, so
three updates, `MaxTime` of at least `TTL` and one or two tokens contain each case the
properties talk about. (`faults` has two tokens, so that two requests can be open at once,
and no time; `quiet` has the time.) A second restart or a third token adds no new relation: the store
treats tokens independently (the theorems below do not need any bound). `MaxEpoch` bounds
crashes and restarts, `MaxUpdates` what users send, `MaxChunks` the messages of one answer.
In `process`, `MaxSent` bounds the updates and `MaxStarts` the starts: a restart with updates
unacknowledged, handled or in the queue needs two starts and at most three updates. Two mistakes
show which of two checks speaks first. In `reading` a page boundary, a line that
just fits, one that just does not and one too long for any message are all there. Its pages are of one, so
every page is full: a last page that is short, a `page_size` of 0 and one beyond the items are not in the
run but in the theorem `ReadingEverythingShown`, which is for every page size and list. Two domains,
VNICs and targets are what the loops need to go wrong between two rounds. Blank queries are left
out, which a Telegram command cannot carry.
`CHECK_DEADLOCK FALSE` in the bot's and the process's runs: when the users have sent all they
may and the process has stopped for good, the model rightly has nothing left to do. `store` and
`reading` check deadlock. Symmetry permutes users only where both are on the allowlist, and never in the
run with liveness properties.

**Fairness** (`FairBotSpec`): weak fairness of `Poll`, of `Handling` and of `Stopped`. The
event loop schedules every ready task, polling is a loop, and each await of a handler ends
because the HTTP clients of PTB and of the OCI SDK have timeouts and file writes return.
Which way a call ends is left open. Nothing is assumed of users, signals, crashes or the
clock. `FairLifecycleSpec` and `FairReadingSpec` assume the same of the steps of `_run`, of a
handler and of the client's thread: each call returns or raises. (`command_timeout_sec` plays no
part in it, see §6.) The liveness run has no crash and no disk failure: after a crash the fetched
updates are lost by design, and an unwritable log can record nothing.

## 5. Theorems

`ConfirmationStoreProofs` proves, for all users, tokens and requests, any TTL of at least 1
(the constructor enforces it) and any clock settings: `TypeOK`, `SingleUse`,
`RedeemedAsIssued`, `WithinTTL`, `NoRevival`, `StillRedeemable`, and that `StoreSpec`
implements `OneShotGrant`.

None of the safety properties is inductive: each speaks of what was taken and says nothing
of what could still be. `StoreInv` adds that:

- `LiveEntry`: a pending entry is what `create` returned, was issued by the running process,
  was never taken, and, unless the clock was set meanwhile, expires exactly `TTL` after its
  birth in real time;
- `NotForgotten`: a token of the running process that is neither used nor drifted and still
  within its TTL is pending;
- `GoodTake`: everything taken was the entry issued, by its owner, in its process, in time;
- `SingleUse`: no token was taken twice.

`LiveEntry` makes a new take good, and the sweep can only remove what `NotForgotten` does
not promise. The one thing a take must not break is `SingleUse`, and it cannot because
the entry it returns was never taken before. Each action is a lemma; the refinement uses the
same invariant: a sweep is a lapse of the swept tokens, and a take redeems an open grant.

**The bot.** `BotProofs` shows that every step of the bot is a step of the store or leaves it
alone, so `BotSpec => StoreSpec` and the store's theorems hold in the running daemon. Its
`QueueInv` is what that needs: the update being handled was sent, so its user and token are
real ones.

`EffectProofs` proves `BotTypeOK`, `ConfirmedOnly` and `OneEffectEach`. `ConfirmedOnly`
speaks of an action after it was performed; between the click and the action lie an answer
of Telegram, a take and a call that OCI may delay or raise. `BotInv` carries the
justification across them:

- `HistoryInv`: only an issued token has buttons, and when a press was sent its token's
  owner had asked, earlier, for what the token does;
- `ScriptInv`: the rest of a script is plain (it leads to no action), or waits for Telegram's
  answer or a list, or is an action `Justified` by the current update: one that needs no
  confirmation, or the one this click confirms, of a token honoured in time;
- `EffectInv`: what OCI performed is `Justified` by its update; an update that may still act
  (`Unacted`) has not acted, and the token of an action about to be performed never has.

`ScriptProofs` shows for each script of `Handlers` that it is plain. A take is where a
justification begins: `StoreInv` says the grant is the one issued, unused and in time. It
lasts because history only grows (`HistoryGrows`). One action of OCI ends the script's right
to act, which gives `OneEffectEach` for updates; for tokens it is single use.

`ConfirmedOnly` names the button and not only the click: the token pressed was issued to the user who
pressed it, for the instance and action that OCI performed. `Justified` says it of the action
while it waits to be performed.

`BotProofs` also proves that `BotSpec` implements `Daemon`: of all steps only `Poll`, the end of
an update, `Signal`, `Stopped`, `Crash` and `Start` touch the queue or the phase, and
`QueueInv` keeps `done` within what was fetched.

**What the bot says it did.** `OutcomeProofs` has the six other invariants of the bot. Each is about
something said or recorded at the end of a script that began several steps, and possible
faults, before; its inductive invariant says what the rest of the script will say.

| Theorem | Where it holds | Carried by |
|---|---|---|
| `BotCancelHolds` | always | `TruthInv` |
| `BotTellsTruth` | always | `TruthInv`, `OnceInv` |
| `BotAllowlistEnforced` | `DenialsPass` | `GuardInv`, `TruthInv` |
| `BotOneRecordEach` | `DenialsPass`, one life of the process | `RecordInv`, `OnceInv` |
| `BotEffectsAudited` | nothing raises, one life | `NewsInv`, `AuditedInv`, `TruthInv` |
| `BotNoStaleButtons` | only the log's disk may fail, one life | `ButtonsInv` |

- `TruthInv`: every message, every record, and every step of the script that will make one, says
  what is so (`Honest`): "accepted" only of a token OCI acted on, an `ok` record only of an effect of
  its update, a cancellation only of a token that is `Dead`, used with no action behind it or
  ahead;
- `OnceInv`: the record of an update is the last thing of its script, so until it is written
  there is none, and after an exception only the error handler's;
- `GuardInv`: the guard does not raise, so a handler runs only for a command that was let pass;
- `RecordInv`: while an update is handled and has no record of its own (`Mains`: what `/public_ip`
  records of one instance is not), its script ends with one or waits for the answer that decides how it
  goes on (`Promised`), or it is a Cancel in `missed` or a usage reply (`Silent`, which lasts once it
  holds: `SilentStays`);
- `NewsInv`, `AuditedInv`: what OCI performed is on record or pledged by the rest of the script, and the
  edit that comes before the record changes its message, so that Telegram does not refuse it;
- `ButtonsInv`: buttons of a used token are about to be taken away by the running handler, and
  no step will show them again.

`DenialsPass` says that records can be written and that a denial's reply does not raise, or that
everybody is on the allowlist. "One life" is `MaxEpoch = 0`: the process may be told to stop, but no
update is cut short by a crash, after which it is never handled again and never recorded.
None of these hypotheses can go: TLC violates the property as soon as the configuration of `quiet`
is given `Faults = {"disk"}` (`AllowlistEnforced`, `OneRecordEach`, `EffectsAudited`),
`{"telegram"}` (all four) or `{"oci"}` (`EffectsAudited`, `NoStaleButtons`), or
`MaxEpoch = 1` (`OneRecordEach`, `EffectsAudited`, `NoStaleButtons`). `guard_fault` and `audit_gap` keep
two of these counterexamples as runs.

**Assumptions.** `TTLAssumption`, `BoundsAssumption`, `ClockAssumption` and `UsersAssumption`
of `ConfirmationStore`; in `Bot`, `RequestsAssumption` (a request names an instance and a
confirmed action), `CommandsAssumption` (users send commands the bot registers, so never a
word for a button), `ListingsAssumption` and `ServicesAssumption` (what is listed are
instances and names) and `MissingAssumption` (the marks for no token and no target are
neither). TLC evaluates them in the runs of `MCConfirmationStore` and `MCBot`. The bot's model never sets
the wall clock; the store's does, and `store_clock` shows what that costs.

**The process.** `LifecycleProofs` proves for any configurations, faults and bounds
`LifecycleTypeOK`, `NothingRunsUnchecked`, `OrderlyExit`, `HealthzAfterPolling` and that
`Lifecycle` implements `Daemon`. None of them mentions `pc`; `LifeInv` ties them to it:
`CheckedInv` says what has been looked at before each step, `StageInv` how far polling, the
server and the signal are at each. `AcceptedChecked` is the lemma about `load`: it returns only if none of
its fifteen checks fails, and with the constructors' that makes a configuration `Checked`. For the
refinement each step of `_run` keeps the phase but these: `StartPolling` is `Launch`, `StopUpdater` is
`Quit`, and so is a raise after polling started (`Hang`), after which what was fetched is still
handled; `StopApplication` is `Finish`; a kill while polling or stopping is `Die`.

**Answers.** `ChunksProofs` proves the four properties of `chunk_message` for any limit of at
least 1 and any text. `ChunksInv` describes the buffer: its length as counted is the distance
between two line ends, it is one line or fits the limit, and the chunks before it are contiguous.
`ReadingProofs` proves that every behaviour of `Reading` is one of `ClientSpec` and of `ChunksSpec`, which
lifts to the handlers what is proved of those two, and:

- `PrimaryReported`, from `LoopInv`: of the attachments passed so far none was primary, or the loop
  is over;
- `ClientImplementsService`, from `CollectInv`: a resource that was there all the time was collected
  or lies in a domain still to be asked for (`Area`), no two calls ask for the same area
  (`Disjoint`), and nothing collected lies in one still to come. A resource created in a domain
  already passed is missed, and one deleted later is reported: `ListingService` allows both;
- `RowForEach`, from `RowInv`: the rows and the targets left are the targets, in every round of the
  loop;
- `ReadingTypeOK`, from `TypeInv`: the type of the handler's record, with what it awaits at each stage
  (`Waits`) and how many chunks it has sent (`Sends`);
- `MatchedAsMeant`, from `MatchIsMeant`, a lemma about `Match` for every list, query and fit: `Hits` finds in
  order what a rule fits (`Fits`), and the first rule that finds anything is that of the best `Rank`;
- `EverythingShown`, from `ShownInv`: what was shown, followed by the pages still to be shown, is the
  answer (`Told`). Under it lie the lemmas about `Paginate` (`PagesAre`, `PagesSmall`,
  `PagesFlattened`: the pages are short and put together they are the items) and about
  `FlattenSeq` (`FlattenMore`, `FlattenRest`, `FlattenBoth`).

`Hits` and `FlattenSeq` are recursive functions over sequences of any length. What they compute is
proved without an induction rule, by the least counterexample: the set of lengths at which the claim fails
has a least element unless it is empty (`Least`), which is not 0, and of which the predecessor
makes the claim true.

`Lifecycle`'s `ConfigurationsAssumption` and `BoundsAssumption`, `OciClient`'s
`DomainsAssumption`, `FiniteAssumption` and `MarkersAssumption`, `Chunks`' `LimitAssumption` and
`Reading`'s `PageSizeAssumption` and `InputsAssumption` type the constants; TLC evaluates them in
`process` and `reading`.

Model-checked only: the four liveness properties, `EveryUpdateRecorded`, `StopCompletes`,
`SignalEndsProcess` and `EveryCommandEnds`. They rest on weak fairness and so on `ENABLED`, which this
prover does not handle. Every safety property of a passing run is a theorem, with the
hypotheses above.

## 6. Not modelled, and disagreements without a run

Texts, masking, JSON, timestamps, the bodies of the HTTP answers: they are wording, and no state
depends on them. The sums in `compute_usage`, `aggregate_limits` and `_total_gb`: each is one loop over
one answer. `get_instance`, `get_security_list` and `list_availability_domains` of the client
have no caller. `context.py` is a record; the Docker files are the environment (only
`restart: always` enters). Group chats, which `docs/specs/dev_telegram_bot.md:23-24` excludes;
updates without a user, which Telegram does not send for commands and buttons. Several worker
threads in the client at once: updates are handled one at a time.

Read off the source while modelling, with no run of their own:

- a denied press is recorded as `"error"` (`operations.py:163-168`), while
  `docs/specs/integration_acceptance.md:79-82` asks for `denied`;
- "each command handler emits exactly one audit record" (`audit.py:20-21`) has exceptions:
  usage replies and a Cancel whose `cancel` returned `None` (`operations.py:192-196`) write none,
  `/public_ip` writes one per instance it could not read besides its own. `OneRecordEach` states the rule with them;
- `command_timeout_sec` is read (`config.py:183`) and never used;
- `load` "raises ``ConfigError``" (`config.py:134`) and "a config error exits with code 2"
  (`docs/specs/dev_deployment.md:57`), but a section that is empty, a port or TTL that is no number
  and a file that cannot be read raise `TypeError`, `ValueError` or `OSError`, which end the
  process with a traceback and code 1, as does a `key_file` without a value (`Checks` has each);
- "Config errors are fatal at startup; the process exits with a non-zero code"
  (`docs/design/architecture.md:76`), but three mistakes are not looked for: a port out of range raises
  in `site.start` when the backlog has been dropped (`config.py:149`, `main.py:94`), a log that cannot be
  written raises at each record (`audit.py:28`, `67`), and a `compartment_id` without a value is left to
  the calls that use it (`config.py:101`);
- "Shutdown is driven by SIGINT/SIGTERM" (`main.py:5`), but when `start_polling`, `site.start` or
  `updater.stop` raises (`main.py:93`, `94`, `106`) nobody calls `application.stop()` any more and, by
  what §3 says of PTB, the process neither exits nor heeds a signal, so `restart: always` does not
  restart it. `SignalEndsProcess` states the rule with this exception, which depends on PTB's source;
- `/healthz` says `"running"` also while the bot stops and after polling died (`web.py:40`);
- a query that starts with `ocid1.` is never compared with a name (`resource_match.py:77`), so a
  resource with such a display name can be named only by its id;
- a message that would be exactly full is split (`formatters.py:118-119`), and an empty line
  alone in its chunk is a message Telegram refuses.

## 7. Plan

Done: the store, the bot with its handlers, the process with its configuration, the client and the
answers of the read-only commands; the refinements `ConfirmationStore` of `OneShotGrant`, `Bot` of
`ConfirmationStore` and of `Daemon`, `Lifecycle` of `Daemon`, `OciClient` of `ListingService`, `Reading` of
`OciClient` and `Chunks`; each of these refinements, and every safety property of the runs, as a
theorem (§5). Next, in this order:

1. What holds of the bot when calls do raise, beyond the hypotheses of §5: how much of
   `EffectsAudited` and `NoStaleButtons` is left after a fault, stated per update and not per life.
2. The safety half of the liveness properties: the measures that fall with every step of a script,
   of a page loop and of the shutdown, which leave to fairness only that steps are taken.
3. `OneRecordEach` across restarts, for the updates whose handling no crash cut short.
