# A formal model of PrntBtlr

PrntBtlr turns a small Linux host into a print and scan station: a FastAPI panel (`app/`) that drives
CUPS, SANE and systemd through their command-line tools, a handful of background loops, and scripts for
the scanner's button and for installation. There is no database and almost no lock. State lives in
cupsd, in systemd, in four small JSON files and in the memory of the panel's loops, and what makes the
program hard is that these move independently: commands answer late or not at all, the panel is
restarted by its own updater, and worker threads interleave with the event loop.

The modules here model that control flow in TLA+; TLC checks them on small instances, and TLAPS proves
the theorems of the `*_proof` modules for every value of the constants.

## Inventory

| Part | State | Operations | Hard behaviour | What makes it correct |
| --- | --- | --- | --- | --- |
| Print-job monitor (`services/jobmon.py`) | sets of jobs reported, baseline flag; memory only | two polls, diff, emit; reset without a subscriber | cupsd moves between the polls; restarts; failing polls | each event once, in order, never for old history; every job eventually |
| TTL cache (`services/cache.py`) | key to (time, value) under a lock | `get_or_call`, `invalidate` | probes outside the lock race with invalidation | bounded staleness; reads after a mutation see it |
| Service control (`services/system.py`) | cached unit states | verbs, each dropping its unit's entry | verbs fail or time out; two commands per read | the cache never hides a change for longer than a TTL |
| Function switches (`services/features.py`, `POST /features`) | `features.json` | save, then stop/start the units of what changed | overlaps self-repair; crash between units; failing verbs | off means stopped and disabled, and stays so |
| Health checks and self-repair (`services/health.py`, `services/repair.py`) | none; a report handed from thread to thread | concurrent checks, ordered repairs | acts on an old report, on cached states, twice on one fault | dead units come back, idle ones are left alone, repair comes to rest |
| JSON state files (`services/statefile.py`) | file, temporary file | load; write, chmod, rename | two writers, crash between two steps | readers see the old or the new contents |
| Webhook registry and delivery (`services/webhooks.py`) | `webhooks.json`, a pool of four threads, the last overall health | add, delete, toggle, emit, deliver, health transitions | overlapping load-modify-save; reordering; slow endpoints | no acknowledged change is lost; transitions alternate |
| Updater (`services/updater.py`, `scripts/update.sh`) | `updater.json` | check, preferences, apply, automatic apply | a check spans a network call; two updaters at once | preferences survive a check; one announcement per release; one updater |
| Scanning (`services/scan.py`), scan script (`scripts/scan2pdf.sh`) | files in the scan folder | scan, convert, OCR, publish, list, delete | same-second names, failing steps, feeder and glass | only finished PDFs are visible; none is overwritten |
| Button listener (`scripts/scan-listen.py`) | armed flag, backoff | arm, fire, reset, settle, scan, drain | stale packets, unplugging, timeouts | one press, one scan |
| Login throttle (`auth.py`) | client to (failures, time) | note failure or success, retry-after, prune | expiry and pruning at a boundary | nobody is forgotten or locked out early |
| CUPS administration (`services/cups.py`) | none (cupsd's) | one command each | parsing | pure wrappers |
| `/healthz` (`main.py`) | none | counts expected active units | switched-off functions, the handler pair | a healthy host is never reported as failed |
| install, update, uninstall scripts | units, files | sequential | re-enable units of switched-off functions | |

How they interact: the loops and handlers reach systemd only through `system.service_state` (cached) and
`system._act`; the switch handler and self-repair act on the same units from different threads; the
monitors hand events to `webhooks.emit`, which reads the registry's file at that moment; the updater ends
by restarting the panel, which forgets everything that is only in memory.

## Modules

| Module | Models | Proofs |
| --- | --- | --- |
| `JobMonitor` | the print-job monitor with cupsd, the registry of endpoints and restarts as environment | `JobMonitor_proof` |
| `TtlCache`, `MCTtlCache` | the cache with threads, a clock, mutations and unannounced changes | `TtlCache_proof` |
| `Station` | function switches, self-repair, health checks, restart buttons, systemd, through the cache | `Station_proof` |
| `SharedDocument` | abstract: a document edited and read in one step each, until edits overlap | |
| `StateFile`, `MCStateFile` | the JSON state files: load, change, `save_json` on inodes; implements `SharedDocument` | `StateFile_proof` |
| `Updater`, `MCUpdater` | release selection, checks, preferences, updates and restarts, with GitHub as environment | `Updater_proof` |
| `ScanPublish` | how a scan becomes a PDF: `scan_now` in the panel's threads, `scan2pdf.sh`, the scanner and the share | `ButtonListener_proof` |
| `ButtonListener`, `MCScanning` | the button listener on the USB bus, composed with `ScanPublish` (`EXTENDS`) | `ButtonListener_proof` |
| `Notifier`, `MCNotifier` | `emit`, `emit_sync`, the delivery pool and the health monitor | `Notifier_proof` |
| `LoginThrottle`, `MCLoginThrottle` | the login form's throttle and the handler around it | `LoginThrottle_proof` |

### JobMonitor

`cups[j]` is what cupsd knows of job `j` (`none`, `active`, `done`, `gone`): jobs are numbered in the
order of their submission and their ids never come back. `state` is `jobmon.State`, `outbox` the events
of the last `sweep` that `background_loop` has not emitted yet, `pc` the loop's position. `PollActive` and
`Sweep` are the two `await asyncio.to_thread(cups.list_jobs)` calls with cupsd free to move between them;
the diff, which has no await, is part of `Sweep`. `wanted` are the print events that some enabled endpoint asks
for: both, one or none. The loop goes on while either is wanted (`HasSubscriber`); each `Emit` reads the registry of
its own moment and hands its event out only if that very event is wanted (`Heard`), as `has_subscriber` and
`Webhook.wants` do. `ListJobs` returns the empty listing for a failing command when `PollMayFail`.
`dispatched`, `unheard` (the events whose turn came when no endpoint wanted them), `baseline` and `old` are history
variables for the properties.

### TtlCache

A thread inside `get_or_call` passes `lookup` (under the lock), `probe` (outside) and `fill` (under the lock
again); the clock it compares with is read before the lock is taken, the stamp of the entry when it is
stored. Objects are version numbers, `ended` records when a version stopped being current, so that
staleness can be asked of any value returned. `Act` and `Invalidate` are the two halves of `system._act`.
`dirty` marks a call that had looked at the system when its key was dropped.

### Station

`unit` is systemd's truth, `cached` the panel's view of it. `SaveFeatures`, `VisitUnit`, `SwitchBoot`,
`SwitchNow` and `SwitchFails` are `POST /features` with `apply_services`, one unit and one verb at a time:
the handler is `async` and blocks the event loop, which is `LoopFree`, but not the worker threads. A repair
run reads the two switches, evaluates its checks in any order (`shell.gather`), and then works through
the report in its order; `repair_service` decides on one read and runs up to two verbs. Its checks are
the three that can start or enable a unit: the required service `cups`, the scheduler (`lpstat -r`) and the
pair of scan-button handlers. `Repairers` are the background loop and any number of presses of "Run
self-repair". Units die, verbs and probes fail, somebody restarts a unit by hand, the panel crashes, the
host reboots: each costs one of `MaxFaults`. `Up` includes systemd's `Conflicts=` between the handlers.
Reading a unit is one step here; the race inside the cache is `TtlCache`'s subject, and the reader may keep
what it has read for as long as it likes, so decisions on stale states are covered. A probe that times out yields an
unknown state, or, when only its `is-enabled` did, a unit that looks disabled (`Misreadings`).

### StateFile and SharedDocument

`path` and `tmp` are the inodes that a state file's name and its temporary name stand for, `data` the contents of
the inodes. A saver is a thread in one of the load-change-save operations (`features.save`,
`webhooks.add_webhook`, `delete_webhook`, `set_enabled`, `updater.save_prefs`, `check_for_update`; with an edit
that ignores what was there also `scan._save_caps`); its steps are the system calls: open and read the file,
`os.open(tmp, O_CREAT | O_TRUNC)`, write, `chmod`, `rename`. Names are resolved when the call is made, so a
save may truncate, chmod or rename another save's file. A document is small and written by one `write`;
over another save's bytes it leaves either itself or garbage (`Torn`). Readers keep the inode they have
opened. A load takes an unreadable file for an empty document (`Blank`), as all four loaders do.

`SharedDocument` is what this should amount to. The refinement maps `doc` to what a load would yield now,
`out` to what each reader was told (a load takes effect at its open), and `disturbed` to `tainted`, which
becomes true exactly when an edit begins while another is in progress (two loads that overlap a rename are
enough to lose a change) and false when an edit that overlapped nobody is renamed into place. Until then
nothing is promised; afterwards everything again.

### Updater

A check is `Load`, `Fetch` (or `FetchFails`), `Save` (or `SaveFails`): other threads move between the read
of `updater.json`, the network call and the write. `check[c]` is the thread's private copy of the file. The loop
then acts on what its own check returned (`AutoUpdate`, `NotifyOnly`); a button's thread is done. `file` is
`updater.json` with what the properties need; saving it is one step here. A release tag is a record of the
numbers of `X.Y.Z-beta.N` and GitHub's pre-release flag; `Key` and `Newer` are Python's tuples, `PickLatest` folds
the loop's body over the feed. `unit` is the transient unit `prntbtlr-update`, `disk` the program in
`/opt/prntbtlr`, `version` the running one: an update replaces the first, then restarts the panel, which ends
its checks. The process `start_update` falls back to when `systemd-run` refuses lives in the panel's sandbox,
where `/opt` is read-only, and so changes nothing. Histories: `wanted`/`lost` what the operator saved last and
whether a check was in the middle; `heard`/`quiet`/`repeated` what the endpoints know to be on offer;
`torn` that an update failed between replacing the program and restarting the panel. Until the panel starts again
the running and the installed release then differ: a check may offer one between the two, and the next start finds
that offer older than itself; the first check that runs alone after that start mends it.

### ScanPublish and ButtonListener

The share is four families of hidden names and the visible one, each indexed by the second of its timestamp.
A file is abstracted to who has it open, whether two writers have been at it, and the scan it shows when
whole; opening truncates, renaming takes the open writers along, and unlinking leaves them with nothing. `req[t]`
is a request thread in `scan_now`: open the TIFF, scanner, `img2pdf`/`convert`, optionally `ocrmypdf`, rename.
`script` is the one run of `scan2pdf.sh`: feeder, glass, assembly, up to `Attempts` times, then copy and rename.
`device` is who has the scanner; `"orphan"` is a scanimage whose shell was killed by the listener's timeout.

`ButtonListener` adds the USB bus and the listener. `packets` is what the interrupt endpoint holds: a press is
told of twice, a release once, an idle scanner may report too. Attaching disarms; a released state arms; a pressed
one then resets the device (which may drop what it held), starts the script and, when that has ended or was
killed, attaches anew. The pauses around a scan put the scripts into different seconds
(`last`). `fired` counts the scans of each press.

### Notifier

`Wants` says which events each endpoint subscribes to; one that wants either health event keeps the monitor
running (`HealthSubscriber`), each event goes to those that want it (`Targets`). `log` are the events with the
endpoints that wanted them when `emit` read the registry, `emitting` the calls that still have endpoints to hand
over, `queue` and `busy` the pool, `got` what each endpoint has received. The monitor's `previous` lives as long
as somebody subscribes to a health event and the panel runs; `since` numbers the baselines. The notify process
of a scan by button (`"cli"`) posts by itself and survives the panel.

### LoginThrottle

`table` is `LoginThrottle._state`. A thread asks `retry_after` (`Refuse`, `Admit`), compares the password, and
notes the outcome (`Succeeds`; `Fails` reads the clock, `NoteFailure` takes the lock up to `Delay` later, and
prunes). `record` is the history the properties compare the table with: `recent` counts the failures which no
silence of `Forget` separates (less the two delays a late thread can put between its clock and the table's),
`guesses` the attempts a locked-out client got within one lockout.

## Runs

| Run | Shows |
| --- | --- |
| `jobmon` | no duplicates, no replay, completions after submissions, every job announced, for two jobs with two restarts and two changes of the registry, whichever of the two events is wanted |
| `jobmon_lpstat_fails` | *violation*: one failing `lpstat` makes the monitor announce a job twice |
| `ttlcache` | bounded staleness; stale reads after a mutation only through an overlapping probe |
| `station` | a function that was switched off undisturbed stays off; the idle handler is left alone |
| `station_live` | background repair revives printing and the scan button, and comes to rest, though a command or probe may fail once, and after functions were switched off and on |
| `station_off` | *violation*: a repair run that read the old switch restarts what was just stopped |
| `statefile` | without overlap a state file is edited and read in one step each and never torn, whatever crashes or fails |
| `statefile_crash` | *violation*: two overlapping saves and a crash leave an empty state file |
| `updater` | the pick is the latest release the channel may have; preferences survive later checks; one announcement per release; the page never offers an older release; the loop installs only what is wanted |
| `scanning` | only whole PDFs are visible and none is overwritten; nothing is left behind; pages of different attempts never mix; one press is one scan |
| `notifier` | an event goes at most once to whoever wanted it; bounded overtaking; the monitor's last word is true; the pool drains; changes of the health are noticed |
| `login` | the lockout holds against pruning and other clients; a locked-out client has at most one guess per thread and lockout; nobody is refused without cause |

### Bounds

- `jobmon`: two jobs are what ordering, pruning and "one seen, one not" need; two restarts and two edits
  of the registry allow one in each half of a sweep, and that an event is no longer wanted and then wanted again. All
  sets of wanted events occur, from the start and after an edit.
- `ttlcache`: the proofs cover every size. Two threads and one key (keys are independent) are one
  overlapping pair; the clock runs to four times the TTL, past any entry stored in the first half, and
  the object changes twice, so that a value can be stale by two versions. Threads are symmetric.
- `station`: one background run, one switch and two faults on a host with all three units; the invariant
  of the proof was also checked by TLC with two concurrent repair runs before it was proved. One switch is one
  use of `POST /features`, which may change both functions.
- `station_live`: one fault and one switch, or two switches (`MaxDisruptions` bounds both together), so that a function
  goes off and comes back, which enables both handlers. The fault may be a death, a crash, a reboot, or a verb, a probe or the
  `lpstat -r` of a check that fails. What is to be seen is that repair recovers from any single fault at any moment of
  its own run.

- `statefile`: two savers and one reader; three edits are an overlapping pair and one that settles, or three
  in a row over leftovers; two faults are a failing save and a crash. Five inodes are one more than can be
  in use when a temporary file is created. A document is a set of two endpoints, so that an empty document,
  one that was read too early and the right one all differ.

- `updater`: the running release, a beta and the release it leads to, which is where the order of tags is not the order
  of their text and the channels differ. One thread beside the loop, one edit and one marked release are
  an overlap and a stale candidate; two faults are a failing call, a restart, or an update that fails half way and
  the crash after it. The releases may be published in any order.
- `scanning`: two request threads beside the script are one pair for every shared name; two seconds are the same
  and the next; two attempts are a failing one and another; two presses are one that repeats and one during a scan.
  One fault is a crash, a kill, a failing command or an unplugged scanner.
- `notifier`: two threads of four are enough to overtake, two endpoints (one for each of
  the health events, both for scans) to interleave; two changes of the health are a degradation with its recovery or an
  escalation; one event from elsewhere; one crash and one edit of the registry at any moment, or two edits
  (`MaxDisruptions`), so that the last endpoint that wants health events leaves and one comes.
- `login`: a lockout of three ticks, forgetting after five, a table limited to one entry, so that two clients are
  over the limit; the clock runs past a lockout and a forgetting. Threads and clients are symmetric.

In `updater`, `scanning`, `notifier` and `login`, what the bounds count may be used up, so these runs do not look for
deadlocks.

### Fairness

`jobmon`: weak fairness of the loop's own steps. `background_loop` catches every exception, sleeps a bounded
time and its two commands have timeouts (`shell.run`), so the loop always goes on; cupsd, the operator and
restarts owe nothing.

`notifier`: weak fairness of the calls of `emit`, of each thread of the pool and of the monitor. `_safe_deliver` catches
everything, `_post` has a timeout, `background_loop` catches everything and sleeps a bounded time. Endpoints may
refuse every post; the health and the operator owe nothing.

`station_live`: weak fairness of the switch handler and of the background sweep, for the same reason (the
sweep exists only when `PRNTBTLR_SELF_REPAIR_ENABLED=1`, which is `Background`), and of the expiry of cache
entries, which is the clock. Nobody has to open a page or press a button. Commands may fail, within
`MaxFaults`: after finitely many failures the next sweep succeeds. A host whose `systemctl` fails forever is not
repaired by anybody.

## What is proved

- `JobMonitor_proof`: `TypeCorrect`; `NoDuplicates` and `HistoryStaysQuiet` under `~PollMayFail`, for any
  number of jobs, restarts and changes of the registry. The inductive invariant ties the monitor's memory to what was
  dispatched: what is dispatched or in the outbox is in `state`, unless cupsd has dropped the job for
  good; what the memory lost by a reset is finished and hence in the next baseline. Without the
  hypothesis the theorem is false, as `jobmon_lpstat_fails` shows.
- `TtlCache_proof`: `TypeCorrect`, `Staleness`, `OverlapOnly`, for every TTL (zero and negative ones
  included), probe time, set of threads and keys. The invariant says of every value in flight or stored
  that it was current when it was sampled, and that it was sampled no longer than `ProbeMax` before its
  stamp; and of every undirty one that it is no older than the last acknowledged mutation.
- `Station_proof`: `TypeCorrect`; `OffHolds` (`OffMeansStopped`), for any host, any number of concurrent
  repair runs, faults and switches. The invariant: a run works only on functions it has read as on, and one
  of these is off now only if that was recorded as a disturbance; a unit of a function that is off
  undisturbed is down, or still on the handler's list, and disabled once its second verb is due; an
  absent unit is never up. `OffMeansStopped` alone is not inductive: it says nothing of what a run in
  flight may still do, nor of a switch that is half done.
- `StateFile_proof`: `TypeCorrect`, `WholeFile` (`WholeWhenUndisturbed`) and `Implements` (`DocumentSpec`), for any
  documents and edits and any number of savers, readers, inodes, crashes and failing calls. The invariant:
  busy savers all overlap each other, and if any does the file is tainted; no reader has the temporary
  file open; and a saver that has overlapped nobody is on track at every step (it has the file open it will
  change, its temporary file is empty, then holds its document, which is an edit of what the file says).
  The refinement needs the last part to show that a rename publishes an edit of the current document.

- `JobMonitor_proof` also has `SubmittedFirst` (`CompletedAfterSubmitted`), which needs no reliable `lpstat`. Its
  invariant is another one: a job counts as completed only when cupsd has finished it and no first listing holds
  it any more; and a job that is known as submitted but not as completed has one submission more than completions,
  or still one in the outbox, in front of the completion, unless a baseline adopted it or its submission went
  unheard.
- `Station_proof` also has `IdleStaysIdle` (`IdleHandlerLeftAlone`). As long as the exceptions the property names
  have not happened, the idle handler is down and disabled, the pick is enabled, the cache says no different of
  either, whatever its age, the switch handler has neither on its list and no repair run is at the idle one:
  then `scan_button_target` can only return the pick (`TargetIsPick`).
- `Updater_proof`: all of `TypeOK`, `PickIsNewest`, `PrefsHold`, `AnnouncedOnce`, `OfferNotOlder`,
  `AutoUpdateIsWanted`, for any catalogue, any number of threads that check, edits, marks and faults. First come the
  operators: the keys of `parse_version` order releases totally, and `PickLatest`, a fold, keeps the latest
  admissible release of every prefix of the feed (by well-founded induction on the length, for a set of lengths and not
  for a predicate, which is how it can be put to the provers). The invariant then says: while nothing is lost, the
  private copies of all checks in flight agree with the preferences; an undisturbed check is the only one; when all is
  quiet the endpoints know what the file offers, and the offer is older than neither the running program, nor the
  installed one, nor the one being installed (unless an update was torn; then a check that runs alone, with the two
  releases in agreement, restores it).
- `ButtonListener_proof`, about `ButtonListener` and the `ScanPublish` it extends: `OneScanPerPress`, `PagesOfOneRun`,
  `WholePdfs`, `ShareIsClean`, `ScansAreKept` and `TypeCorrect`, for any number of request threads, seconds, attempts,
  presses and faults. For the button: packets of one press stand together, those of a press that was
  acted on stand in front of all others, and an armed listener has left them behind, so the release that arms it
  comes after them. For the files: a request that is alone in its second has made exactly what its step says (a
  file that is open for it and no one else, or a whole one), the script's file likewise; in a second with one scan
  the library is empty until the scan is over; and unless something was killed every intermediate file has
  somebody at a step that will rename or remove it. `LibraryShowsWholePdfs` and `NoLeftovers` say nothing of these
  intermediate files and are not inductive alone.
- `Notifier_proof`: `OnePost`, `FewOvertaken`, `TrueWords` and `TypeCorrect`, for any endpoints, events, crashes and any
  size of the pool. An event on its way to an endpoint is in one place: a call of `emit`, a delivery in the pool,
  or posted. What waits has a later number than all that was taken, and some thread is always behind nobody; since
  what is overtaken is held by the other threads, there is less of it than threads. `LastWordIsTrue` needs that
  nothing was said from a later baseline and nothing at all before the first observation.
- `LoginThrottle_proof`: `LockedOut`, `Deserved`, `FewGuesses` and `TypeCorrect`, for any clients, threads, lockout, limit
  and delay. The invariant ties an entry to what happened: it counts all failures no long silence separates and no
  others, its time is off by a delay at most, and where there is none the last failure is long ago: which is what
  makes pruning harmless. A client's guesses since its lockout are all in the hands of threads, or one of them has been
  noted and locks it out again.

Every safety invariant and action property of the passing runs is thereby a theorem. The two that need a
hypothesis (`NoDuplicates`, `HistoryStaysQuiet`) have it in their statement.

The proofs assume only the named assumptions on the constants: bounds are naturals and sets are what their
comments say (`ConstantsAssumption`, `StationAssumption`, `StateFileAssumption`, `CatalogueAssumption`,
`BoundAssumption`, `NumbersAssumption`, `PressesAssumption`, `WantsAssumption`); the thread pools are finite
(`ThreadsAssumption` of `LoginThrottle`, `WorkersAssumption`, which also has one worker at least), as the pools of
anyio and of `webhooks.py` are; `None` and the names of the actors differ from all values they stand beside
(`NoneAssumption`, `ThreadsAssumption` of `ScanPublish`). In `LoginThrottle`, `NumbersAssumption` says of the settings what
`auth.py` fixes: a positive limit, a lockout no longer than the time after which failures are forgotten; and that
a thread is late by no more than a lockout. TLC evaluates all of them.

Invariants were checked by TLC on the runs' instances (in `jobmon` with a failing `lpstat` for the order of
events) before they were proved.

## Only model-checked

Liveness (`EverySubmissionReported`, `EveryCompletionReported`, `PrintingRepaired`, `ScanButtonRepaired`,
`RepairSettles`, `PoolDrains`, `ChangeIsNoticed`): TLAPS has no rules for fairness and `ENABLED`. What the properties of
the three *violation* runs say is false, and TLC's counterexample is the evidence.

## What the code does not promise

Modelling met these; the properties name them as exceptions, so that what they state is true:

- A probe of the cache that looked before a mutation and stores after the invalidation is served for a TTL, although
  `services/system.py` says a fresh read never lags a restart (`StaleOnlyByOverlap`).
- `webhooks.emit` asks for each event anew who wants it. An endpoint for completions only gets them without
  submissions, and an event whose turn comes while nobody wants it counts as reported (`unheard`).
- One dead cupsd is two failed checks, and `repair_cups` restarts it again for the second.
- Switching scanning off and on enables both scan-button handlers, also the one the installer had disabled.
- A check that overlaps a change of the preferences undoes it (`lost` in `Updater`).
- Two browser scans in one second share all their names; the library may then show a damaged file, and a scan
  by button in the same second replaces or is replaced (`LibraryShowsWholePdfs`, `NothingOverwritten`).
- A killed panel or script leaves hidden intermediates in the share (`killed` in `NoLeftovers`).
- Logins that are checked side by side are all admitted before the first failure is noted: after a lockout there
  are as many guesses as threads, not the one that the docstring of `LoginThrottle` names (`GuessesBounded`).
- A start of an update that `systemd-run` refuses is reported as started.

## Not modelled

Parsing of command output, templates, host information and password hashing: pure functions or library
code without state. CUPS administration: each function is one command. The repairs of printers, sharing
and the scan folder and the checks of network, scanner and storage: they touch no unit and share nothing with
the rest. A pair of `is-active` and `is-enabled` torn by a verb between them: the model
reads both at once. Power
failures: `save_json` calls no `fsync`, so what they leave is the file system's business.
The updater's `save_prefs` that cannot write, webhook payloads, signatures and `send_test`, device and option
parsing of the scanner, the growing pause of the listener without a scanner, scanbd (it starts the same script) and
the session cookie are left out: they hold no state another part reads. `/healthz` counts units on one set
of readings.

## Plan

Every module that keeps state has its safety properties proved. What is left:

1. `JobMonitor`: what a failing `lpstat` can do at worst (an event goes out once more per failed poll), as a bound
   that needs no hypothesis.
2. The safety halves of the liveness arguments: for `PoolDrains`, that a thread is idle only when the queue is
   empty or its next step is possible; for `RepairSettles`, that a run repairs each entry of a report once.
