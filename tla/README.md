# ml3error in TLA+

A verification project for `ml3error`, a Python library that reports a
program's errors to a chat or mailbox: it fingerprints exceptions, suppresses
repetitions, sends through a background worker, and mails a daily digest. The
modules model the code under `ml3error/` of the repository, not its
specification document: where the two disagree, a run shows it.

    tlc -workers 4 -config ReporterSafety.cfg MCReporter.tla
    tlc -workers 4 -config ReporterFaults.cfg MCReporterNotifier.tla
    tlapm ReporterProofs.tla

## 1. Inventory

| component | state | operations | hard because |
|---|---|---|---|
| reporting core, `__init__.py` | lock, in-flight set | `report`, `_report_log_record`, `_enqueue` | many threads; time read before the lock; store calls that fail half-way |
| worker, `worker.py` | bounded queue, one daemon thread | `submit`, `_run`, `shutdown` | sends outside the lock; queue full; thread start fails; process dies between send and write-back |
| SQLite store, `store/sqlite.py` | `fingerprints`, `meta` | `decide`, `record_sent`, `bump_*`, `claim_heartbeat`, `prune`, review helpers | autocommit statements, several connections, counters read and written in two statements |
| Redis store, `store/redis.py` | hashes with a TTL | the same contract | pipelines, clamp after the pipeline, expiring rows |
| heartbeat, `heartbeat.py` | one daemon thread per process, `meta.last_heartbeat` | poll, claim, snapshot, send, settle | several processes, stale times, late polls, failed sends |
| crash path, `_crash_handler`, `SQLiteCrashStore` | own connection, no lock | `decide`, `record_sent` | runs beside the worker of the same process |
| lifecycle, `init`, `close`, atexit | `_reporter`, `closed`, uninstallers | `init`, `close`, `ping`, `install_asyncio_hook` | sentinel and late submits, drain timeouts, closing what others still use |
| hooks, `hooks.py` | the interpreter's hook slots | install, uninstall, chain | others install hooks too |
| logging handler | thread-local flag | `emit` | records logged under the lock |
| review server and page, `web.py`, `static/` | list and filter in the browser | list, set resolved | another process on the same store; answers out of order |
| rendering and transports, `transport.py` | none | `render`, `send`, `send_with_deadline` | truncation of markup |
| fingerprints, `fingerprint.py` | none | `compute`, `compute_from_record` | what merges is silenced together |
| configuration, scrubbing, command line | none | pure functions and wiring | little |

What makes each correct: the core, that every occurrence is delivered, counted
or both on its way and counted, once; the cooldown, that it runs from confirmed
deliveries only; the worker, that a fingerprint never stays in flight; the
digest, one per day, without gaps, telling each count once; the crash path,
that it never loses the other threads' writes; the lifecycle, that what was
accepted before `close()` is sent or knowingly given up.

How they interact: a caller thread runs `_enqueue` under `_Reporter.lock`
(calls to the store, then to the worker's queue); the worker sends without the
lock and writes back under it; the heartbeat thread takes the same lock twice
per digest; the review page and other processes meet the library only in the
database.

The hazards these raise, each at its line, are listed in `PROJECT.json`.

## 2. Modules

| module | models | composed of |
|---|---|---|
| `SqliteStore` | `store/sqlite.py`, per row: each method an operator from row to row (`Decided`, `Sent`, `Bumped`, ...), `Partial...` what it may leave behind when it raises | |
| `Reporter` | `_enqueue`, `worker.py`, restart, the review page's write | `SqliteStore` |
| `Notifier` | the promise: an occurrence becomes an alert or is counted, an alert tells and is delivered or lost | abstract |
| `ReporterNotifier` | the refinement mapping of `Reporter` to `Notifier` | both |
| `Heartbeat` | `heartbeat.py` in several processes, the counters statement by statement | |
| `CrashPath` | `_crash_handler` and `SQLiteCrashStore` beside reporting threads and workers, statement by statement | `SqliteStore` |
| `Lifecycle` | `init`, `close`, the sentinel, drain and join timeouts, stores closed or left open | |
| `LogGuard` | the logging handler, the reentrance flag, the reporter's lock and `logging`'s own | |
| `RedisStore` | `store/redis.py`, by batch of commands, with expiry, in several processes and beside a dying thread | |
| `Hooks` | a hook slot, `hooks.py` and its use in `init`, `close`, `install_asyncio_hook`, and another library | |
| `Render` | `render()`, its truncation and tag closing, the choice of markup | |
| `ReviewUI` | `script.js` and the server's `do_GET`, `do_POST` | |
| `Fingerprint` | `fingerprint.py`, `_resolve_traceback` | |
| `Periphery` | nothing of its own: a behaviour of one of the four above, which share no state | `Hooks`, `ReviewUI`, `Render`, `Fingerprint` |
| `MC...` | instances for TLC: model values, symmetry, sets of inputs | |
| `ReporterProofs`, `HeartbeatProofs`, `CrashPathProofs`, `LifecycleProofs`, `LogGuardProofs`, `RedisStoreProofs`, `PeripheryProofs` | theorems about the module of that name | |
| `ReporterNotifierProofs` | that `Reporter` implements `Notifier` | `ReporterProofs` |

`Reporter`. A call is two steps, because `now = time.time()` precedes the lock:
`Report` reads the time, and one of `SuppressInFlight`, `SuppressCooldown`,
`Submit`, `Drop`, `RenderRaises` is the whole critical section, one action per
way through it. The worker is `WorkerGet`, `SendDelivers` or `SendFails`,
`RecordSent` or `RecordFailure`; `pc` says where it is, `"none"` while no
thread was started. `SetResolved` is the review page, `Restart` a kill and a
new `init()` (which prunes), `Tick` the clock. `FaultKinds` says what may fail:
any store call (`"store"`), starting the worker thread (`"thread"`), `render()`
(`"render"`); `decide()` that fails leaves any of the states its statements can
leave. `history` and `tally` are read by properties only.

`Notifier` has no queue, store or worker: per error, what is untold, when the
last alert was delivered, the alert on its way, and whether the error is
marked. Its last section says all that a kill or a failing store may do to
that: a delivery not settled may be forgotten, an alert sent blind, a loss go
uncounted. `ReporterNotifier` reads these variables off the rows, the queue and
the worker's hands, never off `history`.

`Heartbeat` has one heartbeat thread and one other thread per process. Within
a process they exclude one another by `lock`; between processes only single
statements and the `BEGIN IMMEDIATE` transaction of `claim_heartbeat` are
atomic, so a counter's update is `ReadCounter` then `WriteCounter`. `Poll`
reads the time, `ShouldFire` decides, `Claim` or `ClaimRefused`, `Snapshot`,
`SendDelivers` or `SendFails`, `Settle` and the counter updates, `Release`.
`ReadNow` and `Occur` are a call of `_enqueue`, which may put its fingerprint in
flight. `WorkerSends` and `WriteBack` are the worker, which takes the alerts in
any order: the time it reads after a send is what `record_sent()` writes into
`last_activity`, the column the digest's window is about, even over a later
time. `HeartbeatRaises`, `ReporterRaises`, `WriteBackRaises` and `Kill` break
off anywhere. `ghost` is read by properties only; in it `overtaken` are the rows
last written with a time before the last claim.

`CrashPath` takes one row and gives every statement a step: `Main...` is
`report()` in each process, `Worker...` its worker, `Crash...` the handler in
`sys.excepthook`, whose statements may also find the database busy, and whose
send is given up at its deadline while the helper thread may still deliver.
What `decide()` saw is kept in `seen` from its SELECT to its UPDATE.

`Lifecycle` numbers the reporters, as an old one lives on in threads that hold
it. A caller's path is the check for a closed reporter, `put_nowait`, and
`_ensure_thread`; `Close...` follows `close()` in order, with the sentinel put
or refused, the join that may time out, and the decision to close the stores.

`LogGuard` has per thread what it holds of three things in the order the code
takes them: `logging`'s handler lock, the reporter's lock, the thread-local
flag. `setting.innerLogs` lets code under the lock log, `setting.interrupts`
lets a signal handler log anywhere; every combination is an initial state.

`RedisStore` sends commands in batches: a pipeline with MULTI is one step, a
bare command a step of its own, and any other process, the dying thread or the
expiry of the key may come between two steps, also between the HGETALL of a
method and the pipeline that would have renewed the TTL. Commands raise in the
dying thread only; what a failing store does to `report()` and the worker is in
`Reporter`. `ghost.stale` are the processes that read a row which has expired
since, `ghost.lost` that such a count was subtracted from the present row,
`ghost.bare` that a clamp made it. `scenario` says which processes
there are, whether one is dying, whether somebody reviews, and the bounds; it
never changes, so that one run covers the three situations of `MCScenarios`.

`Hooks` numbers the hooks; each knows what it found, and `Chain` is what runs.
To read the slot and to set it, to check it and to restore it, are steps apart
(`Look`, `Put`, `Check`, `Restore`), and three actors interleave in them: whoever
installs for us, `close()`, and the other library. `init()` and
`install_asyncio_hook()` are one actor, as the only slot both use is a loop's
and both then run in its thread. `step` holds what an actor saw and what came
since; `overwritten` are the hooks that came so and were written over.
`InitRaises` is an `init()` whose later hook cannot be installed.
`Render` writes a body as pieces with lengths, so that a cut can fall inside a
tag, an entity or text. `ReviewUI` keeps the requests under way as a sequence;
the server handles them in any order, and `overtaken` are the rows of which it
took a later click first. `Fingerprint` compares two occurrences. `Periphery`
chooses one of the four (`part`) and lets it run while the others rest.

Abstractions. A fingerprint is a model value, a message the suppressed count
and the banner it carries. Time is in whole ticks. `first_seen`, `total_count`
and the display columns are left out: they are printed and never tested. The
digest preview of the command line and the digest's top-ten cut write nothing
to what is modelled. In `Reporter` a store call is one step, because the lock
excludes the threads of the process; only `SetResolved` comes from outside,
between calls: `CrashPath` takes the statements apart.

## 3. Runs

| run | bounds | what it shows |
|---|---|---|
| `reporter_safety` | 2 fingerprints, 2 threads, queue of 1, cooldown 2, clock to 2, 4 occurrences, no failures | the accounting of every occurrence, the saved message, the cooldown |
| `reporter_faults` | 2 fingerprints, 1 thread, cooldown 1, pruning age 0, clock to 1, 3 occurrences, 1 failure of any kind, 1 kill | in-flight set, suppression counts and `last_notified` under failures and a restart that prunes; a fingerprint in flight leaves; `Reporter` implements `Notifier` |
| `heartbeat_shared` | 2 processes, 3 slots, 1 failure, 1 kill | one digest per slot, `last_heartbeat` grows, the last slot is claimed |
| `heartbeat_digest` | 1 process, 2 slots, 2 occurrences, 1 failure, 1 kill | counters told and subtracted exactly; windows without gaps but for rows overtaken by an older time, also for an occurrence while an alert is on its way (for more processes: section 5) |
| `crash_path` | 1 process and the dying thread, 3 occurrences, cooldown 2, clock to 2, a database that may be busy | types hold through every interleaving of statements; the cooldown silences only after a delivery; the handler returns |
| `lifecycle` | 2 threads, queue of 1, 2 inits, 2 alerts | stores are closed only after the worker wrote back what it had; `close()` returns; earlier alerts are sent |
| `log_guard` | 3 threads, all four settings | no thread waits for its own lock; only records of the library's own critical section are dropped; every call returns |
| `redis` | TTL 2; one process, the review page, clock to 2, 4 occurrences; or one process, clock to 4, 3 occurrences; or two processes, a dying thread, a kill, digests, clock to 1, 2 occurrences | suppressions conserved until a count read from an expired row is subtracted from the next, counters conserved, every row left has a TTL, the cooldown silences only after a delivery |
| `periphery` | 4 hooks of ours and others, each read and write of the slot apart; 1 row and 5 requests in any order, with losses and recurrences; every shape of alert, all settings, cuts at 14 to 90 characters; 2 deployments, 4 files, all pairs of occurrences | nobody else's hook drops out of the chain, and an open reporter is in it, unless put there between another's read and write; the last click decides, a page at rest is current; tags balanced, text escaped exactly where parsed, only the tail lost; what counts as one error |
| `failed_send`, `regression`, `heartbeat_window` | as small as shows it | violated: section 4 |

Why the bounds suffice. `Reporter`: a queue of one is full after one alert and
the worker holds another, so with two fingerprints the third alert is dropped;
a cooldown of one or two ticks has alerts before, at and after its end; four
occurrences are an alert, a suppressed one in flight, a suppressed one in the
cooldown and one more. Two threads make a stale `now`; the run with failures
has one thread, as its clock may still run between reading the time and taking
the lock, and one failure and one kill in either order, at any step. A pruning
age of zero forgets at the restart every row not touched in the current tick.
`Heartbeat`: a slot every other tick has a digest before and after each, and
times of a previous day still in hand when the next is claimed, and the clock
stops a tick after the last one; `heartbeat_shared` leaves the occurrences out
for a third slot. Two occurrences are an alert and one more while the worker has
a time in hand for the first.
`CrashPath`: three occurrences and the crash are an alert, a suppressed one,
and one that meets the crash between any two statements. `Lifecycle`: two
callers are one ahead of and one behind `close()`, two reporters an old one
that lives on, and a queue of one is full when the sentinel comes.
`RedisStore`: a TTL of two with a clock to two expires a row, before or
inside a method, and lets it be made anew, and a clock to four does so twice,
the second time between a pipeline and its clamp. `Hooks`: four hooks are two
reporters, a hook too many of ours and one of another library, or two of theirs
around ours. `Render`: the caps put the cut at every character of the shorter
bodies and of the first part of the longer ones, where each kind of piece
occurs. `ReviewUI`: five requests are the first list, a mark with its list, and
two more of either kind. All counters that would grow for ever are bounded by
`Max...` constants in the guards.

`CHECK_DEADLOCK FALSE` where the system may really stop: an idle reporter
once the clock and the occurrences are used up (`Reporter`, `CrashPath`,
`RedisStore`), a closed reporter with its threads ended (`Lifecycle`), threads
that have logged all they will (`LogGuard`, whose deadlocks are stated as
properties), hooks and requests used up and functions that have returned
(`Periphery`). `Heartbeat` polls for ever, and its runs check for deadlock.

Fairness. `Reporter`: weak fairness of the worker's steps. `_run` is an endless
loop in a thread nothing stops, transports have a timeout, and its critical
section waits for nothing. `InFlightDrains` speaks of the times when a worker
was started: when starting it failed, the item waits for another report.
`Heartbeat`: weak fairness of each heartbeat thread and of the holder of the
lock. A `threading.Lock` is not fair, but occurrences are bounded in the model
and rare in the program, so the lock does become and stay free; in the run of
`SlotClaimed` there are none. `CrashPath`:
weak fairness of the handler's own steps alone, since it takes no lock and its
send has a deadline; nothing is assumed of the threads beside it. `Lifecycle`:
`CloseFair` assumes only that the thread inside `close()` runs (each of its
waits has a timeout); that the worker runs and submits end is the premise
`ThreadsGoOn` of the one property that needs it. `LogGuard`: threads that hold a
lock run, and strong fairness of taking the two locks, which is more than
`threading.Lock` promises under permanent contention; the finite number of
calls of a program between two idle moments gives it.

Every property of a passing run is paired in `PROJECT.json` with a mutant, a
plausible bug in one definition (written next to it and marked `Bug:`), under
which TLC finds the property violated.

## 4. Where documents and code disagree

Shown by a run:

- `failed_send`: `SPEC.md:261-263` says that after a failed send every later
  occurrence retries. A regression alert is sent inside the cooldown of an
  earlier one; if it fails, the earlier `last_notified` stands and `resolved`
  is already cleared, so the next occurrence is suppressed.
- `regression`: `store/base.py:12-14` says that an occurrence which clears
  `resolved` surfaces the regression in a message. `bump_suppressed()` clears
  it for a fingerprint in flight, whose message was rendered before.
- `heartbeat_window`: `SPEC.md:466-471` calls the digest a summary since the
  last *successful* one. That holds for its counters; its list of errors
  reaches back to the last *claimed* slot.

The modules end with further statements of the documents that the code does
not keep, under the heading "What the documents say and the code does not do".
To see the counterexample, replace the INVARIANT and PROPERTY lines of the
configuration named here by the formula (those of `Hooks`, `ReviewUI`, `Render`
and `Fingerprint` get a name in `Periphery` first, such as
`Removed == Slot!RemovedByClose`, or
`Capped == part = "render" => Body!HardCap`).

| formula | configuration | what happens |
|---|---|---|
| `CrashPath`: `PROPERTY ClearForgetsNothing` | `CrashPath.cfg` | `store/sqlite.py:370-371` sees no concurrent writer; clearing `suppressed_count` after a crash's alert also clears what was suppressed since |
| `INVARIANT BumpsAreCounted` | `CrashPath.cfg` | `SPEC.md:417-420` calls the statements safe; a bump of the counter that reads before and writes after another is lost |
| `INVARIANT SuppressesOnlyUnresolved` | `CrashPath.cfg` | against `store/sqlite.py:124-128`, a mark set between `decide()`'s SELECT and UPDATE is cleared by an occurrence that was suppressed |
| `Heartbeat`: `PROPERTY ListsTheActive` | `HeartbeatWindow.cfg`, `MaxOccur = 2` | `heartbeat.py:52-53`, "errors active in this window"; the worker reads its time, the slot passes, an occurrence of the same fingerprint is counted, and `record_sent()` writes the worker's time over the later one (`worker.py:82`, `store/sqlite.py:159`): the next digest leaves the error out, although nothing failed |
| `Lifecycle`: `INVARIANT NothingStranded` | `Lifecycle.cfg`, `QueueSize = 2` | `SPEC.md:66-67`; an alert of a thread that passed the check for a closed reporter lies behind the sentinel for ever |
| `INVARIANT WriteBacksFindStoreOpen` | `Lifecycle.cfg` | `__init__.py:196-202`; the same thread starts a worker again after the stores were closed |
| `INVARIANT DigestsSettle` | `Lifecycle.cfg` | `SPEC.md:398-400`; a heartbeat that outlived its join settles on a closed store |
| `LogGuard`: `INVARIANT NoCircularWait` | `LogGuard.cfg` | `tests/test_integration.py:262-264`; with the handler at WARNING, a thread that reports through the handler and the worker that logs under the lock wait for each other |
| `NoSelfDeadlock` without its premise | `LogGuard.cfg` | `__init__.py:30-33`; a signal handler between taking the lock and setting the flag waits for its own thread |
| `RedisStore`: `PROPERTY RecordSentKeepsBumps` | `RedisStore.cfg`, with both processes, no crash, no review, clock to 1, 5 occurrences in `MCScenarios` | `store/base.py:49-53`; two processes subtract the same suppressions twice |
| `INVARIANT CountsDieWithTheirRow` | `RedisStore.cfg` | `store/base.py:49-53`; the row expires between HGETALL (`store/redis.py:69`) and the pipeline (99, 112), the message tells the old row's count, and `record_sent()` takes it from the new row and clamps at zero (138-140): suppressions of the new row are forgotten |
| `INVARIANT RowsAlwaysExpire` | `RedisStore.cfg` | `SPEC.md:440-441`; a kill between HSET and EXPIRE leaves a row for ever |
| `INVARIANT RowsAreNamed` | `RedisStore.cfg` | `store/base.py:30-32`; resolving an expired row makes one without names |
| `Hooks`: `OthersAreAlwaysKept` | `Periphery.cfg` | `SPEC.md:523-524`; a hook that another thread puts in the slot between `hooks.py:20` and 32, or 35 and 36, is written over and never called |
| `Hooks`: `RemovedByClose` | `Periphery.cfg` | `__init__.py:257-258`; `close()` leaves a hook in place that is not in the slot when its turn comes, because another library came after it or a second hook of ours did |
| `Render`: `HardCap`, `NoBareAmpersand` | `Periphery.cfg` | `SPEC.md:171`, `transport.py:120, 133`; closing tags take an HTML body beyond the cap; a cut inside an entity leaves a bare ampersand |
| `ReviewUI`: `ShowsTheFilter` | `Periphery.cfg` | lists answered in the other order leave the rows of one filter under the button of another |
| `Fingerprint`: `LogFunctions` | `Periphery.cfg` | `SPEC.md:134`, `__init__.py:301`; a log record's fingerprint holds its line, two documents say it does not |

Seen while modelling and left out of the properties, as no document promises
otherwise: an occurrence that reads its time before the slot and gets the lock
after the digest's snapshot is listed by no digest for its own sake, and takes
an earlier one of its row out of the window (`Occurred` in `Heartbeat`). Two
clicks on one row whose marks the server handles in the other order leave the
first: `LastClickWins` excuses the rows `overtaken` so. Two Redis processes
that make a row at the same time may lose a suppressed occurrence.

## 5. Proofs

Every safety property that a run checks is also a theorem, for every value of
the constants, under no assumption but those that the modules state of their
constants; where one process alone is meant, that is said below. Where a
property is not inductive, its strengthening holds on the run's instance too: to
see it, let TLC take the invariant named below from the module of proofs. (Only
`RenderInv` is beyond TLC, as `Path` asks for a function out of all.)

`ReporterProofs`, from `StoreAssumption` and `ReporterAssumption`: any threads,
fingerprints, queue size, cooldown, pruning age and bounds. The in-flight set is
inductive with the types (`TypeCorrect`, `InFlightIsExact`). The others need
`Inv`: for each alert on its way, `Covered` (the row counts at least what the
message will report, so the later subtraction never hits zero) and `StillDue`
(the cooldown since the last delivery was over when it was decided, and stays
over, because no other alert for that fingerprint can be delivered in between);
for each fingerprint `Conserved`, `Notified`, `Known`; and that a caller's time
is not in the future. A stale `now` is harmless for the cooldown because it only
makes the elapsed time smaller. One lemma per action shows that `Inv` is kept.
`SuppressionsAreConserved`, `NotifiedIsDelivered`, `PendingAlertsHold` and
`CooldownIsHonoured` follow from it. `OccurrencesAreAccounted` adds that without
failures the occurrences that left the callers are `Balance`: delivered, on their
way, dropped, failed or suppressed, each action moving one from one place to
another. `StoredMessageIsPending`: what a row saves for the review page is the
message that is on its way.

`ReporterNotifierProofs`: `ReporterKeepsThePromises`, the refinement. The initial
state maps to an initial state, and every step, failures and kills included, to a
step of `Notifier` or a stutter. The mapping reads alerts off the queue and the
worker's hands with a CHOOSE, and `AlertsForm` says what it is: as the in-flight
set is exact, the one alert of each fingerprint. What the store can be proved to
keep is `RowsKept`: without failing stores the row of a fingerprint in flight is
in the table, so that no write-back is lost.

`HeartbeatProofs`, from `HeartbeatAssumption`: any processes, fingerprints,
length of day and target time. `SlotsAreSentOnce` and `HeartbeatIsMonotone`
from `SlotInv`: all slots claimed or sent are at most `last_heartbeat` and
pairwise different, and a claim needs a greater one. `WindowsLeaveNoGap` from
`CoverInv`: a fingerprint that no digest has listed is stored and unresolved, and
its `last_activity` is at or after `last_heartbeat`, or at or after the `since`
of a digest that is claimed and has yet to read its window, unless an older time
was written over it (`overtaken`). `CountersAreConserved` is stated for a store
that only one process uses, and is false for two: `_meta_bump()` reads and
writes in two statements. `CountInv` follows the counter through them: what a
digest told and has not subtracted yet is `Unsettled`, and bumps and unsettled
together are what was reported and what is counted.

`CrashPathProofs`, from `CrashAssumption` and `StoreAssumption`: any processes,
cooldown, and interleaving of statements. `OnlySilencedAfterDelivery` from
`DeliveryInv`: every time that the row has as `last_notified`, or that a worker
or the dying thread is about to write there, is backed by a delivery, and
whoever is on the way to the UPDATE of a suppression saw such a time.

`LifecycleProofs`, from `LifecycleAssumption`: any threads, reporters, alerts
and queue size. `StoresCloseFlushed` from `FlushInv`: an alert that `report()`
accepted before `close()` began is ahead of the sentinel, with the worker, or
written back, through refused sentinels and drains that time out.

`LogGuardProofs`, from `GuardAssumption`: any threads. `TypeCorrect` (which no
run repeats); `GuardPreventsSelfDeadlock`, that without interrupts no thread
waits for the lock it holds, because whoever holds the lock beyond its first
step has the flag set; and `OnlyInnerRecordsAreDropped`.

`RedisStoreProofs`, from `RedisAssumption`: any finite set of processes,
scenarios and TTL. One invariant, `Inv`, of five parts: the types, which tie
each process's batches still to come to where it is; `CountersConserved`;
`Delivered`; `Expires` (a row without a TTL has somebody at work on it who will
set one, or was made by a clamp); `Conserved` (with one process, while no count
of an expired row was subtracted from the present one: `Sums`, the row counts
what no recorded message told, and `Accounts`, the message on its way carries
what it was told of a row that is still there). An expiry makes every count in
hand `stale`, and the subtraction of a stale one is `lost` until the row
expires in turn, so that `Sums` need not speak of it. One lemma per action;
`SuppressionsAreKept` speaks of one process, as the property does.

`PeripheryProofs`, from `PeripheryAssumption` and `BodiesAssumption` (bodies
that `render()` does not write but `_close_dangling_html()` takes are HTML whose
tags nest). Its proofs need induction over hooks and over pieces, which
`LeastElement` replaces: a set of numbers that is not empty has a least member,
so the least counterexample has a predecessor that is none.
The hook slot: `SlotInv`, that the hooks of others that are not removed are
`Kept`, and ours while the reporter is open: in `Chain[slot]` and in the chain
that each actor about to write the slot will leave there (`Leaves`), or put there
since that actor's read, or written over so already; `ChainUnfolds` says what the
recursive `Chain` is. The page: `PageInv`, for each row whose clicks did not
overtake one another that the server answered its posts in order (`Ordered`),
that the last one under way has the mark last wanted (`LastWanted`), and that the
store has it once none is (`Settled`); and that the last list asked for is
`Fresh`. Fingerprints: `ProjectErrorsHold` and `LogSitesHold`, from what is left
of a path inside its root. The body: `Size` and `OpenTags` are shown to be the
functions that add up sizes and push tags (`SizeIs`, `OpenTagsIs`); `CutIs` says
where a cut falls; `Path(b, s, c)` that the pieces `s` take the stack of open
tags from `b` to `c` with every closing tag closing the last one opened. Paths
compose, every body assembled is one from the empty stack to itself, a cut is
one to some stack, and the closers are one back. `PairCloses` counts tags along
a path, from which `TagsAreBalanced`; `TextIsEscaped` and `OnlyTailsAreLost`
come with it.

Model-checked only: `InFlightDrains`, `SlotClaimed`, `CrashReturns`,
`CloseReturns`, `EarlyAlertsSent`, `EveryCallReturns`: liveness under fairness,
out of the prover's reach.

## 6. Plan

Done: every module of section 2. Left: `CrashPath` with the rows of two
fingerprints and a kill of the dying process at its deadline.

Not modelled, and not planned: configuration parsing and scrubbing (pure
functions of text, covered by the repository's tests), the command line's
wiring, store selection by URL, serving of static files, and delivery itself,
which a third-party library does over the network and which appears wherever it
is called as an answer that is yes, no or late.
