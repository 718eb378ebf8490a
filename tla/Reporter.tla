------------------------------- MODULE Reporter -------------------------------
(***************************************************************************)
(* One process with an initialised reporter: the threads that call         *)
(* report(), the critical section of _enqueue (src/ml3error/__init__.py),  *)
(* the bounded queue and the worker thread (src/ml3error/worker.py), over  *)
(* the rows and counters of the state store.  A second process, the review *)
(* page, marks fingerprints resolved.  The process may be killed and       *)
(* started again: memory is lost, the store stays.                         *)
(*                                                                         *)
(* Each critical section is one action (its caller holds _Reporter.lock);  *)
(* what runs outside the lock, reading `now`, sending, is a step apart.    *)
(***************************************************************************)
EXTENDS SqliteStore, Sequences

CONSTANTS Fp,          \* fingerprint keys
          NoFp,        \* no fingerprint
          Caller,      \* threads that call report()
          QueueSize,   \* constants.QUEUE_SIZE
          FaultKinds,  \* which of {"store", "thread", "render"} can fail
          MaxClock,    \* bound: the clock stops here
          MaxOccur,    \* bound: no call begins after this many occurrences
          MaxFaults,   \* bound: failures of the kinds in FaultKinds
          MaxKills     \* bound: kills of the process

ASSUME ReporterAssumption ==
  /\ NoFp \notin Fp
  /\ QueueSize \in Nat \ {0}
  /\ FaultKinds \subseteq {"store", "thread", "render"}
  /\ {MaxClock, MaxOccur, MaxFaults, MaxKills} \subseteq Nat

VARIABLES
  clock,     \* time.time()
  rows,      \* table fingerprints
  meta,      \* the three running counters
  inFlight,  \* _Reporter.in_flight
  queue,     \* Worker._queue
  pc,        \* where the worker thread is
  item,      \* the item the worker took from the queue
  sentAt,    \* the worker's `now`, read when send() returned
  call,      \* per thread: the fingerprint it reports and its `now`
  history,   \* per fingerprint, for the properties only (see History)
  tally,     \* for the properties only: occurrences accepted, delivered
  spent      \* how much of the bounds on faults and kills is used

memory == <<inFlight, queue, pc, item, sentAt, call>>
vars == <<clock, rows, meta, memory, history, tally, spent>>

-----------------------------------------------------------------------------
\* A queued alert: the message rendered for it, and `blind` when decide()
\* raised and the alert is sent without knowing the state.
Item == [fp : Fp, count : Nat, reopened : BOOLEAN, blind : BOOLEAN]
NoItem == [fp |-> NoFp, count |-> 0, reopened |-> FALSE, blind |-> FALSE]

Call == [fp : Fp, now : Nat]
NoCall == [fp |-> NoFp, now |-> 0]

\* suppressed: occurrences suppressed since the row was created;
\* reported: how many of them delivered messages have told;
\* at: time of the last delivered alert; recorded: the store knows of it,
\* or will once the worker has written it back; failed: the last send failed.
History == [suppressed : Nat, reported : Nat, at : Int, recorded : BOOLEAN,
            failed : BOOLEAN]
NoHistory == [suppressed |-> 0, reported |-> 0, at |-> Never,
              recorded |-> FALSE, failed |-> FALSE]

OneMoreSuppressed(h) == [h EXCEPT !.suppressed = @ + 1]
Delivered(h) == [h EXCEPT !.reported = @ + item.count, !.at = clock,
                          !.recorded = TRUE, !.failed = FALSE]
Failed(h) == [h EXCEPT !.failed = TRUE]
Recorded(h, ok) == [h EXCEPT !.recorded = ok]
Forgotten(h) == [h EXCEPT !.suppressed = 0, !.reported = 0,
                          !.recorded = FALSE]

Queued == {queue[i].fp : i \in 1..Len(queue)}
Held == {item.fp} \ {NoFp}

Init ==
  /\ clock = 0
  /\ rows = [fp \in Fp |-> NoRow]
  /\ meta = NoCounters
  /\ inFlight = {}
  /\ queue = <<>>
  /\ pc = "none"
  /\ item = NoItem
  /\ sentAt = Never
  /\ call = [c \in Caller |-> NoCall]
  /\ history = [fp \in Fp |-> NoHistory]
  /\ tally = [accepted |-> 0, delivered |-> 0]
  /\ spent = [faults |-> 0, kills |-> 0]

-----------------------------------------------------------------------------
(* Failures.                                                               *)

Attempts(kind) == IF kind \in FaultKinds THEN BOOLEAN ELSE {TRUE}

Cost(ok) == IF ok THEN 0 ELSE 1

Spend(faults) ==
  /\ spent.faults + faults <= MaxFaults
  /\ spent' = [spent EXCEPT !.faults = @ + faults]

-----------------------------------------------------------------------------
(* The threads that report.                                                *)

\* report() up to `now = time.time()`: the lock is not held yet.
Report(c, fp) ==
  /\ call[c] = NoCall
  /\ tally.accepted < MaxOccur
  /\ call' = [call EXCEPT ![c] = [fp |-> fp, now |-> clock]]
  /\ UNCHANGED <<clock, rows, meta, inFlight, queue, pc, item, sentAt,
                 history, tally, spent>>

\* The whole `with _LockWithGuard(r.lock)` block is one step of the caller,
\* at the end of which report() has returned (or raised).
Critical(c) ==
  /\ call[c] # NoCall
  /\ call' = [call EXCEPT ![c] = NoCall]
  /\ tally' = [tally EXCEPT !.accepted = @ + 1]
  /\ UNCHANGED <<clock, item, sentAt>>

\* The branch `if fp_key in r.in_flight`.
SuppressInFlight(c) ==
  LET fp == call[c].fp IN
  /\ Critical(c)
  /\ fp \in inFlight
  /\ \E ok \in Attempts("store") :
       /\ Spend(Cost(ok))
       /\ \E row \in IF ok THEN {Bumped(rows[fp], clock)}
                           ELSE PartialBumps(rows[fp], clock) :
            rows' = [rows EXCEPT ![fp] = row]
       /\ meta' = IF ok THEN BumpCounter(meta, "suppressed") ELSE meta
       /\ history' = IF ok /\ rows[fp].stored
                     THEN [history EXCEPT ![fp] = OneMoreSuppressed(@)]
                     ELSE history
  /\ UNCHANGED <<inFlight, queue, pc>>

\* decide() as the caller sees it: its row, its decision, or the fallback
\* "maybe duplicate over definitely miss" when it raises.
Verdicts(row, now) ==
  {[row |-> Decided(row, now), decision |-> DecisionOn(row, now), ok |-> TRUE]}
  \union
  {[row |-> left, ok |-> FALSE,
    decision |-> [should_send |-> TRUE, suppressed_count |-> 0,
                  was_resolved |-> FALSE]] :
     left \in PartialDecides(row, now)}

\* Cooldown: the occurrence is counted in the row and nothing is sent.
SuppressCooldown(c) ==
  LET fp == call[c].fp IN
  /\ Critical(c)
  /\ fp \notin inFlight
  /\ ~ShouldSend(rows[fp], call[c].now)
  /\ rows' = [rows EXCEPT ![fp] = Decided(@, call[c].now)]
  /\ meta' = BumpCounter(meta, "suppressed")
  /\ history' = [history EXCEPT ![fp] = OneMoreSuppressed(@)]
  /\ UNCHANGED <<inFlight, queue, pc, spent>>

\* Bug: room for one more than the queue holds.
QueueFull_Late == Len(queue) > QueueSize

QueueFull == Len(queue) >= QueueSize

\* set_last_message() under its own try, then submit(), whose put_nowait
\* either succeeds, and may have to start the worker thread, ...
Submit(c) ==
  LET fp == call[c].fp IN
  /\ Critical(c)
  /\ fp \notin inFlight
  /\ ~QueueFull
  /\ \E v \in Verdicts(rows[fp], call[c].now),
        saved \in Attempts("store"), started \in Attempts("thread") :
       LET m == [count |-> v.decision.suppressed_count,
                 reopened |-> v.decision.was_resolved]
       IN
       /\ v.ok \in Attempts("store")
       /\ v.decision.should_send
       /\ pc = "none" \/ started
       /\ Spend(Cost(v.ok) + Cost(saved) + Cost(started))
       /\ rows' = [rows EXCEPT ![fp] =
                     IF saved THEN WithMessage(v.row, m) ELSE v.row]
       /\ queue' = Append(queue, [fp |-> fp, count |-> m.count,
                                  reopened |-> m.reopened, blind |-> ~v.ok])
       /\ pc' = IF pc = "none" /\ started THEN "idle" ELSE pc
  /\ inFlight' = inFlight \union {fp}
  /\ UNCHANGED <<meta, history>>

\* ... or finds the queue full: the in_flight entry is rolled back and the
\* loss is counted.
Rollback(flying, fp) == flying \ {fp}

Drop(c) ==
  LET fp == call[c].fp IN
  /\ Critical(c)
  /\ fp \notin inFlight
  /\ QueueFull
  /\ \E v \in Verdicts(rows[fp], call[c].now),
        saved \in Attempts("store"), counted \in Attempts("store") :
       LET m == [count |-> v.decision.suppressed_count,
                 reopened |-> v.decision.was_resolved]
       IN
       /\ v.ok \in Attempts("store")
       /\ v.decision.should_send
       /\ Spend(Cost(v.ok) + Cost(saved) + Cost(counted))
       /\ rows' = [rows EXCEPT ![fp] =
                     IF saved THEN WithMessage(v.row, m) ELSE v.row]
       /\ meta' = IF counted THEN BumpCounter(meta, "dropped") ELSE meta
  /\ inFlight' = Rollback(inFlight \union {fp}, fp)
  /\ UNCHANGED <<queue, pc, history>>

\* render() has no try around it: when it raises, what decide() wrote stays
\* and report() raises.
RenderRaises(c) ==
  LET fp == call[c].fp IN
  /\ "render" \in FaultKinds
  /\ Critical(c)
  /\ fp \notin inFlight
  /\ \E v \in Verdicts(rows[fp], call[c].now) :
       /\ v.ok \in Attempts("store")
       /\ v.decision.should_send
       /\ Spend(Cost(v.ok) + 1)
       /\ rows' = [rows EXCEPT ![fp] = v.row]
  /\ UNCHANGED <<meta, inFlight, queue, pc, history>>

-----------------------------------------------------------------------------
(* The worker thread, Worker._run.                                         *)

WorkerGet ==
  /\ pc = "idle"
  /\ queue # <<>>
  /\ item' = Head(queue)
  /\ queue' = Tail(queue)
  /\ pc' = "sending"
  /\ UNCHANGED <<clock, rows, meta, inFlight, sentAt, call, history, tally,
                 spent>>

\* transport.send() returns True; `now` is read after it, before the lock.
SendDelivers ==
  /\ pc = "sending"
  /\ pc' = "sent"
  /\ sentAt' = clock
  /\ history' = [history EXCEPT ![item.fp] = Delivered(@)]
  /\ tally' = [tally EXCEPT !.delivered = @ + 1]
  /\ UNCHANGED <<clock, rows, meta, inFlight, queue, item, call, spent>>

\* It returns False or raises.
SendFails ==
  /\ pc = "sending"
  /\ pc' = "failed"
  /\ sentAt' = clock
  /\ history' = [history EXCEPT ![item.fp] = Failed(@)]
  /\ UNCHANGED <<clock, rows, meta, inFlight, queue, item, call, tally, spent>>

\* Bug: the discard is skipped when the write-back raises.
Landed_OnSuccess(flying, fp, ok) == IF ok THEN flying \ {fp} ELSE flying

\* Under the lock: the write-back, then in_flight.discard whether or not the
\* write-back raised.
Landed(flying, fp, ok) == flying \ {fp}

WriteBack(ok) ==
  /\ Spend(Cost(ok))
  /\ inFlight' = Landed(inFlight, item.fp, ok)
  /\ pc' = "idle"
  /\ item' = NoItem
  /\ sentAt' = Never
  /\ UNCHANGED <<clock, queue, call, tally>>

RecordSent ==
  /\ pc = "sent"
  /\ \E ok \in Attempts("store") :
       /\ WriteBack(ok)
       /\ rows' = IF ok
                  THEN [rows EXCEPT ![item.fp] = Sent(@, sentAt, item.count)]
                  ELSE rows
       /\ history' = [history EXCEPT ![item.fp] =
                        Recorded(@, ok /\ rows[item.fp].stored)]
  /\ UNCHANGED meta

RecordFailure ==
  /\ pc = "failed"
  /\ \E ok \in Attempts("store") :
       /\ WriteBack(ok)
       /\ meta' = IF ok THEN BumpCounter(meta, "transport_failures") ELSE meta
  /\ UNCHANGED <<rows, history>>

-----------------------------------------------------------------------------
(* Around the process: the review page, the clock, a kill and a restart.   *)

SetResolved(fp, resolved) ==
  /\ rows[fp].stored
  /\ rows' = [rows EXCEPT ![fp] = Resolve(@, resolved)]
  /\ UNCHANGED <<clock, meta, memory, history, tally, spent>>

Tick ==
  /\ clock < MaxClock
  /\ clock' = clock + 1
  /\ UNCHANGED <<rows, meta, memory, history, tally, spent>>

\* The process dies without close() and a new one runs init(): memory is
\* empty again and opening the store prunes it.
Restart ==
  /\ spent.kills < MaxKills
  /\ spent' = [spent EXCEPT !.kills = @ + 1]
  /\ inFlight' = {}
  /\ queue' = <<>>
  /\ pc' = "none"
  /\ item' = NoItem
  /\ sentAt' = Never
  /\ call' = [c \in Caller |-> NoCall]
  /\ rows' = [fp \in Fp |-> Pruned(rows[fp], clock)]
  /\ history' =
       [fp \in Fp |->
          IF Expired(rows[fp], clock) THEN Forgotten(history[fp])
          ELSE IF pc = "sent" /\ item.fp = fp THEN Recorded(history[fp], FALSE)
          ELSE history[fp]]
  /\ UNCHANGED <<clock, meta, tally>>

Occurrence ==
  \E c \in Caller : \/ SuppressInFlight(c)
                    \/ SuppressCooldown(c)
                    \/ Submit(c)
                    \/ Drop(c)
                    \/ RenderRaises(c)

WorkerStep ==
  WorkerGet \/ SendDelivers \/ SendFails \/ RecordSent \/ RecordFailure

Next ==
  \/ \E c \in Caller, fp \in Fp : Report(c, fp)
  \/ Occurrence
  \/ WorkerStep
  \/ \E fp \in Fp, resolved \in BOOLEAN : SetResolved(fp, resolved)
  \/ Tick
  \/ Restart

Spec == Init /\ [][Next]_vars

\* The worker loops for ever, a transport has its own timeout, and nothing
\* that runs under the lock waits: each of the worker's steps is taken.
LiveSpec == Spec /\ WF_vars(WorkerStep)

-----------------------------------------------------------------------------
(* Properties.                                                             *)

FaultFree == spent.faults = 0 /\ spent.kills = 0

TypeOK ==
  /\ clock \in Nat
  /\ rows \in [Fp -> Row]
  /\ \A fp \in Fp : ~rows[fp].stored => rows[fp] = NoRow
  /\ meta \in Counters
  /\ inFlight \in SUBSET Fp
  /\ queue \in Seq(Item) /\ Len(queue) <= QueueSize
  /\ pc \in {"none", "idle", "sending", "sent", "failed"}
  /\ item \in Item \union {NoItem}
  /\ item = NoItem <=> pc \in {"none", "idle"}
  /\ sentAt \in Nat \union {Never}
  /\ sentAt # Never <=> pc \in {"sent", "failed"}
  /\ call \in [Caller -> Call \union {NoCall}]
  /\ history \in [Fp -> History]
  /\ tally \in [accepted : Nat, delivered : Nat]
  /\ spent \in [faults : Nat, kills : Nat]

\* The in-flight set is exactly what is queued or in the worker's hands, each
\* fingerprint once: _enqueue's first and third invariants, __init__.py:337-342.
\* A leftover entry would silence a fingerprint for the life of the process, a
\* missing one would send duplicates.
InFlightExact ==
  /\ inFlight = Queued \union Held
  /\ \A i, j \in 1..Len(queue) : i # j => queue[i].fp # queue[j].fp
  /\ Queued \intersect Held = {}

\* Suppressions a delivered message has told of but the store still counts.
Owed(fp) == IF pc = "sent" /\ item.fp = fp THEN item.count ELSE 0

\* record_sent subtracts what was reported instead of clearing, so that bumps
\* which land between render and write-back roll into the next message: every
\* suppressed occurrence is told or still counted, and none is told twice
\* unless a store failure or a kill kept the write-back from happening.
SuppressionsConserved ==
  \A fp \in Fp :
    LET h == history[fp]
        counted == h.reported + rows[fp].suppressed_count
    IN /\ h.suppressed + Owed(fp) <= counted
       /\ FaultFree => h.suppressed + Owed(fp) = counted

\* The cooldown clock runs from the last delivered alert and from nothing
\* else: last_notified is never later than it, and equals it once the worker
\* has written it back (SPEC.md:259-261).
NotifiedMeansDelivered ==
  \A fp \in Fp :
    /\ rows[fp].last_notified <= history[fp].at
    /\ history[fp].recorded =>
         \/ pc = "sent" /\ item.fp = fp
         \/ rows[fp].stored /\ rows[fp].last_notified = history[fp].at

\* Without failures or kills every occurrence that went through _enqueue is
\* delivered, on its way, or in exactly one of the three counters the digest
\* reports.
Undelivered == Len(queue) + IF pc \in {"sending", "failed"} THEN 1 ELSE 0

EveryOccurrenceAccounted ==
  FaultFree =>
    tally.accepted = tally.delivered + Undelivered + meta.dropped
                     + meta.transport_failures + meta.suppressed

\* Alerts on their way: queued or in the worker's hands.
Pending == {queue[i] : i \in 1..Len(queue)} \union {item}

\* The body the review page shows for a fingerprint whose alert is on its way
\* is that alert's (store/base.py:95-101).
LastMessageIsPending ==
  \A fp \in Fp, m \in Pending :
    (FaultFree /\ m.fp = fp) =>
      rows[fp].last_message = [count |-> m.count, reopened |-> m.reopened]

\* An alert is delivered only if the previous one is a cooldown ago, unless
\* the review page had marked the fingerprint resolved, decide() had failed,
\* or the store has not learnt of a previous one.
CooldownHonoured ==
  [][tally'.delivered # tally.delivered =>
       LET h == history[item.fp] IN
       \/ clock - h.at >= Cooldown
       \/ item.reopened \/ item.blind \/ ~h.recorded]_vars

\* The facts about alerts on their way that the two properties above rest on:
\* the row still counts all that the message will report, and an alert that
\* is not yet delivered was due when decide() let it through and stays due.
PendingAlerts ==
  \A m \in Pending :
    m.fp \in Fp =>
      LET h == history[m.fp] IN
      /\ m.count <= rows[m.fp].suppressed_count
      /\ \/ m = item /\ pc \in {"sent", "failed"}
         \/ m.reopened \/ m.blind \/ ~h.recorded
         \/ clock - h.at >= Cooldown

\* A fingerprint does not stay in flight: whatever the transport and the
\* store answer, later occurrences are considered again, once there is a
\* worker (without one, until the next report starts it).
InFlightDrains ==
  \A fp \in Fp : fp \in inFlight /\ pc # "none" ~> fp \notin inFlight

\* What the documents say and the code does not do.

\* SPEC.md:261-263: after a failed send every later occurrence retries, none
\* is silently suppressed.
FailedSendRetried ==
  [][\A c \in Caller :
       SuppressCooldown(c) => ~history[call[c].fp].failed]_vars

\* store/base.py:12-14: an occurrence that clears `resolved` surfaces the
\* regression in the outgoing message.
RegressionSurfaces ==
  [][\A fp \in Fp :
       (call' # call /\ rows[fp].resolved /\ rows'[fp].stored
          /\ ~rows'[fp].resolved) =>
       \E i \in 1..Len(queue') : queue'[i].fp = fp /\ queue'[i].reopened]_vars
=============================================================================
