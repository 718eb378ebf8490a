------------------------------- MODULE Heartbeat -------------------------------
(***************************************************************************)
(* The daily digest, src/ml3error/heartbeat.py: in every process that      *)
(* shares the state store one daemon thread polls the wall clock, claims   *)
(* the day's slot, takes a snapshot of counters and fingerprints, sends it *)
(* and settles the counters.  Around it, the other threads of the process  *)
(* record occurrences, the worker sends alerts and writes back that it     *)
(* did, and the review page resolves fingerprints.                         *)
(*                                                                         *)
(* Within a process the threads exclude one another by _Reporter.lock;     *)
(* between processes only the database does, one statement (or one BEGIN   *)
(* IMMEDIATE transaction) at a time, so the read and the write of          *)
(* _meta_bump() and subtract_counters() are steps apart.                   *)
(***************************************************************************)
EXTENDS Integers, Sequences, FiniteSets

CONSTANTS Fp,         \* fingerprint keys
          Proc,       \* processes that share the store
          Day,        \* length of a day, in ticks of the clock
          Target,     \* heartbeat_time, in ticks after midnight
          MaxClock,   \* bound: the clock stops here
          MaxOccur,   \* bound: occurrences
          MaxFaults,  \* bound: store failures
          MaxKills    \* bound: kills of a process

ASSUME HeartbeatAssumption ==
  /\ Day \in Nat \ {0}
  /\ Target \in 0..(Day - 1)
  /\ {MaxClock, MaxOccur, MaxFaults, MaxKills} \subseteq Nat

VARIABLES
  clock,          \* time.time()
  lastHeartbeat,  \* meta.last_heartbeat
  counters,       \* the three running counters in meta
  table,          \* table fingerprints, the columns the digest reads
  lock,           \* per process: which thread holds _Reporter.lock
  work,           \* per process: counter updates the lock's holder has to do
  got,            \* per process: the value _meta_int() read for the first one
  pc,             \* per process: where the heartbeat thread is
  beat,           \* per process: the locals of fire()
  caller,         \* per process: `now` of a thread about to take the lock
  inFlight,       \* per process: fingerprints with an alert on its way
  worker,         \* per process: the send the worker has to write back, if any
  ghost,          \* for the properties only (see NoGhost)
  spent           \* how much of the bounds is used

store == <<lastHeartbeat, counters, table>>
alerts == <<inFlight, worker>>
memory == <<lock, work, got, pc, beat, caller, alerts>>
vars == <<clock, store, memory, ghost, spent>>

-----------------------------------------------------------------------------
Never == -1       \* SQL NULL, Python None

\* _today_slot_timestamp()
Slot(now) == (now \div Day) * Day + Target

Counter == {"dropped", "transport_failures", "suppressed"}
Zero == [k \in Counter |-> 0]

Entry == [stored : BOOLEAN, last_activity : Int, resolved : BOOLEAN]
NoEntry == [stored |-> FALSE, last_activity |-> 0, resolved |-> FALSE]

\* fire()'s locals: the time it was given, the previous last_heartbeat, the
\* snapshot of the counters and the fingerprints the digest counts as active.
Beat == [now : Nat, since : Int, told : [Counter -> Nat], listed : SUBSET Fp]
NoBeat == [now |-> 0, since |-> Never, told |-> Zero, listed |-> {}]

\* The worker's locals once its send has returned.
Alert == [fp : Fp, now : Nat, ok : BOOLEAN]

\* bumps, reported: how often each counter was bumped, and how much delivered
\* digests have told of it; started: slots a digest was sent for; unlisted:
\* fingerprints with an occurrence not before the slot last claimed, which no
\* snapshot has listed yet; overtaken: those whose last_activity was last
\* written with a time before that slot; delivered: slot of the last digest
\* that arrived.
NoGhost == [bumps |-> Zero, reported |-> Zero, started |-> {},
            unlisted |-> {}, overtaken |-> {}, delivered |-> Never]

Init ==
  /\ clock = 0
  /\ lastHeartbeat = Never
  /\ counters = Zero
  /\ table = [fp \in Fp |-> NoEntry]
  /\ lock = [p \in Proc |-> "free"]
  /\ work = [p \in Proc |-> <<>>]
  /\ got = [p \in Proc |-> Never]
  /\ pc = [p \in Proc |-> "wait"]
  /\ beat = [p \in Proc |-> NoBeat]
  /\ caller = [p \in Proc |-> Never]
  /\ inFlight = [p \in Proc |-> {}]
  /\ worker = [p \in Proc |-> {}]
  /\ ghost = NoGhost
  /\ spent = [occur |-> 0, faults |-> 0, kills |-> 0]

-----------------------------------------------------------------------------
(* The lock and the counter updates made under it.                         *)

Acquire(p, thread, todo) ==
  /\ lock[p] = "free"
  /\ lock' = [lock EXCEPT ![p] = thread]
  /\ work' = [work EXCEPT ![p] = todo]

\* _meta_int(), the read of a counter's read-modify-write ...
ReadCounter(p) ==
  /\ work[p] # <<>>
  /\ got[p] = Never
  /\ got' = [got EXCEPT ![p] = counters[Head(work[p]).key]]
  /\ UNCHANGED <<clock, store, lock, work, pc, beat, caller, alerts, ghost, spent>>

\* Bug: no clamp at zero.
Written_Unclamped(value, delta) == value + delta

\* ... and _meta_set(), which writes what was read plus one, or minus what
\* the digest told, never below zero.
Written(value, delta) == IF value + delta > 0 THEN value + delta ELSE 0

WriteCounter(p) ==
  LET todo == Head(work[p]) IN
  /\ got[p] # Never
  /\ counters' = [counters EXCEPT ![todo.key] = Written(got[p], todo.delta)]
  /\ work' = [work EXCEPT ![p] = Tail(@)]
  /\ got' = [got EXCEPT ![p] = Never]
  /\ ghost' = IF todo.delta > 0
              THEN [ghost EXCEPT !.bumps[todo.key] = @ + 1] ELSE ghost
  /\ UNCHANGED <<clock, lastHeartbeat, table, lock, pc, beat, caller, alerts, spent>>

\* The lock's `with` block ends; the heartbeat thread waits for its next poll.
Release(p) ==
  /\ lock[p] = "reporter" \/ pc[p] = "settling"
  /\ work[p] = <<>>
  /\ lock' = [lock EXCEPT ![p] = "free"]
  /\ IF lock[p] = "heartbeat"
     THEN /\ pc' = [pc EXCEPT ![p] = "wait"]
          /\ beat' = [beat EXCEPT ![p] = NoBeat]
     ELSE UNCHANGED <<pc, beat>>
  /\ UNCHANGED <<clock, store, work, got, caller, alerts, ghost, spent>>

-----------------------------------------------------------------------------
(* The heartbeat thread.                                                   *)

\* One turn of _run(): `now` is read before any lock is taken.
Poll(p) ==
  /\ pc[p] = "wait"
  /\ pc' = [pc EXCEPT ![p] = "polled"]
  /\ beat' = [beat EXCEPT ![p].now = clock]
  /\ UNCHANGED <<clock, store, lock, work, got, caller, alerts, ghost, spent>>

\* Bug: a poll that comes late misses the slot.
Due_OnTheDot(now) ==
  /\ now = Slot(now)
  /\ lastHeartbeat = Never \/ lastHeartbeat < Slot(now)

Due(now) ==
  /\ now >= Slot(now)
  /\ lastHeartbeat = Never \/ lastHeartbeat < Slot(now)

\* _should_fire() holds the lock for one read and releases it.
ShouldFire(p) ==
  /\ pc[p] = "polled"
  /\ lock[p] = "free"
  /\ IF Due(beat[p].now)
     THEN pc' = [pc EXCEPT ![p] = "due"] /\ UNCHANGED beat
     ELSE /\ pc' = [pc EXCEPT ![p] = "wait"]
          /\ beat' = [beat EXCEPT ![p] = NoBeat]
  /\ UNCHANGED <<clock, store, lock, work, got, caller, alerts, ghost, spent>>

\* Bug: any other value than this slot may be overwritten.
Claimable_Differs(slot) == lastHeartbeat # slot

\* claim_heartbeat(), one transaction.
Claimable(slot) == lastHeartbeat = Never \/ lastHeartbeat < slot

Claim(p) ==
  LET slot == Slot(beat[p].now) IN
  /\ pc[p] = "due"
  /\ Claimable(slot)
  /\ Acquire(p, "heartbeat", <<>>)
  /\ lastHeartbeat' = slot
  /\ pc' = [pc EXCEPT ![p] = "claimed"]
  /\ beat' = [beat EXCEPT ![p].since = lastHeartbeat]
  /\ UNCHANGED <<clock, counters, table, got, caller, alerts, ghost, spent>>

ClaimRefused(p) ==
  /\ pc[p] = "due"
  /\ lock[p] = "free"
  /\ ~Claimable(Slot(beat[p].now))
  /\ pc' = [pc EXCEPT ![p] = "wait"]
  /\ beat' = [beat EXCEPT ![p] = NoBeat]
  /\ UNCHANGED <<clock, store, lock, work, got, caller, alerts, ghost, spent>>

\* Bug: the window starts after the previous slot.
Active_After(since) ==
  {fp \in Fp : table[fp].stored /\ ~table[fp].resolved
               /\ table[fp].last_activity > since}

\* The fingerprints _format_summary() counts: unresolved, and active since
\* the previous slot.
Active(since) ==
  {fp \in Fp : table[fp].stored /\ ~table[fp].resolved
               /\ table[fp].last_activity >= since}

\* read_counters() and list_fingerprints(), still in the critical section of
\* the claim, then the call of send().
Snapshot(p) ==
  LET listed == Active(beat[p].since) IN
  /\ pc[p] = "claimed"
  /\ beat' = [beat EXCEPT ![p].told = counters, ![p].listed = listed]
  /\ lock' = [lock EXCEPT ![p] = "free"]
  /\ pc' = [pc EXCEPT ![p] = "sending"]
  /\ ghost' = [ghost EXCEPT !.started = @ \union {Slot(beat[p].now)},
                            !.unlisted = @ \ listed]
  /\ UNCHANGED <<clock, store, work, got, caller, alerts, spent>>

SendDelivers(p) ==
  /\ pc[p] = "sending"
  /\ pc' = [pc EXCEPT ![p] = "sent"]
  /\ ghost' = [ghost EXCEPT !.reported = [k \in Counter |-> @[k] + beat[p].told[k]],
                            !.delivered = Slot(beat[p].now)]
  /\ UNCHANGED <<clock, store, lock, work, got, beat, caller, alerts, spent>>

SendFails(p) ==
  /\ pc[p] = "sending"
  /\ pc' = [pc EXCEPT ![p] = "failed"]
  /\ UNCHANGED <<clock, store, lock, work, got, beat, caller, alerts, ghost, spent>>

Subtraction(k, amount) ==
  IF amount > 0 THEN <<[key |-> k, delta |-> -amount]>> ELSE <<>>

\* Bug: the counters are emptied whatever was bumped since the snapshot.
Subtractions_All(told) ==
  Subtraction("dropped", counters["dropped"])
    \o Subtraction("transport_failures", counters["transport_failures"])
    \o Subtraction("suppressed", counters["suppressed"])

\* subtract_counters(): the snapshot's amounts, the zero ones skipped.
Subtractions(told) ==
  Subtraction("dropped", told["dropped"])
    \o Subtraction("transport_failures", told["transport_failures"])
    \o Subtraction("suppressed", told["suppressed"])

Bump(k) == <<[key |-> k, delta |-> 1]>>

Settle(p) ==
  /\ \/ pc[p] = "sent" /\ Acquire(p, "heartbeat", Subtractions(beat[p].told))
     \/ pc[p] = "failed" /\ Acquire(p, "heartbeat", Bump("transport_failures"))
  /\ pc' = [pc EXCEPT ![p] = "settling"]
  /\ UNCHANGED <<clock, store, got, beat, caller, alerts, ghost, spent>>

-----------------------------------------------------------------------------
(* The other threads of a process, the review page, failures.              *)

\* A thread enters _enqueue() and reads `now`, not yet holding the lock.
ReadNow(p) ==
  /\ caller[p] = Never
  /\ spent.occur < MaxOccur
  /\ spent' = [spent EXCEPT !.occur = @ + 1]
  /\ caller' = [caller EXCEPT ![p] = clock]
  /\ UNCHANGED <<clock, store, lock, work, got, pc, beat, alerts, ghost>>

\* An occurrence sets last_activity and clears the mark.  One whose time is
\* older than the slot claimed in the meantime is late: no digest will list it
\* for its own sake.
Overtaken(fp, now) ==
  IF now < lastHeartbeat THEN ghost.overtaken \union {fp}
                         ELSE ghost.overtaken \ {fp}

Occurred(fp, now) ==
  /\ table' = [table EXCEPT ![fp] = [stored |-> TRUE, resolved |-> FALSE,
                                     last_activity |-> now]]
  /\ ghost' = [ghost EXCEPT
                 !.unlisted = IF now < lastHeartbeat THEN @ ELSE @ \union {fp},
                 !.overtaken = Overtaken(fp, now)]

\* In flight: bump_suppressed(), which reads a time of its own.  Otherwise
\* decide() suppresses, or the alert is queued, or the queue is full.
Occur(p, fp) ==
  /\ caller[p] # Never
  /\ \/ /\ fp \in inFlight[p]
        /\ \E now \in caller[p]..clock : Occurred(fp, now)
        /\ Acquire(p, "reporter", Bump("suppressed"))
        /\ UNCHANGED inFlight
     \/ /\ fp \notin inFlight[p]
        /\ Occurred(fp, caller[p])
        /\ \/ /\ \E k \in {"dropped", "suppressed"} :
                   Acquire(p, "reporter", Bump(k))
              /\ UNCHANGED inFlight
           \/ /\ Acquire(p, "reporter", <<>>)
              /\ inFlight' = [inFlight EXCEPT ![p] = @ \union {fp}]
  /\ caller' = [caller EXCEPT ![p] = Never]
  /\ UNCHANGED <<clock, lastHeartbeat, counters, got, pc, beat, worker, spent>>

\* The worker's send returns, and it reads `now`, not yet holding the lock ...
WorkerSends(p) ==
  /\ worker[p] = {}
  /\ \E fp \in inFlight[p], ok \in BOOLEAN :
       worker' = [worker EXCEPT ![p] = {[fp |-> fp, now |-> clock, ok |-> ok]}]
  /\ UNCHANGED <<clock, store, lock, work, got, pc, beat, caller, inFlight,
                 ghost, spent>>

Discarded(p, alert) ==
  /\ inFlight' = [inFlight EXCEPT ![p] = @ \ {alert.fp}]
  /\ worker' = [worker EXCEPT ![p] = {}]

\* ... with which record_sent() writes last_activity, whatever an occurrence
\* has written there since.  (The row is there: nothing here deletes rows.)
WriteBack(p) ==
  /\ \E alert \in worker[p] :
       /\ Discarded(p, alert)
       /\ \/ /\ alert.ok
             /\ Acquire(p, "reporter", <<>>)
             /\ table' = [table EXCEPT ![alert.fp].last_activity = alert.now]
             /\ ghost' = [ghost EXCEPT !.overtaken = Overtaken(alert.fp, alert.now)]
          \/ /\ ~alert.ok
             /\ Acquire(p, "reporter", Bump("transport_failures"))
             /\ UNCHANGED <<table, ghost>>
  /\ UNCHANGED <<clock, lastHeartbeat, counters, got, pc, beat, caller, spent>>

SetResolved(fp, resolved) ==
  /\ table[fp].stored
  /\ table' = [table EXCEPT ![fp].resolved = resolved]
  /\ ghost' = IF resolved THEN [ghost EXCEPT !.unlisted = @ \ {fp}] ELSE ghost
  /\ UNCHANGED <<clock, lastHeartbeat, counters, memory, spent>>

Abandon(p) ==
  /\ lock' = [lock EXCEPT ![p] = "free"]
  /\ work' = [work EXCEPT ![p] = <<>>]
  /\ got' = [got EXCEPT ![p] = Never]

\* A statement of the heartbeat thread raises: the lock is released, _run
\* logs and waits for the next poll.  What was claimed stays claimed.
HeartbeatRaises(p) ==
  /\ spent.faults < MaxFaults
  /\ spent' = [spent EXCEPT !.faults = @ + 1]
  /\ \/ /\ pc[p] \in {"polled", "due"} /\ lock[p] = "free"
        /\ UNCHANGED <<lock, work, got>>
     \/ /\ pc[p] = "claimed" \/ (pc[p] = "settling" /\ work[p] # <<>>)
        /\ Abandon(p)
  /\ pc' = [pc EXCEPT ![p] = "wait"]
  /\ beat' = [beat EXCEPT ![p] = NoBeat]
  /\ UNCHANGED <<clock, store, caller, alerts, ghost>>

\* Another thread catches and logs it: the update is lost.
ReporterRaises(p) ==
  /\ spent.faults < MaxFaults
  /\ spent' = [spent EXCEPT !.faults = @ + 1]
  /\ lock[p] = "reporter"
  /\ work[p] # <<>>
  /\ Abandon(p)
  /\ UNCHANGED <<clock, store, pc, beat, caller, alerts, ghost>>

\* record_sent() raises: the worker logs it, and the alert leaves all the same.
WriteBackRaises(p) ==
  /\ spent.faults < MaxFaults
  /\ spent' = [spent EXCEPT !.faults = @ + 1]
  /\ lock[p] = "free"
  /\ \E alert \in worker[p] : alert.ok /\ Discarded(p, alert)
  /\ UNCHANGED <<clock, store, lock, work, got, pc, beat, caller, ghost>>

\* A process dies, in the middle of anything, and is started again.
Kill(p) ==
  /\ spent.kills < MaxKills
  /\ spent' = [spent EXCEPT !.kills = @ + 1]
  /\ Abandon(p)
  /\ pc' = [pc EXCEPT ![p] = "wait"]
  /\ beat' = [beat EXCEPT ![p] = NoBeat]
  /\ caller' = [caller EXCEPT ![p] = Never]
  /\ inFlight' = [inFlight EXCEPT ![p] = {}]
  /\ worker' = [worker EXCEPT ![p] = {}]
  /\ UNCHANGED <<clock, store, ghost>>

Tick ==
  /\ clock < MaxClock
  /\ clock' = clock + 1
  /\ UNCHANGED <<store, memory, ghost, spent>>

LockHolder(p) == ReadCounter(p) \/ WriteCounter(p) \/ Release(p)

HeartbeatThread(p) ==
  Poll(p) \/ ShouldFire(p) \/ Claim(p) \/ ClaimRefused(p) \/ Snapshot(p)
    \/ SendDelivers(p) \/ SendFails(p) \/ Settle(p)

Next ==
  \/ \E p \in Proc : \/ LockHolder(p)
                     \/ HeartbeatThread(p)
                     \/ ReadNow(p)
                     \/ \E fp \in Fp : Occur(p, fp)
                     \/ WorkerSends(p)
                     \/ WriteBack(p)
                     \/ HeartbeatRaises(p)
                     \/ ReporterRaises(p)
                     \/ WriteBackRaises(p)
                     \/ Kill(p)
  \/ \E fp \in Fp, resolved \in BOOLEAN : SetResolved(fp, resolved)
  \/ Tick

Spec == Init /\ [][Next]_vars

\* Threads go on: the poll loop never ends, a transport has its own timeout,
\* and whoever holds the lock gets to the end of its `with` block.
LiveSpec ==
  Spec /\ \A p \in Proc : WF_vars(HeartbeatThread(p)) /\ WF_vars(LockHolder(p))

-----------------------------------------------------------------------------
(* Properties.                                                             *)

FaultFree == spent.faults = 0 /\ spent.kills = 0

TypeOK ==
  /\ clock \in Nat
  /\ lastHeartbeat \in Nat \union {Never}
  /\ counters \in [Counter -> Nat]
  /\ table \in [Fp -> Entry]
  /\ lock \in [Proc -> {"free", "reporter", "heartbeat"}]
  /\ work \in [Proc -> Seq([key : Counter, delta : Int])]
  /\ got \in [Proc -> Nat \union {Never}]
  /\ pc \in [Proc -> {"wait", "polled", "due", "claimed", "sending", "sent",
                      "failed", "settling"}]
  /\ beat \in [Proc -> Beat]
  /\ caller \in [Proc -> Nat \union {Never}]
  /\ inFlight \in [Proc -> SUBSET Fp]
  /\ worker \in [Proc -> SUBSET Alert]
  /\ ghost \in [bumps : [Counter -> Nat], reported : [Counter -> Nat],
                started : SUBSET Nat, unlisted : SUBSET Fp,
                overtaken : SUBSET Fp, delivered : Nat \union {Never}]
  /\ spent \in [occur : Nat, faults : Nat, kills : Nat]
  /\ \A p \in Proc :
       /\ lock[p] = "heartbeat" <=> pc[p] \in {"claimed", "settling"}
       /\ lock[p] = "free" \/ pc[p] = "claimed" => work[p] = <<>>
       /\ work[p] = <<>> => got[p] = Never

\* store/base.py:81-88, only one process sends the digest of a slot: no digest
\* is sent for a slot a digest was already sent for, however the polls of the
\* processes interleave and however stale the time they were decided at.
OneDigestPerSlot ==
  [][\A p \in Proc :
       pc[p] = "claimed" /\ pc'[p] = "sending" =>
         Slot(beat[p].now) \notin ghost.started]_vars

\* last_heartbeat never goes back, not even when a suspended thread wakes up
\* with the time of an earlier day: a lower value would make a slot that has
\* been sent due again.
HeartbeatMonotone == [][lastHeartbeat' >= lastHeartbeat]_vars

\* heartbeat.py:55-59 and claim_heartbeat(), the windows of successive digests
\* leave no gap, however the claims of the processes fall between occurrences:
\* an unresolved fingerprint with an occurrence no snapshot has listed lies in
\* the window of the next claim, or of one whose snapshot is being taken.  Only
\* a write that carries a time older than the last claim (a late occurrence, or
\* the worker's record_sent()) can take it out of there.
DigestCoverage ==
  FaultFree =>
    \A fp \in ghost.unlisted \ ghost.overtaken :
      LET at == table[fp].last_activity IN
      \/ at >= lastHeartbeat
      \/ \E p \in Proc : pc[p] = "claimed" /\ at >= beat[p].since

\* Amounts that a digest has told but the counters still hold.
Unsettled(p, k) ==
  CASE pc[p] = "sent" -> beat[p].told[k]
    [] pc[p] = "settling" ->
         IF \E i \in 1..Len(work[p]) :
              work[p][i].key = k /\ work[p][i].delta < 0
         THEN beat[p].told[k] ELSE 0
    [] OTHER -> 0

\* heartbeat.py:208-210, within one process: what is bumped between snapshot
\* and settlement survives into the next digest.  Every bump is told by a
\* delivered digest or still counted; told twice only if the settlement failed
\* or the process died before it.
CountersConserved ==
  \A p \in Proc, k \in Counter :
    LET known == ghost.reported[k] + counters[k] IN
    /\ ghost.bumps[k] + Unsettled(p, k) <= known
    /\ FaultFree => ghost.bumps[k] + Unsettled(p, k) = known

\* Once the last day's target time has passed, its slot is eventually claimed,
\* whatever failed before.
SlotClaimed ==
  (clock = MaxClock /\ clock >= Slot(clock)) ~> (lastHeartbeat >= Slot(clock))

-----------------------------------------------------------------------------
(* What the documents say and the code does not do.                        *)

\* SPEC.md:466-471: the next successful digest is a summary since the last
\* successful one.
SinceLastSuccessful ==
  [][\A p \in Proc :
       pc[p] = "sending" /\ pc'[p] = "sent" =>
         beat[p].since <= ghost.delivered]_vars

\* heartbeat.py:52-53, "Restrict to errors active in this window": an unresolved
\* error that occurred after the previous slot, and that no digest has listed
\* since, is among those the next digest counts.
ListsTheActive ==
  [][\A p \in Proc :
       pc[p] = "claimed" /\ pc'[p] = "sending" =>
         ghost.unlisted \subseteq beat'[p].listed]_vars
=============================================================================
