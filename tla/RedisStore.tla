------------------------------ MODULE RedisStore ------------------------------
(***************************************************************************)
(* The Redis state store, src/ml3error/store/redis.py: RedisStore and      *)
(* RedisCrashStore on the hash of one fingerprint and the counter          *)
(* `suppressed` of the meta hash, used by several processes.               *)
(*                                                                         *)
(* A method is the batches of commands that it sends: a pipeline is one    *)
(* batch, which the server runs atomically, and other commands are batches *)
(* of one.  Between two batches anything may happen: another client's      *)
(* commands, the key's expiry, a kill.  A command may raise in the dying   *)
(* thread; what a failing store does to report() and to the worker is in   *)
(* ReporterNotifier.                                                       *)
(*                                                                         *)
(* Abstracted: total_count, last_activity, last_message and the other two  *)
(* counters, which are treated like the one modelled; what the names and   *)
(* first_seen are, but not whether the hash has them (named).              *)
(***************************************************************************)
EXTENDS Integers, Sequences, SequencesExt, FiniteSets

CONSTANTS Proc,       \* processes on one Redis
          Cooldown, TTL,
          Scenarios   \* who takes part: procs, the processes that report;
                      \* crashes, whether one has an uncaught exception;
                      \* reviews, whether somebody resolves the fingerprint;
                      \* and the bounds: the last tick, occurrences, kills

ASSUME RedisAssumption ==
  /\ IsFiniteSet(Proc) /\ Cooldown \in Nat /\ TTL \in Nat \ {0}
  /\ Scenarios \subseteq [procs : SUBSET Proc, crashes : BOOLEAN,
                         reviews : BOOLEAN, clock : Nat, occur : Nat,
                         kills : Nat]

VARIABLES
  scenario,
  row,      \* the hash, NoRow when there is no such key
  meta,     \* the counters' hash: suppressed, last_heartbeat
  clock,
  main,     \* per process, the reporting thread: [pc, now, seen, upto, todo]
  worker,   \* per process, the alert on its way: [at, now, count, upto, todo]
  crash,    \* the dying thread: like main
  page,     \* batches that the review page has yet to send
  digest,   \* the digest under way: [pc, amount]; they are a day apart
  ghost     \* read by properties only: occurrences; delivery times; `now`s
            \* silenced by the cooldown; bumps of the row and how many of
            \* them were told and recorded, or expired with it; bumps of
            \* meta; kills; the processes that read a row which is gone by
            \* now (stale); whether such a count was subtracted from the
            \* present row (lost); whether a clamp made it (bare)

vars == <<scenario, row, meta, clock, main, worker, crash, page, digest, ghost>>

Never == -1
Forever == -1   \* a key without a TTL
NoRow == [exists |-> FALSE, named |-> FALSE, expires |-> Forever,
          last_notified |-> Never, suppressed_count |-> 0, resolved |-> FALSE]

Idle == [pc |-> "idle", now |-> 0, seen |-> NoRow, upto |-> 0, todo |-> <<>>]
NoAlert == [at |-> "none", now |-> 0, count |-> 0, upto |-> 0, todo |-> <<>>]

Init ==
  /\ scenario \in Scenarios
  /\ row = NoRow
  /\ meta = [suppressed |-> 0, last_heartbeat |-> Never]
  /\ clock = 0
  /\ main = [p \in Proc |-> Idle]
  /\ worker = [p \in Proc |-> NoAlert]
  /\ crash = Idle
  /\ page = <<>>
  /\ digest = [pc |-> "idle", amount |-> 0]
  /\ ghost = [occurred |-> 0, delivered |-> {}, silent |-> {}, bumps |-> 0,
              told |-> 0, metaBumps |-> 0, metaTold |-> 0, kills |-> 0,
              stale |-> {}, lost |-> FALSE, bare |-> FALSE]

-----------------------------------------------------------------------------
(* Commands.  Each write creates a missing key, without a TTL.             *)

Do(r, command, now, reported) ==
  LET h == [r EXCEPT !.exists = TRUE] IN
  CASE command = "insert" -> [h EXCEPT !.named = TRUE, !.resolved = FALSE,
                                       !.suppressed_count = 0]
    [] command = "open" -> [h EXCEPT !.resolved = FALSE]
    [] command = "resolve" -> [h EXCEPT !.resolved = TRUE]
    [] command = "count" -> [h EXCEPT !.suppressed_count = @ + 1]
    [] command = "notify" -> [h EXCEPT !.last_notified = now]
    [] command = "subtract" -> [h EXCEPT !.suppressed_count = @ - reported]
    [] command = "zero" -> [h EXCEPT !.suppressed_count = 0]
    [] command = "clear" -> [h EXCEPT !.suppressed_count = 0, !.last_notified = now]
    [] command = "message" -> h
    [] command = "expire" -> IF r.exists THEN [r EXCEPT !.expires = clock + TTL]
                                         ELSE r
    [] command = "count meta" -> r

Batch(commands, now, reported) ==
  LET after[k \in 0..Len(commands)] ==
        IF k = 0 THEN row ELSE Do(after[k - 1], commands[k], now, reported)
  IN  after[Len(commands)]

\* The server runs the next batch of a thread.
Runs(todo, now, reported) ==
  /\ todo # <<>>
  /\ row' = Batch(Head(todo), now, reported)
  /\ meta' = [meta EXCEPT !.suppressed =
                @ + IF Contains(Head(todo), "count meta") THEN 1 ELSE 0]

Noted(todo) ==
  [ghost EXCEPT !.bumps = @ + IF Contains(Head(todo), "count") THEN 1 ELSE 0,
                !.metaBumps =
                   @ + IF Contains(Head(todo), "count meta") THEN 1 ELSE 0]

CooldownExpired(r, now) ==
  r.last_notified = Never \/ now - r.last_notified >= Cooldown

\* The three ways of decide() after HGETALL.
Branch(seen, now) ==
  IF ~seen.exists THEN "insert"
  ELSE IF CooldownExpired(seen, now) \/ seen.resolved THEN "touch" ELSE "suppress"

-----------------------------------------------------------------------------
(* RedisStore, under the lock of its process.                              *)

Decides(branch) ==
  CASE branch = "insert" -> << <<"insert">>, <<"expire">> >>
    [] branch = "touch" -> << <<"open", "expire">> >>
    [] branch = "suppress" -> << <<"open", "count", "count meta", "expire">> >>

SetLastMessage == << <<"message">>, <<"expire">> >>

\* bump_suppressed() sends what the cooldown branch of decide() sends.
BumpSuppressed == << <<"open", "count", "count meta", "expire">> >>

\* Bug: clears instead of subtracting.
RecordSent_Clears == << <<"clear", "expire">>, <<"check">> >>

\* record_sent(): the pipeline, then HGET.
RecordSent == << <<"notify", "subtract", "expire">>, <<"check">> >>

\* Bug: decide() runs without the lock.
Unlocked_Always(p) == TRUE

Unlocked(p) == worker[p].todo = <<>>

Call(p) ==
  /\ main[p].pc = "idle"
  /\ p \in scenario.procs
  /\ ghost.occurred < scenario.occur
  /\ main' = [main EXCEPT ![p] = [Idle EXCEPT !.pc = "called", !.now = clock]]
  /\ ghost' = [ghost EXCEPT !.occurred = @ + 1]
  /\ UNCHANGED <<row, meta, clock, worker, crash, page, digest>>

HGetAll(p) ==
  LET branch == Branch(row, main[p].now) IN
  /\ main[p].pc = "called"
  /\ Unlocked(p)
  /\ main' = [main EXCEPT ![p] =
       IF worker[p].at # "none"
       THEN [@ EXCEPT !.pc = "silent", !.todo = BumpSuppressed]
       ELSE [@ EXCEPT !.seen = row, !.upto = ghost.bumps,
                      !.pc = IF branch = "suppress" THEN "silent" ELSE "send",
                      !.todo = Decides(branch)
                                 \o IF branch = "suppress" THEN <<>>
                                                           ELSE SetLastMessage]]
  /\ ghost' = IF worker[p].at # "none" THEN ghost
              ELSE [ghost EXCEPT !.stale = @ \ {p},
                                 !.silent = IF branch = "suppress"
                                            THEN @ \union {main[p].now} ELSE @]
  /\ UNCHANGED <<row, meta, clock, worker, crash, page, digest>>

MainRuns(p) ==
  /\ Runs(main[p].todo, main[p].now, 0)
  /\ main' = [main EXCEPT ![p].todo = Tail(@)]
  /\ ghost' = Noted(main[p].todo)
  /\ UNCHANGED <<clock, worker, crash, page, digest>>

\* The call is over; a decision to send has queued its alert.
MainReturns(p) ==
  /\ main[p].pc \in {"send", "silent"} /\ main[p].todo = <<>>
  /\ main' = [main EXCEPT ![p] = Idle]
  /\ worker' = IF main[p].pc = "silent" THEN worker
       ELSE [worker EXCEPT ![p] =
               [NoAlert EXCEPT !.at = "queued", !.upto = main[p].upto,
                               !.count = main[p].seen.suppressed_count]]
  /\ UNCHANGED <<row, meta, clock, crash, page, digest, ghost>>

Main(p) == Call(p) \/ HGetAll(p) \/ MainRuns(p) \/ MainReturns(p)

\* Bug: records a failed send, too.
Sent_Always(p, ok) ==
  [worker EXCEPT ![p].at = "sent", ![p].now = clock, ![p].todo = RecordSent]

Sent(p, ok) ==
  [worker EXCEPT ![p] = IF ok THEN [@ EXCEPT !.at = "sent", !.now = clock,
                                             !.todo = RecordSent]
                        ELSE NoAlert]

\* The send, and taking the lock after it.
WorkerSends(p) ==
  /\ worker[p].at = "queued"
  /\ main[p].pc \in {"idle", "called"}
  /\ \E ok \in BOOLEAN :
       /\ worker' = Sent(p, ok)
       /\ ghost' = IF ok THEN [ghost EXCEPT !.delivered = @ \union {clock}]
                         ELSE ghost
  /\ UNCHANGED <<row, meta, clock, main, crash, page, digest>>

\* The pipeline of record_sent(), or HSET suppressed_count 0.
WorkerRuns(p) ==
  /\ worker[p].todo # <<>> /\ Head(worker[p].todo) # <<"check">>
  /\ Runs(worker[p].todo, worker[p].now, worker[p].count)
  /\ worker' = [worker EXCEPT ![p] =
                   IF Len(@.todo) = 1 THEN NoAlert
                   ELSE [@ EXCEPT !.todo = Tail(worker[p].todo)]]
  /\ ghost' = IF Len(worker[p].todo) = 1
              THEN [ghost EXCEPT !.bare = @ \/ ~row.exists]
              ELSE [ghost EXCEPT !.told = IF @ > worker[p].upto THEN @
                                                           ELSE worker[p].upto,
                                 !.lost = @ \/ p \in ghost.stale]
  /\ UNCHANGED <<clock, main, crash, page, digest>>

\* HGET suppressed_count; a negative one is to be set to 0.
WorkerChecks(p) ==
  /\ worker[p].todo # <<>> /\ Head(worker[p].todo) = <<"check">>
  /\ worker' = [worker EXCEPT ![p] = IF row.suppressed_count < 0
                                     THEN [@ EXCEPT !.todo = << <<"zero">> >>]
                                     ELSE NoAlert]
  /\ UNCHANGED <<row, meta, clock, main, crash, page, digest, ghost>>

Worker(p) == WorkerSends(p) \/ WorkerRuns(p) \/ WorkerChecks(p)

-----------------------------------------------------------------------------
(* RedisCrashStore: the same without pipelines, and a plain clear.  A      *)
(* command that raises ends the method.                                    *)

CrashDecides(branch) ==
  CASE branch = "insert" -> << <<"insert">>, <<"expire">> >>
    [] branch = "touch" -> << <<"open">>, <<"expire">> >>
    [] branch = "suppress" -> << <<"open">>, <<"count">>, <<"count meta">>,
                                 <<"expire">> >>

CrashRecordSent == << <<"clear">>, <<"expire">> >>

CrashStarts ==
  /\ scenario.crashes /\ crash.pc = "idle"
  /\ crash' = [crash EXCEPT !.pc = "called", !.now = clock]
  /\ UNCHANGED <<row, meta, clock, main, worker, page, digest, ghost>>

CrashHGetAll ==
  LET branch == Branch(row, crash.now) IN
  /\ crash.pc = "called"
  /\ \/ /\ crash' = [crash EXCEPT
             !.seen = row, !.todo = CrashDecides(branch),
             !.pc = IF branch = "suppress" THEN "done" ELSE "send"]
        /\ ghost' = IF branch = "suppress"
                    THEN [ghost EXCEPT !.silent = @ \union {crash.now}]
                    ELSE ghost
     \/ crash' = [crash EXCEPT !.pc = "send"] /\ UNCHANGED ghost
  /\ UNCHANGED <<row, meta, clock, main, worker, page, digest>>

CrashRuns ==
  /\ Runs(crash.todo, crash.now, 0)
  /\ crash' = [crash EXCEPT !.todo = Tail(@)]
  /\ ghost' = Noted(crash.todo)
  /\ UNCHANGED <<clock, main, worker, page, digest>>

CrashRaises ==
  /\ crash.todo # <<>>
  /\ crash' = [crash EXCEPT !.todo = <<>>]
  /\ UNCHANGED <<row, meta, clock, main, worker, page, digest, ghost>>

CrashSends ==
  /\ crash.pc = "send" /\ crash.todo = <<>>
  /\ \E ok \in BOOLEAN :
       /\ crash' = [crash EXCEPT !.pc = "done",
                                 !.todo = IF ok THEN CrashRecordSent ELSE <<>>]
       /\ ghost' = IF ok THEN [ghost EXCEPT !.delivered = @ \union {clock}]
                         ELSE ghost
  /\ UNCHANGED <<row, meta, clock, main, worker, page, digest>>

Crash == CrashStarts \/ CrashHGetAll \/ CrashRuns \/ CrashRaises \/ CrashSends

-----------------------------------------------------------------------------
(* The review page, and the digest.                                        *)

\* Bug: leaves the TTL to others.
SetResolved_Bare == << <<"resolve">> >>

SetResolved == << <<"resolve">>, <<"expire">> >>

\* list_fingerprints() shows the row; any time later, somebody clicks.
List ==
  /\ scenario.reviews /\ page = <<>>
  /\ row.exists
  /\ page' = SetResolved
  /\ UNCHANGED <<row, meta, clock, main, worker, crash, digest, ghost>>

PageRuns ==
  /\ Runs(page, 0, 0)
  /\ page' = Tail(page)
  /\ UNCHANGED <<clock, main, worker, crash, digest, ghost>>

\* _CLAIM_HEARTBEAT_LUA, which the server runs atomically.
Claimable(last, slot) == last < slot

\* A digest for each tick: claim_heartbeat(), ...
ClaimHeartbeat ==
  /\ digest.pc = "idle"
  /\ Claimable(meta.last_heartbeat, clock)
  /\ meta' = [meta EXCEPT !.last_heartbeat = clock]
  /\ digest' = [digest EXCEPT !.pc = "claimed"]
  /\ UNCHANGED <<row, clock, main, worker, crash, page, ghost>>

\* ... read_counters() and the send, ...
ReadCounters ==
  /\ digest.pc = "claimed"
  /\ \/ digest' = [pc |-> "settle", amount |-> meta.suppressed]
     \/ digest' = [pc |-> "idle", amount |-> 0]
  /\ UNCHANGED <<row, meta, clock, main, worker, crash, page, ghost>>

\* Bug: resets.
Subtracted_Resets(n, amount) == 0

Subtracted(n, amount) == n - amount

\* ... and subtract_counters(), whose HSET 0 for a negative result is not
\* reached with one digest at a time.
SubtractCounters ==
  /\ digest.pc = "settle"
  /\ meta' = [meta EXCEPT !.suppressed = Subtracted(@, digest.amount)]
  /\ digest' = [pc |-> "idle", amount |-> 0]
  /\ ghost' = [ghost EXCEPT !.metaTold = @ + digest.amount]
  /\ UNCHANGED <<row, clock, main, worker, crash, page>>

Digest == ClaimHeartbeat \/ ReadCounters \/ SubtractCounters

-----------------------------------------------------------------------------
\* A process dies between two batches, with its alert, and starts anew.
Kill(p) ==
  /\ ghost.kills < scenario.kills
  /\ main[p] # Idle \/ worker[p] # NoAlert
  /\ main' = [main EXCEPT ![p] = Idle]
  /\ worker' = [worker EXCEPT ![p] = NoAlert]
  /\ ghost' = [ghost EXCEPT !.kills = @ + 1]
  /\ UNCHANGED <<row, meta, clock, crash, page, digest>>

\* Time passes, and Redis drops a key whose TTL is over, with its count,
\* whatever is under way: a row that decide() has read may be gone before the
\* pipeline that would have given it another 30 days.
Tick ==
  LET expired == row.expires # Forever /\ row.expires <= clock + 1 IN
  /\ clock < scenario.clock
  /\ clock' = clock + 1
  /\ row' = IF expired THEN NoRow ELSE row
  /\ ghost' = IF expired THEN [ghost EXCEPT !.told = ghost.bumps,
                                            !.stale = Proc, !.lost = FALSE,
                                            !.bare = FALSE]
                         ELSE ghost
  /\ UNCHANGED <<meta, main, worker, crash, page, digest>>

Next == /\ \/ \E p \in Proc : Main(p) \/ Worker(p) \/ Kill(p)
           \/ Crash \/ List \/ PageRuns \/ Digest \/ Tick
        /\ UNCHANGED scenario

Spec == Init /\ [][Next]_vars

-----------------------------------------------------------------------------
(* Properties.                                                             *)

TypeOK ==
  /\ scenario \in Scenarios
  /\ row \in [exists : BOOLEAN, named : BOOLEAN, expires : Nat \union {Forever},
              last_notified : Nat \union {Never}, suppressed_count : Int,
              resolved : BOOLEAN]
  /\ ~row.exists => row = NoRow
  /\ meta \in [suppressed : Nat, last_heartbeat : Nat \union {Never}]
  /\ \A p \in Proc :
       /\ main[p].pc \in {"idle", "called", "send", "silent"}
       /\ worker[p].at \in {"none", "queued", "sent"}
       /\ main[p].todo # <<>> => worker[p].todo = <<>>
  /\ crash.pc \in {"idle", "called", "send", "done"}
  /\ digest \in [pc : {"idle", "claimed", "settle"}, amount : Nat]

Alone == Cardinality(scenario.procs) = 1 /\ ~scenario.crashes

\* redis.py:128-129, base.py:49-53: a process alone counts exactly the
\* suppressions that no recorded message told, but for the moment between
\* the pipeline of record_sent() and its clamp, and unless a count read from
\* a row that then expired was subtracted from the row made after it.
Counted == row.suppressed_count = ghost.bumps - ghost.told

Settled == \A p \in Proc : worker[p].todo \in {<<>>, RecordSent}

SuppressionsConserved == Alone /\ Settled /\ ~ghost.lost => Counted

\* redis.py:117, 147, 170: HINCRBY keeps the bumps of all processes and of
\* the dying thread, and a digest takes away what it told and no more.
CountersConserved == meta.suppressed = ghost.metaBumps - ghost.metaTold

\* SPEC.md:249-263: the cooldown silences only after a delivery.
SilentOnlyAfterDelivery ==
  \A s \in ghost.silent : \E d \in ghost.delivered : s - d < Cooldown

Quiet == /\ \A p \in Proc : main[p].todo = <<>> /\ worker[p].todo = <<>>
         /\ crash.todo = <<>> /\ page \in {<<>>, SetResolved}

\* SPEC.md:440-441, "TTL handles this" (redis.py:191): between methods that
\* ran to their end, every row has a TTL, unless it expired between the
\* pipeline of record_sent() and the clamp, which then made it anew.
RowsExpire ==
  Quiet /\ row.exists /\ scenario.kills = 0 /\ ~scenario.crashes /\ ~ghost.bare
    => row.expires # Forever

\* What the documents say and the code does not do.

\* SuppressionsConserved, through every expiry: the count of a row that is gone
\* is taken from the bumps of the next one, and the clamp (redis.py:138-140)
\* forgets the rest.
CountsDieWithTheirRow == Alone /\ Settled => Counted

\* RowsExpire, whatever is broken off in the middle.
RowsAlwaysExpire == Quiet /\ row.exists => row.expires # Forever

\* base.py:30-32: a row has the fields that the review page displays.
RowsAreNamed == Quiet /\ row.exists => row.named

\* base.py:49-53: record_sent() keeps the bumps that its message did not tell,
\* if they were there.
Untold == ghost.bumps - ghost.told

RecordSentKeepsBumps ==
  [][worker' # worker /\ Untold <= row.suppressed_count
       => Untold' <= row'.suppressed_count]_vars
=============================================================================
