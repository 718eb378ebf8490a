------------------------------ MODULE CrashPath ------------------------------
(***************************************************************************)
(* The dying thread beside the others: _crash_handler (__init__.py) and    *)
(* SQLiteCrashStore (store/sqlite.py) work on a connection of their own,   *)
(* without the reporter's lock, on the row of a fingerprint that other     *)
(* threads and processes report too.  Every SQL statement is a step.       *)
(*                                                                         *)
(* Per process: a thread that reports (main) and the worker with at most   *)
(* one alert of this fingerprint on its way (item), which exclude one      *)
(* another by the lock.  Of the counters in meta only `suppressed` is      *)
(* kept.  Failures of the main store are the subject of Reporter, but for  *)
(* the one that arises here: an INSERT of a row that exists by then.       *)
(***************************************************************************)
EXTENDS SqliteStore, FiniteSets

CONSTANTS Proc,      \* processes on one database
          Busy,      \* whether a statement of the crash path may find the
                     \* database busy for longer than its 500 ms
          MaxClock,  \* bound: last tick of the clock
          MaxOccur   \* bound: occurrences reported by the main threads

ASSUME CrashAssumption ==
  Busy \in BOOLEAN /\ MaxClock \in Nat /\ MaxOccur \in Nat

VARIABLES
  row,         \* the fingerprint's row
  suppressed,  \* meta.suppressed
  clock,
  main,        \* per process: [pc, now, seen, counter], seen the row SELECTed
  item,        \* per process: the alert with the worker, [at, count, now]
  crash,       \* the crash handler: like main
  ghost        \* read by properties only: occurrences so far, times at which
               \* alerts were delivered, `now`s of occurrences that the
               \* cooldown silenced, bumps of meta.suppressed

vars == <<row, suppressed, clock, main, item, crash, ghost>>

Idle == [pc |-> "idle", now |-> 0, seen |-> NoRow, counter |-> 0]
NoItem == [at |-> "none", count |-> 0, now |-> 0]

Init ==
  /\ row = NoRow
  /\ suppressed = 0
  /\ clock = 0
  /\ main = [p \in Proc |-> Idle]
  /\ item = [p \in Proc |-> NoItem]
  /\ crash = Idle
  /\ ghost = [occurred |-> 0, delivered |-> {}, silent |-> {}, bumps |-> 0]

\* The UPDATE of a decide() that sends: the count is left alone.
Touched(r, now) ==
  IF r.stored THEN [r EXCEPT !.last_activity = now, !.resolved = FALSE] ELSE r

\* Which statement follows the SELECT of decide().
Branch(seen, now) ==
  IF ~seen.stored THEN "insert"
  ELSE IF ShouldSend(seen, now) THEN "touch" ELSE "suppress"

Delivered == [ghost EXCEPT !.delivered = @ \union {clock}]
Silenced(now) == [ghost EXCEPT !.silent = @ \union {now}]

-----------------------------------------------------------------------------
(* report() in the main threads: _enqueue on SQLiteStore.                  *)

At(p, from) == main[p].pc = from
MainGoes(p, to) == main' = [main EXCEPT ![p].pc = to]

MainCalls(p) ==
  /\ At(p, "idle")
  /\ ghost.occurred < MaxOccur
  /\ main' = [main EXCEPT ![p] = [Idle EXCEPT !.pc = "select", !.now = clock]]
  /\ ghost' = [ghost EXCEPT !.occurred = @ + 1]
  /\ UNCHANGED <<row, suppressed, clock, item, crash>>

MainSelects(p) ==
  /\ At(p, "select")
  /\ main' = [main EXCEPT
       ![p].pc = IF item[p].at # "none" THEN "unresolve"
                                         ELSE Branch(row, main[p].now),
       ![p].seen = row]
  /\ UNCHANGED <<row, suppressed, clock, item, crash, ghost>>

\* INSERT or UPDATE, then the alert is queued.  If the row appeared since
\* the SELECT, the INSERT raises and the alert is sent all the same.
MainSends(p) ==
  /\ \/ At(p, "insert") /\ row' = IF row.stored THEN row
                                                ELSE NewRow(main[p].now)
     \/ At(p, "touch") /\ row' = Touched(row, main[p].now)
  /\ item' = [item EXCEPT ![p] = [at |-> "queued", now |-> 0,
                                  count |-> main[p].seen.suppressed_count]]
  /\ MainGoes(p, "idle")
  /\ UNCHANGED <<suppressed, clock, crash, ghost>>

MainSuppresses(p) ==
  /\ At(p, "suppress")
  /\ row' = Bumped(row, main[p].now)
  /\ MainGoes(p, "read")
  /\ ghost' = Silenced(main[p].now)
  /\ UNCHANGED <<suppressed, clock, item, crash>>

\* bump_suppressed() reads the time anew.
MainUnresolves(p) ==
  /\ At(p, "unresolve")
  /\ row' = Resolve(row, FALSE)
  /\ main' = [main EXCEPT ![p].pc = "bump", ![p].now = clock]
  /\ UNCHANGED <<suppressed, clock, item, crash, ghost>>

MainBumps(p) ==
  /\ At(p, "bump")
  /\ row' = Bumped(row, main[p].now)
  /\ MainGoes(p, "read")
  /\ UNCHANGED <<suppressed, clock, item, crash, ghost>>

\* _meta_bump(): a SELECT, ...
MainReads(p) ==
  /\ At(p, "read")
  /\ main' = [main EXCEPT ![p].pc = "write", ![p].counter = suppressed]
  /\ UNCHANGED <<row, suppressed, clock, item, crash, ghost>>

\* ... and an upsert of the value read plus one.
MainWrites(p) ==
  /\ At(p, "write")
  /\ suppressed' = main[p].counter + 1
  /\ MainGoes(p, "idle")
  /\ ghost' = [ghost EXCEPT !.bumps = @ + 1]
  /\ UNCHANGED <<row, clock, item, crash>>

-----------------------------------------------------------------------------
(* The worker: send, then write back under the lock.                       *)

WorkerSends(p) ==
  /\ item[p].at = "queued"
  /\ \/ /\ item' = [item EXCEPT ![p].at = "delivered", ![p].now = clock]
        /\ ghost' = Delivered
     \/ item' = [item EXCEPT ![p].at = "failed"] /\ UNCHANGED ghost
  /\ UNCHANGED <<row, suppressed, clock, main, crash>>

WorkerWritesBack(p) ==
  /\ item[p].at \in {"delivered", "failed"}
  /\ main[p].pc \in {"idle", "select"}
  /\ row' = IF item[p].at = "failed" THEN row
            ELSE Sent(row, item[p].now, item[p].count)
  /\ item' = [item EXCEPT ![p] = NoItem]
  /\ UNCHANGED <<suppressed, clock, main, crash, ghost>>

-----------------------------------------------------------------------------
(* The dying thread.                                                       *)

CrashAt(from) == crash.pc = from
CrashGoes(to) == crash' = [crash EXCEPT !.pc = to]

CrashStarts ==
  /\ CrashAt("idle")
  /\ crash' = [crash EXCEPT !.pc = "select", !.now = clock]
  /\ UNCHANGED <<row, suppressed, clock, main, item, ghost>>

CrashSelects ==
  /\ CrashAt("select")
  /\ \/ crash' = [crash EXCEPT !.seen = row, !.pc = Branch(row, crash.now)]
     \/ Busy /\ CrashGoes("send")
  /\ UNCHANGED <<row, suppressed, clock, main, item, ghost>>

\* INSERT OR IGNORE, or the UPDATE of the sending branch; skipped when busy.
CrashNotes ==
  /\ \/ CrashAt("insert") /\ row' = IF row.stored THEN row ELSE NewRow(crash.now)
     \/ CrashAt("touch") /\ row' = Touched(row, crash.now)
     \/ Busy /\ crash.pc \in {"insert", "touch"} /\ UNCHANGED row
  /\ CrashGoes("send")
  /\ UNCHANGED <<suppressed, clock, main, item, ghost>>

CrashSuppresses ==
  /\ CrashAt("suppress")
  /\ \/ row' = Bumped(row, crash.now) /\ CrashGoes("read")
     \/ Busy /\ UNCHANGED row /\ CrashGoes("done")
  /\ ghost' = Silenced(crash.now)
  /\ UNCHANGED <<suppressed, clock, main, item>>

CrashReads ==
  /\ CrashAt("read")
  /\ \/ crash' = [crash EXCEPT !.pc = "write", !.counter = suppressed]
     \/ Busy /\ CrashGoes("done")
  /\ UNCHANGED <<row, suppressed, clock, main, item, ghost>>

CrashWrites ==
  /\ CrashAt("write")
  /\ \/ /\ suppressed' = crash.counter + 1
        /\ ghost' = [ghost EXCEPT !.bumps = @ + 1]
     \/ Busy /\ UNCHANGED <<suppressed, ghost>>
  /\ CrashGoes("done")
  /\ UNCHANGED <<row, clock, main, item>>

\* Bug: the cooldown starts whatever the transport answered.
AfterSend_Always(answer) == "record"

AfterSend(answer) == IF answer = "ok" THEN "record" ELSE "done"

\* The transport answers the helper thread of send_with_deadline() in time.
CrashAnswered ==
  /\ CrashAt("send")
  /\ \/ CrashGoes(AfterSend("ok")) /\ ghost' = Delivered
     \/ CrashGoes(AfterSend("error")) /\ UNCHANGED ghost
  /\ UNCHANGED <<row, suppressed, clock, main, item>>

\* Bug: join() without a deadline.
CrashTimesOut_Never == CrashAt("send") /\ FALSE /\ UNCHANGED vars

\* It does not: the helper is left behind, and what it sends later is not
\* recorded.
CrashTimesOut ==
  /\ CrashAt("send")
  /\ CrashGoes(AfterSend("timeout"))
  /\ ghost' \in {ghost, Delivered}
  /\ UNCHANGED <<row, suppressed, clock, main, item>>

\* A plain clear, with the time read when the handler began.
CrashRecords ==
  /\ CrashAt("record")
  /\ \/ row' = Sent(row, crash.now, row.suppressed_count)
     \/ Busy /\ UNCHANGED row
  /\ CrashGoes("done")
  /\ UNCHANGED <<suppressed, clock, main, item, ghost>>

-----------------------------------------------------------------------------
\* The review page, in a process of its own.
SetResolved ==
  /\ row.stored /\ ~row.resolved
  /\ row' = Resolve(row, TRUE)
  /\ UNCHANGED <<suppressed, clock, main, item, crash, ghost>>

Tick == /\ clock < MaxClock
        /\ clock' = clock + 1
        /\ UNCHANGED <<row, suppressed, main, item, crash, ghost>>

Main(p) == \/ MainCalls(p) \/ MainSelects(p) \/ MainSends(p)
           \/ MainSuppresses(p) \/ MainUnresolves(p) \/ MainBumps(p)
           \/ MainReads(p) \/ MainWrites(p)

Worker(p) == WorkerSends(p) \/ WorkerWritesBack(p)

\* What the handler does by itself, without an answer of the transport.
Handler == \/ CrashSelects \/ CrashNotes \/ CrashSuppresses \/ CrashReads
           \/ CrashWrites \/ CrashTimesOut \/ CrashRecords

Next == \/ \E p \in Proc : Main(p) \/ Worker(p)
        \/ CrashStarts \/ Handler \/ CrashAnswered
        \/ SetResolved \/ Tick

Spec == Init /\ [][Next]_vars

\* Nobody else need ever move: a thread may stop with the lock in its hands,
\* and the transport may never answer.
LiveSpec == Spec /\ WF_vars(Handler)

-----------------------------------------------------------------------------
(* Properties.                                                             *)

CrashPcs == {"idle", "select", "insert", "touch", "suppress", "read",
             "write", "send", "record", "done"}

TypeOK ==
  /\ row \in Row
  /\ suppressed \in Nat /\ clock \in Nat
  /\ main \in [Proc -> [pc : (CrashPcs \ {"send", "record", "done"})
                                \union {"unresolve", "bump"},
                        now : Nat, seen : Row, counter : Nat]]
  /\ item \in [Proc -> [at : {"none", "queued", "delivered", "failed"},
                        count : Nat, now : Nat]]
  /\ crash \in [pc : CrashPcs, now : Nat, seen : Row, counter : Nat]

\* SPEC.md:249-263: an occurrence is silenced by
\* the cooldown only if somebody delivered an alert less than a cooldown
\* before, whichever of the two paths did, and however stale their times are.
SilentOnlyAfterDelivery ==
  \A s \in ghost.silent : \E d \in ghost.delivered : s - d < Cooldown

\* SPEC.md:379-385: the crash path cannot be blocked, neither by a thread
\* that stopped inside a critical section nor by the transport.
CrashReturns == CrashAt("select") ~> CrashAt("done")

\* What the documents say and the code does not do.

\* sqlite.py:370-372, "no concurrent writer to race with": what record_sent
\* of the crash path clears was told in the message it sent.
ClearForgetsNothing ==
  [][CrashAt("record") /\ row'.suppressed_count < row.suppressed_count
     /\ main' = main /\ item' = item
     => row.suppressed_count <= crash.seen.suppressed_count]_vars

\* SPEC.md:417-420, "WAL mode already serializes those safely": every bump of
\* meta.suppressed counts.
BumpsAreCounted == suppressed = ghost.bumps

\* sqlite.py:124-128 and 152: decide() does not silently clear `resolved`.
SuppressesOnlyUnresolved ==
  \A p \in Proc : At(p, "suppress") => ~row.resolved
=============================================================================
