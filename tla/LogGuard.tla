------------------------------- MODULE LogGuard -------------------------------
(***************************************************************************)
(* The reentrance guard: threads that enter critical sections of the       *)
(* reporter (_LockWithGuard, src/ml3error/__init__.py) directly or through *)
(* a LoggingHandler (src/ml3error/logging_handler.py), and records that    *)
(* are logged while the lock is held, by the library itself (a store       *)
(* failure) or by code it calls there (the repr of a local).               *)
(*                                                                         *)
(* Two locks are at work: _Reporter.lock, which is not reentrant, and the  *)
(* reentrant lock that logging.Handler.handle() holds around emit().       *)
(***************************************************************************)
CONSTANTS Thread,      \* threads of the process
          NoThread     \* a lock's owner while it is free

ASSUME GuardAssumption == NoThread \notin Thread

VARIABLES
  lock,      \* owner of _Reporter.lock
  handler,   \* owner of the handler's lock
  critical,  \* per thread: _in_critical.value
  pc,        \* per thread: where it is
  logged,    \* per thread: whether its call came through the handler
  setting    \* of the program: innerLogs, whether records logged under the
             \* lock pass the handler's level (the library's are warnings);
             \* interrupts, whether a signal handler or a finaliser that
             \* logs may run between two bytecodes of a thread

vars == <<lock, handler, critical, pc, logged, setting>>

Init ==
  /\ lock = NoThread
  /\ handler = NoThread
  /\ critical = [t \in Thread |-> FALSE]
  /\ pc = [t \in Thread |-> "out"]
  /\ logged = [t \in Thread |-> FALSE]
  /\ setting \in [innerLogs : BOOLEAN, interrupts : BOOLEAN]

Go(t, from, to) ==
  /\ pc[t] = from /\ pc' = [pc EXCEPT ![t] = to]
  /\ UNCHANGED setting

-----------------------------------------------------------------------------
(* report(), or the worker's write-back: a critical section.               *)

Enter(t) == Go(t, "out", "waiting") /\ UNCHANGED <<lock, handler, critical, logged>>

\* _LockWithGuard.__enter__: the lock first, ...
Acquire(t) ==
  /\ Go(t, "waiting", "acquired")
  /\ lock = NoThread
  /\ lock' = t
  /\ UNCHANGED <<handler, critical, logged>>

\* ... then the flag.
SetFlag(t) ==
  /\ Go(t, "acquired", "inside")
  /\ critical' = [critical EXCEPT ![t] = TRUE]
  /\ UNCHANGED <<lock, handler, logged>>

\* Bug: __exit__ leaves the flag set.
ClearFlag_Forgets(t) ==
  /\ Go(t, "inside", "leaving")
  /\ UNCHANGED <<lock, handler, critical, logged>>

\* _LockWithGuard.__exit__: the flag first, ...
ClearFlag(t) ==
  /\ Go(t, "inside", "leaving")
  /\ critical' = [critical EXCEPT ![t] = FALSE]
  /\ UNCHANGED <<lock, handler, logged>>

\* Bug: one way out of the section forgets the lock.
Release_Direct(t) ==
  /\ Go(t, "leaving", IF logged[t] THEN "emitted" ELSE "out")
  /\ lock' = IF logged[t] THEN lock ELSE NoThread
  /\ UNCHANGED <<handler, critical, logged>>

\* ... then the lock; a call that came through emit() still has to return
\* from handle().
Release(t) ==
  /\ Go(t, "leaving", IF logged[t] THEN "emitted" ELSE "out")
  /\ lock' = NoThread
  /\ UNCHANGED <<handler, critical, logged>>

-----------------------------------------------------------------------------
(* logging: handle() takes the handler's lock and calls emit().            *)

\* A record of the application.
Log(t) ==
  /\ Go(t, "out", "handling")
  /\ logged' = [logged EXCEPT ![t] = TRUE]
  /\ UNCHANGED <<lock, handler, critical>>

\* A record logged in the middle of a critical section, by a log.warning()
\* of _enqueue or _run; and one logged by what interrupts the thread between
\* two bytecodes of __enter__ or __exit__.
LogInside(t) ==
  /\ setting.innerLogs /\ Go(t, "inside", "nested handling")
  /\ UNCHANGED <<lock, handler, critical, logged>>

LogInterrupts(t) ==
  /\ setting.interrupts
  /\ \E at \in {"acquired", "leaving"} : Go(t, at, "nested handling")
  /\ UNCHANGED <<lock, handler, critical, logged>>

Handle(t) ==
  /\ \/ Go(t, "handling", "emitting")
     \/ Go(t, "nested handling", "nested emitting")
  /\ handler \in {NoThread, t}
  /\ handler' = t
  /\ UNCHANGED <<lock, critical, logged>>

\* Bug: emit() forwards every record.
Guarded_Never(t) == FALSE

\* emit() returns at once on a thread whose flag is set, ...
Guarded(t) == critical[t]

EmitReturns(t) ==
  /\ Guarded(t)
  /\ \E at \in {"emitting", "nested emitting"} :
       Go(t, at, IF at = "emitting" THEN "emitted" ELSE "inside")
  /\ handler' = IF logged[t] THEN handler ELSE NoThread
  /\ UNCHANGED <<lock, critical, logged>>

\* ... and otherwise calls report() or _report_log_record(), still in
\* handle().
EmitReports(t) ==
  /\ ~Guarded(t)
  /\ \E at \in {"emitting", "nested emitting"} : Go(t, at, "waiting")
  /\ UNCHANGED <<lock, handler, critical, logged>>

HandleReturns(t) ==
  /\ Go(t, "emitted", "out")
  /\ handler' = NoThread
  /\ logged' = [logged EXCEPT ![t] = FALSE]
  /\ UNCHANGED <<lock, critical>>

Calls(t) == Enter(t) \/ Log(t) \/ LogInside(t) \/ LogInterrupts(t)

Proceeds(t) == Acquire(t) \/ SetFlag(t) \/ ClearFlag(t) \/ Release(t)
                 \/ Handle(t) \/ EmitReturns(t) \/ EmitReports(t)
                 \/ HandleReturns(t)

Next == \E t \in Thread : Calls(t) \/ Proceeds(t)

Spec == Init /\ [][Next]_vars

\* Every thread that is scheduled goes on with what it is doing, and a lock
\* that is freed again and again is some day got by each that waits for it.
LiveSpec ==
  Spec /\ \A t \in Thread :
            /\ WF_vars(SetFlag(t) \/ ClearFlag(t) \/ Release(t)
                         \/ EmitReturns(t) \/ EmitReports(t) \/ HandleReturns(t))
            /\ SF_vars(Acquire(t)) /\ SF_vars(Handle(t))

-----------------------------------------------------------------------------
(* Properties.                                                             *)

Inner == {"nested handling", "nested emitting"}
Holding == {"acquired", "inside", "leaving"} \union Inner

TypeOK ==
  /\ {lock, handler} \subseteq Thread \union {NoThread}
  /\ critical \in [Thread -> BOOLEAN]
  /\ pc \in [Thread -> {"out", "handling", "emitting", "waiting", "acquired",
                        "inside", "nested handling", "nested emitting",
                        "leaving", "emitted"}]
  /\ logged \in [Thread -> BOOLEAN]
  /\ setting \in [innerLogs : BOOLEAN, interrupts : BOOLEAN]
  /\ ~setting.interrupts =>
       \A t \in Thread : pc[t] \in Holding <=> lock = t

\* __init__.py:30-34: a record logged under the lock is not fed back into
\* report() on the same thread, which would wait for the lock it holds; for
\* every record that the code under the lock itself logs.
NoSelfDeadlock ==
  ~setting.interrupts => \A t \in Thread : pc[t] = "waiting" => lock # t

\* __init__.py:30-34, logging_handler.py:22-27: emit() bails out only for a
\* record that its thread logs inside its own critical section: whoever else
\* holds the lock, the records of the others go through.
OnlyInnerDropped == \A t \in Thread : pc[t] = "emitting" => ~Guarded(t)

\* Logging never wedges a thread: with a handler at its default level, which
\* no record of the library reaches, every call comes back.
EveryCallReturns ==
  \A t \in Thread :
    pc[t] # "out" /\ ~setting.innerLogs /\ ~setting.interrupts ~> pc[t] = "out"

\* What the documents say and the code does not do.

\* Which thread another one waits for.
WaitsFor(t) ==
  CASE pc[t] = "waiting" -> lock
    [] pc[t] \in {"handling", "nested handling"} /\ handler # t -> handler
    [] OTHER -> NoThread

\* tests/test_integration.py:259-264, the guard prevents the deadlock of a
\* handler at level WARNING with the library's own warnings: no two threads
\* wait for one another.
NoCircularWait ==
  \A t \in Thread :
    WaitsFor(t) # NoThread => WaitsFor(WaitsFor(t)) # t
=============================================================================
