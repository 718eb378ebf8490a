------------------------------ MODULE Lifecycle ------------------------------
(***************************************************************************)
(* init() and close() of src/ml3error/__init__.py against the threads of a *)
(* reporter: callers that have passed the check for a closed reporter, the *)
(* worker and its sentinel (worker.py), the heartbeat thread that may      *)
(* outlive its join (heartbeat.py), and the stores that close() closes.    *)
(*                                                                         *)
(* Each init() makes a new reporter; an older one lives on in the threads  *)
(* that still hold it.  Every alert has a fingerprint of its own.  An      *)
(* init() that returns early or raises before it publishes a reporter, and *)
(* ping(), change nothing here; hooks are in the module Hooks.             *)
(***************************************************************************)
EXTENDS Naturals, Sequences, FiniteSets

CONSTANTS Caller,     \* application threads
          QueueSize,
          MaxInits,   \* bound: reporters made
          MaxAlerts   \* bound: alerts reported

ASSUME LifecycleAssumption ==
  QueueSize \in Nat \ {0} /\ MaxInits \in Nat /\ MaxAlerts \in Nat

VARIABLES
  reporter,  \* _reporter: the number of the latest init(), 0 for None
  rep,       \* the reporters
  closing,   \* the thread inside close(), which holds _init_lock
  caller,    \* per application thread: [pc, rep, alert]
  ghost      \* read by properties only: alerts reported so far; those whose
             \* report() returned before close() began, by reporter; those
             \* sent; those written back; those whose write-back, and the
             \* reporters whose digest, found the store closed

vars == <<reporter, rep, closing, caller, ghost>>

Sentinel == 0
Alert == 1..MaxAlerts
Rep == 1..MaxInits

NewReporter == [closed |-> FALSE, open |-> TRUE, queue |-> <<>>,
                worker |-> "none", alert |-> Sentinel, beat |-> "wait"]

Init ==
  /\ reporter = 0
  /\ rep = [r \in Rep |-> NewReporter]
  /\ closing = "out"
  /\ caller = [c \in Caller |-> [pc |-> "out", rep |-> 0, alert |-> Sentinel]]
  /\ ghost = [reported |-> 0, early |-> [r \in Rep |-> {}], sent |-> {},
              written |-> {}, lost |-> {}, unsettled |-> {}]

Active == reporter # 0 /\ ~rep[reporter].closed

\* Bug: off by one.
Full_Late(r) == Len(rep[r].queue) > QueueSize

Full(r) == Len(rep[r].queue) = QueueSize
Running(r) == rep[r].worker \notin {"none", "dead"}

\* _Reporter.lock is held between put_nowait() and the end of submit().
Unlocked(r) == \A c \in Caller : caller[c].pc = "put" => caller[c].rep # r

-----------------------------------------------------------------------------
(* init() and close(), under _init_lock.                                   *)

InitCalled ==
  /\ closing = "out"
  /\ ~Active
  /\ reporter < MaxInits
  /\ reporter' = reporter + 1
  /\ UNCHANGED <<rep, closing, caller, ghost>>

\* closed = True; the heartbeat's stop event is the same fact.
CloseCalled ==
  /\ closing = "out"
  /\ Active
  /\ rep' = [rep EXCEPT ![reporter].closed = TRUE]
  /\ closing' = "join heartbeat"
  /\ UNCHANGED <<reporter, caller, ghost>>

CloseGoes(from, to) == closing = from /\ closing' = to

\* Heartbeat.stop(): the thread ends within a second or is left behind.
HeartbeatJoined ==
  /\ CloseGoes("join heartbeat", "shutdown")
  /\ UNCHANGED <<reporter, rep, caller, ghost>>

\* Bug: makes room for the sentinel.
WithSentinel_Evicts(q) ==
  IF Len(q) = QueueSize THEN Append(Tail(q), Sentinel) ELSE Append(q, Sentinel)

WithSentinel(q) ==
  IF Len(q) = QueueSize THEN q ELSE Append(q, Sentinel)

\* shutdown(): nothing to stop, or a sentinel, or the queue stays full for
\* the whole drain timeout.
Shutdown ==
  /\ CloseGoes("shutdown", IF Running(reporter) /\ ~Full(reporter)
                           THEN "join" ELSE "stores")
  /\ rep' = [rep EXCEPT ![reporter].queue =
               IF Running(reporter) THEN WithSentinel(@) ELSE @]
  /\ UNCHANGED <<reporter, caller, ghost>>

\* Bug: join() without a timeout.
WorkerJoined_Forever ==
  /\ CloseGoes("join", "stores")
  /\ ~Running(reporter)
  /\ UNCHANGED <<reporter, rep, caller, ghost>>

\* The join ends with the thread or after the drain timeout.
WorkerJoined ==
  /\ CloseGoes("join", "stores")
  /\ UNCHANGED <<reporter, rep, caller, ghost>>

\* Bug: closes the stores whether or not the worker stopped.
MayCloseStores_Always(r) == TRUE

MayCloseStores(r) == ~Running(r)

StoresClosed ==
  /\ CloseGoes("stores", "out")
  /\ rep' = [rep EXCEPT ![reporter].open = ~MayCloseStores(reporter)]
  /\ UNCHANGED <<reporter, caller, ghost>>

Close == HeartbeatJoined \/ Shutdown \/ WorkerJoined \/ StoresClosed

-----------------------------------------------------------------------------
(* report(): the check, then put_nowait(), then _ensure_thread().  A store *)
(* that was closed in between makes decide() raise: sent without a         *)
(* decision.                                                               *)

Report(c) ==
  /\ caller[c].pc = "out"
  /\ Active
  /\ ghost.reported < MaxAlerts
  /\ caller' = [caller EXCEPT ![c] = [pc |-> "checked", rep |-> reporter,
                                      alert |-> ghost.reported + 1]]
  /\ ghost' = [ghost EXCEPT !.reported = @ + 1]
  /\ UNCHANGED <<reporter, rep, closing>>

Put(c) ==
  LET r == caller[c].rep IN
  /\ caller[c].pc = "checked"
  /\ Unlocked(r)
  /\ ~Full(r)
  /\ rep' = [rep EXCEPT ![r].queue = Append(@, caller[c].alert)]
  /\ caller' = [caller EXCEPT ![c].pc = "put"]
  /\ UNCHANGED <<reporter, closing, ghost>>

Dropped(c) ==
  /\ caller[c].pc = "checked"
  /\ Unlocked(caller[c].rep)
  /\ Full(caller[c].rep)
  /\ caller' = [caller EXCEPT ![c].pc = "out"]
  /\ UNCHANGED <<reporter, rep, closing, ghost>>

EnsureThread(c) ==
  LET r == caller[c].rep IN
  /\ caller[c].pc = "put"
  /\ rep' = [rep EXCEPT ![r].worker = IF Running(r) THEN @ ELSE "get"]
  /\ caller' = [caller EXCEPT ![c].pc = "out"]
  /\ ghost' = IF rep[r].closed THEN ghost
              ELSE [ghost EXCEPT !.early[r] = @ \union {caller[c].alert}]
  /\ UNCHANGED <<reporter, closing>>

-----------------------------------------------------------------------------
(* The worker.                                                             *)

WorkerGet(r) ==
  /\ rep[r].worker = "get"
  /\ rep[r].queue # <<>>
  /\ rep' = [rep EXCEPT
       ![r].queue = Tail(@),
       ![r].alert = Head(rep[r].queue),
       ![r].worker = IF Head(rep[r].queue) = Sentinel THEN "dead" ELSE "send"]
  /\ UNCHANGED <<reporter, closing, caller, ghost>>

Send(r) ==
  /\ rep[r].worker = "send"
  /\ rep' = [rep EXCEPT ![r].worker = "write"]
  /\ ghost' = [ghost EXCEPT !.sent = @ \union {rep[r].alert}]
  /\ UNCHANGED <<reporter, closing, caller>>

WriteBack(r) ==
  /\ rep[r].worker = "write"
  /\ Unlocked(r)
  /\ rep' = [rep EXCEPT ![r].worker = "get"]
  /\ ghost' = IF rep[r].open
              THEN [ghost EXCEPT !.written = @ \union {rep[r].alert}]
              ELSE [ghost EXCEPT !.lost = @ \union {rep[r].alert}]
  /\ UNCHANGED <<reporter, closing, caller>>

Worker(r) == WorkerGet(r) \/ Send(r) \/ WriteBack(r)

-----------------------------------------------------------------------------
(* The heartbeat thread: wait, claim and snapshot, send, settle.           *)

BeatGoes(r, from, to) ==
  /\ r <= reporter
  /\ rep[r].beat = from
  /\ rep' = [rep EXCEPT ![r].beat = to]
  /\ UNCHANGED <<reporter, closing, caller>>

Poll(r) == BeatGoes(r, "wait", "due") /\ ~rep[r].closed /\ UNCHANGED ghost

\* On a closed store the claim raises, and the loop goes on.
Fire(r) ==
  /\ Unlocked(r)
  /\ BeatGoes(r, "due", IF rep[r].open THEN "sending" ELSE "wait")
  /\ UNCHANGED ghost

DigestSent(r) == BeatGoes(r, "sending", "settle") /\ UNCHANGED ghost

Settle(r) ==
  /\ Unlocked(r)
  /\ BeatGoes(r, "settle", "wait")
  /\ ghost' = IF rep[r].open THEN ghost
              ELSE [ghost EXCEPT !.unsettled = @ \union {r}]

Stopped(r) == BeatGoes(r, "wait", "gone") /\ rep[r].closed /\ UNCHANGED ghost

Beat(r) == Poll(r) \/ Fire(r) \/ DigestSent(r) \/ Settle(r) \/ Stopped(r)

-----------------------------------------------------------------------------

Next == \/ InitCalled \/ CloseCalled \/ Close
        \/ \E c \in Caller : Report(c) \/ Put(c) \/ Dropped(c) \/ EnsureThread(c)
        \/ \E r \in Rep : Worker(r) \/ Beat(r)

Spec == Init /\ [][Next]_vars

\* Only the closing thread is sure to run: the transport may hang and a
\* thread may keep the reporter's lock, which close() never takes.
CloseFair == Spec /\ WF_vars(Close)

\* Submits end and transports answer.
ThreadsGoOn == /\ \A r \in Rep : WF_vars(Worker(r))
               /\ \A c \in Caller : WF_vars(EnsureThread(c))

-----------------------------------------------------------------------------
(* Properties.                                                             *)

TypeOK ==
  /\ reporter \in 0..MaxInits
  /\ \A r \in Rep :
       /\ rep[r].closed \in BOOLEAN /\ rep[r].open \in BOOLEAN
       /\ rep[r].queue \in Seq(Alert \union {Sentinel})
       /\ Len(rep[r].queue) <= QueueSize
       /\ rep[r].worker \in {"none", "get", "send", "write", "dead"}
       /\ rep[r].alert \in Alert \union {Sentinel}
       /\ rep[r].beat \in {"wait", "due", "sending", "settle", "gone"}
  /\ closing \in {"out", "join heartbeat", "shutdown", "join", "stores"}
  /\ caller \in [Caller -> [pc : {"out", "checked", "put"},
                            rep : 0..MaxInits, alert : Alert \union {Sentinel}]]

\* __init__.py:196-202: once close() has closed the stores, every alert whose
\* report() had returned before close() was called is sent and written back,
\* also when close() raced with other threads' reports.
ClosedMeansFlushed ==
  \A r \in Rep : ~rep[r].open => ghost.early[r] \subseteq ghost.written

\* SPEC.md:66-68, 357: draining is bounded; close() returns, whatever the
\* other threads do or do not do.
CloseReturns == closing # "out" ~> closing = "out"

\* SPEC.md:66-67: what was accepted before close() is sent some day, if the
\* other threads go on, even when the drain timeout passes first (in a process
\* that lives on).
EarlyAlertsSent ==
  ThreadsGoOn => <>[](\A r \in Rep : ghost.early[r] \subseteq ghost.sent)

\* What the documents say and the code does not do.

\* SPEC.md:66-68, "flushes anything still in the send queue": when the worker
\* is gone and no caller is in submit(), the queue is empty.
NothingStranded ==
  \A r \in Rep : rep[r].worker = "dead" /\ Unlocked(r) => rep[r].queue = <<>>

\* __init__.py:196-202: the stores are not closed under a worker that will
\* write to them.
WriteBacksFindStoreOpen == ghost.lost = {}

\* SPEC.md:398-400, 466-467: a digest that was sent settles its counters.
DigestsSettle == ghost.unsettled = {}
=============================================================================
