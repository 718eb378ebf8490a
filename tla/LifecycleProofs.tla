--------------------------- MODULE LifecycleProofs ---------------------------
(***************************************************************************)
(* Theorems about Lifecycle, for every number of threads, reporters and    *)
(* alerts, every queue size, and every race of close() with reports, the   *)
(* worker, a drain that times out and the heartbeat thread.                *)
(***************************************************************************)
EXTENDS Lifecycle, TLAPS

-----------------------------------------------------------------------------
(* Type correctness.                                                       *)

Work == Alert \union {Sentinel}
Workers == {"none", "get", "send", "write", "dead"}
Beats == {"wait", "due", "sending", "settle", "gone"}

Reporters == [closed : BOOLEAN, open : BOOLEAN, queue : Seq(Work),
              worker : Workers, alert : Work, beat : Beats]

Callers == [Caller -> [pc : {"out", "checked", "put"},
                       rep : 0..MaxInits, alert : Work]]

Ghosts == [reported : Nat, early : [Rep -> SUBSET Alert],
           sent : SUBSET Work, written : SUBSET Work,
           lost : SUBSET Work, unsettled : SUBSET Rep]

\* The type invariant with the reporters as records, the types of the ghost
\* variable, and what a thread inside report() holds.
Typed ==
  /\ TypeOK
  /\ rep \in [Rep -> Reporters]
  /\ ghost \in Ghosts
  /\ caller \in Callers
  /\ \A c \in Caller : caller[c].pc # "out" =>
                         caller[c].rep \in Rep /\ caller[c].alert \in Alert
  /\ closing # "out" => reporter \in Rep /\ rep[reporter].closed

\* What a step that changes the reporter r, and no other, owes to Typed.
LEMMA OneReporter ==
  ASSUME Typed, NEW r \in Rep, NEW x \in Reporters,
         Len(x.queue) <= QueueSize, rep' = [rep EXCEPT ![r] = x]
  PROVE  /\ rep' \in [Rep -> Reporters]
         /\ \A q \in Rep :
              /\ rep'[q].closed \in BOOLEAN /\ rep'[q].open \in BOOLEAN
              /\ rep'[q].queue \in Seq(Alert \union {Sentinel})
              /\ Len(rep'[q].queue) <= QueueSize
              /\ rep'[q].worker \in {"none", "get", "send", "write", "dead"}
              /\ rep'[q].alert \in Alert \union {Sentinel}
              /\ rep'[q].beat \in {"wait", "due", "sending", "settle", "gone"}
<1>1. rep \in [Rep -> Reporters] /\ \A q \in Rep : Len(rep[q].queue) <= QueueSize
  BY DEF Typed, TypeOK
<1>2. rep' \in [Rep -> Reporters]
  BY <1>1
<1>3. \A q \in Rep : rep'[q] \in Reporters /\ Len(rep'[q].queue) <= QueueSize
  BY <1>1, <1>2
<1> QED BY <1>2, <1>3 DEF Reporters, Workers, Beats, Work

\* The sentinel goes into a queue that has room, and nowhere else.
LEMMA SentinelFits ==
  ASSUME NEW q \in Seq(Work), Len(q) <= QueueSize
  PROVE  WithSentinel(q) \in Seq(Work) /\ Len(WithSentinel(q)) <= QueueSize
BY LifecycleAssumption DEF WithSentinel, Work

\* What a step of another thread than the closing one owes to Typed when it
\* changes the reporter r.
LEMMA ChangedReporter ==
  ASSUME Typed, NEW r \in Rep, NEW x \in Reporters,
         Len(x.queue) <= QueueSize, x.closed = rep[r].closed,
         rep' = [rep EXCEPT ![r] = x],
         ghost' \in Ghosts, caller' \in Callers,
         \A d \in Caller : caller'[d].pc # "out" =>
           /\ caller[d].pc # "out"
           /\ caller'[d].rep = caller[d].rep /\ caller'[d].alert = caller[d].alert,
         UNCHANGED <<reporter, closing>>
  PROVE  Typed'
<1>1. rep \in [Rep -> Reporters]
  BY DEF Typed
<1>2. \A q \in Rep : rep'[q].closed = rep[q].closed
  BY <1>1
<1>3. rep' \in [Rep -> Reporters]
  BY <1>1
<1>4. TypeOK'
  BY OneReporter DEF Typed, TypeOK, Callers, Work
<1>5. \A d \in Caller : caller'[d].pc # "out" =>
                       caller'[d].rep \in Rep /\ caller'[d].alert \in Alert
  BY DEF Typed
<1>6. closing' # "out" => reporter' \in Rep /\ rep'[reporter'].closed
  BY <1>2 DEF Typed
<1> QED BY <1>3, <1>4, <1>5, <1>6 DEF Typed

LEMMA TypedInit == Init => Typed
<1> SUFFICES ASSUME Init PROVE Typed
  OBVIOUS
<1>1. NewReporter \in Reporters /\ Len(NewReporter.queue) <= QueueSize
  BY LifecycleAssumption
     DEF NewReporter, Reporters, Work, Workers, Beats
<1>2. rep \in [Rep -> Reporters] /\ \A r \in Rep : rep[r] = NewReporter
  BY <1>1 DEF Init
<1>3. /\ 0 \in 0..MaxInits /\ Sentinel \in Work
  BY LifecycleAssumption DEF Work
<1> QED
  BY <1>1, <1>2, <1>3
     DEF Init, Typed, TypeOK, Reporters, Work, Workers, Beats, Callers, Ghosts

LEMMA CloseTyped ==
  ASSUME Typed, InitCalled \/ CloseCalled \/ Close
  PROVE  Typed'
<1>0. reporter \in Nat /\ MaxInits \in Nat /\ rep \in [Rep -> Reporters]
  <2>1. MaxInits \in Nat
    BY LifecycleAssumption
  <2>2. reporter \in 0..MaxInits /\ rep \in [Rep -> Reporters]
    BY DEF Typed, TypeOK
  <2> QED BY <2>1, <2>2
<1>1. CASE InitCalled
  <2>1. reporter' \in 0..MaxInits
    BY <1>0, <1>1 DEF InitCalled
  <2> QED BY <1>1, <2>1 DEF InitCalled, Typed, TypeOK
<1>2. CASE CloseCalled
  <2>1. reporter \in Rep
    <3>1. reporter # 0 /\ reporter \in 0..MaxInits
      BY <1>2 DEF CloseCalled, Active, Typed, TypeOK
    <3> QED BY <1>0, <3>1 DEF Rep
  <2> DEFINE x == [rep[reporter] EXCEPT !.closed = TRUE]
  <2>2. x \in Reporters /\ x.closed /\ Len(x.queue) <= QueueSize
    BY <1>0, <2>1, ZenonT(30) DEF Reporters, Typed, TypeOK
  <2>3. rep' = [rep EXCEPT ![reporter] = x]
    BY <1>2 DEF CloseCalled
  <2> HIDE DEF x
  <2>4. rep'[reporter].closed
    BY <1>0, <2>1, <2>2, <2>3
  <2> QED
    BY <1>2, <2>1, <2>2, <2>3, <2>4, OneReporter, ZenonT(30)
       DEF CloseCalled, Typed, TypeOK
<1>3. CASE HeartbeatJoined \/ WorkerJoined
  BY <1>3 DEF HeartbeatJoined, WorkerJoined, CloseGoes, Typed, TypeOK
<1>4. CASE Shutdown
  <2>1. reporter \in Rep /\ rep[reporter].closed
    BY <1>4 DEF Shutdown, CloseGoes, Typed
  <2> DEFINE x == [rep[reporter] EXCEPT !.queue =
                     IF Running(reporter) THEN WithSentinel(@) ELSE @]
  <2>2. /\ rep[reporter] \in Reporters /\ rep[reporter].queue \in Seq(Work)
        /\ Len(rep[reporter].queue) <= QueueSize
    BY <1>0, <2>1 DEF Reporters, Typed, TypeOK
  <2>3. /\ x \in Reporters /\ x.closed /\ Len(x.queue) <= QueueSize
    BY <2>1, <2>2, SentinelFits DEF Reporters
  <2>4. rep' = [rep EXCEPT ![reporter] = x]
    BY <1>4 DEF Shutdown
  <2> HIDE DEF x
  <2>5. rep'[reporter].closed
    BY <1>0, <2>1, <2>3, <2>4
  <2>6. closing' \in {"join", "stores"} /\ UNCHANGED <<reporter, caller, ghost>>
    BY <1>4 DEF Shutdown, CloseGoes
  <2> QED
    BY <2>1, <2>3, <2>4, <2>5, <2>6, OneReporter DEF Typed, TypeOK
<1>5. CASE StoresClosed
  <2>1. reporter \in Rep
    BY <1>5 DEF StoresClosed, CloseGoes, Typed
  <2> DEFINE x == [rep[reporter] EXCEPT !.open = ~MayCloseStores(reporter)]
  <2>2. x \in Reporters /\ Len(x.queue) <= QueueSize
    <3>1. (~MayCloseStores(reporter)) \in BOOLEAN
      BY DEF MayCloseStores, Running
    <3>2. rep[reporter] \in Reporters /\ Len(rep[reporter].queue) <= QueueSize
      BY <1>0, <2>1 DEF Typed, TypeOK
    <3> QED BY <3>1, <3>2 DEF Reporters
  <2>3. rep' = [rep EXCEPT ![reporter] = x]
    BY <1>5 DEF StoresClosed
  <2> HIDE DEF x
  <2> QED
    BY <1>5, <2>1, <2>2, <2>3, OneReporter, ZenonT(30)
       DEF StoresClosed, CloseGoes, Typed, TypeOK
<1> QED BY <1>1, <1>2, <1>3, <1>4, <1>5 DEF Close

LEMMA CallerTyped ==
  ASSUME Typed, NEW c \in Caller,
         Report(c) \/ Put(c) \/ Dropped(c) \/ EnsureThread(c)
  PROVE  Typed'
<1>0. /\ caller \in Callers
      /\ rep \in [Rep -> Reporters]
  BY DEF Typed
<1>1. CASE Report(c)
  <2>1. reporter \in Rep /\ reporter \in 0..MaxInits
    <3>1. reporter # 0 /\ reporter \in 0..MaxInits /\ MaxInits \in Nat
      BY LifecycleAssumption, <1>1 DEF Report, Active, Typed, TypeOK
    <3> QED BY <3>1 DEF Rep
  <2>2. ghost.reported + 1 \in Alert /\ ghost.reported + 1 \in Nat
    BY LifecycleAssumption, <1>1 DEF Report, Alert, Typed, Ghosts
  <2>3. caller' = [caller EXCEPT ![c] = [pc |-> "checked", rep |-> reporter,
                                         alert |-> ghost.reported + 1]]
    BY <1>1 DEF Report
  <2>4. caller' \in Callers
    BY <1>0, <2>1, <2>2, <2>3 DEF Work, Callers
  <2>5. \A d \in Caller : caller'[d].pc # "out" =>
                          caller'[d].rep \in Rep /\ caller'[d].alert \in Alert
    BY <1>0, <2>1, <2>2, <2>3 DEF Typed, Callers
  <2>6. ghost' \in Ghosts
    BY <1>1, <2>2 DEF Report, Typed, Ghosts
  <2> QED BY <1>1, <2>4, <2>5, <2>6 DEF Report, Typed, TypeOK, Work, Callers
<1>2. CASE Put(c)
  <2> DEFINE r == caller[c].rep
             x == [rep[r] EXCEPT !.queue = Append(@, caller[c].alert)]
  <2>1. r \in Rep /\ caller[c].alert \in Alert /\ caller[c].alert \in Work
    BY <1>2 DEF Put, Typed, Work
  <2>2. /\ rep[r] \in Reporters /\ rep[r].queue \in Seq(Work)
        /\ Len(rep[r].queue) <= QueueSize /\ Len(rep[r].queue) # QueueSize
    BY <1>0, <1>2, <2>1 DEF Put, Full, Reporters, Typed, TypeOK
  <2>3. x \in Reporters /\ x.closed = rep[r].closed /\ Len(x.queue) <= QueueSize
    <3>1. QueueSize \in Nat
      BY LifecycleAssumption
    <3>2. /\ Append(rep[r].queue, caller[c].alert) \in Seq(Work)
          /\ Len(Append(rep[r].queue, caller[c].alert)) <= QueueSize
      BY <2>1, <2>2, <3>1
    <3> QED BY <2>2, <3>2 DEF Reporters
  <2>4. rep' = [rep EXCEPT ![r] = x]
    BY <1>2 DEF Put
  <2> HIDE DEF r, x
  <2>5. /\ caller' \in Callers
        /\ \A d \in Caller : /\ caller'[d].rep = caller[d].rep
                             /\ caller'[d].alert = caller[d].alert
                             /\ caller'[d].pc # "out" => caller[d].pc # "out"
        /\ UNCHANGED <<reporter, closing, ghost>>
    BY <1>0, <1>2 DEF Put, Callers
  <2>6. ghost' \in Ghosts
    BY <2>5 DEF Typed
  <2> QED
    BY <2>1, <2>3, <2>4, <2>5, <2>6, ChangedReporter
<1>3. CASE Dropped(c)
  BY <1>0, <1>3 DEF Dropped, Typed, TypeOK, Work, Callers
<1>4. CASE EnsureThread(c)
  <2> DEFINE r == caller[c].rep
             x == [rep[r] EXCEPT !.worker = IF Running(r) THEN @ ELSE "get"]
  <2>1. r \in Rep /\ caller[c].alert \in Alert
    BY <1>4 DEF EnsureThread, Typed
  <2>2. rep[r] \in Reporters /\ Len(rep[r].queue) <= QueueSize
    BY <1>0, <2>1 DEF Typed, TypeOK
  <2>3. x \in Reporters /\ x.closed = rep[r].closed /\ Len(x.queue) <= QueueSize
    BY <2>2 DEF Reporters, Workers
  <2>4. rep' = [rep EXCEPT ![r] = x]
    BY <1>4 DEF EnsureThread
  <2>5. ghost' \in Ghosts
    BY <1>4, <2>1 DEF EnsureThread, Typed, Ghosts
  <2> HIDE DEF r, x
  <2>6. /\ caller' \in Callers
        /\ \A d \in Caller : /\ caller'[d].rep = caller[d].rep
                             /\ caller'[d].alert = caller[d].alert
                             /\ caller'[d].pc # "out" => caller[d].pc # "out"
        /\ UNCHANGED <<reporter, closing>>
    BY <1>0, <1>4 DEF EnsureThread, Callers
  <2> QED
    BY <2>1, <2>3, <2>4, <2>5, <2>6, ChangedReporter
<1> QED BY <1>1, <1>2, <1>3, <1>4

LEMMA WorkerTyped ==
  ASSUME Typed, NEW r \in Rep, Worker(r)
  PROVE  Typed'
<1>0. /\ rep \in [Rep -> Reporters] /\ rep[r] \in Reporters
      /\ rep[r].queue \in Seq(Work) /\ Len(rep[r].queue) <= QueueSize
      /\ rep[r].alert \in Work
  BY DEF Typed, TypeOK, Reporters
<1>1. PICK x \in Reporters :
        /\ x.closed = rep[r].closed /\ Len(x.queue) <= QueueSize
        /\ rep' = [rep EXCEPT ![r] = x]
  <2>1. CASE WorkerGet(r)
    <3> DEFINE x == [rep[r] EXCEPT
          !.queue = Tail(@), !.alert = Head(rep[r].queue),
          !.worker = IF Head(rep[r].queue) = Sentinel THEN "dead" ELSE "send"]
    <3>1. rep[r].queue # <<>>
      BY <2>1 DEF WorkerGet
    <3>2. /\ Tail(rep[r].queue) \in Seq(Work) /\ Head(rep[r].queue) \in Work
          /\ Len(Tail(rep[r].queue)) <= QueueSize
      BY <1>0, <3>1, LifecycleAssumption
    <3>3. x \in Reporters /\ x.closed = rep[r].closed /\ Len(x.queue) <= QueueSize
      BY <1>0, <3>2 DEF Reporters, Workers
    <3>4. rep' = [rep EXCEPT ![r] = x]
      BY <2>1 DEF WorkerGet
    <3> QED BY <3>3, <3>4
  <2>2. CASE Send(r)
    <3> DEFINE x == [rep[r] EXCEPT !.worker = "write"]
    <3>1. x \in Reporters /\ x.closed = rep[r].closed /\ Len(x.queue) <= QueueSize
      BY <1>0 DEF Reporters, Workers
    <3> QED BY <2>2, <3>1 DEF Send
  <2>3. CASE WriteBack(r)
    <3> DEFINE x == [rep[r] EXCEPT !.worker = "get"]
    <3>1. x \in Reporters /\ x.closed = rep[r].closed /\ Len(x.queue) <= QueueSize
      BY <1>0 DEF Reporters, Workers
    <3> QED BY <2>3, <3>1 DEF WriteBack
  <2> QED BY <2>1, <2>2, <2>3 DEF Worker
<1>3. ghost' \in Ghosts
  BY <1>0 DEF Worker, WorkerGet, Send, WriteBack, Typed, Ghosts
<1>4. UNCHANGED <<reporter, closing, caller>>
  BY DEF Worker, WorkerGet, Send, WriteBack
<1> QED BY <1>1, <1>3, <1>4, ChangedReporter DEF Typed

LEMMA BeatTyped ==
  ASSUME Typed, NEW r \in Rep, Beat(r)
  PROVE  Typed'
<1>1. PICK to \in Beats : rep' = [rep EXCEPT ![r].beat = to]
  BY DEF Beat, Poll, Fire, DigestSent, Settle, Stopped, BeatGoes, Beats
<1> DEFINE x == [rep[r] EXCEPT !.beat = to]
<1>2. /\ x \in Reporters /\ x.closed = rep[r].closed
      /\ Len(x.queue) <= QueueSize /\ rep \in [Rep -> Reporters]
  <2>1. rep[r] \in Reporters /\ Len(rep[r].queue) <= QueueSize
    BY DEF Typed, TypeOK
  <2> QED BY <2>1 DEF Reporters, Typed
<1>3. rep' = [rep EXCEPT ![r] = x]
  BY <1>1
<1> HIDE DEF x
<1>5. UNCHANGED <<reporter, closing, caller>>
  BY DEF Beat, Poll, Fire, DigestSent, Settle, Stopped, BeatGoes
<1>6. ghost' \in Ghosts
  BY DEF Beat, Poll, Fire, DigestSent, Settle, Stopped, Typed, Ghosts
<1> QED BY <1>2, <1>3, <1>5, <1>6, ChangedReporter DEF Typed

LEMMA TypedStep == Typed /\ [Next]_vars => Typed'
<1> SUFFICES ASSUME Typed, [Next]_vars PROVE Typed'
  OBVIOUS
<1>1. CASE UNCHANGED vars
  BY <1>1 DEF vars, Typed, TypeOK
<1> QED
  BY <1>1, CloseTyped, CallerTyped, WorkerTyped, BeatTyped DEF Next

\* Every variable keeps its type, and no queue outgrows its size.
THEOREM TypeCorrect == Spec => []TypeOK
<1>1. Typed => TypeOK
  BY DEF Typed
<1> QED BY <1>1, TypedInit, TypedStep, PTL DEF Spec

-----------------------------------------------------------------------------
(* What the stores are closed on is written.                               *)

\* a is in q, with no sentinel before it.
Ahead(q, a) == \E i \in 1..Len(q) : q[i] = a /\ \A j \in 1..i : q[j] # Sentinel

\* The alert a was written back, or the worker of r has it in hand, or will
\* come to it before it stops.
Saved(r, a) ==
  \/ a \in ghost.written
  \/ rep[r].worker \in {"send", "write"} /\ rep[r].alert = a
  \/ Ahead(rep[r].queue, a)

\* A reporter that nobody closed has no sentinel in its queue and no dead
\* worker; one whose worker never started has accepted nothing; one whose
\* worker has stopped, or whose stores are closed, has written what it
\* accepted; and otherwise what it accepted before it was closed, or is
\* accepting, is saved.
FlushedReporter(r) ==
  /\ ~rep[r].closed => /\ rep[r].open
                       /\ rep[r].worker # "dead"
                       /\ \A i \in 1..Len(rep[r].queue) :
                            rep[r].queue[i] # Sentinel
  /\ rep[r].worker = "none" => ghost.early[r] = {}
  /\ rep[r].worker = "dead" \/ ~rep[r].open
       => ghost.early[r] \subseteq ghost.written
  /\ \A a \in ghost.early[r] : Saved(r, a)

FlushedCaller(c) ==
  LET r == caller[c].rep IN
  caller[c].pc = "put" /\ ~rep[r].closed => Saved(r, caller[c].alert)

\* _Reporter.lock: one thread at a time is between put_nowait() and the end
\* of submit().
FlushInv ==
  /\ \A r \in Rep : FlushedReporter(r)
  /\ \A c \in Caller : FlushedCaller(c)

LEMMA AlertsAreNoSentinels == \A a \in Alert : a # Sentinel /\ a \in Work
BY DEF Alert, Sentinel, Work

\* A put at the end delays nothing.
LEMMA AheadAppend ==
  ASSUME NEW q \in Seq(Work), NEW a, NEW x \in Work, Ahead(q, a)
  PROVE  Ahead(Append(q, x), a)
<1>1. PICK i \in 1..Len(q) : q[i] = a /\ \A j \in 1..i : q[j] # Sentinel
  BY DEF Ahead
<1>2. /\ i \in 1..Len(Append(q, x))
      /\ \A j \in 1..i : Append(q, x)[j] = q[j]
      /\ i \in 1..i
  BY <1>1
<1> QED BY <1>1, <1>2 DEF Ahead

\* What is put in a queue without a sentinel is ahead of any.
LEMMA AheadLast ==
  ASSUME NEW q \in Seq(Work), \A i \in 1..Len(q) : q[i] # Sentinel,
         NEW a \in Alert
  PROVE  Ahead(Append(q, a), a)
<1> DEFINE i == Len(q) + 1
<1>1. a # Sentinel /\ a \in Work
  BY AlertsAreNoSentinels
<1>2. i \in 1..Len(Append(q, a)) /\ Append(q, a)[i] = a
  BY <1>1
<1>3. \A j \in 1..i : Append(q, a)[j] # Sentinel
  <2> SUFFICES ASSUME NEW j \in 1..i PROVE Append(q, a)[j] # Sentinel
    OBVIOUS
  <2>1. CASE j = i
    BY <1>1, <1>2, <2>1
  <2>2. CASE j # i
    BY <1>1, <2>2
  <2> QED BY <2>1, <2>2
<1> QED BY <1>2, <1>3 DEF Ahead

\* The worker takes the head; the rest moves up.
LEMMA AheadTail ==
  ASSUME NEW q \in Seq(Work), NEW a, q # <<>>, Ahead(q, a)
  PROVE  /\ Head(q) # Sentinel
         /\ Head(q) = a \/ Ahead(Tail(q), a)
<1>1. PICK i \in 1..Len(q) : q[i] = a /\ \A j \in 1..i : q[j] # Sentinel
  BY DEF Ahead
<1>2. Head(q) = q[1] /\ 1 \in 1..i
  BY <1>1
<1>3. CASE i = 1
  BY <1>1, <1>2, <1>3
<1>4. CASE i # 1
  <2> DEFINE k == i - 1
  <2>1. k \in 1..Len(Tail(q)) /\ Tail(q)[k] = a
    BY <1>1, <1>4
  <2>2. \A j \in 1..k : Tail(q)[j] # Sentinel
    <3> SUFFICES ASSUME NEW j \in 1..k PROVE Tail(q)[j] # Sentinel
      OBVIOUS
    <3>1. j + 1 \in 1..i /\ Tail(q)[j] = q[j + 1]
      BY <1>1, <1>4
    <3> QED BY <1>1, <3>1
  <2> QED BY <1>1, <1>2, <2>1, <2>2 DEF Ahead
<1> QED BY <1>3, <1>4

\* Saved is about the worker, its alert, the queue and what is written.
LEMMA SavedStays ==
  ASSUME NEW r \in Rep, ghost.written \subseteq ghost'.written,
         rep'[r].queue = rep[r].queue, rep'[r].alert = rep[r].alert,
         rep[r].worker \in {"send", "write"} => rep'[r].worker \in {"send", "write"}
  PROVE  \A a : Saved(r, a) => Saved(r, a)'
BY DEF Saved, Ahead

\* A step that leaves these alone leaves the reporter flushed.
LEMMA ReporterStays ==
  ASSUME FlushInv, NEW r \in Rep, ghost.written \subseteq ghost'.written,
         ghost'.early[r] = ghost.early[r],
         rep'[r].queue = rep[r].queue, rep'[r].alert = rep[r].alert,
         rep'[r].worker = rep[r].worker, rep'[r].open = rep[r].open,
         rep[r].closed => rep'[r].closed
  PROVE  FlushedReporter(r)' /\ \A a : Saved(r, a) => Saved(r, a)'
<1>1. \A a : Saved(r, a) => Saved(r, a)'
  BY SavedStays
<1> QED BY <1>1 DEF FlushInv, FlushedReporter

LEMMA FlushInit == Init => FlushInv
<1> SUFFICES ASSUME Init PROVE FlushInv
  OBVIOUS
<1>1. \A r \in Rep : rep[r] = NewReporter /\ ghost.early[r] = {}
  BY DEF Init
<1>2. \A r \in Rep : FlushedReporter(r)
  BY <1>1 DEF FlushedReporter, NewReporter
<1>3. \A c \in Caller : FlushedCaller(c)
  BY DEF Init, FlushedCaller
<1> QED BY <1>2, <1>3 DEF FlushInv

LEMMA CloseFlush ==
  ASSUME Typed, FlushInv, InitCalled \/ CloseCalled \/ Close
  PROVE  FlushInv'
<1>0. /\ rep \in [Rep -> Reporters] /\ UNCHANGED <<caller, ghost>>
      /\ \A c \in Caller : caller[c].pc # "out" => caller[c].rep \in Rep
  BY DEF Typed, InitCalled, CloseCalled, Close, HeartbeatJoined, Shutdown,
         WorkerJoined, StoresClosed
<1>1. CASE InitCalled \/ CloseCalled \/ HeartbeatJoined \/ WorkerJoined
  <2>1. \A r \in Rep : /\ rep'[r].queue = rep[r].queue
                       /\ rep'[r].alert = rep[r].alert
                       /\ rep'[r].worker = rep[r].worker
                       /\ rep'[r].open = rep[r].open
                       /\ rep[r].closed => rep'[r].closed
    <3>1. CASE CloseCalled
      <4>1. rep' = [rep EXCEPT ![reporter] =
                      [rep[reporter] EXCEPT !.closed = TRUE]]
        BY <3>1 DEF CloseCalled
      <4> SUFFICES ASSUME NEW r \in Rep
                   PROVE  rep'[r] \in {rep[r], [rep[r] EXCEPT !.closed = TRUE]}
        BY <1>0 DEF Reporters
      <4> QED BY <1>0, <4>1
    <3>2. CASE rep' = rep
      BY <3>2
    <3> QED
      BY <1>1, <3>1, <3>2 DEF InitCalled, HeartbeatJoined, WorkerJoined
  <2>2. \A r \in Rep : FlushedReporter(r)' /\ \A a : Saved(r, a) => Saved(r, a)'
    BY <1>0, <2>1, ReporterStays
  <2>3. \A c \in Caller : FlushedCaller(c)'
    BY <1>0, <2>1, <2>2 DEF FlushInv, FlushedCaller
  <2> QED BY <2>2, <2>3 DEF FlushInv
<1>2. CASE Shutdown
  <2>1. reporter \in Rep /\ rep[reporter].closed
    BY <1>2 DEF Shutdown, CloseGoes, Typed
  <2>2. \A r \in Rep : r # reporter => rep'[r] = rep[r]
    BY <1>0, <1>2 DEF Shutdown
  <2>3. /\ rep'[reporter].queue \in {rep[reporter].queue,
                                    Append(rep[reporter].queue, Sentinel)}
        /\ rep'[reporter].alert = rep[reporter].alert
        /\ rep'[reporter].worker = rep[reporter].worker
        /\ rep'[reporter].open = rep[reporter].open
        /\ rep'[reporter].closed
    BY <1>0, <1>2, <2>1 DEF Shutdown, WithSentinel
  <2>4. \A a : Saved(reporter, a) =>
                 \/ a \in ghost'.written
                 \/ /\ rep'[reporter].worker \in {"send", "write"}
                    /\ rep'[reporter].alert = a
                 \/ Ahead(rep'[reporter].queue, a)
    <3>1. rep[reporter].queue \in Seq(Work) /\ Sentinel \in Work
      BY <1>0, <2>1 DEF Reporters, Work
    <3> QED BY <1>0, <2>3, <3>1, AheadAppend DEF Saved
  <2>5. \A r \in Rep : FlushedReporter(r)'
    <3> SUFFICES ASSUME NEW r \in Rep PROVE FlushedReporter(r)'
      OBVIOUS
    <3>1. CASE r = reporter
      BY <1>0, <2>1, <2>3, <2>4, <3>1 DEF FlushInv, FlushedReporter, Saved
    <3>2. CASE r # reporter
      BY <1>0, <2>2, <3>2, ReporterStays
    <3> QED BY <3>1, <3>2
  <2>6. \A c \in Caller : FlushedCaller(c)'
    <3> SUFFICES ASSUME NEW c \in Caller, caller[c].pc = "put",
                        ~rep'[caller[c].rep].closed
                 PROVE  Saved(caller[c].rep, caller[c].alert)'
      BY <1>0 DEF FlushedCaller
    <3>1. caller[c].rep \in Rep /\ caller[c].rep # reporter
      BY <1>0, <2>3
    <3>2. rep'[caller[c].rep] = rep[caller[c].rep]
      BY <2>2, <3>1
    <3>3. Saved(caller[c].rep, caller[c].alert)
      BY <3>2 DEF FlushInv, FlushedCaller
    <3> QED BY <1>0, <3>2, <3>3 DEF Saved
  <2> QED BY <2>5, <2>6 DEF FlushInv
<1>3. CASE StoresClosed
  <2>1. reporter \in Rep /\ rep[reporter].closed
    BY <1>3 DEF StoresClosed, CloseGoes, Typed
  <2>2. \A r \in Rep : r # reporter => rep'[r] = rep[r]
    BY <1>0, <1>3 DEF StoresClosed
  <2>3. /\ rep'[reporter].queue = rep[reporter].queue
        /\ rep'[reporter].alert = rep[reporter].alert
        /\ rep'[reporter].worker = rep[reporter].worker
        /\ rep'[reporter].open = ~MayCloseStores(reporter)
        /\ rep'[reporter].closed
    BY <1>0, <1>3, <2>1 DEF StoresClosed
  <2>4. \A r \in Rep : \A a : Saved(r, a) => Saved(r, a)'
    BY <1>0, <2>2, <2>3, SavedStays
  <2>5. \A r \in Rep : FlushedReporter(r)'
    <3> SUFFICES ASSUME NEW r \in Rep PROVE FlushedReporter(r)'
      OBVIOUS
    <3>1. CASE r = reporter
      <4>1. ~rep'[r].open => rep[r].worker \in {"none", "dead"}
        BY <2>3, <3>1 DEF MayCloseStores, Running
      <4>2. ~rep'[r].open => ghost.early[r] \subseteq ghost.written
        BY <4>1 DEF FlushInv, FlushedReporter
      <4> QED
        BY <1>0, <2>3, <2>4, <3>1, <4>2 DEF FlushInv, FlushedReporter
    <3>2. CASE r # reporter
      BY <1>0, <2>2, <3>2, ReporterStays
    <3> QED BY <3>1, <3>2
  <2>6. \A c \in Caller : FlushedCaller(c)'
    BY <1>0, <2>2, <2>3, <2>4 DEF FlushInv, FlushedCaller
  <2> QED BY <2>5, <2>6 DEF FlushInv
<1> QED BY <1>1, <1>2, <1>3 DEF Close

LEMMA CallerFlush ==
  ASSUME Typed, FlushInv, NEW c \in Caller,
         Report(c) \/ Put(c) \/ Dropped(c) \/ EnsureThread(c)
  PROVE  FlushInv'
<1>0. /\ rep \in [Rep -> Reporters] /\ caller \in Callers /\ ghost \in Ghosts
      /\ \A d \in Caller : caller[d].pc # "out" =>
                            caller[d].rep \in Rep /\ caller[d].alert \in Alert
  BY DEF Typed
<1>1. CASE Report(c) \/ Dropped(c)
  <2>1. /\ UNCHANGED rep /\ ghost'.written = ghost.written
        /\ ghost'.early = ghost.early
    BY <1>0, <1>1 DEF Report, Dropped, Ghosts
  <2>2. \A r \in Rep : FlushedReporter(r)' /\ \A a : Saved(r, a) => Saved(r, a)'
    BY <2>1, ReporterStays
  <2>3. \A d \in Caller : caller'[d].pc = "put" => caller'[d] = caller[d]
    BY <1>0, <1>1 DEF Report, Dropped, Callers
  <2>4. \A d \in Caller : FlushedCaller(d)'
    BY <1>0, <2>1, <2>2, <2>3 DEF FlushInv, FlushedCaller
  <2> QED BY <2>2, <2>4 DEF FlushInv
<1>2. CASE Put(c)
  <2>0. PICK r \in Rep, a \in Alert : r = caller[c].rep /\ a = caller[c].alert
    BY <1>0, <1>2 DEF Put
  <2>1. a # Sentinel /\ a \in Work
    BY AlertsAreNoSentinels
  <2>2. \A q \in Rep : q # r => rep'[q] = rep[q]
    BY <1>0, <1>2, <2>0 DEF Put
  <2>3. /\ rep'[r].queue = Append(rep[r].queue, a)
        /\ rep'[r].alert = rep[r].alert /\ rep'[r].worker = rep[r].worker
        /\ rep'[r].open = rep[r].open /\ rep'[r].closed = rep[r].closed
    BY <1>0, <1>2, <2>0, <2>1 DEF Put
  <2>4. rep[r].queue \in Seq(Work) /\ UNCHANGED ghost
    BY <1>0, <1>2, <2>0, <2>1 DEF Put, Reporters
  <2>5. \A d \in Caller : d # c => caller'[d] = caller[d]
    BY <1>0, <1>2, <2>0 DEF Put
  <2>6. caller'[c].rep = r /\ caller'[c].alert = a
    BY <1>0, <1>2, <2>0 DEF Put, Callers
  <2>7. \A d \in Caller : caller[d].pc = "put" => caller[d].rep # r
    BY <1>2, <2>0 DEF Put, Unlocked
  <2>8. \A b : Saved(r, b) => Saved(r, b)'
    BY <2>1, <2>3, <2>4, AheadAppend DEF Saved
  <2>9. ~rep[r].closed => Saved(r, a)'
    <3> SUFFICES ASSUME ~rep[r].closed PROVE Saved(r, a)'
      OBVIOUS
    <3>1. \A i \in 1..Len(rep[r].queue) : rep[r].queue[i] # Sentinel
      BY <2>1 DEF FlushInv, FlushedReporter
    <3>2. Ahead(Append(rep[r].queue, a), a)
      BY <2>1, <2>4, <3>1, AheadLast
    <3> QED BY <2>3, <3>2 DEF Saved
  <2>10. FlushedReporter(r)'
    <3>1. ASSUME ~rep[r].closed, NEW i \in 1..Len(rep'[r].queue)
          PROVE  rep'[r].queue[i] # Sentinel
      <4>1. \A j \in 1..Len(rep[r].queue) : rep[r].queue[j] # Sentinel
        BY <2>1, <3>1 DEF FlushInv, FlushedReporter
      <4> QED BY <2>1, <2>3, <2>4, <3>1, <4>1
    <3> QED
      BY <2>1, <2>3, <2>4, <2>8, <3>1 DEF FlushInv, FlushedReporter
  <2>11. \A q \in Rep : FlushedReporter(q)'
    BY <2>2, <2>4, <2>10, ReporterStays
  <2>12. \A d \in Caller : FlushedCaller(d)'
    <3> SUFFICES ASSUME NEW d \in Caller PROVE FlushedCaller(d)'
      OBVIOUS
    <3>1. CASE d = c
      BY <2>3, <2>6, <2>9, <3>1 DEF FlushedCaller
    <3>2. CASE d # c
      <4>1. caller[d].pc = "put" => caller[d].rep \in Rep /\ caller[d].rep # r
        BY <1>0, <2>7
      <4> QED
        BY <2>2, <2>4, <2>5, <3>2, <4>1 DEF FlushInv, FlushedCaller, Saved
    <3> QED BY <3>1, <3>2
  <2> QED BY <2>11, <2>12 DEF FlushInv
<1>3. CASE EnsureThread(c)
  <2>0. PICK r \in Rep, a \in Alert : r = caller[c].rep /\ a = caller[c].alert
    BY <1>0, <1>3 DEF EnsureThread
  <2>1. caller[c].pc = "put"
    BY <1>3 DEF EnsureThread
  <2>2. \A q \in Rep : q # r => /\ rep'[q] = rep[q]
                                /\ ghost'.early[q] = ghost.early[q]
    BY <1>0, <1>3, <2>0 DEF EnsureThread, Ghosts
  <2>3. /\ rep'[r].queue = rep[r].queue
        /\ rep'[r].alert = rep[r].alert
        /\ rep'[r].worker = IF Running(r) THEN rep[r].worker ELSE "get"
        /\ rep'[r].open = rep[r].open /\ rep'[r].closed = rep[r].closed
    BY <1>0, <1>3, <2>0, <2>1 DEF EnsureThread, Reporters
  <2>4. /\ ghost'.written = ghost.written
        /\ ghost'.early[r] = IF rep[r].closed THEN ghost.early[r]
                             ELSE ghost.early[r] \union {a}
    BY <1>0, <1>3, <2>0, <2>1 DEF EnsureThread, Ghosts
  <2>5. \A d \in Caller : caller'[d].pc = "put" => caller'[d] = caller[d]
    BY <1>0, <1>3 DEF EnsureThread, Callers
  <2>6. ~rep[r].closed => Saved(r, a)
    BY <2>0, <2>1 DEF FlushInv, FlushedCaller
  <2>7. \A b : Saved(r, b) => Saved(r, b)'
    BY <2>1, <2>3, <2>4, SavedStays DEF Running
  <2>8. FlushedReporter(r)'
    <3>1. rep'[r].worker \notin {"none", "dead"}
      BY <2>3 DEF Running
    <3>2. \A b \in ghost'.early[r] : Saved(r, b)'
      BY <2>1, <2>4, <2>6, <2>7 DEF FlushInv, FlushedReporter
    <3>3. FlushedReporter(r)
      BY <2>1 DEF FlushInv
    <3> QED BY <2>3, <2>4, <3>1, <3>2, <3>3 DEF FlushedReporter
  <2>9. \A q \in Rep : q # r => FlushedReporter(q)' /\ \A b : Saved(q, b) => Saved(q, b)'
    BY <2>2, <2>4, ReporterStays
  <2>10. \A d \in Caller : FlushedCaller(d)'
    <3> SUFFICES ASSUME NEW d \in Caller, caller'[d].pc = "put",
                        ~rep'[caller'[d].rep].closed
                 PROVE  Saved(caller[d].rep, caller[d].alert)'
      BY DEF FlushedCaller
    <3>1. PICK q \in Rep, b \in Alert : q = caller[d].rep /\ b = caller[d].alert
      BY <1>0, <2>5
    <3>2. /\ caller[d].pc = "put"
          /\ q = caller'[d].rep /\ b = caller'[d].alert
      BY <2>5, <3>1
    <3>3. ~rep[q].closed
      BY <2>2, <2>3, <3>2
    <3>4. Saved(q, b)
      BY <3>1, <3>2, <3>3 DEF FlushInv, FlushedCaller
    <3>5. Saved(q, b)'
      BY <2>7, <2>9, <3>4
    <3> QED BY <3>2, <3>5
  <2> QED BY <2>8, <2>9, <2>10 DEF FlushInv
<1> QED BY <1>1, <1>2, <1>3

LEMMA WorkerFlush ==
  ASSUME Typed, FlushInv, NEW r \in Rep, Worker(r)
  PROVE  FlushInv'
<1>0. /\ rep \in [Rep -> Reporters] /\ ghost \in Ghosts /\ UNCHANGED caller
      /\ rep[r].queue \in Seq(Work)
      /\ \A c \in Caller : caller[c].pc # "out" =>
                            caller[c].rep \in Rep /\ caller[c].alert \in Alert
  BY DEF Typed, Worker, WorkerGet, Send, WriteBack, Reporters
<1>1. \A q \in Rep : q # r => rep'[q] = rep[q]
  BY <1>0 DEF Worker, WorkerGet, Send, WriteBack
<1>2. ghost'.early = ghost.early /\ ghost.written \subseteq ghost'.written
  BY <1>0 DEF Worker, WorkerGet, Send, WriteBack, Ghosts
<1>3. rep'[r].open = rep[r].open /\ rep'[r].closed = rep[r].closed
  BY <1>0 DEF Worker, WorkerGet, Send, WriteBack, Reporters
<1>4. FlushedReporter(r) /\ (~rep[r].open => ghost.early[r] \subseteq ghost.written)
  BY DEF FlushInv, FlushedReporter
<1>5. /\ FlushedReporter(r)'
      /\ \A c \in Caller : caller[c].pc = "put" /\ caller[c].rep = r =>
                           \A a : Saved(r, a) /\ ~rep[r].closed => Saved(r, a)'
  <2>1. CASE WorkerGet(r)
    <3>1. /\ rep[r].queue # <<>> /\ rep[r].worker = "get"
          /\ rep'[r].queue = Tail(rep[r].queue)
          /\ rep'[r].alert = Head(rep[r].queue)
          /\ rep'[r].worker = IF Head(rep[r].queue) = Sentinel THEN "dead"
                                                              ELSE "send"
          /\ UNCHANGED ghost
      BY <1>0, <2>1 DEF WorkerGet, Reporters
    <3>2. ASSUME NEW a, Saved(r, a)
          PROVE  /\ Saved(r, a)'
                 /\ rep'[r].worker = "dead" => a \in ghost'.written
      BY <1>0, <3>1, <3>2, AheadTail DEF Saved
    <3>3. ~rep[r].closed => /\ rep'[r].worker # "dead"
                           /\ \A i \in 1..Len(rep'[r].queue) :
                                rep'[r].queue[i] # Sentinel
      <4> SUFFICES ASSUME \A i \in 1..Len(rep[r].queue) :
                            rep[r].queue[i] # Sentinel
                   PROVE  /\ Head(rep[r].queue) # Sentinel
                          /\ \A i \in 1..Len(Tail(rep[r].queue)) :
                               Tail(rep[r].queue)[i] # Sentinel
        BY <1>4, <3>1 DEF FlushedReporter
      <4>1. Head(rep[r].queue) # Sentinel
        BY <1>0, <3>1
      <4>2. ASSUME NEW i \in 1..Len(Tail(rep[r].queue))
            PROVE  Tail(rep[r].queue)[i] # Sentinel
        <5>1. /\ Tail(rep[r].queue)[i] = rep[r].queue[i + 1]
              /\ i + 1 \in 1..Len(rep[r].queue)
          BY <1>0, <3>1
        <5> QED BY <5>1
      <4> QED BY <4>1, <4>2
    <3>4. rep'[r].worker \in {"dead", "send"}
      BY <3>1
    <3>5. /\ \A a \in ghost'.early[r] : Saved(r, a)'
          /\ rep'[r].worker = "dead" => ghost'.early[r] \subseteq ghost'.written
      BY <1>2, <1>4, <3>2 DEF FlushedReporter
    <3>6. FlushedReporter(r)'
      BY <1>2, <1>3, <1>4, <3>3, <3>4, <3>5 DEF FlushedReporter
    <3> QED BY <3>2, <3>6
  <2>2. CASE Send(r)
    <3>1. /\ rep'[r].queue = rep[r].queue /\ rep'[r].alert = rep[r].alert
          /\ rep[r].worker = "send" /\ rep'[r].worker = "write"
          /\ ghost'.written = ghost.written
      BY <1>0, <2>2 DEF Send, Reporters, Ghosts
    <3>2. \A a : Saved(r, a) => Saved(r, a)'
      BY <3>1, SavedStays
    <3>3. FlushedReporter(r)'
      BY <1>2, <1>3, <1>4, <3>1, <3>2 DEF FlushedReporter
    <3> QED BY <3>2, <3>3
  <2>3. CASE WriteBack(r)
    <3>1. /\ rep'[r].queue = rep[r].queue /\ rep[r].worker = "write"
          /\ rep'[r].worker = "get"
          /\ rep[r].open => rep[r].alert \in ghost'.written
          /\ Unlocked(r)
      BY <1>0, <2>3 DEF WriteBack, Reporters, Ghosts
    <3>2. ASSUME NEW a \in ghost.early[r]
          PROVE  Saved(r, a)'
      <4>1. Saved(r, a)
        BY <1>4, <3>2 DEF FlushedReporter
      <4>2. CASE ~rep[r].open
        BY <1>2, <1>4, <3>2, <4>2 DEF Saved
      <4>3. CASE rep[r].open
        BY <1>2, <3>1, <4>1, <4>3 DEF Saved, Ahead
      <4> QED BY <4>2, <4>3
    <3>3. FlushedReporter(r)'
      BY <1>2, <1>3, <1>4, <3>1, <3>2 DEF FlushedReporter
    <3> QED BY <3>1, <3>3 DEF Unlocked
  <2> QED BY <2>1, <2>2, <2>3 DEF Worker
<1>6. \A q \in Rep : FlushedReporter(q)'
  BY <1>1, <1>2, <1>5, ReporterStays
<1>7. \A c \in Caller : FlushedCaller(c)'
  <2> SUFFICES ASSUME NEW c \in Caller, caller[c].pc = "put",
                      ~rep'[caller[c].rep].closed
               PROVE  Saved(caller[c].rep, caller[c].alert)'
    BY <1>0 DEF FlushedCaller
  <2>1. PICK q \in Rep, a \in Alert : q = caller[c].rep /\ a = caller[c].alert
    BY <1>0
  <2>2. ~rep[q].closed
    BY <1>1, <1>3, <2>1
  <2>3. Saved(q, a)
    BY <2>1, <2>2 DEF FlushInv, FlushedCaller
  <2>4. q = r => Saved(q, a)'
    BY <1>5, <2>1, <2>2, <2>3
  <2>5. q # r => Saved(q, a)'
    BY <1>1, <1>2, <2>3 DEF Saved
  <2>6. Saved(q, a)'
    BY <2>4, <2>5
  <2> QED BY <1>0, <2>1, <2>6
<1> QED BY <1>6, <1>7 DEF FlushInv

LEMMA BeatFlush ==
  ASSUME Typed, FlushInv, NEW r \in Rep, Beat(r)
  PROVE  FlushInv'
<1>0. /\ rep \in [Rep -> Reporters] /\ ghost \in Ghosts
      /\ \A c \in Caller : caller[c].pc # "out" => caller[c].rep \in Rep
  BY DEF Typed
<1>1. PICK to : rep' = [rep EXCEPT ![r].beat = to]
  BY DEF Beat, Poll, Fire, DigestSent, Settle, Stopped, BeatGoes
<1>2. \A q \in Rep : /\ rep'[q].queue = rep[q].queue
                     /\ rep'[q].alert = rep[q].alert
                     /\ rep'[q].worker = rep[q].worker
                     /\ rep'[q].open = rep[q].open
                     /\ rep'[q].closed = rep[q].closed
  <2>1. \A q \in Rep : rep'[q] \in {rep[q], [rep[q] EXCEPT !.beat = to]}
    BY <1>0, <1>1
  <2> QED BY <1>0, <2>1 DEF Reporters
<1>3. /\ UNCHANGED caller /\ ghost'.written = ghost.written
      /\ ghost'.early = ghost.early
  BY <1>0 DEF Beat, Poll, Fire, DigestSent, Settle, Stopped, BeatGoes, Ghosts
<1>4. \A q \in Rep : FlushedReporter(q)' /\ \A a : Saved(q, a) => Saved(q, a)'
  BY <1>2, <1>3, ReporterStays
<1>5. \A c \in Caller : FlushedCaller(c)'
  BY <1>0, <1>2, <1>3, <1>4 DEF FlushInv, FlushedCaller
<1> QED BY <1>4, <1>5 DEF FlushInv

LEMMA FlushStep == Typed /\ FlushInv /\ [Next]_vars => FlushInv'
<1> SUFFICES ASSUME Typed, FlushInv, [Next]_vars PROVE FlushInv'
  OBVIOUS
<1>1. CASE UNCHANGED vars
  BY <1>1 DEF vars, FlushInv, FlushedReporter, FlushedCaller, Saved, Ahead
<1> QED
  BY <1>1, CloseFlush, CallerFlush, WorkerFlush, BeatFlush DEF Next

\* __init__.py:196-202: when close() closes the stores, every alert whose
\* report() had returned before is written back, however close() races with
\* reports, the worker and the drain timeout.
THEOREM StoresCloseFlushed == Spec => []ClosedMeansFlushed
<1>1. Typed /\ FlushInv /\ [Next]_vars => (Typed /\ FlushInv)'
  BY TypedStep, FlushStep
<1>2. Init => Typed /\ FlushInv
  BY TypedInit, FlushInit
<1>3. FlushInv => ClosedMeansFlushed
  BY DEF FlushInv, FlushedReporter, ClosedMeansFlushed
<1> QED BY <1>1, <1>2, <1>3, PTL DEF Spec
=============================================================================
