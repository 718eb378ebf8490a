--------------------------- MODULE CrashPathProofs ---------------------------
(***************************************************************************)
(* Theorems about CrashPath, for every number of processes, every cooldown *)
(* and every interleaving of SQL statements: the crash handler, the main   *)
(* threads, the workers and the review page on one row.                    *)
(***************************************************************************)
EXTENDS CrashPath, TLAPS

-----------------------------------------------------------------------------
(* The statements on a row.                                                *)

\* Every statement returns a row.
LEMMA RowType ==
  ASSUME NEW r \in Row, NEW now \in Int
  PROVE  /\ NewRow(now) \in Row
         /\ Touched(r, now) \in Row
         /\ Bumped(r, now) \in Row
         /\ \A b \in BOOLEAN : Resolve(r, b) \in Row
         /\ \A n \in Nat : Sent(r, now, n) \in Row
<1>0. NoRow \in Row
  BY DEF NoRow, Row, NoMessage, Message, Never
<1>1. NewRow(now) \in Row
  BY <1>0 DEF NewRow, Row
<1>2. r.suppressed_count \in Nat /\ r.suppressed_count + 1 \in Nat
  BY DEF Row
<1>3. Touched(r, now) \in Row /\ Bumped(r, now) \in Row
  BY <1>2 DEF Touched, Bumped, Row
<1>4. \A b \in BOOLEAN : Resolve(r, b) \in Row
  BY DEF Resolve, Row
<1>5. ASSUME NEW n \in Nat PROVE Sent(r, now, n) \in Row
  <2>1. r.suppressed_count >= n => r.suppressed_count - n \in Nat
    BY <1>2
  <2>2. CASE r.suppressed_count >= n
    BY <2>1, <2>2 DEF Sent, Row
  <2>3. CASE ~(r.suppressed_count >= n)
    BY <2>3 DEF Sent, Row
  <2> QED BY <2>2, <2>3
<1> QED BY <1>1, <1>3, <1>4, <1>5

\* Only record_sent writes last_notified, and it writes the time it is given.
LEMMA LastNotified ==
  ASSUME NEW r \in Row, NEW now \in Int
  PROVE  /\ NewRow(now).last_notified = Never
         /\ Touched(r, now).last_notified = r.last_notified
         /\ Bumped(r, now).last_notified = r.last_notified
         /\ \A b \in BOOLEAN : Resolve(r, b).last_notified = r.last_notified
         /\ \A n \in Nat :
              Sent(r, now, n).last_notified \in {r.last_notified, now}
BY DEF NewRow, NoRow, Touched, Bumped, Resolve, Sent, Row, Never

\* decide() takes its suppress branch on a row whose last alert is less than
\* a cooldown old.
LEMMA SuppressBranch ==
  ASSUME NEW r, NEW now, Branch(r, now) = "suppress"
  PROVE  /\ r.last_notified # Never
         /\ ~(now - r.last_notified >= Cooldown)
BY DEF Branch, ShouldSend, CooldownExpired

-----------------------------------------------------------------------------
(* Type correctness.                                                       *)

MainPcs == (CrashPcs \ {"send", "record", "done"}) \union {"unresolve", "bump"}

\* The type invariant, with the types of the ghost variable.
Typed ==
  /\ TypeOK
  /\ ghost \in [occurred : Nat, delivered : SUBSET Nat, silent : SUBSET Nat,
                bumps : Nat]

\* decide() goes on with one of three statements.
LEMMA BranchPcs ==
  ASSUME NEW r, NEW now
  PROVE  Branch(r, now) \in {"insert", "touch", "suppress"}
BY DEF Branch

LEMMA TypedInit == Init => Typed
<1>1. NoRow \in Row
  BY DEF NoRow, Row, NoMessage, Message, Never
<1> QED
  BY <1>1 DEF Init, Typed, TypeOK, Idle, NoItem, CrashPcs

\* What a step of a main thread starts from.
LEMMA MainThread ==
  ASSUME Typed, NEW p \in Proc
  PROVE  /\ main[p].now \in Nat /\ main[p].seen \in Row
         /\ main[p].seen.suppressed_count \in Nat
         /\ main[p].counter \in Nat
         /\ item[p].count \in Nat /\ item[p].now \in Nat
         /\ main[p].now \in Int /\ item[p].now \in Int
         /\ row \in Row /\ clock \in Nat
         /\ crash.now \in Nat /\ crash.seen \in Row /\ crash.counter \in Nat
         /\ row.suppressed_count \in Nat
BY DEF Typed, TypeOK, Row

LEMMA MainTyped ==
  ASSUME Typed, NEW p \in Proc, Main(p)
  PROVE  Typed'
<1>0. /\ main[p].now \in Nat /\ main[p].seen \in Row
      /\ main[p].seen.suppressed_count \in Nat
      /\ main[p].counter \in Nat /\ main[p].now \in Int
      /\ row \in Row /\ clock \in Nat
  BY MainThread
<1>1. CASE MainCalls(p)
  <2>1. NoRow \in Row
    BY DEF NoRow, Row, NoMessage, Message, Never
  <2>2. [Idle EXCEPT !.pc = "select", !.now = clock]
          \in [pc : MainPcs, now : Nat, seen : Row, counter : Nat]
    BY <1>0, <2>1 DEF Idle, MainPcs, CrashPcs
  <2>3. ghost.occurred + 1 \in Nat
    BY DEF Typed
  <2> QED BY <1>0, <1>1, <2>2, <2>3 DEF MainCalls, Typed, TypeOK, MainPcs
<1>2. CASE MainSelects(p)
  <2>1. Branch(row, main[p].now) \in {"insert", "touch", "suppress"}
    BY BranchPcs
  <2> QED BY <1>0, <1>2, <2>1, ZenonT(30)
      DEF MainSelects, At, Typed, TypeOK, CrashPcs
<1>3. CASE MainSends(p)
  <2>1. NewRow(main[p].now) \in Row /\ Touched(row, main[p].now) \in Row
    BY <1>0, RowType
  <2>2. row' \in Row
    BY <1>0, <1>3, <2>1 DEF MainSends
  <2> QED BY <1>0, <1>3, <2>2 DEF MainSends, At, MainGoes, Typed, TypeOK, CrashPcs
<1>4. CASE MainSuppresses(p)
  <2>1. row' \in Row
    BY <1>0, <1>4, RowType DEF MainSuppresses
  <2> QED
    BY <1>0, <1>4, <2>1 DEF MainSuppresses, At, MainGoes, Silenced, Typed,
                            TypeOK, CrashPcs
<1>5. CASE MainUnresolves(p)
  <2>1. row' \in Row
    BY <1>0, <1>5, RowType DEF MainUnresolves
  <2> QED
    BY <1>0, <1>5, <2>1 DEF MainUnresolves, At, Typed, TypeOK, CrashPcs
<1>6. CASE MainBumps(p)
  <2>1. row' \in Row
    BY <1>0, <1>6, RowType DEF MainBumps
  <2> QED
    BY <1>0, <1>6, <2>1 DEF MainBumps, At, MainGoes, Typed, TypeOK, CrashPcs
<1>7. CASE MainReads(p)
  BY <1>0, <1>7 DEF MainReads, At, Typed, TypeOK, CrashPcs
<1>8. CASE MainWrites(p)
  <2>1. ghost.bumps + 1 \in Nat /\ main[p].counter + 1 \in Nat
    BY <1>0 DEF Typed
  <2> QED BY <1>0, <1>8, <2>1 DEF MainWrites, At, MainGoes, Typed, TypeOK, CrashPcs
<1> QED BY <1>1, <1>2, <1>3, <1>4, <1>5, <1>6, <1>7, <1>8 DEF Main

LEMMA WorkerTyped ==
  ASSUME Typed, NEW p \in Proc, Worker(p)
  PROVE  Typed'
<1>0. /\ item[p].count \in Nat /\ item[p].now \in Nat /\ item[p].now \in Int
      /\ row \in Row /\ clock \in Nat
  BY MainThread
<1>1. CASE WorkerSends(p)
  <2>1. item' \in [Proc -> [at : {"none", "queued", "delivered", "failed"},
                            count : Nat, now : Nat]]
    <3>1. CASE item' = [item EXCEPT ![p].at = "delivered", ![p].now = clock]
      BY <1>0, <3>1, ZenonT(30) DEF Typed, TypeOK
    <3>2. CASE item' = [item EXCEPT ![p].at = "failed"]
      BY <3>2 DEF Typed, TypeOK
    <3> QED BY <1>1, <3>1, <3>2 DEF WorkerSends
  <2>2. ghost' \in [occurred : Nat, delivered : SUBSET Nat,
                    silent : SUBSET Nat, bumps : Nat]
    BY <1>0, <1>1 DEF WorkerSends, Delivered, Typed
  <2> QED BY <1>1, <2>1, <2>2 DEF WorkerSends, Typed, TypeOK
<1>2. CASE WorkerWritesBack(p)
  <2>1. row' \in Row
    BY <1>0, <1>2, RowType DEF WorkerWritesBack
  <2>2. item' \in [Proc -> [at : {"none", "queued", "delivered", "failed"},
                            count : Nat, now : Nat]]
    BY <1>2 DEF WorkerWritesBack, NoItem, Typed, TypeOK
  <2> QED BY <1>2, <2>1, <2>2 DEF WorkerWritesBack, Typed, TypeOK
<1> QED BY <1>1, <1>2 DEF Worker

LEMMA CrashTyped ==
  ASSUME Typed, CrashStarts \/ Handler \/ CrashAnswered
  PROVE  Typed'
<1>0. /\ row \in Row /\ clock \in Nat /\ row.suppressed_count \in Nat
      /\ crash.now \in Nat /\ crash.now \in Int /\ crash.seen \in Row
      /\ crash.counter \in Nat
      /\ crash \in [pc : CrashPcs, now : Nat, seen : Row, counter : Nat]
  BY DEF Typed, TypeOK, Row
<1>1. CASE CrashStarts
  BY <1>0, <1>1 DEF CrashStarts, CrashAt, Typed, TypeOK, CrashPcs
<1>2. CASE CrashSelects
  <2>1. Branch(row, crash.now) \in {"insert", "touch", "suppress"}
    BY BranchPcs
  <2> QED
    BY <1>0, <1>2, <2>1 DEF CrashSelects, CrashGoes, Typed, TypeOK, CrashPcs
<1>3. CASE CrashNotes
  <2>1. NewRow(crash.now) \in Row /\ Touched(row, crash.now) \in Row
    BY <1>0, RowType
  <2>2. row' \in Row
    BY <1>0, <1>3, <2>1 DEF CrashNotes
  <2> QED BY <1>0, <1>3, <2>2 DEF CrashNotes, CrashGoes, Typed, TypeOK, CrashPcs
<1>4. CASE CrashSuppresses
  <2>1. row' \in Row
    BY <1>0, <1>4, RowType DEF CrashSuppresses
  <2> QED
    BY <1>0, <1>4, <2>1 DEF CrashSuppresses, CrashGoes, Silenced, Typed,
                            TypeOK, CrashPcs
<1>5. CASE CrashReads
  BY <1>0, <1>5 DEF CrashReads, CrashGoes, Typed, TypeOK, CrashPcs
<1>6. CASE CrashWrites
  <2>1. ghost.bumps + 1 \in Nat /\ crash.counter + 1 \in Nat
    BY <1>0 DEF Typed
  <2> QED BY <1>0, <1>6, <2>1 DEF CrashWrites, CrashGoes, Typed, TypeOK, CrashPcs
<1>7. CASE CrashTimesOut
  BY <1>0, <1>7 DEF CrashTimesOut, CrashGoes, AfterSend, Delivered, Typed,
                    TypeOK, CrashPcs
<1>8. CASE CrashRecords
  <2>1. row' \in Row
    BY <1>0, <1>8, RowType DEF CrashRecords
  <2> QED BY <1>0, <1>8, <2>1 DEF CrashRecords, CrashGoes, Typed, TypeOK, CrashPcs
<1>9. CASE CrashAnswered
  BY <1>0, <1>9 DEF CrashAnswered, CrashGoes, AfterSend, Delivered, Typed,
                    TypeOK, CrashPcs
<1> QED
  BY <1>1, <1>2, <1>3, <1>4, <1>5, <1>6, <1>7, <1>8, <1>9 DEF Handler

LEMMA TypedStep == Typed /\ [Next]_vars => Typed'
<1> SUFFICES ASSUME Typed, [Next]_vars PROVE Typed'
  OBVIOUS
<1>1. CASE \E p \in Proc : Main(p) \/ Worker(p)
  BY <1>1, MainTyped, WorkerTyped
<1>2. CASE CrashStarts \/ Handler \/ CrashAnswered
  BY <1>2, CrashTyped
<1>3. CASE SetResolved
  <2>1. row' \in Row
    BY <1>3 DEF SetResolved, Resolve, Row, Typed, TypeOK
  <2> QED BY <1>3, <2>1 DEF SetResolved, Typed, TypeOK
<1>4. CASE Tick
  BY <1>4 DEF Tick, Typed, TypeOK
<1>5. CASE UNCHANGED vars
  BY <1>5 DEF vars, Typed, TypeOK
<1> QED BY <1>1, <1>2, <1>3, <1>4, <1>5 DEF Next

\* Every variable keeps its type.
THEOREM TypeCorrect == Spec => []TypeOK
<1>1. Typed => TypeOK
  BY DEF Typed
<1> QED BY <1>1, TypedInit, TypedStep, PTL DEF Spec

-----------------------------------------------------------------------------
(* What the cooldown silences was delivered before.                        *)

\* An alert was delivered at t or later; a row that says "never" needs none.
Backed(t) == t = Never \/ \E d \in ghost.delivered : t <= d

\* An alert was delivered less than a cooldown before now, or after it.
Recent(now) == \E d \in ghost.delivered : now - d < Cooldown

\* last_notified is no later than some delivery, and so is every time that an
\* actor still carries towards it; a verdict that is on its way to the UPDATE
\* of the suppress branch keeps its reason.  crash.now is read before the
\* send, hence before the delivery.
DeliveryInv ==
  /\ Backed(row.last_notified)
  /\ \A p \in Proc : /\ At(p, "suppress") => Recent(main[p].now)
                     /\ item[p].at = "delivered" => Backed(item[p].now)
  /\ crash.now <= clock
  /\ CrashAt("suppress") => Recent(crash.now)
  /\ CrashAt("record") => Backed(crash.now)
  /\ SilentOnlyAfterDelivery

LEMMA DeliveryInit == Init => DeliveryInv
BY DEF Init, DeliveryInv, Backed, At, CrashAt, Idle, NoItem, NoRow,
       SilentOnlyAfterDelivery

\* Deliveries are never forgotten: what they back stays backed.
LEMMA BackedStays ==
  ASSUME ghost.delivered \subseteq ghost'.delivered
  PROVE  /\ \A t : Backed(t) => Backed(t)'
         /\ \A now : Recent(now) => Recent(now)'
         /\ SilentOnlyAfterDelivery /\ ghost'.silent = ghost.silent
              => SilentOnlyAfterDelivery'
BY DEF Backed, Recent, SilentOnlyAfterDelivery

\* A verdict to suppress was read from a row that a delivery backs.
LEMMA SuppressedRecently ==
  ASSUME Typed, NEW now \in Nat, Backed(row.last_notified),
         Branch(row, now) = "suppress"
  PROVE  Recent(now)
<1>1. /\ row.last_notified # Never
      /\ ~(now - row.last_notified >= Cooldown)
  BY SuppressBranch
<1>2. PICK d \in ghost.delivered : row.last_notified <= d
  BY <1>1 DEF Backed
<1>3. row.last_notified \in Int /\ d \in Int /\ Cooldown \in Int
  BY StoreAssumption DEF Typed, TypeOK, Row
<1>4. now - d < Cooldown
  BY <1>1, <1>2, <1>3
<1> QED BY <1>4 DEF Recent

\* No statement but record_sent's moves last_notified.
LEMMA RowBacked ==
  ASSUME Typed, NEW now \in Int, Backed(row.last_notified)
  PROVE  /\ Backed(NewRow(now).last_notified)
         /\ Backed(Touched(row, now).last_notified)
         /\ Backed(Bumped(row, now).last_notified)
         /\ \A b \in BOOLEAN : Backed(Resolve(row, b).last_notified)
         /\ \A n \in Nat : Backed(now) => Backed(Sent(row, now, n).last_notified)
<1>1. row \in Row
  BY DEF Typed, TypeOK
<1>2. Backed(Never)
  BY DEF Backed
<1> QED BY <1>1, <1>2, LastNotified

LEMMA MainDelivery ==
  ASSUME Typed, DeliveryInv, NEW p \in Proc, Main(p)
  PROVE  DeliveryInv'
<1>0. /\ main[p].now \in Nat /\ main[p].now \in Int /\ row \in Row
      /\ clock \in Nat /\ main \in [Proc -> [pc : MainPcs, now : Nat,
                                           seen : Row, counter : Nat]]
      /\ item \in [Proc -> [at : {"none", "queued", "delivered", "failed"},
                           count : Nat, now : Nat]]
  BY MainThread DEF Typed, TypeOK, MainPcs
<1>1. UNCHANGED <<clock, crash>> /\ ghost'.delivered = ghost.delivered
  BY DEF Main, MainCalls, MainSelects, MainSends, MainSuppresses,
         MainUnresolves, MainBumps, MainReads, MainWrites, Silenced, Typed
<1>2. /\ \A t : Backed(t)' <=> Backed(t)
      /\ \A now : Recent(now)' <=> Recent(now)
  BY <1>1 DEF Backed, Recent
<1>3. Backed(row'.last_notified)
  <2>1. \/ row' \in {row, NewRow(main[p].now), Touched(row, main[p].now),
                    Bumped(row, main[p].now), Resolve(row, FALSE)}
    BY DEF Main, MainCalls, MainSelects, MainSends, MainSuppresses,
           MainUnresolves, MainBumps, MainReads, MainWrites
  <2> QED BY <1>0, <2>1, RowBacked DEF DeliveryInv
<1>4. \A q \in Proc : At(q, "suppress")' => Recent(main'[q].now)
  <2> SUFFICES ASSUME NEW q \in Proc, At(q, "suppress")'
               PROVE  Recent(main'[q].now)
    OBVIOUS
  <2>1. CASE main'[q] = main[q]
    BY <2>1 DEF At, DeliveryInv
  <2>2. CASE main'[q] # main[q]
    <3>1. MainSelects(p) /\ q = p
      BY <1>0, <2>2 DEF Main, MainCalls, MainSelects, MainSends,
         MainSuppresses, MainUnresolves, MainBumps, MainReads, MainWrites,
         At, MainGoes, Idle
    <3>2. /\ main'[p].now = main[p].now
          /\ Branch(row, main[p].now) = "suppress"
      BY <1>0, <3>1 DEF MainSelects, At
    <3> QED BY <1>0, <3>1, <3>2, SuppressedRecently DEF DeliveryInv
  <2> QED BY <2>1, <2>2
<1>5. \A q \in Proc : item'[q].at = "delivered" => Backed(item'[q].now)
  <2> SUFFICES ASSUME NEW q \in Proc, item'[q].at = "delivered"
               PROVE  item'[q] = item[q]
    BY DEF DeliveryInv
  <2>1. CASE MainSends(p)
    BY <1>0, <2>1 DEF MainSends
  <2>2. CASE ~MainSends(p)
    BY <2>2 DEF Main, MainCalls, MainSelects, MainSuppresses, MainUnresolves,
                MainBumps, MainReads, MainWrites
  <2> QED BY <2>1, <2>2
<1>6. SilentOnlyAfterDelivery'
  <2>1. CASE MainSuppresses(p)
    <3>1. ghost'.silent = ghost.silent \union {main[p].now}
      BY <2>1 DEF MainSuppresses, Silenced, Typed
    <3>2. Recent(main[p].now)
      BY <2>1 DEF MainSuppresses, DeliveryInv
    <3> QED BY <1>1, <3>1, <3>2 DEF SilentOnlyAfterDelivery, Recent, DeliveryInv
  <2>2. CASE ~MainSuppresses(p)
    <3>1. ghost'.silent = ghost.silent
      BY <2>2 DEF Main, MainCalls, MainSelects, MainSends, MainUnresolves,
                  MainBumps, MainReads, MainWrites, Typed
    <3> QED BY <1>1, <3>1 DEF SilentOnlyAfterDelivery, DeliveryInv
  <2> QED BY <2>1, <2>2
<1>7. \A from : CrashAt(from)' <=> CrashAt(from)
  BY <1>1 DEF CrashAt
<1> QED
  BY <1>1, <1>2, <1>3, <1>4, <1>5, <1>6, <1>7 DEF DeliveryInv

LEMMA WorkerDelivery ==
  ASSUME Typed, DeliveryInv, NEW p \in Proc, Worker(p)
  PROVE  DeliveryInv'
<1>0. /\ item[p].count \in Nat /\ item[p].now \in Int /\ clock \in Nat
      /\ item \in [Proc -> [at : {"none", "queued", "delivered", "failed"},
                           count : Nat, now : Nat]]
  BY MainThread DEF Typed, TypeOK
<1>1. UNCHANGED <<main, clock, crash>> /\ ghost'.silent = ghost.silent
  BY DEF Worker, WorkerSends, WorkerWritesBack, Delivered, Typed
<1>2. ghost.delivered \subseteq ghost'.delivered
  BY DEF Worker, WorkerSends, WorkerWritesBack, Delivered, Typed
<1>3. /\ \A t : Backed(t) => Backed(t)'
      /\ \A now : Recent(now) => Recent(now)'
      /\ SilentOnlyAfterDelivery'
  BY <1>1, <1>2, BackedStays DEF DeliveryInv
<1>4. Backed(row'.last_notified)
  <2>1. CASE WorkerSends(p)
    BY <2>1 DEF WorkerSends, DeliveryInv
  <2>2. CASE WorkerWritesBack(p)
    <3>1. CASE item[p].at = "delivered"
      <4>1. Backed(item[p].now) /\ row' = Sent(row, item[p].now, item[p].count)
        BY <2>2, <3>1 DEF WorkerWritesBack, DeliveryInv
      <4> QED BY <1>0, <4>1, RowBacked DEF DeliveryInv
    <3>2. CASE item[p].at # "delivered"
      BY <2>2, <3>2 DEF WorkerWritesBack, DeliveryInv
    <3> QED BY <3>1, <3>2
  <2> QED BY <2>1, <2>2 DEF Worker
<1>5. \A q \in Proc : item'[q].at = "delivered" => Backed(item[q].now)'
  <2> SUFFICES ASSUME NEW q \in Proc, item'[q].at = "delivered"
               PROVE  Backed(item[q].now)'
    OBVIOUS
  <2>1. CASE item'[q] = item[q]
    BY <1>3, <2>1 DEF DeliveryInv, Backed
  <2>2. CASE item'[q] # item[q]
    <3>1. item'[q].now = clock /\ clock \in ghost'.delivered
      BY <1>0, <2>2 DEF Worker, WorkerSends, WorkerWritesBack, NoItem,
                        Delivered, Typed
    <3>2. clock <= clock
      BY <1>0
    <3> QED BY <3>1, <3>2 DEF Backed
  <2> QED BY <2>1, <2>2
<1>6. /\ \A q, from : At(q, from)' <=> At(q, from)
      /\ \A from : CrashAt(from)' <=> CrashAt(from)
  BY <1>1 DEF At, CrashAt
<1> QED
  BY <1>1, <1>3, <1>4, <1>5, <1>6 DEF DeliveryInv, Backed, Recent

LEMMA CrashDelivery ==
  ASSUME Typed, DeliveryInv, CrashStarts \/ Handler \/ CrashAnswered
  PROVE  DeliveryInv'
<1>0. /\ row.suppressed_count \in Nat /\ clock \in Nat /\ row \in Row
      /\ crash.now \in Nat /\ crash.now \in Int
      /\ crash \in [pc : CrashPcs, now : Nat, seen : Row, counter : Nat]
  BY DEF Typed, TypeOK, Row
<1>1. UNCHANGED <<main, item, clock>>
  BY DEF CrashStarts, Handler, CrashAnswered, CrashSelects, CrashNotes,
         CrashSuppresses, CrashReads, CrashWrites, CrashTimesOut, CrashRecords
<1>2. ghost.delivered \subseteq ghost'.delivered
  BY DEF CrashStarts, Handler, CrashAnswered, CrashSelects, CrashNotes,
         CrashSuppresses, CrashReads, CrashWrites, CrashTimesOut,
         CrashRecords, Silenced, Delivered, Typed
<1>3. /\ \A t : Backed(t) => Backed(t)'
      /\ \A now : Recent(now) => Recent(now)'
  BY <1>2, BackedStays
<1>4. Backed(row'.last_notified)
  <2>1. CASE CrashRecords
    <3>1. Backed(crash.now)
      BY <2>1 DEF CrashRecords, DeliveryInv
    <3>2. row' \in {row, Sent(row, crash.now, row.suppressed_count)}
      BY <2>1 DEF CrashRecords
    <3> QED BY <1>0, <3>1, <3>2, RowBacked DEF DeliveryInv
  <2>2. CASE ~CrashRecords
    <3>1. row' \in {row, NewRow(crash.now), Touched(row, crash.now),
                    Bumped(row, crash.now)}
      BY <2>2 DEF CrashStarts, Handler, CrashAnswered, CrashSelects,
         CrashNotes, CrashSuppresses, CrashReads, CrashWrites, CrashTimesOut
    <3> QED BY <1>0, <3>1, RowBacked DEF DeliveryInv
  <2> QED BY <2>1, <2>2
<1>5. crash'.now <= clock
  <2>1. crash'.now \in {crash.now, clock}
    BY <1>0 DEF CrashStarts, Handler, CrashAnswered, CrashSelects, CrashNotes,
       CrashSuppresses, CrashReads, CrashWrites, CrashTimesOut, CrashRecords,
       CrashGoes
  <2> QED BY <1>0, <2>1 DEF DeliveryInv
<1>6. CrashAt("suppress")' => Recent(crash'.now)
  <2> SUFFICES ASSUME CrashAt("suppress")' PROVE Recent(crash'.now)
    OBVIOUS
  <2>1. CrashSelects
    BY <1>0 DEF CrashAt, CrashStarts, Handler, CrashAnswered, CrashSelects,
       CrashNotes, CrashSuppresses, CrashReads, CrashWrites, CrashTimesOut,
       CrashRecords, CrashGoes, AfterSend
  <2>2. crash'.now = crash.now /\ Branch(row, crash.now) = "suppress"
    BY <1>0, <2>1 DEF CrashSelects, CrashGoes, CrashAt
  <2> QED BY <1>0, <2>2, SuppressedRecently DEF DeliveryInv
<1>7. CrashAt("record")' => Backed(crash.now)'
  <2> SUFFICES ASSUME CrashAt("record")' PROVE Backed(crash.now)'
    OBVIOUS
  <2>1. CrashAnswered
    <3>1. Branch(row, crash.now) # "record"
      BY BranchPcs
    <3> QED
      BY <1>0, <3>1 DEF CrashAt, CrashStarts, Handler, CrashAnswered,
         CrashSelects, CrashNotes, CrashSuppresses, CrashReads, CrashWrites,
         CrashTimesOut, CrashRecords, CrashGoes, AfterSend
  <2>2. crash'.now = crash.now /\ clock \in ghost'.delivered
    BY <1>0, <2>1 DEF CrashAnswered, CrashGoes, CrashAt, AfterSend, Delivered,
                      Typed
  <2> QED BY <2>2 DEF Backed, DeliveryInv
<1>8. SilentOnlyAfterDelivery'
  <2>1. CASE CrashSuppresses
    <3>1. /\ ghost'.silent = ghost.silent \union {crash.now}
          /\ ghost'.delivered = ghost.delivered
      BY <2>1 DEF CrashSuppresses, Silenced, Typed
    <3>2. Recent(crash.now)
      BY <2>1 DEF CrashSuppresses, DeliveryInv
    <3> QED BY <3>1, <3>2 DEF SilentOnlyAfterDelivery, Recent, DeliveryInv
  <2>2. CASE ~CrashSuppresses
    <3>1. ghost'.silent = ghost.silent
      BY <2>2 DEF CrashStarts, Handler, CrashAnswered, CrashSelects,
         CrashNotes, CrashReads, CrashWrites, CrashTimesOut, CrashRecords,
         Delivered, Typed
    <3> QED BY <1>2, <3>1, BackedStays DEF DeliveryInv
  <2> QED BY <2>1, <2>2
<1>9. \A q, from : At(q, from)' <=> At(q, from)
  BY <1>1 DEF At
<1> QED
  BY <1>1, <1>3, <1>4, <1>5, <1>6, <1>7, <1>8, <1>9 DEF DeliveryInv, Backed, Recent

LEMMA DeliveryStep == Typed /\ DeliveryInv /\ [Next]_vars => DeliveryInv'
<1> SUFFICES ASSUME Typed, DeliveryInv, [Next]_vars PROVE DeliveryInv'
  OBVIOUS
<1>1. CASE \E p \in Proc : Main(p) \/ Worker(p)
  BY <1>1, MainDelivery, WorkerDelivery
<1>2. CASE CrashStarts \/ Handler \/ CrashAnswered
  BY <1>2, CrashDelivery
<1>3. CASE SetResolved \/ Tick \/ UNCHANGED vars
  <2>1. /\ UNCHANGED <<main, item, crash, ghost>>
        /\ clock' = clock \/ clock' = clock + 1
        /\ row' \in {row, Resolve(row, TRUE)}
    BY <1>3 DEF SetResolved, Tick, vars
  <2>2. Backed(row'.last_notified)
    <3>1. row \in Row /\ 0 \in Int
      BY DEF Typed, TypeOK
    <3> QED BY <2>1, <3>1, RowBacked DEF DeliveryInv
  <2>3. crash.now <= clock'
    BY <2>1 DEF DeliveryInv, Typed, TypeOK
  <2> QED
    BY <2>1, <2>2, <2>3 DEF DeliveryInv, Backed, Recent, At, CrashAt,
                            SilentOnlyAfterDelivery
<1> QED BY <1>1, <1>2, <1>3 DEF Next

\* An occurrence is silenced by the cooldown only if an alert was delivered
\* less than a cooldown before, by the worker of some process or by a dying
\* thread: _crash_handler, record_sent and decide() on two connections.
THEOREM OnlySilencedAfterDelivery == Spec => []SilentOnlyAfterDelivery
<1>1. Typed /\ DeliveryInv /\ [Next]_vars => (Typed /\ DeliveryInv)'
  BY TypedStep, DeliveryStep
<1>2. Init => Typed /\ DeliveryInv
  BY TypedInit, DeliveryInit
<1>3. DeliveryInv => SilentOnlyAfterDelivery
  BY DEF DeliveryInv
<1> QED BY <1>1, <1>2, <1>3, PTL DEF Spec
=============================================================================
