---------------------------- MODULE ReporterProofs ----------------------------
(***************************************************************************)
(* Theorems about Reporter, for every number of threads and fingerprints,  *)
(* every queue size, cooldown and pruning age, and every pattern of        *)
(* failures, kills and clock ticks.                                        *)
(***************************************************************************)
EXTENDS Reporter, TLAPS

-----------------------------------------------------------------------------
(* What the store's methods do to a row.                                   *)

\* Every method returns a row, and decide() a verdict over one.
LEMMA RowOperators ==
  ASSUME NEW row \in Row, NEW now \in Int
  PROVE  /\ Decided(row, now) \in Row
         /\ Bumped(row, now) \in Row
         /\ Pruned(row, now) \in Row
         /\ \A n \in Nat : Sent(row, now, n) \in Row
         /\ \A m \in Message : WithMessage(row, m) \in Row
         /\ \A b \in BOOLEAN : Resolve(row, b) \in Row
<1>1. NoRow \in Row
  BY DEF NoRow, Row, NoMessage, Message, Never
<1>2. NewRow(now) \in Row
  BY <1>1 DEF NewRow, Row
<1>0. /\ row.suppressed_count \in Nat
      /\ row.suppressed_count + 1 \in Nat
      /\ \A n \in Nat : row.suppressed_count >= n =>
                       row.suppressed_count - n \in Nat
  BY DEF Row
<1>3. Decided(row, now) \in Row
  <2>1. CASE ~row.stored
    BY <1>2, <2>1 DEF Decided
  <2>2. CASE row.stored /\ ShouldSend(row, now)
    BY <2>2 DEF Decided, Row
  <2>3. CASE row.stored /\ ~ShouldSend(row, now)
    BY <1>0, <2>3 DEF Decided, Row
  <2> QED BY <2>1, <2>2, <2>3
<1>4. Bumped(row, now) \in Row
  BY <1>0 DEF Bumped, Row
<1>5. \A n \in Nat : Sent(row, now, n) \in Row
  <2> SUFFICES ASSUME NEW n \in Nat PROVE Sent(row, now, n) \in Row
    OBVIOUS
  <2>1. CASE row.suppressed_count >= n
    BY <1>0, <2>1 DEF Sent, Row
  <2>2. CASE ~(row.suppressed_count >= n)
    BY <2>2 DEF Sent, Row
  <2> QED BY <2>1, <2>2
<1>6. \A m \in Message : WithMessage(row, m) \in Row
  BY DEF WithMessage, Row
<1>7. \A b \in BOOLEAN : Resolve(row, b) \in Row
  BY DEF Resolve, Row
<1>8. Pruned(row, now) \in Row
  BY <1>1 DEF Pruned
<1> QED BY <1>3, <1>4, <1>5, <1>6, <1>7, <1>8

Blank(row) == ~row.stored => row = NoRow

\* The methods keep a missing row missing; only decide() creates one.
LEMMA BlankRows ==
  ASSUME NEW row \in Row, Blank(row), NEW now \in Int
  PROVE  /\ Blank(Decided(row, now))
         /\ Blank(Bumped(row, now))
         /\ \A r \in PartialBumps(row, now) : Blank(r)
         /\ Blank(Pruned(row, now))
         /\ \A n \in Nat : Blank(Sent(row, now, n))
         /\ \A b \in BOOLEAN : Blank(Resolve(row, b))
<1>1. CASE row.stored
  BY <1>1 DEF Blank, Decided, Bumped, PartialBumps, Pruned, Sent,
              Resolve, Row
<1>2. CASE ~row.stored
  <2>1. row = NoRow
    BY <1>2 DEF Blank
  <2>2. Decided(row, now).stored
    BY <1>2 DEF Decided, NewRow, NoRow
  <2> QED
    BY <1>2, <2>1, <2>2
       DEF Blank, Bumped, PartialBumps, Pruned, Expired, Sent, Resolve
<1> QED BY <1>1, <1>2

\* Counting in one of the three counters keeps them counters.
LEMMA CounterType ==
  ASSUME NEW m \in Counters,
         NEW k \in {"dropped", "transport_failures", "suppressed"}
  PROVE  BumpCounter(m, k) \in Counters
BY DEF BumpCounter, Counters

\* What decide() may answer and leave behind is well typed.
LEMMA VerdictType ==
  ASSUME NEW row \in Row, NEW now \in Int, NEW v \in Verdicts(row, now)
  PROVE  /\ v.row \in Row
         /\ v.decision \in Decision
         /\ v.ok \in BOOLEAN
<1>1. DecisionOn(row, now) \in Decision
  BY DEF DecisionOn, Decision, ShouldSend, CooldownExpired, Row
<1>2. PartialDecides(row, now) \subseteq Row
  BY RowOperators DEF PartialDecides
<1>3. Decided(row, now) \in Row
  BY RowOperators
<1>4. CASE v = [row |-> Decided(row, now), decision |-> DecisionOn(row, now),
                ok |-> TRUE]
  BY <1>1, <1>3, <1>4
<1>5. CASE \E left \in PartialDecides(row, now) :
              v = [row |-> left, ok |-> FALSE,
                   decision |-> [should_send |-> TRUE, suppressed_count |-> 0,
                                 was_resolved |-> FALSE]]
  BY <1>2, <1>5 DEF Decision
<1> QED BY <1>4, <1>5 DEF Verdicts

-----------------------------------------------------------------------------
(* Type correctness.                                                       *)

LEMMA HistoryOperators ==
  ASSUME TypeOK, NEW h \in History
  PROVE  /\ OneMoreSuppressed(h) \in History
         /\ Delivered(h) \in History
         /\ Failed(h) \in History
         /\ \A ok \in BOOLEAN : Recorded(h, ok) \in History
         /\ Forgotten(h) \in History
<1>1. /\ h.suppressed + 1 \in Nat /\ h.reported + item.count \in Nat
      /\ clock \in Int
  BY SMTT(30) DEF TypeOK, Item, NoItem, History
<1> QED
  BY <1>1 DEF History, OneMoreSuppressed, Delivered, Failed, Recorded, Forgotten

LEMMA TypeInit == Init => TypeOK
<1> SUFFICES ASSUME Init PROVE TypeOK
  OBVIOUS
<1>1. NoRow \in Row /\ NoCounters \in Counters /\ NoHistory \in History
  BY DEF NoRow, Row, NoMessage, Message, Never, NoCounters, Counters,
         NoHistory, History
<1>2. queue \in Seq(Item) /\ Len(queue) <= QueueSize
  BY ReporterAssumption DEF Init
<1> QED BY <1>1, <1>2 DEF Init, TypeOK, Never

\* The step of a caller that holds the lock ends its call; the fingerprint it
\* reports and the time it read are well typed.
LEMMA CriticalType ==
  ASSUME TypeOK, NEW c \in Caller, Critical(c)
  PROVE  /\ call[c].fp \in Fp /\ call[c].now \in Nat
         /\ rows[call[c].fp] \in Row
         /\ call' \in [Caller -> Call \union {NoCall}]
         /\ tally' \in [accepted : Nat, delivered : Nat]
         /\ UNCHANGED <<clock, item, sentAt>>
BY DEF TypeOK, Critical, Call

LEMMA SpendType ==
  ASSUME TypeOK, NEW n \in Nat, Spend(n)
  PROVE  spent' \in [faults : Nat, kills : Nat]
BY DEF TypeOK, Spend

LEMMA CostType == \A ok : Cost(ok) \in Nat
BY DEF Cost

LEMMA SuppressInFlightType ==
  ASSUME TypeOK, NEW c \in Caller, SuppressInFlight(c)
  PROVE  TypeOK'
<1> DEFINE fp == call[c].fp
<1>1. /\ fp \in Fp /\ rows[fp] \in Row
      /\ call' \in [Caller -> Call \union {NoCall}]
      /\ tally' \in [accepted : Nat, delivered : Nat]
      /\ UNCHANGED <<clock, item, sentAt, inFlight, queue, pc>>
  BY CriticalType DEF SuppressInFlight
<1> HIDE DEF fp
<1>2. PICK ok \in Attempts("store") :
        /\ Spend(Cost(ok))
        /\ \E row \in IF ok THEN {Bumped(rows[fp], clock)}
                            ELSE PartialBumps(rows[fp], clock) :
             rows' = [rows EXCEPT ![fp] = row]
        /\ meta' = IF ok THEN BumpCounter(meta, "suppressed") ELSE meta
        /\ history' = IF ok /\ rows[fp].stored
                      THEN [history EXCEPT ![fp] = OneMoreSuppressed(@)]
                      ELSE history
  BY DEF SuppressInFlight, fp
<1>3. rows' \in [Fp -> Row] /\ \A f \in Fp : Blank(rows'[f])
  <2>1. rows[fp] \in Row /\ clock \in Int /\ Blank(rows[fp])
    BY <1>1 DEF TypeOK, Blank
  <2>2. /\ PartialBumps(rows[fp], clock) \subseteq Row
        /\ \A r \in PartialBumps(rows[fp], clock) : Blank(r)
    BY <2>1, RowOperators, BlankRows DEF PartialBumps
  <2>3. PICK row : row \in PartialBumps(rows[fp], clock)
                   /\ rows' = [rows EXCEPT ![fp] = row]
    BY <1>2 DEF PartialBumps
  <2> QED BY <1>1, <2>2, <2>3 DEF TypeOK, Blank
<1>4. meta' \in Counters
  BY <1>2, CounterType DEF TypeOK
<1>5. history' \in [Fp -> History]
  <2>1. history[fp] \in History
    BY <1>1 DEF TypeOK
  <2>2. OneMoreSuppressed(history[fp]) \in History
    BY <2>1, HistoryOperators
  <2> QED BY <1>1, <1>2, <2>2 DEF TypeOK
<1>6. spent' \in [faults : Nat, kills : Nat]
  BY <1>2, CostType, SpendType
<1> QED BY <1>1, <1>3, <1>4, <1>5, <1>6 DEF TypeOK, Blank

LEMMA SuppressCooldownType ==
  ASSUME TypeOK, NEW c \in Caller, SuppressCooldown(c)
  PROVE  TypeOK'
<1> DEFINE fp == call[c].fp
<1>1. /\ fp \in Fp /\ call[c].now \in Nat /\ rows[fp] \in Row
      /\ call' \in [Caller -> Call \union {NoCall}]
      /\ tally' \in [accepted : Nat, delivered : Nat]
      /\ UNCHANGED <<clock, item, sentAt, inFlight, queue, pc, spent>>
  BY CriticalType DEF SuppressCooldown
<1>2. /\ rows' = [rows EXCEPT ![fp] = Decided(@, call[c].now)]
      /\ meta' = BumpCounter(meta, "suppressed")
      /\ history' = [history EXCEPT ![fp] = OneMoreSuppressed(@)]
  BY DEF SuppressCooldown
<1> HIDE DEF fp
<1>3. rows' \in [Fp -> Row] /\ \A f \in Fp : Blank(rows'[f])
  <2>0. rows[fp] \in Row /\ call[c].now \in Int /\ Blank(rows[fp])
    BY <1>1 DEF TypeOK, Blank
  <2>1. Decided(rows[fp], call[c].now) \in Row
    BY <2>0, RowOperators
  <2>2. Blank(Decided(rows[fp], call[c].now))
    BY <2>0, BlankRows
  <2> QED BY <1>1, <1>2, <2>1, <2>2 DEF TypeOK, Blank
<1>4. meta' \in Counters
  BY <1>2, CounterType DEF TypeOK
<1>5. history' \in [Fp -> History]
  <2>1. history[fp] \in History
    BY <1>1 DEF TypeOK
  <2>2. OneMoreSuppressed(history[fp]) \in History
    BY <2>1, HistoryOperators
  <2> QED BY <1>1, <1>2, <2>2 DEF TypeOK
<1> QED BY <1>1, <1>3, <1>4, <1>5 DEF TypeOK, Blank

\* When decide() lets an occurrence through, the row keeps its cooldown clock
\* and counts at least what the message will report; it counts no more than
\* before unless the store failed.
LEMMA VerdictEffect ==
  ASSUME NEW old \in Row, Blank(old), NEW now \in Int,
         NEW v \in Verdicts(old, now), v.decision.should_send
  PROVE  /\ Blank(v.row)
         /\ old.stored => v.row.stored
         /\ v.row.last_notified = old.last_notified
         /\ v.row.suppressed_count >= old.suppressed_count
         /\ v.row.suppressed_count >= v.decision.suppressed_count
         /\ v.ok => v.row.suppressed_count = old.suppressed_count
         /\ v.ok => \/ ~old.stored
                    \/ CooldownExpired(old, now)
                    \/ v.decision.was_resolved
<1>1. CASE v = [row |-> Decided(old, now), decision |-> DecisionOn(old, now),
                ok |-> TRUE]
  <2>1. /\ v.row = Decided(old, now)
        /\ ShouldSend(old, now)
        /\ v.decision.suppressed_count = old.suppressed_count
        /\ v.decision.was_resolved = old.resolved
    BY <1>1 DEF DecisionOn
  <2>2. CASE old.stored
    BY <2>1, <2>2 DEF Blank, Decided, Row, ShouldSend
  <2>3. CASE ~old.stored
    BY <2>1, <2>3 DEF Blank, Decided, NewRow, NoRow
  <2> QED BY <2>2, <2>3
<1>2. CASE \E left \in PartialDecides(old, now) :
             v = [row |-> left, ok |-> FALSE,
                  decision |-> [should_send |-> TRUE, suppressed_count |-> 0,
                                was_resolved |-> FALSE]]
  <2>1. /\ v.row \in PartialDecides(old, now)
        /\ ~v.ok /\ v.decision.suppressed_count = 0
    BY <1>2
  <2>2. CASE v.row = old
    BY <2>1, <2>2 DEF Row
  <2>3. CASE v.row = Decided(old, now) /\ ~ShouldSend(old, now)
    BY <2>1, <2>3 DEF Blank, Decided, ShouldSend, Row
  <2> QED BY <2>1, <2>2, <2>3 DEF PartialDecides
<1> QED BY <1>1, <1>2 DEF Verdicts

\* Saving the message touches nothing else of the row.
LEMMA WithMessageEffect ==
  ASSUME NEW row \in Row, NEW m \in Message
  PROVE  /\ WithMessage(row, m) \in Row
         /\ WithMessage(row, m).suppressed_count = row.suppressed_count
         /\ WithMessage(row, m).last_notified = row.last_notified
         /\ WithMessage(row, m).stored = row.stored
         /\ Blank(row) => Blank(WithMessage(row, m))
BY DEF WithMessage, Row, Message, Blank

\* What the critical section leaves in the row when it gets past decide().
Decides(c, row) ==
  LET old == rows[call[c].fp] IN
  /\ rows' = [rows EXCEPT ![call[c].fp] = row]
  /\ row \in Row /\ Blank(row)
  /\ old.stored => row.stored
  /\ row.last_notified = old.last_notified
  /\ row.suppressed_count >= old.suppressed_count
  /\ FaultFree' => row.suppressed_count = old.suppressed_count

\* What enqueueing leaves: an item rendered from the row, which still counts
\* at least what the item will report.
LEMMA SubmitEffect ==
  ASSUME TypeOK, NEW c \in Caller, Submit(c)
  PROVE  \E it \in Item, row \in Row :
           /\ it.fp = call[c].fp
           /\ queue' = Append(queue, it)
           /\ Decides(c, row)
           /\ row.suppressed_count >= it.count
           /\ ~it.blind /\ ~it.reopened =>
                \/ ~rows[call[c].fp].stored
                \/ CooldownExpired(rows[call[c].fp], call[c].now)
<1> DEFINE fp == call[c].fp
           old == rows[fp]
           now == call[c].now
<1>1. fp \in Fp /\ now \in Int /\ old \in Row /\ Blank(old)
  BY CriticalType DEF Submit, TypeOK, Blank
<1>2. PICK v \in Verdicts(old, now),
           saved \in Attempts("store"), started \in Attempts("thread") :
        LET m == [count |-> v.decision.suppressed_count,
                  reopened |-> v.decision.was_resolved]
        IN
        /\ v.decision.should_send
        /\ Spend(Cost(v.ok) + Cost(saved) + Cost(started))
        /\ rows' = [rows EXCEPT ![fp] =
                      IF saved THEN WithMessage(v.row, m) ELSE v.row]
        /\ queue' = Append(queue, [fp |-> fp, count |-> m.count,
                                   reopened |-> m.reopened, blind |-> ~v.ok])
  BY DEF Submit
<1> DEFINE m == [count |-> v.decision.suppressed_count,
                 reopened |-> v.decision.was_resolved]
           it == [fp |-> fp, count |-> m.count, reopened |-> m.reopened,
                  blind |-> ~v.ok]
           row == IF saved THEN WithMessage(v.row, m) ELSE v.row
<1>3. v.row \in Row /\ v.decision \in Decision /\ v.ok \in BOOLEAN
  BY <1>1, VerdictType
<1>4. m \in Message /\ it \in Item
  BY <1>1, <1>3 DEF Decision, Message, Item
<1>5. FaultFree' => v.ok
  BY <1>2, <1>3, CostType DEF FaultFree, Spend, Cost, TypeOK
<1>6. /\ row \in Row
      /\ row.suppressed_count = v.row.suppressed_count
      /\ row.last_notified = v.row.last_notified
      /\ row.stored = v.row.stored
      /\ Blank(v.row) => Blank(row)
  BY <1>3, <1>4, WithMessageEffect
<1>7. /\ it.fp = fp /\ it.count = v.decision.suppressed_count
      /\ it.blind = ~v.ok /\ it.reopened = v.decision.was_resolved
      /\ queue' = Append(queue, it)
      /\ rows' = [rows EXCEPT ![fp] = row]
  BY <1>2
<1> HIDE DEF it, row, m
<1>8. /\ Blank(v.row)
      /\ old.stored => v.row.stored
      /\ v.row.last_notified = old.last_notified
      /\ v.row.suppressed_count >= old.suppressed_count
      /\ v.row.suppressed_count >= v.decision.suppressed_count
      /\ v.ok => v.row.suppressed_count = old.suppressed_count
      /\ v.ok => ~old.stored \/ CooldownExpired(old, now)
                             \/ v.decision.was_resolved
  BY <1>1, <1>2, VerdictEffect
<1>9. Decides(c, row)
  BY <1>5, <1>6, <1>7, <1>8 DEF Decides
<1> QED BY <1>3, <1>4, <1>6, <1>7, <1>8, <1>9

LEMMA DropEffect ==
  ASSUME TypeOK, NEW c \in Caller, Drop(c)
  PROVE  /\ \E row \in Row : Decides(c, row)
         /\ meta' \in Counters
         /\ spent' \in [faults : Nat, kills : Nat]
         /\ FaultFree' => FaultFree /\ meta' = BumpCounter(meta, "dropped")
<1> DEFINE fp == call[c].fp
           old == rows[fp]
           now == call[c].now
<1>1. fp \in Fp /\ now \in Int /\ old \in Row /\ Blank(old)
  BY CriticalType DEF Drop, TypeOK, Blank
<1>2. PICK v \in Verdicts(old, now),
           saved \in Attempts("store"), counted \in Attempts("store") :
        LET m == [count |-> v.decision.suppressed_count,
                  reopened |-> v.decision.was_resolved]
        IN
        /\ v.decision.should_send
        /\ Spend(Cost(v.ok) + Cost(saved) + Cost(counted))
        /\ rows' = [rows EXCEPT ![fp] =
                      IF saved THEN WithMessage(v.row, m) ELSE v.row]
        /\ meta' = IF counted THEN BumpCounter(meta, "dropped") ELSE meta
  BY DEF Drop
<1> DEFINE m == [count |-> v.decision.suppressed_count,
                 reopened |-> v.decision.was_resolved]
           row == IF saved THEN WithMessage(v.row, m) ELSE v.row
<1>3. v.row \in Row /\ v.decision \in Decision /\ v.ok \in BOOLEAN
  BY <1>1, VerdictType
<1>4. m \in Message
  BY <1>3 DEF Decision, Message
<1>5. FaultFree' => FaultFree /\ v.ok /\ counted
  BY <1>2, <1>3, CostType DEF FaultFree, Spend, Cost, TypeOK
<1>6. /\ row \in Row
      /\ row.suppressed_count = v.row.suppressed_count
      /\ row.last_notified = v.row.last_notified
      /\ row.stored = v.row.stored
      /\ Blank(v.row) => Blank(row)
  BY <1>3, <1>4, WithMessageEffect
<1>7. rows' = [rows EXCEPT ![fp] = row]
  BY <1>2
<1> HIDE DEF row, m
<1>8. /\ Blank(v.row)
      /\ old.stored => v.row.stored
      /\ v.row.last_notified = old.last_notified
      /\ v.row.suppressed_count >= old.suppressed_count
      /\ v.ok => v.row.suppressed_count = old.suppressed_count
  BY <1>1, <1>2, VerdictEffect
<1>9. Decides(c, row)
  BY <1>5, <1>6, <1>7, <1>8 DEF Decides
<1>10. meta' \in Counters
  BY <1>2, CounterType DEF TypeOK
<1>11. spent' \in [faults : Nat, kills : Nat]
  BY <1>2, CostType, SpendType
<1> QED BY <1>2, <1>5, <1>6, <1>9, <1>10, <1>11

LEMMA RenderRaisesEffect ==
  ASSUME TypeOK, NEW c \in Caller, RenderRaises(c)
  PROVE  /\ \E row \in Row : Decides(c, row)
         /\ spent' \in [faults : Nat, kills : Nat]
         /\ ~FaultFree'
<1> DEFINE fp == call[c].fp
           old == rows[fp]
           now == call[c].now
<1>1. fp \in Fp /\ now \in Int /\ old \in Row /\ Blank(old)
  BY CriticalType DEF RenderRaises, TypeOK, Blank
<1>2. PICK v \in Verdicts(old, now) :
        /\ v.decision.should_send
        /\ Spend(Cost(v.ok) + 1)
        /\ rows' = [rows EXCEPT ![fp] = v.row]
  BY DEF RenderRaises
<1>3. v.row \in Row /\ v.ok \in BOOLEAN
  BY <1>1, VerdictType
<1>4. /\ spent' \in [faults : Nat, kills : Nat]
      /\ ~FaultFree'
  <2>1. Cost(v.ok) + 1 \in Nat /\ Cost(v.ok) \in Nat
    BY CostType
  <2>2. spent' \in [faults : Nat, kills : Nat]
    BY <1>2, <2>1, SpendType
  <2>3. spent'.faults = spent.faults + (Cost(v.ok) + 1)
    BY <1>2 DEF Spend, TypeOK
  <2> QED BY <2>1, <2>2, <2>3 DEF FaultFree, TypeOK
<1>5. Decides(c, v.row)
  BY <1>1, <1>2, <1>3, <1>4, VerdictEffect DEF Decides
<1> QED BY <1>3, <1>4, <1>5

\* A caller's step past decide() keeps the table a table.
LEMMA DecidesType ==
  ASSUME TypeOK, NEW c \in Caller, call[c].fp \in Fp,
         NEW row, Decides(c, row)
  PROVE  rows' \in [Fp -> Row] /\ \A fp \in Fp : Blank(rows'[fp])
BY DEF Decides, TypeOK, Blank

LEMMA SubmitType ==
  ASSUME TypeOK, NEW c \in Caller, Submit(c)
  PROVE  TypeOK'
<1>1. /\ call[c].fp \in Fp
      /\ call' \in [Caller -> Call \union {NoCall}]
      /\ tally' \in [accepted : Nat, delivered : Nat]
      /\ UNCHANGED <<clock, item, sentAt, meta, history>>
  BY CriticalType DEF Submit
<1>2. PICK it \in Item, row \in Row :
         queue' = Append(queue, it) /\ Decides(c, row)
  BY SubmitEffect
<1>3. rows' \in [Fp -> Row] /\ \A fp \in Fp : Blank(rows'[fp])
  BY <1>1, <1>2, DecidesType
<1>4. queue' \in Seq(Item) /\ Len(queue') <= QueueSize
  BY <1>2, ReporterAssumption DEF Submit, QueueFull, TypeOK
<1>5. inFlight' \in SUBSET Fp
  BY <1>1 DEF Submit, TypeOK
<1>6. /\ pc' \in {"none", "idle", "sending", "sent", "failed"}
      /\ pc' \in {"none", "idle"} <=> pc \in {"none", "idle"}
      /\ pc' \in {"sent", "failed"} <=> pc \in {"sent", "failed"}
  <2>1. pc' = pc \/ (pc = "none" /\ pc' = "idle")
    BY DEF Submit
  <2> QED BY <2>1 DEF TypeOK
<1>7. spent' \in [faults : Nat, kills : Nat]
  <2>1. \A a, b, d : Spend(Cost(a) + Cost(b) + Cost(d)) =>
                        spent' \in [faults : Nat, kills : Nat]
    BY CostType, SpendType
  <2> QED BY <2>1 DEF Submit
<1> QED BY <1>1, <1>3, <1>4, <1>5, <1>6, <1>7 DEF TypeOK, Blank

LEMMA DropType ==
  ASSUME TypeOK, NEW c \in Caller, Drop(c)
  PROVE  TypeOK'
<1>1. /\ call[c].fp \in Fp
      /\ call' \in [Caller -> Call \union {NoCall}]
      /\ tally' \in [accepted : Nat, delivered : Nat]
      /\ UNCHANGED <<clock, item, sentAt, queue, pc, history>>
  BY CriticalType DEF Drop
<1>2. rows' \in [Fp -> Row] /\ \A fp \in Fp : Blank(rows'[fp])
  BY <1>1, DropEffect, DecidesType
<1>3. inFlight' \in SUBSET Fp
  BY <1>1 DEF Drop, Rollback, TypeOK
<1> QED BY <1>1, <1>2, <1>3, DropEffect DEF TypeOK, Blank

LEMMA RenderRaisesType ==
  ASSUME TypeOK, NEW c \in Caller, RenderRaises(c)
  PROVE  TypeOK'
<1>1. /\ call[c].fp \in Fp
      /\ call' \in [Caller -> Call \union {NoCall}]
      /\ tally' \in [accepted : Nat, delivered : Nat]
      /\ UNCHANGED <<clock, item, sentAt, meta, inFlight, queue, pc, history>>
  BY CriticalType DEF RenderRaises
<1>2. rows' \in [Fp -> Row] /\ \A fp \in Fp : Blank(rows'[fp])
  BY <1>1, RenderRaisesEffect, DecidesType
<1> QED BY <1>1, <1>2, RenderRaisesEffect DEF TypeOK, Blank

\* While the worker has an item in its hands, it is an item.
LEMMA ItemHeld ==
  ASSUME TypeOK, pc \in {"sending", "sent", "failed"}
  PROVE  /\ item \in Item /\ item.fp \in Fp
         /\ item.count \in Nat
         /\ history[item.fp] \in History
         /\ rows[item.fp] \in Row
<1>1. item \in Item
  BY DEF TypeOK
<1> QED BY <1>1 DEF TypeOK, Item

LEMMA WorkerGetType ==
  ASSUME TypeOK, WorkerGet
  PROVE  TypeOK'
<1>1. /\ Head(queue) \in Item
      /\ Tail(queue) \in Seq(Item)
      /\ Len(Tail(queue)) = Len(queue) - 1
      /\ Len(queue) \in Nat
  BY DEF WorkerGet, TypeOK
<1>2. queue' \in Seq(Item) /\ Len(queue') <= QueueSize
  BY <1>1, ReporterAssumption DEF WorkerGet, TypeOK
<1>3. Head(queue) # NoItem
  BY <1>1, ReporterAssumption DEF Item, NoItem
<1> QED BY <1>1, <1>2, <1>3 DEF WorkerGet, TypeOK

LEMMA SendDeliversType ==
  ASSUME TypeOK, SendDelivers
  PROVE  TypeOK'
<1>1. item \in Item /\ item.fp \in Fp /\ history[item.fp] \in History
  BY ItemHeld DEF SendDelivers
<1>2. history' \in [Fp -> History]
  <2>1. Delivered(history[item.fp]) \in History
    BY <1>1, HistoryOperators
  <2> QED BY <1>1, <2>1 DEF SendDelivers, TypeOK
<1>3. tally' \in [accepted : Nat, delivered : Nat]
  BY DEF SendDelivers, TypeOK
<1> QED BY <1>2, <1>3 DEF SendDelivers, TypeOK, Never

LEMMA SendFailsType ==
  ASSUME TypeOK, SendFails
  PROVE  TypeOK'
<1>1. item \in Item /\ item.fp \in Fp /\ history[item.fp] \in History
  BY ItemHeld DEF SendFails
<1>2. history' \in [Fp -> History]
  <2>1. Failed(history[item.fp]) \in History
    BY <1>1, HistoryOperators
  <2> QED BY <1>1, <2>1 DEF SendFails, TypeOK
<1> QED BY <1>2 DEF SendFails, TypeOK, Never

\* What both write-backs do besides the store.
LEMMA WriteBackType ==
  ASSUME TypeOK, NEW ok, WriteBack(ok)
  PROVE  /\ spent' \in [faults : Nat, kills : Nat]
         /\ inFlight' = inFlight \ {item.fp}
         /\ pc' = "idle" /\ item' = NoItem /\ sentAt' = Never
         /\ UNCHANGED <<clock, queue, call, tally>>
BY CostType, SpendType DEF WriteBack, Landed

LEMMA RecordSentType ==
  ASSUME TypeOK, RecordSent
  PROVE  TypeOK'
<1>1. /\ item.fp \in Fp /\ item.count \in Nat /\ sentAt \in Int
      /\ history[item.fp] \in History
      /\ rows[item.fp] \in Row /\ Blank(rows[item.fp])
  BY ItemHeld DEF RecordSent, TypeOK, Never, Blank
<1>2. PICK ok \in Attempts("store") :
        /\ WriteBack(ok)
        /\ rows' = IF ok
                   THEN [rows EXCEPT ![item.fp] = Sent(@, sentAt, item.count)]
                   ELSE rows
        /\ history' = [history EXCEPT ![item.fp] =
                         Recorded(@, ok /\ rows[item.fp].stored)]
  BY DEF RecordSent
<1>3. rows' \in [Fp -> Row] /\ \A fp \in Fp : Blank(rows'[fp])
  <2>1. Sent(rows[item.fp], sentAt, item.count) \in Row
    BY <1>1, RowOperators
  <2>2. Blank(Sent(rows[item.fp], sentAt, item.count))
    BY <1>1, BlankRows
  <2> QED BY <1>1, <1>2, <2>1, <2>2 DEF TypeOK, Blank
<1>4. history' \in [Fp -> History]
  <2>1. (ok /\ rows[item.fp].stored) \in BOOLEAN
    BY <1>1, <1>2 DEF Attempts, Row
  <2>2. Recorded(history[item.fp], ok /\ rows[item.fp].stored) \in History
    BY <1>1, <2>1, HistoryOperators
  <2> QED BY <1>1, <1>2, <2>2 DEF TypeOK
<1>5. UNCHANGED meta
  BY DEF RecordSent
<1> QED BY <1>2, <1>3, <1>4, <1>5, WriteBackType DEF TypeOK, Blank

LEMMA RecordFailureType ==
  ASSUME TypeOK, RecordFailure
  PROVE  TypeOK'
<1>1. PICK ok \in Attempts("store") :
        /\ WriteBack(ok)
        /\ meta' = IF ok THEN BumpCounter(meta, "transport_failures") ELSE meta
  BY DEF RecordFailure
<1>2. meta' \in Counters
  BY <1>1, CounterType DEF TypeOK
<1>3. UNCHANGED <<rows, history>>
  BY DEF RecordFailure
<1> QED BY <1>1, <1>2, <1>3, WriteBackType DEF TypeOK

LEMMA RestartType ==
  ASSUME TypeOK, Restart
  PROVE  TypeOK'
<1>1. rows' \in [Fp -> Row] /\ \A fp \in Fp : Blank(rows'[fp])
  <2>1. \A fp \in Fp : rows[fp] \in Row /\ Blank(rows[fp]) /\ clock \in Int
    BY DEF TypeOK, Blank
  <2>2. \A fp \in Fp : /\ Pruned(rows[fp], clock) \in Row
                       /\ Blank(Pruned(rows[fp], clock))
    BY <2>1, RowOperators, BlankRows
  <2> QED BY <2>2 DEF Restart
<1>2. history' \in [Fp -> History]
  BY HistoryOperators DEF Restart, TypeOK
<1>3. queue' \in Seq(Item) /\ Len(queue') <= QueueSize
  BY ReporterAssumption DEF Restart
<1>4. spent' \in [faults : Nat, kills : Nat]
  BY DEF Restart, TypeOK
<1> QED BY <1>1, <1>2, <1>3, <1>4 DEF Restart, TypeOK, Blank

LEMMA SetResolvedType ==
  ASSUME TypeOK, NEW fp \in Fp, NEW resolved \in BOOLEAN,
         SetResolved(fp, resolved)
  PROVE  TypeOK'
<1>1. rows[fp] \in Row /\ Blank(rows[fp]) /\ clock \in Int
  BY DEF TypeOK, Blank
<1>2. Resolve(rows[fp], resolved) \in Row /\ Blank(Resolve(rows[fp], resolved))
  BY <1>1, RowOperators, BlankRows
<1> QED BY <1>2 DEF SetResolved, TypeOK, Blank, memory

LEMMA TypeStep == TypeOK /\ [Next]_vars => TypeOK'
<1> SUFFICES ASSUME TypeOK, [Next]_vars PROVE TypeOK'
  OBVIOUS
<1>1. ASSUME NEW c \in Caller, NEW fp \in Fp, Report(c, fp) PROVE TypeOK'
  BY <1>1 DEF Report, TypeOK, Call
<1>2. CASE Occurrence
  BY <1>2, SuppressInFlightType, SuppressCooldownType, SubmitType, DropType,
     RenderRaisesType DEF Occurrence
<1>3. CASE WorkerStep
  BY <1>3, WorkerGetType, SendDeliversType, SendFailsType, RecordSentType,
     RecordFailureType DEF WorkerStep
<1>4. ASSUME NEW fp \in Fp, NEW resolved \in BOOLEAN, SetResolved(fp, resolved)
      PROVE  TypeOK'
  BY <1>4, SetResolvedType
<1>5. CASE Tick
  BY <1>5 DEF Tick, TypeOK, memory
<1>6. CASE Restart
  BY <1>6, RestartType
<1>7. CASE UNCHANGED vars
  BY <1>7 DEF vars, memory, TypeOK
<1> QED BY <1>1, <1>2, <1>3, <1>4, <1>5, <1>6, <1>7 DEF Next

\* Every state the program reaches is well typed; in particular the queue
\* never holds more than QUEUE_SIZE items.
THEOREM TypeCorrect == Spec => []TypeOK
<1> QED BY TypeInit, TypeStep, PTL DEF Spec

-----------------------------------------------------------------------------
(* The in-flight set.                                                      *)

FpsOf(q) == {q[i].fp : i \in 1..Len(q)}
Distinct(q) == \A i, j \in 1..Len(q) : i # j => q[i].fp # q[j].fp

LEMMA AppendFps ==
  ASSUME NEW q \in Seq(Item), NEW it \in Item
  PROVE  /\ FpsOf(Append(q, it)) = FpsOf(q) \union {it.fp}
         /\ Distinct(q) /\ it.fp \notin FpsOf(q) => Distinct(Append(q, it))
<1> DEFINE r == Append(q, it)
<1>1. /\ Len(r) = Len(q) + 1 /\ Len(q) \in Nat
      /\ \A i \in 1..Len(q) : r[i] = q[i]
      /\ r[Len(q) + 1] = it
  OBVIOUS
<1>2. \A i \in 1..Len(r) : i \in 1..Len(q) \/ i = Len(q) + 1
  BY <1>1
<1>3. \A i \in 1..Len(q) : i \in 1..Len(r)
  BY <1>1
<1>4. Len(q) + 1 \in 1..Len(r)
  BY <1>1
<1> HIDE DEF r
<1>5. FpsOf(r) = FpsOf(q) \union {it.fp}
  BY <1>1, <1>2, <1>3, <1>4 DEF FpsOf
<1>6. Distinct(q) /\ it.fp \notin FpsOf(q) => Distinct(r)
  BY <1>1, <1>2 DEF Distinct, FpsOf
<1> QED BY <1>5, <1>6 DEF r

LEMMA TailFps ==
  ASSUME NEW q \in Seq(Item), q # <<>>
  PROVE  /\ FpsOf(q) = FpsOf(Tail(q)) \union {Head(q).fp}
         /\ Distinct(q) => /\ Distinct(Tail(q))
                           /\ Head(q).fp \notin FpsOf(Tail(q))
<1> DEFINE r == Tail(q)
<1>1. /\ Len(r) = Len(q) - 1 /\ Len(q) \in Nat /\ Len(q) >= 1
      /\ \A i \in 1..Len(r) : r[i] = q[i + 1]
      /\ Head(q) = q[1]
  OBVIOUS
<1>2. \A i \in 1..Len(r) : i + 1 \in 1..Len(q) /\ i + 1 # 1
  BY <1>1
<1>3. \A i \in 1..Len(q) : i = 1 \/ (i - 1 \in 1..Len(r) /\ q[i] = r[i - 1])
  BY <1>1
<1>4. 1 \in 1..Len(q)
  BY <1>1
<1> HIDE DEF r
<1>5. FpsOf(q) = FpsOf(r) \union {Head(q).fp}
  <2>1. \A i \in 1..Len(r) : r[i].fp \in FpsOf(q)
    BY <1>1, <1>2 DEF FpsOf
  <2>2. \A i \in 1..Len(q) : q[i].fp \in FpsOf(r) \union {Head(q).fp}
    BY <1>1, <1>3 DEF FpsOf
  <2>3. Head(q).fp \in FpsOf(q)
    BY <1>1, <1>4 DEF FpsOf
  <2> QED BY <2>1, <2>2, <2>3 DEF FpsOf
<1>6. ASSUME Distinct(q)
      PROVE  Distinct(r) /\ Head(q).fp \notin FpsOf(r)
  <2>1. \A i, j \in 1..Len(r) : i # j => r[i].fp # r[j].fp
    <3> TAKE i, j \in 1..Len(r)
    <3> HAVE i # j
    <3>1. i + 1 \in 1..Len(q) /\ j + 1 \in 1..Len(q) /\ i + 1 # j + 1
      BY <1>2
    <3> QED BY <1>1, <1>6, <3>1 DEF Distinct
  <2>2. \A i \in 1..Len(r) : r[i].fp # Head(q).fp
    BY <1>1, <1>2, <1>4, <1>6 DEF Distinct
  <2> QED BY <2>1, <2>2 DEF Distinct, FpsOf
<1> QED BY <1>5, <1>6 DEF r

LEMMA ExactForm ==
  InFlightExact <=> /\ inFlight = FpsOf(queue) \union Held
                    /\ Distinct(queue)
                    /\ FpsOf(queue) \intersect Held = {}
BY DEF InFlightExact, Queued, FpsOf, Distinct

LEMMA ExactFormNext ==
  InFlightExact' <=> /\ inFlight' = FpsOf(queue') \union Held'
                     /\ Distinct(queue')
                     /\ FpsOf(queue') \intersect Held' = {}
BY DEF InFlightExact, Queued, FpsOf, Distinct

LEMMA EmptyFps == FpsOf(<<>>) = {} /\ Distinct(<<>>)
BY DEF FpsOf, Distinct

LEMMA ExactInit == Init => InFlightExact
BY EmptyFps, ExactForm DEF Init, Held, NoItem

LEMMA ExactStep == TypeOK /\ InFlightExact /\ [Next]_vars => InFlightExact'
<1> SUFFICES ASSUME TypeOK, InFlightExact, [Next]_vars PROVE InFlightExact'
  OBVIOUS
<1>1. /\ queue \in Seq(Item)
      /\ inFlight = FpsOf(queue) \union Held
      /\ Distinct(queue)
      /\ FpsOf(queue) \intersect Held = {}
  BY ExactForm DEF TypeOK
<1>2. ASSUME UNCHANGED <<inFlight, queue, item>> PROVE InFlightExact'
  BY <1>1, <1>2, ExactFormNext DEF Held
<1>3. ASSUME NEW c \in Caller, Submit(c) PROVE InFlightExact'
  <2>1. PICK it \in Item : it.fp = call[c].fp /\ queue' = Append(queue, it)
    BY <1>3, SubmitEffect
  <2>2. /\ call[c].fp \notin inFlight
        /\ inFlight' = inFlight \union {call[c].fp}
        /\ item' = item
    BY <1>3 DEF Submit, Critical
  <2>3. /\ FpsOf(queue') = FpsOf(queue) \union {call[c].fp}
        /\ Distinct(queue')
    BY <1>1, <2>1, <2>2, AppendFps
  <2> QED BY <1>1, <2>2, <2>3, ExactFormNext DEF Held
<1>4. ASSUME NEW c \in Caller, Drop(c) PROVE InFlightExact'
  BY <1>2, <1>4 DEF Drop, Critical, Rollback
<1>5. CASE WorkerGet
  <2>1. /\ queue # <<>> /\ item' = Head(queue) /\ queue' = Tail(queue)
        /\ inFlight' = inFlight /\ item = NoItem
    BY <1>5 DEF WorkerGet, TypeOK
  <2>2. /\ FpsOf(queue) = FpsOf(queue') \union {Head(queue).fp}
        /\ Distinct(queue') /\ Head(queue).fp \notin FpsOf(queue')
    BY <1>1, <2>1, TailFps
  <2>3. Held = {} /\ Held' = {Head(queue).fp}
    <3>1. Head(queue) \in Item
      BY <1>1, <2>1
    <3>2. Head(queue).fp # NoFp
      BY <3>1, ReporterAssumption DEF Item
    <3> QED BY <2>1, <3>2 DEF Held, NoItem
  <2> QED BY <1>1, <2>1, <2>2, <2>3, ExactFormNext
<1>6. CASE RecordSent \/ RecordFailure
  <2>1. /\ inFlight' = inFlight \ {item.fp}
        /\ item' = NoItem /\ queue' = queue
    BY <1>6, WriteBackType DEF RecordSent, RecordFailure
  <2>2. item.fp # NoFp
    BY <1>6, ItemHeld, ReporterAssumption DEF RecordSent, RecordFailure
  <2>3. Held = {item.fp} /\ Held' = {}
    BY <2>1, <2>2 DEF Held, NoItem
  <2> QED BY <1>1, <2>1, <2>3, ExactFormNext
<1>7. CASE Restart
  BY <1>7, EmptyFps, ExactFormNext DEF Restart, Held, NoItem
<1>8. ASSUME NEW c \in Caller, SuppressInFlight(c) \/ SuppressCooldown(c)
                                 \/ RenderRaises(c)
      PROVE  InFlightExact'
  BY <1>2, <1>8 DEF SuppressInFlight, SuppressCooldown, RenderRaises, Critical
<1>9. ASSUME NEW c \in Caller, NEW fp \in Fp, Report(c, fp)
      PROVE  InFlightExact'
  BY <1>2, <1>9 DEF Report
<1>10. CASE SendDelivers \/ SendFails \/ Tick \/ UNCHANGED vars
            \/ \E fp \in Fp, resolved \in BOOLEAN : SetResolved(fp, resolved)
  BY <1>2, <1>10 DEF SendDelivers, SendFails, Tick, SetResolved, vars, memory
<1> QED BY <1>3, <1>4, <1>5, <1>6, <1>7, <1>8, <1>9, <1>10
       DEF Next, Occurrence, WorkerStep

\* Whatever fails and whenever the process is killed, the in-flight set is
\* exactly what is queued or in the worker's hands: no fingerprint is queued
\* twice and none is stuck after its alert has left.
THEOREM InFlightIsExact == Spec => []InFlightExact
<1>1. TypeOK /\ InFlightExact /\ [Next]_vars => (TypeOK /\ InFlightExact)'
  BY TypeStep, ExactStep
<1> QED BY TypeInit, ExactInit, <1>1, PTL DEF Spec

-----------------------------------------------------------------------------
(* Alerts on their way, suppressions and the cooldown clock.               *)

\* Each conjunct of the invariant, for one fingerprint or one alert.
Covered(m) == m.count <= rows[m.fp].suppressed_count
StillDue(m) ==
  LET h == history[m.fp] IN
  m.reopened \/ m.blind \/ ~h.recorded \/ clock - h.at >= Cooldown
Conserved(fp) ==
  LET h == history[fp]
      counted == h.reported + rows[fp].suppressed_count
  IN /\ h.suppressed + Owed(fp) <= counted
     /\ FaultFree => h.suppressed + Owed(fp) = counted
Notified(fp) ==
  /\ rows[fp].last_notified <= history[fp].at
  /\ history[fp].recorded =>
       \/ pc = "sent" /\ item.fp = fp
       \/ rows[fp].stored /\ rows[fp].last_notified = history[fp].at
Known(fp) ==
  /\ Never <= history[fp].at /\ history[fp].at <= clock
  /\ history[fp].recorded => history[fp].at # Never

\* Alerts not yet handed to the transport, or handed to it.
Waiting == {queue[i] : i \in 1..Len(queue)}
Sending == IF pc = "sending" THEN {item} ELSE {}
Taken == IF pc \in {"sending", "sent", "failed"} THEN {item} ELSE {}

\* The inductive invariant.
Inv ==
  /\ TypeOK
  /\ InFlightExact
  /\ \A m \in Waiting \union Taken : Covered(m)
  /\ \A m \in Waiting \union Sending : StillDue(m)
  /\ \A fp \in Fp : Conserved(fp) /\ Notified(fp)
  /\ pc = "sent" => history[item.fp].at = sentAt
  /\ \A fp \in Fp : Known(fp)
  /\ \A c \in Caller : call[c].now <= clock

LEMMA InvInit == Init => Inv
<1> SUFFICES ASSUME Init PROVE Inv
  OBVIOUS
<1>1. Waiting = {} /\ Sending = {} /\ Taken = {}
  BY DEF Init, Waiting, Sending, Taken
<1>2. \A fp \in Fp : Conserved(fp) /\ Notified(fp)
  BY DEF Init, Conserved, Notified, Owed, NoHistory, NoRow, Never
<1>3. \A fp \in Fp : Known(fp)
  BY DEF Init, Known, NoHistory, Never
<1>4. \A c \in Caller : call[c].now <= clock
  BY DEF Init, NoCall
<1> QED BY TypeInit, ExactInit, <1>1, <1>2, <1>3, <1>4 DEF Inv, Init

\* What any critical section does to the row of its fingerprint: it stays,
\* its cooldown clock stays, and its count does not shrink.
Grows(c, row) ==
  LET old == rows[call[c].fp] IN
  /\ rows' = [rows EXCEPT ![call[c].fp] = row]
  /\ row \in Row
  /\ old.stored => row.stored
  /\ row.last_notified = old.last_notified
  /\ row.suppressed_count >= old.suppressed_count

LEMMA SuppressInFlightEffect ==
  ASSUME TypeOK, NEW c \in Caller, SuppressInFlight(c)
  PROVE  /\ \E row : Grows(c, row)
         /\ \/ history' = history
            \/ history' = [history EXCEPT ![call[c].fp] = OneMoreSuppressed(@)]
         /\ \A fp \in Fp : Conserved(fp) => Conserved(fp)'
<1> DEFINE f == call[c].fp
           old == rows[f]
<1>1. /\ f \in Fp /\ old \in Row /\ clock \in Int
      /\ UNCHANGED <<item, pc>>
  BY CriticalType DEF SuppressInFlight, TypeOK
<1>2. PICK ok \in Attempts("store") :
        /\ Spend(Cost(ok))
        /\ \E row \in IF ok THEN {Bumped(old, clock)}
                            ELSE PartialBumps(old, clock) :
             rows' = [rows EXCEPT ![f] = row]
        /\ history' = IF ok /\ old.stored
                      THEN [history EXCEPT ![f] = OneMoreSuppressed(@)]
                      ELSE history
  BY DEF SuppressInFlight
<1>3. PICK row \in PartialBumps(old, clock) :
        /\ rows' = [rows EXCEPT ![f] = row]
        /\ ok => row = Bumped(old, clock)
  BY <1>2 DEF PartialBumps
<1>4. /\ row \in Row
      /\ old.stored => row.stored
      /\ row.last_notified = old.last_notified
      /\ row.suppressed_count >= old.suppressed_count
      /\ ok /\ old.stored => row.suppressed_count = old.suppressed_count + 1
      /\ ok /\ ~old.stored => row.suppressed_count = old.suppressed_count
  <2>1. row \in Row
    BY <1>1, <1>3, RowOperators DEF PartialBumps
  <2>2. CASE row = Bumped(old, clock)
    BY <1>1, <2>1, <2>2 DEF Bumped, Row
  <2>3. CASE ~ok /\ (row = old \/ row = Resolve(old, FALSE))
    BY <1>1, <2>1, <2>3 DEF Resolve, Row
  <2> QED BY <1>3, <2>2, <2>3 DEF PartialBumps
<1>5. Grows(c, row)
  BY <1>3, <1>4 DEF Grows
<1>6. FaultFree' => FaultFree /\ ok
  BY <1>2 DEF FaultFree, Spend, Cost, TypeOK, Attempts
<1>7. \A fp \in Fp : Conserved(fp) => Conserved(fp)'
  <2> SUFFICES ASSUME NEW fp \in Fp, Conserved(fp) PROVE Conserved(fp)'
    OBVIOUS
  <2>1. Owed(fp)' = Owed(fp) /\ Owed(fp) \in Int
    BY <1>1 DEF Owed, TypeOK, Item, NoItem
  <2>2. history[fp] \in History /\ rows[fp] \in Row
    BY DEF TypeOK
  <2> HIDE DEF f
  <2>3. CASE fp # f
    BY <1>1, <1>2, <1>3, <1>6, <2>1, <2>3 DEF Conserved, TypeOK
  <2>4. CASE fp = f
    <3>1. /\ rows'[fp] = row
          /\ history'[fp] = IF ok /\ old.stored
                            THEN OneMoreSuppressed(history[fp]) ELSE history[fp]
      BY <1>1, <1>2, <1>3, <2>4 DEF TypeOK
    <3>2. /\ history'[fp].reported = history[fp].reported
          /\ history'[fp].suppressed = IF ok /\ old.stored
                                       THEN history[fp].suppressed + 1
                                       ELSE history[fp].suppressed
      BY <2>2, <3>1 DEF OneMoreSuppressed, History
    <3> QED
      BY <1>4, <1>6, <2>1, <2>2, <2>4, <3>1, <3>2 DEF Conserved, Row, History, f
  <2> QED BY <2>3, <2>4
<1> QED BY <1>2, <1>5, <1>7

LEMMA SuppressCooldownEffect ==
  ASSUME TypeOK, NEW c \in Caller, SuppressCooldown(c)
  PROVE  /\ \E row : Grows(c, row)
         /\ history' = [history EXCEPT ![call[c].fp] = OneMoreSuppressed(@)]
         /\ \A fp \in Fp : Conserved(fp) => Conserved(fp)'
<1> DEFINE f == call[c].fp
           old == rows[f]
           row == Decided(old, call[c].now)
<1>1. /\ f \in Fp /\ old \in Row /\ call[c].now \in Int
      /\ UNCHANGED <<item, pc, spent>>
  BY CriticalType DEF SuppressCooldown
<1>2. /\ ~ShouldSend(old, call[c].now)
      /\ rows' = [rows EXCEPT ![f] = row]
      /\ history' = [history EXCEPT ![f] = OneMoreSuppressed(@)]
  BY DEF SuppressCooldown
<1>3. /\ row \in Row /\ old.stored /\ row.stored
      /\ row.last_notified = old.last_notified
      /\ row.suppressed_count = old.suppressed_count + 1
  <2>1. row \in Row
    BY <1>1, RowOperators
  <2>2. old.stored
    BY <1>2 DEF ShouldSend
  <2> QED BY <1>1, <1>2, <2>1, <2>2 DEF Decided, Row
<1>4. Grows(c, row)
  BY <1>1, <1>2, <1>3 DEF Grows, Row
<1> HIDE DEF row
<1>5. \A fp \in Fp : Conserved(fp) => Conserved(fp)'
  <2> SUFFICES ASSUME NEW fp \in Fp, Conserved(fp) PROVE Conserved(fp)'
    OBVIOUS
  <2>1. Owed(fp)' = Owed(fp) /\ Owed(fp) \in Int
    BY <1>1 DEF Owed, TypeOK, Item, NoItem
  <2>2. history[fp] \in History /\ rows[fp] \in Row
    BY DEF TypeOK
  <2> HIDE DEF f
  <2>3. CASE fp # f
    BY <1>1, <1>2, <2>1, <2>3 DEF Conserved, FaultFree, TypeOK
  <2>4. CASE fp = f
    <3>1. /\ rows'[fp] = row
          /\ history'[fp] = OneMoreSuppressed(history[fp])
      BY <1>1, <1>2, <2>4 DEF TypeOK
    <3>2. /\ history'[fp].reported = history[fp].reported
          /\ history'[fp].suppressed = history[fp].suppressed + 1
      BY <2>2, <3>1 DEF OneMoreSuppressed, History
    <3> QED
      BY <1>1, <1>3, <2>1, <2>2, <2>4, <3>1, <3>2
         DEF Conserved, FaultFree, Row, History, f
  <2> QED BY <2>3, <2>4
<1> QED BY <1>2, <1>4, <1>5

\* A step past decide() leaves the sum of told and counted suppressions, or
\* raises it when the store failed.
LEMMA DecidesConserves ==
  ASSUME TypeOK, NEW c \in Caller, call[c].fp \in Fp,
         NEW row, Decides(c, row), UNCHANGED <<item, history>>,
         pc' = pc \/ (pc = "none" /\ pc' = "idle"), FaultFree' => FaultFree,
         NEW fp \in Fp, Conserved(fp)
  PROVE  Conserved(fp)'
<1>1. /\ Owed(fp)' = Owed(fp) /\ Owed(fp) \in Int
      /\ history[fp] \in History /\ rows[fp] \in Row
  BY DEF Owed, TypeOK, Item, NoItem
<1>2. CASE fp # call[c].fp
  BY <1>1, <1>2 DEF Decides, Conserved, TypeOK
<1>3. CASE fp = call[c].fp
  <2>1. rows'[fp] = row
    BY <1>3 DEF Decides, TypeOK
  <2> QED BY <1>1, <1>3, <2>1 DEF Decides, Conserved, Row, History
<1> QED BY <1>2, <1>3

\* A critical section never loses an in-flight alert, a cooldown clock or a
\* suppression.
LEMMA CallerEffect ==
  ASSUME TypeOK, NEW c \in Caller,
         \/ SuppressInFlight(c) \/ SuppressCooldown(c)
         \/ Submit(c) \/ Drop(c) \/ RenderRaises(c)
  PROVE  /\ call[c].fp \in Fp
         /\ \E row : Grows(c, row)
         /\ \/ history' = history
            \/ history' = [history EXCEPT ![call[c].fp] = OneMoreSuppressed(@)]
         /\ UNCHANGED <<clock, item, sentAt>>
         /\ pc' = pc \/ (pc = "none" /\ pc' = "idle")
         /\ call' = [call EXCEPT ![c] = NoCall]
         /\ \A fp \in Fp : Conserved(fp) => Conserved(fp)'
<1>1. \A row : Decides(c, row) => Grows(c, row)
  BY DEF Decides, Grows
<1>2. /\ call[c].fp \in Fp
      /\ UNCHANGED <<clock, item, sentAt>>
      /\ call' = [call EXCEPT ![c] = NoCall]
  BY CriticalType
     DEF SuppressInFlight, SuppressCooldown, Submit, Drop, RenderRaises, Critical
<1>3. CASE SuppressInFlight(c)
  BY <1>2, <1>3, SuppressInFlightEffect DEF SuppressInFlight
<1>4. CASE SuppressCooldown(c)
  BY <1>2, <1>4, SuppressCooldownEffect DEF SuppressCooldown
<1>5. CASE Submit(c)
  <2>1. PICK row : Decides(c, row)
    BY <1>5, SubmitEffect
  <2>2. history' = history /\ (pc' = pc \/ (pc = "none" /\ pc' = "idle"))
    BY <1>5 DEF Submit
  <2>3. FaultFree' => FaultFree
    <3>1. \A a, b, d : Spend(Cost(a) + Cost(b) + Cost(d)) =>
                         (FaultFree' => FaultFree)
      BY CostType DEF FaultFree, Spend, TypeOK
    <3> QED BY <1>5, <3>1 DEF Submit
  <2>4. \A fp \in Fp : Conserved(fp) => Conserved(fp)'
    BY <1>2, <2>1, <2>2, <2>3, DecidesConserves
  <2> QED BY <1>1, <1>2, <2>1, <2>2, <2>4
<1>6. CASE Drop(c)
  <2>1. PICK row : Decides(c, row)
    BY <1>6, DropEffect
  <2>2. history' = history /\ pc' = pc /\ (FaultFree' => FaultFree)
    BY <1>6, DropEffect DEF Drop
  <2>3. \A fp \in Fp : Conserved(fp) => Conserved(fp)'
    BY <1>2, <2>1, <2>2, DecidesConserves
  <2> QED BY <1>1, <1>2, <2>1, <2>2, <2>3
<1>7. CASE RenderRaises(c)
  <2>1. PICK row : Decides(c, row)
    BY <1>7, RenderRaisesEffect
  <2>2. history' = history /\ pc' = pc /\ (FaultFree' => FaultFree)
    BY <1>7, RenderRaisesEffect DEF RenderRaises
  <2>3. \A fp \in Fp : Conserved(fp) => Conserved(fp)'
    BY <1>2, <2>1, <2>2, DecidesConserves
  <2> QED BY <1>1, <1>2, <2>1, <2>2, <2>3
<1> QED BY <1>3, <1>4, <1>5, <1>6, <1>7

\* The alerts on their way before a critical section are as good after it.
LEMMA CallerKeeps ==
  ASSUME Inv, NEW c \in Caller,
         \/ SuppressInFlight(c) \/ SuppressCooldown(c)
         \/ Submit(c) \/ Drop(c) \/ RenderRaises(c)
  PROVE  /\ \A m \in Item : Covered(m) => Covered(m)'
         /\ \A m \in Item : StillDue(m) => StillDue(m)'
         /\ \A fp \in Fp : Conserved(fp)' /\ Notified(fp)'
         /\ Taken' = Taken /\ Sending' = Sending
         /\ pc' = "sent" => history'[item'.fp].at = sentAt'
         /\ \A fp \in Fp : Known(fp)'
         /\ \A d \in Caller : call'[d].now <= clock'
<1> DEFINE f == call[c].fp
<1>1. TypeOK
  BY DEF Inv
<1>2. PICK row : Grows(c, row)
  BY <1>1, CallerEffect
<1>3. /\ f \in Fp
      /\ \/ history' = history
         \/ history' = [history EXCEPT ![f] = OneMoreSuppressed(@)]
      /\ UNCHANGED <<clock, item, sentAt>>
      /\ pc' = pc \/ (pc = "none" /\ pc' = "idle")
      /\ call' = [call EXCEPT ![c] = NoCall]
      /\ \A fp \in Fp : Conserved(fp) => Conserved(fp)'
  BY <1>1, CallerEffect
<1> HIDE DEF f
<1>4. \A fp \in Fp : /\ history'[fp].at = history[fp].at
                     /\ history'[fp].recorded = history[fp].recorded
  <2> TAKE fp \in Fp
  <2>1. history[fp] \in History
    BY <1>1 DEF TypeOK
  <2>2. history'[fp] = history[fp] \/ history'[fp] = OneMoreSuppressed(history[fp])
    BY <1>1, <1>3 DEF TypeOK
  <2> QED BY <2>1, <2>2 DEF OneMoreSuppressed, History
<1>5. \A fp \in Fp : /\ rows[fp].stored => rows'[fp].stored
                     /\ rows'[fp].last_notified = rows[fp].last_notified
                     /\ rows'[fp].suppressed_count >= rows[fp].suppressed_count
                     /\ rows[fp].suppressed_count \in Nat
                     /\ rows'[fp].suppressed_count \in Nat
  <2> TAKE fp \in Fp
  <2>1. rows[fp] \in Row
    BY <1>1 DEF TypeOK
  <2>2. CASE fp # f
    BY <1>1, <1>2, <2>1, <2>2 DEF Grows, TypeOK, Row, f
  <2>3. CASE fp = f
    <3>1. rows'[fp] = row
      BY <1>1, <1>2, <1>3, <2>3 DEF Grows, TypeOK, f
    <3> QED BY <1>2, <2>1, <2>3, <3>1 DEF Grows, Row, f
  <2> QED BY <2>2, <2>3
<1>6. \A m \in Item : Covered(m) => Covered(m)'
  BY <1>5 DEF Covered, Item
<1>7. \A m \in Item : StillDue(m) => StillDue(m)'
  BY <1>3, <1>4 DEF StillDue, Item
<1>8. \A fp \in Fp : Conserved(fp)' /\ Notified(fp)'
  BY <1>3, <1>4, <1>5 DEF Inv, Notified
<1>9. Taken' = Taken /\ Sending' = Sending
  BY <1>3 DEF Taken, Sending
<1>10. pc' = "sent" => history'[item'.fp].at = sentAt'
  <2> SUFFICES ASSUME pc' = "sent" PROVE history'[item'.fp].at = sentAt'
    OBVIOUS
  <2>1. pc = "sent" /\ item' = item /\ sentAt' = sentAt
    BY <1>3
  <2>2. item.fp \in Fp
    BY <1>1, <2>1, ItemHeld
  <2> QED BY <1>4, <2>1, <2>2 DEF Inv
<1>11. \A fp \in Fp : Known(fp)'
  BY <1>3, <1>4 DEF Inv, Known
<1>12. \A d \in Caller : call'[d].now <= clock'
  BY <1>1, <1>3 DEF Inv, NoCall, TypeOK
<1> QED BY <1>6, <1>7, <1>8, <1>9, <1>10, <1>11, <1>12

LEMMA PendingItems ==
  ASSUME TypeOK
  PROVE  /\ Waiting \subseteq Item
         /\ Taken \subseteq Item
         /\ Sending \subseteq Taken
<1>1. Waiting \subseteq Item
  BY DEF Waiting, TypeOK
<1>2. Taken \subseteq Item
  BY ItemHeld DEF Taken
<1> QED BY <1>1, <1>2 DEF Taken, Sending

LEMMA SubmitKeepsInv ==
  ASSUME Inv, NEW c \in Caller, Submit(c), TypeOK', InFlightExact'
  PROVE  Inv'
<1> DEFINE f == call[c].fp
<1>1. TypeOK /\ InFlightExact
  BY DEF Inv
<1>2. PICK it \in Item, row \in Row :
         /\ it.fp = f
         /\ queue' = Append(queue, it)
         /\ Decides(c, row)
         /\ row.suppressed_count >= it.count
         /\ ~it.blind /\ ~it.reopened =>
              ~rows[f].stored \/ CooldownExpired(rows[f], call[c].now)
  BY <1>1, SubmitEffect
<1>3. f \in Fp /\ f \notin inFlight /\ history' = history /\ clock' = clock
  BY <1>1, CriticalType DEF Submit
<1> HIDE DEF f
<1>4. Waiting' = Waiting \union {it}
  <2>1. queue \in Seq(Item)
    BY <1>1 DEF TypeOK
  <2>2. {queue'[i] : i \in 1..Len(queue')}
          = {queue[i] : i \in 1..Len(queue)} \union {it}
    <3>1. /\ Len(queue') = Len(queue) + 1 /\ Len(queue) \in Nat
          /\ \A i \in 1..Len(queue) : queue'[i] = queue[i]
          /\ queue'[Len(queue) + 1] = it
      BY <1>2, <2>1
    <3>2. \A i \in 1..Len(queue') : i \in 1..Len(queue) \/ i = Len(queue) + 1
      BY <3>1
    <3>3. \A i \in 1..Len(queue) : i \in 1..Len(queue')
      BY <3>1
    <3>4. Len(queue) + 1 \in 1..Len(queue')
      BY <3>1
    <3> QED BY <3>1, <3>2, <3>3, <3>4
  <2> QED BY <2>2 DEF Waiting
<1>5. Covered(it)'
  <2>1. rows'[f] = row
    BY <1>1, <1>2, <1>3 DEF Decides, TypeOK, f
  <2> QED BY <1>2, <2>1 DEF Covered, Item, Row
<1>6. StillDue(it)'
  <2> SUFFICES ASSUME ~it.reopened, ~it.blind, history[f].recorded
               PROVE  clock - history[f].at >= Cooldown
    BY <1>2, <1>3 DEF StillDue
  <2>1. ~(pc = "sent" /\ item.fp = f)
    BY <1>1, <1>3, ReporterAssumption DEF InFlightExact, Held
  <2>2. /\ rows[f].stored /\ rows[f].last_notified = history[f].at
        /\ history[f].at # Never
    BY <1>3, <2>1 DEF Inv, Notified, Known
  <2>3. call[c].now - rows[f].last_notified >= Cooldown
    BY <1>2, <2>2 DEF CooldownExpired
  <2>4. /\ call[c].now <= clock /\ call[c].now \in Nat /\ clock \in Nat
        /\ history[f].at \in Int
    BY <1>1, <1>3, CriticalType DEF Inv, Submit, TypeOK, History
  <2> QED BY <2>2, <2>3, <2>4, StoreAssumption
<1>7. /\ \A m \in Waiting' \union Taken' : Covered(m)'
      /\ \A m \in Waiting' \union Sending' : StillDue(m)'
  BY <1>1, <1>4, <1>5, <1>6, CallerKeeps, PendingItems DEF Inv
<1> QED BY <1>7, CallerKeeps DEF Inv

LEMMA OtherCallersKeepInv ==
  ASSUME Inv, NEW c \in Caller, TypeOK', InFlightExact',
         \/ SuppressInFlight(c) \/ SuppressCooldown(c)
         \/ Drop(c) \/ RenderRaises(c)
  PROVE  Inv'
<1>1. TypeOK /\ queue' = queue
  BY DEF Inv, SuppressInFlight, SuppressCooldown, Drop, RenderRaises
<1>2. Waiting' = Waiting
  BY <1>1 DEF Waiting
<1>3. /\ \A m \in Waiting' \union Taken' : Covered(m)'
      /\ \A m \in Waiting' \union Sending' : StillDue(m)'
  BY <1>1, <1>2, CallerKeeps, PendingItems DEF Inv
<1> QED BY <1>3, CallerKeeps DEF Inv

LEMMA WorkerGetKeepsInv ==
  ASSUME Inv, WorkerGet, TypeOK', InFlightExact'
  PROVE  Inv'
<1>1. /\ TypeOK /\ queue # <<>> /\ item' = Head(queue) /\ queue' = Tail(queue)
      /\ pc = "idle" /\ pc' = "sending"
      /\ UNCHANGED <<clock, rows, history, spent, call>>
  BY DEF Inv, WorkerGet
<1>2. Waiting' \subseteq Waiting /\ item' \in Waiting
  <2>1. /\ Len(queue') = Len(queue) - 1 /\ Len(queue) \in Nat /\ Len(queue) >= 1
        /\ \A i \in 1..Len(queue') : queue'[i] = queue[i + 1]
        /\ item' = queue[1]
    BY <1>1 DEF TypeOK
  <2>2. /\ \A i \in 1..Len(queue') : i + 1 \in 1..Len(queue)
        /\ 1 \in 1..Len(queue)
    BY <2>1
  <2> QED BY <2>1, <2>2 DEF Waiting
<1>3. Taken' = {item'} /\ Sending' = {item'}
  BY <1>1 DEF Taken, Sending
<1>4. /\ \A m \in Waiting' \union Taken' : Covered(m)'
      /\ \A m \in Waiting' \union Sending' : StillDue(m)'
  BY <1>1, <1>2, <1>3 DEF Inv, Covered, StillDue
<1>5. \A fp \in Fp : Conserved(fp)' /\ Notified(fp)' /\ Known(fp)'
  BY <1>1 DEF Inv, Conserved, Owed, FaultFree, Notified, Known
<1> QED BY <1>1, <1>4, <1>5 DEF Inv

\* No queued alert is for the fingerprint in the worker's hands.
LEMMA OthersWait ==
  ASSUME TypeOK, InFlightExact, pc \in {"sending", "sent", "failed"}
  PROVE  \A m \in Waiting : m \in Item /\ m.fp \in Fp /\ m.fp # item.fp
<1>1. item.fp # NoFp
  BY ItemHeld, ReporterAssumption
<1>2. \A m \in Waiting : m \in Item /\ m.fp \in Fp
  BY PendingItems DEF Item
<1> QED BY <1>1, <1>2 DEF InFlightExact, Queued, Held, Waiting

LEMMA SendDeliversKeepsInv ==
  ASSUME Inv, SendDelivers, TypeOK', InFlightExact'
  PROVE  Inv'
<1>0. PICK f \in Fp : f = item.fp
  BY ItemHeld DEF Inv, SendDelivers
<1> DEFINE h == history[f]
<1>1. /\ TypeOK /\ InFlightExact /\ pc = "sending" /\ pc' = "sent"
      /\ sentAt' = clock /\ history' = [history EXCEPT ![f] = Delivered(@)]
      /\ UNCHANGED <<clock, rows, queue, item, call, spent>>
  BY <1>0 DEF Inv, SendDelivers
<1>2. /\ f \in Fp /\ item.count \in Nat /\ h \in History
      /\ rows[f] \in Row /\ clock \in Int
  BY <1>0, <1>1, ItemHeld DEF TypeOK
<1>3. /\ history'[f].suppressed = h.suppressed
      /\ history'[f].reported = h.reported + item.count
      /\ history'[f].at = clock
      /\ history'[f].recorded
  <2>1. history'[f] = Delivered(h)
    BY <1>1, <1>2 DEF TypeOK
  <2> QED BY <1>2, <2>1 DEF Delivered, History
<1>4. \A fp \in Fp \ {f} : history'[fp] = history[fp]
  BY <1>1 DEF TypeOK
<1>5. Waiting' = Waiting /\ Taken' = Taken /\ Sending' = {}
  BY <1>1 DEF Waiting, Taken, Sending
<1>6. \A m \in Waiting' \union Taken' : Covered(m)'
  BY <1>1, <1>5 DEF Inv, Covered
<1>7. \A m \in Waiting' \union Sending' : StillDue(m)'
  BY <1>0, <1>1, <1>4, <1>5, OthersWait DEF Inv, StillDue
<1>8. \A fp \in Fp \ {f} : Conserved(fp)' /\ Notified(fp)' /\ Known(fp)'
  BY <1>0, <1>1, <1>4 DEF Inv, Conserved, Owed, FaultFree, Notified, Known
<1>9. Conserved(f)'
  <2>1. Owed(f) = 0 /\ Owed(f)' = item.count
    BY <1>0, <1>1 DEF Owed
  <2> QED
    BY <1>1, <1>2, <1>3, <2>1 DEF Inv, Conserved, FaultFree, Row, History
<1>10. Notified(f)' /\ Known(f)'
  <2>1. rows[f].last_notified <= h.at /\ h.at <= clock
    BY DEF Inv, Notified, Known
  <2>2. rows[f].last_notified <= clock /\ clock # Never /\ Never <= clock
    BY <1>1, <1>2, <2>1, SMTT(30) DEF Row, History, Never, TypeOK
  <2> QED BY <1>0, <1>1, <1>2, <1>3, <2>2 DEF Notified, Known
<1> QED BY <1>1, <1>3, <1>6, <1>7, <1>8, <1>9, <1>10, <1>0 DEF Inv

LEMMA SendFailsKeepsInv ==
  ASSUME Inv, SendFails, TypeOK', InFlightExact'
  PROVE  Inv'
<1>1. /\ TypeOK /\ pc = "sending" /\ pc' = "failed"
      /\ history' = [history EXCEPT ![item.fp] = Failed(@)]
      /\ UNCHANGED <<clock, rows, queue, item, call, spent>>
  BY DEF Inv, SendFails
<1>2. \A fp \in Fp : /\ history'[fp].suppressed = history[fp].suppressed
                     /\ history'[fp].reported = history[fp].reported
                     /\ history'[fp].at = history[fp].at
                     /\ history'[fp].recorded = history[fp].recorded
  <2> TAKE fp \in Fp
  <2>1. history[fp] \in History
    BY <1>1 DEF TypeOK
  <2>2. history'[fp] = history[fp] \/ history'[fp] = Failed(history[fp])
    BY <1>1 DEF TypeOK
  <2> QED BY <2>1, <2>2 DEF Failed, History
<1>3. Waiting' = Waiting /\ Taken' = Taken /\ Sending' = {}
  BY <1>1 DEF Waiting, Taken, Sending
<1>4. \A m \in Waiting' \union Taken' : Covered(m)'
  BY <1>1, <1>3 DEF Inv, Covered
<1>5. \A m \in Waiting' \union Sending' : StillDue(m)'
  BY <1>1, <1>2, <1>3, PendingItems DEF Inv, StillDue, Item
<1>6. \A fp \in Fp : Conserved(fp)' /\ Notified(fp)' /\ Known(fp)'
  BY <1>1, <1>2 DEF Inv, Conserved, Owed, FaultFree, Notified, Known
<1> QED BY <1>1, <1>4, <1>5, <1>6 DEF Inv

LEMMA RecordFailureKeepsInv ==
  ASSUME Inv, RecordFailure, TypeOK', InFlightExact'
  PROVE  Inv'
<1>1. PICK ok \in Attempts("store") : WriteBack(ok)
  BY DEF RecordFailure
<1>2. /\ TypeOK /\ pc = "failed" /\ pc' = "idle"
      /\ UNCHANGED <<clock, rows, history, queue, call>>
  BY <1>1 DEF Inv, RecordFailure, WriteBack
<1>3. FaultFree' => FaultFree
  BY <1>1, <1>2, CostType DEF FaultFree, WriteBack, Spend, TypeOK
<1>4. Waiting' = Waiting /\ Taken' = {} /\ Sending' = {}
  BY <1>2 DEF Waiting, Taken, Sending
<1>5. /\ \A m \in Waiting' \union Taken' : Covered(m)'
      /\ \A m \in Waiting' \union Sending' : StillDue(m)'
  BY <1>2, <1>4 DEF Inv, Covered, StillDue
<1>6. \A fp \in Fp : Conserved(fp)' /\ Notified(fp)' /\ Known(fp)'
  BY <1>2, <1>3 DEF Inv, Conserved, Owed, Notified, Known
<1> QED BY <1>2, <1>5, <1>6 DEF Inv

LEMMA RecordSentKeepsInv ==
  ASSUME Inv, RecordSent, TypeOK', InFlightExact'
  PROVE  Inv'
<1>0. PICK f \in Fp : f = item.fp
  BY ItemHeld DEF Inv, RecordSent
<1> DEFINE old == rows[f]
           h == history[f]
<1>1. PICK ok \in Attempts("store") :
        /\ WriteBack(ok)
        /\ rows' = IF ok
                   THEN [rows EXCEPT ![f] = Sent(@, sentAt, item.count)]
                   ELSE rows
        /\ history' = [history EXCEPT ![f] = Recorded(@, ok /\ old.stored)]
  BY <1>0 DEF RecordSent
<1>2. /\ TypeOK /\ InFlightExact /\ pc = "sent" /\ pc' = "idle"
      /\ UNCHANGED <<clock, queue, call>>
  BY <1>1 DEF Inv, RecordSent, WriteBack
<1>3. /\ f \in Fp /\ item.count \in Nat /\ h \in History /\ old \in Row
      /\ sentAt \in Int /\ h.at = sentAt /\ item.count <= old.suppressed_count
  <2>1. item \in Taken
    BY <1>2 DEF Taken
  <2> QED BY <1>0, <1>2, <2>1, ItemHeld DEF Inv, Covered, TypeOK, Never
<1>4. ok \in BOOLEAN /\ (FaultFree' => FaultFree /\ ok)
  <2>1. ok \in BOOLEAN /\ Spend(Cost(ok))
    BY <1>1 DEF Attempts, WriteBack
  <2> QED BY <1>2, <2>1 DEF FaultFree, Spend, Cost, TypeOK
<1>5. /\ history'[f].suppressed = h.suppressed
      /\ history'[f].reported = h.reported
      /\ history'[f].at = h.at
      /\ history'[f].recorded = (ok /\ old.stored)
  <2>1. history'[f] = Recorded(h, ok /\ old.stored)
    BY <1>1, <1>2, <1>3 DEF TypeOK
  <2> QED BY <1>3, <2>1 DEF Recorded, History
<1>6. /\ rows'[f].stored = old.stored
      /\ rows'[f].last_notified = IF ok /\ old.stored THEN sentAt
                                                      ELSE old.last_notified
      /\ rows'[f].suppressed_count =
           IF ok THEN old.suppressed_count - item.count
                 ELSE old.suppressed_count
  <2>1. rows'[f] = IF ok THEN Sent(old, sentAt, item.count) ELSE old
    BY <1>1, <1>2, <1>3, <1>4 DEF TypeOK
  <2>2. CASE ~old.stored
    <3>1. old.suppressed_count = 0
      BY <1>2, <1>3, <2>2 DEF TypeOK, NoRow
    <3> QED BY <1>3, <2>1, <2>2, <3>1 DEF Sent, Row
  <2>3. CASE old.stored
    <3>1. /\ Sent(old, sentAt, item.count).stored = old.stored
          /\ Sent(old, sentAt, item.count).last_notified = sentAt
          /\ Sent(old, sentAt, item.count).suppressed_count =
               old.suppressed_count - item.count
      BY <1>3, <2>3 DEF Sent, Row
    <3> QED BY <1>4, <2>1, <2>3, <3>1
  <2> QED BY <1>3, <2>2, <2>3 DEF Row
<1>7. \A fp \in Fp \ {f} : history'[fp] = history[fp] /\ rows'[fp] = rows[fp]
  BY <1>1, <1>2 DEF TypeOK
<1>8. Waiting' = Waiting /\ Taken' = {} /\ Sending' = {}
  BY <1>2 DEF Waiting, Taken, Sending
<1>9. /\ \A m \in Waiting' \union Taken' : Covered(m)'
      /\ \A m \in Waiting' \union Sending' : StillDue(m)'
  BY <1>0, <1>2, <1>7, <1>8, OthersWait DEF Inv, Covered, StillDue
<1>10. \A fp \in Fp \ {f} : Conserved(fp)' /\ Notified(fp)' /\ Known(fp)'
  BY <1>0, <1>2, <1>4, <1>7 DEF Inv, Conserved, Owed, Notified, Known
<1>11. Conserved(f)'
  <2>1. Owed(f) = item.count /\ Owed(f)' = 0
    BY <1>0, <1>2 DEF Owed
  <2> QED BY <1>3, <1>4, <1>5, <1>6, <2>1 DEF Inv, Conserved, Row, History
<1>12. Notified(f)'
  <2>1. old.last_notified <= h.at
    BY <1>3 DEF Inv, Notified
  <2> QED BY <1>3, <1>4, <1>5, <1>6, <2>1 DEF Notified, Row
<1>13. Known(f)'
  BY <1>2, <1>3, <1>5 DEF Inv, Known, TypeOK, Never
<1> QED BY <1>2, <1>9, <1>10, <1>11, <1>12, <1>13 DEF Inv

LEMMA SetResolvedKeepsInv ==
  ASSUME Inv, NEW f \in Fp, NEW resolved \in BOOLEAN, SetResolved(f, resolved),
         TypeOK', InFlightExact'
  PROVE  Inv'
<1>1. /\ TypeOK
      /\ rows' = [rows EXCEPT ![f] = Resolve(@, resolved)]
      /\ UNCHANGED <<clock, inFlight, queue, pc, item, sentAt, call, history,
                     spent>>
  BY DEF Inv, SetResolved, memory
<1>2. \A fp \in Fp : /\ rows'[fp].stored = rows[fp].stored
                     /\ rows'[fp].last_notified = rows[fp].last_notified
                     /\ rows'[fp].suppressed_count = rows[fp].suppressed_count
  <2> TAKE fp \in Fp
  <2>1. rows[fp] \in Row
    BY <1>1 DEF TypeOK
  <2>2. rows'[fp] = rows[fp] \/ rows'[fp] = Resolve(rows[fp], resolved)
    BY <1>1 DEF TypeOK
  <2> QED BY <2>1, <2>2 DEF Resolve, Row
<1>3. Waiting' = Waiting /\ Taken' = Taken /\ Sending' = Sending
  BY <1>1 DEF Waiting, Taken, Sending
<1>4. /\ \A m \in Waiting' \union Taken' : Covered(m)'
      /\ \A m \in Waiting' \union Sending' : StillDue(m)'
  BY <1>1, <1>2, <1>3, PendingItems DEF Inv, Covered, StillDue, Item
<1>5. \A fp \in Fp : Conserved(fp)' /\ Notified(fp)' /\ Known(fp)'
  BY <1>1, <1>2 DEF Inv, Conserved, Owed, FaultFree, Notified, Known
<1> QED BY <1>1, <1>4, <1>5 DEF Inv

LEMMA TickKeepsInv ==
  ASSUME Inv, Tick, TypeOK', InFlightExact'
  PROVE  Inv'
<1>1. /\ TypeOK /\ clock' = clock + 1 /\ clock \in Nat
      /\ UNCHANGED <<rows, inFlight, queue, pc, item, sentAt, call, history,
                     spent>>
  BY DEF Inv, Tick, memory, TypeOK
<1>2. Waiting' = Waiting /\ Taken' = Taken /\ Sending' = Sending
  BY <1>1 DEF Waiting, Taken, Sending
<1>3. \A m \in Waiting' \union Taken' : Covered(m)'
  BY <1>1, <1>2 DEF Inv, Covered
<1>4. \A m \in Waiting' \union Sending' : StillDue(m)'
  <2> SUFFICES ASSUME NEW m \in Waiting \union Sending, StillDue(m)
               PROVE  StillDue(m)'
    BY <1>2 DEF Inv
  <2>1. history[m.fp].at \in Int
    BY <1>1, PendingItems DEF Item, TypeOK, History
  <2> QED BY <1>1, <2>1, StoreAssumption DEF StillDue
<1>5. \A fp \in Fp : Conserved(fp)' /\ Notified(fp)'
  BY <1>1 DEF Inv, Conserved, Owed, FaultFree, Notified
<1>6. \A fp \in Fp : Known(fp)'
  BY <1>1 DEF Inv, Known, TypeOK, History
<1>7. \A c \in Caller : call'[c].now <= clock'
  BY <1>1 DEF Inv, TypeOK, Call, NoCall
<1> QED BY <1>1, <1>3, <1>4, <1>5, <1>6, <1>7 DEF Inv

LEMMA RestartKeepsInv ==
  ASSUME Inv, Restart, TypeOK', InFlightExact'
  PROVE  Inv'
<1>1. /\ TypeOK /\ clock' = clock /\ pc' = "none" /\ clock \in Nat
      /\ ~FaultFree' /\ Waiting' = {} /\ Taken' = {} /\ Sending' = {}
  BY DEF Inv, Restart, TypeOK, FaultFree, Waiting, Taken, Sending
<1>2. \A c \in Caller : call'[c].now <= clock'
  BY <1>1 DEF Restart, NoCall
<1>3. \A fp \in Fp : Conserved(fp)' /\ Notified(fp)' /\ Known(fp)'
  <2> TAKE fp \in Fp
  <2>1. /\ rows[fp] \in Row /\ history[fp] \in History
        /\ Owed(fp)' = 0 /\ Owed(fp) \in Nat
    BY <1>1 DEF TypeOK, Owed, Item, NoItem
  <2>2. CASE Expired(rows[fp], clock)
    <3>1. rows'[fp] = NoRow /\ history'[fp] = Forgotten(history[fp])
      BY <2>2 DEF Restart, Pruned
    <3>2. /\ history'[fp].suppressed = 0 /\ history'[fp].reported = 0
          /\ history'[fp].at = history[fp].at /\ ~history'[fp].recorded
      BY <2>1, <3>1 DEF Forgotten, History
    <3>3. history[fp].at >= Never /\ history[fp].at <= clock
      BY <1>1 DEF Inv, Known
    <3> QED
      BY <1>1, <2>1, <3>1, <3>2, <3>3 DEF Conserved, Notified, Known, NoRow, Never
  <2>3. CASE ~Expired(rows[fp], clock)
    <3>1. /\ rows'[fp] = rows[fp]
          /\ history'[fp] = IF pc = "sent" /\ item.fp = fp
                            THEN Recorded(history[fp], FALSE) ELSE history[fp]
      BY <2>3 DEF Restart, Pruned
    <3>2. /\ history'[fp].suppressed = history[fp].suppressed
          /\ history'[fp].reported = history[fp].reported
          /\ history'[fp].at = history[fp].at
          /\ history'[fp].recorded =>
               history[fp].recorded /\ ~(pc = "sent" /\ item.fp = fp)
      BY <2>1, <3>1 DEF Recorded, History
    <3>3. Conserved(fp)'
      <4>1. Conserved(fp)
        BY DEF Inv
      <4>2. history[fp].suppressed + Owed(fp)
              <= history[fp].reported + rows[fp].suppressed_count
        BY <4>1 DEF Conserved
      <4>3. history[fp].suppressed <= history[fp].reported
                                      + rows[fp].suppressed_count
        BY <2>1, <4>2 DEF Row, History
      <4>4. history'[fp].suppressed + Owed(fp)'
              <= history'[fp].reported + rows'[fp].suppressed_count
        <5>1. rows'[fp].suppressed_count = rows[fp].suppressed_count
          BY <3>1
        <5>2. history[fp].suppressed + 0 = history[fp].suppressed
          BY <2>1 DEF History
        <5> QED BY <2>1, <3>2, <4>3, <5>1, <5>2
      <4> QED BY <1>1, <4>4 DEF Conserved
    <3>4. Notified(fp)' /\ Known(fp)'
      BY <1>1, <3>1, <3>2 DEF Inv, Notified, Known
    <3> QED BY <3>3, <3>4
  <2> QED BY <2>2, <2>3
<1> QED BY <1>1, <1>2, <1>3 DEF Inv

LEMMA ReportKeepsInv ==
  ASSUME Inv, NEW c \in Caller, NEW f \in Fp, Report(c, f),
         TypeOK', InFlightExact'
  PROVE  Inv'
<1>1. /\ call' = [call EXCEPT ![c] = [fp |-> f, now |-> clock]]
      /\ UNCHANGED <<clock, rows, inFlight, queue, pc, item, sentAt, history,
                     spent>>
      /\ TypeOK
  BY DEF Inv, Report
<1>2. Waiting' = Waiting /\ Taken' = Taken /\ Sending' = Sending
  BY <1>1 DEF Waiting, Taken, Sending
<1>3. /\ \A m \in Waiting' \union Taken' : Covered(m)'
      /\ \A m \in Waiting' \union Sending' : StillDue(m)'
  BY <1>1, <1>2 DEF Inv, Covered, StillDue
<1>4. \A fp \in Fp : Conserved(fp)' /\ Notified(fp)' /\ Known(fp)'
  BY <1>1 DEF Inv, Conserved, Owed, FaultFree, Notified, Known
<1>5. \A d \in Caller : call'[d].now <= clock'
  BY <1>1 DEF Inv, TypeOK
<1> QED BY <1>1, <1>3, <1>4, <1>5 DEF Inv

LEMMA InvStep == Inv /\ [Next]_vars => Inv'
<1> SUFFICES ASSUME Inv, [Next]_vars PROVE Inv'
  OBVIOUS
<1>1. TypeOK' /\ InFlightExact'
  BY TypeStep, ExactStep DEF Inv
<1>2. ASSUME NEW c \in Caller, NEW fp \in Fp, Report(c, fp) PROVE Inv'
  BY <1>1, <1>2, ReportKeepsInv
<1>3. CASE Occurrence
  BY <1>1, <1>3, SubmitKeepsInv, OtherCallersKeepInv DEF Occurrence
<1>4. CASE WorkerStep
  BY <1>1, <1>4, WorkerGetKeepsInv, SendDeliversKeepsInv, SendFailsKeepsInv,
     RecordSentKeepsInv, RecordFailureKeepsInv DEF WorkerStep
<1>5. ASSUME NEW fp \in Fp, NEW resolved \in BOOLEAN, SetResolved(fp, resolved)
      PROVE  Inv'
  BY <1>1, <1>5, SetResolvedKeepsInv
<1>6. CASE Tick
  BY <1>1, <1>6, TickKeepsInv
<1>7. CASE Restart
  BY <1>1, <1>7, RestartKeepsInv
<1>8. CASE UNCHANGED vars
  BY <1>1, <1>8
     DEF vars, memory, Inv, Waiting, Taken, Sending, Covered, StillDue,
         Conserved, Owed, FaultFree, Notified, Known
<1> QED BY <1>2, <1>3, <1>4, <1>5, <1>6, <1>7, <1>8 DEF Next

\* What holds between any two steps of the callers, the worker, the review page,
\* failures and kills; most theorems below follow from it.
THEOREM Invariance == Spec => []Inv
<1> QED BY InvInit, InvStep, PTL DEF Spec

\* Every suppressed occurrence has been told in a delivered message or is
\* still counted in its row, across failures and kills; without them none is
\* told twice.
THEOREM SuppressionsAreConserved == Spec => []SuppressionsConserved
<1>1. Inv => SuppressionsConserved
  BY DEF Inv, Conserved, SuppressionsConserved
<1> QED BY Invariance, <1>1, PTL

\* last_notified is the time of the last delivered alert the worker has
\* written back, never that of an alert that was only queued or failed.
THEOREM NotifiedIsDelivered == Spec => []NotifiedMeansDelivered
<1>1. Inv => NotifiedMeansDelivered
  BY DEF Inv, Notified, NotifiedMeansDelivered
<1> QED BY Invariance, <1>1, PTL

\* Two alerts for one fingerprint are a cooldown apart, however long the first
\* waited in the queue and however stale the time the second was decided at,
\* unless the fingerprint was resolved in between or the store failed.
THEOREM CooldownIsHonoured == Spec => CooldownHonoured
<1>1. Inv /\ [Next]_vars =>
        [tally'.delivered # tally.delivered =>
           LET h == history[item.fp] IN
           \/ clock - h.at >= Cooldown
           \/ item.reopened \/ item.blind \/ ~h.recorded]_vars
  <2> SUFFICES ASSUME Inv, [Next]_vars, tally'.delivered # tally.delivered
               PROVE  LET h == history[item.fp] IN
                      \/ clock - h.at >= Cooldown
                      \/ item.reopened \/ item.blind \/ ~h.recorded
    OBVIOUS
  <2>1. tally \in [accepted : Nat, delivered : Nat]
    BY DEF Inv, TypeOK
  <2>2. ASSUME NEW c \in Caller, Critical(c) PROVE FALSE
    BY <2>1, <2>2 DEF Critical
  <2>3. SendDelivers
    <3>1. \/ SendDelivers \/ UNCHANGED tally
          \/ \E c \in Caller : Critical(c)
      BY DEF Next, Occurrence, WorkerStep, Report, SuppressInFlight,
             SuppressCooldown, Submit, Drop, RenderRaises, WorkerGet, SendFails,
             RecordSent, RecordFailure, WriteBack, SetResolved, Tick, Restart,
             vars
    <3> QED BY <2>2, <3>1
  <2>4. item \in Sending
    BY <2>3 DEF SendDelivers, Sending
  <2> QED BY <2>4 DEF Inv, StillDue
<1> QED BY Invariance, <1>1, PTL DEF Spec, CooldownHonoured

\* What the two theorems above rest on, for alerts still on their way: the row
\* keeps counting all that the message will report, and the alert stays due
\* until it is delivered.
THEOREM PendingAlertsHold == Spec => []PendingAlerts
<1>1. Inv => PendingAlerts
  <2> SUFFICES ASSUME Inv, NEW m \in Pending, m.fp \in Fp
               PROVE  /\ Covered(m)
                      /\ \/ m = item /\ pc \in {"sent", "failed"}
                         \/ StillDue(m)
    BY DEF PendingAlerts, Covered, StillDue
  <2>1. CASE m \in Waiting
    BY <2>1 DEF Inv
  <2>2. CASE m = item /\ m \notin Waiting
    <3>1. item # NoItem
      BY <2>2, ReporterAssumption DEF NoItem
    <3>2. pc \in {"sending", "sent", "failed"}
      BY <3>1 DEF Inv, TypeOK
    <3>3. item \in Taken /\ (pc = "sending" => item \in Sending)
      BY <3>2 DEF Taken, Sending
    <3> QED BY <2>2, <3>2, <3>3 DEF Inv
  <2> QED BY <2>1, <2>2 DEF Pending, Waiting
<1> QED BY Invariance, <1>1, PTL

-----------------------------------------------------------------------------
(* Without failures: every occurrence is accounted for.                    *)

\* A run that has spent nothing on faults and kills had spent nothing before.
LEMMA FaultFreeBefore ==
  ASSUME TypeOK, [Next]_vars, FaultFree'
  PROVE  FaultFree
<1>1. spent'.faults >= spent.faults /\ spent'.kills >= spent.kills
  <2>1. ASSUME NEW n \in Nat, Spend(n)
        PROVE  spent'.faults >= spent.faults /\ spent'.kills >= spent.kills
    BY <2>1 DEF Spend, TypeOK
  <2>2. /\ \A a : Cost(a) \in Nat /\ Cost(a) + 1 \in Nat
        /\ \A a, b, d : Cost(a) + Cost(b) + Cost(d) \in Nat
    BY DEF Cost
  <2>3. (\E n \in Nat : Spend(n)) \/ UNCHANGED spent
          \/ spent' = [spent EXCEPT !.kills = @ + 1]
    BY <2>2, ZenonT(30)
       DEF Next, Occurrence, WorkerStep, Report, SuppressInFlight,
       SuppressCooldown, Submit, Drop, RenderRaises, WorkerGet, SendDelivers,
       SendFails, RecordSent, RecordFailure, WriteBack, SetResolved, Tick,
       Restart, vars
  <2> QED BY <2>1, <2>3 DEF TypeOK
<1> QED BY <1>1 DEF FaultFree, TypeOK

\* In a step that costs nothing the store and the thread did not fail.
LEMMA FaultFreeSpend ==
  ASSUME TypeOK, FaultFree'
  PROVE  /\ \A ok \in BOOLEAN : Spend(Cost(ok)) => ok
         /\ \A ok \in BOOLEAN : ~Spend(Cost(ok) + 1)
         /\ \A a, b, d \in BOOLEAN :
              Spend(Cost(a) + Cost(b) + Cost(d)) => a /\ b /\ d
BY DEF FaultFree, Spend, Cost, TypeOK

\* Occurrences that left the callers and are neither delivered nor counted.
Balance == tally.delivered + Undelivered + meta.dropped
             + meta.transport_failures + meta.suppressed

\* One more in the last summand; one moved from the second to the fourth.
LEMMA Sums ==
  ASSUME NEW a \in Int, NEW b \in Int, NEW c \in Int, NEW d \in Int,
         NEW e \in Int
  PROVE  /\ a + b + c + d + (e + 1) = (a + b + c + d + e) + 1
         /\ a + (b - 1) + c + (d + 1) + e = a + b + c + d + e
OBVIOUS

LEMMA CounterEffect ==
  ASSUME NEW m \in Counters
  PROVE  /\ BumpCounter(m, "dropped").dropped = m.dropped + 1
         /\ BumpCounter(m, "dropped").transport_failures = m.transport_failures
         /\ BumpCounter(m, "dropped").suppressed = m.suppressed
         /\ BumpCounter(m, "transport_failures").dropped = m.dropped
         /\ BumpCounter(m, "transport_failures").transport_failures
              = m.transport_failures + 1
         /\ BumpCounter(m, "transport_failures").suppressed = m.suppressed
         /\ BumpCounter(m, "suppressed").dropped = m.dropped
         /\ BumpCounter(m, "suppressed").transport_failures
              = m.transport_failures
         /\ BumpCounter(m, "suppressed").suppressed = m.suppressed + 1
BY DEF BumpCounter, Counters

LEMMA AccountedStep ==
  TypeOK /\ EveryOccurrenceAccounted /\ [Next]_vars => EveryOccurrenceAccounted'
<1> SUFFICES ASSUME TypeOK, EveryOccurrenceAccounted, [Next]_vars, FaultFree'
             PROVE  tally'.accepted = Balance'
  BY DEF EveryOccurrenceAccounted, Balance
<1>1. tally.accepted = Balance
  BY FaultFreeBefore DEF EveryOccurrenceAccounted, Balance
<1>2. /\ tally \in [accepted : Nat, delivered : Nat]
      /\ meta \in Counters /\ queue \in Seq(Item) /\ Len(queue) \in Nat
      /\ meta.dropped \in Nat /\ meta.transport_failures \in Nat
      /\ meta.suppressed \in Nat
      /\ tally.accepted \in Nat /\ tally.delivered \in Nat
  BY DEF TypeOK, Counters
<1>3. \A c \in Caller : Critical(c) =>
                        /\ tally'.accepted = tally.accepted + 1
                        /\ tally'.delivered = tally.delivered
  BY <1>2 DEF Critical
<1>4. ASSUME NEW c \in Caller, SuppressInFlight(c) \/ SuppressCooldown(c)
      PROVE  tally'.accepted = Balance'
  <2>1. /\ Critical(c) /\ UNCHANGED <<queue, pc>>
        /\ meta' = BumpCounter(meta, "suppressed")
    <3>1. CASE SuppressCooldown(c)
      BY <3>1 DEF SuppressCooldown
    <3>2. CASE SuppressInFlight(c)
      <4>1. PICK ok \in BOOLEAN :
              /\ Spend(Cost(ok))
              /\ meta' = IF ok THEN BumpCounter(meta, "suppressed") ELSE meta
        BY <3>2 DEF SuppressInFlight, Attempts
      <4>2. ok
        BY <4>1, FaultFreeSpend
      <4> QED BY <3>2, <4>1, <4>2 DEF SuppressInFlight
    <3> QED BY <1>4, <3>1, <3>2
  <2>2. /\ meta'.dropped = meta.dropped
        /\ meta'.transport_failures = meta.transport_failures
        /\ meta'.suppressed = meta.suppressed + 1
    BY <1>2, <2>1, CounterEffect
  <2>3. Undelivered' = Undelivered /\ Undelivered \in Nat
    BY <1>2, <2>1 DEF Undelivered
  <2>4. /\ tally'.accepted = tally.accepted + 1
        /\ tally'.delivered = tally.delivered
    BY <1>3, <2>1
  <2>5. Balance' = Balance + 1
    <3>1. Balance' = tally.delivered + Undelivered + meta.dropped
                       + meta.transport_failures + (meta.suppressed + 1)
      BY <2>2, <2>3, <2>4 DEF Balance
    <3> QED BY <1>2, <2>3, <3>1, Sums DEF Balance
  <2> QED BY <1>1, <2>4, <2>5
<1>5. ASSUME NEW c \in Caller, Submit(c)
      PROVE  tally'.accepted = Balance'
  <2>1. PICK it \in Item : queue' = Append(queue, it)
    BY <1>5, SubmitEffect
  <2>2. /\ Critical(c) /\ UNCHANGED meta
        /\ pc' = pc \/ (pc = "none" /\ pc' = "idle")
    BY <1>5 DEF Submit
  <2>3. Undelivered' = Undelivered + 1 /\ Undelivered \in Nat
    BY <1>2, <2>1, <2>2 DEF Undelivered
  <2>4. /\ tally'.accepted = tally.accepted + 1
        /\ tally'.delivered = tally.delivered
    BY <1>3, <2>2
  <2>5. Balance' = tally.delivered + (Undelivered + 1) + meta.dropped
                     + meta.transport_failures + meta.suppressed
    BY <2>2, <2>3, <2>4 DEF Balance
  <2>6. Balance' = Balance + 1
    BY <1>2, <2>3, <2>5 DEF Balance
  <2> QED BY <1>1, <2>4, <2>6
<1>6. ASSUME NEW c \in Caller, Drop(c)
      PROVE  tally'.accepted = Balance'
  <2>1. /\ Critical(c) /\ UNCHANGED <<queue, pc>>
        /\ meta' = BumpCounter(meta, "dropped")
    BY <1>6, DropEffect DEF Drop
  <2>2. /\ meta'.dropped = meta.dropped + 1
        /\ meta'.transport_failures = meta.transport_failures
        /\ meta'.suppressed = meta.suppressed
    BY <1>2, <2>1, CounterEffect
  <2>3. Undelivered' = Undelivered /\ Undelivered \in Nat
    BY <1>2, <2>1 DEF Undelivered
  <2>4. /\ tally'.accepted = tally.accepted + 1
        /\ tally'.delivered = tally.delivered
    BY <1>3, <2>1
  <2>5. Balance' = Balance + 1
    BY <1>2, <2>2, <2>3, <2>4 DEF Balance
  <2> QED BY <1>1, <2>4, <2>5
<1>7. ASSUME NEW c \in Caller, RenderRaises(c)
      PROVE  FALSE
  BY <1>7, RenderRaisesEffect
<1>8. CASE WorkerGet
  <2>1. /\ Len(queue') = Len(queue) - 1 /\ pc = "idle" /\ pc' = "sending"
        /\ UNCHANGED <<meta, tally>>
    BY <1>2, <1>8 DEF WorkerGet
  <2>2. Undelivered' = Undelivered
    BY <1>2, <2>1 DEF Undelivered
  <2> QED BY <1>1, <2>1, <2>2 DEF Balance
<1>9. CASE SendDelivers
  <2>1. /\ pc = "sending" /\ pc' = "sent" /\ UNCHANGED <<meta, queue>>
        /\ tally'.accepted = tally.accepted
        /\ tally'.delivered = tally.delivered + 1
    BY <1>2, <1>9 DEF SendDelivers
  <2>2. Undelivered' = Undelivered - 1 /\ Undelivered \in Nat
    BY <1>2, <2>1 DEF Undelivered
  <2> QED BY <1>1, <1>2, <2>1, <2>2 DEF Balance
<1>10. CASE RecordFailure
  <2>1. PICK ok \in BOOLEAN :
          /\ Spend(Cost(ok))
          /\ meta' = IF ok THEN BumpCounter(meta, "transport_failures") ELSE meta
    BY <1>10 DEF RecordFailure, WriteBack, Attempts
  <2>2. meta' = BumpCounter(meta, "transport_failures")
    BY <2>1, FaultFreeSpend
  <2>3. pc = "failed" /\ pc' = "idle" /\ UNCHANGED <<queue, tally>>
    BY <1>10 DEF RecordFailure, WriteBack
  <2>4. /\ meta'.dropped = meta.dropped
        /\ meta'.transport_failures = meta.transport_failures + 1
        /\ meta'.suppressed = meta.suppressed
    BY <1>2, <2>2, CounterEffect
  <2>5. Undelivered' = Undelivered - 1 /\ Undelivered \in Nat
    BY <1>2, <2>3 DEF Undelivered
  <2>6. Balance' = Balance
    <3>1. Balance' = tally.delivered + (Undelivered - 1) + meta.dropped
                       + (meta.transport_failures + 1) + meta.suppressed
      BY <2>3, <2>4, <2>5 DEF Balance
    <3>2. /\ tally.delivered \in Int /\ Undelivered \in Int
          /\ meta.dropped \in Int /\ meta.transport_failures \in Int
          /\ meta.suppressed \in Int
      BY <1>2, <2>5
    <3>3. tally.delivered + (Undelivered - 1) + meta.dropped
            + (meta.transport_failures + 1) + meta.suppressed
          = tally.delivered + Undelivered + meta.dropped
            + meta.transport_failures + meta.suppressed
      BY <3>2, Sums
    <3> QED BY <3>1, <3>3 DEF Balance
  <2> QED BY <1>1, <2>3, <2>6
<1>11. CASE Restart
  <2>1. spent'.kills = spent.kills + 1 /\ spent.kills \in Nat
    BY <1>11 DEF Restart, TypeOK
  <2> QED BY <2>1 DEF FaultFree
<1>12. CASE /\ UNCHANGED <<meta, tally, queue>>
            /\ pc' \in {"sending", "failed"} <=> pc \in {"sending", "failed"}
  BY <1>1, <1>12 DEF Balance, Undelivered
<1>13. \/ SendFails \/ RecordSent \/ Tick \/ UNCHANGED vars
       \/ \E c \in Caller, fp \in Fp : Report(c, fp)
       \/ \E fp \in Fp, resolved \in BOOLEAN : SetResolved(fp, resolved)
       => /\ UNCHANGED <<meta, tally, queue>>
          /\ pc' \in {"sending", "failed"} <=> pc \in {"sending", "failed"}
  BY DEF SendFails, RecordSent, WriteBack, Tick, vars, memory, Report, SetResolved
<1> QED
  BY <1>4, <1>5, <1>6, <1>7, <1>8, <1>9, <1>10, <1>11, <1>12, <1>13
     DEF Next, Occurrence, WorkerStep

\* Without failures or kills every occurrence that went through _enqueue is
\* delivered, queued, with the worker, or in exactly one of the counters that
\* the digest reports.
THEOREM OccurrencesAreAccounted == Spec => []EveryOccurrenceAccounted
<1>1. Init => EveryOccurrenceAccounted
  <2> SUFFICES ASSUME Init PROVE EveryOccurrenceAccounted
    OBVIOUS
  <2>1. Undelivered = 0
    BY DEF Init, Undelivered
  <2> QED BY <2>1 DEF Init, EveryOccurrenceAccounted, NoCounters
<1>2. TypeOK /\ EveryOccurrenceAccounted /\ [Next]_vars
        => (TypeOK /\ EveryOccurrenceAccounted)'
  BY TypeStep, AccountedStep
<1> QED BY TypeInit, <1>1, <1>2, PTL DEF Spec

-----------------------------------------------------------------------------
(* Without failures: the stored message is the one on its way.             *)

Told(m) == [count |-> m.count, reopened |-> m.reopened]

\* The messages on their way, as sets.
LEMMA WaitingAppend ==
  ASSUME NEW q \in Seq(Item), NEW it \in Item
  PROVE  {Append(q, it)[i] : i \in 1..Len(Append(q, it))}
           = {q[i] : i \in 1..Len(q)} \union {it}
<1> DEFINE r == Append(q, it)
<1>1. /\ Len(r) = Len(q) + 1 /\ Len(q) \in Nat
      /\ \A i \in 1..Len(q) : r[i] = q[i]
      /\ r[Len(q) + 1] = it
  OBVIOUS
<1>2. /\ \A i \in 1..Len(r) : i \in 1..Len(q) \/ i = Len(q) + 1
      /\ \A i \in 1..Len(q) : i \in 1..Len(r)
      /\ Len(q) + 1 \in 1..Len(r)
  BY <1>1
<1> QED BY <1>1, <1>2

LEMMA WaitingTail ==
  ASSUME NEW q \in Seq(Item), q # <<>>
  PROVE  {q[i] : i \in 1..Len(q)}
           = {Tail(q)[i] : i \in 1..Len(Tail(q))} \union {Head(q)}
<1> DEFINE r == Tail(q)
<1>1. /\ Len(r) = Len(q) - 1 /\ Len(q) \in Nat /\ Len(q) >= 1
      /\ \A i \in 1..Len(r) : r[i] = q[i + 1]
      /\ Head(q) = q[1]
  OBVIOUS
<1>2. /\ \A i \in 1..Len(r) : i + 1 \in 1..Len(q)
      /\ \A i \in 1..Len(q) : i = 1 \/ (i - 1 \in 1..Len(r) /\ q[i] = r[i - 1])
      /\ 1 \in 1..Len(q)
  BY <1>1
<1> QED BY <1>1, <1>2

\* Only set_last_message() and the first INSERT write the message.
LEMMA MessageKept ==
  ASSUME NEW row \in Row, NEW now \in Int
  PROVE  /\ row.stored => Decided(row, now).last_message = row.last_message
         /\ \A r \in PartialBumps(row, now) : r.last_message = row.last_message
         /\ \A n \in Nat : Sent(row, now, n).last_message = row.last_message
         /\ \A b \in BOOLEAN : Resolve(row, b).last_message = row.last_message
BY DEF Decided, Bumped, PartialBumps, Sent, Resolve, Row

\* What _enqueue stores before it submits, when nothing fails.
LEMMA SubmitMessage ==
  ASSUME TypeOK, NEW c \in Caller, Submit(c), FaultFree'
  PROVE  \E it \in Item :
           /\ it.fp = call[c].fp
           /\ queue' = Append(queue, it)
           /\ rows'[call[c].fp].last_message = Told(it)
           /\ \A fp \in Fp : fp # call[c].fp => rows'[fp] = rows[fp]
<1> DEFINE fp == call[c].fp
           old == rows[fp]
           now == call[c].now
<1>1. fp \in Fp /\ now \in Int /\ old \in Row /\ rows \in [Fp -> Row]
  BY CriticalType DEF Submit, TypeOK
<1>2. PICK v \in Verdicts(old, now),
           saved \in Attempts("store"), started \in Attempts("thread") :
        LET m == [count |-> v.decision.suppressed_count,
                  reopened |-> v.decision.was_resolved]
        IN
        /\ Spend(Cost(v.ok) + Cost(saved) + Cost(started))
        /\ rows' = [rows EXCEPT ![fp] =
                      IF saved THEN WithMessage(v.row, m) ELSE v.row]
        /\ queue' = Append(queue, [fp |-> fp, count |-> m.count,
                                   reopened |-> m.reopened, blind |-> ~v.ok])
  BY DEF Submit
<1> DEFINE m == [count |-> v.decision.suppressed_count,
                 reopened |-> v.decision.was_resolved]
           it == [fp |-> fp, count |-> m.count, reopened |-> m.reopened,
                  blind |-> ~v.ok]
<1>3. v.row \in Row /\ v.decision \in Decision /\ v.ok \in BOOLEAN
  BY <1>1, VerdictType
<1>4. m \in Message /\ it \in Item /\ Told(it) = m
  BY <1>1, <1>3 DEF Decision, Message, Item, Told
<1>5. v.ok /\ saved
  BY <1>2, <1>3, FaultFreeSpend DEF Attempts
<1>6. v.row.stored
  <2>1. v.row = Decided(old, now)
    BY <1>5 DEF Verdicts
  <2>2. CASE old.stored
    BY <1>1, <2>1, <2>2 DEF Decided, Row
  <2>3. CASE ~old.stored
    BY <2>1, <2>3 DEF Decided, NewRow, NoRow
  <2> QED BY <2>2, <2>3
<1>7. WithMessage(v.row, m).last_message = m
  BY <1>3, <1>6 DEF WithMessage, Row
<1>8. rows'[fp].last_message = Told(it)
  BY <1>1, <1>2, <1>4, <1>5, <1>7
<1>9. \A f \in Fp : f # fp => rows'[f] = rows[f]
  BY <1>1, <1>2
<1> QED BY <1>2, <1>4, <1>8, <1>9

\* What is on its way is in flight.
LEMMA PendingInFlight ==
  ASSUME TypeOK, InFlightExact
  PROVE  \A m \in Waiting \union Taken : m.fp \in inFlight /\ m.fp \in Fp
<1>1. \A m \in Taken : m.fp \in Held
  BY ItemHeld, ReporterAssumption DEF Taken, Held
<1>2. \A m \in Waiting : m.fp \in Queued
  BY DEF Waiting, Queued
<1> QED BY <1>1, <1>2 DEF InFlightExact, TypeOK

MessagesStored ==
  FaultFree => \A m \in Waiting \union Taken : rows[m.fp].last_message = Told(m)

LEMMA MessagesStep ==
  TypeOK /\ InFlightExact /\ MessagesStored /\ [Next]_vars => MessagesStored'
<1> SUFFICES ASSUME TypeOK, InFlightExact, MessagesStored, [Next]_vars, FaultFree'
             PROVE  \A m \in Waiting' \union Taken' :
                      rows'[m.fp].last_message = Told(m)
  BY DEF MessagesStored, Told
<1>1. \A m \in Waiting \union Taken :
        /\ rows[m.fp].last_message = Told(m)
        /\ m.fp \in inFlight /\ m.fp \in Fp
  BY FaultFreeBefore, PendingInFlight DEF MessagesStored
<1>2. rows \in [Fp -> Row] /\ queue \in Seq(Item) /\ clock \in Int
  BY DEF TypeOK
<1>3. SUFFICES ASSUME ~ \E c \in Caller : Submit(c)
               PROVE  /\ Waiting' \union Taken' \subseteq Waiting \union Taken
                      /\ \A m \in Waiting \union Taken :
                           rows'[m.fp].last_message = rows[m.fp].last_message
  <2>1. ASSUME NEW c \in Caller, Submit(c), NEW m \in Waiting' \union Taken'
        PROVE  rows'[m.fp].last_message = Told(m)
    <3>1. PICK it \in Item :
            /\ it.fp = call[c].fp
            /\ queue' = Append(queue, it)
            /\ rows'[call[c].fp].last_message = Told(it)
            /\ \A fp \in Fp : fp # call[c].fp => rows'[fp] = rows[fp]
      BY <2>1, SubmitMessage
    <3>2. /\ call[c].fp \notin inFlight /\ item' = item
          /\ pc' = pc \/ (pc = "none" /\ pc' = "idle")
      BY <2>1 DEF Submit, Critical
    <3>3. Waiting' = Waiting \union {it}
      BY <1>2, <3>1, WaitingAppend DEF Waiting
    <3>4. Taken' = Taken
      BY <3>2 DEF Taken
    <3>5. CASE m = it
      BY <3>1, <3>5
    <3>6. CASE m \in Waiting \union Taken
      BY <1>1, <3>1, <3>2, <3>6
    <3> QED BY <2>1, <3>3, <3>4, <3>5, <3>6
  <2> QED BY <1>1, <2>1
<1>4. ASSUME NEW c \in Caller, UNCHANGED <<queue, item, pc>>,
             NEW row, rows' = [rows EXCEPT ![call[c].fp] = row],
             \/ call[c].fp \notin inFlight
             \/ call[c].fp \in Fp /\ row.last_message = rows[call[c].fp].last_message
      PROVE  /\ Waiting' \union Taken' \subseteq Waiting \union Taken
             /\ \A m \in Waiting \union Taken :
                  rows'[m.fp].last_message = rows[m.fp].last_message
  BY <1>1, <1>2, <1>4 DEF Waiting, Taken
<1>5. ASSUME NEW c \in Caller, SuppressInFlight(c)
      PROVE  /\ Waiting' \union Taken' \subseteq Waiting \union Taken
             /\ \A m \in Waiting \union Taken :
                  rows'[m.fp].last_message = rows[m.fp].last_message
  <2>1. PICK row \in PartialBumps(rows[call[c].fp], clock) :
          rows' = [rows EXCEPT ![call[c].fp] = row]
    BY <1>5 DEF SuppressInFlight, PartialBumps
  <2>2. call[c].fp \in Fp /\ UNCHANGED <<queue, item, pc>>
    BY <1>5, CriticalType DEF SuppressInFlight
  <2>3. row.last_message = rows[call[c].fp].last_message
    BY <1>2, <2>1, <2>2, MessageKept
  <2> QED BY <1>4, <2>1, <2>2, <2>3
<1>6. ASSUME NEW c \in Caller, SuppressCooldown(c) \/ Drop(c)
      PROVE  /\ Waiting' \union Taken' \subseteq Waiting \union Taken
             /\ \A m \in Waiting \union Taken :
                  rows'[m.fp].last_message = rows[m.fp].last_message
  <2>1. /\ call[c].fp \notin inFlight /\ UNCHANGED <<queue, item, pc>>
        /\ \E row : rows' = [rows EXCEPT ![call[c].fp] = row]
    BY <1>6 DEF SuppressCooldown, Drop, Critical
  <2> QED BY <1>4, <2>1
<1>7. ASSUME NEW c \in Caller, RenderRaises(c)
      PROVE  FALSE
  BY <1>7, RenderRaisesEffect
<1>8. CASE WorkerGet
  <2>1. /\ queue # <<>> /\ pc' = "sending" /\ item' = Head(queue)
        /\ queue' = Tail(queue) /\ UNCHANGED rows
    BY <1>8 DEF WorkerGet
  <2>2. Waiting = Waiting' \union {item'}
    BY <1>2, <2>1, WaitingTail DEF Waiting
  <2> QED BY <2>1, <2>2 DEF Taken
<1>9. CASE RecordSent
  <2>1. /\ pc = "sent" /\ pc' = "idle" /\ UNCHANGED queue
        /\ rows' \in {rows, [rows EXCEPT ![item.fp] = Sent(@, sentAt, item.count)]}
    BY <1>9 DEF RecordSent, WriteBack
  <2>2. /\ item.fp \in Fp /\ item.count \in Nat /\ sentAt \in Int
    BY <2>1, ItemHeld DEF TypeOK, Never
  <2>3. \A fp \in Fp : rows'[fp].last_message = rows[fp].last_message
    <3>1. rows[item.fp] \in Row
      BY <1>2, <2>2
    <3>2. Sent(rows[item.fp], sentAt, item.count).last_message
            = rows[item.fp].last_message
      BY <2>2, <3>1, MessageKept
    <3>3. \A fp \in Fp :
            \/ rows'[fp] = rows[fp]
            \/ fp = item.fp /\ rows'[fp] = Sent(rows[fp], sentAt, item.count)
      BY <1>2, <2>1, <2>2
    <3> QED BY <3>2, <3>3
  <2>4. Waiting' = Waiting /\ Taken' = {}
    BY <2>1 DEF Waiting, Taken
  <2> QED BY <1>1, <2>3, <2>4
<1>10. CASE SendDelivers \/ SendFails
  BY <1>10 DEF SendDelivers, SendFails, Waiting, Taken
<1>11. CASE RecordFailure
  BY <1>11 DEF RecordFailure, WriteBack, Waiting, Taken
<1>12. ASSUME NEW fp \in Fp, NEW resolved \in BOOLEAN, SetResolved(fp, resolved)
       PROVE  /\ Waiting' \union Taken' \subseteq Waiting \union Taken
              /\ \A m \in Waiting \union Taken :
                   rows'[m.fp].last_message = rows[m.fp].last_message
  <2>1. \A f \in Fp : rows'[f].last_message = rows[f].last_message
    BY <1>2, <1>12, MessageKept DEF SetResolved
  <2> QED BY <1>1, <1>12, <2>1 DEF SetResolved, memory, Waiting, Taken
<1>13. CASE Restart
  <2>1. spent'.kills = spent.kills + 1 /\ spent.kills \in Nat
    BY <1>13 DEF Restart, TypeOK
  <2> QED BY <2>1 DEF FaultFree
<1>14. CASE Tick \/ UNCHANGED vars \/ \E c \in Caller, fp \in Fp : Report(c, fp)
  BY <1>14 DEF Tick, vars, memory, Report, Waiting, Taken
<1> QED
  BY <1>3, <1>5, <1>6, <1>7, <1>8, <1>9, <1>10, <1>11, <1>12, <1>13, <1>14
     DEF Next, Occurrence, WorkerStep

\* store/base.py:95-101: without failures or kills the body that the review
\* page shows for a fingerprint whose alert is on its way is that alert's,
\* whatever other occurrences do to the row meanwhile.
THEOREM StoredMessageIsPending == Spec => []LastMessageIsPending
<1> DEFINE I == TypeOK /\ InFlightExact /\ MessagesStored
<1>1. Init => I
  <2>1. Init => Waiting \union Taken = {}
    BY DEF Init, Waiting, Taken
  <2> QED BY <2>1, TypeInit, ExactInit DEF MessagesStored
<1>2. I /\ [Next]_vars => I'
  BY TypeStep, ExactStep, MessagesStep
<1>3. I => LastMessageIsPending
  <2> SUFFICES ASSUME TypeOK, MessagesStored, FaultFree,
                      NEW fp \in Fp, NEW m \in Pending, m.fp = fp
               PROVE  rows[fp].last_message = Told(m)
    BY DEF LastMessageIsPending, Told
  <2>1. m \in Waiting \/ (m = item /\ item # NoItem)
    <3>1. NoItem.fp \notin Fp
      BY ReporterAssumption DEF NoItem
    <3>2. m \in Waiting \/ m = item
      BY DEF Pending, Waiting
    <3>3. m # NoItem
      BY <3>1
    <3> QED BY <3>2, <3>3
  <2>2. m \in Waiting \union Taken
    BY <2>1 DEF Taken, TypeOK
  <2> QED BY <2>2 DEF MessagesStored
<1> QED BY <1>1, <1>2, <1>3, PTL DEF Spec

===============================================================================
