------------------------ MODULE ReporterNotifierProofs ------------------------
(***************************************************************************)
(* Reporter implements Notifier, for every number of threads and errors,   *)
(* every queue size and every pattern of failures and kills: the initial   *)
(* state maps to an initial state, and every step to a step or a stutter.  *)
(***************************************************************************)
EXTENDS ReporterNotifier, ReporterProofs

-----------------------------------------------------------------------------
(* The alerts on their way, without CHOOSE.                                *)

\* The item in the worker's hands, until its send is acknowledged.
Carried == IF pc \in {"sending", "failed"} THEN {item} ELSE {}
OnWay == Waiting \union Carried

\* Every fingerprint has at most one alert on its way, which Alerts shows.
AlertsForm ==
  /\ \A m \in OnWay : m.fp \in Fp /\ Alerts[m.fp] = Told(m)
  /\ \A fp \in Fp : (\A m \in OnWay : m.fp # fp) => Alerts[fp] = NoAlert

LEMMA OnWayItems ==
  ASSUME TypeOK
  PROVE  OnWay \subseteq Item /\ \A m \in OnWay : m.fp \in Fp
<1>1. Carried \subseteq Taken
  BY DEF Carried, Taken
<1>2. OnWay \subseteq Item
  BY <1>1, PendingItems DEF OnWay
<1> QED BY <1>2 DEF Item

\* Two alerts on their way are for two fingerprints.
LEMMA OnWayUnique ==
  ASSUME TypeOK, InFlightExact, NEW m1 \in OnWay, NEW m2 \in OnWay,
         m1.fp = m2.fp
  PROVE  m1 = m2
<1>1. CASE m1 \in Waiting /\ m2 \in Waiting
  BY <1>1 DEF Waiting, InFlightExact
<1>2. ASSUME NEW m \in Waiting, item \in Carried, m.fp = item.fp
      PROVE  FALSE
  <2>1. item.fp \in Held
    BY <1>2, ItemHeld, ReporterAssumption DEF Carried, Held
  <2>2. item.fp \in Queued
    BY <1>2 DEF Waiting, Queued
  <2> QED BY <2>1, <2>2 DEF InFlightExact
<1>3. \A m \in Carried : m = item
  BY DEF Carried
<1> QED BY <1>1, <1>2, <1>3 DEF OnWay

\* OnItsWay is what OnWay holds for the fingerprint.
LEMMA OnItsWayForm ==
  ASSUME TypeOK, InFlightExact, NEW fp \in Fp
  PROVE  OnItsWay(fp) = {m \in OnWay : m.fp = fp}
<1>0. pc \in {"none", "idle", "sending", "sent", "failed"}
  BY DEF TypeOK
<1>1. Pending = Waiting \union {item}
  BY DEF Pending, Waiting
<1>2. CASE pc \in {"none", "idle"}
  <2>1. item.fp # fp
    BY <1>2, ReporterAssumption DEF TypeOK, NoItem
  <2> QED
    BY <1>1, <1>2, <2>1 DEF OnItsWay, Unsettled, OnWay, Carried
<1>3. CASE pc \in {"sending", "failed"}
  BY <1>1, <1>3 DEF OnItsWay, Unsettled, OnWay, Carried
<1>4. CASE pc = "sent"
  <2>1. \A m \in Waiting : m.fp # item.fp
    BY <1>4, OthersWait
  <2> QED
    BY <1>1, <1>4, <2>1 DEF OnItsWay, Unsettled, OnWay, Carried
<1> QED BY <1>0, <1>2, <1>3, <1>4

LEMMA AlertsAre == TypeOK /\ InFlightExact => AlertsForm
<1> SUFFICES ASSUME TypeOK, InFlightExact PROVE AlertsForm
  OBVIOUS
<1>1. ASSUME NEW m \in OnWay
      PROVE  m.fp \in Fp /\ Alerts[m.fp] = Told(m)
  <2>1. m.fp \in Fp
    BY OnWayItems
  <2>2. OnItsWay(m.fp) = {m}
    BY <2>1, OnItsWayForm, OnWayUnique
  <2>3. (CHOOSE x \in OnItsWay(m.fp) : TRUE) = m
    BY <2>2
  <2> QED BY <2>1, <2>2, <2>3 DEF Alerts, Told
<1>2. ASSUME NEW fp \in Fp, \A m \in OnWay : m.fp # fp
      PROVE  Alerts[fp] = NoAlert
  <2>1. OnItsWay(fp) = {}
    BY <1>2, OnItsWayForm
  <2> QED BY <2>1 DEF Alerts
<1> QED BY <1>1, <1>2 DEF AlertsForm

LEMMA AlertsAreNext ==
  ASSUME TypeOK', InFlightExact'
  PROVE  AlertsForm'
<1>1. (TypeOK /\ InFlightExact => AlertsForm)'
  BY AlertsAre, PTL
<1> QED BY <1>1

\* What a step does to the alerts, by what it does to those on their way.
LEMMA AlertsStep ==
  ASSUME AlertsForm, AlertsForm'
  PROVE  /\ OnWay' = OnWay => Alerts' = Alerts
         /\ \A fp \in Fp : \A it :
              /\ it.fp = fp /\ OnWay' = OnWay \union {it}
              /\ \A m \in OnWay : m.fp # fp
              => Alerts' = N!Set(Alerts, fp, Told(it))
         /\ \A fp \in Fp :
              OnWay' = {m \in OnWay : m.fp # fp}
              => Alerts' = N!Set(Alerts, fp, NoAlert)
         /\ OnWay' = {} => Alerts' = [fp \in Fp |-> NoAlert]
<1>1. /\ \A m \in OnWay : m.fp \in Fp /\ Alerts[m.fp] = Told(m)
      /\ \A fp \in Fp : (\A m \in OnWay : m.fp # fp) => Alerts[fp] = NoAlert
      /\ \A m \in OnWay' : m.fp \in Fp /\ Alerts'[m.fp] = Told(m)
      /\ \A fp \in Fp : (\A m \in OnWay' : m.fp # fp) => Alerts'[fp] = NoAlert
  BY DEF AlertsForm, Told
<1>2. /\ Alerts = [fp \in Fp |-> Alerts[fp]]
      /\ Alerts' = [fp \in Fp |-> Alerts'[fp]]
  BY DEF Alerts
<1>3. OnWay' = OnWay => Alerts' = Alerts
  <2> SUFFICES ASSUME OnWay' = OnWay, NEW fp \in Fp
               PROVE  Alerts'[fp] = Alerts[fp]
    BY <1>2
  <2> QED BY <1>1
<1>4. ASSUME NEW fp \in Fp, NEW it, it.fp = fp, OnWay' = OnWay \union {it},
             \A m \in OnWay : m.fp # fp
      PROVE  Alerts' = N!Set(Alerts, fp, Told(it))
  <2> SUFFICES ASSUME NEW f \in Fp
               PROVE  Alerts'[f] = IF f = fp THEN Told(it) ELSE Alerts[f]
    BY <1>2 DEF N!Set
  <2> QED BY <1>1, <1>4
<1>5. ASSUME NEW fp \in Fp, OnWay' = {m \in OnWay : m.fp # fp}
      PROVE  Alerts' = N!Set(Alerts, fp, NoAlert)
  <2> SUFFICES ASSUME NEW f \in Fp
               PROVE  Alerts'[f] = IF f = fp THEN NoAlert ELSE Alerts[f]
    BY <1>2 DEF N!Set
  <2>1. CASE f = fp
    BY <1>1, <1>5, <2>1
  <2>2. CASE f # fp /\ \E m \in OnWay : m.fp = f
    BY <1>1, <1>5, <2>2
  <2>3. CASE f # fp /\ \A m \in OnWay : m.fp # f
    BY <1>1, <1>5, <2>3
  <2> QED BY <2>1, <2>2, <2>3
<1>6. ASSUME OnWay' = {} PROVE Alerts' = [fp \in Fp |-> NoAlert]
  BY <1>1, <1>2, <1>6
<1> QED BY <1>3, <1>4, <1>5, <1>6

-----------------------------------------------------------------------------
(* The rest of the mapping, when a step changes one row.                   *)

LEMMA RowMapping ==
  ASSUME TypeOK, NEW fp \in Fp, NEW row \in Row,
         rows' = [rows EXCEPT ![fp] = row],
         UNCHANGED <<item, sentAt>>,
         pc' = pc \/ (pc = "none" /\ pc' = "idle")
  PROVE  /\ Untold' = N!Set(Untold, fp, row.suppressed_count - Owed(fp))
         /\ Marked' = N!Set(Marked, fp, row.resolved)
         /\ row.last_notified = rows[fp].last_notified
              => LastDelivered' = LastDelivered
<1>1. /\ \A f \in Fp : /\ Owed(f)' = Owed(f)
                       /\ Unsettled(f)' <=> Unsettled(f)
      /\ rows \in [Fp -> Row]
  BY DEF Owed, Unsettled, TypeOK
<1>2. rows'[fp] = row /\ \A f \in Fp : f # fp => rows'[f] = rows[f]
  BY <1>1
<1>3. Untold' = N!Set(Untold, fp, row.suppressed_count - Owed(fp))
  BY <1>1, <1>2 DEF Untold, N!Set
<1>4. Marked' = N!Set(Marked, fp, row.resolved)
  <2>1. Marked' = [f \in Fp |-> rows'[f].resolved]
    BY DEF Marked
  <2>2. N!Set(Marked, fp, row.resolved)
          = [f \in Fp |-> IF f = fp THEN row.resolved ELSE rows[f].resolved]
    BY DEF Marked, N!Set
  <2>3. \A f \in Fp : rows'[f].resolved = IF f = fp THEN row.resolved
                                                   ELSE rows[f].resolved
    BY <1>2
  <2> QED BY <2>1, <2>2, <2>3, Zenon
<1>5. row.last_notified = rows[fp].last_notified
        => LastDelivered' = LastDelivered
  BY <1>1, <1>2 DEF LastDelivered
<1> QED BY <1>3, <1>4, <1>5

\* Writing back what is there changes nothing.
LEMMA SetSame ==
  /\ \A fp \in Fp : N!Set(Untold, fp, Untold[fp]) = Untold
  /\ \A fp \in Fp : N!Set(Marked, fp, Marked[fp]) = Marked
BY DEF N!Set, Untold, Marked

-----------------------------------------------------------------------------
(* Occurrences.                                                            *)

Lost == meta.dropped + meta.transport_failures

\* Without failures the row of an alert on its way is in the table.
RowsKept == FaultKinds # {} \/ \A fp \in inFlight : rows[fp].stored

\* A critical section is the end of the call.
LEMMA CriticalEnds ==
  ASSUME NEW c \in Caller, Critical(c)
  PROVE  N!Ends(c) /\ clock' = clock
BY DEF Critical, N!Ends, N!Set, N!NoCall, NoCall

\* A fingerprint that is not in flight: the mapping is its row.
LEMMA NotInFlight ==
  ASSUME TypeOK, InFlightExact, NEW fp \in Fp, fp \notin inFlight
  PROVE  /\ Owed(fp) = 0
         /\ Untold[fp] = rows[fp].suppressed_count
         /\ LastDelivered[fp] = rows[fp].last_notified
         /\ Marked[fp] = rows[fp].resolved
         /\ \A m \in OnWay : m.fp # fp
         /\ \A now \in Int : N!Due(fp, now) <=> ShouldSend(rows[fp], now)
<1>1. ~Unsettled(fp)
  BY ReporterAssumption DEF Unsettled, InFlightExact, Held
<1>2. Owed(fp) = 0
  BY <1>1 DEF Unsettled, Owed
<1>3. rows[fp] \in Row /\ (~rows[fp].stored => rows[fp] = NoRow)
  BY DEF TypeOK
<1>4. /\ Untold[fp] = rows[fp].suppressed_count
      /\ LastDelivered[fp] = rows[fp].last_notified
      /\ Marked[fp] = rows[fp].resolved
  BY <1>1, <1>2, <1>3 DEF Untold, LastDelivered, Marked, Row
<1>5. \A m \in OnWay : m.fp # fp
  <2>1. Carried \subseteq Taken
    BY DEF Carried, Taken
  <2> QED BY <2>1, PendingInFlight DEF OnWay
<1>6. \A now \in Int : N!Due(fp, now) <=> ShouldSend(rows[fp], now)
  <2>1. CASE rows[fp].stored
    BY <1>4, <2>1 DEF N!Due, N!Never, ShouldSend, CooldownExpired, Never
  <2>2. CASE ~rows[fp].stored
    BY <1>3, <1>4, <2>2 DEF N!Due, N!Never, ShouldSend, NoRow, Never
  <2> QED BY <2>1, <2>2
<1> QED BY <1>2, <1>4, <1>5, <1>6

\* What bump_suppressed() leaves, whichever of its statements fails.
LEMMA PartialBumpRows ==
  ASSUME NEW old \in Row, NEW now \in Int, NEW row \in PartialBumps(old, now)
  PROVE  /\ row \in Row
         /\ row.last_notified = old.last_notified
         /\ row.suppressed_count \in {old.suppressed_count,
                                      old.suppressed_count + 1}
         /\ row.resolved \in {old.resolved, FALSE}
         /\ old.stored /\ row = Bumped(old, now) =>
              /\ row.suppressed_count = old.suppressed_count + 1
              /\ row.resolved = FALSE
<1>1. row \in Row
  BY RowOperators DEF PartialBumps
<1>2. CASE row = Bumped(old, now)
  BY <1>1, <1>2 DEF Bumped, Row
<1>3. CASE row = old \/ row = Resolve(old, FALSE)
  BY <1>1, <1>3 DEF Resolve, Bumped, Row
<1> QED BY <1>1, <1>2, <1>3 DEF PartialBumps

LEMMA SuppressInFlightMaps ==
  ASSUME Inv, RowsKept, AlertsForm, AlertsForm',
         NEW c \in Caller, SuppressInFlight(c)
  PROVE  N!Next
<1>1. TypeOK /\ Critical(c) /\ UNCHANGED <<inFlight, queue, pc>>
  BY DEF Inv, SuppressInFlight
<1>2. PICK fp \in Fp : fp = call[c].fp
  BY <1>1, CriticalType
<1> DEFINE old == rows[fp]
<1>3. /\ old \in Row /\ clock \in Int /\ fp \in inFlight /\ clock' = clock
      /\ UNCHANGED <<item, sentAt>> /\ N!Ends(c)
  BY <1>1, <1>2, CriticalType, CriticalEnds DEF SuppressInFlight, TypeOK
<1>4. PICK ok \in Attempts("store"), row \in PartialBumps(old, clock) :
        /\ ok => row = Bumped(old, clock)
        /\ rows' = [rows EXCEPT ![fp] = row]
        /\ meta' = IF ok THEN BumpCounter(meta, "suppressed") ELSE meta
  <2>1. PICK ok \in Attempts("store") :
          /\ \E row \in IF ok THEN {Bumped(old, clock)}
                              ELSE PartialBumps(old, clock) :
               rows' = [rows EXCEPT ![fp] = row]
          /\ meta' = IF ok THEN BumpCounter(meta, "suppressed") ELSE meta
    BY <1>2 DEF SuppressInFlight
  <2>2. CASE ok
    BY <2>1, <2>2 DEF PartialBumps
  <2>3. CASE ~ok
    BY <2>1, <2>3
  <2> QED BY <2>2, <2>3
<1>5. Lost' = Lost
  BY <1>1, <1>4, CounterEffect DEF Lost, TypeOK
<1>6. Alerts' = Alerts
  BY <1>1, <1>3, AlertsStep DEF OnWay, Waiting, Carried
<1>7. /\ row \in Row
      /\ row.last_notified = old.last_notified
      /\ row.suppressed_count \in {old.suppressed_count,
                                   old.suppressed_count + 1}
      /\ row.resolved \in {old.resolved, FALSE}
      /\ ok /\ old.stored =>
           /\ row.suppressed_count = old.suppressed_count + 1
           /\ row.resolved = FALSE
  BY <1>3, <1>4, PartialBumpRows
<1>8. /\ Untold' = N!Set(Untold, fp, row.suppressed_count - Owed(fp))
      /\ Marked' = N!Set(Marked, fp, row.resolved)
      /\ LastDelivered' = LastDelivered
  BY <1>1, <1>3, <1>4, <1>7, RowMapping
<1>9. /\ Untold[fp] = old.suppressed_count - Owed(fp)
      /\ (old.suppressed_count + 1) - Owed(fp) = Untold[fp] + 1
      /\ Marked[fp] = old.resolved
  <2>1. old.suppressed_count \in Int /\ Owed(fp) \in Int
    BY <1>1, <1>3 DEF Row, Owed, TypeOK, Item, NoItem
  <2> QED BY <2>1 DEF Untold, Marked
<1>10. CASE ok /\ old.stored
  <2>1. N!Suppress(c)
    BY <1>1, <1>2, <1>3, <1>5, <1>6, <1>7, <1>8, <1>9, <1>10
       DEF N!Suppress, Lost
  <2> QED BY <2>1 DEF N!Next
<1>11. CASE ~(ok /\ old.stored)
  <2>1. FaultKinds # {}
    BY <1>3, <1>4, <1>11 DEF RowsKept, Attempts
  <2>2. Untold' \in {Untold, N!Set(Untold, fp, Untold[fp] + 1)}
    BY <1>7, <1>8, <1>9, SetSame
  <2>3. Marked' \in {Marked, N!Set(Marked, fp, FALSE)}
    BY <1>7, <1>8, <1>9, SetSame
  <2>4. N!Uncounted(c)
    BY <1>1, <1>2, <1>3, <1>5, <1>6, <1>8, <2>2, <2>3 DEF N!Uncounted, Lost
  <2> QED BY <2>1, <2>4 DEF N!Next, N!Trouble
<1> QED BY <1>10, <1>11

LEMMA SuppressCooldownMaps ==
  ASSUME Inv, AlertsForm, AlertsForm', NEW c \in Caller, SuppressCooldown(c)
  PROVE  N!Next
<1>1. /\ TypeOK /\ InFlightExact /\ Critical(c)
      /\ UNCHANGED <<inFlight, queue, pc>>
  BY DEF Inv, SuppressCooldown
<1>2. PICK fp \in Fp : fp = call[c].fp
  BY <1>1, CriticalType
<1> DEFINE old == rows[fp]
           now == call[c].now
           row == Decided(old, now)
<1>3. /\ old \in Row /\ now \in Int /\ fp \notin inFlight /\ clock' = clock
      /\ UNCHANGED <<item, sentAt>> /\ N!Ends(c)
  BY <1>1, <1>2, CriticalType, CriticalEnds DEF SuppressCooldown
<1>4. /\ ~ShouldSend(old, now)
      /\ rows' = [rows EXCEPT ![fp] = row]
      /\ meta' = BumpCounter(meta, "suppressed")
  BY <1>2 DEF SuppressCooldown
<1>5. Lost' = Lost
  BY <1>1, <1>4, CounterEffect DEF Lost, TypeOK
<1>6. Alerts' = Alerts
  BY <1>1, <1>3, AlertsStep DEF OnWay, Waiting, Carried
<1>7. /\ row \in Row
      /\ row.last_notified = old.last_notified
      /\ row.suppressed_count = old.suppressed_count + 1
      /\ row.resolved = FALSE
  <2>1. row \in Row
    BY <1>3, RowOperators
  <2>2. old.stored
    BY <1>4 DEF ShouldSend
  <2> QED BY <1>3, <1>4, <2>1, <2>2 DEF Decided, Row
<1> HIDE DEF row
<1>8. /\ Untold' = N!Set(Untold, fp, row.suppressed_count - Owed(fp))
      /\ Marked' = N!Set(Marked, fp, row.resolved)
      /\ LastDelivered' = LastDelivered
  BY <1>1, <1>3, <1>4, <1>7, RowMapping
<1>9. /\ Owed(fp) = 0 /\ Untold[fp] = old.suppressed_count
      /\ old.suppressed_count \in Int
      /\ ~N!Due(fp, now)
  BY <1>1, <1>3, <1>4, NotInFlight DEF Row
<1>10. Untold' = N!Set(Untold, fp, Untold[fp] + 1)
  BY <1>7, <1>8, <1>9
<1>11. N!Suppress(c)
  BY <1>1, <1>2, <1>3, <1>5, <1>6, <1>7, <1>8, <1>9, <1>10 DEF N!Suppress, Lost
<1> QED BY <1>11 DEF N!Next

-----------------------------------------------------------------------------
(* Past decide().                                                          *)

\* decide() answered, and let the occurrence through, ...
Sends(old, now, row) ==
  /\ ShouldSend(old, now)
  /\ row.suppressed_count = old.suppressed_count
  /\ ~row.resolved

\* ... or raised, before or after its UPDATE.
Raises(old, now, row) ==
  /\ row.resolved = old.resolved
  /\ \/ row.suppressed_count = old.suppressed_count
     \/ /\ ~ShouldSend(old, now)
        /\ row.suppressed_count = old.suppressed_count + 1

LEMMA VerdictOutcome ==
  ASSUME NEW old \in Row, Blank(old), NEW now \in Int,
         NEW v \in Verdicts(old, now),
         v.decision.should_send, v.ok \in Attempts("store")
  PROVE  /\ v.row \in Row /\ v.decision \in Decision /\ v.ok \in BOOLEAN
         /\ v.row.last_notified = old.last_notified
         /\ v.ok => /\ Sends(old, now, v.row)
                    /\ v.row.stored
                    /\ v.decision.suppressed_count = old.suppressed_count
                    /\ v.decision.was_resolved = old.resolved
         /\ ~v.ok => /\ Raises(old, now, v.row)
                     /\ FaultKinds # {}
                     /\ v.decision.suppressed_count = 0
                     /\ v.decision.was_resolved = FALSE
<1>1. v.row \in Row /\ v.decision \in Decision /\ v.ok \in BOOLEAN
  BY VerdictType
<1>2. v.row.last_notified = old.last_notified
  BY VerdictEffect
<1>3. ASSUME v.ok
      PROVE  /\ Sends(old, now, v.row)
             /\ v.row.stored
             /\ v.decision.suppressed_count = old.suppressed_count
             /\ v.decision.was_resolved = old.resolved
  <2>1. v.row = Decided(old, now) /\ v.decision = DecisionOn(old, now)
    BY <1>3 DEF Verdicts
  <2>2. ShouldSend(old, now)
    BY <2>1 DEF DecisionOn
  <2>3. CASE old.stored
    BY <2>1, <2>2, <2>3 DEF Decided, DecisionOn, Sends, Row
  <2>4. CASE ~old.stored
    <3>1. old = NoRow
      BY <2>4 DEF Blank
    <3> QED BY <2>1, <2>2, <2>4, <3>1
            DEF Decided, NewRow, NoRow, DecisionOn, Sends
  <2> QED BY <2>3, <2>4
<1>4. ASSUME ~v.ok
      PROVE  /\ Raises(old, now, v.row)
             /\ FaultKinds # {}
             /\ v.decision.suppressed_count = 0
             /\ v.decision.was_resolved = FALSE
  <2>0. v # [row |-> Decided(old, now), decision |-> DecisionOn(old, now),
             ok |-> TRUE]
    BY <1>4
  <2>5. PICK left \in PartialDecides(old, now) :
          v = [row |-> left, ok |-> FALSE,
               decision |-> [should_send |-> TRUE, suppressed_count |-> 0,
                             was_resolved |-> FALSE]]
    BY <2>0, Zenon DEF Verdicts
  <2>1. /\ v.row \in PartialDecides(old, now)
        /\ v.decision = [should_send |-> TRUE, suppressed_count |-> 0,
                         was_resolved |-> FALSE]
    BY <2>5
  <2>2. FaultKinds # {}
    BY <1>4 DEF Attempts
  <2>3. CASE v.row = old
    BY <2>1, <2>2, <2>3 DEF Raises
  <2>4. CASE ~ShouldSend(old, now) /\ v.row = Decided(old, now)
    <3>1. old.stored /\ ~old.resolved
      BY <2>4 DEF ShouldSend
    <3>2. v.row.resolved = FALSE
      BY <2>4, <3>1 DEF Decided, Row
    <3>3. v.row.suppressed_count = old.suppressed_count + 1
      BY <2>4, <3>1 DEF Decided, Row
    <3>4. old.resolved = FALSE
      BY <3>1 DEF Row
    <3>5. Raises(old, now, v.row)
      BY <2>4, <3>2, <3>3, <3>4 DEF Raises
    <3> QED BY <2>1, <2>2, <3>5
  <2> QED BY <2>1, <2>2, <2>3, <2>4 DEF PartialDecides
<1> QED BY <1>1, <1>2, <1>3, <1>4

\* Storing the message changes neither.
LEMMA MessageOutcome ==
  ASSUME NEW old, NEW now, NEW row \in Row, NEW m \in Message
  PROVE  LET w == WithMessage(row, m) IN
         /\ w \in Row
         /\ w.last_notified = row.last_notified
         /\ w.stored = row.stored
         /\ Sends(old, now, row) => Sends(old, now, w)
         /\ Raises(old, now, row) => Raises(old, now, w)
BY DEF WithMessage, Row, Sends, Raises

\* What that does to the error, when it is not in flight.
LEMMA OutcomeMaps ==
  ASSUME TypeOK, InFlightExact, NEW fp \in Fp, fp \notin inFlight,
         NEW now \in Int, NEW row \in Row,
         row.last_notified = rows[fp].last_notified,
         rows' = [rows EXCEPT ![fp] = row],
         UNCHANGED <<item, sentAt>>,
         pc' = pc \/ (pc = "none" /\ pc' = "idle")
  PROVE  /\ LastDelivered' = LastDelivered
         /\ Sends(rows[fp], now, row) =>
              /\ N!Due(fp, now)
              /\ Untold' = Untold
              /\ Marked' = N!Set(Marked, fp, FALSE)
         /\ Raises(rows[fp], now, row) =>
              /\ Marked' = Marked
              /\ \/ Untold' = Untold
                 \/ /\ ~N!Due(fp, now)
                    /\ Untold' = N!Set(Untold, fp, Untold[fp] + 1)
<1>1. /\ Owed(fp) = 0
      /\ Untold[fp] = rows[fp].suppressed_count
      /\ Marked[fp] = rows[fp].resolved
      /\ N!Due(fp, now) <=> ShouldSend(rows[fp], now)
  BY NotInFlight
<1>2. /\ Untold' = N!Set(Untold, fp, row.suppressed_count - Owed(fp))
      /\ Marked' = N!Set(Marked, fp, row.resolved)
      /\ LastDelivered' = LastDelivered
  BY RowMapping
<1>3. row.suppressed_count - Owed(fp) = row.suppressed_count
  BY <1>1 DEF Row
<1>4. ASSUME Sends(rows[fp], now, row)
      PROVE  /\ N!Due(fp, now)
             /\ Untold' = Untold
             /\ Marked' = N!Set(Marked, fp, FALSE)
  <2>1. row.resolved = FALSE /\ row.suppressed_count = Untold[fp]
    BY <1>1, <1>4 DEF Sends, Row
  <2>2. Untold' = Untold
    BY <1>2, <1>3, <2>1, SetSame
  <2> QED BY <1>1, <1>2, <1>4, <2>1, <2>2 DEF Sends
<1>5. ASSUME Raises(rows[fp], now, row)
      PROVE  /\ Marked' = Marked
             /\ \/ Untold' = Untold
                \/ /\ ~N!Due(fp, now)
                   /\ Untold' = N!Set(Untold, fp, Untold[fp] + 1)
  <2>1. Marked' = Marked
    BY <1>1, <1>2, <1>5, SetSame DEF Raises
  <2>2. CASE row.suppressed_count = rows[fp].suppressed_count
    BY <1>1, <1>2, <1>3, <2>1, <2>2, SetSame
  <2>3. CASE /\ ~ShouldSend(rows[fp], now)
             /\ row.suppressed_count = rows[fp].suppressed_count + 1
    BY <1>1, <1>2, <1>3, <2>1, <2>3
  <2> QED BY <1>5, <2>2, <2>3 DEF Raises
<1> QED BY <1>2, <1>4, <1>5

LEMMA SubmitMaps ==
  ASSUME Inv, AlertsForm, AlertsForm', NEW c \in Caller, Submit(c)
  PROVE  N!Next
<1>1. /\ TypeOK /\ InFlightExact /\ Critical(c) /\ meta' = meta
  BY DEF Inv, Submit
<1>2. PICK fp \in Fp : fp = call[c].fp
  BY <1>1, CriticalType
<1>0. PICK now \in Int : now = call[c].now
  BY <1>1, CriticalType
<1> DEFINE old == rows[fp]
<1>3. /\ old \in Row /\ Blank(old) /\ fp \notin inFlight /\ clock' = clock
      /\ inFlight' = inFlight \union {fp}
      /\ UNCHANGED <<item, sentAt>> /\ N!Ends(c)
  BY <1>1, <1>2, CriticalType, CriticalEnds DEF Submit, Blank, TypeOK
<1>4. PICK v \in Verdicts(old, now),
           saved \in Attempts("store"), started \in Attempts("thread") :
        LET m == [count |-> v.decision.suppressed_count,
                  reopened |-> v.decision.was_resolved]
        IN
        /\ v.ok \in Attempts("store")
        /\ v.decision.should_send
        /\ rows' = [rows EXCEPT ![fp] =
                      IF saved THEN WithMessage(v.row, m) ELSE v.row]
        /\ queue' = Append(queue, [fp |-> fp, count |-> m.count,
                                   reopened |-> m.reopened, blind |-> ~v.ok])
        /\ pc' = IF pc = "none" /\ started THEN "idle" ELSE pc
  BY <1>0, <1>2, ZenonT(30) DEF Submit
<1>5. PICK m : m = [count |-> v.decision.suppressed_count,
                    reopened |-> v.decision.was_resolved]
  OBVIOUS
<1>6. PICK it : it = [fp |-> fp, count |-> m.count, reopened |-> m.reopened,
                      blind |-> ~v.ok]
  OBVIOUS
<1>7. PICK row : row = IF saved THEN WithMessage(v.row, m) ELSE v.row
  OBVIOUS
<1>8. /\ v.row \in Row /\ v.decision \in Decision /\ v.ok \in BOOLEAN
      /\ v.row.last_notified = old.last_notified
      /\ v.ok => /\ Sends(old, now, v.row)
                 /\ m = [count |-> old.suppressed_count,
                         reopened |-> old.resolved]
      /\ ~v.ok => /\ Raises(old, now, v.row)
                  /\ FaultKinds # {}
                  /\ m = N!Blind
  BY <1>3, <1>4, <1>5, VerdictOutcome, ZenonT(30) DEF N!Blind
<1>9. m \in Message /\ it \in Item /\ Told(it) = m /\ it.fp = fp
  BY <1>5, <1>6, <1>8 DEF Decision, Message, Item, Told
<1>10. /\ row \in Row /\ row.last_notified = old.last_notified
       /\ v.ok => Sends(old, now, row)
       /\ ~v.ok => Raises(old, now, row)
  BY <1>7, <1>8, <1>9, MessageOutcome
<1>11. /\ rows' = [rows EXCEPT ![fp] = row]
       /\ queue' = Append(queue, it)
       /\ pc' = pc \/ (pc = "none" /\ pc' = "idle")
  BY <1>4, <1>5, <1>6, <1>7
<1>12. Alerts' = N!Set(Alerts, fp, m)
  <2>0. queue \in Seq(Item)
    BY <1>1 DEF TypeOK
  <2>1. Waiting' = Waiting \union {it}
    BY <1>9, <1>11, <2>0, WaitingAppend DEF Waiting
  <2>2. Carried' = Carried
    BY <1>3, <1>11 DEF Carried
  <2>3. \A x \in OnWay : x.fp # fp
    BY <1>1, <1>3, NotInFlight
  <2>4. OnWay' = OnWay \union {it}
    BY <2>1, <2>2 DEF OnWay
  <2> QED BY <1>9, <2>3, <2>4, AlertsStep
<1>13. Lost' = Lost
  BY <1>1 DEF Lost
<1>14. /\ Untold[fp] = old.suppressed_count
       /\ Marked[fp] = old.resolved
  BY <1>1, <1>3, NotInFlight
<1>15. CASE v.ok
  <2>1. /\ N!Due(fp, now) /\ Untold' = Untold
        /\ Marked' = N!Set(Marked, fp, FALSE)
        /\ LastDelivered' = LastDelivered
    BY <1>1, <1>3, <1>10, <1>11, <1>15, OutcomeMaps
  <2>2. Alerts' = N!Set(Alerts, fp, [count |-> Untold[fp],
                                     reopened |-> Marked[fp]])
    BY <1>8, <1>12, <1>14, <1>15
  <2>3. N!Alert(c)
    BY <1>0, <1>2, <1>3, <1>13, <2>1, <2>2 DEF N!Alert, N!Sendable, Lost
  <2> QED BY <2>3 DEF N!Next
<1>16. CASE ~v.ok
  <2>1. /\ Marked' = Marked /\ LastDelivered' = LastDelivered
        /\ \/ Untold' = Untold
           \/ /\ ~N!Due(fp, now)
              /\ Untold' = N!Set(Untold, fp, Untold[fp] + 1)
    BY <1>1, <1>3, <1>10, <1>11, <1>16, OutcomeMaps
  <2>2. Alerts' = N!Set(Alerts, fp, N!Blind)
    BY <1>8, <1>12, <1>16
  <2>3. N!BlindOutcome(c)
    BY <1>0, <1>2, <1>3, <1>13, <2>1, <2>2 DEF N!BlindOutcome, Lost
  <2> QED BY <1>8, <1>16, <2>3 DEF N!Next, N!Trouble
<1> QED BY <1>8, <1>15, <1>16

\* An occurrence that got past decide() and was not queued is counted as lost,
\* unless something failed.
LEMMA UnsentMaps ==
  ASSUME Inv, AlertsForm, AlertsForm', NEW c \in Caller, Critical(c),
         call[c].fp \notin inFlight, UNCHANGED <<inFlight, queue, pc>>,
         NEW row \in Row, rows' = [rows EXCEPT ![call[c].fp] = row],
         row.last_notified = rows[call[c].fp].last_notified,
         \/ Sends(rows[call[c].fp], call[c].now, row)
         \/ Raises(rows[call[c].fp], call[c].now, row) /\ FaultKinds # {},
         \/ Lost' = Lost + 1
         \/ Lost' = Lost /\ FaultKinds # {}
  PROVE  N!Next
<1>1. /\ TypeOK /\ InFlightExact
  BY DEF Inv
<1>2. PICK fp \in Fp : fp = call[c].fp
  BY <1>1, CriticalType
<1>3. PICK now \in Int : now = call[c].now
  BY <1>1, CriticalType
<1>4. clock' = clock /\ UNCHANGED <<item, sentAt>> /\ N!Ends(c)
  BY <1>1, CriticalType, CriticalEnds
<1>5. Alerts' = Alerts
  BY <1>4, AlertsStep DEF OnWay, Waiting, Carried
<1>6. /\ LastDelivered' = LastDelivered
      /\ Sends(rows[fp], now, row) =>
           /\ N!Due(fp, now)
           /\ Untold' = Untold
           /\ Marked' = N!Set(Marked, fp, FALSE)
      /\ Raises(rows[fp], now, row) =>
           /\ Marked' = Marked
           /\ \/ Untold' = Untold
              \/ /\ ~N!Due(fp, now)
                 /\ Untold' = N!Set(Untold, fp, Untold[fp] + 1)
  BY <1>1, <1>2, <1>4, OutcomeMaps
<1>7. CASE Sends(rows[fp], now, row) /\ Lost' = Lost + 1
  <2>1. N!Overload(c)
    BY <1>2, <1>3, <1>4, <1>5, <1>6, <1>7 DEF N!Overload, N!Sendable, Lost
  <2> QED BY <2>1 DEF N!Next
<1>8. CASE Sends(rows[fp], now, row) /\ Lost' = Lost /\ FaultKinds # {}
  <2>1. N!LostUncounted(c)
    BY <1>2, <1>3, <1>4, <1>5, <1>6, <1>8 DEF N!LostUncounted, N!Sendable, Lost
  <2> QED BY <1>8, <2>1 DEF N!Next, N!Trouble
<1>9. CASE Raises(rows[fp], now, row) /\ FaultKinds # {}
  <2>1. N!BlindOutcome(c)
    BY <1>2, <1>3, <1>4, <1>5, <1>6, <1>9 DEF N!BlindOutcome, Lost
  <2> QED BY <1>9, <2>1 DEF N!Next, N!Trouble
<1> QED BY <1>2, <1>3, <1>7, <1>8, <1>9

LEMMA DropMaps ==
  ASSUME Inv, AlertsForm, AlertsForm', NEW c \in Caller, Drop(c)
  PROVE  N!Next
<1>1. /\ TypeOK /\ Critical(c) /\ call[c].fp \notin inFlight
      /\ UNCHANGED <<queue, pc>>
  BY DEF Inv, Drop
<1> DEFINE old == rows[call[c].fp]
           now == call[c].now
<1>2. /\ old \in Row /\ Blank(old) /\ now \in Int /\ inFlight' = inFlight
      /\ meta \in Counters
  BY <1>1, CriticalType DEF Drop, Rollback, Blank, TypeOK
<1>3. PICK v \in Verdicts(old, now),
           saved \in Attempts("store"), counted \in Attempts("store") :
        LET m == [count |-> v.decision.suppressed_count,
                  reopened |-> v.decision.was_resolved]
        IN
        /\ v.ok \in Attempts("store")
        /\ v.decision.should_send
        /\ rows' = [rows EXCEPT ![call[c].fp] =
                      IF saved THEN WithMessage(v.row, m) ELSE v.row]
        /\ meta' = IF counted THEN BumpCounter(meta, "dropped") ELSE meta
  BY DEF Drop
<1>4. PICK m : m = [count |-> v.decision.suppressed_count,
                    reopened |-> v.decision.was_resolved]
  OBVIOUS
<1>5. PICK row : row = IF saved THEN WithMessage(v.row, m) ELSE v.row
  OBVIOUS
<1>6. /\ v.row \in Row /\ v.decision \in Decision /\ v.ok \in BOOLEAN
      /\ v.row.last_notified = old.last_notified
      /\ v.ok => Sends(old, now, v.row)
      /\ ~v.ok => Raises(old, now, v.row) /\ FaultKinds # {}
  BY <1>2, <1>3, VerdictOutcome, ZenonT(30)
<1>7. m \in Message
  BY <1>4, <1>6 DEF Decision, Message
<1>8. /\ row \in Row /\ row.last_notified = old.last_notified
      /\ \/ Sends(old, now, row)
         \/ Raises(old, now, row) /\ FaultKinds # {}
  BY <1>5, <1>6, <1>7, MessageOutcome
<1>9. rows' = [rows EXCEPT ![call[c].fp] = row]
  BY <1>3, <1>4, <1>5
<1>10. Lost' = Lost + 1 \/ (Lost' = Lost /\ FaultKinds # {})
  <2>1. CASE counted
    <3>1. /\ meta'.dropped = meta.dropped + 1
          /\ meta'.transport_failures = meta.transport_failures
          /\ meta.dropped \in Int /\ meta.transport_failures \in Int
      BY <1>2, <1>3, <2>1, CounterEffect DEF Counters
    <3> QED BY <3>1 DEF Lost
  <2>2. CASE ~counted
    BY <1>3, <2>2 DEF Lost, Attempts
  <2> QED BY <2>1, <2>2
<1> QED BY <1>1, <1>2, <1>8, <1>9, <1>10, UnsentMaps

LEMMA RenderRaisesMaps ==
  ASSUME Inv, AlertsForm, AlertsForm', NEW c \in Caller, RenderRaises(c)
  PROVE  N!Next
<1>1. /\ TypeOK /\ Critical(c) /\ call[c].fp \notin inFlight
      /\ UNCHANGED <<meta, inFlight, queue, pc>> /\ FaultKinds # {}
  BY DEF Inv, RenderRaises
<1> DEFINE old == rows[call[c].fp]
           now == call[c].now
<1>2. /\ old \in Row /\ Blank(old) /\ now \in Int
  BY <1>1, CriticalType DEF Blank, TypeOK
<1>3. PICK v \in Verdicts(old, now) :
        /\ v.ok \in Attempts("store")
        /\ v.decision.should_send
        /\ rows' = [rows EXCEPT ![call[c].fp] = v.row]
  BY DEF RenderRaises
<1>4. /\ v.row \in Row /\ v.row.last_notified = old.last_notified
      /\ v.ok \in BOOLEAN
      /\ v.ok => Sends(old, now, v.row)
      /\ ~v.ok => Raises(old, now, v.row)
  BY <1>2, <1>3, VerdictOutcome, ZenonT(30)
<1>5. Lost' = Lost
  BY <1>1 DEF Lost
<1> QED BY <1>1, <1>3, <1>4, <1>5, UnsentMaps

-----------------------------------------------------------------------------
(* The worker.                                                             *)

\* A step of the program that no promise is about.
LEMMA Stutters ==
  ASSUME UNCHANGED <<clock, call, Marked, Untold, LastDelivered, Alerts,
                     inFlight, meta>>
  PROVE  UNCHANGED N!vars
BY DEF N!vars

\* Away from an acknowledgement the mapping is the rows.
LEMMA RowsAlone ==
  ASSUME UNCHANGED rows, pc # "sent", pc' # "sent"
  PROVE  UNCHANGED <<Marked, Untold, LastDelivered>>
<1>1. \A fp \in Fp : Owed(fp)' = Owed(fp) /\ ~Unsettled(fp)' /\ ~Unsettled(fp)
  BY DEF Owed, Unsettled
<1> QED BY <1>1 DEF Marked, Untold, LastDelivered

LEMMA WorkerGetMaps ==
  ASSUME Inv, AlertsForm, AlertsForm', WorkerGet
  PROVE  UNCHANGED N!vars
<1>1. /\ TypeOK /\ pc = "idle" /\ pc' = "sending" /\ queue # <<>>
      /\ item' = Head(queue) /\ queue' = Tail(queue)
      /\ UNCHANGED <<clock, rows, meta, inFlight, call>>
  BY DEF Inv, WorkerGet
<1>2. Waiting = Waiting' \union {item'}
  BY <1>1, WaitingTail DEF Waiting, TypeOK
<1>3. OnWay' = OnWay
  BY <1>1, <1>2 DEF OnWay, Carried
<1>4. Alerts' = Alerts
  BY <1>3, AlertsStep
<1>5. UNCHANGED <<Marked, Untold, LastDelivered>>
  BY <1>1, RowsAlone
<1> QED BY <1>1, <1>4, <1>5, Stutters

LEMMA SendFailsMaps ==
  ASSUME Inv, AlertsForm, AlertsForm', SendFails
  PROVE  UNCHANGED N!vars
<1>1. /\ pc = "sending" /\ pc' = "failed"
      /\ UNCHANGED <<clock, rows, meta, inFlight, queue, item, call>>
  BY DEF SendFails
<1>2. Alerts' = Alerts
  BY <1>1, AlertsStep DEF OnWay, Waiting, Carried
<1>3. UNCHANGED <<Marked, Untold, LastDelivered>>
  BY <1>1, RowsAlone
<1> QED BY <1>1, <1>2, <1>3, Stutters

\* The alert in the worker's hands, and those behind it.
LEMMA CarriedAlert ==
  ASSUME TypeOK, InFlightExact, AlertsForm, pc \in {"sending", "sent", "failed"}
  PROVE  /\ item.fp \in Fp /\ item.fp \in inFlight /\ item \in Item
         /\ pc # "sent" => /\ Alerts[item.fp] = Told(item)
                           /\ Alerts[item.fp] # NoAlert
                           /\ Waiting = {m \in OnWay : m.fp # item.fp}
         /\ pc = "sent" => /\ Alerts[item.fp] = NoAlert
                           /\ Waiting = OnWay
<1>1. item.fp \in Fp /\ item \in Item
  BY ItemHeld
<1>2. item.fp \in inFlight
  BY <1>1, ReporterAssumption DEF InFlightExact, Held
<1>3. \A m \in Waiting : m.fp # item.fp
  BY OthersWait
<1>4. ASSUME pc # "sent"
      PROVE  /\ Alerts[item.fp] = Told(item)
             /\ Alerts[item.fp] # NoAlert
             /\ Waiting = {m \in OnWay : m.fp # item.fp}
  <2>1. OnWay = Waiting \union {item}
    BY <1>4 DEF OnWay, Carried
  <2>2. Alerts[item.fp] = Told(item)
    BY <2>1 DEF AlertsForm
  <2>3. Told(item) # NoAlert
    BY <1>1 DEF Told, NoAlert, Item
  <2> QED BY <1>3, <2>1, <2>2, <2>3
<1>5. ASSUME pc = "sent"
      PROVE  Alerts[item.fp] = NoAlert /\ Waiting = OnWay
  <2>1. OnWay = Waiting
    BY <1>5 DEF OnWay, Carried
  <2> QED BY <1>1, <1>3, <2>1 DEF AlertsForm
<1> QED BY <1>1, <1>2, <1>4, <1>5

LEMMA SendDeliversMaps ==
  ASSUME Inv, AlertsForm, AlertsForm', SendDelivers
  PROVE  N!Next
<1>1. /\ TypeOK /\ InFlightExact /\ pc = "sending" /\ pc' = "sent"
      /\ sentAt' = clock
      /\ UNCHANGED <<clock, rows, meta, inFlight, queue, item, call>>
  BY DEF Inv, SendDelivers
<1>2. PICK fp \in Fp : fp = item.fp
  BY <1>1, CarriedAlert
<1>3. /\ Alerts[fp] = Told(item) /\ Alerts[fp] # NoAlert
      /\ Waiting = {m \in OnWay : m.fp # fp}
      /\ item.count \in Int
  BY <1>1, <1>2, CarriedAlert DEF Item
<1>4. OnWay' = {m \in OnWay : m.fp # fp}
  BY <1>1, <1>3 DEF OnWay, Carried, Waiting
<1>5. Alerts' = N!Set(Alerts, fp, NoAlert)
  BY <1>4, AlertsStep
<1>6. Marked' = Marked
  BY <1>1 DEF Marked
<1>7. \A f \in Fp : /\ Unsettled(f)' <=> f = fp
                    /\ ~Unsettled(f)
                    /\ Owed(f)' = IF f = fp THEN item.count ELSE 0
                    /\ Owed(f) = 0
                    /\ rows[f].suppressed_count \in Int
  BY <1>1, <1>2 DEF Unsettled, Owed, TypeOK, Row
<1>8. LastDelivered' = N!Set(LastDelivered, fp, clock)
  BY <1>1, <1>7 DEF LastDelivered, N!Set
<1>9. Untold' = N!Set(Untold, fp, Untold[fp] - Alerts[fp].count)
  <2>1. Alerts[fp].count = item.count
    BY <1>3 DEF Told
  <2>2. \A f \in Fp : rows[f].suppressed_count - 0 = rows[f].suppressed_count
    BY <1>7
  <2>3. \A f \in Fp : Untold[f] = rows[f].suppressed_count
    BY <1>7, <2>2 DEF Untold
  <2>4. \A f \in Fp : Untold'[f] = IF f = fp THEN Untold[fp] - item.count
                                             ELSE Untold[f]
    BY <1>1, <1>7, <2>2, <2>3 DEF Untold
  <2>5. /\ Untold = [f \in Fp |-> Untold[f]]
        /\ Untold' = [f \in Fp |-> Untold'[f]]
    BY DEF Untold
  <2> QED BY <2>1, <2>4, <2>5 DEF N!Set
<1>10. N!Deliver(fp)
  BY <1>1, <1>3, <1>5, <1>6, <1>8, <1>9 DEF N!Deliver, N!NoAlert, NoAlert
<1> QED BY <1>10 DEF N!Next

LEMMA RecordFailureMaps ==
  ASSUME Inv, AlertsForm, AlertsForm', RecordFailure
  PROVE  N!Next
<1>1. PICK ok \in Attempts("store") :
        /\ WriteBack(ok)
        /\ meta' = IF ok THEN BumpCounter(meta, "transport_failures") ELSE meta
  BY DEF RecordFailure
<1>2. /\ TypeOK /\ InFlightExact /\ pc = "failed" /\ pc' = "idle"
      /\ inFlight' = inFlight \ {item.fp}
      /\ UNCHANGED <<clock, queue, call, rows>>
  BY <1>1 DEF Inv, RecordFailure, WriteBack, Landed
<1>3. PICK fp \in Fp : fp = item.fp
  BY <1>2, CarriedAlert
<1>4. /\ Alerts[fp] # NoAlert /\ Waiting = {m \in OnWay : m.fp # fp}
  BY <1>2, <1>3, CarriedAlert
<1>5. OnWay' = {m \in OnWay : m.fp # fp}
  BY <1>2, <1>4 DEF OnWay, Carried, Waiting
<1>6. Alerts' = N!Set(Alerts, fp, NoAlert)
  BY <1>5, AlertsStep
<1>7. UNCHANGED <<Marked, Untold, LastDelivered>>
  BY <1>2, RowsAlone
<1>8. CASE ok
  <2>1. Lost' = Lost + 1
    <3>1. /\ meta'.dropped = meta.dropped
          /\ meta'.transport_failures = meta.transport_failures + 1
          /\ meta.dropped \in Int /\ meta.transport_failures \in Int
      BY <1>1, <1>2, <1>8, CounterEffect DEF Counters, TypeOK
    <3> QED BY <3>1 DEF Lost
  <2>2. N!Lose(fp)
    BY <1>2, <1>3, <1>4, <1>6, <1>7, <2>1 DEF N!Lose, N!NoAlert, NoAlert, Lost
  <2> QED BY <2>2 DEF N!Next
<1>9. CASE ~ok
  <2>1. FaultKinds # {} /\ meta' = meta
    BY <1>1, <1>9 DEF Attempts
  <2>2. N!LoseUncounted(fp)
    BY <1>2, <1>3, <1>4, <1>6, <1>7, <2>1
       DEF N!LoseUncounted, N!NoAlert, NoAlert
  <2> QED BY <2>1, <2>2 DEF N!Next, N!Trouble
<1> QED BY <1>8, <1>9

LEMMA RecordSentMaps ==
  ASSUME Inv, RowsKept, AlertsForm, AlertsForm', RecordSent
  PROVE  N!Next
<1>0. PICK fp \in Fp : fp = item.fp
  BY CarriedAlert DEF Inv, RecordSent
<1> DEFINE old == rows[fp]
<1>1. PICK ok \in Attempts("store") :
        /\ WriteBack(ok)
        /\ rows' = IF ok
                   THEN [rows EXCEPT ![fp] = Sent(@, sentAt, item.count)]
                   ELSE rows
  BY <1>0 DEF RecordSent
<1>2. /\ TypeOK /\ InFlightExact /\ pc = "sent" /\ pc' = "idle"
      /\ inFlight' = inFlight \ {fp}
      /\ UNCHANGED <<clock, queue, call, meta>>
  BY <1>0, <1>1 DEF Inv, RecordSent, WriteBack, Landed
<1>3. /\ fp \in inFlight /\ item \in Item
      /\ Alerts[fp] = NoAlert /\ Waiting = OnWay
  BY <1>0, <1>2, CarriedAlert
<1>4. Alerts' = Alerts
  BY <1>2, <1>3, AlertsStep DEF OnWay, Carried, Waiting
<1>5. /\ old \in Row /\ sentAt \in Int /\ item.count \in Nat
      /\ old.suppressed_count >= item.count
      /\ old.last_notified <= sentAt
  <2>1. item \in Taken
    BY <1>2 DEF Taken
  <2>2. Covered(item) /\ Notified(fp) /\ history[fp].at = sentAt
    BY <1>0, <1>2, <2>1 DEF Inv
  <2> QED BY <1>0, <1>2, <1>3, <2>2 DEF Covered, Notified, TypeOK, Item, Never
<1>6. rows' = [rows EXCEPT ![fp] = rows'[fp]] /\ rows'[fp].resolved = old.resolved
  <2>1. rows \in [Fp -> Row]
    BY <1>2 DEF TypeOK
  <2>2. Sent(old, sentAt, item.count).resolved = old.resolved
    BY <1>5 DEF Sent, Row
  <2> QED BY <1>1, <2>1, <2>2
<1>7. Marked' = Marked
  <2>1. \A f \in Fp : rows'[f].resolved = rows[f].resolved
    BY <1>2, <1>6 DEF TypeOK
  <2> QED BY <2>1 DEF Marked
<1>8. \A f \in Fp :
        /\ ~Unsettled(f)' /\ Owed(f)' = 0
        /\ Unsettled(f) <=> f = fp
        /\ Owed(f) = IF f = fp THEN item.count ELSE 0
  BY <1>0, <1>2 DEF Unsettled, Owed
<1>9. /\ LastDelivered[fp] = sentAt
      /\ Untold[fp] = old.suppressed_count - item.count
  BY <1>8 DEF LastDelivered, Untold
<1>10. rows'[fp] \in Row
  BY <1>1, <1>2, <1>5, RowOperators DEF TypeOK
<1>11. /\ LastDelivered'[fp] = rows'[fp].last_notified
       /\ Untold'[fp] = rows'[fp].suppressed_count
  BY <1>8, <1>10 DEF LastDelivered, Untold, Row
<1>12. /\ LastDelivered' = N!Set(LastDelivered, fp, LastDelivered'[fp])
       /\ Untold' = N!Set(Untold, fp, Untold'[fp])
  <2>1. \A f \in Fp : f # fp => /\ LastDelivered'[f] = LastDelivered[f]
                                /\ Untold'[f] = Untold[f]
    BY <1>2, <1>6, <1>8 DEF LastDelivered, Untold, TypeOK
  <2>2. /\ LastDelivered = [f \in Fp |-> LastDelivered[f]]
        /\ LastDelivered' = [f \in Fp |-> LastDelivered'[f]]
        /\ Untold = [f \in Fp |-> Untold[f]]
        /\ Untold' = [f \in Fp |-> Untold'[f]]
    BY DEF LastDelivered, Untold
  <2> QED BY <2>1, <2>2 DEF N!Set
<1>13. CASE ok /\ old.stored
  <2>1. /\ rows'[fp] = Sent(old, sentAt, item.count)
    BY <1>1, <1>2, <1>13 DEF TypeOK
  <2>2. /\ rows'[fp].last_notified = sentAt
        /\ rows'[fp].suppressed_count = old.suppressed_count - item.count
    BY <1>5, <1>13, <2>1 DEF Sent, Row
  <2>3. LastDelivered' = LastDelivered /\ Untold' = Untold
    <3>1. /\ N!Set(LastDelivered, fp, LastDelivered[fp]) = LastDelivered
          /\ N!Set(Untold, fp, Untold[fp]) = Untold
      BY DEF N!Set, LastDelivered, Untold
    <3>2. /\ LastDelivered'[fp] = LastDelivered[fp]
          /\ Untold'[fp] = Untold[fp]
      BY <1>9, <1>11, <2>2
    <3> QED BY <1>12, <3>1, <3>2
  <2>4. N!Settle(fp)
    BY <1>2, <1>3, <1>4, <1>7, <2>3 DEF N!Settle, N!NoAlert, NoAlert
  <2> QED BY <2>4 DEF N!Next
<1>14. CASE ~(ok /\ old.stored)
  <2>1. FaultKinds # {}
    BY <1>1, <1>3, <1>14 DEF RowsKept, Attempts
  <2>2. rows'[fp] = old
    BY <1>1, <1>2, <1>14 DEF Sent, TypeOK
  <2>3. /\ LastDelivered'[fp] <= LastDelivered[fp]
        /\ Untold'[fp] >= Untold[fp]
    BY <1>5, <1>9, <1>11, <2>2 DEF Row
  <2>4. N!SettleUnlearnt(fp)
    BY <1>2, <1>3, <1>4, <1>7, <1>12, <2>3
       DEF N!SettleUnlearnt, N!Unlearnt, N!Delivered, N!NoAlert, NoAlert
  <2> QED BY <2>1, <2>4 DEF N!Next, N!Trouble
<1> QED BY <1>13, <1>14

-----------------------------------------------------------------------------
(* The rest.                                                               *)

LEMMA SetResolvedMaps ==
  ASSUME Inv, AlertsForm, AlertsForm', NEW fp \in Fp, NEW resolved \in BOOLEAN,
         SetResolved(fp, resolved)
  PROVE  N!Next \/ UNCHANGED N!vars
<1>1. /\ TypeOK /\ rows[fp].stored
      /\ rows' = [rows EXCEPT ![fp] = Resolve(rows[fp], resolved)]
      /\ UNCHANGED <<clock, meta, inFlight, queue, pc, item, sentAt, call>>
  BY DEF Inv, SetResolved, memory
<1>2. PICK row : row = Resolve(rows[fp], resolved)
  OBVIOUS
<1>3. rows[fp] \in Row /\ rows \in [Fp -> Row]
  BY <1>1 DEF TypeOK
<1>4. /\ row \in Row /\ row.resolved = resolved
      /\ row.last_notified = rows[fp].last_notified
      /\ row.suppressed_count = rows[fp].suppressed_count
  BY <1>1, <1>2, <1>3 DEF Resolve, Row
<1>5. Alerts' = Alerts
  BY <1>1, AlertsStep DEF OnWay, Waiting, Carried
<1>6. /\ LastDelivered' = LastDelivered
      /\ Untold' = N!Set(Untold, fp, row.suppressed_count - Owed(fp))
      /\ Marked' = N!Set(Marked, fp, resolved)
  BY <1>1, <1>2, <1>4, RowMapping
<1>7. Untold' = Untold
  <2>1. row.suppressed_count - Owed(fp) = Untold[fp]
    BY <1>4 DEF Untold
  <2> QED BY <1>6, <2>1, SetSame
<1>8. Marked[fp] \in BOOLEAN
  BY <1>3 DEF Marked, Row
<1>9. CASE resolved = Marked[fp]
  BY <1>1, <1>5, <1>6, <1>7, <1>9, SetSame, Stutters
<1>10. CASE resolved = ~Marked[fp]
  <2>1. N!Mark(fp)
    BY <1>1, <1>5, <1>6, <1>7, <1>10 DEF N!Mark
  <2> QED BY <2>1 DEF N!Next
<1> QED BY <1>8, <1>9, <1>10

LEMMA TickMaps ==
  ASSUME AlertsForm, AlertsForm', Tick
  PROVE  N!Next
<1>1. /\ clock' = clock + 1
      /\ UNCHANGED <<rows, meta, inFlight, queue, pc, item, sentAt, call>>
  BY DEF Tick, memory
<1>2. UNCHANGED <<Marked, Untold, LastDelivered>>
  BY <1>1 DEF Marked, Untold, LastDelivered, Owed, Unsettled
<1>3. Alerts' = Alerts
  BY <1>1, AlertsStep DEF OnWay, Waiting, Carried
<1>4. N!Tick
  BY <1>1, <1>2, <1>3 DEF N!Tick
<1> QED BY <1>4 DEF N!Next

LEMMA ReportMaps ==
  ASSUME AlertsForm, AlertsForm', NEW c \in Caller, NEW fp \in Fp, Report(c, fp)
  PROVE  N!Next
<1>1. /\ call[c] = NoCall
      /\ call' = [call EXCEPT ![c] = [fp |-> fp, now |-> clock]]
      /\ UNCHANGED <<clock, rows, meta, inFlight, queue, pc, item, sentAt>>
  BY DEF Report
<1>2. UNCHANGED <<Marked, Untold, LastDelivered>>
  BY <1>1 DEF Marked, Untold, LastDelivered, Owed, Unsettled
<1>3. Alerts' = Alerts
  BY <1>1, AlertsStep DEF OnWay, Waiting, Carried
<1>4. N!Begins(c, fp)
  BY <1>1, <1>2, <1>3 DEF N!Begins, N!NoCall, NoCall, N!Set
<1> QED BY <1>4 DEF N!Next

LEMMA RestartMaps ==
  ASSUME Inv, AlertsForm, AlertsForm', Restart
  PROVE  N!Next
<1>1. /\ TypeOK /\ InFlightExact
      /\ inFlight' = {} /\ queue' = <<>> /\ pc' = "none"
      /\ call' = [c \in Caller |-> NoCall]
      /\ rows' = [fp \in Fp |-> Pruned(rows[fp], clock)]
      /\ UNCHANGED <<clock, meta>>
  BY DEF Inv, Restart
<1>2. MaxKills > 0
  <2>1. spent.kills \in Nat /\ spent.kills < MaxKills /\ MaxKills \in Nat
    BY <1>1, ReporterAssumption DEF Restart, TypeOK
  <2> QED BY <2>1
<1>3. Alerts' = [fp \in Fp |-> NoAlert]
  <2>1. OnWay' = {}
    BY <1>1 DEF OnWay, Waiting, Carried
  <2> QED BY <2>1, AlertsStep
<1>4. ASSUME NEW fp \in Fp
      PROVE  \/ Marked'[fp] = Marked[fp] /\ (N!Same(fp) \/ N!Unlearnt(fp))
             \/ N!Forgotten(fp)
  <2>1. ~Unsettled(fp)' /\ Owed(fp)' = 0
    BY <1>1 DEF Unsettled, Owed
  <2>2. rows'[fp] = Pruned(rows[fp], clock) /\ rows[fp] \in Row
    BY <1>1 DEF TypeOK
  <2>3. /\ LastDelivered'[fp] = rows'[fp].last_notified
        /\ Marked'[fp] = rows'[fp].resolved
        /\ Untold'[fp] = rows'[fp].suppressed_count - 0
    BY <2>1 DEF LastDelivered, Marked, Untold
  <2>4. CASE Expired(rows[fp], clock)
    BY <2>2, <2>3, <2>4 DEF Pruned, NoRow, N!Forgotten, N!Never, Never
  <2>5. CASE ~Expired(rows[fp], clock) /\ ~Unsettled(fp)
    <3>1. rows'[fp] = rows[fp]
      BY <2>2, <2>5 DEF Pruned
    <3>2. Owed(fp) = 0
      BY <2>5 DEF Unsettled, Owed
    <3>3. /\ LastDelivered[fp] = rows[fp].last_notified
          /\ Marked[fp] = rows[fp].resolved
          /\ Untold[fp] = rows[fp].suppressed_count - 0
      BY <2>5, <3>2 DEF LastDelivered, Marked, Untold
    <3> QED BY <2>3, <3>1, <3>3 DEF N!Same
  <2>6. CASE ~Expired(rows[fp], clock) /\ Unsettled(fp)
    <3>1. rows'[fp] = rows[fp]
      BY <2>2, <2>6 DEF Pruned
    <3>2. pc = "sent" /\ item.fp = fp /\ Owed(fp) = item.count
      BY <2>6 DEF Unsettled, Owed
    <3>3. item.count \in Nat /\ fp \in inFlight /\ Alerts[fp] = NoAlert
      BY <1>1, <3>2, CarriedAlert DEF Item
    <3>4. /\ LastDelivered[fp] = sentAt
          /\ Marked[fp] = rows[fp].resolved
          /\ Untold[fp] = rows[fp].suppressed_count - item.count
      BY <2>6, <3>2 DEF LastDelivered, Marked, Untold
    <3>5. rows[fp].last_notified <= sentAt
      BY <3>2 DEF Inv, Notified
    <3>6. /\ LastDelivered'[fp] <= LastDelivered[fp]
          /\ Untold'[fp] >= Untold[fp]
      BY <2>2, <2>3, <3>1, <3>3, <3>4, <3>5 DEF Row
    <3> QED BY <2>3, <3>1, <3>3, <3>4, <3>6
            DEF N!Unlearnt, N!Delivered, N!NoAlert, NoAlert
  <2> QED BY <2>4, <2>5, <2>6
<1>5. DOMAIN LastDelivered' = Fp /\ DOMAIN Untold' = Fp /\ DOMAIN Marked' = Fp
  BY DEF LastDelivered, Untold, Marked
<1>6. N!Kill
  BY <1>1, <1>2, <1>3, <1>4, <1>5
     DEF N!Kill, N!NoCall, NoCall, N!NoAlert, NoAlert
<1> QED BY <1>6 DEF N!Next

-----------------------------------------------------------------------------
(* Every step.                                                             *)

\* With no failures Submit leaves the row it decided on in the table.
LEMMA SubmitStores ==
  ASSUME TypeOK, FaultKinds = {}, NEW c \in Caller, Submit(c)
  PROVE  rows'[call[c].fp].stored
<1> DEFINE fp == call[c].fp
           old == rows[fp]
           now == call[c].now
<1>1. fp \in Fp /\ old \in Row /\ Blank(old) /\ now \in Int
  BY CriticalType DEF Submit, TypeOK, Blank
<1>2. PICK v \in Verdicts(old, now), saved \in Attempts("store") :
        LET m == [count |-> v.decision.suppressed_count,
                  reopened |-> v.decision.was_resolved]
        IN
        /\ v.ok \in Attempts("store")
        /\ v.decision.should_send
        /\ rows' = [rows EXCEPT ![fp] =
                      IF saved THEN WithMessage(v.row, m) ELSE v.row]
  BY DEF Submit
<1>3. v.row.stored /\ v.row \in Row
  BY <1>1, <1>2, VerdictOutcome DEF Attempts
<1>4. \A m : WithMessage(v.row, m).stored
  BY <1>3 DEF WithMessage, Row
<1>5. rows'[fp].stored
  BY <1>1, <1>2, <1>3, <1>4 DEF TypeOK
<1> QED BY <1>5

LEMMA RowsKeptStep == Inv /\ RowsKept /\ [Next]_vars => RowsKept'
<1> SUFFICES ASSUME Inv, [Next]_vars, FaultKinds = {},
                    \A fp \in inFlight : rows[fp].stored,
                    NEW fp \in inFlight'
             PROVE  rows'[fp].stored
  BY DEF RowsKept
<1>1. TypeOK /\ rows \in [Fp -> Row] /\ inFlight \subseteq Fp
  BY DEF Inv, TypeOK
<1>2. ASSUME NEW c \in Caller,
             \/ SuppressInFlight(c) \/ SuppressCooldown(c)
             \/ Drop(c) \/ RenderRaises(c)
      PROVE  rows'[fp].stored
  <2>1. call[c].fp \in Fp /\ \E row : Grows(c, row)
    BY <1>1, <1>2, CallerEffect
  <2>2. fp \in inFlight
    BY <1>2 DEF SuppressInFlight, SuppressCooldown, Drop, Rollback, RenderRaises
  <2> QED BY <1>1, <2>1, <2>2 DEF Grows
<1>3. ASSUME NEW c \in Caller, Submit(c)
      PROVE  rows'[fp].stored
  <2>1. call[c].fp \in Fp /\ \E row : Grows(c, row)
    BY <1>1, <1>3, CallerEffect
  <2>2. CASE fp = call[c].fp
    BY <1>1, <1>3, <2>2, SubmitStores
  <2>3. CASE fp # call[c].fp
    <3>1. fp \in inFlight
      BY <1>3, <2>3 DEF Submit
    <3> QED BY <1>1, <2>1, <2>3, <3>1 DEF Grows
  <2> QED BY <2>2, <2>3
<1>4. CASE RecordSent
  <2>1. PICK ok \in Attempts("store") :
          /\ WriteBack(ok)
          /\ rows' = IF ok
                     THEN [rows EXCEPT ![item.fp] = Sent(@, sentAt, item.count)]
                     ELSE rows
    BY <1>4 DEF RecordSent
  <2>2. fp \in inFlight /\ fp \in Fp /\ rows[fp] \in Row
    BY <1>1, <2>1 DEF WriteBack, Landed
  <2>3. rows'[fp] = rows[fp] \/ rows'[fp] = Sent(rows[fp], sentAt, item.count)
    BY <1>1, <2>1, <2>2
  <2> QED BY <2>2, <2>3 DEF Sent, Row
<1>5. CASE RecordFailure
  BY <1>5 DEF RecordFailure, WriteBack, Landed
<1>6. ASSUME NEW f \in Fp, NEW resolved \in BOOLEAN, SetResolved(f, resolved)
      PROVE  rows'[fp].stored
  <2>1. rows' = [rows EXCEPT ![f] = Resolve(@, resolved)] /\ fp \in inFlight
    BY <1>6 DEF SetResolved, memory
  <2>2. rows'[fp] = rows[fp] \/ rows'[fp] = Resolve(rows[fp], resolved)
    BY <1>1, <2>1
  <2> QED BY <1>1, <2>1, <2>2 DEF Resolve, Row
<1>7. CASE Restart
  BY <1>7 DEF Restart
<1>8. CASE \/ \E c \in Caller, f \in Fp : Report(c, f)
           \/ WorkerGet \/ SendDelivers \/ SendFails \/ Tick \/ UNCHANGED vars
  BY <1>8 DEF Report, WorkerGet, SendDelivers, SendFails, Tick, memory, vars
<1> QED BY <1>2, <1>3, <1>4, <1>5, <1>6, <1>7, <1>8
        DEF Next, Occurrence, WorkerStep

\* Without failures of the store an error with an alert on its way has a row:
\* what bump_suppressed() and record_sent() write is never lost on a row that
\* is not there.
THEOREM RowsAreKept == Spec => [](Inv /\ RowsKept)
<1>1. Init => RowsKept
  BY DEF Init, RowsKept
<1> QED BY InvInit, InvStep, RowsKeptStep, <1>1, PTL DEF Spec

LEMMA MapsInit == Init => N!Init
<1> SUFFICES ASSUME Init PROVE N!Init
  OBVIOUS
<1>1. \A fp \in Fp : Owed(fp) = 0 /\ ~Unsettled(fp)
  BY DEF Init, Owed, Unsettled
<1>2. OnWay = {}
  BY DEF Init, OnWay, Waiting, Carried
<1>3. AlertsForm
  BY TypeInit, ExactInit, AlertsAre
<1>4. Alerts = [fp \in Fp |-> NoAlert]
  BY <1>2, <1>3 DEF AlertsForm, Alerts
<1>5. /\ Marked = [fp \in Fp |-> FALSE]
      /\ LastDelivered = [fp \in Fp |-> Never]
      /\ Untold = [fp \in Fp |-> 0]
  BY <1>1 DEF Init, Marked, LastDelivered, Untold, NoRow
<1>6. meta.dropped + meta.transport_failures = 0
  BY DEF Init, NoCounters
<1> QED BY <1>4, <1>5, <1>6
        DEF Init, N!Init, N!NoCall, NoCall, N!NoAlert, NoAlert, N!Never, Never

LEMMA MapsStep ==
  ASSUME Inv, RowsKept, Inv', [Next]_vars
  PROVE  [N!Next]_(N!vars)
<1>1. AlertsForm
  BY AlertsAre DEF Inv
<1>2. AlertsForm'
  BY AlertsAreNext DEF Inv
<1>3. ASSUME NEW c \in Caller, NEW fp \in Fp, Report(c, fp)
      PROVE  N!Next
  BY <1>1, <1>2, <1>3, ReportMaps
<1>4. ASSUME Occurrence
      PROVE  N!Next
  <2>1. ASSUME NEW c \in Caller, SuppressInFlight(c) PROVE N!Next
    BY <1>1, <1>2, <2>1, SuppressInFlightMaps
  <2>2. ASSUME NEW c \in Caller, SuppressCooldown(c) PROVE N!Next
    BY <1>1, <1>2, <2>2, SuppressCooldownMaps
  <2>3. ASSUME NEW c \in Caller, Submit(c) PROVE N!Next
    BY <1>1, <1>2, <2>3, SubmitMaps
  <2>4. ASSUME NEW c \in Caller, Drop(c) PROVE N!Next
    BY <1>1, <1>2, <2>4, DropMaps
  <2>5. ASSUME NEW c \in Caller, RenderRaises(c) PROVE N!Next
    BY <1>1, <1>2, <2>5, RenderRaisesMaps
  <2> QED BY <1>4, <2>1, <2>2, <2>3, <2>4, <2>5 DEF Occurrence
<1>5. ASSUME WorkerStep
      PROVE  N!Next \/ UNCHANGED N!vars
  <2>1. CASE WorkerGet
    BY <1>1, <1>2, <2>1, WorkerGetMaps
  <2>2. CASE SendDelivers
    BY <1>1, <1>2, <2>2, SendDeliversMaps
  <2>3. CASE SendFails
    BY <1>1, <1>2, <2>3, SendFailsMaps
  <2>4. CASE RecordSent
    BY <1>1, <1>2, <2>4, RecordSentMaps
  <2>5. CASE RecordFailure
    BY <1>1, <1>2, <2>5, RecordFailureMaps
  <2> QED BY <1>5, <2>1, <2>2, <2>3, <2>4, <2>5 DEF WorkerStep
<1>6. ASSUME NEW fp \in Fp, NEW resolved \in BOOLEAN, SetResolved(fp, resolved)
      PROVE  N!Next \/ UNCHANGED N!vars
  BY <1>1, <1>2, <1>6, SetResolvedMaps
<1>7. CASE Tick
  BY <1>1, <1>2, <1>7, TickMaps
<1>8. CASE Restart
  BY <1>1, <1>2, <1>8, RestartMaps
<1>9. CASE UNCHANGED vars
  <2>1. UNCHANGED <<clock, rows, meta, inFlight, queue, pc, item, sentAt, call>>
    BY <1>9 DEF vars, memory
  <2>2. UNCHANGED <<Marked, Untold, LastDelivered>>
    BY <2>1 DEF Marked, Untold, LastDelivered, Owed, Unsettled
  <2>3. Alerts' = Alerts
    BY <1>1, <1>2, <2>1, AlertsStep DEF OnWay, Waiting, Carried
  <2> QED BY <2>1, <2>2, <2>3, Stutters
<1> QED BY <1>3, <1>4, <1>5, <1>6, <1>7, <1>8, <1>9 DEF Next

\* SPEC.md:247-282, __init__.py:336-342: the reporter keeps the promises of
\* Notifier, whatever the number of threads, fingerprints and places in the
\* queue, and whichever failures and kills there are.
THEOREM ReporterKeepsThePromises == Spec => KeepsThePromises
<1>1. Inv /\ RowsKept /\ Inv' /\ [Next]_vars => [N!Next]_(N!vars)
  BY MapsStep
<1> QED BY MapsInit, RowsAreKept, <1>1, PTL DEF Spec, KeepsThePromises, N!Spec
=============================================================================
