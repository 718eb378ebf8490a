---------------------------- MODULE HeartbeatProofs ----------------------------
(***************************************************************************)
(* Theorems about Heartbeat, for every number of processes and             *)
(* fingerprints, every length of the day, and every pattern of failures,   *)
(* kills and clock ticks.                                                  *)
(***************************************************************************)
EXTENDS Heartbeat, SequenceTheorems, TLAPS

LEMMA SlotType == \A now \in Nat : Slot(now) \in Nat
<1> SUFFICES ASSUME NEW now \in Nat PROVE Slot(now) \in Nat
  OBVIOUS
<1>1. now \div Day \in Nat
  BY HeartbeatAssumption
<1>2. Target \in Nat /\ Day \in Nat
  BY HeartbeatAssumption
<1>3. (now \div Day) * Day \in Nat
  BY <1>1, <1>2
<1> QED BY <1>2, <1>3 DEF Slot

-----------------------------------------------------------------------------
(* Type correctness.                                                       *)

Update == [key : Counter, delta : Int]

LEMMA TypeInit == Init => TypeOK
<1> SUFFICES ASSUME Init PROVE TypeOK
  OBVIOUS
<1>1. /\ Zero \in [Counter -> Nat]
      /\ NoEntry \in Entry
      /\ NoBeat \in Beat
  BY DEF Zero, NoEntry, Entry, NoBeat, Beat, Never
<1>2. <<>> \in Seq([key : Counter, delta : Int])
  OBVIOUS
<1> QED BY <1>1, <1>2 DEF Init, TypeOK, Never, NoGhost

\* The updates a thread takes the lock for are updates of counters.
LEMMA WorkType ==
  /\ <<>> \in Seq(Update)
  /\ \A k \in Counter : Bump(k) \in Seq(Update)
  /\ \A told \in [Counter -> Nat] : Subtractions(told) \in Seq(Update)
<1>1. <<>> \in Seq(Update)
  OBVIOUS
<1>2. \A k \in Counter : Bump(k) \in Seq(Update)
  BY DEF Bump, Update
<1>3. \A k \in Counter, n \in Nat : Subtraction(k, n) \in Seq(Update)
  <2> SUFFICES ASSUME NEW k \in Counter, NEW n \in Nat, n > 0
               PROVE  <<[key |-> k, delta |-> -n]>> \in Seq(Update)
    BY <1>1 DEF Subtraction
  <2>1. [key |-> k, delta |-> -n] \in Update
    BY DEF Update
  <2> QED BY <2>1
<1>4. ASSUME NEW told \in [Counter -> Nat]
      PROVE  Subtractions(told) \in Seq(Update)
  <2>1. /\ "dropped" \in Counter /\ "transport_failures" \in Counter
        /\ "suppressed" \in Counter
    BY DEF Counter
  <2>2. /\ Subtraction("dropped", told["dropped"]) \in Seq(Update)
        /\ Subtraction("transport_failures", told["transport_failures"])
             \in Seq(Update)
        /\ Subtraction("suppressed", told["suppressed"]) \in Seq(Update)
    BY <1>3, <2>1
  <2> QED BY <2>2 DEF Subtractions
<1> QED BY <1>1, <1>2, <1>4

LEMMA AcquireType ==
  ASSUME TypeOK, NEW p \in Proc, NEW thread \in {"reporter", "heartbeat"},
         NEW todo \in Seq(Update), Acquire(p, thread, todo)
  PROVE  /\ lock' \in [Proc -> {"free", "reporter", "heartbeat"}]
         /\ work' \in [Proc -> Seq(Update)]
BY DEF TypeOK, Acquire, Update

LEMMA NoBeatType == NoBeat \in Beat
BY DEF NoBeat, Beat, Zero, Never

\* The first update of a thread that has some to do.
LEMMA FirstUpdate ==
  ASSUME TypeOK, NEW p \in Proc, work[p] # <<>>
  PROVE  /\ Head(work[p]) \in Update
         /\ Head(work[p]).key \in Counter /\ Head(work[p]).delta \in Int
         /\ Tail(work[p]) \in Seq(Update)
<1>1. work[p] \in Seq(Update)
  BY DEF TypeOK, Update
<1>2. Head(work[p]) \in Update /\ Tail(work[p]) \in Seq(Update)
  BY <1>1, HeadTailProperties
<1> QED BY <1>2 DEF Update

LEMMA ReadCounterType ==
  ASSUME TypeOK, NEW p \in Proc, ReadCounter(p)
  PROVE  TypeOK'
<1>1. counters[Head(work[p]).key] \in Nat
  BY FirstUpdate DEF ReadCounter, TypeOK
<1>2. got' \in [Proc -> Nat \union {Never}]
  BY <1>1 DEF ReadCounter, TypeOK
<1>3. \A q \in Proc : work'[q] = <<>> => got'[q] = Never
  BY DEF ReadCounter, TypeOK
<1> QED BY <1>2, <1>3 DEF ReadCounter, TypeOK, store, alerts

LEMMA WriteCounterType ==
  ASSUME TypeOK, NEW p \in Proc, WriteCounter(p)
  PROVE  TypeOK'
<1> DEFINE todo == Head(work[p])
<1>1. work[p] # <<>>
  BY DEF WriteCounter, TypeOK
<1>2. /\ todo.key \in Counter /\ todo.delta \in Int
      /\ Tail(work[p]) \in Seq(Update)
  BY <1>1, FirstUpdate
<1> HIDE DEF todo
<1>3. got[p] \in Nat
  BY DEF WriteCounter, TypeOK
<1>4. Written(got[p], todo.delta) \in Nat
  BY <1>2, <1>3 DEF Written
<1>5. counters' \in [Counter -> Nat]
  BY <1>2, <1>4 DEF WriteCounter, TypeOK, todo
<1>6. work' \in [Proc -> Seq(Update)]
  BY <1>2 DEF WriteCounter, TypeOK, Update
<1>7. /\ got' \in [Proc -> Nat \union {Never}]
      /\ \A q \in Proc : work'[q] = <<>> => got'[q] = Never
  BY DEF WriteCounter, TypeOK
<1>8. ghost' \in [bumps : [Counter -> Nat], reported : [Counter -> Nat],
                  started : SUBSET Nat, unlisted : SUBSET Fp,
                  overtaken : SUBSET Fp, delivered : Nat \union {Never}]
  <2>0. ghost.bumps \in [Counter -> Nat]
    BY DEF TypeOK
  <2>1. ghost.bumps[todo.key] + 1 \in Nat
    BY <1>2, <2>0
  <2>2. [ghost.bumps EXCEPT ![todo.key] = @ + 1] \in [Counter -> Nat]
    BY <2>0, <2>1
  <2>3. \/ ghost' = ghost
        \/ ghost' = [ghost EXCEPT !.bumps =
                       [ghost.bumps EXCEPT ![todo.key] = @ + 1]]
    BY DEF WriteCounter, TypeOK, todo
  <2> QED BY <2>2, <2>3 DEF TypeOK
<1> QED BY <1>5, <1>6, <1>7, <1>8 DEF WriteCounter, TypeOK, Update, alerts

LEMMA ReleaseType ==
  ASSUME TypeOK, NEW p \in Proc, Release(p)
  PROVE  TypeOK'
<1>1. CASE lock[p] = "heartbeat"
  <2>1. /\ pc' = [pc EXCEPT ![p] = "wait"]
        /\ beat' = [beat EXCEPT ![p] = NoBeat]
        /\ lock' = [lock EXCEPT ![p] = "free"]
    BY <1>1 DEF Release
  <2>2. beat' \in [Proc -> Beat]
    BY <2>1, NoBeatType DEF TypeOK
  <2>3. \A q \in Proc :
          /\ lock'[q] = "heartbeat" <=> pc'[q] \in {"claimed", "settling"}
          /\ lock'[q] = "free" \/ pc'[q] = "claimed" => work'[q] = <<>>
          /\ work'[q] = <<>> => got'[q] = Never
    BY <2>1 DEF Release, TypeOK
  <2> QED BY <2>1, <2>2, <2>3 DEF Release, TypeOK, store, alerts
<1>2. CASE lock[p] # "heartbeat"
  BY <1>2 DEF Release, TypeOK, store, alerts
<1> QED BY <1>1, <1>2

\* Changing one field of a beat.
LEMMA BeatUpdate ==
  ASSUME NEW b \in Beat
  PROVE  /\ \A n \in Nat : [b EXCEPT !.now = n] \in Beat
         /\ \A n \in Nat \union {Never} : [b EXCEPT !.since = n] \in Beat
         /\ \A told \in [Counter -> Nat], listed \in SUBSET Fp :
              [b EXCEPT !.told = told, !.listed = listed] \in Beat
<1>1. \A n \in Nat : [b EXCEPT !.now = n] \in Beat
  BY DEF Beat
<1>2. \A n \in Int : [b EXCEPT !.since = n] \in Beat
  BY DEF Beat
<1>3. ASSUME NEW told \in [Counter -> Nat], NEW listed \in SUBSET Fp
      PROVE  [b EXCEPT !.told = told, !.listed = listed] \in Beat
  BY DEF Beat
<1>4. Nat \union {Never} \subseteq Int
  BY DEF Never
<1> QED BY <1>1, <1>2, <1>3, <1>4

LEMMA ClaimType ==
  ASSUME TypeOK, NEW p \in Proc, Claim(p)
  PROVE  TypeOK'
<1>1. beat[p] \in Beat /\ Slot(beat[p].now) \in Nat
  BY SlotType DEF TypeOK, Beat
<1>2. beat' = [beat EXCEPT ![p] = [beat[p] EXCEPT !.since = lastHeartbeat]]
  BY DEF Claim, TypeOK
<1>3. beat' \in [Proc -> Beat] /\ lastHeartbeat' \in Nat
  <2>1. [beat[p] EXCEPT !.since = lastHeartbeat] \in Beat
    BY <1>1, BeatUpdate DEF TypeOK
  <2> QED BY <1>1, <1>2, <2>1 DEF Claim, TypeOK
<1>4. /\ lock' = [lock EXCEPT ![p] = "heartbeat"]
      /\ work' = [work EXCEPT ![p] = <<>>]
      /\ pc' = [pc EXCEPT ![p] = "claimed"]
      /\ lock[p] = "free" /\ work[p] = <<>>
  BY DEF Claim, Acquire, TypeOK
<1>5. work' = work
  BY <1>4 DEF TypeOK
<1>6. UNCHANGED <<clock, counters, table, got, caller, inFlight, worker, ghost, spent>>
  BY DEF Claim, alerts
<1> QED BY <1>3, <1>4, <1>5, <1>6, ZenonT(30) DEF TypeOK

LEMMA SnapshotType ==
  ASSUME TypeOK, NEW p \in Proc, Snapshot(p)
  PROVE  TypeOK'
<1> DEFINE listed == Active(beat[p].since)
<1>1. beat[p] \in Beat /\ Slot(beat[p].now) \in Nat
  BY SlotType DEF TypeOK, Beat
<1>2. listed \in SUBSET Fp
  BY DEF Active
<1> HIDE DEF listed
<1>3. beat' \in [Proc -> Beat]
  <2>1. [beat[p] EXCEPT !.told = counters, !.listed = listed] \in Beat
    BY <1>1, <1>2, BeatUpdate DEF TypeOK
  <2>2. beat' = [beat EXCEPT ![p] =
                   [beat[p] EXCEPT !.told = counters, !.listed = listed]]
    BY DEF Snapshot, TypeOK, listed
  <2> QED BY <2>1, <2>2 DEF TypeOK
<1>4. ghost' \in [bumps : [Counter -> Nat], reported : [Counter -> Nat],
                  started : SUBSET Nat, unlisted : SUBSET Fp,
                  overtaken : SUBSET Fp, delivered : Nat \union {Never}]
  BY <1>1 DEF Snapshot, TypeOK
<1>5. /\ lock' = [lock EXCEPT ![p] = "free"]
      /\ pc' = [pc EXCEPT ![p] = "sending"]
      /\ pc[p] = "claimed" /\ work[p] = <<>>
      /\ UNCHANGED <<clock, store, work, got, caller, alerts, spent>>
  BY DEF Snapshot, TypeOK
<1>6. \A q \in Proc :
        /\ lock'[q] = "heartbeat" <=> pc'[q] \in {"claimed", "settling"}
        /\ lock'[q] = "free" \/ pc'[q] = "claimed" => work'[q] = <<>>
  BY <1>5 DEF TypeOK
<1> QED BY <1>3, <1>4, <1>5, <1>6 DEF TypeOK, store, alerts

LEMMA SendDeliversType ==
  ASSUME TypeOK, NEW p \in Proc, SendDelivers(p)
  PROVE  TypeOK'
<1>1. beat[p] \in Beat /\ Slot(beat[p].now) \in Nat
  BY SlotType DEF TypeOK, Beat
<1>2. [k \in Counter |-> ghost.reported[k] + beat[p].told[k]]
        \in [Counter -> Nat]
  BY <1>1 DEF TypeOK, Beat
<1>3. ghost' \in [bumps : [Counter -> Nat], reported : [Counter -> Nat],
                  started : SUBSET Nat, unlisted : SUBSET Fp,
                  overtaken : SUBSET Fp, delivered : Nat \union {Never}]
  BY <1>1, <1>2 DEF SendDelivers, TypeOK
<1> QED BY <1>3 DEF SendDelivers, TypeOK, store, alerts

LEMMA SettleType ==
  ASSUME TypeOK, NEW p \in Proc, Settle(p)
  PROVE  TypeOK'
<1>1. PICK todo \in Seq(Update) : Acquire(p, "heartbeat", todo)
  BY WorkType DEF Settle, TypeOK, Beat, Counter
<1>2. /\ lock' \in [Proc -> {"free", "reporter", "heartbeat"}]
      /\ work' \in [Proc -> Seq(Update)]
  BY <1>1, AcquireType
<1>3. \A q \in Proc :
        /\ lock'[q] = "heartbeat" <=> pc'[q] \in {"claimed", "settling"}
        /\ lock'[q] = "free" \/ pc'[q] = "claimed" => work'[q] = <<>>
        /\ work'[q] = <<>> => got'[q] = Never
  BY <1>1 DEF Settle, Acquire, TypeOK
<1> QED BY <1>2, <1>3 DEF Settle, TypeOK, store, alerts, Update

\* The steps of the heartbeat thread, one by one.
LEMMA HeartbeatThreadType ==
  ASSUME TypeOK, NEW p \in Proc, HeartbeatThread(p)
  PROVE  TypeOK'
<1>1. CASE Poll(p)
  <2>1. beat' = [beat EXCEPT ![p] = [beat[p] EXCEPT !.now = clock]]
    BY <1>1 DEF Poll, TypeOK
  <2>2. beat' \in [Proc -> Beat]
    BY <2>1, BeatUpdate DEF TypeOK
  <2> QED BY <1>1, <2>2 DEF Poll, TypeOK, store, alerts
<1>2. CASE ShouldFire(p)
  <2>0. beat' = beat \/ beat' = [beat EXCEPT ![p] = NoBeat]
    BY <1>2 DEF ShouldFire
  <2>1. beat' \in [Proc -> Beat]
    BY <2>0, NoBeatType DEF TypeOK
  <2> QED BY <1>2, <2>1, ZenonT(30) DEF ShouldFire, TypeOK, store, alerts
<1>4. CASE ClaimRefused(p)
  BY <1>4, NoBeatType DEF ClaimRefused, TypeOK, store, alerts
<1>7. CASE SendFails(p)
  BY <1>7 DEF SendFails, TypeOK, store, alerts
<1> QED
  BY <1>1, <1>2, <1>4, <1>7, ClaimType, SnapshotType, SendDeliversType,
     SettleType DEF HeartbeatThread

\* Using up a bound.
LEMMA SpentType ==
  ASSUME TypeOK
  PROVE  /\ [spent EXCEPT !.occur = @ + 1]
              \in [occur : Nat, faults : Nat, kills : Nat]
         /\ [spent EXCEPT !.faults = @ + 1]
              \in [occur : Nat, faults : Nat, kills : Nat]
         /\ [spent EXCEPT !.kills = @ + 1]
              \in [occur : Nat, faults : Nat, kills : Nat]
<1>1. /\ spent.occur + 1 \in Nat /\ spent.faults + 1 \in Nat
      /\ spent.kills + 1 \in Nat
  BY DEF TypeOK
<1> QED BY <1>1 DEF TypeOK

\* The critical sections of the other threads, and what they leave to do.
LEMMA OccurLocks ==
  ASSUME NEW p \in Proc, NEW fp \in Fp, Occur(p, fp)
  PROVE  /\ \E todo \in {<<>>, Bump("dropped"), Bump("suppressed")} :
              Acquire(p, "reporter", todo)
         /\ UNCHANGED <<clock, lastHeartbeat, counters, got, pc, beat, worker, spent>>
         /\ \E now \in {caller[p]} \union caller[p]..clock : Occurred(fp, now)
<1>1. UNCHANGED <<clock, lastHeartbeat, counters, got, pc, beat, worker, spent>>
  BY DEF Occur
<1>2. CASE /\ Acquire(p, "reporter", Bump("suppressed"))
           /\ \E now \in caller[p]..clock : Occurred(fp, now)
  BY <1>1, <1>2
<1>3. CASE /\ Occurred(fp, caller[p])
           /\ \/ \E k \in {"dropped", "suppressed"} : Acquire(p, "reporter", Bump(k))
              \/ Acquire(p, "reporter", <<>>)
  BY <1>1, <1>3
<1> QED BY <1>2, <1>3 DEF Occur

LEMMA WriteBackLocks ==
  ASSUME NEW p \in Proc, WriteBack(p)
  PROVE  /\ \E todo \in {<<>>, Bump("transport_failures")} :
              Acquire(p, "reporter", todo)
         /\ UNCHANGED <<clock, lastHeartbeat, counters, got, pc, beat, caller, spent>>
BY DEF WriteBack

LEMMA ReporterTakesType ==
  ASSUME TypeOK, NEW p \in Proc, UNCHANGED <<got, pc>>,
         NEW todo \in {<<>>} \union {Bump(k) : k \in Counter},
         Acquire(p, "reporter", todo)
  PROVE  /\ lock' \in [Proc -> {"free", "reporter", "heartbeat"}]
         /\ work' \in [Proc -> Seq([key : Counter, delta : Int])]
         /\ \A q \in Proc :
              /\ lock'[q] = "heartbeat" <=> pc'[q] \in {"claimed", "settling"}
              /\ lock'[q] = "free" \/ pc'[q] = "claimed" => work'[q] = <<>>
              /\ work'[q] = <<>> => got'[q] = Never
<1>1. todo \in Seq(Update)
  BY WorkType
<1>2. /\ lock' \in [Proc -> {"free", "reporter", "heartbeat"}]
      /\ work' \in [Proc -> Seq(Update)]
  BY <1>1, AcquireType
<1>3. \A q \in Proc :
        /\ lock'[q] = "heartbeat" <=> pc'[q] \in {"claimed", "settling"}
        /\ lock'[q] = "free" \/ pc'[q] = "claimed" => work'[q] = <<>>
        /\ work'[q] = <<>> => got'[q] = Never
  BY DEF Acquire, TypeOK
<1> QED BY <1>2, <1>3 DEF Update

LEMMA OccurType ==
  ASSUME TypeOK, NEW p \in Proc, NEW fp \in Fp, Occur(p, fp)
  PROVE  TypeOK'
<1>1. PICK todo \in {<<>>, Bump("dropped"), Bump("suppressed")} :
        Acquire(p, "reporter", todo)
  BY OccurLocks
<1>2. todo \in {<<>>} \union {Bump(k) : k \in Counter}
  BY DEF Counter
<1>3. UNCHANGED <<clock, lastHeartbeat, counters, got, pc, beat, worker, spent>>
  BY OccurLocks
<1>4. PICK now \in {caller[p]} \union caller[p]..clock : Occurred(fp, now)
  BY OccurLocks
<1>5. now \in Int
  BY DEF TypeOK, Never
<1>6. table' \in [Fp -> Entry]
  BY <1>4, <1>5 DEF Occurred, TypeOK, Entry
<1>7. ghost' \in [bumps : [Counter -> Nat], reported : [Counter -> Nat],
                  started : SUBSET Nat, unlisted : SUBSET Fp,
                  overtaken : SUBSET Fp, delivered : Nat \union {Never}]
  <2>1. Overtaken(fp, now) \in SUBSET Fp
    BY DEF Overtaken, TypeOK
  <2> QED BY <1>4, <2>1 DEF Occurred, TypeOK
<1>8. caller' \in [Proc -> Nat \union {Never}] /\ inFlight' \in [Proc -> SUBSET Fp]
  <2>1. caller' = [caller EXCEPT ![p] = Never]
    BY DEF Occur
  <2>2. inFlight' = inFlight \/ inFlight' = [inFlight EXCEPT ![p] = @ \union {fp}]
    BY DEF Occur
  <2>3. inFlight' \in [Proc -> SUBSET Fp]
    <3>1. inFlight \in [Proc -> SUBSET Fp] /\ inFlight[p] \union {fp} \in SUBSET Fp
      BY DEF TypeOK
    <3> QED BY <2>2, <3>1
  <2>4. caller' \in [Proc -> Nat \union {Never}]
    BY <2>1 DEF TypeOK
  <2> QED BY <2>3, <2>4
<1> QED BY <1>1, <1>2, <1>3, <1>6, <1>7, <1>8, ReporterTakesType DEF TypeOK

LEMMA WorkerSendsType ==
  ASSUME TypeOK, NEW p \in Proc, WorkerSends(p)
  PROVE  TypeOK'
<1>1. PICK fp \in inFlight[p], ok \in BOOLEAN :
        worker' = [worker EXCEPT ![p] = {[fp |-> fp, now |-> clock, ok |-> ok]}]
  BY DEF WorkerSends
<1>2. [fp |-> fp, now |-> clock, ok |-> ok] \in Alert
  BY DEF TypeOK, Alert
<1>3. worker' \in [Proc -> SUBSET Alert]
  BY <1>1, <1>2 DEF TypeOK
<1> QED BY <1>3 DEF WorkerSends, TypeOK, store

LEMMA DiscardedType ==
  ASSUME TypeOK, NEW p \in Proc, NEW alert, Discarded(p, alert)
  PROVE  inFlight' \in [Proc -> SUBSET Fp] /\ worker' \in [Proc -> SUBSET Alert]
BY DEF Discarded, TypeOK

LEMMA WriteBackType ==
  ASSUME TypeOK, NEW p \in Proc, WriteBack(p)
  PROVE  TypeOK'
<1>1. PICK todo \in {<<>>, Bump("transport_failures")} : Acquire(p, "reporter", todo)
  BY WriteBackLocks
<1>2. todo \in {<<>>} \union {Bump(k) : k \in Counter}
  BY DEF Counter
<1>3. UNCHANGED <<clock, lastHeartbeat, counters, got, pc, beat, caller, spent>>
  BY WriteBackLocks
<1>4. PICK alert \in worker[p] :
        /\ Discarded(p, alert)
        /\ \/ /\ table' = [table EXCEPT ![alert.fp].last_activity = alert.now]
              /\ ghost' = [ghost EXCEPT !.overtaken = Overtaken(alert.fp, alert.now)]
           \/ UNCHANGED <<table, ghost>>
  BY DEF WriteBack
<1>5. alert.fp \in Fp /\ alert.now \in Int
  BY DEF TypeOK, Alert
<1>6. table' \in [Fp -> Entry]
  <2>0. table[alert.fp] \in Entry
    BY <1>5 DEF TypeOK
  <2>1. [table[alert.fp] EXCEPT !.last_activity = alert.now] \in Entry
    BY <1>5, <2>0 DEF Entry
  <2>2. \/ table' = [table EXCEPT ![alert.fp] =
                       [table[alert.fp] EXCEPT !.last_activity = alert.now]]
        \/ table' = table
    BY <1>4, <1>5 DEF TypeOK
  <2> QED BY <1>5, <2>1, <2>2 DEF TypeOK
<1>7. ghost' \in [bumps : [Counter -> Nat], reported : [Counter -> Nat],
                  started : SUBSET Nat, unlisted : SUBSET Fp,
                  overtaken : SUBSET Fp, delivered : Nat \union {Never}]
  <2>1. Overtaken(alert.fp, alert.now) \in SUBSET Fp
    BY <1>5 DEF Overtaken, TypeOK
  <2> QED BY <1>4, <2>1 DEF TypeOK
<1> QED
  BY <1>1, <1>2, <1>3, <1>4, <1>6, <1>7, DiscardedType, ReporterTakesType
     DEF TypeOK

LEMMA SetResolvedType ==
  ASSUME TypeOK, NEW fp \in Fp, NEW resolved \in BOOLEAN,
         SetResolved(fp, resolved)
  PROVE  TypeOK'
<1>1. table' \in [Fp -> Entry]
  <2>0. table[fp] \in Entry
    BY DEF TypeOK
  <2>1. [table[fp] EXCEPT !.resolved = resolved] \in Entry
    BY <2>0 DEF Entry
  <2>2. table' = [table EXCEPT ![fp] = [table[fp] EXCEPT !.resolved = resolved]]
    BY DEF SetResolved, TypeOK
  <2> QED BY <2>1, <2>2 DEF TypeOK
<1>2. ghost' \in [bumps : [Counter -> Nat], reported : [Counter -> Nat],
                  started : SUBSET Nat, unlisted : SUBSET Fp,
                  overtaken : SUBSET Fp, delivered : Nat \union {Never}]
  BY DEF SetResolved, TypeOK
<1> QED BY <1>1, <1>2 DEF SetResolved, TypeOK, memory, alerts

\* What a thread that raises, or a process that dies, leaves behind.
LEMMA AbandonType ==
  ASSUME TypeOK, NEW p \in Proc, Abandon(p)
  PROVE  /\ lock' \in [Proc -> {"free", "reporter", "heartbeat"}]
         /\ work' \in [Proc -> Seq([key : Counter, delta : Int])]
         /\ got' \in [Proc -> Nat \union {Never}]
         /\ lock'[p] = "free" /\ work'[p] = <<>> /\ got'[p] = Never
         /\ \A q \in Proc \ {p} : /\ lock'[q] = lock[q] /\ work'[q] = work[q]
                                  /\ got'[q] = got[q]
BY WorkType DEF TypeOK, Abandon, Update

\* The lock is free, so nobody is in a critical section.
LEMMA AbandonDiscipline ==
  ASSUME TypeOK, NEW p \in Proc, Abandon(p),
         pc'[p] \notin {"claimed", "settling"},
         \A q \in Proc \ {p} : pc'[q] = pc[q]
  PROVE  \A q \in Proc :
           /\ lock'[q] = "heartbeat" <=> pc'[q] \in {"claimed", "settling"}
           /\ lock'[q] = "free" \/ pc'[q] = "claimed" => work'[q] = <<>>
           /\ work'[q] = <<>> => got'[q] = Never
<1> SUFFICES ASSUME NEW q \in Proc
             PROVE  /\ lock'[q] = "heartbeat" <=> pc'[q] \in {"claimed", "settling"}
                    /\ lock'[q] = "free" \/ pc'[q] = "claimed" => work'[q] = <<>>
                    /\ work'[q] = <<>> => got'[q] = Never
  OBVIOUS
<1>1. CASE q = p
  BY <1>1, AbandonType
<1>2. CASE q # p
  <2>1. lock'[q] = lock[q] /\ work'[q] = work[q] /\ got'[q] = got[q]
    BY <1>2, AbandonType
  <2> QED BY <1>2, <2>1 DEF TypeOK
<1> QED BY <1>1, <1>2

LEMMA FailureType ==
  ASSUME TypeOK, NEW p \in Proc,
         \/ HeartbeatRaises(p) \/ ReporterRaises(p) \/ WriteBackRaises(p)
         \/ Kill(p)
  PROVE  TypeOK'
<1> DEFINE Idle == [pc EXCEPT ![p] = "wait"]
           Blank == [beat EXCEPT ![p] = NoBeat]
<1>0. Blank \in [Proc -> Beat]
  BY NoBeatType DEF TypeOK
<1>1. CASE HeartbeatRaises(p)
  <2>1. /\ spent' \in [occur : Nat, faults : Nat, kills : Nat]
        /\ pc' = Idle /\ beat' = Blank
        /\ pc[p] # "wait" /\ UNCHANGED <<clock, store, caller, alerts, ghost>>
    BY <1>1, SpentType DEF HeartbeatRaises
  <2>2. CASE Abandon(p)
    <3>1. \A q \in Proc :
            /\ lock'[q] = "heartbeat" <=> pc'[q] \in {"claimed", "settling"}
            /\ lock'[q] = "free" \/ pc'[q] = "claimed" => work'[q] = <<>>
            /\ work'[q] = <<>> => got'[q] = Never
      BY <2>1, <2>2, AbandonDiscipline DEF TypeOK
    <3> QED BY <1>0, <2>1, <2>2, <3>1, AbandonType DEF TypeOK, store, alerts
  <2>3. CASE lock[p] = "free" /\ UNCHANGED <<lock, work, got>>
    BY <1>0, <2>1, <2>3 DEF TypeOK, store, alerts
  <2> QED BY <1>1, <2>2, <2>3 DEF HeartbeatRaises
<1>2. CASE ReporterRaises(p)
  <2>1. /\ spent' \in [occur : Nat, faults : Nat, kills : Nat]
        /\ lock[p] = "reporter" /\ Abandon(p)
        /\ UNCHANGED <<clock, store, pc, beat, caller, alerts, ghost>>
    BY <1>2, SpentType DEF ReporterRaises
  <2>2. pc[p] \notin {"claimed", "settling"}
    BY <2>1 DEF TypeOK
  <2>3. \A q \in Proc :
          /\ lock'[q] = "heartbeat" <=> pc'[q] \in {"claimed", "settling"}
          /\ lock'[q] = "free" \/ pc'[q] = "claimed" => work'[q] = <<>>
          /\ work'[q] = <<>> => got'[q] = Never
    BY <2>1, <2>2, AbandonDiscipline DEF TypeOK
  <2> QED BY <2>1, <2>3, AbandonType DEF TypeOK, store, alerts
<1>3. CASE Kill(p)
  <2>1. /\ spent' \in [occur : Nat, faults : Nat, kills : Nat]
        /\ pc' = Idle /\ beat' = Blank /\ Abandon(p)
        /\ caller' = [caller EXCEPT ![p] = Never]
        /\ inFlight' = [inFlight EXCEPT ![p] = {}]
        /\ worker' = [worker EXCEPT ![p] = {}]
        /\ UNCHANGED <<clock, store, ghost>>
    BY <1>3, SpentType DEF Kill
  <2>2. \A q \in Proc :
          /\ lock'[q] = "heartbeat" <=> pc'[q] \in {"claimed", "settling"}
          /\ lock'[q] = "free" \/ pc'[q] = "claimed" => work'[q] = <<>>
          /\ work'[q] = <<>> => got'[q] = Never
    BY <2>1, AbandonDiscipline DEF TypeOK
  <2> QED BY <1>0, <2>1, <2>2, AbandonType DEF TypeOK, store, alerts
<1>4. CASE WriteBackRaises(p)
  <2>1. /\ spent' \in [occur : Nat, faults : Nat, kills : Nat]
        /\ inFlight' \in [Proc -> SUBSET Fp] /\ worker' \in [Proc -> SUBSET Alert]
    BY <1>4, SpentType, DiscardedType DEF WriteBackRaises
  <2> QED BY <1>4, <2>1 DEF WriteBackRaises, TypeOK, store
<1> QED BY <1>1, <1>2, <1>3, <1>4

LEMMA TypeStep == TypeOK /\ [Next]_vars => TypeOK'
<1> SUFFICES ASSUME TypeOK, [Next]_vars PROVE TypeOK'
  OBVIOUS
<1>1. ASSUME NEW p \in Proc, LockHolder(p) PROVE TypeOK'
  BY <1>1, ReadCounterType, WriteCounterType, ReleaseType DEF LockHolder
<1>2. ASSUME NEW p \in Proc, ReadNow(p) PROVE TypeOK'
  <2>1. spent' \in [occur : Nat, faults : Nat, kills : Nat]
    BY <1>2, SpentType DEF ReadNow
  <2> QED BY <1>2, <2>1 DEF ReadNow, TypeOK, store, alerts
<1>3. CASE Tick
  <2>1. clock' \in Nat
    BY <1>3 DEF Tick, TypeOK
  <2> QED BY <1>3, <2>1 DEF Tick, TypeOK, store, memory, alerts
<1>4. CASE UNCHANGED vars
  BY <1>4 DEF vars, TypeOK, store, memory, alerts
<1> QED
  BY <1>1, <1>2, <1>3, <1>4, HeartbeatThreadType, OccurType, WorkerSendsType,
     WriteBackType, SetResolvedType, FailureType DEF Next

\* Every variable keeps its type, a process's lock is with its heartbeat
\* thread exactly in the two critical sections of fire(), and nobody works on
\* a counter without the lock.
THEOREM TypeCorrect == Spec => []TypeOK
<1> QED BY TypeInit, TypeStep, PTL DEF Spec

-----------------------------------------------------------------------------
(* One digest per slot.                                                    *)

\* Once claimed, a slot is below or at last_heartbeat, and so are the slots
\* digests were sent for; two claims, or a claim and a digest, never name the
\* same slot.
SlotOf(p) == Slot(beat[p].now)
Claimed(p) == pc[p] = "claimed"

SlotInv ==
  /\ \A s \in ghost.started : s <= lastHeartbeat
  /\ \A p \in Proc :
       Claimed(p) => SlotOf(p) <= lastHeartbeat /\ SlotOf(p) \notin ghost.started
  /\ \A p, q \in Proc : Claimed(p) /\ Claimed(q) /\ p # q => SlotOf(p) # SlotOf(q)

LEMMA SlotInit == Init => SlotInv
BY DEF Init, SlotInv, Claimed, NoGhost

LEMMA SlotOfType == TypeOK => \A p \in Proc : SlotOf(p) \in Nat
BY SlotType DEF TypeOK, SlotOf, Beat

\* Steps that claim nothing, send nothing, and leave the claimed beats alone.
LEMMA QuietStep ==
  ASSUME SlotInv, lastHeartbeat' = lastHeartbeat,
         ghost'.started = ghost.started,
         \A p \in Proc : Claimed(p)' => Claimed(p) /\ beat'[p] = beat[p]
  PROVE  SlotInv'
BY DEF SlotInv, SlotOf

LEMMA ClaimKeepsSlots ==
  ASSUME TypeOK, SlotInv, NEW p \in Proc, Claim(p)
  PROVE  SlotInv' /\ lastHeartbeat' >= lastHeartbeat
<1>1. /\ SlotOf(p) \in Nat /\ \A q \in Proc : SlotOf(q) \in Nat
      /\ ghost.started \subseteq Nat
      /\ lastHeartbeat \in Nat \union {Never}
  BY SlotOfType DEF TypeOK
<1>2. /\ lastHeartbeat' = SlotOf(p)
      /\ lastHeartbeat = Never \/ lastHeartbeat < SlotOf(p)
      /\ ghost' = ghost
  BY DEF Claim, Claimable, SlotOf
<1>3. lastHeartbeat' > lastHeartbeat
  BY <1>1, <1>2 DEF Never
<1>4. /\ \A q \in Proc : beat'[q].now = beat[q].now
      /\ \A q \in Proc : Claimed(q)' => q = p \/ Claimed(q)
  BY DEF Claim, TypeOK, Claimed, Beat
<1>5. \A q \in Proc : SlotOf(q)' = SlotOf(q)
  BY <1>4 DEF SlotOf
<1>6. \A q \in Proc : Claimed(q) => SlotOf(q) < SlotOf(p)
  BY <1>1, <1>2, <1>3 DEF SlotInv, Never
<1>7. \A s \in ghost.started : s < SlotOf(p)
  BY <1>1, <1>2, <1>3 DEF SlotInv, Never
<1>8. \A s \in ghost'.started : s <= lastHeartbeat'
  BY <1>1, <1>2, <1>7
<1>9. \A q \in Proc : Claimed(q)' =>
        SlotOf(q)' <= lastHeartbeat' /\ SlotOf(q)' \notin ghost'.started
  BY <1>1, <1>2, <1>4, <1>5, <1>6, <1>7 DEF SlotInv
<1>10. \A q, r \in Proc :
         Claimed(q)' /\ Claimed(r)' /\ q # r => SlotOf(q)' # SlotOf(r)'
  BY <1>1, <1>4, <1>5, <1>6 DEF SlotInv
<1> QED
  BY <1>1, <1>2, <1>3, <1>8, <1>9, <1>10 DEF SlotInv, Never

LEMMA SnapshotKeepsSlots ==
  ASSUME TypeOK, SlotInv, NEW p \in Proc, Snapshot(p)
  PROVE  SlotInv'
<1>1. /\ Claimed(p) /\ ~Claimed(p)' /\ lastHeartbeat' = lastHeartbeat
      /\ \A q \in Proc : q # p => (Claimed(q)' <=> Claimed(q))
      /\ \A q \in Proc : q # p => beat'[q] = beat[q]
  BY DEF Snapshot, TypeOK, Claimed, store
<1>2. ghost'.started = ghost.started \union {SlotOf(p)}
  BY DEF Snapshot, TypeOK, SlotOf
<1>3. \A q \in Proc : Claimed(q)' => Claimed(q) /\ q # p /\ SlotOf(q)' = SlotOf(q)
  BY <1>1 DEF SlotOf
<1> QED BY <1>1, <1>2, <1>3 DEF SlotInv

LEMMA SlotStep ==
  TypeOK /\ SlotInv /\ [Next]_vars => SlotInv' /\ lastHeartbeat' >= lastHeartbeat
<1> SUFFICES ASSUME TypeOK, SlotInv, [Next]_vars
             PROVE  SlotInv' /\ lastHeartbeat' >= lastHeartbeat
  OBVIOUS
<1>1. ASSUME NEW p \in Proc, Snapshot(p)
      PROVE  SlotInv' /\ lastHeartbeat' = lastHeartbeat
  BY <1>1, SnapshotKeepsSlots DEF Snapshot, store
<1>2. ASSUME NEW p \in Proc,
             \/ LockHolder(p) \/ ReadNow(p) \/ (\E fp \in Fp : Occur(p, fp))
             \/ WorkerSends(p) \/ WriteBack(p)
      PROVE  SlotInv' /\ lastHeartbeat' = lastHeartbeat
  <2>1. CASE LockHolder(p)
    <3>1. ghost'.started = ghost.started /\ lastHeartbeat' = lastHeartbeat
      BY <2>1 DEF LockHolder, ReadCounter, WriteCounter, Release, TypeOK, store
    <3>2. \A q \in Proc : Claimed(q)' => Claimed(q) /\ beat'[q] = beat[q]
      BY <2>1 DEF LockHolder, ReadCounter, WriteCounter, Release, TypeOK, Claimed
    <3> QED BY <3>1, <3>2, QuietStep
  <2>2. CASE \/ ReadNow(p) \/ (\E fp \in Fp : Occur(p, fp))
             \/ WorkerSends(p) \/ WriteBack(p)
    <3>1. UNCHANGED <<lastHeartbeat, pc, beat>>
      BY <2>2 DEF ReadNow, Occur, WorkerSends, WriteBack, store
    <3>2. CASE ReadNow(p) \/ WorkerSends(p) \/ WriteBack(p)
      <4>1. ghost'.started = ghost.started
        BY <3>2 DEF ReadNow, WorkerSends, WriteBack, TypeOK
      <4> QED BY <3>1, <4>1, QuietStep DEF Claimed
    <3>3. ASSUME NEW fp \in Fp, Occur(p, fp)
          PROVE  SlotInv'
      <4>1. ghost'.started = ghost.started
        BY <3>3, OccurLocks DEF Occurred, TypeOK
      <4> QED BY <3>1, <4>1, QuietStep DEF Claimed
    <3> QED BY <2>2, <3>1, <3>2, <3>3
  <2> QED BY <1>2, <2>1, <2>2
<1>3. ASSUME NEW p \in Proc,
             \/ Poll(p) \/ ShouldFire(p) \/ ClaimRefused(p)
             \/ SendDelivers(p) \/ SendFails(p) \/ Settle(p)
      PROVE  SlotInv' /\ lastHeartbeat' = lastHeartbeat
  <2>1. ghost'.started = ghost.started /\ lastHeartbeat' = lastHeartbeat
    BY <1>3 DEF Poll, ShouldFire, ClaimRefused, SendDelivers, SendFails, Settle,
                TypeOK, store
  <2>2. \A q \in Proc : Claimed(q)' => Claimed(q) /\ beat'[q] = beat[q]
    BY <1>3 DEF Poll, ShouldFire, ClaimRefused, SendDelivers, SendFails, Settle,
                TypeOK, Claimed
  <2> QED BY <2>1, <2>2, QuietStep
<1>4. ASSUME NEW p \in Proc,
             \/ HeartbeatRaises(p) \/ ReporterRaises(p) \/ WriteBackRaises(p)
             \/ Kill(p)
      PROVE  SlotInv' /\ lastHeartbeat' = lastHeartbeat
  <2>1. ghost'.started = ghost.started /\ lastHeartbeat' = lastHeartbeat
    BY <1>4 DEF HeartbeatRaises, ReporterRaises, WriteBackRaises, Kill, store
  <2>2. \A q \in Proc : Claimed(q)' => Claimed(q) /\ beat'[q] = beat[q]
    BY <1>4 DEF HeartbeatRaises, ReporterRaises, WriteBackRaises, Kill, TypeOK,
                Claimed
  <2> QED BY <2>1, <2>2, QuietStep
<1>5. CASE Tick \/ UNCHANGED vars \/
           \E fp \in Fp, resolved \in BOOLEAN : SetResolved(fp, resolved)
  <2>1. /\ ghost'.started = ghost.started /\ lastHeartbeat' = lastHeartbeat
        /\ pc' = pc /\ beat' = beat
    BY <1>5 DEF Tick, vars, SetResolved, store, memory, TypeOK
  <2> QED BY <2>1, QuietStep DEF TypeOK, Claimed, Never
<1>6. lastHeartbeat >= lastHeartbeat
  BY DEF TypeOK, Never
<1> QED
  BY <1>1, <1>2, <1>3, <1>4, <1>5, <1>6, ClaimKeepsSlots
     DEF Next, HeartbeatThread

\* Every slot claimed or sent is at most last_heartbeat, and no two processes
\* hold the same one: what claim_heartbeat's transaction is for.
THEOREM SlotsInvariant == Spec => [](TypeOK /\ SlotInv)
<1> QED BY TypeInit, SlotInit, TypeStep, SlotStep, PTL DEF Spec

\* However many processes share the store, however their polls interleave and
\* however stale the time they carry, no slot gets a second digest.
THEOREM SlotsAreSentOnce == Spec => OneDigestPerSlot
<1>1. TypeOK /\ SlotInv /\ [Next]_vars =>
        [\A p \in Proc :
           pc[p] = "claimed" /\ pc'[p] = "sending" =>
             Slot(beat[p].now) \notin ghost.started]_vars
  BY DEF SlotInv, Claimed, SlotOf
<1> QED BY SlotsInvariant, <1>1, PTL DEF Spec, OneDigestPerSlot

\* last_heartbeat only ever grows.
THEOREM HeartbeatIsMonotone == Spec => HeartbeatMonotone
<1>1. TypeOK /\ SlotInv /\ [Next]_vars => [lastHeartbeat' >= lastHeartbeat]_vars
  BY SlotStep
<1> QED BY SlotsInvariant, <1>1, PTL DEF Spec, HeartbeatMonotone

-----------------------------------------------------------------------------
(* The windows of successive digests leave no gap.                         *)

\* A fingerprint that no snapshot has listed is unresolved, and unless an older
\* time was written since, it lies in the window of the next claim or of one
\* whose snapshot is being taken.
InWindow(fp) ==
  LET at == table[fp].last_activity IN
  \/ at >= lastHeartbeat
  \/ \E p \in Proc : pc[p] = "claimed" /\ at >= beat[p].since

Coming(fp) ==
  /\ table[fp].stored /\ ~table[fp].resolved
  /\ fp \in ghost.overtaken \/ InWindow(fp)

CoverInv == FaultFree => \A fp \in ghost.unlisted : Coming(fp)

\* Nothing that fails is forgotten.
LEMMA FaultFreeBefore ==
  ASSUME TypeOK, [Next]_vars, FaultFree'
  PROVE  /\ FaultFree
         /\ \A p \in Proc : /\ ~HeartbeatRaises(p) /\ ~ReporterRaises(p)
                            /\ ~WriteBackRaises(p) /\ ~Kill(p)
<1>0. spent.faults \in Nat /\ spent.kills \in Nat
  BY DEF TypeOK
<1>1. ASSUME NEW p \in Proc,
             HeartbeatRaises(p) \/ ReporterRaises(p) \/ WriteBackRaises(p)
      PROVE  FALSE
  <2>1. spent'.faults = spent.faults + 1
    BY <1>1 DEF HeartbeatRaises, ReporterRaises, WriteBackRaises, TypeOK
  <2> QED BY <1>0, <2>1 DEF FaultFree
<1>2. ASSUME NEW p \in Proc, Kill(p)
      PROVE  FALSE
  <2>1. spent'.kills = spent.kills + 1
    BY <1>2 DEF Kill, TypeOK
  <2> QED BY <1>0, <2>1 DEF FaultFree
<1>3. spent'.faults = spent.faults /\ spent'.kills = spent.kills
  <2>1. ASSUME NEW p \in Proc, LockHolder(p) \/ HeartbeatThread(p)
        PROVE  spent' = spent
    BY <2>1 DEF LockHolder, ReadCounter, WriteCounter, Release, HeartbeatThread,
       Poll, ShouldFire, Claim, ClaimRefused, Snapshot, SendDelivers, SendFails,
       Settle
  <2>2. ASSUME NEW p \in Proc,
               \/ ReadNow(p) \/ WorkerSends(p) \/ WriteBack(p)
               \/ \E fp \in Fp : Occur(p, fp)
        PROVE  spent'.faults = spent.faults /\ spent'.kills = spent.kills
    BY <2>2 DEF ReadNow, Occur, WorkerSends, WriteBack, TypeOK
  <2>3. CASE Tick \/ UNCHANGED vars \/
             \E fp \in Fp, resolved \in BOOLEAN : SetResolved(fp, resolved)
    BY <2>3 DEF Tick, SetResolved, vars
  <2> QED BY <1>1, <1>2, <2>1, <2>2, <2>3 DEF Next
<1> QED BY <1>1, <1>2, <1>3 DEF FaultFree

\* Steps that touch none of what Coming reads, but may list more.
LEMMA CoverQuiet ==
  ASSUME TypeOK, FaultFree, CoverInv, UNCHANGED <<lastHeartbeat, table>>,
         ghost'.unlisted \subseteq ghost.unlisted,
         ghost'.overtaken = ghost.overtaken,
         \A p \in Proc : pc[p] = "claimed" =>
           pc'[p] = "claimed" /\ beat'[p].since = beat[p].since
  PROVE  CoverInv'
BY DEF CoverInv, Coming, InWindow

LEMMA ClaimCovers ==
  ASSUME TypeOK, FaultFree, CoverInv, NEW p \in Proc, Claim(p)
  PROVE  CoverInv'
<1>1. /\ pc[p] = "due" /\ pc' = [pc EXCEPT ![p] = "claimed"]
      /\ beat' = [beat EXCEPT ![p] = [beat[p] EXCEPT !.since = lastHeartbeat]]
      /\ UNCHANGED <<table, ghost>>
  BY DEF Claim, TypeOK
<1>2. pc'[p] = "claimed" /\ beat'[p].since = lastHeartbeat
  BY <1>1 DEF TypeOK, Beat
<1>3. \A q \in Proc : pc[q] = "claimed" =>
        pc'[q] = "claimed" /\ beat'[q].since = beat[q].since
  BY <1>1 DEF TypeOK
<1> QED BY <1>1, <1>2, <1>3 DEF CoverInv, Coming, InWindow

LEMMA SnapshotCovers ==
  ASSUME TypeOK, FaultFree, CoverInv, NEW p \in Proc, Snapshot(p)
  PROVE  CoverInv'
<1>1. /\ UNCHANGED <<lastHeartbeat, table>>
      /\ ghost'.unlisted = ghost.unlisted \ Active(beat[p].since)
      /\ ghost'.overtaken = ghost.overtaken
      /\ \A q \in Proc : q # p => pc'[q] = pc[q] /\ beat'[q] = beat[q]
  BY DEF Snapshot, TypeOK, store, alerts
<1>2. SUFFICES ASSUME NEW fp \in ghost'.unlisted PROVE Coming(fp)'
  BY DEF CoverInv
<1>3. Coming(fp) /\ fp \notin Active(beat[p].since) /\ fp \in Fp
  BY <1>1 DEF CoverInv, TypeOK
<1>4. ~(table[fp].last_activity >= beat[p].since)
  BY <1>3 DEF Coming, Active
<1> QED BY <1>1, <1>3, <1>4 DEF Coming, InWindow

\* A write of last_activity: what it takes out of the coming windows it does
\* with a time before the last claim.
LEMMA WriteCovers ==
  ASSUME TypeOK, CoverInv, FaultFree, NEW fp \in Fp, NEW now \in Int,
         UNCHANGED <<lastHeartbeat, pc, beat>>,
         table'[fp].last_activity = now,
         ghost'.overtaken = Overtaken(fp, now),
         \A f \in Fp \ {fp} : table'[f] = table[f],
         \A f \in ghost'.unlisted : f # fp => f \in ghost.unlisted,
         fp \in ghost'.unlisted => table'[fp].stored /\ ~table'[fp].resolved
  PROVE  CoverInv'
<1>1. SUFFICES ASSUME NEW f \in ghost'.unlisted, f \in Fp PROVE Coming(f)'
  <2>1. ghost'.unlisted \subseteq Fp
    BY DEF TypeOK
  <2> QED BY <2>1 DEF CoverInv
<1>2. CASE f = fp
  <2>1. CASE now < lastHeartbeat
    BY <1>1, <1>2, <2>1 DEF Coming, Overtaken
  <2>2. CASE ~(now < lastHeartbeat)
    <3>1. now >= lastHeartbeat
      BY <2>2 DEF TypeOK, Never
    <3> QED BY <1>1, <1>2, <3>1 DEF Coming, InWindow
  <2> QED BY <2>1, <2>2
<1>3. CASE f # fp
  <2>1. f \in ghost.unlisted /\ table'[f] = table[f]
    BY <1>1, <1>3
  <2>2. Coming(f)
    BY <2>1 DEF CoverInv
  <2>3. f \in ghost.overtaken => f \in ghost'.overtaken
    BY <1>3 DEF Overtaken
  <2> QED BY <2>1, <2>2, <2>3 DEF Coming, InWindow
<1> QED BY <1>2, <1>3

LEMMA OccurCovers ==
  ASSUME TypeOK, FaultFree, CoverInv, NEW p \in Proc, NEW fp \in Fp, Occur(p, fp)
  PROVE  CoverInv'
<1>1. PICK now \in {caller[p]} \union caller[p]..clock : Occurred(fp, now)
  BY OccurLocks
<1>2. now \in Int
  BY DEF TypeOK, Never
<1>3. UNCHANGED <<lastHeartbeat, pc, beat>>
  BY OccurLocks
<1>4. /\ table'[fp] = [stored |-> TRUE, resolved |-> FALSE, last_activity |-> now]
      /\ \A f \in Fp \ {fp} : table'[f] = table[f]
  BY <1>1 DEF Occurred, TypeOK
<1>5. /\ ghost'.overtaken = Overtaken(fp, now)
      /\ ghost'.unlisted \in {ghost.unlisted, ghost.unlisted \union {fp}}
  BY <1>1 DEF Occurred, TypeOK
<1> QED BY <1>2, <1>3, <1>4, <1>5, WriteCovers

LEMMA WriteBackCovers ==
  ASSUME TypeOK, FaultFree, CoverInv, NEW p \in Proc, WriteBack(p)
  PROVE  CoverInv'
<1>1. UNCHANGED <<lastHeartbeat, pc, beat>>
  BY WriteBackLocks
<1>2. CASE UNCHANGED <<table, ghost>>
  BY <1>1, <1>2, CoverQuiet
<1>3. ASSUME NEW alert \in worker[p],
             table' = [table EXCEPT ![alert.fp].last_activity = alert.now],
             ghost' = [ghost EXCEPT !.overtaken = Overtaken(alert.fp, alert.now)]
      PROVE  CoverInv'
  <2>1. alert.fp \in Fp /\ alert.now \in Int
    BY DEF TypeOK, Alert
  <2>2. /\ table'[alert.fp].last_activity = alert.now
        /\ table'[alert.fp].stored = table[alert.fp].stored
        /\ table'[alert.fp].resolved = table[alert.fp].resolved
        /\ \A f \in Fp \ {alert.fp} : table'[f] = table[f]
    BY <1>3, <2>1 DEF TypeOK, Entry
  <2>3. /\ ghost'.overtaken = Overtaken(alert.fp, alert.now)
        /\ ghost'.unlisted = ghost.unlisted
    BY <1>3 DEF TypeOK
  <2>4. alert.fp \in ghost.unlisted =>
          table[alert.fp].stored /\ ~table[alert.fp].resolved
    BY DEF CoverInv, Coming
  <2> QED BY <1>1, <2>1, <2>2, <2>3, <2>4, WriteCovers
<1> QED BY <1>2, <1>3 DEF WriteBack

LEMMA CoverStep == TypeOK /\ CoverInv /\ [Next]_vars => CoverInv'
<1> SUFFICES ASSUME TypeOK, CoverInv, [Next]_vars, FaultFree'
             PROVE  CoverInv'
  BY DEF CoverInv
<1>1. /\ FaultFree
      /\ \A p \in Proc : /\ ~HeartbeatRaises(p) /\ ~ReporterRaises(p)
                         /\ ~WriteBackRaises(p) /\ ~Kill(p)
  BY FaultFreeBefore
<1>2. ASSUME NEW p \in Proc, LockHolder(p) \/ ReadNow(p) \/ WorkerSends(p)
      PROVE  CoverInv'
  <2>1. /\ UNCHANGED <<lastHeartbeat, table>>
        /\ ghost'.unlisted = ghost.unlisted /\ ghost'.overtaken = ghost.overtaken
    BY <1>2 DEF LockHolder, ReadCounter, WriteCounter, Release, ReadNow,
                WorkerSends, TypeOK, store
  <2>2. \A q \in Proc : pc[q] = "claimed" =>
          pc'[q] = "claimed" /\ beat'[q].since = beat[q].since
    <3>1. CASE ReadNow(p) \/ WorkerSends(p) \/ ReadCounter(p) \/ WriteCounter(p)
      BY <3>1 DEF ReadCounter, WriteCounter, ReadNow, WorkerSends
    <3>2. CASE Release(p)
      <4>1. pc[p] # "claimed"
        BY <3>2 DEF Release, TypeOK
      <4> QED BY <3>2, <4>1 DEF Release, TypeOK
    <3> QED BY <1>2, <3>1, <3>2 DEF LockHolder
  <2> QED BY <1>1, <2>1, <2>2, CoverQuiet
<1>3. ASSUME NEW p \in Proc,
             \/ Poll(p) \/ ShouldFire(p) \/ ClaimRefused(p)
             \/ SendDelivers(p) \/ SendFails(p) \/ Settle(p)
      PROVE  CoverInv'
  <2>1. /\ UNCHANGED <<lastHeartbeat, table>>
        /\ ghost'.unlisted = ghost.unlisted /\ ghost'.overtaken = ghost.overtaken
    BY <1>3 DEF Poll, ShouldFire, ClaimRefused, SendDelivers, SendFails, Settle,
                TypeOK, store
  <2>2. \A q \in Proc : pc[q] = "claimed" =>
          pc'[q] = "claimed" /\ beat'[q].since = beat[q].since
    BY <1>3 DEF Poll, ShouldFire, ClaimRefused, SendDelivers, SendFails, Settle,
                TypeOK
  <2> QED BY <1>1, <2>1, <2>2, CoverQuiet
<1>4. ASSUME NEW fp \in Fp, NEW resolved \in BOOLEAN, SetResolved(fp, resolved)
      PROVE  CoverInv'
  <2>1. /\ table' = [table EXCEPT ![fp].resolved = resolved]
        /\ ghost'.unlisted = IF resolved THEN ghost.unlisted \ {fp}
                                         ELSE ghost.unlisted
        /\ ghost'.overtaken = ghost.overtaken
        /\ UNCHANGED <<lastHeartbeat, pc, beat>>
    BY <1>4 DEF SetResolved, memory, TypeOK
  <2>2. \A f \in Fp : /\ table'[f].last_activity = table[f].last_activity
                      /\ table'[f].stored = table[f].stored
                      /\ table'[f].resolved =
                           IF f = fp THEN resolved ELSE table[f].resolved
    BY <2>1 DEF TypeOK, Entry
  <2>3. SUFFICES ASSUME NEW f \in ghost'.unlisted PROVE Coming(f)'
    BY DEF CoverInv
  <2>4. f \in Fp /\ Coming(f) /\ (f = fp => ~resolved)
    BY <1>1, <2>1 DEF CoverInv, TypeOK
  <2>5. table'[f].stored /\ ~table'[f].resolved
    BY <2>2, <2>4 DEF Coming
  <2>6. InWindow(f) => InWindow(f)'
    BY <2>1, <2>2, <2>4 DEF InWindow
  <2> QED BY <2>1, <2>4, <2>5, <2>6 DEF Coming
<1>5. CASE Tick \/ UNCHANGED vars
  BY <1>1, <1>5, CoverQuiet DEF Tick, vars, store, memory
<1> QED
  BY <1>1, <1>2, <1>3, <1>4, <1>5, ClaimCovers, SnapshotCovers, OccurCovers,
     WriteBackCovers
     DEF Next, HeartbeatThread

\* heartbeat.py:183-192, for any number of processes and however their claims
\* interleave: without failures or kills no unresolved fingerprint with an
\* occurrence falls between two digests, as long as nobody wrote a time older
\* than the last claim into its row since.
THEOREM WindowsLeaveNoGap == Spec => []DigestCoverage
<1>1. Init => CoverInv
  BY DEF Init, CoverInv, NoGhost
<1>2. CoverInv => DigestCoverage
  BY DEF CoverInv, Coming, InWindow, DigestCoverage
<1> QED BY TypeInit, TypeStep, CoverStep, <1>1, <1>2, PTL DEF Spec

-----------------------------------------------------------------------------
(* One process: what digests tell and what the counters hold.              *)

\* The updates a thread has still to do, each of a counter of its own.
Updates(s) == {s[i] : i \in 1..Len(s)}
Distinct(s) == \A i, j \in 1..Len(s) : i # j => s[i].key # s[j].key

LEMMA TailUpdates ==
  ASSUME NEW s \in Seq(Update), s # <<>>
  PROVE  /\ Updates(s) = Updates(Tail(s)) \union {Head(s)}
         /\ Distinct(s) => /\ Distinct(Tail(s))
                           /\ \A u \in Updates(Tail(s)) : u.key # Head(s).key
<1> DEFINE r == Tail(s)
<1>1. /\ Len(r) = Len(s) - 1 /\ Len(s) \in Nat /\ Len(s) >= 1
      /\ \A i \in 1..Len(r) : r[i] = s[i + 1]
      /\ Head(s) = s[1]
  OBVIOUS
<1>2. /\ \A i \in 1..Len(r) : i + 1 \in 1..Len(s) /\ i + 1 # 1
      /\ \A i \in 1..Len(s) : i = 1 \/ (i - 1 \in 1..Len(r) /\ s[i] = r[i - 1])
      /\ 1 \in 1..Len(s)
      /\ \A i, j \in 1..Len(r) : i # j => i + 1 # j + 1
  BY <1>1
<1> HIDE DEF r
<1>3. Updates(s) = Updates(r) \union {Head(s)}
  BY <1>1, <1>2 DEF Updates
<1>4. ASSUME Distinct(s)
      PROVE  Distinct(r) /\ \A u \in Updates(r) : u.key # Head(s).key
  BY <1>1, <1>2, <1>4 DEF Distinct, Updates
<1> QED BY <1>3, <1>4 DEF r

\* What subtract_counters() is to do: each amount that is not zero, once.
Subtracts(s, told, keys) ==
  /\ s \in Seq(Update)
  /\ Distinct(s)
  /\ \A u \in Updates(s) : u.key \in keys /\ u.delta < 0 /\ u.delta = -told[u.key]
  /\ \A k \in keys : told[k] > 0 => \E u \in Updates(s) : u.key = k

LEMMA SubtractionForm ==
  ASSUME NEW told \in [Counter -> Nat], NEW k \in Counter
  PROVE  Subtracts(Subtraction(k, told[k]), told, {k})
<1>1. CASE told[k] > 0
  <2> DEFINE u == [key |-> k, delta |-> -told[k]]
             s == <<u>>
  <2>1. Subtraction(k, told[k]) = s
    BY <1>1 DEF Subtraction
  <2>2. u \in Update /\ u.key = k /\ u.delta = -told[k] /\ u.delta < 0
    BY <1>1 DEF Update
  <2> HIDE DEF u
  <2>3. s \in Seq(Update) /\ Len(s) = 1 /\ s[1] = u
    BY <2>2
  <2>4. Updates(s) = {u} /\ Distinct(s)
    BY <2>3 DEF Updates, Distinct
  <2> HIDE DEF s
  <2> QED BY <2>1, <2>2, <2>3, <2>4 DEF Subtracts
<1>2. CASE ~(told[k] > 0)
  <2>1. Subtraction(k, told[k]) = <<>>
    BY <1>2 DEF Subtraction
  <2>2. /\ <<>> \in Seq(Update) /\ Updates(<<>>) = {} /\ Distinct(<<>>)
    BY DEF Updates, Distinct
  <2> QED BY <1>2, <2>1, <2>2 DEF Subtracts
<1> QED BY <1>1, <1>2

LEMMA SubtractsConcat ==
  ASSUME NEW told, NEW K, NEW L, K \intersect L = {},
         NEW s, NEW t, Subtracts(s, told, K), Subtracts(t, told, L)
  PROVE  Subtracts(s \o t, told, K \union L)
<1> DEFINE r == s \o t
<1>1. s \in Seq(Update) /\ t \in Seq(Update)
  BY DEF Subtracts
<1>2. /\ r \in Seq(Update) /\ Len(r) = Len(s) + Len(t)
      /\ Len(s) \in Nat /\ Len(t) \in Nat
      /\ \A i \in 1..Len(r) : r[i] = IF i <= Len(s) THEN s[i] ELSE t[i - Len(s)]
  BY <1>1, ConcatProperties
<1>3. \A i \in 1..Len(r) : \/ i \in 1..Len(s) /\ r[i] = s[i]
                           \/ /\ i - Len(s) \in 1..Len(t)
                              /\ r[i] = t[i - Len(s)]
  BY <1>2
<1>4. /\ \A i \in 1..Len(s) : i \in 1..Len(r) /\ r[i] = s[i]
      /\ \A i \in 1..Len(t) : i + Len(s) \in 1..Len(r) /\ r[i + Len(s)] = t[i]
  BY <1>2
<1> HIDE DEF r
<1>5. Updates(r) = Updates(s) \union Updates(t)
  BY <1>3, <1>4 DEF Updates
<1>6. /\ \A i \in 1..Len(s) : s[i].key \in K
      /\ \A i \in 1..Len(t) : t[i].key \in L
  BY DEF Subtracts, Updates
<1>7. Distinct(r)
  <2> SUFFICES ASSUME NEW i \in 1..Len(r), NEW j \in 1..Len(r), i # j
               PROVE  r[i].key # r[j].key
    BY DEF Distinct
  <2>1. i - Len(s) # j - Len(s)
    BY <1>2
  <2>2. Distinct(s) /\ Distinct(t)
    BY DEF Subtracts
  <2>3. CASE i \in 1..Len(s) /\ r[i] = s[i]
    <3>1. CASE j \in 1..Len(s) /\ r[j] = s[j]
      BY <2>2, <2>3, <3>1 DEF Distinct
    <3>2. CASE j - Len(s) \in 1..Len(t) /\ r[j] = t[j - Len(s)]
      BY <1>6, <2>3, <3>2
    <3> QED BY <1>3, <3>1, <3>2
  <2>4. CASE i - Len(s) \in 1..Len(t) /\ r[i] = t[i - Len(s)]
    <3>1. CASE j \in 1..Len(s) /\ r[j] = s[j]
      BY <1>6, <2>4, <3>1
    <3>2. CASE j - Len(s) \in 1..Len(t) /\ r[j] = t[j - Len(s)]
      BY <2>1, <2>2, <2>4, <3>2 DEF Distinct
    <3> QED BY <1>3, <3>1, <3>2
  <2> QED BY <1>3, <2>3, <2>4
<1> QED BY <1>2, <1>5, <1>7 DEF Subtracts, r

LEMMA SubtractionsForm ==
  ASSUME NEW told \in [Counter -> Nat]
  PROVE  Subtracts(Subtractions(told), told, Counter)
<1> DEFINE a == Subtraction("dropped", told["dropped"])
           b == Subtraction("transport_failures", told["transport_failures"])
           d == Subtraction("suppressed", told["suppressed"])
<1>1. /\ Subtracts(a, told, {"dropped"})
      /\ Subtracts(b, told, {"transport_failures"})
      /\ Subtracts(d, told, {"suppressed"})
  BY SubtractionForm DEF Counter
<1> HIDE DEF a, b, d
<1>2. Subtracts(a \o b, told, {"dropped"} \union {"transport_failures"})
  BY <1>1, SubtractsConcat
<1>3. Subtracts((a \o b) \o d, told,
                ({"dropped"} \union {"transport_failures"})
                  \union {"suppressed"})
  BY <1>1, <1>2, SubtractsConcat
<1>4. Counter = ({"dropped"} \union {"transport_failures"})
                  \union {"suppressed"}
  BY DEF Counter
<1> QED BY <1>3, <1>4 DEF Subtractions, a, b, d

Told(p, k) == beat[p].told[k]
Removes(p, k) == \E u \in Updates(work[p]) : u.key = k /\ u.delta < 0

\* A thread only adds one, or is settling what its digest told; the value it
\* read is still there; the counters hold what is yet to be subtracted.
Sound(p) ==
  /\ Distinct(work[p])
  /\ \A u \in Updates(work[p]) :
       \/ u.delta = 1
       \/ pc[p] = "settling" /\ u.delta < 0 /\ u.delta = -Told(p, u.key)
  /\ got[p] # Never => got[p] = counters[Head(work[p]).key]
  /\ \A k \in Counter : Unsettled(p, k) <= counters[k]
  /\ pc[p] = "sending" => \A k \in Counter : Told(p, k) <= counters[k]

Balanced(p) ==
  \A k \in Counter :
    LET known == ghost.reported[k] + counters[k] IN
    /\ ghost.bumps[k] + Unsettled(p, k) <= known
    /\ FaultFree => ghost.bumps[k] + Unsettled(p, k) = known

CountInv == \A p \in Proc : Sound(p) /\ Balanced(p)

UnsettledForm ==
  \A p \in Proc, k \in Counter :
    /\ Unsettled(p, k) = IF \/ pc[p] = "sent"
                            \/ pc[p] = "settling" /\ Removes(p, k)
                         THEN Told(p, k) ELSE 0
    /\ Told(p, k) \in Nat
    /\ Unsettled(p, k) \in Nat
    /\ counters[k] \in Nat /\ ghost.bumps[k] \in Nat /\ ghost.reported[k] \in Nat

LEMMA UnsettledIs == TypeOK => UnsettledForm
<1> SUFFICES ASSUME TypeOK, NEW p \in Proc, NEW k \in Counter
             PROVE  /\ Unsettled(p, k) = IF \/ pc[p] = "sent"
                                            \/ pc[p] = "settling" /\ Removes(p, k)
                                         THEN Told(p, k) ELSE 0
                    /\ Told(p, k) \in Nat
                    /\ Unsettled(p, k) \in Nat
                    /\ counters[k] \in Nat /\ ghost.bumps[k] \in Nat
                    /\ ghost.reported[k] \in Nat
  BY DEF UnsettledForm
<1>1. Told(p, k) \in Nat
  BY DEF TypeOK, Beat, Told
<1>2. counters[k] \in Nat /\ ghost.bumps[k] \in Nat /\ ghost.reported[k] \in Nat
  BY DEF TypeOK
<1>3. Removes(p, k) <=> \E i \in 1..Len(work[p]) :
                          work[p][i].key = k /\ work[p][i].delta < 0
  BY DEF Removes, Updates
<1>4. CASE pc[p] = "sent"
  BY <1>1, <1>2, <1>4 DEF Unsettled, Told
<1>5. CASE pc[p] = "settling"
  BY <1>1, <1>2, <1>3, <1>5 DEF Unsettled, Told
<1>6. CASE pc[p] # "sent" /\ pc[p] # "settling"
  BY <1>1, <1>2, <1>6 DEF Unsettled
<1> QED BY <1>4, <1>5, <1>6

LEMMA UnsettledIsNext ==
  ASSUME TypeOK'
  PROVE  UnsettledForm'
<1>1. (TypeOK => UnsettledForm)'
  BY UnsettledIs, PTL
<1> QED BY <1>1

\* Steps that do not touch the counters: Unsettled stays, or shrinks when
\* something fails.
LEMMA CountQuiet ==
  ASSUME UnsettledForm, UnsettledForm', NEW p \in Proc, Sound(p), Balanced(p),
         UNCHANGED counters, ghost'.bumps = ghost.bumps,
         ghost'.reported = ghost.reported, FaultFree' => FaultFree,
         \A k \in Counter :
           /\ Unsettled(p, k)' <= Unsettled(p, k)
           /\ FaultFree' => Unsettled(p, k)' = Unsettled(p, k),
         pc'[p] = "sending" => \A k \in Counter : Told(p, k)' <= counters[k],
         Distinct(work'[p]),
         \A u \in Updates(work'[p]) :
           \/ u.delta = 1
           \/ pc'[p] = "settling" /\ u.delta < 0 /\ u.delta = -Told(p, u.key)',
         got'[p] # Never => got'[p] = counters[Head(work'[p]).key]
  PROVE  Sound(p)' /\ Balanced(p)'
<1>1. \A k \in Counter :
        /\ Unsettled(p, k)' <= counters'[k]
        /\ ghost'.bumps[k] + Unsettled(p, k)' <= ghost'.reported[k] + counters'[k]
        /\ FaultFree' => ghost'.bumps[k] + Unsettled(p, k)'
                           = ghost'.reported[k] + counters'[k]
  <2> TAKE k \in Counter
  <2>1. /\ Unsettled(p, k) \in Nat /\ Unsettled(p, k)' \in Nat
        /\ counters[k] \in Nat /\ ghost.bumps[k] \in Nat
        /\ ghost.reported[k] \in Nat
    BY DEF UnsettledForm
  <2>2. /\ Unsettled(p, k) <= counters[k]
        /\ ghost.bumps[k] + Unsettled(p, k) <= ghost.reported[k] + counters[k]
        /\ FaultFree => ghost.bumps[k] + Unsettled(p, k)
                          = ghost.reported[k] + counters[k]
    BY DEF Sound, Balanced
  <2> QED BY <2>1, <2>2
<1>2. Balanced(p)'
  BY <1>1 DEF Balanced
<1>3. Sound(p)'
  BY <1>1 DEF Sound, Told
<1> QED BY <1>2, <1>3

\* Steps after which the thread works on what it worked on before.
LEMMA CountIdle ==
  ASSUME UnsettledForm, UnsettledForm', NEW p \in Proc, Sound(p), Balanced(p),
         UNCHANGED <<counters, work>>, ghost'.bumps = ghost.bumps,
         ghost'.reported = ghost.reported, FaultFree' => FaultFree,
         pc'[p] = pc[p], beat'[p].told = beat[p].told,
         got'[p] # Never => got'[p] = counters[Head(work[p]).key]
  PROVE  Sound(p)' /\ Balanced(p)'
<1>1. \A k \in Counter : /\ Told(p, k)' = Told(p, k)
                         /\ Removes(p, k)' <=> Removes(p, k)
  BY DEF Told, Removes
<1>2. \A k \in Counter : /\ Unsettled(p, k)' = Unsettled(p, k)
                         /\ Unsettled(p, k)' <= Unsettled(p, k)
  BY <1>1 DEF UnsettledForm
<1>3. \A u \in Updates(work[p]) :
        \/ u.delta = 1
        \/ pc'[p] = "settling" /\ u.delta < 0 /\ u.delta = -Told(p, u.key)'
  BY DEF Sound, Told
<1> QED BY <1>1, <1>2, <1>3, CountQuiet DEF Sound

\* Steps of the heartbeat thread before it has sent anything.
LEMMA CountEarly ==
  ASSUME UnsettledForm, UnsettledForm', NEW p \in Proc, Sound(p), Balanced(p),
         UNCHANGED <<counters, work, got>>, ghost'.bumps = ghost.bumps,
         ghost'.reported = ghost.reported, FaultFree' => FaultFree,
         pc[p] \notin {"sent", "settling"}, pc'[p] \notin {"sent", "settling"},
         pc'[p] = "sending" => beat'[p].told = counters
  PROVE  Sound(p)' /\ Balanced(p)'
<1>1. \A k \in Counter : Unsettled(p, k) = 0 /\ Unsettled(p, k)' = 0
  BY DEF UnsettledForm
<1>2. \A k \in Counter : /\ Unsettled(p, k)' <= Unsettled(p, k)
                         /\ Unsettled(p, k)' = Unsettled(p, k)
  BY <1>1
<1>3. pc'[p] = "sending" => \A k \in Counter : Told(p, k)' <= counters[k]
  BY DEF Told, UnsettledForm
<1>4. \A u \in Updates(work[p]) : u.delta = 1
  BY DEF Sound
<1> QED BY <1>2, <1>3, <1>4, CountQuiet DEF Sound

\* Steps after which the thread has nothing to do.
LEMMA EmptyWork == Updates(<<>>) = {} /\ Distinct(<<>>)
BY DEF Updates, Distinct

LEMMA CountDone ==
  ASSUME UnsettledForm, UnsettledForm', NEW p \in Proc, Sound(p), Balanced(p),
         UNCHANGED counters, ghost'.bumps = ghost.bumps,
         ghost'.reported = ghost.reported, FaultFree' => FaultFree,
         work'[p] = <<>>, got'[p] = Never,
         \/ pc'[p] = pc[p] /\ beat'[p] = beat[p] /\ pc[p] # "settling"
         \/ pc'[p] = "wait" /\ (FaultFree' => work[p] = <<>> /\ pc[p] # "sent")
  PROVE  Sound(p)' /\ Balanced(p)'
<1>1. \A k \in Counter : /\ Unsettled(p, k)' <= Unsettled(p, k)
                         /\ FaultFree' => Unsettled(p, k)' = Unsettled(p, k)
  <2> TAKE k \in Counter
  <2>1. ~Removes(p, k)'
    BY EmptyWork DEF Removes
  <2>2. CASE pc'[p] = pc[p] /\ beat'[p] = beat[p] /\ pc[p] # "settling"
    BY <2>1, <2>2 DEF UnsettledForm, Told
  <2>3. CASE /\ pc'[p] = "wait"
             /\ FaultFree' => work[p] = <<>> /\ pc[p] # "sent"
    <3>1. Unsettled(p, k)' = 0 /\ Unsettled(p, k) \in Nat
      BY <2>3 DEF UnsettledForm
    <3>2. FaultFree' => Unsettled(p, k) = 0
      BY <2>3, EmptyWork DEF UnsettledForm, Removes
    <3> QED BY <3>1, <3>2
  <2> QED BY <2>2, <2>3
<1>2. pc'[p] = "sending" => \A k \in Counter : Told(p, k)' <= counters[k]
  BY DEF Sound, Told
<1> QED BY <1>1, <1>2, EmptyWork, CountQuiet

LEMMA WriteCounterCounts ==
  ASSUME TypeOK, TypeOK', UnsettledForm, UnsettledForm', NEW p \in Proc,
         Sound(p), Balanced(p), FaultFree' => FaultFree, WriteCounter(p)
  PROVE  Sound(p)' /\ Balanced(p)'
<1>1. work[p] # <<>> /\ work[p] \in Seq(Update)
  BY DEF WriteCounter, TypeOK, Update
<1>2. PICK u : u = Head(work[p])
  OBVIOUS
<1>3. /\ u \in Update /\ u.key \in Counter /\ u.delta \in Int
  BY <1>1, <1>2, FirstUpdate
<1>4. /\ got[p] = counters[u.key]
      /\ counters' = [counters EXCEPT ![u.key] = Written(got[p], u.delta)]
      /\ work' = [work EXCEPT ![p] = Tail(@)]
      /\ got' = [got EXCEPT ![p] = Never]
      /\ ghost' = IF u.delta > 0
                  THEN [ghost EXCEPT !.bumps[u.key] = @ + 1] ELSE ghost
      /\ UNCHANGED <<pc, beat>>
  BY <1>2 DEF WriteCounter, Sound
<1>5. /\ work'[p] = Tail(work[p]) /\ got'[p] = Never
      /\ counters'[u.key] = Written(counters[u.key], u.delta)
      /\ \A k \in Counter : k # u.key => counters'[k] = counters[k]
      /\ ghost'.reported = ghost.reported
      /\ \A k \in Counter : ghost'.bumps[k] =
           IF k = u.key /\ u.delta > 0 THEN ghost.bumps[k] + 1 ELSE ghost.bumps[k]
  <2>1. /\ work'[p] = Tail(work[p]) /\ got'[p] = Never
        /\ counters'[u.key] = Written(counters[u.key], u.delta)
        /\ \A k \in Counter : k # u.key => counters'[k] = counters[k]
    BY <1>3, <1>4, ZenonT(90) DEF TypeOK
  <2>2. ghost.bumps \in [Counter -> Nat]
    BY DEF TypeOK
  <2>3. CASE u.delta > 0
    <3>1. ghost' = [ghost EXCEPT !.bumps = [ghost.bumps EXCEPT
                                              ![u.key] = ghost.bumps[u.key] + 1]]
      BY <1>4, <2>3 DEF TypeOK
    <3>2. /\ ghost'.reported = ghost.reported
          /\ ghost'.bumps = [ghost.bumps EXCEPT ![u.key] = ghost.bumps[u.key] + 1]
      BY <3>1 DEF TypeOK
    <3> QED BY <1>3, <2>1, <2>2, <2>3, <3>2
  <2>4. CASE ~(u.delta > 0)
    BY <1>4, <2>1, <2>4
  <2> QED BY <2>3, <2>4
<1>6. /\ Updates(work[p]) = Updates(work'[p]) \union {u}
      /\ Distinct(work'[p])
      /\ \A v \in Updates(work'[p]) : v.key # u.key
  BY <1>1, <1>2, <1>5, TailUpdates DEF Sound
<1>7. \A k \in Counter : Told(p, k)' = Told(p, k)
  BY <1>4 DEF Told
<1>8. \A k \in Counter :
        Removes(p, k)' <=> Removes(p, k) /\ ~(k = u.key /\ u.delta < 0)
  BY <1>6 DEF Removes
<1>9. \A k \in Counter : k # u.key => Unsettled(p, k)' = Unsettled(p, k)
  BY <1>4, <1>7, <1>8 DEF UnsettledForm
<1>10. /\ Unsettled(p, u.key) <= counters[u.key]
       /\ Unsettled(p, u.key) \in Nat /\ Unsettled(p, u.key)' \in Nat
       /\ counters[u.key] \in Nat
       /\ \/ u.delta = 1
          \/ pc[p] = "settling" /\ u.delta < 0 /\ u.delta = -Told(p, u.key)
  BY <1>3, <1>6 DEF Sound, UnsettledForm
<1>11. CASE u.delta = 1
  <2>1. counters'[u.key] = counters[u.key] + 1
    BY <1>5, <1>10, <1>11 DEF Written
  <2>2. \A k \in Counter : Removes(p, k)' <=> Removes(p, k)
    BY <1>8, <1>11
  <2>3. Unsettled(p, u.key)' = Unsettled(p, u.key)
    BY <1>3, <1>4, <1>7, <2>2 DEF UnsettledForm
  <2>4. ghost'.bumps[u.key] = ghost.bumps[u.key] + 1
    BY <1>3, <1>5, <1>11
  <2>5. Balanced(p)'
    <3> SUFFICES ASSUME NEW k \in Counter
                 PROVE  /\ ghost'.bumps[k] + Unsettled(p, k)'
                             <= ghost'.reported[k] + counters'[k]
                        /\ FaultFree' => ghost'.bumps[k] + Unsettled(p, k)'
                                           = ghost'.reported[k] + counters'[k]
      BY DEF Balanced
    <3>1. /\ ghost.bumps[k] + Unsettled(p, k) <= ghost.reported[k] + counters[k]
          /\ FaultFree => ghost.bumps[k] + Unsettled(p, k)
                            = ghost.reported[k] + counters[k]
          /\ ghost.bumps[k] \in Nat /\ ghost.reported[k] \in Nat
          /\ counters[k] \in Nat /\ Unsettled(p, k) \in Nat
      BY DEF Balanced, UnsettledForm
    <3>2. CASE k = u.key
      BY <1>5, <2>1, <2>3, <2>4, <3>1, <3>2
    <3>3. CASE k # u.key
      <4>1. ghost'.bumps[k] = ghost.bumps[k]
        BY <1>5, <3>3
      <4> QED BY <1>5, <1>9, <3>1, <3>3, <4>1
    <3> QED BY <3>2, <3>3
  <2>6. \A k \in Counter : counters'[k] >= counters[k]
    BY <1>5, <2>1 DEF UnsettledForm
  <2>7. \A k \in Counter : Unsettled(p, k)' = Unsettled(p, k)
    BY <1>9, <2>3
  <2>8. \A k \in Counter : Unsettled(p, k)' <= counters'[k]
    <3> TAKE k \in Counter
    <3>1. /\ Unsettled(p, k) <= counters[k] /\ Unsettled(p, k) \in Nat
          /\ counters[k] \in Nat /\ counters'[k] \in Nat
      BY DEF Sound, UnsettledForm
    <3> QED BY <2>6, <2>7, <3>1
  <2>9. pc'[p] = "sending" => \A k \in Counter : Told(p, k)' <= counters'[k]
    <3> SUFFICES ASSUME pc[p] = "sending", NEW k \in Counter
                 PROVE  Told(p, k)' <= counters'[k]
      BY <1>4
    <3>1. /\ Told(p, k) <= counters[k] /\ Told(p, k) \in Nat
          /\ counters[k] \in Nat /\ counters'[k] \in Nat
      BY DEF Sound, UnsettledForm
    <3> QED BY <1>7, <2>6, <3>1
  <2>10. Sound(p)'
    BY <1>4, <1>5, <1>6, <2>8, <2>9 DEF Sound, Told
  <2> QED BY <2>5, <2>10
<1>12. CASE /\ pc[p] = "settling" /\ u.delta < 0
            /\ u.delta = -Told(p, u.key)
  <2>1. Removes(p, u.key) /\ ~Removes(p, u.key)'
    BY <1>3, <1>6, <1>8, <1>12 DEF Removes
  <2>2. /\ Unsettled(p, u.key) = Told(p, u.key) /\ Unsettled(p, u.key)' = 0
        /\ Told(p, u.key) \in Nat
    BY <1>3, <1>4, <1>12, <2>1 DEF UnsettledForm
  <2>3. counters'[u.key] = counters[u.key] - Told(p, u.key)
    BY <1>5, <1>10, <1>12, <2>2 DEF Written
  <2>4. \A k \in Counter : ghost'.bumps[k] = ghost.bumps[k]
    BY <1>3, <1>5, <1>12
  <2>5. Balanced(p)'
    <3> SUFFICES ASSUME NEW k \in Counter
                 PROVE  /\ ghost'.bumps[k] + Unsettled(p, k)'
                             <= ghost'.reported[k] + counters'[k]
                        /\ FaultFree' => ghost'.bumps[k] + Unsettled(p, k)'
                                           = ghost'.reported[k] + counters'[k]
      BY DEF Balanced
    <3>1. /\ ghost.bumps[k] + Unsettled(p, k) <= ghost.reported[k] + counters[k]
          /\ FaultFree => ghost.bumps[k] + Unsettled(p, k)
                            = ghost.reported[k] + counters[k]
          /\ ghost.bumps[k] \in Nat /\ ghost.reported[k] \in Nat
          /\ counters[k] \in Nat /\ Unsettled(p, k) \in Nat
      BY DEF Balanced, UnsettledForm
    <3>2. CASE k = u.key
      BY <1>5, <2>2, <2>3, <2>4, <3>1, <3>2
    <3>3. CASE k # u.key
      BY <1>5, <1>9, <2>4, <3>1, <3>3
    <3> QED BY <3>2, <3>3
  <2>6. \A k \in Counter : Unsettled(p, k)' <= counters'[k]
    <3> TAKE k \in Counter
    <3>1. CASE k = u.key
      BY <2>2, <3>1 DEF UnsettledForm
    <3>2. CASE k # u.key
      BY <1>5, <1>9, <3>2 DEF Sound
    <3> QED BY <3>1, <3>2
  <2>7. \A v \in Updates(work'[p]) :
          \/ v.delta = 1
          \/ pc'[p] = "settling" /\ v.delta < 0 /\ v.delta = -Told(p, v.key)'
    BY <1>4, <1>6 DEF Sound, Told
  <2> QED BY <1>4, <1>5, <1>6, <1>12, <2>5, <2>6, <2>7 DEF Sound
<1> QED BY <1>10, <1>11, <1>12

LEMMA SendDeliversCounts ==
  ASSUME TypeOK, UnsettledForm, UnsettledForm', NEW p \in Proc,
         Sound(p), Balanced(p), SendDelivers(p)
  PROVE  Sound(p)' /\ Balanced(p)'
<1>1. /\ pc[p] = "sending" /\ pc'[p] = "sent"
      /\ UNCHANGED <<counters, work, got, beat, spent>>
      /\ ghost'.bumps = ghost.bumps
      /\ \A k \in Counter : ghost'.reported[k] = ghost.reported[k] + Told(p, k)
  BY DEF SendDelivers, TypeOK, store, alerts, Told
<1>2. \A k \in Counter : Unsettled(p, k) = 0 /\ Unsettled(p, k)' = Told(p, k)
  BY <1>1 DEF UnsettledForm, Told
<1>3. /\ FaultFree' <=> FaultFree
      /\ \A k \in Counter : Told(p, k) <= counters[k]
  BY <1>1 DEF FaultFree, Sound
<1>4. Balanced(p)'
  <2> SUFFICES ASSUME NEW k \in Counter
               PROVE  /\ ghost'.bumps[k] + Unsettled(p, k)'
                           <= ghost'.reported[k] + counters'[k]
                      /\ FaultFree' => ghost'.bumps[k] + Unsettled(p, k)'
                                         = ghost'.reported[k] + counters'[k]
    BY DEF Balanced
  <2>1. /\ ghost.bumps[k] + Unsettled(p, k) <= ghost.reported[k] + counters[k]
        /\ FaultFree => ghost.bumps[k] + Unsettled(p, k)
                          = ghost.reported[k] + counters[k]
        /\ ghost.bumps[k] \in Nat /\ ghost.reported[k] \in Nat
        /\ counters[k] \in Nat /\ Told(p, k) \in Nat
    BY DEF Balanced, UnsettledForm
  <2> QED BY <1>1, <1>2, <1>3, <2>1
<1>5. \A u \in Updates(work[p]) : u.delta = 1
  BY <1>1 DEF Sound
<1>6. Sound(p)'
  BY <1>1, <1>2, <1>3, <1>5 DEF Sound
<1> QED BY <1>4, <1>6

\* A thread takes the lock with its updates before it.
LEMMA BumpForm ==
  ASSUME NEW k
  PROVE  /\ Updates(Bump(k)) = {[key |-> k, delta |-> 1]}
         /\ Distinct(Bump(k))
BY DEF Updates, Distinct, Bump

LEMMA ReporterTakesCounts ==
  ASSUME TypeOK, UnsettledForm, UnsettledForm', NEW p \in Proc,
         Sound(p), Balanced(p), FaultFree' => FaultFree,
         UNCHANGED <<counters, got, pc, beat>>,
         ghost'.bumps = ghost.bumps, ghost'.reported = ghost.reported,
         NEW todo, Acquire(p, "reporter", todo),
         todo = <<>> \/ \E k \in Counter : todo = Bump(k)
  PROVE  Sound(p)' /\ Balanced(p)'
<1>1. Distinct(todo) /\ \A u \in Updates(todo) : u.delta = 1
  BY BumpForm, EmptyWork
<1>2. work'[p] = todo /\ pc[p] # "settling" /\ got[p] = Never
  BY DEF Acquire, TypeOK
<1>3. \A k \in Counter : /\ Unsettled(p, k)' = Unsettled(p, k)
                         /\ Unsettled(p, k)' <= Unsettled(p, k)
  BY <1>2 DEF UnsettledForm, Told
<1>4. pc'[p] = "sending" => \A k \in Counter : Told(p, k)' <= counters[k]
  BY DEF Sound, Told
<1> QED BY <1>1, <1>2, <1>3, <1>4, CountQuiet

LEMMA OccurCounts ==
  ASSUME TypeOK, UnsettledForm, UnsettledForm', NEW p \in Proc, NEW fp \in Fp,
         Sound(p), Balanced(p), FaultFree' => FaultFree, Occur(p, fp)
  PROVE  Sound(p)' /\ Balanced(p)'
<1>1. PICK todo \in {<<>>, Bump("dropped"), Bump("suppressed")} :
        Acquire(p, "reporter", todo)
  BY OccurLocks
<1>2. todo = <<>> \/ \E k \in Counter : todo = Bump(k)
  BY DEF Counter
<1>3. UNCHANGED <<counters, got, pc, beat>>
  BY OccurLocks
<1>4. ghost'.bumps = ghost.bumps /\ ghost'.reported = ghost.reported
  BY OccurLocks DEF Occurred, TypeOK
<1> QED BY <1>1, <1>2, <1>3, <1>4, ReporterTakesCounts

LEMMA WriteBackCounts ==
  ASSUME TypeOK, UnsettledForm, UnsettledForm', NEW p \in Proc,
         Sound(p), Balanced(p), FaultFree' => FaultFree, WriteBack(p)
  PROVE  Sound(p)' /\ Balanced(p)'
<1>1. PICK todo \in {<<>>, Bump("transport_failures")} : Acquire(p, "reporter", todo)
  BY WriteBackLocks
<1>2. todo = <<>> \/ \E k \in Counter : todo = Bump(k)
  BY DEF Counter
<1>3. UNCHANGED <<counters, got, pc, beat>>
  BY WriteBackLocks
<1>4. ghost'.bumps = ghost.bumps /\ ghost'.reported = ghost.reported
  BY DEF WriteBack, TypeOK
<1> QED BY <1>1, <1>2, <1>3, <1>4, ReporterTakesCounts

LEMMA SettleCounts ==
  ASSUME TypeOK, UnsettledForm, UnsettledForm', NEW p \in Proc,
         Sound(p), Balanced(p), Settle(p)
  PROVE  Sound(p)' /\ Balanced(p)'
<1>1. /\ lock[p] = "free" /\ pc'[p] = "settling"
      /\ UNCHANGED <<counters, got, beat, ghost, spent>>
      /\ got[p] = Never
  BY DEF Settle, Acquire, TypeOK, store, alerts
<1>2. FaultFree' => FaultFree
  BY <1>1 DEF FaultFree
<1>3. CASE pc[p] = "sent"
  <2> DEFINE told == beat[p].told
             s == Subtractions(told)
  <2>1. work'[p] = s /\ told \in [Counter -> Nat]
    BY <1>3 DEF Settle, Acquire, TypeOK, Beat
  <2>2. Subtracts(s, told, Counter)
    BY <2>1, SubtractionsForm
  <2> HIDE DEF s
  <2>3. /\ Distinct(s)
        /\ \A u \in Updates(s) : u.delta < 0 /\ u.delta = -Told(p, u.key)'
    BY <1>1, <2>2 DEF Subtracts, Told
  <2>4. \A k \in Counter : /\ Unsettled(p, k)' = Unsettled(p, k)
                           /\ Unsettled(p, k)' <= Unsettled(p, k)
    <3> TAKE k \in Counter
    <3>1. Unsettled(p, k) = Told(p, k) /\ Told(p, k) \in Nat /\ Told(p, k)' = Told(p, k)
      BY <1>1, <1>3 DEF UnsettledForm, Told
    <3>2. CASE told[k] > 0
      <4>1. Removes(p, k)'
        BY <2>1, <2>2, <3>2 DEF Removes, Subtracts
      <4> QED BY <1>1, <3>1, <4>1 DEF UnsettledForm
    <3>3. CASE ~(told[k] > 0)
      <4>1. Told(p, k) = 0
        BY <3>1, <3>3 DEF Told
      <4>2. Unsettled(p, k)' \in {Told(p, k)', 0}
        BY DEF UnsettledForm
      <4> QED BY <3>1, <4>1, <4>2
    <3> QED BY <3>2, <3>3
  <2> QED BY <1>1, <1>2, <2>1, <2>3, <2>4, CountQuiet
<1>4. CASE pc[p] = "failed"
  <2>1. work'[p] = Bump("transport_failures")
    BY <1>4 DEF Settle, Acquire, TypeOK
  <2>2. /\ Distinct(work'[p]) /\ \A u \in Updates(work'[p]) : u.delta = 1
    BY <2>1, BumpForm
  <2>3. \A k \in Counter : ~Removes(p, k)'
    BY <2>2 DEF Removes
  <2>4. \A k \in Counter : /\ Unsettled(p, k)' = Unsettled(p, k)
                           /\ Unsettled(p, k)' <= Unsettled(p, k)
    BY <1>1, <1>4, <2>3 DEF UnsettledForm
  <2> QED BY <1>1, <1>2, <2>2, <2>4, CountQuiet
<1> QED BY <1>3, <1>4 DEF Settle

LEMMA FailureCounts ==
  ASSUME TypeOK, UnsettledForm, UnsettledForm', NEW p \in Proc,
         Sound(p), Balanced(p), ~FaultFree',
         \/ HeartbeatRaises(p) \/ ReporterRaises(p) \/ WriteBackRaises(p)
         \/ Kill(p)
  PROVE  Sound(p)' /\ Balanced(p)'
<1>1. UNCHANGED <<counters, ghost>>
  BY DEF HeartbeatRaises, ReporterRaises, WriteBackRaises, Kill, store
<1>2. CASE /\ HeartbeatRaises(p)
           /\ pc[p] \in {"polled", "due"} /\ UNCHANGED <<lock, work, got>>
  <2>1. pc'[p] = "wait"
    BY <1>2 DEF HeartbeatRaises, TypeOK
  <2> QED BY <1>1, <1>2, <2>1, CountEarly
<1>3. CASE Abandon(p)
  <2>1. work'[p] = <<>> /\ got'[p] = Never
    BY <1>3, AbandonType
  <2>2. \/ pc'[p] = "wait"
        \/ pc'[p] = pc[p] /\ beat'[p] = beat[p] /\ pc[p] # "settling"
    BY <1>3 DEF HeartbeatRaises, ReporterRaises, WriteBackRaises, Kill, TypeOK,
                Abandon
  <2> QED BY <1>1, <2>1, <2>2, CountDone
<1>4. CASE WriteBackRaises(p)
  <2>1. UNCHANGED <<work, got, pc, beat>>
    BY <1>4 DEF WriteBackRaises
  <2> QED BY <1>1, <2>1, CountIdle DEF Sound
<1> QED BY <1>2, <1>3, <1>4 DEF HeartbeatRaises, ReporterRaises, Kill

LEMMA CountStep ==
  ASSUME \A p, q \in Proc : p = q
  PROVE  TypeOK /\ TypeOK' /\ CountInv /\ [Next]_vars => CountInv'
<1> SUFFICES ASSUME TypeOK, TypeOK', CountInv, [Next]_vars, NEW p \in Proc
             PROVE  Sound(p)' /\ Balanced(p)'
  BY DEF CountInv
<1>1. UnsettledForm /\ UnsettledForm' /\ Sound(p) /\ Balanced(p)
  BY UnsettledIs, UnsettledIsNext DEF CountInv
<1>2. FaultFree' => FaultFree
  BY FaultFreeBefore
<1>3. CASE ReadCounter(p)
  BY <1>1, <1>2, <1>3, CountIdle DEF ReadCounter, TypeOK, store, alerts
<1>4. CASE Release(p)
  <2>1. /\ work[p] = <<>> /\ work' = work /\ got'[p] = Never
        /\ UNCHANGED <<counters, ghost>>
        /\ \/ pc'[p] = "wait" /\ pc[p] # "sent"
           \/ pc'[p] = pc[p] /\ beat'[p] = beat[p] /\ pc[p] # "settling"
    BY <1>4 DEF Release, TypeOK, store, alerts
  <2> QED BY <1>1, <1>2, <2>1, CountDone
<1>5. CASE \/ Poll(p) \/ ShouldFire(p) \/ Claim(p) \/ ClaimRefused(p)
           \/ Snapshot(p) \/ SendFails(p)
  <2>1. /\ UNCHANGED <<counters, work, got>>
        /\ ghost'.bumps = ghost.bumps /\ ghost'.reported = ghost.reported
    <3>1. CASE Poll(p) \/ ShouldFire(p) \/ ClaimRefused(p) \/ SendFails(p)
      BY <3>1 DEF Poll, ShouldFire, ClaimRefused, SendFails, store
    <3>2. CASE Claim(p)
      BY <3>2 DEF Claim, Acquire, TypeOK
    <3>3. CASE Snapshot(p)
      BY <3>3 DEF Snapshot, TypeOK, store, alerts
    <3> QED BY <1>5, <3>1, <3>2, <3>3
  <2>2. /\ pc[p] \notin {"sent", "settling"}
        /\ pc'[p] \notin {"sent", "settling"}
        /\ pc'[p] = "sending" => Snapshot(p)
    <3>0. pc \in [Proc -> {"wait", "polled", "due", "claimed", "sending", "sent",
                           "failed", "settling"}]
      BY DEF TypeOK
    <3>1. CASE Poll(p)
      BY <3>0, <3>1 DEF Poll
    <3>2. CASE ShouldFire(p)
      BY <3>0, <3>2 DEF ShouldFire
    <3>3. CASE Claim(p)
      BY <3>0, <3>3 DEF Claim
    <3>4. CASE ClaimRefused(p)
      BY <3>0, <3>4 DEF ClaimRefused
    <3>5. CASE Snapshot(p)
      BY <3>0, <3>5 DEF Snapshot
    <3>6. CASE SendFails(p)
      BY <3>0, <3>6 DEF SendFails
    <3> QED BY <1>5, <3>1, <3>2, <3>3, <3>4, <3>5, <3>6
  <2>3. Snapshot(p) => beat'[p].told = counters
    BY DEF Snapshot, TypeOK, Beat
  <2> QED BY <1>1, <1>2, <2>1, <2>2, <2>3, CountEarly
<1>6. CASE \/ ReadNow(p) \/ WorkerSends(p) \/ Tick \/ UNCHANGED vars
           \/ \E fp \in Fp, resolved \in BOOLEAN : SetResolved(fp, resolved)
  <2>1. /\ UNCHANGED <<counters, work, got, pc, beat>>
        /\ ghost'.bumps = ghost.bumps /\ ghost'.reported = ghost.reported
    BY <1>6, ZenonT(90)
       DEF ReadNow, WorkerSends, Tick, vars, SetResolved, memory, store, TypeOK
  <2> QED BY <1>1, <1>2, <2>1, CountIdle DEF Sound
<1>7. CASE \/ HeartbeatRaises(p) \/ ReporterRaises(p) \/ WriteBackRaises(p)
           \/ Kill(p)
  <2>1. ~FaultFree'
    BY <1>7, FaultFreeBefore
  <2> QED BY <1>1, <1>7, <2>1, FailureCounts
<1>8. ASSUME NEW fp \in Fp, Occur(p, fp) PROVE Sound(p)' /\ Balanced(p)'
  BY <1>1, <1>2, <1>8, OccurCounts
<1>9. CASE WriteCounter(p) \/ SendDelivers(p) \/ Settle(p) \/ WriteBack(p)
  BY <1>1, <1>2, <1>9, WriteCounterCounts, SendDeliversCounts, SettleCounts,
     WriteBackCounts
<1> QED
  BY <1>3, <1>4, <1>5, <1>6, <1>7, <1>8, <1>9
     DEF Next, LockHolder, HeartbeatThread

\* heartbeat.py:207-213: for a process that is the only one on the store, every
\* bump is told by a delivered digest or still counted, and none is told twice
\* without a failure, wherever the bumps fall between snapshot and settlement.
\* With two processes _meta_bump()'s read and write interleave and it is false.
THEOREM CountersAreConserved ==
  ASSUME \A p, q \in Proc : p = q
  PROVE  Spec => []CountersConserved
<1>1. Init => CountInv
  <2> SUFFICES ASSUME Init, NEW p \in Proc PROVE Sound(p) /\ Balanced(p)
    BY DEF CountInv
  <2>1. UnsettledForm
    BY TypeInit, UnsettledIs
  <2>2. /\ work[p] = <<>> /\ got[p] = Never /\ pc[p] = "wait"
        /\ \A k \in Counter : /\ ghost.bumps[k] = 0 /\ ghost.reported[k] = 0
                              /\ counters[k] = 0
    BY DEF Init, NoGhost, Zero
  <2>3. \A k \in Counter : Unsettled(p, k) = 0
    BY <2>1, <2>2 DEF UnsettledForm
  <2> QED BY <2>2, <2>3, EmptyWork DEF Sound, Balanced
<1>2. TypeOK /\ TypeOK' /\ CountInv /\ [Next]_vars => CountInv'
  BY CountStep
<1>3. CountInv => CountersConserved
  BY DEF CountInv, Balanced, CountersConserved
<1> QED BY TypeInit, TypeStep, <1>1, <1>2, <1>3, PTL DEF Spec
=============================================================================
