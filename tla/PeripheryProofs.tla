---------------------------- MODULE PeripheryProofs ----------------------------
(***************************************************************************)
(* Proofs about the components of Periphery, for any number of hooks, rows *)
(* and requests, any paths and any texts: the chain of the hook slot, the  *)
(* review page, the fingerprints and the body of an alert.                 *)
(***************************************************************************)
EXTENDS Periphery, WellFoundedInduction, SequenceTheorems, FiniteSetTheorems,
        TLAPS

-----------------------------------------------------------------------------
(* Least elements, which stand in for induction.                           *)

Below == {pair \in Nat \X Nat : pair[1] < pair[2]}

\* A set of natural numbers that is not empty has a least element.
LEMMA LeastElement ==
  ASSUME NEW T, T \subseteq Nat, T # {}
  PROVE  \E x \in T : \A y \in T : ~(y < x)
  <1>1. Below = OpToRel(<, Nat)
    BY DEF Below, OpToRel
  <1>2. IsWellFoundedOn(Below, Nat)
    BY <1>1, NatLessThanWellFounded
  <1>3. \E x \in T : \A y \in T : ~(<<y, x>> \in Below)
    BY <1>2, WFMin
  <1> QED
    BY <1>3 DEF Below

-----------------------------------------------------------------------------
(* The chain from a hook, for any memory f of what each hook found.        *)

Descends(f) == \A h \in Slot!Hook : f[h] \in 0..(h - 1)

Chained(f, C) ==
  C = [h \in 0..MaxHooks |-> IF h = Slot!Default THEN {} ELSE {h} \union C[f[h]]]

\* The hooks that every set has which holds h and what its hooks found.
Reached(f, h) ==
  {g \in Slot!Hook : \A S \in SUBSET Slot!Hook :
     /\ h = 0 \/ h \in S
     /\ \A k \in S : f[k] = 0 \/ f[k] \in S
     => g \in S}

\* There is a function that unfolds as Chain does.
LEMMA ChainExists ==
  ASSUME NEW f, MaxHooks \in Nat, Descends(f)
  PROVE  \E C : Chained(f, C)
  <1> DEFINE C == [h \in 0..MaxHooks |-> Reached(f, h)]
  <1>1. C[0] = {}
    <2>1. /\ {} \in SUBSET Slot!Hook
          /\ \A k \in {} : f[k] = 0 \/ f[k] \in {}
      OBVIOUS
    <2>2. \A g : g \notin Reached(f, 0)
      BY <2>1 DEF Reached
    <2> QED
      BY <2>2, MaxHooks \in Nat
  <1>2. ASSUME NEW h \in Slot!Hook
        PROVE  Reached(f, h) = {h} \union Reached(f, f[h])
    <2>0. f[h] \in 0..(h - 1) /\ h \in Nat \ {0}
      BY Descends(f), MaxHooks \in Nat DEF Descends, Slot!Hook
    <2>1. h \in Reached(f, h)
      BY <2>0 DEF Reached
    <2>2. ASSUME NEW g \in Reached(f, f[h])
          PROVE  g \in Reached(f, h)
      BY <2>0, <2>2 DEF Reached
    <2>3. ASSUME NEW g \in Reached(f, h), g # h
          PROVE  g \in Reached(f, f[h])
      <3> SUFFICES ASSUME NEW S \in SUBSET Slot!Hook,
                          f[h] = 0 \/ f[h] \in S,
                          \A k \in S : f[k] = 0 \/ f[k] \in S
                   PROVE  g \in S
        BY <2>3 DEF Reached
      <3>1. /\ S \union {h} \in SUBSET Slot!Hook
            /\ h \in S \union {h}
            /\ \A k \in S \union {h} : f[k] = 0 \/ f[k] \in S \union {h}
        OBVIOUS
      <3>2. g \in S \union {h}
        BY <3>1, <2>3 DEF Reached
      <3> QED
        BY <3>2, <2>3
    <2> QED
      BY <2>1, <2>2, <2>3
  <1>3. ASSUME NEW h \in 0..MaxHooks
        PROVE  C[h] = IF h = Slot!Default THEN {} ELSE {h} \union C[f[h]]
    <2>1. CASE h = 0
      BY <2>1, <1>1 DEF Slot!Default
    <2>2. CASE h # 0
      <3>1. h \in Slot!Hook /\ f[h] \in 0..MaxHooks
        BY <2>2, Descends(f), MaxHooks \in Nat DEF Descends, Slot!Hook
      <3>2. C[h] = Reached(f, h) /\ C[f[h]] = Reached(f, f[h])
        BY <3>1
      <3> HIDE DEF C
      <3> QED
        BY <3>1, <3>2, <1>2, <2>2 DEF Slot!Default
    <2> QED
      BY <2>1, <2>2
  <1>4. C = [h \in 0..MaxHooks |-> C[h]]
    OBVIOUS
  <1> HIDE DEF C
  <1>5. Chained(f, C)
    BY <1>3, <1>4 DEF Chained
  <1> QED
    BY <1>5

\* Chain is one.
LEMMA ChainUnfolds ==
  ASSUME MaxHooks \in Nat, Descends(previous)
  PROVE  Chained(previous, Slot!Chain)
  <1>1. \E C : Chained(previous, C)
    BY ChainExists
  <1> QED
    BY <1>1 DEF Chained, Slot!Chain

LEMMA ChainUnfoldsNext ==
  ASSUME MaxHooks \in Nat, Descends(previous')
  PROVE  Chained(previous', Slot!Chain')
  <1>1. \E C : Chained(previous', C)
    BY ChainExists
  <1> QED
    BY <1>1 DEF Chained, Slot!Chain

\* A chain has what the hooks in it found, and nothing after its beginning;
\* two memories that agree up to a hook give it one chain.
LEMMA ChainsAgree ==
  ASSUME NEW f, NEW g, NEW C, NEW D, NEW n \in 0..MaxHooks, MaxHooks \in Nat,
         Descends(f), Descends(g), Chained(f, C), Chained(g, D),
         \A h \in 1..n : f[h] = g[h]
  PROVE  \A h \in 0..n : C[h] = D[h]
  <1> DEFINE T == {h \in 0..n : C[h] # D[h]}
  <1> SUFFICES ASSUME T # {} PROVE FALSE
    OBVIOUS
  <1>1. PICK x \in T : \A y \in T : ~(y < x)
    <2>1. T \subseteq Nat
      OBVIOUS
    <2> QED
      BY <2>1, LeastElement
  <1>2. x \in 0..MaxHooks /\ x \in 0..n /\ C[x] # D[x]
    OBVIOUS
  <1>3. /\ C[x] = IF x = 0 THEN {} ELSE {x} \union C[f[x]]
        /\ D[x] = IF x = 0 THEN {} ELSE {x} \union D[g[x]]
    BY <1>2 DEF Chained, Slot!Default
  <1>4. x # 0
    BY <1>2, <1>3
  <1>5. f[x] = g[x] /\ f[x] \in 0..n /\ f[x] < x
    BY <1>2, <1>4 DEF Descends, Slot!Hook
  <1>6. C[f[x]] = D[f[x]]
    BY <1>1, <1>5
  <1> QED
    BY <1>2, <1>3, <1>4, <1>5, <1>6

-----------------------------------------------------------------------------
(* The hook slot.                                                          *)

Moves == [does : {"nothing", "put", "restore"}, saw : Nat, since : SUBSET Nat]

\* The types, with the domains of previous and step: of the slot, ...
SlotCore ==
  /\ made \in 0..MaxHooks
  /\ slot \in 0..made
  /\ previous \in [Slot!Hook -> Nat] /\ Descends(previous)
  /\ step \in [Slot!Actor -> Moves]
  /\ \A a \in Slot!Actor :
       /\ step[a].saw \in 0..made /\ step[a].since \subseteq 1..made
       /\ step[a].does = "restore" => step[a].saw # 0
  /\ overwritten \subseteq 1..made

\* ... and of those who use it.
SlotTypes ==
  /\ SlotCore
  /\ others \subseteq foreign /\ foreign \subseteq 1..made
  /\ state \in {"none", "open", "closing", "closed"} /\ hooked \in BOOLEAN
  /\ uninstallers \in Seq(Slot!Hook)
  /\ late \in {"no", "checked", "outdated"}

\* The reporter removes none of the other library's hooks.
OursOnly == \A i \in 1..Len(uninstallers) : /\ uninstallers[i] <= made
                                            /\ uninstallers[i] \notin foreign

\* Who is about to write the slot, and when.
Writers ==
  /\ step["close"] # Slot!Nothing =>
       state = "closing" /\ uninstallers # <<>>
  /\ step["install"] # Slot!Nothing /\ late = "no" => state \in {"none", "closed"}

\* The hook whose chain an actor's write will leave.
Leaves(a) == IF step[a].does = "restore" THEN previous[step[a].saw]
                                         ELSE step[a].saw

\* A hook is in the chain, and whoever is about to write the slot will leave
\* it there, or it came after his read.
Kept(g) ==
  \/ g \in overwritten
  \/ /\ g \in Slot!Chain[slot]
     /\ \A a \in Slot!Actor : step[a] # Slot!Nothing =>
          g \in Slot!Chain[Leaves(a)] \/ g \in step[a].since

Hooked ==
  state = "open" /\ hooked => uninstallers # <<>> /\ Kept(Head(uninstallers))

SlotInv == /\ SlotTypes /\ OursOnly /\ Writers
           /\ \A g \in others : Kept(g)
           /\ Hooked

LEMMA HooksAreNumbers == MaxHooks \in Nat
  BY PeripheryAssumption

LEMMA NothingIs ==
  /\ Slot!Nothing \in Moves /\ Slot!Nothing.does = "nothing"
  /\ Slot!Nothing.saw = 0 /\ Slot!Nothing.since = {}
  BY DEF Slot!Nothing, Slot!Default, Moves

\* A hook in the slot is in the chain, before what it found.
LEMMA ChainBegins ==
  ASSUME SlotTypes, NEW h \in 0..MaxHooks
  PROVE  Slot!Chain[h] = IF h = 0 THEN {} ELSE {h} \union Slot!Chain[previous[h]]
  <1>1. Chained(previous, Slot!Chain)
    BY ChainUnfolds, HooksAreNumbers DEF SlotTypes, SlotCore
  <1> QED
    BY <1>1, HooksAreNumbers DEF Chained, Slot!Default

\* A new hook is put before the chain that its installer found; the chains of
\* the others stay as they were.
LEMMA PutExtends ==
  ASSUME SlotTypes, NEW a \in Slot!Actor, Slot!Put(a)
  PROVE  /\ made' = made + 1 /\ made' \in 1..MaxHooks /\ made + 1 \in Slot!Hook
         /\ slot' = made'
         /\ previous' \in [Slot!Hook -> Nat] /\ Descends(previous')
         /\ \A h \in 1..made : previous'[h] = previous[h]
         /\ \A h \in 0..made : Slot!Chain'[h] = Slot!Chain[h]
         /\ Slot!Chain'[slot'] = {made + 1} \union Slot!Chain[step[a].saw]
  <1> DEFINE found == step[a].saw
  <1>0. found \in 0..made /\ found \in Nat /\ made \in 0..MaxHooks
    BY HooksAreNumbers DEF SlotTypes, SlotCore
  <1>1. /\ made' = made + 1 /\ made' \in 1..MaxHooks /\ slot' = made'
        /\ made + 1 \in Slot!Hook
        /\ previous' = [previous EXCEPT ![made + 1] = found]
    BY <1>0, HooksAreNumbers DEF Slot!Put, Slot!Remembers, Slot!Hook
  <1> HIDE DEF found
  <1>2. previous' \in [Slot!Hook -> Nat]
    BY <1>0, <1>1 DEF SlotTypes, SlotCore
  <1>3. /\ previous'[made + 1] = found
        /\ \A h \in Slot!Hook \ {made + 1} : previous'[h] = previous[h]
    BY <1>1 DEF SlotTypes, SlotCore
  <1>4. Descends(previous')
    <2> SUFFICES ASSUME NEW h \in Slot!Hook PROVE previous'[h] \in 0..(h - 1)
      BY DEF Descends
    <2>1. CASE h = made + 1
      BY <1>0, <2>1, <1>3, HooksAreNumbers
    <2>2. CASE h # made + 1
      BY <2>2, <1>3 DEF SlotTypes, SlotCore, Descends
    <2> QED
      BY <2>1, <2>2
  <1>5. Chained(previous, Slot!Chain)
    BY ChainUnfolds, HooksAreNumbers DEF SlotTypes, SlotCore
  <1>6. Chained(previous', Slot!Chain')
    BY ChainUnfoldsNext, HooksAreNumbers, <1>4
  <1>7. PICK m \in 0..MaxHooks : m = made
    BY <1>0
  <1>8. \A h \in 1..m : previous[h] = previous'[h]
    BY <1>3, <1>7, HooksAreNumbers DEF Slot!Hook
  <1>9. \A h \in 0..m : Slot!Chain[h] = Slot!Chain'[h]
    <2>1. Descends(previous)
      BY DEF SlotTypes, SlotCore
    <2> QED
      BY <1>4, <1>5, <1>6, <1>8, <2>1, HooksAreNumbers, ChainsAgree
  <1>10. Slot!Chain'[found] = Slot!Chain[found]
    BY <1>0, <1>7, <1>9
  <1>11. Slot!Chain'[made + 1] = {made + 1} \union Slot!Chain'[previous'[made + 1]]
    <2>1. made + 1 \in 0..MaxHooks /\ made + 1 # 0
      BY <1>0, <1>1, HooksAreNumbers
    <2> QED
      BY <1>6, <2>1 DEF Chained, Slot!Default
  <1>12. Slot!Chain'[slot'] = {made + 1} \union Slot!Chain[step[a].saw]
    BY <1>1, <1>3, <1>10, <1>11 DEF found
  <1> QED
    BY <1>1, <1>2, <1>4, <1>7, <1>8, <1>9, <1>12

\* The chain depends on previous and the slot alone.
LEMMA ChainStays ==
  ASSUME UNCHANGED previous
  PROVE  Slot!Chain' = Slot!Chain
  BY DEF Slot!Chain

\* Who else is about to write has a new hook among those since his read.
LEMMA PutSteps ==
  ASSUME SlotTypes, NEW a \in Slot!Actor, Slot!Put(a)
  PROVE  /\ step[a] # Slot!Nothing /\ step[a].does = "put"
         /\ step' \in [Slot!Actor -> Moves] /\ step'[a] = Slot!Nothing
         /\ \A b \in Slot!Actor :
              step'[b] # Slot!Nothing =>
                /\ step[b] # Slot!Nothing /\ b # a
                /\ step'[b].does = step[b].does /\ step'[b].saw = step[b].saw
                /\ step'[b].since = step[b].since \union {made + 1}
         /\ overwritten' = overwritten \union step[a].since
  <1>1. /\ step[a].does = "put" /\ overwritten' = overwritten \union step[a].since
        /\ step' = [b \in Slot!Actor |->
                      IF b = a \/ step[b] = Slot!Nothing THEN Slot!Nothing
                      ELSE [step[b] EXCEPT !.since = @ \union {made + 1}]]
    BY DEF Slot!Put
  <1>2. made + 1 \in Nat
    BY HooksAreNumbers DEF SlotTypes, SlotCore
  <1>3. ASSUME NEW b \in Slot!Actor
        PROVE  /\ step'[b] \in Moves
               /\ step'[b] # Slot!Nothing =>
                    /\ step[b] # Slot!Nothing /\ b # a
                    /\ step'[b].does = step[b].does /\ step'[b].saw = step[b].saw
                    /\ step'[b].since = step[b].since \union {made + 1}
    <2>1. CASE b = a \/ step[b] = Slot!Nothing
      BY <1>1, <2>1, NothingIs
    <2>2. CASE b # a /\ step[b] # Slot!Nothing
      <3>1. step[b] \in Moves
        BY DEF SlotTypes, SlotCore
      <3>2. step'[b] = [step[b] EXCEPT !.since = @ \union {made + 1}]
        BY <1>1, <2>2
      <3>3. step[b].since \union {made + 1} \in SUBSET Nat
        BY <1>2, <3>1 DEF Moves
      <3> QED
        BY <2>2, <3>1, <3>2, <3>3 DEF Moves
    <2> QED
      BY <2>1, <2>2
  <1>4. step' \in [Slot!Actor -> Moves]
    BY <1>1, <1>3
  <1> QED
    BY <1>1, <1>3, <1>4, NothingIs

\* The write of an installation keeps the hooks that were kept, and the new one.
LEMMA PutKeeps ==
  ASSUME SlotTypes, NEW a \in Slot!Actor, Slot!Put(a)
  PROVE  /\ \A g : Kept(g) => Kept(g)'
         /\ \A m : m = made + 1 => Kept(m)'
  <1>1. /\ made' = made + 1 /\ slot' = made' /\ made \in Nat
        /\ \A h \in 1..made : previous'[h] = previous[h]
        /\ \A h \in 0..made : Slot!Chain'[h] = Slot!Chain[h]
        /\ Slot!Chain'[slot'] = {made + 1} \union Slot!Chain[step[a].saw]
    BY PutExtends, HooksAreNumbers DEF SlotTypes, SlotCore
  <1>2. /\ step[a] # Slot!Nothing /\ step[a].does = "put"
        /\ \A b \in Slot!Actor :
             step'[b] # Slot!Nothing =>
               /\ step[b] # Slot!Nothing /\ b # a
               /\ step'[b].does = step[b].does /\ step'[b].saw = step[b].saw
               /\ step'[b].since = step[b].since \union {made + 1}
        /\ overwritten' = overwritten \union step[a].since
    BY PutSteps
  <1>3. ASSUME NEW g, Kept(g) PROVE Kept(g)'
    <2>1. CASE g \in overwritten \/ g \in step[a].since
      BY <1>2, <2>1 DEF Kept
    <2>2. CASE g \notin overwritten /\ g \notin step[a].since
      <3>1. /\ \A b \in Slot!Actor : step[b] # Slot!Nothing =>
                 g \in Slot!Chain[Leaves(b)] \/ g \in step[b].since
        BY <1>3, <2>2 DEF Kept
      <3>2. g \in Slot!Chain'[slot']
        <4>1. Leaves(a) = step[a].saw
          BY <1>2 DEF Leaves
        <4> QED
          BY <1>1, <1>2, <2>2, <3>1, <4>1
      <3>3. ASSUME NEW b \in Slot!Actor, step'[b] # Slot!Nothing
            PROVE  g \in Slot!Chain'[Leaves(b)'] \/ g \in step'[b].since
        <4>1. /\ step[b] # Slot!Nothing /\ step'[b].does = step[b].does
              /\ step'[b].saw = step[b].saw
              /\ step'[b].since = step[b].since \union {made + 1}
          BY <1>2, <3>3
        <4>2. Leaves(b)' = Leaves(b) /\ Leaves(b) \in 0..made
          <5>1. /\ step[b].saw \in 0..made
                /\ step[b].does = "restore" => step[b].saw \in 1..made
            BY <1>1 DEF SlotTypes, SlotCore
          <5>2. \A h \in 1..made : previous[h] \in 0..made
            BY <1>1, HooksAreNumbers DEF SlotTypes, SlotCore, Descends, Slot!Hook
          <5>3. CASE step[b].does = "restore"
            BY <1>1, <4>1, <5>1, <5>2, <5>3 DEF Leaves
          <5>4. CASE step[b].does # "restore"
            BY <4>1, <5>1, <5>4 DEF Leaves
          <5> QED
            BY <5>3, <5>4
        <4>3. Slot!Chain'[Leaves(b)'] = Slot!Chain[Leaves(b)]
          BY <1>1, <4>2
        <4> QED
          BY <3>1, <4>1, <4>3
      <3> QED
        BY <3>2, <3>3 DEF Kept
    <2> QED
      BY <2>1, <2>2
  <1>4. ASSUME NEW m, m = made + 1 PROVE Kept(m)'
    BY <1>1, <1>2, <1>4 DEF Kept
  <1> QED
    BY <1>3, <1>4

\* So does the write of a removal, ...
LEMMA RestoreKeeps ==
  ASSUME SlotTypes, NEW a \in Slot!Actor, Slot!Restore(a)
  PROVE  /\ SlotCore' /\ UNCHANGED <<made, previous>>
         /\ \A g : Kept(g) => Kept(g)'
         /\ step[a] # Slot!Nothing /\ step'[a] = Slot!Nothing
         /\ \A b \in Slot!Actor : b # a => step'[b] = step[b]
  <1>1. /\ step[a].does = "restore" /\ slot' = previous[step[a].saw]
        /\ step' = [step EXCEPT ![a] = Slot!Nothing]
        /\ overwritten' = overwritten \union step[a].since
        /\ UNCHANGED <<made, previous>>
    BY DEF Slot!Restore
  <1>2. step[a] # Slot!Nothing
    BY <1>1, NothingIs
  <1>3. slot' \in 0..made /\ overwritten' \subseteq 1..made
    <2>1. step[a].saw \in 1..made /\ made \in 0..MaxHooks /\ made \in Nat
      BY <1>1, HooksAreNumbers DEF SlotTypes, SlotCore
    <2>2. previous[step[a].saw] \in 0..made
      BY <2>1, HooksAreNumbers DEF SlotTypes, SlotCore, Descends, Slot!Hook
    <2> QED
      BY <1>1, <2>2 DEF SlotTypes, SlotCore
  <1>4. Slot!Chain' = Slot!Chain
    BY <1>1, ChainStays
  <1>5. /\ step'[a] = Slot!Nothing
        /\ \A b \in Slot!Actor : b # a => step'[b] = step[b]
    BY <1>1 DEF SlotTypes, SlotCore
  <1>6. ASSUME NEW g, Kept(g) PROVE Kept(g)'
    <2>1. CASE g \in overwritten \/ g \in step[a].since
      BY <1>1, <2>1 DEF Kept
    <2>2. CASE g \notin overwritten /\ g \notin step[a].since
      <3>1. \A b \in Slot!Actor : step[b] # Slot!Nothing =>
               g \in Slot!Chain[Leaves(b)] \/ g \in step[b].since
        BY <1>6, <2>2 DEF Kept
      <3>2. g \in Slot!Chain'[slot']
        BY <1>1, <1>2, <1>4, <2>2, <3>1 DEF Leaves
      <3>3. ASSUME NEW b \in Slot!Actor, step'[b] # Slot!Nothing
            PROVE  g \in Slot!Chain'[Leaves(b)'] \/ g \in step'[b].since
        BY <1>1, <1>4, <1>5, <3>1, <3>3 DEF Leaves
      <3> QED
        BY <3>2, <3>3 DEF Kept
    <2> QED
      BY <2>1, <2>2
  <1>7. SlotCore'
    <2>1. step' \in [Slot!Actor -> Moves]
      BY <1>1, NothingIs DEF SlotTypes, SlotCore
    <2>2. ASSUME NEW b \in Slot!Actor
          PROVE  /\ step'[b].saw \in 0..made /\ step'[b].since \subseteq 1..made
                 /\ step'[b].does = "restore" => step'[b].saw # 0
      <3>1. CASE b = a
        BY <1>5, <3>1, NothingIs, HooksAreNumbers DEF SlotTypes, SlotCore
      <3>2. CASE b # a
        BY <1>5, <3>2 DEF SlotTypes, SlotCore
      <3> QED
        BY <3>1, <3>2
    <2> QED
      BY <1>1, <1>3, <2>1, <2>2 DEF SlotTypes, SlotCore
  <1> QED
    BY <1>1, <1>2, <1>5, <1>6, <1>7

\* ... and the reads.
LEMMA ReadKeeps ==
  ASSUME SlotTypes, NEW a \in Slot!Actor, NEW r \in Moves,
         step' = [step EXCEPT ![a] = r],
         UNCHANGED <<made, slot, previous, overwritten>>,
         NEW g, Kept(g),
         \/ g \in overwritten
         \/ g \in Slot!Chain[IF r.does = "restore" THEN previous[r.saw] ELSE r.saw]
  PROVE  Kept(g)'
  <1>1. CASE g \in overwritten
    BY <1>1 DEF Kept
  <1>2. CASE g \notin overwritten
    <2>1. Slot!Chain' = Slot!Chain
      BY ChainStays
    <2>2. /\ step'[a] = r
          /\ \A b \in Slot!Actor : b # a => step'[b] = step[b]
      BY DEF SlotTypes, SlotCore
    <2>3. /\ g \in Slot!Chain[slot]
          /\ \A b \in Slot!Actor : step[b] # Slot!Nothing =>
               g \in Slot!Chain[Leaves(b)] \/ g \in step[b].since
      BY <1>2 DEF Kept
    <2>4. ASSUME NEW b \in Slot!Actor, step'[b] # Slot!Nothing
          PROVE  g \in Slot!Chain'[Leaves(b)'] \/ g \in step'[b].since
      <3>1. CASE b = a
        BY <1>2, <2>1, <2>2, <3>1 DEF Leaves
      <3>2. CASE b # a
        BY <2>1, <2>2, <2>3, <2>4, <3>2 DEF Leaves
      <3> QED
        BY <3>1, <3>2
    <2> QED
      BY <2>1, <2>3, <2>4 DEF Kept
  <1> QED
    BY <1>1, <1>2

LEMMA LookKeeps ==
  ASSUME SlotTypes, NEW a \in Slot!Actor, Slot!Look(a)
  PROVE  /\ SlotCore'
         /\ \A g : Kept(g) => Kept(g)'
         /\ \A b \in Slot!Actor : b # a => step'[b] = step[b]
         /\ UNCHANGED <<made, slot, previous, overwritten>>
  <1>1. PICK r : r = [does |-> "put", saw |-> slot, since |-> {}]
    OBVIOUS
  <1>2. /\ step' = [step EXCEPT ![a] = r]
        /\ UNCHANGED <<made, slot, previous, overwritten>>
    BY <1>1 DEF Slot!Look
  <1>3. /\ r \in Moves /\ r.does = "put" /\ r.saw = slot /\ r.since = {}
    BY <1>1, HooksAreNumbers DEF SlotTypes, SlotCore, Moves
  <1>4. /\ step'[a] = r
        /\ \A b \in Slot!Actor : b # a => step'[b] = step[b]
    BY <1>2 DEF SlotTypes, SlotCore
  <1>5. SlotCore'
    <2>1. step' \in [Slot!Actor -> Moves]
      BY <1>2, <1>3 DEF SlotTypes, SlotCore
    <2> QED
      BY <1>2, <1>3, <1>4, <2>1 DEF SlotTypes, SlotCore
  <1>6. ASSUME NEW g, Kept(g) PROVE Kept(g)'
    <2>1. g \in overwritten \/ g \in Slot!Chain[slot]
      BY <1>6 DEF Kept
    <2> QED
      BY <1>2, <1>3, <1>6, <2>1, ReadKeeps
  <1> QED
    BY <1>2, <1>4, <1>5, <1>6

LEMMA CheckKeeps ==
  ASSUME SlotTypes, NEW a \in Slot!Actor, NEW h, Slot!Check(a, h), h # 0
  PROVE  /\ SlotCore'
         /\ \A g : Kept(g) /\ g # h => Kept(g)'
         /\ \A b \in Slot!Actor : b # a => step'[b] = step[b]
         /\ UNCHANGED <<made, slot, previous, overwritten>>
  <1>1. PICK r : r = [does |-> "restore", saw |-> h, since |-> {}]
    OBVIOUS
  <1>2. /\ step' = [step EXCEPT ![a] = r] /\ h = slot
        /\ UNCHANGED <<made, slot, previous, overwritten>>
    BY <1>1 DEF Slot!Check, Slot!InSlot
  <1>3. /\ r \in Moves /\ r.does = "restore" /\ r.saw = slot /\ r.since = {}
    BY <1>1, <1>2, HooksAreNumbers DEF SlotTypes, SlotCore, Moves
  <1>4. /\ step'[a] = r
        /\ \A b \in Slot!Actor : b # a => step'[b] = step[b]
    BY <1>2 DEF SlotTypes, SlotCore
  <1>5. SlotCore'
    <2>1. step' \in [Slot!Actor -> Moves]
      BY <1>2, <1>3 DEF SlotTypes, SlotCore
    <2> QED
      BY <1>2, <1>3, <1>4, <2>1 DEF SlotTypes, SlotCore
  <1>6. ASSUME NEW g, Kept(g), g # h PROVE Kept(g)'
    <2>1. slot \in 0..MaxHooks /\ slot # 0
      BY <1>2, HooksAreNumbers DEF SlotTypes, SlotCore
    <2>2. Slot!Chain[slot] = {slot} \union Slot!Chain[previous[slot]]
      BY <2>1, ChainBegins
    <2>3. g \in overwritten \/ g \in Slot!Chain[previous[slot]]
      BY <1>2, <1>6, <2>2 DEF Kept
    <2> QED
      BY <1>2, <1>3, <1>6, <2>3, ReadKeeps
  <1> QED
    BY <1>2, <1>4, <1>5, <1>6

LEMMA SlotInit == Slot!Init => SlotInv
  <1> SUFFICES ASSUME Slot!Init PROVE SlotInv
    OBVIOUS
  <1> USE HooksAreNumbers DEF Slot!Init
  <1>1. previous \in [Slot!Hook -> Nat] /\ \A h \in Slot!Hook : previous[h] = 0
    BY DEF Slot!Default
  <1>2. Descends(previous)
    BY <1>1 DEF Descends, Slot!Hook
  <1>3. /\ step \in [Slot!Actor -> Moves]
        /\ \A a \in Slot!Actor : step[a] = Slot!Nothing
    BY NothingIs
  <1>4. SlotTypes
    <2>1. SlotCore
      BY <1>1, <1>2, <1>3, NothingIs DEF SlotCore, Slot!Default
    <2>2. <<>> \in Seq(Slot!Hook)
      OBVIOUS
    <2> QED
      BY <2>1, <2>2 DEF SlotTypes
  <1>5. Writers
    BY <1>3 DEF Writers, Slot!Actor
  <1>6. OursOnly /\ others = {} /\ Hooked
    BY DEF OursOnly, Hooked
  <1> QED
    BY <1>4, <1>5, <1>6 DEF SlotInv

\* The first hook of the list, and the rest of it.
LEMMA ListOfHooks ==
  ASSUME SlotTypes, OursOnly, uninstallers # <<>>
  PROVE  /\ Head(uninstallers) \in Slot!Hook
         /\ Head(uninstallers) <= made /\ Head(uninstallers) \notin foreign
         /\ Tail(uninstallers) \in Seq(Slot!Hook)
         /\ \A i \in 1..Len(Tail(uninstallers)) :
              /\ Tail(uninstallers)[i] <= made
              /\ Tail(uninstallers)[i] \notin foreign
  <1> DEFINE s == uninstallers
  <1>1. s \in Seq(Slot!Hook) /\ s # <<>>
    BY DEF SlotTypes
  <1>2. /\ Len(s) \in Nat /\ Len(s) >= 1
        /\ Head(s) = s[1] /\ s[1] \in Slot!Hook
        /\ Tail(s) \in Seq(Slot!Hook) /\ Len(Tail(s)) = Len(s) - 1
        /\ \A i \in 1..Len(Tail(s)) : i + 1 \in 1..Len(s) /\ Tail(s)[i] = s[i + 1]
    BY <1>1
  <1> QED
    BY <1>2 DEF OursOnly

\* A step of the slot alone leaves the rest in order.
LEMMA FrameKeeps ==
  ASSUME SlotInv, SlotCore', made' = made,
         \A g : Kept(g) => Kept(g)',
         UNCHANGED <<others, foreign, state, hooked, uninstallers>>,
         late' \in {"no", "checked", "outdated"}, Writers'
  PROVE  SlotInv'
  <1>1. SlotTypes'
    BY DEF SlotInv, SlotTypes
  <1>2. OursOnly'
    BY DEF SlotInv, OursOnly
  <1>3. (\A g \in others : Kept(g))'
    BY DEF SlotInv
  <1>4. Hooked'
    BY DEF SlotInv, Hooked
  <1> QED
    BY <1>1, <1>2, <1>3, <1>4 DEF SlotInv

LEMMA NothingStays ==
  ASSUME UNCHANGED <<made, slot, previous, step, overwritten>>
  PROVE  /\ SlotCore => SlotCore'
         /\ \A g : Kept(g) => Kept(g)'
  <1>1. Slot!Chain' = Slot!Chain
    BY ChainStays
  <1> QED
    BY <1>1 DEF SlotCore, Kept, Leaves

\* What any installation leaves.
LEMMA PutLeaves ==
  ASSUME SlotInv, NEW a \in Slot!Actor, Slot!Put(a)
  PROVE  /\ SlotCore' /\ made' = made + 1 /\ made + 1 \in Slot!Hook
         /\ \A g : Kept(g) => Kept(g)'
         /\ \A m : m = made + 1 => Kept(m)'
         /\ step[a] # Slot!Nothing /\ step'[a] = Slot!Nothing
         /\ \A b \in Slot!Actor : step'[b] # Slot!Nothing => step[b] # Slot!Nothing
         /\ foreign \subseteq 1..made' /\ foreign \union {made + 1} \subseteq 1..made'
         /\ made + 1 \notin foreign
         /\ \A i \in 1..Len(uninstallers) :
              /\ uninstallers[i] <= made' /\ uninstallers[i] # made + 1
              /\ uninstallers[i] \in Nat
  <1>0. SlotTypes /\ SlotCore /\ OursOnly
    BY DEF SlotInv, SlotTypes
  <1>1. /\ made' = made + 1 /\ made' \in 1..MaxHooks /\ made + 1 \in Slot!Hook
        /\ slot' = made' /\ made \in Nat
        /\ previous' \in [Slot!Hook -> Nat] /\ Descends(previous')
    BY <1>0, PutExtends, HooksAreNumbers DEF SlotCore
  <1>2. /\ step[a] # Slot!Nothing
        /\ step' \in [Slot!Actor -> Moves] /\ step'[a] = Slot!Nothing
        /\ \A b \in Slot!Actor :
             step'[b] # Slot!Nothing =>
               /\ step[b] # Slot!Nothing /\ b # a
               /\ step'[b].does = step[b].does /\ step'[b].saw = step[b].saw
               /\ step'[b].since = step[b].since \union {made + 1}
        /\ overwritten' = overwritten \union step[a].since
    BY <1>0, PutSteps
  <1>3. SlotCore'
    <2>1. ASSUME NEW b \in Slot!Actor
          PROVE  /\ step'[b].saw \in 0..made' /\ step'[b].since \subseteq 1..made'
                 /\ step'[b].does = "restore" => step'[b].saw # 0
      <3>1. CASE step'[b] = Slot!Nothing
        BY <1>1, <3>1, NothingIs
      <3>2. CASE step'[b] # Slot!Nothing
        BY <1>0, <1>1, <1>2, <3>2 DEF SlotCore
      <3> QED
        BY <3>1, <3>2
    <2>2. overwritten' \subseteq 1..made'
      <3>1. overwritten \subseteq 1..made /\ step[a].since \subseteq 1..made
        BY <1>0 DEF SlotCore
      <3>2. 1..made \subseteq 1..made'
        BY <1>1
      <3> QED
        BY <1>2, <3>1, <3>2
    <2>3. made' \in 0..MaxHooks /\ slot' \in 0..made'
      BY <1>1, HooksAreNumbers
    <2> QED
      BY <1>1, <1>2, <2>1, <2>2, <2>3 DEF SlotCore
  <1>4. /\ \A g : Kept(g) => Kept(g)'
        /\ \A m : m = made + 1 => Kept(m)'
    BY <1>0, PutKeeps
  <1>5. /\ foreign \subseteq 1..made' /\ foreign \union {made + 1} \subseteq 1..made'
        /\ made + 1 \notin foreign
    BY <1>0, <1>1 DEF SlotTypes
  <1>6. ASSUME NEW i \in 1..Len(uninstallers)
        PROVE  /\ uninstallers[i] <= made' /\ uninstallers[i] # made + 1
               /\ uninstallers[i] \in Nat
    <2>1. uninstallers[i] \in Slot!Hook
      BY <1>0 DEF SlotTypes
    <2>2. uninstallers[i] \in Nat /\ uninstallers[i] <= made
      BY <1>0, <2>1 DEF OursOnly, Slot!Hook
    <2> QED
      BY <1>1, <2>2
  <1> QED
    BY <1>1, <1>2, <1>3, <1>4, <1>5, <1>6

LEMMA SlotSteps == SlotInv /\ Slot!Next => SlotInv'
  <1> SUFFICES ASSUME SlotInv, Slot!Next PROVE SlotInv'
    OBVIOUS
  <1> USE HooksAreNumbers
  <1>0. /\ SlotTypes /\ SlotCore /\ OursOnly /\ Writers
        /\ \A g \in others : Kept(g)
        /\ Hooked /\ Slot!Actor = {"install", "close", "other"}
    BY DEF SlotInv, SlotTypes, Slot!Actor
  <1>1. CASE Slot!InitLooks \/ Slot!InstallLooks
    <2>1. /\ Slot!Look("install")
          /\ UNCHANGED <<others, foreign, state, hooked, uninstallers, late>>
          /\ late = "no" => state \in {"none", "closed"}
      BY <1>1 DEF Slot!InitLooks, Slot!InstallLooks
    <2>2. /\ SlotCore' /\ made' = made /\ \A g : Kept(g) => Kept(g)'
          /\ step'["close"] = step["close"]
      BY <1>0, <2>1, LookKeeps
    <2>3. Writers'
      BY <1>0, <2>1, <2>2 DEF Writers
    <2> QED
      BY <1>0, <2>1, <2>2, <2>3, FrameKeeps DEF SlotTypes
  <1>2. CASE Slot!OtherLooks
    <2>1. /\ Slot!Look("other")
          /\ UNCHANGED <<others, foreign, state, hooked, uninstallers, late>>
      BY <1>2 DEF Slot!OtherLooks
    <2>2. /\ SlotCore' /\ made' = made /\ \A g : Kept(g) => Kept(g)'
          /\ step'["close"] = step["close"] /\ step'["install"] = step["install"]
      BY <1>0, <2>1, LookKeeps
    <2>3. Writers'
      BY <1>0, <2>1, <2>2 DEF Writers
    <2> QED
      BY <1>0, <2>1, <2>2, <2>3, FrameKeeps DEF SlotTypes
  <1>3. CASE Slot!InitReturns
    <2> USE DEF Slot!InitReturns
    <2>1. /\ SlotCore' /\ made' = made + 1 /\ made + 1 \in Slot!Hook
          /\ \A g : Kept(g) => Kept(g)'
          /\ (\A m : m = made + 1 => Kept(m)') /\ step["install"] # Slot!Nothing
          /\ step'["install"] = Slot!Nothing
          /\ step'["close"] # Slot!Nothing => step["close"] # Slot!Nothing
          /\ foreign \subseteq 1..made' /\ made + 1 \notin foreign
      BY <1>0, <1>3, PutLeaves
    <2>2. uninstallers' = <<made + 1>> /\ Head(uninstallers') = made + 1
      BY <1>3
    <2>3. SlotTypes'
      BY <1>0, <1>3, <2>1, <2>2 DEF SlotTypes
    <2>4. OursOnly'
      BY <1>3, <2>1, <2>2 DEF OursOnly, SlotCore
    <2>5. Writers'
      BY <1>0, <1>3, <2>1 DEF Writers
    <2>6. (\A g \in others : Kept(g))'
      BY <1>0, <1>3, <2>1
    <2>7. Hooked'
      <3>1. PICK m : m = made + 1
        OBVIOUS
      <3>2. Head(uninstallers') = m /\ Kept(m)' /\ uninstallers' # <<>>
        BY <2>1, <2>2, <3>1
      <3> QED
        BY <3>2 DEF Hooked
    <2> QED
      BY <2>3, <2>4, <2>5, <2>6, <2>7 DEF SlotInv
  <1>4. CASE Slot!InitRaises
    <2> USE DEF Slot!InitRaises
    <2>1. /\ SlotCore' /\ made' = made + 1
          /\ \A g : Kept(g) => Kept(g)'
          /\ step'["install"] = Slot!Nothing
          /\ step'["close"] # Slot!Nothing => step["close"] # Slot!Nothing
          /\ foreign \subseteq 1..made'
          /\ \A i \in 1..Len(uninstallers) : uninstallers[i] <= made'
      BY <1>0, <1>4, PutLeaves
    <2>2. SlotTypes'
      BY <1>0, <1>4, <2>1 DEF SlotTypes
    <2>3. OursOnly'
      BY <1>0, <1>4, <2>1 DEF OursOnly
    <2>4. Writers'
      BY <1>0, <1>4, <2>1 DEF Writers
    <2>5. (\A g \in others : Kept(g))' /\ Hooked'
      BY <1>0, <1>4, <2>1 DEF Hooked
    <2> QED
      BY <2>2, <2>3, <2>4, <2>5 DEF SlotInv
  <1>5. CASE Slot!InitElsewhere
    <2> USE DEF Slot!InitElsewhere
    <2>1. SlotCore' /\ \A g : Kept(g) => Kept(g)'
      BY <1>0, <1>5, NothingStays
    <2>2. SlotTypes'
      <3>1. <<>> \in Seq(Slot!Hook) /\ uninstallers' = <<>>
        BY <1>5
      <3>2. late' \in {"no", "checked", "outdated"}
        BY <1>5
      <3> QED
        BY <1>0, <1>5, <2>1, <3>1, <3>2 DEF SlotTypes
    <2>3. OursOnly'
      BY <1>5 DEF OursOnly
    <2>4. Writers'
      BY <1>0, <1>5 DEF Writers
    <2>5. (\A g \in others : Kept(g))' /\ Hooked'
      BY <1>0, <1>5, <2>1 DEF Hooked
    <2> QED
      BY <2>2, <2>3, <2>4, <2>5 DEF SlotInv
  <1>6. CASE Slot!InstallCalled
    <2> USE DEF Slot!InstallCalled
    <2>1. SlotCore' /\ \A g : Kept(g) => Kept(g)'
      BY <1>0, <1>6, NothingStays
    <2>2. Writers'
      BY <1>0, <1>6 DEF Writers
    <2> QED
      BY <1>0, <1>6, <2>1, <2>2, FrameKeeps
  <1>7. CASE Slot!InstallReturns
    <2> USE DEF Slot!InstallReturns
    <2>1. /\ SlotCore' /\ made' = made + 1 /\ made + 1 \in Slot!Hook
          /\ \A g : Kept(g) => Kept(g)'
          /\ step'["install"] = Slot!Nothing
          /\ step'["close"] # Slot!Nothing => step["close"] # Slot!Nothing
          /\ foreign \subseteq 1..made' /\ made + 1 \notin foreign
          /\ made' \in 0..MaxHooks
          /\ \A i \in 1..Len(uninstallers) : uninstallers[i] <= made'
      BY <1>0, <1>7, PutLeaves DEF SlotCore
    <2>2. \/ uninstallers' = uninstallers
          \/ /\ uninstallers' = Append(uninstallers, made + 1)
             /\ uninstallers' \in Seq(Slot!Hook)
             /\ Len(uninstallers') = Len(uninstallers) + 1
             /\ Len(uninstallers) \in Nat
             /\ \A i \in 1..Len(uninstallers) : uninstallers'[i] = uninstallers[i]
             /\ uninstallers'[Len(uninstallers) + 1] = made + 1
             /\ uninstallers' # <<>>
             /\ uninstallers # <<>> => Head(uninstallers') = Head(uninstallers)
      <3>1. uninstallers \in Seq(Slot!Hook) /\ made + 1 \in Slot!Hook
        BY <1>0, <2>1 DEF SlotTypes
      <3>2. \/ uninstallers' = uninstallers
            \/ uninstallers' = Append(uninstallers, made + 1)
        BY <1>7
      <3>3. PICK t : t = Append(uninstallers, made + 1)
        OBVIOUS
      <3>4. /\ t \in Seq(Slot!Hook) /\ Len(uninstallers) \in Nat
            /\ Len(t) = Len(uninstallers) + 1
            /\ \A i \in 1..Len(uninstallers) : t[i] = uninstallers[i]
            /\ t[Len(uninstallers) + 1] = made + 1
            /\ t # <<>>
        BY <3>1, <3>3
      <3>5. uninstallers # <<>> => Head(t) = Head(uninstallers)
        BY <3>1, <3>3, <3>4
      <3> QED
        BY <3>2, <3>3, <3>4, <3>5
    <2>3. SlotTypes'
      BY <1>0, <1>7, <2>1, <2>2 DEF SlotTypes
    <2>4. OursOnly'
      <3> SUFFICES ASSUME NEW i \in 1..Len(uninstallers')
                   PROVE  uninstallers'[i] <= made' /\ uninstallers'[i] \notin foreign
        BY <1>7 DEF OursOnly
      <3>1. made' <= made'
        BY <2>1
      <3> QED
        BY <1>0, <1>7, <2>1, <2>2, <3>1 DEF OursOnly
    <2>5. Writers'
      BY <1>0, <1>7, <2>1, <2>2 DEF Writers
    <2>6. (\A g \in others : Kept(g))'
      BY <1>0, <1>7, <2>1
    <2>7. Hooked'
      <3> SUFFICES ASSUME state = "open", hooked
                   PROVE  uninstallers' # <<>> /\ Kept(Head(uninstallers))'
        BY <1>7 DEF Hooked
      <3>1. uninstallers # <<>> /\ Kept(Head(uninstallers))
        BY <1>0 DEF Hooked
      <3>2. uninstallers' # <<>> /\ Head(uninstallers') = Head(uninstallers)
        BY <3>1, <2>2
      <3>3. PICK h : h = Head(uninstallers)
        OBVIOUS
      <3>4. Kept(h)'
        BY <2>1, <3>1, <3>3
      <3> QED
        BY <3>2, <3>3, <3>4
    <2> QED
      BY <2>3, <2>4, <2>5, <2>6, <2>7 DEF SlotInv
  <1>8. CASE Slot!CloseCalled
    <2> USE DEF Slot!CloseCalled
    <2>1. SlotCore' /\ \A g : Kept(g) => Kept(g)'
      BY <1>0, <1>8, NothingStays
    <2>2. SlotTypes' /\ OursOnly'
      BY <1>0, <1>8, <2>1 DEF SlotTypes, OursOnly
    <2>3. Writers'
      BY <1>0, <1>8 DEF Writers
    <2>4. (\A g \in others : Kept(g))' /\ Hooked'
      BY <1>0, <1>8, <2>1 DEF Hooked
    <2> QED
      BY <2>2, <2>3, <2>4 DEF SlotInv
  <1>9. CASE Slot!UninstallChecks
    <2> USE DEF Slot!UninstallChecks
    <2>1. PICK h \in Slot!Hook :
            /\ h = Head(uninstallers) /\ h \notin foreign
            /\ Slot!Check("close", h)
      BY <1>0, <1>9, ListOfHooks
    <2>2. /\ SlotCore' /\ made' = made /\ \A g : Kept(g) /\ g # h => Kept(g)'
          /\ step'["install"] = step["install"]
      <3>1. h # 0
        BY DEF Slot!Hook
      <3> QED
        BY <1>0, <2>1, <3>1, CheckKeeps
    <2>3. SlotTypes' /\ OursOnly'
      BY <1>0, <1>9, <2>2 DEF SlotTypes, OursOnly
    <2>4. Writers'
      BY <1>0, <1>9, <2>2 DEF Writers
    <2>5. (\A g \in others : Kept(g))'
      BY <1>0, <1>9, <2>1, <2>2 DEF SlotTypes
    <2>6. Hooked'
      BY <1>9 DEF Hooked
    <2> QED
      BY <2>3, <2>4, <2>5, <2>6 DEF SlotInv
  <1>10. CASE Slot!UninstallSkips
    <2> USE DEF Slot!UninstallSkips
    <2>1. SlotCore' /\ \A g : Kept(g) => Kept(g)'
      BY <1>0, <1>10, NothingStays
    <2>2. SlotTypes' /\ OursOnly'
      BY <1>0, <1>10, <2>1, ListOfHooks DEF SlotTypes, OursOnly
    <2>3. Writers'
      BY <1>0, <1>10 DEF Writers
    <2>4. (\A g \in others : Kept(g))' /\ Hooked'
      BY <1>0, <1>10, <2>1 DEF Hooked
    <2> QED
      BY <2>2, <2>3, <2>4 DEF SlotInv
  <1>11. CASE Slot!UninstallRestores
    <2> USE DEF Slot!UninstallRestores
    <2>1. /\ SlotCore' /\ made' = made /\ \A g : Kept(g) => Kept(g)'
          /\ step["close"] # Slot!Nothing /\ step'["close"] = Slot!Nothing
          /\ step'["install"] = step["install"]
      BY <1>0, <1>11, RestoreKeeps DEF SlotCore
    <2>2. state = "closing" /\ uninstallers # <<>>
      BY <1>0, <2>1 DEF Writers
    <2>3. SlotTypes' /\ OursOnly'
      BY <1>0, <1>11, <2>1, <2>2, ListOfHooks DEF SlotTypes, OursOnly
    <2>4. Writers'
      BY <1>0, <1>11, <2>1 DEF Writers
    <2>5. (\A g \in others : Kept(g))' /\ Hooked'
      BY <1>0, <1>11, <2>1, <2>2 DEF Hooked
    <2> QED
      BY <2>3, <2>4, <2>5 DEF SlotInv
  <1>12. CASE Slot!CloseReturns
    <2> USE DEF Slot!CloseReturns
    <2>1. SlotCore' /\ \A g : Kept(g) => Kept(g)'
      BY <1>0, <1>12, NothingStays
    <2>2. SlotTypes' /\ OursOnly'
      BY <1>0, <1>12, <2>1 DEF SlotTypes, OursOnly
    <2>3. Writers'
      BY <1>0, <1>12 DEF Writers
    <2>4. (\A g \in others : Kept(g))' /\ Hooked'
      BY <1>0, <1>12, <2>1 DEF Hooked
    <2> QED
      BY <2>2, <2>3, <2>4 DEF SlotInv
  <1>13. CASE Slot!OtherReturns
    <2> USE DEF Slot!OtherReturns
    <2>1. /\ SlotCore' /\ made' = made + 1
          /\ \A g : Kept(g) => Kept(g)'
          /\ \A m : m = made + 1 => Kept(m)'
          /\ step'["install"] # Slot!Nothing => step["install"] # Slot!Nothing
          /\ step'["close"] # Slot!Nothing => step["close"] # Slot!Nothing
          /\ foreign \union {made + 1} \subseteq 1..made'
          /\ \A i \in 1..Len(uninstallers) :
               uninstallers[i] <= made' /\ uninstallers[i] # made + 1
      BY <1>0, <1>13, PutLeaves
    <2>2. SlotTypes'
      BY <1>0, <1>13, <2>1 DEF SlotTypes
    <2>3. OursOnly'
      BY <1>0, <1>13, <2>1 DEF OursOnly
    <2>4. Writers'
      BY <1>0, <1>13, <2>1 DEF Writers
    <2>5. (\A g \in others : Kept(g))'
      <3> SUFFICES ASSUME NEW g \in others' PROVE Kept(g)'
        OBVIOUS
      <3>1. g \in others \/ g = made + 1
        BY <1>13
      <3> QED
        BY <1>0, <2>1, <3>1
    <2>6. Hooked'
      BY <1>0, <1>13, <2>1 DEF Hooked
    <2> QED
      BY <2>2, <2>3, <2>4, <2>5, <2>6 DEF SlotInv
  <1>14. CASE Slot!OtherChecks
    <2>1. PICK h \in others :
            /\ Slot!Check("other", h)
            /\ others' = others \ {h}
            /\ UNCHANGED <<foreign, state, hooked, uninstallers, late>>
      BY <1>14 DEF Slot!OtherChecks
    <2>2. h \in foreign /\ h # 0
      BY <1>0 DEF SlotTypes
    <2>3. /\ SlotCore' /\ made' = made /\ \A g : Kept(g) /\ g # h => Kept(g)'
          /\ step'["install"] = step["install"] /\ step'["close"] = step["close"]
      BY <1>0, <2>1, <2>2, CheckKeeps
    <2>4. SlotTypes' /\ OursOnly'
      BY <1>0, <2>1, <2>3 DEF SlotTypes, OursOnly
    <2>5. Writers'
      BY <1>0, <2>1, <2>3 DEF Writers
    <2>6. (\A g \in others : Kept(g))'
      BY <1>0, <2>1, <2>3
    <2>7. Hooked'
      <3>1. ASSUME state = "open", hooked
            PROVE  /\ uninstallers # <<>> /\ Head(uninstallers) # h
                   /\ Kept(Head(uninstallers))
        BY <3>1, <1>0, <2>2, ListOfHooks DEF Hooked
      <3> QED
        BY <2>1, <2>3, <3>1 DEF Hooked
    <2> QED
      BY <2>4, <2>5, <2>6, <2>7 DEF SlotInv
  <1>15. CASE Slot!OtherSkips
    <2>1. PICK h \in others :
            /\ others' = others \ {h}
            /\ UNCHANGED <<made, slot, previous, step, overwritten, foreign, state,
                           hooked, uninstallers, late>>
      BY <1>15 DEF Slot!OtherSkips
    <2>2. SlotCore' /\ \A g : Kept(g) => Kept(g)'
      BY <1>0, <2>1, NothingStays
    <2>3. SlotTypes' /\ OursOnly' /\ Writers'
      BY <1>0, <2>1, <2>2 DEF SlotTypes, OursOnly, Writers
    <2>4. (\A g \in others : Kept(g))' /\ Hooked'
      BY <1>0, <2>1, <2>2 DEF Hooked
    <2> QED
      BY <2>3, <2>4 DEF SlotInv
  <1>16. CASE Slot!OtherRestores
    <2>1. /\ Slot!Restore("other")
          /\ UNCHANGED <<others, foreign, state, hooked, uninstallers, late>>
      BY <1>16 DEF Slot!OtherRestores
    <2>2. /\ SlotCore' /\ made' = made /\ \A g : Kept(g) => Kept(g)'
          /\ step'["install"] = step["install"] /\ step'["close"] = step["close"]
      BY <1>0, <2>1, RestoreKeeps DEF SlotCore
    <2>3. Writers'
      BY <1>0, <2>1, <2>2 DEF Writers
    <2> QED
      BY <1>0, <2>1, <2>2, <2>3, FrameKeeps DEF SlotTypes
  <1> QED
    BY <1>1, <1>2, <1>3, <1>4, <1>5, <1>6, <1>7, <1>8, <1>9, <1>10, <1>11,
       <1>12, <1>13, <1>14, <1>15, <1>16 DEF Slot!Next

LEMMA SlotRests == SlotInv /\ UNCHANGED slotVars => SlotInv'
  <1> SUFFICES ASSUME SlotInv, UNCHANGED slotVars PROVE SlotInv'
    OBVIOUS
  <1>1. SlotCore' /\ \A g : Kept(g) => Kept(g)'
    BY NothingStays DEF slotVars, SlotInv, SlotTypes
  <1>2. Writers'
    BY DEF slotVars, SlotInv, Writers
  <1> QED
    BY <1>1, <1>2, FrameKeeps DEF slotVars, SlotInv, SlotTypes

LEMMA SlotImplies == SlotInv => /\ Slot!TypeOK
                               /\ Slot!OthersAreKept
                               /\ Slot!OpenIsHooked
  <1> SUFFICES ASSUME SlotInv
               PROVE  Slot!TypeOK /\ Slot!OthersAreKept /\ Slot!OpenIsHooked
    OBVIOUS
  <1>0. SlotTypes /\ SlotCore /\ OursOnly
    BY DEF SlotInv, SlotTypes
  <1>1. Slot!TypeOK
    <2>1. \A a \in Slot!Actor : step[a].does \in {"nothing", "put", "restore"}
      BY <1>0 DEF SlotCore, Moves
    <2> QED
      BY <1>0, <2>1 DEF SlotTypes, SlotCore, Descends, Slot!TypeOK
  <1>2. Slot!OthersAreKept
    BY DEF SlotInv, Kept, Slot!OthersAreKept
  <1>3. Slot!OpenIsHooked
    BY <1>0, ListOfHooks DEF SlotInv, Hooked, Kept, Slot!OpenIsHooked
  <1> QED
    BY <1>1, <1>2, <1>3

-----------------------------------------------------------------------------
(* The review page.                                                        *)

\* Taking one element out of a sequence.
LEMMA RemoveAtProperties ==
  ASSUME NEW S, NEW s \in Seq(S), NEW i \in 1..Len(s)
  PROVE  /\ Page!RemoveAt(s, i) \in Seq(S)
         /\ Len(Page!RemoveAt(s, i)) = Len(s) - 1
         /\ \A j \in 1..(Len(s) - 1) :
              Page!RemoveAt(s, i)[j] = s[IF j < i THEN j ELSE j + 1]
  <1> DEFINE a == SubSeq(s, 1, i - 1)
             b == SubSeq(s, i + 1, Len(s))
  <1>0. Len(s) \in Nat /\ i \in Nat /\ i >= 1 /\ i <= Len(s)
    OBVIOUS
  <1>1. a \in Seq(S) /\ Len(a) = i - 1 /\ \A j \in 1..(i - 1) : a[j] = s[j]
    BY <1>0
  <1>2. /\ b \in Seq(S) /\ Len(b) = Len(s) - i
        /\ \A j \in 1..(Len(s) - i) : b[j] = s[j + i]
    BY <1>0
  <1>3. Page!RemoveAt(s, i) = a \o b
    BY DEF Page!RemoveAt
  <1> HIDE DEF a, b
  <1>4. /\ a \o b \in Seq(S) /\ Len(a \o b) = Len(s) - 1
        /\ \A j \in 1..(Len(s) - 1) :
             (a \o b)[j] = IF j < i THEN a[j] ELSE b[j - i + 1]
    <2>1. /\ a \o b \in Seq(S) /\ Len(a \o b) = Len(a) + Len(b)
          /\ \A j \in 1..(Len(a) + Len(b)) :
               (a \o b)[j] = IF j <= Len(a) THEN a[j] ELSE b[j - Len(a)]
      BY <1>1, <1>2, ConcatProperties
    <2> QED
      BY <1>0, <1>1, <1>2, <2>1
  <1>5. ASSUME NEW j \in 1..(Len(s) - 1)
        PROVE  (a \o b)[j] = s[IF j < i THEN j ELSE j + 1]
    <2>1. CASE j < i
      BY <2>1, <1>0, <1>1, <1>4
    <2>2. CASE ~(j < i)
      <3>1. j - i + 1 \in 1..(Len(s) - i) /\ (j - i + 1) + i = j + 1
        BY <2>2, <1>0
      <3>2. b[j - i + 1] = s[j + 1]
        BY <3>1, <1>2
      <3> QED
        BY <2>2, <3>2, <1>4
    <2> QED
      BY <2>1, <2>2
  <1> QED
    BY <1>3, <1>4, <1>5

IsList(list) == \A r \in DOMAIN list : r \in Row /\ list[r] \in BOOLEAN

Gets == [id : Nat, filter : Page!Filters, done : BOOLEAN,
         answer : UNION {[S -> BOOLEAN] : S \in SUBSET Row}]
Posts == [fp : Row, resolved : BOOLEAN, done : BOOLEAN]

LEMMA NoList == << >> \in UNION {[S -> BOOLEAN] : S \in SUBSET Row}
  <1>1. << >> \in [{} -> BOOLEAN]
    OBVIOUS
  <1> QED
    BY <1>1

PageTypes ==
  /\ resolved \in [Row -> BOOLEAN] /\ wanted \in [Row -> BOOLEAN]
  /\ currentFilter \in Page!Filters
  /\ allItems \in UNION {[S -> BOOLEAN] : S \in SUBSET Row}
  /\ gets \in Seq(Gets) /\ posts \in Seq(Posts)
  /\ asked \in 1..MaxAsked /\ lastGet \in 1..asked /\ shownGet \in 0..lastGet
  /\ excused \subseteq Row /\ overtaken \subseteq Row

\* The posts of row r: the server answered them in the order of the clicks, ...
Ordered(r) ==
  \A i, j \in 1..Len(posts) :
    i < j /\ posts[i].fp = r /\ posts[j].fp = r /\ posts[j].done => posts[i].done

\* ... the last that is not answered has the mark of the last click, ...
LastWanted(r) ==
  \A i \in 1..Len(posts) :
    /\ posts[i].fp = r /\ ~posts[i].done
    /\ \A j \in 1..Len(posts) : j > i => posts[j].fp # r
    => posts[i].resolved = wanted[r]

\* ... and when all are answered, the store has it.
Settled(r) ==
  (\A i \in 1..Len(posts) : posts[i].fp = r => posts[i].done)
    => resolved[r] = wanted[r]

Marked == \A r \in Row \ (excused \union overtaken) :
            Ordered(r) /\ LastWanted(r) /\ Settled(r)

\* The last list request has the filter that is on.
LastAsked ==
  \A i \in 1..Len(gets) :
    /\ gets[i].id \in 1..lastGet
    /\ gets[i].id = lastGet => gets[i].filter = currentFilter

\* While no answered post waits for the page, which will ask again, the list
\* that the last request brought, or brings, is what the store has.
Unchanged == excused = {} /\ \A i \in 1..Len(posts) : ~posts[i].done

Fresh ==
  Unchanged =>
    /\ shownGet = lastGet => allItems = Page!Listed(currentFilter)
    /\ \A i \in 1..Len(gets) :
         gets[i].id = lastGet /\ gets[i].done
           => gets[i].answer = Page!Listed(currentFilter)

PageInv == PageTypes /\ Marked /\ LastAsked /\ Fresh

\* A list is one.
LEMMA ListedIsList ==
  ASSUME PageTypes, NEW f
  PROVE  Page!Listed(f) \in UNION {[S -> BOOLEAN] : S \in SUBSET Row}
  <1> DEFINE S == {q \in Row : Page!Wants(f, resolved[q])}
  <1>1. S \in SUBSET Row
    OBVIOUS
  <1>2. Page!Listed(f) \in [S -> BOOLEAN]
    BY DEF PageTypes, Page!Listed
  <1> QED
    BY <1>1, <1>2

LEMMA PageInit == Page!Init => PageInv
  <1> SUFFICES ASSUME Page!Init PROVE PageInv
    OBVIOUS
  <1> USE DEF Page!Init
  <1>1. MaxAsked \in Nat \ {0}
    BY PeripheryAssumption
  <1>2. << >> \in UNION {[S -> BOOLEAN] : S \in SUBSET Row}
    BY NoList
  <1>3. Page!Request(1, "unresolved") \in Gets
    BY <1>2 DEF Gets, Page!Request, Page!Filters
  <1>4. gets \in Seq(Gets) /\ Len(gets) = 1 /\ gets[1] = Page!Request(1, "unresolved")
    BY <1>3
  <1>5. posts \in Seq(Posts) /\ Len(posts) = 0
    OBVIOUS
  <1>6. PageTypes
    BY <1>1, <1>2, <1>4, <1>5 DEF PageTypes, Page!Filters
  <1>7. Marked
    BY <1>5 DEF Marked, Ordered, LastWanted, Settled
  <1>8. LastAsked /\ Fresh
    BY <1>4 DEF LastAsked, Fresh, Page!Request
  <1> QED
    BY <1>6, <1>7, <1>8 DEF PageInv

\* A post that is answered, or is not of row r, leaves: r stays marked.
LEMMA PostLeaves ==
  ASSUME PageTypes, NEW i \in 1..Len(posts), posts' = Page!RemoveAt(posts, i),
         UNCHANGED <<resolved, wanted>>,
         NEW r, Ordered(r), LastWanted(r), Settled(r),
         posts[i].done \/ posts[i].fp # r
  PROVE  Ordered(r)' /\ LastWanted(r)' /\ Settled(r)'
  <1> DEFINE Up(j) == IF j < i THEN j ELSE j + 1
  <1>0. posts \in Seq(Posts) /\ Len(posts) \in Nat
    BY DEF PageTypes
  <1>1. Len(posts') = Len(posts) - 1
    BY <1>0, RemoveAtProperties
  <1>2. \A j \in 1..Len(posts') : posts'[j] = posts[Up(j)]
    BY <1>0, <1>1, RemoveAtProperties
  <1>3. /\ \A j \in 1..Len(posts') : Up(j) \in 1..Len(posts) /\ Up(j) # i
        /\ \A j, k \in 1..Len(posts') : j < k <=> Up(j) < Up(k)
    BY <1>0, <1>1
  <1>4. \A k \in 1..Len(posts) : k # i => \E j \in 1..Len(posts') : k = Up(j)
    <2> SUFFICES ASSUME NEW k \in 1..Len(posts), k # i
                 PROVE  \E j \in 1..Len(posts') : k = Up(j)
      OBVIOUS
    <2>1. CASE k < i
      BY <2>1, <1>0, <1>1
    <2>2. CASE k > i
      <3>1. k - 1 \in 1..Len(posts') /\ k = Up(k - 1)
        BY <2>2, <1>0, <1>1
      <3> QED
        BY <3>1
    <2> QED
      BY <2>1, <2>2, <1>0
  <1> HIDE DEF Up
  <1>5. Ordered(r)'
    <2> SUFFICES ASSUME NEW j \in 1..Len(posts'), NEW k \in 1..Len(posts'),
                        j < k, posts'[j].fp = r, posts'[k].fp = r, posts'[k].done
                 PROVE  posts'[j].done
      BY DEF Ordered
    <2> QED
      BY <1>2, <1>3 DEF Ordered
  <1>6. LastWanted(r)'
    <2> SUFFICES ASSUME NEW j \in 1..Len(posts'),
                        posts'[j].fp = r, ~posts'[j].done,
                        \A k \in 1..Len(posts') : k > j => posts'[k].fp # r
                 PROVE  posts'[j].resolved = wanted[r]
      BY DEF LastWanted
    <2>1. /\ Up(j) \in 1..Len(posts) /\ posts[Up(j)].fp = r /\ ~posts[Up(j)].done
          /\ posts'[j] = posts[Up(j)]
      BY <1>2, <1>3
    <2>2. ASSUME NEW k \in 1..Len(posts), k > Up(j), posts[k].fp = r
          PROVE  FALSE
      <3>1. CASE k = i
        BY <2>1, <2>2, <3>1 DEF Ordered
      <3>2. CASE k # i
        <4>1. PICK l \in 1..Len(posts') : k = Up(l)
          BY <1>4, <3>2
        <4>2. l > j /\ posts'[l].fp = r
          BY <1>2, <1>3, <2>2, <4>1
        <4> QED
          BY <4>2
      <3> QED
        BY <3>1, <3>2
    <2> QED
      BY <2>1, <2>2 DEF LastWanted
  <1>7. Settled(r)'
    <2> SUFFICES ASSUME \A j \in 1..Len(posts') : posts'[j].fp = r => posts'[j].done
                 PROVE  resolved[r] = wanted[r]
      BY DEF Settled
    <2>1. ASSUME NEW k \in 1..Len(posts), posts[k].fp = r
          PROVE  posts[k].done
      BY <1>2, <1>4, <2>1
    <2> QED
      BY <2>1 DEF Settled
  <1> QED
    BY <1>5, <1>6, <1>7

\* Nothing of the marks changes.
LEMMA MarksStay ==
  ASSUME Marked, UNCHANGED <<posts, resolved, wanted, excused, overtaken>>
  PROVE  Marked'
  BY DEF Marked, Ordered, LastWanted, Settled

\* A new list request, after which the old answers no longer matter.
LEMMA FetchListAsks ==
  ASSUME PageTypes, LastAsked, NEW f \in Page!Filters, Page!FetchList(f, gets),
         currentFilter' = f, UNCHANGED shownGet
  PROVE  /\ asked' \in 1..MaxAsked /\ lastGet' \in 1..asked' /\ gets' \in Seq(Gets)
         /\ shownGet' \in 0..lastGet'
         /\ LastAsked' /\ Fresh'
  <1>0. /\ MaxAsked \in Nat /\ gets \in Seq(Gets) /\ Len(gets) \in Nat
        /\ asked \in 1..MaxAsked /\ lastGet \in 1..asked /\ shownGet \in 0..lastGet
    BY PeripheryAssumption DEF PageTypes
  <1>1. /\ asked' = asked + 1 /\ lastGet' = asked + 1 /\ asked < MaxAsked
        /\ gets' = Append(gets, Page!Request(asked + 1, f))
    BY DEF Page!FetchList
  <1>2. Page!Request(asked + 1, f) \in Gets
    <2>1. asked + 1 \in Nat
      BY <1>0
    <2> QED
      BY <2>1, NoList DEF Page!Request, Gets
  <1>3. /\ gets' \in Seq(Gets) /\ Len(gets') = Len(gets) + 1
        /\ \A i \in 1..Len(gets) : gets'[i] = gets[i]
        /\ gets'[Len(gets) + 1] = Page!Request(asked + 1, f)
    BY <1>0, <1>1, <1>2
  <1>4. /\ asked' \in 1..MaxAsked /\ lastGet' \in 1..asked'
        /\ shownGet' \in 0..lastGet' /\ shownGet' # lastGet'
    BY <1>0, <1>1
  <1>5. ASSUME NEW i \in 1..Len(gets')
        PROVE  /\ gets'[i].id \in 1..lastGet'
               /\ gets'[i].id = lastGet' => gets'[i].filter = f /\ ~gets'[i].done
    <2>1. CASE i = Len(gets) + 1
      <3>1. gets'[i].id = asked + 1 /\ gets'[i].filter = f /\ gets'[i].done = FALSE
        BY <2>1, <1>3 DEF Page!Request
      <3> QED
        BY <3>1, <1>0, <1>1
    <2>2. CASE i # Len(gets) + 1
      <3>1. i \in 1..Len(gets) /\ gets'[i] = gets[i]
        BY <2>2, <1>0, <1>3
      <3>2. gets[i].id \in 1..lastGet
        BY <3>1 DEF LastAsked
      <3> QED
        BY <3>1, <3>2, <1>0, <1>1
    <2> QED
      BY <2>1, <2>2
  <1>6. LastAsked'
    BY <1>5 DEF LastAsked
  <1>7. Fresh'
    BY <1>4, <1>5 DEF Fresh
  <1> QED
    BY <1>3, <1>4, <1>6, <1>7

\* A list request leaves: the others are what they were.
LEMMA GetLeaves ==
  ASSUME PageTypes, LastAsked, NEW i \in 1..Len(gets),
         gets' = Page!RemoveAt(gets, i), UNCHANGED <<lastGet, currentFilter>>
  PROVE  /\ gets' \in Seq(Gets)
         /\ LastAsked'
         /\ \A j \in 1..Len(gets') : \E k \in 1..Len(gets) : gets'[j] = gets[k]
  <1>0. gets \in Seq(Gets) /\ Len(gets) \in Nat
    BY DEF PageTypes
  <1>1. gets' \in Seq(Gets) /\ Len(gets') = Len(gets) - 1
    BY <1>0, RemoveAtProperties
  <1>2. \A j \in 1..Len(gets') : gets'[j] = gets[IF j < i THEN j ELSE j + 1]
    BY <1>0, <1>1, RemoveAtProperties
  <1>3. \A j \in 1..Len(gets') : (IF j < i THEN j ELSE j + 1) \in 1..Len(gets)
    BY <1>0, <1>1
  <1>4. \A j \in 1..Len(gets') : \E k \in 1..Len(gets) : gets'[j] = gets[k]
    BY <1>2, <1>3
  <1> QED
    BY <1>1, <1>4 DEF LastAsked

LEMMA ClickFilterKeeps ==
  ASSUME PageInv, NEW f \in Page!Filters, Page!ClickFilter(f)
  PROVE  PageInv'
  <1> USE DEF Page!ClickFilter
  <1>0. PageTypes /\ Marked /\ LastAsked /\ Page!FetchList(f, gets)
    BY DEF PageInv
  <1>1. /\ asked' \in 1..MaxAsked /\ lastGet' \in 1..asked' /\ gets' \in Seq(Gets)
        /\ shownGet' \in 0..lastGet' /\ LastAsked' /\ Fresh'
    BY <1>0, FetchListAsks
  <1>2. PageTypes'
    BY <1>0, <1>1 DEF PageTypes
  <1>3. Marked'
    BY <1>0, MarksStay
  <1> QED
    BY <1>1, <1>2, <1>3 DEF PageInv

LEMMA PostAnsweredKeeps ==
  ASSUME PageInv, NEW i \in 1..Len(posts), Page!PostAnswered(i)
  PROVE  PageInv'
  <1> USE DEF Page!PostAnswered
  <1>0. PageTypes /\ Marked /\ LastAsked
    BY DEF PageInv
  <1>1. /\ posts[i].done /\ posts' = Page!RemoveAt(posts, i)
        /\ Page!FetchList(currentFilter, gets)
        /\ UNCHANGED <<resolved, currentFilter, allItems, shownGet, wanted,
                       excused, overtaken>>
    OBVIOUS
  <1>2. /\ asked' \in 1..MaxAsked /\ lastGet' \in 1..asked' /\ gets' \in Seq(Gets)
        /\ shownGet' \in 0..lastGet' /\ LastAsked' /\ Fresh'
    <2>1. PICK f \in Page!Filters : f = currentFilter
      BY <1>0 DEF PageTypes
    <2> QED
      BY <1>0, <1>1, <2>1, FetchListAsks
  <1>3. posts' \in Seq(Posts)
    BY <1>0, <1>1, RemoveAtProperties DEF PageTypes
  <1>4. PageTypes'
    BY <1>0, <1>1, <1>2, <1>3 DEF PageTypes
  <1>5. Marked'
    <2> SUFFICES ASSUME NEW r \in Row \ (excused \union overtaken)
                 PROVE  Ordered(r)' /\ LastWanted(r)' /\ Settled(r)'
      BY <1>1 DEF Marked
    <2>1. Ordered(r) /\ LastWanted(r) /\ Settled(r)
      BY <1>0 DEF Marked
    <2> QED
      BY <1>0, <1>1, <2>1, PostLeaves
  <1> QED
    BY <1>2, <1>4, <1>5 DEF PageInv

LEMMA PostFailsKeeps ==
  ASSUME PageInv, NEW i \in 1..Len(posts), Page!PostFails(i)
  PROVE  PageInv'
  <1> USE DEF Page!PostFails
  <1>0. PageTypes /\ Marked /\ LastAsked
    BY DEF PageInv
  <1>1. /\ excused' = excused \union {posts[i].fp}
        /\ posts' = Page!RemoveAt(posts, i)
        /\ UNCHANGED <<resolved, currentFilter, allItems, gets, asked, lastGet,
                       shownGet, wanted, overtaken>>
    OBVIOUS
  <1>2. posts[i].fp \in Row
    <2>1. posts[i] \in Posts
      BY <1>0 DEF PageTypes
    <2> QED
      BY <2>1 DEF Posts
  <1>3. posts' \in Seq(Posts)
    BY <1>0, <1>1, RemoveAtProperties DEF PageTypes
  <1>4. PageTypes'
    BY <1>0, <1>1, <1>2, <1>3 DEF PageTypes
  <1>5. Marked'
    <2> SUFFICES ASSUME NEW r \in Row \ (excused' \union overtaken)
                 PROVE  Ordered(r)' /\ LastWanted(r)' /\ Settled(r)'
      BY <1>1 DEF Marked
    <2>1. Ordered(r) /\ LastWanted(r) /\ Settled(r) /\ posts[i].fp # r
      BY <1>0, <1>1 DEF Marked
    <2> QED
      BY <1>0, <1>1, <2>1, PostLeaves
  <1>6. LastAsked' /\ Fresh'
    BY <1>0, <1>1 DEF LastAsked, Fresh, Unchanged
  <1> QED
    BY <1>4, <1>5, <1>6 DEF PageInv

LEMMA ClickToggleKeeps ==
  ASSUME PageInv, NEW q \in Row, Page!ClickToggle(q)
  PROVE  PageInv'
  <1> USE DEF Page!ClickToggle
  <1> DEFINE post == [fp |-> q, resolved |-> ~allItems[q], done |-> FALSE]
  <1>0. /\ PageTypes /\ Marked /\ LastAsked /\ Fresh
        /\ posts \in Seq(Posts) /\ Len(posts) \in Nat /\ MaxAsked \in Nat
    BY PeripheryAssumption DEF PageInv, PageTypes
  <1>1. post \in Posts
    BY DEF Posts
  <1>2. /\ posts' = Append(posts, post)
        /\ wanted' = [wanted EXCEPT ![q] = post.resolved]
    OBVIOUS
  <1>3. post.fp = q /\ post.done = FALSE /\ post.resolved \in BOOLEAN
    OBVIOUS
  <1> HIDE DEF post
  <1>4. /\ posts' \in Seq(Posts) /\ Len(posts') = Len(posts) + 1
        /\ \A i \in 1..Len(posts) : posts'[i] = posts[i]
        /\ posts'[Len(posts) + 1] = post
    BY <1>0, <1>1, <1>2
  <1>5. /\ wanted' \in [Row -> BOOLEAN] /\ wanted'[q] = post.resolved
        /\ \A r \in Row \ {q} : wanted'[r] = wanted[r]
    BY <1>0, <1>2, <1>3 DEF PageTypes
  <1>6. PageTypes'
    BY <1>0, <1>4, <1>5 DEF PageTypes
  <1>7. Marked'
    <2> SUFFICES ASSUME NEW r \in Row \ (excused \union overtaken)
                 PROVE  Ordered(r)' /\ LastWanted(r)' /\ Settled(r)'
      BY DEF Marked
    <2>1. Ordered(r) /\ LastWanted(r) /\ Settled(r)
      BY <1>0 DEF Marked
    <2>2. \A i \in 1..Len(posts') : i \in 1..Len(posts) \/ i = Len(posts) + 1
      BY <1>0, <1>4
    <2>3. Ordered(r)'
      BY <2>1, <2>2, <1>0, <1>3, <1>4 DEF Ordered
    <2>4. LastWanted(r)'
      <3> SUFFICES ASSUME NEW i \in 1..Len(posts'),
                          posts'[i].fp = r, ~posts'[i].done,
                          \A j \in 1..Len(posts') : j > i => posts'[j].fp # r
                   PROVE  posts'[i].resolved = wanted'[r]
        BY DEF LastWanted
      <3>1. CASE i = Len(posts) + 1
        BY <3>1, <1>3, <1>4, <1>5
      <3>2. CASE i \in 1..Len(posts)
        <4>1. Len(posts) + 1 > i /\ Len(posts) + 1 \in 1..Len(posts')
          BY <3>2, <1>0, <1>4
        <4>2. r # q
          BY <4>1, <1>3, <1>4
        <4>3. \A j \in 1..Len(posts) : j > i => posts[j].fp # r
          BY <1>0, <1>4
        <4>4. posts[i].fp = r /\ ~posts[i].done
          BY <3>2, <1>4
        <4>5. posts[i].resolved = wanted[r]
          BY <3>2, <4>3, <4>4, <2>1 DEF LastWanted
        <4> QED
          BY <3>2, <4>2, <4>5, <1>4, <1>5
      <3> QED
        BY <2>2, <3>1, <3>2
    <2>5. Settled(r)'
      <3> SUFFICES ASSUME \A i \in 1..Len(posts') :
                            posts'[i].fp = r => posts'[i].done
                   PROVE  resolved[r] = wanted'[r]
        BY DEF Settled
      <3>1. Len(posts) + 1 \in 1..Len(posts')
        BY <1>0, <1>4
      <3>2. r # q
        BY <3>1, <1>3, <1>4
      <3>3. \A i \in 1..Len(posts) : posts[i].fp = r => posts[i].done
        BY <1>0, <1>4
      <3> QED
        BY <3>2, <3>3, <2>1, <1>5 DEF Settled
    <2> QED
      BY <2>3, <2>4, <2>5
  <1>8. LastAsked'
    BY <1>0 DEF LastAsked
  <1>9. Fresh'
    <2>1. Unchanged' => Unchanged
      BY <1>0, <1>4 DEF Unchanged
    <2>2. \A f : Page!Listed(f)' = Page!Listed(f)
      BY DEF Page!Listed
    <2> QED
      BY <1>0, <2>1, <2>2 DEF Fresh
  <1> QED
    BY <1>6, <1>7, <1>8, <1>9 DEF PageInv

LEMMA DoPostKeeps ==
  ASSUME PageInv, NEW i \in 1..Len(posts), Page!DoPost(i)
  PROVE  PageInv'
  <1> USE DEF Page!DoPost
  <1>0. /\ PageTypes /\ Marked /\ LastAsked
        /\ posts \in Seq(Posts) /\ Len(posts) \in Nat
    BY DEF PageInv, PageTypes
  <1>1. /\ ~posts[i].done
        /\ overtaken' = Page!Overtaken(i)
        /\ resolved' = [resolved EXCEPT ![posts[i].fp] = posts[i].resolved]
        /\ posts' = [posts EXCEPT ![i].done = TRUE]
        /\ UNCHANGED <<currentFilter, allItems, gets, asked, lastGet, shownGet,
                       wanted, excused>>
    OBVIOUS
  <1>2. PICK q \in Row : posts[i].fp = q
    <2>1. posts[i] \in Posts
      BY <1>0
    <2> QED
      BY <2>1 DEF Posts
  <1>3. /\ posts' \in Seq(Posts) /\ Len(posts') = Len(posts)
        /\ \A j \in 1..Len(posts) :
             /\ posts'[j].fp = posts[j].fp /\ posts'[j].resolved = posts[j].resolved
             /\ posts'[j].done = IF j = i THEN TRUE ELSE posts[j].done
    <2> DEFINE e == [posts[i] EXCEPT !.done = TRUE]
    <2>1. /\ e \in Posts /\ e.fp = posts[i].fp /\ e.resolved = posts[i].resolved
          /\ e.done = TRUE
      <3>1. posts[i] \in Posts
        BY <1>0
      <3> QED
        BY <3>1 DEF Posts
    <2>2. posts' = [posts EXCEPT ![i] = e]
      BY <1>1
    <2> HIDE DEF e
    <2>3. /\ posts' \in Seq(Posts) /\ Len(posts') = Len(posts)
          /\ \A j \in 1..Len(posts) : posts'[j] = IF j = i THEN e ELSE posts[j]
      <3> DEFINE t == [posts EXCEPT ![i] = e]
      <3>1. /\ t \in Seq(Posts) /\ Len(t) = Len(posts)
            /\ \A j \in 1..Len(posts) : t[j] = IF j = i THEN e ELSE posts[j]
        BY <1>0, <2>1, ExceptSeq
      <3>2. posts' = t
        BY <2>2
      <3> HIDE DEF t
      <3> QED
        BY <3>1, <3>2
    <2> QED
      BY <2>1, <2>3
  <1>4. posts[i].resolved \in BOOLEAN
    <2>1. posts[i] \in Posts
      BY <1>0
    <2> QED
      BY <2>1 DEF Posts
  <1>5. /\ resolved' \in [Row -> BOOLEAN] /\ resolved'[q] = posts[i].resolved
        /\ \A r \in Row \ {q} : resolved'[r] = resolved[r]
    BY <1>0, <1>1, <1>2, <1>4 DEF PageTypes
  <1>6. /\ overtaken' \subseteq Row /\ overtaken \subseteq overtaken'
        /\ q \notin overtaken' =>
             \A j \in 1..Len(posts) : j < i /\ posts[j].fp = q => posts[j].done
    <2>1. overtaken \subseteq Row
      BY <1>0 DEF PageTypes
    <2>2. \A j \in 1..Len(posts) : j < i => j \in 1..(i - 1)
      BY <1>0
    <2> QED
      BY <2>1, <2>2, <1>1, <1>2 DEF Page!Overtaken
  <1>7. PageTypes'
    BY <1>0, <1>1, <1>3, <1>5, <1>6 DEF PageTypes
  <1>8. Marked'
    <2> SUFFICES ASSUME NEW r \in Row \ (excused \union overtaken')
                 PROVE  Ordered(r)' /\ LastWanted(r)' /\ Settled(r)'
      BY <1>1 DEF Marked
    <2>1. Ordered(r) /\ LastWanted(r) /\ Settled(r)
      BY <1>0, <1>6 DEF Marked
    <2>2. Ordered(r)'
      BY <2>1, <1>0, <1>2, <1>3, <1>6 DEF Ordered
    <2>3. LastWanted(r)'
      <3> SUFFICES ASSUME NEW k \in 1..Len(posts'),
                          posts'[k].fp = r, ~posts'[k].done,
                          \A j \in 1..Len(posts') : j > k => posts'[j].fp # r
                   PROVE  posts'[k].resolved = wanted[r]
        BY <1>1 DEF LastWanted
      <3>1. k \in 1..Len(posts) /\ posts[k].fp = r /\ ~posts[k].done
        BY <1>3
      <3>2. \A j \in 1..Len(posts) : j > k => posts[j].fp # r
        BY <1>3
      <3>3. posts[k].resolved = wanted[r]
        BY <3>1, <3>2, <2>1 DEF LastWanted
      <3> QED
        BY <3>1, <3>3, <1>3
    <2>4. Settled(r)'
      <3> SUFFICES ASSUME \A j \in 1..Len(posts') :
                            posts'[j].fp = r => posts'[j].done
                   PROVE  resolved'[r] = wanted[r]
        BY <1>1 DEF Settled
      <3>1. \A j \in 1..Len(posts) : posts[j].fp = r /\ j # i => posts[j].done
        BY <1>3
      <3>2. CASE r # q
        <4>1. \A j \in 1..Len(posts) : posts[j].fp = r => posts[j].done
          BY <3>1, <3>2, <1>2
        <4> QED
          BY <3>2, <4>1, <2>1, <1>5 DEF Settled
      <3>3. CASE r = q
        <4>1. ASSUME NEW j \in 1..Len(posts), j > i, posts[j].fp = r
              PROVE  FALSE
          <5>1. posts[j].done
            BY <3>1, <4>1, <1>0
          <5> QED
            BY <5>1, <4>1, <3>3, <2>1, <1>1, <1>2 DEF Ordered
        <4>2. posts[i].resolved = wanted[r]
          BY <4>1, <3>3, <2>1, <1>1, <1>2 DEF LastWanted
        <4> QED
          BY <3>3, <4>2, <1>5
      <3> QED
        BY <3>2, <3>3
    <2> QED
      BY <2>2, <2>3, <2>4
  <1>9. LastAsked' /\ Fresh'
    <2>1. ~Unchanged'
      BY <1>3 DEF Unchanged
    <2> QED
      BY <2>1, <1>0, <1>1 DEF LastAsked, Fresh
  <1> QED
    BY <1>7, <1>8, <1>9 DEF PageInv

LEMMA DoGetKeeps ==
  ASSUME PageInv, NEW i \in 1..Len(gets), Page!DoGet(i)
  PROVE  PageInv'
  <1> USE DEF Page!DoGet
  <1> DEFINE list == Page!Listed(gets[i].filter)
  <1>0. /\ PageTypes /\ Marked /\ LastAsked /\ Fresh
        /\ gets \in Seq(Gets) /\ Len(gets) \in Nat /\ gets[i] \in Gets
    BY DEF PageInv, PageTypes
  <1>1. /\ gets' = [gets EXCEPT ![i].done = TRUE, ![i].answer = list]
        /\ UNCHANGED <<resolved, currentFilter, allItems, posts, asked, lastGet,
                       shownGet, wanted, excused, overtaken>>
    OBVIOUS
  <1>2. list \in UNION {[S -> BOOLEAN] : S \in SUBSET Row}
    BY <1>0, ListedIsList
  <1>3. list = Page!Listed(gets[i].filter)
    OBVIOUS
  <1> HIDE DEF list
  <1>4. /\ gets' \in Seq(Gets) /\ Len(gets') = Len(gets)
        /\ \A j \in 1..Len(gets) :
             /\ gets'[j].id = gets[j].id /\ gets'[j].filter = gets[j].filter
             /\ j # i => gets'[j] = gets[j]
        /\ gets'[i].answer = list
    <2> DEFINE e == [[gets[i] EXCEPT !.done = TRUE] EXCEPT !.answer = list]
    <2>1. /\ e \in Gets /\ e.id = gets[i].id /\ e.filter = gets[i].filter
          /\ e.answer = list
      BY <1>0, <1>2 DEF Gets
    <2>2. gets' = [gets EXCEPT ![i] = e]
      BY <1>0, <1>1
    <2> HIDE DEF e
    <2>3. /\ gets' \in Seq(Gets) /\ Len(gets') = Len(gets)
          /\ \A j \in 1..Len(gets) : gets'[j] = IF j = i THEN e ELSE gets[j]
      <3> DEFINE t == [gets EXCEPT ![i] = e]
      <3>1. /\ t \in Seq(Gets) /\ Len(t) = Len(gets)
            /\ \A j \in 1..Len(gets) : t[j] = IF j = i THEN e ELSE gets[j]
        BY <1>0, <2>1, ExceptSeq
      <3>2. gets' = t
        BY <2>2
      <3> HIDE DEF t
      <3> QED
        BY <3>1, <3>2
    <2> QED
      BY <2>1, <2>3
  <1>5. PageTypes'
    BY <1>0, <1>1, <1>4 DEF PageTypes
  <1>6. Marked'
    BY <1>0, <1>1, MarksStay
  <1>7. LastAsked'
    BY <1>0, <1>1, <1>4 DEF LastAsked
  <1>8. Fresh'
    <2>1. Unchanged' <=> Unchanged
      BY <1>1 DEF Unchanged
    <2>2. Page!Listed(currentFilter)' = Page!Listed(currentFilter)
      BY <1>1 DEF Page!Listed
    <2>3. ASSUME gets[i].id = lastGet PROVE list = Page!Listed(currentFilter)
      BY <2>3, <1>0, <1>3 DEF LastAsked
    <2> QED
      BY <2>1, <2>2, <2>3, <1>0, <1>1, <1>4 DEF Fresh
  <1> QED
    BY <1>5, <1>6, <1>7, <1>8 DEF PageInv

LEMMA ListArrivesKeeps ==
  ASSUME PageInv, NEW i \in 1..Len(gets), Page!ListArrives(i)
  PROVE  PageInv'
  <1> USE DEF Page!ListArrives
  <1>0. /\ PageTypes /\ Marked /\ LastAsked /\ Fresh
        /\ gets[i] \in Gets
    BY DEF PageInv, PageTypes
  <1>1. /\ gets[i].done
        /\ allItems' = gets[i].answer /\ shownGet' = gets[i].id
        /\ gets' = Page!RemoveAt(gets, i)
        /\ UNCHANGED <<resolved, currentFilter, posts, asked, lastGet, wanted,
                       excused, overtaken>>
    OBVIOUS
  <1>2. /\ gets' \in Seq(Gets) /\ LastAsked'
        /\ \A j \in 1..Len(gets') : \E k \in 1..Len(gets) : gets'[j] = gets[k]
    BY <1>0, <1>1, GetLeaves
  <1>3. gets[i].id \in 0..lastGet
    BY <1>0 DEF LastAsked, PageTypes
  <1>4. PageTypes'
    BY <1>0, <1>1, <1>2, <1>3 DEF PageTypes, Gets
  <1>5. Marked'
    BY <1>0, <1>1, MarksStay
  <1>6. Fresh'
    <2>1. Unchanged' <=> Unchanged
      BY <1>1 DEF Unchanged
    <2>2. Page!Listed(currentFilter)' = Page!Listed(currentFilter)
      BY <1>1 DEF Page!Listed
    <2> QED
      BY <2>1, <2>2, <1>0, <1>1, <1>2 DEF Fresh
  <1> QED
    BY <1>2, <1>4, <1>5, <1>6 DEF PageInv

LEMMA GetFailsKeeps ==
  ASSUME PageInv, NEW i \in 1..Len(gets), Page!GetFails(i)
  PROVE  PageInv'
  <1> USE DEF Page!GetFails
  <1>0. PageTypes /\ Marked /\ LastAsked /\ Fresh
    BY DEF PageInv
  <1>1. /\ gets' \in Seq(Gets) /\ LastAsked'
        /\ \A j \in 1..Len(gets') : \E k \in 1..Len(gets) : gets'[j] = gets[k]
    BY <1>0, GetLeaves
  <1>2. PageTypes'
    BY <1>0, <1>1 DEF PageTypes
  <1>3. Marked'
    BY <1>0, MarksStay
  <1>4. Fresh'
    <2>1. Unchanged' <=> Unchanged
      BY DEF Unchanged
    <2>2. Page!Listed(currentFilter)' = Page!Listed(currentFilter)
      BY DEF Page!Listed
    <2> QED
      BY <2>1, <2>2, <1>0, <1>1 DEF Fresh
  <1> QED
    BY <1>1, <1>2, <1>3, <1>4 DEF PageInv

LEMMA RecursKeeps ==
  ASSUME PageInv, NEW q \in Row, Page!Recurs(q)
  PROVE  PageInv'
  <1> USE DEF Page!Recurs
  <1>0. PageTypes /\ Marked /\ LastAsked /\ Fresh
    BY DEF PageInv
  <1>1. /\ resolved' \in [Row -> BOOLEAN]
        /\ \A r \in Row \ {q} : resolved'[r] = resolved[r]
    BY <1>0 DEF PageTypes
  <1>2. PageTypes'
    BY <1>0, <1>1 DEF PageTypes
  <1>3. Marked'
    <2> SUFFICES ASSUME NEW r \in Row \ (excused' \union overtaken')
                 PROVE  Ordered(r)' /\ LastWanted(r)' /\ Settled(r)'
      BY DEF Marked
    <2>1. Ordered(r) /\ LastWanted(r) /\ Settled(r) /\ resolved'[r] = resolved[r]
      BY <1>0, <1>1 DEF Marked
    <2> QED
      BY <2>1 DEF Ordered, LastWanted, Settled
  <1>4. LastAsked' /\ Fresh'
    BY <1>0 DEF LastAsked, Fresh, Unchanged
  <1> QED
    BY <1>2, <1>3, <1>4 DEF PageInv

LEMMA PageSteps == PageInv /\ Page!Next => PageInv'
  <1> SUFFICES ASSUME PageInv, Page!Next PROVE PageInv'
    OBVIOUS
  <1>1. ASSUME NEW f \in Page!Filters, Page!ClickFilter(f) PROVE PageInv'
    BY <1>1, ClickFilterKeeps
  <1>2. ASSUME NEW r \in Row, Page!ClickToggle(r) PROVE PageInv'
    BY <1>2, ClickToggleKeeps
  <1>3. ASSUME NEW r \in Row, Page!Recurs(r) PROVE PageInv'
    BY <1>3, RecursKeeps
  <1>4. ASSUME NEW i \in 1..Len(posts), Page!DoPost(i) PROVE PageInv'
    BY <1>4, DoPostKeeps
  <1>5. ASSUME NEW i \in 1..Len(posts), Page!PostAnswered(i) PROVE PageInv'
    BY <1>5, PostAnsweredKeeps
  <1>6. ASSUME NEW i \in 1..Len(posts), Page!PostFails(i) PROVE PageInv'
    BY <1>6, PostFailsKeeps
  <1>7. ASSUME NEW i \in 1..Len(gets), Page!DoGet(i) PROVE PageInv'
    BY <1>7, DoGetKeeps
  <1>8. ASSUME NEW i \in 1..Len(gets), Page!ListArrives(i) PROVE PageInv'
    BY <1>8, ListArrivesKeeps
  <1>9. ASSUME NEW i \in 1..Len(gets), Page!GetFails(i) PROVE PageInv'
    BY <1>9, GetFailsKeeps
  <1> QED
    BY <1>1, <1>2, <1>3, <1>4, <1>5, <1>6, <1>7, <1>8, <1>9 DEF Page!Next

LEMMA PageRests == PageInv /\ UNCHANGED pageVars => PageInv'
  <1> SUFFICES ASSUME PageInv, UNCHANGED pageVars PROVE PageInv'
    OBVIOUS
  <1> USE DEF pageVars, PageInv
  <1>1. PageTypes'
    BY DEF PageTypes
  <1>2. Marked'
    BY MarksStay
  <1>3. LastAsked'
    BY DEF LastAsked
  <1>4. Fresh'
    <2>1. Page!Listed(currentFilter)' = Page!Listed(currentFilter)
      BY DEF Page!Listed
    <2> QED
      BY <2>1 DEF Fresh, Unchanged
  <1> QED
    BY <1>1, <1>2, <1>3, <1>4

LEMMA PageImplies == PageInv => Page!LastClickWins /\ Page!QuietPageIsCurrent
  <1> SUFFICES ASSUME PageInv
               PROVE  Page!LastClickWins /\ Page!QuietPageIsCurrent
    OBVIOUS
  <1>1. Page!LastClickWins
    BY DEF PageInv, Marked, Settled, Page!LastClickWins
  <1>2. Page!QuietPageIsCurrent
    BY DEF PageInv, Fresh, Unchanged, Page!QuietPageIsCurrent, Page!Quiet
  <1> QED
    BY <1>1, <1>2

-----------------------------------------------------------------------------
(* Together.                                                               *)

LEMMA BothInvariant == Spec => [](SlotInv /\ PageInv)
  <1>1. Init => SlotInv /\ PageInv
    BY SlotInit, PageInit DEF Init
  <1>2. SlotInv /\ PageInv /\ [Next]_vars => (SlotInv /\ PageInv)'
    <2> SUFFICES ASSUME SlotInv, PageInv, [Next]_vars PROVE SlotInv' /\ PageInv'
      OBVIOUS
    <2>1. CASE UNCHANGED <<slotVars, pageVars>>
      BY <2>1, SlotRests, PageRests
    <2>2. CASE Slot!Next /\ UNCHANGED pageVars
      BY <2>2, SlotSteps, PageRests
    <2>3. CASE Page!Next /\ UNCHANGED slotVars
      BY <2>3, SlotRests, PageSteps
    <2>4. \/ UNCHANGED <<slotVars, pageVars>>
          \/ Slot!Next /\ UNCHANGED pageVars
          \/ Page!Next /\ UNCHANGED slotVars
      BY DEF Next, vars
    <2> QED
      BY <2>1, <2>2, <2>3, <2>4
  <1> QED
    BY <1>1, <1>2, PTL DEF Spec

\* hooks.py:15-36, SPEC.md:523-524: whatever this library and another install
\* and remove, statement by statement, in whatever order and however often, no
\* hook that the other has not removed drops out of the chain, but for one put
\* between an actor's read of the slot and the write that belongs to it.
THEOREM ChainKeepsOthers == Spec => []OthersAreKept
  <1>1. SlotInv => OthersAreKept
    BY SlotImplies DEF OthersAreKept
  <1> QED
    BY <1>1, BothInvariant, PTL

\* hooks.py:20, 34-36, __init__.py:257-258: while a reporter is open, the hook
\* that its init() installed is in the chain, with the same exception.
THEOREM OpenReportersAreHooked == Spec => []OpenIsHooked
  <1>1. SlotInv => OpenIsHooked
    BY SlotImplies DEF OpenIsHooked
  <1> QED
    BY <1>1, BothInvariant, PTL

\* script.js:94-98, web.py:112-114: whatever the interleaving of clicks, lists
\* and answers, an answered row has the mark of the last click on it, unless
\* the error recurred, a request was lost or the server took the later click
\* first.
THEOREM MarksFollowTheLastClick == Spec => []LastClickWins
  <1>1. PageInv => LastClickWins
    BY PageImplies DEF LastClickWins
  <1> QED
    BY <1>1, BothInvariant, PTL

\* script.js:95-100: a page that has nothing under way, and got the answer to
\* its last request for the list, shows what the store has.
THEOREM QuietPagesAreCurrent == Spec => []QuietPageIsCurrent
  <1>1. PageInv => QuietPageIsCurrent
    BY PageImplies DEF QuietPageIsCurrent
  <1> QED
    BY <1>1, BothInvariant, PTL

-----------------------------------------------------------------------------
(* Fingerprints.                                                           *)

KeyInv ==
  part = "fingerprint" =>
    /\ input \in [1..2 -> [what : Key!Exceptions \union Key!Records, root : Roots]]
    /\ output = <<>> \/ output = [i \in 1..2 |-> Key!Of(input[i])]

LEMMA KeyInvariant == Spec => []KeyInv
  <1>1. Init => KeyInv
    BY DEF Init, NotCalled, Key!Init, Body!Init, KeyInv
  <1>2. KeyInv /\ [Next]_vars => KeyInv'
    <2> SUFFICES ASSUME KeyInv, [Next]_vars, part' = "fingerprint" PROVE KeyInv'
      BY DEF KeyInv
    <2>1. CASE UNCHANGED <<part, functionVars>>
      BY <2>1 DEF KeyInv, functionVars
    <2>2. CASE part = "fingerprint" /\ Key!Next /\ UNCHANGED part
      BY <2>2 DEF KeyInv, Key!Next, Key!Report
    <2>3. \/ UNCHANGED <<part, functionVars>>
          \/ part = "fingerprint" /\ Key!Next /\ UNCHANGED part
      BY DEF Next, vars
    <2> QED
      BY <2>1, <2>2, <2>3
  <1> QED
    BY <1>1, <1>2, PTL DEF Spec

\* In the project's own files, _relpath() is what is left of the path.
LEMMA RelPathInside ==
  ASSUME NEW path \in Paths, NEW root \in Roots, Key!Inside(path, root)
  PROVE  Key!RelPath(path, root) = Key!Called(path, root)
  BY PeripheryAssumption DEF Key!Inside, Key!RelPath, Key!Called

LEMMA SomeFrame == (CHOOSE f \in Key!Frame : TRUE) \in Key!Frame
  <1>1. PICK p \in Paths, c \in Funcs, n \in Lines : TRUE
    BY PeripheryAssumption
  <1>2. [path |-> p, func |-> c, line |-> n] \in Key!Frame
    BY DEF Key!Frame
  <1> QED
    BY <1>2

\* The frame that raised is where compute() finds the error.
LEMMA RaisedIsTheSite ==
  ASSUME NEW o \in [what : Key!Exceptions, root : Roots], NEW f,
         f \in LET e == o.what
               IN IF e.own # <<>> THEN {Key!Last(e.own)}
                  ELSE {e.handled[j] : j \in {Len(e.handled)} \ {0}}
  PROVE  /\ f \in Key!Frame
         /\ Key!Of(o) = <<o.what.type, Key!RelPath(f.path, o.root), <<f.func>>>>
  <1> DEFINE e == o.what
             tb == Key!Traceback(e)
             C == CHOOSE g \in Key!Frame : TRUE
  <1>1. /\ e.kind = "exception" /\ e.own \in Key!Tracebacks
        /\ e.handled \in {<<>>, <<C>>}
    BY DEF Key!Exceptions
  <1>2. C \in Key!Frame
    BY SomeFrame
  <1>3. tb # <<>> /\ f \in Key!Frame /\ Key!Site(tb) = f
    <2>1. CASE e.own # <<>>
      <3>1. tb = e.own /\ f = Key!Last(e.own)
        BY <2>1 DEF Key!Traceback
      <3>2. CASE \E g \in Key!Frame : e.own = <<g>>
        BY <2>1, <3>1, <3>2 DEF Key!Last, Key!Site
      <3>3. CASE \E g \in Key!Frame : e.own = <<C, g>>
        BY <2>1, <3>1, <3>3 DEF Key!Last, Key!Site
      <3> QED
        BY <1>1, <2>1, <3>2, <3>3 DEF Key!Tracebacks
    <2>2. CASE e.own = <<>>
      <3>1. tb = e.handled /\ \E j \in {Len(e.handled)} \ {0} : f = e.handled[j]
        BY <2>2 DEF Key!Traceback
      <3>2. e.handled = <<C>> /\ f = C
        BY <1>1, <3>1
      <3> QED
        BY <1>2, <3>1, <3>2 DEF Key!Site, Key!Last
    <2> QED
      BY <2>1, <2>2
  <1> QED
    BY <1>1, <1>3 DEF Key!Of, Key!Compute

LEMMA ProjectErrorsHold ==
  ASSUME KeyInv, part = "fingerprint"
  PROVE  Key!ProjectErrors
  <1> SUFFICES ASSUME output # <<>>, Key!Both("exception"),
                      NEW f \in Key!Raised(1), NEW g \in Key!Raised(2),
                      Key!Inside(f.path, input[1].root),
                      Key!Inside(g.path, input[2].root)
               PROVE  output[1] = output[2] <=>
                        /\ input[1].what.type = input[2].what.type
                        /\ Key!Called(f.path, input[1].root)
                             = Key!Called(g.path, input[2].root)
                        /\ f.func = g.func
    BY DEF Key!ProjectErrors, Key!Reported, Key!Same
  <1>1. /\ input[1] \in [what : Key!Exceptions \union Key!Records, root : Roots]
        /\ input[2] \in [what : Key!Exceptions \union Key!Records, root : Roots]
        /\ output[1] = Key!Of(input[1]) /\ output[2] = Key!Of(input[2])
    BY DEF KeyInv
  <1>2. \A r \in Key!Records : r.kind = "record"
    BY DEF Key!Records
  <1>3. /\ input[1].what.kind = "exception" /\ input[2].what.kind = "exception"
    BY DEF Key!Both
  <1>4. /\ input[1] \in [what : Key!Exceptions, root : Roots]
        /\ input[2] \in [what : Key!Exceptions, root : Roots]
    BY <1>1, <1>2, <1>3
  <1>5. PICK a \in [what : Key!Exceptions, root : Roots] : a = input[1]
    BY <1>4
  <1>6. PICK b \in [what : Key!Exceptions, root : Roots] : b = input[2]
    BY <1>4
  <1>7. /\ f \in Key!Frame
        /\ Key!Of(a) = <<a.what.type, Key!RelPath(f.path, a.root), <<f.func>>>>
    BY <1>5, RaisedIsTheSite DEF Key!Raised
  <1>8. /\ g \in Key!Frame
        /\ Key!Of(b) = <<b.what.type, Key!RelPath(g.path, b.root), <<g.func>>>>
    BY <1>6, RaisedIsTheSite DEF Key!Raised
  <1>9. /\ Key!RelPath(f.path, a.root) = Key!Called(f.path, a.root)
        /\ Key!RelPath(g.path, b.root) = Key!Called(g.path, b.root)
    BY <1>5, <1>6, <1>7, <1>8, RelPathInside DEF Key!Frame
  <1> QED
    BY <1>1, <1>5, <1>6, <1>7, <1>8, <1>9

\* The parts of a fingerprint that say which kind of call it comes from.
LEMMA SiteParts ==
  ASSUME NEW o \in [what : Key!Exceptions \union Key!Records, root : Roots]
  PROVE  /\ o.what.kind = "record" =>
              /\ o.what \in Key!Records
              /\ Key!Of(o)[1] = o.what.level
              /\ Key!Of(o)[3] = <<o.what.at.func, o.what.at.line>>
         /\ o.what.kind # "record" =>
              o.what.kind = "exception" /\ \E x : Key!Of(o)[3] = <<x>>
  <1>1. ASSUME o.what.kind = "record"
        PROVE  /\ o.what \in Key!Records
               /\ Key!Of(o)[1] = o.what.level
               /\ Key!Of(o)[3] = <<o.what.at.func, o.what.at.line>>
    BY <1>1 DEF Key!Exceptions, Key!Of, Key!ComputeFromRecord, Key!RecordSite
  <1>2. ASSUME o.what.kind # "record"
        PROVE  o.what.kind = "exception" /\ \E x : Key!Of(o)[3] = <<x>>
    <2>1. o.what.kind = "exception"
      BY <1>2 DEF Key!Exceptions, Key!Records
    <2>2. \/ Key!Of(o)[3] = <<"<unknown>">>
          \/ Key!Of(o)[3] = <<Key!Site(Key!Traceback(o.what)).func>>
      BY <1>2 DEF Key!Of, Key!Compute
    <2> QED
      BY <2>1, <2>2
  <1> QED
    BY <1>1, <1>2

LEMMA LogSitesHold ==
  ASSUME KeyInv, part = "fingerprint"
  PROVE  Key!LogSites
  <1> SUFFICES ASSUME output # <<>>, output[1] = output[2],
                      ~Key!Both("exception")
               PROVE  /\ Key!Both("record")
                      /\ input[1].what.level = input[2].what.level
                      /\ input[1].what.at.func = input[2].what.at.func
                      /\ input[1].what.at.line = input[2].what.at.line
    BY DEF Key!LogSites, Key!Reported, Key!Same
  <1>1. /\ input[1] \in [what : Key!Exceptions \union Key!Records, root : Roots]
        /\ input[2] \in [what : Key!Exceptions \union Key!Records, root : Roots]
        /\ output[1] = Key!Of(input[1]) /\ output[2] = Key!Of(input[2])
    BY DEF KeyInv
  <1>2. PICK a \in [what : Key!Exceptions \union Key!Records, root : Roots] :
          a = input[1]
    BY <1>1
  <1>3. PICK b \in [what : Key!Exceptions \union Key!Records, root : Roots] :
          b = input[2]
    BY <1>1
  <1>4. Key!Of(a) = Key!Of(b)
    BY <1>1, <1>2, <1>3
  <1>5. \A x, y, z : <<x>> # <<y, z>>
    OBVIOUS
  <1>6. a.what.kind = "record" <=> b.what.kind = "record"
    BY <1>4, <1>5, SiteParts
  <1>7. a.what.kind = "record" /\ b.what.kind = "record"
    <2>1. ASSUME a.what.kind # "record" PROVE FALSE
      <3>1. a.what.kind = "exception" /\ b.what.kind = "exception"
        BY <2>1, <1>6, SiteParts
      <3> QED
        BY <3>1, <1>2, <1>3 DEF Key!Both
    <2> QED
      BY <2>1, <1>6
  <1>8. /\ a.what.level = b.what.level
        /\ <<a.what.at.func, a.what.at.line>> = <<b.what.at.func, b.what.at.line>>
    BY <1>4, <1>7, SiteParts
  <1> QED
    BY <1>2, <1>3, <1>7, <1>8 DEF Key!Both

\* SPEC.md:205-213, fingerprint.py:32-56: in the project's own files two
\* exceptions are one error exactly if class name, relative path and function of
\* the raising frame agree, in whatever deployments; two log calls are one only on
\* one line and level; and a log call is never one error with an exception.
THEOREM SameErrorsAreTheSame == Spec => []SameErrors
  <1>1. KeyInv => SameErrors
    BY ProjectErrorsHold, LogSitesHold DEF SameErrors
  <1> QED
    BY <1>1, KeyInvariant, PTL

-----------------------------------------------------------------------------
(* The size of a body: sums of the sizes of its pieces.                    *)

Pieces == Seq(Body!Piece)
Tag == {"pre", "code", "b", "i"}

LEMMA PieceParts ==
  ASSUME NEW p \in Body!Piece
  PROVE  /\ p.size \in Nat \ {0}
         /\ p.kind \in {"text", "raw", "open", "close", "entity"}
         /\ p.kind \in {"open", "close"} => p.tag \in Tag
  <1>1. DOMAIN Body!Width = Tag
    BY DEF Body!Width, Tag
  <1>2. CASE p \in [kind : {"text", "raw"}, tag : Body!Special \union {""},
                   size : Nat \ {0}]
    BY <1>2
  <1>3. CASE p \in [kind : {"open", "close"}, tag : Tag, size : Nat \ {0}]
    BY <1>3
  <1>4. CASE p \in [kind : {"entity"}, tag : Body!Special, size : 1..5]
    BY <1>4
  <1> QED
    BY <1>1, <1>2, <1>3, <1>4 DEF Body!Piece

\* f[k] is the size of the first k pieces.
Sums(s, f) == /\ f \in [0..Len(s) -> Nat] /\ f[0] = 0
              /\ \A k \in 1..Len(s) : f[k] = f[k - 1] + s[k].size

SumsStep(s, f) == [k \in 0..Len(s) |-> IF k = 0 THEN 0 ELSE f[k - 1] + s[k].size]

LEMMA SumsExist ==
  ASSUME NEW s \in Pieces
  PROVE  \E f : Sums(s, f)
  <1> DEFINE Good(n, f) == /\ f \in [0..n -> Nat] /\ f[0] = 0
                           /\ \A k \in 1..n : f[k] = f[k - 1] + s[k].size
             T == {n \in 0..Len(s) : ~\E f : Good(n, f)}
  <1>0. Len(s) \in Nat /\ \A k \in 1..Len(s) : s[k].size \in Nat
    BY PieceParts DEF Pieces
  <1>1. SUFFICES ASSUME T # {} PROVE FALSE
    <2>1. \E f : Good(Len(s), f)
      <3> HIDE DEF Good
      <3> QED
        BY <1>0, <1>1
    <2> QED
      BY <2>1 DEF Sums
  <1>2. PICK n \in T : \A m \in T : ~(m < n)
    <2>1. T \subseteq Nat
      BY <1>0
    <2> QED
      BY <1>1, <2>1, LeastElement
  <1>3. Good(0, [k \in 0..0 |-> 0])
    OBVIOUS
  <1>4. n \in 1..Len(s) /\ n \in Nat /\ n - 1 \in 0..Len(s) /\ n - 1 < n
    <2> HIDE DEF Good
    <2>1. n # 0 /\ n \in 0..Len(s)
      BY <1>2, <1>3
    <2> QED
      BY <1>0, <2>1
  <1>5. PICK f : Good(n - 1, f)
    BY <1>2, <1>4
  <1>6. s[n].size \in Nat
    BY <1>0, <1>4
  <1> DEFINE g == [k \in 0..n |-> IF k = n THEN f[n - 1] + s[n].size ELSE f[k]]
  <1>7. Good(n, g)
    <2>1. f \in [0..(n - 1) -> Nat] /\ f[0] = 0
      BY <1>5
    <2>2. \A k \in 1..(n - 1) : f[k] = f[k - 1] + s[k].size
      BY <1>5
    <2>3. g \in [0..n -> Nat] /\ g[0] = 0
      BY <1>4, <1>6, <2>1
    <2>4. ASSUME NEW k \in 1..n PROVE g[k] = g[k - 1] + s[k].size
      <3>1. CASE k = n
        BY <1>4, <3>1, <2>1
      <3>2. CASE k # n
        BY <1>4, <3>2, <2>2
      <3> QED
        BY <3>1, <3>2
    <2> QED
      BY <2>3, <2>4
  <1> QED
    BY <1>2, <1>7

\* Where two bodies begin alike, so do their sums.
LEMMA SumsAgree ==
  ASSUME NEW s \in Pieces, NEW t \in Pieces, NEW f, NEW g, Sums(s, f), Sums(t, g),
         NEW n \in Nat, n <= Len(s), n <= Len(t), \A k \in 1..n : s[k] = t[k]
  PROVE  \A k \in 0..n : f[k] = g[k]
  <1> DEFINE T == {k \in 0..n : f[k] # g[k]}
  <1> SUFFICES ASSUME T # {} PROVE FALSE
    OBVIOUS
  <1>1. PICK x \in T : \A y \in T : ~(y < x)
    <2>1. T \subseteq Nat
      OBVIOUS
    <2> QED
      BY <2>1, LeastElement
  <1>2. x \in 0..n /\ f[x] # g[x] /\ f[0] = g[0]
    BY DEF Sums
  <1>3. x \in 1..n /\ x - 1 \in 0..n /\ x - 1 < x
    BY <1>2
  <1>4. f[x - 1] = g[x - 1]
    BY <1>1, <1>3
  <1>5. x \in 1..Len(s) /\ x \in 1..Len(t)
    BY <1>3 DEF Pieces
  <1>6. f[x] = f[x - 1] + s[x].size /\ g[x] = g[x - 1] + t[x].size
    BY <1>5 DEF Sums
  <1> QED
    BY <1>2, <1>3, <1>4, <1>6

LEMMA SizeIs ==
  ASSUME NEW s \in Pieces, NEW f, Sums(s, f)
  PROVE  Body!Size(s) = f[Len(s)]
  <1> DEFINE F(g, k) == IF k = 0 THEN 0 ELSE g[k - 1] + s[k].size
             g == CHOOSE h : h = [k \in 0..Len(s) |-> F(h, k)]
  <1>0. Len(s) \in Nat /\ \A k \in 1..Len(s) : s[k].size \in Nat
    BY PieceParts DEF Pieces
  <1>1. f = [k \in 0..Len(s) |-> F(f, k)]
    <2>1. f = [k \in 0..Len(s) |-> f[k]]
      BY DEF Sums
    <2>2. \A k \in 0..Len(s) : f[k] = F(f, k)
      BY <1>0 DEF Sums
    <2> HIDE DEF F
    <2> QED
      BY <2>1, <2>2
  <1>2. g = [k \in 0..Len(s) |-> F(g, k)]
    BY <1>1
  <1>3. Body!Size(s) = g[Len(s)]
    BY DEF Body!Size
  <1> HIDE DEF g
  <1> DEFINE T == {k \in 0..Len(s) : f[k] # g[k]}
  <1>4. T = {}
    <2> SUFFICES ASSUME T # {} PROVE FALSE
      OBVIOUS
    <2>1. PICK x \in T : \A y \in T : ~(y < x)
      <3>1. T \subseteq Nat
        BY <1>0
      <3> QED
        BY <3>1, LeastElement
    <2>2. x \in 0..Len(s) /\ f[x] # g[x]
      OBVIOUS
    <2>3. g[x] = F(g, x) /\ f[x] = F(f, x)
      BY <1>1, <1>2, <2>2
    <2>4. x # 0 => x - 1 \in 0..Len(s) /\ x - 1 < x
      BY <1>0, <2>2
    <2>5. x # 0 => f[x - 1] = g[x - 1]
      BY <2>1, <2>4
    <2> QED
      BY <2>2, <2>3, <2>5
  <1> QED
    BY <1>0, <1>3, <1>4

LEMMA SizeNat ==
  ASSUME NEW s \in Pieces
  PROVE  Body!Size(s) \in Nat
  <1>1. PICK f : Sums(s, f)
    BY SumsExist
  <1> QED
    BY <1>1, SizeIs DEF Sums, Pieces

\* A cut between two pieces, and what it leaves.
LEMMA SizePrefix ==
  ASSUME NEW s \in Pieces, NEW f, Sums(s, f), NEW n \in 0..Len(s)
  PROVE  SubSeq(s, 1, n) \in Pieces /\ Body!Size(SubSeq(s, 1, n)) = f[n]
  <1>0. n \in Nat /\ Len(s) \in Nat
    BY DEF Pieces
  <1> DEFINE t == SubSeq(s, 1, n)
  <1>1. t \in Pieces /\ Len(t) = n /\ \A k \in 1..n : t[k] = s[k]
    BY <1>0 DEF Pieces
  <1> HIDE DEF t
  <1>2. PICK g : Sums(t, g)
    BY <1>1, SumsExist
  <1>3. f[n] = g[n]
    BY <1>0, <1>1, <1>2, SumsAgree
  <1> QED
    BY <1>1, <1>2, <1>3, SizeIs DEF t

LEMMA SizeConcat ==
  ASSUME NEW s \in Pieces, NEW t \in Pieces
  PROVE  s \o t \in Pieces /\ Body!Size(s \o t) = Body!Size(s) + Body!Size(t)
  <1>1. PICK f : Sums(s, f)
    BY SumsExist
  <1>2. PICK g : Sums(t, g)
    BY SumsExist
  <1> DEFINE m == Len(s)
             n == Len(t)
             h == [k \in 0..(m + n) |-> IF k <= m THEN f[k] ELSE f[m] + g[k - m]]
  <1>3. /\ m \in Nat /\ n \in Nat /\ s \o t \in Pieces /\ Len(s \o t) = m + n
        /\ \A k \in 1..(m + n) : (s \o t)[k] = IF k <= m THEN s[k] ELSE t[k - m]
    BY DEF Pieces
  <1>4. /\ f \in [0..m -> Nat] /\ f[0] = 0
        /\ g \in [0..n -> Nat] /\ g[0] = 0
        /\ \A k \in 1..m : f[k] = f[k - 1] + s[k].size
        /\ \A k \in 1..n : g[k] = g[k - 1] + t[k].size
    BY <1>1, <1>2 DEF Sums
  <1> HIDE DEF m, n
  <1>5. h \in [0..(m + n) -> Nat] /\ h[0] = 0
    <2>1. \A k \in 0..(m + n) :
            (IF k <= m THEN f[k] ELSE f[m] + g[k - m]) \in Nat
      <3> SUFFICES ASSUME NEW k \in 0..(m + n)
                   PROVE  (IF k <= m THEN f[k] ELSE f[m] + g[k - m]) \in Nat
        OBVIOUS
      <3>1. f[m] \in Nat /\ (k <= m => f[k] \in Nat)
        BY <1>3, <1>4
      <3>2. ~(k <= m) => k - m \in 0..n
        BY <1>3
      <3> QED
        BY <1>4, <3>1, <3>2
    <2> QED
      BY <1>3, <1>4, <2>1
  <1>6. ASSUME NEW k \in 1..(m + n)
        PROVE  h[k] = h[k - 1] + (s \o t)[k].size
    <2>1. CASE k <= m
      <3>1. k \in 1..m /\ h[k] = f[k] /\ h[k - 1] = f[k - 1]
        BY <1>3, <2>1
      <3> QED
        BY <1>3, <1>4, <2>1, <3>1
    <2>2. CASE k = m + 1
      <3>0. /\ 1 \in 1..n /\ k - 1 = m /\ k - m = 1 /\ ~(k <= m)
            /\ k \in 0..(m + n) /\ m \in 0..(m + n) /\ m <= m
        BY <1>3, <2>2
      <3>1. 1 \in 1..n /\ h[k] = f[m] + g[1] /\ h[k - 1] = f[m]
        BY <3>0
      <3>2. g[1] = g[0] + t[1].size
        BY <1>4, <3>1
      <3>3. (s \o t)[k] = t[1]
        BY <1>3, <2>2
      <3>4. t[1].size \in Nat
        BY <3>1, PieceParts DEF Pieces, n
      <3> QED
        BY <1>4, <3>1, <3>2, <3>3, <3>4
    <2>3. CASE k > m + 1
      <3>1. /\ k - m \in 1..n /\ h[k] = f[m] + g[k - m]
            /\ h[k - 1] = f[m] + g[k - 1 - m]
        BY <1>3, <2>3
      <3>2. (s \o t)[k] = t[k - m] /\ t[k - m].size \in Nat
        BY <1>3, <2>3, <3>1, PieceParts DEF Pieces, n
      <3>3. g[k - m] = g[(k - m) - 1] + t[k - m].size
        BY <1>4, <3>1
      <3>4. (k - m) - 1 = k - 1 - m /\ k - 1 - m \in 0..n
        BY <1>3, <3>1
      <3>5. f[m] \in Nat /\ g[k - 1 - m] \in Nat
        BY <1>3, <1>4, <3>4
      <3> HIDE DEF h
      <3> QED
        BY <3>1, <3>2, <3>3, <3>4, <3>5
    <2> QED
      BY <1>3, <2>1, <2>2, <2>3
  <1>7. h[m + n] = f[m] + g[n]
    BY <1>3, <1>4
  <1> HIDE DEF h
  <1>8. Sums(s \o t, h)
    BY <1>3, <1>5, <1>6 DEF Sums
  <1> QED
    BY <1>1, <1>2, <1>3, <1>7, <1>8, SizeIs DEF m, n

LEMMA SizeOne ==
  ASSUME NEW p \in Body!Piece
  PROVE  <<p>> \in Pieces /\ Body!Size(<<p>>) = p.size
  <1> DEFINE f == [k \in 0..1 |-> IF k = 0 THEN 0 ELSE p.size]
  <1>1. <<p>> \in Pieces /\ Len(<<p>>) = 1 /\ <<p>>[1] = p
    BY DEF Pieces
  <1>2. p.size \in Nat
    BY PieceParts
  <1>3. Sums(<<p>>, f) /\ f[1] = p.size
    <2>1. f \in [0..1 -> Nat] /\ f[0] = 0 /\ f[1] = p.size
      BY <1>2
    <2>2. f[1] = f[1 - 1] + p.size
      BY <2>1, <1>2
    <2> HIDE DEF f
    <2>3. \A k \in 1..1 : f[k] = f[k - 1] + <<p>>[k].size
      BY <1>1, <2>2
    <2> QED
      BY <1>1, <2>1, <2>3 DEF Sums
  <1> HIDE DEF f
  <1> QED
    BY <1>1, <1>3, SizeIs

\* The stack after the first k pieces, from stack b.
Stacks(b, s, f) == /\ f \in [0..Len(s) -> Seq(Tag)] /\ f[0] = b
                   /\ \A k \in 1..Len(s) : f[k] = Body!Push(f[k - 1], s[k])

LEMMA PushType ==
  ASSUME NEW b \in Seq(Tag), NEW p \in Body!Piece
  PROVE  Body!Push(b, p) \in Seq(Tag)
  <1>1. p.kind = "open" => Append(b, p.tag) \in Seq(Tag)
    BY PieceParts
  <1>2. b # <<>> => Body!Front(b) \in Seq(Tag)
    BY DEF Body!Front
  <1> QED
    BY <1>1, <1>2 DEF Body!Push

LEMMA StacksExist ==
  ASSUME NEW b \in Seq(Tag), NEW s \in Pieces
  PROVE  \E f : Stacks(b, s, f)
  <1> DEFINE Good(n, f) == /\ f \in [0..n -> Seq(Tag)] /\ f[0] = b
                           /\ \A k \in 1..n : f[k] = Body!Push(f[k - 1], s[k])
             T == {n \in 0..Len(s) : ~\E f : Good(n, f)}
  <1>0. Len(s) \in Nat /\ \A k \in 1..Len(s) : s[k] \in Body!Piece
    BY DEF Pieces
  <1>1. SUFFICES ASSUME T # {} PROVE FALSE
    <2>1. \E f : Good(Len(s), f)
      <3> HIDE DEF Good
      <3> QED
        BY <1>0, <1>1
    <2> QED
      BY <2>1 DEF Stacks
  <1>2. PICK n \in T : \A m \in T : ~(m < n)
    <2>1. T \subseteq Nat
      BY <1>0
    <2> QED
      BY <1>1, <2>1, LeastElement
  <1>3. Good(0, [k \in 0..0 |-> b])
    OBVIOUS
  <1>4. n \in 1..Len(s) /\ n \in Nat /\ n - 1 \in 0..Len(s) /\ n - 1 < n
    <2> HIDE DEF Good
    <2>1. n # 0 /\ n \in 0..Len(s)
      BY <1>2, <1>3
    <2> QED
      BY <1>0, <2>1
  <1>5. PICK f : Good(n - 1, f)
    BY <1>2, <1>4
  <1> DEFINE top == Body!Push(f[n - 1], s[n])
             g == [k \in 0..n |-> IF k = n THEN top ELSE f[k]]
  <1>6. top \in Seq(Tag)
    <2>1. f[n - 1] \in Seq(Tag)
      BY <1>4, <1>5
    <2> QED
      BY <1>0, <1>4, <2>1, PushType
  <1>7. Good(n, g)
    <2>1. f \in [0..(n - 1) -> Seq(Tag)] /\ f[0] = b
      BY <1>5
    <2>2. \A k \in 1..(n - 1) : f[k] = Body!Push(f[k - 1], s[k])
      BY <1>5
    <2>3. g[n] = Body!Push(g[n - 1], s[n])
      BY <1>4
    <2> HIDE DEF top
    <2>4. g \in [0..n -> Seq(Tag)] /\ g[0] = b
      BY <1>4, <1>6, <2>1
    <2>5. ASSUME NEW k \in 1..n PROVE g[k] = Body!Push(g[k - 1], s[k])
      <3>1. CASE k = n
        BY <2>3, <3>1
      <3>2. CASE k # n
        BY <1>4, <3>2, <2>2
      <3> QED
        BY <3>1, <3>2
    <2> QED
      BY <2>4, <2>5
  <1> QED
    BY <1>2, <1>7

LEMMA StacksAgree ==
  ASSUME NEW b, NEW s \in Pieces, NEW t \in Pieces, NEW f, NEW g,
         Stacks(b, s, f), Stacks(b, t, g),
         NEW n \in Nat, n <= Len(s), n <= Len(t), \A k \in 1..n : s[k] = t[k]
  PROVE  \A k \in 0..n : f[k] = g[k]
  <1> DEFINE T == {k \in 0..n : f[k] # g[k]}
  <1> SUFFICES ASSUME T # {} PROVE FALSE
    OBVIOUS
  <1>1. PICK x \in T : \A y \in T : ~(y < x)
    <2>1. T \subseteq Nat
      OBVIOUS
    <2> QED
      BY <2>1, LeastElement
  <1>2. x \in 0..n /\ f[x] # g[x] /\ f[0] = g[0]
    BY DEF Stacks
  <1>3. x \in 1..n /\ x - 1 \in 0..n /\ x - 1 < x
    BY <1>2
  <1>4. f[x - 1] = g[x - 1]
    BY <1>1, <1>3
  <1>5. x \in 1..Len(s) /\ x \in 1..Len(t)
    BY <1>3 DEF Pieces
  <1>6. f[x] = Body!Push(f[x - 1], s[x]) /\ g[x] = Body!Push(g[x - 1], t[x])
    BY <1>5 DEF Stacks
  <1> QED
    BY <1>2, <1>3, <1>4, <1>6

LEMMA OpenTagsIs ==
  ASSUME NEW s \in Pieces, NEW f, Stacks(<<>>, s, f)
  PROVE  Body!OpenTags(s) = f[Len(s)]
  <1> DEFINE F(g, k) == IF k = 0 THEN <<>> ELSE Body!Push(g[k - 1], s[k])
             g == CHOOSE h : h = [k \in 0..Len(s) |-> F(h, k)]
  <1>0. Len(s) \in Nat
    BY DEF Pieces
  <1>1. f = [k \in 0..Len(s) |-> F(f, k)]
    <2>1. f = [k \in 0..Len(s) |-> f[k]]
      BY DEF Stacks
    <2>2. \A k \in 0..Len(s) : f[k] = F(f, k)
      BY <1>0 DEF Stacks
    <2> HIDE DEF F
    <2> QED
      BY <2>1, <2>2
  <1>2. g = [k \in 0..Len(s) |-> F(g, k)]
    BY <1>1
  <1>3. Body!OpenTags(s) = g[Len(s)]
    BY DEF Body!OpenTags
  <1> HIDE DEF g
  <1> DEFINE T == {k \in 0..Len(s) : f[k] # g[k]}
  <1>4. T = {}
    <2> SUFFICES ASSUME T # {} PROVE FALSE
      OBVIOUS
    <2>1. PICK x \in T : \A y \in T : ~(y < x)
      <3>1. T \subseteq Nat
        BY <1>0
      <3> QED
        BY <3>1, LeastElement
    <2>2. x \in 0..Len(s) /\ f[x] # g[x]
      OBVIOUS
    <2>3. g[x] = F(g, x) /\ f[x] = F(f, x)
      BY <1>1, <1>2, <2>2
    <2>4. x # 0 => x - 1 \in 0..Len(s) /\ x - 1 < x
      BY <1>0, <2>2
    <2>5. x # 0 => f[x - 1] = g[x - 1]
      BY <2>1, <2>4
    <2> QED
      BY <2>2, <2>3, <2>5
  <1> QED
    BY <1>0, <1>3, <1>4

-----------------------------------------------------------------------------
(* Truncation.                                                             *)

\* A body that is too long is cut after k pieces, or inside the next one.
CutAfter(s, n, k, c) ==
  LET kept == SubSeq(s, 1, k)
  IN  /\ k \in 0..(Len(s) - 1)
      /\ Body!Size(kept) <= n
      /\ Body!Size(SubSeq(s, 1, k + 1)) > n
      /\ \/ c = kept
         \/ \E p \in Body!Piece :
              /\ c = Append(kept, p)
              /\ p.kind = s[k + 1].kind /\ p.tag = s[k + 1].tag
              /\ p.size < s[k + 1].size
              /\ Body!Size(kept) + p.size = n

LEMMA PartOfPiece ==
  ASSUME NEW p \in Body!Piece, NEW n \in Nat \ {0}, n < p.size
  PROVE  LET q == [p EXCEPT !.size = n]
         IN  q \in Body!Piece /\ q.kind = p.kind /\ q.tag = p.tag /\ q.size = n
  <1>1. CASE p \in [kind : {"text", "raw"}, tag : Body!Special \union {""},
                   size : Nat \ {0}]
    BY <1>1 DEF Body!Piece
  <1>2. CASE p \in [kind : {"open", "close"}, tag : DOMAIN Body!Width,
                   size : Nat \ {0}]
    BY <1>2 DEF Body!Piece
  <1>3. CASE p \in [kind : {"entity"}, tag : Body!Special, size : 1..5]
    <2>1. n \in 1..5
      <3>1. p.size \in 1..5
        BY <1>3
      <3> QED
        BY <3>1
    <2>2. [p EXCEPT !.size = n] \in [kind : {"entity"}, tag : Body!Special, size : 1..5]
      BY <1>3, <2>1
    <2> QED
      BY <1>3, <2>2 DEF Body!Piece
  <1> QED
    BY <1>1, <1>2, <1>3 DEF Body!Piece

LEMMA CutIs ==
  ASSUME NEW s \in Pieces, NEW n \in Nat, Body!Size(s) > n
  PROVE  \E k \in Nat : CutAfter(s, n, k, Body!Cut(s, n))
  <1>1. PICK f : Sums(s, f)
    BY SumsExist
  <1> DEFINE m == Len(s)
             S == {i \in 0..m : Body!Size(SubSeq(s, 1, i)) <= n}
             k == Body!Max(S)
  <1>2. /\ m \in Nat /\ \A i \in 0..m : Body!Size(SubSeq(s, 1, i)) = f[i]
        /\ \A i \in 0..m : SubSeq(s, 1, i) \in Pieces /\ f[i] \in Nat
    <2>1. m \in Nat /\ f \in [0..m -> Nat]
      BY <1>1 DEF Pieces, Sums
    <2>2. \A i \in 0..m : SubSeq(s, 1, i) \in Pieces
                         /\ Body!Size(SubSeq(s, 1, i)) = f[i]
      BY <1>1, SizePrefix
    <2> QED
      BY <2>1, <2>2
  <1>3. f[0] = 0 /\ f[m] > n
    BY <1>1, SizeIs DEF Sums
  <1>4. 0 \in S /\ m \notin S
    BY <1>2, <1>3
  <1>5. \E x \in S : \A y \in S : x >= y
    <2> DEFINE T == {m - i : i \in S}
    <2>1. T \subseteq Nat /\ T # {}
      BY <1>2, <1>4
    <2>2. PICK x \in T : \A y \in T : ~(y < x)
      BY <2>1, LeastElement
    <2>3. PICK i \in S : x = m - i
      BY <2>2
    <2>4. \A y \in S : i >= y
      <3> SUFFICES ASSUME NEW y \in S PROVE i >= y
        OBVIOUS
      <3>1. m - y \in T /\ y \in 0..m /\ i \in 0..m
        OBVIOUS
      <3>2. ~(m - y < m - i)
        BY <2>2, <2>3, <3>1
      <3> QED
        BY <1>2, <3>1, <3>2
    <2> QED
      BY <2>3, <2>4
  <1>6. k \in S /\ \A y \in S : k >= y
    BY <1>5 DEF Body!Max
  <1> HIDE DEF k
  <1>7. /\ k \in 0..(m - 1) /\ k \in Nat /\ k + 1 \in 1..m /\ k + 1 \in 0..m
        /\ k \in 0..m /\ k + 1 \notin S
    BY <1>2, <1>4, <1>6
  <1> DEFINE kept == SubSeq(s, 1, k)
             rest == n - Body!Size(kept)
  <1>8. /\ kept \in Pieces /\ Body!Size(kept) = f[k] /\ f[k] \in Nat /\ f[k] <= n
        /\ Body!Size(SubSeq(s, 1, k + 1)) = f[k + 1] /\ f[k + 1] > n
        /\ f[k + 1] = f[k] + s[k + 1].size
    <2>1. f[k + 1] = f[(k + 1) - 1] + s[k + 1].size
      BY <1>1, <1>7 DEF Sums
    <2>2. (k + 1) - 1 = k
      BY <1>7
    <2>3. ~(f[k + 1] <= n) /\ f[k + 1] \in Nat
      BY <1>2, <1>7
    <2> QED
      BY <1>2, <1>6, <1>7, <2>1, <2>2, <2>3
  <1>9. Body!Cut(s, n) = IF rest = 0 \/ k = m THEN kept
                         ELSE Append(kept, [s[k + 1] EXCEPT !.size = rest])
    BY DEF Body!Cut, k
  <1>10. s[k + 1] \in Body!Piece
    BY <1>7 DEF Pieces
  <1> DEFINE q == [s[k + 1] EXCEPT !.size = rest]
  <1>11. CASE rest = 0
    BY <1>7, <1>8, <1>9, <1>11 DEF CutAfter
  <1>12. CASE rest # 0
    <2>1. rest \in Nat \ {0} /\ rest < s[k + 1].size
      <3>1. s[k + 1].size \in Nat
        BY <1>10, PieceParts
      <3> QED
        BY <1>8, <1>12, <3>1
    <2>2. /\ q \in Body!Piece /\ q.kind = s[k + 1].kind /\ q.tag = s[k + 1].tag
          /\ q.size = rest
      BY <1>10, <2>1, PartOfPiece
    <2>3. Body!Cut(s, n) = Append(kept, q)
      BY <1>7, <1>9, <1>12
    <2>4. Body!Size(kept) + q.size = n
      BY <1>8, <2>2
    <2> HIDE DEF q, rest
    <2> QED
      BY <1>7, <1>8, <2>1, <2>2, <2>3, <2>4 DEF CutAfter
  <1> QED
    BY <1>7, <1>11, <1>12

\* What is left of a cut when a partial tag is removed: whole pieces, and at
\* most a part of one that is not a tag.
LEMMA WithoutPartialTagIs ==
  ASSUME NEW s \in Pieces, \A i \in 1..Len(s) : Body!Whole(s[i]),
         NEW n \in Nat, NEW k \in Nat, NEW c, CutAfter(s, n, k, c)
  PROVE  LET kept == SubSeq(s, 1, k)
             w == Body!WithoutPartialTag(c)
         IN  /\ kept \in Pieces
             /\ \/ w = kept
                \/ \E p \in Body!Piece :
                     /\ w = Append(kept, p)
                     /\ ~Body!IsTag(p) /\ p.kind = s[k + 1].kind
                     /\ Body!Size(kept) + p.size = n
  <1> DEFINE kept == SubSeq(s, 1, k)
  <1>1. /\ k \in 0..Len(s) /\ k + 1 \in 1..Len(s) /\ kept \in Pieces
        /\ Len(kept) = k /\ \A i \in 1..k : kept[i] = s[i] /\ i \in 1..Len(s)
    BY DEF CutAfter, Pieces
  <1>2. CASE c = kept
    <2>1. kept # <<>> => Body!Whole(Body!Last(kept))
      BY <1>1 DEF Body!Last, Pieces
    <2>2. Body!WithoutPartialTag(c) = kept
      BY <1>2, <2>1 DEF Body!WithoutPartialTag
    <2> QED
      BY <1>1, <2>2
  <1>3. ASSUME NEW p \in Body!Piece, c = Append(kept, p),
               p.kind = s[k + 1].kind, p.tag = s[k + 1].tag,
               p.size < s[k + 1].size, Body!Size(kept) + p.size = n
        PROVE  \/ Body!WithoutPartialTag(c) = kept
               \/ Body!WithoutPartialTag(c) = c /\ ~Body!IsTag(p)
    <2> HIDE DEF kept
    <2>1. c # <<>> /\ Body!Last(c) = p /\ Body!Front(c) = kept
      <3>1. /\ Len(c) = k + 1 /\ c[k + 1] = p
            /\ c \in Pieces /\ \A i \in 1..k : c[i] = kept[i]
        BY <1>1, <1>3 DEF Pieces
      <3>2. Body!Front(c) = kept
        <4>1. Body!Front(c) = SubSeq(c, 1, k)
          BY <3>1 DEF Body!Front
        <4>2. SubSeq(c, 1, k) \in Pieces /\ Len(SubSeq(c, 1, k)) = k
          BY <3>1 DEF Pieces
        <4>3. \A i \in 1..k : SubSeq(c, 1, k)[i] = kept[i]
          BY <3>1 DEF Pieces
        <4> QED
          BY <1>1, <4>1, <4>2, <4>3 DEF Pieces
      <3> QED
        BY <3>1, <3>2 DEF Body!Last, Pieces
    <2>2. Body!IsTag(p) => ~Body!Whole(p)
      <3>1. Body!Whole(s[k + 1])
        BY <1>1
      <3>2. p.size \in Nat /\ s[k + 1].size \in Nat /\ p.size # s[k + 1].size
        BY <1>1, <1>3, PieceParts DEF Pieces
      <3>3. ASSUME p.kind = "open" PROVE ~Body!Whole(p)
        <4>1. s[k + 1] = Body!Open(s[k + 1].tag)
          BY <1>3, <3>1, <3>3 DEF Body!Whole
        <4>2. p # Body!Open(p.tag)
          BY <1>3, <3>2, <4>1
        <4> QED
          BY <3>3, <4>2 DEF Body!Whole
      <3>4. ASSUME p.kind = "close" PROVE ~Body!Whole(p)
        <4>1. s[k + 1] = Body!Close(s[k + 1].tag)
          BY <1>3, <3>1, <3>4 DEF Body!Whole
        <4>2. p # Body!Close(p.tag)
          BY <1>3, <3>2, <4>1
        <4> QED
          BY <3>4, <4>2 DEF Body!Whole
      <3> QED
        BY <3>3, <3>4 DEF Body!IsTag
    <2> QED
      BY <2>1, <2>2 DEF Body!WithoutPartialTag
  <1> QED
    BY <1>1, <1>2, <1>3 DEF CutAfter

-----------------------------------------------------------------------------
(* Nested tags.                                                            *)

\* Every closing tag closes the last one open.
Matched(s, f) ==
  \A k \in 1..Len(s) : s[k].kind = "close" =>
    f[k - 1] # <<>> /\ Body!Last(f[k - 1]) = s[k].tag

\* The pieces take the stack from b to c, and every closing tag closes the
\* last one open.
Path(b, s, c) == \E f : Stacks(b, s, f) /\ f[Len(s)] = c /\ Matched(s, f)

LEMMA PathConcat ==
  ASSUME NEW b, NEW c, NEW d, NEW s \in Pieces, NEW t \in Pieces,
         Path(b, s, c), Path(c, t, d)
  PROVE  Path(b, s \o t, d)
  <1>1. PICK f : Stacks(b, s, f) /\ f[Len(s)] = c /\ Matched(s, f)
    BY DEF Path
  <1>2. PICK g : Stacks(c, t, g) /\ g[Len(t)] = d /\ Matched(t, g)
    BY DEF Path
  <1> DEFINE m == Len(s)
             n == Len(t)
             h == [k \in 0..(m + n) |-> IF k <= m THEN f[k] ELSE g[k - m]]
  <1>3. /\ m \in Nat /\ n \in Nat /\ s \o t \in Pieces /\ Len(s \o t) = m + n
        /\ \A k \in 1..(m + n) : (s \o t)[k] = IF k <= m THEN s[k] ELSE t[k - m]
    BY DEF Pieces
  <1>4. /\ f \in [0..m -> Seq(Tag)] /\ f[0] = b /\ f[m] = c
        /\ g \in [0..n -> Seq(Tag)] /\ g[0] = c /\ g[n] = d
        /\ \A k \in 1..m : f[k] = Body!Push(f[k - 1], s[k])
        /\ \A k \in 1..n : g[k] = Body!Push(g[k - 1], t[k])
    BY <1>1, <1>2 DEF Stacks
  <1>5. /\ \A k \in 1..m : s[k].kind = "close" =>
             f[k - 1] # <<>> /\ Body!Last(f[k - 1]) = s[k].tag
        /\ \A k \in 1..n : t[k].kind = "close" =>
             g[k - 1] # <<>> /\ Body!Last(g[k - 1]) = t[k].tag
    BY <1>1, <1>2 DEF Matched
  <1> HIDE DEF m, n
  <1>6. h \in [0..(m + n) -> Seq(Tag)] /\ h[0] = b
    <2>1. \A k \in 0..(m + n) :
            (IF k <= m THEN f[k] ELSE g[k - m]) \in Seq(Tag)
      BY <1>3, <1>4
    <2> QED
      BY <1>3, <1>4, <2>1
  <1>7. \A k \in 0..m : h[k] = f[k]
    BY <1>3
  <1>8. \A k \in 0..n : h[k + m] = g[k]
    <2> SUFFICES ASSUME NEW k \in 0..n PROVE h[k + m] = g[k]
      OBVIOUS
    <2>1. CASE k = 0
      BY <1>3, <1>4, <1>7, <2>1
    <2>2. CASE k # 0
      <3>1. k + m \in 0..(m + n) /\ ~(k + m <= m) /\ (k + m) - m = k
        BY <1>3, <2>2
      <3> QED
        BY <3>1
    <2> QED
      BY <2>1, <2>2
  <1> HIDE DEF h
  <1>9. ASSUME NEW k \in 1..(m + n)
        PROVE  /\ h[k] = Body!Push(h[k - 1], (s \o t)[k])
               /\ (s \o t)[k].kind = "close" =>
                    h[k - 1] # <<>> /\ Body!Last(h[k - 1]) = (s \o t)[k].tag
    <2>1. CASE k <= m
      <3>1. k \in 1..m /\ k \in 0..m /\ k - 1 \in 0..m
        BY <1>3, <2>1
      <3>2. h[k] = f[k] /\ h[k - 1] = f[k - 1]
        BY <1>7, <3>1
      <3>3. (s \o t)[k] = s[k]
        BY <1>3, <2>1
      <3> QED
        BY <1>4, <1>5, <3>1, <3>2, <3>3
    <2>2. CASE k > m
      <3>1. k - m \in 1..n /\ (k - m) - 1 \in 0..n /\ (k - m) + m = k
            /\ ((k - m) - 1) + m = k - 1
        BY <1>3, <2>2
      <3>2. h[k] = g[k - m] /\ h[k - 1] = g[(k - m) - 1]
        BY <1>8, <3>1
      <3>3. (s \o t)[k] = t[k - m]
        BY <1>3, <2>2
      <3> QED
        BY <1>4, <1>5, <3>1, <3>2, <3>3
    <2> QED
      BY <1>3, <2>1, <2>2
  <1>10. h[m + n] = d
    BY <1>3, <1>4, <1>8
  <1>11. Stacks(b, s \o t, h)
    BY <1>3, <1>6, <1>9 DEF Stacks
  <1>12. Matched(s \o t, h)
    BY <1>3, <1>9 DEF Matched
  <1> QED
    BY <1>3, <1>10, <1>11, <1>12 DEF Path

LEMMA PathNothing ==
  ASSUME NEW b \in Seq(Tag)
  PROVE  <<>> \in Pieces /\ Path(b, <<>>, b)
  <1> DEFINE f == [k \in 0..0 |-> b]
  <1>1. Stacks(b, <<>>, f) /\ f[Len(<<>>)] = b /\ Matched(<<>>, f)
    BY DEF Stacks, Matched
  <1> QED
    BY <1>1 DEF Path, Pieces

LEMMA PathOne ==
  ASSUME NEW b \in Seq(Tag), NEW p \in Body!Piece,
         p.kind = "close" => b # <<>> /\ Body!Last(b) = p.tag
  PROVE  <<p>> \in Pieces /\ Path(b, <<p>>, Body!Push(b, p))
  <1> DEFINE c == Body!Push(b, p)
             f == [k \in 0..1 |-> IF k = 0 THEN b ELSE c]
  <1>1. <<p>> \in Pieces /\ Len(<<p>>) = 1 /\ <<p>>[1] = p
    BY DEF Pieces
  <1>2. c \in Seq(Tag)
    BY PushType
  <1>3. f[0] = b /\ f[1] = c
    OBVIOUS
  <1>4. f \in [0..1 -> Seq(Tag)]
    <2> HIDE DEF c
    <2> QED
      BY <1>2
  <1>5. \A k \in 1..1 : k = 1 /\ k - 1 = 0
    OBVIOUS
  <1> HIDE DEF f
  <1>6. Stacks(b, <<p>>, f) /\ Matched(<<p>>, f)
    BY <1>1, <1>3, <1>4, <1>5 DEF Stacks, Matched
  <1> QED
    BY <1>1, <1>3, <1>6 DEF Path

LEMMA PathKept ==
  ASSUME NEW b \in Seq(Tag), NEW p \in Body!Piece, ~Body!IsTag(p)
  PROVE  <<p>> \in Pieces /\ Path(b, <<p>>, b)
  <1>1. p.kind \notin {"open", "close"}
    BY DEF Body!IsTag
  <1>2. Body!Push(b, p) = b
    BY <1>1 DEF Body!Push
  <1> QED
    BY <1>1, <1>2, PathOne

\* The closing tags undo the stack.
CloseAll(b) == [i \in 1..Len(b) |-> Body!Close(Body!Reverse(b)[i])]

LEMMA CloseParts ==
  ASSUME NEW t \in Tag
  PROVE  /\ Body!Close(t) \in Body!Piece /\ Body!Open(t) \in Body!Piece
         /\ Body!Whole(Body!Close(t)) /\ Body!Whole(Body!Open(t))
         /\ Body!Close(t).kind = "close" /\ Body!Close(t).tag = t
         /\ Body!Open(t).kind = "open" /\ Body!Open(t).tag = t
  <1>1. DOMAIN Body!Width = Tag /\ Body!Width[t] \in Nat
    BY DEF Body!Width, Tag
  <1>2. /\ Body!Close(t).kind = "close" /\ Body!Close(t).tag = t
        /\ Body!Open(t).kind = "open" /\ Body!Open(t).tag = t
    BY DEF Body!Close, Body!Open
  <1>3. /\ Body!Width[t] + 3 \in Nat \ {0} /\ Body!Width[t] + 2 \in Nat \ {0}
    BY <1>1
  <1>4. /\ Body!Close(t) \in [kind : {"open", "close"}, tag : Tag, size : Nat \ {0}]
        /\ Body!Open(t) \in [kind : {"open", "close"}, tag : Tag, size : Nat \ {0}]
    BY <1>3 DEF Body!Close, Body!Open
  <1>5. Body!Whole(Body!Close(t)) /\ Body!Whole(Body!Open(t))
    BY <1>2 DEF Body!Whole
  <1> QED
    BY <1>1, <1>2, <1>4, <1>5 DEF Body!Piece

LEMMA CloseAllIs ==
  ASSUME NEW b \in Seq(Tag)
  PROVE  /\ CloseAll(b) \in Pieces /\ Len(CloseAll(b)) = Len(b)
         /\ \A i \in 1..Len(b) : /\ b[Len(b) - i + 1] \in Tag
                                 /\ CloseAll(b)[i] = Body!Close(b[Len(b) - i + 1])
  <1>1. Len(b) \in Nat /\ \A i \in 1..Len(b) : Len(b) - i + 1 \in 1..Len(b)
    OBVIOUS
  <1>2. \A i \in 1..Len(b) : /\ b[Len(b) - i + 1] \in Tag
                             /\ Body!Reverse(b)[i] = b[Len(b) - i + 1]
    BY <1>1 DEF Body!Reverse
  <1>3. \A i \in 1..Len(b) : Body!Close(Body!Reverse(b)[i]) \in Body!Piece
    BY <1>2, CloseParts
  <1>4. CloseAll(b) \in Pieces /\ Len(CloseAll(b)) = Len(b)
    BY <1>1, <1>3 DEF CloseAll, Pieces
  <1>5. \A i \in 1..Len(b) : CloseAll(b)[i] = Body!Close(b[Len(b) - i + 1])
    BY <1>2 DEF CloseAll
  <1> QED
    BY <1>2, <1>4, <1>5

LEMMA PathCloseAll ==
  ASSUME NEW b \in Seq(Tag)
  PROVE  Path(b, CloseAll(b), <<>>)
  <1> DEFINE n == Len(b)
             f == [k \in 0..n |-> SubSeq(b, 1, n - k)]
             s == CloseAll(b)
  <1>1. /\ n \in Nat /\ s \in Pieces /\ Len(s) = n
        /\ \A i \in 1..n : b[n - i + 1] \in Tag /\ s[i] = Body!Close(b[n - i + 1])
    BY CloseAllIs
  <1>2. \A k \in 0..n : f[k] \in Seq(Tag) /\ f[k] = SubSeq(b, 1, n - k)
    BY <1>1
  <1>3. f \in [0..n -> Seq(Tag)] /\ f[0] = b /\ f[n] = <<>>
    <2>1. SubSeq(b, 1, n - 0) = b /\ SubSeq(b, 1, n - n) = <<>>
      BY <1>1
    <2> QED
      BY <1>1, <1>2, <2>1
  <1> HIDE DEF f, n, s
  <1>4. ASSUME NEW k \in 1..n
        PROVE  /\ f[k] = Body!Push(f[k - 1], s[k])
               /\ f[k - 1] # <<>> /\ Body!Last(f[k - 1]) = s[k].tag
    <2>1. /\ k - 1 \in 0..n /\ k \in 0..n /\ n - (k - 1) \in 1..n
          /\ n - (k - 1) = n - k + 1 /\ n - k \in 0..n
      BY <1>1
    <2> DEFINE top == n - k + 1
               q == SubSeq(b, 1, top)
    <2>2. top \in 1..n /\ top - 1 = n - k /\ top \in Nat
      BY <1>1
    <2>3. /\ q \in Seq(Tag) /\ Len(q) = top /\ q # <<>> /\ q[top] = b[top]
          /\ SubSeq(q, 1, top - 1) = SubSeq(b, 1, top - 1)
      <3>1. q \in Seq(Tag) /\ Len(q) = top /\ q # <<>> /\ q[top] = b[top]
        BY <2>2 DEF n
      <3>2. SubSeq(q, 1, top - 1) = SubSeq(b, 1, top - 1)
        <4>1. /\ SubSeq(q, 1, top - 1) \in Seq(Tag)
              /\ Len(SubSeq(q, 1, top - 1)) = top - 1
              /\ SubSeq(b, 1, top - 1) \in Seq(Tag)
              /\ Len(SubSeq(b, 1, top - 1)) = top - 1
          BY <2>2, <3>1 DEF n
        <4>2. \A i \in 1..(top - 1) :
                SubSeq(q, 1, top - 1)[i] = SubSeq(b, 1, top - 1)[i]
          BY <2>2, <3>1 DEF n
        <4> QED
          BY <4>1, <4>2, SeqEqual
      <3> QED
        BY <3>1, <3>2
    <2> HIDE DEF q
    <2>4. f[k - 1] = q /\ f[k] = SubSeq(q, 1, top - 1)
      BY <1>2, <2>1, <2>2, <2>3 DEF q
    <2>5. s[k].kind = "close" /\ s[k].tag = b[top]
      BY <1>1, CloseParts
    <2>6. Body!Last(q) = b[top] /\ Body!Front(q) = SubSeq(q, 1, top - 1)
      BY <2>3 DEF Body!Last, Body!Front
    <2> QED
      BY <2>3, <2>4, <2>5, <2>6 DEF Body!Push
  <1>5. Stacks(b, s, f) /\ Matched(s, f) /\ f[Len(s)] = <<>>
    BY <1>1, <1>3, <1>4 DEF Stacks, Matched
  <1> QED
    BY <1>5 DEF Path, s

LEMMA OpenTagsOfPath ==
  ASSUME NEW s \in Pieces, NEW c, Path(<<>>, s, c)
  PROVE  /\ Body!OpenTags(s) = c /\ c \in Seq(Tag)
         /\ Body!Closers(s) = CloseAll(c)
  <1>1. PICK f : Stacks(<<>>, s, f) /\ f[Len(s)] = c
    BY DEF Path
  <1>2. Body!OpenTags(s) = c
    BY <1>1, OpenTagsIs
  <1>3. c \in Seq(Tag)
    BY <1>1 DEF Stacks, Pieces
  <1>4. Len(Body!Reverse(c)) = Len(c)
    BY <1>3 DEF Body!Reverse
  <1> QED
    BY <1>2, <1>3, <1>4 DEF Body!Closers, CloseAll

\* A beginning of a nested body.
LEMMA PathPrefix ==
  ASSUME NEW b, NEW s \in Pieces, NEW d, Path(b, s, d), NEW k \in 0..Len(s)
  PROVE  \E c \in Seq(Tag) : Path(b, SubSeq(s, 1, k), c)
  <1>1. PICK f : Stacks(b, s, f) /\ Matched(s, f)
    BY DEF Path
  <1> DEFINE t == SubSeq(s, 1, k)
             g == [i \in 0..k |-> f[i]]
  <1>2. /\ k \in Nat /\ Len(s) \in Nat /\ t \in Pieces /\ Len(t) = k
        /\ \A i \in 1..k : t[i] = s[i] /\ i \in 1..Len(s) /\ i \in 0..k /\ i - 1 \in 0..k
    BY DEF Pieces
  <1>3. f \in [0..Len(s) -> Seq(Tag)] /\ f[0] = b
    BY <1>1 DEF Stacks
  <1>4. g \in [0..k -> Seq(Tag)] /\ g[0] = b /\ \A i \in 0..k : g[i] = f[i]
    BY <1>2, <1>3
  <1> HIDE DEF t, g
  <1>5. Stacks(b, t, g) /\ Matched(t, g)
    BY <1>1, <1>2, <1>4 DEF Stacks, Matched
  <1> QED
    BY <1>2, <1>4, <1>5 DEF Path, t

LEMMA BeginningLength ==
  ASSUME NEW q \in Seq(Tag), NEW n \in Nat, n <= Len(q)
  PROVE  Len(SubSeq(q, 1, n)) = n
  OBVIOUS

\* What one piece does to the stack.
Steps(s, f, k) ==
  /\ f[k - 1] \in Seq(Tag) /\ f[k] \in Seq(Tag)
  /\ s[k].kind = "open" =>
       /\ Len(f[k]) = Len(f[k - 1]) + 1
       /\ f[k][Len(f[k - 1]) + 1] = s[k].tag
       /\ \A x \in 1..Len(f[k - 1]) : f[k][x] = f[k - 1][x]
  /\ s[k].kind = "close" =>
       /\ Len(f[k - 1]) = Len(f[k]) + 1
       /\ f[k - 1][Len(f[k]) + 1] = s[k].tag
       /\ \A x \in 1..Len(f[k]) : f[k][x] = f[k - 1][x]
  /\ s[k].kind \notin {"open", "close"} => f[k] = f[k - 1]

LEMMA StackStep ==
  ASSUME NEW b, NEW s \in Pieces, NEW f, Stacks(b, s, f), Matched(s, f),
         NEW k \in 1..Len(s)
  PROVE  Steps(s, f, k)
  <1> DEFINE old == f[k - 1]
             new == f[k]
  <1>1. /\ k \in 0..Len(s) /\ k - 1 \in 0..Len(s) /\ s[k] \in Body!Piece
    BY DEF Pieces
  <1>2. old \in Seq(Tag) /\ new \in Seq(Tag) /\ new = Body!Push(old, s[k])
    BY <1>1 DEF Stacks
  <1>3. s[k].kind = "close" => old # <<>> /\ Body!Last(old) = s[k].tag
    BY DEF Matched
  <1> HIDE DEF old, new
  <1>4. CASE s[k].kind = "open"
    <2>1. new = Append(old, s[k].tag) /\ s[k].tag \in Tag
      BY <1>1, <1>2, <1>4, PieceParts DEF Body!Push
    <2> QED
      BY <1>2, <1>4, <2>1 DEF Steps, old, new
  <1>5. CASE s[k].kind = "close"
    <2>1. new = SubSeq(old, 1, Len(old) - 1) /\ old[Len(old)] = s[k].tag
      BY <1>2, <1>3, <1>5 DEF Body!Push, Body!Front, Body!Last
    <2>2. Len(old) \in Nat \ {0} /\ Len(new) = Len(old) - 1
      <3>1. Len(old) \in Nat \ {0}
        BY <1>2, <1>3, <1>5
      <3>2. Len(old) - 1 \in Nat /\ Len(old) - 1 <= Len(old)
        BY <3>1
      <3>3. Len(SubSeq(old, 1, Len(old) - 1)) = Len(old) - 1
        BY <1>2, <3>2, BeginningLength
      <3> QED
        BY <2>1, <3>1, <3>3
    <2>3. \A x \in 1..Len(new) : new[x] = old[x]
      BY <1>2, <2>1, <2>2
    <2>4. Len(old) = Len(new) + 1 /\ old[Len(new) + 1] = s[k].tag
      BY <2>1, <2>2
    <2> QED
      BY <1>2, <1>5, <2>3, <2>4 DEF Steps, old, new
  <1>6. CASE s[k].kind \notin {"open", "close"}
    <2>1. new = old
      BY <1>2, <1>6 DEF Body!Push
    <2> QED
      BY <1>2, <1>6, <2>1 DEF Steps, old, new
  <1> QED
    BY <1>4, <1>5, <1>6

\* From i to k: the tags t that are opened, and closed; on the stack after k,
\* those above the first d.
Opened(s, i, k, t) == {x \in i..k : s[x] = Body!Open(t)}
Shut(s, i, k, t) == {x \in i..k : s[x] = Body!Close(t)}
Above(f, d, k, t) == {x \in (d + 1)..Len(f[k]) : f[k][x] = t}

Counted(s, f, i, d, k, t) ==
  Cardinality(Opened(s, i, k, t))
    = Cardinality(Shut(s, i, k, t)) + Cardinality(Above(f, d, k, t))

LEMMA FiniteRange ==
  ASSUME NEW m \in Int, NEW n \in Int, NEW S, S \subseteq m..n
  PROVE  IsFiniteSet(S) /\ Cardinality(S) \in Nat
  <1>1. IsFiniteSet(m..n)
    BY FS_Interval
  <1> QED
    BY <1>1, FS_Subset, FS_CardinalityType

LEMMA CountsFinite ==
  ASSUME NEW s \in Pieces, NEW b, NEW f, Stacks(b, s, f), NEW t,
         NEW i \in Nat, NEW d \in Nat, NEW k \in 0..Len(s)
  PROVE  /\ IsFiniteSet(Opened(s, i, k, t))
         /\ IsFiniteSet(Shut(s, i, k, t))
         /\ IsFiniteSet(Above(f, d, k, t))
         /\ Cardinality(Opened(s, i, k, t)) \in Nat
         /\ Cardinality(Shut(s, i, k, t)) \in Nat
         /\ Cardinality(Above(f, d, k, t)) \in Nat
  <1>1. k \in Int /\ i \in Int /\ d + 1 \in Int /\ Len(f[k]) \in Int
    <2>1. f[k] \in Seq(Tag)
      BY DEF Stacks
    <2> QED
      BY <2>1 DEF Pieces
  <1>2. Opened(s, i, k, t) \subseteq i..k /\ Shut(s, i, k, t) \subseteq i..k
    BY DEF Opened, Shut
  <1>3. Above(f, d, k, t) \subseteq (d + 1)..Len(f[k])
    BY DEF Above
  <1> QED
    BY <1>1, <1>2, <1>3, FiniteRange

\* Opened, less closed, is what is above.
LEMMA CountStep ==
  ASSUME NEW s \in Pieces, NEW b, NEW f, Stacks(b, s, f), Matched(s, f),
         \A x \in 1..Len(s) : Body!IsTag(s[x]) => Body!Whole(s[x]),
         NEW i \in Nat, NEW d \in Nat, NEW k \in 1..Len(s), i <= k,
         Len(f[k - 1]) >= d, Len(f[k]) >= d,
         NEW t \in Tag, Counted(s, f, i, d, k - 1, t)
  PROVE  Counted(s, f, i, d, k, t)
  <1> DEFINE O == Opened(s, i, k - 1, t)
             C == Shut(s, i, k - 1, t)
             U == Above(f, d, k - 1, t)
             n == Len(f[k - 1])
             m == Len(f[k])
  <1>1. k - 1 \in 0..Len(s) /\ k \in 0..Len(s) /\ k \in Nat
    BY DEF Pieces
  <1>2. /\ IsFiniteSet(O) /\ IsFiniteSet(C) /\ IsFiniteSet(U)
        /\ Cardinality(O) \in Nat /\ Cardinality(C) \in Nat /\ Cardinality(U) \in Nat
    BY <1>1, CountsFinite
  <1>3. Cardinality(O) = Cardinality(C) + Cardinality(U)
    BY DEF Counted
  <1>4. /\ s[k].kind = "open" => s[k] = Body!Open(s[k].tag)
        /\ s[k].kind = "close" => s[k] = Body!Close(s[k].tag)
    BY DEF Body!IsTag, Body!Whole
  <1>5. /\ s[k] = Body!Open(t) <=> s[k].kind = "open" /\ s[k].tag = t
        /\ s[k] = Body!Close(t) <=> s[k].kind = "close" /\ s[k].tag = t
    BY <1>4, CloseParts
  <1>6. i..k = (i..(k - 1)) \union {k} /\ k \notin i..(k - 1)
    BY <1>1
  <1>7. /\ Opened(s, i, k, t) = IF s[k] = Body!Open(t) THEN O \union {k} ELSE O
        /\ Shut(s, i, k, t) = IF s[k] = Body!Close(t) THEN C \union {k} ELSE C
        /\ k \notin O /\ k \notin C
    BY <1>6 DEF Opened, Shut
  <1>8. /\ Cardinality(Opened(s, i, k, t)) =
             Cardinality(O) + (IF s[k] = Body!Open(t) THEN 1 ELSE 0)
        /\ Cardinality(Shut(s, i, k, t)) =
             Cardinality(C) + (IF s[k] = Body!Close(t) THEN 1 ELSE 0)
    <2>1. /\ Cardinality(O \union {k}) = Cardinality(O) + 1
          /\ Cardinality(C \union {k}) = Cardinality(C) + 1
      BY <1>2, <1>7, FS_AddElement
    <2> HIDE DEF O, C
    <2> QED
      BY <1>2, <1>7, <2>1
  <1>9. Steps(s, f, k)
    BY StackStep
  <1>10. /\ f[k - 1] \in Seq(Tag) /\ f[k] \in Seq(Tag) /\ n \in Nat /\ m \in Nat
    BY <1>9 DEF Steps
  <1>11. CASE s[k].kind = "open"
    <2>1. /\ m = n + 1 /\ f[k][n + 1] = s[k].tag
          /\ \A x \in 1..n : f[k][x] = f[k - 1][x]
      BY <1>11, <1>9 DEF Steps
    <2>2. Above(f, d, k, t) = IF s[k].tag = t THEN U \union {n + 1} ELSE U
      <3>1. \A x : x \in (d + 1)..m <=> x \in (d + 1)..n \/ x = n + 1
        BY <1>10, <2>1, SMTT(30)
      <3>2. \A x \in (d + 1)..n : f[k][x] = f[k - 1][x]
        BY <1>10, <2>1
      <3> QED
        BY <2>1, <3>1, <3>2 DEF Above
    <2>3. n + 1 \notin U
      BY <1>10 DEF Above
    <2>4. Cardinality(U \union {n + 1}) = Cardinality(U) + 1
      BY <1>2, <2>3, FS_AddElement
    <2> HIDE DEF U, O, C, n, m
    <2> QED
      BY <1>2, <1>3, <1>5, <1>8, <1>11, <2>2, <2>4 DEF Counted
  <1>12. CASE s[k].kind = "close"
    <2>1. /\ n = m + 1 /\ f[k - 1][m + 1] = s[k].tag
          /\ \A x \in 1..m : f[k][x] = f[k - 1][x]
      BY <1>12, <1>9 DEF Steps
    <2>2. U = IF s[k].tag = t THEN Above(f, d, k, t) \union {m + 1}
              ELSE Above(f, d, k, t)
      <3>1. \A x : x \in (d + 1)..n <=> x \in (d + 1)..m \/ x = m + 1
        BY <1>10, <2>1, SMTT(40)
      <3>2. \A x \in (d + 1)..m : f[k][x] = f[k - 1][x]
        BY <1>10, <2>1
      <3> QED
        BY <2>1, <3>1, <3>2 DEF Above
    <2>3. m + 1 \notin Above(f, d, k, t)
      BY <1>10 DEF Above
    <2>4. /\ Cardinality(Above(f, d, k, t) \union {m + 1})
               = Cardinality(Above(f, d, k, t)) + 1
          /\ Cardinality(Above(f, d, k, t)) \in Nat
      BY <1>1, <2>3, CountsFinite, FS_AddElement
    <2> HIDE DEF U, O, C, n, m
    <2>5. Cardinality(Opened(s, i, k, t)) = Cardinality(O)
      BY <1>2, <1>5, <1>8, <1>12
    <2>6. CASE s[k].tag = t
      <3>1. Cardinality(Shut(s, i, k, t)) = Cardinality(C) + 1
        BY <1>5, <1>8, <1>12, <2>6
      <3>2. Cardinality(U) = Cardinality(Above(f, d, k, t)) + 1
        BY <2>2, <2>4, <2>6
      <3> QED
        BY <1>2, <1>3, <2>4, <2>5, <3>1, <3>2 DEF Counted
    <2>7. CASE s[k].tag # t
      <3>1. Cardinality(Shut(s, i, k, t)) = Cardinality(C)
        BY <1>2, <1>5, <1>8, <1>12, <2>7
      <3> QED
        BY <1>3, <2>2, <2>5, <2>7, <3>1 DEF Counted
    <2> QED
      BY <2>6, <2>7
  <1>13. CASE s[k].kind \notin {"open", "close"}
    <2>1. f[k] = f[k - 1]
      BY <1>13, <1>9 DEF Steps
    <2>2. Above(f, d, k, t) = U
      BY <2>1 DEF Above
    <2> HIDE DEF U, O, C, n, m
    <2> QED
      BY <1>2, <1>3, <1>5, <1>8, <1>13, <2>2 DEF Counted
  <1> QED
    BY <1>11, <1>12, <1>13

\* What TagsBalanced asks of a pair of tags, and of a body.
Closing(s, i, j) ==
  /\ s[i].kind = "open" /\ s[j].kind = "close" /\ s[i].tag = s[j].tag
  /\ \A t \in DOMAIN Body!Width :
       Cardinality({k \in i..j : s[k] = Body!Open(t)})
         = Cardinality({k \in i..j : s[k] = Body!Close(t)})

Balanced(s) ==
  /\ \A i \in 1..Len(s) : Body!IsTag(s[i]) => Body!Whole(s[i])
  /\ \A i \in 1..Len(s) :
       s[i].kind = "open" => \E j \in i..Len(s) : Closing(s, i, j)
  /\ \A j \in 1..Len(s) :
       s[j].kind = "close" => \E i \in 1..j : Closing(s, i, j)

\* A depth that goes by ones reaches d before it passes d.
LEMMA Depths ==
  /\ \A p, q \in Nat : p > q => q + 1 \in 1..p
  /\ \A p, q, d \in Nat :
       p > d /\ q <= d /\ (q = p + 1 \/ p = q + 1 \/ p = q) => q = d
  OBVIOUS

\* The stack is as deep before i as after j, and deeper in between.
LEMMA PairCloses ==
  ASSUME NEW s \in Pieces, NEW f, Stacks(<<>>, s, f), Matched(s, f),
         \A x \in 1..Len(s) : Body!IsTag(s[x]) => Body!Whole(s[x]),
         NEW i \in 1..Len(s), NEW j \in 1..Len(s), i < j,
         Len(f[i - 1]) = Len(f[j]),
         \A k \in i..(j - 1) : Len(f[k]) > Len(f[j])
  PROVE  Closing(s, i, j)
  <1> DEFINE d == Len(f[j])
  <1>1. /\ f \in [0..Len(s) -> Seq(Tag)] /\ i \in Nat /\ j \in Nat /\ Len(s) \in Nat
        /\ i - 1 \in 0..Len(s) /\ j - 1 \in 1..Len(s) /\ i \in 0..Len(s)
        /\ i \in i..(j - 1) /\ j - 1 \in i..(j - 1) /\ j \in 0..Len(s)
        /\ j - 1 \in 0..Len(s) /\ i \in 1..Len(s) /\ j \in 1..Len(s)
    BY DEF Stacks, Pieces
  <1>2. d \in Nat /\ \A k \in 0..Len(s) : f[k] \in Seq(Tag) /\ Len(f[k]) \in Nat
    BY <1>1
  <1>3. /\ Len(f[i - 1]) = d /\ Len(f[i]) > d /\ Len(f[j - 1]) > d
        /\ \A k \in i..(j - 1) : Len(f[k]) > d
    BY <1>1
  <1> HIDE DEF d
  <1>4. s[i].kind = "open" /\ f[i][d + 1] = s[i].tag
    <2>0. Steps(s, f, i)
      BY StackStep
    <2>1. s[i].kind = "close" => Len(f[i - 1]) = Len(f[i]) + 1
      BY <2>0 DEF Steps
    <2>2. s[i].kind \notin {"open", "close"} => f[i] = f[i - 1]
      BY <2>0 DEF Steps
    <2>3. s[i].kind = "open" => f[i][Len(f[i - 1]) + 1] = s[i].tag
      BY <2>0 DEF Steps
    <2>4. s[i].kind = "open"
      BY <1>1, <1>2, <1>3, <2>1, <2>2
    <2> QED
      BY <1>3, <2>3, <2>4
  <1>5. s[j].kind = "close" /\ f[j - 1][d + 1] = s[j].tag
    <2>0. Steps(s, f, j)
      BY StackStep
    <2>1. s[j].kind = "open" => Len(f[j]) = Len(f[j - 1]) + 1
      BY <2>0 DEF Steps
    <2>2. s[j].kind \notin {"open", "close"} => f[j] = f[j - 1]
      BY <2>0 DEF Steps
    <2>3. s[j].kind = "close" => f[j - 1][Len(f[j]) + 1] = s[j].tag
      BY <2>0 DEF Steps
    <2>4. Len(f[j]) = d
      BY DEF d
    <2>5. s[j].kind = "close"
      BY <1>1, <1>2, <1>3, <2>1, <2>2, <2>4
    <2> QED
      BY <2>3, <2>4, <2>5
  <1>6. \A k \in i..(j - 1) : f[k][d + 1] = s[i].tag
    <2> DEFINE T == {k \in i..(j - 1) : f[k][d + 1] # s[i].tag}
    <2> SUFFICES ASSUME T # {} PROVE FALSE
      OBVIOUS
    <2>1. PICK x \in T : \A y \in T : ~(y < x)
      <3>1. T \subseteq Nat
        BY <1>1
      <3> QED
        BY <3>1, LeastElement
    <2>2. x \in i..(j - 1) /\ f[x][d + 1] # s[i].tag
      OBVIOUS
    <2>3. x # i
      BY <1>4, <2>2
    <2>4. /\ x - 1 \in i..(j - 1) /\ x - 1 < x /\ x \in 1..Len(s)
          /\ x \in 0..Len(s) /\ x - 1 \in 0..Len(s)
      BY <1>1, <2>3, <2>2
    <2>5. f[x - 1][d + 1] = s[i].tag
      BY <2>1, <2>4
    <2>6. /\ Len(f[x - 1]) > d /\ Len(f[x]) > d
          /\ Len(f[x - 1]) \in Nat /\ Len(f[x]) \in Nat
      BY <1>2, <1>3, <2>2, <2>4
    <2>7. d + 1 \in 1..Len(f[x - 1]) /\ d + 1 \in 1..Len(f[x])
      BY <1>2, <2>6, Depths
    <2>8. Steps(s, f, x)
      BY <2>4, StackStep
    <2>9. s[x].kind = "open" => f[x][d + 1] = f[x - 1][d + 1]
      BY <2>7, <2>8 DEF Steps
    <2>10. s[x].kind = "close" => f[x][d + 1] = f[x - 1][d + 1]
      BY <2>7, <2>8 DEF Steps
    <2>11. s[x].kind \notin {"open", "close"} => f[x] = f[x - 1]
      BY <2>8 DEF Steps
    <2> QED
      BY <2>2, <2>5, <2>9, <2>10, <2>11
  <1>7. s[i].tag = s[j].tag
    BY <1>1, <1>5, <1>6
  <1>8. ASSUME NEW t \in Tag
        PROVE  Cardinality(Opened(s, i, j, t)) = Cardinality(Shut(s, i, j, t))
    <2> DEFINE T == {k \in (i - 1)..j : ~Counted(s, f, i, d, k, t)}
    <2>1. T = {}
      <3> SUFFICES ASSUME T # {} PROVE FALSE
        OBVIOUS
      <3>1. PICK x \in T : \A y \in T : ~(y < x)
        <4>1. T \subseteq Nat
          BY <1>1
        <4> QED
          BY <4>1, LeastElement
      <3>2. x \in (i - 1)..j /\ ~Counted(s, f, i, d, x, t)
        OBVIOUS
      <3>3. x # i - 1
        <4>1. /\ Opened(s, i, i - 1, t) = {} /\ Shut(s, i, i - 1, t) = {}
              /\ Above(f, d, i - 1, t) = {}
          <5>1. i..(i - 1) = {}
            BY <1>1
          <5>2. (d + 1)..Len(f[i - 1]) = {}
            BY <1>2, <1>3
          <5> QED
            BY <5>1, <5>2 DEF Opened, Shut, Above
        <4>2. Counted(s, f, i, d, i - 1, t)
          <5>1. Cardinality({}) = 0 /\ 0 = 0 + 0
            BY FS_EmptySet
          <5> QED
            BY <4>1, <5>1 DEF Counted
        <4> QED
          BY <3>2, <4>2
      <3>4. /\ x \in i..j /\ x - 1 \in (i - 1)..j /\ x - 1 < x /\ x \in 1..Len(s)
            /\ i <= x /\ x \in 0..Len(s) /\ x - 1 \in 0..Len(s)
        BY <1>1, <3>2, <3>3
      <3>5. Counted(s, f, i, d, x - 1, t)
        BY <3>1, <3>4
      <3>6. \A k \in (i - 1)..j : Len(f[k]) >= d
        <4> SUFFICES ASSUME NEW k \in (i - 1)..j PROVE Len(f[k]) >= d
          OBVIOUS
        <4>1. k = i - 1 \/ k = j \/ k \in i..(j - 1)
          BY <1>1
        <4>2. k \in 0..Len(s)
          BY <1>1
        <4> QED
          BY <1>2, <1>3, <4>1, <4>2, SMTT(30) DEF d
      <3>7. Len(f[x]) >= d /\ Len(f[x - 1]) >= d
        BY <3>2, <3>4, <3>6
      <3>8. Counted(s, f, i, d, x, t)
        BY <1>1, <1>2, <3>4, <3>5, <3>7, CountStep
      <3> QED
        BY <3>2, <3>8
    <2>2. Counted(s, f, i, d, j, t)
      <3>1. j \in (i - 1)..j
        BY <1>1
      <3> QED
        BY <2>1, <3>1
    <2>3. Above(f, d, j, t) = {}
      <3>1. (d + 1)..Len(f[j]) = {}
        BY <1>2 DEF d
      <3> QED
        BY <3>1 DEF Above
    <2>4. Cardinality(Shut(s, i, j, t)) \in Nat
      BY <1>1, <1>2, CountsFinite
    <2>5. Cardinality(Above(f, d, j, t)) = 0
      BY <2>3, FS_EmptySet
    <2> QED
      BY <2>2, <2>4, <2>5 DEF Counted
  <1>9. DOMAIN Body!Width = Tag
    BY DEF Body!Width, Tag
  <1> QED
    BY <1>4, <1>5, <1>7, <1>8, <1>9 DEF Closing, Opened, Shut

LEMMA NestedIsBalanced ==
  ASSUME NEW s \in Pieces, Path(<<>>, s, <<>>),
         \A x \in 1..Len(s) : Body!IsTag(s[x]) => Body!Whole(s[x])
  PROVE  Balanced(s)
  <1>1. PICK f : Stacks(<<>>, s, f) /\ Matched(s, f) /\ f[Len(s)] = <<>>
    BY DEF Path
  <1>2. /\ f \in [0..Len(s) -> Seq(Tag)] /\ Len(s) \in Nat /\ f[0] = <<>>
    BY <1>1 DEF Stacks, Pieces
  <1>3. \A k \in 0..Len(s) : Len(f[k]) \in Nat
    BY <1>2
  <1>4. \A k \in 1..Len(s) :
          /\ s[k].kind = "open" => Len(f[k]) = Len(f[k - 1]) + 1
          /\ s[k].kind = "close" => Len(f[k - 1]) = Len(f[k]) + 1
          /\ s[k].kind \notin {"open", "close"} => Len(f[k]) = Len(f[k - 1])
    <2>1. \A k \in 1..Len(s) : Steps(s, f, k)
      BY <1>1, StackStep
    <2> QED
      BY <2>1 DEF Steps
  <1>5. ASSUME NEW i \in 1..Len(s), s[i].kind = "open"
        PROVE  \E j \in i..Len(s) : Closing(s, i, j)
    <2> DEFINE d == Len(f[i - 1])
               T == {k \in i..Len(s) : Len(f[k]) <= d}
    <2>1. /\ i \in Nat /\ i - 1 \in 0..Len(s) /\ i \in 0..Len(s)
          /\ Len(s) \in i..Len(s) /\ Len(s) \in 0..Len(s)
          /\ Len(f[Len(s)]) = 0 /\ d \in Nat /\ Len(f[i]) = d + 1
      BY <1>1, <1>2, <1>3, <1>4, <1>5
    <2>2. Len(s) \in T
      BY <2>1
    <2>3. PICK j \in T : \A y \in T : ~(y < j)
      <3>1. T \subseteq Nat /\ T # {}
        BY <2>1, <2>2
      <3> QED
        BY <3>1, LeastElement
    <2>4. j \in i..Len(s) /\ Len(f[j]) <= d
      OBVIOUS
    <2>5. /\ j # i /\ i < j /\ j \in 1..Len(s) /\ j \in 0..Len(s)
          /\ j - 1 \in i..Len(s) /\ j - 1 \in 0..Len(s) /\ j - 1 < j
      BY <2>1, <2>4
    <2>6. \A k \in i..(j - 1) : Len(f[k]) > d
      <3> SUFFICES ASSUME NEW k \in i..(j - 1) PROVE Len(f[k]) > d
        OBVIOUS
      <3>1. k \in i..Len(s) /\ k < j /\ k \in 0..Len(s)
        BY <2>1, <2>5
      <3>2. k \notin T
        BY <2>3, <3>1
      <3>3. ~(Len(f[k]) <= d) /\ Len(f[k]) \in Nat
        BY <1>3, <3>1, <3>2
      <3> QED
        BY <2>1, <3>3
    <2>7. Len(f[j - 1]) > d /\ Len(f[j - 1]) \in Nat /\ Len(f[j]) \in Nat
      <3>1. j - 1 \in i..(j - 1)
        BY <2>1, <2>5
      <3> QED
        BY <1>3, <2>5, <2>6, <3>1
    <2>8. Len(f[j]) = d
      <3>1. \/ Len(f[j]) = Len(f[j - 1]) + 1
            \/ Len(f[j - 1]) = Len(f[j]) + 1
            \/ Len(f[j - 1]) = Len(f[j])
        BY <1>4, <2>5
      <3> QED
        BY <2>1, <2>4, <2>7, <3>1, Depths
    <2> HIDE DEF T
    <2>9. Closing(s, i, j)
      <3>1. Len(f[i - 1]) = Len(f[j]) /\ \A k \in i..(j - 1) : Len(f[k]) > Len(f[j])
        BY <2>6, <2>8
      <3> QED
        BY <1>1, <2>5, <3>1, PairCloses
    <2> QED
      BY <2>4, <2>9
  <1>6. ASSUME NEW j \in 1..Len(s), s[j].kind = "close"
        PROVE  \E i \in 1..j : Closing(s, i, j)
    <2> DEFINE d == Len(f[j])
               T == {j - k : k \in {n \in 0..(j - 1) : Len(f[n]) <= d}}
    <2>1. /\ j \in Nat /\ j \in 0..Len(s) /\ j - 1 \in 0..Len(s) /\ 0 \in 0..(j - 1)
          /\ Len(f[0]) = 0 /\ d \in Nat /\ Len(f[j - 1]) = d + 1
      BY <1>2, <1>3, <1>4, <1>6
    <2>2. PICK x \in T : \A y \in T : ~(y < x)
      <3>1. T \subseteq Nat
        BY <2>1
      <3>2. T # {}
        BY <2>1
      <3> QED
        BY <3>1, <3>2, LeastElement
    <2>3. PICK m \in 0..(j - 1) : Len(f[m]) <= d /\ x = j - m
      OBVIOUS
    <2>4. \A k \in 0..(j - 1) : k > m => Len(f[k]) > d
      <3> SUFFICES ASSUME NEW k \in 0..(j - 1), k > m PROVE Len(f[k]) > d
        OBVIOUS
      <3>1. k \in 0..Len(s) /\ Len(f[k]) \in Nat
        BY <1>2, <1>3, <2>1
      <3>2. SUFFICES ASSUME Len(f[k]) <= d PROVE FALSE
        BY <2>1, <3>1
      <3>3. j - k \in T
        BY <3>2
      <3>4. j - k < j - m
        BY <2>1
      <3> QED
        BY <2>2, <2>3, <3>3, <3>4
    <2> HIDE DEF T
    <2>5. /\ m # j - 1 /\ m \in Nat /\ m + 1 \in 1..Len(s) /\ m + 1 < j
          /\ (m + 1) - 1 = m /\ m \in 0..Len(s) /\ m + 1 \in 0..(j - 1) /\ m + 1 > m
          /\ m + 1 \in 0..Len(s)
      <3>1. m # j - 1
        BY <2>1, <2>3, SMTT(30)
      <3> QED
        BY <1>2, <2>1, <3>1
    <2>6. Len(f[m + 1]) > d /\ Len(f[m + 1]) \in Nat /\ Len(f[m]) \in Nat
      BY <1>3, <2>4, <2>5
    <2>7. Len(f[m]) = d
      <3>1. \/ Len(f[m + 1]) = Len(f[(m + 1) - 1]) + 1
            \/ Len(f[(m + 1) - 1]) = Len(f[m + 1]) + 1
            \/ Len(f[(m + 1) - 1]) = Len(f[m + 1])
        BY <1>4, <2>5
      <3>2. \/ Len(f[m + 1]) = Len(f[m]) + 1
            \/ Len(f[m]) = Len(f[m + 1]) + 1
            \/ Len(f[m]) = Len(f[m + 1])
        BY <2>5, <3>1
      <3> QED
        BY <2>1, <2>3, <2>6, <3>2, Depths
    <2>8. Closing(s, m + 1, j)
      <3>1. Len(f[(m + 1) - 1]) = Len(f[j])
        BY <2>5, <2>7
      <3>2. \A k \in (m + 1)..(j - 1) : Len(f[k]) > Len(f[j])
        BY <2>1, <2>4, <2>5
      <3> QED
        BY <1>1, <2>5, <3>1, <3>2, PairCloses
    <2> QED
      BY <2>1, <2>5, <2>8
  <1> QED
    BY <1>5, <1>6 DEF Balanced

-----------------------------------------------------------------------------
(* Bodies as they are assembled.                                           *)

Markups == {"html", "plain"}
Kinds(m) == IF m = "html" THEN {"text", "open", "close", "entity"} ELSE {"text", "raw"}

\* Whole pieces of the kinds that the markup has.
Clean(m, s) ==
  /\ s \in Pieces
  /\ \A i \in 1..Len(s) : Body!Whole(s[i]) /\ s[i].kind \in Kinds(m)

\* ... that leave no tag open, nor close one of before.
Fragment(m, s) == Clean(m, s) /\ \A b \in Seq(Tag) : Path(b, s, b)

LEMMA CleanConcat ==
  ASSUME NEW m, NEW s, NEW t, Clean(m, s), Clean(m, t)
  PROVE  Clean(m, s \o t)
  <1>1. /\ s \in Pieces /\ t \in Pieces /\ s \o t \in Pieces
        /\ Len(s) \in Nat /\ Len(t) \in Nat /\ Len(s \o t) = Len(s) + Len(t)
        /\ \A i \in 1..Len(s \o t) :
             (s \o t)[i] = IF i <= Len(s) THEN s[i] ELSE t[i - Len(s)]
    BY DEF Clean, Pieces
  <1>2. \A i \in 1..Len(s \o t) : i <= Len(s) => i \in 1..Len(s)
    BY <1>1
  <1>3. \A i \in 1..Len(s \o t) : ~(i <= Len(s)) => i - Len(s) \in 1..Len(t)
    BY <1>1
  <1> QED
    BY <1>1, <1>2, <1>3 DEF Clean

LEMMA FragmentConcat ==
  ASSUME NEW m, NEW s, NEW t, Fragment(m, s), Fragment(m, t)
  PROVE  Fragment(m, s \o t)
  <1>1. Clean(m, s \o t)
    BY CleanConcat DEF Fragment
  <1>2. ASSUME NEW b \in Seq(Tag) PROVE Path(b, s \o t, b)
    <2>1. Path(b, s, b) /\ Path(b, t, b) /\ s \in Pieces /\ t \in Pieces
      BY DEF Fragment, Clean
    <2> QED
      BY <2>1, PathConcat
  <1> QED
    BY <1>1, <1>2 DEF Fragment

LEMMA FragmentFlat ==
  ASSUME NEW m, NEW s, Clean(m, s), \A i \in 1..Len(s) : ~Body!IsTag(s[i])
  PROVE  Fragment(m, s)
  <1> SUFFICES ASSUME NEW b \in Seq(Tag) PROVE Path(b, s, b)
    BY DEF Fragment
  <1> DEFINE f == [k \in 0..Len(s) |-> b]
  <1>1. Len(s) \in Nat
    BY DEF Clean, Pieces
  <1>2. f \in [0..Len(s) -> Seq(Tag)] /\ f[0] = b /\ f[Len(s)] = b
    BY <1>1
  <1>3. \A k \in 1..Len(s) : f[k] = b /\ f[k - 1] = b
    BY <1>1
  <1>4. \A k \in 1..Len(s) : s[k].kind \notin {"open", "close"}
    BY DEF Body!IsTag
  <1> HIDE DEF f
  <1>5. Stacks(b, s, f) /\ Matched(s, f)
    BY <1>2, <1>3, <1>4 DEF Stacks, Matched, Body!Push
  <1> QED
    BY <1>2, <1>5 DEF Path

LEMMA FragmentNothing ==
  ASSUME NEW m
  PROVE  Fragment(m, <<>>)
  <1>1. Clean(m, <<>>)
    BY DEF Clean, Pieces
  <1> QED
    BY <1>1, FragmentFlat

LEMMA TextParts ==
  ASSUME NEW n \in Nat \ {0}
  PROVE  /\ Body!Text(n) \in Body!Piece /\ Body!Whole(Body!Text(n))
         /\ Body!Text(n).kind = "text" /\ Body!Text(n).size = n
         /\ \A m : Fragment(m, <<Body!Text(n)>>)
  <1>1. /\ Body!Text(n).kind = "text" /\ Body!Text(n).size = n
        /\ Body!Text(n) \in [kind : {"text", "raw"}, tag : Body!Special \union {""},
                             size : Nat \ {0}]
    BY DEF Body!Text
  <1>2. Body!Text(n) \in Body!Piece /\ Body!Whole(Body!Text(n))
    BY <1>1 DEF Body!Piece, Body!Whole
  <1> DEFINE p == Body!Text(n)
  <1> HIDE DEF p
  <1>3. ASSUME NEW m PROVE Fragment(m, <<p>>)
    <2>1. /\ <<p>> \in Pieces /\ Len(<<p>>) = 1
          /\ \A i \in 1..1 : <<p>>[i] = p
      BY <1>2 DEF Pieces, p
    <2>2. p.kind = "text" /\ Body!Whole(p) /\ p.kind \in Kinds(m)
      BY <1>1, <1>2 DEF p, Kinds
    <2>3. Clean(m, <<p>>)
      BY <2>1, <2>2 DEF Clean
    <2> QED
      BY <2>1, <2>2, <2>3, FragmentFlat DEF Body!IsTag
  <1> QED
    BY <1>1, <1>2, <1>3 DEF p

LEMMA FragmentEsc ==
  ASSUME NEW m \in Markups, NEW s \in Seq(STRING)
  PROVE  Fragment(m, Body!Esc(m, s))
  <1> DEFINE e == Body!Esc(m, s)
  <1>0. 1 \in Nat \ {0}
    OBVIOUS
  <1>1. ASSUME NEW i \in 1..Len(s)
        PROVE  /\ e[i] \in Body!Piece /\ Body!Whole(e[i]) /\ ~Body!IsTag(e[i])
               /\ e[i].kind \in Kinds(m)
    <2>1. CASE s[i] \notin Body!Special
      <3>1. e[i] = Body!Text(1)
        BY <2>1 DEF Body!Esc
      <3>2. /\ Body!Text(1) \in Body!Piece /\ Body!Whole(Body!Text(1))
            /\ Body!Text(1).kind = "text"
        BY <1>0, TextParts
      <3> HIDE DEF e
      <3> QED
        BY <3>1, <3>2 DEF Body!IsTag, Kinds
    <2>2. CASE s[i] \in Body!Special /\ m = "html"
      <3>1. e[i] = Body!Entity(s[i])
        BY <2>2 DEF Body!Esc
      <3>2. /\ e[i].kind = "entity" /\ e[i] = Body!Entity(e[i].tag)
            /\ e[i] \in [kind : {"entity"}, tag : Body!Special, size : 1..5]
        BY <2>2, <3>1 DEF Body!Entity
      <3>3. e[i] \in Body!Piece
        BY <3>2 DEF Body!Piece
      <3> HIDE DEF e
      <3>4. Body!Whole(e[i])
        BY <3>2 DEF Body!Whole
      <3> QED
        BY <2>2, <3>2, <3>3, <3>4 DEF Body!IsTag, Kinds
    <2>3. CASE s[i] \in Body!Special /\ m # "html"
      <3>1. e[i] = Body!Raw(s[i])
        BY <2>3 DEF Body!Esc
      <3>2. /\ e[i].kind = "raw"
            /\ e[i] \in [kind : {"text", "raw"}, tag : Body!Special \union {""},
                         size : Nat \ {0}]
        <4>1. \A c \in Body!Special :
                /\ Body!Raw(c).kind = "raw"
                /\ Body!Raw(c) \in [kind : {"text", "raw"},
                                   tag : Body!Special \union {""}, size : Nat \ {0}]
          BY <1>0 DEF Body!Raw
        <4> HIDE DEF e
        <4> QED
          BY <2>3, <3>1, <4>1
      <3> HIDE DEF e
      <3>3. e[i] \in Body!Piece /\ Body!Whole(e[i])
        BY <3>2 DEF Body!Piece, Body!Whole
      <3> QED
        BY <2>3, <3>2, <3>3 DEF Body!IsTag, Kinds
    <2> QED
      BY <2>1, <2>2, <2>3
  <1>2. Len(e) = Len(s) /\ e = [i \in 1..Len(s) |-> e[i]]
    BY DEF Body!Esc
  <1> HIDE DEF e
  <1>3. e \in Pieces
    BY <1>1, <1>2 DEF Pieces
  <1>4. Clean(m, e)
    BY <1>1, <1>2, <1>3 DEF Clean
  <1>5. Fragment(m, e)
    BY <1>1, <1>2, <1>4, FragmentFlat
  <1> QED
    BY <1>5 DEF e

LEMMA FragmentTagged ==
  ASSUME NEW m \in Markups, NEW t \in Tag, NEW s, Fragment(m, s)
  PROVE  Fragment(m, Body!Tagged(m, t, s))
  <1>1. CASE m # "html"
    BY <1>1 DEF Body!Tagged
  <1>2. CASE m = "html"
    <2> DEFINE o == Body!Open(t)
               c == Body!Close(t)
    <2>1. /\ o \in Body!Piece /\ c \in Body!Piece /\ o.kind = "open" /\ c.kind = "close"
          /\ o.tag = t /\ c.tag = t /\ Body!Whole(o) /\ Body!Whole(c)
      BY CloseParts
    <2> HIDE DEF o, c
    <2>2. /\ <<o>> \in Pieces /\ <<c>> \in Pieces /\ Len(<<o>>) = 1 /\ Len(<<c>>) = 1
          /\ \A i \in 1..1 : <<o>>[i] = o /\ <<c>>[i] = c
      BY <2>1 DEF Pieces
    <2>3. Clean(m, <<o>>) /\ Clean(m, <<c>>)
      BY <1>2, <2>1, <2>2 DEF Clean, Kinds
    <2>4. Clean(m, s) /\ s \in Pieces
      BY DEF Fragment, Clean
    <2>5. /\ Clean(m, <<o>> \o s) /\ <<o>> \o s \in Pieces
          /\ Clean(m, (<<o>> \o s) \o <<c>>)
      <3>1. Clean(m, <<o>> \o s)
        BY <2>3, <2>4, CleanConcat
      <3>2. Clean(m, (<<o>> \o s) \o <<c>>)
        BY <2>3, <3>1, CleanConcat
      <3> QED
        BY <3>1, <3>2 DEF Clean
    <2>6. ASSUME NEW b \in Seq(Tag) PROVE Path(b, (<<o>> \o s) \o <<c>>, b)
      <3> DEFINE d == Append(b, t)
      <3>1. /\ d \in Seq(Tag) /\ d # <<>> /\ Body!Last(d) = t /\ Body!Front(d) = b
        <4>1. d \in Seq(Tag) /\ Len(d) = Len(b) + 1 /\ d[Len(b) + 1] = t /\ Len(b) \in Nat
          OBVIOUS
        <4>2. Body!Last(d) = t /\ d # <<>>
          BY <4>1 DEF Body!Last
        <4>3. Body!Front(d) = SubSeq(d, 1, Len(b))
          BY <4>1 DEF Body!Front
        <4>4. SubSeq(d, 1, Len(b)) = b
          <5>1. /\ SubSeq(d, 1, Len(b)) \in Seq(Tag)
                /\ Len(SubSeq(d, 1, Len(b))) = Len(b)
                /\ \A i \in 1..Len(b) : SubSeq(d, 1, Len(b))[i] = b[i]
            OBVIOUS
          <5> QED
            BY <5>1, SeqEqual
        <4> QED
          BY <4>1, <4>2, <4>3, <4>4
      <3>2. Body!Push(b, o) = d
        BY <2>1 DEF Body!Push
      <3>3. Body!Push(d, c) = b
        BY <2>1, <3>1 DEF Body!Push
      <3> HIDE DEF d
      <3>4. Path(b, <<o>>, d)
        BY <2>1, <3>2, PathOne
      <3>5. Path(d, s, d)
        BY <3>1 DEF Fragment
      <3>6. Path(d, <<c>>, b)
        BY <2>1, <3>1, <3>3, PathOne
      <3>7. Path(b, <<o>> \o s, d)
        BY <2>2, <2>4, <3>4, <3>5, PathConcat
      <3> QED
        BY <2>2, <2>5, <3>6, <3>7, PathConcat
    <2>7. Fragment(m, (<<o>> \o s) \o <<c>>)
      BY <2>5, <2>6 DEF Fragment
    <2>8. Body!Tagged(m, t, s) = (<<o>> \o s) \o <<c>>
      BY <1>2 DEF Body!Tagged, o, c
    <2> QED
      BY <2>7, <2>8
  <1> QED
    BY <1>1, <1>2

LEMMA AssembledIsFragment ==
  ASSUME NEW m \in Markups, NEW p \in Body!Payloads
  PROVE  Fragment(m, Body!Assembled(m, p))
  <1> DEFINE When(cond, s) == IF cond THEN s ELSE <<>>
             bold == Body!Tagged(m, "b", Body!Say)
             message == Body!Esc(m, p.message)
             regression == When(p.regression, Body!Say \o bold)
             place == Body!Tagged(m, "code", Body!Esc(m, p.place))
             suppressed == When(p.suppressed, Body!Say \o Body!Tagged(m, "i", Body!Say))
             trace == When(p.trace # <<>>,
                           Body!Say \o Body!Tagged(m, "pre", Body!Esc(m, p.trace)))
             locals == When(p.locals # <<>>,
                            Body!Say \o Body!Tagged(m, "pre", Body!Esc(m, p.locals)))
  <1>1. /\ p.message \in Seq(STRING) /\ p.place \in Seq(STRING)
        /\ p.trace \in Seq(STRING) /\ p.locals \in Seq(STRING)
    BY PeripheryAssumption DEF PeripheryAssumption, Body!Payloads
  <1>2. Fragment(m, Body!Say)
    BY TextParts DEF Body!Say, Body!Words
  <1>3. {"b", "i", "code", "pre"} \subseteq Tag
    BY DEF Tag
  <1>4. Fragment(m, bold) /\ Fragment(m, Body!Tagged(m, "i", Body!Say))
    BY <1>2, <1>3, FragmentTagged
  <1>5. /\ Fragment(m, message) /\ Fragment(m, Body!Esc(m, p.place))
        /\ Fragment(m, Body!Esc(m, p.trace)) /\ Fragment(m, Body!Esc(m, p.locals))
    BY <1>1, FragmentEsc
  <1>6. /\ Fragment(m, place)
        /\ Fragment(m, Body!Tagged(m, "pre", Body!Esc(m, p.trace)))
        /\ Fragment(m, Body!Tagged(m, "pre", Body!Esc(m, p.locals)))
    BY <1>3, <1>5, FragmentTagged
  <1>7. /\ Fragment(m, regression) /\ Fragment(m, suppressed)
        /\ Fragment(m, trace) /\ Fragment(m, locals)
    BY <1>2, <1>4, <1>6, FragmentConcat, FragmentNothing
  <1>8. Body!Assembled(m, p) =
          bold \o bold \o Body!Say \o message \o regression \o Body!Say \o place
            \o Body!Say \o suppressed \o trace \o locals
    BY DEF Body!Assembled
  <1> HIDE DEF bold, message, regression, place, suppressed, trace, locals
  <1>9. Fragment(m, bold \o bold \o Body!Say \o message \o regression)
    <2>1. Fragment(m, bold \o bold)
      BY <1>4, FragmentConcat
    <2>2. Fragment(m, bold \o bold \o Body!Say)
      BY <1>2, <2>1, FragmentConcat
    <2>3. Fragment(m, bold \o bold \o Body!Say \o message)
      BY <1>5, <2>2, FragmentConcat DEF message
    <2> QED
      BY <1>7, <2>3, FragmentConcat
  <1> DEFINE head == bold \o bold \o Body!Say \o message \o regression
  <1> HIDE DEF head
  <1>10. Fragment(m, head \o Body!Say \o place \o Body!Say)
    <2>1. Fragment(m, head \o Body!Say)
      BY <1>2, <1>9, FragmentConcat DEF head
    <2>2. Fragment(m, head \o Body!Say \o place)
      BY <1>6, <2>1, FragmentConcat DEF place
    <2> QED
      BY <1>2, <2>2, FragmentConcat
  <1>11. Fragment(m, head \o Body!Say \o place \o Body!Say \o suppressed \o trace
                       \o locals)
    <2>1. Fragment(m, head \o Body!Say \o place \o Body!Say \o suppressed)
      BY <1>7, <1>10, FragmentConcat
    <2>2. Fragment(m, head \o Body!Say \o place \o Body!Say \o suppressed \o trace)
      BY <1>7, <2>1, FragmentConcat
    <2> QED
      BY <1>7, <2>2, FragmentConcat
  <1> QED
    BY <1>8, <1>11 DEF head

\* A body that is given: nested, and in the markup of its configuration.
Bodied(m, s) == Clean(m, s) /\ Path(<<>>, s, <<>>)

LEMMA OpenTagsOfPrefix ==
  ASSUME NEW s \in Pieces, NEW f, Stacks(<<>>, s, f), NEW k \in 0..Len(s)
  PROVE  Body!OpenTags(SubSeq(s, 1, k)) = f[k]
  <1> DEFINE t == SubSeq(s, 1, k)
             g == [i \in 0..k |-> f[i]]
  <1>1. /\ k \in Nat /\ Len(s) \in Nat /\ t \in Pieces /\ Len(t) = k
        /\ \A i \in 1..k : t[i] = s[i] /\ i \in 1..Len(s) /\ i \in 0..k /\ i - 1 \in 0..k
    BY DEF Pieces
  <1>2. f \in [0..Len(s) -> Seq(Tag)] /\ f[0] = <<>>
    BY DEF Stacks
  <1>3. g \in [0..k -> Seq(Tag)] /\ g[0] = <<>> /\ \A i \in 0..k : g[i] = f[i]
    BY <1>1, <1>2
  <1>4. k \in 0..k
    BY <1>1
  <1> HIDE DEF t, g
  <1>5. Stacks(<<>>, t, g)
    BY <1>1, <1>3 DEF Stacks
  <1>6. Body!OpenTags(t) = g[k]
    BY <1>1, <1>5, OpenTagsIs
  <1> QED
    BY <1>3, <1>4, <1>6 DEF t

LEMMA HtmlIsBodied ==
  ASSUME NEW s, Body!IsHtml(s)
  PROVE  Bodied("html", s)
  <1>1. s \in Pieces /\ \A i \in 1..Len(s) : s[i] \in Body!Piece
    BY DEF Body!IsHtml, Pieces
  <1>2. Clean("html", s)
    <2>1. \A i \in 1..Len(s) : Body!Whole(s[i]) /\ s[i].kind # "raw"
      BY DEF Body!IsHtml
    <2>2. \A i \in 1..Len(s) : s[i].kind \in {"text", "raw", "open", "close", "entity"}
      BY <1>1, PieceParts
    <2> QED
      BY <1>1, <2>1, <2>2 DEF Clean, Kinds
  <1>3. <<>> \in Seq(Tag)
    OBVIOUS
  <1>4. PICK f : Stacks(<<>>, s, f)
    BY <1>1, <1>3, StacksExist
  <1>5. f[Len(s)] = <<>>
    BY <1>1, <1>4, OpenTagsIs DEF Body!IsHtml
  <1>6. Matched(s, f)
    <2> SUFFICES ASSUME NEW k \in 1..Len(s), s[k].kind = "close"
                 PROVE  f[k - 1] # <<>> /\ Body!Last(f[k - 1]) = s[k].tag
      BY DEF Matched
    <2>1. k - 1 \in 0..Len(s)
      BY <1>1 DEF Pieces
    <2>2. Body!OpenTags(SubSeq(s, 1, k - 1)) = f[k - 1]
      BY <1>1, <1>4, <2>1, OpenTagsOfPrefix
    <2> QED
      BY <2>2 DEF Body!IsHtml
  <1> QED
    BY <1>2, <1>4, <1>5, <1>6 DEF Bodied, Path

LEMMA BodiesAreBodied ==
  ASSUME NEW c \in Body!Configs, NEW s \in Body!Bodies(c)
  PROVE  Body!Markup(c) \in Markups /\ Bodied(Body!Markup(c), s)
  <1> DEFINE m == Body!Markup(c)
  <1>1. m \in Markups
    BY DEF Body!Markup, Markups
  <1>2. \/ \E p \in Body!Payloads : s = Body!Assembled(m, p)
        \/ m = "html" /\ s \in OtherBodies
    BY DEF Body!Bodies
  <1> HIDE DEF m
  <1>3. ASSUME NEW p \in Body!Payloads, s = Body!Assembled(m, p)
        PROVE  Bodied(m, s)
    <2>1. Fragment(m, s)
      BY <1>1, <1>3, AssembledIsFragment
    <2>2. <<>> \in Seq(Tag)
      OBVIOUS
    <2> QED
      BY <2>1, <2>2 DEF Fragment, Bodied
  <1>4. m = "html" /\ s \in OtherBodies => Bodied(m, s)
    BY BodiesAssumption, HtmlIsBodied DEF BodiesAssumption
  <1> QED
    BY <1>1, <1>2, <1>3, <1>4 DEF m

-----------------------------------------------------------------------------
(* Bodies as they are returned.                                            *)

\* What is left of s in at most n characters, before anything is appended: its
\* first k pieces, whole, and possibly a part of one that is no tag.
Left(m, s, n, k, w) ==
  LET kept == SubSeq(s, 1, k)
  IN  /\ k \in Nat /\ k < Len(s) /\ kept \in Pieces /\ w \in Pieces
      /\ \/ w = kept
         \/ \E p \in Body!Piece : /\ w = Append(kept, p) /\ ~Body!IsTag(p)
                                  /\ p.kind \in Kinds(m)
      /\ Body!Size(w) <= n /\ Body!Size(SubSeq(s, 1, k + 1)) > n

LEMMA LeftBegins ==
  ASSUME NEW m, NEW s, NEW n, NEW k, NEW w, Clean(m, s), Left(m, s, n, k, w)
  PROVE  /\ Len(w) \in Nat /\ k <= Len(w) /\ SubSeq(w, 1, k) = SubSeq(s, 1, k)
         /\ \A i \in 1..Len(w) : /\ w[i].kind \in Kinds(m)
                                 /\ Body!IsTag(w[i]) => Body!Whole(w[i])
  <1> DEFINE kept == SubSeq(s, 1, k)
  <1>1. /\ k \in Nat /\ k < Len(s) /\ s \in Pieces /\ w \in Pieces
        /\ kept \in Pieces /\ Len(kept) = k
        /\ \A i \in 1..k : kept[i] = s[i] /\ i \in 1..Len(s)
    BY DEF Left, Clean, Pieces
  <1>2. \A i \in 1..k : kept[i].kind \in Kinds(m) /\ Body!Whole(kept[i])
    BY <1>1 DEF Clean
  <1>3. \/ w = kept
        \/ \E p \in Body!Piece : /\ w = Append(kept, p) /\ ~Body!IsTag(p)
                                 /\ p.kind \in Kinds(m)
    BY DEF Left
  <1> HIDE DEF kept
  <1>4. CASE w = kept
    <2>1. SubSeq(kept, 1, k) = kept
      BY <1>1 DEF Pieces
    <2> QED
      BY <1>1, <1>2, <1>4, <2>1 DEF kept
  <1>5. ASSUME NEW p \in Body!Piece, w = Append(kept, p), ~Body!IsTag(p),
               p.kind \in Kinds(m)
        PROVE  /\ Len(w) \in Nat /\ k <= Len(w) /\ SubSeq(w, 1, k) = kept
               /\ \A i \in 1..Len(w) : /\ w[i].kind \in Kinds(m)
                                       /\ Body!IsTag(w[i]) => Body!Whole(w[i])
    <2>1. /\ Len(w) = k + 1 /\ w[k + 1] = p
          /\ \A i \in 1..k : w[i] = kept[i]
      BY <1>1, <1>5 DEF Pieces
    <2>2. /\ SubSeq(w, 1, k) \in Pieces /\ Len(SubSeq(w, 1, k)) = k
          /\ \A i \in 1..k : SubSeq(w, 1, k)[i] = kept[i]
      BY <1>1, <2>1 DEF Pieces
    <2>3. SubSeq(w, 1, k) = kept
      BY <1>1, <2>2, SeqEqual DEF Pieces
    <2>4. \A i \in 1..Len(w) : i \in 1..k \/ i = k + 1
      BY <1>1, <2>1
    <2> QED
      BY <1>1, <1>2, <1>5, <2>1, <2>3, <2>4
  <1> QED
    BY <1>3, <1>4, <1>5 DEF kept

\* It has the open tags of its whole pieces.
LEMMA LeftPath ==
  ASSUME NEW m, NEW s, NEW n, NEW k, NEW w, Bodied(m, s), Left(m, s, n, k, w)
  PROVE  \E c \in Seq(Tag) : /\ Path(<<>>, w, c)
                             /\ Body!OpenTags(SubSeq(s, 1, k)) = c
                             /\ Body!Closers(SubSeq(s, 1, k)) = CloseAll(c)
                             /\ Body!Closers(w) = CloseAll(c)
  <1> DEFINE kept == SubSeq(s, 1, k)
  <1>1. /\ s \in Pieces /\ w \in Pieces /\ kept \in Pieces /\ k \in 0..Len(s)
        /\ Path(<<>>, s, <<>>)
    BY DEF Left, Bodied, Clean, Pieces
  <1>2. PICK c \in Seq(Tag) : Path(<<>>, kept, c)
    BY <1>1, PathPrefix
  <1>3. \/ w = kept
        \/ \E p \in Body!Piece : w = Append(kept, p) /\ ~Body!IsTag(p)
    BY DEF Left
  <1> HIDE DEF kept
  <1>4. ASSUME NEW p \in Body!Piece, w = Append(kept, p), ~Body!IsTag(p)
        PROVE  Path(<<>>, w, c)
    <2>1. <<p>> \in Pieces /\ Path(c, <<p>>, c)
      BY <1>4, PathKept
    <2>2. w = kept \o <<p>>
      BY <1>1, <1>4 DEF Pieces
    <2> QED
      BY <1>1, <1>2, <2>1, <2>2, PathConcat
  <1>5. Path(<<>>, w, c)
    BY <1>2, <1>3, <1>4
  <1> QED
    BY <1>1, <1>2, <1>5, OpenTagsOfPath DEF kept

LEMMA CutLeaves ==
  ASSUME NEW m \in Markups, NEW s, Bodied(m, s), NEW n \in Nat, Body!Size(s) > n
  PROVE  \E k \in Nat : Left(m, s, n, k, Body!WithoutPartialTag(Body!Cut(s, n)))
  <1>1. s \in Pieces /\ \A i \in 1..Len(s) : Body!Whole(s[i]) /\ s[i].kind \in Kinds(m)
    BY DEF Bodied, Clean
  <1>2. PICK k \in Nat : CutAfter(s, n, k, Body!Cut(s, n))
    BY <1>1, CutIs
  <1> DEFINE kept == SubSeq(s, 1, k)
             w == Body!WithoutPartialTag(Body!Cut(s, n))
  <1>3. /\ kept \in Pieces
        /\ \/ w = kept
           \/ \E p \in Body!Piece : /\ w = Append(kept, p)
                                    /\ ~Body!IsTag(p) /\ p.kind = s[k + 1].kind
                                    /\ Body!Size(kept) + p.size = n
    <2>1. s \in Pieces /\ \A i \in 1..Len(s) : Body!Whole(s[i])
      BY <1>1
    <2> QED
      BY <2>1, <1>2, WithoutPartialTagIs
  <1>4. /\ k < Len(s) /\ k + 1 \in 1..Len(s)
        /\ Body!Size(kept) <= n /\ Body!Size(SubSeq(s, 1, k + 1)) > n
    BY <1>1, <1>2 DEF CutAfter, Pieces
  <1> HIDE DEF kept, w
  <1>5. CASE w = kept
    BY <1>3, <1>4, <1>5 DEF Left, kept, w
  <1>6. ASSUME NEW p \in Body!Piece, w = Append(kept, p), ~Body!IsTag(p),
               p.kind = s[k + 1].kind, Body!Size(kept) + p.size = n
        PROVE  Left(m, s, n, k, w)
    <2>1. w = kept \o <<p>>
      BY <1>3, <1>6 DEF Pieces
    <2>2. <<p>> \in Pieces /\ Body!Size(<<p>>) = p.size
      BY SizeOne
    <2>3. w \in Pieces /\ Body!Size(w) = n
      BY <1>3, <1>6, <2>1, <2>2, SizeConcat
    <2>4. p.kind \in Kinds(m)
      BY <1>1, <1>4, <1>6
    <2> QED
      BY <1>3, <1>4, <1>6, <2>3, <2>4 DEF Left, kept
  <1> QED
    BY <1>3, <1>5, <1>6 DEF w

\* Where nothing is a tag, nothing is removed from the cut.
LEMMA PlainCut ==
  ASSUME NEW s, Clean("plain", s), NEW n \in Nat, Body!Size(s) > n
  PROVE  Body!WithoutPartialTag(Body!Cut(s, n)) = Body!Cut(s, n)
  <1>1. s \in Pieces /\ \A i \in 1..Len(s) : s[i].kind \in {"text", "raw"}
    BY DEF Clean, Kinds
  <1>2. PICK k \in Nat : CutAfter(s, n, k, Body!Cut(s, n))
    BY <1>1, CutIs
  <1> DEFINE kept == SubSeq(s, 1, k)
             c == Body!Cut(s, n)
  <1>3. /\ k \in 0..(Len(s) - 1) /\ k + 1 \in 1..Len(s) /\ k \in Nat
        /\ \/ c = kept
           \/ \E p \in Body!Piece : c = Append(kept, p) /\ p.kind = s[k + 1].kind
    BY <1>1, <1>2 DEF CutAfter, Pieces
  <1>4. /\ kept \in Pieces /\ Len(kept) = k
        /\ \A i \in 1..k : kept[i] = s[i] /\ i \in 1..Len(s)
    BY <1>1, <1>3 DEF Pieces
  <1> HIDE DEF kept, c
  <1>5. CASE c = kept
    <2>1. c # <<>> => Body!Last(c) = kept[k] /\ k \in 1..k
      BY <1>3, <1>4, <1>5 DEF Body!Last, Pieces
    <2> QED
      BY <1>1, <1>4, <2>1 DEF Body!WithoutPartialTag, Body!IsTag, c
  <1>6. ASSUME NEW p \in Body!Piece, c = Append(kept, p), p.kind = s[k + 1].kind
        PROVE  Body!WithoutPartialTag(c) = c
    <2>1. Body!Last(c) = p
      BY <1>4, <1>6 DEF Body!Last, Pieces
    <2> QED
      BY <1>1, <1>3, <1>6, <2>1 DEF Body!WithoutPartialTag, Body!IsTag
  <1> QED
    BY <1>3, <1>5, <1>6 DEF c

\* What render() returns for a body that is too long.
LEMMA TruncatedIs ==
  ASSUME NEW m \in Markups, NEW s, Bodied(m, s), NEW n \in Nat, Body!Size(s) > n,
         NEW cap \in Nat, cap - Body!Marker = n
  PROVE  LET mark == Body!Text(Body!Marker)
         IN  \E k \in Nat, w \in Pieces, c \in Seq(Tag) :
               /\ Left(m, s, n, k, w) /\ Path(<<>>, w, c)
               /\ Body!Closers(SubSeq(s, 1, k)) = CloseAll(c)
               /\ Body!Truncated(m, s, cap)
                    = IF m = "html" THEN (w \o CloseAll(c)) \o <<mark>>
                                    ELSE w \o <<mark>>
  <1> DEFINE w == Body!WithoutPartialTag(Body!Cut(s, n))
  <1>1. PICK k \in Nat : Left(m, s, n, k, w)
    BY CutLeaves
  <1>2. PICK c \in Seq(Tag) : /\ Path(<<>>, w, c)
                              /\ Body!Closers(SubSeq(s, 1, k)) = CloseAll(c)
                              /\ Body!Closers(w) = CloseAll(c)
    BY <1>1, LeftPath
  <1>3. w \in Pieces
    BY <1>1 DEF Left
  <1>4. CASE m = "html"
    <2>1. Body!CloseDangling(Body!Cut(s, n)) = w \o CloseAll(c)
      BY <1>2 DEF Body!CloseDangling
    <2> HIDE DEF w
    <2> QED
      BY <1>1, <1>2, <1>3, <1>4, <2>1 DEF Body!Truncated
  <1>5. CASE m # "html"
    <2>1. Clean("plain", s)
      BY <1>5 DEF Bodied, Markups
    <2>2. w = Body!Cut(s, n)
      BY <2>1, PlainCut
    <2> HIDE DEF w
    <2> QED
      BY <1>1, <1>2, <1>3, <1>5, <2>2 DEF Body!Truncated
  <1> QED
    BY <1>4, <1>5

\* A body that is returned: in the markup of its configuration, with whole tags.
Fit(m, s) ==
  /\ s \in Pieces
  /\ \A i \in 1..Len(s) : /\ s[i].kind \in Kinds(m)
                          /\ Body!IsTag(s[i]) => Body!Whole(s[i])

LEMMA FitConcat ==
  ASSUME NEW m, NEW s, NEW t, Fit(m, s), Fit(m, t)
  PROVE  Fit(m, s \o t)
  <1>1. /\ s \in Pieces /\ t \in Pieces /\ s \o t \in Pieces
        /\ Len(s) \in Nat /\ Len(t) \in Nat /\ Len(s \o t) = Len(s) + Len(t)
        /\ \A i \in 1..Len(s \o t) :
             (s \o t)[i] = IF i <= Len(s) THEN s[i] ELSE t[i - Len(s)]
    BY DEF Fit, Pieces
  <1>2. \A i \in 1..Len(s \o t) : i <= Len(s) => i \in 1..Len(s)
    BY <1>1
  <1>3. \A i \in 1..Len(s \o t) : ~(i <= Len(s)) => i - Len(s) \in 1..Len(t)
    BY <1>1
  <1> QED
    BY <1>1, <1>2, <1>3 DEF Fit

LEMMA BodiedIsBalanced ==
  ASSUME NEW m, NEW s, Bodied(m, s)
  PROVE  Fit(m, s) /\ Balanced(s)
  BY NestedIsBalanced DEF Bodied, Clean, Fit

LEMMA TruncatedIsBalanced ==
  ASSUME NEW m \in Markups, NEW s, Bodied(m, s), NEW n \in Nat, Body!Size(s) > n,
         NEW cap \in Nat, cap - Body!Marker = n
  PROVE  /\ Fit(m, Body!Truncated(m, s, cap))
         /\ Balanced(Body!Truncated(m, s, cap))
  <1> DEFINE mark == Body!Text(Body!Marker)
             t == Body!Truncated(m, s, cap)
  <1>1. PICK k \in Nat, w \in Pieces, c \in Seq(Tag) :
               /\ Left(m, s, n, k, w) /\ Path(<<>>, w, c)
               /\ Body!Closers(SubSeq(s, 1, k)) = CloseAll(c)
               /\ t = IF m = "html" THEN (w \o CloseAll(c)) \o <<mark>>
                                    ELSE w \o <<mark>>
    BY TruncatedIs
  <1>2. Fragment(m, <<mark>>)
    <2>1. Body!Marker \in Nat \ {0}
      BY DEF Body!Marker
    <2> QED
      BY <2>1, TextParts
  <1>3. Clean(m, s)
    BY DEF Bodied
  <1>4. Fit(m, w)
    BY <1>1, <1>3, LeftBegins DEF Fit
  <1> HIDE DEF mark, t
  <1>5. Fit(m, <<mark>>) /\ <<mark>> \in Pieces
    BY <1>2 DEF Fragment, Clean, Fit
  <1>6. CASE m = "html"
    <2> DEFINE z == CloseAll(c)
    <2>1. Fit(m, z)
      <3>1. /\ z \in Pieces /\ Len(z) = Len(c)
            /\ \A i \in 1..Len(c) : /\ c[Len(c) - i + 1] \in Tag
                                    /\ z[i] = Body!Close(c[Len(c) - i + 1])
        BY CloseAllIs
      <3>2. \A u \in Tag : Body!Close(u).kind = "close" /\ Body!Whole(Body!Close(u))
        BY CloseParts
      <3> HIDE DEF z
      <3> QED
        BY <1>6, <3>1, <3>2 DEF Fit, Kinds
    <2>2. Path(c, z, <<>>)
      BY PathCloseAll
    <2> HIDE DEF z
    <2>3. /\ Fit(m, w \o z) /\ w \o z \in Pieces /\ z \in Pieces
      BY <1>4, <2>1, FitConcat DEF Fit
    <2>4. Path(<<>>, w \o z, <<>>)
      BY <1>1, <2>2, <2>3, PathConcat
    <2>5. Path(<<>>, <<mark>>, <<>>)
      <3>1. <<>> \in Seq(Tag)
        OBVIOUS
      <3> QED
        BY <1>2, <3>1 DEF Fragment
    <2>6. t = (w \o z) \o <<mark>>
      BY <1>1, <1>6 DEF z
    <2>7. Fit(m, t)
      BY <1>5, <2>3, <2>6, FitConcat
    <2>8. Path(<<>>, t, <<>>)
      BY <1>5, <2>3, <2>4, <2>5, <2>6, PathConcat
    <2>9. Balanced(t)
      BY <2>7, <2>8, NestedIsBalanced DEF Fit
    <2> QED
      BY <2>7, <2>9 DEF t
  <1>7. CASE m # "html"
    <2>1. t = w \o <<mark>>
      BY <1>1, <1>7
    <2>2. Fit(m, t)
      BY <1>4, <1>5, <2>1, FitConcat
    <2>3. \A i \in 1..Len(t) : t[i].kind \in {"text", "raw"}
      BY <1>7, <2>2 DEF Fit, Kinds
    <2>4. Balanced(t)
      BY <2>2, <2>3 DEF Balanced, Fit
    <2> QED
      BY <2>2, <2>4 DEF t
  <1> QED
    BY <1>6, <1>7

\* The part of OnlyTheTailIsLost about what is returned.
TailLost(s, cap, t) ==
  \E k \in 0..(Len(t) - 1) :
    /\ k < Len(s)
    /\ SubSeq(t, 1, k) = SubSeq(s, 1, k)
    /\ Body!Size(s) > cap
    /\ Body!Size(SubSeq(s, 1, k + 1)) > cap - Body!Marker
    /\ Body!Size(t) <= cap + Body!Size(Body!Closers(SubSeq(s, 1, k)))

LEMMA TruncatedLosesTheTail ==
  ASSUME NEW m \in Markups, NEW s, Bodied(m, s), NEW n \in Nat,
         Body!Size(s) > n, NEW cap \in Nat, cap - Body!Marker = n,
         Body!Size(s) > cap
  PROVE  TailLost(s, cap, Body!Truncated(m, s, cap))
  <1> DEFINE mark == Body!Text(Body!Marker)
             t == Body!Truncated(m, s, cap)
  <1>1. Body!Marker \in Nat \ {0} /\ s \in Pieces /\ Clean(m, s)
    BY DEF Body!Marker, Bodied, Clean
  <1>2. PICK k \in Nat, w \in Pieces, c \in Seq(Tag) :
               /\ Left(m, s, n, k, w) /\ Path(<<>>, w, c)
               /\ Body!Closers(SubSeq(s, 1, k)) = CloseAll(c)
               /\ t = IF m = "html" THEN (w \o CloseAll(c)) \o <<mark>>
                                    ELSE w \o <<mark>>
    BY TruncatedIs, SMTT(30)
  <1>3. /\ <<mark>> \in Pieces /\ Body!Size(<<mark>>) = Body!Marker
        /\ Len(<<mark>>) = 1
    <2>1. mark \in Body!Piece /\ mark.size = Body!Marker
      BY <1>1, TextParts
    <2> HIDE DEF mark
    <2> QED
      BY <2>1, SizeOne
  <1> DEFINE z == CloseAll(c)
  <1>4. z \in Pieces /\ Body!Size(z) \in Nat
    BY CloseAllIs, SizeNat
  <1>5. /\ k < Len(s) /\ Body!Size(w) <= n /\ Body!Size(w) \in Nat
        /\ Body!Size(SubSeq(s, 1, k + 1)) > n
        /\ Len(w) \in Nat /\ k <= Len(w) /\ SubSeq(w, 1, k) = SubSeq(s, 1, k)
    <2>1. /\ k < Len(s) /\ Body!Size(w) <= n
          /\ Body!Size(SubSeq(s, 1, k + 1)) > n
      BY <1>2 DEF Left
    <2>2. Len(w) \in Nat /\ k <= Len(w) /\ SubSeq(w, 1, k) = SubSeq(s, 1, k)
      <3>1. Clean(m, s) /\ Left(m, s, n, k, w)
        BY <1>1, <1>2
      <3> QED
        BY ONLY <3>1, LeftBegins
    <2>3. Body!Size(w) \in Nat
      BY <1>2, SizeNat
    <2> QED
      BY <2>1, <2>2, <2>3
  <1> HIDE DEF mark, t, z
  <1>6. \E r \in Pieces : /\ t = w \o r /\ Len(r) \in Nat \ {0}
                          /\ Body!Size(r) <= Body!Size(z) + Body!Marker
                          /\ Body!Size(r) \in Nat
    <2>1. CASE m = "html"
      <3>1. /\ z \o <<mark>> \in Pieces
            /\ Body!Size(z \o <<mark>>) = Body!Size(z) + Body!Marker
        BY <1>3, <1>4, SizeConcat
      <3>2. Len(z \o <<mark>>) = Len(z) + 1 /\ Len(z) \in Nat
        BY <1>3, <1>4 DEF Pieces
      <3>3. t = w \o (z \o <<mark>>)
        <4>1. t = (w \o z) \o <<mark>>
          BY <1>2, <2>1 DEF z
        <4> QED
          BY <1>3, <1>4, <4>1, ConcatAssociative, SMTT(30) DEF Pieces
      <3> DEFINE r == z \o <<mark>>
      <3>4. /\ Len(r) \in Nat \ {0} /\ Body!Size(r) \in Nat
            /\ Body!Size(r) <= Body!Size(z) + Body!Marker
        BY <1>1, <1>4, <3>1, <3>2
      <3> HIDE DEF r
      <3> QED
        BY <3>1, <3>3, <3>4 DEF r
    <2>2. CASE m # "html"
      <3>1. t = w \o <<mark>>
        BY <1>2, <2>2
      <3>2. /\ Len(<<mark>>) \in Nat \ {0} /\ Body!Size(<<mark>>) \in Nat
            /\ Body!Size(<<mark>>) <= Body!Size(z) + Body!Marker
        BY <1>1, <1>3, <1>4
      <3> QED
        BY <1>3, <3>1, <3>2
    <2> QED
      BY <2>1, <2>2
  <1>7. PICK r \in Pieces : /\ t = w \o r /\ Len(r) \in Nat \ {0}
                           /\ Body!Size(r) <= Body!Size(z) + Body!Marker
                           /\ Body!Size(r) \in Nat
    BY <1>6
  <1>8. Len(t) = Len(w) + Len(r) /\ k \in 0..(Len(t) - 1)
    <2>1. Len(t) = Len(w) + Len(r)
      BY <1>7 DEF Pieces
    <2> QED
      BY <1>5, <1>7, <2>1
  <1>9. SubSeq(t, 1, k) = SubSeq(s, 1, k)
    <2>1. /\ SubSeq(t, 1, k) \in Pieces /\ Len(SubSeq(t, 1, k)) = k
          /\ SubSeq(w, 1, k) \in Pieces /\ Len(SubSeq(w, 1, k)) = k
      BY <1>5, <1>7, <1>8 DEF Pieces
    <2>2. \A i \in 1..k : SubSeq(t, 1, k)[i] = SubSeq(w, 1, k)[i]
      BY <1>5, <1>7, <1>8 DEF Pieces
    <2>3. SubSeq(t, 1, k) = SubSeq(w, 1, k)
      BY <2>1, <2>2, SeqEqual DEF Pieces
    <2> QED
      BY <1>5, <2>3
  <1>10. Body!Size(t) <= cap + Body!Size(Body!Closers(SubSeq(s, 1, k)))
    <2>1. Body!Size(t) = Body!Size(w) + Body!Size(r)
      BY <1>7, SizeConcat
    <2>2. Body!Size(Body!Closers(SubSeq(s, 1, k))) = Body!Size(z)
      BY <1>2 DEF z
    <2> QED
      BY <1>1, <1>4, <1>5, <1>7, <2>1, <2>2, SMTT(40)
  <1> QED
    BY <1>5, <1>8, <1>9, <1>10 DEF TailLost, t


\* What is known of the body that is given, and what is returned.
RenderInv ==
  part = "render" =>
    /\ input.config \in Body!Configs /\ input.cap \in Caps
    /\ Body!Markup(input.config) \in Markups
    /\ Bodied(Body!Markup(input.config), input.full)
    /\ \/ output = <<>>
       \/ output = input.full
       \/ /\ Body!Size(input.full) > input.cap
          /\ output = Body!Truncated(Body!Markup(input.config), input.full, input.cap)

LEMMA RenderInvariant == Spec => []RenderInv
  <1>1. Init => RenderInv
    <2> SUFFICES ASSUME part = "render", Body!Init PROVE RenderInv
      BY DEF Init, RenderInv
    <2>0. PICK c \in Body!Configs, n \in Caps :
                 \E s \in Body!Bodies(c) : input = [config |-> c, full |-> s, cap |-> n]
      BY DEF Body!Init
    <2>1. PICK s \in Body!Bodies(c) : input = [config |-> c, full |-> s, cap |-> n]
      BY <2>0
    <2>2. input.config = c /\ input.full = s /\ input.cap = n
      BY <2>1
    <2>3. output = <<>>
      BY DEF Body!Init
    <2> QED
      BY <2>2, <2>3, BodiesAreBodied DEF RenderInv
  <1>2. RenderInv /\ [Next]_vars => RenderInv'
    <2> SUFFICES ASSUME RenderInv, [Next]_vars, part' = "render" PROVE RenderInv'
      BY DEF RenderInv
    <2>1. CASE UNCHANGED <<part, functionVars>>
      BY <2>1 DEF RenderInv, functionVars
    <2>2. CASE part = "render" /\ Body!Next /\ UNCHANGED part
      BY <2>2 DEF RenderInv, Body!Next, Body!Fits, Body!TooLong
    <2>3. \/ UNCHANGED <<part, functionVars>>
          \/ part = "render" /\ Body!Next /\ UNCHANGED part
      BY DEF Next, vars
    <2> QED
      BY <2>1, <2>2, <2>3
  <1> QED
    BY <1>1, <1>2, PTL DEF Spec

\* What is left for the body after the marker.
LEMMA Room ==
  ASSUME NEW cap \in Caps, NEW size \in Nat, size > cap
  PROVE  /\ cap \in Nat /\ cap - Body!Marker \in Nat
         /\ size > cap - Body!Marker
  BY PeripheryAssumption DEF Body!Marker

\* Render counts as its FiniteSets does.
LEMMA CountsAgree == \A S : Body!Cardinality(S) = Cardinality(S)
  BY DEF Cardinality, Body!Cardinality

\* What Balanced states is what TagsBalanced does.
LEMMA BalancedTags == Balanced(output) => Body!TagsBalanced
  <1> DEFINE Closes(i, j) ==
               /\ output[i].kind = "open" /\ output[j].kind = "close"
               /\ output[i].tag = output[j].tag
               /\ \A t \in DOMAIN Body!Width :
                    Body!Cardinality({k \in i..j : output[k] = Body!Open(t)})
                      = Body!Cardinality({k \in i..j : output[k] = Body!Close(t)})
  <1>1. \A i, j : Closing(output, i, j) => Closes(i, j)
    BY CountsAgree DEF Closing
  <1> HIDE DEF Closes
  <1>2. Balanced(output) =>
          /\ \A i \in 1..Len(output) :
               output[i].kind = "open" => \E j \in i..Len(output) : Closes(i, j)
          /\ \A j \in 1..Len(output) :
               output[j].kind = "close" => \E i \in 1..j : Closes(i, j)
    BY <1>1 DEF Balanced
  <1> QED
    BY <1>2, Zenon DEF Balanced, Body!TagsBalanced, Closes

LEMMA RenderedIsBalanced ==
  ASSUME RenderInv, part = "render"
  PROVE  Fit(Body!Markup(input.config), output) /\ Balanced(output)
  <1> DEFINE m == Body!Markup(input.config)
             s == input.full
             cap == input.cap
  <1>1. /\ m \in Markups /\ Bodied(m, s) /\ cap \in Caps
        /\ \/ output = <<>>
           \/ output = s
           \/ Body!Size(s) > cap /\ output = Body!Truncated(m, s, cap)
    BY DEF RenderInv
  <1>2. Body!Size(s) \in Nat
    BY <1>1, SizeNat DEF Bodied, Clean
  <1> SUFFICES Fit(m, output) /\ Balanced(output)
    OBVIOUS
  <1> HIDE DEF m, s, cap
  <1>3. CASE output = <<>>
    BY <1>3 DEF Fit, Balanced, Pieces
  <1>4. CASE output = s
    BY <1>1, <1>4, BodiedIsBalanced
  <1>5. CASE Body!Size(s) > cap /\ output = Body!Truncated(m, s, cap)
    <2> DEFINE n == cap - Body!Marker
    <2>1. cap \in Nat /\ n \in Nat /\ Body!Size(s) > n
      BY <1>1, <1>2, <1>5, Room
    <2> HIDE DEF n
    <2>2. cap - Body!Marker = n
      BY DEF n
    <2> QED
      BY <1>1, <1>5, <2>1, <2>2, TruncatedIsBalanced
  <1> QED
    BY <1>1, <1>3, <1>4, <1>5

LEMMA RenderedLosesTheTail ==
  ASSUME RenderInv, part = "render"
  PROVE  Body!OnlyTheTailIsLost
  <1> DEFINE m == Body!Markup(input.config)
             s == input.full
             cap == input.cap
             n == cap - Body!Marker
  <1> SUFFICES ASSUME output # <<>>, output # s
               PROVE  TailLost(s, cap, output)
    BY DEF Body!OnlyTheTailIsLost, TailLost
  <1>1. /\ m \in Markups /\ Bodied(m, s) /\ cap \in Caps
        /\ Body!Size(s) > cap /\ output = Body!Truncated(m, s, cap)
    BY DEF RenderInv
  <1>2. Body!Size(s) \in Nat
    BY <1>1, SizeNat DEF Bodied, Clean
  <1> HIDE DEF m, s, cap
  <1>3. cap \in Nat /\ n \in Nat /\ Body!Size(s) > n
    BY <1>1, <1>2, Room
  <1> HIDE DEF n
  <1>4. cap - Body!Marker = n
    BY DEF n
  <1> QED
    BY <1>1, <1>3, <1>4, TruncatedLosesTheTail

\* transport.py:140-142: whatever is cut from the body, what is returned has no
\* divided tag, and every opening tag a closing one with what is opened between
\* them closed between them, and the reverse.
THEOREM TagsAreBalanced == Spec => []TagsBalanced
  <1>1. RenderInv => TagsBalanced
    <2> SUFFICES ASSUME RenderInv, part = "render" PROVE Body!TagsBalanced
      BY DEF TagsBalanced
    <2> QED
      BY RenderedIsBalanced, BalancedTags
  <1> QED
    BY <1>1, RenderInvariant, PTL

\* transport.py:167-175: with any text of the user's, special characters are
\* entities and the library's tags are tags exactly where the provider reads
\* the body as HTML.
THEOREM TextIsEscaped == Spec => []EscapedWhenParsed
  <1>1. RenderInv => EscapedWhenParsed
    <2> SUFFICES ASSUME RenderInv, part = "render" PROVE Body!EscapedWhenParsed
      BY DEF EscapedWhenParsed
    <2>1. \A i \in 1..Len(output) :
            output[i].kind \in Kinds(Body!Markup(input.config))
      BY RenderedIsBalanced DEF Fit
    <2>2. (Body!Markup(input.config) = "html") <=> Body!ReadAsHtml
      BY DEF Body!Markup, Body!ReadAsHtml
    <2> QED
      BY <2>1, <2>2 DEF Kinds, Body!EscapedWhenParsed
  <1> QED
    BY <1>1, RenderInvariant, PTL

\* SPEC.md:366-368: a body is only cut when it is too long; it begins as the
\* full one does, up to the piece with which that no longer leaves room for the
\* marker, and the closing tags that follow are those of the tags left open.
THEOREM OnlyTailsAreLost == Spec => []OnlyTheTailIsLost
  <1>1. RenderInv => OnlyTheTailIsLost
    BY RenderedLosesTheTail DEF OnlyTheTailIsLost
  <1> QED
    BY <1>1, RenderInvariant, PTL

-----------------------------------------------------------------------------
(* Types.                                                                  *)

\* _relpath() always returns a name.
LEMMA RelPathIsNamed ==
  ASSUME NEW path \in Paths, NEW root \in Roots
  PROVE  Key!RelPath(path, root) # <<>>
  <1>1. path \in Seq(STRING) /\ root \in Seq(STRING)
    BY PeripheryAssumption
  <1>2. CASE Key!IsPrefix(root, path) /\ root # path
    <2>1. Len(root) <= Len(path) /\ SubSeq(root, 1, Len(root)) = SubSeq(path, 1, Len(root))
      BY <1>2 DEF Key!IsPrefix
    <2>2. Len(root) # Len(path)
      <3>1. SUFFICES ASSUME Len(root) = Len(path) PROVE FALSE
        OBVIOUS
      <3>2. SubSeq(root, 1, Len(root)) = root /\ SubSeq(path, 1, Len(path)) = path
        BY <1>1
      <3> QED
        BY <1>2, <2>1, <3>1, <3>2
    <2>3. Len(SubSeq(path, Len(root) + 1, Len(path))) # 0
      BY <1>1, <2>1, <2>2
    <2>4. Key!RelPath(path, root) = SubSeq(path, Len(root) + 1, Len(path))
      BY <1>2 DEF Key!RelPath
    <2>5. Len(<<>>) = 0
      OBVIOUS
    <2> QED
      BY <2>3, <2>4, <2>5
  <1>3. CASE ~(Key!IsPrefix(root, path) /\ root # path)
    BY <1>3 DEF Key!RelPath
  <1> QED
    BY <1>2, <1>3

LEMMA KeyParts ==
  ASSUME NEW o \in [what : Key!Exceptions \union Key!Records, root : Roots]
  PROVE  /\ Key!Of(o)[1] \in Types \union Levels
         /\ Key!Of(o)[2] # <<>> /\ Key!Of(o)[3] # <<>>
  <1> DEFINE C == CHOOSE g \in Key!Frame : TRUE
             tb == Key!Traceback(o.what)
  <1>1. CASE o.what \in Key!Records
    <2>1. /\ o.what.kind = "record" /\ o.what.level \in Levels
          /\ o.what.at.path \in Paths /\ o.root \in Roots
      BY <1>1 DEF Key!Records, Key!Frame
    <2>2. Key!Of(o) = <<o.what.level, Key!RelPath(o.what.at.path, o.root),
                        <<o.what.at.func, o.what.at.line>>>>
      BY <2>1 DEF Key!Of, Key!ComputeFromRecord, Key!RecordSite
    <2> QED
      BY <2>1, <2>2, RelPathIsNamed
  <1>2. CASE o.what \in Key!Exceptions
    <2>1. /\ o.what.kind # "record" /\ o.what.type \in Types /\ o.root \in Roots
          /\ o.what.own \in Key!Tracebacks /\ o.what.handled \in {<<>>, <<C>>}
      BY <1>2 DEF Key!Exceptions
    <2>2. CASE tb = <<>>
      BY <2>1, <2>2 DEF Key!Of, Key!Compute, Key!Unknown
    <2>3. CASE tb # <<>>
      <3>1. C \in Key!Frame
        BY SomeFrame
      <3>2. \/ \E g \in Key!Frame : tb = <<g>>
            \/ \E g \in Key!Frame : tb = <<C, g>>
        BY <2>1, <2>3, <3>1 DEF Key!Traceback, Key!Tracebacks
      <3>3. Key!Site(tb) \in Key!Frame
        BY <3>2 DEF Key!Site, Key!Last
      <3>4. Key!Site(tb).path \in Paths
        BY <3>3 DEF Key!Frame
      <3>5. Key!Of(o) = <<o.what.type, Key!RelPath(Key!Site(tb).path, o.root),
                          <<Key!Site(tb).func>>>>
        BY <2>1, <2>3 DEF Key!Of, Key!Compute
      <3> QED
        BY <2>1, <3>4, <3>5, RelPathIsNamed
    <2> QED
      BY <2>2, <2>3
  <1> QED
    BY <1>1, <1>2

\* The types of all components' variables: no body returned holds a piece that
\* render() does not write, and every fingerprint has a type or a level, a path
\* and a function.
THEOREM TypeCorrect == Spec => []TypeOK
  <1>1. SlotInv /\ PageInv => Slot!TypeOK /\ Page!TypeOK
    <2>1. PageInv => Page!TypeOK
      BY DEF PageInv, PageTypes, Page!TypeOK
    <2> QED
      BY <2>1, SlotImplies
  <1>2. RenderInv /\ part = "render" => Body!TypeOK
    <2> SUFFICES ASSUME RenderInv, part = "render" PROVE Body!TypeOK
      OBVIOUS
    <2>1. /\ input.config \in Body!Configs /\ input.cap \in Caps
          /\ input.full \in Pieces /\ output \in Pieces
          /\ \A i \in 1..Len(input.full) : Body!Whole(input.full[i])
      BY RenderedIsBalanced DEF RenderInv, Bodied, Clean, Fit
    <2> QED
      BY <2>1 DEF Body!TypeOK, Pieces
  <1>3. KeyInv /\ part = "fingerprint" => Key!TypeOK
    <2> SUFFICES ASSUME KeyInv, part = "fingerprint" PROVE Key!TypeOK
      OBVIOUS
    <2>1. /\ input \in [1..2 -> [what : Key!Exceptions \union Key!Records, root : Roots]]
          /\ output = <<>> \/ output = [i \in 1..2 |-> Key!Of(input[i])]
      BY DEF KeyInv
    <2>2. output # <<>> => output = <<Key!Of(input[1]), Key!Of(input[2])>>
      BY <2>1
    <2>3. ASSUME NEW i \in 1..Len(output)
          PROVE  /\ output[i][1] \in Types \union Levels
                 /\ output[i][2] # <<>> /\ output[i][3] # <<>>
      <3>1. i \in 1..2 /\ output[i] = Key!Of(input[i])
        BY <2>2
      <3> QED
        BY <2>1, <3>1, KeyParts
    <2> QED
      BY <2>1, <2>3 DEF Key!TypeOK
  <1>4. SlotInv /\ PageInv /\ RenderInv /\ KeyInv => TypeOK
    BY <1>1, <1>2, <1>3 DEF TypeOK
  <1> QED
    BY <1>4, BothInvariant, RenderInvariant, KeyInvariant, PTL
=============================================================================
