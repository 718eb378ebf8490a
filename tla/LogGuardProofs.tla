---------------------------- MODULE LogGuardProofs ----------------------------
(***************************************************************************)
(* For any number of threads: while nothing interrupts a thread inside     *)
(* _LockWithGuard the lock has one holder and none waits for itself; and   *)
(* only records logged inside a thread's own critical section are dropped. *)
(***************************************************************************)
EXTENDS LogGuard, TLAPS

\* The flag is set in the section, and exactly where a thread may log under
\* the lock if nothing interrupts it.
FlagIsSet ==
  \A t \in Thread :
    /\ critical[t] => pc[t] \in {"inside"} \union Inner
    /\ ~setting.interrupts => (critical[t] <=> pc[t] \in {"inside"} \union Inner)

Inv == TypeOK /\ FlagIsSet

LEMMA InitInv == Init => Inv
BY GuardAssumption DEF Init, Inv, TypeOK, FlagIsSet, Holding, Inner

\* Every step keeps the types; every step of a thread that nothing interrupts
\* keeps the flag and the lock together.
LEMMA NextInv == Inv /\ [Next]_vars => Inv'
<1> SUFFICES ASSUME Inv, [Next]_vars PROVE Inv'
  OBVIOUS
<1> USE GuardAssumption DEF Inv, TypeOK, FlagIsSet, Holding, Inner, Go
<1>1. CASE UNCHANGED vars
  BY <1>1 DEF vars
<1>2. ASSUME NEW t \in Thread, Calls(t) PROVE Inv'
  <2>1. CASE Enter(t)
    BY <2>1 DEF Enter
  <2>2. CASE Log(t)
    BY <2>2 DEF Log
  <2>3. CASE LogInside(t)
    BY <2>3 DEF LogInside
  <2>4. CASE LogInterrupts(t)
    BY <2>4 DEF LogInterrupts
  <2> QED
    BY <1>2, <2>1, <2>2, <2>3, <2>4 DEF Calls
<1>3. ASSUME NEW t \in Thread, Proceeds(t) PROVE Inv'
  <2>1. CASE Acquire(t)
    BY <2>1 DEF Acquire
  <2>2. CASE SetFlag(t)
    BY <2>2 DEF SetFlag
  <2>3. CASE ClearFlag(t)
    BY <2>3 DEF ClearFlag
  <2>4. CASE Release(t)
    BY <2>4 DEF Release
  <2>5. CASE Handle(t)
    BY <2>5, ZenonT(30) DEF Handle
  <2>6. CASE EmitReturns(t)
    BY <2>6 DEF EmitReturns, Guarded
  <2>7. CASE EmitReports(t)
    BY <2>7 DEF EmitReports, Guarded
  <2>8. CASE HandleReturns(t)
    BY <2>8 DEF HandleReturns
  <2> QED
    BY <1>3, <2>1, <2>2, <2>3, <2>4, <2>5, <2>6, <2>7, <2>8 DEF Proceeds
<1> QED
  BY <1>1, <1>2, <1>3 DEF Next

\* The types, and one holder of the lock at most where nothing interrupts.
THEOREM TypeCorrect == Spec => []TypeOK
<1>1. Inv => TypeOK
  BY DEF Inv
<1> QED
  BY <1>1, InitInv, NextInv, PTL DEF Spec

\* __init__.py:30-34: no thread ever waits for the lock it holds on account of
\* a record logged under the lock, however its records are routed.
THEOREM GuardPreventsSelfDeadlock == Spec => []NoSelfDeadlock
<1>1. Inv => NoSelfDeadlock
  BY GuardAssumption DEF Inv, TypeOK, NoSelfDeadlock, Holding, Inner
<1> QED
  BY <1>1, InitInv, NextInv, PTL DEF Spec

\* logging_handler.py:22-27: and emit() drops only records logged inside.
THEOREM OnlyInnerRecordsAreDropped == Spec => []OnlyInnerDropped
<1>1. Inv => OnlyInnerDropped
  BY DEF Inv, FlagIsSet, OnlyInnerDropped, Guarded, Inner
<1> QED
  BY <1>1, InitInv, NextInv, PTL DEF Spec
=============================================================================
