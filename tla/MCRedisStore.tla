----------------------------- MODULE MCRedisStore -----------------------------
(* RedisStore for TLC: interchangeable processes.  One that reports alone  *)
(* while its row expires, is made anew and is resolved; one alone for      *)
(* longer, whose row expires twice; two beside a dying thread, with a      *)
(* kill.                                                                   *)
EXTENDS RedisStore, TLC

CONSTANTS p1, p2

MCScenarios ==
  [procs : {{p1}, {p2}}, crashes : {FALSE}, reviews : {TRUE}, clock : {2},
   occur : {4}, kills : {0}]
  \union
  [procs : {{p1}, {p2}}, crashes : {FALSE}, reviews : {FALSE}, clock : {4},
   occur : {3}, kills : {0}]
  \union
  [procs : {{p1, p2}}, crashes : {TRUE}, reviews : {FALSE}, clock : {1},
   occur : {2}, kills : {1}]

Symmetry == Permutations({p1, p2})
=============================================================================
