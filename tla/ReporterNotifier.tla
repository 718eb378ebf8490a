--------------------------- MODULE ReporterNotifier ---------------------------
(***************************************************************************)
(* Reporter implements Notifier: the promises are read off the program's   *)
(* own state, the rows, the queue and the worker's hands, and never off    *)
(* the history that the other properties keep.                             *)
(***************************************************************************)
EXTENDS Reporter

\* The worker has an acknowledgement that is not yet written back.
Unsettled(fp) == pc = "sent" /\ item.fp = fp

Untold == [fp \in Fp |-> rows[fp].suppressed_count - Owed(fp)]

LastDelivered ==
  [fp \in Fp |-> IF Unsettled(fp) THEN sentAt ELSE rows[fp].last_notified]

Marked == [fp \in Fp |-> rows[fp].resolved]

\* The message of fp in the queue or in the worker's hands.
OnItsWay(fp) == {m \in Pending : m.fp = fp /\ ~Unsettled(fp)}

NoAlert == [count |-> -1, reopened |-> FALSE]

Alerts ==
  [fp \in Fp |->
     IF OnItsWay(fp) = {} THEN NoAlert
     ELSE LET m == CHOOSE m \in OnItsWay(fp) : TRUE
          IN [count |-> m.count, reopened |-> m.reopened]]

N == INSTANCE Notifier WITH
       marked <- Marked,
       untold <- Untold,
       last <- LastDelivered,
       alert <- Alerts,
       busy <- inFlight,
       lost <- meta.dropped + meta.transport_failures,
       Troubles <- FaultKinds # {},
       Kills <- MaxKills > 0

\* SPEC.md:247-282, __init__.py:336-342: every step of the reporting threads
\* and of the worker does to an error what Notifier allows, or nothing.
KeepsThePromises == N!Spec
=============================================================================
