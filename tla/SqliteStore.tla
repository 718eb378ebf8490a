----------------------------- MODULE SqliteStore -----------------------------
(***************************************************************************)
(* The SQLite state store, src/ml3error/store/sqlite.py: what each method  *)
(* does to the row of one fingerprint and to the running counters.  The    *)
(* methods are operators from a row to a row; the modules that extend this *)
(* one say when they are called and which of their statements may fail.    *)
(*                                                                         *)
(* Abstracted: the display columns (exc_type, rel_path, func_name,         *)
(* first_seen) and total_count, which only the digest and the review page  *)
(* print; a rendered message body is the pair of facts about it that the   *)
(* properties tell apart.  Times are whole ticks of the wall clock.        *)
(***************************************************************************)
EXTENDS Integers

CONSTANTS Cooldown,   \* cooldown_seconds: cfg.cooldown_hours * 3600
          PruneAge    \* STATE_PRUNE_DAYS * 86400

ASSUME StoreAssumption == Cooldown \in Nat /\ PruneAge \in Nat

Never == -1           \* SQL NULL in last_notified

\* What a body says that matters here: the "suppressed N similar errors"
\* count and whether it carries the REOPENED banner.
Message == [count : Int, reopened : BOOLEAN]
NoMessage == [count |-> -1, reopened |-> FALSE]

Row == [stored : BOOLEAN, last_notified : Int, last_activity : Int,
        suppressed_count : Nat, resolved : BOOLEAN, last_message : Message]

NoRow == [stored |-> FALSE, last_notified |-> Never, last_activity |-> 0,
          suppressed_count |-> 0, resolved |-> FALSE,
          last_message |-> NoMessage]

NewRow(now) == [NoRow EXCEPT !.stored = TRUE, !.last_activity = now]

Counters == [dropped : Nat, transport_failures : Nat, suppressed : Nat]
NoCounters == [dropped |-> 0, transport_failures |-> 0, suppressed |-> 0]

-----------------------------------------------------------------------------
(* decide(): one SELECT, then an INSERT or one of two UPDATEs.             *)

\* Bug: an alert one tick early.
CooldownExpired_Early(row, now) ==
  row.last_notified = Never \/ now - row.last_notified >= Cooldown - 1

CooldownExpired(row, now) ==
  row.last_notified = Never \/ now - row.last_notified >= Cooldown

ShouldSend(row, now) ==
  ~row.stored \/ CooldownExpired(row, now) \/ row.resolved

Decision == [should_send : BOOLEAN, suppressed_count : Nat,
             was_resolved : BOOLEAN]

DecisionOn(row, now) ==
  [should_send      |-> ShouldSend(row, now),
   suppressed_count |-> row.suppressed_count,
   was_resolved     |-> row.resolved]

Decided(row, now) ==
  IF ~row.stored THEN NewRow(now)
  ELSE [row EXCEPT !.last_activity = now, !.resolved = FALSE,
                   !.suppressed_count =
                      IF ShouldSend(row, now) THEN @ ELSE @ + 1]

\* What a decide() that raises may leave behind.  Autocommit keeps every
\* statement that ran: in the suppress branch the row is already updated
\* when the bump of the global counter fails.
PartialDecides(row, now) ==
  {row} \union (IF ShouldSend(row, now) THEN {} ELSE {Decided(row, now)})

-----------------------------------------------------------------------------
(* bump_suppressed(): clears resolved, then counts; both are no-ops on a   *)
(* missing row.                                                            *)

\* set_resolved(), and the first statement of bump_suppressed().
Resolve(row, resolved) ==
  IF row.stored THEN [row EXCEPT !.resolved = resolved] ELSE row

Bumped(row, now) ==
  IF ~row.stored THEN row
  ELSE [row EXCEPT !.resolved = FALSE, !.last_activity = now,
                   !.suppressed_count = @ + 1]

PartialBumps(row, now) == {row, Resolve(row, FALSE), Bumped(row, now)}

\* Bug: clears the count instead of subtracting what was reported.
Sent_Clears(row, now, reported) ==
  IF ~row.stored THEN row
  ELSE [row EXCEPT !.last_notified = now, !.last_activity = now,
                   !.suppressed_count = 0]

\* Bug: only the first alert starts a cooldown.
Sent_FirstOnly(row, now, reported) ==
  IF ~row.stored THEN row
  ELSE [row EXCEPT !.last_notified = IF @ = Never THEN now ELSE @,
                   !.last_activity = now,
                   !.suppressed_count = IF @ >= reported THEN @ - reported
                                                         ELSE 0]

\* Bug: goes below zero when another connection cleared the count before.
Sent_Unclamped(row, now, reported) ==
  IF ~row.stored THEN row
  ELSE [row EXCEPT !.last_notified = now, !.last_activity = now,
                   !.suppressed_count = @ - reported]

\* record_sent(): subtracts what the message reported, never below zero.
Sent(row, now, reported) ==
  IF ~row.stored THEN row
  ELSE [row EXCEPT !.last_notified = now, !.last_activity = now,
                   !.suppressed_count = IF @ >= reported THEN @ - reported
                                                         ELSE 0]

\* Bug: keeps the first message.
WithMessage_First(row, m) ==
  IF row.stored /\ row.last_message = NoMessage
  THEN [row EXCEPT !.last_message = m] ELSE row

\* set_last_message(): like every UPDATE a no-op on a missing row.
WithMessage(row, m) ==
  IF row.stored THEN [row EXCEPT !.last_message = m] ELSE row

\* prune(), run once each time the store is opened.
Expired(row, now) == row.stored /\ row.last_activity < now - PruneAge

Pruned(row, now) == IF Expired(row, now) THEN NoRow ELSE row

\* Bug: stores the delta instead of adding it.
BumpCounter_Sets(meta, counter) == [meta EXCEPT ![counter] = 1]

\* _meta_bump() of one of the three counters.
BumpCounter(meta, counter) == [meta EXCEPT ![counter] = @ + 1]
=============================================================================
