------------------------------- MODULE Notifier -------------------------------
(***************************************************************************)
(* What ml3error promises of an error, with no queue, no store, no lock    *)
(* and no threads: an occurrence becomes an alert or is counted; an alert  *)
(* tells what was counted before it and is delivered or lost; the cooldown *)
(* runs from deliveries; losses are counted.  A kill and, where Troubles   *)
(* are allowed, a failing store or renderer are steps apart, which say all *)
(* that they may do to those promises.                                     *)
(***************************************************************************)
EXTENDS Integers

CONSTANTS
  Fp, NoFp, Caller, Cooldown,
  Troubles,     \* whether the store, a thread's start or render() may fail
  Kills         \* whether the process may be killed

VARIABLES
  clock,
  call,         \* per caller: what it reports, and since when
  marked,       \* per error: marked resolved
  untold,       \* per error: suppressed, and told by no delivered alert
  last,         \* per error: when its last alert was delivered
  alert,        \* per error: the alert that is on its way
  busy,         \* errors with an alert on its way or about to be settled
  lost          \* alerts counted as lost

vars == <<clock, call, marked, untold, last, alert, busy, lost>>

Never == -1
NoCall == [fp |-> NoFp, now |-> 0]
NoAlert == [count |-> -1, reopened |-> FALSE]
Blind == [count |-> 0, reopened |-> FALSE]

Set(f, fp, value) == [f EXCEPT ![fp] = value]

Init ==
  /\ clock = 0
  /\ call = [c \in Caller |-> NoCall]
  /\ marked = [fp \in Fp |-> FALSE]
  /\ untold = [fp \in Fp |-> 0]
  /\ last = [fp \in Fp |-> Never]
  /\ alert = [fp \in Fp |-> NoAlert]
  /\ busy = {}
  /\ lost = 0

-----------------------------------------------------------------------------
(* Occurrences.                                                            *)

Begins(c, fp) ==
  /\ call[c] = NoCall
  /\ call' = Set(call, c, [fp |-> fp, now |-> clock])
  /\ UNCHANGED <<clock, marked, untold, last, alert, busy, lost>>

Ends(c) == call[c] # NoCall /\ call' = Set(call, c, NoCall)

Due(fp, now) ==
  last[fp] = Never \/ now - last[fp] >= Cooldown \/ marked[fp]

Suppress(c) ==
  LET fp == call[c].fp IN
  /\ Ends(c)
  /\ fp \in busy \/ ~Due(fp, call[c].now)
  /\ untold' = Set(untold, fp, untold[fp] + 1)
  /\ marked' = Set(marked, fp, FALSE)
  /\ UNCHANGED <<clock, last, alert, busy, lost>>

Sendable(c) == Ends(c) /\ call[c].fp \notin busy /\ Due(call[c].fp, call[c].now)

Alert(c) ==
  LET fp == call[c].fp IN
  /\ Sendable(c)
  /\ alert' = Set(alert, fp, [count |-> untold[fp], reopened |-> marked[fp]])
  /\ busy' = busy \union {fp}
  /\ marked' = Set(marked, fp, FALSE)
  /\ UNCHANGED <<clock, untold, last, lost>>

Overload(c) ==
  /\ Sendable(c)
  /\ lost' = lost + 1
  /\ marked' = Set(marked, call[c].fp, FALSE)
  /\ UNCHANGED <<clock, untold, last, alert, busy>>

-----------------------------------------------------------------------------
(* Alerts.                                                                 *)

Deliver(fp) ==
  /\ alert[fp] # NoAlert
  /\ last' = Set(last, fp, clock)
  /\ untold' = Set(untold, fp, untold[fp] - alert[fp].count)
  /\ alert' = Set(alert, fp, NoAlert)
  /\ UNCHANGED <<clock, call, marked, busy, lost>>

\* No occurrence is forgotten with it: what it would have told stays untold.
Lose(fp) ==
  /\ alert[fp] # NoAlert
  /\ lost' = lost + 1
  /\ alert' = Set(alert, fp, NoAlert)
  /\ busy' = busy \ {fp}
  /\ UNCHANGED <<clock, call, marked, untold, last>>

Settle(fp) ==
  /\ fp \in busy /\ alert[fp] = NoAlert
  /\ busy' = busy \ {fp}
  /\ UNCHANGED <<clock, call, marked, untold, last, alert, lost>>

Mark(fp) ==
  /\ marked' = Set(marked, fp, ~marked[fp])
  /\ UNCHANGED <<clock, call, untold, last, alert, busy, lost>>

Tick == clock' = clock + 1 /\ UNCHANGED <<call, marked, untold, last, alert, busy, lost>>

-----------------------------------------------------------------------------
(* A kill.                                                                 *)

Delivered(fp) == fp \in busy /\ alert[fp] = NoAlert

Same(fp) == /\ last'[fp] = last[fp]
            /\ untold'[fp] = untold[fp]

\* A delivery that was not settled is as if it had not happened.
Unlearnt(fp) == /\ Delivered(fp)
                /\ last'[fp] <= last[fp]
                /\ untold'[fp] >= untold[fp]

Forgotten(fp) == /\ last'[fp] = Never
                 /\ untold'[fp] = 0
                 /\ ~marked'[fp]

Kill ==
  /\ Kills
  /\ \A fp \in Fp : \/ marked'[fp] = marked[fp] /\ (Same(fp) \/ Unlearnt(fp))
                    \/ Forgotten(fp)
  /\ DOMAIN last' = Fp /\ DOMAIN untold' = Fp /\ DOMAIN marked' = Fp
  /\ call' = [c \in Caller |-> NoCall]
  /\ alert' = [fp \in Fp |-> NoAlert]
  /\ busy' = {}
  /\ UNCHANGED <<clock, lost>>

-----------------------------------------------------------------------------
(* Troubles.                                                               *)

\* The count, the mark, or both are not written.
Uncounted(c) ==
  LET fp == call[c].fp IN
  /\ Ends(c)
  /\ fp \in busy
  /\ untold' \in {untold, Set(untold, fp, untold[fp] + 1)}
  /\ marked' \in {marked, Set(marked, fp, FALSE)}
  /\ UNCHANGED <<clock, last, alert, busy, lost>>

\* The state cannot be read: better a duplicate than a miss.  If the
\* occurrence was counted before the failure it is told later as well.
BlindOutcome(c) ==
  LET fp == call[c].fp IN
  /\ Ends(c)
  /\ fp \notin busy
  /\ \/ untold' = untold
     \/ ~Due(fp, call[c].now) /\ untold' = Set(untold, fp, untold[fp] + 1)
  /\ marked' = marked
  /\ \/ /\ alert' = Set(alert, fp, Blind)
        /\ busy' = busy \union {fp}
        /\ lost' = lost
     \/ /\ lost' \in {lost, lost + 1}
        /\ UNCHANGED <<alert, busy>>
  /\ UNCHANGED <<clock, last>>

\* An alert is lost before it was on its way, and may not be counted.
LostUncounted(c) ==
  /\ Sendable(c)
  /\ marked' = Set(marked, call[c].fp, FALSE)
  /\ UNCHANGED <<clock, untold, last, alert, busy, lost>>

LoseUncounted(fp) ==
  /\ alert[fp] # NoAlert
  /\ alert' = Set(alert, fp, NoAlert)
  /\ busy' = busy \ {fp}
  /\ UNCHANGED <<clock, call, marked, untold, last, lost>>

SettleUnlearnt(fp) ==
  /\ Unlearnt(fp)
  /\ last' = Set(last, fp, last'[fp])
  /\ untold' = Set(untold, fp, untold'[fp])
  /\ busy' = busy \ {fp}
  /\ UNCHANGED <<clock, call, marked, alert, lost>>

Trouble ==
  /\ Troubles
  /\ \/ \E c \in Caller : Uncounted(c) \/ BlindOutcome(c) \/ LostUncounted(c)
     \/ \E fp \in Fp : LoseUncounted(fp) \/ SettleUnlearnt(fp)

-----------------------------------------------------------------------------

Next ==
  \/ \E c \in Caller : \/ \E fp \in Fp : Begins(c, fp)
                       \/ Suppress(c) \/ Alert(c) \/ Overload(c)
  \/ \E fp \in Fp : Deliver(fp) \/ Lose(fp) \/ Settle(fp) \/ Mark(fp)
  \/ Tick
  \/ Kill
  \/ Trouble

Spec == Init /\ [][Next]_vars
=============================================================================
