-------------------------------- MODULE Hooks --------------------------------
(***************************************************************************)
(* One of the interpreter's hook slots (sys.excepthook,                    *)
(* threading.excepthook, a loop's exception handler) and those that chain  *)
(* into it: src/ml3error/hooks.py, the parts of init(), close() and        *)
(* install_asyncio_hook() that use it, and another library that installs   *)
(* and removes hooks as carefully as this one.                             *)
(*                                                                         *)
(* A hook is a number, in the order of installation; each remembers what   *)
(* its installer found in the slot and calls it after its own handler,     *)
(* whatever either of them raises.  To install is to read the slot and     *)
(* then to write it, to remove is to check the slot and then to write it,  *)
(* and the others go on in between: no lock is common to all of them.      *)
(***************************************************************************)
EXTENDS Naturals, Sequences

CONSTANT MaxHooks   \* bound: hooks ever installed

VARIABLES
  made,          \* hooks installed so far
  slot,          \* the hook in the slot, Default if none
  previous,      \* per hook: what its installer had found there
  step,          \* per actor: the write of the slot that it is about to do,
                 \* what it saw before, and the hooks put there since then
  overwritten,   \* hooks put between the read and the write of another actor
  others,        \* the other library's hooks that it has not removed
  foreign,       \* ... and all it ever installed
  state,         \* of the reporter: "none", "open", "closing", "closed"
  hooked,        \* whether its init() installed a hook in this slot
  uninstallers,  \* its uninstallers for this slot, by hook
  late           \* install_asyncio_hook(): "no" call, its reporter "checked",
                 \* or "outdated", as another reporter is the current one now

vars == <<made, slot, previous, step, overwritten, others, foreign, state,
          hooked, uninstallers, late>>

Default == 0
Hook == 1..MaxHooks

\* init() and install_asyncio_hook() are one actor: the only slot that both
\* use is a loop's, and both run in the thread of that loop then.
Actor == {"install", "close", "other"}

Nothing == [does |-> "nothing", saw |-> Default, since |-> {}]

Init ==
  /\ made = 0
  /\ slot = Default
  /\ previous = [h \in Hook |-> Default]
  /\ step = [a \in Actor |-> Nothing]
  /\ overwritten = {}
  /\ others = {} /\ foreign = {}
  /\ state = "none" /\ hooked = FALSE
  /\ uninstallers = <<>>
  /\ late = "no"

\* What runs when the slot holds hook h.
Chain[h \in 0..MaxHooks] ==
  IF h = Default THEN {} ELSE {h} \union Chain[previous[h]]

-----------------------------------------------------------------------------
(* install_*hook() and uninstall(), statement by statement.                *)

\* previous = sys.excepthook.
Look(a) ==
  /\ step[a] = Nothing
  /\ step' = [step EXCEPT ![a] = [does |-> "put", saw |-> slot, since |-> {}]]
  /\ UNCHANGED <<made, slot, previous, overwritten>>

\* Bug: forgets what was there.
Remembers_Nothing(a) == Default

\* Bug: looks at the slot after it was set.
Remembers_Itself(a) == made + 1

\* The hook that the new one calls after its own handler.
Remembers(a) == step[a].saw

\* sys.excepthook = hook.
Put(a) ==
  /\ step[a].does = "put"
  /\ made < MaxHooks
  /\ made' = made + 1
  /\ slot' = made + 1
  /\ previous' = [previous EXCEPT ![made + 1] = Remembers(a)]
  /\ step' = [b \in Actor |->
                IF b = a \/ step[b] = Nothing THEN Nothing
                ELSE [step[b] EXCEPT !.since = @ \union {made + 1}]]
  /\ overwritten' = overwritten \union step[a].since

\* Bug: restores whether or not somebody came after it.
InSlot_Always(h) == TRUE

\* sys.excepthook is hook.
InSlot(h) == slot = h

Check(a, h) ==
  /\ step[a] = Nothing
  /\ InSlot(h)
  /\ step' = [step EXCEPT ![a] = [does |-> "restore", saw |-> h, since |-> {}]]
  /\ UNCHANGED <<made, slot, previous, overwritten>>

\* sys.excepthook = previous.
Restore(a) ==
  /\ step[a].does = "restore"
  /\ slot' = previous[step[a].saw]
  /\ step' = [step EXCEPT ![a] = Nothing]
  /\ overwritten' = overwritten \union step[a].since
  /\ UNCHANGED <<made, previous>>

-----------------------------------------------------------------------------
(* init(), install_asyncio_hook() and close(); init() and close() hold     *)
(* _init_lock.                                                             *)

InitLooks ==
  /\ state \in {"none", "closed"} /\ late = "no"
  /\ Look("install")
  /\ UNCHANGED <<others, foreign, state, hooked, uninstallers, late>>

InitReturns ==
  /\ late = "no"
  /\ Put("install")
  /\ state' = "open" /\ hooked' = TRUE
  /\ uninstallers' = <<made + 1>>
  /\ UNCHANGED <<others, foreign, late>>

\* A later hook of the list cannot be installed: init() raises, and the
\* uninstallers are lost with the reporter that was not published.
InitRaises ==
  /\ late = "no"
  /\ Put("install")
  /\ UNCHANGED <<others, foreign, state, hooked, uninstallers, late>>

\* An init() whose hooks= leaves this slot alone, in any thread.
InitElsewhere ==
  /\ state \in {"none", "closed"}
  /\ late = "no" => step["install"] = Nothing
  /\ state' = "open" /\ hooked' = FALSE
  /\ uninstallers' = <<>>
  /\ late' = IF late = "no" THEN "no" ELSE "outdated"
  /\ UNCHANGED <<made, slot, previous, step, overwritten, others, foreign>>

\* install_asyncio_hook(): the check for a closed reporter, ...
InstallCalled ==
  /\ late = "no" /\ step["install"] = Nothing
  /\ state = "open"
  /\ late' = "checked"
  /\ UNCHANGED <<made, slot, previous, step, overwritten, others, foreign,
                 state, hooked, uninstallers>>

\* ... and the installation, without _init_lock.
InstallLooks ==
  /\ late # "no"
  /\ Look("install")
  /\ UNCHANGED <<others, foreign, state, hooked, uninstallers, late>>

InstallReturns ==
  /\ late # "no"
  /\ Put("install")
  /\ uninstallers' = IF late = "checked" THEN Append(uninstallers, made + 1)
                                         ELSE uninstallers
  /\ late' = "no"
  /\ UNCHANGED <<others, foreign, state, hooked>>

CloseCalled ==
  /\ state = "open"
  /\ state' = "closing"
  /\ UNCHANGED <<made, slot, previous, step, overwritten, others, foreign,
                 hooked, uninstallers, late>>

\* The uninstallers in the order of installation.
UninstallChecks ==
  /\ state = "closing" /\ uninstallers # <<>>
  /\ Check("close", Head(uninstallers))
  /\ UNCHANGED <<others, foreign, state, hooked, uninstallers, late>>

UninstallSkips ==
  /\ state = "closing" /\ uninstallers # <<>>
  /\ step["close"] = Nothing /\ ~InSlot(Head(uninstallers))
  /\ uninstallers' = Tail(uninstallers)
  /\ UNCHANGED <<made, slot, previous, step, overwritten, others, foreign,
                 state, hooked, late>>

UninstallRestores ==
  /\ Restore("close")
  /\ uninstallers' = Tail(uninstallers)
  /\ UNCHANGED <<others, foreign, state, hooked, late>>

CloseReturns ==
  /\ state = "closing" /\ uninstallers = <<>>
  /\ state' = "closed"
  /\ UNCHANGED <<made, slot, previous, step, overwritten, others, foreign,
                 hooked, uninstallers, late>>

-----------------------------------------------------------------------------
(* The other library.                                                      *)

OtherLooks ==
  /\ Look("other")
  /\ UNCHANGED <<others, foreign, state, hooked, uninstallers, late>>

OtherReturns ==
  /\ Put("other")
  /\ others' = others \union {made + 1}
  /\ foreign' = foreign \union {made + 1}
  /\ UNCHANGED <<state, hooked, uninstallers, late>>

OtherChecks ==
  \E h \in others :
    /\ slot = h
    /\ Check("other", h)
    /\ others' = others \ {h}
    /\ UNCHANGED <<foreign, state, hooked, uninstallers, late>>

OtherSkips ==
  \E h \in others :
    /\ step["other"] = Nothing /\ slot # h
    /\ others' = others \ {h}
    /\ UNCHANGED <<made, slot, previous, step, overwritten, foreign, state,
                   hooked, uninstallers, late>>

OtherRestores ==
  /\ Restore("other")
  /\ UNCHANGED <<others, foreign, state, hooked, uninstallers, late>>

Next == \/ InitLooks \/ InitReturns \/ InitRaises \/ InitElsewhere
        \/ InstallCalled \/ InstallLooks \/ InstallReturns
        \/ CloseCalled \/ UninstallChecks \/ UninstallSkips
        \/ UninstallRestores \/ CloseReturns
        \/ OtherLooks \/ OtherReturns
        \/ OtherChecks \/ OtherSkips \/ OtherRestores

Spec == Init /\ [][Next]_vars

-----------------------------------------------------------------------------
(* Properties.                                                             *)

TypeOK ==
  /\ made \in 0..MaxHooks
  /\ slot \in 0..made
  /\ \A h \in Hook : previous[h] \in 0..(h - 1)
  /\ \A a \in Actor : /\ step[a].does \in {"nothing", "put", "restore"}
                       /\ step[a].saw \in 0..made
                       /\ step[a].since \subseteq 1..made
  /\ overwritten \subseteq 1..made
  /\ others \subseteq foreign /\ foreign \subseteq 1..made
  /\ state \in {"none", "open", "closing", "closed"} /\ hooked \in BOOLEAN
  /\ uninstallers \in Seq(Hook)
  /\ late \in {"no", "checked", "outdated"}

\* SPEC.md:523-524, hooks.py:15-19: whatever we install or remove, and in
\* whatever order, no hook of another library drops out of the chain, unless
\* it was put there after somebody's read of the slot and before the write
\* that belongs to it.
OthersAreKept == others \subseteq Chain[slot] \union overwritten

\* hooks.py:20, 34-36: while a reporter is open and its init() used the slot,
\* its handler is called, unless somebody wrote the slot over it likewise.
OpenIsHooked ==
  state = "open" /\ hooked =>
    /\ uninstallers # <<>>
    /\ Head(uninstallers) \in (Chain[slot] \ foreign) \union overwritten

\* What the documents say and the code does not do.

\* SPEC.md:523-524: in all cases, the hook that was there is chained.
OthersAreAlwaysKept == others \subseteq Chain[slot]

\* __init__.py:257-258, SPEC.md:517-518: close() removes our hooks.
RemovedByClose == state = "closed" => Chain[slot] \subseteq foreign
=============================================================================
