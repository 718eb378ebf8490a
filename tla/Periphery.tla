------------------------------- MODULE Periphery -------------------------------
(***************************************************************************)
(* The components around the core that share no state with it or with one  *)
(* another: a hook slot (Hooks), the review page and its server            *)
(* (ReviewUI), and two pure functions, the rendering of a body (Render)    *)
(* and fingerprints (Fingerprint).  As no step of one can matter to        *)
(* another, a behaviour is a behaviour of one of them (part), while the    *)
(* others rest: their interleavings would show nothing more.               *)
(***************************************************************************)
EXTENDS Naturals, Sequences

CONSTANTS MaxHooks,                                   \* of Hooks
          Row, MaxAsked,                              \* of ReviewUI
          Contents, Caps, OtherBodies,                \* of Render
          Roots, Paths, Types, Levels, Funcs, Lines   \* of Fingerprint

ASSUME PeripheryAssumption ==
  /\ MaxHooks \in Nat /\ MaxAsked \in Nat \ {0}
  /\ Caps \subseteq Nat \ 0..13
  /\ Contents \subseteq Seq(STRING)
  /\ Paths \union Roots \subseteq Seq(STRING) /\ <<>> \notin Paths
  /\ Paths \intersect Roots = {}   \* a directory is no file
  /\ {} \notin {Paths, Funcs, Lines}
  /\ Lines \subseteq Nat

VARIABLES
  part,     \* the component that runs
  made, slot, previous, step, overwritten, others, foreign, state, hooked,
  uninstallers, late,
  resolved, currentFilter, allItems, gets, posts, asked, lastGet, shownGet,
  wanted, excused, overtaken,
  input,    \* of the function that is called
  output    \* what it returned, <<>> until then

Slot == INSTANCE Hooks
Page == INSTANCE ReviewUI
Body == INSTANCE Render WITH given <- input, body <- output
Key == INSTANCE Fingerprint WITH occurrences <- input, fps <- output

ASSUME BodiesAssumption == \A s \in OtherBodies : Body!IsHtml(s)

slotVars == <<made, slot, previous, step, overwritten, others, foreign, state,
              hooked, uninstallers, late>>
pageVars == <<resolved, currentFilter, allItems, gets, posts, asked, lastGet,
              shownGet, wanted, excused, overtaken>>
functionVars == <<input, output>>
vars == <<part, slotVars, pageVars, functionVars>>

NotCalled == input = <<>> /\ output = <<>>

Init ==
  /\ Slot!Init
  /\ Page!Init
  /\ \/ part = "hooks" /\ NotCalled
     \/ part = "page" /\ NotCalled
     \/ part = "render" /\ Body!Init
     \/ part = "fingerprint" /\ Key!Init
  /\ part # "page" => resolved = [r \in Row |-> FALSE]

Next ==
  \/ /\ part = "hooks" /\ Slot!Next
     /\ UNCHANGED <<part, pageVars, functionVars>>
  \/ /\ part = "page" /\ Page!Next
     /\ UNCHANGED <<part, slotVars, functionVars>>
  \/ /\ part = "render" /\ Body!Next
     /\ UNCHANGED <<part, slotVars, pageVars>>
  \/ /\ part = "fingerprint" /\ Key!Next
     /\ UNCHANGED <<part, slotVars, pageVars>>

Spec == Init /\ [][Next]_vars

-----------------------------------------------------------------------------
(* Properties, each stated in its component.                               *)

TypeOK ==
  /\ Slot!TypeOK /\ Page!TypeOK
  /\ part = "render" => Body!TypeOK
  /\ part = "fingerprint" => Key!TypeOK

\* Hooks: no hook of another library drops out of the chain, but for one that
\* is put there between a read of the slot and the write that follows it.
OthersAreKept == Slot!OthersAreKept

\* Hooks: the handler of an open reporter is in the chain, with the same
\* exception.
OpenIsHooked == Slot!OpenIsHooked

\* ReviewUI: a row's mark is what the last click on it wanted.
LastClickWins == Page!LastClickWins

\* ReviewUI: a page at rest shows what the store has.
QuietPageIsCurrent == Page!QuietPageIsCurrent

\* Render: no tag is left open or crossed.
TagsBalanced == part = "render" => Body!TagsBalanced

\* Render: a user's text is escaped exactly where the provider reads HTML.
EscapedWhenParsed == part = "render" => Body!EscapedWhenParsed

\* Render: truncation loses nothing but the tail.
OnlyTheTailIsLost == part = "render" => Body!OnlyTheTailIsLost

\* Fingerprint: which exceptions and which log calls are the same error, and
\* never an exception and a log call.
SameErrors == part = "fingerprint" => Key!ProjectErrors /\ Key!LogSites
=============================================================================
