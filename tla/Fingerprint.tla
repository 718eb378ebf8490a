----------------------------- MODULE Fingerprint -----------------------------
(***************************************************************************)
(* Which occurrences count as the same error: compute(),                   *)
(* compute_from_record() and _relpath() of src/ml3error/fingerprint.py,    *)
(* and the traceback that report() finds for an exception.  A run reports  *)
(* two occurrences, each in a deployment with its own project_root.        *)
(*                                                                         *)
(* A path is the sequence of its names; the key is a hash of the           *)
(* fingerprint with a separator that no part holds, and is left out.       *)
(***************************************************************************)
EXTENDS Naturals, Sequences, SequencesExt

CONSTANTS
  Roots,      \* values of project_root
  Paths,      \* files that code may be in
  Types,      \* names of exception classes
  Levels,     \* names of log levels
  Funcs, Lines

VARIABLES
  occurrences,   \* the two that are compared, with their project_root
  fps            \* their fingerprints, once they are reported

vars == <<occurrences, fps>>

Frame == [path : Paths, func : Funcs, line : Lines]

\* Tracebacks: none, or the frames from the outermost to the innermost.
Tracebacks == {<<>>} \union {<<f>> : f \in Frame}
                \union {<<CHOOSE f \in Frame : TRUE, g>> : g \in Frame}

\* own: exc.__traceback__; handled: that of sys.exc_info() if it is of this
\* exception.
Exceptions == [kind : {"exception"}, type : Types, own : Tracebacks,
               handled : {<<>>, <<CHOOSE f \in Frame : TRUE>>}]
Records == [kind : {"record"}, level : Levels, at : Frame]

Init ==
  /\ occurrences \in [1..2 -> [what : Exceptions \union Records, root : Roots]]
  /\ fps = <<>>

-----------------------------------------------------------------------------

Unknown == <<"<unknown>">>

RelPath(path, root) ==
  IF IsPrefix(root, path) /\ root # path
    THEN SubSeq(path, Len(root) + 1, Len(path))
    ELSE <<Last(path)>>

\* _resolve_traceback()
Traceback(e) == IF e.own # <<>> THEN e.own ELSE e.handled

\* Bug: the frame where the exception was caught.
Site_Outermost(tb) == Head(tb)

\* _innermost()
Site(tb) == Last(tb)

Compute(e, root) ==
  LET tb == Traceback(e) IN
  IF tb = <<>> THEN <<e.type, Unknown, <<"<unknown>">>>>
  ELSE <<e.type, RelPath(Site(tb).path, root), <<Site(tb).func>>>>

\* The func slot, "func:lineno".
RecordSite(f) == <<f.func, f.line>>

ComputeFromRecord(r, root) == <<r.level, RelPath(r.at.path, root), RecordSite(r.at)>>

Of(o) == IF o.what.kind = "record" THEN ComputeFromRecord(o.what, o.root)
                                    ELSE Compute(o.what, o.root)

Report ==
  /\ fps = <<>>
  /\ fps' = [i \in 1..2 |-> Of(occurrences[i])]
  /\ UNCHANGED occurrences

Next == Report

Spec == Init /\ [][Next]_vars

-----------------------------------------------------------------------------
(* Properties.                                                             *)

TypeOK ==
  /\ occurrences \in [1..2 -> [what : Exceptions \union Records, root : Roots]]
  /\ \A i \in 1..Len(fps) : /\ fps[i][1] \in Types \union Levels
                            /\ fps[i][2] # <<>> /\ fps[i][3] # <<>>

Reported == fps # <<>>
Same == fps[1] = fps[2]
Both(kind) == \A i \in 1..2 : occurrences[i].what.kind = kind

\* The frame that raised, where there is one.
Raised(i) == LET e == occurrences[i].what
             IN IF e.own # <<>> THEN {Last(e.own)}
                ELSE {e.handled[j] : j \in {Len(e.handled)} \ {0}}

Inside(path, root) == IsPrefix(root, path)

\* A file as the project calls it.
Called(path, root) == SubSeq(path, Len(root) + 1, Len(path))

\* SPEC.md:205-213, fingerprint.py:32-37: in the project's own files, two
\* exceptions are the same error exactly if class name, relative path and
\* function of the raising frame agree: in whatever deployment, on whatever line, and
\* however they were reached.
ProjectErrors ==
  Reported /\ Both("exception") =>
    \A f \in Raised(1), g \in Raised(2) :
      LET r == occurrences[1].root
          s == occurrences[2].root
      IN  Inside(f.path, r) /\ Inside(g.path, s) =>
            (Same <=> /\ occurrences[1].what.type = occurrences[2].what.type
                      /\ Called(f.path, r) = Called(g.path, s)
                      /\ f.func = g.func)

\* fingerprint.py:52-56: two log calls on different lines, or of different
\* levels, are different errors, also in one function; and a log call and an
\* exception are never one error, even of a class that has the name of the
\* level: the cooldown of one does not silence the other.
LogSites ==
  Reported /\ Same =>
    \/ Both("exception")
    \/ LET a == occurrences[1].what
           b == occurrences[2].what
       IN  /\ Both("record")
           /\ a.level = b.level /\ a.at.func = b.at.func
           /\ a.at.line = b.at.line

\* What the documents say and the code does not do.

\* SPEC.md:133-136: a log call is known by its level, path and function.
LogFunctions ==
  Reported /\ Both("record") =>
    LET a == occurrences[1]
        b == occurrences[2]
    IN  /\ a.root = b.root
        /\ a.what.level = b.what.level
        /\ a.what.at.path = b.what.at.path
        /\ a.what.at.func = b.what.at.func
        => Same
=============================================================================
