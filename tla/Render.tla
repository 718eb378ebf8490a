-------------------------------- MODULE Render --------------------------------
(***************************************************************************)
(* The body of an alert: render(), _esc_html() and _close_dangling_html()  *)
(* in src/ml3error/transport.py, and the markup that Transport chooses.    *)
(*                                                                         *)
(* A body is a sequence of pieces, each with the number of characters it   *)
(* takes: a run of text, a tag, or a special character, which HTML writes  *)
(* as an entity.  A cut divides any of them.  Wordings are runs of Words   *)
(* characters, and the cap varies where the code's text does: what matters *)
(* is the piece that the cut falls into.                                   *)
(***************************************************************************)
EXTENDS Naturals, Sequences, FiniteSets, SequencesExt

CONSTANTS
  Contents,     \* what a user's text may be: sequences of characters
  Caps,         \* values of MAX_MESSAGE_CHARS
  OtherBodies   \* HTML bodies that render() does not write but
                \* _close_dangling_html() takes: with tags in tags

VARIABLES
  given,      \* config, the transport's name and its user's parse_mode; full,
              \* the body as assembled; cap, MAX_MESSAGE_CHARS
  body        \* the body that render() returns, <<>> until then

vars == <<given, body>>

-----------------------------------------------------------------------------
(* Pieces.                                                                 *)

Words == 3
Marker == 13     \* "\n...[truncated]"

Width == [pre |-> 3, code |-> 4, b |-> 1, i |-> 1]
Special == {"&", "<", ">"}

Text(n) == [kind |-> "text", tag |-> "", size |-> n]
Open(t) == [kind |-> "open", tag |-> t, size |-> Width[t] + 2]
Close(t) == [kind |-> "close", tag |-> t, size |-> Width[t] + 3]
Entity(c) == [kind |-> "entity", tag |-> c, size |-> IF c = "&" THEN 5 ELSE 4]
Raw(c) == [kind |-> "raw", tag |-> c, size |-> 1]

Whole(p) == CASE p.kind = "open" -> p = Open(p.tag)
              [] p.kind = "close" -> p = Close(p.tag)
              [] p.kind = "entity" -> p = Entity(p.tag)
              [] OTHER -> TRUE

Size(s) ==
  LET sum[k \in 0..Len(s)] == IF k = 0 THEN 0 ELSE sum[k - 1] + s[k].size
  IN  sum[Len(s)]

-----------------------------------------------------------------------------
(* Transport.                                                              *)

Names == {"telegram", "email"}
ParseModes == {"unset", "html", "HTML", "markdown", ""}

\* What the provider is called with.
ParseMode(c) == IF c.name = "telegram" /\ c.mode = "unset" THEN "html" ELSE c.mode

\* Bug: compares the user's value as it is written.
Markup_Exact(c) == IF c.name = "telegram" /\ ParseMode(c) = "html"
                     THEN "html" ELSE "plain"

Markup(c) == IF c.name = "telegram" /\ ParseMode(c) \in {"html", "HTML"}
               THEN "html" ELSE "plain"

-----------------------------------------------------------------------------
(* The full body.                                                          *)

Esc(m, s) == [i \in 1..Len(s) |->
                IF s[i] \notin Special THEN Text(1)
                ELSE IF m = "html" THEN Entity(s[i]) ELSE Raw(s[i])]

Tagged(m, t, s) == IF m = "html" THEN <<Open(t)>> \o s \o <<Close(t)>> ELSE s

Say == <<Text(Words)>>

Assembled(m, p) ==
  LET When(cond, s) == IF cond THEN s ELSE <<>>
  IN  Tagged(m, "b", Say) \o Tagged(m, "b", Say) \o Say \o Esc(m, p.message)
      \o When(p.regression, Say \o Tagged(m, "b", Say))
      \o Say \o Tagged(m, "code", Esc(m, p.place)) \o Say
      \o When(p.suppressed, Say \o Tagged(m, "i", Say))
      \o When(p.trace # <<>>, Say \o Tagged(m, "pre", Esc(m, p.trace)))
      \o When(p.locals # <<>>, Say \o Tagged(m, "pre", Esc(m, p.locals)))

Payloads == [message : Contents, place : Contents, trace : Contents,
             locals : Contents, regression : BOOLEAN, suppressed : BOOLEAN]

-----------------------------------------------------------------------------
(* Truncation.                                                             *)

\* body[:n]
Cut(s, n) ==
  LET k == Max({i \in 0..Len(s) : Size(SubSeq(s, 1, i)) <= n})
      rest == n - Size(SubSeq(s, 1, k))
      kept == SubSeq(s, 1, k)
  IN  IF rest = 0 \/ k = Len(s) THEN kept
      ELSE Append(kept, [s[k + 1] EXCEPT !.size = rest])

IsTag(p) == p.kind \in {"open", "close"}

\* _PARTIAL_TAG_RE
WithoutPartialTag(s) ==
  IF s # <<>> /\ IsTag(Last(s)) /\ ~Whole(Last(s)) THEN Front(s) ELSE s

\* The stack of open tags after one more piece.
Push(stack, p) ==
  IF p.kind = "open" THEN Append(stack, p.tag)
  ELSE IF p.kind = "close" /\ stack # <<>> /\ Last(stack) = p.tag THEN Front(stack)
  ELSE stack

OpenTags(s) ==
  LET stack[k \in 0..Len(s)] == IF k = 0 THEN <<>> ELSE Push(stack[k - 1], s[k])
  IN  stack[Len(s)]

\* Bug: closes the tags in the order they were opened.
Closers_Fifo(s) == LET stack == OpenTags(s)
                   IN [i \in 1..Len(stack) |-> Close(stack[i])]

Closers(s) == LET stack == Reverse(OpenTags(s))
              IN [i \in 1..Len(stack) |-> Close(stack[i])]

CloseDangling(s) == LET kept == WithoutPartialTag(s) IN kept \o Closers(kept)

\* Bug: leaves no room for the marker.
Truncated_NoRoom(m, s, n) ==
  LET cut == Cut(s, n)
  IN (IF m = "html" THEN CloseDangling(cut) ELSE cut) \o <<Text(Marker)>>

Truncated(m, s, n) ==
  LET cut == Cut(s, n - Marker)
  IN (IF m = "html" THEN CloseDangling(cut) ELSE cut) \o <<Text(Marker)>>

-----------------------------------------------------------------------------

Bodies(c) == {Assembled(Markup(c), p) : p \in Payloads}
               \union IF Markup(c) = "html" THEN OtherBodies ELSE {}

Configs == [name : Names, mode : ParseModes]

Init ==
  /\ \E c \in Configs, n \in Caps :
       \E s \in Bodies(c) : given = [config |-> c, full |-> s, cap |-> n]
  /\ body = <<>>

Fits ==
  /\ body = <<>> /\ Size(given.full) <= given.cap
  /\ body' = given.full
  /\ UNCHANGED given

TooLong ==
  /\ body = <<>> /\ Size(given.full) > given.cap
  /\ body' = Truncated(Markup(given.config), given.full, given.cap)
  /\ UNCHANGED given

Next == Fits \/ TooLong

Spec == Init /\ [][Next]_vars

-----------------------------------------------------------------------------
(* Properties.                                                             *)

Piece == [kind : {"text", "raw"}, tag : Special \union {""}, size : Nat \ {0}]
           \union [kind : {"open", "close"}, tag : DOMAIN Width, size : Nat \ {0}]
           \union [kind : {"entity"}, tag : Special, size : 1..5]

\* A body in HTML before it is cut: a closing tag closes the last open one.
IsHtml(s) ==
  /\ s \in Seq(Piece)
  /\ \A i \in 1..Len(s) : Whole(s[i]) /\ s[i].kind # "raw"
  /\ OpenTags(s) = <<>>
  /\ \A i \in 1..Len(s) : s[i].kind = "close" =>
       LET stack == OpenTags(SubSeq(s, 1, i - 1))
       IN  stack # <<>> /\ Last(stack) = s[i].tag

TypeOK ==
  /\ given.config \in Configs
  /\ given.cap \in Caps
  /\ \A i \in 1..Len(given.full) :
       given.full[i] \in Piece /\ Whole(given.full[i])
  /\ \A i \in 1..Len(body) : body[i] \in Piece

\* The provider reads the body as HTML.
ReadAsHtml == /\ given.config.name = "telegram"
              /\ ParseMode(given.config) \in {"html", "HTML"}

\* transport.py:140-142: Telegram rejects a message with a tag that is not
\* closed or not properly nested.  Every opening tag has a closing one, with
\* all that is opened between them closed between them, and the reverse.
TagsBalanced ==
  LET Count(i, j, p) == Cardinality({k \in i..j : body[k] = p})
      Closed(i, j) ==
        /\ body[i].kind = "open" /\ body[j].kind = "close"
        /\ body[i].tag = body[j].tag
        /\ \A t \in DOMAIN Width : Count(i, j, Open(t)) = Count(i, j, Close(t))
  IN  /\ \A i \in 1..Len(body) : IsTag(body[i]) => Whole(body[i])
      /\ \A i \in 1..Len(body) : body[i].kind = "open" =>
           \E j \in i..Len(body) : Closed(i, j)
      /\ \A j \in 1..Len(body) : body[j].kind = "close" =>
           \E i \in 1..j : Closed(i, j)

\* transport.py:167-175: where the provider reads HTML, a user's special
\* characters are escaped and the library's tags are tags; elsewhere there
\* are neither tags nor entities.
EscapedWhenParsed ==
  \A i \in 1..Len(body) :
    body[i].kind \in IF ReadAsHtml THEN {"text", "open", "close", "entity"}
                                   ELSE {"text", "raw"}

\* SPEC.md:366-368: only the tail is lost, at most the room of the marker and
\* of a partial tag, and only when the body was too long; the closing tags
\* take the body no further beyond the cap than one of each open tag.
OnlyTheTailIsLost ==
  LET full == given.full
      cap == given.cap
  IN  body # <<>> /\ body # full =>
        \E k \in 0..(Len(body) - 1) :
          /\ k < Len(full)
          /\ SubSeq(body, 1, k) = SubSeq(full, 1, k)
          /\ Size(full) > cap
          /\ Size(SubSeq(full, 1, k + 1)) > cap - Marker
          /\ Size(body) <= cap + Size(Closers(SubSeq(full, 1, k)))

\* What the documents say and the code does not do.

\* SPEC.md:171, 367-368: a single hard cap.
HardCap == Size(body) <= given.cap

\* transport.py:120, 133, 142: what is left behind is well-formed: no `&` that
\* does not begin an entity.
NoBareAmpersand ==
  ReadAsHtml => \A i \in 1..Len(body) : Whole(body[i])
=============================================================================
