------------------------------ MODULE ReviewUI -------------------------------
(***************************************************************************)
(* The review page in a browser and its server: fetchList(), the filter    *)
(* buttons and the Resolve button of src/ml3error/static/script.js, and    *)
(* do_GET and do_POST of src/ml3error/web.py, a thread per request with    *)
(* one lock around the store.                                              *)
(*                                                                         *)
(* A list is a function from the rows it has to their marks.  The search   *)
(* box and the expanded rows change only what is drawn, and are left out.  *)
(***************************************************************************)
EXTENDS Naturals, Sequences, SequencesExt

CONSTANTS
  Row,        \* fingerprints in the store
  MaxAsked    \* bound: requests ever sent

VARIABLES
  resolved,       \* the store's mark of each row
  currentFilter, allItems,
  gets, posts,    \* requests under way, in the order they were sent
  asked,          \* requests sent so far; numbers them
  lastGet,        \* the number of the last list request
  shownGet,       \* ... and of the one that is shown
  wanted,         \* per row, the last mark that was clicked
  excused,        \* rows whose mark the page does not decide alone: the
                  \* error recurred or a request was lost
  overtaken       \* rows of which the server took a later click first

vars == <<resolved, currentFilter, allItems, gets, posts, asked, lastGet,
          shownGet, wanted, excused, overtaken>>

Filters == {"unresolved", "resolved", "all"}

Wants(f, mark) == f = "all" \/ (f = "resolved") = mark

\* list_fingerprints()
Listed(f) == [r \in {q \in Row : Wants(f, resolved[q])} |-> resolved[r]]

Request(id, f) == [id |-> id, filter |-> f, done |-> FALSE, answer |-> << >>]

Init ==
  /\ resolved \in [Row -> BOOLEAN]
  /\ currentFilter = "unresolved"
  /\ allItems = << >>
  /\ gets = <<Request(1, "unresolved")>>
  /\ posts = <<>>
  /\ asked = 1 /\ lastGet = 1 /\ shownGet = 0
  /\ wanted = resolved
  /\ excused = {} /\ overtaken = {}

-----------------------------------------------------------------------------
(* The page.                                                               *)

\* fetchList() up to its await.
FetchList(f, others) ==
  /\ asked < MaxAsked
  /\ asked' = asked + 1
  /\ lastGet' = asked + 1
  /\ gets' = Append(others, Request(asked + 1, f))

ClickFilter(f) ==
  /\ currentFilter' = f
  /\ FetchList(f, gets)
  /\ UNCHANGED <<resolved, allItems, posts, shownGet, wanted, excused, overtaken>>

\* The button asks for the mark that the drawn row does not have.
ClickToggle(r) ==
  /\ r \in DOMAIN allItems
  /\ asked < MaxAsked
  /\ asked' = asked + 1
  /\ posts' = Append(posts, [fp |-> r, resolved |-> ~allItems[r], done |-> FALSE])
  /\ wanted' = [wanted EXCEPT ![r] = ~allItems[r]]
  /\ UNCHANGED <<resolved, currentFilter, allItems, gets, lastGet, shownGet,
                 excused, overtaken>>

\* Bug: leaves the list as it was asked for before the click.
PostAnswered_KeepsList(i) ==
  /\ posts[i].done
  /\ posts' = RemoveAt(posts, i)
  /\ UNCHANGED <<resolved, currentFilter, allItems, gets, asked, lastGet,
                 shownGet, wanted, excused, overtaken>>

PostAnswered(i) ==
  /\ posts[i].done
  /\ posts' = RemoveAt(posts, i)
  /\ FetchList(currentFilter, gets)
  /\ UNCHANGED <<resolved, currentFilter, allItems, shownGet, wanted, excused, overtaken>>

ListArrives(i) ==
  /\ gets[i].done
  /\ allItems' = gets[i].answer
  /\ shownGet' = gets[i].id
  /\ gets' = RemoveAt(gets, i)
  /\ UNCHANGED <<resolved, currentFilter, posts, asked, lastGet, wanted, excused, overtaken>>

-----------------------------------------------------------------------------
(* The server: a thread per request, in any order.                         *)

DoGet(i) ==
  /\ ~gets[i].done
  /\ gets' = [gets EXCEPT ![i].done = TRUE,
                           ![i].answer = Listed(gets[i].filter)]
  /\ UNCHANGED <<resolved, currentFilter, allItems, posts, asked, lastGet,
                 shownGet, wanted, excused, overtaken>>

Overtaken(i) ==
  IF \E j \in 1..(i - 1) : ~posts[j].done /\ posts[j].fp = posts[i].fp
    THEN overtaken \union {posts[i].fp} ELSE overtaken

\* Bug: turns the mark around instead of setting it.
DoPost_Flips(i) ==
  /\ ~posts[i].done
  /\ overtaken' = Overtaken(i)
  /\ resolved' = [resolved EXCEPT ![posts[i].fp] = ~@]
  /\ posts' = [posts EXCEPT ![i].done = TRUE]
  /\ UNCHANGED <<currentFilter, allItems, gets, asked, lastGet, shownGet,
                 wanted, excused>>

DoPost(i) ==
  /\ ~posts[i].done
  /\ overtaken' = Overtaken(i)
  /\ resolved' = [resolved EXCEPT ![posts[i].fp] = posts[i].resolved]
  /\ posts' = [posts EXCEPT ![i].done = TRUE]
  /\ UNCHANGED <<currentFilter, allItems, gets, asked, lastGet, shownGet,
                 wanted, excused>>

-----------------------------------------------------------------------------
(* The environment.                                                        *)

\* The error occurs again: decide() takes the mark away.
Recurs(r) ==
  /\ resolved[r]
  /\ resolved' = [resolved EXCEPT ![r] = FALSE]
  /\ excused' = excused \union {r}
  /\ UNCHANGED <<currentFilter, allItems, gets, posts, asked, lastGet,
                 shownGet, wanted, overtaken>>

\* fetch() rejects: fetchList() and the click's handler end there.
GetFails(i) ==
  /\ gets' = RemoveAt(gets, i)
  /\ UNCHANGED <<resolved, currentFilter, allItems, posts, asked, lastGet,
                 shownGet, wanted, excused, overtaken>>

PostFails(i) ==
  /\ excused' = excused \union {posts[i].fp}
  /\ posts' = RemoveAt(posts, i)
  /\ UNCHANGED <<resolved, currentFilter, allItems, gets, asked, lastGet,
                 shownGet, wanted, overtaken>>

Next ==
  \/ \E f \in Filters : ClickFilter(f)
  \/ \E r \in Row : ClickToggle(r) \/ Recurs(r)
  \/ \E i \in 1..Len(posts) : DoPost(i) \/ PostAnswered(i) \/ PostFails(i)
  \/ \E i \in 1..Len(gets) : DoGet(i) \/ ListArrives(i) \/ GetFails(i)

Spec == Init /\ [][Next]_vars

-----------------------------------------------------------------------------
(* Properties.                                                             *)

TypeOK ==
  /\ resolved \in [Row -> BOOLEAN] /\ wanted \in [Row -> BOOLEAN]
  /\ currentFilter \in Filters
  /\ \A r \in DOMAIN allItems : r \in Row /\ allItems[r] \in BOOLEAN
  /\ asked \in 1..MaxAsked
  /\ shownGet \in 0..lastGet /\ lastGet \in 1..asked
  /\ excused \subseteq Row /\ overtaken \subseteq Row

\* script.js:94-98, web.py:112-114: the mark is sent, not turned around, so
\* clicking twice before the page has followed leaves every row as the last
\* click on it wanted, in any interleaving with the lists, unless the server
\* took the later click first.
LastClickWins ==
  \A r \in Row \ (excused \union overtaken) :
    (\A i \in 1..Len(posts) : posts[i].fp # r) => resolved[r] = wanted[r]

Quiet == gets = <<>> /\ posts = <<>>

\* script.js:95-100: the list is asked for again once the mark is in the
\* store.  A page with nothing under way, whose last list arrived, shows what
\* the store has under the filter that is on, in any order of the answers.
QuietPageIsCurrent ==
  Quiet /\ shownGet = lastGet /\ excused = {} => allItems = Listed(currentFilter)

\* What the code does not do.

\* index.html:202-204, script.js:22-24: the rows that are shown are of the
\* filter that is on.
ShowsTheFilter ==
  Quiet => \A r \in DOMAIN allItems : Wants(currentFilter, allItems[r])
=============================================================================
