--------------------------- MODULE RedisStoreProofs ---------------------------
(***************************************************************************)
(* Proofs about RedisStore, for any number of processes, occurrences,      *)
(* kills and ticks.                                                        *)
(***************************************************************************)
EXTENDS RedisStore, SequenceTheorems, FiniteSetTheorems, TLAPS

-----------------------------------------------------------------------------
(* Batches.  None has more than four commands; what each does is written   *)
(* out, as Batch does it.                                                  *)

LEMMA BatchOf1 ==
  ASSUME NEW a, NEW n, NEW m
  PROVE  Batch(<<a>>, n, m) = Do(row, a, n, m)
  <1> DEFINE F(g, k) == IF k = 0 THEN row ELSE Do(g[k - 1], <<a>>[k], n, m)
             w == [k \in 0..1 |-> IF k = 0 THEN row
                    ELSE Do(row, a, n, m)]
  <1>1. Len(<<a>>) = 1 /\ <<a>>[1] = a
    OBVIOUS
  <1>2. w = [k \in 0..1 |-> F(w, k)]
    <2> SUFFICES ASSUME NEW k \in 0..1 PROVE w[k] = F(w, k)
      OBVIOUS
    <2>1. k = 0 \/ k = 1
      OBVIOUS
    <2> QED
      BY <1>1, <2>1
  <1>3. \E g : g = [k \in 0..1 |-> F(g, k)]
    BY <1>2
  <1> HIDE DEF w
  <1>4. PICK g : g = [k \in 0..1 |-> F(g, k)] /\ Batch(<<a>>, n, m) = g[1]
    BY <1>1, <1>3 DEF Batch
  <1>5. g[0] = F(g, 0) /\ g[1] = F(g, 1)
    BY <1>4
  <1> QED
    BY <1>1, <1>4, <1>5

LEMMA BatchOf2 ==
  ASSUME NEW a, NEW b, NEW n, NEW m
  PROVE  Batch(<<a, b>>, n, m) = Do(Do(row, a, n, m), b, n, m)
  <1> DEFINE F(g, k) == IF k = 0 THEN row ELSE Do(g[k - 1], <<a, b>>[k], n, m)
             w == [k \in 0..2 |-> IF k = 0 THEN row
                    ELSE IF k = 1 THEN Do(row, a, n, m)
                    ELSE Do(Do(row, a, n, m), b, n, m)]
  <1>1. Len(<<a, b>>) = 2 /\ <<a, b>>[1] = a /\ <<a, b>>[2] = b
    OBVIOUS
  <1>2. w = [k \in 0..2 |-> F(w, k)]
    <2> SUFFICES ASSUME NEW k \in 0..2 PROVE w[k] = F(w, k)
      OBVIOUS
    <2>1. k = 0 \/ k = 1 \/ k = 2
      OBVIOUS
    <2> QED
      BY <1>1, <2>1
  <1>3. \E g : g = [k \in 0..2 |-> F(g, k)]
    BY <1>2
  <1> HIDE DEF w
  <1>4. PICK g : g = [k \in 0..2 |-> F(g, k)] /\ Batch(<<a, b>>, n, m) = g[2]
    BY <1>1, <1>3 DEF Batch
  <1>5. g[0] = F(g, 0) /\ g[1] = F(g, 1) /\ g[2] = F(g, 2)
    BY <1>4
  <1> QED
    BY <1>1, <1>4, <1>5

LEMMA BatchOf3 ==
  ASSUME NEW a, NEW b, NEW c, NEW n, NEW m
  PROVE  Batch(<<a, b, c>>, n, m) = Do(Do(Do(row, a, n, m), b, n, m), c, n, m)
  <1> DEFINE F(g, k) == IF k = 0 THEN row ELSE Do(g[k - 1], <<a, b, c>>[k], n, m)
             w == [k \in 0..3 |-> IF k = 0 THEN row
                    ELSE IF k = 1 THEN Do(row, a, n, m)
                    ELSE IF k = 2 THEN Do(Do(row, a, n, m), b, n, m)
                    ELSE Do(Do(Do(row, a, n, m), b, n, m), c, n, m)]
  <1>1. Len(<<a, b, c>>) = 3 /\ <<a, b, c>>[1] = a /\ <<a, b, c>>[2] = b /\ <<a, b, c>>[3] = c
    OBVIOUS
  <1>2. w = [k \in 0..3 |-> F(w, k)]
    <2> SUFFICES ASSUME NEW k \in 0..3 PROVE w[k] = F(w, k)
      OBVIOUS
    <2>1. k = 0 \/ k = 1 \/ k = 2 \/ k = 3
      OBVIOUS
    <2> QED
      BY <1>1, <2>1
  <1>3. \E g : g = [k \in 0..3 |-> F(g, k)]
    BY <1>2
  <1> HIDE DEF w
  <1>4. PICK g : g = [k \in 0..3 |-> F(g, k)] /\ Batch(<<a, b, c>>, n, m) = g[3]
    BY <1>1, <1>3 DEF Batch
  <1>5. g[0] = F(g, 0) /\ g[1] = F(g, 1) /\ g[2] = F(g, 2) /\ g[3] = F(g, 3)
    BY <1>4
  <1> QED
    BY <1>1, <1>4, <1>5

LEMMA BatchOf4 ==
  ASSUME NEW a, NEW b, NEW c, NEW d, NEW n, NEW m
  PROVE  Batch(<<a, b, c, d>>, n, m) =
           Do(Do(Do(Do(row, a, n, m), b, n, m), c, n, m), d, n, m)
  <1> DEFINE F(g, k) == IF k = 0 THEN row ELSE Do(g[k - 1], <<a, b, c, d>>[k], n, m)
             w == [k \in 0..4 |-> IF k = 0 THEN row
                    ELSE IF k = 1 THEN Do(row, a, n, m)
                    ELSE IF k = 2 THEN Do(Do(row, a, n, m), b, n, m)
                    ELSE IF k = 3 THEN Do(Do(Do(row, a, n, m), b, n, m), c, n, m)
                    ELSE Do(Do(Do(Do(row, a, n, m), b, n, m), c, n, m), d, n, m)]
  <1>1. /\ Len(<<a, b, c, d>>) = 4
        /\ <<a, b, c, d>>[1] = a /\ <<a, b, c, d>>[2] = b
        /\ <<a, b, c, d>>[3] = c /\ <<a, b, c, d>>[4] = d
    OBVIOUS
  <1>2. w = [k \in 0..4 |-> F(w, k)]
    <2> SUFFICES ASSUME NEW k \in 0..4 PROVE w[k] = F(w, k)
      OBVIOUS
    <2>1. k = 0 \/ k = 1 \/ k = 2 \/ k = 3 \/ k = 4
      OBVIOUS
    <2> QED
      BY <1>1, <2>1
  <1>3. \E g : g = [k \in 0..4 |-> F(g, k)]
    BY <1>2
  <1> HIDE DEF w
  <1>4. PICK g : g = [k \in 0..4 |-> F(g, k)] /\ Batch(<<a, b, c, d>>, n, m) = g[4]
    BY <1>1, <1>3 DEF Batch
  <1>5. g[0] = F(g, 0) /\ g[1] = F(g, 1) /\ g[2] = F(g, 2) /\ g[3] = F(g, 3) /\ g[4] = F(g, 4)
    BY <1>4
  <1> QED
    BY <1>1, <1>4, <1>5

-----------------------------------------------------------------------------
(* Rows, and what a batch does to one.                                     *)

Rows == [exists : BOOLEAN, named : BOOLEAN, expires : Nat \union {Forever},
         last_notified : Nat \union {Never}, suppressed_count : Int,
         resolved : BOOLEAN]

Typed(r) == r \in Rows /\ (~r.exists => r = NoRow)

\* The batches, by name.
Ins == <<"insert">>
Exp == <<"expire">>
Msg == <<"message">>
Opn == <<"open">>
Cnt == <<"count">>
CntMeta == <<"count meta">>
Clr == <<"clear">>
Zero == <<"zero">>
Rsv == <<"resolve">>
Chk == <<"check">>
Opens == <<"open", "expire">>
Bump == <<"open", "count", "count meta", "expire">>
Notify == <<"notify", "subtract", "expire">>

Expiring == {Exp, Opens, Bump, Notify}
Others == {Ins, Opn, Cnt, CntMeta, Rsv, Zero, Clr, Msg}

\* What a command does to the fields that the properties are about.
Does(r, c, now, reported, s) ==
  /\ Typed(s)
  /\ r.exists \/ c \notin {"expire", "count meta"} => s.exists
  /\ c = "expire" /\ s.exists => s.expires # Forever
  /\ c # "expire" /\ r.exists => s.expires = r.expires
  /\ s.last_notified = IF c \in {"notify", "clear"} THEN now ELSE r.last_notified
  /\ s.suppressed_count =
       IF c \in {"insert", "zero", "clear"} THEN 0
       ELSE IF c = "count" THEN r.suppressed_count + 1
       ELSE IF c = "subtract" THEN r.suppressed_count - reported
       ELSE r.suppressed_count

Commands == {"insert", "open", "resolve", "count", "notify", "subtract", "zero",
             "clear", "message", "expire", "count meta"}

LEMMA CommandDoes ==
  ASSUME NEW r, Typed(r), NEW c \in Commands, NEW now \in Nat,
         NEW reported \in Int, clock \in Nat
  PROVE  Does(r, c, now, reported, Do(r, c, now, reported))
  <1> DEFINE s == Do(r, c, now, reported)
             h == [r EXCEPT !.exists = TRUE]
  <1> SUFFICES Does(r, c, now, reported, s)
    OBVIOUS
  <1>1. /\ r \in Rows
        /\ ~r.exists => r.last_notified = Never /\ r.suppressed_count = 0
        /\ clock + TTL \in Nat /\ clock + TTL # Forever
    BY RedisAssumption DEF Typed, NoRow, Forever
  <1>2. /\ h \in Rows /\ h.exists = TRUE /\ h.expires = r.expires
        /\ h.last_notified = r.last_notified
        /\ h.suppressed_count = r.suppressed_count
    BY <1>1 DEF Rows
  <1> HIDE DEF h
  <1>3. CASE c = "insert"
    <2>1. s = [h EXCEPT !.named = TRUE, !.resolved = FALSE, !.suppressed_count = 0]
      BY <1>3 DEF Do, h
    <2>2. s \in Rows
      <3>1. [h EXCEPT !.named = TRUE] \in Rows
        BY <1>2 DEF Rows
      <3>2. PICK g \in Rows : g = [[h EXCEPT !.named = TRUE] EXCEPT !.resolved = FALSE]
        BY <3>1 DEF Rows
      <3>3. s = [g EXCEPT !.suppressed_count = 0]
        BY <2>1, <3>2
      <3> QED
        BY <3>3 DEF Rows
    <2>3. /\ s.exists = TRUE /\ s.expires = r.expires
          /\ s.last_notified = r.last_notified
          /\ s.suppressed_count = 0
      <3>1. s = [[[h EXCEPT !.named = TRUE] EXCEPT !.resolved = FALSE]
                   EXCEPT !.suppressed_count = 0]
        BY <2>1
      <3>2. s.suppressed_count = 0
        BY <3>1, <1>2 DEF Rows
      <3>3. s.last_notified = r.last_notified
        BY <3>1, <1>2 DEF Rows
      <3> QED
        BY <3>1, <3>2, <3>3, <1>2 DEF Rows
    <2> HIDE DEF s
    <2>4. Typed(s)
      BY <2>2, <2>3 DEF Typed
    <2> QED
      BY <1>3, <2>3, <2>4 DEF Does
  <1>4. CASE c = "open"
    <2>1. s = [h EXCEPT !.resolved = FALSE]
      BY <1>4 DEF Do, h
    <2>2. s \in Rows
      BY <2>1, <1>2 DEF Rows
    <2>3. /\ s.exists = TRUE /\ s.expires = r.expires
          /\ s.last_notified = r.last_notified
          /\ s.suppressed_count = r.suppressed_count
      BY <2>1, <1>2 DEF Rows
    <2> HIDE DEF s
    <2>4. Typed(s)
      BY <2>2, <2>3 DEF Typed
    <2> QED
      BY <1>4, <2>3, <2>4 DEF Does
  <1>5. CASE c = "resolve"
    <2>1. s = [h EXCEPT !.resolved = TRUE]
      BY <1>5 DEF Do, h
    <2>2. s \in Rows
      BY <2>1, <1>2 DEF Rows
    <2>3. /\ s.exists = TRUE /\ s.expires = r.expires
          /\ s.last_notified = r.last_notified
          /\ s.suppressed_count = r.suppressed_count
      BY <2>1, <1>2 DEF Rows
    <2> HIDE DEF s
    <2>4. Typed(s)
      BY <2>2, <2>3 DEF Typed
    <2> QED
      BY <1>5, <2>3, <2>4 DEF Does
  <1>6. CASE c = "count"
    <2>1. s = [h EXCEPT !.suppressed_count = h.suppressed_count + 1]
      BY <1>6 DEF Do, h
    <2>2. s \in Rows
      BY <2>1, <1>2 DEF Rows
    <2>3. /\ s.exists = TRUE /\ s.expires = r.expires
          /\ s.last_notified = r.last_notified
          /\ s.suppressed_count = r.suppressed_count + 1
      BY <2>1, <1>2 DEF Rows
    <2> HIDE DEF s
    <2>4. Typed(s)
      BY <2>2, <2>3 DEF Typed
    <2> QED
      BY <1>6, <2>3, <2>4 DEF Does
  <1>7. CASE c = "notify"
    <2>1. s = [h EXCEPT !.last_notified = now]
      BY <1>7 DEF Do, h
    <2>2. s \in Rows
      BY <2>1, <1>2 DEF Rows
    <2>3. /\ s.exists = TRUE /\ s.expires = r.expires
          /\ s.last_notified = now
          /\ s.suppressed_count = r.suppressed_count
      BY <2>1, <1>2 DEF Rows
    <2> HIDE DEF s
    <2>4. Typed(s)
      BY <2>2, <2>3 DEF Typed
    <2> QED
      BY <1>7, <2>3, <2>4 DEF Does
  <1>8. CASE c = "subtract"
    <2>1. s = [h EXCEPT !.suppressed_count = h.suppressed_count - reported]
      BY <1>8 DEF Do, h
    <2>2. s \in Rows
      BY <2>1, <1>2 DEF Rows
    <2>3. /\ s.exists = TRUE /\ s.expires = r.expires
          /\ s.last_notified = r.last_notified
          /\ s.suppressed_count = r.suppressed_count - reported
      BY <2>1, <1>2 DEF Rows
    <2> HIDE DEF s
    <2>4. Typed(s)
      BY <2>2, <2>3 DEF Typed
    <2> QED
      BY <1>8, <2>3, <2>4 DEF Does
  <1>9. CASE c = "zero"
    <2>1. s = [h EXCEPT !.suppressed_count = 0]
      BY <1>9 DEF Do, h
    <2>2. s \in Rows
      BY <2>1, <1>2 DEF Rows
    <2>3. /\ s.exists = TRUE /\ s.expires = r.expires
          /\ s.last_notified = r.last_notified
          /\ s.suppressed_count = 0
      BY <2>1, <1>2 DEF Rows
    <2> HIDE DEF s
    <2>4. Typed(s)
      BY <2>2, <2>3 DEF Typed
    <2> QED
      BY <1>9, <2>3, <2>4 DEF Does
  <1>10. CASE c = "clear"
    <2>1. s = [h EXCEPT !.suppressed_count = 0, !.last_notified = now]
      BY <1>10 DEF Do, h
    <2>2. s \in Rows
      <3>1. [h EXCEPT !.suppressed_count = 0] \in Rows
        BY <1>2 DEF Rows
      <3>2. s = [[h EXCEPT !.suppressed_count = 0] EXCEPT !.last_notified = now]
        BY <2>1
      <3> QED
        BY <3>1, <3>2 DEF Rows
    <2>3. /\ s.exists = TRUE /\ s.expires = r.expires
          /\ s.last_notified = now
          /\ s.suppressed_count = 0
      BY <2>1, <1>2 DEF Rows
    <2> HIDE DEF s
    <2>4. Typed(s)
      BY <2>2, <2>3 DEF Typed
    <2> QED
      BY <1>10, <2>3, <2>4 DEF Does
  <1>11. CASE c = "message"
    <2>1. s = h
      BY <1>11 DEF Do, h
    <2>2. s \in Rows
      BY <2>1, <1>2 DEF Rows
    <2>3. /\ s.exists = TRUE /\ s.expires = r.expires
          /\ s.last_notified = r.last_notified
          /\ s.suppressed_count = r.suppressed_count
      BY <2>1, <1>2 DEF Rows
    <2> HIDE DEF s
    <2>4. Typed(s)
      BY <2>2, <2>3 DEF Typed
    <2> QED
      BY <1>11, <2>3, <2>4 DEF Does
  <1>12. CASE c = "expire"
    <2>1. CASE r.exists
      <3>1. s = [r EXCEPT !.expires = clock + TTL]
        BY <1>12, <2>1 DEF Do
      <3>2. s \in Rows
        BY <3>1, <1>1 DEF Rows
      <3>3. /\ s.exists /\ s.expires = clock + TTL
            /\ s.last_notified = r.last_notified
            /\ s.suppressed_count = r.suppressed_count
        BY <2>1, <3>1, <1>1 DEF Rows
      <3> HIDE DEF s
      <3> QED
        <4>1. Typed(s)
          BY <3>2, <3>3 DEF Typed
        <4> QED
          BY <1>1, <1>12, <3>3, <4>1 DEF Does
    <2>2. CASE ~r.exists
      <3>1. s = r
        BY <1>12, <2>2 DEF Do
      <3> HIDE DEF s
      <3> QED
        BY <1>12, <2>2, <3>1 DEF Does
    <2> QED
      BY <2>1, <2>2
  <1>13. CASE c = "count meta"
    <2>1. s = r
      BY <1>13 DEF Do
    <2> HIDE DEF s
    <2> QED
      BY <1>13, <2>1 DEF Does
  <1> QED
    BY <1>3, <1>4, <1>5, <1>6, <1>7, <1>8, <1>9, <1>10, <1>11, <1>12, <1>13
       DEF Commands

\* The same of a batch.
Effect(b, now, reported, s) ==
  /\ Typed(s)
  /\ row.exists \/ b \notin {Exp, CntMeta} => s.exists
  /\ b \in Expiring /\ s.exists => s.expires # Forever
  /\ b \notin Expiring /\ row.exists => s.expires = row.expires
  /\ s.last_notified = IF b \in {Notify, Clr} THEN now ELSE row.last_notified
  /\ s.suppressed_count =
       IF b \in {Ins, Zero, Clr} THEN 0
       ELSE IF b \in {Bump, Cnt} THEN row.suppressed_count + 1
       ELSE IF b = Notify THEN row.suppressed_count - reported
       ELSE row.suppressed_count

\* Batches of different commands are different.
LEMMA BatchesDiffer ==
  /\ \A c, d : <<c>> = <<d>> <=> c = d
  /\ \A c, d, e : <<c>> # <<d, e>>
  /\ \A c : <<c>> # Bump /\ <<c>> # Notify
  /\ \A c, d : <<c, d>> # Bump /\ <<c, d>> # Notify
  /\ Bump # Notify
  <1>1. Len(Bump) = 4 /\ Len(Notify) = 3
    BY DEF Bump, Notify
  <1>2. \A c : Len(<<c>>) = 1
    OBVIOUS
  <1>3. \A c, d : Len(<<c, d>>) = 2
    OBVIOUS
  <1>4. \A c, d : <<c>> = <<d>> <=> c = d
    OBVIOUS
  <1> QED
    BY <1>1, <1>2, <1>3, <1>4

\* The names do not share a batch.
LEMMA NamesDiffer ==
  /\ Ins \notin {Exp, Msg, Opn, Cnt, CntMeta, Clr, Zero, Rsv, Opens, Bump, Notify, Chk}
  /\ Exp \notin {Msg, Opn, Cnt, CntMeta, Clr, Zero, Rsv, Opens, Bump, Notify, Chk}
  /\ Msg \notin {Opn, Cnt, CntMeta, Clr, Zero, Rsv, Opens, Bump, Notify, Chk}
  /\ Opn \notin {Cnt, CntMeta, Clr, Zero, Rsv, Opens, Bump, Notify, Chk}
  /\ Cnt \notin {CntMeta, Clr, Zero, Rsv, Opens, Bump, Notify, Chk}
  /\ CntMeta \notin {Clr, Zero, Rsv, Opens, Bump, Notify, Chk}
  /\ Clr \notin {Zero, Rsv, Opens, Bump, Notify, Chk}
  /\ Zero \notin {Rsv, Opens, Bump, Notify, Chk}
  /\ Rsv \notin {Opens, Bump, Notify, Chk}
  /\ Opens \notin {Bump, Notify, Chk}
  /\ Bump \notin {Notify, Chk}
  /\ Notify \notin {Chk}
  <1>1. Ins \notin {Exp, Msg, Opn, Cnt, CntMeta, Clr, Zero, Rsv, Opens, Bump, Notify, Chk}
    BY BatchesDiffer DEF Chk, Clr, Cnt, CntMeta, Exp, Ins, Msg, Opens, Opn, Rsv, Zero
  <1>2. Exp \notin {Msg, Opn, Cnt, CntMeta, Clr, Zero, Rsv, Opens, Bump, Notify, Chk}
    BY BatchesDiffer DEF Chk, Clr, Cnt, CntMeta, Exp, Msg, Opens, Opn, Rsv, Zero
  <1>3. Msg \notin {Opn, Cnt, CntMeta, Clr, Zero, Rsv, Opens, Bump, Notify, Chk}
    BY BatchesDiffer DEF Chk, Clr, Cnt, CntMeta, Msg, Opens, Opn, Rsv, Zero
  <1>4. Opn \notin {Cnt, CntMeta, Clr, Zero, Rsv, Opens, Bump, Notify, Chk}
    BY BatchesDiffer DEF Chk, Clr, Cnt, CntMeta, Opens, Opn, Rsv, Zero
  <1>5. Cnt \notin {CntMeta, Clr, Zero, Rsv, Opens, Bump, Notify, Chk}
    BY BatchesDiffer DEF Chk, Clr, Cnt, CntMeta, Opens, Rsv, Zero
  <1>6. CntMeta \notin {Clr, Zero, Rsv, Opens, Bump, Notify, Chk}
    BY BatchesDiffer DEF Chk, Clr, CntMeta, Opens, Rsv, Zero
  <1>7. Clr \notin {Zero, Rsv, Opens, Bump, Notify, Chk}
    BY BatchesDiffer DEF Chk, Clr, Opens, Rsv, Zero
  <1>8. Zero \notin {Rsv, Opens, Bump, Notify, Chk}
    BY BatchesDiffer DEF Chk, Opens, Rsv, Zero
  <1>9. Rsv \notin {Opens, Bump, Notify, Chk}
    BY BatchesDiffer DEF Chk, Opens, Rsv
  <1>10. Opens \notin {Bump, Notify, Chk}
    BY BatchesDiffer DEF Chk, Opens
  <1>11. Bump \notin {Notify, Chk}
    BY BatchesDiffer DEF Chk
  <1>12. Notify \notin {Chk}
    BY BatchesDiffer DEF Chk
  <1> QED
    BY <1>1, <1>2, <1>3, <1>4, <1>5, <1>6, <1>7, <1>8, <1>9, <1>10, <1>11, <1>12

LEMMA BatchDoes ==
  ASSUME NEW b \in Expiring \union Others, Typed(row), NEW now \in Nat,
         NEW reported \in Int, clock \in Nat
  PROVE  Effect(b, now, reported, Batch(b, now, reported))
  <1> DEFINE X(c) == Do(row, c, now, reported)
             Y(c, d) == Do(X(c), d, now, reported)
             Z(c, d, e) == Do(Y(c, d), e, now, reported)
             W(c, d, e, f) == Do(Z(c, d, e), f, now, reported)
             t == Batch(b, now, reported)
  <1> SUFFICES Effect(b, now, reported, t)
    OBVIOUS
  <1>1. \A c \in Commands : Does(row, c, now, reported, X(c))
    BY CommandDoes
  <1>2. \A c, d \in Commands : Does(X(c), d, now, reported, Y(c, d))
    <2> SUFFICES ASSUME NEW c \in Commands, NEW d \in Commands
                 PROVE  Does(X(c), d, now, reported, Y(c, d))
      OBVIOUS
    <2>1. Typed(X(c))
      BY <1>1 DEF Does
    <2> QED
      BY <2>1, CommandDoes
  <1>5. ASSUME NEW c \in Commands, b = <<c>>
        PROVE  t = X(c) /\ Does(row, c, now, reported, X(c))
    BY <1>1, <1>5, BatchOf1
  <1>6. ASSUME NEW c \in Commands, NEW d \in Commands, b = <<c, d>>
        PROVE  /\ t = Y(c, d)
               /\ Does(row, c, now, reported, X(c))
               /\ Does(X(c), d, now, reported, Y(c, d))
    BY <1>1, <1>2, <1>6, BatchOf2
  <1>7. b = Bump => t = W("open", "count", "count meta", "expire")
    <2>1. \A c, d, e, f : Batch(<<c, d, e, f>>, now, reported) = W(c, d, e, f)
      BY BatchOf4
    <2> HIDE DEF W
    <2> QED
      BY <2>1 DEF Bump
  <1>8. b = Notify => t = Z("notify", "subtract", "expire")
    BY BatchOf3 DEF Notify
  <1>9. CASE b = Bump
    <2> USE DEF Commands
    <2>1. PICK x : x = Do(row, "open", now, reported)
      OBVIOUS
    <2>2. Does(row, "open", now, reported, x)
      BY <2>1, CommandDoes
    <2>3. Typed(x)
      BY <2>2 DEF Does
    <2>4. PICK y : y = Do(x, "count", now, reported)
      OBVIOUS
    <2>5. Does(x, "count", now, reported, y)
      BY <2>4, <2>3, CommandDoes
    <2>6. Typed(y)
      BY <2>5 DEF Does
    <2>7. PICK z : z = Do(y, "count meta", now, reported)
      OBVIOUS
    <2>8. Does(y, "count meta", now, reported, z)
      BY <2>7, <2>6, CommandDoes
    <2>9. Typed(z)
      BY <2>8 DEF Does
    <2>10. t = Do(z, "expire", now, reported)
      BY <1>7, <1>9, <2>1, <2>4, <2>7 DEF X, Y, Z, W
    <2>11. Does(z, "expire", now, reported, t)
      BY <2>10, <2>9, CommandDoes
    <2> HIDE DEF t
    <2>12. t.suppressed_count = row.suppressed_count + 1
      BY <2>2, <2>5, <2>8, <2>11 DEF Does
    <2>13. t.last_notified = row.last_notified
      BY <2>2, <2>5, <2>8, <2>11 DEF Does
    <2>14. Typed(t) /\ t.exists /\ t.expires # Forever
      BY <2>2, <2>5, <2>8, <2>11 DEF Does
    <2> QED
      BY <2>12, <2>13, <2>14, <1>9, NamesDiffer DEF Effect, Expiring
  <1>10. CASE b = Notify
    <2> USE DEF Commands
    <2>1. PICK x : x = Do(row, "notify", now, reported)
      OBVIOUS
    <2>2. Does(row, "notify", now, reported, x)
      BY <2>1, CommandDoes
    <2>3. Typed(x)
      BY <2>2 DEF Does
    <2>4. PICK y : y = Do(x, "subtract", now, reported)
      OBVIOUS
    <2>5. Does(x, "subtract", now, reported, y)
      BY <2>4, <2>3, CommandDoes
    <2>6. Typed(y)
      BY <2>5 DEF Does
    <2>7. t = Do(y, "expire", now, reported)
      BY <1>8, <1>10, <2>1, <2>4 DEF X, Y, Z, W
    <2>8. Does(y, "expire", now, reported, t)
      BY <2>7, <2>6, CommandDoes
    <2> HIDE DEF t
    <2> QED
      BY <2>2, <2>5, <2>8, <1>10, NamesDiffer DEF Effect, Does, Expiring
  <1> HIDE DEF X, Y, Z, W, t
  <1> USE NamesDiffer DEF Effect, Does, Expiring, Commands
  <1>11. CASE b = Exp
    BY <1>5, <1>11 DEF Exp
  <1>12. CASE b = Opens
    BY <1>6, <1>12 DEF Typed, Opens
  <1>13. CASE b = Ins
    BY <1>5, <1>13 DEF Ins
  <1>14. CASE b = Opn
    BY <1>5, <1>14 DEF Opn
  <1>15. CASE b = Cnt
    BY <1>5, <1>15 DEF Cnt
  <1>16. CASE b = CntMeta
    BY <1>5, <1>16 DEF CntMeta
  <1>17. CASE b = Rsv
    BY <1>5, <1>17 DEF Rsv
  <1>18. CASE b = Zero
    BY <1>5, <1>18 DEF Zero
  <1>19. CASE b = Clr
    BY <1>5, <1>19 DEF Clr
  <1>20. CASE b = Msg
    BY <1>5, <1>20 DEF Msg
  <1> QED
    BY <1>9, <1>10, <1>11, <1>12, <1>13, <1>14, <1>15, <1>16, <1>17,
       <1>18, <1>19, <1>20 DEF Others

\* Which batches bump.
LEMMA BatchCounts ==
  ASSUME NEW b \in Expiring \union Others
  PROVE  /\ Contains(b, "count") <=> b \in {Bump, Cnt}
         /\ Contains(b, "count meta") <=> b \in {Bump, CntMeta}
  <1>1. \A c, x : Contains(<<c>>, x) <=> x = c
    BY DEF Contains
  <1>2. \A c, d, x : Contains(<<c, d>>, x) <=> x = c \/ x = d
    BY DEF Contains
  <1>3. Contains(Bump, "count") /\ Contains(Bump, "count meta")
    <2>1. Len(Bump) = 4
      BY DEF Bump
    <2>2. 2 \in 1..Len(Bump) /\ 3 \in 1..Len(Bump)
      BY <2>1
    <2>3. Bump[2] = "count" /\ Bump[3] = "count meta"
      BY DEF Bump
    <2> QED
      BY <2>2, <2>3 DEF Contains
  <1>4. ~Contains(Notify, "count") /\ ~Contains(Notify, "count meta")
    <2>1. /\ Len(Notify) = 3 /\ Notify[1] = "notify" /\ Notify[2] = "subtract"
          /\ Notify[3] = "expire"
      BY DEF Notify
    <2>2. \A i \in 1..3 : i = 1 \/ i = 2 \/ i = 3
      OBVIOUS
    <2> QED
      BY <2>1, <2>2 DEF Contains
  <1>5. CASE b = Bump
    BY <1>3, <1>5
  <1>6. CASE b = Notify
    BY <1>4, <1>6, NamesDiffer
  <1>7. CASE b = Opens
    <2>0. \A x : Contains(b, x) <=> x = "open" \/ x = "expire"
      BY <1>2, <1>7 DEF Opens
    <2>1. ~Contains(b, "count") /\ ~Contains(b, "count meta")
      BY <2>0
    <2>2. b # Cnt /\ b # CntMeta /\ b # Bump
      BY <1>7, NamesDiffer
    <2> QED
      BY <2>1, <2>2
  <1>8. CASE b = Exp
    BY <1>1, <1>8, NamesDiffer DEF Exp
  <1>9. CASE b \in Others
    <2>1. PICK c : b = <<c>>
      BY <1>9 DEF Others, Ins, Opn, Cnt, CntMeta, Rsv, Zero, Clr, Msg
    <2> QED
      BY <1>1, <2>1, BatchesDiffer DEF Cnt, CntMeta
  <1> QED
    BY <1>5, <1>6, <1>7, <1>8, <1>9 DEF Expiring

-----------------------------------------------------------------------------
(* What is left to send, and the types.                                    *)


SendTodos == {<<Ins, Exp, Msg, Exp>>, <<Opens, Msg, Exp>>, <<Exp, Msg, Exp>>,
              <<Msg, Exp>>, <<Exp>>, <<>>}

CrashSendTodos == {<<Ins, Exp>>, <<Opn, Exp>>, <<Exp>>, <<>>}

CrashDoneTodos ==
  {<<Opn, Cnt, CntMeta, Exp>>,
   <<Cnt, CntMeta, Exp>>, <<CntMeta, Exp>>,
   <<Clr, Exp>>, <<Exp>>, <<>>}

WorkerTodos == {<<Notify, Chk>>, <<Chk>>, <<Zero>>, <<>>}

LEMMA Tails ==
  /\ \A a : Head(<<a>>) = a /\ Tail(<<a>>) = <<>> /\ <<a>> # <<>>
  /\ \A a, b : Head(<<a, b>>) = a /\ Tail(<<a, b>>) = <<b>>
  /\ \A a, b, c : Head(<<a, b, c>>) = a /\ Tail(<<a, b, c>>) = <<b, c>>
  /\ \A a, b, c, d : Head(<<a, b, c, d>>) = a /\ Tail(<<a, b, c, d>>) = <<b, c, d>>
  /\ \A a, b : <<a, b>> # <<>>
  /\ \A a, b, c : <<a, b, c>> # <<>>
  /\ \A a, b, c, d : <<a, b, c, d>> # <<>>
  OBVIOUS

LEMMA SendTail ==
  ASSUME NEW todo \in SendTodos, todo # <<>>
  PROVE  /\ Head(todo) \in {Ins, Exp, Opens, Msg}
         /\ Tail(todo) \in SendTodos
         /\ Tail(todo) = <<>> => Head(todo) = Exp
         /\ Tail(todo) # <<>> => Head(Tail(todo)) \in {Exp, Msg}
  <1>1. CASE todo = <<Ins, Exp, Msg, Exp>>
    BY <1>1, Tails DEF SendTodos
  <1>2. CASE todo = <<Opens, Msg, Exp>>
    BY <1>2, Tails DEF SendTodos
  <1>3. CASE todo = <<Exp, Msg, Exp>>
    BY <1>3, Tails DEF SendTodos
  <1>4. CASE todo = <<Msg, Exp>>
    BY <1>4, Tails DEF SendTodos
  <1>5. CASE todo = <<Exp>>
    BY <1>5, Tails DEF SendTodos
  <1> QED
    BY <1>1, <1>2, <1>3, <1>4, <1>5 DEF SendTodos

LEMMA CrashSendTail ==
  ASSUME NEW todo \in CrashSendTodos, todo # <<>>
  PROVE  /\ Head(todo) \in {Ins, Exp, Opn}
         /\ Tail(todo) \in CrashSendTodos
  <1>1. CASE todo = <<Ins, Exp>>
    BY <1>1, Tails DEF CrashSendTodos
  <1>2. CASE todo = <<Opn, Exp>>
    BY <1>2, Tails DEF CrashSendTodos
  <1>3. CASE todo = <<Exp>>
    BY <1>3, Tails DEF CrashSendTodos
  <1> QED
    BY <1>1, <1>2, <1>3 DEF CrashSendTodos

LEMMA CrashDoneTail ==
  ASSUME NEW todo \in CrashDoneTodos, todo # <<>>
  PROVE  /\ Head(todo) \in {Opn, Cnt, CntMeta, Clr,
                            Exp}
         /\ Tail(todo) \in CrashDoneTodos
         /\ Tail(todo) # <<>> => Head(Tail(todo)) # Clr
  <1>0. /\ Exp # Clr /\ Cnt # Clr
        /\ CntMeta # Clr
    BY NamesDiffer
  <1>1. CASE todo = <<Opn, Cnt, CntMeta, Exp>>
    BY <1>1, <1>0, Tails DEF CrashDoneTodos
  <1>2. CASE todo = <<Cnt, CntMeta, Exp>>
    BY <1>2, <1>0, Tails DEF CrashDoneTodos
  <1>3. CASE todo = <<CntMeta, Exp>>
    BY <1>3, <1>0, Tails DEF CrashDoneTodos
  <1>4. CASE todo = <<Clr, Exp>>
    BY <1>4, <1>0, Tails DEF CrashDoneTodos
  <1>5. CASE todo = <<Exp>>
    BY <1>5, <1>0, Tails DEF CrashDoneTodos
  <1> QED
    BY <1>1, <1>2, <1>3, <1>4, <1>5 DEF CrashDoneTodos

Metas == [suppressed : Nat, last_heartbeat : Nat \union {Never}]

Mains == [pc : {"idle", "called", "send", "silent"}, now : Nat,
          seen : {r \in Rows : Typed(r)}, upto : Nat,
          todo : SendTodos \union {<<Bump>>}]

MainShape(m) == /\ m.pc \in {"idle", "called"} => m.todo = <<>>
                /\ m.pc = "silent" => m.todo \in {<<Bump>>, <<>>}
                /\ m.pc = "send" => m.todo \in SendTodos

Workers == [at : {"none", "queued", "sent"}, now : Nat, count : Int, upto : Nat,
            todo : WorkerTodos]

WorkerShape(w) == w.at = "sent" <=> w.todo # <<>>

Crashes == [pc : {"idle", "called", "send", "done"}, now : Nat,
            seen : {r \in Rows : Typed(r)}, upto : Nat,
            todo : CrashSendTodos \union CrashDoneTodos]

CrashShape == /\ crash.pc \in {"idle", "called"} => crash.todo = <<>>
              /\ crash.pc = "send" => crash.todo \in CrashSendTodos
              /\ crash.pc = "done" => crash.todo \in CrashDoneTodos

PageTodos == {<<Rsv, Exp>>, <<Exp>>, <<>>}

Digests == [pc : {"idle", "claimed", "settle"}, amount : Nat]

Ghosts == [occurred : Nat, delivered : SUBSET Nat, silent : SUBSET Nat,
           bumps : Nat, told : Nat, metaBumps : Nat, metaTold : Nat, kills : Nat,
           stale : SUBSET Proc, lost : BOOLEAN, bare : BOOLEAN]

\* The lock of a process is with its reporting thread or its worker.
Locked == \A p \in Proc : main[p].todo # <<>> => worker[p].todo = <<>>

Types ==
  /\ scenario \in Scenarios /\ clock \in Nat
  /\ Typed(row) /\ meta \in Metas
  /\ main \in [Proc -> Mains] /\ \A p \in Proc : MainShape(main[p])
  /\ worker \in [Proc -> Workers] /\ \A p \in Proc : WorkerShape(worker[p])
  /\ Locked
  /\ crash \in Crashes /\ CrashShape
  /\ page \in PageTodos
  /\ digest \in Digests
  /\ digest.pc = "settle" => digest.amount <= meta.suppressed
  /\ ghost \in Ghosts

LEMMA NoRowTyped == Typed(NoRow)
  BY DEF Typed, NoRow, Rows, Forever, Never

LEMMA IdleTyped ==
  /\ Idle \in Mains /\ MainShape(Idle) /\ Idle.pc = "idle" /\ Idle.todo = <<>>
  /\ Idle \in Crashes
  /\ NoAlert \in Workers /\ WorkerShape(NoAlert)
  /\ NoAlert.at = "none" /\ NoAlert.todo = <<>>
  <1>1. Idle \in Mains /\ Idle \in Crashes
    BY NoRowTyped DEF Idle, Mains, Crashes, Typed, SendTodos, CrashSendTodos
  <1>2. MainShape(Idle) /\ Idle.pc = "idle" /\ Idle.todo = <<>>
    BY DEF Idle, MainShape
  <1>3. NoAlert \in Workers
    BY DEF NoAlert, Workers, WorkerTodos
  <1>4. WorkerShape(NoAlert) /\ NoAlert.at = "none" /\ NoAlert.todo = <<>>
    BY DEF NoAlert, WorkerShape
  <1> QED
    BY <1>1, <1>2, <1>3, <1>4

\* A batch that runs.
LEMMA RunsDoes ==
  ASSUME Types, NEW todo, Head(todo) \in Expiring \union Others,
         NEW n \in Nat, NEW m \in Int, Runs(todo, n, m)
  PROVE  /\ Effect(Head(todo), n, m, row')
         /\ meta' \in Metas /\ meta'.last_heartbeat = meta.last_heartbeat
         /\ meta'.suppressed =
              meta.suppressed + IF Head(todo) \in {Bump, CntMeta} THEN 1 ELSE 0
  <1>1. Effect(Head(todo), n, m, row')
    BY BatchDoes DEF Runs, Types
  <1>2. meta' = [meta EXCEPT !.suppressed =
                   @ + IF Head(todo) \in {Bump, CntMeta} THEN 1 ELSE 0]
    BY BatchCounts DEF Runs
  <1>3. meta \in Metas
    BY DEF Types
  <1> QED
    BY <1>1, <1>2, <1>3 DEF Metas

LEMMA NotedIs ==
  ASSUME Types, NEW todo, Head(todo) \in Expiring \union Others,
         ghost' = Noted(todo)
  PROVE  /\ ghost' \in Ghosts
         /\ ghost'.bumps = ghost.bumps + IF Head(todo) \in {Bump, Cnt} THEN 1 ELSE 0
         /\ ghost'.metaBumps =
              ghost.metaBumps + IF Head(todo) \in {Bump, CntMeta} THEN 1 ELSE 0
         /\ ghost'.told = ghost.told /\ ghost'.metaTold = ghost.metaTold
         /\ ghost'.silent = ghost.silent /\ ghost'.delivered = ghost.delivered
         /\ ghost'.kills = ghost.kills
         /\ ghost'.stale = ghost.stale /\ ghost'.lost = ghost.lost
         /\ ghost'.bare = ghost.bare
  <1> DEFINE c == IF Head(todo) \in {Bump, Cnt} THEN 1 ELSE 0
             d == IF Head(todo) \in {Bump, CntMeta} THEN 1 ELSE 0
  <1>1. ghost' = [ghost EXCEPT !.bumps = @ + c, !.metaBumps = @ + d]
    BY BatchCounts DEF Noted
  <1>2. ghost \in Ghosts
    BY DEF Types
  <1>3. c \in Nat /\ d \in Nat
    OBVIOUS
  <1> HIDE DEF c, d
  <1>4. /\ ghost'.bumps = ghost.bumps + c /\ ghost'.metaBumps = ghost.metaBumps + d
        /\ ghost'.told = ghost.told /\ ghost'.metaTold = ghost.metaTold
        /\ ghost'.silent = ghost.silent /\ ghost'.delivered = ghost.delivered
        /\ ghost'.kills = ghost.kills /\ ghost'.occurred = ghost.occurred
        /\ ghost'.stale = ghost.stale /\ ghost'.lost = ghost.lost
        /\ ghost'.bare = ghost.bare
    BY <1>1, <1>2 DEF Ghosts
  <1>5. ghost' \in Ghosts
    <2>1. ghost.bumps + c \in Nat /\ ghost.metaBumps + d \in Nat
      BY <1>2, <1>3 DEF Ghosts
    <2>2. PICK x \in Nat, y \in Nat : x = ghost.bumps + c /\ y = ghost.metaBumps + d
      BY <2>1
    <2>3. ghost' = [[ghost EXCEPT !.bumps = x] EXCEPT !.metaBumps = y]
      BY <1>1, <2>2
    <2> QED
      BY <1>2, <2>3 DEF Ghosts
  <1> QED
    BY <1>4, <1>5 DEF c, d

\* One process takes a step.
LEMMA MainSet ==
  ASSUME Types, NEW p \in Proc, NEW m \in Mains, MainShape(m),
         m.todo # <<>> => worker[p].todo = <<>>,
         main' = [main EXCEPT ![p] = m], UNCHANGED worker
  PROVE  /\ main' \in [Proc -> Mains] /\ \A q \in Proc : MainShape(main'[q])
         /\ Locked'
         /\ main'[p] = m /\ \A q \in Proc \ {p} : main'[q] = main[q]
  <1>1. main \in [Proc -> Mains] /\ Locked /\ \A q \in Proc : MainShape(main[q])
    BY DEF Types
  <1>2. main'[p] = m /\ \A q \in Proc \ {p} : main'[q] = main[q]
    BY <1>1
  <1>3. Locked'
    BY <1>1, <1>2 DEF Locked
  <1>4. \A q \in Proc : MainShape(main'[q])
    BY <1>1, <1>2
  <1> QED
    BY <1>1, <1>2, <1>3, <1>4

LEMMA WorkerSet ==
  ASSUME Types, NEW p \in Proc, NEW w \in Workers, WorkerShape(w),
         w.todo # <<>> => main[p].todo = <<>>,
         worker' = [worker EXCEPT ![p] = w], UNCHANGED main
  PROVE  /\ worker' \in [Proc -> Workers] /\ \A q \in Proc : WorkerShape(worker'[q])
         /\ Locked'
         /\ worker'[p] = w /\ \A q \in Proc \ {p} : worker'[q] = worker[q]
  <1>1. worker \in [Proc -> Workers] /\ Locked /\ \A q \in Proc : WorkerShape(worker[q])
    BY DEF Types
  <1>2. worker'[p] = w /\ \A q \in Proc \ {p} : worker'[q] = worker[q]
    BY <1>1
  <1>3. Locked'
    BY <1>1, <1>2 DEF Locked
  <1>4. \A q \in Proc : WorkerShape(worker'[q])
    BY <1>1, <1>2
  <1> QED
    BY <1>1, <1>2, <1>3, <1>4

\* What the reporting thread sends after decide().
LEMMA Concats ==
  /\ \A a : <<a>> \o <<>> = <<a>>
  /\ \A a, b, c : <<a>> \o <<b, c>> = <<a, b, c>>
  /\ \A a, b, c, d : <<a, b>> \o <<c, d>> = <<a, b, c, d>>
  <1>1. ASSUME NEW a PROVE <<a>> \o <<>> = <<a>>
    <2> DEFINE t == <<a>> \o <<>>
    <2>1. <<a>> \in Seq({a}) /\ <<>> \in Seq({a}) /\ Len(<<a>>) = 1 /\ Len(<<>>) = 0
      OBVIOUS
    <2>2. t \in Seq({a}) /\ Len(t) = 1 /\ \A i \in 1..Len(t) : t[i] = <<a>>[i]
      BY <2>1, ConcatProperties
    <2> QED
      BY <2>1, <2>2, SeqEqual
  <1>2. ASSUME NEW a, NEW b, NEW c PROVE <<a>> \o <<b, c>> = <<a, b, c>>
    <2> DEFINE S == {a, b, c}
               t == <<a>> \o <<b, c>>
    <2>1. /\ <<a>> \in Seq(S) /\ <<b, c>> \in Seq(S) /\ <<a, b, c>> \in Seq(S)
          /\ Len(<<a>>) = 1 /\ Len(<<b, c>>) = 2 /\ Len(<<a, b, c>>) = 3
      OBVIOUS
    <2>2. t \in Seq(S) /\ Len(t) = 3
      BY <2>1, ConcatProperties
    <2>3. t[1] = a /\ t[2] = b /\ t[3] = c
      BY <2>1, ConcatProperties
    <2>4. \A i \in 1..3 : t[i] = <<a, b, c>>[i]
      BY <2>3
    <2> HIDE DEF t, S
    <2> QED
      BY <2>1, <2>2, <2>4, SeqEqual DEF t
  <1>3. ASSUME NEW a, NEW b, NEW c, NEW d
        PROVE  <<a, b>> \o <<c, d>> = <<a, b, c, d>>
    <2> DEFINE S == {a, b, c, d}
               t == <<a, b>> \o <<c, d>>
    <2>1. /\ <<a, b>> \in Seq(S) /\ <<c, d>> \in Seq(S) /\ <<a, b, c, d>> \in Seq(S)
          /\ Len(<<a, b>>) = 2 /\ Len(<<c, d>>) = 2 /\ Len(<<a, b, c, d>>) = 4
      OBVIOUS
    <2>2. t \in Seq(S) /\ Len(t) = 4
      BY <2>1, ConcatProperties
    <2>3. t[1] = a /\ t[2] = b /\ t[3] = c /\ t[4] = d
      BY <2>1, ConcatProperties
    <2>4. \A i \in 1..4 : t[i] = <<a, b, c, d>>[i]
      BY <2>3
    <2> HIDE DEF t, S
    <2> QED
      BY <2>1, <2>2, <2>4, SeqEqual DEF t
  <1> QED
    BY <1>1, <1>2, <1>3

LEMMA TodosOfMain ==
  /\ BumpSuppressed = <<Bump>>
  /\ Decides("suppress") \o <<>> = <<Bump>>
  /\ Decides("insert") \o SetLastMessage = <<Ins, Exp, Msg, Exp>>
  /\ Decides("touch") \o SetLastMessage = <<Opens, Msg, Exp>>
  <1>1. BumpSuppressed = <<Bump>> /\ SetLastMessage = <<Msg, Exp>>
    BY DEF BumpSuppressed, Bump, SetLastMessage, Msg, Exp
  <1>2. Decides("suppress") = <<Bump>>
    BY DEF Decides, Bump
  <1>3. Decides("insert") = <<Ins, Exp>>
    BY DEF Decides, Ins, Exp
  <1>4. Decides("touch") = <<Opens>>
    BY DEF Decides, Opens
  <1> QED
    BY <1>1, <1>2, <1>3, <1>4, Concats, ZenonT(30)

-----------------------------------------------------------------------------
(* The invariants, each with what makes it inductive.                      *)

\* The row's last delivery, and the one that is being recorded, took place.
Delivered ==
  /\ row.last_notified # Never =>
       \E d \in ghost.delivered : row.last_notified <= d
  /\ \A p \in Proc : worker[p].todo = <<Notify, Chk>> =>
       worker[p].now \in ghost.delivered
  /\ crash.todo = <<Clr, Exp>> => \E d \in ghost.delivered : crash.now <= d
  /\ crash.pc # "idle" => crash.now <= clock
  /\ SilentOnlyAfterDelivery

\* A row without a TTL has somebody who will give it one, unless a clamp made
\* it.
Expires ==
  /\ scenario.kills = 0 /\ ~scenario.crashes /\ row.exists /\ ~ghost.bare
  /\ \A p \in Proc : main[p].todo = <<>>
  /\ page \in {<<>>, <<Rsv, Exp>>}
  => row.expires # Forever

\* The count that an alert carries, of the bumps up to a number.
Carries(g, count, upto) ==
  /\ count = upto - g.told
  /\ g.told <= upto /\ upto <= g.bumps

Sums == /\ row.suppressed_count = ghost.bumps - ghost.told
        /\ ghost.told <= ghost.bumps

\* What a process is about to take from the row.
Accounts(p) ==
  /\ main[p].pc = "send" /\ p \notin ghost.stale =>
       Carries(ghost, main[p].seen.suppressed_count, main[p].upto)
  /\ main[p].todo = <<Ins, Exp, Msg, Exp>> => ghost.told = ghost.bumps
  /\ /\ worker[p].at = "queued" \/ worker[p].todo = <<Notify, Chk>>
     /\ p \notin ghost.stale
     => Carries(ghost, worker[p].count, worker[p].upto)
  /\ worker[p].todo = <<Zero>> => ghost.told = ghost.bumps

Conserved ==
  /\ ~scenario.crashes => crash.pc = "idle"
  /\ \A p \in Proc \ scenario.procs :
       main[p].pc = "idle" /\ worker[p].at = "none"
  /\ \A p \in Proc : main[p].pc = "send" => worker[p].at = "none"
  /\ Alone /\ ~ghost.lost => Sums /\ \A p \in Proc : Accounts(p)

\* Steps that expire nothing and subtract nothing.
SameMarks == /\ ghost'.stale = ghost.stale /\ ghost'.lost = ghost.lost
             /\ ghost'.bare = ghost.bare

Inv == Types /\ CountersConserved /\ Delivered /\ Expires /\ Conserved

\* What a step leaves alone, in terms of the invariants.
LEMMA DeliveredStays ==
  ASSUME Delivered, row'.last_notified \in {row.last_notified, Never},
         ghost.delivered \subseteq ghost'.delivered,
         ghost'.silent = ghost.silent,
         \A p \in Proc : worker'[p].todo = <<Notify, Chk>> =>
           worker'[p].now \in ghost'.delivered,
         UNCHANGED crash, clock \in Nat, crash.now \in Nat,
         clock' \in {clock, clock + 1}
  PROVE  Delivered'
  BY DEF Delivered, SilentOnlyAfterDelivery

LEMMA ExpiresStays ==
  ASSUME Expires, UNCHANGED scenario, UNCHANGED page,
         row'.exists <=> row.exists, row'.expires = row.expires,
         \A p \in Proc : main'[p].todo = <<>> => main[p].todo = <<>>,
         ghost'.bare = ghost.bare
  PROVE  Expires'
  BY DEF Expires

\* Most steps leave most of the state alone.
LEMMA TypesOf ==
  ASSUME Types, UNCHANGED scenario, UNCHANGED <<clock, worker, crash, page, digest>>,
         Typed(row'), meta' \in Metas,
         digest.pc = "settle" => digest.amount <= meta'.suppressed,
         main' \in [Proc -> Mains], \A p \in Proc : MainShape(main'[p]),
         Locked', ghost' \in Ghosts
  PROVE  Types'
  BY DEF Types, CrashShape

\* A process alone is the only one.
LEMMA OnlyOne ==
  ASSUME Types, Alone, NEW p \in scenario.procs, NEW q \in scenario.procs
  PROVE  p = q
  <1>1. scenario.procs \subseteq Proc /\ IsFiniteSet(Proc)
    BY RedisAssumption DEF Types
  <1>2. IsFiniteSet(scenario.procs)
    BY <1>1, FS_Subset
  <1>3. PICK x : scenario.procs = {x}
    BY <1>2, FS_Singleton DEF Alone
  <1> QED
    BY <1>3

-----------------------------------------------------------------------------
(* The reporting thread.                                                   *)

LEMMA CallDoes ==
  ASSUME Types, UNCHANGED scenario, NEW p \in Proc, Call(p)
  PROVE  /\ Types'
         /\ p \in scenario.procs
         /\ \E m \in Mains : /\ m.pc = "called" /\ m.todo = <<>>
                             /\ main'[p] = m
         /\ main[p].pc = "idle"
         /\ \A q \in Proc \ {p} : main'[q] = main[q]
         /\ ghost'.bumps = ghost.bumps /\ ghost'.told = ghost.told
         /\ ghost'.metaBumps = ghost.metaBumps /\ ghost'.metaTold = ghost.metaTold
         /\ ghost'.silent = ghost.silent /\ ghost'.delivered = ghost.delivered
         /\ ghost'.kills = ghost.kills /\ SameMarks
  <1> USE DEF Call, SameMarks
  <1>1. PICK m : m = [Idle EXCEPT !.pc = "called", !.now = clock]
    OBVIOUS
  <1>2. clock \in Nat /\ ghost \in Ghosts
    BY DEF Types
  <1>3. m \in Mains /\ m.pc = "called" /\ m.todo = <<>>
    BY <1>1, <1>2, NoRowTyped DEF Idle, Mains, Typed, SendTodos
  <1>4. MainShape(m)
    BY <1>3 DEF MainShape
  <1>5. main' = [main EXCEPT ![p] = m]
    BY <1>1
  <1>6. /\ main' \in [Proc -> Mains] /\ \A q \in Proc : MainShape(main'[q])
        /\ Locked'
        /\ main'[p] = m /\ \A q \in Proc \ {p} : main'[q] = main[q]
    BY <1>3, <1>4, <1>5, MainSet
  <1>7. /\ ghost' \in Ghosts
        /\ ghost'.bumps = ghost.bumps /\ ghost'.told = ghost.told
        /\ ghost'.metaBumps = ghost.metaBumps /\ ghost'.metaTold = ghost.metaTold
        /\ ghost'.silent = ghost.silent /\ ghost'.delivered = ghost.delivered
        /\ ghost'.kills = ghost.kills /\ SameMarks
    BY <1>2 DEF Ghosts
  <1>8. Types'
    BY <1>6, <1>7 DEF Types, CrashShape
  <1> QED
    BY <1>3, <1>6, <1>7, <1>8

LEMMA CallKeeps ==
  ASSUME Inv, UNCHANGED scenario, NEW p \in Proc, Call(p)
  PROVE  Inv'
  <1> USE DEF Inv
  <1>1. /\ Types' /\ p \in scenario.procs
        /\ main[p].pc = "idle" /\ main'[p].pc = "called" /\ main'[p].todo = <<>>
        /\ \A q \in Proc \ {p} : main'[q] = main[q]
        /\ ghost'.bumps = ghost.bumps /\ ghost'.told = ghost.told
        /\ ghost'.metaBumps = ghost.metaBumps /\ ghost'.metaTold = ghost.metaTold
        /\ ghost'.silent = ghost.silent /\ ghost'.delivered = ghost.delivered
        /\ ghost'.stale = ghost.stale /\ ghost'.lost = ghost.lost
        /\ ghost'.bare = ghost.bare
    BY CallDoes DEF SameMarks
  <1>2. UNCHANGED <<row, meta, clock, worker, crash, page>>
    BY DEF Call
  <1>3. CountersConserved'
    BY <1>1, <1>2 DEF CountersConserved
  <1>4. Delivered'
    BY <1>1, <1>2 DEF Delivered, SilentOnlyAfterDelivery
  <1>5. Expires'
    <2>1. main[p].todo = <<>>
      BY <1>1 DEF Types, MainShape
    <2> QED
      BY <1>1, <1>2, <2>1 DEF Expires
  <1>6. Conserved'
    <2>1. main'[p].pc # "send" /\ main'[p].todo # <<Ins, Exp, Msg, Exp>>
      BY <1>1, Tails
    <2>2. Alone' <=> Alone
      BY DEF Alone
    <2>3. \A q \in Proc : main'[q] = main[q] \/ q = p
      BY <1>1
    <2>4. \A c, u : Carries(ghost, c, u) => Carries(ghost', c, u)
      BY <1>1 DEF Carries
    <2>5. /\ \A q \in Proc : main'[q].pc = "send" => worker[q].at = "none"
          /\ \A q \in Proc \ scenario.procs :
               main'[q].pc = "idle" /\ worker[q].at = "none"
      BY <1>1, <2>1, <2>3 DEF Conserved
    <2>6. ASSUME Alone, ~ghost.lost, NEW q \in Proc
          PROVE  Accounts(q)'
      <3>1. Accounts(q)
        BY <2>6 DEF Conserved
      <3> QED
        BY <1>1, <1>2, <2>1, <2>3, <2>4, <3>1 DEF Accounts
    <2>7. Alone /\ ~ghost.lost => Sums'
      BY <1>1, <1>2 DEF Conserved, Sums
    <2> QED
      BY <1>1, <1>2, <2>2, <2>5, <2>6, <2>7 DEF Conserved
  <1> QED
    BY <1>1, <1>3, <1>4, <1>5, <1>6

Pcs == {"idle", "called", "send", "silent"}

WithTodo(m, c, d) == [m EXCEPT !.pc = c, !.todo = d]
WithSeen(m, s, u, c, d) == [m EXCEPT !.seen = s, !.upto = u, !.pc = c, !.todo = d]

LEMMA MainTodo ==
  ASSUME NEW m \in Mains, NEW c \in Pcs,
         NEW d \in SendTodos \union {<<Bump>>}
  PROVE  /\ WithTodo(m, c, d) \in Mains
         /\ WithTodo(m, c, d).pc = c /\ WithTodo(m, c, d).todo = d
  <1>0. PICK y : y = [m EXCEPT !.pc = c, !.todo = d] /\ y = WithTodo(m, c, d)
    BY DEF WithTodo
  <1>1. PICK x \in Mains : x = [m EXCEPT !.pc = c]
    BY DEF Mains, Pcs
  <1>2. y = [x EXCEPT !.todo = d]
    BY <1>0, <1>1
  <1>3. x.pc = c
    BY <1>1 DEF Mains
  <1>4. y \in Mains /\ y.pc = c /\ y.todo = d
    BY <1>2, <1>3 DEF Mains
  <1> QED
    BY <1>0, <1>4

LEMMA MainSeen ==
  ASSUME NEW m \in Mains, NEW c \in Pcs,
         NEW d \in SendTodos \union {<<Bump>>}, NEW u \in Nat,
         NEW s, Typed(s)
  PROVE  /\ WithSeen(m, s, u, c, d) \in Mains
         /\ WithSeen(m, s, u, c, d).pc = c /\ WithSeen(m, s, u, c, d).todo = d
         /\ WithSeen(m, s, u, c, d).seen = s /\ WithSeen(m, s, u, c, d).upto = u
  <1>0. PICK y : /\ y = [m EXCEPT !.seen = s, !.upto = u, !.pc = c, !.todo = d]
                 /\ y = WithSeen(m, s, u, c, d)
    BY DEF WithSeen
  <1>1. s \in {r \in Rows : Typed(r)}
    BY DEF Typed
  <1>2. PICK a \in Mains : a = [m EXCEPT !.seen = s]
    BY <1>1 DEF Mains
  <1>3. PICK b \in Mains : b = [a EXCEPT !.upto = u]
    BY DEF Mains
  <1>4. b.upto = u /\ b.seen = s
    BY <1>2, <1>3 DEF Mains
  <1>5. PICK e \in Mains : e = [b EXCEPT !.pc = c]
    BY DEF Mains, Pcs
  <1>6. e.upto = u /\ e.seen = s /\ e.pc = c
    BY <1>4, <1>5 DEF Mains
  <1>7. y = [e EXCEPT !.todo = d]
    BY <1>0, <1>2, <1>3, <1>5
  <1>8. y \in Mains /\ y.todo = d
    BY <1>7 DEF Mains
  <1>9. y.pc = e.pc /\ y.seen = e.seen /\ y.upto = e.upto
    BY <1>7 DEF Mains
  <1> QED
    BY <1>0, <1>6, <1>8, <1>9

LEMMA BranchIs ==
  ASSUME Typed(row), NEW n \in Nat
  PROVE  /\ Branch(row, n) \in {"insert", "touch", "suppress"}
         /\ Branch(row, n) = "insert" => row = NoRow
         /\ Branch(row, n) = "suppress" =>
              /\ row.last_notified \in Nat /\ row.last_notified # Never
              /\ n - row.last_notified < Cooldown
  <1>1. row.last_notified \in Nat \union {Never} /\ Cooldown \in Nat
    BY RedisAssumption DEF Typed, Rows
  <1> QED
    BY <1>1 DEF Branch, CooldownExpired, Typed

\* The batches of a decision can be told apart.
LEMMA TodosDiffer ==
  /\ \A a, b, c, d, e : <<a, b, c, d>> # <<e>>
  /\ \A a, b, c, d, e, f, g : <<a, b, c, d>> # <<e, f, g>>
  /\ \A a, b, c, d, e, f : <<a, b, c, d>> # <<e, f>>
  /\ \A a, b, c : <<a>> # <<b, c>>
  /\ \A a, b : <<a>> = <<b>> => a = b
  /\ \A a, b, c, d : <<a, b>> = <<c, d>> => a = c /\ b = d
  <1>1. /\ \A a : Len(<<a>>) = 1
        /\ \A a, b : Len(<<a, b>>) = 2
        /\ \A a, b, c : Len(<<a, b, c>>) = 3
        /\ \A a, b, c, d : Len(<<a, b, c, d>>) = 4
    OBVIOUS
  <1>2. /\ \A a, b : <<a>> = <<b>> => a = b
        /\ \A a, b, c, d : <<a, b>> = <<c, d>> => a = c /\ b = d
    OBVIOUS
  <1> QED
    BY <1>1, <1>2

LEMMA HGetAllKeeps ==
  ASSUME Inv, UNCHANGED scenario, NEW p \in Proc, HGetAll(p)
  PROVE  Inv'
  <1> USE DEF Inv
  <1> DEFINE branch == Branch(row, main[p].now)
             asks == worker[p].at # "none"
  <1>0. /\ main[p].pc = "called" /\ worker[p].todo = <<>>
        /\ UNCHANGED <<row, meta, clock, worker, crash, page, digest>>
        /\ ghost' = IF worker[p].at # "none" THEN ghost
                    ELSE [ghost EXCEPT !.stale = @ \ {p},
                                       !.silent = IF branch = "suppress"
                                                  THEN @ \union {main[p].now}
                                                  ELSE @]
    BY DEF HGetAll, Unlocked
  <1>1. /\ main[p] \in Mains /\ main[p].now \in Nat /\ main[p].todo = <<>>
        /\ Typed(row) /\ ghost \in Ghosts /\ ghost.bumps \in Nat
        /\ main \in [Proc -> Mains]
    BY <1>0 DEF Types, Mains, Ghosts, MainShape
  <1>2. /\ branch \in {"insert", "touch", "suppress"}
        /\ branch = "insert" => row = NoRow
        /\ branch = "suppress" =>
             /\ row.last_notified \in Nat /\ row.last_notified # Never
             /\ main[p].now - row.last_notified < Cooldown
    BY <1>1, BranchIs
  <1> HIDE DEF branch
  <1>3. PICK m \in Mains :
          /\ main' = [main EXCEPT ![p] = m]
          /\ m.pc \in {"send", "silent"}
          /\ m.pc = "silent" => m.todo = <<Bump>>
          /\ m.pc = "send" =>
               /\ ~asks /\ m.seen = row /\ m.upto = ghost.bumps
               /\ \/ branch = "insert" /\ m.todo = <<Ins, Exp, Msg, Exp>>
                  \/ m.todo = <<Opens, Msg, Exp>>
    <2>1. CASE asks
      <3>1. PICK m : m = [main[p] EXCEPT !.pc = "silent", !.todo = <<Bump>>]
        OBVIOUS
      <3>2. main' = [main EXCEPT ![p] = m]
        BY <2>1, <3>1, TodosOfMain DEF HGetAll
      <3>3. m \in Mains /\ m.pc = "silent" /\ m.todo = <<Bump>>
        <4>1. m = WithTodo(main[p], "silent", <<Bump>>)
          BY <3>1 DEF WithTodo
        <4> QED
          <5>1. "silent" \in Pcs /\ <<Bump>> \in SendTodos \union {<<Bump>>}
            BY DEF Pcs
          <5> QED
            BY <1>1, <4>1, <5>1, MainTodo
      <3> QED
        BY <3>2, <3>3
    <2>2. CASE ~asks
      <3> DEFINE d == IF branch = "suppress" THEN <<Bump>>
                      ELSE IF branch = "insert" THEN <<Ins, Exp, Msg, Exp>>
                      ELSE <<Opens, Msg, Exp>>
                 c == IF branch = "suppress" THEN "silent" ELSE "send"
      <3>1. d \in SendTodos \union {<<Bump>>}
        BY DEF SendTodos
      <3>2. Decides(branch) \o (IF branch = "suppress" THEN <<>>
                                                       ELSE SetLastMessage) = d
        BY <1>2, TodosOfMain
      <3>3. c \in {"idle", "called", "send", "silent"}
        OBVIOUS
      <3>4. main' = [main EXCEPT ![p] =
                       [main[p] EXCEPT !.seen = row, !.upto = ghost.bumps,
                                       !.pc = c, !.todo = d]]
        BY <1>1, <2>2, <3>2 DEF HGetAll, branch
      <3> SUFFICES
            \E m \in Mains :
              /\ main' = [main EXCEPT ![p] = m]
              /\ m.pc \in {"send", "silent"}
              /\ m.pc = "silent" => m.todo = <<Bump>>
              /\ m.pc = "send" =>
                   /\ m.seen = row /\ m.upto = ghost.bumps
                   /\ \/ branch = "insert" /\ m.todo = <<Ins, Exp, Msg, Exp>>
                      \/ m.todo = <<Opens, Msg, Exp>>
        BY <2>2
      <3>5. PICK m : m = [main[p] EXCEPT !.seen = row, !.upto = ghost.bumps,
                                         !.pc = c, !.todo = d]
        OBVIOUS
      <3>6. main' = [main EXCEPT ![p] = m]
        BY <3>4, <3>5
      <3>7. /\ m \in Mains /\ m.pc = c /\ m.todo = d
            /\ m.seen = row /\ m.upto = ghost.bumps
        <4>1. m = WithSeen(main[p], row, ghost.bumps, c, d)
          BY <3>5 DEF WithSeen
        <4> HIDE DEF c, d
        <4> QED
          <5>1. c \in Pcs
            BY <3>3 DEF Pcs
          <5> QED
            BY <1>1, <3>1, <4>1, <5>1, MainSeen
      <3> QED
        BY <1>2, <3>6, <3>7
    <2> QED
      BY <2>1, <2>2
  <1>4. MainShape(m) /\ m.todo # <<>>
    <2>1. CASE m.pc = "silent"
      BY <1>3, <2>1, Tails DEF MainShape
    <2>2. CASE m.pc = "send"
      <3>1. m.todo = <<Ins, Exp, Msg, Exp>> \/ m.todo = <<Opens, Msg, Exp>>
        BY <1>3, <2>2
      <3> QED
        <4>1. m.todo \in SendTodos
          BY <3>1 DEF SendTodos
        <4>2. m.todo # <<>>
          <5>1. <<Ins, Exp, Msg, Exp>> # <<>> /\ <<Opens, Msg, Exp>> # <<>>
            BY Tails
          <5> QED
            BY <3>1, <5>1
        <4> QED
          BY <2>2, <4>1, <4>2 DEF MainShape
    <2> QED
      BY <1>3, <2>1, <2>2
  <1>5. /\ main' \in [Proc -> Mains] /\ \A q \in Proc : MainShape(main'[q])
        /\ Locked'
        /\ main'[p] = m /\ \A q \in Proc : main'[q] = main[q] \/ q = p
    BY <1>0, <1>3, <1>4, MainSet
  <1>6. /\ ghost' \in Ghosts
        /\ ghost'.bumps = ghost.bumps /\ ghost'.told = ghost.told
        /\ ghost'.metaBumps = ghost.metaBumps /\ ghost'.metaTold = ghost.metaTold
        /\ ghost'.delivered = ghost.delivered
        /\ \A n \in ghost'.silent :
             n \in ghost.silent \/ (branch = "suppress" /\ n = main[p].now)
        /\ ghost'.lost = ghost.lost /\ ghost'.bare = ghost.bare
        /\ \A q \in Proc \ {p} : q \in ghost'.stale <=> q \in ghost.stale
        /\ asks => ghost'.stale = ghost.stale
    <2>1. CASE ~asks
      <3>1. PICK s : s = IF branch = "suppress" THEN ghost.silent \union {main[p].now}
                                                ELSE ghost.silent
        OBVIOUS
      <3>2. PICK t : t = ghost.stale \ {p}
        OBVIOUS
      <3>3. s \in SUBSET Nat /\ t \in SUBSET Proc
        BY <1>1, <3>1, <3>2 DEF Ghosts
      <3>4. ghost' = [[ghost EXCEPT !.stale = t] EXCEPT !.silent = s]
        BY <1>0, <2>1, <3>1, <3>2
      <3>5. ghost' \in Ghosts
        <4>1. [ghost EXCEPT !.stale = t] \in Ghosts
          BY <1>1, <3>3 DEF Ghosts
        <4> QED
          BY <3>3, <3>4, <4>1 DEF Ghosts
      <3>6. /\ ghost'.bumps = ghost.bumps /\ ghost'.told = ghost.told
            /\ ghost'.metaBumps = ghost.metaBumps /\ ghost'.metaTold = ghost.metaTold
            /\ ghost'.delivered = ghost.delivered
            /\ ghost'.lost = ghost.lost /\ ghost'.bare = ghost.bare
        BY <1>1, <3>4 DEF Ghosts
      <3>7. ghost'.silent = s /\ ghost'.stale = t
        BY <1>1, <3>4 DEF Ghosts
      <3> QED
        BY <2>1, <3>1, <3>2, <3>5, <3>6, <3>7
    <2>2. CASE asks
      <3>1. ghost' = ghost
        BY <1>0, <2>2
      <3> QED
        BY <1>1, <3>1
    <2> QED
      BY <2>1, <2>2
  <1>7. Types'
    BY <1>0, <1>5, <1>6 DEF Types, CrashShape
  <1>8. CountersConserved'
    BY <1>0, <1>6 DEF CountersConserved
  <1>9. Delivered'
    <2>1. SilentOnlyAfterDelivery'
      <3> SUFFICES ASSUME NEW n \in ghost'.silent
                   PROVE  \E d \in ghost.delivered : n - d < Cooldown
        BY <1>6 DEF SilentOnlyAfterDelivery
      <3>1. CASE n \in ghost.silent
        BY <3>1 DEF Delivered, SilentOnlyAfterDelivery
      <3>2. CASE branch = "suppress" /\ n = main[p].now
        <4>1. PICK d \in ghost.delivered : row.last_notified <= d
          BY <1>2, <3>2 DEF Delivered
        <4>2. d \in Nat /\ Cooldown \in Nat
          BY <1>1, RedisAssumption DEF Ghosts
        <4>3. n - d < Cooldown
          BY <1>1, <1>2, <3>2, <4>1, <4>2
        <4> QED
          BY <4>3
      <3> QED
        BY <1>6, <3>1, <3>2
    <2> QED
      BY <1>0, <1>6, <2>1 DEF Delivered
  <1>10. Expires'
    <2>1. \A q \in Proc : main'[q].todo = <<>> => main[q].todo = <<>>
      BY <1>4, <1>5
    <2> QED
      BY <1>0, <1>6, <2>1, ExpiresStays
  <1>11. Conserved'
    <2>1. Alone' <=> Alone
      BY DEF Alone
    <2>2. p \in scenario.procs
      BY <1>0 DEF Conserved
    <2>3. ASSUME Alone, ~ghost.lost
          PROVE  /\ row.suppressed_count = ghost.bumps - ghost.told
                 /\ ghost.told <= ghost.bumps
                 /\ row = NoRow => ghost.told = ghost.bumps
      <3>1. row.suppressed_count = ghost.bumps - ghost.told /\ ghost.told <= ghost.bumps
        BY <2>3 DEF Conserved, Sums
      <3>2. ghost.bumps \in Int /\ ghost.told \in Int
        BY <1>1 DEF Ghosts
      <3> QED
        BY <3>1, <3>2 DEF NoRow
    <2>4. Alone /\ ~ghost.lost /\ m.pc = "send" =>
            Carries(ghost, m.seen.suppressed_count, m.upto)
      BY <1>1, <1>3, <2>3 DEF Carries, Ghosts
    <2>5. Alone /\ ~ghost.lost /\ m.todo = <<Ins, Exp, Msg, Exp>> =>
            ghost.told = ghost.bumps
      BY <1>2, <1>3, <2>3, TodosDiffer
    <2>6. m.pc = "send" => worker[p].at = "none"
      BY <1>3
    <2>7. /\ \A q \in Proc : main'[q].pc = "send" => worker[q].at = "none"
          /\ \A q \in Proc \ scenario.procs :
               main'[q].pc = "idle" /\ worker[q].at = "none"
      BY <1>5, <2>2, <2>6 DEF Conserved
    <2>8. ASSUME Alone, ~ghost.lost, NEW q \in Proc
          PROVE  Accounts(q)'
      <3>1. Accounts(q)
        BY <2>8 DEF Conserved
      <3>2. \A c, u : Carries(ghost, c, u) => Carries(ghost', c, u)
        BY <1>6 DEF Carries
      <3>3. CASE q # p
        <4>1. main'[q] = main[q] /\ worker'[q] = worker[q]
          BY <1>0, <1>5, <3>3
        <4> QED
          BY <1>6, <3>1, <3>2, <3>3, <4>1 DEF Accounts
      <3>4. CASE q = p
        <4>1. /\ worker'[q] = worker[q]
              /\ worker[q].at = "queued" => ghost'.stale = ghost.stale
              /\ worker[q].todo = <<>>
          BY <1>0, <1>6, <3>4
        <4>2. worker[q].todo # <<Notify, Chk>> /\ worker[q].todo # <<Zero>>
          BY <4>1, Tails
        <4>3. main'[q] = m
          BY <1>5, <3>4
        <4> QED
          BY <1>6, <2>4, <2>5, <2>8, <3>1, <3>2, <4>1, <4>2, <4>3 DEF Accounts
      <3> QED
        BY <3>3, <3>4
    <2>9. Alone /\ ~ghost.lost => Sums'
      BY <1>0, <1>6 DEF Conserved, Sums
    <2> QED
      BY <1>0, <1>6, <2>1, <2>7, <2>8, <2>9 DEF Conserved
  <1> QED
    BY <1>7, <1>8, <1>9, <1>10, <1>11

\* What a reporting thread sends, and has then left to send.
LEMMA MainHead ==
  ASSUME Types, NEW p \in Proc, main[p].todo # <<>>
  PROVE  /\ main[p] \in Mains /\ main[p].pc \in {"send", "silent"}
         /\ Head(main[p].todo) \in {Ins, Exp, Opens, Msg, Bump}
         /\ Head(main[p].todo) = Ins => main[p].todo = <<Ins, Exp, Msg, Exp>>
         /\ Tail(main[p].todo) \in SendTodos
         /\ main[p].pc = "silent" => Tail(main[p].todo) = <<>>
         /\ Tail(main[p].todo) = <<>> => Head(main[p].todo) \in {Exp, Bump}
         /\ Tail(main[p].todo) # <<Ins, Exp, Msg, Exp>>
  <1> DEFINE t == main[p].todo
  <1>1. /\ main[p] \in Mains /\ MainShape(main[p])
        /\ main[p].pc \in {"idle", "called", "send", "silent"}
        /\ t \in SendTodos \union {<<Bump>>}
    BY DEF Types, Mains
  <1>2. main[p].pc \in {"send", "silent"}
    BY <1>1 DEF MainShape
  <1>3. main[p].pc = "silent" => t = <<Bump>>
    BY <1>1 DEF MainShape
  <1>4. t # <<>>
    OBVIOUS
  <1> SUFFICES /\ Head(t) \in {Ins, Exp, Opens, Msg, Bump}
               /\ Head(t) = Ins => t = <<Ins, Exp, Msg, Exp>>
               /\ Tail(t) \in SendTodos
               /\ t = <<Bump>> => Tail(t) = <<>>
               /\ Tail(t) = <<>> => Head(t) \in {Exp, Bump}
               /\ Tail(t) # <<Ins, Exp, Msg, Exp>>
    BY <1>1, <1>2, <1>3
  <1> HIDE DEF t
  <1>5. <<>> \in SendTodos
    BY DEF SendTodos
  <1>6. CASE t = <<Bump>>
    <2>1. Head(t) = Bump /\ Tail(t) = <<>>
      BY <1>6, Tails
    <2> QED
      <3>1. Bump # Ins
        BY NamesDiffer
      <3>2. Tail(t) \in SendTodos
        BY <1>5, <2>1
      <3>3. Tail(t) # <<Ins, Exp, Msg, Exp>>
        BY <2>1, Tails
      <3> QED
        BY <2>1, <3>1, <3>2, <3>3
  <1>7. CASE t # <<Bump>>
    <2>1. t \in SendTodos
      BY <1>1, <1>7
    <2>2. /\ Head(t) \in {Ins, Exp, Opens, Msg} /\ Tail(t) \in SendTodos
          /\ Tail(t) = <<>> => Head(t) = Exp
          /\ Tail(t) # <<>> => Head(Tail(t)) \in {Exp, Msg}
      BY <2>1, <1>4, SendTail
    <2>3. Head(t) = Ins => t = <<Ins, Exp, Msg, Exp>>
      BY <1>4, <2>1, Tails, NamesDiffer DEF SendTodos
    <2>4. Tail(t) # <<Ins, Exp, Msg, Exp>>
      <3>1. PICK u : u = <<Ins, Exp, Msg, Exp>>
        OBVIOUS
      <3>2. u # <<>> /\ Head(u) = Ins
        BY <3>1, Tails
      <3>3. Tail(t) # u
        BY <2>2, <3>2, NamesDiffer
      <3> QED
        BY <3>1, <3>3
    <2> QED
      BY <1>7, <2>2, <2>3, <2>4
  <1> QED
    BY <1>6, <1>7

LEMMA MainRunsKeeps ==
  ASSUME Inv, UNCHANGED scenario, NEW p \in Proc, MainRuns(p)
  PROVE  Inv'
  <1> USE DEF Inv
  <1> DEFINE b == Head(main[p].todo)
             t == Tail(main[p].todo)
  <1>0. /\ main[p].todo # <<>> /\ Runs(main[p].todo, main[p].now, 0)
        /\ ghost' = Noted(main[p].todo)
        /\ main' = [main EXCEPT ![p] = [main[p] EXCEPT !.todo = t]]
        /\ UNCHANGED <<clock, worker, crash, page, digest>>
    BY DEF MainRuns, Runs, Types
  <1>1. /\ main[p] \in Mains /\ main[p].pc \in {"send", "silent"}
        /\ b \in {Ins, Exp, Opens, Msg, Bump}
        /\ b = Ins => main[p].todo = <<Ins, Exp, Msg, Exp>>
        /\ t \in SendTodos
        /\ main[p].pc = "silent" => t = <<>>
        /\ t = <<>> => b \in {Exp, Bump}
        /\ t # <<Ins, Exp, Msg, Exp>>
    BY <1>0, MainHead
  <1>2. b \in Expiring \union Others /\ main[p].now \in Nat
    BY <1>1 DEF Expiring, Others, Mains
  <1>3. /\ Effect(b, main[p].now, 0, row')
        /\ meta' \in Metas
        /\ meta'.suppressed =
             meta.suppressed + IF b \in {Bump, CntMeta} THEN 1 ELSE 0
    BY <1>0, <1>2, RunsDoes
  <1>4. /\ ghost' \in Ghosts
        /\ ghost'.bumps = ghost.bumps + IF b \in {Bump, Cnt} THEN 1 ELSE 0
        /\ ghost'.metaBumps =
             ghost.metaBumps + IF b \in {Bump, CntMeta} THEN 1 ELSE 0
        /\ ghost'.told = ghost.told /\ ghost'.metaTold = ghost.metaTold
        /\ ghost'.silent = ghost.silent /\ ghost'.delivered = ghost.delivered
        /\ ghost'.stale = ghost.stale /\ ghost'.lost = ghost.lost
        /\ ghost'.bare = ghost.bare
    BY <1>0, <1>2, NotedIs
  <1>5. PICK m : m = [main[p] EXCEPT !.todo = t]
    OBVIOUS
  <1>6. /\ m \in Mains /\ m.pc = main[p].pc /\ m.todo = t
        /\ m.seen = main[p].seen /\ m.upto = main[p].upto
    BY <1>1, <1>5 DEF Mains
  <1> HIDE DEF b, t
  <1>7. MainShape(m)
    BY <1>1, <1>6 DEF MainShape
  <1>8. worker[p].todo = <<>>
    BY <1>0 DEF Types, Locked
  <1>9. /\ main' \in [Proc -> Mains] /\ \A q \in Proc : MainShape(main'[q])
        /\ Locked'
        /\ main'[p] = m /\ \A q \in Proc : main'[q] = main[q] \/ q = p
    BY <1>0, <1>5, <1>6, <1>7, <1>8, MainSet
  <1>10. /\ Typed(row')
         /\ row.exists => row'.exists
         /\ b = Bump \/ b = Exp => (row'.exists => row'.expires # Forever)
         /\ row'.last_notified = row.last_notified
         /\ row'.suppressed_count =
              IF b = Ins THEN 0
              ELSE row.suppressed_count + IF b = Bump THEN 1 ELSE 0
    <2>1. b \notin {Notify, Clr, Zero, Cnt, CntMeta}
      BY <1>1, NamesDiffer
    <2>2. row.suppressed_count \in Int
      BY DEF Types, Typed, Rows
    <2>3. b = Bump => b # Ins
      BY NamesDiffer
    <2> QED
      BY <1>3, <2>1, <2>2, <2>3 DEF Effect, Expiring
  <1>11. Types'
    <2>1. meta.suppressed <= meta'.suppressed /\ meta.suppressed \in Nat
      BY <1>3 DEF Types, Metas
    <2>2. digest.pc = "settle" => digest.amount <= meta'.suppressed
      BY <1>3, <2>1 DEF Types, Metas, Digests
    <2> QED
      BY <1>0, <1>3, <1>4, <1>9, <1>10, <2>2, TypesOf DEF Types
  <1>12. CountersConserved'
    <2>1. /\ meta.suppressed \in Int
          /\ ghost.metaBumps \in Int /\ ghost.metaTold \in Int
      BY DEF Types, Metas, Ghosts
    <2> QED
      BY <1>3, <1>4, <2>1 DEF CountersConserved
  <1>13. Delivered'
    BY <1>0, <1>4, <1>10 DEF Delivered, SilentOnlyAfterDelivery
  <1>14. Expires'
    <2>1. (\A q \in Proc : main'[q].todo = <<>>) /\ row'.exists
            => row'.expires # Forever
      BY <1>1, <1>6, <1>9, <1>10
    <2> QED
      BY <1>0, <2>1 DEF Expires
  <1>15. Conserved'
    <2>1. Alone' <=> Alone
      BY DEF Alone
    <2>2. p \in scenario.procs
      BY <1>1 DEF Conserved
    <2>3. /\ \A q \in Proc : main'[q].pc = "send" => worker[q].at = "none"
          /\ \A q \in Proc \ scenario.procs :
               main'[q].pc = "idle" /\ worker[q].at = "none"
      BY <1>6, <1>9, <2>2 DEF Conserved
    <2>4. /\ ghost.bumps \in Int /\ ghost.told \in Int /\ ghost'.bumps \in Int
          /\ ghost.bumps <= ghost'.bumps
          /\ ghost'.bumps = ghost.bumps + IF b = Bump THEN 1 ELSE 0
      <3>1. b # Cnt
        BY <1>1, NamesDiffer
      <3> QED
        BY <1>4, <3>1 DEF Types, Ghosts
    <2>5. \A c, u : u \in Nat /\ Carries(ghost, c, u) => Carries(ghost', c, u)
      BY <1>4, <2>4 DEF Carries
    <2>6. ASSUME Alone, ~ghost.lost
          PROVE  /\ row'.suppressed_count = ghost'.bumps - ghost'.told
                 /\ ghost'.told <= ghost'.bumps
      <3>1. row.suppressed_count = ghost.bumps - ghost.told /\ ghost.told <= ghost.bumps
        BY <2>6 DEF Conserved, Sums
      <3>2. CASE b = Ins
        <4>1. ghost.told = ghost.bumps
          BY <1>1, <2>6, <3>2 DEF Conserved, Accounts
        <4> QED
          BY <1>4, <1>10, <2>4, <3>2, <4>1, NamesDiffer
      <3>3. CASE b # Ins
        BY <1>4, <1>10, <2>4, <3>1, <3>3
      <3> QED
        BY <3>2, <3>3
    <2>7. ASSUME Alone, ~ghost.lost, NEW q \in Proc
          PROVE  Accounts(q)'
      <3>1. /\ main'[q].pc = main[q].pc /\ main'[q].seen = main[q].seen
            /\ main'[q].upto = main[q].upto /\ main[q].upto \in Nat
            /\ worker[q].upto \in Nat
        BY <1>6, <1>9 DEF Types, Mains, Workers
      <3>2. main'[q].todo # <<Ins, Exp, Msg, Exp>>
        <4>1. CASE q = p
          BY <1>1, <1>6, <1>9, <4>1
        <4>2. CASE q # p
          <5>1. q \notin scenario.procs
            BY <2>2, <2>7, <4>2, OnlyOne
          <5>2. main'[q].todo = <<>>
            BY <1>9, <4>2, <5>1 DEF Conserved, Types, MainShape
          <5> QED
            BY <5>2, Tails
        <4> QED
          BY <4>1, <4>2
      <3>3. worker[q].todo # <<Zero>>
        <4>1. CASE q = p
          BY <1>8, <4>1, Tails
        <4>2. CASE q # p
          <5>1. q \notin scenario.procs
            BY <2>2, <2>7, <4>2, OnlyOne
          <5>2. worker[q].todo = <<>>
            BY <5>1 DEF Conserved, Types, WorkerShape
          <5> QED
            BY <5>2, Tails
        <4> QED
          BY <4>1, <4>2
      <3>4. Accounts(q)
        BY <2>7 DEF Conserved
      <3>5. worker' = worker /\ ghost'.stale = ghost.stale
        BY <1>0, <1>4
      <3> QED
        BY <2>5, <3>1, <3>2, <3>3, <3>4, <3>5 DEF Accounts
    <2>8. Alone /\ ~ghost.lost => Sums'
      BY <2>6 DEF Sums
    <2> QED
      BY <1>0, <1>4, <2>1, <2>3, <2>7, <2>8 DEF Conserved
  <1> QED
    BY <1>11, <1>12, <1>13, <1>14, <1>15

\* A process steps in both of its threads.
LEMMA BothSet ==
  ASSUME Types, UNCHANGED scenario, UNCHANGED <<clock, crash, page>>,
         NEW p \in Proc, NEW m \in Mains, MainShape(m),
         NEW w \in Workers, WorkerShape(w), m.todo # <<>> => w.todo = <<>>,
         main' = [main EXCEPT ![p] = m], worker' = [worker EXCEPT ![p] = w],
         Typed(row'), meta' \in Metas, meta.suppressed <= meta'.suppressed,
         UNCHANGED digest, ghost' \in Ghosts
  PROVE  /\ Types'
         /\ main'[p] = m /\ \A q \in Proc : main'[q] = main[q] \/ q = p
         /\ worker'[p] = w /\ \A q \in Proc : worker'[q] = worker[q] \/ q = p
  <1>1. /\ main \in [Proc -> Mains] /\ \A q \in Proc : MainShape(main[q])
        /\ worker \in [Proc -> Workers] /\ \A q \in Proc : WorkerShape(worker[q])
        /\ Locked
    BY DEF Types
  <1>2. /\ main'[p] = m /\ \A q \in Proc : main'[q] = main[q] \/ q = p
        /\ worker'[p] = w /\ \A q \in Proc : worker'[q] = worker[q] \/ q = p
    BY <1>1
  <1>3. /\ main' \in [Proc -> Mains] /\ \A q \in Proc : MainShape(main'[q])
        /\ worker' \in [Proc -> Workers] /\ \A q \in Proc : WorkerShape(worker'[q])
    BY <1>1, <1>2
  <1>4. Locked'
    BY <1>1, <1>2 DEF Locked
  <1>5. digest.pc = "settle" => digest.amount <= meta'.suppressed
    BY DEF Types, Metas, Digests
  <1>6. Types'
    BY <1>3, <1>4, <1>5 DEF Types, CrashShape
  <1> QED
    BY <1>2, <1>6

\* A decision to send, as an alert.
WithQueued(u, c) == [NoAlert EXCEPT !.at = "queued", !.upto = u, !.count = c]

LEMMA QueuedIs ==
  ASSUME NEW u \in Nat, NEW c \in Int
  PROVE  /\ WithQueued(u, c) \in Workers /\ WorkerShape(WithQueued(u, c))
         /\ WithQueued(u, c).at = "queued" /\ WithQueued(u, c).todo = <<>>
         /\ WithQueued(u, c).upto = u /\ WithQueued(u, c).count = c
  <1>1. PICK y : y = WithQueued(u, c)
    OBVIOUS
  <1>2. PICK a \in Workers : /\ a = [NoAlert EXCEPT !.at = "queued"]
                             /\ a.at = "queued" /\ a.todo = <<>>
    <2>1. [NoAlert EXCEPT !.at = "queued"] \in Workers
      BY IdleTyped DEF Workers
    <2>2. PICK a \in Workers : a = [NoAlert EXCEPT !.at = "queued"]
      BY <2>1
    <2>3. a.at = "queued" /\ a.todo = <<>>
      BY <2>2, IdleTyped DEF Workers
    <2> QED
      BY <2>2, <2>3
  <1>3. PICK b \in Workers : b = [a EXCEPT !.upto = u]
    BY DEF Workers
  <1>4. b.at = "queued" /\ b.todo = <<>> /\ b.upto = u
    BY <1>2, <1>3 DEF Workers
  <1>5. y = [b EXCEPT !.count = c]
    BY <1>1, <1>2, <1>3 DEF WithQueued
  <1>6. /\ y \in Workers /\ y.at = "queued" /\ y.todo = <<>>
        /\ y.upto = u /\ y.count = c
    BY <1>4, <1>5 DEF Workers
  <1> QED
    BY <1>1, <1>6 DEF WorkerShape

LEMMA MainReturnsKeeps ==
  ASSUME Inv, UNCHANGED scenario, NEW p \in Proc, MainReturns(p)
  PROVE  Inv'
  <1> USE DEF Inv
  <1>0. /\ main[p].pc \in {"send", "silent"} /\ main[p].todo = <<>>
        /\ main' = [main EXCEPT ![p] = Idle]
        /\ UNCHANGED <<row, meta, clock, crash, page, digest, ghost>>
    BY DEF MainReturns
  <1>1. /\ main[p] \in Mains /\ worker[p] \in Workers /\ WorkerShape(worker[p])
        /\ Typed(row) /\ meta \in Metas /\ ghost \in Ghosts
        /\ worker \in [Proc -> Workers]
    BY DEF Types
  <1>2. PICK w \in Workers :
          /\ worker' = [worker EXCEPT ![p] = w] /\ WorkerShape(w)
          /\ \/ w = worker[p]
             \/ /\ main[p].pc = "send" /\ w.at = "queued" /\ w.todo = <<>>
                /\ w.upto = main[p].upto /\ w.count = main[p].seen.suppressed_count
    <2>1. CASE main[p].pc = "silent"
      <3>1. worker' = worker
        BY <2>1 DEF MainReturns
      <3>2. worker' = [worker EXCEPT ![p] = worker[p]]
        BY <1>1, <3>1
      <3> QED
        BY <1>1, <3>2
    <2>2. CASE main[p].pc = "send"
      <3>1. PICK u \in Nat, c \in Int :
              u = main[p].upto /\ c = main[p].seen.suppressed_count
        BY <1>1 DEF Mains, Typed, Rows
      <3>2. worker' = [worker EXCEPT ![p] = WithQueued(u, c)]
        BY <2>2, <3>1 DEF MainReturns, WithQueued
      <3>3. PICK w : w = WithQueued(u, c)
        OBVIOUS
      <3>4. /\ w \in Workers /\ WorkerShape(w)
            /\ w.at = "queued" /\ w.todo = <<>> /\ w.upto = u /\ w.count = c
        BY <3>3, QueuedIs
      <3> QED
        BY <2>2, <3>1, <3>2, <3>3, <3>4
    <2> QED
      BY <1>0, <2>1, <2>2
  <1>3. /\ Types'
        /\ main'[p] = Idle /\ \A q \in Proc : main'[q] = main[q] \/ q = p
        /\ worker'[p] = w /\ \A q \in Proc : worker'[q] = worker[q] \/ q = p
    <2>1. meta.suppressed <= meta'.suppressed
      BY <1>0, <1>1 DEF Metas
    <2> QED
      BY <1>0, <1>1, <1>2, <2>1, BothSet, IdleTyped
  <1>4. main'[p].pc = "idle" /\ main'[p].todo = <<>>
    BY <1>3, IdleTyped
  <1>5. CountersConserved'
    BY <1>0 DEF CountersConserved
  <1>7. Delivered'
    <2>1. \A q \in Proc : worker'[q].todo = <<Notify, Chk>> =>
             worker'[q].now \in ghost.delivered
      BY <1>2, <1>3, Tails, ZenonT(30) DEF Delivered
    <2> QED
      BY <1>0, <2>1 DEF Delivered, SilentOnlyAfterDelivery
  <1>8. Expires'
    <2>2. \A q \in Proc : main'[q].todo = <<>> => main[q].todo = <<>>
      BY <1>0, <1>3
    <2> QED
      BY <1>0, <2>2, ExpiresStays
  <1>9. Conserved'
    <2>1. Alone' <=> Alone
      BY DEF Alone
    <2>2. p \in scenario.procs
      BY <1>0 DEF Conserved
    <2>3. /\ \A q \in Proc : main'[q].pc = "send" => worker'[q].at = "none"
          /\ \A q \in Proc \ scenario.procs :
               main'[q].pc = "idle" /\ worker'[q].at = "none"
      BY <1>3, <1>4, <2>2 DEF Conserved
    <2>4. ASSUME Alone, ~ghost.lost, NEW q \in Proc
          PROVE  Accounts(q)'
      <3>0. Accounts(q) /\ ghost' = ghost
        BY <1>0, <2>4 DEF Conserved
      <3>1. CASE q = p
        <4>1. main'[q].pc # "send" /\ main'[q].todo # <<Ins, Exp, Msg, Exp>>
          <5>1. <<>> # <<Ins, Exp, Msg, Exp>>
            BY Tails
          <5> QED
            BY <1>4, <3>1, <5>1
        <4>2. CASE w = worker[p]
          <5>1. worker'[q] = worker[q]
            BY <1>3, <3>1, <4>2
          <5> QED
            BY <3>0, <4>1, <5>1 DEF Accounts
        <4>3. CASE /\ main[p].pc = "send" /\ w.at = "queued" /\ w.todo = <<>>
                   /\ w.upto = main[p].upto
                   /\ w.count = main[p].seen.suppressed_count
          <5>1. p \notin ghost.stale => Carries(ghost, w.count, w.upto)
            BY <3>0, <3>1, <4>3 DEF Accounts
          <5>2. worker'[q] = w /\ w.todo # <<Zero>>
            BY <1>3, <3>1, <4>3, Tails
          <5> QED
            BY <3>0, <3>1, <4>1, <5>1, <5>2 DEF Accounts
        <4> QED
          BY <1>2, <4>2, <4>3
      <3>2. CASE q # p
        <4>1. main'[q] = main[q] /\ worker'[q] = worker[q]
          BY <1>3, <3>2
        <4> QED
          BY <3>0, <4>1 DEF Accounts
      <3> QED
        BY <3>1, <3>2
    <2>5. Alone /\ ~ghost.lost => Sums'
      BY <1>0 DEF Conserved, Sums
    <2> QED
      BY <1>0, <2>1, <2>3, <2>4, <2>5 DEF Conserved
  <1> QED
    BY <1>3, <1>5, <1>7, <1>8, <1>9

-----------------------------------------------------------------------------
(* The worker.                                                             *)

\* A process whose worker alone steps.
LEMMA WorkerAlone ==
  ASSUME Types, UNCHANGED scenario, UNCHANGED <<clock, crash, page, main>>,
         NEW p \in Proc, NEW w \in Workers, WorkerShape(w), main[p].todo = <<>>,
         worker' = [worker EXCEPT ![p] = w],
         Typed(row'), meta' = meta, UNCHANGED digest, ghost' \in Ghosts
  PROVE  /\ Types'
         /\ worker'[p] = w /\ \A q \in Proc : worker'[q] = worker[q] \/ q = p
  <1>1. /\ worker' \in [Proc -> Workers] /\ \A q \in Proc : WorkerShape(worker'[q])
        /\ Locked'
        /\ worker'[p] = w /\ \A q \in Proc : worker'[q] = worker[q] \/ q = p
    BY WorkerSet
  <1>2. /\ main' \in [Proc -> Mains] /\ \A q \in Proc : MainShape(main'[q])
        /\ meta' \in Metas
        /\ digest'.pc = "settle" => digest'.amount <= meta'.suppressed
    BY DEF Types
  <1>3. Types'
    BY <1>1, <1>2 DEF Types, CrashShape
  <1> QED
    BY <1>1, <1>3

WithSent(w, n) == [w EXCEPT !.at = "sent", !.now = n, !.todo = RecordSent]

LEMMA SentIs ==
  ASSUME NEW w \in Workers, NEW n \in Nat
  PROVE  /\ WithSent(w, n) \in Workers /\ WorkerShape(WithSent(w, n))
         /\ WithSent(w, n).at = "sent" /\ WithSent(w, n).now = n
         /\ WithSent(w, n).todo = <<Notify, Chk>>
         /\ WithSent(w, n).count = w.count /\ WithSent(w, n).upto = w.upto
  <1>1. PICK y : y = WithSent(w, n)
    OBVIOUS
  <1>2. PICK a \in Workers : a = [w EXCEPT !.at = "sent"]
    BY DEF Workers
  <1>3. a.at = "sent" /\ a.count = w.count /\ a.upto = w.upto
    BY <1>2 DEF Workers
  <1>4. PICK b \in Workers : b = [a EXCEPT !.now = n]
    BY DEF Workers
  <1>5. b.at = "sent" /\ b.now = n /\ b.count = w.count /\ b.upto = w.upto
    BY <1>3, <1>4 DEF Workers
  <1>6. RecordSent = <<Notify, Chk>>
    BY DEF RecordSent, Notify, Chk
  <1>7. PICK d \in WorkerTodos : d = <<Notify, Chk>>
    BY DEF WorkerTodos
  <1>8. y = [b EXCEPT !.todo = d]
    BY <1>1, <1>2, <1>4, <1>6, <1>7 DEF WithSent
  <1>9. /\ y \in Workers /\ y.todo = d /\ y.at = "sent" /\ y.now = n
        /\ y.count = w.count /\ y.upto = w.upto
    BY <1>5, <1>8 DEF Workers
  <1>10. WorkerShape(y)
    BY <1>7, <1>9, Tails DEF WorkerShape
  <1> QED
    BY <1>1, <1>7, <1>9, <1>10

LEMMA WorkerSendsKeeps ==
  ASSUME Inv, UNCHANGED scenario, NEW p \in Proc, WorkerSends(p)
  PROVE  Inv'
  <1> USE DEF Inv
  <1>0. /\ worker[p].at = "queued" /\ main[p].pc \in {"idle", "called"}
        /\ UNCHANGED <<row, meta, clock, main, crash, page, digest>>
    BY DEF WorkerSends
  <1>1. /\ main[p].todo = <<>> /\ worker[p] \in Workers /\ clock \in Nat
        /\ ghost \in Ghosts /\ worker \in [Proc -> Workers]
    BY <1>0 DEF Types, MainShape
  <1>2. PICK ok \in BOOLEAN :
          /\ worker' = Sent(p, ok)
          /\ ghost' = IF ok THEN [ghost EXCEPT !.delivered = @ \union {clock}]
                            ELSE ghost
    BY DEF WorkerSends
  <1>3. PICK w \in Workers :
          /\ worker' = [worker EXCEPT ![p] = w] /\ WorkerShape(w)
          /\ \/ w.at = "none" /\ w.todo = <<>>
             \/ /\ ok /\ w.at = "sent" /\ w.todo = <<Notify, Chk>> /\ w.now = clock
                /\ w.count = worker[p].count /\ w.upto = worker[p].upto
    <2>1. CASE ok
      <3>1. PICK w : w = WithSent(worker[p], clock)
        OBVIOUS
      <3>2. worker' = [worker EXCEPT ![p] = w]
        BY <1>1, <1>2, <2>1, <3>1 DEF Sent, WithSent
      <3> QED
        BY <1>1, <2>1, <3>1, <3>2, SentIs
    <2>2. CASE ~ok
      BY <1>2, <2>2, IdleTyped DEF Sent
    <2> QED
      BY <2>1, <2>2
  <1>4. /\ ghost' \in Ghosts
        /\ ghost'.bumps = ghost.bumps /\ ghost'.told = ghost.told
        /\ ghost'.metaBumps = ghost.metaBumps /\ ghost'.metaTold = ghost.metaTold
        /\ ghost'.silent = ghost.silent
        /\ ghost.delivered \subseteq ghost'.delivered
        /\ ok => clock \in ghost'.delivered
        /\ ghost'.stale = ghost.stale /\ ghost'.lost = ghost.lost
        /\ ghost'.bare = ghost.bare
    <2>1. CASE ok
      <3>1. PICK d \in SUBSET Nat : d = ghost.delivered \union {clock}
        BY <1>1 DEF Ghosts
      <3>2. ghost' = [ghost EXCEPT !.delivered = d]
        BY <1>2, <2>1, <3>1
      <3>3. ghost' \in Ghosts /\ ghost'.delivered = d
        BY <1>1, <3>2 DEF Ghosts
      <3>4. /\ ghost'.bumps = ghost.bumps /\ ghost'.told = ghost.told
            /\ ghost'.metaBumps = ghost.metaBumps /\ ghost'.metaTold = ghost.metaTold
            /\ ghost'.silent = ghost.silent
            /\ ghost'.stale = ghost.stale /\ ghost'.lost = ghost.lost
            /\ ghost'.bare = ghost.bare
        BY <1>1, <3>2 DEF Ghosts
      <3> QED
        BY <3>1, <3>3, <3>4
    <2>2. CASE ~ok
      BY <1>1, <1>2, <2>2
    <2> QED
      BY <2>1, <2>2
  <1>5. /\ Types'
        /\ worker'[p] = w /\ \A q \in Proc : worker'[q] = worker[q] \/ q = p
    <2>1. Typed(row') /\ meta' = meta
      BY <1>0 DEF Types
    <2> QED
      BY <1>0, <1>1, <1>3, <1>4, <2>1, WorkerAlone
  <1>6. CountersConserved'
    BY <1>0, <1>4 DEF CountersConserved
  <1>7. Delivered'
    <2>1. \A q \in Proc : worker'[q].todo = <<Notify, Chk>> =>
             worker'[q].now \in ghost'.delivered
      BY <1>3, <1>4, <1>5, Tails, ZenonT(30) DEF Delivered
    <2>2. /\ row'.last_notified \in {row.last_notified, Never}
          /\ crash.now \in Nat
      BY <1>0 DEF Types, Crashes
    <2> QED
      BY <1>0, <1>1, <1>4, <2>1, <2>2, DeliveredStays
  <1>8. Expires'
    BY <1>0, <1>4, ExpiresStays
  <1>9. Conserved'
    <2>1. Alone' <=> Alone
      BY DEF Alone
    <2>2. p \in scenario.procs
      BY <1>0 DEF Conserved
    <2>3. /\ \A q \in Proc : main[q].pc = "send" => worker'[q].at = "none"
          /\ \A q \in Proc \ scenario.procs :
               main[q].pc = "idle" /\ worker'[q].at = "none"
      BY <1>0, <1>5, <2>2 DEF Conserved
    <2>4. \A c, u : Carries(ghost, c, u) => Carries(ghost', c, u)
      BY <1>4 DEF Carries
    <2>5. ASSUME Alone, ~ghost.lost, NEW q \in Proc
          PROVE  Accounts(q)'
      <3>1. Accounts(q) /\ main' = main
        BY <1>0, <2>5 DEF Conserved
      <3>2. CASE q = p
        <4>1. p \notin ghost.stale => Carries(ghost', worker[p].count, worker[p].upto)
          BY <1>0, <2>4, <3>1, <3>2 DEF Accounts
        <4>2. <<Notify, Chk>> # <<Zero>> /\ <<>> # <<Zero>> /\ <<>> # <<Notify, Chk>>
          BY Tails, TodosDiffer
        <4>3. /\ worker'[q] = w /\ w.todo # <<Zero>> /\ w.at # "queued"
              /\ w.todo = <<Notify, Chk>> =>
                   w.count = worker[p].count /\ w.upto = worker[p].upto
          BY <1>3, <1>5, <3>2, <4>2
        <4> QED
          BY <1>4, <2>4, <3>1, <3>2, <4>1, <4>3 DEF Accounts
      <3>3. CASE q # p
        <4>1. worker'[q] = worker[q]
          BY <1>5, <3>3
        <4> QED
          BY <1>4, <2>4, <3>1, <4>1 DEF Accounts
      <3> QED
        BY <3>2, <3>3
    <2>6. Alone /\ ~ghost.lost => Sums'
      BY <1>0, <1>4 DEF Conserved, Sums
    <2> QED
      BY <1>0, <1>4, <2>1, <2>3, <2>5, <2>6 DEF Conserved
  <1> QED
    BY <1>5, <1>6, <1>7, <1>8, <1>9

LEMMA WorkerRunsKeeps ==
  ASSUME Inv, UNCHANGED scenario, NEW p \in Proc, WorkerRuns(p)
  PROVE  Inv'
  <1> USE DEF Inv
  <1> DEFINE b == Head(worker[p].todo)
  <1>0. /\ worker[p].todo # <<>> /\ b # Chk
        /\ Runs(worker[p].todo, worker[p].now, worker[p].count)
        /\ worker' = [worker EXCEPT ![p] =
                        IF Len(worker[p].todo) = 1 THEN NoAlert
                        ELSE [worker[p] EXCEPT !.todo = Tail(worker[p].todo)]]
        /\ ghost' = IF Len(worker[p].todo) = 1
                    THEN [ghost EXCEPT !.bare = @ \/ ~row.exists]
                    ELSE [ghost EXCEPT !.told =
                            IF @ > worker[p].upto THEN @ ELSE worker[p].upto,
                                       !.lost = @ \/ p \in ghost.stale]
        /\ UNCHANGED <<clock, main, crash, page, digest>>
    <2>1. /\ worker[p].todo # <<>> /\ b # Chk
          /\ Runs(worker[p].todo, worker[p].now, worker[p].count)
          /\ UNCHANGED <<clock, main, crash, page, digest>>
      BY DEF WorkerRuns, Chk
    <2>2. worker' = [worker EXCEPT ![p] =
                        IF Len(worker[p].todo) = 1 THEN NoAlert
                        ELSE [worker[p] EXCEPT !.todo = Tail(worker[p].todo)]]
      BY DEF WorkerRuns
    <2>3. ghost' = IF Len(worker[p].todo) = 1
                   THEN [ghost EXCEPT !.bare = @ \/ ~row.exists]
                   ELSE [ghost EXCEPT !.told =
                           IF @ > worker[p].upto THEN @ ELSE worker[p].upto,
                                      !.lost = @ \/ p \in ghost.stale]
      BY DEF WorkerRuns
    <2> QED
      BY <2>1, <2>2, <2>3
  <1>1. /\ worker[p] \in Workers /\ WorkerShape(worker[p])
        /\ worker[p].todo \in WorkerTodos /\ worker[p].now \in Nat
        /\ worker[p].count \in Int /\ worker[p].upto \in Nat
        /\ ghost \in Ghosts /\ ghost.told \in Nat /\ ghost.bumps \in Nat
        /\ Typed(row) /\ meta \in Metas
    BY DEF Types, Workers, Ghosts
  <1>2. main[p].todo = <<>> /\ worker[p].at = "sent"
    BY <1>0, <1>1 DEF Types, Locked, WorkerShape
  <1>3. PICK w \in Workers :
          /\ worker' = [worker EXCEPT ![p] = w] /\ WorkerShape(w)
          /\ w.at # "queued"
          /\ \/ worker[p].todo = <<Notify, Chk>> /\ b = Notify /\ w.todo = <<Chk>>
             \/ worker[p].todo = <<Zero>> /\ b = Zero /\ w.todo = <<>>
    <2>1. worker[p].todo = <<Notify, Chk>> \/ worker[p].todo = <<Zero>>
      BY <1>0, <1>1, Tails DEF WorkerTodos
    <2>2. CASE worker[p].todo = <<Notify, Chk>>
      <3>1. /\ Len(worker[p].todo) = 2 /\ b = Notify
            /\ Tail(worker[p].todo) = <<Chk>>
        BY <2>2, Tails
      <3>2. PICK t \in WorkerTodos : t = <<Chk>>
        BY DEF WorkerTodos
      <3>3. PICK w : w = [worker[p] EXCEPT !.todo = t]
        OBVIOUS
      <3>4. worker' = [worker EXCEPT ![p] = w]
        <4>1. PICK x : x = [worker[p] EXCEPT !.todo = Tail(worker[p].todo)]
          OBVIOUS
        <4>2. worker' = [worker EXCEPT ![p] = x]
          BY <1>0, <3>1, <4>1
        <4>3. x = w
          BY <3>1, <3>2, <3>3, <4>1
        <4> QED
          BY <4>2, <4>3
      <3>5. w \in Workers /\ w.todo = t /\ w.at = "sent"
        BY <1>1, <1>2, <3>3 DEF Workers
      <3>6. WorkerShape(w)
        BY <3>2, <3>5, Tails DEF WorkerShape
      <3> QED
        BY <2>2, <3>1, <3>2, <3>4, <3>5, <3>6
    <2>3. CASE worker[p].todo = <<Zero>>
      <3>1. Len(worker[p].todo) = 1 /\ b = Zero
        BY <2>3, Tails
      <3> QED
        BY <1>0, <2>3, <3>1, IdleTyped
    <2> QED
      BY <2>1, <2>2, <2>3
  <1>4. b \in {Notify, Zero} /\ b \in Expiring \union Others
    BY <1>3 DEF Expiring, Others
  <1>5. /\ Effect(b, worker[p].now, worker[p].count, row')
        /\ meta' \in Metas /\ meta'.last_heartbeat = meta.last_heartbeat
        /\ meta'.suppressed =
             meta.suppressed + IF b \in {Bump, CntMeta} THEN 1 ELSE 0
    BY <1>0, <1>1, <1>4, RunsDoes
  <1>6. /\ ghost' \in Ghosts
        /\ ghost'.bumps = ghost.bumps
        /\ ghost'.metaBumps = ghost.metaBumps /\ ghost'.metaTold = ghost.metaTold
        /\ ghost'.silent = ghost.silent /\ ghost'.delivered = ghost.delivered
        /\ worker[p].todo = <<Notify, Chk>> =>
             /\ ghost'.told = IF ghost.told > worker[p].upto THEN ghost.told
                                                             ELSE worker[p].upto
             /\ ghost'.lost = (ghost.lost \/ p \in ghost.stale)
             /\ ghost'.bare = ghost.bare
        /\ worker[p].todo = <<Zero>> =>
             /\ ghost'.told = ghost.told /\ ghost'.lost = ghost.lost
             /\ ghost'.bare = (ghost.bare \/ ~row.exists)
    <2>1. CASE worker[p].todo = <<Notify, Chk>>
      <3>1. Len(worker[p].todo) = 2
        BY <2>1
      <3>2. PICK n \in Nat, e \in BOOLEAN :
              /\ n = IF ghost.told > worker[p].upto THEN ghost.told ELSE worker[p].upto
              /\ e = (ghost.lost \/ p \in ghost.stale)
        BY <1>1
      <3>3. ghost' = [[ghost EXCEPT !.told = n] EXCEPT !.lost = e]
        BY <1>0, <3>1, <3>2
      <3>4. ghost' \in Ghosts /\ ghost'.told = n /\ ghost'.lost = e
        <4>1. [ghost EXCEPT !.told = n] \in Ghosts
          BY <1>1 DEF Ghosts
        <4>2. ghost' \in Ghosts
          BY <3>3, <4>1 DEF Ghosts
        <4> QED
          BY <1>1, <3>3, <4>2 DEF Ghosts
      <3>5. /\ ghost'.bumps = ghost.bumps /\ ghost'.bare = ghost.bare
            /\ ghost'.metaBumps = ghost.metaBumps /\ ghost'.metaTold = ghost.metaTold
            /\ ghost'.silent = ghost.silent /\ ghost'.delivered = ghost.delivered
        BY <1>1, <3>3 DEF Ghosts
      <3>6. <<Notify, Chk>> # <<Zero>>
        BY TodosDiffer, Tails
      <3> QED
        BY <2>1, <3>2, <3>4, <3>5, <3>6
    <2>2. CASE worker[p].todo = <<Zero>>
      <3>1. Len(worker[p].todo) = 1
        BY <2>2
      <3>2. PICK e \in BOOLEAN : e = (ghost.bare \/ ~row.exists)
        OBVIOUS
      <3>3. ghost' = [ghost EXCEPT !.bare = e]
        BY <1>0, <3>1, <3>2
      <3>4. ghost' \in Ghosts /\ ghost'.bare = e
        BY <1>1, <3>3 DEF Ghosts
      <3>5. /\ ghost'.bumps = ghost.bumps /\ ghost'.told = ghost.told
            /\ ghost'.lost = ghost.lost
            /\ ghost'.metaBumps = ghost.metaBumps /\ ghost'.metaTold = ghost.metaTold
            /\ ghost'.silent = ghost.silent /\ ghost'.delivered = ghost.delivered
        BY <1>1, <3>3 DEF Ghosts
      <3>6. <<Notify, Chk>> # <<Zero>>
        BY TodosDiffer, Tails
      <3> QED
        BY <2>2, <3>2, <3>4, <3>5, <3>6
    <2> QED
      BY <1>3, <2>1, <2>2
  <1> HIDE DEF b
  <1>7. /\ Typed(row') /\ row'.exists
        /\ b = Notify => row'.expires # Forever
        /\ b = Zero /\ row.exists => row'.expires = row.expires
        /\ row'.last_notified =
             IF b = Notify THEN worker[p].now ELSE row.last_notified
        /\ b = Notify => row'.suppressed_count =
                           row.suppressed_count - worker[p].count
        /\ b = Zero => row'.suppressed_count = 0
    <2>1. /\ b \notin {Exp, CntMeta, Clr, Ins, Bump, Cnt}
          /\ b = Notify => b # Zero /\ b \in Expiring
          /\ b = Zero => b \notin Expiring /\ b # Notify
      BY <1>4, NamesDiffer DEF Expiring
    <2> QED
      BY <1>5, <2>1 DEF Effect
  <1>8. meta' = meta
    <2>1. meta'.suppressed = meta.suppressed /\ meta'.last_heartbeat = meta.last_heartbeat
      <3>1. b \notin {Bump, CntMeta}
        BY <1>4, NamesDiffer
      <3> QED
        BY <1>1, <1>5, <3>1 DEF Metas
    <2> QED
      BY <1>1, <1>5, <2>1 DEF Metas
  <1>9. /\ Types'
        /\ worker'[p] = w /\ \A q \in Proc : worker'[q] = worker[q] \/ q = p
    BY <1>0, <1>2, <1>3, <1>6, <1>7, <1>8, WorkerAlone
  <1>10. CountersConserved'
    BY <1>6, <1>8 DEF CountersConserved
  <1>11. Delivered'
    <2>1. \A q \in Proc : worker'[q].todo = <<Notify, Chk>> =>
             worker'[q].now \in ghost'.delivered
      <3>1. <<Chk>> # <<Notify, Chk>> /\ <<>> # <<Notify, Chk>>
        BY Tails
      <3> QED
        BY <1>3, <1>6, <1>9, <3>1 DEF Delivered
    <2>2. row'.last_notified # Never =>
             \E d \in ghost.delivered : row'.last_notified <= d
      <3>1. CASE b = Notify
        <4>1. worker[p].now \in ghost.delivered
          BY <1>3, <1>4, <3>1, NamesDiffer DEF Delivered
        <4> QED
          BY <1>1, <1>7, <3>1, <4>1
      <3>2. CASE b # Notify
        BY <1>7, <3>2 DEF Delivered
      <3> QED
        BY <3>1, <3>2
    <2> QED
      BY <1>0, <1>6, <2>1, <2>2 DEF Delivered, SilentOnlyAfterDelivery
  <1>12. Expires'
    <2>1. CASE b = Notify
      BY <1>7, <2>1 DEF Expires
    <2>2. CASE b # Notify
      <3>1. worker[p].todo = <<Zero>> /\ b = Zero
        BY <1>3, <2>2
      <3> QED
        BY <1>0, <1>6, <1>7, <3>1 DEF Expires
    <2> QED
      BY <2>1, <2>2
  <1>13. Conserved'
    <2>1. Alone' <=> Alone
      BY DEF Alone
    <2>2. p \in scenario.procs /\ main[p].pc # "send"
      BY <1>2 DEF Conserved
    <2>3. /\ \A q \in Proc : main[q].pc = "send" => worker'[q].at = "none"
          /\ \A q \in Proc \ scenario.procs :
               main[q].pc = "idle" /\ worker'[q].at = "none"
      BY <1>9, <2>2 DEF Conserved
    <2>4. ASSUME Alone, ~ghost'.lost
          PROVE  Sums'
      <3>1. ~ghost.lost
        BY <1>3, <1>6, <2>4
      <3>2. Sums /\ Accounts(p)
        BY <2>4, <3>1 DEF Conserved
      <3>3. CASE worker[p].todo = <<Notify, Chk>> /\ b = Notify
        <4>1. p \notin ghost.stale
          BY <1>6, <2>4, <3>3
        <4>2. Carries(ghost, worker[p].count, worker[p].upto)
          BY <3>2, <3>3, <4>1 DEF Accounts
        <4> QED
          BY <1>1, <1>6, <1>7, <3>2, <3>3, <4>2 DEF Carries, Sums
      <3>4. CASE worker[p].todo = <<Zero>> /\ b = Zero
        <4>1. ghost.told = ghost.bumps
          BY <3>2, <3>4 DEF Accounts
        <4> QED
          BY <1>1, <1>6, <1>7, <3>4, <4>1 DEF Sums
      <3> QED
        BY <1>3, <3>3, <3>4
    <2>5. ASSUME Alone, NEW q \in Proc
          PROVE  /\ main[q].pc # "send" /\ main[q].todo # <<Ins, Exp, Msg, Exp>>
                 /\ worker'[q].at # "queued" /\ worker'[q].todo # <<Notify, Chk>>
                 /\ worker'[q].todo # <<Zero>>
      <3>0. /\ <<>> # <<Notify, Chk>> /\ <<>> # <<Zero>>
            /\ <<>> # <<Ins, Exp, Msg, Exp>>
            /\ <<Chk>> # <<Notify, Chk>> /\ <<Chk>> # <<Zero>>
        BY Tails, TodosDiffer, NamesDiffer
      <3>1. CASE q = p
        <4>1. w.todo \in {<<>>, <<Chk>>} /\ w.at # "queued"
          BY <1>3
        <4> QED
          BY <1>2, <1>9, <2>2, <3>0, <3>1, <4>1
      <3>2. CASE q # p
        <4>1. q \notin scenario.procs
          BY <2>2, <2>5, <3>2, OnlyOne
        <4>2. main[q].pc = "idle" /\ worker[q].at = "none" /\ worker'[q] = worker[q]
          BY <1>9, <3>2, <4>1 DEF Conserved
        <4>3. main[q].todo = <<>> /\ worker[q].todo = <<>>
          BY <4>2 DEF Types, MainShape, WorkerShape
        <4> QED
          BY <3>0, <4>2, <4>3
      <3> QED
        BY <3>1, <3>2
    <2> QED
      <3>1. Alone => \A q \in Proc : Accounts(q)'
        BY <1>0, <2>5 DEF Accounts
      <3> QED
        BY <1>0, <2>1, <2>3, <2>4, <3>1 DEF Conserved
  <1> QED
    BY <1>9, <1>10, <1>11, <1>12, <1>13

LEMMA WorkerChecksKeeps ==
  ASSUME Inv, UNCHANGED scenario, NEW p \in Proc, WorkerChecks(p)
  PROVE  Inv'
  <1> USE DEF Inv
  <1>0. /\ worker[p].todo # <<>> /\ Head(worker[p].todo) = Chk
        /\ worker' = [worker EXCEPT ![p] =
             IF row.suppressed_count < 0
             THEN [worker[p] EXCEPT !.todo = <<Zero>>] ELSE NoAlert]
        /\ UNCHANGED <<row, meta, clock, main, crash, page, digest, ghost>>
    BY DEF WorkerChecks, Chk, Zero
  <1>1. /\ worker[p] \in Workers /\ WorkerShape(worker[p])
        /\ worker[p].todo \in WorkerTodos
        /\ Typed(row) /\ ghost \in Ghosts
    BY DEF Types, Workers
  <1>2. worker[p].todo = <<Chk>> /\ worker[p].at = "sent" /\ main[p].todo = <<>>
    <2>1. Notify # Chk /\ Zero # Chk
      BY NamesDiffer
    <2>2. worker[p].todo = <<Chk>>
      BY <1>0, <1>1, <2>1, Tails DEF WorkerTodos
    <2> QED
      BY <1>0, <1>1, <2>2 DEF Types, Locked, WorkerShape
  <1>3. PICK w \in Workers :
          /\ worker' = [worker EXCEPT ![p] = w] /\ WorkerShape(w)
          /\ w.at # "queued"
          /\ \/ row.suppressed_count < 0 /\ w.todo = <<Zero>>
             \/ w.todo = <<>>
    <2>1. CASE row.suppressed_count < 0
      <3>1. PICK t \in WorkerTodos : t = <<Zero>>
        BY DEF WorkerTodos
      <3>2. PICK w : w = [worker[p] EXCEPT !.todo = t]
        OBVIOUS
      <3>3. worker' = [worker EXCEPT ![p] = w]
        BY <1>0, <2>1, <3>1, <3>2
      <3>4. w \in Workers /\ w.todo = t /\ w.at = "sent"
        BY <1>1, <1>2, <3>2 DEF Workers
      <3>5. WorkerShape(w)
        BY <3>1, <3>4, Tails DEF WorkerShape
      <3> QED
        BY <2>1, <3>1, <3>3, <3>4, <3>5
    <2>2. CASE ~(row.suppressed_count < 0)
      BY <1>0, <2>2, IdleTyped
    <2> QED
      BY <2>1, <2>2
  <1>4. /\ Types'
        /\ worker'[p] = w /\ \A q \in Proc : worker'[q] = worker[q] \/ q = p
    <2>1. Typed(row') /\ meta' = meta /\ ghost' \in Ghosts
      BY <1>0, <1>1
    <2> QED
      BY <1>0, <1>2, <1>3, <2>1, WorkerAlone
  <1>5. CountersConserved'
    BY <1>0 DEF CountersConserved
  <1>6. /\ <<>> # <<Notify, Chk>> /\ <<>> # <<Zero>> /\ <<Zero>> # <<Notify, Chk>>
        /\ <<>> # <<Ins, Exp, Msg, Exp>>
    BY Tails, TodosDiffer
  <1>7. Delivered'
    <2>1. \A q \in Proc : worker'[q].todo = <<Notify, Chk>> =>
             worker'[q].now \in ghost'.delivered
      BY <1>0, <1>3, <1>4, <1>6 DEF Delivered
    <2> QED
      BY <1>0, <2>1 DEF Delivered, SilentOnlyAfterDelivery
  <1>8. Expires'
    BY <1>0 DEF Expires
  <1>9. Conserved'
    <2>1. Alone' <=> Alone
      BY DEF Alone
    <2>2. p \in scenario.procs /\ main[p].pc # "send"
      BY <1>2 DEF Conserved
    <2>3. /\ \A q \in Proc : main[q].pc = "send" => worker'[q].at = "none"
          /\ \A q \in Proc \ scenario.procs :
               main[q].pc = "idle" /\ worker'[q].at = "none"
      BY <1>4, <2>2 DEF Conserved
    <2>4. ASSUME Alone, ~ghost.lost PROVE w.todo = <<>>
      <3>1. row.suppressed_count = ghost.bumps - ghost.told /\ ghost.told <= ghost.bumps
        BY <2>4 DEF Conserved, Sums
      <3>2. ~(row.suppressed_count < 0)
        BY <1>1, <3>1 DEF Ghosts
      <3> QED
        BY <1>3, <3>2
    <2>5. ASSUME Alone, ~ghost.lost, NEW q \in Proc
          PROVE  Accounts(q)'
      <3>1. Accounts(q) /\ main' = main /\ ghost' = ghost
        BY <1>0, <2>5 DEF Conserved
      <3>2. CASE q = p
        <4>1. worker'[q] = w /\ w.todo = <<>> /\ w.at # "queued"
          BY <1>3, <1>4, <2>4, <2>5, <3>2
        <4> QED
          BY <1>6, <3>1, <4>1 DEF Accounts
      <3>3. CASE q # p
        <4>1. worker'[q] = worker[q]
          BY <1>4, <3>3
        <4> QED
          BY <3>1, <4>1 DEF Accounts
      <3> QED
        BY <3>2, <3>3
    <2>6. Alone /\ ~ghost.lost => Sums'
      BY <1>0 DEF Conserved, Sums
    <2> QED
      BY <1>0, <2>1, <2>3, <2>5, <2>6 DEF Conserved
  <1> QED
    BY <1>4, <1>5, <1>7, <1>8, <1>9

-----------------------------------------------------------------------------
(* The dying thread.                                                       *)

\* Its steps leave the processes alone, which then are not alone.
LEMMA CrashFrame ==
  ASSUME Types, Expires, Conserved, scenario.crashes,
         UNCHANGED scenario, UNCHANGED <<main, worker, page>>,
         row.exists => row'.exists
  PROVE  Expires' /\ Conserved'
  <1>1. ~Alone' /\ scenario'.crashes
    BY DEF Alone
  <1>2. Expires'
    BY <1>1 DEF Expires
  <1>3. Conserved'
    BY <1>1 DEF Conserved
  <1> QED
    BY <1>2, <1>3

LEMMA CrashTypes ==
  ASSUME Types, UNCHANGED scenario, UNCHANGED <<clock, main, worker, page, digest>>,
         Typed(row'), meta' \in Metas, meta.suppressed <= meta'.suppressed,
         crash' \in Crashes, CrashShape', ghost' \in Ghosts
  PROVE  Types'
  <1>1. digest.pc = "settle" => digest.amount <= meta'.suppressed
    BY DEF Types, Metas, Digests
  <1> QED
    BY <1>1 DEF Types, Locked

\* Somebody who takes a step after the first is there.
LEMMA CrashRunsOn ==
  ASSUME Types, Conserved, crash.pc # "idle" \/ crash.todo # <<>>
  PROVE  crash.pc # "idle" /\ scenario.crashes
  BY DEF Types, CrashShape, Conserved

LEMMA TodosOfCrash ==
  /\ CrashDecides("insert") = <<Ins, Exp>>
  /\ CrashDecides("touch") = <<Opn, Exp>>
  /\ CrashDecides("suppress") = <<Opn, Cnt, CntMeta, Exp>>
  /\ CrashRecordSent = <<Clr, Exp>>
  BY DEF CrashDecides, CrashRecordSent, Ins, Exp, Opn, Cnt, CntMeta, Clr

CrashPcs == {"idle", "called", "send", "done"}

WithDecided(k, s, t, c) == [k EXCEPT !.seen = s, !.todo = t, !.pc = c]

LEMMA DecidedIs ==
  ASSUME NEW k \in Crashes, NEW s, Typed(s),
         NEW t \in CrashSendTodos \union CrashDoneTodos, NEW c \in CrashPcs
  PROVE  /\ WithDecided(k, s, t, c) \in Crashes
         /\ WithDecided(k, s, t, c).todo = t /\ WithDecided(k, s, t, c).pc = c
         /\ WithDecided(k, s, t, c).now = k.now
  <1>1. PICK y : y = WithDecided(k, s, t, c)
    OBVIOUS
  <1>2. s \in {r \in Rows : Typed(r)}
    BY DEF Typed
  <1>3. PICK a \in Crashes : a = [k EXCEPT !.seen = s]
    BY <1>2 DEF Crashes
  <1>4. a.now = k.now
    BY <1>3 DEF Crashes
  <1>5. PICK b \in Crashes : b = [a EXCEPT !.todo = t]
    BY DEF Crashes
  <1>6. b.now = k.now /\ b.todo = t
    BY <1>4, <1>5 DEF Crashes
  <1>7. y = [b EXCEPT !.pc = c]
    BY <1>1, <1>3, <1>5 DEF WithDecided
  <1>8. y \in Crashes /\ y.pc = c
    BY <1>7 DEF Crashes, CrashPcs
  <1>9. y.now = k.now /\ y.todo = t
    BY <1>6, <1>7 DEF Crashes
  <1> QED
    BY <1>1, <1>8, <1>9

LEMMA CrashStartsKeeps ==
  ASSUME Inv, UNCHANGED scenario, CrashStarts
  PROVE  Inv'
  <1> USE DEF Inv
  <1>0. /\ scenario.crashes /\ crash.pc = "idle"
        /\ crash' = [crash EXCEPT !.pc = "called", !.now = clock]
        /\ UNCHANGED <<row, meta, clock, main, worker, page, digest, ghost>>
    BY DEF CrashStarts
  <1>1. /\ crash \in Crashes /\ crash.todo = <<>> /\ clock \in Nat
        /\ Typed(row) /\ meta \in Metas /\ ghost \in Ghosts
    BY <1>0 DEF Types, CrashShape
  <1>2. PICK a \in Crashes : a = [crash EXCEPT !.pc = "called"]
    BY <1>1 DEF Crashes
  <1>3. a.pc = "called" /\ a.todo = <<>>
    BY <1>1, <1>2 DEF Crashes
  <1>4. crash' = [a EXCEPT !.now = clock]
    BY <1>0, <1>2
  <1>5. /\ crash' \in Crashes /\ crash'.now = clock
        /\ crash'.pc = "called" /\ crash'.todo = <<>>
    BY <1>1, <1>3, <1>4 DEF Crashes
  <1>6. CrashShape'
    BY <1>5 DEF CrashShape
  <1>7. Types'
    <2>1. /\ Typed(row') /\ meta' \in Metas /\ meta.suppressed <= meta'.suppressed
          /\ ghost' \in Ghosts
      BY <1>0, <1>1 DEF Metas
    <2> QED
      BY <1>0, <1>5, <1>6, <2>1, CrashTypes
  <1>8. CountersConserved'
    BY <1>0 DEF CountersConserved
  <1>9. Delivered'
    <2>1. crash'.todo # <<Clr, Exp>> /\ crash'.now <= clock'
      <3>1. <<>> # <<Clr, Exp>>
        BY Tails
      <3>2. crash'.todo # <<Clr, Exp>>
        BY <1>5, <3>1
      <3>3. crash'.now <= clock'
        BY <1>0, <1>1, <1>5
      <3> QED
        BY <3>2, <3>3
    <2> QED
      BY <1>0, <2>1 DEF Delivered, SilentOnlyAfterDelivery
  <1>10. Expires' /\ Conserved'
    BY <1>0, CrashFrame
  <1> QED
    BY <1>7, <1>8, <1>9, <1>10

LEMMA CrashHGetAllKeeps ==
  ASSUME Inv, UNCHANGED scenario, CrashHGetAll
  PROVE  Inv'
  <1> USE DEF Inv
  <1> DEFINE branch == Branch(row, crash.now)
  <1>0. /\ crash.pc = "called"
        /\ UNCHANGED <<row, meta, clock, main, worker, page, digest>>
    BY DEF CrashHGetAll
  <1>1. /\ crash \in Crashes /\ crash.todo = <<>> /\ crash.now \in Nat
        /\ Typed(row) /\ meta \in Metas /\ ghost \in Ghosts /\ scenario.crashes
    BY <1>0, CrashRunsOn DEF Types, CrashShape, Crashes
  <1>2. /\ branch \in {"insert", "touch", "suppress"}
        /\ branch = "suppress" =>
             /\ row.last_notified \in Nat /\ row.last_notified # Never
             /\ crash.now - row.last_notified < Cooldown
    BY <1>1, BranchIs
  <1>3. \/ /\ crash' = [crash EXCEPT
                 !.seen = row, !.todo = CrashDecides(branch),
                 !.pc = IF branch = "suppress" THEN "done" ELSE "send"]
           /\ ghost' = IF branch = "suppress"
                       THEN [ghost EXCEPT !.silent = @ \union {crash.now}]
                       ELSE ghost
        \/ crash' = [crash EXCEPT !.pc = "send"] /\ ghost' = ghost
    BY DEF CrashHGetAll
  <1> HIDE DEF branch
  <1>4. /\ crash' \in Crashes /\ CrashShape' /\ crash'.now = crash.now
        /\ crash'.todo # <<Clr, Exp>> /\ crash'.pc # "idle"
    <2>1. CASE crash' = [crash EXCEPT !.pc = "send"]
      <3>1. /\ crash' \in Crashes /\ crash'.now = crash.now
            /\ crash'.pc = "send" /\ crash'.todo = <<>>
        BY <1>1, <2>1 DEF Crashes
      <3>2. CrashShape'
        BY <3>1 DEF CrashShape, CrashSendTodos
      <3> QED
        BY <3>1, <3>2, Tails
    <2>2. CASE crash' = [crash EXCEPT
                 !.seen = row, !.todo = CrashDecides(branch),
                 !.pc = IF branch = "suppress" THEN "done" ELSE "send"]
      <3>1. PICK t, c : /\ t = CrashDecides(branch)
                        /\ c = IF branch = "suppress" THEN "done" ELSE "send"
        OBVIOUS
      <3>2. /\ t \in CrashSendTodos \union CrashDoneTodos /\ c \in CrashPcs
            /\ c \in {"send", "done"}
            /\ c = "send" => t \in CrashSendTodos
            /\ c = "done" => t \in CrashDoneTodos
            /\ t # <<Clr, Exp>>
        <4>1. /\ <<Ins, Exp>> # <<Clr, Exp>> /\ <<Opn, Exp>> # <<Clr, Exp>>
              /\ <<Opn, Cnt, CntMeta, Exp>> # <<Clr, Exp>>
          BY TodosDiffer, NamesDiffer
        <4>2. CASE branch = "suppress"
          BY <3>1, <4>1, <4>2, TodosOfCrash DEF CrashDoneTodos, CrashPcs
        <4>3. CASE branch # "suppress"
          BY <1>2, <3>1, <4>1, <4>3, TodosOfCrash DEF CrashSendTodos, CrashPcs
        <4> QED
          BY <4>2, <4>3
      <3>3. PICK y : y = WithDecided(crash, row, t, c)
        OBVIOUS
      <3>4. crash' = y
        BY <2>2, <3>1, <3>3 DEF WithDecided
      <3>5. y \in Crashes /\ y.todo = t /\ y.pc = c /\ y.now = crash.now
        BY <1>1, <3>2, <3>3, DecidedIs
      <3>6. CrashShape'
        BY <3>2, <3>4, <3>5 DEF CrashShape
      <3> QED
        BY <3>2, <3>4, <3>5, <3>6
    <2> QED
      BY <1>3, <2>1, <2>2
  <1>5. /\ ghost' \in Ghosts
        /\ ghost'.metaBumps = ghost.metaBumps /\ ghost'.metaTold = ghost.metaTold
        /\ ghost'.delivered = ghost.delivered
        /\ \A n \in ghost'.silent :
             n \in ghost.silent \/ (branch = "suppress" /\ n = crash.now)
    <2>1. CASE ghost' = ghost
      BY <1>1, <2>1
    <2>2. CASE /\ branch = "suppress"
               /\ ghost' = [ghost EXCEPT !.silent = @ \union {crash.now}]
      <3>1. PICK d \in SUBSET Nat : d = ghost.silent \union {crash.now}
        BY <1>1 DEF Ghosts
      <3>2. ghost' = [ghost EXCEPT !.silent = d]
        BY <2>2, <3>1
      <3>3. ghost' \in Ghosts /\ ghost'.silent = d
        BY <1>1, <3>2 DEF Ghosts
      <3>4. /\ ghost'.metaBumps = ghost.metaBumps /\ ghost'.metaTold = ghost.metaTold
            /\ ghost'.delivered = ghost.delivered
        BY <1>1, <3>2 DEF Ghosts
      <3> QED
        BY <2>2, <3>1, <3>3, <3>4
    <2> QED
      BY <1>3, <2>1, <2>2
  <1>6. Types'
    <2>1. Typed(row') /\ meta' \in Metas /\ meta.suppressed <= meta'.suppressed
      BY <1>0, <1>1 DEF Metas
    <2> QED
      BY <1>0, <1>4, <1>5, <2>1, CrashTypes
  <1>7. CountersConserved'
    BY <1>0, <1>5 DEF CountersConserved
  <1>8. Delivered'
    <2>1. SilentOnlyAfterDelivery'
      <3> SUFFICES ASSUME NEW n \in ghost'.silent
                   PROVE  \E d \in ghost.delivered : n - d < Cooldown
        BY <1>5 DEF SilentOnlyAfterDelivery
      <3>1. CASE n \in ghost.silent
        BY <3>1 DEF Delivered, SilentOnlyAfterDelivery
      <3>2. CASE branch = "suppress" /\ n = crash.now
        <4>1. PICK d \in ghost.delivered : row.last_notified <= d
          BY <1>2, <3>2 DEF Delivered
        <4>2. d \in Nat /\ Cooldown \in Nat
          BY <1>1, RedisAssumption DEF Ghosts
        <4>3. n - d < Cooldown
          BY <1>1, <1>2, <3>2, <4>1, <4>2
        <4> QED
          BY <4>3
      <3> QED
        BY <1>5, <3>1, <3>2
    <2> QED
      BY <1>0, <1>4, <1>5, <2>1 DEF Delivered
  <1>9. Expires' /\ Conserved'
    BY <1>0, <1>1, CrashFrame
  <1> QED
    BY <1>6, <1>7, <1>8, <1>9

LEMMA CrashRunsKeeps ==
  ASSUME Inv, UNCHANGED scenario, CrashRuns
  PROVE  Inv'
  <1> USE DEF Inv
  <1> DEFINE b == Head(crash.todo)
             t == Tail(crash.todo)
  <1>0. /\ crash.todo # <<>> /\ Runs(crash.todo, crash.now, 0)
        /\ crash' = [crash EXCEPT !.todo = t]
        /\ ghost' = Noted(crash.todo)
        /\ UNCHANGED <<clock, main, worker, page, digest>>
    BY DEF CrashRuns, Runs
  <1>1. /\ crash \in Crashes /\ crash.now \in Nat /\ crash.pc # "idle"
        /\ Typed(row) /\ meta \in Metas /\ ghost \in Ghosts /\ scenario.crashes
    BY <1>0, CrashRunsOn DEF Types, Crashes
  <1>2. /\ b \in {Ins, Exp, Opn, Cnt, CntMeta, Clr}
        /\ t \in CrashSendTodos \union CrashDoneTodos
        /\ crash.pc = "send" => t \in CrashSendTodos
        /\ crash.pc = "done" => t \in CrashDoneTodos
        /\ b = Clr => crash.todo = <<Clr, Exp>>
        /\ t # <<Clr, Exp>>
    <2>0. crash.pc \in {"send", "done"} /\ CrashShape
      BY <1>0, <1>1 DEF Types, CrashShape, Crashes
    <2>1. CASE crash.pc = "send"
      <3>1. crash.todo \in CrashSendTodos
        BY <2>0, <2>1 DEF CrashShape
      <3>2. b \in {Ins, Exp, Opn} /\ t \in CrashSendTodos
        BY <1>0, <3>1, CrashSendTail
      <3>3. /\ <<Ins, Exp>> # <<Clr, Exp>> /\ <<Opn, Exp>> # <<Clr, Exp>>
            /\ <<Exp>> # <<Clr, Exp>> /\ <<>> # <<Clr, Exp>>
        BY TodosDiffer, NamesDiffer, Tails
      <3>4. t # <<Clr, Exp>>
        BY <3>2, <3>3 DEF CrashSendTodos
      <3>5. b # Clr
        BY <3>2, NamesDiffer
      <3> QED
        BY <2>1, <3>2, <3>4, <3>5
    <2>2. CASE crash.pc = "done"
      <3>1. crash.todo \in CrashDoneTodos
        BY <2>0, <2>2 DEF CrashShape
      <3>2. /\ b \in {Opn, Cnt, CntMeta, Clr, Exp} /\ t \in CrashDoneTodos
            /\ t # <<>> => Head(t) # Clr
        BY <1>0, <3>1, CrashDoneTail
      <3>3. <<Clr, Exp>> # <<>> /\ Head(<<Clr, Exp>>) = Clr
        BY Tails
      <3>4. t # <<Clr, Exp>>
        BY <3>2, <3>3
      <3>5. b = Clr => crash.todo = <<Clr, Exp>>
        BY <1>0, <3>1, Tails, NamesDiffer DEF CrashDoneTodos
      <3> QED
        BY <2>2, <3>2, <3>4, <3>5
    <2> QED
      BY <2>0, <2>1, <2>2
  <1>3. b \in Expiring \union Others
    BY <1>2 DEF Expiring, Others
  <1>4. /\ Effect(b, crash.now, 0, row')
        /\ meta' \in Metas
        /\ meta'.suppressed =
             meta.suppressed + IF b \in {Bump, CntMeta} THEN 1 ELSE 0
    BY <1>0, <1>1, <1>3, RunsDoes
  <1>5. /\ ghost' \in Ghosts
        /\ ghost'.metaBumps =
             ghost.metaBumps + IF b \in {Bump, CntMeta} THEN 1 ELSE 0
        /\ ghost'.metaTold = ghost.metaTold
        /\ ghost'.silent = ghost.silent /\ ghost'.delivered = ghost.delivered
    BY <1>0, <1>3, NotedIs
  <1> HIDE DEF b, t
  <1>6. /\ crash' \in Crashes /\ crash'.pc = crash.pc /\ crash'.now = crash.now
        /\ crash'.todo = t
    BY <1>0, <1>1, <1>2 DEF Crashes
  <1>7. CrashShape'
    <2>1. crash.pc # "called"
      BY <1>0 DEF Types, CrashShape
    <2> QED
      BY <1>1, <1>2, <1>6, <2>1 DEF CrashShape
  <1>8. /\ Typed(row')
        /\ row.exists => row'.exists
        /\ row'.last_notified = IF b = Clr THEN crash.now ELSE row.last_notified
    <2>1. b # Notify
      BY <1>2, NamesDiffer
    <2> QED
      BY <1>4, <2>1 DEF Effect
  <1>9. Types'
    <2>1. meta.suppressed <= meta'.suppressed
      BY <1>1, <1>4 DEF Metas
    <2> QED
      BY <1>0, <1>4, <1>5, <1>6, <1>7, <1>8, <2>1, CrashTypes
  <1>10. CountersConserved'
    <2>1. /\ meta.suppressed \in Int
          /\ ghost.metaBumps \in Int /\ ghost.metaTold \in Int
      BY <1>1 DEF Metas, Ghosts
    <2> QED
      BY <1>4, <1>5, <2>1 DEF CountersConserved
  <1>11. Delivered'
    <2>1. row'.last_notified # Never =>
             \E d \in ghost.delivered : row'.last_notified <= d
      <3>1. CASE b = Clr
        BY <1>2, <1>8, <3>1 DEF Delivered
      <3>2. CASE b # Clr
        BY <1>8, <3>2 DEF Delivered
      <3> QED
        BY <3>1, <3>2
    <2> QED
      BY <1>0, <1>2, <1>5, <1>6, <2>1 DEF Delivered, SilentOnlyAfterDelivery
  <1>12. Expires' /\ Conserved'
    BY <1>0, <1>1, <1>8, CrashFrame
  <1> QED
    BY <1>9, <1>10, <1>11, <1>12

LEMMA CrashRaisesKeeps ==
  ASSUME Inv, UNCHANGED scenario, CrashRaises
  PROVE  Inv'
  <1> USE DEF Inv
  <1>0. /\ crash.todo # <<>> /\ crash' = [crash EXCEPT !.todo = <<>>]
        /\ UNCHANGED <<row, meta, clock, main, worker, page, digest, ghost>>
    BY DEF CrashRaises
  <1>1. /\ crash \in Crashes /\ crash.pc # "idle" /\ CrashShape
        /\ Typed(row) /\ meta \in Metas /\ ghost \in Ghosts /\ scenario.crashes
    BY <1>0, CrashRunsOn DEF Types
  <1>2. <<>> \in CrashSendTodos /\ <<>> \in CrashDoneTodos
    BY DEF CrashSendTodos, CrashDoneTodos
  <1>3. /\ crash' \in Crashes /\ crash'.pc = crash.pc /\ crash'.now = crash.now
        /\ crash'.todo = <<>>
    BY <1>0, <1>1, <1>2 DEF Crashes
  <1>4. CrashShape'
    BY <1>2, <1>3 DEF CrashShape
  <1>5. Types'
    <2>1. /\ Typed(row') /\ meta' \in Metas /\ meta.suppressed <= meta'.suppressed
          /\ ghost' \in Ghosts
      BY <1>0, <1>1 DEF Metas
    <2> QED
      BY <1>0, <1>3, <1>4, <2>1, CrashTypes
  <1>6. CountersConserved'
    BY <1>0 DEF CountersConserved
  <1>7. Delivered'
    <2>1. crash'.todo # <<Clr, Exp>>
      BY <1>3, Tails
    <2> QED
      BY <1>0, <1>3, <2>1 DEF Delivered, SilentOnlyAfterDelivery
  <1>8. Expires' /\ Conserved'
    BY <1>0, <1>1, CrashFrame
  <1> QED
    BY <1>5, <1>6, <1>7, <1>8

LEMMA CrashSendsKeeps ==
  ASSUME Inv, UNCHANGED scenario, CrashSends
  PROVE  Inv'
  <1> USE DEF Inv
  <1>0. /\ crash.pc = "send" /\ crash.todo = <<>>
        /\ UNCHANGED <<row, meta, clock, main, worker, page, digest>>
    BY DEF CrashSends
  <1>1. /\ crash \in Crashes /\ clock \in Nat /\ crash.now <= clock
        /\ Typed(row) /\ meta \in Metas /\ ghost \in Ghosts /\ scenario.crashes
    BY <1>0, CrashRunsOn DEF Types, Delivered
  <1>2. PICK ok \in BOOLEAN :
          /\ crash' = [crash EXCEPT !.pc = "done",
                                    !.todo = IF ok THEN CrashRecordSent ELSE <<>>]
          /\ ghost' = IF ok THEN [ghost EXCEPT !.delivered = @ \union {clock}]
                            ELSE ghost
    BY DEF CrashSends
  <1>3. PICK t \in CrashDoneTodos :
          t = IF ok THEN CrashRecordSent ELSE <<>>
    BY TodosOfCrash DEF CrashDoneTodos
  <1>4. t = <<Clr, Exp>> => ok
    BY <1>3, Tails
  <1>5. PICK a \in Crashes : a = [crash EXCEPT !.pc = "done"]
    BY <1>1 DEF Crashes
  <1>6. a.pc = "done" /\ a.now = crash.now
    BY <1>1, <1>5 DEF Crashes
  <1>7. crash' = [a EXCEPT !.todo = t]
    BY <1>2, <1>3, <1>5
  <1>8. /\ crash' \in Crashes /\ crash'.pc = "done" /\ crash'.now = crash.now
        /\ crash'.todo = t
    BY <1>6, <1>7 DEF Crashes
  <1>9. CrashShape'
    BY <1>8 DEF CrashShape
  <1>10. /\ ghost' \in Ghosts
         /\ ghost'.metaBumps = ghost.metaBumps /\ ghost'.metaTold = ghost.metaTold
         /\ ghost'.silent = ghost.silent
         /\ ghost.delivered \subseteq ghost'.delivered
         /\ ok => clock \in ghost'.delivered
    <2>1. CASE ok
      <3>1. PICK d \in SUBSET Nat : d = ghost.delivered \union {clock}
        BY <1>1 DEF Ghosts
      <3>2. ghost' = [ghost EXCEPT !.delivered = d]
        BY <1>2, <2>1, <3>1
      <3>3. ghost' \in Ghosts /\ ghost'.delivered = d
        BY <1>1, <3>2 DEF Ghosts
      <3>4. /\ ghost'.metaBumps = ghost.metaBumps /\ ghost'.metaTold = ghost.metaTold
            /\ ghost'.silent = ghost.silent
        BY <1>1, <3>2 DEF Ghosts
      <3> QED
        BY <3>1, <3>3, <3>4
    <2>2. CASE ~ok
      BY <1>1, <1>2, <2>2
    <2> QED
      BY <2>1, <2>2
  <1>11. Types'
    <2>1. Typed(row') /\ meta' \in Metas /\ meta.suppressed <= meta'.suppressed
      BY <1>0, <1>1 DEF Metas
    <2> QED
      BY <1>0, <1>8, <1>9, <1>10, <2>1, CrashTypes
  <1>12. CountersConserved'
    BY <1>0, <1>10 DEF CountersConserved
  <1>13. Delivered'
    <2>1. crash'.todo = <<Clr, Exp>> => \E d \in ghost'.delivered : crash'.now <= d
      BY <1>1, <1>4, <1>8, <1>10
    <2> QED
      BY <1>0, <1>1, <1>8, <1>10, <2>1 DEF Delivered, SilentOnlyAfterDelivery
  <1>14. Expires' /\ Conserved'
    BY <1>0, <1>1, CrashFrame
  <1> QED
    BY <1>11, <1>12, <1>13, <1>14

-----------------------------------------------------------------------------
(* The page, the digest, kills and time.                                   *)

LEMMA ListKeeps ==
  ASSUME Inv, UNCHANGED scenario, List
  PROVE  Inv'
  <1> USE DEF Inv
  <1>0. /\ page = <<>> /\ page' = <<Rsv, Exp>>
        /\ UNCHANGED <<row, meta, clock, main, worker, crash, digest, ghost>>
    BY DEF List, SetResolved, Rsv, Exp
  <1>1. page' \in PageTodos
    BY <1>0 DEF PageTodos
  <1>2. Types'
    BY <1>0, <1>1 DEF Types, CrashShape, Locked
  <1>3. CountersConserved'
    BY <1>0 DEF CountersConserved
  <1>4. Delivered'
    BY <1>0 DEF Delivered, SilentOnlyAfterDelivery
  <1>5. Expires'
    BY <1>0 DEF Expires
  <1>6. Conserved'
    BY <1>0 DEF Conserved, Alone, Sums, Accounts
  <1> QED
    BY <1>2, <1>3, <1>4, <1>5, <1>6

LEMMA PageRunsKeeps ==
  ASSUME Inv, UNCHANGED scenario, PageRuns
  PROVE  Inv'
  <1> USE DEF Inv
  <1> DEFINE b == Head(page)
  <1>0. /\ page # <<>> /\ Runs(page, 0, 0) /\ page' = Tail(page)
        /\ UNCHANGED <<clock, main, worker, crash, digest, ghost>>
    BY DEF PageRuns, Runs
  <1>1. \/ b = Rsv /\ page' = <<Exp>>
        \/ b = Exp /\ page' = <<>>
    BY <1>0, Tails, ZenonT(30) DEF Types, PageTodos
  <1>2. b \in Expiring \union Others
    BY <1>1 DEF Expiring, Others
  <1>3. /\ Effect(b, 0, 0, row')
        /\ meta' \in Metas /\ meta'.last_heartbeat = meta.last_heartbeat
        /\ meta'.suppressed =
             meta.suppressed + IF b \in {Bump, CntMeta} THEN 1 ELSE 0
    BY <1>0, <1>2, RunsDoes
  <1> HIDE DEF b
  <1>4. /\ Typed(row')
        /\ row.exists => row'.exists
        /\ b = Exp /\ row'.exists => row'.expires # Forever
        /\ row'.last_notified = row.last_notified
        /\ row'.suppressed_count = row.suppressed_count
    <2>1. b \notin {Notify, Clr, Ins, Zero, Bump, Cnt} /\ (b = Exp => b \in Expiring)
      BY <1>1, NamesDiffer DEF Expiring
    <2> QED
      BY <1>3, <2>1 DEF Effect
  <1>5. meta'.suppressed = meta.suppressed
    <2>1. b \notin {Bump, CntMeta}
      BY <1>1, NamesDiffer
    <2> QED
      BY <1>3, <2>1 DEF Types, Metas
  <1>6. page' \in PageTodos
    BY <1>1 DEF PageTodos
  <1>7. Types'
    BY <1>0, <1>3, <1>4, <1>5, <1>6 DEF Types, CrashShape, Locked
  <1>8. CountersConserved'
    BY <1>0, <1>5 DEF CountersConserved
  <1>9. Delivered'
    BY <1>0, <1>4 DEF Delivered, SilentOnlyAfterDelivery
  <1>10. Expires'
    <2>1. <<Exp>> \notin {<<>>, <<Rsv, Exp>>}
      BY Tails, TodosDiffer
    <2>2. page' \in {<<>>, <<Rsv, Exp>>} /\ row'.exists => row'.expires # Forever
      BY <1>1, <1>4, <2>1
    <2> QED
      BY <1>0, <1>4, <2>2 DEF Expires
  <1>11. Conserved'
    BY <1>0, <1>4 DEF Conserved, Alone, Sums, Accounts
  <1> QED
    BY <1>7, <1>8, <1>9, <1>10, <1>11

LEMMA DigestKeeps ==
  ASSUME Inv, UNCHANGED scenario, Digest
  PROVE  Inv'
  <1> USE DEF Inv
  <1>0. UNCHANGED <<row, clock, main, worker, crash, page>>
    BY DEF Digest, ClaimHeartbeat, ReadCounters, SubtractCounters
  <1>1. /\ meta \in Metas /\ digest \in Digests /\ ghost \in Ghosts /\ clock \in Nat
        /\ digest.pc = "settle" => digest.amount <= meta.suppressed
    BY DEF Types
  <1>2. /\ meta' \in Metas /\ digest' \in Digests /\ ghost' \in Ghosts
        /\ digest'.pc = "settle" => digest'.amount <= meta'.suppressed
        /\ CountersConserved'
        /\ ghost'.bumps = ghost.bumps /\ ghost'.told = ghost.told
        /\ ghost'.silent = ghost.silent /\ ghost'.delivered = ghost.delivered
        /\ ghost'.stale = ghost.stale /\ ghost'.lost = ghost.lost
        /\ ghost'.bare = ghost.bare
    <2>1. CASE ClaimHeartbeat
      <3>1. /\ meta' = [meta EXCEPT !.last_heartbeat = clock]
            /\ digest' = [digest EXCEPT !.pc = "claimed"] /\ ghost' = ghost
        BY <2>1 DEF ClaimHeartbeat
      <3>2. meta' \in Metas /\ meta'.suppressed = meta.suppressed
        BY <1>1, <3>1 DEF Metas
      <3>3. digest' \in Digests /\ digest'.pc = "claimed"
        BY <1>1, <3>1 DEF Digests
      <3> QED
        BY <1>1, <3>1, <3>2, <3>3 DEF CountersConserved
    <2>2. CASE ReadCounters
      <3>1. /\ meta' = meta /\ ghost' = ghost
            /\ \/ digest' = [pc |-> "settle", amount |-> meta.suppressed]
               \/ digest' = [pc |-> "idle", amount |-> 0]
        BY <2>2 DEF ReadCounters
      <3>2. /\ digest' \in Digests
            /\ digest'.pc = "settle" => digest'.amount <= meta.suppressed
        BY <1>1, <3>1 DEF Digests, Metas
      <3> QED
        BY <1>1, <3>1, <3>2 DEF CountersConserved
    <2>3. CASE SubtractCounters
      <3>1. /\ digest.pc = "settle"
            /\ meta' = [meta EXCEPT !.suppressed = meta.suppressed - digest.amount]
            /\ digest' = [pc |-> "idle", amount |-> 0]
            /\ ghost' = [ghost EXCEPT !.metaTold = ghost.metaTold + digest.amount]
        BY <2>3 DEF SubtractCounters, Subtracted
      <3>2. /\ meta.suppressed \in Nat /\ digest.amount \in Nat
            /\ ghost.metaTold \in Nat /\ ghost.metaBumps \in Nat
            /\ meta.suppressed - digest.amount \in Nat
        BY <1>1, <3>1 DEF Metas, Digests, Ghosts
      <3>3. meta' \in Metas /\ meta'.suppressed = meta.suppressed - digest.amount
        BY <1>1, <3>1, <3>2 DEF Metas
      <3>4. PICK n \in Nat : n = ghost.metaTold + digest.amount
        BY <3>2
      <3>5. ghost' = [ghost EXCEPT !.metaTold = n]
        BY <3>1, <3>4
      <3>6. /\ ghost' \in Ghosts /\ ghost'.metaTold = n
            /\ ghost'.metaBumps = ghost.metaBumps
            /\ ghost'.bumps = ghost.bumps /\ ghost'.told = ghost.told
            /\ ghost'.silent = ghost.silent /\ ghost'.delivered = ghost.delivered
            /\ ghost'.stale = ghost.stale /\ ghost'.lost = ghost.lost
            /\ ghost'.bare = ghost.bare
        BY <1>1, <3>5 DEF Ghosts
      <3>7. digest' \in Digests /\ digest'.pc = "idle"
        BY <3>1 DEF Digests
      <3>8. CountersConserved'
        BY <3>2, <3>3, <3>4, <3>6 DEF CountersConserved
      <3> QED
        BY <3>3, <3>6, <3>7, <3>8
    <2> QED
      BY <2>1, <2>2, <2>3 DEF Digest
  <1>3. Types'
    BY <1>0, <1>2 DEF Types, CrashShape, Locked
  <1>4. Delivered'
    BY <1>0, <1>2 DEF Delivered, SilentOnlyAfterDelivery
  <1>5. Expires'
    BY <1>0, <1>2 DEF Expires
  <1>6. Conserved'
    BY <1>0, <1>2 DEF Conserved, Alone, Carries, Sums, Accounts
  <1> QED
    BY <1>2, <1>3, <1>4, <1>5, <1>6

LEMMA KillKeeps ==
  ASSUME Inv, UNCHANGED scenario, NEW p \in Proc, Kill(p)
  PROVE  Inv'
  <1> USE DEF Inv
  <1>0. /\ ghost.kills < scenario.kills
        /\ main[p] # Idle \/ worker[p] # NoAlert
        /\ main' = [main EXCEPT ![p] = Idle]
        /\ worker' = [worker EXCEPT ![p] = NoAlert]
        /\ ghost' = [ghost EXCEPT !.kills = @ + 1]
        /\ UNCHANGED <<row, meta, clock, crash, page, digest>>
    BY DEF Kill
  <1>1. /\ Typed(row) /\ meta \in Metas /\ ghost \in Ghosts
        /\ ghost.kills \in Nat /\ ghost.kills + 1 \in Nat
    BY DEF Types, Ghosts
  <1>2. /\ ghost' \in Ghosts
        /\ ghost'.bumps = ghost.bumps /\ ghost'.told = ghost.told
        /\ ghost'.metaBumps = ghost.metaBumps /\ ghost'.metaTold = ghost.metaTold
        /\ ghost'.silent = ghost.silent /\ ghost'.delivered = ghost.delivered
        /\ ghost'.stale = ghost.stale /\ ghost'.lost = ghost.lost
        /\ ghost'.bare = ghost.bare
    BY <1>0, <1>1 DEF Ghosts
  <1>3. /\ Types'
        /\ main'[p] = Idle /\ \A q \in Proc : main'[q] = main[q] \/ q = p
        /\ worker'[p] = NoAlert /\ \A q \in Proc : worker'[q] = worker[q] \/ q = p
    <2>1. Typed(row') /\ meta' \in Metas /\ meta.suppressed <= meta'.suppressed
      BY <1>0, <1>1 DEF Metas
    <2> QED
      BY <1>0, <1>2, <2>1, BothSet, IdleTyped
  <1>4. /\ main'[p].pc = "idle" /\ main'[p].todo = <<>>
        /\ worker'[p].at = "none" /\ worker'[p].todo = <<>>
    BY <1>3, IdleTyped
  <1>5. /\ <<>> # <<Notify, Chk>> /\ <<>> # <<Zero>> /\ <<>> # <<Chk>>
        /\ <<>> # <<Ins, Exp, Msg, Exp>>
    BY Tails
  <1>6. CountersConserved'
    BY <1>0, <1>2 DEF CountersConserved
  <1>7. Delivered'
    <2>1. \A q \in Proc : worker'[q].todo = <<Notify, Chk>> =>
             worker'[q].now \in ghost.delivered
      BY <1>3, <1>4, <1>5 DEF Delivered
    <2> QED
      BY <1>0, <1>2, <2>1 DEF Delivered, SilentOnlyAfterDelivery
  <1>8. Expires'
    <2>1. scenario.kills # 0
      <3>1. scenario.kills \in Nat
        BY RedisAssumption DEF Types
      <3> QED
        BY <1>0, <1>1, <3>1
    <2> QED
      BY <2>1 DEF Expires
  <1>9. Conserved'
    <2>1. Alone' <=> Alone
      BY DEF Alone
    <2>2. /\ \A q \in Proc : main'[q].pc = "send" => worker'[q].at = "none"
          /\ \A q \in Proc \ scenario.procs :
               main'[q].pc = "idle" /\ worker'[q].at = "none"
      BY <1>3, <1>4 DEF Conserved
    <2>3. \A c, u : Carries(ghost, c, u) => Carries(ghost', c, u)
      BY <1>2 DEF Carries
    <2>4. ASSUME Alone, ~ghost.lost, NEW q \in Proc
          PROVE  Accounts(q)'
      <3>1. CASE q = p
        BY <1>4, <1>5, <3>1 DEF Accounts
      <3>2. CASE q # p
        <4>1. main'[q] = main[q] /\ worker'[q] = worker[q]
          BY <1>3, <3>2
        <4>2. Accounts(q)
          BY <2>4 DEF Conserved
        <4> QED
          BY <1>2, <2>3, <4>1, <4>2 DEF Accounts
      <3> QED
        BY <3>1, <3>2
    <2>5. Alone /\ ~ghost.lost => Sums'
      BY <1>0, <1>2 DEF Conserved, Sums
    <2> QED
      BY <1>0, <1>2, <2>1, <2>2, <2>4, <2>5 DEF Conserved
  <1> QED
    BY <1>3, <1>6, <1>7, <1>8, <1>9

LEMMA TickKeeps ==
  ASSUME Inv, UNCHANGED scenario, Tick
  PROVE  Inv'
  <1> USE DEF Inv
  <1> DEFINE expired == row.expires # Forever /\ row.expires <= clock + 1
  <1>0. /\ clock' = clock + 1
        /\ row' = IF expired THEN NoRow ELSE row
        /\ ghost' = IF expired THEN [ghost EXCEPT !.told = ghost.bumps,
                                                  !.stale = Proc, !.lost = FALSE,
                                                  !.bare = FALSE]
                               ELSE ghost
        /\ UNCHANGED <<meta, main, worker, crash, page, digest>>
    BY DEF Tick
  <1> HIDE DEF expired
  <1>1. Typed(row) /\ ghost \in Ghosts /\ clock \in Nat /\ crash.now \in Nat
    BY DEF Types, Crashes
  <1>2. /\ NoRow.exists = FALSE /\ NoRow.last_notified = Never
        /\ NoRow.suppressed_count = 0
    BY DEF NoRow
  <1>3. /\ Typed(row') /\ clock' \in Nat
        /\ row'.last_notified \in {row.last_notified, Never}
        /\ row'.exists => ~expired /\ row' = row
    BY <1>0, <1>1, <1>2, NoRowTyped
  <1>4. /\ ghost' \in Ghosts /\ ghost'.bumps = ghost.bumps
        /\ ghost'.told = IF expired THEN ghost.bumps ELSE ghost.told
        /\ ghost'.metaBumps = ghost.metaBumps /\ ghost'.metaTold = ghost.metaTold
        /\ ghost'.silent = ghost.silent /\ ghost'.delivered = ghost.delivered
        /\ expired => ghost'.stale = Proc
        /\ ~expired => ghost' = ghost
    <2>1. CASE expired
      <3>1. /\ ghost' = [[[ghost EXCEPT !.told = ghost.bumps]
                            EXCEPT !.stale = Proc] EXCEPT !.lost = FALSE,
                                                          !.bare = FALSE]
            /\ ghost.bumps \in Nat
        BY <1>0, <1>1, <2>1 DEF Ghosts
      <3>2. ghost' \in Ghosts /\ ghost'.told = ghost.bumps /\ ghost'.stale = Proc
        <4>1. PICK g \in Ghosts : g = [ghost EXCEPT !.told = ghost.bumps]
          BY <1>1, <3>1 DEF Ghosts
        <4>2. PICK h \in Ghosts : h = [g EXCEPT !.stale = Proc]
          BY <4>1 DEF Ghosts
        <4>3. ghost' = [h EXCEPT !.lost = FALSE, !.bare = FALSE]
          BY <3>1, <4>1, <4>2
        <4>4. ghost' \in Ghosts
          BY <4>3 DEF Ghosts
        <4>5. h.told = ghost.bumps /\ h.stale = Proc
          BY <1>1, <4>1, <4>2 DEF Ghosts
        <4> QED
          BY <4>3, <4>4, <4>5 DEF Ghosts
      <3>3. /\ ghost'.bumps = ghost.bumps
            /\ ghost'.metaBumps = ghost.metaBumps /\ ghost'.metaTold = ghost.metaTold
            /\ ghost'.silent = ghost.silent /\ ghost'.delivered = ghost.delivered
        BY <1>1, <3>1 DEF Ghosts
      <3> QED
        BY <2>1, <3>2, <3>3
    <2>2. CASE ~expired
      BY <1>0, <1>1, <2>2
    <2> QED
      BY <2>1, <2>2
  <1>5. Types'
    BY <1>0, <1>3, <1>4 DEF Types, CrashShape, Locked
  <1>6. CountersConserved'
    BY <1>0, <1>4 DEF CountersConserved
  <1>7. Delivered'
    <2>1. \A p \in Proc : worker'[p].todo = <<Notify, Chk>> =>
             worker'[p].now \in ghost'.delivered
      BY <1>0, <1>4 DEF Delivered
    <2> QED
      BY <1>0, <1>1, <1>3, <1>4, <2>1, DeliveredStays
  <1>10. Expires'
    <2>1. CASE expired
      <3>1. ~row'.exists
        BY <1>3, <2>1
      <3> QED
        BY <3>1 DEF Expires
    <2>2. CASE ~expired
      BY <1>0, <2>2 DEF Expires
    <2> QED
      BY <2>1, <2>2
  <1>11. Conserved'
    <2>1. Alone' <=> Alone
      BY DEF Alone
    <2>2. CASE expired
      <3>1. ghost'.told = ghost'.bumps /\ ghost'.bumps \in Nat
        BY <1>4, <2>2 DEF Ghosts
      <3>2. row'.suppressed_count = 0
        BY <1>0, <1>2, <2>2
      <3>3. /\ ~scenario.crashes => crash.pc = "idle"
            /\ \A q \in Proc \ scenario.procs :
                 main[q].pc = "idle" /\ worker[q].at = "none"
        BY DEF Conserved
      <3>4. \A q \in Proc : main[q].pc = "send" => worker[q].at = "none"
        BY DEF Conserved
      <3>5. \A q \in Proc : Accounts(q)'
        BY <1>4, <2>2, <3>1 DEF Accounts
      <3>6. Sums'
        BY <3>1, <3>2 DEF Sums
      <3> QED
        BY <1>0, <2>1, <3>3, <3>4, <3>5, <3>6 DEF Conserved
    <2>3. CASE ~expired
      <3>1. row' = row /\ ghost' = ghost
        BY <1>0, <2>3
      <3> QED
        BY <1>0, <2>1, <3>1 DEF Conserved, Sums, Accounts
    <2> QED
      BY <2>2, <2>3
  <1> QED
    BY <1>5, <1>6, <1>7, <1>10, <1>11

-----------------------------------------------------------------------------
(* The theorems.                                                           *)

LEMMA Initially == Init => Inv
  <1> SUFFICES ASSUME Init PROVE Inv
    OBVIOUS
  <1> USE DEF Init
  <1>1. /\ Idle.pc = "idle" /\ Idle.todo = <<>> /\ NoAlert.at = "none"
        /\ NoAlert.todo = <<>> /\ NoRow.exists = FALSE
        /\ NoRow.last_notified = Never /\ NoRow.suppressed_count = 0
    BY IdleTyped DEF NoRow
  <1>2. Types
    <2>1. meta \in Metas /\ digest \in Digests /\ digest.pc # "settle"
      BY DEF Metas, Digests, Never
    <2>2. ghost \in Ghosts
      BY DEF Ghosts
    <2>3. page \in PageTodos /\ crash \in Crashes /\ CrashShape
      BY <1>1, IdleTyped DEF PageTodos, CrashShape
    <2>4. /\ main \in [Proc -> Mains] /\ \A p \in Proc : MainShape(main[p])
          /\ worker \in [Proc -> Workers] /\ \A p \in Proc : WorkerShape(worker[p])
          /\ Locked
      BY <1>1, IdleTyped DEF Locked
    <2> QED
      BY <2>1, <2>2, <2>3, <2>4, NoRowTyped DEF Types
  <1>3. CountersConserved
    BY DEF CountersConserved
  <1>4. /\ <<>> # <<Notify, Chk>> /\ <<>> # <<Zero>> /\ <<>> # <<Chk>>
        /\ <<>> # <<Ins, Exp, Msg, Exp>> /\ <<>> # <<Clr, Exp>>
    BY Tails
  <1>5. Delivered
    BY <1>1, <1>4 DEF Delivered, SilentOnlyAfterDelivery
  <1>6. Expires
    BY <1>1, <1>4 DEF Expires
  <1>7. Conserved
    BY <1>1, <1>4 DEF Conserved, Sums, Accounts
  <1> QED
    BY <1>2, <1>3, <1>5, <1>6, <1>7 DEF Inv

LEMMA Stepwise == Inv /\ [Next]_vars => Inv'
  <1> SUFFICES ASSUME Inv, [Next]_vars PROVE Inv'
    OBVIOUS
  <1>1. CASE Next
    <2>1. UNCHANGED scenario
      BY <1>1 DEF Next
    <2>2. CASE \E p \in Proc : Main(p) \/ Worker(p) \/ Kill(p)
      <3>1. PICK p \in Proc : Main(p) \/ Worker(p) \/ Kill(p)
        BY <2>2
      <3>2. CASE Main(p)
        BY <2>1, <3>2, CallKeeps, HGetAllKeeps, MainRunsKeeps, MainReturnsKeeps
           DEF Main
      <3>3. CASE Worker(p)
        BY <2>1, <3>3, WorkerSendsKeeps, WorkerRunsKeeps, WorkerChecksKeeps
           DEF Worker
      <3>4. CASE Kill(p)
        BY <2>1, <3>4, KillKeeps
      <3> QED
        BY <3>1, <3>2, <3>3, <3>4
    <2>3. CASE Crash
      BY <2>1, <2>3, CrashStartsKeeps, CrashHGetAllKeeps, CrashRunsKeeps,
         CrashRaisesKeeps, CrashSendsKeeps DEF Crash
    <2>4. CASE List
      BY <2>1, <2>4, ListKeeps
    <2>5. CASE PageRuns
      BY <2>1, <2>5, PageRunsKeeps
    <2>6. CASE Digest
      BY <2>1, <2>6, DigestKeeps
    <2>7. CASE Tick
      BY <2>1, <2>7, TickKeeps
    <2> QED
      BY <1>1, <2>2, <2>3, <2>4, <2>5, <2>6, <2>7 DEF Next
  <1>2. CASE UNCHANGED vars
    BY <1>2 DEF vars, Inv, Types, Typed, Locked, CrashShape, CountersConserved,
       Delivered, SilentOnlyAfterDelivery, Expires, Conserved, Alone, Carries,
       Sums, Accounts
  <1> QED
    BY <1>1, <1>2

\* What every process, the dying thread, the page and the digest hold, at all
\* times: the strengthening that the theorems below follow from.
THEOREM Invariant == Spec => []Inv
  BY Initially, Stepwise, PTL DEF Spec

\* Whatever the processes do between two batches, the hash has its shape, the
\* counters are never negative, and one thread of a process at a time has the
\* lock.
THEOREM TypeCorrect == Spec => []TypeOK
  <1>1. Inv => TypeOK
    <2> SUFFICES ASSUME Inv PROVE TypeOK
      OBVIOUS
    <2>1. /\ \A p \in Proc : /\ main[p].pc \in {"idle", "called", "send", "silent"}
                             /\ worker[p].at \in {"none", "queued", "sent"}
          /\ crash.pc \in {"idle", "called", "send", "done"}
      BY DEF Inv, Types, Mains, Workers, Crashes
    <2>2. \A p \in Proc : main[p].todo # <<>> => worker[p].todo = <<>>
      BY DEF Inv, Types, Locked
    <2> QED
      BY <2>1, <2>2 DEF TypeOK, Inv, Types, Typed, Rows, Metas, Digests
  <1> QED
    BY <1>1, Invariant, PTL

\* redis.py:117, 147, 170: the bumps of any number of processes and of the
\* dying thread, in any order with the digests, are all in the counter until a
\* digest takes away what it told, and only that.
THEOREM BumpsAreConserved == Spec => []CountersConserved
  <1>1. Inv => CountersConserved
    BY DEF Inv
  <1> QED
    BY <1>1, Invariant, PTL

\* SPEC.md:249-263: whatever is killed, raises or expires, the cooldown has
\* silenced an occurrence only because a message was delivered before.
THEOREM SilenceFollowsDelivery == Spec => []SilentOnlyAfterDelivery
  <1>1. Inv => SilentOnlyAfterDelivery
    BY DEF Inv, Delivered
  <1> QED
    BY <1>1, Invariant, PTL

\* SPEC.md:440-441: where no method is broken off, and no clamp comes 30 days
\* after its pipeline, no row stays for ever, for any number of processes.
THEOREM RowsGetTheirTTL == Spec => []RowsExpire
  <1>1. Inv => RowsExpire
    <2>1. SetResolved = <<Rsv, Exp>>
      BY DEF SetResolved, Rsv, Exp
    <2> QED
      BY <2>1 DEF Inv, Expires, RowsExpire, Quiet
  <1> QED
    BY <1>1, Invariant, PTL

\* redis.py:128-129, base.py:49-53: a process alone, through clicks, kills and
\* expiries at any moment, keeps in the row the suppressions that no recorded
\* message told, until a count from a row that expired is subtracted from the
\* row made after it.
THEOREM SuppressionsAreKept == Spec => []SuppressionsConserved
  <1>1. Inv => SuppressionsConserved
    BY DEF Inv, Conserved, Sums, SuppressionsConserved, Counted
  <1> QED
    BY <1>1, Invariant, PTL
=============================================================================
