---------------------------- MODULE CacheProofs -----------------------------
(***************************************************************************)
(* Proofs about the memory hierarchy, for every number of blocks, values   *)
(* and ways: what a copy may say, and that the whole is one memory.        *)
(***************************************************************************)
EXTENDS Cache, TLAPS

\* Every hierarchy value.
Hier == [mem: [Blocks -> Values], l1: [Blocks -> Line], l2: [Blocks -> Line],
         fl: [Blocks -> Values \cup {NoValue}]]

\* The value of a block below the L1, and the newest of all.
Below(s, a) == IF s.l2[a].v THEN s.l2[a].b ELSE s.mem[a]
Value(s, a) == IF s.l1[a].v THEN s.l1[a].b ELSE Below(s, a)

\* What one block's copies may say of each other, with the L1 on (d), the L2
\* on (e) and the page attributes w: a copy exists only where it may, a clean
\* copy agrees with the one below it, and a fetch line holds the newest value.
CellOk(s, a, d, e, w) ==
  /\ s.l1[a].v => d
  /\ s.l2[a].v => d /\ e
  /\ s.l1[a].v \/ s.l2[a].v => w[a] # "inhibited"
  /\ s.l1[a].v /\ ~s.l1[a].d => s.l1[a].b = Below(s, a)
  /\ ~(s.l1[a].v /\ s.l1[a].d) /\ s.l2[a].v /\ ~s.l2[a].d
       => s.l2[a].b = s.mem[a]
  /\ s.fl[a] # NoValue => s.fl[a] = Value(s, a)

Sound(s, d, e, w) == s \in Hier /\ \A a \in Blocks : CellOk(s, a, d, e, w)

\* The inductive invariant of a guest that follows the manual: what the L2
\* may not be told of, a write-through store, does not happen while it is on.
CInv ==
  /\ wimg \in Attributes /\ dce \in BOOLEAN /\ l2e \in BOOLEAN
  /\ Sound(Now, dce, l2e, wimg)
  /\ l2e => \A b \in Blocks : wimg[b] # "through"

\* From one hierarchy to another: the copies of a block below the L1 hold what
\* some copy of it held before, or its newest value now.
Aged(s, t, a) ==
  LET had(x) == \/ x = s.mem[a]
                \/ s.l2[a].v /\ x = s.l2[a].b
                \/ x = Value(s, a)
                \/ x = Value(t, a)
  IN  had(t.mem[a]) /\ (t.l2[a].v => had(t.l2[a].b))

\* From one hierarchy to another: sound, no block's value changed, none made
\* up, and no fetch line appeared.
Good(s, t) ==
  /\ Sound(t, dce, l2e, wimg)
  /\ \A a \in Blocks : Value(t, a) = Value(s, a) /\ Aged(s, t, a)
  /\ \A a \in Blocks : s.fl[a] = NoValue => t.fl[a] = NoValue

\* The fields of a hierarchy and of its lines.
LEMMA HierFields ==
  ASSUME NEW s \in Hier, NEW a \in Blocks
  PROVE  /\ s.mem \in [Blocks -> Values] /\ s.l1 \in [Blocks -> Line]
         /\ s.l2 \in [Blocks -> Line]
         /\ s.fl \in [Blocks -> Values \cup {NoValue}]
         /\ s.mem[a] \in Values /\ s.l1[a] \in Line /\ s.l2[a] \in Line
         /\ s.l1[a].v \in BOOLEAN /\ s.l1[a].d \in BOOLEAN
         /\ s.l1[a].b \in Values
         /\ s.l2[a].v \in BOOLEAN /\ s.l2[a].d \in BOOLEAN
         /\ s.l2[a].b \in Values
         /\ Below(s, a) \in Values /\ Value(s, a) \in Values
BY DEF Hier, Line, Below, Value

LEMMA Lines ==
  /\ Zero \in Values /\ NoValue \notin Values
  /\ NoLine \in Line /\ NoLine.v = FALSE /\ NoLine.d = FALSE
  /\ \A x \in Values, dirty \in BOOLEAN :
       /\ Held(x, dirty) \in Line /\ Held(x, dirty).v = TRUE
       /\ Held(x, dirty).d = dirty /\ Held(x, dirty).b = x
BY CacheConstants DEF NoLine, Held, Line

\* The bits of a block's lines are bits.
BitsOk(s, a) ==
  /\ s.l1[a].v \in BOOLEAN /\ s.l1[a].d \in BOOLEAN
  /\ s.l2[a].v \in BOOLEAN /\ s.l2[a].d \in BOOLEAN

\* Two hierarchies hold a block alike.
Same(s, t, a) ==
  /\ t.mem[a] = s.mem[a] /\ t.l1[a] = s.l1[a] /\ t.l2[a] = s.l2[a]
  /\ t.fl[a] = s.fl[a]

-----------------------------------------------------------------------------
(* What the helpers write, field by field. *)

LEMMA PutL1 ==
  ASSUME NEW s \in Hier, NEW b \in Blocks, NEW x \in Line
  PROVE  /\ [s EXCEPT !.l1[b] = x] \in Hier
         /\ \A a \in Blocks \ {b} : Same(s, [s EXCEPT !.l1[b] = x], a)
         /\ [s EXCEPT !.l1[b] = x].mem = s.mem
         /\ [s EXCEPT !.l1[b] = x].l1[b] = x
         /\ [s EXCEPT !.l1[b] = x].l2 = s.l2
         /\ [s EXCEPT !.l1[b] = x].fl = s.fl
BY DEF Hier, Same

LEMMA PutL2 ==
  ASSUME NEW s \in Hier, NEW b \in Blocks, NEW x \in Line
  PROVE  /\ [s EXCEPT !.l2[b] = x] \in Hier
         /\ \A a \in Blocks \ {b} : Same(s, [s EXCEPT !.l2[b] = x], a)
         /\ [s EXCEPT !.l2[b] = x].mem = s.mem
         /\ [s EXCEPT !.l2[b] = x].l1 = s.l1
         /\ [s EXCEPT !.l2[b] = x].l2[b] = x
         /\ [s EXCEPT !.l2[b] = x].fl = s.fl
BY DEF Hier, Same

LEMMA PutMem ==
  ASSUME NEW s \in Hier, NEW b \in Blocks, NEW x \in Values
  PROVE  /\ [s EXCEPT !.mem[b] = x] \in Hier
         /\ \A a \in Blocks \ {b} : Same(s, [s EXCEPT !.mem[b] = x], a)
         /\ [s EXCEPT !.mem[b] = x].mem[b] = x
         /\ [s EXCEPT !.mem[b] = x].l1 = s.l1
         /\ [s EXCEPT !.mem[b] = x].l2 = s.l2
         /\ [s EXCEPT !.mem[b] = x].fl = s.fl
BY DEF Hier, Same

\* The modified bit alone.
LEMMA BitOf ==
  ASSUME NEW l \in Line, NEW x \in BOOLEAN
  PROVE  /\ [l EXCEPT !.d = x] \in Line /\ [l EXCEPT !.d = x].v = l.v
         /\ [l EXCEPT !.d = x].d = x /\ [l EXCEPT !.d = x].b = l.b
BY Zenon DEF Line

LEMMA PutL1Bit ==
  ASSUME NEW s \in Hier, NEW b \in Blocks, NEW x \in BOOLEAN
  PROVE  /\ [s EXCEPT !.l1[b].d = x] \in Hier
         /\ \A a \in Blocks \ {b} : Same(s, [s EXCEPT !.l1[b].d = x], a)
         /\ [s EXCEPT !.l1[b].d = x].mem = s.mem
         /\ [s EXCEPT !.l1[b].d = x].l1[b].v = s.l1[b].v
         /\ [s EXCEPT !.l1[b].d = x].l1[b].d = x
         /\ [s EXCEPT !.l1[b].d = x].l1[b].b = s.l1[b].b
         /\ [s EXCEPT !.l1[b].d = x].l2 = s.l2
         /\ [s EXCEPT !.l1[b].d = x].fl = s.fl
<1> DEFINE l == [s.l1[b] EXCEPT !.d = x]
<1>1. s.l1[b] \in Line
  BY HierFields
<1>2. /\ l \in Line /\ l.v = s.l1[b].v /\ l.d = x /\ l.b = s.l1[b].b
  BY <1>1, BitOf
<1>3. [s EXCEPT !.l1[b].d = x] = [s EXCEPT !.l1[b] = l]
  BY <1>1 DEF Hier
<1> HIDE DEF l
<1> QED
  BY <1>2, <1>3, PutL1

LEMMA PutL2Bit ==
  ASSUME NEW s \in Hier, NEW b \in Blocks, NEW x \in BOOLEAN
  PROVE  /\ [s EXCEPT !.l2[b].d = x] \in Hier
         /\ \A a \in Blocks \ {b} : Same(s, [s EXCEPT !.l2[b].d = x], a)
         /\ [s EXCEPT !.l2[b].d = x].mem = s.mem
         /\ [s EXCEPT !.l2[b].d = x].l1 = s.l1
         /\ [s EXCEPT !.l2[b].d = x].l2[b].v = s.l2[b].v
         /\ [s EXCEPT !.l2[b].d = x].l2[b].d = x
         /\ [s EXCEPT !.l2[b].d = x].l2[b].b = s.l2[b].b
         /\ [s EXCEPT !.l2[b].d = x].fl = s.fl
<1> DEFINE l == [s.l2[b] EXCEPT !.d = x]
<1>1. s.l2[b] \in Line
  BY HierFields
<1>2. /\ l \in Line /\ l.v = s.l2[b].v /\ l.d = x /\ l.b = s.l2[b].b
  BY <1>1, BitOf
<1>3. [s EXCEPT !.l2[b].d = x] = [s EXCEPT !.l2[b] = l]
  BY <1>1 DEF Hier
<1> HIDE DEF l
<1> QED
  BY <1>2, <1>3, PutL2

LEMMA FetchDropAtIs ==
  ASSUME NEW s \in Hier, NEW b \in Blocks
  PROVE  /\ FetchDropAt(s, b) \in Hier
         /\ \A a \in Blocks \ {b} : Same(s, FetchDropAt(s, b), a)
         /\ FetchDropAt(s, b).mem = s.mem
         /\ FetchDropAt(s, b).l1 = s.l1
         /\ FetchDropAt(s, b).l2 = s.l2
         /\ FetchDropAt(s, b).fl[b] = NoValue
BY DEF Hier, Same, FetchDropAt

LEMMA BusWriteLineIs ==
  ASSUME NEW s \in Hier, NEW b \in Blocks, NEW x \in Values
  PROVE  /\ BusWriteLine(s, b, x) \in Hier
         /\ \A a \in Blocks \ {b} : Same(s, BusWriteLine(s, b, x), a)
         /\ BusWriteLine(s, b, x).mem[b] = x
         /\ BusWriteLine(s, b, x).l1 = s.l1
         /\ BusWriteLine(s, b, x).l2 = s.l2
         /\ BusWriteLine(s, b, x).fl[b] = NoValue
BY DEF Hier, Same, BusWriteLine

LEMMA L2InvalidateIs ==
  ASSUME NEW s \in Hier, NEW b \in Blocks
  PROVE  /\ L2Invalidate(s, b) \in Hier
         /\ \A a \in Blocks \ {b} : Same(s, L2Invalidate(s, b), a)
         /\ L2Invalidate(s, b).mem = s.mem
         /\ L2Invalidate(s, b).l1 = s.l1
         /\ L2Invalidate(s, b).l2[b] = NoLine
         /\ L2Invalidate(s, b).fl[b] = NoValue
BY Lines DEF Hier, Same, L2Invalidate

\* The helpers that write a field whole.
LEMMA L2FlushAllIs ==
  ASSUME NEW s \in Hier, NEW w \in BOOLEAN
  PROVE  /\ L2FlushAll(s, w) \in Hier
         /\ L2FlushAll(s, w).l1 = s.l1
         /\ \A a \in Blocks :
              /\ L2FlushAll(s, w).mem[a] = IF w /\ s.l2[a].v /\ s.l2[a].d
                                           THEN s.l2[a].b ELSE s.mem[a]
              /\ L2FlushAll(s, w).l2[a] = NoLine
              /\ L2FlushAll(s, w).fl[a] = NoValue
<1> DEFINE m == [b \in Blocks |-> IF w /\ s.l2[b].v /\ s.l2[b].d
                                  THEN s.l2[b].b ELSE s.mem[b]]
           n == [b \in Blocks |-> NoLine]
           f == [b \in Blocks |-> NoValue]
<1>1. m \in [Blocks -> Values]
  BY HierFields
<1>2. n \in [Blocks -> Line] /\ f \in [Blocks -> Values \cup {NoValue}]
  BY Lines
<1>3. L2FlushAll(s, w) = [s EXCEPT !.mem = m, !.l2 = n, !.fl = f]
  BY DEF L2FlushAll
<1>5. /\ \A a \in Blocks : m[a] = IF w /\ s.l2[a].v /\ s.l2[a].d
                                  THEN s.l2[a].b ELSE s.mem[a]
      /\ \A a \in Blocks : n[a] = NoLine /\ f[a] = NoValue
  OBVIOUS
<1> HIDE DEF m, n, f
<1>6. /\ L2FlushAll(s, w) \in Hier /\ L2FlushAll(s, w).mem = m
      /\ L2FlushAll(s, w).l1 = s.l1 /\ L2FlushAll(s, w).l2 = n
      /\ L2FlushAll(s, w).fl = f
  BY <1>1, <1>2, <1>3 DEF Hier
<1> QED
  BY <1>5, <1>6

\* The L1's part of l1dFlushAll.
L1dCleared(s, w) ==
  [s EXCEPT !.mem = [b \in Blocks |-> IF w /\ b \in {c \in Blocks : s.l1[c].v /\ s.l1[c].d}
                                      THEN s.l1[b].b ELSE s.mem[b]],
            !.l2 = [b \in Blocks |-> IF b \in {c \in Blocks : s.l1[c].v /\ s.l1[c].d}
                                     THEN NoLine ELSE s.l2[b]],
            !.l1 = [b \in Blocks |-> NoLine]]

LEMMA L1dClearedIs ==
  ASSUME NEW s \in Hier, NEW w \in BOOLEAN
  PROVE  /\ L1dFlushAll(s, w) = L2FlushAll(L1dCleared(s, w), w)
         /\ L1dCleared(s, w) \in Hier
         /\ \A a \in Blocks :
              /\ L1dCleared(s, w).mem[a] = IF w /\ s.l1[a].v /\ s.l1[a].d
                                           THEN s.l1[a].b ELSE s.mem[a]
              /\ L1dCleared(s, w).l2[a] = IF s.l1[a].v /\ s.l1[a].d
                                          THEN NoLine ELSE s.l2[a]
              /\ L1dCleared(s, w).l1[a] = NoLine
              /\ L1dCleared(s, w).fl[a] = s.fl[a]
<1> DEFINE D == {c \in Blocks : s.l1[c].v /\ s.l1[c].d}
           m == [b \in Blocks |-> IF w /\ b \in D THEN s.l1[b].b ELSE s.mem[b]]
           n == [b \in Blocks |-> IF b \in D THEN NoLine ELSE s.l2[b]]
           z == [b \in Blocks |-> NoLine]
<1>1. m \in [Blocks -> Values]
  BY HierFields
<1>2. n \in [Blocks -> Line] /\ z \in [Blocks -> Line]
  BY HierFields, Lines
<1>3. L1dCleared(s, w) = [s EXCEPT !.mem = m, !.l2 = n, !.l1 = z]
  BY DEF L1dCleared
<1>5. \A a \in Blocks :
        /\ m[a] = IF w /\ s.l1[a].v /\ s.l1[a].d THEN s.l1[a].b ELSE s.mem[a]
        /\ n[a] = IF s.l1[a].v /\ s.l1[a].d THEN NoLine ELSE s.l2[a]
        /\ z[a] = NoLine
  OBVIOUS
<1>6. L1dFlushAll(s, w) = L2FlushAll(L1dCleared(s, w), w)
  BY DEF L1dFlushAll, L1dCleared
<1> HIDE DEF m, n, z
<1>7. /\ L1dCleared(s, w) \in Hier /\ L1dCleared(s, w).mem = m
      /\ L1dCleared(s, w).l1 = z /\ L1dCleared(s, w).l2 = n
      /\ L1dCleared(s, w).fl = s.fl
  BY <1>1, <1>2, <1>3 DEF Hier
<1> QED
  BY <1>5, <1>6, <1>7
-----------------------------------------------------------------------------
(* Steps of a helper that keep every block's value. *)

\* A block left alone stays as it was.
LEMMA SameCell ==
  ASSUME NEW s, NEW t, NEW a \in Blocks, Same(s, t, a),
         NEW d, NEW e, NEW w
  PROVE  /\ CellOk(s, a, d, e, w) <=> CellOk(t, a, d, e, w)
         /\ Value(t, a) = Value(s, a) /\ Below(t, a) = Below(s, a)
         /\ s.fl[a] = NoValue => t.fl[a] = NoValue
         /\ Aged(s, t, a)
BY DEF Same, CellOk, Value, Below, Aged

\* So what is to be shown is about the one block that was touched.
LEMMA OneCell ==
  ASSUME NEW s, Sound(s, dce, l2e, wimg), NEW t \in Hier, NEW b \in Blocks,
         \A a \in Blocks \ {b} : Same(s, t, a),
         CellOk(t, b, dce, l2e, wimg), Value(t, b) = Value(s, b),
         Aged(s, t, b), s.fl[b] = NoValue => t.fl[b] = NoValue
  PROVE  Good(s, t)
<1>1. ASSUME NEW a \in Blocks
      PROVE  /\ CellOk(t, a, dce, l2e, wimg) /\ Value(t, a) = Value(s, a)
             /\ Aged(s, t, a)
             /\ s.fl[a] = NoValue => t.fl[a] = NoValue
  <2>1. CASE a = b
    BY <2>1
  <2>2. CASE a # b
    BY <2>2, SameCell DEF Sound
  <2> QED
    BY <2>1, <2>2
<1> QED
  BY <1>1 DEF Good, Sound

LEMMA GoodTrans ==
  ASSUME NEW s, NEW t, NEW u, Good(s, t), Good(t, u)
  PROVE  Good(s, u)
BY DEF Good, Aged

LEMMA GoodSelf ==
  ASSUME NEW s, Sound(s, dce, l2e, wimg)
  PROVE  Good(s, s)
BY DEF Good, Aged

LEMMA FetchDropAtGood ==
  ASSUME NEW s, Sound(s, dce, l2e, wimg), NEW b \in Blocks
  PROVE  Good(s, FetchDropAt(s, b))
<1> DEFINE t == FetchDropAt(s, b)
<1>1. s \in Hier /\ CellOk(s, b, dce, l2e, wimg)
  BY DEF Sound
<1>2. /\ t \in Hier /\ \A a \in Blocks \ {b} : Same(s, t, a)
      /\ t.mem = s.mem /\ t.l1 = s.l1 /\ t.l2 = s.l2 /\ t.fl[b] = NoValue
  BY <1>1, FetchDropAtIs
<1> HIDE DEF t
<1>3. CellOk(t, b, dce, l2e, wimg) /\ Value(t, b) = Value(s, b) /\ Aged(s, t, b)
  BY <1>1, <1>2 DEF CellOk, Value, Below, Aged
<1> QED
  BY <1>2, <1>3, OneCell DEF t

\* An L2 line gives up its place.
LEMMA CastoutGood ==
  ASSUME NEW s, Sound(s, dce, l2e, wimg), NEW y \in Blocks, s.l2[y].v
  PROVE  /\ Good(s, L2Castout(s, y))
         /\ \A a \in Blocks \ {y} : Same(s, L2Castout(s, y), a)
         /\ L2Castout(s, y).l1 = s.l1
<1> DEFINE r == IF s.l2[y].d THEN BusWriteLine(s, y, s.l2[y].b) ELSE s
           t == L2Castout(s, y)
<1>1. /\ s \in Hier /\ CellOk(s, y, dce, l2e, wimg) /\ s.l2[y].b \in Values
      /\ s.l2[y].d \in BOOLEAN /\ s.l1[y].v \in BOOLEAN /\ s.l1[y].d \in BOOLEAN
  BY HierFields DEF Sound
<1>2. /\ r \in Hier /\ \A a \in Blocks \ {y} : Same(s, r, a)
      /\ r.mem[y] = IF s.l2[y].d THEN s.l2[y].b ELSE s.mem[y]
      /\ r.l1 = s.l1 /\ r.l2 = s.l2
      /\ r.fl[y] = IF s.l2[y].d THEN NoValue ELSE s.fl[y]
  <2>1. CASE s.l2[y].d
    BY <1>1, <2>1, BusWriteLineIs
  <2>2. CASE ~s.l2[y].d
    BY <1>1, <2>2 DEF Same
  <2> QED
    BY <2>1, <2>2
<1>3. t = [r EXCEPT !.l2[y] = NoLine]
  BY DEF L2Castout
<1> HIDE DEF r, t
<1>4. /\ t \in Hier /\ \A a \in Blocks \ {y} : Same(r, t, a)
      /\ t.mem = r.mem /\ t.l1 = r.l1 /\ t.l2[y] = NoLine /\ t.fl = r.fl
  BY <1>2, <1>3, PutL2, Lines
<1>5. \A a \in Blocks \ {y} : Same(s, t, a)
  BY <1>2, <1>4 DEF Same
<1>6. CellOk(t, y, dce, l2e, wimg) /\ Value(t, y) = Value(s, y) /\ Aged(s, t, y)
  BY <1>1, <1>2, <1>4, Lines DEF CellOk, Value, Below, Aged
<1>7. s.fl[y] = NoValue => t.fl[y] = NoValue
  BY <1>2, <1>4
<1> QED
  BY <1>2, <1>4, <1>5, <1>6, <1>7, OneCell DEF t

\* A modified L1 value goes into the L2 over its older copy.
LEMMA InstallModified ==
  ASSUME NEW s, Sound(s, dce, l2e, wimg), NEW b \in Blocks,
         s.l1[b].v, s.l1[b].d, l2e, NEW t \in L2Install(s, b, s.l1[b].b, TRUE)
  PROVE  /\ Good(s, t) /\ t.l1 = s.l1 /\ t.fl[b] = NoValue
         /\ t.l2[b] = Held(s.l1[b].b, TRUE)
<1> DEFINE q == FetchDropAt(s, b)
           new == Held(s.l1[b].b, TRUE \/ (s.l2[b].v /\ s.l2[b].d))
           room == q.l2[b].v \/ Cardinality(Resident(q.l2)) < L2Ways
<1>1. /\ s \in Hier /\ CellOk(s, b, dce, l2e, wimg) /\ s.l1[b].b \in Values
  BY HierFields DEF Sound
<1>2. /\ new = Held(s.l1[b].b, TRUE) /\ new \in Line
      /\ new.v = TRUE /\ new.d = TRUE /\ new.b = s.l1[b].b
  BY <1>1, Lines
<1>3. /\ Good(s, q) /\ q \in Hier /\ Sound(q, dce, l2e, wimg)
      /\ q.l1 = s.l1 /\ q.fl[b] = NoValue
  BY <1>1, FetchDropAtIs, FetchDropAtGood DEF Good
<1>4. PICK r : /\ t = [r EXCEPT !.l2[b] = new]
               /\ Good(q, r) /\ r.l1 = q.l1 /\ r.fl[b] = NoValue
  <2>1. CASE room
    <3>1. t = [q EXCEPT !.l2[b] = new]
      BY <2>1 DEF L2Install
    <3> QED
      BY <1>3, <3>1, GoodSelf
  <2>2. CASE ~room
    <3>1. t \in {[L2Castout(q, y) EXCEPT !.l2[b] = new] : y \in Resident(q.l2)}
      BY <2>2 DEF L2Install
    <3>2. PICK y \in Resident(q.l2) : t = [L2Castout(q, y) EXCEPT !.l2[b] = new]
      BY <3>1
    <3>3. y \in Blocks /\ q.l2[y].v /\ y # b
      BY <2>2, <3>2 DEF Resident
    <3> HIDE DEF q, new, room
    <3>4. /\ Good(q, L2Castout(q, y)) /\ L2Castout(q, y).l1 = q.l1
      BY <1>3, <3>3, CastoutGood
    <3>5. L2Castout(q, y).fl[b] = NoValue
      BY <1>3, <3>4 DEF Good
    <3> QED
      BY <3>2, <3>4, <3>5
  <2> QED
    BY <2>1, <2>2
<1> HIDE DEF q, new, room
<1>5. r \in Hier /\ Sound(r, dce, l2e, wimg) /\ CellOk(r, b, dce, l2e, wimg)
  BY <1>4 DEF Good, Sound
<1>6. /\ t \in Hier /\ \A a \in Blocks \ {b} : Same(r, t, a)
      /\ t.mem = r.mem /\ t.l1 = r.l1 /\ t.l2[b] = new /\ t.fl = r.fl
  <2>1. new \in Line
    BY <1>2
  <2> QED
    BY <1>4, <1>5, <2>1, PutL2
<1>7. CellOk(t, b, dce, l2e, wimg) /\ Value(t, b) = Value(r, b) /\ Aged(r, t, b)
  <2>1. /\ t.l1[b] = s.l1[b] /\ r.l1[b] = s.l1[b] /\ t.fl[b] = NoValue
        /\ t.l2[b].v = TRUE /\ t.l2[b].d = TRUE /\ t.l2[b].b = s.l1[b].b
        /\ t.mem[b] = r.mem[b]
    BY <1>2, <1>3, <1>4, <1>6
  <2>2. CellOk(t, b, dce, l2e, wimg) /\ Value(t, b) = s.l1[b].b
        /\ Value(r, b) = s.l1[b].b
    BY <1>1, <2>1 DEF CellOk, Value
  <2> QED
    BY <2>1, <2>2 DEF Aged
<1>8. Good(r, t)
  BY <1>4, <1>5, <1>6, <1>7, OneCell
<1> QED
  BY <1>2, <1>3, <1>4, <1>6, <1>8, GoodTrans

\* A block read from memory goes into the L2 clean.
LEMMA InstallClean ==
  ASSUME NEW s, Sound(s, dce, l2e, wimg), NEW b \in Blocks,
         dce, wimg[b] # "inhibited", ~s.l1[b].v, ~L2Find(s, b),
         NEW t \in L2Install(s, b, s.mem[b], FALSE)
  PROVE  /\ Good(s, t) /\ t.l1 = s.l1 /\ t.mem[b] = s.mem[b]
         /\ t.l2[b].v => t.l2[b].b = s.mem[b] /\ ~t.l2[b].d
<1> DEFINE new == Held(s.mem[b], FALSE \/ (s.l2[b].v /\ s.l2[b].d))
           room == s.l2[b].v \/ Cardinality(Resident(s.l2)) < L2Ways
<1>1. /\ s \in Hier /\ CellOk(s, b, dce, l2e, wimg) /\ s.mem[b] \in Values
      /\ s.l2[b].v \in BOOLEAN /\ s.l2[b].d \in BOOLEAN
  BY HierFields DEF Sound
<1>2. ~s.l2[b].v
  BY <1>1 DEF CellOk, L2Find
<1>3. CASE ~l2e
  <2>1. t = s
    BY <1>3 DEF L2Install
  <2> QED
    BY <1>2, <2>1, GoodSelf
<1>4. CASE l2e
  <2>1. new = Held(s.mem[b], FALSE)
    BY <1>1, <1>2
  <2>2. new \in Line /\ new.v = TRUE /\ new.d = FALSE /\ new.b = s.mem[b]
    BY <1>1, <2>1, Lines
  <2>3. PICK r : /\ t = [r EXCEPT !.l2[b] = new]
                 /\ Good(s, r) /\ r.l1 = s.l1 /\ Same(s, r, b)
    <3>1. CASE room
      <4>1. t = [s EXCEPT !.l2[b] = new]
        BY <1>4, <3>1 DEF L2Install
      <4>2. Same(s, s, b)
        BY DEF Same
      <4> QED
        BY <4>1, <4>2, GoodSelf
    <3>2. CASE ~room
      <4>1. t \in {[L2Castout(s, y) EXCEPT !.l2[b] = new] : y \in Resident(s.l2)}
        BY <1>4, <3>2 DEF L2Install
      <4>2. PICK y \in Resident(s.l2) : t = [L2Castout(s, y) EXCEPT !.l2[b] = new]
        BY <4>1
      <4>3. y \in Blocks /\ s.l2[y].v /\ y # b
        BY <3>2, <4>2 DEF Resident
      <4> HIDE DEF new, room
      <4>4. /\ Good(s, L2Castout(s, y)) /\ L2Castout(s, y).l1 = s.l1
            /\ Same(s, L2Castout(s, y), b)
        BY <4>3, CastoutGood
      <4> QED
        BY <4>2, <4>4
    <3> QED
      BY <3>1, <3>2
  <2> HIDE DEF new, room
  <2>4. r \in Hier /\ Sound(r, dce, l2e, wimg) /\ CellOk(r, b, dce, l2e, wimg)
    BY <2>3 DEF Good, Sound
  <2>5. /\ t \in Hier /\ \A a \in Blocks \ {b} : Same(r, t, a)
        /\ t.mem = r.mem /\ t.l1 = r.l1 /\ t.l2[b] = new /\ t.fl = r.fl
    BY <2>2, <2>3, <2>4, PutL2
  <2>6. CellOk(t, b, dce, l2e, wimg) /\ Value(t, b) = Value(r, b) /\ Aged(r, t, b)
    BY <1>1, <1>2, <1>4, <2>2, <2>3, <2>4, <2>5 DEF CellOk, Value, Below, Same,
       Aged
  <2>7. Good(r, t)
    BY <2>4, <2>5, <2>6, OneCell
  <2>8. t.mem[b] = s.mem[b]
    BY <2>3, <2>5 DEF Same
  <2> QED
    BY <2>2, <2>3, <2>5, <2>7, <2>8, GoodTrans
<1> QED
  BY <1>3, <1>4

\* An L1 line that says nothing the levels below do not say may go.
LEMMA DropL1 ==
  ASSUME NEW s, Sound(s, dce, l2e, wimg), NEW b \in Blocks,
         s.l1[b].v /\ s.l1[b].d =>
           /\ Below(s, b) = s.l1[b].b
           /\ s.l2[b].v /\ ~s.l2[b].d => s.l2[b].b = s.mem[b]
  PROVE  /\ Good(s, [s EXCEPT !.l1[b] = NoLine])
         /\ ~[s EXCEPT !.l1[b] = NoLine].l1[b].v
<1> DEFINE t == [s EXCEPT !.l1[b] = NoLine]
<1>1. /\ s \in Hier /\ CellOk(s, b, dce, l2e, wimg)
      /\ s.l1[b].v \in BOOLEAN /\ s.l1[b].d \in BOOLEAN
  BY HierFields DEF Sound
<1>2. /\ t \in Hier /\ \A a \in Blocks \ {b} : Same(s, t, a)
      /\ t.mem = s.mem /\ t.l1[b] = NoLine /\ t.l2 = s.l2 /\ t.fl = s.fl
  BY <1>1, PutL1, Lines
<1> HIDE DEF t
<1>3. CellOk(t, b, dce, l2e, wimg) /\ Value(t, b) = Value(s, b) /\ Aged(s, t, b)
  BY <1>1, <1>2, Lines DEF CellOk, Value, Below, Aged
<1> QED
  BY <1>2, <1>3, OneCell, Lines DEF t

\* The victim of a replacement.
LEMMA VictimGood ==
  ASSUME NEW s, Sound(s, dce, l2e, wimg), NEW t \in LineVictim(s)
  PROVE  /\ Good(s, t)
         /\ \A a \in Blocks : ~s.l1[a].v => ~t.l1[a].v
<1>1. CASE Cardinality(Resident(s.l1)) < L1Ways
  BY <1>1, GoodSelf DEF LineVictim
<1>2. CASE ~(Cardinality(Resident(s.l1)) < L1Ways)
  <2>1. PICK y \in Resident(s.l1) :
          t \in {[r EXCEPT !.l1[y] = NoLine] :
                   r \in IF s.l1[y].d THEN LineCastout(s, y) ELSE {s}}
    BY <1>2 DEF LineVictim
  <2>2. PICK r \in IF s.l1[y].d THEN LineCastout(s, y) ELSE {s} :
          t = [r EXCEPT !.l1[y] = NoLine]
    BY <2>1
  <2>3. /\ y \in Blocks /\ s.l1[y].v /\ s \in Hier
        /\ s.l1[y].b \in Values /\ CellOk(s, y, dce, l2e, wimg)
    BY <2>1, HierFields DEF Resident, Sound
  <2>4. /\ Good(s, r) /\ r.l1 = s.l1
        /\ r.l1[y].v /\ r.l1[y].d =>
             /\ Below(r, y) = r.l1[y].b
             /\ r.l2[y].v /\ ~r.l2[y].d => r.l2[y].b = r.mem[y]
    <3>1. CASE ~s.l1[y].d
      BY <2>2, <3>1, GoodSelf
    <3>2. CASE s.l1[y].d /\ l2e
      <4>1. r \in L2Install(s, y, s.l1[y].b, TRUE)
        BY <2>2, <3>2 DEF LineCastout
      <4>2. /\ Good(s, r) /\ r.l1 = s.l1 /\ r.l2[y] = Held(s.l1[y].b, TRUE)
        BY <2>3, <3>2, <4>1, InstallModified
      <4>3. r.l2[y].v = TRUE /\ r.l2[y].d = TRUE /\ r.l2[y].b = s.l1[y].b
        BY <2>3, <4>2, Lines
      <4> QED
        BY <4>2, <4>3 DEF Below
    <3>3. CASE s.l1[y].d /\ ~l2e
      <4>1. r = BusWriteLine(s, y, s.l1[y].b)
        BY <2>2, <3>3 DEF LineCastout
      <4>2. /\ r \in Hier /\ \A a \in Blocks \ {y} : Same(s, r, a)
            /\ r.mem[y] = s.l1[y].b /\ r.l1 = s.l1 /\ r.l2 = s.l2
            /\ r.fl[y] = NoValue
        BY <2>3, <4>1, BusWriteLineIs
      <4>3. ~s.l2[y].v
        BY <2>3, <3>3 DEF CellOk
      <4>4. CellOk(r, y, dce, l2e, wimg) /\ Value(r, y) = Value(s, y) /\ Aged(s, r, y)
        BY <2>3, <3>3, <4>2, <4>3 DEF CellOk, Value, Below, Aged
      <4>5. Good(s, r)
        BY <2>3, <4>2, <4>4, OneCell
      <4> QED
        BY <4>2, <4>3, <4>5 DEF Below
    <3> QED
      BY <3>1, <3>2, <3>3
  <2>5. Sound(r, dce, l2e, wimg) /\ r \in Hier
    BY <2>4 DEF Good, Sound
  <2>6. Good(r, t)
    BY <2>2, <2>3, <2>4, <2>5, DropL1
  <2>7. ASSUME NEW a \in Blocks, ~s.l1[a].v
        PROVE  ~t.l1[a].v
    <3>1. a # y
      BY <2>3, <2>7
    <3>2. Same(r, t, a)
      BY <2>2, <2>3, <2>5, <3>1, PutL1, Lines
    <3> QED
      BY <2>4, <2>7, <3>2 DEF Same
  <2> QED
    BY <2>4, <2>6, <2>7, GoodTrans
<1> QED
  BY <1>1, <1>2

\* A clean line that says what lies below it.
LEMMA PutClean ==
  ASSUME NEW s, Sound(s, dce, l2e, wimg), NEW b \in Blocks,
         dce, wimg[b] # "inhibited", ~s.l1[b].v
  PROVE  /\ Good(s, [s EXCEPT !.l1[b] = Held(Below(s, b), FALSE)])
         /\ [s EXCEPT !.l1[b] = Held(Below(s, b), FALSE)].l1[b].v
<1> DEFINE x == Held(Below(s, b), FALSE)
           t == [s EXCEPT !.l1[b] = x]
<1>1. /\ s \in Hier /\ CellOk(s, b, dce, l2e, wimg)
      /\ Below(s, b) \in Values
  BY HierFields DEF Sound
<1>2. x \in Line /\ x.v = TRUE /\ x.d = FALSE /\ x.b = Below(s, b)
  BY <1>1, Lines
<1> HIDE DEF x
<1>3. /\ t \in Hier /\ \A a \in Blocks \ {b} : Same(s, t, a)
      /\ t.mem = s.mem /\ t.l1[b] = x /\ t.l2 = s.l2 /\ t.fl = s.fl
  BY <1>1, <1>2, PutL1
<1> HIDE DEF t
<1>4. CellOk(t, b, dce, l2e, wimg) /\ Value(t, b) = Value(s, b) /\ Aged(s, t, b)
  BY <1>1, <1>2, <1>3 DEF CellOk, Value, Below, Aged
<1> QED
  BY <1>2, <1>3, <1>4, OneCell DEF t, x

LEMMA FillGood ==
  ASSUME NEW s, Sound(s, dce, l2e, wimg), NEW b \in Blocks,
         dce, wimg[b] # "inhibited", ~s.l1[b].v, NEW t \in LineFill(s, b)
  PROVE  Good(s, t) /\ t.l1[b].v
<1>1. s \in Hier /\ CellOk(s, b, dce, l2e, wimg)
  BY DEF Sound
<1>2. CASE L2Find(s, b)
  <2>1. t = [s EXCEPT !.l1[b] = Held(s.l2[b].b, FALSE)]
    BY <1>2 DEF LineFill
  <2>2. Below(s, b) = s.l2[b].b
    BY <1>2 DEF L2Find, Below
  <2>3. t = [s EXCEPT !.l1[b] = Held(Below(s, b), FALSE)]
    BY <2>1, <2>2
  <2> QED
    BY <2>3, PutClean
<1>3. CASE ~L2Find(s, b)
  <2>1. PICK r \in L2Install(s, b, s.mem[b], FALSE) :
          t = [r EXCEPT !.l1[b] = Held(s.mem[b], FALSE)]
    BY <1>3 DEF LineFill
  <2>2. /\ Good(s, r) /\ r.l1 = s.l1 /\ r.mem[b] = s.mem[b]
        /\ r.l2[b].v => r.l2[b].b = s.mem[b] /\ ~r.l2[b].d
    BY <1>3, InstallClean, Zenon
  <2>3. Below(r, b) = s.mem[b]
    BY <2>2 DEF Below
  <2>4. t = [r EXCEPT !.l1[b] = Held(Below(r, b), FALSE)]
    BY <2>1, <2>3
  <2>5. Sound(r, dce, l2e, wimg) /\ ~r.l1[b].v
    BY <2>2 DEF Good
  <2>6. Good(r, t) /\ t.l1[b].v
    BY <2>4, <2>5, PutClean
  <2> QED
    BY <2>2, <2>6, GoodTrans
<1> QED
  BY <1>2, <1>3

\* A block brought into the L1.
LEMMA AllocateGood ==
  ASSUME NEW s, Sound(s, dce, l2e, wimg), NEW b \in Blocks,
         dce, wimg[b] # "inhibited", NEW t \in Allocate(s, b)
  PROVE  Good(s, t) /\ t.l1[b].v
<1>1. CASE s.l1[b].v
  BY <1>1, GoodSelf DEF Allocate
<1>2. CASE ~s.l1[b].v
  <2>1. PICK r \in LineVictim(s) : t \in LineFill(r, b)
    BY <1>2 DEF Allocate
  <2>2. Good(s, r) /\ ~r.l1[b].v
    BY <1>2, <2>1, VictimGood
  <2>3. Sound(r, dce, l2e, wimg)
    BY <2>2 DEF Good
  <2>4. Good(r, t) /\ t.l1[b].v
    BY <2>1, <2>2, <2>3, FillGood
  <2> QED
    BY <2>2, <2>4, GoodTrans
<1> QED
  BY <1>1, <1>2

\* Such a line may also stay, marked clean.
LEMMA MarkL1Clean ==
  ASSUME NEW s, Sound(s, dce, l2e, wimg), NEW b \in Blocks,
         s.l1[b].v /\ s.l1[b].d =>
           /\ Below(s, b) = s.l1[b].b
           /\ s.l2[b].v /\ ~s.l2[b].d => s.l2[b].b = s.mem[b]
  PROVE  /\ Good(s, [s EXCEPT !.l1[b].d = FALSE])
         /\ ~[s EXCEPT !.l1[b].d = FALSE].l1[b].d
<1> DEFINE t == [s EXCEPT !.l1[b].d = FALSE]
<1>1. /\ s \in Hier /\ CellOk(s, b, dce, l2e, wimg)
      /\ s.l1[b].v \in BOOLEAN /\ s.l1[b].d \in BOOLEAN
  BY HierFields DEF Sound
<1>2. FALSE \in BOOLEAN
  OBVIOUS
<1>3. /\ t \in Hier /\ \A a \in Blocks \ {b} : Same(s, t, a)
      /\ t.mem = s.mem /\ t.l1[b].v = s.l1[b].v /\ t.l1[b].d = FALSE
      /\ t.l1[b].b = s.l1[b].b /\ t.l2 = s.l2 /\ t.fl = s.fl
  BY <1>1, <1>2, PutL1Bit, Zenon
<1> HIDE DEF t
<1>4. CellOk(t, b, dce, l2e, wimg) /\ Value(t, b) = Value(s, b) /\ Aged(s, t, b)
  BY <1>1, <1>3 DEF CellOk, Value, Below, Aged
<1> QED
  BY <1>3, <1>4, OneCell DEF t

\* A modified L1 line goes to memory past the L2, whose copy dies.
LEMMA PushToMemory ==
  ASSUME NEW s, Sound(s, dce, l2e, wimg), NEW b \in Blocks,
         s.l1[b].v, s.l1[b].d,
         NEW t, t = L2Invalidate(BusWriteLine(s, b, s.l1[b].b), b)
  PROVE  /\ Good(s, t) /\ t.l1 = s.l1 /\ ~t.l2[b].v /\ Below(t, b) = s.l1[b].b
<1> DEFINE r == BusWriteLine(s, b, s.l1[b].b)
<1>1. /\ s \in Hier /\ CellOk(s, b, dce, l2e, wimg) /\ s.l1[b].b \in Values
  BY HierFields DEF Sound
<1>2. /\ r \in Hier /\ \A a \in Blocks \ {b} : Same(s, r, a)
      /\ r.mem[b] = s.l1[b].b /\ r.l1 = s.l1
  BY <1>1, BusWriteLineIs
<1> HIDE DEF r
<1>3. /\ t \in Hier /\ \A a \in Blocks \ {b} : Same(r, t, a)
      /\ t.mem = r.mem /\ t.l1 = r.l1 /\ t.l2[b] = NoLine /\ t.fl[b] = NoValue
  BY <1>2, L2InvalidateIs DEF r
<1>4. \A a \in Blocks \ {b} : Same(s, t, a)
  BY <1>2, <1>3 DEF Same
<1>5. ~t.l2[b].v /\ Below(t, b) = s.l1[b].b
  BY <1>2, <1>3, Lines DEF Below
<1>6. CellOk(t, b, dce, l2e, wimg) /\ Value(t, b) = Value(s, b) /\ Aged(s, t, b)
  BY <1>1, <1>2, <1>3, <1>5 DEF CellOk, Value, Aged
<1> QED
  BY <1>2, <1>3, <1>4, <1>5, <1>6, OneCell

\* dcbf and dcbst of a modified line: nothing below the L1 is older now.
LEMMA LinePushGood ==
  ASSUME NEW s, Sound(s, dce, l2e, wimg), NEW b \in Blocks,
         s.l1[b].v, s.l1[b].d, NEW t \in LinePush(s, b)
  PROVE  Good(s, t) /\ ~t.l1[b].d
<1>1. PICK r \in IF l2e /\ l2ts THEN L2Install(s, b, s.l1[b].b, TRUE)
                 ELSE {L2Invalidate(BusWriteLine(s, b, s.l1[b].b), b)} :
        t = [r EXCEPT !.l1[b].d = FALSE]
  BY DEF LinePush
<1>2. /\ Good(s, r)
      /\ r.l1[b].v /\ r.l1[b].d =>
             /\ Below(r, b) = r.l1[b].b
             /\ r.l2[b].v /\ ~r.l2[b].d => r.l2[b].b = r.mem[b]
  <2>1. CASE l2e /\ l2ts
    <3>1. r \in L2Install(s, b, s.l1[b].b, TRUE)
      BY <1>1, <2>1
    <3>2. /\ Good(s, r) /\ r.l1 = s.l1 /\ r.l2[b] = Held(s.l1[b].b, TRUE)
      BY <2>1, <3>1, InstallModified
    <3>3. s.l1[b].b \in Values
      BY HierFields DEF Sound
    <3>4. r.l2[b].v = TRUE /\ r.l2[b].d = TRUE /\ r.l2[b].b = s.l1[b].b
      BY <3>2, <3>3, Lines
    <3> QED
      BY <3>2, <3>4 DEF Below
  <2>2. CASE ~(l2e /\ l2ts)
    <3>1. r = L2Invalidate(BusWriteLine(s, b, s.l1[b].b), b)
      BY <1>1, <2>2
    <3> QED
      BY <3>1, PushToMemory
  <2> QED
    BY <2>1, <2>2
<1>3. Sound(r, dce, l2e, wimg)
  BY <1>2 DEF Good
<1>4. Good(r, t) /\ ~t.l1[b].d
  BY <1>1, <1>2, <1>3, MarkL1Clean
<1> QED
  BY <1>2, <1>4, GoodTrans

\* A modified L2 line under no modified L1 line goes to memory.
LEMMA MarkL2Clean ==
  ASSUME NEW s, Sound(s, dce, l2e, wimg), NEW b \in Blocks,
         ~(s.l1[b].v /\ s.l1[b].d), s.l2[b].v
  PROVE  /\ Good(s, [BusWriteLine(s, b, s.l2[b].b) EXCEPT !.l2[b].d = FALSE])
         /\ [BusWriteLine(s, b, s.l2[b].b) EXCEPT !.l2[b].d = FALSE].l1 = s.l1
         /\ ~[BusWriteLine(s, b, s.l2[b].b) EXCEPT !.l2[b].d = FALSE].l2[b].d
<1> DEFINE r == BusWriteLine(s, b, s.l2[b].b)
           t == [r EXCEPT !.l2[b].d = FALSE]
<1>1. /\ s \in Hier /\ CellOk(s, b, dce, l2e, wimg) /\ s.l2[b].b \in Values
      /\ s.l1[b].v \in BOOLEAN /\ s.l1[b].d \in BOOLEAN
  BY HierFields DEF Sound
<1>2. /\ r \in Hier /\ \A a \in Blocks \ {b} : Same(s, r, a)
      /\ r.mem[b] = s.l2[b].b /\ r.l1 = s.l1 /\ r.l2 = s.l2
      /\ r.fl[b] = NoValue
  BY <1>1, BusWriteLineIs
<1> HIDE DEF r
<1>3. FALSE \in BOOLEAN
  OBVIOUS
<1>4. /\ t \in Hier /\ \A a \in Blocks \ {b} : Same(r, t, a)
      /\ t.mem = r.mem /\ t.l1 = r.l1
      /\ t.l2[b].v = r.l2[b].v /\ t.l2[b].d = FALSE
      /\ t.l2[b].b = r.l2[b].b /\ t.fl = r.fl
  BY <1>2, <1>3, PutL2Bit, Zenon
<1> HIDE DEF t
<1>5. \A a \in Blocks \ {b} : Same(s, t, a)
  BY <1>2, <1>4 DEF Same
<1>6. CellOk(t, b, dce, l2e, wimg) /\ Value(t, b) = Value(s, b) /\ Aged(s, t, b)
  BY <1>1, <1>2, <1>4 DEF CellOk, Value, Below, Aged
<1>7. Good(s, t) /\ t.l1 = s.l1 /\ ~t.l2[b].d
  BY <1>2, <1>4, <1>5, <1>6, OneCell
<1> QED
  BY <1>7 DEF t, r

\* A clean L2 line under no modified L1 line may go.
LEMMA DropL2 ==
  ASSUME NEW s, Sound(s, dce, l2e, wimg), NEW b \in Blocks,
         ~(s.l1[b].v /\ s.l1[b].d), ~(s.l2[b].v /\ s.l2[b].d)
  PROVE  /\ Good(s, [s EXCEPT !.l2[b] = NoLine])
         /\ [s EXCEPT !.l2[b] = NoLine].l1 = s.l1
         /\ ~[s EXCEPT !.l2[b] = NoLine].l2[b].v
<1> DEFINE t == [s EXCEPT !.l2[b] = NoLine]
<1>1. /\ s \in Hier /\ CellOk(s, b, dce, l2e, wimg)
      /\ s.l1[b].v \in BOOLEAN /\ s.l1[b].d \in BOOLEAN
      /\ s.l2[b].v \in BOOLEAN /\ s.l2[b].d \in BOOLEAN
  BY HierFields DEF Sound
<1>2. /\ t \in Hier /\ \A a \in Blocks \ {b} : Same(s, t, a)
      /\ t.mem = s.mem /\ t.l1 = s.l1 /\ t.l2[b] = NoLine /\ t.fl = s.fl
  BY <1>1, PutL2, Lines
<1> HIDE DEF t
<1>3. CellOk(t, b, dce, l2e, wimg) /\ Value(t, b) = Value(s, b) /\ Aged(s, t, b)
  BY <1>1, <1>2, Lines DEF CellOk, Value, Below, Aged
<1> QED
  BY <1>2, <1>3, OneCell, Lines DEF t

\* snoopPush: memory holds the block's value, and a master about to write
\* finds no copy of it left.
LEMMA SnoopGood ==
  ASSUME NEW s, Sound(s, dce, l2e, wimg), NEW b \in Blocks,
         NEW invalidate \in BOOLEAN
  PROVE  LET t == SnoopPush(s, b, invalidate)
         IN  /\ Good(s, t) /\ t.mem[b] = Value(s, b)
             /\ invalidate => ~t.l1[b].v /\ ~t.l2[b].v /\ t.fl[b] = NoValue
<1> DEFINE s1 == IF invalidate THEN FetchDropAt(s, b) ELSE s
           s2 == IF dce /\ s1.l1[b].v /\ s1.l1[b].d
                 THEN [L2Invalidate(BusWriteLine(s1, b, s1.l1[b].b), b)
                         EXCEPT !.l1[b].d = FALSE]
                 ELSE s1
           s3 == IF dce /\ s2.l1[b].v /\ invalidate
                 THEN [s2 EXCEPT !.l1[b] = NoLine] ELSE s2
           s4 == IF L2Find(s3, b) /\ s3.l2[b].d
                 THEN [BusWriteLine(s3, b, s3.l2[b].b) EXCEPT !.l2[b].d = FALSE]
                 ELSE s3
           s5 == IF L2Find(s4, b) /\ invalidate
                 THEN [s4 EXCEPT !.l2[b] = NoLine] ELSE s4
<1>1. SnoopPush(s, b, invalidate) = s5
  BY DEF SnoopPush
<1>2. /\ Good(s, s1) /\ Sound(s1, dce, l2e, wimg)
      /\ invalidate => s1.fl[b] = NoValue
  <2>1. CASE invalidate
    <3>1. s1 = FetchDropAt(s, b) /\ s \in Hier
      BY <2>1 DEF Sound
    <3>2. Good(s, s1)
      BY <3>1, FetchDropAtGood
    <3>3. s1.fl[b] = NoValue
      BY <3>1, FetchDropAtIs
    <3> QED
      BY <3>2, <3>3 DEF Good
  <2>2. CASE ~invalidate
    BY <2>2, GoodSelf
  <2> QED
    BY <2>1, <2>2
<1> HIDE DEF s1
<1>3. /\ Good(s1, s2) /\ ~(s2.l1[b].v /\ s2.l1[b].d)
  <2>1. BitsOk(s1, b)
    BY <1>2, HierFields DEF Sound, BitsOk
  <2>2. CASE dce /\ s1.l1[b].v /\ s1.l1[b].d
    <3> DEFINE r == L2Invalidate(BusWriteLine(s1, b, s1.l1[b].b), b)
    <3>1. Good(s1, r) /\ r.l1 = s1.l1 /\ ~r.l2[b].v /\ Below(r, b) = s1.l1[b].b
      BY <1>2, <2>2, PushToMemory
    <3>2. s2 = [r EXCEPT !.l1[b].d = FALSE]
      BY <2>2
    <3> HIDE DEF r, s2
    <3>3. Sound(r, dce, l2e, wimg)
      BY <3>1 DEF Good
    <3>4. Good(r, s2) /\ ~s2.l1[b].d
      BY <3>1, <3>2, <3>3, MarkL1Clean
    <3> QED
      BY <3>1, <3>4, GoodTrans
  <2>3. CASE ~(dce /\ s1.l1[b].v /\ s1.l1[b].d)
    <3>1. s2 = s1
      BY <2>3
    <3>2. s1.l1[b].v => dce
      BY <1>2 DEF Sound, CellOk
    <3> QED
      BY <1>2, <2>1, <2>3, <3>1, <3>2, GoodSelf DEF BitsOk
  <2> QED
    BY <2>2, <2>3
<1> HIDE DEF s2
<1>4. Sound(s2, dce, l2e, wimg)
  BY <1>3 DEF Good
<1>5. /\ Good(s2, s3) /\ ~(s3.l1[b].v /\ s3.l1[b].d)
      /\ invalidate => ~s3.l1[b].v
  <2>1. CASE dce /\ s2.l1[b].v /\ invalidate
    BY <1>3, <1>4, <2>1, DropL1
  <2>2. CASE ~(dce /\ s2.l1[b].v /\ invalidate)
    <3>1. s3 = s2
      BY <2>2
    <3>2. s2.l1[b].v => dce
      BY <1>4 DEF Sound, CellOk
    <3>3. BitsOk(s2, b)
      BY <1>4, HierFields DEF Sound, BitsOk
    <3> QED
      BY <1>3, <1>4, <2>2, <3>1, <3>2, <3>3, GoodSelf DEF BitsOk
  <2> QED
    BY <2>1, <2>2
<1> HIDE DEF s3
<1>6. Sound(s3, dce, l2e, wimg)
  BY <1>5 DEF Good
<1>7. /\ Good(s3, s4) /\ s4.l1 = s3.l1 /\ ~(s4.l2[b].v /\ s4.l2[b].d)
  <2>1. CASE L2Find(s3, b) /\ s3.l2[b].d
    <3>1. s3.l2[b].v
      BY <2>1 DEF L2Find
    <3>2. s4 = [BusWriteLine(s3, b, s3.l2[b].b) EXCEPT !.l2[b].d = FALSE]
      BY <2>1
    <3> HIDE DEF s4
    <3> QED
      BY <1>5, <1>6, <3>1, <3>2, MarkL2Clean
  <2>2. CASE ~(L2Find(s3, b) /\ s3.l2[b].d)
    <3>1. s4 = s3
      BY <2>2
    <3>2. s3.l2[b].v => l2e
      BY <1>6 DEF Sound, CellOk
    <3>3. BitsOk(s3, b)
      BY <1>6, HierFields DEF Sound, BitsOk
    <3> QED
      BY <1>6, <2>2, <3>1, <3>2, <3>3, GoodSelf DEF BitsOk, L2Find
  <2> QED
    BY <2>1, <2>2
<1> HIDE DEF s4
<1>8. /\ Sound(s4, dce, l2e, wimg) /\ ~(s4.l1[b].v /\ s4.l1[b].d)
      /\ invalidate => ~s4.l1[b].v
  BY <1>5, <1>7 DEF Good
<1>9. /\ Good(s4, s5) /\ ~(s5.l1[b].v /\ s5.l1[b].d)
      /\ ~(s5.l2[b].v /\ s5.l2[b].d)
      /\ invalidate => ~s5.l1[b].v /\ ~s5.l2[b].v
  <2>1. CASE L2Find(s4, b) /\ invalidate
    <3>1. s5 = [s4 EXCEPT !.l2[b] = NoLine]
      BY <2>1
    <3> HIDE DEF s5
    <3>2. Good(s4, s5) /\ s5.l1 = s4.l1 /\ ~s5.l2[b].v
      BY <1>7, <1>8, <3>1, DropL2
    <3> QED
      BY <1>8, <3>2
  <2>2. CASE ~(L2Find(s4, b) /\ invalidate)
    <3>1. s5 = s4
      BY <2>2
    <3>2. s4.l2[b].v => l2e
      BY <1>8 DEF Sound, CellOk
    <3>3. BitsOk(s4, b)
      BY <1>8, HierFields DEF Sound, BitsOk
    <3> QED
      BY <1>7, <1>8, <2>2, <3>1, <3>2, <3>3, GoodSelf DEF BitsOk, L2Find
  <2> QED
    BY <2>1, <2>2
<1> HIDE DEF s5
<1>10. Good(s, s5)
  BY <1>2, <1>3, <1>5, <1>7, <1>9, GoodTrans
<1>11. s5.mem[b] = Value(s, b)
  <2>1. CellOk(s5, b, dce, l2e, wimg) /\ BitsOk(s5, b) /\ Value(s5, b) = Value(s, b)
    BY <1>10, HierFields DEF Good, Sound, BitsOk
  <2> QED
    BY <1>9, <2>1 DEF CellOk, BitsOk, Value, Below
<1>12. invalidate => s5.fl[b] = NoValue
  <2>1. Good(s1, s5)
    BY <1>3, <1>5, <1>7, <1>9, GoodTrans
  <2> QED
    BY <1>2, <2>1 DEF Good
<1> QED
  BY <1>1, <1>9, <1>10, <1>11, <1>12

\* A hardware flush loses nothing.
LEMMA FlushGood ==
  ASSUME NEW s, Sound(s, dce, l2e, wimg), NEW w \in BOOLEAN,
         w \/ \A a \in Blocks : ~s.l2[a].v
  PROVE  /\ Good(s, L2FlushAll(s, w))
         /\ \A a \in Blocks : ~L2FlushAll(s, w).l2[a].v
<1> DEFINE t == L2FlushAll(s, w)
<1>1. s \in Hier
  BY DEF Sound
<1>2. /\ t \in Hier /\ t.l1 = s.l1
      /\ \A a \in Blocks :
           /\ t.mem[a] = IF w /\ s.l2[a].v /\ s.l2[a].d
                         THEN s.l2[a].b ELSE s.mem[a]
           /\ t.l2[a] = NoLine /\ t.fl[a] = NoValue
  BY <1>1, L2FlushAllIs
<1> HIDE DEF t
<1>3. ASSUME NEW a \in Blocks
      PROVE  /\ CellOk(t, a, dce, l2e, wimg)
             /\ Value(t, a) = Value(s, a) /\ Aged(s, t, a)
  <2>1. CellOk(s, a, dce, l2e, wimg) /\ BitsOk(s, a)
    BY <1>1, HierFields DEF Sound, BitsOk
  <2>2. /\ t.l1[a] = s.l1[a] /\ ~t.l2[a].v /\ t.fl[a] = NoValue
        /\ t.mem[a] = IF s.l2[a].v /\ s.l2[a].d THEN s.l2[a].b ELSE s.mem[a]
    BY <1>2, <2>1, Lines DEF BitsOk
  <2> QED
    BY <2>1, <2>2 DEF CellOk, BitsOk, Value, Below, Aged
<1> QED
  BY <1>2, <1>3, Lines DEF Good, Sound, t

\* Nor does the L1's part of l1dFlushAll, when it writes back.
LEMMA ClearGood ==
  ASSUME NEW s, Sound(s, dce, l2e, wimg)
  PROVE  Good(s, L1dCleared(s, TRUE))
<1> DEFINE t == L1dCleared(s, TRUE)
<1>1. s \in Hier
  BY DEF Sound
<1>2. /\ t \in Hier
      /\ \A a \in Blocks :
           /\ t.mem[a] = IF TRUE /\ s.l1[a].v /\ s.l1[a].d
                         THEN s.l1[a].b ELSE s.mem[a]
           /\ t.l2[a] = IF s.l1[a].v /\ s.l1[a].d THEN NoLine ELSE s.l2[a]
           /\ t.l1[a] = NoLine /\ t.fl[a] = s.fl[a]
  BY <1>1, L1dClearedIs
<1> HIDE DEF t
<1>3. ASSUME NEW a \in Blocks
      PROVE  /\ CellOk(t, a, dce, l2e, wimg)
             /\ Value(t, a) = Value(s, a) /\ Aged(s, t, a)
  <2>1. CellOk(s, a, dce, l2e, wimg) /\ BitsOk(s, a)
    BY <1>1, HierFields DEF Sound, BitsOk
  <2> QED
    BY <1>2, <2>1, Lines DEF CellOk, BitsOk, Value, Below, Aged
<1> QED
  BY <1>2, <1>3 DEF Good, Sound, t
-----------------------------------------------------------------------------
(* Steps that write one block. *)

\* Block b now holds v, and every other block what it held.
Wrote(s, t, b, v) ==
  /\ Sound(t, dce, l2e, wimg)
  /\ Value(t, b) = v /\ \A a \in Blocks \ {b} : Value(t, a) = Value(s, a)
  /\ \A a \in Blocks : Aged(s, t, a)

LEMMA GoodWrote ==
  ASSUME NEW s, NEW t, NEW u, NEW b, NEW v, Good(s, t), Wrote(t, u, b, v)
  PROVE  Wrote(s, u, b, v)
BY DEF Good, Wrote, Aged

LEMMA OneWritten ==
  ASSUME NEW s, Sound(s, dce, l2e, wimg), NEW t \in Hier, NEW b \in Blocks,
         NEW v, \A a \in Blocks \ {b} : Same(s, t, a),
         CellOk(t, b, dce, l2e, wimg), Value(t, b) = v, Aged(s, t, b)
  PROVE  Wrote(s, t, b, v)
<1>1. ASSUME NEW a \in Blocks, a # b
      PROVE  /\ CellOk(t, a, dce, l2e, wimg)
             /\ Value(t, a) = Value(s, a) /\ Aged(s, t, a)
  BY <1>1, SameCell DEF Sound
<1> QED
  BY <1>1 DEF Wrote, Sound

\* Into a modified L1 line.
LEMMA PutModified ==
  ASSUME NEW s, Sound(s, dce, l2e, wimg), NEW b \in Blocks, NEW v \in Values,
         dce, wimg[b] # "inhibited", s.fl[b] = NoValue
  PROVE  Wrote(s, [s EXCEPT !.l1[b] = Held(v, TRUE)], b, v)
<1> DEFINE x == Held(v, TRUE)
           t == [s EXCEPT !.l1[b] = x]
<1>1. /\ s \in Hier /\ CellOk(s, b, dce, l2e, wimg)
  BY DEF Sound
<1>2. x \in Line /\ x.v = TRUE /\ x.d = TRUE /\ x.b = v
  BY Lines
<1> HIDE DEF x
<1>3. /\ t \in Hier /\ \A a \in Blocks \ {b} : Same(s, t, a)
      /\ t.mem = s.mem /\ t.l1[b] = x /\ t.l2 = s.l2 /\ t.fl = s.fl
  BY <1>1, <1>2, PutL1
<1> HIDE DEF t
<1>4. CellOk(t, b, dce, l2e, wimg) /\ Value(t, b) = v /\ Aged(s, t, b)
  BY <1>1, <1>2, <1>3 DEF CellOk, Value, Below, Aged
<1> QED
  BY <1>3, <1>4, OneWritten DEF t, x

\* Into memory, where no cache holds the block.
LEMMA PutUncached ==
  ASSUME NEW s, Sound(s, dce, l2e, wimg), NEW b \in Blocks, NEW v \in Values,
         ~s.l1[b].v, ~s.l2[b].v, s.fl[b] = NoValue
  PROVE  Wrote(s, [s EXCEPT !.mem[b] = v], b, v)
<1> DEFINE t == [s EXCEPT !.mem[b] = v]
<1>1. s \in Hier
  BY DEF Sound
<1>2. /\ t \in Hier /\ \A a \in Blocks \ {b} : Same(s, t, a)
      /\ t.mem[b] = v /\ t.l1 = s.l1 /\ t.l2 = s.l2 /\ t.fl = s.fl
  BY <1>1, PutMem
<1> HIDE DEF t
<1>3. CellOk(t, b, dce, l2e, wimg) /\ Value(t, b) = v /\ Aged(s, t, b)
  BY <1>2 DEF CellOk, Value, Below, Aged
<1> QED
  BY <1>2, <1>3, OneWritten DEF t

\* Through an L1 line, if there is one, to memory, with no L2 below.
LEMMA PutThrough ==
  ASSUME NEW s, Sound(s, dce, l2e, wimg), NEW b \in Blocks, NEW v \in Values,
         ~s.l2[b].v, s.fl[b] = NoValue,
         NEW x, x = (IF s.l1[b].v THEN [s.l1[b] EXCEPT !.b = v] ELSE s.l1[b]),
         NEW t, t = [s EXCEPT !.mem[b] = v, !.l1[b] = x]
  PROVE  Wrote(s, t, b, v)
<1>1. s \in Hier /\ s.l1[b] \in Line /\ CellOk(s, b, dce, l2e, wimg)
  BY HierFields DEF Sound
<1>2. x \in Line /\ x.v = s.l1[b].v /\ x.d = s.l1[b].d /\ (x.v => x.b = v)
  BY <1>1 DEF Line
<1>3. /\ t \in Hier /\ \A a \in Blocks \ {b} : Same(s, t, a)
      /\ t.mem[b] = v /\ t.l1[b] = x /\ t.l2 = s.l2 /\ t.fl = s.fl
  BY <1>1, <1>2 DEF Hier, Same
<1>4. CellOk(t, b, dce, l2e, wimg) /\ Value(t, b) = v /\ Aged(s, t, b)
  BY <1>1, <1>2, <1>3 DEF CellOk, Value, Below, Aged
<1> QED
  BY <1>3, <1>4, OneWritten
-----------------------------------------------------------------------------
(* The state's hierarchy, and the memory it stands for. *)

LEMMA Became ==
  ASSUME NEW t \in Hier, Become(t)
  PROVE  Now' = t
BY DEF Hier, Become, Now

LEMMA NewestIs ==
  ASSUME NEW a \in Blocks
  PROVE  Newest(a) = Value(Now, a) /\ Newest(a)' = Value(Now', a)
BY DEF Newest, Value, Below, Now

LEMMA NowFields ==
  /\ Now.mem = mem /\ Now.l1 = l1 /\ Now.l2 = l2 /\ Now.fl = fetchLine
  /\ Now'.mem = mem' /\ Now'.l1 = l1' /\ Now'.l2 = l2' /\ Now'.fl = fetchLine'
BY DEF Now

\* A sound hierarchy keeps the invariant where the modes stay.
LEMMA Keeps ==
  ASSUME CInv, Sound(Now', dce, l2e, wimg), UNCHANGED <<wimg, modes>>
  PROVE  CInv'
BY DEF CInv, modes

\* The four kinds of step the abstract memory knows, and the stutter.
LEMMA AgeIs ==
  ASSUME \A a \in Blocks : Aged(Now, Now', a)
  PROVE  OneMemory!Age
<1> SUFFICES ASSUME NEW a \in Blocks
             PROVE  Under(a)' \subseteq Under(a) \cup {Newest(a), Newest(a)'}
  BY DEF OneMemory!Age
<1> QED
  BY NewestIs, NowFields DEF Aged, Under

LEMMA ReadIs ==
  ASSUME NEW b \in Blocks, Good(Now, Now'),
         last' = <<"read", b, Value(Now, b)>>
  PROVE  OneMemory!Read(b)
BY AgeIs, NewestIs DEF Good, OneMemory!Read

LEMMA WriteIs ==
  ASSUME NEW b \in Blocks, NEW v \in Values, Wrote(Now, Now', b, v),
         last' = <<"write", b, v>>
  PROVE  OneMemory!Write(b, v)
BY AgeIs, NewestIs DEF Wrote, OneMemory!Write

LEMMA DiscardIs ==
  ASSUME NEW B \in SUBSET Blocks, Now' \in Hier,
         \A a \in Blocks \ B : Value(Now', a) = Value(Now, a),
         \A a \in B : Value(Now', a) = mem[a],
         \A a \in Blocks : Aged(Now, Now', a), last' = <<"discard", B>>
  PROVE  OneMemory!Discard(B)
<1>1. \A a \in Blocks : Newest(a)' \in Values
  BY NewestIs, HierFields
<1>2. \A a \in Blocks : IF a \in B THEN Newest(a)' \in Under(a)
                                    ELSE Newest(a)' = Newest(a)
  BY NewestIs DEF Under
<1> QED
  BY <1>1, <1>2, AgeIs DEF OneMemory!Discard

LEMMA KeepIs ==
  ASSUME Good(Now, Now'), last' = <<"none">>
  PROVE  OneMemory!Keep
BY AgeIs, NewestIs DEF Good, OneMemory!Keep, OneMemory!None

LEMMA StutterIs ==
  ASSUME UNCHANGED vars
  PROVE  UNCHANGED OneMemory!vars
BY DEF vars, cells, Newest, Under, OneMemory!vars
-----------------------------------------------------------------------------
(* One lemma for each action. *)

\* A block that no access may cache has no copy.
LEMMA NotCached ==
  ASSUME CInv, NEW b \in Blocks, ~Cacheable(b)
  PROVE  ~l1[b].v /\ ~l2[b].v /\ Value(Now, b) = mem[b]
<1>1. CellOk(Now, b, dce, l2e, wimg) /\ BitsOk(Now, b)
  BY HierFields DEF CInv, Sound, BitsOk
<1>2. ~Now.l1[b].v /\ ~Now.l2[b].v
  BY <1>1 DEF Cacheable, CellOk, BitsOk, CInv
<1> QED
  BY <1>2, NowFields DEF Value, Below

LEMMA LoadStep ==
  ASSUME CInv, NEW b \in Blocks, Load(b), UNCHANGED wimg
  PROVE  CInv' /\ OneMemory!Read(b)
<1>1. Sound(Now, dce, l2e, wimg) /\ Now \in Hier /\ Value(Now, b) \in Values
  BY HierFields DEF CInv, Sound
<1>2. Good(Now, Now') /\ last' = <<"read", b, Value(Now, b)>>
  <2>1. CASE Cacheable(b)
    <3>1. PICK t \in Allocate(Now, b) : Become(t) /\ last' = <<"read", b, t.l1[b].b>>
      BY <2>1 DEF Load
    <3>2. Good(Now, t) /\ t.l1[b].v
      BY <1>1, <2>1, AllocateGood DEF Cacheable
    <3>3. Now' = t
      BY <3>1, <3>2, Became DEF Good, Sound
    <3>4. t.l1[b].b = Value(Now, b)
      BY <3>2 DEF Good, Value
    <3> QED
      BY <3>1, <3>2, <3>3, <3>4
  <2>2. CASE ~Cacheable(b)
    <3>1. Now' = Now /\ last' = <<"read", b, mem[b]>>
      BY <2>2 DEF Load, cells, Now
    <3> QED
      BY <1>1, <2>2, <3>1, NotCached, GoodSelf
  <2> QED
    BY <2>1, <2>2
<1>3. UNCHANGED modes
  BY DEF Load
<1> QED
  BY <1>1, <1>2, <1>3, Keeps, ReadIs DEF Good

LEMMA StoreStep ==
  ASSUME CInv, NEW b \in Blocks, NEW v \in Values, Store(b, v), UNCHANGED wimg
  PROVE  CInv' /\ OneMemory!Write(b, v)
<1> DEFINE s == FetchDropAt(Now, b)
<1>1. Sound(Now, dce, l2e, wimg) /\ Now \in Hier
  BY DEF CInv, Sound
<1>2. /\ Good(Now, s) /\ Sound(s, dce, l2e, wimg) /\ s.fl[b] = NoValue
      /\ s.mem = mem /\ s.l1 = l1 /\ s.l2 = l2
  BY <1>1, FetchDropAtGood, FetchDropAtIs, NowFields DEF Good
<1>3. UNCHANGED modes /\ last' = <<"write", b, v>>
  BY DEF Store
<1>4. \E t : Become(t) /\ Wrote(s, t, b, v)
  <2>1. CASE ~Cacheable(b)
    <3>1. Become([s EXCEPT !.mem[b] = v])
      BY <2>1 DEF Store
    <3> HIDE DEF s
    <3>2. Wrote(s, [s EXCEPT !.mem[b] = v], b, v)
      BY <1>2, <2>1, NotCached, PutUncached
    <3> QED
      BY <3>1, <3>2
  <2>2. CASE Cacheable(b) /\ wimg[b] = "through"
    <3> DEFINE x == IF s.l1[b].v THEN [s.l1[b] EXCEPT !.b = v] ELSE s.l1[b]
    <3>1. Become([s EXCEPT !.mem[b] = v, !.l1[b] = x])
      BY <1>2, <2>2 DEF Store
    <3>2. ~s.l2[b].v
      <4>1. ~l2e
        BY <2>2 DEF CInv
      <4> QED
        BY <1>2, <4>1 DEF Sound, CellOk
    <3> HIDE DEF s
    <3>3. Wrote(s, [s EXCEPT !.mem[b] = v, !.l1[b] = x], b, v)
      BY <1>2, <3>2, PutThrough
    <3> QED
      BY <3>1, <3>3
  <2>3. CASE Cacheable(b) /\ wimg[b] # "through"
    <3>1. PICK t \in Allocate(s, b) : Become([t EXCEPT !.l1[b] = Held(v, TRUE)])
      BY <2>3 DEF Store
    <3> HIDE DEF s
    <3>2. Good(s, t) /\ t.fl[b] = NoValue /\ Sound(t, dce, l2e, wimg)
      BY <1>2, <2>3, AllocateGood DEF Cacheable, Good
    <3>3. Wrote(t, [t EXCEPT !.l1[b] = Held(v, TRUE)], b, v)
      BY <2>3, <3>2, PutModified DEF Cacheable
    <3> QED
      BY <3>1, <3>2, <3>3, GoodWrote
  <2> QED
    BY <2>1, <2>2, <2>3
<1> HIDE DEF s
<1>5. PICK t : Become(t) /\ Wrote(s, t, b, v)
  BY <1>4
<1>6. Now' = t
  BY <1>5, Became DEF Wrote, Sound
<1>7. Wrote(Now, Now', b, v)
  BY <1>2, <1>5, <1>6, GoodWrote
<1> QED
  BY <1>3, <1>7, Keeps, WriteIs DEF Wrote, CInv

LEMMA DcbzStep ==
  ASSUME CInv, NEW b \in Blocks, Dcbz(b), UNCHANGED wimg
  PROVE  CInv' /\ OneMemory!Write(b, Zero)
<1> DEFINE s == FetchDropAt(Now, b)
<1>1. Sound(Now, dce, l2e, wimg) /\ Now \in Hier /\ Zero \in Values
  BY Lines DEF CInv, Sound
<1>2. Good(Now, s) /\ Sound(s, dce, l2e, wimg) /\ s.fl[b] = NoValue
  BY <1>1, FetchDropAtGood, FetchDropAtIs DEF Good
<1>3. dce /\ wimg[b] # "inhibited" /\ UNCHANGED modes /\ last' = <<"write", b, Zero>>
  BY DEF Dcbz
<1>4. PICK t \in IF s.l1[b].v THEN {s} ELSE LineVictim(s) :
        Become([t EXCEPT !.l1[b] = Held(Zero, TRUE)])
  BY DEF Dcbz
<1> HIDE DEF s
<1>5. Good(s, t)
  <2>1. CASE s.l1[b].v
    BY <1>2, <1>4, <2>1, GoodSelf
  <2>2. CASE ~s.l1[b].v
    BY <1>2, <1>4, <2>2, VictimGood
  <2> QED
    BY <2>1, <2>2
<1>6. Sound(t, dce, l2e, wimg) /\ t.fl[b] = NoValue
  BY <1>2, <1>5 DEF Good
<1> DEFINE u == [t EXCEPT !.l1[b] = Held(Zero, TRUE)]
<1>7. Wrote(t, u, b, Zero)
  BY <1>1, <1>3, <1>6, PutModified
<1>8. Become(u)
  BY <1>4
<1> HIDE DEF u
<1>9. Now' = u
  BY <1>7, <1>8, Became DEF Wrote, Sound
<1>10. Wrote(Now, Now', b, Zero)
  BY <1>2, <1>5, <1>7, <1>9, GoodWrote
<1> QED
  BY <1>1, <1>3, <1>10, Keeps, WriteIs DEF Wrote, CInv

LEMMA DcbCleanStep ==
  ASSUME CInv, NEW b \in Blocks, NEW i \in BOOLEAN, DcbClean(b, i),
         UNCHANGED wimg
  PROVE  CInv' /\ OneMemory!Keep
<1> DEFINE s == FetchDropAt(Now, b)
<1>1. Sound(Now, dce, l2e, wimg) /\ Now \in Hier
  BY DEF CInv, Sound
<1>2. Good(Now, s) /\ Sound(s, dce, l2e, wimg)
  BY <1>1, FetchDropAtGood DEF Good
<1>3. UNCHANGED modes /\ last' = <<"none">>
  BY DEF DcbClean
<1>4. PICK t \in IF s.l1[b].v /\ s.l1[b].d THEN LinePush(s, b) ELSE {s} :
        Become(IF i THEN [t EXCEPT !.l1[b] = NoLine] ELSE t)
  BY DEF DcbClean
<1> HIDE DEF s
<1>5. Good(s, t) /\ ~(t.l1[b].v /\ t.l1[b].d)
  <2>1. BitsOk(s, b)
    BY <1>2, HierFields DEF Sound, BitsOk
  <2>2. CASE s.l1[b].v /\ s.l1[b].d
    BY <1>2, <1>4, <2>2, LinePushGood
  <2>3. CASE ~(s.l1[b].v /\ s.l1[b].d)
    BY <1>2, <1>4, <2>1, <2>3, GoodSelf DEF BitsOk
  <2> QED
    BY <2>2, <2>3
<1>6. Sound(t, dce, l2e, wimg)
  BY <1>5 DEF Good
<1>7. PICK u : Become(u) /\ Good(t, u)
  <2>1. CASE i
    <3>1. Become([t EXCEPT !.l1[b] = NoLine])
      BY <1>4, <2>1
    <3>2. Good(t, [t EXCEPT !.l1[b] = NoLine])
      BY <1>5, <1>6, DropL1
    <3> QED
      BY <3>1, <3>2
  <2>2. CASE ~i
    BY <1>4, <1>6, <2>2, GoodSelf
  <2> QED
    BY <2>1, <2>2
<1>8. Now' = u
  BY <1>7, Became DEF Good, Sound
<1>9. Good(Now, Now')
  BY <1>2, <1>5, <1>7, <1>8, GoodTrans
<1> QED
  BY <1>3, <1>9, Keeps, KeepIs DEF Good, CInv

LEMMA DcbKillStep ==
  ASSUME CInv, NEW b \in Blocks, DcbKill(b), UNCHANGED wimg
  PROVE  CInv' /\ OneMemory!Discard({b})
<1> DEFINE s == [Now EXCEPT !.l1[b] = NoLine]
           t == L2Invalidate(s, b)
<1>1. Sound(Now, dce, l2e, wimg) /\ Now \in Hier
  BY DEF CInv, Sound
<1>2. /\ s \in Hier /\ \A a \in Blocks \ {b} : Same(Now, s, a)
      /\ s.l1[b] = NoLine /\ s.mem = mem /\ s.l2 = l2
  BY <1>1, PutL1, Lines, NowFields
<1>3. Become(t) /\ UNCHANGED modes /\ last' = <<"discard", {b}>>
  BY DEF DcbKill
<1> HIDE DEF s
<1>4. /\ t \in Hier /\ \A a \in Blocks \ {b} : Same(s, t, a)
      /\ t.mem = s.mem /\ t.l1 = s.l1 /\ t.l2[b] = NoLine
      /\ t.fl[b] = NoValue
  BY <1>2, L2InvalidateIs
<1> HIDE DEF t
<1>5. Now' = t
  BY <1>3, <1>4, Became
<1>6. \A a \in Blocks \ {b} : Same(Now, t, a)
  BY <1>2, <1>4 DEF Same
<1>7. /\ CellOk(t, b, dce, l2e, wimg) /\ Value(t, b) = mem[b]
      /\ Aged(Now, t, b)
  BY <1>2, <1>4, Lines, NowFields DEF CellOk, Value, Below, Aged
<1>8. Wrote(Now, t, b, Value(t, b))
  BY <1>1, <1>4, <1>6, <1>7, OneWritten
<1>9. /\ Sound(Now', dce, l2e, wimg)
      /\ \A a \in Blocks \ {b} : Value(Now', a) = Value(Now, a)
      /\ \A a \in Blocks : Aged(Now, Now', a)
  BY <1>5, <1>8 DEF Wrote
<1>10. CInv'
  BY <1>3, <1>9, Keeps DEF CInv
<1>11. {b} \in SUBSET Blocks /\ Now' \in Hier
  BY <1>4, <1>5
<1> QED
  BY <1>3, <1>5, <1>7, <1>9, <1>10, <1>11, DiscardIs

\* A fetch that finds no line reads the block's value.
LEMMA LongPathIs ==
  ASSUME CInv, NEW b \in Blocks
  PROVE  LongPath(b) = Value(Now, b)
<1>1. CellOk(Now, b, dce, l2e, wimg) /\ BitsOk(Now, b)
  BY HierFields DEF CInv, Sound, BitsOk
<1> QED
  BY <1>1, NowFields DEF CInv, LongPath, L2Find, CellOk, BitsOk, Value, Below

LEMMA FetchStep ==
  ASSUME CInv, NEW b \in Blocks, Fetch(b), UNCHANGED wimg
  PROVE  CInv' /\ OneMemory!Read(b)
<1> DEFINE x == IF fetchLine[b] # NoValue THEN fetchLine[b] ELSE LongPath(b)
<1>1. Sound(Now, dce, l2e, wimg) /\ Now \in Hier /\ Value(Now, b) \in Values
  BY HierFields DEF CInv, Sound
<1>2. x = Value(Now, b)
  BY <1>1, LongPathIs, NowFields DEF Sound, CellOk
<1>3. /\ last' = <<"read", b, x>> /\ UNCHANGED <<mem, l1, l2, modes>>
      /\ fetchLine' = [a \in Blocks |->
                         IF a = b THEN x
                         ELSE IF FetchSlot[a] = FetchSlot[b] THEN NoValue
                         ELSE fetchLine[a]]
  BY DEF Fetch
<1> HIDE DEF x
<1>4. fetchLine' \in [Blocks -> Values \cup {NoValue}]
  <2>1. \A a \in Blocks : fetchLine[a] \in Values \cup {NoValue}
    BY <1>1, NowFields DEF Hier
  <2> QED
    BY <1>1, <1>2, <1>3, <2>1
<1>5. Now' \in Hier
  BY <1>1, <1>3, <1>4 DEF Hier, Now
<1>6. ASSUME NEW a \in Blocks
      PROVE  /\ CellOk(Now', a, dce, l2e, wimg) /\ Value(Now', a) = Value(Now, a)
             /\ Aged(Now, Now', a)
  <2>1. /\ Now'.mem = Now.mem /\ Now'.l1 = Now.l1 /\ Now'.l2 = Now.l2
    BY <1>3, NowFields
  <2>2. Value(Now', a) = Value(Now, a) /\ Below(Now', a) = Below(Now, a)
    BY <2>1 DEF Value, Below
  <2>3. CellOk(Now, a, dce, l2e, wimg)
    BY <1>1 DEF Sound
  <2>4. Now'.fl[a] # NoValue => Now'.fl[a] = Value(Now, a)
    <3>1. Now'.fl[a] = IF a = b THEN x
                       ELSE IF FetchSlot[a] = FetchSlot[b] THEN NoValue
                       ELSE Now.fl[a]
      BY <1>3, NowFields
    <3> QED
      BY <1>2, <2>3, <3>1 DEF CellOk
  <2>5. Aged(Now, Now', a)
    BY <2>1 DEF Aged
  <2> QED
    BY <2>1, <2>2, <2>3, <2>4, <2>5 DEF CellOk
<1>7. Sound(Now', dce, l2e, wimg)
  BY <1>5, <1>6 DEF Sound
<1>8. OneMemory!Read(b)
  <2>1. \A a \in Blocks : Newest(a)' = Newest(a)
    BY <1>6, NewestIs
  <2> QED
    BY <1>2, <1>3, <1>6, <2>1, AgeIs, NewestIs DEF OneMemory!Read
<1> QED
  BY <1>3, <1>7, <1>8, Keeps

LEMMA IcbiStep ==
  ASSUME CInv, Icbi, UNCHANGED wimg
  PROVE  CInv' /\ OneMemory!Keep
<1> DEFINE t == FetchDrop(Now)
<1>1. Sound(Now, dce, l2e, wimg) /\ Now \in Hier
  BY DEF CInv, Sound
<1>2. /\ t \in Hier /\ t.mem = Now.mem /\ t.l1 = Now.l1 /\ t.l2 = Now.l2
      /\ t.fl = [b \in Blocks |-> NoValue]
  BY <1>1 DEF FetchDrop, Hier
<1>3. Become(t) /\ UNCHANGED modes /\ last' = <<"none">>
  BY DEF Icbi
<1> HIDE DEF t
<1>4. Now' = t
  BY <1>2, <1>3, Became
<1>5. ASSUME NEW a \in Blocks
      PROVE  /\ CellOk(t, a, dce, l2e, wimg) /\ Value(t, a) = Value(Now, a)
             /\ t.fl[a] = NoValue /\ Aged(Now, t, a)
  <2>1. CellOk(Now, a, dce, l2e, wimg) /\ t.fl[a] = NoValue
    BY <1>1, <1>2 DEF Sound
  <2> QED
    BY <1>2, <2>1 DEF CellOk, Value, Below, Aged
<1>6. Good(Now, Now')
  BY <1>2, <1>4, <1>5 DEF Good, Sound
<1> QED
  BY <1>3, <1>6, Keeps, KeepIs DEF Good, CInv

LEMMA DmaReadStep ==
  ASSUME CInv, NEW b \in Blocks, DmaRead(b), UNCHANGED wimg
  PROVE  CInv' /\ OneMemory!Read(b)
<1> DEFINE t == SnoopPush(Now, b, FALSE)
<1>1. /\ Sound(Now, dce, l2e, wimg) /\ Value(Now, b) \in Values
      /\ FALSE \in BOOLEAN
  BY HierFields DEF CInv, Sound
<1>2. Become(t) /\ last' = <<"read", b, t.mem[b]>> /\ UNCHANGED modes
  BY DEF DmaRead
<1>3. Good(Now, t) /\ t.mem[b] = Value(Now, b)
  BY <1>1, SnoopGood, Zenon
<1> HIDE DEF t
<1>4. Now' = t
  BY <1>2, <1>3, Became DEF Good, Sound
<1> QED
  BY <1>1, <1>2, <1>3, <1>4, Keeps, ReadIs DEF Good

LEMMA DmaWriteStep ==
  ASSUME CInv, NEW b \in Blocks, NEW v \in Values, DmaWrite(b, v),
         UNCHANGED wimg
  PROVE  CInv' /\ OneMemory!Write(b, v)
<1> DEFINE t == SnoopPush(Now, b, TRUE)
           u == [t EXCEPT !.mem[b] = v]
<1>1. Sound(Now, dce, l2e, wimg) /\ TRUE \in BOOLEAN
  BY DEF CInv
<1>2. Become(u) /\ UNCHANGED modes /\ last' = <<"write", b, v>>
  BY DEF DmaWrite
<1>3. Good(Now, t) /\ ~t.l1[b].v /\ ~t.l2[b].v /\ t.fl[b] = NoValue
  BY <1>1, SnoopGood, Zenon
<1> HIDE DEF t
<1>4. Wrote(t, u, b, v)
  BY <1>3, PutUncached DEF Good
<1> HIDE DEF u
<1>5. Now' = u
  BY <1>2, <1>4, Became DEF Wrote, Sound
<1>6. Wrote(Now, Now', b, v)
  BY <1>3, <1>4, <1>5, GoodWrote
<1> QED
  BY <1>2, <1>6, Keeps, WriteIs DEF Wrote, CInv

\* Where no cache holds a block its copies say nothing wrong, whatever is
\* switched on.
LEMMA EmptyOk ==
  ASSUME NEW t, NEW a \in Blocks, ~t.l1[a].v, ~t.l2[a].v,
         t.fl[a] # NoValue => t.fl[a] = Value(t, a), NEW d, NEW e, NEW w
  PROVE  CellOk(t, a, d, e, w)
BY DEF CellOk

\* DCFI leaves memory alone.
LEMMA FlashIs ==
  ASSUME NEW s \in Hier
  PROVE  LET t == L1dFlushAll(s, FALSE)
         IN  /\ t \in Hier
             /\ \A a \in Blocks : /\ t.mem[a] = s.mem[a] /\ t.fl[a] = NoValue
                                  /\ ~t.l1[a].v /\ ~t.l2[a].v
<1> DEFINE r == L1dCleared(s, FALSE)
           t == L2FlushAll(r, FALSE)
<1>1. FALSE \in BOOLEAN
  OBVIOUS
<1>2. /\ L1dFlushAll(s, FALSE) = t /\ r \in Hier
      /\ \A a \in Blocks : r.l1[a] = NoLine /\ r.mem[a] = s.mem[a]
  <2>1. \A a \in Blocks : r.mem[a] = IF FALSE /\ s.l1[a].v /\ s.l1[a].d
                                     THEN s.l1[a].b ELSE s.mem[a]
    BY <1>1, L1dClearedIs, Zenon
  <2> QED
    BY <1>1, <2>1, L1dClearedIs, Zenon
<1> HIDE DEF r
<1>3. /\ t \in Hier /\ t.l1 = r.l1
      /\ \A a \in Blocks : t.l2[a] = NoLine /\ t.fl[a] = NoValue
      /\ \A a \in Blocks : t.mem[a] = IF FALSE /\ r.l2[a].v /\ r.l2[a].d
                                       THEN r.l2[a].b ELSE r.mem[a]
  BY <1>1, <1>2, L2FlushAllIs, Zenon
<1> HIDE DEF t
<1> QED
  BY <1>2, <1>3, Lines

LEMMA MtHid0Step ==
  ASSUME Disciplined, CInv, NEW on \in BOOLEAN, NEW dcfi \in BOOLEAN,
         MtHid0(on, dcfi), UNCHANGED wimg
  PROVE  CInv' /\ (OneMemory!Discard(Blocks) \/ OneMemory!Keep)
<1>1. Sound(Now, dce, l2e, wimg) /\ Now \in Hier
  BY DEF CInv, Sound
<1>2. /\ on # dce => Resident(l1) \cup Resident(l2) = {}
      /\ dce' = on /\ UNCHANGED <<l2e, wimg>>
      /\ last' = IF dcfi THEN <<"discard", Blocks>> ELSE <<"none">>
  BY DEF MtHid0
<1>3. CASE dcfi
  <2> DEFINE t == L1dFlushAll(Now, FALSE)
  <2>1. Become(t)
    BY <1>3 DEF MtHid0
  <2>2. /\ t \in Hier
        /\ \A a \in Blocks : /\ t.mem[a] = mem[a] /\ t.fl[a] = NoValue
                             /\ ~t.l1[a].v /\ ~t.l2[a].v
    BY <1>1, FlashIs, NowFields
  <2> HIDE DEF t
  <2>3. Now' = t
    BY <2>1, <2>2, Became
  <2>4. Sound(Now', on, l2e, wimg)
    BY <2>2, <2>3, EmptyOk DEF Sound
  <2>5. \A a \in Blocks : Value(Now', a) = mem[a] /\ Aged(Now, Now', a)
    BY <2>2, <2>3, NowFields DEF Value, Below, Aged
  <2>6. OneMemory!Discard(Blocks)
    BY <1>2, <1>3, <2>2, <2>3, <2>5, DiscardIs
  <2> QED
    BY <1>2, <2>4, <2>6 DEF CInv
<1>4. CASE ~dcfi
  <2>1. Become(Now)
    BY <1>4 DEF MtHid0
  <2>2. Now' = Now
    BY <1>1, <2>1, Became
  <2>3. Sound(Now', on, l2e, wimg)
    <3>1. CASE on = dce
      BY <1>1, <2>2, <3>1
    <3>2. CASE on # dce
      <4>1. \A a \in Blocks : ~l1[a].v /\ ~l2[a].v
        BY <1>2, <3>2 DEF Resident
      <4>2. ASSUME NEW a \in Blocks
            PROVE  CellOk(Now, a, on, l2e, wimg)
        <5>1. ~Now.l1[a].v /\ ~Now.l2[a].v
          BY <4>1, NowFields
        <5>2. Now.fl[a] # NoValue => Now.fl[a] = Value(Now, a)
          BY <1>1 DEF Sound, CellOk
        <5> QED
          BY <5>1, <5>2, EmptyOk
      <4> QED
        BY <1>1, <2>2, <4>2 DEF Sound
    <3> QED
      BY <3>1, <3>2
  <2>4. Good(Now, Now')
    BY <1>1, <2>2, GoodSelf
  <2> QED
    BY <1>2, <1>4, <2>3, <2>4, KeepIs DEF CInv
<1> QED
  BY <1>3, <1>4

\* The array after an L2CR write.
LEMMA L2crGood ==
  ASSUME NEW s, Sound(s, dce, l2e, wimg), NEW hwf \in BOOLEAN,
         NEW inv \in BOOLEAN, NEW resize \in BOOLEAN,
         inv => hwf \/ \A a \in Blocks : ~s.l2[a].v
  PROVE  LET t == L2AfterL2cr(s, hwf, inv, resize)
         IN  /\ Good(s, t)
             /\ hwf \/ (\A a \in Blocks : ~s.l2[a].v)
                  => \A a \in Blocks : ~t.l2[a].v
<1> DEFINE t == IF hwf THEN L2FlushAll(s, TRUE) ELSE s
           u == IF inv THEN L2FlushAll(t, FALSE) ELSE t
           z == IF resize THEN L2FlushAll(u, TRUE) ELSE u
           none(q) == \A a \in Blocks : ~q.l2[a].v
<1>1. L2AfterL2cr(s, hwf, inv, resize) = z
  BY DEF L2AfterL2cr
<1>2. TRUE \in BOOLEAN /\ FALSE \in BOOLEAN
  OBVIOUS
<1>3. Good(s, t) /\ (hwf \/ none(s) => none(t))
  <2>1. CASE hwf
    <3>1. Good(s, L2FlushAll(s, TRUE)) /\ none(L2FlushAll(s, TRUE))
      BY <1>2, FlushGood, Zenon
    <3> QED
      BY <2>1, <3>1
  <2>2. CASE ~hwf
    BY <2>2, GoodSelf
  <2> QED
    BY <2>1, <2>2
<1>4. Sound(t, dce, l2e, wimg) /\ (inv => none(t))
  BY <1>3 DEF Good
<1> HIDE DEF t
<1>5. Good(t, u) /\ (none(t) => none(u))
  <2>1. CASE inv
    <3>1. Good(t, L2FlushAll(t, FALSE)) /\ none(L2FlushAll(t, FALSE))
      BY <1>2, <1>4, <2>1, FlushGood, Zenon
    <3> QED
      BY <2>1, <3>1
  <2>2. CASE ~inv
    BY <1>4, <2>2, GoodSelf
  <2> QED
    BY <2>1, <2>2
<1>6. Sound(u, dce, l2e, wimg)
  BY <1>5 DEF Good
<1> HIDE DEF u
<1>7. Good(u, z) /\ (none(u) => none(z))
  <2>1. CASE resize
    <3>1. Good(u, L2FlushAll(u, TRUE)) /\ none(L2FlushAll(u, TRUE))
      BY <1>2, <1>6, FlushGood, Zenon
    <3> QED
      BY <2>1, <3>1
  <2>2. CASE ~resize
    BY <1>6, <2>2, GoodSelf
  <2> QED
    BY <2>1, <2>2
<1> HIDE DEF z
<1>8. Good(s, z)
  BY <1>3, <1>5, <1>7, GoodTrans
<1> QED
  BY <1>1, <1>3, <1>5, <1>7, <1>8

LEMMA MtL2crStep ==
  ASSUME Disciplined, CInv, NEW on \in BOOLEAN, NEW ts \in BOOLEAN,
         NEW hwf \in BOOLEAN, NEW inv \in BOOLEAN, NEW resize \in BOOLEAN,
         MtL2cr(on, ts, hwf, inv, resize), UNCHANGED wimg
  PROVE  CInv' /\ OneMemory!Keep
<1> DEFINE t == L2AfterL2cr(Now, hwf, inv, resize)
<1>1. Sound(Now, dce, l2e, wimg) /\ Now \in Hier
  BY DEF CInv, Sound
<1>2. /\ inv \/ on # l2e => hwf \/ Resident(l2) = {}
      /\ on => \A b \in Blocks : wimg[b] # "through"
      /\ l2e' = on /\ UNCHANGED <<dce, wimg>> /\ Become(t)
      /\ last' = <<"none">>
  BY DEF MtL2cr
<1>3. Resident(l2) = {} => \A a \in Blocks : ~Now.l2[a].v
  BY NowFields DEF Resident
<1>4. /\ Good(Now, t)
      /\ on # l2e => \A a \in Blocks : ~t.l2[a].v
  BY <1>1, <1>2, <1>3, L2crGood
<1> HIDE DEF t
<1>5. Now' = t
  BY <1>2, <1>4, Became DEF Good, Sound
<1>6. Sound(t, dce, on, wimg)
  <2>1. CASE on = l2e
    BY <1>4, <2>1 DEF Good
  <2>2. CASE on # l2e
    <3>1. ASSUME NEW a \in Blocks
          PROVE  CellOk(t, a, dce, on, wimg)
      <4>1. CellOk(t, a, dce, l2e, wimg) /\ ~t.l2[a].v
        BY <1>4, <2>2 DEF Good, Sound
      <4> QED
        BY <4>1 DEF CellOk
    <3> QED
      BY <1>4, <3>1 DEF Good, Sound
  <2> QED
    BY <2>1, <2>2
<1>7. OneMemory!Keep
  BY <1>2, <1>4, <1>5, KeepIs
<1> QED
  BY <1>2, <1>5, <1>6, <1>7 DEF CInv

LEMMA HarnessFlushStep ==
  ASSUME CInv, HarnessFlush, UNCHANGED wimg
  PROVE  CInv' /\ OneMemory!Keep
<1> DEFINE r == L1dCleared(Now, TRUE)
           t == L2FlushAll(r, TRUE)
           u == L2FlushAll(t, TRUE)
<1>1. Sound(Now, dce, l2e, wimg) /\ Now \in Hier /\ TRUE \in BOOLEAN
  BY DEF CInv, Sound
<1>2. L1dFlushAll(Now, TRUE) = t
  BY <1>1, L1dClearedIs, Zenon
<1>3. Become(u) /\ UNCHANGED modes /\ last' = <<"none">>
  BY <1>2 DEF HarnessFlush
<1>4. Good(Now, r) /\ Sound(r, dce, l2e, wimg)
  BY <1>1, ClearGood DEF Good
<1> HIDE DEF r
<1>5. Good(r, t)
  BY <1>1, <1>4, FlushGood, Zenon
<1>6. Sound(t, dce, l2e, wimg)
  BY <1>5 DEF Good
<1> HIDE DEF t
<1>7. Good(t, u)
  BY <1>1, <1>6, FlushGood, Zenon
<1> HIDE DEF u
<1>8. Now' = u
  BY <1>3, <1>7, Became DEF Good, Sound
<1>9. Good(Now, Now')
  BY <1>4, <1>5, <1>7, <1>8, GoodTrans
<1> QED
  BY <1>3, <1>9, Keeps, KeepIs DEF Good, CInv
-----------------------------------------------------------------------------
(* The theorems. *)

LEMMA InitSound ==
  ASSUME Init
  PROVE  CInv /\ OneMemory!Init
<1>1. /\ Now.mem \in [Blocks -> Values] /\ Now \in Hier
      /\ \A a \in Blocks : ~Now.l1[a].v /\ ~Now.l2[a].v /\ Now.fl[a] = NoValue
  BY Lines DEF Init, Now, Hier
<1>2. Sound(Now, dce, l2e, wimg)
  BY <1>1, EmptyOk DEF Sound
<1>3. [b \in Blocks |-> Newest(b)] \in [Blocks -> Values]
  BY <1>1, NewestIs, HierFields
<1>4. \A b \in Blocks : Under(b) = {Newest(b)}
  BY <1>1, NowFields DEF Newest, Under
<1> QED
  BY <1>2, <1>3, <1>4 DEF CInv, Init, OneMemory!Init, OneMemory!None

LEMMA NextSound ==
  ASSUME Disciplined, CInv, [Next]_vars
  PROVE  CInv' /\ [OneMemory!Next]_(OneMemory!vars)
<1>1. CASE UNCHANGED vars
  <2>1. Now' = Now /\ UNCHANGED <<wimg, dce, l2e>>
    BY <1>1 DEF vars, cells, modes, Now
  <2> QED
    BY <1>1, <2>1, StutterIs DEF CInv
<1>2. CASE Next
  <2>1. UNCHANGED wimg /\ Step
    BY <1>2 DEF Next
  <2>2. CASE \E b \in Blocks : Load(b)
    BY <2>1, <2>2, LoadStep DEF OneMemory!Next
  <2>3. CASE \E b \in Blocks, v \in Values : Store(b, v)
    BY <2>1, <2>3, StoreStep DEF OneMemory!Next
  <2>4. CASE \E b \in Blocks : Dcbz(b)
    BY <2>1, <2>4, DcbzStep, Lines DEF OneMemory!Next
  <2>5. CASE \E b \in Blocks, i \in BOOLEAN : DcbClean(b, i)
    BY <2>1, <2>5, DcbCleanStep DEF OneMemory!Next
  <2>6. CASE \E b \in Blocks : DcbKill(b)
    BY <2>1, <2>6, DcbKillStep DEF OneMemory!Next
  <2>7. CASE \E b \in Blocks : Fetch(b)
    BY <2>1, <2>7, FetchStep DEF OneMemory!Next
  <2>8. CASE Icbi
    BY <2>1, <2>8, IcbiStep DEF OneMemory!Next
  <2>9. CASE \E b \in Blocks : DmaRead(b)
    BY <2>1, <2>9, DmaReadStep DEF OneMemory!Next
  <2>10. CASE \E b \in Blocks, v \in Values : DmaWrite(b, v)
    BY <2>1, <2>10, DmaWriteStep DEF OneMemory!Next
  <2>11. CASE \E on, dcfi \in BOOLEAN : MtHid0(on, dcfi)
    BY <2>1, <2>11, MtHid0Step DEF OneMemory!Next
  <2>12. CASE \E on, ts, hwf, inv, resize \in BOOLEAN :
                MtL2cr(on, ts, hwf, inv, resize)
    BY <2>1, <2>12, MtL2crStep DEF OneMemory!Next
  <2>13. CASE HarnessFlush
    BY <2>1, <2>13, HarnessFlushStep DEF OneMemory!Next
  <2> QED
    BY <2>1, <2>2, <2>3, <2>4, <2>5, <2>6, <2>7, <2>8, <2>9, <2>10, <2>11,
       <2>12, <2>13 DEF Step
<1> QED
  BY <1>1, <1>2

\* Losing a copy that is not marked modified loses nothing, whatever the
\* processor, the fetch path and the bus masters do (cache.cpp).
THEOREM CleanCopiesAlwaysAgree ==
  ASSUME Disciplined
  PROVE  Spec => []CleanCopiesAgree
<1>1. CInv => CleanCopiesAgree
  <2> SUFFICES ASSUME CInv, NEW b \in Blocks, ~(l1[b].v /\ l1[b].d)
               PROVE  /\ l2[b].v => l2[b].b = Newest(b)
                      /\ ~(l2[b].v /\ l2[b].d) => mem[b] = Newest(b)
    BY DEF CleanCopiesAgree
  <2>1. CellOk(Now, b, dce, l2e, wimg) /\ BitsOk(Now, b)
    BY HierFields DEF CInv, Sound, BitsOk
  <2> QED
    BY <2>1, NowFields DEF CellOk, BitsOk, Below, Newest
<1> QED
  BY <1>1, InitSound, NextSound, PTL DEF Spec

\* A hit in a fetch line is the word the long path would produce
\* (Cpu::fetchDecoded), for every mapping of blocks to slots.
THEOREM FetchHitsAreCurrent ==
  ASSUME Disciplined
  PROVE  Spec => []FetchHitIsLongPath
<1>1. CInv => FetchHitIsLongPath
  <2> SUFFICES ASSUME CInv, NEW b \in Blocks, fetchLine[b] # NoValue
               PROVE  fetchLine[b] = LongPath(b)
    BY DEF FetchHitIsLongPath
  <2>1. CellOk(Now, b, dce, l2e, wimg)
    BY DEF CInv, Sound
  <2> QED
    BY <2>1, LongPathIs, NowFields DEF CellOk
<1> QED
  BY <1>1, InitSound, NextSound, PTL DEF Spec

\* Two cache levels, the fetch lines and snooping bus masters implement one
\* memory, for any number of blocks, values and ways and any choice of victims:
\* a read by anyone returns what anyone last wrote, a write changes its own
\* block alone, castouts, pushes, flushes and changes of mode change nothing,
\* and dcbi and DCFI bring back, of the blocks they name, an older value that
\* a copy below still holds (cache.cpp, exec_int.cpp).
THEOREM HierarchyIsOneMemory ==
  ASSUME Disciplined
  PROVE  Spec => BehavesAsOneMemory
<1> QED
  BY InitSound, NextSound, PTL DEF Spec, BehavesAsOneMemory, OneMemory!Spec
=============================================================================
