----------------------------- MODULE BioProofs -----------------------------
(***************************************************************************)
(* What the operations of the buffer cache (Bio) do, whatever the size of  *)
(* the cache.  S is the set of sectors and D the set of contents.          *)
(***************************************************************************)
EXTENDS Bio, MaxProofs, SequenceTheorems

Bufs(c) == {c[i] : i \in 1 .. NBUF}

\* e is c after an operation on sector s that left s in buffer b: the other
\* buffers are as before, but a clean one may have been recycled.
Touch(c, e, s, b) ==
  /\ b \in Bufs(e)
  /\ \A x \in Bufs(e) : x = b \/ (x \in Bufs(c) /\ x.sector # s)
  /\ \A x \in Bufs(c) : x.sector = s \/ x \in Bufs(e) \/ "dirty" \notin x.flags

\* Buffer i takes sector s.
Put(c, i, s, F, v) == [c EXCEPT ![i] = [sector |-> s, flags |-> F, data |-> v]]

\* Buffer i is the one that bget returns for sector s.
Found(c, s, i) ==
  /\ \A j \in 1 .. NBUF : j # i => c[j].sector # s
  /\ c[i].sector = s \/ "dirty" \notin c[i].flags

OldFlags(c, s, i) == IF c[i].sector = s THEN c[i].flags ELSE {}

\* The buffer of a sector is the one that At finds.
LEMMA AtIsUnique ==
  ASSUME NEW c, Distinct(c), NEW s, s # NOSECTOR,
         NEW i \in 1 .. NBUF, c[i].sector = s
  PROVE  Has(c, s) /\ At(c, s) = i
<1>1. Has(c, s)
  BY DEF Has
<1>2. At(c, s) \in 1 .. NBUF /\ c[At(c, s)].sector = s
  BY DEF At
<1> QED
  BY <1>1, <1>2 DEF Distinct

\* What a system call sees of a cached sector, and of one that is not cached.
LEMMA ViewOfBuffer ==
  ASSUME NEW c, Distinct(c), NEW d, NEW b \in Bufs(c), b.sector # NOSECTOR
  PROVE  CacheView(c, b.sector, d) = IF "valid" \in b.flags THEN b.data ELSE d
<1>1. PICK i \in 1 .. NBUF : c[i] = b
  BY DEF Bufs
<1>2. Has(c, b.sector) /\ At(c, b.sector) = i
  BY <1>1, AtIsUnique
<1> QED
  BY <1>1, <1>2 DEF CacheView, BufData

LEMMA ViewWithoutBuffer ==
  ASSUME NEW c, NEW s, NEW d, \A b \in Bufs(c) : b.sector # s
  PROVE  CacheView(c, s, d) = d
  BY DEF CacheView, Has, Bufs

\* bread finds the buffer of the sector, or recycles a clean one.
LEMMA BreadShape ==
  ASSUME NEW S, NEW D, NEW c \in Caches(S, D), NEW s \in S, s # NOSECTOR,
         NEW d \in D, CanGet(c, s)
  PROVE  \E i \in 1 .. NBUF :
           /\ Found(c, s, i)
           /\ CacheView(c, s, d) \in D
           /\ bread(c, s, d) =
                Put(c, i, s, {"busy", "valid"} \cup OldFlags(c, s, i), CacheView(c, s, d))
<1> USE CacheHasBuffers
<1>0. c \in [1 .. NBUF -> Buffers(S, D)] /\ Distinct(c)
  BY DEF Caches
<1>1. CASE Has(c, s)
  <2>1. PICK i \in 1 .. NBUF : c[i].sector = s
    BY <1>1 DEF Has
  <2>2. At(c, s) = i
    BY <1>0, <2>1, AtIsUnique
  <2>3. \A j \in 1 .. NBUF : j # i => c[j].sector # s
    BY <1>0, <2>1 DEF Distinct
  <2> DEFINE g == [c EXCEPT ![i].flags = @ \cup {"busy"}]
  <2>4. bget(c, s) = g
    BY <1>1, <2>2 DEF bget
  <2>5. c[i] \in Buffers(S, D)
    BY <1>0
  <2>6. g[i] = [sector |-> s, flags |-> c[i].flags \cup {"busy"}, data |-> c[i].data]
    BY <1>0, <2>1, <2>5 DEF Buffers
  <2>7. \A j \in 1 .. NBUF : j # i => g[j] = c[j]
    BY <1>0
  <2>8. At(g, s) = i
    <3>1. g[i].sector = s /\ \A j \in 1 .. NBUF : j # i => g[j].sector # s
      BY <2>3, <2>6, <2>7
    <3> HIDE DEF g
    <3> QED
      BY <3>1 DEF At
  <2>9. CacheView(c, s, d) = IF "valid" \in c[i].flags THEN c[i].data ELSE d
    BY <1>1, <2>2 DEF CacheView, BufData
  <2>10. CacheView(c, s, d) \in D
    BY <2>9 DEF Caches
  <2>11. bread(c, s, d) = IF "valid" \in g[i].flags THEN g
                          ELSE [g EXCEPT ![i] = [sector |-> s, flags |-> @.flags \cup {"valid"}, data |-> d]]
    BY <2>4, <2>8 DEF bread
  <2>12. bread(c, s, d) =
           [c EXCEPT ![i] = [sector |-> s, flags |-> {"busy", "valid"} \cup c[i].flags,
                             data |-> CacheView(c, s, d)]]
    <3>1. CASE "valid" \in c[i].flags
      <4>1. g[i] = [sector |-> s, flags |-> {"busy", "valid"} \cup c[i].flags,
                    data |-> CacheView(c, s, d)]
        BY <2>6, <2>9, <3>1
      <4>2. bread(c, s, d) = g
        BY <2>6, <2>11, <3>1
      <4> QED
        BY <1>0, <2>7, <4>1, <4>2
    <3>2. CASE "valid" \notin c[i].flags
      <4>1. "valid" \notin g[i].flags
        BY <2>6, <3>2
      <4>2. g[i].flags \cup {"valid"} = {"busy", "valid"} \cup c[i].flags
        BY <2>6
      <4>3. bread(c, s, d) =
              [g EXCEPT ![i] = [sector |-> s, flags |-> {"busy", "valid"} \cup c[i].flags,
                                data |-> d]]
        BY <2>11, <4>1, <4>2
      <4> QED
        BY <1>0, <2>9, <3>2, <4>3
    <3> QED
      BY <3>1, <3>2
  <2> QED
    BY <2>1, <2>3, <2>10, <2>12 DEF Found, Put, OldFlags
<1>2. CASE ~ Has(c, s)
  <2> DEFINE i == Max(Recyclable(c))
             g == [c EXCEPT ![i].sector = s, ![i].flags = {"busy"}]
  <2>1. Recyclable(c) \in SUBSET (0 .. NBUF) /\ Recyclable(c) # {} /\ NBUF \in Nat
    BY <1>2 DEF CanGet, Recyclable
  <2>2. i \in Recyclable(c)
    BY <2>1, MaxIsGreatest
  <2>3. i \in 1 .. NBUF /\ "dirty" \notin c[i].flags
    BY <2>2 DEF Recyclable
  <2>4. \A j \in 1 .. NBUF : c[j].sector # s
    BY <1>2 DEF Has
  <2>5. bget(c, s) = g
    BY <1>2 DEF bget
  <2> HIDE DEF i
  <2>6. c[i] \in Buffers(S, D)
    BY <1>0, <2>3
  <2>7. g[i] = [sector |-> s, flags |-> {"busy"}, data |-> c[i].data]
    BY <1>0, <2>3, <2>6 DEF Buffers
  <2>8. \A j \in 1 .. NBUF : j # i => g[j] = c[j]
    BY <1>0
  <2>9. At(g, s) = i
    <3>1. g[i].sector = s /\ \A j \in 1 .. NBUF : j # i => g[j].sector # s
      <4> HIDE DEF g
      <4> QED
        BY <2>4, <2>7, <2>8
    <3> HIDE DEF g
    <3> QED
      BY <2>3, <3>1 DEF At
  <2>10. CacheView(c, s, d) = d
    BY <1>2 DEF CacheView
  <2>11. bread(c, s, d) = [g EXCEPT ![i] = [sector |-> s, flags |-> @.flags \cup {"valid"}, data |-> d]]
    <3>1. "valid" \notin g[i].flags
      BY <2>7
    <3> QED
      BY <2>5, <2>9, <3>1 DEF bread
  <2>12. g[i].flags \cup {"valid"} = {"busy", "valid"}
    BY <2>7
  <2>13. bread(c, s, d) =
           [c EXCEPT ![i] = [sector |-> s, flags |-> {"busy", "valid"} \cup {}, data |-> d]]
    BY <1>0, <2>3, <2>11, <2>12
  <2> QED
    BY <2>3, <2>4, <2>10, <2>13 DEF Found, Put, OldFlags
<1> QED
  BY <1>1, <1>2

\* Buffer i goes to the front, as b, and those before it one place back.
Shifted(g, i, b) ==
  [j \in 1 .. NBUF |-> IF j = 1 THEN b ELSE IF j <= i THEN g[j - 1] ELSE g[j]]

Idle(b) == [b EXCEPT !.flags = @ \ {"busy"}]

\* brelse moves the buffer it releases to the front.
LEMMA BrelseShape ==
  ASSUME NEW B, NEW g \in [1 .. NBUF -> B], NEW s, At(g, s) \in 1 .. NBUF,
         Idle(g[At(g, s)]) \in B
  PROVE  brelse(g, s) = Shifted(g, At(g, s), Idle(g[At(g, s)]))
<1> USE CacheHasBuffers
<1> DEFINE i     == At(g, s)
           b     == Idle(g[At(g, s)])
           front == SubSeq(g, 1, i - 1)
           back  == SubSeq(g, i + 1, Len(g))
           e     == Shifted(g, i, b)
<1>1. g \in Seq(B) /\ Len(g) = NBUF
  BY SeqDef
<1>a. i \in 1 .. NBUF /\ b \in B
  OBVIOUS
<1> HIDE DEF i, b
<1>2. /\ front \in Seq(B) /\ Len(front) = i - 1
      /\ \A j \in 1 .. i - 1 : front[j] = g[j]
  BY <1>1, <1>a
<1>3. /\ back \in Seq(B) /\ Len(back) = NBUF - i
      /\ \A j \in 1 .. NBUF - i : back[j] = g[i + j]
  BY <1>1, <1>a
<1> DEFINE rest == front \o back
<1> HIDE DEF front, back
<1>4. /\ rest \in Seq(B) /\ Len(rest) = NBUF - 1
      /\ \A j \in 1 .. NBUF - 1 : rest[j] = IF j < i THEN g[j] ELSE g[j + 1]
  <2>1. /\ rest \in Seq(B) /\ Len(rest) = Len(front) + Len(back)
        /\ \A j \in 1 .. Len(front) + Len(back) :
             rest[j] = IF j <= Len(front) THEN front[j] ELSE back[j - Len(front)]
    BY <1>2, <1>3, ConcatProperties
  <2> HIDE DEF rest
  <2>2. Len(front) + Len(back) = NBUF - 1
    BY <1>2, <1>3, <1>a
  <2>3. ASSUME NEW j \in 1 .. NBUF - 1
        PROVE  rest[j] = IF j < i THEN g[j] ELSE g[j + 1]
    <3>1. CASE j < i
      <4>1. j \in 1 .. Len(front) + Len(back) /\ j <= Len(front) /\ j \in 1 .. i - 1
        BY <1>a, <1>2, <2>2, <3>1
      <4>2. rest[j] = front[j]
        BY <2>1, <4>1
      <4> QED
        BY <1>2, <3>1, <4>1, <4>2
    <3>2. CASE ~ (j < i)
      <4>1. rest[j] = back[j - (i - 1)]
        <5>1. j \in 1 .. Len(front) + Len(back) /\ ~ (j <= Len(front)) /\ Len(front) = i - 1
          BY <1>a, <1>2, <2>2, <3>2
        <5> QED
          BY <2>1, <5>1
      <4>2. j - (i - 1) \in 1 .. NBUF - i /\ i + (j - (i - 1)) = j + 1
        BY <3>2, <1>a
      <4> QED
        BY <1>3, <3>2, <4>1, <4>2
    <3> QED
      BY <3>1, <3>2
  <2> QED
    BY <2>1, <2>2, <2>3
<1> HIDE DEF rest
<1> DEFINE x == <<b>> \o rest
<1>5. /\ x \in Seq(B) /\ Len(x) = NBUF
      /\ \A j \in 1 .. NBUF : x[j] = IF j = 1 THEN b ELSE rest[j - 1]
  <2>1. <<b>> \in Seq(B) /\ Len(<<b>>) = 1 /\ <<b>>[1] = b
    BY <1>a
  <2>2. /\ x \in Seq(B) /\ Len(x) = 1 + Len(rest)
        /\ \A j \in 1 .. 1 + Len(rest) : x[j] = IF j <= 1 THEN <<b>>[j] ELSE rest[j - 1]
    BY <1>4, <2>1, ConcatProperties
  <2> HIDE DEF x
  <2>3. 1 + Len(rest) = NBUF
    BY <1>4
  <2>4. \A j \in 1 .. NBUF : x[j] = IF j = 1 THEN b ELSE rest[j - 1]
    <3> TAKE j \in 1 .. NBUF
    <3>1. x[j] = IF j <= 1 THEN <<b>>[j] ELSE rest[j - 1]
      BY <2>2, <2>3
    <3>2. CASE j = 1
      <4>1. x[1] = <<b>>[1]
        BY <3>1, <3>2
      <4> QED
        BY <2>1, <3>2, <4>1
    <3>3. CASE j # 1
      BY <3>1, <3>3
    <3> QED
      BY <1>a, <3>2, <3>3
  <2> QED
    BY <2>2, <2>3, <2>4
<1> HIDE DEF x
<1>6. e \in [1 .. NBUF -> B]
  BY <1>a DEF Shifted
<1>7. \A j \in 1 .. NBUF : x[j] = e[j]
  <2> TAKE j \in 1 .. NBUF
  <2>1. CASE j = 1
    BY <1>5, <2>1 DEF Shifted
  <2>2. CASE j # 1
    <3>1. j - 1 \in 1 .. NBUF - 1 /\ (j - 1) + 1 = j
      BY <2>2
    <3>2. x[j] = IF j - 1 < i THEN g[j - 1] ELSE g[j]
      BY <1>4, <1>5, <2>2, <3>1
    <3>3. e[j] = IF j <= i THEN g[j - 1] ELSE g[j]
      BY <1>a, <2>2 DEF Shifted
    <3> HIDE DEF e
    <3> QED
      BY <1>a, <3>2, <3>3
  <2> QED
    BY <2>1, <2>2
<1> HIDE DEF e
<1>8. x = e
  <2>1. x \in [1 .. NBUF -> B]
    BY <1>5, LenProperties
  <2> QED
    BY <1>6, <1>7, <2>1
<1>9. brelse(g, s) = x
  BY DEF brelse, RemoveAt, Idle, i, b, x, rest, front, back
<1> QED
  BY <1>8, <1>9 DEF e, i, b

\* Buffer i, which holds sector s from now on, is released.
LEMMA Released ==
  ASSUME NEW S, NEW D, NEW c \in Caches(S, D), NEW s \in S, s # NOSECTOR,
         NEW i \in 1 .. NBUF, Found(c, s, i),
         NEW F \in SUBSET {"valid", "dirty"}, "valid" \in F, NEW v \in D
  PROVE  LET e == brelse(Put(c, i, s, F \cup {"busy"}, v), s)
         IN  e \in Caches(S, D) /\ Touch(c, e, s, [sector |-> s, flags |-> F, data |-> v])
<1> USE CacheHasBuffers DEF Found
<1> DEFINE g  == Put(c, i, s, F \cup {"busy"}, v)
           b0 == [sector |-> s, flags |-> F \cup {"busy"}, data |-> v]
           b  == [sector |-> s, flags |-> F, data |-> v]
           B  == Buffers(S, D)
<1>0. c \in [1 .. NBUF -> B] /\ Distinct(c)
  BY DEF Caches
<1>1. b0 \in B /\ b \in B
  BY DEF Buffers
<1>2. g \in [1 .. NBUF -> B] /\ g[i] = b0 /\ \A j \in 1 .. NBUF : j # i => g[j] = c[j]
  <2> HIDE DEF B
  <2> QED
    BY <1>0, <1>1 DEF Put
<1> HIDE DEF g
<1>3. At(g, s) = i
  <2>1. g[i].sector = s /\ \A j \in 1 .. NBUF : j # i => g[j].sector # s
    BY <1>2
  <2> QED
    BY <2>1 DEF At
<1>4. Idle(g[i]) = b
  <2>1. (F \cup {"busy"}) \ {"busy"} = F
    OBVIOUS
  <2>2. g[i].flags \ {"busy"} = F
    BY <1>2, <2>1
  <2>3. [b0 EXCEPT !.flags = F] = b
    OBVIOUS
  <2> HIDE DEF b0, b
  <2> QED
    BY <1>2, <2>2, <2>3 DEF Idle
<1> DEFINE e == Shifted(g, i, b)
<1>5. brelse(g, s) = e
  <2>1. b \in B /\ g \in [1 .. NBUF -> B]
    BY <1>1, <1>2
  <2> HIDE DEF b, b0, B
  <2> QED
    BY <2>1, <1>3, <1>4, BrelseShape
\* Buffer j of e was buffer From(j) of c.
<1> DEFINE From(j) == IF j = 1 THEN i ELSE IF j <= i THEN j - 1 ELSE j
<1>6. \A j \in 1 .. NBUF : From(j) \in 1 .. NBUF /\ (From(j) = i <=> j = 1)
  OBVIOUS
<1>7. \A j, k \in 1 .. NBUF : From(j) = From(k) => j = k
  OBVIOUS
<1>8. \A k \in 1 .. NBUF : \E j \in 1 .. NBUF : From(j) = k
  <2> TAKE k \in 1 .. NBUF
  <2>1. CASE k = i
    BY <2>1
  <2>2. CASE k < i
    <3>1. k + 1 \in 1 .. NBUF /\ From(k + 1) = k
      BY <2>2
    <3> QED
      BY <3>1
  <2>3. CASE k > i
    BY <2>3
  <2> QED
    BY <2>1, <2>2, <2>3
<1>9. e[1] = b /\ \A j \in 1 .. NBUF : j # 1 => e[j] = c[From(j)]
  <2> HIDE DEF b, b0
  <2>1. e[1] = b
    BY DEF Shifted
  <2>2. ASSUME NEW j \in 1 .. NBUF, j # 1
        PROVE  e[j] = g[From(j)]
    BY <2>2 DEF Shifted
  <2> QED
    BY <1>2, <1>6, <2>1, <2>2
<1>10. e \in [1 .. NBUF -> B]
  <2> HIDE DEF b, B, From, e
  <2>1. \A j \in 1 .. NBUF : e[j] \in B
    BY <1>0, <1>1, <1>6, <1>9
  <2>2. e = [j \in 1 .. NBUF |-> e[j]]
    BY DEF e, Shifted
  <2> QED
    BY <2>1, <2>2
<1> HIDE DEF From, e
<1>11. \A j \in 1 .. NBUF : j # 1 => e[j].sector # s
  BY <1>6, <1>9
<1>12. Distinct(e)
  <2> SUFFICES ASSUME NEW j \in 1 .. NBUF, NEW k \in 1 .. NBUF,
                      e[j].sector = e[k].sector, e[j].sector # NOSECTOR, j # k
               PROVE  FALSE
    BY DEF Distinct
  <2>1. j # 1 /\ k # 1
    BY <1>9, <1>11
  <2>2. c[From(j)].sector = c[From(k)].sector /\ c[From(j)].sector # NOSECTOR
    BY <1>9, <2>1
  <2> QED
    BY <1>0, <1>6, <1>7, <2>2 DEF Distinct
<1>13. \A j \in 1 .. NBUF :
         /\ "busy" \notin e[j].flags
         /\ "dirty" \in e[j].flags => "valid" \in e[j].flags
         /\ "valid" \in e[j].flags => e[j].sector \in S /\ e[j].data \in D
  <2> TAKE j \in 1 .. NBUF
  <2>1. CASE j = 1
    BY <1>9, <2>1
  <2>2. CASE j # 1
    <3> HIDE DEF b, b0
    <3> QED
      BY <1>6, <1>9, <2>2 DEF Caches
  <2> QED
    BY <2>1, <2>2
<1>14. e \in Caches(S, D)
  BY <1>10, <1>12, <1>13 DEF Caches
<1>15. Touch(c, e, s, b)
  <2> HIDE DEF b, b0
  <2>1. b \in Bufs(e)
    BY <1>9 DEF Bufs
  <2>2. \A x \in Bufs(e) : x = b \/ (x \in Bufs(c) /\ x.sector # s)
    BY <1>6, <1>9, <1>11 DEF Bufs
  <2>3. \A x \in Bufs(c) : x.sector = s \/ x \in Bufs(e) \/ "dirty" \notin x.flags
    <3> SUFFICES ASSUME NEW k \in 1 .. NBUF
                 PROVE  c[k].sector = s \/ c[k] \in Bufs(e) \/ "dirty" \notin c[k].flags
      BY DEF Bufs
    <3>1. CASE k = i
      BY <3>1
    <3>2. CASE k # i
      <4>1. PICK j \in 1 .. NBUF : From(j) = k
        BY <1>8
      <4>2. e[j] = c[k]
        BY <1>6, <1>9, <3>2, <4>1
      <4> QED
        BY <4>2 DEF Bufs
    <3> QED
      BY <3>1, <3>2
  <2> QED
    BY <2>1, <2>2, <2>3 DEF Touch
<1> QED
  BY <1>5, <1>14, <1>15 DEF g

-----------------------------------------------------------------------------
(* The operations on the cache between two of which nothing is busy *)

\* The buffer that was put in place, and how it is changed.
LEMMA AtAfterPut ==
  ASSUME NEW S, NEW D, NEW c \in Caches(S, D), NEW s, NEW i \in 1 .. NBUF, Found(c, s, i),
         NEW F, NEW v
  PROVE  /\ At(Put(c, i, s, F, v), s) = i
         /\ Put(c, i, s, F, v)[i] = [sector |-> s, flags |-> F, data |-> v]
         /\ \A x : [Put(c, i, s, F, v) EXCEPT ![i] = x] = [c EXCEPT ![i] = x]
<1>0. c \in [1 .. NBUF -> Buffers(S, D)]
  BY DEF Caches
<1> DEFINE g == Put(c, i, s, F, v)
           r == [sector |-> s, flags |-> F, data |-> v]
<1>1. g[i] = r /\ \A j \in 1 .. NBUF : j # i => g[j] = c[j]
  BY <1>0 DEF Put
<1>2. r.sector = s
  OBVIOUS
<1>3. \A x : [g EXCEPT ![i] = x] = [c EXCEPT ![i] = x]
  BY <1>0 DEF Put
<1> HIDE DEF g
<1>4. At(g, s) = i
  BY <1>1, <1>2 DEF At, Found
<1> QED
  BY <1>1, <1>3, <1>4 DEF g

LEMMA ModifyPut ==
  ASSUME NEW S, NEW D, NEW c \in Caches(S, D), NEW s, NEW i \in 1 .. NBUF, Found(c, s, i),
         NEW F, NEW v, NEW w
  PROVE  Modify(Put(c, i, s, F, v), s, w) = Put(c, i, s, F, w)
<1> DEFINE g == Put(c, i, s, F, v)
           r == [sector |-> s, flags |-> F, data |-> v]
<1>1. At(g, s) = i /\ g[i] = r /\ \A x : [g EXCEPT ![i] = x] = [c EXCEPT ![i] = x]
  BY AtAfterPut
<1>2. [r EXCEPT !.data = w] = [sector |-> s, flags |-> F, data |-> w]
  OBVIOUS
<1> HIDE DEF r, g
<1>3. Modify(g, s, w) = [g EXCEPT ![i] = [r EXCEPT !.data = w]]
  BY <1>1 DEF Modify
<1> QED
  BY <1>1, <1>2, <1>3 DEF Put, g

\* MarkDirty and bwrite change the flags F to G.
LEMMA FlagsPut ==
  ASSUME NEW S, NEW D, NEW c \in Caches(S, D), NEW s, NEW i \in 1 .. NBUF, Found(c, s, i),
         NEW F, NEW G, NEW v
  PROVE  /\ G = F \cup {"dirty"} => MarkDirty(Put(c, i, s, F, v), s) = Put(c, i, s, G, v)
         /\ G = F \ {"dirty"} => bwrite(Put(c, i, s, F, v), s) = Put(c, i, s, G, v)
         /\ BufData(Put(c, i, s, F, v), s) = v
<1> DEFINE g == Put(c, i, s, F, v)
           r == [sector |-> s, flags |-> F, data |-> v]
<1>1. At(g, s) = i /\ g[i] = r /\ \A x : [g EXCEPT ![i] = x] = [c EXCEPT ![i] = x]
  BY AtAfterPut
<1>2. [r EXCEPT !.flags = G] = [sector |-> s, flags |-> G, data |-> v]
  OBVIOUS
<1>3. r.flags = F /\ r.data = v
  OBVIOUS
<1> HIDE DEF r, g
<1>4. BufData(g, s) = v
  BY <1>1, <1>3 DEF BufData
<1>5. ASSUME G = F \cup {"dirty"} PROVE MarkDirty(g, s) = Put(c, i, s, G, v)
  <2>1. MarkDirty(g, s) = [g EXCEPT ![i] = [r EXCEPT !.flags = G]]
    BY <1>1, <1>3, <1>5 DEF MarkDirty
  <2> QED
    BY <1>1, <1>2, <2>1 DEF Put
<1>6. ASSUME G = F \ {"dirty"} PROVE bwrite(g, s) = Put(c, i, s, G, v)
  <2>1. bwrite(g, s) = [g EXCEPT ![i] = [r EXCEPT !.flags = G]]
    BY <1>1, <1>3, <1>6 DEF bwrite
  <2> QED
    BY <1>1, <1>2, <2>1 DEF Put
<1> QED
  BY <1>4, <1>5, <1>6 DEF g

\* A read leaves the sector in the cache, dirty if it was dirty before.
LEMMA ReadTouches ==
  ASSUME NEW S, NEW D, NEW c \in Caches(S, D), NEW s \in S, s # NOSECTOR,
         NEW d \in D, CanGet(c, s)
  PROVE  \E F \in SUBSET {"valid", "dirty"} :
           /\ "valid" \in F
           /\ "dirty" \in F <=> \E x \in Bufs(c) : x.sector = s /\ "dirty" \in x.flags
           /\ CacheView(c, s, d) \in D
           /\ brelse(bread(c, s, d), s) \in Caches(S, D)
           /\ Touch(c, brelse(bread(c, s, d), s), s,
                    [sector |-> s, flags |-> F, data |-> CacheView(c, s, d)])
<1>1. PICK i \in 1 .. NBUF :
           /\ Found(c, s, i)
           /\ CacheView(c, s, d) \in D
           /\ bread(c, s, d) =
                Put(c, i, s, {"busy", "valid"} \cup OldFlags(c, s, i), CacheView(c, s, d))
  BY BreadShape
<1> DEFINE F == {"valid"} \cup OldFlags(c, s, i)
<1>2. c[i].flags \in SUBSET {"valid", "dirty"}
  BY DEF Caches, Buffers
<1>3. F \in SUBSET {"valid", "dirty"} /\ "valid" \in F
  BY <1>2 DEF OldFlags
<1>4. {"busy", "valid"} \cup OldFlags(c, s, i) = F \cup {"busy"}
  OBVIOUS
<1>5. "dirty" \in F <=> \E x \in Bufs(c) : x.sector = s /\ "dirty" \in x.flags
  <2>1. CASE c[i].sector = s
    BY <1>1, <2>1 DEF Bufs, OldFlags, Found
  <2>2. CASE c[i].sector # s
    BY <1>1, <2>2 DEF Bufs, OldFlags, Found
  <2> QED
    BY <2>1, <2>2
<1> HIDE DEF F
<1>6. /\ brelse(bread(c, s, d), s) \in Caches(S, D)
      /\ Touch(c, brelse(bread(c, s, d), s), s,
               [sector |-> s, flags |-> F, data |-> CacheView(c, s, d)])
  BY <1>1, <1>3, <1>4, Released
<1> QED
  BY <1>1, <1>3, <1>5, <1>6

\* A log_write leaves the new contents in a dirty buffer.
LEMMA LogWriteTouches ==
  ASSUME NEW S, NEW D, NEW c \in Caches(S, D), NEW s \in S, s # NOSECTOR,
         NEW d \in D, NEW v \in D, CanGet(c, s)
  PROVE  LET e == brelse(MarkDirty(Modify(bread(c, s, d), s, v), s), s)
         IN  /\ e \in Caches(S, D)
             /\ Touch(c, e, s, [sector |-> s, flags |-> {"valid", "dirty"}, data |-> v])
<1>1. PICK i \in 1 .. NBUF :
           /\ Found(c, s, i)
           /\ CacheView(c, s, d) \in D
           /\ bread(c, s, d) =
                Put(c, i, s, {"busy", "valid"} \cup OldFlags(c, s, i), CacheView(c, s, d))
  BY BreadShape
<1> DEFINE G == {"busy", "valid"} \cup OldFlags(c, s, i)
           F == {"valid", "dirty"}
           m == Modify(bread(c, s, d), s, v)
<1>2. c[i].flags \in SUBSET {"valid", "dirty"}
  BY DEF Caches, Buffers
<1>3. G \cup {"dirty"} = F \cup {"busy"}
  BY <1>2 DEF OldFlags
<1>4. bread(c, s, d) = Put(c, i, s, G, CacheView(c, s, d))
  BY <1>1
<1> HIDE DEF G, F
<1>7. m = Put(c, i, s, G, v)
  <2>1. Modify(Put(c, i, s, G, CacheView(c, s, d)), s, v) = Put(c, i, s, G, v)
    BY <1>1, ModifyPut
  <2> QED
    BY <1>4, <2>1
<1> HIDE DEF m
<1>5. MarkDirty(m, s) = Put(c, i, s, F \cup {"busy"}, v)
  <2> DEFINE E == F \cup {"busy"}
  <2>1. E = G \cup {"dirty"}
    BY <1>3
  <2> HIDE DEF E
  <2>2. MarkDirty(Put(c, i, s, G, v), s) = Put(c, i, s, E, v)
    BY <1>1, <2>1, FlagsPut
  <2> QED
    BY <1>7, <2>2 DEF E
<1>6. /\ brelse(MarkDirty(m, s), s) \in Caches(S, D)
      /\ Touch(c, brelse(MarkDirty(m, s), s), s, [sector |-> s, flags |-> F, data |-> v])
  <2>1. F \in SUBSET {"valid", "dirty"} /\ "valid" \in F
    BY DEF F
  <2> QED
    BY <1>1, <1>5, <2>1, Released
<1> QED
  BY <1>6 DEF m, F

\* Writing a sector back sends what a system call sees of it to the disk, and
\* leaves it clean.
LEMMA WriteBackTouches ==
  ASSUME NEW S, NEW D, NEW c \in Caches(S, D), NEW s \in S, s # NOSECTOR,
         NEW d \in D, CanGet(c, s)
  PROVE  LET e == brelse(bwrite(bread(c, s, d), s), s)
         IN  /\ e \in Caches(S, D)
             /\ CacheView(c, s, d) \in D
             /\ BufData(bread(c, s, d), s) = CacheView(c, s, d)
             /\ Touch(c, e, s, [sector |-> s, flags |-> {"valid"}, data |-> CacheView(c, s, d)])
<1>1. PICK i \in 1 .. NBUF :
           /\ Found(c, s, i)
           /\ CacheView(c, s, d) \in D
           /\ bread(c, s, d) =
                Put(c, i, s, {"busy", "valid"} \cup OldFlags(c, s, i), CacheView(c, s, d))
  BY BreadShape
<1> DEFINE G == {"busy", "valid"} \cup OldFlags(c, s, i)
           F == {"valid"}
           m == bread(c, s, d)
<1>2. c[i].flags \in SUBSET {"valid", "dirty"}
  BY DEF Caches, Buffers
<1>3. G \ {"dirty"} = F \cup {"busy"}
  BY <1>2 DEF OldFlags
<1>4. m = Put(c, i, s, G, CacheView(c, s, d))
  BY <1>1
<1> HIDE DEF G, F, m
<1>5. /\ bwrite(m, s) = Put(c, i, s, F \cup {"busy"}, CacheView(c, s, d))
      /\ BufData(m, s) = CacheView(c, s, d)
  <2> DEFINE x == CacheView(c, s, d)
             E == F \cup {"busy"}
  <2>1. E = G \ {"dirty"}
    BY <1>3
  <2> HIDE DEF x, E
  <2>2. bwrite(Put(c, i, s, G, x), s) = Put(c, i, s, E, x) /\ BufData(Put(c, i, s, G, x), s) = x
    BY <1>1, <2>1, FlagsPut
  <2> QED
    BY <1>4, <2>2 DEF E, x
<1>6. /\ brelse(bwrite(m, s), s) \in Caches(S, D)
      /\ Touch(c, brelse(bwrite(m, s), s), s,
               [sector |-> s, flags |-> F, data |-> CacheView(c, s, d)])
  <2>1. F \in SUBSET {"valid", "dirty"} /\ "valid" \in F
    BY DEF F
  <2> QED
    BY <1>1, <1>5, <2>1, Released
<1> QED
  BY <1>1, <1>5, <1>6 DEF m, F

\* What system calls see after an operation on sector s, when the clean buffers
\* hold what the disk holds.
LEMMA ViewAfterTouch ==
  ASSUME NEW S, NEW D, NEW c \in Caches(S, D), NEW e \in Caches(S, D), NEW s, NEW b,
         Touch(c, e, s, b), b.sector = s, "valid" \in b.flags, s # NOSECTOR,
         NEW t, t # NOSECTOR, NEW d,
         \A x \in Bufs(c) :
           x.sector = t /\ "valid" \in x.flags /\ "dirty" \notin x.flags => x.data = d
  PROVE  CacheView(e, t, d) = IF t = s THEN b.data ELSE CacheView(c, t, d)
<1>0. Distinct(c) /\ Distinct(e)
  BY DEF Caches
<1>1. CASE t = s
  BY <1>0, <1>1, ViewOfBuffer DEF Touch
<1>2. CASE t # s /\ \E x \in Bufs(e) : x.sector = t
  <2>1. PICK x \in Bufs(e) : x.sector = t
    BY <1>2
  <2>2. x \in Bufs(c)
    BY <1>2, <2>1 DEF Touch
  <2> QED
    BY <1>0, <1>2, <2>1, <2>2, ViewOfBuffer
<1>3. CASE t # s /\ \A x \in Bufs(e) : x.sector # t
  <2>1. CacheView(e, t, d) = d
    BY <1>3, ViewWithoutBuffer
  <2>2. CASE \E x \in Bufs(c) : x.sector = t
    <3>1. PICK x \in Bufs(c) : x.sector = t
      BY <2>2
    <3>2. "dirty" \notin x.flags
      BY <1>3, <3>1 DEF Touch
    <3>3. CacheView(c, t, d) = IF "valid" \in x.flags THEN x.data ELSE d
      BY <1>0, <3>1, ViewOfBuffer
    <3> QED
      BY <1>3, <2>1, <3>1, <3>2, <3>3
  <2>3. CASE \A x \in Bufs(c) : x.sector # t
    BY <1>3, <2>1, <2>3, ViewWithoutBuffer
  <2> QED
    BY <2>2, <2>3
<1> QED
  BY <1>1, <1>2, <1>3
=============================================================================
