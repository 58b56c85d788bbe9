--------------------------- MODULE DeltaLogProofs ---------------------------
(***************************************************************************)
(* What the closed form of recovery's replay (DeltaLog) does when a page   *)
(* is appended, when it is applied twice, and when pages outside the       *)
(* replayed ones change.                                                   *)
(***************************************************************************)
EXTENDS DeltaLog, MaxProofs

-----------------------------------------------------------------------------
(* Pages in flash order *)

\* A delta page address is a block and a page of it.
LEMMA PageIsPair ==
  ASSUME NEW a \in DeltaPages
  PROVE  /\ a[1] \in 0 .. BLOCKS_DELTA - 1
         /\ a[2] \in 0 .. PAGES_PER_BLOCK - 1
         /\ a = <<a[1], a[2]>>
BY DEF DeltaPages, Pages

\* LastPage picks the page that follows all the others.
LEMMA LastPageUnique ==
  ASSUME NEW A \in SUBSET DeltaPages, NEW w \in A,
         \A b \in A : b = w \/ Earlier(b, w)
  PROVE  LastPage[A] = w
<1>1. A \in (SUBSET DeltaPages) \ {{}}
  OBVIOUS
<1>2. \A a \in A : Earlier(a, w) => ~ Earlier(w, a)
  BY PageIsPair, SizesArePositive DEF Earlier
<1>3. \A a \in A : (\A b \in A : a = b \/ Earlier(b, a)) => a = w
  BY <1>2
<1>4. LastPage[A] = CHOOSE a \in A : \A b \in A : a = b \/ Earlier(b, a)
  BY <1>1 DEF LastPage
<1>5. \A b \in A : w = b \/ Earlier(b, w)
  OBVIOUS
<1> QED
  BY <1>3, <1>4, <1>5

\* Every nonempty set of pages has a last one.
LEMMA LastPageExists ==
  ASSUME NEW A \in SUBSET DeltaPages, A # {}
  PROVE  \E w \in A : \A b \in A : b = w \/ Earlier(b, w)
<1> USE SizesArePositive
<1> DEFINE B == {b \in 0 .. BLOCKS_DELTA : \E p \in Pages : <<b, p>> \in A}
<1>1. B \in SUBSET (0 .. BLOCKS_DELTA)
  OBVIOUS
<1>2. \A a \in A : a[1] \in B /\ a = <<a[1], a[2]>> /\ a[2] \in Pages
  BY PageIsPair DEF Pages
<1>3. B # {}
  BY <1>2
<1>4. PICK m \in B : \A b \in B : b <= m
  <2> HIDE DEF B
  <2> QED BY <1>1, <1>3, MaxIsGreatest
<1> DEFINE P == {p \in 0 .. PAGES_PER_BLOCK : <<m, p>> \in A}
<1>5. P \in SUBSET (0 .. PAGES_PER_BLOCK)
  OBVIOUS
<1>6. P # {}
  <2>1. PICK p \in Pages : <<m, p>> \in A
    BY <1>4
  <2>2. p \in P
    BY <2>1 DEF Pages
  <2> QED BY <2>2
<1>7. PICK q \in P : \A p \in P : p <= q
  <2> HIDE DEF P
  <2> QED BY <1>5, <1>6, MaxIsGreatest
<1>8. <<m, q>> \in A
  BY <1>7
<1>9. ASSUME NEW b \in A
      PROVE  b = <<m, q>> \/ Earlier(b, <<m, q>>)
  <2>1. b[1] \in B /\ b[1] <= m /\ b[1] \in Int /\ m \in Int
    BY <1>2, <1>4
  <2>2. CASE b[1] < m
    BY <2>2 DEF Earlier
  <2>3. CASE b[1] = m
    <3>1. b[2] \in P
      BY <2>3, <1>2 DEF Pages
    <3>2. b[2] <= q /\ b[2] \in Int /\ q \in Int
      BY <3>1, <1>7
    <3> QED
      BY <2>3, <3>2, <1>2 DEF Earlier
  <2> QED
    BY <2>1, <2>2, <2>3
<1> QED
  BY <1>8, <1>9

\* LastPage of a nonempty set belongs to it and follows the others.
LEMMA LastPageIsLast ==
  ASSUME NEW A \in SUBSET DeltaPages, A # {}
  PROVE  LastPage[A] \in A /\ \A b \in A : b = LastPage[A] \/ Earlier(b, LastPage[A])
BY LastPageExists, LastPageUnique

-----------------------------------------------------------------------------
(* Sequences of pairs *)

\* Max of a nonempty set of mentions is one of them.
LEMMA LastMention ==
  ASSUME NEW X, NEW s \in Seq(X), NEW la, Mentions(s, la) # {}
  PROVE  Max(Mentions(s, la)) \in Mentions(s, la)
<1>1. Len(s) \in Nat /\ Mentions(s, la) \in SUBSET (0 .. Len(s))
  BY DEF Mentions
<1> QED
  BY <1>1, MaxIsGreatest

\* An appended pair decides its own sector and no other.
LEMMA AppendedPairWins ==
  ASSUME NEW X, NEW s \in Seq(X), NEW p \in X
  PROVE  /\ Mentions(Append(s, p), p.la) # {}
         /\ LastPsa(Append(s, p), p.la) = p.pa
<1> DEFINE t == Append(s, p)
           n == Len(s) + 1
<1>1. /\ n \in Nat /\ Len(t) = n /\ t[n] = p /\ n \in 1 .. n
      /\ Mentions(t, p.la) \subseteq 1 .. n
  BY DEF Mentions
<1>2. n \in Mentions(t, p.la)
  BY <1>1 DEF Mentions
<1>3. Max(Mentions(t, p.la)) = n
  <2>1. \A y \in Mentions(t, p.la) : n >= y /\ (y >= n => y = n)
    BY <1>1
  <2> HIDE DEF t, n
  <2> QED BY <1>2, <2>1 DEF Max
<1> QED
  BY <1>1, <1>2, <1>3 DEF LastPsa

\* An appended pair leaves the other sectors as they were.
LEMMA AppendedPairKeepsOthers ==
  ASSUME NEW X, NEW s \in Seq(X), NEW p \in X, NEW la, la # p.la
  PROVE  /\ Mentions(Append(s, p), la) = Mentions(s, la)
         /\ Mentions(s, la) # {} => LastPsa(Append(s, p), la) = LastPsa(s, la)
<1> DEFINE t == Append(s, p)
           n == Len(s)
<1>1. /\ n \in Nat /\ Len(t) = n + 1 /\ t[n + 1] = p
      /\ \A i \in 1 .. n : t[i] = s[i]
      /\ \A i \in 1 .. n + 1 : i \in 1 .. n \/ i = n + 1
      /\ \A i \in 1 .. n : i \in 1 .. n + 1
  OBVIOUS
<1>2. Mentions(t, la) = Mentions(s, la)
  <2> HIDE DEF t, n
  <2>1. Len(s) = n
    BY DEF n
  <2>2. ASSUME NEW i \in Mentions(t, la) PROVE i \in Mentions(s, la)
    BY <1>1, <2>1 DEF Mentions
  <2>3. ASSUME NEW i \in Mentions(s, la) PROVE i \in Mentions(t, la)
    BY <1>1, <2>1 DEF Mentions
  <2> QED BY <2>2, <2>3
<1>3. ASSUME Mentions(s, la) # {} PROVE LastPsa(t, la) = LastPsa(s, la)
  <2>1. Max(Mentions(s, la)) \in Mentions(s, la)
    BY <1>3, LastMention
  <2>2. Max(Mentions(s, la)) \in 1 .. n
    BY <2>1 DEF Mentions
  <2> QED
    BY <1>1, <1>2, <2>2 DEF LastPsa
<1> QED
  BY <1>2, <1>3

-----------------------------------------------------------------------------
(* Replay *)

\* Only the replayed pages matter.
LEMMA ReplayLocal ==
  ASSUME NEW m, NEW d, NEW e, NEW A \in SUBSET DeltaPages,
         \A a \in A : d.page[a] = e.page[a]
  PROVE  Replay(m, d, A) = Replay(m, e, A)
<1>1. ASSUME NEW la \in LSA
      PROVE  /\ Hits(d, A, la) = Hits(e, A, la)
             /\ Hits(d, A, la) # {} =>
                  PagePsa(d, la)[LastPage[Hits(d, A, la)]]
                    = PagePsa(e, la)[LastPage[Hits(e, A, la)]]
  <2>1. Hits(d, A, la) = Hits(e, A, la) /\ Hits(d, A, la) \in SUBSET A
    BY DEF Hits
  <2>2. ASSUME Hits(d, A, la) # {}
        PROVE  LastPage[Hits(d, A, la)] \in A
    BY <2>1, <2>2, LastPageIsLast
  <2>3. \A a \in A : PagePsa(d, la)[a] = PagePsa(e, la)[a]
    BY DEF PagePsa
  <2> QED
    BY <2>1, <2>2, <2>3
<1> QED
  BY <1>1 DEF Replay

\* A page behind all the others is applied last.
LEMMA ReplayAppend ==
  ASSUME NEW m, NEW d, NEW A \in SUBSET DeltaPages, NEW w \in DeltaPages,
         \A a \in A : Earlier(a, w), NEW la \in LSA
  PROVE  Replay(m, d, A \cup {w})[la]
           = IF Mentions(d.page[w].pairs, la) = {} THEN Replay(m, d, A)[la]
             ELSE LastPsa(d.page[w].pairs, la)
<1> DEFINE H == Hits(d, A \cup {w}, la)
<1>1. CASE Mentions(d.page[w].pairs, la) = {}
  <2>1. H = Hits(d, A, la)
    BY <1>1 DEF Hits
  <2> QED
    BY <1>1, <2>1 DEF Replay
<1>2. CASE Mentions(d.page[w].pairs, la) # {}
  <2>1. /\ H \in SUBSET DeltaPages /\ w \in H
        /\ \A b \in H : b = w \/ Earlier(b, w)
    BY <1>2 DEF Hits
  <2>2. LastPage[H] = w
    <3> HIDE DEF H
    <3> QED BY <2>1, LastPageUnique
  <2>3. PagePsa(d, la)[w] = LastPsa(d.page[w].pairs, la)
    BY DEF PagePsa
  <2> QED
    BY <1>2, <2>1, <2>2, <2>3 DEF Replay
<1> QED
  BY <1>1, <1>2

\* Replaying the same pages over the result changes nothing.
LEMMA ReplayTwice ==
  ASSUME NEW m, NEW d, NEW A
  PROVE  Replay(Replay(m, d, A), d, A) = Replay(m, d, A)
BY DEF Replay

\* Pages without pairs change nothing.
LEMMA ReplayNothing ==
  ASSUME NEW S, NEW m \in [LSA -> S], NEW d, NEW A,
         \A a \in A : d.page[a].pairs = << >>
  PROVE  Replay(m, d, A) = m
<1>1. \A la \in LSA : Hits(d, A, la) = {}
  BY DEF Hits, Mentions
<1> QED
  BY <1>1 DEF Replay
=============================================================================
