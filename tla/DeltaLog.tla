------------------------------ MODULE DeltaLog ------------------------------
(***************************************************************************)
(* The delta region of src/ftl.c as recovery reads it.  A delta page is a  *)
(* record: its first word and the pairs (la, pa) that it logs.  The rest   *)
(* of a page is padded with LSA_INVALID, which updates no sector, so the   *)
(* padding is left out.                                                    *)
(***************************************************************************)
EXTENDS FtlBase, FiniteSetsExt

FLAG_DELTA_COMMITTED == 0
FLAG_DELTA_TENTATIVE == 1
FLAG_NEITHER         == 2     \* any other first word, 0xffffffff included

DeltaPages == (0 .. BLOCKS_DELTA - 1) \X Pages
Flags      == {FLAG_DELTA_COMMITTED, FLAG_DELTA_TENTATIVE, FLAG_NEITHER}
DeltaPage  == [flag : Flags, pairs : Seq([la : Int, pa : Int])]

\* Erased flash reads as all ones, which is neither flag.
ErasedPage == [flag |-> FLAG_NEITHER, pairs |-> <<>>]

Earlier(a, b) == a[1] < b[1] \/ (a[1] = b[1] /\ a[2] < b[2])

first_delta_page_erased(d) ==
  d.page[<<0, 0>>].flag \notin {FLAG_DELTA_COMMITTED, FLAG_DELTA_TENTATIVE}

\* Without reset_committed_point_when_first_delta_page_erased.
CommittedPages_NoReset(d) ==
  {a \in DeltaPages : \E c \in DeltaPages :
     /\ d.page[c].flag = FLAG_DELTA_COMMITTED
     /\ a = c \/ Earlier(a, c)}

\* The pages before the committed point: none when the first page is erased,
\* otherwise those up to the last page whose first word is 0.
CommittedPages(d) ==
  IF first_delta_page_erased(d) THEN {}
  ELSE {a \in DeltaPages : \E c \in DeltaPages :
          /\ d.page[c].flag = FLAG_DELTA_COMMITTED
          /\ a = c \/ Earlier(a, c)}

\* The indices at which a sequence of pairs mentions la, and the psa that the
\* last of them gives it.
Mentions(pairs, la) == {i \in 1 .. Len(pairs) : pairs[i].la = la}
LastPsa(pairs, la)  == pairs[Max(Mentions(pairs, la))].pa

\* The pages of A that mention la, what each gives it, and the last of a set of pages.
Hits(d, A, la) == {a \in A : Mentions(d.page[a].pairs, la) # {}}
PagePsa(d, la) == [a \in DeltaPages |-> LastPsa(d.page[a].pairs, la)]
LastPage ==
  [A \in (SUBSET DeltaPages) \ {{}} |-> CHOOSE a \in A : \A b \in A : a = b \/ Earlier(b, a)]

\* Replaying pages A over table m in flash order: the last pair for a sector wins.
Replay(m, d, A) ==
  [la \in LSA |-> IF Hits(d, A, la) = {} THEN m[la]
                  ELSE PagePsa(d, la)[LastPage[Hits(d, A, la)]]]

apply_delta_chkpt(m, d) == Replay(m, d, CommittedPages(d))
=============================================================================
