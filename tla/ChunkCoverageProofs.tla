--------------------------- MODULE ChunkCoverageProofs ---------------------------
(***************************************************************************)
(* Proofs about module Chunking, for every set of pull requests and every  *)
(* value of the limits: nothing of a diff is lost, sent twice or out of    *)
(* order, only what fits in no chunk is left out for its size, and no      *)
(* chunk is closed while there is room in it.                              *)
(***************************************************************************)
EXTENDS ChunkingProofs, SharedLemmas

-----------------------------------------------------------------------------
\* Estimates of joined texts.

LEMMA JoinedFacts ==
  ASSUME NEW n \in Nat, NEW first \in Nat, NEW rest \in [1..n -> Nat]
  PROVE  \E sums \in [0..n -> Nat] :
           /\ sums[0] = first /\ sums[n] = Joined(first, rest)
           /\ \A i \in 1..n : sums[i] = sums[i - 1] + 1 + rest[i]
<1> DEFINE P(g) == g = [s \in SUBSET (1..n) |->
                         IF s = {} THEN first ELSE g[s \ {Max(s)}] + 1 + rest[Max(s)]]
           iter == CHOOSE g : P(g)
<1>1. Joined(first, rest) = iter[1..n]
  BY DEF Joined, FoldLeft, MapThenFoldSet
<1>2. PICK g \in [SUBSET (1..n) -> Nat] : \A s \in SUBSET (1..n) :
        g[s] = IF s = {} THEN first ELSE g[s \ {Max(s)}] + 1 + rest[Max(s)]
  <2> DEFINE step == [p \in Nat \X Nat |-> p[1] + 1 + p[2]]
  <2>1. step \in [Nat \X Nat -> Nat]
    OBVIOUS
  <2>2. \A a, b \in Nat : step[<<a, b>>] = a + 1 + b
    OBVIOUS
  <2> HIDE DEF step
  <2>3. PICK g \in [SUBSET (1..n) -> Nat] : Folding(n, first, rest, step, g)
    BY <2>1, FoldExists
  <2>4. ASSUME NEW s \in SUBSET (1..n), s # {}
        PROVE  step[<<g[s \ {Max(s)}], rest[Max(s)]>>] = g[s \ {Max(s)}] + 1 + rest[Max(s)]
    <3>1. Max(s) \in 1..n
      BY <2>4, MaxOfInterval
    <3>2. s \ {Max(s)} \in SUBSET (1..n)
      OBVIOUS
    <3>3. g[s \ {Max(s)}] \in Nat /\ rest[Max(s)] \in Nat
      BY <3>1, <3>2
    <3> QED
      BY <2>2, <3>3
  <2>5. \A s \in SUBSET (1..n) :
          g[s] = IF s = {} THEN first ELSE g[s \ {Max(s)}] + 1 + rest[Max(s)]
    BY <2>3, <2>4 DEF Folding
  <2> QED
    BY <2>5
<1>3. P(g)
  BY <1>2
<1>4. P(iter)
  <2> HIDE DEF P
  <2> QED
    BY <1>3
<1>5. \A s \in SUBSET (1..n) :
        iter[s] = IF s = {} THEN first ELSE iter[s \ {Max(s)}] + 1 + rest[Max(s)]
  <2> HIDE DEF iter
  <2> QED
    BY <1>4
<1> HIDE DEF iter
<1> DEFINE sums == [i \in 0..n |-> iter[1..i]]
<1>6. sums[0] = first
  <2>1. 1..0 = {}
    OBVIOUS
  <2>2. {} \in SUBSET (1..n) /\ 0 \in 0..n
    OBVIOUS
  <2>3. iter[{}] = first
    BY <1>5, <2>2
  <2> QED
    BY <2>1, <2>2, <2>3
<1>7. ASSUME NEW i \in 1..n PROVE sums[i] = sums[i - 1] + 1 + rest[i]
  <2>1. /\ 1..i \in SUBSET (1..n) /\ 1..i # {} /\ i \in 0..n /\ i - 1 \in 0..n
    OBVIOUS
  <2>2. Max(1..i) = i
    <3>1. i \in Nat /\ 1..i \in SUBSET (1..i)
      OBVIOUS
    <3>2. Max(1..i) \in 1..i /\ \A y \in 1..i : y <= Max(1..i)
      BY <2>1, <3>1, MaxOfInterval
    <3> QED
      BY <3>2
  <2>3. (1..i) \ {i} = 1..(i - 1)
    OBVIOUS
  <2> QED
    BY <1>5, <2>1, <2>2, <2>3
<1>8. \A i \in Nat : i <= n => sums[i] \in Nat
  <2> DEFINE Bounded == {i \in Nat : i <= n => sums[i] \in Nat}
  <2> HIDE DEF sums
  <2>1. 0 \in Bounded
    BY <1>6
  <2>2. ASSUME NEW i \in Nat, i \in Bounded PROVE i + 1 \in Bounded
    <3> SUFFICES ASSUME i + 1 <= n PROVE sums[i + 1] \in Nat
      OBVIOUS
    <3>1. sums[i] \in Nat /\ rest[i + 1] \in Nat
      BY <2>2
    <3>2. sums[i + 1] = sums[i + 1 - 1] + 1 + rest[i + 1]
      BY <1>7
    <3> QED
      BY <3>1, <3>2
  <2>3. Bounded \in SUBSET Nat
    OBVIOUS
  <2>4. Bounded = Nat
    <3> HIDE DEF Bounded
    <3> QED
      BY <2>1, <2>2, <2>3, InductionBySet
  <2> QED
    BY <2>4
<1>9. sums \in [0..n -> Nat]
  BY <1>8
<1>10. sums[n] = Joined(first, rest)
  BY <1>1
<1> QED
  BY <1>6, <1>7, <1>9, <1>10

-----------------------------------------------------------------------------
\* The inductive invariant.

\* The lines the splitting of the files is past.
PassedLines ==
  {x \in AllLines :
     \/ stage \in {"pack", "done"}
     \/ stage \in {"files", "hunks", "lines"} /\ x[1] < f
     \/ stage \in {"hunks", "lines"} /\ x[1] = f /\ x[2] < h
     \/ stage = "lines" /\ x[1] = f /\ x[2] = h /\ x[3] < l}

\* What is left out because it is too large, and because of the limits on chunks.
TooLarge == {s \in skipped : s.reason = "chunk_input_limit"}
OverLimits == {s \in skipped : s.reason = "chunk_budget_limit"}

LinesOf(frs, items, open) ==
  (UNION {frs[k].lines : k \in DOMAIN frs}) \cup open \cup (UNION {s.lines : s \in items})

\* The fragments, the lines collected for the next and the items have the lines passed, each
\* once, and the fragments in order.
Covered(frs, items, open, passed) ==
  /\ passed = LinesOf(frs, items, open)
  /\ \A i, j \in DOMAIN frs : i < j =>
       \A x \in frs[i].lines, y \in frs[j].lines : Lexicographic(x, y)
  /\ \A i \in DOMAIN frs : \A x \in frs[i].lines, y \in open : Lexicographic(x, y)
  /\ \A s \in items : /\ \A k \in DOMAIN frs : s.lines \cap frs[k].lines = {}
                      /\ s.lines \cap open = {}
                      /\ \A t \in items : s # t => s.lines \cap t.lines = {}

Reported(frs, items, i) == (\E k \in DOMAIN frs : frs[k].file = i) \/ (\E s \in items : s.file = i)

\* The files, hunks and lines that were passed left a fragment, an open part or an item.
FilesReported ==
  /\ \A i \in DOMAIN pr :
       stage \in {"pack", "done"} \/ (stage \in {"files", "hunks", "lines"} /\ i < f)
         => Reported(fragments, TooLarge, i)
  /\ stage \in {"hunks", "lines"} /\ h > 1 => Reported(fragments, TooLarge, f)
  /\ stage = "lines" /\ l > 1 => Reported(fragments, TooLarge, f) \/ part.lines # {}
  /\ stage = "lines" => pr[f].hunks[h].lines # <<>>

Fitting(frs) == \A k \in DOMAIN frs : frs[k].tokens <= Budget

Splitting ==
  /\ pr \in PRs
  /\ stage = "start" => f = 1 /\ fragments = <<>> /\ skipped = {}
  /\ Covered(fragments, TooLarge, part.lines, PassedLines)
  /\ stage # "lines" => part.lines = {}
  /\ FilesReported
  /\ Fitting(fragments)
  /\ part.lines # {} => part.tokens <= Budget
  /\ OnlyOversizedSkipped

Items(cs) == [c \in DOMAIN cs |-> cs[c].items]

Placed(cs, open) == ToSet(open) \cup (UNION {ToSet(cs[c].items) : c \in DOMAIN cs})

\* Each fragment before fragment n is in one of the chunks cs or in the open one.
PlacedOnce(cs, open, n) ==
  /\ \A c \in DOMAIN cs :
       /\ ToSet(cs[c].items) \cap ToSet(open) = {}
       /\ \A d \in DOMAIN cs : c # d => ToSet(cs[c].items) \cap ToSet(cs[d].items) = {}
  /\ 1..(n - 1) = Placed(cs, open)

\* The chunks and the open one hold these fragments in order.
PlacedInOrder(cs, open, n) == FlattenSeq(Items(cs)) \o open = [i \in 1..(n - 1) |-> i]

\* Every chunk has a fragment, and the fragment that opens the next one did not fit in it;
\* while fragments are placed, there is an open chunk as soon as one was closed.
OpenedWhenFull ==
  /\ NoChunkClosedEarly
  /\ \A c \in DOMAIN chunks : chunks[c].items # <<>>
  /\ stage = "pack" /\ chunks # <<>> =>
       /\ cur.items # <<>>
       /\ Join(chunks[Len(chunks)].tokens, fragments[cur.items[1]].tokens) > Budget

Packing ==
  /\ stage \notin {"pack", "done"} => next = 1 /\ cur = Empty /\ chunks = <<>>
  /\ stage = "done" => cur = Empty
  /\ next <= Len(fragments) + 1
  /\ OverLimits = IF stage = "done" THEN Omitted(next) ELSE {}
  /\ PlacedOnce(chunks, cur.items, next)
  /\ PlacedInOrder(chunks, cur.items, next)
  /\ OpenedWhenFull

Accounted == Splitting /\ Packing

\* No file is larger than the pull request it is part of.
LEMMA CompleteIsLargest ==
  ASSUME pr \in Seq(DiffFile), pr # <<>>, NEW i \in DOMAIN pr
  PROVE  pr[i].tokens <= CompleteTokens(pr)
<1> DEFINE n == Len(pr) - 1
           rest == [k \in 1..n |-> pr[k + 1].tokens]
           first == pr[1].tokens
<1>1. n \in Nat /\ DOMAIN pr = 1..(n + 1)
  <2>1. Len(pr) \in Nat /\ DOMAIN pr = 1..Len(pr) /\ Len(pr) # 0
    OBVIOUS
  <2> QED
    BY <2>1
<1>2. \A k \in DOMAIN pr : pr[k].tokens \in Nat
  BY PRType DEF Pos
<1>3. first \in Nat /\ rest \in [1..n -> Nat]
  BY <1>1, <1>2
<1>4. CompleteTokens(pr) = Joined(first, rest)
  BY DEF CompleteTokens
<1> HIDE DEF n, rest, first
<1>5. PICK sums \in [0..n -> Nat] :
        /\ sums[0] = first /\ sums[n] = Joined(first, rest)
        /\ \A k \in 1..n : sums[k] = sums[k - 1] + 1 + rest[k]
  BY <1>1, <1>3, JoinedFacts
<1> DEFINE Bounded == {k \in Nat : k <= n => \A j \in 0..k : pr[j + 1].tokens <= sums[k]}
<1>6. 0 \in Bounded
  <2>1. \A j \in 0..0 : j = 0
    OBVIOUS
  <2>2. pr[0 + 1].tokens = sums[0] /\ sums[0] \in Nat
    BY <1>3, <1>5 DEF first
  <2>3. pr[0 + 1].tokens <= sums[0]
    BY <2>2
  <2> QED
    BY <2>1, <2>3
<1>7. ASSUME NEW k \in Nat, k \in Bounded PROVE k + 1 \in Bounded
  <2> SUFFICES ASSUME k + 1 <= n, NEW j \in 0..(k + 1) PROVE pr[j + 1].tokens <= sums[k + 1]
    OBVIOUS
  <2>1. k + 1 \in 1..n /\ k \in 0..n /\ k + 1 \in 0..n /\ k + 1 - 1 = k
    BY <1>1
  <2>2. sums[k + 1] = sums[k] + 1 + rest[k + 1] /\ rest[k + 1] = pr[k + 1 + 1].tokens
    BY <1>5, <2>1 DEF rest
  <2>3. sums[k] \in Nat /\ rest[k + 1] \in Nat
    BY <1>3, <1>5, <2>1
  <2>4. CASE j = k + 1
    BY <2>2, <2>3, <2>4
  <2>5. CASE j # k + 1
    <3>1. j \in 0..k /\ j + 1 \in DOMAIN pr
      BY <1>1, <2>1, <2>5
    <3>2. \A m \in 0..k : pr[m + 1].tokens <= sums[k]
      BY <1>1, <1>7, <2>1
    <3>3. pr[j + 1].tokens <= sums[k]
      BY <3>1, <3>2
    <3>4. pr[j + 1].tokens \in Nat
      BY <1>2, <3>1
    <3> DEFINE size == pr[j + 1].tokens
    <3>5. size <= sums[k] /\ size \in Nat
      BY <3>3, <3>4
    <3> HIDE DEF size
    <3>6. size <= sums[k + 1]
      BY <2>2, <2>3, <3>5
    <3> QED
      BY <3>6 DEF size
  <2> QED
    BY <2>4, <2>5
<1>8. Bounded = Nat
  <2>1. Bounded \in SUBSET Nat
    OBVIOUS
  <2> HIDE DEF Bounded
  <2> QED
    BY <1>6, <1>7, <2>1, InductionBySet
<1>9. i - 1 \in 0..n /\ i - 1 + 1 = i
  BY <1>1
<1>10. n \in Bounded
  BY <1>1, <1>8
<1>11. \A j \in 0..n : pr[j + 1].tokens <= sums[n]
  BY <1>1, <1>10
<1> QED
  BY <1>4, <1>5, <1>9, <1>11

LEMMA CompleteType ==
  ASSUME pr \in Seq(DiffFile), pr # <<>>
  PROVE  CompleteTokens(pr) \in Nat
<1> DEFINE n == Len(pr) - 1
           rest == [k \in 1..n |-> pr[k + 1].tokens]
           first == pr[1].tokens
<1>1. n \in Nat /\ DOMAIN pr = 1..(n + 1)
  <2>1. Len(pr) \in Nat /\ DOMAIN pr = 1..Len(pr) /\ Len(pr) # 0
    OBVIOUS
  <2> QED
    BY <2>1
<1>2. \A k \in DOMAIN pr : pr[k].tokens \in Nat
  BY PRType DEF Pos
<1>3. first \in Nat /\ rest \in [1..n -> Nat]
  BY <1>1, <1>2
<1>4. CompleteTokens(pr) = Joined(first, rest)
  BY DEF CompleteTokens
<1> HIDE DEF n, rest, first
<1>5. PICK sums \in [0..n -> Nat] :
        /\ sums[0] = first /\ sums[n] = Joined(first, rest)
        /\ \A k \in 1..n : sums[k] = sums[k - 1] + 1 + rest[k]
  BY <1>1, <1>3, JoinedFacts
<1> QED
  BY <1>1, <1>4, <1>5

\* A hunk without lines is its header.
LEMMA EmptyHunk ==
  ASSUME NEW hunk, hunk.header \in Pos, hunk.lines = <<>>
  PROVE  HunkTokens(hunk) = hunk.header
<1> DEFINE rest == [i \in DOMAIN hunk.lines |-> hunk.lines[i].tokens]
           first == hunk.header
           n == 0
<1>1. rest \in [1..n -> Nat] /\ first \in Nat /\ n \in Nat
  BY DEF Pos
<1>2. HunkTokens(hunk) = Joined(first, rest)
  BY DEF HunkTokens
<1> HIDE DEF rest, first, n
<1>3. PICK sums \in [0..n -> Nat] :
        /\ sums[0] = first /\ sums[n] = Joined(first, rest)
        /\ \A i \in 1..n : sums[i] = sums[i - 1] + 1 + rest[i]
  BY <1>1, JoinedFacts
<1> QED
  BY <1>2, <1>3 DEF first, n

-----------------------------------------------------------------------------
\* Lines and their order.

Triples == Pos \X Pos \X Pos

LEMMA LexicographicFacts ==
  /\ \A x \in Triples : ~Lexicographic(x, x)
  /\ \A x, y \in Triples : Lexicographic(x, y) \/ Lexicographic(y, x) \/ x = y
BY DEF Triples, Lexicographic, Pos

LEMMA LinesFacts ==
  ASSUME pr \in Seq(DiffFile)
  PROVE  /\ AllLines \subseteq Triples
         /\ \A x \in AllLines : /\ x[1] \in DOMAIN pr /\ x[2] \in DOMAIN pr[x[1]].hunks
                                /\ x[3] \in DOMAIN pr[x[1]].hunks[x[2]].lines
         /\ \A i \in DOMAIN pr :
              /\ FileLines(i) = {x \in AllLines : x[1] = i}
              /\ \A j \in DOMAIN pr[i].hunks :
                   /\ HunkLines(i, j) = {x \in AllLines : x[1] = i /\ x[2] = j}
                   /\ \A k \in DOMAIN pr[i].hunks[j].lines : <<i, j, k>> \in AllLines
<1>1. \A i \in DOMAIN pr : FileLines(i) \in Lines
  BY LinesType
<1>2. AllLines \subseteq Triples
  BY <1>1 DEF AllLines, Lines, Triples
<1>3. \A i \in DOMAIN pr : \A j \in DOMAIN pr[i].hunks : \A x \in HunkLines(i, j) :
        x[1] = i /\ x[2] = j /\ x[3] \in DOMAIN pr[i].hunks[j].lines
  BY DEF HunkLines
<1>4. \A i \in DOMAIN pr : \A x \in FileLines(i) :
        /\ x[1] = i /\ x[2] \in DOMAIN pr[i].hunks
        /\ x \in HunkLines(i, x[2]) /\ x[3] \in DOMAIN pr[i].hunks[x[2]].lines
  BY <1>3 DEF FileLines
<1>5. \A x \in AllLines : x[1] \in DOMAIN pr /\ x \in FileLines(x[1])
  BY <1>4 DEF AllLines
<1>6. \A i \in DOMAIN pr : FileLines(i) \subseteq AllLines
  BY DEF AllLines
<1>7. \A i \in DOMAIN pr : \A j \in DOMAIN pr[i].hunks : HunkLines(i, j) \subseteq FileLines(i)
  BY DEF FileLines
<1>8. \A i \in DOMAIN pr : FileLines(i) = {x \in AllLines : x[1] = i}
  BY <1>4, <1>5, <1>6
<1>9. \A i \in DOMAIN pr : \A j \in DOMAIN pr[i].hunks :
        HunkLines(i, j) = {x \in AllLines : x[1] = i /\ x[2] = j}
  BY <1>3, <1>4, <1>5, <1>6, <1>7
<1>10. \A i \in DOMAIN pr : \A j \in DOMAIN pr[i].hunks :
         \A k \in DOMAIN pr[i].hunks[j].lines : <<i, j, k>> \in HunkLines(i, j)
  BY DEF HunkLines
<1> QED
  BY <1>2, <1>4, <1>5, <1>6, <1>7, <1>8, <1>9, <1>10

-----------------------------------------------------------------------------
\* How lines come to be covered.

LEMMA LinesOfMembers ==
  ASSUME NEW frs, NEW items, NEW open
  PROVE  \A x : x \in LinesOf(frs, items, open) <=> \/ \E k \in DOMAIN frs : x \in frs[k].lines
                                                   \/ x \in open
                                                   \/ \E s \in items : x \in s.lines
<1> DEFINE ofFragments == UNION {frs[k].lines : k \in DOMAIN frs}
           ofItems == UNION {s.lines : s \in items}
<1>1. \A x : x \in ofFragments <=> \E k \in DOMAIN frs : x \in frs[k].lines
  OBVIOUS
<1>2. \A x : x \in ofItems <=> \E s \in items : x \in s.lines
  OBVIOUS
<1>3. LinesOf(frs, items, open) = ofFragments \cup open \cup ofItems
  BY DEF LinesOf
<1> HIDE DEF ofFragments, ofItems
<1> QED
  BY <1>1, <1>2, <1>3

\* Lines after all that were passed are collected.
LEMMA Collect ==
  ASSUME NEW frs, NEW items, NEW open, NEW passed, NEW new,
         Covered(frs, items, open, passed),
         \A x \in passed, y \in new : Lexicographic(x, y) /\ x # y
  PROVE  Covered(frs, items, open \cup new, passed \cup new)
<1>1. \A x : x \in passed <=> \/ \E k \in DOMAIN frs : x \in frs[k].lines
                              \/ x \in open
                              \/ \E s \in items : x \in s.lines
  BY LinesOfMembers DEF Covered
<1>2. \A i, j \in DOMAIN frs : i < j =>
        \A x \in frs[i].lines, y \in frs[j].lines : Lexicographic(x, y)
  BY DEF Covered
<1>3. \A i \in DOMAIN frs : \A x \in frs[i].lines, y \in open \cup new : Lexicographic(x, y)
  <2>1. \A i \in DOMAIN frs : \A x \in frs[i].lines, y \in open : Lexicographic(x, y)
    BY DEF Covered
  <2> QED
    BY <1>1, <2>1
<1>4. \A s \in items : /\ \A k \in DOMAIN frs : s.lines \cap frs[k].lines = {}
                       /\ s.lines \cap open = {}
                       /\ \A t \in items : s # t => s.lines \cap t.lines = {}
  BY DEF Covered
<1>5. \A s \in items : s.lines \cap (open \cup new) = {}
  BY <1>1, <1>4
<1>6. \A x : x \in passed \cup new <=> \/ \E k \in DOMAIN frs : x \in frs[k].lines
                                       \/ x \in open \cup new
                                       \/ \E s \in items : x \in s.lines
  BY <1>1
<1> QED
  BY <1>2, <1>3, <1>4, <1>5, <1>6, LinesOfMembers DEF Covered

\* The lines collected become a fragment.
LEMMA Flush ==
  ASSUME NEW frs \in Seq(FragmentType), NEW items, NEW open, NEW passed,
         NEW frag \in FragmentType, frag.lines = open,
         Covered(frs, items, open, passed)
  PROVE  Covered(Append(frs, frag), items, {}, passed)
<1> DEFINE more == Append(frs, frag)
           n == Len(frs)
<1>0. /\ n \in Nat /\ DOMAIN frs = 1..n /\ DOMAIN more = 1..(n + 1)
      /\ \A k \in 1..n : more[k] = frs[k]
      /\ more[n + 1] = frag
  OBVIOUS
<1> HIDE DEF more, n
<1>1. \A x : x \in passed <=> \/ \E k \in DOMAIN frs : x \in frs[k].lines
                              \/ x \in open
                              \/ \E s \in items : x \in s.lines
  BY LinesOfMembers DEF Covered
<1>2. \A x : (\E k \in DOMAIN more : x \in more[k].lines)
               <=> (\E k \in DOMAIN frs : x \in frs[k].lines) \/ x \in open
  <2>1. \A k \in DOMAIN frs : k \in DOMAIN more /\ more[k].lines = frs[k].lines
    BY <1>0
  <2>2. n + 1 \in DOMAIN more /\ more[n + 1].lines = open
    BY <1>0
  <2>3. \A k \in DOMAIN more : k \in DOMAIN frs \/ k = n + 1
    BY <1>0
  <2> QED
    BY <2>1, <2>2, <2>3
<1>3. \A i, j \in DOMAIN more : i < j =>
        \A x \in more[i].lines, y \in more[j].lines : Lexicographic(x, y)
  <2> SUFFICES ASSUME NEW i \in DOMAIN more, NEW j \in DOMAIN more, i < j,
                      NEW x \in more[i].lines, NEW y \in more[j].lines
               PROVE  Lexicographic(x, y)
    OBVIOUS
  <2>1. i \in DOMAIN frs /\ x \in frs[i].lines
    BY <1>0
  <2>2. CASE j \in DOMAIN frs
    <3>1. y \in frs[j].lines
      BY <1>0, <2>2
    <3> QED
      BY <2>1, <2>2, <3>1 DEF Covered
  <2>3. CASE j = n + 1
    <3>1. y \in open
      BY <1>0, <2>3
    <3> QED
      BY <2>1, <3>1 DEF Covered
  <2> QED
    BY <1>0, <2>2, <2>3
<1>4. \A s \in items : /\ \A k \in DOMAIN more : s.lines \cap more[k].lines = {}
                       /\ s.lines \cap {} = {}
                       /\ \A t \in items : s # t => s.lines \cap t.lines = {}
  <2>1. \A s \in items : /\ \A k \in DOMAIN frs : s.lines \cap frs[k].lines = {}
                         /\ s.lines \cap open = {}
                         /\ \A t \in items : s # t => s.lines \cap t.lines = {}
    BY DEF Covered
  <2>2. ASSUME NEW s \in items, NEW k \in DOMAIN more PROVE s.lines \cap more[k].lines = {}
    BY <1>0, <2>1
  <2> QED
    BY <2>1, <2>2
<1>5. \A x : x \in passed <=> \/ \E k \in DOMAIN more : x \in more[k].lines
                              \/ x \in {}
                              \/ \E s \in items : x \in s.lines
  BY <1>1, <1>2
<1>6. passed = LinesOf(more, items, {})
  <2>1. \A x : x \in passed <=> x \in LinesOf(more, items, {})
    BY <1>5, LinesOfMembers
  <2> QED
    BY <2>1
<1>7. Covered(more, items, {}, passed)
  BY <1>3, <1>4, <1>6 DEF Covered
<1> QED
  BY <1>7 DEF more

\* Lines after all that were passed become a fragment.
LEMMA AddFragment ==
  ASSUME NEW frs \in Seq(FragmentType), NEW items, NEW passed, NEW frag \in FragmentType,
         Covered(frs, items, {}, passed),
         \A x \in passed, y \in frag.lines : Lexicographic(x, y) /\ x # y
  PROVE  Covered(Append(frs, frag), items, {}, passed \cup frag.lines)
<1> DEFINE open == {} \cup frag.lines
           more == passed \cup frag.lines
<1>1. Covered(frs, items, open, more)
  BY Collect
<1>2. frag.lines = open
  OBVIOUS
<1> HIDE DEF open, more
<1>3. Covered(Append(frs, frag), items, {}, more)
  BY <1>1, <1>2, Flush
<1> QED
  BY <1>3 DEF more

\* Lines that were not passed become an item.
LEMMA AddItem ==
  ASSUME NEW frs, NEW items, NEW open, NEW passed, NEW item,
         Covered(frs, items, open, passed), item.lines \cap passed = {}
  PROVE  Covered(frs, items \cup {item}, open, passed \cup item.lines)
<1>1. \A x : x \in passed <=> \/ \E k \in DOMAIN frs : x \in frs[k].lines
                              \/ x \in open
                              \/ \E s \in items : x \in s.lines
  BY LinesOfMembers DEF Covered
<1>2. \A s \in items : /\ \A k \in DOMAIN frs : s.lines \cap frs[k].lines = {}
                       /\ s.lines \cap open = {}
                       /\ \A t \in items : s # t => s.lines \cap t.lines = {}
  BY DEF Covered
<1> DEFINE more == items \cup {item}
<1>3. /\ \A k \in DOMAIN frs : item.lines \cap frs[k].lines = {}
      /\ item.lines \cap open = {}
      /\ \A t \in items : item.lines \cap t.lines = {}
  BY <1>1
<1>4. \A s \in more : s \in items \/ s = item
  OBVIOUS
<1>5. items \subseteq more /\ item \in more
  OBVIOUS
<1> HIDE DEF more
<1>6. \A s \in more : /\ \A k \in DOMAIN frs : s.lines \cap frs[k].lines = {}
                      /\ s.lines \cap open = {}
                      /\ \A t \in more : s # t => s.lines \cap t.lines = {}
  <2> SUFFICES ASSUME NEW s \in more
               PROVE  /\ \A k \in DOMAIN frs : s.lines \cap frs[k].lines = {}
                      /\ s.lines \cap open = {}
                      /\ \A t \in more : s # t => s.lines \cap t.lines = {}
    OBVIOUS
  <2>1. CASE s \in items
    BY <1>2, <1>3, <1>4, <2>1
  <2>2. CASE s = item
    BY <1>3, <1>4, <2>2
  <2> QED
    BY <1>4, <2>1, <2>2
<1>7. \A x : x \in passed \cup item.lines <=> \/ \E k \in DOMAIN frs : x \in frs[k].lines
                                              \/ x \in open
                                              \/ \E s \in more : x \in s.lines
  BY <1>1, <1>4, <1>5
<1>8. Covered(frs, more, open, passed \cup item.lines)
  BY <1>6, <1>7, LinesOfMembers DEF Covered
<1> QED
  BY <1>8 DEF more

\* The lines passed come before the others.
LEMMA PassedFirst ==
  ASSUME TypeOK
  PROVE  /\ PassedLines \subseteq AllLines
         /\ \A x \in PassedLines, y \in AllLines :
              y \notin PassedLines => Lexicographic(x, y) /\ x # y
<1>1. pr \in Seq(DiffFile) /\ f \in Pos /\ h \in Pos /\ l \in Pos
  BY DEF TypeOK
<1>2. AllLines \subseteq Triples
  BY <1>1, LinesFacts
<1>3. \A x \in AllLines : x[1] \in Nat /\ x[2] \in Nat /\ x[3] \in Nat
  BY <1>2 DEF Triples, Pos
<1>4. f \in Nat /\ h \in Nat /\ l \in Nat
  BY <1>1 DEF Pos
<1> SUFFICES ASSUME NEW x \in PassedLines, NEW y \in AllLines, y \notin PassedLines
             PROVE  Lexicographic(x, y) /\ x # y
  BY DEF PassedLines
<1>5. x \in AllLines
  BY DEF PassedLines
<1>6. x # y
  OBVIOUS
<1>7. \/ x[1] < y[1]
      \/ x[1] = y[1] /\ x[2] < y[2]
      \/ x[1] = y[1] /\ x[2] = y[2] /\ x[3] < y[3]
  BY <1>3, <1>4, <1>5 DEF PassedLines
<1> QED
  BY <1>6, <1>7 DEF Lexicographic

-----------------------------------------------------------------------------
\* How the splitting goes on.

\* A fragment or an item more.
LEMMA FragmentMore ==
  ASSUME NEW frs \in Seq(FragmentType), NEW items, NEW frag \in FragmentType
  PROVE  /\ Reported(Append(frs, frag), items, frag.file)
         /\ \A i : Reported(frs, items, i) => Reported(Append(frs, frag), items, i)
         /\ Fitting(frs) /\ frag.tokens <= Budget => Fitting(Append(frs, frag))
<1> DEFINE more == Append(frs, frag)
           n == Len(frs)
<1>0. /\ n \in Nat /\ DOMAIN frs = 1..n /\ DOMAIN more = 1..(n + 1)
      /\ \A k \in 1..n : more[k] = frs[k]
      /\ more[n + 1] = frag
  OBVIOUS
<1> HIDE DEF more, n
<1>1. \A k \in DOMAIN frs : k \in DOMAIN more /\ more[k] = frs[k]
  BY <1>0
<1>2. n + 1 \in DOMAIN more
  BY <1>0
<1>3. \A k \in DOMAIN more : k \in DOMAIN frs \/ more[k] = frag
  BY <1>0
<1>4. Reported(more, items, frag.file)
  BY <1>0, <1>2 DEF Reported
<1>5. \A i : Reported(frs, items, i) => Reported(more, items, i)
  BY <1>1 DEF Reported
<1>6. Fitting(frs) /\ frag.tokens <= Budget => Fitting(more)
  BY <1>1, <1>3 DEF Fitting
<1> QED
  BY <1>4, <1>5, <1>6 DEF more

LEMMA ItemMore ==
  ASSUME NEW frs, NEW items, NEW item
  PROVE  /\ Reported(frs, items \cup {item}, item.file)
         /\ \A i : Reported(frs, items, i) => Reported(frs, items \cup {item}, i)
BY DEF Reported

LEMMA TooLargeMore ==
  ASSUME NEW item, skipped' = skipped \cup {item}, item.reason = "chunk_input_limit"
  PROVE  TooLarge' = TooLarge \cup {item}
BY DEF TooLarge

LEMMA SplittingInit == ASSUME Init PROVE Splitting
<1>1. /\ pr \in PRs /\ stage = "start" /\ f = 1 /\ fragments = <<>> /\ skipped = {}
      /\ part.lines = {}
  BY DEF Init, NoPart
<1>2. TooLarge = {} /\ PassedLines = {}
  BY <1>1 DEF TooLarge, PassedLines
<1>3. Covered(<<>>, {}, {}, {})
  BY LinesOfMembers DEF Covered
<1>4. OnlyOversizedSkipped /\ FilesReported
  BY <1>1 DEF OnlyOversizedSkipped, FilesReported
<1>5. Fitting(fragments)
  BY <1>1 DEF Fitting
<1> QED
  BY <1>1, <1>2, <1>3, <1>4, <1>5 DEF Splitting

\* The pull request is one fragment for each file.
LEMMA SplittingComplete == ASSUME TypeOK, Splitting, ChunkComplete PROVE Splitting'
<1> DEFINE frs == [i \in DOMAIN pr |-> WholeFile(i)]
<1>1. /\ pr \in Seq(DiffFile) /\ pr \in PRs /\ pr # <<>> /\ CompleteTokens(pr) <= Budget
      /\ pr' = pr /\ stage = "start" /\ stage' = "pack" /\ skipped' = skipped /\ skipped = {}
      /\ fragments' = frs /\ part' = part /\ part.lines = {}
  BY DEF TypeOK, Splitting, ChunkComplete, CompleteFits
<1>2. TooLarge' = {} /\ PassedLines' = AllLines
  BY <1>1 DEF TooLarge, PassedLines, AllLines, FileLines, HunkLines
<1>3. /\ DOMAIN frs = DOMAIN pr
      /\ \A i \in DOMAIN pr : /\ frs[i].lines = FileLines(i)
                              /\ frs[i].file = i
                              /\ frs[i].tokens = pr[i].tokens
  BY DEF WholeFile, Fragment
<1> HIDE DEF frs
<1>4. \A i \in DOMAIN pr : FileLines(i) = {x \in AllLines : x[1] = i}
  BY <1>1, LinesFacts
<1>5. \A x \in AllLines : x[1] \in DOMAIN pr
  BY <1>1, LinesFacts
<1>6. Covered(frs, {}, {}, AllLines)
  <2>1. \A x : x \in AllLines <=> \E k \in DOMAIN frs : x \in frs[k].lines
    BY <1>3, <1>4, <1>5
  <2>2. \A i, j \in DOMAIN frs : i < j =>
          \A x \in frs[i].lines, y \in frs[j].lines : Lexicographic(x, y)
    BY <1>3, <1>4 DEF Lexicographic
  <2>3. AllLines = LinesOf(frs, {}, {})
    <3>1. \A x : x \in AllLines <=> x \in LinesOf(frs, {}, {})
      BY <2>1, LinesOfMembers
    <3> QED
      BY <3>1
  <2> QED
    BY <2>2, <2>3 DEF Covered
<1>7. Fitting(frs)
  <2> SUFFICES ASSUME NEW i \in DOMAIN frs PROVE frs[i].tokens <= Budget
    BY DEF Fitting
  <2>1. i \in DOMAIN pr /\ frs[i].tokens = pr[i].tokens
    BY <1>3
  <2>2. pr[i].tokens <= CompleteTokens(pr)
    BY <1>1, <2>1, CompleteIsLargest
  <2>3. pr[i].tokens \in Nat
    BY <1>1, <2>1, PRType DEF Pos
  <2>4. CompleteTokens(pr) \in Nat
    BY <1>1, CompleteType
  <2> QED
    BY <1>1, <2>1, <2>2, <2>3, <2>4, LimitsAssumption DEF Pos
<1>8. \A i \in DOMAIN pr : Reported(frs, {}, i)
  BY <1>3 DEF Reported
<1>9. FilesReported' /\ OnlyOversizedSkipped'
  BY <1>1, <1>2, <1>8 DEF FilesReported, OnlyOversizedSkipped
<1> QED
  BY <1>1, <1>2, <1>6, <1>7, <1>9 DEF Splitting

\* One file more is passed, as a fragment of its own.
LEMMA SplittingKeepFile == ASSUME TypeOK, Splitting, KeepFile PROVE Splitting'
<1> DEFINE frag == WholeFile(f)
<1>1. /\ pr \in Seq(DiffFile) /\ pr \in PRs /\ f \in DOMAIN pr /\ f \in Pos
      /\ pr[f].tokens <= Budget /\ stage = "files" /\ fragments \in Seq(FragmentType)
      /\ pr' = pr /\ stage' = stage /\ skipped' = skipped /\ part' = part /\ f' = f + 1
      /\ fragments' = Append(fragments, frag)
  BY DEF TypeOK, Splitting, KeepFile
<1>2. /\ frag.lines = FileLines(f) /\ frag.file = f /\ frag.tokens = pr[f].tokens
      /\ frag \in FragmentType
  <2>1. pr[f].tokens \in Pos /\ FileLines(f) \in Lines /\ 0 \in Nat
    BY <1>1, PRType, LinesType
  <2> QED
    BY <1>1, <2>1, FragmentIsTyped DEF WholeFile, Fragment
<1> HIDE DEF frag
<1>3. TooLarge' = TooLarge /\ part.lines = {}
  BY <1>1 DEF TooLarge, Splitting
<1>4. FileLines(f) = {x \in AllLines : x[1] = f}
  BY <1>1, LinesFacts
<1>5. \A x \in AllLines : x[1] \in Nat
  BY <1>1, LinesFacts DEF Triples, Pos
<1>6. AllLines' = AllLines
  BY <1>1 DEF AllLines, FileLines, HunkLines
<1>7. PassedLines' = PassedLines \cup frag.lines
  <2>1. \A x \in AllLines : x[1] < f + 1 <=> x[1] < f \/ x[1] = f
    BY <1>1, <1>5 DEF Pos
  <2> QED
    BY <1>1, <1>2, <1>4, <1>6, <2>1 DEF PassedLines
<1>8. \A x \in PassedLines, y \in frag.lines : Lexicographic(x, y) /\ x # y
  <2>1. \A y \in frag.lines : y \in AllLines /\ y \notin PassedLines
    BY <1>1, <1>2, <1>4, <1>5 DEF PassedLines, Pos
  <2> QED
    BY <2>1, PassedFirst
<1>9. Covered(fragments, TooLarge, {}, PassedLines)
  BY <1>3 DEF Splitting
<1>10. Covered(fragments', TooLarge', {}, PassedLines')
  BY <1>1, <1>2, <1>3, <1>7, <1>8, <1>9, AddFragment
<1>11. /\ \A i : Reported(fragments, TooLarge, i) => Reported(fragments', TooLarge', i)
       /\ Reported(fragments', TooLarge', f)
       /\ Fitting(fragments')
  BY <1>1, <1>2, <1>3, FragmentMore DEF Splitting
<1>12. FilesReported'
  <2>1. \A i \in DOMAIN pr : i < f + 1 => i < f \/ i = f
    BY <1>1 DEF Pos
  <2>2. \A i \in DOMAIN pr : i < f => Reported(fragments, TooLarge, i)
    BY <1>1 DEF Splitting, FilesReported
  <2>3. \A i \in DOMAIN pr : i < f + 1 => Reported(fragments', TooLarge', i)
    BY <1>11, <2>1, <2>2
  <2> QED
    BY <1>1, <2>3 DEF FilesReported
<1>13. OnlyOversizedSkipped'
  BY <1>1 DEF Splitting, OnlyOversizedSkipped
<1> QED
  BY <1>1, <1>3, <1>10, <1>11, <1>12, <1>13 DEF Splitting

\* The steps that look at the next file or into a hunk pass no line.
LEMMA SplittingLooks ==
  ASSUME TypeOK, Splitting, ChunkByFile \/ SplitFile \/ SplitHunk \/ EndFiles
  PROVE  Splitting'
<1>1. /\ pr \in Seq(DiffFile) /\ pr \in PRs /\ f \in Pos /\ h \in Pos /\ l \in Pos
      /\ pr' = pr /\ f' = f /\ skipped' = skipped /\ fragments' = fragments
      /\ part.lines = {} /\ part'.lines = {}
      /\ stage' # "start"
  BY DEF TypeOK, Splitting, ChunkByFile, SplitFile, SplitHunk, HunkTooLarge, EndFiles, NoPart
<1>2. TooLarge' = TooLarge
  BY <1>1 DEF TooLarge
<1>3. \A x \in AllLines : /\ x[1] \in Nat /\ x[1] >= 1 /\ x[2] \in Nat /\ x[2] >= 1
                          /\ x[3] \in Nat /\ x[3] >= 1
                          /\ x[1] \in DOMAIN pr
  BY <1>1, LinesFacts DEF Triples, Pos
<1>4. AllLines' = AllLines
  BY <1>1 DEF AllLines, FileLines, HunkLines
<1>5. PassedLines' = PassedLines
  <2>1. CASE ChunkByFile
    <3>1. stage = "start" /\ stage' = "files" /\ f = 1
      BY <2>1 DEF ChunkByFile, Splitting
    <3> QED
      BY <1>1, <1>3, <1>4, <3>1 DEF PassedLines
  <2>2. CASE SplitFile
    <3>1. stage = "files" /\ stage' = "hunks" /\ h' = 1
      BY <2>2 DEF SplitFile
    <3> QED
      BY <1>1, <1>3, <1>4, <3>1 DEF PassedLines
  <2>3. CASE SplitHunk
    <3>1. stage = "hunks" /\ stage' = "lines" /\ h' = h /\ l' = 1
      BY <2>3 DEF SplitHunk, HunkTooLarge
    <3> QED
      BY <1>1, <1>3, <1>4, <3>1 DEF PassedLines
  <2>4. CASE EndFiles
    <3>1. stage = "files" /\ stage' = "pack" /\ f \notin DOMAIN pr
      BY <2>4 DEF EndFiles
    <3>2. \A i \in DOMAIN pr : i < f
      BY <1>1, <3>1 DEF Pos
    <3> QED
      BY <1>1, <1>3, <1>4, <3>1, <3>2 DEF PassedLines
  <2> QED
    BY <2>1, <2>2, <2>3, <2>4
<1>6. Covered(fragments', TooLarge', part'.lines, PassedLines')
  BY <1>1, <1>2, <1>5 DEF Splitting
<1>7. FilesReported'
  <2>1. CASE ChunkByFile
    <3>1. stage' = "files" /\ f = 1
      BY <2>1 DEF ChunkByFile, Splitting
    <3>2. \A i \in DOMAIN pr : ~(i < 1)
      BY <1>1
    <3> QED
      BY <1>1, <3>1, <3>2 DEF FilesReported
  <2>2. CASE SplitFile
    <3>1. stage = "files" /\ stage' = "hunks" /\ h' = 1
      BY <2>2 DEF SplitFile
    <3> QED
      BY <1>1, <1>2, <3>1 DEF FilesReported, Splitting
  <2>3. CASE SplitHunk
    <3>1. stage = "hunks" /\ stage' = "lines" /\ h' = h /\ l' = 1
      BY <2>3 DEF SplitHunk, HunkTooLarge
    <3>2. pr[f].hunks[h].lines # <<>>
      <4> DEFINE hunk == pr[f].hunks[h]
      <4>1. /\ f \in DOMAIN pr /\ h \in DOMAIN pr[f].hunks
            /\ Join(pr[f].headers, hunk.tokens) > Budget
            /\ Join(pr[f].headers, hunk.header) < Budget
        BY <2>3 DEF SplitHunk, HunkTooLarge, Prefix, TypeOK
      <4>2. hunk.tokens = HunkTokens(hunk)
        BY <1>1, <4>1, RenderAssumption
      <4>3. hunk.header \in Pos /\ hunk.tokens \in Pos /\ pr[f].headers \in Pos
        BY <1>1, <4>1, PRType
      <4> HIDE DEF hunk
      <4>4. SUFFICES ASSUME hunk.lines = <<>> PROVE FALSE
        BY DEF hunk
      <4>5. hunk.tokens = hunk.header
        BY <4>2, <4>3, <4>4, EmptyHunk
      <4>6. Join(pr[f].headers, hunk.header) \in Nat /\ Budget \in Nat
        BY <4>3, LimitsAssumption DEF Join, Pos
      <4> QED
        BY <4>1, <4>5, <4>6
    <3> QED
      BY <1>1, <1>2, <3>1, <3>2 DEF FilesReported, Splitting
  <2>4. CASE EndFiles
    <3>1. stage = "files" /\ stage' = "pack" /\ f \notin DOMAIN pr
      BY <2>4 DEF EndFiles
    <3>2. \A i \in DOMAIN pr : i < f
      BY <1>1, <3>1 DEF Pos
    <3> QED
      BY <1>1, <1>2, <3>1, <3>2 DEF FilesReported, Splitting
  <2> QED
    BY <2>1, <2>2, <2>3, <2>4
<1>8. OnlyOversizedSkipped'
  BY <1>1 DEF Splitting, OnlyOversizedSkipped
<1> QED
  BY <1>1, <1>6, <1>7, <1>8 DEF Splitting

\* What KeepHunk and SkipHunk share: the lines of one hunk more are passed.
LEMMA HunkPassed ==
  ASSUME TypeOK, Splitting, stage = "hunks", h \in DOMAIN pr[f].hunks,
         pr' = pr, stage' = stage, f' = f, h' = h + 1
  PROVE  /\ f \in DOMAIN pr /\ f \in Pos /\ h \in Pos /\ h \in Nat
         /\ HunkLines(f, h) \in Lines
         /\ \A x \in HunkLines(f, h) : x[1] = f /\ x[2] = h
         /\ PassedLines' = PassedLines \cup HunkLines(f, h)
         /\ HunkLines(f, h) \cap PassedLines = {}
         /\ \A x \in PassedLines, y \in HunkLines(f, h) : Lexicographic(x, y) /\ x # y
<1>1. pr \in Seq(DiffFile) /\ f \in DOMAIN pr /\ f \in Pos /\ h \in Pos /\ h \in Nat
  BY DEF TypeOK, Pos
<1>2. HunkLines(f, h) \in Lines
  BY <1>1, LinesType
<1>3. HunkLines(f, h) = {x \in AllLines : x[1] = f /\ x[2] = h}
  BY <1>1, LinesFacts
<1>4. \A x \in AllLines : x[1] \in Nat /\ x[2] \in Nat
  BY <1>1, LinesFacts DEF Triples, Pos
<1>5. AllLines' = AllLines
  BY DEF AllLines, FileLines, HunkLines
<1>6. PassedLines' = PassedLines \cup HunkLines(f, h)
  <2>1. \A x \in AllLines : x[2] < h + 1 <=> x[2] < h \/ x[2] = h
    BY <1>1, <1>4
  <2> QED
    BY <1>3, <1>5, <2>1 DEF PassedLines
<1>7. \A y \in HunkLines(f, h) : y \in AllLines /\ y \notin PassedLines
  BY <1>1, <1>3, <1>4 DEF PassedLines, Pos
<1>8. \A x \in PassedLines, y \in HunkLines(f, h) : Lexicographic(x, y) /\ x # y
  BY <1>7, PassedFirst
<1> QED
  BY <1>1, <1>2, <1>3, <1>6, <1>7, <1>8

\* The hunk is a fragment of its own.
LEMMA SplittingKeepHunk == ASSUME TypeOK, Splitting, KeepHunk PROVE Splitting'
<1> DEFINE tokens == Join(pr[f].headers, pr[f].hunks[h].tokens)
           lines == HunkLines(f, h)
           frag == Fragment(f, h, lines, tokens)
<1>1. /\ pr \in PRs /\ pr \in Seq(DiffFile) /\ tokens <= Budget
      /\ stage = "hunks" /\ h \in DOMAIN pr[f].hunks /\ fragments \in Seq(FragmentType)
      /\ pr' = pr /\ stage' = stage /\ skipped' = skipped /\ part' = part /\ f' = f /\ h' = h + 1
      /\ fragments' = Append(fragments, frag)
  BY DEF TypeOK, Splitting, KeepHunk
<1>2. /\ f \in DOMAIN pr /\ f \in Pos /\ h \in Pos /\ h \in Nat
      /\ lines \in Lines
      /\ PassedLines' = PassedLines \cup lines
      /\ \A x \in PassedLines, y \in lines : Lexicographic(x, y) /\ x # y
  BY <1>1, HunkPassed
<1>3. /\ frag.lines = lines /\ frag.file = f /\ frag.tokens = tokens
      /\ frag \in FragmentType
  <2>1. pr[f].headers \in Nat /\ pr[f].hunks[h].tokens \in Pos
    BY <1>1, <1>2, PRType DEF Pos
  <2>2. tokens \in Pos
    BY <2>1, JoinType
  <2> HIDE DEF tokens, lines
  <2>3. frag \in FragmentType
    BY <1>2, <2>2, FragmentIsTyped
  <2> QED
    BY <2>3 DEF Fragment
<1> HIDE DEF tokens, lines, frag
<1>4. TooLarge' = TooLarge /\ part.lines = {}
  BY <1>1 DEF TooLarge, Splitting
<1>5. Covered(fragments, TooLarge, {}, PassedLines)
  BY <1>4 DEF Splitting
<1>6. Covered(fragments', TooLarge', {}, PassedLines')
  BY <1>1, <1>2, <1>3, <1>4, <1>5, AddFragment
<1>7. /\ \A i : Reported(fragments, TooLarge, i) => Reported(fragments', TooLarge', i)
      /\ Reported(fragments', TooLarge', f)
      /\ Fitting(fragments')
  BY <1>1, <1>3, <1>4, FragmentMore DEF Splitting
<1>8. FilesReported'
  <2>1. \A i \in DOMAIN pr : i < f => Reported(fragments, TooLarge, i)
    BY <1>1 DEF Splitting, FilesReported
  <2> QED
    BY <1>1, <1>7, <2>1 DEF FilesReported
<1>9. OnlyOversizedSkipped'
  BY <1>1 DEF Splitting, OnlyOversizedSkipped
<1> QED
  BY <1>1, <1>4, <1>6, <1>7, <1>8, <1>9 DEF Splitting

\* The hunk is an item: the headers alone leave no room for a line.
LEMMA SplittingSkipHunk == ASSUME TypeOK, Splitting, SkipHunk PROVE Splitting'
<1> DEFINE lines == HunkLines(f, h)
           item == Skip(f, h, lines, "chunk_input_limit")
<1>1. /\ pr \in PRs /\ pr \in Seq(DiffFile) /\ Prefix >= Budget
      /\ stage = "hunks" /\ h \in DOMAIN pr[f].hunks
      /\ pr' = pr /\ stage' = stage /\ part' = part /\ f' = f /\ h' = h + 1
      /\ fragments' = fragments
      /\ skipped' = skipped \cup {item}
  BY DEF TypeOK, Splitting, SkipHunk, HunkTooLarge
<1>2. /\ f \in DOMAIN pr /\ f \in Pos /\ h \in Pos /\ h \in Nat
      /\ PassedLines' = PassedLines \cup lines
      /\ \A x \in lines : x[1] = f /\ x[2] = h
      /\ lines \cap PassedLines = {}
  BY <1>1, HunkPassed
<1>3. item.lines = lines /\ item.file = f /\ item.reason = "chunk_input_limit"
  BY DEF Skip
<1>4. \A x \in lines : x[3] \in DOMAIN pr[f].hunks[h].lines
  BY DEF HunkLines
<1> HIDE DEF lines, item
<1>5. TooLarge' = TooLarge \cup {item} /\ part.lines = {}
  BY <1>1, <1>3, TooLargeMore DEF Splitting
<1>6. Covered(fragments, TooLarge, {}, PassedLines)
  BY <1>5 DEF Splitting
<1>7. Covered(fragments', TooLarge', {}, PassedLines')
  BY <1>1, <1>2, <1>3, <1>5, <1>6, AddItem
<1>8. /\ \A i : Reported(fragments, TooLarge, i) => Reported(fragments', TooLarge', i)
      /\ Reported(fragments', TooLarge', f)
  BY <1>1, <1>3, <1>5, ItemMore
<1>9. FilesReported'
  <2>1. \A i \in DOMAIN pr : i < f => Reported(fragments, TooLarge, i)
    BY <1>1 DEF Splitting, FilesReported
  <2> QED
    BY <1>1, <1>8, <2>1 DEF FilesReported
<1>10. OnlyOversizedSkipped'
  <2> SUFFICES ASSUME NEW s \in skipped \cup {item}, s.reason = "chunk_input_limit",
                      NEW x \in s.lines
               PROVE  Join(pr[x[1]].headers, pr[x[1]].hunks[x[2]].header) + 1
                        + pr[x[1]].hunks[x[2]].lines[x[3]].tokens > Budget
    BY <1>1 DEF OnlyOversizedSkipped
  <2>1. CASE s \in skipped
    BY <2>1 DEF Splitting, OnlyOversizedSkipped
  <2>2. CASE s = item
    <3> DEFINE ls == pr[f].hunks[h].lines
               tokens == ls[x[3]].tokens
    <3>1. x[1] = f /\ x[2] = h /\ x[3] \in DOMAIN ls
      BY <1>2, <1>3, <1>4, <2>2
    <3>2. /\ pr[f].headers \in Pos /\ pr[f].hunks[h].header \in Pos /\ ls \in Seq(DiffLine)
      BY <1>1, <1>2, PRType
    <3> HIDE DEF ls
    <3>3. tokens \in Pos
      BY <3>1, <3>2, LineType
    <3> HIDE DEF tokens
    <3>4. Prefix \in Nat
      BY <3>2 DEF Prefix, Join, Pos
    <3>5. Prefix + 1 + tokens > Budget
      BY <1>1, <3>3, <3>4, LimitsAssumption DEF Pos
    <3> QED
      BY <3>1, <3>5 DEF Prefix, tokens, ls
  <2> QED
    BY <2>1, <2>2
<1> QED
  BY <1>1, <1>5, <1>7, <1>9, <1>10 DEF Splitting

\* Behind the last hunk: a file without hunks is an item, of no lines.
LEMMA SplittingEndFile == ASSUME TypeOK, Splitting, EndFile PROVE Splitting'
<1> DEFINE item == Skip(f, 0, {}, "chunk_input_limit")
<1>1. /\ pr \in PRs /\ pr \in Seq(DiffFile) /\ f \in DOMAIN pr /\ f \in Nat /\ h \in Nat /\ h >= 1
      /\ stage = "hunks" /\ h \notin DOMAIN pr[f].hunks
      /\ pr' = pr /\ stage' = "files" /\ part' = part /\ f' = f + 1
      /\ fragments' = fragments
      /\ skipped' = IF pr[f].hunks = <<>> THEN skipped \cup {item} ELSE skipped
  BY DEF TypeOK, Splitting, EndFile, Pos
<1>2. item.lines = {} /\ item.file = f /\ item.reason = "chunk_input_limit"
  BY DEF Skip
<1> HIDE DEF item
<1>3. pr[f].hunks \in Seq(DiffHunk)
  <2>1. pr[f] \in DiffFile
    BY <1>1
  <2> QED
    BY <2>1 DEF DiffFile
<1>4. PassedLines' = PassedLines
  <2>1. AllLines' = AllLines
    BY <1>1 DEF AllLines, FileLines, HunkLines
  <2>2. \A x \in AllLines : x[1] \in Nat /\ x[2] \in Nat /\ (x[1] = f => x[2] \in DOMAIN pr[f].hunks)
    BY <1>1, LinesFacts DEF Triples, Pos
  <2> DEFINE hs == pr[f].hunks
  <2>3. \A j \in DOMAIN hs : j < h
    <3>1. hs \in Seq(DiffHunk) /\ h \notin DOMAIN hs
      BY <1>1, <1>3
    <3> HIDE DEF hs
    <3> QED
      BY <1>1, <3>1
  <2>4. \A x \in AllLines : x[1] < f + 1 <=> x[1] < f \/ (x[1] = f /\ x[2] < h)
    BY <1>1, <2>2, <2>3
  <2> QED
    BY <1>1, <2>1, <2>4 DEF PassedLines
<1>5. part.lines = {}
  BY <1>1 DEF Splitting
<1>6. Covered(fragments, TooLarge, {}, PassedLines)
  BY <1>5 DEF Splitting
<1>7. \A i \in DOMAIN pr : i < f => Reported(fragments, TooLarge, i)
  BY <1>1 DEF Splitting, FilesReported
<1>8. /\ Covered(fragments', TooLarge', {}, PassedLines')
      /\ \A i : Reported(fragments, TooLarge, i) => Reported(fragments', TooLarge', i)
      /\ Reported(fragments', TooLarge', f)
      /\ OnlyOversizedSkipped'
  <2>1. CASE pr[f].hunks = <<>>
    <3>1. TooLarge' = TooLarge \cup {item} /\ PassedLines \cup item.lines = PassedLines
      BY <1>1, <1>2, <2>1, TooLargeMore
    <3>2. Covered(fragments, TooLarge \cup {item}, {}, PassedLines \cup item.lines)
      BY <1>2, <1>6, AddItem
    <3>3. OnlyOversizedSkipped'
      BY <1>1, <1>2, <2>1 DEF OnlyOversizedSkipped, Splitting
    <3>4. /\ \A i : Reported(fragments, TooLarge, i) => Reported(fragments', TooLarge', i)
          /\ Reported(fragments', TooLarge', f)
      BY <1>1, <1>2, <3>1, ItemMore
    <3> QED
      BY <1>1, <1>4, <3>1, <3>2, <3>3, <3>4
  <2>2. CASE pr[f].hunks # <<>>
    <3>1. TooLarge' = TooLarge
      BY <1>1, <2>2 DEF TooLarge
    <3>2. h > 1
      <4> DEFINE hs == pr[f].hunks
      <4>1. hs \in Seq(DiffHunk) /\ hs # <<>> /\ h \notin DOMAIN hs
        BY <1>1, <1>3, <2>2
      <4> HIDE DEF hs
      <4>2. Len(hs) \in Nat /\ Len(hs) # 0 /\ DOMAIN hs = 1..Len(hs)
        BY <4>1
      <4> QED
        BY <1>1, <4>1, <4>2
    <3>3. Reported(fragments, TooLarge, f)
      BY <1>1, <3>2 DEF Splitting, FilesReported
    <3>4. OnlyOversizedSkipped'
      BY <1>1, <2>2 DEF OnlyOversizedSkipped, Splitting
    <3> QED
      BY <1>1, <1>4, <1>6, <3>1, <3>3, <3>4
  <2> QED
    BY <2>1, <2>2
<1>9. FilesReported'
  <2>1. \A i \in DOMAIN pr : i < f + 1 => i < f \/ i = f
    BY <1>1
  <2>2. \A i \in DOMAIN pr : i < f + 1 => Reported(fragments', TooLarge', i)
    BY <1>7, <1>8, <2>1
  <2> QED
    BY <1>1, <2>2 DEF FilesReported
<1> QED
  BY <1>1, <1>5, <1>8, <1>9 DEF Splitting

\* The part that is closed becomes a fragment of the file and of the budget.
LEMMA PartCloses ==
  ASSUME TypeOK, Splitting, stage = "lines", part.lines # {}
  PROVE  /\ PartFragment \in FragmentType
         /\ PartFragment.file = f
         /\ Covered(Append(fragments, PartFragment), TooLarge, {}, PassedLines)
         /\ Reported(Append(fragments, PartFragment), TooLarge, f)
         /\ \A i : Reported(fragments, TooLarge, i)
                     => Reported(Append(fragments, PartFragment), TooLarge, i)
         /\ Fitting(Append(fragments, PartFragment))
<1> DEFINE frag == PartFragment
<1>1. frag \in FragmentType /\ fragments \in Seq(FragmentType)
  BY PartIsTyped DEF TypeOK
<1>2. frag.file = f /\ frag.lines = part.lines /\ frag.tokens = part.tokens
  BY DEF PartFragment, Fragment
<1>3. /\ Covered(fragments, TooLarge, part.lines, PassedLines)
      /\ Fitting(fragments) /\ part.tokens <= Budget
  BY DEF Splitting
<1> HIDE DEF frag
<1>4. Covered(Append(fragments, frag), TooLarge, {}, PassedLines)
  BY <1>1, <1>2, <1>3, Flush
<1>5. /\ Reported(Append(fragments, frag), TooLarge, f)
      /\ \A i : Reported(fragments, TooLarge, i) => Reported(Append(fragments, frag), TooLarge, i)
      /\ Fitting(Append(fragments, frag))
  BY <1>1, <1>2, <1>3, FragmentMore
<1> QED
  BY <1>1, <1>2, <1>4, <1>5 DEF frag

\* The line looked at is the first of those not passed.
LEMMA LinePassed ==
  ASSUME TypeOK, stage = "lines", l \in DOMAIN pr[f].hunks[h].lines,
         pr' = pr, stage' = stage, f' = f, h' = h, l' = l + 1
  PROVE  /\ PassedLines' = PassedLines \cup {<<f, h, l>>}
         /\ <<f, h, l>> \notin PassedLines
         /\ \A x \in PassedLines : Lexicographic(x, <<f, h, l>>) /\ x # <<f, h, l>>
<1>1. /\ pr \in Seq(DiffFile) /\ f \in DOMAIN pr /\ h \in DOMAIN pr[f].hunks
      /\ f \in Nat /\ h \in Nat /\ l \in Nat
  BY DEF TypeOK, Pos
<1>2. AllLines' = AllLines
  BY DEF AllLines, FileLines, HunkLines
<1>3. <<f, h, l>> \in AllLines
  BY <1>1, LinesFacts
<1>4. \A x \in AllLines : x = <<x[1], x[2], x[3]>> /\ x[1] \in Nat /\ x[2] \in Nat /\ x[3] \in Nat
  BY <1>1, LinesFacts DEF Triples, Pos
<1> DEFINE line == <<f, h, l>>
<1>5. line[1] = f /\ line[2] = h /\ line[3] = l
  OBVIOUS
<1>6. \A x \in AllLines : x = line <=> x[1] = f /\ x[2] = h /\ x[3] = l
  BY <1>4
<1> HIDE DEF line
<1>7. PassedLines' = PassedLines \cup {line}
  <2>1. \A x \in AllLines : x[3] < l + 1 <=> x[3] < l \/ x[3] = l
    BY <1>1, <1>4
  <2>2. line \in AllLines
    BY <1>3 DEF line
  <2>3. PassedLines' \subseteq PassedLines \cup {line}
    BY <1>2, <1>6, <2>1 DEF PassedLines
  <2>4. PassedLines \subseteq PassedLines'
    BY <1>2, <2>1 DEF PassedLines
  <2>5. line \in PassedLines'
    BY <1>1, <1>2, <1>5, <2>2 DEF PassedLines
  <2> QED
    BY <2>3, <2>4, <2>5
<1>8. line \in AllLines /\ line \notin PassedLines
  BY <1>1, <1>3, <1>5 DEF PassedLines, line
<1>9. \A x \in PassedLines : Lexicographic(x, line) /\ x # line
  BY <1>8, PassedFirst
<1> QED
  BY <1>7, <1>8, <1>9 DEF line

\* A line is collected, in the part that was open or in a new one, or is an item of its own.
LEMMA SplittingLine == ASSUME TypeOK, Splitting, SplitLine PROVE Splitting'
<1> DEFINE ls == pr[f].hunks[h].lines
           tokens == ls[l].tokens
           line == <<f, h, l>>
           open == IF PartFull(tokens) THEN NoPart ELSE part
           candidate == (IF open.lines = {} THEN Prefix ELSE open.tokens) + 1 + tokens
           item == Skip(f, h, {line}, "chunk_input_limit")
<1>1. /\ pr \in PRs /\ pr \in Seq(DiffFile) /\ stage = "lines" /\ l \in DOMAIN ls
      /\ f \in DOMAIN pr /\ h \in DOMAIN pr[f].hunks /\ l \in Nat /\ f \in Nat
      /\ fragments \in Seq(FragmentType)
      /\ pr' = pr /\ stage' = stage /\ f' = f /\ h' = h /\ l' = l + 1
      /\ fragments' = IF PartFull(tokens) THEN Append(fragments, PartFragment) ELSE fragments
      /\ ls # <<>>
  BY DEF TypeOK, Splitting, FilesReported, SplitLine, Pos
<1>2. \/ /\ candidate > Budget
         /\ skipped' = skipped \cup {item}
         /\ part' = open
      \/ /\ ~(candidate > Budget)
         /\ skipped' = skipped
         /\ part' = [lines |-> open.lines \cup {line}, tokens |-> candidate]
  BY Zenon DEF SplitLine
<1>3. /\ PassedLines' = PassedLines \cup {line}
      /\ line \notin PassedLines
      /\ \A x \in PassedLines : Lexicographic(x, line) /\ x # line
  BY <1>1, LinePassed
<1>4. /\ item.lines = {line} /\ item.file = f /\ item.reason = "chunk_input_limit"
  BY DEF Skip
<1>5. tokens \in Pos /\ Prefix \in Nat /\ Budget \in Nat /\ part.tokens \in Nat
  <2>1. pr[f].headers \in Pos /\ pr[f].hunks[h].header \in Pos /\ ls \in Seq(DiffLine)
    BY <1>1, PRType
  <2>2. Prefix \in Nat
    BY <2>1 DEF Prefix, Join, Pos
  <2> HIDE DEF ls
  <2>3. tokens \in Pos
    BY <1>1, <2>1, LineType
  <2> QED
    BY <2>2, <2>3, LimitsAssumption DEF TypeOK, Pos
<1>6. line[1] = f /\ line[2] = h /\ line[3] = l
  OBVIOUS
<1>7. /\ Covered(fragments', TooLarge, open.lines, PassedLines)
      /\ Fitting(fragments')
      /\ \A i : Reported(fragments, TooLarge, i) => Reported(fragments', TooLarge, i)
      /\ l > 1 => Reported(fragments', TooLarge, f) \/ open.lines # {}
      /\ open.lines # {} => open.tokens <= Budget
  <2>1. CASE PartFull(tokens)
    <3>1. fragments' = Append(fragments, PartFragment) /\ part.lines # {} /\ open.lines = {}
      BY <1>1, <2>1 DEF PartFull, NoPart
    <3> QED
      BY <1>1, <3>1, PartCloses
  <2>2. CASE ~PartFull(tokens)
    <3>1. fragments' = fragments /\ open = part
      BY <1>1, <2>2
    <3> QED
      BY <1>1, <3>1 DEF Splitting, FilesReported
  <2> QED
    BY <2>1, <2>2
<1>8. open.lines # {} => open.tokens + 1 + tokens <= Budget
  <2>1. CASE PartFull(tokens)
    BY <2>1 DEF NoPart
  <2>2. CASE ~PartFull(tokens)
    <3>1. open = part
      BY <2>2
    <3>2. part.lines # {} => ~(part.tokens + 1 + tokens > Budget)
      BY <2>2 DEF PartFull
    <3> HIDE DEF open, tokens
    <3> QED
      BY <1>5, <3>1, <3>2 DEF Pos
  <2> QED
    BY <2>1, <2>2
<1>9. /\ open.lines = {} => candidate = Prefix + 1 + tokens
      /\ open.lines # {} => candidate = open.tokens + 1 + tokens
  OBVIOUS
<1>10. candidate \in Nat
  <2>1. open.tokens \in Nat
    BY <1>5 DEF NoPart
  <2> HIDE DEF open, tokens
  <2> QED
    BY <1>5, <2>1 DEF Pos
<1>11. \A i \in DOMAIN pr : i < f => Reported(fragments, TooLarge, i)
  BY <1>1 DEF Splitting, FilesReported
<1>12. pr'[f'].hunks[h'].lines = ls
  BY <1>1
<1>13. OnlyOversizedSkipped
  BY DEF Splitting
<1>14. CASE candidate > Budget
  <2>1. skipped' = skipped \cup {item} /\ part' = open /\ TooLarge' = TooLarge \cup {item}
    <3>1. skipped' = skipped \cup {item} /\ part' = open
      <4> HIDE DEF candidate, item, open
      <4> QED
        BY <1>2, <1>14
    <3> QED
      BY <1>4, <3>1, TooLargeMore
  <2>2. Prefix + 1 + tokens > Budget
    <3>1. open.lines = {}
      <4> SUFFICES ASSUME open.lines # {} PROVE FALSE
        OBVIOUS
      <4>1. candidate <= Budget
        BY <1>8, <1>9
      <4> HIDE DEF candidate
      <4> QED
        BY <1>5, <1>10, <1>14, <4>1
    <3> QED
      BY <1>9, <1>14, <3>1
  <2> HIDE DEF item, open, candidate
  <2>3. Covered(fragments', TooLarge', part'.lines, PassedLines')
    <3>1. item.lines \cap PassedLines = {}
      BY <1>3, <1>4
    <3>2. Covered(fragments', TooLarge \cup {item}, open.lines, PassedLines \cup item.lines)
      BY <1>7, <3>1, AddItem
    <3> QED
      BY <1>3, <1>4, <2>1, <3>2
  <2>4. /\ \A i : Reported(fragments, TooLarge, i) => Reported(fragments', TooLarge', i)
        /\ Reported(fragments', TooLarge', f)
    BY <1>4, <1>7, <2>1, ItemMore
  <2>5. FilesReported'
    <3>1. h > 1 => Reported(fragments, TooLarge, f)
      BY <1>1 DEF Splitting, FilesReported
    <3> QED
      BY <1>1, <1>11, <1>12, <2>4, <3>1 DEF FilesReported
  <2>6. OnlyOversizedSkipped'
    <3> SUFFICES ASSUME NEW s \in skipped \cup {item}, s.reason = "chunk_input_limit",
                        NEW x \in s.lines
                 PROVE  Join(pr[x[1]].headers, pr[x[1]].hunks[x[2]].header) + 1
                          + pr[x[1]].hunks[x[2]].lines[x[3]].tokens > Budget
      BY <1>1, <2>1 DEF OnlyOversizedSkipped
    <3>1. CASE s \in skipped
      BY <1>13, <3>1 DEF OnlyOversizedSkipped
    <3>2. CASE s = item
      <4>1. x = line
        BY <1>4, <3>2
      <4> QED
        BY <1>6, <2>2, <4>1 DEF Prefix
    <3> QED
      BY <3>1, <3>2
  <2> QED
    BY <1>1, <1>7, <2>1, <2>3, <2>5, <2>6 DEF Splitting
<1>15. CASE ~(candidate > Budget)
  <2>1. /\ skipped' = skipped /\ part'.lines = open.lines \cup {line} /\ part'.tokens = candidate
        /\ TooLarge' = TooLarge
    <3>1. skipped' = skipped /\ part' = [lines |-> open.lines \cup {line}, tokens |-> candidate]
      <4> HIDE DEF candidate, item, open
      <4> QED
        BY <1>2, <1>15
    <3> QED
      BY <3>1 DEF TooLarge
  <2> HIDE DEF item, open, candidate, line
  <2>2. Covered(fragments', TooLarge', part'.lines, PassedLines')
    <3> DEFINE new == {line}
    <3>1. \A x \in PassedLines, y \in new : Lexicographic(x, y) /\ x # y
      BY <1>3
    <3> HIDE DEF new
    <3>2. Covered(fragments', TooLarge, open.lines \cup new, PassedLines \cup new)
      BY <1>7, <3>1, Collect
    <3> QED
      BY <1>3, <2>1, <3>2 DEF new
  <2>3. FilesReported'
    <3>1. h > 1 => Reported(fragments, TooLarge, f)
      BY <1>1 DEF Splitting, FilesReported
    <3>2. part'.lines # {}
      BY <2>1
    <3> QED
      BY <1>1, <1>7, <1>11, <1>12, <2>1, <3>1, <3>2 DEF FilesReported
  <2>4. OnlyOversizedSkipped'
    BY <1>1, <1>13, <2>1 DEF OnlyOversizedSkipped
  <2>5. part'.tokens <= Budget
    BY <1>5, <1>10, <1>15, <2>1
  <2> QED
    BY <1>1, <1>7, <2>1, <2>2, <2>3, <2>4, <2>5 DEF Splitting
<1> QED
  BY <1>14, <1>15

\* Behind the last line: the part that is open becomes a fragment.
LEMMA SplittingEndHunk == ASSUME TypeOK, Splitting, EndHunk PROVE Splitting'
<1> DEFINE ls == pr[f].hunks[h].lines
<1>1. /\ pr \in PRs /\ pr \in Seq(DiffFile) /\ stage = "lines" /\ l \notin DOMAIN ls
      /\ f \in DOMAIN pr /\ h \in DOMAIN pr[f].hunks
      /\ l \in Nat /\ l >= 1 /\ f \in Nat /\ h \in Nat /\ h >= 1
      /\ fragments \in Seq(FragmentType)
      /\ pr' = pr /\ stage' = "hunks" /\ f' = f /\ h' = h + 1 /\ skipped' = skipped
      /\ fragments' = IF part.lines # {} THEN Append(fragments, PartFragment) ELSE fragments
      /\ part'.lines = {} /\ ls # <<>>
  BY DEF TypeOK, Splitting, FilesReported, EndHunk, NoPart, Pos
<1>2. TooLarge' = TooLarge
  BY <1>1 DEF TooLarge
<1>3. \A k \in DOMAIN ls : k < l
  <2>1. ls \in Seq(DiffLine)
    BY <1>1, PRType
  <2> HIDE DEF ls
  <2> QED
    BY <1>1, <2>1
<1>4. l > 1
  <2>1. ls \in Seq(DiffLine)
    BY <1>1, PRType
  <2> HIDE DEF ls
  <2>2. 1 \in DOMAIN ls
    <3>1. Len(ls) \in Nat /\ Len(ls) # 0 /\ DOMAIN ls = 1..Len(ls)
      BY <1>1, <2>1
    <3> QED
      BY <3>1
  <2> QED
    BY <1>3, <2>2
<1>5. PassedLines' = PassedLines
  <2>1. AllLines' = AllLines
    BY <1>1 DEF AllLines, FileLines, HunkLines
  <2>2. \A x \in AllLines : /\ x[1] \in Nat /\ x[2] \in Nat
                            /\ x[1] = f /\ x[2] = h => x[3] \in DOMAIN ls
    BY <1>1, LinesFacts DEF Triples, Pos
  <2>3. \A x \in AllLines : x[2] < h + 1 <=> x[2] < h \/ x[2] = h
    BY <1>1, <2>2
  <2>4. \A x \in AllLines : x[1] = f /\ x[2] = h => x[3] < l
    BY <1>3, <2>2
  <2> QED
    BY <1>1, <2>1, <2>3, <2>4 DEF PassedLines
<1>6. /\ Covered(fragments', TooLarge, {}, PassedLines)
      /\ Fitting(fragments')
      /\ \A i : Reported(fragments, TooLarge, i) => Reported(fragments', TooLarge, i)
      /\ Reported(fragments', TooLarge, f)
  <2>1. CASE part.lines # {}
    <3>1. fragments' = Append(fragments, PartFragment)
      BY <1>1, <2>1
    <3> QED
      BY <1>1, <2>1, <3>1, PartCloses
  <2>2. CASE part.lines = {}
    <3>1. fragments' = fragments
      BY <1>1, <2>2
    <3> QED
      BY <1>1, <1>4, <2>2, <3>1 DEF Splitting, FilesReported
  <2> QED
    BY <2>1, <2>2
<1>7. FilesReported'
  <2>1. \A i \in DOMAIN pr : i < f => Reported(fragments, TooLarge, i)
    BY <1>1 DEF Splitting, FilesReported
  <2> QED
    BY <1>1, <1>2, <1>6, <2>1 DEF FilesReported
<1>8. OnlyOversizedSkipped'
  BY <1>1 DEF Splitting, OnlyOversizedSkipped
<1> QED
  BY <1>1, <1>2, <1>5, <1>6, <1>7, <1>8 DEF Splitting

-----------------------------------------------------------------------------
\* How fragments are placed in chunks.

LEMMA ItemsAppend ==
  ASSUME NEW cs \in Seq(ChunkType), NEW c \in ChunkType
  PROVE  /\ Items(cs) \in Seq(Seq(Pos)) /\ c.items \in Seq(Pos)
         /\ Items(Append(cs, c)) = Append(Items(cs), c.items)
<1>1. \A d \in ChunkType : d.items \in Seq(Pos)
  BY DEF ChunkType
<1>2. Items(cs) \in Seq(Seq(Pos)) /\ Len(Items(cs)) = Len(cs)
  BY <1>1 DEF Items
<1>3. DOMAIN Append(cs, c) = 1..(Len(cs) + 1)
  OBVIOUS
<1>4. \A i \in 1..(Len(cs) + 1) :
        Append(cs, c)[i].items = IF i = Len(cs) + 1 THEN c.items ELSE cs[i].items
  OBVIOUS
<1>5. DOMAIN Append(Items(cs), c.items) = 1..(Len(cs) + 1)
  BY <1>2
<1>6. \A i \in 1..(Len(cs) + 1) :
        Append(Items(cs), c.items)[i] = IF i = Len(cs) + 1 THEN c.items ELSE cs[i].items
  BY <1>2 DEF Items
<1>7. \A i \in 1..(Len(cs) + 1) : Items(Append(cs, c))[i] = Append(Items(cs), c.items)[i]
  BY <1>3, <1>4, <1>6 DEF Items
<1>8. Append(Items(cs), c.items) = [i \in 1..(Len(cs) + 1) |-> Append(Items(cs), c.items)[i]]
  BY <1>2, <1>5
<1>9. Items(Append(cs, c)) = [i \in 1..(Len(cs) + 1) |-> Items(Append(cs, c))[i]]
  BY <1>3 DEF Items
<1> QED
  BY <1>1, <1>2, <1>7, <1>8, <1>9

LEMMA PlacedMembers ==
  ASSUME NEW cs, NEW open
  PROVE  \A i : i \in Placed(cs, open)
                  <=> i \in ToSet(open) \/ \E c \in DOMAIN cs : i \in ToSet(cs[c].items)
BY DEF Placed

\* Closing a chunk moves no fragment.
LEMMA ClosePlaces ==
  ASSUME NEW cs \in Seq(ChunkType), NEW c \in ChunkType, NEW n \in Pos,
         PlacedOnce(cs, c.items, n), PlacedInOrder(cs, c.items, n)
  PROVE  PlacedOnce(Append(cs, c), <<>>, n) /\ PlacedInOrder(Append(cs, c), <<>>, n)
<1> DEFINE more == Append(cs, c)
           m == Len(cs)
<1>1. /\ m \in Nat /\ DOMAIN cs = 1..m /\ DOMAIN more = 1..(m + 1)
      /\ \A d \in 1..m : more[d] = cs[d]
      /\ more[m + 1] = c
  OBVIOUS
<1>2. PlacedInOrder(more, <<>>, n)
  <2>1. /\ Items(cs) \in Seq(Seq(Pos)) /\ c.items \in Seq(Pos)
        /\ Items(more) = Append(Items(cs), c.items)
    BY ItemsAppend
  <2>2. /\ FlattenSeq(Items(cs)) \in Seq(Pos)
        /\ FlattenSeq(Items(more)) = FlattenSeq(Items(cs)) \o c.items
    BY <2>1, FlattenAppend
  <2> HIDE DEF more, m
  <2> DEFINE all == FlattenSeq(Items(more))
  <2>3. all \in Seq(Pos)
    BY <2>1, <2>2
  <2>4. all = [i \in 1..(n - 1) |-> i]
    BY <2>2 DEF PlacedInOrder
  <2> HIDE DEF all
  <2>5. all \o <<>> = all
    BY <2>3
  <2> QED
    BY <2>4, <2>5 DEF PlacedInOrder, all
<1> HIDE DEF more, m
<1>3. ToSet(<<>>) = {}
  BY EmptySequence
<1>4. \A d \in DOMAIN more : (d \in DOMAIN cs /\ more[d] = cs[d]) \/ (d = m + 1 /\ more[d] = c)
  BY <1>1
<1>5. \A d \in DOMAIN cs : d \in DOMAIN more /\ more[d] = cs[d]
  BY <1>1
<1>6. m + 1 \in DOMAIN more
  BY <1>1
<1>7. \A d, e \in DOMAIN more : d # e => ToSet(more[d].items) \cap ToSet(more[e].items) = {}
  BY <1>4 DEF PlacedOnce
<1>8. \A i : i \in 1..(n - 1) <=> \E d \in DOMAIN more : i \in ToSet(more[d].items)
  <2>1. \A i : (\E d \in DOMAIN more : i \in ToSet(more[d].items))
                 <=> i \in ToSet(c.items) \/ \E d \in DOMAIN cs : i \in ToSet(cs[d].items)
    BY <1>1, <1>4, <1>5, <1>6
  <2> QED
    BY <2>1, PlacedMembers DEF PlacedOnce
<1> QED
  BY <1>2, <1>3, <1>7, <1>8, PlacedMembers DEF PlacedOnce, more

\* The next fragment is placed in the open chunk.
LEMMA NextPlaced ==
  ASSUME NEW cs \in Seq(ChunkType), NEW open \in Seq(Pos), NEW n \in Pos, NEW m, m = n + 1,
         PlacedOnce(cs, open, n), PlacedInOrder(cs, open, n)
  PROVE  PlacedOnce(cs, Append(open, n), m) /\ PlacedInOrder(cs, Append(open, n), m)
<1>1. n \in Nat /\ n >= 1 /\ m - 1 = n
  BY DEF Pos
<1>2. PlacedInOrder(cs, Append(open, n), m)
  <2>1. Items(cs) \in Seq(Seq(Pos))
    <3>1. \A d \in ChunkType : d.items \in Seq(Pos)
      BY DEF ChunkType
    <3> QED
      BY <3>1 DEF Items
  <2> DEFINE closed == FlattenSeq(Items(cs))
             all == closed \o open
  <2>2. closed \in Seq(Pos)
    <3>1. <<>> \in Seq(Pos)
      OBVIOUS
    <3> QED
      BY <2>1, <3>1, FlattenAppend
  <2> HIDE DEF closed
  <2>3. all \in Seq(Pos) /\ closed \o Append(open, n) = Append(all, n)
    BY <2>2
  <2>4. all = [i \in 1..(n - 1) |-> i]
    BY DEF PlacedInOrder, closed
  <2>5. Len(all) = n - 1 /\ \A i \in 1..(n - 1) : all[i] = i
    <3> HIDE DEF all
    <3>1. Len(all) = n - 1
      BY <1>1, <2>3, <2>4
    <3> QED
      BY <2>4, <3>1
  <2> HIDE DEF all
  <2>6. Append(all, n) = [i \in 1..n |-> i]
    <3> DEFINE more == Append(all, n)
    <3>1. more \in Seq(Pos) /\ Len(more) = n
      BY <1>1, <2>3, <2>5
    <3>2. \A i \in 1..n : more[i] = i
      BY <1>1, <2>3, <2>5
    <3> HIDE DEF more
    <3>3. more = [i \in 1..n |-> more[i]]
      BY <3>1
    <3>4. more = [i \in 1..n |-> i]
      BY <3>2, <3>3
    <3> QED
      BY <3>4 DEF more
  <2>7. m - 1 = n
    BY <1>1
  <2>8. [i \in 1..(m - 1) |-> i] = [i \in 1..n |-> i]
    BY <2>7
  <2>9. FlattenSeq(Items(cs)) \o Append(open, n) = [i \in 1..(m - 1) |-> i]
    BY <2>3, <2>6, <2>8 DEF closed
  <2> QED
    BY <2>9 DEF PlacedInOrder
<1> DEFINE more == Append(open, n)
<1>3. ToSet(more) = ToSet(open) \cup {n}
  BY SequenceOf, AppendFacts
<1> HIDE DEF more
<1>4. \A i : i \in 1..(n - 1) <=> i \in ToSet(open) \/ \E c \in DOMAIN cs : i \in ToSet(cs[c].items)
  BY PlacedMembers DEF PlacedOnce
<1>5. \A c \in DOMAIN cs : n \notin ToSet(cs[c].items)
  <2>1. n \notin 1..(n - 1)
    BY <1>1
  <2> QED
    BY <1>4, <2>1
<1>6. \A c \in DOMAIN cs :
       /\ ToSet(cs[c].items) \cap ToSet(more) = {}
       /\ \A d \in DOMAIN cs : c # d => ToSet(cs[c].items) \cap ToSet(cs[d].items) = {}
  <2>1. \A c \in DOMAIN cs :
          /\ ToSet(cs[c].items) \cap ToSet(open) = {}
          /\ \A d \in DOMAIN cs : c # d => ToSet(cs[c].items) \cap ToSet(cs[d].items) = {}
    BY DEF PlacedOnce
  <2>2. ASSUME NEW c \in DOMAIN cs PROVE ToSet(cs[c].items) \cap ToSet(more) = {}
    BY <1>3, <1>5, <2>1
  <2> QED
    BY <2>1, <2>2
<1>7. \A i : i \in 1..(m - 1) <=> i \in ToSet(more) \/ \E c \in DOMAIN cs : i \in ToSet(cs[c].items)
  <2>1. \A i : i \in 1..(m - 1) <=> i \in 1..(n - 1) \/ i = n
    BY <1>1
  <2> QED
    BY <1>3, <1>4, <2>1
<1>8. PlacedOnce(cs, more, m)
  BY <1>6, <1>7, PlacedMembers DEF PlacedOnce
<1> QED
  BY <1>2, <1>8 DEF more

LEMMA PackingInit == ASSUME Init PROVE Packing
<1>1. /\ stage = "start" /\ next = 1 /\ cur = Empty /\ chunks = <<>> /\ skipped = {}
      /\ fragments = <<>>
  BY DEF Init
<1>2. OverLimits = {}
  BY <1>1 DEF OverLimits
<1>3. NoChunkClosedEarly
  BY <1>1 DEF NoChunkClosedEarly
<1>4. 1..(1 - 1) = {}
  OBVIOUS
<1>5. PlacedOnce(<<>>, <<>>, 1)
  BY <1>4, EmptySequence, PlacedMembers DEF PlacedOnce
<1>6. PlacedInOrder(<<>>, <<>>, 1)
  <2>1. Items(<<>>) = <<>>
    BY DEF Items
  <2>2. FlattenSeq(<<>>) = <<>>
    BY DEF FlattenSeq
  <2> DEFINE none == [i \in 1..(1 - 1) |-> i]
  <2>3. none = <<>>
    BY <1>4
  <2> QED
    BY <2>1, <2>2, <2>3 DEF PlacedInOrder
<1>7. cur.items = <<>>
  BY <1>1 DEF Empty
<1> QED
  BY <1>1, <1>2, <1>3, <1>5, <1>6, <1>7 DEF Packing, OpenedWhenFull

\* The steps before packing touch no chunk.
LEMMA PackingUntouched ==
  ASSUME Packing, TypeOK', stage \notin {"pack", "done"}, stage' # "done",
         UNCHANGED <<next, cur, chunks>>, OverLimits' = OverLimits
  PROVE  Packing'
<1>1. /\ next = 1 /\ cur = Empty /\ chunks = <<>> /\ OverLimits = {} /\ cur.items = <<>>
      /\ PlacedOnce(chunks, cur.items, next) /\ PlacedInOrder(chunks, cur.items, next)
  BY DEF Packing, Empty
<1>2. next' <= Len(fragments') + 1
  <2>1. fragments' \in Seq(FragmentType)
    BY DEF TypeOK
  <2>2. Len(fragments') \in Nat
    BY <2>1
  <2> QED
    BY <1>1, <2>2
<1>3. NoChunkClosedEarly' /\ \A c \in DOMAIN chunks' : chunks'[c].items # <<>>
  BY <1>1 DEF NoChunkClosedEarly
<1>4. OpenedWhenFull'
  BY <1>1, <1>3 DEF OpenedWhenFull
<1> QED
  BY <1>1, <1>2, <1>4 DEF Packing


\* The lines behind the packing: nothing of the splitting changes any more.
LEMMA SplittingOver ==
  ASSUME Splitting, stage \in {"pack", "done"}, stage' \in {"pack", "done"},
         UNCHANGED <<pr, part, fragments>>, TooLarge' = TooLarge
  PROVE  Splitting'
<1>1. PassedLines = AllLines /\ PassedLines' = AllLines
  BY DEF PassedLines, AllLines, FileLines, HunkLines
<1>2. FilesReported'
  BY DEF Splitting, FilesReported
<1>3. OnlyOversizedSkipped'
  <2>1. \A s \in skipped' : s.reason = "chunk_input_limit" => s \in TooLarge
    BY DEF TooLarge
  <2> QED
    BY <2>1 DEF Splitting, OnlyOversizedSkipped, TooLarge
<1> QED
  BY <1>1, <1>2, <1>3 DEF Splitting

\* A turn of the packing loop places the next fragment: in the open chunk, or in a new one
\* when it did not fit in that.
LEMMA PackPlaces ==
  ASSUME TypeOK, Splitting, Packing, Pack
  PROVE  /\ stage = "pack" /\ next \in DOMAIN fragments /\ next' = next + 1
         /\ UNCHANGED <<pr, stage, part, fragments, skipped>>
         /\ \/ /\ chunks' = chunks
               /\ cur'.items = Append(cur.items, next)
               /\ chunks # <<>> => cur.items # <<>>
            \/ /\ cur.items # <<>>
               /\ Join(cur.tokens, fragments[next].tokens) > Budget
               /\ chunks' = Append(chunks, cur)
               /\ cur'.items = Append(<<>>, next)
<1> DEFINE fragment == fragments[next]
           room == MakeRoom(fragment)
<1>1. /\ stage = "pack" /\ next \in DOMAIN fragments /\ next' = next + 1
      /\ UNCHANGED <<pr, stage, part, fragments>>
      /\ chunks' = room.chunks
      /\ \/ fragment.tokens > Budget
         \/ /\ cur' = [items  |-> Append(room.cur.items, next),
                       tokens |-> Join(room.cur.tokens, fragment.tokens)]
            /\ skipped' = skipped
  BY DEF Pack
<1>2. fragment.tokens <= Budget /\ fragment.tokens \in Nat /\ Budget \in Nat
  <2>1. fragment \in FragmentType
    BY <1>1 DEF TypeOK
  <2> QED
    BY <1>1, <2>1, FragmentFields, LimitsAssumption DEF Splitting, Fitting, Pos
<1>3. skipped' = skipped /\ cur'.items = Append(room.cur.items, next)
  <2>1. ~(fragment.tokens > Budget)
    <3> HIDE DEF fragment
    <3> QED
      BY <1>2
  <2> HIDE DEF fragment, room
  <2> QED
    BY <1>1, <2>1
<1>4. CASE cur.items # <<>> /\ Join(cur.tokens, fragment.tokens) > Budget
  <2>1. room.chunks = Append(chunks, cur) /\ room.cur.items = <<>>
    BY <1>4 DEF MakeRoom, Close, Packed, Empty
  <2> QED
    BY <1>1, <1>3, <1>4, <2>1
<1>5. CASE ~(cur.items # <<>> /\ Join(cur.tokens, fragment.tokens) > Budget)
  <2>1. room.chunks = chunks /\ room.cur = cur
    BY <1>5 DEF MakeRoom, Packed
  <2>2. chunks # <<>> => cur.items # <<>>
    BY <1>1 DEF Packing, OpenedWhenFull
  <2> QED
    BY <1>1, <1>3, <2>1, <2>2
<1> QED
  BY <1>4, <1>5

\* The end of the loop and its cut close the chunk that is open.
LEMMA ClosingCloses ==
  ASSUME TypeOK, Limits, Cut \/ Finish
  PROVE  /\ stage = "pack" /\ stage' = "done" /\ cur' = Empty
         /\ UNCHANGED <<pr, part, fragments, next>>
         /\ chunks' = IF cur.items # <<>> THEN Append(chunks, cur) ELSE chunks
<1>1. /\ stage = "pack" /\ stage' = "done" /\ cur' = Empty
      /\ UNCHANGED <<pr, part, fragments, next>>
  BY DEF Cut, Finish
<1>2. cur.items # <<>> => Len(chunks) < MaxChunks
  BY DEF Limits, OpenChunkHasRoom
<1>3. Packed.chunks = chunks /\ Packed.cur = cur
  BY DEF Packed
<1>4. Close(Packed).chunks = Append(chunks, cur) /\ Close(Packed).cur.items = <<>>
  BY <1>3 DEF Close, Empty
<1>5. /\ cur.items # <<>> => CloseLast(Packed) = Close(Packed)
      /\ cur.items = <<>> => CloseLast(Packed) = Packed
      /\ CloseLast(Close(Packed)) = Close(Packed)
  BY <1>2, <1>3, <1>4 DEF CloseLast
<1>6. CASE Cut
  <2>1. chunks' = CloseLast(MakeRoom(fragments[next])).chunks
    BY <1>6 DEF Cut
  <2>2. \/ MakeRoom(fragments[next]) = Packed
        \/ MakeRoom(fragments[next]) = Close(Packed) /\ cur.items # <<>>
    BY DEF MakeRoom
  <2> QED
    BY <1>1, <1>3, <1>4, <1>5, <2>1, <2>2
<1>7. CASE Finish
  <2>1. chunks' = CloseLast(Packed).chunks
    BY <1>7 DEF Finish
  <2> QED
    BY <1>1, <1>3, <1>4, <1>5, <2>1
<1> QED
  BY <1>6, <1>7

\* A chunk that is closed was opened by a fragment that did not fit in the one before.
LEMMA ClosedWhenFull ==
  ASSUME TypeOK, Packing, stage = "pack", cur.items # <<>>,
         fragments' = fragments, chunks' = Append(chunks, cur)
  PROVE  /\ NoChunkClosedEarly'
         /\ \A c \in DOMAIN chunks' : chunks'[c].items # <<>>
         /\ chunks' # <<>> /\ chunks'[Len(chunks')] = cur
<1> DEFINE m == Len(chunks)
           more == Append(chunks, cur)
<1>1. chunks \in Seq(ChunkType)
  BY DEF TypeOK
<1>2. /\ m \in Nat /\ DOMAIN chunks = 1..m /\ DOMAIN more = 1..(m + 1) /\ Len(more) = m + 1
      /\ \A d \in 1..m : more[d] = chunks[d]
      /\ more[m + 1] = cur
      /\ m # 0 => chunks # <<>>
      /\ more # <<>>
  BY <1>1
<1>3. /\ \A c \in DOMAIN chunks : c + 1 \in DOMAIN chunks =>
           Join(chunks[c].tokens, fragments[chunks[c + 1].items[1]].tokens) > Budget
      /\ \A c \in DOMAIN chunks : chunks[c].items # <<>>
      /\ chunks # <<>> => Join(chunks[m].tokens, fragments[cur.items[1]].tokens) > Budget
  BY DEF Packing, OpenedWhenFull, NoChunkClosedEarly
<1> HIDE DEF m, more
<1>4. ASSUME NEW c \in DOMAIN more, c + 1 \in DOMAIN more
      PROVE  Join(more[c].tokens, fragments[more[c + 1].items[1]].tokens) > Budget
  <2> DEFINE d == c + 1
  <2>1. c \in 1..m /\ more[c] = chunks[c] /\ d \in 1..(m + 1)
    BY <1>2, <1>4
  <2>2. CASE d \in 1..m
    <3>1. more[d] = chunks[d] /\ c \in DOMAIN chunks /\ c + 1 \in DOMAIN chunks
      BY <1>2, <2>1, <2>2
    <3>2. Join(chunks[c].tokens, fragments[chunks[d].items[1]].tokens) > Budget
      BY <1>3, <3>1
    <3> HIDE DEF d
    <3>3. Join(more[c].tokens, fragments[more[d].items[1]].tokens) > Budget
      BY <2>1, <3>1, <3>2
    <3> QED
      BY <3>3 DEF d
  <2>3. CASE d = m + 1
    <3>1. c = m /\ m # 0
      BY <1>2, <2>1, <2>3
    <3>2. Join(chunks[m].tokens, fragments[cur.items[1]].tokens) > Budget
      BY <1>2, <1>3, <3>1
    <3>3. more[d] = cur
      BY <1>2, <2>3
    <3> HIDE DEF d
    <3>4. Join(more[c].tokens, fragments[more[d].items[1]].tokens) > Budget
      BY <2>1, <3>1, <3>2, <3>3
    <3> QED
      BY <3>4 DEF d
  <2> QED
    BY <1>2, <2>1, <2>2, <2>3
<1>5. \A c \in DOMAIN more : more[c].items # <<>>
  BY <1>2, <1>3
<1>6. chunks' = more
  BY DEF more
<1>7. NoChunkClosedEarly'
  BY <1>4, <1>6 DEF NoChunkClosedEarly
<1>8. more[Len(more)] = cur
  BY <1>2
<1> QED
  BY <1>2, <1>5, <1>6, <1>7, <1>8

LEMMA PackingPack == ASSUME TypeOK, TypeOK', Splitting, Packing, Pack PROVE Packing'
<1>1. /\ stage = "pack" /\ stage' = "pack" /\ next \in DOMAIN fragments /\ next' = next + 1
      /\ fragments' = fragments /\ skipped' = skipped
      /\ chunks \in Seq(ChunkType) /\ cur \in ChunkType /\ cur.items \in Seq(Pos)
      /\ next \in Pos /\ next \in Nat /\ fragments \in Seq(FragmentType)
  BY PackPlaces DEF TypeOK, ChunkType, Pos
<1>2. /\ OverLimits' = {}
      /\ PlacedOnce(chunks, cur.items, next) /\ PlacedInOrder(chunks, cur.items, next)
  BY <1>1 DEF Packing, OverLimits
<1>3. next' <= Len(fragments') + 1
  BY <1>1
<1> DEFINE items == cur'.items
<1>4. CASE /\ chunks' = chunks /\ items = Append(cur.items, next)
           /\ chunks # <<>> => cur.items # <<>>
  <2>1. PlacedOnce(chunks, Append(cur.items, next), next') /\ PlacedInOrder(chunks, Append(cur.items, next), next')
    BY <1>1, <1>2, NextPlaced
  <2>2. OpenedWhenFull'
    <3>1. /\ NoChunkClosedEarly
          /\ \A c \in DOMAIN chunks : chunks[c].items # <<>>
          /\ chunks # <<>> => Join(chunks[Len(chunks)].tokens, fragments[cur.items[1]].tokens) > Budget
      BY <1>1 DEF Packing, OpenedWhenFull
    <3>2. items # <<>> /\ (cur.items # <<>> => items[1] = cur.items[1])
      <4> HIDE DEF items
      <4> QED
        BY <1>1, <1>4
    <3>3. NoChunkClosedEarly'
      BY <1>1, <1>4, <3>1 DEF NoChunkClosedEarly
    <3> QED
      BY <1>1, <1>4, <3>1, <3>2, <3>3 DEF OpenedWhenFull
  <2> QED
    BY <1>1, <1>2, <1>3, <1>4, <2>1, <2>2 DEF Packing
<1>5. CASE /\ cur.items # <<>>
           /\ Join(cur.tokens, fragments[next].tokens) > Budget
           /\ chunks' = Append(chunks, cur)
           /\ items = Append(<<>>, next)
  <2> DEFINE more == Append(chunks, cur)
             none == <<>>
  <2>1. PlacedOnce(more, none, next) /\ PlacedInOrder(more, none, next)
    BY <1>1, <1>2, ClosePlaces
  <2>2. more \in Seq(ChunkType) /\ none \in Seq(Pos)
    BY <1>1
  <2> HIDE DEF more, none
  <2>3. /\ PlacedOnce(more, Append(none, next), next')
        /\ PlacedInOrder(more, Append(none, next), next')
    BY <1>1, <2>1, <2>2, NextPlaced
  <2>4. OpenedWhenFull'
    <3>1. items # <<>> /\ items[1] = next
      <4> HIDE DEF items
      <4> QED
        BY <1>1, <1>5
    <3>2. /\ NoChunkClosedEarly'
          /\ \A c \in DOMAIN chunks' : chunks'[c].items # <<>>
          /\ chunks' # <<>> /\ chunks'[Len(chunks')] = cur
      BY <1>1, <1>5, ClosedWhenFull
    <3>3. Join(chunks'[Len(chunks')].tokens, fragments'[cur'.items[1]].tokens) > Budget
      BY <1>1, <1>5, <3>1, <3>2
    <3> QED
      BY <1>1, <3>1, <3>2, <3>3 DEF OpenedWhenFull
  <2>5. chunks' = more /\ items = Append(none, next)
    BY <1>5 DEF more, none
  <2> QED
    BY <1>1, <1>2, <1>3, <2>3, <2>4, <2>5 DEF Packing
<1>6. \/ /\ chunks' = chunks /\ items = Append(cur.items, next)
         /\ chunks # <<>> => cur.items # <<>>
      \/ /\ cur.items # <<>>
         /\ Join(cur.tokens, fragments[next].tokens) > Budget
         /\ chunks' = Append(chunks, cur)
         /\ items = Append(<<>>, next)
  BY PackPlaces
<1> QED
  BY <1>4, <1>5, <1>6

\* Cut reports what is left with the reason it has; nothing is left at the end of the loop.
LEMMA WhatIsLeft ==
  ASSUME TypeOK, Packing, Cut \/ Finish
  PROVE  TooLarge' = TooLarge /\ OverLimits' = Omitted(next)
<1>1. OverLimits = {}
  BY DEF Packing, Cut, Finish
<1>2. \A s \in Omitted(next) : s.reason = "chunk_budget_limit"
  BY DEF Omitted, Skip
<1>3. CASE Cut
  <2>1. skipped' = skipped \cup Omitted(next)
    BY <1>3 DEF Cut
  <2> QED
    BY <1>1, <1>2, <2>1 DEF TooLarge, OverLimits
<1>4. CASE Finish
  <2>1. skipped' = skipped /\ next \notin DOMAIN fragments
    BY <1>4 DEF Finish
  <2>2. fragments \in Seq(FragmentType) /\ next \in Nat /\ next >= 1
    BY DEF TypeOK, Pos
  <2>3. next..Len(fragments) = {}
    BY <2>1, <2>2
  <2>4. Omitted(next) = {}
    BY <2>3 DEF Omitted
  <2> QED
    BY <1>1, <2>1, <2>4 DEF TooLarge, OverLimits
<1> QED
  BY <1>3, <1>4

LEMMA PackingClosing ==
  ASSUME TypeOK, Limits, Packing, Cut \/ Finish
  PROVE  Packing'
<1>1. /\ stage = "pack" /\ stage' = "done" /\ cur' = Empty /\ cur'.items = <<>>
      /\ fragments' = fragments /\ next' = next
      /\ chunks' = IF cur.items # <<>> THEN Append(chunks, cur) ELSE chunks
      /\ OverLimits' = Omitted(next)
      /\ chunks \in Seq(ChunkType) /\ cur \in ChunkType /\ next \in Pos
  BY ClosingCloses, WhatIsLeft DEF TypeOK, Empty
<1>2. /\ PlacedOnce(chunks, cur.items, next) /\ PlacedInOrder(chunks, cur.items, next)
      /\ next <= Len(fragments) + 1
  BY DEF Packing
<1>3. Omitted(next)' = Omitted(next)
  BY <1>1 DEF Omitted
<1>4. CASE cur.items # <<>>
  <2>1. PlacedOnce(chunks', <<>>, next) /\ PlacedInOrder(chunks', <<>>, next)
    BY <1>1, <1>2, <1>4, ClosePlaces
  <2>2. NoChunkClosedEarly' /\ \A c \in DOMAIN chunks' : chunks'[c].items # <<>>
    BY <1>1, <1>4, ClosedWhenFull
  <2>3. OpenedWhenFull'
    BY <1>1, <2>2 DEF OpenedWhenFull
  <2> QED
    BY <1>1, <1>2, <1>3, <2>1, <2>3 DEF Packing
<1>5. CASE cur.items = <<>>
  <2>1. chunks' = chunks
    BY <1>1, <1>5
  <2>2. OpenedWhenFull'
    BY <1>1, <2>1 DEF Packing, OpenedWhenFull, NoChunkClosedEarly
  <2> QED
    BY <1>1, <1>2, <1>3, <1>5, <2>1, <2>2 DEF Packing
<1> QED
  BY <1>4, <1>5

LEMMA AccountedNext == TypeOK /\ Limits /\ Accounted /\ [Next]_vars => Accounted'
<1> SUFFICES ASSUME TypeOK, Limits, Splitting, Packing, [Next]_vars
             PROVE  Splitting' /\ Packing'
  BY DEF Accounted
<1>0. TypeOK'
  BY TypeNext
<1>1. CASE \/ ChunkComplete \/ ChunkByFile \/ KeepFile \/ SplitFile \/ KeepHunk
           \/ SkipHunk \/ SplitHunk \/ SplitLine \/ EndHunk \/ EndFile \/ EndFiles
  <2>1. Splitting'
    BY <1>1, SplittingComplete, SplittingLooks, SplittingKeepFile, SplittingKeepHunk,
       SplittingSkipHunk, SplittingLine, SplittingEndHunk, SplittingEndFile
  <2>2. stage \notin {"pack", "done"} /\ stage' # "done" /\ UNCHANGED <<next, cur, chunks>>
    BY <1>1 DEF ChunkComplete, ChunkByFile, KeepFile, SplitFile, KeepHunk, SkipHunk,
       SplitHunk, HunkTooLarge, SplitLine, EndHunk, EndFile, EndFiles
  <2>3. OverLimits' = OverLimits
    <3>1. \/ skipped' = skipped
          \/ \E i, j, lines : skipped' = skipped \cup {Skip(i, j, lines, "chunk_input_limit")}
      BY <1>1, Zenon DEF ChunkComplete, ChunkByFile, KeepFile, SplitFile, KeepHunk, SkipHunk,
         SplitHunk, HunkTooLarge, SplitLine, EndHunk, EndFile, EndFiles
    <3> QED
      BY <3>1 DEF OverLimits, Skip
  <2> QED
    BY <1>0, <2>1, <2>2, <2>3, PackingUntouched
<1>2. CASE Pack
  <2>1. /\ stage \in {"pack", "done"} /\ stage' \in {"pack", "done"}
        /\ UNCHANGED <<pr, part, fragments>> /\ TooLarge' = TooLarge
    BY <1>2, PackPlaces DEF TooLarge
  <2> QED
    BY <1>0, <1>2, <2>1, SplittingOver, PackingPack
<1>3. CASE Cut \/ Finish
  <2>1. /\ stage \in {"pack", "done"} /\ stage' \in {"pack", "done"}
        /\ UNCHANGED <<pr, part, fragments>> /\ TooLarge' = TooLarge
    BY <1>3, ClosingCloses, WhatIsLeft
  <2> QED
    BY <1>3, <2>1, SplittingOver, PackingClosing
<1>4. CASE UNCHANGED vars
  <2>1. UNCHANGED <<pr, stage, f, h, l, part, fragments, skipped, next, cur, chunks>>
    BY <1>4 DEF vars
  <2>2. PassedLines' = PassedLines
    BY <2>1 DEF PassedLines, AllLines, FileLines, HunkLines
  <2>3. TooLarge' = TooLarge
    BY <2>1 DEF TooLarge
  <2>4. FilesReported' = FilesReported /\ OnlyOversizedSkipped' = OnlyOversizedSkipped
    BY <2>1, <2>3 DEF FilesReported, OnlyOversizedSkipped
  <2>5. Splitting'
    BY <2>1, <2>2, <2>3, <2>4 DEF Splitting
  <2>6. OverLimits' = OverLimits /\ Omitted(next)' = Omitted(next)
    BY <2>1 DEF OverLimits, Omitted
  <2>7. OpenedWhenFull' = OpenedWhenFull
    BY <2>1 DEF OpenedWhenFull, NoChunkClosedEarly
  <2>8. Packing'
    BY <2>1, <2>6, <2>7 DEF Packing
  <2> QED
    BY <2>5, <2>8
<1> QED
  BY <1>1, <1>2, <1>3, <1>4 DEF Next, Done

LEMMA AccountedAlways == Spec => [](TypeOK /\ Limits /\ Accounted)
<1>1. Init => TypeOK /\ Limits /\ Accounted
  BY TypeInit, LimitsInit, SplittingInit, PackingInit DEF Accounted
<1>2. TypeOK /\ Limits /\ Accounted /\ [Next]_vars => TypeOK' /\ Limits' /\ Accounted'
  BY TypeNext, LimitsNext, AccountedNext
<1> QED
  BY <1>1, <1>2, PTL DEF Spec

-----------------------------------------------------------------------------
\* What follows.

\* A line is left out as too large only when no chunk could hold it: on every way the
\* splitting has to a SkippedItem with reason chunk_input_limit.
THEOREM OnlyOversizedAreSkipped == Spec => []OnlyOversizedSkipped
<1>1. Accounted => OnlyOversizedSkipped
  BY DEF Accounted, Splitting
<1> QED
  BY <1>1, AccountedAlways, PTL

\* No request is sent with room in it for the fragment the next one starts with.
THEOREM NoneClosedEarly == Spec => []NoChunkClosedEarly
<1>1. Accounted => NoChunkClosedEarly
  BY DEF Accounted, Packing, OpenedWhenFull
<1> QED
  BY <1>1, AccountedAlways, PTL

\* The fragments keep the order of the diff and the chunks hold the first of them, in order.
THEOREM OrderHolds == Spec => []DiffOrder
<1>1. ASSUME TypeOK, Accounted PROVE DiffOrder
  <2>1. \A i, j \in DOMAIN fragments : i < j =>
          \A x \in fragments[i].lines, y \in fragments[j].lines : Lexicographic(x, y)
    BY <1>1 DEF Accounted, Splitting, Covered
  <2> DEFINE packed == FlattenSeq([c \in DOMAIN chunks |-> chunks[c].items]) \o cur.items
  <2>2. packed = [i \in 1..(next - 1) |-> i]
    BY <1>1 DEF Accounted, Packing, PlacedInOrder, Items
  <2> HIDE DEF packed
  <2>3. next - 1 \in Nat
    BY <1>1 DEF TypeOK, Pos
  <2>4. Len(packed) = next - 1
    BY <2>2, <2>3
  <2>5. packed = [i \in 1..Len(packed) |-> i]
    BY <2>2, <2>4
  <2> QED
    BY <2>1, <2>5 DEF DiffOrder, packed
<1>2. TypeOK /\ Accounted => DiffOrder
  BY <1>1
<1> QED
  BY <1>2, AccountedAlways, PTL

\* At the end, the fragments that were placed are those before the next, each in one chunk,
\* and the others are reported.
LEMMA AtTheEnd ==
  ASSUME TypeOK, Packing, stage = "done"
  PROVE  /\ \A k \in DOMAIN fragments : k < next <=> \E c \in DOMAIN chunks : k \in ToSet(chunks[c].items)
         /\ \A c, d \in DOMAIN chunks : c # d => ToSet(chunks[c].items) \cap ToSet(chunks[d].items) = {}
         /\ \A s : s \in OverLimits <=>
              \E k \in DOMAIN fragments :
                ~(k < next) /\ s = Skip(fragments[k].file, fragments[k].hunk, fragments[k].lines,
                                        "chunk_budget_limit")
<1>1. fragments \in Seq(FragmentType) /\ next \in Nat /\ next >= 1
  BY DEF TypeOK, Pos
<1>2. \A k \in DOMAIN fragments : k < next <=> k \in 1..(next - 1)
  BY <1>1
<1>3. \A k \in DOMAIN fragments : ~(k < next) <=> k \in next..Len(fragments)
  BY <1>1
<1>4. next..Len(fragments) \subseteq DOMAIN fragments
  BY <1>1
<1>5. PlacedOnce(chunks, <<>>, next) /\ OverLimits = Omitted(next)
  BY DEF Packing, Empty
<1>6. ToSet(<<>>) = {}
  BY EmptySequence
<1>7. \A i : i \in 1..(next - 1) <=> \E c \in DOMAIN chunks : i \in ToSet(chunks[c].items)
  BY <1>5, <1>6, PlacedMembers DEF PlacedOnce
<1>8. \A c, d \in DOMAIN chunks : c # d => ToSet(chunks[c].items) \cap ToSet(chunks[d].items) = {}
  BY <1>5 DEF PlacedOnce
<1>9. \A s : s \in OverLimits <=>
        \E k \in DOMAIN fragments :
          ~(k < next) /\ s = Skip(fragments[k].file, fragments[k].hunk, fragments[k].lines,
                                  "chunk_budget_limit")
  BY <1>3, <1>4, <1>5 DEF Omitted
<1> QED
  BY <1>2, <1>7, <1>8, <1>9

LEMMA TwoReasons ==
  ASSUME TypeOK
  PROVE  skipped = TooLarge \cup OverLimits
<1>1. \A s \in skipped : s.reason \in {"chunk_input_limit", "chunk_budget_limit"}
  BY DEF TypeOK, SkipType
<1> QED
  BY <1>1 DEF TooLarge, OverLimits

\* In the end every file is in a chunk or is reported as skipped.
THEOREM EveryFileIsReported == Spec => []EveryFileReported
<1>1. ASSUME TypeOK, Accounted PROVE EveryFileReported
  <2> SUFFICES ASSUME stage = "done", NEW i \in DOMAIN pr
               PROVE  \/ \E c \in DOMAIN chunks : i \in ChunkFiles(c)
                      \/ \E s \in skipped : s.file = i
    BY DEF EveryFileReported
  <2>1. Reported(fragments, TooLarge, i)
    BY <1>1 DEF Accounted, Splitting, FilesReported
  <2>2. CASE \E s \in TooLarge : s.file = i
    BY <2>2 DEF TooLarge
  <2>3. ASSUME NEW k \in DOMAIN fragments, fragments[k].file = i
        PROVE  \/ \E c \in DOMAIN chunks : i \in ChunkFiles(c)
               \/ \E s \in skipped : s.file = i
    <3>1. CASE k < next
      <4>1. PICK c \in DOMAIN chunks : k \in ToSet(chunks[c].items)
        BY <1>1, <3>1, AtTheEnd DEF Accounted
      <4>2. i \in ChunkFiles(c)
        BY <2>3, <4>1 DEF ChunkFiles
      <4> QED
        BY <4>2
    <3>2. CASE ~(k < next)
      <4> DEFINE s == Skip(fragments[k].file, fragments[k].hunk, fragments[k].lines,
                           "chunk_budget_limit")
      <4>1. s \in OverLimits
        BY <1>1, <3>2, AtTheEnd DEF Accounted
      <4>2. s.file = i
        BY <2>3 DEF Skip
      <4> QED
        BY <4>1, <4>2 DEF OverLimits
    <3> QED
      BY <3>1, <3>2
  <2> QED
    BY <2>1, <2>2, <2>3 DEF Reported
<1>2. TypeOK /\ Accounted => EveryFileReported
  BY <1>1
<1> QED
  BY <1>2, AccountedAlways, PTL

\* In the end a line is in one fragment of one chunk and in no skipped item, or in no chunk
\* and in one skipped item.
LEMMA OneOrTheOther ==
  ASSUME TypeOK, Accounted, stage = "done", NEW x \in AllLines
  PROVE  \/ /\ \E p : Holding(x) = {p}
            /\ {s \in skipped : x \in s.lines} = {}
         \/ /\ Holding(x) = {}
            /\ \E s : {t \in skipped : x \in t.lines} = {s}
<1> DEFINE Skipping == {s \in skipped : x \in s.lines}
<1>0. pr \in Seq(DiffFile) /\ fragments \in Seq(FragmentType) /\ next \in Nat
  BY DEF TypeOK, Pos
<1>1. Covered(fragments, TooLarge, {}, AllLines)
  <2>1. PassedLines = AllLines
    BY DEF PassedLines
  <2> QED
    BY <2>1 DEF Accounted, Splitting
<1>2. \/ \E k \in DOMAIN fragments : x \in fragments[k].lines
      \/ \E s \in TooLarge : x \in s.lines
  BY <1>1, LinesOfMembers DEF Covered
<1>3. ~Lexicographic(x, x)
  BY <1>0, LinesFacts, LexicographicFacts
<1>4. \A i, j \in DOMAIN fragments :
        x \in fragments[i].lines /\ x \in fragments[j].lines => i = j
  <2>1. \A i, j \in DOMAIN fragments :
          x \in fragments[i].lines /\ x \in fragments[j].lines => ~(i < j)
    BY <1>1, <1>3 DEF Covered
  <2>2. \A i, j \in DOMAIN fragments : i < j \/ j < i \/ i = j
    BY <1>0
  <2> QED
    BY <2>1, <2>2
<1>5. \A s \in TooLarge : x \in s.lines =>
        /\ \A k \in DOMAIN fragments : x \notin fragments[k].lines
        /\ \A t \in TooLarge : x \in t.lines => s = t
  BY <1>1 DEF Covered
<1>6. skipped = TooLarge \cup OverLimits
  BY TwoReasons
<1>7. \A s \in OverLimits : x \in s.lines =>
        \E k \in DOMAIN fragments :
          /\ ~(k < next) /\ x \in fragments[k].lines
          /\ s = Skip(fragments[k].file, fragments[k].hunk, fragments[k].lines,
                      "chunk_budget_limit")
  <2>1. \A k \in DOMAIN fragments :
          Skip(fragments[k].file, fragments[k].hunk, fragments[k].lines,
               "chunk_budget_limit").lines = fragments[k].lines
    BY DEF Skip
  <2> QED
    BY <2>1, AtTheEnd DEF Accounted
<1>8. /\ \A k \in DOMAIN fragments :
           k < next <=> \E c \in DOMAIN chunks : k \in ToSet(chunks[c].items)
      /\ \A c, d \in DOMAIN chunks :
           c # d => ToSet(chunks[c].items) \cap ToSet(chunks[d].items) = {}
  BY AtTheEnd DEF Accounted
<1>9. ASSUME NEW k \in DOMAIN fragments, x \in fragments[k].lines
      PROVE  \/ (\E p : Holding(x) = {p}) /\ Skipping = {}
             \/ Holding(x) = {} /\ \E s : Skipping = {s}
  <2>1. \A s \in TooLarge : x \notin s.lines
    BY <1>5, <1>9
  <2>2. CASE k < next
    <3>1. PICK c \in DOMAIN chunks : k \in ToSet(chunks[c].items)
      BY <1>8, <2>2
    <3>2. \A d \in DOMAIN chunks : k \in ToSet(chunks[d].items) => d = c
      BY <1>8, <3>1
    <3>3. Holding(x) = {<<c, k>>}
      <4>1. <<c, k>> \in Holding(x)
        BY <1>9, <3>1 DEF Holding
      <4>2. ASSUME NEW p \in Holding(x) PROVE p = <<c, k>>
        <5>1. /\ p \in (DOMAIN chunks) \X (DOMAIN fragments)
              /\ p[2] \in ToSet(chunks[p[1]].items) /\ x \in fragments[p[2]].lines
          BY DEF Holding
        <5>2. p = <<p[1], p[2]>> /\ p[1] \in DOMAIN chunks /\ p[2] \in DOMAIN fragments
          BY <5>1
        <5>3. p[2] = k
          BY <1>4, <1>9, <5>1, <5>2
        <5>4. p[1] = c
          BY <3>2, <5>1, <5>2, <5>3
        <5> QED
          BY <5>2, <5>3, <5>4
      <4> QED
        BY <4>1, <4>2
    <3>4. Skipping = {}
      BY <1>4, <1>6, <1>7, <1>9, <2>1, <2>2
    <3> QED
      BY <3>3, <3>4
  <2>3. CASE ~(k < next)
    <3> DEFINE item == Skip(fragments[k].file, fragments[k].hunk, fragments[k].lines,
                            "chunk_budget_limit")
    <3>1. Holding(x) = {}
      <4> SUFFICES ASSUME NEW p \in Holding(x) PROVE FALSE
        OBVIOUS
      <4>1. /\ p[1] \in DOMAIN chunks /\ p[2] \in DOMAIN fragments
            /\ p[2] \in ToSet(chunks[p[1]].items) /\ x \in fragments[p[2]].lines
        BY DEF Holding
      <4>2. p[2] = k
        BY <1>4, <1>9, <4>1
      <4> QED
        BY <1>8, <2>3, <4>1, <4>2
    <3>2. item \in OverLimits /\ item.lines = fragments[k].lines
      BY <2>3, AtTheEnd DEF Accounted, Skip
    <3>3. \A s \in OverLimits : x \in s.lines => s = item
      BY <1>4, <1>7, <1>9
    <3> HIDE DEF item
    <3>4. Skipping = {item}
      BY <1>6, <1>9, <2>1, <3>2, <3>3
    <3> QED
      BY <3>1, <3>4
  <2> QED
    BY <2>2, <2>3
<1>10. ASSUME NEW s \in TooLarge, x \in s.lines
       PROVE  Holding(x) = {} /\ Skipping = {s}
  <2>1. \A k \in DOMAIN fragments : x \notin fragments[k].lines
    BY <1>5, <1>10
  <2>2. Holding(x) = {}
    BY <2>1 DEF Holding
  <2>3. \A t \in OverLimits : x \notin t.lines
    BY <1>7, <2>1
  <2> QED
    BY <1>5, <1>6, <1>10, <2>2, <2>3
<1> HIDE DEF Skipping
<1>11. \/ (\E p : Holding(x) = {p}) /\ Skipping = {}
       \/ Holding(x) = {} /\ \E s : Skipping = {s}
  BY <1>2, <1>9, <1>10
<1> QED
  BY <1>11 DEF Skipping

\* In the end every line of the diff is sent once or reported once, never both, never twice.
THEOREM EveryLineIsCoveredOnce == Spec => []EveryLineOnce
<1>1. ASSUME TypeOK, Accounted PROVE EveryLineOnce
  <2> SUFFICES ASSUME stage = "done", NEW x \in AllLines
               PROVE  Cardinality(Holding(x)) + Cardinality({s \in skipped : x \in s.lines}) = 1
    BY DEF EveryLineOnce
  <2> DEFINE H == Holding(x)
             S == {s \in skipped : x \in s.lines}
  <2>1. \/ (\E p : H = {p}) /\ S = {}
        \/ H = {} /\ \E s : S = {s}
    BY <1>1, OneOrTheOther
  <2>2. Cardinality({}) = 0 /\ \A p : Cardinality({p}) = 1
    BY FS_EmptySet, FS_Singleton
  <2> HIDE DEF H, S
  <2>3. Cardinality(H) + Cardinality(S) = 1
    <3>1. CASE (\E p : H = {p}) /\ S = {}
      <4>1. Cardinality(H) = 1 /\ Cardinality(S) = 0
        BY <2>2, <3>1
      <4> QED
        BY <4>1
    <3>2. CASE H = {} /\ \E s : S = {s}
      <4>1. Cardinality(H) = 0 /\ Cardinality(S) = 1
        BY <2>2, <3>2
      <4> QED
        BY <4>1
    <3> QED
      BY <2>1, <3>1, <3>2
  <2> QED
    BY <2>3 DEF H, S
<1>2. TypeOK /\ Accounted => EveryLineOnce
  BY <1>1
<1> QED
  BY <1>2, AccountedAlways, PTL

=============================================================================
