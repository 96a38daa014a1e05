----------------------------- MODULE SharedLemmas -----------------------------
(***************************************************************************)
(* Lemmas about numbers and sequences that several proofs need.            *)
(***************************************************************************)
EXTENDS Integers, Sequences, SequencesExt, FiniteSetTheorems, NaturalsInduction,
        WellFoundedInduction, TLAPS

LEMMA LessThanPair ==
  ASSUME NEW m \in Nat, NEW n \in Nat, m < n
  PROVE  <<m, n>> \in OpToRel(<, Nat)
BY DEF OpToRel

\* A set of numbers has a least one.
LEMMA LeastOfNaturals ==
  ASSUME NEW S \in SUBSET Nat, S # {}
  PROVE  \E x \in S : \A y \in S : x <= y
<1>1. PICK x \in S : \A y \in S : ~(<<y, x>> \in OpToRel(<, Nat))
  BY NatLessThanWellFounded, WFMin
<1>2. \A y \in S : ~(y < x)
  BY <1>1, LessThanPair, Zenon
<1> QED
  BY <1>2

LEMMA MinOfNaturals ==
  ASSUME NEW S \in SUBSET Nat, S # {}
  PROVE  Min(S) \in S /\ \A y \in S : Min(S) <= y
BY LeastOfNaturals DEF Min

\* A set of numbers that has a bound has a largest one.
LEMMA MaxOfNaturals ==
  ASSUME NEW S \in SUBSET Nat, S # {}, NEW b \in Nat, \A x \in S : x <= b
  PROVE  Max(S) \in S /\ \A y \in S : y <= Max(S)
<1> DEFINE T == {b - x : x \in S}
<1>1. T \in SUBSET Nat /\ T # {}
  <2>1. \A x \in S : b - x \in Nat
    OBVIOUS
  <2>2. PICK x : x \in S
    OBVIOUS
  <2>3. b - x \in T
    BY <2>2
  <2> QED
    BY <2>1, <2>3
<1>2. PICK t \in T : \A u \in T : t <= u
  <2> HIDE DEF T
  <2> QED
    BY <1>1, LeastOfNaturals
<1>3. PICK x \in S : t = b - x
  BY <1>2
<1>4. \A y \in S : y <= x
  BY <1>2, <1>3
<1> QED
  BY <1>3, <1>4 DEF Max

\* What holds of every number is so of the least for which it could fail: the form in
\* which proofs use induction.
LEMMA InductionBySet ==
  ASSUME NEW Holding \in SUBSET Nat, 0 \in Holding,
         \A n \in Nat : n \in Holding => n + 1 \in Holding
  PROVE  Holding = Nat
<1> SUFFICES ASSUME Nat \ Holding # {} PROVE FALSE
  OBVIOUS
<1>1. PICK n \in Nat \ Holding : \A m \in Nat \ Holding : n <= m
  BY LeastOfNaturals
<1>2. n # 0 /\ n - 1 \in Nat
  BY <1>1
<1>3. n - 1 \in Holding
  BY <1>1, <1>2
<1> QED
  BY <1>1, <1>2, <1>3

\* A sequence, whatever its elements.
IsSequence(s) == s \in Seq(ToSet(s))

LEMMA SequenceOf == ASSUME NEW S, NEW s \in Seq(S) PROVE IsSequence(s) /\ ToSet(s) \subseteq S
<1>1. \A i \in 1..Len(s) : s[i] \in ToSet(s)
  BY DEF ToSet
<1>2. s \in [1..Len(s) -> ToSet(s)]
  BY <1>1
<1> QED
  BY <1>2 DEF IsSequence, ToSet

LEMMA AppendFacts ==
  ASSUME NEW s, IsSequence(s), NEW e
  PROVE  LET t == Append(s, e)
         IN  /\ IsSequence(t)
             /\ ToSet(t) = ToSet(s) \cup {e}
             /\ Len(s) \in Nat
             /\ Len(t) = Len(s) + 1
             /\ DOMAIN s = 1..Len(s)
             /\ DOMAIN t = 1..(Len(s) + 1)
             /\ \A i \in 1..Len(s) : t[i] = s[i]
             /\ t[Len(s) + 1] = e
<1> DEFINE S == ToSet(s)
           t == Append(s, e)
<1>1. s \in Seq(S \cup {e}) /\ s \in Seq(S)
  BY DEF IsSequence
<1> HIDE DEF S
<1>2. /\ t \in Seq(S \cup {e})
      /\ Len(s) \in Nat /\ Len(t) = Len(s) + 1
      /\ DOMAIN s = 1..Len(s) /\ DOMAIN t = 1..(Len(s) + 1)
      /\ \A i \in 1..Len(s) : t[i] = s[i]
      /\ t[Len(s) + 1] = e
  BY <1>1
<1> HIDE DEF t
<1>3. IsSequence(t)
  BY <1>2, SequenceOf
<1>4. ToSet(t) = S \cup {e}
  BY <1>2 DEF ToSet, S
<1> QED
  BY <1>2, <1>3, <1>4 DEF S, t

LEMMA EmptySequence == IsSequence(<<>>) /\ ToSet(<<>>) = {} /\ Len(<<>>) = 0
BY DEF IsSequence, ToSet

-----------------------------------------------------------------------------
\* Recursion: FoldLeft and FlattenSeq are defined by functions that are chosen.  That such
\* functions exist is proved by induction.

LEMMA MaxOfInterval ==
  ASSUME NEW k \in Nat, NEW s \in SUBSET (1..k), s # {}
  PROVE  Max(s) \in s /\ Max(s) \in 1..k /\ \A y \in s : y <= Max(s)
<1>1. s \in SUBSET Nat /\ \A x \in s : x <= k
  OBVIOUS
<1> QED
  BY <1>1, MaxOfNaturals

\* g is what FoldLeft computes for each set of places of a sequence, with step for its
\* operator: it takes the elements off at the end.
Folding(n, base, seq, step, g) ==
  \A s \in SUBSET (1..n) :
    g[s] = IF s = {} THEN base ELSE step[<<g[s \ {Max(s)}], seq[Max(s)]>>]

\* The recursion of FoldLeft has a solution.
LEMMA FoldExists ==
  ASSUME NEW n \in Nat, NEW T, NEW X, NEW base \in X, NEW seq \in [1..n -> T],
         NEW step \in [X \X T -> X]
  PROVE  \E g \in [SUBSET (1..n) -> X] : Folding(n, base, seq, step, g)
<1> DEFINE Good(k, g) ==
             \A s \in SUBSET (1..k) :
               g[s] = IF s = {} THEN base ELSE step[<<g[s \ {Max(s)}], seq[Max(s)]>>]
           Has(k) == \E g \in [SUBSET (1..k) -> X] : Good(k, g)
           Holding == {k \in Nat : k <= n => Has(k)}
<1>1. 0 \in Holding
  <2> DEFINE g == [s \in SUBSET (1..0) |-> base]
  <2>1. \A s \in SUBSET (1..0) : s = {}
    OBVIOUS
  <2>2. g \in [SUBSET (1..0) -> X] /\ Good(0, g)
    BY <2>1
  <2> QED
    BY <2>2
<1>2. ASSUME NEW k \in Nat, k \in Holding PROVE k + 1 \in Holding
  <2> SUFFICES ASSUME k + 1 <= n
               PROVE  Has(k + 1)
    <3> HIDE DEF Has
    <3> QED
      OBVIOUS
  <2>0. Has(k)
    <3> HIDE DEF Has
    <3> QED
      BY <1>2
  <2>1. PICK g \in [SUBSET (1..k) -> X] : Good(k, g)
    BY <2>0
  <2> DEFINE last == k + 1
             gg == [s \in SUBSET (1..last) |->
                     IF last \in s THEN step[<<g[s \ {last}], seq[last]>>] ELSE g[s]]
  <2>2. seq[last] \in T
    OBVIOUS
  <2>3. ASSUME NEW s \in SUBSET (1..last), last \in s
        PROVE  /\ s \ {last} \in SUBSET (1..k) /\ Max(s) = last /\ s # {}
               /\ last \notin s \ {last} /\ s \ {last} \in SUBSET (1..last)
    <3>1. Max(s) \in 1..last /\ last <= Max(s)
      BY <2>3, MaxOfInterval
    <3> QED
      BY <2>3, <3>1
  <2>4. ASSUME NEW s \in SUBSET (1..last), last \notin s
        PROVE  /\ s \in SUBSET (1..k)
               /\ s # {} => /\ s \ {Max(s)} \in SUBSET (1..last) /\ last \notin s \ {Max(s)}
    <3>1. \A i \in s : i \in 1..k
      BY <2>4
    <3>2. s \in SUBSET (1..k)
      BY <3>1
    <3>3. s \ {Max(s)} \in SUBSET (1..last) /\ last \notin s \ {Max(s)}
      BY <2>4
    <3> QED
      BY <3>2, <3>3
  <2> HIDE DEF last
  <2>5. gg \in [SUBSET (1..last) -> X]
    <3> SUFFICES ASSUME NEW s \in SUBSET (1..last)
                 PROVE  (IF last \in s THEN step[<<g[s \ {last}], seq[last]>>] ELSE g[s]) \in X
      OBVIOUS
    <3>1. CASE last \in s
      <4>1. g[s \ {last}] \in X
        BY <2>3, <3>1
      <4> QED
        BY <2>2, <3>1, <4>1
    <3>2. CASE last \notin s
      BY <2>4, <3>2
    <3> QED
      BY <3>1, <3>2
  <2>6. ASSUME NEW s \in SUBSET (1..last)
        PROVE  gg[s] = IF s = {} THEN base ELSE step[<<gg[s \ {Max(s)}], seq[Max(s)]>>]
    <3>1. CASE last \in s
      <4>1. gg[s] = step[<<g[s \ {last}], seq[last]>>] /\ gg[s \ {last}] = g[s \ {last}]
        BY <2>3, <3>1
      <4> QED
        BY <2>3, <3>1, <4>1
    <3>2. CASE last \notin s
      <4>1. s \in SUBSET (1..k) /\ gg[s] = g[s]
        BY <2>4, <3>2
      <4>2. s # {} => gg[s \ {Max(s)}] = g[s \ {Max(s)}]
        BY <2>4, <3>2
      <4> QED
        BY <2>1, <4>1, <4>2
    <3> QED
      BY <3>1, <3>2
  <2> QED
    BY <2>5, <2>6 DEF last
<1>3. Holding = Nat
  <2> HIDE DEF Holding
  <2>1. Holding \in SUBSET Nat
    BY DEF Holding
  <2> QED
    BY <1>1, <1>2, <2>1, InductionBySet
<1>4. Has(n)
  <2> HIDE DEF Has
  <2> QED
    BY <1>3
<1> QED
  BY <1>4 DEF Folding

\* g is what FlattenSeq computes for the sequences up to each place.
Flattening(seqs, n, g) ==
  /\ n # 0 => g[1] = seqs[1]
  /\ \A i \in 1..n : i # 1 => g[i] = g[i - 1] \o seqs[i]

\* The recursion of FlattenSeq has a solution.
LEMMA FlattenExists ==
  ASSUME NEW n \in Nat, NEW X, NEW seqs \in [1..n -> Seq(X)]
  PROVE  \E g \in [1..n -> Seq(X)] :
           Flattening(seqs, n, g)
<1> DEFINE Good(k, g) == Flattening(seqs, k, g)
           Has(k) == \E g \in [1..k -> Seq(X)] : Good(k, g)
           Holding == {k \in Nat : k <= n => Has(k)}
<1>1. Has(0)
  <2> DEFINE g == [i \in 1..0 |-> <<>>]
  <2>1. g \in [1..0 -> Seq(X)] /\ Good(0, g)
    BY DEF Flattening
  <2> QED
    BY <2>1
<1>2. ASSUME NEW k \in Nat, k + 1 <= n, Has(k) PROVE Has(k + 1)
  <2>1. PICK g \in [1..k -> Seq(X)] : Good(k, g)
    BY <1>2
  <2> DEFINE last == k + 1
             end == IF last = 1 THEN seqs[last] ELSE g[last - 1] \o seqs[last]
             gg == [i \in 1..last |-> IF i = last THEN end ELSE g[i]]
  <2>2. end \in Seq(X)
    <3>1. seqs[last] \in Seq(X)
      BY <1>2
    <3>2. last # 1 => g[last - 1] \in Seq(X)
      OBVIOUS
    <3> QED
      BY <3>1, <3>2
  <2>3. last \in Nat /\ \A i \in 1..last : i = last \/ i \in 1..k
    OBVIOUS
  <2>4. gg \in [1..last -> Seq(X)]
    <3> HIDE DEF last, end
    <3> QED
      BY <2>2, <2>3
  <2>5. gg[1] = seqs[1]
    <3>1. CASE last = 1
      BY <2>3, <3>1
    <3>2. CASE last # 1
      <4>1. 1 \in 1..last /\ k # 0
        BY <3>2
      <4>2. gg[1] = g[1]
        BY <3>2, <4>1
      <4> QED
        BY <2>1, <4>1, <4>2 DEF Flattening
    <3> QED
      BY <3>1, <3>2
  <2>6. ASSUME NEW i \in 1..last, i # 1
        PROVE  gg[i] = gg[i - 1] \o seqs[i]
    <3>1. i - 1 \in 1..last /\ i - 1 # last
      BY <2>6
    <3>2. gg[i - 1] = g[i - 1]
      BY <3>1
    <3>3. CASE i = last
      BY <2>6, <3>2, <3>3
    <3>4. CASE i # last
      <4>1. i \in 1..k
        BY <3>4
      <4>2. g[i] = g[i - 1] \o seqs[i]
        BY <2>1, <2>6, <4>1 DEF Flattening
      <4>3. gg[i] = g[i]
        BY <3>4
      <4> QED
        BY <3>2, <4>2, <4>3
    <3> QED
      BY <3>3, <3>4
  <2> QED
    BY <2>4, <2>5, <2>6 DEF last, Flattening
<1>3. Has(n)
  <2> HIDE DEF Has
  <2>1. 0 \in Holding /\ Holding \in SUBSET Nat
    BY <1>1
  <2>2. \A k \in Nat : k \in Holding => k + 1 \in Holding
    BY <1>2
  <2>3. Holding = Nat
    <3> HIDE DEF Holding
    <3> QED
      BY <2>1, <2>2, InductionBySet
  <2> QED
    BY <2>3
<1> QED
  BY <1>3

\* What FlattenSeq is of a sequence that is not empty.
LEMMA FlattenFacts ==
  ASSUME NEW X, NEW seqs \in Seq(Seq(X)), Len(seqs) # 0
  PROVE  \E g \in [1..Len(seqs) -> Seq(X)] :
           /\ Flattening(seqs, Len(seqs), g)
           /\ FlattenSeq(seqs) = g[Len(seqs)]
<1> DEFINE n == Len(seqs)
           P(g) == g = [i \in 1..n |-> IF i = 1 THEN seqs[i] ELSE g[i - 1] \o seqs[i]]
           flatten == CHOOSE g : P(g)
<1>1. FlattenSeq(seqs) = flatten[n]
  BY DEF FlattenSeq
<1>2. n \in Nat /\ seqs \in [1..n -> Seq(X)]
  OBVIOUS
<1>3. PICK g \in [1..n -> Seq(X)] : P(g)
  <2> HIDE DEF n
  <2>1. PICK g \in [1..n -> Seq(X)] : Flattening(seqs, n, g)
    BY <1>2, FlattenExists
  <2>2. \A i \in 1..n : g[i] = IF i = 1 THEN seqs[i] ELSE g[i - 1] \o seqs[i]
    BY <1>2, <2>1 DEF Flattening
  <2> QED
    BY <2>2
<1>4. P(flatten)
  <2> HIDE DEF P
  <2> QED
    BY <1>3
<1> HIDE DEF n, flatten
<1>5. DOMAIN flatten = 1..n
  BY <1>4
<1>6. Flattening(seqs, n, flatten)
  <2>1. \A i \in 1..n : flatten[i] = IF i = 1 THEN seqs[i] ELSE flatten[i - 1] \o seqs[i]
    BY <1>4
  <2>2. n # 0 => 1 \in 1..n
    BY <1>2
  <2> QED
    BY <2>1, <2>2 DEF Flattening
<1>7. \A i \in Nat : i + 1 <= n => flatten[i + 1] \in Seq(X)
  <2> DEFINE Holding == {i \in Nat : i + 1 <= n => flatten[i + 1] \in Seq(X)}
  <2>1. 0 \in Holding
    <3>1. ASSUME 1 <= n PROVE flatten[0 + 1] \in Seq(X)
      BY <1>2, <1>6, <3>1 DEF Flattening
    <3> QED
      BY <3>1
  <2>2. ASSUME NEW i \in Nat, i \in Holding PROVE i + 1 \in Holding
    <3> SUFFICES ASSUME i + 1 + 1 <= n PROVE flatten[i + 1 + 1] \in Seq(X)
      OBVIOUS
    <3>1. flatten[i + 1] \in Seq(X) /\ seqs[i + 1 + 1] \in Seq(X)
      BY <1>2, <2>2
    <3>2. i + 1 + 1 \in 1..n /\ i + 1 + 1 # 1 /\ i + 1 + 1 - 1 = i + 1
      BY <1>2
    <3>3. flatten[i + 1 + 1] = flatten[i + 1] \o seqs[i + 1 + 1]
      <4> DEFINE k == i + 1 + 1
                 j == i + 1
      <4>1. k \in 1..n /\ k # 1 /\ k - 1 = j
        BY <3>2
      <4> HIDE DEF k, j
      <4>2. flatten[k] = flatten[k - 1] \o seqs[k]
        BY <1>6, <4>1 DEF Flattening
      <4>3. flatten[k] = flatten[j] \o seqs[k]
        BY <4>1, <4>2
      <4> QED
        BY <4>3 DEF k, j
    <3> QED
      BY <3>1, <3>3
  <2>3. Holding = Nat
    <3>1. Holding \in SUBSET Nat
      OBVIOUS
    <3> HIDE DEF Holding
    <3> QED
      BY <2>1, <2>2, <3>1, InductionBySet
  <2> QED
    BY <2>3
<1>8. \A i \in 1..n : flatten[i] \in Seq(X)
  <2> SUFFICES ASSUME NEW i \in 1..n PROVE flatten[i] \in Seq(X)
    OBVIOUS
  <2>1. i - 1 \in Nat /\ i - 1 + 1 = i /\ i <= n
    BY <1>2
  <2> QED
    BY <1>7, <2>1
<1>9. flatten = [i \in 1..n |-> flatten[i]]
  BY <1>4
<1>10. flatten \in [1..n -> Seq(X)]
  BY <1>8, <1>9
<1> QED
  BY <1>1, <1>6, <1>10 DEF n

\* Flattening a sequence with one sequence more.
LEMMA FlattenAppend ==
  ASSUME NEW X, NEW seqs \in Seq(Seq(X)), NEW s \in Seq(X)
  PROVE  /\ FlattenSeq(seqs) \in Seq(X)
         /\ FlattenSeq(Append(seqs, s)) = FlattenSeq(seqs) \o s
<1> DEFINE n == Len(seqs)
           more == Append(seqs, s)
<1>1. /\ more \in Seq(Seq(X)) /\ Len(more) = n + 1 /\ n \in Nat
      /\ \A i \in 1..n : more[i] = seqs[i]
      /\ more[n + 1] = s
  OBVIOUS
<1> HIDE DEF n, more
<1>2. PICK gg \in [1..(n + 1) -> Seq(X)] :
        /\ Flattening(more, n + 1, gg)
        /\ FlattenSeq(more) = gg[n + 1]
  <2>1. Len(more) # 0
    BY <1>1
  <2> QED
    BY <1>1, <2>1, FlattenFacts
<1>3. CASE n = 0
  <2>1. seqs = <<>> /\ FlattenSeq(seqs) = <<>>
    BY <1>3 DEF n, FlattenSeq
  <2>2. FlattenSeq(more) = s
    BY <1>1, <1>2, <1>3 DEF Flattening
  <2>3. <<>> \o s = s /\ <<>> \in Seq(X)
    OBVIOUS
  <2> QED
    <3>1. FlattenSeq(seqs) \o s = <<>> \o s
      BY <2>1
    <3> QED
      BY <2>1, <2>2, <2>3, <3>1 DEF more
<1>4. CASE n # 0
  <2>1. PICK g \in [1..n -> Seq(X)] :
          /\ Flattening(seqs, n, g)
          /\ FlattenSeq(seqs) = g[n]
    BY <1>4, FlattenFacts DEF n
  <2> DEFINE Holding == {i \in Nat : i + 1 <= n => gg[i + 1] = g[i + 1]}
  <2>2. 0 \in Holding
    <3>1. ASSUME 1 <= n PROVE gg[0 + 1] = g[0 + 1]
      BY <1>1, <1>2, <2>1, <3>1 DEF Flattening
    <3> QED
      BY <3>1
  <2>3. ASSUME NEW i \in Nat, i \in Holding PROVE i + 1 \in Holding
    <3> SUFFICES ASSUME i + 1 + 1 <= n PROVE gg[i + 1 + 1] = g[i + 1 + 1]
      OBVIOUS
    <3> DEFINE k == i + 1 + 1
    <3>1. k \in 1..n /\ k \in 1..(n + 1) /\ k # 1 /\ k - 1 = i + 1 /\ i + 1 <= n
      BY <1>1
    <3>2. gg[k - 1] = g[k - 1] /\ more[k] = seqs[k]
      BY <1>1, <2>3, <3>1
    <3> HIDE DEF k
    <3>3. gg[k] = gg[k - 1] \o more[k] /\ g[k] = g[k - 1] \o seqs[k]
      BY <1>2, <2>1, <3>1 DEF Flattening
    <3>4. gg[k] = g[k]
      BY <3>2, <3>3
    <3> QED
      BY <3>4 DEF k
  <2>4. Holding = Nat
    <3>1. Holding \in SUBSET Nat
      OBVIOUS
    <3> HIDE DEF Holding
    <3> QED
      BY <2>2, <2>3, <3>1, InductionBySet
  <2>5. gg[n] = g[n]
    <3>1. n - 1 \in Nat /\ n - 1 + 1 = n
      BY <1>1, <1>4
    <3> QED
      BY <2>4, <3>1
  <2>6. gg[n + 1] = gg[n] \o s
    <3> DEFINE k == n + 1
    <3>1. k \in 1..k /\ k # 1 /\ k - 1 = n /\ more[k] = s
      BY <1>1, <1>4
    <3>2. Flattening(more, k, gg)
      BY <1>2
    <3> HIDE DEF k
    <3>3. gg[k] = gg[k - 1] \o more[k]
      BY <3>1, <3>2 DEF Flattening
    <3>4. gg[k] = gg[n] \o s
      BY <3>1, <3>3
    <3> QED
      BY <3>4 DEF k
  <2>7. g[n] \in Seq(X)
    BY <1>1, <1>4, <2>1
  <2> QED
    BY <1>2, <2>1, <2>5, <2>6, <2>7 DEF more
<1> QED
  BY <1>3, <1>4

=============================================================================
