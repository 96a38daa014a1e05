---------------------------- MODULE DiffInputProofs ----------------------------
(***************************************************************************)
(* Proofs about module DiffInput, for every patch git can write, every     *)
(* configuration and all sets of paths: the limits on files bind and are   *)
(* kept, a status tells what happened to its path, a file that was moved   *)
(* is judged by both its paths, no section of the patch disappears, and a  *)
(* private key gets one marker.                                            *)
(***************************************************************************)
EXTENDS DiffInput, SharedLemmas

-----------------------------------------------------------------------------
\* Sections and hunks.

Rank(S, i) == Cardinality({j \in S : j <= i})

LEMMA RankType ==
  ASSUME NEW S \in SUBSET Nat, IsFiniteSet(S), NEW i \in S
  PROVE  Rank(S, i) \in 1..Cardinality(S) /\ Cardinality(S) \in Nat
<1> DEFINE T == {j \in S : j <= i}
<1>1. IsFiniteSet(T) /\ Cardinality(T) <= Cardinality(S)
  BY FS_Subset
<1>2. Cardinality(T) \in Nat /\ Cardinality(S) \in Nat
  BY <1>1, FS_CardinalityType
<1>3. T # {}
  OBVIOUS
<1>4. Cardinality(T) # 0
  BY <1>1, <1>3, FS_EmptySet
<1> QED
  BY <1>1, <1>2, <1>4 DEF Rank

\* The rank grows with the number.
LEMMA RankGrows ==
  ASSUME NEW S \in SUBSET Nat, IsFiniteSet(S), NEW i \in S, NEW k \in S, i < k
  PROVE  Rank(S, i) < Rank(S, k)
<1> DEFINE T == {j \in S : j <= i}
           U == {j \in S : j <= k}
<1>1. IsFiniteSet(U) /\ T \in SUBSET U /\ k \in U /\ k \notin T
  <2>1. IsFiniteSet(U)
    BY FS_Subset
  <2>2. \A j \in T : j \in S /\ j <= k
    OBVIOUS
  <2>3. k \in U /\ k \notin T
    OBVIOUS
  <2> QED
    BY <2>1, <2>2, <2>3
<1>2. Cardinality(U) \in Nat /\ Cardinality(T) \in Nat
  <2> HIDE DEF T, U
  <2> QED
    BY <1>1, FS_Subset, FS_CardinalityType
<1>3. Cardinality(T) <= Cardinality(U) /\ Cardinality(T) # Cardinality(U)
  <2> HIDE DEF T, U
  <2> QED
    BY <1>1, FS_Subset
<1> QED
  BY <1>2, <1>3 DEF Rank

\* Ascending gives each place to one number.
LEMMA AscendingFacts ==
  ASSUME NEW S \in SUBSET Nat, IsFiniteSet(S)
  PROVE  LET at == Ascending(S)
         IN  /\ Cardinality(S) \in Nat
             /\ at \in [1..Cardinality(S) -> S]
             /\ Len(at) = Cardinality(S)
             /\ \A n \in 1..Cardinality(S) : Rank(S, at[n]) = n
<1> DEFINE c == Cardinality(S)
           rank == [i \in S |-> Rank(S, i)]
<1>1. c \in Nat /\ IsFiniteSet(1..c) /\ Cardinality(1..c) = c
  <2>1. c \in Nat
    BY FS_CardinalityType
  <2> QED
    BY <2>1, FS_Interval
<1>2. rank \in [S -> 1..c]
  BY RankType
<1>3. \A i, k \in S : rank[i] = rank[k] => i = k
  <2> SUFFICES ASSUME NEW i \in S, NEW k \in S, i # k
               PROVE  Rank(S, i) # Rank(S, k)
    OBVIOUS
  <2>1. i < k \/ k < i
    OBVIOUS
  <2>2. Rank(S, i) \in Nat /\ Rank(S, k) \in Nat
    BY <1>1, RankType
  <2> QED
    BY <2>1, <2>2, RankGrows
<1>4. rank \in Injection(S, 1..c)
  BY <1>2, <1>3 DEF Injection, IsInjective
<1>5. rank \in Surjection(S, 1..c)
  <2> HIDE DEF rank
  <2> QED
    BY <1>1, <1>4, FS_Injection
<1>6. \A n \in 1..c : \E i \in S : Rank(S, i) = n
  BY <1>5 DEF Surjection
<1>7. \A n \in 1..c : (CHOOSE i \in S : Rank(S, i) = n) \in S
                      /\ Rank(S, CHOOSE i \in S : Rank(S, i) = n) = n
  BY <1>6
<1>8. Ascending(S) = [n \in 1..c |-> CHOOSE i \in S : Rank(S, i) = n]
  BY DEF Ascending, Rank
<1> HIDE DEF c, rank
<1>9. /\ Ascending(S) \in [1..c -> S]
      /\ \A n \in 1..c : Rank(S, Ascending(S)[n]) = n
  BY <1>7, <1>8
<1>10. Len(Ascending(S)) = c
  BY <1>1, <1>9
<1> QED
  BY <1>1, <1>9, <1>10 DEF c

\* ... in ascending order, with none between two places and none after the last.
LEMMA AscendingOrder ==
  ASSUME NEW S \in SUBSET Nat, IsFiniteSet(S), NEW n \in 1..Cardinality(S)
  PROVE  LET at == Ascending(S)
         IN  /\ at[n] \in S
             /\ n # Cardinality(S) =>
                  /\ at[n + 1] \in S /\ at[n] < at[n + 1]
                  /\ \A k \in S : at[n] < k => at[n + 1] <= k
             /\ n = Cardinality(S) => \A k \in S : k <= at[n]
<1> DEFINE at == Ascending(S)
           c == Cardinality(S)
<1>1. /\ c \in Nat /\ at \in [1..c -> S]
      /\ \A m \in 1..c : Rank(S, at[m]) = m
  BY AscendingFacts
<1>2. \A k \in S : Rank(S, k) \in 1..c
  BY RankType
<1>3. \A j, k \in S : j < k => Rank(S, j) < Rank(S, k)
  BY RankGrows
<1> HIDE DEF at, c
<1> DEFINE x == at[n]
<1>4. x \in S /\ x \in Nat /\ Rank(S, x) = n /\ n \in Nat
  <2>1. n \in 1..c
    BY DEF c
  <2>2. x \in S /\ Rank(S, x) = n
    BY <1>1, <2>1
  <2>3. n \in Nat
    BY <1>1, <2>1
  <2> HIDE DEF x
  <2>4. x \in Nat
    BY <2>2
  <2> QED
    BY <2>2, <2>3, <2>4
<1> HIDE DEF x
<1>5. ASSUME n # c
      PROVE  /\ at[n + 1] \in S /\ x < at[n + 1]
             /\ \A k \in S : x < k => at[n + 1] <= k
  <2> DEFINE y == at[n + 1]
  <2>1. n + 1 \in 1..c
    BY <1>1, <1>5 DEF c
  <2>2. y \in S /\ y \in Nat /\ Rank(S, y) = n + 1
    BY <1>1, <2>1
  <2> HIDE DEF y
  <2>3. x < y
    BY <1>3, <1>4, <2>2
  <2>4. ASSUME NEW k \in S, x < k PROVE y <= k
    <3>1. n < Rank(S, k) /\ Rank(S, k) \in Nat
      BY <1>1, <1>2, <1>3, <1>4, <2>4
    <3>2. k < y => Rank(S, k) < n + 1
      BY <1>3, <2>2
    <3> QED
      BY <1>4, <2>2, <3>1, <3>2
  <2> QED
    BY <2>2, <2>3, <2>4 DEF y
<1>6. ASSUME n = c, NEW k \in S PROVE k <= x
  BY <1>1, <1>2, <1>3, <1>4, <1>6
<1> QED
  BY <1>4, <1>5, <1>6 DEF x, at, c

LEMMA AtFacts ==
  ASSUME NEW lines, IsSequence(lines), NEW kind
  PROVE  /\ Len(lines) \in Nat /\ DOMAIN lines = 1..Len(lines)
         /\ At(lines, kind) \in SUBSET Nat /\ IsFiniteSet(At(lines, kind))
         /\ \A i \in At(lines, kind) : i \in 1..Len(lines)
<1>1. Len(lines) \in Nat /\ DOMAIN lines = 1..Len(lines)
  BY DEF IsSequence
<1>2. At(lines, kind) \in SUBSET (1..Len(lines))
  BY <1>1 DEF At
<1>3. IsFiniteSet(1..Len(lines))
  BY <1>1, FS_Interval
<1>4. IsFiniteSet(At(lines, kind))
  BY <1>2, <1>3, FS_Subset
<1>5. At(lines, kind) \in SUBSET Nat
  BY <1>1, <1>2
<1> QED
  BY <1>1, <1>2, <1>4, <1>5

LEMMA SubSeqFacts ==
  ASSUME NEW s, IsSequence(s), NEW a \in Nat \ {0}, NEW b \in Int, b <= Len(s)
  PROVE  LET t == SubSeq(s, a, b)
         IN  /\ IsSequence(t)
             /\ Len(t) = IF a <= b THEN b - a + 1 ELSE 0
             /\ \A i \in 1..Len(t) : t[i] = s[a + i - 1]
<1> DEFINE S == ToSet(s)
           t == SubSeq(s, a, b)
<1>1. s \in Seq(S)
  BY DEF IsSequence
<1> HIDE DEF S
<1>2. t \in Seq(S)
  BY <1>1
<1>3. Len(t) = IF a <= b THEN b - a + 1 ELSE 0
  BY <1>1
<1>4. \A i \in 1..Len(t) : t[i] = s[a + i - 1]
  BY <1>1
<1> HIDE DEF t
<1>5. IsSequence(t)
  BY <1>2, SequenceOf
<1> QED
  BY <1>3, <1>4, <1>5 DEF t

\* The parts a sequence is cut into before each line of a kind.
LEMMA PartFacts ==
  ASSUME NEW lines, IsSequence(lines), NEW kind,
         NEW n \in DOMAIN Ascending(At(lines, kind))
  PROVE  LET at == Ascending(At(lines, kind))
             last == IF n = Len(at) THEN Len(lines) ELSE at[n + 1] - 1
         IN  /\ at[n] \in 1..Len(lines)
             /\ last \in Nat /\ last <= Len(lines) /\ at[n] <= last
             /\ \A k \in at[n] + 1 .. last : lines[k].kind # kind
<1> DEFINE S == At(lines, kind)
           at == Ascending(S)
           last == IF n = Len(at) THEN Len(lines) ELSE at[n + 1] - 1
           c == Cardinality(S)
<1>1. /\ Len(lines) \in Nat /\ DOMAIN lines = 1..Len(lines)
      /\ S \in SUBSET Nat /\ IsFiniteSet(S)
      /\ \A i \in S : i \in 1..Len(lines)
  BY AtFacts
<1>2. \A k \in 1..Len(lines) : lines[k].kind = kind => k \in S
  BY <1>1 DEF At
<1> HIDE DEF S
<1>3. Len(at) = c /\ n \in 1..c /\ c \in Nat
  <2>1. c \in Nat /\ at \in [1..c -> S] /\ Len(at) = c
    BY <1>1, AscendingFacts
  <2>2. DOMAIN at = 1..c
    BY <2>1
  <2> QED
    BY <2>1, <2>2 DEF S
<1> DEFINE x == at[n]
           y == at[n + 1]
<1>4. /\ x \in S
      /\ n # c => y \in S /\ x < y /\ \A k \in S : x < k => y <= k
      /\ n = c => \A k \in S : k <= x
  <2>1. n \in 1..Cardinality(S)
    BY <1>3 DEF c
  <2> HIDE DEF at
  <2>2. S \in SUBSET Nat /\ IsFiniteSet(S)
    BY <1>1
  <2> QED
    BY <2>1, <2>2, AscendingOrder DEF at, c
<1>5. last = IF n = c THEN Len(lines) ELSE y - 1
  BY <1>3
<1> HIDE DEF at, c, x, y, last
<1>6. x \in 1..Len(lines) /\ last \in Nat /\ last <= Len(lines) /\ x <= last
  <2>1. x \in Nat /\ x \in 1..Len(lines)
    BY <1>1, <1>4
  <2>2. CASE n = c
    BY <1>1, <1>5, <2>1, <2>2
  <2>3. CASE n # c
    <3>1. y \in Nat /\ y \in 1..Len(lines) /\ x < y
      BY <1>1, <1>4, <2>3
    <3> QED
      BY <1>1, <1>5, <2>1, <2>3, <3>1
  <2> QED
    BY <2>2, <2>3
<1>7. ASSUME NEW k \in x + 1 .. last, lines[k].kind = kind
      PROVE  FALSE
  <2>1. k \in Nat /\ k \in 1..Len(lines) /\ x < k /\ k <= last
    BY <1>1, <1>6
  <2>2. k \in S
    BY <1>2, <1>7, <2>1
  <2>3. CASE n = c
    BY <1>1, <1>4, <2>1, <2>2, <2>3
  <2>4. CASE n # c
    <3>1. y \in Nat /\ y <= k
      BY <1>1, <1>4, <2>1, <2>2, <2>4
    <3> QED
      BY <1>5, <2>1, <2>4, <3>1
  <2> QED
    BY <2>3, <2>4
<1> QED
  BY <1>6, <1>7 DEF last, x, y, at, S

\* A section is a part of the patch in which no other begins.
LEMMA SectionFacts ==
  ASSUME patch \in Patches, NEW n \in DOMAIN Sections
  PROVE  /\ n \in Nat \ {0}
         /\ IsSequence(Sections[n]) /\ Len(Sections[n]) > 0
         /\ \E a \in 1..Len(patch), b \in 1..Len(patch) :
              /\ a <= b /\ Len(Sections[n]) = b - a + 1
              /\ \A i \in 1..Len(Sections[n]) : Sections[n][i] = patch[a + i - 1]
              /\ \A k \in a + 1 .. b : patch[k].kind # "git"
<1> DEFINE at == Ascending(At(patch, "git"))
           last == IF n = Len(at) THEN Len(patch) ELSE at[n + 1] - 1
<1>1. IsSequence(patch)
  BY PatchesAssumption DEF IsSequence
<1>2. n \in DOMAIN at /\ Sections[n] = SubSeq(patch, at[n], last)
  BY DEF Sections
<1>3. /\ at[n] \in 1..Len(patch)
      /\ last \in Nat /\ last <= Len(patch) /\ at[n] <= last
      /\ \A k \in at[n] + 1 .. last : patch[k].kind # "git"
  BY <1>1, <1>2, PartFacts
<1>4. n \in Nat \ {0}
  <2>1. DOMAIN at = 1..Cardinality(At(patch, "git"))
    BY DEF Ascending
  <2> QED
    BY <1>2, <2>1
<1>5. Len(patch) \in Nat
  BY <1>1, AtFacts
<1> HIDE DEF at, last
<1> DEFINE section == SubSeq(patch, at[n], last)
<1>6. /\ IsSequence(section) /\ Len(section) = last - at[n] + 1
      /\ \A i \in 1..Len(section) : section[i] = patch[at[n] + i - 1]
  BY <1>1, <1>3, <1>5, SubSeqFacts
<1> HIDE DEF section
<1>7. Sections[n] = section
  BY <1>2 DEF section
<1>8. at[n] \in 1..Len(patch) /\ last \in 1..Len(patch) /\ at[n] <= last /\ Len(section) > 0
  BY <1>3, <1>5, <1>6
<1> QED
  BY <1>3, <1>4, <1>6, <1>7, <1>8

-----------------------------------------------------------------------------
\* The inductive invariant.

\* Parsed files keep the order of their sections.
SectionsParsed ==
  /\ \A k \in DOMAIN parsed :
       /\ parsed[k].of \in DOMAIN Sections
       /\ WellFormed(Sections[parsed[k].of])
       /\ parsed[k] = ParsedFile(Sections[parsed[k].of], parsed[k].of)
  /\ \A j, k \in DOMAIN parsed : j < k => parsed[j].of < parsed[k].of
  /\ stage = "split" => parsed = <<>> /\ items = <<>> /\ next = 1
  /\ stage = "parse" => \A f \in ToSet(parsed) \cup ToSet(items) : f.of < next

\* The parsed files filtering has decided about.
Judged == {k \in DOMAIN parsed : stage \notin {"split", "parse"} /\ (stage = "filter" => k < next)}

Unparsed(i) ==
  \/ i.reason = "unsupported_diff" /\ i.of = 0
  \/ i.reason = "parse_error" /\ i.of \in DOMAIN Sections /\ \A f \in ToSet(parsed) : f.of # i.of

\* An item is about what was not parsed or, as an included file, about a file judged.
Origins ==
  /\ \A i \in ToSet(items) : Unparsed(i) \/ \E k \in Judged : i.of = parsed[k].of
  /\ \A f \in ToSet(included) : \E k \in Judged : f.of = parsed[k].of

Cut(f) == [f EXCEPT !.hunks = Kept(f)]

LeftOut(f, reason) ==
  \/ reason # "" /\ reason = FilterReason(f)
  \/ FilterReason(f) = "" /\ reason = "maximum_file_count"
  \/ /\ FilterReason(f) = "" /\ reason = "file_size_limit"
     /\ ~Fits(f) /\ (config.truncate => Kept(f) = <<>>)

Left(f) ==
  /\ FileOf(f.of) = {}
  /\ \E i \in ToSet(items) : ItemsOf(f.of) = {i} /\ i.path = f.path /\ LeftOut(f, i.reason)

Taken(f) ==
  /\ FilterReason(f) = ""
  /\ \/ FileOf(f.of) = {f} /\ ItemsOf(f.of) = {} /\ Fits(f)
     \/ /\ FileOf(f.of) = {Cut(f)}
        /\ ItemsOf(f.of) = {Item(f.path, "file_partially_included", f.of)}
        /\ ~Fits(f) /\ config.truncate /\ Kept(f) # <<>>

\* A file that was judged has one item, is included, or is cut and has one item.
Verdicts == \A k \in Judged : Left(parsed[k]) \/ Taken(parsed[k])

Limits ==
  /\ Len(included) <= config.maxFiles
  /\ \A i \in ToSet(items) : i.reason = "maximum_file_count" => Len(included) = config.maxFiles

StatusOf(f) ==
  IF FileOf(f.of) = {} THEN "skipped"
  ELSE IF ItemsOf(f.of) = {} THEN "fully_reviewed" ELSE "partially_included"

LastOfPath(k) == \A j \in Judged : k < j => parsed[j].path # parsed[k].path

\* A path has the status of the last file of that path.
StatusesKept ==
  /\ \A k \in Judged :
       /\ parsed[k].path \in DOMAIN statuses
       /\ LastOfPath(k) => statuses[parsed[k].path] = StatusOf(parsed[k])
  /\ stage \in {"split", "parse", "filter"} =>
       \A p \in DOMAIN statuses : \E k \in Judged : p = parsed[k].path
  /\ stage \in {"redact", "done"} =>
       \A p \in UnparsedPaths :
         /\ p \in DOMAIN statuses
         /\ statuses[p] = "skipped" \/ \E k \in Judged : p = parsed[k].path

InputTypes ==
  /\ patch \in Patches /\ config \in Configs
  /\ stage \in {"split", "parse", "filter", "redact", "done"}
  /\ next \in Nat \ {0}
  /\ IsSequence(parsed) /\ IsSequence(included) /\ IsSequence(items)

\* The inductive invariant.
InputInvariant ==
  InputTypes /\ SectionsParsed /\ Origins /\ Verdicts /\ Limits /\ StatusesKept

-----------------------------------------------------------------------------
\* Facts about files.

LEMMA SectionNumbers ==
  ASSUME patch \in Patches
  PROVE  \E c \in Nat : DOMAIN Sections = 1..c
<1> DEFINE S == At(patch, "git")
<1>1. IsSequence(patch)
  BY PatchesAssumption DEF IsSequence
<1>2. S \in SUBSET Nat /\ IsFiniteSet(S)
  BY <1>1, AtFacts
<1> HIDE DEF S
<1>3. Cardinality(S) \in Nat /\ Ascending(S) \in [1..Cardinality(S) -> S]
  BY <1>2, AscendingFacts
<1>4. DOMAIN Sections = 1..Cardinality(S)
  BY <1>3 DEF Sections, S
<1> QED
  BY <1>3, <1>4

LEMMA ParsedFileFacts ==
  ASSUME patch \in Patches, NEW n \in DOMAIN Sections
  PROVE  LET section == Sections[n]
             f == ParsedFile(section, n)
             headers == HeadersOf(section)
         IN  /\ f.of = n /\ f.headers = headers /\ f.binary = (At(headers, "binary") # {})
             /\ f.path = PathOf(headers, "rename_to", section[1].path)
             /\ f.previous = Previous(headers)
             /\ IsSequence(f.hunks)
             /\ \A hunks : LET g == [f EXCEPT !.hunks = hunks]
                           IN  /\ g.of = n /\ g.path = f.path /\ g.previous = f.previous
                               /\ g.headers = headers /\ g.hunks = hunks /\ g.binary = f.binary
<1> DEFINE section == Sections[n]
           headers == HeadersOf(section)
           S == At(section, "hunk")
           at == Ascending(S)
           hunks == HunksOf(section)
<1>1. IsSequence(section)
  BY SectionFacts
<1>2. S \in SUBSET Nat /\ IsFiniteSet(S)
  <2> HIDE DEF section
  <2> QED
    BY <1>1, AtFacts
<1>3. Cardinality(S) \in Nat /\ at \in [1..Cardinality(S) -> S]
  <2> HIDE DEF S
  <2> QED
    BY <1>2, AscendingFacts
<1>4. DOMAIN hunks = 1..Cardinality(S) /\ hunks = [i \in DOMAIN hunks |-> hunks[i]]
  <2> HIDE DEF section
  <2> QED
    BY <1>3 DEF HunksOf
<1> HIDE DEF section, headers, S, hunks
<1>5. IsSequence(hunks)
  <2> DEFINE c == Cardinality(S)
  <2>1. hunks \in [1..c -> ToSet(hunks)] /\ c \in Nat
    BY <1>3, <1>4 DEF ToSet
  <2> HIDE DEF c
  <2> QED
    BY <2>1 DEF IsSequence
<1> DEFINE path == PathOf(headers, "rename_to", section[1].path)
           previous == Previous(headers)
           binary == At(headers, "binary") # {}
           f == ParsedFile(section, n)
<1>6. f = [path |-> path, previous |-> previous, binary |-> binary,
           headers |-> headers, hunks |-> hunks, of |-> n]
  BY DEF ParsedFile, headers, hunks
<1> HIDE DEF path, previous, binary, f
<1>7. /\ f.of = n /\ f.headers = headers /\ f.binary = binary
      /\ f.path = path /\ f.previous = previous /\ f.hunks = hunks
  BY <1>6
<1>8. ASSUME NEW h
      PROVE  LET g == [f EXCEPT !.hunks = h]
             IN  /\ g.of = n /\ g.path = path /\ g.previous = previous
                 /\ g.headers = headers /\ g.hunks = h /\ g.binary = binary
  BY <1>6
<1> QED
  BY <1>5, <1>7, <1>8 DEF f, section, headers, hunks, path, previous, binary

\* The hunks kept are as many as fit: none more fits.
LEMMA KeptFacts ==
  ASSUME NEW f, IsSequence(f.hunks)
  PROVE  \E m \in 0..Len(f.hunks) :
           /\ Len(Kept(f)) = m /\ (m = 0 => Kept(f) = <<>>)
           /\ Cut(f) = FirstHunks(f, m)
           /\ m # 0 => Fits(FirstHunks(f, m))
           /\ m < Len(f.hunks) => ~Fits(FirstHunks(f, m + 1))
<1> DEFINE hunks == f.hunks
           c == Len(hunks)
           K == {k \in 0..c : \A j \in 1..k : Fits(FirstHunks(f, j))}
           m == Max(K)
<1>1. c \in Nat
  BY DEF IsSequence
<1>2. 0 \in K /\ K \in SUBSET Nat /\ \A k \in K : k <= c
  BY <1>1
<1>3. m \in K /\ \A k \in K : k <= m
  <2> HIDE DEF K, c
  <2> QED
    BY <1>1, <1>2, MaxOfNaturals
<1>4. m \in 0..c /\ \A j \in 1..m : Fits(FirstHunks(f, j))
  BY <1>3
<1>5. Kept(f) = SubSeq(hunks, 1, m)
  BY DEF Kept
<1>6. Cut(f) = FirstHunks(f, m)
  BY <1>5 DEF Cut, FirstHunks
<1> HIDE DEF m
<1>7. Len(Kept(f)) = m /\ (m = 0 => Kept(f) = <<>>)
  <2>1. m \in Nat /\ m <= Len(hunks)
    BY <1>1, <1>4
  <2> HIDE DEF hunks
  <2>2. m \in Int /\ m <= Len(hunks) /\ IsSequence(hunks)
    BY <2>1 DEF hunks
  <2>3. IsSequence(Kept(f)) /\ Len(Kept(f)) = IF 1 <= m THEN m - 1 + 1 ELSE 0
    BY <1>5, <2>2, SubSeqFacts
  <2>4. Len(Kept(f)) = 0 => Kept(f) = <<>>
    BY <2>3 DEF IsSequence
  <2> QED
    BY <2>1, <2>3, <2>4
<1>8. m # 0 => Fits(FirstHunks(f, m))
  BY <1>1, <1>4
<1>9. ASSUME m < c, Fits(FirstHunks(f, m + 1)) PROVE FALSE
  <2>1. m \in Nat /\ m + 1 \in 0..c
    BY <1>1, <1>4, <1>9
  <2>2. \A j \in 1..(m + 1) : j \in 1..m \/ j = m + 1
    BY <2>1
  <2>3. m + 1 \in K
    BY <1>4, <1>9, <2>1, <2>2
  <2> HIDE DEF K
  <2> QED
    BY <1>3, <2>1, <2>3
<1> QED
  BY <1>4, <1>6, <1>7, <1>8, <1>9

\* What FilterReason may answer: with "" no path of the file is sensitive or excluded.
LEMMA FilterReasons ==
  ASSUME NEW f
  PROVE  /\ FilterReason(f) \in {"binary_file", "sensitive_path", "excluded_pattern",
                                 "unsupported_file_type", ""}
         /\ FilterReason(f) = "" =>
              Paths(f) \cap (Sensitive \cup Excluded) = {}
<1> DEFINE B == f.binary
           S == Paths(f) \cap Sensitive # {}
           E == Paths(f) \cap Excluded # {}
           U == f.path \in Unsupported
<1>1. Paths(f) \cap (Sensitive \cup Excluded) = {} <=> ~S /\ ~E
  OBVIOUS
<1> HIDE DEF S, E
<1>2. FilterReason(f) =
        CASE B -> "binary_file"
          [] ~B /\ S -> "sensitive_path"
          [] ~B /\ ~S /\ E -> "excluded_pattern"
          [] ~B /\ (~S /\ ~E) /\ U -> "unsupported_file_type"
          [] OTHER -> ""
  BY <1>1 DEF FilterReason, S, E
<1> HIDE DEF B, U
<1>3. FilterReason(f) \in {"binary_file", "sensitive_path", "excluded_pattern",
                           "unsupported_file_type", ""}
  BY <1>2
<1>4. FilterReason(f) = "" => ~S /\ ~E
  BY <1>2
<1> QED
  BY <1>1, <1>3, <1>4

-----------------------------------------------------------------------------
\* The steps.

\* What is not assigned by a step is the same after it.
LEMMA SameInput ==
  ASSUME patch' = patch, config' = config
  PROVE  /\ Sections' = Sections
         /\ \A f : /\ Fits(f)' = Fits(f) /\ Kept(f)' = Kept(f) /\ Cut(f)' = Cut(f)
                   /\ \A reason : LeftOut(f, reason)' = LeftOut(f, reason)
<1>1. Sections' = Sections
  BY DEF Sections
<1>2. \A f : Fits(f)' = Fits(f)
  BY DEF Fits
<1>3. \A f : Kept(f)' = Kept(f)
  BY <1>2 DEF Kept
<1>4. \A f : Cut(f)' = Cut(f)
  BY <1>3 DEF Cut
<1>5. \A f : \A reason : LeftOut(f, reason)' = LeftOut(f, reason)
  BY <1>2, <1>3 DEF LeftOut
<1> QED
  BY <1>1, <1>2, <1>3, <1>4, <1>5

\* A step that judges no file and skips none keeps what is said of those judged.
LEMMA SameVerdicts ==
  ASSUME InputInvariant, UNCHANGED <<patch, config, parsed, included, items>>,
         Judged' = Judged
  PROVE  /\ IsSequence(parsed)' /\ IsSequence(included)' /\ IsSequence(items)'
         /\ patch' \in Patches /\ config' \in Configs
         /\ Origins' /\ Verdicts' /\ Limits'
         /\ \A f : StatusOf(f)' = StatusOf(f)
         /\ UnparsedPaths' = UnparsedPaths
<1>1. Sections' = Sections /\ \A f : /\ Fits(f)' = Fits(f) /\ Kept(f)' = Kept(f) /\ Cut(f)' = Cut(f)
                   /\ \A reason : LeftOut(f, reason)' = LeftOut(f, reason)
  BY SameInput
<1>2. \A n : FileOf(n)' = FileOf(n) /\ ItemsOf(n)' = ItemsOf(n)
  BY DEF FileOf, ItemsOf
<1>3. \A f : Left(f)' = Left(f)
  BY <1>1, <1>2 DEF Left
<1>4. \A f : Taken(f)' = Taken(f)
  BY <1>1, <1>2 DEF Taken
<1>5. Verdicts'
  BY <1>3, <1>4 DEF InputInvariant, Verdicts
<1>6. \A i : Unparsed(i)' = Unparsed(i)
  BY <1>1 DEF Unparsed
<1>7. Origins'
  BY <1>6 DEF InputInvariant, Origins
<1>8. Limits'
  BY DEF InputInvariant, Limits
<1>9. \A f : StatusOf(f)' = StatusOf(f)
  BY <1>2 DEF StatusOf
<1>10. UnparsedPaths' = UnparsedPaths
  BY DEF UnparsedPaths, NotParsed
<1> QED
  BY <1>5, <1>7, <1>8, <1>9, <1>10 DEF InputInvariant, InputTypes

LEMMA InputInit == ASSUME Init PROVE InputInvariant
<1>1. InputTypes
  BY EmptySequence DEF Init, InputTypes
<1>2. SectionsParsed
  BY EmptySequence DEF Init, SectionsParsed
<1>3. Judged = {}
  BY DEF Init, Judged
<1>4. Origins
  BY EmptySequence DEF Init, Origins
<1>5. Verdicts
  BY <1>3 DEF Verdicts
<1>6. Limits
  BY EmptySequence, ConfigsAssumption DEF Init, Limits, ValidConfig
<1>7. StatusesKept
  BY <1>3 DEF Init, StatusesKept
<1> QED
  BY <1>1, <1>2, <1>4, <1>5, <1>6, <1>7 DEF InputInvariant

\* While the patch is parsed nothing is judged and every item is about what was not parsed.
LEMMA WhileParsing ==
  ASSUME InputInvariant, stage \in {"split", "parse"}
  PROVE  Judged = {} /\ ToSet(included) = {} /\ DOMAIN statuses = {}
         /\ \A i \in ToSet(items) : Unparsed(i)
<1>1. Judged = {}
  BY DEF Judged
<1> QED
  BY <1>1 DEF InputInvariant, Origins, StatusesKept

\* A step within parsing keeps the rest if every item is about what was not parsed.
LEMMA StillParsing ==
  ASSUME InputInvariant, stage \in {"split", "parse"}, stage' \in {"split", "parse"},
         UNCHANGED <<patch, config, included, statuses>>,
         \A i \in ToSet(items') : Unparsed(i)'
  PROVE  Origins' /\ Verdicts' /\ Limits' /\ StatusesKept'
<1>1. ToSet(included) = {} /\ DOMAIN statuses = {}
  BY WhileParsing
<1>2. Judged' = {}
  BY DEF Judged
<1>3. Origins'
  BY <1>1 DEF Origins
<1>4. Verdicts'
  BY <1>2 DEF Verdicts
<1>5. Limits'
  BY DEF InputInvariant, Limits, Unparsed
<1>6. StatusesKept'
  BY <1>1, <1>2 DEF StatusesKept
<1> QED
  BY <1>3, <1>4, <1>5, <1>6

LEMMA SplitStep == ASSUME InputInvariant, Split PROVE InputInvariant'
<1> DEFINE other == Cardinality(At(patch, "other"))
           more == IF patch # <<>> /\ Sections = <<>> THEN 1 ELSE 0
           item == Item("<patch>", "unsupported_diff", 0)
<1>1. other \in Nat
  <2>1. IsSequence(patch)
    BY PatchesAssumption DEF InputInvariant, InputTypes, IsSequence
  <2>2. IsFiniteSet(At(patch, "other"))
    BY <2>1, AtFacts
  <2> QED
    BY <2>2, FS_CardinalityType
<1>2. items' = [i \in 1..(other + more) |-> item]
  BY DEF Split
<1>3. more \in Nat
  OBVIOUS
<1> HIDE DEF other, more
<1>4. item.reason = "unsupported_diff" /\ item.of = 0
  BY DEF Item
<1> HIDE DEF item
<1>5. other + more \in Nat
  BY <1>1, <1>3
<1>6. items' \in Seq({item})
  BY <1>2, <1>5
<1>7. IsSequence(items') /\ ToSet(items') \subseteq {item}
  BY <1>6, SequenceOf
<1>8. \A i \in ToSet(items') : Unparsed(i)'
  BY <1>4, <1>7 DEF Unparsed
<1>9. stage = "split" /\ stage' = "parse" /\ parsed = <<>> /\ next = 1
      /\ UNCHANGED <<patch, config, next, parsed, included, statuses>>
  BY DEF Split, InputInvariant, SectionsParsed
<1>10. Origins' /\ Verdicts' /\ Limits' /\ StatusesKept'
  BY <1>8, <1>9, StillParsing
<1>11. InputTypes'
  BY <1>7, <1>9 DEF InputInvariant, InputTypes, IsSequence
<1>12. \A f \in ToSet(parsed') \cup ToSet(items') : f.of < next'
  BY <1>4, <1>7, <1>9, EmptySequence
<1>13. SectionsParsed'
  BY <1>9, <1>12, SameInput DEF InputInvariant, SectionsParsed
<1> QED
  BY <1>10, <1>11, <1>13 DEF InputInvariant

LEMMA ParseSectionStep == ASSUME InputInvariant, ParseSection PROVE InputInvariant'
<1> DEFINE section == Sections[next]
           f == ParsedFile(section, next)
           item == Item(section[1].path, "parse_error", next)
<1>1. /\ stage = "parse" /\ stage' = "parse" /\ next' = next + 1 /\ next \in Nat \ {0}
      /\ UNCHANGED <<patch, config, included, statuses>>
      /\ IsSequence(parsed) /\ IsSequence(items) /\ patch \in Patches
      /\ \A g \in ToSet(parsed) \cup ToSet(items) : g.of < next
  BY DEF ParseSection, InputInvariant, InputTypes, SectionsParsed
<1>2. next \in DOMAIN Sections
  <2>1. PICK c \in Nat : DOMAIN Sections = 1..c
    BY <1>1, SectionNumbers
  <2>2. Sections = [i \in 1..c |-> Sections[i]]
    BY <2>1 DEF Sections
  <2>3. Len(Sections) = c
    BY <2>1, <2>2
  <2>4. next <= Len(Sections)
    BY DEF ParseSection
  <2> QED
    BY <1>1, <2>1, <2>3, <2>4
<1>3. Sections' = Sections
  BY <1>1, SameInput
<1>4. \A i \in ToSet(items) : Unparsed(i)
  BY <1>1, WhileParsing
<1>5. f.of = next
  BY <1>1, <1>2, ParsedFileFacts
<1>6. item.of = next /\ item.reason = "parse_error"
  BY DEF Item
<1>7. \/ WellFormed(section) /\ parsed' = Append(parsed, f) /\ items' = items
      \/ items' = Append(items, item) /\ parsed' = parsed
  BY DEF ParseSection
<1>8. CASE WellFormed(section) /\ parsed' = Append(parsed, f) /\ items' = items
  <2> HIDE DEF f
  <2>1. /\ IsSequence(parsed') /\ ToSet(parsed') = ToSet(parsed) \cup {f}
        /\ Len(parsed) \in Nat /\ DOMAIN parsed = 1..Len(parsed)
        /\ DOMAIN parsed' = 1..(Len(parsed) + 1)
        /\ \A k \in 1..Len(parsed) : parsed'[k] = parsed[k]
        /\ parsed'[Len(parsed) + 1] = f
    BY <1>1, <1>8, AppendFacts
  <2>2. \A i \in ToSet(items') : Unparsed(i)'
    BY <1>1, <1>3, <1>4, <1>5, <1>8, <2>1 DEF Unparsed
  <2>3. InputTypes'
    BY <1>1, <1>8, <2>1 DEF InputInvariant, InputTypes
  <2>4. ASSUME NEW k \in DOMAIN parsed'
        PROVE  /\ parsed'[k].of \in DOMAIN Sections
               /\ WellFormed(Sections[parsed'[k].of])
               /\ parsed'[k] = ParsedFile(Sections[parsed'[k].of], parsed'[k].of)
    <3>1. CASE k \in 1..Len(parsed)
      BY <2>1, <3>1 DEF InputInvariant, SectionsParsed
    <3>2. CASE k = Len(parsed) + 1
      BY <1>2, <1>5, <1>8, <2>1, <3>2 DEF f
    <3> QED
      BY <2>1, <3>1, <3>2
  <2>5. ASSUME NEW j \in DOMAIN parsed', NEW k \in DOMAIN parsed', j < k
        PROVE  parsed'[j].of < parsed'[k].of
    <3>1. j \in 1..Len(parsed) /\ (k \in 1..Len(parsed) \/ k = Len(parsed) + 1)
      BY <2>1, <2>5
    <3>2. CASE k \in 1..Len(parsed)
      BY <2>1, <2>5, <3>1, <3>2 DEF InputInvariant, SectionsParsed
    <3>3. CASE k = Len(parsed) + 1
      <4>1. parsed[j] \in ToSet(parsed)
        BY <2>1, <3>1 DEF ToSet
      <4> QED
        BY <1>1, <1>5, <2>1, <3>1, <3>3, <4>1
    <3> QED
      BY <3>1, <3>2, <3>3
  <2>6. \A g \in ToSet(parsed') \cup ToSet(items') : g.of < next'
    <3>1. \A g \in ToSet(parsed) \cup ToSet(items) : g.of \in Int
      <4>1. \A g \in ToSet(items) : g.of \in Int
        <5>1. DOMAIN Sections \subseteq Int
          BY <1>1, SectionNumbers
        <5> QED
          BY <1>4, <5>1 DEF Unparsed
      <4>2. \A g \in ToSet(parsed) : g.of \in Int
        <5>1. DOMAIN Sections \subseteq Int
          BY <1>1, SectionNumbers
        <5> QED
          BY <5>1 DEF InputInvariant, SectionsParsed, ToSet
      <4> QED
        BY <4>1, <4>2
    <3> QED
      BY <1>1, <1>5, <1>8, <2>1, <3>1
  <2>7. SectionsParsed'
    BY <1>1, <1>3, <2>4, <2>5, <2>6 DEF SectionsParsed
  <2> QED
    BY <1>1, <2>2, <2>3, <2>7, StillParsing DEF InputInvariant
<1>9. CASE items' = Append(items, item) /\ parsed' = parsed
  <2> HIDE DEF item
  <2>1. IsSequence(items') /\ ToSet(items') = ToSet(items) \cup {item}
    BY <1>1, <1>9, AppendFacts
  <2>2. \A g \in ToSet(parsed) \cup ToSet(items) : g.of \in Int
    <3>1. DOMAIN Sections \subseteq Int
      BY <1>1, SectionNumbers
    <3> QED
      BY <1>4, <3>1 DEF InputInvariant, SectionsParsed, ToSet, Unparsed
  <2>3. \A i \in ToSet(items') : Unparsed(i)'
    <3>1. \A g \in ToSet(parsed) : g.of # next
      BY <1>1, <2>2
    <3> QED
      BY <1>2, <1>3, <1>4, <1>6, <1>9, <2>1, <3>1 DEF Unparsed
  <2>4. InputTypes'
    BY <1>1, <1>9, <2>1 DEF InputInvariant, InputTypes
  <2>5. \A g \in ToSet(parsed') \cup ToSet(items') : g.of < next'
    BY <1>1, <1>6, <1>9, <2>1, <2>2
  <2>6. SectionsParsed'
    BY <1>1, <1>3, <1>9, <2>5 DEF InputInvariant, SectionsParsed
  <2> QED
    BY <1>1, <2>3, <2>4, <2>6, StillParsing DEF InputInvariant
<1> QED
  BY <1>7, <1>8, <1>9

LEMMA ParsedStep == ASSUME InputInvariant, Parsed PROVE InputInvariant'
<1>1. /\ stage = "parse" /\ stage' = "filter" /\ next' = 1
      /\ UNCHANGED <<patch, config, parsed, included, items, statuses>>
  BY DEF Parsed
<1>2. IsSequence(parsed)
  BY DEF InputInvariant, InputTypes
<1>3. Judged = {} /\ Judged' = {}
  <2>1. DOMAIN parsed = 1..Len(parsed)
    BY <1>2 DEF IsSequence
  <2> QED
    BY <1>1, <2>1 DEF Judged
<1>4. Origins' /\ Verdicts' /\ Limits'
  BY <1>1, <1>3, SameVerdicts
<1>5. InputTypes'
  BY <1>1 DEF InputInvariant, InputTypes, IsSequence
<1>6. SectionsParsed'
  BY <1>1, SameInput DEF InputInvariant, SectionsParsed
<1>7. StatusesKept'
  <2>1. DOMAIN statuses = {}
    BY <1>1, WhileParsing
  <2> QED
    BY <1>1, <1>3, <2>1 DEF StatusesKept
<1> QED
  BY <1>4, <1>5, <1>6, <1>7 DEF InputInvariant

LEMMA FilteredStep == ASSUME InputInvariant, Filtered PROVE InputInvariant'
<1>1. /\ stage = "filter" /\ stage' = "redact" /\ next' = 1 /\ next > Len(parsed)
      /\ UNCHANGED <<patch, config, parsed, included, items>>
      /\ statuses' = DefaultStatuses
  BY DEF Filtered
<1>2. Judged = DOMAIN parsed /\ Judged' = DOMAIN parsed
  <2>1. IsSequence(parsed) /\ next \in Nat
    BY DEF InputInvariant, InputTypes
  <2>2. DOMAIN parsed = 1..Len(parsed) /\ Len(parsed) \in Nat
    BY <2>1 DEF IsSequence
  <2>3. \A k \in DOMAIN parsed : k < next
    BY <1>1, <2>1, <2>2
  <2> QED
    BY <1>1, <2>3 DEF Judged
<1>3. Origins' /\ Verdicts' /\ Limits' /\ UnparsedPaths' = UnparsedPaths
      /\ \A f : StatusOf(f)' = StatusOf(f)
  BY <1>1, <1>2, SameVerdicts
<1>4. InputTypes'
  BY <1>1 DEF InputInvariant, InputTypes, IsSequence
<1>5. SectionsParsed'
  BY <1>1, SameInput DEF InputInvariant, SectionsParsed
<1>6. /\ DOMAIN statuses' = DOMAIN statuses \cup UnparsedPaths
      /\ \A p \in DOMAIN statuses : statuses'[p] = statuses[p]
      /\ \A p \in UnparsedPaths : p \notin DOMAIN statuses => statuses'[p] = "skipped"
  BY <1>1 DEF DefaultStatuses
<1>7. \A k \in Judged : LastOfPath(k)' <=> LastOfPath(k)
  BY <1>1, <1>2 DEF LastOfPath
<1>8. StatusesKept'
  BY <1>1, <1>2, <1>3, <1>6, <1>7 DEF InputInvariant, StatusesKept
<1> QED
  BY <1>3, <1>4, <1>5, <1>8 DEF InputInvariant

\* After filtering nothing that the invariant speaks of is assigned.
LEMMA AfterFilteringStep ==
  ASSUME InputInvariant, stage \in {"redact", "done"}, stage' \in {"redact", "done"},
         next' \in Nat \ {0},
         UNCHANGED <<patch, config, parsed, included, items, statuses>>
  PROVE  InputInvariant'
<1>1. Judged' = Judged
  BY DEF Judged
<1>2. Origins' /\ Verdicts' /\ Limits' /\ UnparsedPaths' = UnparsedPaths
      /\ \A f : StatusOf(f)' = StatusOf(f)
  BY <1>1, SameVerdicts
<1>3. InputTypes'
  BY DEF InputInvariant, InputTypes, IsSequence
<1>4. SectionsParsed'
  BY SameInput DEF InputInvariant, SectionsParsed
<1>5. \A k \in Judged : LastOfPath(k)' <=> LastOfPath(k)
  BY <1>1 DEF LastOfPath
<1>6. StatusesKept'
  BY <1>1, <1>2, <1>5 DEF InputInvariant, StatusesKept
<1> QED
  BY <1>2, <1>3, <1>4, <1>6 DEF InputInvariant

\* The file that filtering takes next has no verdict yet.
LEMMA NextFile ==
  ASSUME InputInvariant, stage = "filter", next <= Len(parsed)
  PROVE  LET f == parsed[next]
         IN  /\ next \in DOMAIN parsed /\ next \notin Judged
             /\ f.of \in DOMAIN Sections /\ f = ParsedFile(Sections[f.of], f.of)
             /\ \A k \in Judged : k < next /\ parsed[k].of # f.of
             /\ FileOf(f.of) = {} /\ ItemsOf(f.of) = {}
<1> DEFINE f == parsed[next]
<1>1. next \in Nat \ {0} /\ IsSequence(parsed) /\ patch \in Patches
  BY DEF InputInvariant, InputTypes
<1>2. next \in DOMAIN parsed
  BY <1>1 DEF IsSequence
<1>3. next \notin Judged /\ \A k \in Judged : k \in DOMAIN parsed /\ k < next
  BY <1>1 DEF Judged
<1>4. f.of \in DOMAIN Sections /\ f = ParsedFile(Sections[f.of], f.of)
  BY <1>2 DEF InputInvariant, SectionsParsed
<1>5. DOMAIN Sections \subseteq Nat \ {0}
  BY <1>1, SectionNumbers
<1>6. \A k \in Judged : parsed[k].of < f.of /\ parsed[k].of \in Nat
  BY <1>2, <1>3, <1>5 DEF InputInvariant, SectionsParsed
<1>7. \A k \in Judged : parsed[k].of # f.of
  BY <1>4, <1>5, <1>6
<1>8. FileOf(f.of) = {}
  BY <1>7 DEF FileOf, InputInvariant, Origins
<1>9. f \in ToSet(parsed)
  BY <1>2 DEF ToSet
<1>10. \A i \in ToSet(items) : Unparsed(i) => i.of # f.of
  BY <1>4, <1>5, <1>9 DEF Unparsed
<1>11. ItemsOf(f.of) = {}
  BY <1>7, <1>10 DEF ItemsOf, InputInvariant, Origins
<1> QED
  BY <1>2, <1>3, <1>4, <1>7, <1>8, <1>11

\* A verdict on a file is an item and a status, the file itself and a status, or the file
\* cut, an item and a status; Added and Items are what is new.
Verdict(f, Added, Items, status) ==
  \/ /\ Added = {} /\ status = "skipped"
     /\ \E reason : Items = {Item(f.path, reason, f.of)} /\ LeftOut(f, reason)
  \/ /\ Added = {f} /\ Items = {} /\ status = "fully_reviewed"
     /\ FilterReason(f) = "" /\ Fits(f)
  \/ /\ Added = {Cut(f)} /\ Items = {Item(f.path, "file_partially_included", f.of)}
     /\ status = "partially_included"
     /\ FilterReason(f) = "" /\ ~Fits(f) /\ config.truncate /\ Kept(f) # <<>>

GetsVerdict(f) ==
  \E Added, Items, status :
    /\ Verdict(f, Added, Items, status)
    /\ ToSet(included') = ToSet(included) \cup Added
    /\ ToSet(items') = ToSet(items) \cup Items
    /\ statuses' = WithStatus(f.path, status)
    /\ IsSequence(included') /\ IsSequence(items')
    /\ Len(included') <= config.maxFiles
    /\ \A i \in ToSet(items') :
         i.reason = "maximum_file_count" => Len(included') = config.maxFiles

LEMMA FilterFileGives == ASSUME InputInvariant, FilterFile PROVE GetsVerdict(parsed[next])
<1> DEFINE f == parsed[next]
           reason == FilterReason(f)
<1> SUFFICES GetsVerdict(f)
  OBVIOUS
<1>1. /\ IsSequence(included) /\ IsSequence(items) /\ Len(included) \in Nat
      /\ config.maxFiles \in Nat /\ Len(included) <= config.maxFiles
      /\ \A i \in ToSet(items) :
           i.reason = "maximum_file_count" => Len(included) = config.maxFiles
  BY ConfigsAssumption
     DEF InputInvariant, InputTypes, Limits, IsSequence, ValidConfig
<1>2. reason # "maximum_file_count"
  BY FilterReasons
<1>3. \/ reason # "" /\ Skip(f, reason)
      \/ reason = "" /\ TooMany /\ Skip(f, "maximum_file_count")
      \/ /\ reason = "" /\ ~Fits(f) /\ (config.truncate => Kept(f) = <<>>)
         /\ Skip(f, "file_size_limit")
      \/ reason = "" /\ ~TooMany /\ Fits(f) /\ Whole(f)
      \/ reason = "" /\ ~TooMany /\ ~Fits(f) /\ config.truncate /\ Kept(f) # <<>> /\ Partly(f)
  BY DEF FilterFile
<1> HIDE DEF f
<1>4. ASSUME NEW why, Skip(f, why), LeftOut(f, why),
             why = "maximum_file_count" => TooMany
      PROVE  GetsVerdict(f)
  <2> DEFINE item == Item(f.path, why, f.of)
  <2>1. included' = included /\ items' = Append(items, item)
        /\ statuses' = WithStatus(f.path, "skipped")
    BY <1>4 DEF Skip
  <2>2. item.reason = why
    BY DEF Item
  <2>3. Verdict(f, {}, {item}, "skipped")
    BY <1>4 DEF Verdict
  <2> HIDE DEF item
  <2>4. IsSequence(items') /\ ToSet(items') = ToSet(items) \cup {item}
    BY <1>1, <2>1, AppendFacts
  <2>5. \A i \in ToSet(items') :
          i.reason = "maximum_file_count" => Len(included') = config.maxFiles
    BY <1>1, <1>4, <2>1, <2>2, <2>4 DEF TooMany
  <2>6. ToSet(included') = ToSet(included) \cup {} /\ IsSequence(included')
        /\ Len(included') <= config.maxFiles
    BY <1>1, <2>1
  <2> QED
    BY <2>1, <2>3, <2>4, <2>5, <2>6 DEF GetsVerdict
<1>5. ASSUME ~TooMany, NEW g, included' = Append(included, g)
      PROVE  /\ IsSequence(included') /\ ToSet(included') = ToSet(included) \cup {g}
             /\ Len(included') <= config.maxFiles
             /\ \A i \in ToSet(items) :
                  i.reason = "maximum_file_count" => Len(included') = config.maxFiles
  <2>1. /\ IsSequence(included') /\ ToSet(included') = ToSet(included) \cup {g}
        /\ Len(included') = Len(included) + 1
    BY <1>1, <1>5, AppendFacts
  <2> QED
    BY <1>1, <1>5, <2>1 DEF TooMany
<1>6. CASE reason # "" /\ Skip(f, reason)
  <2>1. LeftOut(f, reason)
    BY <1>6 DEF LeftOut
  <2> QED
    BY <1>2, <1>4, <1>6, <2>1
<1>7. CASE reason = "" /\ TooMany /\ Skip(f, "maximum_file_count")
  <2>1. LeftOut(f, "maximum_file_count")
    BY <1>7 DEF LeftOut
  <2> QED
    BY <1>4, <1>7, <2>1
<1>8. CASE /\ reason = "" /\ ~Fits(f) /\ (config.truncate => Kept(f) = <<>>)
           /\ Skip(f, "file_size_limit")
  <2>1. LeftOut(f, "file_size_limit")
    BY <1>8 DEF LeftOut
  <2> QED
    BY <1>4, <1>8, <2>1
<1>9. CASE reason = "" /\ ~TooMany /\ Fits(f) /\ Whole(f)
  <2>1. /\ included' = Append(included, f) /\ items' = items
        /\ statuses' = WithStatus(f.path, "fully_reviewed")
    BY <1>9 DEF Whole
  <2>2. Verdict(f, {f}, {}, "fully_reviewed")
    BY <1>9 DEF Verdict
  <2>3. ToSet(items') = ToSet(items) \cup {}
    BY <2>1
  <2> QED
    BY <1>1, <1>5, <1>9, <2>1, <2>2, <2>3 DEF GetsVerdict
<1>10. CASE reason = "" /\ ~TooMany /\ ~Fits(f) /\ config.truncate /\ Kept(f) # <<>> /\ Partly(f)
  <2> DEFINE item == Item(f.path, "file_partially_included", f.of)
             g == Cut(f)
  <2>1. /\ included' = Append(included, g) /\ items' = Append(items, item)
        /\ statuses' = WithStatus(f.path, "partially_included")
    BY <1>10 DEF Partly, Cut
  <2>2. Verdict(f, {g}, {item}, "partially_included")
    BY <1>10 DEF Verdict
  <2>3. item.reason = "file_partially_included"
    BY DEF Item
  <2>7. ASSUME /\ ToSet(included') = ToSet(included) \cup {g}
               /\ ToSet(items') = ToSet(items) \cup {item}
               /\ IsSequence(included') /\ IsSequence(items')
               /\ Len(included') <= config.maxFiles
               /\ \A i \in ToSet(items') :
                    i.reason = "maximum_file_count" => Len(included') = config.maxFiles
        PROVE  GetsVerdict(f)
    BY <2>1, <2>2, <2>7, Zenon DEF GetsVerdict
  <2> HIDE DEF item, g
  <2>4. IsSequence(items') /\ ToSet(items') = ToSet(items) \cup {item}
    BY <1>1, <2>1, AppendFacts
  <2>5. /\ IsSequence(included') /\ ToSet(included') = ToSet(included) \cup {g}
        /\ Len(included') <= config.maxFiles
        /\ \A i \in ToSet(items) :
             i.reason = "maximum_file_count" => Len(included') = config.maxFiles
    BY <1>5, <1>10, <2>1
  <2>6. \A i \in ToSet(items') :
          i.reason = "maximum_file_count" => Len(included') = config.maxFiles
    BY <2>3, <2>4, <2>5
  <2> QED
    BY <2>4, <2>5, <2>6, <2>7
<1> QED
  BY <1>3, <1>6, <1>7, <1>8, <1>9, <1>10

LEMMA FilterFileStep == ASSUME InputInvariant, FilterFile PROVE InputInvariant'
<1>0. PICK f : f = parsed[next]
  OBVIOUS
<1>1. /\ stage = "filter" /\ stage' = "filter" /\ next <= Len(parsed) /\ next' = next + 1
      /\ UNCHANGED <<patch, config, parsed>>
  BY DEF FilterFile
<1>2. /\ next \in DOMAIN parsed /\ next \notin Judged
      /\ f.of \in DOMAIN Sections /\ f = ParsedFile(Sections[f.of], f.of)
      /\ \A k \in Judged : k < next /\ parsed[k].of # f.of
      /\ FileOf(f.of) = {} /\ ItemsOf(f.of) = {}
  BY <1>0, <1>1, NextFile
<1>3. GetsVerdict(f)
  BY <1>0, FilterFileGives
<1>4. PICK Added, Items, status :
        /\ Verdict(f, Added, Items, status)
        /\ ToSet(included') = ToSet(included) \cup Added
        /\ ToSet(items') = ToSet(items) \cup Items
        /\ statuses' = WithStatus(f.path, status)
        /\ IsSequence(included') /\ IsSequence(items')
        /\ Len(included') <= config.maxFiles
        /\ \A i \in ToSet(items') :
             i.reason = "maximum_file_count" => Len(included') = config.maxFiles
  BY <1>3 DEF GetsVerdict
<1>5. f.of \in Nat \ {0} /\ Cut(f).of = f.of
  BY <1>2, SectionNumbers, ParsedFileFacts DEF Cut, InputInvariant, InputTypes
<1>6. f \in ToSet(parsed)
  BY <1>0, <1>2 DEF ToSet
<1>7. \A why : Item(f.path, why, f.of).of = f.of /\ Item(f.path, why, f.of).path = f.path
               /\ Item(f.path, why, f.of).reason = why
  BY DEF Item
<1>8. \A g \in Added \cup Items : g.of = f.of
  BY <1>4, <1>5, <1>7 DEF Verdict
<1>9. /\ FileOf(f.of)' = Added /\ ItemsOf(f.of)' = Items
      /\ \A n : n # f.of => FileOf(n)' = FileOf(n) /\ ItemsOf(n)' = ItemsOf(n)
  BY <1>2, <1>4, <1>8 DEF FileOf, ItemsOf
<1>10. Judged' = Judged \cup {next}
  <2>1. next \in Nat /\ \A k \in DOMAIN parsed : k \in Nat
    BY DEF InputInvariant, InputTypes, IsSequence
  <2>2. \A k \in DOMAIN parsed : k < next + 1 <=> k < next \/ k = next
    BY <2>1
  <2> QED
    BY <1>1, <1>2, <2>2 DEF Judged
<1>11. /\ Sections' = Sections
       /\ \A g : /\ Fits(g)' = Fits(g) /\ Kept(g)' = Kept(g) /\ Cut(g)' = Cut(g)
                 /\ \A reason : LeftOut(g, reason)' = LeftOut(g, reason)
  BY <1>1, SameInput
<1>12. Left(f)' \/ Taken(f)'
  <2>1. CASE /\ Added = {} /\ status = "skipped"
             /\ \E reason : Items = {Item(f.path, reason, f.of)} /\ LeftOut(f, reason)
    BY <1>4, <1>7, <1>9, <1>11, <2>1 DEF Left
  <2>2. CASE Added = {f} /\ Items = {} /\ FilterReason(f) = "" /\ Fits(f)
    BY <1>9, <1>11, <2>2 DEF Taken
  <2>3. CASE /\ Added = {Cut(f)} /\ Items = {Item(f.path, "file_partially_included", f.of)}
             /\ FilterReason(f) = "" /\ ~Fits(f) /\ config.truncate /\ Kept(f) # <<>>
    BY <1>1, <1>9, <1>11, <2>3 DEF Taken
  <2> QED
    BY <1>4, <2>1, <2>2, <2>3 DEF Verdict
<1>13. \A k \in Judged : /\ Left(parsed[k]) => Left(parsed[k])'
                         /\ Taken(parsed[k]) => Taken(parsed[k])'
  <2> SUFFICES ASSUME NEW k \in Judged
               PROVE  /\ Left(parsed[k]) => Left(parsed[k])'
                      /\ Taken(parsed[k]) => Taken(parsed[k])'
    OBVIOUS
  <2> DEFINE g == parsed[k]
  <2>1. g.of # f.of /\ g' = g
    BY <1>1, <1>2
  <2>2. FileOf(g.of)' = FileOf(g.of) /\ ItemsOf(g.of)' = ItemsOf(g.of)
    BY <1>1, <1>9, <2>1
  <2> HIDE DEF g
  <2>3. Left(g) => Left(g)'
    <3>1. ASSUME Left(g) PROVE \E i \in ToSet(items') :
             ItemsOf(g.of) = {i} /\ i.path = g.path /\ LeftOut(g, i.reason)'
      BY <1>4, <1>11, <2>1, <3>1 DEF Left
    <3> QED
      BY <2>1, <2>2, <3>1 DEF Left
  <2>4. Taken(g) => Taken(g)'
    BY <1>1, <1>11, <2>1, <2>2 DEF Taken
  <2> QED
    BY <2>3, <2>4 DEF g
<1>14. Verdicts'
  BY <1>0, <1>1, <1>10, <1>12, <1>13 DEF InputInvariant, Verdicts
<1>15. Origins'
  <2>1. \A i : Unparsed(i)' = Unparsed(i)
    BY <1>1, <1>11 DEF Unparsed
  <2>2. \A g \in Added \cup Items : \E k \in Judged' : g.of = parsed'[k].of
    BY <1>0, <1>1, <1>8, <1>10
  <2> QED
    BY <1>1, <1>4, <1>10, <2>1, <2>2 DEF InputInvariant, Origins
<1>16. Limits'
  BY <1>1, <1>4 DEF Limits
<1>17. InputTypes'
  BY <1>1, <1>4 DEF InputInvariant, InputTypes
<1>18. SectionsParsed'
  BY <1>1, <1>11 DEF InputInvariant, SectionsParsed
<1>19. status = StatusOf(f)'
  BY <1>4, <1>9 DEF Verdict, StatusOf
<1>20. /\ DOMAIN statuses' = DOMAIN statuses \cup {f.path}
       /\ statuses'[f.path] = status
       /\ \A p \in DOMAIN statuses : p # f.path => statuses'[p] = statuses[p]
  BY <1>4 DEF WithStatus
<1>21. StatusesKept'
  <2>1. ASSUME NEW k \in Judged'
        PROVE  /\ parsed'[k].path \in DOMAIN statuses'
               /\ LastOfPath(k)' => statuses'[parsed'[k].path] = StatusOf(parsed[k])'
    <3>1. CASE k = next
      BY <1>0, <1>1, <1>19, <1>20, <3>1
    <3>2. CASE k \in Judged
      <4>1. parsed[k].path \in DOMAIN statuses
            /\ (LastOfPath(k) => statuses[parsed[k].path] = StatusOf(parsed[k]))
        BY <3>2 DEF InputInvariant, StatusesKept
      <4>2. ASSUME LastOfPath(k)' PROVE LastOfPath(k) /\ f.path # parsed[k].path
        BY <1>0, <1>1, <1>2, <1>10, <3>2, <4>2 DEF LastOfPath
      <4>3. StatusOf(parsed[k])' = StatusOf(parsed[k])
        <5> DEFINE g == parsed[k]
        <5>1. g' = g /\ g.of # f.of
          BY <1>1, <1>2, <3>2
        <5> HIDE DEF g
        <5>2. StatusOf(g)' = StatusOf(g)
          BY <1>9, <5>1 DEF StatusOf
        <5> QED
          BY <5>2 DEF g
      <4> QED
        BY <1>1, <1>20, <4>1, <4>2, <4>3
    <3> QED
      BY <1>10, <2>1, <3>1, <3>2
  <2>2. \A p \in DOMAIN statuses' : \E k \in Judged' : p = parsed'[k].path
    BY <1>0, <1>1, <1>10, <1>20 DEF InputInvariant, StatusesKept
  <2> QED
    BY <1>1, <2>1, <2>2 DEF StatusesKept
<1> QED
  BY <1>14, <1>15, <1>16, <1>17, <1>18, <1>21 DEF InputInvariant

LEMMA InputInvariantHolds == Spec => []InputInvariant
<1>1. Init => InputInvariant
  BY InputInit
<1>2. ASSUME InputInvariant, [Next]_vars PROVE InputInvariant'
  <2>1. CASE Split
    BY <1>2, <2>1, SplitStep
  <2>2. CASE ParseSection
    BY <1>2, <2>2, ParseSectionStep
  <2>3. CASE Parsed
    BY <1>2, <2>3, ParsedStep
  <2>4. CASE FilterFile
    BY <1>2, <2>4, FilterFileStep
  <2>5. CASE Filtered
    BY <1>2, <2>5, FilteredStep
  <2>6. CASE RedactFile
    <3>1. next' \in Nat \ {0} /\ stage = "redact" /\ stage' = "redact"
          /\ UNCHANGED <<patch, config, parsed, included, items, statuses>>
      BY <1>2, <2>6 DEF RedactFile, InputInvariant, InputTypes
    <3> QED
      BY <1>2, <3>1, AfterFilteringStep
  <2>7. CASE Redacted
    <3>1. next' \in Nat \ {0} /\ stage = "redact" /\ stage' = "done"
          /\ UNCHANGED <<patch, config, parsed, included, items, statuses>>
      BY <1>2, <2>7 DEF Redacted, InputInvariant, InputTypes
    <3> QED
      BY <1>2, <3>1, AfterFilteringStep
  <2>8. CASE UNCHANGED vars
    <3>1. UNCHANGED <<patch, config, stage, next, parsed, included, items, statuses>>
      BY <2>8 DEF vars
    <3>2. Judged' = Judged
      BY <3>1 DEF Judged
    <3>3. Origins' /\ Verdicts' /\ Limits' /\ UnparsedPaths' = UnparsedPaths
          /\ \A f : StatusOf(f)' = StatusOf(f)
      BY <1>2, <3>1, <3>2, SameVerdicts
    <3>4. InputTypes'
      BY <1>2, <3>1 DEF InputInvariant, InputTypes, IsSequence
    <3>5. SectionsParsed'
      BY <1>2, <3>1, SameInput DEF InputInvariant, SectionsParsed
    <3>6. \A k \in Judged : LastOfPath(k)' <=> LastOfPath(k)
      BY <3>1, <3>2 DEF LastOfPath
    <3>7. StatusesKept'
      BY <1>2, <3>1, <3>2, <3>3, <3>6 DEF InputInvariant, StatusesKept
    <3> QED
      BY <3>3, <3>4, <3>5, <3>7 DEF InputInvariant
  <2> QED
    BY <1>2, <2>1, <2>2, <2>3, <2>4, <2>5, <2>6, <2>7, <2>8 DEF Next
<1> QED
  BY <1>1, <1>2, PTL DEF Spec

-----------------------------------------------------------------------------
\* The theorems.

\* A file is judged as the invariant says; its files and items are those of its section.
LEMMA JudgedFile ==
  ASSUME InputInvariant, NEW k \in Judged
  PROVE  LET f == parsed[k]
         IN  /\ f \in ToSet(parsed)
             /\ f.of \in DOMAIN Sections /\ f.of \in Nat /\ WellFormed(Sections[f.of])
             /\ f = ParsedFile(Sections[f.of], f.of) /\ IsSequence(f.hunks)
             /\ Left(f) \/ Taken(f)
<1> PICK f : f = parsed[k]
  OBVIOUS
<1>1. k \in DOMAIN parsed
  BY DEF Judged
<1>2. f.of \in DOMAIN Sections /\ WellFormed(Sections[f.of])
      /\ f = ParsedFile(Sections[f.of], f.of)
  BY <1>1 DEF InputInvariant, SectionsParsed
<1>3. patch \in Patches
  BY DEF InputInvariant, InputTypes
<1>4. IsSequence(f.hunks)
  BY <1>2, <1>3, ParsedFileFacts
<1>5. f.of \in Nat
  BY <1>2, <1>3, SectionNumbers
<1>6. f \in ToSet(parsed)
  BY <1>1 DEF ToSet
<1> QED
  BY <1>2, <1>4, <1>5, <1>6 DEF InputInvariant, Verdicts

LEMMA InvariantGivesLimits == ASSUME InputInvariant PROVE LimitsBind
<1>1. /\ Len(included) <= config.maxFiles
      /\ \A i \in ToSet(items) : i.reason = "maximum_file_count" => Len(included) = config.maxFiles
  BY DEF InputInvariant, Limits
<1>2. ASSUME NEW f, IsSequence(f.hunks), Kept(f) # <<>>
      PROVE  Fits(Cut(f))
  BY <1>2, KeptFacts
<1>3. ASSUME NEW f \in ToSet(included)
      PROVE  Fits(f)
  <2>1. PICK k \in Judged : f.of = parsed[k].of
    BY <1>3 DEF InputInvariant, Origins
  <2>2. PICK g : g = parsed[k]
    OBVIOUS
  <2>3. IsSequence(g.hunks) /\ (Left(g) \/ Taken(g))
    BY <2>2, JudgedFile
  <2>4. f \in FileOf(g.of)
    BY <1>3, <2>1, <2>2 DEF FileOf
  <2>5. \/ f = g /\ Fits(g)
        \/ f = Cut(g) /\ Kept(g) # <<>>
    BY <2>3, <2>4 DEF Left, Taken
  <2> QED
    BY <1>2, <2>3, <2>5
<1>4. ASSUME NEW i \in ToSet(items), i.reason \in {"file_size_limit", "file_partially_included"}
      PROVE  \E f \in ToSet(parsed) :
               /\ f.of = i.of /\ ~Fits(f)
               /\ LET kept == IF FileOf(i.of) = {} THEN 0
                              ELSE Len((CHOOSE g \in FileOf(i.of) : TRUE).hunks)
                  IN  config.truncate /\ kept < Len(f.hunks) => ~Fits(FirstHunks(f, kept + 1))
  <2>1. ~Unparsed(i)
    BY <1>4 DEF Unparsed
  <2>2. PICK k \in Judged : i.of = parsed[k].of
    BY <2>1 DEF InputInvariant, Origins
  <2>3. PICK f : f = parsed[k]
    OBVIOUS
  <2>4. f \in ToSet(parsed) /\ i.of = f.of /\ IsSequence(f.hunks) /\ (Left(f) \/ Taken(f))
    BY <2>2, <2>3, JudgedFile
  <2>5. i \in ItemsOf(f.of)
    BY <1>4, <2>4 DEF ItemsOf
  <2>6. PICK m \in 0..Len(f.hunks) :
           /\ Len(Kept(f)) = m /\ Cut(f) = FirstHunks(f, m)
           /\ m < Len(f.hunks) => ~Fits(FirstHunks(f, m + 1))
    BY <2>4, KeptFacts
  <2>7. CASE Left(f)
    <3>1. FileOf(i.of) = {} /\ LeftOut(f, i.reason)
      BY <2>4, <2>5, <2>7 DEF Left
    <3>2. ~Fits(f) /\ (config.truncate => Kept(f) = <<>>)
      BY <1>4, <3>1, FilterReasons DEF LeftOut
    <3>3. config.truncate => m = 0
      BY <2>6, <3>2
    <3> QED
      BY <2>4, <2>6, <3>1, <3>2, <3>3
  <2>8. CASE Taken(f)
    <3>1. FileOf(i.of) = {Cut(f)} /\ ~Fits(f)
      BY <2>4, <2>5, <2>8 DEF Taken
    <3>2. (CHOOSE g \in FileOf(i.of) : TRUE) = Cut(f)
      BY <3>1
    <3>3. Cut(f).hunks = Kept(f)
      <4>1. patch \in Patches /\ f.of \in DOMAIN Sections /\ f = ParsedFile(Sections[f.of], f.of)
        BY <2>3, JudgedFile DEF InputInvariant, InputTypes
      <4>2. [f EXCEPT !.hunks = Kept(f)].hunks = Kept(f)
        BY <4>1, ParsedFileFacts
      <4> QED
        BY <4>2 DEF Cut
    <3> QED
      BY <2>4, <2>6, <3>1, <3>2, <3>3
  <2> QED
    BY <2>4, <2>7, <2>8
<1> QED
  BY <1>1, <1>3, <1>4 DEF LimitsBind

\* The limits on files, for every patch and configuration: they are kept, and whatever was
\* left out or cut for one of them had to be.
THEOREM FileLimitsHold == Spec => []LimitsBind
<1>1. InputInvariant => LimitsBind
  BY InvariantGivesLimits
<1> QED
  BY <1>1, InputInvariantHolds, PTL

\* Once all is judged, every item and every included file has the status of the last file
\* of its path, or was not parsed and no file has its path.
LEMMA InvariantGivesStatuses == ASSUME InputInvariant PROVE StatusesTell
<1> SUFFICES ASSUME stage = "done", NEW i \in ToSet(items) \cup ToSet(included)
             PROVE  LET last == {f.of : f \in {g \in ToSet(parsed) : g.path = i.path}}
                        file == IF last = {} THEN {} ELSE FileOf(Max(last))
                    IN  /\ i.path \in DOMAIN statuses
                        /\ statuses[i.path] = IF file = {} THEN "skipped"
                                              ELSE IF ItemsOf(Max(last)) = {} THEN "fully_reviewed"
                                              ELSE "partially_included"
  BY DEF StatusesTell
<1> DEFINE last == {f.of : f \in {g \in ToSet(parsed) : g.path = i.path}}
           file == IF last = {} THEN {} ELSE FileOf(Max(last))
<1> SUFFICES /\ i.path \in DOMAIN statuses
             /\ statuses[i.path] = IF file = {} THEN "skipped"
                                   ELSE IF ItemsOf(Max(last)) = {} THEN "fully_reviewed"
                                   ELSE "partially_included"
  OBVIOUS
<1>1. Judged = DOMAIN parsed
  BY DEF Judged
<1>2. /\ \A k \in Judged : /\ parsed[k].path \in DOMAIN statuses
                           /\ LastOfPath(k) => statuses[parsed[k].path] = StatusOf(parsed[k])
      /\ \A p \in UnparsedPaths :
           /\ p \in DOMAIN statuses
           /\ statuses[p] = "skipped" \/ \E k \in Judged : p = parsed[k].path
  BY DEF InputInvariant, StatusesKept
<1>3. i.path \in UnparsedPaths \/ \E k \in Judged : i.path = parsed[k].path
  <2>1. ASSUME i \in ToSet(items), Unparsed(i) PROVE i.path \in UnparsedPaths
    BY <2>1 DEF Unparsed, UnparsedPaths, NotParsed, ToSet
  <2>2. ASSUME NEW k \in Judged, i.of = parsed[k].of PROVE i.path = parsed[k].path
    <3>1. PICK f : f = parsed[k]
      OBVIOUS
    <3>2. (Left(f) \/ Taken(f)) /\ f.of \in DOMAIN Sections /\ f = ParsedFile(Sections[f.of], f.of)
      BY <3>1, JudgedFile
    <3>3. Cut(f).path = f.path
      BY <3>2, ParsedFileFacts DEF Cut, InputInvariant, InputTypes
    <3>4. Item(f.path, "file_partially_included", f.of).path = f.path
      BY DEF Item
    <3>5. i \in ItemsOf(f.of) \/ i \in FileOf(f.of)
      BY <2>2, <3>1 DEF ItemsOf, FileOf
    <3> QED
      BY <3>1, <3>2, <3>3, <3>4, <3>5 DEF Left, Taken
  <2> QED
    BY <2>1, <2>2 DEF InputInvariant, Origins
<1>4. i.path \in DOMAIN statuses
  BY <1>2, <1>3
<1>5. CASE last = {}
  <2>1. \A k \in Judged : parsed[k].path # i.path
    BY <1>1, <1>5 DEF ToSet
  <2> QED
    BY <1>2, <1>3, <1>4, <1>5, <2>1
<1>6. CASE last # {}
  <2>1. PICK c \in Nat : DOMAIN Sections = 1..c
    BY SectionNumbers DEF InputInvariant, InputTypes
  <2>2. \A k \in DOMAIN parsed : parsed[k].of \in Nat /\ parsed[k].of <= c
    BY <2>1 DEF InputInvariant, SectionsParsed
  <2>3. last \in SUBSET Nat /\ \A n \in last : n <= c
    BY <2>2 DEF ToSet
  <2>4. Max(last) \in last /\ \A n \in last : n <= Max(last)
    <3> HIDE DEF last
    <3> QED
      BY <1>6, <2>1, <2>3, MaxOfNaturals
  <2>5. PICK k \in DOMAIN parsed : parsed[k].of = Max(last) /\ parsed[k].path = i.path
    BY <2>4 DEF ToSet
  <2>6. ASSUME NEW j \in DOMAIN parsed, k < j, parsed[j].path = i.path PROVE FALSE
    <3>1. parsed[j] \in ToSet(parsed)
      BY DEF ToSet
    <3>2. parsed[j].of \in last
      BY <2>6, <3>1
    <3>3. parsed[k].of < parsed[j].of
      BY <2>6 DEF InputInvariant, SectionsParsed
    <3> HIDE DEF last
    <3> QED
      BY <2>2, <2>4, <2>5, <3>2, <3>3
  <2>7. LastOfPath(k)
    BY <1>1, <2>5, <2>6 DEF LastOfPath
  <2>8. statuses[i.path] = StatusOf(parsed[k])
    BY <1>1, <1>2, <2>5, <2>7
  <2> HIDE DEF last
  <2> QED
    BY <1>4, <1>6, <2>5, <2>8 DEF StatusOf
<1> QED
  BY <1>5, <1>6

\* For every patch, the status of a path is what happened to the last file of that path, and
\* what was not parsed is skipped.
THEOREM StatusesHold == Spec => []StatusesTell
<1>1. InputInvariant => StatusesTell
  BY InvariantGivesStatuses
<1> QED
  BY <1>1, InputInvariantHolds, PTL

\* A line of the headers of a well-formed section.
LEMMA HeaderLine ==
  ASSUME patch \in Patches, NEW n \in DOMAIN Sections, WellFormed(Sections[n]),
         NEW i \in DOMAIN Sections[n],
         Sections[n][i].kind \in {"rename_from", "rename_to"}
  PROVE  LET section == Sections[n]
             headers == HeadersOf(section)
         IN  /\ At(headers, section[i].kind) = {i} /\ headers[i] = section[i]
             /\ section[i].path # ""
<1> DEFINE section == Sections[n]
           S == At(section, "hunk")
           first == IF S = {} THEN Len(section) + 1 ELSE Min(S)
           headers == HeadersOf(section)
<1>1. IsSequence(section)
  BY SectionFacts
<1>2. PICK a \in 1..Len(patch), b \in 1..Len(patch) :
        /\ a <= b /\ Len(section) = b - a + 1
        /\ \A j \in 1..Len(section) : section[j] = patch[a + j - 1]
        /\ \A k \in a + 1 .. b : patch[k].kind # "git"
  BY SectionFacts
<1>3. \A j \in S : \A k \in j .. Len(section) : section[k].kind \in {"hunk", "body"}
  BY DEF WellFormed
<1> HIDE DEF section
<1>4. /\ DOMAIN section = 1..Len(section) /\ Len(section) \in Nat
      /\ S \in SUBSET Nat /\ \A j \in S : j \in 1..Len(section)
  BY <1>1, AtFacts
<1>5. headers = SubSeq(section, 1, first - 1)
  BY DEF HeadersOf
<1>6. i \in 1..Len(section) /\ section[i].kind \in {"rename_from", "rename_to"}
  BY <1>4 DEF section
<1> HIDE DEF S
<1>7. first \in Nat /\ i < first /\ first <= Len(section) + 1
  <2>1. CASE S = {}
    BY <1>4, <1>6, <2>1
  <2>2. CASE S # {}
    <3>1. first = Min(S) /\ Min(S) \in S
      BY <1>4, <2>2, MinOfNaturals
    <3> HIDE DEF first
    <3>2. first \in Nat /\ first \in 1..Len(section) /\ i \in Nat
      <4>1. first \in S
        BY <3>1
      <4>2. first \in 1..Len(section)
        BY <1>4, <4>1
      <4> QED
        BY <1>4, <1>6, <4>2
    <3>3. ASSUME first <= i PROVE FALSE
      <4>1. i \in first .. Len(section)
        BY <1>4, <1>6, <3>2, <3>3
      <4>2. section[i].kind \in {"hunk", "body"}
        BY <1>3, <3>1, <4>1
      <4> QED
        BY <1>6, <4>2
    <3> QED
      BY <1>4, <3>2, <3>3
  <2> QED
    BY <2>1, <2>2
<1> HIDE DEF first, headers
<1>8. /\ IsSequence(headers) /\ Len(headers) = first - 1
      /\ \A j \in 1..Len(headers) : headers[j] = section[j]
  <2>1. first - 1 \in Int /\ first - 1 <= Len(section)
    BY <1>4, <1>7
  <2>2. /\ IsSequence(headers)
        /\ Len(headers) = IF 1 <= first - 1 THEN first - 1 - 1 + 1 ELSE 0
        /\ \A j \in 1..Len(headers) : headers[j] = section[1 + j - 1]
    BY <1>1, <1>5, <2>1, SubSeqFacts
  <2>3. Len(headers) = first - 1
    BY <1>6, <1>7, <2>2
  <2> QED
    BY <1>7, <2>2, <2>3
<1>9. i \in 1..Len(headers) /\ headers[i] = section[i] /\ DOMAIN headers = 1..Len(headers)
  BY <1>6, <1>7, <1>8, AtFacts
<1>10. Len(patch) \in Nat /\ DOMAIN patch = 1..Len(patch)
  BY PatchesAssumption, AtFacts DEF IsSequence
<1>11. ASSUME NEW j \in 1..Len(section), NEW k \in 1..Len(section), j < k,
              section[j].kind \in {"rename_from", "rename_to"},
              section[k].kind = section[j].kind
       PROVE  FALSE
  <2> DEFINE jj == a + j - 1
             kk == a + k - 1
  <2>1. jj \in 1..Len(patch) /\ kk \in jj + 1 .. Len(patch) /\ kk <= b /\ a <= jj
    BY <1>2, <1>4, <1>10, <1>11
  <2>2. patch[jj] = section[j] /\ patch[kk] = section[k]
    BY <1>2
  <2> HIDE DEF jj, kk
  <2>3. PICK g \in jj + 1 .. kk : patch[g].kind = "git"
    BY <1>10, <1>11, <2>1, <2>2, PatchesAssumption
  <2>4. g \in a + 1 .. b
    BY <1>2, <1>10, <2>1, <2>3
  <2> QED
    BY <1>2, <2>3, <2>4
<1>12. ASSUME NEW j \in DOMAIN headers, headers[j].kind = section[i].kind PROVE j = i
  <2>1. j \in 1..Len(section) /\ i \in 1..Len(section) /\ section[j].kind = section[i].kind
    BY <1>4, <1>6, <1>7, <1>8, <1>9, <1>12
  <2>2. j < i \/ i < j \/ i = j
    BY <1>4, <2>1
  <2> QED
    BY <1>6, <1>11, <2>1, <2>2
<1>13. At(headers, section[i].kind) = {i}
  BY <1>9, <1>12 DEF At
<1>14. section[i].path # ""
  <2>1. a + i - 1 \in DOMAIN patch /\ section[i] = patch[a + i - 1]
    BY <1>2, <1>4, <1>6, <1>10
  <2> QED
    BY <1>6, <2>1, PatchesAssumption
<1> QED
  BY <1>9, <1>13, <1>14 DEF headers, section

LEMMA InvariantGivesRenames == ASSUME InputInvariant PROVE RenamesJudgedByBothPaths
<1> SUFFICES ASSUME NEW f \in ToSet(included), NEW i \in DOMAIN Sections[f.of],
                    Sections[f.of][i].kind \in {"rename_from", "rename_to"}
             PROVE  Sections[f.of][i].path \notin Sensitive \cup Excluded
  BY DEF RenamesJudgedByBothPaths
<1>1. PICK k \in Judged : f.of = parsed[k].of
  BY DEF InputInvariant, Origins
<1>2. PICK g : g = parsed[k]
  OBVIOUS
<1>3. /\ g.of \in DOMAIN Sections /\ WellFormed(Sections[g.of])
      /\ g = ParsedFile(Sections[g.of], g.of)
      /\ Left(g) \/ Taken(g)
  BY <1>2, JudgedFile
<1>4. f \in FileOf(g.of)
  BY <1>1, <1>2 DEF FileOf
<1>5. FilterReason(g) = ""
  BY <1>3, <1>4 DEF Left, Taken
<1>6. Paths(g) \cap (Sensitive \cup Excluded) = {}
  BY <1>5, FilterReasons
<1>7. patch \in Patches
  BY DEF InputInvariant, InputTypes
<1> DEFINE section == Sections[g.of]
           headers == HeadersOf(section)
           line == section[i]
<1>8. /\ At(headers, line.kind) = {i} /\ headers[i] = line /\ line.path # ""
  BY <1>1, <1>2, <1>3, <1>7, HeaderLine
<1>9. /\ g.path = PathOf(headers, "rename_to", section[1].path)
      /\ g.previous = Previous(headers)
  BY <1>3, <1>7, ParsedFileFacts
<1>10. line.kind \in {"rename_from", "rename_to"}
  BY <1>1, <1>2
<1> HIDE DEF section, headers, line
<1>11. i \in Nat
  BY <1>1, <1>2, <1>3, <1>7, SectionFacts DEF IsSequence
<1>12. Max({i}) = i
  BY <1>11, MaxOfNaturals
<1>13. \A default : PathOf(headers, line.kind, default) = line.path
  BY <1>8, <1>12 DEF PathOf
<1>14. line.path \in {g.path, g.previous}
  BY <1>9, <1>10, <1>13 DEF Previous
<1>15. line.path \in Paths(g)
  BY <1>8, <1>14 DEF Paths
<1> QED
  BY <1>1, <1>2, <1>6, <1>15 DEF line, section

\* For every patch git can write, no file that was moved from or to a sensitive or excluded
\* path is included, whichever of the two paths its header shows.
THEOREM RenamesHold == Spec => []RenamesJudgedByBothPaths
<1>1. InputInvariant => RenamesJudgedByBothPaths
  BY InvariantGivesRenames
<1> QED
  BY <1>1, InputInvariantHolds, PTL

-----------------------------------------------------------------------------
\* A section is the sequence of its parts.

\* Two neighbouring parts of a sequence.  (The provers find an instance of a predicate
\* more easily than one of an equation.)
PartsMeet(s, a, b) == SubSeq(s, 1, a) \o SubSeq(s, a + 1, b) = SubSeq(s, 1, b)

LEMMA PartsJoin ==
  ASSUME NEW X, NEW s \in Seq(X), NEW a \in Nat, NEW b \in Nat, a <= b, b <= Len(s)
  PROVE  PartsMeet(s, a, b)
<1> DEFINE t == SubSeq(s, 1, a)
           u == SubSeq(s, a + 1, b)
           v == SubSeq(s, 1, b)
<1>1. /\ t \in Seq(X) /\ Len(t) = a
      /\ \A i \in 1..a : t[i] = s[i]
  OBVIOUS
<1>2. /\ u \in Seq(X) /\ Len(u) = b - a
      /\ \A i \in 1..(b - a) : u[i] = s[a + i]
  <2>1. a + 1 \in Nat /\ a + 1 \in Int /\ b \in Int
    OBVIOUS
  <2>2. /\ u \in Seq(X) /\ Len(u) = IF a + 1 <= b THEN b - (a + 1) + 1 ELSE 0
        /\ \A i \in 1..Len(u) : u[i] = s[a + 1 + i - 1]
    OBVIOUS
  <2> HIDE DEF u
  <2>3. Len(u) = b - a
    BY <2>2
  <2>4. \A i \in 1..(b - a) : a + 1 + i - 1 = a + i
    OBVIOUS
  <2> QED
    BY <2>2, <2>3, <2>4
<1>3. /\ v \in Seq(X) /\ Len(v) = b
      /\ \A i \in 1..b : v[i] = s[i]
  OBVIOUS
<1> HIDE DEF t, u, v
<1>4. /\ t \o u \in Seq(X) /\ Len(t \o u) = b
      /\ \A i \in 1..b : (t \o u)[i] = IF i <= a THEN t[i] ELSE u[i - a]
  <2>1. t \o u \in Seq(X)
    BY <1>1, <1>2
  <2>2. Len(t \o u) = Len(t) + Len(u)
    <3>1. t \in Seq(X) /\ u \in Seq(X)
      BY <1>1, <1>2
    <3> QED
      BY <3>1
  <2>3. \A i \in 1..(Len(t) + Len(u)) : (t \o u)[i] = IF i <= Len(t) THEN t[i] ELSE u[i - Len(t)]
    <3>1. t \in Seq(X) /\ u \in Seq(X)
      BY <1>1, <1>2
    <3> QED
      BY <3>1
  <2>4. Len(t) = a /\ Len(t) + Len(u) = b
    BY <1>1, <1>2
  <2> QED
    BY <2>1, <2>2, <2>3, <2>4
<1> PICK w : w = t \o u
  OBVIOUS
<1>5. ASSUME NEW i \in 1..b PROVE w[i] = v[i]
  <2>1. CASE i <= a
    BY <1>1, <1>3, <1>4, <2>1
  <2>2. CASE ~(i <= a)
    <3>1. i - a \in 1..(b - a) /\ a + (i - a) = i
      BY <2>2
    <3>2. w[i] = u[i - a] /\ v[i] = s[i]
      BY <1>3, <1>4, <2>2
    <3>3. u[i - a] = s[a + (i - a)]
      BY <1>2, <3>1
    <3> QED
      BY <3>1, <3>2, <3>3
  <2> QED
    BY <2>1, <2>2
<1>6. w = v
  BY <1>3, <1>4, <1>5
<1> QED
  BY <1>6 DEF t, u, v, PartsMeet

Regroups(s, t, u) == (s \o t) \o u = s \o (t \o u)

LEMMA ConcatRegroups ==
  ASSUME NEW X, NEW s \in Seq(X), NEW t \in Seq(X), NEW u \in Seq(X)
  PROVE  Regroups(s, t, u)
BY DEF Regroups

LEMMA ConcatType ==
  ASSUME NEW X, NEW s \in Seq(X), NEW t \in Seq(X)
  PROVE  s \o t \in Seq(X)
OBVIOUS

\* The first of the numbers of a set in ascending order is its least.
LEMMA AscendingFirst ==
  ASSUME NEW S \in SUBSET Nat, IsFiniteSet(S), S # {}
  PROVE  /\ 1 \in 1..Cardinality(S)
         /\ Ascending(S)[1] = Min(S) /\ Min(S) \in S
<1> DEFINE at == Ascending(S)
           T == {j \in S : j <= at[1]}
<1>1. Min(S) \in S /\ \A x \in S : Min(S) <= x
  BY MinOfNaturals
<1>2. Cardinality(S) \in Nat /\ Cardinality(S) # 0
  BY FS_CardinalityType, FS_EmptySet
<1>3. 1 \in 1..Cardinality(S)
  BY <1>2
<1>4. at[1] \in S /\ Rank(S, at[1]) = 1
  BY <1>3, AscendingFacts
<1>5. IsFiniteSet(T) /\ Cardinality(T) = 1
  <2>1. IsFiniteSet(T)
    BY FS_Subset
  <2> QED
    BY <1>4, <2>1 DEF Rank
<1>6. PICK x : T = {x}
  BY <1>5, FS_Singleton
<1>7. at[1] \in T /\ Min(S) \in T
  <2> HIDE DEF at
  <2> PICK y : y = at[1]
    OBVIOUS
  <2>1. y \in S /\ y \in Nat
    BY <1>4
  <2>2. y <= y /\ Min(S) <= y
    BY <1>1, <2>1
  <2> QED
    BY <1>1, <2>1, <2>2
<1>8. at[1] = Min(S)
  BY <1>6, <1>7
<1> QED
  BY <1>1, <1>3, <1>8

\* A section is its headers and its hunks, and its first hunks only begin it.
LEMMA HunksJoin ==
  ASSUME NEW section, IsSequence(section)
  PROVE  LET hunks == HunksOf(section)
             first(k) == HeadersOf(section) \o FlattenSeq(SubSeq(hunks, 1, k))
         IN  /\ hunks \in Seq(Seq(ToSet(section))) /\ Len(hunks) \in Nat
             /\ HeadersOf(section) \o FlattenSeq(hunks) = section
             /\ \A k \in 0..Len(hunks) : k # Len(hunks) => IsStrictPrefix(first(k), section)
<1> DEFINE X == ToSet(section)
           S == At(section, "hunk")
           at == Ascending(S)
           c == Cardinality(S)
           L == Len(section)
           start == IF S = {} THEN L + 1 ELSE Min(S)
           end == [k \in 0..c |-> IF k = c THEN L ELSE at[k + 1] - 1]
           hunks == HunksOf(section)
           headers == HeadersOf(section)
           firsts(k) == FlattenSeq(SubSeq(hunks, 1, k))
<1>1. /\ section \in Seq(X) /\ L \in Nat
      /\ S \in SUBSET Nat /\ IsFiniteSet(S) /\ S \subseteq 1..L
  BY AtFacts DEF IsSequence
<1>2. /\ c \in Nat /\ at \in [1..c -> S] /\ Len(at) = c
  <2> HIDE DEF S
  <2> QED
    BY <1>1, AscendingFacts
<1>3. end[0] = start - 1 /\ headers = SubSeq(section, 1, end[0])
  <2>1. CASE S = {}
    <3>1. c = 0
      BY <2>1, FS_EmptySet
    <3> QED
      BY <1>1, <2>1, <3>1 DEF HeadersOf
  <2>2. CASE S # {}
    <3> HIDE DEF S
    <3>1. 1 \in 1..c /\ at[1] = Min(S) /\ Min(S) \in S
      BY <1>1, <2>2, AscendingFirst
    <3>2. end[0] = at[0 + 1] - 1
      BY <1>2, <3>1
    <3>3. start = at[1] /\ 0 + 1 = 1
      BY <2>2, <3>1
    <3>4. headers = SubSeq(section, 1, start - 1)
      BY DEF HeadersOf, S
    <3> QED
      BY <3>2, <3>3, <3>4
  <2> QED
    BY <2>1, <2>2
<1>4. hunks = [n \in 1..c |-> SubSeq(section, at[n], end[n])]
  <2>1. DOMAIN at = 1..c
    BY <1>2
  <2>2. hunks = [n \in 1..c |-> SubSeq(section, at[n], IF n = Len(at) THEN L ELSE at[n + 1] - 1)]
    BY <2>1 DEF HunksOf
  <2>3. \A n \in 1..c : end[n] = IF n = Len(at) THEN L ELSE at[n + 1] - 1
    BY <1>2
  <2> HIDE DEF end, at, hunks
  <2> QED
    BY <2>2, <2>3
<1>5. /\ end \in [0..c -> 0..L] /\ end[c] = L
      /\ \A k \in 0..c : k # c => end[k] < L /\ at[k + 1] = end[k] + 1 /\ end[k] <= end[k + 1]
  <2>1. \A k \in 0..c : k # c => at[k + 1] \in 1..L
    BY <1>1, <1>2
  <2>2. ASSUME NEW k \in 0..c PROVE end[k] \in 0..L
    BY <1>1, <2>1
  <2>3. end[c] = L
    BY <1>2
  <2>4. ASSUME NEW k \in 0..c, k # c
        PROVE  end[k] = at[k + 1] - 1 /\ end[k] < L /\ at[k + 1] = end[k] + 1
    BY <1>1, <2>1, <2>4
  <2>5. ASSUME NEW k \in 0..c, k # c PROVE end[k] <= end[k + 1]
    <3> PICK m : m = k + 1
      OBVIOUS
    <3>1. m \in 1..c /\ m \in 0..c
      BY <1>2, <2>5
    <3>2. end[k] = at[m] - 1 /\ at[m] \in 1..L
      BY <2>1, <2>4, <2>5
    <3>3. CASE m = c
      BY <1>1, <2>3, <3>2, <3>3
    <3>4. CASE m # c
      <4>1. m \in 1..Cardinality(S)
        BY <3>1
      <4>2. at[m] < at[m + 1]
        <5> HIDE DEF S
        <5> QED
          BY <1>1, <3>4, <4>1, AscendingOrder
      <4>3. end[m] = at[m + 1] - 1 /\ at[m + 1] \in 1..L
        BY <2>1, <2>4, <3>1, <3>4
      <4> QED
        BY <3>2, <4>2, <4>3
    <3> QED
      BY <3>3, <3>4
  <2> HIDE DEF end
  <2>6. end \in [0..c -> 0..L]
    BY <2>2 DEF end
  <2> QED
    BY <2>3, <2>4, <2>5, <2>6
<1> HIDE DEF X, S, at, c, L, end, hunks, headers
<1>6. /\ hunks \in Seq(Seq(X)) /\ Len(hunks) = c
      /\ \A n \in 1..c : hunks[n] \in Seq(X) /\ hunks[n] = SubSeq(section, at[n], end[n])
  <2>1. ASSUME NEW n \in 1..c PROVE SubSeq(section, at[n], end[n]) \in Seq(X)
    <3>1. at[n] \in S /\ n \in 0..c
      BY <1>2
    <3> PICK a : a = at[n]
      OBVIOUS
    <3> PICK b : b = end[n]
      OBVIOUS
    <3>2. a \in 1..L /\ b \in 0..L
      BY <1>1, <1>5, <3>1
    <3>3. SubSeq(section, a, b) \in Seq(X)
      BY <1>1, <3>2 DEF L
    <3> QED
      BY <3>3
  <2>2. hunks \in [1..c -> Seq(X)]
    BY <1>4, <2>1
  <2>3. hunks \in Seq(Seq(X)) /\ Len(hunks) = c
    BY <1>2, <2>2
  <2>4. \A n \in 1..c : hunks[n] = SubSeq(section, at[n], end[n])
    BY <1>4
  <2> QED
    BY <2>2, <2>3, <2>4
<1> DEFINE Joined(k) == firsts(k) \in Seq(X) /\ headers \o firsts(k) = SubSeq(section, 1, end[k])
           Right == {k \in Nat : k <= c => Joined(k)}
<1>7. headers \in Seq(X)
  <2>1. end[0] \in Nat /\ end[0] <= L
    BY <1>1, <1>2, <1>5
  <2> QED
    BY <1>1, <1>3, <2>1 DEF L
<1>8. Joined(0)
  <2>1. SubSeq(hunks, 1, 0) = <<>>
    BY <1>6
  <2>2. firsts(0) = <<>>
    BY <2>1 DEF FlattenSeq
  <2>3. headers \o <<>> = headers /\ <<>> \in Seq(X)
    BY <1>7
  <2> QED
    BY <1>3, <2>2, <2>3
<1>9. ASSUME NEW k \in Nat, k + 1 <= c, Joined(k) PROVE Joined(k + 1)
  <2> PICK m : m = k + 1
    OBVIOUS
  <2>1. m \in 1..c /\ k \in 0..c /\ k # c /\ m \in Nat
    BY <1>2, <1>9
  <2>2. SubSeq(hunks, 1, k) \in Seq(Seq(X)) /\ SubSeq(hunks, 1, m) = Append(SubSeq(hunks, 1, k), hunks[m])
    BY <1>6, <2>1
  <2>3. firsts(m) = firsts(k) \o hunks[m]
    <3> PICK s : s = SubSeq(hunks, 1, k)
      OBVIOUS
    <3> QED
      BY <1>6, <2>1, <2>2, FlattenAppend
  <2>4. at[m] = end[k] + 1 /\ end[k] \in Nat /\ end[m] \in Nat /\ end[k] <= end[m] /\ end[m] <= L
    BY <1>1, <1>5, <2>1
  <2> PICK t : t = firsts(k)
    OBVIOUS
  <2> PICK v : v = hunks[m]
    OBVIOUS
  <2> PICK a : a = end[k]
    OBVIOUS
  <2> PICK b : b = end[m]
    OBVIOUS
  <2>5. t \in Seq(X) /\ headers \o t = SubSeq(section, 1, a) /\ v \in Seq(X)
    BY <1>6, <1>9, <2>1
  <2>6. v = SubSeq(section, a + 1, b) /\ PartsMeet(section, a, b)
    <3>1. a \in Nat /\ b \in Nat /\ a <= b /\ b <= Len(section)
      BY <2>4 DEF L
    <3>2. PartsMeet(section, a, b)
      BY <1>1, <3>1, PartsJoin
    <3>3. v = SubSeq(section, a + 1, b)
      BY <1>6, <2>1, <2>4
    <3> QED
      BY <3>2, <3>3
  <2> HIDE DEF firsts
  <2>7. Regroups(headers, t, v)
    BY <1>7, <2>5, ConcatRegroups
  <2>8. t \o v \in Seq(X)
    BY <2>5, ConcatType, Zenon
  <2>9. headers \o (t \o v) = SubSeq(section, 1, b)
    BY <2>5, <2>6, <2>7, Zenon DEF Regroups, PartsMeet
  <2>10. firsts(m) \in Seq(X) /\ headers \o firsts(m) = SubSeq(section, 1, end[m])
    BY <2>3, <2>8, <2>9, Zenon
  <2> QED
    BY <2>10
<1>10. Right = Nat
  <2>1. 0 \in Right
    BY <1>8
  <2>2. ASSUME NEW k \in Nat, k \in Right PROVE k + 1 \in Right
    <3> HIDE DEF Joined
    <3>1. k + 1 <= c => k <= c
      BY <1>2
    <3> QED
      BY <1>9, <2>2, <3>1
  <2>3. Right \in SUBSET Nat
    OBVIOUS
  <2> HIDE DEF Right
  <2> QED
    BY <2>1, <2>2, <2>3, InductionBySet
<1>11. \A k \in 0..c : Joined(k)
  <2> HIDE DEF Joined
  <2> QED
    BY <1>2, <1>10
<1>12. headers \o FlattenSeq(hunks) = section
  <2>1. SubSeq(hunks, 1, c) = hunks
    BY <1>2, <1>6
  <2>2. headers \o firsts(c) = SubSeq(section, 1, L)
    BY <1>2, <1>5, <1>11
  <2>3. SubSeq(section, 1, L) = section
    BY <1>1 DEF L
  <2> QED
    BY <2>1, <2>2, <2>3
<1>13. ASSUME NEW k \in 0..c, k # c PROVE IsStrictPrefix(headers \o firsts(k), section)
  <2>1. end[k] \in Nat /\ end[k] < Len(section)
    BY <1>5, <1>13 DEF L
  <2> PICK e : e = end[k]
    OBVIOUS
  <2>2. headers \o firsts(k) = SubSeq(section, 1, e)
    BY <1>11
  <2> DEFINE t == SubSeq(section, 1, e)
  <2>3. t \in Seq(X) /\ Len(t) = e /\ SubSeq(t, 1, e) = t
    BY <1>1, <2>1
  <2> HIDE DEF t
  <2>4. IsStrictPrefix(t, section)
    BY <2>1, <2>3 DEF IsStrictPrefix, IsPrefix, t
  <2> QED
    BY <2>2, <2>4 DEF t
<1> QED
  <2> HIDE DEF firsts
  <2>1. Len(hunks) = c
    BY <1>6
  <2>2. \A k \in 0..Len(hunks) : k # Len(hunks) => IsStrictPrefix(headers \o firsts(k), section)
    BY <1>13, <2>1
  <2> QED
    BY <1>2, <1>6, <1>12, <2>1, <2>2 DEF headers, hunks, firsts, X

-----------------------------------------------------------------------------
\* Nothing disappears.

\* A section that was looked at has a file or one item.
HasAnswer(n) ==
  \/ \E k \in DOMAIN parsed : parsed[k].of = n
  \/ \E i \in ToSet(items) : ItemsOf(n) = {i}

Answered ==
  \A n \in DOMAIN Sections :
    stage \notin {"split", "parse"} \/ (stage = "parse" /\ n < next) => HasAnswer(n)

\* A section keeps its answer where no item about it is added.
LEMMA StillAnswered ==
  ASSUME NEW n, HasAnswer(n),
         \A k \in DOMAIN parsed : k \in DOMAIN parsed' /\ parsed'[k] = parsed[k],
         \A i \in ToSet(items) : i \in ToSet(items'),
         \A i \in ToSet(items') : i \in ToSet(items) \/ i.of # n
  PROVE  HasAnswer(n)'
<1>1. ItemsOf(n)' = ItemsOf(n)
  BY DEF ItemsOf
<1>2. CASE \E k \in DOMAIN parsed : parsed[k].of = n
  BY <1>2 DEF HasAnswer
<1>3. CASE \E i \in ToSet(items) : ItemsOf(n) = {i}
  BY <1>1, <1>3 DEF HasAnswer
<1> QED
  BY <1>2, <1>3 DEF HasAnswer

LEMMA AnsweredNext == ASSUME InputInvariant, Answered, [Next]_vars PROVE Answered'
<1>1. /\ next \in Nat \ {0} /\ patch \in Patches
      /\ IsSequence(parsed) /\ IsSequence(items)
      /\ stage \in {"split", "parse", "filter", "redact", "done"}
  BY DEF InputInvariant, InputTypes
<1>2. patch' = patch /\ config' = config
  BY DEF Next, Split, ParseSection, Parsed, FilterFile, Filtered, RedactFile, Redacted, vars
<1>3. Sections' = Sections
  BY <1>2, SameInput
<1>4. PICK c \in Nat : DOMAIN Sections = 1..c
  BY <1>1, SectionNumbers
<1>5. Len(Sections) = c
  <2>1. Sections = [i \in 1..c |-> Sections[i]]
    BY <1>4 DEF Sections
  <2> QED
    BY <1>4, <2>1
<1>6. CASE Split
  <2>1. stage' = "parse" /\ next' = 1
    BY <1>6 DEF Split, InputInvariant, SectionsParsed
  <2> QED
    BY <1>3, <1>4, <2>1 DEF Answered
<1>7. CASE ParseSection
  <2>1. /\ stage = "parse" /\ stage' = "parse" /\ next' = next + 1 /\ next \in 1..c
        /\ \A g \in ToSet(parsed) \cup ToSet(items) : g.of < next
    BY <1>1, <1>5, <1>7 DEF ParseSection, InputInvariant, SectionsParsed
  <2> DEFINE f == ParsedFile(Sections[next], next)
             item == Item(Sections[next][1].path, "parse_error", next)
  <2>2. f.of = next /\ item.of = next
    BY <1>1, <1>4, <2>1, ParsedFileFacts DEF Item
  <2>3. \/ parsed' = Append(parsed, f) /\ items' = items
        \/ items' = Append(items, item) /\ parsed' = parsed
    BY <1>7 DEF ParseSection
  <2> HIDE DEF f, item
  <2>4. /\ IsSequence(items') /\ IsSequence(parsed')
        /\ \A k \in DOMAIN parsed : k \in DOMAIN parsed' /\ parsed'[k] = parsed[k]
        /\ \/ ToSet(items') = ToSet(items) \cup {} /\ \E k \in DOMAIN parsed' : parsed'[k] = f
           \/ ToSet(items') = ToSet(items) \cup {item}
    <3>1. CASE parsed' = Append(parsed, f) /\ items' = items
      BY <1>1, <3>1, AppendFacts
    <3>2. CASE items' = Append(items, item) /\ parsed' = parsed
      BY <1>1, <3>2, AppendFacts
    <3> QED
      BY <2>3, <3>1, <3>2
  <2>5. ASSUME NEW n \in DOMAIN Sections, n < next + 1
        PROVE  HasAnswer(n)'
    <3>1. CASE n # next
      <4>1. n < next
        BY <1>1, <1>4, <2>5, <3>1
      <4>2. HasAnswer(n)
        BY <2>1, <4>1 DEF Answered
      <4>3. /\ \A i \in ToSet(items) : i \in ToSet(items')
            /\ \A i \in ToSet(items') : i \in ToSet(items) \/ i.of # n
        BY <2>2, <2>4, <3>1
      <4> QED
        BY <2>4, <4>2, <4>3, StillAnswered
    <3>2. CASE n = next
      <4>1. CASE \E k \in DOMAIN parsed' : parsed'[k] = f
        BY <2>2, <3>2, <4>1 DEF HasAnswer
      <4>2. CASE ToSet(items') = ToSet(items) \cup {item}
        <5>1. \A i \in ToSet(items) : i.of # next
          <6>1. \A i \in ToSet(items) : i.of < next
            BY <2>1
          <6> QED
            BY <2>1, <6>1
        <5>2. ItemsOf(n)' = {item}
          BY <2>2, <3>2, <4>2, <5>1 DEF ItemsOf
        <5> QED
          BY <3>2, <4>2, <5>2 DEF HasAnswer
      <4> QED
        BY <2>4, <4>1, <4>2
    <3> QED
      BY <3>1, <3>2
  <2> QED
    BY <1>3, <2>1, <2>5 DEF Answered
<1>8. CASE Parsed
  <2>1. /\ stage = "parse" /\ stage' = "filter" /\ next > c
        /\ UNCHANGED <<parsed, items>>
    BY <1>5, <1>8 DEF Parsed
  <2>2. \A n \in DOMAIN Sections : n < next
    BY <1>1, <1>4, <2>1
  <2> QED
    BY <1>3, <2>1, <2>2 DEF Answered, HasAnswer, ItemsOf
<1>9. CASE FilterFile
  <2>1. stage = "filter" /\ stage' = "filter" /\ parsed' = parsed /\ next <= Len(parsed)
    BY <1>9 DEF FilterFile
  <2> PICK f : f = parsed[next]
    OBVIOUS
  <2>2. next \in DOMAIN parsed
    BY <2>1, NextFile
  <2>3. PICK Added, Items, status :
          /\ Verdict(f, Added, Items, status)
          /\ ToSet(included') = ToSet(included) \cup Added
          /\ ToSet(items') = ToSet(items) \cup Items
          /\ statuses' = WithStatus(f.path, status)
          /\ IsSequence(included') /\ IsSequence(items')
          /\ Len(included') <= config.maxFiles
          /\ \A i \in ToSet(items') :
               i.reason = "maximum_file_count" => Len(included') = config.maxFiles
    BY <1>9, FilterFileGives DEF GetsVerdict
  <2>4. \A i \in Items : i.of = f.of
    <3>1. ASSUME NEW i \in Items PROVE \E reason : i = Item(f.path, reason, f.of)
      BY <2>3 DEF Verdict
    <3> QED
      BY <3>1 DEF Item
  <2>5. ASSUME NEW n \in DOMAIN Sections
        PROVE  HasAnswer(n)'
    <3>1. CASE n = f.of
      BY <2>1, <2>2, <3>1 DEF HasAnswer
    <3>2. CASE n # f.of
      <4>1. HasAnswer(n)
        BY <2>1 DEF Answered
      <4>2. /\ \A i \in ToSet(items) : i \in ToSet(items')
            /\ \A i \in ToSet(items') : i \in ToSet(items) \/ i.of # n
        BY <2>3, <2>4, <3>2
      <4>3. \A k \in DOMAIN parsed : k \in DOMAIN parsed' /\ parsed'[k] = parsed[k]
        BY <2>1
      <4> QED
        BY <4>1, <4>2, <4>3, StillAnswered
    <3> QED
      BY <3>1, <3>2
  <2> QED
    BY <1>3, <2>5 DEF Answered
<1>10. CASE Filtered \/ RedactFile \/ Redacted
  <2>1. /\ stage \notin {"split", "parse"} /\ stage' \notin {"split", "parse"}
        /\ UNCHANGED <<parsed, items>>
    BY <1>10 DEF Filtered, RedactFile, Redacted
  <2> QED
    BY <1>3, <2>1 DEF Answered, HasAnswer, ItemsOf
<1>11. CASE UNCHANGED vars
  BY <1>3, <1>11 DEF vars, Answered, HasAnswer, ItemsOf
<1> QED
  BY <1>6, <1>7, <1>8, <1>9, <1>10, <1>11 DEF Next

LEMMA AnsweredAlways == Spec => [](InputInvariant /\ Answered)
<1>1. Init => Answered
  BY DEF Init, Answered
<1>2. InputInvariant /\ Answered /\ [Next]_vars => Answered'
  BY AnsweredNext
<1> QED
  BY <1>1, <1>2, InputInvariantHolds, PTL DEF Spec

\* A file with all hunks is its section, one that was cut only begins it.
LEMMA FileLines ==
  ASSUME patch \in Patches, NEW n \in DOMAIN Sections
  PROVE  LET f == ParsedFile(Sections[n], n)
         IN  /\ Lines(f) = Sections[n]
             /\ ~Fits(f) /\ Kept(f) # <<>> =>
                  IsStrictPrefix(Lines(Cut(f)), Sections[n]) /\ Cut(f).hunks # <<>>
<1> DEFINE f == ParsedFile(Sections[n], n)
           section == Sections[n]
<1>1. /\ f.headers = HeadersOf(section) /\ IsSequence(f.hunks)
      /\ \A hunks : /\ [f EXCEPT !.hunks = hunks].headers = HeadersOf(section)
                    /\ [f EXCEPT !.hunks = hunks].hunks = hunks
  BY ParsedFileFacts
<1>2. f.hunks = HunksOf(section) /\ f = [f EXCEPT !.hunks = f.hunks]
  BY DEF ParsedFile
<1>3. IsSequence(section)
  BY SectionFacts
<1> HIDE DEF f
<1>4. /\ Len(f.hunks) \in Nat
      /\ HeadersOf(section) \o FlattenSeq(f.hunks) = section
      /\ \A k \in 0..Len(f.hunks) : k # Len(f.hunks) =>
           IsStrictPrefix(HeadersOf(section) \o FlattenSeq(SubSeq(f.hunks, 1, k)), section)
  <2> HIDE DEF section
  <2> QED
    BY <1>2, <1>3, HunksJoin
<1>5. Lines(f) = section
  BY <1>1, <1>4 DEF Lines
<1>6. ASSUME ~Fits(f), Kept(f) # <<>>
      PROVE  IsStrictPrefix(Lines(Cut(f)), section) /\ Cut(f).hunks # <<>>
  <2>1. PICK m \in 0..Len(f.hunks) :
          /\ m = 0 => Kept(f) = <<>>
          /\ Cut(f) = FirstHunks(f, m)
          /\ m # 0 => Fits(FirstHunks(f, m))
    BY <1>1, KeptFacts
  <2>2. m # Len(f.hunks)
    <3>1. m = Len(f.hunks) => FirstHunks(f, m) = f
      <4>1. SubSeq(f.hunks, 1, Len(f.hunks)) = f.hunks
        BY <1>1, <1>4 DEF IsSequence
      <4> QED
        BY <1>2, <4>1 DEF FirstHunks
    <3> QED
      BY <1>6, <2>1, <3>1
  <2>3. Lines(Cut(f)) = HeadersOf(section) \o FlattenSeq(SubSeq(f.hunks, 1, m))
    BY <1>1, <2>1 DEF Lines, FirstHunks
  <2>4. Cut(f).hunks = Kept(f)
    BY <1>1 DEF Cut
  <2> QED
    BY <1>4, <1>6, <2>2, <2>3, <2>4
<1> QED
  BY <1>5, <1>6 DEF f

LEMMA InvariantGivesSections == ASSUME InputInvariant, Answered PROVE EverySectionAccounted
<1> SUFFICES ASSUME stage = "done", NEW n \in DOMAIN Sections
             PROVE  \/ ItemsOf(n) = {} /\ \E f \in FileOf(n) : Lines(f) = Sections[n]
                    \/ /\ Cardinality(ItemsOf(n)) = 1
                       /\ \A f \in FileOf(n) : IsStrictPrefix(Lines(f), Sections[n]) /\ f.hunks # <<>>
  BY DEF EverySectionAccounted
<1>1. Judged = DOMAIN parsed /\ patch \in Patches
  BY DEF Judged, InputInvariant, InputTypes
<1>2. HasAnswer(n)
  BY DEF Answered
<1>3. CASE \E k \in DOMAIN parsed : parsed[k].of = n
  <2>1. PICK k \in Judged : parsed[k].of = n
    BY <1>1, <1>3
  <2>2. PICK f : f = parsed[k]
    OBVIOUS
  <2>3. f.of = n /\ f = ParsedFile(Sections[n], n) /\ (Left(f) \/ Taken(f))
    BY <2>1, <2>2, JudgedFile
  <2>4. /\ Lines(f) = Sections[n]
        /\ ~Fits(f) /\ Kept(f) # <<>> =>
             IsStrictPrefix(Lines(Cut(f)), Sections[n]) /\ Cut(f).hunks # <<>>
    BY <1>1, <2>3, FileLines
  <2>5. CASE Left(f)
    <3>1. FileOf(n) = {} /\ \E i : ItemsOf(n) = {i}
      BY <2>3, <2>5 DEF Left
    <3> QED
      BY <3>1, FS_Singleton
  <2>6. CASE FileOf(n) = {f} /\ ItemsOf(n) = {}
    BY <2>4, <2>6
  <2>7. CASE /\ FileOf(n) = {Cut(f)} /\ \E i : ItemsOf(n) = {i}
             /\ ~Fits(f) /\ Kept(f) # <<>>
    BY <2>4, <2>7, FS_Singleton
  <2> QED
    BY <2>3, <2>5, <2>6, <2>7 DEF Taken
<1>4. CASE \A k \in DOMAIN parsed : parsed[k].of # n
  <2>1. \E i : ItemsOf(n) = {i}
    BY <1>2, <1>4 DEF HasAnswer
  <2>2. FileOf(n) = {}
    BY <1>1, <1>4 DEF FileOf, InputInvariant, Origins
  <2> QED
    BY <2>1, <2>2, FS_Singleton
<1> QED
  BY <1>3, <1>4

\* No change of any patch disappears: each section is reviewed to its last line, or one item
\* says that it was left out, or that it was cut after some of its hunks.
THEOREM SectionsAccountedFor == Spec => []EverySectionAccounted
<1>1. InputInvariant /\ Answered => EverySectionAccounted
  BY InvariantGivesSections
<1> QED
  BY <1>1, AnsweredAlways, PTL

-----------------------------------------------------------------------------
\* Redaction.

\* What is known while a file is redacted.
Progress == [keys : Nat, marker : Nat, marks : Seq(SUBSET Nat)]

InOpenKey(r, text) == r.marker # 0 /\ text.key # "header"

KeysAfter(r, text) == IF InOpenKey(r, text) THEN r.keys ELSE r.keys + text.begins

Shown(r, text) ==
  IF InOpenKey(r, text) THEN {r.marker} ELSE r.keys + 1 .. r.keys + text.begins

MarkerAfter(r, text) ==
  IF InOpenKey(r, text) THEN (IF text.key = "closes" THEN 0 ELSE r.marker)
  ELSE IF text.key = "opens" /\ r.keys + text.begins > 0 THEN r.keys + text.begins
  ELSE r.marker

\* A set of texts with numbers of matches.
Numbered(T) == \A text \in T : text.begins \in Nat

\* The three parts of what a text changes.
LEMMA RedactTextFacts ==
  ASSUME NEW r \in Progress, NEW text, text.begins \in Nat
  PROVE  LET t == RedactText(r, text)
         IN  /\ t \in Progress
             /\ Shown(r, text) \in SUBSET Nat
             /\ t.keys = KeysAfter(r, text)
             /\ t.marker = MarkerAfter(r, text)
             /\ t.marks = Append(r.marks, Shown(r, text))
<1> DEFINE count == r.keys + text.begins
           t == RedactText(r, text)
<1>1. r.keys \in Nat /\ r.marker \in Nat /\ r.marks \in Seq(SUBSET Nat) /\ count \in Nat
  BY DEF Progress
<1>2. Shown(r, text) \in SUBSET Nat
  BY <1>1 DEF Shown
<1>3. Append(r.marks, Shown(r, text)) \in Seq(SUBSET Nat)
  BY <1>1, <1>2
<1>4. CASE InOpenKey(r, text)
  <2>1. t = [r EXCEPT !.marks = Append(@, {r.marker}),
                      !.marker = IF text.key = "closes" THEN 0 ELSE @]
    BY <1>4 DEF RedactText, InOpenKey
  <2>2. r = [keys |-> r.keys, marker |-> r.marker, marks |-> r.marks]
    BY DEF Progress
  <2>3. t = [keys |-> r.keys, marker |-> IF text.key = "closes" THEN 0 ELSE r.marker,
             marks |-> Append(r.marks, {r.marker})]
    BY <2>1, <2>2
  <2>4. /\ Shown(r, text) = {r.marker} /\ KeysAfter(r, text) = r.keys
        /\ MarkerAfter(r, text) = IF text.key = "closes" THEN 0 ELSE r.marker
    BY <1>4 DEF Shown, MarkerAfter, KeysAfter
  <2>5. MarkerAfter(r, text) \in Nat
    BY <1>1, <2>4
  <2> QED
    BY <1>1, <1>2, <1>3, <2>3, <2>4, <2>5 DEF Progress
<1>5. CASE ~InOpenKey(r, text)
  <2> DEFINE new == r.keys + 1 .. count
             marker == IF text.key = "opens" /\ count > 0 THEN count ELSE r.marker
  <2>1. t = [keys |-> count, marker |-> marker, marks |-> Append(r.marks, new)]
    BY <1>5 DEF RedactText, InOpenKey
  <2>2. Shown(r, text) = new /\ KeysAfter(r, text) = count /\ MarkerAfter(r, text) = marker
    BY <1>5 DEF Shown, MarkerAfter, KeysAfter
  <2>3. marker \in Nat
    BY <1>1
  <2> HIDE DEF marker, new, count
  <2> QED
    BY <1>1, <1>2, <1>3, <2>1, <2>2, <2>3 DEF Progress
<1> QED
  BY <1>4, <1>5

Redaction(first, texts) == FoldLeft(RedactText, first, texts)

Steps(n, first, texts, at) ==
  /\ at[0] = first /\ at[n] = Redaction(first, texts)
  /\ \A i \in 1..n : at[i] = RedactText(at[i - 1], texts[i])

\* Redaction goes through the texts in order.
LEMMA RedactSteps ==
  ASSUME NEW n \in Nat, NEW T, Numbered(T),
         NEW texts \in [1..n -> T], NEW first \in Progress
  PROVE  \E at \in [0..n -> Progress] : Steps(n, first, texts, at)
<1> DEFINE P(g) == g = [s \in SUBSET (1..n) |->
                         IF s = {} THEN first ELSE RedactText(g[s \ {Max(s)}], texts[Max(s)])]
           iter == CHOOSE g : P(g)
<1>1. Redaction(first, texts) = iter[1..n]
  BY DEF Redaction, FoldLeft, MapThenFoldSet
<1>2. PICK g \in [SUBSET (1..n) -> Progress] : \A s \in SUBSET (1..n) :
        g[s] = IF s = {} THEN first ELSE RedactText(g[s \ {Max(s)}], texts[Max(s)])
  <2> DEFINE step == [p \in Progress \X T |-> RedactText(p[1], p[2])]
  <2>1. step \in [Progress \X T -> Progress]
    <3>1. \A r \in Progress, text \in T : RedactText(r, text) \in Progress
      BY RedactTextFacts DEF Numbered
    <3> QED
      BY <3>1
  <2>2. \A r \in Progress, text \in T : step[<<r, text>>] = RedactText(r, text)
    OBVIOUS
  <2> HIDE DEF step
  <2>3. PICK g \in [SUBSET (1..n) -> Progress] : Folding(n, first, texts, step, g)
    BY <2>1, FoldExists
  <2>4. ASSUME NEW s \in SUBSET (1..n), s # {}
        PROVE  step[<<g[s \ {Max(s)}], texts[Max(s)]>>] = RedactText(g[s \ {Max(s)}], texts[Max(s)])
    <3>1. Max(s) \in 1..n
      BY <2>4, MaxOfInterval
    <3>2. s \ {Max(s)} \in SUBSET (1..n)
      OBVIOUS
    <3>3. g[s \ {Max(s)}] \in Progress /\ texts[Max(s)] \in T
      BY <3>1, <3>2
    <3> QED
      BY <2>2, <3>3
  <2>5. \A s \in SUBSET (1..n) :
          g[s] = IF s = {} THEN first ELSE RedactText(g[s \ {Max(s)}], texts[Max(s)])
    BY <2>3, <2>4 DEF Folding
  <2> QED
    BY <2>5
<1>3. P(g)
  BY <1>2
<1>4. P(iter)
  <2> HIDE DEF P
  <2> QED
    BY <1>3
<1>5. \A s \in SUBSET (1..n) :
        iter[s] = IF s = {} THEN first ELSE RedactText(iter[s \ {Max(s)}], texts[Max(s)])
  <2> HIDE DEF iter
  <2> QED
    BY <1>4
<1> HIDE DEF iter
<1> DEFINE at == [i \in 0..n |-> iter[1..i]]
<1>6. at[0] = first
  <2>1. 1..0 = {} /\ {} \in SUBSET (1..n) /\ 0 \in 0..n
    OBVIOUS
  <2>2. iter[{}] = first
    BY <1>5, <2>1
  <2> QED
    BY <2>1, <2>2
<1>7. ASSUME NEW i \in 1..n PROVE at[i] = RedactText(at[i - 1], texts[i])
  <2>1. /\ 1..i \in SUBSET (1..n) /\ 1..i # {} /\ i \in 0..n /\ i - 1 \in 0..n
    OBVIOUS
  <2>2. Max(1..i) = i
    <3>1. i \in Nat /\ 1..i \in SUBSET (1..i)
      OBVIOUS
    <3>2. Max(1..i) \in 1..i /\ \A y \in 1..i : y <= Max(1..i)
      BY <2>1, <3>1, MaxOfInterval
    <3> QED
      BY <3>2
  <2>3. (1..i) \ {i} = 1..(i - 1)
    OBVIOUS
  <2> QED
    BY <1>5, <2>1, <2>2, <2>3
<1>8. \A i \in Nat : i <= n => at[i] \in Progress
  <2> DEFINE Right == {i \in Nat : i <= n => at[i] \in Progress}
  <2> HIDE DEF at
  <2>1. 0 \in Right
    BY <1>6
  <2>2. ASSUME NEW i \in Nat, i \in Right PROVE i + 1 \in Right
    <3> SUFFICES ASSUME i + 1 <= n PROVE at[i + 1] \in Progress
      OBVIOUS
    <3>1. i + 1 \in 1..n /\ i + 1 - 1 = i /\ i <= n
      BY <2>2
    <3>2. at[i] \in Progress /\ at[i + 1] = RedactText(at[i], texts[i + 1])
      BY <1>7, <2>2, <3>1
    <3>3. texts[i + 1].begins \in Nat
      BY <3>1 DEF Numbered
    <3> QED
      BY <3>2, <3>3, RedactTextFacts
  <2>3. Right \in SUBSET Nat
    OBVIOUS
  <2>4. Right = Nat
    <3> HIDE DEF Right
    <3> QED
      BY <2>1, <2>2, <2>3, InductionBySet
  <2> QED
    BY <2>4
<1>9. at \in [0..n -> Progress]
  <2>1. \A i \in 0..n : at[i] \in Progress
    <3> HIDE DEF at
    <3> QED
      BY <1>8
  <2> QED
    BY <2>1
<1>10. at[n] = Redaction(first, texts)
  BY <1>1
<1> QED
  BY <1>6, <1>7, <1>9, <1>10 DEF Steps

NoClose(texts, b, i) == \A j \in b + 1 .. i : texts[j].key # "closes"

\* Text i may show a number that is in text j, if that is not before text b.
SharedBy(n, texts, i, j) ==
  \E b \in 1..n :
    /\ Opens(texts[b]) /\ InKeyOf(texts, b, i)
    /\ \/ b <= j
       \/ /\ texts[b].begins = 0
          /\ ~\E c \in 1..n : OpensNumbered(texts[c]) /\ InKeyOf(texts, c, b)

\* What redaction makes of the n texts of a file when count keys were numbered before.
Redacts(n, texts, count, r) ==
  /\ r.keys \in Nat /\ count <= r.keys
  /\ r.marks \in [1..n -> SUBSET (1..r.keys)]
  /\ \A i \in 1..n :
       /\ \A b \in 1..n :
            OpensNumbered(texts[b]) /\ InKeyOf(texts, b, i) => r.marks[i] = {Max(r.marks[b])}
       /\ ~(\E b \in 1..n : Opens(texts[b]) /\ InKeyOf(texts, b, i)) =>
            Cardinality(r.marks[i]) = texts[i].begins
       /\ \A j \in 1 .. i - 1 : r.marks[j] \cap r.marks[i] # {} => SharedBy(n, texts, i, j)
       /\ \A x \in r.marks[i] : x <= count => SharedBy(n, texts, i, 0)

LEMMA MaxIs ==
  ASSUME NEW S \in SUBSET Nat, NEW x \in S, \A y \in S : y <= x
  PROVE  Max(S) = x
<1> PICK z : z = Max(S)
  OBVIOUS
<1>1. z \in S /\ \A y \in S : y <= z
  BY MaxOfNaturals
<1>2. z \in Nat /\ x \in Nat /\ x <= z /\ z <= x
  BY <1>1
<1> QED
  BY <1>2

LEMMA RedactFacts ==
  ASSUME NEW n \in Nat, NEW T, Numbered(T),
         NEW texts \in [1..n -> T], NEW count \in Nat
  PROVE  Redacts(n, texts, count, Redaction([keys |-> count, marker |-> 0, marks |-> <<>>], texts))
<1> DEFINE first == [keys |-> count, marker |-> 0, marks |-> <<>>]
           r == Redaction(first, texts)
<1>1. first \in Progress
  BY DEF Progress
<1>2. PICK at \in [0..n -> Progress] :
        /\ at[0] = first /\ at[n] = r
        /\ \A i \in 1..n : at[i] = RedactText(at[i - 1], texts[i])
  <2> HIDE DEF first
  <2> HIDE DEF r
  <2>1. PICK at \in [0..n -> Progress] : Steps(n, first, texts, at)
    BY <1>1, RedactSteps
  <2>2. at[n] = r
    BY <2>1 DEF r, Steps
  <2> QED
    BY <2>1, <2>2 DEF Steps
<1> HIDE DEF r
<1> DEFINE key == [i \in 0..n |-> at[i].keys]
           mk == [i \in 0..n |-> at[i].marker]
           m == [i \in 1..n |-> Shown(at[i - 1], texts[i])]
<1>3. key \in [0..n -> Nat] /\ mk \in [0..n -> Nat] /\ m \in [1..n -> SUBSET Nat]
  <2>1. \A i \in 0..n : at[i].keys \in Nat /\ at[i].marker \in Nat
    BY DEF Progress
  <2>2. ASSUME NEW i \in 1..n PROVE Shown(at[i - 1], texts[i]) \in SUBSET Nat
    <3>1. at[i - 1] \in Progress /\ texts[i].begins \in Nat
      BY DEF Numbered
    <3> QED
      BY <3>1, RedactTextFacts
  <2> QED
    BY <2>1, <2>2
<1>4. key[0] = count /\ mk[0] = 0 /\ key[n] = r.keys
  BY <1>2
<1> DEFINE Open(i) == mk[i - 1] # 0 /\ texts[i].key # "header"
<1>5. ASSUME NEW i \in 1..n
      PROVE  /\ texts[i].begins \in Nat
             /\ Open(i) =>
                  /\ m[i] = {mk[i - 1]} /\ key[i] = key[i - 1]
                  /\ mk[i] = IF texts[i].key = "closes" THEN 0 ELSE mk[i - 1]
             /\ ~Open(i) =>
                  /\ key[i] = key[i - 1] + texts[i].begins
                  /\ m[i] = key[i - 1] + 1 .. key[i]
                  /\ mk[i] = IF Opens(texts[i]) /\ key[i] > 0 THEN key[i] ELSE mk[i - 1]
             /\ at[i].marks = Append(at[i - 1].marks, m[i])
  <2>1. i \in 0..n /\ i - 1 \in 0..n /\ at[i - 1] \in Progress /\ texts[i].begins \in Nat
    BY DEF Numbered
  <2> PICK q : q = at[i - 1]
    OBVIOUS
  <2> PICK text : text = texts[i]
    OBVIOUS
  <2>2. at[i] = RedactText(q, text) /\ q \in Progress /\ text.begins \in Nat
    BY <1>2, <2>1
  <2>3. /\ at[i].keys = KeysAfter(q, text)
        /\ at[i].marker = MarkerAfter(q, text)
        /\ at[i].marks = Append(q.marks, Shown(q, text))
    <3>1. /\ RedactText(q, text).keys = KeysAfter(q, text)
          /\ RedactText(q, text).marker = MarkerAfter(q, text)
          /\ RedactText(q, text).marks = Append(q.marks, Shown(q, text))
      BY <2>2, RedactTextFacts
    <3> QED
      BY <2>2, <3>1
  <2>4. m[i] = Shown(q, text) /\ mk[i] = at[i].marker /\ key[i] = at[i].keys
        /\ mk[i - 1] = q.marker /\ key[i - 1] = q.keys
    BY <2>1
  <2>5. Open(i) <=> InOpenKey(q, text)
    BY <2>4 DEF InOpenKey
  <2> HIDE DEF m, mk, key, Open
  <2>6. CASE Open(i)
    BY <2>2, <2>3, <2>4, <2>5, <2>6 DEF KeysAfter, Shown, MarkerAfter
  <2>7. CASE ~Open(i)
    BY <2>2, <2>3, <2>4, <2>5, <2>7 DEF KeysAfter, Shown, MarkerAfter, Opens
  <2> QED
    BY <2>6, <2>7
<1> DEFINE Right(k) ==
             /\ \A i \in 0..k : key[i] <= key[k]
             /\ \A i \in 1..k : m[i] \subseteq 1..key[k]
             /\ mk[k] <= key[k]
             /\ at[k].marks = [i \in 1..k |-> m[i]]
             /\ mk[k] # 0 => \E b \in 1..k :
                  /\ Opens(texts[b]) /\ NoClose(texts, b, k)
                  /\ mk[b - 1] = 0 /\ mk[k] = key[b]
             /\ \A b \in 1..k : OpensNumbered(texts[b]) /\ NoClose(texts, b, k) =>
                  mk[k] # 0 /\ Max(m[b]) = mk[k]
           All == {k \in Nat : k <= n => Right(k)}
<1>6. 0 \in All
  <2>1. at[0].marks = <<>> /\ \A i \in 0..0 : i = 0
    BY <1>2
  <2>2. [i \in 1..0 |-> m[i]] = <<>> /\ 1..0 = {}
    OBVIOUS
  <2> QED
    BY <1>3, <1>4, <2>1, <2>2
<1> HIDE DEF key, mk, m
<1>7. ASSUME NEW k \in Nat, k + 1 <= n, Right(k) PROVE Right(k + 1)
  <2> PICK i : i = k + 1
    OBVIOUS
  <2>1. i \in 1..n /\ k \in 0..n /\ i \in 0..n /\ i - 1 = k /\ i \in Nat
    BY <1>7
  <2>2. key[i] \in Nat /\ key[k] \in Nat /\ mk[k] \in Nat /\ mk[i] \in Nat /\ m[i] \in SUBSET Nat
    BY <1>3, <2>1
  <2>3. /\ texts[i].begins \in Nat
        /\ Open(i) =>
             /\ m[i] = {mk[k]} /\ key[i] = key[k]
             /\ mk[i] = IF texts[i].key = "closes" THEN 0 ELSE mk[k]
        /\ ~Open(i) =>
             /\ key[i] = key[k] + texts[i].begins
             /\ m[i] = key[k] + 1 .. key[i]
             /\ mk[i] = IF Opens(texts[i]) /\ key[i] > 0 THEN key[i] ELSE mk[k]
        /\ at[i].marks = Append(at[k].marks, m[i])
        /\ Open(i) <=> mk[k] # 0 /\ texts[i].key # "header"
    BY <1>5, <2>1
  <2> HIDE DEF Open
  <2>4. key[k] <= key[i] /\ mk[i] <= key[i] /\ m[i] \subseteq 1..key[i]
    <3>1. mk[k] <= key[k]
      BY <1>7
    <3>2. CASE Open(i)
      <4>1. m[i] = {mk[k]} /\ key[i] = key[k] /\ mk[i] \in {0, mk[k]} /\ mk[k] # 0
        BY <2>3, <3>2
      <4>2. mk[k] \in 1..key[i]
        BY <2>2, <3>1, <4>1
      <4>3. key[k] <= key[i] /\ mk[i] <= key[i]
        BY <2>2, <3>1, <4>1
      <4> QED
        BY <4>1, <4>2, <4>3
    <3>3. CASE ~Open(i)
      <4>1. /\ key[i] = key[k] + texts[i].begins /\ texts[i].begins \in Nat
            /\ m[i] = key[k] + 1 .. key[i] /\ mk[i] \in {key[i], mk[k]}
        BY <2>3, <3>3
      <4>2. key[k] <= key[i]
        BY <2>2, <4>1
      <4>3. mk[i] <= key[i]
        BY <2>2, <3>1, <4>1, <4>2
      <4>4. m[i] \subseteq 1..key[i]
        BY <2>2, <4>1
      <4> QED
        BY <4>2, <4>3, <4>4
    <3> QED
      BY <3>2, <3>3
  <2>5. ASSUME NEW j \in 0..i PROVE key[j] <= key[i]
    <3>1. CASE j = i
      BY <2>2, <3>1
    <3>2. CASE j # i
      <4>1. j \in 0..k /\ j \in 0..n
        BY <2>1, <3>2
      <4>2. key[j] <= key[k] /\ key[j] \in Nat
        BY <1>3, <1>7, <4>1
      <4> QED
        BY <2>2, <2>4, <4>2
    <3> QED
      BY <3>1, <3>2
  <2>6. ASSUME NEW j \in 1..i PROVE m[j] \subseteq 1..key[i]
    <3>1. CASE j = i
      BY <2>4, <3>1
    <3>2. CASE j # i
      <4>1. j \in 1..k
        BY <2>1, <3>2
      <4>2. m[j] \subseteq 1..key[k] /\ 1..key[k] \subseteq 1..key[i]
        BY <1>7, <2>2, <2>4, <4>1
      <4> QED
        BY <4>2
    <3> QED
      BY <3>1, <3>2
  <2>7. at[i].marks = [j \in 1..i |-> m[j]]
    <3> DEFINE s == [j \in 1..k |-> m[j]]
               t == Append(s, m[i])
    <3>1. s \in [1..k -> SUBSET Nat] /\ \A j \in 1..k : s[j] = m[j]
      BY <1>3, <2>1
    <3>2. s \in Seq(SUBSET Nat) /\ Len(s) = k
      BY <3>1
    <3> HIDE DEF s
    <3>3. /\ t \in Seq(SUBSET Nat) /\ Len(t) = k + 1 /\ t[k + 1] = m[i]
          /\ \A j \in 1..k : t[j] = s[j]
      BY <2>2, <3>2
    <3> HIDE DEF t
    <3>4. t = [j \in 1..(k + 1) |-> t[j]]
      BY <3>3
    <3>5. \A j \in 1..(k + 1) : t[j] = m[j]
      BY <3>1, <3>3
    <3>6. t = [j \in 1..(k + 1) |-> m[j]]
      BY <3>4, <3>5
    <3>7. at[i].marks = t
      BY <1>7, <2>3 DEF s, t
    <3> QED
      BY <3>6, <3>7
  <2>8. ASSUME mk[i] # 0
        PROVE  \E b \in 1..i :
                 /\ Opens(texts[b]) /\ NoClose(texts, b, i)
                 /\ mk[b - 1] = 0 /\ mk[i] = key[b]
    <3>1. CASE mk[k] # 0
      <4>1. PICK b \in 1..k :
              /\ Opens(texts[b]) /\ NoClose(texts, b, k)
              /\ mk[b - 1] = 0 /\ mk[k] = key[b]
        BY <1>7, <3>1
      <4>2. mk[i] = mk[k] /\ texts[i].key # "closes"
        BY <2>3, <2>8, <3>1 DEF Opens
      <4>3. NoClose(texts, b, i)
        <5>1. \A j \in b + 1 .. i : j = i \/ j \in b + 1 .. k
          OBVIOUS
        <5> QED
          BY <4>1, <4>2, <5>1 DEF NoClose
      <4>4. b \in 1..i
        BY <2>1
      <4> QED
        BY <4>1, <4>2, <4>3, <4>4
    <3>2. CASE mk[k] = 0
      <4>1. Opens(texts[i]) /\ mk[i] = key[i] /\ mk[i - 1] = 0
        BY <2>1, <2>3, <2>8, <3>2
      <4>2. NoClose(texts, i, i)
        <5>1. \A j \in i + 1 .. i : FALSE
          BY <2>1
        <5> QED
          BY <5>1 DEF NoClose
      <4>3. i \in 1..i
        BY <2>1
      <4> QED
        BY <4>1, <4>2, <4>3
    <3> QED
      BY <3>1, <3>2
  <2>9. ASSUME NEW b \in 1..i, OpensNumbered(texts[b]), NoClose(texts, b, i)
        PROVE  mk[i] # 0 /\ Max(m[b]) = mk[i]
    <3>1. CASE b = i
      <4>1. Opens(texts[i]) /\ texts[i].begins > 0 /\ texts[i].key \notin {"closes", "header"}
        BY <2>9, <3>1 DEF OpensNumbered, Opens
      <4>2. CASE Open(i)
        <5>1. mk[i] = mk[k] /\ m[i] = {mk[i]} /\ mk[k] # 0
          BY <2>3, <4>1, <4>2
        <5>2. Max(m[i]) = mk[i]
          <6>1. \A x \in Nat : Max({x}) = x
            <7>1. \A x \in Nat : {x} \in SUBSET Nat /\ x \in {x} /\ \A y \in {x} : y <= x
              OBVIOUS
            <7> QED
              BY <7>1, MaxIs
          <6> QED
            BY <2>2, <5>1, <6>1
        <5> QED
          BY <3>1, <5>1, <5>2
      <4>3. CASE ~Open(i)
        <5>1. mk[i] = key[i] /\ m[i] = key[k] + 1 .. key[i] /\ key[i] > key[k]
          BY <2>2, <2>3, <4>1, <4>3
        <5>2. key[i] \in m[i] /\ \A y \in m[i] : y <= key[i]
          BY <2>2, <5>1
        <5>3. Max(m[i]) = key[i]
          BY <2>2, <5>2, MaxIs
        <5> QED
          BY <2>2, <3>1, <5>1, <5>3
      <4> QED
        BY <4>2, <4>3
    <3>2. CASE b # i
      <4>1. b \in 1..k /\ i \in b + 1 .. i /\ \A j \in b + 1 .. k : j \in b + 1 .. i
        BY <2>1, <3>2
      <4>2. texts[i].key # "closes" /\ NoClose(texts, b, k)
        BY <2>9, <4>1 DEF NoClose
      <4>3. mk[k] # 0 /\ Max(m[b]) = mk[k]
        BY <1>7, <2>9, <4>1, <4>2
      <4>4. mk[i] = mk[k]
        BY <2>3, <4>2, <4>3 DEF Opens
      <4> QED
        BY <4>3, <4>4
    <3> QED
      BY <3>1, <3>2
  <2>10. Right(i)
    BY <2>4, <2>5, <2>6, <2>7, <2>8, <2>9
  <2> QED
    BY <2>10
<1>8. All = Nat
  <2>1. ASSUME NEW k \in Nat, k \in All PROVE k + 1 \in All
    <3> HIDE DEF Right
    <3>1. k + 1 <= n => k <= n
      OBVIOUS
    <3> QED
      BY <1>7, <2>1, <3>1
  <2>2. All \in SUBSET Nat
    OBVIOUS
  <2> HIDE DEF All
  <2> QED
    BY <1>6, <2>1, <2>2, InductionBySet
<1>9. \A k \in 0..n : Right(k)
  <2> HIDE DEF Right
  <2> QED
    BY <1>8
<1>10. r.keys \in Nat /\ count <= r.keys
  <2>1. key[n] \in Nat /\ key[0] <= key[n]
    BY <1>3, <1>9
  <2> QED
    BY <1>4, <2>1
<1>11. r.marks = m /\ m \in [1..n -> SUBSET (1..r.keys)]
  <2>1. r.marks = [i \in 1..n |-> m[i]] /\ \A i \in 1..n : m[i] \subseteq 1..r.keys
    <3>1. Right(n)
      <4> HIDE DEF Right
      <4> QED
        BY <1>9
    <3> QED
      BY <1>2, <1>4, <3>1
  <2>2. m = [i \in 1..n |-> m[i]]
    BY <1>3
  <2> QED
    BY <1>3, <1>10, <2>1, <2>2
<1>12. ASSUME NEW i \in 1..n, NEW b \in 1..n,
              OpensNumbered(texts[b]), InKeyOf(texts, b, i)
       PROVE  m[i] = {Max(m[b])}
  <2> PICK k : k = i - 1
    OBVIOUS
  <2>1. k \in 0..n /\ b \in 1..k /\ texts[i].key # "header"
    BY <1>12 DEF InKeyOf
  <2>2. NoClose(texts, b, k)
    BY <1>12 DEF InKeyOf, NoClose
  <2>3. mk[k] # 0 /\ Max(m[b]) = mk[k]
    BY <1>9, <1>12, <2>1, <2>2
  <2> QED
    BY <1>5, <2>1, <2>3
<1>13. ASSUME NEW i \in 1..n
       PROVE  /\ key[i - 1] \in Nat /\ count <= key[i - 1]
              /\ \A j \in 1 .. i - 1 : m[j] \subseteq 1..key[i - 1]
  <2> PICK k : k = i - 1
    OBVIOUS
  <2>1. k \in 0..n /\ 0 \in 0..k
    OBVIOUS
  <2>2. key[0] <= key[k] /\ key[k] \in Nat /\ \A j \in 1..k : m[j] \subseteq 1..key[k]
    BY <1>3, <1>9, <2>1
  <2> QED
    BY <1>4, <2>2
\* In an open key, one number is shown: that of the text that opened it.
<1>14. ASSUME NEW i \in 1..n, Open(i)
       PROVE  \E b \in 1..n :
                /\ b < i /\ Opens(texts[b]) /\ InKeyOf(texts, b, i)
                /\ m[i] = {key[b]} /\ mk[b - 1] = 0 /\ key[b] = key[b - 1] + texts[b].begins
  <2> PICK k : k = i - 1
    OBVIOUS
  <2>1. k \in 0..n
    OBVIOUS
  <2>2. mk[k] # 0 /\ texts[i].key # "header"
    BY <1>14
  <2>3. m[i] = {mk[k]}
    BY <1>5, <1>14
  <2>4. PICK b \in 1..k : /\ Opens(texts[b]) /\ NoClose(texts, b, k)
                          /\ mk[b - 1] = 0 /\ mk[k] = key[b]
    BY <1>9, <2>1, <2>2
  <2>5. b \in 1..n /\ b < i /\ InKeyOf(texts, b, i)
    BY <2>2, <2>4 DEF NoClose, InKeyOf
  <2>6. key[b] = key[b - 1] + texts[b].begins
    BY <1>5, <2>4, <2>5
  <2> QED
    BY <2>3, <2>4, <2>5, <2>6
\* An old number is shown only in a key of that number.
<1>15. ASSUME NEW i \in 1..n, NEW b \in 1..n,
              b < i, Opens(texts[b]), InKeyOf(texts, b, i),
              mk[b - 1] = 0, key[b] = key[b - 1] + texts[b].begins,
              key[b] <= key[b - 1], NEW j
       PROVE  SharedBy(n, texts, i, j)
  <2>1. texts[b].begins = 0
    <3>1. texts[b].begins \in Nat
      BY <1>5
    <3>2. key[b - 1] \in Nat
      BY <1>13
    <3> QED
      BY <1>15, <3>1, <3>2
  <2>2. ASSUME NEW c \in 1..n, OpensNumbered(texts[c]), InKeyOf(texts, c, b) PROVE FALSE
    <3> PICK k : k = b - 1
      OBVIOUS
    <3>1. k \in 0..n /\ c \in 1..k /\ NoClose(texts, c, k)
      BY <2>2 DEF InKeyOf, NoClose
    <3>2. mk[k] # 0
      BY <1>9, <2>2, <3>1
    <3> QED
      BY <1>15, <3>2
  <2> QED
    BY <1>15, <2>1, <2>2 DEF SharedBy
<1>16. ASSUME NEW i \in 1..n
       PROVE  /\ ~(\E b \in 1..n : Opens(texts[b]) /\ InKeyOf(texts, b, i)) =>
                   Cardinality(m[i]) = texts[i].begins
              /\ \A j \in 1 .. i - 1 : m[j] \cap m[i] # {} => SharedBy(n, texts, i, j)
              /\ \A x \in m[i] : x <= count => SharedBy(n, texts, i, 0)
  <2>1. CASE ~Open(i)
    <3>1. /\ key[i - 1] \in Nat /\ count <= key[i - 1] /\ texts[i].begins \in Nat
          /\ m[i] = key[i - 1] + 1 .. key[i - 1] + texts[i].begins
      BY <1>5, <1>13, <2>1
    <3>2. Cardinality(m[i]) = texts[i].begins
      <4>1. \A a, b \in Nat : a + 1 <= a + b => Cardinality(a + 1 .. a + b) = b
        BY FS_Interval
      <4>2. CASE texts[i].begins = 0
        <5>1. m[i] = {}
          BY <3>1, <4>2
        <5> QED
          BY <4>2, <5>1, FS_EmptySet
      <4>3. CASE texts[i].begins # 0
        <5>1. key[i - 1] + 1 <= key[i - 1] + texts[i].begins
          BY <3>1, <4>3
        <5> QED
          BY <3>1, <4>1, <5>1
      <4> QED
        BY <4>2, <4>3
    <3>3. \A x \in m[i] : x \in Nat /\ x > key[i - 1]
      BY <3>1
    <3>4. \A j \in 1 .. i - 1 : m[j] \cap m[i] = {}
      <4>1. \A j \in 1 .. i - 1 : \A x \in m[j] : x <= key[i - 1]
        BY <1>13, <3>1
      <4> QED
        BY <3>1, <3>3, <4>1
    <3> QED
      BY <1>4, <3>1, <3>2, <3>3, <3>4
  <2>2. CASE Open(i)
    <3>1. PICK b \in 1..n :
            /\ b < i /\ Opens(texts[b]) /\ InKeyOf(texts, b, i)
            /\ m[i] = {key[b]} /\ mk[b - 1] = 0 /\ key[b] = key[b - 1] + texts[b].begins
      BY <1>14, <2>2
    <3>2. /\ key[b - 1] \in Nat /\ count <= key[b - 1] /\ key[b] \in Nat
          /\ \A j \in 1 .. b - 1 : m[j] \subseteq 1..key[b - 1]
      <4>1. b \in 1..n /\ b \in 0..n /\ b - 1 \in 0..n
        OBVIOUS
      <4>2. key[b - 1] \in Nat /\ key[b] \in Nat
        BY <1>3, <4>1
      <4> QED
        BY <1>13, <4>1, <4>2
    <3>3. \A j : key[b] <= key[b - 1] => SharedBy(n, texts, i, j)
      BY <1>15, <3>1
    <3>4. ASSUME NEW j \in 1 .. i - 1, m[j] \cap m[i] # {} PROVE SharedBy(n, texts, i, j)
      <4>1. CASE b <= j
        BY <3>1, <4>1 DEF SharedBy
      <4>2. CASE ~(b <= j)
        <5>1. j \in 1 .. b - 1 /\ key[b] \in m[j]
          BY <3>1, <3>4, <4>2
        <5>2. key[b] <= key[b - 1]
          BY <3>2, <5>1
        <5> QED
          BY <3>3, <5>2
      <4> QED
        BY <4>1, <4>2
    <3>5. ASSUME NEW x \in m[i], x <= count PROVE SharedBy(n, texts, i, 0)
      <4>1. key[b] <= key[b - 1]
        BY <3>1, <3>2, <3>5
      <4> QED
        BY <3>3, <4>1
    <3> QED
      BY <3>1, <3>4, <3>5
  <2> QED
    BY <2>1, <2>2
<1> QED
  <2>1. Redacts(n, texts, count, r)
    BY <1>10, <1>11, <1>12, <1>16 DEF Redacts
  <2> QED
    BY <2>1 DEF r, first

LEMMA FunctionIsSeq == ASSUME NEW Z, NEW c \in Nat, NEW s \in [1..c -> Z] PROVE s \in Seq(Z)
OBVIOUS

\* The texts of a file are a sequence.
LEMMA TextsFacts ==
  ASSUME NEW f, NEW X, \A x \in X : x.begins \in Nat,
         f.headers \in Seq(X), f.hunks \in Seq(Seq(X)),
         \A h \in DOMAIN f.hunks : f.hunks[h] # <<>>
  PROVE  \E n \in Nat : \E T :
           Numbered(T) /\ Texts(f) \in [1..n -> T]
<1> DEFINE Y == X \cup {AsHeader(x) : x \in X}
           headers == [i \in DOMAIN f.headers |-> AsHeader(f.headers[i])]
           bodies == [h \in DOMAIN f.hunks |-> Append(Tail(f.hunks[h]), AsHeader(Head(f.hunks[h])))]
<1>1. \A y \in Y : y.begins \in Nat
  BY DEF AsHeader
<1>2. X \subseteq Y /\ \A x \in X : AsHeader(x) \in Y
  OBVIOUS
<1> HIDE DEF Y
<1>3. headers \in Seq(Y)
  BY <1>2
<1>4. \A s \in Seq(X) : s # <<>> => Append(Tail(s), AsHeader(Head(s))) \in Seq(Y)
  <2> SUFFICES ASSUME NEW s \in Seq(X), s # <<>>
               PROVE  Append(Tail(s), AsHeader(Head(s))) \in Seq(Y)
    OBVIOUS
  <2>1. Head(s) \in X /\ Tail(s) \in Seq(X)
    OBVIOUS
  <2>2. Tail(s) \in Seq(Y) /\ AsHeader(Head(s)) \in Y
    BY <1>2, <2>1
  <2> QED
    BY <2>2
<1>5. bodies \in Seq(Seq(Y))
  <2>1. \A h \in DOMAIN f.hunks : bodies[h] \in Seq(Y)
    BY <1>4
  <2>2. bodies \in [DOMAIN f.hunks -> Seq(Y)]
    BY <2>1
  <2>3. DOMAIN f.hunks = 1..Len(f.hunks) /\ Len(f.hunks) \in Nat
    OBVIOUS
  <2> PICK c : c = Len(f.hunks)
    OBVIOUS
  <2>4. bodies \in [1..c -> Seq(Y)] /\ c \in Nat
    BY <2>2, <2>3
  <2> HIDE DEF bodies
  <2> QED
    BY <2>4, FunctionIsSeq
<1>6. Texts(f) = headers \o FlattenSeq(bodies)
  BY DEF Texts
<1> HIDE DEF headers, bodies
<1>7. FlattenSeq(bodies) \in Seq(Y)
  <2>1. <<>> \in Seq(Y)
    OBVIOUS
  <2> QED
    BY <1>5, <2>1, FlattenAppend
<1>8. Texts(f) \in Seq(Y)
  BY <1>3, <1>6, <1>7, ConcatType
<1>9. Len(Texts(f)) \in Nat /\ Texts(f) \in [1..Len(Texts(f)) -> Y]
  BY <1>8
<1> QED
  BY <1>1, <1>9 DEF Numbered

\* A section is made of lines of the patch, its headers are some of its first lines, and
\* its hunks have a line each.
LEMMA SectionLines ==
  ASSUME patch \in Patches, NEW n \in DOMAIN Sections
  PROVE  LET section == Sections[n]
         IN  /\ \A x \in ToSet(section) : x.begins \in Nat
             /\ HeadersOf(section) \in Seq(ToSet(section))
             /\ HunksOf(section) \in Seq(Seq(ToSet(section)))
             /\ \A h \in DOMAIN HunksOf(section) : HunksOf(section)[h] # <<>>
<1> PICK section : section = Sections[n]
  OBVIOUS
<1> DEFINE X == ToSet(section)
           at == Ascending(At(section, "hunk"))
<1>1. /\ IsSequence(section)
      /\ \E a \in 1..Len(patch) : \A i \in 1..Len(section) :
           a + i - 1 \in 1..Len(patch) /\ section[i] = patch[a + i - 1]
  <2>1. PICK a \in 1..Len(patch), b \in 1..Len(patch) :
          /\ IsSequence(section) /\ a <= b /\ Len(section) = b - a + 1
          /\ \A i \in 1..Len(section) : section[i] = patch[a + i - 1]
    BY SectionFacts
  <2>2. IsSequence(patch)
    BY PatchesAssumption DEF IsSequence
  <2>3. Len(patch) \in Nat
    BY <2>2 DEF IsSequence
  <2>4. \A i \in 1..Len(section) : a + i - 1 \in 1..Len(patch)
    BY <2>1, <2>3
  <2> QED
    BY <2>1, <2>4
<1>2. \A x \in X : x.begins \in Nat
  <2>1. DOMAIN section = 1..Len(section)
    BY <1>1 DEF IsSequence
  <2>2. \A i \in 1..Len(patch) : patch[i].begins \in Nat
    <3>1. IsSequence(patch) /\ \A i \in DOMAIN patch : patch[i].begins \in Nat
      BY PatchesAssumption DEF IsSequence
    <3> QED
      BY <3>1 DEF IsSequence
  <2>3. \A i \in 1..Len(section) : section[i].begins \in Nat
    <3>1. PICK a \in 1..Len(patch) : \A i \in 1..Len(section) :
            a + i - 1 \in 1..Len(patch) /\ section[i] = patch[a + i - 1]
      BY <1>1
    <3>2. ASSUME NEW i \in 1..Len(section) PROVE section[i].begins \in Nat
      <4>1. a + i - 1 \in 1..Len(patch) /\ section[i] = patch[a + i - 1]
        BY <3>1
      <4> QED
        BY <2>2, <4>1
    <3> QED
      BY <3>2
  <2>4. \A x \in X : \E i \in 1..Len(section) : x = section[i]
    BY <2>1 DEF ToSet
  <2> QED
    BY <2>3, <2>4
<1>3. HunksOf(section) \in Seq(Seq(X))
  BY <1>1, HunksJoin
<1>4. HeadersOf(section) \in Seq(X)
  <2>1. section \in Seq(X)
    BY <1>1 DEF IsSequence
  <2>2. /\ Len(section) \in Nat
        /\ At(section, "hunk") \in SUBSET Nat /\ \A i \in At(section, "hunk") : i \in 1..Len(section)
    BY <1>1, AtFacts
  <2> DEFINE start == IF At(section, "hunk") = {} THEN Len(section) + 1
                      ELSE Min(At(section, "hunk"))
  <2>3. start - 1 \in 0..Len(section)
    <3>1. CASE At(section, "hunk") = {}
      BY <2>2, <3>1
    <3>2. CASE At(section, "hunk") # {}
      <4>1. Min(At(section, "hunk")) \in At(section, "hunk")
        BY <2>2, <3>2, MinOfNaturals
      <4> QED
        BY <2>2, <3>2, <4>1
    <3> QED
      BY <3>1, <3>2
  <2>4. HeadersOf(section) = SubSeq(section, 1, start - 1)
    BY DEF HeadersOf
  <2> HIDE DEF start, X
  <2> QED
    BY <2>1, <2>3, <2>4
<1>5. ASSUME NEW h \in DOMAIN HunksOf(section) PROVE HunksOf(section)[h] # <<>>
  <2> DEFINE last == IF h = Len(at) THEN Len(section) ELSE at[h + 1] - 1
  <2>1. h \in DOMAIN at /\ HunksOf(section)[h] = SubSeq(section, at[h], last)
    BY <1>5 DEF HunksOf
  <2>2. at[h] \in 1..Len(section) /\ last \in Nat /\ last <= Len(section) /\ at[h] <= last
    <3> HIDE DEF at, last
    <3>1. h \in DOMAIN Ascending(At(section, "hunk"))
      BY <2>1 DEF at
    <3> QED
      BY <1>1, <3>1, PartFacts DEF at, last
  <2> HIDE DEF at, last
  <2>3. Len(section) \in Nat
    BY <1>1 DEF IsSequence
  <2>4. Len(SubSeq(section, at[h], last)) = last - at[h] + 1
    BY <1>1, <2>2, <2>3, SubSeqFacts
  <2>5. last - at[h] + 1 # 0
    BY <2>2, <2>3
  <2> QED
    BY <2>1, <2>4, <2>5, EmptySequence
<1> QED
  BY <1>2, <1>3, <1>4, <1>5

LEMMA IncludedTexts ==
  ASSUME InputInvariant, NEW f \in ToSet(included)
  PROVE  \E n \in Nat : \E T :
           Numbered(T) /\ Texts(f) \in [1..n -> T]
<1>1. PICK k \in Judged : f.of = parsed[k].of
  BY DEF InputInvariant, Origins
<1>2. PICK g : g = parsed[k]
  OBVIOUS
<1>3. /\ g.of \in DOMAIN Sections /\ g = ParsedFile(Sections[g.of], g.of)
      /\ Left(g) \/ Taken(g)
  BY <1>2, JudgedFile
<1>4. patch \in Patches
  BY DEF InputInvariant, InputTypes
<1>5. f \in FileOf(g.of)
  BY <1>1, <1>2 DEF FileOf
<1>6. f = g \/ f = Cut(g)
  BY <1>3, <1>5 DEF Left, Taken
<1> DEFINE section == Sections[g.of]
           X == ToSet(section)
           headers == HeadersOf(section)
           hunks == HunksOf(section)
<1>7. /\ \A x \in X : x.begins \in Nat
      /\ headers \in Seq(X) /\ hunks \in Seq(Seq(X))
      /\ \A h \in DOMAIN hunks : hunks[h] # <<>>
  BY <1>3, <1>4, SectionLines
<1>8. g.headers = headers /\ g.hunks = hunks /\ IsSequence(g.hunks)
  <2>1. \A n, s : ParsedFile(s, n).hunks = HunksOf(s)
    BY DEF ParsedFile
  <2> QED
    BY <1>3, <1>4, <2>1, ParsedFileFacts
<1>9. \E m \in 0..Len(hunks) : f.headers = headers /\ f.hunks = SubSeq(hunks, 1, m)
  <2>1. CASE f = g
    <3>1. Len(hunks) \in 0..Len(hunks) /\ SubSeq(hunks, 1, Len(hunks)) = hunks
      <4> HIDE DEF hunks, X
      <4> QED
        BY <1>7
    <3> QED
      BY <1>8, <2>1, <3>1
  <2>2. CASE f = Cut(g)
    <3>1. PICK m \in 0..Len(g.hunks) : Cut(g) = FirstHunks(g, m)
      BY <1>8, KeptFacts
    <3>2. FirstHunks(g, m) = [g EXCEPT !.hunks = SubSeq(hunks, 1, m)]
      BY <1>8 DEF FirstHunks
    <3>3. FirstHunks(g, m).headers = headers /\ FirstHunks(g, m).hunks = SubSeq(hunks, 1, m)
      <4> PICK some : some = SubSeq(hunks, 1, m)
        OBVIOUS
      <4>1. LET e == [ParsedFile(section, g.of) EXCEPT !.hunks = some]
            IN  e.headers = headers /\ e.hunks = some
        BY <1>3, <1>4, ParsedFileFacts
      <4> QED
        BY <1>3, <3>2, <4>1
    <3> QED
      BY <1>8, <2>2, <3>1, <3>3
  <2> QED
    BY <1>6, <2>1, <2>2
<1> HIDE DEF section, X, headers, hunks
<1>10. PICK m \in 0..Len(hunks) : f.headers = headers /\ f.hunks = SubSeq(hunks, 1, m)
  BY <1>9
<1>11. /\ SubSeq(hunks, 1, m) \in Seq(Seq(X))
       /\ \A h \in DOMAIN SubSeq(hunks, 1, m) :
            h \in DOMAIN hunks /\ SubSeq(hunks, 1, m)[h] = hunks[h]
  BY <1>7
<1>12. f.hunks \in Seq(Seq(X)) /\ \A h \in DOMAIN f.hunks : f.hunks[h] # <<>>
  BY <1>7, <1>10, <1>11
<1> QED
  BY <1>7, <1>10, <1>12, TextsFacts

MarksTyped ==
  \A f \in DOMAIN marks : marks[f] \in [DOMAIN Texts(included[f]) -> SUBSET (1..keys)]

\* What redaction has done so far, and the statuses.
Redactions ==
  /\ \A p \in DOMAIN statuses :
       statuses[p] \in {"fully_reviewed", "partially_included", "skipped"}
  /\ keys \in Nat /\ IsSequence(marks)
  /\ stage \notin {"redact", "done"} => marks = <<>>
  /\ stage = "redact" => Len(marks) = next - 1
  /\ Len(marks) <= Len(included)
  /\ MarksTyped
  /\ KeysHaveOneMarker

\* What KeysHaveOneMarker says of text i of file f.
TextMarked(texts, numbers, f, i) ==
  /\ \A b \in DOMAIN texts :
       OpensNumbered(texts[b]) /\ InKeyOf(texts, b, i) => numbers[f][i] = {Max(numbers[f][b])}
  /\ ~(\E b \in DOMAIN texts : Opens(texts[b]) /\ InKeyOf(texts, b, i)) =>
       Cardinality(numbers[f][i]) = texts[i].begins
  /\ \A g \in 1 .. f : \A j \in DOMAIN numbers[g] :
       (g < f \/ j < i) /\ numbers[g][j] \cap numbers[f][i] # {} =>
         \E b \in DOMAIN texts :
           /\ Opens(texts[b]) /\ InKeyOf(texts, b, i)
           /\ \/ g = f /\ b <= j
              \/ /\ texts[b].begins = 0
                 /\ ~\E c \in DOMAIN texts :
                      OpensNumbered(texts[c]) /\ InKeyOf(texts, c, b)

LEMMA TextsMarked ==
  ASSUME \A f \in DOMAIN marks' : \A i \in DOMAIN Texts(included'[f]) :
           TextMarked(Texts(included'[f]), marks', f, i)
  PROVE  KeysHaveOneMarker'
BY Zenon DEF TextMarked, KeysHaveOneMarker

LEMMA RedactFileStep == ASSUME InputInvariant, Redactions, RedactFile PROVE Redactions'
<1> DEFINE file == included[next]
           r == Redact(file)
           c == Len(marks)
<1>1. /\ stage = "redact" /\ stage' = stage /\ next' = next + 1 /\ next <= Len(included)
      /\ keys' = r.keys /\ marks' = Append(marks, r.marks)
      /\ UNCHANGED <<included, statuses>>
  BY DEF RedactFile
<1>2. /\ next \in Nat \ {0} /\ IsSequence(included) /\ keys \in Nat /\ IsSequence(marks)
      /\ c = next - 1 /\ MarksTyped /\ KeysHaveOneMarker
      /\ \A p \in DOMAIN statuses :
           statuses[p] \in {"fully_reviewed", "partially_included", "skipped"}
  BY <1>1 DEF InputInvariant, InputTypes, Redactions
<1>3. Len(included) \in Nat /\ DOMAIN included = 1..Len(included)
  BY <1>2 DEF IsSequence
<1>4. file \in ToSet(included)
  BY <1>1, <1>2, <1>3 DEF ToSet
<1>5. PICK n \in Nat : \E T : Numbered(T) /\ Texts(file) \in [1..n -> T]
  <2> HIDE DEF file
  <2> QED
    BY <1>4, IncludedTexts
<1> PICK T : Numbered(T) /\ Texts(file) \in [1..n -> T]
  BY <1>5
<1>6. PICK texts : texts = Texts(file) /\ texts \in [1..n -> T]
  OBVIOUS
<1>7. r = Redaction([keys |-> keys, marker |-> 0, marks |-> <<>>], texts)
  BY <1>6, Zenon DEF Redact, Redaction
<1>8. Redacts(n, texts, keys, r)
  <2> HIDE DEF r
  <2>1. Redacts(n, texts, keys, Redaction([keys |-> keys, marker |-> 0, marks |-> <<>>], texts))
    BY <1>2, <1>6, RedactFacts
  <2> QED
    BY <1>7, <2>1
<1> HIDE DEF r, file
<1> PICK m : m = r.marks
  OBVIOUS
<1>9. /\ IsSequence(marks') /\ Len(marks') = c + 1 /\ DOMAIN marks' = 1..(c + 1)
      /\ DOMAIN marks = 1..c /\ c \in Nat
      /\ \A f \in 1..c : marks'[f] = marks[f]
      /\ marks'[c + 1] = m
  BY <1>1, <1>2, AppendFacts
<1>10. included' = included /\ included[c + 1] = file /\ c + 1 = next
  BY <1>1, <1>2 DEF file
<1>11. \A f \in 1..c : marks[f] \in [DOMAIN Texts(included[f]) -> SUBSET (1..keys)]
  BY <1>2, <1>9 DEF MarksTyped
<1>12. /\ DOMAIN texts = 1..n /\ m \in [1..n -> SUBSET (1..r.keys)]
       /\ r.keys \in Nat /\ keys <= r.keys
  BY <1>6, <1>8 DEF Redacts
<1>13. MarksTyped'
  <2>1. MarksTyped' <=> \A f \in DOMAIN marks' :
          marks'[f] \in [DOMAIN Texts(included'[f]) -> SUBSET (1..keys')]
    BY DEF MarksTyped, Texts
  <2>2. ASSUME NEW f \in 1..(c + 1)
        PROVE  marks'[f] \in [DOMAIN Texts(included[f]) -> SUBSET (1..r.keys)]
    <3>1. CASE f = c + 1
      <4>1. marks'[f] = m /\ included[f] = file
        BY <1>9, <1>10, <3>1
      <4>2. DOMAIN Texts(file) = 1..n
        BY <1>6, <1>12
      <4> QED
        BY <1>12, <4>1, <4>2
    <3>2. CASE f # c + 1
      <4>1. f \in 1..c
        BY <1>9, <3>2
      <4>2. SUBSET (1..keys) \subseteq SUBSET (1..r.keys)
        BY <1>2, <1>12
      <4> QED
        BY <1>9, <1>11, <4>1, <4>2
    <3> QED
      BY <3>1, <3>2
  <2> QED
    BY <1>1, <1>9, <2>1, <2>2
<1>14. KeysHaveOneMarker'
  <2> SUFFICES ASSUME NEW f \in 1..(c + 1), NEW i \in DOMAIN Texts(included[f])
               PROVE  TextMarked(Texts(included[f]), marks', f, i)
    BY <1>9, <1>10, TextsMarked
  <2>1. CASE f # c + 1
    <3>1. f \in 1..c /\ marks'[f] = marks[f] /\ \A g \in 1..f : g \in 1..c /\ marks'[g] = marks[g]
      BY <1>9, <2>1
    <3>2. TextMarked(Texts(included[f]), marks, f, i)
      BY <1>2, <1>9, <3>1 DEF KeysHaveOneMarker, TextMarked
    <3> QED
      BY <3>1, <3>2 DEF TextMarked
  <2>2. CASE f = c + 1
    <3>1. /\ marks'[f] = m /\ Texts(included[f]) = texts /\ DOMAIN texts = 1..n /\ i \in 1..n
          /\ DOMAIN m = 1..n /\ f \in Nat
      BY <1>6, <1>9, <1>10, <1>12, <2>2
    <3>2. ASSUME NEW g \in 1..f, NEW j \in DOMAIN marks'[g],
                 g < f \/ j < i, marks'[g][j] \cap m[i] # {}
          PROVE  \E b \in DOMAIN texts :
                   /\ Opens(texts[b]) /\ InKeyOf(texts, b, i)
                   /\ \/ g = f /\ b <= j
                      \/ /\ texts[b].begins = 0
                         /\ ~\E e \in DOMAIN texts :
                              OpensNumbered(texts[e]) /\ InKeyOf(texts, e, b)
      <4>1. CASE g = f
        <5>1. j \in 1 .. i - 1 /\ m[j] \cap m[i] # {}
          BY <3>1, <3>2, <4>1
        <5>2. SharedBy(n, texts, i, j)
          BY <1>8, <3>1, <5>1 DEF Redacts
        <5> QED
          BY <3>1, <4>1, <5>2 DEF SharedBy
      <4>2. CASE g # f
        <5>1. g \in 1..c /\ marks'[g] = marks[g]
          BY <1>9, <2>2, <4>2
        <5>2. marks[g] \in [DOMAIN Texts(included[g]) -> SUBSET (1..keys)]
          BY <1>11, <5>1
        <5>3. marks[g][j] \in SUBSET (1..keys)
          BY <3>2, <5>1, <5>2
        <5>4. PICK x \in m[i] : x \in 1..keys
          BY <3>2, <5>1, <5>3
        <5>5. x <= keys
          BY <1>2, <5>4
        <5>6. SharedBy(n, texts, i, 0)
          BY <1>8, <3>1, <5>4, <5>5 DEF Redacts
        <5>7. \A b \in 1..n : ~(b <= 0)
          OBVIOUS
        <5> QED
          BY <3>1, <5>6, <5>7 DEF SharedBy
      <4> QED
        BY <4>1, <4>2
    <3>3. /\ \A b \in 1..n :
               OpensNumbered(texts[b]) /\ InKeyOf(texts, b, i) => m[i] = {Max(m[b])}
          /\ ~(\E b \in 1..n : Opens(texts[b]) /\ InKeyOf(texts, b, i)) =>
               Cardinality(m[i]) = texts[i].begins
      BY <1>8, <3>1 DEF Redacts
    <3> QED
      BY <3>1, <3>2, <3>3 DEF TextMarked
  <2> QED
    BY <2>1, <2>2
<1>15. Len(marks') <= Len(included')
  BY <1>1, <1>9, <1>10
<1> QED
  BY <1>1, <1>2, <1>9, <1>10, <1>12, <1>13, <1>14, <1>15 DEF Redactions

\* Before redaction there are no marks.
LEMMA NoMarks ==
  ASSUME marks = <<>>, IsSequence(included)
  PROVE  /\ IsSequence(marks) /\ Len(marks) = 0 /\ Len(marks) <= Len(included)
         /\ MarksTyped /\ KeysHaveOneMarker
<1>1. DOMAIN marks = {} /\ Len(marks) = 0
  OBVIOUS
<1>2. IsSequence(marks)
  BY EmptySequence
<1>3. Len(included) \in Nat
  BY DEF IsSequence
<1> QED
  BY <1>1, <1>2, <1>3 DEF MarksTyped, KeysHaveOneMarker

LEMMA StatusesTyped ==
  ASSUME NEW path, NEW status \in {"fully_reviewed", "partially_included", "skipped"},
         \A p \in DOMAIN statuses :
           statuses[p] \in {"fully_reviewed", "partially_included", "skipped"}
  PROVE  \A p \in DOMAIN WithStatus(path, status) :
           WithStatus(path, status)[p] \in {"fully_reviewed", "partially_included", "skipped"}
BY DEF WithStatus

LEMMA RedactionsNext ==
  ASSUME InputInvariant, Redactions, InputInvariant', [Next]_vars PROVE Redactions'
<1> DEFINE Typed == \A p \in DOMAIN statuses :
                      statuses[p] \in {"fully_reviewed", "partially_included", "skipped"}
<1>1. IsSequence(included) /\ IsSequence(included)'
  BY DEF InputInvariant, InputTypes
<1>2. Typed /\ keys \in Nat
  BY DEF Redactions
<1>3. ASSUME marks = <<>>, UNCHANGED <<marks, keys>>, Typed',
             stage' = "redact" => next' = 1
      PROVE  Redactions'
  <2>1. marks' = <<>>
    BY <1>3
  <2>2. /\ IsSequence(marks)' /\ Len(marks') = 0 /\ Len(marks') <= Len(included')
        /\ MarksTyped' /\ KeysHaveOneMarker'
    <3>1. DOMAIN marks' = {} /\ Len(marks') = 0
      BY <2>1
    <3>2. IsSequence(marks)' /\ Len(included') \in Nat
      BY <1>1, <2>1, EmptySequence DEF IsSequence
    <3> QED
      BY <3>1, <3>2 DEF MarksTyped, KeysHaveOneMarker
  <2> QED
    BY <1>2, <1>3, <2>1, <2>2 DEF Redactions
<1>4. CASE Split \/ ParseSection \/ Parsed
  <2>1. /\ stage \in {"split", "parse"} /\ stage' # "redact"
        /\ UNCHANGED <<marks, keys, statuses>>
    BY <1>4 DEF Split, ParseSection, Parsed
  <2>2. marks = <<>>
    BY <2>1 DEF Redactions
  <2> QED
    BY <1>2, <1>3, <2>1, <2>2
<1>5. CASE FilterFile
  <2>1. stage = "filter" /\ stage' = stage /\ UNCHANGED <<marks, keys>>
    BY <1>5 DEF FilterFile
  <2>2. PICK status \in {"fully_reviewed", "partially_included", "skipped"} :
          statuses' = WithStatus(parsed[next].path, status)
    BY <1>5 DEF FilterFile, Skip, Whole, Partly
  <2>3. Typed'
    BY <1>2, <2>2, StatusesTyped
  <2>4. marks = <<>>
    BY <2>1 DEF Redactions
  <2> QED
    BY <1>3, <2>1, <2>3, <2>4
<1>6. CASE Filtered
  <2>1. stage = "filter" /\ next' = 1 /\ UNCHANGED <<marks, keys>> /\ statuses' = DefaultStatuses
    BY <1>6 DEF Filtered
  <2>2. Typed'
    BY <1>2, <2>1 DEF DefaultStatuses
  <2>3. marks = <<>>
    BY <2>1 DEF Redactions
  <2> QED
    BY <1>3, <2>1, <2>2, <2>3
<1>7. CASE RedactFile
  BY <1>7, RedactFileStep
<1>8. ASSUME UNCHANGED <<marks, keys, included>> PROVE MarksTyped' /\ KeysHaveOneMarker'
  <2>1. MarksTyped'
    <3>1. MarksTyped' <=> \A f \in DOMAIN marks' :
            marks'[f] \in [DOMAIN Texts(included'[f]) -> SUBSET (1..keys')]
      BY DEF MarksTyped, Texts
    <3>2. \A f \in DOMAIN marks : marks[f] \in [DOMAIN Texts(included[f]) -> SUBSET (1..keys)]
      BY DEF Redactions, MarksTyped
    <3> QED
      BY <1>8, <3>1, <3>2
  <2>2. \A f \in DOMAIN marks : \A i \in DOMAIN Texts(included[f]) :
          TextMarked(Texts(included[f]), marks, f, i)
    BY DEF Redactions, KeysHaveOneMarker, TextMarked
  <2>3. KeysHaveOneMarker'
    BY <1>8, <2>2, TextsMarked
  <2> QED
    BY <2>1, <2>3
<1>9. CASE Redacted
  BY <1>8, <1>9 DEF Redacted, Redactions, IsSequence
<1>10. CASE UNCHANGED vars
  BY <1>8, <1>10 DEF vars, Redactions, IsSequence
<1> QED
  BY <1>4, <1>5, <1>6, <1>7, <1>9, <1>10 DEF Next

LEMMA RedactionsHold == Spec => [](InputInvariant /\ Redactions)
<1>1. Init => Redactions
  <2> SUFFICES ASSUME Init PROVE Redactions
    OBVIOUS
  <2>1. marks = <<>> /\ keys = 0 /\ stage = "split" /\ statuses = <<>> /\ included = <<>>
    BY DEF Init
  <2>2. IsSequence(included) /\ DOMAIN statuses = {}
    BY <2>1, EmptySequence
  <2> QED
    BY <2>1, <2>2, NoMarks DEF Redactions
<1>2. InputInvariant /\ Redactions /\ InputInvariant' /\ [Next]_vars => Redactions'
  BY RedactionsNext
<1> QED
  BY <1>1, <1>2, InputInvariantHolds, PTL DEF Spec

LEMMA InvariantGivesInputTypes == ASSUME InputInvariant, Redactions PROVE TypeOK
<1>1. \A f \in ToSet(parsed) : f.of \in DOMAIN Sections
  BY DEF InputInvariant, SectionsParsed, ToSet
<1>2. \A k \in Judged : parsed[k].of \in DOMAIN Sections
  BY DEF InputInvariant, SectionsParsed, Judged
<1>3. \A f \in ToSet(included) : f.of \in DOMAIN Sections
  BY <1>2 DEF InputInvariant, Origins
<1>4. \A i \in ToSet(items) : i.of # 0 => i.of \in DOMAIN Sections
  BY <1>2 DEF InputInvariant, Origins, Unparsed
<1> QED
  BY <1>1, <1>3, <1>4 DEF InputInvariant, InputTypes, Redactions, MarksTyped, TypeOK

\* The types hold for every patch: a file or item comes from a section of it, and exactly
\* the texts of the files redacted have marks.
THEOREM InputTypesHold == Spec => []TypeOK
<1>1. InputInvariant /\ Redactions => TypeOK
  BY InvariantGivesInputTypes
<1> QED
  BY <1>1, RedactionsHold, PTL

\* However its lines are spread over hunks, and whether it ends or not, a private key has one
\* number from the line that opens it on, and texts outside of keys keep all else.  No two
\* matches share a number, in one file or in two, unless they are in one key or the later is
\* in an encrypted key.
THEOREM MarkersHold == Spec => []KeysHaveOneMarker
<1>1. Redactions => KeysHaveOneMarker
  BY DEF Redactions
<1> QED
  BY <1>1, RedactionsHold, PTL

=============================================================================
