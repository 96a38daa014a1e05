---------------------------- MODULE ChunkingProofs ----------------------------
(***************************************************************************)
(* Proofs about module Chunking, for every set of pull requests and every  *)
(* value of the limits: the types, and that no chunk, no number of chunks  *)
(* and no sum of chunks exceeds its limit.                                 *)
(***************************************************************************)
EXTENDS Chunking, TLAPS

Lines == SUBSET (Pos \X Pos \X Pos)

\* The lines of a file and of a hunk are positions.
LEMMA LinesType ==
  ASSUME pr \in Seq(DiffFile), NEW i \in DOMAIN pr
  PROVE  /\ FileLines(i) \in Lines
         /\ \A j \in DOMAIN pr[i].hunks : HunkLines(i, j) \in Lines
<1>1. i \in Pos
  BY DEF Pos
<1>2. pr[i] \in DiffFile
  OBVIOUS
<1>3. \A j \in DOMAIN pr[i].hunks :
        /\ j \in Pos
        /\ DOMAIN pr[i].hunks[j].lines \subseteq Pos
  <2>1. pr[i].hunks \in Seq(DiffHunk)
    BY <1>2 DEF DiffFile
  <2> DEFINE hs == pr[i].hunks
  <2>2. \A j \in DOMAIN hs : j \in Pos /\ hs[j] \in DiffHunk
    BY <2>1 DEF Pos
  <2>3. \A j \in DOMAIN hs : hs[j].lines \in Seq(DiffLine)
    BY <2>2 DEF DiffHunk
  <2>4. \A j \in DOMAIN hs : DOMAIN hs[j].lines \subseteq Pos
    <3> SUFFICES ASSUME NEW j \in DOMAIN hs
                 PROVE  DOMAIN hs[j].lines \subseteq Pos
      OBVIOUS
    <3> DEFINE ls == hs[j].lines
    <3>1. ls \in Seq(DiffLine)
      BY <2>3
    <3> HIDE DEF ls
    <3>2. DOMAIN ls \subseteq Pos
      BY <3>1 DEF Pos
    <3> QED
      BY <3>2 DEF ls
  <2> QED
    BY <2>2, <2>4
<1>4. \A j \in DOMAIN pr[i].hunks : HunkLines(i, j) \in Lines
  BY <1>1, <1>3 DEF HunkLines, Lines
<1>5. FileLines(i) \in Lines
  BY <1>4 DEF FileLines, Lines
<1> QED
  BY <1>4, <1>5

\* A fragment made of lines and of a positive estimate has the type of fragments.
LEMMA FragmentIsTyped ==
  ASSUME NEW i \in Pos, NEW j \in Nat, NEW lines \in Lines, NEW tokens \in Pos
  PROVE  Fragment(i, j, lines, tokens) \in FragmentType
<1>1. ChangedLines(lines) \in Lines
  BY DEF ChangedLines, Lines
<1> QED
  BY <1>1 DEF Fragment, FragmentType, Lines

\* Joining texts of positive estimates.
LEMMA JoinType ==
  ASSUME NEW a \in Nat, NEW t \in Pos
  PROVE  Join(a, t) \in Pos /\ Join(a, t) >= t
BY DEF Join, Pos

\* The files of the pull request, their hunks and their lines have their types.
LEMMA PRType ==
  ASSUME pr \in Seq(DiffFile), NEW i \in DOMAIN pr
  PROVE  /\ i \in Pos
         /\ pr[i].tokens \in Pos
         /\ pr[i].headers \in Pos
         /\ \A j \in DOMAIN pr[i].hunks :
              /\ j \in Pos
              /\ pr[i].hunks[j].header \in Pos
              /\ pr[i].hunks[j].tokens \in Pos
              /\ pr[i].hunks[j].lines \in Seq(DiffLine)
<1>1. pr[i] \in DiffFile /\ i \in Pos
  BY DEF Pos
<1>2. pr[i].hunks \in Seq(DiffHunk)
  BY <1>1 DEF DiffFile
<1> DEFINE hs == pr[i].hunks
<1>3. \A j \in DOMAIN hs : j \in Pos /\ hs[j] \in DiffHunk
  BY <1>2 DEF Pos
<1>4. \A j \in DOMAIN hs : /\ hs[j].header \in Pos
                           /\ hs[j].tokens \in Pos
                           /\ hs[j].lines \in Seq(DiffLine)
  BY <1>3 DEF DiffHunk
<1> QED
  BY <1>1, <1>3, <1>4 DEF DiffFile

\* The line a hunk is split at has its type.
LEMMA LineType ==
  ASSUME NEW lines \in Seq(DiffLine), NEW k \in DOMAIN lines
  PROVE  k \in Pos /\ lines[k].tokens \in Pos
<1>1. lines[k] \in DiffLine /\ k \in Pos
  BY DEF Pos
<1> QED
  BY <1>1 DEF DiffLine

-----------------------------------------------------------------------------
\* Closing a chunk.

PackedType == [chunks : Seq(ChunkType), cur : ChunkType, total : Nat]

LEMMA PackedIsTyped ==
  ASSUME TypeOK
  PROVE  /\ Packed \in PackedType
         /\ \A fragment \in FragmentType : MakeRoom(fragment) \in PackedType
         /\ \A packed \in PackedType : /\ Close(packed) \in PackedType
                                       /\ CloseLast(packed) \in PackedType
<1>1. Packed \in PackedType
  BY DEF Packed, PackedType, TypeOK
<1>2. ASSUME NEW packed \in PackedType
      PROVE  Close(packed) \in PackedType
  <2>1. Empty \in ChunkType
    BY DEF Empty, ChunkType
  <2>2. packed.cur.tokens \in Nat /\ packed.total \in Nat
    BY DEF PackedType, ChunkType
  <2>3. Append(packed.chunks, packed.cur) \in Seq(ChunkType)
    BY DEF PackedType
  <2> QED
    BY <2>1, <2>2, <2>3 DEF Close, PackedType
<1>3. ASSUME NEW packed \in PackedType
      PROVE  CloseLast(packed) \in PackedType
  BY <1>2 DEF CloseLast
<1>4. \A fragment \in FragmentType : MakeRoom(fragment) \in PackedType
  BY <1>1, <1>2 DEF MakeRoom
<1> QED
  BY <1>1, <1>2, <1>3, <1>4

-----------------------------------------------------------------------------
\* Type correctness.

LEMMA TypeInit == Init => TypeOK
<1> SUFFICES ASSUME Init PROVE TypeOK
  OBVIOUS
<1>1. pr \in Seq(DiffFile)
  BY PRsAssumption DEF Init
<1>2. /\ fragments \in Seq(FragmentType)
      /\ cur \in ChunkType
      /\ chunks \in Seq(ChunkType)
  BY DEF Init, Empty, ChunkType
<1>3. part \in [lines : SUBSET (Pos \X Pos \X Pos), tokens : Nat] /\ part.lines = {}
  BY DEF Init, NoPart
<1> QED
  BY <1>1, <1>2, <1>3 DEF Init, TypeOK, Pos

\* What a skipped fragment or line becomes.
LEMMA SkipIsTyped ==
  ASSUME NEW i \in Pos, NEW j \in Nat, NEW lines \in Lines,
         NEW reason \in {"chunk_input_limit", "chunk_budget_limit"}
  PROVE  Skip(i, j, lines, reason) \in SkipType
BY DEF Skip, SkipType, Lines

LEMMA FragmentFields ==
  ASSUME NEW fragment \in FragmentType
  PROVE  /\ fragment.file \in Pos
         /\ fragment.hunk \in Nat
         /\ fragment.lines \in Lines
         /\ fragment.tokens \in Pos
BY DEF FragmentType, Lines

LEMMA PartIsTyped ==
  ASSUME TypeOK, stage = "lines", part.lines # {}
  PROVE  PartFragment \in FragmentType
<1>1. f \in Pos /\ h \in Nat /\ part.lines \in Lines /\ part.tokens \in Pos
  BY DEF TypeOK, Pos, Lines
<1> QED
  BY <1>1, FragmentIsTyped DEF PartFragment

\* The steps that turn files into fragments keep the types.
LEMMA TypeFragmenting ==
  ASSUME TypeOK,
         ChunkComplete \/ ChunkByFile \/ KeepFile \/ SplitFile \/ KeepHunk
           \/ SkipHunk \/ SplitHunk \/ EndFile \/ EndFiles
  PROVE  TypeOK'
<1>1. CASE ChunkComplete
  <2>1. \A i \in DOMAIN pr : WholeFile(i) \in FragmentType
    <3> SUFFICES ASSUME NEW i \in DOMAIN pr PROVE WholeFile(i) \in FragmentType
      OBVIOUS
    <3>1. pr \in Seq(DiffFile)
      BY DEF TypeOK
    <3>2. i \in Pos /\ pr[i].tokens \in Pos /\ FileLines(i) \in Lines /\ 0 \in Nat
      BY <3>1, PRType, LinesType
    <3> QED
      BY <3>2, FragmentIsTyped DEF WholeFile
  <2>2. fragments' \in Seq(FragmentType)
    BY <1>1, <2>1 DEF ChunkComplete, TypeOK
  <2> QED
    BY <1>1, <2>2 DEF ChunkComplete, TypeOK
<1>2. CASE ChunkByFile
  BY <1>2 DEF ChunkByFile, TypeOK
<1>3. CASE KeepFile
  <2>1. WholeFile(f) \in FragmentType
    <3>1. pr \in Seq(DiffFile) /\ f \in DOMAIN pr
      BY <1>3 DEF KeepFile, TypeOK
    <3>2. f \in Pos /\ pr[f].tokens \in Pos /\ FileLines(f) \in Lines /\ 0 \in Nat
      BY <3>1, PRType, LinesType
    <3> QED
      BY <3>2, FragmentIsTyped DEF WholeFile
  <2>2. fragments' \in Seq(FragmentType) /\ f' \in Pos
    BY <1>3, <2>1 DEF KeepFile, TypeOK, Pos
  <2> QED
    BY <1>3, <2>2 DEF KeepFile, TypeOK
<1>4. CASE SplitFile
  BY <1>4 DEF SplitFile, TypeOK, Pos
<1>5. CASE KeepHunk
  <2> DEFINE tokens == Join(pr[f].headers, pr[f].hunks[h].tokens)
             new == Fragment(f, h, HunkLines(f, h), tokens)
  <2>1. pr \in Seq(DiffFile) /\ f \in DOMAIN pr /\ h \in DOMAIN pr[f].hunks
    BY <1>5 DEF KeepHunk, TypeOK
  <2>2. f \in Pos /\ h \in Pos /\ HunkLines(f, h) \in Lines
    BY <2>1, PRType, LinesType
  <2>3. pr[f].headers \in Pos /\ pr[f].hunks[h].tokens \in Pos
    BY <2>1, PRType
  <2>4. tokens \in Pos
    BY <2>3, JoinType DEF Pos
  <2>5. h \in Nat
    BY <2>2 DEF Pos
  <2> HIDE DEF tokens
  <2>6. new \in FragmentType
    BY <2>2, <2>4, <2>5, FragmentIsTyped
  <2>7. fragments' = Append(fragments, new) /\ h' = h + 1
    BY <1>5 DEF KeepHunk, tokens
  <2> HIDE DEF new
  <2>8. fragments' \in Seq(FragmentType) /\ h' \in Pos
    BY <2>2, <2>6, <2>7 DEF TypeOK, Pos
  <2> QED
    BY <1>5, <2>8 DEF KeepHunk, TypeOK
<1>6. CASE SkipHunk
  <2>1. pr \in Seq(DiffFile) /\ f \in DOMAIN pr /\ h \in DOMAIN pr[f].hunks
    BY <1>6 DEF SkipHunk, HunkTooLarge, TypeOK
  <2>2. f \in Pos /\ h \in Pos /\ HunkLines(f, h) \in Lines
    BY <2>1, PRType, LinesType
  <2>3. Skip(f, h, HunkLines(f, h), "chunk_input_limit") \in SkipType
    BY <2>2, SkipIsTyped DEF Pos
  <2>4. skipped' \in SUBSET SkipType /\ h' \in Pos
    BY <1>6, <2>2, <2>3 DEF SkipHunk, TypeOK, Pos
  <2> QED
    BY <1>6, <2>4 DEF SkipHunk, HunkTooLarge, TypeOK
<1>7. CASE SplitHunk
  <2>1. part' \in [lines : SUBSET (Pos \X Pos \X Pos), tokens : Nat] /\ part'.lines = {}
    BY <1>7 DEF SplitHunk, NoPart
  <2> QED
    BY <1>7, <2>1 DEF SplitHunk, HunkTooLarge, TypeOK, Pos
<1>8. CASE EndFile
  <2>1. pr \in Seq(DiffFile) /\ f \in DOMAIN pr
    BY <1>8 DEF EndFile, TypeOK
  <2>2. f \in Pos /\ 0 \in Nat /\ {} \in Lines
    BY <2>1, PRType DEF Lines
  <2>3. Skip(f, 0, {}, "chunk_input_limit") \in SkipType
    BY <2>2, SkipIsTyped
  <2>4. skipped' \in SUBSET SkipType /\ f' \in Pos
    BY <1>8, <2>2, <2>3 DEF EndFile, TypeOK, Pos
  <2> QED
    BY <1>8, <2>4 DEF EndFile, TypeOK
<1>9. CASE EndFiles
  BY <1>9 DEF EndFiles, TypeOK
<1> QED
  BY <1>1, <1>2, <1>3, <1>4, <1>5, <1>6, <1>7, <1>8, <1>9

\* The steps that split a hunk at its lines keep the types.
LEMMA TypeSplitting ==
  ASSUME TypeOK, SplitLine \/ EndHunk
  PROVE  TypeOK'
<1>0. stage = "lines" /\ pr \in Seq(DiffFile) /\ f \in DOMAIN pr /\ h \in DOMAIN pr[f].hunks
  BY DEF SplitLine, EndHunk, TypeOK
<1>1. /\ f \in Pos /\ h \in Pos /\ h \in Nat
      /\ pr[f].headers \in Pos /\ pr[f].hunks[h].header \in Pos
      /\ pr[f].hunks[h].lines \in Seq(DiffLine)
  BY <1>0, PRType DEF Pos
<1>2. part.lines # {} => Append(fragments, PartFragment) \in Seq(FragmentType)
  <2>1. fragments \in Seq(FragmentType)
    BY DEF TypeOK
  <2> QED
    BY <1>0, <2>1, PartIsTyped
<1>3. CASE SplitLine
  <2> DEFINE ls == pr[f].hunks[h].lines
             tokens == ls[l].tokens
             open == IF PartFull(tokens) THEN NoPart ELSE part
             candidate == (IF open.lines = {} THEN Prefix ELSE open.tokens) + 1 + tokens
             PartType == [lines : Lines, tokens : Nat]
  <2>1. l \in Pos /\ tokens \in Pos
    BY <1>1, <1>3, LineType DEF SplitLine
  <2>2. Prefix \in Pos
    BY <1>1, JoinType DEF Prefix, Pos
  <2>3. part \in PartType /\ NoPart \in PartType
    BY DEF TypeOK, NoPart, Lines
  <2>4. open \in PartType /\ (open.lines # {} => open.tokens \in Pos)
    BY <2>3 DEF TypeOK, NoPart
  <2> HIDE DEF open
  <2>5. candidate \in Pos
    BY <2>1, <2>2, <2>4 DEF Pos
  <2>6. fragments' \in Seq(FragmentType)
    BY <1>2, <1>3 DEF SplitLine, PartFull, TypeOK
  <2>7. {<<f, h, l>>} \in Lines
    BY <1>1, <2>1 DEF Lines
  <2>8. Skip(f, h, {<<f, h, l>>}, "chunk_input_limit") \in SkipType
    BY <1>1, <2>7, SkipIsTyped
  <2>9. /\ candidate > Budget =>
             /\ skipped' = skipped \cup {Skip(f, h, {<<f, h, l>>}, "chunk_input_limit")}
             /\ part' = open
        /\ ~(candidate > Budget) =>
             /\ skipped' = skipped
             /\ part' = [lines |-> open.lines \cup {<<f, h, l>>}, tokens |-> candidate]
    <3>1. \/ /\ candidate > Budget
             /\ skipped' = skipped \cup {Skip(f, h, {<<f, h, l>>}, "chunk_input_limit")}
             /\ part' = open
          \/ /\ ~(candidate > Budget)
             /\ skipped' = skipped
             /\ part' = [lines |-> open.lines \cup {<<f, h, l>>}, tokens |-> candidate]
      BY <1>3, Zenon DEF SplitLine, open
    <3> HIDE DEF candidate, tokens
    <3> QED
      BY <3>1
  <2> HIDE DEF candidate, tokens
  <2>10. skipped' \in SUBSET SkipType
    BY <2>8, <2>9 DEF TypeOK
  <2>11. part' \in PartType /\ (part'.lines # {} => part'.tokens \in Pos)
    <3>1. CASE candidate > Budget
      BY <2>4, <2>9, <3>1
    <3>2. CASE ~(candidate > Budget)
      <4>1. open.lines \cup {<<f, h, l>>} \in Lines
        BY <2>4, <2>7 DEF Lines
      <4>2. candidate \in Nat
        BY <2>5 DEF Pos
      <4> QED
        BY <2>5, <2>9, <3>2, <4>1, <4>2
    <3> QED
      BY <3>1, <3>2
  <2>12. l' \in Pos
    <3>1. l' = l + 1
      BY <1>3, Zenon DEF SplitLine
    <3> QED
      BY <2>1, <3>1 DEF Pos
  <2> QED
    BY <1>3, <2>6, <2>10, <2>11, <2>12 DEF SplitLine, TypeOK, Lines
<1>4. CASE EndHunk
  <2>1. fragments' \in Seq(FragmentType)
    BY <1>2, <1>4 DEF EndHunk, TypeOK
  <2>2. part' \in [lines : SUBSET (Pos \X Pos \X Pos), tokens : Nat] /\ part'.lines = {}
    BY <1>4 DEF EndHunk, NoPart
  <2>3. h' \in Pos
    BY <1>1, <1>4 DEF EndHunk, Pos
  <2> QED
    BY <1>0, <1>4, <2>1, <2>2, <2>3 DEF EndHunk, TypeOK
<1> QED
  BY <1>3, <1>4

\* The steps of the packing loop keep the types.
LEMMA TypePacking ==
  ASSUME TypeOK, Pack \/ Cut \/ Finish
  PROVE  TypeOK'
<1>1. Packed \in PackedType /\ Empty \in ChunkType
  BY DEF TypeOK, Packed, PackedType, Empty, ChunkType
<1>2. ASSUME next \in DOMAIN fragments
      PROVE  /\ fragments[next] \in FragmentType
             /\ MakeRoom(fragments[next]) \in PackedType
             /\ CloseLast(MakeRoom(fragments[next])) \in PackedType
  <2>1. fragments[next] \in FragmentType
    BY <1>2 DEF TypeOK
  <2> QED
    BY <2>1, PackedIsTyped
<1>3. CASE Pack
  <2> DEFINE fragment == fragments[next]
             room == MakeRoom(fragment)
  <2>1. fragment \in FragmentType /\ room \in PackedType
    BY <1>2, <1>3 DEF Pack
  <2>2. /\ fragment.file \in Pos /\ fragment.hunk \in Nat
        /\ fragment.lines \in Lines /\ fragment.tokens \in Pos
    BY <2>1, FragmentFields
  <2>3. /\ chunks' = room.chunks
        /\ total' = room.total
        /\ next' = next + 1
        /\ fragment.tokens > Budget =>
             /\ skipped' = skipped \cup {Skip(fragment.file, fragment.hunk, fragment.lines,
                                              "chunk_input_limit")}
             /\ cur' = room.cur
        /\ ~(fragment.tokens > Budget) =>
             /\ skipped' = skipped
             /\ cur' = [items  |-> Append(room.cur.items, next),
                        tokens |-> Join(room.cur.tokens, fragment.tokens)]
    BY <1>3 DEF Pack
  <2> HIDE DEF fragment, room
  <2>4. /\ room.chunks \in Seq(ChunkType)
        /\ room.total \in Nat
        /\ room.cur \in ChunkType
        /\ room.cur.items \in Seq(Pos)
        /\ room.cur.tokens \in Nat
    BY <2>1 DEF PackedType, ChunkType
  <2>5. Skip(fragment.file, fragment.hunk, fragment.lines, "chunk_input_limit") \in SkipType
    BY <2>2, SkipIsTyped
  <2>6. skipped' \in SUBSET SkipType
    BY <2>3, <2>5 DEF TypeOK
  <2>7. cur' \in ChunkType
    <3>1. Join(room.cur.tokens, fragment.tokens) \in Nat
      BY <2>2, <2>4, JoinType DEF Pos
    <3>2. Append(room.cur.items, next) \in Seq(Pos)
      BY <2>4 DEF TypeOK
    <3>3. [items  |-> Append(room.cur.items, next),
           tokens |-> Join(room.cur.tokens, fragment.tokens)] \in ChunkType
      BY <3>1, <3>2 DEF ChunkType
    <3> QED
      BY <2>3, <2>4, <3>3
  <2>8. next' \in Pos
    BY <2>3 DEF TypeOK, Pos
  <2> QED
    BY <1>3, <2>3, <2>4, <2>6, <2>7, <2>8 DEF Pack, TypeOK
<1>4. CASE Cut
  <2> DEFINE last == CloseLast(MakeRoom(fragments[next]))
  <2>1. last \in PackedType
    BY <1>2, <1>4 DEF Cut
  <2>2. chunks' = last.chunks /\ total' = last.total /\ cur' = Empty
    BY <1>4 DEF Cut
  <2> HIDE DEF last
  <2>3. chunks' \in Seq(ChunkType) /\ total' \in Nat /\ cur' \in ChunkType
    BY <1>1, <2>1, <2>2 DEF PackedType
  <2>4. Omitted(next) \in SUBSET SkipType
    <3>0. fragments \in Seq(FragmentType) /\ next \in Nat /\ next >= 1
      BY DEF TypeOK, Pos
    <3>1. \A i \in next..Len(fragments) : fragments[i] \in FragmentType
      BY <3>0
    <3>2. \A i \in next..Len(fragments) :
            Skip(fragments[i].file, fragments[i].hunk, fragments[i].lines,
                 "chunk_budget_limit") \in SkipType
      BY <3>1, FragmentFields, SkipIsTyped
    <3> QED
      BY <3>2 DEF Omitted
  <2>5. skipped' \in SUBSET SkipType
    BY <1>4, <2>4 DEF Cut, TypeOK
  <2> QED
    BY <1>4, <2>3, <2>5 DEF Cut, TypeOK
<1>5. CASE Finish
  <2> DEFINE last == CloseLast(Packed)
  <2>1. last \in PackedType
    BY <1>1, PackedIsTyped
  <2>2. chunks' = last.chunks /\ total' = last.total /\ cur' = Empty
    BY <1>5 DEF Finish
  <2> HIDE DEF last
  <2>3. chunks' \in Seq(ChunkType) /\ total' \in Nat /\ cur' \in ChunkType
    BY <1>1, <2>1, <2>2 DEF PackedType
  <2> QED
    BY <1>5, <2>3 DEF Finish, TypeOK
<1> QED
  BY <1>3, <1>4, <1>5

LEMMA TypeNext == TypeOK /\ [Next]_vars => TypeOK'
<1> SUFFICES ASSUME TypeOK, [Next]_vars PROVE TypeOK'
  OBVIOUS
<1>1. CASE ChunkComplete \/ ChunkByFile \/ KeepFile \/ SplitFile \/ KeepHunk
             \/ SkipHunk \/ SplitHunk \/ EndFile \/ EndFiles
  BY <1>1, TypeFragmenting
<1>2. CASE SplitLine \/ EndHunk
  BY <1>2, TypeSplitting
<1>3. CASE Pack \/ Cut \/ Finish
  BY <1>3, TypePacking
<1>4. CASE UNCHANGED vars
  BY <1>4 DEF vars, TypeOK
<1> QED
  BY <1>1, <1>2, <1>3, <1>4 DEF Next, Done

\* Every variable keeps its type, for every set of pull requests and all limits.
THEOREM TypeCorrect == Spec => []TypeOK
BY TypeInit, TypeNext, PTL DEF Spec

-----------------------------------------------------------------------------
\* The limits.  WithinLimits is not inductive: that a chunk may still be closed
\* when the loop closes it follows from what the loop tested when the fragments
\* joined it, which OpenChunkHasRoom keeps.

Limits == WithinLimits /\ OpenChunkHasRoom

\* The same, of the three variables of a turn of the loop.
PackedWithin(packed) ==
  /\ Len(packed.chunks) <= MaxChunks
  /\ packed.total <= MaxTotal
  /\ \A i \in DOMAIN packed.chunks : packed.chunks[i].tokens <= Budget
  /\ packed.cur.tokens <= Budget
  /\ packed.total + packed.cur.tokens <= MaxTotal
  /\ IF packed.cur.items = <<>>
     THEN packed.cur.tokens = 0
     ELSE packed.cur.tokens > 0 /\ Len(packed.chunks) < MaxChunks

LEMMA PackedWithinIsLimits == Limits <=> PackedWithin(Packed)
BY DEF Limits, WithinLimits, OpenChunkHasRoom, PackedWithin, Packed

\* Closing the open chunk keeps the limits and leaves no chunk open.
LEMMA CloseWithin ==
  ASSUME NEW packed \in PackedType, PackedWithin(packed), packed.cur.items # <<>>
  PROVE  PackedWithin(Close(packed)) /\ Close(packed).cur = Empty
<1> DEFINE closed == Append(packed.chunks, packed.cur)
<1>1. /\ packed.chunks \in Seq(ChunkType)
      /\ packed.total \in Nat
      /\ packed.cur.tokens \in Nat
  BY DEF PackedType, ChunkType
<1>2. /\ Close(packed).chunks = closed
      /\ Close(packed).cur = Empty
      /\ Close(packed).total = packed.total + packed.cur.tokens
  BY DEF Close
<1>3. Len(closed) = Len(packed.chunks) + 1 /\ DOMAIN closed = 1..(Len(packed.chunks) + 1)
  BY <1>1
<1>4. \A i \in DOMAIN closed : closed[i].tokens <= Budget
  <2> SUFFICES ASSUME NEW i \in DOMAIN closed PROVE closed[i].tokens <= Budget
    OBVIOUS
  <2>1. CASE i \in DOMAIN packed.chunks
    BY <1>1, <2>1 DEF PackedWithin
  <2>2. CASE i = Len(packed.chunks) + 1
    BY <1>1, <2>2 DEF PackedWithin
  <2> QED
    BY <1>1, <1>3, <2>1, <2>2
<1>5. Empty.items = <<>> /\ Empty.tokens = 0
  BY DEF Empty
<1>6. Len(packed.chunks) < MaxChunks /\ packed.total + packed.cur.tokens <= MaxTotal
  BY DEF PackedWithin
<1>7. Budget \in Pos /\ MaxChunks \in Pos
  BY LimitsAssumption
<1> HIDE DEF closed
<1>8. Len(closed) <= MaxChunks
  BY <1>1, <1>3, <1>6, <1>7 DEF Pos
<1> QED
  BY <1>1, <1>2, <1>4, <1>5, <1>6, <1>7, <1>8 DEF PackedWithin, Pos

\* Making room keeps the limits, and in what is then open the fragment fits.
LEMMA RoomWithin ==
  ASSUME TypeOK, Limits, NEW fragment \in FragmentType
  PROVE  /\ PackedWithin(MakeRoom(fragment))
         /\ MakeRoom(fragment).cur.items # <<>> =>
              Join(MakeRoom(fragment).cur.tokens, fragment.tokens) <= Budget
<1>1. Packed \in PackedType /\ PackedWithin(Packed)
  BY PackedIsTyped, PackedWithinIsLimits
<1>2. Packed.cur = cur
  BY DEF Packed
<1>3. CASE cur.items # <<>> /\ Join(cur.tokens, fragment.tokens) > Budget
  <2>1. MakeRoom(fragment) = Close(Packed)
    BY <1>3 DEF MakeRoom
  <2>2. PackedWithin(Close(Packed)) /\ Close(Packed).cur = Empty
    BY <1>1, <1>2, <1>3, CloseWithin
  <2>3. Empty.items = <<>>
    BY DEF Empty
  <2> QED
    BY <2>1, <2>2, <2>3
<1>4. CASE ~(cur.items # <<>> /\ Join(cur.tokens, fragment.tokens) > Budget)
  <2>1. MakeRoom(fragment) = Packed
    BY <1>4 DEF MakeRoom
  <2>2. Join(cur.tokens, fragment.tokens) \in Pos
    <3>1. cur.tokens \in Nat /\ fragment.tokens \in Pos
      BY FragmentFields DEF TypeOK, ChunkType
    <3> QED
      BY <3>1, JoinType
  <2>3. Budget \in Pos
    BY LimitsAssumption
  <2>4. cur.items # <<>> => Join(cur.tokens, fragment.tokens) <= Budget
    BY <1>4, <2>2, <2>3 DEF Pos
  <2> QED
    BY <1>1, <1>2, <2>1, <2>4
<1> QED
  BY <1>3, <1>4

LEMMA CloseLastWithin ==
  ASSUME NEW packed \in PackedType, PackedWithin(packed)
  PROVE  LET last == CloseLast(packed)
         IN  /\ Len(last.chunks) <= MaxChunks
             /\ last.total <= MaxTotal
             /\ \A i \in DOMAIN last.chunks : last.chunks[i].tokens <= Budget
<1>1. CASE packed.cur.items # <<>> /\ Len(packed.chunks) < MaxChunks
  <2>1. CloseLast(packed) = Close(packed)
    BY <1>1 DEF CloseLast
  <2>2. PackedWithin(Close(packed))
    BY <1>1, CloseWithin
  <2> QED
    BY <2>1, <2>2 DEF PackedWithin
<1>2. CASE ~(packed.cur.items # <<>> /\ Len(packed.chunks) < MaxChunks)
  <2>1. CloseLast(packed) = packed
    BY <1>2 DEF CloseLast
  <2> QED
    BY <2>1 DEF PackedWithin
<1> QED
  BY <1>1, <1>2

LEMMA LimitsInit == Init => Limits
<1> SUFFICES ASSUME Init PROVE Limits
  OBVIOUS
<1>1. Budget \in Pos /\ MaxChunks \in Pos /\ MaxTotal \in Pos
  BY LimitsAssumption
<1>2. chunks = <<>> /\ cur.items = <<>> /\ cur.tokens = 0 /\ total = 0
  BY DEF Init, Empty
<1> QED
  BY <1>1, <1>2 DEF Limits, WithinLimits, OpenChunkHasRoom, Pos

LEMMA LimitsPack ==
  ASSUME TypeOK, Limits, Pack
  PROVE  Limits'
<1> DEFINE fragment == fragments[next]
           room == MakeRoom(fragment)
           joined == [items  |-> Append(room.cur.items, next),
                      tokens |-> Join(room.cur.tokens, fragment.tokens)]
<1>1. /\ fragment \in FragmentType
      /\ ~LimitReached(room, fragment)
      /\ chunks' = room.chunks
      /\ total' = room.total
      /\ \/ fragment.tokens > Budget /\ cur' = room.cur
         \/ ~(fragment.tokens > Budget) /\ cur' = joined
  BY DEF Pack, TypeOK
<1>2. /\ room \in PackedType
      /\ PackedWithin(room)
      /\ room.cur.items # <<>> => Join(room.cur.tokens, fragment.tokens) <= Budget
  BY <1>1, PackedIsTyped, RoomWithin
<1>3. fragment.tokens \in Pos
  BY <1>1, FragmentFields
<1> HIDE DEF fragment, room
<1>4. /\ room.chunks \in Seq(ChunkType)
      /\ room.total \in Nat
      /\ room.cur.items \in Seq(Pos)
      /\ room.cur.tokens \in Nat
  BY <1>2 DEF PackedType, ChunkType
<1>5. Packed' = [chunks |-> room.chunks, cur |-> cur', total |-> room.total]
  BY <1>1 DEF Packed
<1>6. CASE cur' = room.cur
  BY <1>1, <1>2, <1>6 DEF Limits, WithinLimits, OpenChunkHasRoom, PackedWithin
<1>7. CASE ~(fragment.tokens > Budget) /\ cur' = joined
  <2> DEFINE candidate == Join(room.cur.tokens, fragment.tokens)
  <2>1. candidate \in Pos
    BY <1>3, <1>4, JoinType
  <2>2. Budget \in Pos /\ MaxChunks \in Pos /\ MaxTotal \in Pos
    BY LimitsAssumption
  <2>3. candidate <= Budget
    <3>1. CASE room.cur.items = <<>>
      <4>1. room.cur.tokens = 0
        BY <1>2, <3>1 DEF PackedWithin
      <4> QED
        BY <1>3, <1>7, <2>2, <4>1 DEF Join, Pos
    <3> QED
      BY <1>2, <3>1
  <2> DEFINE extra == IF room.cur.items # <<>> THEN 1 ELSE 0
             used == Len(room.chunks) + extra
  <2>9. ~(used >= MaxChunks) /\ ~(room.total + candidate > MaxTotal)
    BY <1>1, Zenon DEF LimitReached
  <2>10. Len(room.chunks) \in Nat
    BY <1>4
  <2>5. Len(room.chunks) < MaxChunks
    <3>1. ~(used >= MaxChunks)
      BY <2>9
    <3>2. extra = 0 \/ extra = 1
      BY Zenon
    <3> HIDE DEF extra
    <3> QED
      BY <2>2, <2>10, <3>1, <3>2 DEF Pos
  <2> HIDE DEF candidate, used, extra
  <2>4. room.total + candidate <= MaxTotal
    BY <1>4, <2>1, <2>2, <2>9 DEF Pos
  <2>6. cur'.tokens = candidate /\ cur'.items # <<>>
    BY <1>4, <1>7 DEF candidate
  <2>7. WithinLimits'
    BY <1>1, <1>2 DEF WithinLimits, PackedWithin
  <2>8. OpenChunkHasRoom'
    BY <1>1, <2>1, <2>3, <2>4, <2>5, <2>6 DEF OpenChunkHasRoom, Pos
  <2> QED
    BY <2>7, <2>8 DEF Limits
<1> QED
  BY <1>1, <1>6, <1>7

\* The last chunk is closed: no chunk is open afterwards.
LEMMA LimitsClosing ==
  ASSUME TypeOK, Limits, Cut \/ Finish
  PROVE  Limits'
<1>1. PICK packed \in PackedType : /\ PackedWithin(packed)
                                   /\ chunks' = CloseLast(packed).chunks
                                   /\ total' = CloseLast(packed).total
  <2>1. CASE Cut
    <3>1. fragments[next] \in FragmentType
      BY <2>1 DEF Cut, TypeOK
    <3>2. MakeRoom(fragments[next]) \in PackedType /\ PackedWithin(MakeRoom(fragments[next]))
      BY <3>1, PackedIsTyped, RoomWithin
    <3> QED
      BY <2>1, <3>2 DEF Cut
  <2>2. CASE Finish
    BY <2>2, PackedIsTyped, PackedWithinIsLimits DEF Finish
  <2> QED
    BY <2>1, <2>2
<1>2. WithinLimits'
  BY <1>1, CloseLastWithin DEF WithinLimits
<1>3. total' \in Nat
  BY TypePacking DEF TypeOK
<1>4. cur'.tokens = 0
  BY DEF Cut, Finish, Empty
<1>7. cur'.items = <<>>
  BY DEF Cut, Finish, Empty
<1>5. Budget \in Pos /\ MaxTotal \in Pos
  BY LimitsAssumption
<1>6. OpenChunkHasRoom'
  <2>1. cur'.tokens <= Budget
    BY <1>4, <1>5 DEF Pos
  <2>2. total' + cur'.tokens <= MaxTotal
    <3>1. total' <= MaxTotal
      BY <1>2 DEF WithinLimits
    <3> QED
      BY <1>3, <1>4, <3>1
  <2> QED
    BY <1>4, <1>7, <2>1, <2>2 DEF OpenChunkHasRoom
<1> QED
  BY <1>2, <1>6 DEF Limits

LEMMA LimitsNext == TypeOK /\ Limits /\ [Next]_vars => Limits'
<1> SUFFICES ASSUME TypeOK, Limits, [Next]_vars PROVE Limits'
  OBVIOUS
<1>1. CASE Pack
  BY <1>1, LimitsPack
<1>2. CASE Cut \/ Finish
  BY <1>2, LimitsClosing
<1>3. CASE UNCHANGED <<chunks, cur, total>>
  BY <1>3 DEF Limits, WithinLimits, OpenChunkHasRoom
<1>4. ASSUME ~Pack, ~Cut, ~Finish
      PROVE  UNCHANGED <<chunks, cur, total>>
  BY <1>4 DEF Next, vars, ChunkComplete, ChunkByFile, KeepFile, SplitFile, KeepHunk,
     SkipHunk, SplitHunk, SplitLine, EndHunk, EndFile, EndFiles, Done
<1> QED
  BY <1>1, <1>2, <1>3, <1>4

\* Neither a chunk nor the chunks together ever exceed a limit, for every pull
\* request and all limits.
THEOREM LimitsHold == Spec => []WithinLimits
<1>1. Init => TypeOK /\ Limits
  BY TypeInit, LimitsInit
<1>2. TypeOK /\ Limits /\ [Next]_vars => TypeOK' /\ Limits'
  BY TypeNext, LimitsNext
<1>3. TypeOK /\ Limits => WithinLimits
  BY DEF Limits
<1> QED
  BY <1>1, <1>2, <1>3, PTL DEF Spec

-----------------------------------------------------------------------------
\* Chunking implements ChunkBudget.

Sizes(cs) == [i \in DOMAIN cs |-> cs[i].tokens]

LEMMA SizesAppend ==
  ASSUME NEW cs \in Seq(ChunkType), NEW c \in ChunkType
  PROVE  Sizes(Append(cs, c)) = Append(Sizes(cs), c.tokens) /\ Len(Sizes(cs)) = Len(cs)
<1>1. \A d \in ChunkType : d.tokens \in Nat
  BY DEF ChunkType
<1>2. Sizes(cs) \in Seq(Nat) /\ Len(Sizes(cs)) = Len(cs)
  BY <1>1 DEF Sizes
<1>3. DOMAIN Append(cs, c) = 1..(Len(cs) + 1)
  OBVIOUS
<1>4. \A i \in 1..(Len(cs) + 1) :
        Append(cs, c)[i].tokens = IF i = Len(cs) + 1 THEN c.tokens ELSE cs[i].tokens
  OBVIOUS
<1>5. DOMAIN Append(Sizes(cs), c.tokens) = 1..(Len(cs) + 1)
  BY <1>2
<1>6. \A i \in 1..(Len(cs) + 1) :
        Append(Sizes(cs), c.tokens)[i] = IF i = Len(cs) + 1 THEN c.tokens ELSE cs[i].tokens
  BY <1>2 DEF Sizes
<1>7. \A i \in 1..(Len(cs) + 1) : Sizes(Append(cs, c))[i] = Append(Sizes(cs), c.tokens)[i]
  BY <1>3, <1>4, <1>6 DEF Sizes
<1>8. Append(Sizes(cs), c.tokens) = [i \in 1..(Len(cs) + 1) |-> Append(Sizes(cs), c.tokens)[i]]
  BY <1>2, <1>5
<1>9. Sizes(Append(cs, c)) = [i \in 1..(Len(cs) + 1) |-> Sizes(Append(cs, c))[i]]
  BY <1>3 DEF Sizes
<1> QED
  BY <1>2, <1>7, <1>8, <1>9

\* Closing the open chunk is a step of ChunkBudget.
LEMMA ClosingIsMaking ==
  ASSUME TypeOK, Limits, cur.items # <<>>,
         chunks' = Close(Packed).chunks, total' = Close(Packed).total
  PROVE  Promise!MakeChunk
<1>1. chunks \in Seq(ChunkType) /\ cur \in ChunkType /\ total \in Nat /\ cur.tokens \in Nat
  BY DEF TypeOK, ChunkType
<1>2. chunks' = Append(chunks, cur) /\ total' = total + cur.tokens
  BY DEF Close, Packed
<1>3. Len(chunks) < MaxChunks /\ cur.tokens > 0
  BY DEF Limits, OpenChunkHasRoom
<1>4. cur.tokens <= Budget /\ total + cur.tokens <= MaxTotal
  BY DEF Limits, OpenChunkHasRoom
<1>5. /\ Len(Sizes(chunks)) < MaxChunks
      /\ Sizes(chunks') = Append(Sizes(chunks), cur.tokens)
  BY <1>1, <1>2, <1>3, SizesAppend
<1>6. cur.tokens \in 1..Budget
  BY <1>1, <1>3, <1>4, LimitsAssumption DEF Pos
<1>7. \E size \in 1..Budget : /\ total + size <= MaxTotal
                              /\ Sizes(chunks') = Append(Sizes(chunks), size)
                              /\ total' = total + size
  BY <1>2, <1>4, <1>5, <1>6
<1> QED
  BY <1>5, <1>7 DEF Promise!MakeChunk, Sizes

LEMMA PromiseInit == Init => Promise!Init
BY DEF Init, Promise!Init

LEMMA PromiseStep ==
  ASSUME TypeOK, Limits, [Next]_vars
  PROVE  Promise!MakeChunk \/ UNCHANGED <<chunks, total>>
<1>1. Packed.chunks = chunks /\ Packed.total = total /\ Packed.cur = cur
  BY DEF Packed
<1>2. Close(Packed).cur.items = <<>>
  BY DEF Close, Empty
<1>3. CASE Pack
  <2>1. chunks' = MakeRoom(fragments[next]).chunks /\ total' = MakeRoom(fragments[next]).total
    BY <1>3 DEF Pack
  <2> QED
    BY <1>1, <2>1, ClosingIsMaking DEF MakeRoom
<1>4. CASE Cut
  <2>1. /\ chunks' = CloseLast(MakeRoom(fragments[next])).chunks
        /\ total' = CloseLast(MakeRoom(fragments[next])).total
    BY <1>4 DEF Cut
  <2>2. CASE MakeRoom(fragments[next]) = Close(Packed) /\ cur.items # <<>>
    <3>1. CloseLast(Close(Packed)) = Close(Packed)
      BY <1>2 DEF CloseLast
    <3> QED
      BY <2>1, <2>2, <3>1, ClosingIsMaking
  <2>3. CASE MakeRoom(fragments[next]) = Packed
    BY <1>1, <2>1, <2>3, ClosingIsMaking DEF CloseLast
  <2> QED
    BY <2>2, <2>3 DEF MakeRoom
<1>5. CASE Finish
  BY <1>1, <1>5, ClosingIsMaking DEF Finish, CloseLast
<1>6. ASSUME ~Pack, ~Cut, ~Finish
      PROVE  UNCHANGED <<chunks, total>>
  BY <1>6 DEF Next, vars, ChunkComplete, ChunkByFile, KeepFile, SplitFile, KeepHunk,
     SkipHunk, SplitHunk, SplitLine, EndHunk, EndFile, EndFiles, Done
<1> QED
  BY <1>3, <1>4, <1>5, <1>6

\* Chunking keeps its promise to the rest of the review: it makes the chunks one
\* at a time within the limits and never changes one it has made.
THEOREM ChunkingImplementsBudget == Spec => KeepsPromise
<1>1. Init => TypeOK /\ Limits /\ Promise!Init
  BY TypeInit, LimitsInit, PromiseInit
<1>2. TypeOK /\ Limits /\ [Next]_vars =>
        TypeOK' /\ Limits' /\ [Promise!MakeChunk]_<<[i \in DOMAIN chunks |-> chunks[i].tokens], total>>
  <2> SUFFICES ASSUME TypeOK, Limits, [Next]_vars
               PROVE  [Promise!MakeChunk]_<<[i \in DOMAIN chunks |-> chunks[i].tokens], total>>
    BY TypeNext, LimitsNext
  <2> QED
    BY PromiseStep
<1> QED
  BY <1>1, <1>2, PTL DEF Spec, KeepsPromise, Promise!Spec

=============================================================================
