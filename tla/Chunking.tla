------------------------------ MODULE Chunking ------------------------------
(***************************************************************************)
(* review_runner/chunking.py: how the filtered and redacted files of a     *)
(* pull request become the bounded chunks a provider is sent.              *)
(*                                                                         *)
(* First the files become fragments: the whole pull request when it fits   *)
(* the budget of one chunk, else file by file, else hunk by hunk, else     *)
(* line by line.  Then a greedy loop packs the fragments into chunks until *)
(* the limit on their number or on their total stops it.                   *)
(*                                                                         *)
(* A text is its estimate in tokens (TokenEstimator.estimate); the texts   *)
(* of a file, a hunk and a line come with the estimates of the byte        *)
(* estimator, for which a newline between two texts costs one token.       *)
(***************************************************************************)
EXTENDS Integers, Sequences, FiniteSets, SequencesExt

CONSTANTS
  PRs,        \* the pull requests to chunk: sequences of files
  Budget,     \* RunnerConfig.available_diff_tokens
  MaxChunks,  \* RunnerConfig.max_chunks
  MaxTotal    \* RunnerConfig.max_total_pr_tokens

Kinds == {"added", "removed", "context", "marker"}
Pos == Nat \ {0}

DiffLine == [kind : Kinds, tokens : Pos]
DiffHunk == [header : Pos, lines : Seq(DiffLine), tokens : Pos]
DiffFile == [headers : Pos, hunks : Seq(DiffHunk), tokens : Pos]

\* The estimate of the texts of the given estimates joined by newlines.
Joined(first, rest) == FoldLeft(LAMBDA sum, t : sum + 1 + t, first, rest)

HunkTokens(hunk) == Joined(hunk.header, [i \in DOMAIN hunk.lines |-> hunk.lines[i].tokens])
FileTokens(file) == Joined(file.headers, [i \in DOMAIN file.hunks |-> file.hunks[i].tokens])
CompleteTokens(files) ==
  Joined(files[1].tokens, [i \in 1..(Len(files) - 1) |-> files[i + 1].tokens])

\* RunnerConfig.validate: every limit is a positive integer.
ASSUME LimitsAssumption ==
  /\ Budget \in Pos
  /\ MaxChunks \in Pos
  /\ MaxTotal \in Pos

ASSUME PRsAssumption == PRs \subseteq Seq(DiffFile)

\* The estimates of files and hunks are those of their rendered text.
ASSUME RenderAssumption ==
  \A files \in PRs : \A i \in DOMAIN files :
    /\ files[i].tokens = FileTokens(files[i])
    /\ \A j \in DOMAIN files[i].hunks : files[i].hunks[j].tokens = HunkTokens(files[i].hunks[j])

VARIABLES
  pr,         \* the files given to create_chunks
  stage,      \* where the algorithm is
  f, h, l,    \* the file, hunk and line it looks at
  part,       \* _split_hunk's `current`: the lines of the fragment being built
  fragments,  \* the fragments built so far, in order
  skipped,    \* the SkippedItems, each with the lines it leaves out
  next,       \* the fragment the packing loop looks at
  cur,        \* create_chunks' `current`: the fragments of the open chunk
  chunks,     \* the chunks closed so far
  total       \* total_tokens

vars == <<pr, stage, f, h, l, part, fragments, skipped, next, cur, chunks, total>>

----------------------------------------------------------------------------
\* Lines are named by the file, the hunk and the place where they occur.

HunkLines(i, j) == {<<i, j, k>> : k \in DOMAIN pr[i].hunks[j].lines}
FileLines(i) == UNION {HunkLines(i, j) : j \in DOMAIN pr[i].hunks}
AllLines == UNION {FileLines(i) : i \in DOMAIN pr}

\* _changed_lines and the comprehensions of _split_hunk: the lines of kind "add".
ChangedLines(lines) == {x \in lines : pr[x[1]].hunks[x[2]].lines[x[3]].kind = "add"}

Fragment(i, j, lines, tokens) ==
  [file |-> i, hunk |-> j, lines |-> lines, tokens |-> tokens, changed |-> ChangedLines(lines)]

WholeFile(i) == Fragment(i, 0, FileLines(i), pr[i].tokens)

Skip(i, j, lines, reason) == [file |-> i, hunk |-> j, lines |-> lines, reason |-> reason]

Empty == [items |-> <<>>, tokens |-> 0]
NoPart == [lines |-> {}, tokens |-> 0]

\* "\n".join of what is collected so far and one text more.
Join(collected, tokens) == IF collected = 0 THEN tokens ELSE collected + 1 + tokens

Prefix == Join(pr[f].headers, pr[f].hunks[h].header)

----------------------------------------------------------------------------
\* From files to fragments.

Init ==
  /\ pr \in PRs
  /\ stage = "start"
  /\ f = 1 /\ h = 1 /\ l = 1
  /\ part = NoPart
  /\ fragments = <<>>
  /\ skipped = {}
  /\ next = 1
  /\ cur = Empty
  /\ chunks = <<>>
  /\ total = 0

CompleteFits == pr # <<>> /\ CompleteTokens(pr) <= Budget

ChunkComplete ==
  /\ stage = "start"
  /\ CompleteFits
  /\ fragments' = [i \in DOMAIN pr |-> WholeFile(i)]
  /\ stage' = "pack"
  /\ UNCHANGED <<pr, f, h, l, part, skipped, next, cur, chunks, total>>

ChunkByFile ==
  /\ stage = "start"
  /\ ~CompleteFits
  /\ stage' = "files"
  /\ UNCHANGED <<pr, f, h, l, part, fragments, skipped, next, cur, chunks, total>>

KeepFile ==
  /\ stage = "files"
  /\ f \in DOMAIN pr
  /\ pr[f].tokens <= Budget
  /\ fragments' = Append(fragments, WholeFile(f))
  /\ f' = f + 1
  /\ UNCHANGED <<pr, stage, h, l, part, skipped, next, cur, chunks, total>>

SplitFile ==
  /\ stage = "files"
  /\ f \in DOMAIN pr
  /\ pr[f].tokens > Budget
  /\ stage' = "hunks"
  /\ h' = 1
  /\ UNCHANGED <<pr, f, l, part, fragments, skipped, next, cur, chunks, total>>

KeepHunk ==
  /\ stage = "hunks"
  /\ h \in DOMAIN pr[f].hunks
  /\ LET tokens == Join(pr[f].headers, pr[f].hunks[h].tokens)
     IN  /\ tokens <= Budget
         /\ fragments' = Append(fragments, Fragment(f, h, HunkLines(f, h), tokens))
  /\ h' = h + 1
  /\ UNCHANGED <<pr, stage, f, l, part, skipped, next, cur, chunks, total>>

HunkTooLarge ==
  /\ stage = "hunks"
  /\ h \in DOMAIN pr[f].hunks
  /\ Join(pr[f].headers, pr[f].hunks[h].tokens) > Budget

SkipHunk ==
  /\ HunkTooLarge
  /\ Prefix >= Budget
  /\ skipped' = skipped \cup {Skip(f, h, HunkLines(f, h), "chunk_input_limit")}
  /\ h' = h + 1
  /\ UNCHANGED <<pr, stage, f, l, part, fragments, next, cur, chunks, total>>

SplitHunk ==
  /\ HunkTooLarge
  /\ Prefix < Budget
  /\ stage' = "lines"
  /\ l' = 1
  /\ part' = NoPart
  /\ UNCHANGED <<pr, f, h, fragments, skipped, next, cur, chunks, total>>

PartFragment == Fragment(f, h, part.lines, part.tokens)

\* Mutant: the newline before the line is not counted.
PartFullNoNewline(tokens) == part.lines # {} /\ part.tokens + tokens > Budget

PartFull(tokens) == part.lines # {} /\ part.tokens + 1 + tokens > Budget

\* One turn of the loop over hunk.lines: close the part the line does not fit
\* in, then take the line or, when it fits in no fragment, skip it.
SplitLine ==
  /\ stage = "lines"
  /\ l \in DOMAIN pr[f].hunks[h].lines
  /\ LET tokens == pr[f].hunks[h].lines[l].tokens
         line == <<f, h, l>>
         open == IF PartFull(tokens) THEN NoPart ELSE part
         candidate == (IF open.lines = {} THEN Prefix ELSE open.tokens) + 1 + tokens
     IN  /\ fragments' = IF PartFull(tokens) THEN Append(fragments, PartFragment) ELSE fragments
         /\ IF candidate > Budget
            THEN /\ skipped' = skipped \cup {Skip(f, h, {line}, "chunk_input_limit")}
                 /\ part' = open
            ELSE /\ part' = [lines |-> open.lines \cup {line}, tokens |-> candidate]
                 /\ UNCHANGED skipped
  /\ l' = l + 1
  /\ UNCHANGED <<pr, stage, f, h, next, cur, chunks, total>>

\* Mutant: the lines collected since the last full part are forgotten.
EndHunkForgetsPart ==
  /\ stage = "lines"
  /\ l \notin DOMAIN pr[f].hunks[h].lines
  /\ part' = NoPart
  /\ stage' = "hunks"
  /\ h' = h + 1
  /\ UNCHANGED <<pr, f, l, fragments, skipped, next, cur, chunks, total>>

EndHunk ==
  /\ stage = "lines"
  /\ l \notin DOMAIN pr[f].hunks[h].lines
  /\ fragments' = IF part.lines # {} THEN Append(fragments, PartFragment) ELSE fragments
  /\ part' = NoPart
  /\ stage' = "hunks"
  /\ h' = h + 1
  /\ UNCHANGED <<pr, f, l, skipped, next, cur, chunks, total>>

\* Mutant: the loop over the hunks goes on into the next file.
EndFileStaysInHunks ==
  /\ stage = "hunks"
  /\ h \notin DOMAIN pr[f].hunks
  /\ f' = f + 1
  /\ h' = 1
  /\ UNCHANGED <<pr, stage, l, part, fragments, skipped, next, cur, chunks, total>>

EndFile ==
  /\ stage = "hunks"
  /\ h \notin DOMAIN pr[f].hunks
  /\ skipped' = IF pr[f].hunks = <<>>
                THEN skipped \cup {Skip(f, 0, {}, "chunk_input_limit")}
                ELSE skipped
  /\ stage' = "files"
  /\ f' = f + 1
  /\ UNCHANGED <<pr, h, l, part, fragments, next, cur, chunks, total>>

EndFiles ==
  /\ stage = "files"
  /\ f \notin DOMAIN pr
  /\ stage' = "pack"
  /\ UNCHANGED <<pr, f, h, l, part, fragments, skipped, next, cur, chunks, total>>

----------------------------------------------------------------------------
\* From fragments to chunks.

\* Mutant: the sum of _append_chunk is not taken over by the caller.
CloseKeepsTotal(packed) ==
  [chunks |-> Append(packed.chunks, packed.cur), cur |-> Empty, total |-> packed.total]

\* _append_chunk on the open chunk, then `current = []`.
Close(packed) ==
  [chunks |-> Append(packed.chunks, packed.cur),
   cur    |-> Empty,
   total  |-> packed.total + packed.cur.tokens]

Packed == [chunks |-> chunks, cur |-> cur, total |-> total]

\* Mutants: the newline between two fragments is not counted; a chunk that is
\* just full is taken for too large.
MakeRoomNoNewline(fragment) ==
  IF cur.items # <<>> /\ cur.tokens + fragment.tokens > Budget THEN Close(Packed) ELSE Packed

MakeRoomTooEarly(fragment) ==
  IF cur.items # <<>> /\ Join(cur.tokens, fragment.tokens) >= Budget THEN Close(Packed) ELSE Packed

\* A turn starts by closing the open chunk when the fragment does not fit in it.
MakeRoom(fragment) ==
  IF cur.items # <<>> /\ Join(cur.tokens, fragment.tokens) > Budget
  THEN Close(Packed)
  ELSE Packed

\* The limits a fragment must pass to join the open chunk, or to open one: the
\* open chunk counts as a chunk.
LimitReached(packed, fragment) ==
  LET used == Len(packed.chunks) + (IF packed.cur.items # <<>> THEN 1 ELSE 0)
  IN  \/ used >= MaxChunks
      \/ packed.total + Join(packed.cur.tokens, fragment.tokens) > MaxTotal

\* One turn of the loop over the fragments.
Pack ==
  /\ stage = "pack"
  /\ next \in DOMAIN fragments
  /\ LET fragment == fragments[next]
         room == MakeRoom(fragment)
     IN  /\ ~LimitReached(room, fragment)
         /\ chunks' = room.chunks
         /\ total' = room.total
         /\ IF fragment.tokens > Budget
            THEN /\ skipped' = skipped \cup {Skip(fragment.file, fragment.hunk, fragment.lines,
                                                  "chunk_input_limit")}
                 /\ cur' = room.cur
            ELSE /\ cur' = [items  |-> Append(room.cur.items, next),
                            tokens |-> Join(room.cur.tokens, fragment.tokens)]
                 /\ UNCHANGED skipped
  /\ next' = next + 1
  /\ UNCHANGED <<pr, stage, f, h, l, part, fragments>>

\* Mutant: the fragment that met the limit is not reported.
OmittedAfter(from) ==
  {Skip(fragments[i].file, fragments[i].hunk, fragments[i].lines, "chunk_budget_limit") :
     i \in (from + 1)..Len(fragments)}

Omitted(from) ==
  {Skip(fragments[i].file, fragments[i].hunk, fragments[i].lines, "chunk_budget_limit") :
     i \in from..Len(fragments)}

\* The last _append_chunk: the open chunk, if any, while there is a slot for it.
CloseLast(packed) ==
  IF packed.cur.items # <<>> /\ Len(packed.chunks) < MaxChunks THEN Close(packed) ELSE packed

\* Mutant: `continue` for `break`, so that a later and smaller fragment slips in.
CutContinues ==
  /\ stage = "pack"
  /\ next \in DOMAIN fragments
  /\ LET fragment == fragments[next]
         room == MakeRoom(fragment)
     IN  /\ LimitReached(room, fragment)
         /\ chunks' = room.chunks
         /\ total' = room.total
         /\ cur' = room.cur
         /\ skipped' = skipped \cup {Skip(fragment.file, fragment.hunk, fragment.lines,
                                          "chunk_budget_limit")}
  /\ next' = next + 1
  /\ UNCHANGED <<pr, stage, f, h, l, part, fragments>>

\* The turn that meets a limit: the open chunk is closed, this fragment and
\* all that follow are skipped.
Cut ==
  /\ stage = "pack"
  /\ next \in DOMAIN fragments
  /\ LET fragment == fragments[next]
         room == MakeRoom(fragment)
     IN  /\ LimitReached(room, fragment)
         /\ chunks' = CloseLast(room).chunks
         /\ total' = CloseLast(room).total
  /\ skipped' = skipped \cup Omitted(next)
  /\ cur' = Empty
  /\ stage' = "done"
  /\ UNCHANGED <<pr, f, h, l, part, fragments, next>>

\* The loop ran to its end: the last chunk is closed.  (The code drops the
\* sum _append_chunk returns here; it is ReviewResult.estimated_tokens.)
Finish ==
  /\ stage = "pack"
  /\ next \notin DOMAIN fragments
  /\ chunks' = CloseLast(Packed).chunks
  /\ total' = CloseLast(Packed).total
  /\ cur' = Empty
  /\ stage' = "done"
  /\ UNCHANGED <<pr, f, h, l, part, fragments, skipped, next>>

Done == stage = "done" /\ UNCHANGED vars

Next ==
  \/ ChunkComplete \/ ChunkByFile
  \/ KeepFile \/ SplitFile \/ KeepHunk \/ SkipHunk \/ SplitHunk
  \/ SplitLine \/ EndHunk \/ EndFile \/ EndFiles
  \/ Pack \/ Cut \/ Finish
  \/ Done

Spec == Init /\ [][Next]_vars

----------------------------------------------------------------------------
\* Properties.

FragmentType ==
  [file : Pos, hunk : Nat, lines : SUBSET (Pos \X Pos \X Pos), tokens : Pos,
   changed : SUBSET (Pos \X Pos \X Pos)]

SkipType ==
  [file : Pos, hunk : Nat, lines : SUBSET (Pos \X Pos \X Pos),
   reason : {"chunk_input_limit", "chunk_budget_limit"}]

ChunkType == [items : Seq(Pos), tokens : Nat]

\* Every variable holds a value of its type, and the indices are valid where
\* the algorithm uses them.
TypeOK ==
  /\ pr \in Seq(DiffFile)
  /\ stage \in {"start", "files", "hunks", "lines", "pack", "done"}
  /\ f \in Pos /\ h \in Pos /\ l \in Pos
  /\ stage \in {"hunks", "lines"} => f \in DOMAIN pr
  /\ stage = "lines" => h \in DOMAIN pr[f].hunks
  /\ part \in [lines : SUBSET (Pos \X Pos \X Pos), tokens : Nat]
  /\ part.lines # {} => part.tokens \in Pos
  /\ fragments \in Seq(FragmentType)
  /\ skipped \in SUBSET SkipType
  /\ next \in Pos
  /\ cur \in ChunkType
  /\ chunks \in Seq(ChunkType)
  /\ total \in Nat

\* No chunk exceeds the input budget of a request, and neither their number nor
\* the sum of their estimates exceeds its limit: whatever the packing loop has
\* closed so far, with a chunk closed in mid-loop, at a limit or at the end.
WithinLimits ==
  /\ Len(chunks) <= MaxChunks
  /\ total <= MaxTotal
  /\ \A i \in DOMAIN chunks : chunks[i].tokens <= Budget

\* The open chunk, if there is one, can always be closed within the limits.
OpenChunkHasRoom ==
  /\ cur.tokens <= Budget
  /\ total + cur.tokens <= MaxTotal
  /\ IF cur.items = <<>> THEN cur.tokens = 0 ELSE cur.tokens > 0 /\ Len(chunks) < MaxChunks

\* A line is left out as too large only when no chunk could hold it, even alone with
\* the headers repeated before it.
OnlyOversizedSkipped ==
  \A s \in skipped : s.reason = "chunk_input_limit" =>
    \A x \in s.lines :
      LET hunk == pr[x[1]].hunks[x[2]]
      IN  Join(pr[x[1]].headers, hunk.header) + 1 + hunk.lines[x[3]].tokens > Budget

\* The places of a line in the chunks.
Holding(x) == {p \in (DOMAIN chunks) \X (DOMAIN fragments) :
                 p[2] \in ToSet(chunks[p[1]].items) /\ x \in fragments[p[2]].lines}

\* In the end every line of the diff is in exactly one fragment of one chunk, or
\* in exactly one skipped item: nothing is lost silently, sent twice, or sent
\* and reported as skipped, whichever of the four ways its file was split.
EveryLineOnce ==
  stage = "done" =>
    \A x \in AllLines : Cardinality(Holding(x)) + Cardinality({s \in skipped : x \in s.lines}) = 1

ChunkFiles(c) == {fragments[i].file : i \in ToSet(chunks[c].items)}

\* In the end every file, one with headers only included, is in a chunk or is
\* reported as skipped.
EveryFileReported ==
  stage = "done" =>
    \A i \in DOMAIN pr : \/ \E c \in DOMAIN chunks : i \in ChunkFiles(c)
                         \/ \E s \in skipped : s.file = i

Lexicographic(x, y) ==
  \/ x[1] < y[1]
  \/ x[1] = y[1] /\ x[2] < y[2]
  \/ x[1] = y[1] /\ x[2] = y[2] /\ x[3] < y[3]

\* The fragments are in the order of the diff, and the chunks hold the first of
\* them, in order and without a gap: a limit only ever cuts off the end.
DiffOrder ==
  /\ \A i, j \in DOMAIN fragments : i < j =>
       \A x \in fragments[i].lines, y \in fragments[j].lines : Lexicographic(x, y)
  /\ LET packed == FlattenSeq([c \in DOMAIN chunks |-> chunks[c].items]) \o cur.items
     IN  packed = [i \in 1..Len(packed) |-> i]

\* A chunk is closed before the end only because the fragment that opens the
\* next one did not fit: no request is spent on less than the budget allows.
NoChunkClosedEarly ==
  \A c \in DOMAIN chunks : c + 1 \in DOMAIN chunks =>
    Join(chunks[c].tokens, fragments[chunks[c + 1].items[1]].tokens) > Budget

AddedLines(c) ==
  {x \in UNION {fragments[i].lines : i \in ToSet(chunks[c].items)} :
     pr[x[1]].hunks[x[2]].lines[x[3]].kind = "added"}

\* README.md:111 keeps the line number of a finding unless it is invalid: the
\* lines a chunk calls changed are those its diff adds.  Not so in the code,
\* which looks for the kind "add" where the parser wrote "added".
AddedLinesAreChanged ==
  \A c \in DOMAIN chunks :
    UNION {fragments[i].changed : i \in ToSet(chunks[c].items)} = AddedLines(c)

\* The chunks as the rest of the review sees them.
Promise == INSTANCE ChunkBudget WITH
  sizes <- [i \in DOMAIN chunks |-> chunks[i].tokens],
  spent <- total

\* Chunking makes one chunk at a time within the limits and never takes one back.
KeepsPromise == Promise!Spec

=============================================================================
