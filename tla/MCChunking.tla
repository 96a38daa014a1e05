------------------------------ MODULE MCChunking ------------------------------
(***************************************************************************)
(* Pull requests of at most MaxFiles files, each one of a few shapes: one  *)
(* that fits beside another, one that fills a chunk, ones that are split   *)
(* at hunks and at lines, ones whose hunk headers, file headers or single  *)
(* lines are too large, and one without hunks.                             *)
(***************************************************************************)
EXTENDS Chunking

CONSTANT MaxFiles

Line(kind, tokens) == [kind |-> kind, tokens |-> tokens]

Hunk(header, lines) ==
  [header |-> header, lines |-> lines,
   tokens |-> HunkTokens([header |-> header, lines |-> lines])]

File(headers, hunks) ==
  [headers |-> headers, hunks |-> hunks,
   tokens |-> FileTokens([headers |-> headers, hunks |-> hunks])]

A(tokens) == Line("added", tokens)
R(tokens) == Line("removed", tokens)
C(tokens) == Line("context", tokens)

Shapes ==
  { File(1, <<>>),
    File(12, <<>>),
    File(1, <<Hunk(1, <<A(1)>>)>>),
    File(1, <<Hunk(1, <<A(1), C(1)>>), Hunk(1, <<R(2)>>)>>),
    File(1, <<Hunk(1, <<C(1), A(2), A(2)>>), Hunk(1, <<R(1), A(1)>>)>>),
    File(1, <<Hunk(1, <<A(1), C(9), A(2), R(3)>>)>>),
    File(2, <<Hunk(8, <<C(1), A(1)>>), Hunk(1, <<A(3)>>)>>) }

MCPRs == UNION {[1..n -> Shapes] : n \in 0..MaxFiles}

=============================================================================
