----------------------------- MODULE ChunkBudget -----------------------------
(***************************************************************************)
(* What chunking promises the rest of the review, whatever the diff: it    *)
(* makes chunks one after the other, each no larger than Budget, at most   *)
(* MaxChunks of them, and never more than MaxTotal tokens altogether.  A   *)
(* chunk once made is neither changed nor taken back.                      *)
(***************************************************************************)
EXTENDS Integers, Sequences

CONSTANTS Budget, MaxChunks, MaxTotal

VARIABLES
  sizes,  \* the estimates of the chunks made so far
  spent   \* their sum

Init == sizes = <<>> /\ spent = 0

MakeChunk ==
  /\ Len(sizes) < MaxChunks
  /\ \E size \in 1..Budget :
       /\ spent + size <= MaxTotal
       /\ sizes' = Append(sizes, size)
       /\ spent' = spent + size

Spec == Init /\ [][MakeChunk]_<<sizes, spent>>

=============================================================================
