------------------------------ MODULE MCDiffInput ------------------------------
(***************************************************************************)
(* Patches of up to three sections, for TLC.                               *)
(***************************************************************************)
EXTENDS DiffInput

Line(kind) == [kind |-> kind, bytes |-> 2, begins |-> 0]
Git(old, path) ==
  [kind |-> "git", bytes |-> 4, begins |-> 0, old |-> old, path |-> path, ok |-> TRUE]
BadGit(path) == [kind |-> "git", bytes |-> 4, begins |-> 0, path |-> path, ok |-> FALSE]
From(path) == [kind |-> "rename_from", bytes |-> 2, begins |-> 0, path |-> path]
To(path) == [kind |-> "rename_to", bytes |-> 2, begins |-> 0, path |-> path]
Text(key, begins) == [kind |-> "body", bytes |-> 2, begins |-> begins, key |-> key]
Matching(line) == [line EXCEPT !.begins = 1]

No == Text("no", 0)
Begin == Text("opens", 1)
Encrypted == Text("opens", 0)
End == Text("closes", 0)
Two == Text("closes", 2)
Hunk(text) == <<Line("hunk")>> \o text
MatchingHunk(text) == <<Matching(Line("hunk"))>> \o text

\* Modified, with a key over two hunks, matches in headers of the file and of a hunk in it,
\* and too large; the same path again, with an encrypted key and keys on one line; two keys, of
\* which one is not ended; ill-formed; moved from or to a path that is left out; binary; of no
\* known type; an unsupported section after a file with hunks, and after one without.
MCSections ==
  { <<Git("p", "p"), Matching(Line("meta"))>>
      \o MatchingHunk(<<No, Begin>>) \o MatchingHunk(<<End, No>>),
    <<Git("p", "p")>> \o Hunk(<<Encrypted, No>>) \o Hunk(<<Two, Two>>),
    <<Git("q", "q")>> \o Hunk(<<Begin, End, No, Begin>>) \o Hunk(<<Begin>>),
    <<Git("p", "p")>> \o Hunk(<<No>>) \o <<Line("meta")>>,
    <<BadGit("p")>> \o Hunk(<<No>>),
    <<Git("s", "r"), From("s"), To("r")>>,
    <<Git("r", "x"), To("x")>> \o Hunk(<<No>>),
    <<Git("x", "q"), To("q")>> \o Hunk(<<No>>),
    <<Git("b", "b"), Line("binary")>>,
    <<Git("t", "t")>> \o Hunk(<<No>>),
    <<Git("q", "q"), From("r"), To("q"), Line("other"), Line("meta")>>,
    <<Git("r", "r")>> \o Hunk(<<No>>) \o <<Line("other"), No>> }

MCPatches ==
  {<<>>, <<Line("meta")>>, <<Line("other"), Line("meta")>>}
  \cup {FlattenSeq(t) : t \in UNION {[1..n -> MCSections] : n \in 1..3}}

MCConfigs ==
  {[maxFiles |-> f, maxFileBytes |-> b, maxFileLines |-> l, truncate |-> t] :
     f \in {1, 2}, b \in {16, 19, 40}, l \in {6, 9}, t \in BOOLEAN}

MCSensitive == {"s"}
MCExcluded == {"x"}
MCUnsupported == {"t"}

================================================================================
