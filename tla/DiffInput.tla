------------------------------- MODULE DiffInput -------------------------------
(***************************************************************************)
(* What a review run does with a patch before it is chunked: the patch is  *)
(* parsed into files (diff_parser.py), files are left out or cut           *)
(* (filtering.py), what was left out gets a status (runner.py), and keys   *)
(* are replaced by markers (redaction.py).  A step is a section or a file. *)
(*                                                                         *)
(* A line is a record of its kind, its bytes, and how often it matches the *)
(* rule for private keys ("begins").  The kinds are those the parser tells *)
(* apart: git (with its two paths, and whether they are well formed),      *)
(* other for any other "diff --", rename_from and rename_to (with a path), *)
(* binary, hunk, body for a line a hunk may have, and meta for the rest.   *)
(* The key of a body line is "opens" if it looks like the BEGIN of a       *)
(* private key and has no END, "closes" if it looks like the END of one.   *)
(***************************************************************************)
EXTENDS Integers, FiniteSets, Sequences, SequencesExt

CONSTANTS
  Patches,      \* the patches, each a sequence of lines
  Configs,      \* maxFiles, maxFileBytes, maxFileLines, truncate of RunnerConfig
  Sensitive,    \* the paths that match sensitive_patterns,
  Excluded,     \* ... that match excluded_patterns,
  Unsupported   \* ... that are of no type of included_file_types

\* RunnerConfig.validate, as far as these fields are concerned.
ValidConfig(c) ==
  /\ {c.maxFiles, c.maxFileBytes, c.maxFileLines} \subseteq Nat \ {0}
  /\ c.truncate \in BOOLEAN

ASSUME ConfigsAssumption == \A c \in Configs : ValidConfig(c)

\* What git writes: a rename has at most one line for each of its paths.
ASSUME PatchesAssumption ==
  \A p \in Patches :
    /\ p \in Seq(ToSet(p)) /\ \A i \in DOMAIN p : p[i].begins \in Nat
    /\ \A i \in DOMAIN p : p[i].kind \in {"rename_from", "rename_to"} =>
         /\ p[i].path # ""
         /\ \A j \in i + 1 .. Len(p) :
              p[j].kind = p[i].kind => \E k \in i + 1 .. j : p[k].kind = "git"

VARIABLES
  patch, config,
  stage,     \* the function at work
  next,      \* the section or file it takes next
  parsed,    \* the files of the patch
  included,  \* the files that are reviewed, perhaps without their last hunks
  items,     \* what was skipped, and why
  statuses,  \* the status of each path
  keys,      \* how many private keys were numbered
  marks      \* per included file, the numbers of the keys shown in each of its texts

vars == <<patch, config, stage, next, parsed, included, items, statuses, keys, marks>>

Init ==
  /\ patch \in Patches /\ config \in Configs
  /\ stage = "split" /\ next = 1
  /\ parsed = <<>> /\ included = <<>> /\ items = <<>>
  /\ statuses = <<>>
  /\ keys = 0 /\ marks = <<>>

----------------------------------------------------------------------------
\* Parsing.  "of" is the section a file or an item comes from, 0 for the patch.

At(lines, kind) == {i \in DOMAIN lines : lines[i].kind = kind}

\* The numbers of a set in ascending order.
Ascending(S) ==
  [n \in 1 .. Cardinality(S) |-> CHOOSE i \in S : Cardinality({j \in S : j <= i}) = n]

\* A section is a "diff --git" line and all lines up to the next.
Sections ==
  LET at == Ascending(At(patch, "git"))
  IN  [n \in DOMAIN at |->
         SubSeq(patch, at[n], IF n = Len(at) THEN Len(patch) ELSE at[n + 1] - 1)]

Item(path, reason, of) == [path |-> path, reason |-> reason, of |-> of]

Split ==
  /\ stage = "split"
  /\ stage' = "parse"
  /\ LET unsupported == Cardinality(At(patch, "other"))
                          + (IF patch # <<>> /\ Sections = <<>> THEN 1 ELSE 0)
     IN  items' = [i \in 1..unsupported |-> Item("<patch>", "unsupported_diff", 0)]
  /\ UNCHANGED <<patch, config, next, parsed, included, statuses, keys, marks>>

\* After its first hunk header a section has hunks only.
WellFormed(section) ==
  /\ section[1].ok
  /\ \A i \in At(section, "hunk") : \A j \in i .. Len(section) :
       section[j].kind \in {"hunk", "body"}

HeadersOf(section) ==
  SubSeq(section, 1, (IF At(section, "hunk") = {} THEN Len(section) + 1
                      ELSE Min(At(section, "hunk"))) - 1)

\* The hunks of a section, each with its header line.
HunksOf(section) ==
  LET at == Ascending(At(section, "hunk"))
  IN  [n \in DOMAIN at |->
         SubSeq(section, at[n], IF n = Len(at) THEN Len(section) ELSE at[n + 1] - 1)]

\* The path of the last header of a kind.
PathOf(headers, kind, default) ==
  IF At(headers, kind) = {} THEN default ELSE headers[Max(At(headers, kind))].path

\* The path before a rename, "" if there is none.
Previous(headers) ==
  PathOf(headers, "rename_from",
         IF At(headers, "rename_to") # {} /\ At(headers, "binary") = {} THEN headers[1].old
         ELSE "")

ParsedFile(section, n) ==
  LET headers == HeadersOf(section)
  IN  [path |-> PathOf(headers, "rename_to", section[1].path), previous |-> Previous(headers),
       binary |-> At(headers, "binary") # {}, headers |-> headers, hunks |-> HunksOf(section),
       of |-> n]

ParseSection ==
  /\ stage = "parse" /\ next <= Len(Sections)
  /\ LET section == Sections[next] IN
       \/ /\ WellFormed(section)
          /\ parsed' = Append(parsed, ParsedFile(section, next))
          /\ UNCHANGED items
       \/ /\ ~WellFormed(section)
          /\ items' = Append(items, Item(section[1].path, "parse_error", next))
          /\ UNCHANGED parsed
  /\ next' = next + 1
  /\ UNCHANGED <<patch, config, stage, included, statuses, keys, marks>>

Parsed ==
  /\ stage = "parse" /\ next > Len(Sections)
  /\ stage' = "filter" /\ next' = 1
  /\ UNCHANGED <<patch, config, parsed, included, items, statuses, keys, marks>>

----------------------------------------------------------------------------
\* Filtering.

\* Mutant: a rename is judged by its new path.
PathsNewOnly(file) == {file.path}

Paths(file) == {file.path, file.previous} \ {""}

\* The first reason to leave a file out, "" if there is none.
FilterReason(file) ==
  CASE file.binary -> "binary_file"
    [] ~file.binary /\ Paths(file) \cap Sensitive # {} -> "sensitive_path"
    [] ~file.binary /\ Paths(file) \cap Sensitive = {} /\ Paths(file) \cap Excluded # {} ->
         "excluded_pattern"
    [] ~file.binary /\ Paths(file) \cap (Sensitive \cup Excluded) = {}
         /\ file.path \in Unsupported -> "unsupported_file_type"
    [] OTHER -> ""

Lines(file) == file.headers \o FlattenSeq(file.hunks)
Bytes(lines) == FoldLeft(LAMBDA sum, line : sum + line.bytes, Len(lines) - 1, lines)

\* The lines are joined by newlines.
Fits(file) ==
  /\ Bytes(Lines(file)) <= config.maxFileBytes
  /\ Len(Lines(file)) <= config.maxFileLines

FirstHunks(file, k) == [file EXCEPT !.hunks = SubSeq(@, 1, k)]

\* The hunks before the first with which the file is too large.
Kept(file) ==
  SubSeq(file.hunks, 1, Max({k \in 0 .. Len(file.hunks) :
                               \A j \in 1 .. k : Fits(FirstHunks(file, j))}))

WithStatus(path, status) ==
  [p \in DOMAIN statuses \cup {path} |-> IF p = path THEN status ELSE statuses[p]]

Skip(file, reason) ==
  /\ items' = Append(items, Item(file.path, reason, file.of))
  /\ statuses' = WithStatus(file.path, "skipped")
  /\ UNCHANGED included

Whole(file) ==
  /\ included' = Append(included, file)
  /\ statuses' = WithStatus(file.path, "fully_reviewed")
  /\ UNCHANGED items

\* Mutant: the hunks are left out in silence.
PartlySilent(file) ==
  /\ included' = Append(included, [file EXCEPT !.hunks = Kept(file)])
  /\ statuses' = WithStatus(file.path, "partially_included")
  /\ UNCHANGED items

Partly(file) ==
  /\ included' = Append(included, [file EXCEPT !.hunks = Kept(file)])
  /\ statuses' = WithStatus(file.path, "partially_included")
  /\ items' = Append(items, Item(file.path, "file_partially_included", file.of))

\* Mutant: files that were skipped count.
TooManyWithSkipped == next > config.maxFiles

TooMany == Len(included) >= config.maxFiles

FilterFile ==
  /\ stage = "filter" /\ next <= Len(parsed)
  /\ LET file == parsed[next]
         reason == FilterReason(file)
     IN  \/ reason # "" /\ Skip(file, reason)
         \/ reason = "" /\ TooMany /\ Skip(file, "maximum_file_count")
         \/ /\ reason = "" /\ ~TooMany
            /\ \/ Fits(file) /\ Whole(file)
               \/ /\ ~Fits(file) /\ (config.truncate => Kept(file) = <<>>)
                  /\ Skip(file, "file_size_limit")
               \/ ~Fits(file) /\ config.truncate /\ Kept(file) # <<>> /\ Partly(file)
  /\ next' = next + 1
  /\ UNCHANGED <<patch, config, stage, parsed, keys, marks>>

NotParsed == {i \in DOMAIN items : items[i].reason \in {"unsupported_diff", "parse_error"}}

UnparsedPaths == {items[i].path : i \in NotParsed}

\* Mutant: the status of what was not parsed wins.
DefaultStatusesWin ==
  [p \in DOMAIN statuses \cup UnparsedPaths |->
     IF p \in UnparsedPaths THEN "skipped" ELSE statuses[p]]

\* What was not parsed is skipped, unless its path has a status (setdefault).
DefaultStatuses ==
  [p \in DOMAIN statuses \cup UnparsedPaths |->
     IF p \in DOMAIN statuses THEN statuses[p] ELSE "skipped"]

Filtered ==
  /\ stage = "filter" /\ next > Len(parsed)
  /\ stage' = "redact" /\ next' = 1
  /\ statuses' = DefaultStatuses
  /\ UNCHANGED <<patch, config, parsed, included, items, keys, marks>>

----------------------------------------------------------------------------
\* Redaction of private keys, with the default rules.  The other rules keep no state.

\* A header is redacted as a text of its own, whatever key is open.
AsHeader(line) == [begins |-> line.begins, key |-> "header"]

\* The texts of a file in the order of their redaction: its headers, then the lines of
\* each hunk and after them the header of the hunk.
Texts(file) ==
  [i \in DOMAIN file.headers |-> AsHeader(file.headers[i])]
  \o FlattenSeq([h \in DOMAIN file.hunks |->
                   Append(Tail(file.hunks[h]), AsHeader(Head(file.hunks[h])))])

\* Mutant: the lines of a key are left out.
RedactTextDropped(r, text) ==
  LET count == r.keys + text.begins
  IN  IF r.marker # 0 /\ text.key # "header"
      THEN [r EXCEPT !.marker = IF text.key = "closes" THEN 0 ELSE @]
      ELSE [keys |-> count,
            marker |-> IF text.key = "opens" /\ count > 0 THEN count ELSE r.marker,
            marks |-> Append(r.marks, r.keys + 1 .. count)]

\* Mutant: keys are numbered by line, so two that begin on one line have the same number.
RedactTextOneNumber(r, text) ==
  LET count == r.keys + (IF text.begins > 0 THEN 1 ELSE 0)
  IN  IF r.marker # 0 /\ text.key # "header"
      THEN [r EXCEPT !.marks = Append(@, {r.marker}),
                     !.marker = IF text.key = "closes" THEN 0 ELSE @]
      ELSE [keys |-> count,
            marker |-> IF text.key = "opens" /\ count > 0 THEN count ELSE r.marker,
            marks |-> Append(r.marks, r.keys + 1 .. count)]

\* r is the number of keys so far, the number of the key the lines are in, 0 if in none,
\* and the numbers in the texts before this one.
RedactText(r, text) ==
  LET count == r.keys + text.begins
  IN  IF r.marker # 0 /\ text.key # "header"
      THEN [r EXCEPT !.marks = Append(@, {r.marker}),
                     !.marker = IF text.key = "closes" THEN 0 ELSE @]
      ELSE [keys |-> count,
            marker |-> IF text.key = "opens" /\ count > 0 THEN count ELSE r.marker,
            marks |-> Append(r.marks, r.keys + 1 .. count)]

\* Mutant: a key is forgotten at the header of the next hunk.
RedactEachHunk(file) ==
  FoldLeft(LAMBDA r, text :
             RedactText(IF text.key = "header" THEN [r EXCEPT !.marker = 0] ELSE r, text),
           [keys |-> keys, marker |-> 0, marks |-> <<>>], Texts(file))

\* The key is kept from hunk to hunk, the number of keys from file to file.
Redact(file) ==
  FoldLeft(RedactText, [keys |-> keys, marker |-> 0, marks |-> <<>>], Texts(file))

RedactFile ==
  /\ stage = "redact" /\ next <= Len(included)
  /\ LET r == Redact(included[next])
     IN  keys' = r.keys /\ marks' = Append(marks, r.marks)
  /\ next' = next + 1
  /\ UNCHANGED <<patch, config, stage, parsed, included, items, statuses>>

Redacted ==
  /\ stage = "redact" /\ next > Len(included)
  /\ stage' = "done"
  /\ UNCHANGED <<patch, config, next, parsed, included, items, statuses, keys, marks>>

Next ==
  \/ Split \/ ParseSection \/ Parsed
  \/ FilterFile \/ Filtered
  \/ RedactFile \/ Redacted

Spec == Init /\ [][Next]_vars

----------------------------------------------------------------------------
\* Properties.

\* Types: indices, statuses, and marks for exactly the texts of the files redacted.
TypeOK ==
  /\ stage \in {"split", "parse", "filter", "redact", "done"} /\ next \in Nat \ {0}
  /\ \A f \in ToSet(parsed) \cup ToSet(included) \cup {i \in ToSet(items) : i.of # 0} :
       f.of \in DOMAIN Sections
  /\ \A p \in DOMAIN statuses :
       statuses[p] \in {"fully_reviewed", "partially_included", "skipped"}
  /\ Len(marks) <= Len(included)
  /\ \A f \in DOMAIN marks : marks[f] \in [DOMAIN Texts(included[f]) -> SUBSET (1 .. keys)]

FileOf(n) == {f \in ToSet(included) : f.of = n}
ItemsOf(n) == {i \in ToSet(items) : i.of = n}

\* No change disappears: each section of the patch is reviewed to its last line, or an item
\* says that it, or the rest of it, was left out.
EverySectionAccounted ==
  stage = "done" => \A n \in DOMAIN Sections :
    \/ ItemsOf(n) = {} /\ \E f \in FileOf(n) : Lines(f) = Sections[n]
    \/ /\ Cardinality(ItemsOf(n)) = 1
       /\ \A f \in FileOf(n) : IsStrictPrefix(Lines(f), Sections[n]) /\ f.hunks # <<>>

\* The status of a path is what happened to it.  A path may have several sections (a file
\* that becomes a link has two): then it is what happened to the last that was parsed.
StatusesTell ==
  stage = "done" => \A i \in ToSet(items) \cup ToSet(included) :
    LET last == {f.of : f \in {g \in ToSet(parsed) : g.path = i.path}}
        file == IF last = {} THEN {} ELSE FileOf(Max(last))
    IN  /\ i.path \in DOMAIN statuses
        /\ statuses[i.path] = IF file = {} THEN "skipped"
                              ELSE IF ItemsOf(Max(last)) = {} THEN "fully_reviewed"
                              ELSE "partially_included"

\* A limit leaves out no more than it has to, and is kept.
LimitsBind ==
  /\ Len(included) <= config.maxFiles
  /\ \A f \in ToSet(included) : Fits(f)
  /\ \A i \in ToSet(items) :
       /\ i.reason = "maximum_file_count" => Len(included) = config.maxFiles
       /\ i.reason \in {"file_size_limit", "file_partially_included"} =>
            \E f \in ToSet(parsed) :
              /\ f.of = i.of /\ ~Fits(f)
              /\ LET kept == IF FileOf(i.of) = {} THEN 0
                             ELSE Len((CHOOSE g \in FileOf(i.of) : TRUE).hunks)
                 IN  config.truncate /\ kept < Len(f.hunks) => ~Fits(FirstHunks(f, kept + 1))

\* Moving a file does not make it reviewed: none whose patch says that it comes from, or
\* goes to, a sensitive or excluded path is included.
RenamesJudgedByBothPaths ==
  \A f \in ToSet(included) : \A i \in DOMAIN Sections[f.of] :
    Sections[f.of][i].kind \in {"rename_from", "rename_to"} =>
      Sections[f.of][i].path \notin Sensitive \cup Excluded

Opens(text) == text.key = "opens"

\* The rule matches a text that opens a key; not so for a key that is encrypted.
OpensNumbered(text) == Opens(text) /\ text.begins > 0

\* Text i is a line in a key that text b may have opened.
InKeyOf(texts, b, i) ==
  /\ b < i /\ texts[i].key # "header"
  /\ \A j \in b + 1 .. i - 1 : texts[j].key # "closes"

\* A key that is spread over hunks, or not ended, has one number from the line that opens it
\* on, and no other text is replaced.  Outside of keys each match has its own number.  Texts
\* of the patch, of one file or of two, show one number only if they are in one key, or the
\* later is in an encrypted key: it goes on with the number of the key before it.
KeysHaveOneMarker ==
  \A f \in DOMAIN marks : LET texts == Texts(included[f]) IN \A i \in DOMAIN texts :
    /\ \A b \in DOMAIN texts :
         OpensNumbered(texts[b]) /\ InKeyOf(texts, b, i) => marks[f][i] = {Max(marks[f][b])}
    /\ ~(\E b \in DOMAIN texts : Opens(texts[b]) /\ InKeyOf(texts, b, i)) =>
         Cardinality(marks[f][i]) = texts[i].begins
    /\ \A g \in 1 .. f : \A j \in DOMAIN marks[g] :
         (g < f \/ j < i) /\ marks[g][j] \cap marks[f][i] # {} =>
           \E b \in DOMAIN texts :
             /\ Opens(texts[b]) /\ InKeyOf(texts, b, i)
             /\ \/ g = f /\ b <= j
                \/ /\ texts[b].begins = 0
                   /\ ~\E c \in DOMAIN texts :
                        OpensNumbered(texts[c]) /\ InKeyOf(texts, c, b)

================================================================================
