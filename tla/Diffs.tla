-------------------------------- MODULE Diffs --------------------------------
(* The two readers of a unified diff: the desktop's viewer (pandamux-desktop/ *)
(* src/diff_view.rs), which lists its lines with numbers, marks the changed   *)
(* words and sets the two sides next to each other, and the summary for the   *)
(* next agent (pandamux-core/src/ast_diff.rs), which counts lines and lists   *)
(* the symbols they declare.  Both go through the text once, line by line,    *)
(* and know a line by how it begins.                                          *)
(*                                                                            *)
(* A diff grows here as git writes one.  A line is its first character and a  *)
(* sequence of words, a path the parts its readers tell apart; how words are  *)
(* coloured, and paths that git quotes or renames, are left out.              *)
EXTENDS Naturals, SequencesExt, FiniteSets, FiniteSetsExt

CONSTANTS
  DfPaths,      \* files a diff is about: sequences of names, "b/" and blanks
  DfContents,   \* what a line may say: sequences of words
  DfGap,        \* unchanged lines git leaves out between two hunks
  DfMaxParts    \* bound: files, hunks and lines of a diff

Blank == "_"             \* a run of white space between words
NullPath == <<"null">>   \* what git writes for a missing side

ASSUME DfAssumption ==
  /\ DfMaxParts \in Nat /\ DfGap \in Nat
  /\ DfContents \subseteq Seq(STRING) /\ DfPaths \subseteq Seq(STRING) \ {NullPath}

VARIABLE dfDiff   \* the diff as git writes it: files, their hunks, their lines

dfVars == dfDiff

Declares == "fn"         \* begins the declaration of a symbol
NoDfFile == [path |-> "none"]
NoHunk == [lines |-> <<"none">>]

-----------------------------------------------------------------------------
(* What git writes. *)

DfInit == dfDiff = << >>

DfParts(diff) ==
  LET OfHunk(n, h) == n + 1 + Len(h.lines)
      OfFile(n, f) == FoldLeft(OfHunk, n + 1, f.hunks)
  IN FoldLeft(OfFile, 0, diff)

(* Where a hunk begins on the old side and on the new.                        *)
DfHunk(old, new) == [old |-> old, new |-> new, lines |-> << >>]

(* A file of the repository, one side of which is missing when it is created *)
(* or deleted, or lines an agent sent without any header.                    *)
DfNewFile ==
  \E p \in DfPaths, form \in {"kept", "created", "deleted", "snippet"} :
    /\ \A i \in DOMAIN dfDiff : dfDiff[i].path # p /\ dfDiff[i].form # "snippet"
    /\ form = "snippet" => dfDiff = << >>
    /\ LET first == DfHunk(IF form = "created" THEN 0 ELSE 1, IF form = "deleted" THEN 0 ELSE 1)
       IN dfDiff' = Append(dfDiff, [path |-> p, form |-> form, hunks |-> <<first>>])

OldSide(kind) == kind \in {" ", "-"}
NewSide(kind) == kind \in {" ", "+"}

(* Where the line after the first n of these stands in the file, if the first *)
(* of its side stands at from.                                               *)
NumberAfter(from, lines, n, Side(_)) == from + Cardinality({k \in 1..n : Side(lines[k][1])})

(* On each side a hunk begins after the last one's lines and the gap.        *)
DfNewHunk ==
  /\ dfDiff # << >>
  /\ LET f == Last(dfDiff)
         h == Last(f.hunks)
         end == Len(h.lines)
     IN /\ f.form = "kept" /\ h.lines # << >>
        /\ dfDiff' = [dfDiff EXCEPT ![Len(dfDiff)].hunks =
                        Append(@, DfHunk(NumberAfter(h.old, h.lines, end, OldSide) + DfGap,
                                         NumberAfter(h.new, h.lines, end, NewSide) + DfGap))]

(* Of lines that change together git writes the removed ones first.          *)
DfNewLine ==
  /\ dfDiff # << >>
  /\ LET f == Len(dfDiff)
         h == Len(dfDiff[f].hunks)
         lines == dfDiff[f].hunks[h].lines
     IN \E sign \in {" ", "-", "+"}, words \in DfContents :
          /\ sign = "-" /\ lines # << >> => Last(lines)[1] # "+"
          /\ dfDiff[f].form = "deleted" => sign = "-"
          /\ dfDiff[f].form = "created" => sign = "+"
          /\ dfDiff' = [dfDiff EXCEPT ![f].hunks[h].lines = Append(@, <<sign, words>>)]

DfNext ==
  /\ DfParts(dfDiff) < DfMaxParts
  /\ DfNewFile \/ DfNewHunk \/ DfNewLine

DfSpec == DfInit /\ [][DfNext]_dfVars

HunkText(f, h) == (IF f.form = "snippet" THEN << >> ELSE <<<<"@@", h.old, h.new>>>>) \o h.lines
FileHeader(f) ==
  IF f.form = "snippet" THEN << >>
  ELSE <<<<"diff", f.path>>, <<"index">>, <<"---", IF f.form = "created" THEN NullPath ELSE f.path>>,
         <<"+++", IF f.form = "deleted" THEN NullPath ELSE f.path>>>>
FileText(f) == FileHeader(f) \o FlattenSeq([h \in DOMAIN f.hunks |-> HunkText(f, f.hunks[h])])
DfText(diff) == FlattenSeq([i \in DOMAIN diff |-> FileText(diff[i])])

(* A line removed that says "--", or added that says "++", reads like the     *)
(* header of a file; all of it does when a blank follows.                     *)
LooksLikeHeader(line) ==
  line[1] \in {"-", "+"} /\ Len(line[2]) > 1 /\ line[2][1] = line[1] /\ line[2][2] = line[1]
ReadsAsHeader(line) == LooksLikeHeader(line) /\ Len(line[2]) > 2 /\ line[2][3] = Blank
Begins(line) == IF ReadsAsHeader(line) THEN (IF line[1] = "-" THEN "---" ELSE "+++") ELSE line[1]
HeaderRest(line) == IF ReadsAsHeader(line) THEN SubSeq(line[2], 4, Len(line[2])) ELSE line[2]

(* Git writes a path after "a/" and after "b/".  The viewer splits the header *)
(* of a file at its blanks, takes the second word of the two paths, and      *)
(* strips "b/" from it as often as it is there.                              *)
FromFirst(seq, Is(_)) ==
  LET places == {i \in DOMAIN seq : Is(seq[i])}
  IN IF places = {} THEN << >> ELSE SubSeq(seq, Min(places), Len(seq))
UpToFirst(seq, Is(_)) ==
  LET places == {i \in DOMAIN seq : Is(seq[i])}
  IN IF places = {} THEN seq ELSE SubSeq(seq, 1, Min(places) - 1)

IsBlank(part) == part = Blank
ShownPath(p) ==
  LET paths  == <<"a/">> \o p \o <<Blank, "b/">> \o p
      second == UpToFirst(Tail(FromFirst(paths, IsBlank)), IsBlank)
  IN FromFirst(second, LAMBDA part : part # "b/")

(* Git ends the line of a side with a tab when the path has a blank.  The    *)
(* summary strips one "b/" and takes the rest.                               *)
SummedPath(p) == IF Blank \in ToSet(p) THEN Append(p, "tab") ELSE p

-----------------------------------------------------------------------------
(* Words that changed. *)

(* The table of lengths, and the way back through it.                        *)
LcsLengths(a, b) ==
  LET len[c \in (0..Len(a)) \X (0..Len(b))] ==
        IF c[1] = 0 \/ c[2] = 0 THEN 0
        ELSE IF a[c[1]] = b[c[2]] THEN len[<<c[1] - 1, c[2] - 1>>] + 1
        ELSE Max({len[<<c[1], c[2] - 1>>], len[<<c[1] - 1, c[2]>>]})
  IN len

Lcs(a, b) ==
  LET len == LcsLengths(a, b)
      back[c \in (0..Len(a)) \X (0..Len(b))] ==
        IF c[1] = 0 \/ c[2] = 0 THEN << >>
        ELSE IF a[c[1]] = b[c[2]] THEN Append(back[<<c[1] - 1, c[2] - 1>>], a[c[1]])
        ELSE IF len[<<c[1] - 1, c[2]>>] >= len[<<c[1], c[2] - 1>>] THEN back[<<c[1] - 1, c[2]>>]
        ELSE back[<<c[1], c[2] - 1>>]
  IN back[<<Len(a), Len(b)>>]

(* The places of the words that are not met on the way through the common    *)
(* ones; blanks are never marked.                                            *)
MetIn(words, common) ==
  LET met[i \in 0..Len(words)] ==
        IF i = 0 THEN 0
        ELSE IF met[i - 1] < Len(common) /\ words[i] = common[met[i - 1] + 1] THEN met[i - 1] + 1
        ELSE met[i - 1]
  IN met

Unmatched(words, common) ==
  LET met == MetIn(words, common)
  IN {i \in 1..Len(words) : met[i] = met[i - 1] /\ words[i] # Blank}

(* diff_words_with_emphasis of one line against its counterpart.             *)
MarkedWords(words, other, added) ==
  Unmatched(words, IF added THEN Lcs(other, words) ELSE Lcs(words, other))

-----------------------------------------------------------------------------
(* The viewer: parse_unified_diff. *)

DfNothing == [files |-> << >>, file |-> NoDfFile, hunk |-> NoHunk,
              old |-> 0, new |-> 0, removed |-> << >>, added |-> << >>]

FreshFile(path) == [path |-> path, hunks |-> << >>, additions |-> 0, deletions |-> 0]
FreshHunk == [lines |-> << >>, additions |-> 0, deletions |-> 0]

(* flush_pending_emphasis: the removed and added lines since the last        *)
(* unchanged one are compared in pairs.                                      *)
Flushed(s) ==
  LET pairs == 1..Min({Len(s.removed), Len(s.added)})
      lines == s.hunk.lines
      Marked(i) ==
        IF \E k \in pairs : s.removed[k] = i
        THEN MarkedWords(lines[i].words, lines[s.added[CHOOSE k \in pairs : s.removed[k] = i]].words, FALSE)
        ELSE IF \E k \in pairs : s.added[k] = i
        THEN MarkedWords(lines[i].words, lines[s.removed[CHOOSE k \in pairs : s.added[k] = i]].words, TRUE)
        ELSE lines[i].marks
  IN [s EXCEPT !.hunk.lines = [i \in DOMAIN lines |-> [lines[i] EXCEPT !.marks = Marked(i)]],
               !.removed = << >>, !.added = << >>]

(* The end of a hunk, and of a file.                                         *)
HunkAdded(s) ==
  [s EXCEPT !.file.hunks = Append(@, s.hunk),
            !.file.additions = @ + s.hunk.additions,
            !.file.deletions = @ + s.hunk.deletions,
            !.hunk = NoHunk]
HunkDone(s) == IF s.hunk = NoHunk THEN s ELSE HunkAdded(Flushed(s))

FileAdded(s) ==
  IF s.file = NoDfFile THEN s ELSE [s EXCEPT !.files = Append(@, s.file), !.file = NoDfFile]
FileDone(s) == FileAdded(HunkDone(s))

InFile(s, path) == IF s.file = NoDfFile THEN [s EXCEPT !.file = FreshFile(path)] ELSE s

ShownLine(kind, old, new, words) == [kind |-> kind, old |-> old, new |-> new, words |-> words, marks |-> {}]

(* A line inside a hunk; a number of 0 stands for none.                      *)
AddedLine(s, words) ==
  [s EXCEPT !.added = Append(@, Len(s.hunk.lines) + 1),
            !.hunk.lines = Append(@, ShownLine("+", 0, s.new, words)),
            !.hunk.additions = @ + 1, !.new = @ + 1]

RemovedLine(s, words) ==
  [s EXCEPT !.removed = Append(@, Len(s.hunk.lines) + 1),
            !.hunk.lines = Append(@, ShownLine("-", s.old, 0, words)),
            !.hunk.deletions = @ + 1, !.old = @ + 1]

\* Mutant of ContextLine: the old side's number stands still.
ContextLineOneSide(s, words) ==
  [Flushed(s) EXCEPT !.hunk.lines = Append(@, ShownLine(" ", s.old, s.new, words)),
                     !.new = @ + 1]

ContextLine(s, words) ==
  [Flushed(s) EXCEPT !.hunk.lines = Append(@, ShownLine(" ", s.old, s.new, words)),
                     !.old = @ + 1, !.new = @ + 1]

(* A changed line where no hunk was announced begins one; it is not among    *)
(* those waiting for a counterpart.                                          *)
ImplicitHunk(s, line) ==
  LET begun == [InFile(s, <<"snippet">>) EXCEPT !.hunk = FreshHunk, !.old = 1, !.new = 1]
      first == IF line[1] = "+" THEN AddedLine(begun, line[2]) ELSE RemovedLine(begun, line[2])
  IN [first EXCEPT !.removed = s.removed, !.added = s.added]

HunkHeader(s, old, new) ==
  [InFile(HunkDone(s), <<"snippet">>) EXCEPT !.hunk = FreshHunk, !.old = old, !.new = new]

ViewLine(s, line) ==
  CASE Begins(line) = "diff" -> [FileDone(s) EXCEPT !.file = FreshFile(ShownPath(line[2]))]
    [] Begins(line) \in {"---", "+++"} -> InFile(s, HeaderRest(line))
    [] Begins(line) = "@@" -> HunkHeader(s, line[2], line[3])
    [] Begins(line) = "+" /\ s.hunk # NoHunk /\ ~LooksLikeHeader(line) -> AddedLine(s, line[2])
    [] Begins(line) = "-" /\ s.hunk # NoHunk /\ ~LooksLikeHeader(line) -> RemovedLine(s, line[2])
    [] Begins(line) = " " /\ s.hunk # NoHunk -> ContextLine(s, line[2])
    [] Begins(line) \in {"+", "-"} /\ s.hunk = NoHunk -> ImplicitHunk(s, line)
    [] OTHER -> s

Viewed(text) ==
  LET state[i \in 0..Len(text)] == IF i = 0 THEN DfNothing ELSE ViewLine(state[i - 1], text[i])
  IN state[Len(text)]

View(text) == FileDone(Viewed(text)).files

(* generate_split_rows: a run of removed lines stands next to the added ones *)
(* that follow it, a missing side is NoLine.                                 *)
NoLine == [kind |-> "none"]
Beyond(seq, i) == IF i \in DOMAIN seq THEN seq[i] ELSE NoLine
RunOf(lines, from, kind) ==
  SubSeq(lines, from, Max({i \in (from - 1)..Len(lines) : \A k \in from..i : lines[k].kind = kind}))

SplitRows(lines) ==
  LET rows[i \in 1..(Len(lines) + 1)] ==
        IF i > Len(lines) THEN << >>
        ELSE CASE lines[i].kind = " " -> <<<<lines[i], lines[i]>>>> \o rows[i + 1]
               [] lines[i].kind = "+" -> <<<<NoLine, lines[i]>>>> \o rows[i + 1]
               [] lines[i].kind = "-" ->
                    LET gone == RunOf(lines, i, "-")
                        come == RunOf(lines, i + Len(gone), "+")
                    IN [k \in 1..Max({Len(gone), Len(come)}) |-> <<Beyond(gone, k), Beyond(come, k)>>]
                       \o rows[i + Len(gone) + Len(come)]
  IN rows[1]

(* What is drawn of it.  The application draws a diff with a state of its    *)
(* own each time, so that nothing is ever folded and the clicks on the       *)
(* switches are lost; the split view is there for other callers.             *)
FreshViewer == [mode |-> "unified", folded |-> {}, emphasis |-> TRUE]

WordsSpan(line, emphasis) == <<line.words, IF line.kind # " " /\ emphasis THEN line.marks ELSE {}>>

UnifiedRow(line, emphasis) ==
  [old |-> line.old, new |-> line.new, sign |-> line.kind, text |-> WordsSpan(line, emphasis)]

UnifiedHunk(hunk, folded, emphasis) ==
  [stats |-> <<hunk.additions, hunk.deletions>>,
   rows  |-> IF folded THEN << >> ELSE [i \in DOMAIN hunk.lines |-> UnifiedRow(hunk.lines[i], emphasis)]]

SplitCell(line, left, emphasis) ==
  IF line = NoLine THEN NoLine
  ELSE [number |-> IF line.kind = "-" \/ (line.kind = " " /\ left) THEN line.old ELSE line.new,
        sign |-> line.kind, text |-> WordsSpan(line, emphasis)]

SplitHunk(hunk, folded, emphasis) ==
  LET rows == SplitRows(hunk.lines)
  IN [stats |-> <<hunk.additions, hunk.deletions>>,
      rows  |-> IF folded THEN << >>
                ELSE [i \in DOMAIN rows |-> <<SplitCell(rows[i][1], TRUE, emphasis),
                                              SplitCell(rows[i][2], FALSE, emphasis)>>]]

DrawnFile(file, viewer) ==
  [path |-> file.path, stats |-> <<file.additions, file.deletions>>,
   hunks |-> [h \in DOMAIN file.hunks |->
                IF viewer.mode = "split" THEN SplitHunk(file.hunks[h], h \in viewer.folded, viewer.emphasis)
                ELSE UnifiedHunk(file.hunks[h], h \in viewer.folded, viewer.emphasis)]]

DrawnDiff(files, viewer) == [f \in DOMAIN files |-> DrawnFile(files[f], viewer)]

-----------------------------------------------------------------------------
(* The summary: compress_unified_diff. *)

Symbols(words) == IF Len(words) > 2 /\ words[1] = Declares /\ words[2] = Blank THEN {words[3]} ELSE {}

Entry(file, name) == {c \in ToSet(file.changes) : c.name = name}

(* A name already listed is not listed again by an added line; a removed     *)
(* line turns it into a modified one.                                        *)
NoteAdded(file, words) ==
  LET f == [file EXCEPT !.added = @ + 1]
      new == {n \in Symbols(words) : Entry(file, n) = {}}
  IN IF new = {} THEN f
     ELSE [f EXCEPT !.changes = Append(@, [name |-> CHOOSE n \in new : TRUE, change |-> "added"])]

NoteRemoved(file, words) ==
  LET f == [file EXCEPT !.removed = @ + 1]
      names == Symbols(words)
  IN IF names = {} THEN f
     ELSE LET n == CHOOSE x \in names : TRUE
          IN IF Entry(file, n) = {} THEN [f EXCEPT !.changes = Append(@, [name |-> n, change |-> "removed"])]
             ELSE [f EXCEPT !.changes = [i \in DOMAIN @ |->
                                           IF @[i].name = n THEN [@[i] EXCEPT !.change = "modified"] ELSE @[i]]]

SummaryFile(path) == [path |-> path, changes |-> << >>, added |-> 0, removed |-> 0]
SummaryDone(s) ==
  IF s.file = NoDfFile THEN s ELSE [files |-> Append(s.files, s.file), file |-> NoDfFile]

InSummary(s, file) == [s EXCEPT !.file = file]

(* A path is named under b/: not by the header of a file that is gone, which  *)
(* counts as an added line of the file before, but by an added line that      *)
(* says "++ b/".                                                              *)
NamesPath(line) ==
  IF ReadsAsHeader(line) THEN HeaderRest(line) # << >> /\ Head(HeaderRest(line)) = "b/"
  ELSE line[2] # NullPath
NamedPath(line) ==
  IF ReadsAsHeader(line) THEN Tail(HeaderRest(line)) ELSE SummedPath(line[2])

SummaryLine(s, line) ==
  CASE Begins(line) \in {"diff", "---", "@@"} -> s
    [] Begins(line) = "+++" /\ NamesPath(line) -> InSummary(SummaryDone(s), SummaryFile(NamedPath(line)))
    [] line[1] = "+++" /\ ~NamesPath(line) /\ s.file # NoDfFile -> InSummary(s, [s.file EXCEPT !.added = @ + 1])
    [] line[1] = "+" /\ ~(Begins(line) = "+++" /\ NamesPath(line)) /\ s.file # NoDfFile ->
         InSummary(s, NoteAdded(s.file, line[2]))
    [] Begins(line) = "-" /\ s.file # NoDfFile -> InSummary(s, NoteRemoved(s.file, line[2]))
    [] OTHER -> s

Summed(text) ==
  LET state[i \in 0..Len(text)] ==
        IF i = 0 THEN [files |-> << >>, file |-> NoDfFile] ELSE SummaryLine(state[i - 1], text[i])
  IN state[Len(text)]

Summary(text) == SummaryDone(Summed(text)).files

-----------------------------------------------------------------------------
(* The places in the one set stand for those in the other, in their order.   *)
InOrder(P, Q, Same(_, _)) ==
  \E at \in [P -> Q] :
    /\ \A i, j \in P : i < j => at[i] < at[j]
    /\ \A q \in Q : \E p \in P : at[p] = q
    /\ \A p \in P : Same(p, at[p])

(* A hunk drawn has git's lines in git's order with the numbers they have in *)
(* the two files, unless one among them was left out because it looks like a *)
(* header; and the columns of the split drawing are its two sides.           *)
Kept(lines) == {i \in DOMAIN lines : ~LooksLikeHeader(lines[i])}

SideKept(rows, split, k, Has(_), Number(_)) ==
  InOrder({r \in DOMAIN split : split[r][k] # NoLine}, {i \in DOMAIN rows : Has(rows[i].sign)},
          LAMBDA r, i : split[r][k] = [number |-> Number(rows[i]), sign |-> rows[i].sign, text |-> rows[i].text])

HunkKept(git, unified, split) ==
  LET rows == unified.rows
  IN /\ InOrder(Kept(git.lines), DOMAIN rows, LAMBDA i, r : git.lines[i] = <<rows[r].sign, rows[r].text[1]>>)
     /\ Kept(git.lines) = DOMAIN git.lines => \A i \in DOMAIN rows :
          /\ OldSide(rows[i].sign) => rows[i].old = NumberAfter(git.old, git.lines, i - 1, OldSide)
          /\ NewSide(rows[i].sign) => rows[i].new = NumberAfter(git.new, git.lines, i - 1, NewSide)
     /\ SideKept(rows, split.rows, 1, OldSide, LAMBDA row : row.old)
     /\ SideKept(rows, split.rows, 2, NewSide, LAMBDA row : row.new)

(* The words left unmarked in a removed line and in the added line set       *)
(* against it are the same words, and no longer common part was left out.    *)
SameWords(a, P, b, Q) == InOrder(P, Q, LAMBDA i, j : a[i] = b[j])
Unmarked(line) == {i \in DOMAIN line.words : i \notin line.marks /\ line.words[i] # Blank}

WordsPair(view) ==
  \A f \in DOMAIN view : \A h \in DOMAIN view[f].hunks :
    LET rows == SplitRows(view[f].hunks[h].lines)
    IN \A r \in DOMAIN rows :
         LET gone == rows[r][1]
             come == rows[r][2]
         IN (dfDiff[f].form = "kept" /\ gone.kind = "-" /\ come.kind = "+") =>
              /\ SameWords(gone.words, Unmarked(gone), come.words, Unmarked(come))
              /\ \A P \in SUBSET (DOMAIN gone.words), Q \in SUBSET (DOMAIN come.words) :
                   SameWords(gone.words, P, come.words, Q) => Cardinality(P) <= Len(Lcs(gone.words, come.words))

(* No file is gone, and a line the viewer leaves out the summary does too.   *)
CountedAlike(file) ==
  /\ file.form \in {"kept", "created"}
  /\ \A h \in DOMAIN file.hunks : \A i \in DOMAIN file.hunks[h].lines :
       LooksLikeHeader(file.hunks[h].lines[i]) => Begins(file.hunks[h].lines[i]) = "---"

(* A path without blanks, that does not begin with "b/" itself.              *)
PlainPath(p) == Blank \notin ToSet(p) /\ Head(p) # "b/"

FilesKept(drawn, split, sums) ==
  (\A i \in DOMAIN dfDiff : dfDiff[i].form # "snippet") =>
    /\ Len(drawn) = Len(dfDiff)
    /\ \A i \in DOMAIN dfDiff :
         /\ PlainPath(dfDiff[i].path) => drawn[i].path = dfDiff[i].path
         /\ Len(drawn[i].hunks) = Len(dfDiff[i].hunks)
         /\ \A h \in DOMAIN dfDiff[i].hunks :
              HunkKept(dfDiff[i].hunks[h], drawn[i].hunks[h], split[i].hunks[h])
    /\ (\A i \in DOMAIN dfDiff : CountedAlike(dfDiff[i])) =>
         /\ Len(sums) = Len(drawn)
         /\ \A i \in DOMAIN drawn :
              /\ <<sums[i].added, sums[i].removed>> = drawn[i].stats
              /\ PlainPath(dfDiff[i].path) => sums[i].path = drawn[i].path

BothKept(text, view) ==
  /\ FilesKept(DrawnDiff(view, FreshViewer), DrawnDiff(view, [FreshViewer EXCEPT !.mode = "split"]), Summary(text))
  /\ WordsPair(view)

(* What is drawn of a diff of git's are its files and hunks, with the lines   *)
(* and the numbers they have in the two files, and of lines set against each  *)
(* other the words that changed are marked; and as long as no file is         *)
(* deleted, and no line left out of the drawing for what it says is counted,  *)
(* the summary for the next agent has the same files with the same numbers of *)
(* lines.  Both name a file by its path if that has no blank and does not     *)
(* begin with "b/" itself.                                                    *)
DfKept == BothKept(DfText(dfDiff), View(DfText(dfDiff)))
=============================================================================
