---------------------------- MODULE TerminalScreen ----------------------------
(* What a terminal's output looks like: TerminalGrid (pandamux-term/src/      *)
(* grid.rs), which reads a grid of the library alacritty_terminal, the search *)
(* in its lines (search.rs), and the desktop's view of one, which fetches     *)
(* output from the server and keeps the cells to draw (TerminalViewState in   *)
(* pandamux-desktop/src/terminal_view.rs).  How the bytes get to the server's *)
(* ring buffer is the module Terminals'; here a character is one piece of     *)
(* output.                                                                    *)
(*                                                                            *)
(* Of the library's grid there is what these readers rely on: characters of   *)
(* one or two columns, wrapping, and lines that move up into the history.     *)
(* Resizing lines that were printed already (reflow), selections by word and  *)
(* line, and how a selection moves with the output are left out.  Rows and    *)
(* columns count from 1 here.                                                 *)
EXTENDS Naturals, SequencesExt, FiniteSets, FiniteSetsExt

CONSTANTS
  TvSizes,     \* sizes of a terminal: <<rows, columns>>
  TvHistory,   \* scrollback_lines (10 000 in the code)
  TvRing,      \* characters the server retains
  TvQueries,   \* what is searched for
  TvMaxOut     \* bound: characters printed

ASSUME TvAssumption ==
  /\ TvSizes \subseteq (Nat \ {0}) \X (Nat \ {0, 1})
  /\ {TvHistory, TvRing, TvMaxOut} \subseteq Nat
  /\ TvQueries \subseteq Seq(STRING)

VARIABLES
  tvOut,    \* what the program printed
  tvSize,   \* the size the server's terminal has
  tvGrid,   \* the grid of the view
  tvView    \* TerminalViewState: rows, cols, attached_offset, last_truncated, cached_cells

tvVars == <<tvOut, tvSize, tvGrid, tvView>>

Letter == "a"        \* a word's character
Capital == "A"       \* the same as a capital
Dot == "."           \* one that ends a word, printed bold
Wide == "W"          \* one of two columns, part of words
NewLine == "nl"
BlankCell == "_"
Spacers == {"w", "l"}   \* the second column of a wide one; the column it did not fit into
InWord(c) == c \in {Letter, Capital, Wide}
Style(c) == IF c = Dot THEN "bold" ELSE "plain"

-----------------------------------------------------------------------------
(* The library's grid. *)

BlankRow(cols) == [c \in 1..cols |-> BlankCell]

FreshGrid(size) ==
  [rows |-> size[1], cols |-> size[2], lines |-> [r \in 1..size[1] |-> BlankRow(size[2])],
   row |-> 1, col |-> 1, wraps |-> FALSE, off |-> 0]

(* The cursor goes to the next row; at the last one the lines move up, and a *)
(* view that is scrolled up stays with its lines.                            *)
NextRow(g) ==
  IF g.row < g.rows THEN [g EXCEPT !.row = @ + 1, !.col = 1, !.wraps = FALSE]
  ELSE LET grown == Append(g.lines, BlankRow(g.cols))
       IN [g EXCEPT !.lines = IF Len(grown) > g.rows + TvHistory THEN Tail(grown) ELSE grown,
                    !.off = IF @ = 0 THEN 0 ELSE Min({@ + 1, TvHistory}),
                    !.col = 1, !.wraps = FALSE]

Written(g, cells) ==
  LET line == Len(g.lines) - g.rows + g.row
      put  == [c \in 1..g.cols |-> IF c \in g.col..(g.col + Len(cells) - 1)
                                   THEN cells[c - g.col + 1] ELSE g.lines[line][c]]
  IN [g EXCEPT !.lines = [g.lines EXCEPT ![line] = put],
               !.col = Min({g.cols, @ + Len(cells)}),
               !.wraps = g.col + Len(cells) > g.cols]

Printed(g, c) ==
  LET start == IF g.wraps THEN NextRow(g) ELSE g
  IN CASE c = NewLine -> NextRow(g)
       [] c = Wide /\ start.col = g.cols -> Written(NextRow(Written(start, <<"l">>)), <<Wide, "w">>)
       [] c = Wide /\ start.col < g.cols -> Written(start, <<Wide, "w">>)
       [] c \in {Letter, Capital, Dot} -> Written(start, <<c>>)

Advance(g, chars) ==
  LET grid[n \in 0..Len(chars)] == IF n = 0 THEN g ELSE Printed(grid[n - 1], chars[n])
  IN grid[Len(chars)]

-----------------------------------------------------------------------------
(* What is read of it. *)

HistorySize(g) == Len(g.lines) - g.rows

(* The cells of a row but for its spacers, and their numbers without them.   *)
CellsOf(row) == {c \in DOMAIN row : row[c] \notin Spacers}
Index(row, c) == Cardinality({k \in CellsOf(row) : k <= c})
Collapsed(row) ==
  [i \in 1..Cardinality(CellsOf(row)) |-> row[CHOOSE c \in CellsOf(row) : Index(row, c) = i]]
Trimmed(text) ==
  SubSeq(text, 1, Max({0} \cup {i \in DOMAIN text : text[i] # BlankCell}))
RowText(row) == Trimmed(Collapsed(row))

SerializeLines(g) == [l \in DOMAIN g.lines |-> RowText(g.lines[l])]

(* The line of the grid a visible row shows.                                 *)
LineAt(g, row) == HistorySize(g) - g.off + row

(* A point of the display as one of the grid, taken to its last row and      *)
(* column when it lies beyond.                                               *)
BufferPoint(g, row, col) ==
  <<Max({1, LineAt(g, Min({row, g.rows}))}), Min({col, g.cols})>>

Before(p, q) == p[1] < q[1] \/ (p[1] = q[1] /\ p[2] <= q[2])

(* A selection from the left half of a cell to the right half of a later one.*)
Selected(g, from, to) == [from |-> BufferPoint(g, from[1], from[2]), to |-> BufferPoint(g, to[1], to[2])]
NoSelection == [from |-> <<1, 1>>, to |-> <<0, 0>>]
InSelection(selection, point) == Before(selection.from, point) /\ Before(point, selection.to)

(* The first and last cell drawn of those selected in a row.                 *)
Span(g, row, selection) ==
  LET line   == LineAt(g, row)
      cells  == {c \in CellsOf(g.lines[line]) : InSelection(selection, <<line, c>>)}
      marked == {Index(g.lines[line], c) : c \in cells}
  IN IF marked = {} THEN << >> ELSE <<Min(marked), Max(marked)>>

\* visible_cells: spacers are left out of the rows, but counted by the cursor.
VisibleCells(g, selection) ==
  [rows |-> [r \in 1..g.rows |-> Collapsed(g.lines[LineAt(g, r)])],
   cursor |-> <<g.row, g.col>>, visible |-> g.off = 0,
   off |-> g.off, history |-> HistorySize(g),
   selection |-> [r \in 1..g.rows |-> Span(g, r, selection)]]

(* region_text: the text from one point of the serialized lines to another,  *)
(* both included.                                                            *)
RegionText(g, a, b) ==
  LET lines == SerializeLines(g)
      from  == IF Before(a, b) THEN a ELSE b
      to    == IF Before(a, b) THEN b ELSE a
      first == Min({from[1], Len(lines)})
      last  == Min({to[1], Len(lines)})
      Upto(l)  == Min({to[2], Len(lines[l])})
  IN IF first = last THEN <<SubSeq(lines[first], from[2], Upto(first))>>
     ELSE <<SubSeq(lines[first], from[2], Len(lines[first]))>>
          \o SubSeq(lines, first + 1, last - 1) \o <<SubSeq(lines[last], 1, Upto(last))>>

(* search: where the query begins in a line, from left to right; a hit goes  *)
(* on behind itself.  Unless the search is an exact one (case_sensitive),     *)
(* capitals are the letters they are capitals of.                             *)
Normalized(c, exact) == IF ~exact /\ c = Capital THEN Letter ELSE c
Alike(text, query, exact) ==
  /\ Len(text) = Len(query)
  /\ \A o \in 1..Len(query) : Normalized(text[o], exact) = Normalized(query[o], exact)
Occurs(line, query, exact, i) ==
  /\ query # << >> /\ i + Len(query) - 1 <= Len(line)
  /\ Alike(SubSeq(line, i, i + Len(query) - 1), query, exact)
WordEnds(line, from, to) ==
  (from = 1 \/ ~InWord(line[from - 1])) /\ (to = Len(line) \/ ~InWord(line[to + 1]))
Matches(line, query, exact, whole, i) ==
  Occurs(line, query, exact, i) /\ (whole => WordEnds(line, i, i + Len(query) - 1))

\* Mutant of LineHits: a hit goes on behind its first character.
LineHitsOverlapping(line, query, exact, whole) ==
  SelectSeq([k \in DOMAIN line |-> k], LAMBDA i : Matches(line, query, exact, whole, i))

LineHits(line, query, exact, whole) ==
  LET found[n \in 0..Len(line)] ==   \* the hits that begin at n or before
        IF n = 0 THEN << >>
        ELSE IF /\ Matches(line, query, exact, whole, n)
                /\ found[n - 1] # << >> => Last(found[n - 1]) + Len(query) <= n
        THEN Append(found[n - 1], n)
        ELSE found[n - 1]
  IN found[Len(line)]

-----------------------------------------------------------------------------
(* What is drawn: batch_row_cells makes one span of neighbours that look the *)
(* same; the cell under the cursor looks like no other.                      *)
BatchRow(cells, row, seen) ==
  LET Look(c) == [style |-> Style(cells[c]), cursor |-> seen.visible /\ seen.cursor = <<row, c>>]
      spans[c \in 0..Len(cells)] ==
        IF c = 0 THEN << >>
        ELSE IF spans[c - 1] # << >> /\ Last(spans[c - 1]).look = Look(c)
        THEN Append(Front(spans[c - 1]), [text |-> Append(Last(spans[c - 1]).text, cells[c]), look |-> Look(c)])
        ELSE Append(spans[c - 1], [text |-> <<cells[c]>>, look |-> Look(c)])
  IN spans[Len(cells)]

(* render_terminal_view: the notices above the rows.                         *)
Drawn(view) ==
  [rows |-> [r \in DOMAIN view.cells.rows |-> BatchRow(view.cells.rows[r], r, view.cells)],
   notices |-> (IF view.truncated THEN {"re-synced"} ELSE {})
               \cup (IF view.cells.off > 0 THEN {"scrolled"} ELSE {})]

-----------------------------------------------------------------------------
(* The view and its terminal. *)

TvInit ==
  /\ tvOut = << >>
  /\ tvSize \in TvSizes
  /\ tvGrid = FreshGrid(tvSize)
  /\ tvView = [rows |-> tvSize[1], cols |-> tvSize[2], off |-> 0, truncated |-> FALSE,
               cells |-> VisibleCells(FreshGrid(tvSize), NoSelection)]

TvPrint ==
  \E c \in {Letter, Capital, Dot, Wide, NewLine} :
    /\ Len(tvOut) < TvMaxOut
    /\ tvOut' = Append(tvOut, c)
    /\ UNCHANGED <<tvSize, tvGrid, tvView>>

(* Another view of the same terminal gave it another size.                   *)
TvSizeChanges ==
  \E size \in TvSizes :
    /\ tvSize' = size
    /\ UNCHANGED <<tvOut, tvGrid, tvView>>

(* apply_attach_result with feed_bytes: the size is the server's, but only a *)
(* grid that lost output is made anew in it.                                 *)
TvAttach ==
  LET truncated == tvView.off + TvRing < Len(tvOut)
      news == SubSeq(tvOut, IF truncated THEN Len(tvOut) - TvRing + 1 ELSE tvView.off + 1, Len(tvOut))
      grid == Advance(IF truncated THEN FreshGrid(tvSize) ELSE tvGrid, news)
  IN /\ tvGrid' = grid
     /\ tvView' = [rows |-> tvSize[1], cols |-> tvSize[2], off |-> Len(tvOut), truncated |-> truncated,
                   cells |-> VisibleCells(grid, NoSelection)]
     /\ UNCHANGED <<tvOut, tvSize>>

(* scroll: by lines up or down, or by a page, or to an end.                  *)
TvScroll ==
  \E up \in 0..HistorySize(tvGrid) :
    LET grid == [tvGrid EXCEPT !.off = up]
    IN /\ tvGrid' = grid
       /\ tvView' = [tvView EXCEPT !.cells = VisibleCells(grid, NoSelection)]
       /\ UNCHANGED <<tvOut, tvSize>>

(* resize, of the view and by it of the terminal, before anything is shown.  *)
TvResize ==
  \E size \in TvSizes :
    /\ tvGrid = FreshGrid(<<tvGrid.rows, tvGrid.cols>>)
    /\ tvGrid' = FreshGrid(size) /\ tvSize' = size
    /\ tvView' = [tvView EXCEPT !.rows = size[1], !.cols = size[2],
                                !.cells = VisibleCells(FreshGrid(size), NoSelection)]
    /\ UNCHANGED tvOut

TvNext == TvPrint \/ TvSizeChanges \/ TvAttach \/ TvScroll \/ TvResize

TvSpec == TvInit /\ [][TvNext]_tvVars

-----------------------------------------------------------------------------
(* The texts drawn as the cursor in a row, and the row of the grid the cursor *)
(* is in when the view is not scrolled up.                                    *)
CursorTexts(spans) == {s.text : s \in {t \in ToSet(spans) : t.look.cursor}}
CursorLine == tvGrid.lines[HistorySize(tvGrid) + tvGrid.row]

(* What is drawn is what the grid shows now: each row's text, its cells with *)
(* the looks they have, and the cursor in its row and, where no wide          *)
(* character stands before it, on its cell.  Behind one it need not be: the   *)
(* position reported counts columns, and the cells drawn leave the second     *)
(* column of a wide character out.                                            *)
DrawnRight ==
  LET drawn == Drawn(tvView)
      plain == \A c \in 1..tvGrid.col : CursorLine[c] \notin Spacers
  IN /\ \A r \in 1..tvGrid.rows :
          /\ FlattenSeq([s \in DOMAIN drawn.rows[r] |-> drawn.rows[r][s].text])
               = Collapsed(tvGrid.lines[LineAt(tvGrid, r)])
          /\ CursorTexts(drawn.rows[r]) # {} => r = tvGrid.row /\ tvGrid.off = 0
     /\ tvGrid.off = 0 /\ plain => CursorTexts(drawn.rows[tvGrid.row]) = {<<CursorLine[tvGrid.col]>>}

(* Every hit of a search, read back by its place, is the query, capitals       *)
(* being letters unless they are told apart; hits share no character, and     *)
(* what matches but is not a hit shares one with a hit.                       *)
HitsRight ==
  LET lines == SerializeLines(tvGrid) IN
  \A query \in TvQueries : \A l \in DOMAIN lines : \A exact, whole \in BOOLEAN :
    LET hits == LineHits(lines[l], query, exact, whole)
        Taken(i) == i..(i + Len(query) - 1)
        Read(i) == RegionText(tvGrid, <<l, i>>, <<l, i + Len(query) - 1>>)
    IN /\ \A h \in DOMAIN hits : Len(Read(hits[h])) = 1 /\ Alike(Read(hits[h])[1], query, exact)
       /\ \A h, k \in DOMAIN hits : h # k => Taken(hits[h]) \cap Taken(hits[k]) = {}
       /\ \A i \in DOMAIN lines[l] :
            Matches(lines[l], query, exact, whole, i) => \E h \in DOMAIN hits : Taken(i) \cap Taken(hits[h]) # {}

(* Wherever the view is scrolled to, dragging over cells of the display marks *)
(* of the cells drawn those dragged over and no others; the second column of  *)
(* a wide character is not drawn, and marks nothing.                          *)
MarksRight ==
  LET points == (1..tvGrid.rows) \X (1..tvGrid.cols)
  IN \A from, to \in points : Before(from, to) =>
       LET marks == VisibleCells(tvGrid, Selected(tvGrid, from, to)).selection
       IN \A r \in 1..tvGrid.rows :
            LET line == tvGrid.lines[LineAt(tvGrid, r)]
            IN \A c \in CellsOf(line) :
                 Before(from, <<r, c>>) /\ Before(<<r, c>>, to)
                   <=> marks[r] # << >> /\ Index(line, c) \in marks[r][1]..marks[r][2]

(* Once output was fetched, what a reader sees of a terminal, finds in it    *)
(* and marks on it is what is on its grid.                                   *)
TvScreenRight == tvView.off > 0 => DrawnRight /\ HitsRight /\ MarksRight
=============================================================================
