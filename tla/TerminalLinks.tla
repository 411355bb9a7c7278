---------------------------- MODULE TerminalLinks ----------------------------
(***************************************************************************)
(* What is a link in the text of a terminal, and which link is under the   *)
(* mouse (src/src/lib/terminal-url-links.ts, terminal-cell-columns.ts,     *)
(* file-link-classify.ts and the two ways to them in terminal-manager.ts:  *)
(* xterm's link providers and, while a program has the mouse, the capture  *)
(* of mousedown).                                                          *)
(*                                                                         *)
(* A URL or a path is found in the text of rows, by string offsets; the    *)
(* mouse is over a cell.  A wide character is one character in two cells,  *)
(* an accented one two characters in one cell, a cell never written to a   *)
(* space.  The program under test prints from left to right, one output    *)
(* at a time; xterm wraps softly, the program hard.                        *)
(***************************************************************************)
EXTENDS Naturals, Sequences, SequencesExt, FiniteSets, FiniteSetsExt

CONSTANTS Cols,       \* of the terminal
          Outputs,    \* sets of outputs, of which a program uses one
          MaxOutputs  \* bound

(***************************************************************************)
(* Outputs: "url" stands for "http://a/", whose characters are never       *)
(* apart, "accent" for a combining mark, "gap" for a move of the cursor.   *)
(* "wide" is a wide letter, "stop" a wide sentence delimiter.              *)
(***************************************************************************)
Glyph == {"url", "letter", "digit", "slash", "dot", "colon", "quote", "space",
         "accent", "wide", "stop"}
Output == Glyph \cup {"gap", "newline"}

LinksAssumption ==
  /\ Cols \in Nat \ {0, 1} /\ MaxOutputs \in Nat
  /\ Outputs \subseteq SUBSET Output

VARIABLES rows,     \* of xterm's buffer: the cells that were written, and isWrapped
          program,  \* its outputs
          outputs   \* how many there were

linkVars == <<rows, program, outputs>>

Cell == [width : 0 .. 2, chars : Seq(Glyph)]

TypeOK ==
  /\ \A i \in DOMAIN rows :
       /\ rows[i].isWrapped \in BOOLEAN /\ Len(rows[i].cells) <= Cols
       /\ \A x \in DOMAIN rows[i].cells : rows[i].cells[x] \in Cell
  /\ rows # <<>> /\ program \in Outputs /\ outputs \in 0 .. MaxOutputs

-----------------------------------------------------------------------------
(* xterm's buffer.                                                         *)

Width(ch) == IF ch \in {"wide", "stop"} THEN 2 ELSE 1

Cells(ch) ==
  IF ch = "gap" THEN << [width |-> 1, chars |-> <<>>] >>
  ELSE << [width |-> Width(ch), chars |-> <<ch>>] >> \o
       (IF Width(ch) = 2 THEN << [width |-> 0, chars |-> <<>>] >> ELSE <<>>)

\* A character that does not fit begins a row that is marked as wrapped.
Write(ch) ==
  LET row == Last(rows) IN
  IF Len(row.cells) + Width(ch) <= Cols
  THEN rows' = [rows EXCEPT ![Len(rows)].cells = @ \o Cells(ch)]
  ELSE rows' = Append(rows, [cells |-> Cells(ch), isWrapped |-> TRUE])

\* A combining mark joins the character before it, a letter here.
Accent ==
  LET row == Last(rows) n == Len(row.cells) IN
  /\ n > 0 /\ row.cells[n].chars = <<"letter">>
  /\ rows' = [rows EXCEPT ![Len(rows)].cells[n].chars = Append(@, "accent")]

\* The cursor moves on; at the right edge it stays.
Gap ==
  /\ Len(Last(rows).cells) < Cols
  /\ rows' = [rows EXCEPT ![Len(rows)].cells = @ \o Cells("gap")]

Newline == rows' = Append(rows, [cells |-> <<>>, isWrapped |-> FALSE])

\* translateToString(true): the cells that were written to, from left to right.
translateToString(row) ==
  LET written == {x \in DOMAIN row.cells : row.cells[x].chars # <<>>}
      visited == SelectSeq(SubSeq(row.cells, 1, Max(written \cup {0})),
                           LAMBDA cell : cell.width # 0)
  IN FlattenSeq([x \in DOMAIN visited |->
       IF visited[x].chars = <<>> THEN <<"space">> ELSE visited[x].chars])

-----------------------------------------------------------------------------
(* terminal-cell-columns.ts; offsets and columns count from 0.             *)

charLen(cell) == IF cell.chars = <<>> THEN 1 ELSE Len(cell.chars)

Sum(numbers) == FoldLeft(LAMBDA sum, n : sum + n, 0, numbers)

\* The cells of a row as far as its text goes, with the characters and the columns
\* that come before each.
Visited(row) ==
  LET cells == SelectSeq(row.cells, LAMBDA cell : cell.width # 0)
      placed == [k \in DOMAIN cells |->
        [offset |-> Sum([i \in 1 .. k - 1 |-> charLen(cells[i])]), len |-> charLen(cells[k]),
         col |-> Sum([i \in 1 .. k - 1 |-> cells[i].width]), width |-> cells[k].width]]
  IN SelectSeq(placed, LAMBDA cell : cell.offset < Len(translateToString(row)))

harvestColumnMap(row) ==
  LET cells == Visited(row) IN
  [columnOfOffset |-> FlattenSeq([k \in DOMAIN cells |->
                        [i \in 1 .. cells[k].len |-> cells[k].col]]),
   offsetOfColumn |-> FlattenSeq([k \in DOMAIN cells |->
                        [i \in 1 .. cells[k].width |-> cells[k].offset]])]

\* Past the last cell the columns go on singly.
offsetToColumn(map, offset) ==
  LET of == map.columnOfOffset IN
  IF offset < Len(of) THEN of[offset + 1]
  ELSE Len(map.offsetOfColumn) + (offset - Len(of))

\* Of a range that ends with the character before this offset.
offsetToColumnExclusive(map, offset) ==
  LET col == offsetToColumn(map, offset - 1)
      next == offsetToColumn(map, offset)
  IN IF next > col THEN next ELSE col + 1

columnToOffset(map, col) ==
  LET of == map.offsetOfColumn IN
  IF col < Len(of) THEN of[col + 1] ELSE Len(map.columnOfOffset)

-----------------------------------------------------------------------------
(* terminal-url-links.ts; rows count from 1.                               *)

UrlChars == {"url", "letter", "digit", "slash", "dot", "colon", "accent", "wide", "stop"}
UrlEnds == UrlChars \ {"dot", "colon"}

\* What URL_REGEX finds in a text, as its first and its last character: a URL and what
\* may follow in it, up to the last character that may end one.
Urls(text) ==
  {p \in (DOMAIN text) \X (DOMAIN text) :
     LET i == p[1]
         j == p[2]
         Joined(k, l) == \A m \in k .. l : text[m] \in UrlChars IN
     /\ i <= j /\ text[i] = "url" /\ Joined(i, j) /\ text[j] \in UrlEnds
     /\ ~\E k \in 1 .. i - 1 : text[k] = "url" /\ Joined(k, i)
     /\ ~\E l \in j + 1 .. Len(text) : Joined(j, l) /\ text[l] \in UrlEnds}

\* Of a row and the one above it.
isContinuation(r) ==
  rows[r].isWrapped \/ Len(translateToString(rows[r - 1])) >= Cols

\* The rows that are joined with a row, and their text.
FirstOf(r) == Max({1} \cup {k \in 2 .. r : ~isContinuation(k)})
LastOf(r) == Min({Len(rows)} \cup {k \in r .. Len(rows) - 1 : ~isContinuation(k + 1)})
TextOf(first, last) ==
  FlattenSeq([k \in 1 .. last - first + 1 |-> translateToString(rows[first + k - 1])])

\* The row and the offset in it of an offset in the text of the rows from `first` on.
mapOffset(first, last, offset) ==
  LET Start(r) == Len(TextOf(first, r - 1))
      row == Max({r \in first .. last : Start(r) <= offset})
  IN [row |-> row, col |-> offset - Start(row)]

\* What the provider answers for a row: the URLs that cover it, in cells.
computeTerminalUrlLinks(row) ==
  LET first == FirstOf(row) last == LastOf(row)
      text == TextOf(first, last)
      Link(url) ==
        LET from == mapOffset(first, last, url[1] - 1)
            to == mapOffset(first, last, url[2] - 1)
        IN [url |-> SubSeq(text, url[1], url[2]),
            startRow |-> from.row,
            startCol |-> offsetToColumn(harvestColumnMap(rows[from.row]), from.col),
            endRow |-> to.row,
            endCol |-> offsetToColumnExclusive(harvestColumnMap(rows[to.row]), to.col + 1)]
  IN {link \in {Link(url) : url \in Urls(text)} : row \in link.startRow .. link.endRow}

urlLinkAtPosition(links, row, col) ==
  {link \in links :
     /\ row \in link.startRow .. link.endRow
     /\ row = link.startRow => col >= link.startCol
     /\ row = link.endRow => col < link.endCol}

-----------------------------------------------------------------------------
(* file-link-classify.ts.                                                  *)

\* A stretch of a text without what may separate paths, as long as it gets.
Stretches(text) ==
  LET Part(k) == text[k] \notin {"space", "stop"} IN
  {p \in (DOMAIN text) \X (DOMAIN text) :
     LET i == p[1]
         j == p[2] IN
     /\ i <= j /\ \A k \in i .. j : Part(k)
     /\ (i > 1 => ~Part(i - 1)) /\ (j < Len(text) => ~Part(j + 1))}

\* A chunk without quotes before and punctuation behind, but with the colon of a
\* line number; empty if nothing is left.
Trimmed(text, chunk) ==
  LET i == Min({k \in chunk[1] .. chunk[2] : text[k] # "quote"} \cup {chunk[2] + 1})
      Numbered(j) == \E k \in i .. j - 1 : text[k] = "colon" /\ text[k + 1] = "digit"
      ends == {j \in i .. chunk[2] : \/ text[j] \notin {"quote", "dot", "colon"}
                                     \/ text[j] = "colon" /\ Numbered(j)}
  IN <<i, Max(ends \cup {i - 1})>>

\* A token without the numbers of a line and a column.
Unnumbered(token) ==
  LET starts == {k \in DOMAIN token :
        /\ token[k] = "colon" /\ Last(token) = "digit"
        /\ \A l \in k .. Len(token) : token[l] \in {"colon", "digit"}
        /\ \A l \in k .. Len(token) - 1 : token[l] = "colon" => token[l + 1] = "digit"}
  IN SubSeq(token, 1, Min(starts \cup {Len(token) + 1}) - 1)

\* It has a separator or an extension; the bare names that are paths are left out.
looksLikePath(token) ==
  LET t == Unnumbered(token)
      dots == {k \in DOMAIN t : t[k] = "dot"}
  IN /\ t # <<>> /\ t[1] # "url"
     /\ \/ \E k \in DOMAIN t : t[k] \in {"slash", "url"}
        \/ dots # {} /\ Max(dots) \in 2 .. Len(t) - 1

findPathSpans(text) ==
  {span \in {LET s == Trimmed(text, chunk) IN
               [token |-> SubSeq(text, s[1], s[2]), start |-> s[1] - 1, end |-> s[2]] :
             chunk \in Stretches(text)} :
     looksLikePath(span.token)}

pathSpanAtColumn(spans, offset) == {span \in spans : offset \in span.start .. span.end - 1}

-----------------------------------------------------------------------------
(* terminal-manager.ts: the two ways from the mouse to a link.             *)

\* xterm's Linkifier over the range of a link, which counts from 1 and includes the end.
Within(range, row, col) ==
  row * Cols + col + 1 \in range[1][1] * Cols + range[1][2] .. range[2][1] * Cols + range[2][2]

HoveredUrls(links, row, col) ==
  {link \in links :
     Within(<< <<link.startRow, link.startCol + 1>>, <<link.endRow, link.endCol>> >>, row, col)}

HoveredPaths(row, spans, map, col) ==
  {span \in spans :
     Within(<< <<row, offsetToColumn(map, span.start) + 1>>,
               <<row, offsetToColumnExclusive(map, span.end)>> >>, row, col)}

\* onCaptureMouseDown.
ClickedUrls(links, row, col) == urlLinkAtPosition(links, row, col)

ClickedPaths(spans, map, col) == pathSpanAtColumn(spans, columnToOffset(map, col))

-----------------------------------------------------------------------------

Emit(output) ==
  CASE output = "newline" -> Newline
    [] output = "gap" -> Gap
    [] output = "accent" -> Accent
    [] OTHER -> Write(output)

Init ==
  /\ rows = << [cells |-> <<>>, isWrapped |-> FALSE] >>
  /\ program \in Outputs /\ outputs = 0

Next ==
  /\ outputs < MaxOutputs /\ outputs' = outputs + 1
  /\ \E output \in program : Emit(output)
  /\ UNCHANGED program

Spec == Init /\ [][Next]_linkVars

-----------------------------------------------------------------------------
(* Properties.                                                             *)

\* The characters of a row with the cells they are drawn in, and a break behind it
\* unless the next row goes on with it.
Drawn(r, Joins(_)) ==
  LET cells == rows[r].cells
      text == {x \in DOMAIN cells : cells[x].chars # <<>>}
      At(x, ch) == [ch |-> ch, row |-> r, from |-> x - 1, to |-> x - 2 + cells[x].width]
  IN FlattenSeq([x \in 1 .. Max(text \cup {0}) |->
       IF cells[x].width = 0 THEN <<>>
       ELSE IF cells[x].chars = <<>> THEN << At(x, "space") >>
       ELSE [i \in DOMAIN cells[x].chars |-> At(x, cells[x].chars[i])]])
     \o (IF r < Len(rows) /\ Joins(r + 1) THEN <<>>
         ELSE << [ch |-> "space", row |-> r, from |-> Cols, to |-> Cols] >>)

\* The URLs a reader sees, with their cells, if he reads on where rows join.
UrlsSeen(Joins(_)) ==
  LET drawn == FlattenSeq([r \in DOMAIN rows |-> Drawn(r, Joins)])
      text == [i \in DOMAIN drawn |-> drawn[i].ch]
  IN {[url |-> SubSeq(text, url[1], url[2]),
       from |-> drawn[url[1]].row * Cols + drawn[url[1]].from,
       to |-> drawn[url[2]].row * Cols + drawn[url[2]].to] : url \in Urls(text)}

UrlsAt(seen, row, col) ==
  {link.url : link \in {link \in seen : row * Cols + col \in link.from .. link.to}}

\* Over every cell of every row, the link that is underlined, the one that a click
\* opens while a program has the mouse, and the one a reader sees are the same, with
\* wide and accented characters before, in and after it and over any wrapping
\* (terminal-cell-columns.ts:5-11, terminal-manager.ts:1269-1270).
LinkUnderMouse ==
  LET seen == UrlsSeen(isContinuation) IN
  \A row \in DOMAIN rows :
    LET links == computeTerminalUrlLinks(row)
        spans == findPathSpans(translateToString(rows[row]))
        map == harvestColumnMap(rows[row])
        drawn == Drawn(row, LAMBDA r : TRUE)
        PathsSeen(col) == {span \in spans :
          \E i \in span.start + 1 .. span.end : col \in drawn[i].from .. drawn[i].to}
    IN \A col \in 0 .. Cols - 1 :
         /\ ClickedUrls(links, row, col) = HoveredUrls(links, row, col)
         /\ {link.url : link \in HoveredUrls(links, row, col)} = UrlsAt(seen, row, col)
         /\ ClickedPaths(spans, map, col) = PathsSeen(col)
         /\ HoveredPaths(row, spans, map, col) = PathsSeen(col)

(***************************************************************************)
(* Does not hold: terminal-url-links.ts:67-70 joins a row to one that      *)
(* "physically fills the terminal width", and the code compares the number *)
(* of characters with that of the columns: a row with wide characters is   *)
(* taken for a shorter one than it is, one with accents for a longer one.  *)
(***************************************************************************)
FullRowsJoin ==
  LET Joins(r) == rows[r].isWrapped \/ Len(rows[r - 1].cells) = Cols
      seen == UrlsSeen(Joins)
  IN \A row \in DOMAIN rows : \A col \in 0 .. Cols - 1 :
       {link.url : link \in HoveredUrls(computeTerminalUrlLinks(row), row, col)}
         = UrlsAt(seen, row, col)
=============================================================================
