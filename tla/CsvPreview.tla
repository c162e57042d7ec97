----------------------------- MODULE CsvPreview -----------------------------
(***************************************************************************)
(* How a CSV artifact is read and shown: parseCSVPreview of                *)
(* artifactFilters.ts, the table of ArtifactCsvPreview.tsx and of the      *)
(* preview dialog, and the sortable one of the viewer (CsvRenderer).       *)
(*                                                                         *)
(* A text is a sequence of characters: the four that the parser looks at,  *)
(* two digits and a letter.  Blank lines count as rows of one empty cell,  *)
(* and a last row of empty cells is dropped, as in the code.  The          *)
(* assumptions at the end compare the parser with a writer, over all small *)
(* tables.                                                                 *)
(***************************************************************************)
EXTENDS Integers, Sequences, FiniteSets, SequencesExt

Quote == "\""
Comma == ","
Newline == "\n"
Return == "\r"

----------------------------------------------------------------------------
(* parseCSVLines, one character at a time.                                 *)

Start == [results |-> <<>>, row |-> <<>>, current |-> <<>>, inQuotes |-> FALSE,
          skip |-> FALSE]

Cell(st) == [st EXCEPT !.row = Append(@, st.current), !.current = <<>>]
Row(st) == [st EXCEPT !.results = Append(@, st.row), !.row = <<>>]

Quoted(st, ch, next) ==
  IF ch # Quote THEN [st EXCEPT !.current = Append(@, ch)]
  ELSE IF next = Quote THEN [st EXCEPT !.current = Append(@, ch), !.skip = TRUE]
  ELSE [st EXCEPT !.inQuotes = FALSE]

Bare(st, ch) ==
  CASE ch = Quote   -> [st EXCEPT !.inQuotes = TRUE]
    [] ch = Comma   -> Cell(st)
    [] ch = Newline -> Row(Cell(st))
    [] ch = Return  -> st
    [] OTHER        -> [st EXCEPT !.current = Append(@, ch)]

parseCSVLines(content) ==
  LET read(st, i) ==
        IF st.skip THEN [st EXCEPT !.skip = FALSE]
        ELSE IF st.inQuotes
        THEN Quoted(st, content[i], IF i < Len(content) THEN content[i + 1] ELSE "")
        ELSE Bare(st, content[i])
      end == Cell(FoldLeftDomain(read, Start, content))
  IN IF \E i \in DOMAIN end.row : end.row[i] # <<>> THEN Row(end).results
     ELSE end.results

Blank(content) == ToSet(content) \subseteq {Newline, Return}

parseCSVPreview(content, maxRows) ==
  LET lines == IF Blank(content) THEN <<>> ELSE parseCSVLines(content)
  IN IF lines = <<>> THEN [columns |-> <<>>, rows |-> <<>>, totalRows |-> 0]
     ELSE [columns   |-> Head(lines),
           rows      |-> SubSeq(Tail(lines), 1, IF Len(lines) - 1 < maxRows
                                                THEN Len(lines) - 1 ELSE maxRows),
           totalRows |-> Len(lines) - 1]

----------------------------------------------------------------------------
(* The tables.                                                             *)

\* Nothing is shown of a text without columns; "more" counts the rows left out.
ArtifactCsvPreview(content, maxRows) ==
  LET csv == parseCSVPreview(content, maxRows)
  IN IF csv.columns = <<>> THEN <<>>
     ELSE <<[columns |-> csv.columns, rows |-> csv.rows, total |-> csv.totalRows,
             more |-> IF csv.totalRows > maxRows THEN csv.totalRows - maxRows ELSE 0]>>

\* The viewer sorts by a column: a cell is read as a number by its leading digits.
Digits == <<"0", "1">>
Digit(ch) == (CHOOSE i \in DOMAIN Digits : Digits[i] = ch) - 1
IsNumber(cell) == cell # <<>> /\ Head(cell) \in ToSet(Digits)
parseFloat(cell) ==
  FoldLeft(LAMBDA st, ch : IF st.go /\ ch \in ToSet(Digits)
                           THEN [st EXCEPT !.n = 10 * @ + Digit(ch)]
                           ELSE [st EXCEPT !.go = FALSE],
           [n |-> 0, go |-> TRUE], cell).n

Order == <<Newline, Return, Comma, Quote, "0", "1", "x">>
Rank(ch) == CHOOSE i \in DOMAIN Order : Order[i] = ch
TextBefore(c, d) ==
  \/ IsStrictPrefix(c, d)
  \/ \E k \in 1..Len(c) : /\ k <= Len(d)
                          /\ SubSeq(c, 1, k - 1) = SubSeq(d, 1, k - 1)
                          /\ Rank(c[k]) < Rank(d[k])

CellBefore(c, d) ==
  IF IsNumber(c) /\ IsNumber(d) THEN parseFloat(c) < parseFloat(d) ELSE TextBefore(c, d)

\* A row may be shorter than the header.
CellOf(row, col) == IF col \in DOMAIN row THEN row[col] ELSE <<>>

\* [sortCol, sortDir] after a click on the head of a column; 0 is no column.
handleSort(sort, col) ==
  IF sort.col = col THEN [sort EXCEPT !.asc = ~@] ELSE [col |-> col, asc |-> TRUE]

\* The order in which the rows are shown: a stable sort of their places.
sortedRows(rows, sort) ==
  LET before(i, j) ==
        LET c == CellOf(rows[i], sort.col)
            d == CellOf(rows[j], sort.col)
            first == IF sort.asc THEN CellBefore(c, d) ELSE CellBefore(d, c)
            last == IF sort.asc THEN CellBefore(d, c) ELSE CellBefore(c, d)
        IN first \/ (~last /\ i < j)
      places == [i \in DOMAIN rows |-> i]
  IN IF sort.col = 0 THEN places ELSE SortSeq(places, before)

----------------------------------------------------------------------------
(* The checks.                                                             *)

Join(parts, sep) ==
  FlattenSeq([i \in DOMAIN parts |-> IF i = 1 THEN parts[i] ELSE sep \o parts[i]])

\* A cell in quotes, and a table with its lines ended or separated by "eol".
Written(cell) ==
  <<Quote>> \o FlattenSeq([i \in DOMAIN cell |-> IF cell[i] = Quote THEN <<Quote, Quote>>
                                                 ELSE <<cell[i]>>]) \o <<Quote>>
Line(row) == Join([i \in DOMAIN row |-> Written(row[i])], <<Comma>>)
Write(table, eol, ended) ==
  Join([i \in DOMAIN table |-> Line(table[i])], eol) \o IF ended THEN eol ELSE <<>>

Cells == {<<>>, <<"x">>, <<Comma>>, <<Quote>>, <<Newline>>, <<Quote, Quote>>,
          <<"x", Return, Newline>>}
Rows2 == [1..2 -> Cells] \cup [1..1 -> Cells]
Tables == [1..1 -> Rows2] \cup [1..2 -> Rows2]

\* What a writer put between quotes comes back cell by cell, with either line
\* end, whatever the cells hold; only a last row of empty cells whose line is not
\* ended is lost.
ASSUME ReadsBack ==
  \A table \in Tables : \A eol \in {<<Newline>>, <<Return, Newline>>} :
    /\ parseCSVLines(Write(table, eol, TRUE)) = table
    /\ parseCSVLines(Write(table, eol, FALSE))
         = IF \E i \in DOMAIN Last(table) : Last(table)[i] # <<>> THEN table ELSE Front(table)

\* The rows that are shown and those counted as left out are all the rows below
\* the header, in the order of the file.
ASSUME CountsAll ==
  \A n \in 0..5 : \A maxRows \in 1..3 :
    LET row(i) == <<[j \in 1..i |-> "x"]>>
        table == [i \in 1..(n + 1) |-> row(i)]
        view == ArtifactCsvPreview(Write(table, <<Newline>>, TRUE), maxRows)[1]
    IN /\ view.total = n
       /\ Len(view.rows) + view.more = n
       /\ view.columns = table[1]
       /\ \A i \in DOMAIN view.rows : view.rows[i] = table[i + 1]

\* However the heads of the columns were clicked, each row is shown once; and a
\* column of numbers only, or of none, is in its order or the reverse of it.
ASSUME SortsColumns ==
  LET values == {<<>>, <<"x">>, <<"0">>, <<"1", "0">>, <<"1", "x">>, <<"x", "1">>}
      tables == [1..3 -> [1..1 -> values] \cup {<<>>}]
      clicked == {[col |-> 0, asc |-> TRUE], handleSort([col |-> 0, asc |-> TRUE], 1),
                  handleSort(handleSort([col |-> 0, asc |-> TRUE], 1), 1)}
  IN \A rows \in tables : \A sort \in clicked :
       LET order == sortedRows(rows, sort)
           cell(k) == CellOf(rows[order[k]], 1)
       IN /\ ToSet(order) = DOMAIN rows
          /\ (/\ sort.col = 1
              /\ \A i, j \in DOMAIN rows : IsNumber(CellOf(rows[i], 1)) = IsNumber(CellOf(rows[j], 1)))
             => \A k, l \in DOMAIN order : k < l =>
                  IF sort.asc THEN ~CellBefore(cell(l), cell(k)) ELSE ~CellBefore(cell(k), cell(l))
=============================================================================
