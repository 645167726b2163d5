------------------------------ MODULE CsvFile -------------------------------
(***************************************************************************)
(* CSV files: COPY TO and other programs write them (CSVWriter), COPY FROM *)
(* and queries read them (FastCSVReader): in one pass, with the columns a  *)
(* query needs, in ranges given to several threads, or by counting lines.  *)
(*                                                                         *)
(* A cell is Null or a sequence of bytes, one of them a model value:       *)
(* Digit, Decimal (the text of a number with a point), Stamp (the text of  *)
(* a timestamp), Minus, any letter, and the four that mean something to a  *)
(* reader.  Minus stands for the characters of a formula as well.          *)
(* Positions count from 1.                                                 *)
(***************************************************************************)
EXTENDS Vectors, Integers, Sequences, FiniteSets, SequencesExt

CONSTANTS Tables,      \* what may be in a file: sequences of rows of cells
          Columns,     \* the number of columns
          Digit, Decimal, Stamp, Minus, Letter, Delimiter, Quote, NL, CR,
          Misparsed,   \* what a number parser makes of anything else
          Unread,      \* a cell of a column that is not projected
          SampleSize,  \* the rows that types are detected from (100)
          Threads      \* the ranges of a parallel read

Bytes == {Digit, Decimal, Stamp, Minus, Letter, Delimiter, Quote, NL, CR}

IsText(cell) == cell # Null => cell \in Seq(Bytes)

ASSUME CsvFileAssumption ==
  /\ Columns \in Nat \ {0} /\ SampleSize \in Nat \ {0} /\ Threads \in Nat \ {0}
  /\ Letter \notin {Minus, Delimiter, Quote, NL, CR}
  /\ Delimiter # Quote /\ {Delimiter, Quote} \cap {NL, CR} = {} /\ NL # CR
  /\ \A rows \in Tables :
       /\ rows \in Seq({rows[i] : i \in DOMAIN rows})
       /\ \A i \in DOMAIN rows : DOMAIN rows[i] = 1 .. Columns
                               /\ \A c \in 1 .. Columns : IsText(rows[i][c])

VARIABLES csv,       \* the rows to be written
          form,      \* how the file is written: header, line end, last line ended
          reading,   \* "write", "idle", "read", "done" or "threw"
          buffer,    \* the bytes of the file
          how,       \* "copy", "scan" or "count"
          types,     \* of the columns that are read
          projection,\* those that are needed
          workers,   \* the reader of each range: its position, its end, its rows
          result     \* the rows of all of them, or the count

reader == <<how, types, projection, workers, result>>
csvVars == <<csv, form, reading, buffer, reader>>
-----------------------------------------------------------------------------
(* Writing                                                                 *)

(* Fault: a newline does not call for quotes.                              *)
NeedsQuoteInLine(cell) ==
  \/ {Delimiter, Quote} \cap ToSet(cell) # {}
  \/ cell # <<>> /\ Head(cell) = Minus

NeedsQuote(cell) ==
  \/ {Delimiter, Quote, NL} \cap ToSet(cell) # {}
  \/ cell # <<>> /\ Head(cell) = Minus

Doubled(cell) == FlattenSeq([i \in DOMAIN cell |->
                   IF cell[i] = Quote THEN <<Quote, Quote>> ELSE <<cell[i]>>])

Written(cell) == IF cell = Null THEN <<>>
                 ELSE IF NeedsQuote(cell) THEN <<Quote>> \o Doubled(cell) \o <<Quote>>
                 ELSE cell

Separated(fields) == FlattenSeq([i \in DOMAIN fields |->
                       IF i = 1 THEN fields[i] ELSE <<Delimiter>> \o fields[i]])

Header == [c \in 1 .. Columns |-> <<Letter>>]
Lines  == (IF form.header THEN <<Separated(Header)>> ELSE <<>>)
            \o [i \in DOMAIN csv |-> Separated([c \in 1 .. Columns |-> Written(csv[i][c])])]

Text == LET lines == Lines
            ended == FlattenSeq([l \in DOMAIN lines |-> lines[l] \o form.eol])
        IN  IF form.ended THEN ended ELSE SubSeq(ended, 1, Len(ended) - Len(form.eol))

CsvInit ==
  /\ csv \in Tables
  /\ form \in [header : BOOLEAN, eol : {<<NL>>, <<CR, NL>>}, ended : BOOLEAN]
  /\ ~form.ended => Lines # <<>> /\ Last(Lines) # <<>>
  /\ reading = "write"
  /\ buffer = <<>> /\ how = "none" /\ types = <<>> /\ projection = {}
  /\ workers = <<>> /\ result = <<>>

Write == /\ reading = "write"
         /\ buffer' = Text
         /\ reading' = "idle"
         /\ UNCHANGED <<csv, form, reader>>
-----------------------------------------------------------------------------
(* The parser                                                              *)

Size == Len(buffer)

(* The first position from p to e with one of these bytes, or e + 1.       *)
Find(bytes, p, e) == LET at == {i \in p .. e : buffer[i] \in bytes}
                     IN  IF at = {} THEN e + 1 ELSE CHOOSE i \in at : \A j \in at : i <= j

Skip(byte, p, e)  == IF p <= e /\ buffer[p] = byte THEN p + 1 ELSE p
EndLine(p, e)     == Skip(NL, Skip(CR, p, e), e)

(* A field and the position behind it and its delimiter.  A doubled quote  *)
(* ends a quoted field like any other.                                     *)
NextField(p, e) ==
  IF buffer[p] = Quote
  THEN LET q == Find({Quote}, p + 1, e)
       IN  [field |-> SubSeq(buffer, p + 1, q - 1),
            pos   |-> Skip(Delimiter, IF q <= e THEN q + 1 ELSE q, e)]
  ELSE LET q == Find({Delimiter, NL, CR}, p, e)
       IN  [field |-> SubSeq(buffer, p, q - 1), pos |-> Skip(Delimiter, q, e)]

AtEnd(p, e) == p > e \/ buffer[p] \in {NL, CR}

(* At most n fields of the line at p.                                      *)
WithField(line, e) ==
  IF AtEnd(line.pos, e) THEN line
  ELSE LET f == NextField(line.pos, e)
       IN  [fields |-> Append(line.fields, f.field), pos |-> f.pos]

FieldsFrom(p, e, n) ==
  LET upto[k \in 0 .. n] == IF k = 0 THEN [fields |-> <<>>, pos |-> p]
                                     ELSE WithField(upto[k - 1], e)
  IN  upto[n]

FirstRow == IF form.header THEN EndLine(FieldsFrom(1, Size, Size).pos, Size) ELSE 1
-----------------------------------------------------------------------------
(* Types                                                                   *)

NoSign(field) == IF field # <<>> /\ Head(field) = Minus THEN Tail(field) ELSE field

Class(field) == CASE field = <<Stamp>> -> "timestamp"
                  [] NoSign(field) = <<Decimal>> -> "double"
                  [] ToSet(NoSign(field)) = {Digit} -> "bigint"
                  [] OTHER -> "varchar"

(* What one more sampled field makes of the type of its column.            *)
Widened(type, field) ==
  LET class == Class(field)
  IN  CASE field = <<>> -> type
        [] field # <<>> /\ class = "timestamp" ->
             IF type \in {"varchar", "timestamp"} THEN "timestamp" ELSE type
        [] field # <<>> /\ class # "timestamp" /\ type = "timestamp" -> "varchar"
        [] OTHER -> CASE class = "bigint" -> IF type = "varchar" THEN "bigint" ELSE type
                      [] class = "double" ->
                           IF type \in {"varchar", "bigint"} THEN "double" ELSE type
                      [] class = "varchar" -> "varchar"

(* The types after one more sampled line.                                  *)
WithLine(sample) ==
  IF sample.pos > Size THEN sample
  ELSE LET line  == FieldsFrom(sample.pos, Size, Size)
           Old(c) == IF c \in DOMAIN sample.types THEN sample.types[c] ELSE "varchar"
       IN  [pos   |-> EndLine(line.pos, Size),
            types |-> [c \in DOMAIN sample.types \cup DOMAIN line.fields |->
              IF c \in DOMAIN line.fields THEN Widened(Old(c), line.fields[c]) ELSE Old(c)]]

DetectTypes ==
  LET upto[k \in 0 .. SampleSize] == IF k = 0 THEN [pos |-> FirstRow, types |-> <<>>]
                                             ELSE WithLine(upto[k - 1])
  IN  upto[SampleSize].types

Parses(field, type) ==
  \/ type = "varchar" \/ Class(field) = type
  \/ type = "double" /\ Class(field) = "bigint"

(* A number is parsed without looking; a timestamp that is none is NULL.   *)
Converted(field, type) == IF field = <<>> THEN Null
                          ELSE IF Parses(field, type) THEN field
                          ELSE IF type = "timestamp" THEN Null ELSE Misparsed
-----------------------------------------------------------------------------
(* Reading                                                                 *)

FullRow(p, e) ==
  LET line == FieldsFrom(p, e, Len(types))
  IN  [row |-> [c \in DOMAIN types |->
                  IF c \in DOMAIN line.fields THEN Converted(line.fields[c], types[c]) ELSE Null],
       pos |-> EndLine(Find({NL, CR}, line.pos, e), e)]

Least(S)    == CHOOSE m \in S : \A x \in S : m <= x
Greatest(S) == CHOOSE m \in S : \A x \in S : x <= m

(* The columns before the first needed one are skipped by their delimiters *)
(* alone, and what is behind the last one up to the newline.               *)
ProjectedRow(p, e) ==
  LET first == Least(projection)
      start[c \in 1 .. first] ==
        IF c = 1 THEN p ELSE Skip(Delimiter, Find({Delimiter}, start[c - 1], e), e)
      line  == FieldsFrom(start[first], e, Greatest(projection) - first + 1)
      Cell(c) == IF c - first + 1 \in DOMAIN line.fields
                 THEN Converted(line.fields[c - first + 1], types[c]) ELSE Null
  IN  [row |-> [c \in DOMAIN types |-> IF c \in projection THEN Cell(c) ELSE Unread],
       pos |-> Skip(NL, Find({NL}, line.pos, e), e)]

Row(p, e) == IF projection = {} THEN FullRow(p, e) ELSE ProjectedRow(p, e)

(* Up to VectorSize rows of a range.                                       *)
WithRow(chunk, e) ==
  IF chunk.pos > e THEN chunk
  ELSE LET r == Row(chunk.pos, e)
       IN  [pos |-> r.pos, rows |-> Append(chunk.rows, r.row)]

Chunk(p, e) ==
  LET upto[k \in 0 .. VectorSize] == IF k = 0 THEN [pos |-> p, rows |-> <<>>]
                                             ELSE WithRow(upto[k - 1], e)
  IN  upto[VectorSize]

(* Fault: the newline itself is left to the next range.                    *)
FindNewline(p) == Find({NL}, p, Size)

FindLineStart(p) == Skip(NL, Find({NL}, p, Size), Size)

(* The ranges of n threads, each but the first moved on to a line.         *)
Ranges(n) ==
  LET start  == FirstRow
      bytes  == (Size + 1 - start) \div n
      Cut(t) == CASE t = 0 -> start
                  [] t = n -> Size + 1
                  [] OTHER -> FindLineStart(start + t * bytes)
      upto[t \in 0 .. n] ==
        IF t = 0 THEN <<>>
        ELSE IF Cut(t - 1) < Cut(t)
        THEN Append(upto[t - 1], [pos |-> Cut(t - 1), end |-> Cut(t) - 1, rows |-> <<>>])
        ELSE upto[t - 1]
  IN  upto[n]

OpenFile(purpose, columns, needed, n) ==
  /\ reading = "idle" /\ buffer # <<>>
  /\ how' = purpose /\ types' = columns /\ projection' = needed
  /\ workers' = Ranges(n)
  /\ reading' = "read"
  /\ UNCHANGED <<csv, form, buffer, result>>

(* COPY FROM: one pass, into columns whose type takes every text.          *)
Copy == OpenFile("copy", [c \in 1 .. Columns |-> "varchar"], {}, 1)

(* A query: a header is expected, the types are detected.  The file is     *)
(* read in one pass or in ranges, whole or in the columns that are needed. *)
ScanFile == /\ reading = "idle" /\ form.header
            /\ LET columns == DetectTypes
               IN  /\ columns # <<>>
                   /\ \E needed \in SUBSET DOMAIN columns, n \in {1, Threads} :
                        OpenFile("scan", columns, needed, n)

(* An empty file cannot be mapped.                                         *)
OpenThrows == /\ reading = "idle" /\ buffer = <<>>
              /\ reading' = "threw"
              /\ UNCHANGED <<csv, form, buffer, reader>>

ReadChunk(w) ==
  /\ reading = "read" /\ workers[w].pos <= workers[w].end
  /\ LET chunk == Chunk(workers[w].pos, workers[w].end)
     IN  workers' = [workers EXCEPT ![w].pos = chunk.pos, ![w].rows = @ \o chunk.rows]
  /\ UNCHANGED <<csv, form, reading, buffer, how, types, projection, result>>

(* The chunks of the ranges are put together in the order of the file.     *)
Join == /\ reading = "read" /\ \A w \in DOMAIN workers : workers[w].pos > workers[w].end
        /\ result' = FlattenSeq([w \in DOMAIN workers |-> workers[w].rows])
        /\ reading' = "done"
        /\ UNCHANGED <<csv, form, buffer, how, types, projection, workers>>

Newlines == Cardinality({i \in FirstRow .. Size : buffer[i] = NL})

(* Fault: a last line without a newline is not counted.                    *)
CountLines == /\ reading = "idle" /\ form.header
              /\ how' = "count"
              /\ result' = Newlines
              /\ reading' = "done"
              /\ UNCHANGED <<csv, form, buffer, types, projection, workers>>

(* COUNT( * ): the newlines, and a last line that has none.                *)
CountRows == /\ reading = "idle" /\ form.header
             /\ how' = "count"
             /\ result' = Newlines + (IF Last(buffer) # NL THEN 1 ELSE 0)
             /\ reading' = "done"
             /\ UNCHANGED <<csv, form, buffer, types, projection, workers>>

CsvNext ==
  \/ Write \/ Copy \/ ScanFile \/ OpenThrows \/ CountRows
  \/ \E w \in DOMAIN workers : ReadChunk(w)
  \/ Join

CsvSpec == CsvInit /\ [][CsvNext]_csvVars
-----------------------------------------------------------------------------
Cells == {csv[i][c] : i \in DOMAIN csv, c \in 1 .. Columns}
HasByte(bytes, cell) == cell # Null /\ bytes \cap ToSet(cell) # {}

(* Neither writing nor reading tells an empty text from NULL.              *)
Seen(cell) == IF cell = <<>> THEN Null ELSE cell

Done(purpose) == reading = "done" /\ how = purpose

(* What COPY TO wrote COPY FROM reads, delimiters and newlines in quoted   *)
(* cells and either line end included, unless a cell has a quote, which is *)
(* written double and read as the end of the cell, or a carriage return,   *)
(* which is written as it is and read as the end of the line.              *)
Misread(cell) == HasByte({Quote, CR}, cell)

CopyRoundTrip ==
  Done("copy") /\ ~(\E cell \in Cells : Misread(cell)) =>
    result = [i \in DOMAIN csv |-> [c \in 1 .. Columns |-> Seen(csv[i][c])]]

(* The cells of a column are all of one class: then its type fits them.    *)
OfOneClass(c) ==
  Cardinality({Class(csv[i][c]) : i \in {j \in DOMAIN csv : Seen(csv[j][c]) # Null}}) <= 1

Needed == IF projection = {} THEN DOMAIN types ELSE projection

(* Reading all columns or some, in one pass or by ranges.  A range may     *)
(* begin in a cell with a newline; the columns behind the last one needed  *)
(* are skipped to the first newline, and those before the first to a       *)
(* delimiter, quoted or not.                                               *)
CellsAgree ==
  LET BreaksLine(c)  == \E i \in DOMAIN csv : HasByte({NL}, csv[i][c])
      BreaksField(c) == \E i \in DOMAIN csv : HasByte({Delimiter}, csv[i][c])
  IN  /\ Done("scan")
      /\ ~(\E cell \in Cells : Misread(cell))
      /\ \A c \in Needed : OfOneClass(c)
      /\ \A c \in 1 .. Columns : BreaksLine(c) =>
           Len(workers) <= 1 /\ c <= Greatest(Needed)
      /\ \A c \in 1 .. Least(Needed) - 1 : ~BreaksField(c)
      => result = [i \in DOMAIN csv |-> [c \in DOMAIN types |->
                     IF c \in Needed THEN Seen(csv[i][c]) ELSE Unread]]

(* COUNT( * ) is the number of rows, unless a cell has a newline or the    *)
(* file is a header without one.                                           *)
CountIsRows ==
  /\ Done("count") /\ ~(\E cell \in Cells : HasByte({NL}, cell))
  /\ csv = <<>> => form.ended
  => result = Len(csv)

(* A query sees the same cells, and as many rows, whichever way it reads   *)
(* the file.                                                               *)
ScansAgree == CellsAgree /\ CountIsRows
=============================================================================
