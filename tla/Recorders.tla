------------------------------ MODULE Recorders ------------------------------
(***************************************************************************)
(* The recorders of a run: CsvRecorder keeps wide tables whose columns     *)
(* appear as rows bring them, JsonlRecorder writes one line per record to  *)
(* a sink that may fail.                                                   *)
(***************************************************************************)
EXTENDS Integers, Sequences, FiniteSets, SequencesExt
CONSTANTS Column,
          MaxRecords, MaxCells   \* bounds: rows and lines recorded in all, names of a row

ASSUME RecorderAssumption == MaxCells \in Nat

VARIABLES columns, rows,     \* the wide table: column names in order of appearance, cells
          schema,            \* pinned columns, <<>> for none
          sink, lastError,   \* the lines of the sink; the error that take_error would take
          records            \* ghost: rows as recorded; lines as recorded; errors taken

rvars == <<columns, rows, schema, sink, lastError, records>>

\* The value of a missing cell, and an empty field.
NaN == -1
Blank == -2
RecorderInit == /\ columns = <<>> /\ rows = <<>> /\ schema = <<>> /\ sink = <<>> /\ lastError = FALSE
                /\ records = [rows |-> <<>>, lines |-> 0, taken |-> FALSE]

\* record_row: names not seen before become columns at the end, one after another; a
\* row that names a column twice gives the first value; rows before are padded.
Shapes == UNION {[1 .. n -> Column] : n \in 0 .. MaxCells}
Seen(cols, names) ==
  LET after[k \in 0 .. Len(names)] ==
        IF k = 0 THEN cols
        ELSE IF names[k] \in ToSet(after[k - 1]) THEN after[k - 1] ELSE Append(after[k - 1], names[k])
  IN  after[Len(names)]
Padded(cells, n) == cells \o [i \in 1 .. n - Len(cells) |-> NaN]
ValueIn(row, c) == LET at == {i \in DOMAIN row : row[i].column = c}
                   IN  IF at = {} THEN NaN ELSE row[CHOOSE i \in at : \A j \in at : i <= j].value
RecordRow ==
  /\ Len(records.rows) + records.lines < MaxRecords
  /\ \E names \in Shapes :
       LET row == [i \in DOMAIN names |-> [column |-> names[i], value |-> 10 * Len(records.rows) + i]]
       IN  /\ columns' = Seen(columns, names)
           /\ rows' = Append([r \in DOMAIN rows |-> Padded(rows[r], Len(columns'))],
                             [i \in DOMAIN columns' |-> ValueIn(row, columns'[i])])
           /\ records' = [records EXCEPT !.rows = Append(records.rows, row)]
  /\ UNCHANGED <<schema, sink, lastError>>

SetColumns ==
  /\ schema = <<>>
  /\ schema' \in Shapes \ {<<>>}
  /\ UNCHANGED <<columns, rows, sink, lastError, records>>

\* table_csv: by position, or by the pinned schema with empty fields for what is missing.
Cell(r, c) ==
  LET at == {i \in DOMAIN columns : columns[i] = c}
  IN  IF at = {} THEN Blank ELSE LET v == rows[r][CHOOSE i \in at : TRUE]
                              IN  IF schema # <<>> /\ v = NaN THEN Blank ELSE v
Header == IF schema = <<>> THEN columns ELSE schema
Rendered == [r \in DOMAIN rows |-> [i \in DOMAIN Header |->
               IF schema = <<>> THEN rows[r][i] ELSE Cell(r, Header[i])]]

\* write_line: the sink takes the line, a part of it, or nothing.  A line that follows
\* a part without its newline runs into it.
NoError == FALSE   \* mutant: a line that is written clears the error of the one before
KeptError == lastError
WriteLine ==
  /\ Len(records.rows) + records.lines < MaxRecords
  /\ LET torn == sink # <<>> /\ ~sink[Len(sink)].ended
         put(l) == IF torn THEN [sink EXCEPT ![Len(sink)] = [l EXCEPT !.intact = FALSE]] ELSE Append(sink, l)
     IN  \/ sink' = put([intact |-> TRUE, ended |-> TRUE, id |-> records.lines]) /\ lastError' = KeptError
         \/ sink' = put([intact |-> FALSE, ended |-> FALSE, id |-> records.lines]) /\ lastError' = TRUE
         \/ UNCHANGED sink /\ lastError' = TRUE
  /\ records' = [records EXCEPT !.lines = records.lines + 1]
  /\ UNCHANGED <<columns, rows, schema>>

TakeError == /\ lastError /\ lastError' = FALSE /\ records' = [records EXCEPT !.taken = TRUE]
             /\ UNCHANGED <<columns, rows, schema, sink>>

RecorderNext == RecordRow \/ SetColumns \/ WriteLine \/ TakeError
RecorderSpec == RecorderInit /\ [][RecorderNext]_rvars

-----------------------------------------------------------------------------
(* Properties *)

\* Every value that was recorded, the first of a row for its name, is found in the
\* rendered table, in its row and under its name, and nothing else is, however late a
\* column appeared and whatever columns are pinned; and a record is missing from the
\* sink, or not readable there, only if take_error gave or will give an error.
RecordsKept ==
  /\ \A r \in DOMAIN records.rows : \A i \in DOMAIN Header :
       LET c == Header[i]
           given == {k \in DOMAIN records.rows[r] : records.rows[r][k].column = c}
       IN  Rendered[r][i] = IF given # {} THEN records.rows[r][CHOOSE k \in given : \A j \in given : k <= j].value
                            ELSE IF schema = <<>> THEN NaN ELSE Blank
  /\ Len(Rendered) = Len(records.rows)
  /\ ~lastError /\ ~records.taken =>
       \A l \in 0 .. records.lines - 1 : \E i \in DOMAIN sink : sink[i].id = l /\ sink[i].intact
=============================================================================
