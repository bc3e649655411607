------------------------------ MODULE Storage ------------------------------
(***************************************************************************)
(* What a column promises to bring back from a file, as questions.         *)
(***************************************************************************)
EXTENDS Columns, Questions

CONSTANTS
  StoredColumns,   \* <<field, cells>>, in data.parquet
  CsvColumns       \* <<field, cells>>, in a CSV file

(***************************************************************************)
(* The columns a dataset can hold: cells that its field accepts. Left out  *)
(* of CSV are bit vectors, whose hexadecimal digits may look like a        *)
(* number, and NaN, which the CSV reader may take for a number or a text.  *)
(***************************************************************************)
FieldTypes ==
  {<<kind>> : kind \in {"Int", "Float", "Double", "Text", "Bool", "Complex"}}
    \cup ({"Vector", "Bits", "Sparse"} \X Nat) \cup ({"Matrix"} \X Nat \X Nat) \cup ({"Quant"} \X Nat \X STRING)

ColumnFields == [name : STRING, type : FieldTypes, nullable : BOOLEAN, lazy : BOOLEAN]

Cells ==
  {Null, NaN} \cup ({"Int", "Float", "Double"} \X Int) \cup ({"Text"} \X (1..Len(Spelling))) \cup ({"Bool"} \X {0, 1})
    \cup ({"Complex"} \X (Int \X Int)) \cup ({"Vector"} \X Seq(Int)) \cup ({"Matrix"} \X Seq(Seq(Int)))
    \cup ({"Bits"} \X Seq({0, 1})) \cup ({"Sparse"} \X (Nat \X Seq(Int \X Int)))
    \cup ({"Quant"} \X (Nat \X STRING \X Seq(Int)))

IsColumn(c) ==
  c \in ColumnFields \X Seq(Cells) /\ \A i \in 1..Len(c[2]) : Fitting(c[1], c[2][i])

ASSUME ColumnsAssumption ==
  /\ \A c \in StoredColumns \cup CsvColumns : IsColumn(c)
  /\ \A c \in CsvColumns : c[1].type[1] # "Bits" /\ \A i \in 1..Len(c[2]) : c[2][i] # NaN

(* The texts of the model that look like integers. *)
ASSUME DigitsAssumption == ToString(0) = "0" /\ ToString(1) = "1"

AskStorage == Ask("column", StoredColumns) \/ Ask("csv", CsvColumns)

(***************************************************************************)
(* data.parquet gives every cell back, under the declared type and under   *)
(* the type LOAD infers from the file, whichever encoding the column got;  *)
(* but a list holding an infinity or NaN is lost when other cells of its   *)
(* column forced JSON on it, and then a NOT NULL column is not read. A CSV *)
(* file gives every cell back as it is spelled, lists as JSON text; it is  *)
(* not imported exactly when it has no rows or an empty cell, and structs  *)
(* are not exported.                                                       *)
(***************************************************************************)
Damaged(column, v) == column.type = <<"Utf8">> /\ Infinite \in Elements(v)

ParquetGivesBack(field, cells) ==
  LET written == ToArrow(field, cells, FALSE)
      column == written[1]
      expected == [i \in 1..Len(cells) |-> IF Damaged(column, cells[i]) THEN Null ELSE cells[i]]
  IN /\ written # NotRead
     /\ \A type \in {field.type, TypeFromArrow(column)} :
          ReadColumn([field EXCEPT !.type = type], column) =
            IF ~field.nullable /\ expected # cells THEN NotRead ELSE Recovered(expected)

SameSpelling(v, w) == v = w \/ v = <<"Json", w>> \/ HashKey(v) = HashKey(w)

CsvGivesBack(field, cells) ==
  LET back == ThroughCsv(field, cells) IN
  IF cells = <<>> \/ field.type[1] \in {"Sparse", "Quant"} \/ \E i \in 1..Len(cells) : IsNull(cells[i])
  THEN back = NotRead
  ELSE back # NotRead /\ \A i \in 1..Len(cells) : SameSpelling(back[1][i], cells[i])

ColumnsComeBack ==
  /\ Asked("column") => ParquetGivesBack(question[2], question[3])
  /\ Asked("csv") => CsvGivesBack(question[2], question[3])
=============================================================================
