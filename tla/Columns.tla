------------------------------ MODULE Columns ------------------------------
(***************************************************************************)
(* A column of a dataset as an Arrow column and back, in data.parquet and  *)
(* in CSV files (core/storage.rs).                                         *)
(*                                                                         *)
(* An Arrow column is [type, logical, cells]: its physical type, the       *)
(* logical type noted beside it (<<>> if none) and its cells, <<>> for a   *)
(* null. Values beyond those of Values: Sparse <<dim, entries>> and Quant  *)
(* <<dim, encoding, elements>>. The element Infinite stands for infinities *)
(* and NaN, which JSON writes as null.                                     *)
(***************************************************************************)
EXTENDS Values

Infinite == 99

(* What could be read is the only element of a sequence, else NotRead. *)
NotRead == <<>>
Recovered(x) == <<x>>

Elements(v) ==
  CASE Kind(v) = "Vector" -> {Datum(v)[i] : i \in 1..Len(Datum(v))}
    [] Kind(v) = "Matrix" -> UNION {{Datum(v)[r][i] : i \in 1..Len(Datum(v)[r])} : r \in 1..Len(Datum(v))}
    [] Kind(v) = "Complex" -> {Datum(v)[1], Datum(v)[2]}
    [] OTHER -> {}

ColumnOf(type, cells) == [type |-> type, logical |-> <<>>, cells |-> cells]
Each(values, Cell(_)) == [i \in 1..Len(values) |-> Cell(values[i])]
OnlyIf(b, cell) == IF b THEN cell ELSE <<>>

(***************************************************************************)
(* Scalars: each type takes the narrower ones in; anything else is null.   *)
(***************************************************************************)
Physical == [Int |-> "Int64", Float |-> "Float32", Double |-> "Float64", Text |-> "Utf8", Bool |-> "Boolean"]

Widened(kind) ==
  CASE kind = "Float" -> {"Float", "NaN", "Int"} [] kind = "Double" -> {"Double", "Float", "NaN", "Int"}
    [] OTHER -> {kind}

As(kind, v) == IF Kind(v) = "NaN" THEN v ELSE <<kind, Datum(v)>>

ScalarColumn(kind, values) ==
  LET cell(v) == OnlyIf(Kind(v) \in Widened(kind), <<As(kind, v)>>)
  IN ColumnOf(<<Physical[kind]>>, Each(values, cell))

(***************************************************************************)
(* build_legacy_json_column: every value as JSON text, which holds its     *)
(* kind.                                                                   *)
(***************************************************************************)
JsonColumn(values) ==
  LET cell(v) == OnlyIf(~IsNull(v), <<<<"Json", v>>>>) IN ColumnOf(<<"Utf8">>, Each(values, cell))

FromJson(cell) ==
  IF cell = <<>> \/ Kind(cell[1]) # "Json" THEN Null
  ELSE IF Infinite \in Elements(Datum(cell[1])) THEN Null ELSE Datum(cell[1])

(***************************************************************************)
(* build_vector_column, build_matrix_column: fixed-size lists when every   *)
(* cell has the declared size, or the size of the first cell that has one; *)
(* a matrix without a declared width is a list of rows of any length.      *)
(* Otherwise JSON.                                                         *)
(***************************************************************************)
FirstSize(values, kind) ==
  LET sized == {i \in 1..Len(values) : Kind(values[i]) = kind /\ Datum(values[i]) # <<>>
                                         /\ (kind = "Matrix" => Datum(values[i])[1] # <<>>)}
  IN IF sized = {} THEN <<>> ELSE Tail(TypeOf(values[CHOOSE i \in sized : \A j \in sized : i <= j]))

HasSize(v, kind, size) ==
  /\ Kind(v) = kind /\ Len(Datum(v)) = size[1]
  /\ kind = "Matrix" /\ Len(size) = 2 => \A r \in 1..Len(Datum(v)) : Len(Datum(v)[r]) = size[2]

ListColumn(type, values) ==
  LET kind == type[1]
      size == IF type[2] = 0 THEN FirstSize(values, kind)
              ELSE IF kind = "Matrix" /\ type[3] = 0 THEN <<type[2]>> ELSE Tail(type)
      cell(v) == <<v>>
  IN IF size # <<>> /\ \A i \in 1..Len(values) : HasSize(values[i], kind, size)
     THEN ColumnOf(<<"List", kind, size>>, Each(values, cell))
     ELSE JsonColumn(values)

(***************************************************************************)
(* Bits in whole bytes; sparse and quantized vectors in structs. A cell of *)
(* another shape is null.                                                  *)
(***************************************************************************)
PackedColumn(type, values) ==
  LET fits(v) == CASE type[1] = "Quant" -> Kind(v) = "Quant" /\ Datum(v)[1] = type[2] /\ Datum(v)[2] = type[3]
                   [] OTHER -> Kind(v) = type[1]
      cell(v) == OnlyIf(fits(v), <<v>>)
      width == IF type[1] = "Bits" THEN <<"Bytes", (type[2] + 7) \div 8>> ELSE <<"Struct", type[1]>>
  IN ColumnOf(width, Each(values, cell))

(***************************************************************************)
(* dataset_to_record_batch: columns that hide their logical type have it   *)
(* noted; a null in a column that has none is refused. CSV has no lists.   *)
(***************************************************************************)
(* Mutant of Annotated: text is taken for what it says it is. *)
AnnotateOnlyStructs(type, column) ==
  IF column.type[1] \in {"Bytes", "Struct"} THEN [column EXCEPT !.logical = type] ELSE column

Annotated(type, column) ==
  IF column.type[1] \in {"Utf8", "Bytes", "Struct"}
     /\ type[1] \in {"Vector", "Matrix", "Complex", "Bits", "Sparse", "Quant"}
  THEN [column EXCEPT !.logical = type] ELSE column

ToArrow(field, values, forCsv) ==
  LET type == field.type
      column == CASE type[1] \in DOMAIN Physical -> ScalarColumn(type[1], values)
                  [] type[1] \in {"Vector", "Matrix"} /\ ~forCsv -> ListColumn(type, values)
                  [] type[1] \in {"Bits", "Sparse", "Quant"} -> PackedColumn(type, values)
                  [] OTHER -> JsonColumn(values)
  IN IF ~field.nullable /\ \E i \in 1..Len(values) : column.cells[i] = <<>> THEN NotRead
     ELSE Recovered(Annotated(type, column))

(***************************************************************************)
(* arrow_schema_to_tuple_schema, DatasetSchema::from: the type of a column *)
(* read off its Arrow type.                                                *)
(***************************************************************************)
TypeFromArrow(column) ==
  LET physical == column.type IN
  IF column.logical # <<>> THEN column.logical
  ELSE CASE physical[1] = "List" /\ physical[2] = "Vector" -> <<"Vector", physical[3][1]>>
         [] physical[1] = "List" /\ physical[2] = "Matrix" ->
              <<"Matrix", physical[3][1], IF Len(physical[3]) = 2 THEN physical[3][2] ELSE 0>>
         [] physical[1] = "Bytes" -> <<"Bits", physical[2] * 8>>
         [] \E kind \in DOMAIN Physical : Physical[kind] = physical[1] ->
              <<CHOOSE kind \in DOMAIN Physical : Physical[kind] = physical[1]>>
         [] OTHER -> <<"Text">>

(***************************************************************************)
(* arrow_array_to_values: a column as values of a type. Floats of either   *)
(* width are taken; text under Vector, Matrix and Complex is JSON; plain   *)
(* vectors under a quantized type are quantized.                           *)
(***************************************************************************)
Taken(kind) == IF kind \in {"Float", "Double"} THEN {"Float32", "Float64"} ELSE {Physical[kind]}

FromArrow(type, column) ==
  LET physical == column.type
      value(cell) == IF cell = <<>> THEN Null ELSE cell[1]
      scalar(cell) == IF cell = <<>> THEN Null ELSE IF type[1] = "Text" THEN cell[1] ELSE As(type[1], cell[1])
      quantized(cell) == IF cell = <<>> THEN Null ELSE <<"Quant", <<type[2], type[3], Datum(cell[1])>>>>
  IN CASE type[1] \in DOMAIN Physical ->
            IF physical[1] \in Taken(type[1]) THEN Recovered(Each(column.cells, scalar)) ELSE NotRead
       [] type[1] \in {"Vector", "Matrix", "Complex"} ->
            IF physical[1] = "Utf8" THEN Recovered(Each(column.cells, FromJson))
            ELSE IF physical[1] = "List" /\ physical[2] = type[1] THEN Recovered(Each(column.cells, value)) ELSE NotRead
       [] type[1] = "Quant" ->
            IF physical[1] = "List" /\ physical[2] = "Vector" THEN Recovered(Each(column.cells, quantized))
            ELSE IF physical = <<"Struct", "Quant">> THEN Recovered(Each(column.cells, value)) ELSE NotRead
       [] type[1] = "Sparse" -> IF physical = <<"Struct", "Sparse">> THEN Recovered(Each(column.cells, value)) ELSE NotRead
       [] type[1] = "Bits" ->
            IF physical[1] = "Bytes" /\ physical[2] = (type[2] + 7) \div 8 THEN Recovered(Each(column.cells, value)) ELSE NotRead
       [] OTHER -> Recovered([i \in 1..Len(column.cells) |-> Null])

(* record_batch_to_rows: every value has to fit the field. *)
Typed(v) == CASE Kind(v) \in {"Sparse"} -> <<"Sparse", Datum(v)[1]>>
              [] Kind(v) = "Quant" -> <<"Quant", Datum(v)[1], Datum(v)[2]>>
              [] OTHER -> TypeOf(v)

Fitting(field, v) == Compatible(field, v) \/ (~IsNull(v) /\ Typed(v) = field.type)

ReadColumn(field, column) ==
  LET values == FromArrow(field.type, column) IN
  IF values # NotRead /\ \A i \in 1..Len(values[1]) : Fitting(field, values[1][i]) THEN values ELSE NotRead

(***************************************************************************)
(* CSV: what a cell looks like, and what a column of such cells is taken   *)
(* for. A column is never nullable; structs cannot be written; a file      *)
(* without rows is refused.                                                *)
(***************************************************************************)
Looks(v) ==
  CASE Kind(v) = "Int" -> "integer" [] Kind(v) \in {"Float", "Double"} -> "decimal" [] Kind(v) = "Bool" -> "boolean"
    [] Kind(v) = "Text" -> CASE Spelling[Datum(v)] \in {"0", "1"} -> "integer"
                             [] Spelling[Datum(v)] \in {"true", "false"} -> "boolean"
                             [] OTHER -> "text"
    [] OTHER -> "text"

Inferred(looks) ==
  CASE looks = {"integer"} -> "Int" [] looks = {"boolean"} -> "Bool"
    [] looks \in {{"decimal"}, {"integer", "decimal"}} -> "Float" [] OTHER -> "Text"

(* A cell as a value of the inferred kind. *)
Reread(kind, v) ==
  CASE Kind(v) = "Text" /\ kind \in {"Int", "Float"} -> <<kind, IF Spelling[Datum(v)] = "0" THEN 0 ELSE 1>>
    [] Kind(v) = "Text" /\ kind = "Bool" -> ABool(Spelling[Datum(v)] = "true")
    [] Kind(v) # "Text" /\ kind \in {"Int", "Float"} -> <<kind, Datum(v)>>
    [] OTHER -> v

ThroughCsv(field, values) ==
  LET written == ToArrow(field, values, TRUE)
      cells == written[1].cells
      kind == Inferred({Looks(cells[i][1]) : i \in 1..Len(values)})
  IN IF written = NotRead \/ values = <<>> \/ field.type[1] \in {"Sparse", "Quant"}
        \/ \E i \in 1..Len(values) : cells[i] = <<>>
     THEN NotRead
     ELSE Recovered([i \in 1..Len(values) |-> Reread(kind, cells[i][1])])
=============================================================================
