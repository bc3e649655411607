---------------------------- MODULE StorageProofs -----------------------------
(* Theorems about Storage, for columns of any length, of every type: what   *)
(* data.parquet and CSV files give back of them.                            *)
EXTENDS Storage, SequenceTheorems, NaturalsInduction, WellFoundedInduction, TLAPS

-----------------------------------------------------------------------------
(* Cells and the fields they fit.                                           *)

(* The kind under which a cell is stored: a NaN is a Float. *)
Sort(v) == IF Kind(v) = "NaN" THEN "Float" ELSE Kind(v)

Scalars == {"Int", "Float", "Double", "Text", "Bool"}

LEMMA PhysicalTypes ==
  /\ DOMAIN Physical = Scalars
  /\ Physical["Int"] = "Int64" /\ Physical["Float"] = "Float32" /\ Physical["Double"] = "Float64"
  /\ Physical["Text"] = "Utf8" /\ Physical["Bool"] = "Boolean"
BY DEF Physical, Scalars

(* A cell is a kind and a datum of that kind. *)
LEMMA CellShape ==
  ASSUME NEW v \in Cells
  PROVE  /\ v = <<Kind(v), Datum(v)>>
         /\ Kind(v) \in {"Null", "NaN", "Int", "Float", "Double", "Text", "Bool", "Complex", "Vector", "Matrix",
                         "Bits", "Sparse", "Quant"}
         /\ IsNull(v) => v = Null
         /\ Kind(v) = "NaN" => v = NaN
         /\ Kind(v) = "Text" => Datum(v) \in 1 .. 7
         /\ Kind(v) = "Bool" => Datum(v) \in {0, 1}
         /\ Kind(v) = "Vector" => Datum(v) \in Seq(Int)
         /\ Kind(v) = "Matrix" => Datum(v) \in Seq(Seq(Int))
         /\ Kind(v) = "Bits" => Datum(v) \in Seq({0, 1})
         /\ Kind(v) = "Quant" => Datum(v) \in Nat \X STRING \X Seq(Int)
BY DEF Cells, Kind, Datum, IsNull, Null, NaN, Spelling

LEMMA TypeShape ==
  ASSUME NEW t \in FieldTypes
  PROVE  /\ t[1] \in Scalars \cup {"Complex"} => t = <<t[1]>>
         /\ t[1] \in {"Vector", "Bits", "Sparse"} => t = <<t[1], t[2]>> /\ t[2] \in Nat
         /\ t[1] = "Matrix" => t = <<t[1], t[2], t[3]>> /\ t[2] \in Nat /\ t[3] \in Nat
         /\ t[1] = "Quant" => t = <<t[1], t[2], t[3]>> /\ t[2] \in Nat
         /\ t[1] \in Scalars \cup {"Complex", "Vector", "Bits", "Sparse", "Matrix", "Quant"}
         /\ t # <<>>
BY DEF FieldTypes, Scalars

(* The type of a cell begins with its kind. *)
LEMMA TypeOfCell ==
  ASSUME NEW v \in Cells
  PROVE  /\ TypeOf(v)[1] = Sort(v)
         /\ Kind(v) \in {"Vector", "Bits"} => TypeOf(v) = <<Kind(v), Len(Datum(v))>>
         /\ Kind(v) = "Matrix" =>
              TypeOf(v) = <<"Matrix", Len(Datum(v)), IF Datum(v) = <<>> THEN 0 ELSE Len(Datum(v)[1])>>
         /\ Kind(v) \notin {"Vector", "Bits", "Matrix"} => TypeOf(v) = <<Sort(v)>>
<1>1. CASE Kind(v) = "NaN"
  BY <1>1 DEF TypeOf, Sort
<1>2. CASE Kind(v) \in {"Vector", "Bits"}
  BY <1>2 DEF TypeOf, Sort
<1>3. CASE Kind(v) = "Matrix"
  BY <1>3 DEF TypeOf, Sort
<1>4. CASE Kind(v) \notin {"NaN", "Vector", "Bits", "Matrix"}
  BY <1>4 DEF TypeOf, Sort
<1> QED BY <1>1, <1>2, <1>3, <1>4

(* What fits a field is NULL, if the field admits it, or of its kind. *)
LEMMA FitsKind ==
  ASSUME NEW f \in ColumnFields, NEW v \in Cells, Fitting(f, v)
  PROVE  /\ IsNull(v) => f.nullable
         /\ ~ IsNull(v) => Sort(v) = f.type[1]
         /\ Kind(v) = "Quant" => Datum(v)[1] = f.type[2] /\ Datum(v)[2] = f.type[3]
<1> DEFINE t == f.type
<1>0. t \in FieldTypes
  BY DEF ColumnFields
<1>1. IsNull(v) => f.nullable
  BY DEF Fitting, Compatible
<1>2. ASSUME ~ IsNull(v)
      PROVE  /\ Sort(v) = t[1]
             /\ Kind(v) = "Quant" => Datum(v)[1] = t[2] /\ Datum(v)[2] = t[3]
  <2>1. CASE TypeOf(v) = t
    <3>1. Sort(v) = t[1]
      BY <2>1, TypeOfCell
    <3>2. Kind(v) # "Quant"
      <4>1. SUFFICES ASSUME Kind(v) = "Quant" PROVE FALSE
        OBVIOUS
      <4>2. t = <<"Quant">>
        BY <2>1, <4>1, TypeOfCell DEF Sort
      <4>3. t = <<"Quant", t[2], t[3]>>
        BY <1>0, <3>1, <4>1, TypeShape DEF Sort
      <4>4. Len(t) = 1 /\ Len(t) = 3
        BY <4>2, <4>3
      <4> QED BY <4>4
    <3> QED BY <3>1, <3>2
  <2>2. CASE Kind(v) = "Vector" /\ t = <<"Vector", 0>>
    BY <2>2 DEF Sort
  <2>3. CASE Kind(v) = "Matrix" /\ t[1] = "Matrix"
    BY <2>3 DEF Sort
  <2>4. CASE Typed(v) = t /\ TypeOf(v) # t
    <3>1. CASE Kind(v) = "Sparse"
      <4>1. t = <<"Sparse", Datum(v)[1]>>
        BY <2>4, <3>1 DEF Typed
      <4> QED BY <3>1, <4>1 DEF Sort
    <3>2. CASE Kind(v) = "Quant"
      <4>1. t = <<"Quant", Datum(v)[1], Datum(v)[2]>>
        BY <2>4, <3>2 DEF Typed
      <4> QED BY <3>2, <4>1 DEF Sort
    <3>3. CASE Kind(v) \notin {"Sparse", "Quant"}
      BY <2>4, <3>3 DEF Typed
    <3> QED BY <3>1, <3>2, <3>3
  <2> QED BY <1>2, <2>1, <2>2, <2>3, <2>4 DEF Fitting, Compatible
<1> QED BY <1>1, <1>2 DEF IsNull

(* Another field that admits NULL where this one does fits what is of its type. *)
LEMMA FitsOther ==
  ASSUME NEW f \in ColumnFields, NEW t, NEW v \in Cells
  PROVE  /\ [f EXCEPT !.type = t].nullable = f.nullable
         /\ [f EXCEPT !.type = t].type = t
         /\ ~ IsNull(v) /\ TypeOf(v) = t => Fitting([f EXCEPT !.type = t], v)
         /\ Fitting([f EXCEPT !.type = t], Null) <=> f.nullable
<1> DEFINE g == [f EXCEPT !.type = t]
<1>1. g.nullable = f.nullable /\ g.type = t
  BY DEF ColumnFields
<1> HIDE DEF g
<1>2. ~ IsNull(v) /\ TypeOf(v) = t => Fitting(g, v)
  BY <1>1 DEF Fitting, Compatible
<1>3. IsNull(Null)
  BY DEF IsNull, Null, Kind
<1>4. Fitting(g, Null) <=> f.nullable
  BY <1>1, <1>3 DEF Fitting, Compatible
<1> QED BY <1>1, <1>2, <1>4 DEF g

-----------------------------------------------------------------------------
(* What a column brings back.                                               *)

(* Cells that are brought back as they were, or lost to JSON. *)
Kept(column, s) == [i \in 1 .. Len(s) |-> IF Damaged(column, s[i]) THEN Null ELSE s[i]]

(* What is left of a column is read back, under both types. *)
LEMMA GivenBack ==
  ASSUME NEW f \in ColumnFields, NEW s \in Seq(Cells), \A i \in 1 .. Len(s) : Fitting(f, s[i]),
         NEW column, ToArrow(f, s, FALSE) = Recovered(column),
         \A t \in {f.type, TypeFromArrow(column)} :
           /\ FromArrow(t, column) = Recovered(Kept(column, s))
           /\ \A i \in 1 .. Len(s) : ~ IsNull(s[i]) => Fitting([f EXCEPT !.type = t], s[i])
  PROVE  ParquetGivesBack(f, s)
<1> DEFINE expected == Kept(column, s)
<1>1. /\ Recovered(column) # NotRead /\ Recovered(column)[1] = column
      /\ Recovered(expected) # NotRead /\ Recovered(expected)[1] = expected
  BY DEF Recovered, NotRead
<1>2. /\ DOMAIN s = 1 .. Len(s) /\ DOMAIN expected = 1 .. Len(s) /\ Len(s) \in Nat
      /\ \A i \in 1 .. Len(s) : expected[i] = IF Damaged(column, s[i]) THEN Null ELSE s[i]
      /\ \A i \in 1 .. Len(s) : s[i] \in Cells
  BY DEF Kept
<1>3. Len(expected) = Len(s) /\ (expected = s <=> \A i \in 1 .. Len(s) : expected[i] = s[i])
  <2>1. expected \in Seq(Cells)
    <3>1. Null \in Cells
      BY DEF Cells
    <3>2. \A i \in 1 .. Len(s) : expected[i] \in Cells
      BY <1>2, <3>1
    <3> QED BY <1>2, <3>2 DEF Kept
  <2>2. Len(expected) = Len(s)
    BY <1>2, <2>1
  <2> QED BY <2>1, <2>2, SeqEqual
<1> HIDE DEF expected
<1>4. ASSUME NEW t \in {f.type, TypeFromArrow(column)}, NEW g, g = [f EXCEPT !.type = t]
      PROVE  ReadColumn(g, column) = IF ~ f.nullable /\ expected # s THEN NotRead ELSE Recovered(expected)
  <2>1. g.type = t /\ FromArrow(t, column) = Recovered(expected)
    BY <1>4 DEF expected, ColumnFields
  <2>2. ReadColumn(g, column) =
          IF \A i \in 1 .. Len(s) : Fitting(g, expected[i]) THEN Recovered(expected) ELSE NotRead
    BY <1>1, <1>3, <2>1 DEF ReadColumn
  <2>3. Fitting(g, Null) <=> f.nullable
    BY <1>4, FitsOther DEF Cells
  <2>4. \A i \in 1 .. Len(s) : ~ IsNull(s[i]) => Fitting(g, s[i])
    BY <1>4
  <2>5. \A i \in 1 .. Len(s) : IsNull(s[i]) => s[i] = Null /\ f.nullable
    BY <1>2, FitsKind, CellShape
  <2>6. CASE f.nullable
    BY <1>2, <2>2, <2>3, <2>4, <2>5, <2>6
  <2>7. CASE ~ f.nullable /\ expected = s
    BY <1>2, <2>2, <2>4, <2>5, <2>7
  <2>8. CASE ~ f.nullable /\ expected # s
    <3>1. PICK i \in 1 .. Len(s) : expected[i] # s[i]
      BY <1>3, <2>8
    <3>2. expected[i] = Null
      BY <1>2, <3>1
    <3> QED BY <2>2, <2>3, <2>8, <3>2
  <2> QED BY <2>6, <2>7, <2>8
<1>5. [i \in 1 .. Len(s) |-> IF Damaged(column, s[i]) THEN Null ELSE s[i]] = expected
  BY DEF expected, Kept
<1>6. ToArrow(f, s, FALSE) # NotRead /\ ToArrow(f, s, FALSE)[1] = column
  BY <1>1
<1>7. \A t \in {f.type, TypeFromArrow(column)} :
        ReadColumn([f EXCEPT !.type = t], column) =
          IF ~ f.nullable /\ expected # s THEN NotRead ELSE Recovered(expected)
  BY <1>4
<1> QED BY <1>5, <1>6, <1>7 DEF ParquetGivesBack

(* The cells of most columns: the value, or nothing for NULL. *)
Wrapped(s) == [i \in 1 .. Len(s) |-> IF IsNull(s[i]) THEN <<>> ELSE <<s[i]>>]

LEMMA WrappedCells ==
  ASSUME NEW s \in Seq(Cells)
  PROVE  /\ Len(Wrapped(s)) = Len(s)
         /\ \A i \in 1 .. Len(s) : (Wrapped(s)[i] = <<>> <=> IsNull(s[i])) /\ (~ IsNull(s[i]) => Wrapped(s)[i][1] = s[i])
         /\ [i \in 1 .. Len(Wrapped(s)) |-> IF Wrapped(s)[i] = <<>> THEN Null ELSE Wrapped(s)[i][1]] = s
<1>1. Wrapped(s) \in Seq({<<>>} \cup {<<v>> : v \in Cells})
  BY DEF Wrapped
<1>2. Len(Wrapped(s)) = Len(s) /\ DOMAIN Wrapped(s) = 1 .. Len(s)
  BY <1>1 DEF Wrapped
<1>3. \A i \in 1 .. Len(s) : (Wrapped(s)[i] = <<>> <=> IsNull(s[i])) /\ (~ IsNull(s[i]) => Wrapped(s)[i][1] = s[i])
  BY DEF Wrapped
<1>4. \A i \in 1 .. Len(s) : IsNull(s[i]) => s[i] = Null
  BY CellShape
<1>5. [i \in 1 .. Len(Wrapped(s)) |-> IF Wrapped(s)[i] = <<>> THEN Null ELSE Wrapped(s)[i][1]]
        = [i \in 1 .. Len(s) |-> s[i]]
  BY <1>2, <1>3, <1>4
<1>6. [i \in 1 .. Len(s) |-> s[i]] = s
  OBVIOUS
<1> QED BY <1>2, <1>3, <1>5, <1>6

(* A column that loses nothing keeps everything. *)
LEMMA NothingLost ==
  ASSUME NEW s \in Seq(Cells), NEW column,
         column.type # <<"Utf8">> \/ \A i \in 1 .. Len(s) : Elements(s[i]) = {}
  PROVE  Kept(column, s) = s
<1>1. \A i \in 1 .. Len(s) : ~ Damaged(column, s[i])
  BY DEF Damaged
<1>2. Kept(column, s) = [i \in 1 .. Len(s) |-> s[i]]
  BY <1>1 DEF Kept
<1> QED BY <1>2

-----------------------------------------------------------------------------
(* Scalars.                                                                 *)

LEMMA ScalarFits ==
  ASSUME NEW f \in ColumnFields, NEW v \in Cells, Fitting(f, v), f.type[1] \in Scalars, ~ IsNull(v)
  PROVE  /\ Kind(v) \in Widened(f.type[1])
         /\ As(f.type[1], v) = v
         /\ TypeOf(v) = f.type
<1>1. Sort(v) = f.type[1] /\ f.type = <<f.type[1]>>
  BY FitsKind, TypeShape DEF ColumnFields
<1>2. v = <<Kind(v), Datum(v)>>
  BY CellShape
<1>3. CASE Kind(v) = "NaN"
  BY <1>1, <1>2, <1>3, TypeOfCell DEF Sort, Widened, As
<1>4. CASE Kind(v) # "NaN"
  <2>1. Kind(v) = f.type[1] /\ TypeOf(v) = f.type
    BY <1>1, <1>4, TypeOfCell DEF Sort, Scalars
  <2>2. Kind(v) \in Widened(f.type[1])
    <3>1. CASE f.type[1] = "Float"
      BY <2>1, <3>1 DEF Widened
    <3>2. CASE f.type[1] = "Double"
      BY <2>1, <3>2 DEF Widened
    <3>3. CASE f.type[1] \notin {"Float", "Double"}
      BY <2>1, <3>3 DEF Widened
    <3> QED BY <3>1, <3>2, <3>3
  <2> QED BY <1>2, <1>4, <2>1, <2>2 DEF As
<1> QED BY <1>3, <1>4

LEMMA ScalarCells ==
  ASSUME NEW f \in ColumnFields, NEW s \in Seq(Cells), \A i \in 1 .. Len(s) : Fitting(f, s[i]), f.type[1] \in Scalars
  PROVE  ScalarColumn(f.type[1], s) =
           ColumnOf(<<Physical[f.type[1]]>>, [i \in 1 .. Len(s) |-> IF IsNull(s[i]) THEN <<>> ELSE <<s[i]>>])
<1> DEFINE k == f.type[1]
<1>1. ASSUME NEW i \in 1 .. Len(s)
      PROVE  OnlyIf(Kind(s[i]) \in Widened(k), <<As(k, s[i])>>) = IF IsNull(s[i]) THEN <<>> ELSE <<s[i]>>
  <2>1. s[i] \in Cells
    OBVIOUS
  <2>2. CASE ~ IsNull(s[i])
    BY <2>1, <2>2, ScalarFits DEF OnlyIf
  <2>3. CASE IsNull(s[i])
    <3>1. Kind(s[i]) \notin Widened(k)
      <4>1. CASE k = "Float"
        BY <2>3, <4>1 DEF Widened, IsNull
      <4>2. CASE k = "Double"
        BY <2>3, <4>2 DEF Widened, IsNull
      <4>3. CASE k \notin {"Float", "Double"}
        BY <2>3, <4>3 DEF Widened, IsNull, Scalars
      <4> QED BY <4>1, <4>2, <4>3
    <3> QED BY <2>3, <3>1 DEF OnlyIf
  <2> QED BY <2>2, <2>3
<1>2. ScalarColumn(k, s) =
        ColumnOf(<<Physical[k]>>, [i \in 1 .. Len(s) |-> OnlyIf(Kind(s[i]) \in Widened(k), <<As(k, s[i])>>)])
  BY DEF ScalarColumn, Each
<1>3. [i \in 1 .. Len(s) |-> OnlyIf(Kind(s[i]) \in Widened(k), <<As(k, s[i])>>)] =
        [i \in 1 .. Len(s) |-> IF IsNull(s[i]) THEN <<>> ELSE <<s[i]>>]
  BY <1>1
<1> QED BY <1>2, <1>3

(* A column of scalars comes back, and Arrow's type says what it is of. *)
LEMMA ScalarsComeBack ==
  ASSUME NEW f \in ColumnFields, NEW s \in Seq(Cells), \A i \in 1 .. Len(s) : Fitting(f, s[i]), f.type[1] \in Scalars
  PROVE  ParquetGivesBack(f, s)
<1> DEFINE k == f.type[1]
           column == ColumnOf(<<Physical[k]>>, Wrapped(s))
<1>1. /\ f.type = <<k>> /\ k \notin {"Vector", "Matrix", "Complex", "Bits", "Sparse", "Quant"}
      /\ k \in DOMAIN Physical
  BY TypeShape, PhysicalTypes DEF ColumnFields, Scalars
<1>2. column.type = <<Physical[k]>> /\ column.logical = <<>> /\ column.cells = Wrapped(s)
  BY DEF ColumnOf
<1>3. ScalarColumn(k, s) = column
  BY ScalarCells DEF Wrapped
<1> HIDE DEF column
<1>4. Annotated(f.type, column) = column
  BY <1>1 DEF Annotated
<1>5. ~ (~ f.nullable /\ \E i \in 1 .. Len(s) : column.cells[i] = <<>>)
  BY <1>2, WrappedCells, FitsKind
<1>6. ToArrow(f, s, FALSE) = Recovered(column)
  BY <1>1, <1>3, <1>4, <1>5 DEF ToArrow
<1>7. TypeFromArrow(column) = f.type
  <2>1. \A j \in DOMAIN Physical : Physical[j] = Physical[k] => j = k
    BY <1>1, PhysicalTypes DEF Scalars
  <2>2. (CHOOSE j \in DOMAIN Physical : Physical[j] = Physical[k]) = k
    BY <1>1, <2>1
  <2>3. Physical[k] \notin {"List", "Bytes"}
    BY <1>1, PhysicalTypes DEF Scalars
  <2>4. column.type[1] = Physical[k]
    BY <1>2
  <2> QED BY <1>1, <1>2, <2>2, <2>3, <2>4 DEF TypeFromArrow
<1>8. Kept(column, s) = s
  <2>1. \A i \in 1 .. Len(s) : Elements(s[i]) = {}
    <3>1. SUFFICES ASSUME NEW i \in 1 .. Len(s) PROVE Elements(s[i]) = {}
      OBVIOUS
    <3>2. Kind(s[i]) \notin {"Vector", "Matrix", "Complex"}
      BY <1>1, FitsKind DEF Sort, IsNull
    <3> QED BY <3>2 DEF Elements
  <2> QED BY <2>1, NothingLost
<1>9. FromArrow(f.type, column) = Recovered(s)
  <2> DEFINE back(cell) == IF cell = <<>> THEN Null ELSE IF k = "Text" THEN cell[1] ELSE As(k, cell[1])
  <2>1. column.type[1] \in Taken(k)
    <3>1. CASE k \in {"Float", "Double"}
      BY <1>2, <3>1, PhysicalTypes DEF Taken
    <3>2. CASE k \notin {"Float", "Double"}
      BY <1>2, <3>2 DEF Taken
    <3> QED BY <3>1, <3>2
  <2>2. FromArrow(f.type, column) = Recovered([i \in 1 .. Len(column.cells) |-> back(column.cells[i])])
    BY <1>1, <2>1 DEF FromArrow, Each
  <2>3. \A i \in 1 .. Len(s) : back(Wrapped(s)[i]) = s[i]
    BY WrappedCells, ScalarFits, CellShape
  <2>4. [i \in 1 .. Len(column.cells) |-> back(column.cells[i])] = [i \in 1 .. Len(s) |-> s[i]]
    BY <1>2, <2>3, WrappedCells
  <2> QED BY <2>2, <2>4
<1>10. \A i \in 1 .. Len(s) : ~ IsNull(s[i]) => Fitting([f EXCEPT !.type = f.type], s[i])
  <2>1. SUFFICES ASSUME NEW i \in 1 .. Len(s), ~ IsNull(s[i]) PROVE Fitting([f EXCEPT !.type = f.type], s[i])
    OBVIOUS
  <2>2. TypeOf(s[i]) = f.type /\ s[i] \in Cells
    BY <2>1, ScalarFits
  <2> QED BY <2>1, <2>2, FitsOther
<1> QED BY <1>6, <1>7, <1>8, <1>9, <1>10, GivenBack

-----------------------------------------------------------------------------
(* Bits, sparse and quantized vectors.                                      *)

Packed == {"Bits", "Sparse", "Quant"}

LEMMA PackedFits ==
  ASSUME NEW f \in ColumnFields, NEW v \in Cells, Fitting(f, v), f.type[1] \in Packed, ~ IsNull(v)
  PROVE  /\ Kind(v) = f.type[1]
         /\ f.type[1] = "Quant" => Datum(v)[1] = f.type[2] /\ Datum(v)[2] = f.type[3]
BY FitsKind DEF Sort, Packed

LEMMA PackedCells ==
  ASSUME NEW f \in ColumnFields, NEW s \in Seq(Cells), \A i \in 1 .. Len(s) : Fitting(f, s[i]), f.type[1] \in Packed
  PROVE  PackedColumn(f.type, s) =
           ColumnOf(IF f.type[1] = "Bits" THEN <<"Bytes", (f.type[2] + 7) \div 8>> ELSE <<"Struct", f.type[1]>>, Wrapped(s))
<1> DEFINE t == f.type
           fits(v) == CASE t[1] = "Quant" -> Kind(v) = "Quant" /\ Datum(v)[1] = t[2] /\ Datum(v)[2] = t[3]
                        [] OTHER -> Kind(v) = t[1]
<1>1. ASSUME NEW i \in 1 .. Len(s)
      PROVE  OnlyIf(fits(s[i]), <<s[i]>>) = IF IsNull(s[i]) THEN <<>> ELSE <<s[i]>>
  <2>1. fits(s[i]) <=> ~ IsNull(s[i])
    <3>1. ~ IsNull(s[i]) => Kind(s[i]) = t[1] /\ (t[1] = "Quant" => Datum(s[i])[1] = t[2] /\ Datum(s[i])[2] = t[3])
      BY PackedFits
    <3>2. IsNull(s[i]) => Kind(s[i]) # t[1]
      BY DEF IsNull, Packed
    <3>3. CASE t[1] = "Quant"
      BY <3>1, <3>2, <3>3
    <3>4. CASE t[1] # "Quant"
      BY <3>1, <3>2, <3>4
    <3> QED BY <3>3, <3>4
  <2> QED BY <2>1 DEF OnlyIf
<1>2. PackedColumn(t, s) =
        ColumnOf(IF t[1] = "Bits" THEN <<"Bytes", (t[2] + 7) \div 8>> ELSE <<"Struct", t[1]>>,
                 [i \in 1 .. Len(s) |-> OnlyIf(fits(s[i]), <<s[i]>>)])
  BY DEF PackedColumn, Each
<1>3. [i \in 1 .. Len(s) |-> OnlyIf(fits(s[i]), <<s[i]>>)] = Wrapped(s)
  BY <1>1 DEF Wrapped
<1> QED BY <1>2, <1>3

(* Packed columns come back under their logical type, which is noted beside them. *)
LEMMA PackedComeBack ==
  ASSUME NEW f \in ColumnFields, NEW s \in Seq(Cells), \A i \in 1 .. Len(s) : Fitting(f, s[i]), f.type[1] \in Packed
  PROVE  ParquetGivesBack(f, s)
<1> DEFINE t == f.type
           width == IF t[1] = "Bits" THEN <<"Bytes", (t[2] + 7) \div 8>> ELSE <<"Struct", t[1]>>
           plain == ColumnOf(width, Wrapped(s))
           column == [plain EXCEPT !.logical = t]
<1>1. /\ t[1] \in Packed /\ t # <<>>
      /\ t[1] \notin DOMAIN Physical /\ t[1] \notin {"Vector", "Matrix", "Complex"}
  BY TypeShape, PhysicalTypes DEF ColumnFields, Scalars, Packed
<1>2. /\ plain.type = width /\ plain.cells = Wrapped(s)
      /\ column.type = width /\ column.logical = t /\ column.cells = Wrapped(s)
  BY DEF ColumnOf
<1>3. PackedColumn(t, s) = plain
  BY PackedCells
<1>4. width[1] \in {"Bytes", "Struct"} /\ width # <<"Utf8">>
  BY <1>1 DEF Packed
<1> HIDE DEF plain, width
<1>5. Annotated(t, plain) = column
  BY <1>1, <1>2, <1>4 DEF Annotated, Packed
<1>6. ~ (~ f.nullable /\ \E i \in 1 .. Len(s) : plain.cells[i] = <<>>)
  BY <1>2, WrappedCells, FitsKind
<1>7. ToArrow(f, s, FALSE) = Recovered(column)
  BY <1>1, <1>3, <1>5, <1>6 DEF ToArrow, Packed
<1> HIDE DEF column
<1>8. TypeFromArrow(column) = t
  BY <1>1, <1>2 DEF TypeFromArrow
<1>9. Kept(column, s) = s
  BY <1>2, <1>4, NothingLost
<1>10. FromArrow(t, column) = Recovered(s)
  <2> DEFINE value(cell) == IF cell = <<>> THEN Null ELSE cell[1]
  <2>1. [i \in 1 .. Len(column.cells) |-> value(column.cells[i])] = s
    BY <1>2, WrappedCells
  <2>2. CASE t[1] = "Bits"
    <3>1. column.type[1] = "Bytes" /\ column.type[2] = (t[2] + 7) \div 8
      BY <1>2, <2>2 DEF width
    <3>2. FromArrow(t, column) = Recovered([i \in 1 .. Len(column.cells) |-> value(column.cells[i])])
      BY <1>1, <2>2, <3>1 DEF FromArrow, Each
    <3> QED BY <2>1, <3>2
  <2>3. CASE t[1] = "Sparse"
    <3>1. column.type = <<"Struct", "Sparse">>
      BY <1>2, <2>3 DEF width
    <3>2. FromArrow(t, column) = Recovered([i \in 1 .. Len(column.cells) |-> value(column.cells[i])])
      BY <1>1, <2>3, <3>1 DEF FromArrow, Each
    <3> QED BY <2>1, <3>2
  <2>4. CASE t[1] = "Quant"
    <3>1. column.type = <<"Struct", "Quant">> /\ column.type[1] # "List"
      BY <1>2, <2>4 DEF width
    <3>2. FromArrow(t, column) = Recovered([i \in 1 .. Len(column.cells) |-> value(column.cells[i])])
      BY <1>1, <2>4, <3>1 DEF FromArrow, Each
    <3> QED BY <2>1, <3>2
  <2> QED BY <1>1, <2>2, <2>3, <2>4 DEF Packed
<1>11. \A i \in 1 .. Len(s) : ~ IsNull(s[i]) => Fitting([f EXCEPT !.type = t], s[i])
  <2>1. [f EXCEPT !.type = f.type] = f
    BY DEF ColumnFields
  <2> QED BY <2>1
<1> QED BY <1>7, <1>8, <1>9, <1>10, <1>11, GivenBack

-----------------------------------------------------------------------------
(* Values as JSON text.                                                     *)

Nested == {"Vector", "Matrix", "Complex"}

Quoted(s) == [i \in 1 .. Len(s) |-> IF IsNull(s[i]) THEN <<>> ELSE <<<<"Json", s[i]>>>>]

LEMMA JsonCells ==
  ASSUME NEW s \in Seq(Cells)
  PROVE  /\ JsonColumn(s).type = <<"Utf8">> /\ JsonColumn(s).logical = <<>> /\ JsonColumn(s).cells = Quoted(s)
         /\ Len(Quoted(s)) = Len(s)
         /\ \A i \in 1 .. Len(s) : /\ IsNull(s[i]) => Quoted(s)[i] = <<>>
                                   /\ ~ IsNull(s[i]) => Quoted(s)[i] # <<>> /\ Quoted(s)[i][1] = <<"Json", s[i]>>
<1>1. [i \in 1 .. Len(s) |-> OnlyIf(~ IsNull(s[i]), <<<<"Json", s[i]>>>>)] = Quoted(s)
  BY DEF OnlyIf, Quoted
<1>2. JsonColumn(s) = ColumnOf(<<"Utf8">>, Quoted(s))
  BY <1>1 DEF JsonColumn, Each
<1>3. Quoted(s) \in Seq({<<>>} \cup {<<<<"Json", v>>>> : v \in Cells})
  BY DEF Quoted
<1>4. Len(Quoted(s)) = Len(s)
  BY <1>3 DEF Quoted
<1>5. \A i \in 1 .. Len(s) : /\ IsNull(s[i]) => Quoted(s)[i] = <<>>
                             /\ ~ IsNull(s[i]) => Quoted(s)[i] # <<>> /\ Quoted(s)[i][1] = <<"Json", s[i]>>
  BY DEF Quoted
<1> QED BY <1>2, <1>4, <1>5 DEF ColumnOf

(* JSON gives back everything but the lists that hold an infinity or NaN. *)
LEMMA JsonComesBack ==
  ASSUME NEW f \in ColumnFields, NEW s \in Seq(Cells), \A i \in 1 .. Len(s) : Fitting(f, s[i]), f.type[1] \in Nested,
         f.type[1] # "Complex" => ListColumn(f.type, s) = JsonColumn(s)
  PROVE  ParquetGivesBack(f, s)
<1> DEFINE t == f.type
           plain == JsonColumn(s)
           column == [plain EXCEPT !.logical = t]
<1>1. /\ t[1] \in Nested /\ t # <<>>
      /\ t[1] \notin DOMAIN Physical /\ t[1] \notin {"Bits", "Sparse", "Quant"}
  BY TypeShape, PhysicalTypes DEF ColumnFields, Scalars, Nested
<1>2. /\ plain.type = <<"Utf8">> /\ plain.cells = Quoted(s)
      /\ column.type = <<"Utf8">> /\ column.logical = t /\ column.cells = Quoted(s)
  BY JsonCells DEF JsonColumn, ColumnOf
<1>3. t[1] # "Complex" => ListColumn(t, s) = plain
  OBVIOUS
<1> HIDE DEF plain
<1>4. Annotated(t, plain) = column
  BY <1>1, <1>2 DEF Annotated, Nested
<1>5. ~ (~ f.nullable /\ \E i \in 1 .. Len(s) : plain.cells[i] = <<>>)
  BY <1>2, JsonCells, FitsKind
<1>6. ToArrow(f, s, FALSE) = Recovered(column)
  <2>1. CASE t[1] = "Complex"
    BY <1>1, <1>4, <1>5, <2>1 DEF ToArrow, plain
  <2>2. CASE t[1] # "Complex"
    BY <1>1, <1>3, <1>4, <1>5, <2>2 DEF ToArrow, Nested
  <2> QED BY <2>1, <2>2
<1> HIDE DEF column
<1>7. TypeFromArrow(column) = t
  BY <1>1, <1>2 DEF TypeFromArrow
<1>8. FromArrow(t, column) = Recovered(Kept(column, s))
  <2>1. column.type[1] = "Utf8"
    BY <1>2
  <2>2. FromArrow(t, column) = Recovered([i \in 1 .. Len(column.cells) |-> FromJson(column.cells[i])])
    BY <1>1, <2>1 DEF FromArrow, Each, Nested
  <2>3. ASSUME NEW i \in 1 .. Len(s)
        PROVE  FromJson(Quoted(s)[i]) = IF Damaged(column, s[i]) THEN Null ELSE s[i]
    <3>1. CASE IsNull(s[i])
      <4>1. s[i] = Null /\ Quoted(s)[i] = <<>>
        BY <3>1, CellShape, JsonCells
      <4> QED BY <4>1 DEF FromJson
    <3>2. CASE ~ IsNull(s[i])
      <4> DEFINE cell == Quoted(s)[i]
      <4>1. cell # <<>> /\ cell[1] = <<"Json", s[i]>>
        BY <3>2, JsonCells
      <4>2. Kind(cell[1]) = "Json" /\ Datum(cell[1]) = s[i]
        BY <4>1 DEF Kind, Datum
      <4> HIDE DEF cell
      <4>3. FromJson(cell) = IF Infinite \in Elements(s[i]) THEN Null ELSE s[i]
        BY <4>1, <4>2 DEF FromJson
      <4> QED BY <1>2, <4>3 DEF Damaged, cell
    <3> QED BY <3>1, <3>2
  <2>4. [i \in 1 .. Len(column.cells) |-> FromJson(column.cells[i])] = Kept(column, s)
    BY <1>2, <2>3, JsonCells DEF Kept
  <2> QED BY <2>2, <2>4
<1>9. \A i \in 1 .. Len(s) : ~ IsNull(s[i]) => Fitting([f EXCEPT !.type = t], s[i])
  <2>1. [f EXCEPT !.type = f.type] = f
    BY DEF ColumnFields
  <2> QED BY <2>1
<1> QED BY <1>6, <1>7, <1>8, <1>9, GivenBack

-----------------------------------------------------------------------------
(* Lists of one size.                                                       *)

(* A set of numbers has a least one.                                        *)
LEMMA LeastOf ==
  ASSUME NEW T \in SUBSET Nat, T # {}
  PROVE  \E n \in T : \A k \in T : n <= k
<1> DEFINE R == OpToRel(<, Nat)
<1>1. IsWellFoundedOn(R, Nat)
  BY NatLessThanWellFounded
<1>2. \A x, y \in Nat : << x, y >> \in R <=> x < y
  BY DEF OpToRel
<1> HIDE DEF R
<1>3. PICK x \in T : \A y \in T : ~ (<< y, x >> \in R)
  BY <1>1, WFMin
<1>4. T \subseteq Nat /\ x \in Nat
  OBVIOUS
<1>5. \A k \in T : ~ (k < x)
  BY <1>2, <1>3, <1>4
<1>6. \A k \in T : x <= k
  BY <1>4, <1>5
<1> QED BY <1>6

(* The first cell that has a size gives it. *)
LEMMA FirstSizeGiven ==
  ASSUME NEW s \in Seq(Cells), NEW kind \in {"Vector", "Matrix"}, FirstSize(s, kind) # <<>>
  PROVE  \E i \in 1 .. Len(s) : /\ Kind(s[i]) = kind /\ Datum(s[i]) # <<>>
                                /\ FirstSize(s, kind) = Tail(TypeOf(s[i]))
<1> DEFINE sized == {i \in 1 .. Len(s) : Kind(s[i]) = kind /\ Datum(s[i]) # <<>>
                                           /\ (kind = "Matrix" => Datum(s[i])[1] # <<>>)}
           first == CHOOSE i \in sized : \A j \in sized : i <= j
<1>1. sized # {}
  BY DEF FirstSize
<1>2. \E i \in sized : \A j \in sized : i <= j
  <2>1. sized \subseteq Nat
    BY LenProperties
  <2> QED BY <1>1, <2>1, LeastOf
<1>3. first \in sized
  BY <1>2
<1>4. FirstSize(s, kind) = Tail(TypeOf(s[first]))
  BY <1>1 DEF FirstSize
<1> HIDE DEF first
<1> QED BY <1>3, <1>4

(* What follows the first of two. *)
LEMMA OneAfter ==
  ASSUME NEW a, NEW n \in Int
  PROVE  Tail(<<a, n>>) = <<n>>
OBVIOUS

(* What follows the first of three. *)
LEMMA TwoAfter ==
  ASSUME NEW a, NEW b \in Int, NEW c \in Int
  PROVE  Tail(<<a, b, c>>) = <<b, c>>
OBVIOUS

LEMMA VectorFits ==
  ASSUME NEW f \in ColumnFields, NEW v \in Cells, Fitting(f, v), f.type[1] \in {"Vector", "Matrix"}, ~ IsNull(v)
  PROVE  Kind(v) = f.type[1]
BY FitsKind DEF Sort

(* What has a size is no NULL. *)
LEMMA SizedCell ==
  ASSUME NEW v \in Cells, NEW kind \in {"Vector", "Matrix"}, NEW size, HasSize(v, kind, size)
  PROVE  ~ IsNull(v) /\ Kind(v) = kind /\ Len(Datum(v)) = size[1] /\ Len(Datum(v)) \in Nat
<1>1. Kind(v) = kind /\ Len(Datum(v)) = size[1]
  BY DEF HasSize
<1>2. Kind(v) = "Vector" => Datum(v) \in Seq(Int)
  BY CellShape
<1>3. Kind(v) = "Matrix" => Datum(v) \in Seq(Seq(Int))
  BY CellShape
<1> QED BY <1>1, <1>2, <1>3, LenProperties DEF IsNull

(* Vectors become a list of one length or JSON. *)
LEMMA VectorColumn ==
  ASSUME NEW t \in FieldTypes, t[1] = "Vector", NEW s \in Seq(Cells), ListColumn(t, s) # JsonColumn(s)
  PROVE  \E n \in Int :
           /\ ListColumn(t, s) = ColumnOf(<<"List", "Vector", <<n>>>>, [i \in 1 .. Len(s) |-> <<s[i]>>])
           /\ \A i \in 1 .. Len(s) : HasSize(s[i], "Vector", <<n>>)
<1> DEFINE size == IF t[2] = 0 THEN FirstSize(s, "Vector") ELSE Tail(t)
<1>1. ListColumn(t, s) =
        IF size # <<>> /\ \A i \in 1 .. Len(s) : HasSize(s[i], "Vector", size)
        THEN ColumnOf(<<"List", "Vector", size>>, [i \in 1 .. Len(s) |-> <<s[i]>>])
        ELSE JsonColumn(s)
  BY DEF ListColumn, Each
<1>2. size # <<>> /\ \A i \in 1 .. Len(s) : HasSize(s[i], "Vector", size)
  BY <1>1
<1>3. \E n \in Int : size = <<n>>
  <2>1. CASE t[2] # 0
    <3>1. size = Tail(t)
      BY <2>1
    <3> HIDE DEF size
    <3>2. PICK n \in Int : t = <<"Vector", n>>
      BY TypeShape
    <3> QED BY <3>1, <3>2, OneAfter
  <2>2. CASE t[2] = 0
    <3>1. PICK i \in 1 .. Len(s) : Kind(s[i]) = "Vector" /\ FirstSize(s, "Vector") = Tail(TypeOf(s[i]))
      BY <1>2, <2>2, FirstSizeGiven
    <3>2. s[i] \in Cells
      OBVIOUS
    <3>3. TypeOf(s[i]) = <<"Vector", Len(Datum(s[i]))>> /\ Datum(s[i]) \in Seq(Int)
      BY <3>1, <3>2, TypeOfCell, CellShape
    <3> DEFINE n == Len(Datum(s[i]))
    <3>4. n \in Nat
      BY <3>3, LenProperties
    <3> HIDE DEF n
    <3>5. Tail(<<"Vector", n>>) = <<n>>
      BY <3>4, OneAfter
    <3> QED BY <2>2, <3>1, <3>3, <3>4, <3>5 DEF n
  <2> QED BY <2>1, <2>2
<1> HIDE DEF size
<1>4. PICK n \in Int : size = <<n>>
  BY <1>3
<1> QED BY <1>1, <1>2, <1>4

(* Matrices become a list of lists of one length each, one of rows, or JSON. *)
LEMMA MatrixColumn ==
  ASSUME NEW t \in FieldTypes, t[1] = "Matrix", NEW s \in Seq(Cells), ListColumn(t, s) # JsonColumn(s)
  PROVE  \E size \in Seq(Int) :
           /\ Len(size) \in 1 .. 2 /\ size[1] > 0
           /\ ListColumn(t, s) = ColumnOf(<<"List", "Matrix", size>>, [i \in 1 .. Len(s) |-> <<s[i]>>])
           /\ \A i \in 1 .. Len(s) : HasSize(s[i], "Matrix", size)
<1> DEFINE size == IF t[2] = 0 THEN FirstSize(s, "Matrix") ELSE IF t[3] = 0 THEN <<t[2]>> ELSE Tail(t)
<1>1. ListColumn(t, s) =
        IF size # <<>> /\ \A i \in 1 .. Len(s) : HasSize(s[i], "Matrix", size)
        THEN ColumnOf(<<"List", "Matrix", size>>, [i \in 1 .. Len(s) |-> <<s[i]>>])
        ELSE JsonColumn(s)
  BY DEF ListColumn, Each
<1>2. size # <<>> /\ \A i \in 1 .. Len(s) : HasSize(s[i], "Matrix", size)
  BY <1>1
<1>3. t = <<"Matrix", t[2], t[3]>> /\ t[2] \in Nat /\ t[3] \in Nat
  BY TypeShape
<1>4. size \in Seq(Int) /\ Len(size) \in 1 .. 2 /\ size[1] > 0
  <2>1. CASE t[2] # 0 /\ t[3] = 0
    <3>1. size = <<t[2]>>
      BY <2>1
    <3> HIDE DEF size
    <3> QED BY <1>3, <2>1, <3>1
  <2>2. CASE t[2] # 0 /\ t[3] # 0
    <3>1. size = Tail(t)
      BY <2>2
    <3> HIDE DEF size
    <3>2. Tail(<<"Matrix", t[2], t[3]>>) = <<t[2], t[3]>>
      BY <1>3, TwoAfter
    <3>3. size = <<t[2], t[3]>>
      BY <1>3, <3>1, <3>2
    <3> QED BY <1>3, <2>2, <3>3
  <2>3. CASE t[2] = 0
    <3>1. size = FirstSize(s, "Matrix")
      BY <2>3
    <3>2. PICK i \in 1 .. Len(s) : /\ Kind(s[i]) = "Matrix" /\ Datum(s[i]) # <<>>
                                   /\ size = Tail(TypeOf(s[i]))
      BY <1>2, <3>1, FirstSizeGiven
    <3>3. s[i] \in Cells
      OBVIOUS
    <3> DEFINE d == Datum(s[i])
    <3>4. d \in Seq(Seq(Int)) /\ TypeOf(s[i]) = <<"Matrix", Len(d), Len(d[1])>>
      BY <3>2, <3>3, TypeOfCell, CellShape
    <3>5. Len(d) \in Nat /\ Len(d) > 0 /\ Len(d[1]) \in Nat
      <4> HIDE DEF d
      <4>1. Len(d) \in Nat /\ Len(d) # 0
        BY <3>2, <3>4, EmptySeq, LenProperties DEF d
      <4>2. d[1] \in Seq(Int)
        BY <3>4, <4>1
      <4> QED BY <4>1, <4>2, LenProperties
    <3>6. Tail(<<"Matrix", Len(d), Len(d[1])>>) = <<Len(d), Len(d[1])>>
      BY <3>5, TwoAfter
    <3>7. size = <<Len(d), Len(d[1])>>
      BY <3>2, <3>4, <3>6
    <3> HIDE DEF size, d
    <3> QED BY <3>5, <3>7
  <2> QED BY <1>3, <2>1, <2>2, <2>3
<1> HIDE DEF size
<1> QED BY <1>1, <1>2, <1>4

(* A cell of a list of one size fits the type read off the list. *)
LEMMA SizedFits ==
  ASSUME NEW f \in ColumnFields, NEW v \in Cells, NEW size \in Seq(Int), NEW kind \in {"Vector", "Matrix"},
         HasSize(v, kind, size),
         kind = "Matrix" => Len(size) \in 1 .. 2 /\ size[1] > 0,
         NEW t,
         t = IF kind = "Vector" THEN <<"Vector", size[1]>>
             ELSE <<"Matrix", size[1], IF Len(size) = 2 THEN size[2] ELSE 0>>
  PROVE  Fitting([f EXCEPT !.type = t], v)
<1> DEFINE g == [f EXCEPT !.type = t]
<1>1. g.type = t
  BY DEF ColumnFields
<1>2. ~ IsNull(v) /\ Kind(v) = kind /\ Len(Datum(v)) = size[1]
  BY SizedCell
<1> HIDE DEF g
<1>3. CASE kind = "Vector"
  <2>1. TypeOf(v) = t
    BY <1>2, <1>3, TypeOfCell
  <2> QED BY <1>2, <2>1, FitsOther DEF g
<1>4. CASE kind = "Matrix" /\ Len(size) = 2
  <2> DEFINE d == Datum(v)
  <2>1. d \in Seq(Seq(Int)) /\ Len(d) = size[1] /\ size[1] > 0
    BY <1>2, <1>4, CellShape
  <2>2. d # <<>> /\ 1 \in 1 .. Len(d)
    <3> HIDE DEF d
    <3> QED BY <2>1, LenProperties
  <2>3. Len(d[1]) = size[2]
    BY <1>4, <2>2 DEF HasSize
  <2>4. TypeOf(v) = <<"Matrix", Len(d), Len(d[1])>>
    BY <1>2, <1>4, <2>2, TypeOfCell
  <2>5. TypeOf(v) = t
    BY <1>4, <2>1, <2>3, <2>4
  <2> QED BY <1>2, <2>5, FitsOther DEF g
<1>5. CASE kind = "Matrix" /\ Len(size) # 2
  <2>1. t = <<"Matrix", size[1], 0>>
    BY <1>5
  <2>2. TypeOf(v)[2] = size[1]
    BY <1>2, <1>5, TypeOfCell
  <2>3. t[1] = "Matrix" /\ t[2] = TypeOf(v)[2] /\ t[3] = 0
    BY <2>1, <2>2
  <2>4. Kind(v) = "Matrix"
    BY <1>2, <1>5
  <2> QED BY <1>1, <1>2, <2>3, <2>4 DEF Fitting, Compatible, g
<1> QED BY <1>3, <1>4, <1>5

(* A list of cells of one size comes back, under the declared type and under its own. *)
LEMMA SizedComeBack ==
  ASSUME NEW f \in ColumnFields, NEW s \in Seq(Cells), \A i \in 1 .. Len(s) : Fitting(f, s[i]),
         NEW kind \in {"Vector", "Matrix"}, f.type[1] = kind, NEW size \in Seq(Int),
         kind = "Matrix" => Len(size) \in 1 .. 2 /\ size[1] > 0,
         ListColumn(f.type, s) = ColumnOf(<<"List", kind, size>>, [i \in 1 .. Len(s) |-> <<s[i]>>]),
         \A i \in 1 .. Len(s) : HasSize(s[i], kind, size)
  PROVE  ParquetGivesBack(f, s)
<1> DEFINE t == f.type
           own == IF kind = "Vector" THEN <<"Vector", size[1]>>
                  ELSE <<"Matrix", size[1], IF Len(size) = 2 THEN size[2] ELSE 0>>
           column == ColumnOf(<<"List", kind, size>>, Wrapped(s))
<1>1. t[1] \in {"Vector", "Matrix"} /\ t[1] \notin DOMAIN Physical /\ t[1] \notin {"Bits", "Sparse", "Quant"}
  BY PhysicalTypes DEF Scalars
<1>2. /\ column.type = <<"List", kind, size>> /\ column.logical = <<>> /\ column.cells = Wrapped(s)
      /\ column.type[1] = "List" /\ column.type[2] = kind /\ column.type[3] = size
  BY DEF ColumnOf
<1>3. ListColumn(t, s) = column
  <2>1. \A i \in 1 .. Len(s) : ~ IsNull(s[i])
    BY SizedCell
  <2>2. [i \in 1 .. Len(s) |-> <<s[i]>>] = Wrapped(s)
    BY <2>1 DEF Wrapped
  <2> QED BY <2>2
<1> HIDE DEF column
<1>4. Annotated(t, column) = column
  BY <1>2 DEF Annotated
<1>5. ~ (~ f.nullable /\ \E i \in 1 .. Len(s) : column.cells[i] = <<>>)
  BY <1>2, WrappedCells, FitsKind
<1>6. ToArrow(f, s, FALSE) = Recovered(column)
  BY <1>1, <1>3, <1>4, <1>5 DEF ToArrow
<1>7. TypeFromArrow(column) = own
  <2>1. \A j \in DOMAIN Physical : Physical[j] # "List"
    BY PhysicalTypes DEF Scalars
  <2>2. CASE kind = "Vector"
    BY <1>2, <2>1, <2>2 DEF TypeFromArrow
  <2>3. CASE kind = "Matrix"
    BY <1>2, <2>1, <2>3 DEF TypeFromArrow
  <2> QED BY <2>2, <2>3
<1>8. Kept(column, s) = s
  <2>1. column.type # <<"Utf8">>
    BY <1>2
  <2> QED BY <2>1, NothingLost
<1>9. ASSUME NEW u \in {t, own} PROVE FromArrow(u, column) = Recovered(s)
  <2> DEFINE value(cell) == IF cell = <<>> THEN Null ELSE cell[1]
  <2>1. u[1] = kind
    BY <1>9
  <2>2. u[1] \notin DOMAIN Physical
    BY <1>1, <2>1
  <2>3. column.type[1] # "Utf8" /\ column.type[1] = "List" /\ column.type[2] = u[1]
    BY <1>2, <2>1
  <2>4. FromArrow(u, column) = Recovered([i \in 1 .. Len(column.cells) |-> value(column.cells[i])])
    BY <2>1, <2>2, <2>3 DEF FromArrow, Each
  <2>5. [i \in 1 .. Len(column.cells) |-> value(column.cells[i])] = s
    BY <1>2, WrappedCells
  <2> QED BY <2>4, <2>5
<1>10. \A i \in 1 .. Len(s) : Fitting([f EXCEPT !.type = t], s[i])
  <2>1. [f EXCEPT !.type = f.type] = f
    BY DEF ColumnFields
  <2> QED BY <2>1
<1>11. \A i \in 1 .. Len(s) : Fitting([f EXCEPT !.type = own], s[i])
  <2>1. SUFFICES ASSUME NEW i \in 1 .. Len(s) PROVE Fitting([f EXCEPT !.type = own], s[i])
    OBVIOUS
  <2>2. PICK u : u = own
    OBVIOUS
  <2>3. s[i] \in Cells /\ HasSize(s[i], kind, size)
    OBVIOUS
  <2>4. Fitting([f EXCEPT !.type = u], s[i])
    BY <2>2, <2>3, SizedFits
  <2> QED BY <2>2, <2>4
<1> HIDE DEF own
<1> QED BY <1>6, <1>7, <1>8, <1>9, <1>10, <1>11, GivenBack

(* Every column comes back from data.parquet. *)
LEMMA ParquetComesBack ==
  ASSUME NEW f \in ColumnFields, NEW s \in Seq(Cells), \A i \in 1 .. Len(s) : Fitting(f, s[i])
  PROVE  ParquetGivesBack(f, s)
<1> DEFINE t == f.type
<1>1. t \in FieldTypes /\ t[1] \in Scalars \cup {"Complex", "Vector", "Bits", "Sparse", "Matrix", "Quant"}
  BY TypeShape DEF ColumnFields
<1>2. CASE t[1] \in Scalars
  BY <1>2, ScalarsComeBack
<1>3. CASE t[1] \in Packed
  BY <1>3, PackedComeBack
<1>4. CASE t[1] \in Nested /\ (t[1] # "Complex" => ListColumn(t, s) = JsonColumn(s))
  BY <1>4, JsonComesBack
<1>5. CASE t[1] = "Vector" /\ ListColumn(t, s) # JsonColumn(s)
  <2>1. PICK n \in Int :
           /\ ListColumn(t, s) = ColumnOf(<<"List", "Vector", <<n>>>>, [i \in 1 .. Len(s) |-> <<s[i]>>])
           /\ \A i \in 1 .. Len(s) : HasSize(s[i], "Vector", <<n>>)
    BY <1>1, <1>5, VectorColumn
  <2>2. <<n>> \in Seq(Int)
    OBVIOUS
  <2> QED BY <1>5, <2>1, <2>2, SizedComeBack
<1>6. CASE t[1] = "Matrix" /\ ListColumn(t, s) # JsonColumn(s)
  <2>1. PICK size \in Seq(Int) :
           /\ Len(size) \in 1 .. 2 /\ size[1] > 0
           /\ ListColumn(t, s) = ColumnOf(<<"List", "Matrix", size>>, [i \in 1 .. Len(s) |-> <<s[i]>>])
           /\ \A i \in 1 .. Len(s) : HasSize(s[i], "Matrix", size)
    BY <1>1, <1>6, MatrixColumn
  <2> QED BY <1>6, <2>1, SizedComeBack
<1> QED BY <1>1, <1>2, <1>3, <1>4, <1>5, <1>6 DEF Packed, Nested

-----------------------------------------------------------------------------
(* CSV.                                                                     *)

(* What CSV is given: scalars as they are, everything else as JSON. *)
CsvCells(f, s) == IF f.type[1] \in Scalars THEN Wrapped(s) ELSE Quoted(s)

LEMMA CsvWritten ==
  ASSUME NEW f \in ColumnFields, NEW s \in Seq(Cells), \A i \in 1 .. Len(s) : Fitting(f, s[i]), f.type[1] \notin Packed
  PROVE  \E column : ToArrow(f, s, TRUE) = Recovered(column) /\ column.cells = CsvCells(f, s)
<1> DEFINE t == f.type
<1>1. CASE t[1] \in Scalars
  <2> DEFINE plain == ColumnOf(<<Physical[t[1]]>>, Wrapped(s))
  <2>1. /\ t[1] \in DOMAIN Physical
        /\ t[1] \notin {"Vector", "Matrix", "Complex", "Bits", "Sparse", "Quant"}
    BY <1>1, PhysicalTypes DEF Scalars
  <2>2. plain.cells = Wrapped(s)
    BY DEF ColumnOf
  <2>3. ScalarColumn(t[1], s) = plain
    BY <1>1, ScalarCells DEF Wrapped
  <2> HIDE DEF plain
  <2>4. Annotated(t, plain) = plain
    BY <2>1 DEF Annotated
  <2>5. ~ (~ f.nullable /\ \E i \in 1 .. Len(s) : plain.cells[i] = <<>>)
    BY <2>2, WrappedCells, FitsKind
  <2>6. ToArrow(f, s, TRUE) = Recovered(plain)
    BY <2>1, <2>3, <2>4, <2>5 DEF ToArrow
  <2> QED BY <1>1, <2>2, <2>6 DEF CsvCells
<1>2. CASE t[1] \notin Scalars
  <2> DEFINE plain == JsonColumn(s)
             column == [plain EXCEPT !.logical = t]
  <2>1. /\ t[1] \in Nested /\ t[1] \notin DOMAIN Physical /\ t[1] \notin {"Bits", "Sparse", "Quant"}
    BY <1>2, TypeShape, PhysicalTypes DEF ColumnFields, Scalars, Nested, Packed
  <2>2. plain.type = <<"Utf8">> /\ plain.cells = Quoted(s) /\ column.cells = Quoted(s)
    BY JsonCells DEF JsonColumn, ColumnOf
  <2>3. ~ (~ f.nullable /\ \E i \in 1 .. Len(s) : plain.cells[i] = <<>>)
    BY <2>2, JsonCells, FitsKind
  <2>4. Annotated(t, plain) = column
    <3> HIDE DEF plain
    <3> QED BY <2>1, <2>2 DEF Annotated, Nested
  <2>5. ToArrow(f, s, TRUE) = Recovered(Annotated(t, plain))
    BY <2>1, <2>3 DEF ToArrow
  <2> QED BY <1>2, <2>2, <2>4, <2>5 DEF CsvCells
<1> QED BY <1>1, <1>2

(* A cell is empty where the value is NULL, and holds the value or its JSON elsewhere. *)
LEMMA CsvCell ==
  ASSUME NEW f \in ColumnFields, NEW s \in Seq(Cells), NEW i \in 1 .. Len(s)
  PROVE  /\ CsvCells(f, s)[i] = <<>> <=> IsNull(s[i])
         /\ ~ IsNull(s[i]) =>
              CsvCells(f, s)[i][1] = IF f.type[1] \in Scalars THEN s[i] ELSE <<"Json", s[i]>>
BY WrappedCells, JsonCells DEF CsvCells

(* What is read back of a column that can be. *)
LEMMA CsvRead ==
  ASSUME NEW f \in ColumnFields, NEW s \in Seq(Cells), \A i \in 1 .. Len(s) : Fitting(f, s[i]), f.type[1] # "Bits"
  PROVE  IF s = <<>> \/ f.type[1] \in {"Sparse", "Quant"} \/ \E i \in 1 .. Len(s) : IsNull(s[i])
         THEN ThroughCsv(f, s) = NotRead
         ELSE ThroughCsv(f, s) =
                Recovered([i \in 1 .. Len(s) |->
                             Reread(Inferred({Looks(CsvCells(f, s)[j][1]) : j \in 1 .. Len(s)}), CsvCells(f, s)[i][1])])
<1>1. CASE f.type[1] \in {"Sparse", "Quant"}
  BY <1>1 DEF ThroughCsv
<1>2. CASE f.type[1] \notin {"Sparse", "Quant"}
  <2>1. PICK column : ToArrow(f, s, TRUE) = Recovered(column) /\ column.cells = CsvCells(f, s)
    BY <1>2, CsvWritten DEF Packed
  <2>2. Recovered(column) # NotRead /\ Recovered(column)[1] = column
    BY DEF Recovered, NotRead
  <2>3. (\E i \in 1 .. Len(s) : CsvCells(f, s)[i] = <<>>) <=> \E i \in 1 .. Len(s) : IsNull(s[i])
    BY CsvCell
  <2>4. ToArrow(f, s, TRUE) # NotRead /\ ToArrow(f, s, TRUE)[1].cells = CsvCells(f, s)
    BY <2>1, <2>2
  <2>5. CASE s = <<>> \/ \E i \in 1 .. Len(s) : IsNull(s[i])
    BY <2>3, <2>4, <2>5 DEF ThroughCsv
  <2>6. CASE ~ (s = <<>> \/ \E i \in 1 .. Len(s) : IsNull(s[i]))
    BY <1>2, <2>3, <2>4, <2>6 DEF ThroughCsv
  <2> QED BY <1>2, <2>5, <2>6
<1> QED BY <1>1, <1>2

(* One look is what the column looks like. *)
LEMMA OneLook ==
  ASSUME NEW n \in Nat, n > 0, NEW g, NEW look, \A i \in 1 .. n : Looks(g[i][1]) = look
  PROVE  {Looks(g[i][1]) : i \in 1 .. n} = {look}
<1>1. 1 \in 1 .. n
  OBVIOUS
<1> QED BY <1>1

(* A number or a Boolean is read back as it is spelled; a Double as a Float. *)
LEMMA PlainSpelled ==
  ASSUME NEW v \in Cells, Kind(v) \in {"Int", "Float", "Double", "Bool"}
  PROVE  /\ Kind(v) = "Int" => Looks(v) = "integer" /\ Reread("Int", v) = v
         /\ Kind(v) \in {"Float", "Double"} => Looks(v) = "decimal" /\ SameSpelling(Reread("Float", v), v)
         /\ Kind(v) = "Bool" => Looks(v) = "boolean" /\ Reread("Bool", v) = v
<1>1. v = <<Kind(v), Datum(v)>>
  BY CellShape
<1>2. CASE Kind(v) = "Int"
  BY <1>1, <1>2 DEF Looks, Reread
<1>3. CASE Kind(v) = "Bool"
  BY <1>3 DEF Looks, Reread
<1>4. CASE Kind(v) \in {"Float", "Double"}
  <2>1. Looks(v) = "decimal"
    BY <1>4 DEF Looks
  <2> DEFINE w == <<"Float", Datum(v)>>
  <2>2. Reread("Float", v) = w
    BY <1>4 DEF Reread
  <2>3. Kind(w) = "Float" /\ Datum(w) = Datum(v)
    BY DEF Kind, Datum
  <2> HIDE DEF w
  <2>4. HashKey(w) = ToString(Datum(v))
    BY <2>3 DEF HashKey
  <2>5. HashKey(v) = ToString(Datum(v))
    BY <1>4 DEF HashKey
  <2> QED BY <1>4, <2>1, <2>2, <2>4, <2>5 DEF SameSpelling
<1> QED BY <1>2, <1>3, <1>4

(* A text is read back as it is spelled, whatever its column looks like. *)
LEMMA TextSpelled ==
  ASSUME NEW v \in Cells, Kind(v) = "Text"
  PROVE  /\ Looks(v) \in {"integer", "boolean", "text"}
         /\ Looks(v) = "integer" => SameSpelling(Reread("Int", v), v)
         /\ Looks(v) = "boolean" => SameSpelling(Reread("Bool", v), v)
         /\ Reread("Text", v) = v
<1> DEFINE x == Spelling[Datum(v)]
<1>1. Looks(v) = CASE x \in {"0", "1"} -> "integer" [] x \in {"true", "false"} -> "boolean" [] OTHER -> "text"
  BY DEF Looks
<1>2. HashKey(v) = x
  BY DEF HashKey
<1>3. Reread("Text", v) = v
  BY DEF Reread
<1>4. Reread("Int", v) = <<"Int", IF x = "0" THEN 0 ELSE 1>>
  BY DEF Reread
<1>5. Reread("Bool", v) = ABool(x = "true")
  BY DEF Reread
<1> HIDE DEF x
<1>6. CASE x \in {"0", "1"}
  <2>1. Looks(v) = "integer"
    BY <1>1, <1>6
  <2> DEFINE w == <<"Int", IF x = "0" THEN 0 ELSE 1>>
  <2>2. Kind(w) = "Int" /\ Datum(w) = IF x = "0" THEN 0 ELSE 1
    BY DEF Kind, Datum
  <2> HIDE DEF w
  <2>3. HashKey(w) = ToString(Datum(w))
    BY <2>2 DEF HashKey
  <2>4. HashKey(w) = x
    BY <1>6, <2>2, <2>3, DigitsAssumption
  <2>5. Reread("Int", v) = w
    BY <1>4 DEF w
  <2> QED BY <1>2, <1>3, <2>1, <2>4, <2>5 DEF SameSpelling
<1>7. CASE x \in {"true", "false"}
  <2>1. Looks(v) = "boolean"
    BY <1>1, <1>7
  <2> DEFINE w == ABool(x = "true")
  <2>2. Kind(w) = "Bool" /\ (Datum(w) = 1 <=> x = "true")
    BY DEF Kind, Datum, ABool
  <2> HIDE DEF w
  <2>3. HashKey(w) = IF x = "true" THEN "true" ELSE "false"
    BY <2>2 DEF HashKey, IsTrue
  <2>4. HashKey(w) = x
    BY <1>7, <2>3
  <2>5. Reread("Bool", v) = w
    BY <1>5 DEF w
  <2> QED BY <1>2, <1>3, <2>1, <2>4, <2>5 DEF SameSpelling
<1>8. CASE x \notin {"0", "1", "true", "false"}
  <2>1. Looks(v) = "text"
    BY <1>1, <1>8
  <2> QED BY <1>3, <2>1
<1> QED BY <1>6, <1>7, <1>8

(* JSON text is text. *)
LEMMA JsonSpelled ==
  ASSUME NEW v, NEW w, w = <<"Json", v>>
  PROVE  Looks(w) = "text" /\ Reread("Text", w) = w /\ SameSpelling(w, v)
<1>1. Kind(w) = "Json"
  BY DEF Kind
<1>2. Looks(w) = "text"
  BY <1>1 DEF Looks
<1>3. Reread("Text", w) = w
  BY <1>1 DEF Reread
<1> QED BY <1>2, <1>3 DEF SameSpelling

(* Every cell of a column without nulls comes back as it is spelled. *)
LEMMA CellsSpelled ==
  ASSUME NEW f \in ColumnFields, NEW s \in Seq(Cells), \A i \in 1 .. Len(s) : Fitting(f, s[i]) /\ ~ IsNull(s[i]) /\ s[i] # NaN,
         f.type[1] \notin Packed, s # <<>>, NEW k \in 1 .. Len(s)
  PROVE  SameSpelling(Reread(Inferred({Looks(CsvCells(f, s)[j][1]) : j \in 1 .. Len(s)}), CsvCells(f, s)[k][1]), s[k])
<1> DEFINE t == f.type[1]
           c == CsvCells(f, s)
           looks == {Looks(c[j][1]) : j \in 1 .. Len(s)}
<1>1. Len(s) \in Nat /\ Len(s) > 0 /\ \A i \in 1 .. Len(s) : s[i] \in Cells
  BY LenProperties, EmptySeq
<1>2. t \in Scalars => \A i \in 1 .. Len(s) : c[i][1] = s[i] /\ Kind(s[i]) = t
  <2>1. SUFFICES ASSUME t \in Scalars, NEW i \in 1 .. Len(s) PROVE c[i][1] = s[i] /\ Kind(s[i]) = t
    OBVIOUS
  <2>2. Kind(s[i]) # "NaN"
    BY <1>1, CellShape
  <2>3. c[i][1] = s[i]
    BY <2>1, CsvCell
  <2>4. Sort(s[i]) = t
    BY <1>1, FitsKind
  <2> QED BY <2>2, <2>3, <2>4 DEF Sort
<1>3. t \notin Scalars => \A i \in 1 .. Len(s) : c[i][1] = <<"Json", s[i]>>
  BY CsvCell
<1> HIDE DEF c
<1>4. ASSUME NEW look, \A i \in 1 .. Len(s) : Looks(c[i][1]) = look PROVE looks = {look}
  BY <1>1, <1>4, OneLook
<1>5. \A j \in 1 .. Len(s) : Looks(c[j][1]) \in looks
  OBVIOUS
<1> HIDE DEF looks
<1>6. CASE t \notin Scalars
  <2>1. \A i \in 1 .. Len(s) : Looks(c[i][1]) = "text"
    BY <1>3, <1>6, JsonSpelled
  <2>2. Inferred(looks) = "Text"
    BY <1>4, <2>1 DEF Inferred
  <2> QED BY <1>3, <1>6, <2>2, JsonSpelled DEF looks, c
<1>7. CASE t = "Int"
  <2>1. \A i \in 1 .. Len(s) : Looks(c[i][1]) = "integer" /\ Reread("Int", c[i][1]) = s[i]
    BY <1>1, <1>2, <1>7, PlainSpelled DEF Scalars
  <2>2. Inferred(looks) = "Int"
    BY <1>4, <2>1 DEF Inferred
  <2> QED BY <2>1, <2>2 DEF looks, c, SameSpelling
<1>8. CASE t \in {"Float", "Double"}
  <2>1. \A i \in 1 .. Len(s) : Looks(c[i][1]) = "decimal" /\ SameSpelling(Reread("Float", c[i][1]), s[i])
    BY <1>1, <1>2, <1>8, PlainSpelled DEF Scalars
  <2>2. looks = {"decimal"}
    BY <1>4, <2>1
  <2>3. Inferred(looks) = "Float"
    BY <2>2 DEF Inferred
  <2> QED BY <2>1, <2>3 DEF looks, c
<1>9. CASE t = "Bool"
  <2>1. \A i \in 1 .. Len(s) : Looks(c[i][1]) = "boolean" /\ Reread("Bool", c[i][1]) = s[i]
    BY <1>1, <1>2, <1>9, PlainSpelled DEF Scalars
  <2>2. looks = {"boolean"}
    BY <1>4, <2>1
  <2>3. Inferred(looks) = "Bool"
    BY <2>2 DEF Inferred
  <2> QED BY <2>1, <2>3 DEF looks, c, SameSpelling
<1>10. CASE t = "Text"
  <2>1. \A i \in 1 .. Len(s) : c[i][1] = s[i] /\ Kind(s[i]) = "Text" /\ Looks(s[i]) \in {"integer", "boolean", "text"}
    BY <1>1, <1>2, <1>10, TextSpelled DEF Scalars
  <2>2. Looks(s[k]) \in looks
    BY <1>5, <2>1
  <2>3. CASE looks = {"integer"}
    <3>1. Inferred(looks) = "Int"
      BY <2>3 DEF Inferred
    <3> QED BY <1>1, <2>1, <2>2, <2>3, <3>1, TextSpelled DEF looks, c
  <2>4. CASE looks = {"boolean"}
    <3>1. Inferred(looks) = "Bool"
      BY <2>4 DEF Inferred
    <3> QED BY <1>1, <2>1, <2>2, <2>4, <3>1, TextSpelled DEF looks, c
  <2>5. CASE looks \notin {{"integer"}, {"boolean"}}
    <3>1. "decimal" \notin looks
      BY <2>1 DEF looks
    <3>2. Inferred(looks) = "Text"
      BY <2>5, <3>1 DEF Inferred
    <3> QED BY <1>1, <2>1, <3>2, TextSpelled DEF looks, c, SameSpelling
  <2> QED BY <2>3, <2>4, <2>5
<1> QED BY <1>6, <1>7, <1>8, <1>9, <1>10 DEF Scalars

(* Every column that CSV can hold comes back as it is spelled. *)
LEMMA CsvComesBack ==
  ASSUME NEW f \in ColumnFields, NEW s \in Seq(Cells), \A i \in 1 .. Len(s) : Fitting(f, s[i]) /\ s[i] # NaN,
         f.type[1] # "Bits"
  PROVE  CsvGivesBack(f, s)
<1> DEFINE back == ThroughCsv(f, s)
           kind == Inferred({Looks(CsvCells(f, s)[j][1]) : j \in 1 .. Len(s)})
           cells == [i \in 1 .. Len(s) |-> Reread(kind, CsvCells(f, s)[i][1])]
<1>1. CASE s = <<>> \/ f.type[1] \in {"Sparse", "Quant"} \/ \E i \in 1 .. Len(s) : IsNull(s[i])
  <2>1. back = NotRead
    BY <1>1, CsvRead
  <2> QED BY <1>1, <2>1 DEF CsvGivesBack
<1>2. CASE ~ (s = <<>> \/ f.type[1] \in {"Sparse", "Quant"} \/ \E i \in 1 .. Len(s) : IsNull(s[i]))
  <2>1. back = Recovered(cells)
    BY <1>2, CsvRead
  <2>2. back # NotRead /\ back[1] = cells
    <3> HIDE DEF back, cells
    <3> QED BY <2>1 DEF Recovered, NotRead
  <2>3. \A i \in 1 .. Len(s) : SameSpelling(Reread(kind, CsvCells(f, s)[i][1]), s[i])
    BY <1>2, CellsSpelled DEF Packed
  <2>4. \A i \in 1 .. Len(s) : SameSpelling(cells[i], s[i])
    <3> HIDE DEF kind
    <3> QED BY <2>3
  <2> HIDE DEF back, cells
  <2>5. back # NotRead /\ \A i \in 1 .. Len(s) : SameSpelling(back[1][i], s[i])
    BY <2>2, <2>4
  <2> QED BY <1>2, <2>5 DEF CsvGivesBack, back
<1> QED BY <1>1, <1>2

-----------------------------------------------------------------------------
(* The questions.                                                           *)

(* One element before two. *)
LEMMA ThreeOf ==
  ASSUME NEW q, NEW a, NEW b, Len(a) = 1, Len(b) = 2,
         \A i \in 1 .. Len(a) + Len(b) : q[i] = IF i <= Len(a) THEN a[i] ELSE b[i - Len(a)]
  PROVE  q[1] = a[1] /\ q[2] = b[1] /\ q[3] = b[2]
<1>1. \A i \in 1 .. 3 : q[i] = IF i <= 1 THEN a[i] ELSE b[i - 1]
  OBVIOUS
<1> QED BY <1>1

(* A question about a column is its kind, its field and its cells. *)
LEMMA Questioned ==
  ASSUME NEW c, IsColumn(c), NEW kind
  PROVE  \A q : q = <<kind>> \o c => q[1] = kind /\ q[2] = c[1] /\ q[3] = c[2]
<1>1. c = <<c[1], c[2]>>
  BY DEF IsColumn
<1>2. PICK x, y : x = c[1] /\ y = c[2]
  OBVIOUS
<1>3. <<x, y>> \in Seq({kind, x, y}) /\ Len(<<x, y>>) = 2 /\ <<x, y>>[1] = x /\ <<x, y>>[2] = y
  OBVIOUS
<1>4. <<kind>> \in Seq({kind, x, y}) /\ Len(<<kind>>) = 1 /\ <<kind>>[1] = kind
  OBVIOUS
<1>5. c = <<x, y>>
  BY <1>1, <1>2
<1>6. \A q : q = <<kind>> \o <<x, y>> => q[1] = kind /\ q[2] = x /\ q[3] = y
  <2> DEFINE k == <<kind>>
             d == <<x, y>>
             S == {kind, x, y}
  <2>1. /\ k \in Seq(S) /\ Len(k) = 1 /\ k[1] = kind
        /\ d \in Seq(S) /\ Len(d) = 2 /\ d[1] = x /\ d[2] = y
    BY <1>3, <1>4
  <2>2. k \in Seq(S) /\ d \in Seq(S)
    BY <2>1
  <2> HIDE DEF k, d, S
  <2>3. \A i \in 1 .. Len(k) + Len(d) : (k \o d)[i] = IF i <= Len(k) THEN k[i] ELSE d[i - Len(k)]
    BY <2>2, ConcatProperties, Zenon
  <2>4. ASSUME NEW q, q = k \o d PROVE q[1] = k[1] /\ q[2] = d[1] /\ q[3] = d[2]
    <3>1. \A i \in 1 .. Len(k) + Len(d) : q[i] = IF i <= Len(k) THEN k[i] ELSE d[i - Len(k)]
      BY <2>3, <2>4, Zenon
    <3> QED BY <2>1, <3>1, ThreeOf
  <2> QED BY <2>1, <2>4, Zenon DEF k, d
<1> QED BY <1>2, <1>5, <1>6, Zenon

(* What Calculations asks besides: questions of other kinds. *)
AskOthers == ~ Asked("column")' /\ ~ Asked("csv")'

StorageSpec == Init /\ [][AskStorage \/ AskOthers]_question

(* Whatever columns are saved and whatever columns are exported: data.parquet gives every cell back under
   the declared type and under the one LOAD infers, but for the lists with an infinity that JSON loses, and
   a CSV file gives every cell back as it is spelled (core/storage.rs). *)
THEOREM ColumnsAlwaysComeBack == StorageSpec => []ColumnsComeBack
<1> DEFINE Known == \/ ~ Asked("column") /\ ~ Asked("csv")
                    \/ \E c \in StoredColumns : question = <<"column">> \o c
                    \/ \E c \in CsvColumns : question = <<"csv">> \o c
<1>1. Init => Known
  BY DEF Init, Asked
<1>2. Known /\ [AskStorage \/ AskOthers]_question => Known'
  <2>1. CASE AskStorage
    BY <2>1 DEF AskStorage, Ask
  <2>2. CASE AskOthers
    BY <2>2 DEF AskOthers
  <2>3. Known /\ question' = question => Known'
    BY DEF Asked
  <2> QED BY <2>1, <2>2, <2>3
<1>3. Known => ColumnsComeBack
  <2>1. ASSUME ~ Asked("column") /\ ~ Asked("csv") PROVE ColumnsComeBack
    BY <2>1 DEF ColumnsComeBack
  <2>2. ASSUME NEW c \in StoredColumns, question = <<"column">> \o c PROVE ColumnsComeBack
    <3>1. IsColumn(c)
      BY ColumnsAssumption
    <3>2. question[1] = "column" /\ question[2] = c[1] /\ question[3] = c[2]
      <4>1. \A q : q = <<"column">> \o c => q[1] = "column" /\ q[2] = c[1] /\ q[3] = c[2]
        BY <3>1, Questioned, Zenon
      <4> QED BY <2>2, <4>1, Zenon
    <3>3. ParquetGivesBack(c[1], c[2])
      BY <3>1, ParquetComesBack DEF IsColumn
    <3> QED BY <3>2, <3>3 DEF ColumnsComeBack, Asked
  <2>3. ASSUME NEW c \in CsvColumns, question = <<"csv">> \o c PROVE ColumnsComeBack
    <3>1. /\ IsColumn(c) /\ c[1].type[1] # "Bits"
          /\ \A i \in 1 .. Len(c[2]) : c[2][i] # NaN
      BY ColumnsAssumption
    <3>2. question[1] = "csv" /\ question[2] = c[1] /\ question[3] = c[2]
      <4>1. \A q : q = <<"csv">> \o c => q[1] = "csv" /\ q[2] = c[1] /\ q[3] = c[2]
        BY <3>1, Questioned, Zenon
      <4> QED BY <2>3, <4>1, Zenon
    <3>3. CsvGivesBack(c[1], c[2])
      BY <3>1, CsvComesBack DEF IsColumn
    <3> QED BY <3>2, <3>3 DEF ColumnsComeBack, Asked
  <2> QED BY <2>1, <2>2, <2>3
<1> QED BY <1>1, <1>2, <1>3, PTL DEF StorageSpec
=============================================================================
