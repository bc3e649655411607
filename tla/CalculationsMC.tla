--------------------------- MODULE CalculationsMC ---------------------------
(* The questions of all parts together, over small instances.              *)
EXTENDS Calculations, LanguageMC, QueriesMC

-----------------------------------------------------------------------------
(* Storage: columns of up to three cells of each type.                     *)
VectorCells == {AVector(<<>>), AVector(<<1>>), AVector(<<Infinite>>), AVector(<<1, 2>>), AVector(<<2, Infinite>>)}
MatrixCells == {<<"Matrix", <<>>>>, <<"Matrix", <<<<1>>>>>>, <<"Matrix", <<<<1>>, <<Infinite>>>>>>,
                <<"Matrix", <<<<1, 2>>, <<3>>>>>>, <<"Matrix", <<<<1, 2>>, <<3, 4>>>>>>}
Bit(b) == <<"Bits", b>>

CellsOf(type) ==
  CASE type[1] = "Int" -> {AnInt(0), AnInt(1)} [] type[1] = "Float" -> {AFloat(0), AFloat(2), NaN}
    [] type[1] = "Double" -> {ADouble(0), ADouble(2)} [] type[1] = "Text" -> {AText(n) : n \in {1, 3, 5, 7}}
    [] type[1] = "Bool" -> {ABool(FALSE), ABool(TRUE)} [] type[1] = "Complex" -> {<<"Complex", <<1, Infinite>>>>, <<"Complex", <<1, 0>>>>}
    [] type[1] = "Vector" -> VectorCells [] type[1] = "Matrix" -> MatrixCells
    [] type[1] = "Bits" -> {Bit(<<0, 1>>), Bit(<<1, 1>>)}
    [] type[1] = "Sparse" -> {<<"Sparse", <<3, <<<<2, 1>>>>>>>>, <<"Sparse", <<3, <<>>>>>>}
    [] type[1] = "Quant" -> {<<"Quant", <<2, "Int8", <<1, 2>>>>>>}

MCTypes ==
  {<<kind>> : kind \in {"Int", "Float", "Double", "Text", "Bool", "Complex"}}
    \cup {<<"Vector", n>> : n \in 0..2} \cup {<<"Matrix", r, c>> : r \in 0..2, c \in 0..2}
    \cup {<<"Bits", 2>>, <<"Sparse", 3>>, <<"Quant", 2, "Int8">>}

FieldsOf(types) == {[name |-> "c", type |-> t, nullable |-> b, lazy |-> FALSE] : t \in types, b \in BOOLEAN}
Fitted(field) == {v \in CellsOf(field.type) \cup {Null} : Fitting(field, v)}
Filled(fields) == UNION {{<<f, cells>> : cells \in UNION {[1..n -> Fitted(f)] : n \in 0..3}} : f \in fields}

MCStoredColumns == Filled(FieldsOf(MCTypes))

(* Bits are written in hexadecimal, which may look like a number. *)
MCCsvColumns ==
  {c \in Filled(FieldsOf({t \in MCTypes : t[1] # "Bits"})) :
     \A i \in 1..Len(c[2]) : c[2][i] # NaN}

-----------------------------------------------------------------------------
(* Similarity: columns of up to seven vectors of the plane.                *)
Directions == <<<<1, 0>>, <<1, 1>>, <<0, 1>>, <<-1, 0>>, <<1, -1>>, <<2, 1>>, <<0, 0>>>>
Some(indices) == {Directions[d] : d \in indices}

(* Every k-th direction, and then faster: columns of seven vectors. *)
Spirals == {[i \in 1..7 |-> Directions[((a + b * i + c * i * i) % 7) + 1]] : a \in 0..3, b, c \in 0..2}

MCThresholds == {<<-1, 1>>, <<-1, 2>>, <<0, 1>>, <<1, 2>>, <<4, 5>>, <<1, 1>>}

MCThresholdCases ==
  {<<cells, 4, query>> : cells \in [1..4 -> Some({1, 2, 4, 5, 7})], query \in Some({1, 3, 7})}
    \cup {<<cells \o tail, 7, query>> : cells \in Spirals, tail \in {<<>>, <<<<>>, <<1, 0>>>>}, query \in Some(1..5)}

MCGraphCases ==
  ([1..5 -> Some({1, 2, 3, 7})] \X {<<0, 0, 0, 0, 0>>, <<0, 1, 0, 1, 0>>, <<1, 0, 2, 1, 0>>})
    \cup (Spirals \X {<<0, 0, 1, 2, 0, 1, 0>>, <<2, 0, 0, 1, 1, 0, 1>>})

MCNearestCases ==
  {<<cells, levels, built, query, k, passing>> :
     cells \in [1..5 -> Some({1, 2, 3})] \cup {[c EXCEPT ![2] = <<>>] : c \in [1..5 -> Some({1, 3})]},
     levels \in {<<0, 0, 0, 0, 0>>, <<0, 1, 0, 1, 0>>}, built \in {4, 5}, query \in Some({1}), k \in 1..2,
     passing \in {{3, 4}, {2, 3, 5}}}
=============================================================================
