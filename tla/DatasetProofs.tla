---------------------------- MODULE DatasetProofs ----------------------------
(***************************************************************************)
(* Proofs about modules RecordDataset and AccessPaths, for any schemas,    *)
(* rows, expressions and evaluators, and any order of statements.          *)
(*                                                                         *)
(* The argument: what is derived of the rows is a function of them; INSERT *)
(* changes the derived data as that function changes by one row; what is   *)
(* not derived again keeps its columns, since every row has the names of   *)
(* the schema until a query's result replaces the rows. The paths of a     *)
(* WHERE clause then read every row a scan would answer with: a prefix of  *)
(* an index in order, a text that tells a value, bounds of a partition.    *)
(***************************************************************************)
EXTENDS AccessPaths, SequenceTheorems, FunctionTheorems, FiniteSetTheorems, TLAPS

-----------------------------------------------------------------------------
(* Numbers and sequences.                                                   *)

(* A set of numbers has a least one.                                        *)
LEMMA LeastOf ==
  ASSUME NEW T \in SUBSET Nat, T # {}
  PROVE  \E n \in T : \A k \in T : n <= k
<1> DEFINE R == OpToRel(<, Nat)
<1>1. IsWellFoundedOn(R, Nat)
  BY NatLessThanWellFounded
<1>2. \A x, y \in Nat : << x, y >> \in R <=> x < y
  BY DEF OpToRel
<1> HIDE DEF R
<1>3. PICK x \in T : \A y \in T : ~ (<< y, x >> \in R)
  BY <1>1, WFMin
<1>4. T \subseteq Nat /\ x \in Nat
  OBVIOUS
<1>5. \A k \in T : ~ (k < x)
  BY <1>2, <1>3, <1>4
<1>6. \A k \in T : x <= k
  BY <1>4, <1>5
<1> QED BY <1>6

(* The least of them is what Min returns.                                   *)
LEMMA MinOf ==
  ASSUME NEW T \in SUBSET Nat, T # {}
  PROVE  Min(T) \in T /\ \A k \in T : Min(T) <= k
<1>1. \E n \in T : \A k \in T : n <= k
  BY LeastOf
<1> QED BY <1>1 DEF Min

(* A set of numbers up to a bound has a greatest one.                       *)
LEMMA MaxOf ==
  ASSUME NEW m \in Nat, NEW T \in SUBSET (1 .. m), T # {}
  PROVE  Max(T) \in T /\ \A k \in T : k <= Max(T)
<1> DEFINE U == {n \in Nat : \A k \in T : k <= n}
<1>1. m \in U /\ U \in SUBSET Nat
  OBVIOUS
<1>2. PICK n \in U : \A k \in U : n <= k
  BY <1>1, LeastOf
<1>3. n \in Nat /\ \A k \in T : k <= n
  BY <1>2
<1>4. n \in T
  <2>1. SUFFICES ASSUME n \notin T PROVE FALSE
    OBVIOUS
  <2>2. n # 0
    <3>1. PICK k \in T : k \in 1 .. m
      OBVIOUS
    <3> QED BY <1>3, <3>1
  <2>3. ASSUME NEW k \in T PROVE k <= n - 1
    <3>1. k \in 1 .. m
      OBVIOUS
    <3>2. k <= n
      BY <1>3
    <3>3. k # n
      BY <2>1
    <3> QED BY <1>3, <3>1, <3>2, <3>3
  <2>4. n - 1 \in U
    BY <1>3, <2>2, <2>3
  <2> QED BY <1>2, <1>3, <2>4
<1>5. \E x \in T : \A y \in T : x >= y
  BY <1>3, <1>4
<1>6. Max(T) \in T /\ \A y \in T : Max(T) >= y
  BY <1>5 DEF Max
<1> QED BY <1>6

(* What holds of 0 and goes on from each number to the next holds up to m.  *)
LEMMA Climb ==
  ASSUME NEW m \in Nat, NEW G, 0 \in G, \A n \in 1 .. m : n - 1 \in G => n \in G
  PROVE  m \in G
<1> DEFINE T == {n \in 0 .. m : n \notin G}
<1>1. T \in SUBSET Nat
  OBVIOUS
<1>2. SUFFICES ASSUME T # {} PROVE FALSE
  OBVIOUS
<1>3. PICK n \in T : \A k \in T : n <= k
  BY <1>1, <1>2, LeastOf
<1>4. n # 0 /\ n \in 1 .. m /\ n - 1 \in 0 .. m
  BY <1>3
<1>5. n - 1 \in G
  BY <1>3, <1>4
<1> QED BY <1>3, <1>4, <1>5

(* A sequence is one over any set that has its elements.                    *)
LEMMA SeqOver ==
  ASSUME NEW s, IsSeq(s), NEW S, \A i \in 1 .. Len(s) : s[i] \in S
  PROVE  s \in Seq(S)
BY DEF IsSeq

(* A sequence is a function on its indexes.                                 *)
LEMMA SeqParts ==
  ASSUME NEW s, IsSeq(s)
  PROVE  Len(s) \in Nat /\ DOMAIN s = 1 .. Len(s) /\ s = [i \in 1 .. Len(s) |-> s[i]]
BY DEF IsSeq

(* A function on 1 .. n is a sequence of length n.                          *)
LEMMA SeqMade ==
  ASSUME NEW n \in Nat, NEW f, f = [i \in 1 .. n |-> f[i]]
  PROVE  IsSeq(f) /\ Len(f) = n
<1>1. f \in Seq(Range(f))
  BY DEF Range
<1> QED BY <1>1 DEF IsSeq

(* Append, of any value to any sequence.                                    *)
LEMMA SeqAppend ==
  ASSUME NEW s, IsSeq(s), NEW x
  PROVE  /\ IsSeq(Append(s, x)) /\ Len(Append(s, x)) = Len(s) + 1
         /\ Append(s, x)[Len(s) + 1] = x
         /\ \A i \in 1 .. Len(s) : Append(s, x)[i] = s[i]
<1> DEFINE S == Range(s) \cup {x}
           t == Append(s, x)
<1>1. s \in Seq(S) /\ x \in S
  BY SeqOver, SeqParts DEF Range
<1> HIDE DEF S
<1>2. t \in Seq(S) /\ Len(t) = Len(s) + 1 /\ t[Len(s) + 1] = x /\ \A i \in 1 .. Len(s) : t[i] = s[i]
  BY <1>1
<1> HIDE DEF t
<1>3. Len(t) \in Nat /\ DOMAIN t = 1 .. Len(t)
  BY <1>2
<1>4. t \in Seq(Range(t))
  BY <1>2, <1>3 DEF Range
<1>5. IsSeq(t)
  BY <1>4 DEF IsSeq
<1> QED BY <1>2, <1>5 DEF t

(* Sequences are told apart by their lengths and elements.                  *)
LEMMA SameSeq ==
  ASSUME NEW s, NEW t, IsSeq(s), IsSeq(t), Len(s) = Len(t), \A i \in 1 .. Len(s) : s[i] = t[i]
  PROVE  s = t
<1>1. PICK f : f = [i \in 1 .. Len(s) |-> s[i]]
  OBVIOUS
<1>2. f = s
  BY <1>1, SeqParts
<1>3. f = [i \in 1 .. Len(t) |-> t[i]]
  BY <1>1
<1>4. f = t
  BY <1>3, SeqParts
<1> QED BY <1>2, <1>4

-----------------------------------------------------------------------------
(* Sorted indexes: pairs of a value and its row, in an order.               *)

Sortable(P) ==
  /\ IsFiniteSet(P)
  /\ \A x \in P : x[2] \in Nat /\ Orderable(x[1])
  /\ \A x, y \in P : SortKind(x[1]) = SortKind(y[1]) /\ (x[2] = y[2] => x = y)

Lower(x, y) ==
  Datum(x[1]) < Datum(y[1]) \/ (Datum(x[1]) = Datum(y[1]) /\ x[2] < y[2])

(* Values that can be ordered are in the order of their data.               *)
LEMMA CompareIs ==
  ASSUME NEW v, NEW w, Orderable(v), Orderable(w), SortKind(v) = SortKind(w)
  PROVE  Compare(v, w) = Order(Datum(v), Datum(w))
<1>1. ~ IsNull(v) /\ ~ IsNull(w)
  BY DEF Orderable, SortKind, IsNull, IsNumber
<1>2. (IsNumber(v) /\ IsNumber(w)) \/ (Kind(v) = Kind(w) /\ Kind(v) = "Text")
  BY DEF Orderable, SortKind, IsNumber
<1> QED BY <1>1, <1>2 DEF Compare

LEMMA PrecedesIs ==
  ASSUME NEW P, Sortable(P), NEW x \in P, NEW y \in P
  PROVE  Precedes(x, y) <=> Lower(x, y)
<1>1. Orderable(x[1]) /\ Orderable(y[1]) /\ SortKind(x[1]) = SortKind(y[1])
  BY DEF Sortable
<1>2. Compare(x[1], y[1]) = Order(Datum(x[1]), Datum(y[1]))
  BY <1>1, CompareIs
<1>3. Datum(x[1]) \in Int /\ Datum(y[1]) \in Int
  BY <1>1 DEF Orderable
<1>4. /\ Order(Datum(x[1]), Datum(y[1])) = "less" <=> Datum(x[1]) < Datum(y[1])
      /\ Order(Datum(x[1]), Datum(y[1])) = "equal" <=> Datum(x[1]) = Datum(y[1])
  BY <1>3 DEF Order
<1> QED BY <1>2, <1>4 DEF Precedes, Lower

(* Lower is a strict order, and compares any two pairs.                     *)
LEMMA LowerIs ==
  ASSUME NEW P, Sortable(P)
  PROVE  /\ \A x \in P : ~ Lower(x, x)
         /\ \A x, y, z \in P : Lower(x, y) /\ Lower(y, z) => Lower(x, z)
         /\ \A x, y \in P : x = y \/ Lower(x, y) \/ Lower(y, x)
<1>1. \A x \in P : x[2] \in Nat /\ Datum(x[1]) \in Int
  BY DEF Sortable, Orderable
<1>2. \A x, y \in P : x[2] = y[2] => x = y
  BY DEF Sortable
<1>3. \A x \in P : ~ Lower(x, x)
  BY <1>1 DEF Lower
<1>4. \A x, y, z \in P : Lower(x, y) /\ Lower(y, z) => Lower(x, z)
  BY <1>1 DEF Lower
<1>5. \A x, y \in P : x = y \/ Lower(x, y) \/ Lower(y, x)
  BY <1>1, <1>2 DEF Lower
<1> QED BY <1>3, <1>4, <1>5

(* The pairs of P up to x, and how many they are.                           *)
UpTo(P, x) == {y \in P : y = x \/ Lower(y, x)}
Rank(P, x) == Cardinality(UpTo(P, x))

LEMMA RankIs ==
  ASSUME NEW P, Sortable(P)
  PROVE  /\ \A x \in P : Rank(P, x) \in 1 .. Cardinality(P)
         /\ \A x, y \in P : Lower(x, y) => Rank(P, x) < Rank(P, y)
<1>1. IsFiniteSet(P)
  BY DEF Sortable
<1>2. \A x \in P : UpTo(P, x) \in SUBSET P /\ x \in UpTo(P, x)
  BY DEF UpTo
<1>3. \A x \in P : IsFiniteSet(UpTo(P, x)) /\ Cardinality(UpTo(P, x)) <= Cardinality(P)
  BY <1>1, <1>2, FS_Subset
<1>4. Cardinality(P) \in Nat /\ \A x \in P : Cardinality(UpTo(P, x)) \in Nat
  BY <1>1, <1>3, FS_CardinalityType
<1>5. \A x \in P : Cardinality(UpTo(P, x)) # 0
  BY <1>2, <1>3, FS_EmptySet
<1>6. \A x \in P : Rank(P, x) \in 1 .. Cardinality(P)
  BY <1>3, <1>4, <1>5 DEF Rank
<1>7. ASSUME NEW x \in P, NEW y \in P, Lower(x, y)
      PROVE  Rank(P, x) < Rank(P, y)
  <2>1. UpTo(P, x) \in SUBSET UpTo(P, y)
    BY <1>7, LowerIs DEF UpTo
  <2>2. y \in UpTo(P, y) /\ y \notin UpTo(P, x)
    BY <1>7, LowerIs DEF UpTo
  <2>3. UpTo(P, x) # UpTo(P, y)
    BY <2>2
  <2>4. /\ Cardinality(UpTo(P, x)) <= Cardinality(UpTo(P, y))
        /\ Cardinality(UpTo(P, x)) # Cardinality(UpTo(P, y))
    BY <1>3, <2>1, <2>3, FS_Subset
  <2> QED BY <1>4, <2>4 DEF Rank
<1> QED BY <1>6, <1>7

(* There is a sequence of all pairs in their order.                         *)
LEMMA SortedExists ==
  ASSUME NEW P, Sortable(P)
  PROVE  \E s \in SetToSeqs(P) : InOrder(s)
<1> DEFINE n == Cardinality(P)
           rank == [x \in P |-> Rank(P, x)]
           s == [r \in 1 .. n |-> CHOOSE x \in P : rank[x] = r]
<1>1. IsFiniteSet(P) /\ n \in Nat /\ IsFiniteSet(1 .. n) /\ Cardinality(1 .. n) = n
  BY FS_CardinalityType, FS_Interval DEF Sortable
<1>2. rank \in [P -> 1 .. n]
  BY RankIs
<1>3. \A x, y \in P : rank[x] = rank[y] => x = y
  <2>1. \A x, y \in P : Lower(x, y) => rank[x] < rank[y]
    BY RankIs
  <2>2. \A x \in P : rank[x] \in 1 .. n
    BY <1>2
  <2> HIDE DEF rank
  <2> QED BY <1>1, <2>1, <2>2, LowerIs
<1> HIDE DEF n, rank
<1>4. rank \in Injection(P, 1 .. n)
  BY <1>2, <1>3, Fun_IsInj
<1>5. rank \in Surjection(P, 1 .. n)
  BY <1>1, <1>4, FS_Injection DEF n
<1>6. \A r \in 1 .. n : \E x \in P : rank[x] = r
  BY <1>5 DEF Surjection
<1>7. \A r \in 1 .. n : s[r] \in P /\ rank[s[r]] = r
  BY <1>6
<1>8. s \in [1 .. n -> P]
  BY <1>7
<1> HIDE DEF s
<1>9. s \in SetToSeqs(P)
  BY <1>7, <1>8 DEF SetToSeqs, n
<1>10. Len(s) = n
  BY <1>1, <1>8
<1>11. ASSUME NEW i \in 1 .. Len(s) - 1 PROVE Precedes(s[i], s[i + 1])
  <2>1. i \in 1 .. n /\ i + 1 \in 1 .. n /\ i < i + 1
    BY <1>1, <1>10
  <2>2. s[i] \in P /\ s[i + 1] \in P /\ rank[s[i]] = i /\ rank[s[i + 1]] = i + 1
    BY <1>7, <2>1
  <2>3. s[i] # s[i + 1] /\ ~ Lower(s[i + 1], s[i])
    BY <2>1, <2>2, RankIs DEF rank
  <2> QED BY <2>2, <2>3, LowerIs, PrecedesIs
<1> QED BY <1>9, <1>11 DEF InOrder

(* The sequence of a new SORTED index has the pairs of the rows, in order.  *)
LEMMA SortedMade ==
  ASSUME NEW P, Sortable(P), NEW s, s = CHOOSE t \in SetToSeqs(P) : InOrder(t)
  PROVE  InOrder(s) /\ {s[i] : i \in 1 .. Len(s)} = P /\ Len(s) \in Nat
<1>1. s \in SetToSeqs(P) /\ InOrder(s)
  BY SortedExists
<1> DEFINE n == Cardinality(P)
<1>2. IsFiniteSet(P) /\ n \in Nat /\ IsFiniteSet(1 .. n) /\ Cardinality(1 .. n) = n
  BY FS_CardinalityType, FS_Interval DEF Sortable
<1>3. s \in [1 .. n -> P] /\ \A i, j \in 1 .. n : i # j => s[i] # s[j]
  BY <1>1 DEF SetToSeqs
<1>4. s \in Injection(1 .. n, P)
  BY <1>3, Fun_IsInj
<1>5. s \in Surjection(1 .. n, P)
  BY <1>2, <1>4, FS_Injection
<1>6. \A x \in P : \E i \in 1 .. n : s[i] = x
  BY <1>5 DEF Surjection
<1>7. Len(s) = n
  BY <1>2, <1>3
<1> HIDE DEF n
<1>8. {s[i] : i \in 1 .. n} = P
  <2>1. \A i \in 1 .. n : s[i] \in P
    BY ONLY <1>3
  <2> QED BY ONLY <2>1, <1>6
<1> QED BY ONLY <1>1, <1>2, <1>7, <1>8

-----------------------------------------------------------------------------
(* What an index says of a column.                                          *)

IsIndex(idx) ==
  /\ idx = [kind |-> idx.kind, sorted |-> idx.sorted, entries |-> idx.entries]
  /\ idx.kind \in {"Hash", "Sorted"}

(* The index answers for column c of the rows rs, and can be built of them. *)
Answers(idx, fs, c, rs) ==
  /\ Indexable(fs, idx.kind, c, rs)
  /\ idx.kind = "Hash" => idx = IndexOf("Hash", c, rs)
  /\ idx.kind = "Sorted" =>
       /\ Len(idx.sorted) \in Nat /\ InOrder(idx.sorted)
       /\ SortedPairs(idx) = Pairs(c, rs)
       /\ DOMAIN idx.entries \subseteq 1 .. Len(rs)

(* Two sequences of rows have the same column c.                            *)
SameColumn(c, rs, ss) ==
  /\ Len(rs) = Len(ss)
  /\ \A i \in 1 .. Len(rs) :
       /\ HasColumn(rs[i], c) <=> HasColumn(ss[i], c)
       /\ HasColumn(rs[i], c) => Get(rs[i], c) = Get(ss[i], c)

LEMMA SamePairs ==
  ASSUME NEW c, NEW rs, NEW ss, SameColumn(c, rs, ss)
  PROVE  Having(c, rs) = Having(c, ss) /\ Pairs(c, rs) = Pairs(c, ss)
<1>1. Having(c, rs) = Having(c, ss)
  BY DEF SameColumn, Having
<1>2. \A i \in Having(c, rs) : Get(rs[i], c) = Get(ss[i], c)
  BY DEF SameColumn, Having
<1>3. Pairs(c, rs) = Pairs(c, ss)
  BY <1>1, <1>2 DEF Pairs
<1> QED BY <1>1, <1>3

(* A column that can be indexed has pairs that can be sorted.               *)
LEMMA PairsSortable ==
  ASSUME NEW fs, NEW c, NEW rs, IsSeq(rs), Indexable(fs, "Sorted", c, rs)
  PROVE  Sortable(Pairs(c, rs))
<1> DEFINE P == Pairs(c, rs)
           f == [x \in P |-> x[2]]
<1>1. Len(rs) \in Nat /\ IsFiniteSet(1 .. Len(rs))
  BY SeqParts, FS_Interval
<1>2. \A x \in P : \E i \in 1 .. Len(rs) : x = << Get(rs[i], c), i >>
  BY DEF Pairs, Having
<1>3. \A x \in P : x[2] \in 1 .. Len(rs) /\ x = << Get(rs[x[2]], c), x[2] >>
  BY <1>2
<1>4. \A x, y \in P : x[2] = y[2] => x = y
  BY <1>3
<1>5. \A x, y \in P : Orderable(x[1]) /\ SortKind(x[1]) = SortKind(y[1])
  BY DEF Indexable
<1> HIDE DEF P
<1>6. f \in [P -> 1 .. Len(rs)] /\ \A x, y \in P : f[x] = f[y] => x = y
  BY <1>3, <1>4
<1>7. f \in Injection(P, 1 .. Len(rs))
  BY <1>6, Fun_IsInj
<1>8. IsFiniteSet(P)
  BY <1>1, <1>7, FS_Injection
<1>9. Sortable(P)
  BY <1>1, <1>3, <1>4, <1>5, <1>8 DEF Sortable
<1> QED BY <1>9 DEF P

(* What CREATE INDEX makes answers for the rows.                            *)
LEMMA MadeAnswers ==
  ASSUME NEW fs, NEW kind \in {"Hash", "Sorted"}, NEW c, NEW rs, IsSeq(rs), Indexable(fs, kind, c, rs)
  PROVE  IsIndex(IndexOf(kind, c, rs)) /\ Answers(IndexOf(kind, c, rs), fs, c, rs)
<1> DEFINE idx == IndexOf(kind, c, rs)
<1>1. IsIndex(idx) /\ idx.kind = kind
  BY DEF IndexOf, IsIndex
<1>2. CASE kind = "Hash"
  BY <1>1, <1>2 DEF Answers
<1>3. CASE kind = "Sorted"
  <2>1. Sortable(Pairs(c, rs))
    BY <1>3, PairsSortable
  <2>2. idx.sorted = CHOOSE s \in SetToSeqs(Pairs(c, rs)) : InOrder(s)
    BY <1>3 DEF IndexOf
  <2>3. InOrder(idx.sorted) /\ {idx.sorted[i] : i \in 1 .. Len(idx.sorted)} = Pairs(c, rs)
    BY <2>1, <2>2, SortedMade
  <2>4. DOMAIN idx.entries = {}
    BY <1>3 DEF IndexOf, NoFunction
  <2>5. SortedPairs(idx) = Pairs(c, rs)
    BY <2>3, <2>4 DEF SortedPairs
  <2> QED BY <1>1, <1>3, <2>3, <2>4, <2>5 DEF Answers
<1> QED BY <1>1, <1>2, <1>3

(* An index goes on answering for a column that does not change.            *)
LEMMA KeptAnswers ==
  ASSUME NEW idx, NEW fs, NEW gs, NEW c, NEW rs, NEW ss,
         Answers(idx, fs, c, rs), SameColumn(c, rs, ss), c \in SetOfNames(gs)
  PROVE  Answers(idx, gs, c, ss)
<1>1. Having(c, rs) = Having(c, ss) /\ Pairs(c, rs) = Pairs(c, ss)
  BY SamePairs
<1>2. Indexable(gs, idx.kind, c, ss)
  BY <1>1 DEF Answers, Indexable
<1>3. ASSUME idx.kind = "Hash" PROVE idx = IndexOf("Hash", c, ss)
  <2>1. \A i \in Having(c, rs) : Get(rs[i], c) = Get(ss[i], c)
    BY DEF SameColumn, Having
  <2>2. IndexOf("Hash", c, rs) = IndexOf("Hash", c, ss)
    BY <1>1, <2>1 DEF IndexOf
  <2> QED BY <1>3, <2>2 DEF Answers
<1>4. Len(rs) = Len(ss)
  BY DEF SameColumn
<1> QED BY <1>1, <1>2, <1>3, <1>4 DEF Answers

(* One row more is one pair more, unless its value is NULL.                 *)
LEMMA PairsAppend ==
  ASSUME NEW c, NEW rs, IsSeq(rs), NEW row, HasColumn(row, c)
  PROVE  /\ Having(c, Append(rs, row)) = Having(c, rs) \cup {Len(rs) + 1}
         /\ Pairs(c, Append(rs, row))
              = Pairs(c, rs) \cup {x \in {<< Get(row, c), Len(rs) + 1 >>} : ~ IsNull(x[1])}
<1> DEFINE id == Len(rs) + 1
           more == Append(rs, row)
<1>1. /\ Len(rs) \in Nat /\ Len(more) = id
      /\ more[id] = row /\ \A i \in 1 .. Len(rs) : more[i] = rs[i]
  BY SeqAppend, SeqParts
<1> HIDE DEF more
<1>2. 1 .. id = (1 .. Len(rs)) \cup {id}
  BY <1>1
<1>3. Having(c, more) = Having(c, rs) \cup {id}
  BY <1>1, <1>2 DEF Having
<1>4. \A i \in Having(c, rs) : more[i] = rs[i]
  BY <1>1 DEF Having
<1>5. Pairs(c, more) = Pairs(c, rs) \cup {x \in {<< Get(row, c), id >>} : ~ IsNull(x[1])}
  BY <1>1, <1>3, <1>4 DEF Pairs
<1> QED BY <1>1, <1>3, <1>4, <1>5 DEF more

(* It is an index still, of the same kind.                                  *)
LEMMA AddedIsIndex ==
  ASSUME NEW idx, IsIndex(idx), NEW v, NEW id
  PROVE  IsIndex(Added(idx, v, id)) /\ Added(idx, v, id).kind = idx.kind
<1> DEFINE key == IF idx.kind = "Hash" THEN HashKey(v) ELSE v
           before == IF id \in DOMAIN idx.entries THEN idx.entries[id] ELSE << >>
           new == [idx EXCEPT !.entries = With(@, id, Append(before, key))]
<1>1. new = [kind |-> idx.kind, sorted |-> idx.sorted, entries |-> With(idx.entries, id, Append(before, key))]
  BY DEF IsIndex
<1> HIDE DEF before, key
<1>2. IsIndex(new) /\ new.kind = idx.kind
  BY <1>1 DEF IsIndex
<1> QED BY <1>2 DEF Added, before, key

(* An index that took a row answers for the rows with it.                   *)
LEMMA AddedHash ==
  ASSUME NEW fs, NEW c, NEW rs, IsSeq(rs), NEW row, HasColumn(row, c), c \in SetOfNames(fs),
         NEW idx, idx = IndexOf("Hash", c, rs)
  PROVE  Answers(Added(idx, Get(row, c), Len(rs) + 1), fs, c, Append(rs, row))
<1> DEFINE id == Len(rs) + 1
           more == Append(rs, row)
           v == Get(row, c)
<1>1. /\ Having(c, more) = Having(c, rs) \cup {id}
      /\ more[id] = row
      /\ \A i \in Having(c, rs) : more[i] = rs[i]
  <2>1. Having(c, more) = Having(c, rs) \cup {id}
    BY PairsAppend
  <2>2. more[id] = row /\ \A i \in 1 .. Len(rs) : more[i] = rs[i]
    BY SeqAppend
  <2> QED BY <2>1, <2>2 DEF Having
<1>2. id \notin Having(c, rs)
  BY SeqParts DEF Having
<1> HIDE DEF id, more, v
<1>3. idx = [kind |-> "Hash", sorted |-> << >>, entries |-> [i \in Having(c, rs) |-> << HashKey(Get(rs[i], c)) >>]]
  BY DEF IndexOf
<1>4. DOMAIN idx.entries = Having(c, rs) /\ idx.kind = "Hash"
  BY <1>3
<1>5. Append(<< >>, HashKey(v)) = << HashKey(v) >>
  OBVIOUS
<1>6. Added(idx, v, id) = [idx EXCEPT !.entries = With(@, id, << HashKey(v) >>)]
  BY <1>2, <1>4, <1>5 DEF Added
<1>7. With(idx.entries, id, << HashKey(v) >>) = [i \in Having(c, more) |-> << HashKey(Get(more[i], c)) >>]
  <2>1. ASSUME NEW i \in Having(c, more)
        PROVE  (IF i = id THEN << HashKey(v) >> ELSE idx.entries[i]) = << HashKey(Get(more[i], c)) >>
    BY <1>1, <1>3 DEF v
  <2> QED BY <1>1, <1>4, <2>1 DEF With
<1>8. Added(idx, v, id) = IndexOf("Hash", c, more)
  BY <1>3, <1>6, <1>7 DEF IndexOf
<1>9. IndexOf("Hash", c, more).kind = "Hash"
  BY DEF IndexOf
<1>10. Indexable(fs, "Hash", c, more)
  BY DEF Indexable
<1>11. Answers(Added(idx, v, id), fs, c, more)
  BY <1>8, <1>9, <1>10 DEF Answers
<1> QED BY <1>11 DEF id, more, v

LEMMA AddedSorted ==
  ASSUME NEW fs, NEW c, NEW rs, IsSeq(rs), NEW row, HasColumn(row, c), c \in SetOfNames(fs),
         NEW idx, IsIndex(idx), idx.kind = "Sorted", Answers(idx, fs, c, rs), Accepts(idx, Get(row, c))
  PROVE  Answers(Added(idx, Get(row, c), Len(rs) + 1), fs, c, Append(rs, row))
<1> DEFINE id == Len(rs) + 1
           more == Append(rs, row)
           v == Get(row, c)
           new == Added(idx, v, id)
<1>1. Pairs(c, more) = Pairs(c, rs) \cup {x \in {<< v, id >>} : ~ IsNull(x[1])}
  BY PairsAppend
<1>2. Len(rs) \in Nat /\ Len(more) = id /\ id \in 1 .. Len(more) /\ 1 .. Len(rs) \subseteq 1 .. Len(more)
  BY SeqAppend, SeqParts
<1>3. /\ InOrder(idx.sorted) /\ SortedPairs(idx) = Pairs(c, rs)
      /\ DOMAIN idx.entries \subseteq 1 .. Len(rs)
      /\ \A x, y \in Pairs(c, rs) : Orderable(x[1]) /\ SortKind(x[1]) = SortKind(y[1])
  BY DEF Answers, Indexable
<1>4. new.kind = "Sorted"
  BY AddedIsIndex
<1> HIDE DEF more, v
<1>5. CASE IsNull(v)
  <2>1. new = idx
    BY <1>5 DEF Added
  <2>2. Pairs(c, more) = Pairs(c, rs)
    BY <1>1, <1>5
  <2>3. Indexable(fs, "Sorted", c, more)
    BY <1>3, <2>2 DEF Indexable
  <2>4. DOMAIN idx.entries \subseteq 1 .. Len(more)
    BY <1>2, <1>3
  <2>5. Answers(new, fs, c, more)
    BY <1>3, <2>1, <2>2, <2>3, <2>4 DEF Answers
  <2> QED BY <2>5 DEF more, v
<1>6. CASE ~ IsNull(v)
  <2>1. id \notin DOMAIN idx.entries
    BY <1>2, <1>3
  <2>2. Append(<< >>, v) = << v >>
    OBVIOUS
  <2>3. new = [idx EXCEPT !.entries = With(@, id, << v >>)]
    BY <1>6, <2>1, <2>2 DEF Added
  <2>4. new = [kind |-> "Sorted", sorted |-> idx.sorted, entries |-> With(idx.entries, id, << v >>)]
    BY <2>3 DEF IsIndex
  <2> HIDE DEF new
  <2>5. new.sorted = idx.sorted /\ new.entries = With(idx.entries, id, << v >>)
    BY <2>4
  <2>6. /\ DOMAIN new.entries = DOMAIN idx.entries \cup {id}
        /\ new.entries[id] = << v >>
        /\ \A i \in DOMAIN idx.entries : new.entries[i] = idx.entries[i]
    BY <2>1, <2>5 DEF With
  <2>7. SortedPairs(new) = SortedPairs(idx) \cup {<< v, id >>}
    <3>1. {<< new.entries[i][1], i >> : i \in DOMAIN new.entries}
            = {<< idx.entries[i][1], i >> : i \in DOMAIN idx.entries} \cup {<< v, id >>}
      BY <2>6
    <3> QED BY <2>5, <3>1 DEF SortedPairs
  <2>8. Pairs(c, more) = Pairs(c, rs) \cup {<< v, id >>}
    BY <1>1, <1>6
  <2>9. Orderable(v) /\ \A x \in Pairs(c, rs) : SortKind(x[1]) = SortKind(v)
    <3>1. Orderable(v) /\ \A held \in HeldBy(idx) : SortKind(held) = SortKind(v)
      BY <1>6 DEF Accepts, v
    <3>2. \A x \in SortedPairs(idx) : x[1] \in HeldBy(idx)
      BY DEF SortedPairs, HeldBy
    <3> QED BY <1>3, <3>1, <3>2
  <2>10. Indexable(fs, "Sorted", c, more)
    <3>1. SUFFICES ASSUME NEW x \in Pairs(c, more), NEW y \in Pairs(c, more)
                   PROVE  Orderable(x[1]) /\ SortKind(x[1]) = SortKind(y[1])
      BY DEF Indexable
    <3>2. << v, id >>[1] = v
      OBVIOUS
    <3> QED BY <1>3, <2>8, <2>9, <3>2
  <2>11. DOMAIN new.entries \subseteq 1 .. Len(more)
    BY <1>2, <1>3, <2>6
  <2>12. Answers(new, fs, c, more)
    BY <1>3, <1>4, <2>5, <2>7, <2>8, <2>10, <2>11 DEF Answers
  <2> QED BY <2>12 DEF more, v, new
<1> QED BY <1>5, <1>6

LEMMA AddedAnswers ==
  ASSUME NEW fs, NEW c, NEW rs, IsSeq(rs), NEW row, HasColumn(row, c),
         NEW idx, IsIndex(idx), Answers(idx, fs, c, rs), Accepts(idx, Get(row, c))
  PROVE  Answers(Added(idx, Get(row, c), Len(rs) + 1), fs, c, Append(rs, row))
<1>1. c \in SetOfNames(fs)
  BY DEF Answers, Indexable
<1>2. CASE idx.kind = "Hash"
  <2>1. idx = IndexOf("Hash", c, rs)
    BY <1>2 DEF Answers
  <2> QED BY <1>1, <2>1, AddedHash
<1>3. CASE idx.kind = "Sorted"
  BY <1>1, <1>3, AddedSorted
<1> QED BY <1>2, <1>3 DEF IsIndex

-----------------------------------------------------------------------------
(* Columns of rows.                                                         *)

IsRow(r) == r = [names |-> r.names, vals |-> r.vals] /\ IsSeq(r.names) /\ IsSeq(r.vals)

LEMMA NamesIs ==
  ASSUME NEW fs, IsSeq(fs)
  PROVE  /\ IsSeq(Names(fs)) /\ Len(Names(fs)) = Len(fs)
         /\ \A i \in 1 .. Len(fs) : Names(fs)[i] = fs[i].name
<1> DEFINE f == Names(fs)
<1>1. Len(fs) \in Nat
  BY SeqParts
<1>2. f = [i \in 1 .. Len(fs) |-> f[i]] /\ \A i \in 1 .. Len(fs) : f[i] = fs[i].name
  BY DEF Names
<1> HIDE DEF f
<1>3. IsSeq(f) /\ Len(f) = Len(fs)
  BY <1>1, <1>2, SeqMade
<1> QED BY <1>2, <1>3 DEF f

LEMMA PositionIs ==
  ASSUME NEW names, Len(names) \in Nat, NEW n, \E i \in 1 .. Len(names) : names[i] = n
  PROVE  Position(names, n) \in 1 .. Len(names) /\ names[Position(names, n)] = n
<1> DEFINE T == {i \in 1 .. Len(names) : names[i] = n}
<1>1. T \in SUBSET (1 .. Len(names)) /\ T # {}
  OBVIOUS
<1> HIDE DEF T
<1>2. Max(T) \in T
  BY <1>1, MaxOf
<1>3. Position(names, n) = Max(T)
  BY DEF Position, T
<1> QED BY <1>2, <1>3 DEF T

(* A tuple has the columns of its schema.                                   *)
LEMMA TupleIs ==
  ASSUME NEW fs, IsSeq(fs), NEW vals, IsSeq(vals)
  PROVE  /\ IsRow(Tuple(fs, vals)) /\ Tuple(fs, vals).names = Names(fs) /\ Tuple(fs, vals).vals = vals
         /\ \A c \in SetOfNames(fs) : HasColumn(Tuple(fs, vals), c)
<1>1. /\ Tuple(fs, vals) = [names |-> Names(fs), vals |-> vals]
      /\ Tuple(fs, vals).names = Names(fs) /\ Tuple(fs, vals).vals = vals
  BY DEF Tuple
<1>2. IsRow(Tuple(fs, vals))
  BY <1>1, NamesIs DEF IsRow
<1>3. ASSUME NEW c \in SetOfNames(fs) PROVE HasColumn(Tuple(fs, vals), c)
  BY <1>1, NamesIs DEF HasColumn, SetOfNames
<1> QED BY <1>1, <1>2, <1>3

(* A column added at the end leaves the others where they are.              *)
LEMMA WideNames ==
  ASSUME NEW fs, IsSeq(fs), NEW f, f.name \notin SetOfNames(fs), NEW c \in SetOfNames(fs)
  PROVE  /\ Position(Names(Append(fs, f)), c) = Position(Names(fs), c)
         /\ Position(Names(fs), c) \in 1 .. Len(fs)
         /\ c \in SetOfNames(Append(fs, f))
<1> DEFINE gs == Append(fs, f)
<1>1. /\ Len(fs) \in Nat /\ IsSeq(gs) /\ Len(gs) = Len(fs) + 1
      /\ gs[Len(fs) + 1] = f /\ \A i \in 1 .. Len(fs) : gs[i] = fs[i]
  BY SeqAppend, SeqParts
<1> HIDE DEF gs
<1>2. /\ Len(Names(fs)) = Len(fs) /\ \A i \in 1 .. Len(fs) : Names(fs)[i] = fs[i].name
      /\ Len(Names(gs)) = Len(gs) /\ \A i \in 1 .. Len(gs) : Names(gs)[i] = gs[i].name
  BY <1>1, NamesIs
<1>3. c # f.name /\ \E i \in 1 .. Len(fs) : fs[i].name = c
  BY DEF SetOfNames
<1>4. {i \in 1 .. Len(gs) : Names(gs)[i] = c} = {i \in 1 .. Len(fs) : Names(fs)[i] = c}
  <2>1. 1 .. Len(gs) = (1 .. Len(fs)) \cup {Len(fs) + 1}
    BY <1>1
  <2>2. \A i \in 1 .. Len(fs) : Names(gs)[i] = Names(fs)[i]
    BY <1>1, <1>2, <2>1
  <2>3. Names(gs)[Len(fs) + 1] # c
    BY <1>1, <1>2, <1>3, <2>1
  <2> QED BY <2>1, <2>2, <2>3
<1>5. Position(Names(gs), c) = Position(Names(fs), c)
  BY <1>2, <1>4 DEF Position
<1>6. Position(Names(fs), c) \in 1 .. Len(fs)
  BY <1>1, <1>2, <1>3, PositionIs
<1>7. c \in SetOfNames(gs)
  <2>1. PICK i \in 1 .. Len(fs) : fs[i].name = c
    BY <1>3
  <2>2. i \in 1 .. Len(gs) /\ gs[i].name = c
    BY <1>1, <2>1
  <2> QED BY <2>2 DEF SetOfNames
<1> QED BY <1>5, <1>6, <1>7 DEF gs

LEMMA WideSchema ==
  ASSUME NEW fs, IsSchema(fs), NEW f, IsField(f)
  PROVE  IsSchema(Append(fs, f)) /\ Len(Append(fs, f)) = Len(fs) + 1
<1> DEFINE gs == Append(fs, f)
<1>1. IsSeq(fs) /\ Len(fs) \in Nat /\ \A i \in 1 .. Len(fs) : IsField(fs[i])
  BY SeqParts DEF IsSchema
<1>2. /\ IsSeq(gs) /\ Len(gs) = Len(fs) + 1
      /\ gs[Len(fs) + 1] = f /\ \A i \in 1 .. Len(fs) : gs[i] = fs[i]
  BY <1>1, SeqAppend
<1> HIDE DEF gs
<1>3. 1 .. Len(gs) = (1 .. Len(fs)) \cup {Len(fs) + 1}
  BY <1>1, <1>2
<1>4. \A i \in 1 .. Len(gs) : IsField(gs[i])
  BY <1>1, <1>2, <1>3
<1> QED BY <1>2, <1>4 DEF IsSchema, gs

-----------------------------------------------------------------------------
(* The inductive invariant: what has the form the code gives it, rows that  *)
(* have the columns of the schema unless a query's result replaced them,    *)
(* and indexes that answer for the rows.                                    *)

Shape ==
  /\ IsSchema(fields)
  /\ IsSeq(rows) /\ \A i \in 1 .. Len(rows) : IsRow(rows[i])
  /\ DOMAIN index \subseteq Range(ColumnOrder)
  /\ \A c \in DOMAIN index : IsIndex(index[c])

Fitting(rs, fs) ==
  \A i \in 1 .. Len(rs) : rs[i].names = Names(fs) /\ Len(rs[i].vals) = Len(fs)

RowsFit == "rows" \notin stale => Fitting(rows, fields)

IndexInv ==
  /\ Shape /\ RowsFit
  /\ \A c \in DOMAIN index \ doubts : Answers(index[c], fields, c, rows)

(* A statement that fails, or finds nothing to change.                      *)
LEMMA SameInv ==
  ASSUME IndexInv, UNCHANGED << fields, rows, index, doubts, stale >>
  PROVE  IndexInv'
BY DEF IndexInv, Shape, RowsFit

LEMMA NoSeq ==
  ASSUME NEW s, s = << >>
  PROVE  IsSeq(s) /\ Len(s) = 0
<1>1. s \in Seq(Range(s))
  OBVIOUS
<1>2. Len(s) = 0
  OBVIOUS
<1> QED BY <1>1, <1>2 DEF IsSeq

LEMMA EmptyInv ==
  ASSUME IsSchema(fields'), rows' = << >>, index' = NoFunction
  PROVE  IndexInv'
<1>1. IsSeq(rows') /\ Len(rows') = 0
  BY NoSeq
<1>2. DOMAIN index' = {}
  BY DEF NoFunction
<1>3. 1 .. Len(rows') = {}
  BY <1>1
<1> QED BY <1>1, <1>2, <1>3 DEF IndexInv, Shape, RowsFit, Fitting

-----------------------------------------------------------------------------
(* UPDATE and DELETE.                                                       *)

(* Indexes that were created again are of columns that can be indexed; when *)
(* one cannot be created, it is gone.                                       *)
LEMMA RebuildIs ==
  ASSUME NEW idx, DOMAIN idx \subseteq Range(ColumnOrder), NEW fs, NEW rs, NEW cols,
         NEW made, made = Rebuild(idx, fs, rs, cols)
  PROVE  /\ made.fresh \subseteq cols /\ DOMAIN made.index \subseteq DOMAIN idx
         /\ \A c \in made.fresh : Indexable(fs, idx[c].kind, c, rs)
         /\ \A c \in DOMAIN made.index :
              made.index[c] = IF c \in made.fresh THEN IndexOf(idx[c].kind, c, rs) ELSE idx[c]
         /\ ~ made.ok => DOMAIN made.index # DOMAIN idx
<1> DEFINE todo == cols \cap DOMAIN idx
           fails == {i \in 1 .. Len(ColumnOrder) :
                       ColumnOrder[i] \in todo /\ ~ Indexable(fs, idx[ColumnOrder[i]].kind, ColumnOrder[i], rs)}
           gone == IF fails = {} THEN {} ELSE {ColumnOrder[Min(fails)]}
           fresh == {c \in todo : fails = {} \/ \E i \in 1 .. (Min(fails) - 1) : ColumnOrder[i] = c}
<1>1. made = [ok |-> fails = {}, fresh |-> fresh,
              index |-> [c \in DOMAIN idx \ gone |-> IF c \in fresh THEN IndexOf(idx[c].kind, c, rs) ELSE idx[c]]]
  BY DEF Rebuild
<1>2. Len(ColumnOrder) \in Nat /\ \A c \in todo : \E i \in 1 .. Len(ColumnOrder) : ColumnOrder[i] = c
  <2>1. Len(ColumnOrder) \in Nat /\ DOMAIN ColumnOrder = 1 .. Len(ColumnOrder)
    BY ColumnsAssumption, SeqParts
  <2> QED BY <2>1 DEF Range
<1>3. fails \in SUBSET (1 .. Len(ColumnOrder)) /\ fails \in SUBSET Nat
  BY <1>2
<1>4. fails # {} => Min(fails) \in fails /\ \A i \in fails : Min(fails) <= i
  BY <1>3, MinOf
<1>5. \A i \in 1 .. Len(ColumnOrder) :
        ColumnOrder[i] \in todo /\ i \notin fails => Indexable(fs, idx[ColumnOrder[i]].kind, ColumnOrder[i], rs)
  OBVIOUS
<1>6. \A i \in fails : ColumnOrder[i] \in DOMAIN idx
  OBVIOUS
<1> HIDE DEF fails
<1>7. ASSUME NEW c \in fresh PROVE Indexable(fs, idx[c].kind, c, rs)
  <2>1. CASE fails = {}
    BY <1>2, <1>5, <2>1
  <2>2. CASE fails # {}
    <3>1. PICK i \in 1 .. (Min(fails) - 1) : ColumnOrder[i] = c
      BY <2>2
    <3>2. i \in 1 .. Len(ColumnOrder) /\ i \notin fails
      BY <1>2, <1>3, <1>4, <2>2, <3>1
    <3> QED BY <1>5, <3>1, <3>2
  <2> QED BY <2>1, <2>2
<1>8. fails # {} => DOMAIN idx \ gone # DOMAIN idx
  BY <1>4, <1>6
<1>9. fresh \subseteq cols
  OBVIOUS
<1> DEFINE F == [c \in DOMAIN idx \ gone |-> IF c \in fresh THEN IndexOf(idx[c].kind, c, rs) ELSE idx[c]]
<1>10. DOMAIN F = DOMAIN idx \ gone /\ \A c \in DOMAIN F : F[c] = IF c \in fresh THEN IndexOf(idx[c].kind, c, rs) ELSE idx[c]
  OBVIOUS
<1> HIDE DEF fresh, gone, F
<1>11. made = [ok |-> fails = {}, fresh |-> fresh, index |-> F]
  BY <1>1 DEF F
<1>12. made.fresh = fresh
  BY <1>11
<1>13. made.index = F
  BY <1>11
<1>14. ASSUME fails = {} PROVE made.ok
  <2>1. PICK b : b = (fails = {})
    OBVIOUS
  <2>2. made.ok = b
    BY <1>11, <2>1
  <2>3. b = TRUE
    BY <1>14, <2>1
  <2> QED BY <2>2, <2>3
<1> QED BY <1>7, <1>8, <1>9, <1>10, <1>12, <1>13, <1>14

LEMMA RewriteInv ==
  ASSUME IndexInv, NEW rs, IsSeq(rs), \A i \in 1 .. Len(rs) : IsRow(rs[i]),
         "rows" \notin stale => Fitting(rs, fields),
         NEW cols, \A c \in DOMAIN index \ cols : "rows" \notin stale => SameColumn(c, rows, rs),
         Rewrite(rs, cols, Rebuild(index, fields, rs, cols))
  PROVE  IndexInv'
<1> DEFINE made == Rebuild(index, fields, rs, cols)
<1>1. /\ rows' = rs /\ fields' = fields /\ index' = made.index
      /\ doubts' = ((doubts \cup Misread) \ cols) \cup ((cols \cap DOMAIN made.index) \ made.fresh)
      /\ stale' = stale \ {"zones"}
  BY DEF Rewrite
<1>2. /\ IsSchema(fields) /\ DOMAIN index \subseteq Range(ColumnOrder)
      /\ \A c \in DOMAIN index : IsIndex(index[c])
  BY DEF IndexInv, Shape
<1>3. /\ made.fresh \subseteq cols /\ DOMAIN made.index \subseteq DOMAIN index
      /\ \A c \in made.fresh : Indexable(fields, index[c].kind, c, rs)
      /\ \A c \in DOMAIN made.index :
           made.index[c] = IF c \in made.fresh THEN IndexOf(index[c].kind, c, rs) ELSE index[c]
  BY <1>2, RebuildIs
<1> HIDE DEF made
<1>4. ASSUME NEW c \in DOMAIN made.index
      PROVE  /\ IsIndex(made.index[c])
             /\ c \notin doubts' => Answers(made.index[c], fields, c, rs)
  <2>1. CASE c \in made.fresh
    <3>1. index[c].kind \in {"Hash", "Sorted"}
      BY <1>2, <1>3 DEF IsIndex
    <3>2. Indexable(fields, index[c].kind, c, rs) /\ made.index[c] = IndexOf(index[c].kind, c, rs)
      BY <1>3, <2>1
    <3> QED BY <3>1, <3>2, MadeAnswers
  <2>2. CASE c \notin made.fresh
    <3>1. made.index[c] = index[c] /\ c \in DOMAIN index
      BY <1>3, <2>2
    <3>2. ASSUME c \notin doubts' PROVE Answers(index[c], fields, c, rs)
      <4>1. c \notin cols /\ c \notin doubts /\ c \notin Misread
        BY <1>1, <2>2, <3>2
      <4>2. SameColumn(c, rows, rs)
        BY <3>1, <4>1 DEF Misread
      <4>3. Answers(index[c], fields, c, rows)
        BY <3>1, <4>1 DEF IndexInv
      <4>4. c \in SetOfNames(fields)
        BY <4>3 DEF Answers, Indexable
      <4> QED BY <4>2, <4>3, <4>4, KeptAnswers
    <3> QED BY <1>2, <3>1, <3>2
  <2> QED BY <2>1, <2>2
<1>5. DOMAIN index' \subseteq Range(ColumnOrder)
  BY <1>1, <1>2, <1>3
<1>6. "rows" \notin stale' => "rows" \notin stale
  BY <1>1
<1>7. Shape'
  BY <1>1, <1>2, <1>4, <1>5 DEF Shape
<1>8. RowsFit'
  BY <1>1, <1>6 DEF RowsFit
<1> QED BY <1>1, <1>4, <1>7, <1>8 DEF IndexInv

(* UPDATE writes the columns it names, and no other.                        *)
LEMMA ChangedIs ==
  ASSUME IsSchema(fields), NEW row, IsRow(row),
         NEW targets, IsSeq(targets), Range(targets) \subseteq SetOfNames(fields),
         NEW values, NEW new, new = Changed(row, targets, values)
  PROVE  /\ IsRow(new) /\ new.names = row.names /\ Len(new.vals) = Len(row.vals)
         /\ \A p \in 1 .. Len(row.vals) :
              \/ new.vals[p] = row.vals[p]
              \/ \E k \in 1 .. Len(targets) :
                   /\ p = Position(Names(fields), targets[k]) /\ p \in 1 .. Len(fields)
                   /\ fields[p].name = targets[k] /\ new.vals[p] = values[k]
<1> DEFINE settings(i) == {k \in 1 .. Len(targets) : Position(Names(fields), targets[k]) = i}
           vals == [i \in 1 .. Len(row.vals) |->
                      IF i <= Len(fields) /\ settings(i) # {} THEN values[Max(settings(i))] ELSE row.vals[i]]
<1>1. new = [names |-> row.names, vals |-> vals]
  BY DEF Changed, IsRow
<1>2. Len(row.vals) \in Nat /\ Len(targets) \in Nat /\ Len(fields) \in Nat /\ IsSeq(fields)
  BY SeqParts DEF IsRow, IsSchema
<1>3. ASSUME NEW p \in 1 .. Len(row.vals), vals[p] # row.vals[p]
      PROVE  \E k \in 1 .. Len(targets) :
               /\ p = Position(Names(fields), targets[k]) /\ p \in 1 .. Len(fields)
               /\ fields[p].name = targets[k] /\ vals[p] = values[k]
  <2>1. p <= Len(fields) /\ settings(p) # {} /\ vals[p] = values[Max(settings(p))]
    BY <1>3
  <2>2. settings(p) \in SUBSET (1 .. Len(targets))
    OBVIOUS
  <2>3. PICK k : k = Max(settings(p))
    OBVIOUS
  <2>4. k \in settings(p)
    BY <1>2, <2>1, <2>2, <2>3, MaxOf
  <2>5. k \in 1 .. Len(targets) /\ Position(Names(fields), targets[k]) = p
    BY <2>4
  <2>6. targets[k] \in SetOfNames(fields)
    BY <2>5, SeqParts DEF Range
  <2>7. /\ Len(Names(fields)) = Len(fields) /\ \A i \in 1 .. Len(fields) : Names(fields)[i] = fields[i].name
    BY <1>2, NamesIs
  <2>8. \E i \in 1 .. Len(Names(fields)) : Names(fields)[i] = targets[k]
    BY <2>6, <2>7 DEF SetOfNames
  <2>9. p \in 1 .. Len(fields) /\ Names(fields)[p] = targets[k]
    BY <1>2, <2>5, <2>7, <2>8, PositionIs
  <2> HIDE DEF vals, settings
  <2> QED BY <2>1, <2>3, <2>5, <2>7, <2>9
<1>4. vals = [i \in 1 .. Len(row.vals) |-> vals[i]]
  OBVIOUS
<1> HIDE DEF vals
<1>5. IsSeq(vals) /\ Len(vals) = Len(row.vals)
  BY <1>2, <1>4, SeqMade
<1>6. IsRow(new) /\ new.names = row.names /\ new.vals = vals
  BY <1>1, <1>5 DEF IsRow
<1> QED BY <1>3, <1>5, <1>6

(* What an UPDATE that changes something makes of each row.                 *)
Written(old, field, v) ==
  \E assignments \in Assignments : \E k \in 1 .. Len(assignments) :
    v = Coerce(field, ValueOf(assignments[k][2], old))

Updated(old, new, cols) ==
  /\ IsRow(new) /\ new.names = old.names /\ Len(new.vals) = Len(old.vals)
  /\ \A p \in 1 .. Len(old.vals) :
       \/ new.vals[p] = old.vals[p]
       \/ /\ p \in 1 .. Len(fields) /\ fields[p].name \in cols
          /\ Compatible(fields[p], new.vals[p]) /\ Written(old, fields[p], new.vals[p])

LEMMA UpdateIs ==
  ASSUME Shape, Update
  PROVE  \/ Fail \/ Nothing
         \/ \E rs, cols : /\ IsSeq(rs) /\ Len(rs) = Len(rows)
                          /\ Rewrite(rs, cols, Rebuild(index, fields, rs, cols))
                          /\ \A i \in 1 .. Len(rows) : Updated(rows[i], rs[i], cols)
<1>1. PICK p \in Predicates, assignments \in Assignments :
        LET targets == [k \in 1 .. Len(assignments) |-> assignments[k][1]]
            chosen == {i \in 1 .. Len(rows) : Chosen(p, rows[i])}
        IN IF ~ (Range(targets) \subseteq SetOfNames(fields)) THEN Fail
           ELSE /\ \A i \in chosen : Len(rows[i].vals) >= Len(fields)
                /\ ChangeRows(targets, [i \in chosen |-> Assigned(assignments, rows[i])])
  BY DEF Update
<1> DEFINE targets == [k \in 1 .. Len(assignments) |-> assignments[k][1]]
           chosen == {i \in 1 .. Len(rows) : Chosen(p, rows[i])}
           new == [i \in chosen |-> Assigned(assignments, rows[i])]
           fits(i) == \A k \in 1 .. Len(targets) : Compatible(FieldOf(fields, targets[k]), new[i][k])
           changed == [i \in 1 .. Len(rows) |->
                         IF i \in DOMAIN new THEN Changed(rows[i], targets, new[i]) ELSE rows[i]]
           cols == Range(targets)
<1>2. Fail \/ Nothing \/ /\ Range(targets) \subseteq SetOfNames(fields) /\ \A i \in DOMAIN new : fits(i)
                         /\ Rewrite(changed, cols, Rebuild(index, fields, changed, cols))
  BY <1>1 DEF ChangeRows
<1>3. CASE Fail \/ Nothing
  BY <1>3
<1>4. CASE /\ Range(targets) \subseteq SetOfNames(fields) /\ \A i \in DOMAIN new : fits(i)
           /\ Rewrite(changed, cols, Rebuild(index, fields, changed, cols))
  <2>1. IsSeq(assignments) /\ Len(assignments) \in Nat
    BY AssignmentsAssumption, SeqParts
  <2>2. IsSeq(targets)
    <3>1. targets = [k \in 1 .. Len(assignments) |-> targets[k]]
      OBVIOUS
    <3> HIDE DEF targets
    <3> QED BY <2>1, <3>1, SeqMade
  <2>3. IsSchema(fields) /\ IsSeq(rows) /\ Len(rows) \in Nat /\ \A i \in 1 .. Len(rows) : IsRow(rows[i])
    BY SeqParts DEF Shape
  <2>8. Len(targets) = Len(assignments)
    <3>1. targets = [k \in 1 .. Len(assignments) |-> targets[k]]
      OBVIOUS
    <3> HIDE DEF targets
    <3> QED BY <2>1, <3>1, SeqMade
  <2>9. ASSUME NEW i \in DOMAIN new, NEW k \in 1 .. Len(targets)
        PROVE  Written(rows[i], FieldOf(fields, targets[k]), new[i][k])
    <3>1. k \in 1 .. Len(assignments)
      BY <2>8
    <3>2. new[i][k] = Coerce(FieldOf(fields, targets[k]), ValueOf(assignments[k][2], rows[i]))
      BY <3>1 DEF Assigned
    <3> HIDE DEF targets, new
    <3> QED BY <3>1, <3>2 DEF Written
  <2> HIDE DEF targets, new
  <2>4. \A i \in 1 .. Len(rows) :
          changed[i] = IF i \in DOMAIN new THEN Changed(rows[i], targets, new[i]) ELSE rows[i]
    OBVIOUS
  <2>5. changed = [i \in 1 .. Len(rows) |-> changed[i]]
    OBVIOUS
  <2> HIDE DEF changed
  <2>6. ASSUME NEW i \in 1 .. Len(rows)
        PROVE  Updated(rows[i], changed[i], cols)
    <3>1. CASE i \in DOMAIN new
      <4> DEFINE row == changed[i]
      <4>1. changed[i] = Changed(rows[i], targets, new[i]) /\ IsRow(rows[i])
        BY <2>3, <2>4, <3>1
      <4>5. IsSchema(fields) /\ IsSeq(targets) /\ Range(targets) \subseteq SetOfNames(fields)
        BY <1>4, <2>2, <2>3
      <4> HIDE DEF row
      <4>6. IsRow(rows[i]) /\ row = Changed(rows[i], targets, new[i])
        BY <4>1 DEF row
      <4>2. /\ IsRow(row) /\ row.names = rows[i].names /\ Len(row.vals) = Len(rows[i].vals)
            /\ \A q \in 1 .. Len(rows[i].vals) :
                 \/ row.vals[q] = rows[i].vals[q]
                 \/ \E k \in 1 .. Len(targets) :
                      /\ q = Position(Names(fields), targets[k]) /\ q \in 1 .. Len(fields)
                      /\ fields[q].name = targets[k] /\ row.vals[q] = new[i][k]
        BY ONLY <4>5, <4>6, ChangedIs
      <4>3. ASSUME NEW q \in 1 .. Len(rows[i].vals), NEW k \in 1 .. Len(targets),
                   q = Position(Names(fields), targets[k]), q \in 1 .. Len(fields),
                   fields[q].name = targets[k], row.vals[q] = new[i][k]
            PROVE  /\ fields[q].name \in cols /\ Compatible(fields[q], row.vals[q])
                   /\ Written(rows[i], fields[q], row.vals[q])
        <5>1. targets[k] \in Range(targets)
          BY <2>2, SeqParts DEF Range
        <5>2. Compatible(FieldOf(fields, targets[k]), new[i][k])
          BY <1>4, <3>1
        <5>3. FieldOf(fields, targets[k]) = fields[q]
          BY <4>3 DEF FieldOf
        <5>4. Written(rows[i], FieldOf(fields, targets[k]), new[i][k])
          BY <2>9, <3>1
        <5> QED BY <4>3, <5>1, <5>2, <5>3, <5>4
      <4> HIDE DEF cols
      <4> QED BY <4>2, <4>3 DEF Updated, row
    <3>2. CASE i \notin DOMAIN new
      BY <2>3, <2>4, <3>2 DEF Updated
    <3> QED BY <3>1, <3>2
  <2>7. IsSeq(changed) /\ Len(changed) = Len(rows)
    BY <2>3, <2>5, SeqMade
  <2> HIDE DEF cols
  <2> QED BY <1>4, <2>6, <2>7
<1> QED BY <1>2, <1>3, <1>4

LEMMA UpdateInv ==
  ASSUME IndexInv, Update
  PROVE  IndexInv'
<1>1. CASE Fail \/ Nothing
  BY <1>1, SameInv DEF Fail, Nothing
<1>2. CASE ~ (Fail \/ Nothing)
  <2>1. PICK changed, cols : /\ IsSeq(changed) /\ Len(changed) = Len(rows)
                             /\ Rewrite(changed, cols, Rebuild(index, fields, changed, cols))
                             /\ \A i \in 1 .. Len(rows) : Updated(rows[i], changed[i], cols)
    BY <1>2, UpdateIs DEF IndexInv
  <2>2. IsSchema(fields) /\ Len(fields) \in Nat
    BY SeqParts DEF IndexInv, Shape, IsSchema
  <2>3. \A i \in 1 .. Len(rows) : /\ IsRow(changed[i]) /\ changed[i].names = rows[i].names
                                  /\ Len(changed[i].vals) = Len(rows[i].vals)
    BY <2>1 DEF Updated
  <2>4. "rows" \notin stale => Fitting(changed, fields)
    BY <2>1, <2>3 DEF IndexInv, RowsFit, Fitting
  <2>5. ASSUME NEW c \in DOMAIN index \ cols, "rows" \notin stale PROVE SameColumn(c, rows, changed)
    <3>1. Fitting(rows, fields)
      BY <2>5 DEF IndexInv, RowsFit
    <3>2. ASSUME NEW i \in 1 .. Len(rows), HasColumn(rows[i], c)
          PROVE  Get(rows[i], c) = Get(changed[i], c)
      <4> DEFINE q == Position(rows[i].names, c)
      <4>1. rows[i].names = Names(fields) /\ Len(rows[i].vals) = Len(fields)
        BY <3>1 DEF Fitting
      <4>2. Len(Names(fields)) = Len(fields) /\ \A k \in 1 .. Len(fields) : Names(fields)[k] = fields[k].name
        BY <2>2, NamesIs DEF IsSchema
      <4>3. q \in 1 .. Len(fields) /\ fields[q].name = c
        BY <2>2, <3>2, <4>1, <4>2, PositionIs DEF HasColumn
      <4>4. changed[i].vals[q] = rows[i].vals[q]
        BY <2>1, <2>5, <4>1, <4>3 DEF Updated
      <4> QED BY <2>3, <4>4 DEF Get
    <3>3. \A i \in 1 .. Len(rows) : HasColumn(rows[i], c) <=> HasColumn(changed[i], c)
      BY <2>3 DEF HasColumn
    <3> QED BY <2>1, <3>2, <3>3 DEF SameColumn
  <2>6. IsSeq(changed) /\ \A i \in 1 .. Len(changed) : IsRow(changed[i])
    BY <2>1, <2>3
  <2> QED BY <2>1, <2>4, <2>5, <2>6, RewriteInv
<1> QED BY <1>1, <1>2

(* What DELETE has decided to keep after each row.                          *)
Sparing(p, m, f) ==
  [k \in 0 .. m |->
     IF k = 0 THEN << >> ELSE IF Chosen(p, rows[k]) THEN f[k - 1] ELSE Append(f[k - 1], rows[k])]

LEMMA SparingExists ==
  ASSUME NEW p, NEW m \in Nat
  PROVE  \E f : f = Sparing(p, m, f)
<1> DEFINE G == {n \in 0 .. m : \E f : f = Sparing(p, n, f)}
<1>1. 0 \in G
  <2> DEFINE f == [n \in 0 .. 0 |-> << >>]
  <2>1. f = Sparing(p, 0, f)
    BY DEF Sparing
  <2> QED BY <2>1
<1>2. ASSUME NEW n \in 1 .. m, n - 1 \in G PROVE n \in G
  <2>1. PICK f : f = Sparing(p, n - 1, f)
    BY <1>2
  <2> DEFINE Step(k, prior) ==
               IF k = 0 THEN << >> ELSE IF Chosen(p, rows[k]) THEN prior ELSE Append(prior, rows[k])
             last == Step(n, f[n - 1])
             g == [k \in 0 .. n |-> IF k = n THEN last ELSE f[k]]
  <2>2. n \in Nat /\ n > 0
    OBVIOUS
  <2>3. \A k \in 0 .. n - 1 : f[k] = Step(k, f[k - 1])
    BY <2>1 DEF Sparing
  <2>4. ASSUME NEW h PROVE Sparing(p, n, h) = [k \in 0 .. n |-> Step(k, h[k - 1])]
    BY DEF Sparing
  <2>5. Step(0, f[0 - 1]) = Step(0, g[0 - 1])
    OBVIOUS
  <2> HIDE DEF Step
  <2>6. ASSUME NEW k \in 0 .. n PROVE g[k] = Step(k, g[k - 1])
    <3>1. CASE k = n
      <4>1. g[k] = last /\ g[k - 1] = f[n - 1]
        BY <2>2, <3>1
      <4> QED BY <4>1, <3>1
    <3>2. CASE k = 0
      BY <2>2, <2>3, <2>5, <3>2
    <3>3. CASE k # n /\ k # 0
      <4>1. k \in 0 .. n - 1 /\ k - 1 \in 0 .. n /\ k - 1 # n
        BY <2>2, <3>3
      <4>2. g[k] = f[k] /\ g[k - 1] = f[k - 1]
        BY <3>3, <4>1
      <4> QED BY <2>3, <4>1, <4>2
    <3> QED BY <3>1, <3>2, <3>3
  <2>7. g = [k \in 0 .. n |-> g[k]]
    OBVIOUS
  <2> HIDE DEF g
  <2>8. g = [k \in 0 .. n |-> Step(k, g[k - 1])]
    BY <2>6, <2>7
  <2>9. g = Sparing(p, n, g)
    BY <2>4, <2>8
  <2> QED BY <2>9
<1>3. m \in G
  <2> HIDE DEF G
  <2>1. \A n \in 1 .. m : n - 1 \in G => n \in G
    BY <1>2
  <2> QED BY <1>1, <2>1, Climb
<1> QED BY <1>3

(* DELETE keeps rows that were there.                                       *)
LEMMA SparedIs ==
  ASSUME NEW p, IsSeq(rows), NEW kept, kept = Spared(p)
  PROVE  IsSeq(kept) /\ \A i \in 1 .. Len(kept) : \E j \in 1 .. Len(rows) : kept[i] = rows[j]
<1> DEFINE m == Len(rows)
           f == CHOOSE f : f = Sparing(p, m, f)
<1>1. m \in Nat
  BY SeqParts
<1>2. f = Sparing(p, m, f)
  BY <1>1, SparingExists
<1>3. kept = f[m]
  BY DEF Spared, Sparing
<1> HIDE DEF f
<1> DEFINE Some(t) == IsSeq(t) /\ \A i \in 1 .. Len(t) : \E j \in 1 .. m : t[i] = rows[j]
           G == {n \in 0 .. m : Some(f[n])}
<1>4. 0 \in G
  <2>1. f[0] = << >>
    BY <1>1, <1>2 DEF Sparing
  <2>2. IsSeq(f[0]) /\ Len(f[0]) = 0
    BY <2>1, NoSeq
  <2> QED BY <1>1, <2>2
<1>5. ASSUME NEW n \in 1 .. m, n - 1 \in G PROVE n \in G
  <2>1. n \in 0 .. m /\ n # 0
    OBVIOUS
  <2>2. f[n] = f[n - 1] \/ f[n] = Append(f[n - 1], rows[n])
    BY <1>2, <2>1 DEF Sparing
  <2>3. Some(f[n - 1])
    BY <1>5
  <2>4. CASE f[n] = Append(f[n - 1], rows[n])
    <3> DEFINE t == f[n - 1]
               u == f[n]
    <3>1. /\ IsSeq(u) /\ Len(t) \in Nat /\ Len(u) = Len(t) + 1
          /\ u[Len(t) + 1] = rows[n] /\ \A i \in 1 .. Len(t) : u[i] = t[i]
      BY <2>3, <2>4, SeqAppend, SeqParts
    <3> HIDE DEF t, u
    <3>2. ASSUME NEW i \in 1 .. Len(u) PROVE \E j \in 1 .. m : u[i] = rows[j]
      <4>1. CASE i = Len(t) + 1
        BY <3>1, <4>1
      <4>2. CASE i # Len(t) + 1
        <5>1. i \in 1 .. Len(t)
          BY <3>1, <4>2
        <5> QED BY <2>3, <3>1, <5>1 DEF t
      <4> QED BY <4>1, <4>2
    <3> QED BY <2>1, <3>1, <3>2 DEF u
  <2>5. CASE f[n] = f[n - 1]
    BY <2>1, <2>3, <2>5
  <2> QED BY <2>2, <2>4, <2>5
<1>6. m \in G
  <2> HIDE DEF G
  <2>1. \A n \in 1 .. m : n - 1 \in G => n \in G
    BY <1>5
  <2> QED BY <1>1, <1>4, <2>1, Climb
<1> QED BY <1>3, <1>6

LEMMA DeleteInv ==
  ASSUME IndexInv, Delete
  PROVE  IndexInv'
<1>1. PICK p \in Predicates : KeepRows(Spared(p))
  BY DEF Delete
<1> DEFINE kept == Spared(p)
<1>2. IsSeq(rows) /\ \A i \in 1 .. Len(rows) : IsRow(rows[i])
  BY DEF IndexInv, Shape
<1>3. IsSeq(kept) /\ \A i \in 1 .. Len(kept) : \E j \in 1 .. Len(rows) : kept[i] = rows[j]
  BY <1>2, SparedIs
<1>4. Nothing \/ Rewrite(kept, DOMAIN index, Rebuild(index, fields, kept, DOMAIN index))
  BY <1>1 DEF KeepRows
<1> HIDE DEF kept
<1>5. \A i \in 1 .. Len(kept) : IsRow(kept[i])
  BY <1>2, <1>3
<1>6. "rows" \notin stale => Fitting(kept, fields)
  BY <1>3 DEF IndexInv, RowsFit, Fitting
<1>7. CASE Nothing
  BY <1>7, SameInv DEF Nothing
<1>8. CASE Rewrite(kept, DOMAIN index, Rebuild(index, fields, kept, DOMAIN index))
  BY <1>3, <1>5, <1>6, <1>8, RewriteInv
<1> QED BY <1>4, <1>7, <1>8

LEMMA CreateIndexInv ==
  ASSUME IndexInv, CreateIndex
  PROVE  IndexInv'
<1>1. PICK kind \in {"Hash", "Sorted"}, col \in Range(ColumnOrder) :
        IF ~ Indexable(fields, kind, col, rows)
        THEN Fail
        ELSE /\ ok' = TRUE
             /\ index' = With(index, col, IndexOf(kind, col, rows))
             /\ doubts' = doubts \ {col}
             /\ UNCHANGED << exists, fields, rows, stats, partitions, lazyExpr, stale >>
  BY DEF CreateIndex
<1>2. CASE Fail
  BY <1>2, SameInv DEF Fail
<1>3. CASE ~ Fail
  <2> DEFINE new == IndexOf(kind, col, rows)
  <2>1. /\ Indexable(fields, kind, col, rows)
        /\ index' = With(index, col, new) /\ doubts' = doubts \ {col}
        /\ UNCHANGED << fields, rows, stale >>
    BY <1>1, <1>3
  <2>2. IsSeq(rows) /\ DOMAIN index \subseteq Range(ColumnOrder) /\ \A c \in DOMAIN index : IsIndex(index[c])
    BY DEF IndexInv, Shape
  <2>3. IsIndex(new) /\ Answers(new, fields, col, rows)
    BY <2>1, <2>2, MadeAnswers
  <2> HIDE DEF new
  <2>4. /\ DOMAIN index' = DOMAIN index \cup {col} /\ index'[col] = new
        /\ \A c \in DOMAIN index : c # col => index'[c] = index[c]
    BY <2>1 DEF With
  <2>5. \A c \in DOMAIN index' : IsIndex(index'[c])
    BY <2>2, <2>3, <2>4
  <2>6. Shape' /\ RowsFit'
    BY <2>1, <2>2, <2>4, <2>5 DEF IndexInv, Shape, RowsFit
  <2>7. ASSUME NEW c \in DOMAIN index', c \notin doubts' PROVE Answers(index'[c], fields, c, rows)
    <3>1. CASE c = col
      BY <2>3, <2>4, <3>1
    <3>2. CASE c # col
      BY <2>1, <2>4, <2>7, <3>2 DEF IndexInv
    <3> QED BY <3>1, <3>2
  <2> QED BY <2>1, <2>6, <2>7 DEF IndexInv
<1> QED BY <1>2, <1>3

-----------------------------------------------------------------------------
(* Statements about columns.                                                *)

Retupled(fs, valsOf) == [i \in 1 .. Len(rows) |-> Tuple(fs, valsOf[i])]

(* What is to be shown of the columns when every row becomes a new tuple.   *)
LEMMA RetupleInv ==
  ASSUME IndexInv, NEW fs, IsSchema(fs), SetOfNames(fields) \subseteq SetOfNames(fs),
         NEW valsOf, \A i \in 1 .. Len(rows) : IsSeq(valsOf[i]) /\ Len(valsOf[i]) = Len(fs),
         NEW left, NEW unread \in BOOLEAN, Retuple(fs, valsOf, left, unread),
         "rows" \notin stale =>
           \A c \in SetOfNames(fields) :
             c \in DOMAIN index /\ c \notin left => SameColumn(c, rows, Retupled(fs, valsOf))
  PROVE  IndexInv'
<1> DEFINE rs == [i \in 1 .. Len(rows) |-> Tuple(fs, valsOf[i])]
<1>1. /\ fields' = fs /\ rows' = rs /\ index' = index
      /\ doubts' = doubts \cup Misread \cup left
      /\ "rows" \notin stale' => "rows" \notin stale
  BY DEF Retuple
<1>2. /\ Len(rows) \in Nat /\ DOMAIN index \subseteq Range(ColumnOrder)
      /\ \A c \in DOMAIN index : IsIndex(index[c])
  BY SeqParts DEF IndexInv, Shape
<1>3. rs = [i \in 1 .. Len(rows) |-> rs[i]] /\ \A i \in 1 .. Len(rows) : rs[i] = Tuple(fs, valsOf[i])
  OBVIOUS
<1> HIDE DEF rs
<1>4. IsSeq(rs) /\ Len(rs) = Len(rows)
  BY <1>2, <1>3, SeqMade
<1>5. IsSeq(fs)
  BY DEF IsSchema
<1>6. \A i \in 1 .. Len(rs) : IsRow(rs[i]) /\ rs[i].names = Names(fs) /\ Len(rs[i].vals) = Len(fs)
  BY <1>3, <1>4, <1>5, TupleIs
<1>7. Shape' /\ RowsFit'
  BY <1>1, <1>2, <1>4, <1>6 DEF Shape, RowsFit, Fitting
<1>8. ASSUME NEW c \in DOMAIN index, c \notin doubts' PROVE Answers(index[c], fs, c, rs)
  <2>1. c \notin doubts /\ c \notin left /\ "rows" \notin stale
    BY <1>1, <1>8 DEF Misread
  <2>2. Answers(index[c], fields, c, rows)
    BY <2>1 DEF IndexInv
  <2>3. c \in SetOfNames(fields)
    BY <2>2 DEF Answers, Indexable
  <2>4. SameColumn(c, rows, rs)
    BY <2>1, <2>3 DEF rs, Retupled
  <2> QED BY <2>2, <2>3, <2>4, KeptAnswers
<1> QED BY <1>1, <1>7, <1>8 DEF IndexInv

(* ADD COLUMN, with a value for each row.                                   *)
LEMMA WideInv ==
  ASSUME IndexInv, NEW f, IsField(f), f.name \notin SetOfNames(fields),
         NEW w, NEW fs, fs = Append(fields, f),
         NEW wide, wide = [i \in 1 .. Len(rows) |-> Append(rows[i].vals, w[i])],
         AllValid(fs, wide), NEW unread \in BOOLEAN, Retuple(fs, wide, {}, unread)
  PROVE  IndexInv'
<1>1. IsSchema(fields) /\ IsSeq(fields) /\ \A i \in 1 .. Len(rows) : IsRow(rows[i])
  BY DEF IndexInv, Shape, IsSchema
<1>2. IsSchema(fs) /\ IsSeq(fs)
  BY <1>1, WideSchema DEF IsSchema
<1>3. SetOfNames(fields) \subseteq SetOfNames(fs)
  BY <1>1, WideNames
<1>4. \A i \in 1 .. Len(rows) : wide[i] = Append(rows[i].vals, w[i]) /\ IsSeq(rows[i].vals)
  BY <1>1 DEF IsRow
<1>5. \A i \in 1 .. Len(rows) : IsSeq(wide[i]) /\ Len(wide[i]) = Len(fs)
  BY <1>4, SeqAppend DEF AllValid, Valid
<1> DEFINE rs == [i \in 1 .. Len(rows) |-> Tuple(fs, wide[i])]
<1>6. ASSUME NEW c \in SetOfNames(fields), "rows" \notin stale PROVE SameColumn(c, rows, rs)
  <2> DEFINE q == Position(Names(fields), c)
  <2>1. /\ Position(Names(fs), c) = q /\ q \in 1 .. Len(fields) /\ c \in SetOfNames(fs)
    BY <1>1, WideNames
  <2> HIDE DEF q
  <2>2. Fitting(rows, fields)
    BY <1>6 DEF IndexInv, RowsFit
  <2>3. \A i \in 1 .. Len(rows) : rs[i] = Tuple(fs, wide[i])
    OBVIOUS
  <2>4. Len(rs) = Len(rows)
    <3>1. Len(rows) \in Nat
      BY SeqParts DEF IndexInv, Shape
    <3>2. rs = [i \in 1 .. Len(rows) |-> rs[i]]
      OBVIOUS
    <3> HIDE DEF rs
    <3> QED BY <3>1, <3>2, SeqMade
  <2> HIDE DEF rs
  <2>5. ASSUME NEW i \in 1 .. Len(rows)
        PROVE  HasColumn(rows[i], c) /\ HasColumn(rs[i], c) /\ Get(rows[i], c) = Get(rs[i], c)
    <3>1. rows[i].names = Names(fields) /\ Len(rows[i].vals) = Len(fields)
      BY <2>2 DEF Fitting
    <3>2. HasColumn(rows[i], c)
      BY <1>1, <3>1, NamesIs DEF HasColumn, SetOfNames
    <3>3. rs[i].names = Names(fs) /\ rs[i].vals = wide[i] /\ HasColumn(rs[i], c)
      <4>1. rs[i] = Tuple(fs, wide[i]) /\ IsSeq(wide[i])
        BY <1>5, <2>3
      <4>2. /\ Tuple(fs, wide[i]).names = Names(fs) /\ Tuple(fs, wide[i]).vals = wide[i]
            /\ HasColumn(Tuple(fs, wide[i]), c)
        BY <1>2, <2>1, <4>1, TupleIs
      <4> QED BY <4>1, <4>2
    <3>4. wide[i][q] = rows[i].vals[q]
      BY <1>4, <2>1, <3>1, SeqAppend
    <3> QED BY <2>1, <3>1, <3>2, <3>3, <3>4 DEF Get, q
  <2> QED BY <2>4, <2>5 DEF SameColumn
<1>7. "rows" \notin stale =>
        \A c \in SetOfNames(fields) : c \in DOMAIN index /\ c \notin {} => SameColumn(c, rows, Retupled(fs, wide))
  BY <1>6 DEF Retupled
<1> QED BY <1>2, <1>3, <1>5, <1>7, RetupleInv

LEMMA AddColumnInv ==
  ASSUME IndexInv, AddColumn
  PROVE  IndexInv'
<1>1. PICK field \in NewFields, default \in Literals :
        LET value == InsertValue(field, default)
            fs == Append(fields, field)
            wide == [i \in 1 .. Len(rows) |-> Append(rows[i].vals, value)]
        IN IF field.name \in SetOfNames(fields) \/ ~ MatchesType(value, field.type) \/ ~ AllValid(fs, wide)
           THEN Fail
           ELSE Retuple(fs, wide, {}, FALSE) /\ UNCHANGED lazyExpr
  BY DEF AddColumn
<1> DEFINE value == InsertValue(field, default)
           fs == Append(fields, field)
           wide == [i \in 1 .. Len(rows) |-> Append(rows[i].vals, value)]
           w == [i \in 1 .. Len(rows) |-> value]
<1>2. CASE Fail
  BY <1>2, SameInv DEF Fail
<1>3. CASE ~ Fail
  <2>1. field.name \notin SetOfNames(fields) /\ AllValid(fs, wide) /\ Retuple(fs, wide, {}, FALSE)
    BY <1>1, <1>3
  <2>2. wide = [i \in 1 .. Len(rows) |-> Append(rows[i].vals, w[i])]
    OBVIOUS
  <2>3. IsField(field)
    BY SchemasAssumption
  <2> HIDE DEF wide, w, fs
  <2> QED BY <2>1, <2>2, <2>3, WideInv DEF fs
<1> QED BY <1>2, <1>3

LEMMA AddComputedColumnInv ==
  ASSUME IndexInv, AddComputedColumn
  PROVE  IndexInv'
<1>1. PICK name \in {f.name : f \in NewFields}, e \in ColumnExpressions, lazy \in BOOLEAN :
        LET computed == [i \in 1 .. Len(rows) |-> ComputedOf(e, AsRead(rows[i]))]
            type == IF lazy /\ IsNull(computed[1]) THEN << "Float" >> ELSE TypeOf(computed[1])
            fs == Append(fields, [name |-> name, type |-> type, nullable |-> lazy, lazy |-> lazy])
            wide == [i \in 1 .. Len(rows) |-> Append(rows[i].vals, IF lazy THEN Null ELSE computed[i])]
        IN IF name \in SetOfNames(fields) \/ rows = << >> THEN Fail
           ELSE IF ~ AllValid(fs, wide) THEN Fail
           ELSE IF lazy
           THEN /\ Retuple(fs, wide, {}, IsNull(computed[1]))
                /\ lazyExpr' = With(lazyExpr, name, e)
           ELSE Retuple(fs, wide, {}, FALSE) /\ UNCHANGED lazyExpr
  BY DEF AddComputedColumn
<1> DEFINE computed == [i \in 1 .. Len(rows) |-> ComputedOf(e, AsRead(rows[i]))]
           type == IF lazy /\ IsNull(computed[1]) THEN << "Float" >> ELSE TypeOf(computed[1])
           f == [name |-> name, type |-> type, nullable |-> lazy, lazy |-> lazy]
           fs == Append(fields, f)
           w == [i \in 1 .. Len(rows) |-> IF lazy THEN Null ELSE computed[i]]
           wide == [i \in 1 .. Len(rows) |-> Append(rows[i].vals, IF lazy THEN Null ELSE computed[i])]
<1>2. CASE Fail
  BY <1>2, SameInv DEF Fail
<1>3. CASE ~ Fail
  <2>1. name \notin SetOfNames(fields) /\ AllValid(fs, wide)
    BY <1>1, <1>3
  <2>2. \E unread \in BOOLEAN : Retuple(fs, wide, {}, unread)
    <3>1. Retuple(fs, wide, {}, IsNull(computed[1])) \/ Retuple(fs, wide, {}, FALSE)
      BY <1>1, <1>3
    <3>2. IsNull(computed[1]) \in BOOLEAN
      BY DEF IsNull
    <3> QED BY <3>1, <3>2
  <2>3. wide = [i \in 1 .. Len(rows) |-> Append(rows[i].vals, w[i])]
    OBVIOUS
  <2> HIDE DEF computed, type, wide, w
  <2>4. f.name = name /\ IsField(f)
    BY DEF IsField
  <2> HIDE DEF f, fs
  <2> QED BY <2>1, <2>2, <2>3, <2>4, WideInv DEF fs
<1> QED BY <1>2, <1>3

(* MATERIALIZE changes the values of lazy columns only.                     *)
LEMMA MaterializeInv ==
  ASSUME IndexInv, Materialize
  PROVE  IndexInv'
<1> DEFINE lazies == {fields[i].name : i \in {j \in 1 .. Len(fields) : fields[j].lazy}}
           valsOf == [i \in 1 .. Len(rows) |-> Evaluated(rows[i])]
           fs == [i \in 1 .. Len(fields) |-> [fields[i] EXCEPT !.lazy = FALSE]]
           left == lazies \cap DOMAIN index
<1>1. Fail \/ Nothing \/ (AllValid(fields, valsOf) /\ Retuple(fs, valsOf, left, FALSE))
  BY DEF Materialize
<1>2. CASE Fail \/ Nothing
  BY <1>2, SameInv DEF Fail, Nothing
<1>3. CASE AllValid(fields, valsOf) /\ Retuple(fs, valsOf, left, FALSE)
  <2>1. /\ IsSeq(fields) /\ Len(fields) \in Nat /\ \A i \in 1 .. Len(fields) : IsField(fields[i])
        /\ Len(rows) \in Nat /\ \A i \in 1 .. Len(rows) : IsRow(rows[i])
    BY SeqParts DEF IndexInv, Shape, IsSchema
  <2>2. fs = [i \in 1 .. Len(fields) |-> fs[i]] /\ \A i \in 1 .. Len(fields) : fs[i] = [fields[i] EXCEPT !.lazy = FALSE]
    OBVIOUS
  <2>3. valsOf = [i \in 1 .. Len(rows) |-> valsOf[i]] /\ \A i \in 1 .. Len(rows) : valsOf[i] = Evaluated(rows[i])
    OBVIOUS
  <2>4. \A i \in 1 .. Len(fields) : fields[i].lazy => fields[i].name \in lazies
    OBVIOUS
  <2> HIDE DEF fs, valsOf, lazies
  <2>5. IsSeq(fs) /\ Len(fs) = Len(fields)
    BY <2>1, <2>2, SeqMade
  <2>6. \A i \in 1 .. Len(fields) : IsField(fs[i]) /\ fs[i].name = fields[i].name
    BY <2>1, <2>2 DEF IsField
  <2>7. IsSchema(fs) /\ SetOfNames(fs) = SetOfNames(fields) /\ Names(fs) = Names(fields)
    BY <2>5, <2>6 DEF IsSchema, SetOfNames, Names
  <2>8. ASSUME NEW i \in 1 .. Len(rows)
        PROVE  IsSeq(valsOf[i]) /\ Len(valsOf[i]) = Len(fs) /\ Len(rows[i].vals) = Len(fs)
    <3> DEFINE v == Evaluated(rows[i])
    <3>1. v = [k \in 1 .. Len(rows[i].vals) |-> v[k]] /\ Len(rows[i].vals) \in Nat
      BY <2>1, SeqParts DEF Evaluated, IsRow
    <3> HIDE DEF v
    <3>2. IsSeq(v) /\ Len(v) = Len(rows[i].vals)
      BY <3>1, SeqMade
    <3>3. Len(valsOf[i]) = Len(fields)
      BY <1>3 DEF AllValid, Valid
    <3> QED BY <2>3, <2>5, <3>2, <3>3 DEF v
  <2>9. ASSUME "rows" \notin stale, NEW c \in SetOfNames(fields), c \in DOMAIN index, c \notin left
        PROVE  SameColumn(c, rows, Retupled(fs, valsOf))
    <3> DEFINE rs == Retupled(fs, valsOf)
               q == Position(Names(fields), c)
    <3>1. rs = [i \in 1 .. Len(rows) |-> rs[i]] /\ \A i \in 1 .. Len(rows) : rs[i] = Tuple(fs, valsOf[i])
      BY DEF Retupled
    <3> HIDE DEF rs
    <3>2. Len(rs) = Len(rows)
      BY <2>1, <3>1, SeqMade
    <3>3. q \in 1 .. Len(fields) /\ fields[q].name = c
      <4>1. /\ Len(Names(fields)) = Len(fields) /\ \A i \in 1 .. Len(fields) : Names(fields)[i] = fields[i].name
            /\ \E i \in 1 .. Len(fields) : fields[i].name = c
        BY <2>1, NamesIs DEF SetOfNames
      <4> QED BY <2>1, <4>1, PositionIs
    <3>4. ~ fields[q].lazy
      BY <2>4, <2>9, <3>3
    <3> HIDE DEF q
    <3>5. ASSUME NEW i \in 1 .. Len(rows)
          PROVE  /\ HasColumn(rows[i], c) <=> HasColumn(rs[i], c)
                 /\ Get(rows[i], c) = Get(rs[i], c)
      <4>1. rows[i].names = Names(fields) /\ Len(rows[i].vals) = Len(fields)
        BY <2>9 DEF IndexInv, RowsFit, Fitting
      <4>2. Tuple(fs, valsOf[i]).names = Names(fs) /\ Tuple(fs, valsOf[i]).vals = valsOf[i]
        BY <2>5, <2>8, TupleIs
      <4>3. rs[i].names = rows[i].names /\ rs[i].vals = valsOf[i]
        BY <2>7, <3>1, <4>1, <4>2
      <4>4. valsOf[i][q] = rows[i].vals[q]
        BY <2>3, <3>3, <3>4, <4>1 DEF Evaluated
      <4> QED BY <4>1, <4>3, <4>4 DEF HasColumn, Get, q
    <3> QED BY <3>2, <3>5 DEF SameColumn, rs
  <2> HIDE DEF left
  <2>10. SetOfNames(fields) \subseteq SetOfNames(fs) /\ FALSE \in BOOLEAN
    BY <2>7
  <2> QED BY <1>3, <2>7, <2>8, <2>9, <2>10, RetupleInv
<1> QED BY <1>1, <1>2, <1>3

(* A query's result replaces the rows: no index is trusted any more.        *)
LEMMA ReplaceInv ==
  ASSUME IndexInv, NEW fs, IsSchema(fs), NEW result \in Results, Replace(fs, result)
  PROVE  IndexInv'
<1> DEFINE rs == [i \in 1 .. Len(result.rows) |-> Tuple(result.fields, result.rows[i])]
<1>1. fields' = fs /\ rows' = rs /\ index' = index /\ doubts' = DOMAIN index
  BY DEF Replace
<1>2. "rows" \notin stale' =>
        Names(fs) = Names(result.fields) /\ \A i \in 1 .. Len(result.rows) : Valid(fs, result.rows[i])
  BY DEF Replace
<1>3. /\ IsSeq(result.fields) /\ IsSeq(result.rows) /\ Len(result.rows) \in Nat
      /\ \A i \in 1 .. Len(result.rows) : IsSeq(result.rows[i])
  BY ResultsAssumption, SeqParts DEF IsSchema
<1>4. /\ rs = [i \in 1 .. Len(result.rows) |-> rs[i]]
      /\ \A i \in 1 .. Len(result.rows) : rs[i] = Tuple(result.fields, result.rows[i])
  OBVIOUS
<1> HIDE DEF rs
<1>5. IsSeq(rs) /\ Len(rs) = Len(result.rows)
  BY <1>3, <1>4, SeqMade
<1>6. ASSUME NEW i \in 1 .. Len(rs)
      PROVE  IsRow(rs[i]) /\ rs[i].names = Names(result.fields) /\ rs[i].vals = result.rows[i]
  <2>1. /\ IsRow(Tuple(result.fields, result.rows[i]))
        /\ Tuple(result.fields, result.rows[i]).names = Names(result.fields)
        /\ Tuple(result.fields, result.rows[i]).vals = result.rows[i]
    BY <1>3, <1>5, TupleIs
  <2> QED BY <1>4, <1>5, <2>1
<1>7. Shape'
  BY <1>1, <1>5, <1>6 DEF IndexInv, Shape
<1>8. RowsFit'
  BY <1>1, <1>2, <1>5, <1>6 DEF RowsFit, Fitting, Valid
<1> QED BY <1>1, <1>7, <1>8 DEF IndexInv

-----------------------------------------------------------------------------
(* INSERT.                                                                  *)

LEMMA AddRowInv ==
  ASSUME IndexInv, NEW values, IsSeq(values), Valid(fields, values), AddRow(Tuple(fields, values))
  PROVE  IndexInv'
<1> DEFINE row == Tuple(fields, values)
           id == Len(rows) + 1
           offered == {c \in DOMAIN index : HasColumn(row, c)}
           refusing == {c \in offered : ~ Accepts(index[c], Get(row, c))}
           Take(cols) == [c \in DOMAIN index |-> IF c \in cols THEN Added(index[c], Get(row, c), id) ELSE index[c]]
<1>1. /\ IsSchema(fields) /\ IsSeq(fields) /\ IsSeq(rows) /\ \A i \in 1 .. Len(rows) : IsRow(rows[i])
      /\ DOMAIN index \subseteq Range(ColumnOrder) /\ \A c \in DOMAIN index : IsIndex(index[c])
  BY DEF IndexInv, Shape, IsSchema
<1>2. /\ IsRow(row) /\ row.names = Names(fields) /\ row.vals = values
      /\ \A c \in SetOfNames(fields) : HasColumn(row, c)
  BY <1>1, TupleIs
<1>3. Len(values) = Len(fields)
  BY DEF Valid
<1>4. /\ fields' = fields /\ stale' = stale
      /\ \/ rows' = Append(rows, row) /\ index' = Take(offered) /\ doubts' = doubts /\ refusing = {}
         \/ \E before \in SUBSET (offered \ refusing) :
              rows' = rows /\ index' = Take(before) /\ doubts' = doubts \cup before
  BY DEF AddRow
<1> HIDE DEF row
<1>5. ASSUME NEW cols PROVE DOMAIN Take(cols) = DOMAIN index /\ \A c \in DOMAIN index : IsIndex(Take(cols)[c])
  BY <1>1, AddedIsIndex
<1>6. CASE rows' = Append(rows, row) /\ index' = Take(offered) /\ doubts' = doubts /\ refusing = {}
  <2> DEFINE more == Append(rows, row)
  <2>1. /\ Len(rows) \in Nat /\ IsSeq(more) /\ Len(more) = Len(rows) + 1
        /\ more[Len(rows) + 1] = row /\ \A i \in 1 .. Len(rows) : more[i] = rows[i]
    BY <1>1, SeqAppend, SeqParts
  <2>2. rows' = more
    BY <1>6
  <2> HIDE DEF more
  <2>3. 1 .. Len(more) = (1 .. Len(rows)) \cup {Len(rows) + 1}
    BY <2>1
  <2>4. \A i \in 1 .. Len(more) : IsRow(more[i])
    BY <1>1, <1>2, <2>1, <2>3
  <2>5. "rows" \notin stale => Fitting(more, fields)
    <3>1. ASSUME "rows" \notin stale, NEW i \in 1 .. Len(more)
          PROVE  more[i].names = Names(fields) /\ Len(more[i].vals) = Len(fields)
      BY <1>2, <1>3, <2>1, <2>3, <3>1 DEF IndexInv, RowsFit, Fitting
    <3> QED BY <3>1 DEF Fitting
  <2>6. Shape' /\ RowsFit'
    BY <1>1, <1>4, <1>5, <1>6, <2>1, <2>2, <2>4, <2>5 DEF Shape, RowsFit
  <2>7. ASSUME NEW c \in DOMAIN index, c \notin doubts PROVE Answers(Take(offered)[c], fields, c, more)
    <3>1. Answers(index[c], fields, c, rows) /\ IsIndex(index[c])
      BY <1>1, <2>7 DEF IndexInv
    <3>2. c \in SetOfNames(fields)
      BY <3>1 DEF Answers, Indexable
    <3>3. c \in offered /\ HasColumn(row, c)
      BY <1>2, <3>2
    <3>4. Accepts(index[c], Get(row, c))
      BY <1>6, <3>3
    <3>5. Answers(Added(index[c], Get(row, c), id), fields, c, Append(rows, row))
      BY <1>1, <3>1, <3>3, <3>4, AddedAnswers
    <3> QED BY <3>3, <3>5 DEF more
  <2> HIDE DEF offered, Take
  <2> QED BY <1>4, <1>5, <1>6, <2>2, <2>6, <2>7 DEF IndexInv, Take
<1>7. ASSUME NEW before \in SUBSET (offered \ refusing),
             rows' = rows, index' = Take(before), doubts' = doubts \cup before
      PROVE  IndexInv'
  <2>1. Shape' /\ RowsFit'
    BY <1>4, <1>5, <1>7 DEF IndexInv, Shape, RowsFit
  <2>2. ASSUME NEW c \in DOMAIN index, c \notin doubts' PROVE Answers(Take(before)[c], fields, c, rows)
    BY <1>7, <2>2 DEF IndexInv
  <2> QED BY <1>4, <1>5, <1>7, <2>1, <2>2 DEF IndexInv
<1> QED BY <1>4, <1>6, <1>7

LEMMA InsertInv ==
  ASSUME IndexInv, Insert
  PROVE  IndexInv'
<1>1. PICK literals \in [1 .. Len(fields) -> Literals] :
        LET values == [i \in 1 .. Len(fields) |-> InsertValue(fields[i], literals[i])]
        IN IF Valid(fields, values) THEN AddRow(Tuple(fields, values)) ELSE Fail
  BY DEF Insert
<1> DEFINE values == [i \in 1 .. Len(fields) |-> InsertValue(fields[i], literals[i])]
<1>2. values = [i \in 1 .. Len(fields) |-> values[i]]
  OBVIOUS
<1>3. Fail \/ (Valid(fields, values) /\ AddRow(Tuple(fields, values)))
  BY <1>1
<1> HIDE DEF values
<1>4. IsSeq(values)
  BY <1>2, SeqMade, SeqParts DEF IndexInv, Shape, IsSchema
<1>5. CASE Fail
  BY <1>5, SameInv DEF Fail
<1> QED BY <1>3, <1>4, <1>5, AddRowInv

-----------------------------------------------------------------------------
(* Every statement keeps the invariant.                                     *)

LEMMA CreateDropInv ==
  ASSUME IndexInv, Create \/ Drop
  PROVE  IndexInv'
<1>1. CASE Fail
  BY <1>1, SameInv DEF Fail
<1>2. CASE \E fs \in Schemas : Empty(fs)
  BY <1>2, SchemasAssumption, EmptyInv DEF Empty
<1>3. CASE fields' = << >> /\ rows' = << >> /\ index' = NoFunction
  <2>1. IsSeq(fields') /\ Len(fields') = 0
    BY <1>3, NoSeq
  <2>2. 1 .. Len(fields') = {}
    BY <2>1
  <2>3. IsSchema(fields')
    BY <2>1, <2>2 DEF IsSchema
  <2> QED BY <1>3, <2>3, EmptyInv
<1> QED BY <1>1, <1>2, <1>3 DEF Create, Drop

LEMMA IndexInvInit ==
  ASSUME Init
  PROVE  IndexInv
<1>1. IsSeq(fields) /\ Len(fields) = 0 /\ IsSeq(rows) /\ Len(rows) = 0 /\ DOMAIN index = {}
  BY NoSeq DEF Init, NoFunction
<1>2. 1 .. Len(fields) = {} /\ 1 .. Len(rows) = {}
  BY <1>1
<1> QED BY <1>1, <1>2 DEF IndexInv, Shape, IsSchema, RowsFit, Fitting

LEMMA IndexInvStep ==
  ASSUME IndexInv, [Next]_vars
  PROVE  IndexInv'
<1>1. CASE Create \/ Drop
  BY <1>1, CreateDropInv
<1>2. CASE Insert
  BY <1>2, InsertInv
<1>3. CASE Update
  BY <1>3, UpdateInv
<1>4. CASE Delete
  BY <1>4, DeleteInv
<1>5. CASE CreateIndex
  BY <1>5, CreateIndexInv
<1>6. CASE AddColumn
  BY <1>6, AddColumnInv
<1>7. CASE AddComputedColumn
  BY <1>7, AddComputedColumnInv
<1>8. CASE Materialize
  BY <1>8, MaterializeInv
<1>9. CASE Transform
  <2>1. PICK result \in Results : Replace(result.fields, result)
    BY <1>9 DEF Transform
  <2> QED BY <2>1, ResultsAssumption, ReplaceInv
<1>10. CASE ApplyInto
  <2>1. PICK result \in Results : Replace(IF exists THEN fields ELSE result.fields, result)
    BY <1>10 DEF ApplyInto
  <2>2. IsSchema(fields) /\ IsSchema(result.fields)
    BY ResultsAssumption DEF IndexInv, Shape
  <2> QED BY <2>1, <2>2, ReplaceInv
<1>11. CASE UNCHANGED vars
  BY <1>11, SameInv DEF vars
<1> QED BY <1>1, <1>2, <1>3, <1>4, <1>5, <1>6, <1>7, <1>8, <1>9, <1>10, <1>11 DEF Next

(***************************************************************************)
(* An index that no statement is known to leave behind answers for the     *)
(* rows, after any statements, of any rows and expressions.                *)
(***************************************************************************)
THEOREM IndexesFollowRows == Spec => []IndexesFit
<1>1. Init => IndexInv
  BY IndexInvInit
<1>2. IndexInv /\ [Next]_vars => IndexInv'
  BY IndexInvStep
<1>3. IndexInv => IndexesFit
  <2>1. SUFFICES ASSUME IndexInv, NEW c \in DOMAIN index \ doubts
                 PROVE  IF index[c].kind = "Hash" THEN HashFits(c) ELSE SortedFits(c)
    BY DEF IndexesFit
  <2>2. Answers(index[c], fields, c, rows) /\ index[c].kind \in {"Hash", "Sorted"}
    BY <2>1 DEF IndexInv, Shape, IsIndex
  <2> QED BY <2>2 DEF Answers, HashFits, SortedFits
<1> QED BY <1>1, <1>2, <1>3, PTL DEF Spec

-----------------------------------------------------------------------------
(* What a statement that fails leaves as it was.                            *)
Unharmed == UNCHANGED << exists, fields, rows, stats, partitions, lazyExpr >>

LEMMA RewriteFails ==
  ASSUME IndexInv, ~ ok', NEW rs, NEW cols, Rewrite(rs, cols, Rebuild(index, fields, rs, cols))
  PROVE  DOMAIN index' # DOMAIN index
<1> DEFINE made == Rebuild(index, fields, rs, cols)
<1>1. ~ made.ok /\ index' = made.index
  BY DEF Rewrite
<1>2. DOMAIN index \subseteq Range(ColumnOrder)
  BY DEF IndexInv, Shape
<1>3. ~ made.ok => DOMAIN made.index # DOMAIN index
  BY <1>2, RebuildIs
<1> QED BY <1>1, <1>3

LEMMA StatementFails ==
  ASSUME IndexInv, Next, ~ ok'
  PROVE  Unharmed \/ DOMAIN index' # DOMAIN index
<1>1. CASE Create \/ Drop
  BY <1>1 DEF Create, Drop, Empty, Fail, Unharmed
<1>2. CASE Insert
  BY <1>2 DEF Insert, AddRow, Fail, Unharmed
<1>3. CASE Update
  <2>1. \/ Fail \/ Nothing
        \/ \E rs, cols : Rewrite(rs, cols, Rebuild(index, fields, rs, cols))
    BY <1>3 DEF Update, ChangeRows
  <2> QED BY <2>1, RewriteFails DEF Fail, Nothing, Unharmed
<1>4. CASE Delete
  <2>1. Nothing \/ \E rs, cols : Rewrite(rs, cols, Rebuild(index, fields, rs, cols))
    BY <1>4 DEF Delete, KeepRows
  <2> QED BY <2>1, RewriteFails DEF Nothing
<1>5. CASE CreateIndex
  BY <1>5 DEF CreateIndex, Fail, Unharmed
<1>6. CASE AddColumn
  BY <1>6 DEF AddColumn, Retuple, Fail, Unharmed
<1>7. CASE AddComputedColumn
  <2>1. Fail \/ \E fs, valsOf, unread : Retuple(fs, valsOf, {}, unread)
    BY <1>7, ZenonT(30) DEF AddComputedColumn
  <2> QED BY <2>1 DEF Retuple, Fail, Unharmed
<1>8. CASE Materialize
  BY <1>8 DEF Materialize, Retuple, Fail, Nothing, Unharmed
<1>9. CASE Transform \/ ApplyInto
  BY <1>9 DEF Transform, ApplyInto, Replace
<1> QED BY <1>1, <1>2, <1>3, <1>4, <1>5, <1>6, <1>7, <1>8, <1>9 DEF Next

(***************************************************************************)
(* A statement that fails changes neither rows nor schema nor what is      *)
(* derived of them, or an index is gone: the UPDATE or DELETE that cannot  *)
(* create it again.                                                        *)
(***************************************************************************)
THEOREM FailuresAreHarmless == Spec => FailureChangesNothing
<1>1. Init => IndexInv
  BY IndexInvInit
<1>2. IndexInv /\ [Next]_vars => IndexInv'
  BY IndexInvStep
<1>3. IndexInv /\ [Next]_vars
        => [~ ok' => \/ UNCHANGED << exists, fields, rows, stats, partitions, lazyExpr >>
                    \/ DOMAIN index' # DOMAIN index]_vars
  BY StatementFails DEF Unharmed
<1> QED BY <1>1, <1>2, <1>3, PTL DEF Spec, FailureChangesNothing

-----------------------------------------------------------------------------
(* Statistics: of one row more they are merged with its values.             *)

(* The statistics of column n after each of the first m rows.               *)
Counting(rs, n, m, f) ==
  [k \in 0 .. m |-> IF k = 0 THEN EmptyStats ELSE StatsAfter(f[k - 1], rs[k], n)]

LEMMA CountingExists ==
  ASSUME NEW rs, NEW n, NEW m \in Nat
  PROVE  \E f : f = Counting(rs, n, m, f)
<1> DEFINE G == {i \in 0 .. m : \E f : f = Counting(rs, n, i, f)}
<1>1. 0 \in G
  <2> DEFINE f == [k \in 0 .. 0 |-> EmptyStats]
  <2>1. f = Counting(rs, n, 0, f)
    BY DEF Counting
  <2> QED BY <2>1
<1>2. ASSUME NEW i \in 1 .. m, i - 1 \in G PROVE i \in G
  <2>1. PICK f : f = Counting(rs, n, i - 1, f)
    BY <1>2
  <2> DEFINE last == StatsAfter(f[i - 1], rs[i], n)
             g == [k \in 0 .. i |-> IF k = i THEN last ELSE f[k]]
  <2>2. i \in Nat /\ i > 0
    OBVIOUS
  <2>3. ASSUME NEW k \in 0 .. i
        PROVE  g[k] = IF k = 0 THEN EmptyStats ELSE StatsAfter(g[k - 1], rs[k], n)
    <3>1. CASE k = i
      <4>1. g[k] = last /\ g[k - 1] = f[i - 1] /\ k # 0
        BY <2>2, <3>1
      <4> QED BY <4>1, <3>1
    <3>2. CASE k # i
      <4>1. k \in 0 .. i - 1
        BY <2>2, <3>2
      <4>2. f[k] = IF k = 0 THEN EmptyStats ELSE StatsAfter(f[k - 1], rs[k], n)
        BY <2>1, <4>1 DEF Counting
      <4>3. g[k] = f[k]
        BY <3>2
      <4>4. k # 0 => g[k - 1] = f[k - 1]
        BY <4>1, <2>2
      <4> QED BY <4>2, <4>3, <4>4
    <3> QED BY <3>1, <3>2
  <2> HIDE DEF last
  <2>4. g = [k \in 0 .. i |-> g[k]]
    OBVIOUS
  <2> HIDE DEF g
  <2>5. g = Counting(rs, n, i, g)
    BY <2>3, <2>4 DEF Counting
  <2> QED BY <2>5
<1>3. m \in G
  <2> HIDE DEF G
  <2>1. \A i \in 1 .. m : i - 1 \in G => i \in G
    BY <1>2
  <2> QED BY <1>1, <2>1, Climb
<1> QED BY <1>3

(* StatsOf is the last value of that function.                              *)
LEMMA StatsCounting ==
  ASSUME NEW rs, NEW n, Len(rs) \in Nat
  PROVE  \E f : f = Counting(rs, n, Len(rs), f) /\ StatsOf(rs, n) = f[Len(rs)]
<1> DEFINE f == CHOOSE f : f = Counting(rs, n, Len(rs), f)
<1>1. f = Counting(rs, n, Len(rs), f)
  BY CountingExists
<1>2. StatsOf(rs, n) = f[Len(rs)]
  BY DEF StatsOf, Counting
<1> QED BY <1>1, <1>2

(* Equal beginnings are counted equally.                                    *)
LEMMA CountingOnce ==
  ASSUME NEW rs, NEW ss, NEW n, NEW m \in Nat, NEW k \in Nat, NEW f, NEW g, m <= k,
         f = Counting(rs, n, m, f), g = Counting(ss, n, k, g), \A i \in 1 .. m : rs[i] = ss[i]
  PROVE  f[m] = g[m]
<1> DEFINE G == {i \in 0 .. m : f[i] = g[i]}
<1>1. 0 \in G
  BY DEF Counting
<1>2. ASSUME NEW i \in 1 .. m, i - 1 \in G PROVE i \in G
  <2>1. i \in 0 .. m /\ i \in 0 .. k /\ i # 0
    OBVIOUS
  <2>2. f[i] = StatsAfter(f[i - 1], rs[i], n) /\ g[i] = StatsAfter(g[i - 1], ss[i], n)
    BY <2>1 DEF Counting
  <2> QED BY <1>2, <2>1, <2>2
<1>3. m \in G
  <2> HIDE DEF G
  <2>1. \A i \in 1 .. m : i - 1 \in G => i \in G
    BY <1>2
  <2> QED BY <1>1, <2>1, Climb
<1> QED BY <1>3

LEMMA StatsNone ==
  ASSUME NEW rs, Len(rs) = 0, NEW n
  PROVE  StatsOf(rs, n) = EmptyStats
<1>1. PICK f : f = Counting(rs, n, Len(rs), f) /\ StatsOf(rs, n) = f[Len(rs)]
  BY StatsCounting
<1>2. f = Counting(rs, n, 0, f) /\ StatsOf(rs, n) = f[0]
  BY <1>1
<1>3. f[0] = EmptyStats
  BY <1>2 DEF Counting
<1> QED BY <1>2, <1>3

LEMMA StatsAppend ==
  ASSUME NEW rs, IsSeq(rs), NEW row, NEW n
  PROVE  StatsOf(Append(rs, row), n) = StatsAfter(StatsOf(rs, n), row, n)
<1> DEFINE more == Append(rs, row)
<1>1. PICK m : m = Len(rs) /\ m \in Nat
  BY SeqParts
<1>2. Len(more) = m + 1 /\ more[m + 1] = row /\ \A i \in 1 .. m : more[i] = rs[i]
  BY <1>1, SeqAppend
<1> HIDE DEF more
<1>3. PICK f : f = Counting(rs, n, m, f) /\ StatsOf(rs, n) = f[m]
  BY <1>1, StatsCounting
<1>4. PICK g : g = Counting(more, n, m + 1, g) /\ StatsOf(more, n) = g[m + 1]
  BY <1>1, <1>2, StatsCounting
<1>5. f[m] = g[m]
  <2>1. m + 1 \in Nat /\ m <= m + 1 /\ \A i \in 1 .. m : rs[i] = more[i]
    BY <1>1, <1>2
  <2> QED BY <1>1, <1>3, <1>4, <2>1, CountingOnce
<1>6. g[m + 1] = StatsAfter(g[m], more[m + 1], n)
  <2>1. m + 1 \in 0 .. m + 1 /\ m + 1 # 0 /\ (m + 1) - 1 = m
    BY <1>1
  <2> QED BY <1>4, <2>1 DEF Counting
<1> QED BY <1>2, <1>3, <1>4, <1>5, <1>6 DEF more

(* MergedStats makes of the statistics of some rows those of one row more.  *)
LEMMA MergedIs ==
  ASSUME NEW rs, IsSeq(rs), NEW row, NEW ss, ss = ColumnStats(fields, rs)
  PROVE  MergedStats(ss, row) = ColumnStats(fields, Append(rs, row))
<1> DEFINE N == SetOfNames(fields)
           Merged(n) == IF n \in N /\ HasColumn(row, n)
                        THEN MergeValue(IF n \in DOMAIN ss THEN ss[n] ELSE EmptyStats, Get(row, n)) ELSE ss[n]
<1>1. DOMAIN ss = N /\ \A n \in N : ss[n] = StatsOf(rs, n)
  BY DEF ColumnStats
<1>2. MergedStats(ss, row) = [n \in N |-> Merged(n)]
  BY <1>1 DEF MergedStats
<1>3. \A n \in N : Merged(n) = StatsAfter(StatsOf(rs, n), row, n)
  BY <1>1 DEF StatsAfter
<1>4. \A n \in N : StatsOf(Append(rs, row), n) = StatsAfter(StatsOf(rs, n), row, n)
  BY StatsAppend
<1> HIDE DEF Merged
<1> QED BY <1>2, <1>3, <1>4 DEF ColumnStats

-----------------------------------------------------------------------------
(* Zone maps: chunks of BatchSize rows.                                     *)

LEMMA TimesOrder ==
  ASSUME NEW p \in Nat, NEW q \in Nat, NEW b \in Nat \ {0}, p <= q
  PROVE  p * b <= q * b
OBVIOUS

LEMMA TimesNext ==
  ASSUME NEW q \in Nat, NEW b \in Nat
  PROVE  (q + 1) * b = q * b + b /\ q * b \in Nat
OBVIOUS

LEMMA DivIs ==
  ASSUME NEW a \in Nat, NEW b \in Nat \ {0}
  PROVE  a \div b \in Nat /\ (a \div b) * b <= a /\ a < (a \div b) * b + b
OBVIOUS

LEMMA DivOnce ==
  ASSUME NEW a \in Nat, NEW b \in Nat \ {0}, NEW q \in Nat, q * b <= a, a < q * b + b
  PROVE  a \div b = q
<1>1. ASSUME NEW x \in Nat, NEW y \in Nat, x < y, y * b <= a, a < x * b + b PROVE FALSE
  <2>1. (x + 1) * b <= y * b
    BY <1>1, TimesOrder
  <2>2. (x + 1) * b = x * b + b /\ x * b \in Nat /\ y * b \in Nat
    BY TimesNext
  <2> QED BY <1>1, <2>1, <2>2
<1>2. PICK r : r = a \div b
  OBVIOUS
<1>3. r \in Nat /\ r * b <= a /\ a < r * b + b
  BY <1>2, DivIs
<1>4. ~ (q < r) /\ ~ (r < q)
  BY <1>1, <1>3
<1> QED BY <1>2, <1>3, <1>4

Chunks(n) == (n + BatchSize - 1) \div BatchSize
ChunkEnd(p, n) == IF (p - 1) * BatchSize + BatchSize < n THEN (p - 1) * BatchSize + BatchSize ELSE n
Chunk(fs, rs, p) ==
  [start |-> (p - 1) * BatchSize, end |-> ChunkEnd(p, Len(rs)),
   stats |-> ColumnStats(fs, SubSeq(rs, (p - 1) * BatchSize + 1, ChunkEnd(p, Len(rs))))]

LEMMA PartitionsIs ==
  ASSUME NEW fs, NEW rs
  PROVE  Partitions(fs, rs) = [p \in 1 .. Chunks(Len(rs)) |-> Chunk(fs, rs, p)]
BY DEF Partitions, Chunks, Chunk, ChunkEnd

(* The last chunk is full, and a row more begins a new one, or it grows.    *)
LEMMA ChunksIs ==
  ASSUME NEW n \in Nat, NEW k, k = Chunks(n)
  PROVE  /\ k \in Nat /\ n <= k * BatchSize /\ k * BatchSize < n + BatchSize
         /\ Chunks(n + 1) = IF n = k * BatchSize THEN k + 1 ELSE k
<1> DEFINE b == BatchSize
<1>1. b \in Nat \ {0}
  BY Bounds
<1>2. n + b - 1 \in Nat /\ (n + 1) + b - 1 \in Nat /\ (n + 1) + b - 1 = n + b
  BY <1>1
<1>3. k = (n + b - 1) \div b /\ Chunks(n + 1) = ((n + 1) + b - 1) \div b
  BY DEF Chunks
<1> HIDE DEF b
<1>4. k \in Nat /\ k * b <= n + b - 1 /\ n + b - 1 < k * b + b
  BY <1>1, <1>2, <1>3, DivIs
<1>5. k * b \in Nat /\ (k + 1) * b = k * b + b
  BY <1>1, <1>4, TimesNext
<1>6. n <= k * b /\ k * b < n + b
  BY <1>1, <1>4, <1>5
<1>7. CASE n = k * b
  <2>1. (k + 1) * b <= n + b /\ n + b < (k + 1) * b + b /\ n + b \in Nat /\ k + 1 \in Nat
    BY <1>1, <1>4, <1>5, <1>7
  <2>2. (n + b) \div b = k + 1
    BY <1>1, <2>1, DivOnce
  <2> QED BY <1>2, <1>3, <1>4, <1>6, <1>7, <2>2 DEF b
<1>8. CASE n # k * b
  <2>1. k * b <= n + b /\ n + b < k * b + b /\ n + b \in Nat
    BY <1>1, <1>4, <1>5, <1>6, <1>8
  <2>2. (n + b) \div b = k
    BY <1>1, <1>4, <2>1, DivOnce
  <2> QED BY <1>2, <1>3, <1>4, <1>6, <1>8, <2>2 DEF b
<1> QED BY <1>7, <1>8

(* Where chunks begin and end.                                              *)
LEMMA ChunkEnds ==
  ASSUME NEW n \in Nat, NEW k, k = Chunks(n), NEW p \in 1 .. k
  PROVE  /\ (p - 1) * BatchSize \in Nat /\ (p - 1) * BatchSize < ChunkEnd(p, n) /\ ChunkEnd(p, n) \in 1 .. n
         /\ ChunkEnd(p, n + 1) = IF p = k /\ n # k * BatchSize THEN n + 1 ELSE ChunkEnd(p, n)
         /\ p = k => ChunkEnd(p, n) = n
         /\ p = k => (n - (p - 1) * BatchSize >= BatchSize <=> n = k * BatchSize)
<1> DEFINE b == BatchSize
           start == (p - 1) * b
<1>1. b \in Nat \ {0}
  BY Bounds
<1>2. k \in Nat /\ n <= k * b /\ k * b < n + b
  BY ChunksIs
<1>3. k * b \in Nat /\ p - 1 \in Nat /\ p \in Nat
  BY <1>1, <1>2, TimesNext
<1>4. start \in Nat /\ p * b = start + b
  <2>1. ((p - 1) + 1) * b = (p - 1) * b + b /\ (p - 1) * b \in Nat /\ (p - 1) + 1 = p
    BY <1>1, <1>3, TimesNext
  <2> QED BY <2>1
<1>5. ChunkEnd(p, n) = (IF start + b < n THEN start + b ELSE n)
      /\ ChunkEnd(p, n + 1) = (IF start + b < n + 1 THEN start + b ELSE n + 1)
  BY DEF ChunkEnd
<1>6. CASE p = k
  <2>1. start + b = k * b
    BY <1>4, <1>6
  <2> HIDE DEF start, b
  <2> QED BY <1>1, <1>2, <1>3, <1>4, <1>5, <1>6, <2>1 DEF start, b
<1>7. CASE p # k
  <2>1. p <= k - 1 /\ k - 1 \in Nat
    BY <1>2, <1>3, <1>7
  <2>2. p * b <= (k - 1) * b
    BY <1>1, <1>3, <2>1, TimesOrder
  <2>3. k * b = (k - 1) * b + b
    <3>1. PICK j \in Nat : j = k - 1
      BY <2>1
    <3>2. (j + 1) * b = j * b + b
      BY <1>1, TimesNext
    <3>3. j + 1 = k
      BY <1>2, <3>1
    <3> QED BY <3>1, <3>2, <3>3
  <2>4. (k - 1) * b \in Nat
    BY <1>1, <2>1, TimesNext
  <2>5. start + b < n
    BY <1>1, <1>2, <1>3, <1>4, <2>2, <2>3, <2>4
  <2> HIDE DEF start, b
  <2> QED BY <1>1, <1>4, <1>5, <1>7, <2>5 DEF start, b
<1> QED BY <1>6, <1>7

LEMMA SubSeqIs ==
  ASSUME NEW s, NEW m \in Nat, NEW n \in Nat, m <= n + 1
  PROVE  /\ IsSeq(SubSeq(s, m, n)) /\ Len(SubSeq(s, m, n)) = n - m + 1
         /\ \A i \in 1 .. n - m + 1 : SubSeq(s, m, n)[i] = s[m + i - 1]
<1> DEFINE S == {s[i] : i \in m .. n}
           t == SubSeq(s, m, n)
<1>1. \A i \in m .. n : s[i] \in S
  OBVIOUS
<1> HIDE DEF S
<1>2. /\ t \in Seq(S) /\ Len(t) = IF m <= n THEN n - m + 1 ELSE 0
      /\ \A i \in 1 .. n - m + 1 : t[i] = s[m + i - 1]
  BY <1>1, SubSeqProperties
<1> HIDE DEF t
<1>3. Len(t) = n - m + 1
  BY <1>2
<1>4. t \in Seq(Range(t))
  BY <1>2 DEF Range
<1> QED BY <1>2, <1>3, <1>4 DEF IsSeq, t

(* A part of a sequence with one element more: the old part, or one that    *)
(* ends with the new element.                                               *)
LEMMA SubSeqAppend ==
  ASSUME NEW s, IsSeq(s), NEW x, NEW m \in 1 .. Len(s) + 1, NEW n \in 1 .. Len(s) + 1, m <= n
  PROVE  SubSeq(Append(s, x), m, n) = IF n = Len(s) + 1 THEN Append(SubSeq(s, m, Len(s)), x) ELSE SubSeq(s, m, n)
<1> DEFINE u == Append(s, x)
           t == SubSeq(u, m, n)
           old == SubSeq(s, m, IF n = Len(s) + 1 THEN Len(s) ELSE n)
<1>1. PICK k \in Nat : k = Len(s)
  BY SeqParts
<1>2. /\ Len(u) = k + 1 /\ u[k + 1] = x /\ \A i \in 1 .. k : u[i] = s[i]
  BY <1>1, SeqAppend
<1> HIDE DEF u
<1>3. m \in Nat /\ n \in Nat /\ m >= 1 /\ m <= k + 1 /\ n <= k + 1 /\ m <= n
  BY <1>1
<1>4. IsSeq(t) /\ Len(t) = n - m + 1 /\ \A i \in 1 .. n - m + 1 : t[i] = u[m + i - 1]
  BY <1>3, SubSeqIs
<1> HIDE DEF t
<1>5. CASE n = k + 1
  <2> DEFINE part == SubSeq(s, m, k)
             more == Append(part, x)
  <2>1. IsSeq(part) /\ Len(part) = k - m + 1 /\ \A i \in 1 .. k - m + 1 : part[i] = s[m + i - 1]
    BY <1>1, <1>3, SubSeqIs
  <2> HIDE DEF part
  <2>2. /\ IsSeq(more) /\ Len(more) = (k - m + 1) + 1
        /\ more[(k - m + 1) + 1] = x /\ \A i \in 1 .. k - m + 1 : more[i] = part[i]
    BY <2>1, SeqAppend
  <2> HIDE DEF more
  <2>3. ASSUME NEW i \in 1 .. Len(t) PROVE t[i] = more[i]
    <3>1. t[i] = u[m + i - 1]
      BY <1>4
    <3>2. CASE i = (k - m + 1) + 1
      <4>1. m + i - 1 = k + 1
        BY <1>3, <3>2
      <4> QED BY <1>2, <2>2, <3>1, <3>2, <4>1
    <3>3. CASE i # (k - m + 1) + 1
      <4>1. i \in 1 .. k - m + 1 /\ m + i - 1 \in 1 .. k
        BY <1>3, <1>4, <1>5, <3>3
      <4>2. u[m + i - 1] = s[m + i - 1] /\ more[i] = s[m + i - 1]
        BY <1>2, <2>1, <2>2, <4>1
      <4> QED BY <3>1, <4>2
    <3> QED BY <3>2, <3>3
  <2>4. Len(t) = Len(more)
    BY <1>3, <1>4, <1>5, <2>2
  <2>5. t = more
    BY <1>4, <2>2, <2>3, <2>4, SameSeq
  <2> QED BY <1>1, <1>5, <2>5 DEF t, u, more, part
<1>6. CASE n # k + 1
  <2> DEFINE part == SubSeq(s, m, n)
  <2>1. IsSeq(part) /\ Len(part) = n - m + 1 /\ \A i \in 1 .. n - m + 1 : part[i] = s[m + i - 1]
    BY <1>3, SubSeqIs
  <2> HIDE DEF part
  <2>2. ASSUME NEW i \in 1 .. Len(t) PROVE t[i] = part[i]
    <3>1. i \in 1 .. n - m + 1 /\ m + i - 1 \in 1 .. k
      BY <1>3, <1>4, <1>6
    <3> QED BY <1>2, <1>4, <2>1, <3>1
  <2>3. t = part
    BY <1>4, <2>1, <2>2, SameSeq
  <2> QED BY <1>1, <1>6, <2>3 DEF t, u, part
<1> QED BY <1>5, <1>6

(* A row more changes no chunk but the last, and that one by the row.       *)
LEMMA ChunkAppend ==
  ASSUME NEW rs, IsSeq(rs), NEW row, NEW k, k = Chunks(Len(rs)), NEW p \in 1 .. k
  PROVE  Chunk(fields, Append(rs, row), p) =
           IF p = k /\ Len(rs) # k * BatchSize
           THEN [start |-> (p - 1) * BatchSize, end |-> Len(rs) + 1,
                 stats |-> MergedStats(Chunk(fields, rs, p).stats, row)]
           ELSE Chunk(fields, rs, p)
<1> DEFINE start == (p - 1) * BatchSize
           more == Append(rs, row)
<1>1. PICK n \in Nat : n = Len(rs) /\ Len(more) = n + 1
  BY SeqParts, SeqAppend
<1>2. /\ start \in Nat /\ start < ChunkEnd(p, n) /\ ChunkEnd(p, n) \in 1 .. n
      /\ ChunkEnd(p, n + 1) = (IF p = k /\ n # k * BatchSize THEN n + 1 ELSE ChunkEnd(p, n))
      /\ p = k => ChunkEnd(p, n) = n
  BY <1>1, ChunkEnds
<1>3. /\ Chunk(fields, more, p) =
            [start |-> start, end |-> ChunkEnd(p, n + 1),
             stats |-> ColumnStats(fields, SubSeq(more, start + 1, ChunkEnd(p, n + 1)))]
      /\ Chunk(fields, rs, p) =
            [start |-> start, end |-> ChunkEnd(p, n),
             stats |-> ColumnStats(fields, SubSeq(rs, start + 1, ChunkEnd(p, n)))]
  BY <1>1 DEF Chunk
<1>4. start + 1 \in 1 .. n + 1 /\ start + 1 <= ChunkEnd(p, n) /\ ChunkEnd(p, n) # n + 1 /\ ChunkEnd(p, n) \in 1 .. n + 1
  BY <1>2
<1> HIDE DEF start
<1>5. CASE p = k /\ n # k * BatchSize
  <2>1. ChunkEnd(p, n + 1) = n + 1 /\ ChunkEnd(p, n) = n
    BY <1>2, <1>5
  <2>2. start + 1 <= n + 1 /\ n + 1 \in 1 .. n + 1
    BY <1>4, <2>1
  <2>3. SubSeq(more, start + 1, n + 1) = Append(SubSeq(rs, start + 1, n), row)
    BY <1>1, <1>4, <2>2, SubSeqAppend
  <2>4. IsSeq(SubSeq(rs, start + 1, n))
    <3>1. start + 1 \in Nat
      BY <1>2
    <3> QED BY <2>2, <3>1, SubSeqIs
  <2>5. MergedStats(ColumnStats(fields, SubSeq(rs, start + 1, n)), row)
          = ColumnStats(fields, Append(SubSeq(rs, start + 1, n), row))
    BY <2>4, MergedIs
  <2>6. Chunk(fields, rs, p).stats = ColumnStats(fields, SubSeq(rs, start + 1, n))
    BY <1>3, <2>1
  <2>7. Chunk(fields, more, p) =
          [start |-> start, end |-> n + 1, stats |-> MergedStats(Chunk(fields, rs, p).stats, row)]
    BY <1>3, <2>1, <2>3, <2>5, <2>6
  <2> QED BY <1>1, <1>5, <2>7 DEF start
<1>6. CASE ~ (p = k /\ n # k * BatchSize)
  <2>1. ChunkEnd(p, n + 1) = ChunkEnd(p, n)
    BY <1>2, <1>6
  <2>2. SubSeq(more, start + 1, ChunkEnd(p, n)) = SubSeq(rs, start + 1, ChunkEnd(p, n))
    BY <1>1, <1>4, SubSeqAppend
  <2> QED BY <1>1, <1>3, <1>6, <2>1, <2>2
<1> QED BY <1>5, <1>6

(* INSERT leaves the zone maps of the rows with the new one.                *)
LEMMA GrownIs ==
  ASSUME IsSeq(rows), NEW row, partitions = Partitions(fields, rows)
  PROVE  GrownPartitions(row) = Partitions(fields, Append(rows, row))
<1> DEFINE more == Append(rows, row)
           new == MergedStats([f \in SetOfNames(fields) |-> EmptyStats], row)
           Old(p) == Chunk(fields, rows, p)
<1>1. PICK n \in Nat : n = Len(rows) /\ Len(more) = n + 1
  BY SeqParts, SeqAppend
<1>2. PICK k : k = Chunks(n)
  OBVIOUS
<1>3. /\ k \in Nat /\ n <= k * BatchSize /\ k * BatchSize < n + BatchSize
      /\ Chunks(n + 1) = IF n = k * BatchSize THEN k + 1 ELSE k
  BY <1>2, ChunksIs
<1>4. BatchSize \in Nat \ {0} /\ k * BatchSize \in Nat
  BY <1>3, Bounds, TimesNext
<1>5. PICK was : was = partitions
  OBVIOUS
<1>6. was = [p \in 1 .. k |-> Old(p)]
  BY <1>1, <1>2, <1>5, PartitionsIs
<1>7. PICK now : now = Partitions(fields, more)
  OBVIOUS
<1>8. now = [p \in 1 .. Chunks(n + 1) |-> Chunk(fields, more, p)]
  BY <1>1, <1>7, PartitionsIs
<1>9. \A p \in 1 .. k :
        Chunk(fields, more, p) =
          IF p = k /\ n # k * BatchSize
          THEN [start |-> (p - 1) * BatchSize, end |-> n + 1, stats |-> MergedStats(Old(p).stats, row)]
          ELSE Old(p)
  BY <1>1, <1>2, ChunkAppend
<1>10. IsSeq(was) /\ Len(was) = k
  <2>1. was = [p \in 1 .. k |-> was[p]]
    BY <1>6
  <2> QED BY <1>3, <2>1, SeqMade
<1>11. \A p \in 1 .. k : was[p] = Old(p)
  BY <1>6
<1>12. k # 0 => /\ was[k].start = (k - 1) * BatchSize /\ was[k].end = n
                /\ was[k] = [start |-> (k - 1) * BatchSize, end |-> n, stats |-> Old(k).stats]
                /\ (was[k].end - was[k].start >= BatchSize <=> n = k * BatchSize)
  <2>1. SUFFICES ASSUME k # 0 PROVE k \in 1 .. k
    <3>1. k \in 1 .. k =>
            /\ ChunkEnd(k, n) = n
            /\ (n - (k - 1) * BatchSize >= BatchSize <=> n = k * BatchSize)
      BY <1>2, <1>3, ChunkEnds
    <3>2. Old(k) = [start |-> (k - 1) * BatchSize, end |-> ChunkEnd(k, n), stats |-> Old(k).stats]
      BY <1>1 DEF Chunk
    <3> HIDE DEF Old
    <3> QED BY <1>11, <2>1, <3>1, <3>2
  <2> QED BY <1>3, <2>1
<1> DEFINE full == k = 0 \/ was[k].end - was[k].start >= BatchSize
           begun == [start |-> n, end |-> n + 1, stats |-> new]
<1>13. full <=> n = k * BatchSize
  BY <1>3, <1>4, <1>12
<1>14. GrownPartitions(row) =
         IF full THEN Append(was, begun)
         ELSE [was EXCEPT ![k].end = n + 1, ![k].stats = MergedStats(@, row)]
  BY <1>1, <1>5, <1>10 DEF GrownPartitions
<1>15. CASE n = k * BatchSize
  <2>1. begun = Chunk(fields, more, k + 1)
    <3>1. (k + 1) - 1 = k /\ ~ (n + BatchSize < n + 1)
      BY <1>3, <1>4
    <3>2. ChunkEnd(k + 1, n + 1) = n + 1 /\ ((k + 1) - 1) * BatchSize = n
      BY <1>15, <3>1 DEF ChunkEnd
    <3>3. SubSeq(more, n + 1, n + 1) = Append(SubSeq(rows, n + 1, n), row)
      BY <1>1, SubSeqAppend
    <3>4. IsSeq(SubSeq(rows, n + 1, n)) /\ Len(SubSeq(rows, n + 1, n)) = 0
      <4>1. n + 1 \in Nat /\ n + 1 <= n + 1 /\ n - (n + 1) + 1 = 0
        BY <1>1
      <4> QED BY <1>1, <4>1, SubSeqIs
    <3>5. ColumnStats(fields, SubSeq(rows, n + 1, n)) = [f \in SetOfNames(fields) |-> EmptyStats]
      BY <3>4, StatsNone DEF ColumnStats
    <3>6. new = ColumnStats(fields, SubSeq(more, n + 1, n + 1))
      BY <3>3, <3>4, <3>5, MergedIs
    <3> QED BY <1>1, <3>2, <3>6 DEF Chunk
  <2> HIDE DEF begun, full
  <2> DEFINE grown == Append(was, begun)
  <2>2. GrownPartitions(row) = grown
    BY <1>13, <1>14, <1>15
  <2>3. /\ IsSeq(grown) /\ Len(grown) = k + 1 /\ grown[k + 1] = begun
        /\ \A p \in 1 .. k : grown[p] = was[p]
    BY <1>10, SeqAppend
  <2> HIDE DEF grown
  <2>4. now = [p \in 1 .. k + 1 |-> now[p]] /\ \A p \in 1 .. k + 1 : now[p] = Chunk(fields, more, p)
    BY <1>3, <1>8, <1>15
  <2>5. k + 1 \in Nat
    BY <1>3
  <2>6. IsSeq(now) /\ Len(now) = k + 1
    BY <2>4, <2>5, SeqMade
  <2>7. ASSUME NEW p \in 1 .. k + 1 PROVE grown[p] = now[p]
    <3>1. CASE p = k + 1
      BY <2>1, <2>3, <2>4, <3>1
    <3>2. CASE p # k + 1
      <4>1. p \in 1 .. k
        BY <1>3, <3>2
      <4>2. Chunk(fields, more, p) = Old(p)
        BY <1>9, <1>15, <4>1
      <4> QED BY <1>11, <2>3, <2>4, <4>1, <4>2
    <3> QED BY <3>1, <3>2
  <2>8. grown = now
    BY <2>3, <2>6, <2>7, SameSeq
  <2> QED BY <1>7, <2>2, <2>8
<1>16. CASE n # k * BatchSize
  <2> DEFINE grown == [was EXCEPT ![k].end = n + 1, ![k].stats = MergedStats(@, row)]
  <2>1. k \in 1 .. k /\ k # 0
    BY <1>1, <1>3, <1>4, <1>12, <1>13, <1>16
  <2>2. GrownPartitions(row) = grown
    BY <1>13, <1>14, <1>16
  <2>3. was[k] = [start |-> (k - 1) * BatchSize, end |-> n, stats |-> Old(k).stats]
    BY <1>12, <2>1
  <2> DEFINE last == [start |-> (k - 1) * BatchSize, end |-> n + 1, stats |-> MergedStats(Old(k).stats, row)]
  <2> HIDE DEF Old, full
  <2>4. grown = [p \in 1 .. k |-> IF p = k THEN last ELSE was[p]]
    <3> DEFINE half == [was EXCEPT ![k].end = n + 1]
               mid == [start |-> (k - 1) * BatchSize, end |-> n + 1, stats |-> Old(k).stats]
    <3>1. DOMAIN was = 1 .. k /\ was = [p \in 1 .. k |-> was[p]]
      BY <1>6
    <3>2. [was[k] EXCEPT !.end = n + 1] = mid
      BY <2>3
    <3>3. half = [p \in 1 .. k |-> IF p = k THEN mid ELSE was[p]]
      BY <2>1, <3>1, <3>2
    <3>4. [mid EXCEPT !.stats = MergedStats(@, row)] = last
      OBVIOUS
    <3>5. grown = [half EXCEPT ![k].stats = MergedStats(@, row)]
      OBVIOUS
    <3> HIDE DEF half, mid, last, grown
    <3>6. DOMAIN half = 1 .. k /\ half[k] = mid /\ \A p \in 1 .. k : p # k => half[p] = was[p]
      BY <2>1, <3>3
    <3>7. grown = [p \in 1 .. k |-> IF p = k THEN [half[k] EXCEPT !.stats = MergedStats(@, row)] ELSE half[p]]
      BY <2>1, <3>5, <3>6
    <3> QED BY <3>4, <3>6, <3>7
  <2>5. \A p \in 1 .. k : Chunk(fields, more, p) = IF p = k THEN last ELSE was[p]
    BY <1>9, <1>11, <1>16
  <2>6. now = [p \in 1 .. k |-> Chunk(fields, more, p)]
    BY <1>3, <1>8, <1>16
  <2> HIDE DEF last, grown
  <2>7. grown = now
    BY <2>4, <2>5, <2>6
  <2> QED BY <1>7, <2>2, <2>7
<1> QED BY <1>15, <1>16

-----------------------------------------------------------------------------
(* Statistics and zone maps after each statement.                           *)

LEMMA ZonesSame ==
  ASSUME ZonesFit, UNCHANGED << exists, fields, rows, stats, partitions, stale >>
  PROVE  ZonesFit'
BY DEF ZonesFit

(* Statements that derive them again from the rows.                         *)
LEMMA ZonesFresh ==
  ASSUME Refresh(fields', rows')
  PROVE  ZonesFit'
BY DEF ZonesFit, Refresh

LEMMA ZonesRewrite ==
  ASSUME NEW rs, NEW cols, NEW made, Rewrite(rs, cols, made)
  PROVE  ZonesFit'
<1>1. Refresh(fields, rs) /\ fields' = fields /\ rows' = rs
  BY DEF Rewrite
<1> QED BY <1>1, ZonesFresh

LEMMA ZonesRetuple ==
  ASSUME NEW fs, NEW valsOf, NEW left, NEW unread, Retuple(fs, valsOf, left, unread)
  PROVE  ZonesFit'
<1>1. Refresh(fields', rows')
  BY DEF Retuple
<1> QED BY <1>1, ZonesFresh

LEMMA ZonesInsert ==
  ASSUME IsSeq(rows), ZonesFit, exists, NEW row, AddRow(row)
  PROVE  ZonesFit'
<1>1. stats = ColumnStats(fields, rows) /\ ("zones" \notin stale => partitions = Partitions(fields, rows))
  BY DEF ZonesFit
<1>2. CASE rows' = rows
  <2>1. Append(rows, row) # rows
    BY SeqAppend, SeqParts
  <2>2. UNCHANGED << exists, fields, rows, stats, partitions, stale >>
    BY <1>2, <2>1 DEF AddRow
  <2> QED BY <2>2, ZonesSame
<1>3. CASE rows' # rows
  <2>1. /\ rows' = Append(rows, row) /\ stats' = MergedStats(stats, row)
        /\ partitions' = GrownPartitions(row) /\ UNCHANGED << exists, fields, stale >>
    BY <1>3 DEF AddRow
  <2>2. stats' = ColumnStats(fields, Append(rows, row))
    BY <1>1, <2>1, MergedIs
  <2>3. "zones" \notin stale => partitions' = Partitions(fields, Append(rows, row))
    BY <1>1, <2>1, GrownIs
  <2> QED BY <2>1, <2>2, <2>3 DEF ZonesFit
<1> QED BY <1>2, <1>3

LEMMA ZonesCreate ==
  ASSUME NEW fs, Empty(fs)
  PROVE  ZonesFit'
<1>1. rows' = << >> /\ fields' = fs /\ partitions' = << >> /\ stats' = ColumnStats(fs, << >>)
  BY DEF Empty
<1>2. PICK none : none = << >> /\ Len(none) = 0
  BY NoSeq
<1>3. PICK k : k = Chunks(Len(none))
  OBVIOUS
<1>4. k = 0
  <2>1. BatchSize \in Nat \ {0} /\ k \in Nat /\ k * BatchSize < 0 + BatchSize
    BY <1>2, <1>3, Bounds, ChunksIs
  <2>2. SUFFICES ASSUME 1 <= k PROVE FALSE
    BY <2>1
  <2>3. 1 * BatchSize <= k * BatchSize
    BY <2>1, <2>2, TimesOrder
  <2>4. k * BatchSize \in Nat
    BY <2>1, TimesNext
  <2> QED BY <2>1, <2>3, <2>4
<1>5. Partitions(fs, none) = [p \in 1 .. 0 |-> Chunk(fs, none, p)]
  BY <1>3, <1>4, PartitionsIs
<1>6. [p \in 1 .. 0 |-> Chunk(fs, none, p)] = << >>
  OBVIOUS
<1> QED BY <1>1, <1>2, <1>5, <1>6 DEF ZonesFit

LEMMA ZonesStep ==
  ASSUME IndexInv, ZonesFit, [Next]_vars
  PROVE  ZonesFit'
<1>1. CASE Fail \/ Nothing \/ UNCHANGED vars
  BY <1>1, ZonesSame DEF Fail, Nothing, vars
<1>2. CASE Create
  BY <1>1, <1>2, ZonesCreate DEF Create
<1>3. CASE Drop
  BY <1>1, <1>3 DEF Drop, ZonesFit
<1>4. CASE Insert
  <2>1. exists /\ (Fail \/ \E row : AddRow(row))
    BY <1>4 DEF Insert
  <2>2. IsSeq(rows)
    BY DEF IndexInv, Shape
  <2> QED BY <1>1, <2>1, <2>2, ZonesInsert
<1>5. CASE Update \/ Delete
  <2>1. Fail \/ Nothing \/ \E rs, cols, made : Rewrite(rs, cols, made)
    BY <1>5 DEF Update, Delete, ChangeRows, KeepRows
  <2> QED BY <1>1, <2>1, ZonesRewrite
<1>6. CASE CreateIndex
  BY <1>1, <1>6, ZonesSame DEF CreateIndex
<1>7. CASE AddColumn
  <2>1. Fail \/ \E fs, valsOf : Retuple(fs, valsOf, {}, FALSE)
    BY <1>7, ZenonT(30) DEF AddColumn
  <2> QED BY <1>1, <2>1, ZonesRetuple
<1>8. CASE AddComputedColumn
  <2>1. Fail \/ \E fs, valsOf, unread : Retuple(fs, valsOf, {}, unread)
    BY <1>8, ZenonT(30) DEF AddComputedColumn
  <2> QED BY <1>1, <2>1, ZonesRetuple
<1>9. CASE Materialize
  <2>1. Fail \/ Nothing \/ \E fs, valsOf, left : Retuple(fs, valsOf, left, FALSE)
    BY <1>9, ZenonT(30) DEF Materialize
  <2> QED BY <1>1, <2>1, ZonesRetuple
<1>10. CASE Transform \/ ApplyInto
  BY <1>10 DEF Transform, ApplyInto, Replace, ZonesFit
<1> QED BY <1>1, <1>2, <1>3, <1>4, <1>5, <1>6, <1>7, <1>8, <1>9, <1>10 DEF Next

(***************************************************************************)
(* Statistics always, and zone maps unless a query's result replaced the   *)
(* rows under them, are those of the rows: INSERT row by row and every     *)
(* other statement by one pass come to the same.                           *)
(***************************************************************************)
THEOREM ZonesFollowRows == Spec => []ZonesFit
<1>1. Init => IndexInv /\ ZonesFit
  BY IndexInvInit DEF Init, ZonesFit
<1>2. IndexInv /\ ZonesFit /\ [Next]_vars => IndexInv' /\ ZonesFit'
  BY IndexInvStep, ZonesStep
<1> QED BY <1>1, <1>2, PTL DEF Spec

-----------------------------------------------------------------------------
(* Rows can be read. A lazy column has the type its expression had on the   *)
(* first row there was, and what came since, other rows and other columns,  *)
(* must not change that type. Two things the code leaves to expressions:    *)

(* Types that tell what a value is: not a vector of any dimension, nor a    *)
(* matrix of any columns.                                                   *)
Exact(type) == type # << "Vector", 0 >> /\ (type[1] = "Matrix" => type[3] # 0)
AllExact(fs) == \A i \in 1 .. Len(fs) : Exact(fs[i].type)

(* A row of a schema, and a schema with more columns.                       *)
Rowed(fs, row) == IsRow(row) /\ row.names = Names(fs) /\ Valid(fs, row.vals)

Widens(more, fs) ==
  /\ Len(fs) <= Len(more)
  /\ \A i \in 1 .. Len(fs) :
       more[i].name = fs[i].name /\ more[i].type = fs[i].type /\ more[i].nullable = fs[i].nullable
  /\ \A i \in 1 .. Len(more) : i > Len(fs) => more[i].name \notin SetOfNames(fs)

(* Columns and computed values have types that tell what they are.          *)
ExactTypes ==
  /\ \A fs \in Schemas : AllExact(fs)
  /\ \A f \in NewFields : Exact(f.type)
  /\ \A result \in Results : AllExact(result.fields)
  /\ \A e \in ColumnExpressions : \A fs, row :
       IsSchema(fs) /\ AllExact(fs) /\ Rowed(fs, row) => Exact(TypeOf(ComputedOf(e, row)))

(* The two evaluators agree on the type of an expression, and the types of  *)
(* its columns tell it: so it is of references, literals and arithmetic,    *)
(* all that eval_row_expr has a value for other than NULL.                  *)
Steady ==
  \A e \in ColumnExpressions : \A fs, more, before, row :
    /\ IsSchema(fs) /\ AllExact(fs) /\ Rowed(fs, before)
    /\ IsSchema(more) /\ AllExact(more) /\ Rowed(more, row) /\ Widens(more, fs)
    => \/ IsNull(ComputedOf(e, before)) \/ IsNull(ValueOf(e, row))
       \/ TypeOf(ValueOf(e, row)) = TypeOf(ComputedOf(e, before))

(* Column i was made of expression e, on a row of a narrower schema.        *)
Sourced(e, fs, i) ==
  /\ e \in ColumnExpressions /\ fs[i].nullable = TRUE
  /\ \E narrow, row :
       /\ IsSchema(narrow) /\ AllExact(narrow) /\ Rowed(narrow, row) /\ Widens(fs, narrow)
       /\ ~ IsNull(ComputedOf(e, row)) /\ fs[i].type = TypeOf(ComputedOf(e, row))

RowsValid(fs, rs) == \A i \in 1 .. Len(rs) : Valid(fs, rs[i].vals)

LaziesSourced(fs, exprs) ==
  \A i \in 1 .. Len(fs) :
    fs[i].lazy # FALSE /\ fs[i].name \in DOMAIN exprs => Sourced(exprs[fs[i].name], fs, i)

ReadInv ==
  /\ AllExact(fields)
  /\ "rows" \notin stale => RowsValid(fields, rows) /\ LaziesSourced(fields, lazyExpr)

(* With that, what a scan makes of each row fits the schema.                *)
LEMMA ReadableIs ==
  ASSUME Steady, IndexInv, ReadInv
  PROVE  Readable
<1>1. SUFFICES ASSUME "rows" \notin stale, NEW i \in 1 .. Len(rows)
               PROVE  Valid(fields, Evaluated(rows[i]))
  BY DEF Readable
<1> DEFINE row == rows[i]
           v == Evaluated(row)
<1>2. Rowed(fields, row) /\ Len(row.vals) = Len(fields) /\ Len(fields) \in Nat /\ IsSchema(fields)
  BY <1>1, SeqParts DEF IndexInv, Shape, RowsFit, Fitting, ReadInv, RowsValid, Rowed, IsSchema
<1> HIDE DEF row
<1>3. v = [k \in 1 .. Len(row.vals) |-> v[k]]
  BY DEF Evaluated
<1>4. ASSUME NEW k \in 1 .. Len(fields)
      PROVE  Compatible(fields[k], v[k])
  <2>1. CASE fields[k].lazy /\ fields[k].name \in DOMAIN lazyExpr
    <3> DEFINE e == lazyExpr[fields[k].name]
    <3>1. v[k] = ValueOf(e, row)
      BY <1>2, <2>1 DEF Evaluated
    <3>2. fields[k].lazy # FALSE
      BY <2>1
    <3>3. Sourced(e, fields, k)
      BY <1>1, <2>1, <3>2 DEF ReadInv, LaziesSourced
    <3> HIDE DEF e, v
    <3>4. PICK narrow, before :
            /\ IsSchema(narrow) /\ AllExact(narrow) /\ Rowed(narrow, before) /\ Widens(fields, narrow)
            /\ ~ IsNull(ComputedOf(e, before)) /\ fields[k].type = TypeOf(ComputedOf(e, before))
      BY <3>3 DEF Sourced
    <3>5. e \in ColumnExpressions /\ fields[k].nullable = TRUE
      BY <3>3 DEF Sourced
    <3>6. IsNull(ValueOf(e, row)) \/ TypeOf(ValueOf(e, row)) = fields[k].type
      BY <1>2, <3>4, <3>5 DEF Steady, ReadInv
    <3> QED BY <3>1, <3>5, <3>6 DEF Compatible
  <2>2. CASE ~ (fields[k].lazy /\ fields[k].name \in DOMAIN lazyExpr)
    <3>1. v[k] = row.vals[k]
      BY <1>2, <2>2 DEF Evaluated
    <3> QED BY <1>2, <3>1 DEF Rowed, Valid
  <2> QED BY <2>1, <2>2
<1> HIDE DEF v
<1>5. Len(v) = Len(fields)
  BY <1>2, <1>3, SeqMade
<1>6. Valid(fields, v)
  BY <1>4, <1>5 DEF Valid
<1> QED BY <1>6 DEF v, row

(* Statements that leave rows, columns and lazy expressions alone.          *)
LEMMA ReadSame ==
  ASSUME ReadInv, UNCHANGED << fields, rows, lazyExpr >>, "rows" \in stale => "rows" \in stale'
  PROVE  ReadInv'
BY DEF ReadInv, RowsValid, LaziesSourced

LEMMA ReadCreate ==
  ASSUME ExactTypes, NEW fs \in Schemas, Empty(fs)
  PROVE  ReadInv'
<1>1. fields' = fs /\ rows' = << >> /\ lazyExpr' = NoFunction
  BY DEF Empty
<1>2. Len(rows') = 0 /\ DOMAIN lazyExpr' = {}
  BY <1>1, NoSeq DEF NoFunction
<1>3. 1 .. Len(rows') = {}
  BY <1>2
<1> QED BY <1>1, <1>2, <1>3 DEF ReadInv, RowsValid, LaziesSourced, ExactTypes

(* What UPDATE writes fits the column it writes to.                         *)
LEMMA ReadUpdate ==
  ASSUME IndexInv, ReadInv, Update
  PROVE  ReadInv'
<1>1. CASE Fail \/ Nothing
  BY <1>1, ReadSame DEF Fail, Nothing
<1>2. CASE ~ (Fail \/ Nothing)
  <2>1. PICK changed, cols : /\ IsSeq(changed) /\ Len(changed) = Len(rows)
                             /\ Rewrite(changed, cols, Rebuild(index, fields, changed, cols))
                             /\ \A i \in 1 .. Len(rows) : Updated(rows[i], changed[i], cols)
    BY <1>2, UpdateIs DEF IndexInv
  <2>2. rows' = changed /\ stale' = stale \ {"zones"} /\ UNCHANGED << fields, lazyExpr >>
    BY <2>1 DEF Rewrite
  <2>3. ASSUME "rows" \notin stale, NEW i \in 1 .. Len(changed) PROVE Valid(fields, changed[i].vals)
    <3>1. Valid(fields, rows[i].vals) /\ Updated(rows[i], changed[i], cols)
      BY <2>1, <2>3 DEF ReadInv, RowsValid
    <3> QED BY <3>1 DEF Updated, Valid
  <2> QED BY <2>2, <2>3 DEF ReadInv, RowsValid, LaziesSourced
<1> QED BY <1>1, <1>2

LEMMA ReadDelete ==
  ASSUME IndexInv, ReadInv, Delete
  PROVE  ReadInv'
<1>1. PICK p \in Predicates : KeepRows(Spared(p))
  BY DEF Delete
<1> DEFINE kept == Spared(p)
<1>2. IsSeq(rows)
  BY DEF IndexInv, Shape
<1>3. IsSeq(kept) /\ \A i \in 1 .. Len(kept) : \E j \in 1 .. Len(rows) : kept[i] = rows[j]
  BY <1>2, SparedIs
<1>4. Nothing \/ Rewrite(kept, DOMAIN index, Rebuild(index, fields, kept, DOMAIN index))
  BY <1>1 DEF KeepRows
<1> HIDE DEF kept
<1>5. CASE Nothing
  BY <1>5, ReadSame DEF Nothing
<1>6. CASE ~ Nothing
  <2>1. rows' = kept /\ stale' = stale \ {"zones"} /\ UNCHANGED << fields, lazyExpr >>
    BY <1>4, <1>6 DEF Rewrite
  <2>2. "rows" \notin stale => RowsValid(fields, kept)
    BY <1>3 DEF ReadInv, RowsValid
  <2> QED BY <2>1, <2>2 DEF ReadInv, LaziesSourced
<1> QED BY <1>5, <1>6

(* INSERT stores what the schema accepts.                                   *)
LEMMA ReadInsert ==
  ASSUME IndexInv, ReadInv, Insert
  PROVE  ReadInv'
<1>1. PICK literals \in [1 .. Len(fields) -> Literals] :
        LET values == [i \in 1 .. Len(fields) |-> InsertValue(fields[i], literals[i])]
        IN IF Valid(fields, values) THEN AddRow(Tuple(fields, values)) ELSE Fail
  BY DEF Insert
<1> DEFINE values == [i \in 1 .. Len(fields) |-> InsertValue(fields[i], literals[i])]
           row == Tuple(fields, values)
<1>2. CASE Fail
  BY <1>2, ReadSame DEF Fail
<1>3. CASE ~ Fail
  <2>1. Valid(fields, values) /\ AddRow(row)
    BY <1>1, <1>3
  <2>2. row.vals = values
    BY DEF Tuple
  <2> HIDE DEF values, row
  <2>3. UNCHANGED << fields, lazyExpr, stale >> /\ (rows' = rows \/ rows' = Append(rows, row))
    BY <2>1 DEF AddRow
  <2>4. CASE rows' = rows
    BY <2>3, <2>4, ReadSame
  <2>5. CASE rows' = Append(rows, row)
    <3>1. /\ Len(rows) \in Nat /\ Len(rows') = Len(rows) + 1 /\ rows'[Len(rows) + 1] = row
          /\ \A i \in 1 .. Len(rows) : rows'[i] = rows[i]
      BY <2>5, SeqAppend, SeqParts DEF IndexInv, Shape
    <3>2. 1 .. Len(rows') = (1 .. Len(rows)) \cup {Len(rows) + 1}
      BY <3>1
    <3>3. "rows" \notin stale => RowsValid(fields, rows')
      BY <2>1, <2>2, <3>1, <3>2 DEF ReadInv, RowsValid
    <3> QED BY <2>3, <3>3 DEF ReadInv, RowsValid, LaziesSourced
  <2> QED BY <2>3, <2>4, <2>5
<1> QED BY <1>2, <1>3

(* New tuples that the schema accepts.                                      *)
LEMMA RetupledValid ==
  ASSUME IndexInv, NEW fs, NEW valsOf, NEW left, NEW unread, Retuple(fs, valsOf, left, unread),
         \A i \in 1 .. Len(rows) : Valid(fs, valsOf[i])
  PROVE  RowsValid(fs, rows') /\ fields' = fs /\ ("rows" \notin stale' => "rows" \notin stale)
<1>1. /\ fields' = fs /\ rows' = [i \in 1 .. Len(rows) |-> Tuple(fs, valsOf[i])]
      /\ "rows" \notin stale' => "rows" \notin stale
  BY DEF Retuple
<1>2. rows' = [i \in 1 .. Len(rows) |-> rows'[i]] /\ \A i \in 1 .. Len(rows) : rows'[i] = Tuple(fs, valsOf[i])
  BY <1>1
<1>3. Len(rows') = Len(rows)
  <2>1. Len(rows) \in Nat
    BY SeqParts DEF IndexInv, Shape
  <2>2. PICK rs : rs = rows'
    OBVIOUS
  <2>3. rs = [i \in 1 .. Len(rows) |-> rs[i]]
    BY <1>2, <2>2
  <2> QED BY <2>1, <2>2, <2>3, SeqMade
<1>4. ASSUME NEW i \in 1 .. Len(rows') PROVE Valid(fs, rows'[i].vals)
  <2>1. Tuple(fs, valsOf[i]).vals = valsOf[i]
    BY DEF Tuple
  <2> QED BY <1>2, <1>3, <2>1
<1> QED BY <1>1, <1>4 DEF RowsValid

(* A column more keeps what the lazy ones were made of.                     *)
LEMMA WiderFields ==
  ASSUME NEW fs, IsSchema(fs), NEW f, f.name \notin SetOfNames(fs), NEW narrow, IsSchema(narrow), Widens(fs, narrow)
  PROVE  Widens(Append(fs, f), narrow)
<1> DEFINE gs == Append(fs, f)
<1>1. /\ Len(fs) \in Nat /\ Len(narrow) \in Nat /\ Len(gs) = Len(fs) + 1
      /\ gs[Len(fs) + 1] = f /\ \A i \in 1 .. Len(fs) : gs[i] = fs[i]
  BY SeqAppend, SeqParts DEF IsSchema
<1> HIDE DEF gs
<1>2. Len(narrow) <= Len(fs) /\ SetOfNames(narrow) \subseteq SetOfNames(fs)
  <2>1. \A i \in 1 .. Len(narrow) : i \in 1 .. Len(fs) /\ fs[i].name = narrow[i].name
    BY <1>1 DEF Widens
  <2> QED BY <2>1 DEF Widens, SetOfNames
<1>3. ASSUME NEW i \in 1 .. Len(narrow)
      PROVE  gs[i].name = narrow[i].name /\ gs[i].type = narrow[i].type /\ gs[i].nullable = narrow[i].nullable
  <2>1. i \in 1 .. Len(fs)
    BY <1>1, <1>2
  <2> QED BY <1>1, <2>1 DEF Widens
<1>4. ASSUME NEW i \in 1 .. Len(gs), i > Len(narrow) PROVE gs[i].name \notin SetOfNames(narrow)
  <2>1. CASE i = Len(fs) + 1
    BY <1>1, <1>2, <2>1
  <2>2. CASE i # Len(fs) + 1
    <3>1. i \in 1 .. Len(fs) /\ gs[i] = fs[i]
      BY <1>1, <2>2
    <3> QED BY <1>4, <3>1 DEF Widens
  <2> QED BY <2>1, <2>2
<1>5. Len(narrow) <= Len(gs)
  BY <1>1, <1>2
<1> QED BY <1>3, <1>4, <1>5 DEF Widens, gs

LEMMA WidensItself ==
  ASSUME NEW fs, IsSchema(fs)
  PROVE  Widens(fs, fs)
<1>1. Len(fs) \in Nat
  BY SeqParts DEF IsSchema
<1> QED BY <1>1 DEF Widens

LEMMA WiderLazies ==
  ASSUME IndexInv, ReadInv, NEW f, IsField(f), f.name \notin SetOfNames(fields), Exact(f.type),
         NEW fs, fs = Append(fields, f)
  PROVE  /\ AllExact(fs)
         /\ "rows" \notin stale =>
              \A i \in 1 .. Len(fields) :
                fs[i].lazy # FALSE /\ fs[i].name \in DOMAIN lazyExpr => Sourced(lazyExpr[fs[i].name], fs, i)
<1>1. /\ IsSchema(fields) /\ Len(fields) \in Nat /\ Len(fs) = Len(fields) + 1
      /\ fs[Len(fields) + 1] = f /\ \A i \in 1 .. Len(fields) : fs[i] = fields[i]
  BY SeqAppend, SeqParts DEF IndexInv, Shape, IsSchema
<1>2. AllExact(fs)
  <2>1. 1 .. Len(fs) = (1 .. Len(fields)) \cup {Len(fields) + 1}
    BY <1>1
  <2> QED BY <1>1, <2>1 DEF ReadInv, AllExact
<1>3. ASSUME "rows" \notin stale, NEW i \in 1 .. Len(fields), fs[i].lazy # FALSE, fs[i].name \in DOMAIN lazyExpr
      PROVE  Sourced(lazyExpr[fs[i].name], fs, i)
  <2> DEFINE e == lazyExpr[fields[i].name]
  <2>1. Sourced(e, fields, i) /\ fs[i] = fields[i]
    BY <1>1, <1>3 DEF ReadInv, LaziesSourced
  <2> HIDE DEF e
  <2>2. PICK narrow, row :
          /\ IsSchema(narrow) /\ AllExact(narrow) /\ Rowed(narrow, row) /\ Widens(fields, narrow)
          /\ ~ IsNull(ComputedOf(e, row)) /\ fields[i].type = TypeOf(ComputedOf(e, row))
    BY <2>1 DEF Sourced
  <2>3. Widens(fs, narrow)
    BY <1>1, <2>2, WiderFields
  <2>4. Sourced(e, fs, i)
    BY <2>1, <2>2, <2>3 DEF Sourced
  <2> QED BY <2>1, <2>4 DEF e
<1> QED BY <1>2, <1>3

LEMMA ReadAddColumn ==
  ASSUME ExactTypes, IndexInv, ReadInv, AddColumn
  PROVE  ReadInv'
<1>1. PICK field \in NewFields, default \in Literals :
        LET value == InsertValue(field, default)
            fs == Append(fields, field)
            wide == [i \in 1 .. Len(rows) |-> Append(rows[i].vals, value)]
        IN IF field.name \in SetOfNames(fields) \/ ~ MatchesType(value, field.type) \/ ~ AllValid(fs, wide)
           THEN Fail
           ELSE Retuple(fs, wide, {}, FALSE) /\ UNCHANGED lazyExpr
  BY DEF AddColumn
<1> DEFINE value == InsertValue(field, default)
           fs == Append(fields, field)
           wide == [i \in 1 .. Len(rows) |-> Append(rows[i].vals, value)]
<1>2. CASE Fail
  BY <1>2, ReadSame DEF Fail
<1>3. CASE ~ Fail
  <2>1. /\ field.name \notin SetOfNames(fields) /\ AllValid(fs, wide) /\ Retuple(fs, wide, {}, FALSE)
        /\ lazyExpr' = lazyExpr
    BY <1>1, <1>3
  <2>2. IsField(field) /\ field.lazy = FALSE /\ Exact(field.type)
    BY SchemasAssumption DEF ExactTypes
  <2>3. \A i \in 1 .. Len(rows) : Valid(fs, wide[i])
    BY <2>1 DEF AllValid
  <2> HIDE DEF wide, fs
  <2>4. RowsValid(fs, rows') /\ fields' = fs /\ ("rows" \notin stale' => "rows" \notin stale)
    BY <2>1, <2>3, RetupledValid
  <2>5. /\ AllExact(fs)
        /\ "rows" \notin stale =>
             \A i \in 1 .. Len(fields) :
               fs[i].lazy # FALSE /\ fs[i].name \in DOMAIN lazyExpr => Sourced(lazyExpr[fs[i].name], fs, i)
    BY <2>1, <2>2, WiderLazies DEF fs
  <2>6. "rows" \notin stale => LaziesSourced(fs, lazyExpr)
    <3>1. /\ Len(fields) \in Nat /\ Len(fs) = Len(fields) + 1 /\ fs[Len(fields) + 1] = field
      BY SeqAppend, SeqParts DEF IndexInv, Shape, IsSchema, fs
    <3>2. 1 .. Len(fs) = (1 .. Len(fields)) \cup {Len(fields) + 1}
      BY <3>1
    <3> QED BY <2>2, <2>5, <3>1, <3>2 DEF LaziesSourced
  <2> QED BY <2>1, <2>4, <2>5, <2>6 DEF ReadInv
<1> QED BY <1>2, <1>3

(* A row that fits with one column more is read with the names there are.   *)
LEMMA AsReadIs ==
  ASSUME IndexInv, NEW row, IsRow(row), NEW f, NEW x, Valid(Append(fields, f), Append(row.vals, x))
  PROVE  Rowed(fields, AsRead(row)) /\ Compatible(f, x)
<1> DEFINE fs == Append(fields, f)
           vals == Append(row.vals, x)
           n == Len(fields)
           m == Len(row.vals)
<1>1. /\ IsSeq(fields) /\ n \in Nat /\ Len(fs) = n + 1 /\ fs[n + 1] = f /\ \A i \in 1 .. n : fs[i] = fields[i]
  BY SeqAppend, SeqParts DEF IndexInv, Shape, IsSchema
<1>2. /\ IsSeq(row.vals) /\ m \in Nat /\ Len(vals) = m + 1 /\ vals[m + 1] = x
      /\ \A i \in 1 .. m : vals[i] = row.vals[i]
  BY SeqAppend, SeqParts DEF IsRow
<1> HIDE DEF fs, vals
<1>3. Len(vals) = Len(fs) /\ \A i \in 1 .. Len(fs) : Compatible(fs[i], vals[i])
  BY DEF Valid, fs, vals
<1>4. m = n
  BY <1>1, <1>2, <1>3
<1>5. Compatible(f, x) /\ \A i \in 1 .. n : Compatible(fields[i], row.vals[i])
  <2>1. 1 .. Len(fs) = (1 .. n) \cup {n + 1}
    BY <1>1
  <2> QED BY <1>1, <1>2, <1>3, <1>4, <2>1
<1>6. Valid(fields, row.vals)
  BY <1>4, <1>5 DEF Valid
<1>7. Min({n, m}) = n
  <2>1. {n, m} \in SUBSET Nat /\ {n, m} # {}
    BY <1>1, <1>2
  <2>2. Min({n, m}) \in {n, m}
    BY <2>1, MinOf
  <2> QED BY <1>4, <2>2
<1>8. SubSeq(Names(fields), 1, n) = Names(fields)
  <2> DEFINE s == Names(fields)
             t == SubSeq(s, 1, n)
  <2>1. IsSeq(s) /\ Len(s) = n
    BY <1>1, NamesIs
  <2> HIDE DEF s
  <2>2. IsSeq(t) /\ Len(t) = n - 1 + 1 /\ \A i \in 1 .. n - 1 + 1 : t[i] = s[1 + i - 1]
    <3>1. n \in Nat /\ 1 \in Nat /\ 1 <= n + 1
      BY <1>1
    <3> HIDE DEF n
    <3> QED BY ONLY <3>1, SubSeqIs
  <2> HIDE DEF t
  <2>3. Len(t) = Len(s) /\ \A i \in 1 .. Len(t) : t[i] = s[i]
    BY <1>1, <2>1, <2>2
  <2>4. t = s
    BY <2>1, <2>2, <2>3, SameSeq
  <2> QED BY <2>4 DEF s, t
<1>9. AsRead(row) = [names |-> Names(fields), vals |-> row.vals]
  <2>1. AsRead(row) = [row EXCEPT !.names = SubSeq(Names(fields), 1, Min({n, m}))]
    BY DEF AsRead
  <2>2. AsRead(row) = [row EXCEPT !.names = Names(fields)]
    BY <1>7, <1>8, <2>1
  <2>3. row = [names |-> row.names, vals |-> row.vals]
    BY DEF IsRow
  <2> QED BY <2>2, <2>3
<1>10. IsRow(AsRead(row)) /\ AsRead(row).names = Names(fields) /\ AsRead(row).vals = row.vals
  BY <1>1, <1>2, <1>9, NamesIs DEF IsRow
<1> QED BY <1>5, <1>6, <1>10 DEF Rowed

LEMMA ReadAddComputedColumn ==
  ASSUME ExactTypes, IndexInv, ReadInv, AddComputedColumn
  PROVE  ReadInv'
<1>1. PICK name \in {f.name : f \in NewFields}, e \in ColumnExpressions, lazy \in BOOLEAN :
        LET computed == [i \in 1 .. Len(rows) |-> ComputedOf(e, AsRead(rows[i]))]
            type == IF lazy /\ IsNull(computed[1]) THEN << "Float" >> ELSE TypeOf(computed[1])
            fs == Append(fields, [name |-> name, type |-> type, nullable |-> lazy, lazy |-> lazy])
            wide == [i \in 1 .. Len(rows) |-> Append(rows[i].vals, IF lazy THEN Null ELSE computed[i])]
        IN IF name \in SetOfNames(fields) \/ rows = << >> THEN Fail
           ELSE IF ~ AllValid(fs, wide) THEN Fail
           ELSE IF lazy
           THEN /\ Retuple(fs, wide, {}, IsNull(computed[1]))
                /\ lazyExpr' = With(lazyExpr, name, e)
           ELSE Retuple(fs, wide, {}, FALSE) /\ UNCHANGED lazyExpr
  BY DEF AddComputedColumn
<1> DEFINE computed == [i \in 1 .. Len(rows) |-> ComputedOf(e, AsRead(rows[i]))]
           type == IF lazy /\ IsNull(computed[1]) THEN << "Float" >> ELSE TypeOf(computed[1])
           f == [name |-> name, type |-> type, nullable |-> lazy, lazy |-> lazy]
           fs == Append(fields, f)
           wide == [i \in 1 .. Len(rows) |-> Append(rows[i].vals, IF lazy THEN Null ELSE computed[i])]
           first == AsRead(rows[1])
           unread == lazy /\ IsNull(computed[1])
<1>2. CASE Fail
  BY <1>2, ReadSame DEF Fail
<1>3. CASE ~ Fail
  <2>1. /\ name \notin SetOfNames(fields) /\ rows # << >> /\ AllValid(fs, wide)
        /\ IF lazy THEN Retuple(fs, wide, {}, IsNull(computed[1])) /\ lazyExpr' = With(lazyExpr, name, e)
           ELSE Retuple(fs, wide, {}, FALSE) /\ lazyExpr' = lazyExpr
    BY <1>1, <1>3
  <2>2. IsSchema(fields) /\ IsSeq(rows) /\ \A i \in 1 .. Len(rows) : IsRow(rows[i])
    BY DEF IndexInv, Shape
  <2>3. 1 \in 1 .. Len(rows)
    <3>1. rows \in Seq(Range(rows))
      BY <2>2 DEF IsSeq
    <3>2. Len(rows) \in Nat \ {0}
      BY <2>1, <3>1, EmptySeq
    <3> QED BY <3>2
  <2>4. Valid(fs, Append(rows[1].vals, IF lazy THEN Null ELSE computed[1]))
    BY <2>1, <2>3 DEF AllValid
  <2>5. \A i \in 1 .. Len(rows) : Valid(fs, wide[i])
    BY <2>1 DEF AllValid
  <2>6. computed[1] = ComputedOf(e, first)
    BY <2>3
  <2> HIDE DEF wide, computed, first
  <2>7. Rowed(fields, first)
    BY <2>2, <2>3, <2>4, AsReadIs DEF first
  <2>8. Exact(type)
    <3>1. Exact(TypeOf(computed[1]))
      BY <2>2, <2>6, <2>7 DEF ExactTypes, ReadInv
    <3>2. Exact(<< "Float" >>)
      <4>1. PICK t : t = << "Float" >>
        OBVIOUS
      <4>2. t # << "Vector", 0 >> /\ t[1] = "Float"
        BY <4>1
      <4> QED BY <4>1, <4>2 DEF Exact
    <3> QED BY <3>1, <3>2
  <2>9. /\ RowsValid(fs, rows') /\ fields' = fs
        /\ "rows" \notin stale' => "rows" \notin stale /\ ~ unread
    <3>1. RowsValid(fs, rows') /\ fields' = fs /\ ("rows" \notin stale' => "rows" \notin stale)
      <4> HIDE DEF fs
      <4> QED BY <2>1, <2>5, RetupledValid
    <3>2. "rows" \notin stale' => ~ unread
      BY <2>1 DEF Retuple
    <3> QED BY <3>1, <3>2
  <2> HIDE DEF type
  <2>10. f.name = name /\ f.type = type /\ f.nullable = lazy /\ f.lazy = lazy /\ IsField(f)
    BY DEF IsField
  <2> HIDE DEF f
  <2>11. /\ AllExact(fs)
         /\ "rows" \notin stale =>
              \A i \in 1 .. Len(fields) :
                fs[i].lazy # FALSE /\ fs[i].name \in DOMAIN lazyExpr => Sourced(lazyExpr[fs[i].name], fs, i)
    BY <2>1, <2>8, <2>10, WiderLazies
  <2>12. /\ Len(fields) \in Nat /\ Len(fs) = Len(fields) + 1 /\ fs[Len(fields) + 1] = f
         /\ \A i \in 1 .. Len(fields) : fs[i] = fields[i]
    BY <2>2, SeqAppend, SeqParts DEF IsSchema
  <2>13. 1 .. Len(fs) = (1 .. Len(fields)) \cup {Len(fields) + 1}
    BY <2>12
  <2>14. CASE lazy = FALSE
    <3>3. fs[Len(fields) + 1].lazy = FALSE
      BY <2>10, <2>12, <2>14
    <3>1. "rows" \notin stale' => LaziesSourced(fs, lazyExpr)
      <4> HIDE DEF fs, unread
      <4> QED BY <2>9, <2>11, <2>13, <3>3 DEF LaziesSourced
    <3> HIDE DEF fs, unread
    <3>2. lazyExpr' = lazyExpr
      BY <2>1, <2>14
    <3> QED BY <2>9, <2>11, <3>1, <3>2 DEF ReadInv
  <2>15. CASE lazy = TRUE
    <3>1. lazyExpr' = With(lazyExpr, name, e)
      BY <2>1, <2>15
    <3>2. /\ DOMAIN lazyExpr' = DOMAIN lazyExpr \cup {name} /\ lazyExpr'[name] = e
          /\ \A c \in DOMAIN lazyExpr : c # name => lazyExpr'[c] = lazyExpr[c]
      BY <3>1 DEF With
    <3>3. ASSUME "rows" \notin stale' PROVE Sourced(e, fs, Len(fields) + 1)
      <4>1. ~ IsNull(ComputedOf(e, first)) /\ type = TypeOf(ComputedOf(e, first))
        <5>1. ~ unread
          BY <2>9, <3>3
        <5>2. ~ IsNull(computed[1])
          BY <2>15, <5>1
        <5>3. type = TypeOf(computed[1])
          BY <5>2 DEF type
        <5> QED BY <2>6, <5>2, <5>3
      <4>2. Widens(fs, fields)
        BY <2>1, <2>2, <2>10, WidensItself, WiderFields
      <4>3. AllExact(fields)
        BY DEF ReadInv
      <4>4. fs[Len(fields) + 1].nullable = TRUE /\ fs[Len(fields) + 1].type = type
        BY <2>10, <2>12, <2>15
      <4> HIDE DEF fs
      <4> QED BY <2>2, <2>7, <4>1, <4>2, <4>3, <4>4 DEF Sourced
    <3>4. ASSUME "rows" \notin stale', NEW i \in 1 .. Len(fields),
                 fs[i].lazy # FALSE, fs[i].name \in DOMAIN lazyExpr'
          PROVE  Sourced(lazyExpr'[fs[i].name], fs, i)
      <4>1. fs[i].name # name
        BY <2>1, <2>12 DEF SetOfNames
      <4>2. fs[i].name \in DOMAIN lazyExpr /\ lazyExpr'[fs[i].name] = lazyExpr[fs[i].name]
        BY <3>2, <3>4, <4>1
      <4>3. "rows" \notin stale
        BY <2>9, <3>4
      <4> HIDE DEF fs
      <4> QED BY <2>11, <3>4, <4>2, <4>3
    <3>5. "rows" \notin stale' => LaziesSourced(fs, lazyExpr')
      BY <2>10, <2>12, <2>13, <3>2, <3>3, <3>4 DEF LaziesSourced
    <3> HIDE DEF fs, unread
    <3> QED BY <2>9, <2>11, <3>5 DEF ReadInv
  <2> QED BY <2>14, <2>15
<1> QED BY <1>2, <1>3

(* MATERIALIZE leaves no lazy column.                                       *)
LEMMA ReadMaterialize ==
  ASSUME IndexInv, ReadInv, Materialize
  PROVE  ReadInv'
<1> DEFINE lazies == {fields[i].name : i \in {j \in 1 .. Len(fields) : fields[j].lazy}}
           valsOf == [i \in 1 .. Len(rows) |-> Evaluated(rows[i])]
           fs == [i \in 1 .. Len(fields) |-> [fields[i] EXCEPT !.lazy = FALSE]]
           left == lazies \cap DOMAIN index
<1>1. Fail \/ Nothing \/ (AllValid(fields, valsOf) /\ Retuple(fs, valsOf, left, FALSE))
  BY DEF Materialize
<1>2. CASE Fail \/ Nothing
  BY <1>2, ReadSame DEF Fail, Nothing
<1>3. CASE AllValid(fields, valsOf) /\ Retuple(fs, valsOf, left, FALSE)
  <2>1. Len(fields) \in Nat /\ \A i \in 1 .. Len(fields) : IsField(fields[i])
    BY SeqParts DEF IndexInv, Shape, IsSchema
  <2>2. fs = [i \in 1 .. Len(fields) |-> fs[i]] /\ \A i \in 1 .. Len(fields) : fs[i] = [fields[i] EXCEPT !.lazy = FALSE]
    OBVIOUS
  <2> HIDE DEF fs, valsOf, left
  <2>3. Len(fs) = Len(fields)
    BY <2>1, <2>2, SeqMade
  <2>4. \A i \in 1 .. Len(fields) : /\ fs[i].lazy = FALSE
                                    /\ fs[i].type = fields[i].type /\ fs[i].nullable = fields[i].nullable
    BY <2>1, <2>2 DEF IsField
  <2>5. ASSUME NEW i \in 1 .. Len(rows) PROVE Valid(fs, valsOf[i])
    <3>1. Valid(fields, valsOf[i])
      BY <1>3 DEF AllValid
    <3> QED BY <2>3, <2>4, <3>1 DEF Valid, Compatible
  <2>6. RowsValid(fs, rows') /\ fields' = fs
    BY <1>3, <2>5, RetupledValid
  <2>7. AllExact(fs) /\ \A exprs : LaziesSourced(fs, exprs)
    BY <2>3, <2>4 DEF ReadInv, AllExact, LaziesSourced
  <2> QED BY <2>6, <2>7 DEF ReadInv
<1> QED BY <1>1, <1>2, <1>3

(* What a query's result leaves to be read has no expressions.              *)
LEMMA ReadReplace ==
  ASSUME ExactTypes, NEW fs, AllExact(fs), NEW result \in Results, Replace(fs, result)
  PROVE  ReadInv'
<1> DEFINE rs == [i \in 1 .. Len(result.rows) |-> Tuple(result.fields, result.rows[i])]
<1>1. fields' = fs /\ rows' = rs /\ lazyExpr' = lazyExpr
  BY DEF Replace
<1>2. "rows" \notin stale' =>
        /\ \A i \in 1 .. Len(result.rows) : Valid(fs, result.rows[i])
        /\ \A i \in 1 .. Len(fs) : fs[i].name \notin DOMAIN lazyExpr
  BY DEF Replace
<1>3. /\ rs = [i \in 1 .. Len(result.rows) |-> rs[i]] /\ Len(result.rows) \in Nat
      /\ \A i \in 1 .. Len(result.rows) : rs[i].vals = result.rows[i]
  BY ResultsAssumption, SeqParts DEF Tuple
<1> HIDE DEF rs
<1>4. Len(rs) = Len(result.rows)
  BY <1>3, SeqMade
<1>5. "rows" \notin stale' => RowsValid(fs, rs) /\ LaziesSourced(fs, lazyExpr)
  BY <1>2, <1>3, <1>4 DEF RowsValid, LaziesSourced
<1> QED BY <1>1, <1>5 DEF ReadInv

LEMMA ReadStep ==
  ASSUME ExactTypes, IndexInv, ReadInv, [Next]_vars
  PROVE  ReadInv'
<1>1. CASE Fail \/ Nothing \/ UNCHANGED vars
  BY <1>1, ReadSame DEF Fail, Nothing, vars
<1>2. CASE Create
  BY <1>1, <1>2, ReadCreate DEF Create
<1>3. CASE Drop
  <2>1. CASE Fail
    BY <1>1, <2>1
  <2>2. CASE ~ Fail
    <3>1. fields' = << >> /\ rows' = << >>
      BY <1>3, <2>2 DEF Drop
    <3>2. Len(fields') = 0 /\ Len(rows') = 0
      BY <3>1, NoSeq
    <3>3. 1 .. Len(fields') = {} /\ 1 .. Len(rows') = {}
      BY <3>2
    <3> QED BY <3>3 DEF ReadInv, AllExact, RowsValid, LaziesSourced
  <2> QED BY <2>1, <2>2
<1>4. CASE Insert
  BY <1>4, ReadInsert
<1>5. CASE Update \/ Delete
  BY <1>5, ReadUpdate, ReadDelete
<1>6. CASE CreateIndex
  BY <1>1, <1>6, ReadSame DEF CreateIndex
<1>7. CASE AddColumn \/ AddComputedColumn
  BY <1>7, ReadAddColumn, ReadAddComputedColumn
<1>8. CASE Materialize
  BY <1>8, ReadMaterialize
<1>9. CASE Transform \/ ApplyInto
  <2>1. \E result \in Results : \E fs : AllExact(fs) /\ Replace(fs, result)
    BY <1>9 DEF Transform, ApplyInto, ExactTypes, ReadInv
  <2> QED BY <2>1, ReadReplace
<1> QED BY <1>1, <1>2, <1>3, <1>4, <1>5, <1>6, <1>7, <1>8, <1>9 DEF Next

(***************************************************************************)
(* Every row can be read, unless a query's result replaced the rows under  *)
(* another schema: lazy columns, evaluated on rows and beside columns that *)
(* came after them, keep the type they were given.                         *)
(***************************************************************************)
THEOREM RowsStayReadable == ExactTypes /\ Steady => (Spec => []Readable)
<1> SUFFICES ASSUME ExactTypes, Steady PROVE Spec => []Readable
  OBVIOUS
<1>1. Init => IndexInv /\ ReadInv
  <2>1. SUFFICES ASSUME Init PROVE ReadInv
    BY IndexInvInit
  <2>2. Len(fields) = 0 /\ Len(rows) = 0
    BY <2>1, NoSeq DEF Init
  <2>3. 1 .. Len(fields) = {} /\ 1 .. Len(rows) = {}
    BY <2>2
  <2> QED BY <2>3 DEF ReadInv, AllExact, RowsValid, LaziesSourced
<1>2. IndexInv /\ ReadInv /\ [Next]_vars => IndexInv' /\ ReadInv'
  BY IndexInvStep, ReadStep
<1>3. IndexInv /\ ReadInv => Readable
  BY ReadableIs
<1> QED BY <1>1, <1>2, <1>3, PTL DEF Spec

-----------------------------------------------------------------------------
(* Values. What a row holds is what a literal, a query's result or an       *)
(* expression on a row is worth: data of the kind they say, and of the type *)
(* of their column unless a query's result replaced the rows.               *)

ProperRow(row) ==
  IsRow(row) /\ Len(row.names) <= Len(row.vals) /\ \A k \in 1 .. Len(row.vals) : Proper(row.vals[k])

(* Expressions have such values on such rows.                               *)
Evaluating == \A row : ProperRow(row) => EvaluatesWell(row)

ValuesInv ==
  /\ \A i \in 1 .. Len(rows) : ProperRow(rows[i])
  /\ \A c \in DOMAIN lazyExpr : lazyExpr[c] \in ColumnExpressions
  /\ "rows" \notin stale => RowsValid(fields, rows)

LEMMA ValuesSame ==
  ASSUME ValuesInv, UNCHANGED << fields, rows, lazyExpr >>, "rows" \in stale => "rows" \in stale'
  PROVE  ValuesInv'
BY DEF ValuesInv, RowsValid

LEMMA CoerceProper ==
  ASSUME NEW field, NEW v, Proper(v)
  PROVE  Proper(Coerce(field, v))
<1>1. CASE IsNumber(v) /\ field.type \in {<< "Int" >>, << "Float" >>, << "Double" >>}
  <2>1. Coerce(field, v) = << field.type[1], Datum(v) >> /\ Datum(v) \in Int
    BY <1>1 DEF Coerce, Proper
  <2>2. field.type[1] \in {"Int", "Float", "Double"}
    BY <1>1
  <2> QED BY <2>1, <2>2 DEF Proper, IsNumber, Kind, Datum
<1>2. CASE ~ (IsNumber(v) /\ field.type \in {<< "Int" >>, << "Float" >>, << "Double" >>})
  BY <1>2 DEF Coerce
<1> QED BY <1>1, <1>2

LEMMA InsertProper ==
  ASSUME NEW field, NEW literal \in Literals
  PROVE  Proper(InsertValue(field, literal))
<1>1. CASE Kind(literal) = "Scalar"
  <2>1. PICK t : t = IF field.type[1] \in {"Int", "Double"} THEN field.type[1] ELSE "Float"
    OBVIOUS
  <2>2. InsertValue(field, literal) = << t, Datum(literal) >> /\ Datum(literal) \in Int
    BY <1>1, <2>1, LiteralsAssumption DEF InsertValue
  <2>3. t \in {"Int", "Double", "Float"}
    BY <2>1
  <2> QED BY <2>2, <2>3 DEF Proper, IsNumber, Kind, Datum
<1>2. CASE Kind(literal) # "Scalar"
  BY <1>2, LiteralsAssumption DEF InsertValue
<1> QED BY <1>1, <1>2

(* A tuple of such values is such a row.                                    *)
LEMMA TupleProper ==
  ASSUME NEW fs, IsSeq(fs), NEW vals, IsSeq(vals), Len(vals) = Len(fs), \A k \in 1 .. Len(vals) : Proper(vals[k])
  PROVE  ProperRow(Tuple(fs, vals))
<1>1. /\ IsRow(Tuple(fs, vals)) /\ Tuple(fs, vals).names = Names(fs) /\ Tuple(fs, vals).vals = vals
      /\ Len(Names(fs)) = Len(fs) /\ Len(fs) \in Nat
  BY TupleIs, NamesIs, SeqParts
<1> QED BY <1>1 DEF ProperRow

(* And so are the values with one more.                                     *)
LEMMA AppendProper ==
  ASSUME NEW row, ProperRow(row), NEW x, Proper(x), NEW vals, vals = Append(row.vals, x)
  PROVE  IsSeq(vals) /\ \A k \in 1 .. Len(vals) : Proper(vals[k])
<1>1. IsSeq(row.vals) /\ Len(row.vals) \in Nat /\ \A k \in 1 .. Len(row.vals) : Proper(row.vals[k])
  BY SeqParts DEF ProperRow, IsRow
<1>2. /\ IsSeq(vals) /\ Len(vals) = Len(row.vals) + 1 /\ vals[Len(row.vals) + 1] = x
      /\ \A k \in 1 .. Len(row.vals) : vals[k] = row.vals[k]
  BY <1>1, SeqAppend
<1>3. 1 .. Len(vals) = (1 .. Len(row.vals)) \cup {Len(row.vals) + 1}
  BY <1>1, <1>2
<1> QED BY <1>1, <1>2, <1>3

LEMMA ValuesCreate ==
  ASSUME NEW fs \in Schemas, Empty(fs)
  PROVE  ValuesInv'
<1>1. rows' = << >> /\ lazyExpr' = NoFunction
  BY DEF Empty
<1>2. Len(rows') = 0 /\ DOMAIN lazyExpr' = {}
  BY <1>1, NoSeq DEF NoFunction
<1>3. 1 .. Len(rows') = {}
  BY <1>2
<1> QED BY <1>1, <1>2, <1>3 DEF ValuesInv, RowsValid

LEMMA ValuesUpdate ==
  ASSUME Evaluating, IndexInv, ValuesInv, Update
  PROVE  ValuesInv'
<1>1. CASE Fail \/ Nothing
  BY <1>1, ValuesSame DEF Fail, Nothing
<1>2. CASE ~ (Fail \/ Nothing)
  <2>1. PICK changed, cols : /\ IsSeq(changed) /\ Len(changed) = Len(rows)
                             /\ Rewrite(changed, cols, Rebuild(index, fields, changed, cols))
                             /\ \A i \in 1 .. Len(rows) : Updated(rows[i], changed[i], cols)
    BY <1>2, UpdateIs DEF IndexInv
  <2>2. rows' = changed /\ stale' = stale \ {"zones"} /\ UNCHANGED << fields, lazyExpr >>
    BY <2>1 DEF Rewrite
  <2>3. ASSUME "rows" \notin stale, NEW i \in 1 .. Len(changed) PROVE Valid(fields, changed[i].vals)
    <3>1. Valid(fields, rows[i].vals) /\ Updated(rows[i], changed[i], cols)
      BY <2>1, <2>3 DEF ValuesInv, RowsValid
    <3> QED BY <3>1 DEF Updated, Valid
  <2>4. ASSUME NEW i \in 1 .. Len(changed) PROVE ProperRow(changed[i])
    <3>1. ProperRow(rows[i]) /\ Updated(rows[i], changed[i], cols)
      BY <2>1, <2>4 DEF ValuesInv
    <3>2. /\ IsRow(changed[i]) /\ changed[i].names = rows[i].names
          /\ Len(changed[i].vals) = Len(rows[i].vals)
      BY <3>1 DEF Updated
    <3>3. ASSUME NEW k \in 1 .. Len(rows[i].vals) PROVE Proper(changed[i].vals[k])
      <4>1. CASE changed[i].vals[k] = rows[i].vals[k]
        BY <3>1, <4>1 DEF ProperRow
      <4>2. CASE Written(rows[i], fields[k], changed[i].vals[k])
        <5>1. PICK assignments \in Assignments : \E j \in 1 .. Len(assignments) :
                changed[i].vals[k] = Coerce(fields[k], ValueOf(assignments[j][2], rows[i]))
          BY <4>2 DEF Written
        <5>2. PICK j \in 1 .. Len(assignments) :
                changed[i].vals[k] = Coerce(fields[k], ValueOf(assignments[j][2], rows[i]))
          BY <5>1
        <5>3. Proper(ValueOf(assignments[j][2], rows[i]))
          BY <3>1 DEF Evaluating, EvaluatesWell
        <5> QED BY <5>2, <5>3, CoerceProper
      <4> QED BY <3>1, <4>1, <4>2 DEF Updated
    <3> QED BY <3>1, <3>2, <3>3 DEF ProperRow
  <2> QED BY <2>2, <2>3, <2>4 DEF ValuesInv, RowsValid
<1> QED BY <1>1, <1>2

LEMMA ValuesDelete ==
  ASSUME IndexInv, ValuesInv, Delete
  PROVE  ValuesInv'
<1>1. PICK p \in Predicates : KeepRows(Spared(p))
  BY DEF Delete
<1> DEFINE kept == Spared(p)
<1>2. IsSeq(rows)
  BY DEF IndexInv, Shape
<1>3. IsSeq(kept) /\ \A i \in 1 .. Len(kept) : \E j \in 1 .. Len(rows) : kept[i] = rows[j]
  BY <1>2, SparedIs
<1>4. Nothing \/ Rewrite(kept, DOMAIN index, Rebuild(index, fields, kept, DOMAIN index))
  BY <1>1 DEF KeepRows
<1> HIDE DEF kept
<1>5. CASE Nothing
  BY <1>5, ValuesSame DEF Nothing
<1>6. CASE ~ Nothing
  <2>1. rows' = kept /\ stale' = stale \ {"zones"} /\ UNCHANGED << fields, lazyExpr >>
    BY <1>4, <1>6 DEF Rewrite
  <2>2. "rows" \notin stale => RowsValid(fields, kept)
    BY <1>3 DEF ValuesInv, RowsValid
  <2>3. \A i \in 1 .. Len(kept) : ProperRow(kept[i])
    BY <1>3 DEF ValuesInv
  <2> QED BY <2>1, <2>2, <2>3 DEF ValuesInv
<1> QED BY <1>5, <1>6

LEMMA ValuesInsert ==
  ASSUME IndexInv, ValuesInv, Insert
  PROVE  ValuesInv'
<1>1. PICK literals \in [1 .. Len(fields) -> Literals] :
        LET values == [i \in 1 .. Len(fields) |-> InsertValue(fields[i], literals[i])]
        IN IF Valid(fields, values) THEN AddRow(Tuple(fields, values)) ELSE Fail
  BY DEF Insert
<1> DEFINE values == [i \in 1 .. Len(fields) |-> InsertValue(fields[i], literals[i])]
           row == Tuple(fields, values)
<1>2. CASE Fail
  BY <1>2, ValuesSame DEF Fail
<1>3. CASE ~ Fail
  <2>1. Valid(fields, values) /\ AddRow(row)
    BY <1>1, <1>3
  <2>2. row.vals = values
    BY DEF Tuple
  <2>6. Len(fields) \in Nat /\ IsSeq(fields)
    BY SeqParts DEF IndexInv, Shape, IsSchema
  <2>7. \A i \in 1 .. Len(fields) : Proper(values[i])
    BY InsertProper
  <2>8. values = [i \in 1 .. Len(fields) |-> values[i]]
    OBVIOUS
  <2> HIDE DEF values, row
  <2>9. IsSeq(values) /\ Len(values) = Len(fields)
    BY <2>6, <2>8, SeqMade
  <2>10. ProperRow(row)
    BY <2>6, <2>7, <2>9, TupleProper DEF row
  <2>3. UNCHANGED << fields, lazyExpr, stale >> /\ (rows' = rows \/ rows' = Append(rows, row))
    BY <2>1 DEF AddRow
  <2>4. CASE rows' = rows
    BY <2>3, <2>4, ValuesSame
  <2>5. CASE rows' = Append(rows, row)
    <3>1. /\ Len(rows) \in Nat /\ Len(rows') = Len(rows) + 1 /\ rows'[Len(rows) + 1] = row
          /\ \A i \in 1 .. Len(rows) : rows'[i] = rows[i]
      BY <2>5, SeqAppend, SeqParts DEF IndexInv, Shape
    <3>2. 1 .. Len(rows') = (1 .. Len(rows)) \cup {Len(rows) + 1}
      BY <3>1
    <3>3. "rows" \notin stale => RowsValid(fields, rows')
      BY <2>1, <2>2, <3>1, <3>2 DEF ValuesInv, RowsValid
    <3>4. \A i \in 1 .. Len(rows') : ProperRow(rows'[i])
      BY <2>10, <3>1, <3>2 DEF ValuesInv
    <3> QED BY <2>3, <3>3, <3>4 DEF ValuesInv
  <2> QED BY <2>3, <2>4, <2>5
<1> QED BY <1>2, <1>3

(* New tuples, made of such values.                                         *)
LEMMA ValuesRetuple ==
  ASSUME IndexInv, ValuesInv, NEW fs, IsSeq(fs), NEW valsOf, NEW left, NEW unread,
         Retuple(fs, valsOf, left, unread),
         \A i \in 1 .. Len(rows) : /\ Valid(fs, valsOf[i]) /\ IsSeq(valsOf[i])
                                   /\ \A k \in 1 .. Len(valsOf[i]) : Proper(valsOf[i][k]),
         \A c \in DOMAIN lazyExpr' : lazyExpr'[c] \in ColumnExpressions
  PROVE  ValuesInv'
<1>1. RowsValid(fs, rows') /\ fields' = fs
  BY RetupledValid
<1>2. rows' = [i \in 1 .. Len(rows) |-> Tuple(fs, valsOf[i])]
  BY DEF Retuple
<1>3. PICK rs : rs = [i \in 1 .. Len(rows) |-> Tuple(fs, valsOf[i])]
  OBVIOUS
<1>4. rs = [i \in 1 .. Len(rows) |-> rs[i]] /\ Len(rows) \in Nat
      /\ \A i \in 1 .. Len(rows) : rs[i] = Tuple(fs, valsOf[i])
  BY <1>3, SeqParts DEF IndexInv, Shape
<1>5. Len(rs) = Len(rows)
  BY <1>4, SeqMade
<1>6. ASSUME NEW i \in 1 .. Len(rs) PROVE ProperRow(rs[i])
  <2>1. i \in 1 .. Len(rows) /\ rs[i] = Tuple(fs, valsOf[i])
    BY <1>4, <1>5
  <2>2. Len(valsOf[i]) = Len(fs)
    BY <2>1 DEF Valid
  <2> QED BY <2>1, <2>2, TupleProper
<1> QED BY <1>1, <1>2, <1>3, <1>6 DEF ValuesInv

LEMMA ValuesAddColumn ==
  ASSUME IndexInv, ValuesInv, AddColumn
  PROVE  ValuesInv'
<1>1. PICK field \in NewFields, default \in Literals :
        LET value == InsertValue(field, default)
            fs == Append(fields, field)
            wide == [i \in 1 .. Len(rows) |-> Append(rows[i].vals, value)]
        IN IF field.name \in SetOfNames(fields) \/ ~ MatchesType(value, field.type) \/ ~ AllValid(fs, wide)
           THEN Fail
           ELSE Retuple(fs, wide, {}, FALSE) /\ UNCHANGED lazyExpr
  BY DEF AddColumn
<1> DEFINE value == InsertValue(field, default)
           fs == Append(fields, field)
           wide == [i \in 1 .. Len(rows) |-> Append(rows[i].vals, value)]
<1>2. CASE Fail
  BY <1>2, ValuesSame DEF Fail
<1>3. CASE ~ Fail
  <2>1. AllValid(fs, wide) /\ Retuple(fs, wide, {}, FALSE) /\ lazyExpr' = lazyExpr
    BY <1>1, <1>3
  <2>2. IsSeq(fs)
    BY SeqAppend DEF IndexInv, Shape, IsSchema
  <2>3. Proper(value)
    BY InsertProper
  <2> HIDE DEF value, fs
  <2>4. ASSUME NEW i \in 1 .. Len(rows)
        PROVE  Valid(fs, wide[i]) /\ IsSeq(wide[i]) /\ \A k \in 1 .. Len(wide[i]) : Proper(wide[i][k])
    <3>1. wide[i] = Append(rows[i].vals, value) /\ Valid(fs, wide[i])
      BY <2>1 DEF AllValid
    <3>2. ProperRow(rows[i])
      BY DEF ValuesInv
    <3> QED BY <2>3, <3>1, <3>2, AppendProper
  <2>5. \A c \in DOMAIN lazyExpr' : lazyExpr'[c] \in ColumnExpressions
    BY <2>1 DEF ValuesInv
  <2> HIDE DEF wide
  <2> QED BY <2>1, <2>2, <2>4, <2>5, ValuesRetuple
<1> QED BY <1>2, <1>3

(* A row read with the names there are.                                     *)
LEMMA AsReadProper ==
  ASSUME IndexInv, NEW row, ProperRow(row)
  PROVE  ProperRow(AsRead(row))
<1> DEFINE m == Min({Len(fields), Len(row.vals)})
<1>1. IsRow(row) /\ Len(row.vals) \in Nat /\ Len(fields) \in Nat
  BY SeqParts DEF ProperRow, IsRow, IndexInv, Shape, IsSchema
<1>2. m \in Nat /\ m <= Len(row.vals)
  <2>1. {Len(fields), Len(row.vals)} \in SUBSET Nat /\ {Len(fields), Len(row.vals)} # {}
    BY <1>1
  <2> QED BY <2>1, MinOf
<1> HIDE DEF m
<1> DEFINE s == SubSeq(Names(fields), 1, m)
<1>3. IsSeq(s) /\ Len(s) = m - 1 + 1
  BY <1>2, SubSeqIs
<1> HIDE DEF s
<1>4. AsRead(row) = [names |-> s, vals |-> row.vals]
  <2>1. AsRead(row) = [row EXCEPT !.names = s]
    BY DEF AsRead, s, m
  <2>2. row = [names |-> row.names, vals |-> row.vals]
    BY <1>1 DEF IsRow
  <2> QED BY <2>1, <2>2
<1>5. IsRow(AsRead(row)) /\ AsRead(row).names = s /\ AsRead(row).vals = row.vals
  BY <1>1, <1>3, <1>4 DEF IsRow
<1> QED BY <1>2, <1>3, <1>5 DEF ProperRow

LEMMA ValuesAddComputedColumn ==
  ASSUME Evaluating, IndexInv, ValuesInv, AddComputedColumn
  PROVE  ValuesInv'
<1>1. PICK name \in {f.name : f \in NewFields}, e \in ColumnExpressions, lazy \in BOOLEAN :
        LET computed == [i \in 1 .. Len(rows) |-> ComputedOf(e, AsRead(rows[i]))]
            type == IF lazy /\ IsNull(computed[1]) THEN << "Float" >> ELSE TypeOf(computed[1])
            fs == Append(fields, [name |-> name, type |-> type, nullable |-> lazy, lazy |-> lazy])
            wide == [i \in 1 .. Len(rows) |-> Append(rows[i].vals, IF lazy THEN Null ELSE computed[i])]
        IN IF name \in SetOfNames(fields) \/ rows = << >> THEN Fail
           ELSE IF ~ AllValid(fs, wide) THEN Fail
           ELSE IF lazy
           THEN /\ Retuple(fs, wide, {}, IsNull(computed[1]))
                /\ lazyExpr' = With(lazyExpr, name, e)
           ELSE Retuple(fs, wide, {}, FALSE) /\ UNCHANGED lazyExpr
  BY DEF AddComputedColumn
<1> DEFINE computed == [i \in 1 .. Len(rows) |-> ComputedOf(e, AsRead(rows[i]))]
           type == IF lazy /\ IsNull(computed[1]) THEN << "Float" >> ELSE TypeOf(computed[1])
           f == [name |-> name, type |-> type, nullable |-> lazy, lazy |-> lazy]
           fs == Append(fields, f)
           wide == [i \in 1 .. Len(rows) |-> Append(rows[i].vals, IF lazy THEN Null ELSE computed[i])]
<1>2. CASE Fail
  BY <1>2, ValuesSame DEF Fail
<1>3. CASE ~ Fail
  <2>1. /\ AllValid(fs, wide) /\ \E unread : Retuple(fs, wide, {}, unread)
        /\ lazyExpr' = With(lazyExpr, name, e) \/ lazyExpr' = lazyExpr
    BY <1>1, <1>3
  <2>2. IsSeq(fs)
    BY SeqAppend DEF IndexInv, Shape, IsSchema
  <2> HIDE DEF fs
  <2>3. ASSUME NEW i \in 1 .. Len(rows)
        PROVE  Valid(fs, wide[i]) /\ IsSeq(wide[i]) /\ \A k \in 1 .. Len(wide[i]) : Proper(wide[i][k])
    <3>1. PICK x : x = IF lazy THEN Null ELSE computed[i]
      OBVIOUS
    <3>2. wide[i] = Append(rows[i].vals, x) /\ Valid(fs, wide[i])
      BY <2>1, <3>1 DEF AllValid
    <3>3. ProperRow(rows[i])
      BY DEF ValuesInv
    <3>4. Proper(Null)
      BY DEF Proper, Null, Kind, IsNumber
    <3>5. computed[i] = ComputedOf(e, AsRead(rows[i]))
      OBVIOUS
    <3>6. Proper(x)
      BY <3>1, <3>3, <3>4, <3>5, AsReadProper DEF Evaluating, EvaluatesWell
    <3> HIDE DEF wide, computed
    <3> QED BY <3>2, <3>3, <3>6, AppendProper
  <2>4. \A c \in DOMAIN lazyExpr' : lazyExpr'[c] \in ColumnExpressions
    BY <2>1 DEF ValuesInv, With
  <2> HIDE DEF wide
  <2> QED BY <2>1, <2>2, <2>3, <2>4, ValuesRetuple
<1> QED BY <1>2, <1>3

(* A row with its lazy columns evaluated.                                   *)
LEMMA EvaluatedProper ==
  ASSUME Evaluating, ValuesInv, NEW row, ProperRow(row)
  PROVE  /\ IsSeq(Evaluated(row)) /\ Len(Evaluated(row)) = Len(row.vals)
         /\ \A k \in 1 .. Len(row.vals) : Proper(Evaluated(row)[k])
<1> DEFINE v == Evaluated(row)
<1>1. v = [k \in 1 .. Len(row.vals) |-> v[k]] /\ Len(row.vals) \in Nat
  BY SeqParts DEF Evaluated, ProperRow, IsRow
<1>2. ASSUME NEW k \in 1 .. Len(row.vals) PROVE Proper(v[k])
  <2>1. CASE k <= Len(fields) /\ fields[k].lazy /\ fields[k].name \in DOMAIN lazyExpr
    <3>1. v[k] = ValueOf(lazyExpr[fields[k].name], row)
      BY <2>1 DEF Evaluated
    <3>2. lazyExpr[fields[k].name] \in ColumnExpressions
      BY <2>1 DEF ValuesInv
    <3> QED BY <3>1, <3>2 DEF Evaluating, EvaluatesWell
  <2>2. CASE ~ (k <= Len(fields) /\ fields[k].lazy /\ fields[k].name \in DOMAIN lazyExpr)
    <3>1. v[k] = row.vals[k]
      BY <2>2 DEF Evaluated
    <3> QED BY <3>1 DEF ProperRow
  <2> QED BY <2>1, <2>2
<1> HIDE DEF v
<1>3. IsSeq(v) /\ Len(v) = Len(row.vals)
  BY <1>1, SeqMade
<1> QED BY <1>2, <1>3 DEF v

LEMMA ValuesMaterialize ==
  ASSUME Evaluating, IndexInv, ValuesInv, Materialize
  PROVE  ValuesInv'
<1> DEFINE lazies == {fields[i].name : i \in {j \in 1 .. Len(fields) : fields[j].lazy}}
           valsOf == [i \in 1 .. Len(rows) |-> Evaluated(rows[i])]
           fs == [i \in 1 .. Len(fields) |-> [fields[i] EXCEPT !.lazy = FALSE]]
           left == lazies \cap DOMAIN index
<1>1. Fail \/ Nothing \/ /\ AllValid(fields, valsOf) /\ Retuple(fs, valsOf, left, FALSE)
                         /\ lazyExpr' = [c \in DOMAIN lazyExpr \ lazies |-> lazyExpr[c]]
  BY DEF Materialize
<1>2. CASE Fail \/ Nothing
  BY <1>2, ValuesSame DEF Fail, Nothing
<1>3. CASE /\ AllValid(fields, valsOf) /\ Retuple(fs, valsOf, left, FALSE)
           /\ lazyExpr' = [c \in DOMAIN lazyExpr \ lazies |-> lazyExpr[c]]
  <2>1. Len(fields) \in Nat /\ \A i \in 1 .. Len(fields) : IsField(fields[i])
    BY SeqParts DEF IndexInv, Shape, IsSchema
  <2>2. fs = [i \in 1 .. Len(fields) |-> fs[i]] /\ \A i \in 1 .. Len(fields) : fs[i] = [fields[i] EXCEPT !.lazy = FALSE]
    OBVIOUS
  <2>8. \A c \in DOMAIN lazyExpr' : lazyExpr'[c] \in ColumnExpressions
    BY <1>3 DEF ValuesInv
  <2>9. \A i \in 1 .. Len(rows) : valsOf[i] = Evaluated(rows[i])
    OBVIOUS
  <2> HIDE DEF fs, valsOf, left, lazies
  <2>3. Len(fs) = Len(fields) /\ IsSeq(fs)
    BY <2>1, <2>2, SeqMade
  <2>4. \A i \in 1 .. Len(fields) : fs[i].type = fields[i].type /\ fs[i].nullable = fields[i].nullable
    BY <2>1, <2>2 DEF IsField
  <2>5. ASSUME NEW i \in 1 .. Len(rows)
        PROVE  Valid(fs, valsOf[i]) /\ IsSeq(valsOf[i]) /\ \A k \in 1 .. Len(valsOf[i]) : Proper(valsOf[i][k])
    <3>1. Valid(fields, valsOf[i])
      BY <1>3 DEF AllValid
    <3>2. Valid(fs, valsOf[i])
      BY <2>3, <2>4, <3>1 DEF Valid, Compatible
    <3>3. ProperRow(rows[i]) /\ valsOf[i] = Evaluated(rows[i])
      BY <2>9 DEF ValuesInv
    <3>4. IsSeq(valsOf[i]) /\ \A k \in 1 .. Len(valsOf[i]) : Proper(valsOf[i][k])
      BY <3>3, EvaluatedProper
    <3> QED BY <3>2, <3>4
  <2> QED BY <1>3, <2>3, <2>5, <2>8, ValuesRetuple
<1> QED BY <1>1, <1>2, <1>3

LEMMA ValuesReplace ==
  ASSUME ValuesInv, NEW fs, NEW result \in Results, Replace(fs, result)
  PROVE  ValuesInv'
<1> DEFINE rs == [i \in 1 .. Len(result.rows) |-> Tuple(result.fields, result.rows[i])]
<1>1. fields' = fs /\ rows' = rs /\ lazyExpr' = lazyExpr
  BY DEF Replace
<1>2. "rows" \notin stale' => \A i \in 1 .. Len(result.rows) : Valid(fs, result.rows[i])
  BY DEF Replace
<1>3. /\ rs = [i \in 1 .. Len(result.rows) |-> rs[i]] /\ Len(result.rows) \in Nat
      /\ \A i \in 1 .. Len(result.rows) : rs[i] = Tuple(result.fields, result.rows[i])
  BY ResultsAssumption, SeqParts
<1> HIDE DEF rs
<1>4. Len(rs) = Len(result.rows)
  BY <1>3, SeqMade
<1>5. "rows" \notin stale' => RowsValid(fs, rs)
  <2>1. ASSUME NEW i \in 1 .. Len(result.rows) PROVE rs[i].vals = result.rows[i]
    <3>1. Tuple(result.fields, result.rows[i]).vals = result.rows[i]
      BY DEF Tuple
    <3> QED BY <1>3, <3>1
  <2> QED BY <1>2, <1>4, <2>1 DEF RowsValid
<1>6. ASSUME NEW i \in 1 .. Len(rs) PROVE ProperRow(rs[i])
  <2>1. i \in 1 .. Len(result.rows) /\ rs[i] = Tuple(result.fields, result.rows[i])
    BY <1>3, <1>4
  <2>2. IsSeq(result.fields) /\ IsSeq(result.rows[i])
    BY <2>1, ResultsAssumption DEF IsSchema
  <2>3. Len(result.rows[i]) = Len(result.fields) /\ \A k \in 1 .. Len(result.rows[i]) : Proper(result.rows[i][k])
    BY <2>1, ResultRowsAssumption
  <2> QED BY <2>1, <2>2, <2>3, TupleProper
<1> QED BY <1>1, <1>5, <1>6 DEF ValuesInv

LEMMA ValuesInvInit ==
  ASSUME Init
  PROVE  ValuesInv
<1>1. Len(rows) = 0 /\ DOMAIN lazyExpr = {}
  BY NoSeq DEF Init, NoFunction
<1>2. 1 .. Len(rows) = {}
  BY <1>1
<1> QED BY <1>1, <1>2 DEF ValuesInv, RowsValid

LEMMA ValuesStep ==
  ASSUME Evaluating, IndexInv, ValuesInv, [Next]_vars
  PROVE  ValuesInv'
<1>1. CASE Fail \/ Nothing \/ UNCHANGED vars
  BY <1>1, ValuesSame DEF Fail, Nothing, vars
<1>2. CASE Create
  BY <1>1, <1>2, ValuesCreate DEF Create
<1>3. CASE Drop
  <2>1. CASE Fail
    BY <1>1, <2>1
  <2>2. CASE ~ Fail
    <3>1. rows' = << >> /\ lazyExpr' = NoFunction
      BY <1>3, <2>2 DEF Drop
    <3>2. Len(rows') = 0 /\ DOMAIN lazyExpr' = {}
      BY <3>1, NoSeq DEF NoFunction
    <3>3. 1 .. Len(rows') = {}
      BY <3>2
    <3> QED BY <3>2, <3>3 DEF ValuesInv, RowsValid
  <2> QED BY <2>1, <2>2
<1>4. CASE Insert
  BY <1>4, ValuesInsert
<1>5. CASE Update \/ Delete
  BY <1>5, ValuesUpdate, ValuesDelete
<1>6. CASE CreateIndex
  BY <1>1, <1>6, ValuesSame DEF CreateIndex
<1>7. CASE AddColumn \/ AddComputedColumn
  BY <1>7, ValuesAddColumn, ValuesAddComputedColumn
<1>8. CASE Materialize
  BY <1>8, ValuesMaterialize
<1>9. CASE Transform \/ ApplyInto
  <2>1. \E result \in Results : \E fs : Replace(fs, result)
    BY <1>9 DEF Transform, ApplyInto
  <2> QED BY <2>1, ValuesReplace
<1> QED BY <1>1, <1>2, <1>3, <1>4, <1>5, <1>6, <1>7, <1>8, <1>9 DEF Next

-----------------------------------------------------------------------------
(* Predicates. Of a predicate no more is used than that its conjuncts hold  *)
(* of the rows it holds of, and that a comparison is one.                   *)

Choosing == \A row : ProperRow(row) => ChoosesWell(row)

(* The kind of a column's values: NaN is the Float that is not a number.    *)
OfKind(v, kind) == IsNull(v) \/ Kind(v) = kind \/ (Kind(v) = "NaN" /\ kind = "Float")

LEMMA CompatibleKind ==
  ASSUME NEW field, NEW v, Compatible(field, v)
  PROVE  OfKind(v, field.type[1])
<1>1. SUFFICES ASSUME ~ IsNull(v) PROVE OfKind(v, field.type[1])
  BY DEF OfKind
<1>2. TypeOf(v)[1] = IF Kind(v) = "NaN" THEN "Float" ELSE Kind(v)
  <2>1. CASE Kind(v) = "NaN"
    BY <2>1 DEF TypeOf
  <2>2. CASE Kind(v) \in {"Vector", "Bits"}
    BY <2>2 DEF TypeOf
  <2>3. CASE Kind(v) = "Matrix"
    BY <2>3 DEF TypeOf
  <2>4. CASE Kind(v) \notin {"NaN", "Vector", "Bits", "Matrix"}
    BY <2>4 DEF TypeOf
  <2> QED BY <2>1, <2>2, <2>3, <2>4
<1>3. CASE TypeOf(v) = field.type
  BY <1>2, <1>3 DEF OfKind
<1>4. CASE Kind(v) = "Vector" /\ field.type = << "Vector", 0 >>
  BY <1>4 DEF OfKind
<1>5. CASE Kind(v) = "Matrix" /\ field.type[1] = "Matrix"
  BY <1>5 DEF OfKind
<1> QED BY <1>1, <1>3, <1>4, <1>5 DEF Compatible

(* A comparison the other way round.                                        *)
LEMMA CompareFlips ==
  ASSUME NEW v, NEW w, Proper(v), Proper(w)
  PROVE  /\ Compare(v, w) = "less" <=> Compare(w, v) = "greater"
         /\ Compare(v, w) = "greater" <=> Compare(w, v) = "less"
         /\ Compare(v, w) = "equal" <=> Compare(w, v) = "equal"
         /\ Compare(v, w) = "none" <=> Compare(w, v) = "none"
         /\ Compare(v, w) \in {"less", "equal", "greater", "none"}
<1>1. CASE IsNull(v) \/ IsNull(w)
  BY <1>1 DEF Compare, Order
<1>2. CASE ~ (IsNull(v) \/ IsNull(w))
  <2> DEFINE bit(x) == Kind(x) = "Bool" \/ (Kind(x) = "Int" /\ Datum(x) \in {0, 1})
             both(x, y) == \/ IsNumber(x) /\ IsNumber(y)
                           \/ Kind(x) = Kind(y) /\ Kind(x) \in {"Text", "Bool"}
                           \/ {Kind(x), Kind(y)} = {"Bool", "Int"} /\ bit(x) /\ bit(y)
  <2>1. /\ Compare(v, w) = IF both(v, w) THEN Order(Datum(v), Datum(w)) ELSE "none"
        /\ Compare(w, v) = IF both(w, v) THEN Order(Datum(w), Datum(v)) ELSE "none"
    BY <1>2 DEF Compare
  <2>2. both(v, w) <=> both(w, v)
    <3>1. {Kind(v), Kind(w)} = {Kind(w), Kind(v)}
      OBVIOUS
    <3> QED BY <3>1
  <2>3. both(v, w) => Datum(v) \in Int /\ Datum(w) \in Int
    <3>1. DOMAIN Spelling \subseteq Int
      BY DEF Spelling
    <3>2. \A x : Proper(x) /\ Kind(x) \in {"Int", "Float", "Double", "Text", "Bool"} => Datum(x) \in Int
      BY <3>1 DEF Proper, IsNumber
    <3>3. both(v, w) => /\ Kind(v) \in {"Int", "Float", "Double", "Text", "Bool"}
                        /\ Kind(w) \in {"Int", "Float", "Double", "Text", "Bool"}
      BY DEF IsNumber
    <3> HIDE DEF both
    <3> QED BY <3>2, <3>3
  <2> HIDE DEF both
  <2>4. CASE both(v, w)
    BY <2>1, <2>2, <2>3, <2>4 DEF Order
  <2>5. CASE ~ both(v, w)
    BY <2>1, <2>2, <2>5
  <2> QED BY <2>4, <2>5
<1> QED BY <1>1, <1>2

(* What a range has of the predicate.                                       *)
Directly(q, operators, range) ==
  /\ q[1] \in operators /\ q[2][1] = "col" /\ q[3][1] = "lit"
  /\ range[1] = q[2][2] /\ Len(range[2]) = 1 /\ range[2][1][1] = q[1] /\ range[2][1][2] = q[3][2]

Flipped(q, operators, range) ==
  /\ q[1] \in operators /\ q[2][1] = "lit" /\ q[3][1] = "col"
  /\ range[1] = q[3][2] /\ Len(range[2]) = 1 /\ range[2][1][1] = Flip(q[1]) /\ range[2][1][2] = q[2][2]

Twofold(q, range) ==
  /\ q[1] = "between" /\ q[2][1] = "col" /\ q[3][1] = "lit" /\ q[4][1] = "lit"
  /\ range[1] = q[2][2] /\ Len(range[2]) = 2
  /\ range[2][1][1] = ">=" /\ range[2][1][2] = q[3][2]
  /\ range[2][2][1] = "<=" /\ range[2][2][2] = q[4][2]

LEMMA RangeIs ==
  ASSUME NEW q, NEW operators \in {Inequalities, Inequalities \cup {"="}},
         NEW range, range = RangeOf(q, operators), range # << >>
  PROVE  Directly(q, operators, range) \/ Flipped(q, operators, range) \/ Twofold(q, range)
<1>1. CASE q[1] \in operators /\ q[2][1] = "col" /\ q[3][1] = "lit"
  <2>1. range = << q[2][2], << << q[1], q[3][2] >> >> >>
    BY <1>1 DEF RangeOf, Inequalities
  <2> QED BY <1>1, <2>1 DEF Directly
<1>2. CASE q[1] \in operators /\ q[2][1] = "lit" /\ q[3][1] = "col"
  <2>1. range = << q[3][2], << << Flip(q[1]), q[2][2] >> >> >>
    BY <1>2 DEF RangeOf, Inequalities
  <2> QED BY <1>2, <2>1 DEF Flipped
<1>3. CASE q[1] = "between" /\ q[2][1] = "col" /\ q[3][1] = "lit" /\ q[4][1] = "lit"
  <2>1. range = << q[2][2], << << ">=", q[3][2] >>, << "<=", q[4][2] >> >> >>
    BY <1>3 DEF RangeOf, Inequalities
  <2> QED BY <1>3, <2>1 DEF Twofold
<1> QED BY <1>1, <1>2, <1>3 DEF RangeOf

(* The literals of a predicate's ranges.                                    *)
LEMMA RangeLiterals ==
  ASSUME NEW p \in Questions, NEW q \in Asked(p), NEW operators \in {Inequalities, Inequalities \cup {"="}},
         NEW range, range = RangeOf(q, operators), range # << >>
  PROVE  \A i \in 1 .. Len(range[2]) : Proper(range[2][i][2]) /\ Kind(range[2][i][2]) # "Complex"
<1>1. range = RangeOf(q, Inequalities \cup {"="})
  BY DEF RangeOf, Inequalities
<1> QED BY <1>1, QuestionsAssumption

(* A row of which a range holds has a value in it.                          *)
LEMMA RangeHolds ==
  ASSUME Choosing, NEW p \in Questions, NEW q \in Asked(p),
         NEW operators \in {Inequalities, Inequalities \cup {"="}},
         NEW range, range = RangeOf(q, operators), range # << >>,
         NEW row, ProperRow(row), HasColumn(row, range[1]), NEW v, v = Get(row, range[1]), Proper(v),
         operators = Inequalities \/ IsNull(v) \/ Orderable(v), Chosen(q, row)
  PROVE  /\ ~ IsNull(v)
         /\ \A i \in 1 .. Len(range[2]) :
              /\ range[2][i][1] \in operators \cup {">=", "<="} /\ ~ IsNull(range[2][i][2])
              /\ Satisfies(v, range[2][i])
<1> DEFINE Fits(op, b) == ~ IsNull(v) /\ ~ IsNull(b) /\ Compare(v, b) # "none" /\ Admits(op, Compare(v, b))
<1>1. \A i \in 1 .. Len(range[2]) : Proper(range[2][i][2]) /\ Kind(range[2][i][2]) # "Complex"
  BY RangeLiterals
<1>2. ASSUME NEW op \in Inequalities, NEW b, Proper(b)
      PROVE  /\ SqlCompare(v, op, b) = "true" => Fits(op, b)
             /\ SqlCompare(b, op, v) = "true" => Fits(Flip(op), b)
  <2>1. SqlCompare(v, op, b) = "true" => Fits(op, b)
    BY DEF SqlCompare, Truth, Inequalities
  <2>2. SqlCompare(b, op, v) = "true" =>
          ~ IsNull(v) /\ ~ IsNull(b) /\ Compare(b, v) # "none" /\ Admits(op, Compare(b, v))
    BY DEF SqlCompare, Truth, Inequalities
  <2>3. Compare(b, v) # "none" /\ Admits(op, Compare(b, v)) =>
          Compare(v, b) # "none" /\ Admits(Flip(op), Compare(v, b))
    <3>1. /\ Compare(v, b) = "less" <=> Compare(b, v) = "greater"
          /\ Compare(v, b) = "greater" <=> Compare(b, v) = "less"
          /\ Compare(v, b) = "equal" <=> Compare(b, v) = "equal"
          /\ Compare(v, b) = "none" <=> Compare(b, v) = "none"
          /\ Compare(v, b) \in {"less", "equal", "greater", "none"}
      BY <1>2, CompareFlips
    <3> QED BY <3>1 DEF Admits, Flip, Inequalities
  <2> QED BY <2>1, <2>2, <2>3
<1>3. ASSUME Orderable(v), NEW b, Proper(b), Kind(b) # "Complex"
      PROVE  /\ SqlCompare(v, "=", b) = "true" => Fits("=", b)
             /\ SqlCompare(b, "=", v) = "true" => Fits("=", b)
  <2>1. Kind(v) # "Complex" /\ Kind(v) # "Bits"
    BY <1>3 DEF Orderable, IsNumber
  <2>2. SqlCompare(v, "=", b) = "true" => ~ IsNull(v) /\ ~ IsNull(b) /\ Compare(v, b) = "equal"
    BY <1>3, <2>1 DEF SqlCompare, Equals, Truth
  <2>3. SqlCompare(b, "=", v) = "true" => ~ IsNull(v) /\ ~ IsNull(b) /\ Compare(b, v) = "equal"
    BY <1>3, <2>1 DEF SqlCompare, Equals, Truth
  <2>4. Compare(b, v) = "equal" <=> Compare(v, b) = "equal"
    BY <1>3, CompareFlips
  <2> QED BY <2>2, <2>3, <2>4 DEF Admits
<1>4. \A b : ~ (IsNull(v) /\ (SqlCompare(v, "=", b) = "true" \/ SqlCompare(b, "=", v) = "true"))
  BY DEF SqlCompare
<1>5. operators = Inequalities \/ operators = Inequalities \cup {"="}
  OBVIOUS
<1>6. ASSUME NEW op \in operators, NEW b, Proper(b), Kind(b) # "Complex"
      PROVE  /\ SqlCompare(v, op, b) = "true" => Fits(op, b)
             /\ SqlCompare(b, op, v) = "true" => Fits(Flip(op), b)
  <2>1. CASE op \in Inequalities
    BY <1>2, <1>6, <2>1
  <2>2. CASE op \notin Inequalities
    <3>1. op = "=" /\ operators # Inequalities
      BY <1>5, <1>6, <2>2
    <3>2. Flip(op) = op
      BY <3>1 DEF Flip
    <3> HIDE DEF Fits
    <3> QED BY <1>3, <1>4, <1>6, <3>1, <3>2
  <2> QED BY <2>1, <2>2
<1>7. \A i \in 1 .. Len(range[2]) : Fits(range[2][i][1], range[2][i][2]) => Satisfies(v, range[2][i])
  BY DEF Satisfies
<1>8. CASE Directly(q, operators, range)
  <2> USE DEF Directly
  <2>1. 1 \in 1 .. Len(range[2]) /\ \A i \in 1 .. Len(range[2]) : i = 1
    BY <1>8
  <2>2. IsRead(row, q[2]) /\ IsRead(row, q[3]) /\ Operand(row, q[2]) = v /\ Operand(row, q[3]) = q[3][2]
    BY <1>8 DEF IsRead, Operand
  <2>3. SqlCompare(v, q[1], q[3][2]) = "true"
    BY <1>5, <1>8, <2>2 DEF Choosing, ChoosesWell
  <2>4. Fits(range[2][1][1], range[2][1][2])
    BY <1>1, <1>6, <1>8, <2>1, <2>3
  <2> QED BY <1>7, <1>8, <2>1, <2>4
<1>9. CASE Flipped(q, operators, range)
  <2> USE DEF Flipped
  <2>1. 1 \in 1 .. Len(range[2]) /\ \A i \in 1 .. Len(range[2]) : i = 1
    BY <1>9
  <2>2. IsRead(row, q[2]) /\ IsRead(row, q[3]) /\ Operand(row, q[3]) = v /\ Operand(row, q[2]) = q[2][2]
    BY <1>9 DEF IsRead, Operand
  <2>3. SqlCompare(q[2][2], q[1], v) = "true"
    BY <1>5, <1>9, <2>2 DEF Choosing, ChoosesWell
  <2>4. Fits(range[2][1][1], range[2][1][2])
    BY <1>1, <1>6, <1>9, <2>1, <2>3
  <2>5. Flip(q[1]) \in operators
    BY <1>5, <1>9 DEF Flip, Inequalities
  <2> QED BY <1>7, <1>9, <2>1, <2>4, <2>5
<1>10. CASE Twofold(q, range)
  <2> USE DEF Twofold
  <2>1. 1 \in 1 .. Len(range[2]) /\ 2 \in 1 .. Len(range[2]) /\ \A i \in 1 .. Len(range[2]) : i = 1 \/ i = 2
    BY <1>10
  <2>2. /\ IsRead(row, q[2]) /\ IsRead(row, q[3]) /\ IsRead(row, q[4]) /\ Operand(row, q[2]) = v
        /\ Operand(row, q[3]) = q[3][2] /\ Operand(row, q[4]) = q[4][2]
    BY <1>10 DEF IsRead, Operand
  <2>3. SqlCompare(v, ">=", q[3][2]) = "true" /\ SqlCompare(v, "<=", q[4][2]) = "true"
    BY <1>10, <2>2 DEF Choosing, ChoosesWell
  <2>4. Fits(range[2][1][1], range[2][1][2]) /\ Fits(range[2][2][1], range[2][2][2])
    <3>1. ">=" \in Inequalities /\ "<=" \in Inequalities
      BY DEF Inequalities
    <3> HIDE DEF Fits
    <3> QED BY <1>1, <1>2, <1>10, <2>1, <2>3, <3>1
  <2> QED BY <1>7, <1>10, <2>1, <2>4
<1> QED BY <1>8, <1>9, <1>10, RangeIs

-----------------------------------------------------------------------------
(* SORTED indexes: a value in the range is between the ends the binary      *)
(* search finds.                                                            *)

(* Where a prefix ends: before what is not of it, not before what is.       *)
LEMMA PointIs ==
  ASSUME NEW s, Len(s) \in Nat, NEW b, NEW orders, NEW i \in 1 .. Len(s)
  PROVE  /\ Compare(s[i][1], b) \notin orders => PartitionPoint(s, b, orders) < i
         /\ (\A j \in 1 .. i : Compare(s[j][1], b) \in orders) => i <= PartitionPoint(s, b, orders)
<1> DEFINE T == {k \in 1 .. Len(s) : \A j \in 1 .. k : Compare(s[j][1], b) \in orders}
<1>1. PartitionPoint(s, b, orders) = Cardinality(T)
  BY DEF PartitionPoint
<1>2. IsFiniteSet(1 .. Len(s)) /\ T \in SUBSET (1 .. Len(s))
  <2>1. 1 \in Int /\ Len(s) \in Int
    OBVIOUS
  <2>2. T \in SUBSET (1 .. Len(s))
    OBVIOUS
  <2> HIDE DEF T
  <2> QED BY <2>1, <2>2, FS_Interval
<1>3. IsFiniteSet(T) /\ Cardinality(T) \in Nat
  BY <1>2, FS_Subset, FS_CardinalityType
<1>4. ASSUME Compare(s[i][1], b) \notin orders PROVE Cardinality(T) < i
  <2>1. \A k \in T : k \in 1 .. i - 1
    BY <1>4
  <2>2. i - 1 \in Int /\ 1 \in Int /\ i - 1 >= 0
    OBVIOUS
  <2>3. IsFiniteSet(1 .. i - 1) /\ Cardinality(1 .. i - 1) = IF 1 > i - 1 THEN 0 ELSE (i - 1) - 1 + 1
    BY <2>2, FS_Interval
  <2>4. T \in SUBSET (1 .. i - 1)
    BY <2>1
  <2> HIDE DEF T
  <2>5. Cardinality(T) <= Cardinality(1 .. i - 1)
    BY <2>3, <2>4, FS_Subset
  <2> QED BY <1>3, <2>2, <2>3, <2>5
<1>5. ASSUME \A j \in 1 .. i : Compare(s[j][1], b) \in orders PROVE i <= Cardinality(T)
  <2>1. 1 .. i \in SUBSET T
    BY <1>5
  <2>2. i \in Int /\ 1 \in Int /\ i >= 1
    OBVIOUS
  <2>3. Cardinality(1 .. i) = IF 1 > i THEN 0 ELSE i - 1 + 1
    BY <2>2, FS_Interval
  <2> HIDE DEF T
  <2>4. Cardinality(1 .. i) <= Cardinality(T)
    BY <1>3, <2>1, FS_Subset
  <2> QED BY <1>3, <2>2, <2>3, <2>4
<1> QED BY <1>1, <1>4, <1>5

(* The pairs of a SORTED index have their data in order.                    *)
LEMMA SortedData ==
  ASSUME NEW P, Sortable(P), NEW s, Len(s) \in Nat, InOrder(s), \A i \in 1 .. Len(s) : s[i] \in P,
         NEW i \in 1 .. Len(s), NEW j \in 1 .. i
  PROVE  Datum(s[j][1]) <= Datum(s[i][1])
<1> DEFINE D(k) == Datum(s[k][1])
           m == i - 1
           G == {d \in 0 .. m : D(i - d) <= D(i)}
<1>1. i \in Nat /\ m \in Nat /\ \A d \in 0 .. m : i - d \in 1 .. Len(s)
  OBVIOUS
<1>2. \A k \in 1 .. Len(s) : D(k) \in Int
  BY DEF Sortable, Orderable
<1>3. ASSUME NEW k \in 1 .. Len(s) - 1 PROVE D(k) <= D(k + 1)
  <2>1. k \in 1 .. Len(s) /\ k + 1 \in 1 .. Len(s)
    OBVIOUS
  <2>2. s[k] \in P /\ s[k + 1] \in P /\ Precedes(s[k], s[k + 1])
    BY <2>1 DEF InOrder
  <2>3. Lower(s[k], s[k + 1])
    BY <2>2, PrecedesIs
  <2> QED BY <1>2, <2>1, <2>3 DEF Lower
<1>4. 0 \in G
  <2>1. 0 \in 0 .. m /\ i - 0 = i /\ D(i) \in Int
    BY <1>1, <1>2
  <2> HIDE DEF D
  <2> QED BY <2>1
<1>5. ASSUME NEW d \in 1 .. m, d - 1 \in G PROVE d \in G
  <2>1. /\ d \in 0 .. m /\ d - 1 \in 0 .. m /\ i - d \in 1 .. Len(s) - 1
        /\ i - (d - 1) = (i - d) + 1 /\ i - d \in 1 .. Len(s) /\ i - (d - 1) \in 1 .. Len(s)
    BY <1>1
  <2>2. D(i - d) <= D((i - d) + 1)
    BY <1>3, <2>1
  <2>3. D(i - (d - 1)) <= D(i)
    BY <1>5
  <2>4. D(i - d) \in Int /\ D(i - (d - 1)) \in Int /\ D(i) \in Int
    BY <1>1, <1>2, <2>1
  <2> HIDE DEF D
  <2> QED BY <2>1, <2>2, <2>3, <2>4
<1>6. \A n \in 0 .. m : n \in G
  <2> HIDE DEF G, m
  <2>1. SUFFICES ASSUME NEW n \in 0 .. m PROVE n \in G
    OBVIOUS
  <2>2. n \in Nat /\ \A d \in 1 .. n : d \in 1 .. m
    BY <1>1
  <2> QED BY <1>4, <1>5, <2>2, Climb
<1>7. i - j \in 0 .. m /\ i - (i - j) = j
  BY <1>1
<1>8. i - j \in G
  BY <1>6, <1>7
<1> HIDE DEF D
<1>9. D(j) <= D(i)
  BY <1>7, <1>8
<1> QED BY <1>9 DEF D

(* A bound that compares with a value that can be ordered is one itself.    *)
LEMMA BoundOrderable ==
  ASSUME NEW v, Orderable(v), NEW b, Proper(b), ~ IsNull(b), Compare(v, b) # "none",
         Kind(v) = "Int" => Kind(b) # "Bool"
  PROVE  Orderable(b) /\ SortKind(b) = SortKind(v)
<1>1. ~ IsNull(v) /\ (IsNumber(v) \/ Kind(v) = "Text")
  BY DEF Orderable, IsNull, IsNumber
<1>2. \/ IsNumber(v) /\ IsNumber(b)
      \/ Kind(v) = Kind(b) /\ Kind(v) \in {"Text", "Bool"}
      \/ {Kind(v), Kind(b)} = {"Bool", "Int"}
  BY <1>1 DEF Compare
<1>3. ~ ({Kind(v), Kind(b)} = {"Bool", "Int"})
  <2>1. Kind(v) # "Bool"
    BY <1>1 DEF IsNumber
  <2> QED BY <2>1
<1>4. DOMAIN Spelling \subseteq Int
  BY DEF Spelling
<1>5. CASE IsNumber(v) /\ IsNumber(b)
  BY <1>5 DEF Orderable, SortKind, Proper
<1>6. CASE Kind(v) = Kind(b) /\ Kind(v) = "Text"
  BY <1>4, <1>6 DEF Orderable, SortKind, Proper, IsNumber
<1> QED BY <1>1, <1>2, <1>3, <1>5, <1>6 DEF IsNumber

(* What satisfies the constraints is found.                                 *)
LEMMA SortedFinds ==
  ASSUME NEW idx, NEW P, Sortable(P), Len(idx.sorted) \in Nat, InOrder(idx.sorted), SortedPairs(idx) = P,
         NEW constraints,
         NEW x \in P,
         \A k \in 1 .. Len(constraints) :
           /\ constraints[k][1] \in Inequalities \cup {"="} /\ Satisfies(x[1], constraints[k])
           /\ Orderable(constraints[k][2]) /\ SortKind(constraints[k][2]) = SortKind(x[1])
  PROVE  x[2] \in SortedIds(idx, constraints)
<1> DEFINE s == idx.sorted
           found == {i \in 1 .. Len(s) : \A k \in 1 .. Len(constraints) :
                       LowEnd(s, constraints[k]) < i /\ i <= HighEnd(s, constraints[k])}
           candidates == {s[i] : i \in found} \cup {<< idx.entries[id][1], id >> : id \in DOMAIN idx.entries}
<1>1. x \in candidates
  <2>1. CASE x \in {<< idx.entries[id][1], id >> : id \in DOMAIN idx.entries}
    BY <2>1
  <2>2. CASE \E i \in 1 .. Len(s) : x = s[i]
    <3>1. PICK i \in 1 .. Len(s) : x = s[i]
      BY <2>2
    <3>2. \A j \in 1 .. Len(s) : s[j] \in P
      BY DEF SortedPairs
    <3>3. ASSUME NEW k \in 1 .. Len(constraints)
          PROVE  LowEnd(s, constraints[k]) < i /\ i <= HighEnd(s, constraints[k])
      <4> DEFINE c == constraints[k]
                 b == c[2]
      <4>1. /\ c[1] \in Inequalities \cup {"="} /\ Orderable(b) /\ SortKind(b) = SortKind(x[1])
            /\ Compare(x[1], b) # "none" /\ Admits(c[1], Compare(x[1], b))
        BY DEF Satisfies
      <4>2. ASSUME NEW j \in 1 .. i
            PROVE  /\ Compare(s[j][1], b) = Order(Datum(s[j][1]), Datum(b))
                   /\ Datum(s[j][1]) \in Int /\ Datum(b) \in Int /\ Datum(s[j][1]) <= Datum(x[1])
        <5>1. j \in 1 .. Len(s) /\ s[j] \in P
          BY <3>2
        <5>2. Orderable(s[j][1]) /\ SortKind(s[j][1]) = SortKind(x[1])
          BY <5>1 DEF Sortable
        <5>3. Datum(s[j][1]) <= Datum(s[i][1])
          BY <3>2, SortedData
        <5> HIDE DEF s, c
        <5> QED BY <3>1, <4>1, <5>2, <5>3, CompareIs DEF Orderable
      <4>3. /\ Compare(x[1], b) = Order(Datum(x[1]), Datum(b)) /\ Datum(x[1]) \in Int /\ Datum(b) \in Int
        <5>1. i \in 1 .. i
          OBVIOUS
        <5> QED BY <3>1, <4>2, <5>1
      <4> HIDE DEF s, c
      <4>4. /\ \A orders : Compare(x[1], b) \notin orders => PartitionPoint(s, b, orders) < i
            /\ \A orders : (\A j \in 1 .. i : Compare(s[j][1], b) \in orders) => i <= PartitionPoint(s, b, orders)
        BY <3>1, PointIs DEF s
      <4>5. LowEnd(s, c) < i
        <5>1. Compare(x[1], b) \in {"less", "equal", "greater"}
          BY <4>3 DEF Order
        <5>2. CASE c[1] = ">"
          <6>1. Compare(x[1], b) \notin {"less", "equal", "none"}
            BY <4>1, <5>2 DEF Admits
          <6> QED BY <4>4, <5>2, <6>1 DEF LowEnd
        <5>3. CASE c[1] \in {">=", "="}
          <6>1. Compare(x[1], b) \notin {"less", "none"}
            BY <4>1, <5>3 DEF Admits
          <6> QED BY <4>4, <5>3, <6>1 DEF LowEnd
        <5>4. CASE c[1] \notin {">", ">=", "="}
          BY <5>4 DEF LowEnd
        <5> QED BY <5>2, <5>3, <5>4
      <4>6. i <= HighEnd(s, c)
        <5>1. CASE c[1] = "<"
          <6>1. Datum(x[1]) < Datum(b)
            BY <4>1, <4>3, <5>1 DEF Admits, Order
          <6>2. \A j \in 1 .. i : Compare(s[j][1], b) \in {"less"}
            BY <4>2, <4>3, <6>1 DEF Order
          <6> QED BY <4>4, <5>1, <6>2 DEF HighEnd
        <5>2. CASE c[1] \in {"<=", "="}
          <6>1. Datum(x[1]) <= Datum(b)
            <7>1. Compare(x[1], b) # "greater"
              <8>1. CASE c[1] = "<="
                BY <4>1, <8>1 DEF Admits
              <8>2. CASE c[1] = "="
                BY <4>1, <8>2 DEF Admits
              <8> QED BY <5>2, <8>1, <8>2
            <7> QED BY <4>3, <7>1 DEF Order
          <6>2. \A j \in 1 .. i : Compare(s[j][1], b) \in {"less", "equal"}
            BY <4>2, <4>3, <6>1 DEF Order
          <6> QED BY <4>4, <5>2, <6>2 DEF HighEnd
        <5>3. CASE c[1] \notin {"<", "<=", "="}
          BY <5>3 DEF HighEnd, s
        <5> QED BY <5>1, <5>2, <5>3
      <4> QED BY <4>5, <4>6 DEF c
    <3>4. i \in found
      BY <3>3
    <3> HIDE DEF found
    <3> QED BY <3>1, <3>4
  <2> QED BY <2>1, <2>2 DEF SortedPairs
<1>2. SortedIds(idx, constraints)
        = {c[2] : c \in {y \in candidates : \A k \in 1 .. Len(constraints) : Satisfies(y[1], constraints[k])}}
  BY DEF SortedIds
<1> HIDE DEF candidates
<1> QED BY <1>1, <1>2

-----------------------------------------------------------------------------
(* HASH indexes: of values of one type the texts tell the values.           *)

(* How numbers are written.                                                 *)
Spelt ==
  /\ \A m, n \in Int : ToString(m) = ToString(n) => m = n
  /\ \A n \in Int : ToString(n) # "NaN"

LEMMA KeysTell ==
  ASSUME Spelt, NEW v, Proper(v), NEW w, Proper(w),
         Kind(w) \in {"Int", "Float", "Double", "Bool", "Text"}, OfKind(v, Kind(w)), HashKey(w) # HashKey(Null)
  PROVE  HashKey(v) = HashKey(w) <=> SqlCompare(v, "=", w) = "true"
<1>1. ~ IsNull(w) /\ Kind(w) \notin {"Bits", "Complex"}
  BY DEF IsNull
<1>2. CASE IsNull(v)
  <2>1. HashKey(v) = HashKey(Null)
    BY <1>2 DEF HashKey, IsNull, Null, Kind
  <2>2. SqlCompare(v, "=", w) # "true"
    BY <1>2 DEF SqlCompare
  <2> QED BY <2>1, <2>2
<1>3. CASE ~ IsNull(v)
  <2>1. Kind(v) = Kind(w) \/ (Kind(v) = "NaN" /\ Kind(w) = "Float")
    BY <1>3 DEF OfKind
  <2>2. Kind(v) \notin {"Bits", "Complex"}
    BY <2>1
  <2>3. SqlCompare(v, "=", w) = "true" <=> Compare(v, w) = "equal"
    BY <1>1, <1>3, <2>2 DEF SqlCompare, Equals, Truth
  <2>4. CASE Kind(v) = "NaN"
    <3>1. Compare(v, w) = "none"
      <4>1. Kind(w) = "Float"
        BY <2>1, <2>4
      <4> QED BY <1>1, <1>3, <2>4, <4>1 DEF Compare, IsNumber
    <3>2. HashKey(v) = "NaN" /\ HashKey(w) = ToString(Datum(w)) /\ Datum(w) \in Int
      BY <2>1, <2>4 DEF HashKey, Proper, IsNumber
    <3> QED BY <2>3, <3>1, <3>2 DEF Spelt
  <2>5. CASE IsNumber(w) /\ Kind(v) = Kind(w)
    <3>1. IsNumber(v) /\ Datum(v) \in Int /\ Datum(w) \in Int
      BY <2>5 DEF IsNumber, Proper
    <3>2. Compare(v, w) = Order(Datum(v), Datum(w))
      BY <1>1, <1>3, <2>5, <3>1 DEF Compare
    <3>3. Compare(v, w) = "equal" <=> Datum(v) = Datum(w)
      BY <3>1, <3>2 DEF Order
    <3>4. HashKey(v) = ToString(Datum(v)) /\ HashKey(w) = ToString(Datum(w))
      BY <2>5, <3>1 DEF HashKey, IsNumber
    <3> QED BY <2>3, <3>1, <3>3, <3>4 DEF Spelt
  <2>6. CASE Kind(w) = "Bool" /\ Kind(v) = Kind(w)
    <3>1. Datum(v) \in {0, 1} /\ Datum(w) \in {0, 1}
      BY <2>6 DEF Proper
    <3>2. Compare(v, w) = Order(Datum(v), Datum(w))
      BY <1>1, <1>3, <2>6 DEF Compare
    <3>3. Compare(v, w) = "equal" <=> Datum(v) = Datum(w)
      BY <3>1, <3>2 DEF Order
    <3>4. /\ HashKey(v) = IF Datum(v) = 1 THEN "true" ELSE "false"
          /\ HashKey(w) = IF Datum(w) = 1 THEN "true" ELSE "false"
      BY <2>6 DEF HashKey, IsTrue
    <3> QED BY <2>3, <3>1, <3>3, <3>4
  <2>7. CASE Kind(w) = "Text" /\ Kind(v) = Kind(w)
    <3>1. Datum(v) \in DOMAIN Spelling /\ Datum(w) \in DOMAIN Spelling
      BY <2>7 DEF Proper
    <3>2. \A m, n \in DOMAIN Spelling : m \in Int /\ (Spelling[m] = Spelling[n] => m = n)
      <4>1. DOMAIN Spelling = {1, 2, 3, 4, 5, 6, 7}
        BY DEF Spelling
      <4> QED BY <4>1 DEF Spelling
    <3>3. Compare(v, w) = Order(Datum(v), Datum(w))
      BY <1>1, <1>3, <2>7 DEF Compare
    <3>4. Compare(v, w) = "equal" <=> Datum(v) = Datum(w)
      BY <3>1, <3>2, <3>3 DEF Order
    <3>5. HashKey(v) = Spelling[Datum(v)] /\ HashKey(w) = Spelling[Datum(w)]
      BY <2>7 DEF HashKey
    <3> QED BY <2>3, <3>1, <3>2, <3>4, <3>5
  <2> QED BY <2>1, <2>4, <2>5, <2>6, <2>7 DEF IsNumber
<1> QED BY <1>2, <1>3

(* A HASH index that answers for the rows has each row once.                *)
LEMMA HashHitsIs ==
  ASSUME NEW c, NEW rs, NEW idx, idx = IndexOf("Hash", c, rs), NEW w,
         NEW id \in 1 .. Len(rs), HasColumn(rs[id], c)
  PROVE  HashHits(idx, w, id) = IF HashKey(Get(rs[id], c)) = HashKey(w) THEN 1 ELSE 0
<1> DEFINE key == HashKey(Get(rs[id], c))
           T == {j \in DOMAIN idx.entries[id] : idx.entries[id][j] = HashKey(w)}
<1>1. idx.entries = [i \in Having(c, rs) |-> << HashKey(Get(rs[i], c)) >>]
  BY DEF IndexOf
<1>2. id \in Having(c, rs)
  BY DEF Having
<1>3. id \in DOMAIN idx.entries /\ idx.entries[id] = << key >>
  BY <1>1, <1>2
<1>4. HashHits(idx, w, id) = Cardinality(T)
  BY <1>3 DEF HashHits
<1>5. DOMAIN idx.entries[id] = {1} /\ idx.entries[id][1] = key
  BY <1>3
<1>6. T = IF key = HashKey(w) THEN {1} ELSE {}
  BY <1>5
<1> HIDE DEF key, T
<1>7. Cardinality({1}) = 1 /\ Cardinality({}) = 0
  BY FS_Singleton, FS_EmptySet
<1> QED BY <1>4, <1>6, <1>7 DEF key

-----------------------------------------------------------------------------
(* Each path: a row that a scan answers with is read once.                  *)

(* A row as queries see it.                                                 *)
LEMMA SeenProper ==
  ASSUME Evaluating, IndexInv, ValuesInv, "rows" \notin stale, NEW id \in 1 .. Len(rows)
  PROVE  ProperRow(Seen(id))
<1> DEFINE v == Evaluated(rows[id])
<1>1. ProperRow(rows[id])
  BY DEF ValuesInv
<1>2. Len(rows[id].vals) = Len(fields) /\ IsSeq(fields)
  BY DEF IndexInv, RowsFit, Fitting, Shape, IsSchema
<1>3. IsSeq(v) /\ Len(v) = Len(rows[id].vals) /\ \A k \in 1 .. Len(rows[id].vals) : Proper(v[k])
  BY <1>1, EvaluatedProper
<1> HIDE DEF v
<1>4. ProperRow(Tuple(fields, v))
  BY <1>2, <1>3, TupleProper
<1> QED BY <1>4 DEF Seen, v

(* A column that is not lazy, as queries see it.                            *)
LEMMA SeenIs ==
  ASSUME Evaluating, IndexInv, ValuesInv, "rows" \notin stale, NEW id \in 1 .. Len(rows),
         NEW c \in SetOfNames(fields), c \notin DOMAIN lazyExpr
  PROVE  /\ HasColumn(rows[id], c) /\ HasColumn(Seen(id), c)
         /\ Get(Seen(id), c) = Get(rows[id], c) /\ Proper(Get(rows[id], c))
         /\ Compatible(FieldOf(fields, c), Get(rows[id], c))
<1> DEFINE row == rows[id]
           pos == Position(Names(fields), c)
<1>1. IsSeq(fields) /\ Len(fields) \in Nat
  BY SeqParts DEF IndexInv, Shape, IsSchema
<1>2. /\ Len(Names(fields)) = Len(fields) /\ \A i \in 1 .. Len(fields) : Names(fields)[i] = fields[i].name
  BY <1>1, NamesIs
<1>3. row.names = Names(fields) /\ Len(row.vals) = Len(fields)
  BY DEF IndexInv, RowsFit, Fitting
<1>4. ProperRow(row) /\ Valid(fields, row.vals)
  BY DEF ValuesInv, RowsValid
<1>5. pos \in 1 .. Len(fields) /\ fields[pos].name = c
  <2>1. \E i \in 1 .. Len(Names(fields)) : Names(fields)[i] = c
    BY <1>2 DEF SetOfNames
  <2> HIDE DEF pos
  <2>2. pos \in 1 .. Len(Names(fields)) /\ Names(fields)[pos] = c
    BY <1>1, <1>2, <2>1, PositionIs DEF pos
  <2> QED BY <1>2, <2>2
<1>6. Seen(id).names = Names(fields) /\ Seen(id).vals = Evaluated(row)
  BY DEF Seen, Tuple
<1>7. Evaluated(row)[pos] = row.vals[pos]
  <2> HIDE DEF row, pos
  <2> QED BY <1>3, <1>5 DEF Evaluated
<1>8. Get(row, c) = row.vals[pos] /\ Get(Seen(id), c) = Evaluated(row)[pos] /\ FieldOf(fields, c) = fields[pos]
  BY <1>3, <1>6 DEF Get, FieldOf
<1>9. HasColumn(row, c) /\ HasColumn(Seen(id), c)
  BY <1>2, <1>3, <1>5, <1>6 DEF HasColumn
<1> HIDE DEF row, pos
<1>10. Proper(row.vals[pos]) /\ Compatible(fields[pos], row.vals[pos])
  BY <1>3, <1>4, <1>5 DEF ProperRow, Valid
<1> QED BY <1>7, <1>8, <1>9, <1>10 DEF row

(* A HASH lookup.                                                           *)
LEMMA HashReads ==
  ASSUME Evaluating, Choosing, Spelt, IndexInv, ValuesInv, "rows" \notin stale, NEW p \in Questions,
         Path(p) = "hash", Trusted(p, "hash"), NEW id \in 1 .. Len(rows)
  PROVE  Reads(p, "hash", id) = IF Chosen(p, Seen(id)) THEN 1 ELSE 0
<1> DEFINE c == p[2][2]
           w == p[3][2]
           v == Get(rows[id], c)
<1>1. IsLookup(p) /\ IsIndexed(c, "Hash")
  BY DEF Path
<1>2. /\ c \notin doubts /\ c \notin DOMAIN lazyExpr /\ HashTrusted(c, w)
  BY DEF Trusted, Lazy
<1>3. c \in DOMAIN index /\ index[c].kind = "Hash"
  BY <1>1 DEF IsIndexed
<1>4. Answers(index[c], fields, c, rows)
  BY <1>2, <1>3 DEF IndexInv
<1>5. index[c] = IndexOf("Hash", c, rows) /\ c \in SetOfNames(fields)
  BY <1>3, <1>4 DEF Answers, Indexable
<1>6. /\ HasColumn(rows[id], c) /\ HasColumn(Seen(id), c) /\ Get(Seen(id), c) = v /\ Proper(v)
      /\ Compatible(FieldOf(fields, c), v)
  BY <1>2, <1>5, SeenIs
<1>7. p[1] = "=" /\ p[2][1] = "col" /\ p[3][1] = "lit"
  BY <1>1 DEF IsLookup
<1>8. p \in Asked(p)
  BY DEF Asked
<1>9. Proper(w)
  <2>1. PICK range : range = RangeOf(p, Inequalities \cup {"="})
    OBVIOUS
  <2>2. range = << c, << << "=", w >> >> >>
    BY <1>7, <2>1 DEF RangeOf, Inequalities
  <2>3. range # << >> /\ 1 \in 1 .. Len(range[2]) /\ range[2][1][2] = w
    BY <2>2
  <2> QED BY <1>8, <2>1, <2>3, RangeLiterals
<1>10. Chosen(p, Seen(id)) <=> SqlCompare(v, "=", w) = "true"
  <2>1. IsRead(Seen(id), p[2]) /\ IsRead(Seen(id), p[3])
    BY <1>6, <1>7 DEF IsRead
  <2>2. Operand(Seen(id), p[2]) = v /\ Operand(Seen(id), p[3]) = w
    BY <1>6, <1>7 DEF Operand
  <2> QED BY <1>7, <1>8, <2>1, <2>2, SeenProper DEF Choosing, ChoosesWell
<1>11. HashHits(index[c], w, id) = IF HashKey(v) = HashKey(w) THEN 1 ELSE 0
  BY <1>5, <1>6, HashHitsIs
<1>12. HashKey(v) = HashKey(w) <=> SqlCompare(v, "=", w) = "true"
  <2>1. FieldOf(fields, c).type[1] = Kind(w)
    BY <1>2 DEF HashTrusted
  <2>2. OfKind(v, Kind(w))
    BY <1>6, <2>1, CompatibleKind
  <2> QED BY <1>2, <1>6, <1>9, <2>2, KeysTell DEF HashTrusted
<1>13. Reads(p, "hash", id) = HashHits(index[c], w, id)
  BY DEF Reads
<1> QED BY <1>10, <1>11, <1>12, <1>13

(* Where the range of a SORTED index comes from.                            *)
LEMMA SortedRangeIs ==
  ASSUME NEW p \in Questions, SortedRange(p) # << >>
  PROVE  \E q \in Asked(p) : /\ SortedRange(p) = RangeOf(q, Inequalities \cup {"="})
                             /\ IsIndexed(SortedRange(p)[1], "Sorted")
<1> DEFINE range(i) == RangeOf(ConjunctsOf(p)[i], Inequalities \cup {"="})
           narrowing == {i \in 1 .. Len(ConjunctsOf(p)) : range(i) # << >> /\ IsIndexed(range(i)[1], "Sorted")}
<1>1. SortedRange(p) = IF narrowing = {} THEN << >> ELSE range(Min(narrowing))
  BY DEF SortedRange
<1>2. Len(ConjunctsOf(p)) \in Nat
  BY QuestionsAssumption, SeqParts
<1>3. narrowing # {} /\ narrowing \in SUBSET Nat
  <2>1. \A i \in narrowing : i \in Nat
    BY <1>2
  <2> HIDE DEF narrowing
  <2> QED BY <1>1, <2>1
<1>4. Min(narrowing) \in narrowing
  <2> HIDE DEF narrowing
  <2> QED BY <1>3, MinOf
<1>5. PICK i : i = Min(narrowing)
  OBVIOUS
<1>6. i \in narrowing /\ SortedRange(p) = range(i)
  BY <1>1, <1>3, <1>4, <1>5
<1>7. ConjunctsOf(p)[i] \in Asked(p)
  BY <1>6 DEF Asked
<1> QED BY <1>6, <1>7

(* A range of a SORTED index.                                               *)
LEMMA SortedReads ==
  ASSUME Evaluating, Choosing, IndexInv, ValuesInv, "rows" \notin stale, NEW p \in Questions,
         SortedRange(p) # << >>, Trusted(p, "sorted"), NEW id \in 1 .. Len(rows), Chosen(p, Seen(id))
  PROVE  Reads(p, "sorted", id) = 1
<1> DEFINE range == SortedRange(p)
           c == range[1]
           idx == index[c]
           v == Get(rows[id], c)
           P == Pairs(c, rows)
<1>1. PICK q \in Asked(p) : range = RangeOf(q, Inequalities \cup {"="}) /\ IsIndexed(c, "Sorted")
  BY SortedRangeIs
<1>2. c \notin doubts /\ c \notin DOMAIN lazyExpr /\ SortedTrusted(c, range[2])
  BY DEF Trusted, Lazy
<1>3. range # << >>
  OBVIOUS
<1> HIDE DEF range
<1>4. c \in DOMAIN index /\ idx.kind = "Sorted"
  BY <1>1 DEF IsIndexed
<1>5. Answers(idx, fields, c, rows)
  BY <1>2, <1>4 DEF IndexInv
<1>6. /\ Len(idx.sorted) \in Nat /\ InOrder(idx.sorted) /\ SortedPairs(idx) = P
      /\ Indexable(fields, "Sorted", c, rows) /\ c \in SetOfNames(fields)
  BY <1>4, <1>5 DEF Answers, Indexable
<1>7. Sortable(P)
  BY <1>6, PairsSortable DEF IndexInv, Shape
<1>8. /\ HasColumn(rows[id], c) /\ HasColumn(Seen(id), c) /\ Get(Seen(id), c) = v /\ Proper(v)
      /\ Compatible(FieldOf(fields, c), v)
  BY <1>2, <1>6, SeenIs
<1>9. ~ IsNull(v) => << v, id >> \in P
  BY <1>8 DEF Pairs, Having
<1>10. ~ IsNull(v) => Orderable(v)
  <2>1. SUFFICES ASSUME ~ IsNull(v) PROVE Orderable(v)
    OBVIOUS
  <2> HIDE DEF v, P
  <2>2. PICK x : x = << v, id >> /\ x \in P
    BY <1>9, <2>1
  <2>3. x[1] = v /\ Orderable(x[1])
    BY <1>7, <2>2 DEF Sortable
  <2> QED BY <2>3
<1>11. Chosen(q, Seen(id))
  BY SeenProper DEF Choosing, ChoosesWell
<1>12. /\ ~ IsNull(v)
       /\ \A i \in 1 .. Len(range[2]) :
            /\ range[2][i][1] \in (Inequalities \cup {"="}) \cup {">=", "<="} /\ ~ IsNull(range[2][i][2])
            /\ Satisfies(v, range[2][i])
  <2> HIDE DEF v
  <2> DEFINE operators == Inequalities \cup {"="}
  <2>1. operators \in {Inequalities, Inequalities \cup {"="}}
    OBVIOUS
  <2> HIDE DEF operators
  <2>2. range = RangeOf(q, operators)
    BY <1>1 DEF operators
  <2> QED BY <1>3, <1>8, <1>10, <1>11, <2>1, <2>2, RangeHolds, SeenProper DEF operators
<1>13. ASSUME NEW i \in 1 .. Len(range[2])
       PROVE  /\ range[2][i][1] \in Inequalities \cup {"="} /\ Satisfies(v, range[2][i])
              /\ Orderable(range[2][i][2]) /\ SortKind(range[2][i][2]) = SortKind(v)
  <2> DEFINE b == range[2][i][2]
  <2>1. Proper(b)
    BY <1>1, <1>3, RangeLiterals
  <2>2. ~ IsNull(b) /\ Satisfies(v, range[2][i])
    BY <1>12
  <2>3. Compare(v, b) # "none"
    BY <2>2 DEF Satisfies
  <2>4. Kind(v) = "Int" => Kind(b) # "Bool"
    <3>1. SUFFICES ASSUME Kind(v) = "Int" PROVE FieldOf(fields, c).type = << "Int" >>
      BY <1>2 DEF SortedTrusted
    <3>2. TypeOf(v) = << "Int" >>
      BY <3>1 DEF TypeOf
    <3>3. TypeOf(v) = FieldOf(fields, c).type
      BY <1>8, <1>12, <3>1 DEF Compatible
    <3> QED BY <3>2, <3>3
  <2>5. Orderable(v)
    BY <1>10, <1>12
  <2>6. range[2][i][1] \in Inequalities \cup {"="}
    BY <1>12 DEF Inequalities
  <2> HIDE DEF v, b
  <2>7. Orderable(b) /\ SortKind(b) = SortKind(v)
    BY <2>1, <2>2, <2>3, <2>4, <2>5, BoundOrderable
  <2> QED BY <2>2, <2>6, <2>7 DEF b
<1>14. PICK x : x = << v, id >>
  OBVIOUS
<1>15. x \in P /\ x[1] = v /\ x[2] = id
  BY <1>9, <1>12, <1>14
<1>16. id \in SortedIds(idx, range[2])
  <2> HIDE DEF P, v, idx, c
  <2>1. x[2] \in SortedIds(idx, range[2])
    BY <1>6, <1>7, <1>13, <1>15, SortedFinds
  <2> QED BY <1>15, <2>1
<1> QED BY <1>16 DEF Reads, range

-----------------------------------------------------------------------------
(* Zone maps.                                                               *)

(* Values of one kind compare by their data, if at all.                     *)
LEMMA OneKind ==
  ASSUME NEW kind, NEW v, NEW w, Proper(v), Proper(w), OfKind(v, kind), OfKind(w, kind), ~ IsNull(v), ~ IsNull(w)
  PROVE  \/ Compare(v, w) = "none"
         \/ /\ Kind(v) = kind /\ Kind(w) = kind /\ kind \in {"Int", "Float", "Double", "Text", "Bool"}
            /\ Datum(v) \in Int /\ Datum(w) \in Int /\ Compare(v, w) = Order(Datum(v), Datum(w))
<1>1. DOMAIN Spelling \subseteq Int
  BY DEF Spelling
<1>2. (Kind(v) = kind \/ Kind(v) = "NaN") /\ (Kind(w) = kind \/ Kind(w) = "NaN")
  BY DEF OfKind
<1>3. CASE Kind(v) = kind /\ Kind(w) = kind
  <2>1. CASE kind \in {"Int", "Float", "Double"}
    BY <1>3, <2>1 DEF Compare, Proper, IsNumber
  <2>2. CASE kind = "Text"
    BY <1>1, <1>3, <2>2 DEF Compare, Proper, IsNumber
  <2>3. CASE kind = "Bool"
    BY <1>3, <2>3 DEF Compare, Proper, IsNumber
  <2>4. CASE kind \notin {"Int", "Float", "Double", "Text", "Bool"}
    BY <1>3, <2>4 DEF Compare, IsNumber
  <2> QED BY <2>1, <2>2, <2>3, <2>4
<1>4. CASE Kind(v) = "NaN" \/ Kind(w) = "NaN"
  BY <1>4 DEF Compare, IsNumber
<1> QED BY <1>2, <1>3, <1>4

(* The order goes on from one value to the next.                            *)
LEMMA Onward ==
  ASSUME NEW kind, NEW u, NEW v, NEW w, Proper(u), Proper(v), Proper(w),
         OfKind(u, kind), OfKind(v, kind), OfKind(w, kind), ~ IsNull(u), ~ IsNull(v), ~ IsNull(w)
  PROVE  /\ Compare(u, v) = "less" /\ Compare(v, w) # "greater" => Compare(u, w) # "greater"
         /\ Compare(u, v) = "greater" /\ Compare(v, w) # "less" => Compare(u, w) # "less"
<1>1. \/ Compare(u, v) = "none"
      \/ /\ Kind(u) = kind /\ Kind(v) = kind /\ kind \in {"Int", "Float", "Double", "Text", "Bool"}
         /\ Datum(u) \in Int /\ Datum(v) \in Int /\ Compare(u, v) = Order(Datum(u), Datum(v))
  BY OneKind
<1>2. \/ Compare(u, w) = "none"
      \/ /\ Kind(u) = kind /\ Kind(w) = kind /\ kind \in {"Int", "Float", "Double", "Text", "Bool"}
         /\ Datum(u) \in Int /\ Datum(w) \in Int /\ Compare(u, w) = Order(Datum(u), Datum(w))
  BY OneKind
<1>3. Kind(v) = kind /\ Kind(w) = kind /\ kind \in {"Int", "Float", "Double", "Text", "Bool"}
        => Compare(v, w) = Order(Datum(v), Datum(w))
  BY DEF Compare, IsNumber
<1> QED BY <1>1, <1>2, <1>3 DEF Order

(* What statistics say of the values they are of.                           *)
Between(s, v) ==
  ~ IsNull(s.min) /\ ~ IsNull(s.max) /\ Compare(s.min, v) # "greater" /\ Compare(s.max, v) # "less"

IsStats(s, kind) ==
  /\ s = [nulls |-> s.nulls, min |-> s.min, max |-> s.max]
  /\ Proper(s.min) /\ OfKind(s.min, kind) /\ Proper(s.max) /\ OfKind(s.max, kind)

LEMMA MergeBounds ==
  ASSUME NEW kind, NEW s, IsStats(s, kind), NEW v, Proper(v), OfKind(v, kind)
  PROVE  /\ IsStats(MergeValue(s, v), kind)
         /\ ~ IsNull(v) => Between(MergeValue(s, v), v)
         /\ \A w : Proper(w) /\ OfKind(w, kind) /\ ~ IsNull(w) /\ Between(s, w) => Between(MergeValue(s, v), w)
<1>1. CASE IsNull(v)
  <2>1. MergeValue(s, v) = [s EXCEPT !.nulls = @ + 1]
    BY <1>1 DEF MergeValue
  <2>2. MergeValue(s, v) = [nulls |-> s.nulls + 1, min |-> s.min, max |-> s.max]
    BY <2>1 DEF IsStats
  <2>3. PICK t : t = MergeValue(s, v)
    OBVIOUS
  <2>4. t = [nulls |-> t.nulls, min |-> t.min, max |-> t.max] /\ t.min = s.min /\ t.max = s.max
    BY <2>2, <2>3
  <2> QED BY <1>1, <2>3, <2>4 DEF IsStats, Between
<1>2. CASE ~ IsNull(v)
  <2>1. PICK min : min = IF IsNull(s.min) \/ Compare(v, s.min) = "less" THEN v ELSE s.min
    OBVIOUS
  <2>2. PICK max : max = IF IsNull(s.max) \/ Compare(v, s.max) = "greater" THEN v ELSE s.max
    OBVIOUS
  <2>3. MergeValue(s, v) = [nulls |-> s.nulls, min |-> min, max |-> max]
    BY <1>2, <2>1, <2>2 DEF MergeValue, IsStats
  <2>4. PICK t : t = MergeValue(s, v)
    OBVIOUS
  <2>5. t = [nulls |-> t.nulls, min |-> t.min, max |-> t.max] /\ t.min = min /\ t.max = max
    BY <2>3, <2>4
  <2>6. Proper(s.min) /\ OfKind(s.min, kind) /\ Proper(s.max) /\ OfKind(s.max, kind)
    BY DEF IsStats
  <2>7. /\ Proper(min) /\ OfKind(min, kind) /\ Proper(max) /\ OfKind(max, kind)
        /\ ~ IsNull(min) /\ ~ IsNull(max)
    BY <1>2, <2>1, <2>2, <2>6
  <2>8. Compare(min, v) # "greater" /\ Compare(max, v) # "less"
    <3>1. Compare(v, v) \notin {"greater", "less"}
      BY CompareFlips
    <3>2. Compare(min, v) # "greater"
      <4>1. CASE min = v
        BY <3>1, <4>1
      <4>2. CASE min = s.min /\ Compare(v, s.min) # "less"
        BY <2>6, <4>2, CompareFlips
      <4> QED BY <2>1, <4>1, <4>2
    <3>3. Compare(max, v) # "less"
      <4>1. CASE max = v
        BY <3>1, <4>1
      <4>2. CASE max = s.max /\ Compare(v, s.max) # "greater"
        BY <2>6, <4>2, CompareFlips
      <4> QED BY <2>2, <4>1, <4>2
    <3> QED BY <3>2, <3>3
  <2>9. ASSUME NEW w, Proper(w), OfKind(w, kind), ~ IsNull(w), Between(s, w)
        PROVE  Compare(min, w) # "greater" /\ Compare(max, w) # "less"
    <3>1. ~ IsNull(s.min) /\ ~ IsNull(s.max) /\ Compare(s.min, w) # "greater" /\ Compare(s.max, w) # "less"
      BY <2>9 DEF Between
    <3>2. Compare(min, w) # "greater"
      <4>1. CASE min = s.min
        BY <3>1, <4>1
      <4>2. CASE min = v /\ Compare(v, s.min) = "less"
        BY <1>2, <2>6, <2>9, <3>1, <4>2, Onward
      <4> QED BY <2>1, <3>1, <4>1, <4>2
    <3>3. Compare(max, w) # "less"
      <4>1. CASE max = s.max
        BY <3>1, <4>1
      <4>2. CASE max = v /\ Compare(v, s.max) = "greater"
        BY <1>2, <2>6, <2>9, <3>1, <4>2, Onward
      <4> QED BY <2>2, <3>1, <4>1, <4>2
    <3> QED BY <3>2, <3>3
  <2>10. IsStats(t, kind)
    BY <2>5, <2>7 DEF IsStats
  <2>11. Between(t, v)
    BY <2>5, <2>7, <2>8 DEF Between
  <2>12. \A w : Proper(w) /\ OfKind(w, kind) /\ ~ IsNull(w) /\ Between(s, w) => Between(t, w)
    BY <2>5, <2>7, <2>9 DEF Between
  <2> QED BY <2>4, <2>10, <2>11, <2>12
<1> QED BY <1>1, <1>2

-----------------------------------------------------------------------------

(* The statistics of rows bound the values of those rows.                   *)
LEMMA StatsBound ==
  ASSUME NEW rs, IsSeq(rs), NEW c, NEW kind,
         \A i \in 1 .. Len(rs) : HasColumn(rs[i], c) /\ Proper(Get(rs[i], c)) /\ OfKind(Get(rs[i], c), kind),
         NEW i \in 1 .. Len(rs), ~ IsNull(Get(rs[i], c))
  PROVE  IsStats(StatsOf(rs, c), kind) /\ Between(StatsOf(rs, c), Get(rs[i], c))
<1> DEFINE m == Len(rs)
<1>1. m \in Nat
  BY SeqParts
<1>2. PICK v : v = [j \in 1 .. m |-> Get(rs[j], c)]
  OBVIOUS
<1>3. \A j \in 1 .. m : v[j] = Get(rs[j], c)
  BY <1>2
<1>4. PICK f : f = Counting(rs, c, m, f) /\ StatsOf(rs, c) = f[m]
  BY <1>1, StatsCounting
<1> DEFINE G == {n \in 0 .. m : IsStats(f[n], kind) /\ \A j \in 1 .. n : ~ IsNull(v[j]) => Between(f[n], v[j])}
<1>5. 0 \in G
  <2>1. 0 \in 0 .. m /\ f[0] = EmptyStats
    BY <1>1, <1>4 DEF Counting
  <2>2. IsStats(EmptyStats, kind)
    BY DEF IsStats, EmptyStats, Proper, OfKind, Null, Kind, IsNull, IsNumber
  <2>3. 1 .. 0 = {}
    OBVIOUS
  <2> QED BY <2>1, <2>2, <2>3
<1>6. ASSUME NEW n \in 1 .. m, n - 1 \in G PROVE n \in G
  <2>1. n \in 0 .. m /\ n # 0 /\ n - 1 \in 0 .. m /\ 1 .. n = (1 .. n - 1) \cup {n}
    BY <1>1
  <2>2. f[n] = StatsAfter(f[n - 1], rs[n], c)
    BY <1>4, <2>1 DEF Counting
  <2>3. HasColumn(rs[n], c) /\ Proper(v[n]) /\ OfKind(v[n], kind) /\ v[n] = Get(rs[n], c)
    BY <1>3
  <2>4. f[n] = MergeValue(f[n - 1], v[n])
    BY <2>2, <2>3 DEF StatsAfter
  <2>5. IsStats(f[n - 1], kind) /\ \A j \in 1 .. n - 1 : ~ IsNull(v[j]) => Between(f[n - 1], v[j])
    BY <1>6
  <2>6. /\ IsStats(f[n], kind)
        /\ ~ IsNull(v[n]) => Between(f[n], v[n])
        /\ \A w : Proper(w) /\ OfKind(w, kind) /\ ~ IsNull(w) /\ Between(f[n - 1], w) => Between(f[n], w)
    BY <2>3, <2>4, <2>5, MergeBounds
  <2>7. \A j \in 1 .. n - 1 : j \in 1 .. m /\ Proper(v[j]) /\ OfKind(v[j], kind)
    BY <1>1, <1>3
  <2>8. \A j \in 1 .. n - 1 : ~ IsNull(v[j]) => Between(f[n], v[j])
    BY <2>5, <2>6, <2>7
  <2>9. ASSUME NEW j \in 1 .. n, ~ IsNull(v[j]) PROVE Between(f[n], v[j])
    <3>1. CASE j = n
      BY <2>6, <2>9, <3>1
    <3>2. CASE j # n
      <4>1. j \in 1 .. n - 1
        BY <2>1, <3>2
      <4> QED BY <2>8, <2>9, <4>1
    <3> QED BY <3>1, <3>2
  <2> QED BY <2>1, <2>6, <2>9
<1>7. m \in G
  <2> HIDE DEF G
  <2>1. \A n \in 1 .. m : n - 1 \in G => n \in G
    BY <1>6
  <2> QED BY <1>1, <1>5, <2>1, Climb
<1> QED BY <1>3, <1>4, <1>7
(* A value between the bounds that satisfies a constraint lets them match.  *)
LEMMA BoundsMatch ==
  ASSUME NEW kind, NEW s, IsStats(s, kind), NEW v, Proper(v), OfKind(v, kind), ~ IsNull(v), Between(s, v),
         NEW constraint, Satisfies(v, constraint), constraint[1] \in Inequalities,
         Proper(constraint[2]), ~ IsNull(constraint[2])
  PROVE  CouldMatch(constraint[1], s.min, s.max, constraint[2])
<1> DEFINE op == constraint[1]
           b == constraint[2]
<1>1. Compare(v, b) # "none" /\ Admits(op, Compare(v, b))
  BY DEF Satisfies
<1>2. /\ Proper(s.min) /\ OfKind(s.min, kind) /\ Proper(s.max) /\ OfKind(s.max, kind)
      /\ ~ IsNull(s.min) /\ ~ IsNull(s.max) /\ Compare(s.min, v) # "greater" /\ Compare(s.max, v) # "less"
  BY DEF IsStats, Between
<1>3. DOMAIN Spelling \subseteq Int
  BY DEF Spelling
<1> HIDE DEF op, b
<1>4. ASSUME NEW u, Proper(u), OfKind(u, kind), ~ IsNull(u)
      PROVE  \/ Compare(u, b) = "none"
             \/ /\ Datum(u) \in Int /\ Datum(v) \in Int /\ Datum(b) \in Int
                /\ Compare(u, b) = Order(Datum(u), Datum(b))
                /\ Compare(v, b) = Order(Datum(v), Datum(b))
                /\ Compare(u, v) = Order(Datum(u), Datum(v))
  <2>1. SUFFICES ASSUME Compare(u, b) # "none"
                 PROVE  /\ Datum(u) \in Int /\ Datum(v) \in Int /\ Datum(b) \in Int
                        /\ Compare(u, b) = Order(Datum(u), Datum(b))
                        /\ Compare(v, b) = Order(Datum(v), Datum(b))
                        /\ Compare(u, v) = Order(Datum(u), Datum(v))
    OBVIOUS
  <2>2. ~ IsNull(b)
    BY DEF b
  <2>3. Kind(u) # "NaN" /\ Kind(v) # "NaN"
    BY <1>1, <1>4, <2>1, <2>2 DEF Compare, IsNumber
  <2>4. Kind(u) = kind /\ Kind(v) = kind
    BY <1>4, <2>3 DEF OfKind
  <2>5. /\ Compare(u, b) = Order(Datum(u), Datum(b)) /\ Compare(v, b) = Order(Datum(v), Datum(b))
    BY <1>1, <1>4, <2>1, <2>2 DEF Compare
  <2>6. /\ Kind(u) \in {"Int", "Float", "Double", "Text", "Bool"}
        /\ Kind(b) \in {"Int", "Float", "Double", "Text", "Bool"}
    <3>1. \/ IsNumber(u) /\ IsNumber(b)
          \/ Kind(u) = Kind(b) /\ Kind(u) \in {"Text", "Bool"}
          \/ {Kind(u), Kind(b)} = {"Bool", "Int"}
      BY <1>4, <2>1, <2>2 DEF Compare
    <3> QED BY <3>1 DEF IsNumber
  <2>7. \A x : Proper(x) /\ Kind(x) \in {"Int", "Float", "Double", "Text", "Bool"} => Datum(x) \in Int
    BY <1>3 DEF Proper, IsNumber
  <2>8. Proper(b)
    BY DEF b
  <2>9. Compare(u, v) = Order(Datum(u), Datum(v))
    BY <1>4, <2>4, <2>6 DEF Compare, IsNumber
  <2> QED BY <1>4, <2>4, <2>5, <2>6, <2>7, <2>8, <2>9
<1>5. ASSUME op \in {"<", "<="} PROVE CouldMatch(op, s.min, s.max, b)
  <2>1. Compare(s.min, b) # "greater" /\ (op = "<" => Compare(s.min, b) # "equal")
    <3>1. CASE Compare(s.min, b) = "none"
      BY <3>1
    <3>2. CASE Compare(s.min, b) # "none"
      <4>1. /\ Datum(s.min) \in Int /\ Datum(v) \in Int /\ Datum(b) \in Int
            /\ Compare(s.min, b) = Order(Datum(s.min), Datum(b))
            /\ Compare(v, b) = Order(Datum(v), Datum(b))
            /\ Compare(s.min, v) = Order(Datum(s.min), Datum(v))
        BY <1>2, <1>4, <3>2
      <4>2. Datum(s.min) <= Datum(v)
        BY <1>2, <4>1 DEF Order
      <4>3. CASE op = "<"
        <5>1. Compare(v, b) = "less"
          BY <1>1, <4>3 DEF Admits
        <5>2. Datum(v) < Datum(b)
          BY <4>1, <5>1 DEF Order
        <5> QED BY <4>1, <4>2, <5>2 DEF Order
      <4>4. CASE op = "<="
        <5>1. Compare(v, b) # "greater"
          BY <1>1, <4>4 DEF Admits
        <5>2. Datum(v) <= Datum(b)
          BY <4>1, <5>1 DEF Order
        <5> QED BY <4>1, <4>2, <4>4, <5>2 DEF Order
      <4> QED BY <1>5, <4>3, <4>4
    <3> QED BY <3>1, <3>2
  <2>2. CASE op = "<"
    BY <2>1, <2>2 DEF CouldMatch
  <2>3. CASE op = "<="
    BY <2>1, <2>3 DEF CouldMatch
  <2> QED BY <1>5, <2>2, <2>3
<1>6. ASSUME op \in {">", ">="} PROVE CouldMatch(op, s.min, s.max, b)
  <2>1. Compare(s.max, b) # "less" /\ (op = ">" => Compare(s.max, b) # "equal")
    <3>1. CASE Compare(s.max, b) = "none"
      BY <3>1
    <3>2. CASE Compare(s.max, b) # "none"
      <4>1. /\ Datum(s.max) \in Int /\ Datum(v) \in Int /\ Datum(b) \in Int
            /\ Compare(s.max, b) = Order(Datum(s.max), Datum(b))
            /\ Compare(v, b) = Order(Datum(v), Datum(b))
            /\ Compare(s.max, v) = Order(Datum(s.max), Datum(v))
        BY <1>2, <1>4, <3>2
      <4>2. Datum(v) <= Datum(s.max)
        BY <1>2, <4>1 DEF Order
      <4>3. CASE op = ">"
        <5>1. Compare(v, b) = "greater"
          BY <1>1, <4>3 DEF Admits
        <5>2. Datum(b) < Datum(v)
          BY <4>1, <5>1 DEF Order
        <5> QED BY <4>1, <4>2, <5>2 DEF Order
      <4>4. CASE op = ">="
        <5>1. Compare(v, b) # "less"
          BY <1>1, <4>4 DEF Admits
        <5>2. Datum(b) <= Datum(v)
          BY <4>1, <5>1 DEF Order
        <5> QED BY <4>1, <4>2, <4>4, <5>2 DEF Order
      <4> QED BY <1>6, <4>3, <4>4
    <3> QED BY <3>1, <3>2
  <2>2. CASE op = ">"
    BY <2>1, <2>2 DEF CouldMatch
  <2>3. CASE op = ">="
    BY <2>1, <2>3 DEF CouldMatch
  <2> QED BY <1>6, <2>2, <2>3
<1>7. op \in {"<", "<="} \/ op \in {">", ">="}
  BY DEF op, Inequalities
<1> QED BY <1>5, <1>6, <1>7 DEF op, b

(* Every row is in one chunk.                                               *)
LEMMA InChunk ==
  ASSUME NEW n \in Nat, NEW id \in 1 .. n
  PROVE  \E k \in 1 .. Chunks(n) : \A j \in 1 .. Chunks(n) :
           (j - 1) * BatchSize < id /\ id <= ChunkEnd(j, n) <=> j = k
<1> DEFINE b == BatchSize
<1>1. b \in Nat \ {0}
  BY Bounds
<1>2. PICK m : m = Chunks(n)
  OBVIOUS
<1>3. m \in Nat /\ n <= m * b
  BY <1>2, ChunksIs
<1>4. PICK q : q = (id - 1) \div b
  OBVIOUS
<1>5. id - 1 \in Nat /\ id \in Nat
  OBVIOUS
<1> HIDE DEF b
<1>6. q \in Nat /\ q * b <= id - 1 /\ id - 1 < q * b + b
  BY <1>1, <1>4, <1>5, DivIs
<1>7. q * b \in Nat /\ m * b \in Nat
  BY <1>1, <1>3, <1>6, TimesNext
<1>8. q < m
  <2>1. SUFFICES ASSUME m <= q PROVE FALSE
    BY <1>3, <1>6
  <2>2. m * b <= q * b
    BY <1>1, <1>3, <1>6, <2>1, TimesOrder
  <2> QED BY <1>3, <1>5, <1>6, <1>7, <2>2
<1>9. q + 1 \in 1 .. m
  BY <1>3, <1>6, <1>8
<1>10. ASSUME NEW j \in 1 .. m
       PROVE  (j - 1) * b < id /\ id <= ChunkEnd(j, n) <=> j = q + 1
  <2>1. PICK i \in Nat : i = j - 1
    BY <1>3
  <2>2. ChunkEnd(j, n) = IF i * b + b < n THEN i * b + b ELSE n
    BY <2>1 DEF ChunkEnd, b
  <2>3. i * b \in Nat
    BY <1>1, <2>1, TimesNext
  <2>4. i * b < id /\ id <= ChunkEnd(j, n) <=> i * b <= id - 1 /\ id - 1 < i * b + b
    BY <1>1, <1>5, <2>2, <2>3
  <2>5. i = q => i * b <= id - 1 /\ id - 1 < i * b + b
    BY <1>6
  <2>6. i * b <= id - 1 /\ id - 1 < i * b + b => i = q
    BY <1>1, <1>4, <1>5, <2>1, DivOnce
  <2>7. j = q + 1 <=> i = q
    BY <1>6, <2>1
  <2> QED BY <2>1, <2>4, <2>5, <2>6, <2>7
<1> QED BY <1>2, <1>9, <1>10 DEF b

(* A scan of the partitions a range leaves.                                 *)
LEMMA PrunedReads ==
  ASSUME Evaluating, Choosing, IndexInv, ValuesInv, ZonesFit, exists, "rows" \notin stale, NEW p \in Questions,
         RangeOf(p, Inequalities) # << >>, Trusted(p, "pruned"), NEW id \in 1 .. Len(rows), Chosen(p, Seen(id))
  PROVE  Reads(p, "pruned", id) = 1
<1> DEFINE range == RangeOf(p, Inequalities)
           c == range[1]
           inside(k) == partitions[k].start < id /\ id <= partitions[k].end
           T == {k \in Surviving(range) : inside(k)}
<1>1. PICK n : n = Len(rows)
  OBVIOUS
<1>2. n \in Nat /\ IsSeq(rows)
  BY <1>1, SeqParts DEF IndexInv, Shape
<1>3. "zones" \notin stale /\ c \notin DOMAIN lazyExpr
  BY DEF Trusted, Lazy
<1>4. partitions = [k \in 1 .. Chunks(n) |-> Chunk(fields, rows, k)]
  BY <1>1, <1>3, PartitionsIs DEF ZonesFit
<1>5. PICK m : m = Chunks(n) /\ m \in Nat
  BY <1>2, ChunksIs
<1>6. Len(partitions) = m /\ \A k \in 1 .. m : partitions[k] = Chunk(fields, rows, k)
  BY <1>4, <1>5
<1>7. \A k \in 1 .. m : /\ partitions[k].start = (k - 1) * BatchSize
                        /\ partitions[k].end = ChunkEnd(k, n)
                        /\ partitions[k].stats = ColumnStats(fields, SubSeq(rows, (k - 1) * BatchSize + 1, ChunkEnd(k, n)))
  BY <1>1, <1>6 DEF Chunk
<1>8. PICK k \in 1 .. m : \A j \in 1 .. m : inside(j) <=> j = k
  <2>1. id \in 1 .. n
    BY <1>1
  <2>2. PICK k \in 1 .. m : \A j \in 1 .. m : (j - 1) * BatchSize < id /\ id <= ChunkEnd(j, n) <=> j = k
    BY <1>2, <1>5, <2>1, InChunk
  <2>3. \A j \in 1 .. m : inside(j) <=> (j - 1) * BatchSize < id /\ id <= ChunkEnd(j, n)
    BY <1>7
  <2> HIDE DEF inside
  <2> QED BY <2>2, <2>3
<1>9. p \in Asked(p) /\ range # << >>
  BY DEF Asked
<1>10. PICK start : start = (k - 1) * BatchSize
  OBVIOUS
<1>11. PICK end : end = ChunkEnd(k, n)
  OBVIOUS
<1>12. start \in Nat /\ start < end /\ end \in 1 .. n /\ start < id /\ id <= end
  <2>1. start \in Nat /\ start < end /\ end \in 1 .. n
    BY <1>2, <1>5, <1>10, <1>11, ChunkEnds
  <2> QED BY <1>7, <1>8, <1>10, <1>11, <2>1
<1>13. PICK part : part = SubSeq(rows, start + 1, end)
  OBVIOUS
<1>14. /\ IsSeq(part) /\ Len(part) = end - start /\ \A i \in 1 .. Len(part) : part[i] = rows[start + i]
  <2>1. start + 1 \in Nat /\ end \in Nat /\ start + 1 <= end + 1 /\ end - (start + 1) + 1 = end - start
    BY <1>12
  <2>2. \A i \in 1 .. end - start : (start + 1) + i - 1 = start + i
    BY <1>12
  <2>3. /\ IsSeq(part) /\ Len(part) = end - (start + 1) + 1
        /\ \A i \in 1 .. end - (start + 1) + 1 : part[i] = rows[(start + 1) + i - 1]
    BY <1>13, <2>1, SubSeqIs
  <2>4. Len(part) = end - start /\ \A i \in 1 .. end - start : part[i] = rows[(start + 1) + i - 1]
    BY <2>1, <2>3
  <2>5. \A i \in 1 .. end - start : part[i] = rows[start + i]
    BY <2>2, <2>4
  <2> QED BY <2>3, <2>4, <2>5
<1>15. \A i \in 1 .. Len(part) : start + i \in 1 .. n
  BY <1>2, <1>12, <1>14
<1>16. partitions[k].stats = ColumnStats(fields, part)
  BY <1>7, <1>10, <1>11, <1>13
<1> HIDE DEF range
<1>17. Survives(partitions[k], range)
  <2>1. CASE c \notin SetOfNames(fields)
    <3>1. DOMAIN partitions[k].stats = SetOfNames(fields)
      BY <1>16 DEF ColumnStats
    <3> QED BY <2>1, <3>1 DEF Survives
  <2>2. CASE c \in SetOfNames(fields)
    <3> DEFINE kind == FieldOf(fields, c).type[1]
               s == StatsOf(part, c)
               v == Get(rows[id], c)
    <3>1. partitions[k].stats[c] = s
      BY <1>16, <2>2 DEF ColumnStats
    <3>2. ASSUME NEW j \in 1 .. n
          PROVE  /\ HasColumn(rows[j], c) /\ HasColumn(Seen(j), c) /\ Get(Seen(j), c) = Get(rows[j], c)
                 /\ Proper(Get(rows[j], c)) /\ OfKind(Get(rows[j], c), kind)
      <4>1. /\ HasColumn(rows[j], c) /\ HasColumn(Seen(j), c) /\ Get(Seen(j), c) = Get(rows[j], c)
            /\ Proper(Get(rows[j], c)) /\ Compatible(FieldOf(fields, c), Get(rows[j], c))
        BY <1>1, <1>3, <2>2, SeenIs
      <4> QED BY <4>1, CompatibleKind
    <3>3. id \in 1 .. n
      BY <1>1
    <3>4. HasColumn(Seen(id), c) /\ v = Get(Seen(id), c) /\ Proper(v) /\ OfKind(v, kind)
      BY <3>2, <3>3
    <3> HIDE DEF v, kind, s
    <3>5. /\ ~ IsNull(v)
          /\ \A i \in 1 .. Len(range[2]) :
               /\ range[2][i][1] \in Inequalities \cup {">=", "<="} /\ ~ IsNull(range[2][i][2])
               /\ Satisfies(v, range[2][i])
      <4> DEFINE operators == Inequalities
      <4>1. operators \in {Inequalities, Inequalities \cup {"="}} /\ operators = Inequalities
        OBVIOUS
      <4> HIDE DEF operators
      <4>2. range = RangeOf(p, operators)
        BY <4>1 DEF range
      <4> QED BY <1>9, <3>4, <4>1, <4>2, RangeHolds, SeenProper
    <3>6. \A i \in 1 .. Len(part) : HasColumn(part[i], c) /\ Proper(Get(part[i], c)) /\ OfKind(Get(part[i], c), kind)
      BY <1>14, <1>15, <3>2
    <3>7. PICK i : i = id - start
      OBVIOUS
    <3>8. i \in 1 .. Len(part) /\ start + i = id
      BY <1>12, <1>14, <3>3, <3>7
    <3>9. Get(part[i], c) = v
      BY <1>14, <3>8 DEF v
    <3>10. IsStats(s, kind) /\ Between(s, v)
      BY <1>14, <3>5, <3>6, <3>8, <3>9, StatsBound DEF s
    <3>11. ASSUME NEW l \in 1 .. Len(range[2]) PROVE CouldMatch(range[2][l][1], s.min, s.max, range[2][l][2])
      <4>1. range[2][l][1] \in Inequalities
        BY <3>5 DEF Inequalities
      <4>2. Proper(range[2][l][2])
        <5> DEFINE operators == Inequalities
        <5>1. operators \in {Inequalities, Inequalities \cup {"="}} /\ operators = Inequalities
          OBVIOUS
        <5> HIDE DEF operators
        <5>2. range = RangeOf(p, operators)
          BY <5>1 DEF range
        <5> QED BY <1>9, <5>1, <5>2, RangeLiterals
      <4> QED BY <3>4, <3>5, <3>10, <4>1, <4>2, BoundsMatch
    <3> QED BY <3>1, <3>11 DEF Survives
  <2> QED BY <2>1, <2>2
<1>18. T = {k}
  <2>1. Surviving(range) \subseteq 1 .. m /\ k \in Surviving(range)
    BY <1>6, <1>17 DEF Surviving
  <2> HIDE DEF inside
  <2> QED BY <1>8, <2>1
<1>19. Reads(p, "pruned", id) = Cardinality(T)
  BY DEF Reads, range
<1> HIDE DEF T
<1>20. Cardinality({k}) = 1
  BY FS_Singleton
<1> QED BY <1>18, <1>19, <1>20

-----------------------------------------------------------------------------
LEMMA PathsAgreeNow ==
  ASSUME Evaluating, Choosing, Spelt, IndexInv, ZonesFit, ValuesInv
  PROVE  PathsAgree
<1>1. SUFFICES ASSUME NEW p \in Questions, NEW path, path = Path(p), exists, "rows" \notin stale, Trusted(p, path)
               PROVE  Answer(p, path) = Scanned(p)
  BY DEF PathsAgree, Applicable
<1>2. path \in {"hash", "sorted", "pruned", "scan"}
  BY <1>1 DEF Path
<1>3. ASSUME NEW id \in 1 .. Len(rows)
      PROVE  (IF path = "hash" \/ Chosen(p, Seen(id)) THEN Reads(p, path, id) ELSE 0)
               = IF Chosen(p, Seen(id)) THEN 1 ELSE 0
  <2>1. CASE path = "hash"
    <3>1. Reads(p, "hash", id) = IF Chosen(p, Seen(id)) THEN 1 ELSE 0
      BY <1>1, <2>1, HashReads
    <3> QED BY <2>1, <3>1
  <2>2. CASE path = "sorted" /\ Chosen(p, Seen(id))
    <3>1. SortedRange(p) # << >>
      BY <1>1, <2>2 DEF Path
    <3> QED BY <1>1, <2>2, <3>1, SortedReads
  <2>3. CASE path = "pruned" /\ Chosen(p, Seen(id))
    <3>1. RangeOf(p, Inequalities) # << >>
      BY <1>1, <2>3 DEF Path
    <3> QED BY <1>1, <2>3, <3>1, PrunedReads
  <2>4. CASE path = "scan"
    <3>1. Reads(p, path, id) = 1
      BY <2>4 DEF Reads
    <3> QED BY <2>4, <3>1
  <2>5. CASE path # "hash" /\ ~ Chosen(p, Seen(id))
    BY <2>5
  <2> QED BY <1>2, <2>1, <2>2, <2>3, <2>4, <2>5
<1> QED BY <1>3 DEF Answer, Scanned

(***************************************************************************)
(* Whatever came before, the path the planner picks for a predicate        *)
(* answers with the rows a scan would, each once: a HASH index for         *)
(* equality, a SORTED index for the range of a conjunct, the partitions    *)
(* whose zone maps a range leaves. What is left out is in Trusted.         *)
(***************************************************************************)
THEOREM PathsAlwaysAgree == Evaluating /\ Choosing /\ Spelt => (Spec => []PathsAgree)
<1>1. Init => IndexInv /\ ZonesFit /\ ValuesInv
  BY IndexInvInit, ValuesInvInit DEF Init, ZonesFit
<1>2. Evaluating /\ IndexInv /\ ZonesFit /\ ValuesInv /\ [Next]_vars => IndexInv' /\ ZonesFit' /\ ValuesInv'
  BY IndexInvStep, ZonesStep, ValuesStep
<1>3. Evaluating /\ Choosing /\ Spelt /\ IndexInv /\ ZonesFit /\ ValuesInv => PathsAgree
  BY PathsAgreeNow
<1>4. SUFFICES ASSUME Evaluating, Choosing, Spelt PROVE Spec => []PathsAgree
  OBVIOUS
<1> QED BY <1>1, <1>2, <1>3, <1>4, PTL DEF Spec
=============================================================================
