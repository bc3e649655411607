--------------------------- MODULE LineageProofs ----------------------------
(***************************************************************************)
(* The provenance log for any names, contents and number of events: the    *)
(* lineage of a dataset is kept by everything but a new record about it.   *)
(*                                                                         *)
(* An ancestry is a tree over positions in the log. Each step but PRUNE    *)
(* LINEAGE only appends, and nothing it appends makes the dataset's        *)
(* contents under its name; PRUNE LINEAGE moves records without changing   *)
(* their order, and those that the tree goes through are kept. In both     *)
(* cases two trees, of the log before and of the log after, are walked     *)
(* side by side from the first record on.                                  *)
(***************************************************************************)
EXTENDS Lineage, SequenceTheorems, NaturalsInduction, WellFoundedInduction, TLAPS

IsSeq(s) == s \in Seq(Range(s))
-----------------------------------------------------------------------------
(* Numbers and sequences.                                                   *)

(* A set of numbers has a least one.                                        *)
LEMMA LeastOf ==
  ASSUME NEW T \in SUBSET Nat, T # {}
  PROVE  \E n \in T : \A k \in T : n <= k
<1> DEFINE R == OpToRel(<, Nat)
<1>1. IsWellFoundedOn(R, Nat)
  BY NatLessThanWellFounded
<1>2. \A x, y \in Nat : << x, y >> \in R <=> x < y
  BY DEF OpToRel
<1> HIDE DEF R
<1>3. PICK x \in T : \A y \in T : ~ (<< y, x >> \in R)
  BY <1>1, WFMin
<1>4. T \subseteq Nat /\ x \in Nat
  OBVIOUS
<1>5. \A k \in T : ~ (k < x)
  BY <1>2, <1>3, <1>4
<1>6. \A k \in T : x <= k
  BY <1>4, <1>5
<1> QED BY <1>6

(* What holds of 0 and goes on from each number to the next holds up to m.  *)
LEMMA Climb ==
  ASSUME NEW m \in Nat, NEW G, 0 \in G, \A n \in 1 .. m : n - 1 \in G => n \in G
  PROVE  m \in G
<1> DEFINE T == {n \in 0 .. m : n \notin G}
<1>1. T \in SUBSET Nat
  OBVIOUS
<1>2. SUFFICES ASSUME T # {} PROVE FALSE
  OBVIOUS
<1>3. PICK n \in T : \A k \in T : n <= k
  BY <1>1, <1>2, LeastOf
<1>4. n # 0 /\ n \in 1 .. m /\ n - 1 \in 0 .. m
  BY <1>3
<1>5. n - 1 \in G
  BY <1>3, <1>4
<1> QED BY <1>3, <1>4, <1>5

(* A sequence is a function on its indexes.                                 *)
LEMMA SeqParts ==
  ASSUME NEW s, IsSeq(s)
  PROVE  Len(s) \in Nat /\ DOMAIN s = 1 .. Len(s) /\ s = [i \in 1 .. Len(s) |-> s[i]]
BY DEF IsSeq

(* A function on 1 .. n is a sequence of length n.                          *)
LEMMA SeqMade ==
  ASSUME NEW n \in Nat, NEW f, f = [i \in 1 .. n |-> f[i]]
  PROVE  IsSeq(f) /\ Len(f) = n
<1>1. f \in Seq(Range(f))
  BY DEF Range
<1> QED BY <1>1 DEF IsSeq

(* A sequence is one over any set that has its elements.                    *)
LEMMA SeqOver ==
  ASSUME NEW s, IsSeq(s), NEW S, \A i \in 1 .. Len(s) : s[i] \in S
  PROVE  s \in Seq(S)
BY DEF IsSeq

(* Append, of any value to any sequence.                                    *)
LEMMA SeqAppend ==
  ASSUME NEW s, IsSeq(s), NEW x
  PROVE  /\ IsSeq(Append(s, x)) /\ Len(Append(s, x)) = Len(s) + 1
         /\ Append(s, x)[Len(s) + 1] = x
         /\ \A i \in 1 .. Len(s) : Append(s, x)[i] = s[i]
<1> DEFINE S == Range(s) \cup {x}
           t == Append(s, x)
<1>1. s \in Seq(S) /\ x \in S
  BY SeqOver, SeqParts DEF Range
<1> HIDE DEF S
<1>2. t \in Seq(S) /\ Len(t) = Len(s) + 1 /\ t[Len(s) + 1] = x /\ \A i \in 1 .. Len(s) : t[i] = s[i]
  BY <1>1
<1> HIDE DEF t
<1>3. Len(t) \in Nat /\ DOMAIN t = 1 .. Len(t)
  BY <1>2
<1>4. t \in Seq(Range(t))
  BY <1>2, <1>3 DEF Range
<1>5. IsSeq(t)
  BY <1>4 DEF IsSeq
<1> QED BY <1>2, <1>5 DEF t

(* Sequences are told apart by their lengths and elements.                  *)
LEMMA SameSeq ==
  ASSUME NEW s, NEW t, IsSeq(s), IsSeq(t), Len(s) = Len(t), \A i \in 1 .. Len(s) : s[i] = t[i]
  PROVE  s = t
<1>1. PICK f : f = [i \in 1 .. Len(s) |-> s[i]]
  OBVIOUS
<1>2. f = s
  BY <1>1, SeqParts
<1>3. f = [i \in 1 .. Len(t) |-> t[i]]
  BY <1>1
<1>4. f = t
  BY <1>3, SeqParts
<1> QED BY <1>2, <1>4

(* The greatest of a set of numbers with 0 added.                           *)
LEMMA MaxIs ==
  ASSUME NEW m \in Nat, NEW X \in SUBSET (1 .. m)
  PROVE  /\ X = {} => Max({0} \cup X) = 0
         /\ X # {} => Max({0} \cup X) \in X
         /\ \A k \in X : k <= Max({0} \cup X)
         /\ \A p \in X : (\A k \in X : k <= p) => Max({0} \cup X) = p
<1> DEFINE S == {0} \cup X
           U == {n \in Nat : \A k \in S : k <= n}
<1>1. m \in U /\ U \in SUBSET Nat
  OBVIOUS
<1>2. PICK n \in U : \A k \in U : n <= k
  BY <1>1, LeastOf
<1>3. n \in Nat /\ \A k \in S : k <= n
  BY <1>2
<1>4. n \in S
  <2>1. SUFFICES ASSUME n \notin S PROVE FALSE
    OBVIOUS
  <2>2. n # 0
    BY <2>1
  <2>3. ASSUME NEW k \in S PROVE k <= n - 1
    <3>1. k \in 0 .. m /\ k <= n /\ k # n
      BY <1>3, <2>1
    <3> QED BY <1>3, <3>1
  <2>4. n - 1 \in U
    BY <1>3, <2>2, <2>3
  <2> QED BY <1>2, <1>3, <2>4
<1>5. \E x \in S : \A y \in S : x >= y
  BY <1>3, <1>4
<1>6. Max(S) \in S /\ \A y \in S : Max(S) >= y
  BY <1>5 DEF Max
<1>7. S \in SUBSET Nat
  OBVIOUS
<1> HIDE DEF S
<1>8. Max(S) \in Nat /\ \A y \in S : y <= Max(S)
  BY <1>6, <1>7
<1> USE DEF S
<1>9. X = {} => Max(S) = 0
  BY <1>6
<1>10. ASSUME X # {} PROVE Max(S) \in X
  <2>1. PICK x \in X : x \in 1 .. m
    BY <1>10
  <2> QED BY <1>6, <1>8, <2>1
<1>11. ASSUME NEW p \in X, \A k \in X : k <= p PROVE Max(S) = p
  <2>1. Max(S) \in X
    BY <1>10
  <2>2. Max(S) <= p /\ p <= Max(S) /\ p \in Nat
    BY <1>8, <1>11, <2>1
  <2> QED BY <1>8, <2>2
<1> QED BY <1>8, <1>9, <1>10, <1>11

-----------------------------------------------------------------------------
(* Producers: which record made an entity.                                  *)

Naming(record, e) == e \in Range(record.outputs)

(* Record p made e for a record at `before`: it is the last that names e,   *)
(* or, if none does, the last with its contents.                            *)
Best(log, e, before, p) ==
  /\ p \in 1 .. (before - 1) /\ Makes(log[p], e.hash)
  /\ \/ Naming(log[p], e) /\ \A i \in 1 .. (before - 1) : Naming(log[i], e) => i <= p
     \/ \A i \in 1 .. (before - 1) : ~Naming(log[i], e) /\ (Makes(log[i], e.hash) => i <= p)

(* A record that names an entity has its contents.                          *)
LEMMA NamingMakes ==
  ASSUME NEW record, NEW e, Naming(record, e)
  PROVE  Makes(record, e.hash)
BY DEF Naming, Makes, Range

(* Producer finds the best record, if there is one at all.                  *)
LEMMA ProducerIs ==
  ASSUME NEW log, NEW e, NEW before \in Nat \ {0}
  PROVE  /\ Producer(log, e, before) \in 0 .. (before - 1)
         /\ Producer(log, e, before) = 0 =>
              \A i \in 1 .. (before - 1) : ~Makes(log[i], e.hash)
         /\ Producer(log, e, before) # 0 => Best(log, e, before, Producer(log, e, before))
         /\ (\A i \in 1 .. (before - 1) : ~Makes(log[i], e.hash)) => Producer(log, e, before) = 0
         /\ \A p : Best(log, e, before, p) => Producer(log, e, before) = p
<1> DEFINE makers == {i \in 1 .. (before - 1) : Makes(log[i], e.hash)}
           named == {i \in makers : Naming(log[i], e)}
           X == IF named # {} THEN named ELSE makers
           P == Producer(log, e, before)
<1>1. before - 1 \in Nat /\ X \in SUBSET (1 .. (before - 1))
  OBVIOUS
<1>2. P = Max({0} \cup X)
  BY DEF Producer, Naming
<1>3. \A i \in 1 .. (before - 1) : Naming(log[i], e) => i \in named
  BY NamingMakes
<1> HIDE DEF P
<1>4. /\ X = {} => P = 0
      /\ X # {} => P \in X
      /\ \A k \in X : k <= P
      /\ \A p \in X : (\A k \in X : k <= p) => P = p
  <2> HIDE DEF X
  <2> QED BY <1>1, <1>2, MaxIs
<1>5. P \in 0 .. (before - 1)
  BY <1>1, <1>4
<1>6. P = 0 => makers = {}
  BY <1>4
<1>7. makers = {} => P = 0
  BY <1>4
<1>8. ASSUME P # 0 PROVE Best(log, e, before, P)
  <2>1. P \in X /\ P \in makers /\ \A k \in X : k <= P
    BY <1>4, <1>8
  <2>2. CASE named # {}
    <3>1. Naming(log[P], e) /\ \A k \in named : k <= P
      BY <2>1, <2>2
    <3> QED BY <1>3, <2>1, <3>1 DEF Best
  <2>3. CASE named = {}
    <3>1. \A i \in 1 .. (before - 1) : ~Naming(log[i], e)
      BY <1>3, <2>3
    <3>2. \A i \in makers : i <= P
      BY <2>1, <2>3
    <3> QED BY <2>1, <3>1, <3>2 DEF Best
  <2> QED BY <2>2, <2>3
<1>9. ASSUME NEW p, Best(log, e, before, p) PROVE P = p
  <2>1. p \in makers
    BY <1>9 DEF Best
  <2>2. CASE Naming(log[p], e) /\ \A i \in 1 .. (before - 1) : Naming(log[i], e) => i <= p
    <3>1. p \in X /\ \A k \in X : k <= p
      BY <2>1, <2>2
    <3> QED BY <1>4, <3>1
  <2>3. CASE \A i \in 1 .. (before - 1) : ~Naming(log[i], e) /\ (Makes(log[i], e.hash) => i <= p)
    <3>1. p \in X /\ \A k \in X : k <= p
      BY <2>1, <2>3
    <3> QED BY <1>4, <3>1
  <2> QED BY <1>9, <2>2, <2>3 DEF Best
<1> QED BY <1>5, <1>6, <1>7, <1>8, <1>9 DEF P
-----------------------------------------------------------------------------
(* Trees: what each entity was made of, as seen by each record.             *)

Telling(log, entities, m, tree) ==
  [before \in 1 .. m |-> Told(log, entities, tree, before)]

(* Told of a record looks at the records before it only.                    *)
LEMMA ToldAgrees ==
  ASSUME NEW log, NEW entities, NEW before \in Nat \ {0}, NEW f, NEW g,
         \A b \in 1 .. (before - 1) : f[b] = g[b]
  PROVE  Told(log, entities, f, before) = Told(log, entities, g, before)
<1>1. \A e : Producer(log, e, before) # 0 =>
        f[Producer(log, e, before)] = g[Producer(log, e, before)]
  <2>1. \A e : Producer(log, e, before) \in 0 .. (before - 1)
    BY ProducerIs
  <2> QED BY <2>1
<1> QED BY <1>1 DEF Told

(* There is such a tree for every log.                                      *)
LEMMA TellingExists ==
  ASSUME NEW log, NEW entities, NEW m \in Nat
  PROVE  \E f : f = Telling(log, entities, m, f)
<1> DEFINE G == {i \in 0 .. m : \E f : f = Telling(log, entities, i, f)}
<1>1. 0 \in G
  <2>1. \A f : Telling(log, entities, 0, f) = << >>
    BY DEF Telling
  <2> QED BY <2>1
<1>2. ASSUME NEW n \in 1 .. m, n - 1 \in G PROVE n \in G
  <2>1. PICK f : f = Telling(log, entities, n - 1, f)
    BY <1>2
  <2>2. PICK g : g = [b \in 1 .. n |-> IF b = n THEN Told(log, entities, f, n) ELSE f[b]]
    OBVIOUS
  <2>3. \A b \in 1 .. (n - 1) : g[b] = f[b]
    BY <2>2
  <2>4. \A b \in 1 .. (n - 1) : f[b] = Told(log, entities, f, b)
    BY <2>1 DEF Telling
  <2>5. \A b \in 1 .. n : Told(log, entities, f, b) = Told(log, entities, g, b)
    <3> SUFFICES ASSUME NEW b \in 1 .. n
                 PROVE  Told(log, entities, f, b) = Told(log, entities, g, b)
      OBVIOUS
    <3>1. b \in Nat \ {0} /\ \A c \in 1 .. (b - 1) : f[c] = g[c]
      BY <2>3
    <3> QED BY <3>1, ToldAgrees
  <2>6. \A b \in 1 .. n : g[b] = Told(log, entities, g, b)
    BY <2>2, <2>3, <2>4, <2>5
  <2>7. g = [b \in 1 .. n |-> Told(log, entities, g, b)]
    <3>1. g = [b \in 1 .. n |-> g[b]]
      BY <2>2
    <3>2. PICK h : h = [b \in 1 .. n |-> Told(log, entities, g, b)]
      OBVIOUS
    <3>3. h = [b \in 1 .. n |-> h[b]] /\ \A b \in 1 .. n : h[b] = g[b]
      BY <2>6, <3>2
    <3> QED BY <3>1, <3>2, <3>3
  <2>8. g = Telling(log, entities, n, g)
    BY <2>7 DEF Telling
  <2> QED BY <2>8
<1> HIDE DEF G
<1>3. m \in G
  BY <1>1, <1>2, Climb
<1> QED BY <1>3 DEF G

(* Ancestry is read off that tree.                                          *)
LEMMA AncestryIs ==
  ASSUME NEW log, IsSeq(log), NEW e
  PROVE  \E f : /\ f = Telling(log, Entities(log) \cup {e}, Len(log) + 1, f)
                /\ Ancestry(log, e) = f[Len(log) + 1][e]
<1>1. Len(log) + 1 \in Nat
  BY SeqParts
<1>2. PICK f : f = Telling(log, Entities(log) \cup {e}, Len(log) + 1, f)
  BY <1>1, TellingExists
<1> DEFINE t == CHOOSE g : g = [before \in 1 .. (Len(log) + 1) |->
                                  Told(log, Entities(log) \cup {e}, g, before)]
<1>3. t = [before \in 1 .. (Len(log) + 1) |-> Told(log, Entities(log) \cup {e}, t, before)]
  BY <1>2 DEF Telling
<1>4. Ancestry(log, e) = t[Len(log) + 1][e]
  BY DEF Ancestry
<1> HIDE DEF t
<1>5. t = Telling(log, Entities(log) \cup {e}, Len(log) + 1, t)
  BY <1>3 DEF Telling
<1> QED BY <1>4, <1>5

(* What the tree says of an entity that record p made.                      *)
Node(log, tree, e, p) ==
  IF p = 0 THEN << "ROOT", e >>
  ELSE << log[p].op, e, [i \in DOMAIN log[p].inputs |-> tree[p][log[p].inputs[i]]] >>

LEMMA TellingAt ==
  ASSUME NEW log, NEW entities, NEW m \in Nat, NEW f, f = Telling(log, entities, m, f),
         NEW before \in 1 .. m, NEW e \in entities
  PROVE  f[before][e] = Node(log, f, e, Producer(log, e, before))
<1>1. PICK g : g = Telling(log, entities, m, f)
  OBVIOUS
<1>2. g[before] = Told(log, entities, f, before)
  BY <1>1 DEF Telling
<1>3. g = f
  BY <1>1
<1>4. f[before] = Told(log, entities, f, before)
  BY <1>2, <1>3
<1>5. PICK h : h = Told(log, entities, f, before)
  OBVIOUS
<1>6. h[e] = Node(log, f, e, Producer(log, e, before))
  BY <1>5 DEF Told, Node
<1> QED BY <1>4, <1>5, <1>6

-----------------------------------------------------------------------------
(* One log inside another: records in the same order, some left out.        *)

Inside(short, long, g) ==
  /\ IsSeq(short) /\ IsSeq(long)
  /\ \A k \in 1 .. Len(short) : g[k] \in 1 .. Len(long) /\ short[k] = long[g[k]]
  /\ \A k, l \in 1 .. Len(short) : k < l => g[k] < g[l]

Place(short, long, g, k) == IF k = Len(short) + 1 THEN Len(long) + 1 ELSE g[k]

(* Records that the lineage of e goes through are not left out.             *)
Spans(short, long, g, R, e) ==
  /\ R \subseteq {g[k] : k \in 1 .. Len(short)}
  /\ Producer(long, e, Len(long) + 1) \in R \cup {0}
  /\ \A j \in R : \A x \in Range(long[j].inputs) : Producer(long, x, j) \in R \cup {0}

(* A producer that is not left out is the one in the shorter log too.       *)
LEMMA ProducerMoves ==
  ASSUME NEW short, NEW long, NEW g, Inside(short, long, g),
         NEW k \in 1 .. (Len(short) + 1), NEW x
  PROVE  LET b == Place(short, long, g, k)
         IN /\ Producer(long, x, b) = 0 => Producer(short, x, k) = 0
            /\ \A q \in 1 .. Len(short) : g[q] = Producer(long, x, b) => Producer(short, x, k) = q
<1> DEFINE b == Place(short, long, g, k)
<1>1. /\ Len(short) \in Nat /\ Len(long) \in Nat
      /\ \A i \in 1 .. Len(short) : g[i] \in 1 .. Len(long) /\ short[i] = long[g[i]]
      /\ \A i, j \in 1 .. Len(short) : i < j => g[i] < g[j]
  BY SeqParts DEF Inside
<1>2. b \in Nat \ {0} /\ k \in Nat \ {0}
  BY <1>1 DEF Place
<1>3. \A i \in 1 .. Len(short) : i < k <=> g[i] < b
  <2>1. CASE k = Len(short) + 1
    BY <1>1, <2>1 DEF Place
  <2>2. CASE k # Len(short) + 1
    <3>1. k \in 1 .. Len(short) /\ b = g[k]
      BY <1>1, <2>2 DEF Place
    <3>2. ASSUME NEW i \in 1 .. Len(short) PROVE i < k <=> g[i] < g[k]
      <4>1. i < k \/ i = k \/ k < i
        BY <1>1
      <4>2. i < k => g[i] < g[k]
        BY <1>1, <3>1
      <4>3. k < i => g[k] < g[i]
        BY <1>1, <3>1
      <4>4. g[i] \in Nat /\ g[k] \in Nat
        BY <1>1, <3>1
      <4> QED BY <1>1, <3>1, <4>1, <4>2, <4>3, <4>4
    <3> QED BY <3>1, <3>2
  <2> QED BY <2>1, <2>2
<1>4. \A i \in 1 .. (k - 1) : i \in 1 .. Len(short) /\ g[i] \in 1 .. (b - 1) /\ short[i] = long[g[i]]
  <2> SUFFICES ASSUME NEW i \in 1 .. (k - 1)
               PROVE  i \in 1 .. Len(short) /\ g[i] \in 1 .. (b - 1) /\ short[i] = long[g[i]]
    OBVIOUS
  <2>1. i \in 1 .. Len(short) /\ i < k
    BY <1>1
  <2>2. g[i] < b /\ g[i] \in 1 .. Len(long)
    BY <1>1, <1>3, <2>1
  <2> QED BY <1>1, <1>2, <2>1, <2>2
<1> HIDE DEF b
<1>5. ASSUME Producer(long, x, b) = 0 PROVE Producer(short, x, k) = 0
  <2>1. \A i \in 1 .. (b - 1) : ~Makes(long[i], x.hash)
    BY <1>2, <1>5, ProducerIs
  <2>2. \A i \in 1 .. (k - 1) : ~Makes(short[i], x.hash)
    BY <1>4, <2>1
  <2> QED BY <1>2, <2>2, ProducerIs
<1>6. ASSUME NEW q \in 1 .. Len(short), g[q] = Producer(long, x, b) PROVE Producer(short, x, k) = q
  <2>1. Best(long, x, b, g[q])
    <3>1. g[q] # 0
      BY <1>1
    <3> QED BY <1>2, <1>6, <3>1, ProducerIs
  <2>2. g[q] \in 1 .. (b - 1) /\ Makes(long[g[q]], x.hash) /\ short[q] = long[g[q]]
    BY <1>1, <2>1 DEF Best
  <2>3. q \in 1 .. (k - 1)
    BY <1>1, <1>2, <1>3, <2>2
  <2>4. \A i \in 1 .. (k - 1) : g[i] <= g[q] => i <= q
    BY <1>1, <1>4
  <2>5. CASE Naming(long[g[q]], x) /\ \A i \in 1 .. (b - 1) : Naming(long[i], x) => i <= g[q]
    <3>1. \A i \in 1 .. (k - 1) : Naming(short[i], x) => i <= q
      BY <1>4, <2>4, <2>5
    <3>2. Naming(short[q], x) /\ Makes(short[q], x.hash)
      BY <2>2, <2>5
    <3>3. Best(short, x, k, q)
      BY <2>3, <3>1, <3>2 DEF Best
    <3> QED BY <1>2, <3>3, ProducerIs
  <2>6. CASE \A i \in 1 .. (b - 1) : ~Naming(long[i], x) /\ (Makes(long[i], x.hash) => i <= g[q])
    <3>1. \A i \in 1 .. (k - 1) : ~Naming(short[i], x) /\ (Makes(short[i], x.hash) => i <= q)
      BY <1>4, <2>4, <2>6
    <3>2. Best(short, x, k, q)
      BY <2>2, <2>3, <3>1 DEF Best
    <3> QED BY <1>2, <3>2, ProducerIs
  <2> QED BY <2>1, <2>5, <2>6 DEF Best
<1> QED BY <1>5, <1>6 DEF b

(* Where nothing its lineage goes through is left out, an entity's ancestry *)
(* is the same in both logs.                                                *)
LEMMA SameAncestry ==
  ASSUME NEW short, NEW long, NEW g, Inside(short, long, g), NEW R, NEW e, Spans(short, long, g, R, e)
  PROVE  Ancestry(short, e) = Ancestry(long, e)
<1> DEFINE Es == Entities(short) \cup {e}
           El == Entities(long) \cup {e}
           at(k) == Place(short, long, g, k)
<1>1. /\ IsSeq(short) /\ IsSeq(long)
      /\ Len(short) \in Nat /\ DOMAIN short = 1 .. Len(short)
      /\ Len(long) \in Nat /\ DOMAIN long = 1 .. Len(long)
      /\ \A i \in 1 .. Len(short) : g[i] \in 1 .. Len(long) /\ short[i] = long[g[i]]
  BY SeqParts DEF Inside
<1>2. PICK f : f = Telling(short, Es, Len(short) + 1, f) /\ Ancestry(short, e) = f[Len(short) + 1][e]
  BY <1>1, AncestryIs
<1>3. PICK h : h = Telling(long, El, Len(long) + 1, h) /\ Ancestry(long, e) = h[Len(long) + 1][e]
  BY <1>1, AncestryIs
<1>4. /\ \A i \in 1 .. Len(short) : Range(short[i].inputs) \subseteq Entities(short)
      /\ Entities(short) \subseteq Entities(long)
  BY <1>1 DEF Entities
<1>5. Es \subseteq El
  BY <1>4
<1> HIDE DEF Es, El
<1> DEFINE T == {k \in 1 .. (Len(short) + 1) :
                   \E x \in Es : Producer(long, x, at(k)) \in R \cup {0} /\ f[k][x] # h[at(k)][x]}
<1>6. T = {}
  <2> SUFFICES ASSUME T # {} PROVE FALSE
    OBVIOUS
  <2>1. T \in SUBSET Nat
    BY <1>1
  <2>2. PICK k \in T : \A l \in T : k <= l
    BY <2>1, LeastOf
  <2>3. PICK x \in Es : Producer(long, x, at(k)) \in R \cup {0} /\ f[k][x] # h[at(k)][x]
    BY <2>2
  <2>4. k \in 1 .. (Len(short) + 1) /\ at(k) \in 1 .. (Len(long) + 1)
    BY <1>1, <2>2 DEF Place
  <2> DEFINE b == at(k)
             p == Producer(long, x, b)
             s == Producer(short, x, k)
  <2>5. h[b][x] = Node(long, h, x, p)
    <3>1. b \in 1 .. (Len(long) + 1) /\ x \in El /\ Len(long) + 1 \in Nat
      BY <1>1, <1>5, <2>4
    <3> HIDE DEF b
    <3> QED BY <1>3, <3>1, TellingAt
  <2>6. f[k][x] = Node(short, f, x, s)
    <3>1. Len(short) + 1 \in Nat
      BY <1>1
    <3> QED BY <1>2, <2>3, <2>4, <3>1, TellingAt
  <2>7. CASE p = 0
    <3>1. s = 0
      BY <2>4, <2>7, ProducerMoves
    <3> QED BY <2>3, <2>5, <2>6, <2>7, <3>1 DEF Node
  <2>8. CASE p # 0
    <3>1. p \in R
      BY <2>3, <2>8
    <3>2. PICK q \in 1 .. Len(short) : g[q] = p
      BY <3>1 DEF Spans
    <3>3. s = q
      BY <2>4, <3>2, ProducerMoves
    <3>4. s # 0 /\ short[s] = long[p] /\ s \in 1 .. Len(short) /\ at(s) = p
      BY <1>1, <3>2, <3>3 DEF Place
    <3>5. s \in 0 .. (k - 1)
      BY <2>4, ProducerIs
    <3>6. s \notin T
      BY <2>2, <2>4, <3>5
    <3>10. p # 0
      BY <2>8
    <3> HIDE DEF s, p
    <3>7. ASSUME NEW i \in DOMAIN long[p].inputs
          PROVE  f[s][long[p].inputs[i]] = h[p][long[p].inputs[i]]
      <4>1. long[p].inputs[i] \in Range(long[p].inputs)
        BY DEF Range
      <4>2. Producer(long, long[p].inputs[i], p) \in R \cup {0}
        BY <3>1, <4>1 DEF Spans
      <4>3. long[p].inputs[i] \in Es
        BY <1>4, <3>4, <4>1 DEF Es
      <4>4. s \in 1 .. (Len(short) + 1)
        BY <1>1, <3>4
      <4> QED BY <3>4, <3>6, <4>2, <4>3, <4>4
    <3>8. [i \in DOMAIN short[s].inputs |-> f[s][short[s].inputs[i]]]
            = [i \in DOMAIN long[p].inputs |-> h[p][long[p].inputs[i]]]
      BY <3>4, <3>7
    <3>9. Node(short, f, x, s) = Node(long, h, x, p)
      <4>1. PICK F : F = [i \in DOMAIN short[s].inputs |-> f[s][short[s].inputs[i]]]
        OBVIOUS
      <4>2. F = [i \in DOMAIN long[p].inputs |-> h[p][long[p].inputs[i]]]
        BY <3>8, <4>1
      <4>3. Node(short, f, x, s) = << short[s].op, x, F >>
        BY <3>4, <4>1 DEF Node
      <4>4. Node(long, h, x, p) = << long[p].op, x, F >>
        BY <3>10, <4>2 DEF Node
      <4> QED BY <3>4, <4>3, <4>4
    <3> QED BY <2>3, <2>5, <2>6, <3>9
  <2> QED BY <2>7, <2>8
<1>7. at(Len(short) + 1) = Len(long) + 1
  BY DEF Place
<1>8. Producer(long, e, at(Len(short) + 1)) \in R \cup {0} /\ e \in Es
  BY <1>7 DEF Spans, Es
<1>9. f[Len(short) + 1][e] = h[Len(long) + 1][e]
  BY <1>1, <1>6, <1>7, <1>8
<1> QED BY <1>2, <1>3, <1>9
-----------------------------------------------------------------------------
(* Logs that grow.                                                          *)

Extends(a, b) ==
  IsSeq(a) /\ IsSeq(b) /\ Len(a) <= Len(b) /\ \A i \in 1 .. Len(a) : b[i] = a[i]

Named(log, e) == \E i \in 1 .. Len(log) : Naming(log[i], e)

(* No record that b has more than a names e.                                *)
NamesNoMore(a, b, e) == \A i \in 1 .. Len(b) : Naming(b[i], e) => i <= Len(a)

(* A log extends itself.                                                    *)
LEMMA ExtendsSelf ==
  ASSUME NEW a, IsSeq(a), NEW e
  PROVE  Extends(a, a) /\ NamesNoMore(a, a, e)
BY SeqParts DEF Extends, NamesNoMore

(* What extends an extension extends the log.                               *)
LEMMA ExtendsOn ==
  ASSUME NEW a, NEW b, NEW c, Extends(a, b), Extends(b, c)
  PROVE  /\ Extends(a, c)
         /\ \A e : NamesNoMore(a, b, e) /\ NamesNoMore(b, c, e) => NamesNoMore(a, c, e)
<1>1. Len(a) \in Nat /\ Len(b) \in Nat /\ Len(c) \in Nat
  BY SeqParts DEF Extends
<1>2. Extends(a, c)
  BY <1>1 DEF Extends
<1>3. ASSUME NEW e, NamesNoMore(a, b, e), NamesNoMore(b, c, e) PROVE NamesNoMore(a, c, e)
  <2> SUFFICES ASSUME NEW i \in 1 .. Len(c), Naming(c[i], e) PROVE i <= Len(a)
    BY DEF NamesNoMore
  <2>1. i \in 1 .. Len(b)
    BY <1>1, <1>3 DEF NamesNoMore
  <2>2. b[i] = c[i]
    BY <2>1 DEF Extends
  <2> QED BY <1>3, <2>1, <2>2 DEF NamesNoMore
<1> QED BY <1>2, <1>3

(* Records that do not name an entity leave its ancestry as it was.         *)
LEMMA AppendedAncestry ==
  ASSUME NEW a, NEW b, NEW e, Extends(a, b), Named(a, e), NamesNoMore(a, b, e)
  PROVE  Ancestry(b, e) = Ancestry(a, e)
<1> DEFINE g == [k \in 1 .. Len(a) |-> k]
           R == 1 .. Len(a)
<1>1. Len(a) \in Nat /\ Len(b) \in Nat /\ Len(a) <= Len(b)
  BY SeqParts DEF Extends
<1>2. Inside(a, b, g)
  BY <1>1 DEF Inside, Extends
<1>3. R \subseteq {g[k] : k \in 1 .. Len(a)}
  OBVIOUS
<1>4. Producer(b, e, Len(b) + 1) \in R \cup {0}
  <2> DEFINE p == Producer(b, e, Len(b) + 1)
  <2>1. SUFFICES ASSUME p # 0 PROVE p \in R
    OBVIOUS
  <2>2. Len(b) + 1 \in Nat \ {0} /\ Len(b) + 1 - 1 = Len(b)
    BY <1>1
  <2>3. Best(b, e, Len(b) + 1, p)
    BY <2>1, <2>2, ProducerIs
  <2>4. PICK i \in 1 .. Len(a) : Naming(a[i], e)
    BY DEF Named
  <2>5. i \in 1 .. Len(b) /\ Naming(b[i], e)
    BY <1>1, <2>4 DEF Extends
  <2>6. p \in 1 .. Len(b) /\ Naming(b[p], e)
    BY <2>2, <2>3, <2>5 DEF Best
  <2> QED BY <1>1, <2>6 DEF NamesNoMore
<1>5. ASSUME NEW j \in R, NEW x PROVE Producer(b, x, j) \in R \cup {0}
  <2>1. j \in Nat \ {0} /\ j <= Len(a)
    BY <1>1
  <2>2. Producer(b, x, j) \in 0 .. (j - 1)
    BY <2>1, ProducerIs
  <2> QED BY <1>1, <2>1, <2>2
<1>6. Spans(a, b, g, R, e)
  BY <1>3, <1>4, <1>5 DEF Spans
<1> QED BY <1>2, <1>6, SameAncestry

-----------------------------------------------------------------------------
(* record_provenance.                                                       *)

Output(record) == record.outputs[1]
Single(record) == record.outputs = << Output(record) >>

(* Every record the statements make has one output.                         *)
LEMMA SingleIs ==
  ASSUME NEW record, Single(record)
  PROVE  /\ \A e : Naming(record, e) <=> Output(record) = e
         /\ Makes(record, Output(record).hash)
         /\ \A log : Known(log, record) <=> \E k \in DOMAIN log : Makes(log[k], Output(record).hash)
<1>1. PICK o : o = Output(record)
  OBVIOUS
<1>2. record.outputs = << o >>
  BY <1>1 DEF Single
<1>3. DOMAIN record.outputs = {1} /\ record.outputs[1] = o
  BY <1>2
<1> QED BY <1>1, <1>3 DEF Naming, Makes, Known, Range

LEMMA MadeIs ==
  ASSUME NEW s, NEW before, NEW after
  PROVE  /\ Single(Made(s, before, after))
         /\ Output(Made(s, before, after)) = Entity(s.name, after[s.name])
BY DEF Made, Single, Output

LEMMA RootIs ==
  ASSUME NEW op, NEW name, NEW hash
  PROVE  /\ Single(Root(op, name, hash)) /\ Root(op, name, hash).inputs = << >>
         /\ Output(Root(op, name, hash)) = Entity(name, hash)
BY DEF Root, Single, Output

(* A record is appended or not; after a replay its output is known; and an  *)
(* entity that has a record gets no other by a replay or from nothing.      *)
LEMMA RecordedIs ==
  ASSUME NEW log, IsSeq(log), NEW record, Single(record), NEW replaying \in BOOLEAN
  PROVE  /\ Extends(log, Recorded(log, record, replaying))
         /\ replaying => Known(Recorded(log, record, replaying), record)
         /\ replaying /\ Known(log, record) => Recorded(log, record, replaying) = log
         /\ \A e : Output(record) # e => NamesNoMore(log, Recorded(log, record, replaying), e)
         /\ \A e : (replaying \/ record.inputs = << >>) /\ Named(log, e)
                     => NamesNoMore(log, Recorded(log, record, replaying), e)
<1>1. Len(log) \in Nat /\ DOMAIN log = 1 .. Len(log)
  BY SeqParts
<1>2. \A e : Extends(log, log) /\ NamesNoMore(log, log, e)
  BY ExtendsSelf
<1>3. CASE Skipped(log, record, replaying)
  <2>1. Recorded(log, record, replaying) = log /\ Known(log, record)
    BY <1>3 DEF Recorded, Skipped
  <2> QED BY <1>2, <2>1
<1>4. CASE ~Skipped(log, record, replaying)
  <2> DEFINE t == Append(log, record)
  <2>1. Recorded(log, record, replaying) = t
    BY <1>4 DEF Recorded
  <2>2. /\ IsSeq(t) /\ Len(t) = Len(log) + 1 /\ t[Len(log) + 1] = record
        /\ \A i \in 1 .. Len(log) : t[i] = log[i]
    BY SeqAppend
  <2> HIDE DEF t
  <2>3. Extends(log, t)
    BY <1>1, <2>2 DEF Extends
  <2>4. DOMAIN t = 1 .. Len(t)
    BY <2>2, SeqParts
  <2>5. Known(t, record)
    BY <1>1, <2>2, <2>4, SingleIs
  <2>6. ASSUME NEW e, Output(record) # e PROVE NamesNoMore(log, t, e)
    <3> SUFFICES ASSUME NEW i \in 1 .. Len(t), Naming(t[i], e), ~ (i <= Len(log)) PROVE FALSE
      BY DEF NamesNoMore
    <3>1. i = Len(log) + 1
      BY <1>1, <2>2
    <3> QED BY <2>2, <2>6, <3>1, SingleIs
  <2>7. replaying => ~Known(log, record)
    BY <1>4 DEF Skipped
  <2>8. ASSUME NEW e, replaying \/ record.inputs = << >>, Named(log, e) PROVE Output(record) # e
    <3>1. ~Known(log, record)
      BY <1>4, <2>8 DEF Skipped
    <3>2. PICK k \in DOMAIN log : Naming(log[k], e)
      BY <1>1, <2>8 DEF Named
    <3>3. Makes(log[k], e.hash)
      BY <3>2, NamingMakes
    <3> QED BY <3>1, <3>3, SingleIs
  <2> QED BY <2>1, <2>3, <2>5, <2>6, <2>7, <2>8
<1> QED BY <1>3, <1>4

(* A known output stays known.                                              *)
LEMMA KnownStays ==
  ASSUME NEW a, NEW b, Extends(a, b), NEW record, Known(a, record)
  PROVE  Known(b, record)
<1>1. /\ Len(a) \in Nat /\ Len(b) \in Nat /\ DOMAIN a = 1 .. Len(a) /\ DOMAIN b = 1 .. Len(b)
      /\ Len(a) <= Len(b) /\ \A i \in 1 .. Len(a) : b[i] = a[i]
  BY SeqParts DEF Extends
<1> QED BY <1>1 DEF Known

(* A statement, executed or replayed.                                       *)
LEMMA DoneIs ==
  ASSUME NEW w, IsSeq(w.records), NEW s, NEW replaying \in BOOLEAN
  PROVE  /\ Done(w, s, replaying).live = Executed(s, w.live)
         /\ Extends(w.records, Done(w, s, replaying).records)
         /\ replaying => \/ s.op \in Silent
                         \/ Known(Done(w, s, replaying).records, Made(s, w.live, Executed(s, w.live)))
         /\ replaying =>
              \A e : Named(w.records, e) => NamesNoMore(w.records, Done(w, s, replaying).records, e)
         /\ \A e : e.name # s.name => NamesNoMore(w.records, Done(w, s, replaying).records, e)
<1> DEFINE m == Made(s, w.live, Executed(s, w.live))
<1>1. Done(w, s, replaying).live = Executed(s, w.live)
  BY DEF Done
<1>2. CASE s.op \in Silent
  <2>1. Done(w, s, replaying).records = w.records
    BY <1>2 DEF Done
  <2> QED BY <1>1, <1>2, <2>1, ExtendsSelf
<1>3. CASE s.op \notin Silent
  <2>1. Done(w, s, replaying).records = Recorded(w.records, m, replaying)
    BY <1>3 DEF Done
  <2>2. Single(m) /\ Output(m) = Entity(s.name, Executed(s, w.live)[s.name])
    BY MadeIs
  <2>3. \A e : e.name # s.name => Output(m) # e
    BY <2>2 DEF Entity
  <2> HIDE DEF m
  <2>4. /\ Extends(w.records, Recorded(w.records, m, replaying))
        /\ replaying => Known(Recorded(w.records, m, replaying), m)
        /\ \A e : Output(m) # e => NamesNoMore(w.records, Recorded(w.records, m, replaying), e)
        /\ \A e : replaying /\ Named(w.records, e)
                    => NamesNoMore(w.records, Recorded(w.records, m, replaying), e)
    BY <2>2, RecordedIs
  <2> QED BY <1>1, <2>1, <2>3, <2>4 DEF m
<1> QED BY <1>2, <1>3
-----------------------------------------------------------------------------
(* recover_all_from_wal: a replay over a log of records.                    *)

Replaying(lines, start, statements, m, after) ==
  [k \in 0 .. m |->
     IF k = 0 THEN [live |-> start, records |-> lines]
     ELSE Done(after[k - 1], statements[k], TRUE)]

Replays(statements, f) == \A k \in 1 .. Len(statements) : f[k] = Done(f[k - 1], statements[k], TRUE)

(* There is such a function for every log of statements.                    *)
LEMMA ReplayingExists ==
  ASSUME NEW lines, NEW start, NEW statements, NEW m \in Nat
  PROVE  \E f : f = Replaying(lines, start, statements, m, f)
<1> DEFINE G == {i \in 0 .. m : \E f : f = Replaying(lines, start, statements, i, f)}
<1>1. 0 \in G
  <2>1. PICK f : f = [k \in 0 .. 0 |-> [live |-> start, records |-> lines]]
    OBVIOUS
  <2>2. f = Replaying(lines, start, statements, 0, f)
    BY <2>1 DEF Replaying
  <2> QED BY <2>2
<1>2. ASSUME NEW n \in 1 .. m, n - 1 \in G PROVE n \in G
  <2>1. PICK f : f = Replaying(lines, start, statements, n - 1, f)
    BY <1>2
  <2>2. PICK d : d = Done(f[n - 1], statements[n], TRUE)
    OBVIOUS
  <2>3. PICK g : g = [k \in 0 .. n |-> IF k = n THEN d ELSE f[k]]
    OBVIOUS
  <2>4. \A k \in 0 .. (n - 1) : g[k] = f[k]
    BY <2>3
  <2>5. PICK h : h = Replaying(lines, start, statements, n - 1, f)
    OBVIOUS
  <2>6. \A k \in 0 .. (n - 1) : f[k] =
          IF k = 0 THEN [live |-> start, records |-> lines] ELSE Done(f[k - 1], statements[k], TRUE)
    BY <2>1, <2>5 DEF Replaying
  <2>7. \A k \in 0 .. n : g[k] =
          IF k = 0 THEN [live |-> start, records |-> lines] ELSE Done(g[k - 1], statements[k], TRUE)
    <3> SUFFICES ASSUME NEW k \in 0 .. n
                 PROVE  g[k] = IF k = 0 THEN [live |-> start, records |-> lines]
                               ELSE Done(g[k - 1], statements[k], TRUE)
      OBVIOUS
    <3>1. CASE k = n
      <4>1. k # 0 /\ g[k] = d /\ g[k - 1] = f[n - 1]
        BY <2>3, <2>4, <3>1
      <4> QED BY <2>2, <3>1, <4>1
    <3>2. CASE k # n
      <4>1. k \in 0 .. (n - 1) /\ g[k] = f[k]
        BY <2>4, <3>2
      <4>2. k # 0 => g[k - 1] = f[k - 1]
        BY <2>4, <4>1
      <4> QED BY <2>6, <4>1, <4>2
    <3> QED BY <3>1, <3>2
  <2>8. PICK r : r = Replaying(lines, start, statements, n, g)
    OBVIOUS
  <2>9. r = g
    <3>1. r = [k \in 0 .. n |-> r[k]] /\ g = [k \in 0 .. n |-> g[k]]
      BY <2>3, <2>8 DEF Replaying
    <3>2. \A k \in 0 .. n : r[k] = g[k]
      BY <2>7, <2>8 DEF Replaying
    <3> QED BY <3>1, <3>2
  <2>10. \E F : F = Replaying(lines, start, statements, n, F)
    BY <2>8, <2>9
  <2>11. n \in 0 .. m
    OBVIOUS
  <2> QED BY <2>10, <2>11
<1> HIDE DEF G
<1>3. m \in G
  BY <1>1, <1>2, Climb
<1> QED BY <1>3 DEF G

(* Recovered is where it ends.                                              *)
LEMMA RecoveredIs ==
  ASSUME IsSeq(logged), NEW lines
  PROVE  \E f : /\ f[0] = [live |-> snapshot, records |-> lines]
                /\ Replays(logged, f)
                /\ Recovered(lines) = f[Len(logged)]
<1>1. Len(logged) \in Nat
  BY SeqParts
<1>2. PICK f : f = Replaying(lines, snapshot, logged, Len(logged), f)
  BY <1>1, ReplayingExists
<1> DEFINE t == CHOOSE g : g = [k \in 0 .. Len(logged) |->
                                  IF k = 0 THEN [live |-> snapshot, records |-> lines]
                                  ELSE Done(g[k - 1], logged[k], TRUE)]
<1>3. t = [k \in 0 .. Len(logged) |-> IF k = 0 THEN [live |-> snapshot, records |-> lines]
                                      ELSE Done(t[k - 1], logged[k], TRUE)]
  BY <1>2 DEF Replaying
<1>4. Recovered(lines) = t[Len(logged)]
  BY DEF Recovered
<1> HIDE DEF t
<1>5. PICK g : g = Replaying(lines, snapshot, logged, Len(logged), t)
  OBVIOUS
<1>6. t = g
  BY <1>3, <1>5 DEF Replaying
<1>7. g[0] = [live |-> snapshot, records |-> lines]
  BY <1>1, <1>5 DEF Replaying
<1>8. \A k \in 1 .. Len(logged) : g[k] = Done(t[k - 1], logged[k], TRUE)
  <2> SUFFICES ASSUME NEW k \in 1 .. Len(logged)
               PROVE  g[k] = Done(t[k - 1], logged[k], TRUE)
    OBVIOUS
  <2>1. k \in 0 .. Len(logged) /\ k # 0
    BY <1>1
  <2>2. PICK d : d = Done(t[k - 1], logged[k], TRUE)
    OBVIOUS
  <2> QED BY <1>5, <2>1, <2>2 DEF Replaying
<1>9. Replays(logged, g)
  BY <1>6, <1>8 DEF Replays
<1>10. Recovered(lines) = g[Len(logged)]
  BY <1>4, <1>6
<1> QED BY <1>7, <1>9, <1>10

(* A replay only appends, and to no entity that has a record.               *)
LEMMA ReplayExtends ==
  ASSUME IsSeq(logged), NEW f, IsSeq(f[0].records),
         Replays(logged, f)
  PROVE  \A i \in 0 .. Len(logged) : \A k \in 0 .. i :
           /\ Extends(f[k].records, f[i].records)
           /\ \A e : Named(f[0].records, e) => NamesNoMore(f[0].records, f[i].records, e)
<1> DEFINE n == Len(logged)
           P(i) == \A k \in 0 .. i :
                     /\ Extends(f[k].records, f[i].records)
                     /\ \A e : Named(f[0].records, e) => NamesNoMore(f[0].records, f[i].records, e)
           G == {i \in 0 .. n : P(i)}
<1>1. n \in Nat
  BY SeqParts
<1>2. 0 \in G
  <2>1. P(0)
    BY ExtendsSelf
  <2> QED BY <1>1, <2>1
<1>3. ASSUME NEW i \in 1 .. n, i - 1 \in G PROVE i \in G
  <2>1. P(i - 1) /\ i - 1 \in 0 .. (i - 1) /\ 0 \in 0 .. (i - 1)
    BY <1>1, <1>3
  <2>2. IsSeq(f[i - 1].records)
    BY <2>1 DEF Extends
  <2>9. f[i] = Done(f[i - 1], logged[i], TRUE)
    BY DEF Replays
  <2>3. /\ Extends(f[i - 1].records, f[i].records)
        /\ \A e : Named(f[i - 1].records, e) => NamesNoMore(f[i - 1].records, f[i].records, e)
    BY <2>2, <2>9, DoneIs
  <2>4. Extends(f[0].records, f[i - 1].records)
    BY <2>1
  <2>5. \A e : Named(f[0].records, e) => Named(f[i - 1].records, e)
    <3>1. Len(f[0].records) \in Nat /\ Len(f[i - 1].records) \in Nat
      BY <2>4, SeqParts DEF Extends
    <3> QED BY <2>4, <3>1 DEF Named, Extends
  <2>6. ASSUME NEW e, Named(f[0].records, e) PROVE NamesNoMore(f[0].records, f[i].records, e)
    BY <2>1, <2>3, <2>4, <2>5, <2>6, ExtendsOn
  <2>7. ASSUME NEW k \in 0 .. i PROVE Extends(f[k].records, f[i].records)
    <3>1. CASE k = i
      <4>1. IsSeq(f[i].records)
        BY <2>3 DEF Extends
      <4> QED BY <3>1, <4>1, ExtendsSelf
    <3>2. CASE k # i
      <4>1. k \in 0 .. (i - 1)
        BY <1>1, <3>2
      <4>2. Extends(f[k].records, f[i - 1].records)
        BY <2>1, <4>1
      <4> QED BY <2>3, <4>2, ExtendsOn
    <3> QED BY <3>1, <3>2
  <2>8. P(i)
    BY <2>6, <2>7
  <2> QED BY <1>1, <2>8
<1> HIDE DEF G
<1>4. \A i \in 0 .. n : i \in G
  <2> SUFFICES ASSUME NEW i \in 0 .. n PROVE i \in G
    OBVIOUS
  <2>1. \A j \in 1 .. i : j - 1 \in G => j \in G
    BY <1>1, <1>3
  <2> QED BY <1>1, <1>2, <2>1, Climb
<1> QED BY <1>4 DEF G

(* What a recovery makes of the records.                                    *)
LEMMA RecoveredExtends ==
  ASSUME IsSeq(logged), NEW lines, IsSeq(lines)
  PROVE  /\ Extends(lines, Recovered(lines).records)
         /\ \A e : Named(lines, e) => NamesNoMore(lines, Recovered(lines).records, e)
<1>1. Len(logged) \in Nat
  BY SeqParts
<1>2. PICK f : /\ f[0] = [live |-> snapshot, records |-> lines]
               /\ Replays(logged, f)
               /\ Recovered(lines) = f[Len(logged)]
  BY RecoveredIs
<1>3. f[0].records = lines
  BY <1>2
<1>4. /\ Extends(f[0].records, f[Len(logged)].records)
      /\ \A e : Named(f[0].records, e) => NamesNoMore(f[0].records, f[Len(logged)].records, e)
  <2>1. IsSeq(f[0].records)
    BY <1>3
  <2>2. \A i \in 0 .. Len(logged) : \A k \in 0 .. i :
          /\ Extends(f[k].records, f[i].records)
          /\ \A e : Named(f[0].records, e) => NamesNoMore(f[0].records, f[i].records, e)
    BY <1>2, <2>1, ReplayExtends
  <2>3. Len(logged) \in 0 .. Len(logged) /\ 0 \in 0 .. Len(logged)
    BY <1>1
  <2> QED BY <2>2, <2>3
<1> QED BY <1>2, <1>3, <1>4

(* A second replay makes the same datasets, whose outputs all are known.    *)
LEMMA RecoveredTwice ==
  ASSUME IsSeq(logged), NEW lines, IsSeq(lines)
  PROVE  Recovered(Recovered(lines).records).records = Recovered(lines).records
<1> DEFINE n == Len(logged)
<1>1. n \in Nat
  BY SeqParts
<1>2. PICK f : /\ f[0] = [live |-> snapshot, records |-> lines]
               /\ Replays(logged, f)
               /\ Recovered(lines) = f[n]
  BY RecoveredIs
<1>3. PICK full : full = Recovered(lines).records
  OBVIOUS
<1>4. PICK h : /\ h[0] = [live |-> snapshot, records |-> full]
               /\ Replays(logged, h)
               /\ Recovered(full) = h[n]
  BY RecoveredIs
<1>5. f[0].records = lines /\ f[0].live = snapshot /\ h[0].records = full /\ h[0].live = snapshot
  BY <1>2, <1>4
<1>6. \A k \in 0 .. n : Extends(f[k].records, full)
  BY <1>1, <1>2, <1>3, <1>5, ReplayExtends
<1> DEFINE G == {k \in 0 .. n : h[k].live = f[k].live /\ h[k].records = full}
<1>7. 0 \in G
  BY <1>1, <1>5
<1>8. ASSUME NEW k \in 1 .. n, k - 1 \in G PROVE k \in G
  <2>1. h[k - 1].live = f[k - 1].live /\ h[k - 1].records = full
    BY <1>8
  <2>2. k - 1 \in 0 .. n /\ k \in 0 .. n
    BY <1>1
  <2>3. IsSeq(f[k - 1].records) /\ IsSeq(full) /\ Extends(f[k].records, full)
    BY <1>6, <2>2 DEF Extends
  <2> DEFINE s == logged[k]
             m == Made(s, f[k - 1].live, Executed(s, f[k - 1].live))
  <2>10. f[k] = Done(f[k - 1], s, TRUE) /\ h[k] = Done(h[k - 1], s, TRUE)
    BY <1>2, <1>4 DEF Replays
  <2> HIDE DEF s
  <2>4. /\ f[k].live = Executed(s, f[k - 1].live)
        /\ s.op \in Silent \/ Known(f[k].records, m)
    BY <2>3, <2>10, DoneIs
  <2>5. s.op \in Silent \/ Known(full, m)
    BY <2>3, <2>4, KnownStays
  <2>6. h[k].live = Executed(s, f[k - 1].live)
    BY <2>1, <2>3, <2>10, DoneIs
  <2>7. h[k].records = IF s.op \in Silent THEN full ELSE Recorded(full, m, TRUE)
    <3>1. h[k].records = Done(h[k - 1], s, TRUE).records
      BY <2>10
    <3> QED BY <2>1, <3>1 DEF Done
  <2>8. Single(m)
    BY MadeIs
  <2> HIDE DEF m
  <2>9. Known(full, m) => Recorded(full, m, TRUE) = full
    BY <2>3, <2>8, RecordedIs
  <2> QED BY <2>2, <2>4, <2>5, <2>6, <2>7, <2>9
<1> HIDE DEF G
<1>9. n \in G
  BY <1>1, <1>7, <1>8, Climb
<1> QED BY <1>3, <1>4, <1>9 DEF G
-----------------------------------------------------------------------------
(* PRUNE LINEAGE.                                                           *)

Pruning(log, kept, m, upTo) ==
  [k \in 0 .. m |->
     IF k = 0 THEN << >> ELSE IF k \in kept THEN Append(upTo[k - 1], log[k]) ELSE upTo[k - 1]]

(* One step of it.                                                          *)
PrunedBy(log, kept, k, s) == IF k \in kept THEN Append(s, log[k]) ELSE s

(* There is such a function for every log.                                  *)
LEMMA PruningExists ==
  ASSUME NEW log, NEW kept, NEW m \in Nat
  PROVE  \E f : f = Pruning(log, kept, m, f)
<1> DEFINE G == {i \in 0 .. m : \E f : f = Pruning(log, kept, i, f)}
<1>1. 0 \in G
  <2>1. PICK f : f = [k \in 0 .. 0 |-> << >>]
    OBVIOUS
  <2>2. f = Pruning(log, kept, 0, f)
    BY <2>1 DEF Pruning
  <2> QED BY <2>2
<1>2. ASSUME NEW n \in 1 .. m, n - 1 \in G PROVE n \in G
  <2>1. PICK f : f = Pruning(log, kept, n - 1, f)
    BY <1>2
  <2>2. PICK d : d = PrunedBy(log, kept, n, f[n - 1])
    OBVIOUS
  <2>3. PICK g : g = [k \in 0 .. n |-> IF k = n THEN d ELSE f[k]]
    OBVIOUS
  <2>4. \A k \in 0 .. (n - 1) : g[k] = f[k]
    BY <2>3
  <2>5. PICK h : h = Pruning(log, kept, n - 1, f)
    OBVIOUS
  <2>6. \A k \in 0 .. (n - 1) : f[k] = IF k = 0 THEN << >> ELSE PrunedBy(log, kept, k, f[k - 1])
    BY <2>1, <2>5 DEF Pruning, PrunedBy
  <2>7. \A k \in 0 .. n : g[k] = IF k = 0 THEN << >> ELSE PrunedBy(log, kept, k, g[k - 1])
    <3> SUFFICES ASSUME NEW k \in 0 .. n
                 PROVE  g[k] = IF k = 0 THEN << >> ELSE PrunedBy(log, kept, k, g[k - 1])
      OBVIOUS
    <3>1. CASE k = n
      <4>1. k # 0 /\ g[k] = d /\ g[k - 1] = f[n - 1]
        BY <2>3, <2>4, <3>1
      <4> QED BY <2>2, <3>1, <4>1
    <3>2. CASE k # n
      <4>1. k \in 0 .. (n - 1) /\ g[k] = f[k]
        BY <2>4, <3>2
      <4>2. k # 0 => g[k - 1] = f[k - 1]
        BY <2>4, <4>1
      <4> QED BY <2>6, <4>1, <4>2
    <3> QED BY <3>1, <3>2
  <2>8. PICK r : r = Pruning(log, kept, n, g)
    OBVIOUS
  <2>9. r = g
    <3>1. r = [k \in 0 .. n |-> r[k]] /\ g = [k \in 0 .. n |-> g[k]]
      BY <2>3, <2>8 DEF Pruning
    <3>2. \A k \in 0 .. n : r[k] = g[k]
      BY <2>7, <2>8 DEF Pruning, PrunedBy
    <3> QED BY <3>1, <3>2
  <2>10. \E F : F = Pruning(log, kept, n, F)
    BY <2>8, <2>9
  <2>11. n \in 0 .. m
    OBVIOUS
  <2> QED BY <2>10, <2>11
<1> HIDE DEF G
<1>3. m \in G
  BY <1>1, <1>2, Climb
<1> QED BY <1>3 DEF G

(* s has those of the first i records that are kept, in their order.        *)
Picks(log, kept, i, s, g) ==
  /\ IsSeq(s)
  /\ \A k \in 1 .. Len(s) : g[k] \in kept /\ g[k] \in 1 .. i /\ s[k] = log[g[k]]
  /\ \A k, l \in 1 .. Len(s) : k < l => g[k] < g[l]
  /\ \A j \in kept : j \in 1 .. i => \E k \in 1 .. Len(s) : g[k] = j

(* One record more.                                                         *)
LEMMA PicksOn ==
  ASSUME NEW log, NEW kept, NEW i \in Nat \ {0}, NEW s, NEW g, Picks(log, kept, i - 1, s, g)
  PROVE  \E h : Picks(log, kept, i, PrunedBy(log, kept, i, s), h)
<1>1. /\ IsSeq(s) /\ Len(s) \in Nat
      /\ \A k \in 1 .. Len(s) : g[k] \in kept /\ g[k] \in 1 .. (i - 1) /\ s[k] = log[g[k]]
      /\ \A k, l \in 1 .. Len(s) : k < l => g[k] < g[l]
      /\ \A j \in kept : j \in 1 .. (i - 1) => \E k \in 1 .. Len(s) : g[k] = j
  BY SeqParts DEF Picks
<1>2. CASE i \notin kept
  <2>1. PrunedBy(log, kept, i, s) = s
    BY <1>2 DEF PrunedBy
  <2>2. \A k \in 1 .. Len(s) : g[k] \in 1 .. i
    BY <1>1
  <2>3. \A j \in kept : j \in 1 .. i => j \in 1 .. (i - 1)
    BY <1>2
  <2>4. Picks(log, kept, i, s, g)
    BY <1>1, <2>2, <2>3 DEF Picks
  <2> QED BY <2>1, <2>4
<1>3. CASE i \in kept
  <2> DEFINE n == Len(s) + 1
  <2>1. PICK t : t = Append(s, log[i])
    OBVIOUS
  <2>2. /\ IsSeq(t) /\ Len(t) = n /\ t[n] = log[i]
        /\ \A k \in 1 .. Len(s) : t[k] = s[k]
    BY <1>1, <2>1, SeqAppend
  <2>3. PICK h : h = [k \in 1 .. n |-> IF k = n THEN i ELSE g[k]]
    OBVIOUS
  <2>4. h[n] = i /\ n \in 1 .. n /\ \A k \in 1 .. Len(s) : h[k] = g[k]
    BY <1>1, <2>3
  <2>5. \A k \in 1 .. Len(t) : k = n \/ k \in 1 .. Len(s)
    BY <1>1, <2>2
  <2>6. \A k \in 1 .. Len(t) : h[k] \in kept /\ h[k] \in 1 .. i /\ t[k] = log[h[k]]
    BY <1>1, <1>3, <2>2, <2>4, <2>5
  <2>7. ASSUME NEW k \in 1 .. Len(t), NEW l \in 1 .. Len(t), k < l PROVE h[k] < h[l]
    <3>1. k \in 1 .. Len(s) /\ h[k] = g[k] /\ g[k] \in 1 .. (i - 1)
      BY <1>1, <2>2, <2>4, <2>7
    <3>2. CASE l = n
      BY <2>4, <3>1, <3>2
    <3>3. CASE l # n
      <4>1. l \in 1 .. Len(s) /\ h[l] = g[l]
        BY <2>4, <2>5, <3>3
      <4> QED BY <1>1, <2>7, <3>1, <4>1
    <3> QED BY <3>2, <3>3
  <2>8. ASSUME NEW j \in kept, j \in 1 .. i PROVE \E k \in 1 .. Len(t) : h[k] = j
    <3>1. CASE j = i
      BY <2>2, <2>4, <3>1
    <3>2. CASE j # i
      <4>1. j \in 1 .. (i - 1)
        BY <2>8, <3>2
      <4>2. PICK k \in 1 .. Len(s) : g[k] = j
        BY <1>1, <4>1
      <4>3. k \in 1 .. Len(t) /\ h[k] = j
        BY <1>1, <2>2, <2>4, <4>2
      <4> QED BY <4>3
    <3> QED BY <3>1, <3>2
  <2>9. Picks(log, kept, i, t, h)
    BY <2>2, <2>6, <2>7, <2>8 DEF Picks
  <2>10. PrunedBy(log, kept, i, s) = t
    BY <1>3, <2>1 DEF PrunedBy
  <2> QED BY <2>9, <2>10
<1> QED BY <1>2, <1>3

Kept(log, stale, roots) == {i \in DOMAIN log : i > stale} \cup Reachable(log, roots)

(* What PRUNE LINEAGE leaves are the kept records in their order.           *)
LEMMA PrunedPicks ==
  ASSUME NEW log, IsSeq(log), NEW stale, NEW roots
  PROVE  \E g : Picks(log, Kept(log, stale, roots), Len(log), Pruned(log, stale, roots), g)
<1> DEFINE kept == Kept(log, stale, roots)
           n == Len(log)
<1>1. n \in Nat
  BY SeqParts
<1>2. PICK f : f = Pruning(log, kept, n, f)
  BY <1>1, PruningExists
<1> DEFINE t == CHOOSE u : u = [k \in 0 .. Len(log) |->
                                  IF k = 0 THEN << >>
                                  ELSE IF k \in ({i \in DOMAIN log : i > stale} \cup Reachable(log, roots))
                                       THEN Append(u[k - 1], log[k]) ELSE u[k - 1]]
<1>3. t = [k \in 0 .. Len(log) |->
             IF k = 0 THEN << >>
             ELSE IF k \in ({i \in DOMAIN log : i > stale} \cup Reachable(log, roots))
                  THEN Append(t[k - 1], log[k]) ELSE t[k - 1]]
  BY <1>2 DEF Pruning, Kept
<1>4. Pruned(log, stale, roots) = t[n]
  BY DEF Pruned
<1> HIDE DEF t
<1>5. PICK r : r = Pruning(log, kept, n, t)
  OBVIOUS
<1>6. t = r
  BY <1>3, <1>5 DEF Pruning, Kept
<1> HIDE DEF kept
<1>7. r[0] = << >> /\ \A k \in 1 .. n : r[k] = PrunedBy(log, kept, k, t[k - 1])
  BY <1>1, <1>5 DEF Pruning, PrunedBy
<1>8. \A k \in 1 .. n : r[k] = PrunedBy(log, kept, k, r[k - 1])
  BY <1>6, <1>7
<1> DEFINE G == {i \in 0 .. n : \E g : Picks(log, kept, i, r[i], g)}
<1>9. 0 \in G
  <2>1. IsSeq(<< >>) /\ Len(<< >>) = 0
    BY DEF IsSeq
  <2>2. \A g : Picks(log, kept, 0, << >>, g)
    BY <2>1 DEF Picks
  <2>3. \E g : Picks(log, kept, 0, r[0], g)
    BY <1>7, <2>2
  <2> QED BY <1>1, <2>3
<1>10. ASSUME NEW i \in 1 .. n, i - 1 \in G PROVE i \in G
  <2>1. PICK g : Picks(log, kept, i - 1, r[i - 1], g)
    BY <1>10
  <2>2. i \in Nat \ {0} /\ i \in 0 .. n
    BY <1>1
  <2>3. \E h : Picks(log, kept, i, PrunedBy(log, kept, i, r[i - 1]), h)
    BY <2>1, <2>2, PicksOn
  <2>4. \E h : Picks(log, kept, i, r[i], h)
    BY <1>8, <2>3
  <2> QED BY <2>2, <2>4
<1> HIDE DEF G
<1>11. n \in G
  BY <1>1, <1>9, <1>10, Climb
<1>12. \E g : Picks(log, kept, n, r[n], g)
  BY <1>11 DEF G
<1> QED BY <1>4, <1>6, <1>12 DEF kept

(* Reachable has the producers of the roots, and of what went into what it  *)
(* has: it is the least such set, so in each of them.                       *)
LEMMA ReachableCloses ==
  ASSUME NEW log, IsSeq(log), NEW roots, NEW e \in roots
  PROVE  /\ Reachable(log, roots) \subseteq 1 .. Len(log)
         /\ Producer(log, e, Len(log) + 1) \in Reachable(log, roots) \cup {0}
         /\ \A j \in Reachable(log, roots) : \A x \in Range(log[j].inputs) :
              Producer(log, x, j) \in Reachable(log, roots) \cup {0}
<1> DEFINE Closed(S) ==
             /\ \A r \in roots : Producer(log, r, Len(log) + 1) \in S \cup {0}
             /\ \A j \in S : \A x \in Range(log[j].inputs) : Producer(log, x, j) \in S \cup {0}
           R == Reachable(log, roots)
<1>1. Len(log) \in Nat /\ DOMAIN log = 1 .. Len(log)
  BY SeqParts
<1>2. R = {i \in DOMAIN log : \A S \in SUBSET DOMAIN log : Closed(S) => i \in S}
  BY DEF Reachable
<1> HIDE DEF R
<1>3. Producer(log, e, Len(log) + 1) \in R \cup {0}
  <2> DEFINE p == Producer(log, e, Len(log) + 1)
  <2>1. SUFFICES ASSUME p # 0 PROVE p \in R
    OBVIOUS
  <2>2. p \in 0 .. (Len(log) + 1 - 1)
    BY <1>1, ProducerIs
  <2>3. p \in DOMAIN log
    BY <1>1, <2>1, <2>2
  <2>4. ASSUME NEW S \in SUBSET DOMAIN log, Closed(S) PROVE p \in S
    BY <2>1, <2>4
  <2> QED BY <1>2, <2>3, <2>4
<1>4. ASSUME NEW j \in R, NEW x \in Range(log[j].inputs) PROVE Producer(log, x, j) \in R \cup {0}
  <2> DEFINE p == Producer(log, x, j)
  <2>1. SUFFICES ASSUME p # 0 PROVE p \in R
    OBVIOUS
  <2>2. j \in 1 .. Len(log)
    BY <1>1, <1>2
  <2>3. p \in 0 .. (j - 1)
    BY <1>1, <2>2, ProducerIs
  <2>4. p \in DOMAIN log
    BY <1>1, <2>1, <2>2, <2>3
  <2>5. ASSUME NEW S \in SUBSET DOMAIN log, Closed(S) PROVE p \in S
    <3>1. j \in S
      BY <1>2, <2>5
    <3> QED BY <2>1, <2>5, <3>1
  <2> QED BY <1>2, <2>4, <2>5
<1> QED BY <1>1, <1>2, <1>3, <1>4 DEF R

(* PRUNE LINEAGE keeps the ancestry of every root.                          *)
LEMMA PrunedAncestry ==
  ASSUME NEW log, IsSeq(log), NEW stale, NEW roots, NEW e \in roots
  PROVE  IsSeq(Pruned(log, stale, roots)) /\ Ancestry(Pruned(log, stale, roots), e) = Ancestry(log, e)
<1> DEFINE kept == Kept(log, stale, roots)
<1>1. PICK s : s = Pruned(log, stale, roots)
  OBVIOUS
<1>2. PICK g : Picks(log, kept, Len(log), s, g)
  BY <1>1, PrunedPicks
<1>3. Inside(s, log, g)
  BY <1>2 DEF Picks, Inside
<1>4. PICK R : R = Reachable(log, roots)
  OBVIOUS
<1>5. R \subseteq {g[k] : k \in 1 .. Len(s)}
  <2> SUFFICES ASSUME NEW j \in R PROVE \E k \in 1 .. Len(s) : g[k] = j
    OBVIOUS
  <2>1. j \in kept /\ j \in 1 .. Len(log)
    BY <1>4, ReachableCloses DEF Kept
  <2> HIDE DEF kept
  <2> QED BY <1>2, <2>1 DEF Picks
<1>6. Spans(s, log, g, R, e)
  BY <1>4, <1>5, ReachableCloses DEF Spans
<1>7. Ancestry(s, e) = Ancestry(log, e)
  BY <1>3, <1>6, SameAncestry
<1> QED BY <1>1, <1>2, <1>7 DEF Picks
-----------------------------------------------------------------------------
(* The log of records and the log of statements are sequences.              *)
LogsAreSequences == IsSeq(records) /\ IsSeq(logged)

(* What each step does to the records, but for prunings.                    *)
Grows(name) ==
  /\ Extends(records, records')
  /\ \A e : e.name = name /\ Named(records, e) => NamesNoMore(records, records', e)

(* A restart, from the records or from one more.                            *)
LEMMA RestartGrows ==
  ASSUME LogsAreSequences, NEW lines, Extends(records, lines), RestartFrom(lines)
  PROVE  /\ LogsAreSequences' /\ Extends(records, records')
         /\ \A e : Named(records, e) /\ NamesNoMore(records, lines, e)
                     => NamesNoMore(records, records', e)
<1>1. /\ IsSeq(logged) /\ IsSeq(lines)
      /\ records' = Recovered(lines).records /\ logged' = logged
  BY DEF LogsAreSequences, Extends, RestartFrom
<1>2. /\ Extends(lines, records')
      /\ \A e : Named(lines, e) => NamesNoMore(lines, records', e)
  BY <1>1, RecoveredExtends
<1>3. \A e : Named(records, e) => Named(lines, e)
  <2>1. Len(records) \in Nat /\ Len(lines) \in Nat
    BY SeqParts DEF Extends
  <2> QED BY <2>1 DEF Named, Extends
<1>4. \A e : Named(records, e) /\ NamesNoMore(records, lines, e) => NamesNoMore(records, records', e)
  BY <1>2, <1>3, ExtendsOn
<1>5. Extends(records, records')
  BY <1>2, ExtendsOn
<1>6. LogsAreSequences'
  BY <1>1, <1>2 DEF LogsAreSequences, Extends
<1> QED BY <1>4, <1>5, <1>6

(* Each step, for a dataset it does not make.                               *)
LEMMA ExecuteGrows ==
  ASSUME LogsAreSequences, NEW s, Execute(s)
  PROVE  LogsAreSequences' /\ \A n : n # s.name => Grows(n)
<1> DEFINE w == [live |-> live, records |-> records]
<1>1. w.records = records /\ IsSeq(w.records)
  BY DEF LogsAreSequences
<1>2. records' = Done(w, s, FALSE).records /\ logged' = Append(logged, s)
  BY DEF Execute
<1> HIDE DEF w
<1>3. /\ Extends(w.records, Done(w, s, FALSE).records)
      /\ \A e : e.name # s.name => NamesNoMore(w.records, Done(w, s, FALSE).records, e)
  BY <1>1, DoneIs
<1>4. Extends(records, records') /\ \A e : e.name # s.name => NamesNoMore(records, records', e)
  BY <1>1, <1>2, <1>3
<1>5. IsSeq(logged')
  BY <1>2, SeqAppend DEF LogsAreSequences
<1>6. LogsAreSequences'
  BY <1>4, <1>5 DEF LogsAreSequences, Extends
<1> QED BY <1>4, <1>6 DEF Grows

LEMMA CrashGrows ==
  ASSUME LogsAreSequences, NEW s, CrashBeforeLogging(s)
  PROVE  LogsAreSequences' /\ \A n : n # s.name => Grows(n)
<1> DEFINE w == [live |-> live, records |-> records]
           lines == Done(w, s, FALSE).records
<1>1. w.records = records /\ IsSeq(w.records)
  BY DEF LogsAreSequences
<1>2. RestartFrom(lines)
  BY DEF CrashBeforeLogging
<1> HIDE DEF w
<1>3. /\ Extends(w.records, lines)
      /\ \A e : e.name # s.name => NamesNoMore(w.records, lines, e)
  BY <1>1, DoneIs
<1> HIDE DEF lines
<1>4. /\ LogsAreSequences' /\ Extends(records, records')
      /\ \A e : Named(records, e) /\ NamesNoMore(records, lines, e)
                  => NamesNoMore(records, records', e)
  BY <1>1, <1>2, <1>3, RestartGrows
<1> QED BY <1>1, <1>3, <1>4 DEF Grows

LEMMA RestartOnlyGrows ==
  ASSUME LogsAreSequences, Restart
  PROVE  LogsAreSequences' /\ \A n : Grows(n)
<1>1. Extends(records, records) /\ \A e : NamesNoMore(records, records, e)
  BY ExtendsSelf DEF LogsAreSequences
<1>2. /\ LogsAreSequences' /\ Extends(records, records')
      /\ \A e : Named(records, e) /\ NamesNoMore(records, records, e)
                  => NamesNoMore(records, records', e)
  BY <1>1, RestartGrows DEF Restart
<1> QED BY <1>1, <1>2 DEF Grows

LEMMA SaveGrows ==
  ASSUME LogsAreSequences, NEW name, SaveDataset(name)
  PROVE  LogsAreSequences' /\ \A n : Grows(n)
<1> DEFINE r == Root("save", name, live[name])
<1>1. records' = Recorded(records, r, FALSE) /\ logged' = << >>
  BY DEF SaveDataset
<1>2. Single(r) /\ r.inputs = << >>
  BY RootIs
<1> HIDE DEF r
<1>3. /\ Extends(records, Recorded(records, r, FALSE))
      /\ \A e : Named(records, e) => NamesNoMore(records, Recorded(records, r, FALSE), e)
  BY <1>2, RecordedIs DEF LogsAreSequences
<1>4. IsSeq(<< >>)
  BY DEF IsSeq
<1> QED BY <1>1, <1>3, <1>4 DEF LogsAreSequences, Grows, Extends

LEMMA LoadGrows ==
  ASSUME LogsAreSequences, NEW name, NEW hash, LoadMemory(name, hash)
  PROVE  LogsAreSequences' /\ \A n \in DOMAIN live : Grows(n)
<1> DEFINE r == Root("load", name, hash)
<1>1. records' = Recorded(records, r, FALSE) /\ logged' = << >> /\ name \notin DOMAIN live
  BY DEF LoadMemory
<1>2. Single(r) /\ Output(r).name = name
  BY RootIs DEF Entity
<1> HIDE DEF r
<1>3. /\ Extends(records, Recorded(records, r, FALSE))
      /\ \A e : Output(r) # e => NamesNoMore(records, Recorded(records, r, FALSE), e)
  BY <1>2, RecordedIs DEF LogsAreSequences
<1>4. IsSeq(<< >>)
  BY DEF IsSeq
<1>5. \A n \in DOMAIN live : \A e : e.name = n => Output(r) # e
  BY <1>1, <1>2
<1> QED BY <1>1, <1>3, <1>4, <1>5 DEF LogsAreSequences, Grows, Extends

(* A step that names the dataset nowhere keeps its lineage.                 *)
LEMMA GrowsKeeps ==
  ASSUME LogsAreSequences, NEW n, Grows(n), live'[n] = live[n], Traced(n)
  PROVE  LineageOf(n)' = LineageOf(n)
<1> DEFINE e == Entity(n, live[n])
<1>1. e.name = n
  BY DEF Entity
<1>2. Named(records, e)
  BY SeqParts DEF LogsAreSequences, Traced, Named, Naming
<1>3. LineageOf(n) = Ancestry(records, e) /\ LineageOf(n)' = Ancestry(records', e)
  BY DEF LineageOf
<1> HIDE DEF e
<1>4. Extends(records, records') /\ NamesNoMore(records, records', e)
  BY <1>1, <1>2 DEF Grows
<1>5. Ancestry(records', e) = Ancestry(records, e)
  BY <1>2, <1>4, AppendedAncestry
<1> QED BY <1>3, <1>5

LEMMA PruneKeeps ==
  ASSUME LogsAreSequences, NEW stale, Prune(stale)
  PROVE  /\ LogsAreSequences'
         /\ \A n \in DOMAIN live : LineageOf(n)' = LineageOf(n)
<1>1. /\ IsSeq(records) /\ IsSeq(logged)
      /\ records' = Pruned(records, stale, Roots(live))
      /\ live' = live /\ logged' = logged
  BY DEF Prune, LogsAreSequences
<1>2. IsSeq(records')
  BY <1>1, PrunedPicks DEF Picks
<1>3. ASSUME NEW n \in DOMAIN live PROVE LineageOf(n)' = LineageOf(n)
  <2>1. Entity(n, live[n]) \in Roots(live)
    BY DEF Roots
  <2>2. Ancestry(records', Entity(n, live[n])) = Ancestry(records, Entity(n, live[n]))
    BY <1>1, <2>1, PrunedAncestry
  <2> QED BY <1>1, <2>2 DEF LineageOf
<1> QED BY <1>1, <1>2, <1>3 DEF LogsAreSequences

(* What LineageIsKept says of a step.                                       *)
KeptOf(n) ==
  \/ LineageOf(n)' = LineageOf(n)
  \/ \E s \in Statements : s.name = n /\ (Execute(s) \/ CrashBeforeLogging(s))
(* A restart after a restart adds nothing.                                  *)
LEMMA RestartRepeats ==
  ASSUME LogsAreSequences, Restart
  PROVE  Recovered(records').records = records'
<1>1. records' = Recovered(records).records
  BY DEF Restart, RestartFrom
<1>2. Recovered(Recovered(records).records).records = Recovered(records).records
  BY RecoveredTwice DEF LogsAreSequences
<1> QED BY <1>1, <1>2

(* Each action keeps what it does not make.                                 *)
LEMMA StepKeeps ==
  ASSUME LogsAreSequences, LineageNext
  PROVE  /\ LogsAreSequences'
         /\ \A n \in DOMAIN live \cap DOMAIN live' : live[n] = live'[n] /\ Traced(n) => KeptOf(n)
<1>1. ASSUME NEW n, Grows(n), live[n] = live'[n], Traced(n) PROVE KeptOf(n)
  <2>1. LineageOf(n)' = LineageOf(n)
    BY <1>1, GrowsKeeps
  <2> QED BY <2>1 DEF KeptOf
<1>2. ASSUME NEW s \in Statements, Execute(s) \/ CrashBeforeLogging(s)
      PROVE  /\ LogsAreSequences'
             /\ \A n : live[n] = live'[n] /\ Traced(n) => KeptOf(n)
  <2>1. LogsAreSequences' /\ \A n : n # s.name => Grows(n)
    BY <1>2, ExecuteGrows, CrashGrows
  <2>2. KeptOf(s.name)
    BY <1>2 DEF KeptOf
  <2> QED BY <1>1, <2>1, <2>2
<1>3. ASSUME NEW name, SaveDataset(name)
      PROVE  /\ LogsAreSequences'
             /\ \A n : live[n] = live'[n] /\ Traced(n) => KeptOf(n)
  BY <1>1, <1>3, SaveGrows
<1>4. ASSUME NEW name, NEW hash, LoadMemory(name, hash)
      PROVE  /\ LogsAreSequences'
             /\ \A n \in DOMAIN live : live[n] = live'[n] /\ Traced(n) => KeptOf(n)
  BY <1>1, <1>4, LoadGrows
<1>5. ASSUME NEW stale, Prune(stale)
      PROVE  /\ LogsAreSequences'
             /\ \A n \in DOMAIN live : KeptOf(n)
  BY <1>5, PruneKeeps DEF KeptOf
<1>6. ASSUME Restart
      PROVE  /\ LogsAreSequences'
             /\ \A n : live[n] = live'[n] /\ Traced(n) => KeptOf(n)
  BY <1>1, <1>6, RestartOnlyGrows
<1>7. \/ \E s \in Statements : Execute(s) \/ CrashBeforeLogging(s)
      \/ \E n \in Names : SaveDataset(n) \/ \E h \in 1 .. Contents : LoadMemory(n, h)
      \/ \E stale \in 1 .. Len(records) : Prune(stale)
      \/ Restart
  BY DEF LineageNext
<1> QED BY <1>2, <1>3, <1>4, <1>5, <1>6, <1>7

(***************************************************************************)
(* The lineage of a dataset whose contents stay is changed by nothing but  *)
(* a new record about it, and a second restart adds no record: for any     *)
(* names, contents and number of statements, prunings and crashes.         *)
(***************************************************************************)
THEOREM LineageStays == LineageSpec => LineageIsKept
<1>1. LineageInit => LogsAreSequences
  <2>1. IsSeq(<< >>)
    BY DEF IsSeq
  <2> QED BY <2>1 DEF LineageInit, LogsAreSequences
<1>2. ASSUME LogsAreSequences, [LineageNext]_lineageVars PROVE LogsAreSequences'
  <2>1. CASE LineageNext
    BY <1>2, <2>1, StepKeeps
  <2>2. CASE UNCHANGED lineageVars
    BY <1>2, <2>2 DEF lineageVars, LogsAreSequences, IsSeq
  <2> QED BY <1>2, <2>1, <2>2
<1>3. ASSUME LogsAreSequences, [LineageNext]_lineageVars
      PROVE  [/\ Restart => Recovered(records').records = records'
              /\ \A n \in DOMAIN live \cap DOMAIN live' :
                   live[n] = live'[n] /\ Traced(n) =>
                     \/ LineageOf(n)' = LineageOf(n)
                     \/ \E s \in Statements : s.name = n /\ (Execute(s) \/ CrashBeforeLogging(s))]_lineageVars
  <2>1. Restart => Recovered(records').records = records'
    BY <1>3, RestartRepeats
  <2>2. LineageNext =>
          \A n \in DOMAIN live \cap DOMAIN live' : live[n] = live'[n] /\ Traced(n) => KeptOf(n)
    BY <1>3, StepKeeps
  <2> QED BY <1>3, <2>1, <2>2 DEF KeptOf
<1> QED BY <1>1, <1>2, <1>3, PTL DEF LineageSpec, LineageIsKept
=============================================================================
