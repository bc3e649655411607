----------------------------- MODULE Similarity -----------------------------
(***************************************************************************)
(* SEARCH, and WHERE COSINE_SIM, over a column of cells (<<>> is NULL)     *)
(* whose index was built over its first rows, as questions.                *)
(***************************************************************************)
EXTENDS NeighborGraph, Questions

CONSTANTS
  Thresholds,        \* what COSINE_SIM is compared with
  ThresholdCases,    \* <<cells, rows of the build, query>>
  GraphCases,        \* <<cells, levels>>
  NearestCases       \* <<cells, levels, rows of the build, query, k, rows that pass>>

AskSimilarity ==
  Ask("threshold", ThresholdCases) \/ Ask("graph", GraphCases) \/ Ask("nearest", NearestCases)

RowsUpTo(n) == [r \in 1..n |-> r]
StoreOf(cells) == Store(cells, RowsUpTo(Len(cells)))
BuiltPlaces(cells, built) == Len(Store(cells, RowsUpTo(built)))

Ivf(cells, built) == BuiltClusters(StoreOf(cells), BuiltPlaces(cells, built))
Hnsw(cells, levels, built) == BuiltGraph(StoreOf(cells), levels, BuiltPlaces(cells, built))

RowsAt(index, places) == {index.store[i].row : i \in places}
HitRows(index, hits) == [h \in 1..Len(hits) |-> index.store[hits[h]].row]

(* WHERE COSINE_SIM(column, query) > or >= threshold, through the clusters. *)
CosineFilter(index, query, threshold, strict, roundsUp) ==
  RowsAt(index, ClusterThreshold(index, query, threshold, strict, roundsUp))

(* PREFILTER: every row that passes is scored; a NULL one is not. *)
Prefiltered(cells, passing, query, k) ==
  LET store == Store(cells, SetToSortSeq(passing, <))
  IN HitRows([store |-> store], TopK(store, Places(store), query, k))

(* PREFILTER ... APPROX: rows that pass are counted before NULLs are known. *)
Approximate(index, passing, query, k) ==
  LET allowed == {i \in Places(index.store) : index.store[i].row \in passing}
  IN HitRows(index, FilteredSearch(index, query, k, allowed, Cardinality(passing)))

(***************************************************************************)
(* What an index may not change.                                           *)
(***************************************************************************)
Present(cells, rows) == {r \in rows : cells[r] # <<>>}
AheadIn(cells, query, r, s) ==
  LET x == Similarity(cells[r], query)
      y == Similarity(cells[s], query)
  IN Above(x, y) \/ (Equal(x, y) /\ r < s)

Few(m, n) == IF m < n THEN m ELSE n

(* hits are rows of the set, the nearer first, no row twice. *)
InOrder(cells, query, rows, hits) ==
  /\ ToSet(hits) \subseteq rows
  /\ \A g, h \in 1..Len(hits) : g < h => AheadIn(cells, query, hits[g], hits[h])

(* None of the set is left out for one behind it. *)
NoneMissed(cells, query, rows, hits, k) ==
  \A r \in rows \ ToSet(hits) :
    Len(hits) = k /\ \A h \in 1..k : AheadIn(cells, query, hits[h], r)

(***************************************************************************)
(* WHERE COSINE_SIM gives the same rows with a clustered index as without, *)
(* whatever was added after the build: a cluster is skipped only when no   *)
(* member can pass. Rows exactly at the threshold are left out of it: the  *)
(* bound is rounded, and a cluster that touches the threshold may go.      *)
(***************************************************************************)
FilterIsExact(cells, index, query) ==
  \A t \in Thresholds, strict, roundsUp \in BOOLEAN :
    LET passing == {r \in Present(cells, 1..Len(cells)) : Passes(Similarity(cells[r], query), t, strict)}
        found == CosineFilter(index, query, t, strict, roundsUp)
    IN /\ found \subseteq passing
       /\ {r \in passing : ~Equal(Similarity(cells[r], query), t)} \subseteq found

ThresholdIsExact ==
  [][\A q \in {question'} : q[1] = "threshold" => FilterIsExact(q[2], Ivf(q[2], q[3]), q[4])]_question

(***************************************************************************)
(* A built graph can be walked: a link on a layer leads to another node    *)
(* that has the layer (its slots would be another node's, or nobody's),    *)
(* no slot is used twice, no list overflows its slots, every node but the  *)
(* first is linked on layer 0, and the entry is on the highest layer.      *)
(***************************************************************************)
LinksFit(graph, i, l) ==
  LET links == graph.links[i][l]
  IN /\ Len(links) <= Capacity(l)
     /\ IsInjective(links)
     /\ \A j \in ToSet(links) : j # i /\ l <= graph.levels[j]

Walkable(graph) ==
  /\ graph.entry \in DOMAIN graph.levels
  /\ graph.top = graph.levels[graph.entry]
  /\ \A i \in DOMAIN graph.levels :
       /\ graph.levels[i] <= graph.top
       /\ graph.links[i][0] # <<>>
       /\ \A l \in 0..graph.levels[i] : LinksFit(graph, i, l)

GraphFits ==
  [][\A q \in {question'} : q[1] = "graph" =>
       \A graph \in {Hnsw(q[2], q[3], Len(q[2])).graph} \ {NoGraph} : Walkable(graph)]_question

(***************************************************************************)
(* SEARCH through either index returns rows nearest first, the lower row   *)
(* id first among equals, and never leaves out a row added after the build *)
(* for one behind it; PREFILTER is the exact answer over the rows that     *)
(* pass; APPROX returns as many of them as that answer has.                *)
(***************************************************************************)
SearchFindsAdded(cells, built, query, k, hits) ==
  /\ InOrder(cells, query, Present(cells, 1..Len(cells)), hits)
  /\ NoneMissed(cells, query, Present(cells, (built + 1)..Len(cells)), hits, k)

PrefilterIsExact(cells, passing, query, k, exact, approximate) ==
  /\ InOrder(cells, query, passing, exact)
  /\ NoneMissed(cells, query, passing, exact, k)
  /\ InOrder(cells, query, passing, approximate)
  /\ Len(approximate) = Few(k, Cardinality(passing))

Found(cells, ivf, hnsw, built, query, k, passing) ==
  /\ SearchFindsAdded(cells, built, query, k, HitRows(ivf, ClusterSearch(ivf, query, k)))
  /\ SearchFindsAdded(cells, built, query, k, HitRows(hnsw, GraphSearch(hnsw, query, k)))
  /\ PrefilterIsExact(cells, Present(cells, passing), query, k,
       Prefiltered(cells, passing, query, k), Approximate(hnsw, passing, query, k))

HitsAreNearest ==
  [][\A q \in {question'} : q[1] = "nearest" =>
       Found(q[2], Ivf(q[2], q[4]), Hnsw(q[2], q[3], q[4]), q[4], q[5], q[6], q[7])]_question
=============================================================================
