---------------------------- MODULE NeighborGraph ----------------------------
(***************************************************************************)
(* The HNSW graph of a vector column. links[i][l] are the neighbours of    *)
(* node i on layer l, in the order of its slots; entry is 0 until the      *)
(* first node is in.                                                       *)
(***************************************************************************)
EXTENDS VectorIndexes

CONSTANTS
  GraphFrom,     \* MIN_VECTORS_TO_INDEX
  Fanout,        \* M: links of a node on an upper layer, twice that on layer 0
  SearchBeam,    \* EF_SEARCH
  BuildBeam,     \* EF_CONSTRUCTION
  BatchShare,    \* a batch is this share of what is in the graph (8)
  MaxBatch,      \* MAX_BATCH
  FewRows        \* how many beams of allowed rows are still scanned (4)

Capacity(layer) == IF layer = 0 THEN 2 * Fanout ELSE Fanout

Bare(levels) ==
  [entry |-> 0, top |-> 0, levels |-> levels,
   links |-> [i \in DOMAIN levels |-> [l \in 0..levels[i] |-> <<>>]]]

(* Cand: more similar, then the lower node. *)
Ahead(store, query, i, j) ==
  LET s == To(store, i, query)
      t == To(store, j, query)
  IN Above(s, t) \/ (Equal(s, t) /\ i < j)

Best(store, query, nodes) == CHOOSE i \in nodes : \A j \in nodes \ {i} : Ahead(store, query, i, j)
Worst(store, query, nodes) == CHOOSE i \in nodes : \A j \in nodes \ {i} : Ahead(store, query, j, i)

(***************************************************************************)
(* search_layer and search_layer_filtered: a beam over one layer. Any node *)
(* is walked through, only an accepted one is held.                        *)
(***************************************************************************)
Held(store, query, accept, beam, held, i) ==
  LET more == held \cup ({i} \cap accept)
  IN IF Cardinality(more) > beam THEN more \ {Worst(store, query, more)} ELSE more

Visit(store, query, accept, beam, walk, i) ==
  IF i \in walk.seen THEN walk
  ELSE LET worth == \/ Cardinality(walk.held) < beam
                    \/ Above(To(store, i, query), To(store, Worst(store, query, walk.held), query))
       IN [seen |-> walk.seen \cup {i},
           open |-> IF worth THEN walk.open \cup {i} ELSE walk.open,
           held |-> IF worth THEN Held(store, query, accept, beam, walk.held, i) ELSE walk.held]

RECURSIVE Walked(_, _, _, _, _, _, _)
Walked(store, graph, query, layer, accept, beam, walk) ==
  IF walk.open = {} THEN walk.held
  ELSE LET c == Best(store, query, walk.open)
           done == /\ Cardinality(walk.held) >= beam
                   /\ Above(To(store, Worst(store, query, walk.held), query), To(store, c, query))
       IN IF done THEN walk.held
          ELSE Walked(store, graph, query, layer, accept, beam,
                 FoldLeft(LAMBDA w, i : Visit(store, query, accept, beam, w, i),
                          [walk EXCEPT !.open = @ \ {c}], graph.links[c][layer]))

SearchLayer(store, graph, query, entries, beam, layer, accept) ==
  LET held == FoldSet(LAMBDA i, h : Held(store, query, accept, beam, h, i), {}, entries)
  IN Walked(store, graph, query, layer, accept, beam, [seen |-> entries, open |-> entries, held |-> held])

(* Down to the layer above level by the best node of each layer. *)
Descended(store, graph, query, level) ==
  LET entries[l \in level..graph.top] ==
        IF l = graph.top THEN {graph.entry}
        ELSE SearchLayer(store, graph, query, entries[l + 1], 1, l + 1, Places(store))
  IN entries[level]

(***************************************************************************)
(* select_neighbors: the candidates closer to the base than to any one     *)
(* kept before them, topped up with those passed over.                     *)
(***************************************************************************)
SelectNeighbors(store, base, candidates, number) ==
  LET choose(chosen, c) ==
        IF Len(chosen.kept) >= number THEN chosen
        ELSE IF \A i \in 1..Len(chosen.kept) :
                  Above(To(store, c, base), To(store, c, store[chosen.kept[i]].vec))
        THEN [chosen EXCEPT !.kept = Append(@, c)]
        ELSE [chosen EXCEPT !.skipped = Append(@, c)]
      chosen == FoldLeft(choose, [kept |-> <<>>, skipped |-> <<>>], candidates)
  IN FirstOf(chosen.kept \o chosen.skipped, number)

(* Mutant of BatchMates: every earlier node of the batch, on whatever layer. *)
AllMates(graph, start, q, layer) == start..(q - 1)

(* Neighbours of node q on its layers: found in the graph as it was before *)
(* the batch, or among the batch's earlier nodes.                          *)
BatchMates(graph, start, q, layer) == {i \in start..(q - 1) : layer <= graph.levels[i]}

PlanInsert(store, graph, start, q) ==
  LET query == store[q].vec
      level == graph.levels[q]
      top == Within(level, 0, graph.top)
      found[l \in 0..level] ==
        IF graph.entry = 0 \/ l > top THEN {}
        ELSE SearchLayer(store, graph, query,
               IF l = top THEN Descended(store, graph, query, top) ELSE found[l + 1],
               BuildBeam, l, Places(store))
  IN [l \in 0..level |->
        SelectNeighbors(store, query, NearestFirst(store, found[l] \cup BatchMates(graph, start, q, l), query), Fanout)]

(***************************************************************************)
(* apply_batch: each new node gets its links, and every node they lead to  *)
(* a link back, its list cut to its capacity.                              *)
(***************************************************************************)
LinkedBack(store, links, plans, i, layer) ==
  LET new == SelectSeq(SetToSortSeq(DOMAIN plans, <), LAMBDA q :
               layer \in DOMAIN plans[q] /\ Contains(plans[q][layer], i))
      all == links[i][layer] \o SelectSeq(new, LAMBDA q : ~Contains(links[i][layer], q))
      base == store[i].vec
  IN IF new # <<>> /\ Len(all) > Capacity(layer)
     THEN SelectNeighbors(store, base, NearestFirst(store, ToSet(all), base), Capacity(layer))
     ELSE all

ApplyBatch(store, graph, plans) ==
  LET own == [i \in DOMAIN graph.links |-> IF i \in DOMAIN plans THEN plans[i] ELSE graph.links[i]]
      highest == FoldLeft(LAMBDA e, q : IF e = 0 \/ graph.levels[q] > graph.levels[e] THEN q ELSE e,
                          graph.entry, SetToSortSeq(DOMAIN plans, <))
  IN [graph EXCEPT
        !.links = [i \in DOMAIN own |-> [l \in DOMAIN own[i] |-> LinkedBack(store, own, plans, i, l)]],
        !.entry = highest, !.top = graph.levels[highest]]

RECURSIVE Grown(_, _, _)
Grown(store, graph, inserted) ==
  LET n == Len(graph.levels)
      last == inserted + Within(inserted \div BatchShare, 1, MaxBatch)
      batch == (inserted + 1)..(IF last < n THEN last ELSE n)
  IN IF batch = {} THEN graph
     ELSE Grown(store, ApplyBatch(store, graph, [q \in batch |-> PlanInsert(store, graph, inserted + 1, q)]),
                inserted + Cardinality(batch))

(* build, over the first vectors of the store; the rest are its tail. *)
NoGraph == [entry |-> 0]

BuiltGraph(store, levels, built) ==
  IF built < GraphFrom THEN [store |-> store, graph |-> NoGraph, indexed |-> 0]
  ELSE [store |-> store, indexed |-> built,
        graph |-> Grown(SubSeq(store, 1, built), Bare(SubSeq(levels, 1, built)), 0)]

Larger(m, n) == IF m > n THEN m ELSE n

GraphHits(index, query, beam, accept) ==
  LET store == SubSeq(index.store, 1, index.indexed)
  IN IF index.graph = NoGraph THEN {}
     ELSE SearchLayer(store, index.graph, query, Descended(store, index.graph, query, 0), beam, 0, accept)

Unindexed(index) == {i \in Places(index.store) : i > index.indexed}

GraphSearch(index, query, k) ==
  LET beam == Larger(SearchBeam, k)
      hits == GraphHits(index, query, beam, Places(index.store))
  IN TopK(index.store, Unindexed(index) \cup hits, query, k)

(* Mutant of FilteredSearch: what the walk found, however few. *)
WalkedSearch(index, query, k, allowed, count) ==
  IF index.graph = NoGraph \/ count <= FewRows * Larger(SearchBeam, k) THEN TopK(index.store, allowed, query, k)
  ELSE TopK(index.store,
         GraphHits(index, query, Larger(SearchBeam, k), allowed) \cup (allowed \cap Unindexed(index)), query, k)

(***************************************************************************)
(* search_filtered, of the allowed places: exactly when they are few, when *)
(* there is no graph, or when the walk found too few.                      *)
(***************************************************************************)
FilteredSearch(index, query, k, allowed, count) ==
  LET beam == Larger(SearchBeam, k)
      exact == TopK(index.store, allowed, query, k)
      hits == GraphHits(index, query, beam, allowed)
      tail == ToSet(TopK(index.store, allowed \cap Unindexed(index), query, k))
  IN IF index.graph = NoGraph \/ count <= FewRows * beam THEN exact
     ELSE IF Cardinality(hits \cup tail) < (IF k < count THEN k ELSE count) THEN exact
     ELSE TopK(index.store, hits \cup tail, query, k)

=============================================================================
