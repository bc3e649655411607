---------------------------- MODULE VectorIndexes ----------------------------
(***************************************************************************)
(* The store of a vector index and its IVF clusters. A store is the        *)
(* sequence of indexed vectors, each with the row it is of; vectors are of *)
(* the plane with whole components, and similarities are compared exactly: *)
(* <<s, d>> stands for a cosine whose square, with its sign, is s / d.     *)
(***************************************************************************)
EXTENDS Integers, Sequences, SequencesExt

CONSTANTS
  ClusterFrom,   \* MIN_VECTORS_TO_CLUSTER
  MaxClusters,   \* MAX_CLUSTERS
  Iterations     \* KMEANS_ITERATIONS

(***************************************************************************)
(* Similarity. The angle of two vectors by its cosine and sine, both over  *)
(* the square root of sq; a zero vector is at a right angle to everything. *)
(***************************************************************************)
Dot(v, w) == v[1] * w[1] + v[2] * w[2]
Squared(n) == n * n
Size(n) == IF n < 0 THEN -n ELSE n

Angle(v, w) ==
  IF Dot(v, v) = 0 \/ Dot(w, w) = 0
  THEN [cos |-> 0, sin |-> 1, sq |-> 1]
  ELSE [cos |-> Dot(v, w), sin |-> Size(v[1] * w[2] - v[2] * w[1]), sq |-> Dot(v, v) * Dot(w, w)]

Cosine(angle) == <<angle.cos * Size(angle.cos), angle.sq>>
Similarity(v, w) == Cosine(Angle(v, w))

Above(s, t) == s[1] * t[2] > t[1] * s[2]
Equal(s, t) == ~Above(s, t) /\ ~Above(t, s)

(* add_value: NULL is not indexed. *)
Store(cells, rows) ==
  LET whole == SelectSeq(rows, LAMBDA r : cells[r] # <<>>)
  IN [i \in 1..Len(whole) |-> [row |-> whole[i], vec |-> cells[whole[i]]]]

Places(store) == 1..Len(store)
To(store, i, query) == Similarity(store[i].vec, query)

(* Most similar first, the lower row id first among equals. *)
NearestFirst(store, places, query) ==
  SetToSortSeq(places, LAMBDA i, j :
    LET s == To(store, i, query)
        t == To(store, j, query)
    IN Above(s, t) \/ (Equal(s, t) /\ i < j))

FirstOf(seq, k) == SubSeq(seq, 1, IF k < Len(seq) THEN k ELSE Len(seq))

TopK(store, places, query, k) == FirstOf(NearestFirst(store, places, query), k)

(***************************************************************************)
(* IVF: k-means, the first best centroid wins; a centroid is the sum of    *)
(* its members, which has the direction of their mean.                     *)
(***************************************************************************)
Within(n, low, high) == IF n < low THEN low ELSE IF n > high THEN high ELSE n

ClusterCount(n) ==
  Within(CHOOSE r \in 0..n : (r = 0 \/ Squared(2 * r - 1) <= 4 * n) /\ 4 * n < Squared(2 * r + 1),
         2, IF MaxClusters < n \div 2 THEN MaxClusters ELSE n \div 2)

Nearest(store, centroids, i) ==
  CHOOSE c \in DOMAIN centroids :
    /\ \A d \in DOMAIN centroids : ~Above(To(store, i, centroids[d]), To(store, i, centroids[c]))
    /\ \A d \in 1..(c - 1) : Above(To(store, i, centroids[c]), To(store, i, centroids[d]))

Sum2(store, members) ==
  <<FoldSet(LAMBDA i, n : store[i].vec[1] + n, 0, members), FoldSet(LAMBDA i, n : store[i].vec[2] + n, 0, members)>>

MembersOf(assignment, c) == {i \in DOMAIN assignment : assignment[i] = c}

Moved(store, centroids, assignment) ==
  [c \in DOMAIN centroids |->
     LET members == MembersOf(assignment, c)
     IN IF members = {} THEN centroids[c] ELSE Sum2(store, members)]

KMeans(store) ==
  LET n == Len(store)
      number == ClusterCount(n)
      seeds == [c \in 1..number |-> store[((c - 1) * n) \div number + 1].vec]
      round[r \in 0..Iterations] ==
        IF r = 0 THEN [centroids |-> seeds, assignment |-> [i \in 1..n |-> 1]]
        ELSE LET before == round[r - 1].centroids
                 assigned == [i \in 1..n |-> Nearest(store, before, i)]
             IN [centroids |-> Moved(store, before, assigned), assignment |-> assigned]
      last == round[Iterations]
      kept == SelectSeq([c \in 1..number |-> c], LAMBDA c : MembersOf(last.assignment, c) # {})
      Cluster(c) ==
        LET members == MembersOf(last.assignment, c)
            farthest == CHOOSE i \in members : \A j \in members :
                          ~Above(To(store, i, last.centroids[c]), To(store, j, last.centroids[c]))
        IN [centroid |-> last.centroids[c], members |-> members,
            radius |-> Angle(last.centroids[c], store[farthest].vec)]
  IN [k \in 1..Len(kept) |-> Cluster(kept[k])]

(* build, with the vectors added since behind the clustered ones. *)
BuiltClusters(store, built) ==
  IF built < ClusterFrom THEN [store |-> store, clusters |-> <<>>, clustered |-> 0]
  ELSE [store |-> store, clusters |-> KMeans(SubSeq(store, 1, built)), clustered |-> built]

(* Mutant of UpperBound: a cluster is as far away as its centroid. *)
CentroidOnly(cluster, query) == Similarity(query, cluster.centroid)

(* No member is closer to the query than the cluster's edge. *)
UpperBound(cluster, query) ==
  LET a == Angle(query, cluster.centroid)
      r == cluster.radius
  IN IF ~Above(Cosine(r), Cosine(a)) THEN <<1, 1>>
     ELSE Cosine([cos |-> a.cos * r.cos + a.sin * r.sin, sq |-> a.sq * r.sq])

Passes(similarity, threshold, strict) ==
  Above(similarity, threshold) \/ (~strict /\ Equal(similarity, threshold))

(***************************************************************************)
(* search_threshold. The bound is computed in floating point: where it     *)
(* equals the threshold it may come out on either side (roundsUp).         *)
(***************************************************************************)
Scored(index, query, threshold, strict, roundsUp) ==
  LET n == Len(index.clusters)
      Open(c) == LET bound == UpperBound(c, query)
                 IN Above(bound, threshold) \/ (~strict /\ Equal(bound, threshold) /\ roundsUp)
  IN {i \in Places(index.store) : i > index.clustered}
       \cup UNION {index.clusters[c].members : c \in {d \in 1..n : Open(index.clusters[d])}}

ClusterThreshold(index, query, threshold, strict, roundsUp) ==
  {i \in Scored(index, query, threshold, strict, roundsUp) :
     Passes(To(index.store, i, query), threshold, strict)}

ClusterSearch(index, query, k) ==
  LET n == Len(index.clusters)
      Rank(c) == Similarity(query, index.clusters[c].centroid)
      ranked == SetToSortSeq(1..n, LAMBDA c, d : Above(Rank(c), Rank(d)) \/ (Equal(Rank(c), Rank(d)) /\ c < d))
      probed == {ranked[c] : c \in 1..(IF n = 0 THEN 0 ELSE Within(n \div 4, 1, n))}
      tail == {i \in Places(index.store) : i > index.clustered}
  IN TopK(index.store, tail \cup UNION {index.clusters[c].members : c \in probed}, query, k)
=============================================================================
