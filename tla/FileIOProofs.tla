--------------------------- MODULE FileIOProofs ----------------------------
(***************************************************************************)
(* Theorems about reading, writing, truncating, deleting and renaming      *)
(* files (module FileIO), for any sizes of volume, clusters, directories   *)
(* and tables.  They hold for programs that delete and rename closed files *)
(* only (Careful) and open with modes of which no two let a file be open   *)
(* twice while one of the two writes (ExclusiveWriters): file.c keeps size *)
(* and cursor per open, and nothing tells one open that another has moved  *)
(* the end of the file.                                                    *)
(*                                                                         *)
(* The argument: in a table that is linked, no two links lead to the same  *)
(* cluster, so chains from different first clusters never meet.  The files *)
(* lie in the table of the kernel as their slots have them, and in the     *)
(* table on disk as their entries have them; the disk is behind the table, *)
(* with links not yet set and clusters not yet taken, and a freed cluster  *)
(* is on disk before it can be used again.                                 *)
(***************************************************************************)
EXTENDS FileIO, Extremum, FiniteSetTheorems, SequenceTheorems

----------------------------------------------------------------------------
(* Chains.                                                                 *)

Link == Entry \cup {CLUS_EOC}

\* A link leads to a cluster in use, and no two lead to the same.
Linked(T) ==
  /\ \A k \in Clusters : T[k] \in Clusters => T[T[k]] # 0
  /\ \A j, k \in Clusters : T[j] = T[k] /\ T[j] \in Clusters => j = k

\* first, if it is a cluster, begins a chain.
Rooted(T, first) == first \in Clusters => T[first] # 0 /\ \A k \in Clusters : T[k] # first

\* The chain from first has clusters for size sectors.
Long(T, first, size) ==
  \A k \in 0..MaxCluster : k * ClusterSecs < size => Chain(T, first)[k] \in Clusters

\* Where the entry e leads.
Follow(T, e) == IF e \in Clusters THEN T[e] ELSE e

\* What the sizes of the table say of its entries.
LEMMA Table ==
  /\ MaxCluster \in Nat /\ MaxCluster >= 2 /\ ClusterSecs \in Nat \ {0}
  /\ Clusters \subseteq Entry /\ Clusters \subseteq Nat /\ 0 \in Entry /\ 0 \notin Clusters
  /\ CLUS_EOC \notin Entry /\ CLUS_EOC # 0 /\ CLUS_EOC \notin Clusters /\ Link \subseteq Int
BY MaxClusterAssumption, SizeAssumption DEF Clusters, Entry, CLUS_EOC, Link

\* A link of a typed table leads to an entry or to the end of a chain.
LEMMA FollowLink ==
  ASSUME NEW T \in TableType, NEW e \in Link
  PROVE  Follow(T, e) \in Link /\ (e \in Clusters => Follow(T, e) \in {0, CLUS_EOC} \cup Clusters)
<1>1. CASE e \in Clusters
  <2>1. e \in Entry
    BY <1>1, Table
  <2>2. T[e] \in {0, CLUS_EOC} \cup Clusters
    BY <2>1 DEF TableType
  <2> QED BY <1>1, <2>2, Table DEF Follow, Link
<1>2. CASE e \notin Clusters
  BY <1>2 DEF Follow
<1> QED BY <1>1, <1>2

\* Chain is the list of the steps it is defined by.
LEMMA ChainSteps ==
  ASSUME NEW T \in TableType, NEW first \in Link
  PROVE  /\ Chain(T, first) \in [0..MaxCluster -> Link]
         /\ Chain(T, first)[0] = first
         /\ \A k \in 1..MaxCluster : Chain(T, first)[k] = Follow(T, Chain(T, first)[k - 1])
<1> DEFINE next == [e \in Link |-> Follow(T, e)]
           g == [k \in 1..MaxCluster |-> next]
           entry == CHOOSE u : u = [k \in 0..MaxCluster |-> IF k = 0 THEN first ELSE next[u[k - 1]]]
<1>1. MaxCluster \in Nat
  BY Table
<1>2. next \in [Link -> Link]
  BY FollowLink
<1>3. next = [e \in Link |-> IF e \in Clusters THEN T[e] ELSE e]
  BY DEF Follow
<1> HIDE DEF next
<1>4. g \in [1..MaxCluster -> [Link -> Link]]
  BY <1>2
<1> HIDE DEF g
<1>5. PICK f \in [0..MaxCluster -> Link] : Lists(f, first, g, MaxCluster)
  BY <1>1, <1>4, RepeatedSteps, Zenon
<1>6. f[0] = first /\ \A k \in 1..MaxCluster : f[k] = next[f[k - 1]]
  BY <1>5 DEF Lists, g
<1>7. f = [k \in 0..MaxCluster |-> IF k = 0 THEN first ELSE next[f[k - 1]]]
  <2>1. \A k \in 0..MaxCluster : k = 0 \/ k \in 1..MaxCluster
    BY <1>1
  <2> QED BY <1>5, <1>6, <2>1
<1>8. entry = [k \in 0..MaxCluster |-> IF k = 0 THEN first ELSE next[entry[k - 1]]]
  BY <1>7
<1>9. Chain(T, first) = [k \in 0..MaxCluster |-> entry[k]]
  BY <1>3 DEF Chain, Link
<1> HIDE DEF entry
<1>10. 0 \in 0..MaxCluster /\ \A k \in 1..MaxCluster : k \in 0..MaxCluster /\ k - 1 \in 0..MaxCluster /\ k # 0
  BY <1>1
<1>11. entry[0] = first /\ \A k \in 1..MaxCluster : entry[k] = next[entry[k - 1]]
  BY <1>8, <1>10
<1>12. \A k \in 0..MaxCluster : entry[k] \in Link
  <2> DEFINE S == {k \in 0..MaxCluster : entry[k] \in Link}
  <2>1. 0 \in S
    BY <1>10, <1>11
  <2>2. \A k \in 1..MaxCluster : k - 1 \in S => k \in S
    BY <1>2, <1>10, <1>11
  <2> HIDE DEF S
  <2>3. \A k \in 0..MaxCluster : k \in S
    BY <1>1, <2>1, <2>2, Upwards
  <2> QED BY <2>3 DEF S
<1>13. \A k \in 1..MaxCluster : entry[k] = Follow(T, entry[k - 1])
  BY <1>10, <1>11, <1>12 DEF next
<1> QED BY <1>9, <1>10, <1>11, <1>12, <1>13

\* Where a chain leaves the clusters it stays.
LEMMA ChainStays ==
  ASSUME NEW T \in TableType, NEW first \in Link, NEW j \in 0..MaxCluster,
         Chain(T, first)[j] \notin Clusters
  PROVE  \A k \in 0..MaxCluster : j <= k => Chain(T, first)[k] = Chain(T, first)[j]
<1> DEFINE C == Chain(T, first)
           S == {k \in 0..MaxCluster : j <= k => C[k] = C[j]}
<1>1. MaxCluster \in Nat
  BY Table
<1>2. \A k \in 1..MaxCluster : C[k] = Follow(T, C[k - 1])
  BY ChainSteps
<1> HIDE DEF C
<1>3. 0 \in S
  BY <1>1
<1>4. \A k \in 1..MaxCluster : k - 1 \in S => k \in S
  <2> SUFFICES ASSUME NEW k \in 1..MaxCluster, k - 1 \in S, j <= k PROVE C[k] = C[j]
    BY <1>1
  <2>1. CASE j = k
    BY <2>1
  <2>2. CASE j # k
    <3>1. j <= k - 1
      BY <2>2, <1>1
    <3>2. C[k - 1] = C[j]
      BY <3>1
    <3> QED BY <1>2, <3>2 DEF C, Follow
  <2> QED BY <2>1, <2>2
<1> HIDE DEF S
<1>5. \A k \in 0..MaxCluster : k \in S
  BY <1>1, <1>3, <1>4, Upwards
<1> QED BY <1>5 DEF S, C

\* In front of a cluster of a chain there are only clusters.
LEMMA ChainPrefix ==
  ASSUME NEW T \in TableType, NEW first \in Link, NEW k \in 0..MaxCluster,
         Chain(T, first)[k] \in Clusters
  PROVE  \A j \in 0..MaxCluster : j <= k => Chain(T, first)[j] \in Clusters
BY ChainStays

\* A cluster that is not the first has its predecessor in the chain.
LEMMA ChainBack ==
  ASSUME NEW T \in TableType, NEW first \in Link, NEW k \in 1..MaxCluster,
         Chain(T, first)[k] \in Clusters
  PROVE  /\ k - 1 \in 0..MaxCluster /\ Chain(T, first)[k - 1] \in Clusters
         /\ T[Chain(T, first)[k - 1]] = Chain(T, first)[k]
<1>1. k - 1 \in 0..MaxCluster /\ k \in 0..MaxCluster /\ k - 1 <= k
  BY Table
<1>2. Chain(T, first)[k - 1] \in Clusters
  BY <1>1, ChainPrefix
<1> QED BY <1>1, <1>2, ChainSteps DEF Follow

\* A cluster is met once, by one chain and at one place.
LEMMA ChainsApart ==
  ASSUME NEW T \in TableType, Linked(T),
         NEW x \in Link, Rooted(T, x), NEW y \in Link, Rooted(T, y),
         NEW j \in 0..MaxCluster, NEW k \in 0..MaxCluster,
         Chain(T, x)[j] = Chain(T, y)[k], Chain(T, x)[j] \in Clusters
  PROVE  x = y /\ j = k
<1> DEFINE A == Chain(T, x)
           B == Chain(T, y)
           S == {i \in 0..MaxCluster : \A m \in 0..MaxCluster :
                   A[i] = B[m] /\ A[i] \in Clusters => x = y /\ i = m}
<1>1. MaxCluster \in Nat /\ A[0] = x /\ B[0] = y
  BY Table, ChainSteps
<1>2. \A i \in 1..MaxCluster : A[i] \in Clusters => A[i - 1] \in Clusters /\ T[A[i - 1]] = A[i]
  BY ChainBack
<1>3. \A i \in 1..MaxCluster : B[i] \in Clusters => B[i - 1] \in Clusters /\ T[B[i - 1]] = B[i]
  BY ChainBack
<1>4. \A i \in 0..MaxCluster : i = 0 \/ (i \in 1..MaxCluster /\ i - 1 \in 0..MaxCluster)
  BY <1>1
<1> HIDE DEF A, B
<1>5. 0 \in S
  BY <1>1, <1>3, <1>4 DEF Rooted
<1>6. \A i \in 1..MaxCluster : i - 1 \in S => i \in S
  <2> SUFFICES ASSUME NEW i \in 1..MaxCluster, i - 1 \in S, NEW m \in 0..MaxCluster,
                      A[i] = B[m], A[i] \in Clusters
               PROVE  x = y /\ i = m
    BY <1>1
  <2>1. A[i - 1] \in Clusters /\ T[A[i - 1]] = A[i]
    BY <1>2
  <2>2. m # 0
    BY <1>1, <2>1 DEF Rooted
  <2>3. m \in 1..MaxCluster /\ m - 1 \in 0..MaxCluster
    BY <1>4, <2>2
  <2>4. B[m - 1] \in Clusters /\ T[B[m - 1]] = B[m]
    BY <1>3, <2>3
  <2>5. A[i - 1] = B[m - 1]
    BY <2>1, <2>4 DEF Linked
  <2>6. x = y /\ i - 1 = m - 1
    BY <2>1, <2>3, <2>5
  <2> QED BY <2>6, <1>1
<1> HIDE DEF S
<1>7. j \in S
  BY <1>1, <1>5, <1>6, Upwards
<1> QED BY <1>7 DEF S, A, B

\* A chain meets fewer entries than the table has, and ends where an end is stored.
LEMMA ChainEnds ==
  ASSUME NEW T \in TableType, Linked(T), NEW x \in Link, Rooted(T, x)
  PROVE  \E n \in 0..(MaxCluster - 1) :
           /\ \A k \in 0..MaxCluster : Chain(T, x)[k] \in Clusters <=> k < n
           /\ Cardinality(ClustersOf(T, x)) = n
           /\ x \in Clusters => Chain(T, x)[MaxCluster] = CLUS_EOC
<1> DEFINE C == Chain(T, x)
           Out == {k \in 0..MaxCluster : C[k] \notin Clusters}
<1>1. MaxCluster \in Nat /\ MaxCluster >= 2 /\ C \in [0..MaxCluster -> Link] /\ C[0] = x
  BY Table, ChainSteps
<1>2. \A j, k \in 0..MaxCluster : C[j] = C[k] /\ C[j] \in Clusters => j = k
  BY ChainsApart
<1>3. \A j, k \in 0..MaxCluster : C[j] \notin Clusters /\ j <= k => C[k] = C[j]
  BY ChainStays
<1>4. \A k \in 1..MaxCluster : C[k] = Follow(T, C[k - 1])
  BY ChainSteps
<1>5. ClustersOf(T, x) = {C[k] : k \in 0..MaxCluster} \cap Clusters
  BY DEF ClustersOf
<1> HIDE DEF C
<1>6. \E k \in 0..(MaxCluster - 1) : C[k] \notin Clusters
  <2> SUFFICES ASSUME \A k \in 0..(MaxCluster - 1) : C[k] \in Clusters PROVE FALSE
    OBVIOUS
  <2> DEFINE D == [k \in 0..(MaxCluster - 1) |-> C[k]]
  <2>1. D \in [0..(MaxCluster - 1) -> Clusters]
    OBVIOUS
  <2>2. /\ IsFiniteSet(0..(MaxCluster - 1)) /\ Cardinality(0..(MaxCluster - 1)) = MaxCluster
        /\ IsFiniteSet(Clusters) /\ Cardinality(Clusters) = MaxCluster - 1
    BY <1>1, FS_Interval DEF Clusters
  <2>3. \E j, k \in 0..(MaxCluster - 1) : j # k /\ D[j] = D[k]
    <3>1. Cardinality(Clusters) < Cardinality(0..(MaxCluster - 1))
      BY <1>1, <2>2
    <3> HIDE DEF D
    <3> QED BY <2>1, <2>2, <3>1, FS_PigeonHole
  <2> QED BY <1>1, <1>2, <2>3
<1>7. PICK n \in Out : \A k \in Out : n <= k
  <2>1. Out \in SUBSET Nat /\ Out # {}
    BY <1>1, <1>6
  <2> HIDE DEF Out
  <2> QED BY <2>1, NatLeast
<1>8. n \in 0..(MaxCluster - 1) /\ n \in Nat
  BY <1>1, <1>6, <1>7
<1>9. \A k \in 0..MaxCluster : C[k] \in Clusters <=> k < n
  BY <1>1, <1>3, <1>7, <1>8
<1>10. Cardinality(ClustersOf(T, x)) = n
  <2> DEFINE D == [k \in 0..(n - 1) |-> C[k]]
             K == ClustersOf(T, x)
  <2>1. \A k \in 0..(n - 1) : k \in 0..MaxCluster /\ C[k] \in Clusters
    BY <1>1, <1>8, <1>9
  <2>2. K = {C[k] : k \in 0..(n - 1)}
    <3>1. \A k \in 0..MaxCluster : C[k] \in Clusters => k \in 0..(n - 1)
      BY <1>8, <1>9
    <3> QED BY <1>5, <2>1, <3>1
  <2> HIDE DEF K
  <2>3. D \in [0..(n - 1) -> K]
    BY <2>2
  <2>4. \A j, k \in 0..(n - 1) : D[j] = D[k] => j = k
    BY <1>2, <2>1
  <2>5. \A c \in K : \E k \in 0..(n - 1) : D[k] = c
    BY <2>2
  <2> HIDE DEF D
  <2>6. D \in Bijection(0..(n - 1), K)
    BY <2>3, <2>4, <2>5 DEF Bijection, Injection, Surjection, IsInjective
  <2>7. IsFiniteSet(0..(n - 1)) /\ Cardinality(0..(n - 1)) = n
    <3>1. n - 1 \in Int /\ (0 > n - 1 <=> n = 0) /\ (n - 1) - 0 + 1 = n
      BY <1>8
    <3>2. /\ IsFiniteSet(0..(n - 1))
          /\ Cardinality(0..(n - 1)) = IF 0 > n - 1 THEN 0 ELSE (n - 1) - 0 + 1
      BY <3>1, FS_Interval
    <3> QED BY <3>1, <3>2
  <2>8. Cardinality(K) = n
    BY <2>6, <2>7, FS_Bijection DEF ExistsBijection
  <2> QED BY <2>8 DEF K
<1>11. ASSUME x \in Clusters PROVE C[MaxCluster] = CLUS_EOC
  <2>1. n # 0
    BY <1>1, <1>7, <1>11
  <2>2. n - 1 \in 0..MaxCluster /\ n \in 1..MaxCluster /\ n - 1 < n /\ n \in 0..MaxCluster
    BY <1>1, <1>8, <2>1
  <2>3. C[n - 1] \in Clusters /\ C[n] \notin Clusters /\ C[n] = T[C[n - 1]]
    BY <1>4, <1>9, <2>2, <1>7 DEF Follow
  <2>4. T[C[n - 1]] # 0
    <3>1. CASE n - 1 = 0
      BY <1>1, <1>11, <3>1 DEF Rooted
    <3>2. CASE n - 1 # 0
      <4>1. n - 1 \in 1..MaxCluster
        BY <1>8, <2>2, <3>2
      <4>2. C[n - 2] \in Clusters /\ T[C[n - 2]] = C[n - 1]
        <5>1. (n - 1) - 1 = n - 2
          BY <1>8
        <5> QED BY <2>3, <4>1, <5>1, ChainBack DEF C
      <4> QED BY <2>3, <4>2 DEF Linked
    <3> QED BY <3>1, <3>2
  <2>5. C[n] = CLUS_EOC
    <3>1. C[n - 1] \in Link /\ C[n] = Follow(T, C[n - 1])
      BY <2>3, Table DEF Link, Follow
    <3> QED BY <2>3, <2>4, <3>1, FollowLink
  <2> QED BY <1>1, <1>3, <2>2, <2>3, <2>5
<1> QED BY <1>8, <1>9, <1>10, <1>11 DEF C

\* The files F lie in the table T: each begins a chain of its own, long enough.
Laid(T, F) ==
  /\ T \in TableType /\ Linked(T)
  /\ \A i \in DOMAIN F :
       /\ F[i].first \in {0} \cup Clusters /\ F[i].size \in Nat
       /\ Rooted(T, F[i].first) /\ Long(T, F[i].first, F[i].size)
  /\ \A i, j \in DOMAIN F : F[i].first = F[j].first /\ F[i].first # 0 => i = j

\* What an entry holds as its first cluster is a link.
LEMMA FirstLink == {0} \cup Clusters \subseteq Link
BY Table DEF Link

\* To have clusters enough for a size is to be long enough.
LEMMA CoversLong ==
  ASSUME NEW T \in TableType, Linked(T), NEW f, f.first \in Link, Rooted(T, f.first),
         f.size \in Nat
  PROVE  Covers(T, f) <=> Long(T, f.first, f.size)
<1> DEFINE first == f.first
           size == f.size
<1>1. PICK n \in 0..(MaxCluster - 1) :
        /\ \A k \in 0..MaxCluster : Chain(T, first)[k] \in Clusters <=> k < n
        /\ Cardinality(ClustersOf(T, first)) = n
  BY ChainEnds
<1>2. Covers(T, f) <=> size <= ClusterSecs * n
  BY <1>1 DEF Covers
<1>3. Long(T, first, size) <=> \A k \in 0..MaxCluster : k * ClusterSecs < size => k < n
  BY <1>1 DEF Long
<1>4. size \in Nat
  OBVIOUS
<1> HIDE DEF first, size
<1>5. n \in 0..MaxCluster /\ n \in Nat /\ ClusterSecs \in Nat
  BY <1>1, Table
<1>6. ASSUME NEW k \in Nat, n <= k PROVE ClusterSecs * n <= k * ClusterSecs
  BY <1>5, <1>6
<1>7. ASSUME size <= ClusterSecs * n PROVE \A k \in 0..MaxCluster : k * ClusterSecs < size => k < n
  <2> TAKE k \in 0..MaxCluster
  <2> HAVE k * ClusterSecs < size
  <2>1. k \in Nat /\ k * ClusterSecs \in Nat /\ ClusterSecs * n \in Nat
    BY <1>5, Table
  <2>2. n <= k => ClusterSecs * n <= k * ClusterSecs
    BY <2>1, <1>6
  <2> QED BY <1>4, <1>5, <1>7, <2>1, <2>2
<1>8. ASSUME \A k \in 0..MaxCluster : k * ClusterSecs < size => k < n PROVE size <= ClusterSecs * n
  <2>1. ~(n * ClusterSecs < size)
    BY <1>5, <1>8
  <2>2. n * ClusterSecs = ClusterSecs * n /\ n * ClusterSecs \in Nat
    BY <1>5
  <2> QED BY <1>4, <2>1, <2>2
<1>9. size <= ClusterSecs * n <=> \A k \in 0..MaxCluster : k * ClusterSecs < size => k < n
  BY <1>7, <1>8
<1> QED BY <1>2, <1>3, <1>9 DEF first, size

\* Files that are laid are sound: each whole, covered, and disjoint from the rest.
LEMMA LaidSound ==
  ASSUME NEW T, NEW F, Laid(T, F)
  PROVE  Sound(T, F)
<1>1. ASSUME NEW i \in DOMAIN F PROVE IsWhole(T, F[i].first) /\ Covers(T, F[i])
  <2>1. /\ T \in TableType /\ Linked(T) /\ F[i].first \in Link /\ F[i].first \in {0} \cup Clusters
        /\ F[i].size \in Nat /\ Rooted(T, F[i].first) /\ Long(T, F[i].first, F[i].size)
    BY <1>1, FirstLink DEF Laid
  <2>2. Covers(T, F[i])
    BY <2>1, CoversLong
  <2>3. F[i].first \in Clusters => Chain(T, F[i].first)[MaxCluster] = CLUS_EOC
    BY <2>1, ChainEnds
  <2> QED BY <2>1, <2>2, <2>3 DEF IsWhole
<1>2. ASSUME NEW i \in DOMAIN F, NEW j \in DOMAIN F, i # j
      PROVE  ClustersOf(T, F[i].first) \cap ClustersOf(T, F[j].first) = {}
  <2> DEFINE x == F[i].first
             y == F[j].first
  <2>1. /\ T \in TableType /\ Linked(T) /\ x \in Link /\ y \in Link
        /\ Rooted(T, x) /\ Rooted(T, y) /\ x \in {0} \cup Clusters
        /\ x = y => x = 0
    BY <1>2, FirstLink DEF Laid
  <2> SUFFICES ASSUME NEW c \in ClustersOf(T, x), c \in ClustersOf(T, y) PROVE FALSE
    OBVIOUS
  <2>2. PICK m \in 0..MaxCluster : Chain(T, x)[m] = c
    BY DEF ClustersOf
  <2>3. PICK n \in 0..MaxCluster : Chain(T, y)[n] = c
    BY DEF ClustersOf
  <2>4. c \in Clusters
    BY DEF ClustersOf
  <2> HIDE DEF x, y
  <2>5. x = 0 /\ y = 0
    BY <2>1, <2>2, <2>3, <2>4, ChainsApart
  <2>6. Chain(T, x)[0] = 0 /\ 0 \in 0..MaxCluster /\ 0 <= m /\ m \in Nat
    BY <2>1, <2>5, ChainSteps, Table
  <2>7. c = 0
    BY <2>1, <2>2, <2>6, ChainStays, Table
  <2> QED BY <2>4, <2>7, Table
<1> QED BY <1>1, <1>2 DEF Sound

----------------------------------------------------------------------------
(* Tables that change.                                                     *)

\* The chain is the same where the table has not cut or redirected its links.
LEMMA ChainKeeps ==
  ASSUME NEW T \in TableType, NEW U \in TableType, NEW first \in Link,
         \A k \in 0..MaxCluster :
           Chain(T, first)[k] \in Clusters /\ T[Chain(T, first)[k]] \in Clusters
             => U[Chain(T, first)[k]] = T[Chain(T, first)[k]]
  PROVE  \A k \in 0..MaxCluster :
           Chain(T, first)[k] \in Clusters => Chain(U, first)[k] = Chain(T, first)[k]
<1> DEFINE A == Chain(T, first)
           B == Chain(U, first)
           S == {k \in 0..MaxCluster : A[k] \in Clusters => B[k] = A[k]}
<1>1. MaxCluster \in Nat
  BY Table
<1>2. A[0] = first /\ B[0] = first
  BY ChainSteps
<1>3. \A k \in 1..MaxCluster : B[k] = Follow(U, B[k - 1])
  BY ChainSteps
<1>4. \A k \in 1..MaxCluster :
        A[k] \in Clusters => /\ k - 1 \in 0..MaxCluster /\ A[k - 1] \in Clusters
                             /\ T[A[k - 1]] = A[k]
  BY ChainBack
<1>5. \A k \in 0..MaxCluster : A[k] \in Clusters /\ T[A[k]] \in Clusters => U[A[k]] = T[A[k]]
  OBVIOUS
<1> HIDE DEF A, B
<1>6. 0 \in S
  BY <1>1, <1>2
<1>7. \A k \in 1..MaxCluster : k - 1 \in S => k \in S
  <2> SUFFICES ASSUME NEW k \in 1..MaxCluster, k - 1 \in S, A[k] \in Clusters PROVE B[k] = A[k]
    BY <1>1
  <2>1. k - 1 \in 0..MaxCluster /\ A[k - 1] \in Clusters /\ T[A[k - 1]] = A[k]
    BY <1>4
  <2>2. B[k - 1] = A[k - 1] /\ U[A[k - 1]] = A[k]
    BY <1>5, <2>1
  <2> QED BY <1>3, <2>1, <2>2 DEF Follow
<1> HIDE DEF S
<1>8. \A k \in 0..MaxCluster : k \in S
  BY <1>1, <1>6, <1>7, Upwards
<1> QED BY <1>8 DEF S, A, B

\* U goes on where T ends: no link is changed, no cluster given back.
Extends(U, T) ==
  \A k \in Clusters : (T[k] # 0 => U[k] # 0) /\ (T[k] \in Clusters => U[k] = T[k])

\* A chain goes on as it was in a table that goes on behind the old one.
LEMMA ChainExtends ==
  ASSUME NEW T \in TableType, NEW U \in TableType, Extends(U, T), NEW first \in Link
  PROVE  \A k \in 0..MaxCluster :
           Chain(T, first)[k] \in Clusters => Chain(U, first)[k] = Chain(T, first)[k]
<1>1. \A k \in 0..MaxCluster :
           Chain(T, first)[k] \in Clusters /\ T[Chain(T, first)[k]] \in Clusters
             => U[Chain(T, first)[k]] = T[Chain(T, first)[k]]
  BY DEF Extends
<1> QED BY <1>1, ChainKeeps

\* It stays long enough there.
LEMMA LongExtends ==
  ASSUME NEW T \in TableType, NEW U \in TableType, Extends(U, T), NEW first \in Link,
         NEW size, Long(T, first, size)
  PROVE  Long(U, first, size)
BY ChainExtends DEF Long

\* To go on and on is to go on.
LEMMA ExtendsTrans ==
  ASSUME NEW T, NEW U, NEW V, Extends(U, T), Extends(V, U)
  PROVE  Extends(V, T)
BY DEF Extends

\* The new links of U lead to what was free in T.
Grows(U, T) ==
  /\ Extends(U, T)
  /\ \A k \in Clusters : U[k] \in Clusters /\ U[k] # T[k] => T[U[k]] = 0

\* No change is growth.
LEMMA GrowsSame == \A T : Grows(T, T)
BY DEF Grows, Extends

\* Growth upon growth is growth.
LEMMA GrowsTrans ==
  ASSUME NEW T, NEW U, NEW V, Grows(U, T), Grows(V, U)
  PROVE  Grows(V, T)
<1>1. Extends(V, T)
  BY ExtendsTrans DEF Grows
<1>2. ASSUME NEW k \in Clusters, V[k] \in Clusters, V[k] # T[k] PROVE T[V[k]] = 0
  <2>1. CASE V[k] = U[k]
    BY <1>2, <2>1 DEF Grows
  <2>2. CASE V[k] # U[k]
    BY <1>2, <2>2 DEF Grows, Extends
  <2> QED BY <2>1, <2>2
<1> QED BY <1>1, <1>2 DEF Grows

\* What began a chain still begins one.
LEMMA RootedGrows ==
  ASSUME NEW T, NEW U, Grows(U, T), NEW first, Rooted(T, first)
  PROVE  Rooted(U, first)
BY DEF Rooted, Grows, Extends

\* Files stay laid while clusters are taken.
LEMMA LaidGrows ==
  ASSUME NEW T, NEW F, Laid(T, F), NEW U \in TableType, Linked(U), Grows(U, T)
  PROVE  Laid(U, F)
<1>1. ASSUME NEW i \in DOMAIN F
      PROVE  Rooted(U, F[i].first) /\ Long(U, F[i].first, F[i].size)
  <2>1. /\ T \in TableType /\ F[i].first \in Link /\ Rooted(T, F[i].first)
        /\ Long(T, F[i].first, F[i].size) /\ Extends(U, T)
    BY <1>1, FirstLink DEF Laid, Grows
  <2> QED BY <2>1, RootedGrows, LongExtends
<1> QED BY <1>1 DEF Laid

\* U has given back the chain from first or the rest of it, and nothing else
\* has changed.
Shrinks(U, T, first) ==
  \A k \in Clusters :
    /\ U[k] # T[k] => k \in ClustersOf(T, first)
    /\ U[k] = T[k] \/ U[k] \in {0, CLUS_EOC}

\* The chains of the others stay as they are.
LEMMA OthersShrink ==
  ASSUME NEW T \in TableType, NEW U \in TableType, Linked(T),
         NEW first \in Link, Rooted(T, first), Shrinks(U, T, first),
         NEW x \in {0} \cup Clusters, Rooted(T, x), x # first \/ x = 0
  PROVE  /\ Rooted(U, x)
         /\ \A k \in 0..MaxCluster :
              Chain(T, x)[k] \in Clusters =>
                Chain(U, x)[k] = Chain(T, x)[k] /\ U[Chain(T, x)[k]] = T[Chain(T, x)[k]]
<1>1. first \in Link /\ x \in Link
  BY FirstLink
<1>2. ASSUME NEW k \in 0..MaxCluster, Chain(T, x)[k] \in Clusters
      PROVE  Chain(T, x)[k] \notin ClustersOf(T, first)
  <2> SUFFICES ASSUME Chain(T, x)[k] \in ClustersOf(T, first) PROVE FALSE
    OBVIOUS
  <2>1. PICK m \in 0..MaxCluster : Chain(T, first)[m] = Chain(T, x)[k]
    BY DEF ClustersOf
  <2>2. x = first
    BY <1>1, <1>2, <2>1, ChainsApart
  <2>3. Chain(T, x)[0] = 0 /\ 0 \in 0..MaxCluster /\ 0 <= k
    BY <2>2, <1>1, ChainSteps, Table
  <2>4. Chain(T, x)[k] = 0
    BY <1>1, <2>3, ChainStays, Table
  <2> QED BY <2>4, <1>2, Table
<1>3. ASSUME NEW k \in 0..MaxCluster, Chain(T, x)[k] \in Clusters
      PROVE  U[Chain(T, x)[k]] = T[Chain(T, x)[k]]
  BY <1>2, <1>3 DEF Shrinks
<1>4. \A k \in 0..MaxCluster : Chain(T, x)[k] \in Clusters => Chain(U, x)[k] = Chain(T, x)[k]
  BY <1>1, <1>3, ChainKeeps
<1>5. Rooted(U, x)
  <2> SUFFICES ASSUME x \in Clusters
               PROVE  U[x] # 0 /\ \A k \in Clusters : U[k] # x
    BY DEF Rooted
  <2>1. Chain(T, x)[0] = x /\ 0 \in 0..MaxCluster
    BY <1>1, ChainSteps, Table
  <2>2. U[x] = T[x] /\ T[x] # 0
    BY <1>3, <2>1 DEF Rooted
  <2>3. \A k \in Clusters : U[k] # x
    BY Table DEF Rooted, Shrinks
  <2> QED BY <2>2, <2>3
<1> QED BY <1>3, <1>4, <1>5

----------------------------------------------------------------------------
(* The volume.                                                             *)

VolType == [fat : TableType, disk : TableType,
            at : {Nowhere} \cup {SectorOf(c) : c \in Entry}, dirty : BOOLEAN]

\* The table and the disk differ in the cached sector only, and it knows.
Cache(v) == \A k \in Entry : v.disk[k] # v.fat[k] => v.dirty /\ SectorOf(k) = v.at

\* f16_flush leaves the table on disk, and the cache clean.
LEMMA FlushVol ==
  ASSUME NEW v \in VolType, Cache(v)
  PROVE  f16_flush(v) = [fat |-> v.fat, disk |-> v.fat, at |-> v.at, dirty |-> FALSE]
<1>1. v.fat \in [Entry -> {0, CLUS_EOC} \cup Clusters] /\ v.disk \in [Entry -> {0, CLUS_EOC} \cup Clusters]
  BY DEF VolType, TableType
<1>2. v = [fat |-> v.fat, disk |-> v.disk, at |-> v.at, dirty |-> v.dirty] /\ v.dirty \in BOOLEAN
  BY DEF VolType
<1>3. CASE v.dirty
  <2> DEFINE D == [k \in Entry |-> IF SectorOf(k) = v.at THEN v.fat[k] ELSE v.disk[k]]
  <2>1. \A k \in Entry : D[k] = v.fat[k]
    BY DEF Cache
  <2>2. D = v.fat
    BY <1>1, <2>1
  <2>3. f16_flush(v) = [v EXCEPT !.disk = D, !.dirty = FALSE]
    BY <1>3 DEF f16_flush
  <2> HIDE DEF D
  <2> QED BY <1>2, <2>2, <2>3
<1>4. CASE ~v.dirty
  <2>1. \A k \in Entry : v.disk[k] = v.fat[k]
    BY <1>4 DEF Cache
  <2>2. v.disk = v.fat
    BY <1>1, <2>1
  <2> QED BY <1>2, <1>4, <2>2 DEF f16_flush
<1> QED BY <1>3, <1>4

\* w has the table of v, and its disk, or all of the table on it.
Held(w, v) == w \in VolType /\ Cache(w) /\ w.fat = v.fat /\ w.disk \in {v.disk, v.fat}

\* fat_commit changes nothing but the disk, which gets the table.
LEMMA CommitHeld ==
  ASSUME NEW v \in VolType, Cache(v)
  PROVE  Held(fat_commit(v), v) /\ fat_commit(v).disk = v.fat
<1> DEFINE w == [fat |-> v.fat, disk |-> v.fat, at |-> v.at, dirty |-> FALSE]
<1>1. fat_commit(v) = w
  BY FlushVol DEF fat_commit
<1>2. w \in VolType
  BY DEF VolType
<1> QED BY <1>1, <1>2 DEF Held, Cache

\* f16_load changes nothing but which sector is cached, and flushes the one before.
LEMMA LoadHeld ==
  ASSUME NEW v \in VolType, Cache(v), NEW c \in Entry
  PROVE  Held(f16_load(v, SectorOf(c)), v) /\ f16_load(v, SectorOf(c)).at = SectorOf(c)
<1>1. CASE v.at = SectorOf(c)
  BY <1>1 DEF f16_load, Held
<1>2. CASE v.at # SectorOf(c)
  <2> DEFINE w == [fat |-> v.fat, disk |-> v.fat, at |-> SectorOf(c), dirty |-> FALSE]
  <2>1. f16_load(v, SectorOf(c)) = w
    <3>1. f16_load(v, SectorOf(c)) = [f16_flush(v) EXCEPT !.at = SectorOf(c)]
      BY <1>2 DEF f16_load
    <3>2. f16_flush(v) = [fat |-> v.fat, disk |-> v.fat, at |-> v.at, dirty |-> FALSE]
      BY FlushVol
    <3>3. PICK u : u = f16_flush(v)
      OBVIOUS
    <3>4. f16_load(v, SectorOf(c)) = [u EXCEPT !.at = SectorOf(c)]
      BY <3>1, <3>3, Zenon
    <3>5. u = [fat |-> v.fat, disk |-> v.fat, at |-> v.at, dirty |-> FALSE]
      BY <3>2, <3>3, Zenon
    <3> QED BY <3>4, <3>5
  <2>2. w \in VolType
    BY DEF VolType
  <2> QED BY <2>1, <2>2 DEF Held, Cache
<1> QED BY <1>1, <1>2

\* Held twice over is held.
LEMMA HeldTrans ==
  ASSUME NEW v, NEW w, NEW x, Held(w, v), Held(x, w)
  PROVE  Held(x, v)
BY DEF Held

\* Looking at entries changes neither the table nor more of the disk.
LEMMA SearchedHeld ==
  ASSUME NEW v \in VolType, Cache(v), NEW c \in Entry
  PROVE  Held(Searched(v, c), v) /\ Held(Looked(v, c), v)
<1>1. 2 \in Entry
  BY Table DEF Entry
<1>2. Held(f16_load(v, SectorOf(2)), v) /\ Held(f16_load(v, SectorOf(c)), v)
  BY <1>1, LoadHeld
<1> DEFINE u == f16_load(v, SectorOf(2))
<1>3. u \in VolType /\ Cache(u)
  BY <1>2 DEF Held
<1>4. Searched(v, c) = f16_load(u, SectorOf(c)) /\ Looked(v, c) = f16_load(v, SectorOf(c))
  BY DEF Searched, Looked
<1> HIDE DEF u
<1>5. Held(f16_load(u, SectorOf(c)), u)
  BY <1>3, LoadHeld
<1>6. Held(u, v)
  BY <1>2 DEF u
<1> QED BY <1>2, <1>4, <1>5, <1>6, HeldTrans

\* The table T with another entry at k.
Put(T, k, e) == [T EXCEPT ![k] = e]

\* What the new entry leaves alone.
LEMMA PutTable ==
  ASSUME NEW T \in TableType, NEW k \in Clusters, NEW e \in {0, CLUS_EOC} \cup Clusters
  PROVE  /\ Put(T, k, e) \in TableType /\ Put(T, k, e)[k] = e
         /\ \A j \in Entry : j # k => Put(T, k, e)[j] = T[j]
BY Table DEF Put, TableType

\* fat_set changes one entry of the table and nothing of its sector on disk.
LEMMA SetVol ==
  ASSUME NEW v \in VolType, Cache(v), NEW cl \in Clusters,
         NEW val \in {0, CLUS_EOC} \cup Clusters
  PROVE  /\ fat_set(v, cl, val) \in VolType /\ Cache(fat_set(v, cl, val))
         /\ fat_set(v, cl, val).fat = Put(v.fat, cl, val)
         /\ fat_set(v, cl, val).disk \in {v.disk, v.fat}
         /\ fat_set(v, cl, val).at = SectorOf(cl)
<1> DEFINE u == f16_load(v, SectorOf(cl))
           fat == Put(v.fat, cl, val)
           w == [fat |-> fat, disk |-> u.disk, at |-> SectorOf(cl), dirty |-> TRUE]
<1>1. cl \in Entry
  BY Table
<1>2. Held(u, v) /\ u.at = SectorOf(cl)
  BY <1>1, LoadHeld
<1>3. u \in VolType /\ Cache(u) /\ u.fat = v.fat /\ u.disk \in {v.disk, v.fat}
  BY <1>2 DEF Held
<1> HIDE DEF u
<1>4. fat_set(v, cl, val) = w
  <2>1. fat_set(v, cl, val) = [u EXCEPT !.fat = [u.fat EXCEPT ![cl] = val], !.dirty = TRUE]
    BY DEF fat_set, u
  <2>2. u = [fat |-> v.fat, disk |-> u.disk, at |-> SectorOf(cl), dirty |-> u.dirty]
    BY <1>2, <1>3 DEF VolType
  <2>3. [u.fat EXCEPT ![cl] = val] = Put(u.fat, cl, val) /\ u.fat = v.fat
    BY <1>3 DEF Put
  <2>4. fat_set(v, cl, val) = [u EXCEPT !.fat = fat, !.dirty = TRUE]
    BY <2>1, <2>3, Zenon
  <2> HIDE DEF fat
  <2>5. PICK x : x = [u EXCEPT !.fat = fat]
    OBVIOUS
  <2>6. x = [fat |-> fat, disk |-> u.disk, at |-> SectorOf(cl), dirty |-> u.dirty]
    BY <2>2, <2>5
  <2>7. fat_set(v, cl, val) = [x EXCEPT !.dirty = TRUE]
    BY <2>4, <2>5
  <2> QED BY <2>6, <2>7
<1>5. fat \in TableType
  <2>1. v.fat \in TableType
    BY DEF VolType
  <2> QED BY <2>1, PutTable
<1>6. w \in VolType
  <2>1. u.disk \in TableType
    BY <1>3 DEF VolType
  <2> HIDE DEF fat
  <2> QED BY <1>1, <1>5, <2>1 DEF VolType
<1>7. Cache(w)
  <2> SUFFICES ASSUME NEW k \in Entry, u.disk[k] # fat[k] PROVE SectorOf(k) = SectorOf(cl)
    BY DEF Cache
  <2>1. CASE k = cl
    BY <2>1, Zenon
  <2>2. CASE k # cl
    <3>1. fat[k] = u.fat[k]
      <4>1. v.fat \in TableType
        BY DEF VolType
      <4> QED BY <1>3, <2>2, <4>1, PutTable
    <3> QED BY <1>2, <1>3, <3>1 DEF Cache
  <2> QED BY <2>1, <2>2
<1> QED BY <1>3, <1>4, <1>6, <1>7

\* What is on disk is what the table was: links not yet set, clusters not yet
\* taken, and no link to a cluster that is not taken there.
Behind(D, T) ==
  /\ \A k \in Clusters : D[k] = T[k] \/ D[k] = 0 \/ (D[k] = CLUS_EOC /\ T[k] \in Clusters)
  /\ \A k \in Clusters : D[k] \in Clusters => D[D[k]] # 0

\* A linked table is behind itself.
LEMMA BehindSelf ==
  ASSUME NEW T, Linked(T)
  PROVE  Behind(T, T)
BY DEF Behind, Linked

\* The table goes on behind what is on disk.
LEMMA BehindExtends ==
  ASSUME NEW D, NEW T, Behind(D, T)
  PROVE  Extends(T, D)
BY Table DEF Behind, Extends

\* What is behind a linked table is linked.
LEMMA BehindLinked ==
  ASSUME NEW D, NEW T, Behind(D, T), Linked(T)
  PROVE  Linked(D)
BY Table DEF Behind, Linked

\* A volume between two calls, or while one takes clusters.
Good(v) == v \in VolType /\ Cache(v) /\ Linked(v.fat) /\ Behind(v.disk, v.fat)

\* From v to w clusters have been taken and appended, and sectors written.
Grown(w, v) == Grows(w.fat, v.fat) /\ Extends(w.disk, v.disk)

\* A volume has grown from itself.
LEMMA GrownSelf == \A v : Grown(v, v)
BY DEF Grown, Grows, Extends

\* Growth upon growth is growth, on disk too.
LEMMA GrownTrans ==
  ASSUME NEW u, NEW v, NEW w, Grown(v, u), Grown(w, v)
  PROVE  Grown(w, u)
BY GrowsTrans, ExtendsTrans DEF Grown

\* A good volume stays so when its cache moves.
LEMMA HeldGood ==
  ASSUME NEW v, NEW w, Good(v), Held(w, v)
  PROVE  Good(w) /\ Grown(w, v)
<1>1. Linked(v.fat) /\ Behind(v.disk, v.fat) /\ Behind(v.fat, v.fat)
  BY BehindSelf DEF Good
<1>2. Extends(v.fat, v.disk) /\ Extends(v.disk, v.disk) /\ Grows(v.fat, v.fat)
  BY <1>1, BehindExtends, GrowsSame DEF Extends
<1> QED BY <1>1, <1>2 DEF Good, Held, Grown

\* A free cluster becomes the end of a chain, or is linked after prev.
LEMMA TakeGood ==
  ASSUME NEW v, Good(v), NEW cl \in Clusters, v.fat[cl] = 0
  PROVE  LET w == fat_set(v, cl, CLUS_EOC)
         IN  Good(w) /\ Grown(w, v) /\ w.fat = Put(v.fat, cl, CLUS_EOC)
<1> DEFINE w == fat_set(v, cl, CLUS_EOC)
           T == v.fat
           U == Put(v.fat, cl, CLUS_EOC)
<1>0. CLUS_EOC \in {0, CLUS_EOC} \cup Clusters
  OBVIOUS
<1>1. v \in VolType /\ Cache(v) /\ Linked(T) /\ Behind(v.disk, T)
  BY DEF Good
<1>2. w \in VolType /\ Cache(w) /\ w.fat = U /\ w.disk \in {v.disk, T}
  BY <1>0, <1>1, SetVol, Zenon
<1>3. T \in TableType
  BY <1>1 DEF VolType
<1>4. U[cl] = CLUS_EOC /\ \A k \in Clusters : k # cl => U[k] = T[k]
  <2>1. \A j \in Entry : j # cl => U[j] = T[j]
    BY <1>0, <1>3, PutTable, ZenonT(60)
  <2>2. U[cl] = CLUS_EOC
    BY <1>0, <1>3, PutTable
  <2> QED BY <2>1, <2>2, Table
<1> HIDE DEF U
<1>5. \A D : Behind(D, T) => Behind(D, U)
  BY <1>4, Table DEF Behind
<1>6. Behind(w.disk, U)
  BY <1>1, <1>2, <1>5, BehindSelf
<1>7. Linked(U)
  BY <1>1, <1>4, Table DEF Linked
<1>8. Grows(U, T)
  BY <1>4, Table DEF Grows, Extends
<1>9. Extends(w.disk, v.disk)
  BY <1>1, <1>2, BehindExtends DEF Extends
<1> QED BY <1>2, <1>6, <1>7, <1>8, <1>9, Zenon DEF Good, Grown, U

\* The new cluster is linked behind the last of a chain: fat_alloc sets the new one first.
LEMMA LinkGood ==
  ASSUME NEW v, Good(v), NEW cl \in Clusters, v.fat[cl] = CLUS_EOC,
         NEW prev \in Clusters, v.fat[prev] = CLUS_EOC, prev # cl,
         \A k \in Clusters : v.fat[k] # cl
  PROVE  LET w == fat_set(v, prev, cl)
         IN  /\ Good(w) /\ Extends(w.fat, v.fat) /\ Extends(w.disk, v.disk)
             /\ w.fat = Put(v.fat, prev, cl)
<1> DEFINE w == fat_set(v, prev, cl)
           T == v.fat
           U == Put(v.fat, prev, cl)
<1>0. cl \in {0, CLUS_EOC} \cup Clusters
  OBVIOUS
<1>1. v \in VolType /\ Cache(v) /\ Linked(T) /\ Behind(v.disk, T)
  BY DEF Good
<1>2. w \in VolType /\ Cache(w) /\ w.fat = U /\ w.disk \in {v.disk, T}
  BY <1>0, <1>1, SetVol, Zenon
<1>3. T \in TableType
  BY <1>1 DEF VolType
<1>4. U[prev] = cl /\ \A k \in Clusters : k # prev => U[k] = T[k]
  <2>1. \A j \in Entry : j # prev => U[j] = T[j]
    BY <1>0, <1>3, PutTable
  <2>2. U[prev] = cl
    BY <1>0, <1>3, PutTable
  <2> QED BY <2>1, <2>2, Table
<1> HIDE DEF U
<1>5. \A D : Behind(D, T) => Behind(D, U)
  BY <1>4, Table DEF Behind
<1>6. Behind(w.disk, U)
  BY <1>1, <1>2, <1>5, BehindSelf
<1>7. Linked(U)
  BY <1>1, <1>4, Table DEF Linked
<1>8. Extends(U, T)
  BY <1>4, Table DEF Extends
<1>9. Extends(w.disk, v.disk)
  BY <1>1, <1>2, BehindExtends DEF Extends
<1> QED BY <1>2, <1>6, <1>7, <1>8, <1>9, Zenon DEF Good, U

\* What fat_alloc does: nothing on a full disk, or take one free cluster.
LEMMA AllocGood ==
  ASSUME NEW v, Good(v), NEW prev \in {0} \cup Clusters, prev # 0 => v.fat[prev] = CLUS_EOC
  PROVE  LET r == fat_alloc(v, prev)
         IN  /\ Good(r.vol) /\ Grown(r.vol, v)
             /\ \/ r.cl = 0 /\ r.vol.fat = v.fat /\ \A c \in Clusters : v.fat[c] # 0
                \/ /\ r.cl \in Clusters /\ v.fat[r.cl] = 0
                   /\ r.vol.fat[r.cl] = CLUS_EOC
                   /\ prev # 0 => r.vol.fat[prev] = r.cl
                   /\ \A k \in Clusters : k \notin {r.cl, prev} => r.vol.fat[k] = v.fat[k]
<1> DEFINE r == fat_alloc(v, prev)
<1>1. v \in VolType /\ Cache(v) /\ v.fat \in TableType
  BY DEF Good, VolType
<1>2. CASE FreeClusters(v) = {}
  <2>1. r = [vol |-> Searched(v, MaxCluster), cl |-> 0]
    BY <1>2 DEF fat_alloc
  <2>2. MaxCluster \in Entry
    BY Table DEF Entry
  <2>3. Held(Searched(v, MaxCluster), v)
    BY <1>1, <2>2, SearchedHeld
  <2>4. r.vol = Searched(v, MaxCluster) /\ r.cl = 0
    BY <2>1
  <2>5. Good(r.vol) /\ Grown(r.vol, v) /\ r.vol.fat = v.fat
    BY <2>3, <2>4, HeldGood DEF Held
  <2> QED BY <1>2, <2>4, <2>5 DEF FreeClusters
<1>3. CASE FreeClusters(v) # {}
  <2> DEFINE cl == CHOOSE k \in FreeClusters(v) : \A j \in FreeClusters(v) : k <= j
             u == Searched(v, cl)
             last == fat_set(u, cl, CLUS_EOC)
             w == IF prev = 0 THEN last ELSE fat_set(last, prev, cl)
  <2>1. r = [vol |-> w, cl |-> cl]
    BY <1>3 DEF fat_alloc
  <2>2. cl \in FreeClusters(v)
    <3>1. FreeClusters(v) \in SUBSET Nat
      BY Table DEF FreeClusters
    <3>2. \E k \in FreeClusters(v) : \A j \in FreeClusters(v) : k <= j
      BY <1>3, <3>1, NatLeast
    <3> QED BY <3>2
  <2> HIDE DEF cl
  <2>3. cl \in Clusters /\ v.fat[cl] = 0 /\ cl \in Entry
    BY <2>2, Table DEF FreeClusters
  <2>4. Good(u) /\ Grown(u, v) /\ u.fat = v.fat
    <3>1. Held(u, v)
      BY <1>1, <2>3, SearchedHeld
    <3> QED BY <3>1, HeldGood DEF Held
  <2> HIDE DEF u
  <2>5. Good(last) /\ Grown(last, u) /\ last.fat = Put(v.fat, cl, CLUS_EOC)
    BY <2>3, <2>4, TakeGood
  <2> HIDE DEF last
  <2>6. last.fat[cl] = CLUS_EOC /\ \A k \in Clusters : k # cl => last.fat[k] = v.fat[k]
    <3>1. CLUS_EOC \in {0, CLUS_EOC} \cup Clusters
      OBVIOUS
    <3>2. /\ last.fat[cl] = CLUS_EOC
          /\ \A j \in Entry : j # cl => last.fat[j] = v.fat[j]
      <4> DEFINE U == Put(v.fat, cl, CLUS_EOC)
      <4>1. U[cl] = CLUS_EOC /\ \A j \in Entry : j # cl => U[j] = v.fat[j]
        <5>1. PICK T \in TableType : T = v.fat
          BY <1>1
        <5>2. Put(T, cl, CLUS_EOC)[cl] = CLUS_EOC
          BY <2>3, <3>1, PutTable
        <5>3. \A j \in Entry : j # cl => Put(T, cl, CLUS_EOC)[j] = T[j]
          BY <2>3, <3>1, PutTable, ZenonT(60)
        <5> QED BY <5>1, <5>2, <5>3
      <4>2. last.fat = U
        BY <2>5
      <4> HIDE DEF U
      <4> QED BY <4>1, <4>2
    <3> QED BY <3>2, Table
  <2>7. Grown(last, v)
    BY <2>4, <2>5, GrownTrans
  <2>8. r.vol = w /\ r.cl = cl
    BY <2>1
  <2>9. CASE prev = 0
    BY <2>3, <2>5, <2>6, <2>7, <2>8, <2>9, Table
  <2>10. CASE prev # 0
    <3>1. w = fat_set(last, prev, cl) /\ prev \in Clusters /\ prev # cl
      BY <2>3, <2>10, Table
    <3>2. \A k \in Clusters : last.fat[k] # cl
      BY <2>3, <2>6, Table DEF Good, Linked
    <3>3. last.fat[prev] = CLUS_EOC
      BY <2>6, <2>10, <3>1
    <3>4. /\ Good(w) /\ Extends(w.fat, last.fat) /\ Extends(w.disk, last.disk)
          /\ w.fat = Put(last.fat, prev, cl)
      BY <2>3, <2>5, <2>6, <3>1, <3>2, <3>3, LinkGood, ZenonT(60)
    <3>5. last.fat \in TableType
      BY <2>5 DEF Good, VolType
    <3>6. w.fat[prev] = cl /\ \A k \in Clusters : k # prev => w.fat[k] = last.fat[k]
      <4>1. cl \in {0, CLUS_EOC} \cup Clusters
        BY <2>3
      <4>2. /\ w.fat[prev] = cl
            /\ \A j \in Entry : j # prev => w.fat[j] = last.fat[j]
        BY <3>1, <3>4, <3>5, <4>1, PutTable
      <4> QED BY <4>2, Table
    <3> HIDE DEF w
    <3>7. Extends(w.fat, v.fat) /\ Extends(w.disk, v.disk)
      BY <2>7, <3>4, ExtendsTrans DEF Grown, Grows
    <3>8. \A k \in Clusters : w.fat[k] \in Clusters /\ w.fat[k] # v.fat[k] => v.fat[w.fat[k]] = 0
      BY <2>3, <2>6, <3>6, Table
    <3>9. Grown(w, v)
      BY <3>7, <3>8 DEF Grown, Grows
    <3> QED BY <2>3, <2>6, <2>8, <3>1, <3>4, <3>6, <3>9
  <2> QED BY <2>9, <2>10
<1> QED BY <1>2, <1>3

----------------------------------------------------------------------------
(* Giving back a chain.                                                    *)

\* What is freed so far, k clusters down the chain C.
FreedTo(U, T, C, k) ==
  \A c \in Clusters :
    U[c] = IF \E j \in 0..MaxCluster : j < k /\ C[j] = c THEN 0 ELSE T[c]

\* The states of the loop of fat_free_chain.
Freeing(v, first) ==
  LET after[k \in 0..MaxCluster] ==
        IF k = 0 THEN [vol |-> v, cl |-> first]
        ELSE LET s == after[k - 1]
             IN  IF s.cl \notin Clusters THEN s
                 ELSE [vol |-> fat_set(s.vol, s.cl, 0), cl |-> s.vol.fat[s.cl]]
  IN  after

FreeStates == {s \in [vol : VolType, cl : Link] : Cache(s.vol)}
FreeOne(s) ==
  IF s.cl \notin Clusters THEN s
  ELSE [vol |-> fat_set(s.vol, s.cl, 0), cl |-> s.vol.fat[s.cl]]

\* A step of the loop keeps the volume typed and its cache right.
LEMMA FreeOneState ==
  ASSUME NEW s \in FreeStates
  PROVE  FreeOne(s) \in FreeStates
<1>1. s.vol \in VolType /\ Cache(s.vol) /\ s.cl \in Link /\ s.vol.fat \in TableType
  BY DEF FreeStates, VolType
<1>2. CASE s.cl \notin Clusters
  BY <1>2 DEF FreeOne
<1>3. CASE s.cl \in Clusters
  <2> DEFINE w == fat_set(s.vol, s.cl, 0)
             next == s.vol.fat[s.cl]
  <2>1. w \in VolType /\ Cache(w)
    <3>1. 0 \in {0, CLUS_EOC} \cup Clusters
      OBVIOUS
    <3> QED BY <1>1, <1>3, <3>1, SetVol
  <2>2. next \in Link
    <3>1. Follow(s.vol.fat, s.cl) \in Link
      BY <1>1, FollowLink
    <3> QED BY <1>3, <3>1 DEF Follow
  <2>3. FreeOne(s) = [vol |-> w, cl |-> next]
    BY <1>3 DEF FreeOne
  <2> HIDE DEF w, next
  <2> QED BY <2>1, <2>2, <2>3 DEF FreeStates
<1> QED BY <1>2, <1>3

\* The loop is the list of its steps.
LEMMA FreeingSteps ==
  ASSUME NEW v \in VolType, Cache(v), NEW first \in Link
  PROVE  /\ Freeing(v, first)[0] = [vol |-> v, cl |-> first]
         /\ \A k \in 0..MaxCluster : Freeing(v, first)[k] \in FreeStates
         /\ \A k \in 1..MaxCluster :
              Freeing(v, first)[k] = FreeOne(Freeing(v, first)[k - 1])
<1> DEFINE a == [vol |-> v, cl |-> first]
           g == [k \in 1..MaxCluster |-> [s \in FreeStates |-> FreeOne(s)]]
           F == Freeing(v, first)
<1>1. MaxCluster \in Nat
  BY Table
<1>2. a \in FreeStates
  BY DEF FreeStates
<1>3. g \in [1..MaxCluster -> [FreeStates -> FreeStates]]
  BY FreeOneState
<1>4. F = CHOOSE u : u = [k \in 0..MaxCluster |-> IF k = 0 THEN a ELSE FreeOne(u[k - 1])]
  BY DEF Freeing, FreeOne
<1> HIDE DEF a, g, F
<1>5. PICK f \in [0..MaxCluster -> FreeStates] : Lists(f, a, g, MaxCluster)
  BY <1>1, <1>2, <1>3, RepeatedSteps, Zenon
<1>6. \A k \in 0..MaxCluster : k = 0 \/ (k \in 1..MaxCluster /\ k - 1 \in 0..MaxCluster)
  BY <1>1
<1>7. f[0] = a /\ \A k \in 1..MaxCluster : f[k] = FreeOne(f[k - 1])
  <2>1. ASSUME NEW k \in 1..MaxCluster PROVE f[k] = FreeOne(f[k - 1])
    <3>1. k - 1 \in 0..MaxCluster
      BY <1>1
    <3>2. f[k - 1] \in FreeStates
      BY <1>5, <3>1
    <3>3. f[k] = g[k][f[k - 1]]
      BY <1>5 DEF Lists
    <3> QED BY <3>2, <3>3 DEF g
  <2> QED BY <1>5, <2>1 DEF Lists
<1>8. f = [k \in 0..MaxCluster |-> IF k = 0 THEN a ELSE FreeOne(f[k - 1])]
  BY <1>5, <1>6, <1>7
<1>9. F = [k \in 0..MaxCluster |-> IF k = 0 THEN a ELSE FreeOne(F[k - 1])]
  BY <1>4, <1>8
<1>10. 0 \in 0..MaxCluster /\ \A k \in 1..MaxCluster : k \in 0..MaxCluster /\ k # 0
  BY <1>1
<1>11. F[0] = a /\ \A k \in 1..MaxCluster : F[k] = FreeOne(F[k - 1])
  BY <1>9, <1>10
<1>12. \A k \in 0..MaxCluster : F[k] \in FreeStates
  <2> DEFINE S == {k \in 0..MaxCluster : F[k] \in FreeStates}
  <2>1. 0 \in S
    BY <1>2, <1>10, <1>11
  <2>2. \A k \in 1..MaxCluster : k - 1 \in S => k \in S
    BY <1>10, <1>11, FreeOneState
  <2> HIDE DEF S
  <2>3. \A k \in 0..MaxCluster : k \in S
    BY <1>1, <2>1, <2>2, Upwards
  <2> QED BY <2>3 DEF S
<1> QED BY <1>11, <1>12 DEF a, F

\* After k steps the first k clusters of the chain are free.
LEMMA FreedUpTo ==
  ASSUME NEW v \in VolType, Cache(v), NEW first \in Link, Linked(v.fat), Rooted(v.fat, first)
  PROVE  \A k \in 0..MaxCluster :
           /\ Freeing(v, first)[k].cl = Chain(v.fat, first)[k]
           /\ FreedTo(Freeing(v, first)[k].vol.fat, v.fat, Chain(v.fat, first), k)
<1> DEFINE T == v.fat
           C == Chain(T, first)
           F == Freeing(v, first)
           S == {k \in 0..MaxCluster : F[k].cl = C[k] /\ FreedTo(F[k].vol.fat, T, C, k)}
<1>1. MaxCluster \in Nat /\ T \in TableType
  BY Table DEF VolType
<1>2. /\ F[0] = [vol |-> v, cl |-> first]
      /\ \A k \in 0..MaxCluster : F[k] \in FreeStates
      /\ \A k \in 1..MaxCluster : F[k] = FreeOne(F[k - 1])
  BY FreeingSteps
<1>3. C[0] = first /\ \A k \in 1..MaxCluster : C[k] = Follow(T, C[k - 1])
  BY <1>1, ChainSteps
<1>4. \A j, k \in 0..MaxCluster : C[j] = C[k] /\ C[j] \in Clusters => j = k
  BY <1>1, ChainsApart
<1>5. F[0].vol.fat = T /\ F[0].cl = first
  BY <1>2
<1> HIDE DEF C, F, T
<1>6. 0 \in S
  BY <1>1, <1>3, <1>5 DEF FreedTo
<1>7. ASSUME NEW k \in 1..MaxCluster, k - 1 \in S PROVE k \in S
  <2>1. k - 1 \in 0..MaxCluster /\ k \in 0..MaxCluster
    BY <1>1
  <2>2. PICK s : s = F[k - 1]
    OBVIOUS
  <2>3. /\ s.cl = C[k - 1] /\ FreedTo(s.vol.fat, T, C, k - 1)
        /\ s.vol \in VolType /\ Cache(s.vol) /\ s.vol.fat \in TableType
    BY <1>2, <1>7, <2>1, <2>2 DEF FreeStates, VolType
  <2>4. F[k] = FreeOne(s)
    BY <1>2, <2>2
  <2>5. CASE s.cl \notin Clusters
    <3>1. F[k] = s /\ C[k] = C[k - 1]
      BY <1>3, <2>3, <2>4, <2>5 DEF FreeOne, Follow
    <3>2. FreedTo(s.vol.fat, T, C, k)
      <4>1. \A j \in 0..MaxCluster : j < k <=> (j < k - 1 \/ j = k - 1)
        BY <1>1
      <4> QED BY <2>3, <2>5, <4>1 DEF FreedTo
    <3> QED BY <2>1, <2>3, <3>1, <3>2
  <2>6. CASE s.cl \in Clusters
    <3> DEFINE c == s.cl
               w == fat_set(s.vol, c, 0)
    <3>1. F[k].vol = w /\ F[k].cl = s.vol.fat[c]
      BY <2>4, <2>6 DEF FreeOne
    <3>2. w.fat = Put(s.vol.fat, c, 0)
      <4>1. 0 \in {0, CLUS_EOC} \cup Clusters
        OBVIOUS
      <4> QED BY <2>3, <2>6, <4>1, SetVol
    <3>3. w.fat[c] = 0 /\ \A e \in Clusters : e # c => w.fat[e] = s.vol.fat[e]
      <4>1. PICK A \in TableType : A = s.vol.fat
        BY <2>3
      <4>2. 0 \in {0, CLUS_EOC} \cup Clusters
        OBVIOUS
      <4>3. Put(A, c, 0)[c] = 0 /\ \A e \in Entry : e # c => Put(A, c, 0)[e] = A[e]
        BY <2>6, <4>2, PutTable
      <4> QED BY <3>2, <4>1, <4>3, Table
    <3> HIDE DEF w
    <3>4. c = C[k - 1]
      BY <2>3
    <3> HIDE DEF c
    <3>5. s.vol.fat[c] = T[c]
      <4>1. ~(\E j \in 0..MaxCluster : j < k - 1 /\ C[j] = c)
        <5> SUFFICES ASSUME NEW j \in 0..MaxCluster, j < k - 1, C[j] = c PROVE FALSE
          OBVIOUS
        <5>1. j = k - 1
          BY <1>4, <2>1, <2>6, <3>4 DEF c
        <5> QED BY <5>1, <1>1
      <4> QED BY <2>3, <2>6, <4>1 DEF FreedTo, c
    <3>6. F[k].cl = C[k]
      BY <1>3, <2>6, <3>1, <3>4, <3>5 DEF Follow, c
    <3>7. FreedTo(w.fat, T, C, k)
      <4> SUFFICES ASSUME NEW e \in Clusters
                   PROVE  w.fat[e] = IF \E j \in 0..MaxCluster : j < k /\ C[j] = e THEN 0 ELSE T[e]
        BY DEF FreedTo
      <4>1. \A j \in 0..MaxCluster : j < k <=> (j < k - 1 \/ j = k - 1)
        BY <1>1
      <4>2. CASE e = c
        BY <2>1, <3>3, <3>4, <4>1, <4>2
      <4>3. CASE e # c
        <5>1. (\E j \in 0..MaxCluster : j < k /\ C[j] = e)
                 <=> (\E j \in 0..MaxCluster : j < k - 1 /\ C[j] = e)
          BY <3>4, <4>1, <4>3
        <5> QED BY <2>3, <3>3, <4>3, <5>1 DEF FreedTo
      <4> QED BY <4>2, <4>3
    <3> QED BY <2>1, <3>1, <3>6, <3>7
  <2> QED BY <2>5, <2>6
<1> HIDE DEF S
<1>8. \A k \in 0..MaxCluster : k \in S
  BY <1>1, <1>6, <1>7, Upwards
<1> QED BY <1>8 DEF S, C, F, T

\* U is T without the clusters of the chain from first.
Without(U, T, first) ==
  \A c \in Clusters : U[c] = IF c \in ClustersOf(T, first) THEN 0 ELSE T[c]

\* fat_free_chain frees the whole chain and nothing else.
LEMMA FreeChain ==
  ASSUME NEW v \in VolType, Cache(v), NEW first \in Link, Linked(v.fat), Rooted(v.fat, first)
  PROVE  LET w == fat_free_chain(v, first)
         IN  w \in VolType /\ Cache(w) /\ Without(w.fat, v.fat, first)
<1> DEFINE w == fat_free_chain(v, first)
           C == Chain(v.fat, first)
<1>1. w = Freeing(v, first)[MaxCluster].vol
  BY DEF fat_free_chain, Freeing
<1>2. MaxCluster \in 0..MaxCluster /\ v.fat \in TableType
  BY Table DEF VolType
<1>3. w \in VolType /\ Cache(w)
  <2>1. Freeing(v, first)[MaxCluster] \in FreeStates
    BY <1>2, FreeingSteps
  <2>2. PICK s \in FreeStates : s = Freeing(v, first)[MaxCluster]
    BY <2>1
  <2>3. w = s.vol
    BY <1>1, <2>2
  <2> HIDE DEF w
  <2> QED BY <2>3 DEF FreeStates
<1>4. FreedTo(w.fat, v.fat, C, MaxCluster)
  BY <1>1, <1>2, FreedUpTo
<1> HIDE DEF w
<1>5. C[MaxCluster] \notin Clusters
  <2>1. PICK n \in 0..(MaxCluster - 1) : \A k \in 0..MaxCluster : C[k] \in Clusters <=> k < n
    BY <1>2, ChainEnds
  <2> QED BY <2>1, <1>2, Table
<1>6. \A c \in Clusters : c \in ClustersOf(v.fat, first)
                            <=> \E j \in 0..MaxCluster : j < MaxCluster /\ C[j] = c
  <2>1. \A j \in 0..MaxCluster : j < MaxCluster \/ j = MaxCluster
    BY Table
  <2>2. ClustersOf(v.fat, first) = {C[k] : k \in 0..MaxCluster} \cap Clusters
    BY DEF ClustersOf
  <2> HIDE DEF C
  <2> QED BY <1>5, <2>1, <2>2
<1>7. Without(w.fat, v.fat, first)
  BY <1>4, <1>6 DEF FreedTo, Without
<1> QED BY <1>3, <1>7 DEF w

\* The table without a chain: still linked, and the other files lie in it.
LEMMA WithoutLinked ==
  ASSUME NEW T \in TableType, NEW U, Linked(T), NEW first \in Link, Rooted(T, first),
         Without(U, T, first)
  PROVE  Linked(U) /\ Shrinks(U, T, first)
<1> DEFINE C == Chain(T, first)
           K == ClustersOf(T, first)
<1>1. \A c \in Clusters : U[c] = IF c \in K THEN 0 ELSE T[c]
  BY DEF Without
<1>2. K = {C[k] : k \in 0..MaxCluster} \cap Clusters
  BY DEF ClustersOf
<1>3. C[0] = first /\ 0 \in 0..MaxCluster
  BY ChainSteps, Table
<1>4. \A k \in 1..MaxCluster :
        C[k] \in Clusters => /\ k - 1 \in 0..MaxCluster /\ C[k - 1] \in Clusters
                             /\ T[C[k - 1]] = C[k]
  BY ChainBack
<1>5. \A k \in 0..MaxCluster : k = 0 \/ k \in 1..MaxCluster
  BY Table
<1> HIDE DEF C, K
<1>6. ASSUME NEW k \in Clusters, T[k] \in K PROVE k \in K
  <2>1. PICK j \in 0..MaxCluster : C[j] = T[k] /\ T[k] \in Clusters
    BY <1>2, <1>6
  <2>2. j # 0
    BY <1>3, <2>1 DEF Rooted
  <2>3. j \in 1..MaxCluster /\ j - 1 \in 0..MaxCluster /\ C[j - 1] \in Clusters /\ T[C[j - 1]] = T[k]
    BY <1>4, <1>5, <2>1, <2>2
  <2>4. C[j - 1] = k
    BY <2>1, <2>3 DEF Linked
  <2> QED BY <1>2, <2>3, <2>4
<1>7. Linked(U)
  BY <1>1, <1>6, Table DEF Linked
<1>8. Shrinks(U, T, first)
  BY <1>1 DEF Shrinks, K
<1> QED BY <1>7, <1>8

\* What follows the file at i can be anything that is laid properly.
LEMMA LaidShrinks ==
  ASSUME NEW T, NEW F, Laid(T, F), NEW i \in DOMAIN F,
         NEW U \in TableType, Linked(U), Shrinks(U, T, F[i].first), NEW G,
         \A j \in DOMAIN G :
           \/ /\ j \in DOMAIN F \ {i} /\ G[j].first = F[j].first /\ G[j].size = F[j].size
           \/ /\ G[j].first \in {0, F[i].first} /\ G[j].size \in Nat
              /\ Rooted(U, G[j].first) /\ Long(U, G[j].first, G[j].size)
              /\ G[j].first # 0 => j = i
  PROVE  Laid(U, G)
<1>1. /\ T \in TableType /\ Linked(T) /\ F[i].first \in {0} \cup Clusters /\ Rooted(T, F[i].first)
  BY DEF Laid
<1>2. ASSUME NEW j \in DOMAIN G
      PROVE  /\ G[j].first \in {0} \cup Clusters /\ G[j].size \in Nat
             /\ Rooted(U, G[j].first) /\ Long(U, G[j].first, G[j].size)
  <2>1. CASE j \in DOMAIN F \ {i} /\ G[j].first = F[j].first /\ G[j].size = F[j].size
    <3> DEFINE x == F[j].first
               size == F[j].size
    <3>1. /\ x \in {0} \cup Clusters /\ size \in Nat /\ Rooted(T, x) /\ Long(T, x, size)
          /\ x # F[i].first \/ x = 0
      BY <2>1 DEF Laid
    <3>2. G[j].first = x /\ G[j].size = size
      BY <2>1
    <3> HIDE DEF x, size
    <3>3. /\ Rooted(U, x)
          /\ \A k \in 0..MaxCluster : Chain(T, x)[k] \in Clusters =>
               Chain(U, x)[k] = Chain(T, x)[k] /\ U[Chain(T, x)[k]] = T[Chain(T, x)[k]]
      BY <1>1, <3>1, FirstLink, OthersShrink, ZenonT(60)
    <3>4. Long(U, x, size)
      BY <3>1, <3>3 DEF Long
    <3> QED BY <3>1, <3>2, <3>3, <3>4
  <2>2. CASE ~(j \in DOMAIN F \ {i} /\ G[j].first = F[j].first /\ G[j].size = F[j].size)
    BY <1>1, <1>2, <2>2
  <2> QED BY <2>1, <2>2
<1>3. ASSUME NEW j \in DOMAIN G, NEW k \in DOMAIN G, G[j].first = G[k].first, G[j].first # 0
      PROVE  j = k
  BY <1>3 DEF Laid
<1> QED BY <1>2, <1>3 DEF Laid

\* The same when nothing of the table has changed.
LEMMA LaidAgain ==
  ASSUME NEW T, NEW F, Laid(T, F), NEW G,
         \A j \in DOMAIN G :
           \/ j \in DOMAIN F /\ G[j].first = F[j].first /\ G[j].size = F[j].size
           \/ G[j].first = 0 /\ G[j].size = 0
  PROVE  Laid(T, G)
<1>1. \A j \in DOMAIN G : G[j].first = 0 /\ G[j].size = 0 =>
        Rooted(T, G[j].first) /\ Long(T, G[j].first, G[j].size)
  <2>1. \A k \in 0..MaxCluster : k * ClusterSecs \in Nat /\ ~(k * ClusterSecs < 0)
    BY Table
  <2> QED BY <2>1, Table DEF Rooted, Long
<1>2. \A j \in DOMAIN G : /\ G[j].first \in {0} \cup Clusters /\ G[j].size \in Nat
                          /\ Rooted(T, G[j].first) /\ Long(T, G[j].first, G[j].size)
  BY <1>1 DEF Laid
<1>3. \A j, k \in DOMAIN G : G[j].first = G[k].first /\ G[j].first # 0 => j = k
  BY DEF Laid
<1> QED BY <1>2, <1>3 DEF Laid

----------------------------------------------------------------------------
(* Clusters and sectors.                                                   *)

\* The cluster that holds sector n.
LEMMA DivSecs ==
  ASSUME NEW n \in Nat
  PROVE  /\ n \div ClusterSecs \in Nat
         /\ (n \div ClusterSecs) * ClusterSecs <= n
         /\ n < (n \div ClusterSecs) * ClusterSecs + ClusterSecs
<1>1. ClusterSecs \in Nat /\ ClusterSecs > 0
  BY Table
<1> QED BY <1>1, Z3

\* It is the only one.
LEMMA DivUnique ==
  ASSUME NEW n \in Nat, NEW q \in Nat, q * ClusterSecs <= n, n < q * ClusterSecs + ClusterSecs
  PROVE  n \div ClusterSecs = q
<1> DEFINE d == n \div ClusterSecs
<1>1. ClusterSecs \in Nat /\ ClusterSecs > 0
  BY Table
<1>2. d \in Nat /\ d * ClusterSecs <= n /\ n < d * ClusterSecs + ClusterSecs
  BY DivSecs
<1> HIDE DEF d
<1>3. ~(d < q)
  <2> SUFFICES ASSUME d < q PROVE FALSE
    OBVIOUS
  <2>1. (d + 1) * ClusterSecs <= q * ClusterSecs
    BY <1>1, <1>2, Z3
  <2>2. (d + 1) * ClusterSecs = d * ClusterSecs + ClusterSecs
    BY <1>1, <1>2, Z3
  <2> QED BY <1>1, <1>2, <2>1, <2>2, Z3
<1>4. ~(q < d)
  <2> SUFFICES ASSUME q < d PROVE FALSE
    OBVIOUS
  <2>1. (q + 1) * ClusterSecs <= d * ClusterSecs
    BY <1>1, <1>2, Z3
  <2>2. (q + 1) * ClusterSecs = q * ClusterSecs + ClusterSecs
    BY <1>1, <1>2, Z3
  <2> QED BY <1>1, <1>2, <2>1, <2>2, Z3
<1> QED BY <1>2, <1>3, <1>4 DEF d

----------------------------------------------------------------------------
(* Cutting a chain behind its m-th cluster.                                *)

\* The end is set behind the m-th cluster and the rest of the chain freed: the
\* table is linked, and the chain is what it was up to there.
LEMMA CutTable ==
  ASSUME NEW T \in TableType, Linked(T), NEW first \in Clusters, Rooted(T, first),
         NEW m \in 0..MaxCluster, Chain(T, first)[m] \in Clusters,
         NEW A \in TableType, A = Put(T, Chain(T, first)[m], CLUS_EOC),
         NEW next, next = T[Chain(T, first)[m]],
         NEW U \in TableType, Without(U, A, next)
  PROVE  /\ Linked(A) /\ next \in Link /\ Rooted(A, next)
         /\ Linked(U) /\ Shrinks(U, T, first) /\ Rooted(U, first)
         /\ \A k \in 0..m : Chain(U, first)[k] = Chain(T, first)[k]
                            /\ Chain(T, first)[k] \in Clusters
<1> DEFINE C == Chain(T, first)
           last == C[m]
           K == ClustersOf(T, first)
<1>1. /\ MaxCluster \in Nat /\ first \in Link /\ C[0] = first /\ 0 \in 0..MaxCluster
      /\ \A k \in 1..MaxCluster : C[k] = Follow(T, C[k - 1])
  BY FirstLink, ChainSteps, Table
<1>2. \A j, k \in 0..MaxCluster : C[j] = C[k] /\ C[j] \in Clusters => j = k
  BY <1>1, ChainsApart
<1>3. \A k \in 0..MaxCluster : k <= m => C[k] \in Clusters
  BY <1>1, ChainPrefix
<1>4. K = {C[k] : k \in 0..MaxCluster} \cap Clusters
  BY DEF ClustersOf
<1>5. \A k \in 0..MaxCluster : C[k] \in Clusters => k + 1 \in 1..MaxCluster /\ (k + 1) - 1 = k
  <2>1. PICK n \in 0..(MaxCluster - 1) : \A k \in 0..MaxCluster : C[k] \in Clusters <=> k < n
    BY <1>1, ChainEnds
  <2> QED BY <1>1, <2>1
<1>6. last \in Clusters /\ A = Put(T, last, CLUS_EOC) /\ next = T[last]
  OBVIOUS
<1> HIDE DEF C, last, K
<1>7. A[last] = CLUS_EOC /\ \A k \in Clusters : k # last => A[k] = T[k]
  <2>1. CLUS_EOC \in {0, CLUS_EOC} \cup Clusters
    OBVIOUS
  <2>2. last \in Clusters
    BY <1>6
  <2>3. Put(T, last, CLUS_EOC)[last] = CLUS_EOC
    BY <2>1, <2>2, PutTable
  <2>4. \A k \in Entry : k # last => Put(T, last, CLUS_EOC)[k] = T[k]
    BY <2>1, <2>2, PutTable
  <2> QED BY <1>6, <2>3, <2>4, Table
<1>8. Linked(A)
  BY <1>7, Table, ZenonT(60) DEF Linked
<1>9. next \in Link /\ Rooted(A, next)
  <2>1. Follow(T, last) \in Link
    BY <1>6, Table, FollowLink DEF Link
  <2>2. Follow(T, last) = next
    BY <1>6 DEF Follow
  <2>3. Rooted(A, next)
    BY <1>6, <1>7, Table DEF Rooted, Linked
  <2> QED BY <2>1, <2>2, <2>3
<1>10. Linked(U) /\ Shrinks(U, A, next)
  BY <1>8, <1>9, WithoutLinked
\* The clusters freed are of the chain.
<1>11. \A c \in K : T[c] \in Clusters => T[c] \in K
  <2> SUFFICES ASSUME NEW c \in K, T[c] \in Clusters PROVE T[c] \in K
    OBVIOUS
  <2>1. PICK k \in 0..MaxCluster : C[k] = c /\ c \in Clusters
    BY <1>4
  <2>2. k + 1 \in 1..MaxCluster /\ k + 1 \in 0..MaxCluster /\ (k + 1) - 1 = k
    BY <1>1, <1>5, <2>1
  <2>3. C[k + 1] = T[c]
    BY <1>1, <2>1, <2>2 DEF Follow
  <2> QED BY <1>4, <2>2, <2>3
<1>12. ClustersOf(A, next) \subseteq K
  <2> DEFINE D == Chain(A, next)
             S == {k \in 0..MaxCluster : D[k] \in Clusters => D[k] \in K}
  <2>1. D[0] = next /\ \A k \in 1..MaxCluster : D[k] = Follow(A, D[k - 1])
    BY <1>9, ChainSteps
  <2>2. ClustersOf(A, next) = {D[k] : k \in 0..MaxCluster} \cap Clusters
    BY DEF ClustersOf
  <2> HIDE DEF D
  <2>3. last \in K
    BY <1>4, <1>6 DEF last
  <2>4. 0 \in S
    BY <1>1, <1>6, <1>11, <2>1, <2>3
  <2>5. \A k \in 1..MaxCluster : k - 1 \in S => k \in S
    <3> SUFFICES ASSUME NEW k \in 1..MaxCluster, k - 1 \in S, D[k] \in Clusters PROVE D[k] \in K
      BY <1>1
    <3>1. D[k] = Follow(A, D[k - 1])
      BY <2>1
    <3>2. CASE D[k - 1] \in Clusters
      <4>1. D[k - 1] \in K /\ D[k] = A[D[k - 1]]
        BY <3>1, <3>2 DEF Follow
      <4> QED BY <1>7, <1>11, <3>2, <4>1, Table
    <3>3. CASE D[k - 1] \notin Clusters
      BY <3>1, <3>3 DEF Follow
    <3> QED BY <3>2, <3>3
  <2> HIDE DEF S
  <2>6. \A k \in 0..MaxCluster : k \in S
    BY <1>1, <2>4, <2>5, Upwards
  <2> QED BY <2>2, <2>6 DEF S
<1>13. Shrinks(U, T, first)
  <2> SUFFICES ASSUME NEW k \in Clusters
               PROVE  /\ U[k] # T[k] => k \in K
                      /\ U[k] = T[k] \/ U[k] \in {0, CLUS_EOC}
    BY DEF Shrinks, K
  <2>1. last \in K
    BY <1>4, <1>6 DEF last
  <2>2. CASE k \in ClustersOf(A, next)
    BY <1>12, <2>2 DEF Without
  <2>3. CASE k \notin ClustersOf(A, next)
    <3>1. U[k] = A[k]
      BY <2>3 DEF Without
    <3> QED BY <1>7, <2>1, <3>1
  <2> QED BY <2>2, <2>3
<1>14. Rooted(A, first) /\ first # next
  BY <1>6, <1>7, Table DEF Rooted
<1>15. /\ Rooted(U, first)
       /\ \A k \in 0..MaxCluster :
            Chain(A, first)[k] \in Clusters => Chain(U, first)[k] = Chain(A, first)[k]
  <2>1. first \in {0} \cup Clusters
    OBVIOUS
  <2> QED BY <1>8, <1>9, <1>10, <1>14, <2>1, OthersShrink
<1>16. \A k \in 0..m : Chain(A, first)[k] = C[k]
  <2> DEFINE B == Chain(A, first)
             S == {k \in 0..m : B[k] = C[k]}
  <2>1. B[0] = first /\ \A k \in 1..MaxCluster : B[k] = Follow(A, B[k - 1])
    BY <1>1, ChainSteps
  <2> HIDE DEF B
  <2>2. 0 \in S
    BY <1>1, <2>1
  <2>3. \A k \in 1..m : k - 1 \in S => k \in S
    <3> SUFFICES ASSUME NEW k \in 1..m, k - 1 \in S PROVE B[k] = C[k]
      BY <1>1
    <3>1. k \in 1..MaxCluster /\ k - 1 \in 0..MaxCluster /\ k - 1 <= m /\ k - 1 # m /\ m \in 0..MaxCluster
      BY <1>1
    <3>2. C[k - 1] \in Clusters /\ C[k - 1] # last
      BY <1>2, <1>3, <3>1 DEF last
    <3>3. B[k - 1] = C[k - 1] /\ A[C[k - 1]] = T[C[k - 1]]
      BY <1>7, <3>2
    <3> QED BY <1>1, <2>1, <3>1, <3>2, <3>3 DEF Follow
  <2> HIDE DEF S
  <2>4. m \in Nat
    BY <1>1
  <2>5. \A k \in 0..m : k \in S
    BY <2>2, <2>3, <2>4, Upwards
  <2> QED BY <2>5 DEF S, B
<1>17. \A k \in 0..m : Chain(U, first)[k] = C[k] /\ C[k] \in Clusters
  <2>1. \A k \in 0..m : k \in 0..MaxCluster /\ k <= m
    BY <1>1
  <2> QED BY <1>3, <1>15, <1>16, <2>1
<1> QED BY <1>8, <1>9, <1>10, <1>13, <1>15, <1>17 DEF C

----------------------------------------------------------------------------
(* Transfers.                                                              *)

\* The entry behind a cluster of a chain.
LEMMA ChainNext ==
  ASSUME NEW T \in TableType, Linked(T), NEW first \in Link, Rooted(T, first),
         NEW q \in 0..MaxCluster, Chain(T, first)[q] \in Clusters
  PROVE  /\ q + 1 \in 0..MaxCluster /\ Chain(T, first)[q + 1] = T[Chain(T, first)[q]]
         /\ T[Chain(T, first)[q]] # 0
<1> DEFINE C == Chain(T, first)
<1>1. PICK n \in 0..(MaxCluster - 1) : \A k \in 0..MaxCluster : C[k] \in Clusters <=> k < n
  BY ChainEnds
<1>2. q + 1 \in 1..MaxCluster /\ q + 1 \in 0..MaxCluster /\ (q + 1) - 1 = q
  BY <1>1, Table
<1>3. C[0] = first /\ \A k \in 1..MaxCluster : C[k] = Follow(T, C[k - 1])
  BY ChainSteps
<1>4. C[q + 1] = T[C[q]]
  BY <1>2, <1>3 DEF Follow
<1>5. T[C[q]] # 0
  <2>1. CASE q = 0
    BY <1>3, <2>1 DEF Rooted
  <2>2. CASE q # 0
    <3>1. q \in 1..MaxCluster
      BY <2>2, Table
    <3>2. C[q - 1] \in Clusters /\ T[C[q - 1]] = C[q]
      BY <3>1, ChainBack
    <3> HIDE DEF C
    <3> QED BY <3>2 DEF Linked, C
  <2> QED BY <2>1, <2>2
<1> QED BY <1>2, <1>4, <1>5

\* A chain has its clusters still where the table goes on.
LEMMA ClustersExtend ==
  ASSUME NEW T \in TableType, NEW U \in TableType, Extends(U, T), NEW first \in Link
  PROVE  ClustersOf(T, first) \subseteq ClustersOf(U, first)
<1>1. \A k \in 0..MaxCluster :
           Chain(T, first)[k] \in Clusters => Chain(U, first)[k] = Chain(T, first)[k]
  BY ChainExtends
<1>2. /\ ClustersOf(T, first) = {Chain(T, first)[k] : k \in 0..MaxCluster} \cap Clusters
      /\ ClustersOf(U, first) = {Chain(U, first)[k] : k \in 0..MaxCluster} \cap Clusters
  BY DEF ClustersOf
<1> QED BY <1>1, <1>2

\* The n-th sector of the file that begins with first.
SectorAt(T, d, first, n) == d[Chain(T, first)[n \div ClusterSecs]][n % ClusterSecs]

\* The sectors of a file are in its chain.
LEMMA SectorsInChain ==
  ASSUME NEW T \in TableType, Linked(T), NEW first \in {0} \cup Clusters, Rooted(T, first),
         NEW size, Long(T, first, size), NEW m \in Nat, m < size, size \in Nat
  PROVE  m \div ClusterSecs \in 0..MaxCluster /\ Chain(T, first)[m \div ClusterSecs] \in Clusters
<1>1. PICK q \in Nat : q = m \div ClusterSecs
  BY DivSecs
<1>2. q * ClusterSecs \in Nat /\ q * ClusterSecs <= m
  BY <1>1, DivSecs, Table
<1>3. PICK n \in 0..(MaxCluster - 1) :
         \A k \in 0..MaxCluster : Chain(T, first)[k] \in Clusters <=> k < n
  BY FirstLink, ChainEnds
<1>4. MaxCluster \in Nat /\ MaxCluster \in 0..MaxCluster /\ ClusterSecs \in Nat
  BY Table
<1>5. Chain(T, first)[MaxCluster] \notin Clusters
  BY <1>3, <1>4
<1>6. MaxCluster * ClusterSecs >= size
  <2>1. MaxCluster * ClusterSecs \in Nat
    BY <1>4
  <2> QED BY <1>4, <1>5, <2>1 DEF Long
<1>7. q < MaxCluster
  <2>1. q * ClusterSecs < MaxCluster * ClusterSecs
    <3>1. MaxCluster * ClusterSecs \in Nat
      BY <1>4
    <3> QED BY <1>2, <1>6, <3>1
  <2> QED BY <1>4, <2>1, Z3
<1>8. q \in 0..MaxCluster /\ q * ClusterSecs < size
  BY <1>2, <1>4, <1>7
<1> QED BY <1>1, <1>8 DEF Long

DataType == [Entry -> [Sector -> Vals \cup {0}]]
TransferType == [f : OpenType, vol : VolType, data : DataType, read : Seq(Vals \cup {0}),
                 left : Nat, stop : BOOLEAN]

\* The open file f has clusters for its size in the table T, and its cursor is
\* on the cluster of its position.
Placed(T, f) ==
  /\ Rooted(T, f.first) /\ Long(T, f.first, f.size)
  /\ f.first # 0 => f.cur # 0
  /\ \E q \in 0..MaxCluster : f.cpos = q * ClusterSecs /\ f.cur = Chain(T, f.first)[q]

Full(T) == \A c \in Clusters : T[c] # 0

\* The transfer t began with the slot f on the volume v: what it took of the
\* volume is in the chain of the file, and if it had to stop nothing is free.
Moving(t, f, v) ==
  /\ t \in TransferType /\ Good(t.vol) /\ Grown(t.vol, v) /\ Placed(t.vol.fat, t.f)
  /\ t.f.place = f.place /\ t.f.mode = f.mode
  /\ f.first # 0 => t.f.first = f.first
  /\ f.first = 0 /\ t.f.first # 0 => v.fat[t.f.first] = 0
  /\ ~t.f.dirty => t.f.first = f.first /\ t.f.size = f.size /\ ~f.dirty
  /\ \A c \in Clusters : t.vol.fat[c] # 0 => v.fat[c] # 0 \/ c \in ClustersOf(t.vol.fat, t.f.first)
  /\ t.f.pos + t.left <= MaxSecs
  /\ t.stop => Full(t.vol.fat)

\* The next cluster position is a cluster position.
LEMMA NextPosition ==
  ASSUME NEW q \in Nat, q * ClusterSecs + ClusterSecs <= MaxSecs
  PROVE  /\ q * ClusterSecs + ClusterSecs = (q + 1) * ClusterSecs
         /\ q * ClusterSecs + ClusterSecs \in {k * ClusterSecs : k \in 0..(MaxSecs \div ClusterSecs)}
<1> DEFINE d == MaxSecs \div ClusterSecs
<1>1. ClusterSecs \in Nat /\ ClusterSecs > 0 /\ MaxSecs \in Nat
  BY Table, InputAssumption
<1>2. d \in Nat /\ MaxSecs < d * ClusterSecs + ClusterSecs
  BY <1>1, DivSecs
<1> HIDE DEF d
<1>3. q * ClusterSecs + ClusterSecs = (q + 1) * ClusterSecs
  BY <1>1, Z3
<1>4. d * ClusterSecs + ClusterSecs = (d + 1) * ClusterSecs
  BY <1>1, <1>2, Z3
<1>5. (q + 1) * ClusterSecs < (d + 1) * ClusterSecs
  <2>1. (q + 1) * ClusterSecs \in Int /\ (d + 1) * ClusterSecs \in Int /\ q * ClusterSecs \in Int
    BY <1>1, <1>2, Z3
  <2> QED BY <1>1, <1>2, <1>3, <1>4, <2>1
<1>6. q + 1 < d + 1
  BY <1>1, <1>2, <1>5, Z3
<1>7. q + 1 \in 0..d
  BY <1>2, <1>6
<1> QED BY <1>3, <1>7 DEF d

\* NextCluster moves the cursor on to the next cluster; a write takes one at the end
\* of the chain, or stops on a full disk; a read never comes to the end.
LEMMA NextMoves ==
  ASSUME NEW f, NEW v, NEW t, Moving(t, f, v), ~t.stop, t.f.first # 0,
         t.f.cpos + ClusterSecs <= t.f.pos, NEW grow \in BOOLEAN, grow \/ t.f.pos < t.f.size
  PROVE  LET u == NextCluster(t, grow)
         IN  /\ Moving(u, f, v)
             /\ u.f.first = t.f.first /\ u.f.size = t.f.size /\ u.f.pos = t.f.pos
             /\ u.data = t.data /\ u.read = t.read /\ u.left = t.left
             /\ u.f.cpos = IF u.stop THEN t.f.cpos ELSE t.f.cpos + ClusterSecs
             /\ ~grow => ~u.stop /\ u.vol.fat = t.vol.fat /\ u.f.dirty = t.f.dirty
<1> DEFINE u == NextCluster(t, grow)
           seen == Looked(t.vol, t.f.cur)
           next == seen.fat[t.f.cur]
           new == fat_alloc(seen, t.f.cur)
           T == t.vol.fat
           C == Chain(T, t.f.first)
<1>1. /\ t \in TransferType /\ Good(t.vol) /\ Grown(t.vol, v) /\ Placed(T, t.f)
      /\ t.f \in OpenType /\ t.vol \in VolType /\ Cache(t.vol) /\ T \in TableType /\ Linked(T)
  BY DEF Moving, TransferType, Good, VolType
<1>2. PICK q \in 0..MaxCluster : t.f.cpos = q * ClusterSecs /\ t.f.cur = C[q]
  BY <1>1 DEF Placed
<1>3. /\ t.f.cur \in Clusters /\ t.f.cur \in Entry /\ t.f.first \in Clusters /\ t.f.first \in Link
      /\ t.f.pos \in 0..MaxSecs /\ Rooted(T, t.f.first)
  BY <1>1, Table, FirstLink DEF Placed, OpenType
<1>4. /\ q + 1 \in 0..MaxCluster /\ C[q + 1] = T[t.f.cur] /\ T[t.f.cur] # 0
  BY <1>1, <1>2, <1>3, ChainNext
<1>5. Held(seen, t.vol) /\ Good(seen) /\ Grown(seen, t.vol) /\ seen.fat = T
  <2>1. Held(seen, t.vol)
    BY <1>1, <1>3, SearchedHeld
  <2> QED BY <1>1, <2>1, HeldGood DEF Held
<1>6. Grown(seen, v) /\ seen \in VolType
  BY <1>1, <1>5, GrownTrans DEF Held
<1>7. /\ t.f.cpos + ClusterSecs \in {k * ClusterSecs : k \in 0..(MaxSecs \div ClusterSecs)}
      /\ t.f.cpos + ClusterSecs = (q + 1) * ClusterSecs
  <2>1. q \in Nat /\ MaxSecs \in Nat
    BY Table, InputAssumption
  <2>2. q * ClusterSecs + ClusterSecs <= MaxSecs
    BY <1>2, <1>3, <2>1, Table
  <2> QED BY <1>2, <2>1, <2>2, NextPosition
<1>8. next = T[t.f.cur] /\ next # 0 /\ next \in {0, CLUS_EOC} \cup Clusters
  BY <1>1, <1>3, <1>4, <1>5 DEF TableType
<1>9. CASE next # CLUS_EOC
  <2>1. u = [t EXCEPT !.vol = seen, !.f.cur = next, !.f.cpos = @ + ClusterSecs]
    BY <1>9 DEF NextCluster
  <2> HIDE DEF u, seen, next, new
  <2>2. next \in Clusters
    BY <1>8, <1>9
  <2>3. u \in TransferType
    BY <1>1, <1>6, <1>7, <2>1, <2>2 DEF TransferType, OpenType
  <2>4. /\ u.vol = seen /\ u.f = [t.f EXCEPT !.cur = next, !.cpos = @ + ClusterSecs]
        /\ u.data = t.data /\ u.read = t.read /\ u.left = t.left /\ u.stop = t.stop
    BY <1>1, <2>1 DEF TransferType
  <2>5. /\ u.f.cur = next /\ u.f.cpos = t.f.cpos + ClusterSecs /\ u.f.place = t.f.place
        /\ u.f.mode = t.f.mode /\ u.f.dirty = t.f.dirty /\ u.f.first = t.f.first
        /\ u.f.pos = t.f.pos /\ u.f.size = t.f.size
    BY <1>1, <2>4 DEF OpenType
  <2>6. Placed(T, u.f)
    BY <1>1, <1>4, <1>7, <1>8, <2>5 DEF Placed
  <2>7. Moving(u, f, v)
    BY <1>5, <1>6, <2>3, <2>4, <2>5, <2>6 DEF Moving
  <2> QED BY <1>5, <2>4, <2>5, <2>7 DEF u
<1>10. CASE next = CLUS_EOC
  <2>1. grow
    <3> SUFFICES ASSUME t.f.pos < t.f.size PROVE FALSE
      OBVIOUS
    <3>1. (q + 1) * ClusterSecs < t.f.size
      <4>1. t.f.size \in 0..MaxSecs /\ t.f.pos \in 0..MaxSecs
        BY <1>1 DEF OpenType
      <4>2. (q + 1) * ClusterSecs <= t.f.pos
        BY <1>7
      <4>3. (q + 1) * ClusterSecs \in Int
        BY Table
      <4> QED BY <4>1, <4>2, <4>3, InputAssumption
    <3>2. C[q + 1] \in Clusters
      BY <1>1, <1>4, <3>1 DEF Placed, Long
    <3> QED BY <1>4, <1>8, <1>10, <3>2, Table
  <2>2. /\ Good(new.vol) /\ Grown(new.vol, seen)
        /\ \/ new.cl = 0 /\ new.vol.fat = seen.fat /\ \A c \in Clusters : seen.fat[c] # 0
           \/ /\ new.cl \in Clusters /\ seen.fat[new.cl] = 0
              /\ new.vol.fat[new.cl] = CLUS_EOC
              /\ t.f.cur # 0 => new.vol.fat[t.f.cur] = new.cl
              /\ \A k \in Clusters : k \notin {new.cl, t.f.cur} => new.vol.fat[k] = seen.fat[k]
    <3>1. t.f.cur \in {0} \cup Clusters /\ (t.f.cur # 0 => seen.fat[t.f.cur] = CLUS_EOC)
      BY <1>3, <1>10
    <3> HIDE DEF seen
    <3> QED BY <1>5, <3>1, AllocGood
  <2>3. u = IF new.cl = 0 THEN [t EXCEPT !.vol = new.vol, !.stop = TRUE]
            ELSE [t EXCEPT !.vol = new.vol, !.f.cur = new.cl, !.f.cpos = @ + ClusterSecs,
                           !.f.dirty = TRUE]
    BY <1>10, <2>1 DEF NextCluster
  <2> HIDE DEF u, seen, next, new
  <2>4. new.vol \in VolType /\ Grown(new.vol, v)
    BY <1>6, <2>2, GrownTrans DEF Good
  <2>5. CASE new.cl = 0
    <3>1. u = [t EXCEPT !.vol = new.vol, !.stop = TRUE]
      BY <2>3, <2>5
    <3>2. u \in TransferType
      BY <1>1, <2>4, <3>1 DEF TransferType
    <3>3. /\ u.vol = new.vol /\ u.f = t.f
          /\ u.data = t.data /\ u.read = t.read /\ u.left = t.left /\ u.stop = TRUE
      BY <1>1, <3>1 DEF TransferType
    <3>4. u.vol.fat = T /\ Full(T)
      BY <1>5, <2>2, <2>5, <3>3, Table DEF Full
    <3>5. Moving(u, f, v)
      BY <2>2, <2>4, <3>2, <3>3, <3>4 DEF Moving
    <3> QED BY <2>1, <3>3, <3>5 DEF u
  <2>6. CASE new.cl # 0
    <3> DEFINE U == new.vol.fat
    <3>1. u = [t EXCEPT !.vol = new.vol, !.f.cur = new.cl, !.f.cpos = @ + ClusterSecs,
                           !.f.dirty = TRUE]
      BY <2>3, <2>6
    <3>2. /\ new.cl \in Clusters /\ T[new.cl] = 0
          /\ U[new.cl] = CLUS_EOC /\ U[t.f.cur] = new.cl
          /\ \A k \in Clusters : k \notin {new.cl, t.f.cur} => U[k] = T[k]
      BY <1>3, <1>5, <2>2, <2>6, Table
    <3>3. u \in TransferType
      BY <1>1, <1>7, <2>4, <3>1, <3>2 DEF TransferType, OpenType
    <3>4. /\ u.vol = new.vol
          /\ u.f = [t.f EXCEPT !.cur = new.cl, !.cpos = @ + ClusterSecs, !.dirty = TRUE]
          /\ u.data = t.data /\ u.read = t.read /\ u.left = t.left /\ u.stop = t.stop
      BY <1>1, <3>1 DEF TransferType
    <3>5. /\ u.f.cur = new.cl /\ u.f.cpos = t.f.cpos + ClusterSecs /\ u.f.place = t.f.place
          /\ u.f.mode = t.f.mode /\ u.f.dirty /\ u.f.first = t.f.first
          /\ u.f.pos = t.f.pos /\ u.f.size = t.f.size
      BY <1>1, <3>4 DEF OpenType
    <3>6. U \in TableType /\ Linked(U) /\ Grows(U, T) /\ Extends(U, T)
      BY <1>5, <2>2, <2>4 DEF Good, VolType, Grown, Grows
    <3> HIDE DEF U
    <3>7. Rooted(U, t.f.first) /\ Long(U, t.f.first, t.f.size)
      BY <1>1, <1>3, <3>6, RootedGrows, LongExtends DEF Placed
    <3>8. Chain(U, t.f.first)[q] = t.f.cur
      BY <1>1, <1>2, <1>3, <3>6, ChainExtends
    <3>9. Chain(U, t.f.first)[q + 1] = new.cl
      BY <1>3, <3>2, <3>6, <3>7, <3>8, ChainNext
    <3>10. Placed(U, u.f)
      BY <1>4, <1>7, <3>2, <3>5, <3>7, <3>9, Table DEF Placed
    <3>11. new.cl \in ClustersOf(U, t.f.first)
      BY <1>4, <3>2, <3>9 DEF ClustersOf
    <3>12. ClustersOf(T, t.f.first) \subseteq ClustersOf(U, t.f.first)
      BY <1>1, <1>3, <3>6, ClustersExtend
    <3>13. \A c \in Clusters : U[c] # 0 => v.fat[c] # 0 \/ c \in ClustersOf(U, t.f.first)
      <4> SUFFICES ASSUME NEW c \in Clusters, U[c] # 0
                   PROVE  v.fat[c] # 0 \/ c \in ClustersOf(U, t.f.first)
        OBVIOUS
      <4>1. CASE T[c] # 0
        BY <3>12, <4>1 DEF Moving
      <4>2. CASE T[c] = 0
        BY <1>4, <3>2, <3>11, <4>2
      <4> QED BY <4>1, <4>2
    <3>14. u.vol.fat = U
      BY <3>4 DEF U
    <3>15. Moving(u, f, v)
      BY <2>2, <2>4, <3>3, <3>4, <3>5, <3>10, <3>13, <3>14 DEF Moving
    <3> QED BY <2>1, <3>4, <3>5, <3>15 DEF u
  <2> QED BY <2>5, <2>6
<1> QED BY <1>9, <1>10

\* The cursor is on the cluster of the position, if there is more to transfer.
Within(t) ==
  /\ t.f.first # 0 /\ t.f.cpos <= t.f.pos
  /\ t.left > 0 /\ ~t.stop => t.f.pos < t.f.cpos + ClusterSecs

\* What Moved does between two sectors keeps the cursor on the cluster of the position.
LEMMA MovedMoves ==
  ASSUME NEW f, NEW v, NEW t, Moving(t, f, v), ~t.stop, t.left > 0, Within(t),
         NEW grow \in BOOLEAN, grow \/ t.f.pos + t.left <= t.f.size
  PROVE  LET u == Moved(t, grow)
         IN  /\ Moving(u, f, v) /\ Within(u)
             /\ u.f.first = t.f.first /\ u.f.size = t.f.size /\ u.f.pos = t.f.pos + 1
             /\ u.data = t.data /\ u.read = t.read /\ u.left = t.left - 1
             /\ ~grow => ~u.stop /\ u.vol.fat = t.vol.fat /\ u.f.dirty = t.f.dirty
<1> DEFINE w == [t EXCEPT !.f.pos = @ + 1, !.left = @ - 1]
           u == Moved(t, grow)
<1>1. t \in TransferType /\ t.f \in OpenType /\ t.left \in Nat
  BY DEF Moving, TransferType
<1>2. /\ t.f.pos \in 0..MaxSecs /\ t.f.pos + t.left <= MaxSecs /\ MaxSecs \in Nat
      /\ t.f.size \in 0..MaxSecs /\ t.f.cpos \in Nat /\ ClusterSecs \in Nat /\ ClusterSecs > 0
  <2>1. t.f.cpos \in Nat
    <3>1. PICK q \in 0..(MaxSecs \div ClusterSecs) : t.f.cpos = q * ClusterSecs
      BY <1>1 DEF OpenType
    <3>2. MaxSecs \div ClusterSecs \in Nat
      BY InputAssumption, DivSecs
    <3>3. q \in Nat
      BY <3>2
    <3> QED BY <3>1, <3>3, Table
  <2>2. t.f.pos \in 0..MaxSecs /\ t.f.size \in 0..MaxSecs
    BY <1>1 DEF OpenType
  <2>3. t.f.pos + t.left <= MaxSecs
    BY DEF Moving
  <2>4. MaxSecs \in Nat /\ ClusterSecs \in Nat /\ ClusterSecs > 0
    BY Table, InputAssumption
  <2> QED BY <2>1, <2>2, <2>3, <2>4
<1>3. t.f.pos + 1 \in 0..MaxSecs /\ t.left - 1 \in Nat
  BY <1>1, <1>2
<1>4. u = IF w.f.pos - w.f.cpos >= ClusterSecs /\ w.left > 0 THEN NextCluster(w, grow) ELSE w
  BY DEF Moved
<1>5. PICK g : g = w
  OBVIOUS
<1>6. g \in TransferType
  BY <1>1, <1>3, <1>5 DEF TransferType, OpenType
<1>7. /\ g.vol = t.vol /\ g.f = [t.f EXCEPT !.pos = @ + 1]
      /\ g.data = t.data /\ g.read = t.read /\ g.left = t.left - 1 /\ g.stop = t.stop
  BY <1>1, <1>5 DEF TransferType
<1>8. /\ g.f.cur = t.f.cur /\ g.f.cpos = t.f.cpos /\ g.f.place = t.f.place
      /\ g.f.mode = t.f.mode /\ g.f.dirty = t.f.dirty /\ g.f.first = t.f.first
      /\ g.f.pos = t.f.pos + 1 /\ g.f.size = t.f.size
  BY <1>1, <1>7 DEF OpenType
<1>9. Moving(g, f, v)
  <2>1. Placed(g.vol.fat, g.f)
    BY <1>7, <1>8 DEF Placed, Moving
  <2>2. g.f.pos + g.left <= MaxSecs
    BY <1>1, <1>2, <1>7, <1>8
  <2> QED BY <1>6, <1>7, <1>8, <2>1, <2>2 DEF Moving
<1> HIDE DEF w, u
<1>10. u = IF g.f.pos - g.f.cpos >= ClusterSecs /\ g.left > 0 THEN NextCluster(g, grow) ELSE g
  BY <1>4, <1>5
<1>11. CASE g.f.pos - g.f.cpos >= ClusterSecs /\ g.left > 0
  <2>1. u = NextCluster(g, grow)
    BY <1>10, <1>11
  <2>2. g.f.cpos + ClusterSecs <= g.f.pos /\ g.f.first # 0 /\ ~g.stop
    BY <1>2, <1>7, <1>8, <1>11 DEF Within
  <2>3. grow \/ g.f.pos < g.f.size
    BY <1>1, <1>2, <1>7, <1>8, <1>11
  <2>4. /\ Moving(u, f, v)
        /\ u.f.first = g.f.first /\ u.f.size = g.f.size /\ u.f.pos = g.f.pos
        /\ u.data = g.data /\ u.read = g.read /\ u.left = g.left
        /\ u.f.cpos = IF u.stop THEN g.f.cpos ELSE g.f.cpos + ClusterSecs
        /\ ~grow => ~u.stop /\ u.vol.fat = g.vol.fat /\ u.f.dirty = g.f.dirty
    BY <1>9, <2>1, <2>2, <2>3, NextMoves
  <2>5. t.f.pos < t.f.cpos + ClusterSecs
    BY DEF Within
  <2>7. Within(u)
    BY <1>1, <1>2, <1>7, <1>8, <1>11, <2>2, <2>4, <2>5 DEF Within
  <2> QED BY <1>7, <1>8, <2>4, <2>7 DEF u
<1>12. CASE ~(g.f.pos - g.f.cpos >= ClusterSecs /\ g.left > 0)
  <2>1. u = g
    BY <1>10, <1>12
  <2>2. Within(g)
    BY <1>1, <1>2, <1>7, <1>8, <1>12 DEF Within
  <2> QED BY <1>7, <1>8, <1>9, <2>1, <2>2 DEF u
<1> QED BY <1>11, <1>12

\* The fields of a transfer.
LEMMA OpenFields ==
  ASSUME NEW t \in TransferType
  PROVE  /\ t.f \in OpenType /\ t.left \in Nat /\ t.vol \in VolType
         /\ t.f.pos \in Nat /\ t.f.pos <= MaxSecs /\ t.f.size \in Nat /\ t.f.size <= MaxSecs
         /\ t.f.cpos \in Nat /\ t.f.first \in {0} \cup Clusters /\ t.f.cur \in {0} \cup Clusters
<1>1. t.f \in OpenType /\ t.left \in Nat /\ t.vol \in VolType
  BY DEF TransferType
<1>2. t.f.pos \in 0..MaxSecs /\ t.f.size \in 0..MaxSecs
  BY <1>1 DEF OpenType
<1>3. t.f.cpos \in Nat
  <2>1. PICK q \in 0..(MaxSecs \div ClusterSecs) : t.f.cpos = q * ClusterSecs
    BY <1>1 DEF OpenType
  <2>2. MaxSecs \div ClusterSecs \in Nat
    BY InputAssumption, DivSecs
  <2>3. q \in Nat
    BY <2>2
  <2> QED BY <2>1, <2>3, Table
<1>4. t.f.first \in {0} \cup Clusters /\ t.f.cur \in {0} \cup Clusters
  BY <1>1 DEF OpenType
<1> QED BY <1>1, <1>2, <1>3, <1>4, InputAssumption

\* The chain of no cluster.
LEMMA NoChain ==
  ASSUME NEW T \in TableType
  PROVE  /\ ClustersOf(T, 0) = {} /\ Rooted(T, 0)
         /\ \A k \in 0..MaxCluster : Chain(T, 0)[k] = 0
         /\ \A size \in Nat : Long(T, 0, size) <=> size = 0
<1>1. 0 \in Link /\ 0 \notin Clusters /\ 0 \in 0..MaxCluster /\ \A k \in 0..MaxCluster : 0 <= k
  BY Table, FirstLink
<1>2. \A k \in 0..MaxCluster : Chain(T, 0)[k] = 0
  BY <1>1, ChainSteps, ChainStays
<1>3. ClustersOf(T, 0) = {}
  <2>1. ClustersOf(T, 0) = {Chain(T, 0)[k] : k \in 0..MaxCluster} \cap Clusters
    BY DEF ClustersOf
  <2> QED BY <1>1, <1>2, <2>1
<1>4. ASSUME NEW size \in Nat PROVE Long(T, 0, size) <=> size = 0
  <2>1. Long(T, 0, size) <=> \A k \in 0..MaxCluster : ~(k * ClusterSecs < size)
    BY <1>1, <1>2 DEF Long
  <2>2. 0 * ClusterSecs = 0 /\ \A k \in 0..MaxCluster : k * ClusterSecs \in Nat
    BY Table
  <2> QED BY <1>1, <2>1, <2>2
<1> QED BY <1>1, <1>2, <1>3, <1>4 DEF Rooted

\* Rewind takes the cursor to the first cluster, in front of the position.
LEMMA RewindMoves ==
  ASSUME NEW f, NEW v, NEW t, Moving(t, f, v)
  PROVE  LET u == Rewind(t)
         IN  /\ Moving(u, f, v) /\ u.f.cpos <= u.f.pos
             /\ u.f.first = t.f.first /\ u.f.size = t.f.size /\ u.f.pos = t.f.pos
             /\ u.data = t.data /\ u.read = t.read /\ u.left = t.left
             /\ u.stop = t.stop /\ u.vol = t.vol /\ u.f.dirty = t.f.dirty
<1> DEFINE u == Rewind(t)
<1>1. /\ t \in TransferType /\ t.f \in OpenType
      /\ t.f.pos \in Nat /\ t.f.cpos \in Nat /\ t.f.first \in {0} \cup Clusters
  BY OpenFields DEF Moving
<1>2. CASE t.f.pos < t.f.cpos
  <2>1. u = [t EXCEPT !.f.cur = t.f.first, !.f.cpos = 0]
    BY <1>2 DEF Rewind
  <2>2. 0 \in {k * ClusterSecs : k \in 0..(MaxSecs \div ClusterSecs)} /\ 0 = 0 * ClusterSecs
    <3>1. 0 \in 0..(MaxSecs \div ClusterSecs)
      BY InputAssumption, DivSecs
    <3> QED BY <3>1, Table
  <2> HIDE DEF u
  <2>3. u \in TransferType
    BY <1>1, <2>1, <2>2 DEF TransferType, OpenType
  <2>4. /\ u.vol = t.vol /\ u.f = [t.f EXCEPT !.cur = t.f.first, !.cpos = 0]
        /\ u.data = t.data /\ u.read = t.read /\ u.left = t.left /\ u.stop = t.stop
    BY <1>1, <2>1 DEF TransferType
  <2>5. /\ u.f.cur = t.f.first /\ u.f.cpos = 0 /\ u.f.place = t.f.place
        /\ u.f.mode = t.f.mode /\ u.f.dirty = t.f.dirty /\ u.f.first = t.f.first
        /\ u.f.pos = t.f.pos /\ u.f.size = t.f.size
    BY <1>1, <2>4 DEF OpenType
  <2>6. Placed(u.vol.fat, u.f)
    <3>1. t.vol.fat \in TableType /\ t.f.first \in Link /\ 0 \in 0..MaxCluster
      <4>1. t.vol.fat \in TableType
        BY <1>1 DEF TransferType, VolType
      <4>2. t.f.first \in Link
        BY <1>1, FirstLink
      <4> QED BY <4>1, <4>2, Table
    <3>2. Chain(t.vol.fat, t.f.first)[0] = t.f.first
      BY <3>1, ChainSteps
    <3> QED BY <2>2, <2>4, <2>5, <3>1, <3>2 DEF Placed, Moving
  <2>7. Moving(u, f, v)
    BY <2>3, <2>4, <2>5, <2>6 DEF Moving
  <2> QED BY <1>1, <2>4, <2>5, <2>7 DEF u
<1>3. CASE ~(t.f.pos < t.f.cpos)
  BY <1>1, <1>3 DEF Rewind
<1> QED BY <1>2, <1>3

\* WithFirst gives the file its first cluster, or stops on a full disk.
LEMMA FirstMoves ==
  ASSUME NEW f, NEW v, NEW t, Moving(t, f, v), ~t.stop
  PROVE  LET u == WithFirst(t)
         IN  /\ Moving(u, f, v) /\ (u.stop \/ u.f.first # 0)
             /\ u.f.size = t.f.size /\ u.f.pos = t.f.pos
             /\ u.data = t.data /\ u.read = t.read /\ u.left = t.left
             /\ t.f.first # 0 => u = t
<1> DEFINE u == WithFirst(t)
           new == fat_alloc(t.vol, 0)
           T == t.vol.fat
<1>1. /\ t \in TransferType /\ t.f \in OpenType /\ t.f.first \in {0} \cup Clusters /\ t.f.size \in Nat
      /\ Good(t.vol) /\ Grown(t.vol, v) /\ Placed(T, t.f) /\ T \in TableType /\ Linked(T)
  BY OpenFields DEF Moving, Good, VolType
<1>2. CASE t.f.first # 0
  BY <1>2 DEF WithFirst
<1>3. CASE t.f.first = 0
  <2>1. /\ Good(new.vol) /\ Grown(new.vol, t.vol)
        /\ \/ new.cl = 0 /\ new.vol.fat = T /\ \A c \in Clusters : T[c] # 0
           \/ /\ new.cl \in Clusters /\ T[new.cl] = 0
              /\ new.vol.fat[new.cl] = CLUS_EOC
              /\ \A k \in Clusters : k \notin {new.cl, 0} => new.vol.fat[k] = T[k]
    <3>1. 0 \in {0} \cup Clusters
      OBVIOUS
    <3> QED BY <1>1, <3>1, AllocGood
  <2>2. u = IF new.cl = 0 THEN [t EXCEPT !.vol = new.vol, !.stop = TRUE]
            ELSE [t EXCEPT !.vol = new.vol, !.f.first = new.cl, !.f.cur = new.cl,
                           !.f.cpos = 0, !.f.dirty = TRUE]
    BY <1>3 DEF WithFirst
  <2> HIDE DEF u, new
  <2>3. new.vol \in VolType /\ Grown(new.vol, v)
    BY <1>1, <2>1, GrownTrans DEF Good
  <2>4. f.first = 0
    BY <1>3 DEF Moving
  <2>5. CASE new.cl = 0
    <3>1. u = [t EXCEPT !.vol = new.vol, !.stop = TRUE]
      BY <2>2, <2>5
    <3>2. u \in TransferType
      BY <1>1, <2>3, <3>1 DEF TransferType
    <3>3. /\ u.vol = new.vol /\ u.f = t.f
          /\ u.data = t.data /\ u.read = t.read /\ u.left = t.left /\ u.stop = TRUE
      BY <1>1, <3>1 DEF TransferType
    <3>4. u.vol.fat = T /\ Full(T)
      BY <2>1, <2>5, <3>3, Table DEF Full
    <3>5. Moving(u, f, v)
      BY <2>1, <2>3, <3>2, <3>3, <3>4 DEF Moving
    <3> QED BY <1>3, <3>3, <3>5 DEF u
  <2>6. CASE new.cl # 0
    <3> DEFINE U == new.vol.fat
               cl == new.cl
    <3>1. u = [t EXCEPT !.vol = new.vol, !.f.first = new.cl, !.f.cur = new.cl,
                           !.f.cpos = 0, !.f.dirty = TRUE]
      BY <2>2, <2>6
    <3>2. /\ cl \in Clusters /\ T[cl] = 0 /\ U[cl] = CLUS_EOC
          /\ \A k \in Clusters : k # cl => U[k] = T[k]
      BY <2>1, <2>6, Table
    <3>3. 0 \in {k * ClusterSecs : k \in 0..(MaxSecs \div ClusterSecs)} /\ 0 = 0 * ClusterSecs
      <4>1. 0 \in 0..(MaxSecs \div ClusterSecs)
        BY InputAssumption, DivSecs
      <4> QED BY <4>1, Table
    <3>4. u \in TransferType
      BY <1>1, <2>3, <3>1, <3>2, <3>3 DEF TransferType, OpenType
    <3>5. /\ u.vol = new.vol
          /\ u.f = [t.f EXCEPT !.first = cl, !.cur = cl, !.cpos = 0, !.dirty = TRUE]
          /\ u.data = t.data /\ u.read = t.read /\ u.left = t.left /\ u.stop = t.stop
      BY <1>1, <3>1 DEF TransferType
    <3>6. /\ u.f.cur = cl /\ u.f.cpos = 0 /\ u.f.place = t.f.place
          /\ u.f.mode = t.f.mode /\ u.f.dirty /\ u.f.first = cl
          /\ u.f.pos = t.f.pos /\ u.f.size = t.f.size
      BY <1>1, <3>5 DEF OpenType
    <3>7. U \in TableType /\ Linked(U)
      BY <2>1, <2>3 DEF Good, VolType
    <3>8. u.vol.fat = U
      BY <3>5
    <3> HIDE DEF U, cl
    <3>9. Rooted(U, cl)
      BY <1>1, <3>2, Table DEF Rooted, Linked
    <3>10. t.f.size = 0
      BY <1>1, <1>3, NoChain DEF Placed
    <3>11. Long(U, cl, 0)
      <4>1. \A k \in 0..MaxCluster : k * ClusterSecs \in Nat
        BY Table
      <4> QED BY <4>1 DEF Long
    <3>12. cl \in Link /\ 0 \in 0..MaxCluster
      BY <3>2, Table, FirstLink
    <3>13. Chain(U, cl)[0] = cl
      BY <3>7, <3>12, ChainSteps
    <3>14. Placed(U, u.f)
      BY <3>2, <3>3, <3>6, <3>9, <3>10, <3>11, <3>12, <3>13, Table DEF Placed
    <3>15. cl \in ClustersOf(U, cl)
      BY <3>2, <3>12, <3>13 DEF ClustersOf
    <3>16. \A c \in Clusters : U[c] # 0 => v.fat[c] # 0 \/ c \in ClustersOf(U, cl)
      <4>1. \A c \in Clusters : T[c] # 0 => v.fat[c] # 0
        BY <1>1, <1>3, NoChain DEF Moving
      <4> QED BY <3>2, <3>15, <4>1
    <3>17. v.fat[cl] = 0
      BY <1>1, <3>2 DEF Grown, Grows, Extends
    <3>18. Moving(u, f, v)
      BY <2>1, <2>3, <2>4, <3>4, <3>5, <3>6, <3>8, <3>14, <3>16, <3>17 DEF Moving
    <3> QED BY <1>3, <3>2, <3>5, <3>6, <3>18, Table DEF u
  <2> QED BY <2>5, <2>6
<1> QED BY <1>2, <1>3

\* The function that Forward computes, and a step of it.
Forwarding(t, grow) ==
  LET after[k \in 0..(MaxSecs \div ClusterSecs)] ==
        IF k = 0 THEN t
        ELSE LET u == after[k - 1]
             IN  IF u.stop \/ u.f.cpos + ClusterSecs > u.f.pos THEN u
                 ELSE NextCluster(u, grow)
  IN  after

ForwardOne(u, grow) ==
  IF u.stop \/ u.f.cpos + ClusterSecs > u.f.pos THEN u ELSE NextCluster(u, grow)

\* The transfers on the way from t to the cluster of its position.
OnTheWay(t, f, v, grow) ==
  {u \in TransferType :
     /\ Moving(u, f, v) /\ u.f.cpos <= u.f.pos
     /\ u.f.first = t.f.first /\ u.f.size = t.f.size /\ u.f.pos = t.f.pos
     /\ u.data = t.data /\ u.read = t.read /\ u.left = t.left
     /\ ~grow => ~u.stop /\ u.vol.fat = t.vol.fat /\ u.f.dirty = t.f.dirty}

\* A step of Forward is on the way, and comes one cluster nearer or is the last.
LEMMA ForwardOneOnTheWay ==
  ASSUME NEW f, NEW v, NEW t, t.f.first # 0, NEW grow \in BOOLEAN, grow \/ t.f.pos < t.f.size,
         NEW u \in OnTheWay(t, f, v, grow)
  PROVE  LET w == ForwardOne(u, grow)
         IN  /\ w \in OnTheWay(t, f, v, grow)
             /\ u.stop \/ u.f.pos < u.f.cpos + ClusterSecs => w = u
             /\ ~(u.stop \/ u.f.pos < u.f.cpos + ClusterSecs) =>
                  w.stop \/ w.f.cpos = u.f.cpos + ClusterSecs
<1> DEFINE w == ForwardOne(u, grow)
<1>1. u \in TransferType /\ Moving(u, f, v)
  BY DEF OnTheWay
<1>2. u.f.pos \in Nat /\ u.f.cpos \in Nat /\ ClusterSecs \in Nat
  BY <1>1, OpenFields, Table
<1>3. CASE u.stop \/ u.f.pos < u.f.cpos + ClusterSecs
  BY <1>2, <1>3 DEF ForwardOne
<1>4. CASE ~(u.stop \/ u.f.pos < u.f.cpos + ClusterSecs)
  <2>1. ~u.stop /\ u.f.cpos + ClusterSecs <= u.f.pos
    BY <1>2, <1>4
  <2>2. w = NextCluster(u, grow)
    BY <1>2, <2>1 DEF ForwardOne
  <2>3. u.f.first # 0 /\ (grow \/ u.f.pos < u.f.size)
    BY DEF OnTheWay
  <2> HIDE DEF w
  <2>4. /\ Moving(w, f, v)
        /\ w.f.first = u.f.first /\ w.f.size = u.f.size /\ w.f.pos = u.f.pos
        /\ w.data = u.data /\ w.read = u.read /\ w.left = u.left
        /\ w.f.cpos = IF w.stop THEN u.f.cpos ELSE u.f.cpos + ClusterSecs
        /\ ~grow => ~w.stop /\ w.vol.fat = u.vol.fat /\ w.f.dirty = u.f.dirty
    BY <1>1, <2>1, <2>2, <2>3, NextMoves
  <2>5. w.f.cpos <= w.f.pos
    BY <1>2, <2>1, <2>4
  <2>6. w \in TransferType
    BY <2>4 DEF Moving
  <2>7. w \in OnTheWay(t, f, v, grow)
    BY <2>4, <2>5, <2>6 DEF OnTheWay
  <2> QED BY <1>4, <2>4, <2>7 DEF w
<1> QED BY <1>3, <1>4

\* Forward is the list of its steps, all on the way.
LEMMA ForwardingSteps ==
  ASSUME NEW f, NEW v, NEW t, t.f.first # 0, NEW grow \in BOOLEAN, grow \/ t.f.pos < t.f.size,
         t \in OnTheWay(t, f, v, grow)
  PROVE  LET F == Forwarding(t, grow)
             N == MaxSecs \div ClusterSecs
         IN  /\ F[0] = t /\ \A k \in 0..N : F[k] \in OnTheWay(t, f, v, grow)
             /\ \A k \in 1..N : F[k] = ForwardOne(F[k - 1], grow)
<1>1. PICK N \in Nat : N = MaxSecs \div ClusterSecs
  BY InputAssumption, DivSecs
<1> DEFINE R == OnTheWay(t, f, v, grow)
           g == [k \in 1..N |-> [s \in R |-> ForwardOne(s, grow)]]
           F == Forwarding(t, grow)
<1>2. t \in R
  OBVIOUS
<1>3. g \in [1..N -> [R -> R]]
  BY ForwardOneOnTheWay
<1>4. F = CHOOSE u : u = [k \in 0..N |-> IF k = 0 THEN t ELSE ForwardOne(u[k - 1], grow)]
  BY <1>1 DEF Forwarding, ForwardOne
<1> HIDE DEF R, g, F
<1>5. PICK h \in [0..N -> R] : Lists(h, t, g, N)
  BY <1>2, <1>3, RepeatedSteps, Zenon
<1>6. \A k \in 0..N : k = 0 \/ (k \in 1..N /\ k - 1 \in 0..N)
  OBVIOUS
<1>7. h[0] = t /\ \A k \in 1..N : h[k] = ForwardOne(h[k - 1], grow)
  <2>1. ASSUME NEW k \in 1..N PROVE h[k] = ForwardOne(h[k - 1], grow)
    <3>1. k - 1 \in 0..N
      OBVIOUS
    <3>2. h[k - 1] \in R
      BY <1>5, <3>1
    <3>3. h[k] = g[k][h[k - 1]]
      BY <1>5 DEF Lists
    <3> QED BY <3>2, <3>3 DEF g
  <2> QED BY <1>5, <2>1 DEF Lists
<1>8. h = [k \in 0..N |-> IF k = 0 THEN t ELSE ForwardOne(h[k - 1], grow)]
  BY <1>5, <1>6, <1>7
<1>9. F = [k \in 0..N |-> IF k = 0 THEN t ELSE ForwardOne(F[k - 1], grow)]
  BY <1>4, <1>8
<1>10. 0 \in 0..N /\ \A k \in 1..N : k \in 0..N /\ k # 0
  OBVIOUS
<1>11. F[0] = t /\ \A k \in 1..N : F[k] = ForwardOne(F[k - 1], grow)
  BY <1>9, <1>10
<1>12. \A k \in 0..N : F[k] \in R
  <2> DEFINE K == {k \in 0..N : F[k] \in R}
  <2>1. 0 \in K
    BY <1>2, <1>10, <1>11
  <2>2. \A k \in 1..N : k - 1 \in K => k \in K
    <3> SUFFICES ASSUME NEW k \in 1..N, F[k - 1] \in R PROVE F[k] \in R
      BY <1>10
    <3>1. F[k] = ForwardOne(F[k - 1], grow)
      BY <1>11
    <3> QED BY <3>1, ForwardOneOnTheWay DEF R
  <2> HIDE DEF K
  <2>3. \A k \in 0..N : k \in K
    BY <2>1, <2>2, Upwards
  <2> QED BY <2>3 DEF K
<1> QED BY <1>1, <1>11, <1>12 DEF R, F

\* Forward takes the cursor to the cluster of the position, or stops.
LEMMA ForwardMoves ==
  ASSUME NEW f, NEW v, NEW t, Moving(t, f, v), ~t.stop, t.f.first # 0, t.f.cpos <= t.f.pos,
         NEW grow \in BOOLEAN, grow \/ t.f.pos < t.f.size
  PROVE  LET u == Forward(t, grow)
         IN  u \in OnTheWay(t, f, v, grow) /\ Within(u)
<1> DEFINE N == MaxSecs \div ClusterSecs
           F == Forwarding(t, grow)
           R == OnTheWay(t, f, v, grow)
<1>1. N \in Nat /\ MaxSecs < N * ClusterSecs + ClusterSecs /\ MaxSecs \in Nat
  BY InputAssumption, DivSecs
<1>2. t \in R
  BY DEF OnTheWay, Moving
<1>3. /\ F[0] = t /\ \A k \in 0..N : F[k] \in R
      /\ \A k \in 1..N : F[k] = ForwardOne(F[k - 1], grow)
  BY <1>2, ForwardingSteps
<1>4. Forward(t, grow) = F[N]
  BY DEF Forward, Forwarding
<1> HIDE DEF N, F, R
<1>5. ClusterSecs \in Nat
  BY Table
<1>6. \A k \in 0..N : F[k].f.pos \in Nat /\ F[k].f.pos <= MaxSecs /\ F[k].f.cpos \in Nat
  <2> TAKE k \in 0..N
  <2>1. F[k] \in TransferType
    BY <1>3 DEF R, OnTheWay
  <2> QED BY <2>1, OpenFields
<1>7. \A k \in 0..N : \/ F[k].stop \/ F[k].f.pos < F[k].f.cpos + ClusterSecs
                      \/ k * ClusterSecs <= F[k].f.cpos
  <2> DEFINE K == {k \in 0..N : \/ F[k].stop \/ F[k].f.pos < F[k].f.cpos + ClusterSecs
                                \/ k * ClusterSecs <= F[k].f.cpos}
  <2>1. 0 \in K
    BY <1>1, <1>5, <1>6
  <2>2. ASSUME NEW k \in 1..N, k - 1 \in K PROVE k \in K
    <3>1. k \in 0..N /\ k - 1 \in 0..N /\ k \in Nat /\ k - 1 \in Nat
      BY <1>1
    <3> DEFINE u == F[k - 1]
    <3>2. u \in R /\ F[k] = ForwardOne(u, grow)
      BY <1>3, <3>1
    <3>3. /\ u.stop \/ u.f.pos < u.f.cpos + ClusterSecs => F[k] = u
          /\ ~(u.stop \/ u.f.pos < u.f.cpos + ClusterSecs) =>
                  F[k].stop \/ F[k].f.cpos = u.f.cpos + ClusterSecs
      <4> HIDE DEF u
      <4> QED BY <3>2, ForwardOneOnTheWay DEF R
    <3>4. CASE u.stop \/ u.f.pos < u.f.cpos + ClusterSecs
      BY <3>1, <3>3, <3>4
    <3>5. CASE ~(u.stop \/ u.f.pos < u.f.cpos + ClusterSecs)
      <4>1. (k - 1) * ClusterSecs <= u.f.cpos
        BY <2>2, <3>5
      <4>2. k * ClusterSecs = (k - 1) * ClusterSecs + ClusterSecs
            /\ (k - 1) * ClusterSecs \in Int
        BY <1>5, <3>1, Z3
      <4>3. F[k].stop \/ k * ClusterSecs <= F[k].f.cpos
        <5>1. u.f.cpos \in Nat
          BY <1>6, <3>1
        <5>2. F[k].stop \/ F[k].f.cpos = u.f.cpos + ClusterSecs
          BY <3>3, <3>5
        <5> HIDE DEF u
        <5> QED BY <1>5, <4>1, <4>2, <5>1, <5>2
      <4> QED BY <3>1, <4>3
    <3> QED BY <3>4, <3>5
  <2> HIDE DEF K
  <2>3. \A k \in 0..N : k \in K
    BY <1>1, <2>1, <2>2, Upwards
  <2> QED BY <2>3 DEF K
<1>8. N \in 0..N /\ N * ClusterSecs \in Nat
  BY <1>1, <1>5
<1>9. F[N].stop \/ F[N].f.pos < F[N].f.cpos + ClusterSecs
  BY <1>1, <1>5, <1>6, <1>7, <1>8
<1>10. F[N] \in R
  BY <1>3, <1>8
<1> QED BY <1>4, <1>9, <1>10 DEF R, OnTheWay, Within

\* The cluster and the sector that the position is at.
LEMMA AtPosition ==
  ASSUME NEW T \in TableType, NEW f \in OpenType, Placed(T, f), f.first # 0,
         f.cpos <= f.pos, f.pos < f.cpos + ClusterSecs
  PROVE  /\ f.pos \div ClusterSecs \in 0..MaxCluster
         /\ f.cur = Chain(T, f.first)[f.pos \div ClusterSecs] /\ f.cur \in Clusters
         /\ f.pos % ClusterSecs = f.pos - f.cpos /\ f.pos - f.cpos \in Sector
<1>1. PICK q \in 0..MaxCluster : f.cpos = q * ClusterSecs /\ f.cur = Chain(T, f.first)[q]
  BY DEF Placed
<1>2. f.pos \in Nat /\ q \in Nat /\ ClusterSecs \in Nat /\ ClusterSecs > 0 /\ f.cpos \in Nat
  <2>1. f.pos \in 0..MaxSecs /\ MaxSecs \in Nat
    BY InputAssumption DEF OpenType
  <2>2. q \in Nat /\ ClusterSecs \in Nat /\ ClusterSecs > 0
    BY Table
  <2>3. q * ClusterSecs \in Nat
    BY <2>2
  <2> QED BY <1>1, <2>1, <2>2, <2>3
<1>3. f.pos \div ClusterSecs = q
  BY <1>1, <1>2, DivUnique
<1>4. f.pos % ClusterSecs = f.pos - f.cpos
  <2>1. f.pos % ClusterSecs = f.pos - (f.pos \div ClusterSecs) * ClusterSecs
    <3>1. ASSUME NEW p \in Nat, NEW c \in Nat, c > 0 PROVE p % c = p - (p \div c) * c
      BY <3>1, Z3
    <3> QED BY <1>2, <3>1
  <2> QED BY <1>1, <1>3, <2>1
<1>5. f.cur \in Clusters
  BY DEF Placed, OpenType
<1>6. f.pos - f.cpos \in Sector
  BY <1>2 DEF Sector
<1> QED BY <1>1, <1>3, <1>4, <1>5, <1>6

\* The chain up to the cluster of the position is long enough for a size of
\* one sector more than the position.
LEMMA LongToPosition ==
  ASSUME NEW T \in TableType, NEW f \in OpenType, Placed(T, f), f.first # 0,
         f.cpos <= f.pos, f.pos < f.cpos + ClusterSecs
  PROVE  Long(T, f.first, f.pos + 1)
<1>1. PICK q \in 0..MaxCluster : f.cpos = q * ClusterSecs /\ f.cur = Chain(T, f.first)[q]
  BY DEF Placed
<1>2. f.pos \in Nat /\ q \in Nat /\ ClusterSecs \in Nat /\ ClusterSecs > 0
  BY InputAssumption, Table DEF OpenType
<1>3. f.cur \in Clusters /\ f.first \in Link
  BY AtPosition, FirstLink DEF OpenType
<1>4. ASSUME NEW k \in 0..MaxCluster, k * ClusterSecs < f.pos + 1
      PROVE  Chain(T, f.first)[k] \in Clusters
  <2>1. k \in Nat /\ k * ClusterSecs \in Nat /\ q * ClusterSecs \in Nat
    BY <1>2, Table
  <2>2. (q + 1) * ClusterSecs = q * ClusterSecs + ClusterSecs
    BY <1>2, Z3
  <2>3. k * ClusterSecs < (q + 1) * ClusterSecs
    BY <1>1, <1>2, <1>4, <2>1, <2>2
  <2>4. k < q + 1
    BY <1>2, <2>1, <2>3, Z3
  <2>5. k <= q
    BY <1>2, <2>1, <2>4
  <2> QED BY <1>1, <1>3, <2>5, ChainPrefix
<1> QED BY <1>4 DEF Long

\* PutSector writes one sector of the file, which grows when it was at its end.
LEMMA PutMoves ==
  ASSUME NEW f, NEW v, NEW t, Moving(t, f, v), ~t.stop, t.left > 0, Within(t), NEW x \in Vals
  PROVE  LET u == PutSector(t, x)
         IN  /\ Moving(u, f, v) /\ Within(u)
             /\ u.f.first = t.f.first /\ u.f.pos = t.f.pos + 1 /\ u.left = t.left - 1
             /\ u.f.dirty /\ Extends(u.vol.fat, t.vol.fat)
             /\ u.f.size = IF t.f.pos < t.f.size THEN t.f.size ELSE t.f.pos + 1
             /\ u.data = [t.data EXCEPT ![t.f.cur][t.f.pos - t.f.cpos] = x]
<1> DEFINE c == t.f.cur
           j == t.f.pos - t.f.cpos
           n == IF t.f.pos < t.f.size THEN t.f.size ELSE t.f.pos + 1
           w == [t EXCEPT !.data[c][j] = x, !.f.size = n, !.f.dirty = TRUE]
           u == PutSector(t, x)
<1>1. /\ t \in TransferType /\ t.f \in OpenType /\ t.left \in Nat /\ t.vol.fat \in TableType
      /\ t.f.pos \in Nat /\ t.f.size \in Nat /\ t.f.size <= MaxSecs /\ MaxSecs \in Nat
      /\ Placed(t.vol.fat, t.f) /\ t.f.pos + t.left <= MaxSecs
      /\ t.f.first # 0 /\ t.f.cpos <= t.f.pos /\ t.f.pos < t.f.cpos + ClusterSecs
      /\ t.f.first \in {0} \cup Clusters
  BY OpenFields, InputAssumption DEF Moving, Within, VolType
<1>2. c \in Entry /\ j \in Sector
  BY <1>1, AtPosition, Table
<1>3. n \in 0..MaxSecs
  BY <1>1
<1>4. u = Moved(w, TRUE)
  BY DEF PutSector
<1>5. PICK g : g = w
  OBVIOUS
<1>6. PICK h : h = [t.data EXCEPT ![c][j] = x]
  OBVIOUS
<1> HIDE DEF n, c, j, u
<1>7. h \in DataType
  BY <1>1, <1>2, <1>6 DEF TransferType, DataType
<1>8. g = [t EXCEPT !.data = h, !.f.size = n, !.f.dirty = TRUE]
  BY <1>1, <1>5, <1>6 DEF TransferType
<1> HIDE DEF w
<1>9. g \in TransferType
  BY <1>1, <1>3, <1>7, <1>8 DEF TransferType, OpenType
<1>10. /\ g.vol = t.vol /\ g.f = [t.f EXCEPT !.size = n, !.dirty = TRUE]
       /\ g.read = t.read /\ g.left = t.left /\ g.stop = t.stop
  BY <1>1, <1>8 DEF TransferType
<1>11. /\ g.f.cur = t.f.cur /\ g.f.cpos = t.f.cpos /\ g.f.place = t.f.place
       /\ g.f.mode = t.f.mode /\ g.f.dirty = TRUE /\ g.f.first = t.f.first
       /\ g.f.pos = t.f.pos /\ g.f.size = n
  BY <1>1, <1>10 DEF OpenType
<1>12. Long(t.vol.fat, t.f.first, n)
  <2>1. Long(t.vol.fat, t.f.first, t.f.pos + 1)
    BY <1>1, LongToPosition
  <2>2. Long(t.vol.fat, t.f.first, t.f.size)
    BY <1>1 DEF Placed
  <2> QED BY <2>1, <2>2 DEF n
<1>13. Placed(g.vol.fat, g.f)
  BY <1>1, <1>10, <1>11, <1>12 DEF Placed
<1>14. Moving(g, f, v)
  <2>1. g.f.dirty /\ g.f.first = t.f.first /\ g.f.pos + g.left <= MaxSecs /\ g.vol.fat = t.vol.fat
    BY <1>1, <1>10, <1>11
  <2> QED BY <1>9, <1>10, <1>11, <1>13, <2>1 DEF Moving
<1>15. Within(g) /\ ~g.stop /\ g.left > 0
  BY <1>1, <1>10, <1>11 DEF Within
<1>16. u = Moved(g, TRUE)
  BY <1>4, <1>5
<1>17. /\ Moving(u, f, v) /\ Within(u)
       /\ u.f.first = g.f.first /\ u.f.pos = g.f.pos + 1 /\ u.left = g.left - 1
       /\ u.f.size = g.f.size /\ u.data = g.data /\ Moving(u, g.f, g.vol)
  <2>1. PICK grow \in BOOLEAN : grow = TRUE
    OBVIOUS
  <2>2. u = Moved(g, grow)
    BY <1>16, <2>1
  <2>3. grow
    BY <2>1
  <2>4. grow \/ g.f.pos + g.left <= g.f.size
    BY <2>3
  <2>5. /\ Moving(Moved(g, grow), f, v) /\ Within(Moved(g, grow))
        /\ Moved(g, grow).f.first = g.f.first /\ Moved(g, grow).f.pos = g.f.pos + 1
        /\ Moved(g, grow).left = g.left - 1
        /\ Moved(g, grow).f.size = g.f.size /\ Moved(g, grow).data = g.data
    <3>1. g.f.pos \in Int /\ g.left \in Int
      BY <1>1, <1>10, <1>11
    <3> QED BY <1>14, <1>15, <2>4, <3>1, MovedMoves
  <2>6. Moving(Moved(g, grow), g.f, g.vol)
    <3>1. Moving(g, g.f, g.vol)
      BY <1>14, GrownSelf DEF Moving
    <3>2. PICK e, y : e = g.f /\ y = g.vol
      OBVIOUS
    <3>3. Moving(g, e, y)
      BY <3>1, <3>2
    <3>4. Moving(Moved(g, grow), e, y)
      BY <1>15, <2>4, <3>3, MovedMoves
    <3> QED BY <3>2, <3>4
  <2> QED BY <2>2, <2>5, <2>6
<1>18. u.f.dirty /\ Extends(u.vol.fat, t.vol.fat)
  BY <1>10, <1>11, <1>17 DEF Moving, Grown, Grows
<1>19. u.f.size = n /\ u.data = h
  BY <1>8, <1>11, <1>17 DEF TransferType
<1> QED BY <1>6, <1>10, <1>11, <1>17, <1>18, <1>19 DEF u, n, c, j

\* The same, but for the data, of the transfer after the step.
LEMMA PutStep ==
  ASSUME NEW f, NEW v, NEW t, Moving(t, f, v), ~t.stop, t.left > 0, Within(t), NEW x \in Vals,
         NEW u, u = PutSector(t, x)
  PROVE  /\ Moving(u, f, v) /\ Within(u)
         /\ u.f.first = t.f.first /\ u.f.pos = t.f.pos + 1 /\ u.left = t.left - 1
         /\ u.f.dirty /\ Extends(u.vol.fat, t.vol.fat)
         /\ u.f.size = IF t.f.pos < t.f.size THEN t.f.size ELSE t.f.pos + 1
<1>1. /\ Moving(u, f, v) /\ Within(u)
      /\ u.f.first = t.f.first /\ u.f.pos = t.f.pos + 1 /\ u.left = t.left - 1
      /\ u.f.dirty /\ Extends(u.vol.fat, t.vol.fat)
      /\ u.f.size = IF t.f.pos < t.f.size THEN t.f.size ELSE t.f.pos + 1
      /\ u.data = [t.data EXCEPT ![t.f.cur][t.f.pos - t.f.cpos] = x]
  BY PutMoves
<1> QED BY <1>1

\* The function that file_do_write computes, its start and a step of it.
WriteBase(s, n) ==
  LET t == WithFirst(Start(s, n)) IN IF t.stop THEN t ELSE Forward(Rewind(t), TRUE)
WriteOne(u, x) == IF u.stop \/ u.left = 0 THEN u ELSE PutSector(u, x)
Writing(s, x, n) ==
  LET after[k \in 0..n] ==
        IF k = 0 THEN WriteBase(s, n) ELSE WriteOne(after[k - 1], x)
  IN  after

\* The transfers of a write of n sectors that began with the slot f on v.
OnWrite(f, v, n) ==
  {u \in TransferType :
     /\ Moving(u, f, v) /\ (u.stop \/ Within(u))
     /\ f.pos <= u.f.pos /\ u.f.pos + u.left = f.pos + n}

\* A transfer of an open file, before its first step.
LEMMA StartMoves ==
  ASSUME NEW s \in Slots, sft[s] \in OpenType, Good(vol), data \in DataType,
         Placed(vol.fat, sft[s]), NEW n \in Nat, sft[s].pos + n <= MaxSecs
  PROVE  /\ Moving(Start(s, n), sft[s], vol)
         /\ Start(s, n).f = sft[s] /\ Start(s, n).vol = vol /\ Start(s, n).data = data
         /\ Start(s, n).read = <<>> /\ Start(s, n).left = n /\ Start(s, n).stop = FALSE
<1>1. PICK t : t = Start(s, n)
  OBVIOUS
<1>2. /\ t.f = sft[s] /\ t.vol = vol /\ t.data = data
      /\ t.read = <<>> /\ t.left = n /\ t.stop = FALSE
  BY <1>1 DEF Start
<1>3. t \in TransferType
  <2>1. vol \in VolType
    BY DEF Good
  <2>2. <<>> \in Seq(Vals \cup {0})
    OBVIOUS
  <2> QED BY <1>1, <2>1, <2>2 DEF Start, TransferType
<1>4. Grown(vol, vol)
  BY GrownSelf
<1>5. Moving(t, sft[s], vol)
  BY <1>2, <1>3, <1>4 DEF Moving
<1> QED BY <1>1, <1>2, <1>5

\* The first part of a write: a first cluster, and the cursor at the position.
LEMMA WriteBaseOn ==
  ASSUME NEW s \in Slots, sft[s] \in OpenType, Good(vol), data \in DataType,
         Placed(vol.fat, sft[s]), NEW n \in Nat, sft[s].pos + n <= MaxSecs
  PROVE  LET t == WriteBase(s, n)
         IN  /\ t \in OnWrite(sft[s], vol, n)
             /\ t.data = data /\ t.f.size = sft[s].size /\ t.f.pos = sft[s].pos
<1>1. PICK t : t = Start(s, n)
  OBVIOUS
<1>2. Moving(t, sft[s], vol) /\ t.f = sft[s] /\ t.data = data /\ t.left = n /\ ~t.stop
  BY <1>1, StartMoves
<1>3. PICK u : u = WithFirst(t)
  OBVIOUS
<1>4. /\ Moving(u, sft[s], vol) /\ (u.stop \/ u.f.first # 0)
      /\ u.f.pos = t.f.pos /\ u.f.size = t.f.size /\ u.data = t.data /\ u.left = t.left
  BY <1>2, <1>3, FirstMoves
<1>5. WriteBase(s, n) = IF u.stop THEN u ELSE Forward(Rewind(u), TRUE)
  BY <1>1, <1>3 DEF WriteBase
<1>6. CASE u.stop
  <2>1. u \in TransferType /\ u.f.pos = sft[s].pos /\ u.left = n
    BY <1>2, <1>4 DEF Moving
  <2>2. sft[s].pos \in Nat
    BY <2>1, OpenFields
  <2> QED BY <1>2, <1>4, <1>5, <1>6, <2>1, <2>2 DEF OnWrite
<1>7. CASE ~u.stop
  <2>1. PICK w : w = Rewind(u)
    OBVIOUS
  <2>2. /\ Moving(w, sft[s], vol) /\ w.f.cpos <= w.f.pos
        /\ w.f.first = u.f.first /\ w.f.pos = u.f.pos /\ w.f.size = u.f.size
        /\ w.data = u.data /\ w.left = u.left /\ w.stop = u.stop
    BY <1>4, <2>1, RewindMoves
  <2>3. PICK grow \in BOOLEAN : grow = TRUE
    OBVIOUS
  <2>4. PICK x : x = Forward(w, grow)
    OBVIOUS
  <2>5. x = WriteBase(s, n)
    BY <1>5, <1>7, <2>1, <2>3, <2>4
  <2>6. grow \/ w.f.pos < w.f.size
    BY <2>3
  <2>7. x \in OnTheWay(w, sft[s], vol, grow) /\ Within(x)
    BY <1>4, <1>7, <2>2, <2>4, <2>6, ForwardMoves
  <2>8. /\ Moving(x, sft[s], vol) /\ x.f.pos = w.f.pos /\ x.left = w.left /\ x \in TransferType
        /\ x.data = w.data /\ x.f.size = w.f.size
    BY <2>7 DEF OnTheWay
  <2>9. x.f.pos = sft[s].pos /\ x.left = n /\ x.f.pos \in Nat
    BY <1>2, <1>4, <2>2, <2>8, OpenFields
  <2> QED BY <1>2, <1>4, <2>2, <2>5, <2>7, <2>8, <2>9 DEF OnWrite
<1> QED BY <1>6, <1>7

\* Each sector written is one less to go.
LEMMA WriteOneOn ==
  ASSUME NEW f, f.pos \in Nat, NEW v, NEW n \in Nat, NEW u \in OnWrite(f, v, n), NEW x \in Vals
  PROVE  LET w == WriteOne(u, x)
         IN  /\ w \in OnWrite(f, v, n)
             /\ u.stop \/ u.left = 0 => w = u
             /\ ~(u.stop \/ u.left = 0) => w.left = u.left - 1
<1> DEFINE w == WriteOne(u, x)
<1>1. u \in TransferType /\ Moving(u, f, v) /\ (u.stop \/ Within(u))
      /\ f.pos <= u.f.pos /\ u.f.pos + u.left = f.pos + n
  BY DEF OnWrite
<1>2. u.f.pos \in Nat /\ u.left \in Nat
  BY <1>1, OpenFields
<1>3. CASE u.stop \/ u.left = 0
  BY <1>3 DEF WriteOne
<1>4. CASE ~(u.stop \/ u.left = 0)
  <2>1. w = PutSector(u, x)
    BY <1>4 DEF WriteOne
  <2> HIDE DEF w
  <2>2. ~u.stop /\ u.left > 0 /\ Within(u)
    BY <1>1, <1>2, <1>4
  <2>3. /\ Moving(w, f, v) /\ Within(w)
        /\ w.f.pos = u.f.pos + 1 /\ w.left = u.left - 1
    BY <1>1, <2>1, <2>2, PutStep
  <2>4. w \in TransferType
    BY <2>3 DEF Moving
  <2>5. f.pos <= w.f.pos /\ w.f.pos + w.left = f.pos + n
    BY <1>1, <1>2, <2>3
  <2>6. w \in OnWrite(f, v, n)
    BY <2>3, <2>4, <2>5 DEF OnWrite
  <2> QED BY <1>4, <2>3, <2>6 DEF w
<1> QED BY <1>3, <1>4

\* A write is the list of its steps.
LEMMA WritingSteps ==
  ASSUME NEW s \in Slots, sft[s] \in OpenType, Good(vol), data \in DataType,
         Placed(vol.fat, sft[s]), NEW n \in Nat, sft[s].pos + n <= MaxSecs, NEW x \in Vals
  PROVE  LET F == Writing(s, x, n)
         IN  /\ F[0] = WriteBase(s, n) /\ \A k \in 0..n : F[k] \in OnWrite(sft[s], vol, n)
             /\ \A k \in 1..n : F[k] = WriteOne(F[k - 1], x)
<1>1. PICK a : a = WriteBase(s, n)
  OBVIOUS
<1>2. PICK R : R = OnWrite(sft[s], vol, n)
  OBVIOUS
<1> DEFINE g == [k \in 1..n |-> [u \in R |-> WriteOne(u, x)]]
           F == Writing(s, x, n)
<1>3. a \in R
  BY <1>1, <1>2, WriteBaseOn
<1>4. \A u \in R : WriteOne(u, x) \in R
  <2>1. sft[s].pos \in 0..MaxSecs
    BY DEF OpenType
  <2>2. sft[s].pos \in Nat
    BY <2>1, InputAssumption
  <2> QED BY <1>2, <2>2, WriteOneOn
<1>5. g \in [1..n -> [R -> R]]
  BY <1>4
<1>6. F = CHOOSE u : u = [k \in 0..n |-> IF k = 0 THEN a ELSE WriteOne(u[k - 1], x)]
  BY <1>1 DEF Writing
<1> HIDE DEF g, F
<1>7. PICK h \in [0..n -> R] : Lists(h, a, g, n)
  BY <1>3, <1>5, RepeatedSteps, Zenon
<1>8. \A k \in 0..n : k = 0 \/ (k \in 1..n /\ k - 1 \in 0..n)
  OBVIOUS
<1>9. h[0] = a /\ \A k \in 1..n : h[k] = WriteOne(h[k - 1], x)
  <2>1. ASSUME NEW k \in 1..n PROVE h[k] = WriteOne(h[k - 1], x)
    <3>1. h[k - 1] \in R
      BY <1>7, <1>8
    <3>2. h[k] = g[k][h[k - 1]]
      BY <1>7 DEF Lists
    <3> QED BY <3>1, <3>2 DEF g
  <2> QED BY <1>7, <2>1 DEF Lists
<1>10. h = [k \in 0..n |-> IF k = 0 THEN a ELSE WriteOne(h[k - 1], x)]
  BY <1>7, <1>8, <1>9
<1>11. F = [k \in 0..n |-> IF k = 0 THEN a ELSE WriteOne(F[k - 1], x)]
  BY <1>6, <1>10
<1>12. 0 \in 0..n /\ \A k \in 1..n : k \in 0..n /\ k # 0
  OBVIOUS
<1>13. F[0] = a /\ \A k \in 1..n : F[k] = WriteOne(F[k - 1], x)
  BY <1>11, <1>12
<1>14. \A k \in 0..n : F[k] \in R
  <2> DEFINE K == {k \in 0..n : F[k] \in R}
  <2>1. 0 \in K
    BY <1>3, <1>12, <1>13
  <2>2. \A k \in 1..n : k - 1 \in K => k \in K
    BY <1>4, <1>12, <1>13
  <2> HIDE DEF K
  <2>3. \A k \in 0..n : k \in K
    BY <2>1, <2>2, Upwards
  <2> QED BY <2>3 DEF K
<1> QED BY <1>1, <1>2, <1>13, <1>14 DEF F

\* What a transfer that began with the slot f on the volume v and the data A has
\* written: x at the positions it passed, in a file that is as long as the last.
Wrote(u, f, v, A, x) ==
  /\ u.f.size = IF u.f.pos = f.pos \/ u.f.pos < f.size THEN f.size ELSE u.f.pos
  /\ u.f.pos # f.pos => u.f.dirty
  /\ \A c \in Entry : c \notin ClustersOf(u.vol.fat, u.f.first) => u.data[c] = A[c]
  /\ \A m \in Nat : m < u.f.size =>
       /\ f.pos <= m /\ m < u.f.pos => SectorAt(u.vol.fat, u.data, u.f.first, m) = x
       /\ ~(f.pos <= m /\ m < u.f.pos) /\ m < f.size =>
            SectorAt(u.vol.fat, u.data, u.f.first, m) = SectorAt(v.fat, A, f.first, m)

\* A file that is longer by clusters has its sectors still.
LEMMA SectorExtends ==
  ASSUME NEW T \in TableType, Linked(T), NEW first \in {0} \cup Clusters, Rooted(T, first),
         NEW size \in Nat, Long(T, first, size), NEW m \in Nat, m < size,
         NEW U \in TableType, Extends(U, T), NEW A
  PROVE  SectorAt(U, A, first, m) = SectorAt(T, A, first, m)
<1>1. PICK q : q = m \div ClusterSecs
  OBVIOUS
<1>2. q \in 0..MaxCluster /\ Chain(T, first)[q] \in Clusters
  BY <1>1, SectorsInChain
<1>3. Chain(U, first)[q] = Chain(T, first)[q]
  BY <1>2, FirstLink, ChainExtends
<1> QED BY <1>1, <1>3 DEF SectorAt

\* A write that has not begun to write.
LEMMA WroteNothing ==
  ASSUME NEW f \in OpenType, NEW v, Good(v), Placed(v.fat, f),
         NEW u, Moving(u, f, v), u.f.size = f.size, u.f.pos = f.pos, NEW x
  PROVE  Wrote(u, f, v, u.data, x)
<1>1. /\ v.fat \in TableType /\ u.vol.fat \in TableType /\ Linked(v.fat)
      /\ Extends(u.vol.fat, v.fat)
  BY DEF Moving, Good, VolType, Grown, Grows
<1>2. f.pos \in Nat /\ f.size \in Nat /\ f.first \in {0} \cup Clusters
  <2>1. f.pos \in 0..MaxSecs /\ f.size \in 0..MaxSecs /\ f.first \in {0} \cup Clusters
    BY DEF OpenType
  <2> QED BY <2>1, InputAssumption
<1>3. ASSUME NEW m \in Nat, m < f.size
      PROVE  SectorAt(u.vol.fat, u.data, u.f.first, m) = SectorAt(v.fat, u.data, f.first, m)
  <2>1. Rooted(v.fat, f.first) /\ Long(v.fat, f.first, f.size)
    BY DEF Placed
  <2>2. f.first # 0
    BY <1>1, <1>2, <1>3, <2>1, NoChain
  <2>3. u.f.first = f.first
    BY <2>2 DEF Moving
  <2>4. SectorAt(u.vol.fat, u.data, f.first, m) = SectorAt(v.fat, u.data, f.first, m)
    <3>1. PICK T, U, first, size, A :
            /\ T = v.fat /\ U = u.vol.fat /\ first = f.first /\ size = f.size /\ A = u.data
      OBVIOUS
    <3>2. /\ T \in TableType /\ U \in TableType /\ Linked(T) /\ Extends(U, T)
          /\ first \in {0} \cup Clusters /\ size \in Nat /\ m < size
          /\ Rooted(T, first) /\ Long(T, first, size)
      BY <1>1, <1>2, <1>3, <2>1, <3>1
    <3>3. SectorAt(U, A, first, m) = SectorAt(T, A, first, m)
      BY <3>2, SectorExtends
    <3> QED BY <3>1, <3>3
  <2> QED BY <2>3, <2>4
<1> QED BY <1>2, <1>3 DEF Wrote

\* A sector that is put is the one at the position, and no other.
LEMMA PutWrites ==
  ASSUME NEW f, NEW v, NEW t, Moving(t, f, v), ~t.stop, t.left > 0, Within(t), NEW x \in Vals,
         NEW u, u = PutSector(t, x)
  PROVE  /\ \A c \in Entry : c \notin ClustersOf(t.vol.fat, t.f.first) => u.data[c] = t.data[c]
         /\ ClustersOf(t.vol.fat, t.f.first) \subseteq ClustersOf(u.vol.fat, u.f.first)
         /\ \A m \in Nat : m < u.f.size =>
              SectorAt(u.vol.fat, u.data, u.f.first, m) =
                IF m = t.f.pos THEN x ELSE SectorAt(t.vol.fat, t.data, t.f.first, m)
<1>1. PICK T, U, first, pos, c, j :
        /\ T = t.vol.fat /\ U = u.vol.fat /\ first = t.f.first /\ pos = t.f.pos
        /\ c = t.f.cur /\ j = t.f.pos - t.f.cpos
  OBVIOUS
<1>2. PICK B, C : B = u.data /\ C = t.data
  OBVIOUS
<1>3. /\ Moving(u, f, v) /\ u.f.first = first /\ Extends(U, T)
      /\ u.f.size = IF pos < t.f.size THEN t.f.size ELSE pos + 1
      /\ B = [C EXCEPT ![c][j] = x]
  <2>1. /\ Moving(u, f, v) /\ u.f.first = t.f.first /\ Extends(u.vol.fat, t.vol.fat)
        /\ u.f.size = IF t.f.pos < t.f.size THEN t.f.size ELSE t.f.pos + 1
        /\ u.data = [t.data EXCEPT ![t.f.cur][t.f.pos - t.f.cpos] = x]
    BY PutMoves
  <2> QED BY <1>1, <1>2, <2>1
<1>4. /\ T \in TableType /\ U \in TableType /\ Linked(T) /\ C \in DataType
      /\ Placed(T, t.f) /\ t.f \in OpenType /\ first # 0
      /\ t.f.cpos <= t.f.pos /\ t.f.pos < t.f.cpos + ClusterSecs
  BY <1>1, <1>2, <1>3 DEF Moving, Good, VolType, TransferType, Within
<1>5. pos \in Nat /\ t.f.size \in Nat /\ first \in {0} \cup Clusters /\ first \in Link
  BY <1>1, OpenFields, FirstLink DEF Moving
<1>6. /\ pos \div ClusterSecs \in 0..MaxCluster /\ c = Chain(T, first)[pos \div ClusterSecs]
      /\ c \in Clusters /\ pos % ClusterSecs = j /\ j \in Sector
  BY <1>1, <1>4, AtPosition
<1>7. c \in Entry /\ c \in ClustersOf(T, first)
  BY <1>6, Table DEF ClustersOf
<1>8. /\ \A k \in Entry : k # c => B[k] = C[k]
      /\ B[c][j] = x /\ \A i \in Sector : i # j => B[c][i] = C[c][i]
  BY <1>3, <1>4, <1>6, <1>7 DEF DataType
<1>9. ClustersOf(T, first) \subseteq ClustersOf(U, first)
  BY <1>3, <1>4, <1>5, ClustersExtend
<1>10. Rooted(T, first) /\ Long(T, first, u.f.size) /\ u.f.size \in Nat
  <2>1. Rooted(T, first) /\ Long(T, first, t.f.size) /\ Long(T, first, pos + 1)
    BY <1>1, <1>4, LongToPosition DEF Placed
  <2> QED BY <1>3, <1>5, <2>1
<1>11. ASSUME NEW m \in Nat, m < u.f.size
       PROVE  SectorAt(U, B, first, m) = IF m = pos THEN x ELSE SectorAt(T, C, first, m)
  <2>1. PICK q : q = m \div ClusterSecs
    OBVIOUS
  <2>2. PICK i : i = m % ClusterSecs
    OBVIOUS
  <2>3. q \in 0..MaxCluster /\ Chain(T, first)[q] \in Clusters /\ Chain(T, first)[q] \in Entry
    BY <1>4, <1>5, <1>10, <1>11, <2>1, SectorsInChain, Table
  <2>4. i \in Sector /\ m = q * ClusterSecs + i
    <3>1. ClusterSecs \in Nat /\ ClusterSecs > 0
      BY Table
    <3>2. ASSUME NEW y \in Nat, NEW z \in Nat, z > 0
          PROVE  y % z \in 0..(z - 1) /\ y = (y \div z) * z + (y % z)
      BY <3>2, Z3
    <3> QED BY <2>1, <2>2, <3>1, <3>2 DEF Sector
  <2>5. SectorAt(U, B, first, m) = SectorAt(T, B, first, m)
    BY <1>3, <1>4, <1>5, <1>10, <1>11, SectorExtends
  <2>6. /\ SectorAt(T, B, first, m) = B[Chain(T, first)[q]][i]
        /\ SectorAt(T, C, first, m) = C[Chain(T, first)[q]][i]
    BY <2>1, <2>2 DEF SectorAt
  <2>7. CASE m = pos
    BY <1>6, <1>8, <2>1, <2>2, <2>5, <2>6, <2>7
  <2>8. CASE m # pos /\ Chain(T, first)[q] # c
    BY <1>8, <2>3, <2>5, <2>6, <2>8
  <2>9. CASE m # pos /\ Chain(T, first)[q] = c
    <3>1. q = pos \div ClusterSecs
      BY <1>4, <1>5, <1>6, <1>10, <2>3, <2>9, ChainsApart
    <3>2. pos = q * ClusterSecs + j
      <4>1. ClusterSecs \in Nat /\ ClusterSecs > 0
        BY Table
      <4>2. ASSUME NEW y \in Nat, NEW z \in Nat, z > 0 PROVE y = (y \div z) * z + (y % z)
        BY <4>2, Z3
      <4> QED BY <1>5, <1>6, <3>1, <4>1, <4>2
    <3>3. i # j
      BY <2>4, <2>9, <3>2
    <3> QED BY <1>8, <2>4, <2>5, <2>6, <2>9, <3>3
  <2> QED BY <2>7, <2>8, <2>9
<1> QED BY <1>1, <1>2, <1>3, <1>7, <1>8, <1>9, <1>11

\* One more sector is written.
LEMMA WroteOne ==
  ASSUME NEW f \in OpenType, NEW v, NEW n \in Nat, NEW u \in OnWrite(f, v, n), NEW x \in Vals,
         NEW A, Wrote(u, f, v, A, x)
  PROVE  Wrote(WriteOne(u, x), f, v, A, x)
<1>1. CASE u.stop \/ u.left = 0
  BY <1>1 DEF WriteOne
<1>2. CASE ~(u.stop \/ u.left = 0)
  <2>1. PICK w : w = PutSector(u, x)
    OBVIOUS
  <2>2. WriteOne(u, x) = w
    BY <1>2, <2>1 DEF WriteOne
  <2>3. Moving(u, f, v) /\ Within(u) /\ ~u.stop /\ u.left > 0
        /\ f.pos <= u.f.pos /\ u.f.pos \in Nat /\ u.f.size \in Nat
    BY <1>2, OpenFields DEF OnWrite
  <2>4. /\ w.f.first = u.f.first /\ w.f.pos = u.f.pos + 1 /\ w.f.dirty
        /\ w.f.size = IF u.f.pos < u.f.size THEN u.f.size ELSE u.f.pos + 1
    BY <2>1, <2>3, PutStep
  <2>5. /\ \A c \in Entry : c \notin ClustersOf(u.vol.fat, u.f.first) => w.data[c] = u.data[c]
        /\ ClustersOf(u.vol.fat, u.f.first) \subseteq ClustersOf(w.vol.fat, w.f.first)
        /\ \A m \in Nat : m < w.f.size =>
              SectorAt(w.vol.fat, w.data, w.f.first, m) =
                IF m = u.f.pos THEN x ELSE SectorAt(u.vol.fat, u.data, u.f.first, m)
    BY <2>1, <2>3, PutWrites
  <2>6. f.pos \in Nat /\ f.size \in Nat
    <3>1. f.pos \in 0..MaxSecs /\ f.size \in 0..MaxSecs
      BY DEF OpenType
    <3> QED BY <3>1, InputAssumption
  <2>7. u.f.size = IF u.f.pos = f.pos \/ u.f.pos < f.size THEN f.size ELSE u.f.pos
    BY DEF Wrote
  <2>8. w.f.size = IF w.f.pos = f.pos \/ w.f.pos < f.size THEN f.size ELSE w.f.pos
    BY <2>3, <2>4, <2>6, <2>7
  <2>9. \A c \in Entry : c \notin ClustersOf(w.vol.fat, w.f.first) => w.data[c] = A[c]
    BY <2>5 DEF Wrote
  <2>10. ASSUME NEW m \in Nat, m < w.f.size
         PROVE  /\ f.pos <= m /\ m < w.f.pos => SectorAt(w.vol.fat, w.data, w.f.first, m) = x
                /\ ~(f.pos <= m /\ m < w.f.pos) /\ m < f.size =>
                     SectorAt(w.vol.fat, w.data, w.f.first, m) = SectorAt(v.fat, A, f.first, m)
    <3>1. CASE m = u.f.pos
      BY <2>3, <2>4, <2>5, <2>10, <3>1
    <3>2. CASE m # u.f.pos
      <4>1. SectorAt(w.vol.fat, w.data, w.f.first, m) = SectorAt(u.vol.fat, u.data, u.f.first, m)
        BY <2>5, <2>10, <3>2
      <4>2. (f.pos <= m /\ m < w.f.pos) <=> (f.pos <= m /\ m < u.f.pos)
        BY <2>3, <2>4, <3>2
      <4>3. (f.pos <= m /\ m < u.f.pos) \/ m < f.size => m < u.f.size
        BY <2>3, <2>6, <2>7
      <4> QED BY <4>1, <4>2, <4>3 DEF Wrote
    <3> QED BY <3>1, <3>2
  <2> QED BY <2>2, <2>4, <2>8, <2>9, <2>10 DEF Wrote
<1> QED BY <1>1, <1>2

\* A write goes on to the end or until no cluster is free.
LEMMA WriteMoves ==
  ASSUME NEW s \in Slots, sft[s] \in OpenType, Good(vol), data \in DataType,
         Placed(vol.fat, sft[s]), NEW n \in Nat, sft[s].pos + n <= MaxSecs, NEW x \in Vals
  PROVE  LET t == file_do_write(s, x, n)
         IN  /\ Moving(t, sft[s], vol) /\ (t.left > 0 => t.stop)
             /\ sft[s].pos <= t.f.pos /\ t.f.pos <= sft[s].pos + n
             /\ Wrote(t, sft[s], vol, data, x)
<1> DEFINE F == Writing(s, x, n)
           R == OnWrite(sft[s], vol, n)
<1>1. /\ F[0] = WriteBase(s, n) /\ \A k \in 0..n : F[k] \in R
      /\ \A k \in 1..n : F[k] = WriteOne(F[k - 1], x)
  BY WritingSteps
<1>2. file_do_write(s, x, n) = F[n]
  BY DEF file_do_write, Writing, WriteBase, WriteOne
<1> HIDE DEF F, R
<1>3. \A k \in 0..n : F[k].left \in Nat /\ F[k].f.pos \in Nat
  <2> TAKE k \in 0..n
  <2>1. F[k] \in TransferType
    BY <1>1 DEF R, OnWrite
  <2> QED BY <2>1, OpenFields
<1>5. n \in 0..n /\ sft[s].pos \in Nat
  <2>1. sft[s].pos \in 0..MaxSecs
    BY DEF OpenType
  <2> QED BY <2>1, InputAssumption
<1>4. \A k \in 0..n : F[k].stop \/ F[k].left <= n - k
  <2> DEFINE K == {k \in 0..n : F[k].stop \/ F[k].left <= n - k}
  <2>1. 0 \in K
    <3>1. 0 \in 0..n
      OBVIOUS
    <3>2. /\ sft[s].pos <= F[0].f.pos /\ F[0].f.pos + F[0].left = sft[s].pos + n
          /\ sft[s].pos \in Nat /\ F[0].left \in Nat /\ F[0].f.pos \in Nat
      BY <1>1, <1>3, <1>5, <3>1 DEF R, OnWrite
    <3> QED BY <3>1, <3>2
  <2>2. ASSUME NEW k \in 1..n, k - 1 \in K PROVE k \in K
    <3>1. k \in 0..n /\ k - 1 \in 0..n
      OBVIOUS
    <3>2. PICK u : u = F[k - 1]
      OBVIOUS
    <3>3. u \in R /\ u.left \in Nat /\ F[k] = WriteOne(u, x) /\ (u.stop \/ u.left <= n - (k - 1))
      BY <1>1, <1>3, <2>2, <3>1, <3>2
    <3>4. /\ u.stop \/ u.left = 0 => F[k] = u
          /\ ~(u.stop \/ u.left = 0) => F[k].left = u.left - 1
      BY <1>5, <3>3, WriteOneOn DEF R
    <3>5. F[k].stop \/ F[k].left <= n - k
      BY <3>1, <3>3, <3>4
    <3> QED BY <3>1, <3>5
  <2> HIDE DEF K
  <2>3. \A k \in 0..n : k \in K
    BY <2>1, <2>2, Upwards
  <2> QED BY <2>3 DEF K
<1>6. F[n] \in R /\ F[n].left \in Nat /\ (F[n].stop \/ F[n].left <= n - n)
  BY <1>1, <1>3, <1>4, <1>5
<1>7. Moving(F[n], sft[s], vol)
  BY <1>6 DEF R, OnWrite
<1>8. F[n].left > 0 => F[n].stop
  BY <1>6
<1>9. sft[s].pos <= F[n].f.pos /\ F[n].f.pos <= sft[s].pos + n
  <2>1. sft[s].pos <= F[n].f.pos /\ F[n].f.pos + F[n].left = sft[s].pos + n /\ F[n].f.pos \in Nat
    BY <1>3, <1>5, <1>6 DEF R, OnWrite
  <2> QED BY <1>5, <1>6, <2>1
<1>10. Wrote(F[n], sft[s], vol, data, x)
  <2> DEFINE K == {k \in 0..n : Wrote(F[k], sft[s], vol, data, x)}
  <2>1. 0 \in K
    <3>1. PICK u : u = F[0]
      OBVIOUS
    <3>2. Moving(u, sft[s], vol) /\ u.data = data /\ u.f.size = sft[s].size /\ u.f.pos = sft[s].pos
      BY <1>1, <3>1, WriteBaseOn DEF OnWrite
    <3>3. Wrote(u, sft[s], vol, u.data, x)
      BY <3>2, WroteNothing
    <3> QED BY <3>1, <3>2, <3>3
  <2>2. ASSUME NEW k \in 1..n, k - 1 \in K PROVE k \in K
    <3>1. k \in 0..n /\ k - 1 \in 0..n
      OBVIOUS
    <3>2. PICK u : u = F[k - 1]
      OBVIOUS
    <3>3. u \in OnWrite(sft[s], vol, n) /\ F[k] = WriteOne(u, x) /\ Wrote(u, sft[s], vol, data, x)
      BY <1>1, <2>2, <3>1, <3>2 DEF R
    <3>4. Wrote(WriteOne(u, x), sft[s], vol, data, x)
      BY <3>3, WroteOne
    <3> QED BY <3>1, <3>3, <3>4
  <2> HIDE DEF K
  <2>3. \A k \in 0..n : k \in K
    BY <2>1, <2>2, Upwards
  <2> QED BY <1>5, <2>3 DEF K
<1> QED BY <1>2, <1>7, <1>8, <1>9, <1>10

\* GetSector reads the sector of the file at its position.
LEMMA GetMoves ==
  ASSUME NEW f, NEW v, NEW t, Moving(t, f, v), ~t.stop, t.left > 0, Within(t),
         t.f.pos + t.left <= t.f.size
  PROVE  LET u == GetSector(t)
         IN  /\ Moving(u, f, v) /\ Within(u) /\ ~u.stop
             /\ u.f.first = t.f.first /\ u.f.size = t.f.size /\ u.f.pos = t.f.pos + 1
             /\ u.left = t.left - 1 /\ u.data = t.data
             /\ u.read = Append(t.read, SectorAt(t.vol.fat, t.data, t.f.first, t.f.pos))
             /\ u.vol.fat = t.vol.fat /\ u.f.dirty = t.f.dirty
<1> DEFINE c == t.f.cur
           j == t.f.pos - t.f.cpos
           r == Append(t.read, t.data[c][j])
           w == [t EXCEPT !.read = r]
           u == GetSector(t)
<1>1. /\ t \in TransferType /\ t.f \in OpenType /\ t.left \in Nat /\ t.vol.fat \in TableType
      /\ t.f.pos \in Nat
      /\ Placed(t.vol.fat, t.f) /\ t.f.first # 0
      /\ t.f.cpos <= t.f.pos /\ t.f.pos < t.f.cpos + ClusterSecs
  BY OpenFields DEF Moving, Within, VolType
<1>2. /\ c \in Entry /\ j \in Sector
      /\ t.data[c][j] = SectorAt(t.vol.fat, t.data, t.f.first, t.f.pos)
  <2>1. /\ t.f.cur \in Clusters /\ t.f.pos - t.f.cpos \in Sector
        /\ t.f.cur = Chain(t.vol.fat, t.f.first)[t.f.pos \div ClusterSecs]
        /\ t.f.pos % ClusterSecs = t.f.pos - t.f.cpos
    BY <1>1, AtPosition
  <2> QED BY <2>1, Table DEF SectorAt
<1>3. u = Moved(w, FALSE)
  <2>1. w = [t EXCEPT !.read = Append(@, t.data[c][j])]
    BY <1>1 DEF TransferType
  <2> QED BY <2>1 DEF GetSector
<1>4. r \in Seq(Vals \cup {0})
  BY <1>1, <1>2 DEF TransferType, DataType
<1> HIDE DEF c, j, r, u
<1>5. PICK g : g = w
  OBVIOUS
<1> HIDE DEF w
<1>6. g = [t EXCEPT !.read = r]
  BY <1>5 DEF w
<1>7. g \in TransferType
  BY <1>1, <1>4, <1>6 DEF TransferType
<1>8. /\ g.vol = t.vol /\ g.f = t.f /\ g.data = t.data
      /\ g.read = r /\ g.left = t.left /\ g.stop = t.stop
  BY <1>1, <1>6 DEF TransferType
<1>9. Moving(g, f, v) /\ Within(g)
  BY <1>7, <1>8 DEF Moving, Within
<1>10. PICK grow \in BOOLEAN : ~grow
  OBVIOUS
<1>11. u = Moved(g, grow)
  BY <1>3, <1>5, <1>10
<1>12. g.f.pos \in Int /\ g.left \in Int /\ ~g.stop /\ g.left > 0 /\ g.f.pos + g.left <= g.f.size
  BY <1>1, <1>8
<1>13. /\ Moving(u, f, v) /\ Within(u)
       /\ u.f.first = g.f.first /\ u.f.size = g.f.size /\ u.f.pos = g.f.pos + 1
       /\ u.data = g.data /\ u.read = g.read /\ u.left = g.left - 1
  BY <1>9, <1>11, <1>12, MovedMoves
<1>14. ~u.stop /\ u.vol.fat = g.vol.fat /\ u.f.dirty = g.f.dirty
  BY <1>9, <1>10, <1>11, <1>12, MovedMoves
<1> QED BY <1>2, <1>8, <1>13, <1>14 DEF u, r

\* The transfers of a read of n sectors of the file f.
OnRead(f, v, d, n) ==
  {u \in TransferType :
     /\ Moving(u, f, v) /\ Within(u) /\ ~u.stop
     /\ u.f.first = f.first /\ u.f.size = f.size /\ u.f.dirty = f.dirty
     /\ u.vol.fat = v.fat /\ u.data = d
     /\ f.pos <= u.f.pos /\ u.f.pos + u.left = f.pos + n
     /\ Len(u.read) = u.f.pos - f.pos
     /\ \A i \in 1..Len(u.read) : u.read[i] = SectorAt(v.fat, d, f.first, f.pos + (i - 1))}

GetOne(u) == IF u.stop \/ u.left = 0 THEN u ELSE GetSector(u)

\* Each sector read is one less to go.
LEMMA GetOneOn ==
  ASSUME NEW f, f.pos \in Nat, NEW v, NEW d, NEW n \in Nat, f.pos + n <= f.size,
         NEW u \in OnRead(f, v, d, n)
  PROVE  LET w == GetOne(u)
         IN  /\ w \in OnRead(f, v, d, n)
             /\ u.left = 0 => w = u
             /\ u.left # 0 => w.left = u.left - 1
<1> DEFINE w == GetOne(u)
<1>1. /\ u \in TransferType /\ Moving(u, f, v) /\ Within(u) /\ ~u.stop
      /\ u.f.first = f.first /\ u.f.size = f.size /\ u.f.dirty = f.dirty
      /\ u.vol.fat = v.fat /\ u.data = d
      /\ f.pos <= u.f.pos /\ u.f.pos + u.left = f.pos + n
      /\ Len(u.read) = u.f.pos - f.pos
      /\ \A i \in 1..Len(u.read) : u.read[i] = SectorAt(v.fat, d, f.first, f.pos + (i - 1))
  BY DEF OnRead
<1>2. u.f.pos \in Nat /\ u.left \in Nat
  BY <1>1, OpenFields
<1>5. /\ f.pos <= u.f.pos /\ u.f.pos + u.left = f.pos + n /\ u.f.size = f.size
      /\ Len(u.read) = u.f.pos - f.pos
  BY <1>1
<1>6. Moving(u, f, v) /\ Within(u) /\ ~u.stop
  BY <1>1
<1>3. CASE u.left = 0
  BY <1>3 DEF GetOne
<1>4. CASE u.left # 0
  <2>1. w = GetSector(u)
    BY <1>1, <1>4 DEF GetOne
  <2> HIDE DEF w
  <2>2. u.left > 0 /\ u.f.pos + u.left <= u.f.size
    BY <1>2, <1>4, <1>5
  <2>15. u.f.pos \in Int /\ u.left \in Int
    BY <1>2
  <2>3. /\ Moving(w, f, v) /\ Within(w) /\ ~w.stop
        /\ w.f.first = u.f.first /\ w.f.size = u.f.size /\ w.f.pos = u.f.pos + 1
        /\ w.left = u.left - 1 /\ w.data = u.data
        /\ w.read = Append(u.read, SectorAt(u.vol.fat, u.data, u.f.first, u.f.pos))
        /\ w.vol.fat = u.vol.fat /\ w.f.dirty = u.f.dirty
    <3>1. Moving(w, f, v) /\ Within(w)
      BY <1>6, <2>1, <2>2, GetMoves
    <3>8. ~w.stop
      BY <1>6, <2>1, <2>2, GetMoves, Zenon
    <3>5. w.f.first = u.f.first
      BY <1>6, <2>1, <2>2, GetMoves, ZenonT(60)
    <3>9. w.f.size = u.f.size
      BY <1>6, <2>1, <2>2, GetMoves, ZenonT(60)
    <3>6. w.data = u.data
      BY <1>6, <2>1, <2>2, GetMoves, ZenonT(60)
    <3>10. w.vol.fat = u.vol.fat
      BY <1>6, <2>1, <2>2, GetMoves, ZenonT(60)
    <3>7. w.f.dirty = u.f.dirty
      BY <1>6, <2>1, <2>2, GetMoves, ZenonT(60)
    <3>2. w.f.pos = u.f.pos + 1
      BY <1>6, <2>1, <2>2, <2>15, GetMoves
    <3>3. w.left = u.left - 1
      BY <1>6, <2>1, <2>2, <2>15, GetMoves
    <3>4. w.read = Append(u.read, SectorAt(u.vol.fat, u.data, u.f.first, u.f.pos))
      BY <1>6, <2>1, <2>2, GetMoves, Zenon
    <3> QED BY <3>1, <3>2, <3>3, <3>4, <3>5, <3>6, <3>7, <3>8, <3>9, <3>10
  <2>4. w \in TransferType
    BY <2>3 DEF Moving
  <2>14. w.f.pos = u.f.pos + 1 /\ w.left = u.left - 1
    BY <2>3
  <2>5. f.pos <= w.f.pos /\ w.f.pos + w.left = f.pos + n
    BY <1>2, <1>5, <2>14
  <2>6. PICK e : e = SectorAt(v.fat, d, f.first, u.f.pos)
    OBVIOUS
  <2>7. w.read = Append(u.read, e)
    BY <1>1, <2>3, <2>6
  <2>8. u.read \in Seq(Vals \cup {0}) /\ Len(u.read) \in Nat
    BY <1>1 DEF TransferType
  <2>9. /\ Len(w.read) = Len(u.read) + 1
        /\ \A i \in 1..Len(w.read) :
             w.read[i] = IF i = Len(u.read) + 1 THEN e ELSE u.read[i]
    BY <2>7, <2>8
  <2>10. Len(w.read) = w.f.pos - f.pos
    BY <1>2, <1>5, <2>14, <2>9
  <2>11. ASSUME NEW i \in 1..Len(w.read)
         PROVE  w.read[i] = SectorAt(v.fat, d, f.first, f.pos + (i - 1))
    <3>1. i \in Nat /\ i >= 1 /\ i <= Len(u.read) + 1
      BY <2>8, <2>9
    <3>2. CASE i = Len(u.read) + 1
      <4>1. f.pos + (i - 1) = u.f.pos
        BY <1>2, <1>5, <3>1, <3>2
      <4> QED BY <2>6, <2>9, <3>2, <4>1
    <3>3. CASE i # Len(u.read) + 1
      <4>1. i \in 1..Len(u.read)
        BY <2>8, <3>1, <3>3
      <4> QED BY <1>1, <2>9, <3>3, <4>1
    <3> QED BY <3>2, <3>3
  <2>12. w \in OnRead(f, v, d, n)
    BY <1>1, <2>3, <2>4, <2>5, <2>10, <2>11 DEF OnRead
  <2> QED BY <1>4, <2>3, <2>12 DEF w
<1> QED BY <1>3, <1>4

\* The function that file_do_read computes, and its start.
ReadBase(s, m) == Forward(Rewind(Start(s, m)), FALSE)
Reading(s, n, m) ==
  LET after[k \in 0..n] ==
        IF k = 0 THEN ReadBase(s, m) ELSE GetOne(after[k - 1])
  IN  after

\* How many sectors a read of n gives.
Readable(f, n) == IF f.pos >= f.size THEN 0 ELSE Least(n, f.size - f.pos)

\* The first part of a read: the cursor at the position.
LEMMA ReadBaseOn ==
  ASSUME NEW s \in Slots, sft[s] \in OpenType, Good(vol), data \in DataType,
         Placed(vol.fat, sft[s]), NEW m \in Nat, sft[s].pos + m <= sft[s].size,
         sft[s].pos < sft[s].size
  PROVE  ReadBase(s, m) \in OnRead(sft[s], vol, data, m)
<1>1. PICK t : t = Start(s, m)
  OBVIOUS
<1>0. sft[s].pos \in 0..MaxSecs /\ sft[s].size \in 0..MaxSecs
  BY DEF OpenType
<1>2. sft[s].pos + m <= MaxSecs /\ sft[s].pos \in Nat /\ sft[s].size \in Nat /\ sft[s].size > 0
  BY <1>0, InputAssumption
<1>3. /\ Moving(t, sft[s], vol) /\ t.f = sft[s] /\ t.left = m /\ ~t.stop
      /\ t.vol = vol /\ t.data = data /\ t.read = <<>>
  BY <1>1, <1>2, StartMoves
<1>4. PICK w : w = Rewind(t)
  OBVIOUS
<1>5. /\ Moving(w, sft[s], vol) /\ w.f.cpos <= w.f.pos
      /\ w.f.first = t.f.first /\ w.f.size = t.f.size /\ w.f.pos = t.f.pos
      /\ w.data = t.data /\ w.read = t.read /\ w.left = t.left
      /\ w.stop = t.stop /\ w.vol = t.vol /\ w.f.dirty = t.f.dirty
  BY <1>3, <1>4, RewindMoves
<1>6. PICK grow \in BOOLEAN : ~grow
  OBVIOUS
<1>7. PICK x : x = Forward(w, grow)
  OBVIOUS
<1>8. x = ReadBase(s, m)
  BY <1>1, <1>4, <1>6, <1>7 DEF ReadBase
<1>9. w.f.first # 0
  <2>1. vol.fat \in TableType
    BY DEF Good, VolType
  <2>2. Long(vol.fat, sft[s].first, sft[s].size)
    BY DEF Placed
  <2>3. sft[s].first # 0
    BY <1>2, <2>1, <2>2, NoChain
  <2> QED BY <1>3, <1>5, <2>3
<1>10. w.f.pos < w.f.size /\ ~w.stop
  BY <1>3, <1>5
<1>11. x \in OnTheWay(w, sft[s], vol, grow) /\ Within(x)
  BY <1>5, <1>7, <1>9, <1>10, ForwardMoves
<1>12. /\ Moving(x, sft[s], vol) /\ x \in TransferType
       /\ x.f.first = w.f.first /\ x.f.size = w.f.size /\ x.f.pos = w.f.pos
       /\ x.data = w.data /\ x.read = w.read /\ x.left = w.left
       /\ ~x.stop /\ x.vol.fat = w.vol.fat /\ x.f.dirty = w.f.dirty
  BY <1>6, <1>11 DEF OnTheWay
<1>13. /\ x.f.pos = sft[s].pos /\ x.left = m /\ x.read = <<>>
       /\ x.f.first = sft[s].first /\ x.f.size = sft[s].size /\ x.f.dirty = sft[s].dirty
       /\ x.vol.fat = vol.fat /\ x.data = data
  BY <1>3, <1>5, <1>12
<1>14. Len(x.read) = x.f.pos - sft[s].pos /\ Len(x.read) = 0
  BY <1>2, <1>13
<1>15. sft[s].pos <= x.f.pos /\ x.f.pos + x.left = sft[s].pos + m
  BY <1>2, <1>13
<1>16. \A i \in 1..Len(x.read) :
         x.read[i] = SectorAt(vol.fat, data, sft[s].first, sft[s].pos + (i - 1))
  BY <1>14
<1> QED BY <1>8, <1>11, <1>12, <1>13, <1>14, <1>15, <1>16 DEF OnRead

\* A read is the list of its steps.
LEMMA ReadingSteps ==
  ASSUME NEW s \in Slots, sft[s] \in OpenType, Good(vol), data \in DataType,
         Placed(vol.fat, sft[s]), NEW m \in Nat, sft[s].pos + m <= sft[s].size,
         sft[s].pos < sft[s].size, NEW n \in Nat
  PROVE  LET F == Reading(s, n, m)
         IN  /\ \A k \in 0..n : F[k] \in OnRead(sft[s], vol, data, m)
             /\ \A k \in 1..n : F[k] = GetOne(F[k - 1])
<1>1. PICK a : a = ReadBase(s, m)
  OBVIOUS
<1>2. PICK R : R = OnRead(sft[s], vol, data, m)
  OBVIOUS
<1> DEFINE g == [k \in 1..n |-> [u \in R |-> GetOne(u)]]
           F == Reading(s, n, m)
<1>3. a \in R
  BY <1>1, <1>2, ReadBaseOn
<1>4. \A u \in R : GetOne(u) \in R
  <2>1. sft[s].pos \in 0..MaxSecs
    BY DEF OpenType
  <2>2. sft[s].pos \in Nat
    BY <2>1, InputAssumption
  <2> QED BY <1>2, <2>2, GetOneOn
<1>5. g \in [1..n -> [R -> R]]
  BY <1>4
<1>6. F = CHOOSE u : u = [k \in 0..n |-> IF k = 0 THEN a ELSE GetOne(u[k - 1])]
  BY <1>1 DEF Reading
<1> HIDE DEF g, F
<1>7. PICK h \in [0..n -> R] : Lists(h, a, g, n)
  BY <1>3, <1>5, RepeatedSteps, Zenon
<1>8. \A k \in 0..n : k = 0 \/ (k \in 1..n /\ k - 1 \in 0..n)
  OBVIOUS
<1>9. h[0] = a /\ \A k \in 1..n : h[k] = GetOne(h[k - 1])
  <2>1. ASSUME NEW k \in 1..n PROVE h[k] = GetOne(h[k - 1])
    <3>1. h[k - 1] \in R
      BY <1>7, <1>8
    <3>2. h[k] = g[k][h[k - 1]]
      BY <1>7 DEF Lists
    <3> QED BY <3>1, <3>2 DEF g
  <2> QED BY <1>7, <2>1 DEF Lists
<1>10. h = [k \in 0..n |-> IF k = 0 THEN a ELSE GetOne(h[k - 1])]
  BY <1>7, <1>8, <1>9
<1>11. F = [k \in 0..n |-> IF k = 0 THEN a ELSE GetOne(F[k - 1])]
  BY <1>6, <1>10
<1>12. 0 \in 0..n /\ \A k \in 1..n : k \in 0..n /\ k # 0
  OBVIOUS
<1>13. F[0] = a /\ \A k \in 1..n : F[k] = GetOne(F[k - 1])
  BY <1>11, <1>12
<1>14. \A k \in 0..n : F[k] \in R
  <2> DEFINE K == {k \in 0..n : F[k] \in R}
  <2>1. 0 \in K
    BY <1>3, <1>12, <1>13
  <2>2. \A k \in 1..n : k - 1 \in K => k \in K
    BY <1>4, <1>12, <1>13
  <2> HIDE DEF K
  <2>3. \A k \in 0..n : k \in K
    BY <2>1, <2>2, Upwards
  <2> QED BY <2>3 DEF K
<1> QED BY <1>2, <1>13, <1>14 DEF F

\* A read does not stop before the end of the file, and gives its sectors.
LEMMA ReadMoves ==
  ASSUME NEW s \in Slots, sft[s] \in OpenType, Good(vol), data \in DataType,
         Placed(vol.fat, sft[s]), NEW n \in Nat
  PROVE  LET t == file_do_read(s, n)
             f == sft[s]
         IN  /\ Moving(t, f, vol)
             /\ t.f.first = f.first /\ t.f.size = f.size /\ t.f.dirty = f.dirty
             /\ t.vol.fat = vol.fat
             /\ Len(t.read) = Readable(f, n) /\ t.f.pos = f.pos + Readable(f, n)
             /\ \A i \in 1..Len(t.read) :
                  t.read[i] = SectorAt(vol.fat, data, f.first, f.pos + (i - 1))
<1>0. sft[s].pos \in 0..MaxSecs /\ sft[s].size \in 0..MaxSecs
  BY DEF OpenType
<1>1. sft[s].pos \in Nat /\ sft[s].size \in Nat /\ sft[s].pos + 0 <= MaxSecs
  BY <1>0, InputAssumption
<1>2. CASE sft[s].pos >= sft[s].size
  <2>1. file_do_read(s, n) = Start(s, 0) /\ Readable(sft[s], n) = 0
    BY <1>2 DEF file_do_read, Readable
  <2>2. PICK t : t = Start(s, 0)
    OBVIOUS
  <2>3. /\ Moving(t, sft[s], vol)
        /\ t.f = sft[s] /\ t.vol = vol /\ t.read = <<>>
    <3>1. PICK z \in Nat : z = 0
      OBVIOUS
    <3>2. sft[s].pos + z <= MaxSecs /\ t = Start(s, z)
      BY <1>1, <2>2, <3>1
    <3> QED BY <3>2, StartMoves
  <2>4. Len(t.read) = 0 /\ t.f.pos = sft[s].pos + 0
    BY <1>1, <2>3
  <2>5. t = file_do_read(s, n)
    BY <2>1, <2>2
  <2>6. Len(t.read) = Readable(sft[s], n) /\ t.f.pos = sft[s].pos + Readable(sft[s], n)
    BY <2>1, <2>4
  <2>7. \A i \in 1..Len(t.read) :
          t.read[i] = SectorAt(vol.fat, data, sft[s].first, sft[s].pos + (i - 1))
    BY <2>4
  <2>8. /\ t.f.first = sft[s].first /\ t.f.size = sft[s].size /\ t.f.dirty = sft[s].dirty
        /\ t.vol.fat = vol.fat
    BY <2>3
  <2> QED BY <2>3, <2>5, <2>6, <2>7, <2>8
<1>3. CASE ~(sft[s].pos >= sft[s].size)
  <2> DEFINE m == Least(n, sft[s].size - sft[s].pos)
             F == Reading(s, n, m)
             R == OnRead(sft[s], vol, data, m)
  <2>1. m \in Nat /\ m <= n /\ sft[s].pos + m <= sft[s].size /\ sft[s].pos < sft[s].size
    BY <1>1, <1>3 DEF Least
  <2>2. Readable(sft[s], n) = m
    BY <1>3 DEF Readable
  <2>3. file_do_read(s, n) = F[n]
    BY <1>3 DEF file_do_read, Reading, ReadBase, GetOne
  <2> HIDE DEF m
  <2>4. /\ \A k \in 0..n : F[k] \in R
        /\ \A k \in 1..n : F[k] = GetOne(F[k - 1])
    BY <2>1, ReadingSteps
  <2> HIDE DEF F, R
  <2>5. \A k \in 0..n : F[k].left \in Nat /\ F[k].f.pos \in Nat
    <3> TAKE k \in 0..n
    <3>1. F[k] \in TransferType
      BY <2>4 DEF R, OnRead
    <3> QED BY <3>1, OpenFields
  <2>6. \A k \in 0..n : F[k].left <= n - k
    <3> DEFINE K == {k \in 0..n : F[k].left <= n - k}
    <3>1. 0 \in K
      <4>1. 0 \in 0..n
        OBVIOUS
      <4>2. /\ sft[s].pos <= F[0].f.pos /\ F[0].f.pos + F[0].left = sft[s].pos + m
            /\ F[0].left \in Nat /\ F[0].f.pos \in Nat
        BY <2>4, <2>5, <4>1 DEF R, OnRead
      <4> QED BY <1>1, <2>1, <4>1, <4>2
    <3>2. ASSUME NEW k \in 1..n, k - 1 \in K PROVE k \in K
      <4>1. k \in 0..n /\ k - 1 \in 0..n
        OBVIOUS
      <4>2. PICK u : u = F[k - 1]
        OBVIOUS
      <4>3. u \in R /\ u.left \in Nat /\ F[k] = GetOne(u) /\ u.left <= n - (k - 1)
        BY <2>4, <2>5, <3>2, <4>1, <4>2
      <4>4. /\ u.left = 0 => F[k] = u
            /\ u.left # 0 => F[k].left = u.left - 1
        BY <1>1, <2>1, <4>3, GetOneOn DEF R
      <4>5. F[k].left <= n - k
        BY <4>1, <4>3, <4>4
      <4> QED BY <4>1, <4>5
    <3> HIDE DEF K
    <3>3. \A k \in 0..n : k \in K
      BY <3>1, <3>2, Upwards
    <3> QED BY <3>3 DEF K
  <2>7. n \in 0..n
    OBVIOUS
  <2>8. F[n].left = 0 /\ F[n].f.pos \in Nat
    BY <2>5, <2>6, <2>7
  <2>9. /\ Moving(F[n], sft[s], vol)
        /\ F[n].f.first = sft[s].first /\ F[n].f.size = sft[s].size
        /\ F[n].f.dirty = sft[s].dirty /\ F[n].vol.fat = vol.fat
        /\ \A i \in 1..Len(F[n].read) :
             F[n].read[i] = SectorAt(vol.fat, data, sft[s].first, sft[s].pos + (i - 1))
    BY <2>4, <2>7 DEF R, OnRead
  <2>10. /\ F[n].f.pos + F[n].left = sft[s].pos + m
         /\ Len(F[n].read) = F[n].f.pos - sft[s].pos
    BY <2>4, <2>7 DEF R, OnRead
  <2>11. Len(F[n].read) = m /\ F[n].f.pos = sft[s].pos + m
    BY <1>1, <2>1, <2>8, <2>10
  <2> QED BY <2>2, <2>3, <2>9, <2>11
<1> QED BY <1>2, <1>3

----------------------------------------------------------------------------
(* The invariant.                                                          *)

\* What the entries D of the directories, and the slots S over them, say of
\* the files.
Used(D) == {i \in Places : D[i].used}
Entries(D) == [i \in Used(D) |-> D[i]]
DirtyAt(S, i) == {s \in Slots : S[s].open /\ S[s].place = i /\ S[s].dirty}
Now(D, S) ==
  [i \in Used(D) |-> IF DirtyAt(S, i) = {} THEN D[i] ELSE S[CHOOSE s \in DirtyAt(S, i) : TRUE]]

\* The open file f over the entries D and the table T: it is as its entry says
\* until it has been written to, and the first cluster of an entry changes only
\* from none or to none.
OpenRight(D, T, f) ==
  /\ f.mode \in OpenModes \cup {Mode(0, 2)}
  /\ D[f.place].used
  /\ Placed(T, f)
  /\ ~f.dirty => f.first = D[f.place].first /\ f.size = D[f.place].size
  /\ f.dirty => f.mode.access # 0 /\ D[f.place].first \in {0, f.first}

\* A file that is open for writing is open once.
OneWriter(S) ==
  \A s, t \in Slots :
    S[s].open /\ S[t].open /\ s # t /\ S[s].place = S[t].place => S[s].mode.access = 0

Right(D, V, A, S) ==
  /\ D \in [Places -> EntryType] /\ A \in DataType /\ S \in [Slots -> {Closed} \cup OpenType]
  /\ Good(V)
  /\ Laid(V.fat, Now(D, S)) /\ Laid(V.disk, Entries(D))
  /\ \A s \in Slots : S[s].open => OpenRight(D, V.fat, S[s])
  /\ OneWriter(S)

FileInv == Right(dir, vol, data, sft)

\* No two opens of a file of which one may write.
ExclusiveWriters ==
  \A m \in OpenModes :
    /\ m.share # 0
    /\ \A n \in OpenModes :
         m.access # 0 => ~share_mode_compat(m, n) /\ ~share_mode_compat(n, m)

----------------------------------------------------------------------------
(* Changing one file of several.                                           *)

\* What is laid stays so when its entries are renamed or left out.
LEMMA LaidSub ==
  ASSUME NEW T, NEW F, Laid(T, F), NEW G, NEW m \in [DOMAIN G -> DOMAIN F],
         \A j \in DOMAIN G : G[j].first = F[m[j]].first /\ G[j].size = F[m[j]].size,
         \A j, k \in DOMAIN G : m[j] = m[k] => j = k
  PROVE  Laid(T, G)
<1>1. ASSUME NEW j \in DOMAIN G
      PROVE  /\ G[j].first \in {0} \cup Clusters /\ G[j].size \in Nat
             /\ Rooted(T, G[j].first) /\ Long(T, G[j].first, G[j].size)
  <2>1. m[j] \in DOMAIN F
    OBVIOUS
  <2> QED BY <2>1 DEF Laid
<1>2. ASSUME NEW j \in DOMAIN G, NEW k \in DOMAIN G, G[j].first = G[k].first, G[j].first # 0
      PROVE  j = k
  <2>1. m[j] \in DOMAIN F /\ m[k] \in DOMAIN F
    OBVIOUS
  <2>2. m[j] = m[k]
    BY <1>2, <2>1 DEF Laid
  <2> QED BY <2>2
<1>3. T \in TableType /\ Linked(T)
  BY DEF Laid
<1> QED BY <1>1, <1>2, <1>3 DEF Laid

\* Only first clusters and sizes matter to what is laid.
LEMMA LaidFields ==
  ASSUME NEW T, NEW F, Laid(T, F), NEW G, DOMAIN G \subseteq DOMAIN F,
         \A j \in DOMAIN G : G[j].first = F[j].first /\ G[j].size = F[j].size
  PROVE  Laid(T, G)
<1> DEFINE m == [j \in DOMAIN G |-> j]
<1>1. m \in [DOMAIN G -> DOMAIN F] /\ \A j \in DOMAIN G : m[j] = j
  OBVIOUS
<1> HIDE DEF m
<1> QED BY <1>1, LaidSub

\* Files of which some are as the table has them, and some still as the table
\* before had them.
LEMMA LaidMixed ==
  ASSUME NEW T, NEW F, Laid(T, F), NEW T0, NEW F0, Laid(T0, F0), Extends(T, T0),
         DOMAIN F0 = DOMAIN F, \A i \in DOMAIN F : F0[i].first \in {0, F[i].first},
         NEW G, DOMAIN G = DOMAIN F,
         \A i \in DOMAIN G : \/ G[i].first = F[i].first /\ G[i].size = F[i].size
                             \/ G[i].first = F0[i].first /\ G[i].size = F0[i].size
  PROVE  Laid(T, G)
<1>1. T \in TableType /\ Linked(T) /\ T0 \in TableType
  BY DEF Laid
<1>2. ASSUME NEW i \in DOMAIN G
      PROVE  /\ G[i].first \in {0} \cup Clusters /\ G[i].size \in Nat
             /\ Rooted(T, G[i].first) /\ Long(T, G[i].first, G[i].size)
  <2>1. CASE G[i].first = F[i].first /\ G[i].size = F[i].size
    BY <2>1 DEF Laid
  <2>2. CASE G[i].first = F0[i].first /\ G[i].size = F0[i].size
    <3>1. /\ F0[i].first \in {0} \cup Clusters /\ F0[i].size \in Nat
          /\ Long(T0, F0[i].first, F0[i].size)
      BY DEF Laid
    <3>2. Long(T, F0[i].first, F0[i].size)
      BY <1>1, <3>1, FirstLink, LongExtends
    <3>3. Rooted(T, F0[i].first)
      <4>1. CASE F0[i].first = 0
        BY <4>1, Table DEF Rooted
      <4>2. CASE F0[i].first = F[i].first
        BY <4>2 DEF Laid
      <4> QED BY <4>1, <4>2
    <3> QED BY <2>2, <3>1, <3>2, <3>3
  <2> QED BY <2>1, <2>2
<1>3. \A i \in DOMAIN G : G[i].first \in {0, F[i].first}
  OBVIOUS
<1>4. ASSUME NEW i \in DOMAIN G, NEW j \in DOMAIN G, G[i].first = G[j].first, G[i].first # 0
      PROVE  i = j
  <2>1. F[i].first = F[j].first /\ F[i].first # 0
    BY <1>3, <1>4
  <2> QED BY <2>1 DEF Laid
<1> QED BY <1>1, <1>2, <1>4 DEF Laid

\* A table that goes on behind the one it is written from.
LEMMA LaidBehind ==
  ASSUME NEW D, NEW F, Laid(D, F), NEW E \in TableType, Extends(E, D),
         NEW T, Behind(E, T), Linked(T), \A i \in DOMAIN F : Rooted(T, F[i].first)
  PROVE  Laid(E, F)
<1>1. Linked(E)
  BY BehindLinked
<1>2. D \in TableType
  BY DEF Laid
<1>3. ASSUME NEW i \in DOMAIN F
      PROVE  Rooted(E, F[i].first) /\ Long(E, F[i].first, F[i].size)
  <2>1. /\ F[i].first \in {0} \cup Clusters /\ F[i].size \in Nat
        /\ Long(D, F[i].first, F[i].size) /\ Rooted(D, F[i].first)
    BY DEF Laid
  <2>2. Long(E, F[i].first, F[i].size)
    BY <1>2, <2>1, FirstLink, LongExtends
  <2>3. Rooted(E, F[i].first)
    <3> SUFFICES ASSUME F[i].first \in Clusters
                 PROVE  E[F[i].first] # 0 /\ \A k \in Clusters : E[k] # F[i].first
      BY DEF Rooted
    <3>1. E[F[i].first] # 0
      BY <2>1 DEF Rooted, Extends
    <3>2. ASSUME NEW k \in Clusters, E[k] = F[i].first PROVE FALSE
      <4>1. T[k] = F[i].first
        BY <3>2, Table DEF Behind
      <4> QED BY <4>1 DEF Rooted
    <3> QED BY <3>1, <3>2
  <2> QED BY <2>2, <2>3
<1> QED BY <1>1, <1>3 DEF Laid

\* One file has changed.
LEMMA LaidReplace ==
  ASSUME NEW T, NEW F, Laid(T, F), NEW p \in DOMAIN F, NEW G, DOMAIN G = DOMAIN F,
         \A j \in DOMAIN G \ {p} : G[j].first = F[j].first /\ G[j].size = F[j].size,
         G[p].first \in {0} \cup Clusters, G[p].size \in Nat,
         Rooted(T, G[p].first), Long(T, G[p].first, G[p].size),
         G[p].first = 0 \/ G[p].first = F[p].first \/ \A j \in DOMAIN F : F[j].first # G[p].first
  PROVE  Laid(T, G)
<1>1. ASSUME NEW i \in DOMAIN G
      PROVE  /\ G[i].first \in {0} \cup Clusters /\ G[i].size \in Nat
             /\ Rooted(T, G[i].first) /\ Long(T, G[i].first, G[i].size)
  BY DEF Laid
<1>2. ASSUME NEW i \in DOMAIN G, NEW j \in DOMAIN G, G[i].first = G[j].first, G[i].first # 0, i # j
      PROVE  FALSE
  <2>1. CASE i # p /\ j # p
    BY <1>2, <2>1 DEF Laid
  <2>2. ASSUME NEW k \in DOMAIN G, k # p, G[k].first = G[p].first, G[p].first # 0
        PROVE  FALSE
    <3>1. F[k].first = G[p].first
      BY <2>2
    <3>2. G[p].first = F[p].first
      BY <2>2, <3>1
    <3> QED BY <2>2, <3>1, <3>2 DEF Laid
  <2> QED BY <1>2, <2>1, <2>2
<1> QED BY <1>1, <1>2 DEF Laid

\* An open file stays placed while others take clusters.
LEMMA PlacedGrows ==
  ASSUME NEW T \in TableType, NEW U \in TableType, Grows(U, T), NEW f \in OpenType, Placed(T, f)
  PROVE  Placed(U, f)
<1>1. f.first \in {0} \cup Clusters /\ f.cur \in {0} \cup Clusters /\ f.first \in Link
  BY FirstLink DEF OpenType
<1>2. Rooted(U, f.first) /\ Long(U, f.first, f.size)
  BY <1>1, RootedGrows, LongExtends DEF Placed, Grows
<1>3. PICK q \in 0..MaxCluster : f.cpos = q * ClusterSecs /\ f.cur = Chain(T, f.first)[q]
  BY DEF Placed
<1>4. f.cur = Chain(U, f.first)[q]
  <2>1. CASE f.first = 0
    BY <1>3, <2>1, NoChain
  <2>2. CASE f.first # 0
    <3>1. f.cur \in Clusters
      BY <1>1, <2>2 DEF Placed
    <3> QED BY <1>1, <1>3, <3>1, ChainExtends DEF Grows
  <2> QED BY <2>1, <2>2
<1> QED BY <1>2, <1>3, <1>4 DEF Placed

\* An open file stays placed while another gives back clusters.
LEMMA PlacedShrinks ==
  ASSUME NEW T \in TableType, Linked(T), NEW U \in TableType, NEW x \in Link, Rooted(T, x),
         Shrinks(U, T, x), NEW f \in OpenType, Placed(T, f), f.first # x \/ f.first = 0
  PROVE  Placed(U, f)
<1>1. f.first \in {0} \cup Clusters /\ f.cur \in {0} \cup Clusters /\ f.first \in Link
  BY FirstLink DEF OpenType
<1>2. Rooted(T, f.first) /\ Long(T, f.first, f.size)
  BY DEF Placed
<1>3. /\ Rooted(U, f.first)
      /\ \A k \in 0..MaxCluster :
           Chain(T, f.first)[k] \in Clusters => Chain(U, f.first)[k] = Chain(T, f.first)[k]
  BY <1>1, <1>2, OthersShrink, ZenonT(60)
<1>4. Long(U, f.first, f.size)
  BY <1>2, <1>3 DEF Long
<1>5. PICK q \in 0..MaxCluster : f.cpos = q * ClusterSecs /\ f.cur = Chain(T, f.first)[q]
  BY DEF Placed
<1>6. f.cur = Chain(U, f.first)[q]
  <2>1. CASE f.first = 0
    BY <1>5, <2>1, NoChain
  <2>2. CASE f.first # 0
    <3>1. f.cur \in Clusters
      BY <1>1, <2>2 DEF Placed
    <3> QED BY <1>3, <1>5, <3>1
  <2> QED BY <2>1, <2>2
<1> QED BY <1>3, <1>4, <1>5, <1>6 DEF Placed

\* The slot of a file just opened.
LEMMA EnteredPlaced ==
  ASSUME NEW T \in TableType, NEW p \in Places, NEW m \in Modes,
         NEW first \in {0} \cup Clusters, NEW size \in 0..MaxSecs,
         Rooted(T, first), Long(T, first, size)
  PROVE  LET e == Entered(p, m, first, size)
         IN  /\ e \in OpenType /\ Placed(T, e) /\ e.open /\ ~e.dirty
             /\ e.place = p /\ e.mode = m /\ e.first = first /\ e.size = size
<1>1. PICK e : e = Entered(p, m, first, size)
  OBVIOUS
<1>2. /\ e.place = p /\ e.mode = m /\ e.first = first /\ e.size = size
      /\ e.cur = first /\ e.cpos = 0 /\ e.dirty = FALSE /\ e.open = TRUE /\ e.pos = 0
  BY <1>1 DEF Entered
<1>3. 0 \in {k * ClusterSecs : k \in 0..(MaxSecs \div ClusterSecs)} /\ 0 = 0 * ClusterSecs
  <2>1. 0 \in 0..(MaxSecs \div ClusterSecs)
    BY InputAssumption, DivSecs
  <2> QED BY <2>1, Table
<1>4. 0 \in 0..MaxSecs /\ 0 \in 0..MaxCluster
  BY InputAssumption, Table
<1>5. e \in OpenType
  BY <1>1, <1>3, <1>4 DEF Entered, OpenType
<1>6. Chain(T, first)[0] = first
  BY FirstLink, ChainSteps
<1>7. Placed(T, e)
  BY <1>2, <1>3, <1>4, <1>6 DEF Placed
<1> QED BY <1>1, <1>2, <1>5, <1>7

\* The slots S agree with the entries D.
Agree(D, S) ==
  /\ OneWriter(S)
  /\ \A s \in Slots : S[s].open =>
       /\ ~S[s].dirty => S[s].first = D[S[s].place].first /\ S[s].size = D[S[s].place].size
       /\ S[s].dirty => S[s].mode.access # 0 /\ D[S[s].place].first \in {0, S[s].first}

\* Slots that are right agree with the entries.
LEMMA OpenAgree ==
  ASSUME NEW D, NEW T, NEW S, OneWriter(S),
         \A s \in Slots : S[s].open => OpenRight(D, T, S[s])
  PROVE  Agree(D, S)
BY DEF Agree, OpenRight

\* So they do under the invariant.
LEMMA RightAgree ==
  ASSUME NEW D, NEW V, NEW A, NEW S, Right(D, V, A, S)
  PROVE  Agree(D, S)
BY OpenAgree DEF Right

\* What the slots and the entries say of a file.
LEMMA NowFields ==
  ASSUME NEW D, NEW S, Agree(D, S), NEW i \in Used(D)
  PROVE  /\ \A s \in Slots : S[s].open /\ S[s].place = i =>
              Now(D, S)[i].first = S[s].first /\ Now(D, S)[i].size = S[s].size
         /\ (\A s \in Slots : ~(S[s].open /\ S[s].place = i)) => Now(D, S)[i] = D[i]
         /\ (\A s \in Slots : S[s].open /\ S[s].place = i => ~S[s].dirty) => Now(D, S)[i] = D[i]
         /\ D[i].first \in {0, Now(D, S)[i].first}
<1>1. Now(D, S)[i] =
        IF DirtyAt(S, i) = {} THEN D[i] ELSE S[CHOOSE s \in DirtyAt(S, i) : TRUE]
  BY DEF Now
<1>2. CASE DirtyAt(S, i) = {}
  <2>1. Now(D, S)[i] = D[i]
    BY <1>1, <1>2
  <2>2. ASSUME NEW s \in Slots, S[s].open /\ S[s].place = i
        PROVE  D[i].first = S[s].first /\ D[i].size = S[s].size
    <3>1. ~S[s].dirty
      BY <1>2, <2>2 DEF DirtyAt
    <3> QED BY <2>2, <3>1 DEF Agree
  <2> QED BY <2>1, <2>2
<1>3. CASE DirtyAt(S, i) # {}
  <2>1. PICK w : w = CHOOSE s \in DirtyAt(S, i) : TRUE
    OBVIOUS
  <2>2. w \in DirtyAt(S, i)
    BY <1>3, <2>1
  <2>3. w \in Slots /\ S[w].open /\ S[w].place = i /\ S[w].dirty
    BY <2>2 DEF DirtyAt
  <2>4. Now(D, S)[i] = S[w]
    BY <1>1, <1>3, <2>1
  <2>5. S[w].mode.access # 0 /\ D[i].first \in {0, S[w].first}
    BY <2>3 DEF Agree
  <2>6. \A s \in Slots : S[s].open /\ S[s].place = i => s = w
    BY <2>3, <2>5 DEF OneWriter, Agree
  <2> QED BY <2>3, <2>4, <2>5, <2>6
<1> QED BY <1>2, <1>3

\* The fields of an entry in use.
LEMMA UsedPlaces ==
  ASSUME NEW D \in [Places -> EntryType], NEW i \in Used(D)
  PROVE  /\ i \in Places /\ D[i].used /\ D[i].first \in {0} \cup Clusters
         /\ D[i].size \in 0..MaxSecs /\ D[i].size \in Nat
         /\ D[i] \in [used : {TRUE}, name : Names, first : {0} \cup Clusters, size : 0..MaxSecs]
<1>1. i \in Places /\ D[i].used
  BY DEF Used
<1>2. D[i] \in EntryType /\ D[i] # NoFile
  BY <1>1 DEF NoFile
<1>3. D[i] \in [used : {TRUE}, name : Names, first : {0} \cup Clusters, size : 0..MaxSecs]
  BY <1>2 DEF EntryType
<1>4. D[i].first \in {0} \cup Clusters /\ D[i].size \in 0..MaxSecs
  BY <1>3
<1>5. D[i].size \in Nat
  BY <1>4, InputAssumption
<1> QED BY <1>1, <1>3, <1>4, <1>5

\* The entries, behind the slots, are laid in the table of the kernel too.
LEMMA EntriesLaid ==
  ASSUME NEW D, NEW V, NEW A, NEW S, Right(D, V, A, S)
  PROVE  /\ Laid(V.fat, Entries(D))
         /\ \A i \in Used(D) : D[i].first \in {0, Now(D, S)[i].first}
<1>1. /\ Laid(V.fat, Now(D, S)) /\ Laid(V.disk, Entries(D)) /\ OneWriter(S)
      /\ \A s \in Slots : S[s].open => OpenRight(D, V.fat, S[s])
      /\ Extends(V.fat, V.disk)
  BY BehindExtends DEF Right, Good
<1>2. \A i \in Used(D) : D[i].first \in {0, Now(D, S)[i].first}
  BY RightAgree, NowFields
<1>3. /\ DOMAIN Entries(D) = Used(D) /\ DOMAIN Now(D, S) = Used(D)
      /\ \A i \in Used(D) : Entries(D)[i] = D[i]
  BY DEF Entries, Now
<1>4. PICK F : F = Now(D, S)
  OBVIOUS
<1>5. PICK E : E = Entries(D)
  OBVIOUS
<1>6. Laid(V.fat, E)
  BY <1>1, <1>2, <1>3, <1>4, <1>5, LaidMixed
<1> QED BY <1>2, <1>5, <1>6

\* The slots S2 are S with e in the slot l.
Swapped(S2, S, l, e) ==
  S2 \in [Slots -> {Closed} \cup OpenType] /\ S2[l] = e /\ \A s \in Slots : s # l => S2[s] = S[s]

\* The open file e, and the others open at its place, are open for reading.
Joins(S, e) ==
  \A s \in Slots : S[s].open /\ S[s].place = e.place =>
    S[s].mode.access = 0 /\ e.mode.access = 0

\* A new slot for a file that is open for reading only, or not at all.
LEMMA AddSlot ==
  ASSUME NEW D, NEW V, NEW A, NEW S, Right(D, V, A, S), NEW l \in Slots, ~S[l].open,
         NEW e \in OpenType, ~e.dirty, OpenRight(D, V.fat, e),
         Joins(S, e), NEW S2, Swapped(S2, S, l, e)
  PROVE  /\ Right(D, V, A, S2)
         /\ \A i \in Used(D) : Now(D, S2)[i].first = Now(D, S)[i].first
<1>1. /\ D \in [Places -> EntryType] /\ S \in [Slots -> {Closed} \cup OpenType]
      /\ Laid(V.fat, Now(D, S)) /\ OneWriter(S)
      /\ \A s \in Slots : S[s].open => OpenRight(D, V.fat, S[s])
  BY DEF Right
<1>2. S2 \in [Slots -> {Closed} \cup OpenType]
  BY DEF Swapped
<1>3. S2[l] = e /\ \A s \in Slots : s # l => S2[s] = S[s]
  BY DEF Swapped
<1>4. \A s \in Slots : S2[s].open => OpenRight(D, V.fat, S2[s])
  BY <1>1, <1>3
<1>5. OneWriter(S2)
  BY <1>1, <1>3 DEF OneWriter, Joins
<1>7. Agree(D, S2)
  BY <1>4, <1>5, OpenAgree
<1>6. \A i \in Used(D) : /\ Now(D, S2)[i].first = Now(D, S)[i].first
                         /\ Now(D, S2)[i].size = Now(D, S)[i].size
  <2> TAKE i \in Used(D)
  <2>1. DirtyAt(S2, i) = DirtyAt(S, i)
    BY <1>3 DEF DirtyAt
  <2>2. CASE DirtyAt(S, i) = {}
    BY <2>1, <2>2 DEF Now
  <2>3. CASE DirtyAt(S, i) # {}
    <3>1. PICK w : w = CHOOSE s \in DirtyAt(S, i) : TRUE
      OBVIOUS
    <3>2. w \in Slots /\ S[w].open /\ S[w].place = i
      BY <2>3, <3>1 DEF DirtyAt
    <3>3. S2[w].open /\ S2[w].place = i /\ S2[w] = S[w]
      BY <1>3, <3>2
    <3>4. \A j \in Slots : S[j].open /\ S[j].place = i =>
            Now(D, S)[i].first = S[j].first /\ Now(D, S)[i].size = S[j].size
      BY RightAgree, NowFields
    <3>5. \A j \in Slots : S2[j].open /\ S2[j].place = i =>
            Now(D, S2)[i].first = S2[j].first /\ Now(D, S2)[i].size = S2[j].size
      <4>1. PICK Z : Z = S2
        OBVIOUS
      <4>2. Agree(D, Z)
        BY <1>7, <4>1
      <4>3. \A j \in Slots : Z[j].open /\ Z[j].place = i =>
              Now(D, Z)[i].first = Z[j].first /\ Now(D, Z)[i].size = Z[j].size
        BY <4>2, NowFields
      <4> QED BY <4>1, <4>3
    <3>6. Now(D, S)[i].first = S[w].first /\ Now(D, S)[i].size = S[w].size
      BY <3>2, <3>4
    <3>7. Now(D, S2)[i].first = S2[w].first /\ Now(D, S2)[i].size = S2[w].size
      BY <3>2, <3>3, <3>5, Zenon
    <3> QED BY <3>3, <3>6, <3>7, Zenon
  <2> QED BY <2>2, <2>3
<1>8. Laid(V.fat, Now(D, S2))
  <2>1. DOMAIN Now(D, S2) = Used(D) /\ DOMAIN Now(D, S) = Used(D)
    BY DEF Now
  <2>2. PICK F : F = Now(D, S)
    OBVIOUS
  <2>3. PICK G : G = Now(D, S2)
    OBVIOUS
  <2>4. /\ DOMAIN G \subseteq DOMAIN F /\ Laid(V.fat, F)
        /\ \A i \in DOMAIN G : G[i].first = F[i].first /\ G[i].size = F[i].size
    BY <1>1, <1>6, <2>1, <2>2, <2>3
  <2>5. Laid(V.fat, G)
    BY <2>4, LaidFields
  <2> QED BY <2>3, <2>5
<1>9. Right(D, V, A, S2)
  BY <1>2, <1>4, <1>5, <1>8 DEF Right
<1> QED BY <1>6, <1>9

\* A slot that is as its entry says is closed.
LEMMA DropSlot ==
  ASSUME NEW D, NEW V, NEW A, NEW S, Right(D, V, A, S), NEW s \in Slots, S[s].open, ~S[s].dirty,
         NEW S2, Swapped(S2, S, s, Closed)
  PROVE  /\ Right(D, V, A, S2)
         /\ \A i \in Used(D) : Now(D, S2)[i].first = Now(D, S)[i].first
<1>1. /\ D \in [Places -> EntryType] /\ S \in [Slots -> {Closed} \cup OpenType]
      /\ Laid(V.fat, Now(D, S)) /\ OneWriter(S)
      /\ \A j \in Slots : S[j].open => OpenRight(D, V.fat, S[j])
  BY DEF Right
<1>2. S2 \in [Slots -> {Closed} \cup OpenType]
  BY DEF Swapped
<1>3. ~S2[s].open /\ \A j \in Slots : j # s => S2[j] = S[j]
  BY DEF Swapped, Closed
<1>4. \A j \in Slots : S2[j].open => OpenRight(D, V.fat, S2[j])
  BY <1>1, <1>3
<1>5. OneWriter(S2)
  BY <1>1, <1>3 DEF OneWriter
<1>7. Agree(D, S2)
  BY <1>4, <1>5, OpenAgree
<1>6. \A i \in Used(D) : /\ Now(D, S2)[i].first = Now(D, S)[i].first
                         /\ Now(D, S2)[i].size = Now(D, S)[i].size
  <2> TAKE i \in Used(D)
  <2>1. DirtyAt(S2, i) = DirtyAt(S, i)
    BY <1>3 DEF DirtyAt
  <2>2. CASE DirtyAt(S, i) = {}
    BY <2>1, <2>2 DEF Now
  <2>3. CASE DirtyAt(S, i) # {}
    <3>1. PICK w : w = CHOOSE j \in DirtyAt(S, i) : TRUE
      OBVIOUS
    <3>2. w \in Slots /\ S[w].open /\ S[w].place = i /\ S[w].dirty
      BY <2>3, <3>1 DEF DirtyAt
    <3>3. S2[w].open /\ S2[w].place = i /\ S2[w] = S[w]
      BY <1>3, <3>2
    <3>4. \A j \in Slots : S[j].open /\ S[j].place = i =>
            Now(D, S)[i].first = S[j].first /\ Now(D, S)[i].size = S[j].size
      BY RightAgree, NowFields
    <3>5. \A j \in Slots : S2[j].open /\ S2[j].place = i =>
            Now(D, S2)[i].first = S2[j].first /\ Now(D, S2)[i].size = S2[j].size
      <4>1. PICK Z : Z = S2
        OBVIOUS
      <4>2. Agree(D, Z)
        BY <1>7, <4>1
      <4>3. \A j \in Slots : Z[j].open /\ Z[j].place = i =>
              Now(D, Z)[i].first = Z[j].first /\ Now(D, Z)[i].size = Z[j].size
        BY <4>2, NowFields
      <4> QED BY <4>1, <4>3
    <3>6. Now(D, S)[i].first = S[w].first /\ Now(D, S)[i].size = S[w].size
      BY <3>2, <3>4
    <3>7. Now(D, S2)[i].first = S2[w].first /\ Now(D, S2)[i].size = S2[w].size
      BY <3>2, <3>3, <3>5, Zenon
    <3> QED BY <3>3, <3>6, <3>7, Zenon
  <2> QED BY <2>2, <2>3
<1>8. Laid(V.fat, Now(D, S2))
  <2>1. DOMAIN Now(D, S2) = Used(D) /\ DOMAIN Now(D, S) = Used(D)
    BY DEF Now
  <2>2. PICK F : F = Now(D, S)
    OBVIOUS
  <2>3. PICK G : G = Now(D, S2)
    OBVIOUS
  <2>4. /\ DOMAIN G \subseteq DOMAIN F /\ Laid(V.fat, F)
        /\ \A i \in DOMAIN G : G[i].first = F[i].first /\ G[i].size = F[i].size
    BY <1>1, <1>6, <2>1, <2>2, <2>3
  <2>5. Laid(V.fat, G)
    BY <2>4, LaidFields
  <2> QED BY <2>3, <2>5
<1>9. Right(D, V, A, S2)
  BY <1>2, <1>4, <1>5, <1>8 DEF Right
<1> QED BY <1>6, <1>9

\* The cache of the FAT is filled or written.
LEMMA VolMoves ==
  ASSUME NEW D, NEW V, NEW A, NEW S, Right(D, V, A, S), NEW V2, Held(V2, V)
  PROVE  Right(D, V2, A, S)
<1>1. Good(V) /\ Laid(V.disk, Entries(D)) /\ Laid(V.fat, Entries(D))
  BY EntriesLaid DEF Right
<1>2. Good(V2)
  BY <1>1, HeldGood
<1>3. V2.fat = V.fat /\ Laid(V2.disk, Entries(D))
  BY <1>1 DEF Held
<1> QED BY <1>2, <1>3 DEF Right

----------------------------------------------------------------------------
(* Steps of a call, on the entries D, the volume V and the slots S.        *)

\* What is in no file of F2 in the table T2 and not free was so in T and F.
NoneLost(T2, F2, T, F) ==
  \A c \in Clusters :
    T2[c] # 0 /\ (\A i \in DOMAIN F2 : c \notin ClustersOf(T2, F2[i].first)) =>
      T[c] # 0 /\ \A i \in DOMAIN F : c \notin ClustersOf(T, F[i].first)

\* None is lost when table and first clusters stay.
LEMMA NoneLostSame ==
  ASSUME NEW T, NEW F, NEW F2, DOMAIN F2 = DOMAIN F, \A i \in DOMAIN F : F2[i].first = F[i].first
  PROVE  NoneLost(T, F2, T, F)
BY DEF NoneLost

\* A transfer of the slot s.
LEMMA TransferRight ==
  ASSUME NEW D, NEW V, NEW A, NEW S, Right(D, V, A, S), NEW s \in Slots, S[s].open,
         NEW t, Moving(t, S[s], V), t.f.dirty => S[s].mode.access # 0,
         NEW S2 \in [Slots -> {Closed} \cup OpenType], S2[s] = t.f,
         \A j \in Slots : j # s => S2[j] = S[j]
  PROVE  /\ Right(D, t.vol, t.data, S2)
         /\ NoneLost(t.vol.fat, Now(D, S2), V.fat, Now(D, S))
<1> DEFINE p == S[s].place
<1>1. /\ D \in [Places -> EntryType] /\ S \in [Slots -> {Closed} \cup OpenType]
      /\ Laid(V.fat, Now(D, S)) /\ OneWriter(S) /\ Laid(V.disk, Entries(D)) /\ Good(V)
      /\ \A j \in Slots : S[j].open => OpenRight(D, V.fat, S[j])
  BY DEF Right
<1>2. /\ t \in TransferType /\ Good(t.vol) /\ Grown(t.vol, V) /\ Placed(t.vol.fat, t.f)
      /\ t.f.place = p /\ t.f.mode = S[s].mode
      /\ S[s].first # 0 => t.f.first = S[s].first
      /\ S[s].first = 0 /\ t.f.first # 0 => V.fat[t.f.first] = 0
      /\ ~t.f.dirty => t.f.first = S[s].first /\ t.f.size = S[s].size /\ ~S[s].dirty
      /\ \A c \in Clusters : t.vol.fat[c] # 0 => V.fat[c] # 0 \/ c \in ClustersOf(t.vol.fat, t.f.first)
  BY DEF Moving
<1>3. /\ t.f \in OpenType /\ t.data \in DataType /\ t.f.open
      /\ t.f.first \in {0} \cup Clusters /\ t.f.size \in Nat
  <2>1. t.f \in OpenType /\ t.data \in DataType
    BY <1>2 DEF TransferType
  <2>2. t.f.open
    BY <2>1 DEF OpenType
  <2> QED BY <1>2, <2>1, <2>2, OpenFields
<1>4. /\ V.fat \in TableType /\ t.vol.fat \in TableType /\ Linked(t.vol.fat)
      /\ t.vol.disk \in TableType
      /\ Grows(t.vol.fat, V.fat) /\ Extends(t.vol.fat, V.fat) /\ Extends(t.vol.disk, V.disk)
      /\ Behind(t.vol.disk, t.vol.fat)
  BY <1>1, <1>2 DEF Good, VolType, Grown, Grows
<1>5. OpenRight(D, V.fat, S[s]) /\ p \in Places /\ D[p].used /\ p \in Used(D)
  <2>1. OpenRight(D, V.fat, S[s])
    BY <1>1
  <2>2. S[s] \in OpenType
    BY <1>1 DEF Closed
  <2>3. p \in Places
    BY <2>2 DEF OpenType
  <2> QED BY <2>1, <2>3 DEF OpenRight, Used
<1>6. OpenRight(D, t.vol.fat, t.f)
  <2>1. t.f.mode \in OpenModes \cup {Mode(0, 2)} /\ D[t.f.place].used
    BY <1>2, <1>5 DEF OpenRight
  <2>2. ~t.f.dirty => t.f.first = D[t.f.place].first /\ t.f.size = D[t.f.place].size
    BY <1>2, <1>5 DEF OpenRight
  <2>3. t.f.dirty => t.f.mode.access # 0
    BY <1>2
  <2>4. D[p].first \in {0, S[s].first}
    BY <1>5 DEF OpenRight
  <2>5. D[t.f.place].first \in {0, t.f.first}
    BY <1>2, <2>4
  <2> QED BY <1>2, <2>1, <2>2, <2>3, <2>5 DEF OpenRight
<1>7. ASSUME NEW j \in Slots, S2[j].open PROVE OpenRight(D, t.vol.fat, S2[j])
  <2>1. CASE j = s
    BY <1>6, <2>1
  <2>2. CASE j # s
    <3>1. S2[j] = S[j]
      BY <2>2
    <3>2. S[j].open /\ S[j] \in OpenType
      BY <1>1, <1>7, <3>1 DEF Closed
    <3>3. OpenRight(D, V.fat, S[j])
      BY <1>1, <3>2
    <3>4. Placed(t.vol.fat, S[j])
      BY <1>4, <3>2, <3>3, PlacedGrows DEF OpenRight
    <3> QED BY <3>1, <3>3, <3>4 DEF OpenRight
  <2> QED BY <2>1, <2>2
<1>8. OneWriter(S2)
  <2>1. \A j \in Slots : S2[j].open => S[j].open /\ S2[j].place = S[j].place /\ S2[j].mode = S[j].mode
    BY <1>2
  <2> QED BY <1>1, <2>1 DEF OneWriter
<1>9. Agree(D, S2) /\ Agree(D, S)
  BY <1>7, <1>8, OpenAgree, RightAgree
<1>10. PICK F : F = Now(D, S)
  OBVIOUS
<1>11. PICK G : G = Now(D, S2)
  OBVIOUS
<1>12. DOMAIN F = Used(D) /\ DOMAIN G = Used(D)
  BY <1>10, <1>11 DEF Now
<1>13. G[p].first = t.f.first /\ G[p].size = t.f.size
  <2>1. \A j \in Slots : S2[j].open /\ S2[j].place = p =>
          G[p].first = S2[j].first /\ G[p].size = S2[j].size
    BY <1>5, <1>9, <1>11, NowFields
  <2>2. S2[s].open /\ S2[s].place = p
    BY <1>2, <1>3
  <2> QED BY <2>1, <2>2
<1>14. F[p].first = S[s].first
  <2>1. \A j \in Slots : S[j].open /\ S[j].place = p =>
          F[p].first = S[j].first /\ F[p].size = S[j].size
    BY <1>5, <1>9, <1>10, NowFields
  <2> QED BY <2>1
<1>15. ASSUME NEW i \in Used(D), i # p PROVE G[i].first = F[i].first /\ G[i].size = F[i].size
  <2>1. \A j \in Slots : S2[j].open /\ S2[j].place = i =>
          G[i].first = S2[j].first /\ G[i].size = S2[j].size
    BY <1>9, <1>11, NowFields
  <2>2. (\A j \in Slots : ~(S2[j].open /\ S2[j].place = i)) => G[i] = D[i]
    BY <1>9, <1>11, NowFields
  <2>3. \A j \in Slots : S[j].open /\ S[j].place = i =>
          F[i].first = S[j].first /\ F[i].size = S[j].size
    BY <1>9, <1>10, NowFields
  <2>4. (\A j \in Slots : ~(S[j].open /\ S[j].place = i)) => F[i] = D[i]
    BY <1>9, <1>10, NowFields
  <2>5. \A j \in Slots : S2[j].place = i => S2[j] = S[j] \/ ~S2[j].open
    BY <1>2, <1>15
  <2>6. \A j \in Slots : S[j].place = i /\ S[j].open => S2[j] = S[j]
    BY <1>15
  <2>7. CASE \E j \in Slots : S2[j].open /\ S2[j].place = i
    BY <2>1, <2>3, <2>5, <2>7
  <2>8. CASE ~(\E j \in Slots : S2[j].open /\ S2[j].place = i)
    BY <2>2, <2>4, <2>6, <2>8
  <2> QED BY <2>7, <2>8
<1>16. Laid(t.vol.fat, F)
  BY <1>1, <1>4, <1>10, LaidGrows
<1>17. G[p].first = 0 \/ G[p].first = F[p].first \/ \A j \in DOMAIN F : F[j].first # G[p].first
  <2> SUFFICES ASSUME t.f.first # 0, S[s].first = 0
               PROVE  \A j \in DOMAIN F : F[j].first # t.f.first
    BY <1>2, <1>13, <1>14
  <2>1. V.fat[t.f.first] = 0 /\ t.f.first \in Clusters
    BY <1>2, <1>3
  <2>2. \A j \in DOMAIN F : Rooted(V.fat, F[j].first)
    BY <1>1, <1>10 DEF Laid
  <2> QED BY <2>1, <2>2 DEF Rooted
<1>18. Laid(t.vol.fat, G)
  <2>1. Rooted(t.vol.fat, G[p].first) /\ Long(t.vol.fat, G[p].first, G[p].size)
    BY <1>2, <1>13 DEF Placed
  <2>2. G[p].first \in {0} \cup Clusters /\ G[p].size \in Nat
    BY <1>3, <1>13
  <2>3. \A j \in DOMAIN G \ {p} : G[j].first = F[j].first /\ G[j].size = F[j].size
    BY <1>12, <1>15
  <2>4. p \in DOMAIN F /\ DOMAIN G = DOMAIN F
    BY <1>5, <1>12
  <2> HIDE DEF p
  <2> QED BY <1>16, <1>17, <2>1, <2>2, <2>3, <2>4, LaidReplace
<1>19. Laid(t.vol.disk, Entries(D))
  <2>1. \A i \in Used(D) : D[i].first \in {0, G[i].first}
    BY <1>9, <1>11, NowFields
  <2>2. \A i \in Used(D) : Rooted(t.vol.fat, D[i].first)
    <3>1. \A i \in Used(D) : Rooted(t.vol.fat, G[i].first)
      BY <1>12, <1>18 DEF Laid
    <3> QED BY <2>1, <3>1, Table DEF Rooted
  <2>3. DOMAIN Entries(D) = Used(D) /\ \A i \in Used(D) : Entries(D)[i] = D[i]
    BY DEF Entries
  <2>4. PICK E : E = Entries(D)
    OBVIOUS
  <2>5. \A i \in DOMAIN E : Rooted(t.vol.fat, E[i].first)
    BY <2>2, <2>3, <2>4
  <2>6. Laid(t.vol.disk, E)
    BY <1>1, <1>4, <2>4, <2>5, LaidBehind
  <2> QED BY <2>4, <2>6
<1>20. Right(D, t.vol, t.data, S2)
  BY <1>1, <1>2, <1>3, <1>7, <1>8, <1>11, <1>18, <1>19 DEF Right
<1>21. NoneLost(t.vol.fat, G, V.fat, F)
  <2> SUFFICES ASSUME NEW c \in Clusters, t.vol.fat[c] # 0,
                      \A i \in DOMAIN G : c \notin ClustersOf(t.vol.fat, G[i].first)
               PROVE  V.fat[c] # 0 /\ \A i \in DOMAIN F : c \notin ClustersOf(V.fat, F[i].first)
    BY DEF NoneLost
  <2>1. c \notin ClustersOf(t.vol.fat, t.f.first)
    BY <1>5, <1>12, <1>13
  <2>2. V.fat[c] # 0
    BY <1>2, <2>1
  <2>3. ASSUME NEW i \in DOMAIN F PROVE c \notin ClustersOf(V.fat, F[i].first)
    <3>1. F[i].first \in Link
      BY <1>1, <1>10, FirstLink DEF Laid
    <3>2. F[i].first = 0 \/ G[i].first = F[i].first
      BY <1>2, <1>12, <1>13, <1>14, <1>15
    <3>3. CASE F[i].first = 0
      BY <1>4, <3>3, NoChain
    <3>4. CASE G[i].first = F[i].first
      <4>1. ClustersOf(V.fat, F[i].first) \subseteq ClustersOf(t.vol.fat, F[i].first)
        BY <1>4, <3>1, ClustersExtend
      <4> QED BY <1>12, <3>4, <4>1
    <3> QED BY <3>2, <3>3, <3>4
  <2> QED BY <2>2, <2>3
<1> QED BY <1>10, <1>11, <1>20, <1>21

\* The entry at p is written.
Saved(D, p, first, size) == [D EXCEPT ![p].first = first, ![p].size = size]

\* What writing the entry changes and leaves alone.
LEMMA SavedEntries ==
  ASSUME NEW D \in [Places -> EntryType], NEW p \in Used(D), NEW first \in {0} \cup Clusters,
         NEW size \in 0..MaxSecs
  PROVE  LET D2 == Saved(D, p, first, size)
         IN  /\ D2 \in [Places -> EntryType] /\ Used(D2) = Used(D) /\ D2[p].used
             /\ D2[p].first = first /\ D2[p].size = size /\ D2[p].name = D[p].name
             /\ \A i \in Places : i # p => D2[i] = D[i]
<1>1. p \in Places /\ D[p].used
      /\ D[p] \in [used : {TRUE}, name : Names, first : {0} \cup Clusters, size : 0..MaxSecs]
  BY UsedPlaces
<1>2. PICK e : e = [D[p] EXCEPT !.first = first]
  OBVIOUS
<1>3. PICK e2 : e2 = [e EXCEPT !.size = size]
  OBVIOUS
<1>4. PICK D2 : D2 = Saved(D, p, first, size)
  OBVIOUS
<1>5. D2 = [[D EXCEPT ![p].first = first] EXCEPT ![p].size = size]
  BY <1>4 DEF Saved
<1>6. [D EXCEPT ![p].first = first] = [D EXCEPT ![p] = e]
  BY <1>1, <1>2
<1>7. PICK D1 : D1 = [D EXCEPT ![p] = e]
  OBVIOUS
<1>8. D2 = [D1 EXCEPT ![p].size = size] /\ D1[p] = e /\ DOMAIN D1 = Places
  BY <1>1, <1>5, <1>6, <1>7
<1>9. D2[p] = e2 /\ DOMAIN D2 = Places /\ \A i \in Places : i # p => D2[i] = D[i]
  BY <1>1, <1>3, <1>7, <1>8
<1>10. e \in [used : {TRUE}, name : Names, first : {0} \cup Clusters, size : 0..MaxSecs]
       /\ e.first = first /\ e.name = D[p].name
  BY <1>1, <1>2
<1>11. e2 \in [used : {TRUE}, name : Names, first : {0} \cup Clusters, size : 0..MaxSecs]
       /\ e2.first = first /\ e2.size = size /\ e2.name = D[p].name /\ e2.used
  BY <1>3, <1>10
<1>12. e2 \in EntryType
  BY <1>11 DEF EntryType
<1>13. \A i \in Places : D2[i] \in EntryType /\ (D2[i].used <=> D[i].used)
  BY <1>1, <1>9, <1>11, <1>12
<1>14. D2 \in [Places -> EntryType]
  <2>1. D2 = [i \in Places |-> D2[i]]
    BY <1>7, <1>8, <1>9
  <2> QED BY <1>13, <2>1
<1>15. Used(D2) = Used(D)
  BY <1>13 DEF Used
<1> QED BY <1>4, <1>9, <1>11, <1>14, <1>15

\* The table is written, and the files of the entries are laid in it.
LEMMA CommitRight ==
  ASSUME NEW D \in [Places -> EntryType], NEW A \in DataType,
         NEW S \in [Slots -> {Closed} \cup OpenType], NEW w \in VolType, Cache(w), Linked(w.fat),
         OneWriter(S), \A j \in Slots : S[j].open => OpenRight(D, w.fat, S[j]),
         Laid(w.fat, Entries(D)), Laid(w.fat, Now(D, S)),
         NEW V, V = fat_commit(w)
  PROVE  Right(D, V, A, S) /\ V.fat = w.fat
<1>1. V \in VolType /\ Cache(V) /\ V.fat = w.fat /\ V.disk = w.fat
  BY CommitHeld DEF Held
<1>2. Good(V)
  BY <1>1, BehindSelf DEF Good
<1> QED BY <1>1, <1>2 DEF Right

\* The file f in the slot s, open for writing, is written to its entry and the
\* table to the disk.  E and G are the files of the entries and of the kernel
\* with it.
LEMMA FlushState ==
  ASSUME NEW D \in [Places -> EntryType], NEW A \in DataType,
         NEW S \in [Slots -> {Closed} \cup OpenType], OneWriter(S), Agree(D, S),
         NEW s \in Slots, S[s].open, S[s].mode.access # 0,
         NEW w \in VolType, Cache(w), Linked(w.fat),
         NEW f \in OpenType, ~f.dirty, f.place = S[s].place, f.mode = S[s].mode,
         f.mode \in OpenModes \cup {Mode(0, 2)},
         f.place \in Used(D), Placed(w.fat, f), f.size \in 0..MaxSecs,
         \A j \in Slots : j # s /\ S[j].open => OpenRight(D, w.fat, S[j]),
         NEW E, DOMAIN E = Used(D), Laid(w.fat, E),
         E[f.place].first = f.first, E[f.place].size = f.size,
         \A i \in Used(D) : i # f.place => E[i].first = D[i].first /\ E[i].size = D[i].size,
         NEW G, DOMAIN G = Used(D), Laid(w.fat, G),
         G[f.place].first = f.first, G[f.place].size = f.size,
         \A i \in Used(D) : i # f.place =>
           G[i].first = Now(D, S)[i].first /\ G[i].size = Now(D, S)[i].size,
         NEW S2 \in [Slots -> {Closed} \cup OpenType], S2[s] = f,
         \A j \in Slots : j # s => S2[j] = S[j],
         NEW V, V = fat_commit(w), NEW D2, D2 = Saved(D, f.place, f.first, f.size)
  PROVE  /\ Right(D2, V, A, S2) /\ V.fat = w.fat /\ Used(D2) = Used(D)
         /\ \A i \in Used(D2) : Now(D2, S2)[i].first = G[i].first
<1>1. PICK p : p = f.place
  OBVIOUS
<1>2. f.first \in {0} \cup Clusters /\ f.open
  BY DEF OpenType
<1>3. /\ D2 \in [Places -> EntryType] /\ Used(D2) = Used(D) /\ D2[p].used
      /\ D2[p].first = f.first /\ D2[p].size = f.size
      /\ \A i \in Places : i # p => D2[i] = D[i]
  <2>1. PICK first \in {0} \cup Clusters : first = f.first
    BY <1>2
  <2>2. PICK size \in 0..MaxSecs : size = f.size
    OBVIOUS
  <2>3. D2 = Saved(D, p, first, size) /\ p \in Used(D)
    BY <1>1, <2>1, <2>2
  <2>4. PICK Z : Z = Saved(D, p, first, size)
    OBVIOUS
  <2>5. /\ Z \in [Places -> EntryType] /\ Used(Z) = Used(D) /\ Z[p].used
        /\ Z[p].first = first /\ Z[p].size = size
        /\ \A i \in Places : i # p => Z[i] = D[i]
    BY <2>3, <2>4, SavedEntries
  <2>6. Z = D2
    BY <2>3, <2>4
  <2> QED BY <2>1, <2>2, <2>5, <2>6
<1>4. \A j \in Slots : S[j].open /\ S[j].place = p => j = s
  BY <1>1 DEF OneWriter
<1>5. \A j \in Slots : S2[j].open /\ S2[j].place = p => j = s
  BY <1>4
<1>6. ASSUME NEW j \in Slots, S2[j].open PROVE OpenRight(D2, w.fat, S2[j])
  <2>1. CASE j = s
    BY <1>1, <1>3, <2>1 DEF OpenRight
  <2>2. CASE j # s
    <3>1. S2[j] = S[j] /\ S[j].open /\ S[j].place # p
      BY <1>4, <1>6, <2>2
    <3>2. OpenRight(D, w.fat, S[j]) /\ S[j].place \in Places
      <4>1. S[j] \in OpenType
        BY <3>1 DEF Closed
      <4> QED BY <2>2, <3>1, <4>1 DEF OpenType
    <3>3. D2[S[j].place] = D[S[j].place]
      BY <1>3, <3>1, <3>2
    <3> QED BY <3>1, <3>2, <3>3 DEF OpenRight
  <2> QED BY <2>1, <2>2
<1>7. OneWriter(S2)
  <2>1. \A j \in Slots : S2[j].open => S[j].open /\ S2[j].place = S[j].place /\ S2[j].mode = S[j].mode
    OBVIOUS
  <2> QED BY <2>1 DEF OneWriter
<1>8. Agree(D2, S2)
  BY <1>6, <1>7, OpenAgree
<1>9. PICK F : F = Now(D, S)
  OBVIOUS
<1>10. PICK F2 : F2 = Now(D2, S2)
  OBVIOUS
<1>11. DOMAIN F2 = Used(D)
  BY <1>3, <1>10 DEF Now
<1>12. ASSUME NEW i \in Used(D) PROVE F2[i].first = G[i].first /\ F2[i].size = G[i].size
  <2>1. i \in Used(D2) /\ i \in Places
    BY <1>3 DEF Used
  <2>2. \A j \in Slots : S2[j].open /\ S2[j].place = i =>
          F2[i].first = S2[j].first /\ F2[i].size = S2[j].size
    BY <1>8, <1>10, <2>1, NowFields
  <2>3. (\A j \in Slots : ~(S2[j].open /\ S2[j].place = i)) => F2[i] = D2[i]
    BY <1>8, <1>10, <2>1, NowFields
  <2>4. CASE i = p
    BY <1>1, <1>2, <2>2, <2>4
  <2>5. CASE i # p
    <3>1. \A j \in Slots : S[j].open /\ S[j].place = i =>
            F[i].first = S[j].first /\ F[i].size = S[j].size
      BY <1>9, NowFields
    <3>2. (\A j \in Slots : ~(S[j].open /\ S[j].place = i)) => F[i] = D[i]
      BY <1>9, NowFields
    <3>3. D2[i] = D[i]
      BY <1>3, <2>1, <2>5
    <3>4. \A j \in Slots : S2[j].open /\ S2[j].place = i => S2[j] = S[j]
      BY <1>1, <2>5
    <3>5. \A j \in Slots : S[j].open /\ S[j].place = i => S2[j] = S[j]
      BY <1>1, <2>5
    <3>6. F2[i].first = F[i].first /\ F2[i].size = F[i].size
      <4>1. CASE \E j \in Slots : S2[j].open /\ S2[j].place = i
        BY <2>2, <3>1, <3>4, <4>1
      <4>2. CASE ~(\E j \in Slots : S2[j].open /\ S2[j].place = i)
        BY <2>3, <3>2, <3>3, <3>5, <4>2
      <4> QED BY <4>1, <4>2
    <3> QED BY <1>1, <1>9, <2>5, <3>6
  <2> QED BY <2>4, <2>5
<1>13. Laid(w.fat, F2)
  <2>1. DOMAIN F2 \subseteq DOMAIN G
        /\ \A i \in DOMAIN F2 : F2[i].first = G[i].first /\ F2[i].size = G[i].size
    BY <1>11, <1>12
  <2> QED BY <2>1, LaidFields
<1>14. Laid(w.fat, Entries(D2))
  <2>1. PICK E2 : E2 = Entries(D2)
    OBVIOUS
  <2>2. DOMAIN E2 = Used(D) /\ \A i \in Used(D) : E2[i] = D2[i]
    BY <1>3, <2>1 DEF Entries
  <2>3. \A i \in Used(D) : i \in Places
    BY DEF Used
  <2>4. DOMAIN E2 \subseteq DOMAIN E
        /\ \A i \in DOMAIN E2 : E2[i].first = E[i].first /\ E2[i].size = E[i].size
    BY <1>1, <1>3, <2>2, <2>3
  <2>5. Laid(w.fat, E2)
    BY <2>4, LaidFields
  <2> QED BY <2>1, <2>5
<1>15. Right(D2, V, A, S2) /\ V.fat = w.fat
  BY <1>3, <1>6, <1>7, <1>10, <1>13, <1>14, CommitRight
<1> QED BY <1>3, <1>10, <1>12, <1>15

\* The clusters of a chain are in use and lead to clusters of the chain.
LEMMA ClustersClosed ==
  ASSUME NEW T \in TableType, Linked(T), NEW first \in Link, Rooted(T, first),
         NEW c \in ClustersOf(T, first)
  PROVE  T[c] # 0 /\ c \in Clusters /\ (T[c] \in Clusters => T[c] \in ClustersOf(T, first))
<1>1. ClustersOf(T, first) = {Chain(T, first)[k] : k \in 0..MaxCluster} \cap Clusters
  BY DEF ClustersOf
<1>2. PICK q \in 0..MaxCluster : c = Chain(T, first)[q] /\ c \in Clusters
  BY <1>1
<1>3. /\ q + 1 \in 0..MaxCluster /\ Chain(T, first)[q + 1] = T[c] /\ T[c] # 0
  BY <1>2, ChainNext
<1> QED BY <1>1, <1>2, <1>3

\* What a truncation does not keep, it frees.
LEMMA CutKeeps ==
  ASSUME NEW T \in TableType, Linked(T), NEW first \in Clusters, Rooted(T, first),
         NEW m \in 0..MaxCluster, Chain(T, first)[m] \in Clusters,
         NEW A \in TableType, A = Put(T, Chain(T, first)[m], CLUS_EOC),
         NEW next, next = T[Chain(T, first)[m]],
         NEW U \in TableType, Without(U, A, next)
  PROVE  \A c \in ClustersOf(T, first) : U[c] # 0 => c \in ClustersOf(U, first)
<1>1. /\ Linked(A) /\ next \in Link /\ Rooted(A, next)
      /\ \A k \in 0..m : Chain(U, first)[k] = Chain(T, first)[k] /\ Chain(T, first)[k] \in Clusters
  BY CutTable
<1>2. first \in Link /\ MaxCluster \in Nat /\ m \in Nat
  BY FirstLink, Table
<1> DEFINE C == Chain(T, first)
           last == C[m]
<1>3. /\ C[0] = first /\ \A k \in 1..MaxCluster : C[k] = Follow(T, C[k - 1])
  BY <1>2, ChainSteps
<1>4. \A j, k \in 0..MaxCluster : C[j] = C[k] /\ C[j] \in Clusters => j = k
  BY <1>2, ChainsApart
<1>5. last \in Clusters /\ A = Put(T, last, CLUS_EOC) /\ next = T[last]
      /\ \A k \in 0..m : Chain(U, first)[k] = C[k] /\ C[k] \in Clusters
  BY <1>1
<1>6. ClustersOf(T, first) = {C[k] : k \in 0..MaxCluster} \cap Clusters
  BY DEF ClustersOf
<1>7. ClustersOf(U, first) = {Chain(U, first)[k] : k \in 0..MaxCluster} \cap Clusters
  BY DEF ClustersOf
<1>8. A[last] = CLUS_EOC /\ \A k \in Clusters : k # last => A[k] = T[k]
  <2>1. CLUS_EOC \in {0, CLUS_EOC} \cup Clusters
    OBVIOUS
  <2>2. last \in Clusters
    BY <1>5
  <2> HIDE DEF last
  <2>3. Put(T, last, CLUS_EOC)[last] = CLUS_EOC
    BY <2>1, <2>2, PutTable
  <2>4. \A k \in Entry : k # last => Put(T, last, CLUS_EOC)[k] = T[k]
    BY <2>1, <2>2, PutTable
  <2> QED BY <1>5, <2>3, <2>4, Table
<1>9. next \in Clusters => next \in ClustersOf(A, next)
  <2>1. Chain(A, next)[0] = next /\ 0 \in 0..MaxCluster
    <3>1. PICK x \in Link : x = next
      BY <1>1
    <3>2. PICK B \in TableType : B = A
      OBVIOUS
    <3>3. Chain(B, x)[0] = x
      BY ChainSteps
    <3> QED BY <1>2, <3>1, <3>2, <3>3
  <2> QED BY <2>1 DEF ClustersOf
<1> DEFINE R == ClustersOf(A, next)
           S == {k \in 0..MaxCluster : k <= m \/ C[k] \notin Clusters \/ C[k] \in R}
<1>10. \A c \in R : A[c] \in Clusters => A[c] \in R
  BY <1>1, ClustersClosed
<1> HIDE DEF C, last, R
<1>11. 0 \in S
  BY <1>2
<1>12. ASSUME NEW k \in 1..MaxCluster, k - 1 \in S PROVE k \in S
  <2> SUFFICES ASSUME k > m, C[k] \in Clusters PROVE C[k] \in R
    BY <1>2
  <2>1. C[k] = Follow(T, C[k - 1]) /\ k - 1 \in 0..MaxCluster
    BY <1>2, <1>3
  <2>2. CASE C[k - 1] \notin Clusters
    BY <2>1, <2>2 DEF Follow
  <2>3. CASE C[k - 1] \in Clusters /\ k - 1 = m
    BY <1>5, <1>9, <2>1, <2>3 DEF Follow, last, R
  <2>4. CASE C[k - 1] \in Clusters /\ k - 1 # m
    <3>1. ~(k - 1 <= m)
      BY <1>2, <2>4
    <3>2. C[k - 1] \in R
      BY <1>12, <2>4, <3>1
    <3>3. C[k - 1] # last
      BY <1>4, <2>1, <2>4 DEF last
    <3>4. A[C[k - 1]] = C[k]
      BY <1>8, <2>1, <2>4, <3>3 DEF Follow
    <3> QED BY <1>10, <3>2, <3>4
  <2> QED BY <2>2, <2>3, <2>4
<1> HIDE DEF S
<1>13. \A k \in 0..MaxCluster : k \in S
  BY <1>2, <1>11, <1>12, Upwards
<1>14. ASSUME NEW c \in ClustersOf(T, first), U[c] # 0 PROVE c \in ClustersOf(U, first)
  <2>1. PICK k \in 0..MaxCluster : c = C[k] /\ c \in Clusters
    BY <1>6
  <2>2. CASE k <= m
    <3>1. k \in 0..m
      BY <1>2, <2>2
    <3>2. Chain(U, first)[k] = c
      BY <1>5, <2>1, <3>1
    <3> QED BY <1>7, <2>1, <3>2
  <2>3. CASE ~(k <= m)
    <3>1. c \in R
      BY <1>13, <2>1, <2>3 DEF S
    <3> QED BY <1>14, <2>1, <3>1 DEF Without, R
  <2> QED BY <2>2, <2>3
<1> QED BY <1>14

\* The entries after a flush of the file f, and the volume.
FlushedTo(D, f) ==
  IF f.dirty /\ D[f.place].used THEN Saved(D, f.place, f.first, f.size) ELSE D
FlushedVol(V, f) == IF f.dirty THEN fat_commit(V) ELSE V

\* The open file f once it is flushed.
Cleaned(f) == [f EXCEPT !.dirty = FALSE]

\* file_flush keeps the invariant, and the file as the kernel has it.
LEMMA FlushRight ==
  ASSUME NEW D, NEW V, NEW A, NEW S, Right(D, V, A, S), NEW s \in Slots, S[s].open,
         NEW S2, Swapped(S2, S, s, Cleaned(S[s]))
  PROVE  LET D2 == FlushedTo(D, S[s])
             V2 == FlushedVol(V, S[s])
         IN  /\ Right(D2, V2, A, S2) /\ S2[s].open /\ ~S2[s].dirty
             /\ V2.fat = V.fat /\ Used(D2) = Used(D)
             /\ \A i \in Used(D) : Now(D2, S2)[i].first = Now(D, S)[i].first
<1> DEFINE D2 == FlushedTo(D, S[s])
           V2 == FlushedVol(V, S[s])
<1> SUFFICES /\ Right(D2, V2, A, S2) /\ S2[s].open /\ ~S2[s].dirty
             /\ V2.fat = V.fat /\ Used(D2) = Used(D)
             /\ \A i \in Used(D) : Now(D2, S2)[i].first = Now(D, S)[i].first
  OBVIOUS
<1> DEFINE f == S[s]
<1>1. /\ D \in [Places -> EntryType] /\ S \in [Slots -> {Closed} \cup OpenType] /\ A \in DataType
      /\ Laid(V.fat, Now(D, S)) /\ OneWriter(S) /\ Laid(V.disk, Entries(D)) /\ Good(V)
      /\ \A j \in Slots : S[j].open => OpenRight(D, V.fat, S[j])
  BY DEF Right
<1>2. f \in OpenType /\ OpenRight(D, V.fat, f) /\ f.place \in Places /\ D[f.place].used
  <2>1. f \in OpenType
    BY <1>1 DEF Closed
  <2>2. OpenRight(D, V.fat, f)
    BY <1>1
  <2>3. f.place \in Places
    BY <2>1 DEF OpenType
  <2> QED BY <2>1, <2>2, <2>3 DEF OpenRight
<1>3. PICK e : e = [f EXCEPT !.dirty = FALSE]
  OBVIOUS
<1> HIDE DEF D2, V2
<1>4. /\ e \in OpenType /\ ~e.dirty /\ e.open /\ e.place = f.place /\ e.mode = f.mode
      /\ e.first = f.first /\ e.size = f.size /\ e.cur = f.cur /\ e.cpos = f.cpos
  BY <1>2, <1>3 DEF OpenType
<1>5. /\ S2 \in [Slots -> {Closed} \cup OpenType] /\ S2[s] = e
      /\ \A j \in Slots : j # s => S2[j] = S[j]
  BY <1>3 DEF Swapped, Cleaned
<1>6. CASE ~f.dirty
  <2>1. e = f
    BY <1>2, <1>3, <1>6 DEF OpenType
  <2>2. S2 = S
    BY <1>1, <1>5, <2>1
  <2>3. D2 = D /\ V2 = V
    BY <1>6 DEF FlushedTo, FlushedVol, D2, V2
  <2> QED BY <1>4, <1>5, <2>2, <2>3
<1>7. CASE f.dirty
  <2>1. D2 = Saved(D, e.place, e.first, e.size) /\ V2 = fat_commit(V)
    BY <1>2, <1>4, <1>7 DEF FlushedTo, FlushedVol, D2, V2
  <2>2. f.mode.access # 0 /\ f.mode \in OpenModes \cup {Mode(0, 2)} /\ Placed(V.fat, f)
    BY <1>2, <1>7 DEF OpenRight
  <2>3. Placed(V.fat, e)
    BY <1>4, <2>2 DEF Placed
  <2>4. e.place \in Used(D) /\ e.size \in 0..MaxSecs
    BY <1>2, <1>4 DEF Used, OpenType
  <2>5. PICK G : G = Now(D, S)
    OBVIOUS
  <2>6. DOMAIN G = Used(D)
    BY <2>5 DEF Now
  <2>7. Agree(D, S)
    BY RightAgree
  <2>8. G[e.place].first = e.first /\ G[e.place].size = e.size
    <3>1. \A j \in Slots : S[j].open /\ S[j].place = e.place =>
            G[e.place].first = S[j].first /\ G[e.place].size = S[j].size
      BY <2>4, <2>5, <2>7, NowFields
    <3> QED BY <1>4, <3>1
  <2>9. PICK E : E = [i \in Used(D) |-> IF i = e.place THEN e ELSE D[i]]
    OBVIOUS
  <2>10. /\ DOMAIN E = Used(D) /\ E[e.place] = e
         /\ \A i \in Used(D) : i # e.place => E[i] = D[i]
    BY <2>4, <2>9
  <2>11. Laid(V.fat, E)
    <3>1. \A i \in Used(D) : D[i].first \in {0, G[i].first}
      BY <2>5, EntriesLaid
    <3>2. PICK F0 : F0 = Entries(D)
      OBVIOUS
    <3>3. DOMAIN F0 = Used(D) /\ \A i \in Used(D) : F0[i] = D[i]
      BY <3>2 DEF Entries
    <3>4. Laid(V.disk, F0) /\ Laid(V.fat, G) /\ Extends(V.fat, V.disk)
      BY <1>1, <2>5, <3>2, BehindExtends DEF Good
    <3>5. \A i \in DOMAIN E : \/ E[i].first = G[i].first /\ E[i].size = G[i].size
                              \/ E[i].first = F0[i].first /\ E[i].size = F0[i].size
      BY <2>8, <2>10, <3>3
    <3> QED BY <2>6, <2>10, <3>1, <3>3, <3>4, <3>5, LaidMixed
  <2>12. V \in VolType /\ Cache(V) /\ Linked(V.fat) /\ Laid(V.fat, G)
    BY <1>1, <2>5 DEF Good
  <2>13. \A i \in Used(D) : i # e.place =>
           G[i].first = Now(D, S)[i].first /\ G[i].size = Now(D, S)[i].size
    BY <2>5
  <2>14. \A j \in Slots : j # s /\ S[j].open => OpenRight(D, V.fat, S[j])
    BY <1>1
  <2>15. PICK S3 \in [Slots -> {Closed} \cup OpenType] : S3 = S2
    BY <1>5
  <2>16. /\ Right(D2, V2, A, S3) /\ V2.fat = V.fat /\ Used(D2) = Used(D)
         /\ \A i \in Used(D2) : Now(D2, S3)[i].first = G[i].first
    <3>1. /\ e.place = S[s].place /\ e.mode = S[s].mode /\ S[s].mode.access # 0
          /\ e.mode \in OpenModes \cup {Mode(0, 2)}
      BY <1>4, <2>2
    <3>2. S3[s] = e /\ \A j \in Slots : j # s => S3[j] = S[j]
      BY <1>5, <2>15
    <3>3. E[e.place].first = e.first /\ E[e.place].size = e.size
          /\ \A i \in Used(D) : i # e.place => E[i].first = D[i].first /\ E[i].size = D[i].size
      BY <2>10
    <3> HIDE DEF f
    <3>4. PICK D3 : D3 = D2
      OBVIOUS
    <3>5. PICK V3 : V3 = V2
      OBVIOUS
    <3>6. D3 = Saved(D, e.place, e.first, e.size) /\ V3 = fat_commit(V)
      BY <2>1, <3>4, <3>5
    <3>7. /\ Right(D3, V3, A, S3) /\ V3.fat = V.fat /\ Used(D3) = Used(D)
          /\ \A i \in Used(D3) : Now(D3, S3)[i].first = G[i].first
      BY <1>1, <1>4, <2>3, <2>4, <2>6, <2>7, <2>8, <2>10, <2>11, <2>12, <2>13, <2>14,
         <3>1, <3>2, <3>3, <3>6, FlushState, SMTT(60)
    <3> QED BY <3>4, <3>5, <3>7
  <2> QED BY <1>4, <1>5, <2>5, <2>15, <2>16
<1> QED BY <1>6, <1>7

\* The slot of a truncated file.
LEMMA CutSlotPlaced ==
  ASSUME NEW T \in TableType, NEW f \in OpenType, NEW first \in {0} \cup Clusters,
         Rooted(T, first), Long(T, first, f.pos)
  PROVE  LET e == CutSlot(f, first)
         IN  /\ e \in OpenType /\ Placed(T, e) /\ e.dirty /\ e.open
             /\ e.place = f.place /\ e.mode = f.mode /\ e.first = first /\ e.size = f.pos
             /\ e.pos = f.pos
<1>1. PICK e : e = CutSlot(f, first)
  OBVIOUS
<1>2. 0 \in {k * ClusterSecs : k \in 0..(MaxSecs \div ClusterSecs)} /\ 0 = 0 * ClusterSecs
  <2>1. 0 \in 0..(MaxSecs \div ClusterSecs)
    BY InputAssumption, DivSecs
  <2> QED BY <2>1, Table
<1>3. /\ e \in OpenType /\ e.dirty /\ e.open /\ e.place = f.place /\ e.mode = f.mode
      /\ e.first = first /\ e.size = f.pos /\ e.cur = first /\ e.cpos = 0
      /\ e.pos = f.pos
  BY <1>1, <1>2 DEF CutSlot, OpenType
<1>4. Chain(T, first)[0] = first /\ 0 \in 0..MaxCluster
  BY FirstLink, ChainSteps, Table
<1>5. Placed(T, e)
  BY <1>2, <1>3, <1>4 DEF Placed
<1> QED BY <1>1, <1>3, <1>5

\* What Cut makes of the volume and the slot: the rest of the chain is free, the
\* cursor back at the first cluster.
LEMMA CutVol ==
  ASSUME NEW V \in VolType, Cache(V), Linked(V.fat), NEW f \in OpenType, Placed(V.fat, f),
         f.pos < f.size, NEW cut, cut = Cut(f, V)
  PROVE  /\ cut.vol \in VolType /\ Cache(cut.vol) /\ Linked(cut.vol.fat)
         /\ Shrinks(cut.vol.fat, V.fat, f.first)
         /\ cut.f \in OpenType /\ Placed(cut.vol.fat, cut.f) /\ cut.f.dirty /\ cut.f.open
         /\ cut.f.place = f.place /\ cut.f.mode = f.mode
         /\ cut.f.first \in {0, f.first} /\ cut.f.size = f.pos /\ cut.f.pos = f.pos
         /\ \A c \in ClustersOf(V.fat, f.first) :
              cut.vol.fat[c] # 0 => c \in ClustersOf(cut.vol.fat, cut.f.first)
         /\ \A k \in 0..MaxCluster : k * ClusterSecs < f.pos =>
              Chain(cut.vol.fat, cut.f.first)[k] = Chain(V.fat, f.first)[k]
<1> DEFINE T == V.fat
           C == Chain(T, f.first)
<1>1. /\ T \in TableType /\ f.first \in {0} \cup Clusters /\ f.first \in Link
      /\ Rooted(T, f.first) /\ Long(T, f.first, f.size)
  BY FirstLink DEF VolType, OpenType, Placed
<1>2. f.pos \in Nat /\ f.size \in Nat /\ MaxSecs \in Nat /\ ClusterSecs \in Nat /\ ClusterSecs > 0
  <2>1. f.pos \in 0..MaxSecs /\ f.size \in 0..MaxSecs
    BY DEF OpenType
  <2> QED BY <2>1, InputAssumption, Table
<1>3. CASE f.pos = 0
  <2>1. PICK w : w = fat_free_chain(V, f.first)
    OBVIOUS
  <2>2. PICK e : e = CutSlot(f, 0)
    OBVIOUS
  <2>3. cut.f = e /\ cut.vol = w
    BY <1>3, <2>1, <2>2 DEF Cut
  <2>4. w \in VolType /\ Cache(w) /\ Without(w.fat, T, f.first)
    BY <1>1, <2>1, FreeChain
  <2>5. w.fat \in TableType /\ Linked(w.fat) /\ Shrinks(w.fat, T, f.first)
    BY <1>1, <2>4, WithoutLinked DEF VolType
  <2>6. Rooted(w.fat, 0) /\ Long(w.fat, 0, f.pos)
    BY <1>3, <2>5, NoChain
  <2>7. /\ e \in OpenType /\ Placed(w.fat, e) /\ e.dirty /\ e.open
        /\ e.place = f.place /\ e.mode = f.mode /\ e.first = 0 /\ e.size = f.pos
        /\ e.pos = f.pos
    <3>1. PICK z \in {0} \cup Clusters : z = 0
      OBVIOUS
    <3>2. Rooted(w.fat, z) /\ Long(w.fat, z, f.pos) /\ e = CutSlot(f, z)
      BY <2>2, <2>6, <3>1
    <3>3. /\ e \in OpenType /\ Placed(w.fat, e) /\ e.dirty /\ e.open
          /\ e.place = f.place /\ e.mode = f.mode /\ e.first = z /\ e.size = f.pos
          /\ e.pos = f.pos
      BY <2>5, <3>2, CutSlotPlaced
    <3> QED BY <3>1, <3>3
  <2>8. \A c \in ClustersOf(T, f.first) : w.fat[c] = 0
    BY <2>4 DEF Without, ClustersOf
  <2>9. \A k \in 0..MaxCluster : ~(k * ClusterSecs < f.pos)
    BY <1>2, <1>3, Table
  <2> QED BY <2>3, <2>4, <2>5, <2>7, <2>8, <2>9
<1>4. CASE f.pos # 0
  <2>1. PICK m \in Nat : m = (f.pos - 1) \div ClusterSecs
    BY <1>2, <1>4, DivSecs
  <2>2. m * ClusterSecs <= f.pos - 1 /\ f.pos - 1 < m * ClusterSecs + ClusterSecs
    BY <1>2, <1>4, <2>1, DivSecs
  <2>3. f.first \in Clusters
    <3>1. f.first # 0
      BY <1>1, <1>2, NoChain
    <3> QED BY <1>1, <3>1
  <2>4. PICK n \in 0..(MaxCluster - 1) :
          /\ \A k \in 0..MaxCluster : C[k] \in Clusters <=> k < n
          /\ Cardinality(ClustersOf(T, f.first)) = n
    BY <1>1, ChainEnds
  <2>5. m < n
    <3> SUFFICES ASSUME n <= m PROVE FALSE
      BY <2>1, <2>4, Table
    <3>1. n \in 0..MaxCluster /\ n \in Nat
      BY <2>4, Table
    <3>2. n * ClusterSecs <= m * ClusterSecs /\ n * ClusterSecs \in Nat /\ m * ClusterSecs \in Nat
      BY <1>2, <2>1, <3>1, Z3
    <3>3. n * ClusterSecs < f.size
      BY <1>2, <2>2, <3>2
    <3>4. C[n] \in Clusters
      BY <1>1, <3>1, <3>3 DEF Long
    <3> QED BY <2>4, <3>1, <3>4
  <2>6. m \in 0..MaxCluster /\ C[m] \in Clusters
    BY <2>1, <2>4, <2>5, Table
  <2>7. PICK a : a = fat_set(V, C[m], CLUS_EOC)
    OBVIOUS
  <2>8. a \in VolType /\ Cache(a) /\ a.fat = Put(T, C[m], CLUS_EOC)
    BY <2>6, <2>7, SetVol
  <2>9. PICK next : next = T[C[m]]
    OBVIOUS
  <2>10. PICK A \in TableType : A = a.fat
    BY <2>8 DEF VolType
  <2>11. PICK U0 \in TableType : Without(U0, A, next)
    <3>1. PICK U0 : U0 = [k \in Entry |-> IF k \in Clusters /\ k \in ClustersOf(A, next) THEN 0 ELSE A[k]]
      OBVIOUS
    <3>2. U0 \in TableType
      BY <3>1 DEF TableType
    <3>3. Without(U0, A, next)
      BY <3>1, Table DEF Without
    <3> QED BY <3>2, <3>3
  <2>12. Linked(A) /\ next \in Link /\ Rooted(A, next)
    BY <1>1, <2>3, <2>6, <2>8, <2>9, <2>10, <2>11, CutTable
  <2>13. PICK w : w = fat_free_chain(a, next)
    OBVIOUS
  <2>14. w \in VolType /\ Cache(w) /\ Without(w.fat, A, next)
    BY <2>8, <2>10, <2>12, <2>13, FreeChain
  <2>15. PICK U \in TableType : U = w.fat
    BY <2>14 DEF VolType
  <2>16. /\ Linked(U) /\ Shrinks(U, T, f.first) /\ Rooted(U, f.first)
         /\ \A k \in 0..m : Chain(U, f.first)[k] = C[k] /\ C[k] \in Clusters
    BY <1>1, <2>3, <2>6, <2>8, <2>9, <2>10, <2>14, <2>15, CutTable
  <2>17. \A c \in ClustersOf(T, f.first) : U[c] # 0 => c \in ClustersOf(U, f.first)
    BY <1>1, <2>3, <2>6, <2>8, <2>9, <2>10, <2>14, <2>15, CutKeeps
  <2>18. ASSUME NEW k \in 0..MaxCluster, k * ClusterSecs < f.pos PROVE k \in 0..m
    <3>1. k \in Nat /\ k * ClusterSecs \in Nat /\ m * ClusterSecs \in Nat
      BY <1>2, <2>1, Table
    <3>2. (m + 1) * ClusterSecs = m * ClusterSecs + ClusterSecs
      BY <1>2, <2>1, Z3
    <3>3. k * ClusterSecs < (m + 1) * ClusterSecs
      BY <1>2, <2>2, <2>18, <3>1, <3>2
    <3>4. k < m + 1
      BY <1>2, <2>1, <3>1, <3>3, Z3
    <3> QED BY <2>1, <3>1, <3>4
  <2>19. /\ Long(U, f.first, f.pos)
         /\ \A k \in 0..MaxCluster : k * ClusterSecs < f.pos => Chain(U, f.first)[k] = C[k]
    BY <2>16, <2>18 DEF Long
  <2>20. PICK e : e = CutSlot(f, f.first)
    OBVIOUS
  <2>21. /\ e \in OpenType /\ Placed(U, e) /\ e.dirty /\ e.open
         /\ e.place = f.place /\ e.mode = f.mode /\ e.first = f.first /\ e.size = f.pos
         /\ e.pos = f.pos
    <3>1. PICK z \in {0} \cup Clusters : z = f.first
      BY <1>1
    <3>2. Rooted(U, z) /\ Long(U, z, f.pos) /\ e = CutSlot(f, z)
      BY <2>16, <2>19, <2>20, <3>1
    <3>3. /\ e \in OpenType /\ Placed(U, e) /\ e.dirty /\ e.open
          /\ e.place = f.place /\ e.mode = f.mode /\ e.first = z /\ e.size = f.pos
          /\ e.pos = f.pos
      BY <3>2, CutSlotPlaced
    <3> QED BY <3>1, <3>3
  <2>22. cut.f = e /\ cut.vol = w
    <3>1. LastKept(V, f) = C[m]
      BY <2>1 DEF LastKept
    <3> HIDE DEF C, T
    <3>2. cut = [f |-> CutSlot(f, f.first),
                 vol |-> fat_free_chain(fat_set(V, C[m], CLUS_EOC), V.fat[C[m]])]
      BY <1>4, <3>1 DEF Cut
    <3> QED BY <2>7, <2>9, <2>13, <2>20, <3>2 DEF T
  <2> QED BY <2>14, <2>15, <2>16, <2>17, <2>19, <2>21, <2>22
<1> QED BY <1>3, <1>4

\* What a chain that is given back leaves of the other files that are open.
LEMMA ShrinkOthers ==
  ASSUME NEW D, NEW V, NEW A, NEW S, Right(D, V, A, S), NEW p \in Used(D),
         NEW U \in TableType, Shrinks(U, V.fat, Now(D, S)[p].first)
  PROVE  \A j \in Slots : S[j].open /\ S[j].place # p => OpenRight(D, U, S[j])
<1> DEFINE F == Now(D, S)
<1> DEFINE x == F[p].first
<1>1. /\ Laid(V.fat, F) /\ S \in [Slots -> {Closed} \cup OpenType]
      /\ \A j \in Slots : S[j].open => OpenRight(D, V.fat, S[j])
  BY DEF Right
<1>2. DOMAIN F = Used(D)
  BY DEF Now
<1> HIDE DEF F
<1>3. x \in {0} \cup Clusters /\ Rooted(V.fat, x) /\ V.fat \in TableType /\ Linked(V.fat)
  BY <1>1, <1>2 DEF Laid
<1>4. x \in Link
  BY <1>3, FirstLink
<1> SUFFICES ASSUME NEW j \in Slots, S[j].open, S[j].place # p
             PROVE  OpenRight(D, U, S[j])
  OBVIOUS
<1>5. OpenRight(D, V.fat, S[j]) /\ S[j] \in OpenType
  BY <1>1 DEF Closed
<1>6. S[j].place \in Used(D)
  <2>1. S[j].place \in Places
    BY <1>5 DEF OpenType
  <2> QED BY <1>5, <2>1 DEF OpenRight, Used
<1>7. F[S[j].place].first = S[j].first
  BY <1>6, RightAgree, NowFields DEF F
<1>8. S[j].first # x \/ S[j].first = 0
  BY <1>1, <1>2, <1>6, <1>7 DEF Laid
<1>9. Placed(V.fat, S[j])
  BY <1>5 DEF OpenRight
<1>10. Shrinks(U, V.fat, x)
  BY DEF F
<1> HIDE DEF x
<1>11. Placed(U, S[j])
  BY <1>3, <1>4, <1>5, <1>8, <1>9, <1>10, PlacedShrinks
<1> QED BY <1>5, <1>11 DEF OpenRight

\* No cluster is lost if what is not given back of the chain is in a file.
LEMMA NoneLostShrinks ==
  ASSUME NEW T, NEW F, Laid(T, F), NEW p \in DOMAIN F, NEW U \in TableType,
         Shrinks(U, T, F[p].first), NEW G,
         \A i \in DOMAIN F : i # p => i \in DOMAIN G /\ G[i].first = F[i].first,
         \A c \in ClustersOf(T, F[p].first) :
           U[c] # 0 => \E i \in DOMAIN G : c \in ClustersOf(U, G[i].first)
  PROVE  NoneLost(U, G, T, F)
<1> DEFINE x == F[p].first
<1>1. x \in {0} \cup Clusters /\ Rooted(T, x) /\ T \in TableType /\ Linked(T) /\ Shrinks(U, T, x)
  BY DEF Laid
<1>2. x \in Link
  BY <1>1, FirstLink
<1> SUFFICES ASSUME NEW c \in Clusters, U[c] # 0,
                    \A i \in DOMAIN G : c \notin ClustersOf(U, G[i].first)
             PROVE  T[c] # 0 /\ \A i \in DOMAIN F : c \notin ClustersOf(T, F[i].first)
  BY DEF NoneLost
<1>3. c \notin ClustersOf(T, x)
  OBVIOUS
<1>4. T[c] # 0
  BY <1>1, <1>3 DEF Shrinks
<1>5. ASSUME NEW i \in DOMAIN F, c \in ClustersOf(T, F[i].first) PROVE FALSE
  <2>1. i # p
    BY <1>3, <1>5
  <2>2. i \in DOMAIN G /\ G[i].first = F[i].first
    BY <2>1
  <2>3. F[i].first \in {0} \cup Clusters /\ Rooted(T, F[i].first)
    BY DEF Laid
  <2>4. F[i].first # x \/ F[i].first = 0
    BY <2>1 DEF Laid
  <2> HIDE DEF x
  <2>5. PICK y \in {0} \cup Clusters : y = F[i].first
    BY <2>3
  <2>6. Rooted(T, y) /\ (y # x \/ y = 0)
    BY <2>3, <2>4, <2>5
  <2>7. \A k \in 0..MaxCluster : Chain(T, y)[k] \in Clusters =>
           Chain(U, y)[k] = Chain(T, y)[k] /\ U[Chain(T, y)[k]] = T[Chain(T, y)[k]]
    BY <1>1, <1>2, <2>6, OthersShrink
  <2>8. c \in ClustersOf(U, F[i].first)
    BY <1>5, <2>5, <2>7 DEF ClustersOf
  <2> QED BY <2>2, <2>8
<1> QED BY <1>4, <1>5

\* Only first clusters matter to what is lost.
LEMMA NoneLostFields ==
  ASSUME NEW T2, NEW F2, NEW T, NEW F, NoneLost(T2, F2, T, F), NEW G, DOMAIN G = DOMAIN F2,
         \A i \in DOMAIN F2 : G[i].first = F2[i].first
  PROVE  NoneLost(T2, G, T, F)
BY DEF NoneLost

\* A file is cut at the position of its slot and flushed.
LEMMA TruncateRight ==
  ASSUME NEW D, NEW V, NEW A, NEW S, Right(D, V, A, S), NEW s \in Slots, S[s].open,
         S[s].mode.access # 0, S[s].pos < S[s].size, NEW cut, cut = Cut(S[s], V),
         NEW D2, D2 = FlushedTo(D, cut.f), NEW V2, V2 = FlushedVol(cut.vol, cut.f),
         NEW S2, S2 = [S EXCEPT ![s] = [cut.f EXCEPT !.dirty = FALSE]]
  PROVE  Right(D2, V2, A, S2) /\ NoneLost(V2.fat, Now(D2, S2), V.fat, Now(D, S))
<1>1. PICK f : f = S[s]
  OBVIOUS
<1>2. /\ D \in [Places -> EntryType] /\ S \in [Slots -> {Closed} \cup OpenType] /\ A \in DataType
      /\ Laid(V.fat, Now(D, S)) /\ OneWriter(S) /\ Laid(V.disk, Entries(D)) /\ Good(V)
      /\ \A j \in Slots : S[j].open => OpenRight(D, V.fat, S[j])
  BY DEF Right
<1>3. f \in OpenType /\ OpenRight(D, V.fat, f) /\ f.place \in Used(D) /\ f.mode.access # 0
  <2>1. f \in OpenType
    BY <1>1, <1>2 DEF Closed
  <2>2. OpenRight(D, V.fat, f)
    BY <1>1, <1>2
  <2>3. f.place \in Places
    BY <2>1 DEF OpenType
  <2> QED BY <1>1, <2>1, <2>2, <2>3 DEF OpenRight, Used
<1>4. V \in VolType /\ Cache(V) /\ Linked(V.fat) /\ V.fat \in TableType
  BY <1>2 DEF Good, VolType
<1>5. Placed(V.fat, f) /\ f.mode \in OpenModes \cup {Mode(0, 2)}
  BY <1>3 DEF OpenRight
<1>6. PICK w : w = cut.vol
  OBVIOUS
<1>7. PICK g : g = cut.f
  OBVIOUS
<1>8. /\ w \in VolType /\ Cache(w) /\ Linked(w.fat) /\ Shrinks(w.fat, V.fat, f.first)
      /\ g \in OpenType /\ Placed(w.fat, g) /\ g.dirty
      /\ g.place = f.place /\ g.mode = f.mode /\ g.first \in {0, f.first} /\ g.size = f.pos
      /\ \A c \in ClustersOf(V.fat, f.first) :
           w.fat[c] # 0 => c \in ClustersOf(w.fat, g.first)
  BY <1>1, <1>3, <1>4, <1>5, <1>6, <1>7, CutVol
<1>9. w.fat \in TableType
  BY <1>8 DEF VolType
<1>10. PICK e : e = [g EXCEPT !.dirty = FALSE]
  OBVIOUS
<1>11. /\ e \in OpenType /\ ~e.dirty /\ e.open /\ e.place = f.place /\ e.mode = f.mode
       /\ e.first = g.first /\ e.size = g.size /\ e.cur = g.cur /\ e.cpos = g.cpos
  BY <1>8, <1>10 DEF OpenType
<1>12. Placed(w.fat, e) /\ e.place \in Used(D) /\ e.size \in 0..MaxSecs /\ e.size \in Nat
  BY <1>3, <1>8, <1>11, InputAssumption DEF Placed, OpenType
<1>13. /\ S2 \in [Slots -> {Closed} \cup OpenType] /\ S2[s] = e
       /\ \A j \in Slots : j # s => S2[j] = S[j]
  BY <1>2, <1>7, <1>10, <1>11
<1>14. D2 = Saved(D, e.place, e.first, e.size) /\ V2 = fat_commit(w)
  BY <1>3, <1>6, <1>7, <1>8, <1>11 DEF FlushedTo, FlushedVol, Used
<1>15. PICK F : F = Now(D, S)
  OBVIOUS
<1>16. DOMAIN F = Used(D) /\ Laid(V.fat, F)
  BY <1>2, <1>15 DEF Now
<1>17. Agree(D, S)
  BY RightAgree
<1>18. F[e.place].first = f.first
  <2>1. \A j \in Slots : S[j].open /\ S[j].place = e.place =>
          F[e.place].first = S[j].first /\ F[e.place].size = S[j].size
    BY <1>12, <1>15, <1>17, NowFields
  <2> QED BY <1>1, <1>11, <2>1
<1>19. Rooted(w.fat, e.first) /\ Long(w.fat, e.first, e.size)
  BY <1>12 DEF Placed
<1>20. Shrinks(w.fat, V.fat, F[e.place].first)
  BY <1>8, <1>18
<1>21. PICK G : G = [i \in Used(D) |-> IF i = e.place THEN e ELSE F[i]]
  OBVIOUS
<1>22. /\ DOMAIN G = Used(D) /\ G[e.place] = e
       /\ \A i \in Used(D) : i # e.place => G[i] = F[i]
  BY <1>12, <1>21
<1>23. Laid(w.fat, G)
  <2>1. \A j \in DOMAIN G :
          \/ /\ j \in DOMAIN F \ {e.place} /\ G[j].first = F[j].first /\ G[j].size = F[j].size
          \/ /\ G[j].first \in {0, F[e.place].first} /\ G[j].size \in Nat
             /\ Rooted(w.fat, G[j].first) /\ Long(w.fat, G[j].first, G[j].size)
             /\ G[j].first # 0 => j = e.place
    BY <1>8, <1>11, <1>12, <1>16, <1>18, <1>19, <1>22
  <2>2. PICK T : T = V.fat
    OBVIOUS
  <2>3. PICK U : U = w.fat
    OBVIOUS
  <2>4. PICK p : p = e.place
    OBVIOUS
  <2> QED BY <1>8, <1>9, <1>12, <1>16, <1>20, <2>1, <2>2, <2>3, <2>4, LaidShrinks
<1>24. PICK M : M = [i \in Used(D) |-> IF i = e.place THEN F[i] ELSE D[i]]
  OBVIOUS
<1>25. /\ DOMAIN M = Used(D) /\ M[e.place] = F[e.place]
       /\ \A i \in Used(D) : i # e.place => M[i] = D[i]
  BY <1>12, <1>24
<1>26. Laid(V.fat, M)
  <2>1. \A i \in Used(D) : D[i].first \in {0, F[i].first}
    BY <1>15, EntriesLaid
  <2>2. PICK F0 : F0 = Entries(D)
    OBVIOUS
  <2>3. DOMAIN F0 = Used(D) /\ \A i \in Used(D) : F0[i] = D[i]
    BY <2>2 DEF Entries
  <2>4. Laid(V.disk, F0) /\ Extends(V.fat, V.disk)
    BY <1>2, <2>2, BehindExtends DEF Good
  <2>5. \A i \in DOMAIN M : \/ M[i].first = F[i].first /\ M[i].size = F[i].size
                            \/ M[i].first = F0[i].first /\ M[i].size = F0[i].size
    BY <1>25, <2>3
  <2> QED BY <1>16, <1>25, <2>1, <2>3, <2>4, <2>5, LaidMixed
<1>27. PICK E : E = [i \in Used(D) |-> IF i = e.place THEN e ELSE D[i]]
  OBVIOUS
<1>28. /\ DOMAIN E = Used(D) /\ E[e.place] = e
       /\ \A i \in Used(D) : i # e.place => E[i] = D[i]
  BY <1>12, <1>27
<1>29. Laid(w.fat, E)
  <2>1. \A j \in DOMAIN E :
          \/ /\ j \in DOMAIN M \ {e.place} /\ E[j].first = M[j].first /\ E[j].size = M[j].size
          \/ /\ E[j].first \in {0, M[e.place].first} /\ E[j].size \in Nat
             /\ Rooted(w.fat, E[j].first) /\ Long(w.fat, E[j].first, E[j].size)
             /\ E[j].first # 0 => j = e.place
    BY <1>8, <1>11, <1>12, <1>18, <1>19, <1>25, <1>28
  <2>2. Shrinks(w.fat, V.fat, M[e.place].first)
    BY <1>20, <1>25
  <2>3. PICK T : T = V.fat
    OBVIOUS
  <2>4. PICK U : U = w.fat
    OBVIOUS
  <2>5. PICK p : p = e.place
    OBVIOUS
  <2> QED BY <1>8, <1>9, <1>12, <1>25, <1>26, <2>1, <2>2, <2>3, <2>4, <2>5, LaidShrinks
<1>30. \A j \in Slots : j # s /\ S[j].open => OpenRight(D, w.fat, S[j])
  <2>1. PICK U \in TableType : U = w.fat
    BY <1>9
  <2>2. PICK p \in Used(D) : p = e.place
    BY <1>12
  <2>3. Shrinks(U, V.fat, Now(D, S)[p].first)
    BY <1>15, <1>20, <2>1, <2>2
  <2>4. \A j \in Slots : S[j].open /\ S[j].place # p => OpenRight(D, U, S[j])
    BY <2>3, ShrinkOthers
  <2>5. \A j \in Slots : j # s /\ S[j].open => S[j].place # p
    BY <1>1, <1>2, <1>3, <1>11, <2>2 DEF OneWriter
  <2> QED BY <2>1, <2>4, <2>5
<1>31. /\ Right(D2, V2, A, S2) /\ V2.fat = w.fat /\ Used(D2) = Used(D)
       /\ \A i \in Used(D2) : Now(D2, S2)[i].first = G[i].first
  <2>1. PICK S3 \in [Slots -> {Closed} \cup OpenType] : S3 = S2
    BY <1>13
  <2>2. /\ e.place = S[s].place /\ e.mode = S[s].mode
        /\ e.mode \in OpenModes \cup {Mode(0, 2)}
    BY <1>1, <1>5, <1>11
  <2>3. S3[s] = e /\ \A j \in Slots : j # s => S3[j] = S[j]
    BY <1>13, <2>1
  <2>4. E[e.place].first = e.first /\ E[e.place].size = e.size
        /\ \A i \in Used(D) : i # e.place => E[i].first = D[i].first /\ E[i].size = D[i].size
    BY <1>28
  <2>5. G[e.place].first = e.first /\ G[e.place].size = e.size
        /\ \A i \in Used(D) : i # e.place =>
             G[i].first = Now(D, S)[i].first /\ G[i].size = Now(D, S)[i].size
    BY <1>15, <1>22
  <2>6. PICK D3 : D3 = D2
    OBVIOUS
  <2>7. PICK V3 : V3 = V2
    OBVIOUS
  <2>8. D3 = Saved(D, e.place, e.first, e.size) /\ V3 = fat_commit(w)
    BY <1>14, <2>6, <2>7
  <2>9. /\ Right(D3, V3, A, S3) /\ V3.fat = w.fat /\ Used(D3) = Used(D)
        /\ \A i \in Used(D3) : Now(D3, S3)[i].first = G[i].first
    BY <1>2, <1>8, <1>11, <1>12, <1>17, <1>22, <1>23, <1>28, <1>29, <1>30,
       <2>2, <2>3, <2>4, <2>5, <2>8, FlushState, SMTT(60)
  <2> QED BY <2>1, <2>6, <2>7, <2>9
<1>32. NoneLost(V2.fat, Now(D2, S2), V.fat, Now(D, S))
  <2>1. PICK U \in TableType : U = w.fat
    BY <1>9
  <2>2. PICK p \in DOMAIN F : p = e.place
    BY <1>12, <1>16
  <2>3. \A i \in DOMAIN F : i # p => i \in DOMAIN G /\ G[i].first = F[i].first
    BY <1>16, <1>22, <2>2
  <2>4. \A c \in ClustersOf(V.fat, F[p].first) :
          U[c] # 0 => \E i \in DOMAIN G : c \in ClustersOf(U, G[i].first)
    BY <1>8, <1>11, <1>12, <1>18, <1>22, <2>1, <2>2
  <2>5. Shrinks(U, V.fat, F[p].first)
    BY <1>20, <2>1, <2>2
  <2>6. NoneLost(U, G, V.fat, F)
    BY <1>16, <2>3, <2>4, <2>5, NoneLostShrinks
  <2>7. PICK H : H = Now(D2, S2)
    OBVIOUS
  <2>8. DOMAIN H = DOMAIN G /\ \A i \in DOMAIN G : H[i].first = G[i].first
    BY <1>22, <1>31, <2>7 DEF Now
  <2>9. NoneLost(U, H, V.fat, F)
    BY <2>6, <2>8, NoneLostFields
  <2> QED BY <1>15, <1>31, <2>1, <2>7, <2>9
<1> QED BY <1>31, <1>32

\* The data of the volume plays no part in what is right.
LEMMA RightData ==
  ASSUME NEW D, NEW V, NEW A, NEW S, Right(D, V, A, S), NEW B \in DataType
  PROVE  Right(D, V, B, S)
BY DEF Right

\* The file at a place where none is open.
LEMMA NowClosed ==
  ASSUME NEW D, NEW S, NEW i \in Used(D), \A s \in Slots : ~(S[s].open /\ S[s].place = i)
  PROVE  Now(D, S)[i] = D[i]
<1>1. DirtyAt(S, i) = {}
  BY DEF DirtyAt
<1> QED BY <1>1 DEF Now

\* An entry of no open file is written or deleted, its chain given back.
LEMMA ReplaceEntry ==
  ASSUME NEW D, NEW V, NEW A, NEW S, Right(D, V, A, S), NEW p \in Places,
         \A s \in Slots : ~(S[s].open /\ S[s].place = p),
         NEW e \in EntryType, e.used => e.first = 0 /\ e.size = 0,
         NEW w \in VolType, Cache(w),
         D[p].used => Without(w.fat, V.fat, D[p].first), ~D[p].used => w = V,
         NEW D2 \in [Places -> EntryType], D2[p] = e, \A i \in Places : i # p => D2[i] = D[i],
         NEW V2, V2 = fat_commit(w)
  PROVE  Right(D2, V2, A, S) /\ V2.fat = w.fat /\ NoneLost(V2.fat, Now(D2, S), V.fat, Now(D, S))
<1>1. /\ D \in [Places -> EntryType] /\ S \in [Slots -> {Closed} \cup OpenType] /\ A \in DataType
      /\ Laid(V.fat, Now(D, S)) /\ OneWriter(S) /\ Laid(V.disk, Entries(D)) /\ Good(V)
      /\ \A j \in Slots : S[j].open => OpenRight(D, V.fat, S[j])
  BY DEF Right
<1>2. V \in VolType /\ Linked(V.fat) /\ V.fat \in TableType /\ w.fat \in TableType
  BY <1>1 DEF Good, VolType
<1>3. D2[p] = e /\ \A i \in Places : i # p => D2[i] = D[i]
  OBVIOUS
<1>4. /\ \A i \in Used(D2) : i # p => i \in Used(D) /\ D2[i] = D[i]
      /\ \A i \in Used(D) : i # p => i \in Used(D2)
  BY <1>3 DEF Used
<1>5. PICK E : E = Entries(D)
  OBVIOUS
<1>6. PICK F : F = Now(D, S)
  OBVIOUS
<1>7. PICK E2 : E2 = Entries(D2)
  OBVIOUS
<1>8. PICK F2 : F2 = Now(D2, S)
  OBVIOUS
<1>9. /\ DOMAIN E = Used(D) /\ DOMAIN F = Used(D) /\ DOMAIN E2 = Used(D2) /\ DOMAIN F2 = Used(D2)
      /\ \A i \in Used(D) : E[i] = D[i]
      /\ \A i \in Used(D2) : E2[i] = D2[i]
      /\ \A i \in Used(D2) : i # p => F2[i] = F[i]
  <2>1. DOMAIN F = Used(D) /\ DOMAIN F2 = Used(D2)
    BY <1>6, <1>8 DEF Now
  <2>2. /\ DOMAIN E = Used(D) /\ DOMAIN E2 = Used(D2)
        /\ \A i \in Used(D) : E[i] = D[i]
        /\ \A i \in Used(D2) : E2[i] = D2[i]
    BY <1>5, <1>7 DEF Entries
  <2>3. ASSUME NEW i \in Used(D2), i # p PROVE F2[i] = F[i]
    <3>1. i \in Used(D) /\ D2[i] = D[i]
      BY <1>4, <2>3
    <3>2. F[i] = IF DirtyAt(S, i) = {} THEN D[i] ELSE S[CHOOSE s \in DirtyAt(S, i) : TRUE]
      BY <1>6, <3>1 DEF Now
    <3>3. F2[i] = IF DirtyAt(S, i) = {} THEN D2[i] ELSE S[CHOOSE s \in DirtyAt(S, i) : TRUE]
      BY <1>8 DEF Now
    <3> QED BY <3>1, <3>2, <3>3
  <2> QED BY <2>1, <2>2, <2>3
<1>10. p \in Used(D2) => E2[p].first = 0 /\ E2[p].size = 0 /\ F2[p].first = 0 /\ F2[p].size = 0
  <2> SUFFICES ASSUME p \in Used(D2) PROVE E2[p] = e /\ F2[p] = e /\ e.first = 0 /\ e.size = 0
    OBVIOUS
  <2>1. e.used
    BY <1>3 DEF Used
  <2>2. F2[p] = D2[p]
    BY <1>8, NowClosed
  <2> QED BY <1>3, <1>9, <2>1, <2>2
<1>11. p \in Used(D) => F[p] = D[p]
  BY <1>6, NowClosed
<1>12. Laid(V.fat, E) /\ Laid(V.fat, F)
  BY <1>1, <1>5, <1>6, EntriesLaid
<1>13. /\ \A j \in Slots : S[j].open => S[j].place \in Places /\ S[j].place # p
       /\ \A j \in Slots : S[j].open => D2[S[j].place] = D[S[j].place]
  <2>1. \A j \in Slots : S[j].open => S[j].place \in Places
    <3>1. \A j \in Slots : S[j].open => S[j] \in OpenType
      BY <1>1 DEF Closed
    <3> QED BY <3>1 DEF OpenType
  <2> QED BY <1>3, <2>1
<1>14. \A T : \A j \in Slots : S[j].open /\ OpenRight(D, T, S[j]) => OpenRight(D2, T, S[j])
  BY <1>13 DEF OpenRight
<1>15. CASE ~D[p].used
  <2>1. w = V
    BY <1>15
  <2>2. \A j \in Slots : S[j].open => OpenRight(D2, w.fat, S[j])
    BY <1>1, <1>14, <2>1
  <2>3. Laid(w.fat, E2)
    <3>1. \A j \in DOMAIN E2 :
            \/ j \in DOMAIN E /\ E2[j].first = E[j].first /\ E2[j].size = E[j].size
            \/ E2[j].first = 0 /\ E2[j].size = 0
      BY <1>4, <1>9, <1>10
    <3>2. PICK T : T = V.fat
      OBVIOUS
    <3>3. Laid(T, E)
      BY <1>12, <3>2
    <3>4. Laid(T, E2)
      BY <3>1, <3>3, LaidAgain
    <3> QED BY <2>1, <3>2, <3>4
  <2>4. Laid(w.fat, F2)
    <3>1. \A j \in DOMAIN F2 :
            \/ j \in DOMAIN F /\ F2[j].first = F[j].first /\ F2[j].size = F[j].size
            \/ F2[j].first = 0 /\ F2[j].size = 0
      BY <1>4, <1>9, <1>10
    <3>2. PICK T : T = V.fat
      OBVIOUS
    <3>3. Laid(T, F)
      BY <1>12, <3>2
    <3>4. Laid(T, F2)
      BY <3>1, <3>3, LaidAgain
    <3> QED BY <2>1, <3>2, <3>4
  <2>5. Linked(w.fat)
    BY <1>2, <2>1
  <2>6. Right(D2, V2, A, S) /\ V2.fat = w.fat
    <3>1. Laid(w.fat, Entries(D2)) /\ Laid(w.fat, Now(D2, S))
      BY <1>7, <1>8, <2>3, <2>4
    <3> QED BY <1>1, <2>2, <2>5, <3>1, CommitRight
  <2>7. NoneLost(V2.fat, F2, V.fat, F)
    <3>1. \A i \in DOMAIN F : i \in DOMAIN F2 /\ F2[i] = F[i]
      BY <1>4, <1>9, <1>15 DEF Used
    <3> QED BY <2>1, <2>6, <3>1 DEF NoneLost
  <2> QED BY <1>6, <1>8, <2>6, <2>7
<1>16. CASE D[p].used
  <2>1. p \in Used(D) /\ D[p].first \in {0} \cup Clusters
    BY <1>1, <1>16, UsedPlaces DEF Used
  <2>2. PICK x : x = D[p].first
    OBVIOUS
  <2>3. x \in Link /\ Without(w.fat, V.fat, x) /\ F[p].first = x /\ E[p].first = x
    BY <1>9, <1>11, <1>16, <2>1, <2>2, FirstLink
  <2>4. Rooted(V.fat, x)
    BY <1>9, <1>12, <2>1, <2>3 DEF Laid
  <2>5. Linked(w.fat) /\ Shrinks(w.fat, V.fat, x)
    <3>1. PICK T : T = V.fat
      OBVIOUS
    <3>2. PICK U : U = w.fat
      OBVIOUS
    <3> QED BY <1>2, <2>3, <2>4, <3>1, <3>2, WithoutLinked
  <2>6. PICK U \in TableType : U = w.fat
    BY <1>2
  <2>7. Linked(U) /\ Shrinks(U, V.fat, F[p].first) /\ Shrinks(U, V.fat, E[p].first)
    BY <2>3, <2>5, <2>6
  <2>8. \A size \in Nat : Rooted(U, 0) /\ (size = 0 => Long(U, 0, size))
    BY NoChain
  <2>9. \A j \in Slots : S[j].open => OpenRight(D2, U, S[j])
    <3>1. Shrinks(U, V.fat, Now(D, S)[p].first)
      BY <1>6, <2>7
    <3>2. \A j \in Slots : S[j].open /\ S[j].place # p => OpenRight(D, U, S[j])
      BY <2>1, <3>1, ShrinkOthers
    <3> QED BY <1>13, <1>14, <3>2
  <2>10. Laid(U, E2)
    <3>1. \A j \in DOMAIN E2 :
            \/ j \in DOMAIN E \ {p} /\ E2[j].first = E[j].first /\ E2[j].size = E[j].size
            \/ /\ E2[j].first \in {0, E[p].first} /\ E2[j].size \in Nat
               /\ Rooted(U, E2[j].first) /\ Long(U, E2[j].first, E2[j].size)
               /\ E2[j].first # 0 => j = p
      BY <1>4, <1>9, <1>10, <2>8
    <3> QED BY <1>9, <1>12, <2>1, <2>7, <3>1, LaidShrinks
  <2>11. Laid(U, F2)
    <3>1. \A j \in DOMAIN F2 :
            \/ j \in DOMAIN F \ {p} /\ F2[j].first = F[j].first /\ F2[j].size = F[j].size
            \/ /\ F2[j].first \in {0, F[p].first} /\ F2[j].size \in Nat
               /\ Rooted(U, F2[j].first) /\ Long(U, F2[j].first, F2[j].size)
               /\ F2[j].first # 0 => j = p
      BY <1>4, <1>9, <1>10, <2>8
    <3> QED BY <1>9, <1>12, <2>1, <2>7, <3>1, LaidShrinks
  <2>12. Right(D2, V2, A, S) /\ V2.fat = w.fat
    <3>1. Laid(w.fat, Entries(D2)) /\ Laid(w.fat, Now(D2, S))
      BY <1>7, <1>8, <2>6, <2>10, <2>11
    <3>2. \A j \in Slots : S[j].open => OpenRight(D2, w.fat, S[j])
      BY <2>6, <2>9
    <3> QED BY <1>1, <2>5, <3>1, <3>2, CommitRight
  <2>13. NoneLost(V2.fat, F2, V.fat, F)
    <3>1. \A c \in ClustersOf(V.fat, F[p].first) : U[c] = 0
      BY <2>3, <2>6 DEF Without, ClustersOf
    <3>2. \A i \in DOMAIN F : i # p => i \in DOMAIN F2 /\ F2[i].first = F[i].first
      BY <1>4, <1>9
    <3>3. p \in DOMAIN F
      BY <1>9, <2>1
    <3>4. NoneLost(U, F2, V.fat, F)
      BY <1>12, <2>7, <3>1, <3>2, <3>3, NoneLostShrinks
    <3> QED BY <2>6, <2>12, <3>4
  <2> QED BY <1>6, <1>8, <2>12, <2>13
<1> QED BY <1>15, <1>16

\* The modes of open files are modes.
LEMMA ModesTyped == OpenModes \cup {Mode(0, 2)} \subseteq Modes
BY InputAssumption DEF Modes, Mode

\* No mode of an open clashes with those of the others: all of them read only.
LEMMA ReadersOnly ==
  ASSUME ExclusiveWriters, NEW m \in OpenModes \cup {Mode(0, 2)}, NEW n \in OpenModes,
         m \notin Clashing(n)
  PROVE  m.access = 0 /\ n.access = 0
<1>1. m \in Modes /\ n \in Modes
  BY ModesTyped
<1>2. share_mode_compat(m, n)
  BY <1>1 DEF Clashing
<1>3. m # Mode(0, 2)
  BY <1>2 DEF share_mode_compat, Mode, ExclusiveWriters
<1>4. m \in OpenModes
  BY <1>3
<1> HIDE DEF Mode
<1>5. n.access = 0
  BY <1>2, <1>4 DEF ExclusiveWriters
<1>6. m.access = 0
  BY <1>2, <1>4 DEF ExclusiveWriters
<1> QED BY <1>5, <1>6

\* An existing file is opened.
LEMMA OpenStep ==
  ASSUME ExclusiveWriters, NEW D, NEW V, NEW A, NEW S, Right(D, V, A, S), NEW p \in Used(D),
         NEW m \in OpenModes,
         \A s \in Slots : S[s].open /\ S[s].place = p => S[s].mode \notin Clashing(m),
         NEW l \in Slots, ~S[l].open,
         NEW S2, S2 = [S EXCEPT ![l] = Entered(p, m, D[p].first, D[p].size)]
  PROVE  /\ Right(D, V, A, S2)
         /\ NoneLost(V.fat, Now(D, S2), V.fat, Now(D, S))
<1>1. /\ D \in [Places -> EntryType] /\ Good(V) /\ S \in [Slots -> {Closed} \cup OpenType]
      /\ \A j \in Slots : S[j].open => OpenRight(D, V.fat, S[j])
  BY DEF Right
<1>2. V.fat \in TableType /\ Laid(V.fat, Entries(D))
  BY <1>1, EntriesLaid DEF Good, VolType
<1>3. PICK x \in {0} \cup Clusters : x = D[p].first
  BY <1>1, UsedPlaces
<1>4. PICK z \in 0..MaxSecs : z = D[p].size
  BY <1>1, UsedPlaces
<1>5. Rooted(V.fat, x) /\ Long(V.fat, x, z)
  <2>1. p \in DOMAIN Entries(D) /\ Entries(D)[p] = D[p]
    BY DEF Entries
  <2> QED BY <1>2, <1>3, <1>4, <2>1 DEF Laid
<1>6. p \in Places /\ D[p].used /\ m \in Modes
  BY <1>1, UsedPlaces, ModesTyped
<1>7. PICK e : e = Entered(p, m, x, z)
  OBVIOUS
<1>8. /\ e \in OpenType /\ Placed(V.fat, e) /\ e.open /\ ~e.dirty
      /\ e.place = p /\ e.mode = m /\ e.first = x /\ e.size = z
  BY <1>2, <1>5, <1>6, <1>7, EnteredPlaced
<1>9. OpenRight(D, V.fat, e)
  BY <1>3, <1>4, <1>6, <1>8 DEF OpenRight
<1>10. Joins(S, e)
  <2> SUFFICES ASSUME NEW s \in Slots, S[s].open, S[s].place = p
               PROVE  S[s].mode.access = 0 /\ m.access = 0
    BY <1>8 DEF Joins
  <2>1. S[s].mode \in OpenModes \cup {Mode(0, 2)}
    BY <1>1 DEF OpenRight
  <2>2. S[s].mode \notin Clashing(m)
    OBVIOUS
  <2> QED BY <2>1, <2>2, ReadersOnly
<1>11. S2 = [S EXCEPT ![l] = e]
  BY <1>3, <1>4, <1>7
<1>12. PICK Z : Z = S2 /\ Swapped(Z, S, l, e)
  BY <1>1, <1>8, <1>11 DEF Swapped
<1>13. Right(D, V, A, Z) /\ \A i \in Used(D) : Now(D, Z)[i].first = Now(D, S)[i].first
  <2>1. Swapped(Z, S, l, e)
    BY <1>12
  <2> QED BY <1>8, <1>9, <1>10, <2>1, AddSlot
<1>14. PICK F : F = Now(D, S)
  OBVIOUS
<1>15. PICK F2 : F2 = Now(D, Z)
  OBVIOUS
<1>16. DOMAIN F2 = DOMAIN F /\ \A i \in DOMAIN F : F2[i].first = F[i].first
  BY <1>13, <1>14, <1>15 DEF Now
<1>17. NoneLost(V.fat, F2, V.fat, F)
  BY <1>16, NoneLostSame
<1> QED BY <1>12, <1>13, <1>14, <1>15, <1>17

\* A file just created, open in no slot yet, is opened.
LEMMA CreateStep ==
  ASSUME NEW D, NEW V, NEW A, NEW S, Right(D, V, A, S), NEW p \in Used(D),
         D[p].first = 0, D[p].size = 0,
         \A s \in Slots : ~(S[s].open /\ S[s].place = p),
         NEW l \in Slots, ~S[l].open,
         NEW S2, Swapped(S2, S, l, Entered(p, Mode(0, 2), 0, 0))
  PROVE  /\ Right(D, V, A, S2)
         /\ \A i \in Used(D) : Now(D, S2)[i].first = Now(D, S)[i].first
<1>1. /\ D \in [Places -> EntryType] /\ V.fat \in TableType
      /\ S \in [Slots -> {Closed} \cup OpenType]
  BY DEF Right, Good, VolType
<1>2. p \in Places /\ D[p].used
  BY <1>1, UsedPlaces
<1>3. PICK m \in Modes : m = Mode(0, 2)
  BY ModesTyped
<1>4. Rooted(V.fat, 0) /\ Long(V.fat, 0, 0) /\ 0 \in 0..MaxSecs
  BY <1>1, NoChain, InputAssumption
<1>5. PICK e : e = Entered(p, m, 0, 0)
  OBVIOUS
<1>6. PICK z \in 0..MaxSecs : z = 0
  BY <1>4
<1>7. PICK x \in {0} \cup Clusters : x = 0
  OBVIOUS
<1>8. Rooted(V.fat, x) /\ Long(V.fat, x, z) /\ e = Entered(p, m, x, z)
  BY <1>4, <1>5, <1>6, <1>7
<1>9. /\ e \in OpenType /\ Placed(V.fat, e) /\ e.open /\ ~e.dirty
      /\ e.place = p /\ e.mode = m /\ e.first = x /\ e.size = z
  BY <1>1, <1>2, <1>8, EnteredPlaced
<1>10. OpenRight(D, V.fat, e)
  BY <1>2, <1>3, <1>6, <1>7, <1>9 DEF OpenRight
<1>11. Joins(S, e)
  BY <1>9 DEF Joins
<1>12. Swapped(S2, S, l, e)
  BY <1>3, <1>5
<1> QED BY <1>9, <1>10, <1>11, <1>12, AddSlot

\* The entry of a file gets another name.
LEMMA RenameStep ==
  ASSUME NEW D, NEW V, NEW A, NEW S, Right(D, V, A, S), NEW p \in Used(D), NEW n \in Names,
         NEW D2, D2 = [D EXCEPT ![p].name = n]
  PROVE  Right(D2, V, A, S) /\ NoneLost(V.fat, Now(D2, S), V.fat, Now(D, S))
<1>1. /\ D \in [Places -> EntryType] /\ S \in [Slots -> {Closed} \cup OpenType] /\ A \in DataType
      /\ Laid(V.fat, Now(D, S)) /\ OneWriter(S) /\ Laid(V.disk, Entries(D)) /\ Good(V)
      /\ \A j \in Slots : S[j].open => OpenRight(D, V.fat, S[j])
  BY DEF Right
<1>2. /\ p \in Places
      /\ D[p] \in [used : {TRUE}, name : Names, first : {0} \cup Clusters, size : 0..MaxSecs]
  BY <1>1, UsedPlaces
<1>3. PICK e : e = [D[p] EXCEPT !.name = n]
  OBVIOUS
<1>4. e \in EntryType /\ e.used = D[p].used /\ e.first = D[p].first /\ e.size = D[p].size
  BY <1>2, <1>3 DEF EntryType
<1>5. PICK E : E = D2
  OBVIOUS
<1>6. E \in [Places -> EntryType] /\ E[p] = e /\ \A i \in Places : i # p => E[i] = D[i]
  BY <1>1, <1>2, <1>3, <1>4, <1>5
<1>7. \A i \in Places :
        /\ E[i].used = D[i].used
        /\ E[i].used => E[i].first = D[i].first /\ E[i].size = D[i].size
  BY <1>4, <1>6
<1>8. Used(E) = Used(D)
  BY <1>7 DEF Used
<1>9. \A j \in Slots : S[j].open => OpenRight(E, V.fat, S[j])
  <2> SUFFICES ASSUME NEW j \in Slots, S[j].open PROVE OpenRight(E, V.fat, S[j])
    OBVIOUS
  <2>1. S[j] \in OpenType /\ OpenRight(D, V.fat, S[j])
    BY <1>1 DEF Closed
  <2>2. S[j].place \in Places
    BY <2>1 DEF OpenType
  <2>3. /\ E[S[j].place].used /\ E[S[j].place].first = D[S[j].place].first
        /\ E[S[j].place].size = D[S[j].place].size
    BY <1>7, <2>1, <2>2 DEF OpenRight
  <2> QED BY <2>1, <2>3 DEF OpenRight
<1>10. PICK F : F = Now(D, S)
  OBVIOUS
<1>11. PICK F2 : F2 = Now(E, S)
  OBVIOUS
<1>12. DOMAIN F = Used(D) /\ DOMAIN F2 = Used(D)
  BY <1>8, <1>10, <1>11 DEF Now
<1>13. \A i \in Used(D) : F2[i].first = F[i].first /\ F2[i].size = F[i].size
  <2> SUFFICES ASSUME NEW i \in Used(D)
               PROVE  F2[i].first = F[i].first /\ F2[i].size = F[i].size
    OBVIOUS
  <2>1. F[i] = IF DirtyAt(S, i) = {} THEN D[i] ELSE S[CHOOSE s \in DirtyAt(S, i) : TRUE]
    BY <1>10 DEF Now
  <2>2. F2[i] = IF DirtyAt(S, i) = {} THEN E[i] ELSE S[CHOOSE s \in DirtyAt(S, i) : TRUE]
    BY <1>8, <1>11 DEF Now
  <2>3. i \in Places /\ D[i].used
    BY DEF Used
  <2>4. E[i].first = D[i].first /\ E[i].size = D[i].size
    BY <1>7, <2>3
  <2> QED BY <2>1, <2>2, <2>4
<1>14. Laid(V.fat, F2)
  <2>1. PICK T : T = V.fat
    OBVIOUS
  <2>2. Laid(T, F)
    BY <1>1, <1>10, <2>1
  <2>3. Laid(T, F2)
    BY <1>12, <1>13, <2>2, LaidFields
  <2> QED BY <2>1, <2>3
<1>15. Laid(V.disk, Entries(E))
  <2>1. PICK T : T = V.disk
    OBVIOUS
  <2>2. PICK G : G = Entries(D)
    OBVIOUS
  <2>3. PICK H : H = Entries(E)
    OBVIOUS
  <2>4. DOMAIN H \subseteq DOMAIN G /\ \A i \in DOMAIN H : H[i].first = G[i].first /\ H[i].size = G[i].size
    BY <1>7, <1>8, <2>2, <2>3 DEF Entries, Used
  <2>5. Laid(T, H)
    BY <1>1, <2>1, <2>2, <2>4, LaidFields
  <2> QED BY <2>1, <2>3, <2>5
<1>16. Right(E, V, A, S)
  BY <1>1, <1>6, <1>9, <1>11, <1>14, <1>15 DEF Right
<1>17. NoneLost(V.fat, F2, V.fat, F)
  BY <1>12, <1>13, NoneLostSame
<1> QED BY <1>5, <1>10, <1>11, <1>16, <1>17

\* The entry of a closed file moves to a free place, and the table is written.
LEMMA MoveStep ==
  ASSUME NEW D, NEW V, NEW A, NEW S, Right(D, V, A, S), NEW p \in Used(D),
         NEW q \in Places, ~D[q].used, \A s \in Slots : ~(S[s].open /\ S[s].place = p),
         NEW D2 \in [Places -> EntryType], D2[q].used, D2[q].first = D[p].first,
         D2[q].size = D[p].size, ~D2[p].used, \A i \in Places : i \notin {p, q} => D2[i] = D[i],
         NEW V2, V2 = fat_commit(V)
  PROVE  Right(D2, V2, A, S) /\ V2.fat = V.fat /\ NoneLost(V2.fat, Now(D2, S), V.fat, Now(D, S))
<1>1. /\ D \in [Places -> EntryType] /\ S \in [Slots -> {Closed} \cup OpenType] /\ A \in DataType
      /\ Laid(V.fat, Now(D, S)) /\ OneWriter(S) /\ Laid(V.disk, Entries(D)) /\ Good(V)
      /\ \A j \in Slots : S[j].open => OpenRight(D, V.fat, S[j])
  BY DEF Right
<1>2. V \in VolType /\ Cache(V) /\ Linked(V.fat) /\ p \in Places /\ D[p].used /\ p # q
  BY <1>1 DEF Good, Used
<1>3. /\ \A i \in Used(D2) : i # q => i \in Used(D) /\ i # p /\ D2[i] = D[i]
      /\ \A i \in Used(D) : i # p => i \in Used(D2) /\ i # q
      /\ q \in Used(D2)
  BY <1>2 DEF Used
<1>4. /\ \A j \in Slots : S[j].open => S[j] \in OpenType
      /\ \A j \in Slots : S[j].open => S[j].place \in Places
  <2>1. \A j \in Slots : S[j].open => S[j] \in OpenType
    BY <1>1 DEF Closed
  <2> QED BY <2>1 DEF OpenType
<1>5. /\ \A j \in Slots : S[j].open => S[j].place \notin {p, q}
      /\ \A j \in Slots : S[j].open => D2[S[j].place] = D[S[j].place]
  <2>1. \A j \in Slots : S[j].open => D[S[j].place].used
    BY <1>1 DEF OpenRight
  <2> QED BY <1>4, <2>1
<1>6. \A j \in Slots : S[j].open => OpenRight(D2, V.fat, S[j])
  BY <1>1, <1>5 DEF OpenRight
<1>7. PICK E : E = Entries(D)
  OBVIOUS
<1>8. PICK F : F = Now(D, S)
  OBVIOUS
<1>9. PICK E2 : E2 = Entries(D2)
  OBVIOUS
<1>10. PICK F2 : F2 = Now(D2, S)
  OBVIOUS
<1>11. /\ DOMAIN E = Used(D) /\ DOMAIN E2 = Used(D2)
       /\ \A i \in Used(D) : E[i] = D[i]
       /\ \A i \in Used(D2) : E2[i] = D2[i]
  BY <1>7, <1>9 DEF Entries
<1>12. DOMAIN F = Used(D) /\ DOMAIN F2 = Used(D2)
  BY <1>8, <1>10 DEF Now
<1>13. ASSUME NEW i \in Used(D2), i # q PROVE F2[i] = F[i]
  <2>1. i \in Used(D) /\ D2[i] = D[i]
    BY <1>3, <1>13
  <2>2. F[i] = IF DirtyAt(S, i) = {} THEN D[i] ELSE S[CHOOSE s \in DirtyAt(S, i) : TRUE]
    BY <1>8, <2>1 DEF Now
  <2>3. F2[i] = IF DirtyAt(S, i) = {} THEN D2[i] ELSE S[CHOOSE s \in DirtyAt(S, i) : TRUE]
    BY <1>10 DEF Now
  <2> QED BY <2>1, <2>2, <2>3
<1>14. F2[q] = D2[q] /\ F[p] = D[p]
  BY <1>3, <1>5, <1>8, <1>10, NowClosed
<1>15. PICK m : m = [j \in Used(D2) |-> IF j = q THEN p ELSE j]
  OBVIOUS
<1>16. /\ m \in [Used(D2) -> Used(D)] /\ m[q] = p
       /\ \A j \in Used(D2) : j # q => m[j] = j /\ j # p
       /\ \A j, k \in Used(D2) : m[j] = m[k] => j = k
  BY <1>3, <1>15
<1>17. Laid(V.fat, E2)
  <2>1. PICK T : T = V.fat
    OBVIOUS
  <2>2. Laid(T, E)
    BY <1>7, <2>1, EntriesLaid
  <2>3. \A j \in DOMAIN E2 : E2[j].first = E[m[j]].first /\ E2[j].size = E[m[j]].size
    BY <1>3, <1>11, <1>16
  <2>4. m \in [DOMAIN E2 -> DOMAIN E] /\ \A j, k \in DOMAIN E2 : m[j] = m[k] => j = k
    BY <1>11, <1>16
  <2>5. Laid(T, E2)
    BY <2>2, <2>3, <2>4, LaidSub
  <2> QED BY <2>1, <2>5
<1>18. Laid(V.fat, F2)
  <2>1. PICK T : T = V.fat
    OBVIOUS
  <2>2. Laid(T, F)
    BY <1>1, <1>8, <2>1
  <2>3. \A j \in DOMAIN F2 : F2[j].first = F[m[j]].first /\ F2[j].size = F[m[j]].size
    BY <1>12, <1>13, <1>14, <1>16
  <2>4. m \in [DOMAIN F2 -> DOMAIN F] /\ \A j, k \in DOMAIN F2 : m[j] = m[k] => j = k
    BY <1>12, <1>16
  <2>5. Laid(T, F2)
    BY <2>2, <2>3, <2>4, LaidSub
  <2> QED BY <2>1, <2>5
<1>19. Right(D2, V2, A, S) /\ V2.fat = V.fat
  <2>1. Laid(V.fat, Entries(D2)) /\ Laid(V.fat, Now(D2, S))
    BY <1>9, <1>10, <1>17, <1>18
  <2> QED BY <1>1, <1>2, <1>6, <2>1, CommitRight
<1>20. NoneLost(V2.fat, F2, V.fat, F)
  <2>1. \A i \in DOMAIN F : i # p => i \in DOMAIN F2 /\ F2[i].first = F[i].first
    BY <1>3, <1>12, <1>13
  <2>2. q \in DOMAIN F2 /\ F2[q].first = F[p].first
    BY <1>3, <1>12, <1>14
  <2>3. \A i \in DOMAIN F : \E j \in DOMAIN F2 : F2[j].first = F[i].first
    BY <2>1, <2>2
  <2> QED BY <1>19, <2>3 DEF NoneLost
<1> QED BY <1>8, <1>10, <1>19, <1>20

\* The power goes and comes back: what is on disk is all there is.
LEMMA PowerStep ==
  ASSUME NEW D, NEW V, NEW A, NEW S, Right(D, V, A, S),
         NEW V2, V2 = Mounted(V.disk), NEW S2, S2 = [s \in Slots |-> Closed]
  PROVE  Right(D, V2, A, S2)
<1>1. /\ D \in [Places -> EntryType] /\ A \in DataType /\ Laid(V.disk, Entries(D)) /\ Good(V)
  BY DEF Right
<1>2. V.disk \in TableType
  BY <1>1 DEF Good, VolType
<1>3. Linked(V.disk)
  BY <1>1, BehindLinked DEF Good
<1>4. V2.fat = V.disk /\ V2.disk = V.disk /\ V2 \in VolType /\ Cache(V2)
  BY <1>2 DEF Mounted, VolType, Cache
<1>5. Good(V2)
  BY <1>3, <1>4, BehindSelf DEF Good
<1>6. \A s \in Slots : ~S2[s].open
  BY DEF Closed
<1>7. PICK F : F = Now(D, S2)
  OBVIOUS
<1>8. F = Entries(D)
  <2>1. \A i \in Used(D) : DirtyAt(S2, i) = {}
    BY <1>6 DEF DirtyAt
  <2> QED BY <1>7, <2>1 DEF Now, Entries
<1>9. S2 \in [Slots -> {Closed} \cup OpenType] /\ OneWriter(S2)
  BY <1>6 DEF OneWriter
<1> QED BY <1>1, <1>4, <1>5, <1>6, <1>7, <1>8, <1>9 DEF Right

\* Only the position changes.
LEMMA SeekStep ==
  ASSUME NEW D, NEW V, NEW A, NEW S, Right(D, V, A, S), NEW s \in Slots, S[s].open,
         NEW pos \in 0..MaxSecs, NEW S2, S2 = [S EXCEPT ![s].pos = pos]
  PROVE  Right(D, V, A, S2) /\ NoneLost(V.fat, Now(D, S2), V.fat, Now(D, S))
<1>1. /\ S \in [Slots -> {Closed} \cup OpenType] /\ A \in DataType /\ Good(V)
      /\ OpenRight(D, V.fat, S[s])
  BY DEF Right
<1>2. PICK f : f = S[s]
  OBVIOUS
<1>3. f \in OpenType /\ Placed(V.fat, f) /\ (f.dirty => f.mode.access # 0)
  <2>1. f \in OpenType
    BY <1>1, <1>2 DEF Closed
  <2> QED BY <1>1, <1>2, <2>1 DEF OpenRight
<1>4. PICK g : g = [f EXCEPT !.pos = pos]
  OBVIOUS
<1>5. /\ g \in OpenType /\ g.place = f.place /\ g.mode = f.mode /\ g.first = f.first
      /\ g.size = f.size /\ g.cur = f.cur /\ g.cpos = f.cpos /\ g.dirty = f.dirty /\ g.pos = pos
  BY <1>3, <1>4 DEF OpenType
<1>6. Placed(V.fat, g)
  BY <1>3, <1>5 DEF Placed
<1>7. PICK t : t = [f |-> g, vol |-> V, data |-> A, read |-> <<>>, left |-> 0, stop |-> FALSE]
  OBVIOUS
<1>8. t.f = g /\ t.vol = V /\ t.data = A /\ t.left = 0 /\ t.stop = FALSE
  BY <1>7
<1>9. t \in TransferType
  BY <1>1, <1>5, <1>7 DEF TransferType, Good
<1>10. Moving(t, f, V)
  BY <1>1, <1>5, <1>6, <1>8, <1>9, GrownSelf, InputAssumption DEF Moving
<1>11. PICK Z : Z = S2
  OBVIOUS
<1>12. Z \in [Slots -> {Closed} \cup OpenType] /\ Z[s] = g /\ \A j \in Slots : j # s => Z[j] = S[j]
  <2>1. Z = [S EXCEPT ![s] = g]
    BY <1>1, <1>2, <1>4, <1>11
  <2> QED BY <1>1, <1>5, <2>1
<1>13. Right(D, V, A, Z) /\ NoneLost(V.fat, Now(D, Z), V.fat, Now(D, S))
  <2>1. t.f.dirty => S[s].mode.access # 0
    BY <1>2, <1>3, <1>5, <1>8
  <2>2. Moving(t, S[s], V) /\ Z[s] = t.f
    BY <1>2, <1>8, <1>10, <1>12
  <2>3. Right(D, t.vol, t.data, Z) /\ NoneLost(t.vol.fat, Now(D, Z), V.fat, Now(D, S))
    BY <1>12, <2>1, <2>2, TransferRight
  <2> QED BY <1>8, <2>3
<1> QED BY <1>11, <1>13

----------------------------------------------------------------------------
(* The calls.                                                              *)

\* A step loses no cluster.
Kept == NoneLost(vol'.fat, Now(dir', sft'), vol.fat, Now(dir, sft))

\* The place of a name that is found.
LEMMA PlaceFound ==
  ASSUME NEW d, NEW n, Found(d, n) # {}
  PROVE  /\ PlaceOf(d, n) \in Places /\ dir[PlaceOf(d, n)].used /\ PlaceOf(d, n)[1] = d
         /\ PlaceOf(d, n) \in Used(dir)
<1>1. PlaceOf(d, n) \in Found(d, n)
  BY DEF PlaceOf
<1> QED BY <1>1 DEF Found, Used

\* The lowest free slot.
LEMMA SlotFound ==
  ASSUME FreeSft # {}
  PROVE  LowestSft \in Slots /\ ~sft[LowestSft].open
<1>1. FreeSft \in SUBSET Nat
  BY DEF FreeSft, Slots
<1>2. \E s \in FreeSft : \A t \in FreeSft : s <= t
  BY <1>1, NatLeast
<1>3. LowestSft \in FreeSft
  BY <1>2 DEF LowestSft
<1> QED BY <1>3 DEF FreeSft

\* The first free entry of a directory.
LEMMA FreeFound ==
  ASSUME NEW d, FreePlaces(d) # {}
  PROVE  FirstFree(d) \in Places /\ ~dir[FirstFree(d)].used /\ FirstFree(d)[1] = d
<1> DEFINE Indices == {i[2] : i \in FreePlaces(d)}
<1>1. \A i \in FreePlaces(d) : i[2] \in Nat
  <2>1. \A i \in Places : i[2] \in Nat
    BY DEF Places
  <2> QED BY <2>1 DEF FreePlaces
<1>2. Indices \in SUBSET Nat /\ Indices # {}
  BY <1>1
<1>3. PICK x \in Indices : \A y \in Indices : x <= y
  BY <1>2, NatLeast
<1>4. \E i \in FreePlaces(d) : \A j \in FreePlaces(d) : i[2] <= j[2]
  BY <1>3
<1>5. FirstFree(d) \in FreePlaces(d)
  BY <1>4 DEF FirstFree
<1> QED BY <1>5 DEF FreePlaces

\* Opening a file keeps the invariant.
LEMMA OpenKeeps ==
  ASSUME FileInv, ExclusiveWriters, NEW d \in Dirs, NEW n \in Names, NEW m \in OpenModes,
         f3d_open(d, n, m)
  PROVE  FileInv' /\ Kept
<1>1. PICK p : p = PlaceOf(d, n)
  OBVIOUS
<1>2. PICK l : l = LowestSft
  OBVIOUS
<1>3. /\ ~share_conflict(p, Clashing(m)) /\ UNCHANGED <<dir, vol, data>>
      /\ sft' = [sft EXCEPT ![l] = Entered(p, m, dir[p].first, dir[p].size)]
  BY <1>1, <1>2 DEF f3d_open
<1>4. p \in Used(dir)
  BY <1>1, PlaceFound DEF f3d_open
<1>5. l \in Slots /\ ~sft[l].open
  BY <1>2, SlotFound DEF f3d_open
<1>6. \A s \in Slots : sft[s].open /\ sft[s].place = p => sft[s].mode \notin Clashing(m)
  BY <1>3 DEF share_conflict, OpenAt
<1>7. Right(dir, vol, data, sft)
  BY DEF FileInv
<1>8. /\ Right(dir, vol, data, sft')
      /\ NoneLost(vol.fat, Now(dir, sft'), vol.fat, Now(dir, sft))
  BY <1>3, <1>4, <1>5, <1>6, <1>7, OpenStep
<1> QED BY <1>3, <1>8 DEF FileInv, Kept

\* So does creating one at a place, in front of the old file or in a free entry.
LEMMA CreateKeeps ==
  ASSUME FileInv, NEW p \in Places, NEW n \in Names,
         \A s \in Slots : ~(sft[s].open /\ sft[s].place = p),
         NEW w \in VolType, Cache(w),
         dir[p].used => Without(w.fat, vol.fat, dir[p].first), ~dir[p].used => w = vol,
         CreateAt(p, n, w)
  PROVE  FileInv' /\ Kept
<1>1. PICK e : e = File(n, 0, 0)
  OBVIOUS
<1>2. e \in EntryType /\ e.used /\ e.first = 0 /\ e.size = 0
  <2>1. 0 \in 0..MaxSecs
    BY InputAssumption
  <2> QED BY <1>1, <2>1 DEF File, EntryType
<1>3. /\ dir' = [dir EXCEPT ![p] = e] /\ vol' = fat_commit(w) /\ data' = data
      /\ sft' = IF FreeSft = {} THEN sft
                ELSE [sft EXCEPT ![LowestSft] = Entered(p, Mode(0, 2), 0, 0)]
  BY <1>1 DEF CreateAt
<1>4. Right(dir, vol, data, sft) /\ dir \in [Places -> EntryType]
  BY DEF FileInv, Right
<1>5. PICK E : E = dir'
  OBVIOUS
<1>6. E \in [Places -> EntryType] /\ E[p] = e /\ \A i \in Places : i # p => E[i] = dir[i]
  BY <1>2, <1>3, <1>4, <1>5
<1>7. PICK V2 : V2 = vol'
  OBVIOUS
<1>8. V2 = fat_commit(w)
  BY <1>3, <1>7
<1>9. Right(E, V2, data, sft) /\ NoneLost(V2.fat, Now(E, sft), vol.fat, Now(dir, sft))
  BY <1>2, <1>4, <1>6, <1>8, ReplaceEntry
<1>10. CASE FreeSft = {}
  BY <1>3, <1>5, <1>7, <1>9, <1>10 DEF FileInv, Kept
<1>11. CASE FreeSft # {}
  <2>1. PICK l : l = LowestSft
    OBVIOUS
  <2>2. l \in Slots /\ ~sft[l].open
    BY <1>11, <2>1, SlotFound
  <2>3. Swapped(sft', sft, l, Entered(p, Mode(0, 2), 0, 0))
    <3>1. Entered(p, Mode(0, 2), 0, 0) \in OpenType
      BY ModesTyped, InputAssumption, SizeAssumption DEF Entered, OpenType
    <3>2. sft' = [sft EXCEPT ![l] = Entered(p, Mode(0, 2), 0, 0)]
      BY <1>3, <1>11, <2>1
    <3> QED BY <1>4, <2>2, <3>1, <3>2 DEF Swapped, Right
  <2>4. p \in Used(E) /\ E[p].first = 0 /\ E[p].size = 0
    BY <1>2, <1>6 DEF Used
  <2>5. /\ Right(E, V2, data, sft')
        /\ \A i \in Used(E) : Now(E, sft')[i].first = Now(E, sft)[i].first
    BY <1>9, <2>2, <2>3, <2>4, CreateStep
  <2>6. PICK F : F = Now(E, sft)
    OBVIOUS
  <2>7. PICK F2 : F2 = Now(E, sft')
    OBVIOUS
  <2>8. DOMAIN F2 = DOMAIN F /\ \A i \in DOMAIN F : F2[i].first = F[i].first
    BY <2>5, <2>6, <2>7 DEF Now
  <2>9. NoneLost(V2.fat, F2, vol.fat, Now(dir, sft))
    BY <1>9, <2>6, <2>8, NoneLostFields
  <2> QED BY <1>3, <1>5, <1>7, <2>5, <2>7, <2>9 DEF FileInv, Kept
<1> QED BY <1>10, <1>11

\* The chain of an entry whose file is not open is given back.
LEMMA FreeEntry ==
  ASSUME FileInv, NEW p \in Used(dir)
  PROVE  LET w == fat_free_chain(vol, dir[p].first)
         IN  w \in VolType /\ Cache(w) /\ Without(w.fat, vol.fat, dir[p].first)
<1>1. Right(dir, vol, data, sft) /\ dir \in [Places -> EntryType] /\ Good(vol)
  BY DEF FileInv, Right
<1>2. vol \in VolType /\ Cache(vol) /\ Linked(vol.fat)
  BY <1>1 DEF Good
<1>3. Laid(vol.fat, Entries(dir))
  BY <1>1, EntriesLaid
<1>4. PICK x : x = dir[p].first
  OBVIOUS
<1>5. x \in Link
  <2>1. x \in {0} \cup Clusters
    BY <1>1, <1>4, UsedPlaces
  <2> QED BY <2>1, FirstLink
<1>6. Rooted(vol.fat, x)
  BY <1>3, <1>4 DEF Laid, Entries
<1>7. PICK w : w = fat_free_chain(vol, x)
  OBVIOUS
<1>8. w \in VolType /\ Cache(w) /\ Without(w.fat, vol.fat, x)
  BY <1>2, <1>5, <1>6, <1>7, FreeChain
<1> QED BY <1>4, <1>7, <1>8

\* Creating over a file frees its chain; no handle has it open.
LEMMA CreateOverKeeps ==
  ASSUME FileInv, NEW d \in Dirs, NEW n \in Names, CreateOver(d, n)
  PROVE  FileInv' /\ Kept
<1>1. PICK p : p = PlaceOf(d, n)
  OBVIOUS
<1>2. PICK w : w = fat_free_chain(vol, dir[p].first)
  OBVIOUS
<1>3. ~share_conflict(p, Modes) /\ CreateAt(p, n, w) /\ p \in Used(dir) /\ p \in Places /\ dir[p].used
  BY <1>1, <1>2, PlaceFound DEF CreateOver
<1>4. \A s \in Slots : ~(sft[s].open /\ sft[s].place = p)
  <2> SUFFICES ASSUME NEW s \in Slots, sft[s].open, sft[s].place = p PROVE FALSE
    OBVIOUS
  <2>1. sft[s] \in OpenType
    BY DEF FileInv, Right, Closed
  <2>2. sft[s].mode \in Modes
    BY <2>1 DEF OpenType
  <2> QED BY <1>3, <2>2 DEF share_conflict, OpenAt
<1>5. w \in VolType /\ Cache(w) /\ Without(w.fat, vol.fat, dir[p].first)
  BY <1>2, <1>3, FreeEntry
<1> QED BY <1>3, <1>4, <1>5, CreateKeeps

\* Creating a new file leaves the table as it is.
LEMMA CreateNewKeeps ==
  ASSUME FileInv, NEW d \in Dirs, NEW n \in Names, CreateNew(d, n)
  PROVE  FileInv' /\ Kept
<1>1. PICK p : p = FirstFree(d)
  OBVIOUS
<1>2. CreateAt(p, n, vol) /\ p \in Places /\ ~dir[p].used
  BY <1>1, FreeFound DEF CreateNew
<1>3. \A s \in Slots : ~(sft[s].open /\ sft[s].place = p)
  BY <1>2 DEF FileInv, Right, OpenRight
<1>4. vol \in VolType /\ Cache(vol)
  BY DEF FileInv, Right, Good
<1> QED BY <1>2, <1>3, <1>4, CreateKeeps

\* What an open slot and the state around it are.
LEMMA OpenSlot ==
  ASSUME FileInv, NEW s \in Slots, sft[s].open
  PROVE  /\ sft[s] \in OpenType /\ Placed(vol.fat, sft[s]) /\ Good(vol) /\ data \in DataType
         /\ sft[s].mode \in OpenModes \cup {Mode(0, 2)}
         /\ sft[s].dirty => sft[s].mode.access # 0
         /\ sft[s].place \in Used(dir) /\ dir[sft[s].place].used
<1>1. sft[s] \in OpenType
  BY DEF FileInv, Right, Closed
<1>2. sft[s].place \in Places
  BY <1>1 DEF OpenType
<1> QED BY <1>1, <1>2 DEF FileInv, Right, OpenRight, Used

\* What file_flush does of the slot s.
LEMMA FlushStep ==
  ASSUME FileInv, NEW s \in Slots, sft[s].open, file_flush(sft[s], vol), data' = data,
         NEW S2, Swapped(S2, sft, s, Cleaned(sft[s]))
  PROVE  /\ Right(dir', vol', data, S2) /\ S2[s].open /\ ~S2[s].dirty
         /\ NoneLost(vol'.fat, Now(dir', S2), vol.fat, Now(dir, sft))
<1>1. Right(dir, vol, data, sft)
  BY DEF FileInv
<1>2. PICK D2 : D2 = FlushedTo(dir, sft[s])
  OBVIOUS
<1>3. PICK V2 : V2 = FlushedVol(vol, sft[s])
  OBVIOUS
<1>4. dir' = D2 /\ vol' = V2
  BY <1>2, <1>3 DEF file_flush, Flushed, FlushedTo, FlushedVol, Saved
<1>5. /\ Right(D2, V2, data, S2) /\ S2[s].open /\ ~S2[s].dirty
      /\ V2.fat = vol.fat /\ Used(D2) = Used(dir)
      /\ \A i \in Used(dir) : Now(D2, S2)[i].first = Now(dir, sft)[i].first
  <2>1. PICK S : S = sft
    OBVIOUS
  <2>2. Right(dir, vol, data, S) /\ S[s].open /\ Swapped(S2, S, s, Cleaned(S[s]))
    BY <1>1, <2>1
  <2>3. D2 = FlushedTo(dir, S[s]) /\ V2 = FlushedVol(vol, S[s])
    BY <1>2, <1>3, <2>1
  <2>4. /\ Right(D2, V2, data, S2) /\ S2[s].open /\ ~S2[s].dirty
        /\ V2.fat = vol.fat /\ Used(D2) = Used(dir)
        /\ \A i \in Used(dir) : Now(D2, S2)[i].first = Now(dir, S)[i].first
    BY <2>2, <2>3, FlushRight
  <2> QED BY <2>1, <2>4
<1>6. PICK F : F = Now(dir, sft)
  OBVIOUS
<1>7. PICK F2 : F2 = Now(D2, S2)
  OBVIOUS
<1>8. DOMAIN F2 = DOMAIN F /\ \A i \in DOMAIN F : F2[i].first = F[i].first
  BY <1>5, <1>6, <1>7 DEF Now
<1>9. NoneLost(vol.fat, F2, vol.fat, F)
  BY <1>8, NoneLostSame
<1> QED BY <1>4, <1>5, <1>6, <1>7, <1>9

\* 68h flushes the file.
LEMMA CommitKeeps ==
  ASSUME FileInv, NEW s \in Slots, f68_commit(s)
  PROVE  FileInv' /\ Kept
<1>1. /\ sft[s].open /\ file_flush(sft[s], vol) /\ data' = data
      /\ sft' = [sft EXCEPT ![s].dirty = FALSE]
  BY DEF f68_commit, IsOpen
<1>2. PICK S2 : S2 = [sft EXCEPT ![s] = Cleaned(sft[s])]
  OBVIOUS
<1>20. Swapped(S2, sft, s, Cleaned(sft[s]))
  <2>1. sft[s] \in OpenType /\ sft \in [Slots -> {Closed} \cup OpenType]
    BY <1>1, OpenSlot DEF FileInv, Right
  <2>2. Cleaned(sft[s]) \in OpenType
    BY <2>1 DEF Cleaned, OpenType
  <2> QED BY <1>2, <2>1, <2>2 DEF Swapped
<1>3. sft' = S2
  BY <1>1, <1>2 DEF Cleaned
<1>4. /\ Right(dir', vol', data, S2) /\ S2[s].open /\ ~S2[s].dirty
      /\ NoneLost(vol'.fat, Now(dir', S2), vol.fat, Now(dir, sft))
  BY <1>1, <1>20, FlushStep
<1> QED BY <1>1, <1>3, <1>4 DEF FileInv, Kept

\* A close flushes the file and gives up its slot.
LEMMA CloseKeeps ==
  ASSUME FileInv, NEW s \in Slots, f3e_close(s)
  PROVE  FileInv' /\ Kept
<1>1. /\ sft[s].open /\ file_flush(sft[s], vol) /\ data' = data
      /\ sft' = [sft EXCEPT ![s] = Closed]
  BY DEF f3e_close, IsOpen
<1>2. PICK S2 : S2 = [sft EXCEPT ![s] = Cleaned(sft[s])]
  OBVIOUS
<1>20. Swapped(S2, sft, s, Cleaned(sft[s]))
  <2>1. sft[s] \in OpenType /\ sft \in [Slots -> {Closed} \cup OpenType]
    BY <1>1, OpenSlot DEF FileInv, Right
  <2>2. Cleaned(sft[s]) \in OpenType
    BY <2>1 DEF Cleaned, OpenType
  <2> QED BY <1>2, <2>1, <2>2 DEF Swapped
<1>3. /\ Right(dir', vol', data, S2) /\ S2[s].open /\ ~S2[s].dirty
      /\ NoneLost(vol'.fat, Now(dir', S2), vol.fat, Now(dir, sft))
  BY <1>1, <1>20, FlushStep
<1>4. Swapped(sft', S2, s, Closed)
  <2>1. sft \in [Slots -> {Closed} \cup OpenType]
    BY DEF FileInv, Right
  <2> QED BY <1>1, <1>2, <2>1 DEF Swapped
<1>5. PICK D2 : D2 = dir'
  OBVIOUS
<1>6. PICK V2 : V2 = vol'
  OBVIOUS
<1>7. PICK S3 : S3 = sft'
  OBVIOUS
<1>8. Right(D2, V2, data, S2) /\ Swapped(S3, S2, s, Closed)
  BY <1>3, <1>4, <1>5, <1>6, <1>7
<1>9. Right(D2, V2, data, S3) /\ \A i \in Used(D2) : Now(D2, S3)[i].first = Now(D2, S2)[i].first
  BY <1>3, <1>8, DropSlot
<1>10. PICK F : F = Now(D2, S2)
  OBVIOUS
<1>11. PICK F2 : F2 = Now(D2, S3)
  OBVIOUS
<1>12. DOMAIN F2 = DOMAIN F /\ \A i \in DOMAIN F : F2[i].first = F[i].first
  BY <1>9, <1>10, <1>11 DEF Now
<1>13. NoneLost(V2.fat, F, vol.fat, Now(dir, sft))
  BY <1>3, <1>5, <1>6, <1>10
<1>14. NoneLost(V2.fat, F2, vol.fat, Now(dir, sft))
  BY <1>12, <1>13, NoneLostFields
<1> QED BY <1>1, <1>5, <1>6, <1>7, <1>9, <1>11, <1>14 DEF FileInv, Kept

\* A read moves the cursor and the cache.
LEMMA ReadKeeps ==
  ASSUME FileInv, NEW s \in Slots, NEW n \in Counts, f3f_read(s, n)
  PROVE  FileInv' /\ Kept
<1>1. PICK t : t = file_do_read(s, n)
  OBVIOUS
<1>2. /\ sft[s].open /\ sft' = [sft EXCEPT ![s] = t.f] /\ vol' = t.vol
      /\ dir' = dir /\ data' = data
  BY <1>1 DEF f3f_read, IsOpen
<1>3. /\ sft[s] \in OpenType /\ Placed(vol.fat, sft[s]) /\ Good(vol) /\ data \in DataType
      /\ sft[s].dirty => sft[s].mode.access # 0
  BY <1>2, OpenSlot
<1>4. n \in Nat
  BY InputAssumption
<1>5. Moving(t, sft[s], vol) /\ t.f.dirty = sft[s].dirty
  BY <1>1, <1>3, <1>4, ReadMoves
<1>6. Right(dir, vol, data, sft) /\ sft \in [Slots -> {Closed} \cup OpenType]
  BY DEF FileInv, Right
<1>7. t.f \in OpenType
  BY <1>5 DEF Moving, TransferType
<1>8. PICK Z \in [Slots -> {Closed} \cup OpenType] :
        Z = sft' /\ Z[s] = t.f /\ \A j \in Slots : j # s => Z[j] = sft[j]
  BY <1>2, <1>6, <1>7
<1>9. Right(dir, t.vol, t.data, Z) /\ NoneLost(t.vol.fat, Now(dir, Z), vol.fat, Now(dir, sft))
  <2>1. Z[s] = t.f /\ \A j \in Slots : j # s => Z[j] = sft[j]
    BY <1>8
  <2>2. t.f.dirty => sft[s].mode.access # 0
    BY <1>3, <1>5
  <2> QED BY <1>2, <1>5, <1>6, <2>1, <2>2, TransferRight
<1>10. Right(dir, t.vol, data, Z)
  BY <1>3, <1>9, RightData
<1> QED BY <1>2, <1>8, <1>9, <1>10 DEF FileInv, Kept

\* A write takes clusters for its own file only.
LEMMA WriteKeeps ==
  ASSUME FileInv, NEW s \in Slots, NEW v \in Vals, NEW n \in Counts, f40_write(s, v, n)
  PROVE  FileInv' /\ Kept
<1>1. PICK t : t = file_do_write(s, v, n)
  OBVIOUS
<1>2. /\ sft[s].open /\ sft' = [sft EXCEPT ![s] = t.f] /\ vol' = t.vol /\ data' = t.data
      /\ dir' = dir /\ sft[s].mode.access # 0 /\ sft[s].pos + n <= MaxSecs
  BY <1>1 DEF f40_write, Writable, IsOpen
<1>3. sft[s] \in OpenType /\ Placed(vol.fat, sft[s]) /\ Good(vol) /\ data \in DataType
  BY <1>2, OpenSlot
<1>4. n \in Nat
  BY InputAssumption
<1>5. Moving(t, sft[s], vol)
  BY <1>1, <1>2, <1>3, <1>4, WriteMoves
<1>6. Right(dir, vol, data, sft) /\ sft \in [Slots -> {Closed} \cup OpenType]
  BY DEF FileInv, Right
<1>7. t.f \in OpenType
  BY <1>5 DEF Moving, TransferType
<1>8. PICK Z \in [Slots -> {Closed} \cup OpenType] :
        Z = sft' /\ Z[s] = t.f /\ \A j \in Slots : j # s => Z[j] = sft[j]
  BY <1>2, <1>6, <1>7
<1>9. Right(dir, t.vol, t.data, Z) /\ NoneLost(t.vol.fat, Now(dir, Z), vol.fat, Now(dir, sft))
  <2>1. Z[s] = t.f /\ \A j \in Slots : j # s => Z[j] = sft[j]
    BY <1>8
  <2>2. t.f.dirty => sft[s].mode.access # 0
    BY <1>2
  <2> QED BY <1>2, <1>5, <1>6, <2>1, <2>2, TransferRight
<1> QED BY <1>2, <1>8, <1>9 DEF FileInv, Kept

\* A truncation frees the rest of the chain, and no cursor is left on it.
LEMMA TruncateKeeps ==
  ASSUME FileInv, NEW s \in Slots, file_truncate(s)
  PROVE  FileInv' /\ Kept
<1>1. PICK cut : cut = Cut(sft[s], vol)
  OBVIOUS
<1>2. /\ sft[s].open /\ sft[s].mode.access # 0 /\ sft[s].pos < sft[s].size
      /\ file_flush(cut.f, cut.vol) /\ data' = data
      /\ sft' = [sft EXCEPT ![s] = [cut.f EXCEPT !.dirty = FALSE]]
  BY <1>1 DEF file_truncate, Writable, IsOpen
<1>3. PICK D2 : D2 = FlushedTo(dir, cut.f)
  OBVIOUS
<1>4. PICK V2 : V2 = FlushedVol(cut.vol, cut.f)
  OBVIOUS
<1>5. PICK S2 : S2 = [sft EXCEPT ![s] = [cut.f EXCEPT !.dirty = FALSE]]
  OBVIOUS
<1>6. dir' = D2 /\ vol' = V2 /\ sft' = S2
  BY <1>2, <1>3, <1>4, <1>5 DEF file_flush, Flushed, FlushedTo, FlushedVol, Saved
<1>7. Right(dir, vol, data, sft)
  BY DEF FileInv
<1>8. Right(D2, V2, data, S2) /\ NoneLost(V2.fat, Now(D2, S2), vol.fat, Now(dir, sft))
  BY <1>1, <1>2, <1>3, <1>4, <1>5, <1>7, TruncateRight
<1> QED BY <1>2, <1>6, <1>8 DEF FileInv, Kept

\* A seek moves the position, and leaves the cursor.
LEMMA SeekKeeps ==
  ASSUME FileInv, NEW s \in Slots, NEW pos \in Positions, f42_seek(s, pos)
  PROVE  FileInv' /\ Kept
<1>1. /\ sft[s].open /\ sft' = [sft EXCEPT ![s].pos = pos]
      /\ dir' = dir /\ vol' = vol /\ data' = data
  BY DEF f42_seek, IsOpen
<1>2. pos \in 0..MaxSecs
  BY InputAssumption
<1>3. Right(dir, vol, data, sft)
  BY DEF FileInv
<1>4. PICK S2 : S2 = [sft EXCEPT ![s].pos = pos]
  OBVIOUS
<1>5. Right(dir, vol, data, S2) /\ NoneLost(vol.fat, Now(dir, S2), vol.fat, Now(dir, sft))
  BY <1>1, <1>2, <1>3, <1>4, SeekStep
<1>6. sft' = S2
  BY <1>1, <1>4
<1> QED BY <1>1, <1>5, <1>6 DEF FileInv, Kept

\* The cache of the FAT has been filled or written, nothing else has happened.
LEMMA CacheKeeps ==
  ASSUME FileInv, Held(vol', vol), UNCHANGED <<dir, data, sft>>
  PROVE  FileInv' /\ Kept
<1>1. Right(dir, vol, data, sft)
  BY DEF FileInv
<1>2. Right(dir, vol', data, sft)
  BY <1>1, VolMoves
<1>3. vol'.fat = vol.fat
  BY DEF Held
<1>4. PICK F : F = Now(dir, sft)
  OBVIOUS
<1>5. NoneLost(vol.fat, F, vol.fat, F)
  BY NoneLostSame
<1> QED BY <1>2, <1>3, <1>4, <1>5 DEF FileInv, Kept

\* 36h and 0Dh move the cache.
LEMMA SearchKeeps ==
  ASSUME FileInv, f36_freespace \/ f0d_diskreset
  PROVE  FileInv' /\ Kept
<1>1. vol \in VolType /\ Cache(vol)
  BY DEF FileInv, Right, Good
<1>2. MaxCluster \in Entry
  BY Table DEF Entry
<1>3. Held(Searched(vol, MaxCluster), vol) /\ Held(fat_commit(vol), vol)
  BY <1>1, <1>2, SearchedHeld, CommitHeld
<1>4. Held(vol', vol) /\ UNCHANGED <<dir, data, sft>>
  BY <1>3 DEF f36_freespace, f0d_diskreset
<1> QED BY <1>4, CacheKeeps

\* Deleting a closed file frees its chain.
LEMMA UnlinkKeeps ==
  ASSUME Careful, FileInv, NEW d \in Dirs, NEW n \in Names, file_unlink_path(d, n)
  PROVE  FileInv' /\ Kept
<1>1. PICK p : p = PlaceOf(d, n)
  OBVIOUS
<1>2. PICK w : w = fat_free_chain(vol, dir[p].first)
  OBVIOUS
<1>3. /\ OpenAt(p) = {} /\ dir' = [dir EXCEPT ![p] = NoFile] /\ vol' = fat_commit(w)
      /\ data' = data /\ sft' = sft
  BY <1>1, <1>2 DEF file_unlink_path
<1>4. p \in Used(dir) /\ p \in Places /\ dir[p].used
  BY <1>1, PlaceFound DEF file_unlink_path
<1>5. \A s \in Slots : ~(sft[s].open /\ sft[s].place = p)
  BY <1>3 DEF OpenAt
<1>6. w \in VolType /\ Cache(w) /\ Without(w.fat, vol.fat, dir[p].first)
  BY <1>2, <1>4, FreeEntry
<1>7. NoFile \in EntryType /\ ~NoFile.used
  BY DEF NoFile, EntryType
<1>8. Right(dir, vol, data, sft) /\ dir \in [Places -> EntryType]
  BY DEF FileInv, Right
<1>9. PICK E : E = dir'
  OBVIOUS
<1>10. E \in [Places -> EntryType] /\ E[p] = NoFile /\ \A i \in Places : i # p => E[i] = dir[i]
  BY <1>3, <1>4, <1>7, <1>8, <1>9
<1>11. PICK e \in EntryType : e = NoFile
  BY <1>7
<1>12. (e.used => e.first = 0 /\ e.size = 0) /\ E[p] = e
  BY <1>7, <1>10, <1>11
<1>13. PICK V2 : V2 = vol'
  OBVIOUS
<1>14. V2 = fat_commit(w)
  BY <1>3, <1>13
<1>15. \A i \in Places : i # p => E[i] = dir[i]
  BY <1>10
<1>16. E \in [Places -> EntryType]
  BY <1>10
<1>17. Right(E, V2, data, sft) /\ NoneLost(V2.fat, Now(E, sft), vol.fat, Now(dir, sft))
  BY <1>4, <1>5, <1>6, <1>8, <1>12, <1>14, <1>15, <1>16, ReplaceEntry
<1> QED BY <1>3, <1>9, <1>13, <1>17 DEF FileInv, Kept

\* Renaming a closed file moves its entry, or the name in it.
LEMMA RenameKeeps ==
  ASSUME Careful, FileInv, NEW d \in Dirs, NEW e \in Dirs, NEW old \in Names, NEW new \in Names,
         file_rename_path(d, old, e, new)
  PROVE  FileInv' /\ Kept
<1>1. PICK p : p = PlaceOf(d, old)
  OBVIOUS
<1>2. /\ OpenAt(p) = {} /\ data' = data /\ sft' = sft
      /\ IF d = e THEN RenameInPlace(d, old, new) ELSE RenameAcross(d, old, e, new)
  BY <1>1 DEF file_rename_path
<1>3. p \in Used(dir) /\ p \in Places /\ dir[p].used
  BY <1>1, PlaceFound DEF file_rename_path
<1>4. Right(dir, vol, data, sft) /\ dir \in [Places -> EntryType]
  BY DEF FileInv, Right
<1>5. CASE d = e
  <2>1. dir' = [dir EXCEPT ![p].name = new] /\ vol' = vol
    BY <1>1, <1>2, <1>5 DEF RenameInPlace
  <2>2. PICK E : E = [dir EXCEPT ![p].name = new]
    OBVIOUS
  <2>3. Right(E, vol, data, sft) /\ NoneLost(vol.fat, Now(E, sft), vol.fat, Now(dir, sft))
    BY <1>3, <1>4, <2>2, RenameStep
  <2>4. dir' = E
    BY <2>1, <2>2
  <2> QED BY <1>2, <2>1, <2>3, <2>4 DEF FileInv, Kept
<1>6. CASE d # e
  <2>1. PICK q : q = FirstFree(e)
    OBVIOUS
  <2>2. PICK x : x = [dir[p] EXCEPT !.name = new]
    OBVIOUS
  <2>3. /\ FreePlaces(e) # {} /\ vol' = fat_commit(vol)
        /\ dir' = [dir EXCEPT ![q] = x, ![p] = NoFile]
    BY <1>1, <1>2, <1>6, <2>1, <2>2 DEF RenameAcross
  <2>4. q \in Places /\ ~dir[q].used /\ q # p
    BY <1>3, <2>1, <2>3, FreeFound
  <2>5. x \in EntryType /\ x.used /\ x.first = dir[p].first /\ x.size = dir[p].size
    <3>1. dir[p] \in [used : {TRUE}, name : Names, first : {0} \cup Clusters, size : 0..MaxSecs]
      BY <1>3, <1>4, UsedPlaces
    <3> QED BY <2>2, <3>1 DEF EntryType
  <2>6. NoFile \in EntryType /\ ~NoFile.used
    BY DEF NoFile, EntryType
  <2>7. PICK E : E = dir'
    OBVIOUS
  <2>8. /\ E \in [Places -> EntryType] /\ E[q] = x /\ E[p] = NoFile
        /\ \A i \in Places : i \notin {p, q} => E[i] = dir[i]
    BY <1>3, <1>4, <2>3, <2>4, <2>5, <2>6, <2>7
  <2>9. /\ E[q].used /\ E[q].first = dir[p].first /\ E[q].size = dir[p].size /\ ~E[p].used
        /\ \A i \in Places : i \notin {p, q} => E[i] = dir[i]
    BY <2>5, <2>6, <2>8
  <2>10. PICK V2 : V2 = vol'
    OBVIOUS
  <2>11. V2 = fat_commit(vol)
    BY <2>3, <2>10
  <2>12. \A s \in Slots : ~(sft[s].open /\ sft[s].place = p)
    BY <1>2 DEF OpenAt
  <2>13. E \in [Places -> EntryType]
    BY <2>8
  <2>14. /\ Right(E, V2, data, sft) /\ V2.fat = vol.fat
         /\ NoneLost(V2.fat, Now(E, sft), vol.fat, Now(dir, sft))
    BY <1>3, <1>4, <2>4, <2>9, <2>11, <2>12, <2>13, MoveStep
  <2> QED BY <1>2, <2>7, <2>10, <2>14 DEF FileInv, Kept
<1> QED BY <1>5, <1>6

\* After a power failure the entries and the table on disk are all there is.
LEMMA PowerKeeps ==
  ASSUME FileInv, PowerOff
  PROVE  FileInv'
<1>1. Right(dir, vol, data, sft)
  BY DEF FileInv
<1>2. PICK V2 : V2 = Mounted(vol.disk)
  OBVIOUS
<1>3. PICK S2 : S2 = [s \in Slots |-> Closed]
  OBVIOUS
<1>4. Right(dir, V2, data, S2)
  BY <1>1, <1>2, <1>3, PowerStep
<1>5. vol' = V2 /\ sft' = S2 /\ dir' = dir /\ data' = data
  BY <1>2, <1>3 DEF PowerOff
<1> QED BY <1>4, <1>5 DEF FileInv

\* Nothing happens to the files.
LEMMA StutterKeeps ==
  ASSUME FileInv, UNCHANGED vars
  PROVE  FileInv' /\ Kept
<1>1. Right(dir, vol, data, sft)
  BY DEF FileInv
<1>2. dir' = dir /\ vol' = vol /\ data' = data /\ sft' = sft
  BY DEF vars
<1>3. PICK F : F = Now(dir, sft)
  OBVIOUS
<1>4. NoneLost(vol.fat, F, vol.fat, F)
  BY NoneLostSame
<1> QED BY <1>1, <1>2, <1>3, <1>4 DEF FileInv, Kept

\* Every step keeps the invariant, and only a power failure loses clusters.
LEMMA FileInvStep ==
  ASSUME Careful, ExclusiveWriters, FileInv, [Next]_vars
  PROVE  FileInv' /\ (PowerOff \/ Kept)
<1>1. ASSUME NEW d \in Dirs, NEW n \in Names, NEW m \in OpenModes, f3d_open(d, n, m)
      PROVE  FileInv' /\ Kept
  BY <1>1, OpenKeeps
<1>2. ASSUME NEW d \in Dirs, NEW n \in Names, CreateOver(d, n) PROVE FileInv' /\ Kept
  BY <1>2, CreateOverKeeps
<1>3. ASSUME NEW d \in Dirs, NEW n \in Names, CreateNew(d, n) PROVE FileInv' /\ Kept
  BY <1>3, CreateNewKeeps
<1>4. ASSUME NEW s \in Slots, f3e_close(s) PROVE FileInv' /\ Kept
  BY <1>4, CloseKeeps
<1>5. ASSUME NEW s \in Slots, f68_commit(s) PROVE FileInv' /\ Kept
  BY <1>5, CommitKeeps
<1>6. ASSUME NEW s \in Slots, file_truncate(s) PROVE FileInv' /\ Kept
  BY <1>6, TruncateKeeps
<1>7. ASSUME NEW s \in Slots, NEW n \in Counts, f3f_read(s, n) PROVE FileInv' /\ Kept
  BY <1>7, ReadKeeps
<1>8. ASSUME NEW s \in Slots, NEW v \in Vals, NEW n \in Counts, f40_write(s, v, n)
      PROVE  FileInv' /\ Kept
  BY <1>8, WriteKeeps
<1>9. ASSUME NEW s \in Slots, NEW pos \in Positions, f42_seek(s, pos) PROVE FileInv' /\ Kept
  BY <1>9, SeekKeeps
<1>10. ASSUME NEW d \in Dirs, NEW n \in Names, file_unlink_path(d, n) PROVE FileInv' /\ Kept
  BY <1>10, UnlinkKeeps
<1>11. ASSUME NEW d \in Dirs, NEW e \in Dirs, NEW n \in Names, NEW m \in Names,
              file_rename_path(d, n, e, m)
       PROVE  FileInv' /\ Kept
  BY <1>11, RenameKeeps
<1>12. ASSUME f36_freespace \/ f0d_diskreset PROVE FileInv' /\ Kept
  BY <1>12, SearchKeeps
<1>13. ASSUME PowerOff PROVE FileInv'
  BY <1>13, PowerKeeps
<1>14. ASSUME UNCHANGED vars PROVE FileInv' /\ Kept
  BY <1>14, StutterKeeps
<1> QED BY <1>1, <1>2, <1>3, <1>4, <1>5, <1>6, <1>7, <1>8, <1>9, <1>10, <1>11, <1>12, <1>13,
           <1>14 DEF Next

\* The formatted volume has no file.
LEMMA FileInvInit ==
  ASSUME Init
  PROVE  FileInv
<1>1. \A i \in Places : dir[i] = NoFile /\ ~dir[i].used
  BY DEF Init, NoFile
<1>2. dir \in [Places -> EntryType]
  BY DEF Init, EntryType
<1>3. data \in DataType
  BY DEF Init, DataType
<1>4. sft \in [Slots -> {Closed} \cup OpenType] /\ \A s \in Slots : ~sft[s].open
  BY DEF Init, Closed
<1>5. PICK T : T = [k \in Entry |-> IF k \in Clusters THEN 0 ELSE CLUS_EOC]
  OBVIOUS
<1>6. T \in TableType /\ (\A k \in Clusters : T[k] = 0)
  <2>1. \A k \in Clusters : k \in Entry
    BY Table
  <2> QED BY <1>5, <2>1 DEF TableType
<1>7. Linked(T)
  BY <1>6, Table DEF Linked
<1>8. vol = [fat |-> T, disk |-> T, at |-> Nowhere, dirty |-> FALSE]
  BY <1>5 DEF Init, Formatted, Mounted
<1>9. vol.fat = T /\ vol.disk = T /\ vol \in VolType /\ Cache(vol)
  BY <1>6, <1>8 DEF VolType, Cache
<1>10. Good(vol)
  BY <1>7, <1>9, BehindSelf DEF Good
<1>11. Used(dir) = {}
  BY <1>1 DEF Used
<1>12. PICK F : F = Now(dir, sft)
  OBVIOUS
<1>13. PICK E : E = Entries(dir)
  OBVIOUS
<1>14. DOMAIN F = {} /\ DOMAIN E = {}
  BY <1>11, <1>12, <1>13 DEF Now, Entries
<1>15. Laid(T, F) /\ Laid(T, E)
  BY <1>6, <1>7, <1>14 DEF Laid
<1>16. OneWriter(sft)
  BY <1>4 DEF OneWriter
<1> QED BY <1>2, <1>3, <1>4, <1>9, <1>10, <1>12, <1>13, <1>15, <1>16 DEF FileInv, Right

\* The invariant of every behaviour.
THEOREM FileInvariant ==
  ASSUME Careful, ExclusiveWriters
  PROVE  Spec => []FileInv
<1>1. Init => FileInv
  BY FileInvInit
<1>2. FileInv /\ [Next]_vars => FileInv'
  BY FileInvStep
<1> QED BY <1>1, <1>2, PTL DEF Spec

----------------------------------------------------------------------------
(* The properties.                                                         *)

\* The files of the properties are those of the invariant.
LEMMA CurrentNow ==
  /\ InUse = Used(dir)
  /\ [i \in InUse |-> Current(i)] = Now(dir, sft)
  /\ [i \in InUse |-> dir[i]] = Entries(dir)
<1>1. InUse = Used(dir)
  BY DEF InUse, Used
<1>2. \A i \in InUse : Current(i) = Now(dir, sft)[i]
  <2> SUFFICES ASSUME NEW i \in InUse PROVE Current(i) = Now(dir, sft)[i]
    OBVIOUS
  <2>1. Unflushed(i) = DirtyAt(sft, i)
    BY DEF Unflushed, OpenAt, DirtyAt
  <2> QED BY <1>1, <2>1 DEF Current, Now
<1>3. [i \in InUse |-> Current(i)] = Now(dir, sft)
  BY <1>1, <1>2 DEF Now
<1>4. [i \in InUse |-> dir[i]] = Entries(dir)
  BY <1>1 DEF Entries
<1> QED BY <1>1, <1>3, <1>4

\* The invariant has the types.
LEMMA InvTypes ==
  ASSUME FileInv
  PROVE  TypeOK
<1>1. /\ dir \in [Places -> EntryType] /\ data \in DataType
      /\ sft \in [Slots -> {Closed} \cup OpenType] /\ vol \in VolType
  BY DEF FileInv, Right, Good
<1> QED BY <1>1 DEF TypeOK, VolType, DataType

\* Under the invariant the files are sound, in the table and on disk, and the cursors right.
LEMMA InvSound ==
  ASSUME FileInv
  PROVE  FilesSound /\ DiskSound
<1>1. Laid(vol.fat, Now(dir, sft)) /\ Laid(vol.disk, Entries(dir))
  BY DEF FileInv, Right
<1>2. Sound(vol.fat, Now(dir, sft)) /\ Sound(vol.disk, Entries(dir))
  BY <1>1, LaidSound
<1>3. CursorRight
  <2> SUFFICES ASSUME NEW s \in Slots, IsOpen(s)
               PROVE  sft[s].cur = Chain(vol.fat, sft[s].first)[sft[s].cpos \div ClusterSecs]
    BY DEF CursorRight
  <2>1. sft[s] \in OpenType /\ Placed(vol.fat, sft[s])
    BY OpenSlot DEF IsOpen
  <2>2. PICK q \in 0..MaxCluster :
          sft[s].cpos = q * ClusterSecs /\ sft[s].cur = Chain(vol.fat, sft[s].first)[q]
    BY <2>1 DEF Placed
  <2>3. q \in Nat /\ q * ClusterSecs \in Nat /\ q * ClusterSecs < q * ClusterSecs + ClusterSecs
    BY SizeAssumption, Table
  <2>4. (q * ClusterSecs) \div ClusterSecs = q
    BY <2>3, DivUnique
  <2> QED BY <2>2, <2>4
<1>4. Sound(vol.fat, [i \in InUse |-> Current(i)]) /\ Sound(vol.disk, [i \in InUse |-> dir[i]])
  BY <1>2, CurrentNow
<1> QED BY <1>3, <1>4, InvTypes DEF FilesSound, DiskSound

\* A write that stops has found no free cluster.
LEMMA InvShort ==
  ASSUME FileInv
  PROVE  ShortOnlyWhenFull
<1> SUFFICES ASSUME NEW s \in Slots, NEW v \in Vals, NEW n \in Counts,
                    Writable(s), sft[s].pos + n <= MaxSecs
             PROVE  LET t == file_do_write(s, v, n)
                    IN  t.left > 0 => \A c \in Clusters : t.vol.fat[c] # 0
  BY DEF ShortOnlyWhenFull
<1>1. sft[s] \in OpenType /\ Placed(vol.fat, sft[s]) /\ Good(vol) /\ data \in DataType
  BY OpenSlot DEF Writable, IsOpen
<1>2. n \in Nat
  BY InputAssumption
<1>3. PICK t : t = file_do_write(s, v, n)
  OBVIOUS
<1>4. Moving(t, sft[s], vol) /\ (t.left > 0 => t.stop)
  BY <1>1, <1>2, <1>3, WriteMoves
<1> QED BY <1>3, <1>4 DEF Moving, Full

\* A list is as long as it is defined to be.
LEMMA ListLength ==
  ASSUME NEW n \in Nat, NEW S, NEW f \in [1..n -> S]
  PROVE  Len(f) = n
OBVIOUS

\* A read gives the sectors of the file, from the position on.
LEMMA InvReads ==
  ASSUME FileInv
  PROVE  ReadsBack
<1> SUFFICES ASSUME NEW s \in Slots, NEW n \in Counts, IsOpen(s)
             PROVE  LET file == Content(sft[s].place)
                    IN  file_do_read(s, n).read =
                          SubSeq(file, sft[s].pos + 1, Least(sft[s].pos + n, Len(file)))
  BY DEF ReadsBack
<1>1. PICK f : f = sft[s]
  OBVIOUS
<1>2. /\ f \in OpenType /\ Placed(vol.fat, f) /\ Good(vol) /\ data \in DataType
      /\ f.place \in Used(dir)
  BY <1>1, OpenSlot DEF IsOpen
<1>3. n \in Nat /\ f.pos \in Nat /\ f.size \in Nat
  <2>1. f.pos \in 0..MaxSecs /\ f.size \in 0..MaxSecs
    BY <1>2 DEF OpenType
  <2> QED BY <2>1, InputAssumption
<1>4. PICK t : t = file_do_read(s, n)
  OBVIOUS
<1>5. /\ Moving(t, f, vol) /\ Len(t.read) = Readable(f, n)
      /\ \A i \in 1..Len(t.read) :
           t.read[i] = SectorAt(vol.fat, data, f.first, f.pos + (i - 1))
  BY <1>1, <1>2, <1>3, <1>4, ReadMoves
<1>6. t.read \in Seq(Vals \cup {0})
  BY <1>5 DEF Moving, TransferType
<1>7. PICK file : file = Content(f.place)
  OBVIOUS
<1>8. file = [k \in 1..f.size |-> SectorAt(vol.fat, data, f.first, k - 1)]
  <2>1. PICK c : c = Current(f.place)
    OBVIOUS
  <2>2. c = Now(dir, sft)[f.place]
    BY <1>2, <2>1, CurrentNow
  <2>3. c.first = f.first /\ c.size = f.size
    <3>1. Agree(dir, sft)
      BY RightAgree DEF FileInv
    <3>2. \A j \in Slots : sft[j].open /\ sft[j].place = f.place =>
            Now(dir, sft)[f.place].first = sft[j].first /\ Now(dir, sft)[f.place].size = sft[j].size
      BY <1>2, <3>1, NowFields
    <3> QED BY <1>1, <2>2, <3>2 DEF IsOpen
  <2> QED BY <1>7, <2>1, <2>3 DEF Content, SectorAt
<1>9. Len(file) = f.size
  <2>1. file \in [1..f.size -> {file[k] : k \in 1..f.size}]
    BY <1>8
  <2> QED BY <1>3, <2>1, ListLength
<1>10. PICK last : last = Least(f.pos + n, f.size)
  OBVIOUS
<1>11. last \in Int
  BY <1>3, <1>10 DEF Least
<1>12. t.read = SubSeq(file, f.pos + 1, last)
  <2>1. CASE f.pos >= f.size
    <3>1. Len(t.read) = 0
      BY <1>5, <2>1 DEF Readable
    <3>2. t.read = <<>>
      BY <1>6, <3>1
    <3>3. last < f.pos + 1
      BY <1>3, <1>10, <2>1 DEF Least
    <3>4. SubSeq(file, f.pos + 1, last) = <<>>
      BY <1>3, <1>11, <3>3, SubSeqEmpty
    <3> QED BY <3>2, <3>4
  <2>2. CASE f.pos < f.size
    <3>1. Len(t.read) = Least(n, f.size - f.pos)
      BY <1>3, <1>5, <2>2 DEF Readable
    <3>2. last = f.pos + Len(t.read) /\ last <= f.size /\ Len(t.read) \in Nat
      BY <1>3, <1>10, <2>2, <3>1 DEF Least
    <3>3. \A i \in 1..Len(t.read) : file[f.pos + i] = t.read[i]
      <4> SUFFICES ASSUME NEW i \in 1..Len(t.read) PROVE file[f.pos + i] = t.read[i]
        OBVIOUS
      <4>1. f.pos + i \in 1..f.size /\ (f.pos + i) - 1 = f.pos + (i - 1)
        BY <1>3, <3>2
      <4>2. file[f.pos + i] = SectorAt(vol.fat, data, f.first, f.pos + (i - 1))
        BY <1>8, <4>1
      <4> QED BY <1>5, <4>2
    <3>4. \A i \in (f.pos + 1)..last : file[i] \in Vals \cup {0}
      <4> SUFFICES ASSUME NEW i \in (f.pos + 1)..last PROVE file[i] \in Vals \cup {0}
        OBVIOUS
      <4>1. i - f.pos \in 1..Len(t.read) /\ f.pos + (i - f.pos) = i
        BY <1>3, <1>11, <3>2
      <4>2. file[i] = t.read[i - f.pos]
        BY <3>3, <4>1
      <4>3. t.read[i - f.pos] \in Vals \cup {0}
        BY <1>6, <4>1
      <4> QED BY <4>2, <4>3
    <3>5. PICK part : part = SubSeq(file, f.pos + 1, last)
      OBVIOUS
    <3>6. /\ part \in Seq(Vals \cup {0})
          /\ Len(part) = IF f.pos + 1 <= last THEN last - (f.pos + 1) + 1 ELSE 0
          /\ \A i \in 1..last - (f.pos + 1) + 1 : part[i] = file[(f.pos + 1) + i - 1]
      <4>1. f.pos + 1 \in Int
        BY <1>3
      <4> QED BY <1>11, <3>4, <3>5, <4>1, SubSeqProperties
    <3>7. Len(part) = Len(t.read)
      BY <1>3, <3>2, <3>6
    <3>8. \A i \in 1..Len(t.read) : t.read[i] = part[i]
      <4> SUFFICES ASSUME NEW i \in 1..Len(t.read) PROVE t.read[i] = part[i]
        OBVIOUS
      <4>1. i \in 1..last - (f.pos + 1) + 1 /\ (f.pos + 1) + i - 1 = f.pos + i
        BY <1>3, <1>11, <3>2
      <4> QED BY <3>3, <3>6, <4>1
    <3> QED BY <1>6, <3>5, <3>6, <3>7, <3>8, SeqEqual
  <2> QED BY <1>3, <2>1, <2>2
<1> QED BY <1>1, <1>4, <1>7, <1>9, <1>10, <1>12

\* The clusters lost, by the files of the invariant.
LostNow ==
  {c \in Clusters : vol.fat[c] # 0
     /\ \A i \in DOMAIN Now(dir, sft) : c \notin ClustersOf(vol.fat, Now(dir, sft)[i].first)}

\* They are the clusters Lost of module FileIO.
LEMMA LostIsNow == Lost = LostNow
<1>1. DOMAIN Now(dir, sft) = InUse /\ \A i \in InUse : Current(i) = Now(dir, sft)[i]
  <2>1. PICK F : F = [i \in InUse |-> Current(i)]
    OBVIOUS
  <2>2. F = Now(dir, sft)
    BY <2>1, CurrentNow
  <2> QED BY <2>1, <2>2
<1> QED BY <1>1 DEF Lost, LostNow

\* No step but a power failure loses a cluster.
LEMMA InvKeeps ==
  ASSUME Careful, ExclusiveWriters, FileInv, [Next]_vars
  PROVE  [PowerOff \/ Lost' \subseteq Lost]_vars
<1>1. PowerOff \/ Kept
  BY FileInvStep
<1>2. Kept => LostNow' \subseteq LostNow
  BY DEF Kept, NoneLost, LostNow
<1>3. (Lost = LostNow)'
  BY LostIsNow, PTL
<1> QED BY <1>1, <1>2, <1>3, LostIsNow

----------------------------------------------------------------------------
(* The store of files (module FileStore) that the programs see.            *)

\* A directory has no name twice.
NamesApart(D) == \A i, j \in Used(D) : i[1] = j[1] /\ D[i].name = D[j].name => i = j

\* What a step of the store needs: the invariant, and names that tell files apart.
StoreInv == FileInv /\ NamesApart(dir)

\* The path of the file at the place i.
PathOf(D, i) == <<i[1], D[i].name>>

\* The sectors of the file f of the table T, from the data A.
Text(T, A, f) == [k \in 1..f.size |-> SectorAt(T, A, f.first, k - 1)]

\* What the files, the open handles and the paths of unsaved files are, place
\* by place and slot by slot.
FilesAre(fs, D, T, A, S) ==
  /\ DOMAIN fs = {PathOf(D, i) : i \in Used(D)}
  /\ fs = [p \in DOMAIN fs |-> fs[p]]
  /\ \A i \in Used(D) : fs[PathOf(D, i)] = Text(T, A, Now(D, S)[i])
HandlesAre(op, D, S) ==
  /\ DOMAIN op = {s \in Slots : S[s].open}
  /\ op = [s \in DOMAIN op |-> op[s]]
  /\ \A s \in Slots : S[s].open => op[s] = [path |-> PathOf(D, S[s].place), pos |-> S[s].pos]
UnsavedAre(un, D, S) == \A p : p \in un <=> \E i \in Used(D) : p = PathOf(D, i) /\ DirtyAt(S, i) # {}
Shown(fs, op, un, D, V, A, S) ==
  FilesAre(fs, D, V.fat, A, S) /\ HandlesAre(op, D, S) /\ UnsavedAre(un, D, S)

\* Paths tell files apart.
LEMMA PathsApart ==
  ASSUME NEW D \in [Places -> EntryType], NamesApart(D), NEW i \in Used(D), NEW j \in Used(D),
         PathOf(D, i) = PathOf(D, j)
  PROVE  i = j
BY DEF NamesApart, PathOf

\* The refinement mapping shows the files, the slots and what is not flushed.
LEMMA StoreShown ==
  ASSUME StoreInv
  PROVE  Shown(FilesNow, OpenNow, UnsavedNow, dir, vol, data, sft)
<1>1. dir \in [Places -> EntryType] /\ NamesApart(dir) /\ InUse = Used(dir)
  BY DEF StoreInv, FileInv, Right, InUse, Used
<1>2. \A i : PathAt(i) = PathOf(dir, i)
  BY DEF PathAt, PathOf
<1>3. FilesAre(FilesNow, dir, vol.fat, data, sft)
  <2>1. FilesNow = [p \in {PathOf(dir, i) : i \in Used(dir)} |-> Content(PlaceOf(p[1], p[2]))]
    BY <1>1, <1>2 DEF FilesNow
  <2>2. ASSUME NEW i \in Used(dir)
        PROVE  FilesNow[PathOf(dir, i)] = Text(vol.fat, data, Now(dir, sft)[i])
    <3>1. PICK j : j = PlaceOf(i[1], dir[i].name)
      OBVIOUS
    <3>2. FilesNow[PathOf(dir, i)] = Content(j)
      BY <2>1, <3>1 DEF PathOf
    <3>3. i \in Found(i[1], dir[i].name)
      BY DEF Found, Used
    <3>4. j \in Found(i[1], dir[i].name)
      BY <3>1, <3>3 DEF PlaceOf
    <3>5. j \in Used(dir) /\ j[1] = i[1] /\ dir[j].name = dir[i].name
      BY <3>4 DEF Found, Used
    <3>6. j = i
      BY <1>1, <3>5 DEF NamesApart
    <3>7. Current(i) = Now(dir, sft)[i]
      <4>1. PICK F : F = [k \in InUse |-> Current(k)]
        OBVIOUS
      <4>2. F = Now(dir, sft)
        BY <4>1, CurrentNow
      <4> QED BY <1>1, <4>1, <4>2
    <3> QED BY <3>2, <3>6, <3>7 DEF Content, Text, SectorAt
  <2> QED BY <2>1, <2>2 DEF FilesAre
<1>4. HandlesAre(OpenNow, dir, sft)
  BY <1>2 DEF HandlesAre, OpenNow, IsOpen
<1>5. UnsavedAre(UnsavedNow, dir, sft)
  <2>1. \A i : Unflushed(i) = DirtyAt(sft, i)
    BY DEF Unflushed, OpenAt, DirtyAt
  <2> QED BY <1>1, <1>2, <2>1 DEF UnsavedAre, UnsavedNow
<1> QED BY <1>3, <1>4, <1>5 DEF Shown

\* So it does after a step.
LEMMA StoreShownNext ==
  ASSUME StoreInv'
  PROVE  Shown(FilesNow', OpenNow', UnsavedNow', dir', vol', data', sft')
<1>1. (StoreInv => Shown(FilesNow, OpenNow, UnsavedNow, dir, vol, data, sft))'
  BY StoreShown, PTL
<1> QED BY <1>1

\* Files at the same places with the same names and contents.
LEMMA SameFiles ==
  ASSUME NEW fs, NEW D, NEW T, NEW A, NEW S, FilesAre(fs, D, T, A, S),
         NEW fs2, NEW D2, NEW T2, NEW A2, NEW S2, FilesAre(fs2, D2, T2, A2, S2),
         Used(D2) = Used(D), \A i \in Used(D) : PathOf(D2, i) = PathOf(D, i),
         \A i \in Used(D) : Text(T2, A2, Now(D2, S2)[i]) = Text(T, A, Now(D, S)[i])
  PROVE  fs2 = fs
<1>1. DOMAIN fs2 = DOMAIN fs
  BY DEF FilesAre
<1>2. \A p \in DOMAIN fs : fs2[p] = fs[p]
  BY DEF FilesAre
<1> QED BY <1>1, <1>2 DEF FilesAre

\* Slots as dirty as before at places with the same names.
LEMMA SameUnsaved ==
  ASSUME NEW un, NEW D, NEW S, UnsavedAre(un, D, S),
         NEW un2, NEW D2, NEW S2, UnsavedAre(un2, D2, S2),
         Used(D2) = Used(D), \A i \in Used(D) : PathOf(D2, i) = PathOf(D, i),
         \A i \in Used(D) : DirtyAt(S2, i) = {} <=> DirtyAt(S, i) = {}
  PROVE  un2 = un
BY DEF UnsavedAre

\* The file of a place is the only one of its path.
LEMMA FileOf ==
  ASSUME NEW fs, NEW D \in [Places -> EntryType], NEW T, NEW A, NEW S, FilesAre(fs, D, T, A, S),
         NEW i \in Used(D)
  PROVE  PathOf(D, i) \in DOMAIN fs /\ PathOf(D, i) \in Dirs \X Names
<1>1. i[1] \in Dirs /\ D[i].name \in Names
  BY UsedPlaces DEF Places
<1> QED BY <1>1 DEF FilesAre, PathOf

\* The file at i begins with the cluster first and is size long: a slot says so,
\* or else its entry.
IsFile(D, S, i, first, size) ==
  \/ \E s \in Slots : S[s].open /\ S[s].place = i /\ S[s].first = first /\ S[s].size = size
  \/ DirtyAt(S, i) = {} /\ D[i].first = first /\ D[i].size = size

\* Such a file is the one the kernel has.
LEMMA NowIs ==
  ASSUME NEW D, NEW S, Agree(D, S), NEW i \in Used(D), NEW first, NEW size,
         IsFile(D, S, i, first, size)
  PROVE  Now(D, S)[i].first = first /\ Now(D, S)[i].size = size
<1>1. CASE \E s \in Slots : S[s].open /\ S[s].place = i /\ S[s].first = first /\ S[s].size = size
  BY <1>1, NowFields
<1>2. CASE DirtyAt(S, i) = {} /\ D[i].first = first /\ D[i].size = size
  <2>1. \A s \in Slots : S[s].open /\ S[s].place = i => ~S[s].dirty
    BY <1>2 DEF DirtyAt
  <2> QED BY <1>2, <2>1, NowFields
<1> QED BY <1>1, <1>2 DEF IsFile

\* The file the kernel has is such a file.
LEMMA NowIsFile ==
  ASSUME NEW D, NEW S, Agree(D, S), NEW i \in Used(D)
  PROVE  IsFile(D, S, i, Now(D, S)[i].first, Now(D, S)[i].size)
<1>1. CASE DirtyAt(S, i) = {}
  BY <1>1 DEF Now, IsFile
<1>2. CASE DirtyAt(S, i) # {}
  <2>1. PICK w \in Slots : S[w].open /\ S[w].place = i
    BY <1>2 DEF DirtyAt
  <2> QED BY <2>1, NowFields DEF IsFile
<1> QED BY <1>1, <1>2

\* The same first cluster and size in the same table.
LEMMA SameText ==
  ASSUME NEW T, NEW A, NEW f, NEW g, g.first = f.first, g.size = f.size
  PROVE  Text(T, A, g) = Text(T, A, f)
BY DEF Text

\* Files that the slots, or else the entries, describe as before.
LEMMA SameTexts ==
  ASSUME NEW D, NEW S, Agree(D, S), NEW D2, NEW S2, Agree(D2, S2), Used(D2) = Used(D),
         \A i \in Used(D) : \A first, size :
           IsFile(D, S, i, first, size) => IsFile(D2, S2, i, first, size),
         NEW T, NEW A
  PROVE  \A i \in Used(D) : Text(T, A, Now(D2, S2)[i]) = Text(T, A, Now(D, S)[i])
<1> TAKE i \in Used(D)
<1>1. IsFile(D, S, i, Now(D, S)[i].first, Now(D, S)[i].size)
  BY NowIsFile
<1>2. PICK x, y : x = Now(D, S)[i].first /\ y = Now(D, S)[i].size
  OBVIOUS
<1>3. IsFile(D2, S2, i, x, y)
  BY <1>1, <1>2
<1>4. Now(D2, S2)[i].first = x /\ Now(D2, S2)[i].size = y
  BY <1>3, NowIs
<1> QED BY <1>2, <1>4, SameText

\* All slots but l are open as they were, at the same paths and positions.
OthersAlike(D, S, D2, S2, l) ==
  \A s \in Slots : s # l =>
    /\ S2[s].open <=> S[s].open
    /\ S[s].open => /\ PathOf(D2, S2[s].place) = PathOf(D, S[s].place)
                    /\ S2[s].pos = S[s].pos

\* A slot taken is a handle opened.
LEMMA HandleAdded ==
  ASSUME NEW op, NEW D, NEW S, HandlesAre(op, D, S), NEW op2, NEW D2, NEW S2,
         HandlesAre(op2, D2, S2), NEW l \in Slots, ~S[l].open, S2[l].open,
         OthersAlike(D, S, D2, S2, l)
  PROVE  op2 = Store!With(op, l, [path |-> PathOf(D2, S2[l].place), pos |-> S2[l].pos])
<1> DEFINE e == [path |-> PathOf(D2, S2[l].place), pos |-> S2[l].pos]
           w == Store!With(op, l, e)
<1>1. w = [k \in DOMAIN op \cup {l} |-> IF k = l THEN e ELSE op[k]]
  BY DEF Store!With
<1>2. DOMAIN op2 = DOMAIN op \cup {l}
  BY DEF HandlesAre, OthersAlike
<1>3. op2[l] = e
  BY DEF HandlesAre
<1>4. \A s \in DOMAIN op : s # l => op2[s] = op[s]
  BY DEF HandlesAre, OthersAlike
<1>5. op2 = [s \in DOMAIN op2 |-> op2[s]]
  BY DEF HandlesAre
<1> HIDE DEF e, w
<1>6. op2 = w
  BY <1>1, <1>2, <1>3, <1>4, <1>5
<1> QED BY <1>6 DEF w, e

\* A slot given up is a handle closed.
LEMMA HandleDropped ==
  ASSUME NEW op, NEW D, NEW S, HandlesAre(op, D, S), NEW op2, NEW D2, NEW S2,
         HandlesAre(op2, D2, S2), NEW l \in Slots, S[l].open, ~S2[l].open,
         OthersAlike(D, S, D2, S2, l)
  PROVE  op2 = Store!Without(op, l)
<1>2. DOMAIN op2 = DOMAIN op \ {l}
  BY DEF HandlesAre, OthersAlike
<1>4. \A s \in DOMAIN op : s # l => op2[s] = op[s]
  BY DEF HandlesAre, OthersAlike
<1>5. op2 = [s \in DOMAIN op2 |-> op2[s]]
  BY DEF HandlesAre
<1> QED BY <1>2, <1>4, <1>5 DEF Store!Without

\* A slot with another position is a handle with another position.
LEMMA HandleMoved ==
  ASSUME NEW op, NEW D, NEW S, HandlesAre(op, D, S), NEW op2, NEW D2, NEW S2,
         HandlesAre(op2, D2, S2), NEW l \in Slots, S[l].open, S2[l].open,
         PathOf(D2, S2[l].place) = PathOf(D, S[l].place), OthersAlike(D, S, D2, S2, l)
  PROVE  op2 = [op EXCEPT ![l].pos = S2[l].pos]
<1>1. PICK w : w = [op EXCEPT ![l].pos = S2[l].pos]
  OBVIOUS
<1>2. DOMAIN op2 = DOMAIN op /\ l \in DOMAIN op
  BY DEF HandlesAre, OthersAlike
<1>3. op[l] = [path |-> PathOf(D, S[l].place), pos |-> S[l].pos]
  BY DEF HandlesAre
<1>4. op2[l] = [path |-> PathOf(D, S[l].place), pos |-> S2[l].pos]
  BY DEF HandlesAre
<1>5. op2[l] = [op[l] EXCEPT !.pos = S2[l].pos]
  BY <1>3, <1>4
<1>6. \A s \in DOMAIN op : s # l => op2[s] = op[s]
  BY DEF HandlesAre, OthersAlike
<1>7. op2 = [s \in DOMAIN op2 |-> op2[s]] /\ op = [s \in DOMAIN op |-> op[s]]
  BY DEF HandlesAre
<1>8. w = [s \in DOMAIN op |-> IF s = l THEN [op[l] EXCEPT !.pos = S2[l].pos] ELSE op[s]]
  BY <1>1, <1>2, <1>7
<1>9. op2 = w
  BY <1>2, <1>5, <1>6, <1>7, <1>8
<1> QED BY <1>1, <1>9

\* Slots that show the same leave the handles alone.
LEMMA HandlesSame ==
  ASSUME NEW op, NEW D, NEW S, HandlesAre(op, D, S), NEW op2, NEW D2, NEW S2,
         HandlesAre(op2, D2, S2), NEW l, l \notin Slots, OthersAlike(D, S, D2, S2, l)
  PROVE  op2 = op
<1>1. DOMAIN op2 = DOMAIN op /\ \A s \in DOMAIN op : op2[s] = op[s]
  BY ZenonT(60) DEF HandlesAre, OthersAlike
<1> QED BY <1>1 DEF HandlesAre

\* The path and the position of an open slot.
LEMMA HandleOf ==
  ASSUME NEW op, NEW D, NEW S, HandlesAre(op, D, S), NEW s \in Slots
  PROVE  /\ s \in DOMAIN op <=> S[s].open
         /\ S[s].open => op[s].path = PathOf(D, S[s].place) /\ op[s].pos = S[s].pos
<1>1. s \in DOMAIN op <=> S[s].open
  BY DEF HandlesAre
<1>2. ASSUME S[s].open PROVE op[s].path = PathOf(D, S[s].place) /\ op[s].pos = S[s].pos
  <2>1. PICK e : e = [path |-> PathOf(D, S[s].place), pos |-> S[s].pos]
    OBVIOUS
  <2>2. op[s] = e
    BY <1>2, <2>1 DEF HandlesAre
  <2> QED BY <2>1, <2>2
<1> QED BY <1>1, <1>2

\* What is seen before and after a step.
LEMMA SeenNow ==
  ASSUME StoreInv
  PROVE  /\ FilesAre(FilesNow, dir, vol.fat, data, sft) /\ HandlesAre(OpenNow, dir, sft)
         /\ UnsavedAre(UnsavedNow, dir, sft) /\ Agree(dir, sft)
         /\ dir \in [Places -> EntryType] /\ NamesApart(dir)
         /\ sft \in [Slots -> {Closed} \cup OpenType]
         /\ \A s \in Slots : sft[s].open => sft[s].place \in Used(dir)
<1>1. Agree(dir, sft)
  BY RightAgree DEF StoreInv, FileInv
<1>2. \A s \in Slots : sft[s].open => sft[s].place \in Used(dir)
  BY OpenSlot DEF StoreInv
<1> QED BY <1>1, <1>2, StoreShown DEF Shown, StoreInv, FileInv, Right

\* So it is after the step.
LEMMA SeenNext ==
  ASSUME StoreInv'
  PROVE  /\ FilesAre(FilesNow', dir', vol'.fat, data', sft') /\ HandlesAre(OpenNow', dir', sft')
         /\ UnsavedAre(UnsavedNow', dir', sft') /\ Agree(dir', sft')
         /\ dir' \in [Places -> EntryType] /\ NamesApart(dir')
         /\ sft' \in [Slots -> {Closed} \cup OpenType]
<1>1. Shown(FilesNow', OpenNow', UnsavedNow', dir', vol', data', sft')
  BY StoreShownNext
<1>2. Right(dir', vol', data', sft') /\ NamesApart(dir')
  BY DEF StoreInv, FileInv
<1>3. Agree(dir', sft')
  BY <1>2, RightAgree
<1> QED BY <1>1, <1>2, <1>3 DEF Shown, Right

\* The entries are the same, and the slots describe the same files.
LEMMA SameSlots ==
  ASSUME StoreInv, StoreInv', dir' = dir, data' = data, vol'.fat = vol.fat,
         \A i \in Used(dir) : \A first, size :
           IsFile(dir, sft, i, first, size) => IsFile(dir, sft', i, first, size),
         \A i \in Used(dir) : DirtyAt(sft', i) = {} <=> DirtyAt(sft, i) = {}
  PROVE  FilesNow' = FilesNow /\ UnsavedNow' = UnsavedNow
<1>1. PICK D : D = dir
  OBVIOUS
<1>2. PICK S, S2 : S = sft /\ S2 = sft'
  OBVIOUS
<1>3. PICK T : T = vol.fat
  OBVIOUS
<1>4. /\ FilesAre(FilesNow, D, T, data, S) /\ UnsavedAre(UnsavedNow, D, S) /\ Agree(D, S)
  BY <1>1, <1>2, <1>3, SeenNow
<1>5. /\ FilesAre(FilesNow', D, T, data, S2) /\ UnsavedAre(UnsavedNow', D, S2) /\ Agree(D, S2)
  BY <1>1, <1>2, <1>3, SeenNext
<1>6. \A i \in Used(D) : \A first, size : IsFile(D, S, i, first, size) => IsFile(D, S2, i, first, size)
  BY <1>1, <1>2
<1>7. \A i \in Used(D) : Text(T, data, Now(D, S2)[i]) = Text(T, data, Now(D, S)[i])
  BY <1>4, <1>5, <1>6, SameTexts
<1>8. \A i \in Used(D) : DirtyAt(S2, i) = {} <=> DirtyAt(S, i) = {}
  BY <1>1, <1>2
<1> QED BY <1>4, <1>5, <1>7, <1>8, SameFiles, SameUnsaved

\* The table and its cache are no business of the programs.
LEMMA StutterShows ==
  ASSUME StoreInv, StoreInv', UNCHANGED <<dir, data, sft>>, vol'.fat = vol.fat
  PROVE  UNCHANGED Store!store
<1>1. FilesNow' = FilesNow /\ UnsavedNow' = UnsavedNow
  BY SameSlots
<1>2. OpenNow' = OpenNow
  <2>1. HandlesAre(OpenNow, dir, sft) /\ HandlesAre(OpenNow', dir, sft)
    BY SeenNow, SeenNext
  <2> QED BY <2>1 DEF HandlesAre
<1> QED BY <1>1, <1>2 DEF Store!store

\* A seek moves a handle.
LEMMA SeekShows ==
  ASSUME StoreInv, StoreInv', NEW s \in Slots, NEW pos \in Positions, f42_seek(s, pos)
  PROVE  Store!Seek(s, pos)
<1>1. /\ sft[s].open /\ sft' = [sft EXCEPT ![s].pos = pos]
      /\ dir' = dir /\ vol' = vol /\ data' = data
  BY DEF f42_seek, IsOpen
<1>2. sft \in [Slots -> {Closed} \cup OpenType] /\ sft[s] \in OpenType
  BY <1>1, SeenNow, OpenSlot DEF StoreInv
<1>3. PICK e : e = [sft[s] EXCEPT !.pos = pos]
  OBVIOUS
<1>4. /\ e.open = sft[s].open /\ e.place = sft[s].place /\ e.dirty = sft[s].dirty
      /\ e.first = sft[s].first /\ e.size = sft[s].size /\ e.pos = pos
  BY <1>2, <1>3 DEF OpenType
<1>5. sft'[s] = e /\ \A t \in Slots : t # s => sft'[t] = sft[t]
  BY <1>1, <1>2, <1>3
<1>6. FilesNow' = FilesNow /\ UnsavedNow' = UnsavedNow
  <2>1. \A i \in Used(dir) : DirtyAt(sft', i) = DirtyAt(sft, i)
    BY <1>4, <1>5 DEF DirtyAt
  <2>2. \A i \in Used(dir) : \A first, size :
           IsFile(dir, sft, i, first, size) => IsFile(dir, sft', i, first, size)
    BY <1>4, <1>5, <2>1 DEF IsFile
  <2> QED BY <1>1, <2>1, <2>2, SameSlots
<1>7. OpenNow' = [OpenNow EXCEPT ![s].pos = pos]
  <2>1. HandlesAre(OpenNow, dir, sft) /\ HandlesAre(OpenNow', dir, sft')
    BY <1>1, SeenNow, SeenNext
  <2>2. OthersAlike(dir, sft, dir, sft', s)
    BY <1>5 DEF OthersAlike
  <2>3. sft'[s].open /\ PathOf(dir, sft'[s].place) = PathOf(dir, sft[s].place) /\ sft'[s].pos = pos
    BY <1>1, <1>4, <1>5
  <2>4. PICK Z : Z = sft'
    OBVIOUS
  <2>5. PICK o2 : o2 = OpenNow'
    OBVIOUS
  <2>7. /\ HandlesAre(o2, dir, Z) /\ OthersAlike(dir, sft, dir, Z, s) /\ Z[s].open
        /\ PathOf(dir, Z[s].place) = PathOf(dir, sft[s].place)
    BY <2>1, <2>2, <2>3, <2>4, <2>5
  <2>6. o2 = [OpenNow EXCEPT ![s].pos = Z[s].pos]
    BY <1>1, <2>1, <2>7, HandleMoved
  <2> QED BY <2>3, <2>4, <2>5, <2>6
<1>8. s \in DOMAIN OpenNow
  BY <1>1, SeenNow, HandleOf
<1> QED BY <1>6, <1>7, <1>8 DEF Store!Seek

\* An open enters its file in a slot, and changes none.
LEMMA OpenShows ==
  ASSUME StoreInv, StoreInv', NEW d \in Dirs, NEW n \in Names, NEW m \in OpenModes,
         f3d_open(d, n, m)
  PROVE  Store!Open(LowestSft, <<d, n>>)
<1>1. PICK p : p = PlaceOf(d, n)
  OBVIOUS
<1>2. PICK l : l = LowestSft
  OBVIOUS
<1>3. PICK e : e = Entered(p, m, dir[p].first, dir[p].size)
  OBVIOUS
<1>4. /\ UNCHANGED <<dir, vol, data>> /\ sft' = [sft EXCEPT ![l] = e]
  BY <1>1, <1>2, <1>3 DEF f3d_open
<1>5. p \in Used(dir) /\ PathOf(dir, p) = <<d, n>>
  <2>1. p \in Found(d, n)
    BY <1>1 DEF f3d_open, PlaceOf
  <2> QED BY <2>1 DEF Found, Used, PathOf
<1>6. l \in Slots /\ ~sft[l].open
  BY <1>2, SlotFound DEF f3d_open
<1>7. e.open /\ ~e.dirty /\ e.place = p /\ e.pos = 0
  BY <1>3 DEF Entered
<1>8. sft'[l] = e /\ \A t \in Slots : t # l => sft'[t] = sft[t]
  BY <1>4, <1>6, SeenNow
<1>9. FilesNow' = FilesNow /\ UnsavedNow' = UnsavedNow
  <2>1. \A i \in Used(dir) : DirtyAt(sft', i) = DirtyAt(sft, i)
    BY <1>6, <1>7, <1>8 DEF DirtyAt
  <2>2. \A i \in Used(dir) : \A first, size :
           IsFile(dir, sft, i, first, size) => IsFile(dir, sft', i, first, size)
    BY <1>6, <1>8, <2>1 DEF IsFile
  <2> QED BY <1>4, <2>1, <2>2, SameSlots
<1>10. OpenNow' = Store!With(OpenNow, l, [path |-> <<d, n>>, pos |-> 0])
  <2>1. HandlesAre(OpenNow, dir, sft) /\ HandlesAre(OpenNow', dir, sft')
    BY <1>4, SeenNow, SeenNext
  <2>2. OthersAlike(dir, sft, dir, sft', l) /\ sft'[l].open
    BY <1>7, <1>8 DEF OthersAlike
  <2>3. PICK Z : Z = sft'
    OBVIOUS
  <2>4. PICK o2 : o2 = OpenNow'
    OBVIOUS
  <2>5. HandlesAre(o2, dir, Z) /\ OthersAlike(dir, sft, dir, Z, l) /\ Z[l].open
    BY <2>1, <2>2, <2>3, <2>4
  <2>6. o2 = Store!With(OpenNow, l, [path |-> PathOf(dir, Z[l].place), pos |-> Z[l].pos])
    BY <1>6, <2>1, <2>5, HandleAdded
  <2> QED BY <1>5, <1>7, <1>8, <2>3, <2>4, <2>6
<1>11. l \notin DOMAIN OpenNow /\ <<d, n>> \in DOMAIN FilesNow
  <2>1. l \notin DOMAIN OpenNow
    BY <1>6, SeenNow, HandleOf
  <2> QED BY <1>5, <2>1, SeenNow, FileOf
<1> QED BY <1>2, <1>9, <1>10, <1>11 DEF Store!Open

\* What a flush of the slot s leaves of the entries and of the table.
LEMMA FlushSeen ==
  ASSUME StoreInv, NEW s \in Slots, sft[s].open, file_flush(sft[s], vol)
  PROVE  /\ Used(dir') = Used(dir) /\ vol'.fat = vol.fat /\ sft[s].place \in Used(dir)
         /\ \A i \in Used(dir) : PathOf(dir', i) = PathOf(dir, i)
         /\ \A i \in Used(dir) : i # sft[s].place => dir'[i] = dir[i]
         /\ ~sft[s].dirty => dir' = dir
         /\ dir'[sft[s].place].first = sft[s].first /\ dir'[sft[s].place].size = sft[s].size
<1>1. PICK f : f = sft[s]
  OBVIOUS
<1>2. /\ f \in OpenType /\ Good(vol) /\ f.place \in Used(dir) /\ dir[f.place].used
      /\ dir \in [Places -> EntryType]
  BY <1>1, OpenSlot, SeenNow DEF StoreInv
<1>3. f.first \in {0} \cup Clusters /\ f.size \in 0..MaxSecs
  BY <1>2 DEF OpenType
<1>4. vol'.fat = vol.fat
  <2>1. fat_commit(vol).fat = vol.fat
    BY <1>2, CommitHeld DEF Good, Held
  <2> QED BY <2>1 DEF file_flush
<1>5. CASE f.dirty
  <2>1. PICK D2 : D2 = Saved(dir, f.place, f.first, f.size)
    OBVIOUS
  <2>2. dir' = D2
    BY <1>1, <1>2, <1>5, <2>1 DEF file_flush, Flushed, Saved
  <2>3. /\ Used(D2) = Used(dir) /\ D2[f.place].first = f.first /\ D2[f.place].size = f.size
        /\ D2[f.place].name = dir[f.place].name
        /\ \A i \in Places : i # f.place => D2[i] = dir[i]
    <3>1. PICK p \in Used(dir) : p = f.place
      BY <1>2
    <3>2. PICK x \in {0} \cup Clusters : x = f.first
      BY <1>3
    <3>3. PICK y \in 0..MaxSecs : y = f.size
      BY <1>3
    <3>4. D2 = Saved(dir, p, x, y)
      BY <2>1, <3>1, <3>2, <3>3
    <3>5. /\ Used(D2) = Used(dir) /\ D2[p].first = x /\ D2[p].size = y
          /\ D2[p].name = dir[p].name /\ \A i \in Places : i # p => D2[i] = dir[i]
      BY <1>2, <3>4, SavedEntries
    <3> QED BY <3>1, <3>2, <3>3, <3>5
  <2>4. \A i \in Used(dir) : i \in Places
    BY DEF Used
  <2>5. \A i \in Used(dir) : PathOf(D2, i) = PathOf(dir, i)
    BY <2>3, <2>4 DEF PathOf
  <2> QED BY <1>1, <1>2, <1>4, <1>5, <2>2, <2>3, <2>4, <2>5
<1>6. CASE ~f.dirty
  <2>1. dir' = dir
    BY <1>1, <1>6 DEF file_flush, Flushed
  <2>2. f.first = dir[f.place].first /\ f.size = dir[f.place].size
    BY <1>1, <1>6, SeenNow DEF Agree
  <2> QED BY <1>1, <1>2, <1>4, <2>1, <2>2
<1> QED BY <1>5, <1>6

\* A flush changes no file; it saves the one it is for.
LEMMA FlushShows ==
  ASSUME StoreInv, StoreInv', NEW s \in Slots, sft[s].open, file_flush(sft[s], vol), data' = data,
         \A j \in Slots : j # s => sft'[j] = sft[j],
         sft'[s].open => /\ sft'[s].place = sft[s].place /\ ~sft'[s].dirty
                         /\ sft'[s].first = sft[s].first /\ sft'[s].size = sft[s].size
  PROVE  /\ FilesNow' = FilesNow
         /\ UnsavedNow' \in {UnsavedNow, UnsavedNow \ {PathOf(dir, sft[s].place)}}
<1>1. PICK f : f = sft[s]
  OBVIOUS
<1>2. PICK D, D2 : D = dir /\ D2 = dir'
  OBVIOUS
<1>3. PICK S, S2 : S = sft /\ S2 = sft'
  OBVIOUS
<1>4. PICK T : T = vol.fat
  OBVIOUS
<1>5. PICK un, un2 : un = UnsavedNow /\ un2 = UnsavedNow'
  OBVIOUS
<1>6. /\ FilesAre(FilesNow, D, T, data, S) /\ UnsavedAre(un, D, S) /\ Agree(D, S)
      /\ D \in [Places -> EntryType] /\ NamesApart(D)
  BY <1>2, <1>3, <1>4, <1>5, SeenNow
<1>7. /\ Used(D2) = Used(D) /\ vol'.fat = T /\ f.place \in Used(D)
      /\ \A i \in Used(D) : PathOf(D2, i) = PathOf(D, i)
      /\ \A i \in Used(D) : i # f.place => D2[i] = D[i]
      /\ ~f.dirty => D2 = D
      /\ D2[f.place].first = f.first /\ D2[f.place].size = f.size
  BY <1>1, <1>2, <1>4, FlushSeen
<1>8. /\ FilesAre(FilesNow', D2, T, data, S2) /\ UnsavedAre(un2, D2, S2) /\ Agree(D2, S2)
  BY <1>2, <1>3, <1>5, <1>7, SeenNext
<1>9. /\ f = S[s] /\ f.open /\ \A j \in Slots : j # s => S2[j] = S[j]
      /\ S2[s].open => /\ S2[s].place = f.place /\ ~S2[s].dirty
                       /\ S2[s].first = f.first /\ S2[s].size = f.size
  BY <1>1, <1>3
<1>10. \A j \in Slots : j # s => ~(S[j].open /\ S[j].place = f.place /\ S[j].dirty)
  BY <1>6, <1>9 DEF Agree, OneWriter
<1>11. DirtyAt(S2, f.place) = {} /\ \A i \in Used(D) : i # f.place => DirtyAt(S2, i) = DirtyAt(S, i)
  BY <1>9, <1>10 DEF DirtyAt
<1>12. \A i \in Used(D) : \A first, size :
         IsFile(D, S, i, first, size) => IsFile(D2, S2, i, first, size)
  <2> SUFFICES ASSUME NEW i \in Used(D), NEW first, NEW size, IsFile(D, S, i, first, size)
               PROVE  IsFile(D2, S2, i, first, size)
    OBVIOUS
  <2>1. ASSUME NEW j \in Slots, S[j].open, S[j].place = i, S[j].first = first, S[j].size = size
        PROVE  IsFile(D2, S2, i, first, size)
    BY <1>7, <1>9, <1>11, <2>1 DEF IsFile
  <2>2. CASE DirtyAt(S, i) = {} /\ D[i].first = first /\ D[i].size = size
    <3>1. CASE i # f.place
      BY <1>7, <1>11, <2>2, <3>1 DEF IsFile
    <3>2. CASE i = f.place
      <4>1. ~f.dirty
        BY <1>9, <2>2, <3>2 DEF DirtyAt
      <4> QED BY <1>7, <1>11, <2>2, <3>2, <4>1 DEF IsFile
    <3> QED BY <3>1, <3>2
  <2> QED BY <2>1, <2>2 DEF IsFile
<1>13. \A i \in Used(D) : Text(T, data, Now(D2, S2)[i]) = Text(T, data, Now(D, S)[i])
  BY <1>6, <1>7, <1>8, <1>12, SameTexts
<1>14. FilesNow' = FilesNow
  BY <1>6, <1>7, <1>8, <1>13, SameFiles
<1>15. un2 = un \ {PathOf(D, f.place)}
  <2>1. \A p : p \in un2 <=> p \in un /\ p # PathOf(D, f.place)
    BY <1>6, <1>7, <1>8, <1>11, PathsApart DEF UnsavedAre
  <2> QED BY <2>1
<1> QED BY <1>1, <1>2, <1>5, <1>14, <1>15

\* A commit saves what it saves.
LEMMA CommitShows ==
  ASSUME StoreInv, StoreInv', NEW s \in Slots, f68_commit(s)
  PROVE  Store!Commit(s)
<1>1. /\ sft[s].open /\ file_flush(sft[s], vol) /\ data' = data
      /\ sft' = [sft EXCEPT ![s].dirty = FALSE]
  BY DEF f68_commit, IsOpen
<1>2. sft \in [Slots -> {Closed} \cup OpenType] /\ sft[s] \in OpenType
  BY <1>1, SeenNow, OpenSlot DEF StoreInv
<1>3. PICK e : e = [sft[s] EXCEPT !.dirty = FALSE]
  OBVIOUS
<1>4. /\ e.open = sft[s].open /\ e.place = sft[s].place /\ ~e.dirty
      /\ e.first = sft[s].first /\ e.size = sft[s].size /\ e.pos = sft[s].pos
  BY <1>2, <1>3 DEF OpenType
<1>5. sft'[s] = e /\ \A t \in Slots : t # s => sft'[t] = sft[t]
  BY <1>1, <1>2, <1>3
<1>6. /\ FilesNow' = FilesNow
      /\ UnsavedNow' \in {UnsavedNow, UnsavedNow \ {PathOf(dir, sft[s].place)}}
  BY <1>1, <1>4, <1>5, FlushShows
<1>7. s \in DOMAIN OpenNow /\ OpenNow[s].path = PathOf(dir, sft[s].place)
  BY <1>1, SeenNow, HandleOf
<1>8. OpenNow' = OpenNow
  <2>1. HandlesAre(OpenNow, dir, sft) /\ HandlesAre(OpenNow', dir', sft')
    BY SeenNow, SeenNext
  <2>2. \A i \in Used(dir) : PathOf(dir', i) = PathOf(dir, i)
    BY <1>1, FlushSeen
  <2>3. \A j \in Slots : sft[j].open => sft[j].place \in Used(dir)
    BY SeenNow
  <2>4. PICK l : l \notin Slots
    <3>1. -1 \notin Slots
      BY DEF Slots
    <3> QED BY <3>1
  <2>5. OthersAlike(dir, sft, dir', sft', l)
    BY <1>1, <1>4, <1>5, <2>2, <2>3 DEF OthersAlike
  <2>6. PICK D2, S2, o2 : D2 = dir' /\ S2 = sft' /\ o2 = OpenNow'
    OBVIOUS
  <2>7. HandlesAre(o2, D2, S2) /\ OthersAlike(dir, sft, D2, S2, l)
    BY <2>1, <2>5, <2>6
  <2>8. o2 = OpenNow
    BY <2>1, <2>4, <2>7, HandlesSame
  <2> QED BY <2>6, <2>8
<1> QED BY <1>6, <1>7, <1>8 DEF Store!Commit

\* A close drops a handle, and saves its file.
LEMMA CloseShows ==
  ASSUME StoreInv, StoreInv', NEW s \in Slots, f3e_close(s)
  PROVE  Store!Close(s)
<1>1. /\ sft[s].open /\ file_flush(sft[s], vol) /\ data' = data
      /\ sft' = [sft EXCEPT ![s] = Closed]
  BY DEF f3e_close, IsOpen
<1>5. ~sft'[s].open /\ \A t \in Slots : t # s => sft'[t] = sft[t]
  BY <1>1, SeenNow DEF Closed
<1>6. /\ FilesNow' = FilesNow
      /\ UnsavedNow' \in {UnsavedNow, UnsavedNow \ {PathOf(dir, sft[s].place)}}
  BY <1>1, <1>5, FlushShows
<1>7. s \in DOMAIN OpenNow /\ OpenNow[s].path = PathOf(dir, sft[s].place)
  BY <1>1, SeenNow, HandleOf
<1>8. OpenNow' = Store!Without(OpenNow, s)
  <2>1. HandlesAre(OpenNow, dir, sft) /\ HandlesAre(OpenNow', dir', sft')
    BY SeenNow, SeenNext
  <2>2. \A i \in Used(dir) : PathOf(dir', i) = PathOf(dir, i)
    BY <1>1, FlushSeen
  <2>3. \A j \in Slots : sft[j].open => sft[j].place \in Used(dir)
    BY SeenNow
  <2>5. OthersAlike(dir, sft, dir', sft', s)
    BY <1>1, <1>5, <2>2, <2>3 DEF OthersAlike
  <2>6. PICK D2, S2, o2 : D2 = dir' /\ S2 = sft' /\ o2 = OpenNow'
    OBVIOUS
  <2>7. HandlesAre(o2, D2, S2) /\ OthersAlike(dir, sft, D2, S2, s) /\ ~S2[s].open
    BY <1>5, <2>1, <2>5, <2>6
  <2>8. o2 = Store!Without(OpenNow, s)
    BY <1>1, <2>1, <2>7, HandleDropped
  <2> QED BY <2>6, <2>8
<1> QED BY <1>6, <1>7, <1>8 DEF Store!Close

\* The text of a file is as long as the file.
LEMMA TextLength ==
  ASSUME NEW T, NEW A, NEW f, f.size \in Nat
  PROVE  /\ Len(Text(T, A, f)) = f.size /\ DOMAIN Text(T, A, f) = 1..f.size
         /\ \A k \in 1..f.size : Text(T, A, f)[k] = SectorAt(T, A, f.first, k - 1)
<1>1. PICK x : x = Text(T, A, f)
  OBVIOUS
<1>2. x \in [1..f.size -> {x[k] : k \in 1..f.size}]
  BY <1>1 DEF Text
<1>3. Len(x) = f.size
  BY <1>2, ListLength
<1> QED BY <1>1, <1>3 DEF Text

\* The file of an open slot.
LEMMA OpenFileSeen ==
  ASSUME StoreInv, NEW s \in Slots, sft[s].open
  PROVE  /\ s \in DOMAIN OpenNow /\ OpenNow[s].path = PathOf(dir, sft[s].place)
         /\ OpenNow[s].pos = sft[s].pos /\ OpenNow[s].path \in DOMAIN FilesNow
         /\ FilesNow[OpenNow[s].path] = Text(vol.fat, data, sft[s])
         /\ sft[s].pos \in Nat /\ sft[s].size \in Nat /\ sft[s].place \in Used(dir)
<1>1. /\ s \in DOMAIN OpenNow /\ OpenNow[s].path = PathOf(dir, sft[s].place)
      /\ OpenNow[s].pos = sft[s].pos
  BY SeenNow, HandleOf
<1>2. sft[s].place \in Used(dir) /\ sft[s] \in OpenType
  BY OpenSlot DEF StoreInv
<1>3. OpenNow[s].path \in DOMAIN FilesNow
  BY <1>1, <1>2, SeenNow, FileOf
<1>4. /\ Now(dir, sft)[sft[s].place].first = sft[s].first
      /\ Now(dir, sft)[sft[s].place].size = sft[s].size
  BY <1>2, SeenNow, NowFields
<1>5. FilesNow[OpenNow[s].path] = Text(vol.fat, data, Now(dir, sft)[sft[s].place])
  BY <1>1, <1>2, SeenNow DEF FilesAre
<1>6. sft[s].pos \in 0..MaxSecs /\ sft[s].size \in 0..MaxSecs
  BY <1>2 DEF OpenType
<1> QED BY <1>1, <1>2, <1>3, <1>4, <1>5, <1>6, InputAssumption, SameText

\* A read moves its handle, by what there is to read.
LEMMA ReadShows ==
  ASSUME StoreInv, StoreInv', NEW s \in Slots, NEW n \in Counts, f3f_read(s, n)
  PROVE  Store!Read(s, n)
<1>1. PICK t : t = file_do_read(s, n)
  OBVIOUS
<1>2. /\ sft[s].open /\ sft' = [sft EXCEPT ![s] = t.f] /\ vol' = t.vol
      /\ dir' = dir /\ data' = data
  BY <1>1 DEF f3f_read, IsOpen
<1>3. sft[s] \in OpenType /\ Placed(vol.fat, sft[s]) /\ Good(vol) /\ data \in DataType
  BY <1>2, OpenSlot DEF StoreInv
<1>4. n \in Nat
  BY InputAssumption
<1>5. /\ Moving(t, sft[s], vol) /\ t.f.dirty = sft[s].dirty
      /\ t.f.first = sft[s].first /\ t.f.size = sft[s].size
      /\ t.vol.fat = vol.fat /\ t.f.pos = sft[s].pos + Readable(sft[s], n)
  BY <1>1, <1>3, <1>4, ReadMoves
<1>6. t.f.open /\ t.f.place = sft[s].place
  BY <1>5 DEF Moving, TransferType, OpenType
<1>7. sft'[s] = t.f /\ \A j \in Slots : j # s => sft'[j] = sft[j]
  BY <1>2, SeenNow
<1>8. FilesNow' = FilesNow /\ UnsavedNow' = UnsavedNow
  <2>1. \A i \in Used(dir) : DirtyAt(sft', i) = DirtyAt(sft, i)
    BY <1>2, <1>5, <1>6, <1>7 DEF DirtyAt
  <2>2. \A i \in Used(dir) : \A first, size :
           IsFile(dir, sft, i, first, size) => IsFile(dir, sft', i, first, size)
    <3>1. PICK e, g : e = t.f /\ g = sft[s]
      OBVIOUS
    <3>2. /\ sft'[s] = e /\ e.open /\ e.place = g.place /\ e.first = g.first
          /\ e.size = g.size /\ \A j \in Slots : j # s => sft'[j] = sft[j]
      BY <1>5, <1>6, <1>7, <3>1
    <3> QED BY <2>1, <3>1, <3>2 DEF IsFile
  <2>3. vol'.fat = vol.fat
    BY <1>2, <1>5
  <2> QED BY <1>2, <2>1, <2>2, <2>3, SameSlots
<1>9. OpenNow' = [OpenNow EXCEPT ![s].pos = t.f.pos]
  <2>1. HandlesAre(OpenNow, dir, sft) /\ HandlesAre(OpenNow', dir, sft')
    BY <1>2, SeenNow, SeenNext
  <2>2. OthersAlike(dir, sft, dir, sft', s)
    BY <1>7 DEF OthersAlike
  <2>3. sft'[s].open /\ PathOf(dir, sft'[s].place) = PathOf(dir, sft[s].place)
        /\ sft'[s].pos = t.f.pos
    BY <1>6, <1>7
  <2>4. PICK Z, o2 : Z = sft' /\ o2 = OpenNow'
    OBVIOUS
  <2>5. /\ HandlesAre(o2, dir, Z) /\ OthersAlike(dir, sft, dir, Z, s) /\ Z[s].open
        /\ PathOf(dir, Z[s].place) = PathOf(dir, sft[s].place)
    BY <2>1, <2>2, <2>3, <2>4
  <2>6. o2 = [OpenNow EXCEPT ![s].pos = Z[s].pos]
    BY <1>2, <2>1, <2>5, HandleMoved
  <2> QED BY <2>3, <2>4, <2>6
<1>10. PICK p : p = sft[s].pos
  OBVIOUS
<1>11. PICK file : file = FilesNow[OpenNow[s].path]
  OBVIOUS
<1>12. /\ s \in DOMAIN OpenNow /\ OpenNow[s].pos = p /\ p \in Nat /\ sft[s].size \in Nat
       /\ Len(file) = sft[s].size
  BY <1>2, <1>10, <1>11, OpenFileSeen, TextLength
<1>13. t.f.pos = Store!Least(p + n, Store!Greatest(p, Len(file)))
  <2>1. PICK z \in Nat : z = sft[s].size
    BY <1>12
  <2>2. t.f.pos = p + (IF p >= z THEN 0 ELSE Least(n, z - p))
    BY <1>5, <1>10, <2>1 DEF Readable
  <2> QED BY <1>4, <1>12, <2>1, <2>2 DEF Least, Store!Least, Store!Greatest
<1>14. OpenNow' = [OpenNow EXCEPT ![s].pos =
                     Store!Least(@ + n, Store!Greatest(@, Len(FilesNow[OpenNow[s].path])))]
  BY <1>9, <1>11, <1>12, <1>13
<1> QED BY <1>8, <1>12, <1>14 DEF Store!Read

\* A file keeps its contents when its chain and the sectors of its clusters stay.
LEMMA TextKeeps ==
  ASSUME NEW T \in TableType, Linked(T), NEW f, f.first \in {0} \cup Clusters, f.size \in Nat,
         Rooted(T, f.first), Long(T, f.first, f.size),
         NEW U, \A k \in 0..MaxCluster :
           Chain(T, f.first)[k] \in Clusters => Chain(U, f.first)[k] = Chain(T, f.first)[k],
         NEW A, NEW B, \A c \in ClustersOf(T, f.first) : B[c] = A[c]
  PROVE  Text(U, B, f) = Text(T, A, f)
<1>1. ASSUME NEW k \in 1..f.size
      PROVE  SectorAt(U, B, f.first, k - 1) = SectorAt(T, A, f.first, k - 1)
  <2>1. k - 1 \in Nat /\ k - 1 < f.size
    OBVIOUS
  <2>2. PICK q : q = (k - 1) \div ClusterSecs
    OBVIOUS
  <2>3. q \in 0..MaxCluster /\ Chain(T, f.first)[q] \in Clusters
    BY <2>1, <2>2, SectorsInChain
  <2>4. Chain(T, f.first)[q] \in ClustersOf(T, f.first)
    BY <2>3 DEF ClustersOf
  <2> QED BY <2>2, <2>3, <2>4 DEF SectorAt
<1> QED BY <1>1 DEF Text

\* The file of the place p is gone.
LEMMA FileDropped ==
  ASSUME NEW fs, NEW D \in [Places -> EntryType], NamesApart(D), NEW T, NEW A, NEW S,
         FilesAre(fs, D, T, A, S), NEW fs2, NEW D2, NEW T2, NEW A2, NEW S2,
         FilesAre(fs2, D2, T2, A2, S2), NEW p \in Used(D), Used(D2) = Used(D) \ {p},
         \A i \in Used(D2) : /\ PathOf(D2, i) = PathOf(D, i)
                             /\ Text(T2, A2, Now(D2, S2)[i]) = Text(T, A, Now(D, S)[i])
  PROVE  fs2 = Store!Without(fs, PathOf(D, p))
<1>1. \A i \in Used(D2) : PathOf(D, i) # PathOf(D, p)
  BY PathsApart
<1>2. DOMAIN fs2 = DOMAIN fs \ {PathOf(D, p)}
  BY <1>1 DEF FilesAre
<1>3. \A x \in DOMAIN fs2 : fs2[x] = fs[x]
  BY DEF FilesAre
<1>4. fs2 = [x \in DOMAIN fs2 |-> fs2[x]]
  BY DEF FilesAre
<1> QED BY <1>2, <1>3, <1>4 DEF Store!Without

\* The place p has a new file, with the path of the old one if there was one.
LEMMA FileAdded ==
  ASSUME NEW fs, NEW D, NEW T, NEW A, NEW S, FilesAre(fs, D, T, A, S),
         NEW fs2, NEW D2 \in [Places -> EntryType], NamesApart(D2), NEW T2, NEW A2, NEW S2,
         FilesAre(fs2, D2, T2, A2, S2), NEW p \in Used(D2), Used(D2) = Used(D) \cup {p},
         p \in Used(D) => PathOf(D2, p) = PathOf(D, p),
         \A i \in Used(D2) \ {p} : /\ PathOf(D2, i) = PathOf(D, i)
                                   /\ Text(T2, A2, Now(D2, S2)[i]) = Text(T, A, Now(D, S)[i])
  PROVE  fs2 = Store!With(fs, PathOf(D2, p), Text(T2, A2, Now(D2, S2)[p]))
<1>1. PICK x, y : x = PathOf(D2, p) /\ y = Text(T2, A2, Now(D2, S2)[p])
  OBVIOUS
<1>2. \A i \in Used(D2) \ {p} : PathOf(D2, i) # x
  BY <1>1, PathsApart
<1>3. DOMAIN fs2 = DOMAIN fs \cup {x}
  BY <1>1 DEF FilesAre
<1>4. \A z \in DOMAIN fs2 : z # x => fs2[z] = fs[z]
  BY <1>1 DEF FilesAre
<1>5. fs2[x] = y
  BY <1>1 DEF FilesAre
<1>6. fs2 = [z \in DOMAIN fs2 |-> fs2[z]]
  BY DEF FilesAre
<1>7. fs2 = Store!With(fs, x, y)
  BY <1>3, <1>4, <1>5, <1>6 DEF Store!With
<1> QED BY <1>1, <1>7

\* The file of the place p is at the place q, under another path.
LEMMA FileMoved ==
  ASSUME NEW fs, NEW D \in [Places -> EntryType], NamesApart(D), NEW T, NEW A, NEW S,
         FilesAre(fs, D, T, A, S),
         NEW fs2, NEW D2 \in [Places -> EntryType], NamesApart(D2), NEW T2, NEW A2, NEW S2,
         FilesAre(fs2, D2, T2, A2, S2), NEW p \in Used(D), NEW q \in Used(D2),
         Used(D2) = (Used(D) \ {p}) \cup {q}, q \notin Used(D) \ {p},
         Text(T2, A2, Now(D2, S2)[q]) = Text(T, A, Now(D, S)[p]),
         \A i \in Used(D) \ {p} : /\ PathOf(D2, i) = PathOf(D, i)
                                  /\ Text(T2, A2, Now(D2, S2)[i]) = Text(T, A, Now(D, S)[i])
  PROVE  fs2 = Store!With(Store!Without(fs, PathOf(D, p)), PathOf(D2, q), fs[PathOf(D, p)])
<1>1. PICK x, y : x = PathOf(D, p) /\ y = PathOf(D2, q)
  OBVIOUS
<1>2. \A i \in Used(D) \ {p} : PathOf(D, i) # x /\ PathOf(D2, i) # y
  BY <1>1, PathsApart
<1>3. DOMAIN fs2 = (DOMAIN fs \ {x}) \cup {y}
  <2>1. \A z : z \in DOMAIN fs2 <=> \E i \in Used(D2) : z = PathOf(D2, i)
    BY DEF FilesAre
  <2>2. \A z : z \in DOMAIN fs <=> \E i \in Used(D) : z = PathOf(D, i)
    BY DEF FilesAre
  <2> QED BY <1>1, <1>2, <2>1, <2>2
<1>4. \A z \in DOMAIN fs2 : z # y => fs2[z] = fs[z] /\ z # x
  <2> SUFFICES ASSUME NEW z \in DOMAIN fs2, z # y PROVE fs2[z] = fs[z] /\ z # x
    OBVIOUS
  <2>1. PICK i \in Used(D2) : z = PathOf(D2, i)
    BY DEF FilesAre
  <2>2. i \in Used(D) \ {p}
    BY <1>1, <2>1
  <2>3. z = PathOf(D, i)
    BY <2>1, <2>2
  <2> QED BY <1>2, <2>1, <2>2, <2>3 DEF FilesAre
<1>5. fs2[y] = fs[x]
  BY <1>1 DEF FilesAre
<1>6. fs2 = [z \in DOMAIN fs2 |-> fs2[z]]
  BY DEF FilesAre
<1>7. PICK w : w = Store!Without(fs, x)
  OBVIOUS
<1>8. w = [k \in DOMAIN fs \ {x} |-> fs[k]]
  BY <1>7 DEF Store!Without
<1>9. Store!With(w, y, fs[x]) = [k \in DOMAIN w \cup {y} |-> IF k = y THEN fs[x] ELSE w[k]]
  BY DEF Store!With
<1>10. fs2 = Store!With(w, y, fs[x])
  BY <1>3, <1>4, <1>5, <1>6, <1>8, <1>9
<1> QED BY <1>1, <1>7, <1>10

\* Only the file of the place p has changed.
LEMMA FileChanged ==
  ASSUME NEW fs, NEW D \in [Places -> EntryType], NamesApart(D), NEW T, NEW A, NEW S,
         FilesAre(fs, D, T, A, S), NEW fs2, NEW D2, NEW T2, NEW A2, NEW S2,
         FilesAre(fs2, D2, T2, A2, S2), NEW p \in Used(D), Used(D2) = Used(D),
         \A i \in Used(D) : PathOf(D2, i) = PathOf(D, i),
         \A i \in Used(D) \ {p} : Text(T2, A2, Now(D2, S2)[i]) = Text(T, A, Now(D, S)[i])
  PROVE  /\ DOMAIN fs2 = DOMAIN fs /\ fs2 = [x \in DOMAIN fs2 |-> fs2[x]]
         /\ fs = [x \in DOMAIN fs |-> fs[x]]
         /\ fs2[PathOf(D, p)] = Text(T2, A2, Now(D2, S2)[p])
         /\ \A x \in DOMAIN fs : x # PathOf(D, p) => fs2[x] = fs[x]
<1>1. DOMAIN fs2 = DOMAIN fs
  BY DEF FilesAre
<1>2. fs2[PathOf(D, p)] = Text(T2, A2, Now(D2, S2)[p])
  BY DEF FilesAre
<1>3. ASSUME NEW x \in DOMAIN fs, x # PathOf(D, p) PROVE fs2[x] = fs[x]
  <2>1. PICK i \in Used(D) : x = PathOf(D, i)
    BY DEF FilesAre
  <2> QED BY <1>3, <2>1 DEF FilesAre
<1> QED BY <1>1, <1>2, <1>3 DEF FilesAre

\* Names stay apart when one file gets a path that no other has, or none does.
LEMMA NamesStayApart ==
  ASSUME NEW D, NamesApart(D), NEW D2, NEW p, Used(D2) \subseteq Used(D) \cup {p},
         \A i \in Used(D2) : i # p => PathOf(D2, i) = PathOf(D, i) /\ i \in Used(D),
         p \in Used(D2) => \A i \in Used(D2) : i # p => PathOf(D2, i) # PathOf(D2, p)
  PROVE  NamesApart(D2)
<1> SUFFICES ASSUME NEW i \in Used(D2), NEW j \in Used(D2), i[1] = j[1], D2[i].name = D2[j].name
             PROVE  i = j
  BY DEF NamesApart
<1>1. PathOf(D2, i) = PathOf(D2, j)
  BY DEF PathOf
<1>2. CASE i = p \/ j = p
  BY <1>1, <1>2
<1>3. CASE i # p /\ j # p
  <2>1. PathOf(D, i) = PathOf(D, j) /\ i \in Used(D) /\ j \in Used(D)
    BY <1>1, <1>3
  <2>2. D[i].name = D[j].name
    BY <2>1 DEF PathOf
  <2> QED BY <2>1, <2>2 DEF NamesApart
<1> QED BY <1>2, <1>3

\* No handle is open on the path x.
LEMMA UnusedHandle ==
  ASSUME StoreInv, NEW x, \A s \in Slots : sft[s].open => PathOf(dir, sft[s].place) # x
  PROVE  Store!Unused(x)
<1> SUFFICES ASSUME NEW h \in DOMAIN OpenNow, OpenNow[h].path = x PROVE FALSE
  BY DEF Store!Unused
<1>1. HandlesAre(OpenNow, dir, sft)
  BY SeenNow
<1>2. h \in Slots /\ sft[h].open
  BY <1>1 DEF HandlesAre
<1> QED BY <1>1, <1>2, HandleOf

\* The other files when the one at p has shrunk.
LEMMA OthersKept ==
  ASSUME NEW D, NEW V, NEW A, NEW S, Right(D, V, A, S), NEW p, NEW U \in TableType,
         p \in Used(D) => Shrinks(U, V.fat, Now(D, S)[p].first), p \notin Used(D) => U = V.fat,
         NEW D2, NEW S2, Agree(D2, S2), NEW i \in Used(D), i # p, i \in Used(D2),
         \A first, size : IsFile(D, S, i, first, size) => IsFile(D2, S2, i, first, size)
  PROVE  Text(U, A, Now(D2, S2)[i]) = Text(V.fat, A, Now(D, S)[i])
<1>1. PICK F : F = Now(D, S)
  OBVIOUS
<1>2. PICK f : f = F[i]
  OBVIOUS
<1>3. Laid(V.fat, F) /\ DOMAIN F = Used(D) /\ Agree(D, S)
  BY <1>1, RightAgree DEF Right, Now
<1>4. /\ V.fat \in TableType /\ Linked(V.fat) /\ f.first \in {0} \cup Clusters /\ f.size \in Nat
      /\ Rooted(V.fat, f.first) /\ Long(V.fat, f.first, f.size)
  BY <1>2, <1>3 DEF Laid
<1>5. PICK G : G = Now(D2, S2)
  OBVIOUS
<1>6. G[i].first = f.first /\ G[i].size = f.size
  <2>1. IsFile(D, S, i, f.first, f.size)
    BY <1>1, <1>2, <1>3, NowIsFile
  <2>2. PICK x, y : x = f.first /\ y = f.size
    OBVIOUS
  <2>3. IsFile(D2, S2, i, x, y)
    BY <2>1, <2>2
  <2>4. Now(D2, S2)[i].first = x /\ Now(D2, S2)[i].size = y
    BY <2>3, NowIs
  <2> QED BY <1>5, <2>2, <2>4
<1>7. \A k \in 0..MaxCluster :
        Chain(V.fat, f.first)[k] \in Clusters => Chain(U, f.first)[k] = Chain(V.fat, f.first)[k]
  <2>1. CASE p \in Used(D)
    <3>1. PICK x : x = F[p].first
      OBVIOUS
    <3>2. x \in {0} \cup Clusters /\ Rooted(V.fat, x) /\ (f.first # x \/ f.first = 0)
      BY <1>2, <1>3, <2>1, <3>1 DEF Laid
    <3>3. x \in Link /\ Shrinks(U, V.fat, x)
      BY <1>1, <2>1, <3>1, <3>2, FirstLink
    <3> QED BY <1>4, <3>2, <3>3, OthersShrink
  <2> QED BY <2>1
<1>8. Text(U, A, f) = Text(V.fat, A, f)
  BY <1>4, <1>7, TextKeeps
<1>9. Text(U, A, G[i]) = Text(U, A, f)
  BY <1>6, SameText
<1> QED BY <1>1, <1>2, <1>5, <1>8, <1>9

\* A closed file of the place p is replaced by the entry e, or a free one is.
LEMMA ReplaceShows ==
  ASSUME StoreInv, NEW p \in Places, \A s \in Slots : ~(sft[s].open /\ sft[s].place = p),
         NEW U \in TableType, dir[p].used => Without(U, vol.fat, dir[p].first),
         ~dir[p].used => U = vol.fat,
         NEW D2, \A i \in Places : i # p => D2[i] = dir[i],
         NEW S2, Agree(D2, S2),
         \A s \in Slots : sft[s].open => S2[s] = sft[s],
         \A i : DirtyAt(S2, i) = DirtyAt(sft, i)
  PROVE  \A i \in Used(D2) \ {p} :
           /\ i \in Used(dir) /\ PathOf(D2, i) = PathOf(dir, i)
           /\ Text(U, data, Now(D2, S2)[i]) = Text(vol.fat, data, Now(dir, sft)[i])
<1> TAKE i \in Used(D2) \ {p}
<1>1. i \in Used(dir) /\ PathOf(D2, i) = PathOf(dir, i) /\ D2[i] = dir[i] /\ i # p
  BY DEF Used, PathOf
<1>2. Right(dir, vol, data, sft) /\ Agree(dir, sft) /\ dir \in [Places -> EntryType]
  BY SeenNow DEF StoreInv, FileInv
<1>3. p \in Used(dir) <=> dir[p].used
  BY DEF Used
<1>4. p \in Used(dir) => Shrinks(U, vol.fat, Now(dir, sft)[p].first)
  <2> SUFFICES ASSUME p \in Used(dir) PROVE Shrinks(U, vol.fat, Now(dir, sft)[p].first)
    OBVIOUS
  <2>1. Now(dir, sft)[p] = dir[p]
    BY <1>3, NowClosed
  <2>2. dir[p].first \in {0} \cup Clusters
    BY <1>2, UsedPlaces
  <2>3. Rooted(vol.fat, dir[p].first) /\ vol.fat \in TableType /\ Linked(vol.fat)
    <3>1. PICK F : F = Now(dir, sft)
      OBVIOUS
    <3>2. Laid(vol.fat, F) /\ DOMAIN F = Used(dir)
      BY <1>2, <3>1 DEF Right, Now
    <3> QED BY <2>1, <3>1, <3>2 DEF Laid
  <2>4. Shrinks(U, vol.fat, dir[p].first)
    <3>1. dir[p].first \in Link
      BY <2>2, FirstLink
    <3> QED BY <1>3, <2>3, <3>1, WithoutLinked
  <2> QED BY <2>1, <2>4
<1>5. \A first, size : IsFile(dir, sft, i, first, size) => IsFile(D2, S2, i, first, size)
  BY <1>1 DEF IsFile
<1>6. Text(U, data, Now(D2, S2)[i]) = Text(vol.fat, data, Now(dir, sft)[i])
  BY <1>1, <1>2, <1>3, <1>4, <1>5, OthersKept
<1> QED BY <1>1, <1>6

\* An empty file has no text.
LEMMA NoText ==
  ASSUME NEW T, NEW A, NEW f, f.size = 0
  PROVE  Text(T, A, f) = <<>>
<1>1. \A k \in 1..f.size : FALSE
  OBVIOUS
<1> QED BY <1>1 DEF Text

\* Deleting a closed file.
LEMMA UnlinkNames ==
  ASSUME StoreInv, NEW d \in Dirs, NEW n \in Names, file_unlink_path(d, n)
  PROVE  NamesApart(dir')
<1>1. PICK p : p = PlaceOf(d, n)
  OBVIOUS
<1>2. p \in Places /\ dir \in [Places -> EntryType] /\ NamesApart(dir)
  BY <1>1, PlaceFound, SeenNow DEF file_unlink_path
<1>3. dir' = [dir EXCEPT ![p] = NoFile]
  BY <1>1 DEF file_unlink_path
<1>4. PICK D2 : D2 = dir'
  OBVIOUS
<1>5. ~D2[p].used /\ \A i \in Places : i # p => D2[i] = dir[i]
  BY <1>2, <1>3, <1>4 DEF NoFile
<1>6. \A i \in Used(D2) : i # p /\ i \in Used(dir) /\ PathOf(D2, i) = PathOf(dir, i)
  BY <1>5 DEF Used, PathOf
<1>7. NamesApart(D2)
  BY <1>2, <1>6, NamesStayApart
<1> QED BY <1>4, <1>7

\* A delete drops its file and no other.
LEMMA UnlinkShows ==
  ASSUME Careful, StoreInv, StoreInv', NEW d \in Dirs, NEW n \in Names, file_unlink_path(d, n)
  PROVE  Store!Delete(<<d, n>>)
<1>1. PICK p : p = PlaceOf(d, n)
  OBVIOUS
<1>2. PICK w : w = fat_free_chain(vol, dir[p].first)
  OBVIOUS
<1>3. /\ OpenAt(p) = {} /\ dir' = [dir EXCEPT ![p] = NoFile] /\ vol' = fat_commit(w)
      /\ data' = data /\ sft' = sft
  BY <1>1, <1>2 DEF file_unlink_path
<1>4. p \in Used(dir) /\ p \in Places /\ dir[p].used /\ PathOf(dir, p) = <<d, n>>
  <2>1. p \in Found(d, n)
    BY <1>1 DEF file_unlink_path, PlaceOf
  <2> QED BY <2>1 DEF Found, Used, PathOf
<1>5. \A s \in Slots : ~(sft[s].open /\ sft[s].place = p)
  BY <1>3 DEF OpenAt
<1>6. w \in VolType /\ Cache(w) /\ Without(w.fat, vol.fat, dir[p].first)
  BY <1>2, <1>4, FreeEntry DEF StoreInv
<1>7. vol'.fat = w.fat /\ w.fat \in TableType
  BY <1>3, <1>6, CommitHeld DEF Held, VolType
<1>8. PICK D2, S2, U, un2, fs2 :
        D2 = dir' /\ S2 = sft' /\ U = w.fat /\ un2 = UnsavedNow' /\ fs2 = FilesNow'
  OBVIOUS
<1>9. /\ FilesAre(fs2, D2, U, data, S2) /\ UnsavedAre(un2, D2, S2) /\ Agree(D2, S2)
  BY <1>3, <1>7, <1>8, SeenNext
<1>10. /\ FilesAre(FilesNow, dir, vol.fat, data, sft) /\ UnsavedAre(UnsavedNow, dir, sft)
       /\ dir \in [Places -> EntryType] /\ NamesApart(dir)
       /\ \A s \in Slots : sft[s].open => sft[s].place \in Used(dir)
  BY SeenNow
<1>11. /\ ~D2[p].used /\ \A i \in Places : i # p => D2[i] = dir[i]
       /\ S2 = sft /\ Without(U, vol.fat, dir[p].first) /\ U \in TableType
  BY <1>3, <1>4, <1>6, <1>7, <1>8, <1>10 DEF NoFile
<1>12. Used(D2) = Used(dir) \ {p}
  BY <1>4, <1>11 DEF Used
<1>13. \A i \in Used(D2) \ {p} :
         /\ i \in Used(dir) /\ PathOf(D2, i) = PathOf(dir, i)
         /\ Text(U, data, Now(D2, sft)[i]) = Text(vol.fat, data, Now(dir, sft)[i])
  <2>1. Agree(D2, sft)
    BY <1>9, <1>11
  <2>2. \A i \in Places : i # p => D2[i] = dir[i]
    BY <1>11
  <2>3. Without(U, vol.fat, dir[p].first) /\ U \in TableType
    BY <1>11
  <2> QED BY <1>4, <1>5, <2>1, <2>2, <2>3, ReplaceShows
<1>14. fs2 = Store!Without(FilesNow, <<d, n>>)
  <2>1. FilesAre(fs2, D2, U, data, sft)
    BY <1>9, <1>11
  <2>2. fs2 = Store!Without(FilesNow, PathOf(dir, p))
    BY <1>4, <1>10, <1>12, <1>13, <2>1, FileDropped
  <2> QED BY <1>4, <2>2
<1>15. un2 = UnsavedNow
  <2>1. DirtyAt(sft, p) = {}
    BY <1>5 DEF DirtyAt
  <2> QED BY <1>9, <1>10, <1>11, <1>12, <1>13, <2>1 DEF UnsavedAre
<1>16. OpenNow' = OpenNow
  <2>1. HandlesAre(OpenNow, dir, sft) /\ HandlesAre(OpenNow', D2, sft)
    BY <1>3, <1>8, SeenNow, SeenNext
  <2>2. \A s \in Slots : sft[s].open => PathOf(D2, sft[s].place) = PathOf(dir, sft[s].place)
    BY <1>5, <1>10, <1>12, <1>13
  <2>3. PICK l : l \notin Slots
    <3>1. -1 \notin Slots
      BY DEF Slots
    <3> QED BY <3>1
  <2>4. OthersAlike(dir, sft, D2, sft, l)
    BY <2>2 DEF OthersAlike
  <2>5. PICK o2 : o2 = OpenNow'
    OBVIOUS
  <2>6. HandlesAre(OpenNow, dir, sft) /\ HandlesAre(o2, D2, sft)
    BY <2>1, <2>5
  <2>7. o2 = OpenNow
    BY <2>3, <2>4, <2>6, HandlesSame
  <2> QED BY <2>5, <2>7
<1>17. Store!Unused(<<d, n>>)
  <2>1. \A s \in Slots : sft[s].open => PathOf(dir, sft[s].place) # <<d, n>>
    BY <1>4, <1>5, <1>10, PathsApart
  <2> QED BY <2>1, UnusedHandle
<1>18. <<d, n>> \in DOMAIN FilesNow
  BY <1>4, <1>10, FileOf
<1> QED BY <1>8, <1>14, <1>15, <1>16, <1>17, <1>18 DEF Store!Delete

\* Creating a file at a place that is closed or free.
LEMMA CreateNames ==
  ASSUME StoreInv, NEW p \in Places, NEW n,
         \A i \in Used(dir) : PathOf(dir, i) = <<p[1], n>> => i = p,
         NEW w, CreateAt(p, n, w)
  PROVE  NamesApart(dir')
<1>1. dir \in [Places -> EntryType] /\ NamesApart(dir) /\ dir' = [dir EXCEPT ![p] = File(n, 0, 0)]
  BY SeenNow DEF CreateAt
<1>2. PICK D2 : D2 = dir'
  OBVIOUS
<1>3. D2[p].used /\ D2[p].name = n /\ \A i \in Places : i # p => D2[i] = dir[i]
  BY <1>1, <1>2 DEF File
<1>4. \A i \in Used(D2) : i # p => PathOf(D2, i) = PathOf(dir, i) /\ i \in Used(dir)
  BY <1>3 DEF Used, PathOf
<1>5. PathOf(D2, p) = <<p[1], n>>
  BY <1>3 DEF PathOf
<1>6. \A i \in Used(D2) : i # p => PathOf(D2, i) # PathOf(D2, p)
  BY <1>4, <1>5
<1>7. NamesApart(D2)
  BY <1>1, <1>4, <1>6, NamesStayApart
<1> QED BY <1>2, <1>7

\* A create leaves an empty file, and a handle when there is a slot.
LEMMA CreateShows ==
  ASSUME StoreInv, StoreInv', NEW p \in Places, NEW n \in Names,
         \A s \in Slots : ~(sft[s].open /\ sft[s].place = p),
         \A i \in Used(dir) : PathOf(dir, i) = <<p[1], n>> => i = p,
         NEW w \in VolType, Cache(w),
         dir[p].used => Without(w.fat, vol.fat, dir[p].first) /\ dir[p].name = n,
         ~dir[p].used => w = vol, CreateAt(p, n, w)
  PROVE  \E h \in Slots : Store!Create(h, <<p[1], n>>)
<1>1. PICK e : e = Entered(p, Mode(0, 2), 0, 0)
  OBVIOUS
<1>2. PICK x : x = File(n, 0, 0)
  OBVIOUS
<1>3. /\ dir' = [dir EXCEPT ![p] = x] /\ vol' = fat_commit(w) /\ data' = data
      /\ sft' = IF FreeSft = {} THEN sft ELSE [sft EXCEPT ![LowestSft] = e]
  BY <1>1, <1>2 DEF CreateAt
<1>4. e.open /\ ~e.dirty /\ e.place = p /\ e.pos = 0
  BY <1>1 DEF Entered
<1>5. x.used /\ x.name = n /\ x.first = 0 /\ x.size = 0
  BY <1>2 DEF File
<1>6. vol'.fat = w.fat /\ w.fat \in TableType
  BY <1>3, CommitHeld DEF Held, VolType
<1>7. PICK D2, S2, U, un2, fs2, op2 :
        /\ D2 = dir' /\ S2 = sft' /\ U = w.fat /\ un2 = UnsavedNow' /\ fs2 = FilesNow'
        /\ op2 = OpenNow'
  OBVIOUS
<1>8. /\ FilesAre(fs2, D2, U, data, S2) /\ UnsavedAre(un2, D2, S2) /\ Agree(D2, S2)
      /\ HandlesAre(op2, D2, S2) /\ D2 \in [Places -> EntryType] /\ NamesApart(D2)
  BY <1>3, <1>6, <1>7, SeenNext
<1>9. /\ FilesAre(FilesNow, dir, vol.fat, data, sft) /\ UnsavedAre(UnsavedNow, dir, sft)
      /\ HandlesAre(OpenNow, dir, sft) /\ dir \in [Places -> EntryType] /\ NamesApart(dir)
      /\ sft \in [Slots -> {Closed} \cup OpenType]
      /\ \A s \in Slots : sft[s].open => sft[s].place \in Used(dir)
  BY SeenNow
<1>10. /\ D2[p] = x /\ \A i \in Places : i # p => D2[i] = dir[i]
       /\ dir[p].used => Without(U, vol.fat, dir[p].first)
       /\ ~dir[p].used => U = vol.fat
       /\ U \in TableType
  BY <1>3, <1>6, <1>7, <1>9
<1>11. PathOf(D2, p) = <<p[1], n>> /\ (p \in Used(dir) => PathOf(dir, p) = <<p[1], n>>)
  BY <1>5, <1>10 DEF PathOf, Used
<1>12. Used(D2) = Used(dir) \cup {p} /\ p \in Used(D2)
  BY <1>5, <1>10 DEF Used
<1>13. \/ FreeSft = {} /\ S2 = sft
       \/ \E l \in Slots : ~sft[l].open /\ S2[l] = e /\ \A s \in Slots : s # l => S2[s] = sft[s]
  BY <1>3, <1>7, <1>9, SlotFound
<1>14. /\ \A i : DirtyAt(S2, i) = DirtyAt(sft, i)
       /\ \A s \in Slots : sft[s].open => S2[s] = sft[s]
  BY <1>4, <1>13 DEF DirtyAt
<1>15. \A i \in Used(D2) \ {p} :
         /\ i \in Used(dir) /\ PathOf(D2, i) = PathOf(dir, i)
         /\ Text(U, data, Now(D2, S2)[i]) = Text(vol.fat, data, Now(dir, sft)[i])
  BY <1>8, <1>10, <1>14, ReplaceShows
<1>16. DirtyAt(S2, p) = {}
  <2>1. DirtyAt(sft, p) = {}
    BY DEF DirtyAt
  <2> QED BY <1>14, <2>1
<1>17. Text(U, data, Now(D2, S2)[p]) = <<>>
  <2>1. Now(D2, S2)[p] = D2[p]
    BY <1>12, <1>16 DEF Now
  <2> QED BY <1>5, <1>10, <2>1, NoText
<1>18. fs2 = Store!With(FilesNow, <<p[1], n>>, <<>>)
  <2>1. fs2 = Store!With(FilesNow, PathOf(D2, p), Text(U, data, Now(D2, S2)[p]))
    BY <1>8, <1>9, <1>11, <1>12, <1>15, FileAdded
  <2> QED BY <1>11, <1>17, <2>1
<1>19. un2 = UnsavedNow
  <2>1. DirtyAt(sft, p) = {}
    BY <1>14, <1>16
  <2>2. /\ \A q : q \in un2 <=> \E i \in Used(D2) : q = PathOf(D2, i) /\ DirtyAt(S2, i) # {}
        /\ \A q : q \in UnsavedNow <=> \E i \in Used(dir) : q = PathOf(dir, i) /\ DirtyAt(sft, i) # {}
    BY <1>8, <1>9 DEF UnsavedAre
  <2>3. ASSUME NEW q \in un2 PROVE q \in UnsavedNow
    <3>1. PICK i \in Used(D2) : q = PathOf(D2, i) /\ DirtyAt(S2, i) # {}
      BY <2>2, <2>3
    <3>2. i # p
      BY <1>16, <3>1
    <3> QED BY <1>14, <1>15, <2>2, <3>1, <3>2
  <2>4. ASSUME NEW q \in UnsavedNow PROVE q \in un2
    <3>1. PICK i \in Used(dir) : q = PathOf(dir, i) /\ DirtyAt(sft, i) # {}
      BY <2>2, <2>4
    <3>2. i # p /\ i \in Used(D2)
      BY <1>12, <2>1, <3>1
    <3> QED BY <1>14, <1>15, <2>2, <3>1, <3>2
  <2> QED BY <2>3, <2>4
<1>20. Store!Unused(<<p[1], n>>)
  <2>1. \A s \in Slots : sft[s].open => PathOf(dir, sft[s].place) # <<p[1], n>>
    BY <1>9
  <2> QED BY <2>1, UnusedHandle
<1>21. \A s \in Slots : sft[s].open => PathOf(D2, sft[s].place) = PathOf(dir, sft[s].place)
  BY <1>9, <1>12, <1>15
<1>22. CASE FreeSft = {} /\ S2 = sft
  <2>1. HandlesAre(op2, D2, sft)
    BY <1>8, <1>22
  <2>2. op2 = OpenNow
    <3>1. PICK l : l \notin Slots
      <4>1. -1 \notin Slots
        BY DEF Slots
      <4> QED BY <4>1
    <3>2. OthersAlike(dir, sft, D2, sft, l)
      BY <1>21, <1>22 DEF OthersAlike
    <3> QED BY <1>9, <2>1, <3>1, <3>2, HandlesSame
  <2>3. DOMAIN OpenNow = Slots
    BY <1>9, <1>22 DEF HandlesAre, FreeSft
  <2>4. 0 \in Slots
    BY SizeAssumption DEF Slots
  <2> QED BY <1>7, <1>18, <1>19, <1>20, <2>2, <2>3, <2>4 DEF Store!Create
<1>23. ASSUME NEW l \in Slots, ~sft[l].open, S2[l] = e, \A s \in Slots : s # l => S2[s] = sft[s]
       PROVE  Store!Create(l, <<p[1], n>>)
  <2>1. OthersAlike(dir, sft, D2, S2, l)
    BY <1>21, <1>23 DEF OthersAlike
  <2>2. op2 = Store!With(OpenNow, l, [path |-> PathOf(D2, S2[l].place), pos |-> S2[l].pos])
    BY <1>4, <1>8, <1>9, <1>23, <2>1, HandleAdded
  <2>3. op2 = Store!With(OpenNow, l, [path |-> <<p[1], n>>, pos |-> 0])
    BY <1>4, <1>11, <1>23, <2>2
  <2>4. l \notin DOMAIN OpenNow
    BY <1>9, <1>23, HandleOf
  <2> QED BY <1>7, <1>18, <1>19, <1>20, <2>3, <2>4 DEF Store!Create
<1> QED BY <1>13, <1>22, <1>23

\* The file of the place p has the path y now, at p or at a place q that was free.
Relocated(p, q, y) ==
  /\ q = p \/ (~dir[q].used /\ ~dir'[p].used)
  /\ dir'[q].used /\ dir'[q].first = dir[p].first /\ dir'[q].size = dir[p].size
  /\ PathOf(dir', q) = y
  /\ \A i \in Places : i \notin {p, q} => dir'[i] = dir[i]
  /\ vol'.fat = vol.fat /\ data' = data /\ sft' = sft

\* A rename, within its directory or to another one, relocates its file.
LEMMA RenameRelocates ==
  ASSUME Careful, StoreInv, NEW d \in Dirs, NEW e \in Dirs, NEW old \in Names, NEW new \in Names,
         file_rename_path(d, old, e, new)
  PROVE  /\ PlaceOf(d, old) \in Used(dir) /\ PathOf(dir, PlaceOf(d, old)) = <<d, old>>
         /\ \A s \in Slots : ~(sft[s].open /\ sft[s].place = PlaceOf(d, old))
         /\ \A i \in Used(dir) : PathOf(dir, i) # <<e, new>>
         /\ \E q \in Places : Relocated(PlaceOf(d, old), q, <<e, new>>)
<1>1. PICK p : p = PlaceOf(d, old)
  OBVIOUS
<1>2. /\ OpenAt(p) = {} /\ data' = data /\ sft' = sft /\ Found(e, new) = {}
      /\ IF d = e THEN RenameInPlace(d, old, new) ELSE RenameAcross(d, old, e, new)
  BY <1>1 DEF file_rename_path
<1>3. p \in Used(dir) /\ p \in Places /\ dir[p].used /\ PathOf(dir, p) = <<d, old>> /\ p[1] = d
  <2>1. p \in Found(d, old)
    BY <1>1 DEF file_rename_path, PlaceOf
  <2> QED BY <2>1 DEF Found, Used, PathOf
<1>4. \A s \in Slots : ~(sft[s].open /\ sft[s].place = p)
  BY <1>2 DEF OpenAt
<1>5. \A i \in Used(dir) : PathOf(dir, i) # <<e, new>>
  BY <1>2 DEF Found, Used, PathOf
<1>6. dir \in [Places -> EntryType]
      /\ dir[p] \in [used : {TRUE}, name : Names, first : {0} \cup Clusters, size : 0..MaxSecs]
  BY <1>3, SeenNow, UsedPlaces
<1>7. PICK x : x = [dir[p] EXCEPT !.name = new]
  OBVIOUS
<1>8. x.used /\ x.name = new /\ x.first = dir[p].first /\ x.size = dir[p].size
  BY <1>6, <1>7
<1>9. CASE d = e
  <2>1. dir' = [dir EXCEPT ![p] = x] /\ vol' = vol
    BY <1>1, <1>2, <1>3, <1>6, <1>7, <1>9 DEF RenameInPlace
  <2>2. PICK E : E = dir'
    OBVIOUS
  <2>3. E[p] = x /\ \A i \in Places : i # p => E[i] = dir[i]
    BY <1>3, <1>6, <2>1, <2>2
  <2>4. PathOf(E, p) = <<e, new>>
    BY <1>3, <1>8, <1>9, <2>3 DEF PathOf
  <2>5. Relocated(p, p, <<e, new>>)
    BY <1>2, <1>8, <2>1, <2>2, <2>3, <2>4 DEF Relocated
  <2> QED BY <1>1, <1>3, <1>4, <1>5, <2>5
<1>10. CASE d # e
  <2>1. PICK q : q = FirstFree(e)
    OBVIOUS
  <2>2. /\ FreePlaces(e) # {} /\ vol' = fat_commit(vol)
        /\ dir' = [dir EXCEPT ![q] = x, ![p] = NoFile]
    BY <1>1, <1>2, <1>7, <1>10, <2>1 DEF RenameAcross
  <2>3. q \in Places /\ ~dir[q].used /\ q # p /\ q[1] = e
    BY <1>3, <2>1, <2>2, FreeFound
  <2>4. PICK E : E = dir'
    OBVIOUS
  <2>5. E[q] = x /\ ~E[p].used /\ \A i \in Places : i \notin {p, q} => E[i] = dir[i]
    BY <1>3, <1>6, <2>2, <2>3, <2>4 DEF NoFile
  <2>6. PathOf(E, q) = <<e, new>>
    BY <1>8, <2>3, <2>5 DEF PathOf
  <2>7. vol'.fat = vol.fat
    BY <2>2, CommitHeld DEF StoreInv, FileInv, Right, Good, Held
  <2>8. Relocated(p, q, <<e, new>>)
    BY <1>2, <1>8, <2>3, <2>4, <2>5, <2>6, <2>7 DEF Relocated
  <2> QED BY <1>1, <1>3, <1>4, <1>5, <2>3, <2>8
<1> QED BY <1>9, <1>10

\* The new path is no other file's.
LEMMA RenameNames ==
  ASSUME Careful, StoreInv, NEW d \in Dirs, NEW e \in Dirs, NEW old \in Names, NEW new \in Names,
         file_rename_path(d, old, e, new)
  PROVE  NamesApart(dir')
<1>1. PICK p : p = PlaceOf(d, old)
  OBVIOUS
<1>2. PICK q \in Places : Relocated(p, q, <<e, new>>)
  BY <1>1, RenameRelocates
<1>3. \A i \in Used(dir) : PathOf(dir, i) # <<e, new>>
  BY RenameRelocates
<1>4. p \in Used(dir) /\ NamesApart(dir)
  BY <1>1, RenameRelocates, SeenNow
<1>5. PICK D2 : D2 = dir'
  OBVIOUS
<1>6. /\ q = p \/ (~dir[q].used /\ ~D2[p].used)
      /\ D2[q].used /\ PathOf(D2, q) = <<e, new>>
      /\ \A i \in Places : i \notin {p, q} => D2[i] = dir[i]
  BY <1>2, <1>5 DEF Relocated
<1>7. \A i \in Used(D2) : i # q => PathOf(D2, i) = PathOf(dir, i) /\ i \in Used(dir)
  BY <1>6 DEF Used, PathOf
<1>8. \A i \in Used(D2) : i # q => PathOf(D2, i) # PathOf(D2, q)
  BY <1>3, <1>6, <1>7
<1>9. NamesApart(D2)
  BY <1>4, <1>7, <1>8, NamesStayApart
<1> QED BY <1>5, <1>9

\* A rename gives the file its new path and changes nothing else.
LEMMA RenameShows ==
  ASSUME Careful, StoreInv, StoreInv', NEW d \in Dirs, NEW e \in Dirs,
         NEW old \in Names, NEW new \in Names, file_rename_path(d, old, e, new)
  PROVE  Store!Rename(<<d, old>>, <<e, new>>)
<1>1. PICK p : p = PlaceOf(d, old)
  OBVIOUS
<1>2. /\ p \in Used(dir) /\ PathOf(dir, p) = <<d, old>>
      /\ \A s \in Slots : ~(sft[s].open /\ sft[s].place = p)
      /\ \A i \in Used(dir) : PathOf(dir, i) # <<e, new>>
  <2>1. PlaceOf(d, old) \in Used(dir) /\ PathOf(dir, PlaceOf(d, old)) = <<d, old>>
    BY RenameRelocates
  <2>2. \A s \in Slots : ~(sft[s].open /\ sft[s].place = PlaceOf(d, old))
    BY RenameRelocates
  <2>3. \A i \in Used(dir) : PathOf(dir, i) # <<e, new>>
    BY RenameRelocates
  <2> QED BY <1>1, <2>1, <2>2, <2>3
<1>3. PICK q \in Places : Relocated(p, q, <<e, new>>)
  BY <1>1, RenameRelocates
<1>4. PICK D2, un2, fs2, op2 :
        D2 = dir' /\ un2 = UnsavedNow' /\ fs2 = FilesNow' /\ op2 = OpenNow'
  OBVIOUS
<1>5. /\ q = p \/ (~dir[q].used /\ ~D2[p].used)
      /\ D2[q].used /\ D2[q].first = dir[p].first /\ D2[q].size = dir[p].size
      /\ PathOf(D2, q) = <<e, new>>
      /\ \A i \in Places : i \notin {p, q} => D2[i] = dir[i]
      /\ vol'.fat = vol.fat /\ data' = data /\ sft' = sft
  BY <1>3, <1>4 DEF Relocated
<1>6. /\ FilesAre(FilesNow, dir, vol.fat, data, sft) /\ UnsavedAre(UnsavedNow, dir, sft)
      /\ HandlesAre(OpenNow, dir, sft) /\ Agree(dir, sft)
      /\ dir \in [Places -> EntryType] /\ NamesApart(dir)
      /\ \A s \in Slots : sft[s].open => sft[s].place \in Used(dir)
  BY SeenNow
<1>7. /\ FilesAre(fs2, D2, vol.fat, data, sft) /\ UnsavedAre(un2, D2, sft)
      /\ HandlesAre(op2, D2, sft) /\ Agree(D2, sft)
      /\ D2 \in [Places -> EntryType] /\ NamesApart(D2)
  BY <1>4, <1>5, SeenNext
<1>8. p \in Places /\ dir[p].used
  BY <1>2 DEF Used
<1>9. /\ Used(D2) = (Used(dir) \ {p}) \cup {q} /\ q \in Used(D2) /\ q \notin Used(dir) \ {p}
      /\ \A i \in Used(dir) \ {p} : D2[i] = dir[i] /\ PathOf(D2, i) = PathOf(dir, i)
  BY <1>5, <1>8 DEF Used, PathOf
<1>10. DirtyAt(sft, p) = {} /\ DirtyAt(sft, q) = {}
  <2>1. \A s \in Slots : ~(sft[s].open /\ sft[s].place = q)
    BY <1>2, <1>5, <1>6 DEF Used
  <2> QED BY <1>2, <2>1 DEF DirtyAt
<1>11. Text(vol.fat, data, Now(D2, sft)[q]) = Text(vol.fat, data, Now(dir, sft)[p])
  <2>1. Now(D2, sft)[q] = D2[q] /\ Now(dir, sft)[p] = dir[p]
    BY <1>2, <1>9, <1>10 DEF Now
  <2> QED BY <1>5, <2>1, SameText
<1>12. \A i \in Used(dir) \ {p} :
         Text(vol.fat, data, Now(D2, sft)[i]) = Text(vol.fat, data, Now(dir, sft)[i])
  <2> TAKE i \in Used(dir) \ {p}
  <2>1. Now(D2, sft)[i] = Now(dir, sft)[i]
    BY <1>9 DEF Now
  <2> QED BY <2>1
<1>13. fs2 = Store!With(Store!Without(FilesNow, <<d, old>>), <<e, new>>, FilesNow[<<d, old>>])
  <2>1. fs2 = Store!With(Store!Without(FilesNow, PathOf(dir, p)), PathOf(D2, q),
                         FilesNow[PathOf(dir, p)])
    BY <1>2, <1>6, <1>7, <1>9, <1>11, <1>12, FileMoved
  <2> QED BY <1>2, <1>5, <2>1
<1>14. un2 = UnsavedNow
  <2>1. \A x : x \in un2 <=> \E i \in Used(D2) : x = PathOf(D2, i) /\ DirtyAt(sft, i) # {}
    BY <1>7 DEF UnsavedAre
  <2>2. \A x : x \in UnsavedNow <=> \E i \in Used(dir) : x = PathOf(dir, i) /\ DirtyAt(sft, i) # {}
    BY <1>6 DEF UnsavedAre
  <2>3. \A i \in Used(D2) : i # q => i \in Used(dir) \ {p}
    BY <1>9
  <2>4. \A i \in Used(dir) : i # p => i \in Used(D2) /\ PathOf(D2, i) = PathOf(dir, i)
    BY <1>9
  <2>5. \A x : x \in un2 => x \in UnsavedNow
    BY <1>10, <2>1, <2>2, <2>3, <2>4
  <2>6. \A x : x \in UnsavedNow => x \in un2
    BY <1>10, <2>1, <2>2, <2>4
  <2> QED BY <2>5, <2>6
<1>15. op2 = OpenNow
  <2>1. \A s \in Slots : sft[s].open => PathOf(D2, sft[s].place) = PathOf(dir, sft[s].place)
    BY <1>2, <1>6, <1>9
  <2>2. PICK l : l \notin Slots
    <3>1. -1 \notin Slots
      BY DEF Slots
    <3> QED BY <3>1
  <2>3. OthersAlike(dir, sft, D2, sft, l)
    BY <2>1 DEF OthersAlike
  <2> QED BY <1>6, <1>7, <2>2, <2>3, HandlesSame
<1>16. Store!Unused(<<d, old>>)
  <2>1. \A s \in Slots : sft[s].open => PathOf(dir, sft[s].place) # <<d, old>>
    BY <1>2, <1>6, PathsApart
  <2> QED BY <2>1, UnusedHandle
<1>17. <<d, old>> \in DOMAIN FilesNow /\ <<e, new>> \notin DOMAIN FilesNow
  <2>1. <<d, old>> \in DOMAIN FilesNow
    BY <1>2, <1>6, FileOf
  <2>2. DOMAIN FilesNow = {PathOf(dir, i) : i \in Used(dir)}
    BY <1>6 DEF FilesAre
  <2> QED BY <1>2, <2>1, <2>2
<1> QED BY <1>4, <1>13, <1>14, <1>15, <1>16, <1>17 DEF Store!Rename

\* Where a create writes its entry, and what holds of that place.
LEMMA CreateOverAt ==
  ASSUME StoreInv, NEW d \in Dirs, NEW n \in Names, CreateOver(d, n)
  PROVE  \E p \in Places, w \in VolType :
           /\ p[1] = d /\ CreateAt(p, n, w) /\ Cache(w)
           /\ \A s \in Slots : ~(sft[s].open /\ sft[s].place = p)
           /\ \A i \in Used(dir) : PathOf(dir, i) = <<d, n>> => i = p
           /\ dir[p].used => Without(w.fat, vol.fat, dir[p].first) /\ dir[p].name = n
           /\ ~dir[p].used => w = vol
<1>1. PICK p : p = PlaceOf(d, n)
  OBVIOUS
<1>2. PICK w : w = fat_free_chain(vol, dir[p].first)
  OBVIOUS
<1>3. ~share_conflict(p, Modes) /\ CreateAt(p, n, w)
  BY <1>1, <1>2 DEF CreateOver
<1>4. p \in Used(dir) /\ p \in Places /\ dir[p].used /\ p[1] = d /\ dir[p].name = n
  <2>1. p \in Found(d, n)
    BY <1>1 DEF CreateOver, PlaceOf
  <2> QED BY <2>1 DEF Found, Used
<1>5. \A s \in Slots : ~(sft[s].open /\ sft[s].place = p)
  <2> SUFFICES ASSUME NEW s \in Slots, sft[s].open, sft[s].place = p PROVE FALSE
    OBVIOUS
  <2>1. sft[s] \in OpenType
    BY OpenSlot DEF StoreInv
  <2>2. sft[s].mode \in Modes
    BY <2>1 DEF OpenType
  <2> QED BY <1>3, <2>2 DEF share_conflict, OpenAt
<1>6. w \in VolType /\ Cache(w) /\ Without(w.fat, vol.fat, dir[p].first)
  BY <1>2, <1>4, FreeEntry DEF StoreInv
<1>7. \A i \in Used(dir) : PathOf(dir, i) = <<d, n>> => i = p
  <2>1. PathOf(dir, p) = <<d, n>>
    BY <1>4 DEF PathOf
  <2> QED BY <1>4, <2>1, SeenNow, PathsApart
<1> QED BY <1>3, <1>4, <1>5, <1>6, <1>7

\* Where the create of a new file puts it.
LEMMA CreateNewAt ==
  ASSUME StoreInv, NEW d \in Dirs, NEW n \in Names, CreateNew(d, n)
  PROVE  \E p \in Places, w \in VolType :
           /\ p[1] = d /\ CreateAt(p, n, w) /\ Cache(w)
           /\ \A s \in Slots : ~(sft[s].open /\ sft[s].place = p)
           /\ \A i \in Used(dir) : PathOf(dir, i) = <<d, n>> => i = p
           /\ dir[p].used => Without(w.fat, vol.fat, dir[p].first) /\ dir[p].name = n
           /\ ~dir[p].used => w = vol
<1>1. PICK p : p = FirstFree(d)
  OBVIOUS
<1>2. CreateAt(p, n, vol) /\ p \in Places /\ ~dir[p].used /\ p[1] = d
  BY <1>1, FreeFound DEF CreateNew
<1>3. \A s \in Slots : ~(sft[s].open /\ sft[s].place = p)
  BY <1>2 DEF StoreInv, FileInv, Right, OpenRight
<1>4. vol \in VolType /\ Cache(vol)
  BY DEF StoreInv, FileInv, Right, Good
<1>5. \A i \in Used(dir) : PathOf(dir, i) # <<d, n>>
  BY DEF CreateNew, Found, Used, PathOf
<1> QED BY <1>2, <1>3, <1>4, <1>5

\* Creating a file leaves it empty; its names stay apart.
LEMMA CreatesShow ==
  ASSUME StoreInv, NEW d \in Dirs, NEW n \in Names, CreateOver(d, n) \/ CreateNew(d, n)
  PROVE  NamesApart(dir') /\ (StoreInv' => \E h \in Slots : Store!Create(h, <<d, n>>))
<1>1. PICK p \in Places, w \in VolType :
        /\ p[1] = d /\ CreateAt(p, n, w) /\ Cache(w)
        /\ \A s \in Slots : ~(sft[s].open /\ sft[s].place = p)
        /\ \A i \in Used(dir) : PathOf(dir, i) = <<d, n>> => i = p
        /\ dir[p].used => Without(w.fat, vol.fat, dir[p].first) /\ dir[p].name = n
        /\ ~dir[p].used => w = vol
  BY CreateOverAt, CreateNewAt
<1>2. \A i \in Used(dir) : PathOf(dir, i) = <<p[1], n>> => i = p
  BY <1>1
<1>3. NamesApart(dir')
  BY <1>1, <1>2, CreateNames
<1>4. ASSUME StoreInv' PROVE \E h \in Slots : Store!Create(h, <<p[1], n>>)
  BY <1>1, <1>2, <1>4, CreateShows
<1> QED BY <1>1, <1>3, <1>4

\* What is saved is all there after a power failure.
LEMMA PowerShows ==
  ASSUME StoreInv, StoreInv', PowerOff
  PROVE  Store!PowerOff
<1>1. vol' = Mounted(vol.disk) /\ dir' = dir /\ data' = data /\ \A s \in Slots : ~sft'[s].open
  BY DEF PowerOff, Closed
<1>2. Right(dir, vol, data, sft)
  BY DEF StoreInv, FileInv
<1>3. /\ Good(vol) /\ Laid(vol.disk, Entries(dir)) /\ vol.disk \in TableType /\ vol.fat \in TableType
      /\ Linked(vol.disk) /\ Extends(vol.fat, vol.disk) /\ vol'.fat = vol.disk
  BY <1>1, <1>2, BehindLinked, BehindExtends DEF Right, Good, VolType, Mounted
<1>4. PICK S2, fs2, un2, op2, T :
        S2 = sft' /\ fs2 = FilesNow' /\ un2 = UnsavedNow' /\ op2 = OpenNow' /\ T = vol.disk
  OBVIOUS
<1>5. /\ FilesAre(fs2, dir, T, data, S2) /\ UnsavedAre(un2, dir, S2) /\ HandlesAre(op2, dir, S2)
      /\ \A s \in Slots : ~S2[s].open
  BY <1>1, <1>3, <1>4, SeenNext
<1>6. /\ FilesAre(FilesNow, dir, vol.fat, data, sft) /\ UnsavedAre(UnsavedNow, dir, sft)
  BY SeenNow
<1>7. \A i : DirtyAt(S2, i) = {}
  BY <1>5 DEF DirtyAt
<1>8. un2 = {}
  BY <1>5, <1>7 DEF UnsavedAre
<1>9. op2 = [h \in {} |-> 0]
  <2>1. DOMAIN op2 = {} /\ op2 = [h \in DOMAIN op2 |-> op2[h]]
    BY <1>5 DEF HandlesAre
  <2> QED BY <2>1
<1>10. DOMAIN fs2 = DOMAIN FilesNow
  BY <1>5, <1>6 DEF FilesAre
<1>11. ASSUME NEW p \in DOMAIN FilesNow \ UnsavedNow PROVE fs2[p] = FilesNow[p]
  <2>1. PICK i \in Used(dir) : p = PathOf(dir, i)
    BY <1>6 DEF FilesAre
  <2>2. DirtyAt(sft, i) = {}
    BY <1>6, <1>11, <2>1 DEF UnsavedAre
  <2>3. Now(dir, S2)[i] = dir[i] /\ Now(dir, sft)[i] = dir[i]
    BY <1>7, <2>2 DEF Now
  <2>4. fs2[p] = Text(T, data, dir[i]) /\ FilesNow[p] = Text(vol.fat, data, dir[i])
    BY <1>5, <1>6, <2>1, <2>3 DEF FilesAre
  <2>5. PICK f : f = dir[i]
    OBVIOUS
  <2>6. /\ f.first \in {0} \cup Clusters /\ f.size \in Nat /\ f.first \in Link
        /\ Rooted(T, f.first) /\ Long(T, f.first, f.size)
    <3>1. /\ f.first \in {0} \cup Clusters /\ f.size \in Nat
          /\ Rooted(T, f.first) /\ Long(T, f.first, f.size)
      BY <1>3, <1>4, <2>5 DEF Laid, Entries
    <3> QED BY <3>1, FirstLink
  <2>7. \A k \in 0..MaxCluster :
          Chain(T, f.first)[k] \in Clusters => Chain(vol.fat, f.first)[k] = Chain(T, f.first)[k]
    BY <1>3, <1>4, <2>6, ChainExtends
  <2>8. Text(vol.fat, data, f) = Text(T, data, f)
    BY <1>3, <1>4, <2>6, <2>7, TextKeeps
  <2> QED BY <2>4, <2>5, <2>8
<1> QED BY <1>4, <1>8, <1>9, <1>10, <1>11 DEF Store!PowerOff

\* A file that is cut keeps what is before its new end.
LEMMA TextCut ==
  ASSUME NEW T \in TableType, Linked(T), NEW f, f.first \in {0} \cup Clusters, f.size \in Nat,
         Rooted(T, f.first), Long(T, f.first, f.size),
         NEW U, NEW e, e.size \in Nat, e.size <= f.size,
         \A k \in 0..MaxCluster :
           k * ClusterSecs < e.size => Chain(U, e.first)[k] = Chain(T, f.first)[k],
         NEW A
  PROVE  Text(U, A, e) = SubSeq(Text(T, A, f), 1, e.size)
<1>1. PICK x, y, z : x = Text(T, A, f) /\ y = Text(U, A, e) /\ z = SubSeq(x, 1, e.size)
  OBVIOUS
<1>2. PICK n \in Nat : n = e.size
  OBVIOUS
<1>3. /\ Len(x) = f.size /\ \A k \in 1..f.size : x[k] = SectorAt(T, A, f.first, k - 1)
      /\ \A k \in 1..n : y[k] = SectorAt(U, A, e.first, k - 1)
      /\ y = [k \in 1..n |-> y[k]]
  BY <1>1, <1>2, TextLength DEF Text
<1>4. ASSUME NEW k \in 1..n PROVE y[k] = x[k]
  <2>1. k - 1 \in Nat /\ k - 1 < f.size /\ k \in 1..f.size
    BY <1>2
  <2>2. PICK q \in Nat : q = (k - 1) \div ClusterSecs
    BY <2>1, DivSecs
  <2>3. q \in 0..MaxCluster
    BY <2>1, <2>2, SectorsInChain
  <2>4. q * ClusterSecs < e.size
    <3>1. q * ClusterSecs <= k - 1
      BY <2>1, <2>2, DivSecs
    <3>2. q * ClusterSecs \in Nat
      BY <2>2, Table
    <3> QED BY <1>2, <3>1, <3>2
  <2>5. Chain(U, e.first)[q] = Chain(T, f.first)[q]
    BY <2>3, <2>4
  <2>6. x[k] = SectorAt(T, A, f.first, k - 1) /\ y[k] = SectorAt(U, A, e.first, k - 1)
    BY <1>3, <2>1
  <2> QED BY <2>2, <2>5, <2>6 DEF SectorAt
<1>5. PICK S : S = {x[k] : k \in 1..n}
  OBVIOUS
<1>6. /\ z \in Seq(S) /\ Len(z) = n /\ \A k \in 1..n : z[k] = x[k]
  <2>1. \A k \in 1..n : x[k] \in S
    BY <1>5
  <2>2. PICK a \in Int : a = 1
    OBVIOUS
  <2>3. z = SubSeq(x, a, n) /\ \A k \in a..n : x[k] \in S
    BY <1>1, <1>2, <2>1, <2>2
  <2>4. /\ z \in Seq(S) /\ Len(z) = IF a <= n THEN n - a + 1 ELSE 0
        /\ \A k \in 1..n - a + 1 : z[k] = x[a + k - 1]
    BY <2>3, SubSeqProperties
  <2>5. Len(z) = n /\ n - a + 1 = n /\ \A k \in 1..n : a + k - 1 = k
    BY <2>2, <2>4
  <2> QED BY <2>4, <2>5
<1>7. z = [k \in 1..n |-> z[k]]
  BY <1>6
<1>8. y = z
  BY <1>3, <1>4, <1>6, <1>7
<1> QED BY <1>1, <1>8

\* A truncation cuts its file at the position of the handle and saves it.
LEMMA TruncateShows ==
  ASSUME StoreInv, StoreInv', NEW s \in Slots, file_truncate(s)
  PROVE  Store!Truncate(s)
<1>1. PICK cut : cut = Cut(sft[s], vol)
  OBVIOUS
<1>2. /\ sft[s].open /\ sft[s].mode.access # 0 /\ sft[s].pos < sft[s].size
      /\ file_flush(cut.f, cut.vol) /\ data' = data
      /\ sft' = [sft EXCEPT ![s] = [cut.f EXCEPT !.dirty = FALSE]]
  BY <1>1 DEF file_truncate, Writable, IsOpen
<1>3. PICK f, p : f = sft[s] /\ p = f.place
  OBVIOUS
<1>4. /\ f \in OpenType /\ Placed(vol.fat, f) /\ Good(vol) /\ p \in Used(dir) /\ dir[p].used
  BY <1>2, <1>3, OpenSlot DEF StoreInv
<1>5. vol \in VolType /\ Cache(vol) /\ Linked(vol.fat) /\ vol.fat \in TableType
  BY <1>4 DEF Good, VolType
<1>6. PICK w, g : w = cut.vol /\ g = cut.f
  OBVIOUS
<1>7. /\ w \in VolType /\ Cache(w) /\ Shrinks(w.fat, vol.fat, f.first)
      /\ g \in OpenType /\ g.dirty /\ g.open
      /\ g.place = p /\ g.first \in {0, f.first} /\ g.size = f.pos /\ g.pos = f.pos
      /\ \A k \in 0..MaxCluster : k * ClusterSecs < f.pos =>
           Chain(w.fat, g.first)[k] = Chain(vol.fat, f.first)[k]
  BY <1>1, <1>2, <1>3, <1>4, <1>5, <1>6, CutVol
<1>8. PICK e : e = [g EXCEPT !.dirty = FALSE]
  OBVIOUS
<1>9. /\ e.open /\ ~e.dirty /\ e.place = p /\ e.first = g.first /\ e.size = f.pos /\ e.pos = f.pos
  BY <1>7, <1>8 DEF OpenType
<1>10. PICK S2, D2, fs2, un2, op2, U :
         /\ S2 = sft' /\ D2 = dir' /\ fs2 = FilesNow' /\ un2 = UnsavedNow' /\ op2 = OpenNow'
         /\ U = w.fat
  OBVIOUS
<1>11. S2[s] = e /\ \A j \in Slots : j # s => S2[j] = sft[j]
  BY <1>2, <1>6, <1>8, <1>10, SeenNow
<1>12. vol'.fat = U /\ U \in TableType
  <2>1. vol' = fat_commit(w)
    BY <1>2, <1>6, <1>7 DEF file_flush
  <2> QED BY <1>7, <1>10, <2>1, CommitHeld DEF Held, VolType
<1>13. /\ FilesAre(FilesNow, dir, vol.fat, data, sft) /\ UnsavedAre(UnsavedNow, dir, sft)
       /\ HandlesAre(OpenNow, dir, sft) /\ Agree(dir, sft)
       /\ dir \in [Places -> EntryType] /\ NamesApart(dir)
       /\ \A j \in Slots : sft[j].open => sft[j].place \in Used(dir)
  BY SeenNow
<1>14. /\ FilesAre(fs2, D2, U, data, S2) /\ UnsavedAre(un2, D2, S2)
       /\ HandlesAre(op2, D2, S2) /\ Agree(D2, S2)
  BY <1>2, <1>10, <1>12, SeenNext
<1>15. /\ Used(D2) = Used(dir) /\ \A i \in Used(dir) : PathOf(D2, i) = PathOf(dir, i)
       /\ \A i \in Used(dir) : i # p => D2[i] = dir[i]
  <2>1. D2 = Saved(dir, p, g.first, g.size)
    BY <1>2, <1>4, <1>6, <1>7, <1>10 DEF file_flush, Flushed, Saved
  <2>2. PICK x \in {0} \cup Clusters : x = g.first
    BY <1>7 DEF OpenType
  <2>3. PICK y \in 0..MaxSecs : y = g.size
    BY <1>7 DEF OpenType
  <2>4. D2 = Saved(dir, p, x, y)
    BY <2>1, <2>2, <2>3
  <2>5. /\ Used(D2) = Used(dir) /\ D2[p].name = dir[p].name
        /\ \A i \in Places : i # p => D2[i] = dir[i]
    BY <1>4, <1>13, <2>4, SavedEntries
  <2> QED BY <2>5 DEF Used, PathOf
<1>16. \A j \in Slots : j # s => ~(sft[j].open /\ sft[j].place = p)
  BY <1>2, <1>3, <1>13 DEF Agree, OneWriter
<1>17. /\ DirtyAt(S2, p) = {} /\ \A i \in Used(dir) : i # p => DirtyAt(S2, i) = DirtyAt(sft, i)
  BY <1>3, <1>9, <1>11, <1>16 DEF DirtyAt
<1>18. Now(dir, sft)[p].first = f.first /\ Now(dir, sft)[p].size = f.size
  BY <1>2, <1>3, <1>4, <1>13, NowFields
<1>19. Now(D2, S2)[p].first = e.first /\ Now(D2, S2)[p].size = e.size
  <2>1. \A j \in Slots : S2[j].open /\ S2[j].place = p =>
          Now(D2, S2)[p].first = S2[j].first /\ Now(D2, S2)[p].size = S2[j].size
    BY <1>4, <1>14, <1>15, NowFields
  <2> QED BY <1>9, <1>11, <2>1
<1>20. \A i \in Used(dir) \ {p} :
         Text(U, data, Now(D2, S2)[i]) = Text(vol.fat, data, Now(dir, sft)[i])
  <2> TAKE i \in Used(dir) \ {p}
  <2>1. Right(dir, vol, data, sft) /\ Shrinks(U, vol.fat, Now(dir, sft)[p].first)
    BY <1>7, <1>10, <1>18 DEF StoreInv, FileInv
  <2>2. \A first, size : IsFile(dir, sft, i, first, size) => IsFile(D2, S2, i, first, size)
    BY <1>3, <1>11, <1>15, <1>17 DEF IsFile
  <2> QED BY <1>4, <1>12, <1>14, <1>15, <2>1, <2>2, OthersKept
<1>21. Text(U, data, Now(D2, S2)[p]) = SubSeq(Text(vol.fat, data, Now(dir, sft)[p]), 1, f.pos)
  <2>1. /\ f.first \in {0} \cup Clusters /\ f.size \in Nat /\ f.pos \in Nat
        /\ Rooted(vol.fat, f.first) /\ Long(vol.fat, f.first, f.size)
    <3>1. f.size \in 0..MaxSecs /\ f.pos \in 0..MaxSecs /\ f.first \in {0} \cup Clusters
      BY <1>4 DEF OpenType
    <3> QED BY <1>4, <3>1, InputAssumption DEF Placed
  <2>2. /\ e.size \in Nat /\ e.size <= f.size
        /\ \A k \in 0..MaxCluster :
             k * ClusterSecs < e.size => Chain(U, e.first)[k] = Chain(vol.fat, f.first)[k]
    BY <1>2, <1>3, <1>7, <1>9, <1>10, <2>1
  <2>3. Text(U, data, e) = SubSeq(Text(vol.fat, data, f), 1, e.size)
    BY <1>5, <2>1, <2>2, TextCut
  <2>4. Text(U, data, Now(D2, S2)[p]) = Text(U, data, e)
    BY <1>19, SameText
  <2>5. Text(vol.fat, data, Now(dir, sft)[p]) = Text(vol.fat, data, f)
    BY <1>18, SameText
  <2> QED BY <1>9, <2>3, <2>4, <2>5
<1>22. PICK x : x = PathOf(dir, p)
  OBVIOUS
<1>23. /\ x \in DOMAIN FilesNow /\ DOMAIN fs2 = DOMAIN FilesNow
       /\ fs2 = [y \in DOMAIN fs2 |-> fs2[y]] /\ FilesNow = [y \in DOMAIN FilesNow |-> FilesNow[y]]
       /\ fs2[x] = SubSeq(FilesNow[x], 1, f.pos)
       /\ \A y \in DOMAIN FilesNow : y # x => fs2[y] = FilesNow[y]
  <2>1. FilesNow[x] = Text(vol.fat, data, Now(dir, sft)[p]) /\ x \in DOMAIN FilesNow
    BY <1>4, <1>13, <1>22 DEF FilesAre
  <2>2. /\ DOMAIN fs2 = DOMAIN FilesNow /\ fs2 = [y \in DOMAIN fs2 |-> fs2[y]]
        /\ FilesNow = [y \in DOMAIN FilesNow |-> FilesNow[y]]
        /\ fs2[PathOf(dir, p)] = Text(U, data, Now(D2, S2)[p])
        /\ \A y \in DOMAIN FilesNow : y # PathOf(dir, p) => fs2[y] = FilesNow[y]
    BY <1>4, <1>13, <1>14, <1>15, <1>20, FileChanged
  <2> QED BY <1>21, <1>22, <2>1, <2>2
<1>24. fs2 = [FilesNow EXCEPT ![x] = SubSeq(@, 1, f.pos)]
  BY <1>23
<1>25. un2 = UnsavedNow \ {x}
  <2>1. \A y : y \in un2 <=> \E i \in Used(dir) : y = PathOf(dir, i) /\ DirtyAt(S2, i) # {}
    BY <1>14, <1>15 DEF UnsavedAre
  <2>2. \A y : y \in UnsavedNow <=> \E i \in Used(dir) : y = PathOf(dir, i) /\ DirtyAt(sft, i) # {}
    BY <1>13 DEF UnsavedAre
  <2>3. \A i \in Used(dir) : PathOf(dir, i) = x => i = p
    BY <1>4, <1>13, <1>22, PathsApart
  <2>4. \A y : y \in un2 => y \in UnsavedNow /\ y # x
    BY <1>17, <2>1, <2>2, <2>3
  <2>5. \A y : y \in UnsavedNow /\ y # x => y \in un2
    BY <1>17, <1>22, <2>1, <2>2
  <2> QED BY <2>4, <2>5
<1>26. op2 = OpenNow
  <2>1. OthersAlike(dir, sft, D2, S2, s)
    BY <1>11, <1>13, <1>15 DEF OthersAlike
  <2>2. PICK l : l \notin Slots
    <3>1. -1 \notin Slots
      BY DEF Slots
    <3> QED BY <3>1
  <2>3. /\ S2[s].open /\ sft[s].open /\ PathOf(D2, S2[s].place) = PathOf(dir, sft[s].place)
        /\ S2[s].pos = sft[s].pos
    BY <1>2, <1>3, <1>4, <1>9, <1>11, <1>15
  <2>4. OthersAlike(dir, sft, D2, S2, l)
    BY <2>1, <2>3 DEF OthersAlike
  <2> QED BY <1>13, <1>14, <2>2, <2>4, HandlesSame
<1>27. /\ s \in DOMAIN OpenNow /\ OpenNow[s].path = x /\ OpenNow[s].pos = f.pos
       /\ Len(FilesNow[x]) = f.size
  <2>1. /\ s \in DOMAIN OpenNow /\ OpenNow[s].path = x /\ OpenNow[s].pos = f.pos
        /\ FilesNow[OpenNow[s].path] = Text(vol.fat, data, f) /\ f.size \in Nat
    BY <1>2, <1>3, <1>22, OpenFileSeen
  <2> QED BY <2>1, TextLength
<1> QED BY <1>2, <1>3, <1>10, <1>24, <1>25, <1>26, <1>27 DEF Store!Truncate

\* A write to one file leaves the clusters of the others alone.
LEMMA OthersUntouched ==
  ASSUME NEW T, NEW F, Laid(T, F), NEW p \in DOMAIN F, NEW U \in TableType, Linked(U), Grows(U, T),
         NEW first \in {0} \cup Clusters, Rooted(U, first),
         F[p].first # 0 => first = F[p].first,
         F[p].first = 0 /\ first # 0 => T[first] = 0,
         NEW i \in DOMAIN F, i # p
  PROVE  \A c \in ClustersOf(T, F[i].first) : c \notin ClustersOf(U, first)
<1> SUFFICES ASSUME NEW c \in ClustersOf(T, F[i].first), c \in ClustersOf(U, first) PROVE FALSE
  OBVIOUS
<1>1. PICK x : x = F[i].first
  OBVIOUS
<1>2. /\ T \in TableType /\ Linked(T) /\ x \in {0} \cup Clusters /\ Rooted(T, x)
      /\ x = F[p].first /\ x # 0 => i = p
  BY <1>1 DEF Laid
<1>3. x \in Link /\ first \in Link
  BY <1>2, FirstLink
<1>4. x # 0
  BY <1>1, <1>2, NoChain
<1>5. Rooted(U, x) /\ Extends(U, T)
  BY <1>2, RootedGrows DEF Grows
<1>6. c \in ClustersOf(U, x)
  BY <1>1, <1>2, <1>3, <1>5, ClustersExtend
<1>7. PICK j \in 0..MaxCluster : c = Chain(U, x)[j] /\ c \in Clusters
  BY <1>6 DEF ClustersOf
<1>8. PICK k \in 0..MaxCluster : c = Chain(U, first)[k]
  BY DEF ClustersOf
<1>9. x = first
  <2>1. Chain(U, x)[j] = Chain(U, first)[k] /\ Chain(U, x)[j] \in Clusters
    BY <1>7, <1>8
  <2>2. PICK y : y = first
    OBVIOUS
  <2>3. Linked(U) /\ y \in Link /\ Rooted(U, y) /\ Chain(U, x)[j] = Chain(U, y)[k]
    BY <1>3, <2>1, <2>2
  <2>4. x = y
    BY <1>3, <1>5, <2>1, <2>3, ChainsApart
  <2> QED BY <2>2, <2>4
<1>10. x \in Clusters /\ T[x] # 0
  BY <1>2, <1>4 DEF Rooted
<1> QED BY <1>2, <1>4, <1>9, <1>10

\* What a write makes of the text of its file.
LEMMA TextWritten ==
  ASSUME NEW u, NEW f, NEW v, NEW A, NEW x, Wrote(u, f, v, A, x),
         f.pos \in Nat, f.size \in Nat, u.f.pos \in Nat, u.f.size \in Nat, f.pos <= u.f.pos
  PROVE  LET new == Text(u.vol.fat, u.data, u.f)
             old == Text(v.fat, A, f)
             k   == u.f.pos - f.pos
         IN  /\ Len(new) = IF k = 0 \/ f.pos + k < Len(old) THEN Len(old) ELSE f.pos + k
             /\ \A i \in 1..Len(new) :
                  IF i > f.pos /\ i <= f.pos + k THEN new[i] = x
                  ELSE i <= Len(old) => new[i] = old[i]
<1>1. PICK new, old, k : /\ new = Text(u.vol.fat, u.data, u.f) /\ old = Text(v.fat, A, f)
                         /\ k = u.f.pos - f.pos
  OBVIOUS
<1>2. /\ Len(new) = u.f.size
      /\ \A i \in 1..u.f.size : new[i] = SectorAt(u.vol.fat, u.data, u.f.first, i - 1)
  BY <1>1, TextLength
<1>3. Len(old) = f.size /\ \A i \in 1..f.size : old[i] = SectorAt(v.fat, A, f.first, i - 1)
  BY <1>1, TextLength
<1>4. k \in Nat /\ u.f.pos = f.pos + k
  BY <1>1
<1>5. Len(new) = IF k = 0 \/ f.pos + k < Len(old) THEN Len(old) ELSE f.pos + k
  BY <1>2, <1>3, <1>4 DEF Wrote
<1>6. ASSUME NEW i \in 1..Len(new)
      PROVE  IF i > f.pos /\ i <= f.pos + k THEN new[i] = x
             ELSE i <= Len(old) => new[i] = old[i]
  <2>1. PICK m \in Nat : m = i - 1
    OBVIOUS
  <2>2. /\ m < u.f.size /\ (i > f.pos /\ i <= f.pos + k <=> f.pos <= m /\ m < u.f.pos)
        /\ (i <= f.size <=> m < f.size) /\ i \in 1..u.f.size
    BY <1>2, <1>4, <2>1
  <2>3. new[i] = SectorAt(u.vol.fat, u.data, u.f.first, m)
    BY <1>2, <2>1, <2>2
  <2>4. i <= f.size => old[i] = SectorAt(v.fat, A, f.first, m)
    BY <1>3, <2>1, <2>2
  <2>5. /\ f.pos <= m /\ m < u.f.pos => SectorAt(u.vol.fat, u.data, u.f.first, m) = x
        /\ ~(f.pos <= m /\ m < u.f.pos) /\ m < f.size =>
             SectorAt(u.vol.fat, u.data, u.f.first, m) = SectorAt(v.fat, A, f.first, m)
    BY <2>2 DEF Wrote
  <2> QED BY <1>3, <2>2, <2>3, <2>4, <2>5
<1> QED BY <1>1, <1>5, <1>6

\* A write changes its file from the position on, and no other file.
LEMMA WriteShows ==
  ASSUME StoreInv, StoreInv', NEW s \in Slots, NEW v \in Vals, NEW n \in Counts,
         f40_write(s, v, n)
  PROVE  Store!Write(s, v, n)
<1>1. PICK t : t = file_do_write(s, v, n)
  OBVIOUS
<1>2. /\ sft[s].open /\ sft[s].mode.access # 0 /\ sft[s].pos + n <= MaxSecs
      /\ sft' = [sft EXCEPT ![s] = t.f] /\ vol' = t.vol /\ data' = t.data /\ dir' = dir
  BY <1>1 DEF f40_write, Writable, IsOpen
<1>3. PICK f, p : f = sft[s] /\ p = f.place
  OBVIOUS
<1>4. /\ f \in OpenType /\ Placed(vol.fat, f) /\ Good(vol) /\ data \in DataType
      /\ p \in Used(dir) /\ n \in Nat
  BY <1>2, <1>3, OpenSlot, InputAssumption DEF StoreInv
<1>5. /\ Moving(t, f, vol) /\ Wrote(t, f, vol, data, v)
      /\ f.pos <= t.f.pos /\ t.f.pos <= f.pos + n
  BY <1>1, <1>2, <1>3, <1>4, WriteMoves
<1>6. /\ t \in TransferType /\ Good(t.vol) /\ Grows(t.vol.fat, vol.fat) /\ Placed(t.vol.fat, t.f)
      /\ t.f \in OpenType /\ t.f.open /\ t.f.place = p
      /\ f.first # 0 => t.f.first = f.first
      /\ f.first = 0 /\ t.f.first # 0 => vol.fat[t.f.first] = 0
      /\ ~t.f.dirty => ~f.dirty
  BY <1>3, <1>5 DEF Moving, TransferType, OpenType, Grown
<1>7. /\ f.pos \in Nat /\ f.size \in Nat /\ t.f.pos \in Nat /\ t.f.size \in Nat
      /\ f.first \in {0} \cup Clusters /\ t.f.first \in {0} \cup Clusters
  <2>1. /\ f.pos \in 0..MaxSecs /\ f.size \in 0..MaxSecs /\ t.f.pos \in 0..MaxSecs
        /\ t.f.size \in 0..MaxSecs /\ f.first \in {0} \cup Clusters /\ t.f.first \in {0} \cup Clusters
    BY <1>4, <1>6 DEF OpenType
  <2> QED BY <2>1, InputAssumption
<1>8. PICK S2, fs2, un2, op2, T, U, B, e :
        /\ S2 = sft' /\ fs2 = FilesNow' /\ un2 = UnsavedNow' /\ op2 = OpenNow'
        /\ T = vol.fat /\ U = t.vol.fat /\ B = t.data /\ e = t.f
  OBVIOUS
<1>9. S2[s] = e /\ \A j \in Slots : j # s => S2[j] = sft[j]
  BY <1>2, <1>8, SeenNow
<1>10. /\ FilesAre(FilesNow, dir, T, data, sft) /\ UnsavedAre(UnsavedNow, dir, sft)
       /\ HandlesAre(OpenNow, dir, sft) /\ Agree(dir, sft)
       /\ dir \in [Places -> EntryType] /\ NamesApart(dir)
       /\ \A j \in Slots : sft[j].open => sft[j].place \in Used(dir)
  BY <1>8, SeenNow
<1>11. /\ FilesAre(fs2, dir, U, B, S2) /\ UnsavedAre(un2, dir, S2)
       /\ HandlesAre(op2, dir, S2) /\ Agree(dir, S2)
  BY <1>2, <1>8, SeenNext
<1>12. \A j \in Slots : j # s => ~(sft[j].open /\ sft[j].place = p)
  BY <1>2, <1>3, <1>10 DEF Agree, OneWriter
<1>13. e.open /\ e.place = p /\ f = sft[s] /\ f.open
  BY <1>2, <1>3, <1>6, <1>8
<1>14. /\ DirtyAt(S2, p) = IF e.dirty THEN {s} ELSE {}
       /\ DirtyAt(sft, p) = IF f.dirty THEN {s} ELSE {}
       /\ \A i \in Used(dir) : i # p => DirtyAt(S2, i) = DirtyAt(sft, i)
  BY <1>3, <1>9, <1>12, <1>13 DEF DirtyAt
<1>15. PICK F, F2 : F = Now(dir, sft) /\ F2 = Now(dir, S2)
  OBVIOUS
<1>16. F[p].first = f.first /\ F[p].size = f.size
  BY <1>2, <1>3, <1>4, <1>10, <1>15, NowFields
<1>17. F2[p].first = e.first /\ F2[p].size = e.size
  <2>1. \A j \in Slots : S2[j].open /\ S2[j].place = p => F2[p].first = S2[j].first /\ F2[p].size = S2[j].size
    BY <1>4, <1>11, <1>15, NowFields
  <2> QED BY <1>9, <1>13, <2>1
<1>18. Laid(T, F) /\ DOMAIN F = Used(dir)
  BY <1>8, <1>15 DEF StoreInv, FileInv, Right, Now
<1>19. /\ U \in TableType /\ Linked(U) /\ Grows(U, T) /\ Rooted(U, e.first) /\ Extends(U, T)
  BY <1>6, <1>8 DEF Good, VolType, Placed, Grows
<1>20. \A i \in Used(dir) \ {p} : Text(U, B, F2[i]) = Text(T, data, F[i])
  <2> TAKE i \in Used(dir) \ {p}
  <2>1. PICK g : g = F[i]
    OBVIOUS
  <2>2. /\ T \in TableType /\ Linked(T) /\ g.first \in {0} \cup Clusters /\ g.size \in Nat
        /\ Rooted(T, g.first) /\ Long(T, g.first, g.size)
    BY <1>18, <2>1 DEF Laid
  <2>3. F2[i].first = g.first /\ F2[i].size = g.size
    <3>1. IsFile(dir, sft, i, g.first, g.size)
      BY <1>10, <1>15, <2>1, NowIsFile
    <3>2. PICK x, y : x = g.first /\ y = g.size
      OBVIOUS
    <3>3. IsFile(dir, S2, i, x, y)
      BY <1>3, <1>9, <1>14, <3>1, <3>2 DEF IsFile
    <3> QED BY <1>11, <1>15, <3>2, <3>3, NowIs
  <2>4. \A c \in ClustersOf(T, g.first) : c \notin ClustersOf(U, e.first)
    <3>1. PICK x \in {0} \cup Clusters : x = e.first
      BY <1>7, <1>8
    <3>2. /\ Rooted(U, x) /\ (F[p].first # 0 => x = F[p].first)
          /\ (F[p].first = 0 /\ x # 0 => T[x] = 0)
      BY <1>6, <1>8, <1>16, <1>19, <3>1
    <3> QED BY <1>4, <1>18, <1>19, <2>1, <3>1, <3>2, OthersUntouched
  <2>5. \A c \in ClustersOf(T, g.first) : B[c] = data[c]
    <3>1. \A c \in Entry : c \notin ClustersOf(U, e.first) => B[c] = data[c]
      BY <1>5, <1>8 DEF Wrote
    <3> QED BY <2>4, <3>1, Table DEF ClustersOf
  <2>6. \A k \in 0..MaxCluster :
          Chain(T, g.first)[k] \in Clusters => Chain(U, g.first)[k] = Chain(T, g.first)[k]
    <3>1. g.first \in Link
      BY <2>2, FirstLink
    <3> QED BY <1>19, <2>2, <3>1, ChainExtends
  <2>7. Text(U, B, g) = Text(T, data, g)
    BY <2>2, <2>5, <2>6, TextKeeps
  <2> QED BY <2>1, <2>3, <2>7, SameText
<1>21. PICK x, k : x = PathOf(dir, p) /\ k = t.f.pos - f.pos
  OBVIOUS
<1>22. PICK new, old : new = Text(U, B, e) /\ old = Text(T, data, f)
  OBVIOUS
<1>23. /\ x \in DOMAIN FilesNow /\ DOMAIN fs2 = DOMAIN FilesNow
       /\ fs2[x] = new /\ FilesNow[x] = old
       /\ \A y \in DOMAIN FilesNow : y # x => fs2[y] = FilesNow[y]
  <2>1. FilesNow[x] = Text(T, data, F[p]) /\ x \in DOMAIN FilesNow
    BY <1>4, <1>10, <1>15, <1>21 DEF FilesAre
  <2>2. /\ DOMAIN fs2 = DOMAIN FilesNow
        /\ fs2[PathOf(dir, p)] = Text(U, B, F2[p])
        /\ \A y \in DOMAIN FilesNow : y # PathOf(dir, p) => fs2[y] = FilesNow[y]
    BY <1>4, <1>10, <1>11, <1>15, <1>20, FileChanged
  <2>3. Text(T, data, F[p]) = old /\ Text(U, B, F2[p]) = new
    BY <1>16, <1>17, <1>22, SameText
  <2> QED BY <1>21, <2>1, <2>2, <2>3
<1>24. /\ Len(new) = IF k = 0 \/ f.pos + k < Len(old) THEN Len(old) ELSE f.pos + k
       /\ \A i \in 1..Len(new) :
            IF i > f.pos /\ i <= f.pos + k THEN new[i] = v
            ELSE i <= Len(old) => new[i] = old[i]
  BY <1>5, <1>7, <1>8, <1>21, <1>22, TextWritten
<1>25. un2 = IF e.dirty THEN UnsavedNow \cup {x} ELSE UnsavedNow
  <2>1. \A y : y \in un2 <=> \E i \in Used(dir) : y = PathOf(dir, i) /\ DirtyAt(S2, i) # {}
    BY <1>11 DEF UnsavedAre
  <2>2. \A y : y \in UnsavedNow <=> \E i \in Used(dir) : y = PathOf(dir, i) /\ DirtyAt(sft, i) # {}
    BY <1>10 DEF UnsavedAre
  <2>3. e.dirty \/ ~f.dirty
    BY <1>6, <1>8
  <2>4. \A y : y \in un2 => y \in UnsavedNow \/ (e.dirty /\ y = x)
    BY <1>14, <1>21, <2>1, <2>2
  <2>5. \A y : y \in UnsavedNow => y \in un2
    BY <1>14, <2>1, <2>2, <2>3
  <2>6. e.dirty => x \in un2
    BY <1>4, <1>14, <1>21, <2>1
  <2> QED BY <2>4, <2>5, <2>6
<1>26. k \in 0..n /\ t.f.pos = f.pos + k /\ (k > 0 => e.dirty)
  <2>1. t.f.pos # f.pos => t.f.dirty
    BY <1>5 DEF Wrote
  <2> QED BY <1>4, <1>5, <1>7, <1>8, <1>21, <2>1
<1>27. op2 = [OpenNow EXCEPT ![s].pos = f.pos + k]
  <2>1. OthersAlike(dir, sft, dir, S2, s)
    BY <1>9 DEF OthersAlike
  <2>2. op2 = [OpenNow EXCEPT ![s].pos = S2[s].pos]
    BY <1>3, <1>9, <1>10, <1>11, <1>13, <2>1, HandleMoved
  <2> QED BY <1>8, <1>9, <1>26, <2>2
<1>28. s \in DOMAIN OpenNow /\ OpenNow[s].path = x /\ OpenNow[s].pos = f.pos
  BY <1>2, <1>3, <1>21, OpenFileSeen
<1>29. op2 = [OpenNow EXCEPT ![s].pos = @ + k]
  BY <1>27, <1>28
<1>30. /\ OpenNow' = [OpenNow EXCEPT ![s].pos = @ + k]
       /\ UnsavedNow' \in {UnsavedNow, UnsavedNow \cup {x}}
       /\ k > 0 => x \in UnsavedNow'
       /\ DOMAIN FilesNow' = DOMAIN FilesNow
       /\ \A q \in DOMAIN FilesNow \ {x} : FilesNow'[q] = FilesNow[q]
       /\ FilesNow'[x] = new /\ FilesNow[x] = old
  BY <1>8, <1>23, <1>25, <1>26, <1>29
<1> QED BY <1>24, <1>26, <1>28, <1>30, ZenonT(60) DEF Store!Write

\* The count of free clusters and the disk reset move only the cache.
LEMMA SearchShows ==
  ASSUME StoreInv, StoreInv', f36_freespace \/ f0d_diskreset
  PROVE  UNCHANGED Store!store
<1>1. vol \in VolType /\ Cache(vol)
  BY DEF StoreInv, FileInv, Right, Good
<1>2. MaxCluster \in Entry
  BY Table DEF Entry
<1>3. Held(Searched(vol, MaxCluster), vol) /\ Held(fat_commit(vol), vol)
  BY <1>1, <1>2, SearchedHeld, CommitHeld
<1>4. vol'.fat = vol.fat /\ UNCHANGED <<dir, data, sft>>
  BY <1>3 DEF f36_freespace, f0d_diskreset, Held
<1> QED BY <1>4, StutterShows

\* Entries that keep their names keep them apart.
LEMMA SameNames ==
  ASSUME NEW D, NamesApart(D), NEW D2, Used(D2) = Used(D),
         \A i \in Used(D) : PathOf(D2, i) = PathOf(D, i)
  PROVE  NamesApart(D2)
BY DEF NamesApart, PathOf

\* A call on an open file renames no entry.
LEMMA HandleNames ==
  ASSUME StoreInv, NEW s \in Slots, f3e_close(s) \/ f68_commit(s) \/ file_truncate(s)
  PROVE  NamesApart(dir')
<1>1. NamesApart(dir)
  BY DEF StoreInv
<1>2. ASSUME f3e_close(s) \/ f68_commit(s) PROVE NamesApart(dir')
  <2>1. sft[s].open /\ file_flush(sft[s], vol)
    BY <1>2 DEF f3e_close, f68_commit, IsOpen
  <2>2. PICK D : D = dir'
    OBVIOUS
  <2>3. Used(D) = Used(dir) /\ \A i \in Used(dir) : PathOf(D, i) = PathOf(dir, i)
    BY <2>1, <2>2, FlushSeen
  <2> QED BY <1>1, <2>2, <2>3, SameNames
<1>3. ASSUME file_truncate(s) PROVE NamesApart(dir')
  <2>1. PICK cut : cut = Cut(sft[s], vol)
    OBVIOUS
  <2>2. PICK w, g, f : w = cut.vol /\ g = cut.f /\ f = sft[s]
    OBVIOUS
  <2>3. /\ f.open /\ f.mode.access # 0 /\ f.pos < f.size /\ file_flush(g, w)
    BY <1>3, <2>1, <2>2 DEF file_truncate, Writable, IsOpen
  <2>4. /\ f \in OpenType /\ Placed(vol.fat, f) /\ Good(vol) /\ f.place \in Used(dir)
    BY <2>2, <2>3, OpenSlot DEF StoreInv
  <2>5. vol \in VolType /\ Cache(vol) /\ Linked(vol.fat) /\ vol.fat \in TableType
    BY <2>4 DEF Good, VolType
  <2>6. g \in OpenType /\ g.dirty /\ g.place = f.place
    BY <2>1, <2>2, <2>3, <2>4, <2>5, CutVol
  <2>7. PICK x \in {0} \cup Clusters : x = g.first
    BY <2>6 DEF OpenType
  <2>8. PICK y \in 0..MaxSecs : y = g.size
    BY <2>6 DEF OpenType
  <2>9. PICK p, D : p = f.place /\ D = dir'
    OBVIOUS
  <2>10. D = Saved(dir, p, x, y) /\ p \in Used(dir) /\ dir[p].used
    BY <2>3, <2>4, <2>6, <2>7, <2>8, <2>9 DEF file_flush, Flushed, Saved, Used
  <2>11. dir \in [Places -> EntryType]
    BY SeenNow
  <2>12. /\ Used(D) = Used(dir) /\ D[p].name = dir[p].name
         /\ \A i \in Places : i # p => D[i] = dir[i]
    BY <2>10, <2>11, SavedEntries
  <2>13. \A i \in Used(dir) : PathOf(D, i) = PathOf(dir, i)
    BY <2>12 DEF Used, PathOf
  <2> QED BY <1>1, <2>9, <2>12, <2>13, SameNames
<1> QED BY <1>2, <1>3

\* The other calls leave the entries as they are.
LEMMA QuietNames ==
  ASSUME StoreInv, dir' = dir
  PROVE  NamesApart(dir')
BY DEF StoreInv

\* No directory gets a name twice.
LEMMA StoreInvStep ==
  ASSUME Careful, ExclusiveWriters, StoreInv, [Next]_vars
  PROVE  StoreInv'
<1>1. FileInv'
  BY FileInvStep DEF StoreInv
<1>2. NamesApart(dir')
  <2>1. ASSUME NEW d \in Dirs, NEW n \in Names, NEW m \in OpenModes, f3d_open(d, n, m)
        PROVE  NamesApart(dir')
    BY <2>1, QuietNames DEF f3d_open
  <2>2. ASSUME NEW d \in Dirs, NEW n \in Names, CreateOver(d, n) \/ CreateNew(d, n)
        PROVE  NamesApart(dir')
    BY <2>2, CreatesShow
  <2>3. ASSUME NEW s \in Slots, f3e_close(s) \/ f68_commit(s) \/ file_truncate(s)
        PROVE  NamesApart(dir')
    BY <2>3, HandleNames
  <2>4. ASSUME NEW s \in Slots, NEW n \in Counts, f3f_read(s, n) PROVE NamesApart(dir')
    BY <2>4, QuietNames DEF f3f_read
  <2>5. ASSUME NEW s \in Slots, NEW v \in Vals, NEW n \in Counts, f40_write(s, v, n)
        PROVE  NamesApart(dir')
    BY <2>5, QuietNames DEF f40_write
  <2>6. ASSUME NEW s \in Slots, NEW pos \in Positions, f42_seek(s, pos) PROVE NamesApart(dir')
    BY <2>6, QuietNames DEF f42_seek
  <2>7. ASSUME NEW d \in Dirs, NEW n \in Names, file_unlink_path(d, n) PROVE NamesApart(dir')
    BY <2>7, UnlinkNames
  <2>8. ASSUME NEW d \in Dirs, NEW e \in Dirs, NEW n \in Names, NEW m \in Names,
               file_rename_path(d, n, e, m)
        PROVE  NamesApart(dir')
    BY <2>8, RenameNames
  <2>9. ASSUME f36_freespace \/ f0d_diskreset \/ PowerOff \/ UNCHANGED vars PROVE NamesApart(dir')
    BY <2>9, QuietNames DEF f36_freespace, f0d_diskreset, PowerOff, vars
  <2> QED BY <2>1, <2>2, <2>3, <2>4, <2>5, <2>6, <2>7, <2>8, <2>9 DEF Next
<1> QED BY <1>1, <1>2 DEF StoreInv

\* Every step is a call of the store of files, or changes nothing of it.
LEMMA StoreStep ==
  ASSUME Careful, StoreInv, StoreInv', [Next]_vars
  PROVE  Store!Next \/ UNCHANGED Store!store
<1>1. ASSUME NEW d \in Dirs, NEW n \in Names, NEW m \in OpenModes, f3d_open(d, n, m)
      PROVE  Store!Next
  <2>1. Store!Open(LowestSft, <<d, n>>)
    BY <1>1, OpenShows
  <2>2. LowestSft \in Slots
    BY <1>1, SlotFound DEF f3d_open
  <2>3. <<d, n>> \in Dirs \X Names
    OBVIOUS
  <2> QED BY <2>1, <2>2, <2>3 DEF Store!Next
<1>2. ASSUME NEW d \in Dirs, NEW n \in Names, CreateOver(d, n) \/ CreateNew(d, n)
      PROVE  Store!Next
  <2>1. \E h \in Slots : Store!Create(h, <<d, n>>)
    BY <1>2, CreatesShow
  <2>2. <<d, n>> \in Dirs \X Names
    OBVIOUS
  <2> QED BY <2>1, <2>2 DEF Store!Next
<1>3. ASSUME NEW s \in Slots, f3e_close(s) PROVE Store!Next
  BY <1>3, CloseShows DEF Store!Next
<1>4. ASSUME NEW s \in Slots, f68_commit(s) PROVE Store!Next
  BY <1>4, CommitShows DEF Store!Next
<1>5. ASSUME NEW s \in Slots, file_truncate(s) PROVE Store!Next
  BY <1>5, TruncateShows DEF Store!Next
<1>6. ASSUME NEW s \in Slots, NEW n \in Counts, f3f_read(s, n) PROVE Store!Next
  BY <1>6, ReadShows DEF Store!Next
<1>7. ASSUME NEW s \in Slots, NEW v \in Vals, NEW n \in Counts, f40_write(s, v, n)
      PROVE  Store!Next
  BY <1>7, WriteShows DEF Store!Next
<1>8. ASSUME NEW s \in Slots, NEW pos \in Positions, f42_seek(s, pos) PROVE Store!Next
  BY <1>8, SeekShows DEF Store!Next
<1>9. ASSUME NEW d \in Dirs, NEW n \in Names, file_unlink_path(d, n) PROVE Store!Next
  <2>1. <<d, n>> \in Dirs \X Names /\ Store!Delete(<<d, n>>)
    BY <1>9, UnlinkShows
  <2> QED BY <2>1 DEF Store!Next
<1>10. ASSUME NEW d \in Dirs, NEW e \in Dirs, NEW n \in Names, NEW m \in Names,
              file_rename_path(d, n, e, m)
       PROVE  Store!Next
  <2>1. /\ <<d, n>> \in Dirs \X Names /\ <<e, m>> \in Dirs \X Names
        /\ Store!Rename(<<d, n>>, <<e, m>>)
    BY <1>10, RenameShows
  <2> QED BY <2>1 DEF Store!Next
<1>11. ASSUME f36_freespace \/ f0d_diskreset PROVE UNCHANGED Store!store
  BY <1>11, SearchShows
<1>12. ASSUME PowerOff PROVE Store!Next
  BY <1>12, PowerShows DEF Store!Next
<1>13. ASSUME UNCHANGED vars PROVE UNCHANGED Store!store
  <2>1. UNCHANGED <<dir, data, sft>> /\ vol'.fat = vol.fat
    BY <1>13 DEF vars
  <2> QED BY <2>1, StutterShows
<1> QED
  BY <1>1, <1>2, <1>3, <1>4, <1>5, <1>6, <1>7, <1>8, <1>9, <1>10, <1>11, <1>12, <1>13 DEF Next

\* A disk that has just been formatted holds no file.
LEMMA StoreInvInit ==
  ASSUME Init
  PROVE  StoreInv /\ Store!Init
<1>1. FileInv
  BY FileInvInit
<1>2. \A i \in Places : ~dir[i].used
  BY DEF Init, NoFile
<1>3. Used(dir) = {}
  BY <1>2 DEF Used
<1>4. \A s \in Slots : ~sft[s].open
  BY DEF Init, Closed
<1>5. StoreInv
  BY <1>1, <1>3 DEF StoreInv, NamesApart
<1>6. /\ FilesAre(FilesNow, dir, vol.fat, data, sft) /\ UnsavedAre(UnsavedNow, dir, sft)
      /\ HandlesAre(OpenNow, dir, sft)
  BY <1>5, SeenNow
<1>7. FilesNow = [p \in {} |-> <<>>]
  <2>1. DOMAIN FilesNow = {} /\ FilesNow = [p \in DOMAIN FilesNow |-> FilesNow[p]]
    BY <1>3, <1>6 DEF FilesAre
  <2> QED BY <2>1
<1>8. OpenNow = [h \in {} |-> 0]
  <2>1. DOMAIN OpenNow = {} /\ OpenNow = [h \in DOMAIN OpenNow |-> OpenNow[h]]
    BY <1>4, <1>6 DEF HandlesAre
  <2> QED BY <2>1
<1>9. UnsavedNow = {}
  BY <1>3, <1>6 DEF UnsavedAre
<1> QED BY <1>5, <1>7, <1>8, <1>9 DEF Store!Init

----------------------------------------------------------------------------
(* Theorems.                                                               *)

\* Whatever is written, cut, deleted and renamed in whatever order, no cluster
\* serves two files or is free while a file needs it, every chain is whole and long
\* enough, and the cursor of every open file is on the cluster of its position
\* (file.c:55).
THEOREM FilesAreSound ==
  ASSUME Careful, ExclusiveWriters
  PROVE  Spec => []FilesSound
<1>1. FileInv => FilesSound
  BY InvSound
<1> QED BY <1>1, FileInvariant, PTL

\* The power can go between any two calls: the entries and the FAT on disk always
\* describe whole and disjoint files, although the FAT is written sector by sector
\* behind its cache and an entry only when its file is flushed (f16buf, fat.c).
THEOREM DiskIsSound ==
  ASSUME Careful, ExclusiveWriters
  PROVE  Spec => []DiskSound
<1>1. FileInv => DiskSound
  BY InvSound
<1> QED BY <1>1, FileInvariant, PTL

\* A read gives the file from its position on, wherever seeks, writes and
\* truncations left the cursor (file_do_read).
THEOREM ReadsAreBack ==
  ASSUME Careful, ExclusiveWriters
  PROVE  Spec => []ReadsBack
<1>1. FileInv => ReadsBack
  BY InvReads
<1> QED BY <1>1, FileInvariant, PTL

\* A write is short only when it leaves no free cluster (file.c:779).
THEOREM ShortWritesFill ==
  ASSUME Careful, ExclusiveWriters
  PROVE  Spec => []ShortOnlyWhenFull
<1>1. FileInv => ShortOnlyWhenFull
  BY InvShort
<1> QED BY <1>1, FileInvariant, PTL

\* No call loses a cluster, failed creates and writes included; only a power failure
\* does (fat.c:267).
THEOREM ClustersKept ==
  ASSUME Careful, ExclusiveWriters
  PROVE  Spec => NoLostCluster
<1>1. FileInv /\ [Next]_vars => [PowerOff \/ Lost' \subseteq Lost]_vars
  BY InvKeeps
<1> QED BY <1>1, FileInvariant, PTL DEF Spec, NoLostCluster

\* The calls on a FAT volume are those of the simple store of module FileStore: a
\* read gives what was written, at the position of its handle, a call changes no
\* file but its own, and a power failure loses no file and undoes nothing that was
\* saved (file.c, fat.c).
THEOREM FilesAreStored ==
  ASSUME Careful, ExclusiveWriters
  PROVE  Spec => StoreSpec
<1>1. Init => StoreInv /\ Store!Init
  BY StoreInvInit
<1>2. StoreInv /\ [Next]_vars => StoreInv'
  BY StoreInvStep
<1>3. StoreInv /\ StoreInv' /\ [Next]_vars => [Store!Next]_Store!store
  BY StoreStep
<1>4. Spec => []StoreInv
  BY <1>1, <1>2, PTL DEF Spec
<1> QED BY <1>1, <1>2, <1>3, PTL DEF Spec, StoreSpec, Store!Spec

=============================================================================
