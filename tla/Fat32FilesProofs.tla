-------------------------- MODULE Fat32FilesProofs --------------------------
(***************************************************************************)
(* Proofs about the files of Fat32: their chains of clusters, that they are *)
(* added whole and kept, and that the config file is found again.           *)
(***************************************************************************)
EXTENDS Fat32Proofs, SequenceTheorems

N == Cardinality(Clusters)

LEMMA ClustersFinite == IsFiniteSet(Clusters) /\ N \in Nat
<1>1. IsFiniteSet(Clusters)
  BY GeometryAssumption, FS_Interval DEF Clusters
<1> QED BY <1>1, FS_CardinalityType DEF N

(***************************************************************************)
(* Chains.                                                                  *)
(***************************************************************************)
\* The walk along a chain, one cluster further.
Further(ft, s, k) ==
    IF Len(s) = k /\ ft[s[Len(s)]] \in Clusters THEN Append(s, ft[s[Len(s)]]) ELSE s

\* The walk is defined for every number of clusters: by induction on that number.
LEMMA WalkIs ==
  ASSUME NEW ft, NEW head
  PROVE  /\ Walk(ft, head)[0] = <<head>>
         /\ \A k \in 1 .. N : Walk(ft, head)[k] = Further(ft, Walk(ft, head)[k - 1], k)
<1> DEFINE Body(f, n) == [k \in 0 .. n |-> IF k = 0 THEN <<head>> ELSE Further(ft, f[k - 1], k)]
           T == {n \in Nat : n <= N /\ ~ \E f : f = Body(f, n)}
<1>1. T = {}
  <2>1. SUFFICES ASSUME T # {} PROVE FALSE
    OBVIOUS
  <2>2. PICK n \in T : \A x \in T : n <= x
    <3>1. T \subseteq Nat
      OBVIOUS
    <3> HIDE DEF T
    <3> QED BY <2>1, <3>1, LeastNumber
  <2>3. CASE n = 0
    <3> DEFINE f == [k \in 0 .. 0 |-> <<head>>]
    <3>1. f = Body(f, 0)
      OBVIOUS
    <3> QED BY <2>2, <2>3, <3>1
  <2>4. CASE n # 0
    <3>1. n \in Nat \ {0} /\ n <= N /\ n - 1 \in Nat /\ n - 1 \notin T
      <4>1. n \in Nat /\ n <= N /\ N \in Nat
        BY <2>2, ClustersFinite
      <4>2. n - 1 \in Nat /\ ~ (n <= n - 1)
        BY <2>4, <4>1
      <4> HIDE DEF T
      <4> QED BY <2>2, <2>4, <4>1, <4>2
    <3>2. PICK f : f = Body(f, n - 1)
      BY <3>1, ClustersFinite
    <3> DEFINE g == [k \in 0 .. n |-> IF k = n THEN Further(ft, f[n - 1], n) ELSE f[k]]
    <3>3. ASSUME NEW k \in 0 .. n
          PROVE  g[k] = IF k = 0 THEN <<head>> ELSE Further(ft, g[k - 1], k)
      <4>1. CASE k = n
        <5>1. g[k] = Further(ft, f[n - 1], n) /\ g[k - 1] = f[n - 1]
          BY <3>1, <4>1
        <5> QED BY <3>1, <4>1, <5>1
      <4>2. CASE k # n
        <5>1. k \in 0 .. n - 1
          BY <4>2
        <5>2. f[k] = IF k = 0 THEN <<head>> ELSE Further(ft, f[k - 1], k)
          BY <3>2, <5>1
        <5>3. g[k] = f[k] /\ (k # 0 => g[k - 1] = f[k - 1])
          BY <5>1
        <5> QED BY <5>2, <5>3
      <4> QED BY <4>1, <4>2
    <3>4. g = Body(g, n)
      <4> HIDE DEF g
      <4>1. g = [k \in 0 .. n |-> g[k]]
        BY DEF g
      <4> QED BY <3>3, <4>1
    <3> QED BY <2>2, <3>4
  <2> QED BY <2>3, <2>4
<1>2. N \in Nat
  BY ClustersFinite
<1>3. PICK f : f = Body(f, N)
  BY <1>1, <1>2
<1>4. Walk(ft, head) = [k \in 0 .. N |-> IF k = 0 THEN <<head>> ELSE Further(ft, Walk(ft, head)[k - 1], k)]
  BY <1>3 DEF Walk, N, Further
<1> QED BY <1>2, <1>4

\* A sequence of clusters that goes on as the table says, to the end of the chain
\* or until it must repeat a cluster.
IsChain(ft, head, s) ==
    /\ s \in Seq(Clusters) /\ Len(s) \in 1 .. N + 1 /\ s[1] = head
    /\ \A i \in 1 .. Len(s) - 1 : s[i + 1] = ft[s[i]]
    /\ Len(s) = N + 1 \/ ft[s[Len(s)]] \notin Clusters

\* FileChain is such a sequence.
LEMMA ChainIs ==
  ASSUME NEW ft, NEW head \in Clusters
  PROVE  IsChain(ft, head, FileChain(ft, head))
<1> DEFINE w == Walk(ft, head)
           P(s, k) == /\ s \in Seq(Clusters) /\ Len(s) \in 1 .. k + 1 /\ s[1] = head
                      /\ \A i \in 1 .. Len(s) - 1 : s[i + 1] = ft[s[i]]
                      /\ Len(s) = k + 1 \/ ft[s[Len(s)]] \notin Clusters
           T == {k \in Nat : k <= N /\ ~ P(w[k], k)}
<1>0. N \in Nat
  BY ClustersFinite
<1>1. w[0] = <<head>> /\ \A k \in 1 .. N : w[k] = Further(ft, w[k - 1], k)
  BY WalkIs
<1> HIDE DEF w
<1>2. P(<<head>>, 0)
  OBVIOUS
<1>3. ASSUME NEW s, NEW k \in Nat \ {0}, P(s, k - 1) PROVE P(Further(ft, s, k), k)
  <2>1. /\ s \in Seq(Clusters) /\ Len(s) \in 1 .. k /\ s[1] = head
        /\ \A i \in 1 .. Len(s) - 1 : s[i + 1] = ft[s[i]]
        /\ Len(s) = k \/ ft[s[Len(s)]] \notin Clusters
    BY <1>3
  <2>2. CASE Len(s) = k /\ ft[s[Len(s)]] \in Clusters
    <3> DEFINE t == Append(s, ft[s[Len(s)]])
    <3>1. /\ t \in Seq(Clusters) /\ Len(t) = Len(s) + 1 /\ t[Len(s) + 1] = ft[s[Len(s)]]
          /\ \A i \in 1 .. Len(s) : t[i] = s[i]
      BY <2>1, <2>2
    <3>2. Further(ft, s, k) = t
      BY <2>2 DEF Further
    <3> HIDE DEF t
    <3>3. ASSUME NEW i \in 1 .. Len(t) - 1 PROVE t[i + 1] = ft[t[i]]
      <4>1. CASE i = Len(s)
        BY <2>1, <3>1, <4>1
      <4>2. CASE i # Len(s)
        <5>1. i \in 1 .. Len(s) - 1 /\ i \in 1 .. Len(s) /\ i + 1 \in 1 .. Len(s)
          BY <2>1, <3>1, <4>2
        <5> QED BY <2>1, <3>1, <5>1
      <4> QED BY <4>1, <4>2
    <3>4. Len(t) = k + 1 /\ Len(t) \in 1 .. k + 1 /\ t[1] = head
      BY <2>1, <2>2, <3>1
    <3> QED BY <3>1, <3>2, <3>3, <3>4
  <2>3. CASE ~ (Len(s) = k /\ ft[s[Len(s)]] \in Clusters)
    <3>1. Further(ft, s, k) = s
      BY <2>3 DEF Further
    <3>2. ft[s[Len(s)]] \notin Clusters
      BY <2>1, <2>3
    <3>3. Len(s) \in 1 .. k + 1
      BY <2>1
    <3> HIDE DEF Further
    <3> QED BY <2>1, <3>1, <3>2, <3>3
  <2> QED BY <2>2, <2>3
<1>4. ASSUME T # {} PROVE FALSE
  <2>1. PICK k \in T : \A x \in T : k <= x
    <3>1. T \subseteq Nat
      OBVIOUS
    <3> HIDE DEF T
    <3> QED BY <1>4, <3>1, LeastNumber
  <2>2. k \in Nat /\ k <= N /\ ~ P(w[k], k)
    BY <2>1
  <2>3. k # 0
    <3> HIDE DEF P
    <3> QED BY <1>1, <1>2, <2>2
  <2>4. k - 1 \in Nat /\ k - 1 <= N /\ ~ (k <= k - 1) /\ k \in 1 .. N /\ k \in Nat \ {0}
    BY <1>0, <2>2, <2>3
  <2>5. P(w[k - 1], k - 1)
    <3> HIDE DEF P
    <3> QED BY <2>1, <2>4
  <2>6. w[k] = Further(ft, w[k - 1], k)
    BY <1>1, <2>4
  <2> HIDE DEF P
  <2> QED BY <1>3, <2>2, <2>4, <2>5, <2>6
<1>5. P(w[N], N)
  <2> HIDE DEF P
  <2> QED BY <1>0, <1>4
<1>6. FileChain(ft, head) = w[N]
  BY DEF FileChain, w, N
<1> QED BY <1>5, <1>6 DEF IsChain

\* There is no other such sequence.
LEMMA ChainUnique ==
  ASSUME NEW ft, NEW head, NEW s, NEW t, IsChain(ft, head, s), IsChain(ft, head, t)
  PROVE  s = t
<1>1. /\ s \in Seq(Clusters) /\ Len(s) \in 1 .. N + 1 /\ s[1] = head
      /\ \A i \in 1 .. Len(s) - 1 : s[i + 1] = ft[s[i]]
      /\ Len(s) = N + 1 \/ ft[s[Len(s)]] \notin Clusters
      /\ t \in Seq(Clusters) /\ Len(t) \in 1 .. N + 1 /\ t[1] = head
      /\ \A i \in 1 .. Len(t) - 1 : t[i + 1] = ft[t[i]]
      /\ Len(t) = N + 1 \/ ft[t[Len(t)]] \notin Clusters
  BY DEF IsChain
<1>2. N \in Nat
  BY ClustersFinite
<1> DEFINE T == {i \in Nat : i \in 1 .. Len(s) /\ i <= Len(t) /\ s[i] # t[i]}
<1>3. ASSUME T # {} PROVE FALSE
  <2>1. PICK i \in T : \A x \in T : i <= x
    <3>1. T \subseteq Nat
      OBVIOUS
    <3> HIDE DEF T
    <3> QED BY <1>3, <3>1, LeastNumber
  <2>2. i \in 1 .. Len(s) /\ i <= Len(t) /\ s[i] # t[i] /\ i # 1
    BY <1>1, <2>1
  <2>3. i - 1 \in 1 .. Len(s) - 1 /\ i - 1 \in 1 .. Len(t) - 1 /\ (i - 1) + 1 = i
        /\ ~ (i <= i - 1) /\ i - 1 \in 1 .. Len(s) /\ i - 1 <= Len(t) /\ i - 1 \in Nat
    BY <1>1, <2>2
  <2>4. s[i - 1] = t[i - 1]
    BY <2>1, <2>3
  <2>5. s[i] = ft[s[i - 1]] /\ t[i] = ft[t[i - 1]]
    BY <1>1, <2>3
  <2> QED BY <2>2, <2>4, <2>5
<1>4. \A i \in 1 .. Len(s) : i <= Len(t) => s[i] = t[i]
  BY <1>1, <1>3
<1>5. ~ (Len(s) < Len(t))
  <2> SUFFICES ASSUME Len(s) < Len(t) PROVE FALSE
    OBVIOUS
  <2> DEFINE n == Len(s)
  <2>1. n \in 1 .. Len(t) - 1 /\ n \in 1 .. Len(s) /\ n <= Len(t) /\ n # N + 1 /\ n + 1 \in 1 .. Len(t)
    BY <1>1, <1>2
  <2>2. t[n + 1] = ft[t[n]] /\ s[n] = t[n] /\ t[n + 1] \in Clusters
    BY <1>1, <1>4, <2>1
  <2> QED BY <1>1, <2>1, <2>2
<1>6. ~ (Len(t) < Len(s))
  <2> SUFFICES ASSUME Len(t) < Len(s) PROVE FALSE
    OBVIOUS
  <2> DEFINE n == Len(t)
  <2>1. n \in 1 .. Len(s) - 1 /\ n \in 1 .. Len(s) /\ n <= Len(t) /\ n # N + 1 /\ n + 1 \in 1 .. Len(s)
    BY <1>1, <1>2
  <2>2. s[n + 1] = ft[s[n]] /\ s[n] = t[n] /\ s[n + 1] \in Clusters
    BY <1>1, <1>4, <2>1
  <2> QED BY <1>1, <2>1, <2>2
<1>7. Len(s) = Len(t)
  BY <1>1, <1>5, <1>6
<1> QED BY <1>1, <1>4, <1>7, SeqEqual

\* Of a chain, all clusters but the first are linked to.
LEMMA ChainLinked ==
  ASSUME NEW ft, NEW head, NEW s, IsChain(ft, head, s)
  PROVE  /\ \A i \in 1 .. Len(s) : s[i] \in Clusters
         /\ \A i \in 2 .. Len(s) : /\ i - 1 \in 1 .. Len(s) /\ s[i - 1] \in Clusters
                                   /\ s[i] = ft[s[i - 1]] /\ s[i] \in Linked(ft)
<1>1. /\ s \in Seq(Clusters)
      /\ \A i \in 1 .. Len(s) - 1 : s[i + 1] = ft[s[i]]
  BY DEF IsChain
<1>2. \A i \in 1 .. Len(s) : s[i] \in Clusters
  BY <1>1
<1>3. ASSUME NEW i \in 2 .. Len(s)
      PROVE  /\ i - 1 \in 1 .. Len(s) /\ s[i - 1] \in Clusters
             /\ s[i] = ft[s[i - 1]] /\ s[i] \in Linked(ft)
  <2>1. i - 1 \in 1 .. Len(s) - 1 /\ i - 1 \in 1 .. Len(s) /\ (i - 1) + 1 = i /\ i \in 1 .. Len(s)
    BY <1>1
  <2>2. s[i] = ft[s[i - 1]] /\ s[i - 1] \in Clusters /\ s[i] \in Clusters
    BY <1>1, <1>2, <2>1
  <2> QED BY <2>1, <2>2 DEF Linked
<1> QED BY <1>2, <1>3

\* Two chains whose first clusters nothing is linked to meet only if they are one,
\* and none meets itself.
LEMMA ChainsApart ==
  ASSUME NEW ft, LinksDistinct(ft), NEW h, NEW g, h \notin Linked(ft), g \notin Linked(ft),
         NEW s, NEW t, IsChain(ft, h, s), IsChain(ft, g, t)
  PROVE  \A i \in 1 .. Len(s), j \in 1 .. Len(t) : s[i] = t[j] => i = j /\ h = g
<1> DEFINE T == {i \in Nat : i \in 1 .. Len(s) /\ \E j \in 1 .. Len(t) : s[i] = t[j] /\ ~ (i = j /\ h = g)}
<1>1. /\ s[1] = h /\ t[1] = g /\ Len(s) \in Nat /\ Len(t) \in Nat
  BY DEF IsChain
<1>2. /\ \A i \in 1 .. Len(s) : s[i] \in Clusters
      /\ \A i \in 2 .. Len(s) : /\ i - 1 \in 1 .. Len(s) /\ s[i - 1] \in Clusters
                                /\ s[i] = ft[s[i - 1]] /\ s[i] \in Linked(ft)
  BY ChainLinked
<1>3. /\ \A i \in 1 .. Len(t) : t[i] \in Clusters
      /\ \A i \in 2 .. Len(t) : /\ i - 1 \in 1 .. Len(t) /\ t[i - 1] \in Clusters
                                /\ t[i] = ft[t[i - 1]] /\ t[i] \in Linked(ft)
  BY ChainLinked
<1>4. ASSUME T # {} PROVE FALSE
  <2>1. PICK i \in T : \A x \in T : i <= x
    <3>1. T \subseteq Nat
      OBVIOUS
    <3> HIDE DEF T
    <3> QED BY <1>4, <3>1, LeastNumber
  <2>2. i \in Nat /\ i \in 1 .. Len(s)
    BY <2>1
  <2>3. PICK j \in 1 .. Len(t) : s[i] = t[j] /\ ~ (i = j /\ h = g)
    BY <2>1
  <2>4. CASE i = 1
    <3>1. CASE j = 1
      BY <1>1, <2>3, <2>4, <3>1
    <3>2. CASE j # 1
      <4>1. j \in 2 .. Len(t)
        BY <1>1, <3>2
      <4> QED BY <1>1, <1>3, <2>3, <2>4, <4>1
    <3> QED BY <3>1, <3>2
  <2>5. CASE i # 1
    <3>0. i \in 2 .. Len(s)
      BY <1>1, <2>2, <2>5
    <3>1. CASE j = 1
      BY <1>1, <1>2, <2>3, <3>0, <3>1
    <3>2. CASE j # 1
      <4>1. j \in 2 .. Len(t)
        BY <1>1, <3>2
      <4>2. ft[s[i - 1]] = ft[t[j - 1]] /\ ft[s[i - 1]] \in Clusters
            /\ s[i - 1] \in Clusters /\ t[j - 1] \in Clusters
        BY <1>2, <1>3, <2>2, <2>3, <3>0, <4>1
      <4>3. s[i - 1] = t[j - 1]
        BY <4>2 DEF LinksDistinct
      <4>4. ~ (i - 1 = j - 1 /\ h = g) /\ i - 1 \in Nat /\ ~ (i <= i - 1)
            /\ i - 1 \in 1 .. Len(s) /\ j - 1 \in 1 .. Len(t)
        BY <1>1, <2>2, <2>3, <3>0, <4>1
      <4>5. i - 1 \in T
        BY <4>3, <4>4
      <4> HIDE DEF T
      <4> QED BY <2>1, <4>4, <4>5
    <3> QED BY <3>1, <3>2
  <2> QED BY <2>4, <2>5
<1>5. ASSUME NEW i \in 1 .. Len(s), NEW j \in 1 .. Len(t), s[i] = t[j] PROVE i = j /\ h = g
  BY <1>1, <1>4, <1>5
<1> QED BY <1>5

\* A chain does not repeat a cluster and so ends within the table.
LEMMA ChainEnds ==
  ASSUME NEW ft, LinksDistinct(ft), NEW h, h \notin Linked(ft), NEW s, IsChain(ft, h, s)
  PROVE  /\ Len(s) \in 1 .. N /\ ft[s[Len(s)]] \notin Clusters
         /\ \A i, j \in 1 .. Len(s) : s[i] = s[j] => i = j
<1>1. \A i, j \in 1 .. Len(s) : s[i] = s[j] => i = j
  BY ChainsApart
<1>2. /\ s \in Seq(Clusters) /\ Len(s) \in 1 .. N + 1
      /\ Len(s) = N + 1 \/ ft[s[Len(s)]] \notin Clusters
  BY DEF IsChain
<1>3. Len(s) # N + 1
  <2> SUFFICES ASSUME Len(s) = N + 1 PROVE FALSE
    OBVIOUS
  <2> DEFINE S1 == 1 .. Len(s)
  <2>1. Len(s) \in Int /\ N \in Nat /\ IsFiniteSet(Clusters) /\ N = Cardinality(Clusters)
    BY <1>2, ClustersFinite DEF N
  <2>2. IsFiniteSet(S1) /\ Cardinality(S1) = Len(s)
    BY <2>1, FS_Interval
  <2>3. s \in [S1 -> Clusters]
    BY <1>2
  <2> HIDE DEF S1
  <2>4. Cardinality(Clusters) < Cardinality(S1)
    BY <2>1, <2>2
  <2>5. \E x, y \in S1 : x # y /\ s[x] = s[y]
    BY <2>1, <2>2, <2>3, <2>4, FS_PigeonHole
  <2> QED BY <1>1, <2>5 DEF S1
<1> QED BY <1>1, <1>2, <1>3, ClustersFinite

\* A chain whose links stay is the same in the new table.
LEMMA ChainUnchanged ==
  ASSUME NEW ft, NEW new, NEW head \in Clusters,
         \A i \in 1 .. Len(FileChain(ft, head)) : new[FileChain(ft, head)[i]] = ft[FileChain(ft, head)[i]]
  PROVE  FileChain(new, head) = FileChain(ft, head)
<1> DEFINE s == FileChain(ft, head)
<1>1. IsChain(ft, head, s) /\ IsChain(new, head, FileChain(new, head))
  BY ChainIs
<1>2. \A i \in 1 .. Len(s) : new[s[i]] = ft[s[i]]
  OBVIOUS
<1> HIDE DEF s
<1>3. Len(s) \in Nat \ {0} /\ \A i \in 1 .. Len(s) - 1 : i \in 1 .. Len(s)
  BY <1>1, ClustersFinite DEF IsChain
<1>4. IsChain(new, head, s)
  BY <1>1, <1>2, <1>3 DEF IsChain
<1>5. FileChain(new, head) = s
  BY <1>1, <1>4, ChainUnique
<1> QED BY <1>5 DEF s

\* Linking a last cluster to the end of a chain makes the chain longer by it.
LEMMA ChainLonger ==
  ASSUME NEW ft \in [Clusters -> Entries], LinksDistinct(ft),
         NEW h \in Clusters, h \notin Linked(ft), NEW p \in Clusters, NEW c \in Clusters,
         FileChain(ft, h)[Len(FileChain(ft, h))] = p, ft[p] = NoCluster, ft[c] = NoCluster, c # p
  PROVE  /\ Len(FileChain(ft, h)) \in Nat
         /\ FileChain([ft EXCEPT ![p] = c], h) = Append(FileChain(ft, h), c)
<1> DEFINE s == FileChain(ft, h)
           new == [ft EXCEPT ![p] = c]
           t == Append(s, c)
<1>1. IsChain(ft, h, s) /\ IsChain(new, h, FileChain(new, h)) /\ s[Len(s)] = p
  BY ChainIs
<1>2. new[p] = c /\ new[c] = NoCluster /\ \A e \in Clusters : e # p => new[e] = ft[e]
  OBVIOUS
<1> HIDE DEF s, new
<1>3. /\ s \in Seq(Clusters) /\ s[1] = h /\ \A i \in 1 .. Len(s) - 1 : s[i + 1] = ft[s[i]]
  BY <1>1 DEF IsChain
<1>4. Len(s) \in 1 .. N /\ N \in Nat
  BY <1>1, ChainEnds, ClustersFinite
<1>5. /\ t \in Seq(Clusters) /\ Len(t) = Len(s) + 1 /\ t[Len(s) + 1] = c
      /\ \A i \in 1 .. Len(s) : t[i] = s[i]
  BY <1>3
<1> HIDE DEF t
<1>6. ASSUME NEW i \in 1 .. Len(t) - 1 PROVE t[i + 1] = new[t[i]]
  <2>1. i \in 1 .. Len(s)
    BY <1>4, <1>5
  <2>2. CASE i = Len(s)
    BY <1>1, <1>2, <1>5, <2>1, <2>2
  <2>3. CASE i # Len(s)
    <3>1. i \in 1 .. Len(s) - 1 /\ i + 1 \in 1 .. Len(s)
      BY <1>4, <2>1, <2>3
    <3>2. s[i + 1] = ft[s[i]] /\ s[i] \in Clusters /\ s[i + 1] \in Clusters
      BY <1>3, <2>1, <3>1
    <3>3. s[i] # p
      BY <3>2, ClusterNumbers
    <3> QED BY <1>2, <1>5, <2>1, <3>1, <3>2, <3>3
  <2> QED BY <2>2, <2>3
<1>7. Len(t) \in 1 .. N + 1 /\ t[1] = h /\ new[t[Len(t)]] \notin Clusters
  <2>1. Len(t) \in 1 .. N + 1
    BY <1>4, <1>5
  <2>2. 1 \in 1 .. Len(s)
    BY <1>4
  <2>3. t[1] = h
    BY <1>3, <1>5, <2>2
  <2>4. new[t[Len(t)]] = NoCluster
    BY <1>2, <1>5
  <2> QED BY <2>1, <2>3, <2>4, ClusterNumbers
<1>8. IsChain(new, h, t)
  BY <1>5, <1>6, <1>7 DEF IsChain
<1>9. FileChain(new, h) = t
  BY <1>1, <1>8, ChainUnique
<1>10. Len(s) \in Nat
  BY <1>4
<1> QED BY <1>9, <1>10 DEF s, t, new

\* The chain of a file that is alone on one cluster.
LEMMA ChainOfOne ==
  ASSUME NEW ft, NEW h \in Clusters, ft[h] = NoCluster
  PROVE  FileChain(ft, h) = <<h>>
<1>1. IsChain(ft, h, FileChain(ft, h))
  BY ChainIs
<1>2. 1 \in 1 .. N + 1
  BY ClustersFinite
<1>3. IsChain(ft, h, <<h>>)
  BY <1>2, ClusterNumbers DEF IsChain
<1> QED BY <1>1, <1>3, ChainUnique

(***************************************************************************)
(* Files.                                                                   *)
(***************************************************************************)
\* The clusters of the chain from `head'.
OnChain(ft, head) == {FileChain(ft, head)[i] : i \in DOMAIN FileChain(ft, head)}

FileAt(d, ft, s) == [place |-> s, name |-> d[s].name, chain |-> FileChain(ft, d[s].head)]

LEMMA FilesAre ==
  ASSUME NEW d, NEW ft
  PROVE  Files(d, ft) = {FileAt(d, ft, s) : s \in Live(d)}
BY DEF Files, FileAt

LEMMA FileIs ==
  ASSUME NEW d, NEW ft, NEW s
  PROVE  /\ FileAt(d, ft, s).place = s /\ FileAt(d, ft, s).name = d[s].name
         /\ FileAt(d, ft, s).chain = FileChain(ft, d[s].head)
         /\ Store!ChainOf(FileAt(d, ft, s)) = OnChain(ft, d[s].head)
         /\ ClustersOf(FileAt(d, ft, s)) = OnChain(ft, d[s].head)
BY DEF FileAt, OnChain, Store!ChainOf, ClustersOf

\* A chain that starts in use has no free cluster.
LEMMA OnChainInUse ==
  ASSUME NEW ft, LinksInUse(ft), NEW head, head \in Clusters => ft[head] # Free
  PROVE  /\ OnChain(ft, head) \subseteq Clusters
         /\ \A c \in OnChain(ft, head) : ft[c] # Free /\ (c = head \/ c \in Linked(ft))
<1>1. CASE head \notin Clusters
  BY <1>1 DEF OnChain, FileChain
<1>2. CASE head \in Clusters
  <2> DEFINE s == FileChain(ft, head)
  <2>1. IsChain(ft, head, s)
    BY <1>2, ChainIs
  <2>2. OnChain(ft, head) = {s[i] : i \in DOMAIN s}
    BY DEF OnChain
  <2> HIDE DEF s
  <2>3. DOMAIN s = 1 .. Len(s) /\ s[1] = head /\ Len(s) \in Nat
    BY <2>1 DEF IsChain
  <2>4. ASSUME NEW i \in 1 .. Len(s)
        PROVE  s[i] \in Clusters /\ ft[s[i]] # Free /\ (s[i] = head \/ s[i] \in Linked(ft))
    <3>1. s[i] \in Clusters /\ (i \in 2 .. Len(s) => s[i] \in Linked(ft))
      BY <2>1, ChainLinked
    <3>2. CASE i = 1
      BY <1>2, <2>3, <3>2
    <3>3. CASE i # 1
      <4>1. i \in 2 .. Len(s)
        BY <2>3, <3>3
      <4> QED BY <3>1, <4>1 DEF LinksInUse
    <3> QED BY <3>2, <3>3
  <2> QED BY <2>2, <2>3, <2>4
<1> QED BY <1>1, <1>2

\* Chains from different clusters that nothing is linked to have none in common.
LEMMA OnChainApart ==
  ASSUME NEW ft, LinksDistinct(ft), NEW h, NEW g, h \notin Linked(ft), g \notin Linked(ft), h # g
  PROVE  OnChain(ft, h) \cap OnChain(ft, g) = {}
<1>1. CASE h \in Clusters /\ g \in Clusters
  <2> DEFINE s == FileChain(ft, h)
             t == FileChain(ft, g)
  <2>1. IsChain(ft, h, s) /\ IsChain(ft, g, t)
    BY <1>1, ChainIs
  <2>2. OnChain(ft, h) = {s[i] : i \in DOMAIN s} /\ OnChain(ft, g) = {t[i] : i \in DOMAIN t}
    BY DEF OnChain
  <2> HIDE DEF s, t
  <2>3. DOMAIN s = 1 .. Len(s) /\ DOMAIN t = 1 .. Len(t)
    BY <2>1 DEF IsChain
  <2>4. \A i \in 1 .. Len(s), j \in 1 .. Len(t) : s[i] # t[j]
    BY <2>1, ChainsApart
  <2> QED BY <2>2, <2>3, <2>4
<1>2. CASE h \notin Clusters \/ g \notin Clusters
  BY <1>2 DEF OnChain, FileChain
<1> QED BY <1>1, <1>2

\* Heads of files are in use and not linked to.
LEMMA HeadsOfFiles ==
  ASSUME NEW d \in [Slots -> Record], NEW ft \in [Clusters -> Entries], SoundTable(d, ft), NEW s \in Live(d)
  PROVE  /\ s \in Slots /\ d[s].head \in Entries
         /\ d[s].head \in Clusters => d[s].head \in Heads(d) /\ ft[d[s].head] # Free
         /\ d[s].head \notin Linked(ft)
         /\ \A t \in Live(d) : t # s /\ d[s].head \in Clusters => d[s].head # d[t].head
<1>1. s \in Slots
  BY DEF Live
<1>2. d[s].head \in Entries
  BY <1>1 DEF Record
<1>3. d[s].head \in Clusters => d[s].head \in Heads(d)
  BY DEF Heads
<1>4. Linked(ft) \subseteq Clusters
  BY DEF Linked
<1> QED BY <1>1, <1>2, <1>3, <1>4 DEF SoundTable, HeadsInUse, HeadsDistinct

\* On a sound table no two files have a cluster in common, nor has one it twice.
LEMMA FilesApart ==
  ASSUME NEW d \in [Slots -> Record], NEW ft \in [Clusters -> Entries], SoundTable(d, ft)
  PROVE  /\ \A file \in Files(d, ft) : Store!ChainOf(file) \subseteq Clusters /\ Store!NoRepeat(file.chain)
         /\ \A f, g \in Files(d, ft) :
               f # g => f.place # g.place /\ Store!ChainOf(f) \cap Store!ChainOf(g) = {}
<1>0. LinksInUse(ft) /\ LinksDistinct(ft)
  BY DEF SoundTable
<1>1. ASSUME NEW s \in Live(d)
      PROVE  /\ Store!ChainOf(FileAt(d, ft, s)) \subseteq Clusters
             /\ Store!NoRepeat(FileAt(d, ft, s).chain)
  <2> DEFINE h == d[s].head
             t == FileChain(ft, h)
  <2>1. h \notin Linked(ft) /\ (h \in Clusters => ft[h] # Free)
    BY HeadsOfFiles
  <2>2. /\ FileAt(d, ft, s).chain = t
        /\ Store!ChainOf(FileAt(d, ft, s)) = OnChain(ft, h)
    BY FileIs
  <2>3. h \notin Clusters => t = << >>
    BY DEF FileChain
  <2>4. h \in Clusters => IsChain(ft, h, t)
    BY ChainIs
  <2> HIDE DEF h, t
  <2>5. OnChain(ft, h) \subseteq Clusters
    BY <1>0, <2>1, OnChainInUse
  <2>6. \A i, j \in DOMAIN t : t[i] = t[j] => i = j
    <3>1. CASE h \notin Clusters
      BY <2>3, <3>1
    <3>2. CASE h \in Clusters
      <4>1. DOMAIN t = 1 .. Len(t)
        BY <2>4, <3>2 DEF IsChain
      <4> QED BY <1>0, <2>1, <2>4, <3>2, <4>1, ChainEnds
    <3> QED BY <3>1, <3>2
  <2> QED BY <2>2, <2>5, <2>6 DEF Store!NoRepeat
<1>2. ASSUME NEW s \in Live(d), NEW t \in Live(d), s # t
      PROVE  Store!ChainOf(FileAt(d, ft, s)) \cap Store!ChainOf(FileAt(d, ft, t)) = {}
  <2> DEFINE h == d[s].head
             g == d[t].head
  <2>1. h \notin Linked(ft) /\ g \notin Linked(ft) /\ (h \in Clusters => h # g)
    BY <1>2, HeadsOfFiles
  <2>2. /\ Store!ChainOf(FileAt(d, ft, s)) = OnChain(ft, h)
        /\ Store!ChainOf(FileAt(d, ft, t)) = OnChain(ft, g)
    BY FileIs
  <2>3. h \notin Clusters => OnChain(ft, h) = {}
    BY DEF OnChain, FileChain
  <2> HIDE DEF h, g
  <2> QED BY <1>0, <2>1, <2>2, <2>3, OnChainApart
<1>3. ASSUME NEW f \in Files(d, ft), NEW g \in Files(d, ft), f # g
      PROVE  f.place # g.place /\ Store!ChainOf(f) \cap Store!ChainOf(g) = {}
  <2>1. PICK s \in Live(d) : f = FileAt(d, ft, s)
    BY FilesAre
  <2>2. PICK t \in Live(d) : g = FileAt(d, ft, t)
    BY FilesAre
  <2>3. s # t /\ f.place = s /\ g.place = t
    BY <1>3, <2>1, <2>2, FileIs
  <2> QED BY <1>2, <2>1, <2>2, <2>3
<1> QED BY <1>1, <1>3, FilesAre

\* The files are the same if no link of theirs changes.
LEMMA FilesUnchanged ==
  ASSUME NEW d, NEW ft, NEW new,
         \A s \in Live(d) : \A c \in OnChain(ft, d[s].head) : new[c] = ft[c]
  PROVE  Files(d, new) = Files(d, ft)
<1>1. ASSUME NEW s \in Live(d) PROVE FileChain(new, d[s].head) = FileChain(ft, d[s].head)
  <2> DEFINE h == d[s].head
  <2>1. CASE h \notin Clusters
    BY <2>1 DEF FileChain
  <2>2. CASE h \in Clusters
    <3>1. IsChain(ft, h, FileChain(ft, h))
      BY <2>2, ChainIs
    <3>2. DOMAIN FileChain(ft, h) = 1 .. Len(FileChain(ft, h))
      BY <3>1 DEF IsChain
    <3>3. \A i \in 1 .. Len(FileChain(ft, h)) : FileChain(ft, h)[i] \in OnChain(ft, h)
      BY <3>2 DEF OnChain
    <3>4. \A c \in OnChain(ft, h) : new[c] = ft[c]
      OBVIOUS
    <3> HIDE DEF h
    <3>5. \A i \in 1 .. Len(FileChain(ft, h)) : new[FileChain(ft, h)[i]] = ft[FileChain(ft, h)[i]]
      BY <3>3, <3>4
    <3>6. FileChain(new, h) = FileChain(ft, h)
      BY <2>2, <3>5, ChainUnchanged
    <3> QED BY <3>6 DEF h
  <2> QED BY <2>1, <2>2
<1>2. \A s \in Live(d) : FileAt(d, new, s) = FileAt(d, ft, s)
  BY <1>1 DEF FileAt
<1>3. Files(d, ft) = {FileAt(d, ft, s) : s \in Live(d)} /\ Files(d, new) = {FileAt(d, new, s) : s \in Live(d)}
  BY FilesAre
<1> QED BY <1>2, <1>3

\* With the new record the directory has one file more, behind the others.
LEMMA FilledFiles ==
  ASSUME NEW d \in [Slots -> Record], NEW o, o.slot \in Slots, o.slot = Limit(d), TailClear(d),
         o.name # NoName
  PROVE  /\ Live(Filled(d, o)) = Live(d) \cup {o.slot}
         /\ \A s \in Live(d) : s \in Nat /\ s < o.slot /\ Filled(d, o)[s] = d[s]
         /\ Filled(d, o)[o.slot].name = o.name /\ Filled(d, o)[o.slot].head = o.head
<1> DEFINE f == Filled(d, o)
           n == o.slot
<1>1. n \in Slots /\ n \in Nat /\ n = Limit(d) /\ Slots \subseteq Nat
  BY TotalIsNat
<1>2. Limit(f) = n + 1
  BY FilledDirectory
<1>3. f[n].name = o.name /\ f[n].head = o.head /\ f[n].lfn = FALSE
  BY DEF Filled
<1>4. \A s \in Slots : s < n => f[s] = d[s]
  <2>1. \A s \in Slots : s < n => s # n /\ s # n + 1
    BY <1>1
  <2> QED BY <2>1 DEF Filled
<1> HIDE DEF f, n
<1>5. \A s : s \in Live(d) <=> s \in Slots /\ s < n /\ ~ d[s].lfn /\ d[s].name # NoName
  BY <1>1 DEF Live
<1>6. \A s : s \in Live(f) <=> s \in Slots /\ s < n + 1 /\ ~ f[s].lfn /\ f[s].name # NoName
  BY <1>2 DEF Live
<1>7. \A s \in Slots : s < n + 1 <=> s < n \/ s = n
  BY <1>1
<1>8. ~ (n < n) /\ o.name # NoName
  BY <1>1
<1>9. ASSUME NEW s PROVE s \in Live(f) <=> s \in Live(d) \/ s = n
  <2>1. CASE s = n
    BY <1>1, <1>3, <1>6, <1>7, <1>8, <2>1
  <2>2. CASE s # n /\ s \in Slots
    <3>1. s < n => f[s] = d[s]
      BY <1>4, <2>2
    <3> QED BY <1>5, <1>6, <1>7, <2>2, <3>1
  <2>3. CASE s \notin Slots
    BY <1>1, <1>5, <1>6, <2>3
  <2> QED BY <2>1, <2>2, <2>3
<1>10. Live(f) = Live(d) \cup {n}
  BY <1>9
<1>11. \A s \in Live(d) : s \in Nat /\ s < n /\ f[s] = d[s]
  BY <1>1, <1>4, <1>5
<1> QED BY <1>3, <1>10, <1>11 DEF f, n

\* The copied sector leaves the files as they are.
LEMMA CopiedFiles ==
  ASSUME NEW d \in [Slots -> Record], NEW o, o.slot \in Slots, o.slot + 1 = Limit(d),
         SectorEnd(o.slot), Filled(d, o) = d, ClearFrom(d, o.slot), TailClear(d)
  PROVE  /\ Live(Copied(d, o)) = Live(d)
         /\ \A s \in Live(d) : Copied(d, o)[s] = d[s]
<1>1. /\ Limit(Copied(d, o)) = Limit(d)
      /\ \A s \in Slots : s <= o.slot => Copied(d, o)[s] = d[s]
  BY CopiedDirectory
<1>2. \A s \in Slots : s < Limit(d) => Copied(d, o)[s] = d[s]
  <2>1. \A s \in Slots : s < o.slot + 1 => s <= o.slot
    BY TotalIsNat
  <2> QED BY <1>1, <2>1
<1> QED BY <1>1, <1>2 DEF Live

\* Directories with the same files in the same places.
LEMMA SameFiles ==
  ASSUME NEW d, NEW e, NEW ft, Live(e) = Live(d), \A s \in Live(d) : e[s] = d[s]
  PROVE  Files(e, ft) = Files(d, ft)
BY DEF Files

\* A new record adds its file to the store.
LEMMA NewFile ==
  ASSUME NEW d \in [Slots -> Record], NEW o, o.slot \in Slots, o.slot = Limit(d), TailClear(d),
         o.name # NoName,
         NEW ft
  PROVE  /\ Files(Filled(d, o), ft) = Files(d, ft) \cup {FileAt(Filled(d, o), ft, o.slot)}
         /\ \A file \in Files(d, ft) : file.place \in Nat /\ file.place < o.slot
<1> DEFINE f == Filled(d, o)
           n == o.slot
<1>1. /\ Live(f) = Live(d) \cup {n}
      /\ \A s \in Live(d) : s \in Nat /\ s < n /\ f[s] = d[s]
  BY FilledFiles
<1> HIDE DEF f, n
<1>2. Files(f, ft) = {FileAt(f, ft, s) : s \in Live(f)} /\ Files(d, ft) = {FileAt(d, ft, s) : s \in Live(d)}
  BY FilesAre
<1>3. \A s \in Live(d) : FileAt(f, ft, s) = FileAt(d, ft, s)
  BY <1>1 DEF FileAt
<1>4. Files(f, ft) = Files(d, ft) \cup {FileAt(f, ft, n)}
  BY <1>1, <1>2, <1>3
<1>5. ASSUME NEW file \in Files(d, ft) PROVE file.place \in Nat /\ file.place < n
  <2>1. PICK s \in Live(d) : file = FileAt(d, ft, s)
    BY <1>2
  <2> QED BY <1>1, <2>1, FileIs
<1> QED BY <1>4, <1>5 DEF f, n

(***************************************************************************)
(* What the actions do.                                                     *)
(***************************************************************************)

LEMMA MarkEffect ==
  ASSUME VolumeInv, MarkCluster
  PROVE  \E c \in Clusters :
           /\ pc = "mark" /\ pc' = "blank" /\ UNCHANGED <<dir, data, cfgc, overrun, uncovered, parts>>
           /\ fat[c] = Free /\ fat' = [fat EXCEPT ![c] = NoCluster]
           /\ op' = [op EXCEPT !.cur = c] /\ (strayed => strayed')
           /\ ~ strayed' => ~ strayed /\ dfat[c] = Free /\ dfat' = [dfat EXCEPT ![c] = NoCluster]
<1> DEFINE c == FirstFree(fat)
<1>1. /\ pc = "mark" /\ pc' = "blank" /\ UNCHANGED <<dir, data, cfgc, overrun, uncovered, parts>>
      /\ fat' = [fat EXCEPT ![c] = NoCluster] /\ op' = [op EXCEPT !.cur = c]
      /\ dfat' = SectorWritten(dfat, fat', c) /\ strayed' = (strayed \/ c >= W)
  BY DEF MarkCluster
<1>2. c \in Clusters /\ c \in Nat /\ fat[c] = Free
  BY FirstFreeIsFree, FirstSector DEF MarkCluster
<1>3. fat \in [Clusters -> Entries] /\ dfat \in [Clusters -> Entries] /\ NoCluster \in Entries
  BY DEF VolumeInv, TypeOK, Entries
<1> HIDE DEF c
<1>4. ASSUME ~ strayed' PROVE ~ strayed /\ dfat[c] = Free /\ dfat' = [dfat EXCEPT ![c] = NoCluster]
  <2>0. ~ strayed /\ ~ (c >= W)
    BY <1>1, <1>4
  <2>1. ~ strayed /\ c < W
    <3>1. ~ (c >= W) => c < W
      BY <1>2, GeometryAssumption
    <3> QED BY <2>0, <3>1
  <2>2. Agree(fat, dfat)
    BY <1>1, <2>1 DEF VolumeInv, Mirror, Running
  <2>3. /\ SectorWritten(dfat, [fat EXCEPT ![c] = NoCluster], c) = [dfat EXCEPT ![c] = NoCluster]
        /\ Agree([fat EXCEPT ![c] = NoCluster], [dfat EXCEPT ![c] = NoCluster])
    BY <1>2, <1>3, <2>1, <2>2, OneEntryWritten
  <2>4. dfat[c] = Free
    BY <1>2, <2>1, <2>2 DEF Agree
  <2> QED BY <1>1, <2>1, <2>3, <2>4
<1> QED BY <1>1, <1>2, <1>4

LEMMA LinkEffect ==
  ASSUME VolumeInv, LinkCluster
  PROVE  /\ pc = "link" /\ UNCHANGED <<dir, cfgc, overrun, strayed, uncovered, parts>>
         /\ op' = Counted(op) /\ pc' = AfterCluster(op')
         /\ op.prev = NoCluster => UNCHANGED <<fat, dfat>>
         /\ op.prev # NoCluster => data' = data /\ fat' = [fat EXCEPT ![op.prev] = op.cur]
         /\ op.prev # NoCluster /\ ~ strayed =>
              op.prev \in Clusters /\ op.cur \in Entries \ {Free}
              /\ dfat' = [dfat EXCEPT ![op.prev] = op.cur]
<1>1. /\ pc = "link" /\ UNCHANGED <<dir, cfgc, overrun, strayed, uncovered, parts>>
      /\ op' = Counted(op) /\ pc' = AfterCluster(op')
      /\ op.prev = NoCluster => UNCHANGED <<fat, dfat>>
      /\ op.prev # NoCluster => data' = data /\ fat' = [fat EXCEPT ![op.prev] = op.cur]
                                /\ dfat' = SectorWritten(dfat, fat', op.prev)
  BY DEF LinkCluster
<1>2. ASSUME op.prev # NoCluster, ~ strayed
      PROVE  /\ op.prev \in Clusters /\ op.cur \in Entries \ {Free}
             /\ dfat' = [dfat EXCEPT ![op.prev] = op.cur]
  <2> DEFINE p == op.prev
             x == op.cur
  <2>1. p # Unset /\ x # Unset /\ p < W /\ Agree(fat, dfat)
    BY <1>1, <1>2 DEF VolumeInv, InFlight, Allocating, Mirror, Running
  <2>2. p \in Entries /\ x \in Entries /\ fat \in [Clusters -> Entries] /\ dfat \in [Clusters -> Entries]
    BY DEF VolumeInv, TypeOK, Operation
  <2>3. fat' = [fat EXCEPT ![p] = x] /\ dfat' = SectorWritten(dfat, fat', p)
    BY <1>1, <1>2
  <2>4. p # NoCluster
    BY <1>2
  <2> HIDE DEF p, x
  <2>5. p \in Clusters /\ x \in Entries \ {Free}
    BY <2>1, <2>2, <2>4 DEF Entries, Unset, Free
  <2>6. /\ SectorWritten(dfat, [fat EXCEPT ![p] = x], p) = [dfat EXCEPT ![p] = x]
        /\ Agree([fat EXCEPT ![p] = x], [dfat EXCEPT ![p] = x])
    BY <2>1, <2>2, <2>5, OneEntryWritten
  <2> QED BY <2>3, <2>5, <2>6 DEF p, x
<1> QED BY <1>1, <1>2

(***************************************************************************)
(* Fat32 implements FileStore.                                              *)
(***************************************************************************)

\* Nothing is hidden in the sector that is yet to be copied.
LEMMA VisibleIs == VolumeInv => Visible = Files(dir, dfat)
<1> SUFFICES ASSUME VolumeInv PROVE Visible = Files(dir, dfat)
  OBVIOUS
<1>1. CASE pc = "copy"
  <2>1. op.slot + 1 = Limit(dir) /\ op.slot \in Nat
    BY <1>1, TotalIsNat DEF VolumeInv, SlotHeld, TypeOK, Operation
  <2>2. ASSUME NEW file \in Files(dir, dfat) PROVE file.place <= op.slot
    <3>1. PICK s \in Live(dir) : file = FileAt(dir, dfat, s)
      BY FilesAre
    <3>2. s \in Nat /\ s < op.slot + 1
      BY <2>1, TotalIsNat DEF Live
    <3>3. file.place = s
      BY <3>1, FileIs
    <3> QED BY <2>1, <3>2, <3>3
  <2> QED BY <2>2 DEF Visible
<1> QED BY <1>1 DEF Visible

LEMMA InitStore ==
  ASSUME Init, \A v \in Volumes : SoundVolume(v)
  PROVE  Store!Init
<1>1. VolumeInv /\ ~ strayed
  BY InitInv DEF Init
<1>2. dir \in [Slots -> Record] /\ dfat \in [Clusters -> Entries] /\ SoundTable(dir, dfat)
  BY <1>1 DEF VolumeInv, TypeOK, Sound
<1>3. Visible = Files(dir, dfat)
  BY <1>1, VisibleIs
<1> QED BY <1>2, <1>3, FilesApart DEF Store!Init

\* A cluster that is marked belongs to no file.
LEMMA MarkFiles ==
  ASSUME VolumeInv, MarkCluster, ~ strayed'
  PROVE  Files(dir', dfat') = Files(dir, dfat)
<1>1. PICK c \in Clusters : /\ dir' = dir /\ ~ strayed /\ dfat[c] = Free
                            /\ dfat' = [dfat EXCEPT ![c] = NoCluster]
  BY MarkEffect
<1>2. dir \in [Slots -> Record] /\ dfat \in [Clusters -> Entries] /\ SoundTable(dir, dfat)
  BY <1>1 DEF VolumeInv, TypeOK, Sound
<1>3. ASSUME NEW s \in Live(dir), NEW e \in OnChain(dfat, dir[s].head)
      PROVE  [dfat EXCEPT ![c] = NoCluster][e] = dfat[e]
  <2> DEFINE h == dir[s].head
  <2>1. h \in Clusters => dfat[h] # Free
    BY <1>2, HeadsOfFiles
  <2>2. LinksInUse(dfat) /\ e \in OnChain(dfat, h)
    BY <1>2 DEF SoundTable
  <2> HIDE DEF h
  <2>3. e \in Clusters /\ dfat[e] # Free
    BY <2>1, <2>2, OnChainInUse
  <2> QED BY <1>1, <1>2, <2>3
<1>4. Files(dir, [dfat EXCEPT ![c] = NoCluster]) = Files(dir, dfat)
  BY <1>3, FilesUnchanged
<1> QED BY <1>1, <1>4

\* Neither does the cluster that another one is linked to, nor any of its chain.
LEMMA InFlightApart ==
  ASSUME VolumeInv, ~ strayed, NEW h \in Clusters, Loose(dir, dfat, h), NEW s \in Live(dir)
  PROVE  OnChain(dfat, dir[s].head) \cap OnChain(dfat, h) = {}
<1> DEFINE g == dir[s].head
<1>1. dir \in [Slots -> Record] /\ dfat \in [Clusters -> Entries] /\ SoundTable(dir, dfat)
  BY DEF VolumeInv, TypeOK, Sound
<1>2. g \notin Linked(dfat) /\ (g \in Clusters => g \in Heads(dir))
  BY <1>1, HeadsOfFiles
<1>3. h \notin Linked(dfat) /\ h \notin Heads(dir) /\ LinksDistinct(dfat)
  BY <1>1 DEF Loose, SoundTable
<1> HIDE DEF g
<1>4. g # h
  BY <1>2, <1>3
<1>5. OnChain(dfat, g) \cap OnChain(dfat, h) = {}
  BY <1>2, <1>3, <1>4, OnChainApart
<1> QED BY <1>5 DEF g

\* The last cluster of the file being made is on its chain, which nothing else is on.
LEMMA LastOnChain ==
  ASSUME VolumeInv, Growing, ~ strayed, Allocating, op.prev \in Clusters
  PROVE  /\ op.head \in Clusters /\ Loose(dir, dfat, op.head)
         /\ op.prev \in OnChain(dfat, op.head)
         /\ FileChain(dfat, op.head)[Len(FileChain(dfat, op.head))] = op.prev
<1> DEFINE h == op.head
           s == FileChain(dfat, h)
<1>1. h \in Clusters /\ s[Len(s)] = op.prev
  BY DEF Growing
<1>2. Loose(dir, dfat, h)
  BY <1>1 DEF VolumeInv, InFlight
<1>3. IsChain(dfat, h, s) /\ OnChain(dfat, h) = {s[i] : i \in DOMAIN s}
  BY <1>1, ChainIs DEF OnChain
<1> HIDE DEF s, h
<1>4. Len(s) \in DOMAIN s
  BY <1>3, ClustersFinite DEF IsChain
<1> QED BY <1>1, <1>2, <1>3, <1>4 DEF s, h

LEMMA LinkFiles ==
  ASSUME VolumeInv, Growing, LinkCluster, ~ strayed'
  PROVE  Files(dir', dfat') = Files(dir, dfat)
<1>1. /\ pc = "link" /\ dir' = dir /\ strayed' = strayed
      /\ op.prev = NoCluster => dfat' = dfat
      /\ op.prev # NoCluster /\ ~ strayed =>
           op.prev \in Clusters /\ dfat' = [dfat EXCEPT ![op.prev] = op.cur]
  BY LinkEffect
<1>2. CASE op.prev = NoCluster
  BY <1>1, <1>2
<1>3. CASE op.prev # NoCluster
  <2> DEFINE p == op.prev
             x == op.cur
  <2>1. p \in Clusters /\ dfat' = [dfat EXCEPT ![p] = x] /\ dfat \in [Clusters -> Entries]
    BY <1>1, <1>3 DEF VolumeInv, TypeOK
  <2>2. op.head \in Clusters /\ Loose(dir, dfat, op.head) /\ p \in OnChain(dfat, op.head)
    BY <1>1, <2>1, LastOnChain DEF Allocating
  <2> HIDE DEF p, x
  <2>3. ASSUME NEW s \in Live(dir), NEW c \in OnChain(dfat, dir[s].head)
        PROVE  [dfat EXCEPT ![p] = x][c] = dfat[c]
    <3>1. c # p
      BY <1>1, <2>2, <2>3, InFlightApart
    <3> QED BY <2>1, <3>1
  <2>4. Files(dir, [dfat EXCEPT ![p] = x]) = Files(dir, dfat)
    BY <2>3, FilesUnchanged
  <2> QED BY <1>1, <2>1, <2>4
<1> QED BY <1>2, <1>3

\* The sector with the record adds the file, whole.
LEMMA WriteDirStore ==
  ASSUME VolumeInv, Growing, WriteDir, ~ strayed', VolumeInv'
  PROVE  Store!Next
<1>1. /\ pc = "dir" /\ dir' = Filled(dir, op) /\ dfat' = dfat /\ strayed' = strayed
      /\ dir \in [Slots -> Record] /\ op.slot \in Slots /\ op.slot = Limit(dir) /\ TailClear(dir)
      /\ op.name \in Names /\ op.name # NoName
  BY NamesAssumption DEF WriteDir, VolumeInv, TypeOK, Operation, SlotHeld, Allocating, Growing
<1>2. Visible = Files(dir, dfat) /\ Visible' = Files(dir', dfat)
  <2>1. Visible = Files(dir, dfat)
    BY VisibleIs
  <2>2. (Visible = Files(dir, dfat))'
    BY VisibleIs, PTL
  <2> QED BY <1>1, <2>1, <2>2
<1> DEFINE new == FileAt(dir', dfat, op.slot)
<1>3. /\ Files(dir', dfat) = Files(dir, dfat) \cup {new}
      /\ \A file \in Files(dir, dfat) : file.place \in Nat /\ file.place < op.slot
  BY <1>1, NewFile
<1>4. new.place = op.slot /\ new.name = dir'[op.slot].name /\ op.slot \in Nat
  BY <1>1, FileIs, TotalIsNat
<1>5. new.name \in Names
  BY <1>1, <1>4, FilledFiles
<1>6. dir' \in [Slots -> Record] /\ dfat \in [Clusters -> Entries] /\ SoundTable(dir', dfat)
  BY <1>1 DEF VolumeInv, TypeOK, Sound
<1>7. /\ \A file \in Files(dir', dfat) : Store!ChainOf(file) \subseteq Clusters /\ Store!NoRepeat(file.chain)
      /\ \A f, g \in Files(dir', dfat) :
            f # g => f.place # g.place /\ Store!ChainOf(f) \cap Store!ChainOf(g) = {}
  BY <1>6, FilesApart
<1> HIDE DEF new
<1>8. ASSUME NEW other \in Visible
      PROVE  other # new /\ other.place < new.place /\ Store!ChainOf(other) \cap Store!ChainOf(new) = {}
  <2>1. other.place \in Nat /\ other.place < new.place /\ new.place \in Nat
    BY <1>2, <1>3, <1>4
  <2>2. other # new
    BY <2>1
  <2>3. other \in Files(dir', dfat) /\ new \in Files(dir', dfat)
    BY <1>2, <1>3
  <2> QED BY <1>7, <2>1, <2>2, <2>3
<1>9. new \in Visible' \ Visible /\ Visible' = Visible \cup {new}
  BY <1>2, <1>3, <1>8
<1>10. Store!Add(new)
  <2>1. Store!ChainOf(new) \subseteq Clusters /\ Store!NoRepeat(new.chain)
    BY <1>3, <1>7
  <2> QED BY <1>5, <1>8, <1>9, <2>1 DEF Store!Add
<1> QED BY <1>9, <1>10 DEF Store!Next

LEMMA CopyFiles ==
  ASSUME VolumeInv, CopySector
  PROVE  Files(dir', dfat') = Files(dir, dfat)
<1>1. /\ pc = "copy" /\ dir' = Copied(dir, op) /\ dfat' = dfat
      /\ dir \in [Slots -> Record] /\ op.slot \in Slots /\ op.slot + 1 = Limit(dir)
      /\ SectorEnd(op.slot) /\ Filled(dir, op) = dir /\ ClearFrom(dir, op.slot) /\ TailClear(dir)
  BY DEF CopySector, VolumeInv, TypeOK, Operation, SlotHeld
<1>2. Live(dir') = Live(dir) /\ \A s \in Live(dir) : dir'[s] = dir[s]
  BY <1>1, CopiedFiles
<1> QED BY <1>1, <1>2, SameFiles

\* Every step of the volume is a step of the store.
LEMMA StoreStep ==
  ASSUME VolumeInv, Growing, VolumeInv', [Next]_vars, ~ strayed'
  PROVE  Store!Next \/ Visible' = Visible
<1>1. Visible = Files(dir, dfat)
  BY VisibleIs
<1>2. Visible' = Files(dir', dfat')
  <2>1. (Visible = Files(dir, dfat))'
    BY VisibleIs, PTL
  <2> QED BY <2>1
<1>3. ASSUME UNCHANGED <<dir, dfat>> PROVE Visible' = Visible
  BY <1>1, <1>2, <1>3
<1>4. CASE Mount \/ InitConfig \/ Restart
  BY <1>3, <1>4 DEF Mount, InitConfig, Restart, disk
<1>5. CASE DiskFull \/ BlankCluster \/ WriteConfig
  BY <1>3, <1>5 DEF DiskFull, BlankCluster, WriteConfig
<1>6. ASSUME NEW name \in Names, NEW n \in Sizes, Create(name, n) PROVE Visible' = Visible
  BY <1>3, <1>6 DEF Create, disk
<1>7. CASE MarkCluster
  BY <1>1, <1>2, <1>7, MarkFiles
<1>8. CASE LinkCluster
  BY <1>1, <1>2, <1>8, LinkFiles
<1>9. CASE WriteDir
  BY <1>9, WriteDirStore
<1>10. CASE CopySector
  BY <1>1, <1>2, <1>10, CopyFiles
<1>11. CASE UNCHANGED vars
  BY <1>3, <1>11 DEF vars, disk
<1> QED BY <1>4, <1>5, <1>6, <1>7, <1>8, <1>9, <1>10, <1>11 DEF Next, Work

(***************************************************************************)
(* The file being made.                                                     *)
(***************************************************************************)

\* An allocation that begins has no cluster yet.
LEMMA Begun ==
  ASSUME NEW name, NEW n, Allocate(name, n)
  PROVE  \/ pc' = "lost" /\ op' = op
         \/ /\ pc' = "mark" /\ op'.name = name /\ op'.size = n /\ op'.left = n
            /\ op'.head = Unset /\ op'.prev = Unset /\ op'.cur = Unset
BY DEF Allocate, Idle

\* What counting a cluster does to the rest of the operation.
LEMMA CountedFields ==
  ASSUME NEW o \in Operation
  PROVE  /\ Counted(o).name = o.name /\ Counted(o).size = o.size /\ Counted(o).left = o.left - 1
         /\ Counted(o).head = o.head /\ Counted(o).prev = o.cur /\ Counted(o).cur = o.cur
         /\ o.size \in Nat /\ o.left \in Int
         /\ AfterCluster(Counted(o)) = IF o.left - 1 > 0 THEN "mark" ELSE "dir"
BY DEF Counted, Operation, AfterCluster

LEMMA NotAllocating ==
  ASSUME ~ Allocating'
  PROVE  Growing' /\ Counting'
BY DEF Growing, Counting

LEMMA BeginGrowing ==
  ASSUME NEW name \in Names, NEW n \in Nat, Allocate(name, n)
  PROVE  Growing' /\ Counting'
<1>1. CASE pc' = "lost"
  <2>1. ~ Allocating'
    BY <1>1 DEF Allocating
  <2> QED BY <2>1, NotAllocating
<1>2. CASE /\ pc' = "mark" /\ op'.name = name /\ op'.size = n /\ op'.left = n
           /\ op'.head = Unset /\ op'.prev = Unset /\ op'.cur = Unset
  <2>1. Growing'
    BY <1>2, ClusterNumbers DEF Growing
  <2>2. FileChain(dfat', Unset) = << >>
    BY ClusterNumbers DEF FileChain
  <2>3. Len(FileChain(dfat', op'.head)) = op'.size - op'.left
    BY <1>2, <2>2
  <2>4. op'.left > 0 \/ (op'.left = 0 /\ op'.size = 0)
    BY <1>2
  <2>5. Counting'
    BY <1>2, <2>3, <2>4 DEF Counting
  <2> QED BY <2>1, <2>5
<1> QED BY <1>1, <1>2, Begun

\* Marking a cluster leaves the chain of the file as it is.
LEMMA MarkGrowing ==
  ASSUME VolumeInv, Growing, Counting, MarkCluster
  PROVE  Growing' /\ Counting'
<1>1. PICK c \in Clusters :
        /\ pc = "mark" /\ pc' = "blank" /\ UNCHANGED <<dir, data, cfgc, overrun, uncovered, parts>>
        /\ fat[c] = Free /\ fat' = [fat EXCEPT ![c] = NoCluster]
        /\ op' = [op EXCEPT !.cur = c] /\ (strayed => strayed')
        /\ ~ strayed' => ~ strayed /\ dfat[c] = Free /\ dfat' = [dfat EXCEPT ![c] = NoCluster]
  BY MarkEffect
<1>2. /\ op'.name = op.name /\ op'.size = op.size /\ op'.left = op.left
      /\ op'.head = op.head /\ op'.prev = op.prev /\ op'.cur = c
  BY <1>1 DEF VolumeInv, TypeOK, Operation
<1>3. Allocating /\ c \in FreeClusters(fat) /\ c # NoCluster
  BY <1>1, ClusterNumbers DEF Allocating, FreeClusters
<1>4. CASE strayed'
  BY <1>1, <1>2, <1>3, <1>4 DEF Growing, Counting, Damaged
<1>5. CASE ~ strayed'
  <2>1. NoCluster \notin {op.head, op.prev}
    BY <1>1, <1>3, <1>5 DEF Growing
  <2>2. FileChain(dfat', op.head) = FileChain(dfat, op.head)
    <3> DEFINE h == op.head
    <3>1. CASE h \notin Clusters
      BY <3>1 DEF FileChain
    <3>2. CASE h \in Clusters
      <4>1. /\ Loose(dir, dfat, h) /\ SoundTable(dir, dfat) /\ dfat \in [Clusters -> Entries]
            /\ dfat' = [dfat EXCEPT ![c] = NoCluster] /\ dfat[c] = Free
        BY <1>1, <1>3, <1>5, <3>2 DEF VolumeInv, InFlight, Sound, TypeOK
      <4>2. LinksInUse(dfat) /\ dfat[h] # Free
        BY <4>1 DEF SoundTable, Loose
      <4>3. IsChain(dfat, h, FileChain(dfat, h))
        BY <3>2, ChainIs
      <4> HIDE DEF h
      <4>4. DOMAIN FileChain(dfat, h) = 1 .. Len(FileChain(dfat, h))
        BY <4>3 DEF IsChain
      <4>5. \A e \in OnChain(dfat, h) : e \in Clusters /\ dfat[e] # Free
        BY <4>2, OnChainInUse
      <4>6. \A e \in OnChain(dfat, h) : dfat'[e] = dfat[e]
        BY <4>1, <4>5
      <4>7. \A i \in 1 .. Len(FileChain(dfat, h)) : dfat'[FileChain(dfat, h)[i]] = dfat[FileChain(dfat, h)[i]]
        BY <4>4, <4>6 DEF OnChain
      <4>8. FileChain(dfat', h) = FileChain(dfat, h)
        BY <3>2, <4>7, ChainUnchanged
      <4> QED BY <4>8 DEF h
    <3> QED BY <3>1, <3>2
  <2>3. Growing'
    BY <1>1, <1>2, <1>3, <1>5, <2>1, <2>2 DEF Growing
  <2>4. Counting'
    <3> SUFFICES ASSUME ~ Damaged' PROVE Counting'
      BY DEF Counting
    <3>1. ~ Damaged
      BY <1>1 DEF Damaged
    <3>2. /\ Len(FileChain(dfat, op.head)) = op.size - op.left
          /\ op.left > 0 \/ (op.left = 0 /\ op.size = 0)
      BY <1>1, <1>3, <3>1 DEF Counting
    <3> QED BY <1>1, <1>2, <2>2, <3>2 DEF Counting
  <2> QED BY <2>3, <2>4
<1> QED BY <1>4, <1>5

LEMMA DiskFullGrowing ==
  ASSUME VolumeInv, Growing, DiskFull
  PROVE  Growing' /\ Counting'
<1>1. /\ pc = "mark" /\ pc' = "blank" /\ UNCHANGED <<dfat, fat, strayed>> /\ overrun' = TRUE
      /\ FreeClusters(fat) = {} /\ op' = [op EXCEPT !.cur = NoCluster]
  BY DEF DiskFull
<1>2. op'.name = op.name /\ op'.head = op.head /\ op'.prev = op.prev /\ op'.cur = NoCluster
  BY <1>1 DEF VolumeInv, TypeOK, Operation
<1>3. Growing'
  BY <1>1, <1>2 DEF Growing, Allocating
<1>4. Counting'
  BY <1>1 DEF Counting, Damaged
<1> QED BY <1>3, <1>4

\* The first cluster of a file is its chain so far.
LEMMA BlankGrowing ==
  ASSUME VolumeInv, Growing, Counting, BlankCluster
  PROVE  Growing' /\ Counting'
<1>1. pc = "blank" /\ UNCHANGED <<dir, dfat, fat, cfgc, overrun, strayed, uncovered, parts>> /\ op \in Operation /\ Allocating
  BY DEF BlankCluster, VolumeInv, TypeOK, Allocating
<1>2. CASE op.head # Unset
  <2>1. pc' = "link" /\ op' = op
    BY <1>2 DEF BlankCluster
  <2> QED BY <1>1, <2>1 DEF Growing, Counting, Allocating, Damaged
<1>3. CASE op.head = Unset
  <2> DEFINE o == [op EXCEPT !.head = op.cur]
  <2>1. /\ o \in Operation /\ o.head = op.cur /\ o.cur = op.cur
        /\ o.name = op.name /\ o.size = op.size /\ o.left = op.left
    BY <1>1 DEF Operation
  <2>2. op' = Counted(o) /\ pc' = AfterCluster(op')
    BY <1>3 DEF BlankCluster
  <2> HIDE DEF o
  <2>3. /\ op'.name = op.name /\ op'.size = op.size /\ op'.left = op.left - 1
        /\ op'.head = op.cur /\ op'.prev = op.cur /\ op'.cur = op.cur
        /\ op.size \in Nat /\ op.left \in Int
        /\ pc' = IF op.left - 1 > 0 THEN "mark" ELSE "dir"
    BY <2>1, <2>2, CountedFields
  <2>4. Allocating' /\ pc' \notin {"blank", "link"}
    BY <2>3 DEF Allocating
  <2>5. ~ strayed /\ op.cur \in Clusters => FileChain(dfat, op.cur) = <<op.cur>>
    <3>1. ~ strayed /\ op.cur \in Clusters => dfat[op.cur] = NoCluster
      BY <1>1 DEF VolumeInv, InFlight
    <3> QED BY <3>1, ChainOfOne
  <2>6. Growing'
    <3>1. op.name \in Names
      BY <1>1 DEF Growing
    <3>2. ~ strayed /\ op.cur = NoCluster => overrun /\ FreeClusters(fat) = {}
      BY <1>1 DEF Growing
    <3>3. ~ strayed /\ op.cur \in Clusters =>
            FileChain(dfat, op.cur)[Len(FileChain(dfat, op.cur))] = op.cur
      <4>1. Len(<<op.cur>>) = 1 /\ <<op.cur>>[1] = op.cur
        OBVIOUS
      <4> QED BY <2>5, <4>1
    <3> QED BY <1>1, <2>3, <2>4, <3>1, <3>2, <3>3 DEF Growing
  <2>7. Counting'
    <3> SUFFICES ASSUME ~ Damaged' PROVE Counting'
      BY DEF Counting
    <3>1. ~ Damaged /\ ~ strayed /\ ~ overrun
      BY <1>1 DEF Damaged
    <3>2. /\ Len(FileChain(dfat, op.head)) = op.size - op.left
          /\ op.left > 0 \/ (op.left = 0 /\ op.size = 0)
      BY <1>1, <3>1 DEF Counting
    <3>3. FileChain(dfat, op.head) = << >>
      BY <1>3, ClusterNumbers DEF FileChain
    <3>4. op.left = op.size
      BY <2>3, <3>2, <3>3
    <3>5. op.cur \in Clusters
      <4>1. op.cur \in Entries /\ op.cur # NoCluster /\ op.cur # Unset
        BY <1>1, <3>1 DEF Operation, Growing, VolumeInv, InFlight
      <4> QED BY <4>1 DEF Entries, Free, Unset
    <3>6. Len(FileChain(dfat', op'.head)) = op'.size - op'.left
      <4>1. FileChain(dfat', op'.head) = <<op.cur>> /\ Len(<<op.cur>>) = 1
        BY <1>1, <2>3, <2>5, <3>1, <3>5
      <4>2. op'.size - op'.left = 1
        BY <2>3, <3>4
      <4> QED BY <4>1, <4>2
    <3>7. IF pc' = "dir" THEN op'.left = (IF op'.size = 0 THEN -1 ELSE 0)
          ELSE op'.left > 0 \/ (op'.left = 0 /\ op'.size = 0)
      BY <2>3, <3>2, <3>4
    <3> QED BY <3>6, <3>7 DEF Counting
  <2> QED BY <2>6, <2>7
<1> QED BY <1>2, <1>3

\* Linking a cluster makes the chain longer by it.
LEMMA LinkGrowing ==
  ASSUME VolumeInv, Growing, Counting, LinkCluster
  PROVE  Growing' /\ Counting'
<1>1. /\ pc = "link" /\ UNCHANGED <<dir, cfgc, overrun, strayed, uncovered, parts>>
      /\ op' = Counted(op) /\ pc' = AfterCluster(op')
      /\ op.prev = NoCluster => UNCHANGED <<fat, dfat>>
      /\ op.prev # NoCluster => fat' = [fat EXCEPT ![op.prev] = op.cur]
      /\ op.prev # NoCluster /\ ~ strayed =>
           op.prev \in Clusters /\ op.cur \in Entries \ {Free}
           /\ dfat' = [dfat EXCEPT ![op.prev] = op.cur]
  BY LinkEffect
<1>2. op \in Operation /\ fat \in [Clusters -> Entries] /\ dfat \in [Clusters -> Entries] /\ Allocating
  BY <1>1 DEF VolumeInv, TypeOK, Allocating
<1>3. /\ op'.name = op.name /\ op'.size = op.size /\ op'.left = op.left - 1
      /\ op'.head = op.head /\ op'.prev = op.cur /\ op'.cur = op.cur
      /\ op.size \in Nat /\ op.left \in Int
      /\ pc' = IF op.left - 1 > 0 THEN "mark" ELSE "dir"
  BY <1>1, <1>2, CountedFields
<1>4. Allocating' /\ pc' \notin {"blank", "link"} /\ op.name \in Names
  BY <1>2, <1>3 DEF Allocating, Growing
<1>5. CASE strayed
  BY <1>1, <1>3, <1>4, <1>5 DEF Growing, Counting, Damaged
<1>6. CASE ~ strayed
  <2>1. /\ NoCluster \in {op.head, op.prev, op.cur} => overrun /\ FreeClusters(fat) = {}
        /\ NoCluster \in {op.head, op.prev} => op.cur = NoCluster
        /\ op.prev \in Clusters => op.head \in Clusters
    BY <1>1, <1>2, <1>6 DEF Growing
  <2>2. FreeClusters(fat') \subseteq FreeClusters(fat)
    <3>1. CASE op.prev = NoCluster
      BY <1>1, <3>1
    <3>2. CASE op.prev # NoCluster
      BY <1>1, <1>2, <1>6, <3>2 DEF FreeClusters
    <3> QED BY <3>1, <3>2
  <2>3. ASSUME op.cur \in Clusters
        PROVE  /\ op.head \in Clusters /\ Len(FileChain(dfat, op.head)) \in Nat \ {0}
               /\ FileChain(dfat', op.head) = Append(FileChain(dfat, op.head), op.cur)
    <3> DEFINE h == op.head
               p == op.prev
               c == op.cur
    <3>1. p # NoCluster
      BY <2>1, <2>3, ClusterNumbers
    <3>2. p \in Clusters /\ dfat' = [dfat EXCEPT ![p] = c] /\ c \in Clusters
      BY <1>1, <1>6, <2>3, <3>1
    <3>3. h \in Clusters /\ Loose(dir, dfat, h) /\ FileChain(dfat, h)[Len(FileChain(dfat, h))] = p
      BY <1>2, <1>6, <3>2, LastOnChain
    <3>4. dfat[p] = NoCluster /\ dfat[c] = NoCluster /\ c # p
      BY <1>1, <1>2, <1>6, <3>2 DEF VolumeInv, InFlight
    <3>5. LinksDistinct(dfat) /\ h \notin Linked(dfat)
      BY <1>6, <3>3 DEF VolumeInv, Sound, SoundTable, Loose
    <3> HIDE DEF h, p, c
    <3>6. FileChain([dfat EXCEPT ![p] = c], h) = Append(FileChain(dfat, h), c)
      BY <1>2, <3>2, <3>3, <3>4, <3>5, ChainLonger
    <3>7. Len(FileChain(dfat, h)) \in Nat \ {0}
      <4>1. IsChain(dfat, h, FileChain(dfat, h))
        BY <3>3, ChainIs
      <4> QED BY <4>1, ClustersFinite DEF IsChain
    <3> QED BY <3>2, <3>3, <3>6, <3>7 DEF h, p, c
  <2>4. ASSUME op.cur \in Clusters
        PROVE  /\ Len(FileChain(dfat', op.head)) = Len(FileChain(dfat, op.head)) + 1
               /\ FileChain(dfat', op.head)[Len(FileChain(dfat', op.head))] = op.cur
    <3> DEFINE s == FileChain(dfat, op.head)
    <3>1. op.head \in Clusters /\ FileChain(dfat', op.head) = Append(s, op.cur)
      BY <2>3, <2>4
    <3>2. s \in Seq(Clusters)
      <4>1. IsChain(dfat, op.head, s)
        BY <3>1, ChainIs
      <4> HIDE DEF s
      <4> QED BY <4>1 DEF IsChain
    <3> HIDE DEF s
    <3>3. Len(Append(s, op.cur)) = Len(s) + 1 /\ Append(s, op.cur)[Len(s) + 1] = op.cur
      BY <3>2, <2>4
    <3> QED BY <3>1, <3>3 DEF s
  <2>5. Growing'
    <3>1. NoCluster \in {op.head, op.cur} => overrun /\ FreeClusters(fat') = {}
      BY <2>1, <2>2
    <3>2. op.cur \in Clusters => op.head \in Clusters
                 /\ FileChain(dfat', op.head)[Len(FileChain(dfat', op.head))] = op.cur
      BY <2>3, <2>4
    <3> QED BY <1>1, <1>3, <1>4, <3>1, <3>2 DEF Growing
  <2>6. Counting'
    <3> SUFFICES ASSUME ~ Damaged' PROVE Counting'
      BY DEF Counting
    <3>1. ~ Damaged /\ ~ overrun
      BY <1>1 DEF Damaged
    <3>2. /\ Len(FileChain(dfat, op.head)) = op.size - op.left
          /\ op.left > 0 \/ (op.left = 0 /\ op.size = 0)
      BY <1>1, <1>2, <3>1 DEF Counting
    <3>3. op.cur \in Clusters
      <4>1. op.cur \in Entries /\ op.cur # NoCluster /\ op.cur # Unset
        BY <1>1, <1>2, <1>6, <2>1, <3>1 DEF Operation, VolumeInv, InFlight
      <4> QED BY <4>1 DEF Entries, Free, Unset
    <3>4. /\ Len(FileChain(dfat, op.head)) \in Nat \ {0}
          /\ Len(FileChain(dfat', op.head)) = Len(FileChain(dfat, op.head)) + 1
      BY <2>3, <2>4, <3>3
    <3>5. op.left > 0 /\ op.size # 0
      BY <1>3, <3>2, <3>4
    <3>6. Len(FileChain(dfat', op'.head)) = op'.size - op'.left
      BY <1>3, <3>2, <3>4
    <3>7. IF pc' = "dir" THEN op'.left = (IF op'.size = 0 THEN -1 ELSE 0)
          ELSE op'.left > 0 \/ (op'.left = 0 /\ op'.size = 0)
      BY <1>3, <3>5
    <3> QED BY <3>6, <3>7 DEF Counting
  <2> QED BY <2>5, <2>6
<1> QED BY <1>5, <1>6

LEMMA GrowingStep ==
  ASSUME VolumeInv, Growing, Counting, [Next]_vars
  PROVE  Growing' /\ Counting'
<1>1. CASE Mount \/ Restart
  <2>1. ~ Allocating'
    BY <1>1 DEF Mount, ReadTable, Restart, Allocating
  <2> QED BY <2>1, NotAllocating
<1>2. CASE WriteDir \/ CopySector \/ WriteConfig
  <2>1. ~ Allocating'
    BY <1>2 DEF WriteDir, CopySector, WriteConfig, Return, Allocating
  <2> QED BY <2>1, NotAllocating
<1>3. CASE InitConfig
  <2>1. CASE pc' = "ready"
    <3>1. ~ Allocating'
      BY <2>1 DEF Allocating
    <3> QED BY <3>1, NotAllocating
  <2>2. CASE Allocate(Cfg, 2)
    BY <2>2, BeginGrowing, NamesAssumption
  <2> QED BY <1>3, <2>1, <2>2 DEF InitConfig
<1>4. ASSUME NEW name \in Names, NEW n \in Sizes, Create(name, n) PROVE Growing' /\ Counting'
  BY <1>4, BeginGrowing, SizesAssumption DEF Create
<1>5. CASE MarkCluster
  BY <1>5, MarkGrowing
<1>6. CASE DiskFull
  BY <1>6, DiskFullGrowing
<1>7. CASE BlankCluster
  BY <1>7, BlankGrowing
<1>8. CASE LinkCluster
  BY <1>8, LinkGrowing
<1>9. CASE UNCHANGED vars
  BY <1>9 DEF vars, disk, Growing, Counting, Allocating, Damaged
<1> QED BY <1>1, <1>2, <1>3, <1>4, <1>5, <1>6, <1>7, <1>8, <1>9 DEF Next, Work

(***************************************************************************)
(* The config file.                                                         *)
(***************************************************************************)

\* Steps that leave the directory and the data leave the config file.
LEMMA SameConfig ==
  ASSUME UNCHANGED <<dir, data, overrun>>, strayed => strayed', ConfigKept, ~ Damaged'
  PROVE  /\ ~ Damaged /\ OneConfig(dir', data') /\ OneConfig(dir, data)
         /\ Named(dir', Cfg) = Named(dir, Cfg)
<1>1. ~ Damaged
  BY DEF Damaged
<1>2. OneConfig(dir, data)
  BY <1>1 DEF ConfigKept
<1> QED BY <1>1, <1>2

\* dfs_init_config finds the config file, or there is none and it makes one.
LEMMA InitConfigKept ==
  ASSUME VolumeInv, ConfigKept, InitConfig
  PROVE  ConfigKept'
<1> SUFFICES ASSUME ~ Damaged' PROVE ConfigKept'
  BY DEF ConfigKept
<1> DEFINE P == Named(dir, Cfg)
           found == FirstOf(P)
<1>1. /\ UNCHANGED <<dir, data, overrun, strayed>> /\ pc = "mounted"
      /\ \/ found # Total /\ pc' = "ready" /\ cfgc' = dir[found].head
         \/ (found = Total \/ dir[found].head = NoCluster) /\ Allocate(Cfg, 2)
  BY DEF InitConfig, disk
<1>2. ~ Damaged /\ OneConfig(dir', data') /\ OneConfig(dir, data) /\ Named(dir', Cfg) = P
  BY <1>1, SameConfig
<1>3. P \in SUBSET Slots /\ Total \notin Slots
  BY TotalIsNat DEF Named, Live
<1>4. /\ found \in 0 .. Total
      /\ found # Total => found \in P
      /\ \A s \in P : found <= s
  BY <1>3, FirstOfIsFirst
<1>5. \A s \in P : dir[s].head \in Clusters
  BY <1>2 DEF OneConfig
<1> HIDE DEF P, found
<1>6. CASE found # Total /\ pc' = "ready" /\ cfgc' = dir[found].head
  <2>1. ~ Allocating' /\ found \in P /\ cfgc' = dir'[found].head
    BY <1>1, <1>4, <1>6 DEF Allocating
  <2> QED BY <1>2, <1>6, <2>1 DEF ConfigKept, P
<1>7. CASE (found = Total \/ dir[found].head = NoCluster) /\ Allocate(Cfg, 2)
  <2>1. found = Total
    BY <1>4, <1>5, <1>7, ClusterNumbers
  <2>2. P = {}
    <3>1. \A s \in P : s \in 0 .. Total - 1 /\ Total <= s
      BY <1>3, <1>4, <2>1, TotalIsNat
    <3>2. \A s \in P : FALSE
      BY <3>1, TotalIsNat
    <3> QED BY <3>2
  <2>3. CASE pc' = "lost"
    BY <1>2, <2>3 DEF ConfigKept, Allocating
  <2>4. CASE pc' = "mark" /\ op'.name = Cfg /\ op'.head = Unset
    BY <1>2, <2>2, <2>4, ClusterNumbers DEF ConfigKept
  <2> QED BY <1>7, <2>3, <2>4, Begun
<1> QED BY <1>1, <1>6, <1>7

LEMMA CreateKept ==
  ASSUME VolumeInv, ConfigKept, NEW name \in Names \ {Cfg}, NEW n \in Sizes, Create(name, n)
  PROVE  ConfigKept'
<1> SUFFICES ASSUME ~ Damaged' PROVE ConfigKept'
  BY DEF ConfigKept
<1>1. UNCHANGED <<dir, data, overrun, strayed, cfgc>> /\ pc = "ready" /\ Allocate(name, n)
  BY DEF Create, disk
<1>2. ~ Damaged /\ OneConfig(dir', data') /\ Named(dir', Cfg) = Named(dir, Cfg)
  BY <1>1, SameConfig
<1>3. \E s \in Named(dir, Cfg) : cfgc = dir[s].head
  BY <1>1, <1>2 DEF ConfigKept
<1>4. CASE pc' = "lost"
  BY <1>2, <1>4 DEF ConfigKept, Allocating
<1>5. CASE pc' = "mark" /\ op'.name = name
  BY <1>1, <1>2, <1>3, <1>5 DEF ConfigKept
<1> QED BY <1>1, <1>4, <1>5, Begun

LEMMA MarkKept ==
  ASSUME VolumeInv, ConfigKept, MarkCluster
  PROVE  ConfigKept'
<1> SUFFICES ASSUME ~ Damaged' PROVE ConfigKept'
  BY DEF ConfigKept
<1>1. PICK c \in Clusters :
        /\ pc = "mark" /\ pc' = "blank" /\ UNCHANGED <<dir, data, cfgc, overrun, uncovered, parts>>
        /\ op' = [op EXCEPT !.cur = c] /\ (strayed => strayed')
  BY MarkEffect
<1>2. op'.name = op.name /\ op'.head = op.head
  BY <1>1 DEF VolumeInv, TypeOK, Operation
<1>3. ~ Damaged /\ OneConfig(dir', data') /\ Named(dir', Cfg) = Named(dir, Cfg)
  BY <1>1, SameConfig
<1> QED BY <1>1, <1>2, <1>3 DEF ConfigKept, Allocating

\* A cluster that is zeroed is not that of the config file, until it is.
LEMMA BlankKept ==
  ASSUME VolumeInv, Growing, ConfigKept, BlankCluster
  PROVE  ConfigKept'
<1> SUFFICES ASSUME ~ Damaged' PROVE ConfigKept'
  BY DEF ConfigKept
<1>1. pc = "blank" /\ UNCHANGED <<dir, dfat, fat, cfgc, overrun, strayed, uncovered, parts>> /\ Allocating
  BY DEF BlankCluster, Allocating
<1>2. ~ Damaged /\ ~ strayed /\ ~ overrun
  BY <1>1 DEF Damaged
<1>3. op.cur \in Clusters /\ Loose(dir, dfat, op.cur)
  <2>1. op.cur \in Entries /\ op.cur # NoCluster /\ op.cur # Unset
    BY <1>1, <1>2 DEF VolumeInv, TypeOK, Operation, Growing, InFlight
  <2>2. op.cur \in Clusters
    BY <2>1 DEF Entries, Free, Unset
  <2> QED BY <1>1, <1>2, <2>2 DEF VolumeInv, InFlight
<1>4. data' = [data EXCEPT ![op.cur] = "blank"] /\ data \in [Clusters -> Marks]
  BY <1>3, ClusterNumbers DEF BlankCluster, VolumeInv, TypeOK
<1>5. /\ data'[op.cur] = "blank"
      /\ \A c \in Clusters : c # op.cur => data'[c] = data[c]
  BY <1>3, <1>4
<1>6. /\ op'.name = op.name /\ pc' \in {"link", "mark", "dir"}
      /\ op'.head = op.head \/ op'.head = op.cur
  <2>1. CASE op.head # Unset
    BY <2>1 DEF BlankCluster
  <2>2. CASE op.head = Unset
    <3> DEFINE o == [op EXCEPT !.head = op.cur]
    <3>1. o \in Operation /\ o.head = op.cur /\ o.name = op.name
      BY DEF VolumeInv, TypeOK, Operation
    <3>2. op' = Counted(o) /\ pc' = AfterCluster(op')
      BY <2>2 DEF BlankCluster
    <3> HIDE DEF o
    <3>3. op'.name = op.name /\ op'.head = op.cur /\ pc' \in {"mark", "dir"}
      BY <3>1, <3>2, CountedFields
    <3> QED BY <3>3
  <2> QED BY <2>1, <2>2
<1>7. /\ OneConfig(dir, data)
      /\ op.name = Cfg => Named(dir, Cfg) = {} /\ (op.head \in Clusters => data[op.head] = "blank")
      /\ op.name # Cfg => \E s \in Named(dir, Cfg) : cfgc = dir[s].head
  BY <1>1, <1>2 DEF ConfigKept
<1>8. OneConfig(dir, data')
  <2>1. \A s \in Named(dir, Cfg) : dir[s].head \in Clusters => dir[s].head # op.cur
    BY <1>3 DEF Named, Loose, Heads
  <2>2. "blank" # "config"
    OBVIOUS
  <2>3. \A s \in Named(dir, Cfg) : dir[s].head \in Clusters /\ data'[dir[s].head] \in {"blank", "config"}
    BY <1>5, <1>7, <2>1 DEF OneConfig
  <2>4. \A c \in Clusters : data'[c] = "config" => \E s \in Named(dir, Cfg) : dir[s].head = c
    <3> SUFFICES ASSUME NEW c \in Clusters, data'[c] = "config"
                 PROVE  \E s \in Named(dir, Cfg) : dir[s].head = c
      OBVIOUS
    <3>1. data[c] = "config"
      BY <1>5, <2>2
    <3> QED BY <1>7, <3>1 DEF OneConfig
  <2> QED BY <1>7, <2>3, <2>4 DEF OneConfig
<1>9. op.name = Cfg => Named(dir, Cfg) = {} /\ (op'.head \in Clusters => data'[op'.head] = "blank")
  BY <1>5, <1>6, <1>7
<1>10. Allocating' /\ pc' # "ready"
  BY <1>6 DEF Allocating
<1> QED BY <1>1, <1>6, <1>7, <1>8, <1>9, <1>10 DEF ConfigKept

LEMMA LinkKept ==
  ASSUME VolumeInv, Growing, ConfigKept, LinkCluster
  PROVE  ConfigKept'
<1> SUFFICES ASSUME ~ Damaged' PROVE ConfigKept'
  BY DEF ConfigKept
<1>1. /\ pc = "link" /\ UNCHANGED <<dir, cfgc, overrun, strayed, uncovered, parts>>
      /\ op' = Counted(op) /\ pc' = AfterCluster(op')
      /\ op.prev # NoCluster => data' = data
  BY LinkEffect
<1>2. Allocating /\ ~ strayed /\ ~ overrun
  BY <1>1 DEF Allocating, Damaged
<1>3. op.prev # NoCluster
  BY <1>2 DEF Growing
<1>4. ~ Damaged /\ OneConfig(dir', data') /\ Named(dir', Cfg) = Named(dir, Cfg)
  BY <1>1, <1>3, SameConfig
<1>5. op'.name = op.name /\ op'.head = op.head /\ pc' \in {"mark", "dir"}
  BY <1>1, CountedFields DEF VolumeInv, TypeOK
<1>6. Allocating' /\ pc' # "ready"
  BY <1>5 DEF Allocating
<1> QED BY <1>1, <1>2, <1>3, <1>4, <1>5, <1>6 DEF ConfigKept

\* The record makes the file just blanked the config file, or leaves that alone.
LEMMA WriteDirKept ==
  ASSUME VolumeInv, Growing, ConfigKept, WriteDir
  PROVE  ConfigKept'
<1> SUFFICES ASSUME ~ Damaged' PROVE ConfigKept'
  BY DEF ConfigKept
<1>1. /\ pc = "dir" /\ dir' = Filled(dir, op) /\ UNCHANGED <<dfat, data, fat, overrun, strayed, parts>>
      /\ dir \in [Slots -> Record] /\ op.slot \in Slots /\ op.slot = Limit(dir) /\ TailClear(dir)
      /\ op.name \in Names /\ op.name # NoName /\ Allocating /\ op \in Operation
  BY NamesAssumption DEF WriteDir, VolumeInv, TypeOK, Operation, SlotHeld, Allocating, Growing
<1>2. ~ Damaged /\ ~ strayed /\ ~ overrun
  BY <1>1 DEF Damaged
<1>3. /\ Live(dir') = Live(dir) \cup {op.slot}
      /\ \A s \in Live(dir) : s \in Nat /\ s < op.slot /\ dir'[s] = dir[s]
      /\ dir'[op.slot].name = op.name /\ dir'[op.slot].head = op.head
  BY <1>1, FilledFiles
<1>4. /\ OneConfig(dir, data)
      /\ op.name = Cfg => Named(dir, Cfg) = {} /\ (op.head \in Clusters => data[op.head] = "blank")
      /\ op.name # Cfg => \E s \in Named(dir, Cfg) : cfgc = dir[s].head
  BY <1>1, <1>2 DEF ConfigKept
<1>5. op.head \in Clusters
  <2>1. op.head \in Entries /\ op.head # NoCluster /\ op.head # Unset
    BY <1>1, <1>2 DEF Operation, Growing, VolumeInv, InFlight
  <2> QED BY <2>1 DEF Entries, Free, Unset
<1>6. \/ pc' = "copy" /\ UNCHANGED <<op, cfgc>>
      \/ pc' = "ready" /\ cfgc' = IF op.name = Cfg THEN op.head ELSE cfgc
  BY DEF WriteDir, Return
<1>7. ~ Allocating'
  BY <1>6 DEF Allocating
<1>8. CASE op.name = Cfg
  <2>1. Named(dir', Cfg) = {op.slot}
    BY <1>3, <1>4, <1>8 DEF Named
  <2>2. \A c \in Clusters : data[c] # "config"
    BY <1>4, <1>8 DEF OneConfig
  <2>3. OneConfig(dir', data')
    BY <1>1, <1>3, <1>4, <1>5, <1>8, <2>1, <2>2 DEF OneConfig
  <2> QED BY <1>3, <1>6, <1>7, <1>8, <2>1, <2>3 DEF ConfigKept
<1>9. CASE op.name # Cfg
  <2>1. Named(dir', Cfg) = Named(dir, Cfg) /\ \A s \in Named(dir, Cfg) : dir'[s] = dir[s]
    BY <1>3, <1>9 DEF Named
  <2>2. OneConfig(dir', data')
    BY <1>1, <1>4, <2>1 DEF OneConfig
  <2>3. cfgc' = cfgc
    BY <1>6, <1>9
  <2> QED BY <1>4, <1>7, <1>9, <2>1, <2>2, <2>3 DEF ConfigKept
<1> QED BY <1>8, <1>9

LEMMA CopyKept ==
  ASSUME VolumeInv, ConfigKept, CopySector
  PROVE  ConfigKept'
<1> SUFFICES ASSUME ~ Damaged' PROVE ConfigKept'
  BY DEF ConfigKept
<1>1. /\ pc = "copy" /\ dir' = Copied(dir, op) /\ UNCHANGED <<dfat, data, fat, overrun, strayed, uncovered, parts>>
      /\ dir \in [Slots -> Record] /\ op.slot \in Slots /\ op.slot + 1 = Limit(dir)
      /\ SectorEnd(op.slot) /\ Filled(dir, op) = dir /\ ClearFrom(dir, op.slot) /\ TailClear(dir)
      /\ pc' = "ready" /\ cfgc' = IF op.name = Cfg THEN op.head ELSE cfgc
  BY DEF CopySector, Return, VolumeInv, TypeOK, Operation, SlotHeld
<1>2. ~ Damaged /\ OneConfig(dir, data)
  BY <1>1 DEF Damaged, ConfigKept
<1>3. Live(dir') = Live(dir) /\ \A s \in Live(dir) : dir'[s] = dir[s]
  BY <1>1, CopiedFiles
<1>4. Named(dir', Cfg) = Named(dir, Cfg) /\ \A s \in Named(dir, Cfg) : dir'[s] = dir[s]
  BY <1>3 DEF Named
<1>5. OneConfig(dir', data')
  BY <1>1, <1>2, <1>4 DEF OneConfig
<1>6. \E s \in Named(dir, Cfg) : cfgc' = dir[s].head
  <2>1. CASE op.name = Cfg
    <3>1. dir[op.slot] = [end |-> FALSE, lfn |-> FALSE, name |-> op.name, head |-> op.head]
      <4>1. Filled(dir, op)[op.slot] = [end |-> FALSE, lfn |-> FALSE, name |-> op.name, head |-> op.head]
        BY <1>1 DEF Filled
      <4> QED BY <1>1, <4>1
    <3>2. dir[op.slot].lfn = FALSE /\ dir[op.slot].name = Cfg /\ dir[op.slot].head = op.head /\ Cfg # NoName
      BY <2>1, <3>1, NamesAssumption
    <3>3. op.slot < Limit(dir)
      BY <1>1, TotalIsNat
    <3>4. op.slot \in Named(dir, Cfg)
      BY <1>1, <3>2, <3>3 DEF Named, Live
    <3> QED BY <1>1, <2>1, <3>2, <3>4
  <2>2. CASE op.name # Cfg
    BY <1>1, <1>2, <2>2 DEF ConfigKept
  <2> QED BY <2>1, <2>2
<1>7. ~ Allocating' /\ \E s \in Named(dir', Cfg) : cfgc' = dir'[s].head
  BY <1>1, <1>4, <1>6 DEF Allocating
<1> QED BY <1>1, <1>5, <1>7 DEF ConfigKept

LEMMA WriteConfigKept ==
  ASSUME VolumeInv, ConfigKept, WriteConfig
  PROVE  ConfigKept'
<1> SUFFICES ASSUME ~ Damaged' PROVE ConfigKept'
  BY DEF ConfigKept
<1>1. /\ pc = "ready" /\ cfgc \in Clusters /\ data' = [data EXCEPT ![cfgc] = "config"]
      /\ UNCHANGED <<dir, dfat, fat, pc, op, cfgc, overrun, strayed, uncovered, parts>> /\ data \in [Clusters -> Marks]
  BY DEF WriteConfig, VolumeInv, TypeOK
<1>2. ~ Damaged /\ OneConfig(dir, data) /\ \E s \in Named(dir, Cfg) : cfgc = dir[s].head
  BY <1>1 DEF Damaged, ConfigKept
<1>3. data'[cfgc] = "config" /\ \A c \in Clusters : c # cfgc => data'[c] = data[c]
  BY <1>1
<1>4. OneConfig(dir, data')
  BY <1>2, <1>3 DEF OneConfig
<1>5. ~ Allocating'
  BY <1>1 DEF Allocating
<1> QED BY <1>1, <1>2, <1>4, <1>5 DEF ConfigKept

LEMMA ConfigStep ==
  ASSUME VolumeInv, Growing, ConfigKept, [Next]_vars
  PROVE  ConfigKept'
<1>1. ASSUME UNCHANGED <<dir, data, overrun, strayed>>, pc' \notin {"mark", "blank", "link", "dir", "copy", "ready"}
      PROVE  ConfigKept'
  <2>1. Damaged' \/ OneConfig(dir', data')
    BY <1>1, SameConfig
  <2> QED BY <1>1, <2>1 DEF ConfigKept, Allocating
<1>2. CASE Mount
  BY <1>1, <1>2 DEF Mount, ReadTable, disk
<1>3. CASE Restart
  BY <1>1, <1>3 DEF Restart, disk
<1>4. ASSUME NEW name \in Names \ {Cfg}, NEW n \in Sizes, Create(name, n) PROVE ConfigKept'
  BY <1>4, CreateKept
<1>5. CASE DiskFull
  BY <1>5 DEF DiskFull, ConfigKept, Damaged
<1>6. CASE InitConfig \/ MarkCluster
  BY <1>6, InitConfigKept, MarkKept
<1>7. CASE BlankCluster \/ LinkCluster
  BY <1>7, BlankKept, LinkKept
<1>8. CASE WriteDir \/ CopySector \/ WriteConfig
  BY <1>8, WriteDirKept, CopyKept, WriteConfigKept
<1>9. CASE UNCHANGED vars
  BY <1>9 DEF vars, disk, ConfigKept, Damaged, Allocating
<1> QED BY <1>2, <1>3, <1>4, <1>5, <1>6, <1>7, <1>8, <1>9 DEF Next, Work

(***************************************************************************)
(* The theorems.                                                            *)
(***************************************************************************)

\* The file being made is a chain of its own, which grows by one cluster for each
\* that is counted (alloc_local_file_at), whenever the power fails.
THEOREM FilesInvariance ==
  ASSUME \A v \in Volumes : SoundVolume(v)
  PROVE  Spec => [](VolumeInv /\ Growing /\ Counting)
<1>1. Init => VolumeInv /\ Growing /\ Counting
  BY InitInv DEF Init, Growing, Counting, Allocating
<1>2. VolumeInv /\ Growing /\ Counting /\ [Next]_vars => Growing' /\ Counting'
  BY GrowingStep
<1> QED BY <1>1, <1>2, VolumeInvariance, PTL DEF Spec

\* What a card may come with besides: at most one config file, and no entries of
\* ids outside of it.
ConfigVolume(v) == OneConfig(v.dir, v.data)

\* All of this, and the config file is made once and known from then on
\* (dfs_init_config), on cards that come with at most one.
THEOREM Invariance ==
  ASSUME \A v \in Volumes : SoundVolume(v) /\ ConfigVolume(v)
  PROVE  Spec => []IInv
<1>1. Init => ConfigKept
  BY DEF Init, ConfigKept, ConfigVolume, Allocating
<1>2. VolumeInv /\ Growing /\ ConfigKept /\ [Next]_vars => ConfigKept'
  BY ConfigStep
<1>3. VolumeInv /\ Growing /\ Counting /\ ConfigKept => IInv
  BY DEF IInv
<1>4. \A v \in Volumes : SoundVolume(v)
  OBVIOUS
<1>5. Spec => [](VolumeInv /\ Growing /\ Counting)
  BY <1>4, FilesInvariance
<1> QED BY <1>1, <1>2, <1>3, <1>5, PTL DEF Spec

\* On the card the volume implements FileStore: whenever the power fails, each file
\* is there at once and whole or not at all, on clusters of its own
\* (fat32_alloc_local_file's order of writes), unless a cluster was taken whose
\* entry was never read.
THEOREM IsFileStore ==
  ASSUME \A v \in Volumes : SoundVolume(v)
  PROVE  Spec => ImplementsFileStore
<1>1. Init => Store!Init
  BY InitStore
<1>2. VolumeInv /\ Growing /\ VolumeInv' /\ [Next]_vars => [~ strayed' => Store!Next]_Visible
  BY StoreStep
<1> QED BY <1>1, <1>2, FilesInvariance, PTL DEF Spec, ImplementsFileStore

\* A file whose record is about to be written has as many clusters as were asked
\* for (fat32_alloc_local_file's num_clusters), linked on the card.
THEOREM SizeUnlessFullHolds ==
  ASSUME \A v \in Volumes : SoundVolume(v)
  PROVE  Spec => []SizeUnlessFull
<1>1. VolumeInv /\ Counting => SizeUnlessFull
  <2> SUFFICES ASSUME VolumeInv, Counting, pc = "dir", ~ Damaged
               PROVE  Len(FileChain(dfat, op.head)) = IF op.size = 0 THEN 1 ELSE op.size
    BY DEF SizeUnlessFull
  <2>1. /\ Len(FileChain(dfat, op.head)) = op.size - op.left
        /\ op.left = IF op.size = 0 THEN -1 ELSE 0
    BY DEF Counting, Allocating
  <2>2. op.size \in Nat
    BY DEF VolumeInv, TypeOK, Operation
  <2> QED BY <2>1, <2>2
<1> QED BY <1>1, FilesInvariance, PTL

\* dfs_init_config comes back with the one config file there is, whose first sector
\* holds entries or zeros, whatever restarts there were.
THEOREM ConfigFoundAgainHolds ==
  ASSUME \A v \in Volumes : SoundVolume(v) /\ ConfigVolume(v)
  PROVE  Spec => []ConfigFoundAgain
<1>1. IInv => ConfigFoundAgain
  <2> SUFFICES ASSUME ConfigKept, pc = "ready", ~ Damaged
               PROVE  /\ cfgc \in Clusters /\ data[cfgc] \in {"blank", "config"}
                      /\ Configured \subseteq {cfgc}
    BY DEF IInv, ConfigFoundAgain
  <2>1. OneConfig(dir, data)
    BY DEF ConfigKept
  <2>2. PICK s \in Named(dir, Cfg) : cfgc = dir[s].head
    BY DEF ConfigKept
  <2> QED BY <2>1, <2>2 DEF OneConfig, Configured
<1> QED BY <1>1, Invariance, PTL

\* A step that writes to a cluster of a file.
LEMMA FilesKeptStep ==
  ASSUME VolumeInv, Growing, [Next]_vars, data' # data,
         NEW file \in Files(dir, dfat), NEW c \in ClustersOf(file), data'[c] # data[c]
  PROVE  c = cfgc \/ Damaged'
<1>1. CASE DiskFull
  BY <1>1 DEF DiskFull, Damaged
<1>2. CASE LinkCluster
  <2>1. /\ pc = "link" /\ overrun' = overrun /\ strayed' = strayed
        /\ op.prev # NoCluster => data' = data
    BY <1>2, LinkEffect
  <2>2. op.prev = NoCluster /\ Allocating
    BY <2>1 DEF Allocating
  <2>3. strayed \/ overrun
    BY <2>2 DEF Growing
  <2> QED BY <2>1, <2>3 DEF Damaged
<1>3. CASE BlankCluster
  <2>1. /\ pc = "blank" /\ UNCHANGED <<dir, dfat, overrun, strayed>> /\ op.cur # NoCluster
        /\ data' = [data EXCEPT ![op.cur] = "blank"] /\ data \in [Clusters -> Marks]
    BY <1>3 DEF BlankCluster, VolumeInv, TypeOK
  <2>2. c = op.cur
    BY <2>1
  <2>3. SUFFICES ASSUME ~ strayed PROVE FALSE
    BY <2>1 DEF Damaged
  <2>4. PICK s \in Live(dir) : file = FileAt(dir, dfat, s)
    BY FilesAre
  <2>5. dir \in [Slots -> Record] /\ dfat \in [Clusters -> Entries] /\ SoundTable(dir, dfat)
    BY <2>3 DEF VolumeInv, TypeOK, Sound
  <2> DEFINE h == dir[s].head
  <2>6. /\ h \in Clusters => h \in Heads(dir) /\ dfat[h] # Free
        /\ LinksInUse(dfat)
    BY <2>5, HeadsOfFiles DEF SoundTable
  <2>7. c \in OnChain(dfat, h)
    BY <2>4, FileIs
  <2> HIDE DEF h
  <2>8. c \in Clusters /\ (c = h \/ c \in Linked(dfat))
    BY <2>6, <2>7, OnChainInUse
  <2>9. Loose(dir, dfat, c)
    BY <2>1, <2>2, <2>3, <2>8 DEF VolumeInv, InFlight
  <2> QED BY <2>6, <2>8, <2>9 DEF Loose
<1>4. CASE WriteConfig
  BY <1>4 DEF WriteConfig, VolumeInv, TypeOK
<1>5. CASE Mount \/ InitConfig \/ Restart \/ CopySector
  BY <1>5 DEF Mount, InitConfig, Restart, CopySector, disk
<1>6. CASE MarkCluster \/ WriteDir
  BY <1>6 DEF MarkCluster, WriteDir
<1>7. ASSUME NEW name \in Names, NEW n \in Sizes, Create(name, n) PROVE FALSE
  BY <1>7 DEF Create, disk
<1>8. CASE UNCHANGED vars
  BY <1>8 DEF vars, disk
<1> QED BY <1>1, <1>2, <1>3, <1>4, <1>5, <1>6, <1>7, <1>8 DEF Next, Work

\* No step writes to a file that is in the directory, but id_for_dfs to the config
\* file: not the blanking of a new cluster, and a wild write only on a full card.
THEOREM FilesKeptHolds ==
  ASSUME \A v \in Volumes : SoundVolume(v)
  PROVE  Spec => FilesKept
<1>1. VolumeInv /\ Growing /\ [Next]_vars =>
        [data' # data =>
           \A file \in Files(dir, dfat) : \A c \in ClustersOf(file) :
              data'[c] # data[c] => c = cfgc \/ Damaged']_vars
  BY FilesKeptStep
<1> QED BY <1>1, FilesInvariance, PTL DEF Spec, FilesKept
=============================================================================
