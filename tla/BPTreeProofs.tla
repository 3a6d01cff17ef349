---------------------------- MODULE BPTreeProofs ----------------------------
(***************************************************************************)
(* The tree of BPTree and of its port, PrimaryTree, is a B+ tree after     *)
(* every command, for every order and every set of keys.                   *)
(***************************************************************************)
EXTENDS PrimaryTree, TreeShapeProofs

-----------------------------------------------------------------------------
(* Recursion.                                                              *)

\* What f is at a place depends on its values at places of a lower rank.
Ranked(D, V, B, rank, G) ==
    /\ V # {} /\ B \in Nat
    /\ \A d \in D : rank[d] \in Nat /\ rank[d] <= B
    /\ \A d \in D : \A f \in [D -> V] : G[d][f] \in V
    /\ \A d \in D : \A f, g \in [D -> V] :
          (\A e \in D : rank[e] < rank[d] => f[e] = g[e]) => G[d][f] = G[d][g]

Solvable(D, V, G) == \E f \in [D -> V] : \A d \in D : f[d] = G[d][f]

\* A function that is defined from its values at places of a lower rank
\* exists.
LEMMA RankRecursion ==
    ASSUME NEW D, NEW V, NEW B, NEW rank, NEW G, Ranked(D, V, B, rank, G)
    PROVE  Solvable(D, V, G)
<1> USE DEF Ranked
<1> DEFINE Upto(R) == \E f \in [D -> V] : \A d \in D : rank[d] < R => f[d] = G[d][f]
           S == {R \in Nat : ~ Upto(R)}
<1>1. S = {}
  <2>1. SUFFICES ASSUME S # {}
                 PROVE  FALSE
    OBVIOUS
  <2>2. PICK R \in S : \A e \in S : R <= e
    <3>1. S \subseteq Nat
      OBVIOUS
    <3> HIDE DEF S
    <3> QED
      BY <2>1, <3>1, LeastElement
  <2>3. R \in Nat /\ ~ Upto(R)
    OBVIOUS
  <2>4. CASE R = 0
    <3>1. PICK v \in V : TRUE
      OBVIOUS
    <3>2. [d \in D |-> v] \in [D -> V]
      OBVIOUS
    <3>3. \A d \in D : ~ (rank[d] < 0)
      OBVIOUS
    <3>4. Upto(0)
      BY <3>2, <3>3
    <3> QED
      BY <2>3, <2>4, <3>4
  <2>5. CASE R # 0
    <3>1. R - 1 \in Nat /\ ~ (R <= R - 1)
      BY <2>3, <2>5
    <3>2. Upto(R - 1)
      BY <2>2, <3>1
    <3>3. PICK g \in [D -> V] : \A d \in D : rank[d] < R - 1 => g[d] = G[d][g]
      BY <3>2
    <3> DEFINE f == [d \in D |-> G[d][g]]
    <3>4. f \in [D -> V]
      OBVIOUS
    <3>5. \A d \in D : f[d] = G[d][g]
      OBVIOUS
    <3> HIDE DEF f
    <3>6. ASSUME NEW d \in D, rank[d] < R
          PROVE  f[d] = G[d][f]
      <4>1. \A e \in D : rank[e] < rank[d] => rank[e] < R - 1
        <5>1. rank[d] \in Nat /\ \A e \in D : rank[e] \in Nat
          OBVIOUS
        <5> QED
          BY <2>3, <3>6, <5>1
      <4>2. \A e \in D : rank[e] < rank[d] => g[e] = f[e]
        BY <3>3, <3>5, <4>1
      <4>3. G[d][g] = G[d][f]
        BY <3>4, <4>2
      <4> QED
        BY <3>5, <4>3
    <3>7. Upto(R)
      BY <3>4, <3>6
    <3> QED
      BY <2>3, <3>7
  <2> QED
    BY <2>4, <2>5
<1>2. Upto(B + 1)
  <2>1. \A R \in Nat : Upto(R)
    BY <1>1
  <2> HIDE DEF Upto
  <2> QED
    BY <2>1
<1>3. \A d \in D : rank[d] < B + 1
  OBVIOUS
<1> QED
  BY <1>2, <1>3 DEF Solvable

-----------------------------------------------------------------------------
(* Walks down and up.                                                      *)

\* No node is deeper than the leaves.
LEMMA DepthWithinHeight ==
    ASSUME NEW N, NEW r, NEW dep, NEW H, NEW low, NEW high, Shape(N, r, dep, H, low, high)
    PROVE  \A n \in DOMAIN N : dep[n] \in Nat /\ dep[n] <= H /\ H \in Nat
<1> TAKE n \in DOMAIN N
<1>1. dep[n] \in Nat /\ H \in Nat
  BY DEF Shape, Measured
<1>2. N[n].leaf => dep[n] = H
  BY DEF Shape, LeavesShaped
<1>3. ~ N[n].leaf => dep[n] < H
  BY DEF Shape, InnerShaped
<1> QED
  BY <1>1, <1>2, <1>3

\* What holds of a node when it holds of all deeper nodes holds of all.
LEMMA BottomUp ==
    ASSUME NEW N, NEW r, NEW dep, NEW H, NEW low, NEW high, Shape(N, r, dep, H, low, high),
           NEW S,
           \A n \in DOMAIN N : (\A m \in DOMAIN N : dep[m] > dep[n] => m \in S) => n \in S
    PROVE  DOMAIN N \subseteq S
<1>1. SUFFICES ASSUME NEW x \in DOMAIN N, x \notin S
               PROVE  FALSE
  OBVIOUS
<1>2. \A n \in DOMAIN N : dep[n] \in Nat /\ dep[n] <= H /\ H \in Nat
  BY DepthWithinHeight
<1> DEFINE Bad == {n \in DOMAIN N : n \notin S}
           Heights == {H - dep[n] : n \in Bad}
<1>3. Heights \subseteq Nat /\ Heights # {}
  BY <1>1, <1>2
<1>4. PICK h \in Heights : \A g \in Heights : h <= g
  BY <1>3, LeastElement
<1>5. PICK n \in Bad : h = H - dep[n]
  OBVIOUS
<1>6. \A m \in DOMAIN N : dep[m] > dep[n] => m \in S
  <2> SUFFICES ASSUME NEW m \in DOMAIN N, dep[m] > dep[n], m \notin S
               PROVE  FALSE
    OBVIOUS
  <2>1. H - dep[n] <= H - dep[m]
    BY <1>4, <1>5
  <2>2. dep[m] \in Nat /\ dep[n] \in Nat /\ H \in Nat
    BY <1>2
  <2> QED
    BY <2>1, <2>2
<1> QED
  BY <1>6

\* What holds of a node when it holds of all nodes above its level holds of all.
LEMMA TopDown ==
    ASSUME NEW N, NEW r, NEW dep, NEW H, NEW low, NEW high, Shape(N, r, dep, H, low, high),
           NEW S,
           \A n \in DOMAIN N : (\A m \in DOMAIN N : dep[m] < dep[n] => m \in S) => n \in S
    PROVE  DOMAIN N \subseteq S
<1>1. SUFFICES ASSUME NEW x \in DOMAIN N, x \notin S
               PROVE  FALSE
  OBVIOUS
<1>2. \A n \in DOMAIN N : dep[n] \in Nat
  BY DepthWithinHeight
<1> DEFINE Bad == {n \in DOMAIN N : n \notin S}
           Depths == {dep[n] : n \in Bad}
<1>3. Depths \subseteq Nat /\ Depths # {}
  BY <1>1, <1>2
<1>4. PICK h \in Depths : \A g \in Depths : h <= g
  BY <1>3, LeastElement
<1>5. PICK n \in Bad : h = dep[n]
  OBVIOUS
<1>6. \A m \in DOMAIN N : dep[m] < dep[n] => m \in S
  <2> SUFFICES ASSUME NEW m \in DOMAIN N, dep[m] < dep[n], m \notin S
               PROVE  FALSE
    OBVIOUS
  <2>1. dep[n] <= dep[m]
    BY <1>4, <1>5
  <2>2. dep[m] \in Nat /\ dep[n] \in Nat
    BY <1>2
  <2> QED
    BY <2>1, <2>2
<1> QED
  BY <1>6

-----------------------------------------------------------------------------
(* Lookup.                                                                 *)

\* The search of find_leaf() is defined by the step it takes.
SearchStep(T, key, f) ==
    \A n \in DOMAIN T.nodes :
        f[n] = IF T.nodes[n].leaf THEN n ELSE f[T.nodes[n].ptrs[ChildIndex(T.nodes[n], key)]]

LEMMA LeafBelowDefined ==
    ASSUME NEW T, NEW dep, NEW H, NEW low, NEW high, NEW key,
           Shape(T.nodes, T.root, dep, H, low, high)
    PROVE  SearchStep(T, key, LeafBelow(T, key))
<1> DEFINE N == T.nodes
           D == DOMAIN N
           next(n) == N[n].ptrs[ChildIndex(N[n], key)]
           Is(f) == f = [n \in D |-> IF N[n].leaf THEN n ELSE f[next(n)]]
           rank == [n \in D |-> H - dep[n]]
           G == [n \in D |-> [f \in [D -> D] |-> IF N[n].leaf THEN n ELSE f[next(n)]]]
<1>1. \A n \in D : dep[n] \in Nat /\ dep[n] <= H /\ H \in Nat
  BY DepthWithinHeight
<1>2. ASSUME NEW n \in D, ~ N[n].leaf
      PROVE  next(n) \in D /\ rank[next(n)] < rank[n]
  <2>1. N[n].keys \in Seq(Nat) /\ Len(N[n].keys) \in Nat
    BY TypesOfNodes DEF Shape
  <2>2. ChildIndex(N[n], key) \in 1 .. (Len(N[n].keys) + 1)
    BY <2>1, ChildIndexProperties
  <2>3. next(n) \in D /\ dep[next(n)] = dep[n] + 1
    BY <1>2, <2>2 DEF Shape, InnerShaped
  <2> HIDE DEF next
  <2> QED
    BY <1>1, <2>3
<1>3. H \in Nat /\ \A n \in D : rank[n] \in Nat /\ rank[n] <= H
  <2>1. H \in Nat
    BY DEF Shape, Measured
  <2> QED
    BY <1>1, <2>1
<1>4. \A n \in D : \A f \in [D -> D] : G[n][f] \in D
  BY <1>2
<1> HIDE DEF rank, next
<1>5. \A n \in D : \A f, g \in [D -> D] :
         (\A e \in D : rank[e] < rank[n] => f[e] = g[e]) => G[n][f] = G[n][g]
  BY <1>2
<1>6. D # {}
  BY DEF Shape, Rooted
<1>7. \A n \in D, f \in [D -> D] : G[n][f] = IF N[n].leaf THEN n ELSE f[next(n)]
  OBVIOUS
<1> HIDE DEF G, D
<1>8. PICK f \in [D -> D] : \A n \in D : f[n] = G[n][f]
  <2>1. H \in Nat
    BY <1>3
  <2>2. \A n \in D : rank[n] \in Nat /\ rank[n] <= H
    BY <1>3
  <2>3. Ranked(D, D, H, rank, G)
    BY <2>1, <2>2, <1>4, <1>5, <1>6 DEF Ranked
  <2> QED
    BY <2>3, RankRecursion DEF Solvable
<1>9. Is(f)
  BY <1>7, <1>8
<1>10. LeafBelow(T, key) = CHOOSE g : Is(g)
  BY DEF LeafBelow, D, next
<1>11. Is(LeafBelow(T, key))
  BY <1>9, <1>10
<1> QED
  BY <1>11 DEF D, next, SearchStep

\* The child a search follows is on the way to the key.
LEMMA ChildCovers ==
    ASSUME NEW N, NEW r, NEW dep, NEW H, NEW low, NEW high, Shape(N, r, dep, H, low, high),
           NEW n \in DOMAIN N, ~ N[n].leaf, NEW key \in Nat
    PROVE  LET m == N[n].ptrs[ChildIndex(N[n], key)] IN
           /\ ChildIndex(N[n], key) \in 1 .. Len(N[n].ptrs)
           /\ m \in DOMAIN N /\ dep[m] = dep[n] + 1
           /\ Covers(low, high, n, key) => Covers(low, high, m, key)
<1> DEFINE i == ChildIndex(N[n], key)
           s == N[n].keys
           m == N[n].ptrs[i]
           lo == low[n]
           hi == high[n]
<1>1. s \in Seq(Nat) /\ Len(s) \in Nat
  BY TypesOfNodes DEF Shape
<1>2. lo \in Nat /\ hi \in Nat
  BY TypesOfMeasures DEF Shape
<1>3. i \in 1 .. (Len(s) + 1)
  BY <1>1, ChildIndexProperties
<1>4. \A j \in 1 .. Len(s) : j < i => ~ (key < s[j])
  BY <1>1, ChildIndexProperties
<1>5. i <= Len(s) => key < s[i]
  BY <1>1, ChildIndexProperties
<1>6. Len(N[n].ptrs) = Len(s) + 1
  BY DEF Shape, InnerShaped
<1>7. i \in 1 .. Len(N[n].ptrs)
  BY <1>3, <1>6
<1>8. m \in DOMAIN N /\ dep[m] = dep[n] + 1 /\ low[m] = LowAt(s, lo, i) /\ high[m] = HighAt(s, hi, i)
  BY <1>7 DEF Shape, InnerShaped
<1>9. \A j \in 1 .. Len(s) : s[j] \in Nat
  BY <1>1
<1>10. ASSUME Covers(low, high, n, key)
       PROVE  Covers(low, high, m, key)
  <2>1. lo <= key /\ (hi = 0 \/ key < hi)
    BY <1>10 DEF Covers
  <2>2. LowAt(s, lo, i) <= key
    <3> HIDE DEF i, s, lo, hi
    <3>1. CASE i = 1
      BY <2>1, <3>1 DEF LowAt
    <3>2. CASE i # 1
      <4>1. i - 1 \in 1 .. Len(s) /\ i - 1 < i
        BY <1>1, <1>3, <3>2
      <4>2. ~ (key < s[i - 1]) /\ s[i - 1] \in Nat
        BY <1>4, <1>9, <4>1
      <4> QED
        BY <3>2, <4>2 DEF LowAt
    <3> QED
      BY <3>1, <3>2
  <2>3. HighAt(s, hi, i) = 0 \/ key < HighAt(s, hi, i)
    <3> HIDE DEF i, s, lo, hi
    <3>1. CASE i = Len(s) + 1
      BY <2>1, <3>1 DEF HighAt
    <3>2. CASE i # Len(s) + 1
      <4>1. i <= Len(s)
        BY <1>1, <1>3, <3>2
      <4> QED
        BY <1>5, <3>2, <4>1 DEF HighAt
    <3> QED
      BY <3>1, <3>2
  <2> HIDE DEF m, i, s, lo, hi
  <2> QED
    BY <1>8, <2>2, <2>3 DEF Covers
<1> QED
  BY <1>7, <1>8, <1>10

\* A search ends in a leaf that covers the key.
LEMMA LeafBelowCovers ==
    ASSUME NEW T, NEW dep, NEW H, NEW low, NEW high, NEW key \in Nat,
           Shape(T.nodes, T.root, dep, H, low, high)
    PROVE  \A n \in DOMAIN T.nodes : Covers(low, high, n, key) =>
              LET m == LeafBelow(T, key)[n] IN
              m \in DOMAIN T.nodes /\ T.nodes[m].leaf /\ Covers(low, high, m, key)
<1> DEFINE N == T.nodes
           Ends(m) == m \in DOMAIN N /\ N[m].leaf /\ Covers(low, high, m, key)
           S == {n \in DOMAIN N : Covers(low, high, n, key) => Ends(LeafBelow(T, key)[n])}
<1>0. \A n \in DOMAIN N :
         LeafBelow(T, key)[n] =
            IF N[n].leaf THEN n ELSE LeafBelow(T, key)[N[n].ptrs[ChildIndex(N[n], key)]]
  <2>1. SearchStep(T, key, LeafBelow(T, key))
    BY LeafBelowDefined
  <2> QED
    BY <2>1 DEF SearchStep
<1>1. ASSUME NEW n \in DOMAIN N, \A m \in DOMAIN N : dep[m] > dep[n] => m \in S
      PROVE  n \in S
  <2>1. CASE N[n].leaf
    <3>1. LeafBelow(T, key)[n] = n
      BY <1>0, <2>1
    <3> QED
      BY <2>1, <3>1
  <2>2. CASE ~ N[n].leaf
    <3> DEFINE m == N[n].ptrs[ChildIndex(N[n], key)]
    <3>1. LeafBelow(T, key)[n] = LeafBelow(T, key)[m]
      BY <1>0, <2>2
    <3>2. m \in DOMAIN N /\ dep[m] = dep[n] + 1
      BY <2>2, ChildCovers, SMTT(30)
    <3>3. Covers(low, high, n, key) => Covers(low, high, m, key)
      BY <2>2, ChildCovers
    <3>4. dep[n] \in Nat
      BY DepthWithinHeight
    <3> HIDE DEF m, Ends
    <3>5. m \in S
      BY <1>1, <3>2, <3>4
    <3> QED
      BY <3>1, <3>3, <3>5
  <2> QED
    BY <2>1, <2>2
<1>2. DOMAIN N \subseteq S
  <2> HIDE DEF S
  <2> QED
    BY <1>1, BottomUp
<1> QED
  BY <1>2

LEMMA FindLeafCovers ==
    ASSUME NEW T, NEW dep, NEW H, NEW low, NEW high, NEW key \in Nat,
           Shape(T.nodes, T.root, dep, H, low, high)
    PROVE  LET m == FindLeaf(T, key) IN
           m \in DOMAIN T.nodes /\ T.nodes[m].leaf /\ Covers(low, high, m, key)
<1>1. T.root \in DOMAIN T.nodes /\ low[T.root] = 0 /\ high[T.root] = 0
  BY DEF Shape, Rooted
<1>2. T.root # Null
  BY <1>1, TypesOfNodes DEF Shape, Null
<1>3. FindLeaf(T, key) = LeafBelow(T, key)[T.root]
  BY <1>2 DEF FindLeaf
<1>4. Covers(low, high, T.root, key)
  BY <1>1 DEF Covers
<1> QED
  BY <1>1, <1>3, <1>4, LeafBelowCovers

\* find() returns the record of a key that some leaf has, and NULL for others.
LEMMA FindProperties ==
    ASSUME NEW T, NEW dep, NEW H, NEW low, NEW high, NEW key \in Nat \ {0},
           Shape(T.nodes, T.root, dep, H, low, high)
    PROVE  Find(T, key) = IF key \in LeafKeys(T.nodes) THEN key ELSE Null
<1> DEFINE N == T.nodes
           m == FindLeaf(T, key)
           s == N[m].keys
           i == Place(s, key)
<1>1. m \in DOMAIN N /\ N[m].leaf /\ Covers(low, high, m, key)
  BY FindLeafCovers
<1>2. key \in LeafKeys(N) <=> key \in ToSet(s)
  <2> HIDE DEF m
  <2> QED
    BY <1>1, KeyInOneLeaf
<1>3. s \in Seq(Nat) /\ Len(s) \in Nat
  BY <1>1, TypesOfNodes DEF Shape
<1>4. T.root # Null
  BY TypesOfNodes DEF Shape, Rooted, Null
<1>5. Find(T, key) = IF i > Len(s) THEN Null ELSE N[m].ptrs[i]
  BY <1>1, <1>4 DEF Find, RecordIn
<1>6. N[m].ptrs = s
  BY <1>1 DEF Shape, LeavesShaped
<1>7. i \in 1 .. (Len(s) + 1) /\ (i <= Len(s) => s[i] = key)
  <2> HIDE DEF s
  <2> QED
    BY <1>3, PlaceProperties
<1>8. \A j \in 1 .. Len(s) : j < i => s[j] # key
  <2> HIDE DEF s
  <2> QED
    BY <1>3, PlaceProperties
<1>9. ToSet(s) = {s[j] : j \in 1 .. Len(s)}
  <2> HIDE DEF s
  <2> QED
    BY <1>3, ToSetProperties
<1> HIDE DEF i, s, m
<1>10. CASE i > Len(s)
  <2>1. key \notin ToSet(s)
    BY <1>3, <1>7, <1>8, <1>9, <1>10
  <2> QED
    BY <1>2, <1>5, <1>10, <2>1
<1>11. CASE ~ (i > Len(s))
  <2>1. i \in 1 .. Len(s) /\ s[i] = key
    BY <1>3, <1>7, <1>11
  <2>2. key \in ToSet(s)
    BY <1>9, <2>1
  <2> QED
    BY <1>2, <1>5, <1>6, <1>11, <2>1, <2>2
<1> QED
  BY <1>10, <1>11

-----------------------------------------------------------------------------
(* The leftmost leaf, the nodes below a node and the way up.               *)

LeftStep(T, f) ==
    \A n \in DOMAIN T.nodes : f[n] = IF T.nodes[n].leaf THEN n ELSE f[T.nodes[n].ptrs[1]]

\* The first child of an inner node.
LEMMA FirstChild ==
    ASSUME NEW N, NEW r, NEW dep, NEW H, NEW low, NEW high, Shape(N, r, dep, H, low, high),
           NEW n \in DOMAIN N, ~ N[n].leaf
    PROVE  /\ N[n].ptrs[1] \in DOMAIN N /\ dep[N[n].ptrs[1]] = dep[n] + 1
           /\ low[N[n].ptrs[1]] = low[n]
<1>1. N[n].keys \in Seq(Nat) /\ Len(N[n].keys) \in Nat
  BY TypesOfNodes DEF Shape
<1>2. Len(N[n].ptrs) = Len(N[n].keys) + 1
  BY DEF Shape, InnerShaped
<1>3. 1 \in 1 .. Len(N[n].ptrs)
  BY <1>1, <1>2
<1> QED
  BY <1>3 DEF Shape, InnerShaped, LowAt

LEMMA LeftmostDefined ==
    ASSUME NEW T, NEW dep, NEW H, NEW low, NEW high,
           Shape(T.nodes, T.root, dep, H, low, high)
    PROVE  LeftStep(T, LeftmostLeaf(T))
<1> DEFINE N == T.nodes
           D == DOMAIN N
           next(n) == N[n].ptrs[1]
           Is(f) == f = [n \in D |-> IF N[n].leaf THEN n ELSE f[next(n)]]
           rank == [n \in D |-> H - dep[n]]
           G == [n \in D |-> [f \in [D -> D] |-> IF N[n].leaf THEN n ELSE f[next(n)]]]
<1>1. \A n \in D : dep[n] \in Nat /\ dep[n] <= H /\ H \in Nat
  BY DepthWithinHeight
<1>2. ASSUME NEW n \in D, ~ N[n].leaf
      PROVE  next(n) \in D /\ rank[next(n)] < rank[n]
  <2>1. next(n) \in D /\ dep[next(n)] = dep[n] + 1
    BY <1>2, FirstChild
  <2> HIDE DEF next
  <2> QED
    BY <1>1, <2>1
<1>3. H \in Nat
  BY DEF Shape, Measured
<1>4. \A n \in D : rank[n] \in Nat /\ rank[n] <= H
  BY <1>1, <1>3
<1>5. \A n \in D : \A f \in [D -> D] : G[n][f] \in D
  BY <1>2
<1> HIDE DEF rank, next
<1>6. \A n \in D : \A f, g \in [D -> D] :
         (\A e \in D : rank[e] < rank[n] => f[e] = g[e]) => G[n][f] = G[n][g]
  BY <1>2
<1>7. D # {}
  BY DEF Shape, Rooted
<1>8. \A n \in D, f \in [D -> D] : G[n][f] = IF N[n].leaf THEN n ELSE f[next(n)]
  OBVIOUS
<1> HIDE DEF G, D
<1>9. PICK f \in [D -> D] : \A n \in D : f[n] = G[n][f]
  <2>1. Ranked(D, D, H, rank, G)
    BY <1>3, <1>4, <1>5, <1>6, <1>7 DEF Ranked
  <2> QED
    BY <2>1, RankRecursion DEF Solvable
<1>10. Is(f)
  BY <1>8, <1>9
<1>11. LeftmostLeaf(T) = CHOOSE g : Is(g)
  BY DEF LeftmostLeaf, D, next
<1>12. Is(LeftmostLeaf(T))
  BY <1>10, <1>11
<1> QED
  BY <1>12 DEF D, next, LeftStep

LEMMA LeftmostProperties ==
    ASSUME NEW T, NEW dep, NEW H, NEW low, NEW high,
           Shape(T.nodes, T.root, dep, H, low, high)
    PROVE  LET m == LeftmostLeaf(T)[T.root] IN
           m \in DOMAIN T.nodes /\ T.nodes[m].leaf /\ low[m] = 0
<1> DEFINE N == T.nodes
           f == LeftmostLeaf(T)
           S == {n \in DOMAIN N : f[n] \in DOMAIN N /\ N[f[n]].leaf /\ low[f[n]] = low[n]}
<1>0. \A n \in DOMAIN N : f[n] = IF N[n].leaf THEN n ELSE f[N[n].ptrs[1]]
  <2>1. LeftStep(T, LeftmostLeaf(T))
    BY LeftmostDefined
  <2> QED
    BY <2>1 DEF LeftStep
<1> HIDE DEF f
<1>1. ASSUME NEW n \in DOMAIN N, \A m \in DOMAIN N : dep[m] > dep[n] => m \in S
      PROVE  n \in S
  <2>1. CASE N[n].leaf
    BY <1>0, <2>1
  <2>2. CASE ~ N[n].leaf
    <3> DEFINE m == N[n].ptrs[1]
    <3>1. f[n] = f[m]
      BY <1>0, <2>2
    <3>2. m \in DOMAIN N /\ dep[m] = dep[n] + 1 /\ low[m] = low[n]
      BY <2>2, FirstChild
    <3>3. dep[n] \in Nat
      BY DepthWithinHeight
    <3> HIDE DEF m
    <3>4. m \in S
      BY <1>1, <3>2, <3>3
    <3> QED
      BY <3>1, <3>2, <3>4
  <2> QED
    BY <2>1, <2>2
<1>2. DOMAIN N \subseteq S
  <2> HIDE DEF S
  <2> QED
    BY <1>1, BottomUp
<1>3. T.root \in DOMAIN N /\ low[T.root] = 0
  BY DEF Shape, Rooted
<1> QED
  BY <1>2, <1>3 DEF f

SubtreeStep(T, f) ==
    \A n \in DOMAIN T.nodes :
        f[n] = {n} \cup (IF T.nodes[n].leaf THEN {}
                         ELSE UNION {f[m] : m \in ToSet(T.nodes[n].ptrs)})

\* The children of an inner node.
LEMMA ChildrenOf ==
    ASSUME NEW N, NEW r, NEW dep, NEW H, NEW low, NEW high, Shape(N, r, dep, H, low, high),
           NEW n \in DOMAIN N, ~ N[n].leaf
    PROVE  /\ ToSet(N[n].ptrs) \subseteq DOMAIN N
           /\ \A m \in ToSet(N[n].ptrs) : m # r /\ N[m].parent = n /\ dep[m] = dep[n] + 1
           /\ \A m \in DOMAIN N \ {r} : N[m].parent = n => m \in ToSet(N[n].ptrs)
<1>1. ToSet(N[n].ptrs) = {N[n].ptrs[i] : i \in 1 .. Len(N[n].ptrs)}
  BY TypesOfNodes DEF Shape
<1>2. \A i \in 1 .. Len(N[n].ptrs) :
         N[n].ptrs[i] \in DOMAIN N /\ N[N[n].ptrs[i]].parent = n /\ dep[N[n].ptrs[i]] = dep[n] + 1
  BY DEF Shape, InnerShaped
<1>3. N[r].parent = Null /\ n # 0
  BY TypesOfNodes DEF Shape, Rooted
<1>4. \A m \in DOMAIN N \ {r} : \E i \in 1 .. Len(N[N[m].parent].ptrs) : N[N[m].parent].ptrs[i] = m
  BY DEF Shape, Rooted
<1> QED
  BY <1>1, <1>2, <1>3, <1>4 DEF Null

LEMMA SubtreesDefined ==
    ASSUME NEW T, NEW dep, NEW H, NEW low, NEW high,
           Shape(T.nodes, T.root, dep, H, low, high)
    PROVE  SubtreeStep(T, Subtrees(T))
<1> DEFINE N == T.nodes
           D == DOMAIN N
           V == SUBSET D
           below(n, f) == {n} \cup (IF N[n].leaf THEN {} ELSE UNION {f[m] : m \in ToSet(N[n].ptrs)})
           Is(f) == f = [n \in D |-> below(n, f)]
           rank == [n \in D |-> H - dep[n]]
           G == [n \in D |-> [f \in [D -> V] |-> below(n, f)]]
<1>1. \A n \in D : dep[n] \in Nat /\ dep[n] <= H /\ H \in Nat
  BY DepthWithinHeight
<1>2. ASSUME NEW n \in D, ~ N[n].leaf
      PROVE  \A m \in ToSet(N[n].ptrs) : m \in D /\ rank[m] < rank[n]
  <2>1. \A m \in ToSet(N[n].ptrs) : m \in D /\ dep[m] = dep[n] + 1
    BY <1>2, ChildrenOf
  <2> QED
    BY <1>1, <2>1
<1>3. H \in Nat
  BY DEF Shape, Measured
<1>4. \A n \in D : rank[n] \in Nat /\ rank[n] <= H
  BY <1>1, <1>3
<1>5. \A n \in D : \A f \in [D -> V] : below(n, f) \in V
  <2> TAKE n \in D
  <2> TAKE f \in [D -> V]
  <2>1. CASE N[n].leaf
    BY <2>1
  <2>2. CASE ~ N[n].leaf
    <3>1. \A m \in ToSet(N[n].ptrs) : f[m] \subseteq D
      BY <1>2, <2>2
    <3> QED
      BY <3>1
  <2> QED
    BY <2>1, <2>2
<1> HIDE DEF rank
<1>6. \A n \in D : \A f, g \in [D -> V] :
         (\A e \in D : rank[e] < rank[n] => f[e] = g[e]) => below(n, f) = below(n, g)
  <2> TAKE n \in D
  <2> TAKE f, g \in [D -> V]
  <2> HAVE \A e \in D : rank[e] < rank[n] => f[e] = g[e]
  <2>1. CASE N[n].leaf
    BY <2>1
  <2>2. CASE ~ N[n].leaf
    <3>1. \A m \in ToSet(N[n].ptrs) : f[m] = g[m]
      BY <1>2, <2>2
    <3>2. {f[m] : m \in ToSet(N[n].ptrs)} = {g[m] : m \in ToSet(N[n].ptrs)}
      BY <3>1
    <3> QED
      BY <2>2, <3>2
  <2> QED
    BY <2>1, <2>2
<1>7. V # {}
  OBVIOUS
<1>8. \A n \in D, f \in [D -> V] : G[n][f] = below(n, f)
  OBVIOUS
<1> HIDE DEF G, D, V, below
<1>9. PICK f \in [D -> V] : \A n \in D : f[n] = G[n][f]
  <2>1. Ranked(D, V, H, rank, G)
    BY <1>3, <1>4, <1>5, <1>6, <1>7, <1>8 DEF Ranked
  <2> QED
    BY <2>1, RankRecursion DEF Solvable
<1>10. Is(f)
  BY <1>8, <1>9
<1>11. Subtrees(T) = CHOOSE g : Is(g)
  BY DEF Subtrees, D, below
<1>12. Is(Subtrees(T))
  BY <1>10, <1>11
<1> DEFINE g == Subtrees(T)
<1> HIDE DEF g
<1>13. Is(g)
  BY <1>12 DEF g
<1> QED
  BY <1>13 DEF D, V, below, SubtreeStep, g

\* The nodes below a node: their children are below it, and what they cover it
\* covers.  All nodes are below the root.
LEMMA SubtreeProperties ==
    ASSUME NEW T, NEW dep, NEW H, NEW low, NEW high,
           Shape(T.nodes, T.root, dep, H, low, high)
    PROVE  /\ Subtrees(T)[T.root] = DOMAIN T.nodes
           /\ \A n \in DOMAIN T.nodes : n \in Subtrees(T)[n] /\ Subtrees(T)[n] \subseteq DOMAIN T.nodes
           /\ \A n \in DOMAIN T.nodes : \A a \in Subtrees(T)[n], k \in Nat :
                 Covers(low, high, a, k) => Covers(low, high, n, k)
<1> DEFINE N == T.nodes
           D == DOMAIN N
           f == Subtrees(T)
           Within(n) == f[n] \subseteq D
           Closed(n) == \A a \in f[n] : ~ N[a].leaf => ToSet(N[a].ptrs) \subseteq f[n]
           Inside(n) == \A a \in f[n], k \in Nat : Covers(low, high, a, k) => Covers(low, high, n, k)
           S == {n \in D : Within(n) /\ Closed(n) /\ Inside(n)}
<1>0. \A n \in D : f[n] = {n} \cup (IF N[n].leaf THEN {} ELSE UNION {f[m] : m \in ToSet(N[n].ptrs)})
  <2>1. SubtreeStep(T, Subtrees(T))
    BY SubtreesDefined
  <2> QED
    BY <2>1 DEF SubtreeStep
<1> HIDE DEF f
<1>1. ASSUME NEW n \in D, \A m \in D : dep[m] > dep[n] => m \in S
      PROVE  n \in S
  <2>1. CASE N[n].leaf
    <3>1. f[n] = {n}
      BY <1>0, <2>1
    <3> QED
      BY <2>1, <3>1
  <2>2. CASE ~ N[n].leaf
    <3> DEFINE C == ToSet(N[n].ptrs)
    <3>1. f[n] = {n} \cup UNION {f[m] : m \in C}
      BY <1>0, <2>2
    <3>2. C \subseteq D /\ \A m \in C : m # T.root /\ N[m].parent = n /\ dep[m] = dep[n] + 1
      BY <2>2, ChildrenOf
    <3>3. dep[n] \in Nat
      BY DepthWithinHeight
    <3> HIDE DEF C, S
    <3>4. \A m \in C : m \in S
      BY <1>1, <3>2, <3>3
    <3>5. \A m \in C : Within(m) /\ Closed(m) /\ Inside(m)
      BY <3>4 DEF S
    <3>6. \A m \in C, k \in Nat : Covers(low, high, m, k) => Covers(low, high, n, k)
      <4> SUFFICES ASSUME NEW m \in C, NEW k \in Nat, Covers(low, high, m, k)
                   PROVE  Covers(low, high, n, k)
        OBVIOUS
      <4>1. m \in D /\ m # T.root /\ N[m].parent = n
        BY <3>2
      <4> QED
        BY <4>1, ParentCovers
    <3>7. \A m \in C : m \in f[m] /\ f[m] \subseteq f[n]
      BY <1>0, <3>1, <3>2
    <3>8. Within(n)
      BY <3>1, <3>5
    <3>9. Closed(n)
      <4> SUFFICES ASSUME NEW a \in f[n], ~ N[a].leaf
                   PROVE  ToSet(N[a].ptrs) \subseteq f[n]
        OBVIOUS
      <4>1. CASE a = n
        BY <3>7, <4>1 DEF C
      <4>2. CASE a # n
        <5>1. PICK m \in C : a \in f[m]
          BY <3>1, <4>2
        <5> QED
          BY <3>5, <3>7, <5>1
      <4> QED
        BY <4>1, <4>2
    <3>10. Inside(n)
      <4> SUFFICES ASSUME NEW a \in f[n], NEW k \in Nat, Covers(low, high, a, k)
                   PROVE  Covers(low, high, n, k)
        OBVIOUS
      <4>1. CASE a = n
        BY <4>1
      <4>2. CASE a # n
        <5>1. PICK m \in C : a \in f[m]
          BY <3>1, <4>2
        <5> QED
          BY <3>5, <3>6, <5>1
      <4> QED
        BY <4>1, <4>2
    <3> QED
      BY <3>8, <3>9, <3>10 DEF S
  <2> QED
    BY <2>1, <2>2
<1>2. D \subseteq S
  <2> HIDE DEF S
  <2> QED
    BY <1>1, BottomUp
<1>3. T.root \in D
  BY DEF Shape, Rooted
<1> DEFINE R == {n \in D : n \in f[T.root]}
<1>4. ASSUME NEW n \in D, \A m \in D : dep[m] < dep[n] => m \in R
      PROVE  n \in R
  <2>1. CASE n = T.root
    BY <1>0, <1>3, <2>1
  <2>2. CASE n # T.root
    <3> DEFINE p == N[n].parent
    <3>1. p \in D /\ ~ N[p].leaf /\ dep[n] = dep[p] + 1
      BY <2>2, ParentCovers
    <3>2. dep[p] \in Nat
      BY <3>1, DepthWithinHeight
    <3>3. n \in ToSet(N[p].ptrs)
      BY <2>2, <3>1, ChildrenOf
    <3> HIDE DEF p
    <3>4. p \in R
      BY <1>4, <3>1, <3>2
    <3> QED
      BY <1>2, <1>3, <3>1, <3>3, <3>4
  <2> QED
    BY <2>1, <2>2
<1>5. D \subseteq R
  <2> HIDE DEF R
  <2> QED
    BY <1>4, TopDown
<1>6. f[T.root] = D
  BY <1>2, <1>3, <1>5
<1>7. \A n \in D : n \in f[n] /\ f[n] \subseteq D
  BY <1>0, <1>2
<1>8. \A n \in D : Inside(n)
  BY <1>2
<1> QED
  BY <1>6, <1>7, <1>8 DEF f

\* path_to_root() counts the levels above a node.
LEMMA PathIsDepth ==
    ASSUME NEW T, NEW dep, NEW H, NEW low, NEW high,
           Shape(T.nodes, T.root, dep, H, low, high)
    PROVE  \A n \in DOMAIN T.nodes : PathToRoot(T)[n] = dep[n]
<1> DEFINE N == T.nodes
           D == DOMAIN N
           up(n, f) == IF n = T.root THEN 0 ELSE 1 + f[N[n].parent]
           Is(f) == f = [n \in D |-> up(n, f)]
<1>1. \A n \in D : dep[n] = up(n, dep)
  <2> TAKE n \in D
  <2>1. CASE n = T.root
    BY <2>1 DEF Shape, Rooted
  <2>2. CASE n # T.root
    <3>1. N[n].parent \in D /\ dep[n] = dep[N[n].parent] + 1
      BY <2>2, ParentCovers
    <3>2. dep[N[n].parent] \in Nat
      BY <3>1, DepthWithinHeight
    <3> QED
      BY <2>2, <3>1, <3>2
  <2> QED
    BY <2>1, <2>2
<1>2. dep \in [D -> Nat]
  BY DEF Shape, Measured
<1>3. T.root \in D
  BY DEF Shape, Rooted
<1> HIDE DEF up, D
<1>4. Is(dep)
  BY <1>1, <1>2
<1>5. PathToRoot(T) = CHOOSE g : Is(g)
  BY DEF PathToRoot, D, up
<1>6. Is(PathToRoot(T))
  BY <1>4, <1>5
<1> DEFINE g == PathToRoot(T)
           S == {n \in D : g[n] = dep[n]}
<1>7. \A n \in D : g[n] = up(n, g)
  <2> HIDE DEF g
  <2>1. Is(g)
    BY <1>6 DEF g
  <2> QED
    BY <2>1
<1> HIDE DEF g
<1>8. ASSUME NEW n \in D, \A m \in D : dep[m] < dep[n] => m \in S
      PROVE  n \in S
  <2>1. CASE n = T.root
    <3>1. up(n, g) = up(n, dep)
      BY <2>1 DEF up
    <3> QED
      BY <1>1, <1>7, <3>1
  <2>2. CASE n # T.root
    <3> DEFINE p == N[n].parent
    <3>1. p \in D /\ dep[n] = dep[p] + 1
      BY <2>2, ParentCovers DEF D
    <3>2. dep[p] \in Nat
      BY <3>1, DepthWithinHeight DEF D
    <3>3. up(n, g) = 1 + g[p] /\ up(n, dep) = 1 + dep[p]
      BY <2>2 DEF up
    <3> HIDE DEF p
    <3>4. p \in S
      BY <1>8, <3>1, <3>2
    <3> QED
      BY <1>1, <1>7, <3>3, <3>4
  <2> QED
    BY <2>1, <2>2
<1>9. D \subseteq S
  <2> HIDE DEF S
  <2> QED
    BY <1>8, TopDown DEF D
<1> QED
  BY <1>9 DEF D, g

-----------------------------------------------------------------------------
(* The chain of leaves and the ranges read along it.                       *)

\* How many nodes lie to the right of a place on the chain.
ToTheRight(N, low) ==
    [n \in DOMAIN N \cup {Null} |->
        IF n = Null THEN 0 ELSE 1 + Cardinality({m \in DOMAIN N : low[m] > low[n]})]

\* The chain goes to the right.
LEMMA ChainGoesRight ==
    ASSUME NEW N, NEW r, NEW dep, NEW H, NEW low, NEW high, Shape(N, r, dep, H, low, high)
    PROVE  LET rank == ToTheRight(N, low) IN
           /\ Cardinality(DOMAIN N) \in Nat
           /\ \A n \in DOMAIN N \cup {Null} : rank[n] \in Nat /\ rank[n] <= 1 + Cardinality(DOMAIN N)
           /\ \A n \in DOMAIN N : /\ n # Null
                                  /\ N[n].next \in DOMAIN N \cup {Null}
                                  /\ rank[N[n].next] < rank[n]
<1> DEFINE D == DOMAIN N
           Right(n) == {m \in D : low[m] > low[n]}
           rank == ToTheRight(N, low)
<1>1. IsFiniteSet(D)
  BY DEF Shape, NodesTyped
<1>2. Cardinality(D) \in Nat
  BY <1>1, FS_CardinalityType
<1>3. \A n \in D : low[n] \in Nat /\ high[n] \in Nat /\ n # Null
  BY TypesOfMeasures, TypesOfNodes DEF Shape, Null
<1>4. \A n \in D : IsFiniteSet(Right(n)) /\ Cardinality(Right(n)) \in Nat
                    /\ Cardinality(Right(n)) <= Cardinality(D)
  <2> TAKE n \in D
  <2>1. Right(n) \subseteq D
    OBVIOUS
  <2> HIDE DEF Right
  <2>2. IsFiniteSet(Right(n)) /\ Cardinality(Right(n)) <= Cardinality(D)
    BY <1>1, <2>1, FS_Subset
  <2>3. Cardinality(Right(n)) \in Nat
    BY <2>2, FS_CardinalityType
  <2> QED
    BY <2>2, <2>3
<1>5. \A n \in D : rank[n] = 1 + Cardinality(Right(n))
  BY <1>3 DEF ToTheRight
<1>6. rank[Null] = 0
  BY DEF ToTheRight
<1> HIDE DEF rank
<1>7. \A n \in D \cup {Null} : rank[n] \in Nat /\ rank[n] <= 1 + Cardinality(D)
  <2> TAKE n \in D \cup {Null}
  <2>1. CASE n = Null
    BY <1>2, <1>6, <2>1
  <2>2. CASE n \in D
    <3> DEFINE c == Cardinality(Right(n))
               b == Cardinality(D)
    <3>1. rank[n] = 1 + c /\ c \in Nat /\ c <= b /\ b \in Nat
      BY <1>2, <1>4, <1>5, <2>2
    <3> HIDE DEF c, b
    <3>2. rank[n] \in Nat /\ rank[n] <= 1 + b
      BY <3>1
    <3> QED
      BY <3>2 DEF b
  <2> QED
    BY <2>1, <2>2
<1>8. ASSUME NEW n \in D
      PROVE  N[n].next \in D \cup {Null} /\ rank[N[n].next] < rank[n]
  <2> DEFINE m == N[n].next
  <2>1. CASE m = Null
    <3> DEFINE c == Cardinality(Right(n))
    <3>1. rank[n] = 1 + c /\ c \in Nat
      BY <1>4, <1>5
    <3> HIDE DEF c
    <3> QED
      BY <1>6, <2>1, <3>1
  <2>2. CASE m # Null
    <3>1. N[n].leaf
      BY <2>2 DEF Shape, InnerShaped
    <3>2. high[n] # 0
      BY <2>2, <3>1 DEF Shape, LeavesShaped
    <3>3. m \in D /\ low[m] = high[n]
      BY <3>1, <3>2 DEF Shape, LeavesShaped
    <3>4. low[n] < high[n]
      BY <3>2 DEF Shape, Ordered
    <3> HIDE DEF m
    <3>5. Right(m) \subseteq Right(n) /\ m \in Right(n) /\ m \notin Right(m)
      BY <1>3, <3>3, <3>4
    <3>6. Cardinality(Right(m)) < Cardinality(Right(n))
      <4> DEFINE A == Right(m)
                 B == Right(n)
                 a == Cardinality(A)
                 b == Cardinality(B)
      <4>1. IsFiniteSet(B) /\ A \subseteq B /\ A # B
        BY <1>4, <3>5
      <4>2. a \in Nat /\ b \in Nat
        BY <1>4, <3>3
      <4> HIDE DEF A, B
      <4>3. a <= b /\ a # b
        BY <4>1, FS_Subset
      <4> HIDE DEF a, b
      <4>4. a < b
        BY <4>2, <4>3
      <4> QED
        BY <4>4 DEF a, b, A, B
    <3> DEFINE a == Cardinality(Right(m))
               b == Cardinality(Right(n))
    <3>7. rank[n] = 1 + b /\ rank[m] = 1 + a /\ a \in Nat /\ b \in Nat /\ a < b
      BY <1>4, <1>5, <3>3, <3>6
    <3> HIDE DEF a, b
    <3>8. rank[m] < rank[n]
      BY <3>7
    <3> QED
      BY <3>3, <3>8 DEF m
  <2> QED
    BY <2>1, <2>2
<1> QED
  BY <1>2, <1>3, <1>7, <1>8 DEF rank

AlongStep(T, say, f) ==
    /\ f[Null] = <<>>
    /\ \A n \in DOMAIN T.nodes : f[n] = say[n] \o f[T.nodes[n].next]

LEMMA AlongDefined ==
    ASSUME NEW T, NEW dep, NEW H, NEW low, NEW high,
           Shape(T.nodes, T.root, dep, H, low, high),
           NEW say \in [DOMAIN T.nodes -> Seq(Nat)]
    PROVE  AlongStep(T, say, Along(T, say))
<1> DEFINE N == T.nodes
           D == DOMAIN N
           E == D \cup {Null}
           V == Seq(Nat)
           told(n, f) == IF n = Null THEN <<>> ELSE say[n] \o f[N[n].next]
           Is(f) == f = [n \in E |-> told(n, f)]
           rank == ToTheRight(N, low)
           B == 1 + Cardinality(D)
           G == [n \in E |-> [f \in [E -> V] |-> told(n, f)]]
<1>1. B \in Nat
  <2>1. Cardinality(D) \in Nat
    BY ChainGoesRight
  <2> HIDE DEF D
  <2> QED
    BY <2>1
<1>2. \A n \in E : rank[n] \in Nat /\ rank[n] <= B
  BY ChainGoesRight
<1>3. \A n \in D : n # Null /\ N[n].next \in E /\ rank[N[n].next] < rank[n]
  BY ChainGoesRight
<1>4. \A n \in D : say[n] \in V
  OBVIOUS
<1> HIDE DEF rank, B
<1>5. \A n \in E : \A f \in [E -> V] : told(n, f) \in V
  <2> TAKE n \in E
  <2> TAKE f \in [E -> V]
  <2>1. CASE n = Null
    BY <2>1
  <2>2. CASE n # Null
    <3>1. say[n] \in V /\ f[N[n].next] \in V
      BY <1>3, <1>4, <2>2
    <3>2. say[n] \o f[N[n].next] \in V
      BY <3>1
    <3> QED
      BY <2>2, <3>2
  <2> QED
    BY <2>1, <2>2
<1>6. \A n \in E : \A f, g \in [E -> V] :
         (\A e \in E : rank[e] < rank[n] => f[e] = g[e]) => told(n, f) = told(n, g)
  <2> TAKE n \in E
  <2> TAKE f, g \in [E -> V]
  <2> HAVE \A e \in E : rank[e] < rank[n] => f[e] = g[e]
  <2>1. CASE n = Null
    BY <2>1
  <2>2. CASE n # Null
    <3>1. f[N[n].next] = g[N[n].next]
      BY <1>3, <2>2
    <3> QED
      BY <3>1
  <2> QED
    BY <2>1, <2>2
<1>7. V # {}
  <2>1. <<>> \in V
    OBVIOUS
  <2> QED
    BY <2>1
<1>8. \A n \in E, f \in [E -> V] : G[n][f] = told(n, f)
  OBVIOUS
<1> HIDE DEF G, E, V, told
<1>9. PICK f \in [E -> V] : \A n \in E : f[n] = G[n][f]
  <2>1. Ranked(E, V, B, rank, G)
    BY <1>1, <1>2, <1>5, <1>6, <1>7, <1>8 DEF Ranked
  <2> QED
    BY <2>1, RankRecursion DEF Solvable
<1>10. Is(f)
  BY <1>8, <1>9
<1>11. Along(T, say) = CHOOSE g : Is(g)
  BY DEF Along, E, told
<1>12. Is(Along(T, say))
  BY <1>10, <1>11
<1> DEFINE g == Along(T, say)
<1>13. \A n \in E : g[n] = told(n, g)
  <2> HIDE DEF g
  <2>1. Is(g)
    BY <1>12 DEF g
  <2> QED
    BY <2>1
<1> HIDE DEF g
<1>14. g[Null] = <<>>
  BY <1>13 DEF told, E
<1>15. \A n \in D : g[n] = say[n] \o g[N[n].next]
  BY <1>3, <1>13 DEF told, E
<1> QED
  BY <1>14, <1>15 DEF AlongStep, g

\* The keys of a leaf and of those to its right.
LEMMA KeysToTheRight ==
    ASSUME NEW N, NEW r, NEW dep, NEW H, NEW low, NEW high, Shape(N, r, dep, H, low, high),
           NEW n \in DOMAIN N, N[n].leaf
    PROVE  /\ \A k \in ToSet(N[n].keys) : k \in Nat /\ low[n] <= k /\ k \in LeafKeys(N)
           /\ N[n].next = Null =>
                 \A k \in LeafKeys(N) : low[n] <= k => k \in ToSet(N[n].keys)
           /\ N[n].next # Null =>
                 LET m == N[n].next IN
                 /\ m \in DOMAIN N /\ N[m].leaf /\ low[n] < low[m]
                 /\ \A k \in ToSet(N[n].keys) : k < low[m]
                 /\ \A k \in LeafKeys(N) : low[n] <= k => k \in ToSet(N[n].keys) \/ low[m] <= k
<1> DEFINE s == ToSet(N[n].keys)
           m == N[n].next
<1>1. low[n] \in Nat /\ high[n] \in Nat /\ n # 0
  BY TypesOfMeasures, TypesOfNodes DEF Shape
<1>2. s \subseteq Nat
  BY TypesOfNodes DEF Shape
<1>3. \A k \in s : Covers(low, high, n, k)
  BY DEF Shape, Ordered
<1>4. \A k \in s : k \in LeafKeys(N)
  BY DEF LeafKeys
<1>5. LeafKeys(N) \subseteq Nat
  BY LeafKeysTyped DEF Shape
<1>6. \A k \in LeafKeys(N) : Covers(low, high, n, k) => k \in s
  BY <1>5, KeyInOneLeaf
<1>7. high[n] = 0 => m = Null
  BY DEF Shape, LeavesShaped
<1>8. high[n] # 0 => m \in DOMAIN N /\ N[m].leaf /\ low[m] = high[n]
  BY DEF Shape, LeavesShaped
<1>9. high[n] # 0 => low[n] < high[n]
  BY DEF Shape, Ordered
<1>10. \A x \in DOMAIN N : x # Null
  BY TypesOfNodes DEF Shape, Null
<1> HIDE DEF s, m
<1>11. \A k \in s : k \in Nat /\ low[n] <= k /\ k \in LeafKeys(N)
  BY <1>2, <1>3, <1>4 DEF Covers
<1>12. ASSUME m = Null
       PROVE  \A k \in LeafKeys(N) : low[n] <= k => k \in s
  <2>1. high[n] = 0
    BY <1>8, <1>10, <1>12
  <2> QED
    BY <1>6, <2>1 DEF Covers
<1>13. ASSUME m # Null
       PROVE  /\ m \in DOMAIN N /\ N[m].leaf /\ low[n] < low[m]
              /\ \A k \in s : k < low[m]
              /\ \A k \in LeafKeys(N) : low[n] <= k => k \in s \/ low[m] <= k
  <2>1. high[n] # 0
    BY <1>7, <1>13
  <2>2. m \in DOMAIN N /\ N[m].leaf /\ low[m] = high[n] /\ low[n] < low[m]
    BY <1>8, <1>9, <2>1
  <2>3. \A k \in s : k < low[m]
    BY <1>3, <2>1, <2>2 DEF Covers
  <2>4. \A k \in LeafKeys(N) : low[n] <= k => k \in s \/ low[m] <= k
    <3> TAKE k \in LeafKeys(N)
    <3> HAVE low[n] <= k
    <3>1. CASE k < high[n]
      BY <1>6, <3>1 DEF Covers
    <3>2. CASE ~ (k < high[n])
      BY <1>1, <1>5, <2>2, <3>2
    <3> QED
      BY <3>1, <3>2
  <2> QED
    BY <2>2, <2>3, <2>4
<1> QED
  BY <1>11, <1>12, <1>13 DEF s, m

\* What each leaf says: the keys it has in W, in ascending order.
Says(N, say, W) ==
    /\ say \in [DOMAIN N -> Seq(Nat)]
    /\ \A n \in DOMAIN N : N[n].leaf =>
          Increasing(say[n]) /\ ToSet(say[n]) = ToSet(N[n].keys) \cap W

\* What f says of each leaf: the keys from there on that lie in W, in ascending
\* order.
Tells(N, low, f, W) ==
    /\ f[Null] = <<>>
    /\ \A n \in DOMAIN N : N[n].leaf =>
          /\ f[n] \in Seq(Nat)
          /\ Increasing(f[n])
          /\ ToSet(f[n]) = {k \in LeafKeys(N) \cap W : low[n] <= k}

\* The chain puts together what its leaves say.
LEMMA ChainLists ==
    ASSUME NEW T, NEW dep, NEW H, NEW low, NEW high,
           Shape(T.nodes, T.root, dep, H, low, high),
           NEW say, NEW W, Says(T.nodes, say, W)
    PROVE  Tells(T.nodes, low, Along(T, say), W)
<1> DEFINE N == T.nodes
           f == Along(T, say)
           rank == ToTheRight(N, low)
           From(n) == {k \in LeafKeys(N) \cap W : low[n] <= k}
           Good(n) == f[n] \in Seq(Nat) /\ Increasing(f[n]) /\ ToSet(f[n]) = From(n)
           Bad == {n \in DOMAIN N : N[n].leaf /\ ~ Good(n)}
<1> USE DEF Says
<1>0. AlongStep(T, say, f)
  BY AlongDefined
<1>1. f[Null] = <<>>
  BY <1>0 DEF AlongStep
<1>2. \A n \in DOMAIN N : f[n] = say[n] \o f[N[n].next]
  BY <1>0 DEF AlongStep
<1>3. \A n \in DOMAIN N : n # Null /\ rank[n] \in Nat /\ rank[N[n].next] < rank[n]
  <2>1. \A n \in DOMAIN N : rank[n] \in Nat
    BY ChainGoesRight
  <2>2. \A n \in DOMAIN N : n # Null /\ rank[N[n].next] < rank[n]
    BY ChainGoesRight
  <2> QED
    BY <2>1, <2>2
<1> HIDE DEF f, rank
<1>4. ASSUME NEW n \in DOMAIN N, N[n].leaf,
             \A m \in DOMAIN N : N[m].leaf /\ rank[m] < rank[n] => Good(m)
      PROVE  Good(n)
  <2> DEFINE m == N[n].next
             s == say[n]
             t == f[m]
             K == ToSet(N[n].keys)
             L == LeafKeys(N)
  <2>1. f[n] = s \o t
    BY <1>2
  <2>2. s \in Seq(Nat) /\ Increasing(s) /\ ToSet(s) = K \cap W
    BY <1>4
  <2>3. \A k \in K : k \in Nat /\ low[n] <= k /\ k \in L
    BY <1>4, KeysToTheRight
  <2>4. CASE m = Null
    <3>1. \A k \in L : low[n] <= k => k \in K
      BY <1>4, <2>4, KeysToTheRight
    <3>2. t = <<>>
      BY <1>1, <2>4
    <3>3. f[n] = s
      BY <2>1, <2>2, <3>2
    <3> HIDE DEF K, L, s
    <3>4. ToSet(s) = {k \in L \cap W : low[n] <= k}
      BY <2>2, <2>3, <3>1
    <3> QED
      BY <2>2, <3>3, <3>4 DEF L
  <2>5. CASE m # Null
    <3>1. m \in DOMAIN N /\ N[m].leaf /\ low[n] < low[m]
      BY <1>4, <2>5, KeysToTheRight
    <3>2. \A k \in K : k < low[m]
      BY <1>4, <2>5, KeysToTheRight
    <3>3. \A k \in L : low[n] <= k => k \in K \/ low[m] <= k
      BY <1>4, <2>5, KeysToTheRight
    <3>4. Good(m)
      BY <1>3, <1>4, <3>1
    <3>5. t \in Seq(Nat) /\ Increasing(t) /\ ToSet(t) = {k \in L \cap W : low[m] <= k}
      BY <3>4
    <3>6. L \subseteq Nat
      BY LeafKeysTyped DEF Shape
    <3>7. low[n] \in Nat /\ low[m] \in Nat
      BY <3>1, TypesOfMeasures DEF Shape
    <3> HIDE DEF K, L, s, t, m
    <3>8. \A x \in ToSet(s), y \in ToSet(t) : x < y
      <4> TAKE x \in ToSet(s), y \in ToSet(t)
      <4> DEFINE b == low[m]
      <4>1. x \in Nat /\ x < b
        BY <2>2, <2>3, <3>2
      <4>2. y \in Nat /\ b <= y /\ b \in Nat
        BY <3>5, <3>6, <3>7
      <4> HIDE DEF b
      <4> QED
        BY <4>1, <4>2
    <3>9. Increasing(s \o t)
      BY <2>2, <3>5, <3>8, ConcatIncreases
    <3>10. ToSet(s \o t) = ToSet(s) \cup ToSet(t)
      BY <2>2, <3>5, ToSetOfConcat
    <3>11. \A k \in L : low[m] <= k => low[n] <= k
      BY <3>1, <3>6, <3>7
    <3>12. ToSet(s \o t) = {k \in L \cap W : low[n] <= k}
      BY <2>2, <2>3, <3>3, <3>5, <3>10, <3>11
    <3>13. s \o t \in Seq(Nat)
      BY <2>2, <3>5
    <3> QED
      BY <2>1, <3>9, <3>12, <3>13 DEF L
  <2> QED
    BY <2>4, <2>5
<1>5. Bad = {}
  <2>1. SUFFICES ASSUME Bad # {}
                 PROVE  FALSE
    OBVIOUS
  <2> DEFINE R == {rank[n] : n \in Bad}
  <2>2. R \subseteq Nat /\ R # {}
    BY <1>3, <2>1
  <2>3. PICK h \in R : \A g \in R : h <= g
    BY <2>2, LeastElement
  <2>4. PICK n \in Bad : h = rank[n]
    OBVIOUS
  <2>5. n \in DOMAIN N /\ N[n].leaf /\ ~ Good(n)
    OBVIOUS
  <2>6. \A m \in Bad : rank[n] <= rank[m]
    BY <2>3, <2>4
  <2> HIDE DEF Good
  <2>7. \A m \in DOMAIN N : N[m].leaf /\ rank[m] < rank[n] => Good(m)
    <3> SUFFICES ASSUME NEW m \in DOMAIN N, N[m].leaf, rank[m] < rank[n], ~ Good(m)
                 PROVE  FALSE
      OBVIOUS
    <3>1. rank[n] <= rank[m]
      BY <2>6
    <3>2. rank[n] \in Nat /\ rank[m] \in Nat
      BY <1>3
    <3> QED
      BY <3>1, <3>2
  <2> QED
    BY <1>4, <2>5, <2>7
<1> QED
  BY <1>1, <1>5 DEF f, Tells

\* An increasing sequence of numbers of a range has no more elements than it.
LEMMA IncreasingWithin ==
    ASSUME NEW s \in Seq(Nat), Increasing(s), NEW i \in Nat, NEW j \in Nat, i <= j,
           \A x \in ToSet(s) : i <= x /\ x <= j
    PROVE  Len(s) <= j - i + 1
<1>1. Len(s) \in Nat /\ \A m \in 1 .. Len(s) : s[m] \in Nat /\ s[m] \in ToSet(s)
  BY ElementsInSet
<1> DEFINE Bad == {m \in 1 .. Len(s) : s[m] < i + m - 1}
<1>2. Bad = {}
  <2>1. SUFFICES ASSUME Bad # {}
                 PROVE  FALSE
    OBVIOUS
  <2>2. Bad \subseteq Nat
    BY <1>1
  <2>3. PICK m \in Bad : \A g \in Bad : m <= g
    BY <2>1, <2>2, LeastElement
  <2>4. m \in 1 .. Len(s) /\ s[m] < i + m - 1 /\ s[m] \in Nat
    BY <1>1
  <2>5. m # 1
    BY <1>1, <2>4
  <2> DEFINE l == m - 1
  <2>6. l \in 1 .. Len(s) /\ l < m /\ m = l + 1
    BY <1>1, <2>4, <2>5
  <2> HIDE DEF l
  <2>7. l \notin Bad
    <3> HIDE DEF Bad
    <3>1. l \in Bad => m <= l
      BY <2>3
    <3> QED
      BY <1>1, <2>4, <2>6, <3>1
  <2>8. ~ (s[l] < i + l - 1) /\ s[l] \in Nat /\ l \in Nat
    BY <1>1, <2>6, <2>7
  <2>9. s[l] < s[m]
    BY <2>4, <2>6 DEF Increasing
  <2> QED
    BY <2>4, <2>6, <2>8, <2>9
<1>3. CASE Len(s) = 0
  BY <1>3
<1>4. CASE Len(s) # 0
  <2> DEFINE l == Len(s)
             x == s[l]
  <2>1. l \in Nat /\ l \in 1 .. Len(s) /\ x \in Nat /\ x <= j
    BY <1>1, <1>4
  <2>2. ~ (x < i + l - 1)
    BY <1>2, <2>1
  <2> HIDE DEF l, x
  <2>3. l <= j - i + 1
    BY <2>1, <2>2
  <2> QED
    BY <2>3 DEF l
<1> QED
  BY <1>3, <1>4

\* From place a on the elements are at least i, before b they are at most j.
Cuts(s, i, j, a, b) ==
    /\ a \in 1 .. (Len(s) + 1) /\ b \in 1 .. (Len(s) + 1)
    /\ \A l \in 1 .. Len(s) : l < a => s[l] < i
    /\ a <= Len(s) => i <= s[a]
    /\ \A l \in 1 .. Len(s) : l < b => s[l] <= j
    /\ b <= Len(s) => j < s[b]

\* A part of an increasing sequence, by the bounds around it.
LEMMA PartBetween ==
    ASSUME NEW s \in Seq(Nat), Increasing(s), NEW i \in Nat, NEW j \in Nat, i <= j,
           NEW a, NEW b, Cuts(s, i, j, a, b)
    PROVE  /\ SubSeq(s, a, b - 1) \in Seq(Nat)
           /\ Increasing(SubSeq(s, a, b - 1))
           /\ ToSet(SubSeq(s, a, b - 1)) = {k \in ToSet(s) : i <= k /\ k <= j}
<1> USE DEF Cuts
<1>1. Len(s) \in Nat /\ \A l \in 1 .. Len(s) : s[l] \in Nat
  BY ElementsInSet
<1>2. a <= b
  <2>1. SUFFICES ASSUME b < a
                 PROVE  FALSE
    BY <1>1
  <2>2. b \in 1 .. Len(s)
    BY <1>1, <2>1
  <2>3. s[b] < i /\ j < s[b] /\ s[b] \in Nat
    BY <1>1, <2>1, <2>2
  <2> QED
    BY <2>3
<1> DEFINE c == b - 1
           t == SubSeq(s, a, c)
           d == c - a + 1
<1>3. c \in 0 .. Len(s) /\ a <= c + 1 /\ d \in Nat /\ c \in Nat
  BY <1>1, <1>2
<1>4. t \in Seq(Nat) /\ Len(t) = d
  <2> HIDE DEF c
  <2> QED
    BY <1>3, PartProperties
<1>5. \A m \in 1 .. d : t[m] = s[a + m - 1]
  <2> HIDE DEF c
  <2> QED
    BY <1>3, PartProperties
<1> HIDE DEF t
<1>6. \A m \in 1 .. d : a + m - 1 \in 1 .. Len(s) /\ a <= a + m - 1 /\ a + m - 1 < b
  BY <1>1, <1>3
<1>7. \A l \in 1 .. Len(s) : a <= l /\ l < b => l - a + 1 \in 1 .. d /\ t[l - a + 1] = s[l]
  <2> TAKE l \in 1 .. Len(s)
  <2> HAVE a <= l /\ l < b
  <2> DEFINE m == l - a + 1
  <2>1. m \in 1 .. d /\ a + m - 1 = l
    BY <1>1, <1>3
  <2> HIDE DEF m, d
  <2>2. t[m] = s[l]
    BY <1>5, <2>1
  <2> QED
    BY <2>1, <2>2 DEF m
<1>8. Increasing(t)
  <2> SUFFICES ASSUME NEW m \in 1 .. d, NEW o \in 1 .. d, m < o
               PROVE  t[m] < t[o]
    BY <1>4 DEF Increasing
  <2>1. a + m - 1 < a + o - 1
    BY <1>3
  <2> DEFINE x == a + m - 1
             y == a + o - 1
  <2>2. x \in 1 .. Len(s) /\ y \in 1 .. Len(s) /\ x < y /\ t[m] = s[x] /\ t[o] = s[y]
    BY <1>5, <1>6, <2>1
  <2> HIDE DEF x, y
  <2> QED
    BY <2>2 DEF Increasing
<1>9. \A l \in 1 .. Len(s) : i <= s[l] <=> a <= l
  <2> TAKE l \in 1 .. Len(s)
  <2>1. CASE l < a
    BY <1>1, <2>1
  <2>2. CASE l = a
    BY <1>1, <2>2
  <2>3. CASE a < l
    <3>1. a \in 1 .. Len(s)
      BY <1>1, <2>3
    <3>2. s[a] < s[l]
      BY <2>3, <3>1 DEF Increasing
    <3> QED
      BY <1>1, <2>3, <3>1, <3>2
  <2> QED
    BY <1>1, <2>1, <2>2, <2>3
<1>10. \A l \in 1 .. Len(s) : s[l] <= j <=> l < b
  <2> TAKE l \in 1 .. Len(s)
  <2>1. CASE l < b
    BY <2>1
  <2>2. CASE l = b
    BY <1>1, <2>2
  <2>3. CASE b < l
    <3>1. b \in 1 .. Len(s)
      BY <1>1, <2>3
    <3>2. s[b] < s[l]
      BY <2>3, <3>1 DEF Increasing
    <3> QED
      BY <1>1, <2>3, <3>1, <3>2
  <2> QED
    BY <1>1, <2>1, <2>2, <2>3
<1>11. ToSet(t) = {t[m] : m \in 1 .. d}
  BY <1>4, ToSetProperties
<1>12. ToSet(s) = {s[l] : l \in 1 .. Len(s)}
  BY ToSetProperties
<1>13. ASSUME NEW k \in ToSet(t)
       PROVE  k \in ToSet(s) /\ i <= k /\ k <= j
  <2>1. PICK m \in 1 .. d : k = t[m]
    BY <1>11
  <2> DEFINE l == a + m - 1
  <2>2. l \in 1 .. Len(s) /\ a <= l /\ l < b /\ k = s[l]
    BY <1>5, <1>6, <2>1
  <2> HIDE DEF l
  <2> QED
    BY <1>9, <1>10, <1>12, <2>2
<1>14. ASSUME NEW k \in ToSet(s), i <= k, k <= j
       PROVE  k \in ToSet(t)
  <2>1. PICK l \in 1 .. Len(s) : k = s[l]
    BY <1>12
  <2>2. a <= l /\ l < b
    BY <1>9, <1>10, <1>14, <2>1
  <2> DEFINE m == l - a + 1
  <2>3. m \in 1 .. d /\ t[m] = s[l]
    BY <1>7, <2>2
  <2> HIDE DEF m
  <2> QED
    BY <1>11, <2>1, <2>3
<1>15. ToSet(t) = {k \in ToSet(s) : i <= k /\ k <= j}
  BY <1>13, <1>14
<1> QED
  BY <1>4, <1>8, <1>15 DEF t

\* The keys of K from i to j.
Between(K, i, j) == {k \in K : i <= k /\ k <= j}

\* A range has the stored keys of its bounds in ascending order, when the first
\* bound is a key.  It is never longer than its bounds allow.
LEMMA RangeProperties ==
    ASSUME NEW T, NEW dep, NEW H, NEW low, NEW high,
           Shape(T.nodes, T.root, dep, H, low, high),
           NEW i \in Nat, NEW j \in Nat, i <= j
    PROVE  LET found == FindRange(T, i, j) IN
           /\ found \in Seq(Nat) /\ Increasing(found)
           /\ Len(found) <= j - i + 1
           /\ i \in LeafKeys(T.nodes) => ToSet(found) = Between(LeafKeys(T.nodes), i, j)
<1> USE DEF Between
<1> DEFINE N == T.nodes
           L == LeafKeys(N)
           m == FindLeaf(T, i)
           c == N[m]
           s == c.keys
           a == InsertionPoint(c, i)
           b == PastEnd(c, j)
           W == 0 .. j
           upTo == [x \in DOMAIN N |-> SubSeq(N[x].keys, 1, PastEnd(N[x], j) - 1)]
           f == Along(T, upTo)
           u == SubSeq(s, a, b - 1)
           t == f[c.next]
           found == FindRange(T, i, j)
<1>1. m \in DOMAIN N /\ c.leaf /\ Covers(low, high, m, i)
  BY FindLeafCovers
<1>2. T.root # Null
  BY TypesOfNodes DEF Shape, Rooted, Null
<1>3. found = IF a > Len(s) THEN <<>> ELSE u \o t
  BY <1>2 DEF FindRange
<1>4. ASSUME NEW x \in DOMAIN N
      PROVE  upTo[x] \in Seq(Nat) /\ Increasing(upTo[x]) /\ ToSet(upTo[x]) = ToSet(N[x].keys) \cap W
  <2> DEFINE p == N[x].keys
             z == PastEnd(N[x], j)
  <2>1. p \in Seq(Nat) /\ Len(p) \in Nat /\ ToSet(p) \subseteq Nat
    BY TypesOfNodes DEF Shape
  <2>2. Increasing(p)
    BY DEF Shape, Ordered
  <2>3. z \in 1 .. (Len(p) + 1)
    BY <2>1, PastEndProperties
  <2>4. \A l \in 1 .. Len(p) : l < z => ~ (p[l] > j)
    BY <2>1, PastEndProperties
  <2>5. z <= Len(p) => p[z] > j
    BY <2>1, PastEndProperties
  <2>6. upTo[x] = SubSeq(p, 1, z - 1)
    OBVIOUS
  <2> HIDE DEF p, z, upTo
  <2>7. \A l \in 1 .. Len(p) : p[l] \in Nat
    BY <2>1
  <2>8. \A l \in 1 .. Len(p) : l < z => p[l] <= j
    BY <2>4, <2>7
  <2>9. z <= Len(p) => j < p[z]
    <3> HAVE z <= Len(p)
    <3>1. z \in 1 .. Len(p)
      BY <2>1, <2>3
    <3> QED
      BY <2>5, <2>7, <3>1
  <2>10. 1 \in 1 .. (Len(p) + 1) /\ 0 \in Nat /\ 0 <= j
    BY <2>1
  <2>11. \A l \in 1 .. Len(p) : l < 1 => p[l] < 0
    BY <2>1
  <2>12. 1 <= Len(p) => 0 <= p[1]
    <3> HAVE 1 <= Len(p)
    <3>1. 1 \in 1 .. Len(p)
      BY <2>1
    <3> QED
      BY <2>7, <3>1
  <2>13. /\ SubSeq(p, 1, z - 1) \in Seq(Nat) /\ Increasing(SubSeq(p, 1, z - 1))
         /\ ToSet(SubSeq(p, 1, z - 1)) = {k \in ToSet(p) : 0 <= k /\ k <= j}
    <3>1. Cuts(p, 0, j, 1, z)
      BY <2>3, <2>8, <2>9, <2>10, <2>11, <2>12 DEF Cuts
    <3> QED
      BY <2>1, <2>2, <2>10, <3>1, PartBetween
  <2>14. {k \in ToSet(p) : 0 <= k /\ k <= j} = ToSet(p) \cap W
    BY <2>1
  <2> QED
    BY <2>6, <2>13, <2>14 DEF p
<1>5. upTo \in [DOMAIN N -> Seq(Nat)]
  BY <1>4
<1>6. s \in Seq(Nat) /\ Len(s) \in Nat /\ ToSet(s) \subseteq Nat
  BY <1>1, TypesOfNodes DEF Shape
<1>7. Increasing(s)
  BY <1>1 DEF Shape, Ordered
<1>8. L \subseteq Nat
  BY LeafKeysTyped DEF Shape
<1>9. a \in 1 .. (Len(s) + 1)
  BY <1>6, InsertionPointProperties
<1>10. \A l \in 1 .. Len(s) : l < a => ~ (s[l] >= i)
  BY <1>6, InsertionPointProperties
<1>11. a <= Len(s) => s[a] >= i
  BY <1>6, InsertionPointProperties
<1>12. b \in 1 .. (Len(s) + 1)
  BY <1>6, PastEndProperties
<1>13. \A l \in 1 .. Len(s) : l < b => ~ (s[l] > j)
  BY <1>6, PastEndProperties
<1>14. b <= Len(s) => s[b] > j
  BY <1>6, PastEndProperties
<1>15. low[m] \in Nat /\ low[m] <= i
  BY <1>1, TypesOfMeasures DEF Shape, Covers
<1>16. i \in L => i \in ToSet(s)
  <2> HIDE DEF m
  <2> QED
    BY <1>1, KeyInOneLeaf
<1>17. /\ f[Null] = <<>>
       /\ \A n \in DOMAIN N : N[n].leaf =>
             /\ f[n] \in Seq(Nat) /\ Increasing(f[n]) /\ ToSet(f[n]) = {k \in L \cap W : low[n] <= k}
  <2> HIDE DEF upTo, W
  <2>1. Says(N, upTo, W)
    BY <1>4, <1>5 DEF Says
  <2>2. Tells(N, low, Along(T, upTo), W)
    BY <2>1, ChainLists
  <2> QED
    BY <2>2 DEF Tells
<1>18. \A k \in ToSet(s) : k \in L
  BY <1>1, KeysToTheRight
<1>19. \A l \in 1 .. Len(s) : s[l] \in Nat
  BY <1>6
<1>20. ToSet(s) = {s[l] : l \in 1 .. Len(s)}
  <2> HIDE DEF s
  <2> QED
    BY <1>6, ToSetProperties
<1>21. t \in Seq(Nat) /\ Increasing(t) /\ (\A x \in ToSet(s), y \in ToSet(t) : x < y)
       /\ (\A y \in ToSet(t) : y \in L /\ i <= y /\ y <= j)
       /\ \A k \in L : i <= k /\ k <= j => k \in ToSet(s) \/ k \in ToSet(t)
  <2> DEFINE n == c.next
  <2>1. CASE n = Null
    <3>1. t = <<>>
      BY <1>17, <2>1
    <3>2. ToSet(<<>>) = {} /\ <<>> \in Seq(Nat) /\ Increasing(<<>>)
      BY NoKeys
    <3>3. \A k \in L : low[m] <= k => k \in ToSet(s)
      BY <1>1, <2>1, KeysToTheRight
    <3> HIDE DEF s, t, L, m, n
    <3>4. \A k \in L : i <= k => low[m] <= k
      BY <1>8, <1>15
    <3> QED
      BY <3>1, <3>2, <3>3, <3>4
  <2>2. CASE n # Null
    <3>1. n \in DOMAIN N /\ N[n].leaf
      BY <1>1, <2>2, KeysToTheRight
    <3>2. \A k \in ToSet(s) : k < low[n]
      BY <1>1, <2>2, KeysToTheRight
    <3>3. \A k \in L : low[m] <= k => k \in ToSet(s) \/ low[n] <= k
      BY <1>1, <2>2, KeysToTheRight
    <3>4. i < low[n]
      <4>1. high[m] # 0
        BY <1>1, <2>2 DEF Shape, LeavesShaped
      <4>2. low[n] = high[m]
        BY <1>1, <4>1 DEF Shape, LeavesShaped
      <4> QED
        BY <1>1, <4>1, <4>2 DEF Covers
    <3>5. t \in Seq(Nat) /\ Increasing(t) /\ ToSet(t) = {k \in L \cap W : low[n] <= k}
      BY <1>17, <3>1
    <3> DEFINE ln == low[n]
               lm == low[m]
    <3>6. ln \in Nat
      BY <3>1, TypesOfMeasures DEF Shape
    <3> HIDE DEF s, t, L, m, n, ln, lm
    <3>7. lm \in Nat /\ lm <= i
      BY <1>15 DEF lm
    <3>8. ToSet(t) = {k \in L \cap W : ln <= k} /\ i < ln /\ \A k \in ToSet(s) : k < ln
      BY <3>2, <3>4, <3>5 DEF ln
    <3>9. \A k \in L : lm <= k => k \in ToSet(s) \/ ln <= k
      BY <3>3 DEF ln, lm
    <3>10. \A y \in ToSet(t) : y \in L /\ y \in Nat /\ ln <= y /\ y <= j
      BY <1>8, <3>8
    <3>11. \A y \in ToSet(t) : y \in L /\ i <= y /\ y <= j
      BY <3>6, <3>8, <3>10
    <3>12. \A x \in ToSet(s), y \in ToSet(t) : x < y
      <4> TAKE x \in ToSet(s), y \in ToSet(t)
      <4>1. x \in Nat /\ x < ln
        BY <1>6, <3>8
      <4>2. y \in Nat /\ ln <= y
        BY <3>10
      <4> QED
        BY <3>6, <4>1, <4>2
    <3>13. \A k \in L : i <= k /\ k <= j => k \in ToSet(s) \/ k \in ToSet(t)
      <4> TAKE k \in L
      <4> HAVE i <= k /\ k <= j
      <4>1. k \in Nat /\ lm <= k /\ k \in W
        BY <1>8, <3>7
      <4> QED
        BY <3>8, <3>9, <4>1
    <3> QED
      BY <3>5, <3>11, <3>12, <3>13
  <2> QED
    BY <2>1, <2>2
<1> HIDE DEF s, a, b, t, L, m, c, f, upTo, found
<1>22. CASE a > Len(s)
  <2>1. found = <<>>
    BY <1>3, <1>22
  <2>2. Increasing(<<>>) /\ Len(<<>>) = 0
    BY NoKeys
  <2>3. i \notin ToSet(s)
    BY <1>6, <1>9, <1>10, <1>19, <1>20, <1>22
  <2>4. Len(found) <= j - i + 1
    BY <2>1, <2>2
  <2>5. Increasing(found)
    BY <2>1, <2>2
  <2>6. found \in Seq(Nat)
    BY <2>1
  <2> QED
    BY <1>16, <2>3, <2>4, <2>5, <2>6 DEF found, L
<1>23. CASE ~ (a > Len(s))
  <2>1. found = u \o t
    BY <1>3, <1>23
  <2>2. \A l \in 1 .. Len(s) : l < a => s[l] < i
    BY <1>10, <1>19
  <2>3. a <= Len(s) => i <= s[a]
    <3> HAVE a <= Len(s)
    <3>1. a \in 1 .. Len(s)
      BY <1>6, <1>9
    <3> QED
      BY <1>11, <1>19, <3>1
  <2>4. \A l \in 1 .. Len(s) : l < b => s[l] <= j
    BY <1>13, <1>19
  <2>5. b <= Len(s) => j < s[b]
    <3> HAVE b <= Len(s)
    <3>1. b \in 1 .. Len(s)
      BY <1>6, <1>12
    <3> QED
      BY <1>14, <1>19, <3>1
  <2>6. u \in Seq(Nat) /\ Increasing(u) /\ ToSet(u) = {k \in ToSet(s) : i <= k /\ k <= j}
    <3>1. Cuts(s, i, j, a, b)
      BY <1>9, <1>12, <2>2, <2>3, <2>4, <2>5 DEF Cuts
    <3> QED
      BY <1>6, <1>7, <3>1, PartBetween
  <2> HIDE DEF u
  <2>7. \A x \in ToSet(u), y \in ToSet(t) : x < y
    BY <1>21, <2>6
  <2>8. Increasing(u \o t)
    BY <1>21, <2>6, <2>7, ConcatIncreases
  <2>9. ToSet(u \o t) = ToSet(u) \cup ToSet(t)
    BY <1>21, <2>6, ToSetOfConcat
  <2>10. ToSet(u \o t) = {k \in L : i <= k /\ k <= j}
    <3>1. \A k \in ToSet(u \o t) : k \in L /\ i <= k /\ k <= j
      BY <1>18, <1>21, <2>6, <2>9
    <3>2. \A k \in L : i <= k /\ k <= j => k \in ToSet(u \o t)
      BY <1>21, <2>6, <2>9
    <3> QED
      BY <3>1, <3>2
  <2>11. u \o t \in Seq(Nat)
    BY <1>21, <2>6
  <2>12. Len(u \o t) <= j - i + 1
    <3> DEFINE w == u \o t
    <3>1. w \in Seq(Nat) /\ Increasing(w) /\ \A x \in ToSet(w) : i <= x /\ x <= j
      BY <2>8, <2>10, <2>11
    <3> HIDE DEF w
    <3> QED
      BY <3>1, IncreasingWithin DEF w
  <2> QED
    BY <2>1, <2>8, <2>10, <2>11, <2>12 DEF found, L
<1> QED
  BY <1>22, <1>23

-----------------------------------------------------------------------------
(* The trees the operations make.                                          *)

IsTree(T) == T = [root |-> T.root, nodes |-> T.nodes, records |-> T.records]

\* A tree whose nodes are typed.
Typed(T) == IsTree(T) /\ NodesTyped(T.nodes)

LEMMA NodeFields ==
    ASSUME NEW c \in Nodes
    PROVE  c = [leaf |-> c.leaf, keys |-> c.keys, ptrs |-> c.ptrs, parent |-> c.parent,
                next |-> c.next]
BY DEF Nodes

LEMMA NodeType ==
    ASSUME NEW c \in Nodes
    PROVE  /\ c.leaf \in BOOLEAN /\ c.parent \in Nat /\ c.next \in Nat
           /\ c.keys \in Seq(Keys) /\ c.ptrs \in Seq(Nat)
BY DEF Nodes

LEMMA WithNodeMakes ==
    ASSUME NEW T, Typed(T), NEW n \in Nat \ {0}, NEW c \in Nodes
    PROVE  LET W == WithNode(T, n, c) IN
           /\ Typed(W) /\ W.root = T.root /\ W.records = T.records
           /\ DOMAIN W.nodes = DOMAIN T.nodes \cup {n}
           /\ W.nodes[n] = c
           /\ \A m \in DOMAIN T.nodes \ {n} : W.nodes[m] = T.nodes[m]
<1> DEFINE W == WithNode(T, n, c)
           N == T.nodes
           F == Given(N, n, c)
<1>1. W = [root |-> T.root, nodes |-> F, records |-> T.records]
  BY DEF Typed, IsTree, WithNode
<1>2. DOMAIN F = DOMAIN N \cup {n} /\ F[n] = c /\ \A m \in DOMAIN N \ {n} : F[m] = N[m]
  BY DEF Given
<1>3. F = [m \in DOMAIN N \cup {n} |-> F[m]]
  BY DEF Given
<1>4. NodesTyped(N)
  BY DEF Typed
<1>5. IsFiniteSet(DOMAIN N \cup {n})
  BY <1>4, FS_AddElement DEF NodesTyped
<1>6. \A m \in DOMAIN N : N[m] \in Nodes
  BY <1>4 DEF NodesTyped
<1> HIDE DEF F
<1>7. \A m \in DOMAIN F : F[m] \in Nodes
  BY <1>2, <1>6
<1>8. NodesTyped(F)
  BY <1>2, <1>3, <1>4, <1>5, <1>7 DEF NodesTyped
<1>9. W.root = T.root /\ W.nodes = F /\ W.records = T.records
  BY <1>1
<1>10. Typed(W)
  BY <1>1, <1>8, <1>9 DEF Typed, IsTree
<1> QED
  BY <1>2, <1>9, <1>10

LEMMA WithEntriesMakes ==
    ASSUME NEW T, Typed(T), NEW n \in DOMAIN T.nodes,
           NEW keys \in Seq(Keys), NEW ptrs \in Seq(Nat)
    PROVE  LET W == WithEntries(T, n, keys, ptrs) IN
           /\ Typed(W) /\ W.root = T.root /\ W.records = T.records
           /\ DOMAIN W.nodes = DOMAIN T.nodes
           /\ W.nodes[n] = [leaf |-> T.nodes[n].leaf, keys |-> keys, ptrs |-> ptrs,
                            parent |-> T.nodes[n].parent, next |-> T.nodes[n].next]
           /\ \A m \in DOMAIN T.nodes \ {n} : W.nodes[m] = T.nodes[m]
<1> DEFINE W == WithEntries(T, n, keys, ptrs)
           N == T.nodes
           c == [leaf |-> N[n].leaf, keys |-> keys, ptrs |-> ptrs, parent |-> N[n].parent,
                 next |-> N[n].next]
           F == [N EXCEPT ![n] = c]
<1>1. NodesTyped(N) /\ T = [root |-> T.root, nodes |-> N, records |-> T.records]
  BY DEF Typed, IsTree
<1>2. N[n] \in Nodes
  BY <1>1 DEF NodesTyped
<1>3. c \in Nodes
  BY <1>2 DEF Nodes
<1>4. W = [root |-> T.root, nodes |-> F, records |-> T.records]
  BY <1>1 DEF WithEntries, Refilled
<1>5. N \in [DOMAIN N -> Nodes]
  BY <1>1 DEF NodesTyped
<1> HIDE DEF c
<1>6. F \in [DOMAIN N -> Nodes] /\ F[n] = c /\ \A m \in DOMAIN N \ {n} : F[m] = N[m]
  BY <1>3, <1>5
<1>7. DOMAIN F = DOMAIN N
  BY <1>5
<1> HIDE DEF F
<1>8. NodesTyped(F)
  BY <1>1, <1>6, <1>7 DEF NodesTyped
<1>9. W.root = T.root /\ W.nodes = F /\ W.records = T.records
  BY <1>4
<1>10. Typed(W)
  BY <1>4, <1>8, <1>9 DEF Typed, IsTree
<1> QED
  BY <1>6, <1>7, <1>9, <1>10 DEF c

LEMMA AdoptMakes ==
    ASSUME NEW T, Typed(T), NEW n \in Nat, NEW children
    PROVE  LET W == Adopt(T, n, children) IN
           /\ Typed(W) /\ W.root = T.root /\ W.records = T.records
           /\ DOMAIN W.nodes = DOMAIN T.nodes
           /\ \A m \in DOMAIN T.nodes :
                 /\ W.nodes[m].leaf = T.nodes[m].leaf /\ W.nodes[m].keys = T.nodes[m].keys
                 /\ W.nodes[m].ptrs = T.nodes[m].ptrs /\ W.nodes[m].next = T.nodes[m].next
                 /\ m \in children => W.nodes[m].parent = n
                 /\ m \notin children => W.nodes[m].parent = T.nodes[m].parent
<1> DEFINE W == Adopt(T, n, children)
           N == T.nodes
           F == [m \in DOMAIN N |-> IF m \in children THEN [N[m] EXCEPT !.parent = n] ELSE N[m]]
<1>1. NodesTyped(N) /\ T = [root |-> T.root, nodes |-> N, records |-> T.records]
  BY DEF Typed, IsTree
<1>2. \A m \in DOMAIN N : N[m] \in Nodes
  BY <1>1 DEF NodesTyped
<1>3. W = [root |-> T.root, nodes |-> F, records |-> T.records]
  BY <1>1 DEF Adopt
<1>4. ASSUME NEW m \in DOMAIN N
      PROVE  /\ F[m] \in Nodes
             /\ F[m].leaf = N[m].leaf /\ F[m].keys = N[m].keys
             /\ F[m].ptrs = N[m].ptrs /\ F[m].next = N[m].next
             /\ m \in children => F[m].parent = n
             /\ m \notin children => F[m].parent = N[m].parent
  <2>1. CASE m \in children
    <3>1. F[m] = [N[m] EXCEPT !.parent = n]
      BY <2>1
    <3>2. [N[m] EXCEPT !.parent = n] =
             [leaf |-> N[m].leaf, keys |-> N[m].keys, ptrs |-> N[m].ptrs, parent |-> n,
              next |-> N[m].next]
      BY <1>2, NodeFields
    <3> HIDE DEF F
    <3>3. F[m] = [leaf |-> N[m].leaf, keys |-> N[m].keys, ptrs |-> N[m].ptrs, parent |-> n,
                  next |-> N[m].next]
      BY <3>1, <3>2
    <3>4. F[m] \in Nodes
      BY <1>2, <3>3 DEF Nodes
    <3> QED
      BY <2>1, <3>3, <3>4
  <2>2. CASE m \notin children
    <3>1. F[m] = N[m]
      BY <2>2
    <3> QED
      BY <1>2, <2>2, <3>1
  <2> QED
    BY <2>1, <2>2
<1>5. DOMAIN F = DOMAIN N /\ F = [m \in DOMAIN N |-> F[m]]
  OBVIOUS
<1> HIDE DEF F
<1>6. NodesTyped(F)
  BY <1>1, <1>4, <1>5 DEF NodesTyped
<1>7. W.root = T.root /\ W.nodes = F /\ W.records = T.records
  BY <1>3
<1>8. Typed(W)
  BY <1>3, <1>6, <1>7 DEF Typed, IsTree
<1> QED
  BY <1>4, <1>5, <1>7, <1>8

LEMMA RootedMakes ==
    ASSUME NEW T, Typed(T), NEW r
    PROVE  LET W == [T EXCEPT !.root = r] IN
           Typed(W) /\ W.root = r /\ W.nodes = T.nodes /\ W.records = T.records
BY DEF Typed, IsTree

-----------------------------------------------------------------------------
(* Insertion.                                                              *)

\* Node n of U was split, new is yet to go into the parent.
HalfDivided(U, X, n, new, key) ==
    /\ n \in DOMAIN U /\ new \notin DOMAIN U
    /\ DOMAIN X = DOMAIN U \cup {new}
    /\ \A m \in DOMAIN U \ {n} :
          X[m].leaf = U[m].leaf /\ X[m].keys = U[m].keys /\ X[m].ptrs = U[m].ptrs
                                /\ X[m].next = U[m].next
    /\ PartsDivided(U, X, n, new, key)
    /\ X[new].parent = U[n].parent
    /\ \A m \in DOMAIN U :
          IF ~ U[n].leaf /\ m \in ToSet(X[new].ptrs)
          THEN U[m].parent = n /\ X[m].parent = new
          ELSE X[m].parent = U[m].parent

\* The parent of the split node, and the place of the node in it.
LEMMA ParentOfSplit ==
    ASSUME NEW U, NEW X, NEW r, NEW dep, NEW H, NEW low, NEW high, NEW n, NEW new, NEW key,
           Shape(U, r, dep, H, low, high), HalfDivided(U, X, n, new, key), NodesTyped(X)
    PROVE  LET p == X[n].parent
               i == Place(X[p].ptrs, n)
           IN  /\ p = U[n].parent
               /\ n = r <=> p = Null
               /\ n # r => /\ p \in DOMAIN U /\ p # n /\ p # new
                           /\ dep[n] = dep[p] + 1
                           /\ ~ U[p].leaf /\ X[p].leaf = U[p].leaf /\ X[p].next = U[p].next
                           /\ X[p].keys = U[p].keys /\ X[p].ptrs = U[p].ptrs
                           /\ Len(U[p].ptrs) = Len(U[p].keys) + 1
                           /\ i \in 1 .. Len(U[p].ptrs)
                           /\ U[p].ptrs[i] = n
<1> DEFINE up == U[n].parent
           p == X[n].parent
           i == Place(X[p].ptrs, n)
<1>1. n \in DOMAIN U /\ new \notin DOMAIN U /\ r \in DOMAIN U /\ n # Null
  BY TypesOfNodes DEF HalfDivided, Shape, Rooted, Null
<1>2. n # r => up \in DOMAIN U /\ ~ U[up].leaf /\ dep[n] = dep[up] + 1
               /\ \E a \in 1 .. Len(U[up].ptrs) : U[up].ptrs[a] = n
  BY <1>1, ParentCovers
<1>3. n = r => up = Null
  BY DEF Shape, Rooted
<1>4. n # r => up # Null
  BY <1>2, TypesOfNodes DEF Shape, Null
<1>5. up # n
  <2>1. CASE n = r
    BY <1>1, <1>3, <2>1
  <2>2. CASE n # r
    <3>1. dep[n] \in Nat /\ dep[up] \in Nat /\ dep[n] = dep[up] + 1
      BY <1>1, <1>2, <2>2, DepthWithinHeight
    <3> HIDE DEF up
    <3> QED
      BY <3>1
  <2> QED
    BY <2>1, <2>2
<1>6. p = up
  BY <1>1, <1>5 DEF HalfDivided
<1> HIDE DEF p, up
<1>7. ASSUME n # r
      PROVE  /\ p \in DOMAIN U /\ p # n /\ p # new
             /\ dep[n] = dep[p] + 1
             /\ ~ U[p].leaf /\ X[p].leaf = U[p].leaf /\ X[p].next = U[p].next
             /\ X[p].keys = U[p].keys /\ X[p].ptrs = U[p].ptrs
             /\ Len(U[p].ptrs) = Len(U[p].keys) + 1
             /\ i \in 1 .. Len(U[p].ptrs)
             /\ U[p].ptrs[i] = n
  <2>1. p \in DOMAIN U /\ p # n /\ p # new /\ ~ U[p].leaf /\ dep[n] = dep[p] + 1
    BY <1>1, <1>2, <1>5, <1>6, <1>7
  <2>2. X[p].leaf = U[p].leaf /\ X[p].keys = U[p].keys /\ X[p].ptrs = U[p].ptrs
        /\ X[p].next = U[p].next
    BY <2>1 DEF HalfDivided
  <2>3. Len(U[p].ptrs) = Len(U[p].keys) + 1
    BY <2>1 DEF Shape, InnerShaped
  <2>4. PICK a \in 1 .. Len(U[p].ptrs) : U[p].ptrs[a] = n
    BY <1>2, <1>6, <1>7
  <2>5. \A b \in 1 .. Len(U[p].ptrs) : U[p].ptrs[b] = U[p].ptrs[a] => b = a
    BY <2>1, ChildrenDiffer
  <2>6. U[p].ptrs \in Seq(Nat)
    BY <2>1, TypesOfNodes DEF Shape
  <2>7. Place(U[p].ptrs, U[p].ptrs[a]) = a
    BY <2>5, <2>6, PlaceOnce
  <2>8. i = a
    BY <2>2, <2>4, <2>7
  <2> QED
    BY <2>1, <2>2, <2>3, <2>4, <2>8
<1> QED
  BY <1>3, <1>4, <1>6, <1>7 DEF p, up

\* Node n of the B+ tree U was split to make T.
HalfSplit(T, U, r, dep, H, low, high, n, new, key) ==
    /\ Typed(T) /\ key \in Keys
    /\ Shape(U, r, dep, H, low, high)
    /\ HalfDivided(U, T.nodes, n, new, key)
    /\ Separates(U, T.nodes, low, high, n, new, key)

\* Node p has one more key and child, the other nodes are as they were.
NodeEntered(T, W, p, i, key, new) ==
    /\ Typed(W) /\ W.root = T.root /\ W.records = T.records
    /\ DOMAIN W.nodes = DOMAIN T.nodes
    /\ \A m \in DOMAIN T.nodes \ {p} : W.nodes[m] = T.nodes[m]
    /\ W.nodes[p].leaf = T.nodes[p].leaf /\ W.nodes[p].parent = T.nodes[p].parent
    /\ W.nodes[p].next = T.nodes[p].next
    /\ W.nodes[p].keys = InsertAt(T.nodes[p].keys, i, key)
    /\ W.nodes[p].ptrs = InsertAt(T.nodes[p].ptrs, i + 1, new)
    /\ Len(W.nodes[p].keys) = Len(T.nodes[p].keys) + 1

\* insert_into_node() completes the division.
LEMMA EnterParent ==
    ASSUME NEW T, NEW U, NEW r, NEW dep, NEW H, NEW low, NEW high, NEW n, NEW new, NEW key,
           HalfSplit(T, U, r, dep, H, low, high, n, new, key), n # r
    PROVE  LET p == T.nodes[n].parent
               i == Place(T.nodes[p].ptrs, n)
               W == InsertIntoNode(T, p, i, key, new)
           IN  /\ NodeEntered(T, W, p, i, key, new)
               /\ Divided(U, W.nodes, n, new, p, i, key)
               /\ Separates(U, W.nodes, low, high, n, new, key)
<1> DEFINE X == T.nodes
           p == X[n].parent
           i == Place(X[p].ptrs, n)
           W == InsertIntoNode(T, p, i, key, new)
           F == W.nodes
           s == X[p].keys
           t == X[p].ptrs
           s2 == InsertAt(s, i, key)
           t2 == InsertAt(t, i + 1, new)
<1> USE DEF HalfSplit
<1>1. NodesTyped(X)
  BY DEF Typed
<1>2. p = U[n].parent
  BY <1>1, ParentOfSplit
<1>3. p \in DOMAIN U /\ p # n /\ p # new /\ ~ U[p].leaf /\ X[p].leaf = U[p].leaf
      /\ X[p].next = U[p].next
  BY <1>1, ParentOfSplit
<1>4. X[p].keys = U[p].keys /\ X[p].ptrs = U[p].ptrs
  BY <1>1, ParentOfSplit
<1>5. Len(U[p].ptrs) = Len(U[p].keys) + 1 /\ i \in 1 .. Len(U[p].ptrs) /\ U[p].ptrs[i] = n
  BY <1>1, ParentOfSplit
<1>6. DOMAIN X = DOMAIN U \cup {new} /\ n \in DOMAIN U /\ new \notin DOMAIN U
  BY DEF HalfDivided
<1>7. new \in Nat
  BY <1>1, <1>6, TypesOfNodes
<1> HIDE DEF p, i
<1>8. s \in Seq(Keys) /\ t \in Seq(Nat) /\ Len(s) \in Nat /\ Len(t) = Len(s) + 1
  BY <1>1, <1>3, <1>4, <1>5, <1>6, TypesOfNodes
<1>9. i \in 1 .. (Len(s) + 1) /\ i + 1 \in 1 .. (Len(t) + 1)
  BY <1>4, <1>5, <1>8
<1> HIDE DEF s, t
<1>10. s2 \in Seq(Keys) /\ Len(s2) = Len(s) + 1
  BY <1>8, <1>9, InsertAtProperties
<1>11. t2 \in Seq(Nat)
  BY <1>7, <1>8, <1>9, InsertAtProperties
<1>12. W = WithEntries(T, p, s2, t2)
  BY DEF InsertIntoNode, s, t
<1> HIDE DEF s2, t2, W
<1>13. p \in DOMAIN T.nodes
  BY <1>3, <1>6
<1>14. Typed(W) /\ W.root = T.root /\ W.records = T.records
  BY <1>10, <1>11, <1>12, <1>13, WithEntriesMakes
<1>15. /\ DOMAIN F = DOMAIN X
       /\ F[p] = [leaf |-> X[p].leaf, keys |-> s2, ptrs |-> t2, parent |-> X[p].parent,
                  next |-> X[p].next]
       /\ \A m \in DOMAIN X \ {p} : F[m] = X[m]
  BY <1>10, <1>11, <1>12, <1>13, WithEntriesMakes
<1> HIDE DEF F, X
<1>16. F[p].leaf = X[p].leaf /\ F[p].keys = s2 /\ F[p].ptrs = t2 /\ F[p].parent = X[p].parent
       /\ F[p].next = X[p].next
  BY <1>15
<1>17. F[n] = X[n] /\ F[new] = X[new]
  BY <1>3, <1>6, <1>15
<1>18. Divided(U, F, n, new, p, i, key)
  <2>1. \A m \in DOMAIN U \ {n, p} :
           F[m].leaf = U[m].leaf /\ F[m].keys = U[m].keys /\ F[m].ptrs = U[m].ptrs
                                 /\ F[m].next = U[m].next
    BY <1>6, <1>15 DEF HalfDivided, X
  <2>2. PartsDivided(U, F, n, new, key)
    BY <1>17 DEF HalfDivided, PartsDivided, X
  <2>3. F[p].keys = InsertAt(U[p].keys, i, key) /\ F[p].ptrs = InsertAt(U[p].ptrs, i + 1, new)
    BY <1>4, <1>16 DEF s, t, s2, t2, X
  <2>4. ParentEntered(U, F, p, i, new, key)
    BY <1>3, <1>16, <2>3 DEF ParentEntered, X
  <2>5. F[new].parent = p
    BY <1>2, <1>17 DEF HalfDivided, X
  <2>6. \A m \in DOMAIN U : F[m].parent = X[m].parent
    BY <1>6, <1>15, <1>16
  <2>7. \A m \in DOMAIN U :
           IF ~ U[n].leaf /\ m \in ToSet(F[new].ptrs)
           THEN U[m].parent = n /\ F[m].parent = new
           ELSE F[m].parent = U[m].parent
    BY <1>17, <2>6 DEF HalfDivided, X
  <2> QED
    BY <1>3, <1>5, <1>6, <1>15, <2>1, <2>2, <2>4, <2>5, <2>7 DEF Divided, X
<1>19. Separates(U, F, low, high, n, new, key)
  BY <1>17 DEF Separates, X
<1> QED
  BY <1>10, <1>14, <1>15, <1>16, <1>18, <1>19 DEF F, W, X, p, i, s, t, s2, t2, NodeEntered

\* The two halves of an increasing sequence and the key between them.
LEMMA HalvesOfInner ==
    ASSUME NEW s \in Seq(Keys), Increasing(s), NEW i \in 1 .. Len(s), Keys \subseteq Nat
    PROVE  /\ SubSeq(s, 1, i - 1) \in Seq(Keys) /\ Len(SubSeq(s, 1, i - 1)) = i - 1
           /\ SubSeq(s, i + 1, Len(s)) \in Seq(Keys) /\ Len(SubSeq(s, i + 1, Len(s))) = Len(s) - i
           /\ s[i] \in Keys /\ s[i] \in ToSet(s)
           /\ s = (SubSeq(s, 1, i - 1) \o <<s[i]>>) \o SubSeq(s, i + 1, Len(s))
           /\ \A x \in ToSet(SubSeq(s, 1, i - 1)) : x < s[i]
           /\ \A x \in ToSet(SubSeq(s, i + 1, Len(s))) : s[i] < x
<1> DEFINE a == SubSeq(s, 1, i - 1)
           b == SubSeq(s, i + 1, Len(s))
           e == s[i]
<1>1. s \in Seq(Nat) /\ Len(s) \in Nat
  <2>1. Len(s) \in Nat /\ DOMAIN s = 1 .. Len(s) /\ s = [j \in 1 .. Len(s) |-> s[j]]
    OBVIOUS
  <2>2. \A j \in 1 .. Len(s) : s[j] \in Keys
    OBVIOUS
  <2>3. \A j \in 1 .. Len(s) : s[j] \in Nat
    BY <2>2
  <2> QED
    BY <2>1, <2>3
<1>2. a \in Seq(Nat) /\ Len(a) = i - 1
  BY <1>1, PartsAndMiddle
<1>3. b \in Seq(Nat) /\ Len(b) = Len(s) - i
  BY <1>1, PartsAndMiddle
<1>4. e \in Nat /\ s = (a \o <<e>>) \o b
  BY <1>1, PartsAndMiddle
<1>5. e \in Keys
  OBVIOUS
<1>6. e \in ToSet(s)
  BY <1>1, ElementsInSet
<1>7. a \in Seq(Keys)
  <2> DEFINE j == i - 1
  <2>1. 1 \in 1 .. (Len(s) + 1) /\ j \in 0 .. Len(s) /\ 1 <= j + 1
    BY <1>1
  <2> HIDE DEF j
  <2>2. SubSeq(s, 1, j) \in Seq(Keys)
    BY <2>1, PartProperties
  <2> QED
    BY <2>2 DEF j
<1>8. b \in Seq(Keys)
  <2> DEFINE j == i + 1
             l == Len(s)
  <2>1. j \in 1 .. (Len(s) + 1) /\ l \in 0 .. Len(s) /\ j <= l + 1
    BY <1>1
  <2> HIDE DEF j, l
  <2>2. SubSeq(s, j, l) \in Seq(Keys)
    BY <2>1, PartProperties
  <2> QED
    BY <2>2 DEF j, l
<1> HIDE DEF a, b, e
<1>9. Increasing((a \o <<e>>) \o b)
  BY <1>4
<1>10. \A x \in ToSet(a) : x < e
  BY <1>2, <1>3, <1>4, <1>9, PartsAround
<1>11. \A x \in ToSet(b) : e < x
  BY <1>2, <1>3, <1>4, <1>9, PartsAround
<1> QED
  BY <1>2, <1>3, <1>4, <1>5, <1>6, <1>7, <1>8, <1>10, <1>11 DEF a, b, e

LEMMA KeysAreNumbers == Keys \subseteq Nat /\ 0 \notin Keys /\ Orders \subseteq 3 .. 20
BY BPTreeAssumption

\* c goes on with the halves of p, which was full in W.
NodeSplit(c, T, W, p, low, high) ==
    LET X == c.tree.nodes IN
    /\ Typed(c.tree) /\ c.tree.root = T.root /\ c.tree.records = T.records
    /\ c.left = p /\ c.key \in Keys /\ c.right # Null
    /\ HalfDivided(W.nodes, X, p, c.right, c.key)
    /\ Separates(W.nodes, X, low, high, p, c.right, c.key)
    /\ Len(X[p].keys) = Cut(order) - 1 /\ Len(X[c.right].keys) = order - Cut(order)

\* insert_into_node_after_splitting() divides the node anew, after its entries
\* went in as insert_into_node() puts them.
LEMMA SplitInner ==
    ASSUME NEW T, Typed(T), NEW W, order \in Orders,
           NEW p, NEW i, NEW key, NEW new,
           NEW r, NEW dep, NEW H, NEW low, NEW high,
           NodeEntered(T, W, p, i, key, new),
           Shape(W.nodes, r, dep, H, low, high),
           p \in DOMAIN T.nodes, ~ W.nodes[p].leaf, Len(W.nodes[p].keys) = order
    PROVE  NodeSplit(SplitNode(T, p, i, key, new), T, W, p, low, high)
<1> DEFINE N == T.nodes
           F == W.nodes
           keys == F[p].keys
           ptrs == F[p].ptrs
           split == Cut(order)
           q == FreeAddress(N)
           k1 == SubSeq(keys, 1, split - 1)
           k2 == SubSeq(keys, split + 1, order)
           p1 == SubSeq(ptrs, 1, split)
           p2 == SubSeq(ptrs, split + 1, order + 1)
           up == keys[split]
           T1 == WithEntries(T, p, k1, p1)
           d == [leaf |-> FALSE, keys |-> k2, ptrs |-> p2, parent |-> N[p].parent, next |-> Null]
           T2 == WithNode(T1, q, d)
           T3 == Adopt(T2, q, ToSet(p2))
           X == T3.nodes
<1>0. /\ DOMAIN F = DOMAIN N /\ \A m \in DOMAIN N \ {p} : F[m] = N[m]
      /\ F[p].leaf = N[p].leaf /\ F[p].parent = N[p].parent /\ F[p].next = N[p].next
      /\ p \in DOMAIN F
  BY DEF NodeEntered
<1>1. SplitNode(T, p, i, key, new) = Call(T3, p, up, q)
  BY DEF SplitNode, NodeEntered
<1>2. order \in 3 .. 20 /\ split \in 1 .. order /\ split \in Nat /\ Len(keys) = order
  <2>1. order \in 3 .. 20
    BY KeysAreNumbers
  <2> QED
    BY <2>1 DEF Cut
<1>3. keys \in Seq(Keys) /\ ptrs \in Seq(Nat) /\ F[p].leaf = FALSE /\ F[p].next = Null
      /\ Len(ptrs) = order + 1
  <2>1. keys \in Seq(Keys) /\ ptrs \in Seq(Nat) /\ F[p].leaf \in BOOLEAN
    BY <1>0, TypesOfNodes DEF Shape
  <2>2. F[p].next = Null /\ Len(ptrs) = Len(keys) + 1
    BY <1>0 DEF Shape, InnerShaped
  <2> QED
    BY <2>1, <2>2
<1>4. Increasing(keys) /\ \A k \in ToSet(keys) : Covers(low, high, p, k) /\ low[p] < k
  BY <1>0 DEF Shape, Ordered
<1>5. N[p].leaf = FALSE /\ N[p].parent = F[p].parent /\ N[p].parent \in Nat
  BY <1>0, <1>3, TypesOfNodes DEF Typed
<1>6. q \in Nat \ {0} /\ q \notin DOMAIN N
  BY FreeAddressProperties DEF Typed, NodesTyped
<1> HIDE DEF keys, ptrs, split, q
<1>7. k1 \in Seq(Keys) /\ Len(k1) = split - 1
  BY <1>2, <1>3, <1>4, HalvesOfInner, KeysAreNumbers
<1>8. k2 \in Seq(Keys) /\ Len(k2) = order - split
  BY <1>2, <1>3, <1>4, HalvesOfInner, KeysAreNumbers
<1>9. up \in Keys /\ up \in ToSet(keys) /\ keys = (k1 \o <<up>>) \o k2
  BY <1>2, <1>3, <1>4, HalvesOfInner, KeysAreNumbers
<1>10. (\A x \in ToSet(k1) : x < up) /\ \A x \in ToSet(k2) : up < x
  BY <1>2, <1>3, <1>4, HalvesOfInner, KeysAreNumbers
<1>11. /\ p1 \in Seq(Nat) /\ Len(p1) = split
       /\ p2 \in Seq(Nat) /\ Len(p2) = order + 1 - split
       /\ ptrs = p1 \o p2
  <2>1. split \in 0 .. Len(ptrs) /\ Len(ptrs) = order + 1
    BY <1>2, <1>3
  <2>2. p1 \in Seq(Nat) /\ Len(p1) = split
    BY <1>3, <2>1, TwoParts
  <2> DEFINE z == SubSeq(ptrs, split + 1, Len(ptrs))
  <2>3. z \in Seq(Nat) /\ Len(z) = Len(ptrs) - split /\ ptrs = p1 \o z
    BY <1>3, <2>1, TwoParts
  <2>4. z = p2
    BY <2>1
  <2> HIDE DEF z, p1, p2
  <2> QED
    BY <2>1, <2>2, <2>3, <2>4
<1> HIDE DEF k1, k2, p1, p2, up
<1>12. /\ Typed(T1) /\ T1.root = T.root /\ T1.records = T.records
       /\ DOMAIN T1.nodes = DOMAIN N
       /\ T1.nodes[p] = [leaf |-> N[p].leaf, keys |-> k1, ptrs |-> p1, parent |-> N[p].parent,
                         next |-> N[p].next]
       /\ \A m \in DOMAIN N \ {p} : T1.nodes[m] = N[m]
  BY <1>7, <1>11, WithEntriesMakes
<1>13. d \in Nodes
  BY <1>5, <1>8, <1>11 DEF Nodes, Null
<1> HIDE DEF T1
<1>14. d.leaf = FALSE /\ d.keys = k2 /\ d.ptrs = p2 /\ d.parent = N[p].parent /\ d.next = Null
  OBVIOUS
<1> HIDE DEF d
<1>15. /\ Typed(T2) /\ T2.root = T1.root /\ T2.records = T1.records
       /\ DOMAIN T2.nodes = DOMAIN T1.nodes \cup {q}
       /\ T2.nodes[q] = d
       /\ \A m \in DOMAIN T1.nodes \ {q} : T2.nodes[m] = T1.nodes[m]
  BY <1>6, <1>12, <1>13, WithNodeMakes
<1> HIDE DEF T2
<1>16. /\ Typed(T3) /\ T3.root = T2.root /\ T3.records = T2.records
       /\ DOMAIN X = DOMAIN T2.nodes
  BY <1>6, <1>15, AdoptMakes
<1>17. \A m \in DOMAIN T2.nodes :
          /\ X[m].leaf = T2.nodes[m].leaf /\ X[m].keys = T2.nodes[m].keys
          /\ X[m].ptrs = T2.nodes[m].ptrs /\ X[m].next = T2.nodes[m].next
          /\ m \in ToSet(p2) => X[m].parent = q
          /\ m \notin ToSet(p2) => X[m].parent = T2.nodes[m].parent
  BY <1>6, <1>15, AdoptMakes
<1> HIDE DEF T3
<1>18. ToSet(p2) \subseteq ToSet(ptrs)
  BY <1>11, ToSetOfConcat
<1>19. \A m \in ToSet(ptrs) : m \in DOMAIN F /\ F[m].parent = p
  BY <1>0, ChildrenOf DEF ptrs
<1>20. p # q /\ q \notin ToSet(p2)
  BY <1>0, <1>6, <1>18, <1>19
<1>21. p \notin ToSet(p2)
  <2>1. \A m \in ToSet(ptrs) : dep[m] = dep[p] + 1
    BY <1>0, ChildrenOf DEF ptrs
  <2>2. dep[p] \in Nat
    BY <1>0, DepthWithinHeight
  <2> QED
    BY <1>18, <2>1, <2>2
<1>22. \A m \in DOMAIN N \ {p} : T2.nodes[m] = N[m] /\ F[m] = N[m]
  BY <1>0, <1>6, <1>12, <1>15
<1>23. T2.nodes[p] = T1.nodes[p]
  BY <1>12, <1>15, <1>20
<1>24. X[p].leaf = FALSE /\ X[p].keys = k1 /\ X[p].ptrs = p1 /\ X[p].parent = N[p].parent
       /\ X[p].next = N[p].next
  BY <1>5, <1>12, <1>15, <1>17, <1>21, <1>23
<1>25. X[q].leaf = FALSE /\ X[q].keys = k2 /\ X[q].ptrs = p2 /\ X[q].parent = N[p].parent
       /\ X[q].next = Null
  BY <1>12, <1>14, <1>15, <1>17, <1>20
<1>26. N[p].next = Null
  BY <1>0, <1>3
<1>27. HalfDivided(F, X, p, q, up)
  <2>1. DOMAIN X = DOMAIN F \cup {q}
    BY <1>0, <1>12, <1>15, <1>16
  <2>2. \A m \in DOMAIN F \ {p} :
           X[m].leaf = F[m].leaf /\ X[m].keys = F[m].keys /\ X[m].ptrs = F[m].ptrs
                                 /\ X[m].next = F[m].next
    BY <1>0, <1>12, <1>15, <1>17, <1>22
  <2>3. PartsDivided(F, X, p, q, up)
    <3>1. Len(p1) = Len(k1) + 1 /\ Len(p2) = Len(k2) + 1
      BY <1>2, <1>7, <1>8, <1>11
    <3>2. F[p].keys = (k1 \o <<up>>) \o k2 /\ F[p].ptrs = p1 \o p2
      BY <1>9, <1>11 DEF keys, ptrs
    <3>3. X[p].next = Null /\ X[q].next = Null
      BY <1>24, <1>25, <1>26
    <3> QED
      BY <1>3, <1>24, <1>25, <3>1, <3>2, <3>3 DEF PartsDivided
  <2>4. \A m \in DOMAIN F :
           IF ~ F[p].leaf /\ m \in ToSet(X[q].ptrs)
           THEN F[m].parent = p /\ X[m].parent = q
           ELSE X[m].parent = F[m].parent
    <3> TAKE m \in DOMAIN F
    <3>1. CASE m \in ToSet(p2)
      BY <1>0, <1>3, <1>12, <1>15, <1>17, <1>18, <1>19, <1>25, <3>1
    <3>2. CASE m \notin ToSet(p2)
      <4>1. X[m].parent = T2.nodes[m].parent
        BY <1>0, <1>12, <1>15, <1>17, <3>2
      <4>2. CASE m = p
        BY <1>5, <1>24, <1>25, <3>2, <4>2
      <4>3. CASE m # p
        BY <1>0, <1>22, <1>25, <3>2, <4>1, <4>3
      <4> QED
        BY <4>2, <4>3
    <3> QED
      BY <3>1, <3>2
  <2> QED
    BY <1>0, <1>5, <1>6, <1>25, <2>1, <2>2, <2>3, <2>4 DEF HalfDivided
<1>28. Separates(F, X, low, high, p, q, up)
  <2>1. up \in Nat /\ Covers(low, high, p, up) /\ low[p] < up
    BY <1>4, <1>9, KeysAreNumbers
  <2>2. \A k \in ToSet(k2) : up <= k /\ up < k
    <3> TAKE k \in ToSet(k2)
    <3>1. k \in Nat /\ up < k
      BY <1>8, <1>10, ToSetProperties, KeysAreNumbers
    <3> QED
      BY <2>1, <3>1
  <2> QED
    BY <1>10, <1>24, <1>25, <2>1, <2>2 DEF Separates, Covers
<1>29. /\ Typed(T3) /\ T3.root = T.root /\ T3.records = T.records
       /\ Len(X[p].keys) = split - 1 /\ Len(X[q].keys) = order - split
  BY <1>7, <1>8, <1>12, <1>15, <1>16, <1>24, <1>25
<1> QED
  BY <1>1, <1>6, <1>9, <1>27, <1>28, <1>29 DEF NodeSplit, Call, split, Null

LEMMA SmallInsertions ==
    ASSUME NEW a \in Nat, NEW b \in Nat
    PROVE  \A k \in Nat : InsertAt(<<>>, 1, k) = <<k>> /\ InsertAt(<<a>>, 2, b) = <<a, b>>
<1> TAKE k \in Nat
<1> DEFINE s == <<>>
           t == <<a>>
           one == 1
           two == 2
           y == InsertAt(s, one, k)
           z == InsertAt(t, two, b)
<1>1. s \in Seq(Nat) /\ Len(s) = 0 /\ t \in Seq(Nat) /\ Len(t) = 1 /\ t[1] = a
  OBVIOUS
<1>2. one = 1 /\ two = 2
  OBVIOUS
<1> HIDE DEF s, t, one, two
<1>3. one \in 1 .. (Len(s) + 1) /\ two \in 1 .. (Len(t) + 1) /\ one \in 1 .. Len(t) /\ one < two
  BY <1>1, <1>2
<1>4. y \in Seq(Nat) /\ Len(y) = Len(s) + 1 /\ y[one] = k
  <2>1. y \in Seq(Nat)
    BY <1>1, <1>3, InsertAtPlaces
  <2>2. Len(y) = Len(s) + 1
    BY <1>1, <1>3, InsertAtPlaces, ZenonT(30)
  <2>3. y[one] = k
    <3>1. s \in Seq(Nat)
      BY <1>1
    <3>2. \A i \in 1 .. (Len(s) + 1), e \in Nat : InsertAt(s, i, e)[i] = e
      BY <3>1, InsertAtPlaces
    <3> QED
      BY <1>3, <3>2
  <2> QED
    BY <2>1, <2>2, <2>3
<1>5. z \in Seq(Nat) /\ Len(z) = Len(t) + 1 /\ z[two] = b
  <2>1. z \in Seq(Nat)
    BY <1>1, <1>3, InsertAtPlaces
  <2>2. Len(z) = Len(t) + 1
    BY <1>1, <1>3, InsertAtPlaces, ZenonT(30)
  <2>3. z[two] = b
    <3>1. \A i \in 1 .. (Len(t) + 1) : InsertAt(t, i, b)[i] = b
      BY <1>1, InsertAtPlaces, SMTT(30)
    <3> QED
      BY <1>3, <3>1
  <2> QED
    BY <2>1, <2>2, <2>3
<1>6. z[one] = t[one]
  BY <1>1, <1>3, InsertAtPlaces, ZenonT(30)
<1> HIDE DEF y, z
<1>7. y = <<k>>
  BY <1>1, <1>2, <1>4
<1>8. z = <<a, b>>
  BY <1>1, <1>2, <1>5, <1>6
<1> QED
  BY <1>7, <1>8 DEF y, z, s, t, one, two

TreeShaped(T) == \E dep, H, low, high : Shape(T.nodes, T.root, dep, H, low, high)

\* A B+ tree with a new root, which has one key.
RootGrown(T, W, K, key) ==
    LET q == W.root IN
    /\ Typed(W) /\ W.records = T.records
    /\ q \notin DOMAIN T.nodes /\ DOMAIN W.nodes = DOMAIN T.nodes \cup {q}
    /\ \A m \in DOMAIN T.nodes : W.nodes[m].leaf = T.nodes[m].leaf
                                 /\ W.nodes[m].keys = T.nodes[m].keys
    /\ W.nodes[q].leaf = FALSE /\ W.nodes[q].keys = <<key>>
    /\ TreeShaped(W) /\ LeafKeys(W.nodes) = K

\* insert_into_new_root(): the old root gets a parent, which the division then
\* goes into.
LEMMA NewRoot ==
    ASSUME NEW T, NEW U, NEW r, NEW dep, NEW H, NEW low, NEW high, NEW new, NEW key,
           HalfSplit(T, U, r, dep, H, low, high, r, new, key)
    PROVE  RootGrown(T, InsertIntoNewRoot(T, r, key, new), LeafKeys(U), key)
<1> DEFINE X == T.nodes
           q == FreeAddress(X)
           d == [leaf |-> FALSE, keys |-> <<key>>, ptrs |-> <<r, new>>, parent |-> Null,
                 next |-> Null]
           T1 == WithNode(T, q, d)
           T2 == Adopt(T1, q, {r, new})
           F == T2.nodes
           W == InsertIntoNewRoot(T, r, key, new)
           top == [leaf |-> FALSE, keys |-> <<>>, ptrs |-> <<r>>, parent |-> Null, next |-> Null]
           low1 == Given(low, q, 0)
           high1 == Given(high, q, 0)
           below == [leaf |-> U[r].leaf, keys |-> U[r].keys, ptrs |-> U[r].ptrs, parent |-> q,
                     next |-> U[r].next]
           V == [m \in DOMAIN U \cup {q} |-> IF m = q THEN top ELSE IF m = r THEN below ELSE U[m]]
<1> USE DEF HalfSplit
<1>1. NodesTyped(X) /\ NodesTyped(U)
  BY DEF Typed, Shape
<1>2. DOMAIN X = DOMAIN U \cup {new} /\ r \in DOMAIN U /\ new \notin DOMAIN U /\ U[r].parent = Null
  BY DEF HalfDivided, Shape, Rooted
<1>3. q \in Nat \ {0} /\ q \notin DOMAIN X
  BY <1>1, FreeAddressProperties DEF NodesTyped
<1>4. r \in Nat /\ new \in Nat /\ key \in Nat /\ key # 0
  BY <1>1, <1>2, TypesOfNodes, KeysAreNumbers
<1> HIDE DEF q
<1>5. d \in Nodes
  BY <1>4 DEF Nodes, Null
<1>6. d.leaf = FALSE /\ d.keys = <<key>> /\ d.ptrs = <<r, new>> /\ d.parent = Null /\ d.next = Null
  OBVIOUS
<1> HIDE DEF d
<1>7. /\ Typed(T1) /\ T1.root = T.root /\ T1.records = T.records
      /\ DOMAIN T1.nodes = DOMAIN X \cup {q}
      /\ T1.nodes[q] = d
      /\ \A m \in DOMAIN X \ {q} : T1.nodes[m] = X[m]
  BY <1>3, <1>5, WithNodeMakes
<1> HIDE DEF T1
<1>8. Typed(T2) /\ T2.root = T1.root /\ T2.records = T1.records /\ DOMAIN F = DOMAIN T1.nodes
  BY <1>3, <1>7, AdoptMakes
<1>9. \A m \in DOMAIN T1.nodes :
         /\ F[m].leaf = T1.nodes[m].leaf /\ F[m].keys = T1.nodes[m].keys
         /\ F[m].ptrs = T1.nodes[m].ptrs /\ F[m].next = T1.nodes[m].next
         /\ m \in {r, new} => F[m].parent = q
         /\ m \notin {r, new} => F[m].parent = T1.nodes[m].parent
  BY <1>3, <1>7, AdoptMakes
<1>10. W = [T2 EXCEPT !.root = q]
  BY DEF InsertIntoNewRoot, T1, d, q
<1> HIDE DEF T2, W
<1>11. Typed(W) /\ W.root = q /\ W.nodes = F /\ W.records = T.records
  <2>1. Typed([T2 EXCEPT !.root = q]) /\ [T2 EXCEPT !.root = q].root = q
        /\ [T2 EXCEPT !.root = q].nodes = T2.nodes /\ [T2 EXCEPT !.root = q].records = T2.records
    BY <1>8, RootedMakes
  <2> QED
    BY <1>7, <1>8, <1>10, <2>1
<1>12. DOMAIN F = DOMAIN U \cup {new, q} /\ q # r /\ q # new /\ q \notin DOMAIN U
  BY <1>2, <1>3, <1>7, <1>8
<1>13. F[q].leaf = FALSE /\ F[q].keys = <<key>> /\ F[q].ptrs = <<r, new>> /\ F[q].next = Null
       /\ F[q].parent = Null
  BY <1>6, <1>7, <1>9, <1>12
<1>14. \A m \in DOMAIN X : /\ F[m].leaf = X[m].leaf /\ F[m].keys = X[m].keys
                           /\ F[m].ptrs = X[m].ptrs /\ F[m].next = X[m].next
                           /\ m \in {r, new} => F[m].parent = q
                           /\ m \notin {r, new} => F[m].parent = X[m].parent
  BY <1>3, <1>7, <1>9
<1>15. U[r] \in Nodes
  BY <1>1, <1>2 DEF NodesTyped
<1>16. below \in Nodes /\ top \in Nodes
  <2>1. <<>> \in Seq(Keys) /\ <<r>> \in Seq(Nat)
    BY <1>4
  <2>2. top \in Nodes
    BY <2>1 DEF Nodes, Null
  <2>3. below \in Nodes
    BY <1>3, <1>15 DEF Nodes
  <2> QED
    BY <2>2, <2>3
<1>17. below.leaf = U[r].leaf /\ below.keys = U[r].keys /\ below.ptrs = U[r].ptrs
       /\ below.parent = q /\ below.next = U[r].next
  OBVIOUS
<1>18. top.leaf = FALSE /\ top.keys = <<>> /\ top.ptrs = <<r>> /\ top.parent = Null
       /\ top.next = Null
  OBVIOUS
<1> HIDE DEF below, top
<1>19. DOMAIN V = DOMAIN U \cup {q} /\ V[q] = top /\ V[r] = below
       /\ \A m \in DOMAIN U \ {r} : V[m] = U[m]
  BY <1>2, <1>12
<1>20. NodesTyped(V)
  <2>1. V \in [DOMAIN V -> Nodes]
    BY <1>1, <1>16 DEF NodesTyped
  <2>2. IsFiniteSet(DOMAIN U \cup {q})
    BY <1>1, FS_AddElement DEF NodesTyped
  <2> HIDE DEF V
  <2> QED
    BY <1>1, <1>3, <1>19, <2>1, <2>2 DEF NodesTyped
<1> HIDE DEF V
<1>21. Raised(U, V, r, q)
  BY <1>2, <1>12, <1>17, <1>18, <1>19 DEF Raised
<1> DEFINE dep1 == Given([m \in DOMAIN U |-> dep[m] + 1], q, 0)
<1>22. Shape(V, q, dep1, H + 1, low1, high1)
  BY <1>20, <1>21, RaiseShape
<1>23. LeafKeys(V) = LeafKeys(U)
  BY <1>21, RaiseKeys
<1>24. \A m \in DOMAIN U : V[m].leaf = U[m].leaf /\ V[m].keys = U[m].keys
                           /\ V[m].ptrs = U[m].ptrs /\ V[m].next = U[m].next
                           /\ (m # r => V[m].parent = U[m].parent)
  BY <1>17, <1>19
<1>26. ParentEntered(V, F, q, 1, new, key)
  <2>1. InsertAt(<<>>, 1, key) = <<key>> /\ InsertAt(<<r>>, 2, new) = <<r, new>>
    BY <1>4, SmallInsertions
  <2>3. 1 + 1 = 2
    OBVIOUS
  <2> QED
    BY <1>13, <1>18, <1>19, <2>1, <2>3 DEF ParentEntered
<1>27. PartsDivided(V, F, r, new, key)
  <2>1. F[r].leaf = X[r].leaf /\ F[r].keys = X[r].keys /\ F[r].ptrs = X[r].ptrs
        /\ F[r].next = X[r].next
    BY <1>2, <1>14
  <2>2. F[new].leaf = X[new].leaf /\ F[new].keys = X[new].keys /\ F[new].ptrs = X[new].ptrs
        /\ F[new].next = X[new].next
    BY <1>2, <1>14
  <2>3. V[r].leaf = U[r].leaf /\ V[r].keys = U[r].keys /\ V[r].ptrs = U[r].ptrs
        /\ V[r].next = U[r].next
    BY <1>2, <1>24
  <2>4. PartsDivided(U, X, r, new, key)
    BY DEF HalfDivided
  <2> QED
    BY <2>1, <2>2, <2>3, <2>4 DEF PartsDivided
<1>28. \A m \in DOMAIN V :
          IF ~ V[r].leaf /\ m \in ToSet(F[new].ptrs)
          THEN V[m].parent = r /\ F[m].parent = new
          ELSE F[m].parent = V[m].parent
  <2>1. V[r].leaf = U[r].leaf /\ F[new].ptrs = X[new].ptrs
    BY <1>2, <1>14, <1>24
  <2>2. ~ U[r].leaf => ToSet(X[new].ptrs) \subseteq DOMAIN U \ {r}
    <3> HAVE ~ U[r].leaf
    <3>1. U[r].ptrs = X[r].ptrs \o X[new].ptrs
      BY DEF HalfDivided, PartsDivided
    <3>2. X[r].ptrs \in Seq(Nat) /\ X[new].ptrs \in Seq(Nat)
      BY <1>1, <1>2, TypesOfNodes
    <3>3. ToSet(X[new].ptrs) \subseteq ToSet(U[r].ptrs)
      BY <3>1, <3>2, ToSetOfConcat
    <3>4. \A m \in ToSet(U[r].ptrs) : m \in DOMAIN U /\ m # r
      BY <1>2, ChildrenOf
    <3> QED
      BY <3>3, <3>4
  <2> TAKE m \in DOMAIN V
  <2>3. CASE m = q
    BY <1>12, <1>13, <1>18, <1>19, <2>1, <2>2, <2>3
  <2>4. CASE m = r
    <3>1. F[r].parent = q /\ V[r].parent = q
      BY <1>2, <1>14, <1>17, <1>19
    <3> QED
      BY <2>1, <2>2, <2>4, <3>1
  <2>5. CASE m # q /\ m # r
    <3>1. m \in DOMAIN U /\ m \in DOMAIN X /\ m # new
      BY <1>2, <1>19, <2>5
    <3>2. F[m].parent = X[m].parent /\ V[m].parent = U[m].parent
      BY <1>14, <1>24, <2>5, <3>1
    <3>3. IF ~ U[r].leaf /\ m \in ToSet(X[new].ptrs)
          THEN U[m].parent = r /\ X[m].parent = new
          ELSE X[m].parent = U[m].parent
      BY <3>1 DEF HalfDivided
    <3> QED
      BY <2>1, <3>2, <3>3
  <2> QED
    BY <2>3, <2>4, <2>5
<1>29. Divided(V, F, r, new, q, 1, key)
  <2>1. \A m \in DOMAIN V \ {r, q} :
           F[m].leaf = V[m].leaf /\ F[m].keys = V[m].keys /\ F[m].ptrs = V[m].ptrs
                                 /\ F[m].next = V[m].next
    <3> TAKE m \in DOMAIN V \ {r, q}
    <3>1. m \in DOMAIN U \ {r} /\ m \in DOMAIN X
      BY <1>2, <1>19
    <3>2. X[m].leaf = U[m].leaf /\ X[m].keys = U[m].keys /\ X[m].ptrs = U[m].ptrs
                                /\ X[m].next = U[m].next
      BY <3>1 DEF HalfDivided
    <3> QED
      BY <1>14, <1>24, <3>1, <3>2
  <2>2. r \in DOMAIN V /\ q \in DOMAIN V /\ r # q /\ new \notin DOMAIN V
        /\ DOMAIN F = DOMAIN V \cup {new}
    BY <1>2, <1>12, <1>19
  <2>3. ~ V[q].leaf /\ Len(V[q].ptrs) = Len(V[q].keys) + 1 /\ 1 \in 1 .. Len(V[q].ptrs)
        /\ V[q].ptrs[1] = r
    <3> DEFINE a == V[q].ptrs
               b == V[q].keys
    <3>1. a = <<r>> /\ b = <<>>
      BY <1>18, <1>19
    <3> HIDE DEF a, b
    <3>2. Len(a) = 1 /\ a[1] = r /\ Len(b) = 0
      BY <3>1
    <3>3. V[q].leaf = FALSE
      BY <1>18, <1>19
    <3>4. Len(a) = Len(b) + 1 /\ 1 \in 1 .. Len(a) /\ a[1] = r
      BY <3>2
    <3> QED
      BY <3>3, <3>4 DEF a, b
  <2>4. F[new].parent = q
    BY <1>2, <1>14
  <2> QED
    BY <1>26, <1>27, <1>28, <2>1, <2>2, <2>3, <2>4 DEF Divided
<1>30. Separates(V, F, low1, high1, r, new, key)
  <2>1. low1[r] = low[r] /\ high1[r] = high[r]
    <3>1. r \in DOMAIN low /\ r \in DOMAIN high
      BY <1>2 DEF Shape, Measured
    <3> QED
      BY <1>12, <3>1 DEF Given
  <2>2. F[r].keys = X[r].keys /\ F[new].keys = X[new].keys /\ V[r].leaf = U[r].leaf
    BY <1>2, <1>14, <1>24
  <2> HIDE DEF low1, high1
  <2> QED
    BY <2>1, <2>2 DEF Separates
<1>31. NodesTyped(F)
  BY <1>8 DEF Typed
<1> HIDE DEF dep1, low1, high1
<1>32. Shape(F, q, Given(dep1, new, dep1[r]), H + 1, Given(low1, new, key),
             Given(Given(high1, r, key), new, high1[r]))
  BY <1>22, <1>29, <1>30, <1>31, DivideShape
<1>33. LeafKeys(F) = LeafKeys(V)
  BY <1>29, <1>31, DivideKeys
<1>34. TreeShaped(W)
  BY <1>11, <1>32 DEF TreeShaped
<1> QED
  BY <1>3, <1>7, <1>8, <1>11, <1>13, <1>14, <1>23, <1>33, <1>34 DEF F, W, X, RootGrown

\* No node has more keys than the arrays hold, and none is empty.
Fits(N) == \A n \in DOMAIN N : Len(N[n].keys) \in 1 .. (order - 1)

HalfFull(N, S) == \A n \in S : Len(N[n].keys) >= MinKeys(N[n])

\* A B+ tree with keys K and records R.
Sound(T, K, R) ==
    /\ Typed(T) /\ T.records = R
    /\ TreeShaped(T) /\ LeafKeys(T.nodes) = K
    /\ Fits(T.nodes) /\ HalfFull(T.nodes, DOMAIN T.nodes \ {T.root})

\* A call of insert_into_parent() after i others: its node was split out of a
\* B+ tree, at least i levels above the leaves.
Splitting(s, K, R, i, B) ==
    /\ Typed(s.tree) /\ s.tree.records = R
    /\ s.key \in Keys /\ s.right # Null
    /\ Fits(s.tree.nodes)
    /\ HalfFull(s.tree.nodes, DOMAIN s.tree.nodes \ ({s.tree.root} \ {s.left}))
    /\ \E U, dep, H, low, high :
          /\ Shape(U, s.tree.root, dep, H, low, high)
          /\ HalfDivided(U, s.tree.nodes, s.left, s.right, s.key)
          /\ Separates(U, s.tree.nodes, low, high, s.left, s.right, s.key)
          /\ LeafKeys(U) = K
          /\ dep[s.left] + i <= H /\ H < B

Finished(s, K, R) == s.right = Null /\ Sound(s.tree, K, R)

\* The halves of a node are half full.
LEMMA HalvesFit ==
    ASSUME order \in Orders
    PROVE  /\ order \in 3 .. 20 /\ Cut(order) \in 1 .. order
           /\ Cut(order) - 1 \in 1 .. (order - 1)
           /\ order - Cut(order) \in 1 .. (order - 1) /\ order - Cut(order) >= Cut(order) - 1
           /\ Cut(order - 1) \in 1 .. (order - 1)
           /\ order - Cut(order - 1) \in 1 .. (order - 1) /\ order - Cut(order - 1) >= Cut(order - 1)
<1>1. order \in 3 .. 20
  BY KeysAreNumbers
<1> QED
  BY <1>1 DEF Cut

LEMMA InsertStep ==
    ASSUME order \in Orders, NEW s, NEW K, NEW R, NEW i \in Nat, NEW B \in Nat,
           Splitting(s, K, R, i, B)
    PROVE  Splitting(InsertOneUp(s), K, R, i + 1, B) \/ Finished(InsertOneUp(s), K, R)
<1> DEFINE T == s.tree
           X == T.nodes
           n == s.left
           new == s.right
           key == s.key
           r == T.root
           p == X[n].parent
           j == Place(X[p].ptrs, n)
<1>1. Typed(T) /\ T.records = R /\ key \in Keys /\ new # Null /\ NodesTyped(X)
  BY DEF Splitting, Typed
<1>2. Fits(X) /\ HalfFull(X, DOMAIN X \ ({r} \ {n}))
  BY DEF Splitting
<1>3. PICK U, dep, H, low, high :
          /\ Shape(U, r, dep, H, low, high)
          /\ HalfDivided(U, X, n, new, key)
          /\ Separates(U, X, low, high, n, new, key)
          /\ LeafKeys(U) = K
          /\ dep[n] + i <= H /\ H < B
  BY DEF Splitting
<1>4. n = r <=> p = Null
  BY <1>1, <1>3, ParentOfSplit
<1>5. InsertOneUp(s) =
         IF p = Null THEN Inserted(InsertIntoNewRoot(T, n, key, new))
         ELSE IF HasRoom(X[p]) THEN Inserted(InsertIntoNode(T, p, j, key, new))
         ELSE SplitNode(T, p, j, key, new)
  BY <1>1 DEF InsertOneUp
<1> HIDE DEF T, n, new, key, p, j
<1>6. CASE p = Null
  <2> DEFINE W == InsertIntoNewRoot(T, r, key, new)
             F == W.nodes
             q == W.root
  <2>1. n = r
    BY <1>4, <1>6
  <2>2. HalfSplit(T, U, r, dep, H, low, high, r, new, key)
    BY <1>1, <1>3, <2>1 DEF HalfSplit
  <2> HIDE DEF r
  <2>3. /\ Typed(W) /\ W.records = T.records
        /\ q \notin DOMAIN X /\ DOMAIN F = DOMAIN X \cup {q}
        /\ \A m \in DOMAIN X : F[m].leaf = X[m].leaf /\ F[m].keys = X[m].keys
        /\ F[q].leaf = FALSE /\ F[q].keys = <<key>>
        /\ TreeShaped(W) /\ LeafKeys(F) = LeafKeys(U)
    <3>1. RootGrown(T, W, LeafKeys(U), key)
      BY <2>2, NewRoot
    <3> QED
      BY <3>1 DEF RootGrown
  <2> HIDE DEF W
  <2>4. \A m \in DOMAIN X : MinKeys(F[m]) = MinKeys(X[m])
    BY <2>3 DEF MinKeys
  <2>5. HalfFull(X, DOMAIN X)
    BY <1>2, <2>1 DEF HalfFull
  <2>6. HalfFull(F, DOMAIN F \ {q})
    BY <2>3, <2>4, <2>5 DEF HalfFull
  <2>7. Fits(F)
    <3>1. Len(<<key>>) = 1 /\ order \in 3 .. 20
      BY HalvesFit
    <3>2. Len(F[q].keys) \in 1 .. (order - 1)
      BY <2>3, <3>1
    <3>3. \A m \in DOMAIN X : Len(F[m].keys) \in 1 .. (order - 1)
      BY <1>2, <2>3 DEF Fits
    <3> QED
      BY <2>3, <3>2, <3>3 DEF Fits
  <2>8. Sound(W, K, R)
    BY <1>1, <1>3, <2>3, <2>6, <2>7 DEF Sound
  <2>9. InsertOneUp(s) = Inserted(W)
    BY <1>5, <1>6, <2>1 DEF W
  <2> QED
    BY <2>8, <2>9 DEF Finished, Inserted, Call
<1>7. CASE p # Null
  <2> DEFINE W == InsertIntoNode(T, p, j, key, new)
             F == W.nodes
  <2>1. n # r
    BY <1>4, <1>7
  <2>2. p \in DOMAIN U /\ p # n /\ p # new /\ dep[n] = dep[p] + 1 /\ ~ U[p].leaf
        /\ X[p].leaf = U[p].leaf
    BY <1>1, <1>3, <2>1, ParentOfSplit DEF p
  <2>3. n \in DOMAIN U /\ DOMAIN X = DOMAIN U \cup {new} /\ new \notin DOMAIN U
    BY <1>3 DEF HalfDivided
  <2>4. NodeEntered(T, W, p, j, key, new) /\ Divided(U, F, n, new, p, j, key)
        /\ Separates(U, F, low, high, n, new, key)
    <3>1. HalfSplit(T, U, r, dep, H, low, high, n, new, key)
      BY <1>1, <1>3 DEF HalfSplit
    <3> HIDE DEF r
    <3> QED
      BY <2>1, <3>1, EnterParent DEF p, j
  <2> USE DEF NodeEntered
  <2> HIDE DEF W
  <2>5. NodesTyped(F)
    BY <2>4 DEF Typed
  <2> DEFINE dep2 == Given(dep, new, dep[n])
             low2 == Given(low, new, key)
             high2 == Given(Given(high, n, key), new, high[n])
  <2>6. Shape(F, r, dep2, H, low2, high2)
    BY <1>3, <2>4, <2>5, DivideShape
  <2>7. LeafKeys(F) = K
    BY <1>3, <2>4, <2>5, DivideKeys
  <2>8. dep2[p] = dep[p]
    <3>1. p \in DOMAIN dep
      BY <1>3, <2>2 DEF Shape, Measured
    <3> QED
      BY <2>2, <3>1 DEF Given
  <2>9. dep[p] \in Nat /\ H \in Nat
    BY <1>3, <2>2, DepthWithinHeight
  <2> HIDE DEF dep2, low2, high2
  <2>10. dep2[p] + (i + 1) <= H
    BY <1>3, <2>2, <2>8, <2>9
  <2>11. \A m \in DOMAIN X : MinKeys(F[m]) = MinKeys(X[m])
    BY <2>4 DEF MinKeys
  <2>12. HalfFull(X, DOMAIN X \ {r})
    BY <1>2, <2>1 DEF HalfFull
  <2>13. HalfFull(F, DOMAIN F \ {r})
    <3> SUFFICES ASSUME NEW m \in DOMAIN X \ {r}
                 PROVE  Len(F[m].keys) >= MinKeys(F[m])
      BY <2>4 DEF HalfFull
    <3>1. Len(X[m].keys) >= MinKeys(X[m])
      BY <2>12 DEF HalfFull
    <3>2. CASE m = p
      <4>1. Len(X[p].keys) \in Nat
        BY <1>1, <3>2, TypesOfNodes
      <4>2. MinKeys(X[m]) \in Int
        <5>1. order \in 3 .. 20
          BY KeysAreNumbers
        <5> QED
          BY <5>1 DEF MinKeys, Cut
      <4> DEFINE a == Len(X[p].keys)
                 b == MinKeys(X[m])
      <4>3. a >= b /\ a \in Nat /\ b \in Int
        BY <3>1, <3>2, <4>1, <4>2
      <4>4. Len(F[m].keys) = a + 1 /\ MinKeys(F[m]) = b
        BY <2>4, <2>11, <3>2
      <4> HIDE DEF a, b
      <4> QED
        BY <4>3, <4>4
    <3>3. CASE m # p
      BY <2>4, <2>11, <3>1, <3>3
    <3> QED
      BY <3>2, <3>3
  <2>14. Len(X[p].keys) \in 1 .. (order - 1) /\ order \in 3 .. 20
    BY <1>2, <2>2, <2>3, HalvesFit DEF Fits
  <2>15. CASE HasRoom(X[p])
    <3>1. Len(X[p].keys) < order - 1
      BY <2>15 DEF HasRoom
    <3>2. Len(F[p].keys) \in 1 .. (order - 1)
      BY <2>4, <2>14, <3>1
    <3>3. Fits(F)
      BY <1>2, <2>4, <3>2 DEF Fits
    <3>4. TreeShaped(W)
      BY <2>4, <2>6 DEF TreeShaped, r
    <3>5. Sound(W, K, R)
      BY <1>1, <2>4, <2>7, <2>13, <3>3, <3>4 DEF Sound, r
    <3>6. InsertOneUp(s) = Inserted(W)
      BY <1>5, <1>7, <2>15 DEF W
    <3> QED
      BY <3>5, <3>6 DEF Finished, Inserted, Call
  <2>16. CASE ~ HasRoom(X[p])
    <3> DEFINE c == SplitNode(T, p, j, key, new)
               Y == c.tree.nodes
    <3>1. Len(F[p].keys) = order
      <4>1. ~ (Len(X[p].keys) < order - 1)
        BY <2>16 DEF HasRoom
      <4> QED
        BY <2>4, <2>14, <4>1
    <3>2. Shape(W.nodes, r, dep2, H, low2, high2) /\ p \in DOMAIN T.nodes /\ ~ W.nodes[p].leaf
      BY <2>2, <2>3, <2>4, <2>6
    <3> HIDE DEF NodeEntered
    <3>5. /\ Typed(c.tree) /\ c.tree.root = T.root /\ c.tree.records = T.records
          /\ c.left = p /\ c.key \in Keys /\ c.right # Null
          /\ HalfDivided(W.nodes, Y, p, c.right, c.key)
          /\ Separates(W.nodes, Y, low2, high2, p, c.right, c.key)
          /\ Len(Y[p].keys) = Cut(order) - 1 /\ Len(Y[c.right].keys) = order - Cut(order)
      <4>1. NodeSplit(c, T, W, p, low2, high2)
        BY <1>1, <2>4, <3>1, <3>2, SplitInner
      <4> HIDE DEF c
      <4> QED
        BY <4>1 DEF NodeSplit
    <3> USE DEF NodeEntered
    <3>6. InsertOneUp(s) = c
      BY <1>5, <1>7, <2>16
    <3> HIDE DEF c
    <3>7. DOMAIN Y = DOMAIN F \cup {c.right} /\ c.right \notin DOMAIN F /\ p \in DOMAIN F
          /\ \A m \in DOMAIN F \ {p} : Y[m].leaf = F[m].leaf /\ Y[m].keys = F[m].keys
      BY <3>5 DEF HalfDivided
    <3>8. Y[p].leaf = FALSE /\ Y[c.right].leaf = FALSE
      <4>1. Y[p].leaf = F[p].leaf /\ Y[c.right].leaf = F[p].leaf
        BY <3>5 DEF HalfDivided, PartsDivided
      <4>2. F[p].leaf \in BOOLEAN
        BY <2>5, <3>7, TypesOfNodes
      <4> QED
        BY <3>2, <4>1, <4>2
    <3>9. Fits(Y)
      <4>1. \A m \in DOMAIN F \ {p} : Len(Y[m].keys) \in 1 .. (order - 1)
        BY <1>2, <2>4, <3>7 DEF Fits
      <4>2. Len(Y[p].keys) \in 1 .. (order - 1) /\ Len(Y[c.right].keys) \in 1 .. (order - 1)
        BY <3>5, HalvesFit
      <4> QED
        BY <3>7, <4>1, <4>2 DEF Fits
    <3>10. HalfFull(Y, DOMAIN Y \ ({r} \ {p}))
      <4>1. \A m \in DOMAIN F \ {p, r} : Len(Y[m].keys) >= MinKeys(Y[m])
        BY <2>13, <3>7 DEF HalfFull, MinKeys
      <4>2. MinKeys(Y[p]) = Cut(order) - 1 /\ MinKeys(Y[c.right]) = Cut(order) - 1
        BY <3>8 DEF MinKeys
      <4>3. Len(Y[p].keys) >= MinKeys(Y[p]) /\ Len(Y[c.right].keys) >= MinKeys(Y[c.right])
        BY <3>5, <4>2, HalvesFit
      <4> QED
        BY <3>7, <4>1, <4>3 DEF HalfFull
    <3>11. Splitting(c, K, R, i + 1, B)
      <4>1. c.tree.root = r /\ c.tree.records = R
        BY <1>1, <3>5 DEF r
      <4>2. Shape(F, c.tree.root, dep2, H, low2, high2)
        BY <2>6, <4>1
      <4>3. HalfDivided(F, c.tree.nodes, c.left, c.right, c.key)
            /\ Separates(F, c.tree.nodes, low2, high2, c.left, c.right, c.key)
            /\ dep2[c.left] + (i + 1) <= H
        BY <2>10, <3>5
      <4>4. HalfFull(c.tree.nodes, DOMAIN c.tree.nodes \ ({c.tree.root} \ {c.left}))
        BY <3>5, <3>10, <4>1
      <4>5. \E U2, d2, H2, l2, h2 :
               /\ Shape(U2, c.tree.root, d2, H2, l2, h2)
               /\ HalfDivided(U2, c.tree.nodes, c.left, c.right, c.key)
               /\ Separates(U2, c.tree.nodes, l2, h2, c.left, c.right, c.key)
               /\ LeafKeys(U2) = K
               /\ d2[c.left] + (i + 1) <= H2 /\ H2 < B
        BY <1>3, <2>7, <4>2, <4>3
      <4> QED
        BY <3>5, <3>9, <4>1, <4>4, <4>5 DEF Splitting
    <3> QED
      BY <3>6, <3>11
  <2> QED
    BY <2>15, <2>16
<1> QED
  BY <1>6, <1>7

\* The calls of insert_into_parent() one after the other.
InsertCalls(f, c, B) == f = [i \in 0 .. B |-> IF i = 0 THEN c ELSE InsertOneUp(f[i - 1])]

LEMMA InsertCallsDefined ==
    ASSUME NEW c
    PROVE  \A B \in Nat : \E f : InsertCalls(f, c, B)
<1> DEFINE Bad == {B \in Nat : ~ \E f : InsertCalls(f, c, B)}
<1>1. SUFFICES ASSUME Bad # {}
               PROVE  FALSE
  OBVIOUS
<1>2. PICK B \in Bad : \A e \in Bad : B <= e
  <2>1. Bad \subseteq Nat
    OBVIOUS
  <2> HIDE DEF Bad
  <2> QED
    BY <1>1, <2>1, LeastElement
<1>3. B \in Nat /\ ~ \E f : InsertCalls(f, c, B)
  OBVIOUS
<1>4. CASE B = 0
  <2> DEFINE f == [i \in 0 .. 0 |-> c]
  <2>1. \A i \in 0 .. 0 : i = 0
    OBVIOUS
  <2>2. f = [i \in 0 .. 0 |-> IF i = 0 THEN c ELSE InsertOneUp(f[i - 1])]
    BY <2>1
  <2> QED
    BY <1>3, <1>4, <2>2 DEF InsertCalls
<1>5. CASE B # 0
  <2>1. B - 1 \in Nat /\ ~ (B <= B - 1)
    BY <1>3, <1>5
  <2>2. PICK g : InsertCalls(g, c, B - 1)
    BY <1>2, <2>1
  <2> DEFINE f == [i \in 0 .. B |-> IF i = B THEN InsertOneUp(g[B - 1]) ELSE g[i]]
  <2>3. \A i \in 0 .. (B - 1) : g[i] = IF i = 0 THEN c ELSE InsertOneUp(g[i - 1])
    BY <2>2 DEF InsertCalls
  <2>4. \A i \in 0 .. (B - 1) : f[i] = g[i]
    BY <1>3
  <2>5. f[B] = InsertOneUp(g[B - 1])
    BY <1>3
  <2>6. DOMAIN f = 0 .. B /\ f = [i \in 0 .. B |-> f[i]]
    OBVIOUS
  <2> HIDE DEF f
  <2>7. \A i \in 0 .. B : f[i] = IF i = 0 THEN c ELSE InsertOneUp(f[i - 1])
    <3> TAKE i \in 0 .. B
    <3>1. CASE i = B
      <4>1. B - 1 \in 0 .. (B - 1)
        BY <2>1
      <4> QED
        BY <1>5, <2>4, <2>5, <3>1, <4>1
    <3>2. CASE i # B /\ i # 0
      <4>1. i \in 0 .. (B - 1) /\ i - 1 \in 0 .. (B - 1)
        BY <1>3, <3>2
      <4> QED
        BY <2>3, <2>4, <3>2, <4>1
    <3>3. CASE i = 0 /\ i # B
      <4>1. i \in 0 .. (B - 1)
        BY <1>3, <3>3
      <4> QED
        BY <2>3, <2>4, <3>3, <4>1
    <3> QED
      BY <3>1, <3>2, <3>3
  <2>8. f = [i \in 0 .. B |-> IF i = 0 THEN c ELSE InsertOneUp(f[i - 1])]
    BY <2>6, <2>7
  <2> QED
    BY <1>3, <2>8 DEF InsertCalls
<1> QED
  BY <1>4, <1>5

\* There are calls enough: a split at the last one would be above the root.
LEMMA InsertParents ==
    ASSUME order \in Orders, NEW T, NEW left, NEW key, NEW right, NEW K, NEW R,
           IsFiniteSet(DOMAIN T.nodes),
           Splitting(Call(T, left, key, right), K, R, 0, Cardinality(DOMAIN T.nodes))
    PROVE  Sound(InsertIntoParent(T, left, key, right), K, R)
<1> DEFINE B == Cardinality(DOMAIN T.nodes)
           c == Call(T, left, key, right)
           f == CHOOSE g : InsertCalls(g, c, B)
<1>1. B \in Nat
  BY FS_CardinalityType
<1>2. InsertIntoParent(T, left, key, right) = f[B].tree
  BY DEF InsertIntoParent, InsertCalls
<1> HIDE DEF B, c
<1>3. InsertCalls(f, c, B)
  BY <1>1, InsertCallsDefined
<1> HIDE DEF f
<1> DEFINE Good(i) == Splitting(f[i], K, R, i, B) \/ Finished(f[i], K, R)
           Bad == {i \in 0 .. B : ~ Good(i)}
<1>4. Good(0)
  <2>1. f[0] = c
    BY <1>1, <1>3 DEF InsertCalls
  <2> QED
    BY <2>1 DEF B, c
<1>5. ASSUME NEW i \in Nat, i + 1 \in 0 .. B, Good(i)
      PROVE  Good(i + 1)
  <2>1. f[i + 1] = InsertOneUp(f[i])
    <3>1. i + 1 # 0 /\ (i + 1) - 1 = i
      OBVIOUS
    <3> QED
      BY <1>3, <1>5, <3>1 DEF InsertCalls
  <2>2. CASE Splitting(f[i], K, R, i, B)
    BY <1>1, <2>1, <2>2, InsertStep
  <2>3. CASE Finished(f[i], K, R)
    <3>1. InsertOneUp(f[i]) = f[i]
      BY <2>3 DEF Finished, InsertOneUp
    <3> QED
      BY <2>1, <2>3, <3>1
  <2> QED
    BY <1>5, <2>2, <2>3
<1>6. Bad = {}
  <2>1. SUFFICES ASSUME Bad # {}
                 PROVE  FALSE
    OBVIOUS
  <2>2. Bad \subseteq Nat
    BY <1>1
  <2>3. PICK j \in Bad : \A e \in Bad : j <= e
    <3> HIDE DEF Bad
    <3> QED
      BY <2>1, <2>2, LeastElement
  <2>4. j \in 0 .. B /\ ~ Good(j)
    OBVIOUS
  <2> HIDE DEF Good
  <2>5. j # 0
    BY <1>4, <2>4
  <2> DEFINE i == j - 1
  <2>6. i \in Nat /\ i + 1 = j /\ i \in 0 .. B /\ ~ (j <= i)
    BY <1>1, <2>4, <2>5
  <2> HIDE DEF i
  <2>7. Good(i)
    BY <2>3, <2>6
  <2> QED
    BY <1>5, <2>4, <2>6, <2>7
<1>7. Good(B)
  BY <1>1, <1>6
<1>8. ~ Splitting(f[B], K, R, B, B)
  <2> SUFFICES ASSUME Splitting(f[B], K, R, B, B)
               PROVE  FALSE
    OBVIOUS
  <2> DEFINE s == f[B]
  <2>1. PICK U, dep, H, low, high :
             /\ Shape(U, s.tree.root, dep, H, low, high)
             /\ HalfDivided(U, s.tree.nodes, s.left, s.right, s.key)
             /\ dep[s.left] + B <= H /\ H < B
    BY DEF Splitting
  <2>2. s.left \in DOMAIN U
    BY <2>1 DEF HalfDivided
  <2>3. dep[s.left] \in Nat /\ H \in Nat
    BY <2>1, <2>2, DepthWithinHeight
  <2> QED
    BY <1>1, <2>1, <2>3
<1> QED
  BY <1>2, <1>7, <1>8 DEF Finished

-----------------------------------------------------------------------------
(* Insertion into a leaf.                                                  *)

LEMMA KeySequences == \A s \in Seq(Keys) : s \in Seq(Nat)
<1> TAKE s \in Seq(Keys)
<1>1. Len(s) \in Nat /\ s = [j \in 1 .. Len(s) |-> s[j]]
  OBVIOUS
<1>2. \A j \in 1 .. Len(s) : s[j] \in Keys
  OBVIOUS
<1>3. \A j \in 1 .. Len(s) : s[j] \in Nat
  BY <1>2, KeysAreNumbers
<1> QED
  BY <1>1, <1>3

\* The two parts of the keys of a leaf.
LEMMA HalvesOfLeaf ==
    ASSUME NEW s \in Seq(Keys), Increasing(s), NEW i \in 1 .. (Len(s) - 1), Keys \subseteq Nat
    PROVE  /\ SubSeq(s, 1, i) \in Seq(Keys) /\ Len(SubSeq(s, 1, i)) = i
           /\ SubSeq(s, i + 1, Len(s)) \in Seq(Keys) /\ Len(SubSeq(s, i + 1, Len(s))) = Len(s) - i
           /\ s[i + 1] \in Keys /\ s[i + 1] \in ToSet(s)
           /\ s = SubSeq(s, 1, i) \o SubSeq(s, i + 1, Len(s))
           /\ \A x \in ToSet(SubSeq(s, 1, i)) : x < s[i + 1]
           /\ \A x \in ToSet(SubSeq(s, i + 1, Len(s))) : s[i + 1] <= x
           /\ s[1] < s[i + 1] /\ s[1] \in ToSet(s)
<1> DEFINE a == SubSeq(s, 1, i)
           b == SubSeq(s, i + 1, Len(s))
           l == Len(s)
           e == s[i + 1]
<1>1. l \in Nat /\ i \in Nat /\ i \in 0 .. l /\ i + 1 \in 1 .. l /\ 1 \in 1 .. l /\ i <= l /\ 1 < i + 1
      /\ i + 1 \in 1 .. (l + 1) /\ i \in 1 .. l
  OBVIOUS
<1>2. \A j \in 1 .. l : s[j] \in Keys /\ s[j] \in Nat
  <2>1. \A j \in 1 .. l : s[j] \in Keys
    OBVIOUS
  <2> QED
    BY <2>1
<1>3. s \in Seq(Nat)
  <2>1. DOMAIN s = 1 .. l /\ s = [j \in 1 .. l |-> s[j]]
    OBVIOUS
  <2> QED
    BY <1>1, <1>2, <2>1
<1>4. /\ a \in Seq(Keys) /\ Len(a) = i
      /\ \A m \in 1 .. i : a[m] = s[m]
  <2> DEFINE one == 1
  <2>1. one \in 1 .. (l + 1) /\ i \in 0 .. l /\ one <= i + 1 /\ one = 1
    BY <1>1
  <2> HIDE DEF one, l
  <2>2. SubSeq(s, one, i) \in Seq(Keys)
    BY <2>1, PartProperties DEF l
  <2>3. Len(SubSeq(s, one, i)) = i - one + 1
    BY <2>1, PartProperties DEF l
  <2>4. \A m \in 1 .. (i - one + 1) : SubSeq(s, one, i)[m] = s[one + m - 1]
    BY <2>1, PartProperties DEF l
  <2>5. i - one + 1 = i /\ \A m \in 1 .. i : one + m - 1 = m
    BY <1>1, <2>1
  <2> QED
    BY <2>1, <2>2, <2>3, <2>4, <2>5
<1>5. /\ b \in Seq(Keys) /\ Len(b) = l - i
      /\ \A m \in 1 .. (l - i) : b[m] = s[i + m]
  <2> DEFINE j == i + 1
             z == SubSeq(s, j, l)
  <2>1. j \in 1 .. (l + 1) /\ l \in 0 .. l /\ j <= l + 1
    BY <1>1
  <2> HIDE DEF j
  <2>2. z \in Seq(Keys)
    BY <2>1, PartProperties
  <2>3. Len(z) = l - j + 1
    BY <2>1, PartProperties
  <2>4. \A m \in 1 .. (l - j + 1) : z[m] = s[j + m - 1]
    BY <2>1, PartProperties
  <2>5. l - j + 1 = l - i /\ \A m \in 1 .. (l - i) : j + m - 1 = i + m
    BY <1>1 DEF j
  <2> HIDE DEF z
  <2>6. z \in Seq(Keys) /\ Len(z) = l - i /\ \A m \in 1 .. (l - i) : z[m] = s[i + m]
    BY <2>2, <2>3, <2>4, <2>5
  <2> QED
    BY <2>6 DEF z, j
<1>6. s = a \o b
  BY <1>1, <1>3, TwoParts
<1>7. e \in Keys /\ e \in ToSet(s) /\ s[1] \in ToSet(s)
  BY <1>1, <1>2, ElementsInSet
<1>8. s[1] < e
  BY <1>1 DEF Increasing
<1> HIDE DEF l
<1>9. ASSUME NEW x \in ToSet(a)
      PROVE  x < e
  <2>1. PICK m \in 1 .. i : a[m] = x
    BY <1>4, ElementsInSet
  <2>2. m \in 1 .. l /\ m < i + 1 /\ x = s[m]
    BY <1>1, <1>4, <2>1
  <2> QED
    BY <1>1, <2>2 DEF Increasing, l
<1>10. ASSUME NEW x \in ToSet(b)
       PROVE  e <= x
  <2>1. PICK m \in 1 .. (l - i) : b[m] = x
    BY <1>5, ElementsInSet
  <2>2. x = s[i + m] /\ i + m \in 1 .. l
    BY <1>1, <1>5, <2>1
  <2>3. CASE m = 1
    BY <1>1, <1>2, <2>2, <2>3
  <2>4. CASE m # 1
    <3>1. i + 1 < i + m
      BY <1>1, <2>1, <2>4
    <3>2. s[i + 1] < s[i + m] /\ s[i + 1] \in Nat /\ s[i + m] \in Nat
      BY <1>1, <1>2, <2>2, <3>1 DEF Increasing, l
    <3> QED
      BY <2>2, <3>2
  <2> QED
    BY <2>3, <2>4
<1> QED
  BY <1>4, <1>5, <1>6, <1>7, <1>8, <1>9, <1>10 DEF l

\* W is T with the key in the leaf for it.
LeafEntered(T, W, n, key) ==
    /\ Typed(W) /\ W.root = T.root /\ W.records = T.records
    /\ n \in DOMAIN T.nodes /\ DOMAIN W.nodes = DOMAIN T.nodes
    /\ \A m \in DOMAIN T.nodes \ {n} : W.nodes[m] = T.nodes[m]
    /\ W.nodes[n].leaf = TRUE /\ T.nodes[n].leaf = TRUE
    /\ W.nodes[n].parent = T.nodes[n].parent /\ W.nodes[n].next = T.nodes[n].next
    /\ T.nodes[n].ptrs = T.nodes[n].keys
    /\ W.nodes[n].keys = InsertAt(T.nodes[n].keys, InsertionPoint(T.nodes[n], key), key)
    /\ W.nodes[n].ptrs = W.nodes[n].keys
    /\ Len(W.nodes[n].keys) = Len(T.nodes[n].keys) + 1
    /\ LeafKeys(W.nodes) = LeafKeys(T.nodes) \cup {key}

\* insert_into_leaf() puts the key where it belongs.
LEMMA EnterLeaf ==
    ASSUME NEW T, Typed(T), NEW dep, NEW H, NEW low, NEW high,
           Shape(T.nodes, T.root, dep, H, low, high),
           NEW key \in Keys, key \notin LeafKeys(T.nodes)
    PROVE  LET n == FindLeaf(T, key)
               W == InsertIntoLeaf(T, n, key, key)
           IN  LeafEntered(T, W, n, key) /\ Shape(W.nodes, T.root, dep, H, low, high)
<1> DEFINE N == T.nodes
           n == FindLeaf(T, key)
           c == N[n]
           s == c.keys
           i == InsertionPoint(c, key)
           t == InsertAt(s, i, key)
           W == InsertIntoLeaf(T, n, key, key)
           F == W.nodes
<1>0. Keys \subseteq Nat /\ key \in Nat /\ NodesTyped(N)
  BY KeysAreNumbers DEF Typed
<1>1. n \in DOMAIN N /\ c.leaf = TRUE /\ Covers(low, high, n, key)
  <2>1. n \in DOMAIN N /\ c.leaf /\ Covers(low, high, n, key)
    BY <1>0, FindLeafCovers
  <2> HIDE DEF n
  <2>2. c.leaf \in BOOLEAN
    BY <1>0, <2>1, TypesOfNodes
  <2> QED
    BY <2>1, <2>2
<1> HIDE DEF n
<1>2. s \in Seq(Keys) /\ s \in Seq(Nat) /\ c.ptrs = s
  <2>1. s \in Seq(Keys) /\ s \in Seq(Nat)
    BY <1>0, <1>1, TypesOfNodes
  <2>2. c.ptrs = s
    BY <1>1 DEF Shape, LeavesShaped
  <2> QED
    BY <2>1, <2>2
<1>3. Increasing(s) /\ \A k \in ToSet(s) : Covers(low, high, n, k)
  BY <1>1 DEF Shape, Ordered
<1>4. key \notin ToSet(s)
  BY <1>0, <1>1, KeyInOneLeaf
<1>5. i \in 1 .. (Len(s) + 1) /\ Increasing(t)
  BY <1>0, <1>2, <1>3, <1>4, KeyInserted
<1> HIDE DEF i
<1>6. t \in Seq(Keys) /\ Len(t) = Len(s) + 1 /\ ToSet(t) = ToSet(s) \cup {key}
  <2>1. t \in Seq(Keys)
    BY <1>2, <1>5, InsertAtProperties
  <2>2. Len(t) = Len(s) + 1
    BY <1>2, <1>5, InsertAtProperties, SMTT(30)
  <2>3. ToSet(t) = ToSet(s) \cup {key}
    BY <1>2, <1>5, ToSetOfInsertAt
  <2> QED
    BY <2>1, <2>2, <2>3
<1>7. W = WithEntries(T, n, t, t)
  BY <1>2 DEF InsertIntoLeaf, i
<1> HIDE DEF t, W
<1>8. t \in Seq(Nat)
  <2>1. \A j \in 1 .. Len(t) : t[j] \in Nat
    <3>1. \A j \in 1 .. Len(t) : t[j] \in Keys
      BY <1>6
    <3> QED
      BY <1>0, <3>1
  <2>2. Len(t) \in Nat /\ t = [j \in 1 .. Len(t) |-> t[j]]
    BY <1>6
  <2> QED
    BY <2>1, <2>2
<1>9. /\ Typed(W) /\ W.root = T.root /\ W.records = T.records
      /\ DOMAIN F = DOMAIN N
      /\ F[n] = [leaf |-> c.leaf, keys |-> t, ptrs |-> t, parent |-> c.parent, next |-> c.next]
      /\ \A m \in DOMAIN N \ {n} : F[m] = N[m]
  BY <1>1, <1>6, <1>7, <1>8, WithEntriesMakes
<1>10. F[n].leaf = TRUE /\ F[n].keys = t /\ F[n].ptrs = t /\ F[n].parent = c.parent /\ F[n].next = c.next
  BY <1>1, <1>9
<1>11. LeafChanged(N, F, n) /\ NodesTyped(F)
  BY <1>1, <1>9, <1>10 DEF LeafChanged, Typed
<1>12. Increasing(F[n].keys) /\ \A k \in ToSet(F[n].keys) : Covers(low, high, n, k)
  BY <1>1, <1>3, <1>5, <1>6, <1>10 DEF t
<1>13. Shape(F, T.root, dep, H, low, high)
  BY <1>11, <1>12, LeafShape
<1>14. LeafKeys(F) = LeafKeys(N) \cup {key}
  <2>1. LeafKeys(F) = (LeafKeys(N) \ ToSet(s)) \cup ToSet(F[n].keys)
    BY <1>11, <1>12, LeafChangeKeys
  <2>2. ToSet(s) \subseteq LeafKeys(N)
    BY <1>1 DEF LeafKeys
  <2> QED
    BY <1>6, <1>10, <2>1, <2>2
<1>15. LeafEntered(T, W, n, key)
  BY <1>1, <1>2, <1>6, <1>9, <1>10, <1>14 DEF LeafEntered, t, i
<1> QED
  BY <1>13, <1>15 DEF n, W

LEMMA SoundNode ==
    ASSUME NEW T, NEW K, NEW R, Sound(T, K, R), NEW n \in DOMAIN T.nodes
    PROVE  Len(T.nodes[n].keys) \in 1 .. (order - 1)
BY DEF Sound, Fits

\* insert_into_leaf_after_splitting() up to its call of insert_into_parent().
LEMMA SplitFullLeaf ==
    ASSUME order \in Orders, NEW T, NEW K, NEW R, Sound(T, K, R),
           NEW key \in Keys, key \notin K,
           ~ HasRoom(T.nodes[FindLeaf(T, key)])
    PROVE  Sound(SplitLeaf(T, FindLeaf(T, key), key, key), K \cup {key}, R)
<1> DEFINE N == T.nodes
           n == FindLeaf(T, key)
           c == N[n]
           W == InsertIntoLeaf(T, n, key, key)
           F == W.nodes
           s == F[n].keys
           split == Cut(order - 1)
           q == FreeAddress(N)
           k1 == SubSeq(s, 1, split)
           k2 == SubSeq(s, split + 1, order)
           up == s[split + 1]
           first == Refilled(c, k1, k1, q)
           second == Refilled(c, k2, k2, c.next)
           T1 == WithNode(T, n, first)
           T2 == WithNode(T1, q, second)
           X == T2.nodes
           r == T.root
<1>1. PICK dep, H, low, high : Shape(N, r, dep, H, low, high)
  BY DEF Sound, TreeShaped
<1>2. Typed(T) /\ NodesTyped(N) /\ LeafKeys(N) = K /\ T.records = R /\ Fits(N)
      /\ HalfFull(N, DOMAIN N \ {r})
  BY DEF Sound, Typed
<1>3. LeafEntered(T, W, n, key) /\ Shape(F, r, dep, H, low, high)
  BY <1>1, <1>2, EnterLeaf
<1>35. ~ HasRoom(c)
  OBVIOUS
<1> HIDE DEF W, n, r
<1>4. /\ Typed(W) /\ W.root = r /\ W.records = R
      /\ n \in DOMAIN N /\ DOMAIN F = DOMAIN N
      /\ \A m \in DOMAIN N \ {n} : F[m] = N[m]
      /\ F[n].leaf = TRUE /\ c.leaf = TRUE
      /\ F[n].parent = c.parent /\ F[n].next = c.next /\ F[n].ptrs = s
      /\ Len(s) = Len(c.keys) + 1
      /\ LeafKeys(F) = K \cup {key}
  BY <1>2, <1>3 DEF LeafEntered, r
<1>5. s = InsertAt(c.keys, InsertionPoint(c, key), key) /\ c.ptrs = c.keys
  BY <1>3 DEF LeafEntered
<1>6. SplitLeaf(T, n, key, key) = InsertIntoParent(T2, n, up, q)
  BY <1>5 DEF SplitLeaf
<1>7. order \in 3 .. 20 /\ split \in 1 .. (order - 1) /\ order - split \in 1 .. (order - 1)
      /\ order - split >= split
  <2>1. order \in 3 .. 20
    BY HalvesFit
  <2> QED
    BY <2>1 DEF Cut
<1>8. Len(s) = order
  <2>1. Len(c.keys) \in 1 .. (order - 1)
    BY <1>2, <1>4 DEF Fits
  <2>2. ~ (Len(c.keys) < order - 1)
    BY <1>35 DEF HasRoom
  <2> DEFINE l == Len(c.keys)
  <2>3. Len(s) = l + 1 /\ l \in 1 .. (order - 1) /\ ~ (l < order - 1)
    BY <1>4, <2>1, <2>2
  <2> HIDE DEF l, s
  <2> QED
    BY <1>7, <2>3
<1>9. s \in Seq(Keys) /\ s \in Seq(Nat) /\ NodesTyped(F)
  <2>1. NodesTyped(F)
    BY <1>4 DEF Typed
  <2> QED
    BY <1>4, <2>1, TypesOfNodes
<1>10. Increasing(s) /\ \A k \in ToSet(s) : Covers(low, high, n, k)
  BY <1>3, <1>4 DEF Shape, Ordered
<1>11. q \in Nat \ {0} /\ q \notin DOMAIN N
  BY <1>2, FreeAddressProperties DEF NodesTyped
<1>12. c.parent \in Nat /\ c.next \in Nat
  BY <1>2, <1>4, TypesOfNodes
<1> HIDE DEF s, split, q
<1>13. split \in 1 .. (Len(s) - 1)
  BY <1>7, <1>8
<1>14. k1 \in Seq(Keys) /\ Len(k1) = split
  BY <1>9, <1>10, <1>13, HalvesOfLeaf, KeysAreNumbers
<1>15. k2 \in Seq(Keys) /\ Len(k2) = order - split
  BY <1>8, <1>9, <1>10, <1>13, HalvesOfLeaf, KeysAreNumbers
<1>16. up \in Keys /\ up \in ToSet(s) /\ s = k1 \o k2
  BY <1>8, <1>9, <1>10, <1>13, HalvesOfLeaf, KeysAreNumbers
<1>17. (\A x \in ToSet(k1) : x < up) /\ \A x \in ToSet(k2) : up <= x
  BY <1>8, <1>9, <1>10, <1>13, HalvesOfLeaf, KeysAreNumbers
<1>18. s[1] < up /\ s[1] \in ToSet(s)
  BY <1>9, <1>10, <1>13, HalvesOfLeaf, KeysAreNumbers
<1> HIDE DEF k1, k2, up
<1>19. k1 \in Seq(Nat) /\ k2 \in Seq(Nat)
  <2>1. \A z \in Seq(Keys) : z \in Seq(Nat)
    BY KeySequences
  <2> QED
    BY <1>14, <1>15, <2>1
<1>20. first \in Nodes /\ second \in Nodes
  BY <1>4, <1>11, <1>12, <1>14, <1>15, <1>19 DEF Nodes, Refilled
<1>21. /\ first.leaf = TRUE /\ first.keys = k1 /\ first.ptrs = k1 /\ first.parent = c.parent
       /\ first.next = q
       /\ second.leaf = TRUE /\ second.keys = k2 /\ second.ptrs = k2 /\ second.parent = c.parent
       /\ second.next = c.next
  BY <1>4 DEF Refilled
<1> HIDE DEF first, second, T1, T2
<1>22. n \in Nat \ {0}
  BY <1>2, <1>4, TypesOfNodes
<1>23. /\ Typed(T1) /\ T1.root = T.root /\ T1.records = T.records
       /\ DOMAIN T1.nodes = DOMAIN N \cup {n}
       /\ T1.nodes[n] = first
       /\ \A m \in DOMAIN N \ {n} : T1.nodes[m] = N[m]
  BY <1>2, <1>20, <1>22, WithNodeMakes DEF T1
<1>24. /\ Typed(T2) /\ T2.root = T1.root /\ T2.records = T1.records
       /\ DOMAIN X = DOMAIN T1.nodes \cup {q}
       /\ X[q] = second
       /\ \A m \in DOMAIN T1.nodes \ {q} : X[m] = T1.nodes[m]
  BY <1>11, <1>20, <1>23, WithNodeMakes DEF T2
<1>25. /\ DOMAIN X = DOMAIN F \cup {q} /\ q \notin DOMAIN F /\ n \in DOMAIN F /\ n # q
       /\ X[n] = first /\ X[q] = second
       /\ \A m \in DOMAIN F \ {n} : X[m] = F[m]
  BY <1>4, <1>11, <1>23, <1>24
<1>26. T2.root = r /\ T2.records = R /\ NodesTyped(X)
  BY <1>2, <1>23, <1>24 DEF r, Typed
<1>27. HalfDivided(F, X, n, q, up)
  <2>1. PartsDivided(F, X, n, q, up)
    BY <1>4, <1>16, <1>21, <1>25 DEF PartsDivided, s
  <2>2. \A m \in DOMAIN F : X[m].parent = F[m].parent
    BY <1>4, <1>21, <1>25
  <2> QED
    BY <1>4, <1>21, <1>25, <2>1, <2>2 DEF HalfDivided
<1>28. Separates(F, X, low, high, n, q, up)
  <2>1. up \in Nat /\ Covers(low, high, n, up) /\ Covers(low, high, n, s[1]) /\ s[1] \in Nat
    <3>1. Covers(low, high, n, up) /\ Covers(low, high, n, s[1])
      BY <1>10, <1>16, <1>18
    <3>2. s[1] \in Nat
      BY <1>9, <1>18, ToSetProperties
    <3> QED
      BY <1>16, <3>1, <3>2, KeysAreNumbers
  <2>2. low[n] \in Nat
    BY <1>1, <1>4 DEF Shape, Measured
  <2>3. low[n] < up
    BY <1>18, <2>1, <2>2 DEF Covers
  <2> QED
    BY <1>4, <1>17, <1>21, <1>25, <2>1, <2>3 DEF Separates, Covers
<1>29. Fits(X)
  <2>1. Len(X[n].keys) \in 1 .. (order - 1) /\ Len(X[q].keys) \in 1 .. (order - 1)
    BY <1>7, <1>14, <1>15, <1>21, <1>25
  <2>2. \A m \in DOMAIN F \ {n} : Len(X[m].keys) \in 1 .. (order - 1)
    BY <1>2, <1>4, <1>25 DEF Fits
  <2> QED
    BY <1>25, <2>1, <2>2 DEF Fits
<1>30. HalfFull(X, DOMAIN X \ ({r} \ {n}))
  <2>1. \A m \in DOMAIN F \ {n, r} : Len(X[m].keys) >= MinKeys(X[m])
    <3>1. \A m \in DOMAIN F \ {n, r} : X[m] = N[m] /\ Len(N[m].keys) >= MinKeys(N[m])
      BY <1>2, <1>4, <1>25 DEF HalfFull
    <3> QED
      BY <3>1
  <2>2. MinKeys(X[n]) = split /\ MinKeys(X[q]) = split
    BY <1>21, <1>25 DEF MinKeys, split
  <2>3. Len(X[n].keys) >= MinKeys(X[n]) /\ Len(X[q].keys) >= MinKeys(X[q])
    BY <1>7, <1>14, <1>15, <1>21, <1>25, <2>2
  <2> QED
    BY <1>25, <2>1, <2>3 DEF HalfFull
<1>31. IsFiniteSet(DOMAIN X)
  BY <1>26 DEF NodesTyped
<1>32. dep[n] + 0 <= H /\ H < Cardinality(DOMAIN X)
  <2>1. dep[n] = H /\ H \in Nat
    BY <1>3, <1>4 DEF Shape, LeavesShaped, Measured
  <2>2. Cardinality(DOMAIN F) \in Nat /\ H < Cardinality(DOMAIN F)
    BY <1>3, HeightBelowSize
  <2>3. IsFiniteSet(DOMAIN F)
    BY <1>9 DEF NodesTyped
  <2>4. Cardinality(DOMAIN X) = Cardinality(DOMAIN F) + 1
    BY <1>25, <2>3, FS_AddElement
  <2> QED
    BY <2>1, <2>2, <2>4
<1>33. Splitting(Call(T2, n, up, q), K \cup {key}, R, 0, Cardinality(DOMAIN X))
  <2> DEFINE d == Call(T2, n, up, q)
  <2>1. d.tree = T2 /\ d.left = n /\ d.key = up /\ d.right = q
    BY DEF Call
  <2> HIDE DEF d
  <2>2. \E U, dep2, H2, low2, high2 :
           /\ Shape(U, d.tree.root, dep2, H2, low2, high2)
           /\ HalfDivided(U, d.tree.nodes, d.left, d.right, d.key)
           /\ Separates(U, d.tree.nodes, low2, high2, d.left, d.right, d.key)
           /\ LeafKeys(U) = K \cup {key}
           /\ dep2[d.left] + 0 <= H2 /\ H2 < Cardinality(DOMAIN X)
    BY <1>3, <1>4, <1>26, <1>27, <1>28, <1>32, <2>1
  <2>3. Splitting(d, K \cup {key}, R, 0, Cardinality(DOMAIN X))
    BY <1>11, <1>16, <1>24, <1>26, <1>29, <1>30, <2>1, <2>2 DEF Splitting, Null
  <2> QED
    BY <2>3 DEF d
<1>34. Sound(InsertIntoParent(T2, n, up, q), K \cup {key}, R)
  BY <1>31, <1>33, InsertParents
<1> QED
  BY <1>6, <1>34 DEF n

\* insert_record() of the model: a key that is not in a B+ tree comes into it.
LEMMA InsertSound ==
    ASSUME order \in Orders, NEW T, NEW K, NEW R, Sound(T, K, R),
           NEW key \in Keys, key \notin K
    PROVE  Sound(InsertRecord(T, key), K \cup {key}, R)
<1> DEFINE N == T.nodes
           n == FindLeaf(T, key)
           W == InsertIntoLeaf(T, n, key, key)
           F == W.nodes
           r == T.root
<1>1. PICK dep, H, low, high : Shape(N, r, dep, H, low, high)
  BY DEF Sound, TreeShaped
<1>2. Typed(T) /\ LeafKeys(N) = K /\ T.records = R /\ Fits(N) /\ HalfFull(N, DOMAIN N \ {r})
  BY DEF Sound
<1>3. r # Null
  BY <1>1 DEF Shape, Rooted, NodesTyped, Null
<1>4. CASE ~ HasRoom(N[n])
  BY <1>3, <1>4, SplitFullLeaf DEF InsertRecord
<1>5. CASE HasRoom(N[n])
  <2>1. LeafEntered(T, W, n, key) /\ Shape(F, r, dep, H, low, high)
    BY <1>1, <1>2, EnterLeaf
  <2>2. InsertRecord(T, key) = W
    BY <1>3, <1>5 DEF InsertRecord
  <2> HIDE DEF W, n, r
  <2>3. /\ Typed(W) /\ W.root = r /\ W.records = R
        /\ n \in DOMAIN N /\ DOMAIN F = DOMAIN N
        /\ \A m \in DOMAIN N \ {n} : F[m] = N[m]
        /\ F[n].leaf = N[n].leaf /\ Len(F[n].keys) = Len(N[n].keys) + 1
        /\ LeafKeys(F) = K \cup {key}
    BY <1>2, <2>1 DEF LeafEntered, r
  <2>4. Len(N[n].keys) \in 1 .. (order - 1) /\ order \in 3 .. 20
    BY <1>2, <2>3, HalvesFit DEF Fits
  <2>5. Fits(F)
    <3>1. Len(N[n].keys) < order - 1
      BY <1>5 DEF HasRoom
    <3>2. Len(F[n].keys) \in 1 .. (order - 1)
      BY <2>3, <2>4, <3>1
    <3> QED
      BY <1>2, <2>3, <3>2 DEF Fits
  <2>6. HalfFull(F, DOMAIN F \ {r})
    <3> SUFFICES ASSUME NEW m \in DOMAIN N \ {r}
                 PROVE  Len(F[m].keys) >= MinKeys(F[m])
      BY <2>3 DEF HalfFull
    <3>1. Len(N[m].keys) >= MinKeys(N[m])
      BY <1>2 DEF HalfFull
    <3>2. CASE m = n
      <4>1. MinKeys(F[n]) = MinKeys(N[n])
        BY <2>3 DEF MinKeys
      <4>2. MinKeys(N[n]) \in Int
        BY <2>4 DEF MinKeys, Cut
      <4> QED
        BY <2>3, <2>4, <3>1, <3>2, <4>1, <4>2
    <3>3. CASE m # n
      BY <2>3, <3>1, <3>3
    <3> QED
      BY <3>2, <3>3
  <2>7. TreeShaped(W)
    BY <2>1, <2>3 DEF TreeShaped
  <2> QED
    BY <2>2, <2>3, <2>5, <2>6, <2>7 DEF Sound
<1> QED
  BY <1>4, <1>5

\* start_new_tree(): a leaf with one key.
LEMMA StartSound ==
    ASSUME order \in Orders, NEW R, NEW key \in Keys
    PROVE  Sound(StartNewTree([root |-> Null, nodes |-> EmptyHeap, records |-> R], key, key), {key}, R)
<1> DEFINE T == [root |-> Null, nodes |-> EmptyHeap, records |-> R]
           N == T.nodes
           q == FreeAddress(N)
           c == [leaf |-> TRUE, keys |-> <<key>>, ptrs |-> <<key>>, parent |-> Null, next |-> Null]
           T1 == WithNode(T, q, c)
           W == [T1 EXCEPT !.root = q]
           F == W.nodes
<1>1. StartNewTree(T, key, key) = W
  BY DEF StartNewTree
<1>2. N = EmptyHeap /\ T.records = R /\ DOMAIN N = {} /\ N \in [{} -> Nodes]
  BY DEF EmptyHeap
<1>3. Typed(T)
  <2>1. IsFiniteSet({})
    BY FS_EmptySet
  <2>2. T = [root |-> T.root, nodes |-> T.nodes, records |-> T.records]
    OBVIOUS
  <2> HIDE DEF T
  <2> QED
    BY <1>2, <2>1, <2>2 DEF Typed, IsTree, NodesTyped
<1> HIDE DEF T
<1>4. q \in Nat \ {0}
  BY <1>3, FreeAddressProperties DEF Typed, NodesTyped
<1> HIDE DEF q
<1>5. key \in Nat /\ key \in Keys
  BY KeysAreNumbers
<1>6. <<key>> \in Seq(Keys) /\ <<key>> \in Seq(Nat)
  BY <1>5
<1>7. c \in Nodes
  BY <1>6 DEF Nodes, Null
<1>8. c.leaf = TRUE /\ c.keys = <<key>> /\ c.ptrs = <<key>> /\ c.parent = Null /\ c.next = Null
  OBVIOUS
<1> HIDE DEF c, T1
<1>9. /\ Typed(T1) /\ T1.records = T.records
      /\ DOMAIN T1.nodes = DOMAIN N \cup {q} /\ T1.nodes[q] = c
  BY <1>3, <1>4, <1>7, WithNodeMakes DEF T1
<1>10. Typed(W) /\ W.root = q /\ F = T1.nodes /\ W.records = T1.records
  BY <1>9, RootedMakes
<1> HIDE DEF W
<1>11. NodesTyped(F) /\ DOMAIN F = {q} /\ F[q] = c
  BY <1>2, <1>9, <1>10 DEF Typed
<1>12. Len(<<key>>) = 1 /\ ToSet(<<key>>) = {key} /\ Increasing(<<key>>)
  BY <1>5, OneElement
<1>13. TreeShaped(W)
  <2>1. Shape(F, q, [m \in {q} |-> 0], 0, [m \in {q} |-> 0], [m \in {q} |-> 0])
    BY <1>8, <1>11, <1>12, LoneLeafShape
  <2> QED
    BY <1>10, <2>1 DEF TreeShaped
<1>14. LeafKeys(F) = {key}
  BY <1>8, <1>11, <1>12 DEF LeafKeys
<1>15. Fits(F)
  <2>1. order \in 3 .. 20
    BY HalvesFit
  <2>2. F[q].keys = <<key>> /\ DOMAIN F = {q}
    BY <1>8, <1>11
  <2> HIDE DEF F
  <2>3. Len(F[q].keys) = 1
    BY <1>12, <2>2
  <2>4. 1 \in 1 .. (order - 1)
    BY <2>1
  <2> QED
    BY <2>2, <2>3, <2>4 DEF Fits
<1>16. HalfFull(F, DOMAIN F \ {q})
  BY <1>11 DEF HalfFull
<1>17. Sound(W, {key}, R)
  BY <1>2, <1>9, <1>10, <1>13, <1>14, <1>15, <1>16 DEF Sound
<1> QED
  BY <1>1, <1>17 DEF T

-----------------------------------------------------------------------------
(* Deletion.                                                               *)

\* The first and the last element, and the others.
LEMMA FirstAndOthers ==
    ASSUME NEW V, NEW s \in Seq(V), s # <<>>
    PROVE  /\ Head(s) \in V /\ Tail(s) \in Seq(V) /\ Len(Tail(s)) = Len(s) - 1
           /\ Len(s) \in Nat \ {0} /\ Head(s) = s[1]
           /\ s = <<Head(s)>> \o Tail(s)
<1> DEFINE h == <<Head(s)>>
           t == Tail(s)
<1>1. Len(s) \in Nat \ {0} /\ Head(s) = s[1]
  BY EmptySeq
<1>2. /\ Head(s) \in V /\ t \in Seq(V) /\ Len(t) = Len(s) - 1
      /\ \A i \in 1 .. Len(t) : t[i] = s[i + 1]
  BY HeadTailProperties
<1>3. h \in Seq(V) /\ Len(h) = 1 /\ h[1] = s[1]
  BY <1>1, <1>2
<1> HIDE DEF h, t
<1>4. /\ h \o t \in Seq(V) /\ Len(h \o t) = 1 + Len(t)
      /\ (h \o t)[1] = s[1]
      /\ \A i \in 1 .. Len(t) : (h \o t)[1 + i] = t[i]
  <2> DEFINE one == Len(h)
  <2>1. /\ h \o t \in Seq(V) /\ Len(h \o t) = one + Len(t)
        /\ \A i \in 1 .. one : (h \o t)[i] = h[i]
        /\ \A i \in 1 .. Len(t) : (h \o t)[one + i] = t[i]
    <3>0. h \in Seq(V) /\ t \in Seq(V)
      BY <1>2, <1>3
    <3>1. h \o t \in Seq(V)
      BY <3>0, ConcatPlaces
    <3>2. Len(h \o t) = one + Len(t)
      BY <3>0, ConcatPlaces
    <3>3. \A i \in 1 .. Len(h) : (h \o t)[i] = h[i]
      BY <3>0, ConcatPlaces
    <3>4. \A i \in 1 .. Len(t) : (h \o t)[Len(h) + i] = t[i]
      BY <3>0, ConcatPlaces
    <3> QED
      BY <3>1, <3>2, <3>3, <3>4
  <2>2. one = 1
    BY <1>3
  <2> HIDE DEF one
  <2>3. 1 \in 1 .. one
    BY <2>2
  <2> QED
    BY <1>3, <2>1, <2>2, <2>3
<1>5. \A i \in 1 .. Len(s) : (h \o t)[i] = s[i]
  <2> TAKE i \in 1 .. Len(s)
  <2>1. CASE i = 1
    BY <1>4, <2>1
  <2>2. CASE i # 1
    <3>1. i - 1 \in 1 .. Len(t) /\ 1 + (i - 1) = i /\ (i - 1) + 1 = i
      BY <1>1, <1>2, <2>2
    <3>2. (h \o t)[1 + (i - 1)] = t[i - 1] /\ t[i - 1] = s[(i - 1) + 1]
      BY <1>2, <1>4, <3>1
    <3> QED
      BY <3>1, <3>2
  <2> QED
    BY <2>1, <2>2
<1>6. Len(s) = Len(h \o t)
  BY <1>1, <1>2, <1>4
<1>7. s = h \o t
  BY <1>4, <1>5, <1>6, SeqEqual
<1> QED
  BY <1>1, <1>2, <1>7 DEF h, t

LEMMA LastAndOthers ==
    ASSUME NEW V, NEW s \in Seq(V), s # <<>>
    PROVE  /\ Last(s) \in V /\ Front(s) \in Seq(V) /\ Len(Front(s)) = Len(s) - 1
           /\ Len(s) \in Nat \ {0}
           /\ s = Front(s) \o <<Last(s)>>
<1> DEFINE l == Len(s)
           f == Front(s)
           e == <<Last(s)>>
<1>1. l \in Nat \ {0}
  BY EmptySeq
<1>2. l \in 1 .. l
  BY <1>1
<1>3. Last(s) \in V
  BY <1>2, ElementOfSeq DEF Last
<1>4. f \in Seq(V) /\ Len(f) = l - 1
  <2> DEFINE j == l - 1
             one == 1
  <2>1. one \in 1 .. (l + 1) /\ j \in 0 .. l /\ one <= j + 1 /\ j - one + 1 = j
    BY <1>1
  <2> HIDE DEF j, one
  <2>2. SubSeq(s, one, j) \in Seq(V) /\ Len(SubSeq(s, one, j)) = j - one + 1
    BY <2>1, PartProperties
  <2> QED
    BY <2>1, <2>2 DEF Front, one, j
<1>5. s = f \o e
  <2>1. SubSeq(s, 1, l) = s
    BY SubSeqFull
  <2>2. 1 \in 1 .. l /\ l \in 1 .. l
    BY <1>1
  <2>3. SubSeq(s, 1, l) = SubSeq(s, 1, l - 1) \o <<s[l]>>
    BY <2>2, SubSeqRecursiveSecond
  <2> QED
    BY <2>1, <2>3 DEF Front, Last
<1> QED
  BY <1>1, <1>3, <1>4, <1>5

LEMMA Associates ==
    ASSUME NEW V
    PROVE  \A s, t, u \in Seq(V) : (s \o t) \o u = s \o (t \o u)
BY ConcatAssociative

\* An element that moves from one sequence to the other leaves the two together
\* what they are.
LEMMA HeadMoves ==
    ASSUME NEW V, NEW s \in Seq(V), NEW t \in Seq(V), t # <<>>, NEW k \in V
    PROVE  /\ Append(s, Head(t)) \in Seq(V) /\ Len(Append(s, Head(t))) = Len(s) + 1
           /\ Append(s, Head(t)) \o Tail(t) = s \o t
           /\ Append(s, k) \in Seq(V) /\ Len(Append(s, k)) = Len(s) + 1
           /\ (Append(s, k) \o <<Head(t)>>) \o Tail(t) = (s \o <<k>>) \o t
<1> DEFINE h == <<Head(t)>>
           u == Tail(t)
           e == <<k>>
<1>1. Head(t) \in V /\ u \in Seq(V) /\ t = h \o u
  BY FirstAndOthers
<1>2. h \in Seq(V) /\ e \in Seq(V) /\ u \in Seq(V)
  BY <1>1
<1>3. Append(s, Head(t)) = s \o h /\ Append(s, k) = s \o e
  BY <1>1, AppendIsConcat
<1>4. Append(s, Head(t)) \in Seq(V) /\ Len(Append(s, Head(t))) = Len(s) + 1
      /\ Append(s, k) \in Seq(V) /\ Len(Append(s, k)) = Len(s) + 1
  BY <1>1, AppendProperties
<1> HIDE DEF h, u, e
<1>5. (s \o h) \o u = s \o t
  <2>1. (s \o h) \o u = s \o (h \o u)
    BY <1>2, Associates, SMTT(30)
  <2> QED
    BY <1>1, <2>1
<1> DEFINE v == s \o e
<1>6. v \in Seq(V)
  BY <1>2, ConcatProperties
<1> HIDE DEF v
<1>7. (v \o h) \o u = v \o t
  <2>1. (v \o h) \o u = v \o (h \o u)
    BY <1>2, <1>6, Associates, SMTT(30)
  <2> QED
    BY <1>1, <2>1
<1> QED
  BY <1>3, <1>4, <1>5, <1>7 DEF h, u, e, v

MovedLast(s, t, h, e) ==
    Front(s) \o (h \o t) = s \o t /\ (Front(s) \o h) \o (e \o t) = (s \o e) \o t

LEMMA LastMoves ==
    ASSUME NEW V, NEW s \in Seq(V), NEW t \in Seq(V), s # <<>>, NEW k \in V,
           NEW h, h = <<Last(s)>>, NEW e, e = <<k>>
    PROVE  /\ h \o t \in Seq(V) /\ Len(h \o t) = Len(t) + 1
           /\ e \o t \in Seq(V) /\ Len(e \o t) = Len(t) + 1
           /\ MovedLast(s, t, h, e)
<1> DEFINE u == Front(s)
<1>1. Last(s) \in V /\ u \in Seq(V) /\ s = u \o <<Last(s)>>
  BY LastAndOthers
<1>2. h \in Seq(V) /\ e \in Seq(V) /\ Len(h) = 1 /\ Len(e) = 1 /\ Len(t) \in Nat /\ u \in Seq(V)
  BY <1>1
<1>3. s = u \o h
  BY <1>1
<1> HIDE DEF u
<1>4. u \o (h \o t) = (u \o h) \o t
  BY <1>2, ConcatAssociative
<1>5. s \o (e \o t) = (s \o e) \o t
  BY <1>2, ConcatAssociative
<1>6. h \o t \in Seq(V) /\ Len(h \o t) = Len(h) + Len(t)
  BY <1>2, ConcatProperties
<1>7. e \o t \in Seq(V) /\ Len(e \o t) = Len(e) + Len(t)
  BY <1>2, ConcatProperties
<1>8. Len(h \o t) = Len(t) + 1 /\ Len(e \o t) = Len(t) + 1
  BY <1>2, <1>6, <1>7
<1>9. u \o (h \o t) = s \o t /\ (u \o h) \o (e \o t) = (s \o e) \o t
  BY <1>3, <1>4, <1>5
<1> QED
  BY <1>6, <1>7, <1>8, <1>9 DEF u, MovedLast

\* To replace an element is to put another one where it was taken out.
LEMMA ReplacedIsInserted ==
    ASSUME NEW V, NEW s \in Seq(V), NEW i \in 1 .. Len(s), NEW e \in V
    PROVE  /\ ReplaceAt(s, i, e) \in Seq(V) /\ Len(ReplaceAt(s, i, e)) = Len(s)
           /\ ReplaceAt(s, i, e) = InsertAt(RemoveAt(s, i), i, e)
<1> DEFINE u == RemoveAt(s, i)
           m == Len(s)
           t == InsertAt(u, i, e)
           x == ReplaceAt(s, i, e)
<1>1. /\ u \in Seq(V) /\ Len(u) = m - 1 /\ m \in Nat /\ i \in Nat
      /\ \A j \in 1 .. (m - 1) : j < i => u[j] = s[j]
      /\ \A j \in 1 .. (m - 1) : j >= i => u[j] = s[j + 1]
  BY RemoveAtProperties, LenProperties
<1>2. i \in 1 .. m
  OBVIOUS
<1>3. x \in Seq(V) /\ Len(x) = m /\ \A j \in 1 .. m : x[j] = IF j = i THEN e ELSE s[j]
  BY ExceptSeq DEF ReplaceAt
<1> HIDE DEF u, m, x
<1>4. i \in 1 .. (Len(u) + 1) /\ Len(u) + 1 = m
  BY <1>1, <1>2
<1>5. /\ t \in Seq(V) /\ Len(t) = Len(u) + 1
      /\ \A j \in 1 .. (Len(u) + 1) :
            t[j] = IF j < i THEN u[j] ELSE IF j = i THEN e ELSE u[j - 1]
  <2>0. u \in Seq(V) /\ i \in 1 .. (Len(u) + 1) /\ e \in V
    BY <1>1, <1>4
  <2>1. t \in Seq(V)
    BY <2>0, InsertAtProperties
  <2>2. Len(t) = Len(u) + 1
    BY <2>0, InsertAtProperties
  <2>3. \A j \in 1 .. (Len(u) + 1) :
           t[j] = IF j < i THEN u[j] ELSE IF j = i THEN e ELSE u[j - 1]
    BY <1>1, <1>4, InsertAtProperties
  <2> QED
    BY <2>1, <2>2, <2>3
<1> HIDE DEF t
<1>6. ASSUME NEW j \in 1 .. m
      PROVE  x[j] = t[j]
  <2>1. CASE j < i
    <3>1. j \in 1 .. (m - 1) /\ j # i
      BY <1>1, <1>2, <2>1
    <3>2. t[j] = u[j] /\ u[j] = s[j]
      BY <1>1, <1>4, <1>5, <2>1, <3>1
    <3> QED
      BY <1>3, <3>1, <3>2
  <2>2. CASE j = i
    BY <1>3, <1>4, <1>5, <2>2
  <2>3. CASE j > i
    <3>1. j - 1 \in 1 .. (m - 1) /\ j - 1 >= i /\ j - 1 + 1 = j /\ j # i /\ ~ (j < i)
      BY <1>1, <1>2, <2>3
    <3>2. t[j] = u[j - 1]
      BY <1>4, <1>5, <3>1
    <3>3. u[j - 1] = s[j - 1 + 1]
      BY <1>1, <3>1
    <3> QED
      BY <1>3, <3>1, <3>2, <3>3
  <2> QED
    BY <1>1, <2>1, <2>2, <2>3
<1>7. x = t
  BY <1>1, <1>3, <1>4, <1>5, <1>6, SeqEqual
<1> QED
  BY <1>3, <1>7 DEF x, t, u, m

\* free() of a node.
LEMMA FreedMakes ==
    ASSUME NEW T, Typed(T), NEW n
    PROVE  LET W == [T EXCEPT !.nodes = Free(@, n)] IN
           /\ Typed(W) /\ W.root = T.root /\ W.records = T.records
           /\ DOMAIN W.nodes = DOMAIN T.nodes \ {n}
           /\ \A m \in DOMAIN T.nodes \ {n} : W.nodes[m] = T.nodes[m]
<1> DEFINE W == [T EXCEPT !.nodes = Free(@, n)]
           N == T.nodes
           F == Free(N, n)
<1>1. W = [root |-> T.root, nodes |-> F, records |-> T.records]
  BY DEF Typed, IsTree
<1>2. DOMAIN F = DOMAIN N \ {n} /\ \A m \in DOMAIN N \ {n} : F[m] = N[m]
  BY DEF Free
<1>3. F = [m \in DOMAIN N \ {n} |-> F[m]]
  BY DEF Free
<1>4. NodesTyped(N)
  BY DEF Typed
<1>5. IsFiniteSet(DOMAIN N \ {n})
  BY <1>4, FS_RemoveElement DEF NodesTyped
<1>6. \A m \in DOMAIN N : N[m] \in Nodes
  BY <1>4 DEF NodesTyped
<1> HIDE DEF F
<1>7. \A m \in DOMAIN F : F[m] \in Nodes
  BY <1>2, <1>6
<1>8. NodesTyped(F)
  BY <1>2, <1>3, <1>4, <1>5, <1>7 DEF NodesTyped
<1>9. W.root = T.root /\ W.nodes = F /\ W.records = T.records
  BY <1>1
<1>10. Typed(W)
  BY <1>1, <1>8, <1>9 DEF Typed, IsTree
<1> QED
  BY <1>2, <1>9, <1>10

\* l and d are children of p with the key k between them.
Beside(N, dep, low, high, p, j, l, d, k) ==
    /\ p \in DOMAIN N /\ l \in DOMAIN N /\ d \in DOMAIN N /\ l # d /\ l # p /\ d # p
    /\ N[p].leaf = FALSE /\ j \in 1 .. Len(N[p].keys) /\ Len(N[p].ptrs) = Len(N[p].keys) + 1
    /\ N[p].ptrs[j] = l /\ N[p].ptrs[j + 1] = d /\ N[p].keys[j] = k /\ k \in Keys
    /\ N[l].parent = p /\ N[d].parent = p
    /\ dep[l] = dep[p] + 1 /\ dep[d] = dep[p] + 1
    /\ high[l] = k /\ low[d] = k
    /\ N[d].leaf = N[l].leaf
    /\ N[l].leaf => /\ N[l].next = d
                    /\ N[l].ptrs = N[l].keys /\ N[d].ptrs = N[d].keys
    /\ ~ N[l].leaf => /\ N[l].next = Null /\ N[d].next = Null
                      /\ Len(N[l].ptrs) = Len(N[l].keys) + 1
                      /\ Len(N[d].ptrs) = Len(N[d].keys) + 1

LEMMA Siblings ==
    ASSUME NEW N, NEW r, NEW dep, NEW H, NEW low, NEW high, Shape(N, r, dep, H, low, high),
           NEW p \in DOMAIN N, ~ N[p].leaf, NEW j \in 1 .. Len(N[p].keys)
    PROVE  Beside(N, dep, low, high, p, j, N[p].ptrs[j], N[p].ptrs[j + 1], N[p].keys[j])
<1> DEFINE l == N[p].ptrs[j]
           d == N[p].ptrs[j + 1]
           k == N[p].keys[j]
<1>1. NodesTyped(N) /\ N[p].leaf = FALSE
  <2>1. NodesTyped(N)
    BY DEF Shape
  <2>2. N[p].leaf \in BOOLEAN
    BY <2>1, TypesOfNodes
  <2> QED
    BY <2>1, <2>2
<1>2. Len(N[p].keys) \in Nat /\ Len(N[p].ptrs) = Len(N[p].keys) + 1
  BY <1>1, TypesOfNodes DEF Shape, InnerShaped
<1>3. j \in 1 .. Len(N[p].ptrs) /\ j + 1 \in 1 .. Len(N[p].ptrs) /\ j # j + 1
      /\ j + 1 > 1 /\ (j + 1) - 1 = j /\ j <= Len(N[p].keys)
  BY <1>2
<1>4. l \in DOMAIN N /\ l # p /\ N[l].parent = p /\ high[l] = k
  BY <1>3, ChildWithin
<1>5. d \in DOMAIN N /\ d # p /\ N[d].parent = p /\ low[d] = k
  <2> DEFINE i == j + 1
  <2>1. i \in 1 .. Len(N[p].ptrs) /\ i > 1 /\ i - 1 = j
    BY <1>3
  <2> HIDE DEF i
  <2>2. /\ N[p].ptrs[i] \in DOMAIN N /\ N[p].ptrs[i] # p /\ N[N[p].ptrs[i]].parent = p
        /\ low[N[p].ptrs[i]] = N[p].keys[i - 1]
    BY <2>1, ChildWithin
  <2> QED
    BY <2>1, <2>2 DEF i
<1>6. dep[l] = dep[p] + 1 /\ dep[d] = dep[p] + 1 /\ dep[p] < H
  BY <1>3 DEF Shape, InnerShaped
<1>7. l # d
  <2> DEFINE i == j + 1
  <2>1. i \in 1 .. Len(N[p].ptrs) /\ i # j
    BY <1>3
  <2> HIDE DEF i
  <2>2. N[p].ptrs[i] # N[p].ptrs[j]
    BY <1>3, <2>1, ChildrenDiffer
  <2> QED
    BY <2>2 DEF i
<1>8. k \in Keys
  <2>1. N[p].keys \in Seq(Keys)
    BY <1>1, TypesOfNodes
  <2> QED
    BY <2>1
<1> HIDE DEF l, d, k
<1>9. N[d].leaf = N[l].leaf
  <2>1. \A m \in DOMAIN N : (N[m].leaf => dep[m] = H) /\ (~ N[m].leaf => dep[m] < H)
    BY DEF Shape, LeavesShaped, InnerShaped
  <2>2. dep[p] \in Nat /\ H \in Nat
    BY DepthWithinHeight
  <2>3. N[d].leaf \in BOOLEAN /\ N[l].leaf \in BOOLEAN
    BY <1>1, <1>4, <1>5, TypesOfNodes
  <2>4. N[d].leaf <=> N[l].leaf
    BY <1>4, <1>5, <1>6, <2>1, <2>2
  <2> QED
    BY <2>3, <2>4
<1>10. ASSUME N[l].leaf
       PROVE  N[l].next = d /\ N[l].ptrs = N[l].keys /\ N[d].ptrs = N[d].keys
  <2>1. k # 0
    BY <1>8, KeysAreNumbers
  <2> DEFINE m == N[l].next
  <2>2. m \in DOMAIN N /\ N[m].leaf /\ low[m] = high[l] /\ N[l].ptrs = N[l].keys
    BY <1>4, <1>10, <2>1 DEF Shape, LeavesShaped
  <2> HIDE DEF m
  <2>3. dep[m] = H /\ dep[d] = H /\ N[d].ptrs = N[d].keys
    BY <1>5, <1>9, <1>10, <2>2 DEF Shape, LeavesShaped
  <2>4. dep[m] = dep[d] /\ low[m] = low[d]
    BY <1>4, <1>5, <2>2, <2>3
  <2>5. m = d
    BY <1>5, <2>2, <2>4, BoundsDiffer
  <2> QED
    BY <2>2, <2>3, <2>5 DEF m
<1>11. ASSUME ~ N[l].leaf
       PROVE  /\ N[l].next = Null /\ N[d].next = Null
              /\ Len(N[l].ptrs) = Len(N[l].keys) + 1 /\ Len(N[d].ptrs) = Len(N[d].keys) + 1
  BY <1>4, <1>5, <1>9, <1>11 DEF Shape, InnerShaped
<1>12. N[p].ptrs[j] = l /\ N[p].ptrs[j + 1] = d /\ N[p].keys[j] = k
  BY DEF l, d, k
<1>13. Beside(N, dep, low, high, p, j, l, d, k)
  BY <1>1, <1>2, <1>4, <1>5, <1>6, <1>7, <1>8, <1>9, <1>10, <1>11, <1>12 DEF Beside
<1> QED
  BY <1>13 DEF l, d, k

\* M is T with d merged into l, and C the call that removes d from the parent.
Joins(T, C, M, p, j, l, d, k) ==
    LET N == T.nodes
        F == M.nodes
    IN  /\ C.n = p
        /\ Typed(M) /\ M.root = T.root /\ M.records = T.records
        /\ Divided(F, N, l, d, p, j, k)
        /\ F[p].keys = RemoveAt(N[p].keys, j) /\ F[p].ptrs = RemoveAt(N[p].ptrs, j + 1)
        /\ Len(F[p].keys) = Len(N[p].keys) - 1
        /\ F[l].keys = (N[l].keys \o (IF N[l].leaf THEN <<>> ELSE <<k>>)) \o N[d].keys
        /\ F[l].ptrs = N[l].ptrs \o N[d].ptrs

\* coalesce_nodes(), with the entry it has removed from the parent.
LEMMA CoalesceJoins ==
    ASSUME NEW T, Typed(T), NEW r, NEW dep, NEW H, NEW low, NEW high,
           Shape(T.nodes, r, dep, H, low, high),
           NEW p, NEW j, NEW l, NEW d, NEW k, Beside(T.nodes, dep, low, high, p, j, l, d, k)
    PROVE  LET C == Coalesce(T, l, d, k)
               M == RemoveEntry(C.tree, C.n, C.key, C.ptr)
           IN  Joins(T, C, M, p, j, l, d, k)
<1> DEFINE N == T.nodes
           c == N[l]
           e == N[d]
           isLeaf == N[l].leaf
           sep == IF isLeaf THEN <<>> ELSE <<k>>
           keys == (c.keys \o sep) \o e.keys
           ptrs == c.ptrs \o e.ptrs
           x == Refilled(c, keys, ptrs, e.next)
           T1 == WithNode(T, l, x)
           T2 == IF isLeaf THEN T1 ELSE Adopt(T1, l, ToSet(e.ptrs))
           T3 == [T2 EXCEPT !.nodes = Free(@, d)]
           C == Coalesce(T, l, d, k)
           M == RemoveEntry(T3, p, k, d)
           F == M.nodes
<1>1. C = Deletion(T3, p, k, d)
  BY DEF Coalesce, Beside
<1>2. C.tree = T3 /\ C.n = p /\ C.key = k /\ C.ptr = d
  BY <1>1 DEF Deletion
<1> HIDE DEF C
<1>3. NodesTyped(N)
  BY DEF Typed
<1>4. /\ p \in DOMAIN N /\ l \in DOMAIN N /\ d \in DOMAIN N /\ l # d /\ l # p /\ d # p
      /\ N[p].leaf = FALSE /\ j \in 1 .. Len(N[p].keys) /\ Len(N[p].ptrs) = Len(N[p].keys) + 1
      /\ N[p].ptrs[j] = l /\ N[p].ptrs[j + 1] = d /\ N[p].keys[j] = k /\ k \in Keys
      /\ c.parent = p /\ e.parent = p /\ e.leaf = isLeaf
  BY DEF Beside
<1>5. /\ c.keys \in Seq(Keys) /\ c.ptrs \in Seq(Nat) /\ c.leaf \in BOOLEAN /\ c.parent \in Nat
      /\ l \in Nat \ {0}
  BY <1>3, <1>4, TypesOfNodes
<1>6. e.keys \in Seq(Keys) /\ e.ptrs \in Seq(Nat) /\ e.next \in Nat
  BY <1>3, <1>4, TypesOfNodes
<1>7. keys \in Seq(Keys) /\ ptrs \in Seq(Nat)
  <2>1. sep \in Seq(Keys)
    BY <1>4
  <2> HIDE DEF sep
  <2>2. c.keys \o sep \in Seq(Keys)
    BY <1>5, <2>1, ConcatProperties
  <2>3. keys \in Seq(Keys)
    BY <1>6, <2>2, ConcatProperties
  <2> QED
    BY <1>5, <1>6, <2>3, ConcatProperties
<1> HIDE DEF keys, ptrs
<1>8. x \in Nodes
  BY <1>5, <1>6, <1>7 DEF Refilled, Nodes
<1>9. x.leaf = isLeaf /\ x.keys = keys /\ x.ptrs = ptrs /\ x.parent = p /\ x.next = e.next
  BY <1>4 DEF Refilled
<1> HIDE DEF x
<1>10. /\ Typed(T1) /\ T1.root = T.root /\ T1.records = T.records
       /\ DOMAIN T1.nodes = DOMAIN N \cup {l} /\ T1.nodes[l] = x
       /\ \A m \in DOMAIN N \ {l} : T1.nodes[m] = N[m]
  BY <1>5, <1>8, WithNodeMakes
<1> HIDE DEF T1
<1>11. /\ Typed(T2) /\ T2.root = T.root /\ T2.records = T.records
       /\ DOMAIN T2.nodes = DOMAIN N
       /\ \A m \in DOMAIN N :
             /\ T2.nodes[m].leaf = T1.nodes[m].leaf /\ T2.nodes[m].keys = T1.nodes[m].keys
             /\ T2.nodes[m].ptrs = T1.nodes[m].ptrs /\ T2.nodes[m].next = T1.nodes[m].next
             /\ ~ isLeaf /\ m \in ToSet(e.ptrs) => T2.nodes[m].parent = l
             /\ isLeaf \/ m \notin ToSet(e.ptrs) => T2.nodes[m].parent = T1.nodes[m].parent
  <2>1. DOMAIN T1.nodes = DOMAIN N
    BY <1>4, <1>10
  <2>2. CASE isLeaf
    <3>1. T2 = T1
      BY <2>2
    <3> QED
      BY <1>10, <2>1, <2>2, <3>1
  <2>3. CASE ~ isLeaf
    <3> DEFINE W == Adopt(T1, l, ToSet(e.ptrs))
    <3>1. T2 = W
      BY <2>3
    <3>2. l \in Nat
      BY <1>5
    <3>3. /\ Typed(W) /\ W.root = T1.root /\ W.records = T1.records
          /\ DOMAIN W.nodes = DOMAIN T1.nodes
          /\ \A m \in DOMAIN T1.nodes :
                /\ W.nodes[m].leaf = T1.nodes[m].leaf /\ W.nodes[m].keys = T1.nodes[m].keys
                /\ W.nodes[m].ptrs = T1.nodes[m].ptrs /\ W.nodes[m].next = T1.nodes[m].next
                /\ m \in ToSet(e.ptrs) => W.nodes[m].parent = l
                /\ m \notin ToSet(e.ptrs) => W.nodes[m].parent = T1.nodes[m].parent
      BY <1>10, <3>2, AdoptMakes
    <3> HIDE DEF W, T2
    <3> QED
      BY <1>10, <2>1, <2>3, <3>1, <3>3
  <2> QED
    BY <2>2, <2>3
<1> HIDE DEF T2
<1>12. /\ Typed(T3) /\ T3.root = T.root /\ T3.records = T.records
       /\ DOMAIN T3.nodes = DOMAIN N \ {d}
       /\ \A m \in DOMAIN N \ {d} : T3.nodes[m] = T2.nodes[m]
  <2>1. Typed(T2)
    BY <1>11
  <2>2. /\ Typed(T3) /\ T3.root = T2.root /\ T3.records = T2.records
        /\ DOMAIN T3.nodes = DOMAIN T2.nodes \ {d}
        /\ \A m \in DOMAIN T2.nodes \ {d} : T3.nodes[m] = T2.nodes[m]
    BY <2>1, FreedMakes
  <2> HIDE DEF T3
  <2> QED
    BY <1>11, <2>2
<1> HIDE DEF T3
<1>13. N[p].keys \in Seq(Keys) /\ N[p].keys \in Seq(Nat) /\ N[p].ptrs \in Seq(Nat)
       /\ Len(N[p].keys) \in Nat /\ Increasing(N[p].keys)
  <2>1. Increasing(N[p].keys)
    BY <1>4 DEF Shape, Ordered
  <2> QED
    BY <1>3, <1>4, <2>1, TypesOfNodes
<1>14. /\ T3.nodes[p].leaf = FALSE /\ T3.nodes[p].keys = N[p].keys /\ T3.nodes[p].ptrs = N[p].ptrs
       /\ T3.nodes[p].next = N[p].next
  BY <1>4, <1>10, <1>11, <1>12
<1> DEFINE i == j + 1
           s == N[p].ptrs
           a == RemoveAt(N[p].keys, j)
           b == RemoveAt(s, i)
<1>15. Place(N[p].keys, k) = j
  BY <1>4, <1>13, PlaceOfKey
<1>16. i \in 1 .. Len(s) /\ j \in 1 .. Len(s) /\ i # j /\ i = j + 1 /\ s[i] = d /\ s[j] = l
  BY <1>4, <1>13
<1> HIDE DEF i, s
<1>17. Place(s, d) = i
  <2>1. \A m \in 1 .. Len(s) : s[m] = s[i] => m = i
    BY <1>4, <1>16, ChildrenDiffer DEF s
  <2> QED
    BY <1>13, <1>16, <2>1, PlaceOnce DEF s
<1>18. M = WithEntries(T3, p, a, b)
  BY <1>14, <1>15, <1>17 DEF RemoveEntry, s
<1>19. a \in Seq(Keys) /\ Len(a) = Len(N[p].keys) - 1
  BY <1>4, <1>13, RemoveAtProperties
<1>20. b \in Seq(Nat) /\ Len(b) = Len(s) - 1 /\ i \in 1 .. (Len(b) + 1) /\ InsertAt(b, i, d) = s
  BY <1>13, <1>16, RemovedBack DEF s
<1>21. InsertAt(a, j, k) = N[p].keys
  BY <1>4, <1>13, RemovedBack
<1>22. b[j] = l
  <2>1. s \in Seq(Nat)
    BY <1>13 DEF s
  <2>2. \A m \in 1 .. (Len(s) - 1) : m < i => b[m] = s[m]
    BY <1>16, <2>1, RemoveAtProperties
  <2>3. j \in 1 .. (Len(s) - 1) /\ j < i
    BY <1>4, <1>13, <1>16 DEF s
  <2> QED
    BY <1>16, <2>2, <2>3
<1> HIDE DEF a, b, M
<1>23. p \in DOMAIN T3.nodes
  BY <1>4, <1>12
<1>24. /\ Typed(M) /\ M.root = T.root /\ M.records = T.records
       /\ DOMAIN F = DOMAIN N \ {d}
       /\ F[p] = [leaf |-> T3.nodes[p].leaf, keys |-> a, ptrs |-> b,
                  parent |-> T3.nodes[p].parent, next |-> T3.nodes[p].next]
       /\ \A m \in DOMAIN N \ {d, p} : F[m] = T3.nodes[m]
  BY <1>12, <1>18, <1>19, <1>20, <1>23, WithEntriesMakes
<1>25. /\ F[p].leaf = FALSE /\ F[p].keys = a /\ F[p].ptrs = b /\ F[p].next = N[p].next
       /\ F[p].parent = T2.nodes[p].parent
  BY <1>4, <1>12, <1>14, <1>24
<1>26. F[l].leaf = isLeaf /\ F[l].keys = keys /\ F[l].ptrs = ptrs /\ F[l].next = e.next
  BY <1>4, <1>9, <1>10, <1>11, <1>12, <1>24
<1>27. \A m \in DOMAIN N \ {d, l, p} :
          N[m].leaf = F[m].leaf /\ N[m].keys = F[m].keys /\ N[m].ptrs = F[m].ptrs
                                /\ N[m].next = F[m].next
  BY <1>4, <1>10, <1>11, <1>12, <1>24
<1>28. \A m \in DOMAIN N \ {d} : F[m].parent = T2.nodes[m].parent
  BY <1>12, <1>24, <1>25
<1>29. PartsDivided(F, N, l, d, k)
  <2>1. CASE isLeaf
    <3>1. N[l].next = d /\ c.ptrs = c.keys /\ e.ptrs = e.keys
      BY <2>1 DEF Beside
    <3>2. keys = c.keys \o e.keys
      BY <1>5, <2>1, ConcatEmptySeq DEF keys
    <3>3. ptrs = keys
      BY <3>1, <3>2 DEF ptrs
    <3> QED
      BY <1>4, <1>26, <2>1, <3>1, <3>2, <3>3 DEF PartsDivided
  <2>2. CASE ~ isLeaf
    <3>1. c.next = Null /\ e.next = Null /\ Len(c.ptrs) = Len(c.keys) + 1
          /\ Len(e.ptrs) = Len(e.keys) + 1
      BY <2>2 DEF Beside
    <3>2. keys = (c.keys \o <<k>>) \o e.keys /\ ptrs = c.ptrs \o e.ptrs
      BY <2>2 DEF keys, ptrs
    <3> QED
      BY <1>4, <1>26, <2>2, <3>1, <3>2 DEF PartsDivided
  <2> QED
    BY <2>1, <2>2
<1>30. ParentEntered(F, N, p, j, d, k)
  BY <1>4, <1>16, <1>20, <1>21, <1>25 DEF ParentEntered, s
<1>31. \A m \in DOMAIN F :
          IF ~ F[l].leaf /\ m \in ToSet(e.ptrs)
          THEN F[m].parent = l /\ N[m].parent = d
          ELSE N[m].parent = F[m].parent
  <2> TAKE m \in DOMAIN F
  <2>1. m \in DOMAIN N \ {d}
    BY <1>24
  <2>2. CASE ~ isLeaf /\ m \in ToSet(e.ptrs)
    <3>1. F[m].parent = l
      BY <1>11, <1>28, <2>1, <2>2
    <3>2. ~ N[d].leaf
      BY <1>4, <2>2
    <3>3. N[m].parent = d
      BY <1>4, <2>2, <3>2, ChildrenOf
    <3> QED
      BY <1>26, <2>2, <3>1, <3>3
  <2>3. CASE isLeaf \/ m \notin ToSet(e.ptrs)
    <3>1. F[m].parent = T1.nodes[m].parent
      BY <1>11, <1>28, <2>1, <2>3
    <3>2. T1.nodes[m].parent = N[m].parent
      BY <1>4, <1>9, <1>10, <2>1
    <3> QED
      BY <1>26, <2>3, <3>1, <3>2
  <2> QED
    BY <2>2, <2>3
<1>32. Divided(F, N, l, d, p, j, k)
  <2>1. DOMAIN N = DOMAIN F \cup {d} /\ l \in DOMAIN F /\ p \in DOMAIN F /\ d \notin DOMAIN F
    BY <1>4, <1>24
  <2>2. Len(F[p].ptrs) = Len(F[p].keys) + 1 /\ j \in 1 .. Len(F[p].ptrs) /\ F[p].ptrs[j] = l
    <3>1. Len(s) = Len(N[p].keys) + 1
      BY <1>4 DEF s
    <3> DEFINE z == Len(N[p].keys)
    <3>2. Len(b) = z /\ Len(a) = z - 1 /\ z \in Nat /\ j \in 1 .. z
      BY <1>4, <1>13, <1>19, <1>20, <3>1
    <3> HIDE DEF z
    <3> QED
      BY <1>22, <1>25, <3>2
  <2>3. \A m \in DOMAIN F \ {l, p} :
          N[m].leaf = F[m].leaf /\ N[m].keys = F[m].keys /\ N[m].ptrs = F[m].ptrs
                                /\ N[m].next = F[m].next
    BY <1>24, <1>27
  <2> QED
    BY <1>4, <1>25, <1>29, <1>30, <1>31, <2>1, <2>2, <2>3 DEF Divided
<1>33. Joins(T, C, M, p, j, l, d, k)
  BY <1>2, <1>19, <1>24, <1>25, <1>26, <1>32 DEF Joins, a, b, i, s, keys, ptrs
<1> QED
  BY <1>2, <1>33 DEF M, C

\* A separator between two parts of a node that was one.
LEMMA PartsSeparate ==
    ASSUME NEW U, NEW G, NEW r, NEW dep, NEW H, NEW low, NEW high,
           Shape(U, r, dep, H, low, high), NodesTyped(G),
           NEW l \in DOMAIN U, l \in DOMAIN G, NEW d \in DOMAIN G, NEW sep \in Nat,
           PartsDivided(U, G, l, d, sep),
           U[l].leaf => G[l].keys # <<>> /\ G[d].keys # <<>> /\ sep = G[d].keys[1]
    PROVE  Separates(U, G, low, high, l, d, sep)
<1> DEFINE s == U[l].keys
           a == G[l].keys
           b == G[d].keys
<1>1. a \in Seq(Nat) /\ b \in Seq(Nat)
  BY TypesOfNodes
<1>2. Increasing(s) /\ \A k \in ToSet(s) : Covers(low, high, l, k) /\ (U[l].leaf \/ low[l] < k)
  BY DEF Shape, Ordered
<1>3. low[l] \in Nat /\ high[l] \in Nat
  BY TypesOfMeasures DEF Shape
<1>4. CASE U[l].leaf
  <2>1. s = a \o b /\ a # <<>> /\ b # <<>> /\ sep = b[1]
    BY <1>4 DEF PartsDivided
  <2> HIDE DEF s, a, b
  <2>2. Increasing(a \o b)
    BY <1>2, <2>1
  <2>3. Increasing(b) /\ \A x \in ToSet(a), y \in ToSet(b) : x < y
    BY <1>1, <2>2, ConcatIncreases
  <2>4. ToSet(s) = ToSet(a) \cup ToSet(b)
    BY <1>1, <2>1, ToSetOfConcat
  <2>5. Len(a) \in Nat \ {0} /\ Len(b) \in Nat \ {0}
    BY <1>1, <2>1, EmptySeq
  <2>6. a[1] \in ToSet(a) /\ a[1] \in Nat /\ sep \in ToSet(b)
    BY <1>1, <2>1, <2>5, ElementsInSet
  <2>7. Covers(low, high, l, a[1]) /\ a[1] < sep /\ Covers(low, high, l, sep)
    BY <1>2, <2>3, <2>4, <2>6
  <2>8. low[l] < sep /\ (high[l] # 0 => sep < high[l])
    BY <1>3, <2>6, <2>7 DEF Covers
  <2>9. \A k \in ToSet(b) : sep <= k
    <3> TAKE k \in ToSet(b)
    <3>1. PICK i \in 1 .. Len(b) : b[i] = k
      BY <1>1, ElementsInSet
    <3>2. CASE i = 1
      BY <2>1, <3>1, <3>2
    <3>3. CASE i # 1
      <4>1. 1 \in 1 .. Len(b) /\ 1 < i
        BY <2>5, <3>3
      <4>2. b[1] < b[i]
        BY <2>3, <4>1 DEF Increasing
      <4>3. k \in Nat
        BY <1>1, ToSetProperties
      <4> QED
        BY <2>1, <3>1, <4>2, <4>3
    <3> QED
      BY <3>2, <3>3
  <2> QED
    BY <1>4, <2>3, <2>6, <2>8, <2>9 DEF Separates, a, b
<1>5. CASE ~ U[l].leaf
  <2>1. s = (a \o <<sep>>) \o b
    BY <1>5 DEF PartsDivided
  <2> HIDE DEF s, a, b
  <2>2. Increasing((a \o <<sep>>) \o b)
    BY <1>2, <2>1
  <2>3. (\A x \in ToSet(a) : x < sep) /\ \A y \in ToSet(b) : sep < y
    BY <1>1, <2>2, PartsAround
  <2>4. ToSet((a \o <<sep>>) \o b) = ToSet(a) \cup ToSet(b) \cup {sep}
    <3>1. \A x, y \in Seq(Nat), e \in Nat :
             ToSet((x \o <<e>>) \o y) = ToSet(x) \cup ToSet(y) \cup {e}
      BY PartsAround
    <3> QED
      BY <1>1, <3>1
  <2>5. sep \in ToSet(s)
    BY <2>1, <2>4
  <2>6. low[l] < sep /\ Covers(low, high, l, sep)
    BY <1>2, <1>5, <2>5
  <2>7. \A y \in ToSet(b) : sep <= y
    <3> TAKE y \in ToSet(b)
    <3>1. y \in Nat /\ sep < y
      BY <1>1, <2>3, ToSetProperties
    <3> QED
      BY <3>1
  <2> QED
    BY <2>3, <2>6, <2>7 DEF Separates, Covers, a, b
<1> QED
  BY <1>4, <1>5

\* In G entries have moved between l and d, which sep is between now.
Shifted(N, G, p, j, l, d, k, sep) ==
    /\ NodesTyped(G) /\ DOMAIN G = DOMAIN N /\ sep \in Keys
    /\ \A m \in DOMAIN N : G[m].leaf = N[m].leaf /\ G[m].next = N[m].next
    /\ \A m \in DOMAIN N \ {l, d, p} : G[m].keys = N[m].keys /\ G[m].ptrs = N[m].ptrs
    /\ G[p].keys = ReplaceAt(N[p].keys, j, sep) /\ G[p].ptrs = N[p].ptrs
    /\ N[l].leaf =>
          /\ G[l].ptrs = G[l].keys /\ G[d].ptrs = G[d].keys
          /\ G[l].keys \o G[d].keys = N[l].keys \o N[d].keys
          /\ G[l].keys # <<>> /\ G[d].keys # <<>> /\ sep = G[d].keys[1]
          /\ \A m \in DOMAIN N : G[m].parent = N[m].parent
    /\ ~ N[l].leaf =>
          /\ Len(G[l].ptrs) = Len(G[l].keys) + 1 /\ Len(G[d].ptrs) = Len(G[d].keys) + 1
          /\ (G[l].keys \o <<sep>>) \o G[d].keys = (N[l].keys \o <<k>>) \o N[d].keys
          /\ G[l].ptrs \o G[d].ptrs = N[l].ptrs \o N[d].ptrs
          /\ \A m \in ToSet(G[l].ptrs) : G[m].parent = l
          /\ \A m \in ToSet(G[d].ptrs) : G[m].parent = d
          /\ \A m \in DOMAIN N \ (ToSet(N[l].ptrs) \cup ToSet(N[d].ptrs)) :
                G[m].parent = N[m].parent

\* Together l and d are what they were: what they are joined to is divided anew.
LEMMA ShiftDivides ==
    ASSUME NEW T, NEW C, NEW M, NEW r, NEW dep, NEW H, NEW low, NEW high,
           Shape(T.nodes, r, dep, H, low, high),
           NEW p, NEW j, NEW l, NEW d, NEW k, Beside(T.nodes, dep, low, high, p, j, l, d, k),
           Joins(T, C, M, p, j, l, d, k),
           NEW G, NEW sep, Shifted(T.nodes, G, p, j, l, d, k, sep),
           NEW dep2, NEW low2, NEW high2, Shape(M.nodes, r, dep2, H, low2, high2)
    PROVE  Divided(M.nodes, G, l, d, p, j, sep)
<1> DEFINE N == T.nodes
           F == M.nodes
<1>1. /\ p \in DOMAIN N /\ l \in DOMAIN N /\ d \in DOMAIN N /\ l # d /\ l # p /\ d # p
      /\ N[p].leaf = FALSE /\ j \in 1 .. Len(N[p].keys) /\ N[d].parent = p /\ N[l].parent = p
      /\ N[d].leaf = N[l].leaf
  BY DEF Beside
<1>2. Divided(F, N, l, d, p, j, k)
  BY DEF Joins
<1>3. NodesTyped(N) /\ NodesTyped(F) /\ NodesTyped(G)
  BY DEF Shape, Shifted
<1>4. /\ l \in DOMAIN F /\ p \in DOMAIN F /\ d \notin DOMAIN F
      /\ DOMAIN G = DOMAIN F \cup {d} /\ DOMAIN N = DOMAIN F \cup {d}
      /\ ~ F[p].leaf /\ Len(F[p].ptrs) = Len(F[p].keys) + 1
      /\ j \in 1 .. Len(F[p].ptrs) /\ F[p].ptrs[j] = l
  BY <1>2 DEF Divided, Shifted
<1>5. \A m \in DOMAIN F \ {l, p} :
         G[m].leaf = F[m].leaf /\ G[m].keys = F[m].keys /\ G[m].ptrs = F[m].ptrs
                               /\ G[m].next = F[m].next
  <2>1. \A m \in DOMAIN F \ {l, p} :
           N[m].leaf = F[m].leaf /\ N[m].keys = F[m].keys /\ N[m].ptrs = F[m].ptrs
                                 /\ N[m].next = F[m].next
    BY <1>2 DEF Divided
  <2>2. \A m \in DOMAIN N \ {l, d, p} :
           G[m].leaf = N[m].leaf /\ G[m].keys = N[m].keys /\ G[m].ptrs = N[m].ptrs
                                 /\ G[m].next = N[m].next
    BY DEF Shifted
  <2> QED
    BY <1>4, <2>1, <2>2
<1>6. PartsDivided(F, N, l, d, k) /\ ParentEntered(F, N, p, j, d, k)
  BY <1>2 DEF Divided
<1>7. G[l].leaf = N[l].leaf /\ G[d].leaf = N[d].leaf /\ G[l].next = N[l].next
      /\ G[d].next = N[d].next /\ G[p].leaf = N[p].leaf /\ G[p].next = N[p].next
  BY <1>1 DEF Shifted
<1>8. N[l].leaf = F[l].leaf
  BY <1>6 DEF PartsDivided
<1>9. PartsDivided(F, G, l, d, sep)
  <2>1. CASE N[l].leaf
    <3>1. /\ G[l].ptrs = G[l].keys /\ G[d].ptrs = G[d].keys
          /\ G[l].keys \o G[d].keys = N[l].keys \o N[d].keys
      BY <2>1 DEF Shifted
    <3>2. /\ F[l].ptrs = F[l].keys /\ N[l].next = d /\ N[d].next = F[l].next
          /\ F[l].keys = N[l].keys \o N[d].keys
      BY <1>6, <1>8, <2>1 DEF PartsDivided
    <3> QED
      BY <1>1, <1>7, <1>8, <2>1, <3>1, <3>2 DEF PartsDivided
  <2>2. CASE ~ N[l].leaf
    <3>1. /\ Len(G[l].ptrs) = Len(G[l].keys) + 1 /\ Len(G[d].ptrs) = Len(G[d].keys) + 1
          /\ (G[l].keys \o <<sep>>) \o G[d].keys = (N[l].keys \o <<k>>) \o N[d].keys
          /\ G[l].ptrs \o G[d].ptrs = N[l].ptrs \o N[d].ptrs
      BY <2>2 DEF Shifted
    <3>2. /\ N[l].next = F[l].next /\ N[d].next = F[l].next
          /\ F[l].keys = (N[l].keys \o <<k>>) \o N[d].keys
          /\ F[l].ptrs = N[l].ptrs \o N[d].ptrs
      BY <1>6, <1>8, <2>2 DEF PartsDivided
    <3> QED
      BY <1>1, <1>7, <1>8, <2>2, <3>1, <3>2 DEF PartsDivided
  <2> QED
    BY <2>1, <2>2
<1>10. ParentEntered(F, G, p, j, d, sep)
  <2>1. F[p].keys = RemoveAt(N[p].keys, j)
    BY DEF Joins
  <2>2. N[p].keys \in Seq(Keys) /\ sep \in Keys
    BY <1>1, <1>3, TypesOfNodes DEF Shifted
  <2>3. ReplaceAt(N[p].keys, j, sep) = InsertAt(RemoveAt(N[p].keys, j), j, sep)
    BY <1>1, <2>2, ReplacedIsInserted
  <2>4. G[p].keys = InsertAt(F[p].keys, j, sep)
    BY <2>1, <2>3 DEF Shifted
  <2>5. G[p].ptrs = N[p].ptrs
    BY DEF Shifted
  <2> QED
    BY <1>6, <1>7, <2>4, <2>5 DEF ParentEntered
<1>11. \A m \in DOMAIN F :
          IF ~ F[l].leaf /\ m \in ToSet(N[d].ptrs)
          THEN F[m].parent = l /\ N[m].parent = d
          ELSE N[m].parent = F[m].parent
  BY <1>2 DEF Divided
<1>12. \A m \in DOMAIN F :
          IF ~ F[l].leaf /\ m \in ToSet(G[d].ptrs)
          THEN F[m].parent = l /\ G[m].parent = d
          ELSE G[m].parent = F[m].parent
  <2>1. CASE N[l].leaf
    <3>1. \A m \in DOMAIN N : G[m].parent = N[m].parent
      BY <2>1 DEF Shifted
    <3> QED
      BY <1>4, <1>8, <1>11, <2>1, <3>1
  <2>2. CASE ~ N[l].leaf
    <3>1. /\ \A m \in ToSet(G[l].ptrs) : G[m].parent = l
          /\ \A m \in ToSet(G[d].ptrs) : G[m].parent = d
          /\ \A m \in DOMAIN N \ (ToSet(N[l].ptrs) \cup ToSet(N[d].ptrs)) :
                G[m].parent = N[m].parent
          /\ G[l].ptrs \o G[d].ptrs = N[l].ptrs \o N[d].ptrs
      BY <2>2 DEF Shifted
    <3>2. G[l].ptrs \in Seq(Nat) /\ G[d].ptrs \in Seq(Nat)
      BY <1>3, <1>4, TypesOfNodes
    <3>3. N[l].ptrs \in Seq(Nat) /\ N[d].ptrs \in Seq(Nat)
      BY <1>1, <1>3, TypesOfNodes
    <3> DEFINE S == ToSet(N[l].ptrs \o N[d].ptrs)
    <3>4. S = ToSet(N[l].ptrs) \cup ToSet(N[d].ptrs)
      BY <3>3, ToSetOfConcat
    <3>5. S = ToSet(G[l].ptrs) \cup ToSet(G[d].ptrs)
      <4>1. ToSet(G[l].ptrs \o G[d].ptrs) = ToSet(G[l].ptrs) \cup ToSet(G[d].ptrs)
        BY <3>2, ToSetOfConcat
      <4> QED
        BY <3>1, <4>1
    <3>6. F[l].ptrs = N[l].ptrs \o N[d].ptrs
      BY <1>6, <1>8, <2>2 DEF PartsDivided
    <3>7. \A m \in S : F[m].parent = l
      <4>1. ~ F[l].leaf
        BY <1>8, <2>2
      <4>2. \A m \in ToSet(F[l].ptrs) : F[m].parent = l
        BY <1>4, <4>1, ChildrenOf
      <4> QED
        BY <3>6, <4>2
    <3> HIDE DEF S
    <3> TAKE m \in DOMAIN F
    <3>8. CASE m \in ToSet(G[d].ptrs)
      BY <1>8, <2>2, <3>1, <3>5, <3>7, <3>8
    <3>9. CASE m \notin ToSet(G[d].ptrs) /\ m \in S
      BY <3>1, <3>5, <3>7, <3>9
    <3>10. CASE m \notin S
      <4>1. G[m].parent = N[m].parent
        BY <1>4, <3>1, <3>4, <3>10
      <4>2. N[m].parent = F[m].parent
        BY <1>11, <3>4, <3>10
      <4> QED
        BY <3>5, <3>10, <4>1, <4>2
    <3> QED
      BY <3>8, <3>9, <3>10
  <2> QED
    BY <2>1, <2>2
<1>13. G[d].parent = p
  <2>1. CASE N[l].leaf
    BY <1>1, <2>1 DEF Shifted
  <2>2. CASE ~ N[l].leaf
    <3>1. \A m \in ToSet(N[l].ptrs) : N[m].parent = l
      BY <1>1, <2>2, ChildrenOf
    <3>2. ~ N[d].leaf
      BY <1>1, <2>2
    <3>3. \A m \in ToSet(N[d].ptrs) : N[m].parent = d
      BY <1>1, <3>2, ChildrenOf
    <3>4. d \notin ToSet(N[l].ptrs) \cup ToSet(N[d].ptrs)
      BY <1>1, <3>1, <3>3
    <3> QED
      BY <1>1, <2>2, <3>4 DEF Shifted
  <2> QED
    BY <2>1, <2>2
<1> QED
  BY <1>1, <1>4, <1>5, <1>9, <1>10, <1>12, <1>13 DEF Divided

\* A B+ tree whose nodes l and d shared their entries anew is one.
LEMMA ShiftShape ==
    ASSUME NEW T, Typed(T), NEW r, NEW dep, NEW H, NEW low, NEW high,
           Shape(T.nodes, r, dep, H, low, high),
           NEW p, NEW j, NEW l, NEW d, NEW k, Beside(T.nodes, dep, low, high, p, j, l, d, k),
           NEW G, NEW sep, Shifted(T.nodes, G, p, j, l, d, k, sep)
    PROVE  /\ \E dep2, low2, high2 : Shape(G, r, dep2, H, low2, high2)
           /\ LeafKeys(G) = LeafKeys(T.nodes)
<1> DEFINE N == T.nodes
           C == Coalesce(T, l, d, k)
           M == RemoveEntry(C.tree, C.n, C.key, C.ptr)
           F == M.nodes
           dep2 == Restrict(dep, DOMAIN F)
           low2 == Restrict(low, DOMAIN F)
           high2 == Joined(high, F, l, d)
<1>1. Joins(T, C, M, p, j, l, d, k)
  BY CoalesceJoins
<1> HIDE DEF C, M
<1>2. Divided(F, N, l, d, p, j, k) /\ NodesTyped(F) /\ NodesTyped(N)
  BY <1>1 DEF Joins, Typed
<1>3. k \in Nat \ {0} /\ sep \in Nat /\ NodesTyped(G)
  BY KeysAreNumbers DEF Beside, Shifted
<1>4. Shape(F, r, dep2, H, low2, high2)
  BY <1>2, <1>3, MergeShape
<1> HIDE DEF dep2, low2, high2
<1>5. Divided(F, G, l, d, p, j, sep)
  BY <1>1, <1>4, ShiftDivides
<1>6. Separates(F, G, low2, high2, l, d, sep)
  <2>1. l \in DOMAIN F /\ l \in DOMAIN G /\ d \in DOMAIN G /\ PartsDivided(F, G, l, d, sep)
    BY <1>5 DEF Divided
  <2>2. F[l].leaf = N[l].leaf
    BY <1>2 DEF Divided, PartsDivided
  <2>3. F[l].leaf => G[l].keys # <<>> /\ G[d].keys # <<>> /\ sep = G[d].keys[1]
    BY <2>2 DEF Shifted
  <2> QED
    BY <1>3, <1>4, <2>1, <2>3, PartsSeparate
<1>7. Shape(G, r, Given(dep2, d, dep2[l]), H, Given(low2, d, sep),
            Given(Given(high2, l, sep), d, high2[l]))
  BY <1>3, <1>4, <1>5, <1>6, DivideShape
<1>8. LeafKeys(G) = LeafKeys(F)
  BY <1>3, <1>5, DivideKeys
<1>9. LeafKeys(N) = LeafKeys(F)
  BY <1>2, DivideKeys
<1> QED
  BY <1>7, <1>8, <1>9

\* What one element more is among the elements.
LEMMA OneMore ==
    ASSUME NEW V, NEW s \in Seq(V), NEW e \in V
    PROVE  ToSet(Append(s, e)) = ToSet(s) \cup {e} /\ ToSet(<<e>> \o s) = ToSet(s) \cup {e}
<1> DEFINE h == <<e>>
<1>1. h \in Seq(V) /\ ToSet(h) = {e}
  BY OneElement
<1>2. Append(s, e) = s \o h
  BY AppendIsConcat
<1> HIDE DEF h
<1>3. ToSet(s \o h) = ToSet(s) \cup ToSet(h) /\ ToSet(h \o s) = ToSet(h) \cup ToSet(s)
  BY <1>1, ToSetOfConcat
<1>4. ToSet(Append(s, e)) = ToSet(s) \cup {e} /\ ToSet(h \o s) = ToSet(s) \cup {e}
  BY <1>1, <1>2, <1>3
<1> QED
  BY <1>4 DEF h

LEMMA OneNumberMore ==
    \A s \in Seq(Nat), e \in Nat :
        ToSet(Append(s, e)) = ToSet(s) \cup {e} /\ ToSet(<<e>> \o s) = ToSet(s) \cup {e}
<1>1. ASSUME NEW s \in Seq(Nat), NEW e \in Nat
      PROVE  ToSet(Append(s, e)) = ToSet(s) \cup {e} /\ ToSet(<<e>> \o s) = ToSet(s) \cup {e}
  <2> DEFINE V == Nat
  <2>1. s \in Seq(V) /\ e \in V
    OBVIOUS
  <2> HIDE DEF V
  <2> QED
    BY <2>1, OneMore
<1> QED
  BY <1>1

\* Without repetitions an element at an end is not among the others.
LEMMA EndsApart ==
    ASSUME NEW s \in Seq(Nat), s # <<>>,
           \A i, j \in 1 .. Len(s) : s[i] = s[j] => i = j
    PROVE  /\ Head(s) \in ToSet(s) /\ \A m \in ToSet(Tail(s)) : m \in ToSet(s) /\ m # Head(s)
           /\ Last(s) \in ToSet(s) /\ \A m \in ToSet(Front(s)) : m \in ToSet(s) /\ m # Last(s)
<1> DEFINE l == Len(s)
           t == Tail(s)
           f == Front(s)
<1>1. l \in Nat \ {0} /\ Head(s) = s[1] /\ Last(s) = s[l] /\ s \in Seq(Nat)
  BY EmptySeq DEF Last
<1>2. 1 \in 1 .. l /\ l \in 1 .. l
  BY <1>1
<1>3. Head(s) \in ToSet(s) /\ Last(s) \in ToSet(s)
  BY <1>1, <1>2, ElementsInSet
<1>4. t \in Seq(Nat) /\ Len(t) = l - 1 /\ \A i \in 1 .. Len(t) : t[i] = s[i + 1]
  BY HeadTailProperties
<1>5. f \in Seq(Nat) /\ Len(f) = l - 1 /\ \A i \in 1 .. Len(f) : f[i] = s[i]
  <2> DEFINE j == l - 1
             one == 1
  <2>1. one \in 1 .. (l + 1) /\ j \in 0 .. l /\ one <= j + 1 /\ j - one + 1 = j /\ one = 1
    BY <1>1
  <2> HIDE DEF j, one
  <2>2. SubSeq(s, one, j) \in Seq(Nat)
    BY <2>1, PartProperties
  <2>3. Len(SubSeq(s, one, j)) = j - one + 1
    BY <2>1, PartProperties
  <2>4. \A m \in 1 .. (j - one + 1) : SubSeq(s, one, j)[m] = s[one + m - 1]
    BY <2>1, PartProperties
  <2>5. \A m \in 1 .. j : one + m - 1 = m
    BY <2>1
  <2>6. SubSeq(s, one, j) = f
    BY <2>1 DEF Front, j
  <2> HIDE DEF f
  <2> QED
    BY <2>1, <2>2, <2>3, <2>4, <2>5, <2>6 DEF j
<1> HIDE DEF t, f, l
<1>6. ASSUME NEW m \in ToSet(t)
      PROVE  m \in ToSet(s) /\ m # Head(s)
  <2>1. PICK i \in 1 .. Len(t) : t[i] = m
    BY <1>4, ElementsInSet
  <2>2. i + 1 \in 1 .. l /\ i + 1 # 1 /\ s[i + 1] = m
    BY <1>1, <1>4, <2>1
  <2>3. s[i + 1] \in ToSet(s)
    BY <1>1, <2>2, ElementsInSet DEF l
  <2> QED
    BY <1>1, <1>2, <2>2, <2>3 DEF l
<1>7. ASSUME NEW m \in ToSet(f)
      PROVE  m \in ToSet(s) /\ m # Last(s)
  <2>1. PICK i \in 1 .. Len(f) : f[i] = m
    BY <1>5, ElementsInSet
  <2>2. i \in 1 .. l /\ i # l /\ s[i] = m
    BY <1>1, <1>5, <2>1
  <2>3. s[i] \in ToSet(s)
    BY <1>1, <2>2, ElementsInSet DEF l
  <2> QED
    BY <1>1, <1>2, <2>2, <2>3 DEF l
<1> QED
  BY <1>3, <1>6, <1>7 DEF t, f

\* Three nodes have got other entries.
Refitted(T, W, a, ka, pa, b, kb, pb, q, kq, pq) ==
    LET N == T.nodes
        F == W.nodes
    IN  /\ Typed(W) /\ W.root = T.root /\ W.records = T.records
        /\ DOMAIN F = DOMAIN N
        /\ F[a].keys = ka /\ F[a].ptrs = pa
        /\ F[b].keys = kb /\ F[b].ptrs = pb
        /\ F[q].keys = kq /\ F[q].ptrs = pq
        /\ \A m \in DOMAIN N \ {a, b, q} : F[m].keys = N[m].keys /\ F[m].ptrs = N[m].ptrs
        /\ \A m \in DOMAIN N : F[m].leaf = N[m].leaf /\ F[m].next = N[m].next
                               /\ F[m].parent = N[m].parent

LEMMA ThreeRefitted ==
    ASSUME NEW T, Typed(T), NEW a \in DOMAIN T.nodes, NEW b \in DOMAIN T.nodes,
           NEW q \in DOMAIN T.nodes, a # b, a # q, b # q,
           NEW ka \in Seq(Keys), NEW kb \in Seq(Keys), NEW kq \in Seq(Keys),
           NEW pa \in Seq(Nat), NEW pb \in Seq(Nat), NEW pq \in Seq(Nat)
    PROVE  Refitted(T, WithEntries(WithEntries(WithEntries(T, a, ka, pa), b, kb, pb), q, kq, pq),
                    a, ka, pa, b, kb, pb, q, kq, pq)
<1> DEFINE N == T.nodes
           A == WithEntries(T, a, ka, pa)
           B == WithEntries(A, b, kb, pb)
           W == WithEntries(B, q, kq, pq)
<1>1. /\ Typed(A) /\ A.root = T.root /\ A.records = T.records
      /\ DOMAIN A.nodes = DOMAIN N
      /\ A.nodes[a] = [leaf |-> N[a].leaf, keys |-> ka, ptrs |-> pa, parent |-> N[a].parent,
                       next |-> N[a].next]
      /\ \A m \in DOMAIN N \ {a} : A.nodes[m] = N[m]
  BY WithEntriesMakes
<1> HIDE DEF A
<1>2. b \in DOMAIN A.nodes /\ A.nodes[b] = N[b] /\ A.nodes[q] = N[q]
  BY <1>1
<1>3. /\ Typed(B) /\ B.root = A.root /\ B.records = A.records
      /\ DOMAIN B.nodes = DOMAIN A.nodes
      /\ B.nodes[b] = [leaf |-> A.nodes[b].leaf, keys |-> kb, ptrs |-> pb,
                       parent |-> A.nodes[b].parent, next |-> A.nodes[b].next]
      /\ \A m \in DOMAIN A.nodes \ {b} : B.nodes[m] = A.nodes[m]
  BY <1>1, <1>2, WithEntriesMakes
<1> HIDE DEF B
<1>4. q \in DOMAIN B.nodes /\ B.nodes[q] = N[q]
  BY <1>1, <1>2, <1>3
<1>5. /\ Typed(W) /\ W.root = B.root /\ W.records = B.records
      /\ DOMAIN W.nodes = DOMAIN B.nodes
      /\ W.nodes[q] = [leaf |-> B.nodes[q].leaf, keys |-> kq, ptrs |-> pq,
                       parent |-> B.nodes[q].parent, next |-> B.nodes[q].next]
      /\ \A m \in DOMAIN B.nodes \ {q} : W.nodes[m] = B.nodes[m]
  BY <1>3, <1>4, WithEntriesMakes
<1> HIDE DEF W
<1> DEFINE F == W.nodes
<1>6. F[a] = A.nodes[a] /\ F[b] = B.nodes[b]
  BY <1>1, <1>3, <1>5
<1>7. /\ F[a].keys = ka /\ F[a].ptrs = pa /\ F[a].leaf = N[a].leaf /\ F[a].next = N[a].next
      /\ F[a].parent = N[a].parent
  BY <1>1, <1>6
<1>8. /\ F[b].keys = kb /\ F[b].ptrs = pb /\ F[b].leaf = N[b].leaf /\ F[b].next = N[b].next
      /\ F[b].parent = N[b].parent
  BY <1>2, <1>3, <1>6
<1>9. /\ F[q].keys = kq /\ F[q].ptrs = pq /\ F[q].leaf = N[q].leaf /\ F[q].next = N[q].next
      /\ F[q].parent = N[q].parent
  BY <1>4, <1>5
<1>10. \A m \in DOMAIN N \ {a, b, q} : F[m] = N[m]
  BY <1>1, <1>3, <1>5
<1>11. \A m \in DOMAIN N : F[m].leaf = N[m].leaf /\ F[m].next = N[m].next
                           /\ F[m].parent = N[m].parent
  BY <1>7, <1>8, <1>9, <1>10
<1>12. DOMAIN F = DOMAIN N /\ Typed(W) /\ W.root = T.root /\ W.records = T.records
  BY <1>1, <1>3, <1>5
<1>13. Refitted(T, W, a, ka, pa, b, kb, pb, q, kq, pq)
  BY <1>7, <1>8, <1>9, <1>10, <1>11, <1>12 DEF Refitted
<1> QED
  BY <1>13 DEF W, B, A

\* n has got an entry of its neighbor nb; they are l and d.
Evened(T, W, p, j, l, d, k, n, nb) ==
    /\ Typed(W) /\ W.root = T.root /\ W.records = T.records
    /\ \E sep : Shifted(T.nodes, W.nodes, p, j, l, d, k, sep)
    /\ Len(W.nodes[n].keys) = Len(T.nodes[n].keys) + 1
    /\ Len(W.nodes[nb].keys) = Len(T.nodes[nb].keys) - 1

\* The types of the entries of siblings.
LEMMA SiblingTypes ==
    ASSUME NEW N, NEW r, NEW dep, NEW H, NEW low, NEW high, Shape(N, r, dep, H, low, high),
           NEW p, NEW j, NEW l, NEW d, NEW k, Beside(N, dep, low, high, p, j, l, d, k)
    PROVE  /\ p \in DOMAIN N /\ l \in DOMAIN N /\ d \in DOMAIN N /\ l # d /\ l # p /\ d # p
           /\ N[l].keys \in Seq(Keys) /\ N[l].ptrs \in Seq(Nat)
           /\ N[d].keys \in Seq(Keys) /\ N[d].ptrs \in Seq(Nat)
           /\ N[p].keys \in Seq(Keys) /\ N[p].ptrs \in Seq(Nat)
           /\ N[d].leaf = N[l].leaf /\ k \in Keys /\ l \in Nat /\ d \in Nat
           /\ j \in 1 .. Len(N[p].keys)
           /\ N[l].parent = p /\ N[d].parent = p
<1>1. /\ p \in DOMAIN N /\ l \in DOMAIN N /\ d \in DOMAIN N /\ l # d /\ l # p /\ d # p
      /\ N[d].leaf = N[l].leaf /\ k \in Keys /\ j \in 1 .. Len(N[p].keys)
      /\ N[l].parent = p /\ N[d].parent = p
  BY DEF Beside
<1>2. NodesTyped(N)
  BY DEF Shape
<1>3. N[l].keys \in Seq(Keys) /\ N[l].ptrs \in Seq(Nat) /\ l \in Nat
  BY <1>1, <1>2, TypesOfNodes
<1>4. N[d].keys \in Seq(Keys) /\ N[d].ptrs \in Seq(Nat) /\ d \in Nat
  BY <1>1, <1>2, TypesOfNodes
<1>5. N[p].keys \in Seq(Keys) /\ N[p].ptrs \in Seq(Nat)
  BY <1>1, <1>2, TypesOfNodes
<1> QED
  BY <1>1, <1>3, <1>4, <1>5

\* redistribute_nodes() from the right, the left node being the leftmost.
LEMMA EvenedFromRight ==
    ASSUME NEW T, Typed(T), NEW r, NEW dep, NEW H, NEW low, NEW high,
           Shape(T.nodes, r, dep, H, low, high),
           NEW p, NEW j, NEW l, NEW d, NEW k, Beside(T.nodes, dep, low, high, p, j, l, d, k),
           Len(T.nodes[d].keys) >= 1, T.nodes[l].leaf => Len(T.nodes[d].keys) >= 2
    PROVE  Evened(T, Redistribute(T, l, d, TRUE, j, k), p, j, l, d, k, l, d)
<1> DEFINE N == T.nodes
           isLeaf == N[l].leaf
           ck == N[l].keys
           cp == N[l].ptrs
           dk == N[d].keys
           dp == N[d].ptrs
           taken == Head(dp)
           key == IF ~ isLeaf THEN k ELSE Head(dk)
           sep == IF isLeaf THEN dk[2] ELSE dk[1]
           ka == Append(ck, key)
           pa == Append(cp, taken)
           kb == Tail(dk)
           pb == Tail(dp)
           kq == ReplaceAt(N[p].keys, j, sep)
           pq == N[p].ptrs
           B == WithEntries(WithEntries(WithEntries(T, l, ka, pa), d, kb, pb), p, kq, pq)
           W == IF isLeaf THEN B ELSE Adopt(B, l, {taken})
           G == W.nodes
<1>1. /\ p \in DOMAIN N /\ l \in DOMAIN N /\ d \in DOMAIN N /\ l # d /\ l # p /\ d # p
      /\ ck \in Seq(Keys) /\ cp \in Seq(Nat) /\ dk \in Seq(Keys) /\ dp \in Seq(Nat)
      /\ N[p].keys \in Seq(Keys) /\ pq \in Seq(Nat)
      /\ N[d].leaf = isLeaf /\ k \in Keys /\ l \in Nat
      /\ j \in 1 .. Len(N[p].keys) /\ N[l].parent = p
  BY SiblingTypes
<1>2. Redistribute(T, l, d, TRUE, j, k) = W
  BY <1>1 DEF Redistribute
<1>3. isLeaf => N[l].ptrs = ck /\ N[d].ptrs = dk
  BY DEF Beside
<1>4. ~ isLeaf => Len(cp) = Len(ck) + 1 /\ Len(dp) = Len(dk) + 1
  BY DEF Beside
<1>5. Len(dk) >= 1 /\ (isLeaf => Len(dk) >= 2)
  OBVIOUS
<1> HIDE DEF isLeaf, ck, cp, dk, dp, pq
<1>6. Len(dk) \in Nat /\ Len(dp) \in Nat /\ Len(ck) \in Nat /\ Len(cp) \in Nat
  BY <1>1
<1>7. dk # <<>> /\ Len(dp) >= 1 /\ dp # <<>>
  <2>1. Len(dk) = Len(dp) \/ Len(dp) = Len(dk) + 1
    BY <1>3, <1>4 DEF dp
  <2>2. Len(dp) >= 1
    BY <1>5, <1>6, <2>1
  <2>3. \A s : s = <<>> => Len(s) = 0
    OBVIOUS
  <2> QED
    BY <1>5, <2>2, <2>3
<1>8. Head(dk) \in Keys /\ Head(dk) = dk[1] /\ kb \in Seq(Keys) /\ Len(kb) = Len(dk) - 1
  BY <1>1, <1>7, FirstAndOthers
<1>9. taken \in Nat /\ pb \in Seq(Nat) /\ Len(pb) = Len(dp) - 1
  BY <1>1, <1>7, FirstAndOthers
<1>10. key \in Keys
  BY <1>1, <1>8
<1>11. isLeaf => kb # <<>> /\ dk[2] = kb[1] /\ dk[2] \in Keys
  <2> HAVE isLeaf
  <2>1. Len(kb) >= 1 /\ 1 \in 1 .. Len(kb)
    BY <1>5, <1>6, <1>8
  <2>2. \A i \in 1 .. Len(kb) : kb[i] = dk[i + 1]
    BY <1>1, <1>7, HeadTailProperties
  <2>3. kb[1] = dk[2]
    BY <2>1, <2>2
  <2>4. kb[1] \in Keys
    BY <1>8, <2>1
  <2>5. \A s : s = <<>> => Len(s) = 0
    OBVIOUS
  <2> QED
    BY <2>1, <2>3, <2>4, <2>5
<1>12. sep \in Keys /\ (isLeaf => sep = kb[1]) /\ (~ isLeaf => sep = Head(dk))
  BY <1>8, <1>11
<1>13. ka \in Seq(Keys) /\ Len(ka) = Len(ck) + 1
  BY <1>1, <1>10, AppendProperties
<1>14. pa \in Seq(Nat) /\ Len(pa) = Len(cp) + 1
  BY <1>1, <1>9, AppendProperties
<1>15. kq \in Seq(Keys)
  BY <1>1, <1>12, ReplacedIsInserted
<1>16. isLeaf => ka \o kb = ck \o dk
  <2> HAVE isLeaf
  <2>1. \A x, y \in Seq(Keys) : y # <<>> => Append(x, Head(y)) \o Tail(y) = x \o y
    BY <1>10, HeadMoves
  <2>2. ka = Append(ck, Head(dk))
    OBVIOUS
  <2>3. Append(ck, Head(dk)) \o Tail(dk) = ck \o dk
    BY <1>1, <1>7, <2>1
  <2> QED
    BY <2>2, <2>3
<1>17. ~ isLeaf => (ka \o <<sep>>) \o kb = (ck \o <<k>>) \o dk
  <2> HAVE ~ isLeaf
  <2>1. \A x, y \in Seq(Keys), e \in Keys : y # <<>> =>
           (Append(x, e) \o <<Head(y)>>) \o Tail(y) = (x \o <<e>>) \o y
    <3> TAKE x, y \in Seq(Keys), e \in Keys
    <3> HAVE y # <<>>
    <3> QED
      BY HeadMoves
  <2>2. (Append(ck, k) \o <<Head(dk)>>) \o Tail(dk) = (ck \o <<k>>) \o dk
    BY <1>1, <1>7, <2>1
  <2> QED
    BY <1>12, <2>2
<1>18. pa \o pb = cp \o dp
  <2>1. \A x, y \in Seq(Nat) : y # <<>> => Append(x, Head(y)) \o Tail(y) = x \o y
    BY HeadMoves
  <2> QED
    BY <1>1, <1>7, <2>1
<1>19. isLeaf => pa = ka /\ pb = kb
  BY <1>3, <1>16 DEF cp, dp
<1> HIDE DEF B, kq
<1>20. Refitted(T, B, l, ka, pa, d, kb, pb, p, kq, pq)
  BY <1>1, <1>8, <1>9, <1>13, <1>14, <1>15, ThreeRefitted DEF B
<1>21. ~ isLeaf => /\ taken \in ToSet(dp) /\ \A m \in ToSet(pb) : m \in ToSet(dp) /\ m # taken
                   /\ ToSet(pa) = ToSet(cp) \cup {taken}
                   /\ \A m \in ToSet(cp) : N[m].parent = l
                   /\ \A m \in ToSet(dp) : N[m].parent = d
                   /\ ToSet(cp) \subseteq DOMAIN N /\ ToSet(dp) \subseteq DOMAIN N
  <2> HAVE ~ isLeaf
  <2>1. ~ N[l].leaf /\ ~ N[d].leaf
    BY <1>1 DEF isLeaf
  <2>2. \A i, i2 \in 1 .. Len(dp) : dp[i] = dp[i2] => i = i2
    BY <1>1, <2>1, ChildrenDiffer DEF dp
  <2>3. taken \in ToSet(dp) /\ \A m \in ToSet(pb) : m \in ToSet(dp) /\ m # taken
    BY <1>1, <1>7, <2>2, EndsApart
  <2>4. ToSet(Append(cp, taken)) = ToSet(cp) \cup {taken}
    BY <1>1, <1>9, OneNumberMore
  <2>5. ToSet(cp) \subseteq DOMAIN N /\ \A m \in ToSet(cp) : N[m].parent = l
    BY <1>1, <2>1, ChildrenOf, SMTT(30) DEF cp
  <2>6. ToSet(dp) \subseteq DOMAIN N /\ \A m \in ToSet(dp) : N[m].parent = d
    BY <1>1, <2>1, ChildrenOf DEF dp
  <2> QED
    BY <2>3, <2>4, <2>5, <2>6
<1> HIDE DEF ka, kb, pa, pb, taken, sep
<1>22. /\ Typed(W) /\ W.root = T.root /\ W.records = T.records /\ DOMAIN G = DOMAIN N
       /\ G[l].keys = ka /\ G[l].ptrs = pa /\ G[d].keys = kb /\ G[d].ptrs = pb
       /\ G[p].keys = kq /\ G[p].ptrs = pq
       /\ \A m \in DOMAIN N \ {l, d, p} : G[m].keys = N[m].keys /\ G[m].ptrs = N[m].ptrs
       /\ \A m \in DOMAIN N : G[m].leaf = N[m].leaf /\ G[m].next = N[m].next
       /\ isLeaf => \A m \in DOMAIN N : G[m].parent = N[m].parent
       /\ ~ isLeaf => \A m \in DOMAIN N : G[m].parent = IF m = taken THEN l ELSE N[m].parent
  <2> DEFINE F == B.nodes
  <2>1. /\ Typed(B) /\ B.root = T.root /\ B.records = T.records /\ DOMAIN F = DOMAIN N
        /\ F[l].keys = ka /\ F[l].ptrs = pa /\ F[d].keys = kb /\ F[d].ptrs = pb
        /\ F[p].keys = kq /\ F[p].ptrs = pq
        /\ \A m \in DOMAIN N \ {l, d, p} : F[m].keys = N[m].keys /\ F[m].ptrs = N[m].ptrs
        /\ \A m \in DOMAIN N : F[m].leaf = N[m].leaf /\ F[m].next = N[m].next
                               /\ F[m].parent = N[m].parent
    BY <1>20 DEF Refitted
  <2>2. CASE isLeaf
    <3>1. W = B
      BY <2>2
    <3> HIDE DEF W
    <3> QED
      BY <2>1, <2>2, <3>1
  <2>3. CASE ~ isLeaf
    <3> DEFINE A == Adopt(B, l, {taken})
    <3>1. W = A
      BY <2>3
    <3>2. /\ Typed(A) /\ A.root = B.root /\ A.records = B.records
          /\ DOMAIN A.nodes = DOMAIN F
          /\ \A m \in DOMAIN F :
                /\ A.nodes[m].leaf = F[m].leaf /\ A.nodes[m].keys = F[m].keys
                /\ A.nodes[m].ptrs = F[m].ptrs /\ A.nodes[m].next = F[m].next
                /\ m \in {taken} => A.nodes[m].parent = l
                /\ m \notin {taken} => A.nodes[m].parent = F[m].parent
      <4>1. Typed(B) /\ l \in Nat
        BY <1>1, <2>1
      <4> QED
        BY <4>1, AdoptMakes
    <3> HIDE DEF W, A
    <3>3. G[l].keys = ka /\ G[l].ptrs = pa /\ G[d].keys = kb /\ G[d].ptrs = pb
          /\ G[p].keys = kq /\ G[p].ptrs = pq
      BY <1>1, <2>1, <3>1, <3>2
    <3>4. \A m \in DOMAIN N : G[m].leaf = N[m].leaf /\ G[m].next = N[m].next
                              /\ G[m].parent = IF m = taken THEN l ELSE N[m].parent
      BY <2>1, <3>1, <3>2
    <3>5. \A m \in DOMAIN N \ {l, d, p} : G[m].keys = N[m].keys /\ G[m].ptrs = N[m].ptrs
      BY <2>1, <3>1, <3>2
    <3> QED
      BY <2>1, <2>3, <3>1, <3>2, <3>3, <3>4, <3>5
  <2> QED
    BY <2>2, <2>3
<1> HIDE DEF W
<1>23. Shifted(N, G, p, j, l, d, k, sep)
  <2>1. NodesTyped(G) /\ sep \in Keys /\ DOMAIN G = DOMAIN N
    BY <1>12, <1>22 DEF Typed
  <2>2. G[p].keys = ReplaceAt(N[p].keys, j, sep) /\ G[p].ptrs = N[p].ptrs
    BY <1>22 DEF kq, pq
  <2>3. ASSUME N[l].leaf
        PROVE  /\ G[l].ptrs = G[l].keys /\ G[d].ptrs = G[d].keys
               /\ G[l].keys \o G[d].keys = N[l].keys \o N[d].keys
               /\ G[l].keys # <<>> /\ G[d].keys # <<>> /\ sep = G[d].keys[1]
               /\ \A m \in DOMAIN N : G[m].parent = N[m].parent
    <3>1. isLeaf
      BY <2>3 DEF isLeaf
    <3>2. ka # <<>>
      <4>1. Len(ka) # 0
        BY <1>6, <1>13
      <4>2. \A s : s = <<>> => Len(s) = 0
        OBVIOUS
      <4> QED
        BY <4>1, <4>2
    <3>3. ka \o kb = N[l].keys \o N[d].keys
      BY <1>16, <3>1 DEF ck, dk
    <3> QED
      BY <1>11, <1>12, <1>19, <1>22, <3>1, <3>2, <3>3
  <2>4. ASSUME ~ N[l].leaf
        PROVE  /\ Len(G[l].ptrs) = Len(G[l].keys) + 1 /\ Len(G[d].ptrs) = Len(G[d].keys) + 1
               /\ (G[l].keys \o <<sep>>) \o G[d].keys = (N[l].keys \o <<k>>) \o N[d].keys
               /\ G[l].ptrs \o G[d].ptrs = N[l].ptrs \o N[d].ptrs
               /\ \A m \in ToSet(G[l].ptrs) : G[m].parent = l
               /\ \A m \in ToSet(G[d].ptrs) : G[m].parent = d
               /\ \A m \in DOMAIN N \ (ToSet(N[l].ptrs) \cup ToSet(N[d].ptrs)) :
                     G[m].parent = N[m].parent
    <3>1. ~ isLeaf
      BY <2>4 DEF isLeaf
    <3>2. Len(pa) = Len(ka) + 1 /\ Len(pb) = Len(kb) + 1
      <4>1. Len(cp) = Len(ck) + 1 /\ Len(dp) = Len(dk) + 1
        BY <1>4, <3>1
      <4>2. Len(pa) = Len(cp) + 1 /\ Len(ka) = Len(ck) + 1 /\ Len(ck) \in Nat
        BY <1>6, <1>13, <1>14
      <4>3. Len(pb) = Len(dp) - 1 /\ Len(kb) = Len(dk) - 1 /\ Len(dk) \in Nat
        BY <1>6, <1>8, <1>9
      <4>4. Len(pa) = Len(ka) + 1
        BY <4>1, <4>2
      <4>5. Len(pb) = Len(kb) + 1
        BY <4>1, <4>3
      <4> QED
        BY <4>4, <4>5
    <3>3. (ka \o <<sep>>) \o kb = (N[l].keys \o <<k>>) \o N[d].keys
          /\ pa \o pb = N[l].ptrs \o N[d].ptrs
      BY <1>17, <1>18, <3>1 DEF ck, cp, dk, dp
    <3>4. \A m \in ToSet(pa) : G[m].parent = l
      BY <1>21, <1>22, <3>1
    <3>5. \A m \in ToSet(pb) : G[m].parent = d
      BY <1>21, <1>22, <3>1
    <3>6. \A m \in DOMAIN N \ (ToSet(cp) \cup ToSet(dp)) : G[m].parent = N[m].parent
      BY <1>21, <1>22, <3>1
    <3> QED
      BY <1>22, <3>2, <3>3, <3>4, <3>5, <3>6 DEF cp, dp
  <2> QED
    BY <1>22, <2>1, <2>2, <2>3, <2>4 DEF Shifted
<1>24. Evened(T, W, p, j, l, d, k, l, d)
  <2>1. Len(G[l].keys) = Len(N[l].keys) + 1 /\ Len(G[d].keys) = Len(N[d].keys) - 1
    BY <1>8, <1>13, <1>22 DEF ck, dk
  <2> QED
    BY <1>22, <1>23, <2>1 DEF Evened
<1> QED
  BY <1>2, <1>24

\* redistribute_nodes() from the left.
LEMMA EvenedFromLeft ==
    ASSUME NEW T, Typed(T), NEW r, NEW dep, NEW H, NEW low, NEW high,
           Shape(T.nodes, r, dep, H, low, high),
           NEW p, NEW j, NEW l, NEW d, NEW k, Beside(T.nodes, dep, low, high, p, j, l, d, k),
           Len(T.nodes[l].keys) >= 1, T.nodes[l].leaf => Len(T.nodes[l].keys) >= 2
    PROVE  Evened(T, Redistribute(T, d, l, FALSE, j, k), p, j, l, d, k, d, l)
<1> DEFINE N == T.nodes
           isLeaf == N[l].leaf
           ck == N[l].keys
           cp == N[l].ptrs
           dk == N[d].keys
           dp == N[d].ptrs
           taken == Last(cp)
           key == IF ~ isLeaf THEN k ELSE Last(ck)
           sep == Last(ck)
           ka == <<key>> \o dk
           pa == <<taken>> \o dp
           kb == Front(ck)
           pb == Front(cp)
           kq == ReplaceAt(N[p].keys, j, sep)
           pq == N[p].ptrs
           B == WithEntries(WithEntries(WithEntries(T, d, ka, pa), l, kb, pb), p, kq, pq)
           W == IF isLeaf THEN B ELSE Adopt(B, d, {taken})
           G == W.nodes
<1>1. /\ p \in DOMAIN N /\ l \in DOMAIN N /\ d \in DOMAIN N /\ l # d /\ l # p /\ d # p
      /\ ck \in Seq(Keys) /\ cp \in Seq(Nat) /\ dk \in Seq(Keys) /\ dp \in Seq(Nat)
      /\ N[p].keys \in Seq(Keys) /\ pq \in Seq(Nat)
      /\ N[d].leaf = isLeaf /\ k \in Keys /\ d \in Nat /\ l \in Nat
      /\ j \in 1 .. Len(N[p].keys) /\ N[d].parent = p
  BY SiblingTypes
<1>2. Redistribute(T, d, l, FALSE, j, k) = W
  BY <1>1 DEF Redistribute
<1>3. isLeaf => N[l].ptrs = ck /\ N[d].ptrs = dk
  BY DEF Beside
<1>4. ~ isLeaf => Len(cp) = Len(ck) + 1 /\ Len(dp) = Len(dk) + 1
  BY DEF Beside
<1>5. Len(ck) >= 1 /\ (isLeaf => Len(ck) >= 2)
  OBVIOUS
<1> HIDE DEF isLeaf, ck, cp, dk, dp, pq
<1>6. Len(dk) \in Nat /\ Len(dp) \in Nat /\ Len(ck) \in Nat /\ Len(cp) \in Nat
  BY <1>1
<1>e. \A s : s = <<>> => Len(s) = 0
  OBVIOUS
<1>7. ck # <<>> /\ cp # <<>>
  <2>1. Len(ck) = Len(cp) \/ Len(cp) = Len(ck) + 1
    BY <1>3, <1>4 DEF cp
  <2>2. Len(cp) >= 1
    BY <1>5, <1>6, <2>1
  <2> QED
    BY <1>5, <1>e, <2>2
<1>8. sep \in Keys /\ kb \in Seq(Keys) /\ Len(kb) = Len(ck) - 1
  BY <1>1, <1>7, LastAndOthers
<1>9. taken \in Nat /\ pb \in Seq(Nat) /\ Len(pb) = Len(cp) - 1
  BY <1>1, <1>7, LastAndOthers
<1>10. key \in Keys
  BY <1>1, <1>8
<1>11. isLeaf => kb # <<>>
  <2> HAVE isLeaf
  <2>1. Len(kb) # 0
    BY <1>5, <1>6, <1>8
  <2> QED
    BY <1>e, <2>1
<1>12. isLeaf => key = sep
  OBVIOUS
<1>13. ka \in Seq(Keys) /\ Len(ka) = Len(dk) + 1
  <2> DEFINE h == <<Last(ck)>>
             e == <<key>>
  <2>1. h = <<Last(ck)>> /\ e = <<key>>
    OBVIOUS
  <2> HIDE DEF h, e, key
  <2>2. e \o dk \in Seq(Keys) /\ Len(e \o dk) = Len(dk) + 1
    BY <1>1, <1>7, <1>10, <2>1, LastMoves
  <2> QED
    BY <2>2 DEF e
<1>14. pa \in Seq(Nat) /\ Len(pa) = Len(dp) + 1
  <2> DEFINE e == <<taken>>
  <2>1. e = <<Last(cp)>> /\ e = <<taken>>
    OBVIOUS
  <2> HIDE DEF e, taken
  <2>2. e \o dp \in Seq(Nat) /\ Len(e \o dp) = Len(dp) + 1
    BY <1>1, <1>7, <1>9, <2>1, LastMoves
  <2> QED
    BY <2>2 DEF e
<1>15. kq \in Seq(Keys)
  BY <1>1, <1>8, ReplacedIsInserted
<1>16. isLeaf => kb \o ka = ck \o dk
  <2> HAVE isLeaf
  <2> DEFINE h == <<Last(ck)>>
             e == <<k>>
  <2>1. h = <<Last(ck)>> /\ e = <<k>>
    OBVIOUS
  <2>3. ka = h \o dk
    OBVIOUS
  <2> HIDE DEF h, e
  <2>2. MovedLast(ck, dk, h, e)
    BY <1>1, <1>7, <2>1, LastMoves
  <2>4. Front(ck) \o (h \o dk) = ck \o dk
    BY <2>2 DEF MovedLast
  <2> QED
    BY <2>3, <2>4
<1>17. ~ isLeaf => (kb \o <<sep>>) \o ka = (ck \o <<k>>) \o dk
  <2> HAVE ~ isLeaf
  <2> DEFINE h == <<Last(ck)>>
             e == <<k>>
  <2>1. h = <<Last(ck)>> /\ e = <<k>>
    OBVIOUS
  <2>3. h = <<sep>> /\ ka = e \o dk
    OBVIOUS
  <2> HIDE DEF h, e
  <2>2. MovedLast(ck, dk, h, e)
    BY <1>1, <1>7, <2>1, LastMoves
  <2>4. (Front(ck) \o h) \o (e \o dk) = (ck \o e) \o dk
    BY <2>2 DEF MovedLast
  <2> QED
    BY <2>1, <2>3, <2>4
<1>18. pb \o pa = cp \o dp
  <2> DEFINE h == <<Last(cp)>>
             e == <<l>>
  <2>1. h = <<Last(cp)>> /\ e = <<l>>
    OBVIOUS
  <2>3. pa = h \o dp
    OBVIOUS
  <2> HIDE DEF h, e
  <2>2. MovedLast(cp, dp, h, e)
    BY <1>1, <1>7, <2>1, LastMoves
  <2>4. Front(cp) \o (h \o dp) = cp \o dp
    BY <2>2 DEF MovedLast
  <2> QED
    BY <2>3, <2>4
<1>19. isLeaf => pa = ka /\ pb = kb
  BY <1>3 DEF cp, dp
<1>s. isLeaf => ka # <<>> /\ sep = ka[1]
  <2> HAVE isLeaf
  <2>1. Len(ka) # 0
    BY <1>6, <1>13
  <2>2. ka = <<sep>> \o dk
    BY <1>12
  <2> DEFINE h == <<sep>>
  <2>3. h \in Seq(Keys) /\ Len(h) = 1 /\ h[1] = sep
    BY <1>8, OneElement
  <2> HIDE DEF h, sep, ka
  <2>4. (h \o dk)[1] = sep
    <3>1. \A i \in 1 .. Len(h) : (h \o dk)[i] = h[i]
      BY <1>1, <2>3, ConcatPlaces
    <3> QED
      BY <2>3, <3>1
  <2> QED
    BY <1>e, <2>1, <2>2, <2>4 DEF h
<1> HIDE DEF B, kq
<1>20. Refitted(T, B, d, ka, pa, l, kb, pb, p, kq, pq)
  BY <1>1, <1>8, <1>9, <1>13, <1>14, <1>15, ThreeRefitted DEF B
<1>21. ~ isLeaf => /\ taken \in ToSet(cp) /\ \A m \in ToSet(pb) : m \in ToSet(cp) /\ m # taken
                   /\ ToSet(pa) = ToSet(dp) \cup {taken}
                   /\ \A m \in ToSet(cp) : N[m].parent = l
                   /\ \A m \in ToSet(dp) : N[m].parent = d
                   /\ ToSet(cp) \subseteq DOMAIN N /\ ToSet(dp) \subseteq DOMAIN N
  <2> HAVE ~ isLeaf
  <2>1. ~ N[l].leaf /\ ~ N[d].leaf
    BY <1>1 DEF isLeaf
  <2>2. \A i, i2 \in 1 .. Len(cp) : cp[i] = cp[i2] => i = i2
    BY <1>1, <2>1, ChildrenDiffer DEF cp
  <2>3. taken \in ToSet(cp) /\ \A m \in ToSet(pb) : m \in ToSet(cp) /\ m # taken
    BY <1>1, <1>7, <2>2, EndsApart
  <2>4. ToSet(<<taken>> \o dp) = ToSet(dp) \cup {taken}
    BY <1>1, <1>9, OneNumberMore
  <2>5. ToSet(cp) \subseteq DOMAIN N /\ \A m \in ToSet(cp) : N[m].parent = l
    BY <1>1, <2>1, ChildrenOf DEF cp
  <2>6. ToSet(dp) \subseteq DOMAIN N /\ \A m \in ToSet(dp) : N[m].parent = d
    BY <1>1, <2>1, ChildrenOf DEF dp
  <2> QED
    BY <2>3, <2>4, <2>5, <2>6
<1> HIDE DEF ka, kb, pa, pb, taken, sep
<1>22. /\ Typed(W) /\ W.root = T.root /\ W.records = T.records /\ DOMAIN G = DOMAIN N
       /\ G[d].keys = ka /\ G[d].ptrs = pa /\ G[l].keys = kb /\ G[l].ptrs = pb
       /\ G[p].keys = kq /\ G[p].ptrs = pq
       /\ \A m \in DOMAIN N \ {l, d, p} : G[m].keys = N[m].keys /\ G[m].ptrs = N[m].ptrs
       /\ \A m \in DOMAIN N : G[m].leaf = N[m].leaf /\ G[m].next = N[m].next
       /\ isLeaf => \A m \in DOMAIN N : G[m].parent = N[m].parent
       /\ ~ isLeaf => \A m \in DOMAIN N : G[m].parent = IF m = taken THEN d ELSE N[m].parent
  <2> DEFINE F == B.nodes
  <2>1. /\ Typed(B) /\ B.root = T.root /\ B.records = T.records /\ DOMAIN F = DOMAIN N
        /\ F[d].keys = ka /\ F[d].ptrs = pa /\ F[l].keys = kb /\ F[l].ptrs = pb
        /\ F[p].keys = kq /\ F[p].ptrs = pq
        /\ \A m \in DOMAIN N \ {d, l, p} : F[m].keys = N[m].keys /\ F[m].ptrs = N[m].ptrs
        /\ \A m \in DOMAIN N : F[m].leaf = N[m].leaf /\ F[m].next = N[m].next
                               /\ F[m].parent = N[m].parent
    BY <1>20 DEF Refitted
  <2>2. CASE isLeaf
    <3>1. W = B
      BY <2>2
    <3> HIDE DEF W
    <3> QED
      BY <2>1, <2>2, <3>1
  <2>3. CASE ~ isLeaf
    <3> DEFINE A == Adopt(B, d, {taken})
    <3>1. W = A
      BY <2>3
    <3>2. /\ Typed(A) /\ A.root = B.root /\ A.records = B.records
          /\ DOMAIN A.nodes = DOMAIN F
          /\ \A m \in DOMAIN F :
                /\ A.nodes[m].leaf = F[m].leaf /\ A.nodes[m].keys = F[m].keys
                /\ A.nodes[m].ptrs = F[m].ptrs /\ A.nodes[m].next = F[m].next
                /\ m \in {taken} => A.nodes[m].parent = d
                /\ m \notin {taken} => A.nodes[m].parent = F[m].parent
      <4>1. Typed(B) /\ d \in Nat
        BY <1>1, <2>1
      <4> QED
        BY <4>1, AdoptMakes
    <3> HIDE DEF W, A
    <3>3. G[d].keys = ka /\ G[d].ptrs = pa /\ G[l].keys = kb /\ G[l].ptrs = pb
          /\ G[p].keys = kq /\ G[p].ptrs = pq
      BY <1>1, <2>1, <3>1, <3>2
    <3>4. \A m \in DOMAIN N : G[m].leaf = N[m].leaf /\ G[m].next = N[m].next
                              /\ G[m].parent = IF m = taken THEN d ELSE N[m].parent
      BY <2>1, <3>1, <3>2
    <3>5. \A m \in DOMAIN N \ {l, d, p} : G[m].keys = N[m].keys /\ G[m].ptrs = N[m].ptrs
      BY <2>1, <3>1, <3>2
    <3> QED
      BY <2>1, <2>3, <3>1, <3>2, <3>3, <3>4, <3>5
  <2> QED
    BY <2>2, <2>3
<1> HIDE DEF W
<1>23. Shifted(N, G, p, j, l, d, k, sep)
  <2>1. NodesTyped(G) /\ sep \in Keys /\ DOMAIN G = DOMAIN N
    BY <1>8, <1>22 DEF Typed
  <2>2. G[p].keys = ReplaceAt(N[p].keys, j, sep) /\ G[p].ptrs = N[p].ptrs
    BY <1>22 DEF kq, pq
  <2>3. ASSUME N[l].leaf
        PROVE  /\ G[l].ptrs = G[l].keys /\ G[d].ptrs = G[d].keys
               /\ G[l].keys \o G[d].keys = N[l].keys \o N[d].keys
               /\ G[l].keys # <<>> /\ G[d].keys # <<>> /\ sep = G[d].keys[1]
               /\ \A m \in DOMAIN N : G[m].parent = N[m].parent
    <3>1. isLeaf
      BY <2>3 DEF isLeaf
    <3>3. kb \o ka = N[l].keys \o N[d].keys
      BY <1>16, <3>1 DEF ck, dk
    <3> QED
      BY <1>11, <1>s, <1>19, <1>22, <3>1, <3>3
  <2>4. ASSUME ~ N[l].leaf
        PROVE  /\ Len(G[l].ptrs) = Len(G[l].keys) + 1 /\ Len(G[d].ptrs) = Len(G[d].keys) + 1
               /\ (G[l].keys \o <<sep>>) \o G[d].keys = (N[l].keys \o <<k>>) \o N[d].keys
               /\ G[l].ptrs \o G[d].ptrs = N[l].ptrs \o N[d].ptrs
               /\ \A m \in ToSet(G[l].ptrs) : G[m].parent = l
               /\ \A m \in ToSet(G[d].ptrs) : G[m].parent = d
               /\ \A m \in DOMAIN N \ (ToSet(N[l].ptrs) \cup ToSet(N[d].ptrs)) :
                     G[m].parent = N[m].parent
    <3>1. ~ isLeaf
      BY <2>4 DEF isLeaf
    <3>2. Len(pa) = Len(ka) + 1 /\ Len(pb) = Len(kb) + 1
      <4>1. Len(cp) = Len(ck) + 1 /\ Len(dp) = Len(dk) + 1
        BY <1>4, <3>1
      <4>2. Len(pa) = Len(dp) + 1 /\ Len(ka) = Len(dk) + 1 /\ Len(dk) \in Nat
        BY <1>6, <1>13, <1>14
      <4>3. Len(pb) = Len(cp) - 1 /\ Len(kb) = Len(ck) - 1 /\ Len(ck) \in Nat
        BY <1>6, <1>8, <1>9
      <4>4. Len(pa) = Len(ka) + 1
        BY <4>1, <4>2
      <4>5. Len(pb) = Len(kb) + 1
        BY <4>1, <4>3
      <4> QED
        BY <4>4, <4>5
    <3>3. (kb \o <<sep>>) \o ka = (N[l].keys \o <<k>>) \o N[d].keys
          /\ pb \o pa = N[l].ptrs \o N[d].ptrs
      BY <1>17, <1>18, <3>1 DEF ck, cp, dk, dp
    <3>4. \A m \in ToSet(pa) : G[m].parent = d
      BY <1>21, <1>22, <3>1
    <3>5. \A m \in ToSet(pb) : G[m].parent = l
      BY <1>21, <1>22, <3>1
    <3>6. \A m \in DOMAIN N \ (ToSet(cp) \cup ToSet(dp)) : G[m].parent = N[m].parent
      BY <1>21, <1>22, <3>1
    <3> QED
      BY <1>22, <3>2, <3>3, <3>4, <3>5, <3>6 DEF cp, dp
  <2> QED
    BY <1>22, <2>1, <2>2, <2>3, <2>4 DEF Shifted
<1>24. Evened(T, W, p, j, l, d, k, d, l)
  <2>1. Len(G[d].keys) = Len(N[d].keys) + 1 /\ Len(G[l].keys) = Len(N[l].keys) - 1
    BY <1>8, <1>13, <1>22 DEF ck, dk
  <2> QED
    BY <1>22, <1>23, <2>1 DEF Evened
<1> QED
  BY <1>2, <1>24

-----------------------------------------------------------------------------
(* One call of delete_entry().                                             *)

\* A B+ tree but for node n, which has lost an entry, i levels above the leaves
\* or more.
Lacking(W, n, K, R, i, B) ==
    /\ Typed(W) /\ W.records = R
    /\ n \in DOMAIN W.nodes
    /\ \A m \in DOMAIN W.nodes \ {n} : Len(W.nodes[m].keys) \in 1 .. (order - 1)
    /\ Len(W.nodes[n].keys) \in 0 .. (order - 2)
    /\ HalfFull(W.nodes, DOMAIN W.nodes \ {W.root, n})
    /\ n # W.root => Len(W.nodes[n].keys) + 1 >= MinKeys(W.nodes[n])
    /\ \E dep, H, low, high :
          Shape(W.nodes, W.root, dep, H, low, high) /\ dep[n] + i <= H /\ H < B
    /\ LeafKeys(W.nodes) = K

\* A call of delete_entry() after i others.
Deleting(s, K, R, i, B) ==
    s.n # Null /\ Lacking(RemoveEntry(s.tree, s.n, s.key, s.ptr), s.n, K, R, i, B)

\* The empty tree.
Emptied(T, K, R) == T = [root |-> Null, nodes |-> EmptyHeap, records |-> R] /\ K = {}

Ended(s, K, R) == s.n = Null /\ (Sound(s.tree, K, R) \/ Emptied(s.tree, K, R))

\* The node to merge a node with, or to take an entry from, is the next one of
\* the same parent.
LEMMA NeighborsOf ==
    ASSUME NEW N, NEW r, NEW dep, NEW H, NEW low, NEW high, Shape(N, r, dep, H, low, high),
           NEW n \in DOMAIN N, n # r, Len(N[N[n].parent].keys) >= 1
    PROVE  LET q == N[n].parent
               i == Place(N[q].ptrs, n)
               p == IF i = 1 THEN 1 ELSE i - 1
               nb == IF i = 1 THEN N[q].ptrs[2] ELSE N[q].ptrs[p]
           IN  /\ i = 1 => Beside(N, dep, low, high, q, p, n, nb, N[q].keys[p])
               /\ i # 1 => Beside(N, dep, low, high, q, p, nb, n, N[q].keys[p])
<1> DEFINE q == N[n].parent
           s == N[q].ptrs
           i == Place(s, n)
           p == IF i = 1 THEN 1 ELSE i - 1
           nb == IF i = 1 THEN s[2] ELSE s[p]
           L == Len(N[q].keys)
<1>1. q \in DOMAIN N /\ ~ N[q].leaf /\ \E a \in 1 .. Len(s) : s[a] = n
  BY ParentCovers
<1>2. NodesTyped(N)
  BY DEF Shape
<1>3. s \in Seq(Nat) /\ Len(s) \in Nat /\ L \in Nat
  BY <1>1, <1>2, TypesOfNodes
<1>4. Len(s) = L + 1
  BY <1>1 DEF Shape, InnerShaped
<1>5. L >= 1
  OBVIOUS
<1> HIDE DEF s, L
<1>6. /\ i \in 1 .. (Len(s) + 1)
      /\ \A j \in 1 .. Len(s) : j < i => s[j] # n
      /\ i <= Len(s) => s[i] = n
  BY <1>3, PlaceProperties
<1> HIDE DEF i
<1>7. i \in 1 .. Len(s) /\ s[i] = n
  <2>1. PICK a \in 1 .. Len(s) : s[a] = n
    BY <1>1
  <2>2. i <= a
    BY <1>6, <2>1, <1>3
  <2> QED
    BY <1>3, <1>6, <2>1, <2>2
<1>8. p \in 1 .. L
  BY <1>3, <1>4, <1>5, <1>7
<1>9. i = 1 => s[p] = n /\ s[p + 1] = nb
  <2>1. i = 1 => p = 1 /\ p + 1 = 2
    OBVIOUS
  <2>2. i = 1 => nb = s[2] /\ s[1] = n
    BY <1>7
  <2> QED
    BY <2>1, <2>2
<1>10. i # 1 => s[p] = nb /\ s[p + 1] = n
  <2>1. i # 1 => p + 1 = i
    BY <1>7, <1>3
  <2> QED
    BY <1>7, <2>1
<1>11. p \in 1 .. Len(N[q].keys)
  BY <1>8 DEF L
<1> HIDE DEF p, nb
<1>12. Beside(N, dep, low, high, q, p, N[q].ptrs[p], N[q].ptrs[p + 1], N[q].keys[p])
  BY <1>1, <1>11, Siblings
<1>13. Beside(N, dep, low, high, q, p, s[p], s[p + 1], N[q].keys[p])
  BY <1>12 DEF s
<1>14. /\ i = 1 => Beside(N, dep, low, high, q, p, n, nb, N[q].keys[p])
       /\ i # 1 => Beside(N, dep, low, high, q, p, nb, n, N[q].keys[p])
  BY <1>9, <1>10, <1>13
<1> QED
  BY <1>14 DEF nb, p, i, s

\* How full the nodes of a tree are of which one lacks an entry.
LEMMA MinimumKeys ==
    ASSUME order \in Orders, NEW c
    PROVE  /\ MinKeys(c) \in 1 .. (order - 1)
           /\ c.leaf => order - MinKeys(c) >= MinKeys(c)
           /\ ~ c.leaf => order - 1 - MinKeys(c) >= MinKeys(c)
<1>1. order \in 3 .. 20
  BY HalvesFit
<1>2. Cut(order) - 1 \in 1 .. (order - 1) /\ order - Cut(order) >= Cut(order) - 1
  BY HalvesFit
<1>3. Cut(order - 1) \in 1 .. (order - 1) /\ order - Cut(order - 1) >= Cut(order - 1)
  BY HalvesFit
<1>4. Cut(order) \in 1 .. order
  BY HalvesFit
<1>5. CASE c.leaf
  BY <1>1, <1>3, <1>5 DEF MinKeys
<1>6. CASE ~ c.leaf
  <2>1. MinKeys(c) = Cut(order) - 1
    BY <1>6 DEF MinKeys
  <2> QED
    BY <1>1, <1>2, <1>4, <1>6, <2>1
<1> QED
  BY <1>5, <1>6

\* delete_entry() stops at a node with enough keys.
LEMMA EnoughKeys ==
    ASSUME order \in Orders, NEW W, NEW n, NEW K, NEW R, NEW i, NEW B,
           Lacking(W, n, K, R, i, B),
           Len(W.nodes[n].keys) >= MinKeys(W.nodes[n])
    PROVE  Sound(W, K, R)
<1>1. /\ Typed(W) /\ W.records = R /\ n \in DOMAIN W.nodes
      /\ \A m \in DOMAIN W.nodes \ {n} : Len(W.nodes[m].keys) \in 1 .. (order - 1)
      /\ Len(W.nodes[n].keys) \in 0 .. (order - 2)
      /\ HalfFull(W.nodes, DOMAIN W.nodes \ {W.root, n})
      /\ LeafKeys(W.nodes) = K
  BY DEF Lacking
<1>2. TreeShaped(W)
  BY DEF Lacking, TreeShaped
<1>3. Len(W.nodes[n].keys) \in 1 .. (order - 1)
  <2> DEFINE least == MinKeys(W.nodes[n])
             a == Len(W.nodes[n].keys)
             o == order
  <2>1. least \in 1 .. (o - 1)
    BY MinimumKeys
  <2>2. o \in 3 .. 20
    BY HalvesFit
  <2>3. a \in 0 .. (o - 2) /\ a >= least
    BY <1>1
  <2> HIDE DEF least, a, o
  <2>4. a \in 1 .. (o - 1)
    BY <2>1, <2>2, <2>3
  <2> QED
    BY <2>4 DEF a, o
<1>4. Fits(W.nodes)
  BY <1>1, <1>3 DEF Fits
<1>5. HalfFull(W.nodes, DOMAIN W.nodes \ {W.root})
  BY <1>1 DEF HalfFull
<1> QED
  BY <1>1, <1>2, <1>4, <1>5 DEF Sound

\* What a node and its neighbor have after one entry has moved.
LEMMA OneMoved ==
    ASSUME NEW o \in Nat, NEW a \in Nat, NEW b \in Nat, NEW least \in Nat, least >= 1, least <= o - 1,
           a + 1 >= least, a < least, b <= o - 1,
           \/ o - least >= least /\ b + a >= o
           \/ o - 1 - least >= least /\ b + a >= o - 1
    PROVE  a + 1 \in 1 .. (o - 1) /\ a + 1 >= least /\ b - 1 \in 1 .. (o - 1) /\ b - 1 >= least
OBVIOUS

\* After redistribute_nodes() all nodes have enough keys.
LEMMA EvenedSound ==
    ASSUME order \in Orders, NEW W, NEW n, NEW K, NEW R, NEW i, NEW B,
           Lacking(W, n, K, R, i, B),
           ~ (Len(W.nodes[n].keys) >= MinKeys(W.nodes[n])), n # W.root,
           NEW dep, NEW H, NEW low, NEW high, Shape(W.nodes, W.root, dep, H, low, high),
           NEW q, NEW j, NEW l, NEW d, NEW k, Beside(W.nodes, dep, low, high, q, j, l, d, k),
           NEW nb, (n = l /\ nb = d) \/ (n = d /\ nb = l),
           Len(W.nodes[nb].keys) + Len(W.nodes[n].keys)
               >= (IF W.nodes[n].leaf THEN order ELSE order - 1),
           NEW V, Evened(W, V, q, j, l, d, k, n, nb)
    PROVE  Sound(V, K, R)
<1> DEFINE N == W.nodes
           G == V.nodes
           a == Len(N[n].keys)
           b == Len(N[nb].keys)
           least == MinKeys(N[n])
<1>1. /\ Typed(W) /\ W.records = R /\ n \in DOMAIN N
      /\ \A m \in DOMAIN N \ {n} : Len(N[m].keys) \in 1 .. (order - 1)
      /\ Len(N[n].keys) \in 0 .. (order - 2)
      /\ HalfFull(N, DOMAIN N \ {W.root, n})
      /\ n # W.root => Len(N[n].keys) + 1 >= MinKeys(N[n])
      /\ LeafKeys(N) = K
  BY DEF Lacking
<1>2. /\ q \in DOMAIN N /\ l \in DOMAIN N /\ d \in DOMAIN N /\ l # d /\ l # q /\ d # q
      /\ N[d].leaf = N[l].leaf /\ N[q].keys \in Seq(Keys) /\ j \in 1 .. Len(N[q].keys)
  BY SiblingTypes
<1>3. /\ Typed(V) /\ V.root = W.root /\ V.records = W.records
      /\ \E sep : Shifted(N, G, q, j, l, d, k, sep)
      /\ Len(G[n].keys) = a + 1
      /\ Len(G[nb].keys) = b - 1
  BY DEF Evened
<1>4. PICK sep : Shifted(N, G, q, j, l, d, k, sep)
  BY <1>3
<1>5. /\ \E dep2, low2, high2 : Shape(G, W.root, dep2, H, low2, high2)
      /\ LeafKeys(G) = LeafKeys(N)
  BY <1>1, <1>4, ShiftShape
<1>6. /\ DOMAIN G = DOMAIN N /\ sep \in Keys
      /\ \A m \in DOMAIN N : G[m].leaf = N[m].leaf
      /\ \A m \in DOMAIN N \ {l, d, q} : G[m].keys = N[m].keys
      /\ G[q].keys = ReplaceAt(N[q].keys, j, sep)
  BY <1>4 DEF Shifted
<1>7. Len(G[q].keys) = Len(N[q].keys)
  BY <1>2, <1>6, ReplacedIsInserted
<1>8. \A m \in DOMAIN N : MinKeys(G[m]) = MinKeys(N[m])
  BY <1>6 DEF MinKeys
<1>9. /\ MinKeys(N[n]) \in 1 .. (order - 1)
      /\ N[n].leaf => order - MinKeys(N[n]) >= MinKeys(N[n])
      /\ ~ N[n].leaf => order - 1 - MinKeys(N[n]) >= MinKeys(N[n])
  BY MinimumKeys
<1>10. nb \in DOMAIN N /\ nb # n /\ nb # q /\ n # q /\ N[nb].leaf = N[n].leaf
       /\ {n, nb} = {l, d}
  BY <1>2
<1>11. MinKeys(N[nb]) = least
  BY <1>10 DEF MinKeys
<1>12. /\ a \in 0 .. (order - 2) /\ a + 1 >= least /\ ~ (a >= least) /\ b \in 1 .. (order - 1)
       /\ least \in 1 .. (order - 1) /\ order \in 3 .. 20
       /\ N[n].leaf => order - least >= least /\ b + a >= order
       /\ ~ N[n].leaf => order - 1 - least >= least /\ b + a >= order - 1
  BY <1>1, <1>9, <1>10, HalvesFit
<1> HIDE DEF a, b, least
<1>13. a + 1 \in 1 .. (order - 1) /\ a + 1 >= least /\ b - 1 \in 1 .. (order - 1) /\ b - 1 >= least
  <2> DEFINE o == order
  <2>1. o \in Nat /\ a \in Nat /\ b \in Nat /\ least \in Nat /\ least >= 1 /\ least <= o - 1
        /\ a + 1 >= least /\ a < least /\ b <= o - 1
    BY <1>12
  <2>2. \/ o - least >= least /\ b + a >= o
        \/ o - 1 - least >= least /\ b + a >= o - 1
    BY <1>12
  <2> HIDE DEF o
  <2>3. a + 1 \in 1 .. (o - 1) /\ a + 1 >= least /\ b - 1 \in 1 .. (o - 1) /\ b - 1 >= least
    BY <2>1, <2>2, OneMoved
  <2> QED
    BY <2>3 DEF o
<1>14. Len(G[n].keys) \in 1 .. (order - 1) /\ Len(G[n].keys) >= MinKeys(G[n])
  BY <1>1, <1>3, <1>8, <1>13 DEF least
<1>15. Len(G[nb].keys) \in 1 .. (order - 1) /\ Len(G[nb].keys) >= MinKeys(G[nb])
  BY <1>3, <1>8, <1>10, <1>11, <1>13
<1>16. \A m \in DOMAIN N \ {n, nb} : Len(G[m].keys) = Len(N[m].keys)
  BY <1>6, <1>7, <1>10
<1>17. Fits(G)
  BY <1>1, <1>6, <1>14, <1>15, <1>16 DEF Fits
<1>18. HalfFull(G, DOMAIN G \ {V.root})
  BY <1>1, <1>3, <1>6, <1>8, <1>14, <1>15, <1>16 DEF HalfFull
<1>19. TreeShaped(V)
  BY <1>3, <1>5 DEF TreeShaped
<1> QED
  BY <1>1, <1>3, <1>5, <1>17, <1>18, <1>19 DEF Sound

\* How many keys a merged node has.
LEMMA JoinedLength ==
    ASSUME NEW s \in Seq(Keys), NEW t \in Seq(Keys), NEW k \in Keys
    PROVE  /\ Len((s \o <<>>) \o t) = Len(s) + Len(t)
           /\ Len((s \o <<k>>) \o t) = Len(s) + Len(t) + 1
<1> DEFINE e == <<>>
           h == <<k>>
           u == s \o e
           v == s \o h
<1>1. e \in Seq(Keys) /\ Len(e) = 0 /\ h \in Seq(Keys) /\ Len(h) = 1
  OBVIOUS
<1> HIDE DEF e, h
<1>2. u \in Seq(Keys) /\ Len(u) = Len(s) + Len(e)
  BY <1>1, ConcatProperties
<1>3. v \in Seq(Keys) /\ Len(v) = Len(s) + Len(h)
  BY <1>1, ConcatProperties
<1> HIDE DEF u, v
<1>4. Len(u \o t) = Len(u) + Len(t)
  BY <1>2, ConcatProperties
<1>5. Len(v \o t) = Len(v) + Len(t)
  BY <1>3, ConcatProperties
<1>6. Len(s) \in Nat /\ Len(t) \in Nat
  BY LenProperties
<1>7. Len(u \o t) = Len(s) + Len(t) /\ Len(v \o t) = Len(s) + Len(t) + 1
  BY <1>1, <1>2, <1>3, <1>4, <1>5, <1>6
<1> QED
  BY <1>7 DEF u, v, e, h

LEMMA MergedFits ==
    ASSUME NEW o \in Nat, NEW a \in Nat, NEW b \in Nat, NEW least \in Nat, NEW c \in Nat,
           least >= 1, b >= least,
           \/ c = a + b /\ ~ (b + a >= o)
           \/ c = a + b + 1 /\ ~ (b + a >= o - 1)
    PROVE  c \in 1 .. (o - 1) /\ c >= least
OBVIOUS

\* coalesce_nodes() leaves the parent with one entry less.
LEMMA CoalescedLacking ==
    ASSUME order \in Orders, NEW W, NEW n, NEW K, NEW R, NEW i \in Nat, NEW B \in Nat,
           Lacking(W, n, K, R, i, B), n # W.root,
           NEW dep, NEW H, NEW low, NEW high, Shape(W.nodes, W.root, dep, H, low, high),
           dep[n] + i <= H, H < B,
           NEW q, NEW j, NEW l, NEW d, NEW k, Beside(W.nodes, dep, low, high, q, j, l, d, k),
           NEW nb, (n = l /\ nb = d) \/ (n = d /\ nb = l),
           ~ (Len(W.nodes[nb].keys) + Len(W.nodes[n].keys)
                  >= (IF W.nodes[n].leaf THEN order ELSE order - 1))
    PROVE  Deleting(Coalesce(W, l, d, k), K, R, i + 1, B)
<1> DEFINE N == W.nodes
           C == Coalesce(W, l, d, k)
           M == RemoveEntry(C.tree, C.n, C.key, C.ptr)
           F == M.nodes
<1>1. /\ Typed(W) /\ W.records = R /\ n \in DOMAIN N
      /\ \A m \in DOMAIN N \ {n} : Len(N[m].keys) \in 1 .. (order - 1)
      /\ Len(N[n].keys) \in 0 .. (order - 2)
      /\ HalfFull(N, DOMAIN N \ {W.root, n})
      /\ LeafKeys(N) = K
  BY DEF Lacking
<1>2. /\ q \in DOMAIN N /\ l \in DOMAIN N /\ d \in DOMAIN N /\ l # d /\ l # q /\ d # q
      /\ N[l].keys \in Seq(Keys) /\ N[d].keys \in Seq(Keys) /\ k \in Keys
      /\ N[d].leaf = N[l].leaf /\ N[l].parent = q /\ N[d].parent = q
  BY SiblingTypes
<1>3. Joins(W, C, M, q, j, l, d, k)
  BY <1>1, CoalesceJoins
<1> HIDE DEF C, M
<1>4. /\ C.n = q
      /\ Typed(M) /\ M.root = W.root /\ M.records = W.records
      /\ Divided(F, N, l, d, q, j, k)
      /\ Len(F[q].keys) = Len(N[q].keys) - 1
      /\ F[l].keys = (N[l].keys \o (IF N[l].leaf THEN <<>> ELSE <<k>>)) \o N[d].keys
  BY <1>3 DEF Joins
<1>5. /\ d \notin DOMAIN F /\ DOMAIN N = DOMAIN F \cup {d} /\ q \in DOMAIN F /\ l \in DOMAIN F
      /\ F[l].leaf = N[l].leaf /\ F[q].leaf = N[q].leaf
      /\ \A m \in DOMAIN F \ {l, q} : N[m].leaf = F[m].leaf /\ N[m].keys = F[m].keys
  BY <1>4 DEF Divided, PartsDivided, ParentEntered
<1>6. Shape(F, W.root, Restrict(dep, DOMAIN F), H, Restrict(low, DOMAIN F),
            Joined(high, F, l, d))
  <2>1. k \in Nat \ {0} /\ NodesTyped(F)
    BY <1>2, <1>4, KeysAreNumbers DEF Typed
  <2> QED
    BY <1>4, <2>1, MergeShape
<1>7. LeafKeys(F) = K
  <2>1. NodesTyped(N)
    BY <1>1 DEF Typed
  <2> QED
    BY <1>1, <1>4, <2>1, DivideKeys
<1>8. q # Null /\ l # W.root /\ d # W.root
  <2>1. q # Null
    BY <1>1, <1>2 DEF Typed, NodesTyped, Null
  <2>2. N[W.root].parent = Null
    BY DEF Shape, Rooted
  <2> QED
    BY <1>2, <2>1, <2>2
<1>9. nb \in DOMAIN N /\ nb # n /\ nb # q /\ n # q /\ N[nb].leaf = N[n].leaf /\ nb # W.root
      /\ N[l].leaf = N[n].leaf
  BY <1>2, <1>8
<1>10. Len(F[l].keys) \in 1 .. (order - 1) /\ Len(F[l].keys) >= MinKeys(F[l])
  <2> DEFINE a == Len(N[n].keys)
             b == Len(N[nb].keys)
             c == Len(F[l].keys)
             least == MinKeys(F[l])
             o == order
  <2>1. MinKeys(N[nb]) = least
    BY <1>5, <1>9 DEF MinKeys
  <2>2. least \in 1 .. (o - 1)
    BY MinimumKeys
  <2>3. o \in 3 .. 20
    BY HalvesFit
  <2>4. b >= least /\ b \in 1 .. (o - 1)
    BY <1>1, <1>9, <2>1 DEF HalfFull
  <2>5. a \in 0 .. (o - 2)
    BY <1>1
  <2>6. N[l].leaf => c = Len(N[l].keys) + Len(N[d].keys)
    BY <1>2, <1>4, JoinedLength
  <2>7. ~ N[l].leaf => c = Len(N[l].keys) + Len(N[d].keys) + 1
    BY <1>2, <1>4, JoinedLength
  <2>8. Len(N[l].keys) + Len(N[d].keys) = a + b
    <3>1. CASE n = l /\ nb = d
      BY <3>1
    <3>2. CASE n = d /\ nb = l
      <4>1. Len(N[l].keys) = b /\ Len(N[d].keys) = a
        BY <3>2
      <4> HIDE DEF a, b
      <4> QED
        BY <2>4, <2>5, <4>1
    <3> QED
      BY <3>1, <3>2
  <2>9. N[l].leaf => c = a + b /\ ~ (b + a >= o)
    BY <1>9, <2>6, <2>8
  <2>10. ~ N[l].leaf => c = a + b + 1 /\ ~ (b + a >= o - 1)
    BY <1>9, <2>7, <2>8
  <2> HIDE DEF a, b, c, least, o
  <2>11. a \in Nat /\ b \in Nat /\ least \in Nat /\ o \in Nat /\ least >= 1
    BY <2>2, <2>3, <2>4, <2>5
  <2>12. c \in Nat
    BY <2>9, <2>10, <2>11
  <2>13. c \in 1 .. (o - 1) /\ c >= least
    BY <2>4, <2>9, <2>10, <2>11, <2>12, MergedFits
  <2> QED
    BY <2>13 DEF c, least, o
<1>11. Len(N[q].keys) \in 1 .. (order - 1) /\ order \in 3 .. 20
  BY <1>1, <1>2, <1>9, HalvesFit
<1>12. Lacking(M, q, K, R, i + 1, B)
  <2>1. \A m \in DOMAIN F \ {q} : Len(F[m].keys) \in 1 .. (order - 1)
    <3>1. ASSUME NEW m \in DOMAIN F \ {q, l} PROVE Len(F[m].keys) \in 1 .. (order - 1)
      <4>1. m \in DOMAIN N \ {n} /\ N[m].keys = F[m].keys
        BY <1>5, <1>9
      <4> QED
        BY <1>1, <4>1
    <3> QED
      BY <1>10, <3>1
  <2>2. Len(F[q].keys) \in 0 .. (order - 2)
    <3> DEFINE x == Len(F[q].keys)
               y == Len(N[q].keys)
               o == order
    <3>1. x = y - 1 /\ y \in 1 .. (o - 1) /\ o \in 3 .. 20
      BY <1>4, <1>11
    <3> HIDE DEF x, y, o
    <3>2. x \in 0 .. (o - 2)
      BY <3>1
    <3> QED
      BY <3>2 DEF x, o
  <2>3. HalfFull(F, DOMAIN F \ {M.root, q})
    <3>1. ASSUME NEW m \in DOMAIN F \ {M.root, q, l} PROVE Len(F[m].keys) >= MinKeys(F[m])
      <4>1. m \in DOMAIN N \ {W.root, n} /\ N[m].keys = F[m].keys /\ N[m].leaf = F[m].leaf
        BY <1>4, <1>5, <1>9
      <4>2. Len(N[m].keys) >= MinKeys(N[m])
        BY <1>1, <4>1 DEF HalfFull
      <4> QED
        BY <4>1, <4>2 DEF MinKeys
    <3> QED
      BY <1>10, <3>1 DEF HalfFull
  <2>4. q # M.root => Len(F[q].keys) + 1 >= MinKeys(F[q])
    <3> HAVE q # M.root
    <3>1. Len(N[q].keys) >= MinKeys(N[q])
      BY <1>1, <1>2, <1>4, <1>9 DEF HalfFull
    <3>2. MinKeys(N[q]) = MinKeys(F[q])
      BY <1>5 DEF MinKeys
    <3>3. Len(F[q].keys) + 1 = Len(N[q].keys)
      BY <1>4, <1>11
    <3> QED
      BY <3>1, <3>2, <3>3
  <2>5. Restrict(dep, DOMAIN F)[q] + (i + 1) <= H
    <3>1. Restrict(dep, DOMAIN F)[q] = dep[q]
      BY <1>5 DEF Restrict
    <3>2. dep[n] = dep[q] + 1
      BY DEF Beside
    <3>3. dep[q] \in Nat /\ H \in Nat
      BY <1>2, DepthWithinHeight
    <3> QED
      BY <3>1, <3>2, <3>3
  <2>6. \E dep2, H2, low2, high2 :
           Shape(F, M.root, dep2, H2, low2, high2) /\ dep2[q] + (i + 1) <= H2 /\ H2 < B
    BY <1>4, <1>6, <2>5
  <2> QED
    BY <1>1, <1>4, <1>5, <1>7, <2>1, <2>2, <2>3, <2>4, <2>6 DEF Lacking
<1>13. Deleting(C, K, R, i + 1, B)
  BY <1>4, <1>8, <1>12 DEF Deleting, M
<1> QED
  BY <1>13 DEF C

\* adjust_root(): a root without keys makes way for its only child, and without
\* a child for the empty tree.
LEMMA RootAdjusted ==
    ASSUME order \in Orders, NEW W, NEW n, NEW K, NEW R, NEW i, NEW B,
           Lacking(W, n, K, R, i, B), n = W.root
    PROVE  Sound(AdjustRoot(W), K, R) \/ Emptied(AdjustRoot(W), K, R)
<1> DEFINE N == W.nodes
           r == W.root
           c == N[r]
           A == AdjustRoot(W)
           Y == [W EXCEPT !.nodes = Free(@, r)]
<1>1. /\ Typed(W) /\ W.records = R /\ r \in DOMAIN N
      /\ \A m \in DOMAIN N \ {r} : Len(N[m].keys) \in 1 .. (order - 1)
      /\ Len(c.keys) \in 0 .. (order - 2)
      /\ HalfFull(N, DOMAIN N \ {r})
      /\ LeafKeys(N) = K
  BY DEF Lacking
<1>2. PICK dep, H, low, high : Shape(N, r, dep, H, low, high)
  BY DEF Lacking
<1>3. c.keys \in Seq(Keys) /\ c.ptrs \in Seq(Nat) /\ c.leaf \in BOOLEAN
  <2>1. NodesTyped(N)
    BY <1>1 DEF Typed
  <2> QED
    BY <1>1, <2>1, TypesOfNodes
<1>4. CASE c.keys # <<>>
  <2>1. A = W
    BY <1>4 DEF AdjustRoot
  <2>2. Len(c.keys) # 0
    BY <1>3, <1>4, EmptySeq
  <2>3. Len(c.keys) \in 1 .. (order - 1)
    <3>1. order \in 3 .. 20
      BY HalvesFit
    <3> DEFINE x == Len(c.keys)
               o == order
    <3>2. x \in 0 .. (o - 2) /\ x # 0 /\ o \in 3 .. 20
      BY <1>1, <2>2, <3>1
    <3> HIDE DEF x, o
    <3>3. x \in 1 .. (o - 1)
      BY <3>2
    <3> QED
      BY <3>3 DEF x, o
  <2>4. Fits(N)
    BY <1>1, <2>3 DEF Fits
  <2>5. TreeShaped(W)
    BY <1>2 DEF TreeShaped
  <2>6. Sound(W, K, R)
    BY <1>1, <2>4, <2>5 DEF Sound
  <2> QED
    BY <2>1, <2>6
<1>5. /\ Typed(Y) /\ Y.root = r /\ Y.records = R
      /\ DOMAIN Y.nodes = DOMAIN N \ {r}
      /\ \A m \in DOMAIN N \ {r} : Y.nodes[m] = N[m]
  BY <1>1, FreedMakes
<1>6. CASE c.keys = <<>> /\ c.leaf
  <2> DEFINE Z == [Y EXCEPT !.root = Null]
  <2>1. A = Z
    BY <1>6 DEF AdjustRoot
  <2> HIDE DEF Y, A
  <2>2. Typed(Z) /\ Z.root = Null /\ Z.nodes = Y.nodes /\ Z.records = Y.records
    BY <1>5, RootedMakes
  <2>3. DOMAIN N = {r}
    BY <1>2, <1>6, LeafRootAlone
  <2>4. Z.nodes = EmptyHeap
    <3>1. DOMAIN Z.nodes = {} /\ Z.nodes \in [DOMAIN Z.nodes -> Nodes]
      BY <1>5, <2>2, <2>3 DEF Typed, NodesTyped
    <3> QED
      BY <3>1 DEF EmptyHeap
  <2>5. K = {}
    <3>1. ToSet(c.keys) = {}
      BY <1>6, NoKeys
    <3> QED
      BY <1>1, <2>3, <3>1 DEF LeafKeys
  <2>6. Z = [root |-> Null, nodes |-> EmptyHeap, records |-> R]
    BY <1>5, <2>2, <2>4 DEF Typed, IsTree
  <2> QED
    BY <2>1, <2>5, <2>6 DEF Emptied, A
<1>7. CASE c.keys = <<>> /\ ~ c.leaf
  <2> DEFINE ch == c.ptrs[1]
             X == Adopt(Y, Null, {ch})
             Z == [X EXCEPT !.root = ch]
             U == Z.nodes
  <2>1. A = Z
    BY <1>7 DEF AdjustRoot
  <2>2. Len(c.ptrs) = 1 /\ c.next = Null /\ c.parent = Null
    <3>1. Len(c.ptrs) = Len(c.keys) + 1 /\ c.next = Null
      BY <1>1, <1>2, <1>7 DEF Shape, InnerShaped
    <3>2. Len(c.keys) = 0
      BY <1>7
    <3> QED
      BY <1>2, <3>1, <3>2 DEF Shape, Rooted
  <2>3. c.ptrs = <<ch>>
    BY <1>3, <2>2
  <2>4. ch \in ToSet(c.ptrs) /\ ch \in Nat
    BY <1>3, <2>2, ElementsInSet
  <2>5. ch \in DOMAIN N /\ ch # r /\ N[ch].parent = r
    BY <1>1, <1>2, <1>7, <2>4, ChildrenOf
  <2> HIDE DEF Y, A, ch
  <2>6. /\ Typed(X) /\ X.root = Y.root /\ X.records = Y.records
        /\ DOMAIN X.nodes = DOMAIN Y.nodes
        /\ \A m \in DOMAIN Y.nodes :
              /\ X.nodes[m].leaf = Y.nodes[m].leaf /\ X.nodes[m].keys = Y.nodes[m].keys
              /\ X.nodes[m].ptrs = Y.nodes[m].ptrs /\ X.nodes[m].next = Y.nodes[m].next
              /\ m \in {ch} => X.nodes[m].parent = Null
              /\ m \notin {ch} => X.nodes[m].parent = Y.nodes[m].parent
    <3>1. Typed(Y) /\ Null \in Nat
      BY <1>5 DEF Null
    <3> QED
      BY <3>1, AdoptMakes
  <2> HIDE DEF X
  <2>7. Typed(Z) /\ Z.root = ch /\ U = X.nodes /\ Z.records = X.records
    BY <2>6, RootedMakes
  <2> HIDE DEF Z
  <2>8. DOMAIN U = DOMAIN N \ {r} /\ Z.records = R
    BY <1>5, <2>6, <2>7
  <2>9. \A m \in DOMAIN U : /\ U[m].leaf = N[m].leaf /\ U[m].keys = N[m].keys
                            /\ U[m].ptrs = N[m].ptrs /\ U[m].next = N[m].next
                            /\ m # ch => U[m].parent = N[m].parent
    BY <1>5, <2>6, <2>7
  <2>10. U[ch].parent = Null
    BY <1>5, <2>5, <2>6, <2>7
  <2>11. Raised(U, N, ch, r)
    BY <1>1, <1>3, <1>7, <2>2, <2>3, <2>5, <2>8, <2>9, <2>10 DEF Raised
  <2>12. NodesTyped(U)
    BY <2>7 DEF Typed
  <2>13. Shape(U, ch, [m \in DOMAIN U |-> dep[m] - 1], H - 1,
               Restrict(low, DOMAIN U), Restrict(high, DOMAIN U))
    BY <1>2, <2>11, <2>12, LowerShape
  <2>14. TreeShaped(Z)
    BY <2>7, <2>13 DEF TreeShaped
  <2>15. LeafKeys(U) = K
    BY <1>1, <2>11, RaiseKeys
  <2>16. Fits(U)
    BY <1>1, <2>8, <2>9 DEF Fits
  <2>17. HalfFull(U, DOMAIN U \ {Z.root})
    <3>1. \A m \in DOMAIN U : MinKeys(U[m]) = MinKeys(N[m])
      BY <2>9 DEF MinKeys
    <3> QED
      BY <1>1, <2>8, <2>9, <3>1 DEF HalfFull
  <2>18. Sound(Z, K, R)
    BY <2>7, <2>8, <2>14, <2>15, <2>16, <2>17 DEF Sound
  <2> QED
    BY <2>1, <2>18 DEF A
<1> QED
  BY <1>4, <1>6, <1>7

\* One call of delete_entry() ends the deletion or leaves one to be made on the
\* level above.
LEMMA DeleteStep ==
    ASSUME order \in Orders, NEW s, NEW K, NEW R, NEW i \in Nat, NEW B \in Nat,
           Deleting(s, K, R, i, B)
    PROVE  Deleting(DeleteOneUp(s), K, R, i + 1, B) \/ Ended(DeleteOneUp(s), K, R)
<1> DEFINE n == s.n
           W == RemoveEntry(s.tree, n, s.key, s.ptr)
           N == W.nodes
           q == N[n].parent
           e == Place(N[q].ptrs, n)
           p == IF e = 1 THEN 1 ELSE e - 1
           nb == IF e = 1 THEN N[q].ptrs[2] ELSE N[q].ptrs[p]
           k == N[q].keys[p]
           capacity == IF N[n].leaf THEN order ELSE order - 1
           next == DeleteOneUp(s)
<1>1. n # Null /\ Lacking(W, n, K, R, i, B)
  BY DEF Deleting
<1>2. next = IF n = W.root THEN Deleted(AdjustRoot(W))
             ELSE IF Len(N[n].keys) >= MinKeys(N[n]) THEN Deleted(W)
             ELSE IF Len(N[nb].keys) + Len(N[n].keys) >= capacity
             THEN Deleted(Redistribute(W, n, nb, e = 1, p, k))
             ELSE IF e = 1 THEN Coalesce(W, n, nb, k) ELSE Coalesce(W, nb, n, k)
  BY <1>1 DEF DeleteOneUp
<1> HIDE DEF n, W, next
<1>3. \A U : Deleted(U).n = Null /\ Deleted(U).tree = U
  BY DEF Deleted, Deletion
<1>4. CASE n = W.root
  <2>1. Sound(AdjustRoot(W), K, R) \/ Emptied(AdjustRoot(W), K, R)
    BY <1>1, <1>4, RootAdjusted
  <2>2. next = Deleted(AdjustRoot(W))
    BY <1>2, <1>4
  <2>3. Ended(next, K, R)
    BY <1>3, <2>1, <2>2 DEF Ended
  <2> QED
    BY <2>3 DEF next
<1>5. CASE n # W.root /\ Len(N[n].keys) >= MinKeys(N[n])
  <2>1. Sound(W, K, R)
    BY <1>1, <1>5, EnoughKeys
  <2>2. next = Deleted(W)
    BY <1>2, <1>5
  <2>3. Ended(next, K, R)
    BY <1>3, <2>1, <2>2 DEF Ended
  <2> QED
    BY <2>3 DEF next
<1>6. CASE n # W.root /\ ~ (Len(N[n].keys) >= MinKeys(N[n]))
  <2>1. PICK dep, H, low, high :
           Shape(N, W.root, dep, H, low, high) /\ dep[n] + i <= H /\ H < B
    BY <1>1 DEF Lacking
  <2>2. n \in DOMAIN N /\ Typed(W)
        /\ \A m \in DOMAIN N \ {n} : Len(N[m].keys) \in 1 .. (order - 1)
        /\ Len(N[n].keys) + 1 >= MinKeys(N[n])
    BY <1>1, <1>6 DEF Lacking
  <2>3. q \in DOMAIN N /\ q # n
    <3>1. q \in DOMAIN N /\ dep[n] = dep[q] + 1
      BY <1>6, <2>1, <2>2, ParentCovers
    <3>2. dep[q] \in Nat
      BY <2>1, <3>1, DepthWithinHeight
    <3> QED
      BY <3>1, <3>2
  <2>4. Len(N[q].keys) >= 1
    BY <2>2, <2>3
  <2>5. /\ e = 1 => Beside(N, dep, low, high, q, p, n, nb, k)
        /\ e # 1 => Beside(N, dep, low, high, q, p, nb, n, k)
    BY <1>6, <2>1, <2>2, <2>4, NeighborsOf
  <2> HIDE DEF q, e, p, nb, k
  <2>6. nb \in DOMAIN N /\ nb # n /\ N[nb].leaf = N[n].leaf
    BY <2>5 DEF Beside
  <2>7. CASE Len(N[nb].keys) + Len(N[n].keys) >= capacity
    <3>1. next = Deleted(Redistribute(W, n, nb, e = 1, p, k))
      BY <1>2, <1>6, <2>7
    <3>2. Len(N[nb].keys) >= 1 /\ (N[nb].leaf => Len(N[nb].keys) >= 2)
      <4> DEFINE a == Len(N[n].keys)
                 b == Len(N[nb].keys)
                 least == MinKeys(N[n])
                 o == order
      <4>1. least \in 1 .. (o - 1) /\ (N[n].leaf => o - least >= least)
        BY MinimumKeys
      <4>2. o \in 3 .. 20
        BY HalvesFit
      <4>3. b \in 1 .. (o - 1)
        BY <2>2, <2>6
      <4>4. N[n].leaf => b + a >= o
        BY <2>7
      <4>5. a \in 0 .. (o - 2) /\ ~ (a >= least)
        BY <1>1, <1>6 DEF Lacking
      <4> HIDE DEF a, b, least, o
      <4>6. b >= 1
        BY <4>2, <4>3
      <4>7. N[n].leaf => b >= 2
        <5> HAVE N[n].leaf
        <5>1. b + a >= o /\ o - least >= least
          BY <4>1, <4>4
        <5> QED
          BY <4>1, <4>2, <4>3, <4>5, <5>1
      <4> QED
        BY <2>6, <4>6, <4>7 DEF b
    <3>3. CASE e = 1
      <4>1. Redistribute(W, n, nb, e = 1, p, k) = Redistribute(W, n, nb, TRUE, p, k)
        <5>1. (e = 1) = TRUE
          BY <3>3
        <5> QED
          BY <5>1
      <4> DEFINE V == Redistribute(W, n, nb, TRUE, p, k)
      <4>2. Beside(N, dep, low, high, q, p, n, nb, k)
        BY <2>5, <3>3
      <4>3. Evened(W, V, q, p, n, nb, k, n, nb)
        <5>1. Len(N[nb].keys) >= 1 /\ (N[n].leaf => Len(N[nb].keys) >= 2)
          BY <2>6, <3>2
        <5> QED
          BY <2>1, <2>2, <4>2, <5>1, EvenedFromRight
      <4> HIDE DEF V
      <4>4. Sound(V, K, R)
        BY <1>1, <1>6, <2>1, <2>7, <4>2, <4>3, EvenedSound
      <4>5. Ended(next, K, R)
        BY <1>3, <3>1, <4>1, <4>4 DEF Ended, V
      <4> QED
        BY <4>5 DEF next
    <3>4. CASE e # 1
      <4>1. Redistribute(W, n, nb, e = 1, p, k) = Redistribute(W, n, nb, FALSE, p, k)
        <5>1. (e = 1) = FALSE
          BY <3>4
        <5> QED
          BY <5>1
      <4> DEFINE V == Redistribute(W, n, nb, FALSE, p, k)
      <4>2. Beside(N, dep, low, high, q, p, nb, n, k)
        BY <2>5, <3>4
      <4>3. Evened(W, V, q, p, nb, n, k, n, nb)
        BY <2>1, <2>2, <3>2, <4>2, EvenedFromLeft
      <4> HIDE DEF V
      <4>4. Sound(V, K, R)
        BY <1>1, <1>6, <2>1, <2>7, <4>2, <4>3, EvenedSound
      <4>5. Ended(next, K, R)
        BY <1>3, <3>1, <4>1, <4>4 DEF Ended, V
      <4> QED
        BY <4>5 DEF next
    <3> QED
      BY <3>3, <3>4
  <2>8. CASE ~ (Len(N[nb].keys) + Len(N[n].keys) >= capacity)
    <3>1. CASE e = 1
      <4>1. next = Coalesce(W, n, nb, k)
        BY <1>2, <1>6, <2>8, <3>1
      <4>2. Beside(N, dep, low, high, q, p, n, nb, k)
        BY <2>5, <3>1
      <4>3. Deleting(Coalesce(W, n, nb, k), K, R, i + 1, B)
        BY <1>1, <1>6, <2>1, <2>8, <4>2, CoalescedLacking
      <4> QED
        BY <4>1, <4>3 DEF next
    <3>2. CASE e # 1
      <4>1. next = Coalesce(W, nb, n, k)
        BY <1>2, <1>6, <2>8, <3>2
      <4>2. Beside(N, dep, low, high, q, p, nb, n, k)
        BY <2>5, <3>2
      <4>3. Deleting(Coalesce(W, nb, n, k), K, R, i + 1, B)
        BY <1>1, <1>6, <2>1, <2>8, <4>2, CoalescedLacking
      <4> QED
        BY <4>1, <4>3 DEF next
    <3> QED
      BY <3>1, <3>2
  <2> QED
    BY <2>7, <2>8
<1> QED
  BY <1>4, <1>5, <1>6

\* The calls of delete_entry(), one after the other.
DeleteCalls(f, c, B) == f = [i \in 0 .. B |-> IF i = 0 THEN c ELSE DeleteOneUp(f[i - 1])]

LEMMA DeleteCallsDefined ==
    ASSUME NEW c
    PROVE  \A B \in Nat : \E f : DeleteCalls(f, c, B)
<1> DEFINE Bad == {B \in Nat : ~ \E f : DeleteCalls(f, c, B)}
<1>1. SUFFICES ASSUME Bad # {}
               PROVE  FALSE
  OBVIOUS
<1>2. PICK B \in Bad : \A e \in Bad : B <= e
  <2>1. Bad \subseteq Nat
    OBVIOUS
  <2> HIDE DEF Bad
  <2> QED
    BY <1>1, <2>1, LeastElement
<1>3. B \in Nat /\ ~ \E f : DeleteCalls(f, c, B)
  OBVIOUS
<1>4. CASE B = 0
  <2> DEFINE f == [i \in 0 .. 0 |-> c]
  <2>1. \A i \in 0 .. 0 : i = 0
    OBVIOUS
  <2>2. f = [i \in 0 .. 0 |-> IF i = 0 THEN c ELSE DeleteOneUp(f[i - 1])]
    BY <2>1
  <2> QED
    BY <1>3, <1>4, <2>2 DEF DeleteCalls
<1>5. CASE B # 0
  <2>1. B - 1 \in Nat /\ ~ (B <= B - 1)
    BY <1>3, <1>5
  <2>2. PICK g : DeleteCalls(g, c, B - 1)
    BY <1>2, <2>1
  <2> DEFINE f == [i \in 0 .. B |-> IF i = B THEN DeleteOneUp(g[B - 1]) ELSE g[i]]
  <2>3. \A i \in 0 .. (B - 1) : g[i] = IF i = 0 THEN c ELSE DeleteOneUp(g[i - 1])
    BY <2>2 DEF DeleteCalls
  <2>4. \A i \in 0 .. (B - 1) : f[i] = g[i]
    BY <1>3
  <2>5. f[B] = DeleteOneUp(g[B - 1])
    BY <1>3
  <2>6. DOMAIN f = 0 .. B /\ f = [i \in 0 .. B |-> f[i]]
    OBVIOUS
  <2> HIDE DEF f
  <2>7. \A i \in 0 .. B : f[i] = IF i = 0 THEN c ELSE DeleteOneUp(f[i - 1])
    <3> TAKE i \in 0 .. B
    <3>1. CASE i = B
      <4>1. B - 1 \in 0 .. (B - 1)
        BY <2>1
      <4> QED
        BY <1>5, <2>4, <2>5, <3>1, <4>1
    <3>2. CASE i # B /\ i # 0
      <4>1. i \in 0 .. (B - 1) /\ i - 1 \in 0 .. (B - 1)
        BY <1>3, <3>2
      <4> QED
        BY <2>3, <2>4, <3>2, <4>1
    <3>3. CASE i = 0 /\ i # B
      <4>1. i \in 0 .. (B - 1)
        BY <1>3, <3>3
      <4> QED
        BY <2>3, <2>4, <3>3, <4>1
    <3> QED
      BY <3>1, <3>2, <3>3
  <2>8. f = [i \in 0 .. B |-> IF i = 0 THEN c ELSE DeleteOneUp(f[i - 1])]
    BY <2>6, <2>7
  <2> QED
    BY <1>3, <2>8 DEF DeleteCalls
<1> QED
  BY <1>4, <1>5

\* There are calls enough: one after the last would be above the root.
LEMMA DeleteParents ==
    ASSUME order \in Orders, NEW T, NEW n, NEW key, NEW ptr, NEW K, NEW R,
           IsFiniteSet(DOMAIN T.nodes),
           Deleting(Deletion(T, n, key, ptr), K, R, 0, Cardinality(DOMAIN T.nodes))
    PROVE  \/ Sound(DeleteEntry(T, n, key, ptr), K, R)
           \/ Emptied(DeleteEntry(T, n, key, ptr), K, R)
<1> DEFINE B == Cardinality(DOMAIN T.nodes)
           c == Deletion(T, n, key, ptr)
           f == CHOOSE g : DeleteCalls(g, c, B)
<1>1. B \in Nat
  BY FS_CardinalityType
<1>2. DeleteEntry(T, n, key, ptr) = f[B].tree
  BY DEF DeleteEntry, DeleteCalls
<1> HIDE DEF B, c
<1>3. DeleteCalls(f, c, B)
  BY <1>1, DeleteCallsDefined
<1> HIDE DEF f
<1> DEFINE Good(i) == Deleting(f[i], K, R, i, B) \/ Ended(f[i], K, R)
           Bad == {i \in 0 .. B : ~ Good(i)}
<1>4. Good(0)
  <2>1. f[0] = c
    BY <1>1, <1>3 DEF DeleteCalls
  <2> QED
    BY <2>1 DEF B, c
<1>5. ASSUME NEW i \in Nat, i + 1 \in 0 .. B, Good(i)
      PROVE  Good(i + 1)
  <2>1. f[i + 1] = DeleteOneUp(f[i])
    <3>1. i + 1 # 0 /\ (i + 1) - 1 = i
      OBVIOUS
    <3> QED
      BY <1>3, <1>5, <3>1 DEF DeleteCalls
  <2>2. CASE Deleting(f[i], K, R, i, B)
    BY <1>1, <2>1, <2>2, DeleteStep
  <2>3. CASE Ended(f[i], K, R)
    <3>1. DeleteOneUp(f[i]) = f[i]
      BY <2>3 DEF Ended, DeleteOneUp
    <3> QED
      BY <2>1, <2>3, <3>1
  <2> QED
    BY <1>5, <2>2, <2>3
<1>6. Bad = {}
  <2>1. SUFFICES ASSUME Bad # {}
                 PROVE  FALSE
    OBVIOUS
  <2>2. Bad \subseteq Nat
    BY <1>1
  <2>3. PICK j \in Bad : \A e \in Bad : j <= e
    <3> HIDE DEF Bad
    <3> QED
      BY <2>1, <2>2, LeastElement
  <2>4. j \in 0 .. B /\ ~ Good(j)
    OBVIOUS
  <2> HIDE DEF Good
  <2>5. j # 0
    BY <1>4, <2>4
  <2> DEFINE i == j - 1
  <2>6. i \in Nat /\ i + 1 = j /\ i \in 0 .. B /\ ~ (j <= i)
    BY <1>1, <2>4, <2>5
  <2> HIDE DEF i
  <2>7. Good(i)
    BY <2>3, <2>6
  <2> QED
    BY <1>5, <2>4, <2>6, <2>7
<1>7. Good(B)
  BY <1>1, <1>6
<1>8. ~ Deleting(f[B], K, R, B, B)
  <2> SUFFICES ASSUME Deleting(f[B], K, R, B, B)
               PROVE  FALSE
    OBVIOUS
  <2> DEFINE m == f[B].n
             W == RemoveEntry(f[B].tree, m, f[B].key, f[B].ptr)
  <2>1. Lacking(W, m, K, R, B, B)
    BY DEF Deleting
  <2> HIDE DEF W, m
  <2>2. PICK dep, H, low, high :
             Shape(W.nodes, W.root, dep, H, low, high) /\ dep[m] + B <= H /\ H < B
    BY <2>1 DEF Lacking
  <2>3. m \in DOMAIN W.nodes
    BY <2>1 DEF Lacking
  <2>4. dep[m] \in Nat /\ H \in Nat
    BY <2>2, <2>3, DepthWithinHeight
  <2> QED
    BY <1>1, <2>2, <2>4
<1> QED
  BY <1>2, <1>7, <1>8 DEF Ended

-----------------------------------------------------------------------------
(* Deletion from a leaf.                                                   *)

\* delete() removes the key from the one leaf that has it.
LEMMA LeaveLeaf ==
    ASSUME order \in Orders, NEW T, NEW K, NEW R, Sound(T, K, R),
           NEW key \in Keys, key \in K
    PROVE  Deleting(Deletion(T, FindLeaf(T, key), key, key), K \ {key}, R, 0,
                    Cardinality(DOMAIN T.nodes))
<1> DEFINE N == T.nodes
           r == T.root
           n == FindLeaf(T, key)
           c == N[n]
           s == c.keys
           a == Place(s, key)
           t == RemoveAt(s, a)
           W == WithEntries(T, n, t, t)
           F == W.nodes
           B == Cardinality(DOMAIN N)
<1>1. PICK dep, H, low, high : Shape(N, r, dep, H, low, high)
  BY DEF Sound, TreeShaped
<1>2. Typed(T) /\ NodesTyped(N) /\ LeafKeys(N) = K /\ T.records = R /\ Fits(N)
      /\ HalfFull(N, DOMAIN N \ {r})
  BY DEF Sound, Typed
<1>3. Keys \subseteq Nat /\ key \in Nat
  BY KeysAreNumbers
<1>4. n \in DOMAIN N /\ c.leaf = TRUE /\ Covers(low, high, n, key)
  <2>1. n \in DOMAIN N /\ c.leaf /\ Covers(low, high, n, key)
    BY <1>1, <1>3, FindLeafCovers
  <2> HIDE DEF n
  <2>2. c.leaf \in BOOLEAN
    BY <1>2, <2>1, TypesOfNodes
  <2> QED
    BY <2>1, <2>2
<1> HIDE DEF n, r
<1>5. s \in Seq(Keys) /\ s \in Seq(Nat) /\ c.ptrs = s
  <2>1. s \in Seq(Keys) /\ s \in Seq(Nat)
    BY <1>2, <1>4, TypesOfNodes
  <2>2. c.ptrs = s
    BY <1>1, <1>4 DEF Shape, LeavesShaped
  <2> QED
    BY <2>1, <2>2
<1>6. Increasing(s) /\ \A k \in ToSet(s) : Covers(low, high, n, k)
  BY <1>1, <1>4 DEF Shape, Ordered
<1>7. key \in ToSet(s)
  BY <1>1, <1>2, <1>3, <1>4, KeyInOneLeaf
<1>8. a \in 1 .. Len(s) /\ s[a] = key
  <2>1. PICK b \in 1 .. Len(s) : s[b] = key
    BY <1>5, <1>7, ElementsInSet
  <2>2. Place(s, s[b]) = b
    BY <1>5, <1>6, PlaceOfKey
  <2> QED
    BY <2>1, <2>2
<1>9. RemoveEntry(T, n, key, key) = W
  BY <1>5 DEF RemoveEntry
<1> HIDE DEF a, s
<1>10. t \in Seq(Keys) /\ Len(t) = Len(s) - 1
  BY <1>5, <1>8, RemoveAtProperties
<1>11. t \in Seq(Nat)
  BY <1>5, <1>8, RemoveAtProperties
<1>12. Increasing(t) /\ ToSet(t) = ToSet(s) \ {key}
  <2>1. Increasing(t) /\ ToSet(t) = ToSet(s) \ {s[a]}
    BY <1>5, <1>6, <1>8, RemoveIncreases
  <2> QED
    BY <1>8, <2>1
<1> HIDE DEF t, W
<1>13. /\ Typed(W) /\ W.root = T.root /\ W.records = T.records
       /\ DOMAIN F = DOMAIN N
       /\ F[n] = [leaf |-> c.leaf, keys |-> t, ptrs |-> t, parent |-> c.parent, next |-> c.next]
       /\ \A m \in DOMAIN N \ {n} : F[m] = N[m]
  BY <1>2, <1>4, <1>10, <1>11, WithEntriesMakes DEF W
<1>14. F[n].leaf = TRUE /\ F[n].keys = t /\ F[n].ptrs = t /\ F[n].parent = c.parent /\ F[n].next = c.next
  BY <1>4, <1>13
<1>15. LeafChanged(N, F, n) /\ NodesTyped(F)
  BY <1>4, <1>13, <1>14 DEF LeafChanged, Typed
<1>16. Increasing(F[n].keys) /\ \A k \in ToSet(F[n].keys) : Covers(low, high, n, k)
  BY <1>6, <1>12, <1>14
<1>17. Shape(F, r, dep, H, low, high)
  BY <1>1, <1>15, <1>16, LeafShape
<1>18. LeafKeys(F) = K \ {key}
  <2>1. LeafKeys(F) = (K \ ToSet(s)) \cup ToSet(F[n].keys)
    BY <1>1, <1>2, <1>15, <1>16, LeafChangeKeys DEF s
  <2>2. ToSet(s) \subseteq K
    BY <1>2, <1>4 DEF LeafKeys, s
  <2> QED
    BY <1>7, <1>12, <1>14, <2>1, <2>2
<1>19. Len(s) \in 1 .. (order - 1) /\ order \in 3 .. 20
  BY <1>2, <1>4, HalvesFit DEF Fits, s
<1>20. Len(F[n].keys) \in 0 .. (order - 2) /\ Len(F[n].keys) + 1 = Len(s)
  <2> DEFINE x == Len(t)
             y == Len(s)
             o == order
  <2>1. x = y - 1 /\ y \in 1 .. (o - 1) /\ o \in 3 .. 20
    BY <1>10, <1>19
  <2> HIDE DEF x, y, o
  <2>2. x \in 0 .. (o - 2) /\ x + 1 = y
    BY <2>1
  <2> QED
    BY <1>14, <2>2 DEF x, y, o
<1>21. n # W.root => Len(F[n].keys) + 1 >= MinKeys(F[n])
  <2> HAVE n # W.root
  <2>1. Len(s) >= MinKeys(N[n])
    BY <1>2, <1>4, <1>13 DEF HalfFull, s, r
  <2>2. MinKeys(F[n]) = MinKeys(N[n])
    BY <1>4, <1>14 DEF MinKeys
  <2> QED
    BY <1>20, <2>1, <2>2
<1>22. \A m \in DOMAIN F \ {n} : Len(F[m].keys) \in 1 .. (order - 1)
  BY <1>2, <1>13 DEF Fits
<1>23. HalfFull(F, DOMAIN F \ {W.root, n})
  BY <1>2, <1>13 DEF HalfFull, r
<1>24. dep[n] + 0 <= H /\ H < B
  <2>1. dep[n] \in Nat /\ dep[n] <= H /\ H \in Nat
    BY <1>1, <1>4, DepthWithinHeight
  <2>2. H < B
    BY <1>1, HeightBelowSize
  <2> QED
    BY <2>1, <2>2
<1>25. \E dep2, H2, low2, high2 :
          Shape(F, W.root, dep2, H2, low2, high2) /\ dep2[n] + 0 <= H2 /\ H2 < B
  BY <1>13, <1>17, <1>24 DEF r
<1> HIDE DEF B
<1>26. Lacking(W, n, K \ {key}, R, 0, B)
  BY <1>2, <1>4, <1>13, <1>18, <1>20, <1>21, <1>22, <1>23, <1>25 DEF Lacking
<1>27. n # Null
  BY <1>2, <1>4 DEF NodesTyped, Null
<1> DEFINE s0 == Deletion(T, n, key, key)
<1>28. s0.tree = T /\ s0.n = n /\ s0.key = key /\ s0.ptr = key
  BY DEF Deletion
<1> HIDE DEF s0
<1>29. Deleting(s0, K \ {key}, R, 0, B)
  BY <1>9, <1>26, <1>27, <1>28 DEF Deleting
<1> QED
  BY <1>29 DEF s0, n, B

\* Deletion takes a key out of a B+ tree.
LEMMA DeleteSound ==
    ASSUME order \in Orders, NEW T, NEW K, NEW R, Sound(T, K, R),
           NEW key \in Keys, key \in K
    PROVE  \/ Sound(DeleteEntry(T, FindLeaf(T, key), key, key), K \ {key}, R)
           \/ Emptied(DeleteEntry(T, FindLeaf(T, key), key, key), K \ {key}, R)
<1> DEFINE n == FindLeaf(T, key)
           D == DeleteEntry(T, n, key, key)
<1>1. Deleting(Deletion(T, n, key, key), K \ {key}, R, 0, Cardinality(DOMAIN T.nodes))
  BY LeaveLeaf
<1>2. IsFiniteSet(DOMAIN T.nodes)
  BY DEF Sound, Typed, NodesTyped
<1> HIDE DEF n
<1>3. Sound(D, K \ {key}, R) \/ Emptied(D, K \ {key}, R)
  BY <1>1, <1>2, DeleteParents
<1> QED
  BY <1>3 DEF n

-----------------------------------------------------------------------------
(* The commands.                                                           *)

\* What the records are.
Valued(R) ==
    /\ R \in [DOMAIN R -> Values]
    /\ DOMAIN R \subseteq Keys
    /\ IsFiniteSet(DOMAIN R)

\* A tree with a key for each record, or none.
Holds(T, R) == Sound(T, DOMAIN R, R) \/ Emptied(T, DOMAIN R, R)

\* The tree does not depend on what its records hold.
LEMMA OtherRecords ==
    ASSUME NEW T, NEW K, NEW R, Sound(T, K, R), NEW X
    PROVE  LET W == [T EXCEPT !.records = X] IN Sound(W, K, X) /\ W.nodes = T.nodes /\ W.root = T.root
<1> DEFINE W == [T EXCEPT !.records = X]
<1>1. /\ Typed(T) /\ TreeShaped(T) /\ LeafKeys(T.nodes) = K
      /\ Fits(T.nodes) /\ HalfFull(T.nodes, DOMAIN T.nodes \ {T.root})
  BY DEF Sound
<1>2. T = [root |-> T.root, nodes |-> T.nodes, records |-> T.records]
  BY <1>1 DEF Typed, IsTree
<1>3. W = [root |-> T.root, nodes |-> T.nodes, records |-> X]
  BY <1>2
<1> HIDE DEF W
<1>4. W.root = T.root /\ W.nodes = T.nodes /\ W.records = X
  BY <1>3
<1>5. Typed(W)
  BY <1>1, <1>3, <1>4 DEF Typed, IsTree
<1>6. TreeShaped(W)
  BY <1>1, <1>4 DEF TreeShaped
<1>7. Sound(W, K, X)
  BY <1>1, <1>4, <1>5, <1>6 DEF Sound
<1> QED
  BY <1>4, <1>7 DEF W

\* find() finds what is there and nothing else.
LEMMA FindHolds ==
    ASSUME NEW T, NEW R, Holds(T, R), NEW key \in Keys
    PROVE  Find(T, key) = IF key \in DOMAIN R THEN key ELSE Null
<1>1. CASE Sound(T, DOMAIN R, R)
  <2>1. PICK dep, H, low, high : Shape(T.nodes, T.root, dep, H, low, high)
    BY <1>1 DEF Sound, TreeShaped
  <2>2. LeafKeys(T.nodes) = DOMAIN R
    BY <1>1 DEF Sound
  <2>3. key \in Nat \ {0}
    BY KeysAreNumbers
  <2> QED
    BY <2>1, <2>2, <2>3, FindProperties
<1>2. CASE Emptied(T, DOMAIN R, R)
  <2>1. T.root = Null /\ DOMAIN R = {}
    BY <1>2 DEF Emptied
  <2> QED
    BY <2>1 DEF Find
<1> QED
  BY <1>1, <1>2 DEF Holds

LEMMA HeldRecords ==
    ASSUME NEW T, NEW R, Holds(T, R)
    PROVE  T.records = R /\ IsTree(T)
BY DEF Holds, Sound, Emptied, IsTree, Typed

\* A record is overwritten.
LEMMA OverwriteHolds ==
    ASSUME NEW T, NEW R, Valued(R), Holds(T, R), NEW key \in DOMAIN R, NEW value \in Values
    PROVE  LET W == [T EXCEPT !.records[key] = value] IN
           /\ W.records = Given(R, key, value)
           /\ Valued(W.records) /\ Holds(W, W.records)
<1> DEFINE W == [T EXCEPT !.records[key] = value]
           X == Given(R, key, value)
<1>1. Sound(T, DOMAIN R, R)
  BY DEF Holds, Emptied
<1>2. R \in [DOMAIN R -> Values] /\ DOMAIN R \subseteq Keys /\ IsFiniteSet(DOMAIN R)
  BY DEF Valued
<1>3. T.records = R /\ T = [root |-> T.root, nodes |-> T.nodes, records |-> T.records]
  BY HeldRecords DEF IsTree
<1>4. DOMAIN X = DOMAIN R /\ X \in [DOMAIN R -> Values]
  BY <1>2 DEF Given
<1>5. [R EXCEPT ![key] = value] = X
  BY <1>2 DEF Given
<1>6. W = [T EXCEPT !.records = X]
  BY <1>3, <1>5
<1> HIDE DEF W, X
<1>7. Sound(W, DOMAIN R, X)
  BY <1>1, <1>6, OtherRecords
<1>8. W.records = X
  BY <1>7 DEF Sound
<1>9. Valued(X) /\ Holds(W, X)
  BY <1>2, <1>4, <1>7 DEF Valued, Holds
<1> QED
  BY <1>8, <1>9 DEF W, X

\* What a new record makes of the records.
LEMMA GivenValued ==
    ASSUME NEW R, Valued(R), NEW key \in Keys, NEW value \in Values
    PROVE  Valued(Given(R, key, value)) /\ DOMAIN Given(R, key, value) = DOMAIN R \cup {key}
<1> DEFINE X == Given(R, key, value)
<1>1. DOMAIN X = DOMAIN R \cup {key} /\ X \in [DOMAIN R \cup {key} -> Values]
  BY DEF Given, Valued
<1>2. IsFiniteSet(DOMAIN R \cup {key})
  BY FS_AddElement DEF Valued
<1> QED
  BY <1>1, <1>2 DEF Valued

\* insert() puts a record into the tree.
LEMMA InsertHolds ==
    ASSUME order \in Orders, NEW T, NEW R, Valued(R), Holds(T, R),
           NEW key \in Keys, key \notin DOMAIN R, NEW value \in Values
    PROVE  LET W == InsertRecord(MakeRecord(T, key, value), key) IN
           /\ W.records = Given(R, key, value)
           /\ Valued(W.records) /\ Holds(W, W.records)
<1> DEFINE X == Given(R, key, value)
           M == MakeRecord(T, key, value)
           W == InsertRecord(M, key)
<1>1. T.records = R /\ T = [root |-> T.root, nodes |-> T.nodes, records |-> T.records]
  BY HeldRecords DEF IsTree
<1>2. M = [T EXCEPT !.records = X]
  BY <1>1 DEF MakeRecord
<1>3. Valued(X) /\ DOMAIN X = DOMAIN R \cup {key}
  BY GivenValued
<1> HIDE DEF X, M
<1>4. Sound(W, DOMAIN X, X)
  <2>1. CASE Sound(T, DOMAIN R, R)
    <3>1. Sound(M, DOMAIN R, X)
      BY <1>2, <2>1, OtherRecords
    <3>2. Sound(W, DOMAIN R \cup {key}, X)
      BY <3>1, InsertSound
    <3> QED
      BY <1>3, <3>2
  <2>2. CASE Emptied(T, DOMAIN R, R)
    <3>1. T = [root |-> Null, nodes |-> EmptyHeap, records |-> R] /\ DOMAIN R = {}
      BY <2>2 DEF Emptied
    <3>2. M = [root |-> Null, nodes |-> EmptyHeap, records |-> X]
      BY <1>2, <3>1
    <3>3. W = StartNewTree(M, key, key)
      BY <3>2 DEF InsertRecord
    <3> HIDE DEF W
    <3>4. Sound(W, {key}, X)
      BY <3>2, <3>3, StartSound
    <3> QED
      BY <1>3, <3>1, <3>4
  <2> QED
    BY <2>1, <2>2 DEF Holds
<1> HIDE DEF W
<1>5. W.records = X
  BY <1>4 DEF Sound
<1>6. Holds(W, X)
  BY <1>4 DEF Holds
<1>7. W.records = X /\ Valued(W.records) /\ Holds(W, W.records)
  BY <1>3, <1>5, <1>6
<1> QED
  BY <1>7 DEF W, X, M

\* delete() takes a record out of the tree.
LEMMA DeleteHolds ==
    ASSUME order \in Orders, NEW T, NEW R, Valued(R), Holds(T, R), NEW key \in DOMAIN R
    PROVE  LET W == [DeleteEntry(T, FindLeaf(T, key), key, key) EXCEPT !.records = Free(@, key)] IN
           /\ W.records = Free(R, key)
           /\ Valued(W.records) /\ Holds(W, W.records)
<1> DEFINE X == Free(R, key)
           D == DeleteEntry(T, FindLeaf(T, key), key, key)
           W == [D EXCEPT !.records = Free(@, key)]
           Y == [D EXCEPT !.records = X]
<1>1. Sound(T, DOMAIN R, R)
  BY DEF Holds, Emptied
<1>2. R \in [DOMAIN R -> Values] /\ DOMAIN R \subseteq Keys /\ IsFiniteSet(DOMAIN R) /\ key \in Keys
  BY DEF Valued
<1>3. Sound(D, DOMAIN R \ {key}, R) \/ Emptied(D, DOMAIN R \ {key}, R)
  BY <1>1, <1>2, DeleteSound
<1> HIDE DEF D
<1>4. D.records = R
  BY <1>3 DEF Sound, Emptied
<1>5. W = Y
  BY <1>4
<1>6. DOMAIN X = DOMAIN R \ {key} /\ X \in [DOMAIN R \ {key} -> Values]
  BY <1>2 DEF Free
<1>7. IsFiniteSet(DOMAIN R \ {key})
  BY <1>2, FS_RemoveElement
<1>8. Valued(X)
  BY <1>2, <1>6, <1>7 DEF Valued
<1> HIDE DEF X
<1>9. Sound(Y, DOMAIN X, X) \/ Emptied(Y, DOMAIN X, X)
  <2>1. CASE Sound(D, DOMAIN R \ {key}, R)
    <3>1. Sound(Y, DOMAIN R \ {key}, X)
      BY <2>1, OtherRecords
    <3> QED
      BY <1>6, <3>1
  <2>2. CASE Emptied(D, DOMAIN R \ {key}, R)
    <3>1. D = [root |-> Null, nodes |-> EmptyHeap, records |-> R] /\ DOMAIN R \ {key} = {}
      BY <2>2 DEF Emptied
    <3>2. Y = [root |-> Null, nodes |-> EmptyHeap, records |-> X]
      BY <3>1
    <3> HIDE DEF Y
    <3> QED
      BY <1>6, <3>1, <3>2 DEF Emptied
  <2> QED
    BY <1>3, <2>1, <2>2
<1> HIDE DEF Y, W
<1>10. Y.records = X
  BY <1>9 DEF Sound, Emptied
<1>11. W.records = X /\ Valued(W.records) /\ Holds(W, W.records)
  BY <1>5, <1>8, <1>9, <1>10 DEF Holds
<1> QED
  BY <1>11 DEF W, D, X

\* destroy_tree() leaves nothing behind.
LEMMA DestroyEmpties ==
    ASSUME NEW T, NEW R, Valued(R), Holds(T, R), T.root # Null
    PROVE  Destroyed(T) = EmptyTree
<1> DEFINE N == T.nodes
           reached == Subtrees(T)[T.root]
           named == UNION {ToSet(N[n].ptrs) : n \in {m \in reached : N[m].leaf}}
           W == Destroyed(T)
<1>1. Sound(T, DOMAIN R, R)
  BY DEF Holds, Emptied
<1>2. PICK dep, H, low, high : Shape(N, T.root, dep, H, low, high)
  BY <1>1 DEF Sound, TreeShaped
<1>3. reached = DOMAIN N
  BY <1>2, SubtreeProperties
<1>4. named = DOMAIN R
  <2>1. \A n \in DOMAIN N : N[n].leaf => N[n].ptrs = N[n].keys
    BY <1>2 DEF Shape, LeavesShaped
  <2>2. LeafKeys(N) = DOMAIN R
    BY <1>1 DEF Sound
  <2>3. UNION {ToSet(N[n].ptrs) : n \in {m \in DOMAIN N : N[m].leaf}} = LeafKeys(N)
    BY <2>1 DEF LeafKeys
  <2> QED
    BY <1>3, <2>2, <2>3
<1>5. T.records = R
  BY HeldRecords
<1>6. W = [root |-> Null, nodes |-> [n \in DOMAIN N \ reached |-> N[n]],
           records |-> [p \in DOMAIN T.records \ named |-> T.records[p]]]
  BY DEF Destroyed
<1> HIDE DEF W, reached, named
<1>7. [n \in DOMAIN N \ reached |-> N[n]] = EmptyHeap
  <2>1. DOMAIN N \ reached = {}
    BY <1>3
  <2> QED
    BY <2>1 DEF EmptyHeap
<1>8. [p \in DOMAIN T.records \ named |-> T.records[p]] = EmptyHeap
  <2>1. DOMAIN T.records \ named = {}
    BY <1>4, <1>5
  <2> QED
    BY <2>1 DEF EmptyHeap
<1>9. W = EmptyTree
  BY <1>6, <1>7, <1>8 DEF EmptyTree
<1> QED
  BY <1>9 DEF W

LEMMA EmptyHolds ==
    Valued(EmptyTree.records) /\ Holds(EmptyTree, EmptyTree.records) /\ EmptyTree.records = EmptyHeap
<1>1. EmptyTree.records = EmptyHeap
  BY DEF EmptyTree
<1>2. DOMAIN EmptyHeap = {} /\ EmptyHeap \in [{} -> Values]
  BY DEF EmptyHeap
<1>3. IsFiniteSet({})
  BY FS_EmptySet
<1>4. Valued(EmptyHeap)
  BY <1>2, <1>3 DEF Valued
<1>5. Emptied(EmptyTree, DOMAIN EmptyHeap, EmptyHeap)
  BY <1>2 DEF Emptied, EmptyTree
<1> QED
  BY <1>1, <1>4, <1>5 DEF Holds

-----------------------------------------------------------------------------
(* The invariant.                                                          *)

\* The inductive invariant of both programs.
Kept ==
    /\ order \in Orders
    /\ Valued(tree.records)
    /\ Holds(tree, tree.records)

\* The search does not look at records.
LeafUnder(N, key) ==
    LET below[n \in DOMAIN N] ==
            LET c == N[n]
            IN  IF c.leaf THEN n ELSE below[c.ptrs[ChildIndex(c, key)]]
    IN  below

LEMMA SearchOfNodes ==
    ASSUME NEW T, NEW W, NEW key, W.root = T.root, W.nodes = T.nodes
    PROVE  FindLeaf(W, key) = FindLeaf(T, key)
<1>1. LeafBelow(T, key) = LeafUnder(T.nodes, key)
  BY DEF LeafBelow, LeafUnder
<1>2. LeafBelow(W, key) = LeafUnder(W.nodes, key)
  BY DEF LeafBelow, LeafUnder
<1>3. LeafBelow(W, key) = LeafBelow(T, key)
  BY <1>1, <1>2
<1> QED
  BY <1>3 DEF FindLeaf

\* insert() of the port does what insert() of main.c does.
LEMMA PortInserts ==
    ASSUME NEW R, Holds(tree, R), NEW key \in Keys, NEW value
    PROVE  insert(tree, key, value) =
              IF key \in DOMAIN R THEN [tree EXCEPT !.records[key] = value]
              ELSE InsertRecord(MakeRecord(tree, key, value), key)
<1> DEFINE leaf == FindLeaf(tree, key)
           made == MakeRecord(tree, key, value)
<1>1. Find(tree, key) = IF key \in DOMAIN R THEN key ELSE Null
  BY FindHolds
<1>2. key # Null
  BY KeysAreNumbers DEF Null
<1>3. made.root = tree.root /\ made.nodes = tree.nodes
  <2>1. tree = [root |-> tree.root, nodes |-> tree.nodes, records |-> tree.records]
    BY HeldRecords DEF IsTree
  <2>2. made = [root |-> tree.root, nodes |-> tree.nodes, records |-> Given(tree.records, key, value)]
    BY <2>1 DEF MakeRecord
  <2> HIDE DEF made
  <2> QED
    BY <2>2
<1>4. insert(tree, key, value) =
         IF key \in DOMAIN R THEN [tree EXCEPT !.records[key] = value]
         ELSE IF tree.root = Null THEN StartNewTree(made, key, key)
         ELSE IF HasRoom(tree.nodes[leaf]) THEN InsertIntoLeaf(made, leaf, key, key)
         ELSE SplitLeaf(made, leaf, key, key)
  BY <1>1, <1>2 DEF insert, insertIntoLeaf, insertAfterSplitting
<1> HIDE DEF made, leaf
<1>5. FindLeaf(made, key) = leaf
  BY <1>3, SearchOfNodes DEF leaf
<1>6. InsertRecord(made, key) =
         IF tree.root = Null THEN StartNewTree(made, key, key)
         ELSE IF HasRoom(tree.nodes[leaf]) THEN InsertIntoLeaf(made, leaf, key, key)
         ELSE SplitLeaf(made, leaf, key, key)
  BY <1>3, <1>5 DEF InsertRecord
<1> QED
  BY <1>4, <1>6 DEF made

\* A key gets a record or another value, as both programs do it.
LEMMA PutKeeps ==
    ASSUME Kept, NEW key \in Keys, NEW value \in Values,
           tree' = IF key \in DOMAIN tree.records THEN [tree EXCEPT !.records[key] = value]
                   ELSE InsertRecord(MakeRecord(tree, key, value), key),
           UNCHANGED order
    PROVE  Kept' /\ tree'.records = Given(tree.records, key, value)
<1> DEFINE R == tree.records
           W == IF key \in DOMAIN R THEN [tree EXCEPT !.records[key] = value]
                ELSE InsertRecord(MakeRecord(tree, key, value), key)
<1>1. order \in Orders /\ Valued(R) /\ Holds(tree, R)
  BY DEF Kept
<1>2. W.records = Given(R, key, value) /\ Valued(W.records) /\ Holds(W, W.records)
  <2>1. CASE key \in DOMAIN R
    <3> DEFINE X == [tree EXCEPT !.records[key] = value]
    <3>1. X.records = Given(R, key, value) /\ Valued(X.records) /\ Holds(X, X.records)
      BY <1>1, <2>1, OverwriteHolds
    <3>2. W = X
      BY <2>1
    <3> QED
      BY <3>1, <3>2
  <2>2. CASE key \notin DOMAIN R
    <3> DEFINE X == InsertRecord(MakeRecord(tree, key, value), key)
    <3>1. X.records = Given(R, key, value) /\ Valued(X.records) /\ Holds(X, X.records)
      BY <1>1, <2>2, InsertHolds
    <3>2. W = X
      BY <2>2
    <3> QED
      BY <3>1, <3>2
  <2> QED
    BY <2>1, <2>2
<1>3. tree' = W
  OBVIOUS
<1> HIDE DEF W
<1>4. (order \in Orders)' /\ Valued(tree'.records) /\ Holds(tree', tree'.records)
  BY <1>1, <1>2, <1>3
<1> QED
  BY <1>2, <1>3, <1>4 DEF Kept, Holds, Sound, Fits, HalfFull, MinKeys

\* A command does to the records what it does to a map.
Inserts(k, v) == command' = <<"insert", k, v>> /\ tree'.records = Map!Put(tree.records, k, v)
Writes(k, v) ==
    /\ k \in DOMAIN tree.records
    /\ command' = <<"write", k, v>>
    /\ tree'.records = Map!Put(tree.records, k, v)
Deletes(k) == command' = <<"delete", k>> /\ tree'.records = Map!Without(tree.records, k)
Destroys == command' = <<"destroy">> /\ tree'.records = Map!Empty

MapStep ==
    \/ \E k \in Keys, v \in Values : Inserts(k, v) \/ Writes(k, v)
    \/ \E k \in Keys : Deletes(k)
    \/ Destroys

LEMMA FoundIsStored ==
    ASSUME Kept, NEW key \in Keys
    PROVE  Find(tree, key) = IF key \in DOMAIN tree.records THEN key ELSE Null
BY FindHolds DEF Kept

LEMMA GivenIsPut ==
    ASSUME NEW R, NEW key, NEW value
    PROVE  Given(R, key, value) = Map!Put(R, key, value)
BY DEF Given, Map!Put

LEMMA InsertKeeps ==
    ASSUME Kept, NEW key \in Keys, NEW value \in Offered[key], Insert(key, value)
    PROVE  Kept' /\ value \in Values /\ Inserts(key, value)
<1>1. value \in Values
  BY DEF Values
<1>2. key # Null
  BY KeysAreNumbers DEF Null
<1>3. Find(tree, key) = IF key \in DOMAIN tree.records THEN key ELSE Null
  BY FoundIsStored
<1>4. /\ UNCHANGED order /\ command' = <<"insert", key, value>>
      /\ tree' = IF Find(tree, key) # Null
                 THEN [tree EXCEPT !.records[Find(tree, key)] = value]
                 ELSE InsertRecord(MakeRecord(tree, key, value), key)
  BY DEF Insert
<1>5. tree' = IF key \in DOMAIN tree.records THEN [tree EXCEPT !.records[key] = value]
              ELSE InsertRecord(MakeRecord(tree, key, value), key)
  BY <1>2, <1>3, <1>4
<1>6. Kept' /\ tree'.records = Given(tree.records, key, value)
  BY <1>1, <1>4, <1>5, PutKeeps
<1> QED
  BY <1>1, <1>4, <1>6, GivenIsPut DEF Inserts

LEMMA DeleteKeeps ==
    ASSUME Kept, NEW key \in Keys, Delete(key)
    PROVE  Kept' /\ Deletes(key)
<1> DEFINE R == tree.records
           W == [DeleteEntry(tree, FindLeaf(tree, key), key, key) EXCEPT !.records = Free(@, key)]
<1>1. order \in Orders /\ Valued(R) /\ Holds(tree, R)
  BY DEF Kept
<1>2. key # Null
  BY KeysAreNumbers DEF Null
<1>3. Find(tree, key) = IF key \in DOMAIN R THEN key ELSE Null
  BY FoundIsStored
<1>4. /\ UNCHANGED order /\ command' = <<"delete", key>>
      /\ tree' = IF key \in DOMAIN R THEN W ELSE tree
  BY <1>2, <1>3 DEF Delete
<1>5. Free(R, key) = Map!Without(R, key)
  BY DEF Free, Map!Without
<1>6. CASE key \in DOMAIN R
  <2>1. W.records = Free(R, key) /\ Valued(W.records) /\ Holds(W, W.records)
    BY <1>1, <1>6, DeleteHolds
  <2>2. tree' = W
    BY <1>4, <1>6
  <2> HIDE DEF W
  <2>3. Valued(tree'.records) /\ Holds(tree', tree'.records)
    BY <2>1, <2>2
  <2>4. Kept'
    BY <1>1, <1>4, <2>3 DEF Kept, Holds, Sound, Fits, HalfFull, MinKeys
  <2> QED
    BY <1>4, <1>5, <2>1, <2>2, <2>4 DEF Deletes
<1>7. CASE key \notin DOMAIN R
  <2>1. tree' = tree
    BY <1>4, <1>7
  <2>2. Kept'
    BY <1>1, <1>4, <2>1 DEF Kept, Holds, Sound, Fits, HalfFull, MinKeys
  <2>3. Free(R, key) = R
    <3>1. DOMAIN R \ {key} = DOMAIN R /\ R = [q \in DOMAIN R |-> R[q]]
      BY <1>1, <1>7 DEF Valued
    <3> QED
      BY <3>1 DEF Free
  <2> QED
    BY <1>4, <1>5, <2>1, <2>2, <2>3 DEF Deletes
<1> QED
  BY <1>6, <1>7

LEMMA DestroyKeeps ==
    ASSUME Kept, Destroy
    PROVE  Kept' /\ Destroys
<1>1. order \in Orders /\ Valued(tree.records) /\ Holds(tree, tree.records)
  BY DEF Kept
<1>2. tree' = EmptyTree /\ UNCHANGED order /\ command' = <<"destroy">>
  BY <1>1, DestroyEmpties DEF Destroy
<1>3. Valued(tree'.records) /\ Holds(tree', tree'.records) /\ tree'.records = EmptyHeap
  BY <1>2, EmptyHolds
<1>4. Kept'
  BY <1>1, <1>2, <1>3 DEF Kept, Holds, Sound, Fits, HalfFull, MinKeys
<1>5. Destroys
  BY <1>2, <1>3 DEF Destroys, Map!Empty, EmptyHeap
<1> QED
  BY <1>4, <1>5

\* The port's inserts.
LEMMA PortInsertKeeps ==
    ASSUME Kept, NEW key \in Keys, NEW value \in Values,
           tree' = insert(tree, key, value), UNCHANGED order
    PROVE  Kept' /\ tree'.records = Map!Put(tree.records, key, value)
<1>1. Holds(tree, tree.records)
  BY DEF Kept
<1>2. tree' = IF key \in DOMAIN tree.records THEN [tree EXCEPT !.records[key] = value]
              ELSE InsertRecord(MakeRecord(tree, key, value), key)
  BY <1>1, PortInserts
<1>3. Kept' /\ tree'.records = Given(tree.records, key, value)
  BY <1>2, PutKeeps
<1> QED
  BY <1>3, GivenIsPut

LEMMA PreloadKeeps ==
    ASSUME Kept, Preload
    PROVE  Kept' /\ MapStep
<1>1. constructed \in Nat
  BY FS_CardinalityType DEF Kept, Valued, constructed
<1>2. constructed + 1 \in 1 .. Preloaded
  <2> DEFINE c == constructed
  <2>1. c \in Nat /\ c < Preloaded
    BY <1>1 DEF Preload
  <2> HIDE DEF c
  <2>2. c + 1 \in 1 .. Preloaded
    BY <2>1, PrimaryTreeAssumption
  <2> QED
    BY <2>2 DEF c
<1> DEFINE key == constructed + 1
<1>3. /\ tree' = insert(tree, key, key) /\ UNCHANGED order
      /\ command' = <<"insert", key, key>>
  BY DEF Preload
<1> HIDE DEF key
<1>4. key \in Keys /\ key \in Offered[key]
  BY <1>2, PrimaryTreeAssumption DEF key
<1>5. key \in Values
  BY <1>4 DEF Values
<1> QED
  BY <1>3, <1>4, <1>5, PortInsertKeeps DEF MapStep, Inserts

LEMMA StoreKeeps ==
    ASSUME Kept, NEW key \in Keys, NEW value \in Offered[key], Store(key, value)
    PROVE  Kept' /\ value \in Values /\ Inserts(key, value)
<1>1. value \in Values
  BY DEF Values
<1>2. /\ tree' = insert(tree, key, value) /\ UNCHANGED order
      /\ command' = <<"insert", key, value>>
  BY DEF Store
<1> QED
  BY <1>1, <1>2, PortInsertKeeps DEF Inserts

LEMMA WriteKeeps ==
    ASSUME Kept, NEW key \in Keys, NEW value \in Offered[key], write(key, value)
    PROVE  Kept' /\ value \in Values /\ Writes(key, value)
<1>1. value \in Values
  BY DEF Values
<1>2. /\ find(key) # Null /\ tree' = [tree EXCEPT !.records[find(key)] = value]
      /\ UNCHANGED order /\ command' = <<"write", key, value>>
  BY DEF write
<1>3. find(key) = IF key \in DOMAIN tree.records THEN key ELSE Null
  BY FoundIsStored DEF find
<1>4. key \in DOMAIN tree.records /\ find(key) = key
  BY <1>2, <1>3
<1>5. tree' = IF key \in DOMAIN tree.records THEN [tree EXCEPT !.records[key] = value]
              ELSE InsertRecord(MakeRecord(tree, key, value), key)
  BY <1>2, <1>4
<1>6. Kept' /\ tree'.records = Given(tree.records, key, value)
  BY <1>1, <1>2, <1>5, PutKeeps
<1> QED
  BY <1>1, <1>2, <1>4, <1>6, GivenIsPut DEF Writes

\* Every step of either program keeps the invariant, and is a step of the map.
LEMMA StepKeeps ==
    ASSUME Kept, [Next]_vars \/ [PortNext]_vars
    PROVE  Kept' /\ (MapStep \/ UNCHANGED vars)
<1>1. CASE Next
  <2>1. ASSUME NEW key \in Keys, NEW value \in Offered[key], Insert(key, value)
        PROVE  Kept' /\ MapStep
    BY <2>1, InsertKeeps DEF MapStep
  <2>2. ASSUME NEW key \in Keys, Delete(key)
        PROVE  Kept' /\ MapStep
    BY <2>2, DeleteKeeps DEF MapStep
  <2>3. CASE Destroy
    BY <2>3, DestroyKeeps DEF MapStep
  <2> QED
    BY <1>1, <2>1, <2>2, <2>3 DEF Next
<1>2. CASE PortNext
  <2>1. CASE Preload
    BY <2>1, PreloadKeeps
  <2>2. ASSUME NEW key \in Keys, NEW value \in Offered[key], Store(key, value)
        PROVE  Kept' /\ MapStep
    BY <2>2, StoreKeeps DEF MapStep
  <2>3. ASSUME NEW key \in Keys, NEW value \in Offered[key], write(key, value)
        PROVE  Kept' /\ MapStep
    BY <2>3, WriteKeeps DEF MapStep
  <2> QED
    BY <1>2, <2>1, <2>2, <2>3 DEF PortNext
<1>3. CASE UNCHANGED vars
  <2>1. order' = order /\ tree' = tree
    BY <1>3 DEF vars
  <2>2. Kept'
    BY <2>1 DEF Kept, Holds, Sound, Fits, HalfFull, MinKeys
  <2> QED
    BY <1>3, <2>2
<1> QED
  BY <1>1, <1>2, <1>3

LEMMA StartKeeps ==
    ASSUME Init \/ PortInit
    PROVE  Kept /\ tree.records = EmptyHeap /\ command = <<>>
<1>1. order \in Orders /\ tree = EmptyTree /\ command = <<>>
  BY PrimaryTreeAssumption DEF Init, PortInit, portOrder
<1> QED
  BY <1>1, EmptyHolds DEF Kept

\* The tree is always a B+ tree with a key for each record, in main.c and in
\* the port.
THEOREM TreeKept == Spec \/ PortSpec => []Kept
<1>1. Init \/ PortInit => Kept
  BY StartKeeps
<1>2. Kept /\ [Next]_vars => Kept'
  BY StepKeeps
<1>3. Kept /\ [PortNext]_vars => Kept'
  BY StepKeeps
<1> QED
  BY <1>1, <1>2, <1>3, PTL DEF Spec, PortSpec

-----------------------------------------------------------------------------
(* The map.                                                                *)

\* What find() returns for every key are the records.
LEMMA ContentsAreRecords ==
    ASSUME Kept
    PROVE  Contents = tree.records
<1> DEFINE R == tree.records
<1>1. R \in [DOMAIN R -> Values] /\ DOMAIN R \subseteq Keys
  BY DEF Kept, Valued
<1>2. \A key \in Keys : Find(tree, key) = IF key \in DOMAIN R THEN key ELSE Null
  BY FoundIsStored
<1>3. \A key \in Keys : key # Null
  BY KeysAreNumbers DEF Null
<1>4. {j \in Keys : Find(tree, j) # Null} = DOMAIN R
  BY <1>1, <1>2, <1>3
<1>5. \A k \in DOMAIN R : R[Find(tree, k)] = R[k]
  BY <1>1, <1>2
<1>6. Contents = [k \in DOMAIN R |-> R[k]]
  BY <1>4, <1>5 DEF Contents
<1> QED
  BY <1>1, <1>6

\* Looked at through find(), every command is that of a map with the same name
\* and arguments: an insert() puts, a delete() removes its key and no other,
\* destroy_tree() clears.
THEOREM TreeIsMap == Spec \/ PortSpec => ImplementsMap
<1>1. Init \/ PortInit => Map!Init
  <2> HAVE Init \/ PortInit
  <2>1. Kept /\ tree.records = EmptyHeap /\ command = <<>>
    BY StartKeeps
  <2>2. Contents = tree.records
    BY <2>1, ContentsAreRecords
  <2> QED
    BY <2>1, <2>2 DEF Map!Init, Map!Empty, Map!None, EmptyHeap
<1>2. Kept => Contents = tree.records
  BY ContentsAreRecords
<1>3. Kept' => (Contents = tree.records)'
  BY <1>2, PTL
<1>4. Kept /\ Kept' /\ ([Next]_vars \/ [PortNext]_vars) => [Map!Next]_(Map!vars)
  <2> SUFFICES ASSUME Kept, Kept', [Next]_vars \/ [PortNext]_vars
               PROVE  [Map!Next]_(Map!vars)
    OBVIOUS
  <2>1. Contents = tree.records
    BY <1>2
  <2>3. Contents' = tree'.records
    BY <1>3
  <2>4. MapStep \/ UNCHANGED vars
    BY StepKeeps
  <2>5. CASE MapStep
    <3>1. ASSUME NEW k \in Keys, NEW v \in Values, Inserts(k, v) PROVE Map!Insert(k, v)
      BY <2>1, <2>3, <3>1 DEF Inserts, Map!Insert
    <3>2. ASSUME NEW k \in Keys, NEW v \in Values, Writes(k, v) PROVE Map!Write(k, v)
      BY <2>1, <2>3, <3>2 DEF Writes, Map!Write
    <3>3. ASSUME NEW k \in Keys, Deletes(k) PROVE Map!Delete(k)
      BY <2>1, <2>3, <3>3 DEF Deletes, Map!Delete
    <3>4. Destroys => Map!Destroy
      BY <2>1, <2>3 DEF Destroys, Map!Destroy
    <3> QED
      BY <2>5, <3>1, <3>2, <3>3, <3>4 DEF MapStep, Map!Next
  <2>6. CASE UNCHANGED vars
    <3>1. tree' = tree /\ command' = command
      BY <2>6 DEF vars
    <3> QED
      BY <2>1, <2>3, <3>1 DEF Map!vars
  <2> QED
    BY <2>4, <2>5, <2>6
<1> QED
  BY <1>1, <1>4, TreeKept, PTL DEF Spec, PortSpec, ImplementsMap, Map!Spec

-----------------------------------------------------------------------------
(* The shape.                                                              *)

\* Either there is no tree or it has the shape of one.
LEMMA KeptShape ==
    ASSUME Kept
    PROVE  \/ /\ tree.root = Null /\ nodes = EmptyHeap /\ tree.records = EmptyHeap
           \/ /\ Sound(tree, DOMAIN tree.records, tree.records)
              /\ \E dep, H, low, high : Shape(nodes, tree.root, dep, H, low, high)
<1>1. CASE Emptied(tree, DOMAIN tree.records, tree.records)
  <2>1. tree = [root |-> Null, nodes |-> EmptyHeap, records |-> tree.records]
        /\ DOMAIN tree.records = {}
    BY <1>1 DEF Emptied
  <2>2. tree.records \in [{} -> Values]
    BY <2>1 DEF Kept, Valued
  <2>3. tree.records = EmptyHeap
    BY <2>2 DEF EmptyHeap
  <2>4. tree.root = Null /\ tree.nodes = EmptyHeap
    BY <2>1
  <2> QED
    BY <2>3, <2>4 DEF nodes
<1>2. CASE Sound(tree, DOMAIN tree.records, tree.records)
  BY <1>2 DEF Sound, TreeShaped, nodes
<1> QED
  BY <1>1, <1>2 DEF Kept, Holds

LEMMA NothingInEmptyHeap == DOMAIN EmptyHeap = {}
BY DEF EmptyHeap

\* The last command is one of main()'s or of the port's.
Commanded == command \in Map!Commands

LEMMA CommandsKept ==
    ASSUME Commanded, Kept, [Next]_vars \/ [PortNext]_vars
    PROVE  Commanded'
<1>1. CASE MapStep
  BY <1>1 DEF MapStep, Inserts, Writes, Deletes, Destroys, Commanded, Map!Commands, Map!None
<1>2. CASE UNCHANGED vars
  BY <1>2 DEF vars, Commanded
<1> QED
  BY <1>1, <1>2, StepKeeps

\* Nodes are well formed.
LEMMA KeptTyped ==
    ASSUME Kept, Commanded
    PROVE  TypeOK
<1>1. order \in Orders /\ tree.records \in [DOMAIN tree.records -> Values]
      /\ DOMAIN tree.records \subseteq Keys /\ command \in Map!Commands
  BY DEF Kept, Valued, Commanded
<1>2. CASE tree.root = Null /\ nodes = EmptyHeap /\ tree.records = EmptyHeap
  <2>1. DOMAIN nodes = {} /\ nodes \in [{} -> Nodes]
    BY <1>2 DEF EmptyHeap
  <2>2. tree.nodes \in [DOMAIN nodes -> Nodes]
    BY <2>1 DEF nodes
  <2> QED
    BY <1>1, <1>2, <2>1, <2>2 DEF TypeOK
<1>3. CASE /\ Sound(tree, DOMAIN tree.records, tree.records)
           /\ \E dep, H, low, high : Shape(nodes, tree.root, dep, H, low, high)
  <2>1. PICK dep, H, low, high : Shape(nodes, tree.root, dep, H, low, high)
    BY <1>3
  <2>2. NodesTyped(nodes) /\ Fits(nodes)
    BY <1>3, <2>1 DEF Shape, Sound, nodes
  <2>3. tree.root \in DOMAIN nodes
    BY <2>1 DEF Shape, Rooted
  <2>4. tree.nodes \in [DOMAIN nodes -> Nodes]
    BY <2>2 DEF NodesTyped, nodes
  <2>5. ASSUME NEW n \in DOMAIN nodes
        PROVE  /\ Len(nodes[n].keys) <= order - 1
               /\ Len(nodes[n].ptrs) = Len(nodes[n].keys) + (IF nodes[n].leaf THEN 0 ELSE 1)
               /\ nodes[n].parent \in Inner \cup {Null}
               /\ nodes[n].next \in Leaves \cup {Null}
    <3>1. Len(nodes[n].keys) \in 1 .. (order - 1)
      BY <2>2 DEF Fits
    <3>2. Len(nodes[n].keys) <= order - 1
      BY <3>1
    <3>3. Len(nodes[n].ptrs) = Len(nodes[n].keys) + (IF nodes[n].leaf THEN 0 ELSE 1)
      <4>1. CASE nodes[n].leaf
        <5>1. nodes[n].ptrs = nodes[n].keys
          BY <2>1, <4>1 DEF Shape, LeavesShaped
        <5> QED
          BY <3>1, <4>1, <5>1
      <4>2. CASE ~ nodes[n].leaf
        <5>1. Len(nodes[n].ptrs) = Len(nodes[n].keys) + 1
          BY <2>1, <4>2 DEF Shape, InnerShaped
        <5> QED
          BY <4>2, <5>1
      <4> QED
        BY <4>1, <4>2
    <3>4. nodes[n].parent \in Inner \cup {Null}
      BY <2>1 DEF Shape, Rooted, Inner, Leaves
    <3>5. nodes[n].next \in Leaves \cup {Null}
      <4>1. CASE nodes[n].leaf
        BY <2>1, <4>1 DEF Shape, LeavesShaped, Leaves
      <4>2. CASE ~ nodes[n].leaf
        BY <2>1, <4>2 DEF Shape, InnerShaped
      <4> QED
        BY <4>1, <4>2
    <3> QED
      BY <3>2, <3>3, <3>4, <3>5
  <2> HIDE DEF nodes
  <2> QED
    BY <1>1, <2>3, <2>4, <2>5 DEF TypeOK
<1> QED
  BY <1>2, <1>3, KeptShape

\* Nodes are well formed, in main.c and in the port.
THEOREM TreeTyped == Spec \/ PortSpec => []TypeOK
<1>1. Init \/ PortInit => Commanded
  BY StartKeeps DEF Commanded, Map!Commands, Map!None
<1>2. Kept /\ Commanded /\ [Next]_vars => Commanded'
  BY CommandsKept
<1>3. Kept /\ Commanded /\ [PortNext]_vars => Commanded'
  BY CommandsKept
<1> QED
  BY <1>1, <1>2, <1>3, TreeKept, KeptTyped, PTL DEF Spec, PortSpec

\* The heap holds the nodes of the tree and nothing else.
LEMMA KeptNothingLeaked ==
    ASSUME Kept
    PROVE  NothingLeaked
<1>1. CASE tree.root = Null /\ nodes = EmptyHeap /\ tree.records = EmptyHeap
  <2>1. DOMAIN nodes = {} /\ DOMAIN tree.records = {}
    BY <1>1, NothingInEmptyHeap
  <2>2. Leaves = {}
    BY <2>1 DEF Leaves
  <2>3. UNION {ToSet(nodes[n].ptrs) : n \in Leaves} = {}
    BY <2>2
  <2> QED
    BY <1>1, <2>1, <2>2, <2>3 DEF NothingLeaked
<1>2. CASE /\ Sound(tree, DOMAIN tree.records, tree.records)
           /\ \E dep, H, low, high : Shape(nodes, tree.root, dep, H, low, high)
  <2>1. PICK dep, H, low, high : Shape(nodes, tree.root, dep, H, low, high)
    BY <1>2
  <2>2. Shape(tree.nodes, tree.root, dep, H, low, high)
    BY <2>1 DEF nodes
  <2>3. Subtree(tree.root) = DOMAIN nodes
    BY <2>2, SubtreeProperties DEF Subtree, nodes
  <2>4. \A n \in Leaves : nodes[n].ptrs = nodes[n].keys
    BY <2>1 DEF Shape, LeavesShaped, Leaves
  <2>5. LeafKeys(nodes) = DOMAIN tree.records
    BY <1>2 DEF Sound, nodes
  <2>6. UNION {ToSet(nodes[n].ptrs) : n \in Leaves} = LeafKeys(nodes)
    BY <2>4 DEF LeafKeys, Leaves
  <2>7. tree.root # Null
    BY <2>1 DEF Shape, Rooted, NodesTyped, Null
  <2> QED
    BY <2>3, <2>4, <2>5, <2>6, <2>7 DEF NothingLeaked
<1> QED
  BY <1>1, <1>2, KeptShape

\* free() is called for what leaves the tree and for nothing else.
THEOREM TreeLeaksNothing == Spec \/ PortSpec => []NothingLeaked
BY TreeKept, KeptNothingLeaked, PTL

\* What Increasing says of neighbors.
LEMMA IncreasingAscends ==
    ASSUME NEW s \in Seq(Nat), Increasing(s)
    PROVE  Ascending(s)
<1> SUFFICES ASSUME NEW i \in 1 .. (Len(s) - 1)
             PROVE  s[i] < s[i + 1]
  BY DEF Ascending
<1>1. i \in 1 .. Len(s) /\ i + 1 \in 1 .. Len(s) /\ i < i + 1
  OBVIOUS
<1> QED
  BY <1>1 DEF Increasing

\* A node covers the keys of the leaves below it.
LEMMA CoveredBelow ==
    ASSUME NEW dep, NEW H, NEW low, NEW high, Shape(nodes, tree.root, dep, H, low, high),
           NEW n \in DOMAIN nodes, NEW k \in KeysBelow(n)
    PROVE  k \in Nat /\ Covers(low, high, n, k)
<1>1. PICK m \in Subtree(n) \cap Leaves : k \in ToSet(nodes[m].keys)
  BY DEF KeysBelow
<1>2. m \in DOMAIN nodes
  BY DEF Leaves
<1>3. k \in Nat
  BY <1>1, <1>2, TypesOfNodes DEF Shape
<1>4. Covers(low, high, m, k)
  BY <1>1, <1>2 DEF Shape, Ordered
<1>5. m \in Subtrees(tree)[n]
  BY DEF Subtree
<1>6. Covers(low, high, n, k)
  <2>1. Shape(tree.nodes, tree.root, dep, H, low, high) /\ n \in DOMAIN tree.nodes
    BY DEF nodes
  <2> QED
    BY <1>3, <1>4, <1>5, <2>1, SubtreeProperties
<1> QED
  BY <1>3, <1>6

\* What HalfFull says of the number of entries.
LEMMA HalfOfEntries ==
    ASSUME order \in Orders, NEW c, NEW l \in Nat, Len(c.keys) = l, l >= MinKeys(c)
    PROVE  /\ c.leaf => 2 * l >= order - 1
           /\ ~ c.leaf => 2 * (l + 1) >= order
<1>1. order \in 3 .. 20
  BY KeysAreNumbers
<1>2. c.leaf => l >= order \div 2
  BY <1>1 DEF MinKeys, Cut
<1>3. ~ c.leaf => l >= ((order + 1) \div 2) - 1
  BY DEF MinKeys, Cut
<1> QED
  BY <1>1, <1>2, <1>3

\* A B+ tree is ordered, separated and balanced.
LEMMA ShapeWellFormed ==
    ASSUME order \in Orders,
           NEW dep, NEW H, NEW low, NEW high, Shape(nodes, tree.root, dep, H, low, high),
           HalfFull(nodes, DOMAIN nodes \ {tree.root})
    PROVE  WellFormed
<1>1. \A n \in DOMAIN nodes : Ascending(nodes[n].keys)
  <2> TAKE n \in DOMAIN nodes
  <2>1. nodes[n].keys \in Seq(Nat)
    BY TypesOfNodes DEF Shape
  <2>2. Increasing(nodes[n].keys)
    BY DEF Shape, Ordered
  <2> QED
    BY <2>1, <2>2, IncreasingAscends
<1>2. Separated
  <2> SUFFICES ASSUME NEW n \in Inner, NEW i \in DOMAIN nodes[n].keys
               PROVE  /\ \A k \in KeysBelow(nodes[n].ptrs[i]) : k < nodes[n].keys[i]
                      /\ \A k \in KeysBelow(nodes[n].ptrs[i + 1]) : k >= nodes[n].keys[i]
    BY DEF Separated
  <2> DEFINE e == nodes[n].keys[i]
             a == nodes[n].ptrs[i]
             b == nodes[n].ptrs[i + 1]
  <2>1. n \in DOMAIN nodes /\ ~ nodes[n].leaf
    BY DEF Inner, Leaves
  <2>2. /\ Len(nodes[n].keys) \in Nat /\ DOMAIN nodes[n].keys = 1 .. Len(nodes[n].keys)
        /\ \A x \in 1 .. Len(nodes[n].keys) : nodes[n].keys[x] \in Nat \ {0}
    <3>1. nodes[n].keys \in Seq(Keys)
      BY <2>1, TypesOfNodes DEF Shape
    <3>2. Keys \subseteq Nat \ {0}
      BY KeysAreNumbers
    <3> DEFINE s == nodes[n].keys
    <3> HIDE DEF s
    <3>3. s \in Seq(Keys)
      BY <3>1 DEF s
    <3>4. \A x \in 1 .. Len(s) : s[x] \in Keys
      BY <3>3
    <3>5. \A x \in 1 .. Len(s) : s[x] \in Nat \ {0}
      BY <3>2, <3>4
    <3>6. Len(s) \in Nat /\ DOMAIN s = 1 .. Len(s)
      BY <3>3
    <3> QED
      BY <3>5, <3>6 DEF s
  <2>3. i \in 1 .. Len(nodes[n].keys) /\ e \in Nat \ {0}
    BY <2>2
  <2>4. Len(nodes[n].ptrs) = Len(nodes[n].keys) + 1
    BY <2>1 DEF Shape, InnerShaped
  <2>5. /\ i \in 1 .. Len(nodes[n].ptrs) /\ i + 1 \in 1 .. Len(nodes[n].ptrs)
        /\ i <= Len(nodes[n].keys) /\ i + 1 > 1 /\ i + 1 - 1 = i
    BY <2>2, <2>3, <2>4
  <2>6. a \in DOMAIN nodes /\ high[a] = e
    BY <2>1, <2>5, ChildWithin
  <2>7. b \in DOMAIN nodes /\ low[b] = e
    <3> DEFINE j == i + 1
    <3>1. nodes[n].ptrs[j] \in DOMAIN nodes
      BY <2>1, <2>5, ChildWithin
    <3>2. low[nodes[n].ptrs[j]] = nodes[n].keys[j - 1]
      BY <2>1, <2>5, ChildWithin
    <3> QED
      BY <2>5, <3>1, <3>2
  <2> HIDE DEF e, a, b
  <2>8. ASSUME NEW k \in KeysBelow(a)
        PROVE  k < e
    <3>1. k \in Nat /\ Covers(low, high, a, k)
      BY <2>6, CoveredBelow
    <3> QED
      BY <2>3, <2>6, <3>1 DEF Covers
  <2>9. ASSUME NEW k \in KeysBelow(b)
        PROVE  k >= e
    <3>1. k \in Nat /\ Covers(low, high, b, k)
      BY <2>7, CoveredBelow
    <3> QED
      BY <2>3, <2>7, <3>1 DEF Covers
  <2> QED
    BY <2>8, <2>9 DEF e, a, b
<1>3. \A n \in Leaves \ {tree.root} : 2 * Len(nodes[n].keys) >= order - 1
  <2> TAKE n \in Leaves \ {tree.root}
  <2> DEFINE c == nodes[n]
  <2>1. n \in DOMAIN nodes \ {tree.root} /\ c.leaf
    BY DEF Leaves
  <2>2. Len(c.keys) \in Nat /\ Len(c.keys) >= MinKeys(c)
    BY <2>1, TypesOfNodes DEF Shape, HalfFull
  <2> HIDE DEF c
  <2>3. 2 * Len(c.keys) >= order - 1
    BY <2>1, <2>2, HalfOfEntries
  <2> QED
    BY <2>3 DEF c
<1>4. \A n \in Inner \ {tree.root} : 2 * Len(nodes[n].ptrs) >= order
  <2> TAKE n \in Inner \ {tree.root}
  <2> DEFINE c == nodes[n]
  <2>1. n \in DOMAIN nodes \ {tree.root} /\ ~ c.leaf
    BY DEF Inner, Leaves
  <2>2. Len(c.keys) \in Nat /\ Len(c.keys) >= MinKeys(c)
    BY <2>1, TypesOfNodes DEF Shape, HalfFull
  <2>3. Len(c.ptrs) = Len(c.keys) + 1
    BY <2>1 DEF Shape, InnerShaped
  <2> HIDE DEF c
  <2>4. 2 * (Len(c.keys) + 1) >= order
    BY <2>1, <2>2, HalfOfEntries
  <2> QED
    BY <2>3, <2>4 DEF c
<1>5. LET depth == PathToRoot(tree) IN \A m, n \in Leaves : depth[m] = depth[n]
  <2>1. \A n \in DOMAIN nodes : PathToRoot(tree)[n] = dep[n]
    <3>1. Shape(tree.nodes, tree.root, dep, H, low, high)
      BY DEF nodes
    <3> QED
      BY <3>1, PathIsDepth DEF nodes
  <2>2. \A n \in Leaves : n \in DOMAIN nodes /\ dep[n] = H
    BY DEF Shape, LeavesShaped, Leaves
  <2> QED
    BY <2>1, <2>2
<1>6. Balanced
  BY <1>3, <1>4, <1>5 DEF Balanced
<1> QED
  BY <1>1, <1>2, <1>6 DEF WellFormed

LEMMA KeptWellFormed ==
    ASSUME Kept
    PROVE  WellFormed
<1>1. CASE nodes = EmptyHeap
  <2>1. DOMAIN nodes = {} /\ Leaves = {} /\ Inner = {}
    BY <1>1, NothingInEmptyHeap DEF Leaves, Inner
  <2> QED
    BY <2>1 DEF WellFormed, Separated, Balanced
<1>2. CASE /\ Sound(tree, DOMAIN tree.records, tree.records)
           /\ \E dep, H, low, high : Shape(nodes, tree.root, dep, H, low, high)
  <2>1. HalfFull(nodes, DOMAIN nodes \ {tree.root})
    BY <1>2 DEF Sound, nodes
  <2>2. order \in Orders
    BY DEF Kept
  <2> QED
    BY <1>2, <2>1, <2>2, ShapeWellFormed
<1> QED
  BY <1>1, <1>2, KeptShape

\* After any commands the tree is ordered, separated and balanced.
THEOREM TreeWellFormed == Spec \/ PortSpec => []WellFormed
BY TreeKept, KeptWellFormed, PTL

\* The keys of the tree are below its root.
LEMMA KeysBelowRoot ==
    ASSUME NEW dep, NEW H, NEW low, NEW high, Shape(nodes, tree.root, dep, H, low, high)
    PROVE  KeysBelow(tree.root) = LeafKeys(nodes)
<1>1. Shape(tree.nodes, tree.root, dep, H, low, high)
  BY DEF nodes
<1>2. Subtree(tree.root) = DOMAIN nodes
  BY <1>1, SubtreeProperties DEF Subtree, nodes
<1>3. Subtree(tree.root) \cap Leaves = {m \in DOMAIN nodes : nodes[m].leaf}
  BY <1>2 DEF Leaves
<1> QED
  BY <1>3 DEF KeysBelow, LeafKeys

\* The nodes of a B+ tree point to each other as they should.
LEMMA ShapeLinked ==
    ASSUME NEW dep, NEW H, NEW low, NEW high, Shape(nodes, tree.root, dep, H, low, high)
    PROVE  Linked
<1> DEFINE say == [n \in DOMAIN nodes |-> nodes[n].keys]
           m == LeftmostLeaf(tree)[tree.root]
           f == Along(tree, say)
<1>1. \A n \in Inner : \A x \in ToSet(nodes[n].ptrs) : nodes[x].parent = n
  <2> TAKE n \in Inner
  <2>1. n \in DOMAIN nodes /\ ~ nodes[n].leaf
    BY DEF Inner, Leaves
  <2> QED
    BY <2>1, ChildrenOf
<1>2. nodes[tree.root].parent = Null
  BY DEF Shape, Rooted
<1>3. Shape(tree.nodes, tree.root, dep, H, low, high)
  BY DEF nodes
<1>4. m \in DOMAIN nodes /\ nodes[m].leaf /\ low[m] = 0
  BY <1>3, LeftmostProperties DEF nodes
<1>5. Says(nodes, say, Nat)
  <2>1. ASSUME NEW n \in DOMAIN nodes
        PROVE  /\ nodes[n].keys \in Seq(Nat) /\ ToSet(nodes[n].keys) \subseteq Nat
               /\ Increasing(nodes[n].keys)
    BY TypesOfNodes DEF Shape, Ordered
  <2> HIDE DEF nodes
  <2>2. say \in [DOMAIN nodes -> Seq(Nat)]
    BY <2>1
  <2>3. \A n \in DOMAIN nodes : Increasing(say[n]) /\ ToSet(say[n]) = ToSet(nodes[n].keys) \cap Nat
    BY <2>1
  <2> QED
    BY <2>2, <2>3 DEF Says
<1>6. Tells(nodes, low, f, Nat)
  <2> HIDE DEF say
  <2>1. Says(tree.nodes, say, Nat)
    BY <1>5 DEF nodes
  <2>2. Tells(tree.nodes, low, Along(tree, say), Nat)
    BY <1>3, <2>1, ChainLists
  <2> QED
    BY <2>2 DEF nodes
<1> HIDE DEF f, m
<1>7. f[m] \in Seq(Nat) /\ Increasing(f[m]) /\ ToSet(f[m]) = {k \in LeafKeys(nodes) \cap Nat : 0 <= k}
  BY <1>4, <1>6 DEF Tells
<1>8. LeafKeys(nodes) \subseteq Nat
  BY LeafKeysTyped DEF Shape
<1>9. ToSet(f[m]) = LeafKeys(nodes)
  <2>1. \A k \in LeafKeys(nodes) : k \in Nat /\ 0 <= k
    BY <1>8
  <2> QED
    BY <1>7, <2>1
<1>10. Lists(f[m], KeysBelow(tree.root))
  BY <1>7, <1>9, KeysBelowRoot, IncreasingAscends DEF Lists
<1> QED
  BY <1>1, <1>2, <1>10 DEF Linked, f, m

LEMMA KeptLinked ==
    ASSUME Kept
    PROVE  Linked
<1>1. CASE tree.root = Null /\ nodes = EmptyHeap
  <2>1. Inner = {}
    BY <1>1, NothingInEmptyHeap DEF Inner
  <2> QED
    BY <1>1, <2>1 DEF Linked
<1> QED
  BY <1>1, KeptShape, ShapeLinked

\* Children know their parents, and the chain of leaves lists the keys.
THEOREM TreeLinked == Spec \/ PortSpec => []Linked
BY TreeKept, KeptLinked, PTL

\* What find_range() returns.
LEMMA KeptRanges ==
    ASSUME Kept
    PROVE  RangesFromKeys
<1> SUFFICES ASSUME NEW i \in Keys, NEW j \in Keys, i <= j
             PROVE  /\ Len(findRange(i, j)) <= j - i + 1
                    /\ i \in Stored => Lists(findRange(i, j), Stored \cap i .. j)
  BY DEF RangesFromKeys
<1> DEFINE found == findRange(i, j)
           R == tree.records
<1>1. i \in Nat /\ j \in Nat
  BY KeysAreNumbers
<1>2. Stored = DOMAIN R
  BY ContentsAreRecords DEF Stored
<1>3. CASE tree.root = Null /\ R = EmptyHeap
  <2>1. found = <<>> /\ Len(<<>>) = 0
    BY <1>3 DEF findRange, FindRange
  <2>2. Stored = {}
    BY <1>2, <1>3, NothingInEmptyHeap
  <2> QED
    BY <1>1, <2>1, <2>2
<1>4. CASE /\ Sound(tree, DOMAIN R, R)
           /\ \E dep, H, low, high : Shape(nodes, tree.root, dep, H, low, high)
  <2>1. PICK dep, H, low, high : Shape(tree.nodes, tree.root, dep, H, low, high)
    BY <1>4 DEF nodes
  <2>2. LeafKeys(tree.nodes) = Stored
    BY <1>2, <1>4 DEF Sound
  <2>3. found = FindRange(tree, i, j)
    BY DEF findRange
  <2> HIDE DEF found
  <2>4. found \in Seq(Nat) /\ Increasing(found)
    BY <1>1, <2>1, <2>3, RangeProperties
  <2>5. Len(found) <= j - i + 1
    BY <1>1, <2>1, <2>3, RangeProperties
  <2>6. i \in Stored => ToSet(found) = {k \in Stored : i <= k /\ k <= j}
    <3>1. i \in LeafKeys(tree.nodes) =>
             ToSet(FindRange(tree, i, j)) = Between(LeafKeys(tree.nodes), i, j)
      BY <1>1, <2>1, RangeProperties
    <3> HIDE DEF Stored
    <3> QED
      BY <2>2, <2>3, <3>1 DEF Between
  <2>7. {k \in Stored : i <= k /\ k <= j} = Stored \cap i .. j
    <3>1. \A k \in Stored : k \in Nat
      BY <2>1, <2>2, LeafKeysTyped DEF Shape
    <3>2. \A k \in Stored : i <= k /\ k <= j <=> k \in i .. j
      BY <1>1, <3>1
    <3> QED
      BY <3>2
  <2>8. i \in Stored => Lists(found, Stored \cap i .. j)
    BY <2>4, <2>6, <2>7, IncreasingAscends DEF Lists
  <2> QED
    BY <2>5, <2>8 DEF found
<1> QED
  BY <1>3, <1>4, KeptShape

\* A range from a stored key is returned whole and in order, and no range has
\* more entries than its bounds leave room for.
THEOREM TreeRanges == Spec \/ PortSpec => []RangesFromKeys
BY TreeKept, KeptRanges, PTL

=============================================================================
