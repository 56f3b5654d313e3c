---------------------------- MODULE Problems_proofs ----------------------------
(* What compiled filters select, for trees of any shape, and what thruk_problems *)
(* reports of the answers of the backends.                                       *)
EXTENDS Problems, SequenceTheorems, FiniteSetTheorems, TLAPS

\* Induction and concatenation.
Log == INSTANCE LogReports_proofs
----------------------------------------------------------------------------
(* Trees. *)

\* Trees that are nested by one more.
Higher(lower) ==
    lower \cup [kind : {"group"}, operator : {"and", "or"}, conditions : Seq(lower)]
\* The trees of heights up to one.
Tower(trees, height) ==
    /\ trees[0] = Conditions
    /\ \A h \in 0..(height - 1) : trees[h + 1] = Higher(trees[h])
LEMMA TowersExist == \A height \in Nat : \E trees : Tower(trees, height)
<1> SUFFICES ASSUME NEW height \in Nat
             PROVE  \E trees : Tower(trees, height)
  OBVIOUS
<1> DEFINE T == {h \in 0..height : \E trees : Tower(trees, h)}
<1>1. 0 \in T
  <2> DEFINE trees == [h \in 0..0 |-> Conditions]
  <2>1. Tower(trees, 0)
    BY DEF Tower
  <2> HIDE DEF trees
  <2> QED BY <2>1
<1>2. ASSUME NEW h \in 0..(height - 1), h \in T
      PROVE  h + 1 \in T
  <2>1. PICK trees : Tower(trees, h)
    BY <1>2
  <2> DEFINE more == [i \in 0..(h + 1) |-> IF i = h + 1 THEN Higher(trees[h]) ELSE trees[i]]
  <2>2. more[h + 1] = Higher(trees[h]) /\ \A i \in 0..h : more[i] = trees[i]
    OBVIOUS
  <2> HIDE DEF more
  <2>3. \A i \in 0..h : more[i + 1] = Higher(more[i])
    <3> TAKE i \in 0..h
    <3>1. CASE i = h
      BY <2>2, <3>1
    <3>2. CASE i # h
      <4>1. i \in 0..(h - 1) /\ i + 1 \in 0..h
        BY <3>2
      <4> QED BY <2>1, <2>2, <4>1 DEF Tower
    <3> QED BY <3>1, <3>2
  <2>4. Tower(more, h + 1)
    BY <2>1, <2>2, <2>3 DEF Tower
  <2> QED BY <1>2, <2>4
<1>3. 0..height \subseteq T
  <2> HIDE DEF T
  <2> QED BY <1>1, <1>2, Log!UpTo
<1> QED BY <1>3

\* There is one tower only.
LEMMA TowersAgree ==
    ASSUME NEW height \in Nat, NEW s, NEW t, Tower(s, height), Tower(t, height)
    PROVE  s[height] = t[height]
<1> DEFINE T == {h \in 0..height : s[h] = t[h]}
<1>1. 0 \in T
  BY DEF Tower
<1>2. ASSUME NEW h \in 0..(height - 1), h \in T
      PROVE  h + 1 \in T
  BY <1>2 DEF Tower
<1>3. 0..height \subseteq T
  <2> HIDE DEF T
  <2> QED BY <1>1, <1>2, Log!UpTo
<1> QED BY <1>3

\* The trees of no height are the conditions; those of one more are nested by one more.
LEMMA Nesting ==
    TreesOf[0] = Conditions /\ \A h \in Nat : TreesOf[h + 1] = Higher(TreesOf[h])
<1> DEFINE Pick(h) == CHOOSE trees : Tower(trees, h)
           all == [h \in Nat |-> Pick(h)[h]]
           Recursion(f) == f = [height \in Nat |->
               IF height = 0 THEN Conditions
               ELSE LET lower == f[height - 1] IN
                    lower \cup [kind : {"group"}, operator : {"and", "or"}, conditions : Seq(lower)]]
<1>1. \A h \in Nat : Tower(Pick(h), h)
  BY TowersExist
<1>2. all[0] = Conditions
  BY <1>1 DEF Tower
<1>3. \A h \in Nat : all[h + 1] = Higher(all[h])
  <2> TAKE h \in Nat
  <2> DEFINE t == Pick(h + 1)
             s == Pick(h)
  <2>1. Tower(t, h + 1) /\ Tower(s, h)
    BY <1>1
  <2>2. all[h + 1] = t[h + 1] /\ all[h] = s[h]
    OBVIOUS
  <2> HIDE DEF t, s, all
  <2>3. Tower(t, h)
    BY <2>1 DEF Tower
  <2>4. t[h] = s[h]
    BY <2>1, <2>3, TowersAgree
  <2>5. t[h + 1] = Higher(t[h])
    BY <2>1 DEF Tower
  <2> QED BY <2>2, <2>4, <2>5
<1> HIDE DEF Pick
<1>4. Recursion(all)
  <2>1. ASSUME NEW h \in Nat, h # 0
        PROVE  all[h] = Higher(all[h - 1])
    <3>1. h - 1 \in Nat /\ (h - 1) + 1 = h
      BY <2>1
    <3> HIDE DEF all
    <3> QED BY <1>3, <3>1
  <2>2. all = [h \in Nat |-> all[h]]
    OBVIOUS
  <2> HIDE DEF all
  <2>3. \A h \in Nat : all[h] = IF h = 0 THEN Conditions ELSE Higher(all[h - 1])
    BY <1>2, <2>1
  <2> QED BY <2>2, <2>3 DEF Higher
<1> HIDE DEF all
<1>5. Recursion(TreesOf)
  <2>1. TreesOf = CHOOSE f : Recursion(f)
    BY DEF TreesOf
  <2> HIDE DEF Recursion
  <2> QED BY <1>4, <2>1
<1>6. \A h \in Nat : TreesOf[h] = IF h = 0 THEN Conditions ELSE Higher(TreesOf[h - 1])
  BY <1>5 DEF Higher
<1> QED
  <2>1. TreesOf[0] = Conditions
    BY <1>6
  <2>2. ASSUME NEW h \in Nat
        PROVE  TreesOf[h + 1] = Higher(TreesOf[h])
    <3>1. h + 1 \in Nat /\ h + 1 # 0 /\ (h + 1) - 1 = h
      OBVIOUS
    <3> QED BY <1>6, <3>1
  <2> QED BY <2>1, <2>2

\* A group of trees.
IsNode(n, lower) ==
    /\ ~IsLeaf(n) /\ n.operator \in {"and", "or"} /\ n.conditions \in Seq(lower)
    /\ n = Group(n.operator, n.conditions)
\* A tree is a condition, or a group of trees that are nested by one less.
LEMMA Shapes ==
    /\ \A n \in TreesOf[0] : IsLeaf(n) /\ n \in Conditions
    /\ \A h \in Nat : /\ TreesOf[h] \subseteq TreesOf[h + 1]
                      /\ \A n \in TreesOf[h + 1] : \/ IsLeaf(n) /\ n \in Conditions
                                                   \/ IsNode(n, TreesOf[h])
<1> DEFINE Shaped(h) == \A n \in TreesOf[h + 1] : \/ IsLeaf(n) /\ n \in Conditions
                                                  \/ IsNode(n, TreesOf[h])
<1>1. \A n \in Conditions : IsLeaf(n)
  BY DEF Conditions, IsLeaf
<1>2. \A h \in Nat : TreesOf[h] \subseteq TreesOf[h + 1]
  BY Nesting DEF Higher
<1>3. \A lower, n : n \in [kind : {"group"}, operator : {"and", "or"}, conditions : Seq(lower)]
                      => IsNode(n, lower)
  BY DEF IsNode, IsLeaf, Group
<1>4. ASSUME NEW h \in Nat
      PROVE  Shaped(h)
  <2> DEFINE T == {i \in 0..h : Shaped(i)}
  <2>1. 0 \in T
    <3>1. TreesOf[1] = Higher(TreesOf[0]) /\ 0 + 1 = 1
      BY Nesting
    <3>2. Shaped(0)
      BY <1>1, <1>3, <3>1, Nesting DEF Higher
    <3> QED BY <3>2
  <2>2. ASSUME NEW i \in 0..(h - 1), i \in T
        PROVE  i + 1 \in T
    <3>1. TreesOf[(i + 1) + 1] = Higher(TreesOf[i + 1])
      BY Nesting
    <3>2. ASSUME NEW n \in TreesOf[(i + 1) + 1]
          PROVE  (IsLeaf(n) /\ n \in Conditions) \/ IsNode(n, TreesOf[i + 1])
      <4>1. CASE n \in TreesOf[i + 1]
        <5>1. CASE IsNode(n, TreesOf[i])
          <6>0. i \in Nat
            OBVIOUS
          <6>1. TreesOf[i] \subseteq TreesOf[i + 1]
            BY <1>2, <6>0, Zenon
          <6>2. n.conditions \in Seq(TreesOf[i + 1])
            BY <5>1, <6>1 DEF IsNode
          <6> QED BY <5>1, <6>2 DEF IsNode
        <5> QED BY <2>2, <4>1, <5>1
      <4>2. CASE n \notin TreesOf[i + 1]
        BY <1>3, <3>1, <3>2, <4>2 DEF Higher
      <4> QED BY <4>1, <4>2
    <3> QED BY <2>2, <3>2
  <2>3. 0..h \subseteq T
    <3> HIDE DEF T
    <3> QED BY <2>1, <2>2, Log!UpTo
  <2> QED BY <2>3
<1> QED BY <1>1, <1>2, <1>4, Nesting

LEMMA HigherHasLower ==
    ASSUME NEW j \in Nat, NEW i \in 0..j
    PROVE  TreesOf[i] \subseteq TreesOf[j]
<1> DEFINE T == {d \in 0..(j - i) : TreesOf[i] \subseteq TreesOf[i + d]}
<1>1. 0 \in T
  BY DEF T
<1>2. ASSUME NEW d \in 0..(j - i - 1), d \in T
      PROVE  d + 1 \in T
  <2>1. i + d \in Nat /\ (i + d) + 1 = i + (d + 1) /\ d + 1 \in 0..(j - i)
    OBVIOUS
  <2> QED BY <1>2, <2>1, Shapes
<1>3. j - i \in T
  <2> HIDE DEF T
  <2> QED BY <1>1, <1>2, Log!UpTo
<1> QED BY <1>3

\* What is true of conditions, and of a group when of what it groups, is true of all.
LEMMA TreeInduction ==
    ASSUME NEW height \in Nat, NEW P, \A l \in Conditions : l \in P,
           \A n \in TreesOf[height] : ~IsLeaf(n) /\ (\A c \in Children(n) : c \in P) => n \in P
    PROVE  TreesOf[height] \subseteq P
<1> DEFINE T == {h \in 0..height : TreesOf[h] \subseteq P}
<1>1. 0 \in T
  BY Nesting
<1>2. ASSUME NEW h \in 0..(height - 1), h \in T
      PROVE  h + 1 \in T
  <2>1. ASSUME NEW n \in TreesOf[h + 1]
        PROVE  n \in P
    <3>1. CASE IsNode(n, TreesOf[h])
      <4>1. \A c \in Children(n) : c \in P
        BY <1>2, <3>1 DEF Children, IsNode
      <4>2. n \in TreesOf[height]
        BY <2>1, HigherHasLower
      <4> QED BY <3>1, <4>1, <4>2 DEF IsNode
    <3> QED BY <2>1, <3>1, Shapes
  <2> QED BY <1>2, <2>1
<1>3. height \in T
  <2> HIDE DEF T
  <2> QED BY <1>1, <1>2, Log!UpTo
<1> QED BY <1>3

\* A function on trees by what it is of conditions and how it combines the values of
\* a group: it exists, with values by the nesting.
Fold(f, trees, base, combine) ==
    \A n \in trees : f[n] = IF IsLeaf(n) THEN base[n]
        ELSE combine[<<n, [i \in DOMAIN n.conditions |-> f[n.conditions[i]]]>>]
Valued(f, V, height) ==
    \A h \in 0..height : \A n \in TreesOf[h] : f[n] \in V[h]
Combines(V, base, combine, height) ==
    /\ \A l \in Conditions : base[l] \in V[0]
    /\ \A h \in 0..(height - 1) :
         /\ V[h] \subseteq V[h + 1]
         /\ \A n \in TreesOf[h + 1], s \in Seq(V[h]) : ~IsLeaf(n) => combine[<<n, s>>] \in V[h + 1]
LEMMA FoldExists ==
    ASSUME NEW height \in Nat, NEW V, NEW base, NEW combine, Combines(V, base, combine, height)
    PROVE  \E f : /\ DOMAIN f = TreesOf[height] /\ f = [n \in TreesOf[height] |-> f[n]]
                  /\ Fold(f, TreesOf[height], base, combine) /\ Valued(f, V, height)
<1> DEFINE Folded(f, h) == /\ DOMAIN f = TreesOf[h] /\ f = [n \in TreesOf[h] |-> f[n]]
                           /\ Fold(f, TreesOf[h], base, combine) /\ Valued(f, V, h)
           T == {h \in 0..height : \E f : Folded(f, h)}
<1>1. 0 \in T
  <2> DEFINE f == [n \in TreesOf[0] |-> base[n]]
  <2>1. Fold(f, TreesOf[0], base, combine)
    BY Shapes DEF Fold
  <2>2. Valued(f, V, 0)
    BY Shapes DEF Valued, Combines
  <2>3. DOMAIN f = TreesOf[0] /\ f = [n \in TreesOf[0] |-> f[n]]
    OBVIOUS
  <2> HIDE DEF f
  <2> QED BY <2>1, <2>2, <2>3
<1>2. ASSUME NEW h \in 0..(height - 1), h \in T
      PROVE  h + 1 \in T
  <2>1. PICK f : Folded(f, h)
    BY <1>2
  <2> DEFINE values(n) == [i \in DOMAIN n.conditions |-> f[n.conditions[i]]]
             g == [n \in TreesOf[h + 1] |-> IF IsLeaf(n) THEN base[n] ELSE combine[<<n, values(n)>>]]
  <2>0. h \in Nat
    OBVIOUS
  <2>2. h \in Nat /\ TreesOf[h] \subseteq TreesOf[h + 1]
    BY <2>0, Shapes, Zenon
  <2>3. \A n \in TreesOf[h] : g[n] = f[n]
    BY <2>1, <2>2 DEF Fold
  <2>4. \A n \in TreesOf[h + 1] : g[n] = IF IsLeaf(n) THEN base[n] ELSE combine[<<n, values(n)>>]
    OBVIOUS
  <2>5. DOMAIN g = TreesOf[h + 1] /\ g = [n \in TreesOf[h + 1] |-> g[n]]
    OBVIOUS
  <2> HIDE DEF g
  <2>6. Fold(g, TreesOf[h + 1], base, combine)
    <3> SUFFICES ASSUME NEW n \in TreesOf[h + 1], ~IsLeaf(n)
                 PROVE  values(n) = [i \in DOMAIN n.conditions |-> g[n.conditions[i]]]
      BY <2>4 DEF Fold
    <3>1. n.conditions \in Seq(TreesOf[h])
      BY <2>2, Shapes DEF IsNode
    <3>2. \A i \in DOMAIN n.conditions : n.conditions[i] \in TreesOf[h]
      BY <3>1
    <3> QED BY <2>3, <3>2
  <2>7. Valued(g, V, h + 1)
    <3>1. ASSUME NEW i \in 0..h, NEW n \in TreesOf[i]
          PROVE  g[n] \in V[i]
      <4>1. n \in TreesOf[h]
        BY <2>2, HigherHasLower
      <4> QED BY <2>1, <2>3, <4>1 DEF Valued
    <3>2. ASSUME NEW n \in TreesOf[h + 1]
          PROVE  g[n] \in V[h + 1]
      <4>0. V[h] \subseteq V[h + 1]
        BY DEF Combines
      <4>1. CASE IsNode(n, TreesOf[h])
        <5>1. values(n) \in Seq(V[h])
          <6>1. n.conditions \in Seq(TreesOf[h])
            BY <4>1 DEF IsNode
          <6>2. h \in 0..h /\ \A m \in TreesOf[h] : f[m] \in V[h]
            BY <2>1, <2>2 DEF Valued
          <6>3. \A i \in DOMAIN n.conditions : f[n.conditions[i]] \in V[h]
            BY <6>1, <6>2
          <6> QED BY <6>1, <6>3
        <5>2. combine[<<n, values(n)>>] \in V[h + 1]
          BY <4>1, <5>1 DEF Combines, IsNode
        <5> QED BY <2>4, <4>1, <5>2 DEF IsNode
      <4>2. CASE IsLeaf(n) /\ n \in Conditions
        <5>1. n \in TreesOf[0] /\ 0 \in 0..h
          BY <2>2, <4>2, Nesting
        <5>2. n \in TreesOf[h]
          BY <2>2, <5>1, HigherHasLower
        <5>3. f[n] \in V[h]
          BY <2>1, <2>2, <5>2 DEF Valued
        <5> QED BY <2>3, <4>0, <5>2, <5>3
      <4> QED BY <2>2, <3>2, <4>1, <4>2, Shapes
    <3> QED BY <3>1, <3>2 DEF Valued
  <2>8. Folded(g, h + 1)
    BY <2>5, <2>6, <2>7
  <2> HIDE DEF Folded
  <2> QED BY <1>2, <2>8
<1>3. height \in T
  <2> HIDE DEF T
  <2> QED BY <1>1, <1>2, Log!UpTo
<1> QED BY <1>3

\* What is compiled is not nested by more than the functions on trees take.
LEMMA TreesAre == MaxHeight + 2 \in Nat /\ Trees = TreesOf[MaxHeight + 2]
BY FiltersAssumption DEF Trees
\* A tree is a condition or a group of trees.
LEMMA Nodes ==
    /\ Conditions \subseteq Trees
    /\ \A n \in Trees : \/ IsLeaf(n) /\ n \in Conditions
                        \/ IsNode(n, Trees) /\ \A c \in Children(n) : c \in Trees
<1>1. MaxHeight + 2 \in Nat /\ MaxHeight + 1 \in Nat /\ (MaxHeight + 1) + 1 = MaxHeight + 2
  BY FiltersAssumption
<1>2. TreesOf[0] \subseteq Trees
  BY <1>1, HigherHasLower DEF Trees
<1>3. TreesOf[MaxHeight + 1] \subseteq Trees
  BY <1>1, HigherHasLower DEF Trees
<1>4. ASSUME NEW n \in Trees, ~IsLeaf(n)
      PROVE  IsNode(n, Trees) /\ \A c \in Children(n) : c \in Trees
  <2>1. IsNode(n, TreesOf[MaxHeight + 1])
    <3>1. n \in TreesOf[(MaxHeight + 1) + 1]
      BY <1>1, <1>4 DEF Trees
    <3> QED BY <1>1, <1>4, <3>1, Shapes
  <2>2. n.conditions \in Seq(Trees)
    BY <1>3, <2>1 DEF IsNode
  <2> QED BY <2>1, <2>2 DEF IsNode, Children
<1>5. ASSUME NEW n \in Trees, IsLeaf(n)
      PROVE  n \in Conditions
  <2>1. n \in TreesOf[(MaxHeight + 1) + 1]
    BY <1>1, <1>5 DEF Trees
  <2> QED BY <1>1, <1>5, <2>1, Shapes DEF IsNode
<1> QED BY <1>2, <1>4, <1>5, Nesting

\* The values of what a group groups.
OfGroup(f, n) == [i \in DOMAIN n.conditions |-> f[n.conditions[i]]]
OfChildren(f, n) == {f[c] : c \in Children(n)}
LEMMA ValuesOfGroup ==
    ASSUME NEW S, NEW f, \A n \in Trees : f[n] \in S, NEW n \in Trees, ~IsLeaf(n)
    PROVE  /\ OfGroup(f, n) \in Seq(S) /\ ToSet(OfGroup(f, n)) = OfChildren(f, n)
           /\ DOMAIN OfGroup(f, n) = DOMAIN n.conditions
           /\ \A i \in DOMAIN n.conditions : OfGroup(f, n)[i] = f[n.conditions[i]]
<1>1. n.conditions \in Seq(Trees) /\ \A i \in DOMAIN n.conditions : n.conditions[i] \in Trees
  BY Nodes DEF IsNode
<1>2. \A i \in DOMAIN n.conditions : f[n.conditions[i]] \in S
  BY <1>1
<1> QED BY <1>1, <1>2 DEF OfGroup, OfChildren, ToSet, Children

\* A function on trees with values of one kind, by what it is of conditions and of
\* groups.
Folded(f, S, base, combine) ==
    /\ f = [n \in Trees |-> f[n]] /\ \A n \in Trees : f[n] \in S
    /\ \A n \in Trees : IsLeaf(n) => f[n] = base[n]
    /\ \A n \in Trees : ~IsLeaf(n) => f[n] = combine[<<n, OfGroup(f, n)>>]
LEMMA FoldOfTrees ==
    ASSUME NEW S, NEW base, NEW combine, \A l \in Conditions : base[l] \in S,
           \A c \in Trees, s \in Seq(S) : combine[<<c, s>>] \in S
    PROVE  \E f : Folded(f, S, base, combine)
<1> DEFINE H == MaxHeight + 2
<1>1. H \in Nat /\ Trees = TreesOf[H]
  BY TreesAre
<1> HIDE DEF H
<1> DEFINE V == [h \in 0..H |-> S]
<1>2. \A h \in 0..H : V[h] = S
  OBVIOUS
<1> HIDE DEF V
<1>3. Combines(V, base, combine, H)
  <2>1. 0 \in 0..H /\ \A h \in 0..(H - 1) : h \in 0..H /\ h + 1 \in 0..H
    BY <1>1
  <2>2. \A h \in 0..(H - 1) : TreesOf[h + 1] \subseteq Trees
    BY <1>1, <2>1, HigherHasLower
  <2> QED BY <1>2, <2>1, <2>2 DEF Combines
<1>4. PICK f : /\ f = [n \in Trees |-> f[n]] /\ Fold(f, Trees, base, combine)
               /\ Valued(f, V, H)
  BY <1>1, <1>3, FoldExists
<1>5. H \in 0..H
  BY <1>1
<1>6. \A n \in Trees : f[n] \in S
  BY <1>1, <1>2, <1>4, <1>5 DEF Valued
<1> QED BY <1>4, <1>6 DEF Folded, Fold, OfGroup

\* The conditions of a tree.
LEMMA LeavesUnfold ==
    \A n \in Trees :
        /\ LeavesOf(n) = IF IsLeaf(n) THEN {n} ELSE UNION {LeavesOf(c) : c \in Children(n)}
        /\ LeavesOf(n) \subseteq Conditions
<1> DEFINE S == SUBSET Conditions
           base == [l \in Conditions |-> {l}]
           combine == [p \in Trees \X Seq(S) |-> UNION ToSet(p[2])]
           Recursion(f) == f = [c \in Trees |-> IF IsLeaf(c) THEN {c} ELSE UNION {f[d] : d \in Children(c)}]
<1>1. \A c \in Trees, s \in Seq(S) : combine[<<c, s>>] = UNION ToSet(s)
  OBVIOUS
<1>2. \A l \in Conditions : base[l] = {l}
  OBVIOUS
<1>3. \A l \in Conditions : {l} \in S
  OBVIOUS
<1>4. \A s \in Seq(S) : UNION ToSet(s) \in S
  BY DEF ToSet
<1> HIDE DEF S, base, combine
<1>5. PICK g : Folded(g, S, base, combine)
  BY <1>1, <1>2, <1>3, <1>4, FoldOfTrees
<1>6. ASSUME NEW c \in Trees
      PROVE  g[c] = IF IsLeaf(c) THEN {c} ELSE UNION {g[d] : d \in Children(c)}
  <2>1. CASE IsLeaf(c)
    BY <1>2, <1>5, <2>1, Nodes DEF Folded, IsNode
  <2>2. CASE ~IsLeaf(c)
    <3>1. OfGroup(g, c) \in Seq(S) /\ ToSet(OfGroup(g, c)) = OfChildren(g, c)
      <4>1. \A n \in Trees : g[n] \in S
        BY <1>5 DEF Folded
      <4> QED BY <2>2, <4>1, ValuesOfGroup
    <3>2. g[c] = combine[<<c, OfGroup(g, c)>>]
      BY <1>5, <2>2, Nodes DEF Folded, IsNode
    <3> QED BY <1>1, <2>2, <3>1, <3>2 DEF OfChildren
  <2> QED BY <2>1, <2>2
<1>7. Recursion(g)
  BY <1>5, <1>6 DEF Folded
<1> DEFINE leaves == CHOOSE f : Recursion(f)
<1>8. Recursion(leaves)
  <2> HIDE DEF Recursion
  <2> QED BY <1>7
<1>9. \A n : LeavesOf(n) = leaves[n]
  BY DEF LeavesOf
<1> HIDE DEF leaves
<1>10. \A n \in Trees : LeavesOf(n) = IF IsLeaf(n) THEN {n} ELSE UNION {LeavesOf(c) : c \in Children(n)}
  <2> TAKE n \in Trees
  <2>1. leaves[n] = IF IsLeaf(n) THEN {n} ELSE UNION {leaves[c] : c \in Children(n)}
    BY <1>8
  <2>2. {leaves[c] : c \in Children(n)} = {LeavesOf(c) : c \in Children(n)}
    BY <1>9
  <2> QED BY <1>9, <2>1, <2>2
<1> DEFINE P == {n \in Trees : LeavesOf(n) \subseteq Conditions}
<1>11. Trees \subseteq P
  <2>1. \A l \in Conditions : l \in P
    BY <1>10, Nodes DEF Conditions, IsLeaf
  <2>2. ASSUME NEW n \in Trees, ~IsLeaf(n), \A c \in Children(n) : c \in P
        PROVE  n \in P
    BY <1>10, <2>2
  <2> HIDE DEF P
  <2> QED BY <2>1, <2>2, TreesAre, TreeInduction
<1> QED BY <1>10, <1>11

\* What a function on trees that is chosen by its equation is.
LEMMA HasOrUnfold ==
    \A n \in Trees : HasOr(n) <=> ~IsLeaf(n) /\ (n.operator = "or" \/ \E c \in Children(n) : HasOr(c))
<1> DEFINE Seqs == Seq(BOOLEAN)
           base == [l \in Conditions |-> FALSE]
           combine == [p \in Trees \X Seqs |-> p[1].operator = "or" \/ TRUE \in ToSet(p[2])]
           Recursion(f) == f = [c \in Trees |->
               ~IsLeaf(c) /\ (c.operator = "or" \/ \E d \in Children(c) : f[d])]
<1>1. \A c \in Trees, s \in Seqs :
        combine[<<c, s>>] = (c.operator = "or" \/ TRUE \in ToSet(s))
  OBVIOUS
<1>2. \A l \in Conditions : base[l] = FALSE
  OBVIOUS
<1> HIDE DEF base, combine
<1>3. \A l \in Conditions : base[l] \in BOOLEAN
  BY <1>2
<1>4. \A c \in Trees, s \in Seq(BOOLEAN) : combine[<<c, s>>] \in BOOLEAN
  BY <1>1
<1>5. PICK g : Folded(g, BOOLEAN, base, combine)
  BY <1>3, <1>4, FoldOfTrees
<1>6. \A c \in Trees : g[c] \in BOOLEAN
  BY <1>5 DEF Folded
<1>7. ASSUME NEW c \in Trees
      PROVE  g[c] = (~IsLeaf(c) /\ (c.operator = "or" \/ \E d \in Children(c) : g[d]))
  <2>1. CASE IsLeaf(c)
    BY <1>2, <1>5, <2>1, Nodes DEF Folded, IsNode
  <2>2. CASE ~IsLeaf(c)
    <3>1. OfGroup(g, c) \in Seqs /\ ToSet(OfGroup(g, c)) = OfChildren(g, c)
      BY <1>6, <2>2, ValuesOfGroup
    <3>2. g[c] = combine[<<c, OfGroup(g, c)>>]
      BY <1>5, <2>2, Nodes DEF Folded, IsNode
    <3>3. TRUE \in OfChildren(g, c) <=> \E d \in Children(c) : g[d]
      <4>1. \A d \in Children(c) : g[d] \in BOOLEAN
        BY <1>6, <2>2, Nodes DEF IsNode
      <4> QED BY <4>1 DEF OfChildren
    <3> HIDE DEF Seqs
    <3>4. g[c] = (c.operator = "or" \/ TRUE \in OfChildren(g, c))
      BY <1>1, <3>1, <3>2
    <3> QED BY <2>2, <3>3, <3>4
  <2> QED BY <2>1, <2>2
<1>8. Recursion(g)
  BY <1>5, <1>7 DEF Folded
<1> DEFINE has == CHOOSE f : Recursion(f)
<1>9. Recursion(has)
  <2> HIDE DEF Recursion
  <2> QED BY <1>8
<1>10. \A n : HasOr(n) = has[n]
  BY DEF HasOr
<1> HIDE DEF has
<1> QED BY <1>9, <1>10

LEMMA JoinsWithinUnfold ==
    \A n \in Trees : JoinsWithin(n) <=>
        ~IsLeaf(n) /\ ((n.operator = "and" /\ Joins(Children(n))) \/ \E c \in Children(n) : JoinsWithin(c))
<1> DEFINE Seqs == Seq(BOOLEAN)
           Here(c) == c.operator = "and" /\ Joins(Children(c))
           base == [l \in Conditions |-> FALSE]
           combine == [p \in Trees \X Seqs |-> Here(p[1]) \/ TRUE \in ToSet(p[2])]
           Recursion(f) == f = [c \in Trees |->
               ~IsLeaf(c) /\ \/ c.operator = "and" /\ Joins(Children(c))
                             \/ \E d \in Children(c) : f[d]]
<1> HIDE DEF Here
<1>1. \A c \in Trees, s \in Seqs : combine[<<c, s>>] = (Here(c) \/ TRUE \in ToSet(s))
  OBVIOUS
<1>2. \A l \in Conditions : base[l] = FALSE
  OBVIOUS
<1> HIDE DEF base, combine
<1>3. \A l \in Conditions : base[l] \in BOOLEAN
  BY <1>2
<1>4. \A c \in Trees, s \in Seq(BOOLEAN) : combine[<<c, s>>] \in BOOLEAN
  BY <1>1
<1>5. PICK g : Folded(g, BOOLEAN, base, combine)
  BY <1>3, <1>4, FoldOfTrees
<1>6. \A c \in Trees : g[c] \in BOOLEAN
  BY <1>5 DEF Folded
<1>7. ASSUME NEW c \in Trees
      PROVE  g[c] = (~IsLeaf(c) /\ (Here(c) \/ \E d \in Children(c) : g[d]))
  <2>1. CASE IsLeaf(c)
    BY <1>2, <1>5, <2>1, Nodes DEF Folded, IsNode
  <2>2. CASE ~IsLeaf(c)
    <3>1. OfGroup(g, c) \in Seqs /\ ToSet(OfGroup(g, c)) = OfChildren(g, c)
      BY <1>6, <2>2, ValuesOfGroup
    <3>2. g[c] = combine[<<c, OfGroup(g, c)>>]
      BY <1>5, <2>2, Nodes DEF Folded, IsNode
    <3>3. TRUE \in OfChildren(g, c) <=> \E d \in Children(c) : g[d]
      <4>1. \A d \in Children(c) : g[d] \in BOOLEAN
        BY <1>6, <2>2, Nodes DEF IsNode
      <4> QED BY <4>1 DEF OfChildren
    <3> HIDE DEF Seqs
    <3>4. g[c] = (Here(c) \/ TRUE \in OfChildren(g, c))
      BY <1>1, <3>1, <3>2
    <3> QED BY <2>2, <3>3, <3>4
  <2> QED BY <2>1, <2>2
<1>8. Recursion(g)
  BY <1>5, <1>7 DEF Folded, Here
<1> DEFINE joins == CHOOSE f : Recursion(f)
<1>9. Recursion(joins)
  <2> HIDE DEF Recursion
  <2> QED BY <1>8
<1>10. \A n : JoinsWithin(n) = joins[n]
  BY DEF JoinsWithin
<1> HIDE DEF joins
<1> QED BY <1>9, <1>10

LEMMA SatisfiedUnfold ==
    ASSUME NEW true, NEW n \in Trees
    PROVE  Satisfied(n, true) <=> IF IsLeaf(n) THEN n \in true
                                  ELSE IF n.operator = "or" THEN \E c \in Children(n) : Satisfied(c, true)
                                  ELSE \A c \in Children(n) : Satisfied(c, true)
<1> DEFINE Seqs == Seq(BOOLEAN)
           base == [l \in Conditions |-> l \in true]
           combine == [p \in Trees \X Seqs |->
               \/ p[1].operator = "or" /\ TRUE \in ToSet(p[2])
               \/ p[1].operator # "or" /\ FALSE \notin ToSet(p[2])]
           Recursion(f) == f = [c \in Trees |->
               IF IsLeaf(c) THEN c \in true
               ELSE IF c.operator = "or" THEN \E d \in Children(c) : f[d]
               ELSE \A d \in Children(c) : f[d]]
<1>1. \A c \in Trees, s \in Seqs :
        combine[<<c, s>>] = (\/ c.operator = "or" /\ TRUE \in ToSet(s)
                             \/ c.operator # "or" /\ FALSE \notin ToSet(s))
  OBVIOUS
<1>2. \A l \in Conditions : base[l] = (l \in true)
  OBVIOUS
<1> HIDE DEF base, combine
<1>3. \A l \in Conditions : base[l] \in BOOLEAN
  <2>1. \A l \in Conditions : (l \in true) \in BOOLEAN
    OBVIOUS
  <2> QED BY <1>2, <2>1
<1>4. \A c \in Trees, s \in Seq(BOOLEAN) : combine[<<c, s>>] \in BOOLEAN
  BY <1>1
<1>5. PICK g : Folded(g, BOOLEAN, base, combine)
  BY <1>3, <1>4, FoldOfTrees
<1>6. \A c \in Trees : g[c] \in BOOLEAN
  BY <1>5 DEF Folded
<1>7. ASSUME NEW c \in Trees
      PROVE  g[c] = IF IsLeaf(c) THEN c \in true
                    ELSE IF c.operator = "or" THEN \E d \in Children(c) : g[d]
                    ELSE \A d \in Children(c) : g[d]
  <2>1. CASE IsLeaf(c)
    BY <1>2, <1>5, <2>1, Nodes DEF Folded, IsNode
  <2>2. CASE ~IsLeaf(c)
    <3>1. OfGroup(g, c) \in Seqs /\ ToSet(OfGroup(g, c)) = OfChildren(g, c)
      BY <1>6, <2>2, ValuesOfGroup
    <3>2. g[c] = combine[<<c, OfGroup(g, c)>>]
      BY <1>5, <2>2, Nodes DEF Folded, IsNode
    <3>3. /\ TRUE \in OfChildren(g, c) <=> \E d \in Children(c) : g[d]
          /\ FALSE \notin OfChildren(g, c) <=> \A d \in Children(c) : g[d]
      <4>1. \A d \in Children(c) : g[d] \in BOOLEAN
        BY <1>6, <2>2, Nodes DEF IsNode
      <4> QED BY <4>1 DEF OfChildren
    <3> HIDE DEF Seqs
    <3>4. g[c] = (\/ c.operator = "or" /\ TRUE \in OfChildren(g, c)
                  \/ c.operator # "or" /\ FALSE \notin OfChildren(g, c))
      BY <1>1, <3>1, <3>2
    <3>5. CASE c.operator = "or"
      <4>1. g[c] <=> TRUE \in OfChildren(g, c)
        BY <3>4, <3>5
      <4> QED BY <1>6, <2>2, <3>3, <3>5, <4>1
    <3>6. CASE c.operator # "or"
      <4>1. g[c] <=> FALSE \notin OfChildren(g, c)
        BY <3>4, <3>6
      <4> QED BY <1>6, <2>2, <3>3, <3>6, <4>1
    <3> QED BY <3>5, <3>6
  <2> QED BY <2>1, <2>2
<1>8. Recursion(g)
  BY <1>5, <1>7 DEF Folded
<1> DEFINE holds == CHOOSE f : Recursion(f)
<1>9. Recursion(holds)
  <2> HIDE DEF Recursion
  <2> QED BY <1>8
<1>10. \A m : Satisfied(m, true) = holds[m]
  BY DEF Satisfied
<1> HIDE DEF holds
<1> QED BY <1>9, <1>10

\* The last of some positions.
LEMMA LastOne ==
    ASSUME NEW N \in Nat, NEW I \in SUBSET (1..N), I # {}
    PROVE  Max(I) \in I /\ \A i \in I : i <= Max(I)
<1> DEFINE HasLast(m) == \A J \in SUBSET (1..m) : J # {} => \E x \in J : \A y \in J : x >= y
           T == {m \in 0..N : HasLast(m)}
<1>1. 0 \in T
  <2>1. 1..0 = {} /\ \A J \in SUBSET {} : J = {}
    OBVIOUS
  <2>2. HasLast(0)
    BY <2>1
  <2> QED BY <2>2
<1>2. ASSUME NEW m \in 0..(N - 1), m \in T
      PROVE  m + 1 \in T
  <2>1. ASSUME NEW J \in SUBSET (1..(m + 1)), J # {}
        PROVE  \E x \in J : \A y \in J : x >= y
    <3>1. CASE m + 1 \in J
      BY <3>1
    <3>2. CASE m + 1 \notin J
      <4>1. J \in SUBSET (1..m)
        BY <3>2
      <4> QED BY <1>2, <2>1, <4>1
    <3> QED BY <3>1, <3>2
  <2> QED BY <1>2, <2>1
<1>3. N \in T
  <2> HIDE DEF T
  <2> QED BY <1>1, <1>2, Log!UpTo
<1>4. \E x \in I : \A y \in I : x >= y
  BY <1>3
<1> QED BY <1>4 DEF Max

\* What is left of dictionaries that are updated with one after another.
LEMMA UpdatesAre ==
    ASSUME NEW S, NEW d \in Seq(S)
    PROVE  /\ Updates(d) = [k \in DOMAIN Updates(d) |-> Updates(d)[k]]
           /\ \A k : k \in DOMAIN Updates(d) <=> \E i \in DOMAIN d : k \in DOMAIN d[i]
           /\ \A k \in DOMAIN Updates(d) : \E i \in DOMAIN d :
                /\ k \in DOMAIN d[i] /\ Updates(d)[k] = d[i][k]
                /\ \A j \in DOMAIN d : k \in DOMAIN d[j] => j <= i
<1> DEFINE N == Len(d)
           Keys == UNION {DOMAIN d[i] : i \in DOMAIN d}
           At(k) == {i \in DOMAIN d : k \in DOMAIN d[i]}
<1>1. N \in Nat /\ DOMAIN d = 1..N
  BY LenProperties
<1>2. Updates(d) = [k \in Keys |-> d[Max(At(k))][k]]
  BY DEF Updates
<1>3. \A k : k \in Keys <=> \E i \in DOMAIN d : k \in DOMAIN d[i]
  OBVIOUS
<1>4. ASSUME NEW k \in Keys
      PROVE  Max(At(k)) \in At(k) /\ \A i \in At(k) : i <= Max(At(k))
  <2>1. At(k) \in SUBSET (1..N) /\ At(k) # {}
    BY <1>1, <1>3
  <2> HIDE DEF At
  <2> QED BY <1>1, <2>1, LastOne
<1> HIDE DEF Keys
<1>5. ASSUME NEW k \in Keys
      PROVE  \E i \in DOMAIN d :
                /\ k \in DOMAIN d[i] /\ Updates(d)[k] = d[i][k]
                /\ \A j \in DOMAIN d : k \in DOMAIN d[j] => j <= i
  <2> DEFINE i == Max(At(k))
  <2>1. i \in DOMAIN d /\ k \in DOMAIN d[i] /\ \A j \in DOMAIN d : k \in DOMAIN d[j] => j <= i
    BY <1>4
  <2>2. Updates(d)[k] = d[i][k]
    BY <1>2
  <2> HIDE DEF i
  <2> QED BY <2>1, <2>2
<1>6. DOMAIN Updates(d) = Keys /\ Updates(d) = [k \in Keys |-> Updates(d)[k]]
  <2> HIDE DEF At
  <2> QED BY <1>2
<1> QED BY <1>3, <1>5, <1>6

\* Parameters with the columns and the values of some conditions.
IsDictionary(d) == d = [k \in DOMAIN d |-> d[k]]
Dictionaries(K, W) == UNION {[D -> W] : D \in SUBSET K}
LEMMA DictionariesAre ==
    ASSUME NEW K, NEW W, NEW d
    PROVE  d \in Dictionaries(K, W) <=>
             IsDictionary(d) /\ DOMAIN d \subseteq K /\ \A k \in DOMAIN d : d[k] \in W
<1>1. ASSUME d \in Dictionaries(K, W)
      PROVE  IsDictionary(d) /\ DOMAIN d \subseteq K /\ \A k \in DOMAIN d : d[k] \in W
  BY <1>1 DEF Dictionaries, IsDictionary
<1>2. ASSUME IsDictionary(d), DOMAIN d \subseteq K, \A k \in DOMAIN d : d[k] \in W
      PROVE  d \in Dictionaries(K, W)
  <2>1. d \in [DOMAIN d -> W]
    BY <1>2 DEF IsDictionary
  <2> QED BY <1>2, <2>1 DEF Dictionaries
<1> QED BY <1>1, <1>2

LEMMA UpdatesOfDictionaries ==
    ASSUME NEW K, NEW W, NEW d \in Seq(Dictionaries(K, W))
    PROVE  Updates(d) \in Dictionaries(K, W)
<1>1. \A i \in DOMAIN d : d[i] \in Dictionaries(K, W)
  OBVIOUS
<1>2. IsDictionary(Updates(d))
  BY UpdatesAre DEF IsDictionary
<1>3. DOMAIN Updates(d) \subseteq K
  BY <1>1, UpdatesAre, DictionariesAre
<1>4. ASSUME NEW k \in DOMAIN Updates(d)
      PROVE  Updates(d)[k] \in W
  <2>1. PICK i \in DOMAIN d : k \in DOMAIN d[i] /\ Updates(d)[k] = d[i][k]
    BY UpdatesAre
  <2> QED BY <1>1, <2>1, DictionariesAre
<1> QED BY <1>2, <1>3, <1>4, DictionariesAre

\* The parameters of a tree are those of its conditions.
OfDictionaries(of) == \A l \in Conditions : IsDictionary(of[l])
MergedOf(n, of) == [i \in DOMAIN n.conditions |-> Merged(n.conditions[i], of)]
LEMMA MergedUnfold ==
    ASSUME NEW of, OfDictionaries(of)
    PROVE  \E K, W : \A n \in Trees :
             /\ Merged(n, of) \in Dictionaries(K, W)
             /\ IsLeaf(n) => Merged(n, of) = of[n]
             /\ ~IsLeaf(n) => Merged(n, of) = Updates(MergedOf(n, of))
<1> DEFINE K == UNION {DOMAIN of[l] : l \in Conditions}
           W == UNION {{of[l][k] : k \in DOMAIN of[l]} : l \in Conditions}
           S == Dictionaries(K, W)
           combine == [p \in Trees \X Seq(S) |-> Updates(p[2])]
           Recursion(f) == f = [c \in Trees |->
               IF IsLeaf(c) THEN of[c] ELSE Updates([i \in DOMAIN c.conditions |-> f[c.conditions[i]]])]
<1>1. \A c \in Trees, s \in Seq(S) : combine[<<c, s>>] = Updates(s)
  OBVIOUS
<1>2. \A l \in Conditions : of[l] \in S
  <2> TAKE l \in Conditions
  <2>1. IsDictionary(of[l])
    BY DEF OfDictionaries
  <2>2. DOMAIN of[l] \subseteq K /\ \A k \in DOMAIN of[l] : of[l][k] \in W
    OBVIOUS
  <2> HIDE DEF K, W
  <2> QED BY <2>1, <2>2, DictionariesAre
<1> HIDE DEF combine, K, W
<1>3. \A c \in Trees, s \in Seq(S) : combine[<<c, s>>] \in S
  BY <1>1, UpdatesOfDictionaries
<1> HIDE DEF S
<1>4. PICK g : Folded(g, S, of, combine)
  BY <1>2, <1>3, FoldOfTrees
<1>5. \A c \in Trees : g[c] \in S
  BY <1>4 DEF Folded
<1>6. ASSUME NEW c \in Trees
      PROVE  g[c] = IF IsLeaf(c) THEN of[c] ELSE Updates(OfGroup(g, c))
  <2>1. CASE IsLeaf(c)
    BY <1>4, <2>1 DEF Folded
  <2>2. CASE ~IsLeaf(c)
    <3>1. OfGroup(g, c) \in Seq(S)
      BY <1>5, <2>2, ValuesOfGroup
    <3>2. g[c] = combine[<<c, OfGroup(g, c)>>]
      BY <1>4, <2>2, Nodes DEF Folded, IsNode
    <3> QED BY <1>1, <2>2, <3>1, <3>2
  <2> QED BY <2>1, <2>2
<1>7. Recursion(g)
  BY <1>4, <1>6 DEF Folded, OfGroup
<1> DEFINE Chosen(f) == Recursion(f) /\ \A c \in Trees : f[c] \in S
           merged == CHOOSE f : Recursion(f)
<1>8. Recursion(merged)
  <2> HIDE DEF Recursion
  <2> QED BY <1>7
<1>9. \A n : Merged(n, of) = merged[n]
  BY DEF Merged
<1> HIDE DEF merged
<1>10. \A n \in Trees : Merged(n, of) = IF IsLeaf(n) THEN of[n] ELSE Updates(MergedOf(n, of))
  <2>1. \A n : MergedOf(n, of) = [i \in DOMAIN n.conditions |-> merged[n.conditions[i]]]
    BY <1>9 DEF MergedOf
  <2>2. \A n \in Trees : merged[n] = IF IsLeaf(n) THEN of[n]
                                     ELSE Updates([i \in DOMAIN n.conditions |-> merged[n.conditions[i]]])
    BY <1>8
  <2> QED BY <1>9, <2>1, <2>2
<1>11. Trees \subseteq {n \in Trees : Merged(n, of) \in S}
  <2> DEFINE P == {n \in Trees : Merged(n, of) \in S}
  <2>1. \A l \in Conditions : l \in P
    BY <1>2, <1>10, Nodes DEF Conditions, IsLeaf
  <2>2. ASSUME NEW n \in Trees, ~IsLeaf(n), \A c \in Children(n) : c \in P
        PROVE  n \in P
    <3>1. n.conditions \in Seq(Trees) /\ \A i \in DOMAIN n.conditions : n.conditions[i] \in Children(n)
      BY <2>2, Nodes DEF IsNode, Children
    <3>2. \A i \in DOMAIN n.conditions : Merged(n.conditions[i], of) \in S
      BY <2>2, <3>1
    <3>3. MergedOf(n, of) \in Seq(S)
      BY <3>1, <3>2 DEF MergedOf
    <3>4. Updates(MergedOf(n, of)) \in S
      BY <3>3, UpdatesOfDictionaries DEF S
    <3> QED BY <1>10, <2>2, <3>4
  <2> HIDE DEF P
  <2>3. Trees \subseteq P
    BY <2>1, <2>2, TreesAre, TreeInduction
  <2> QED BY <2>3 DEF P
<1> QED BY <1>10, <1>11 DEF S

\* What parameters are of: their keys are those of the conditions, and the value of
\* one is that of some condition.
FromLeaves(params, leaves, of) ==
    /\ IsDictionary(params)
    /\ \A l \in leaves : DOMAIN of[l] \subseteq DOMAIN params
    /\ \A k \in DOMAIN params : \E l \in leaves : k \in DOMAIN of[l] /\ params[k] = of[l][k]
LEMMA UpdatesFromLeaves ==
    ASSUME NEW S, NEW d \in Seq(S), NEW of, NEW leaves, DOMAIN leaves = DOMAIN d,
           \A i \in DOMAIN d : FromLeaves(d[i], leaves[i], of)
    PROVE  FromLeaves(Updates(d), UNION {leaves[i] : i \in DOMAIN d}, of)
<1>1. IsDictionary(Updates(d))
  BY UpdatesAre DEF IsDictionary
<1>2. \A i \in DOMAIN d : DOMAIN d[i] \subseteq DOMAIN Updates(d)
  BY UpdatesAre
<1>3. ASSUME NEW k \in DOMAIN Updates(d)
      PROVE  \E l \in UNION {leaves[i] : i \in DOMAIN d} :
                k \in DOMAIN of[l] /\ Updates(d)[k] = of[l][k]
  <2>1. PICK i \in DOMAIN d : k \in DOMAIN d[i] /\ Updates(d)[k] = d[i][k]
    BY UpdatesAre
  <2>2. PICK l \in leaves[i] : k \in DOMAIN of[l] /\ d[i][k] = of[l][k]
    BY <2>1 DEF FromLeaves
  <2> QED BY <2>1, <2>2
<1> QED BY <1>1, <1>2, <1>3 DEF FromLeaves
LEMMA MergedIs ==
    ASSUME NEW of, OfDictionaries(of), NEW n \in Trees
    PROVE  FromLeaves(Merged(n, of), LeavesOf(n), of)
<1> DEFINE P == {m \in Trees : FromLeaves(Merged(m, of), LeavesOf(m), of)}
<1>1. PICK K, W : \A m \in Trees :
        /\ Merged(m, of) \in Dictionaries(K, W)
        /\ IsLeaf(m) => Merged(m, of) = of[m]
        /\ ~IsLeaf(m) => Merged(m, of) = Updates(MergedOf(m, of))
  BY MergedUnfold
<1>2. ASSUME NEW l \in Conditions
      PROVE  l \in P
  <2>1. l \in Trees /\ IsLeaf(l)
    BY Nodes DEF Conditions, IsLeaf
  <2>2. Merged(l, of) = of[l] /\ LeavesOf(l) = {l}
    BY <1>1, <2>1, LeavesUnfold
  <2>3. IsDictionary(of[l])
    BY DEF OfDictionaries
  <2> QED BY <2>1, <2>2, <2>3 DEF FromLeaves
<1>3. ASSUME NEW m \in Trees, ~IsLeaf(m), \A c \in Children(m) : c \in P
      PROVE  m \in P
  <2> DEFINE leaves == [i \in DOMAIN m.conditions |-> LeavesOf(m.conditions[i])]
  <2>1. m.conditions \in Seq(Trees) /\ \A i \in DOMAIN m.conditions : m.conditions[i] \in Children(m)
    BY <1>3, Nodes DEF IsNode, Children
  <2>2. /\ MergedOf(m, of) \in Seq(Dictionaries(K, W))
        /\ DOMAIN MergedOf(m, of) = DOMAIN m.conditions
        /\ \A i \in DOMAIN m.conditions : MergedOf(m, of)[i] = Merged(m.conditions[i], of)
    <3>1. m.conditions \in Seq(Trees) /\ \A i \in DOMAIN m.conditions : m.conditions[i] \in Trees
      BY <2>1
    <3>2. \A i \in DOMAIN m.conditions : Merged(m.conditions[i], of) \in Dictionaries(K, W)
      BY <1>1, <3>1
    <3> QED BY <3>1, <3>2 DEF MergedOf
  <2>3. UNION {leaves[i] : i \in DOMAIN m.conditions} = LeavesOf(m)
    <3>1. LeavesOf(m) = UNION {LeavesOf(c) : c \in Children(m)}
      BY <1>3, LeavesUnfold
    <3>2. \A i \in DOMAIN m.conditions : leaves[i] = LeavesOf(m.conditions[i])
      OBVIOUS
    <3> HIDE DEF leaves
    <3> QED BY <3>1, <3>2 DEF Children
  <2>4. /\ DOMAIN leaves = DOMAIN m.conditions
        /\ \A i \in DOMAIN m.conditions : FromLeaves(MergedOf(m, of)[i], leaves[i], of)
    BY <1>3, <2>1, <2>2
  <2> HIDE DEF leaves
  <2>5. FromLeaves(Updates(MergedOf(m, of)), LeavesOf(m), of)
    BY <2>2, <2>3, <2>4, UpdatesFromLeaves
  <2> QED BY <1>1, <1>3, <2>5
<1>4. Trees \subseteq P
  <2> HIDE DEF P
  <2> QED BY <1>2, <1>3, TreesAre, TreeInduction
<1> QED BY <1>4

\* A tree with trees of one height for its conditions is nested by as much more.
RewrittenOf(n, by) == [i \in DOMAIN n.conditions |-> Rewritten(n.conditions[i], by)]
LEMMA RewrittenUnfold ==
    ASSUME NEW d \in Nat, NEW by, \A l \in Conditions : by[l] \in TreesOf[d]
    PROVE  /\ \A n \in Trees : Rewritten(n, by) = IF IsLeaf(n) THEN by[n]
                                                  ELSE Group(n.operator, RewrittenOf(n, by))
           /\ \A h \in 0..(MaxHeight + 2) : \A n \in TreesOf[h] : Rewritten(n, by) \in TreesOf[h + d]
<1> DEFINE H == MaxHeight + 2
<1>1. H \in Nat /\ Trees = TreesOf[H]
  BY TreesAre
<1> HIDE DEF H
<1> DEFINE V == [h \in 0..H |-> TreesOf[h + d]]
           Seqs == Seq(TreesOf[H + d])
           combine == [p \in Trees \X Seqs |-> Group(p[1].operator, p[2])]
           Recursion(f) == f = [c \in Trees |->
               IF IsLeaf(c) THEN by[c]
               ELSE Group(c.operator, [i \in DOMAIN c.conditions |-> f[c.conditions[i]]])]
<1>2. \A c \in Trees, s \in Seqs : combine[<<c, s>>] = Group(c.operator, s)
  OBVIOUS
<1>3. \A h \in 0..H : V[h] = TreesOf[h + d]
  OBVIOUS
<1> HIDE DEF V, combine
<1>4. ASSUME NEW h \in 0..(H - 1)
      PROVE  /\ h \in 0..H /\ h + 1 \in 0..H /\ V[h] = TreesOf[h + d] /\ V[h + 1] = Higher(V[h])
  <2>1. h \in 0..H /\ h + 1 \in 0..H /\ h + d \in Nat /\ (h + 1) + d = (h + d) + 1
    BY <1>1
  <2> QED BY <1>3, <2>1, Nesting
<1>5. ASSUME NEW h \in 0..(H - 1), NEW c \in TreesOf[h + 1], NEW s \in Seq(V[h]), ~IsLeaf(c)
      PROVE  combine[<<c, s>>] \in V[h + 1]
  <2>0. c \in Trees /\ c.operator \in {"and", "or"}
    <3>1. h + 1 \in 0..H
      BY <1>1
    <3>2. c \in Trees
      BY <1>1, <3>1, HigherHasLower
    <3> QED BY <1>5, <3>2, Nodes DEF IsNode
  <2>1. h + d \in 0..(H + d) /\ H + d \in Nat
    BY <1>1
  <2>2. TreesOf[h + d] \subseteq TreesOf[H + d]
    BY <2>1, HigherHasLower
  <2>3. s \in Seqs
    BY <1>4, <2>2
  <2> HIDE DEF Seqs
  <2>4. combine[<<c, s>>] = Group(c.operator, s)
    BY <1>2, <2>0, <2>3
  <2>5. Group(c.operator, s) \in Higher(V[h])
    BY <2>0 DEF Group, Higher
  <2> QED BY <1>4, <2>4, <2>5
<1>6. Combines(V, by, combine, H)
  <2>1. 0 \in 0..H /\ 0 + d = d
    BY <1>1
  <2>2. \A l \in Conditions : by[l] \in V[0]
    BY <1>3, <2>1
  <2>3. \A h \in 0..(H - 1) : V[h] \subseteq V[h + 1]
    BY <1>4 DEF Higher
  <2> QED BY <1>5, <2>2, <2>3 DEF Combines
<1>7. PICK g : g = [n \in Trees |-> g[n]] /\ Fold(g, Trees, by, combine) /\ Valued(g, V, H)
  BY <1>1, <1>6, FoldExists
<1>8. \A c \in Trees : g[c] \in TreesOf[H + d]
  <2>1. H \in 0..H
    BY <1>1
  <2> QED BY <1>1, <1>3, <1>7, <2>1 DEF Valued
<1>9. ASSUME NEW c \in Trees
      PROVE  g[c] = IF IsLeaf(c) THEN by[c] ELSE Group(c.operator, OfGroup(g, c))
  <2>1. CASE IsLeaf(c)
    BY <1>7, <2>1 DEF Fold
  <2>2. CASE ~IsLeaf(c)
    <3>1. OfGroup(g, c) \in Seqs
      BY <1>8, <2>2, ValuesOfGroup
    <3>2. g[c] = combine[<<c, OfGroup(g, c)>>]
      BY <1>7, <2>2, Nodes DEF Fold, IsNode, OfGroup
    <3> HIDE DEF Seqs
    <3> QED BY <1>2, <2>2, <3>1, <3>2
  <2> QED BY <2>1, <2>2
<1>10. Recursion(g)
  BY <1>7, <1>9 DEF OfGroup
<1> DEFINE new == CHOOSE f : Recursion(f)
<1>11. Recursion(new)
  <2> HIDE DEF Recursion
  <2> QED BY <1>10
<1>12. \A n : Rewritten(n, by) = new[n]
  BY DEF Rewritten
<1> HIDE DEF new
<1>13. \A n \in Trees : Rewritten(n, by) = IF IsLeaf(n) THEN by[n] ELSE Group(n.operator, RewrittenOf(n, by))
  <2>1. \A n : RewrittenOf(n, by) = [i \in DOMAIN n.conditions |-> new[n.conditions[i]]]
    BY <1>12 DEF RewrittenOf
  <2>2. \A n \in Trees : new[n] = IF IsLeaf(n) THEN by[n]
            ELSE Group(n.operator, [i \in DOMAIN n.conditions |-> new[n.conditions[i]]])
    BY <1>11
  <2> QED BY <1>12, <2>1, <2>2
<1> DEFINE T == {h \in 0..H : \A n \in TreesOf[h] : Rewritten(n, by) \in TreesOf[h + d]}
<1>14. \A h \in 0..H : TreesOf[h] \subseteq Trees
  BY <1>1, HigherHasLower
<1>15. 0 \in T
  BY <1>1, <1>13, <1>14, Shapes
<1>16. ASSUME NEW h \in 0..(H - 1), h \in T
       PROVE  h + 1 \in T
  <2>1. h \in Nat /\ h + d \in Nat /\ (h + 1) + d = (h + d) + 1 /\ h + 1 \in 0..H /\ h \in 0..H
    BY <1>1
  <2>2. TreesOf[(h + 1) + d] = Higher(TreesOf[h + d])
    BY <2>1, Nesting
  <2>3. ASSUME NEW n \in TreesOf[h + 1]
        PROVE  Rewritten(n, by) \in TreesOf[(h + 1) + d]
    <3>1. n \in Trees
      BY <1>14, <2>1
    <3>2. CASE IsLeaf(n) /\ n \in Conditions
      <4>1. d \in 0..((h + 1) + d) /\ (h + 1) + d \in Nat
        BY <2>1
      <4> QED BY <1>13, <3>1, <3>2, <4>1, HigherHasLower
    <3>3. CASE IsNode(n, TreesOf[h])
      <4>1. n.conditions \in Seq(TreesOf[h]) /\ n.operator \in {"and", "or"} /\ ~IsLeaf(n)
        BY <3>3 DEF IsNode
      <4>2. \A i \in DOMAIN n.conditions : Rewritten(n.conditions[i], by) \in TreesOf[h + d]
        BY <1>16, <4>1
      <4>3. RewrittenOf(n, by) \in Seq(TreesOf[h + d])
        BY <4>1, <4>2 DEF RewrittenOf
      <4>4. Group(n.operator, RewrittenOf(n, by)) \in Higher(TreesOf[h + d])
        BY <4>1, <4>3 DEF Group, Higher
      <4> QED BY <1>13, <2>2, <3>1, <4>1, <4>4
    <3> QED BY <2>1, <3>2, <3>3, Shapes
  <2> QED BY <2>1, <2>3
<1>17. \A h \in 0..H : h \in T
  <2> HIDE DEF T
  <2> QED BY <1>1, <1>15, <1>16, Log!UpTo
<1> QED BY <1>13, <1>17 DEF H

LEMMA RewrittenGroup ==
    ASSUME NEW d \in Nat, NEW by, \A l \in Conditions : by[l] \in TreesOf[d],
           NEW n \in Trees, ~IsLeaf(n)
    PROVE  /\ ~IsLeaf(Rewritten(n, by)) /\ Rewritten(n, by).operator = n.operator
           /\ Rewritten(n, by).conditions = RewrittenOf(n, by)
           /\ Children(Rewritten(n, by)) = {Rewritten(c, by) : c \in Children(n)}
<1>1. Rewritten(n, by) = Group(n.operator, RewrittenOf(n, by))
  BY RewrittenUnfold
<1>2. /\ ~IsLeaf(Rewritten(n, by)) /\ Rewritten(n, by).operator = n.operator
      /\ Rewritten(n, by).conditions = RewrittenOf(n, by)
  BY <1>1 DEF Group, IsLeaf
<1>3. Children(Rewritten(n, by)) = {RewrittenOf(n, by)[i] : i \in DOMAIN RewrittenOf(n, by)}
  BY <1>2 DEF Children
<1>4. {RewrittenOf(n, by)[i] : i \in DOMAIN RewrittenOf(n, by)}
      = {Rewritten(n.conditions[i], by) : i \in DOMAIN n.conditions}
  BY DEF RewrittenOf
<1> QED BY <1>2, <1>3, <1>4 DEF Children

\* The conditions of what a tree groups are its own.
LEMMA LeavesOfChildren ==
    \A n \in Trees : ~IsLeaf(n) =>
        \A c \in Children(n) : c \in Trees /\ LeavesOf(c) \subseteq LeavesOf(n)
BY LeavesUnfold, Nodes DEF IsNode

\* Thruk answers a q= expression whose conditions are all on lists, or all on single
\* values.
Alike(leaves) == \/ \A l \in leaves : l.field \in ListFields
                 \/ \A l \in leaves : l.field \notin ListFields
LEMMA AlikeIsReadable ==
    ASSUME NEW q \in SUBSET Trees, Alike(UNION {LeavesOf(n) : n \in q})
    PROVE  Readable(q)
<1>1. ASSUME NEW trees, Alike(UNION {LeavesOf(n) : n \in trees})
      PROVE  ~Joins(trees)
  BY <1>1 DEF Joins, Alike
<1> DEFINE P == {m \in Trees : Alike(LeavesOf(m)) => ~JoinsWithin(m)}
<1>2. ASSUME NEW l \in Conditions
      PROVE  l \in P
  <2>1. l \in Trees /\ IsLeaf(l)
    BY Nodes DEF Conditions, IsLeaf
  <2> QED BY <2>1, JoinsWithinUnfold
<1>3. ASSUME NEW m \in Trees, ~IsLeaf(m), \A c \in Children(m) : c \in P
      PROVE  m \in P
  <2> SUFFICES ASSUME Alike(LeavesOf(m))
               PROVE  ~JoinsWithin(m)
    OBVIOUS
  <2>1. LeavesOf(m) = UNION {LeavesOf(c) : c \in Children(m)}
    BY <1>3, LeavesUnfold
  <2>2. ~Joins(Children(m))
    BY <1>1, <2>1
  <2>3. \A c \in Children(m) : Alike(LeavesOf(c))
    BY <1>3, LeavesOfChildren DEF Alike
  <2>4. \A c \in Children(m) : ~JoinsWithin(c)
    BY <1>3, <2>3
  <2> QED BY <1>3, <2>2, <2>4, JoinsWithinUnfold
<1>4. Trees \subseteq P
  <2> HIDE DEF P
  <2> QED BY <1>2, <1>3, TreesAre, TreeInduction
<1>5. \A n \in q : Alike(LeavesOf(n))
  BY DEF Alike
<1>6. \A n \in q : ~JoinsWithin(n)
  BY <1>4, <1>5
<1> QED BY <1>1, <1>6 DEF Readable

\* A tree that holds goes on to hold when more of its conditions do.
LEMMA MoreSatisfied ==
    ASSUME NEW S, NEW T, NEW n \in Trees, \A l \in LeavesOf(n) : l \in S => l \in T,
           Satisfied(n, S)
    PROVE  Satisfied(n, T)
<1> DEFINE P == {m \in Trees : (\A l \in LeavesOf(m) : l \in S => l \in T)
                                 => (Satisfied(m, S) => Satisfied(m, T))}
<1>1. ASSUME NEW l \in Conditions
      PROVE  l \in P
  <2>1. l \in Trees /\ IsLeaf(l)
    BY Nodes DEF Conditions, IsLeaf
  <2>2. LeavesOf(l) = {l} /\ (Satisfied(l, S) <=> l \in S) /\ (Satisfied(l, T) <=> l \in T)
    BY <2>1, LeavesUnfold, SatisfiedUnfold
  <2> QED BY <2>1, <2>2
<1>2. ASSUME NEW m \in Trees, ~IsLeaf(m), \A c \in Children(m) : c \in P
      PROVE  m \in P
  <2> SUFFICES ASSUME \A l \in LeavesOf(m) : l \in S => l \in T, Satisfied(m, S)
               PROVE  Satisfied(m, T)
    OBVIOUS
  <2>1. \A c \in Children(m) : Satisfied(c, S) => Satisfied(c, T)
    BY <1>2, LeavesOfChildren
  <2>2. CASE m.operator = "or"
    <3>1. \E c \in Children(m) : Satisfied(c, S)
      BY <1>2, <2>2, SatisfiedUnfold
    <3>2. \E c \in Children(m) : Satisfied(c, T)
      BY <2>1, <3>1
    <3> QED BY <1>2, <2>2, <3>2, SatisfiedUnfold
  <2>3. CASE m.operator # "or"
    <3>1. \A c \in Children(m) : Satisfied(c, S)
      BY <1>2, <2>3, SatisfiedUnfold
    <3>2. \A c \in Children(m) : Satisfied(c, T)
      BY <2>1, <3>1
    <3> QED BY <1>2, <2>3, <3>2, SatisfiedUnfold
  <2> QED BY <2>2, <2>3
<1>3. Trees \subseteq P
  <2> HIDE DEF P
  <2> QED BY <1>1, <1>2, TreesAre, TreeInduction
<1> QED BY <1>3

\* A tree without alternatives holds if all its conditions do.
LEMMA AllSatisfied ==
    ASSUME NEW S, NEW n \in Trees, ~HasOr(n)
    PROVE  Satisfied(n, S) <=> LeavesOf(n) \subseteq S
<1> DEFINE P == {m \in Trees : ~HasOr(m) => (Satisfied(m, S) <=> LeavesOf(m) \subseteq S)}
<1>1. ASSUME NEW l \in Conditions
      PROVE  l \in P
  <2>1. l \in Trees /\ IsLeaf(l)
    BY Nodes DEF Conditions, IsLeaf
  <2>2. LeavesOf(l) = {l} /\ (Satisfied(l, S) <=> l \in S)
    BY <2>1, LeavesUnfold, SatisfiedUnfold
  <2> QED BY <2>1, <2>2
<1>2. ASSUME NEW m \in Trees, ~IsLeaf(m), \A c \in Children(m) : c \in P
      PROVE  m \in P
  <2> SUFFICES ASSUME ~HasOr(m)
               PROVE  Satisfied(m, S) <=> LeavesOf(m) \subseteq S
    OBVIOUS
  <2>1. m.operator # "or" /\ \A c \in Children(m) : ~HasOr(c)
    BY <1>2, HasOrUnfold
  <2>2. Satisfied(m, S) <=> \A c \in Children(m) : Satisfied(c, S)
    BY <1>2, <2>1, SatisfiedUnfold
  <2>3. LeavesOf(m) \subseteq S <=> \A c \in Children(m) : LeavesOf(c) \subseteq S
    BY <1>2, LeavesUnfold
  <2> QED BY <1>2, <2>1, <2>2, <2>3
<1>3. Trees \subseteq P
  <2> HIDE DEF P
  <2> QED BY <1>1, <1>2, TreesAre, TreeInduction
<1> QED BY <1>3

\* What is rewritten has the conditions of what replaces its own, and holds if it would
\* with those for which what replaces them does.
HoldRewritten(by, S) == {l \in Conditions : Satisfied(by[l], S)}
LEMMA RewrittenIs ==
    ASSUME NEW d \in {0, 1}, NEW by, \A l \in Conditions : by[l] \in TreesOf[d],
           NEW n \in TreesOf[MaxHeight + 2 - d], NEW S
    PROVE  /\ n \in Trees /\ Rewritten(n, by) \in Trees
           /\ LeavesOf(Rewritten(n, by)) = UNION {LeavesOf(by[l]) : l \in LeavesOf(n)}
           /\ Satisfied(Rewritten(n, by), S) <=> Satisfied(n, HoldRewritten(by, S))
<1> DEFINE H == MaxHeight + 2 - d
           T == HoldRewritten(by, S)
           New(m) == UNION {LeavesOf(by[l]) : l \in LeavesOf(m)}
           P == {m \in TreesOf[H] : /\ LeavesOf(Rewritten(m, by)) = New(m)
                                    /\ Satisfied(Rewritten(m, by), S) <=> Satisfied(m, T)}
<1>1. /\ H \in Nat /\ H \in 0..(MaxHeight + 2) /\ H + d = MaxHeight + 2 /\ d \in Nat
      /\ d \in 0..(MaxHeight + 2) /\ MaxHeight + 2 \in Nat
  BY FiltersAssumption
<1> HIDE DEF H
<1>2. TreesOf[H] \subseteq Trees /\ TreesOf[d] \subseteq Trees
  BY <1>1, TreesAre, HigherHasLower
<1>3. \A m \in TreesOf[H] : Rewritten(m, by) \in Trees
  BY <1>1, TreesAre, RewrittenUnfold
<1>4. ASSUME NEW l \in Conditions
      PROVE  l \in P
  <2>1. l \in TreesOf[H] /\ l \in Trees /\ IsLeaf(l)
    <3>1. 0 \in 0..H
      BY <1>1
    <3>2. l \in TreesOf[0]
      BY Nesting
    <3>3. l \in TreesOf[H]
      BY <1>1, <3>1, <3>2, HigherHasLower
    <3> QED BY <1>2, <3>2, <3>3, Shapes
  <2>2. LeavesOf(l) = {l} /\ (Satisfied(l, T) <=> l \in T)
    BY <2>1, LeavesUnfold, SatisfiedUnfold
  <2>3. Rewritten(l, by) = by[l]
    BY <1>1, <2>1, RewrittenUnfold
  <2>4. New(l) = LeavesOf(by[l])
    BY <2>2
  <2>5. l \in T <=> Satisfied(by[l], S)
    BY DEF HoldRewritten
  <2> HIDE DEF T, New
  <2> QED BY <2>1, <2>2, <2>3, <2>4, <2>5
<1>5. ASSUME NEW m \in TreesOf[H], ~IsLeaf(m), \A c \in Children(m) : c \in P
      PROVE  m \in P
  <2> DEFINE r == Rewritten(m, by)
  <2>1. m \in Trees /\ r \in Trees
    BY <1>2, <1>3
  <2>2. /\ ~IsLeaf(r) /\ r.operator = m.operator
        /\ Children(r) = {Rewritten(c, by) : c \in Children(m)}
    BY <1>1, <1>5, <2>1, RewrittenGroup
  <2> HIDE DEF r
  <2>3. LeavesOf(r) = New(m)
    <3>1. LeavesOf(r) = UNION {LeavesOf(c) : c \in Children(r)} /\ LeavesOf(m) = UNION {LeavesOf(c) : c \in Children(m)}
      BY <1>5, <2>1, <2>2, LeavesUnfold
    <3>2. \A c \in Children(m) : LeavesOf(Rewritten(c, by)) = New(c)
      BY <1>5
    <3>3. LeavesOf(r) = UNION {New(c) : c \in Children(m)}
      BY <2>2, <3>1, <3>2
    <3> QED BY <3>1, <3>3
  <2>4. Satisfied(r, S) <=> Satisfied(m, T)
    <3> HIDE DEF T
    <3>1. \A c \in Children(m) : Satisfied(Rewritten(c, by), S) <=> Satisfied(c, T)
      BY <1>5
    <3>2. CASE m.operator = "or"
      <4>1. Satisfied(r, S) <=> \E c \in Children(r) : Satisfied(c, S)
        BY <2>1, <2>2, <3>2, SatisfiedUnfold
      <4>2. Satisfied(m, T) <=> \E c \in Children(m) : Satisfied(c, T)
        BY <1>5, <2>1, <3>2, SatisfiedUnfold
      <4> QED BY <2>2, <3>1, <4>1, <4>2
    <3>3. CASE m.operator # "or"
      <4>1. Satisfied(r, S) <=> \A c \in Children(r) : Satisfied(c, S)
        BY <2>1, <2>2, <3>3, SatisfiedUnfold
      <4>2. Satisfied(m, T) <=> \A c \in Children(m) : Satisfied(c, T)
        BY <1>5, <2>1, <3>3, SatisfiedUnfold
      <4> QED BY <2>2, <3>1, <4>1, <4>2
    <3> QED BY <3>2, <3>3
  <2> QED BY <2>3, <2>4 DEF r
<1>6. TreesOf[H] \subseteq P
  <2> HIDE DEF P
  <2> QED BY <1>1, <1>4, <1>5, TreeInduction
<1> QED BY <1>2, <1>3, <1>6 DEF H

\* What a tree is a conjunction of.
Concatenation(seqs) == FlattenSeq(seqs)
ConjunctsOf(n) == [i \in DOMAIN n.conditions |-> Conjuncts(n.conditions[i])]
LEMMA Concatenated ==
    ASSUME NEW S, NEW seqs \in Seq(Seq(S))
    PROVE  /\ Concatenation(seqs) \in Seq(S)
           /\ ToSet(Concatenation(seqs)) = UNION {ToSet(seqs[i]) : i \in DOMAIN seqs}
<1>1. FlattenSeq(seqs) = Log!FlattenSeq(seqs)
  BY Zenon DEF FlattenSeq, Log!FlattenSeq
<1>2. /\ Log!FlattenSeq(seqs) \in Seq(S)
      /\ Log!ToSet(Log!FlattenSeq(seqs)) = UNION {Log!ToSet(seqs[i]) : i \in DOMAIN seqs}
  BY Log!Flattened, Zenon
<1>3. \A s : ToSet(s) = Log!ToSet(s)
  BY DEF ToSet, Log!ToSet
<1>4. {ToSet(seqs[i]) : i \in DOMAIN seqs} = {Log!ToSet(seqs[i]) : i \in DOMAIN seqs}
  BY <1>3
<1> QED BY <1>1, <1>2, <1>3, <1>4 DEF Concatenation
LEMMA ConjunctsUnfold ==
    \A n \in Trees :
        /\ Conjuncts(n) \in Seq(Trees)
        /\ Conjuncts(n) = IF IsLeaf(n) \/ n.operator = "or" THEN <<n>> ELSE Concatenation(ConjunctsOf(n))
<1> DEFINE S == Seq(Trees)
           base == [l \in Conditions |-> <<l>>]
           combine == [p \in Trees \X Seq(S) |->
               IF p[1].operator = "or" THEN <<p[1]>> ELSE Concatenation(p[2])]
           Recursion(f) == f = [c \in Trees |->
               IF IsLeaf(c) \/ c.operator = "or" THEN <<c>>
               ELSE FlattenSeq([i \in DOMAIN c.conditions |-> f[c.conditions[i]]])]
<1>1. \A c \in Trees, s \in Seq(S) :
        combine[<<c, s>>] = IF c.operator = "or" THEN <<c>> ELSE Concatenation(s)
  OBVIOUS
<1>2. \A l \in Conditions : base[l] = <<l>>
  OBVIOUS
<1>3. \A c \in Trees : <<c>> \in S
  OBVIOUS
<1>4. \A s \in Seq(S) : Concatenation(s) \in S
  BY Concatenated
<1> HIDE DEF S, base, combine
<1>5. \A l \in Conditions : base[l] \in S
  BY <1>2, <1>3, Nodes
<1>6. \A c \in Trees, s \in Seq(S) : combine[<<c, s>>] \in S
  BY <1>1, <1>3, <1>4
<1>7. PICK g : Folded(g, S, base, combine)
  BY <1>5, <1>6, FoldOfTrees
<1>8. \A c \in Trees : g[c] \in S
  BY <1>7 DEF Folded
<1>9. ASSUME NEW c \in Trees
      PROVE  g[c] = IF IsLeaf(c) \/ c.operator = "or" THEN <<c>> ELSE Concatenation(OfGroup(g, c))
  <2>1. CASE IsLeaf(c)
    BY <1>2, <1>7, <2>1, Nodes DEF Folded, IsNode
  <2>2. CASE ~IsLeaf(c)
    <3>1. OfGroup(g, c) \in Seq(S)
      BY <1>8, <2>2, ValuesOfGroup
    <3>2. g[c] = combine[<<c, OfGroup(g, c)>>]
      BY <1>7, <2>2 DEF Folded
    <3> QED BY <1>1, <2>2, <3>1, <3>2
  <2> QED BY <2>1, <2>2
<1>10. Recursion(g)
  BY <1>7, <1>9 DEF Folded, OfGroup, Concatenation
<1> DEFINE flat == CHOOSE f : Recursion(f)
<1>11. Recursion(flat)
  <2> HIDE DEF Recursion
  <2> QED BY <1>10
<1>12. \A n : Conjuncts(n) = flat[n]
  BY DEF Conjuncts
<1> HIDE DEF flat
<1>13. \A n \in Trees : Conjuncts(n) = IF IsLeaf(n) \/ n.operator = "or" THEN <<n>>
                                       ELSE Concatenation(ConjunctsOf(n))
  <2>1. \A n : ConjunctsOf(n) = [i \in DOMAIN n.conditions |-> flat[n.conditions[i]]]
    BY <1>12 DEF ConjunctsOf
  <2>2. \A n \in Trees : flat[n] = IF IsLeaf(n) \/ n.operator = "or" THEN <<n>>
            ELSE Concatenation([i \in DOMAIN n.conditions |-> flat[n.conditions[i]]])
    BY <1>11 DEF Concatenation
  <2> QED BY <1>12, <2>1, <2>2
<1> DEFINE P == {n \in Trees : Conjuncts(n) \in S}
<1>14. Trees \subseteq P
  <2>1. \A l \in Conditions : l \in P
    BY <1>3, <1>13, Nodes DEF Conditions, IsLeaf
  <2>2. ASSUME NEW n \in Trees, ~IsLeaf(n), \A c \in Children(n) : c \in P
        PROVE  n \in P
    <3>1. n.conditions \in Seq(Trees) /\ \A i \in DOMAIN n.conditions : n.conditions[i] \in Children(n)
      BY <2>2, Nodes DEF IsNode, Children
    <3>2. \A i \in DOMAIN n.conditions : Conjuncts(n.conditions[i]) \in S
      BY <2>2, <3>1
    <3>3. ConjunctsOf(n) \in Seq(S)
      BY <3>1, <3>2 DEF ConjunctsOf
    <3> QED BY <1>3, <1>4, <1>13, <2>2, <3>3
  <2> HIDE DEF P
  <2> QED BY <2>1, <2>2, TreesAre, TreeInduction
<1> QED BY <1>13, <1>14 DEF S

\* A tree without the conditions on a field is at most one tree, nested no deeper, of
\* the other conditions.
LEMMA StrippedIs ==
    ASSUME NEW field, NEW n \in TreesOf[MaxHeight], NEW m \in ToSet(Stripped(n, field))
    PROVE  m \in TreesOf[MaxHeight] /\ \A l \in LeavesOf(m) : l \in LeavesOf(n) /\ l.field # field
<1>0. \A S, x : x \in S => <<x>> \in Seq(S) /\ \A k \in DOMAIN <<x>> : <<x>>[k] = x
  OBVIOUS
<1> DEFINE H == MaxHeight + 2
<1>1. H \in Nat /\ Trees = TreesOf[H] /\ MaxHeight \in 0..H
  BY TreesAre, FiltersAssumption
<1> HIDE DEF H
<1> DEFINE V == [h \in 0..H |-> Seq(TreesOf[h])]
           Seqs == Seq(Seq(Trees))
           One(op, kept) == IF Len(kept) <= 1 THEN kept ELSE <<Group(op, kept)>>
           Bare(l) == IF l.field = field THEN <<>> ELSE <<l>>
           base == [l \in Conditions |-> Bare(l)]
           combine == [p \in Trees \X Seqs |-> One(p[1].operator, Concatenation(p[2]))]
           Recursion(f) == f = [c \in Trees |->
               IF IsLeaf(c) THEN IF c.field = field THEN <<>> ELSE <<c>>
               ELSE LET kept == FlattenSeq([i \in DOMAIN c.conditions |-> f[c.conditions[i]]])
                    IN  IF Len(kept) <= 1 THEN kept ELSE <<Group(c.operator, kept)>>]
<1>2. \A c \in Trees, s \in Seqs : combine[<<c, s>>] = One(c.operator, Concatenation(s))
  <2> HIDE DEF One
  <2> QED OBVIOUS
<1>3. \A h \in 0..H : V[h] = Seq(TreesOf[h])
  OBVIOUS
<1>4. \A l \in Conditions : base[l] = Bare(l)
  <2> HIDE DEF Bare
  <2> QED OBVIOUS
<1> HIDE DEF V, combine, base
<1>5. ASSUME NEW h \in 0..(H - 1)
      PROVE  /\ h \in 0..H /\ h + 1 \in 0..H /\ V[h] = Seq(TreesOf[h]) /\ V[h + 1] = Seq(Higher(TreesOf[h]))
             /\ TreesOf[h] \subseteq Trees /\ TreesOf[h + 1] \subseteq Trees
  <2>1. h \in 0..H /\ h + 1 \in 0..H /\ h \in Nat
    BY <1>1
  <2>2. TreesOf[h + 1] = Higher(TreesOf[h])
    BY <2>1, Nesting
  <2> QED BY <1>1, <1>3, <2>1, <2>2, HigherHasLower
<1>6. ASSUME NEW h \in 0..(H - 1), NEW c \in TreesOf[h + 1], NEW s \in Seq(V[h]), ~IsLeaf(c)
      PROVE  combine[<<c, s>>] \in V[h + 1]
  <2>1. c \in Trees /\ c.operator \in {"and", "or"}
    BY <1>5, <1>6, Nodes DEF IsNode
  <2>2. s \in Seq(Seq(TreesOf[h]))
    BY <1>5
  <2>3. s \in Seqs
    <3>1. Seq(TreesOf[h]) \subseteq Seq(Trees)
      BY <1>5
    <3> QED BY <2>2, <3>1
  <2>4. Concatenation(s) \in Seq(TreesOf[h])
    BY <2>2, Concatenated
  <2>5. Group(c.operator, Concatenation(s)) \in Higher(TreesOf[h])
    BY <2>1, <2>4 DEF Group, Higher
  <2>6. Concatenation(s) \in Seq(Higher(TreesOf[h]))
    BY <2>4 DEF Higher
  <2>7. <<Group(c.operator, Concatenation(s))>> \in Seq(Higher(TreesOf[h]))
    BY <2>5
  <2> HIDE DEF Seqs
  <2> QED BY <1>2, <1>5, <2>1, <2>3, <2>6, <2>7
<1>7. Combines(V, base, combine, H)
  <2>1. 0 \in 0..H
    BY <1>1
  <2>2. \A l \in Conditions : base[l] \in V[0]
    <3>1. \A l \in Conditions : <<l>> \in Seq(Conditions) /\ <<>> \in Seq(Conditions)
      OBVIOUS
    <3> QED BY <1>3, <1>4, <2>1, <3>1, Nesting
  <2>3. \A h \in 0..(H - 1) : V[h] \subseteq V[h + 1]
    <3> TAKE h \in 0..(H - 1)
    <3>1. TreesOf[h] \subseteq Higher(TreesOf[h])
      BY DEF Higher
    <3>2. Seq(TreesOf[h]) \subseteq Seq(Higher(TreesOf[h]))
      BY <3>1
    <3> QED BY <1>5, <3>2
  <2> QED BY <1>6, <2>2, <2>3 DEF Combines
<1>8. PICK g : g = [c \in Trees |-> g[c]] /\ Fold(g, Trees, base, combine) /\ Valued(g, V, H)
  BY <1>1, <1>7, FoldExists
<1>9. \A c \in Trees : g[c] \in Seq(Trees)
  <2>1. H \in 0..H
    BY <1>1
  <2> QED BY <1>1, <1>3, <1>8, <2>1 DEF Valued
<1>10. ASSUME NEW c \in Trees
       PROVE  g[c] = IF IsLeaf(c) THEN Bare(c) ELSE One(c.operator, Concatenation(OfGroup(g, c)))
  <2>1. CASE IsLeaf(c)
    <3>1. g[c] = base[c] /\ c \in Conditions
      BY <1>8, <2>1, Nodes DEF Fold, IsNode
    <3> QED BY <1>4, <2>1, <3>1
  <2>2. CASE ~IsLeaf(c)
    <3>1. OfGroup(g, c) \in Seqs
      BY <1>9, <2>2, ValuesOfGroup
    <3>2. g[c] = combine[<<c, OfGroup(g, c)>>]
      BY <1>8, <2>2 DEF Fold, OfGroup
    <3> HIDE DEF Seqs, One
    <3> QED BY <1>2, <2>2, <3>1, <3>2
  <2> QED BY <2>1, <2>2
<1>11. Recursion(g)
  BY <1>8, <1>10 DEF OfGroup, Concatenation
<1> DEFINE strip == CHOOSE f : Recursion(f)
<1>12. Recursion(strip)
  <2> HIDE DEF Recursion
  <2> QED BY <1>11
<1>13. \A c : Stripped(c, field) = strip[c]
  BY DEF Stripped
<1> HIDE DEF strip
<1> DEFINE Others(c) == [i \in DOMAIN c.conditions |-> Stripped(c.conditions[i], field)]
<1>14. \A c \in Trees : Stripped(c, field) = IF IsLeaf(c) THEN Bare(c)
                                             ELSE One(c.operator, Concatenation(Others(c)))
  <2>1. \A c : Others(c) = [i \in DOMAIN c.conditions |-> strip[c.conditions[i]]]
    BY <1>13
  <2>2. \A c \in Trees : strip[c] = IF IsLeaf(c) THEN Bare(c)
            ELSE One(c.operator, Concatenation([i \in DOMAIN c.conditions |-> strip[c.conditions[i]]]))
    BY <1>12 DEF Concatenation
  <2> HIDE DEF One, Bare, Others
  <2> QED BY <1>13, <2>1, <2>2
<1> HIDE DEF Recursion
<1> DEFINE Fit(c, h) == /\ Stripped(c, field) \in Seq(TreesOf[h])
                        /\ \A i \in DOMAIN Stripped(c, field) : \A l \in LeavesOf(Stripped(c, field)[i]) :
                             l \in LeavesOf(c) /\ l.field # field
           T == {h \in 0..H : \A c \in TreesOf[h] : Fit(c, h)}
<1>15. ASSUME NEW c \in Conditions
       PROVE  \A h \in 0..H : Fit(c, h)
  <2>1. c \in Trees /\ IsLeaf(c) /\ LeavesOf(c) = {c}
    <3>1. c \in Trees /\ IsLeaf(c)
      BY Nodes DEF Conditions, IsLeaf
    <3> QED BY <3>1, LeavesUnfold
  <2>2. Stripped(c, field) = Bare(c)
    BY <1>14, <2>1
  <2>3. \A h \in 0..H : c \in TreesOf[h]
    <3> TAKE h \in 0..H
    <3>1. 0 \in 0..h /\ h \in Nat
      BY <1>1
    <3> QED BY <3>1, Nesting, HigherHasLower
  <2>4. CASE c.field = field
    BY <2>2, <2>4
  <2>5. CASE c.field # field
    <3>1. Stripped(c, field) = <<c>>
      BY <2>2, <2>5
    <3>2. \A h \in 0..H : <<c>> \in Seq(TreesOf[h])
      BY <1>0, <2>3
    <3> QED BY <2>1, <2>5, <3>1, <3>2
  <2> QED BY <2>4, <2>5
<1>16. 0 \in T
  <2>1. 0 \in 0..H /\ TreesOf[0] = Conditions
    BY <1>1, Nesting
  <2> HIDE DEF Fit
  <2> QED BY <1>15, <2>1
<1>17. ASSUME NEW h \in 0..(H - 1), h \in T
       PROVE  h + 1 \in T
  <2>1. ASSUME NEW c \in TreesOf[h + 1]
        PROVE  Fit(c, h + 1)
    <3>0. c \in Trees /\ h + 1 \in 0..H
      BY <1>5
    <3>1. CASE IsLeaf(c) /\ c \in Conditions
      <4> HIDE DEF Fit
      <4> QED BY <1>15, <3>0, <3>1
    <3>2. CASE IsNode(c, TreesOf[h])
      <4>1. c.conditions \in Seq(TreesOf[h]) /\ c.operator \in {"and", "or"} /\ ~IsLeaf(c)
        BY <3>2 DEF IsNode
      <4>2. \A i \in DOMAIN c.conditions : Fit(c.conditions[i], h)
        BY <1>17, <4>1
      <4>3. Others(c) \in Seq(Seq(TreesOf[h])) /\ DOMAIN Others(c) = DOMAIN c.conditions
            /\ \A i \in DOMAIN c.conditions : Others(c)[i] = Stripped(c.conditions[i], field)
        BY <4>1, <4>2
      <4> DEFINE kept == Concatenation(Others(c))
      <4>4. kept \in Seq(TreesOf[h]) /\ ToSet(kept) = UNION {ToSet(Others(c)[i]) : i \in DOMAIN Others(c)}
        BY <4>3, Concatenated
      <4>5. ASSUME NEW t \in ToSet(kept), NEW l \in LeavesOf(t)
            PROVE  l \in LeavesOf(c) /\ l.field # field
        <5>1. PICK i \in DOMAIN c.conditions : t \in ToSet(Others(c)[i])
          BY <4>3, <4>4, <4>5
        <5>2. t \in ToSet(Stripped(c.conditions[i], field))
          BY <4>3, <5>1
        <5>3. l \in LeavesOf(c.conditions[i]) /\ l.field # field
          BY <4>2, <4>5, <5>2 DEF ToSet
        <5>4. c.conditions[i] \in Children(c)
          BY DEF Children
        <5> QED BY <3>0, <4>1, <5>3, <5>4, LeavesOfChildren
      <4>6. Stripped(c, field) = One(c.operator, kept)
        BY <1>14, <3>0, <4>1
      <4> HIDE DEF kept
      <4>7. CASE Len(kept) <= 1
        <5>1. Stripped(c, field) = kept
          BY <4>6, <4>7
        <5>2. kept \in Seq(TreesOf[h + 1])
          <6>1. TreesOf[h] \subseteq TreesOf[h + 1]
            BY <1>1, Nesting DEF Higher
          <6> QED BY <4>4, <6>1
        <5> QED BY <4>5, <5>1, <5>2 DEF ToSet
      <4>8. CASE ~(Len(kept) <= 1)
        <5> DEFINE whole == Group(c.operator, kept)
        <5>1. Stripped(c, field) = <<whole>>
          BY <4>6, <4>8
        <5>2. whole \in TreesOf[h + 1]
          <6>1. TreesOf[h + 1] = Higher(TreesOf[h])
            BY <1>1, Nesting
          <6> QED BY <4>1, <4>4, <6>1 DEF Group, Higher
        <5>3. whole \in Trees /\ ~IsLeaf(whole) /\ Children(whole) = ToSet(kept)
          <6>1. whole \in Trees
            BY <1>5, <5>2
          <6> QED BY <6>1 DEF Group, IsLeaf, Children, ToSet
        <5> HIDE DEF whole
        <5>4. LeavesOf(whole) = UNION {LeavesOf(t) : t \in ToSet(kept)}
          BY <5>3, LeavesUnfold
        <5>5. \A l \in LeavesOf(whole) : l \in LeavesOf(c) /\ l.field # field
          BY <4>5, <5>4
        <5>6. <<whole>> \in Seq(TreesOf[h + 1]) /\ \A i \in DOMAIN <<whole>> : <<whole>>[i] = whole
          BY <1>0, <5>2
        <5> QED BY <5>1, <5>5, <5>6
      <4> QED BY <4>7, <4>8
    <3> QED BY <1>1, <3>1, <3>2, Shapes
  <2> HIDE DEF Fit
  <2> QED BY <1>5, <2>1
<1>18. \A h \in 0..H : h \in T
  <2> HIDE DEF T
  <2> QED BY <1>1, <1>16, <1>17, Log!UpTo
<1>19. Fit(n, MaxHeight)
  BY <1>1, <1>18
<1> QED BY <1>19 DEF ToSet

\* A tree holds when all that it is a conjunction of does: conditions, and alternatives.
LEMMA ConjunctsAre ==
    ASSUME NEW h \in 0..(MaxHeight + 2), NEW n \in TreesOf[h], NEW S
    PROVE  /\ n \in Trees /\ Conjuncts(n) \in Seq(TreesOf[h])
           /\ \A c \in ToSet(Conjuncts(n)) : IsLeaf(c) \/ c.operator = "or"
           /\ LeavesOf(n) = UNION {LeavesOf(c) : c \in ToSet(Conjuncts(n))}
           /\ Satisfied(n, S) <=> \A c \in ToSet(Conjuncts(n)) : Satisfied(c, S)
<1> DEFINE Good(m) ==
             /\ ToSet(Conjuncts(m)) \subseteq TreesOf[h]
             /\ \A c \in ToSet(Conjuncts(m)) : IsLeaf(c) \/ c.operator = "or"
             /\ LeavesOf(m) = UNION {LeavesOf(c) : c \in ToSet(Conjuncts(m))}
             /\ Satisfied(m, S) <=> \A c \in ToSet(Conjuncts(m)) : Satisfied(c, S)
           P == {m \in TreesOf[h] : Good(m)}
<1>1. h \in Nat /\ MaxHeight + 2 \in Nat
  BY FiltersAssumption
<1>2. TreesOf[h] \subseteq Trees /\ Conditions \subseteq TreesOf[h]
  <2>1. 0 \in 0..h
    BY <1>1
  <2> QED BY <1>1, <2>1, TreesAre, Nesting, HigherHasLower
<1>3. ASSUME NEW m \in TreesOf[h], IsLeaf(m) \/ m.operator = "or"
      PROVE  m \in P
  <2>1. Conjuncts(m) = <<m>>
    BY <1>2, <1>3, ConjunctsUnfold
  <2>2. ToSet(Conjuncts(m)) = {m}
    BY <2>1 DEF ToSet
  <2> QED BY <1>3, <2>2
<1>4. ASSUME NEW m \in TreesOf[h], ~IsLeaf(m), m.operator # "or", \A c \in Children(m) : c \in P
      PROVE  m \in P
  <2>1. m.conditions \in Seq(Trees) /\ m \in Trees
    BY <1>2, <1>4, Nodes DEF IsNode
  <2>2. Conjuncts(m) = Concatenation(ConjunctsOf(m))
    BY <1>4, <2>1, ConjunctsUnfold
  <2>3. ConjunctsOf(m) \in Seq(Seq(Trees))
    <3>1. \A i \in DOMAIN m.conditions : m.conditions[i] \in Trees
      BY <2>1
    <3>2. \A i \in DOMAIN m.conditions : Conjuncts(m.conditions[i]) \in Seq(Trees)
      BY <3>1, ConjunctsUnfold
    <3> QED BY <2>1, <3>2 DEF ConjunctsOf
  <2>4. ToSet(Conjuncts(m)) = UNION {ToSet(ConjunctsOf(m)[i]) : i \in DOMAIN ConjunctsOf(m)}
    BY <2>2, <2>3, Concatenated
  <2>5. \A c : c \in ToSet(Conjuncts(m)) <=> \E d \in Children(m) : c \in ToSet(Conjuncts(d))
    <3>1. DOMAIN ConjunctsOf(m) = DOMAIN m.conditions
          /\ \A i \in DOMAIN m.conditions : ConjunctsOf(m)[i] = Conjuncts(m.conditions[i])
      BY DEF ConjunctsOf
    <3> QED BY <2>4, <3>1 DEF Children
  <2> DEFINE C(x) == ToSet(Conjuncts(x))
  <2> HIDE DEF C
  <2>6. \A c : c \in C(m) <=> \E d \in Children(m) : c \in C(d)
    BY <2>5 DEF C
  <2>7. \A d \in Children(m) :
          /\ C(d) \subseteq TreesOf[h] /\ \A c \in C(d) : IsLeaf(c) \/ c.operator = "or"
          /\ LeavesOf(d) = UNION {LeavesOf(c) : c \in C(d)}
          /\ Satisfied(d, S) <=> \A c \in C(d) : Satisfied(c, S)
    BY <1>4 DEF C
  <2>8. C(m) \subseteq TreesOf[h] /\ \A c \in C(m) : IsLeaf(c) \/ c.operator = "or"
    BY <2>6, <2>7
  <2>9. LeavesOf(m) = UNION {LeavesOf(c) : c \in C(m)}
    <3>1. LeavesOf(m) = UNION {LeavesOf(d) : d \in Children(m)}
      BY <1>4, <2>1, LeavesUnfold
    <3>2. \A l : l \in LeavesOf(m) <=> \E d \in Children(m) : \E c \in C(d) : l \in LeavesOf(c)
      BY <2>7, <3>1
    <3>3. \A l : l \in LeavesOf(m) <=> \E c \in C(m) : l \in LeavesOf(c)
      BY <2>6, <3>2
    <3> QED BY <3>3
  <2>10. Satisfied(m, S) <=> \A c \in C(m) : Satisfied(c, S)
    <3>1. Satisfied(m, S) <=> \A d \in Children(m) : Satisfied(d, S)
      BY <1>4, <2>1, SatisfiedUnfold
    <3> QED BY <2>6, <2>7, <3>1
  <2> QED BY <2>8, <2>9, <2>10 DEF C
<1>5. TreesOf[h] \subseteq P
  <2>1. \A l \in Conditions : l \in P
    BY <1>2, <1>3, Shapes, Nesting
  <2> HIDE DEF P
  <2> QED BY <1>1, <1>3, <1>4, <2>1, TreeInduction
<1>6. Conjuncts(n) \in Seq(TreesOf[h])
  <2>1. Conjuncts(n) \in Seq(Trees) /\ ToSet(Conjuncts(n)) \subseteq TreesOf[h]
    BY <1>2, <1>5, ConjunctsUnfold
  <2>2. \A i \in DOMAIN Conjuncts(n) : Conjuncts(n)[i] \in TreesOf[h]
    BY <2>1 DEF ToSet
  <2> QED BY <2>1, <2>2
<1> QED BY <1>2, <1>5, <1>6

\* The elements of a finite set in some order.
LEMMA InSomeOrder ==
    ASSUME NEW S, IsFiniteSet(S)
    PROVE  SetToSeq(S) \in Seq(S) /\ ToSet(SetToSeq(S)) = S
<1> DEFINE N == Cardinality(S)
           f == SetToSeq(S)
<1>1. N \in Nat /\ ExistsBijection(1..N, S)
  BY FS_CardinalityType
<1>2. \E g \in [1..N -> S] : IsInjective(g)
  BY <1>1 DEF ExistsBijection, Bijection, Injection
<1>3. f \in [1..N -> S] /\ IsInjective(f)
  BY <1>2 DEF SetToSeq
<1>4. f \in Injection(1..N, S)
  BY <1>3 DEF Injection
<1>5. Cardinality(1..N) = N
  BY <1>1, FS_Interval
<1> HIDE DEF f
<1>6. f \in Surjection(1..N, S)
  <2> HIDE DEF N
  <2> QED BY <1>4, <1>5, FS_Injection DEF N
<1>7. f \in Seq(S) /\ DOMAIN f = 1..N
  BY <1>1, <1>3
<1>8. ToSet(f) = S
  BY <1>3, <1>6, <1>7 DEF ToSet, Surjection
<1> QED BY <1>7, <1>8 DEF f

\* The conditions that a condition is expanded to alternatives of.
Expansions == [l \in Conditions |-> Expanded(l)]
IsExpanded(l) == l.op = "in" /\ l.field \in GroupFields \cup {"state"}
Alternatives(l) == IF IsExpanded(l) THEN {Leaf(l.field, "eq", {v}) : v \in l.value} ELSE {l}
LEMMA ExpandedIs ==
    ASSUME NEW l \in Conditions
    PROVE  /\ Expansions[l] \in TreesOf[1] /\ LeavesOf(Expansions[l]) = Alternatives(l)
           /\ Alternatives(l) \subseteq Conditions
           /\ \A S : Satisfied(Expansions[l], S) <=> \E m \in Alternatives(l) : m \in S
<1>1. Conditions \subseteq TreesOf[1] /\ TreesOf[1] = Higher(Conditions)
  <2>1. TreesOf[0] = Conditions /\ TreesOf[0 + 1] = Higher(TreesOf[0])
    BY Nesting
  <2> QED BY <2>1 DEF Higher
<1>2. TreesOf[1] \subseteq Trees
  <2>1. 1 \in 0..(MaxHeight + 2)
    BY FiltersAssumption
  <2> QED BY <2>1, TreesAre, HigherHasLower
<1>3. Expansions[l] = Expanded(l)
  BY DEF Expansions
<1>4. \A m \in Conditions : m \in Trees /\ IsLeaf(m) /\ LeavesOf(m) = {m}
                            /\ \A S : Satisfied(m, S) <=> m \in S
  <2> TAKE m \in Conditions
  <2>1. m \in Trees /\ IsLeaf(m)
    BY Nodes DEF Conditions, IsLeaf
  <2> QED BY <2>1, LeavesUnfold, SatisfiedUnfold
<1>5. CASE ~IsExpanded(l)
  <2>1. Expansions[l] = l /\ Alternatives(l) = {l}
    BY <1>3, <1>5 DEF Expanded, IsExpanded, Alternatives
  <2> QED BY <1>1, <1>4, <2>1
<1>6. CASE IsExpanded(l)
  <2> DEFINE values == SetToSeq(l.value)
             conditions == [i \in DOMAIN values |-> Leaf(l.field, "eq", {values[i]})]
  <2>1. IsFiniteSet(l.value) /\ l.value \subseteq Values
    <3>1. l.value \subseteq Values
      BY DEF Conditions
    <3> QED BY <3>1, FiltersAssumption, FS_Subset
  <2>2. values \in Seq(l.value) /\ ToSet(values) = l.value
    BY <2>1, InSomeOrder
  <2>3. Expansions[l] = Group("or", conditions)
    BY <1>3, <1>6 DEF Expanded, IsExpanded
  <2> HIDE DEF values
  <2>4. \A v \in Values : Leaf(l.field, "eq", {v}) \in Conditions
    <3>1. "eq" \in Operators /\ l.field \in UNION {Fields[c] : c \in DOMAIN Fields}
      BY DEF Conditions, Operators
    <3> QED BY <3>1 DEF Leaf, Conditions
  <2>5. \A i \in DOMAIN values : values[i] \in l.value
    BY <2>2
  <2>6. conditions \in Seq(Conditions)
    <3>1. \A i \in DOMAIN values : Leaf(l.field, "eq", {values[i]}) \in Conditions
      BY <2>1, <2>4, <2>5
    <3>2. DOMAIN values = 1..Len(values) /\ Len(values) \in Nat
      BY <2>2, LenProperties
    <3> QED BY <3>1, <3>2
  <2>7. /\ DOMAIN conditions = DOMAIN values
        /\ \A i \in DOMAIN values : conditions[i] = Leaf(l.field, "eq", {values[i]})
    OBVIOUS
  <2> HIDE DEF conditions
  <2>8. Expansions[l] \in TreesOf[1] /\ ~IsLeaf(Expansions[l]) /\ Expansions[l].operator = "or"
        /\ Children(Expansions[l]) = {conditions[i] : i \in DOMAIN conditions}
    BY <1>1, <2>3, <2>6 DEF Group, Higher, IsLeaf, Children
  <2>9. Children(Expansions[l]) = Alternatives(l)
    <3>1. Alternatives(l) = {Leaf(l.field, "eq", {v}) : v \in l.value}
      BY <1>6 DEF Alternatives
    <3>2. l.value = {values[i] : i \in DOMAIN values}
      BY <2>2 DEF ToSet
    <3> DEFINE Eq(v) == Leaf(l.field, "eq", {v})
    <3>3. Alternatives(l) = {Eq(v) : v \in l.value} /\ \A i \in DOMAIN values : conditions[i] = Eq(values[i])
      BY <2>7, <3>1
    <3> HIDE DEF Eq
    <3> QED BY <2>7, <2>8, <3>2, <3>3
  <2>10. Alternatives(l) \subseteq Conditions
    BY <1>6, <2>1, <2>4 DEF Alternatives
  <2>11. LeavesOf(Expansions[l]) = Alternatives(l)
    <3>1. LeavesOf(Expansions[l]) = UNION {LeavesOf(c) : c \in Alternatives(l)}
      BY <1>2, <2>8, <2>9, LeavesUnfold
    <3> QED BY <1>4, <2>10, <3>1
  <2>12. ASSUME NEW S
         PROVE  Satisfied(Expansions[l], S) <=> \E m \in Alternatives(l) : m \in S
    <3>1. Satisfied(Expansions[l], S) <=> \E c \in Alternatives(l) : Satisfied(c, S)
      BY <1>2, <2>8, <2>9, SatisfiedUnfold
    <3> QED BY <1>4, <2>10, <3>1
  <2> QED BY <2>8, <2>10, <2>11, <2>12
<1> QED BY <1>5, <1>6

Expandable(S) == {l \in Conditions : \E m \in Alternatives(l) : m \in S}
LEMMA ExpandIs ==
    ASSUME NEW n \in TreesOf[MaxHeight + 1], NEW S
    PROVE  /\ n \in Trees /\ Expand(n) \in Trees
           /\ LeavesOf(Expand(n)) = UNION {Alternatives(l) : l \in LeavesOf(n)}
           /\ Satisfied(Expand(n), S) <=> Satisfied(n, Expandable(S))
<1>1. \A l \in Conditions : Expansions[l] \in TreesOf[1]
  BY ExpandedIs
<1>2. MaxHeight + 2 - 1 = MaxHeight + 1
  BY FiltersAssumption
<1>3. Expand(n) = Rewritten(n, Expansions)
  BY DEF Expand, Expansions
<1>4. /\ n \in Trees /\ Rewritten(n, Expansions) \in Trees
      /\ LeavesOf(Rewritten(n, Expansions)) = UNION {LeavesOf(Expansions[l]) : l \in LeavesOf(n)}
      /\ Satisfied(Rewritten(n, Expansions), S) <=> Satisfied(n, HoldRewritten(Expansions, S))
  BY <1>1, <1>2, RewrittenIs
<1>5. HoldRewritten(Expansions, S) = Expandable(S)
  BY ExpandedIs DEF HoldRewritten, Expandable
<1>6. \A l \in LeavesOf(n) : LeavesOf(Expansions[l]) = Alternatives(l)
  BY <1>4, ExpandedIs, LeavesUnfold
<1> QED BY <1>3, <1>4, <1>5, <1>6

\* The conditions of what has no alternatives in it, and of what has.
PlainOf(parts) == UNION {LeavesOf(c) : c \in {c \in parts : ~HasOr(c)}}
MixedOf(parts) == UNION {LeavesOf(c) : c \in {c \in parts : HasOr(c)}}
LEMMA TopIs ==
    ASSUME NEW e \in Trees, NEW S
    PROVE  /\ Top(e) \subseteq Trees /\ LeavesOf(e) = UNION {LeavesOf(c) : c \in Top(e)}
           /\ Satisfied(e, S) <=> \A c \in Top(e) : Satisfied(c, S)
<1>1. CASE IsLeaf(e) \/ e.operator = "or"
  BY <1>1 DEF Top
<1>2. CASE ~IsLeaf(e) /\ e.operator # "or"
  <2>1. Top(e) = Children(e)
    BY <1>2 DEF Top
  <2> QED BY <1>2, <2>1, LeavesUnfold, SatisfiedUnfold, LeavesOfChildren
<1> QED BY <1>1, <1>2

\* The parameters of a condition.
ParamsOf(ctx) == [l \in Conditions |-> LeafParams(l, ctx)]
LEMMA ParamIs ==
    ASSUME NEW column, NEW op, NEW value
    PROVE  /\ IsDictionary(Param(column, op, value)) /\ DOMAIN Param(column, op, value) = {<<column, op>>}
           /\ Param(column, op, value)[<<column, op>>] = value
BY DEF Param, IsDictionary
IsParam(d) == \E column, op, value : d = Param(column, op, value)
LEMMA ParamsAre == \A ctx : OfDictionaries(ParamsOf(ctx)) /\ \A l \in Conditions : IsParam(LeafParams(l, ctx))
<1> TAKE ctx
<1>1. \A l : IsParam(LeafParams(l, ctx))
  <2> TAKE l
  <2>1. \A a, b, c : IsParam(Param(a, b, c))
    BY DEF IsParam
  <2>2. CASE l.field \in CVFields
    BY <2>1, <2>2 DEF LeafParams, CVFields, GroupFields
  <2>3. CASE l.field = "state"
    BY <2>1, <2>3 DEF LeafParams, CVFields, GroupFields
  <2>4. CASE l.field \in GroupFields
    BY <2>1, <2>4 DEF LeafParams, CVFields, GroupFields
  <2>5. CASE l.field = "since"
    BY <2>1, <2>5 DEF LeafParams, CVFields, GroupFields
  <2>6. CASE l.field = "until"
    BY <2>1, <2>6 DEF LeafParams, CVFields, GroupFields
  <2>7. CASE l.field \notin CVFields \cup GroupFields \cup {"state", "since", "until"}
    <3>1. CASE l.op \in {"regex", "in"}
      BY <2>1, <2>7, <3>1 DEF LeafParams, CVFields, GroupFields
    <3>2. CASE l.op \notin {"regex", "in"}
      BY <2>1, <2>7, <3>2 DEF LeafParams, CVFields, GroupFields
    <3> QED BY <3>1, <3>2
  <2> QED BY <2>2, <2>3, <2>4, <2>5, <2>6, <2>7
<1>2. \A l \in Conditions : IsDictionary(LeafParams(l, ctx))
  <2>1. \A d : IsParam(d) => IsDictionary(d)
    <3> SUFFICES ASSUME NEW d, IsParam(d)
                 PROVE  IsDictionary(d)
      OBVIOUS
    <3>1. PICK column, op, value : d = Param(column, op, value)
      BY DEF IsParam
    <3>2. IsDictionary(Param(column, op, value))
      BY ParamIs
    <3> QED BY <3>1, <3>2
  <2> QED BY <1>1, <2>1
<1> QED BY <1>1, <1>2 DEF OfDictionaries, ParamsOf

LEMMA NoParamsAre == \A of : FromLeaves(NoParams, {}, of)
<1> TAKE of
<1>1. <<>> \in Seq({}) /\ DOMAIN <<>> = {}
  OBVIOUS
<1>2. /\ Updates(<<>>) = [k \in DOMAIN Updates(<<>>) |-> Updates(<<>>)[k]]
      /\ \A k : k \in DOMAIN Updates(<<>>) <=> \E i \in DOMAIN <<>> : k \in DOMAIN <<>>[i]
  BY <1>1, UpdatesAre
<1>3. DOMAIN NoParams = {} /\ IsDictionary(NoParams)
  BY <1>1, <1>2 DEF NoParams, IsDictionary
<1> QED BY <1>3 DEF FromLeaves

\* A compiled filter has the parameters of the conditions outside of alternatives and
\* an expression for what has alternatives.
IsCompiled(query, parts, ctx) ==
    /\ query.q = {c \in parts : HasOr(c)}
    /\ FromLeaves(query.params, PlainOf(parts), ParamsOf(ctx))
LEMMA CompiledIs ==
    ASSUME NEW n \in TreesOf[MaxHeight + 1], NEW ctx
    PROVE  IsCompiled(CompileFilter(n, ctx), Top(Expand(n)), ctx)
<1> DEFINE e == Expand(n)
           of == ParamsOf(ctx)
           compiled == CompileFilter(n, ctx)
<1>1. e \in Trees
  BY ExpandIs
<1>2. /\ OfDictionaries(of)
      /\ \A c \in Trees : FromLeaves(AndParams(c, ctx), LeavesOf(c), of)
  BY ParamsAre, MergedIs DEF AndParams, ParamsOf
<1>3. /\ ~HasOr(e) => compiled = Query(AndParams(e, ctx), {})
      /\ HasOr(e) /\ e.operator = "or" => compiled = Query(NoParams, {e})
      /\ HasOr(e) /\ e.operator # "or" => compiled = Hybrid(e, ctx)
  BY DEF CompileFilter
<1> HIDE DEF e, of, compiled
<1>4. CASE ~HasOr(e)
  <2>1. \A c \in Top(e) : ~HasOr(c)
    BY <1>1, <1>4, HasOrUnfold DEF Top
  <2>2. PlainOf(Top(e)) = LeavesOf(e)
    BY <1>1, <2>1, TopIs DEF PlainOf
  <2>3. compiled.q = {} /\ compiled.params = AndParams(e, ctx)
    BY <1>3, <1>4 DEF Query
  <2> QED BY <1>1, <1>2, <2>1, <2>2, <2>3 DEF IsCompiled, of, compiled, e
<1>5. CASE HasOr(e) /\ e.operator = "or"
  <2>1. Top(e) = {e}
    BY <1>5 DEF Top
  <2>2. PlainOf(Top(e)) = {}
    BY <1>5, <2>1 DEF PlainOf
  <2>3. compiled.q = {e} /\ compiled.params = NoParams
    BY <1>3, <1>5 DEF Query
  <2> QED BY <1>5, <2>1, <2>2, <2>3, NoParamsAre DEF IsCompiled, of, compiled, e
<1>6. CASE HasOr(e) /\ e.operator # "or"
  <2> DEFINE Param1(c) == IF HasOr(c) THEN NoParams ELSE AndParams(c, ctx)
             Leaves1(c) == IF HasOr(c) THEN {} ELSE LeavesOf(c)
             d == [i \in DOMAIN e.conditions |-> Param1(e.conditions[i])]
             leaves == [i \in DOMAIN e.conditions |-> Leaves1(e.conditions[i])]
             S == {Param1(c) : c \in Trees}
  <2>1. ~IsLeaf(e) /\ e.conditions \in Seq(Trees)
    BY <1>1, <1>6, HasOrUnfold, Nodes DEF IsNode
  <2>2. Top(e) = Children(e)
    BY <1>6, <2>1 DEF Top
  <2>3. compiled.q = {c \in Top(e) : HasOr(c)} /\ compiled.params = Updates(d)
    BY <1>3, <1>6, <2>2 DEF Query, Hybrid
  <2>4. \A c \in Trees : Param1(c) \in S /\ FromLeaves(Param1(c), Leaves1(c), of)
    BY <1>2, NoParamsAre
  <2>5. /\ DOMAIN d = DOMAIN e.conditions /\ DOMAIN leaves = DOMAIN e.conditions
        /\ \A i \in DOMAIN e.conditions : d[i] = Param1(e.conditions[i]) /\ leaves[i] = Leaves1(e.conditions[i])
    OBVIOUS
  <2>6. \A i \in DOMAIN e.conditions : e.conditions[i] \in Trees
    BY <2>1
  <2>7. d \in Seq(S)
    <3>1. \A i \in DOMAIN e.conditions : Param1(e.conditions[i]) \in S
      BY <2>6
    <3> HIDE DEF Param1, S
    <3> QED BY <2>1, <3>1
  <2>8. UNION {leaves[i] : i \in DOMAIN e.conditions} = PlainOf(Top(e))
    <3>1. UNION {leaves[i] : i \in DOMAIN e.conditions} = UNION {Leaves1(c) : c \in Children(e)}
      <4> HIDE DEF Leaves1, leaves
      <4> QED BY <2>5 DEF Children
    <3> QED BY <2>2, <3>1 DEF PlainOf
  <2> HIDE DEF d, leaves, S, Param1, Leaves1
  <2>9. \A i \in DOMAIN d : FromLeaves(d[i], leaves[i], of)
    BY <2>4, <2>5, <2>6
  <2>10. FromLeaves(Updates(d), PlainOf(Top(e)), of)
    BY <2>5, <2>7, <2>8, <2>9, UpdatesFromLeaves
  <2> QED BY <2>3, <2>10 DEF IsCompiled, of, compiled, e
<1> QED BY <1>4, <1>5, <1>6

\* A filter on lists only, or on single values only, compiles to a q= expression that
\* Thruk answers.
LEMMA CompiledAlike ==
    ASSUME NEW n \in TreesOf[MaxHeight + 1], NEW ctx, Alike(LeavesOf(n))
    PROVE  Readable(CompileFilter(n, ctx).q)
<1> DEFINE e == Expand(n)
           q == CompileFilter(n, ctx).q
<1>1. q = {c \in Top(e) : HasOr(c)}
  BY CompiledIs DEF IsCompiled
<1>2. e \in Trees /\ LeavesOf(e) = UNION {Alternatives(l) : l \in LeavesOf(n)}
  BY ExpandIs
<1> HIDE DEF e, q
<1>3. Top(e) \subseteq Trees /\ LeavesOf(e) = UNION {LeavesOf(c) : c \in Top(e)}
  BY <1>2, TopIs
<1>4. \A l \in LeavesOf(e) : \E m \in LeavesOf(n) : l.field = m.field
  <2> TAKE l \in LeavesOf(e)
  <2>1. PICK m \in LeavesOf(n) : l \in Alternatives(m)
    BY <1>2
  <2>2. l.field = m.field
    BY <2>1 DEF Alternatives, Leaf
  <2> QED BY <2>2
<1>5. Alike(LeavesOf(e))
  BY <1>4 DEF Alike
<1>6. \A l \in UNION {LeavesOf(c) : c \in q} : l \in LeavesOf(e)
  BY <1>1, <1>3
<1>7. Alike(UNION {LeavesOf(c) : c \in q})
  BY <1>5, <1>6 DEF Alike
<1>8. q \in SUBSET Trees
  BY <1>1, <1>3
<1> QED BY <1>7, <1>8, AlikeIsReadable DEF q

\* What a compiled filter selects, by what its conditions do.
ParamHolds(l, ctx, o) ==
    \A k \in DOMAIN LeafParams(l, ctx) : Holds(k[1], k[2], LeafParams(l, ctx)[k], o)
LEMMA SelectsAll ==
    ASSUME NEW ctx, NEW o, NEW true, NEW parts \in SUBSET Trees, NEW query,
           IsCompiled(query, parts, ctx),
           \A l \in PlainOf(parts) : l \in true => ParamHolds(l, ctx, o),
           \A l \in MixedOf(parts) : l \in true => QLeafHolds(l, ctx, o),
           \A c \in parts : Satisfied(c, true)
    PROVE  Matches(query, ctx, o)
<1>1. ASSUME NEW k \in DOMAIN query.params
      PROVE  Holds(k[1], k[2], query.params[k], o)
  <2>1. PICK l \in PlainOf(parts) : k \in DOMAIN ParamsOf(ctx)[l] /\ query.params[k] = ParamsOf(ctx)[l][k]
    BY DEF IsCompiled, FromLeaves
  <2>2. PICK c \in parts : ~HasOr(c) /\ l \in LeavesOf(c)
    BY <2>1 DEF PlainOf
  <2>3. l \in true
    BY <2>2, AllSatisfied
  <2>4. l \in Conditions
    BY <2>2, LeavesUnfold
  <2> QED BY <2>1, <2>3, <2>4 DEF ParamHolds, ParamsOf
<1>2. ASSUME NEW c \in query.q
      PROVE  QHolds(c, ctx, o)
  <2>1. c \in parts /\ HasOr(c)
    BY DEF IsCompiled
  <2>2. \A l \in LeavesOf(c) : l \in true => l \in {m \in LeavesOf(c) : QLeafHolds(m, ctx, o)}
    BY <2>1 DEF MixedOf
  <2>3. Satisfied(c, {m \in LeavesOf(c) : QLeafHolds(m, ctx, o)})
    BY <2>1, <2>2, MoreSatisfied
  <2> QED BY <2>3 DEF QHolds
<1> QED BY <1>1, <1>2 DEF Matches

\* No two conditions share a parameter.
Distinct(leaves, ctx) ==
    \A l, m \in leaves : l # m => DOMAIN LeafParams(l, ctx) \cap DOMAIN LeafParams(m, ctx) = {}
LEMMA SelectsOnly ==
    ASSUME NEW ctx, NEW o, NEW true, NEW parts \in SUBSET Trees, NEW query,
           IsCompiled(query, parts, ctx), Distinct(PlainOf(parts), ctx),
           \A l \in PlainOf(parts) : ParamHolds(l, ctx, o) => l \in true,
           \A l \in MixedOf(parts) : QLeafHolds(l, ctx, o) => l \in true,
           Matches(query, ctx, o), NEW c \in parts
    PROVE  Satisfied(c, true)
<1>1. CASE HasOr(c)
  <2>1. c \in query.q
    BY <1>1 DEF IsCompiled
  <2>2. Satisfied(c, {m \in LeavesOf(c) : QLeafHolds(m, ctx, o)})
    BY <2>1 DEF Matches, QHolds
  <2>3. \A l \in LeavesOf(c) : l \in {m \in LeavesOf(c) : QLeafHolds(m, ctx, o)} => l \in true
    BY <1>1 DEF MixedOf
  <2> QED BY <2>2, <2>3, MoreSatisfied
<1>2. CASE ~HasOr(c)
  <2>1. ASSUME NEW l \in LeavesOf(c)
        PROVE  l \in true
    <3>1. l \in PlainOf(parts) /\ l \in Conditions
      BY <1>2, LeavesUnfold DEF PlainOf
    <3>2. ASSUME NEW k \in DOMAIN LeafParams(l, ctx)
          PROVE  Holds(k[1], k[2], LeafParams(l, ctx)[k], o)
      <4>1. \A m \in PlainOf(parts) : m \in Conditions
        BY LeavesUnfold DEF PlainOf
      <4>2. k \in DOMAIN query.params
        BY <3>1 DEF IsCompiled, FromLeaves, ParamsOf
      <4>3. PICK m \in PlainOf(parts) : k \in DOMAIN ParamsOf(ctx)[m] /\ query.params[k] = ParamsOf(ctx)[m][k]
        BY <4>2 DEF IsCompiled, FromLeaves
      <4>4. k \in DOMAIN LeafParams(m, ctx) /\ query.params[k] = LeafParams(m, ctx)[k]
        BY <4>1, <4>3 DEF ParamsOf
      <4>5. m = l
        BY <3>1, <4>4 DEF Distinct
      <4>6. Holds(k[1], k[2], query.params[k], o)
        BY <4>2 DEF Matches
      <4> QED BY <4>4, <4>5, <4>6
    <3> QED BY <3>1, <3>2 DEF ParamHolds
  <2> QED BY <1>2, <2>1, AllSatisfied
<1> QED BY <1>1, <1>2

\* What is known of a condition once it is expanded.
LiteralOps == {"eq", "neq", "gte", "lte"}
Sayable(l, ctx) ==
    /\ l.op \in Operators
    /\ l.field \in CVFields \cup GroupFields \cup NameFields \cup {"state", "since", "until"}
    /\ l.op \notin {"in", "regex"} => \E v \in l.value : l.value = {v}
    /\ l.field \in GroupFields => l.op \in {"eq", "neq", "gte"}
    /\ l.field \in CVFields => l.op = "eq"
    /\ l.field = "state" =>
         /\ l.op \in LiteralOps
         /\ l.value \subseteq Numerals \cup
                IF ctx = "services" THEN ServiceStates ELSE DOMAIN StateNumber
    /\ l.op = "in" /\ l.field \in NameFields => \A v \in l.value : <<v, v>> \in Within
LEMMA OneValue ==
    ASSUME NEW l, NEW v, l.value = {v}
    PROVE  Scalar(l) = v /\ Scalar(l) \in l.value
BY DEF Scalar

\* The conditions that are given, as far as the compiler can express them.
Given(l, ctx) ==
    /\ WellFormed(l, ctx) /\ ValidLeaf(l) /\ ctx \in DOMAIN Fields
    /\ l.field \in CVFields => l.op = "eq"
    /\ l.field = "state" => l.op # "regex"
LEMMA FieldsAre ==
    \A ctx \in DOMAIN Fields : Fields[ctx] \subseteq
        CVFields \cup GroupFields \cup NameFields \cup {"state", "since", "until"}
BY DEF Fields, CVFields, GroupFields, NameFields
LEMMA AlternativesAreSayable ==
    ASSUME NEW ctx, NEW l, Given(l, ctx), NEW m \in Alternatives(l)
    PROVE  Sayable(m, ctx)
<1>1. l.field \in CVFields \cup GroupFields \cup NameFields \cup {"state", "since", "until"}
  BY FieldsAre DEF Given, WellFormed
<1>2. CASE ~IsExpanded(l)
  <2>1. m = l
    BY <1>2 DEF Alternatives
  <2>2. l.field \in GroupFields => l.op \in {"eq", "neq", "gte"}
    BY <1>2 DEF Given, ValidLeaf, IsExpanded
  <2>3. l.field = "state" => l.op \in LiteralOps
    BY <1>2 DEF Given, WellFormed, IsExpanded, Operators, LiteralOps
  <2> QED BY <1>1, <2>1, <2>2, <2>3 DEF Given, WellFormed, Sayable
<1>3. CASE IsExpanded(l)
  <2>1. PICK v \in l.value : m = Leaf(l.field, "eq", {v})
    BY <1>3 DEF Alternatives
  <2>2. m.field = l.field /\ m.op = "eq" /\ m.value = {v}
    BY <2>1 DEF Leaf
  <2>3. l.field = "state" =>
          l.value \subseteq Numerals \cup IF ctx = "services" THEN ServiceStates ELSE DOMAIN StateNumber
    BY DEF Given, WellFormed
  <2> QED BY <1>1, <2>2, <2>3 DEF Sayable, Operators, LiteralOps
<1> QED BY <1>2, <1>3

\* A condition means what one of its alternatives does.
LEMMA AlternativesMean ==
    ASSUME NEW ctx, NEW o, NEW l
    PROVE  MeansLeaf(l, ctx, o) <=> \E m \in Alternatives(l) : MeansLeaf(m, ctx, o)
<1>1. CASE ~IsExpanded(l)
  BY <1>1 DEF Alternatives
<1>2. CASE IsExpanded(l) /\ l.field \in GroupFields
  <2> DEFINE at == o[Column(l.field, ctx)]
             Eq(v) == Leaf(l.field, "eq", {v})
  <2>1. MeansLeaf(l, ctx, o) <=> at \cap l.value # {}
    BY <1>2 DEF MeansLeaf, IsExpanded, GroupFields
  <2>2. ASSUME NEW v
        PROVE  MeansLeaf(Eq(v), ctx, o) <=> v \in at
    <3>1. Eq(v).field = l.field /\ Eq(v).op = "eq" /\ Eq(v).value = {v}
      BY DEF Leaf
    <3> HIDE DEF Eq
    <3>2. MeansLeaf(Eq(v), ctx, o) <=> at \cap {v} # {}
      BY <1>2, <3>1 DEF MeansLeaf, GroupFields
    <3> QED BY <3>2
  <2>3. Alternatives(l) = {Eq(v) : v \in l.value}
    BY <1>2 DEF Alternatives
  <2> HIDE DEF Eq, at
  <2> QED BY <2>1, <2>2, <2>3
<1>3. CASE IsExpanded(l) /\ l.field \notin GroupFields
  <2> DEFINE at == o[Column(l.field, ctx)]
             Eq(v) == Leaf(l.field, "eq", {v})
  <2>0. l.field = "state" /\ l.op = "in"
    BY <1>3 DEF IsExpanded
  <2>1. MeansLeaf(l, ctx, o) <=> at \in {StateNumber[v] : v \in l.value}
    BY <1>3, <2>0 DEF MeansLeaf, GroupFields
  <2>2. ASSUME NEW v
        PROVE  MeansLeaf(Eq(v), ctx, o) <=> at = StateNumber[v]
    <3>1. Eq(v).field = l.field /\ Eq(v).op = "eq" /\ Eq(v).value = {v}
      BY DEF Leaf
    <3> HIDE DEF Eq
    <3>2. Scalar(Eq(v)) = v
      BY <3>1, OneValue
    <3> QED BY <1>3, <2>0, <3>1, <3>2 DEF MeansLeaf, GroupFields, Compare
  <2>3. Alternatives(l) = {Eq(v) : v \in l.value}
    BY <1>3 DEF Alternatives
  <2> HIDE DEF Eq, at
  <2> QED BY <2>1, <2>2, <2>3
<1> QED BY <1>1, <1>2, <1>3

\* What one parameter selects.
LEMMA OneParam ==
    ASSUME NEW ctx, NEW o, NEW l, NEW column, NEW op, NEW value,
           LeafParams(l, ctx) = Param(column, op, value)
    PROVE  ParamHolds(l, ctx, o) <=> Holds(column, op, value, o)
<1>1. DOMAIN LeafParams(l, ctx) = {<<column, op>>} /\ LeafParams(l, ctx)[<<column, op>>] = value
  BY ParamIs
<1> QED BY <1>1 DEF ParamHolds
LEMMA ComparesLike ==
    ASSUME NEW column, NEW op \in LiteralOps, NEW v, NEW o, column \notin {"groups", "host_groups"}
    PROVE  Holds(column, StateOp[op], v, o) <=> Compare(op, o[column], v)
<1>1. StateOp["eq"] = "" /\ StateOp["neq"] = "ne" /\ StateOp["gte"] = "gte" /\ StateOp["lte"] = "lte"
  BY DEF StateOp
<1>2. CASE op = "eq"
  BY <1>1, <1>2 DEF Holds, Compare
<1>3. CASE op = "neq"
  BY <1>1, <1>3 DEF Holds, Compare
<1>4. CASE op = "gte"
  BY <1>1, <1>4 DEF Holds, Compare
<1>5. CASE op = "lte"
  BY <1>1, <1>5 DEF Holds, Compare
<1> QED BY <1>2, <1>3, <1>4, <1>5 DEF LiteralOps

LEMMA ParamMeans ==
    ASSUME NEW ctx, NEW o, NEW l, ctx # "problems", Sayable(l, ctx)
    PROVE  /\ MeansLeaf(l, ctx, o) => ParamHolds(l, ctx, o)
           /\ ~(l.op = "in" /\ l.field \in NameFields) => (ParamHolds(l, ctx, o) => MeansLeaf(l, ctx, o))
<1> USE DEF CVFields, GroupFields
<1>1. CASE l.field \in CVFields
  <2>1. Column(l.field, ctx) = IF l.field = "host_custom_var" THEN "host_cv" ELSE "cv"
    BY <1>1 DEF Column
  <2>2. LeafParams(l, ctx) = Param(Column(l.field, ctx), "", Scalar(l))
    BY <1>1, <2>1 DEF LeafParams
  <2>3. ParamHolds(l, ctx, o) <=> o[Column(l.field, ctx)] = Scalar(l)
    <3>1. ParamHolds(l, ctx, o) <=> Holds(Column(l.field, ctx), "", Scalar(l), o)
      BY <2>2, OneParam
    <3> QED BY <3>1 DEF Holds
  <2>4. MeansLeaf(l, ctx, o) <=> o[Column(l.field, ctx)] = Scalar(l)
    BY <1>1 DEF MeansLeaf, Sayable, Compare
  <2> QED BY <1>1, <2>3, <2>4 DEF NameFields
<1>2. CASE l.field \in GroupFields
  <2>1. Column(l.field, ctx) = (IF l.field = "hostgroup" /\ ctx = "services" THEN "host_groups" ELSE "groups")
    BY <1>2 DEF Column
  <2>2. LeafParams(l, ctx) = Param(Column(l.field, ctx), IF l.op = "neq" THEN "notin" ELSE "gte", Scalar(l))
    BY <1>2, <2>1 DEF LeafParams
  <2>3. PICK v : l.value = {v}
    BY <1>2 DEF Sayable
  <2>4. Scalar(l) = v
    BY <2>3, OneValue
  <2>5. MeansLeaf(l, ctx, o) <=> (v \in o[Column(l.field, ctx)]) = (l.op # "neq")
    BY <1>2, <2>3 DEF MeansLeaf
  <2>6. ParamHolds(l, ctx, o) <=> Holds(Column(l.field, ctx), IF l.op = "neq" THEN "notin" ELSE "gte", v, o)
    BY <2>2, <2>4, OneParam
  <2>7. ParamHolds(l, ctx, o) <=> (v \in o[Column(l.field, ctx)]) = (l.op # "neq")
    BY <2>1, <2>6 DEF Holds
  <2> QED BY <1>2, <2>5, <2>7
<1>3. CASE l.field = "state"
  <2>1. Column(l.field, ctx) = "state"
    BY <1>3 DEF Column
  <2>2. PICK v \in l.value : l.value = {v}
    BY <1>3 DEF Sayable, LiteralOps
  <2>3. Scalar(l) = v /\ l.op \in LiteralOps
    BY <1>3, <2>2, OneValue DEF Sayable
  <2>4. StateIn(IF ctx = "services" THEN ServiceStates ELSE DOMAIN StateNumber, l) = StateNumber[v]
    BY <1>3, <2>2, <2>3 DEF Sayable, StateIn
  <2>5. LeafParams(l, ctx) = Param("state", StateOp[l.op], StateNumber[v])
    BY <1>3, <2>4 DEF LeafParams
  <2>6. ParamHolds(l, ctx, o) <=> Holds("state", StateOp[l.op], StateNumber[v], o)
    BY <2>5, OneParam
  <2>7. MeansLeaf(l, ctx, o) <=> Compare(l.op, o["state"], StateNumber[v])
    BY <1>3, <2>1, <2>3 DEF MeansLeaf, LiteralOps
  <2> QED BY <2>3, <2>6, <2>7, ComparesLike
<1>4. CASE l.field \in {"since", "until"}
  <2> DEFINE op == IF l.field = "since" THEN "gte" ELSE "lte"
  <2>1. LeafParams(l, ctx) = Param("time", op, Numeral[Scalar(l)])
    BY <1>4 DEF LeafParams
  <2>2. ParamHolds(l, ctx, o) <=> Holds("time", op, Numeral[Scalar(l)], o)
    BY <2>1, OneParam
  <2>3. Column(l.field, ctx) = "time"
    BY <1>4 DEF Column
  <2> QED BY <1>4, <2>2, <2>3 DEF MeansLeaf, Holds
<1>5. CASE l.field \in NameFields
  <2>1. l.field \notin CVFields \cup GroupFields \cup {"state", "since", "until"}
        /\ l.field \notin {"groups", "host_groups"}
    BY <1>5 DEF NameFields
  <2>2. Column(l.field, ctx) = l.field
    BY <2>1 DEF Column
  <2> DEFINE at == o[l.field]
  <2>3. CASE l.op \in {"regex", "in"}
    <3>1. LeafParams(l, ctx) = Param(l.field, "regex", Pattern(FALSE, l.value))
      BY <2>1, <2>3 DEF LeafParams
    <3>2. ParamHolds(l, ctx, o) <=> \E n \in l.value : <<n, at>> \in Within
      <4>1. ParamHolds(l, ctx, o) <=> Holds(l.field, "regex", Pattern(FALSE, l.value), o)
        BY <3>1, OneParam
      <4>2. Pattern(FALSE, l.value).exact = FALSE /\ Pattern(FALSE, l.value).of = l.value
        BY DEF Pattern
      <4> QED BY <4>1, <4>2 DEF Holds
    <3>3. MeansLeaf(l, ctx, o) <=> IF l.op = "in" THEN at \in l.value
                                   ELSE \E n \in l.value : <<n, at>> \in Within
      BY <2>1, <2>2, <2>3 DEF MeansLeaf
    <3>4. l.op = "in" => \A v \in l.value : <<v, v>> \in Within
      BY <1>5 DEF Sayable
    <3> HIDE DEF at
    <3> QED BY <1>5, <2>3, <3>2, <3>3, <3>4
  <2>4. CASE l.op \notin {"regex", "in"}
    <3>1. l.op \in LiteralOps
      BY <2>4 DEF Sayable, Operators, LiteralOps
    <3>2. LeafParams(l, ctx) = Param(l.field, StateOp[l.op], Scalar(l))
      BY <2>1, <2>4 DEF LeafParams
    <3>3. ParamHolds(l, ctx, o) <=> Holds(l.field, StateOp[l.op], Scalar(l), o)
      BY <3>2, OneParam
    <3>4. MeansLeaf(l, ctx, o) <=> Compare(l.op, at, Scalar(l))
      BY <2>1, <2>2, <2>4 DEF MeansLeaf
    <3> QED BY <2>1, <3>1, <3>3, <3>4, ComparesLike
  <2> QED BY <2>3, <2>4
<1> QED BY <1>1, <1>2, <1>3, <1>4, <1>5 DEF Sayable

\* What a condition of a q= expression selects.
Askable(l, ctx) ==
    /\ l.field \in GroupFields => l.op # "neq"
    /\ l.field = "state" /\ ctx # "services" => Scalar(l) \notin ServiceStates
LEMMA QLeafMeans ==
    ASSUME NEW ctx, NEW o, NEW l, ctx # "problems", Sayable(l, ctx), Askable(l, ctx)
    PROVE  QLeafHolds(l, ctx, o) <=> MeansLeaf(l, ctx, o)
<1> USE DEF CVFields, GroupFields
<1>0. ASSUME NEW column, NEW op, NEW value, QLeaf(l, ctx) = <<column, op, value>>
      PROVE  QLeafHolds(l, ctx, o) <=> Holds(column, op, value, o)
  BY <1>0 DEF QLeafHolds
<1>1. CASE l.field \in CVFields
  <2>1. Column(l.field, ctx) = IF l.field = "host_custom_var" THEN "host_cv" ELSE "cv"
    BY <1>1 DEF Column
  <2>2. QLeaf(l, ctx) = <<Column(l.field, ctx), "", Scalar(l)>>
    BY <1>1, <2>1 DEF QLeaf
  <2>3. QLeafHolds(l, ctx, o) <=> o[Column(l.field, ctx)] = Scalar(l)
    <3>1. QLeafHolds(l, ctx, o) <=> Holds(Column(l.field, ctx), "", Scalar(l), o)
      BY <1>0, <2>2
    <3> QED BY <3>1 DEF Holds
  <2>4. MeansLeaf(l, ctx, o) <=> o[Column(l.field, ctx)] = Scalar(l)
    BY <1>1 DEF MeansLeaf, Sayable, Compare
  <2> QED BY <2>3, <2>4
<1>2. CASE l.field \in GroupFields
  <2>1. Column(l.field, ctx) = (IF l.field = "hostgroup" /\ ctx = "services" THEN "host_groups" ELSE "groups")
    BY <1>2 DEF Column
  <2>2. l.op # "neq"
    BY <1>2 DEF Askable
  <2>3. QLeaf(l, ctx) = <<Column(l.field, ctx), "gte", Scalar(l)>>
    BY <1>2, <2>1, <2>2 DEF QLeaf
  <2>4. PICK v : l.value = {v}
    BY <1>2 DEF Sayable
  <2>5. Scalar(l) = v
    BY <2>4, OneValue
  <2>6. MeansLeaf(l, ctx, o) <=> v \in o[Column(l.field, ctx)]
    BY <1>2, <2>2, <2>4 DEF MeansLeaf
  <2>7. QLeafHolds(l, ctx, o) <=> Holds(Column(l.field, ctx), "gte", v, o)
    BY <1>0, <2>3, <2>5
  <2>8. QLeafHolds(l, ctx, o) <=> v \in o[Column(l.field, ctx)]
    BY <2>1, <2>7 DEF Holds
  <2> QED BY <2>6, <2>8
<1>3. CASE l.field = "state"
  <2>1. Column(l.field, ctx) = "state"
    BY <1>3 DEF Column
  <2>2. PICK v \in l.value : l.value = {v}
    BY <1>3 DEF Sayable, LiteralOps
  <2>3. Scalar(l) = v /\ l.op \in LiteralOps
    BY <1>3, <2>2, OneValue DEF Sayable
  <2>4. v \in (IF ctx = "services" THEN ServiceStates ELSE HostStates) \cup Numerals
    BY <1>3, <2>2, <2>3 DEF Sayable, Askable, StateNumber
  <2>5. StateIn(IF ctx = "services" THEN ServiceStates ELSE HostStates, l) = StateNumber[v]
    BY <2>3, <2>4 DEF StateIn
  <2>6. QLeaf(l, ctx) = <<"state", StateOp[l.op], StateNumber[v]>>
    <3>1. l.op \in DOMAIN StateOp
      BY <2>3 DEF StateOp, LiteralOps
    <3> QED BY <1>3, <2>5, <3>1 DEF QLeaf
  <2>7. QLeafHolds(l, ctx, o) <=> Holds("state", StateOp[l.op], StateNumber[v], o)
    BY <1>0, <2>6
  <2>8. MeansLeaf(l, ctx, o) <=> Compare(l.op, o["state"], StateNumber[v])
    BY <1>3, <2>1, <2>3 DEF MeansLeaf, LiteralOps
  <2> QED BY <2>3, <2>7, <2>8, ComparesLike
<1>4. CASE l.field \in {"since", "until"}
  <2> DEFINE op == IF l.field = "since" THEN "gte" ELSE "lte"
  <2>1. QLeaf(l, ctx) = <<"time", op, Numeral[Scalar(l)]>>
    BY <1>4 DEF QLeaf
  <2>2. QLeafHolds(l, ctx, o) <=> Holds("time", op, Numeral[Scalar(l)], o)
    BY <1>0, <2>1
  <2>3. Column(l.field, ctx) = "time"
    BY <1>4 DEF Column
  <2> QED BY <1>4, <2>2, <2>3 DEF MeansLeaf, Holds
<1>5. CASE l.field \in NameFields
  <2>1. l.field \notin CVFields \cup GroupFields \cup {"state", "since", "until"}
        /\ l.field \notin {"groups", "host_groups"}
    BY <1>5 DEF NameFields
  <2>2. Column(l.field, ctx) = l.field
    BY <2>1 DEF Column
  <2> DEFINE at == o[l.field]
  <2>3. CASE l.op \in {"regex", "in"}
    <3> DEFINE pattern == Pattern(l.op = "in", l.value)
    <3>1. QLeaf(l, ctx) = <<l.field, "regex", pattern>>
      BY <2>1, <2>3 DEF QLeaf
    <3>2. pattern.exact = (l.op = "in") /\ pattern.of = l.value
      BY DEF Pattern
    <3> HIDE DEF pattern
    <3>3. QLeafHolds(l, ctx, o) <=> Holds(l.field, "regex", pattern, o)
      BY <1>0, <3>1
    <3>4. QLeafHolds(l, ctx, o) <=> IF l.op = "in" THEN at \in l.value
                                    ELSE \E n \in l.value : <<n, at>> \in Within
      BY <3>2, <3>3 DEF Holds
    <3>5. MeansLeaf(l, ctx, o) <=> IF l.op = "in" THEN at \in l.value
                                   ELSE \E n \in l.value : <<n, at>> \in Within
      BY <2>1, <2>2, <2>3 DEF MeansLeaf
    <3> HIDE DEF at
    <3> QED BY <3>4, <3>5
  <2>4. CASE l.op \notin {"regex", "in"}
    <3>1. l.op \in LiteralOps
      BY <2>4 DEF Sayable, Operators, LiteralOps
    <3>2. QLeaf(l, ctx) = <<l.field, StateOp[l.op], Scalar(l)>>
      BY <2>1, <2>4 DEF QLeaf
    <3>3. QLeafHolds(l, ctx, o) <=> Holds(l.field, StateOp[l.op], Scalar(l), o)
      BY <1>0, <3>2
    <3>4. MeansLeaf(l, ctx, o) <=> Compare(l.op, at, Scalar(l))
      BY <2>1, <2>2, <2>4 DEF MeansLeaf
    <3> QED BY <2>1, <3>1, <3>3, <3>4, ComparesLike
  <2> QED BY <2>3, <2>4
<1> QED BY <1>1, <1>2, <1>3, <1>4, <1>5 DEF Sayable

\* What is meant and what is selected, of any object and any filter.
TrueOf(ctx, o) == {l \in Conditions : MeansLeaf(l, ctx, o)}
LEMMA MeansIs ==
    ASSUME NEW n \in Trees, NEW ctx, NEW o
    PROVE  Means(n, ctx, o) <=> Satisfied(n, TrueOf(ctx, o))
<1> DEFINE S == {l \in LeavesOf(n) : MeansLeaf(l, ctx, o)}
<1>1. \A l \in LeavesOf(n) : l \in S <=> l \in TrueOf(ctx, o)
  BY LeavesUnfold DEF TrueOf
<1>2. Means(n, ctx, o) <=> Satisfied(n, S)
  BY DEF Means
<1> HIDE DEF S
<1> QED BY <1>1, <1>2, MoreSatisfied

Parted(n) == Top(Expand(n))
LEMMA Translates ==
    ASSUME NEW n \in TreesOf[MaxHeight + 1], NEW ctx, NEW o, ctx # "problems",
           \A l \in LeavesOf(n) : Given(l, ctx),
           \A l \in MixedOf(Parted(n)) : Askable(l, ctx)
    PROVE  /\ n \in Trees
           /\ Satisfied(n, TrueOf(ctx, o)) => Matches(CompileFilter(n, ctx), ctx, o)
           /\ /\ Distinct(PlainOf(Parted(n)), ctx)
              /\ \A l \in PlainOf(Parted(n)) : ~(l.op = "in" /\ l.field \in NameFields)
              /\ Matches(CompileFilter(n, ctx), ctx, o)
              => Satisfied(n, TrueOf(ctx, o))
<1> DEFINE e == Expand(n)
           true == TrueOf(ctx, o)
           parts == Parted(n)
           query == CompileFilter(n, ctx)
<1>1. /\ n \in Trees /\ e \in Trees /\ LeavesOf(e) = UNION {Alternatives(l) : l \in LeavesOf(n)}
      /\ Satisfied(e, true) <=> Satisfied(n, Expandable(true))
  BY ExpandIs
<1>2. /\ parts \subseteq Trees /\ LeavesOf(e) = UNION {LeavesOf(c) : c \in parts}
      /\ Satisfied(e, true) <=> \A c \in parts : Satisfied(c, true)
  BY <1>1, TopIs DEF Parted
<1>3. Expandable(true) = true
  BY AlternativesMean, ExpandedIs DEF Expandable, TrueOf
<1>4. IsCompiled(query, parts, ctx)
  BY CompiledIs DEF Parted
<1> HIDE DEF e, parts, query
<1>5. ASSUME NEW l \in LeavesOf(e)
      PROVE  Sayable(l, ctx) /\ (l \in true <=> MeansLeaf(l, ctx, o))
  <2>1. l \in Conditions
    BY <1>1, LeavesUnfold
  <2>2. PICK m \in LeavesOf(n) : l \in Alternatives(m)
    BY <1>1
  <2> QED BY <2>1, <2>2, AlternativesAreSayable DEF TrueOf
<1> HIDE DEF true
<1>6. \A l \in PlainOf(parts) \cup MixedOf(parts) : l \in LeavesOf(e)
  BY <1>2 DEF PlainOf, MixedOf
<1>7. \A l \in PlainOf(parts) :
        /\ l \in true => ParamHolds(l, ctx, o)
        /\ ~(l.op = "in" /\ l.field \in NameFields) => (ParamHolds(l, ctx, o) => l \in true)
  BY <1>5, <1>6, ParamMeans
<1>8. \A l \in MixedOf(parts) : QLeafHolds(l, ctx, o) <=> l \in true
  BY <1>5, <1>6, QLeafMeans DEF parts
<1>9. Satisfied(n, true) => Matches(query, ctx, o)
  BY <1>1, <1>2, <1>3, <1>4, <1>7, <1>8, SelectsAll
<1>10. ASSUME Distinct(PlainOf(parts), ctx), Matches(query, ctx, o),
              \A l \in PlainOf(parts) : ~(l.op = "in" /\ l.field \in NameFields)
       PROVE  Satisfied(n, true)
  <2>1. \A c \in parts : Satisfied(c, true)
    BY <1>2, <1>4, <1>7, <1>8, <1>10, SelectsOnly
  <2> QED BY <1>1, <1>2, <1>3, <2>1
<1> QED BY <1>1, <1>9, <1>10 DEF true, query, parts

\* What is known of the conditions of a filter that is given.
LeavesAre(n, ctx) == \A l \in LeavesOf(n) : WellFormed(l, ctx)
LEMMA GivenLeaves ==
    ASSUME NEW n \in Trees, NEW ctx \in DOMAIN Fields, LeavesAre(n, ctx), Valid(n), NEW target,
           Expressible(n, target)
    PROVE  \A l \in LeavesOf(n) : Given(l, ctx)
BY DEF LeavesAre, Valid, Expressible, Given

LEMMA LowerTrees ==
    /\ TreesOf[MaxHeight] \subseteq TreesOf[MaxHeight + 1]
    /\ TreesOf[MaxHeight + 1] \subseteq Trees /\ TreesOf[MaxHeight] \subseteq Trees
<1>1. MaxHeight \in Nat /\ MaxHeight + 1 \in Nat /\ MaxHeight + 2 = (MaxHeight + 1) + 1
  BY FiltersAssumption
<1> QED BY <1>1, Shapes, TreesAre

\* Filters of hosts and of services.
LEMMA Simply ==
    ASSUME NEW n \in TreesOf[MaxHeight], NEW ctx \in {"hosts", "services"}, NEW o,
           LeavesAre(n, ctx), \A l \in LeavesOf(n) : ValidLeaf(l), Expressible(n, ctx)
    PROVE  /\ Means(n, ctx, o) => Matches(CompileFilter(n, ctx), ctx, o)
           /\ ~Widens(n, ctx) /\ Matches(CompileFilter(n, ctx), ctx, o) => Means(n, ctx, o)
           /\ CompileFilter(n, ctx).q = {c \in Parts(n, ctx) : HasOr(c)}
<1>1. n \in TreesOf[MaxHeight + 1] /\ n \in Trees /\ ctx # "problems" /\ ctx # "logs" /\ ctx \in DOMAIN Fields
  BY LowerTrees DEF Fields
<1>2. \A l \in LeavesOf(n) : Given(l, ctx)
  BY <1>1 DEF LeavesAre, Expressible, Given
<1>3. Parts(n, ctx) = Parted(n)
  BY <1>1 DEF Parts, Parted
<1>4. Plain(n, ctx) = PlainOf(Parted(n)) /\ Alternative(n, ctx) = MixedOf(Parted(n))
  BY <1>3 DEF Plain, Alternative, PlainOf, MixedOf
<1>5. \A l \in MixedOf(Parted(n)) : Askable(l, ctx)
  BY <1>4 DEF Expressible, Askable
<1>6. ASSUME ~Widens(n, ctx)
      PROVE  /\ Distinct(PlainOf(Parted(n)), ctx)
             /\ \A l \in PlainOf(Parted(n)) : ~(l.op = "in" /\ l.field \in NameFields)
  BY <1>4, <1>6 DEF Widens, SharesParam, Distinct
<1>7. CompileFilter(n, ctx).q = {c \in Parted(n) : HasOr(c)}
  BY <1>1, CompiledIs DEF IsCompiled, Parted
<1>8. /\ Means(n, ctx, o) => Matches(CompileFilter(n, ctx), ctx, o)
      /\ ~Widens(n, ctx) /\ Matches(CompileFilter(n, ctx), ctx, o) => Means(n, ctx, o)
  BY <1>1, <1>2, <1>5, <1>6, Translates, MeansIs
<1> QED BY <1>3, <1>7, <1>8

\* Dictionaries that are updated once.
LEMMA TwoUpdates ==
    ASSUME NEW d, NEW e
    PROVE  /\ \A k : k \in DOMAIN Updates(<<d, e>>) <=> k \in DOMAIN d \cup DOMAIN e
           /\ \A k \in DOMAIN e : Updates(<<d, e>>)[k] = e[k]
           /\ \A k \in DOMAIN d : k \notin DOMAIN e => Updates(<<d, e>>)[k] = d[k]
<1> DEFINE two == <<d, e>>
<1>1. two \in Seq({d, e}) /\ DOMAIN two = {1, 2} /\ two[1] = d /\ two[2] = e
  OBVIOUS
<1> HIDE DEF two
<1>2. \A k : k \in DOMAIN Updates(two) <=> \E i \in DOMAIN two : k \in DOMAIN two[i]
  BY <1>1, UpdatesAre
<1>3. \A k \in DOMAIN Updates(two) : \E i \in DOMAIN two :
        /\ k \in DOMAIN two[i] /\ Updates(two)[k] = two[i][k]
        /\ \A j \in DOMAIN two : k \in DOMAIN two[j] => j <= i
  BY <1>1, UpdatesAre
<1>4. \A k : k \in DOMAIN Updates(two) <=> k \in DOMAIN d \cup DOMAIN e
  BY <1>1, <1>2
<1>5. \A k \in DOMAIN e : Updates(two)[k] = e[k]
  <2> TAKE k \in DOMAIN e
  <2>1. PICK i \in DOMAIN two : Updates(two)[k] = two[i][k] /\ \A j \in DOMAIN two : k \in DOMAIN two[j] => j <= i
    BY <1>3, <1>4
  <2>2. i = 2
    BY <1>1, <2>1
  <2> QED BY <1>1, <2>1, <2>2
<1>6. \A k \in DOMAIN d : k \notin DOMAIN e => Updates(two)[k] = d[k]
  BY <1>1, <1>3, <1>4
<1> QED BY <1>4, <1>5, <1>6 DEF two

\* The parts of a filter of the log: those that are asked directly, and those that are
\* looked up.
LEMMA NothingIs ==
    /\ Nothing \in TreesOf[MaxHeight] /\ LeavesOf(Nothing) = {}
    /\ \A S : Satisfied(Nothing, S)
<1>1. Nothing \in TreesOf[1]
  <2>1. TreesOf[0 + 1] = Higher(TreesOf[0]) /\ 0 + 1 = 1
    BY Nesting
  <2>2. <<>> \in Seq(TreesOf[0])
    OBVIOUS
  <2> QED BY <2>1, <2>2 DEF Higher, Nothing, Joined, Group
<1>2. TreesOf[1] \subseteq TreesOf[MaxHeight]
  <2>1. MaxHeight \in Nat /\ 1 \in 0..MaxHeight
    BY FiltersAssumption
  <2> QED BY <2>1, HigherHasLower
<1>3. Nothing \in Trees /\ ~IsLeaf(Nothing) /\ Nothing.operator # "or" /\ Children(Nothing) = {}
  BY <1>1, <1>2, LowerTrees DEF Nothing, Joined, Group, IsLeaf, Children
<1>4. LeavesOf(Nothing) = {}
  BY <1>3, LeavesUnfold
<1>5. \A S : Satisfied(Nothing, S)
  BY <1>3, SatisfiedUnfold
<1> QED BY <1>1, <1>2, <1>4, <1>5

\* A conjunction that keeps some conjuncts of a filter, those in a set.
Kept(n, keep) == LET parts == Conjuncts(n) IN
    Joined([i \in DOMAIN parts |-> IF parts[i] \in keep THEN parts[i] ELSE Nothing])
LEMMA KeptIs ==
    ASSUME NEW n \in TreesOf[MaxHeight], NEW keep
    PROVE  /\ Kept(n, keep) \in TreesOf[MaxHeight + 1]
           /\ LeavesOf(Kept(n, keep)) = UNION {LeavesOf(c) : c \in ToSet(Conjuncts(n)) \cap keep}
           /\ LeavesOf(Kept(n, keep)) \subseteq LeavesOf(n)
           /\ \A S : Satisfied(Kept(n, keep), S) <=> \A c \in ToSet(Conjuncts(n)) \cap keep : Satisfied(c, S)
           /\ PlainOf(Parted(Kept(n, keep))) \subseteq Plain(n, "logs")
           /\ MixedOf(Parted(Kept(n, keep))) \subseteq Alternative(n, "logs")
<1> DEFINE parts == Conjuncts(n)
           One(c) == IF c \in keep THEN c ELSE Nothing
           conditions == [i \in DOMAIN parts |-> One(parts[i])]
           kept == Kept(n, keep)
           C == ToSet(parts)
<1>1. MaxHeight \in Nat /\ MaxHeight \in 0..(MaxHeight + 2)
  BY FiltersAssumption
<1>2. /\ parts \in Seq(TreesOf[MaxHeight]) /\ LeavesOf(n) = UNION {LeavesOf(c) : c \in C}
      /\ C \subseteq TreesOf[MaxHeight]
  <2>1. parts \in Seq(TreesOf[MaxHeight]) /\ LeavesOf(n) = UNION {LeavesOf(c) : c \in C}
    BY <1>1, ConjunctsAre
  <2> QED BY <2>1 DEF ToSet
<1>3. kept = Group("and", conditions)
  BY DEF Kept, Joined
<1> HIDE DEF kept, parts
<1>4. conditions \in Seq(TreesOf[MaxHeight])
  <2>1. \A i \in DOMAIN parts : One(parts[i]) \in TreesOf[MaxHeight]
    BY <1>2, NothingIs
  <2> HIDE DEF One
  <2> QED BY <1>2, <2>1
<1>5. {conditions[i] : i \in DOMAIN conditions} = {One(c) : c \in C}
  <2> HIDE DEF One
  <2> QED BY DEF ToSet
<1> HIDE DEF conditions
<1>6. kept \in TreesOf[MaxHeight + 1]
  <2>1. TreesOf[MaxHeight + 1] = Higher(TreesOf[MaxHeight])
    BY <1>1, Nesting
  <2> QED BY <1>3, <1>4, <2>1 DEF Higher, Group
<1>7. kept \in Trees /\ ~IsLeaf(kept) /\ kept.operator = "and" /\ Children(kept) = {One(c) : c \in C}
  BY <1>3, <1>5, <1>6, LowerTrees DEF Group, IsLeaf, Children
<1>8. LeavesOf(kept) = UNION {LeavesOf(c) : c \in C \cap keep}
  <2>1. LeavesOf(kept) = UNION {LeavesOf(c) : c \in {One(c) : c \in C}}
    BY <1>7, LeavesUnfold
  <2>2. \A c \in C : LeavesOf(One(c)) = IF c \in keep THEN LeavesOf(c) ELSE {}
    BY NothingIs
  <2> HIDE DEF One, C
  <2> QED BY <2>1, <2>2
<1>9. ASSUME NEW S
      PROVE  Satisfied(kept, S) <=> \A c \in C \cap keep : Satisfied(c, S)
  <2>1. Satisfied(kept, S) <=> \A c \in {One(c) : c \in C} : Satisfied(c, S)
    BY <1>7, SatisfiedUnfold
  <2>2. \A c \in C : Satisfied(One(c), S) <=> (c \in keep => Satisfied(c, S))
    BY NothingIs
  <2> HIDE DEF One, C
  <2> QED BY <2>1, <2>2
<1>10. Parted(kept) = {Expand(One(c)) : c \in C}
  <2>1. \A l \in Conditions : Expansions[l] \in TreesOf[1]
    BY ExpandedIs
  <2>2. \A m : Expand(m) = Rewritten(m, Expansions)
    BY DEF Expand, Expansions
  <2>3. /\ ~IsLeaf(Expand(kept)) /\ Expand(kept).operator = "and"
        /\ Children(Expand(kept)) = {Expand(c) : c \in Children(kept)}
    BY <1>7, <2>1, <2>2, RewrittenGroup
  <2>4. Parted(kept) = Children(Expand(kept))
    BY <2>3 DEF Parted, Top
  <2> HIDE DEF One, C
  <2> QED BY <1>7, <2>3, <2>4
<1>11. LeavesOf(Expand(Nothing)) = {}
  <2>1. LeavesOf(Expand(Nothing)) = UNION {Alternatives(l) : l \in LeavesOf(Nothing)}
    BY NothingIs, LowerTrees, ExpandIs
  <2> QED BY <2>1, NothingIs
<1>12. Parts(n, "logs") = {Expand(c) : c \in C}
  BY DEF Parts, parts
<1>13. \A p \in Parted(kept) : p \in Parts(n, "logs") \/ LeavesOf(p) = {}
  BY <1>10, <1>11, <1>12
<1>14. PlainOf(Parted(kept)) \subseteq Plain(n, "logs") /\ MixedOf(Parted(kept)) \subseteq Alternative(n, "logs")
  BY <1>13 DEF PlainOf, MixedOf, Plain, Alternative
<1>15. LeavesOf(kept) \subseteq LeavesOf(n)
  BY <1>2, <1>8
<1> QED BY <1>6, <1>8, <1>9, <1>14, <1>15 DEF kept, parts

\* Filters of the log.
LookupsOf(n) == {c \in ToSet(Conjuncts(n)) : Lookup(c)}
LEMMA DirectIs ==
    ASSUME NEW n
    PROVE  /\ LookedUp(n) = Kept(n, LookupsOf(n))
           /\ Direct(n) = Kept(n, ToSet(Conjuncts(n)) \ LookupsOf(n))
<1> DEFINE parts == Conjuncts(n)
           keep == LookupsOf(n)
           others == ToSet(parts) \ keep
<1>1. \A i \in DOMAIN parts : /\ parts[i] \in keep <=> Lookup(parts[i])
                              /\ parts[i] \in others <=> ~Lookup(parts[i])
  BY DEF LookupsOf, ToSet
<1> HIDE DEF parts, keep, others
<1>2. [i \in DOMAIN parts |-> IF Lookup(parts[i]) THEN parts[i] ELSE Nothing]
      = [i \in DOMAIN parts |-> IF parts[i] \in keep THEN parts[i] ELSE Nothing]
  BY <1>1
<1>3. [i \in DOMAIN parts |-> IF Lookup(parts[i]) THEN Nothing ELSE parts[i]]
      = [i \in DOMAIN parts |-> IF parts[i] \in others THEN parts[i] ELSE Nothing]
  BY <1>1
<1> QED BY <1>2, <1>3 DEF LookedUp, Direct, Kept, parts, keep, others

LEMMA SameParams == \A l : LeafParams(l, "hosts") = LeafParams(l, "logs")
BY DEF LeafParams
LEMMA HostParam ==
    ASSUME NEW l, Sayable(l, "logs"), <<"host", "regex">> \in DOMAIN LeafParams(l, "logs")
    PROVE  l.field = "host" /\ l.op \in {"regex", "in"}
<1> USE DEF CVFields, GroupFields
<1>0. ASSUME NEW column, NEW op, NEW value, LeafParams(l, "logs") = Param(column, op, value)
      PROVE  column = "host" /\ op = "regex"
  <2>1. DOMAIN Param(column, op, value) = {<<column, op>>}
    BY ParamIs
  <2>2. <<"host", "regex">> = <<column, op>>
    BY <1>0, <2>1
  <2> QED BY <2>2
<1>1. l.field \notin CVFields
  BY <1>0 DEF LeafParams
<1>2. l.field # "state"
  BY <1>0 DEF LeafParams
<1>3. l.field \notin GroupFields
  BY <1>0 DEF LeafParams
<1>4. l.field \notin {"since", "until"}
  BY <1>0 DEF LeafParams
<1>5. CASE l.op \in {"regex", "in"}
  <2>1. LeafParams(l, "logs") = Param(l.field, "regex", Pattern(FALSE, l.value))
    BY <1>1, <1>2, <1>3, <1>4, <1>5 DEF LeafParams
  <2> QED BY <1>0, <1>5, <2>1
<1>6. CASE l.op \notin {"regex", "in"}
  <2>1. LeafParams(l, "logs") = Param(l.field, StateOp[l.op], Scalar(l))
    BY <1>1, <1>2, <1>3, <1>4, <1>6 DEF LeafParams
  <2>2. StateOp[l.op] = "regex"
    BY <1>0, <2>1
  <2>3. l.op \in LiteralOps
    BY <1>6 DEF Sayable, Operators, LiteralOps
  <2>4. /\ StateOp["eq"] # "regex" /\ StateOp["neq"] # "regex"
        /\ StateOp["gte"] # "regex" /\ StateOp["lte"] # "regex"
    BY DEF StateOp
  <2> QED BY <2>2, <2>3, <2>4 DEF LiteralOps
<1> QED BY <1>5, <1>6

\* A host and a row of the log about it agree on what is looked up.
LEMMA HostsAgree ==
    ASSUME NEW l, l.field \in LookupFields, NEW o, NEW h, h.groups = o.groups, h.cv = o.cv
    PROVE  MeansLeaf(l, "hosts", h) <=> MeansLeaf(l, "logs", o)
<1>1. CASE l.field = "hostgroup"
  <2>1. Column(l.field, "hosts") = "groups" /\ Column(l.field, "logs") = "groups"
    BY <1>1 DEF Column
  <2> QED BY <1>1, <2>1 DEF MeansLeaf, GroupFields
<1>2. CASE l.field = "custom_var"
  <2>1. Column(l.field, "hosts") = "cv" /\ Column(l.field, "logs") = "cv"
    BY <1>2 DEF Column
  <2> QED BY <1>2, <2>1 DEF MeansLeaf, GroupFields
<1> QED BY <1>1, <1>2 DEF LookupFields

\* The hosts that the look-up selects, and a query with any of them.
LookupHosts(n) == {h \in Objects["hosts"] : Selects(CompileFilter(LookedUp(n), "hosts"), "hosts", h)}
LEMMA FoundAre ==
    ASSUME NEW n, NEW found \in Found(n)
    PROVE  found \subseteq LookupHosts(n) /\ (~Truncated(found) => found = LookupHosts(n))
<1> DEFINE hosts == LookupHosts(n)
<1>1. found \in SUBSET hosts /\ (found = hosts \/ Cardinality(found) = HardLimit)
  BY DEF Found, LookupHosts
<1>2. Cardinality(found) = HardLimit => Truncated(found)
  BY FiltersAssumption DEF Truncated
<1>3. ~Truncated(found) => Cardinality(found) # HardLimit
  BY <1>2
<1>4. ~Truncated(found) => found = LookupHosts(n)
  BY <1>1, <1>3
<1>5. found \subseteq LookupHosts(n)
  BY <1>1
<1> QED BY <1>4, <1>5
Narrow(n, found) ==
    LET direct == CompileFilter(Direct(n), "logs") IN
    Query(Updates(<<direct.params, Param("host", "regex", Pattern(TRUE, {h.name : h \in found}))>>), direct.q)
LEMMA LogQueryIs ==
    ASSUME NEW n, NEW c \in LogQueries(n)
    PROVE  /\ c.target = "logs" /\ c.filter = n
           /\ LeavesOf(LookedUp(n)) = {} => c.query = CompileFilter(Direct(n), "logs")
           /\ LeavesOf(LookedUp(n)) # {} =>
                \E found \in Found(n) : c.query = Narrow(n, found) /\ c.flagged = Truncated(found)
<1>1. CASE LeavesOf(LookedUp(n)) = {}
  BY <1>1 DEF LogQueries, Compilation
<1>2. CASE LeavesOf(LookedUp(n)) # {}
  <2>1. PICK found \in Found(n) : c = Compilation("logs", n, LogQuery(n, found), Truncated(found))
    BY <1>2 DEF LogQueries
  <2>2. LogQuery(n, found) = Narrow(n, found)
    BY DEF LogQuery, Narrow
  <2> QED BY <1>2, <2>1, <2>2 DEF Compilation
<1> QED BY <1>1, <1>2

\* Its conditions on lists are all looked up.
LEMMA LogIsReadable ==
    ASSUME NEW n \in TreesOf[MaxHeight], LeavesAre(n, "logs"), Splits(n)
    PROVE  /\ Readable(CompileFilter(Direct(n), "logs").q)
           /\ Readable(CompileFilter(LookedUp(n), "hosts").q)
<1> DEFINE C == ToSet(Conjuncts(n))
           L == LookupsOf(n)
<1>1. L \subseteq C /\ \A c \in L : IsLeaf(c) /\ c.field \in LookupFields
  BY DEF LookupsOf, Lookup
<1>2. \A c \in C : c \in Trees /\ LeavesOf(c) \subseteq LeavesOf(n)
  <2>1. MaxHeight \in 0..(MaxHeight + 2)
    BY FiltersAssumption
  <2>2. Conjuncts(n) \in Seq(TreesOf[MaxHeight]) /\ LeavesOf(n) = UNION {LeavesOf(c) : c \in C}
    BY <2>1, ConjunctsAre
  <2>3. C \subseteq TreesOf[MaxHeight]
    BY <2>2 DEF ToSet
  <2> QED BY <2>2, <2>3, LowerTrees
<1>3. \A c \in C : IsLeaf(c) => LeavesOf(c) = {c}
  BY <1>2, LeavesUnfold
<1>4. ASSUME NEW c \in C \ L, NEW l \in LeavesOf(c)
      PROVE  l.field \notin ListFields
  <2>1. l.field \notin LookupFields
    <3>1. CASE IsLeaf(c)
      BY <1>3, <1>4, <3>1 DEF LookupsOf, Lookup
    <3>2. CASE ~IsLeaf(c)
      BY <3>2 DEF Splits, HidesLookup
    <3> QED BY <3>1, <3>2
  <2>2. l.field \in Fields["logs"]
    BY <1>2 DEF LeavesAre, WellFormed
  <2> QED BY <2>1, <2>2 DEF Fields, ListFields, LookupFields, GroupFields, CVFields
<1>5. \A c \in L : \A l \in LeavesOf(c) : l.field \in ListFields
  BY <1>1, <1>3 DEF ListFields, LookupFields, GroupFields, CVFields
<1>6. C \cap L = L /\ C \cap (C \ L) = C \ L
  BY <1>1
<1> HIDE DEF L
<1>7. /\ Kept(n, C \ L) \in TreesOf[MaxHeight + 1]
      /\ LeavesOf(Kept(n, C \ L)) = UNION {LeavesOf(c) : c \in C \cap (C \ L)}
  BY KeptIs
<1>8. /\ Kept(n, L) \in TreesOf[MaxHeight + 1]
      /\ LeavesOf(Kept(n, L)) = UNION {LeavesOf(c) : c \in C \cap L}
  BY KeptIs
<1>9. Alike(LeavesOf(Kept(n, C \ L))) /\ Alike(LeavesOf(Kept(n, L)))
  <2> HIDE DEF C
  <2>1. \A l \in LeavesOf(Kept(n, C \ L)) : l.field \notin ListFields
    BY <1>4, <1>6, <1>7
  <2>2. \A l \in LeavesOf(Kept(n, L)) : l.field \in ListFields
    BY <1>5, <1>6, <1>8
  <2> QED BY <2>1, <2>2 DEF Alike
<1>10. Direct(n) = Kept(n, C \ L) /\ LookedUp(n) = Kept(n, L)
  BY DirectIs DEF L
<1> QED BY <1>7, <1>8, <1>9, <1>10, CompiledAlike

LEMMA LogMatches ==
    ASSUME NEW n \in TreesOf[MaxHeight], NEW o \in Objects["logs"],
           LeavesAre(n, "logs"), Valid(n), Expressible(n, "logs"), Splits(n),
           NEW found \in SUBSET LookupHosts(n)
    PROVE  /\ LeavesOf(LookedUp(n)) = {} =>
                /\ Means(n, "logs", o) => Matches(CompileFilter(Direct(n), "logs"), "logs", o)
                /\ ~Widens(n, "logs") /\ Matches(CompileFilter(Direct(n), "logs"), "logs", o)
                   => Means(n, "logs", o)
           /\ LeavesOf(LookedUp(n)) # {} =>
                /\ Means(n, "logs", o) /\ found = LookupHosts(n) => Matches(Narrow(n, found), "logs", o)
                /\ ~Widens(n, "logs") /\ Matches(Narrow(n, found), "logs", o) => Means(n, "logs", o)
<1> DEFINE C == ToSet(Conjuncts(n))
           L == LookupsOf(n)
           asked == Kept(n, C \ L)
           lookup == Kept(n, L)
           direct == CompileFilter(asked, "logs")
           true == TrueOf("logs", o)
           key == <<"host", "regex">>
           hosts == {h.name : h \in found}
           host == Param("host", "regex", Pattern(TRUE, hosts))
           whole == Query(Updates(<<direct.params, host>>), direct.q)
<1>1. n \in Trees /\ "logs" \in DOMAIN Fields /\ "hosts" \in DOMAIN Fields
  BY LowerTrees DEF Fields
<1>2. /\ Satisfied(n, true) <=> \A c \in C : Satisfied(c, true)
      /\ Means(n, "logs", o) <=> Satisfied(n, true)
      /\ C \subseteq Trees
  <2>1. MaxHeight \in 0..(MaxHeight + 2)
    BY FiltersAssumption
  <2>2. Conjuncts(n) \in Seq(TreesOf[MaxHeight])
    BY <2>1, ConjunctsAre
  <2>3. C \subseteq TreesOf[MaxHeight]
    BY <2>2 DEF ToSet
  <2> QED BY <1>1, <2>1, <2>3, ConjunctsAre, MeansIs, LowerTrees
<1>3. \A l \in LeavesOf(n) : Given(l, "logs")
  BY <1>1, GivenLeaves
<1>4. /\ \A l \in Alternative(n, "logs") : Askable(l, "logs") /\ Askable(l, "hosts")
  BY DEF Expressible, Askable
<1>5. /\ LookedUp(n) = lookup /\ CompileFilter(Direct(n), "logs") = direct /\ Narrow(n, found) = whole
  BY DirectIs DEF Narrow
<1>6. \A h : h \in LookupHosts(n) <=> h \in Objects["hosts"] /\ Matches(CompileFilter(lookup, "hosts"), "hosts", h)
  <2>1. Readable(CompileFilter(lookup, "hosts").q)
    BY <1>5, LogIsReadable
  <2> HIDE DEF lookup
  <2> QED BY <1>5, <2>1 DEF LookupHosts, Selects
<1>7. L \subseteq C /\ \A c \in L : IsLeaf(c) /\ c.field \in LookupFields
  BY DEF LookupsOf, Lookup
<1>8. DOMAIN host = {key} /\ host[key] = Pattern(TRUE, hosts)
  <2> HIDE DEF hosts
  <2>1. \A v : DOMAIN Param("host", "regex", v) = {<<"host", "regex">>}
               /\ Param("host", "regex", v)[<<"host", "regex">>] = v
    BY ParamIs
  <2> QED BY <2>1
<1> HIDE DEF C, L, asked, lookup, direct, true, hosts, host, key
<1>9. /\ asked \in TreesOf[MaxHeight + 1] /\ LeavesOf(asked) \subseteq LeavesOf(n)
      /\ Satisfied(asked, true) <=> \A c \in C \ L : Satisfied(c, true)
      /\ PlainOf(Parted(asked)) \subseteq Plain(n, "logs")
      /\ MixedOf(Parted(asked)) \subseteq Alternative(n, "logs")
  <2>1. ToSet(Conjuncts(n)) \cap (C \ L) = C \ L
    BY DEF C
  <2> QED BY <2>1, KeptIs DEF asked
<1>10. /\ lookup \in TreesOf[MaxHeight + 1] /\ LeavesOf(lookup) \subseteq LeavesOf(n)
       /\ LeavesOf(lookup) = L
       /\ \A S : Satisfied(lookup, S) <=> \A c \in L : Satisfied(c, S)
       /\ PlainOf(Parted(lookup)) \subseteq Plain(n, "logs")
       /\ MixedOf(Parted(lookup)) \subseteq Alternative(n, "logs")
  <2>1. ToSet(Conjuncts(n)) \cap L = L
    BY <1>7 DEF C
  <2>2. \A c \in L : LeavesOf(c) = {c}
    BY <1>2, <1>7, LeavesUnfold
  <2>3. LeavesOf(lookup) = UNION {LeavesOf(c) : c \in L}
    BY <2>1, KeptIs DEF lookup
  <2>4. LeavesOf(lookup) = L
    BY <2>2, <2>3
  <2> QED BY <2>1, <2>4, KeptIs DEF lookup
<1>11. /\ Satisfied(asked, true) => Matches(direct, "logs", o)
       /\ ~Widens(n, "logs") /\ Matches(direct, "logs", o) => Satisfied(asked, true)
  <2>1. \A l \in LeavesOf(asked) : Given(l, "logs")
    BY <1>3, <1>9
  <2>2. \A l \in MixedOf(Parted(asked)) : Askable(l, "logs")
    BY <1>4, <1>9
  <2>3. ~Widens(n, "logs") => /\ Distinct(PlainOf(Parted(asked)), "logs")
                              /\ \A l \in PlainOf(Parted(asked)) : ~(l.op = "in" /\ l.field \in NameFields)
    BY <1>9 DEF Widens, SharesParam, Distinct
  <2> QED BY <1>9, <2>1, <2>2, <2>3, Translates DEF direct, true
<1>12. ASSUME NEW h \in Objects["hosts"], h.name = o.host
       PROVE  /\ (\A c \in L : Satisfied(c, true)) => Matches(CompileFilter(lookup, "hosts"), "hosts", h)
              /\ ~Widens(n, "logs") /\ Matches(CompileFilter(lookup, "hosts"), "hosts", h)
                 => \A c \in L : Satisfied(c, true)
  <2> DEFINE told == TrueOf("hosts", h)
  <2>1. \A l \in LeavesOf(lookup) : Given(l, "hosts")
    <3> TAKE l \in LeavesOf(lookup)
    <3>1. Given(l, "logs") /\ l.field \in LookupFields
      BY <1>3, <1>7, <1>10
    <3>2. l.field \in Fields["hosts"] /\ l.field # "state"
      BY <3>1 DEF Fields, LookupFields
    <3> QED BY <1>1, <3>1, <3>2 DEF Given, WellFormed
  <2>2. \A l \in MixedOf(Parted(lookup)) : Askable(l, "hosts")
    BY <1>4, <1>10
  <2>3. ~Widens(n, "logs") => /\ Distinct(PlainOf(Parted(lookup)), "hosts")
                              /\ \A l \in PlainOf(Parted(lookup)) : ~(l.op = "in" /\ l.field \in NameFields)
    BY <1>10, SameParams DEF Widens, SharesParam, Distinct
  <2>4. /\ Satisfied(lookup, told) => Matches(CompileFilter(lookup, "hosts"), "hosts", h)
        /\ ~Widens(n, "logs") /\ Matches(CompileFilter(lookup, "hosts"), "hosts", h)
           => Satisfied(lookup, told)
    BY <1>10, <2>1, <2>2, <2>3, Translates
  <2>5. h.groups = o.groups /\ h.cv = o.cv
    BY <1>12, FiltersAssumption
  <2>6. \A l \in LeavesOf(lookup) : l \in told <=> l \in true
    BY <1>7, <1>10, <2>5, HostsAgree DEF TrueOf, true
  <2> HIDE DEF told
  <2>7. Satisfied(lookup, told) <=> Satisfied(lookup, true)
    BY <1>10, <2>6, MoreSatisfied, LowerTrees
  <2> QED BY <1>10, <2>4, <2>7
<1>13. ASSUME Means(n, "logs", o), found = LookupHosts(n)
       PROVE  Matches(whole, "logs", o)
  <2>1. Matches(direct, "logs", o) /\ \A c \in L : Satisfied(c, true)
    BY <1>2, <1>7, <1>9, <1>11, <1>13
  <2>2. PICK h \in Objects["hosts"] : h.name = o.host
    BY FiltersAssumption
  <2>3. o.host \in hosts
    <3>1. h \in found
      BY <1>6, <1>12, <1>13, <2>1, <2>2
    <3> QED BY <2>2, <3>1 DEF hosts
  <2>4. Holds("host", "regex", Pattern(TRUE, hosts), o)
    BY <2>3 DEF Holds, Pattern
  <2>5. \A k \in DOMAIN Updates(<<direct.params, host>>) :
          Holds(k[1], k[2], Updates(<<direct.params, host>>)[k], o)
    <3> TAKE k \in DOMAIN Updates(<<direct.params, host>>)
    <3>1. CASE k = key
      <4>1. key \in DOMAIN host
        BY <1>8
      <4>2. Updates(<<direct.params, host>>)[key] = host[key]
        BY <4>1, TwoUpdates
      <4>3. key[1] = "host" /\ key[2] = "regex"
        BY DEF key
      <4> QED BY <1>8, <2>4, <3>1, <4>2, <4>3
    <3>2. CASE k # key
      <4>1. k \in DOMAIN direct.params /\ Updates(<<direct.params, host>>)[k] = direct.params[k]
        BY <1>8, <3>2, TwoUpdates
      <4> QED BY <2>1, <4>1 DEF Matches
    <3> QED BY <3>1, <3>2
  <2> QED BY <2>1, <2>5 DEF Matches, Query, whole
<1>14. ASSUME ~Widens(n, "logs"), Matches(whole, "logs", o), LeavesOf(lookup) # {}
       PROVE  Means(n, "logs", o)
  <2>2. LeavesOf(LookedUp(n)) # {}
    BY <1>5, <1>14
  <2> QED
    <3>1. Matches(whole, "logs", o)
      BY <1>14
    <3>2. /\ \A k \in DOMAIN Updates(<<direct.params, host>>) :
               Holds(k[1], k[2], Updates(<<direct.params, host>>)[k], o)
          /\ \A c \in direct.q : QHolds(c, "logs", o)
      BY <3>1 DEF Matches, Query, whole
    <3>3. key \notin DOMAIN direct.params
      <4> SUFFICES ASSUME key \in DOMAIN direct.params
                   PROVE  FALSE
        OBVIOUS
      <4>1. IsCompiled(direct, Parted(asked), "logs")
        BY <1>9, CompiledIs DEF direct, Parted
      <4>2. PICK l \in PlainOf(Parted(asked)) : key \in DOMAIN ParamsOf("logs")[l]
        BY <4>1 DEF IsCompiled, FromLeaves
      <4>3. /\ asked \in Trees /\ Expand(asked) \in Trees
            /\ LeavesOf(Expand(asked)) = UNION {Alternatives(m) : m \in LeavesOf(asked)}
            /\ LeavesOf(Expand(asked)) = UNION {LeavesOf(c) : c \in Parted(asked)}
        BY <1>9, ExpandIs, TopIs DEF Parted
      <4>4. l \in LeavesOf(Expand(asked))
        BY <4>3 DEF PlainOf
      <4>5. PICK m \in LeavesOf(asked) : l \in Alternatives(m)
        BY <4>3, <4>4
      <4>6. Sayable(l, "logs")
        BY <1>3, <1>9, <4>5, AlternativesAreSayable
      <4>7. l \in Conditions
        BY <4>3, <4>4, LeavesUnfold
      <4>8. l.field = "host" /\ l.op \in {"regex", "in"}
        BY <4>2, <4>6, <4>7, HostParam DEF ParamsOf, key
      <4>9. l \in Plain(n, "logs") /\ LeavesOf(LookedUp(n)) # {}
        BY <1>9, <2>2
      <4>10. "host" \in NameFields
        BY DEF NameFields
      <4> QED BY <1>14, <4>8, <4>9, <4>10 DEF Widens
    <3>4. Matches(direct, "logs", o)
      <4>1. \A k \in DOMAIN direct.params : /\ k \in DOMAIN Updates(<<direct.params, host>>)
                                            /\ Updates(<<direct.params, host>>)[k] = direct.params[k]
        BY <1>8, <3>3, TwoUpdates
      <4> QED BY <3>2, <4>1 DEF Matches
    <3>5. Holds("host", "regex", Pattern(TRUE, hosts), o)
      <4>1. /\ key \in DOMAIN Updates(<<direct.params, host>>)
            /\ Updates(<<direct.params, host>>)[key] = Pattern(TRUE, hosts)
        <5>1. key \in DOMAIN host
          BY <1>8
        <5>2. key \in DOMAIN Updates(<<direct.params, host>>)
              /\ Updates(<<direct.params, host>>)[key] = host[key]
          BY <5>1, TwoUpdates
        <5> QED BY <1>8, <5>2
      <4>2. key[1] = "host" /\ key[2] = "regex"
        BY DEF key
      <4> QED BY <3>2, <4>1, <4>2
    <3>6. o.host \in hosts
      BY <3>5 DEF Holds, Pattern
    <3>7. PICK h \in Objects["hosts"] : h.name = o.host /\ Matches(CompileFilter(lookup, "hosts"), "hosts", h)
      BY <1>6, <3>6 DEF hosts
    <3>8. \A c \in L : Satisfied(c, true)
      BY <1>12, <1>14, <3>7
    <3>9. \A c \in C \ L : Satisfied(c, true)
      BY <1>9, <1>11, <1>14, <3>4
    <3> QED BY <1>2, <3>8, <3>9
<1>15. LeavesOf(lookup) = {} => L = {}
  BY <1>10
<1>16. L = {} => (Means(n, "logs", o) => Matches(direct, "logs", o))
                 /\ (~Widens(n, "logs") /\ Matches(direct, "logs", o) => Means(n, "logs", o))
  BY <1>2, <1>9, <1>11
<1> QED BY <1>5, <1>13, <1>14, <1>15, <1>16

LEMMA OfTheLog ==
    ASSUME NEW n \in TreesOf[MaxHeight], NEW o \in Objects["logs"],
           LeavesAre(n, "logs"), Valid(n), Expressible(n, "logs"), Splits(n),
           NEW c \in LogQueries(n)
    PROVE  /\ Means(n, "logs", o) /\ ~c.flagged => Selects(c.query, "logs", o)
           /\ ~Widens(n, "logs") /\ Selects(c.query, "logs", o) => Means(n, "logs", o)
<1>1. Readable(CompileFilter(Direct(n), "logs").q)
  BY LogIsReadable
<1>2. CASE LeavesOf(LookedUp(n)) = {}
  <2>1. c.query = CompileFilter(Direct(n), "logs")
    BY <1>2, LogQueryIs
  <2>2. {} \in SUBSET LookupHosts(n)
    OBVIOUS
  <2> QED BY <1>1, <1>2, <2>1, <2>2, LogMatches DEF Selects
<1>3. CASE LeavesOf(LookedUp(n)) # {}
  <2>1. PICK found \in Found(n) : c.query = Narrow(n, found) /\ c.flagged = Truncated(found)
    BY <1>3, LogQueryIs
  <2>2. found \in SUBSET LookupHosts(n) /\ (~Truncated(found) => found = LookupHosts(n))
    BY FoundAre
  <2>3. Narrow(n, found).q = CompileFilter(Direct(n), "logs").q
    BY DEF Narrow, Query
  <2>4. Selects(c.query, "logs", o) <=> Matches(Narrow(n, found), "logs", o)
    BY <1>1, <2>1, <2>3 DEF Selects
  <2>5. /\ Means(n, "logs", o) /\ found = LookupHosts(n) => Matches(Narrow(n, found), "logs", o)
        /\ ~Widens(n, "logs") /\ Matches(Narrow(n, found), "logs", o) => Means(n, "logs", o)
    BY <1>3, <2>2, LogMatches
  <2>6. ~c.flagged => found = LookupHosts(n)
    BY <2>1, <2>2
  <2> QED BY <2>4, <2>5, <2>6
<1> QED BY <1>2, <1>3

\* Trees with other conditions.
Renames(by) == \A l \in Conditions : by[l] \in Conditions
LEMMA RenamedIs ==
    ASSUME NEW by, Renames(by)
    PROVE  /\ \A l \in Conditions : Rewritten(l, by) = by[l]
           /\ \A n \in TreesOf[MaxHeight] : Rewritten(n, by) \in TreesOf[MaxHeight]
           /\ \A n \in Trees :
                /\ Rewritten(n, by) \in Trees
                /\ LeavesOf(Rewritten(n, by)) = {by[l] : l \in LeavesOf(n)}
                /\ IsLeaf(Rewritten(n, by)) <=> IsLeaf(n)
                /\ \A S : Satisfied(Rewritten(n, by), S) <=> Satisfied(n, {l \in Conditions : by[l] \in S})
<1>1. \A l \in Conditions : by[l] \in TreesOf[0]
  BY Nesting DEF Renames
<1>2. MaxHeight \in 0..(MaxHeight + 2) /\ MaxHeight + 0 = MaxHeight /\ MaxHeight + 2 - 0 = MaxHeight + 2
  BY FiltersAssumption
<1>3. \A l \in Conditions : l \in Trees /\ IsLeaf(l) /\ LeavesOf(l) = {l} /\ \A S : Satisfied(l, S) <=> l \in S
  <2> TAKE l \in Conditions
  <2>1. l \in Trees /\ IsLeaf(l)
    BY Nodes DEF Conditions, IsLeaf
  <2> QED BY <2>1, LeavesUnfold, SatisfiedUnfold
<1>4. \A l \in Conditions : Rewritten(l, by) = by[l]
  BY <1>1, <1>3, RewrittenUnfold
<1>5. \A n \in TreesOf[MaxHeight] : Rewritten(n, by) \in TreesOf[MaxHeight]
  BY <1>1, <1>2, RewrittenUnfold
<1>6. ASSUME NEW n \in Trees
      PROVE  /\ Rewritten(n, by) \in Trees
             /\ LeavesOf(Rewritten(n, by)) = {by[l] : l \in LeavesOf(n)}
             /\ IsLeaf(Rewritten(n, by)) <=> IsLeaf(n)
             /\ \A S : Satisfied(Rewritten(n, by), S) <=> Satisfied(n, {l \in Conditions : by[l] \in S})
  <2>1. n \in TreesOf[MaxHeight + 2 - 0]
    BY <1>2, TreesAre
  <2>2. \A S : /\ Rewritten(n, by) \in Trees
               /\ LeavesOf(Rewritten(n, by)) = UNION {LeavesOf(by[l]) : l \in LeavesOf(n)}
               /\ Satisfied(Rewritten(n, by), S) <=> Satisfied(n, HoldRewritten(by, S))
    BY <1>1, <2>1, RewrittenIs
  <2>3. \A l \in LeavesOf(n) : LeavesOf(by[l]) = {by[l]}
    BY <1>3, LeavesUnfold DEF Renames
  <2>4. LeavesOf(Rewritten(n, by)) = {by[l] : l \in LeavesOf(n)}
    BY <2>2, <2>3
  <2>5. \A S : HoldRewritten(by, S) = {l \in Conditions : by[l] \in S}
    BY <1>3 DEF HoldRewritten, Renames
  <2>6. IsLeaf(Rewritten(n, by)) <=> IsLeaf(n)
    BY <1>1, <1>3, <1>4, Nodes, RewrittenGroup DEF Renames, IsNode
  <2> QED BY <2>2, <2>4, <2>5, <2>6
<1> QED BY <1>4, <1>5, <1>6

LEMMA RenamedGroup ==
    ASSUME NEW by, Renames(by), NEW n \in Trees, ~IsLeaf(n)
    PROVE  /\ Rewritten(n, by).operator = n.operator
           /\ Children(Rewritten(n, by)) = {Rewritten(c, by) : c \in Children(n)}
BY Nesting, RewrittenGroup DEF Renames

LEMMA RenamedHasOr ==
    ASSUME NEW by, Renames(by), NEW n \in Trees
    PROVE  HasOr(Rewritten(n, by)) <=> HasOr(n)
<1> DEFINE P == {m \in Trees : HasOr(Rewritten(m, by)) <=> HasOr(m)}
<1>1. ASSUME NEW l \in Conditions
      PROVE  l \in P
  <2>1. l \in Trees /\ IsLeaf(l) /\ Rewritten(l, by) \in Trees /\ IsLeaf(Rewritten(l, by))
    <3>1. l \in Trees /\ IsLeaf(l)
      BY Nodes DEF Conditions, IsLeaf
    <3> QED BY <3>1, RenamedIs
  <2> QED BY <2>1, HasOrUnfold
<1>2. ASSUME NEW m \in Trees, ~IsLeaf(m), \A c \in Children(m) : c \in P
      PROVE  m \in P
  <2> DEFINE r == Rewritten(m, by)
  <2>1. /\ r \in Trees /\ ~IsLeaf(r) /\ r.operator = m.operator
        /\ Children(r) = {Rewritten(c, by) : c \in Children(m)}
    BY <1>2, RenamedIs, RenamedGroup
  <2> HIDE DEF r
  <2>2. HasOr(r) <=> r.operator = "or" \/ \E c \in Children(r) : HasOr(c)
    BY <2>1, HasOrUnfold
  <2>3. HasOr(m) <=> m.operator = "or" \/ \E c \in Children(m) : HasOr(c)
    BY <1>2, HasOrUnfold
  <2> QED BY <1>2, <2>1, <2>2, <2>3 DEF r
<1>3. Trees \subseteq P
  <2> HIDE DEF P
  <2> QED BY <1>1, <1>2, TreesAre, TreeInduction
<1> QED BY <1>3

LEMMA RenamedToItself ==
    ASSUME NEW by, Renames(by), NEW n \in Trees, \A l \in LeavesOf(n) : by[l] = l
    PROVE  Rewritten(n, by) = n
<1> DEFINE P == {m \in Trees : (\A l \in LeavesOf(m) : by[l] = l) => Rewritten(m, by) = m}
<1>1. ASSUME NEW l \in Conditions
      PROVE  l \in P
  <2>1. l \in Trees /\ IsLeaf(l)
    BY Nodes DEF Conditions, IsLeaf
  <2>2. LeavesOf(l) = {l}
    BY <2>1, LeavesUnfold
  <2> QED BY <2>1, <2>2, RenamedIs
<1>2. ASSUME NEW m \in Trees, ~IsLeaf(m), \A c \in Children(m) : c \in P
      PROVE  m \in P
  <2> SUFFICES ASSUME \A l \in LeavesOf(m) : by[l] = l
               PROVE  Rewritten(m, by) = m
    OBVIOUS
  <2>1. IsNode(m, Trees)
    BY <1>2, Nodes
  <2>2. \A c \in Children(m) : Rewritten(c, by) = c
    BY <1>2, LeavesOfChildren
  <2>3. \A i \in DOMAIN m.conditions : Rewritten(m.conditions[i], by) = m.conditions[i]
    BY <2>2 DEF Children
  <2>4. RewrittenOf(m, by) = m.conditions
    <3>1. m.conditions = [i \in DOMAIN m.conditions |-> m.conditions[i]]
      BY <2>1 DEF IsNode
    <3> QED BY <2>3, <3>1 DEF RewrittenOf
  <2>5. Rewritten(m, by) = Group(m.operator, RewrittenOf(m, by))
    BY <1>2, Nesting, RewrittenUnfold DEF Renames
  <2> QED BY <2>1, <2>4, <2>5 DEF IsNode
<1>3. Trees \subseteq P
  <2> HIDE DEF P
  <2> QED BY <1>1, <1>2, TreesAre, TreeInduction
<1> QED BY <1>3

\* The conditions of a services query about hosts.
ServiceNames == [l \in Conditions |-> OnServicesLeaf(l)]
LEMMA ServiceNamesAre ==
    /\ Renames(ServiceNames) /\ \A n : OnServices(n) = Rewritten(n, ServiceNames)
    /\ \A l \in Conditions : /\ ServiceNames[l].op = l.op /\ ServiceNames[l].value = l.value
                             /\ l.field # "custom_var" => ServiceNames[l] = l
                             /\ l.field = "custom_var" => ServiceNames[l].field = "host_custom_var"
<1>1. \A l \in Conditions : OnServicesLeaf(l) \in Conditions
  <2> DEFINE fields == UNION {Fields[c] : c \in DOMAIN Fields}
  <2>1. "host_custom_var" \in fields
    <3>1. "services" \in DOMAIN Fields /\ "host_custom_var" \in Fields["services"]
      BY DEF Fields
    <3> QED BY <3>1
  <2> HIDE DEF fields
  <2>2. Conditions = [kind : {"leaf"}, field : fields, op : Operators, value : SUBSET Values]
    BY DEF Conditions, fields
  <2>3. ASSUME NEW l \in Conditions
        PROVE  Leaf("host_custom_var", l.op, l.value) \in Conditions
    <3>1. l.op \in Operators /\ l.value \in SUBSET Values
      BY <2>2
    <3> QED BY <2>1, <2>2, <3>1 DEF Leaf
  <2> QED BY <2>3 DEF OnServicesLeaf
<1>2. \A l \in Conditions : ServiceNames[l] = OnServicesLeaf(l)
  BY DEF ServiceNames
<1>3. \A l \in Conditions : /\ OnServicesLeaf(l).op = l.op /\ OnServicesLeaf(l).value = l.value
                            /\ l.field # "custom_var" => OnServicesLeaf(l) = l
                            /\ l.field = "custom_var" => OnServicesLeaf(l).field = "host_custom_var"
  BY DEF OnServicesLeaf, Leaf
<1>4. \A n : OnServices(n) = Rewritten(n, ServiceNames)
  BY DEF OnServices, ServiceNames
<1> QED BY <1>1, <1>2, <1>3, <1>4 DEF Renames

\* It is the same whether they are renamed before or after they are expanded.
LEMMA RenamedWhenExpanded ==
    \A n \in TreesOf[MaxHeight] : Expand(OnServices(n)) = OnServices(Expand(n))
<1> DEFINE by == ServiceNames
           P == {n \in TreesOf[MaxHeight] : Expand(OnServices(n)) = OnServices(Expand(n))}
<1>1. \A n : Expand(n) = Rewritten(n, Expansions) /\ OnServices(n) = Rewritten(n, by)
  BY ServiceNamesAre DEF Expand, Expansions
<1>2. Renames(by) /\ \A l \in Conditions : Expansions[l] \in TreesOf[1]
  BY ServiceNamesAre, ExpandedIs
<1> HIDE DEF by
<1>3. \A l \in Conditions : l \in Trees /\ IsLeaf(l) /\ Expand(l) = Expansions[l] /\ OnServices(l) = by[l]
  <2> TAKE l \in Conditions
  <2>1. l \in Trees /\ IsLeaf(l)
    BY Nodes DEF Conditions, IsLeaf
  <2> QED BY <1>1, <1>2, <2>1, RewrittenUnfold, RenamedIs
<1>4. ASSUME NEW l \in Conditions
      PROVE  l \in P
  <2>1. l \in TreesOf[MaxHeight]
    <3>1. 0 \in 0..MaxHeight /\ MaxHeight \in Nat
      BY FiltersAssumption
    <3> QED BY <3>1, HigherHasLower, Nesting
  <2>2. CASE IsExpanded(l)
    <3>1. l.field # "custom_var" /\ by[l] = l
      BY <2>2, ServiceNamesAre DEF IsExpanded, GroupFields, by
    <3>2. \A m \in Alternatives(l) : m.field = l.field /\ m \in Conditions
      <4>1. Alternatives(l) = {Leaf(l.field, "eq", {v}) : v \in l.value}
        BY <2>2 DEF Alternatives
      <4>2. \A v \in l.value : Leaf(l.field, "eq", {v}).field = l.field
        BY DEF Leaf
      <4>3. \A m \in Alternatives(l) : m.field = l.field
        <5> TAKE m \in Alternatives(l)
        <5>1. PICK v \in l.value : m = Leaf(l.field, "eq", {v})
          BY <4>1
        <5> QED BY <4>2, <5>1
      <4>4. Alternatives(l) \subseteq Conditions
        BY ExpandedIs
      <4> QED BY <4>3, <4>4
    <3>3. \A m \in Alternatives(l) : by[m] = m
      BY <3>1, <3>2, ServiceNamesAre DEF by
    <3>4. Expansions[l] \in Trees /\ LeavesOf(Expansions[l]) = Alternatives(l)
      <4>1. 1 \in 0..(MaxHeight + 2)
        BY FiltersAssumption
      <4> QED BY <4>1, TreesAre, HigherHasLower, ExpandedIs
    <3>5. Rewritten(Expansions[l], by) = Expansions[l]
      BY <1>2, <3>3, <3>4, RenamedToItself
    <3> QED BY <1>1, <1>3, <2>1, <3>1, <3>5
  <2>3. CASE ~IsExpanded(l)
    <3>1. by[l] \in Conditions /\ ~IsExpanded(by[l])
      BY <1>2, <2>3, ServiceNamesAre DEF IsExpanded, GroupFields, by, Renames
    <3>2. Expansions[l] = l /\ Expansions[by[l]] = by[l]
      BY <2>3, <3>1 DEF Expansions, Expanded, IsExpanded
    <3> QED BY <1>3, <2>1, <3>1, <3>2
  <2> QED BY <2>2, <2>3
<1>5. ASSUME NEW n \in TreesOf[MaxHeight], ~IsLeaf(n), \A c \in Children(n) : c \in P
      PROVE  n \in P
  <2> DEFINE s == OnServices(n)
             e == Expand(n)
  <2>1. n \in Trees /\ s \in Trees /\ e \in Trees
    BY <1>1, <1>2, LowerTrees, RenamedIs, ExpandIs
  <2>2. /\ ~IsLeaf(s) /\ s.operator = n.operator /\ s.conditions = RewrittenOf(n, by)
        /\ ~IsLeaf(e) /\ e.operator = n.operator /\ e.conditions = RewrittenOf(n, Expansions)
    <3>1. 0 \in Nat /\ 1 \in Nat /\ \A l \in Conditions : by[l] \in TreesOf[0]
      BY <1>2, Nesting DEF Renames
    <3>2. /\ ~IsLeaf(Rewritten(n, by)) /\ Rewritten(n, by).operator = n.operator
          /\ Rewritten(n, by).conditions = RewrittenOf(n, by)
      BY <1>5, <2>1, <3>1, RewrittenGroup
    <3>3. /\ ~IsLeaf(Rewritten(n, Expansions)) /\ Rewritten(n, Expansions).operator = n.operator
          /\ Rewritten(n, Expansions).conditions = RewrittenOf(n, Expansions)
      BY <1>2, <1>5, <2>1, <3>1, RewrittenGroup
    <3> QED BY <1>1, <3>2, <3>3
  <2>3. /\ Expand(s) = Group(n.operator, RewrittenOf(s, Expansions))
        /\ OnServices(e) = Group(n.operator, RewrittenOf(e, by))
    BY <1>1, <1>2, <2>1, <2>2, Nesting, RewrittenUnfold DEF Renames
  <2> HIDE DEF s, e
  <2>4. RewrittenOf(s, Expansions) = [i \in DOMAIN n.conditions |-> Expand(OnServices(n.conditions[i]))]
    <3>1. s.conditions = [i \in DOMAIN n.conditions |-> OnServices(n.conditions[i])]
      BY <1>1, <2>2 DEF RewrittenOf
    <3> QED BY <1>1, <3>1 DEF RewrittenOf
  <2>5. RewrittenOf(e, by) = [i \in DOMAIN n.conditions |-> OnServices(Expand(n.conditions[i]))]
    <3>1. e.conditions = [i \in DOMAIN n.conditions |-> Expand(n.conditions[i])]
      BY <1>1, <2>2 DEF RewrittenOf
    <3> QED BY <1>1, <3>1 DEF RewrittenOf
  <2>6. \A i \in DOMAIN n.conditions : Expand(OnServices(n.conditions[i])) = OnServices(Expand(n.conditions[i]))
    BY <1>5 DEF Children
  <2> QED BY <2>3, <2>4, <2>5, <2>6 DEF s, e
<1>6. TreesOf[MaxHeight] \subseteq P
  <2>1. MaxHeight \in Nat
    BY FiltersAssumption
  <2> HIDE DEF P
  <2> QED BY <1>4, <1>5, <2>1, TreeInduction
<1> QED BY <1>6

\* A condition of the totals, and the one of the services query that counts them.
LEMMA TotalsAgree ==
    ASSUME NEW l \in Conditions, Given(l, "totals"), NEW o, o.cv = o.host_cv
    PROVE  /\ Given(ServiceNames[l], "services")
           /\ MeansLeaf(ServiceNames[l], "services", o) <=> MeansLeaf(l, "services", o)
<1>1. /\ l.field \in {"hostgroup", "servicegroup", "custom_var"}
      /\ l.op \in Operators /\ (l.op \notin {"in", "regex"} => \E v \in l.value : l.value = {v})
      /\ ValidLeaf(l) /\ (l.field = "custom_var" => l.op = "eq")
      /\ l = Leaf(l.field, l.op, l.value)
  BY DEF Given, WellFormed, Fields, CVFields
<1>2. CASE l.field = "custom_var"
  <2> DEFINE m == Leaf("host_custom_var", l.op, l.value)
  <2>1. ServiceNames[l] = m
    BY <1>2 DEF ServiceNames, OnServicesLeaf
  <2>2. m.field = "host_custom_var" /\ m.op = "eq" /\ m.value = l.value /\ l.op = "eq"
        /\ m = Leaf(m.field, m.op, m.value)
    BY <1>1, <1>2 DEF Leaf
  <2> HIDE DEF m
  <2>3. WellFormed(m, "services")
    BY <1>1, <2>2 DEF WellFormed, Fields, Operators, NameFields
  <2>4. ValidLeaf(m)
    BY <2>2 DEF ValidLeaf, GroupFields
  <2>5. Given(m, "services")
    BY <2>2, <2>3, <2>4 DEF Given, Fields
  <2>6. Scalar(m) = Scalar(l)
    BY <2>2 DEF Scalar
  <2>7. o[Column(m.field, "services")] = o[Column(l.field, "services")]
    <3>1. Column(m.field, "services") = "host_cv" /\ Column(l.field, "services") = "cv"
      BY <1>2, <2>2 DEF Column
    <3> QED BY <3>1
  <2>8. MeansLeaf(m, "services", o) <=> Compare("eq", o[Column(m.field, "services")], Scalar(m))
    BY <2>2 DEF MeansLeaf, GroupFields
  <2>9. MeansLeaf(l, "services", o) <=> Compare("eq", o[Column(l.field, "services")], Scalar(l))
    BY <1>2, <2>2 DEF MeansLeaf, GroupFields
  <2> QED BY <2>1, <2>5, <2>6, <2>7, <2>8, <2>9
<1>3. CASE l.field # "custom_var"
  <2>1. ServiceNames[l] = l
    BY <1>3, ServiceNamesAre
  <2>2. l.field \in {"hostgroup", "servicegroup"}
    BY <1>1, <1>3
  <2>3. WellFormed(l, "services")
    BY <1>1, <2>2 DEF WellFormed, Fields, NameFields
  <2>4. Given(l, "services")
    BY <1>1, <2>2, <2>3 DEF Given, Fields, CVFields
  <2> QED BY <2>1, <2>4
<1> QED BY <1>2, <1>3

\* The parameter of a condition on a custom variable.
LEMMA CVParamIs ==
    ASSUME NEW ctx, NEW l, ctx # "problems", l.field \in CVFields
    PROVE  LeafParams(l, ctx) = Param(Column(l.field, ctx), "", Scalar(l))
<1>1. Column(l.field, ctx) = IF l.field = "host_custom_var" THEN "host_cv" ELSE "cv"
  BY DEF Column, CVFields
<1> QED BY <1>1 DEF LeafParams, CVFields, GroupFields

\* Conditions that share no parameter do not share one on services either.
LEMMA TotalsDistinct ==
    ASSUME NEW l \in Conditions, NEW m \in Conditions,
           l.field \in Fields["totals"], m.field \in Fields["totals"],
           DOMAIN LeafParams(l, "services") \cap DOMAIN LeafParams(m, "services") = {}
    PROVE  DOMAIN LeafParams(ServiceNames[l], "services")
           \cap DOMAIN LeafParams(ServiceNames[m], "services") = {}
<1> DEFINE P(c) == DOMAIN LeafParams(c, "services")
<1>1. ASSUME NEW c \in Conditions, c.field = "custom_var"
      PROVE  P(c) = {<<"cv", "">>} /\ P(ServiceNames[c]) = {<<"host_cv", "">>}
  <2>1. ServiceNames[c].field = "host_custom_var"
    BY <1>1, ServiceNamesAre
  <2>2. c.field \in CVFields /\ ServiceNames[c].field \in CVFields
    BY <1>1, <2>1 DEF CVFields
  <2>3. Column(c.field, "services") = "cv" /\ Column(ServiceNames[c].field, "services") = "host_cv"
    BY <1>1, <2>1 DEF Column
  <2>4. LeafParams(c, "services") = Param("cv", "", Scalar(c))
    BY <2>2, <2>3, CVParamIs
  <2>5. LeafParams(ServiceNames[c], "services") = Param("host_cv", "", Scalar(ServiceNames[c]))
    BY <2>2, <2>3, CVParamIs
  <2> QED BY <2>4, <2>5, ParamIs
<1>2. ASSUME NEW c \in Conditions, c.field \in Fields["totals"], c.field # "custom_var"
      PROVE  P(ServiceNames[c]) = P(c) /\ <<"host_cv", "">> \notin P(c)
  <2>1. c.field \in {"hostgroup", "servicegroup"}
    BY <1>2 DEF Fields
  <2>2. \E column \in {"groups", "host_groups"}, op \in {"gte", "notin"} :
          LeafParams(c, "services") = Param(column, op, Scalar(c))
    BY <2>1 DEF LeafParams, CVFields, GroupFields
  <2>3. ServiceNames[c] = c
    BY <1>2, ServiceNamesAre
  <2>4. PICK column \in {"groups", "host_groups"}, op \in {"gte", "notin"} :
          P(c) = {<<column, op>>}
    <3>1. PICK column \in {"groups", "host_groups"}, op \in {"gte", "notin"} :
            LeafParams(c, "services") = Param(column, op, Scalar(c))
      BY <2>2
    <3>2. P(c) = {<<column, op>>}
      BY <3>1, ParamIs
    <3> QED BY <3>2
  <2>5. <<"host_cv", "">> # <<column, op>>
    OBVIOUS
  <2> QED BY <2>3, <2>4, <2>5
<1>3. P(l) \cap P(m) = {}
  OBVIOUS
<1> HIDE DEF P
<1>4. CASE l.field = "custom_var" /\ m.field = "custom_var"
  BY <1>1, <1>3, <1>4
<1>5. CASE l.field = "custom_var" /\ m.field # "custom_var"
  <2>1. P(ServiceNames[l]) = {<<"host_cv", "">>}
    BY <1>1, <1>5
  <2>2. <<"host_cv", "">> \notin P(ServiceNames[m])
    BY <1>2, <1>5
  <2>3. P(ServiceNames[l]) \cap P(ServiceNames[m]) = {}
    BY <2>1, <2>2
  <2> QED BY <2>3 DEF P
<1>6. CASE l.field # "custom_var" /\ m.field = "custom_var"
  <2>1. P(ServiceNames[m]) = {<<"host_cv", "">>}
    BY <1>1, <1>6
  <2>2. <<"host_cv", "">> \notin P(ServiceNames[l])
    BY <1>2, <1>6
  <2>3. P(ServiceNames[l]) \cap P(ServiceNames[m]) = {}
    BY <2>1, <2>2
  <2> QED BY <2>3 DEF P
<1>7. CASE l.field # "custom_var" /\ m.field # "custom_var"
  <2>1. P(ServiceNames[l]) \cap P(ServiceNames[m]) = {}
    BY <1>2, <1>3, <1>7
  <2> QED BY <2>1 DEF P
<1> QED BY <1>4, <1>5, <1>6, <1>7

\* The parts of a filter on services, from those of the filter on hosts.
LEMMA PartsOnServices ==
    ASSUME NEW n \in TreesOf[MaxHeight]
    PROVE  /\ PlainOf(Parted(OnServices(n))) = {ServiceNames[l] : l \in PlainOf(Parted(n))}
           /\ MixedOf(Parted(OnServices(n))) = {ServiceNames[l] : l \in MixedOf(Parted(n))}
<1> DEFINE e == Expand(n)
           s == OnServices(e)
<1>1. e \in Trees /\ Renames(ServiceNames) /\ s = Rewritten(e, ServiceNames)
      /\ Parted(n) = Top(e) /\ Parted(OnServices(n)) = Top(s)
  BY LowerTrees, ExpandIs, ServiceNamesAre, RenamedWhenExpanded DEF Parted
<1>2. IsLeaf(s) <=> IsLeaf(e)
  BY <1>1, RenamedIs
<1> HIDE DEF e, s
<1>3. Top(e) \subseteq Trees
  BY <1>1, TopIs
<1>4. Top(s) = {Rewritten(c, ServiceNames) : c \in Top(e)}
  <2>1. CASE IsLeaf(e)
    BY <1>1, <1>2, <2>1 DEF Top
  <2>2. CASE ~IsLeaf(e)
    <3>1. s.operator = e.operator /\ Children(s) = {Rewritten(c, ServiceNames) : c \in Children(e)}
      BY <1>1, <2>2, RenamedGroup
    <3> QED BY <1>1, <1>2, <2>2, <3>1 DEF Top
  <2> QED BY <2>1, <2>2
<1>5. \A c \in Top(e) : /\ HasOr(Rewritten(c, ServiceNames)) <=> HasOr(c)
                        /\ LeavesOf(Rewritten(c, ServiceNames)) = {ServiceNames[l] : l \in LeavesOf(c)}
  BY <1>1, <1>3, RenamedIs, RenamedHasOr
<1>6. PlainOf(Top(s)) = {ServiceNames[l] : l \in PlainOf(Top(e))}
  BY <1>4, <1>5 DEF PlainOf
<1>7. MixedOf(Top(s)) = {ServiceNames[l] : l \in MixedOf(Top(e))}
  BY <1>4, <1>5 DEF MixedOf
<1> QED BY <1>1, <1>6, <1>7

\* Filters of the totals, on the services that are counted.
LEMMA OfTotals ==
    ASSUME NEW n \in TreesOf[MaxHeight], NEW o \in Objects["totals"],
           LeavesAre(n, "totals"), Valid(n), Expressible(n, "services")
    PROVE  /\ Means(n, "services", o) => Selects(CompileFilter(OnServices(n), "services"), "services", o)
           /\ ~Widens(n, "services") /\ Selects(CompileFilter(OnServices(n), "services"), "services", o)
              => Means(n, "services", o)
<1> DEFINE s == OnServices(n)
           true == TrueOf("services", o)
<1>1. n \in TreesOf[MaxHeight + 1] /\ n \in Trees /\ "totals" \in DOMAIN Fields
  BY LowerTrees DEF Fields
<1>2. o.cv = o.host_cv
  BY FiltersAssumption
<1>3. \A l \in LeavesOf(n) : Given(l, "totals") /\ l \in Conditions
  BY <1>1, GivenLeaves, LeavesUnfold
<1>4. Renames(ServiceNames) /\ s = Rewritten(n, ServiceNames)
  BY ServiceNamesAre
<1>5. /\ s \in TreesOf[MaxHeight + 1] /\ s \in Trees
      /\ LeavesOf(s) = {ServiceNames[l] : l \in LeavesOf(n)}
      /\ Satisfied(s, true) <=> Satisfied(n, {l \in Conditions : ServiceNames[l] \in true})
  BY <1>1, <1>4, RenamedIs, LowerTrees
<1>6. PlainOf(Parted(s)) = {ServiceNames[l] : l \in PlainOf(Parted(n))}
      /\ MixedOf(Parted(s)) = {ServiceNames[l] : l \in MixedOf(Parted(n))}
  BY PartsOnServices
<1>7. Parts(n, "services") = Parted(n)
  BY DEF Parts, Parted
<1>8. Plain(n, "services") = PlainOf(Parted(n)) /\ Alternative(n, "services") = MixedOf(Parted(n))
  BY <1>7 DEF Plain, Alternative, PlainOf, MixedOf
<1>9. \A l \in PlainOf(Parted(n)) \cup MixedOf(Parted(n)) : l \in Conditions /\ l.field \in Fields["totals"]
  <2> TAKE l \in PlainOf(Parted(n)) \cup MixedOf(Parted(n))
  <2>1. /\ Expand(n) \in Trees /\ LeavesOf(Expand(n)) = UNION {Alternatives(k) : k \in LeavesOf(n)}
    BY <1>1, ExpandIs
  <2>2. LeavesOf(Expand(n)) = UNION {LeavesOf(c) : c \in Parted(n)}
    BY <2>1, TopIs DEF Parted
  <2>3. l \in LeavesOf(Expand(n))
    BY <2>2 DEF PlainOf, MixedOf
  <2>4. PICK k \in LeavesOf(n) : l \in Alternatives(k)
    BY <2>1, <2>3
  <2>5. l.field = k.field
    BY <2>4 DEF Alternatives, Leaf
  <2>6. k.field \in Fields["totals"]
    BY <1>3 DEF Given, WellFormed
  <2>7. l \in Conditions
    BY <2>1, <2>3, LeavesUnfold
  <2> QED BY <2>5, <2>6, <2>7
<1> HIDE DEF s
<1>10. \A l \in LeavesOf(s) : Given(l, "services")
  BY <1>2, <1>3, <1>5, TotalsAgree
<1>11. \A l \in MixedOf(Parted(s)) : Askable(l, "services")
  <2> TAKE m \in MixedOf(Parted(s))
  <2>1. PICK l \in MixedOf(Parted(n)) : m = ServiceNames[l]
    BY <1>6
  <2>2. /\ m.op = l.op
        /\ m.field \in GroupFields => m.field = l.field
    BY <1>9, <2>1, ServiceNamesAre DEF GroupFields
  <2>3. l.field \in GroupFields => l.op # "neq"
    BY <1>8 DEF Expressible
  <2> QED BY <2>2, <2>3 DEF Askable
<1>12. ASSUME ~Widens(n, "services")
       PROVE  /\ Distinct(PlainOf(Parted(s)), "services")
              /\ \A l \in PlainOf(Parted(s)) : ~(l.op = "in" /\ l.field \in NameFields)
  <2>1. \A l, m \in PlainOf(Parted(n)) : l # m =>
          DOMAIN LeafParams(l, "services") \cap DOMAIN LeafParams(m, "services") = {}
    BY <1>8, <1>12 DEF Widens, SharesParam
  <2>2. \A l, m \in PlainOf(Parted(n)) : l # m =>
          DOMAIN LeafParams(ServiceNames[l], "services") \cap DOMAIN LeafParams(ServiceNames[m], "services") = {}
    BY <1>9, <2>1, TotalsDistinct
  <2>3. Distinct(PlainOf(Parted(s)), "services")
    BY <1>6, <2>2 DEF Distinct
  <2>4. \A l \in PlainOf(Parted(n)) : ServiceNames[l].field \notin NameFields
    <3> TAKE l \in PlainOf(Parted(n))
    <3>1. l.field \in {"hostgroup", "servicegroup", "custom_var"} /\ l \in Conditions
      BY <1>9 DEF Fields
    <3> QED BY <3>1, ServiceNamesAre DEF NameFields
  <2> QED BY <1>6, <2>3, <2>4
<1>13. Satisfied(s, true) <=> Means(n, "services", o)
  <2> DEFINE renamed == {l \in Conditions : ServiceNames[l] \in true}
  <2>1. \A l \in LeavesOf(n) : l \in renamed <=> l \in true
    BY <1>2, <1>3, <1>4, TotalsAgree DEF TrueOf, Renames
  <2>2. Satisfied(s, true) <=> Satisfied(n, renamed)
    BY <1>5
  <2> HIDE DEF renamed, true
  <2>3. Satisfied(n, renamed) <=> Satisfied(n, true)
    BY <1>1, <2>1, MoreSatisfied
  <2> QED BY <1>1, <2>2, <2>3, MeansIs DEF true
<1> HIDE DEF true
<1>14. "services" # "problems"
  OBVIOUS
<1>15. /\ Means(n, "services", o) => Matches(CompileFilter(s, "services"), "services", o)
       /\ ~Widens(n, "services") /\ Matches(CompileFilter(s, "services"), "services", o)
          => Means(n, "services", o)
  BY <1>5, <1>10, <1>11, <1>12, <1>13, <1>14, Translates DEF true
<1>16. \A l \in LeavesOf(s) : l.field \in ListFields
  <2> TAKE m \in LeavesOf(s)
  <2>1. PICK l \in LeavesOf(n) : m = ServiceNames[l]
    BY <1>5
  <2>2. l \in Conditions /\ l.field \in {"hostgroup", "servicegroup", "custom_var"}
    BY <1>3, <2>1 DEF Given, WellFormed, Fields
  <2>3. m.field \in {"hostgroup", "servicegroup", "host_custom_var"}
    BY <2>1, <2>2, ServiceNamesAre
  <2> QED BY <2>3 DEF ListFields, GroupFields, CVFields
<1>17. Readable(CompileFilter(s, "services").q)
  BY <1>5, <1>16, CompiledAlike DEF Alike
<1> QED BY <1>15, <1>17 DEF Selects, s

\* Filters of the totals, on the hosts that are counted.
LEMMA OfTotalHosts ==
    ASSUME NEW n \in TreesOf[MaxHeight], LeavesAre(n, "totals"), Valid(n),
           NEW m \in ToSet(Stripped(n, "servicegroup")), Expressible(m, "hosts"), NEW o
    PROVE  /\ Means(m, "hosts", o) => Selects(CompileFilter(m, "hosts"), "hosts", o)
           /\ ~Widens(m, "hosts") /\ Selects(CompileFilter(m, "hosts"), "hosts", o)
              => Means(m, "hosts", o)
<1>1. m \in TreesOf[MaxHeight] /\ \A l \in LeavesOf(m) : l \in LeavesOf(n) /\ l.field # "servicegroup"
  BY StrippedIs
<1>2. \A l \in LeavesOf(m) : /\ WellFormed(l, "totals") /\ ValidLeaf(l)
                            /\ l.field \in {"hostgroup", "custom_var"}
  BY <1>1 DEF LeavesAre, Valid, WellFormed, Fields
<1>3. LeavesAre(m, "hosts")
  BY <1>2 DEF LeavesAre, WellFormed, Fields
<1>4. /\ Means(m, "hosts", o) => Matches(CompileFilter(m, "hosts"), "hosts", o)
      /\ ~Widens(m, "hosts") /\ Matches(CompileFilter(m, "hosts"), "hosts", o) => Means(m, "hosts", o)
  BY <1>1, <1>2, <1>3, Simply
<1>5. \A l \in LeavesOf(m) : l.field \in ListFields
  BY <1>2 DEF ListFields, GroupFields, CVFields
<1>6. m \in TreesOf[MaxHeight + 1]
  BY <1>1, LowerTrees
<1>7. Readable(CompileFilter(m, "hosts").q)
  BY <1>5, <1>6, CompiledAlike DEF Alike
<1> QED BY <1>4, <1>7 DEF Selects

\* A named state that holds of an alert tells what the alert is of.
LEMMA NamedStateTells ==
    ASSUME NEW o, o.type \in {"host", "service"}, NEW c, NEW v \in c.value,
           v \in Names(o) \cup Numerals
    PROVE  /\ StateClass(v) = "host" => o.type = "host"
           /\ StateClass(v) = "service" => o.type = "service"
<1>1. CASE o.type = "host"
  BY <1>1 DEF Names, StateClass, HostStates, ServiceStates, Numerals
<1>2. CASE o.type = "service"
  BY <1>2 DEF Names, StateClass, HostStates, ServiceStates, Numerals
<1> QED BY <1>1, <1>2

\* The kinds a filter is narrowed to have every alert that it names.
LEMMA Narrowed ==
    ASSUME NEW n \in TreesOf[MaxHeight], NEW o \in Objects["logs"], MeansNamed(n, o)
    PROVE  o.type \in AlertKinds(n)
<1> DEFINE T == {l \in LeavesOf(n) : NamedLeaf(l, o)}
           parts == ToSet(Conjuncts(n))
           classes == UNION {ClassOf(c) : c \in parts}
<1>1. o.type \in {"host", "service"}
  BY FiltersAssumption
<1>2. n \in Trees /\ MaxHeight \in 0..(MaxHeight + 2)
  BY LowerTrees, FiltersAssumption
<1>3. Satisfied(n, T)
  BY DEF MeansNamed
<1>4. \A c \in parts : c \in Trees /\ Satisfied(c, T)
  <2> HIDE DEF T
  <2>1. /\ Conjuncts(n) \in Seq(TreesOf[MaxHeight])
        /\ Satisfied(n, T) <=> \A c \in parts : Satisfied(c, T)
    BY <1>2, ConjunctsAre
  <2>2. parts \subseteq TreesOf[MaxHeight]
    BY <2>1 DEF ToSet
  <2> QED BY <1>3, <2>1, <2>2, LowerTrees
<1>5. ASSUME NEW kind \in {"host", "service"}, classes = {kind}
      PROVE  o.type = kind
  <2>1. PICK c \in parts : kind \in ClassOf(c) /\ ClassOf(c) \subseteq {kind}
    BY <1>5
  <2>2. IsLeaf(c) /\ c.field = "state" /\ c.op \in {"eq", "in"}
    BY <1>5, <2>1 DEF ClassOf
  <2>3. ClassOf(c) = {StateClass(v) : v \in c.value}
    BY <2>2 DEF ClassOf
  <2>4. c \in T
    BY <1>4, <2>2, SatisfiedUnfold
  <2>5. PICK v \in c.value : v \in Names(o) \cup Numerals
    BY <2>2, <2>4 DEF NamedLeaf
  <2>6. StateClass(v) = kind
    BY <2>1, <2>3, <2>5
  <2> QED BY <1>1, <1>5, <2>5, <2>6, NamedStateTells
<1>6. AlertKinds(n) = CASE classes = {"host"} -> {"host"}
                        [] classes = {"service"} -> {"service"}
                        [] OTHER -> {"host", "service"}
  BY DEF AlertKinds
<1> HIDE DEF classes
<1>7. CASE classes = {"host"}
  BY <1>5, <1>6, <1>7
<1>8. CASE classes = {"service"}
  BY <1>5, <1>6, <1>8
<1>9. CASE classes # {"host"} /\ classes # {"service"}
  BY <1>1, <1>6, <1>9
<1> QED BY <1>7, <1>8, <1>9
----------------------------------------------------------------------------
(* The compilation, whatever tree is given. *)

\* A tree of its context, of bounded nesting, made of the conditions of that context.
TreeOK == /\ context \in DOMAIN Leaves
          /\ tree \in TreesOf[MaxHeight]
          /\ LeavesOf(tree) \subseteq Leaves[context]

LEMMA TermsAreConditions ==
    \A ctx \in DOMAIN Leaves : \A l \in Leaves[ctx] :
        l \in Conditions /\ l \in TreesOf[MaxHeight] /\ l \in Trees /\ IsLeaf(l) /\ LeavesOf(l) = {l}
<1> SUFFICES ASSUME NEW ctx \in DOMAIN Leaves, NEW l \in Leaves[ctx]
             PROVE  l \in Conditions /\ l \in TreesOf[MaxHeight] /\ l \in Trees /\ IsLeaf(l) /\ LeavesOf(l) = {l}
  OBVIOUS
<1>1. l = Leaf(l.field, l.op, l.value)
  BY FiltersAssumption DEF WellFormed
<1>2. l.value \in SUBSET Values
  BY FiltersAssumption
<1>3. ctx \in DOMAIN Fields
  BY FiltersAssumption
<1>4. l.field \in UNION {Fields[c] : c \in DOMAIN Fields} /\ l.op \in Operators
  BY <1>3, FiltersAssumption DEF WellFormed
<1>5. Leaf(l.field, l.op, l.value) \in Conditions
  BY <1>2, <1>4 DEF Leaf, Conditions
<1>6. l \in Conditions
  BY <1>1, <1>5
<1>7. 0 \in 0..MaxHeight /\ MaxHeight \in Nat
  BY FiltersAssumption
<1>8. l \in TreesOf[MaxHeight] /\ l \in Trees
  BY <1>6, <1>7, HigherHasLower, Nesting, LowerTrees
<1>9. IsLeaf(l)
  BY <1>6 DEF Conditions, IsLeaf
<1> QED BY <1>6, <1>8, <1>9, LeavesUnfold

LEMMA LeavesOfGroup ==
    ASSUME NEW operator, NEW conditions, Group(operator, conditions) \in TreesOf[MaxHeight]
    PROVE  LeavesOf(Group(operator, conditions)) = UNION {LeavesOf(conditions[i]) : i \in DOMAIN conditions}
<1> DEFINE g == Group(operator, conditions)
<1>1. g \in Trees /\ ~IsLeaf(g) /\ g.conditions = conditions
  BY LowerTrees DEF Group, IsLeaf
<1>2. Children(g) = {conditions[i] : i \in DOMAIN conditions}
  BY <1>1 DEF Children
<1> HIDE DEF g
<1>3. LeavesOf(g) = UNION {LeavesOf(c) : c \in Children(g)}
  BY <1>1, LeavesUnfold
<1>4. LeavesOf(g) = UNION {LeavesOf(conditions[i]) : i \in DOMAIN conditions}
  BY <1>2, <1>3
<1> QED BY <1>4 DEF g

LEMMA TreeStarts == TreeInit => TreeOK
BY TermsAreConditions DEF TreeInit, TreeOK

LEMMA TreeGrows == TreeOK /\ Grow => TreeOK'
<1> SUFFICES ASSUME TreeOK, Grow
             PROVE  TreeOK'
  OBVIOUS
<1>1. PICK operator \in {"and", "or"}, l \in Leaves[context] :
        tree' \in {Group(operator, <<tree, l>>), Group(operator, <<l, tree>>)}
  BY DEF Grow
<1>2. tree' \in TreesOf[MaxHeight] /\ context' = context
  BY DEF Grow
<1>3. LeavesOf(l) = {l}
  BY TermsAreConditions DEF TreeOK
<1>4. ASSUME NEW s, s \in {<<tree, l>>, <<l, tree>>}, tree' = Group(operator, s)
      PROVE  LeavesOf(tree') \subseteq Leaves[context]
  <2>1. LeavesOf(tree') = UNION {LeavesOf(s[i]) : i \in DOMAIN s}
    BY <1>2, <1>4, LeavesOfGroup
  <2>2. \A i \in DOMAIN s : s[i] = tree \/ s[i] = l
    BY <1>4
  <2>3. \A i \in DOMAIN s : LeavesOf(s[i]) \subseteq Leaves[context]
    BY <1>3, <2>2 DEF TreeOK
  <2> QED BY <2>1, <2>3
<1>5. LeavesOf(tree') \subseteq Leaves[context]
  BY <1>1, <1>4
<1> QED BY <1>2, <1>5 DEF TreeOK

LEMMA TreeWraps == TreeOK /\ Wrap => TreeOK'
<1> SUFFICES ASSUME TreeOK, Wrap
             PROVE  TreeOK'
  OBVIOUS
<1>1. tree' = Group("and", <<tree>>) /\ tree' \in TreesOf[MaxHeight] /\ context' = context
  BY DEF Wrap
<1> DEFINE s == <<tree>>
<1>2. \A i \in DOMAIN s : s[i] = tree
  OBVIOUS
<1> HIDE DEF s
<1>3. LeavesOf(tree') = UNION {LeavesOf(s[i]) : i \in DOMAIN s}
  BY <1>1, LeavesOfGroup DEF s
<1>4. LeavesOf(tree') \subseteq Leaves[context]
  BY <1>2, <1>3 DEF TreeOK
<1> QED BY <1>1, <1>4 DEF TreeOK

\* The steps of the tool.
Fetches == \/ Ask \/ WholeAnswers \/ WholeFails \/ SitesAnswer \/ SitesFail
           \/ BackendAnswers \/ BackendFails
LEMMA SameTree == Fetches \/ UNCHANGED vars => UNCHANGED <<tree, context>>
<1>1. Ask => UNCHANGED <<tree, context>>
  BY DEF Ask
<1>2. WholeAnswers \/ WholeFails => UNCHANGED <<tree, context>>
  BY DEF WholeAnswers, WholeFails
<1>3. SitesAnswer \/ SitesFail => UNCHANGED <<tree, context>>
  BY DEF SitesAnswer, SitesFail
<1>4. BackendAnswers \/ BackendFails => UNCHANGED <<tree, context>>
  BY DEF BackendAnswers, BackendFails
<1>5. UNCHANGED vars => UNCHANGED <<tree, context>>
  BY DEF vars
<1> QED BY <1>1, <1>2, <1>3, <1>4, <1>5 DEF Fetches

\* Every tree that is built is one of its context (filters.py:190-284).
THEOREM TreesAreBuilt == Spec => []TreeOK
<1>1. Init => TreeOK
  BY TreeStarts DEF Init
<1>2. TreeOK /\ [Next]_vars => TreeOK'
  <2>1. TreeOK /\ UNCHANGED <<tree, context>> => TreeOK'
    BY DEF TreeOK
  <2> QED BY <2>1, TreeGrows, TreeWraps, SameTree DEF Next, Fetches
<1> QED BY <1>1, <1>2, PTL DEF Spec

\* What a filter means and what its compilation selects, in each context.
LEMMA CompiledFaithfully ==
    ASSUME TreeOK, NEW c \in Compilations, NEW o \in Candidates(c.target)
    PROVE  /\ /\ Means(c.filter, c.target, o) /\ ~c.flagged
              /\ c.target = "logs" \/ Readable(OwnAlternatives(c))
              => Selects(c.query, c.target, o)
           /\ ~Widens(c.filter, c.target) /\ Selects(c.query, c.target, o)
              => Means(c.filter, c.target, o)
<1>1. /\ context # "problems" /\ Valid(tree) /\ Compiles(tree, context)
      /\ c \in Compiled(tree, context) /\ Expressible(c.filter, c.target)
  BY DEF Compilations
<1>2. tree \in TreesOf[MaxHeight] /\ LeavesAre(tree, context)
  BY FiltersAssumption DEF TreeOK, LeavesAre
<1>3. context \in {"hosts", "services", "logs", "totals"}
  BY <1>1, FiltersAssumption DEF TreeOK, Fields
<1>4. CASE context \in {"hosts", "services"}
  <2>1. c = Compilation(context, tree, CompileFilter(tree, context), FALSE)
    BY <1>1, <1>4 DEF Compiled
  <2>2. c.target = context /\ c.filter = tree /\ c.query = CompileFilter(tree, context)
    BY <2>1 DEF Compilation
  <2>3. \A l \in LeavesOf(tree) : ValidLeaf(l)
    BY <1>1 DEF Valid
  <2>4. /\ Means(tree, context, o) => Matches(CompileFilter(tree, context), context, o)
        /\ ~Widens(tree, context) /\ Matches(CompileFilter(tree, context), context, o) => Means(tree, context, o)
        /\ CompileFilter(tree, context).q = {n \in Parts(tree, context) : HasOr(n)}
    BY <1>1, <1>2, <1>4, <2>2, <2>3, Simply
  <2>5. OwnAlternatives(c) = CompileFilter(tree, context).q /\ c.target # "logs"
    BY <1>4, <2>2, <2>4 DEF OwnAlternatives
  <2> QED BY <2>2, <2>4, <2>5 DEF Selects
<1>5. CASE context = "logs"
  <2>1. c \in LogQueries(tree) /\ Splits(tree)
    BY <1>1, <1>5 DEF Compiled, Compiles
  <2>2. c.target = "logs" /\ c.filter = tree
    BY <2>1, LogQueryIs
  <2>3. o \in Objects["logs"]
    BY <2>2 DEF Candidates
  <2> QED BY <1>1, <1>2, <1>5, <2>1, <2>2, <2>3, OfTheLog
<1>6. CASE context = "totals"
  <2>1. c \in TotalsQueries(tree)
    BY <1>1, <1>6 DEF Compiled
  <2>2. CASE c = Compilation("services", tree, CompileFilter(OnServices(tree), "services"), FALSE)
    <3>1. c.target = "services" /\ c.filter = tree /\ c.query = CompileFilter(OnServices(tree), "services")
      BY <2>2 DEF Compilation
    <3>2. o \in Objects["totals"]
      BY <1>6, <3>1 DEF Candidates
    <3> QED BY <1>1, <1>2, <1>6, <3>1, <3>2, OfTotals
  <2>3. ASSUME NEW m \in ToSet(Stripped(tree, "servicegroup")),
               c = Compilation("hosts", m, CompileFilter(m, "hosts"), FALSE)
        PROVE  /\ Means(c.filter, c.target, o) => Selects(c.query, c.target, o)
               /\ ~Widens(c.filter, c.target) /\ Selects(c.query, c.target, o)
                  => Means(c.filter, c.target, o)
    <3>1. c.target = "hosts" /\ c.filter = m /\ c.query = CompileFilter(m, "hosts")
      BY <2>3 DEF Compilation
    <3> QED BY <1>1, <1>2, <1>6, <3>1, OfTotalHosts
  <2> QED BY <2>1, <2>2, <2>3 DEF TotalsQueries
<1> QED BY <1>3, <1>4, <1>5, <1>6

\* No object that satisfies a filter is lost by its compilation, whatever the mix of
\* parameters, q= expression, look-up of hosts and removal of service groups, unless the
\* tool warns that the look-up was cut or the filter's own alternatives, joined, are what
\* Thruk answers with nothing (filters.py:306-492, 737-892, helpers.py:488-554,
\* inventory.py:818-848, 893-901).
THEOREM CompilationMissesNothing == Spec => []NothingMissed
<1>1. TreeOK => NothingMissed
  BY CompiledFaithfully DEF NothingMissed, Meant, Selected
<1> QED BY <1>1, TreesAreBuilt, PTL

\* The compilation selects nothing else either, when no two plain conditions share a
\* parameter and no list of names becomes a pattern (filters.py:398-405).
THEOREM CompilationIsExact == Spec => []ExactWhenDistinct
<1>1. TreeOK => ExactWhenDistinct
  BY CompiledFaithfully DEF ExactWhenDistinct, Meant, Selected
<1> QED BY <1>1, TreesAreBuilt, PTL

\* Narrowing a filter of the log to a kind of alerts loses none that it names
\* (filters.py:561-637).
THEOREM NarrowingIsSafe == Spec => []NarrowingKeepsAlerts
<1>1. TreeOK => NarrowingKeepsAlerts
  BY Narrowed DEF NarrowingKeepsAlerts, TreeOK
<1> QED BY <1>1, TreesAreBuilt, PTL
----------------------------------------------------------------------------
(* The problems that are reported. *)

\* As many rows as the limit admits, of the query of a row and at least as bad.
Outranked(S, r) == \E T \in SUBSET S :
    Cardinality(T) = Limit /\ \A s \in T : s.query = r.query /\ s.state >= r.state
\* The rows that have been collected, before and after the check of the client.
Collected == rows \cup dropped

\* What is known of the tool: the filter has not been refused once it asks; what has
\* been heard of a backend without a warning has been collected, skipped for the offset or
\* outranked for the limit, and in the end the client's check has parted what was collected.
ToolOK ==
    /\ stage \in {"building", "hosts", "services", "done", "refused", "raised"}
    /\ stage \in {"building", "refused"} => heard = {} /\ rows = {}
    /\ stage \in {"hosts", "services", "done"} => context = "problems" /\ ~Refused(tree)
    /\ stage # "done" => dropped = {}
    /\ \A r \in Collected : r \in Objects["problems"] /\ Accepts(Params(r.query), r)
    /\ \A r \in Objects["problems"] :
         /\ <<r.query, r.backend>> \in heard /\ r.backend \notin warned
         /\ Accepts(Params(r.query), r)
         => r \in Collected \/ r \in skipped \/ Outranked(Collected, r)
    /\ stage = "done" => /\ \A r \in rows : RowMatches(r)
                         /\ \A r \in dropped : ~RowMatches(r)

\* An answer holds the rows of its query that the backends asked have, but for the offset
\* and the limit.
LEMMA AnswersHave ==
    ASSUME NEW query, NEW backends, NEW past \in Worst(offset, Accepted(query, backends)),
           NEW page \in Worst(Limit, Accepted(query, backends) \ past)
    PROVE  /\ \A r \in page : r \in Objects["problems"] /\ Accepts(Params(r.query), r)
           /\ \A r \in Objects["problems"] :
                <<r.query, r.backend>> \in {query} \X backends /\ Accepts(Params(r.query), r)
                => r \in page \/ r \in past \/ Outranked(page, r)
<1> DEFINE all == Accepted(query, backends)
           from == all \ past
<1>1. \A r : r \in all <=> /\ r \in Objects["problems"] /\ r.query = query /\ r.backend \in backends
                           /\ Accepts(Params(query), r)
  BY DEF Accepted
<1> HIDE DEF all
<1>2. /\ page \in SUBSET from
      /\ page = from \/ Cardinality(page) = Limit
      /\ \A a \in page, b \in from \ page : a.state >= b.state
  BY DEF Worst, all
<1>3. \A r \in page : r \in all
  BY <1>2
<1>4. \A r \in page : r \in Objects["problems"] /\ Accepts(Params(r.query), r)
  BY <1>1, <1>3
<1>5. ASSUME NEW r \in Objects["problems"], <<r.query, r.backend>> \in {query} \X backends,
             Accepts(Params(r.query), r), r \notin page, r \notin past
      PROVE  Outranked(page, r)
  <2>1. r.query = query /\ r.backend \in backends
    BY <1>5
  <2>2. r \in from \ page
    BY <1>1, <1>5, <2>1
  <2>3. Cardinality(page) = Limit
    BY <1>2, <2>2
  <2>4. \A a \in page : a.query = r.query /\ a.state >= r.state
    BY <1>1, <1>2, <1>3, <2>1, <2>2
  <2> QED BY <2>3, <2>4 DEF Outranked
<1> QED BY <1>4, <1>5

\* A query that is answered adds its rows, and in the end they are parted.
LEMMA Collects ==
    ASSUME NEW found, NEW done \in BOOLEAN, Asking, Collect(found, done), UNCHANGED <<tree, context>>,
           ToolOK, NEW asked, heard' = heard \cup asked, warned \subseteq warned', skipped \subseteq skipped',
           \A r \in found : r \in Objects["problems"] /\ Accepts(Params(r.query), r),
           \A r \in Objects["problems"] :
              /\ <<r.query, r.backend>> \in asked /\ r.backend \notin warned'
              /\ Accepts(Params(r.query), r)
              => r \in found \/ r \in skipped' \/ Outranked(found, r)
    PROVE  ToolOK'
<1>1. stage \in {"hosts", "services"} /\ context = "problems" /\ ~Refused(tree) /\ dropped = {}
  BY DEF Asking, ToolOK
<1>2. \A r : RowMatches(r)' <=> RowMatches(r)
  BY DEF RowMatches
<1>3. \A q, r : Accepts(Params(q), r)' <=> Accepts(Params(q), r)
  BY DEF Params, ProblemParams
<1>4. Refused(tree)' <=> Refused(tree)
  OBVIOUS
<1>5. stage' \in {"hosts", "services", "done"} /\ (stage' = "done" <=> done /\ stage = "services")
  BY <1>1 DEF Collect
<1>6. /\ rows' = IF stage' = "done" THEN {r \in rows \cup found : RowMatches(r)} ELSE rows \cup found
      /\ dropped' = IF stage' = "done" THEN {r \in rows \cup found : ~RowMatches(r)} ELSE dropped
  BY <1>5 DEF Collect
<1>7. Collected = rows /\ Collected' = rows \cup found
  BY <1>1, <1>6 DEF Collected
<1>8. \A r \in Collected' : r \in Objects["problems"] /\ Accepts(Params(r.query), r)
  BY <1>7 DEF ToolOK
<1>9. ASSUME NEW S, NEW R, S \subseteq R, NEW r, Outranked(S, r)
      PROVE  Outranked(R, r)
  BY <1>9 DEF Outranked
<1>10. ASSUME NEW r \in Objects["problems"], <<r.query, r.backend>> \in heard', r.backend \notin warned',
              Accepts(Params(r.query), r)
       PROVE  r \in Collected' \/ r \in skipped' \/ Outranked(Collected', r)
  <2>1. CASE <<r.query, r.backend>> \in heard
    <3>1. r \in Collected \/ r \in skipped \/ Outranked(Collected, r)
      BY <1>10, <2>1 DEF ToolOK
    <3>2. Collected \subseteq Collected'
      BY <1>7
    <3> QED BY <1>9, <3>1, <3>2
  <2>2. CASE <<r.query, r.backend>> \in asked
    <3>1. r \in found \/ r \in skipped' \/ Outranked(found, r)
      BY <1>10, <2>2
    <3>2. found \subseteq Collected'
      BY <1>7
    <3> QED BY <1>9, <3>1, <3>2
  <2> QED BY <1>10, <2>1, <2>2
<1>11. stage' # "done" => dropped' = {}
  BY <1>1, <1>6
<1>12. stage' = "done" => (\A r \in rows' : RowMatches(r)) /\ \A r \in dropped' : ~RowMatches(r)
  BY <1>6
<1>13. \A r : Outranked(Collected, r)' <=> Outranked(Collected', r)
  BY DEF Outranked
<1> QED BY <1>1, <1>2, <1>3, <1>4, <1>5, <1>8, <1>10, <1>11, <1>12, <1>13 DEF ToolOK

\* The steps that collect nothing.
LEMMA NothingCollected ==
    ASSUME ToolOK, Asking, stage' \in {stage, "raised"}, 
           UNCHANGED <<tree, context, rows, warned, dropped, heard, skipped>>
    PROVE  ToolOK'
<1>1. stage \in {"hosts", "services"}
  BY DEF Asking
<1>2. \A r : RowMatches(r)' <=> RowMatches(r)
  BY DEF RowMatches
<1>3. \A q, r : Accepts(Params(q), r)' <=> Accepts(Params(q), r)
  BY DEF Params, ProblemParams
<1>4. Refused(tree)' <=> Refused(tree)
  OBVIOUS
<1>5. Collected' = Collected /\ \A r : Outranked(Collected, r)' <=> Outranked(Collected, r)
  BY DEF Collected, Outranked
<1> QED BY <1>1, <1>2, <1>3, <1>4, <1>5 DEF ToolOK

\* An answer adds a page to what is collected.
LEMMA Answered ==
    ASSUME ToolOK, Asking, NEW backends, NEW done \in BOOLEAN, Answer(backends, done),
           UNCHANGED <<tree, context>>, warned' = warned
    PROVE  ToolOK'
<1> DEFINE all == Accepted(stage, backends)
           asked == {stage} \X backends
<1>0. PICK past \in Worst(offset, all) : \E page \in Worst(Limit, all \ past) :
        /\ Collect(page, done) /\ heard' = heard \cup asked /\ skipped' = skipped \cup past
  BY DEF Answer
<1>1. PICK page \in Worst(Limit, all \ past) :
        /\ Collect(page, done) /\ heard' = heard \cup asked /\ skipped' = skipped \cup past
  BY <1>0
<1>2. /\ \A r \in page : r \in Objects["problems"] /\ Accepts(Params(r.query), r)
      /\ \A r \in Objects["problems"] :
           <<r.query, r.backend>> \in asked /\ Accepts(Params(r.query), r)
           => r \in page \/ r \in past \/ Outranked(page, r)
  BY AnswersHave
<1> HIDE DEF all, asked
<1>3. \A r \in Objects["problems"] :
        /\ <<r.query, r.backend>> \in asked /\ r.backend \notin warned'
        /\ Accepts(Params(r.query), r)
        => r \in page \/ r \in skipped' \/ Outranked(page, r)
  BY <1>1, <1>2
<1>4. warned \subseteq warned' /\ skipped \subseteq skipped'
  BY <1>1
<1> QED BY <1>1, <1>2, <1>3, <1>4, Collects

LEMMA ToolSteps == ToolOK /\ [Next]_vars => ToolOK'
<1> SUFFICES ASSUME ToolOK, [Next]_vars
             PROVE  ToolOK'
  OBVIOUS
<1>1. CASE stage = "building" /\ (Grow \/ Wrap) /\ UNCHANGED fetch
  <2>1. stage' = "building" /\ heard' = {} /\ rows' = {} /\ dropped' = {}
    BY <1>1 DEF fetch, ToolOK
  <2>2. Collected' = {}
    BY <2>1 DEF Collected
  <2> QED BY <2>1, <2>2 DEF ToolOK
<1>2. CASE Ask
  <2>1. /\ heard' = {} /\ rows' = {} /\ dropped' = {} /\ context' = "problems" /\ tree' = tree
        /\ stage' = IF Refused(tree) THEN "refused" ELSE "hosts"
    BY <1>2 DEF Ask, ToolOK
  <2>2. Refused(tree)' <=> Refused(tree)
    BY <2>1
  <2>3. Collected' = {}
    BY <2>1 DEF Collected
  <2> QED BY <2>1, <2>2, <2>3 DEF ToolOK
<1>3. CASE WholeAnswers
  <2>1. Asking /\ Answer(Backends, TRUE) /\ UNCHANGED <<tree, context>> /\ warned' = warned
    BY <1>3 DEF WholeAnswers
  <2> QED BY <2>1, Answered
<1>4. CASE WholeFails
  <2>1. Asking /\ stage' \in {stage, "raised"} /\ UNCHANGED <<tree, context, rows, warned, dropped, heard, skipped>>
    BY <1>4 DEF WholeFails
  <2> QED BY <2>1, NothingCollected
<1>5. CASE SitesAnswer
  <2>1. Asking /\ stage' \in {stage, "raised"} /\ UNCHANGED <<tree, context, rows, warned, dropped, heard, skipped>>
    BY <1>5 DEF SitesAnswer
  <2> QED BY <2>1, NothingCollected
<1>6. CASE SitesFail
  <2>1. Asking /\ stage' \in {stage, "raised"} /\ UNCHANGED <<tree, context, rows, warned, dropped, heard, skipped>>
    BY <1>6 DEF SitesFail
  <2> QED BY <2>1, NothingCollected
<1>7. CASE BackendAnswers
  <2>1. PICK b \in pending : Answer({b}, pending' = {})
    BY <1>7 DEF BackendAnswers
  <2>2. Asking /\ UNCHANGED <<tree, context>> /\ warned' = warned
    BY <1>7 DEF BackendAnswers
  <2> DEFINE done == pending' = {}
  <2>3. done \in BOOLEAN /\ Answer({b}, done)
    BY <2>1
  <2> HIDE DEF done
  <2> QED BY <2>2, <2>3, Answered
<1>8. CASE BackendFails
  <2>1. PICK b \in pending :
          /\ Asking /\ Collect({}, pending' = {}) /\ UNCHANGED <<tree, context>>
          /\ heard' = heard \cup {<<stage, b>>} /\ warned' = warned \cup {b} /\ skipped' = skipped
    BY <1>8 DEF BackendFails
  <2> DEFINE done == pending' = {}
             asked == {<<stage, b>>}
  <2>2. \A r : <<r.query, r.backend>> \in asked => r.backend \in warned'
    BY <2>1
  <2>3. done \in BOOLEAN /\ Collect({}, done) /\ heard' = heard \cup asked
    BY <2>1
  <2>4. /\ warned \subseteq warned' /\ skipped \subseteq skipped'
        /\ Asking /\ UNCHANGED <<tree, context>>
    BY <2>1
  <2> HIDE DEF done, asked
  <2> QED BY <2>2, <2>3, <2>4, Collects
<1>9. CASE UNCHANGED vars
  <2>1. UNCHANGED <<tree, context, stage, rows, warned, dropped, heard, skipped>>
    BY <1>9 DEF vars, fetch
  <2>2. \A r : RowMatches(r)' <=> RowMatches(r)
    BY <2>1 DEF RowMatches
  <2>3. \A q, r : Accepts(Params(q), r)' <=> Accepts(Params(q), r)
    BY <2>1 DEF Params, ProblemParams
  <2>4. Refused(tree)' <=> Refused(tree)
    BY <2>1
  <2>5. Collected' = Collected /\ \A r : Outranked(Collected, r)' <=> Outranked(Collected, r)
    BY <2>1 DEF Collected, Outranked
  <2> QED BY <2>1, <2>2, <2>3, <2>4, <2>5 DEF ToolOK
<1> QED BY <1>1, <1>2, <1>3, <1>4, <1>5, <1>6, <1>7, <1>8, <1>9 DEF Next

\* What the tool knows holds in every state (inventory.py:681-795, client.py:216-287).
THEOREM ToolInvariant == Spec => []ToolOK
<1>1. Init => ToolOK
  BY DEF Init, ToolOK, Collected
<1> QED BY <1>1, ToolSteps, PTL DEF Spec

\* The conditions of a filter that is not refused.
LEMMA NotRefused ==
    ASSUME TreeOK, context = "problems", ~Refused(tree), NEW l \in LeavesOf(tree)
    PROVE  /\ l.field \in {"state", "hostgroup", "custom_var", "host_custom_var"}
           /\ l.op \in Operators /\ (l.op \notin {"in", "regex"} => \E v \in l.value : l.value = {v})
           /\ l.field = "hostgroup" => l.op \in {"eq", "neq", "gte", "in"}
           /\ l.field = "state" => /\ l.op # "regex" => l.op \in LiteralOps
                                 /\ l.value \subseteq DOMAIN StateNumber
<1>1. WellFormed(l, "problems") /\ ValidLeaf(l)
  BY FiltersAssumption DEF TreeOK, Refused, Valid
<1>2. l.field = "state" => l.op # "in"
  BY DEF Refused
<1>3. Numerals \subseteq DOMAIN StateNumber
  BY DEF StateNumber
<1> QED BY <1>1, <1>2, <1>3 DEF WellFormed, ValidLeaf, Fields, Operators, LiteralOps, GroupFields

\* What is accepted of one parameter.
AcceptsAt(k, v, row) ==
    CASE k[2] = "any" -> v \cap row.groups # {} \/ row.backend \in Leaky
      [] k[2] = "notin" -> v \cap row.groups = {} \/ row.backend \in Leaky
      [] OTHER -> Holds(k[1], k[2], v, row)
LEMMA AcceptsEach ==
    ASSUME NEW params, NEW row, \A k \in DOMAIN params : AcceptsAt(k, params[k], row)
    PROVE  Accepts(params, row)
BY DEF Accepts, AcceptsAt

\* The parameters of a filter come from its conditions, and replace the base condition.
LEMMA FilterParams ==
    ASSUME TreeOK, NEW query
    PROVE  /\ FromLeaves(ProblemParams(tree), LeavesOf(tree), [l \in Conditions |-> ProblemParam(l)])
           /\ LeavesOf(tree) \subseteq Conditions
           /\ DOMAIN ProblemParams(tree) \subseteq DOMAIN Params(query)
           /\ \A k \in DOMAIN ProblemParams(tree) : Params(query)[k] = ProblemParams(tree)[k]
<1> DEFINE of == [l \in Conditions |-> ProblemParam(l)]
           filter == ProblemParams(tree)
           base == Base(query)
<1>1. tree \in Trees /\ LeavesOf(tree) \subseteq Conditions
  BY LowerTrees, LeavesUnfold DEF TreeOK
<1>2. FromLeaves(filter, LeavesOf(tree), of)
  <2>1. \A l \in Conditions : IsDictionary(ProblemParam(l))
    <3> TAKE l \in Conditions
    <3>1. \E column, op, value : ProblemParam(l) = Param(column, op, value)
      <4>1. CASE l.field \in CVFields
        BY <4>1 DEF ProblemParam, CVFields
      <4>2. CASE l.field = "hostgroup"
        BY <4>2 DEF ProblemParam, CVFields
      <4>3. CASE l.field \notin CVFields /\ l.field # "hostgroup"
        BY <4>3 DEF ProblemParam
      <4> QED BY <4>1, <4>2, <4>3
    <3>2. PICK column, op, value : ProblemParam(l) = Param(column, op, value)
      BY <3>1
    <3>3. IsDictionary(Param(column, op, value))
      BY ParamIs
    <3> QED BY <3>2, <3>3
  <2>2. OfDictionaries(of)
    BY <2>1 DEF OfDictionaries
  <2>3. filter = Merged(tree, of)
    BY DEF ProblemParams
  <2> HIDE DEF of, filter
  <2> QED BY <1>1, <2>2, <2>3, MergedIs
<1>3. Params(query) = Updates(<<base, filter>>)
  BY DEF Params
<1> HIDE DEF base, filter
<1>4. \A k \in DOMAIN filter : k \in DOMAIN Params(query) /\ Params(query)[k] = filter[k]
  BY <1>3, TwoUpdates
<1> QED BY <1>1, <1>2, <1>4 DEF filter

\* A condition on a group whose parameter no other one takes, and what is accepted of it.
LEMMA SoleGroup ==
    ASSUME TreeOK, NEW l \in LeavesOf(tree), OnGroup(l), l.op # "neq", ~Overwritten(l),
           NEW r, Accepts(Params(r.query), r), r.backend \notin Leaky
    PROVE  l.value \cap r.groups # {}
<1> DEFINE k == <<"groups", "any">>
           filter == ProblemParams(tree)
           of == [m \in Conditions |-> ProblemParam(m)]
<1>2. /\ FromLeaves(filter, LeavesOf(tree), of) /\ LeavesOf(tree) \subseteq Conditions
      /\ \A key \in DOMAIN filter : key \in DOMAIN Params(r.query) /\ Params(r.query)[key] = filter[key]
  BY FilterParams
<1>3. ASSUME NEW m
      PROVE  /\ k \in DOMAIN ProblemParam(m) => OnGroup(m) /\ m.op # "neq"
             /\ OnGroup(m) /\ m.op # "neq" => k \in DOMAIN ProblemParam(m) /\ ProblemParam(m)[k] = m.value
  <2>1. ASSUME NEW column, NEW op, NEW value, ProblemParam(m) = Param(column, op, value)
        PROVE  /\ k \in DOMAIN ProblemParam(m) <=> column = "groups" /\ op = "any"
               /\ column = "groups" /\ op = "any" => ProblemParam(m)[k] = value
    <3>1. DOMAIN Param(column, op, value) = {<<column, op>>} /\ Param(column, op, value)[<<column, op>>] = value
      BY ParamIs
    <3> QED BY <2>1, <3>1
  <2>2. CASE m.field \in CVFields
    <3>1. ProblemParam(m) = Param("host_cv", "", Scalar(m))
      BY <2>2 DEF ProblemParam, CVFields
    <3>2. ~OnGroup(m)
      BY <2>2 DEF CVFields, OnGroup
    <3>3. k \in DOMAIN ProblemParam(m) <=> "host_cv" = "groups" /\ "" = "any"
      BY <2>1, <3>1
    <3> QED BY <3>2, <3>3
  <2>3. CASE OnGroup(m)
    <3>1. ProblemParam(m) = Param("groups", IF m.op = "neq" THEN "notin" ELSE "any", m.value)
      BY <2>3 DEF ProblemParam, OnGroup, CVFields
    <3> QED BY <2>1, <2>3, <3>1
  <2>4. CASE m.field \notin CVFields /\ ~OnGroup(m)
    <3>1. \E op, value : ProblemParam(m) = Param("state", op, value)
      BY <2>4 DEF ProblemParam, OnGroup
    <3>2. PICK op, value : ProblemParam(m) = Param("state", op, value)
      BY <3>1
    <3> QED BY <2>1, <2>4, <3>2
  <2> QED BY <2>2, <2>3, <2>4
<1> HIDE DEF k, filter
<1>4. \A m \in LeavesOf(tree) : of[m] = ProblemParam(m)
  BY <1>2
<1> HIDE DEF of
<1>5. k \in DOMAIN filter /\ \E m \in LeavesOf(tree) : k \in DOMAIN of[m] /\ filter[k] = of[m][k]
  <2>1. k \in DOMAIN of[l]
    BY <1>3, <1>4
  <2> QED BY <1>2, <2>1 DEF FromLeaves
<1>6. PICK m \in LeavesOf(tree) : k \in DOMAIN of[m] /\ filter[k] = of[m][k]
  BY <1>5
<1>7. OnGroup(m) /\ m.op # "neq"
  BY <1>3, <1>4, <1>6
<1>8. m = l
  BY <1>7 DEF Overwritten
<1>9. filter[k] = l.value
  BY <1>3, <1>4, <1>6, <1>8
<1>10. k \in DOMAIN Params(r.query) /\ Params(r.query)[k] = l.value
  BY <1>2, <1>5, <1>9
<1>11. AcceptsAt(k, l.value, r)
  BY <1>10 DEF Accepts, AcceptsAt
<1>12. k[2] = "any"
  BY DEF k
<1> QED BY <1>11, <1>12 DEF AcceptsAt

\* No row that a backend leaks out of the groups asked for is reported, where the client
\* checks the condition again; and none where it does not, if the backend does not leak
\* and no other condition has taken the parameter (inventory.py:681-711, 775-795,
\* filters.py:693-697).
THEOREM MembersOnly == Spec => []OnlyMembersReported
<1>1. TreeOK /\ ToolOK => OnlyMembersReported
  <2> SUFFICES ASSUME TreeOK, ToolOK, stage = "done", NEW r \in rows, NEW l \in LeavesOf(tree),
                      OnGroup(l), l.op = "gte" => r.backend \notin Leaky /\ ~Overwritten(l)
               PROVE  MeansLeaf(l, "problems", r)
    BY DEF OnlyMembersReported
  <2>1. /\ context = "problems" /\ ~Refused(tree) /\ RowMatches(r)
        /\ Accepts(Params(r.query), r)
    BY DEF ToolOK, Collected
  <2>2. l.field = "hostgroup" /\ l.op \in {"eq", "neq", "gte", "in"}
    BY <2>1, NotRefused DEF OnGroup
  <2>3. /\ l.op \in {"eq", "in"} => l.value \cap r.groups # {}
        /\ l.op = "neq" => l.value \cap r.groups = {}
    BY <2>1, <2>2 DEF RowMatches, Satisfies
  <2>4. l.op = "gte" => l.value \cap r.groups # {}
    BY <2>1, SoleGroup
  <2>5. Column(l.field, "problems") = "groups"
    BY <2>2 DEF Column
  <2>6. MeansLeaf(l, "problems", r) <=> (r.groups \cap l.value # {}) = (l.op # "neq")
    BY <2>2, <2>5 DEF MeansLeaf, GroupFields
  <2>7. (r.groups \cap l.value # {}) <=> (l.op # "neq")
    BY <2>2, <2>3, <2>4
  <2> QED BY <2>6, <2>7
<1> QED BY <1>1, TreesAreBuilt, ToolInvariant, PTL

\* A backend accepts what satisfies a condition.
LEMMA AcceptedParam ==
    ASSUME TreeOK, context = "problems", ~Refused(tree), NEW l \in LeavesOf(tree), NEW r,
           l.field \in CVFields => l.op = "eq", l.field = "state" => l.op # "regex",
           MeansLeaf(l, "problems", r)
    PROVE  /\ \A k \in DOMAIN ProblemParam(l) : AcceptsAt(k, ProblemParam(l)[k], r)
           /\ Satisfies(l, r.groups)
           /\ l.field = "state" /\ l.op = "eq" => <<"state", "">> \in DOMAIN ProblemParam(l)
<1>0. \A column, op, value :
        ProblemParam(l) = Param(column, op, value) /\ AcceptsAt(<<column, op>>, value, r)
        => /\ \A k \in DOMAIN ProblemParam(l) : AcceptsAt(k, ProblemParam(l)[k], r)
           /\ DOMAIN ProblemParam(l) = {<<column, op>>}
  <2> TAKE column, op, value
  <2> DEFINE p == Param(column, op, value)
  <2> HAVE ProblemParam(l) = p /\ AcceptsAt(<<column, op>>, value, r)
  <2>1. DOMAIN p = {<<column, op>>} /\ p[<<column, op>>] = value
    BY ParamIs
  <2> HIDE DEF p
  <2> QED BY <2>1
<1>1. CASE l.field \in CVFields
  <2>1. Column(l.field, "problems") = "host_cv"
    BY <1>1 DEF Column, CVFields
  <2>2. r.host_cv = Scalar(l)
    BY <1>1, <2>1 DEF MeansLeaf, CVFields, GroupFields, Compare
  <2>3. ProblemParam(l) = Param("host_cv", "", Scalar(l))
    BY <1>1 DEF ProblemParam, CVFields
  <2>4. AcceptsAt(<<"host_cv", "">>, Scalar(l), r)
    BY <2>2 DEF AcceptsAt, Holds
  <2> QED BY <1>0, <1>1, <2>3, <2>4 DEF CVFields, Satisfies
<1>2. CASE l.field = "hostgroup"
  <2>1. Column(l.field, "problems") = "groups"
    BY <1>2 DEF Column
  <2>2. (r.groups \cap l.value # {}) <=> (l.op # "neq")
    BY <1>2, <2>1 DEF MeansLeaf, GroupFields
  <2> DEFINE op == IF l.op = "neq" THEN "notin" ELSE "any"
  <2>3. ProblemParam(l) = Param("groups", op, l.value)
    BY <1>2 DEF ProblemParam, CVFields
  <2>4. AcceptsAt(<<"groups", op>>, l.value, r)
    BY <2>2 DEF AcceptsAt
  <2>5. Satisfies(l, r.groups)
    BY <2>2 DEF Satisfies
  <2> QED BY <1>0, <1>2, <2>3, <2>4, <2>5
<1>3. CASE l.field = "state"
  <2>1. Column(l.field, "problems") = "state"
    BY <1>3 DEF Column
  <2>2. l.op \in LiteralOps /\ l.value \subseteq DOMAIN StateNumber
    BY <1>3, NotRefused
  <2>3. PICK v \in l.value : l.value = {v}
    BY <2>2, NotRefused DEF LiteralOps
  <2>4. Scalar(l) = v
    BY <2>3, OneValue
  <2>5. StateIn(DOMAIN StateNumber, l) = StateNumber[v]
    BY <2>2, <2>4 DEF StateIn
  <2>6. ProblemParam(l) = Param("state", StateOp[l.op], StateNumber[v])
    BY <1>3, <2>5 DEF ProblemParam, CVFields
  <2>7. Compare(l.op, r["state"], StateNumber[v])
    BY <1>3, <2>1, <2>2, <2>4 DEF MeansLeaf, GroupFields, LiteralOps
  <2>8. Holds("state", StateOp[l.op], StateNumber[v], r)
    BY <2>2, <2>7, ComparesLike
  <2>9. StateOp[l.op] \in {"", "ne", "gte", "lte"} /\ (l.op = "eq" => StateOp[l.op] = "")
    <3>1. StateOp.eq = "" /\ StateOp.neq = "ne" /\ StateOp.gte = "gte" /\ StateOp.lte = "lte"
      BY DEF StateOp
    <3> QED BY <2>2, <3>1 DEF LiteralOps
  <2>10. AcceptsAt(<<"state", StateOp[l.op]>>, StateNumber[v], r)
    BY <2>8, <2>9 DEF AcceptsAt
  <2>11. Satisfies(l, r.groups)
    BY <1>3 DEF Satisfies
  <2> QED BY <1>0, <2>6, <2>9, <2>10, <2>11
<1> QED BY <1>1, <1>2, <1>3, NotRefused DEF CVFields

\* A backend accepts the problems that satisfy the filter, and the client keeps them.
LEMMA ProblemsAccepted ==
    ASSUME TreeOK, context = "problems", ~Refused(tree),
           HasMeaning, NEW r, IsProblem(r), Means(tree, "problems", r)
    PROVE  Accepts(Params(r.query), r) /\ RowMatches(r)
<1> DEFINE of == [l \in Conditions |-> ProblemParam(l)]
           filter == ProblemParams(tree)
           base == Base(r.query)
<1>1. tree \in Trees /\ LeavesOf(tree) \subseteq Conditions /\ ~HasOr(tree)
  BY LowerTrees, LeavesUnfold DEF TreeOK, Refused
<1>2. \A l \in LeavesOf(tree) : MeansLeaf(l, "problems", r)
  <2>1. LeavesOf(tree) \subseteq TrueOf("problems", r)
    BY <1>1, MeansIs, AllSatisfied
  <2> QED BY <2>1 DEF TrueOf
<1>3. \A l \in LeavesOf(tree) :
        /\ \A k \in DOMAIN ProblemParam(l) : AcceptsAt(k, ProblemParam(l)[k], r)
        /\ Satisfies(l, r.groups)
        /\ l.field = "state" /\ l.op = "eq" => <<"state", "">> \in DOMAIN ProblemParam(l)
  BY <1>2, AcceptedParam DEF HasMeaning
<1>4. FromLeaves(filter, LeavesOf(tree), of)
  BY FilterParams
<1>5. \A k \in DOMAIN filter : AcceptsAt(k, filter[k], r)
  <2> TAKE k \in DOMAIN filter
  <2> HIDE DEF filter
  <2>1. PICK l \in LeavesOf(tree) : k \in DOMAIN ProblemParam(l) /\ filter[k] = ProblemParam(l)[k]
    BY <1>1, <1>4 DEF FromLeaves
  <2> QED BY <1>3, <2>1
<1>6. \A l \in LeavesOf(tree) : DOMAIN ProblemParam(l) \subseteq DOMAIN filter
  <2> HIDE DEF filter
  <2> QED BY <1>1, <1>4 DEF FromLeaves
<1>7. ASSUME NEW k \in DOMAIN base, k \notin DOMAIN filter
      PROVE  AcceptsAt(k, base[k], r)
  <2> DEFINE op == IF r.query = "hosts" THEN "" ELSE "gte"
  <2>1. base = Param("state", op, 1)
    BY DEF Base
  <2>2. k = <<"state", op>> /\ base[k] = 1
    <3> HIDE DEF op, base
    <3>1. DOMAIN Param("state", op, 1) = {<<"state", op>>} /\ Param("state", op, 1)[<<"state", op>>] = 1
      BY ParamIs
    <3>2. DOMAIN base = {<<"state", op>>} /\ base[<<"state", op>>] = 1
      BY <2>1, <3>1
    <3>3. k = <<"state", op>>
      BY <1>7, <3>2
    <3> QED BY <3>2, <3>3
  <2>3. AcceptsAt(k, 1, r) <=> Holds("state", op, 1, r)
    BY <2>2 DEF AcceptsAt
  <2>4. CASE r.query = "hosts"
    <3>1. ~\E l \in LeavesOf(tree) : l.field = "state" /\ l.op = "eq"
      BY <1>3, <1>6, <1>7, <2>2, <2>4
    <3>2. r.state = 1
      BY <2>4, <3>1 DEF IsProblem
    <3> QED BY <2>2, <2>3, <2>4, <3>2 DEF Holds
  <2>5. CASE r.query # "hosts"
    <3>1. r.state >= 1
      BY DEF IsProblem
    <3> QED BY <2>2, <2>3, <2>5, <3>1 DEF Holds
  <2> QED BY <2>4, <2>5
<1>8. Params(r.query) = Updates(<<base, filter>>)
  BY DEF Params
<1> HIDE DEF base, filter
<1>9. \A k \in DOMAIN Params(r.query) : AcceptsAt(k, Params(r.query)[k], r)
  <2> TAKE k \in DOMAIN Params(r.query)
  <2>1. CASE k \in DOMAIN filter
    <3>1. Params(r.query)[k] = filter[k]
      BY <1>8, <2>1, TwoUpdates
    <3> QED BY <1>5, <2>1, <3>1
  <2>2. CASE k \notin DOMAIN filter
    <3>1. k \in DOMAIN base /\ Params(r.query)[k] = base[k]
      BY <1>8, <2>2, TwoUpdates
    <3> QED BY <1>7, <2>2, <3>1
  <2> QED BY <2>1, <2>2
<1>10. Accepts(Params(r.query), r)
  BY <1>9, AcceptsEach
<1>11. RowMatches(r)
  BY <1>3 DEF RowMatches
<1> QED BY <1>10, <1>11

\* Every problem a backend has is reported, or the backend is named in a warning, or it
\* was not connected when the fallback asked which are, or the offset skips it, or as many
\* rows as the limit admits are at least as bad (client.py:216-287, inventory.py:748-795).
THEOREM ProblemsReported == Spec => []NoProblemUnreported
<1>1. TreeOK /\ ToolOK => NoProblemUnreported
  <2> SUFFICES ASSUME TreeOK, ToolOK, stage = "done",
                      HasMeaning, NEW r \in Objects["problems"],
                      <<r.query, r.backend>> \in heard, r.backend \notin warned,
                      IsProblem(r), Means(tree, "problems", r), r \notin rows \cup skipped
               PROVE  Cardinality(Outranking(r)) >= Limit
    BY DEF NoProblemUnreported
  <2>1. context = "problems" /\ ~Refused(tree)
    BY DEF ToolOK
  <2>2. Accepts(Params(r.query), r) /\ RowMatches(r)
    BY <2>1, ProblemsAccepted
  <2>3. r \notin Collected
    BY <2>2 DEF ToolOK, Collected
  <2>4. Outranked(Collected, r)
    BY <2>2, <2>3 DEF ToolOK
  <2>5. PICK T \in SUBSET Collected :
          Cardinality(T) = Limit /\ \A s \in T : s.query = r.query /\ s.state >= r.state
    BY <2>4 DEF Outranked
  <2>6. T \subseteq Outranking(r)
    BY <2>5 DEF Outranking, Collected
  <2>7. Outranking(r) \subseteq Objects["problems"]
    BY DEF Outranking, ToolOK, Collected
  <2>8. IsFiniteSet(Outranking(r))
    BY <2>7, ProblemsAssumption, FS_Subset
  <2>9. IsFiniteSet(T) /\ Cardinality(T) <= Cardinality(Outranking(r))
    BY <2>6, <2>8, FS_Subset
  <2>10. Cardinality(Outranking(r)) \in Nat /\ Limit \in Nat
    BY <2>8, ProblemsAssumption, FS_CardinalityType
  <2> QED BY <2>5, <2>9, <2>10
<1> QED BY <1>1, TreesAreBuilt, ToolInvariant, PTL
================================================================================
