----------------------------- MODULE TreapProofs -----------------------------
(***************************************************************************)
(* Proofs about module Treap: after every sequence of insertions and       *)
(* deletions the tree holds the keys that were inserted and not deleted,   *)
(* in order and found where the lookup looks, and no assertion failed.     *)
(*                                                                         *)
(* The operations are recursive functions on trees.  Trees are counted by  *)
(* height, so that each recursion has its function (Solved) and equals its *)
(* definition (the lemmas named ...Is); what an operation does to the keys *)
(* and to the priorities is then proved by induction over the height (the  *)
(* lemmas named ...Good), for every finite set of keys.                    *)
(***************************************************************************)
EXTENDS Treap, FiniteSetTheorems, SequenceTheorems, WellFoundedInduction, TLAPS

-----------------------------------------------------------------------------
(* Numbers                                                                 *)

(* A set of numbers that is not empty has a least one.                     *)
LEMMA LeastOf ==
  ASSUME NEW T \in SUBSET Nat, T # {}
  PROVE  \E n \in T : \A m \in T : n <= m
<1> DEFINE R == {ss \in Nat \X Nat : ss[1] < ss[2]}
<1>1. IsWellFoundedOn(R, Nat)
  BY NatLessThanWellFounded DEF OpToRel
<1>2. PICK x \in T : \A y \in T : <<y, x>> \notin R
  <2> HIDE DEF R
  <2> QED
    BY <1>1, WFMin
<1>3. ASSUME NEW y \in T, y < x PROVE FALSE
  <2> DEFINE p == <<y, x>>
  <2>1. p \in Nat \X Nat /\ p[1] = y /\ p[2] = x
    OBVIOUS
  <2>2. p \in R
    <3> HIDE DEF p
    <3> QED
      BY <1>3, <2>1
  <2> QED
    BY <1>2, <2>2
<1> QED
  BY <1>2, <1>3

(* Induction, as a fact about a set of numbers.                            *)
LEMMA Induction ==
  ASSUME NEW T, 0 \in T, \A n \in Nat : n \in T => n + 1 \in T
  PROVE  \A n \in Nat : n \in T
<1> SUFFICES ASSUME NEW k \in Nat, k \notin T PROVE FALSE
  OBVIOUS
<1> DEFINE F == {n \in Nat : n \notin T}
<1>1. PICK n \in F : \A m \in F : n <= m
  <2>1. F \in SUBSET Nat /\ F # {}
    OBVIOUS
  <2> HIDE DEF F
  <2> QED
    BY <2>1, LeastOf
<1>2. n \in Nat /\ n # 0
  OBVIOUS
<1>3. n - 1 \in Nat /\ n - 1 \in T
  BY <1>1, <1>2
<1> QED
  BY <1>2, <1>3

-----------------------------------------------------------------------------
(* Trees                                                                   *)

(* The trees no path of which is longer than n.                            *)
TreesTo[n \in Nat] == IF n = 0 THEN {Null} ELSE Over(TreesTo[n - 1])

(* As long as the longest path of the trees of the model.                  *)
Depth == 2 * Cardinality(Keys)

(* The trees of the model are the trees of this depth.                     *)
LEMMA TreesAre == Trees = TreesTo[Depth]
BY DEF Trees, TreesTo, Depth

(* f grows trees of up to N levels, as TreesTo does.                       *)
Grows(f, N) ==
  /\ f = [n \in 0..N |-> f[n]] /\ f[0] = {Null}
  /\ \A n \in Nat : n < N => f[n + 1] = Over(f[n])

(* There is such a function for every N ...                                *)
LEMMA GrowsFor ==
  ASSUME NEW N \in Nat
  PROVE  \E f : Grows(f, N)
<1> DEFINE T == {k \in Nat : \E f : Grows(f, k)}
<1>1. 0 \in T
  <2> DEFINE f == [n \in 0..0 |-> {Null}]
  <2>1. f = [n \in 0..0 |-> f[n]] /\ f[0] = {Null}
    OBVIOUS
  <2>2. \A n \in Nat : ~(n < 0)
    OBVIOUS
  <2> HIDE DEF f
  <2>3. Grows(f, 0)
    BY <2>1, <2>2 DEF Grows
  <2> QED
    BY <2>3
<1>2. ASSUME NEW k \in Nat, k \in T PROVE k + 1 \in T
  <2>1. PICK f : Grows(f, k)
    BY <1>2
  <2> DEFINE g == [n \in 0..(k + 1) |-> IF n = k + 1 THEN Over(f[k]) ELSE f[n]]
  <2>2. g = [n \in 0..(k + 1) |-> g[n]]
    OBVIOUS
  <2>3. g[0] = {Null}
    BY <2>1 DEF Grows
  <2>4. ASSUME NEW n \in Nat, n < k + 1 PROVE g[n + 1] = Over(g[n])
    <3>1. n \in 0..(k + 1) /\ n + 1 \in 0..(k + 1) /\ n # k + 1
      BY <2>4
    <3>2. g[n] = f[n]
      BY <3>1
    <3>3. CASE n = k
      BY <3>1, <3>2, <3>3
    <3>4. CASE n # k
      <4>1. n < k /\ n + 1 # k + 1
        BY <2>4, <3>4
      <4>2. g[n + 1] = f[n + 1]
        BY <3>1, <4>1
      <4>3. f[n + 1] = Over(f[n])
        BY <2>1, <4>1 DEF Grows
      <4> HIDE DEF g
      <4> QED
        BY <3>2, <4>2, <4>3
    <3> QED
      BY <3>3, <3>4
  <2> HIDE DEF g
  <2>5. Grows(g, k + 1)
    BY <2>2, <2>3, <2>4 DEF Grows
  <2> QED
    BY <2>5
<1> HIDE DEF T
<1>3. N \in T
  BY <1>1, <1>2, Induction
<1> QED
  BY <1>3 DEF T

(* ... and those for N and for M are equal as far as both go.              *)
LEMMA GrowsAlike ==
  ASSUME NEW M \in Nat, NEW N \in Nat, NEW f, NEW g, Grows(f, M), Grows(g, N)
  PROVE  \A n \in Nat : n <= M /\ n <= N => f[n] = g[n]
<1> DEFINE T == {n \in Nat : n <= M /\ n <= N => f[n] = g[n]}
<1>1. 0 \in T
  BY DEF Grows
<1>2. ASSUME NEW n \in Nat, n \in T PROVE n + 1 \in T
  <2> SUFFICES ASSUME n + 1 <= M, n + 1 <= N PROVE f[n + 1] = g[n + 1]
    OBVIOUS
  <2>1. n < M /\ n < N /\ n <= M /\ n <= N
    OBVIOUS
  <2>2. f[n] = g[n]
    BY <1>2, <2>1
  <2>3. f[n + 1] = Over(f[n]) /\ g[n + 1] = Over(g[n])
    BY <2>1 DEF Grows
  <2> QED
    BY <2>2, <2>3
<1> HIDE DEF T
<1>3. \A n \in Nat : n \in T
  BY <1>1, <1>2, Induction
<1> QED
  BY <1>3 DEF T

(* TreesTo, a level at a time.                                             *)
LEMMA TreesToGrows == TreesTo[0] = {Null} /\ \A n \in Nat : TreesTo[n + 1] = Over(TreesTo[n])
<1> DEFINE for[n \in Nat] == CHOOSE f : Grows(f, n)
           F == [n \in Nat |-> for[n][n]]
<1>1. \A n \in Nat : Grows(for[n], n)
  BY GrowsFor
<1> HIDE DEF for
<1>2. F[0] = {Null}
  <2>1. Grows(for[0], 0)
    BY <1>1
  <2> QED
    BY <2>1 DEF Grows
<1>3. ASSUME NEW n \in Nat PROVE F[n + 1] = Over(F[n])
  <2>1. Grows(for[n], n) /\ Grows(for[n + 1], n + 1)
    <3>1. n + 1 \in Nat
      OBVIOUS
    <3> QED
      BY <1>1, <3>1, Zenon
  <2>2. for[n + 1][n + 1] = Over(for[n + 1][n])
    <3>1. n < n + 1
      OBVIOUS
    <3> QED
      BY <2>1, <3>1 DEF Grows
  <2>3. for[n][n] = for[n + 1][n]
    <3>1. n + 1 \in Nat /\ n <= n /\ n <= n + 1
      OBVIOUS
    <3> QED
      BY <2>1, <3>1, GrowsAlike
  <2>4. F[n + 1] = for[n + 1][n + 1] /\ F[n] = for[n][n]
    OBVIOUS
  <2> QED
    BY <2>2, <2>3, <2>4
<1>4. F = [n \in Nat |-> IF n = 0 THEN {Null} ELSE Over(F[n - 1])]
  <2>1. F = [n \in Nat |-> F[n]]
    OBVIOUS
  <2> HIDE DEF F
  <2>2. ASSUME NEW n \in Nat PROVE F[n] = IF n = 0 THEN {Null} ELSE Over(F[n - 1])
    <3>1. CASE n = 0
      BY <1>2, <3>1
    <3>2. CASE n # 0
      <4>1. n - 1 \in Nat /\ (n - 1) + 1 = n
        BY <3>2
      <4>2. F[(n - 1) + 1] = Over(F[n - 1])
        BY <1>3, <4>1
      <4> QED
        BY <3>2, <4>1, <4>2
    <3> QED
      BY <3>1, <3>2
  <2> QED
    BY <2>1, <2>2
<1> HIDE DEF F
<1>5. TreesTo = [n \in Nat |-> IF n = 0 THEN {Null} ELSE Over(TreesTo[n - 1])]
  BY <1>4, Zenon DEF TreesTo
<1>6. TreesTo[0] = {Null}
  BY <1>5
<1>7. ASSUME NEW n \in Nat PROVE TreesTo[n + 1] = Over(TreesTo[n])
  <2>1. n + 1 \in Nat /\ n + 1 # 0 /\ (n + 1) - 1 = n
    OBVIOUS
  <2> DEFINE m == n + 1
  <2>2. m \in Nat /\ m # 0 /\ m - 1 = n
    BY <2>1
  <2> HIDE DEF m
  <2>3. TreesTo[m] = Over(TreesTo[m - 1])
    BY <1>5, <2>2
  <2> QED
    BY <2>2, <2>3 DEF m
<1> QED
  BY <1>6, <1>7

(* A tree that is not Null is a node over two trees of a level less ...    *)
LEMMA NodeOf ==
  ASSUME NEW n \in Nat, NEW T \in TreesTo[n], T # Null
  PROVE  /\ n # 0 /\ n - 1 \in Nat
         /\ T.x \in Keys /\ T.y \in Priorities
         /\ T.left \in TreesTo[n - 1] /\ T.right \in TreesTo[n - 1]
         /\ T = Node(T.x, T.y, T.left, T.right)
<1>1. n # 0
  BY TreesToGrows
<1> DEFINE m == n - 1
<1>2. m \in Nat /\ m + 1 = n
  BY <1>1
<1>3. TreesTo[n] = Over(TreesTo[m])
  <2> HIDE DEF m
  <2> QED
    BY <1>2, TreesToGrows
<1> HIDE DEF m
<1>4. T \in [x : Keys, y : Priorities, left : TreesTo[m], right : TreesTo[m]]
  BY <1>3 DEF Over
<1>5. T.x \in Keys /\ T.y \in Priorities
      /\ T.left \in TreesTo[m] /\ T.right \in TreesTo[m]
      /\ T = Node(T.x, T.y, T.left, T.right)
  BY <1>4 DEF Node
<1> QED
  BY <1>1, <1>2, <1>5 DEF m

(* ... Null has no priority, and so is no node, ...                        *)
LEMMA NodeIsNotNull ==
  ASSUME NEW x, NEW y, NEW a, NEW b
  PROVE  Node(x, y, a, b) # Null
<1>1. "y" \in DOMAIN Node(x, y, a, b) /\ "y" \notin DOMAIN Null
  BY DEF Node, Null
<1> QED
  BY <1>1

(* ... and a node over two trees is a tree of a level more.                *)
LEMMA NodeIn ==
  ASSUME NEW n \in Nat, NEW x \in Keys, NEW y \in Priorities,
         NEW a \in TreesTo[n], NEW b \in TreesTo[n]
  PROVE  Node(x, y, a, b) \in TreesTo[n + 1]
BY TreesToGrows DEF Over, Node

(* Null is a tree of every height.                                         *)
LEMMA NullIn ==
  ASSUME NEW n \in Nat
  PROVE  Null \in TreesTo[n]
<1> DEFINE m == n - 1
<1>1. CASE n = 0
  BY <1>1, TreesToGrows
<1>2. CASE n # 0
  <2>1. m \in Nat /\ m + 1 = n
    BY <1>2
  <2> HIDE DEF m
  <2> QED
    BY <2>1, TreesToGrows DEF Over
<1> QED
  BY <1>1, <1>2

(* A tree of up to n levels is one of up to n + 1 ...                      *)
LEMMA OneHigher ==
  ASSUME NEW n \in Nat
  PROVE  TreesTo[n] \subseteq TreesTo[n + 1]
<1> DEFINE S == {k \in Nat : TreesTo[k] \subseteq TreesTo[k + 1]}
<1>1. 0 \in S
  <2>1. TreesTo[0] = {Null} /\ Null \in TreesTo[0 + 1]
    BY TreesToGrows, NullIn
  <2> QED
    BY <2>1
<1>2. ASSUME NEW k \in Nat, k \in S PROVE k + 1 \in S
  <2>1. TreesTo[k] \subseteq TreesTo[k + 1]
    BY <1>2
  <2>2. Over(TreesTo[k]) \subseteq Over(TreesTo[k + 1])
    BY <2>1 DEF Over
  <2>3. k + 1 \in Nat /\ TreesTo[k + 1] = Over(TreesTo[k])
    BY TreesToGrows
  <2>4. TreesTo[(k + 1) + 1] = Over(TreesTo[k + 1])
    BY <2>3, TreesToGrows
  <2>5. TreesTo[k + 1] \subseteq TreesTo[(k + 1) + 1]
    BY <2>2, <2>3, <2>4, Zenon
  <2> QED
    BY <2>3, <2>5
<1> HIDE DEF S
<1>3. n \in S
  BY <1>1, <1>2, Induction
<1> QED
  BY <1>3 DEF S

(* ... and of up to every greater number.                                  *)
LEMMA Higher ==
  ASSUME NEW m \in Nat, NEW n \in Nat, m <= n
  PROVE  TreesTo[m] \subseteq TreesTo[n]
<1> DEFINE S == {k \in Nat : TreesTo[m] \subseteq TreesTo[m + k]}
<1>1. 0 \in S
  OBVIOUS
<1>2. ASSUME NEW k \in Nat, k \in S PROVE k + 1 \in S
  <2>1. TreesTo[m] \subseteq TreesTo[m + k] /\ m + k \in Nat
    BY <1>2
  <2>2. TreesTo[m + k] \subseteq TreesTo[(m + k) + 1]
    BY <2>1, OneHigher
  <2>3. (m + k) + 1 = m + (k + 1) /\ k + 1 \in Nat
    OBVIOUS
  <2> QED
    BY <2>1, <2>2, <2>3
<1> HIDE DEF S
<1>3. n - m \in S
  <2>1. n - m \in Nat
    OBVIOUS
  <2> QED
    BY <1>1, <1>2, <2>1, Induction
<1>4. m + (n - m) = n
  OBVIOUS
<1> QED
  BY <1>3, <1>4 DEF S

(* Trees of any height.                                                    *)
AllTrees == UNION {TreesTo[n] : n \in Nat}

(* The length of the longest path.                                         *)
Height(T) == CHOOSE n \in Nat : T \in TreesTo[n] /\ \A m \in Nat : T \in TreesTo[m] => n <= m

(* Height is the least number of levels that is enough.                    *)
LEMMA HeightIs ==
  ASSUME NEW T \in AllTrees
  PROVE  /\ Height(T) \in Nat /\ T \in TreesTo[Height(T)]
         /\ \A m \in Nat : T \in TreesTo[m] => Height(T) <= m
<1> DEFINE S == {n \in Nat : T \in TreesTo[n]}
<1>1. S \in SUBSET Nat /\ S # {}
  BY DEF AllTrees
<1>2. PICK n \in S : \A m \in S : n <= m
  <2> HIDE DEF S
  <2> QED
    BY <1>1, LeastOf
<1> QED
  BY <1>2 DEF Height

(* The trees under a node are less high, which each recursion goes by.     *)
LEMMA HeightBelow ==
  ASSUME NEW T \in AllTrees, T # Null
  PROVE  /\ T.left \in AllTrees /\ T.right \in AllTrees
         /\ Height(T.left) < Height(T) /\ Height(T.right) < Height(T)
<1> DEFINE h == Height(T)
<1>1. h \in Nat /\ T \in TreesTo[h]
  BY HeightIs
<1> HIDE DEF h
<1>2. h # 0 /\ h - 1 \in Nat /\ T.left \in TreesTo[h - 1] /\ T.right \in TreesTo[h - 1]
  BY <1>1, NodeOf
<1>3. T.left \in AllTrees /\ T.right \in AllTrees
  BY <1>2 DEF AllTrees
<1>4. /\ Height(T.left) \in Nat /\ Height(T.left) <= h - 1
      /\ Height(T.right) \in Nat /\ Height(T.right) <= h - 1
  BY <1>2, <1>3, HeightIs
<1> QED
  BY <1>1, <1>3, <1>4 DEF h

(* There are finitely many keys, so that Depth is a number.                *)
LEMMA DepthIsNat ==
  ASSUME TreapAssumption
  PROVE  Depth \in Nat
<1>1. Cardinality(Keys) \in Nat
  BY FS_CardinalityType DEF TreapAssumption
<1> QED
  BY <1>1 DEF Depth

(* What holds of no tree, and of a tree when it holds of its two below,    *)
(* holds of all.                                                           *)
LEMMA TreeInduction ==
  ASSUME NEW N \in Nat, NEW S, Null \in S,
         \A T \in TreesTo[N] : T # Null /\ T.left \in S /\ T.right \in S => T \in S
  PROVE  \A T \in TreesTo[N] : T \in S
<1> DEFINE K == {n \in Nat : n <= N => TreesTo[n] \subseteq S}
<1>1. 0 \in K
  BY TreesToGrows
<1>2. ASSUME NEW n \in Nat, n \in K PROVE n + 1 \in K
  <2> SUFFICES ASSUME n + 1 <= N, NEW T \in TreesTo[n + 1] PROVE T \in S
    OBVIOUS
  <2>1. CASE T = Null
    BY <2>1
  <2>2. CASE T # Null
    <3>1. n + 1 \in Nat /\ (n + 1) - 1 = n /\ n <= N
      OBVIOUS
    <3>2. T.left \in TreesTo[n] /\ T.right \in TreesTo[n]
      BY <2>2, <3>1, NodeOf
    <3>3. TreesTo[n] \subseteq S
      BY <1>2, <3>1
    <3>4. T \in TreesTo[N]
      BY <3>1, Higher
    <3> QED
      BY <2>2, <3>2, <3>3, <3>4
  <2> QED
    BY <2>1, <2>2
<1> HIDE DEF K
<1>3. N \in K
  BY <1>1, <1>2, Induction
<1> QED
  BY <1>3 DEF K
-----------------------------------------------------------------------------
(* Functions of trees                                                      *)

(* A step asks for values of lower rank only.                              *)
Looks(D, V, rank, step) ==
  \A d \in D : \A f, g \in [D -> V] :
    (\A e \in D : rank[e] < rank[d] => f[e] = g[e]) => step[<<d, f>>] = step[<<d, g>>]

(* step makes a value for d from the values at lower ranks.                *)
Stepping(D, V, rank, step) ==
  rank \in [D -> Nat] /\ step \in [D \X [D -> V] -> V] /\ Looks(D, V, rank, step)

(* f is what the steps make of itself, at ranks below n ...                *)
SolvesTo(f, D, V, rank, step, n) ==
  f \in [D -> V] /\ \A d \in D : rank[d] < n => f[d] = step[<<d, f>>]

(* ... and everywhere.                                                     *)
Solves(f, D, V, step) ==
  f \in [D -> V] /\ \A d \in D : f[d] = step[<<d, f>>]

(* There is a function that is what the steps make of it below rank N, ... *)
LEMMA SolvedTo ==
  ASSUME NEW D, NEW V, NEW v \in V, NEW rank, NEW step, Stepping(D, V, rank, step), NEW N \in Nat
  PROVE  \E f : SolvesTo(f, D, V, rank, step, N)
<1>0. rank \in [D -> Nat] /\ step \in [D \X [D -> V] -> V] /\ Looks(D, V, rank, step)
  BY DEF Stepping
<1> DEFINE S == {n \in Nat : \E f : SolvesTo(f, D, V, rank, step, n)}
<1>1. 0 \in S
  <2> DEFINE f == [d \in D |-> v]
  <2>1. f \in [D -> V] /\ \A d \in D : ~(rank[d] < 0)
    BY <1>0
  <2> HIDE DEF f
  <2>2. SolvesTo(f, D, V, rank, step, 0)
    BY <2>1 DEF SolvesTo
  <2> QED
    BY <2>2
<1>2. ASSUME NEW n \in Nat, n \in S PROVE n + 1 \in S
  <2>1. PICK f : SolvesTo(f, D, V, rank, step, n)
    BY <1>2
  <2>2. f \in [D -> V]
    BY <2>1 DEF SolvesTo
  <2> DEFINE g == [d \in D |-> step[<<d, f>>]]
  <2>3. \A d \in D : g[d] = step[<<d, f>>]
    OBVIOUS
  <2>4. g \in [D -> V]
    BY <1>0, <2>2
  <2> HIDE DEF g
  <2>5. ASSUME NEW d \in D, rank[d] < n + 1 PROVE g[d] = step[<<d, g>>]
    <3>1. ASSUME NEW e \in D, rank[e] < rank[d] PROVE f[e] = g[e]
      <4>1. rank[e] < n
        <5>1. rank[e] \in Nat /\ rank[d] \in Nat
          BY <1>0
        <5> QED
          BY <2>5, <3>1, <5>1
      <4> QED
        BY <2>1, <2>3, <4>1 DEF SolvesTo
    <3>2. step[<<d, f>>] = step[<<d, g>>]
      BY <1>0, <2>2, <2>4, <3>1 DEF Looks
    <3> QED
      BY <2>3, <3>2
  <2>6. SolvesTo(g, D, V, rank, step, n + 1)
    BY <2>4, <2>5 DEF SolvesTo
  <2> QED
    BY <2>6
<1> HIDE DEF S
<1>3. N \in S
  BY <1>1, <1>2, Induction
<1> QED
  BY <1>3 DEF S

(* ... two such functions agree where both are solved, ...                 *)
LEMMA SolvedAlike ==
  ASSUME NEW D, NEW V, NEW rank, NEW step, Stepping(D, V, rank, step),
         NEW m \in Nat, NEW n \in Nat, NEW f, NEW g,
         SolvesTo(f, D, V, rank, step, m), SolvesTo(g, D, V, rank, step, n)
  PROVE  \A d \in D : rank[d] < m /\ rank[d] < n => f[d] = g[d]
<1> DEFINE S == {k \in Nat : \A d \in D : rank[d] < k /\ rank[d] < m /\ rank[d] < n
                                          => f[d] = g[d]}
<1>0. /\ f \in [D -> V] /\ g \in [D -> V] /\ rank \in [D -> Nat]
      /\ step \in [D \X [D -> V] -> V] /\ Looks(D, V, rank, step)
  BY DEF SolvesTo, Stepping
<1>1. 0 \in S
  <2>1. \A d \in D : ~(rank[d] < 0)
    BY <1>0
  <2> QED
    BY <2>1
<1>2. ASSUME NEW k \in Nat, k \in S PROVE k + 1 \in S
  <2> SUFFICES ASSUME NEW d \in D, rank[d] < k + 1, rank[d] < m, rank[d] < n
               PROVE  f[d] = g[d]
    OBVIOUS
  <2>1. ASSUME NEW e \in D, rank[e] < rank[d] PROVE f[e] = g[e]
    <3>1. rank[e] \in Nat /\ rank[d] \in Nat
      BY <1>0
    <3>2. rank[e] < k /\ rank[e] < m /\ rank[e] < n
      BY <2>1, <3>1
    <3> QED
      BY <1>2, <3>2
  <2>2. step[<<d, f>>] = step[<<d, g>>]
    BY <1>0, <2>1 DEF Looks
  <2>3. f[d] = step[<<d, f>>] /\ g[d] = step[<<d, g>>]
    BY DEF SolvesTo
  <2> QED
    BY <2>2, <2>3
<1> HIDE DEF S
<1>3. \A k \in Nat : k \in S
  BY <1>1, <1>2, Induction
<1>4. ASSUME NEW d \in D, rank[d] < m, rank[d] < n PROVE f[d] = g[d]
  <2>1. m \in S
    BY <1>3
  <2> QED
    BY <1>4, <2>1 DEF S
<1> QED
  BY <1>4

(* ... and so there is one that is solved everywhere: recursion by rank.   *)
LEMMA Solved ==
  ASSUME NEW D, NEW V, NEW v \in V, NEW rank, NEW step, Stepping(D, V, rank, step)
  PROVE  \E f : Solves(f, D, V, step)
<1> DEFINE for[n \in Nat] == CHOOSE f : SolvesTo(f, D, V, rank, step, n)
           F == [d \in D |-> for[rank[d] + 1][d]]
<1>1. \A n \in Nat : SolvesTo(for[n], D, V, rank, step, n)
  BY SolvedTo
<1> HIDE DEF for
<1>0. rank \in [D -> Nat] /\ step \in [D \X [D -> V] -> V] /\ Looks(D, V, rank, step)
  BY DEF Stepping
<1>2. \A d \in D : rank[d] \in Nat /\ rank[d] + 1 \in Nat /\ rank[d] < rank[d] + 1
  BY <1>0
<1>3. \A d \in D : SolvesTo(for[rank[d] + 1], D, V, rank, step, rank[d] + 1)
  BY <1>1, <1>2
<1>4. \A d \in D : F[d] = for[rank[d] + 1][d]
  OBVIOUS
<1>5. F \in [D -> V]
  BY <1>3 DEF SolvesTo
<1> HIDE DEF F
<1>6. ASSUME NEW d \in D PROVE F[d] = step[<<d, F>>]
  <2> DEFINE f == for[rank[d] + 1]
  <2>1. SolvesTo(f, D, V, rank, step, rank[d] + 1)
    BY <1>3
  <2>2. F[d] = f[d]
    BY <1>4
  <2> HIDE DEF f
  <2>3. f \in [D -> V] /\ f[d] = step[<<d, f>>]
    BY <1>2, <2>1 DEF SolvesTo
  <2>4. ASSUME NEW e \in D, rank[e] < rank[d] PROVE f[e] = F[e]
    <3>1. rank[e] < rank[d] + 1 /\ rank[e] < rank[e] + 1
      BY <1>2, <2>4
    <3> DEFINE g == for[rank[e] + 1]
    <3>2. F[e] = g[e]
      BY <1>4
    <3>3. SolvesTo(g, D, V, rank, step, rank[e] + 1)
      BY <1>3
    <3>4. rank[d] + 1 \in Nat /\ rank[e] + 1 \in Nat
      BY <1>2
    <3> HIDE DEF g
    <3> DEFINE m == rank[d] + 1
               n == rank[e] + 1
    <3>5. /\ m \in Nat /\ n \in Nat /\ rank[e] < m /\ rank[e] < n
          /\ SolvesTo(f, D, V, rank, step, m) /\ SolvesTo(g, D, V, rank, step, n)
      BY <2>1, <3>1, <3>3, <3>4
    <3> HIDE DEF m, n
    <3>6. \A c \in D : rank[c] < m /\ rank[c] < n => f[c] = g[c]
      BY <3>5, SolvedAlike
    <3> QED
      BY <3>2, <3>5, <3>6
  <2>5. step[<<d, f>>] = step[<<d, F>>]
    BY <1>0, <1>5, <2>3, <2>4 DEF Looks
  <2> QED
    BY <2>2, <2>3, <2>5
<1>7. Solves(F, D, V, step)
  BY <1>5, <1>6 DEF Solves
<1> QED
  BY <1>7

(* f takes of a tree what step makes of its values for the two below.      *)
Folds(f, V, v, step) ==
  /\ f \in [Trees -> V] /\ f[Null] = v
  /\ \A T \in Trees : T # Null => f[T] = step[<<T, f[T.left], f[T.right]>>]

(* What is known of the parts of a tree of the model.                      *)
LEMMA TreesBelow ==
  ASSUME TreapAssumption, NEW T \in Trees, T # Null
  PROVE  /\ T.x \in Keys /\ T.y \in Priorities
         /\ T.left \in Trees /\ T.right \in Trees
         /\ T.left \in AllTrees /\ T.right \in AllTrees
         /\ Height(T.left) < Height(T) /\ Height(T.right) < Height(T)
<1>1. Depth \in Nat /\ T \in TreesTo[Depth]
  BY DepthIsNat, TreesAre
<1>2. /\ Depth # 0 /\ Depth - 1 \in Nat /\ T.x \in Keys /\ T.y \in Priorities
      /\ T.left \in TreesTo[Depth - 1] /\ T.right \in TreesTo[Depth - 1]
  BY <1>1, NodeOf
<1>3. TreesTo[Depth - 1] \subseteq TreesTo[Depth]
  BY <1>1, <1>2, Higher
<1>4. T \in AllTrees
  BY <1>1 DEF AllTrees
<1> QED
  BY <1>2, <1>3, <1>4, HeightBelow, TreesAre

(* Null is one of the model's trees, and each has a height.                *)
LEMMA TreeIs ==
  ASSUME TreapAssumption
  PROVE  /\ Null \in Trees /\ Trees \subseteq AllTrees
         /\ \A T \in Trees : Height(T) \in Nat
<1>1. Depth \in Nat
  BY DepthIsNat
<1>2. Null \in Trees
  BY <1>1, NullIn, TreesAre
<1>3. Trees \subseteq AllTrees
  BY <1>1, TreesAre DEF AllTrees
<1> QED
  BY <1>2, <1>3, HeightIs

(* Each fold over the two trees of a node exists.                          *)
LEMMA Folded ==
  ASSUME TreapAssumption, NEW V, NEW v \in V, NEW step \in [Trees \X V \X V -> V]
  PROVE  \E f : Folds(f, V, v, step)
<1> DEFINE rank == [T \in Trees |-> Height(T)]
           next == [p \in Trees \X [Trees -> V] |->
                      IF p[1] = Null THEN v
                      ELSE step[<<p[1], p[2][p[1].left], p[2][p[1].right]>>]]
<1>1. rank \in [Trees -> Nat]
  BY TreeIs
<1>2. \A T \in Trees : rank[T] = Height(T)
  OBVIOUS
<1>3. \A T \in Trees, f \in [Trees -> V] :
        next[<<T, f>>] = IF T = Null THEN v ELSE step[<<T, f[T.left], f[T.right]>>]
  OBVIOUS
<1>4. next \in [Trees \X [Trees -> V] -> V]
  <2> SUFFICES ASSUME NEW T \in Trees, NEW f \in [Trees -> V]
               PROVE  (IF T = Null THEN v ELSE step[<<T, f[T.left], f[T.right]>>]) \in V
    OBVIOUS
  <2>1. CASE T # Null
    <3>1. f[T.left] \in V /\ f[T.right] \in V
      BY <2>1, TreesBelow
    <3> QED
      BY <2>1, <3>1
  <2> QED
    BY <2>1
<1> HIDE DEF rank, next
<1>5. Looks(Trees, V, rank, next)
  <2> SUFFICES ASSUME NEW T \in Trees, NEW f \in [Trees -> V], NEW g \in [Trees -> V],
                      \A e \in Trees : rank[e] < rank[T] => f[e] = g[e]
               PROVE  next[<<T, f>>] = next[<<T, g>>]
    BY DEF Looks
  <2>1. CASE T # Null
    <3>1. /\ T.left \in Trees /\ rank[T.left] < rank[T]
          /\ T.right \in Trees /\ rank[T.right] < rank[T]
      BY <1>2, <2>1, TreesBelow
    <3>2. f[T.left] = g[T.left] /\ f[T.right] = g[T.right]
      BY <3>1
    <3> QED
      BY <1>3, <2>1, <3>2
  <2>2. CASE T = Null
    BY <1>3, <2>2
  <2> QED
    BY <2>1, <2>2
<1>6. PICK f : Solves(f, Trees, V, next)
  <2>1. Stepping(Trees, V, rank, next)
    BY <1>1, <1>4, <1>5 DEF Stepping
  <2> QED
    BY <2>1, Solved
<1>7. f \in [Trees -> V] /\ \A T \in Trees : f[T] = next[<<T, f>>]
  BY <1>6 DEF Solves
<1>8. f[Null] = v
  BY <1>3, <1>7, TreeIs
<1>9. \A T \in Trees : T # Null => f[T] = step[<<T, f[T.left], f[T.right]>>]
  BY <1>3, <1>7
<1> QED
  BY <1>7, <1>8, <1>9 DEF Folds
-----------------------------------------------------------------------------
(* What each function of tree.h is at nothing and at a node                *)

(* The sequence of the keys, as its definition says it.                    *)
LEMMA InOrderIs ==
  ASSUME TreapAssumption
  PROVE  /\ InOrder[Null] = <<>>
         /\ \A T \in Trees : T # Null =>
              InOrder[T] = InOrder[T.left] \o <<T.x>> \o InOrder[T.right]
         /\ \A T \in Trees : InOrder[T] \in Seq(Keys)
<1> DEFINE V == Seq(Keys)
           step == [p \in Trees \X V \X V |->
                      IF p[1] = Null THEN <<>> ELSE p[2] \o <<p[1].x>> \o p[3]]
<1>1. <<>> \in V
  OBVIOUS
<1>2. \A T \in Trees, a \in V, b \in V : T # Null => step[<<T, a, b>>] = a \o <<T.x>> \o b
  OBVIOUS
<1>3. \A T \in Trees, a \in V, b \in V : T # Null => a \o <<T.x>> \o b \in V
  BY TreesBelow
<1>4. step \in [Trees \X V \X V -> V]
  BY <1>1, <1>3
<1> HIDE DEF step, V
<1>5. PICK f : Folds(f, V, <<>>, step)
  BY <1>1, <1>4, Folded
<1>6. f \in [Trees -> V] /\ \A T \in Trees :
        f[T] = IF T = Null THEN <<>> ELSE f[T.left] \o <<T.x>> \o f[T.right]
  <2>1. f \in [Trees -> V] /\ f[Null] = <<>>
        /\ \A T \in Trees : T # Null => f[T] = step[<<T, f[T.left], f[T.right]>>]
    BY <1>5 DEF Folds
  <2>2. \A T \in Trees : T # Null => f[T.left] \in V /\ f[T.right] \in V
    BY <2>1, TreesBelow
  <2> QED
    BY <1>2, <2>1, <2>2
<1>7. f = [T \in Trees |-> IF T = Null THEN <<>> ELSE f[T.left] \o <<T.x>> \o f[T.right]]
  BY <1>6
<1>8. InOrder = [T \in Trees |-> IF T = Null THEN <<>>
                                 ELSE InOrder[T.left] \o <<T.x>> \o InOrder[T.right]]
  BY <1>7, Zenon DEF InOrder
<1>9. InOrder[Null] = <<>>
  BY <1>8, TreeIs
<1>10. \A T \in Trees : T # Null =>
         InOrder[T] = InOrder[T.left] \o <<T.x>> \o InOrder[T.right]
  BY <1>8
<1> DEFINE S == {T \in Trees : InOrder[T] \in V}
<1>11. Null \in S
  BY <1>1, <1>9, TreeIs
<1>12. \A T \in Trees : T # Null /\ T.left \in S /\ T.right \in S => T \in S
  BY <1>3, <1>10
<1> HIDE DEF S
<1>13. \A T \in Trees : T \in S
  BY <1>11, <1>12, DepthIsNat, TreeInduction, TreesAre
<1> QED
  BY <1>9, <1>10, <1>13 DEF S, V

(* The count, as its definition says it.                                   *)
LEMMA TreeCountIs ==
  ASSUME TreapAssumption
  PROVE  /\ TreeCount[Null] = 0
         /\ \A T \in Trees : T # Null => TreeCount[T] = 1 + TreeCount[T.left] + TreeCount[T.right]
<1> DEFINE step == [p \in Trees \X Nat \X Nat |-> 1 + p[2] + p[3]]
<1>1. \A T \in Trees, a \in Nat, b \in Nat : step[<<T, a, b>>] = 1 + a + b
  OBVIOUS
<1>2. step \in [Trees \X Nat \X Nat -> Nat]
  OBVIOUS
<1> HIDE DEF step
<1>3. PICK f : Folds(f, Nat, 0, step)
  BY <1>2, Folded
<1>4. f \in [Trees -> Nat] /\ f[Null] = 0
      /\ \A T \in Trees : T # Null => f[T] = step[<<T, f[T.left], f[T.right]>>]
  BY <1>3 DEF Folds
<1>5. \A T \in Trees : T # Null => f[T.left] \in Nat /\ f[T.right] \in Nat
  BY <1>4, TreesBelow
<1>6. f = [T \in Trees |-> IF T = Null THEN 0 ELSE 1 + f[T.left] + f[T.right]]
  BY <1>1, <1>4, <1>5
<1>7. TreeCount = [T \in Trees |-> IF T = Null THEN 0
                                   ELSE 1 + TreeCount[T.left] + TreeCount[T.right]]
  BY <1>6, Zenon DEF TreeCount
<1> QED
  BY <1>7, TreeIs

(* get_min, as its definition says it.                                     *)
LEMMA TreeGetMinIs ==
  ASSUME TreapAssumption
  PROVE  /\ TreeGetMin[Null] = Unset
         /\ \A T \in Trees : T # Null =>
              TreeGetMin[T] = IF T.left = Null THEN T.x ELSE TreeGetMin[T.left]
<1> DEFINE V == Keys \cup {Unset}
           step == [p \in Trees \X V \X V |->
                      IF p[1] # Null /\ p[1].left = Null THEN p[1].x ELSE p[2]]
<1>1. \A T \in Trees, a \in V, b \in V :
        T # Null => step[<<T, a, b>>] = IF T.left = Null THEN T.x ELSE a
  OBVIOUS
<1>2. step \in [Trees \X V \X V -> V] /\ Unset \in V
  BY TreesBelow
<1> HIDE DEF step, V
<1>3. PICK f : Folds(f, V, Unset, step)
  BY <1>2, Folded
<1>4. f \in [Trees -> V] /\ f[Null] = Unset
      /\ \A T \in Trees : T # Null => f[T] = step[<<T, f[T.left], f[T.right]>>]
  BY <1>3 DEF Folds
<1>5. \A T \in Trees : T # Null => f[T.left] \in V /\ f[T.right] \in V
  BY <1>4, TreesBelow
<1>6. f = [T \in Trees |-> IF T = Null THEN Unset ELSE IF T.left = Null THEN T.x
                           ELSE f[T.left]]
  <2>1. \A T \in Trees : f[T] = IF T = Null THEN Unset ELSE IF T.left = Null THEN T.x
                                ELSE f[T.left]
    BY <1>1, <1>4, <1>5
  <2> QED
    BY <1>4, <2>1
<1>7. TreeGetMin = [T \in Trees |-> IF T = Null THEN Unset
                                    ELSE IF T.left = Null THEN T.x ELSE TreeGetMin[T.left]]
  BY <1>6, Zenon DEF TreeGetMin
<1> QED
  BY <1>7, TreeIs

(* The lookup, as its definition says it.                                  *)
LEMMA TreeLookupIs ==
  ASSUME TreapAssumption
  PROVE  \A x \in Keys :
           /\ TreeLookup[Null][x] = Unset
           /\ \A T \in Trees : T # Null =>
                TreeLookup[T][x] = IF x = T.x THEN x
                                   ELSE IF x < T.x THEN TreeLookup[T.left][x]
                                   ELSE TreeLookup[T.right][x]
<1> DEFINE V == [Keys -> Keys \cup {Unset}]
           v == [x \in Keys |-> Unset]
           step == [p \in Trees \X V \X V |-> [x \in Keys |->
                      IF p[1] = Null THEN Unset ELSE IF x = p[1].x THEN x
                      ELSE IF x < p[1].x THEN p[2][x] ELSE p[3][x]]]
<1>1. \A T \in Trees, a \in V, b \in V :
        T # Null => step[<<T, a, b>>] = [x \in Keys |-> IF x = T.x THEN x
                                         ELSE IF x < T.x THEN a[x] ELSE b[x]]
  OBVIOUS
<1>2. step \in [Trees \X V \X V -> V] /\ v \in V
  OBVIOUS
<1> HIDE DEF step
<1>3. PICK f : Folds(f, V, v, step)
  <2> HIDE DEF V, v
  <2> QED
    BY <1>2, Folded
<1>4. f \in [Trees -> V] /\ f[Null] = v
      /\ \A T \in Trees : T # Null => f[T] = step[<<T, f[T.left], f[T.right]>>]
  BY <1>3 DEF Folds
<1>5. \A T \in Trees : T # Null => f[T.left] \in V /\ f[T.right] \in V
  <2> HIDE DEF V
  <2> QED
    BY <1>4, TreesBelow
<1>6. ASSUME NEW T \in Trees
      PROVE  f[T] = [x \in Keys |-> IF T = Null THEN Unset ELSE IF x = T.x THEN x
                                    ELSE f[IF x < T.x THEN T.left ELSE T.right][x]]
  <2>1. CASE T = Null
    BY <1>4, <2>1
  <2>2. CASE T # Null
    <3>1. f[T] = [x \in Keys |-> IF x = T.x THEN x
                                 ELSE IF x < T.x THEN f[T.left][x] ELSE f[T.right][x]]
      <4> DEFINE a == f[T.left]
                 b == f[T.right]
      <4> HIDE DEF V, a, b
      <4>1. a \in V /\ b \in V /\ f[T] = step[<<T, a, b>>]
        BY <1>4, <1>5, <2>2 DEF a, b
      <4>2. step[<<T, a, b>>] = [x \in Keys |-> IF x = T.x THEN x
                                  ELSE IF x < T.x THEN a[x] ELSE b[x]]
        BY <1>1, <2>2, <4>1
      <4>3. f[T] = [x \in Keys |-> IF x = T.x THEN x ELSE IF x < T.x THEN a[x] ELSE b[x]]
        BY <4>1, <4>2, Zenon
      <4> QED
        BY <4>3, Zenon DEF a, b
    <3> QED
      BY <2>2, <3>1
  <2> QED
    BY <2>1, <2>2
<1>7. f = [T \in Trees |-> [x \in Keys |-> IF T = Null THEN Unset ELSE IF x = T.x THEN x
                                           ELSE f[IF x < T.x THEN T.left ELSE T.right][x]]]
  <2> HIDE DEF V
  <2> QED
    BY <1>4, <1>6
<1>8. TreeLookup = [T \in Trees |-> [x \in Keys |->
                      IF T = Null THEN Unset ELSE IF x = T.x THEN x
                      ELSE TreeLookup[IF x < T.x THEN T.left ELSE T.right][x]]]
  BY <1>7, Zenon DEF TreeLookup
<1> QED
  BY <1>8, TreeIs

(* The check, as its definition says it.                                   *)
LEMMA TreeCheckIs ==
  ASSUME TreapAssumption
  PROVE  /\ TreeCheck[Null] = TRUE
         /\ \A T \in Trees : T # Null => (TreeCheck[T] <=>
              /\ T.left # Null => T.left.y <= T.y /\ T.left.x < T.x
              /\ T.right # Null => T.right.y <= T.y /\ T.right.x > T.x
              /\ TreeCheck[T.left] /\ TreeCheck[T.right])
<1> DEFINE Above(T) == /\ T.left # Null => T.left.y <= T.y /\ T.left.x < T.x
                       /\ T.right # Null => T.right.y <= T.y /\ T.right.x > T.x
           step == [p \in Trees \X BOOLEAN \X BOOLEAN |-> Above(p[1]) /\ p[2] /\ p[3]]
<1> HIDE DEF Above
<1>1. \A T \in Trees, a \in BOOLEAN, b \in BOOLEAN :
        step[<<T, a, b>>] = (Above(T) /\ a /\ b)
  OBVIOUS
<1>2. step \in [Trees \X BOOLEAN \X BOOLEAN -> BOOLEAN]
  OBVIOUS
<1> HIDE DEF step
<1>3. PICK f : Folds(f, BOOLEAN, TRUE, step)
  BY <1>2, Folded
<1>4. f \in [Trees -> BOOLEAN] /\ f[Null] = TRUE
      /\ \A T \in Trees : T # Null => f[T] = step[<<T, f[T.left], f[T.right]>>]
  BY <1>3 DEF Folds
<1>5. \A T \in Trees : T # Null => f[T.left] \in BOOLEAN /\ f[T.right] \in BOOLEAN
  BY <1>4, TreesBelow
<1>6. \A T \in Trees : f[T] = (T = Null \/ (Above(T) /\ f[T.left] /\ f[T.right]))
  BY <1>1, <1>4, <1>5
<1>7. f = [T \in Trees |-> T = Null \/ (Above(T) /\ f[T.left] /\ f[T.right])]
  BY <1>4, <1>6
<1>8. f = [T \in Trees |->
             T = Null \/
             /\ T.left # Null => T.left.y <= T.y /\ T.left.x < T.x
             /\ T.right # Null => T.right.y <= T.y /\ T.right.x > T.x
             /\ f[T.left] /\ f[T.right]]
  BY <1>7 DEF Above
<1>9. TreeCheck = [T \in Trees |->
             T = Null \/
             /\ T.left # Null => T.left.y <= T.y /\ T.left.x < T.x
             /\ T.right # Null => T.right.y <= T.y /\ T.right.x > T.x
             /\ TreeCheck[T.left] /\ TreeCheck[T.right]]
  BY <1>8, Zenon DEF TreeCheck
<1> QED
  BY <1>9, TreeIs

(* The assertion of the insertion, as its definition says it.              *)
LEMMA MeetsOnPathIs ==
  ASSUME TreapAssumption
  PROVE  \A x \in Keys, y \in Priorities :
           /\ MeetsOnPath[Null][x][y] = FALSE
           /\ \A T \in Trees : T # Null =>
                (MeetsOnPath[T][x][y] <=>
                   y <= T.y /\ (T.x = x \/ MeetsOnPath[IF x < T.x THEN T.left ELSE T.right][x][y]))
<1> DEFINE V == [Keys -> [Priorities -> BOOLEAN]]
           v == [x \in Keys |-> [y \in Priorities |-> FALSE]]
           Built(T, a, b) == [x \in Keys |-> [y \in Priorities |->
             y <= T.y /\ (T.x = x \/ (IF x < T.x THEN a ELSE b)[x][y])]]
           step == [p \in Trees \X V \X V |-> Built(p[1], p[2], p[3])]
<1>1. \A T \in Trees, a \in V, b \in V : step[<<T, a, b>>] = Built(T, a, b)
  <2> HIDE DEF Built, V
  <2> QED
    OBVIOUS
<1>2. step \in [Trees \X V \X V -> V] /\ v \in V
  <2>1. \A T \in Trees, a \in V, b \in V : Built(T, a, b) \in V
    OBVIOUS
  <2>2. v \in V
    OBVIOUS
  <2> HIDE DEF Built, V, v
  <2> QED
    BY <2>1, <2>2
<1> HIDE DEF step
<1>3. PICK f : Folds(f, V, v, step)
  <2> HIDE DEF V, v
  <2> QED
    BY <1>2, Folded
<1>4. f \in [Trees -> V] /\ f[Null] = v
      /\ \A T \in Trees : T # Null => f[T] = step[<<T, f[T.left], f[T.right]>>]
  BY <1>3 DEF Folds
<1>5. \A T \in Trees : T # Null => f[T.left] \in V /\ f[T.right] \in V
  <2> HIDE DEF V
  <2> QED
    BY <1>4, TreesBelow
<1>6. ASSUME NEW T \in Trees
      PROVE  f[T] = [x \in Keys |-> [y \in Priorities |->
                       /\ T # Null /\ y <= T.y
                       /\ T.x = x \/ f[IF x < T.x THEN T.left ELSE T.right][x][y]]]
  <2>1. CASE T = Null
    BY <1>4, <2>1
  <2>2. CASE T # Null
    <3>1. f[T] = Built(T, f[T.left], f[T.right])
      <4> HIDE DEF V, Built
      <4> QED
        BY <1>1, <1>4, <1>5, <2>2
    <3> QED
      BY <2>2, <3>1
  <2> QED
    BY <2>1, <2>2
<1>7. f = [T \in Trees |-> [x \in Keys |-> [y \in Priorities |->
             /\ T # Null /\ y <= T.y
             /\ T.x = x \/ f[IF x < T.x THEN T.left ELSE T.right][x][y]]]]
  <2> HIDE DEF V
  <2> QED
    BY <1>4, <1>6
<1>8. MeetsOnPath = [T \in Trees |-> [x \in Keys |-> [y \in Priorities |->
             /\ T # Null /\ y <= T.y
             /\ T.x = x \/ MeetsOnPath[IF x < T.x THEN T.left ELSE T.right][x][y]]]]
  BY <1>7, Zenon DEF MeetsOnPath
<1>9. ASSUME NEW T \in Trees, NEW x \in Keys, NEW y \in Priorities
      PROVE  MeetsOnPath[T][x][y] =
               (/\ T # Null /\ y <= T.y
                /\ T.x = x \/ MeetsOnPath[IF x < T.x THEN T.left ELSE T.right][x][y])
  <2> DEFINE B(t, u, w) == /\ t # Null /\ w <= t.y
                           /\ t.x = u \/ MeetsOnPath[IF u < t.x THEN t.left ELSE t.right][u][w]
  <2>1. MeetsOnPath = [t \in Trees |-> [u \in Keys |-> [w \in Priorities |-> B(t, u, w)]]]
    BY <1>8, Zenon
  <2> HIDE DEF B
  <2>2. MeetsOnPath[T] = [u \in Keys |-> [w \in Priorities |-> B(T, u, w)]]
    BY <2>1
  <2>3. MeetsOnPath[T][x] = [w \in Priorities |-> B(T, x, w)]
    BY <2>2
  <2>4. MeetsOnPath[T][x][y] = B(T, x, y)
    BY <2>3
  <2> QED
    BY <2>4 DEF B
<1>10. ASSUME NEW x \in Keys, NEW y \in Priorities PROVE MeetsOnPath[Null][x][y] = FALSE
  BY <1>9, TreeIs
<1> QED
  BY <1>9, <1>10

(* A node with another tree below it is a node of the same key.            *)
LEMMA Replaced ==
  ASSUME TreapAssumption, NEW T \in Trees, T # Null, NEW a
  PROVE  /\ [T EXCEPT !.left = a] = Node(T.x, T.y, a, T.right)
         /\ [T EXCEPT !.right = a] = Node(T.x, T.y, T.left, a)
<1>1. Depth \in Nat /\ T \in TreesTo[Depth]
  BY DepthIsNat, TreesAre
<1>2. T = Node(T.x, T.y, T.left, T.right)
  BY <1>1, NodeOf
<1>3. \A b, x, y, l, r :
        /\ [Node(x, y, l, r) EXCEPT !.left = b] = Node(x, y, b, r)
        /\ [Node(x, y, l, r) EXCEPT !.right = b] = Node(x, y, l, b)
  BY DEF Node
<1> DEFINE x == T.x
           y == T.y
           l == T.left
           r == T.right
<1>4. T = Node(x, y, l, r)
  BY <1>2
<1> HIDE DEF x, y, l, r
<1>5. /\ [T EXCEPT !.left = a] = Node(x, y, a, r)
      /\ [T EXCEPT !.right = a] = Node(x, y, l, a)
  BY <1>3, <1>4
<1> QED
  BY <1>5 DEF x, y, l, r

(* A node over two trees of some height is a tree of some height.          *)
LEMMA NodeInAll ==
  ASSUME NEW x \in Keys, NEW y \in Priorities, NEW a \in AllTrees, NEW b \in AllTrees
  PROVE  Node(x, y, a, b) \in AllTrees
<1>1. PICK m \in Nat : a \in TreesTo[m]
  BY DEF AllTrees
<1>2. PICK n \in Nat : b \in TreesTo[n]
  BY DEF AllTrees
<1> DEFINE k == IF m <= n THEN n ELSE m
<1>3. k \in Nat /\ m <= k /\ n <= k
  OBVIOUS
<1> HIDE DEF k
<1>4. a \in TreesTo[k] /\ b \in TreesTo[k]
  BY <1>1, <1>2, <1>3, Higher
<1>5. Node(x, y, a, b) \in TreesTo[k + 1] /\ k + 1 \in Nat
  BY <1>3, <1>4, NodeIn
<1> QED
  BY <1>5 DEF AllTrees

(* The split, as its definition says it.                                   *)
LEMMA TreeSplitIs ==
  ASSUME TreapAssumption
  PROVE  \A x \in Keys :
           /\ TreeSplit[Null][x] = [l |-> Null, r |-> Null]
           /\ \A T \in Trees : T # Null =>
                /\ x < T.x => TreeSplit[T][x] =
                     [l |-> TreeSplit[T.left][x].l,
                      r |-> Node(T.x, T.y, TreeSplit[T.left][x].r, T.right)]
                /\ ~(x < T.x) => TreeSplit[T][x] =
                     [l |-> Node(T.x, T.y, T.left, TreeSplit[T.right][x].l),
                      r |-> TreeSplit[T.right][x].r]
           /\ \A T \in Trees : TreeSplit[T][x].l \in AllTrees /\ TreeSplit[T][x].r \in AllTrees
<1> DEFINE W == [l : AllTrees, r : AllTrees]
           V == [Keys -> W]
           v == [x \in Keys |-> [l |-> Null, r |-> Null]]
           Less(T, s) == [l |-> s.l, r |-> [T EXCEPT !.left = s.r]]
           More(T, s) == [l |-> [T EXCEPT !.right = s.l], r |-> s.r]
           step == [p \in Trees \X V \X V |-> [x \in Keys |->
                      IF p[1] = Null THEN [l |-> Null, r |-> Null]
                      ELSE IF x < p[1].x THEN Less(p[1], p[2][x]) ELSE More(p[1], p[3][x])]]
<1>1. \A T \in Trees, s \in W : T # Null =>
        /\ Less(T, s) = [l |-> s.l, r |-> Node(T.x, T.y, s.r, T.right)]
        /\ More(T, s) = [l |-> Node(T.x, T.y, T.left, s.l), r |-> s.r]
  BY Replaced
<1>2. \A T \in Trees, s \in W : T # Null => Less(T, s) \in W /\ More(T, s) \in W
  <2> TAKE T \in Trees, s \in W
  <2> HAVE T # Null
  <2>1. s.l \in AllTrees /\ s.r \in AllTrees
    OBVIOUS
  <2>2. Node(T.x, T.y, s.r, T.right) \in AllTrees /\ Node(T.x, T.y, T.left, s.l) \in AllTrees
    BY <2>1, TreesBelow, NodeInAll
  <2> HIDE DEF Less, More
  <2> QED
    BY <1>1, <2>1, <2>2
<1>3. [l |-> Null, r |-> Null] \in W
  BY TreeIs
<1> HIDE DEF Less, More, W
<1>4. \A T \in Trees, a \in V, b \in V :
        T # Null => step[<<T, a, b>>] = [x \in Keys |-> IF x < T.x THEN Less(T, a[x])
                                                        ELSE More(T, b[x])]
  OBVIOUS
<1>5. step \in [Trees \X V \X V -> V] /\ v \in V
  BY <1>2, <1>3
<1> HIDE DEF step
<1>6. PICK f : Folds(f, V, v, step)
  <2> HIDE DEF V, v
  <2> QED
    BY <1>5, Folded
<1>7. f \in [Trees -> V] /\ f[Null] = v
      /\ \A T \in Trees : T # Null => f[T] = step[<<T, f[T.left], f[T.right]>>]
  BY <1>6 DEF Folds
<1>8. \A T \in Trees : T # Null => f[T.left] \in V /\ f[T.right] \in V
  <2> HIDE DEF V
  <2> QED
    BY <1>7, TreesBelow
<1>9. ASSUME NEW T \in Trees
      PROVE  f[T] = [x \in Keys |-> IF T = Null THEN [l |-> Null, r |-> Null]
                                    ELSE IF x < T.x THEN Less(T, f[T.left][x])
                                    ELSE More(T, f[T.right][x])]
  <2>1. CASE T = Null
    BY <1>7, <2>1
  <2>2. CASE T # Null
    <3>1. f[T] = [x \in Keys |-> IF x < T.x THEN Less(T, f[T.left][x])
                                 ELSE More(T, f[T.right][x])]
      <4> HIDE DEF V
      <4> QED
        BY <1>4, <1>7, <1>8, <2>2
    <3> QED
      BY <2>2, <3>1
  <2> QED
    BY <2>1, <2>2
<1>10. f = [T \in Trees |-> [x \in Keys |->
              IF T = Null THEN [l |-> Null, r |-> Null]
              ELSE IF x < T.x THEN Less(T, f[T.left][x]) ELSE More(T, f[T.right][x])]]
  <2> HIDE DEF V
  <2> QED
    BY <1>7, <1>9
<1>11. TreeSplit = [T \in Trees |-> [x \in Keys |->
              IF T = Null THEN [l |-> Null, r |-> Null]
              ELSE IF x < T.x THEN Less(T, TreeSplit[T.left][x])
              ELSE More(T, TreeSplit[T.right][x])]]
  BY <1>10, Zenon DEF TreeSplit, Less, More
<1>12. \A T \in Trees : TreeSplit[T] \in V
  <2> DEFINE S == {T \in Trees : TreeSplit[T] \in V}
  <2>1. Null \in S
    BY <1>3, <1>11, TreeIs
  <2>2. ASSUME NEW T \in Trees, T # Null, T.left \in S, T.right \in S PROVE T \in S
    BY <1>2, <1>11, <2>2
  <2> HIDE DEF S
  <2>3. \A T \in Trees : T \in S
    BY <2>1, <2>2, DepthIsNat, TreeInduction, TreesAre
  <2> QED
    BY <2>3 DEF S
<1>13. ASSUME NEW x \in Keys, NEW T \in Trees, T # Null
       PROVE  /\ x < T.x => TreeSplit[T][x] =
                     [l |-> TreeSplit[T.left][x].l,
                      r |-> Node(T.x, T.y, TreeSplit[T.left][x].r, T.right)]
              /\ ~(x < T.x) => TreeSplit[T][x] =
                     [l |-> Node(T.x, T.y, T.left, TreeSplit[T.right][x].l),
                      r |-> TreeSplit[T.right][x].r]
  <2>1. TreeSplit[T.left][x] \in W /\ TreeSplit[T.right][x] \in W
    BY <1>12, <1>13, TreesBelow
  <2>2. TreeSplit[T][x] = IF x < T.x THEN Less(T, TreeSplit[T.left][x])
                          ELSE More(T, TreeSplit[T.right][x])
    BY <1>11, <1>13
  <2> QED
    BY <1>1, <1>13, <2>1, <2>2
<1>14. ASSUME NEW x \in Keys PROVE TreeSplit[Null][x] = [l |-> Null, r |-> Null]
  BY <1>11, TreeIs
<1>15. ASSUME NEW x \in Keys, NEW T \in Trees
       PROVE  TreeSplit[T][x].l \in AllTrees /\ TreeSplit[T][x].r \in AllTrees
  <2>1. TreeSplit[T][x] \in W
    BY <1>12
  <2> QED
    BY <2>1 DEF W
<1> QED
  BY <1>13, <1>14, <1>15

(* The insertion, as its definition says it.                               *)
LEMMA TreeInsertIs ==
  ASSUME TreapAssumption
  PROVE  \A x \in Keys, y \in Priorities :
           /\ TreeInsert[Null][x][y] = Node(x, y, Null, Null)
           /\ \A T \in Trees : T # Null =>
                /\ y > T.y => TreeInsert[T][x][y] =
                     Node(x, y, TreeSplit[T][x].l, TreeSplit[T][x].r)
                /\ ~(y > T.y) /\ x < T.x => TreeInsert[T][x][y] =
                     Node(T.x, T.y, TreeInsert[T.left][x][y], T.right)
                /\ ~(y > T.y) /\ ~(x < T.x) => TreeInsert[T][x][y] =
                     Node(T.x, T.y, T.left, TreeInsert[T.right][x][y])
<1> DEFINE V == [Keys -> [Priorities -> AllTrees]]
           v == [x \in Keys |-> [y \in Priorities |-> Node(x, y, Null, Null)]]
           Here(T, x, y) == LET s == TreeSplit[T][x] IN Node(x, y, s.l, s.r)
           Less(T, a) == [T EXCEPT !.left = a]
           More(T, a) == [T EXCEPT !.right = a]
           Built(T, a, b) == [x \in Keys |-> [y \in Priorities |->
                      IF T = Null THEN Node(x, y, Null, Null)
                      ELSE IF y > T.y THEN Here(T, x, y)
                      ELSE IF x < T.x THEN Less(T, a[x][y]) ELSE More(T, b[x][y])]]
           step == [p \in Trees \X V \X V |-> Built(p[1], p[2], p[3])]
<1>1. \A T \in Trees, a \in AllTrees : T # Null =>
        Less(T, a) = Node(T.x, T.y, a, T.right) /\ More(T, a) = Node(T.x, T.y, T.left, a)
  BY Replaced
<1>2. \A T \in Trees, a \in AllTrees : T # Null => Less(T, a) \in AllTrees /\ More(T, a) \in AllTrees
  <2> HIDE DEF Less, More
  <2> QED
    BY <1>1, TreesBelow, NodeInAll
<1>3. \A T \in Trees, x \in Keys, y \in Priorities :
        Here(T, x, y) = Node(x, y, TreeSplit[T][x].l, TreeSplit[T][x].r)
  OBVIOUS
<1>0. \A T \in Trees, x \in Keys, y \in Priorities : Here(T, x, y) \in AllTrees
  <2> HIDE DEF Here
  <2> QED
    BY <1>3, TreeSplitIs, NodeInAll
<1> HIDE DEF Less, More, Here
<1>4. \A T \in Trees, a \in V, b \in V : step[<<T, a, b>>] = Built(T, a, b)
  <2> HIDE DEF Built, V
  <2> QED
    OBVIOUS
<1>5. \A x \in Keys, y \in Priorities : Node(x, y, Null, Null) \in AllTrees
  BY TreeIs, NodeInAll
<1>6. v \in V
  BY <1>5
<1>7. step \in [Trees \X V \X V -> V]
  <2>1. ASSUME NEW T \in Trees, NEW a \in V, NEW b \in V PROVE Built(T, a, b) \in V
    <3>1. ASSUME NEW x \in Keys, NEW y \in Priorities
          PROVE  (IF T = Null THEN Node(x, y, Null, Null)
                  ELSE IF y > T.y THEN Here(T, x, y)
                  ELSE IF x < T.x THEN Less(T, a[x][y]) ELSE More(T, b[x][y])) \in AllTrees
      <4>1. a[x][y] \in AllTrees /\ b[x][y] \in AllTrees
        OBVIOUS
      <4> QED
        BY <1>0, <1>2, <1>5, <4>1
    <3> QED
      BY <3>1
  <2> HIDE DEF Built, V
  <2> QED
    BY <2>1
<1> HIDE DEF step
<1>8. PICK f : Folds(f, V, v, step)
  <2> HIDE DEF V, v
  <2> QED
    BY <1>6, <1>7, Folded
<1>9. f \in [Trees -> V] /\ f[Null] = v
      /\ \A T \in Trees : T # Null => f[T] = step[<<T, f[T.left], f[T.right]>>]
  BY <1>8 DEF Folds
<1>10. \A T \in Trees : T # Null => f[T.left] \in V /\ f[T.right] \in V
  <2> HIDE DEF V
  <2> QED
    BY <1>9, TreesBelow
<1>11. ASSUME NEW T \in Trees PROVE f[T] = Built(T, f[T.left], f[T.right])
  <2>1. CASE T = Null
    BY <1>9, <2>1
  <2>2. CASE T # Null
    <3> HIDE DEF V, Built
    <3> QED
      BY <1>4, <1>9, <1>10, <2>2
  <2> QED
    BY <2>1, <2>2
<1>12. f = [T \in Trees |-> Built(T, f[T.left], f[T.right])]
  <2> HIDE DEF V, Built
  <2> QED
    BY <1>9, <1>11
<1>13. TreeInsert = [T \in Trees |-> Built(T, TreeInsert[T.left], TreeInsert[T.right])]
  BY <1>12, Zenon DEF TreeInsert, Less, More, Here
<1>14. ASSUME NEW T \in Trees, NEW x \in Keys, NEW y \in Priorities
       PROVE  TreeInsert[T][x][y] =
                IF T = Null THEN Node(x, y, Null, Null)
                ELSE IF y > T.y THEN Here(T, x, y)
                ELSE IF x < T.x THEN Less(T, TreeInsert[T.left][x][y])
                ELSE More(T, TreeInsert[T.right][x][y])
  <2>1. TreeInsert[T] = Built(T, TreeInsert[T.left], TreeInsert[T.right])
    <3> HIDE DEF Built
    <3> QED
      BY <1>13
  <2> QED
    BY <2>1
<1>15. \A T \in Trees : \A x \in Keys, y \in Priorities : TreeInsert[T][x][y] \in AllTrees
  <2> DEFINE S == {T \in Trees : \A x \in Keys, y \in Priorities : TreeInsert[T][x][y] \in AllTrees}
  <2>1. Null \in S
    BY <1>5, <1>14, TreeIs
  <2>2. ASSUME NEW T \in Trees, T # Null, T.left \in S, T.right \in S PROVE T \in S
    BY <1>0, <1>2, <1>14, <2>2
  <2> HIDE DEF S
  <2>3. \A T \in Trees : T \in S
    BY <2>1, <2>2, DepthIsNat, TreeInduction, TreesAre
  <2> QED
    BY <2>3 DEF S
<1>16. ASSUME NEW x \in Keys, NEW y \in Priorities, NEW T \in Trees, T # Null
       PROVE  /\ y > T.y => TreeInsert[T][x][y] =
                   Node(x, y, TreeSplit[T][x].l, TreeSplit[T][x].r)
              /\ ~(y > T.y) /\ x < T.x => TreeInsert[T][x][y] =
                   Node(T.x, T.y, TreeInsert[T.left][x][y], T.right)
              /\ ~(y > T.y) /\ ~(x < T.x) => TreeInsert[T][x][y] =
                   Node(T.x, T.y, T.left, TreeInsert[T.right][x][y])
  <2>1. TreeInsert[T.left][x][y] \in AllTrees /\ TreeInsert[T.right][x][y] \in AllTrees
    BY <1>15, <1>16, TreesBelow
  <2> QED
    BY <1>1, <1>3, <1>14, <1>16, <2>1
<1>17. ASSUME NEW x \in Keys, NEW y \in Priorities
       PROVE  TreeInsert[Null][x][y] = Node(x, y, Null, Null)
  BY <1>14, TreeIs
<1> QED
  BY <1>16, <1>17

(* The merge, as its definition says it.                                   *)
LEMMA TreeMergeIs ==
  ASSUME TreapAssumption
  PROVE  \A L \in Trees, R \in Trees :
           /\ L = Null => TreeMerge[<<L, R>>] = R
           /\ L # Null /\ R = Null => TreeMerge[<<L, R>>] = L
           /\ L # Null /\ R # Null /\ L.y > R.y =>
                TreeMerge[<<L, R>>] = Node(L.x, L.y, L.left, TreeMerge[<<L.right, R>>])
           /\ L # Null /\ R # Null /\ ~(L.y > R.y) =>
                TreeMerge[<<L, R>>] = Node(R.x, R.y, TreeMerge[<<L, R.left>>], R.right)
<1> DEFINE D == Trees \X Trees
           Joined(L, R, f) ==
             IF L = Null THEN R ELSE IF R = Null THEN L
             ELSE IF L.y > R.y THEN [L EXCEPT !.right = f[<<L.right, R>>]]
             ELSE [R EXCEPT !.left = f[<<L, R.left>>]]
           rank == [p \in D |-> Height(p[1]) + Height(p[2])]
           step == [p \in D \X [D -> AllTrees] |-> Joined(p[1][1], p[1][2], p[2])]
<1>1. \A L \in Trees, R \in Trees : <<L, R>> \in D
  OBVIOUS
<1>2. \A p \in D : p[1] \in Trees /\ p[2] \in Trees /\ p = <<p[1], p[2]>>
  OBVIOUS
<1>3. rank \in [D -> Nat] /\ \A L \in Trees, R \in Trees : rank[<<L, R>>] = Height(L) + Height(R)
  BY TreeIs
<1>4. ASSUME NEW L \in Trees, NEW R \in Trees, NEW f, L = Null
      PROVE  Joined(L, R, f) = R
  BY <1>4
<1>5. ASSUME NEW L \in Trees, NEW R \in Trees, NEW f, L # Null, R = Null
      PROVE  Joined(L, R, f) = L
  BY <1>5
<1>6. ASSUME NEW L \in Trees, NEW R \in Trees, NEW f, L # Null, R # Null, L.y > R.y
      PROVE  Joined(L, R, f) = Node(L.x, L.y, L.left, f[<<L.right, R>>])
  BY <1>6, Replaced
<1>7. ASSUME NEW L \in Trees, NEW R \in Trees, NEW f, L # Null, R # Null, ~(L.y > R.y)
      PROVE  Joined(L, R, f) = Node(R.x, R.y, f[<<L, R.left>>], R.right)
  BY <1>7, Replaced
<1> HIDE DEF Joined
<1>8. ASSUME NEW p \in D, NEW f \in [D -> AllTrees]
      PROVE  Joined(p[1], p[2], f) \in AllTrees
  <2> DEFINE L == p[1]
             R == p[2]
  <2> SUFFICES Joined(L, R, f) \in AllTrees
    OBVIOUS
  <2>1. L \in Trees /\ R \in Trees /\ L \in AllTrees /\ R \in AllTrees
    BY <1>2, TreeIs
  <2> HIDE DEF L, R
  <2>2. CASE L = Null \/ R = Null
    BY <1>4, <1>5, <1>6, <1>7, <2>1, <2>2
  <2>3. CASE L # Null /\ R # Null
    <3>1. f[<<L.right, R>>] \in AllTrees /\ f[<<L, R.left>>] \in AllTrees
      <4> HIDE DEF D
      <4> QED
        BY <1>1, <2>1, <2>3, TreesBelow
    <3>2. /\ Node(L.x, L.y, L.left, f[<<L.right, R>>]) \in AllTrees
          /\ Node(R.x, R.y, f[<<L, R.left>>], R.right) \in AllTrees
      BY <2>1, <2>3, <3>1, TreesBelow, NodeInAll
    <3> QED
      BY <1>4, <1>5, <1>6, <1>7, <2>1, <2>3, <3>2
  <2> QED
    BY <2>2, <2>3
<1>9. step \in [D \X [D -> AllTrees] -> AllTrees]
  <2> HIDE DEF D
  <2> QED
    BY <1>8
<1>10. \A p \in D, f \in [D -> AllTrees] : step[<<p, f>>] = Joined(p[1], p[2], f)
  <2> HIDE DEF D
  <2> QED
    OBVIOUS
<1> HIDE DEF rank, step
<1>11. Looks(D, AllTrees, rank, step)
  <2> SUFFICES ASSUME NEW p \in D, NEW f \in [D -> AllTrees], NEW g \in [D -> AllTrees],
                      \A e \in D : rank[e] < rank[p] => f[e] = g[e]
               PROVE  step[<<p, f>>] = step[<<p, g>>]
    <3> HIDE DEF D
    <3> QED
      BY DEF Looks
  <2> DEFINE L == p[1]
             R == p[2]
  <2>1. L \in Trees /\ R \in Trees /\ p = <<L, R>>
    BY <1>2
  <2>2. step[<<p, f>>] = Joined(L, R, f) /\ step[<<p, g>>] = Joined(L, R, g)
    BY <1>10
  <2> HIDE DEF L, R
  <2>3. CASE L = Null \/ R = Null
    BY <1>4, <1>5, <1>6, <1>7, <2>1, <2>2, <2>3
  <2>4. CASE L # Null /\ R # Null
    <3>1. /\ L.right \in Trees /\ R.left \in Trees
          /\ Height(L.right) < Height(L) /\ Height(R.left) < Height(R)
      BY <2>1, <2>4, TreesBelow
    <3>2. /\ <<L.right, R>> \in D /\ <<L, R.left>> \in D
          /\ rank[<<L.right, R>>] = Height(L.right) + Height(R)
          /\ rank[<<L, R.left>>] = Height(L) + Height(R.left)
          /\ rank[p] = Height(L) + Height(R)
      <4> HIDE DEF D
      <4> QED
        BY <1>1, <1>3, <2>1, <3>1
    <3>3. /\ Height(L) \in Nat /\ Height(R) \in Nat
          /\ Height(L.right) \in Nat /\ Height(R.left) \in Nat
      BY <2>1, <3>1, TreeIs
    <3>4. rank[<<L.right, R>>] < rank[p] /\ rank[<<L, R.left>>] < rank[p]
      BY <3>1, <3>2, <3>3
    <3>5. f[<<L.right, R>>] = g[<<L.right, R>>] /\ f[<<L, R.left>>] = g[<<L, R.left>>]
      <4> HIDE DEF D
      <4> QED
        BY <3>2, <3>4
    <3>6. CASE L.y > R.y
      <4>1. /\ Joined(L, R, f) = Node(L.x, L.y, L.left, f[<<L.right, R>>])
            /\ Joined(L, R, g) = Node(L.x, L.y, L.left, g[<<L.right, R>>])
        BY <1>6, <2>1, <2>4, <3>6
      <4> QED
        BY <2>2, <3>5, <4>1
    <3>7. CASE ~(L.y > R.y)
      <4>1. /\ Joined(L, R, f) = Node(R.x, R.y, f[<<L, R.left>>], R.right)
            /\ Joined(L, R, g) = Node(R.x, R.y, g[<<L, R.left>>], R.right)
        BY <1>7, <2>1, <2>4, <3>7
      <4> QED
        BY <2>2, <3>5, <4>1
    <3> QED
      BY <3>6, <3>7
  <2> QED
    BY <2>3, <2>4
<1>12. PICK f : Solves(f, D, AllTrees, step)
  <2>1. Stepping(D, AllTrees, rank, step)
    <3> HIDE DEF D
    <3> QED
      BY <1>3, <1>9, <1>11 DEF Stepping
  <2>2. Null \in AllTrees
    BY TreeIs
  <2> HIDE DEF D
  <2> QED
    BY <2>1, <2>2, Solved
<1>13. f = [p \in D |-> Joined(p[1], p[2], f)]
  <2>1. f \in [D -> AllTrees] /\ \A p \in D : f[p] = step[<<p, f>>]
    BY <1>12 DEF Solves
  <2> HIDE DEF D
  <2> QED
    BY <1>10, <2>1
<1>14. TreeMerge = [p \in D |-> Joined(p[1], p[2], TreeMerge)]
  BY <1>13, Zenon DEF TreeMerge, Joined, OnTop
<1>15. ASSUME NEW L \in Trees, NEW R \in Trees
       PROVE  TreeMerge[<<L, R>>] = Joined(L, R, TreeMerge)
  BY <1>14
<1>16. ASSUME NEW L \in Trees, NEW R \in Trees, L = Null PROVE TreeMerge[<<L, R>>] = R
  BY <1>4, <1>15, <1>16
<1>17. ASSUME NEW L \in Trees, NEW R \in Trees, L # Null, R = Null
       PROVE  TreeMerge[<<L, R>>] = L
  BY <1>5, <1>15, <1>17
<1>18. ASSUME NEW L \in Trees, NEW R \in Trees, L # Null, R # Null, L.y > R.y
       PROVE  TreeMerge[<<L, R>>] = Node(L.x, L.y, L.left, TreeMerge[<<L.right, R>>])
  BY <1>6, <1>15, <1>18
<1>19. ASSUME NEW L \in Trees, NEW R \in Trees, L # Null, R # Null, ~(L.y > R.y)
       PROVE  TreeMerge[<<L, R>>] = Node(R.x, R.y, TreeMerge[<<L, R.left>>], R.right)
  BY <1>7, <1>15, <1>19
<1> QED
  BY <1>16, <1>17, <1>18, <1>19
-----------------------------------------------------------------------------
(* Merging                                                                 *)

(* Induction over the pairs that a merge goes through.                     *)
LEMMA MergeInduction ==
  ASSUME TreapAssumption, NEW S,
         \A L, R \in Trees : L = Null \/ R = Null => <<L, R>> \in S,
         \A L, R \in Trees : L # Null /\ R # Null /\ <<L.right, R>> \in S /\ <<L, R.left>> \in S
                             => <<L, R>> \in S
  PROVE  \A L, R \in Trees : <<L, R>> \in S
<1> DEFINE P == {L \in Trees : \A R \in Trees : <<L, R>> \in S}
<1>0. Null \in Trees /\ Depth \in Nat
  BY TreeIs, DepthIsNat
<1>1. Null \in P
  BY <1>0
<1>2. ASSUME NEW L \in Trees, L # Null, L.left \in P, L.right \in P PROVE L \in P
  <2> DEFINE Q == {R \in Trees : <<L, R>> \in S}
  <2>1. Null \in Q
    BY <1>0
  <2>2. ASSUME NEW R \in Trees, R # Null, R.left \in Q, R.right \in Q PROVE R \in Q
    BY <1>2, <2>2
  <2> HIDE DEF Q
  <2>3. \A R \in Trees : R \in Q
    BY <1>0, <2>1, <2>2, TreeInduction, TreesAre
  <2> QED
    BY <2>3 DEF Q
<1> HIDE DEF P
<1>3. \A L \in Trees : L \in P
  BY <1>0, <1>1, <1>2, TreeInduction, TreesAre
<1> QED
  BY <1>3 DEF P

(* What is merged is no higher than its two trees together.                *)
LEMMA MergeIn ==
  ASSUME TreapAssumption, NEW L \in Trees, NEW R \in Trees, NEW m \in Nat, NEW n \in Nat,
         L \in TreesTo[m], R \in TreesTo[n]
  PROVE  TreeMerge[<<L, R>>] \in TreesTo[m + n]
<1> DEFINE S == {p \in Trees \X Trees : \A i, j \in Nat :
                   p[1] \in TreesTo[i] /\ p[2] \in TreesTo[j] => TreeMerge[p] \in TreesTo[i + j]}
<1>1. ASSUME NEW A \in Trees, NEW B \in Trees
      PROVE  <<A, B>> \in S <=> \A i, j \in Nat : A \in TreesTo[i] /\ B \in TreesTo[j]
                                                  => TreeMerge[<<A, B>>] \in TreesTo[i + j]
  OBVIOUS
<1> HIDE DEF S
<1>2. ASSUME NEW A \in Trees, NEW B \in Trees, A = Null \/ B = Null PROVE <<A, B>> \in S
  <2>1. ASSUME NEW i \in Nat, NEW j \in Nat, A \in TreesTo[i], B \in TreesTo[j]
        PROVE  TreeMerge[<<A, B>>] \in TreesTo[i + j]
    <3>1. TreeMerge[<<A, B>>] \in {A, B}
      BY <1>2, TreeMergeIs
    <3>2. i + j \in Nat /\ i <= i + j /\ j <= i + j
      OBVIOUS
    <3>3. A \in TreesTo[i + j] /\ B \in TreesTo[i + j]
      BY <2>1, <3>2, Higher
    <3> QED
      BY <3>1, <3>3
  <2> QED
    BY <1>1, <2>1
<1>3. ASSUME NEW A \in Trees, NEW B \in Trees, A # Null, B # Null,
             <<A.right, B>> \in S, <<A, B.left>> \in S
      PROVE  <<A, B>> \in S
  <2>1. ASSUME NEW i \in Nat, NEW j \in Nat, A \in TreesTo[i], B \in TreesTo[j]
        PROVE  TreeMerge[<<A, B>>] \in TreesTo[i + j]
    <3>1. /\ i - 1 \in Nat /\ A.x \in Keys /\ A.y \in Priorities
          /\ A.left \in TreesTo[i - 1] /\ A.right \in TreesTo[i - 1]
      BY <1>3, <2>1, NodeOf
    <3>2. /\ j - 1 \in Nat /\ B.x \in Keys /\ B.y \in Priorities
          /\ B.left \in TreesTo[j - 1] /\ B.right \in TreesTo[j - 1]
      BY <1>3, <2>1, NodeOf
    <3>3. A.right \in Trees /\ B.left \in Trees
      BY <1>3, TreesBelow
    <3> DEFINE k == i + j - 1
    <3>4. k \in Nat /\ k + 1 = i + j /\ (i - 1) + j = k /\ i + (j - 1) = k
          /\ i - 1 <= k /\ j - 1 <= k
      BY <3>1, <3>2
    <3> HIDE DEF k
    <3>5. CASE A.y > B.y
      <4>1. TreeMerge[<<A.right, B>>] \in TreesTo[k]
        BY <1>1, <1>3, <2>1, <3>1, <3>3, <3>4
      <4>2. A.left \in TreesTo[k]
        BY <3>1, <3>4, Higher
      <4>3. TreeMerge[<<A, B>>] = Node(A.x, A.y, A.left, TreeMerge[<<A.right, B>>])
        BY <1>3, <3>5, TreeMergeIs
      <4> QED
        BY <3>1, <3>4, <4>1, <4>2, <4>3, NodeIn
    <3>6. CASE ~(A.y > B.y)
      <4>1. TreeMerge[<<A, B.left>>] \in TreesTo[k]
        BY <1>1, <1>3, <2>1, <3>2, <3>3, <3>4
      <4>2. B.right \in TreesTo[k]
        BY <3>2, <3>4, Higher
      <4>3. TreeMerge[<<A, B>>] = Node(B.x, B.y, TreeMerge[<<A, B.left>>], B.right)
        BY <1>3, <3>6, TreeMergeIs
      <4> QED
        BY <3>2, <3>4, <4>1, <4>2, <4>3, NodeIn
    <3> QED
      BY <3>5, <3>6
  <2> QED
    BY <1>1, <2>1
<1>4. <<L, R>> \in S
  BY <1>2, <1>3, MergeInduction
<1> QED
  BY <1>1, <1>4

(* The deletion, as its definition says it.                                *)
LEMMA TreeDeleteIs ==
  ASSUME TreapAssumption
  PROVE  \A x \in Keys : \A T \in Trees : T # Null =>
           /\ x = T.x => TreeDelete[T][x] = TreeMerge[<<T.left, T.right>>]
           /\ x < T.x => TreeDelete[T][x] = Node(T.x, T.y, TreeDelete[T.left][x], T.right)
           /\ x # T.x /\ ~(x < T.x) =>
                TreeDelete[T][x] = Node(T.x, T.y, T.left, TreeDelete[T.right][x])
<1> DEFINE V == [Keys -> AllTrees]
           v == [x \in Keys |-> Null]
           Here(T) == TreeMerge[<<T.left, T.right>>]
           Less(T, a) == [T EXCEPT !.left = a]
           More(T, a) == [T EXCEPT !.right = a]
           Built(T, a, b) == [x \in Keys |->
             IF T = Null THEN Null ELSE IF x = T.x THEN Here(T)
             ELSE IF x < T.x THEN Less(T, a[x]) ELSE More(T, b[x])]
           step == [p \in Trees \X V \X V |-> Built(p[1], p[2], p[3])]
<1>1. ASSUME NEW T \in Trees, NEW a, T # Null
      PROVE  Less(T, a) = Node(T.x, T.y, a, T.right) /\ More(T, a) = Node(T.x, T.y, T.left, a)
  BY <1>1, Replaced
<1>2. ASSUME NEW T \in Trees, NEW a \in AllTrees, T # Null
      PROVE  Less(T, a) \in AllTrees /\ More(T, a) \in AllTrees
  <2> HIDE DEF Less, More
  <2> QED
    BY <1>1, <1>2, TreesBelow, NodeInAll
<1>3. ASSUME NEW T \in Trees, T # Null PROVE Here(T) \in AllTrees
  <2>1. T.left \in Trees /\ T.right \in Trees /\ T.left \in AllTrees /\ T.right \in AllTrees
    BY <1>3, TreesBelow
  <2>2. PICK m \in Nat : T.left \in TreesTo[m]
    BY <2>1 DEF AllTrees
  <2>3. PICK n \in Nat : T.right \in TreesTo[n]
    BY <2>1 DEF AllTrees
  <2>4. TreeMerge[<<T.left, T.right>>] \in TreesTo[m + n] /\ m + n \in Nat
    BY <2>1, <2>2, <2>3, MergeIn
  <2> QED
    BY <2>4 DEF AllTrees
<1> HIDE DEF Less, More, Here
<1>4. \A T \in Trees, a \in V, b \in V : step[<<T, a, b>>] = Built(T, a, b)
  <2> HIDE DEF Built, V
  <2> QED
    OBVIOUS
<1>5. v \in V
  BY TreeIs
<1>6. step \in [Trees \X V \X V -> V]
  <2>1. ASSUME NEW T \in Trees, NEW a \in V, NEW b \in V PROVE Built(T, a, b) \in V
    <3>1. ASSUME NEW x \in Keys
          PROVE  (IF T = Null THEN Null ELSE IF x = T.x THEN Here(T)
                  ELSE IF x < T.x THEN Less(T, a[x]) ELSE More(T, b[x])) \in AllTrees
      <4>1. a[x] \in AllTrees /\ b[x] \in AllTrees /\ Null \in AllTrees
        BY TreeIs
      <4> QED
        BY <1>2, <1>3, <4>1
    <3> QED
      BY <3>1
  <2> HIDE DEF Built, V
  <2> QED
    BY <2>1
<1> HIDE DEF step
<1>7. PICK f : Folds(f, V, v, step)
  <2> HIDE DEF V, v
  <2> QED
    BY <1>5, <1>6, Folded
<1>8. f \in [Trees -> V] /\ f[Null] = v
      /\ \A T \in Trees : T # Null => f[T] = step[<<T, f[T.left], f[T.right]>>]
  BY <1>7 DEF Folds
<1>9. \A T \in Trees : T # Null => f[T.left] \in V /\ f[T.right] \in V
  <2> HIDE DEF V
  <2> QED
    BY <1>8, TreesBelow
<1>10. ASSUME NEW T \in Trees PROVE f[T] = Built(T, f[T.left], f[T.right])
  <2>1. CASE T = Null
    BY <1>8, <2>1
  <2>2. CASE T # Null
    <3> HIDE DEF V, Built
    <3> QED
      BY <1>4, <1>8, <1>9, <2>2
  <2> QED
    BY <2>1, <2>2
<1>11. f = [T \in Trees |-> Built(T, f[T.left], f[T.right])]
  <2> HIDE DEF V, Built
  <2> QED
    BY <1>8, <1>10
<1>12. TreeDelete = [T \in Trees |-> Built(T, TreeDelete[T.left], TreeDelete[T.right])]
  BY <1>11, Zenon DEF TreeDelete, Less, More, Here
<1>13. ASSUME NEW T \in Trees, NEW x \in Keys, T # Null
       PROVE  TreeDelete[T][x] =
                IF x = T.x THEN Here(T) ELSE IF x < T.x THEN Less(T, TreeDelete[T.left][x])
                ELSE More(T, TreeDelete[T.right][x])
  <2>1. TreeDelete[T] = Built(T, TreeDelete[T.left], TreeDelete[T.right])
    <3> HIDE DEF Built
    <3> QED
      BY <1>12
  <2> QED
    BY <1>13, <2>1
<1>14. ASSUME NEW x \in Keys, NEW T \in Trees, T # Null, x = T.x
       PROVE  TreeDelete[T][x] = TreeMerge[<<T.left, T.right>>]
  BY <1>13, <1>14 DEF Here
<1>15. ASSUME NEW x \in Keys, NEW T \in Trees, T # Null, x < T.x
       PROVE  TreeDelete[T][x] = Node(T.x, T.y, TreeDelete[T.left][x], T.right)
  <2>1. x # T.x
    <3>1. x \in Nat /\ T.x \in Nat
      BY <1>15, TreesBelow DEF TreapAssumption
    <3> QED
      BY <1>15, <3>1
  <2> QED
    BY <1>1, <1>13, <1>15, <2>1
<1>16. ASSUME NEW x \in Keys, NEW T \in Trees, T # Null, x # T.x, ~(x < T.x)
       PROVE  TreeDelete[T][x] = Node(T.x, T.y, T.left, TreeDelete[T.right][x])
  BY <1>1, <1>13, <1>16
<1> QED
  BY <1>14, <1>15, <1>16
-----------------------------------------------------------------------------
(* The keys of a tree, in order                                            *)

(* What is in a sequence, and that its numbers go up.                      *)
Elements(s) == {s[k] : k \in DOMAIN s}
Increasing(s) == \A j, k \in DOMAIN s : j < k => s[j] < s[k]

(* Two sequences in a row: what is in them, and when they go up.           *)
LEMMA Joined ==
  ASSUME NEW a \in Seq(Nat), NEW b \in Seq(Nat)
  PROVE  /\ Elements(a \o b) = Elements(a) \cup Elements(b)
         /\ Increasing(a \o b) <=>
              /\ Increasing(a) /\ Increasing(b)
              /\ \A u \in Elements(a), w \in Elements(b) : u < w
<1> DEFINE m == Len(a)
           n == Len(b)
           c == a \o b
<1>1. m \in Nat /\ DOMAIN a = 1..m /\ n \in Nat /\ DOMAIN b = 1..n
  OBVIOUS
<1>2. /\ DOMAIN c = 1..(m + n)
      /\ \A i \in 1..(m + n) : c[i] = IF i <= m THEN a[i] ELSE b[i - m]
  <2>1. c \in Seq(Nat) /\ Len(c) = m + n
        /\ \A i \in 1..(m + n) : c[i] = IF i <= m THEN a[i] ELSE b[i - m]
    BY ConcatProperties
  <2> QED
    BY <2>1
<1>3. (\A i \in 1..m : a[i] \in Nat) /\ (\A i \in 1..n : b[i] \in Nat)
  BY <1>1, ElementOfSeq
<1> HIDE DEF m, n, c
<1>4. \A i \in 1..m : i \in 1..(m + n) /\ c[i] = a[i]
  BY <1>1, <1>2
<1>5. \A i \in 1..n : i + m \in 1..(m + n) /\ c[i + m] = b[i]
  <2> TAKE i \in 1..n
  <2>1. i + m \in 1..(m + n) /\ ~(i + m <= m) /\ (i + m) - m = i
    BY <1>1
  <2> QED
    BY <1>2, <2>1
<1>6. \A i \in 1..(m + n) : i \in 1..m \/ (i - m \in 1..n /\ i = (i - m) + m)
  BY <1>1
<1>7. Elements(c) = Elements(a) \cup Elements(b)
  <2>1. ASSUME NEW u \in Elements(c) PROVE u \in Elements(a) \cup Elements(b)
    <3>1. PICK i \in 1..(m + n) : u = c[i]
      BY <1>2 DEF Elements
    <3>2. CASE i \in 1..m
      BY <1>1, <1>4, <3>1, <3>2 DEF Elements
    <3>3. CASE i - m \in 1..n /\ i = (i - m) + m
      <4>1. u = b[i - m]
        BY <1>5, <3>1, <3>3
      <4> QED
        BY <1>1, <3>3, <4>1 DEF Elements
    <3> QED
      BY <1>6, <3>2, <3>3
  <2>2. ASSUME NEW u \in Elements(a) PROVE u \in Elements(c)
    BY <1>1, <1>2, <1>4 DEF Elements
  <2>3. ASSUME NEW u \in Elements(b) PROVE u \in Elements(c)
    <3>1. PICK i \in 1..n : u = b[i]
      BY <1>1 DEF Elements
    <3>2. i + m \in DOMAIN c /\ u = c[i + m]
      BY <1>2, <1>5, <3>1
    <3> QED
      BY <3>2 DEF Elements
  <2> QED
    BY <2>1, <2>2, <2>3
<1>8. ASSUME Increasing(c)
      PROVE  /\ Increasing(a) /\ Increasing(b)
             /\ \A u \in Elements(a), w \in Elements(b) : u < w
  <2>1. Increasing(a)
    BY <1>1, <1>2, <1>4, <1>8 DEF Increasing
  <2>2. Increasing(b)
    <3> SUFFICES ASSUME NEW j \in 1..n, NEW k \in 1..n, j < k PROVE b[j] < b[k]
      BY <1>1 DEF Increasing
    <3>1. j + m < k + m /\ j + m \in 1..(m + n) /\ k + m \in 1..(m + n)
      BY <1>1
    <3>2. c[j + m] < c[k + m]
      BY <1>2, <1>8, <3>1 DEF Increasing
    <3> QED
      BY <1>5, <3>2
  <2>3. ASSUME NEW u \in Elements(a), NEW w \in Elements(b) PROVE u < w
    <3>1. PICK j \in 1..m : u = a[j]
      BY <1>1 DEF Elements
    <3>2. PICK k \in 1..n : w = b[k]
      BY <1>1 DEF Elements
    <3>3. j < k + m /\ j \in 1..(m + n) /\ k + m \in 1..(m + n)
      BY <1>1
    <3>4. c[j] < c[k + m]
      BY <1>2, <1>8, <3>3 DEF Increasing
    <3> QED
      BY <1>4, <1>5, <3>1, <3>2, <3>4
  <2> QED
    BY <2>1, <2>2, <2>3
<1>9. ASSUME Increasing(a), Increasing(b), \A u \in Elements(a), w \in Elements(b) : u < w
      PROVE  Increasing(c)
  <2> SUFFICES ASSUME NEW j \in 1..(m + n), NEW k \in 1..(m + n), j < k PROVE c[j] < c[k]
    BY <1>2 DEF Increasing
  <2>1. CASE j \in 1..m /\ k \in 1..m
    <3>1. a[j] < a[k]
      BY <1>1, <1>9, <2>1 DEF Increasing
    <3> QED
      BY <1>4, <2>1, <3>1
  <2>2. CASE j \in 1..m /\ k - m \in 1..n /\ k = (k - m) + m
    <3>1. a[j] \in Elements(a) /\ b[k - m] \in Elements(b)
      BY <1>1, <2>2 DEF Elements
    <3>2. c[j] = a[j] /\ c[k] = b[k - m]
      BY <1>4, <1>5, <2>2
    <3> QED
      BY <1>9, <3>1, <3>2
  <2>3. CASE j - m \in 1..n /\ j = (j - m) + m /\ k - m \in 1..n /\ k = (k - m) + m
    <3>1. j - m < k - m
      BY <1>1
    <3>2. b[j - m] < b[k - m]
      BY <1>1, <1>9, <2>3, <3>1 DEF Increasing
    <3>3. c[j] = b[j - m] /\ c[k] = b[k - m]
      BY <1>5, <2>3
    <3> QED
      BY <3>2, <3>3
  <2>4. ~(j - m \in 1..n /\ k \in 1..m)
    BY <1>1
  <2> QED
    BY <1>6, <2>1, <2>2, <2>3, <2>4
<1>10. Increasing(c) <=>
         /\ Increasing(a) /\ Increasing(b)
         /\ \A u \in Elements(a), w \in Elements(b) : u < w
  BY <1>8, <1>9
<1> QED
  BY <1>7, <1>10 DEF c

(* The same around a number, which is how a node's keys are listed.        *)
LEMMA JoinedAround ==
  ASSUME NEW a \in Seq(Nat), NEW b \in Seq(Nat), NEW x \in Nat
  PROVE  /\ Elements(a \o <<x>> \o b) = Elements(a) \cup {x} \cup Elements(b)
         /\ Increasing(a \o <<x>> \o b) <=>
              /\ Increasing(a) /\ Increasing(b)
              /\ \A u \in Elements(a) : u < x
              /\ \A w \in Elements(b) : x < w
         /\ Len(a \o <<x>> \o b) = Len(a) + 1 + Len(b)
<1> DEFINE o == <<x>>
           d == a \o o
<1>1. o \in Seq(Nat) /\ Elements(o) = {x} /\ Increasing(o) /\ Len(o) = 1
  BY DEF Elements, Increasing
<1> HIDE DEF o
<1>2. d \in Seq(Nat) /\ Len(d) = Len(a) + 1
  <2>1. d \in Seq(Nat) /\ Len(d) = Len(a) + Len(o)
    BY <1>1, ConcatProperties
  <2> QED
    BY <1>1, <2>1
<1>3. /\ Elements(d) = Elements(a) \cup {x}
      /\ Increasing(d) <=> Increasing(a) /\ \A u \in Elements(a) : u < x
  <2>1. /\ Elements(d) = Elements(a) \cup Elements(o)
        /\ Increasing(d) <=>
             /\ Increasing(a) /\ Increasing(o)
             /\ \A u \in Elements(a), w \in Elements(o) : u < w
    BY <1>1, Joined
  <2> QED
    BY <1>1, <2>1
<1> HIDE DEF d
<1>4. /\ Elements(d \o b) = Elements(d) \cup Elements(b)
      /\ Increasing(d \o b) <=>
           /\ Increasing(d) /\ Increasing(b)
           /\ \A u \in Elements(d), w \in Elements(b) : u < w
  BY <1>2, Joined
<1>5. \A u \in Elements(a) : u \in Nat
  BY ElementOfSeq DEF Elements
<1>6. \A w \in Elements(b) : w \in Nat
  BY ElementOfSeq DEF Elements
<1>7. Len(d \o b) = Len(a) + 1 + Len(b)
  <2>1. Len(d \o b) = Len(d) + Len(b)
    BY <1>2, ConcatProperties
  <2> QED
    BY <1>2, <2>1
<1>8. Increasing(d \o b) <=>
        /\ Increasing(a) /\ Increasing(b)
        /\ \A u \in Elements(a) : u < x
        /\ \A w \in Elements(b) : x < w
  <2>1. ASSUME \A u \in Elements(a) : u < x, \A w \in Elements(b) : x < w,
               NEW u \in Elements(a), NEW w \in Elements(b)
        PROVE  u < w
    <3>1. u < x /\ x < w /\ u \in Nat /\ w \in Nat
      BY <1>5, <1>6, <2>1
    <3> QED
      BY <3>1
  <2> QED
    BY <1>3, <1>4, <2>1
<1> QED
  BY <1>3, <1>4, <1>7, <1>8 DEF d, o
-----------------------------------------------------------------------------
(* What the operations keep                                                *)

(* The keys of a tree, and that they are listed in order.                  *)
KeysIn(T) == Elements(InOrder[T])
Ordered(T) == Increasing(InOrder[T])

(* Every key is less than x, every key is greater, no priority is above y. *)
Below(T, x) == \A u \in KeysIn(T) : u < x
Above(T, x) == \A u \in KeysIn(T) : x < u
Under(T, y) == T # Null => T.y <= y

(* In order, and every node passes the check.                              *)
Good(T) == Ordered(T) /\ TreeCheck[T]

(* The keys of a tree are keys, ...                                        *)
LEMMA KeysAre ==
  ASSUME TreapAssumption, NEW T \in Trees
  PROVE  KeysIn(T) \subseteq Keys
<1>1. InOrder[T] \in Seq(Keys)
  BY InOrderIs
<1> QED
  BY <1>1, ElementOfSeq DEF KeysIn, Elements

(* ... so that they are listed as numbers.                                 *)
LEMMA OrderIs ==
  ASSUME TreapAssumption, NEW T \in Trees
  PROVE  InOrder[T] \in Seq(Nat)
<1>1. InOrder[T] \in Seq(Keys) /\ Keys \subseteq Nat
  BY InOrderIs DEF TreapAssumption
<1>2. PICK n \in Nat : InOrder[T] \in [1..n -> Keys]
  BY <1>1, SeqDef
<1>3. InOrder[T] \in [1..n -> Nat]
  BY <1>1, <1>2
<1> QED
  BY <1>3, SeqDef

(* Null has no keys and nothing to check.                                  *)
LEMMA OfNull ==
  ASSUME TreapAssumption
  PROVE  KeysIn(Null) = {} /\ Good(Null) /\ Ordered(Null) /\ \A y : Under(Null, y)
<1>1. InOrder[Null] = <<>> /\ DOMAIN <<>> = {}
  BY InOrderIs
<1>2. KeysIn(Null) = {} /\ Ordered(Null)
  BY <1>1 DEF KeysIn, Ordered, Elements, Increasing
<1> QED
  BY <1>2, TreeCheckIs DEF Good, Under

(* The keys of a node are its own and those of its two trees, in order ... *)
LEMMA OfNode ==
  ASSUME TreapAssumption, NEW T \in Trees, T # Null
  PROVE  /\ KeysIn(T) = KeysIn(T.left) \cup {T.x} \cup KeysIn(T.right)
         /\ Ordered(T) <=> /\ Ordered(T.left) /\ Ordered(T.right)
                           /\ Below(T.left, T.x) /\ Above(T.right, T.x)
<1>1. T.x \in Keys /\ T.left \in Trees /\ T.right \in Trees
  BY TreesBelow
<1>2. InOrder[T.left] \in Seq(Nat) /\ InOrder[T.right] \in Seq(Nat) /\ T.x \in Nat
  BY <1>1, OrderIs DEF TreapAssumption
<1>3. InOrder[T] = InOrder[T.left] \o <<T.x>> \o InOrder[T.right]
  BY InOrderIs
<1> DEFINE a == InOrder[T.left]
           b == InOrder[T.right]
<1> HIDE DEF a, b
<1>4. /\ Elements(a \o <<T.x>> \o b) = Elements(a) \cup {T.x} \cup Elements(b)
      /\ Increasing(a \o <<T.x>> \o b) <=>
           /\ Increasing(a) /\ Increasing(b)
           /\ \A u \in Elements(a) : u < T.x
           /\ \A w \in Elements(b) : T.x < w
  <2>1. a \in Seq(Nat) /\ b \in Seq(Nat)
    BY <1>2 DEF a, b
  <2> QED
    BY <1>2, <2>1, JoinedAround
<1>5. InOrder[T] = a \o <<T.x>> \o b
  BY <1>3 DEF a, b
<1> QED
  BY <1>4, <1>5 DEF a, b, KeysIn, Ordered, Below, Above

(* ... and it is good when they are, and lie on the right sides below it.  *)
LEMMA GoodNode ==
  ASSUME TreapAssumption, NEW T \in Trees, T # Null
  PROVE  Good(T) <=> /\ Good(T.left) /\ Good(T.right)
                     /\ Below(T.left, T.x) /\ Above(T.right, T.x)
                     /\ Under(T.left, T.y) /\ Under(T.right, T.y)
<1>1. T.left \in Trees /\ T.right \in Trees
  BY TreesBelow
<1>2. T.left # Null => T.left.x \in KeysIn(T.left)
  BY <1>1, OfNode
<1>3. T.right # Null => T.right.x \in KeysIn(T.right)
  BY <1>1, OfNode
<1>4. TreeCheck[T] <=>
        /\ T.left # Null => T.left.y <= T.y /\ T.left.x < T.x
        /\ T.right # Null => T.right.y <= T.y /\ T.right.x > T.x
        /\ TreeCheck[T.left] /\ TreeCheck[T.right]
  BY TreeCheckIs
<1>5. Ordered(T) <=> /\ Ordered(T.left) /\ Ordered(T.right)
                     /\ Below(T.left, T.x) /\ Above(T.right, T.x)
  BY OfNode
<1>6. Below(T.left, T.x) /\ Above(T.right, T.x) =>
        /\ T.left # Null => T.left.x < T.x
        /\ T.right # Null => T.right.x > T.x
  BY <1>2, <1>3 DEF Below, Above
<1> QED
  BY <1>4, <1>5, <1>6 DEF Good, Under

(* The same of a node that is made.                                        *)
LEMMA Made ==
  ASSUME TreapAssumption, NEW n \in Nat, n + 1 <= Depth,
         NEW x \in Keys, NEW y \in Priorities, NEW a \in TreesTo[n], NEW b \in TreesTo[n]
  PROVE  LET T == Node(x, y, a, b) IN
         /\ T \in Trees /\ T \in TreesTo[n + 1] /\ a \in Trees /\ b \in Trees
         /\ KeysIn(T) = KeysIn(a) \cup {x} \cup KeysIn(b)
         /\ Good(T) <=> /\ Good(a) /\ Good(b) /\ Below(a, x) /\ Above(b, x)
                        /\ Under(a, y) /\ Under(b, y)
         /\ \A z : Under(T, z) <=> y <= z
<1> DEFINE T == Node(x, y, a, b)
<1>1. T \in TreesTo[n + 1] /\ T # Null
  BY NodeIn, NodeIsNotNull
<1>2. T.x = x /\ T.y = y /\ T.left = a /\ T.right = b
  BY DEF Node
<1> HIDE DEF T
<1>3. T \in Trees /\ a \in Trees /\ b \in Trees
  <2>1. n + 1 \in Nat /\ Depth \in Nat /\ n <= Depth
    BY DepthIsNat
  <2>2. TreesTo[n + 1] \subseteq TreesTo[Depth] /\ TreesTo[n] \subseteq TreesTo[Depth]
    BY <2>1, Higher
  <2> QED
    BY <1>1, <2>2, TreesAre
<1>4. KeysIn(T) = KeysIn(a) \cup {x} \cup KeysIn(b)
  BY <1>1, <1>2, <1>3, OfNode
<1>5. Good(T) <=> /\ Good(a) /\ Good(b) /\ Below(a, x) /\ Above(b, x)
                  /\ Under(a, y) /\ Under(b, y)
  BY <1>1, <1>2, <1>3, GoodNode
<1>6. \A z : Under(T, z) <=> y <= z
  BY <1>1, <1>2 DEF Under
<1> QED
  BY <1>1, <1>3, <1>4, <1>5, <1>6 DEF T

(* A tree in order is no higher than it has keys.                          *)
LEMMA HeightFits ==
  ASSUME TreapAssumption, NEW T \in Trees, Ordered(T)
  PROVE  \A K : IsFiniteSet(K) /\ KeysIn(T) \subseteq K => T \in TreesTo[Cardinality(K)]
<1> DEFINE Fits(t) == \A K : IsFiniteSet(K) /\ KeysIn(t) \subseteq K => t \in TreesTo[Cardinality(K)]
           S == {t \in Trees : Ordered(t) => Fits(t)}
<1>0. Null \in Trees /\ Depth \in Nat
  BY TreeIs, DepthIsNat
<1>1. Null \in S
  <2>1. Fits(Null)
    BY NullIn, FS_CardinalityType
  <2> QED
    BY <1>0, <2>1
<1>2. ASSUME NEW t \in Trees, t # Null, t.left \in S, t.right \in S PROVE t \in S
  <2> SUFFICES ASSUME Ordered(t), NEW K, IsFiniteSet(K), KeysIn(t) \subseteq K
               PROVE  t \in TreesTo[Cardinality(K)]
    OBVIOUS
  <2>1. /\ KeysIn(t) = KeysIn(t.left) \cup {t.x} \cup KeysIn(t.right)
        /\ Ordered(t.left) /\ Ordered(t.right)
        /\ Below(t.left, t.x) /\ Above(t.right, t.x)
    BY <1>2, OfNode
  <2>2. t.x \in Keys /\ t.y \in Priorities /\ t.left \in Trees /\ t.right \in Trees /\ Keys \subseteq Nat
    BY <1>2, TreesBelow DEF TreapAssumption
  <2> DEFINE J == K \ {t.x}
  <2>3. t.x \notin KeysIn(t.left) /\ t.x \notin KeysIn(t.right)
    BY <2>1, <2>2 DEF Below, Above
  <2>4. KeysIn(t.left) \subseteq J /\ KeysIn(t.right) \subseteq J /\ t.x \in K
    BY <2>1, <2>3
  <2>5. IsFiniteSet(J) /\ Cardinality(J) = Cardinality(K) - 1
    BY <2>4, FS_RemoveElement
  <2>6. Cardinality(J) \in Nat /\ Cardinality(K) \in Nat
    BY <2>5, FS_CardinalityType
  <2> DEFINE c == Cardinality(J)
  <2>7. t.left \in TreesTo[c] /\ t.right \in TreesTo[c]
    BY <1>2, <2>1, <2>4, <2>5
  <2> HIDE DEF J
  <2>8. c \in Nat /\ c + 1 = Cardinality(K)
    BY <2>5, <2>6
  <2>9. t = Node(t.x, t.y, t.left, t.right)
    BY <1>0, <1>2, NodeOf, TreesAre
  <2> HIDE DEF c
  <2> QED
    BY <2>2, <2>7, <2>8, <2>9, NodeIn
<1> HIDE DEF S
<1>3. T \in S
  BY <1>0, <1>1, <1>2, TreeInduction, TreesAre
<1> QED
  BY <1>3 DEF S
-----------------------------------------------------------------------------
(* Splitting                                                               *)

(* A split makes nothing higher.                                           *)
LEMMA SplitIn ==
  ASSUME TreapAssumption, NEW x \in Keys, NEW n \in Nat, n <= Depth, NEW T \in TreesTo[n]
  PROVE  TreeSplit[T][x].l \in TreesTo[n] /\ TreeSplit[T][x].r \in TreesTo[n]
<1> DEFINE Both(t, m) == TreeSplit[t][x].l \in TreesTo[m] /\ TreeSplit[t][x].r \in TreesTo[m]
           S == {t \in Trees : \A m \in Nat : t \in TreesTo[m] => Both(t, m)}
<1>0. Null \in Trees /\ Depth \in Nat
  BY TreeIs, DepthIsNat
<1>1. Null \in S
  <2>1. TreeSplit[Null][x].l = Null /\ TreeSplit[Null][x].r = Null
    BY TreeSplitIs
  <2>2. \A m \in Nat : Both(Null, m)
    BY <2>1, NullIn
  <2> QED
    BY <1>0, <2>2
<1>2. ASSUME NEW t \in Trees, t # Null, t.left \in S, t.right \in S PROVE t \in S
  <2> SUFFICES ASSUME NEW m \in Nat, t \in TreesTo[m] PROVE Both(t, m)
    OBVIOUS
  <2> DEFINE k == m - 1
  <2>1. /\ k \in Nat /\ k + 1 = m
        /\ t.x \in Keys /\ t.y \in Priorities
        /\ t.left \in TreesTo[k] /\ t.right \in TreesTo[k]
    BY <1>2, NodeOf
  <2> HIDE DEF k
  <2>2. Both(t.left, k) /\ Both(t.right, k)
    BY <1>2, <2>1
  <2>3. TreesTo[k] \subseteq TreesTo[m]
    BY <2>1, OneHigher
  <2>4. CASE x < t.x
    <3>1. TreeSplit[t][x] =
            [l |-> TreeSplit[t.left][x].l,
             r |-> Node(t.x, t.y, TreeSplit[t.left][x].r, t.right)]
      BY <1>2, <2>4, TreeSplitIs
    <3>2. Node(t.x, t.y, TreeSplit[t.left][x].r, t.right) \in TreesTo[m]
      BY <2>1, <2>2, NodeIn
    <3> QED
      BY <2>2, <2>3, <3>1, <3>2
  <2>5. CASE ~(x < t.x)
    <3>1. TreeSplit[t][x] =
            [l |-> Node(t.x, t.y, t.left, TreeSplit[t.right][x].l),
             r |-> TreeSplit[t.right][x].r]
      BY <1>2, <2>5, TreeSplitIs
    <3>2. Node(t.x, t.y, t.left, TreeSplit[t.right][x].l) \in TreesTo[m]
      BY <2>1, <2>2, NodeIn
    <3> QED
      BY <2>2, <2>3, <3>1, <3>2
  <2> QED
    BY <2>4, <2>5
<1>3. T \in Trees
  BY <1>0, Higher, TreesAre
<1>4. T \in S
  <2> HIDE DEF S
  <2> QED
    BY <1>0, <1>1, <1>2, <1>3, TreeInduction, TreesAre
<1> QED
  BY <1>4

(* The two parts are good, split the keys, and have no higher priority.    *)
Splits(T, x, a, b) ==
  /\ Good(a) /\ KeysIn(a) = {u \in KeysIn(T) : ~(x < u)}
  /\ Good(b) /\ KeysIn(b) = {u \in KeysIn(T) : x < u}
  /\ \A y \in Priorities : Under(T, y) => Under(a, y) /\ Under(b, y)

(* A split puts each key on the side the key it is split at says.          *)
LEMMA SplitGood ==
  ASSUME TreapAssumption, NEW x \in Keys, NEW T \in Trees, Good(T)
  PROVE  Splits(T, x, TreeSplit[T][x].l, TreeSplit[T][x].r)
<1> DEFINE l(t) == TreeSplit[t][x].l
           r(t) == TreeSplit[t][x].r
           S == {t \in Trees : Good(t) => Splits(t, x, l(t), r(t))}
<1>0. Null \in Trees /\ Depth \in Nat
  BY TreeIs, DepthIsNat
<1>1. Null \in S
  <2>1. l(Null) = Null /\ r(Null) = Null
    BY TreeSplitIs
  <2> HIDE DEF l, r
  <2>2. Splits(Null, x, l(Null), r(Null))
    BY <2>1, OfNull DEF Splits
  <2> QED
    BY <1>0, <2>2
<1>2. ASSUME NEW t \in Trees, t # Null, t.left \in S, t.right \in S PROVE t \in S
  <2> SUFFICES ASSUME Good(t) PROVE Splits(t, x, l(t), r(t))
    OBVIOUS
  <2>1. /\ t.x \in Keys /\ t.y \in Priorities /\ t.left \in Trees /\ t.right \in Trees
        /\ Keys \subseteq Nat /\ Priorities \subseteq Nat
    BY <1>2, TreesBelow DEF TreapAssumption
  <2>2. /\ Good(t.left) /\ Good(t.right)
        /\ Below(t.left, t.x) /\ Above(t.right, t.x)
        /\ Under(t.left, t.y) /\ Under(t.right, t.y)
        /\ KeysIn(t) = KeysIn(t.left) \cup {t.x} \cup KeysIn(t.right)
    BY <1>2, GoodNode, OfNode
  <2>3. KeysIn(t.left) \subseteq Nat /\ KeysIn(t.right) \subseteq Nat /\ x \in Nat /\ t.x \in Nat
    BY <2>1, KeysAre
  <2>4. \A y : Under(t, y) <=> t.y <= y
    BY <1>2 DEF Under
  <2>5. Splits(t.left, x, l(t.left), r(t.left)) /\ Splits(t.right, x, l(t.right), r(t.right))
    BY <1>2, <2>2
  <2> DEFINE k == Depth - 1
  <2>6. k \in Nat /\ k + 1 = Depth /\ t.left \in TreesTo[k] /\ t.right \in TreesTo[k]
    BY <1>0, <1>2, NodeOf, TreesAre
  <2> HIDE DEF k
  <2>7. k <= Depth /\ k + 1 <= Depth
    BY <2>6
  <2>8. /\ l(t.left) \in TreesTo[k] /\ r(t.left) \in TreesTo[k]
        /\ l(t.right) \in TreesTo[k] /\ r(t.right) \in TreesTo[k]
    BY <2>6, <2>7, SplitIn
  <2>9. CASE x < t.x
    <3> DEFINE N == Node(t.x, t.y, r(t.left), t.right)
    <3>1. l(t) = l(t.left) /\ r(t) = N
      <4>1. TreeSplit[t][x] =
              [l |-> TreeSplit[t.left][x].l,
               r |-> Node(t.x, t.y, TreeSplit[t.left][x].r, t.right)]
        BY <1>2, <2>9, TreeSplitIs
      <4> QED
        BY <4>1
    <3>2. /\ KeysIn(N) = KeysIn(r(t.left)) \cup {t.x} \cup KeysIn(t.right)
          /\ Good(N) <=> /\ Good(r(t.left)) /\ Good(t.right)
                         /\ Below(r(t.left), t.x) /\ Above(t.right, t.x)
                         /\ Under(r(t.left), t.y) /\ Under(t.right, t.y)
          /\ \A z : Under(N, z) <=> t.y <= z
      BY <2>1, <2>6, <2>7, <2>8, Made
    <3> HIDE DEF l, r, N
    <3>3. Below(r(t.left), t.x) /\ Under(r(t.left), t.y)
      BY <2>1, <2>2, <2>5 DEF Splits, Below
    <3>4. Good(N)
      BY <2>2, <2>5, <3>2, <3>3 DEF Splits
    <3>5. \A w \in KeysIn(t.right) : x < w
      BY <2>2, <2>3, <2>9 DEF Above
    <3>6. KeysIn(N) = {u \in KeysIn(t) : x < u}
      BY <2>2, <2>5, <2>9, <3>2, <3>5 DEF Splits
    <3>7. KeysIn(l(t)) = {u \in KeysIn(t) : ~(x < u)}
      BY <2>2, <2>5, <2>9, <3>1, <3>5 DEF Splits
    <3>8. \A y \in Priorities : Under(t, y) => Under(l(t), y) /\ Under(N, y)
      <4> SUFFICES ASSUME NEW y \in Priorities, Under(t, y) PROVE Under(l(t), y) /\ Under(N, y)
        OBVIOUS
      <4>1. t.y <= y /\ Under(N, y)
        BY <2>4, <3>2
      <4>2. l(t.left) # Null => l(t.left).y <= t.y /\ l(t.left).y \in Nat
        <5>1. l(t.left) # Null => l(t.left).y \in Priorities
          BY <2>6, <2>8, NodeOf
        <5>2. Under(l(t.left), t.y)
          BY <2>1, <2>2, <2>5 DEF Splits
        <5> QED
          BY <2>1, <5>1, <5>2 DEF Under
      <4>3. y \in Nat /\ t.y \in Nat
        BY <2>1
      <4> QED
        BY <3>1, <4>1, <4>2, <4>3 DEF Under
    <3>9. Good(l(t))
      BY <2>5, <3>1 DEF Splits
    <3> QED
      BY <3>1, <3>4, <3>6, <3>7, <3>8, <3>9 DEF Splits
  <2>10. CASE ~(x < t.x)
    <3> DEFINE N == Node(t.x, t.y, t.left, l(t.right))
    <3>1. l(t) = N /\ r(t) = r(t.right)
      <4>1. TreeSplit[t][x] =
              [l |-> Node(t.x, t.y, t.left, TreeSplit[t.right][x].l),
               r |-> TreeSplit[t.right][x].r]
        BY <1>2, <2>10, TreeSplitIs
      <4> QED
        BY <4>1
    <3>2. /\ KeysIn(N) = KeysIn(t.left) \cup {t.x} \cup KeysIn(l(t.right))
          /\ Good(N) <=> /\ Good(t.left) /\ Good(l(t.right))
                         /\ Below(t.left, t.x) /\ Above(l(t.right), t.x)
                         /\ Under(t.left, t.y) /\ Under(l(t.right), t.y)
          /\ \A z : Under(N, z) <=> t.y <= z
      BY <2>1, <2>6, <2>7, <2>8, Made
    <3> HIDE DEF l, r, N
    <3>3. Above(l(t.right), t.x) /\ Under(l(t.right), t.y)
      BY <2>1, <2>2, <2>5 DEF Splits, Above
    <3>4. Good(N)
      BY <2>2, <2>5, <3>2, <3>3 DEF Splits
    <3>5. \A w \in KeysIn(t.left) : ~(x < w)
      BY <2>2, <2>3, <2>10 DEF Below
    <3>6. KeysIn(N) = {u \in KeysIn(t) : ~(x < u)}
      BY <2>2, <2>5, <2>10, <3>2, <3>5 DEF Splits
    <3>7. KeysIn(r(t)) = {u \in KeysIn(t) : x < u}
      BY <2>2, <2>5, <2>10, <3>1, <3>5 DEF Splits
    <3>8. \A y \in Priorities : Under(t, y) => Under(N, y) /\ Under(r(t), y)
      <4> SUFFICES ASSUME NEW y \in Priorities, Under(t, y) PROVE Under(N, y) /\ Under(r(t), y)
        OBVIOUS
      <4>1. t.y <= y /\ Under(N, y)
        BY <2>4, <3>2
      <4>2. r(t.right) # Null => r(t.right).y <= t.y /\ r(t.right).y \in Nat
        <5>1. r(t.right) # Null => r(t.right).y \in Priorities
          BY <2>6, <2>8, NodeOf
        <5>2. Under(r(t.right), t.y)
          BY <2>1, <2>2, <2>5 DEF Splits
        <5> QED
          BY <2>1, <5>1, <5>2 DEF Under
      <4>3. y \in Nat /\ t.y \in Nat
        BY <2>1
      <4> QED
        BY <3>1, <4>1, <4>2, <4>3 DEF Under
    <3>9. Good(r(t))
      BY <2>5, <3>1 DEF Splits
    <3> QED
      BY <3>1, <3>4, <3>6, <3>7, <3>8, <3>9 DEF Splits
  <2> QED
    BY <2>9, <2>10
<1>3. T \in S
  <2> HIDE DEF S
  <2> QED
    BY <1>0, <1>1, <1>2, TreeInduction, TreesAre
<1> QED
  BY <1>3
-----------------------------------------------------------------------------
(* Merging                                                                 *)

(* The tree is good, has the keys of both, and no higher priority.         *)
Merges(a, b, t) ==
  /\ Good(t) /\ KeysIn(t) = KeysIn(a) \cup KeysIn(b)
  /\ \A y \in Priorities : Under(a, y) /\ Under(b, y) => Under(t, y)

(* A merge keeps the keys of both, and the priorities in order.            *)
LEMMA MergeGood ==
  ASSUME TreapAssumption, NEW m \in Nat, NEW n \in Nat, m + n <= Depth,
         NEW L \in TreesTo[m], NEW R \in TreesTo[n], Good(L), Good(R),
         \A u \in KeysIn(L), w \in KeysIn(R) : u < w
  PROVE  Merges(L, R, TreeMerge[<<L, R>>])
<1> DEFINE Apart(a, b) == Good(a) /\ Good(b) /\ \A u \in KeysIn(a), w \in KeysIn(b) : u < w
           Fits(a, b) == \E i, j \in Nat : i + j <= Depth /\ a \in TreesTo[i] /\ b \in TreesTo[j]
           S == {p \in Trees \X Trees :
                   Fits(p[1], p[2]) /\ Apart(p[1], p[2]) => Merges(p[1], p[2], TreeMerge[p])}
<1>0. Null \in Trees /\ Depth \in Nat
  BY TreeIs, DepthIsNat
<1>1. ASSUME NEW a \in Trees, NEW b \in Trees
      PROVE  <<a, b>> \in S <=> (Fits(a, b) /\ Apart(a, b) => Merges(a, b, TreeMerge[<<a, b>>]))
  <2> HIDE DEF Fits, Apart
  <2> QED
    OBVIOUS
<1> HIDE DEF S
<1>2. ASSUME NEW a \in Trees, NEW b \in Trees, a = Null \/ b = Null PROVE <<a, b>> \in S
  <2> SUFFICES ASSUME Apart(a, b) PROVE Merges(a, b, TreeMerge[<<a, b>>])
    BY <1>1
  <2>1. CASE a = Null
    <3>1. TreeMerge[<<a, b>>] = b /\ KeysIn(a) = {}
      BY <2>1, TreeMergeIs, OfNull
    <3> QED
      BY <3>1 DEF Merges
  <2>2. CASE a # Null /\ b = Null
    <3>1. TreeMerge[<<a, b>>] = a /\ KeysIn(b) = {}
      BY <2>2, TreeMergeIs, OfNull
    <3> QED
      BY <3>1 DEF Merges
  <2> QED
    BY <1>2, <2>1, <2>2
<1>3. ASSUME NEW a \in Trees, NEW b \in Trees, a # Null, b # Null,
             <<a.right, b>> \in S, <<a, b.left>> \in S
      PROVE  <<a, b>> \in S
  <2> SUFFICES ASSUME Apart(a, b), NEW i \in Nat, NEW j \in Nat, i + j <= Depth,
                      a \in TreesTo[i], b \in TreesTo[j]
               PROVE  Merges(a, b, TreeMerge[<<a, b>>])
    BY <1>1
  <2> DEFINE k == i + j - 1
  <2>1. /\ i - 1 \in Nat /\ a.x \in Keys /\ a.y \in Priorities
        /\ a.left \in TreesTo[i - 1] /\ a.right \in TreesTo[i - 1]
    BY <1>3, NodeOf
  <2>2. /\ j - 1 \in Nat /\ b.x \in Keys /\ b.y \in Priorities
        /\ b.left \in TreesTo[j - 1] /\ b.right \in TreesTo[j - 1]
    BY <1>3, NodeOf
  <2>3. /\ k \in Nat /\ k + 1 = i + j /\ (i - 1) + j = k /\ i + (j - 1) = k
        /\ i - 1 <= k /\ j - 1 <= k /\ i <= Depth /\ j <= Depth /\ k <= Depth
    BY <1>0, <2>1, <2>2
  <2> HIDE DEF k
  <2>4. a.left \in TreesTo[k] /\ b.right \in TreesTo[k]
    BY <2>1, <2>2, <2>3, Higher
  <2>5. a.right \in Trees /\ a.left \in Trees /\ b.left \in Trees /\ b.right \in Trees
    BY <1>3, TreesBelow
  <2>6. Keys \subseteq Nat /\ Priorities \subseteq Nat
    BY DEF TreapAssumption
  <2>7. /\ Good(a.left) /\ Good(a.right)
        /\ Below(a.left, a.x) /\ Above(a.right, a.x)
        /\ Under(a.left, a.y) /\ Under(a.right, a.y)
        /\ KeysIn(a) = KeysIn(a.left) \cup {a.x} \cup KeysIn(a.right)
    BY <1>3, GoodNode, OfNode
  <2>8. /\ Good(b.left) /\ Good(b.right)
        /\ Below(b.left, b.x) /\ Above(b.right, b.x)
        /\ Under(b.left, b.y) /\ Under(b.right, b.y)
        /\ KeysIn(b) = KeysIn(b.left) \cup {b.x} \cup KeysIn(b.right)
    BY <1>3, GoodNode, OfNode
  <2>9. /\ \A y : Under(a, y) <=> a.y <= y
        /\ \A y : Under(b, y) <=> b.y <= y
    BY <1>3 DEF Under
  <2>10. CASE a.y > b.y
    <3> DEFINE M == TreeMerge[<<a.right, b>>]
               N == Node(a.x, a.y, a.left, M)
    <3>1. TreeMerge[<<a, b>>] = N
      BY <1>3, <2>10, TreeMergeIs
    <3>2. M \in TreesTo[k]
      BY <2>1, <2>3, <2>5, MergeIn
    <3>3. Merges(a.right, b, M)
      <4>1. Apart(a.right, b)
        BY <2>7
      <4>2. Fits(a.right, b)
        BY <2>1, <2>3
      <4> QED
        BY <1>1, <1>3, <2>5, <4>1, <4>2
    <3>4. /\ KeysIn(N) = KeysIn(a.left) \cup {a.x} \cup KeysIn(M)
          /\ Good(N) <=> /\ Good(a.left) /\ Good(M)
                         /\ Below(a.left, a.x) /\ Above(M, a.x)
                         /\ Under(a.left, a.y) /\ Under(M, a.y)
          /\ \A z : Under(N, z) <=> a.y <= z
      <4> HIDE DEF M
      <4>1. k + 1 <= Depth
        BY <2>3
      <4> QED
        BY <2>1, <2>3, <2>4, <3>2, <4>1, Made
    <3> HIDE DEF M, N
    <3>5. Above(M, a.x)
      <4>1. \A w \in KeysIn(b) : a.x < w
        BY <2>7
      <4> QED
        BY <2>7, <3>3, <4>1 DEF Merges, Above
    <3>6. Under(M, a.y)
      <4>1. Under(b, a.y)
        BY <2>1, <2>2, <2>6, <2>9, <2>10
      <4> QED
        BY <2>1, <2>7, <3>3, <4>1 DEF Merges
    <3>7. Good(N) /\ KeysIn(N) = KeysIn(a) \cup KeysIn(b)
      BY <2>7, <3>3, <3>4, <3>5, <3>6 DEF Merges
    <3> QED
      BY <2>9, <3>1, <3>4, <3>7 DEF Merges
  <2>11. CASE ~(a.y > b.y)
    <3> DEFINE M == TreeMerge[<<a, b.left>>]
               N == Node(b.x, b.y, M, b.right)
    <3>1. TreeMerge[<<a, b>>] = N
      BY <1>3, <2>11, TreeMergeIs
    <3>2. M \in TreesTo[k]
      BY <2>2, <2>3, <2>5, MergeIn
    <3>3. Merges(a, b.left, M)
      <4>1. Apart(a, b.left)
        BY <2>8
      <4>2. Fits(a, b.left)
        BY <2>2, <2>3
      <4> QED
        BY <1>1, <1>3, <2>5, <4>1, <4>2
    <3>4. /\ KeysIn(N) = KeysIn(M) \cup {b.x} \cup KeysIn(b.right)
          /\ Good(N) <=> /\ Good(M) /\ Good(b.right)
                         /\ Below(M, b.x) /\ Above(b.right, b.x)
                         /\ Under(M, b.y) /\ Under(b.right, b.y)
          /\ \A z : Under(N, z) <=> b.y <= z
      <4> HIDE DEF M
      <4>1. k + 1 <= Depth
        BY <2>3
      <4> QED
        BY <2>2, <2>3, <2>4, <3>2, <4>1, Made
    <3> HIDE DEF M, N
    <3>5. Below(M, b.x)
      <4>1. \A u \in KeysIn(a) : u < b.x
        BY <2>8
      <4> QED
        BY <2>8, <3>3, <4>1 DEF Merges, Below
    <3>6. Under(M, b.y)
      <4>1. Under(a, b.y)
        BY <2>1, <2>2, <2>6, <2>9, <2>11
      <4> QED
        BY <2>2, <2>8, <3>3, <4>1 DEF Merges
    <3>7. Good(N) /\ KeysIn(N) = KeysIn(a) \cup KeysIn(b)
      BY <2>8, <3>3, <3>4, <3>5, <3>6 DEF Merges
    <3> QED
      BY <2>9, <3>1, <3>4, <3>7 DEF Merges
  <2> QED
    BY <2>10, <2>11
<1>4. L \in Trees /\ R \in Trees
  <2>1. m <= Depth /\ n <= Depth
    BY <1>0
  <2> QED
    BY <1>0, <2>1, Higher, TreesAre
<1>5. <<L, R>> \in S
  BY <1>2, <1>3, <1>4, MergeInduction
<1>6. Fits(L, R) /\ Apart(L, R)
  OBVIOUS
<1> QED
  BY <1>1, <1>4, <1>5, <1>6
-----------------------------------------------------------------------------
(* Inserting and deleting                                                  *)

(* The new tree is good, one level higher at most, has the key as well,    *)
(* and no priority above those it was made of.                             *)
Inserts(T, x, y, n, t) ==
  /\ t \in TreesTo[n + 1] /\ Good(t) /\ KeysIn(t) = KeysIn(T) \cup {x}
  /\ \A z \in Priorities : Under(T, z) /\ y <= z => Under(t, z)

(* An insertion adds its key, and keeps the order and the priorities.      *)
LEMMA InsertGood ==
  ASSUME TreapAssumption, NEW x \in Keys, NEW y \in Priorities, NEW n \in Nat, n + 1 <= Depth,
         NEW T \in TreesTo[n], Good(T), x \notin KeysIn(T)
  PROVE  Inserts(T, x, y, n, TreeInsert[T][x][y])
<1> DEFINE I(t) == TreeInsert[t][x][y]
           S == {t \in Trees : \A m \in Nat : m + 1 <= Depth /\ t \in TreesTo[m] /\ Good(t)
                   /\ x \notin KeysIn(t) => Inserts(t, x, y, m, I(t))}
<1>0. Null \in Trees /\ Depth \in Nat /\ Keys \subseteq Nat /\ Priorities \subseteq Nat
      /\ x \in Nat /\ y \in Nat
  BY TreeIs, DepthIsNat DEF TreapAssumption
<1>1. Null \in S
  <2> SUFFICES ASSUME NEW m \in Nat, m + 1 <= Depth PROVE Inserts(Null, x, y, m, I(Null))
    BY <1>0
  <2> DEFINE N == Node(x, y, Null, Null)
  <2>1. I(Null) = N
    BY TreeInsertIs
  <2>2. /\ N \in TreesTo[m + 1] /\ KeysIn(N) = KeysIn(Null) \cup {x} \cup KeysIn(Null)
        /\ Good(N) <=> /\ Good(Null) /\ Good(Null) /\ Below(Null, x) /\ Above(Null, x)
                       /\ Under(Null, y) /\ Under(Null, y)
        /\ \A z : Under(N, z) <=> y <= z
    BY NullIn, Made
  <2> HIDE DEF N, I
  <2>3. Good(N)
    BY <2>2, OfNull DEF Below, Above
  <2> QED
    BY <2>1, <2>2, <2>3, OfNull DEF Inserts
<1>2. ASSUME NEW t \in Trees, t # Null, t.left \in S, t.right \in S PROVE t \in S
  <2> SUFFICES ASSUME NEW m \in Nat, m + 1 <= Depth, t \in TreesTo[m], Good(t), x \notin KeysIn(t)
               PROVE  Inserts(t, x, y, m, I(t))
    OBVIOUS
  <2> DEFINE k == m - 1
  <2>1. /\ k \in Nat /\ k + 1 = m
        /\ t.x \in Keys /\ t.y \in Priorities
        /\ t.left \in TreesTo[k] /\ t.right \in TreesTo[k]
    BY <1>2, NodeOf
  <2> HIDE DEF k
  <2>2. /\ k + 1 <= Depth /\ m <= Depth /\ t.left \in TreesTo[m] /\ t.right \in TreesTo[m]
    BY <1>0, <2>1, OneHigher
  <2>3. /\ Good(t.left) /\ Good(t.right)
        /\ Below(t.left, t.x) /\ Above(t.right, t.x)
        /\ Under(t.left, t.y) /\ Under(t.right, t.y)
        /\ KeysIn(t) = KeysIn(t.left) \cup {t.x} \cup KeysIn(t.right)
    BY <1>2, GoodNode, OfNode
  <2>4. /\ t.left \in Trees /\ t.right \in Trees /\ KeysIn(t) \subseteq Nat /\ t.x \in Nat /\ t.y \in Nat
    BY <1>0, <1>2, <2>1, TreesBelow, KeysAre
  <2>5. /\ \A z : Under(t, z) <=> t.y <= z
    BY <1>2 DEF Under
  <2>6. CASE y > t.y
    <3> DEFINE a == TreeSplit[t][x].l
               b == TreeSplit[t][x].r
               N == Node(x, y, a, b)
    <3>1. I(t) = N
      BY <1>2, <2>6, TreeInsertIs
    <3>2. a \in TreesTo[m] /\ b \in TreesTo[m]
      BY <2>2, SplitIn
    <3>3. Splits(t, x, a, b)
      BY <1>2, SplitGood
    <3> HIDE DEF a, b, I
    <3>4. /\ N \in TreesTo[m + 1] /\ KeysIn(N) = KeysIn(a) \cup {x} \cup KeysIn(b)
          /\ Good(N) <=> /\ Good(a) /\ Good(b) /\ Below(a, x) /\ Above(b, x)
                         /\ Under(a, y) /\ Under(b, y)
          /\ \A z : Under(N, z) <=> y <= z
      BY <3>2, Made
    <3> HIDE DEF N
    <3>5. Below(a, x) /\ Above(b, x)
      <4>1. \A u \in KeysIn(t) : u \in Nat /\ u # x
        BY <2>4
      <4>2. ASSUME NEW u \in KeysIn(a) PROVE u < x
        <5>1. u \in KeysIn(t) /\ ~(x < u)
          BY <3>3 DEF Splits
        <5>2. u \in Nat /\ u # x
          BY <4>1, <5>1
        <5> QED
          BY <1>0, <5>1, <5>2
      <4> QED
        BY <3>3, <4>2 DEF Splits, Below, Above
    <3>6. Under(a, y) /\ Under(b, y)
      <4>1. t.y <= y
        BY <1>0, <2>4, <2>6
      <4> QED
        BY <2>5, <3>3, <4>1 DEF Splits
    <3>7. KeysIn(N) = KeysIn(t) \cup {x}
      BY <3>3, <3>4 DEF Splits
    <3>8. Good(N)
      BY <3>3, <3>4, <3>5, <3>6 DEF Splits
    <3> QED
      BY <3>1, <3>4, <3>7, <3>8 DEF Inserts
  <2>7. CASE ~(y > t.y) /\ x < t.x
    <3> DEFINE N == Node(t.x, t.y, I(t.left), t.right)
    <3>1. I(t) = N
      BY <1>2, <2>7, TreeInsertIs
    <3>2. Inserts(t.left, x, y, k, I(t.left))
      BY <1>2, <2>1, <2>2, <2>3
    <3> HIDE DEF I
    <3>3. /\ N \in TreesTo[m + 1] /\ KeysIn(N) = KeysIn(I(t.left)) \cup {t.x} \cup KeysIn(t.right)
          /\ Good(N) <=> /\ Good(I(t.left)) /\ Good(t.right)
                         /\ Below(I(t.left), t.x) /\ Above(t.right, t.x)
                         /\ Under(I(t.left), t.y) /\ Under(t.right, t.y)
          /\ \A z : Under(N, z) <=> t.y <= z
      <4>1. I(t.left) \in TreesTo[m]
        BY <2>1, <3>2 DEF Inserts
      <4>2. t.x \in Keys /\ t.y \in Priorities /\ t.right \in TreesTo[m]
        BY <2>1, <2>2
      <4> DEFINE i == I(t.left)
      <4> HIDE DEF i
      <4>3. i \in TreesTo[m]
        BY <4>1 DEF i
      <4> DEFINE M == Node(t.x, t.y, i, t.right)
      <4>4. /\ M \in TreesTo[m + 1] /\ KeysIn(M) = KeysIn(i) \cup {t.x} \cup KeysIn(t.right)
            /\ Good(M) <=> /\ Good(i) /\ Good(t.right) /\ Below(i, t.x) /\ Above(t.right, t.x)
                           /\ Under(i, t.y) /\ Under(t.right, t.y)
            /\ \A z : Under(M, z) <=> t.y <= z
        BY <4>2, <4>3, Made
      <4> QED
        BY <4>4, Zenon DEF i
    <3> HIDE DEF N
    <3>4. Below(I(t.left), t.x)
      BY <2>3, <2>7, <3>2 DEF Inserts, Below
    <3>5. Under(I(t.left), t.y)
      <4>1. y <= t.y
        BY <1>0, <2>4, <2>7
      <4> QED
        BY <2>1, <2>3, <3>2, <4>1 DEF Inserts
    <3>6. Good(N)
      BY <2>3, <3>2, <3>3, <3>4, <3>5 DEF Inserts
    <3>7. KeysIn(N) = KeysIn(t) \cup {x}
      BY <2>3, <3>2, <3>3 DEF Inserts
    <3> QED
      BY <2>5, <3>1, <3>3, <3>6, <3>7 DEF Inserts
  <2>8. CASE ~(y > t.y) /\ ~(x < t.x)
    <3> DEFINE N == Node(t.x, t.y, t.left, I(t.right))
    <3>1. I(t) = N
      BY <1>2, <2>8, TreeInsertIs
    <3>2. Inserts(t.right, x, y, k, I(t.right))
      BY <1>2, <2>1, <2>2, <2>3
    <3> HIDE DEF I
    <3>3. /\ N \in TreesTo[m + 1] /\ KeysIn(N) = KeysIn(t.left) \cup {t.x} \cup KeysIn(I(t.right))
          /\ Good(N) <=> /\ Good(t.left) /\ Good(I(t.right))
                         /\ Below(t.left, t.x) /\ Above(I(t.right), t.x)
                         /\ Under(t.left, t.y) /\ Under(I(t.right), t.y)
          /\ \A z : Under(N, z) <=> t.y <= z
      <4>1. I(t.right) \in TreesTo[m]
        BY <2>1, <3>2 DEF Inserts
      <4>2. t.x \in Keys /\ t.y \in Priorities /\ t.left \in TreesTo[m]
        BY <2>1, <2>2
      <4> DEFINE i == I(t.right)
      <4> HIDE DEF i
      <4>3. i \in TreesTo[m]
        BY <4>1 DEF i
      <4> DEFINE M == Node(t.x, t.y, t.left, i)
      <4>4. /\ M \in TreesTo[m + 1] /\ KeysIn(M) = KeysIn(t.left) \cup {t.x} \cup KeysIn(i)
            /\ Good(M) <=> /\ Good(t.left) /\ Good(i) /\ Below(t.left, t.x) /\ Above(i, t.x)
                           /\ Under(t.left, t.y) /\ Under(i, t.y)
            /\ \A z : Under(M, z) <=> t.y <= z
        BY <4>2, <4>3, Made
      <4> QED
        BY <4>4, Zenon DEF i
    <3> HIDE DEF N
    <3>4. Above(I(t.right), t.x)
      <4>1. t.x < x
        <5>1. t.x # x
          BY <2>3
        <5> QED
          BY <1>0, <2>4, <2>8, <5>1
      <4> QED
        BY <2>3, <3>2, <4>1 DEF Inserts, Above
    <3>5. Under(I(t.right), t.y)
      <4>1. y <= t.y
        BY <1>0, <2>4, <2>8
      <4> QED
        BY <2>1, <2>3, <3>2, <4>1 DEF Inserts
    <3>6. Good(N)
      BY <2>3, <3>2, <3>3, <3>4, <3>5 DEF Inserts
    <3>7. KeysIn(N) = KeysIn(t) \cup {x}
      BY <2>3, <3>2, <3>3 DEF Inserts
    <3> QED
      BY <2>5, <3>1, <3>3, <3>6, <3>7 DEF Inserts
  <2> QED
    BY <2>6, <2>7, <2>8
<1>3. T \in Trees
  <2>1. n <= Depth
    BY <1>0
  <2> QED
    BY <1>0, <2>1, Higher, TreesAre
<1>4. T \in S
  <2> HIDE DEF S
  <2> QED
    BY <1>0, <1>1, <1>2, <1>3, TreeInduction, TreesAre
<1> QED
  BY <1>4

(* The new tree is good, twice as high at most, has the other keys, and no *)
(* higher priority.                                                        *)
Deletes(T, x, n, t) ==
  /\ t \in TreesTo[2 * n] /\ Good(t) /\ KeysIn(t) = KeysIn(T) \ {x}
  /\ \A z \in Priorities : Under(T, z) => Under(t, z)

(* A deletion takes its key out, and keeps the order and the priorities.   *)
LEMMA DeleteGood ==
  ASSUME TreapAssumption, NEW x \in Keys, NEW n \in Nat, 2 * n <= Depth,
         NEW T \in TreesTo[n], Good(T), x \in KeysIn(T)
  PROVE  Deletes(T, x, n, TreeDelete[T][x])
<1> DEFINE D(t) == TreeDelete[t][x]
           S == {t \in Trees : \A m \in Nat : 2 * m <= Depth /\ t \in TreesTo[m] /\ Good(t)
                   /\ x \in KeysIn(t) => Deletes(t, x, m, D(t))}
<1>0. Null \in Trees /\ Depth \in Nat /\ Keys \subseteq Nat /\ Priorities \subseteq Nat
      /\ x \in Nat
  BY TreeIs, DepthIsNat DEF TreapAssumption
<1>1. Null \in S
  BY <1>0, OfNull
<1>2. ASSUME NEW t \in Trees, t # Null, t.left \in S, t.right \in S PROVE t \in S
  <2> SUFFICES ASSUME NEW m \in Nat, 2 * m <= Depth, t \in TreesTo[m], Good(t), x \in KeysIn(t)
               PROVE  Deletes(t, x, m, D(t))
    OBVIOUS
  <2> DEFINE k == m - 1
             h == 2 * m - 1
  <2>1. /\ k \in Nat /\ k + 1 = m
        /\ t.x \in Keys /\ t.y \in Priorities
        /\ t.left \in TreesTo[k] /\ t.right \in TreesTo[k]
    BY <1>2, NodeOf
  <2> HIDE DEF k
  <2>2. /\ h \in Nat /\ h + 1 = 2 * m /\ k <= h /\ 2 * k \in Nat /\ 2 * k <= h
        /\ 2 * k <= Depth /\ k + k <= Depth /\ k + k = 2 * k /\ 2 * k <= 2 * m
        /\ 2 * m \in Nat /\ h + 1 <= Depth
    BY <1>0, <2>1
  <2> HIDE DEF h
  <2>3. t.left \in TreesTo[h] /\ t.right \in TreesTo[h]
        /\ TreesTo[2 * k] \subseteq TreesTo[h] /\ TreesTo[2 * k] \subseteq TreesTo[2 * m]
    BY <2>1, <2>2, Higher
  <2>4. /\ Good(t.left) /\ Good(t.right)
        /\ Below(t.left, t.x) /\ Above(t.right, t.x)
        /\ Under(t.left, t.y) /\ Under(t.right, t.y)
        /\ KeysIn(t) = KeysIn(t.left) \cup {t.x} \cup KeysIn(t.right)
    BY <1>2, GoodNode, OfNode
  <2>5. /\ t.left \in Trees /\ t.right \in Trees /\ t.x \in Nat /\ t.y \in Nat
        /\ KeysIn(t.left) \subseteq Nat /\ KeysIn(t.right) \subseteq Nat
    BY <1>0, <1>2, <2>1, TreesBelow, KeysAre
  <2>6. \A z : Under(t, z) <=> t.y <= z
    BY <1>2 DEF Under
  <2>7. CASE x = t.x
    <3> DEFINE M == TreeMerge[<<t.left, t.right>>]
    <3>1. D(t) = M
      BY <1>2, <2>7, TreeDeleteIs
    <3>2. M \in TreesTo[2 * m]
      <4>1. M \in TreesTo[k + k]
        BY <2>1, <2>5, MergeIn
      <4> QED
        BY <2>2, <2>3, <4>1
    <3>3. Merges(t.left, t.right, M)
      <4>1. ASSUME NEW u \in KeysIn(t.left), NEW w \in KeysIn(t.right) PROVE u < w
        <5>1. u < t.x /\ t.x < w /\ u \in Nat /\ w \in Nat
          BY <2>4, <2>5 DEF Below, Above
        <5> QED
          BY <2>5, <5>1
      <4> QED
        BY <2>1, <2>2, <2>4, <4>1, MergeGood
    <3> HIDE DEF M, D
    <3>4. KeysIn(M) = KeysIn(t) \ {x}
      <4>1. t.x \notin KeysIn(t.left) /\ t.x \notin KeysIn(t.right)
        BY <2>4, <2>5 DEF Below, Above
      <4> QED
        BY <2>4, <2>7, <3>3, <4>1 DEF Merges
    <3>5. ASSUME NEW z \in Priorities, Under(t, z) PROVE Under(M, z)
      <4>1. t.y <= z /\ z \in Nat
        BY <1>0, <2>6, <3>5
      <4>2. Under(M, t.y)
        BY <2>1, <2>4, <3>3 DEF Merges
      <4>3. M # Null => M.y \in Nat
        BY <1>0, <2>2, <3>2, NodeOf
      <4> QED
        BY <2>5, <4>1, <4>2, <4>3 DEF Under
    <3> QED
      BY <3>1, <3>2, <3>3, <3>4, <3>5 DEF Deletes, Merges
  <2>8. CASE x < t.x
    <3> DEFINE N == Node(t.x, t.y, D(t.left), t.right)
    <3>1. D(t) = N
      BY <1>2, <2>8, TreeDeleteIs
    <3>2. x \in KeysIn(t.left) /\ x \notin KeysIn(t.right) /\ x # t.x
      BY <1>0, <2>4, <2>5, <2>8 DEF Above
    <3>3. Deletes(t.left, x, k, D(t.left))
      BY <1>2, <2>1, <2>2, <2>4, <3>2
    <3> HIDE DEF D
    <3>4. /\ N \in TreesTo[2 * m] /\ KeysIn(N) = KeysIn(D(t.left)) \cup {t.x} \cup KeysIn(t.right)
          /\ Good(N) <=> /\ Good(D(t.left)) /\ Good(t.right)
                         /\ Below(D(t.left), t.x) /\ Above(t.right, t.x)
                         /\ Under(D(t.left), t.y) /\ Under(t.right, t.y)
          /\ \A z : Under(N, z) <=> t.y <= z
      <4>1. D(t.left) \in TreesTo[h]
        BY <2>3, <3>3 DEF Deletes
      <4> QED
        BY <2>1, <2>2, <2>3, <4>1, Made
    <3> HIDE DEF N
    <3>5. Below(D(t.left), t.x) /\ Under(D(t.left), t.y)
      BY <2>1, <2>4, <3>3 DEF Deletes, Below
    <3>6. Good(N)
      BY <2>4, <3>3, <3>4, <3>5 DEF Deletes
    <3>7. KeysIn(N) = KeysIn(t) \ {x}
      BY <2>4, <3>2, <3>3, <3>4 DEF Deletes
    <3> QED
      BY <2>6, <3>1, <3>4, <3>6, <3>7 DEF Deletes
  <2>9. CASE x # t.x /\ ~(x < t.x)
    <3> DEFINE N == Node(t.x, t.y, t.left, D(t.right))
    <3>1. D(t) = N
      BY <1>2, <2>9, TreeDeleteIs
    <3>2. x \in KeysIn(t.right) /\ x \notin KeysIn(t.left)
      BY <1>0, <2>4, <2>5, <2>9 DEF Below
    <3>3. Deletes(t.right, x, k, D(t.right))
      BY <1>2, <2>1, <2>2, <2>4, <3>2
    <3> HIDE DEF D
    <3>4. /\ N \in TreesTo[2 * m] /\ KeysIn(N) = KeysIn(t.left) \cup {t.x} \cup KeysIn(D(t.right))
          /\ Good(N) <=> /\ Good(t.left) /\ Good(D(t.right))
                         /\ Below(t.left, t.x) /\ Above(D(t.right), t.x)
                         /\ Under(t.left, t.y) /\ Under(D(t.right), t.y)
          /\ \A z : Under(N, z) <=> t.y <= z
      <4>1. D(t.right) \in TreesTo[h]
        BY <2>3, <3>3 DEF Deletes
      <4> QED
        BY <2>1, <2>2, <2>3, <4>1, Made
    <3> HIDE DEF N
    <3>5. Above(D(t.right), t.x) /\ Under(D(t.right), t.y)
      BY <2>1, <2>4, <3>3 DEF Deletes, Above
    <3>6. Good(N)
      BY <2>4, <3>3, <3>4, <3>5 DEF Deletes
    <3>7. KeysIn(N) = KeysIn(t) \ {x}
      BY <2>4, <2>9, <3>2, <3>3, <3>4 DEF Deletes
    <3> QED
      BY <2>6, <3>1, <3>4, <3>6, <3>7 DEF Deletes
  <2> QED
    BY <2>7, <2>8, <2>9
<1>3. T \in Trees
  <2>1. n <= Depth
    BY <1>0
  <2> QED
    BY <1>0, <2>1, Higher, TreesAre
<1>4. T \in S
  <2> HIDE DEF S
  <2> QED
    BY <1>0, <1>1, <1>2, <1>3, TreeInduction, TreesAre
<1> QED
  BY <1>4
-----------------------------------------------------------------------------
(* Looking                                                                 *)

(* In a tree in order, a lookup finds what is there and nothing else.      *)
LEMMA LookupGood ==
  ASSUME TreapAssumption, NEW x \in Keys, NEW T \in Trees, Ordered(T)
  PROVE  TreeLookup[T][x] = IF x \in KeysIn(T) THEN x ELSE Unset
<1> DEFINE S == {t \in Trees : Ordered(t) =>
                   TreeLookup[t][x] = IF x \in KeysIn(t) THEN x ELSE Unset}
<1>0. Null \in Trees /\ Depth \in Nat /\ Keys \subseteq Nat /\ x \in Nat
  BY TreeIs, DepthIsNat DEF TreapAssumption
<1>1. Null \in S
  BY <1>0, OfNull, TreeLookupIs
<1>2. ASSUME NEW t \in Trees, t # Null, t.left \in S, t.right \in S PROVE t \in S
  <2> SUFFICES ASSUME Ordered(t) PROVE TreeLookup[t][x] = IF x \in KeysIn(t) THEN x ELSE Unset
    OBVIOUS
  <2>1. /\ Ordered(t.left) /\ Ordered(t.right)
        /\ Below(t.left, t.x) /\ Above(t.right, t.x)
        /\ KeysIn(t) = KeysIn(t.left) \cup {t.x} \cup KeysIn(t.right)
    BY <1>2, OfNode
  <2>2. t.x \in Nat
    BY <1>0, <1>2, TreesBelow
  <2>3. x < t.x => x \notin KeysIn(t.right)
    BY <1>0, <2>1, <2>2 DEF Above
  <2>4. ~(x < t.x) => x \notin KeysIn(t.left)
    BY <1>0, <2>1, <2>2 DEF Below
  <2>5. TreeLookup[t][x] = IF x = t.x THEN x ELSE IF x < t.x THEN TreeLookup[t.left][x]
                           ELSE TreeLookup[t.right][x]
    BY <1>2, TreeLookupIs
  <2>6. /\ TreeLookup[t.left][x] = IF x \in KeysIn(t.left) THEN x ELSE Unset
        /\ TreeLookup[t.right][x] = IF x \in KeysIn(t.right) THEN x ELSE Unset
    BY <1>2, <2>1
  <2>7. CASE x = t.x
    BY <2>1, <2>5, <2>7
  <2>8. CASE x # t.x /\ x < t.x
    BY <2>1, <2>3, <2>5, <2>6, <2>8
  <2>9. CASE x # t.x /\ ~(x < t.x)
    BY <2>1, <2>4, <2>5, <2>6, <2>9
  <2> QED
    BY <2>7, <2>8, <2>9
<1>3. T \in S
  <2> HIDE DEF S
  <2> QED
    BY <1>0, <1>1, <1>2, TreeInduction, TreesAre
<1> QED
  BY <1>3

(* The assertion of the insertion holds when the key is not in the tree.   *)
LEMMA MeetsGood ==
  ASSUME TreapAssumption, NEW x \in Keys, NEW y \in Priorities, NEW T \in Trees,
         x \notin KeysIn(T)
  PROVE  ~MeetsOnPath[T][x][y]
<1> DEFINE S == {t \in Trees : x \notin KeysIn(t) => ~MeetsOnPath[t][x][y]}
<1>0. Null \in Trees /\ Depth \in Nat
  BY TreeIs, DepthIsNat
<1>1. Null \in S
  BY <1>0, MeetsOnPathIs
<1>2. ASSUME NEW t \in Trees, t # Null, t.left \in S, t.right \in S PROVE t \in S
  <2> SUFFICES ASSUME x \notin KeysIn(t) PROVE ~MeetsOnPath[t][x][y]
    OBVIOUS
  <2>1. x \notin KeysIn(t.left) /\ t.x # x /\ x \notin KeysIn(t.right)
    BY <1>2, OfNode
  <2>2. ~MeetsOnPath[t.left][x][y] /\ ~MeetsOnPath[t.right][x][y]
    BY <1>2, <2>1
  <2>3. MeetsOnPath[t][x][y] <=>
          y <= t.y /\ (t.x = x \/ MeetsOnPath[IF x < t.x THEN t.left ELSE t.right][x][y])
    <3>1. \A T1 \in Trees : T1 # Null =>
            (MeetsOnPath[T1][x][y] <=>
               y <= T1.y /\ (T1.x = x \/ MeetsOnPath[IF x < T1.x THEN T1.left ELSE T1.right][x][y]))
      BY MeetsOnPathIs, Zenon
    <3> QED
      BY <1>2, <3>1, Zenon
  <2>4. CASE x < t.x
    BY <2>1, <2>2, <2>3, <2>4
  <2>5. CASE ~(x < t.x)
    BY <2>1, <2>2, <2>3, <2>5
  <2> QED
    BY <2>4, <2>5
<1>3. T \in S
  <2> HIDE DEF S
  <2> QED
    BY <1>0, <1>1, <1>2, TreeInduction, TreesAre
<1> QED
  BY <1>3

(* In a tree in order, get_min returns the least key.                      *)
LEMMA GetMinGood ==
  ASSUME TreapAssumption, NEW T \in Trees, Ordered(T)
  PROVE  IF T = Null THEN TreeGetMin[T] = Unset
         ELSE TreeGetMin[T] \in KeysIn(T) /\ \A u \in KeysIn(T) : TreeGetMin[T] <= u
<1> DEFINE Least(t) == TreeGetMin[t] \in KeysIn(t) /\ \A u \in KeysIn(t) : TreeGetMin[t] <= u
           S == {t \in Trees : Ordered(t) /\ t # Null => Least(t)}
<1>0. Null \in Trees /\ Depth \in Nat /\ Keys \subseteq Nat
  BY TreeIs, DepthIsNat DEF TreapAssumption
<1>1. Null \in S
  BY <1>0
<1>2. ASSUME NEW t \in Trees, t # Null, t.left \in S, t.right \in S PROVE t \in S
  <2> SUFFICES ASSUME Ordered(t) PROVE Least(t)
    OBVIOUS
  <2>1. /\ Ordered(t.left) /\ Ordered(t.right)
        /\ Below(t.left, t.x) /\ Above(t.right, t.x)
        /\ KeysIn(t) = KeysIn(t.left) \cup {t.x} \cup KeysIn(t.right)
    BY <1>2, OfNode
  <2>2. /\ t.x \in Nat /\ t.left \in Trees
        /\ KeysIn(t.left) \subseteq Nat /\ KeysIn(t.right) \subseteq Nat
    BY <1>0, <1>2, TreesBelow, KeysAre
  <2>3. CASE t.left = Null
    <3>1. TreeGetMin[t] = t.x /\ KeysIn(t.left) = {}
      BY <1>2, <2>3, TreeGetMinIs, OfNull
    <3>2. \A u \in KeysIn(t) : t.x <= u
      BY <2>1, <2>2, <3>1 DEF Above
    <3> QED
      BY <2>1, <3>1, <3>2
  <2>4. CASE t.left # Null
    <3> DEFINE g == TreeGetMin[t.left]
    <3>1. TreeGetMin[t] = g
      BY <1>2, <2>4, TreeGetMinIs
    <3>2. g \in KeysIn(t.left) /\ \A u \in KeysIn(t.left) : g <= u
      BY <1>2, <2>1, <2>4
    <3> HIDE DEF g
    <3>3. g \in Nat /\ g < t.x
      BY <2>1, <2>2, <3>2 DEF Below
    <3>4. ASSUME NEW u \in KeysIn(t.right) PROVE g <= u
      <4>1. t.x < u /\ u \in Nat
        BY <2>1, <2>2 DEF Above
      <4> QED
        BY <2>2, <3>3, <4>1
    <3>5. g <= t.x
      BY <2>2, <3>3
    <3>6. \A u \in KeysIn(t) : g <= u
      BY <2>1, <3>2, <3>4, <3>5
    <3> QED
      BY <2>1, <3>1, <3>2, <3>6
  <2> QED
    BY <2>3, <2>4
<1>3. T \in S
  <2> HIDE DEF S
  <2> QED
    BY <1>0, <1>1, <1>2, TreeInduction, TreesAre
<1> QED
  BY <1>3, TreeGetMinIs

(* The count is the number of keys that are listed.                        *)
LEMMA CountGood ==
  ASSUME TreapAssumption, NEW T \in Trees
  PROVE  TreeCount[T] = Len(InOrder[T])
<1> DEFINE S == {t \in Trees : TreeCount[t] = Len(InOrder[t])}
<1>0. Null \in Trees /\ Depth \in Nat /\ Keys \subseteq Nat
  BY TreeIs, DepthIsNat DEF TreapAssumption
<1>1. Null \in S
  <2>1. TreeCount[Null] = 0 /\ InOrder[Null] = <<>> /\ Len(<<>>) = 0
    BY TreeCountIs, InOrderIs
  <2> QED
    BY <1>0, <2>1
<1>2. ASSUME NEW t \in Trees, t # Null, t.left \in S, t.right \in S PROVE t \in S
  <2> DEFINE a == InOrder[t.left]
             b == InOrder[t.right]
  <2>1. TreeCount[t] = 1 + Len(a) + Len(b)
    BY <1>2, TreeCountIs
  <2>2. a \in Seq(Nat) /\ b \in Seq(Nat) /\ t.x \in Nat
    <3>1. t.left \in Trees /\ t.right \in Trees /\ t.x \in Keys
      BY <1>2, TreesBelow
    <3> QED
      BY <1>0, <3>1, OrderIs
  <2>3. InOrder[t] = a \o <<t.x>> \o b
    BY <1>2, InOrderIs
  <2> HIDE DEF a, b
  <2>4. Len(InOrder[t]) = Len(a) + 1 + Len(b) /\ Len(a) \in Nat /\ Len(b) \in Nat
    BY <2>2, <2>3, JoinedAround
  <2>5. TreeCount[t] = Len(InOrder[t])
    BY <2>1, <2>4
  <2> QED
    BY <2>5
<1>3. T \in S
  <2> HIDE DEF S
  <2> QED
    BY <1>0, <1>1, <1>2, TreeInduction, TreesAre
<1> QED
  BY <1>3

-----------------------------------------------------------------------------
(* The tree                                                                *)

(* Between two operations the tree is no higher than there are keys.       *)
IInv ==
  /\ tree \in TreesTo[Cardinality(Keys)] /\ held \subseteq Keys /\ sound = TRUE
  /\ Good(tree) /\ KeysIn(tree) = held

(* The trees as high as there are keys are all trees of the model.         *)
LEMMA KeysAreFew ==
  ASSUME TreapAssumption
  PROVE  /\ Cardinality(Keys) \in Nat /\ Depth = 2 * Cardinality(Keys)
         /\ TreesTo[Cardinality(Keys)] \subseteq Trees
<1>1. Cardinality(Keys) \in Nat
  BY FS_CardinalityType DEF TreapAssumption
<1>2. Cardinality(Keys) <= Depth /\ Depth \in Nat
  BY <1>1 DEF Depth
<1> QED
  BY <1>1, <1>2, Higher, TreesAre DEF Depth

(* The inductive invariant holds at the start, ...                         *)
LEMMA TreapInit ==
  ASSUME TreapAssumption, Init
  PROVE  IInv
BY KeysAreFew, NullIn, OfNull DEF Init, IInv

(* ... is kept by every insertion and deletion, ...                        *)
LEMMA TreapNext ==
  ASSUME TreapAssumption, IInv, [Next]_treap_vars
  PROVE  IInv'
<1> DEFINE c == Cardinality(Keys)
<1>1. /\ c \in Nat /\ Depth = 2 * c /\ tree \in Trees
      /\ tree \in TreesTo[c] /\ held \subseteq Keys /\ sound = TRUE
      /\ Good(tree) /\ Ordered(tree) /\ KeysIn(tree) = held
  BY KeysAreFew DEF IInv, Good
<1>2. ASSUME NEW T \in Trees, Good(T)
      PROVE  T \in TreesTo[c]
  BY <1>2, HeightFits, KeysAre DEF Good, TreapAssumption
<1>3. CASE Insert
  <2>1. PICK x \in Keys, y \in Priorities :
          /\ TreeLookup[tree][x] = Unset
          /\ tree' = TreeInsert[tree][x][y] /\ held' = held \cup {x}
          /\ sound' = (sound /\ ~MeetsOnPath[tree][x][y])
    BY <1>3 DEF Insert
  <2>2. x \notin KeysIn(tree)
    BY <1>1, <2>1, LookupGood DEF TreapAssumption, Unset
  <2>3. c + 1 <= Depth /\ c + 1 \in Nat /\ Depth \in Nat
    <3>1. c # 0
      BY FS_EmptySet DEF TreapAssumption
    <3> HIDE DEF c
    <3> QED
      BY <1>1, <3>1
  <2>4. Inserts(tree, x, y, c, tree')
    <3> HIDE DEF c
    <3> QED
      BY <1>1, <2>1, <2>2, <2>3, InsertGood
  <2>5. tree' \in Trees
    <3> HIDE DEF c
    <3> QED
      BY <2>3, <2>4, Higher, TreesAre DEF Inserts
  <2>6. tree' \in TreesTo[c]
    BY <1>2, <2>4, <2>5 DEF Inserts
  <2>7. sound' = TRUE
    BY <1>1, <2>1, <2>2, MeetsGood
  <2>8. Good(tree') /\ KeysIn(tree') = held'
    BY <1>1, <2>1, <2>4 DEF Inserts
  <2> QED
    BY <1>1, <2>1, <2>6, <2>7, <2>8 DEF IInv, Good, Ordered, KeysIn
<1>4. CASE Delete
  <2>1. PICK x \in Keys :
          /\ TreeLookup[tree][x] = x
          /\ tree' = TreeDelete[tree][x] /\ held' = held \ {x}
          /\ UNCHANGED sound
    BY <1>4 DEF Delete
  <2>2. x \in KeysIn(tree)
    BY <1>1, <2>1, LookupGood DEF TreapAssumption, Unset
  <2>3. Deletes(tree, x, c, tree')
    <3>1. 2 * c <= Depth
      BY <1>1
    <3> HIDE DEF c
    <3> QED
      BY <1>1, <2>1, <2>2, <3>1, DeleteGood
  <2>4. tree' \in Trees
    BY <1>1, <2>3, TreesAre DEF Deletes
  <2>5. tree' \in TreesTo[c]
    BY <1>2, <2>3, <2>4 DEF Deletes
  <2>6. Good(tree') /\ KeysIn(tree') = held'
    BY <1>1, <2>1, <2>3 DEF Deletes
  <2> QED
    BY <1>1, <2>1, <2>5, <2>6 DEF IInv, Good, Ordered, KeysIn
<1>5. CASE UNCHANGED treap_vars
  BY <1>5 DEF IInv, treap_vars, Good, Ordered, KeysIn
<1> QED
  BY <1>3, <1>4, <1>5 DEF Next

(* ... and implies the type invariant and the property.                    *)
LEMMA TreapGoals ==
  ASSUME TreapAssumption, IInv
  PROVE  TypeOK /\ HoldsKeys
<1>1. /\ tree \in Trees /\ held \subseteq Keys /\ sound = TRUE
      /\ Good(tree) /\ Ordered(tree) /\ TreeCheck[tree] /\ KeysIn(tree) = held
  BY KeysAreFew DEF IInv, Good
<1>2. TypeOK
  BY <1>1 DEF TypeOK
<1>3. \A x \in Keys : TreeLookup[tree][x] = IF x \in held THEN x ELSE Unset
  BY <1>1, LookupGood
<1>4. TreeCount[tree] = Len(InOrder[tree])
  BY <1>1, CountGood
<1>5. IF held = {} THEN TreeGetMin[tree] = Unset
      ELSE TreeGetMin[tree] \in held /\ \A x \in held : TreeGetMin[tree] <= x
  <2>1. tree = Null <=> held = {}
    BY <1>1, OfNull, OfNode
  <2> QED
    BY <1>1, <2>1, GetMinGood
<1>6. /\ {InOrder[tree][k] : k \in DOMAIN InOrder[tree]} = held
      /\ \A j, k \in DOMAIN InOrder[tree] : j < k => InOrder[tree][j] < InOrder[tree][k]
  BY <1>1 DEF KeysIn, Ordered, Elements, Increasing
<1> QED
  BY <1>1, <1>2, <1>3, <1>4, <1>5, <1>6 DEF HoldsKeys

(* After any insertions of keys that are not there and deletions of keys   *)
(* that are (tree_insert, tree_delete of tree.h), whatever lrand48 draws,  *)
(* no assertion of the tree has failed and it is a search tree and a heap  *)
(* of exactly the keys inserted and not deleted.                           *)
THEOREM TreapIsRight == ASSUME TreapAssumption PROVE Spec => [](TypeOK /\ HoldsKeys)
<1>1. Init => IInv
  BY TreapInit
<1>2. IInv /\ [Next]_treap_vars => IInv'
  BY TreapNext
<1>3. IInv => TypeOK /\ HoldsKeys
  BY TreapGoals
<1> QED
  BY <1>1, <1>2, <1>3, PTL DEF Spec
=============================================================================
