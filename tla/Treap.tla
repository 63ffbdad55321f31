------------------------------- MODULE Treap -------------------------------
(***************************************************************************)
(* The balanced tree of tree.h, that holds the peers and their names, the  *)
(* messages, the queries, the timers and the acks: a binary search tree of *)
(* keys that is a heap of priorities, which are drawn at random.           *)
(*                                                                         *)
(* The callers insert a key they looked up in vain and delete one they     *)
(* found; the tree itself asserts the first only on its way down, so that  *)
(* what it promises is checked against the set of its keys.                *)
(***************************************************************************)
EXTENDS Integers, Sequences, FiniteSets

CONSTANTS
  Keys,       \* numbers above 0, which is X_UNSET
  Priorities  \* what lrand48 draws

TreapAssumption ==
  Keys \subseteq Nat \ {0} /\ IsFiniteSet(Keys) /\ Priorities \subseteq Nat

VARIABLES
  tree,  \* the root
  held,  \* history: keys inserted and not deleted
  sound  \* history: no assertion of an operation failed

treap_vars == <<tree, held, sound>>

Unset == 0
Null == [x |-> Unset]
Node(x, y, left, right) == [x |-> x, y |-> y, left |-> left, right |-> right]

\* Nothing, and the nodes over two trees of S.
Over(S) == {Null} \cup [x : Keys, y : Priorities, left : S, right : S]

\* The trees no path of which is longer than n, for all that are met: while a node
\* is deleted its two trees become one.
Trees ==
  LET TreesTo[n \in Nat] == IF n = 0 THEN {Null} ELSE Over(TreesTo[n - 1])
  IN TreesTo[2 * Cardinality(Keys)]

\* tree_act: the order in which a function is applied to the keys.
InOrder[T \in Trees] ==
  IF T = Null THEN <<>> ELSE InOrder[T.left] \o <<T.x>> \o InOrder[T.right]

\* Keys up to x, and the others.
TreeSplit[T \in Trees] == [x \in Keys |->
  IF T = Null THEN [l |-> Null, r |-> Null]
  ELSE IF x < T.x
  THEN LET s == TreeSplit[T.left][x] IN [l |-> s.l, r |-> [T EXCEPT !.left = s.r]]
  ELSE LET s == TreeSplit[T.right][x] IN [l |-> [T EXCEPT !.right = s.l], r |-> s.r]]

\* The node goes where the first of a lower priority is, which is split.
TreeInsert[T \in Trees] == [x \in Keys |-> [y \in Priorities |->
  IF T = Null THEN Node(x, y, Null, Null)
  ELSE IF y > T.y THEN LET s == TreeSplit[T][x] IN Node(x, y, s.l, s.r)
  ELSE IF x < T.x THEN [T EXCEPT !.left = TreeInsert[T.left][x][y]]
  ELSE [T EXCEPT !.right = TreeInsert[T.right][x][y]]]]

\* assert (c): the key is not met on the way down.
MeetsOnPath[T \in Trees] == [x \in Keys |-> [y \in Priorities |->
  /\ T # Null /\ y <= T.y
  /\ T.x = x \/ MeetsOnPath[IF x < T.x THEN T.left ELSE T.right][x][y]]]

\* Slip: the tree of the lower priority is above.
OnTop_Upside(L, R) == L.y < R.y
OnTop(L, R) == L.y > R.y

TreeMerge[p \in Trees \X Trees] ==
  LET L == p[1]  R == p[2] IN
  IF L = Null THEN R ELSE IF R = Null THEN L
  ELSE IF OnTop(L, R) THEN [L EXCEPT !.right = TreeMerge[<<L.right, R>>]]
  ELSE [R EXCEPT !.left = TreeMerge[<<L, R.left>>]]

\* assert (T): the callers delete what is there.
TreeDelete[T \in Trees] == [x \in Keys |->
  IF T = Null THEN Null
  ELSE IF x = T.x THEN TreeMerge[<<T.left, T.right>>]
  ELSE IF x < T.x THEN [T EXCEPT !.left = TreeDelete[T.left][x]]
  ELSE [T EXCEPT !.right = TreeDelete[T.right][x]]]

TreeGetMin[T \in Trees] ==
  IF T = Null THEN Unset ELSE IF T.left = Null THEN T.x ELSE TreeGetMin[T.left]
TreeLookup[T \in Trees] == [x \in Keys |->
  IF T = Null THEN Unset ELSE IF x = T.x THEN x
  ELSE TreeLookup[IF x < T.x THEN T.left ELSE T.right][x]]
TreeCount[T \in Trees] ==
  IF T = Null THEN 0 ELSE 1 + TreeCount[T.left] + TreeCount[T.right]

\* The assertions of tree_check, which look at each node and its children only.
TreeCheck[T \in Trees] ==
  T = Null \/
  /\ T.left # Null => T.left.y <= T.y /\ T.left.x < T.x
  /\ T.right # Null => T.right.y <= T.y /\ T.right.x > T.x
  /\ TreeCheck[T.left] /\ TreeCheck[T.right]

TypeOK == tree \in Trees /\ held \subseteq Keys /\ sound \in BOOLEAN

Init == tree = Null /\ held = {} /\ sound = TRUE

Insert == \E x \in Keys, y \in Priorities :
  /\ TreeLookup[tree][x] = Unset
  /\ tree' = TreeInsert[tree][x][y] /\ held' = held \cup {x}
  /\ sound' = (sound /\ ~MeetsOnPath[tree][x][y])

Delete == \E x \in Keys :
  /\ TreeLookup[tree][x] = x
  /\ tree' = TreeDelete[tree][x] /\ held' = held \ {x}
  /\ UNCHANGED sound

Next == Insert \/ Delete
Spec == Init /\ [][Next]_treap_vars

-----------------------------------------------------------------------------
(* Properties *)

\* The tree holds what was inserted and not deleted, each key once and in
\* order; it is found, the least is what get_min returns, and the check of
\* every node against its children, which is weaker, passes.
HoldsKeys ==
  LET order == InOrder[tree] IN
  /\ sound /\ TreeCheck[tree]
  /\ {order[k] : k \in DOMAIN order} = held
  /\ \A j, k \in DOMAIN order : j < k => order[j] < order[k]
  /\ TreeCount[tree] = Len(order)
  /\ \A x \in Keys : TreeLookup[tree][x] = IF x \in held THEN x ELSE Unset
  /\ IF held = {} THEN TreeGetMin[tree] = Unset
     ELSE TreeGetMin[tree] \in held /\ \A x \in held : TreeGetMin[tree] <= x
=============================================================================
