----------------------------- MODULE AppProofs -----------------------------
(***************************************************************************)
(* The parts of App, for all bounds: the exchange of keys, the sign in,    *)
(* uploads, downloads, the index of messages, the calls of the interface,  *)
(* what is typed there, the byte streams of a connection, and the trees,   *)
(* whose lemmas are those of TreapProofs.                                  *)
(*                                                                         *)
(* A step of App is a step of one part and leaves the variables of the     *)
(* others alone.  Each part has an inductive invariant, IInv of its        *)
(* module: ...Init shows that it holds at first, ...Next that each action  *)
(* keeps it, with one lemma for an action that takes more than a few       *)
(* lines, and ...Goals that it implies the properties.  The assumptions    *)
(* are those on the constants only.                                        *)
(*                                                                         *)
(* What a loop computes is a recursive function of the number of its       *)
(* turns.  That there is one, and that each of its values has what each    *)
(* turn keeps, follows from the least number principle (LeastOf), for sets *)
(* of numbers instead of predicates: Induction, Recursion and Loop.        *)
(***************************************************************************)
EXTENDS App, FiniteSetTheorems, SequenceTheorems, WellFoundedInduction, TLAPS

-----------------------------------------------------------------------------
\* One step of App

\* A step of App is one of the exchange of keys or leaves it alone.
LEMMA KeyStep ==
  ASSUME [AppNext]_app_vars
  PROVE  [Key!Next]_(Key!handshake_vars)
<1>1. CASE UNCHANGED key_vars
  BY <1>1 DEF key_vars, Key!handshake_vars, Key!bounds, Key!dcs, Key!link, Key!machine
<1>2. CASE OnlyKeys /\ Key!Next
  BY <1>2
<1> QED
  BY <1>1, <1>2 DEF AppNext, OnlySignIn, OnlyUploads, OnlyDownloads, OnlyMessages,
     OnlyCalls, OnlyTyping, OnlyStreams, OnlyTrees, app_vars

\* A step of App is one of the sign in or leaves it alone.
LEMMA SignStep ==
  ASSUME [AppNext]_app_vars
  PROVE  [Sign!Next]_(Sign!signin_vars)
<1>1. CASE UNCHANGED sign_vars
  BY <1>1 DEF sign_vars, Sign!signin_vars, Sign!counts, Sign!story, Sign!server,
     Sign!asked, Sign!config, Sign!core
<1>2. CASE OnlySignIn /\ Sign!Next
  BY <1>2
<1> QED
  BY <1>1, <1>2 DEF AppNext, OnlyKeys, OnlyUploads, OnlyDownloads, OnlyMessages,
     OnlyCalls, OnlyTyping, OnlyStreams, OnlyTrees, app_vars

\* A step of App is one of the uploads or leaves them alone.
LEMMA UpStep ==
  ASSUME [AppNext]_app_vars
  PROVE  [Up!Next]_(Up!upload_vars)
<1>1. CASE UNCHANGED up_vars
  BY <1>1 DEF up_vars, Up!upload_vars
<1>2. CASE OnlyUploads /\ Up!Next
  BY <1>2
<1> QED
  BY <1>1, <1>2 DEF AppNext, OnlyKeys, OnlySignIn, OnlyDownloads, OnlyMessages,
     OnlyCalls, OnlyTyping, OnlyStreams, OnlyTrees, app_vars

\* A step of App is one of the downloads or leaves them alone.
LEMMA DownStep ==
  ASSUME [AppNext]_app_vars
  PROVE  [Down!Next]_(Down!download_vars)
<1>1. CASE UNCHANGED down_vars
  BY <1>1 DEF down_vars, Down!download_vars
<1>2. CASE OnlyDownloads /\ Down!Next
  BY <1>2
<1> QED
  BY <1>1, <1>2 DEF AppNext, OnlyKeys, OnlySignIn, OnlyUploads, OnlyMessages,
     OnlyCalls, OnlyTyping, OnlyStreams, OnlyTrees, app_vars

\* A step of App is one of the index of messages or leaves it alone.
LEMMA IndexStep ==
  ASSUME [AppNext]_app_vars
  PROVE  [Index!Next]_(Index!index_vars)
<1>1. CASE UNCHANGED index_vars
  BY <1>1 DEF index_vars, Index!index_vars, Index!index
<1>2. CASE OnlyMessages /\ Index!Next
  BY <1>2
<1> QED
  BY <1>1, <1>2 DEF AppNext, OnlyKeys, OnlySignIn, OnlyUploads, OnlyDownloads,
     OnlyCalls, OnlyTyping, OnlyStreams, OnlyTrees, app_vars

\* A step of App is one of the calls of the interface or leaves it alone.
LEMMA FrontStep ==
  ASSUME [AppNext]_app_vars
  PROVE  [Front!Next]_(Front!frontend_vars)
<1>1. CASE UNCHANGED list_vars
  BY <1>1 DEF list_vars, Front!frontend_vars, Front!making, Front!refreshing, Front!naming
<1>2. CASE OnlyCalls /\ Front!Next
  BY <1>2
<1> QED
  BY <1>1, <1>2 DEF AppNext, OnlyKeys, OnlySignIn, OnlyUploads, OnlyDownloads,
     OnlyMessages, OnlyTyping, OnlyStreams, OnlyTrees, app_vars, front_vars

\* A step of App is one of what is typed or leaves it alone.
LEMMA OutStep ==
  ASSUME [AppNext]_app_vars
  PROVE  [Out!Next]_(Out!outbox_vars)
<1>1. CASE UNCHANGED out_vars
  BY <1>1 DEF out_vars, Out!outbox_vars
<1>2. CASE OnlyTyping /\ Out!Next
  BY <1>2
<1> QED
  BY <1>1, <1>2 DEF AppNext, OnlyKeys, OnlySignIn, OnlyUploads, OnlyDownloads,
     OnlyMessages, OnlyCalls, OnlyStreams, OnlyTrees, app_vars, front_vars

\* A step of App is one of the byte streams or leaves them alone.
LEMMA BufStep ==
  ASSUME [AppNext]_app_vars
  PROVE  [Buf!Next]_(Buf!buffers_vars)
<1>1. CASE UNCHANGED buf_vars
  BY <1>1 DEF buf_vars, Buf!buffers_vars, Buf!out, Buf!in
<1>2. CASE OnlyStreams /\ Buf!Next
  BY <1>2
<1> QED
  BY <1>1, <1>2 DEF AppNext, OnlyKeys, OnlySignIn, OnlyUploads, OnlyDownloads,
     OnlyMessages, OnlyCalls, OnlyTyping, OnlyTrees, app_vars

\* A step of App is one of the trees or leaves them alone.
LEMMA TreeStep ==
  ASSUME [AppNext]_app_vars
  PROVE  [Tree!Next]_(Tree!treap_vars)
<1>1. CASE UNCHANGED tree_vars
  BY <1>1 DEF tree_vars, Tree!treap_vars
<1>2. CASE OnlyTrees /\ Tree!Next
  BY <1>2
<1> QED
  BY <1>1, <1>2 DEF AppNext, OnlyKeys, OnlySignIn, OnlyUploads, OnlyDownloads,
     OnlyMessages, OnlyCalls, OnlyTyping, OnlyStreams, app_vars

-----------------------------------------------------------------------------
\* Sums

\* The sum of the numbers of a function, as a number of pairs.
Sum(n) == Cardinality(UNION {{s} \X (1..n[s]) : s \in DOMAIN n})

\* The pairs that Sum counts are finitely many.
LEMMA PairsAreFinite ==
  ASSUME NEW D, IsFiniteSet(D), NEW n \in [D -> Nat]
  PROVE  /\ IsFiniteSet(UNION {{s} \X (1..n[s]) : s \in D})
         /\ Sum(n) \in Nat
<1> DEFINE Pairs(s) == {s} \X (1..n[s])
           T == {Pairs(s) : s \in D}
           f == [s \in D |-> Pairs(s)]
<1>1. \A s \in D : IsFiniteSet(Pairs(s))
  <2> TAKE s \in D
  <2>1. IsFiniteSet({s})
    BY FS_Singleton
  <2>2. IsFiniteSet(1..n[s])
    BY FS_Interval
  <2> QED
    BY <2>1, <2>2, FS_Product
<1>2. IsFiniteSet(T)
  <2>1. f \in Surjection(D, T)
    <3> HIDE DEF Pairs
    <3> QED
      BY DEF Surjection
  <2> HIDE DEF f, T
  <2> QED
    BY <2>1, FS_Surjection DEF ExistsSurjection
<1>3. \A U \in T : IsFiniteSet(U)
  <2> HIDE DEF Pairs
  <2> QED
    BY <1>1
<1>4. IsFiniteSet(UNION T)
  <2> HIDE DEF T
  <2> QED
    BY <1>2, <1>3, FS_UNION
<1>5. Sum(n) = Cardinality(UNION T)
  BY DEF Sum
<1> QED
  <2> HIDE DEF T
  <2>1. Cardinality(UNION T) \in Nat
    BY <1>4, FS_CardinalityType
  <2> QED
    BY <1>4, <1>5, <2>1 DEF T

\* One more place adds what stands there.
LEMMA SumWith ==
  ASSUME NEW D, IsFiniteSet(D), NEW d, d \notin D,
         NEW n \in [D -> Nat], NEW m \in [D \cup {d} -> Nat],
         \A s \in D : m[s] = n[s]
  PROVE  Sum(m) = Sum(n) + m[d]
<1> DEFINE A == UNION {{s} \X (1..n[s]) : s \in D}
           B == {d} \X (1..m[d])
           C == UNION {{s} \X (1..m[s]) : s \in D \cup {d}}
<1>1. IsFiniteSet(A) /\ Cardinality(A) \in Nat
  BY PairsAreFinite, FS_CardinalityType
<1>2. IsFiniteSet(B) /\ Cardinality(B) = m[d]
  <2>1. IsFiniteSet({d}) /\ Cardinality({d}) = 1
    BY FS_Singleton
  <2>2. m[d] \in Nat
    OBVIOUS
  <2>3. IsFiniteSet(1..m[d]) /\ Cardinality(1..m[d]) = m[d]
    BY <2>2, FS_Interval
  <2>4. IsFiniteSet(B) /\ Cardinality(B) = Cardinality({d}) * Cardinality(1..m[d])
    BY <2>1, <2>3, FS_Product
  <2>5. Cardinality(B) = 1 * m[d]
    BY <2>1, <2>3, <2>4
  <2> QED
    BY <2>2, <2>4, <2>5
<1>3. C = A \cup B
  <2>1. \A s \in D : {s} \X (1..m[s]) = {s} \X (1..n[s])
    OBVIOUS
  <2>2. C = (UNION {{s} \X (1..m[s]) : s \in D}) \cup B
    <3> DEFINE P(s) == {s} \X (1..m[s])
    <3>1. UNION {P(s) : s \in D \cup {d}} = (UNION {P(s) : s \in D}) \cup P(d)
      <4> HIDE DEF P
      <4> QED
        OBVIOUS
    <3> QED
      BY <3>1
  <2>3. {{s} \X (1..m[s]) : s \in D} = {{s} \X (1..n[s]) : s \in D}
    BY <2>1
  <2> QED
    BY <2>2, <2>3
<1>4. A \cap B = {}
  <2> SUFFICES ASSUME NEW p, p \in A, p \in B PROVE FALSE
    OBVIOUS
  <2>1. PICK s \in D : p \in {s} \X (1..n[s])
    OBVIOUS
  <2>2. p[1] = s /\ p[1] = d
    BY <2>1
  <2> QED
    BY <2>2
<1>5. Cardinality(A \cup B) = Cardinality(A) + m[d]
  <2> HIDE DEF A, B
  <2>1. Cardinality(A \cup B) = Cardinality(A) + Cardinality(B) - Cardinality(A \cap B)
    BY <1>1, <1>2, FS_Union
  <2>2. Cardinality(A \cap B) = 0
    BY <1>4, FS_EmptySet
  <2>3. m[d] \in Nat
    OBVIOUS
  <2> QED
    BY <1>1, <1>2, <2>1, <2>2, <2>3
<1>6. Sum(n) = Cardinality(A) /\ Sum(m) = Cardinality(C)
  BY DEF Sum
<1> QED
  <2> HIDE DEF A, B, C
  <2> QED
    BY <1>3, <1>5, <1>6

\* A sum that changes at one place changes by as much.
LEMMA SumBut ==
  ASSUME NEW D, IsFiniteSet(D), NEW d \in D,
         NEW n \in [D -> Nat], NEW m \in [D -> Nat],
         \A s \in D \ {d} : m[s] = n[s]
  PROVE  Sum(m) = Sum(n) + m[d] - n[d]
<1>1. PICK r : r = [s \in D \ {d} |-> n[s]]
  OBVIOUS
<1>2. r \in [D \ {d} -> Nat] /\ \A s \in D \ {d} : n[s] = r[s] /\ m[s] = r[s]
  BY <1>1
<1>3. IsFiniteSet(D \ {d}) /\ (D \ {d}) \cup {d} = D
  BY FS_RemoveElement
<1>4. PICK E : E = D \ {d}
  OBVIOUS
<1>5. n \in [E \cup {d} -> Nat] /\ m \in [E \cup {d} -> Nat] /\ d \notin E
  BY <1>3, <1>4
<1>6. Sum(n) = Sum(r) + n[d] /\ Sum(m) = Sum(r) + m[d]
  BY <1>2, <1>3, <1>4, <1>5, SumWith
<1>7. Sum(r) \in Nat /\ n[d] \in Nat /\ m[d] \in Nat
  BY <1>2, <1>3, PairsAreFinite
<1> QED
  BY <1>6, <1>7

\* The sum over nothing is 0.
LEMMA SumOfNothing ==
  ASSUME NEW n, DOMAIN n = {}
  PROVE  Sum(n) = 0
<1>1. UNION {{s} \X (1..n[s]) : s \in DOMAIN n} = {}
  OBVIOUS
<1> QED
  BY <1>1, FS_EmptySet DEF Sum

\* Uploads and downloads count their pairs as this module does.
LEMMA SameCount ==
  ASSUME NEW S
  PROVE  /\ Up!Cardinality(S) = Cardinality(S) /\ Down!Cardinality(S) = Cardinality(S)
         /\ Up!IsFiniteSet(S) <=> IsFiniteSet(S)
         /\ Down!IsFiniteSet(S) <=> IsFiniteSet(S)
<1>1. Up!Cardinality(S) = Cardinality(S)
  BY Zenon DEF Up!Cardinality, Cardinality
<1>2. Down!Cardinality(S) = Cardinality(S)
  BY Zenon DEF Down!Cardinality, Cardinality
<1>3. Up!IsFiniteSet(S) <=> IsFiniteSet(S)
  BY Zenon DEF Up!IsFiniteSet, IsFiniteSet
<1>4. Down!IsFiniteSet(S) <=> IsFiniteSet(S)
  BY Zenon DEF Down!IsFiniteSet, IsFiniteSet
<1> QED
  BY <1>1, <1>2, <1>3, <1>4


-----------------------------------------------------------------------------
\* Loops and sequences

\* A set of numbers has a least one.
LEMMA LeastOf ==
  ASSUME NEW T \in SUBSET Nat, T # {}
  PROVE  \E n \in T : \A m \in T : n <= m
<1> DEFINE R == {ss \in Nat \X Nat : ss[1] < ss[2]}
<1>1. IsWellFoundedOn(R, Nat)
  BY NatLessThanWellFounded DEF OpToRel
<1>2. PICK x \in T : \A y \in T : <<y, x>> \notin R
  <2> HIDE DEF R
  <2> QED
    BY <1>1, WFMin
<1>3. ASSUME NEW y \in T, y < x PROVE FALSE
  <2> DEFINE p == <<y, x>>
  <2>1. p \in Nat \X Nat /\ p[1] = y /\ p[2] = x
    OBVIOUS
  <2>2. p \in R
    <3> HIDE DEF p
    <3> QED
      BY <1>3, <2>1
  <2> QED
    BY <1>2, <2>2
<1> QED
  BY <1>2, <1>3

\* A set that has 0, and n + 1 with every n, has every number: its
\* complement has no least one.
LEMMA Induction ==
  ASSUME NEW T, 0 \in T, \A n \in Nat : n \in T => n + 1 \in T
  PROVE  \A n \in Nat : n \in T
<1> SUFFICES ASSUME NEW k \in Nat, k \notin T PROVE FALSE
  OBVIOUS
<1> DEFINE F == {n \in Nat : n \notin T}
<1>1. PICK n \in F : \A m \in F : n <= m
  <2>1. F \in SUBSET Nat /\ F # {}
    OBVIOUS
  <2> HIDE DEF F
  <2> QED
    BY <2>1, LeastOf
<1>2. n \in Nat /\ n # 0
  OBVIOUS
<1>3. n - 1 \in Nat /\ n - 1 \in T
  BY <1>1, <1>2
<1> QED
  BY <1>2, <1>3

\* f is what a loop of N turns computes, from turn m on.
Turns(f, V, m, a, N, step) ==
  f \in [m..N -> V] /\ \A n \in m..N : f[n] = IF n = m THEN a ELSE step[<<n, f[n - 1]>>]

\* There is such a function, so that CHOOSE finds it: those of k turns and
\* of k + 1 are equal up to k.
LEMMA Recursion ==
  ASSUME NEW V, NEW a \in V, NEW m \in Nat, NEW N \in Nat, NEW step \in [Nat \X V -> V]
  PROVE  \E f : Turns(f, V, m, a, N, step)
<1> DEFINE Right(f, k) == \A n \in m..k : f[n] = IF n = m THEN a
    ELSE step[<<n, f[n - 1]>>]
           T == {k \in Nat : \E f \in [m..k -> V] : Right(f, k)}
<1>1. 0 \in T
  <2>1. CASE m = 0
    <3> DEFINE f == [n \in m..0 |-> a]
    <3>1. f \in [m..0 -> V] /\ Right(f, 0)
      BY <2>1
    <3> QED
      BY <3>1
  <2>2. CASE m # 0
    <3> DEFINE f == [n \in m..0 |-> a]
    <3>1. f \in [m..0 -> V] /\ Right(f, 0)
      BY <2>2
    <3> QED
      BY <3>1
  <2> QED
    BY <2>1, <2>2
<1>2. ASSUME NEW k \in Nat, k \in T PROVE k + 1 \in T
  <2>1. PICK f \in [m..k -> V] : Right(f, k)
    BY <1>2
  <2> DEFINE g == [n \in m..(k + 1) |-> IF n = k + 1 THEN IF n = m THEN a ELSE step[<<n, f[n - 1]>>]
                                        ELSE f[n]]
  <2>2. g \in [m..(k + 1) -> V]
    <3> SUFFICES ASSUME NEW n \in m..(k + 1) PROVE g[n] \in V
      OBVIOUS
    <3>1. CASE n = k + 1 /\ n # m
      <4>1. n - 1 \in m..k
        BY <3>1
      <4>2. <<n, f[n - 1]>> \in Nat \X V
        BY <2>1, <4>1
      <4> QED
        BY <3>1, <4>2
    <3> QED
      BY <2>1, <3>1
  <2>3. Right(g, k + 1)
    <3> SUFFICES ASSUME NEW n \in m..(k + 1)
                 PROVE  g[n] = IF n = m THEN a ELSE step[<<n, g[n - 1]>>]
      OBVIOUS
    <3>1. CASE n = k + 1
      <4>1. n # m => g[n - 1] = f[n - 1]
        BY <3>1
      <4> QED
        BY <3>1, <4>1
    <3>2. CASE n # k + 1
      <4>1. n \in m..k /\ g[n] = f[n]
        BY <3>2
      <4>2. n # m => g[n - 1] = f[n - 1]
        BY <3>2
      <4>3. f[n] = IF n = m THEN a ELSE step[<<n, f[n - 1]>>]
        BY <2>1, <4>1
      <4> QED
        BY <4>1, <4>2, <4>3
    <3> QED
      BY <3>1, <3>2
  <2> HIDE DEF g, Right
  <2> QED
    BY <2>2, <2>3
<1>3. N \in T
  <2> HIDE DEF T
  <2> QED
    BY <1>1, <1>2, Induction
<1> QED
  BY <1>3 DEF Turns

\* f is what N turns of the same step compute.
Repeats(f, V, a, N, step) ==
  f \in [0..N -> V] /\ \A n \in 0..N : f[n] = IF n = 0 THEN a ELSE step[f[n - 1]]

\* There is such a function, too.
LEMMA Repeated ==
  ASSUME NEW V, NEW a \in V, NEW N \in Nat, NEW step \in [V -> V]
  PROVE  \E f : Repeats(f, V, a, N, step)
<1> DEFINE next == [p \in Nat \X V |-> step[p[2]]]
           m == 0
<1>1. next \in [Nat \X V -> V] /\ m \in Nat
  OBVIOUS
<1>2. \A n \in Nat, v \in V : next[<<n, v>>] = step[v]
  OBVIOUS
<1>3. PICK f : Turns(f, V, m, a, N, next)
  <2> HIDE DEF next, m
  <2> QED
    BY <1>1, Recursion
<1>4. f \in [0..N -> V] /\ \A n \in 0..N : f[n] = IF n = 0 THEN a
      ELSE next[<<n, f[n - 1]>>]
  BY <1>3 DEF Turns
<1>5. ASSUME NEW n \in 0..N PROVE f[n] = IF n = 0 THEN a ELSE step[f[n - 1]]
  <2>1. CASE n # 0
    <3>1. n - 1 \in 0..N /\ n \in Nat
      BY <2>1
    <3>2. f[n - 1] \in V
      BY <1>4, <3>1
    <3> HIDE DEF next
    <3> QED
      BY <1>2, <1>4, <3>1, <3>2
  <2>2. CASE n = 0
    BY <1>4, <2>2
  <2> QED
    BY <2>1, <2>2
<1> QED
  BY <1>4, <1>5 DEF Repeats

\* f is what N turns compute, each of which takes a pair in P, of the
\* number of turns that were taken and the value, to another.
Steps(f, P, a, N, step) ==
  /\ f = [n \in 0..N |-> f[n]] /\ f[0] = a
  /\ \A n \in 0..N : <<n, f[n]>> \in P
  /\ \A n \in 1..N : f[n] = step[<<n - 1, f[n - 1]>>]

\* A turn leads from P to P.
Keeps(step, P, V, N) ==
  \A n \in Nat, v \in V : n < N /\ <<n, v>> \in P => <<n + 1, step[<<n, v>>]>> \in P

\* f follows the turns as long as it is in P.
Follows(f, P, a, N, step) ==
  f[0] = a /\ \A n \in 1..N : <<n - 1, f[n - 1]>> \in P => f[n] =
  step[<<n - 1, f[n - 1]>>]

\* f is in P after each turn.
Stays(f, P, N) == \A n \in 0..N : <<n, f[n]>> \in P

\* There is such a function when the turns lead from P to P.
LEMMA Loop ==
  ASSUME NEW V, NEW N \in Nat, NEW P \in SUBSET (Nat \X V), NEW a, <<0, a>> \in P,
         NEW step \in [P -> V], Keeps(step, P, V, N)
  PROVE  \E f : Steps(f, P, a, N, step)
<1> DEFINE next == [p \in Nat \X V |-> IF <<p[1] - 1, p[2]>> \in P THEN step[<<p[1] - 1,
                                                                               p[2]>>]
                                       ELSE p[2]]
<1>1. next \in [Nat \X V -> V]
  OBVIOUS
<1>2. a \in V
  OBVIOUS
<1>3. \A n \in Nat, v \in V : <<n - 1, v>> \in P => next[<<n, v>>] = step[<<n - 1, v>>]
  OBVIOUS
<1> HIDE DEF next
<1>4. PICK f : Turns(f, V, 0, a, N, next)
  BY <1>1, <1>2, Recursion
<1>5. f \in [0..N -> V] /\ \A n \in 0..N : f[n] = IF n = 0 THEN a
      ELSE next[<<n, f[n - 1]>>]
  BY <1>4 DEF Turns
<1>6. f[0] = a
  <2>1. 0 \in 0..N
    OBVIOUS
  <2> QED
    BY <1>5, <2>1
<1> DEFINE T == {n \in Nat : n <= N => <<n, f[n]>> \in P}
<1>7. ASSUME NEW n \in Nat, n <= N, n # 0, <<n - 1, f[n - 1]>> \in P
      PROVE  f[n] = step[<<n - 1, f[n - 1]>>] /\ <<n, f[n]>> \in P
  <2>1. n - 1 \in Nat /\ n - 1 < N /\ (n - 1) + 1 = n /\ n \in 0..N /\ n - 1 \in 0..N
    BY <1>7
  <2>2. f[n - 1] \in V /\ f[n] = next[<<n, f[n - 1]>>]
    BY <1>5, <1>7, <2>1
  <2>3. f[n] = step[<<n - 1, f[n - 1]>>]
    BY <1>3, <1>7, <2>2
  <2>4. <<(n - 1) + 1, step[<<n - 1, f[n - 1]>>]>> \in P
    BY <1>7, <2>1, <2>2 DEF Keeps
  <2> QED
    BY <2>1, <2>3, <2>4
<1>8. 0 \in T
  BY <1>6
<1>9. ASSUME NEW n \in Nat, n \in T PROVE n + 1 \in T
  <2> SUFFICES ASSUME n + 1 <= N PROVE <<n + 1, f[n + 1]>> \in P
    OBVIOUS
  <2>1. (n + 1) - 1 = n /\ n <= N /\ n + 1 # 0 /\ n + 1 \in Nat
    OBVIOUS
  <2>2. <<n, f[n]>> \in P
    BY <1>9, <2>1
  <2> HIDE DEF T
  <2> QED
    BY <1>7, <2>1, <2>2
<1>10. \A n \in Nat : n \in T
  <2> HIDE DEF T
  <2> QED
    BY <1>8, <1>9, Induction
<1>11. \A n \in 0..N : <<n, f[n]>> \in P
  BY <1>10
<1>12. \A n \in 1..N : f[n] = step[<<n - 1, f[n - 1]>>]
  <2> TAKE n \in 1..N
  <2>1. n \in Nat /\ n <= N /\ n # 0 /\ n - 1 \in 0..N
    OBVIOUS
  <2> HIDE DEF T
  <2> QED
    BY <1>7, <1>11, <2>1
<1>13. f = [n \in 0..N |-> f[n]]
  BY <1>5
<1> HIDE DEF T
<1> QED
  BY <1>6, <1>11, <1>12, <1>13 DEF Steps

\* A function that follows the turns stays in P.
LEMMA LoopKeeps ==
  ASSUME NEW V, NEW N \in Nat, NEW P \in SUBSET (Nat \X V), NEW a, <<0, a>> \in P,
         NEW step, Keeps(step, P, V, N), NEW f, Follows(f, P, a, N, step)
  PROVE  Stays(f, P, N)
<1> DEFINE T == {n \in Nat : n <= N => <<n, f[n]>> \in P}
<1>1. 0 \in T
  BY DEF Follows
<1>2. ASSUME NEW n \in Nat, n \in T PROVE n + 1 \in T
  <2> SUFFICES ASSUME n + 1 <= N PROVE <<n + 1, f[n + 1]>> \in P
    OBVIOUS
  <2>1. (n + 1) - 1 = n /\ n <= N /\ n < N /\ n + 1 \in 1..N
    OBVIOUS
  <2>2. <<n, f[n]>> \in P
    BY <1>2, <2>1
  <2>3. f[n] \in V
    BY <2>2
  <2>4. f[n + 1] = step[<<n, f[n]>>]
    BY <2>1, <2>2 DEF Follows
  <2>5. <<n + 1, step[<<n, f[n]>>]>> \in P
    BY <2>1, <2>2, <2>3 DEF Keeps
  <2> QED
    BY <2>4, <2>5
<1>3. \A n \in Nat : n \in T
  <2> HIDE DEF T
  <2> QED
    BY <1>1, <1>2, Induction
<1> QED
  BY <1>3 DEF Stays

\* What has a length is not empty.
LEMMA NotEmpty ==
  ASSUME NEW S, NEW c \in Seq(S), Len(c) # 0
  PROVE  c # <<>>
OBVIOUS

\* What has none is.
LEMMA Empty ==
  ASSUME NEW S, NEW c \in Seq(S), Len(c) = 0
  PROVE  c = <<>>
OBVIOUS

\* What is not empty has a length.
LEMMA LenPositive ==
  ASSUME NEW S, NEW c \in Seq(S), c # <<>>
  PROVE  Len(c) \in Nat \ {0}
OBVIOUS

\* Of three sequences any two may be joined first.
LEMMA Assoc ==
  ASSUME NEW S, NEW x \in Seq(S), NEW y \in Seq(S), NEW z \in Seq(S)
  PROVE  (x \o y) \o z = x \o (y \o z)
OBVIOUS

\* What is appended to the second of two is appended to both.
LEMMA AppendConcat ==
  ASSUME NEW S, NEW x \in Seq(S), NEW y \in Seq(S), NEW b \in S
  PROVE  x \o Append(y, b) = Append(x \o y, b)
OBVIOUS

\* The first n elements of a sequence.
LEMMA Prefix ==
  ASSUME NEW S, NEW x \in Seq(S), NEW n \in 0..Len(x)
  PROVE  /\ SubSeq(x, 1, n) \in Seq(S) /\ Len(SubSeq(x, 1, n)) = n
         /\ \A i \in 1..n : SubSeq(x, 1, n)[i] = x[i]
<1>1. Len(x) \in Nat /\ n \in Nat /\ 1 \in Int /\ n \in Int
  OBVIOUS
<1>2. \A k \in 1..n : x[k] \in S
  BY <1>1, ElementOfSeq
<1> DEFINE F == SubSeq(x, 1, n)
<1>3. F \in Seq(S) /\ Len(F) = (IF 1 <= n THEN n - 1 + 1 ELSE 0)
        /\ \A k \in 1..(n - 1 + 1) : F[k] = x[1 + k - 1]
  BY <1>1, <1>2, SubSeqProperties
<1> HIDE DEF F
<1>4. Len(F) = n /\ \A i \in 1..n : F[i] = x[i]
  BY <1>1, <1>3
<1> QED
  BY <1>3, <1>4 DEF F

\* What lies between two places of a sequence, in parts.
LEMMA Middle ==
  ASSUME NEW S, NEW x \in Seq(S), NEW m \in Nat, NEW n \in Nat, m <= n, n <= Len(x)
  PROVE  /\ SubSeq(x, m + 1, n) \in Seq(S) /\ Len(SubSeq(x, m + 1, n)) = n - m
         /\ \A i \in 1..(n - m) : SubSeq(x, m + 1, n)[i] = x[m + i]
<1> DEFINE a == m + 1
<1>1. Len(x) \in Nat /\ n \in Int /\ a \in Int /\ a \in Nat
  OBVIOUS
<1>2. \A k \in a..n : x[k] \in S
  BY <1>1, ElementOfSeq
<1> DEFINE F == SubSeq(x, a, n)
<1>3. F \in Seq(S) /\ Len(F) = (IF a <= n THEN n - a + 1 ELSE 0)
        /\ \A k \in 1..(n - a + 1) : F[k] = x[a + k - 1]
  <2> HIDE DEF a
  <2> QED
    BY <1>1, <1>2, SubSeqProperties
<1>5. SubSeq(x, m + 1, n) = F
  OBVIOUS
<1> HIDE DEF F
<1>4. n - a + 1 = n - m /\ (~(a <= n) => n - m = 0)
      /\ \A i \in 1..(n - m) : a + i - 1 = m + i
  BY <1>1
<1>6. Len(F) = n - m
  BY <1>3, <1>4
<1>7. \A i \in 1..(n - m) : F[i] = x[m + i]
  <2> HIDE DEF a
  <2> QED
    BY <1>3, <1>4
<1> QED
  BY <1>3, <1>5, <1>6, <1>7

\* A sequence is its first n elements and the others.
LEMMA SplitAt ==
  ASSUME NEW S, NEW x \in Seq(S), NEW n \in 0..Len(x)
  PROVE  SubSeq(x, 1, n) \o SubSeq(x, n + 1, Len(x)) = x
<1> DEFINE y == SubSeq(x, 1, n)
           z == SubSeq(x, n + 1, Len(x))
           N == Len(x)
<1>1. N \in Nat /\ n \in Nat /\ n <= N
  OBVIOUS
<1>2. y \in Seq(S) /\ Len(y) = n /\ \A i \in 1..n : y[i] = x[i]
  BY Prefix
<1>3. z \in Seq(S) /\ Len(z) = N - n /\ \A i \in 1..(N - n) : z[i] = x[n + i]
  BY <1>1, Middle
<1> HIDE DEF y, z
<1>8. y \o z \in Seq(S) /\ Len(y \o z) = Len(y) + Len(z)
      /\ \A i \in 1..(Len(y) + Len(z)) : (y \o z)[i] = IF i <= Len(y) THEN y[i]
         ELSE z[i - Len(y)]
  BY <1>2, <1>3, ConcatProperties
<1>4. y \o z \in Seq(S) /\ Len(y \o z) = n + (N - n)
      /\ \A i \in 1..(n + (N - n)) : (y \o z)[i] = IF i <= n THEN y[i] ELSE z[i - n]
  BY <1>2, <1>3, <1>8
<1>5. n + (N - n) = N
  BY <1>1
<1>6. \A i \in 1..N : (y \o z)[i] = x[i]
  <2> TAKE i \in 1..N
  <2> HIDE DEF N
  <2>1. CASE i <= n
    BY <1>1, <1>2, <1>4, <1>5, <2>1
  <2>2. CASE ~(i <= n)
    <3>1. i - n \in 1..(N - n) /\ n + (i - n) = i
      BY <1>1, <2>2
    <3>2. z[i - n] = x[n + (i - n)]
      BY <1>3, <3>1
    <3> QED
      BY <1>4, <1>5, <2>2, <3>1, <3>2
  <2> QED
    BY <2>1, <2>2
<1>7. y \o z = x
  BY <1>4, <1>5, <1>6, SeqEqual
<1> QED
  BY <1>7 DEF y, z

-----------------------------------------------------------------------------
\* The exchange of keys

\* When the process stops for a reason that is listed, nothing else need
\* be shown.
LEMMA Stopped ==
  ASSUME Key!IInv, alive' = FALSE, why' # {}, why' \subseteq Key!Reason,
         UNCHANGED <<cState, nonce, success, conn, wire, authKey, flags, clock, kept>>,
         UNCHANGED <<turn, logs, agreed>>
  PROVE  Key!IInv'
<1>1. Key!TypeOK'
  BY DEF Key!IInv, Key!TypeOK
<1>2. Key!Records'
  <2>1. alive' \in BOOLEAN /\ logs' \in BOOLEAN
    BY DEF Key!IInv, Key!Records
  <2> QED
    BY <2>1 DEF Key!IInv, Key!Records
<1>3. Key!TurnFits'
  BY DEF Key!IInv, Key!TurnFits
<1>4. Key!WireFits'
  BY DEF Key!IInv, Key!WireFits
<1>5. Key!InStep'
  BY DEF Key!InStep
<1> QED
  BY <1>1, <1>2, <1>3, <1>4, <1>5 DEF Key!IInv

\* The exchange begins with a data centre that has no key (dc_authorize).
LEMMA Authorize_Keeps ==
  ASSUME Key!HandshakeAssumption, Key!IInv, Key!Authorize
  PROVE  Key!IInv'
<1>1. Key!TypeOK'
  <2>1. PICK d \in DCs : /\ turn' = d /\ cState' = "init" /\ success' = FALSE
                         /\ conn' = [conn EXCEPT ![d] = IF @ = "none" THEN "connecting" ELSE @]
    BY DEF Key!Authorize, Key!DcAuthorize
  <2>2. conn' \in [DCs -> {"none", "connecting", "ready"}]
    BY <2>1 DEF Key!IInv, Key!TypeOK
  <2>3. \A e \in DCs : conn'[e] # "ready" => conn[e] # "ready"
    BY <2>1 DEF Key!IInv, Key!TypeOK
  <2>4. UNCHANGED <<nonce, wire, authKey, clock, flags, why>>
    BY DEF Key!Authorize, Key!dcs
  <2> QED
    BY <2>1, <2>2, <2>3, <2>4 DEF Key!IInv, Key!TypeOK, Key!State
<1>2. Key!Records'
  BY DEF Key!IInv, Key!Authorize, Key!dcs, Key!Records
<1>3. Key!TurnFits'
  BY DEF Key!IInv, Key!Authorize, Key!DcAuthorize, Key!dcs, Key!TurnFits, Key!NoDC,
     Key!HandshakeAssumption
<1>4. Key!WireFits'
  BY DEF Key!IInv, Key!Authorize, Key!dcs, Key!WireFits
<1>5. Key!InStep'
  BY DEF Key!IInv, Key!Authorize, Key!DcAuthorize, Key!dcs, Key!InStep, Key!TurnFits,
     Key!Records, Key!TypeOK, Key!NoDC, Key!HandshakeAssumption
<1> QED
  BY <1>1, <1>2, <1>3, <1>4, <1>5 DEF Key!IInv

\* The loop goes on to the next data centre when auth_success is set.
LEMMA Authorized_Keeps ==
  ASSUME Key!HandshakeAssumption, Key!IInv, Key!Authorized
  PROVE  Key!IInv'
<1>1. Key!TypeOK'
  BY DEF Key!IInv, Key!Authorized, Key!machine, Key!link, Key!dcs, Key!TypeOK
<1>2. Key!Records'
  BY DEF Key!IInv, Key!Authorized, Key!link, Key!dcs, Key!Records
<1>3. Key!TurnFits'
  BY DEF Key!IInv, Key!Authorized, Key!machine, Key!link, Key!dcs, Key!TurnFits
<1>4. Key!WireFits'
  BY DEF Key!IInv, Key!Authorized, Key!link, Key!dcs, Key!WireFits
<1>5. Key!InStep'
  BY DEF Key!IInv, Key!Authorized, Key!dcs, Key!InStep, Key!NoDC, Key!HandshakeAssumption
<1> QED
  BY <1>1, <1>2, <1>3, <1>4, <1>5 DEF Key!IInv

\* A session is made for a data centre that has its key.
LEMMA DcCreateSession_Keeps ==
  ASSUME Key!HandshakeAssumption, Key!IInv, Key!DcCreateSession
  PROVE  Key!IInv'
<1>1. Key!TypeOK'
  BY DEF Key!IInv, Key!DcCreateSession, Key!machine, Key!dcs, Key!TypeOK
<1>2. Key!Records'
  BY DEF Key!IInv, Key!DcCreateSession, Key!dcs, Key!Records
<1>3. Key!TurnFits'
  BY DEF Key!IInv, Key!DcCreateSession, Key!machine, Key!dcs, Key!TurnFits
<1>4. Key!WireFits'
  BY DEF Key!IInv, Key!DcCreateSession, Key!dcs, Key!WireFits
<1>5. Key!InStep'
  BY DEF Key!IInv, Key!DcCreateSession, Key!dcs, Key!InStep, Key!NoDC,
     Key!HandshakeAssumption
<1> QED
  BY <1>1, <1>2, <1>3, <1>4, <1>5 DEF Key!IInv

\* A connection is made: the exchange begins on it, it is used with its
\* key, or an assertion fails (tc_becomes_ready).
LEMMA TcBecomesReady_Keeps ==
  ASSUME Key!HandshakeAssumption, Key!IInv, Key!TcBecomesReady
  PROVE  Key!IInv'
<1>a. PICK d \in DCs : /\ alive /\ conn[d] = "connecting"
       /\ \/ Key!EffectiveState(d) = "init" /\ conn' = [conn EXCEPT ![d] = "ready"]
             /\ Key!SendReqPq(d)
          \/ /\ Key!EffectiveState(d) = "authorized" /\ conn' =
                [conn EXCEPT ![d] = "ready"]
             /\ UNCHANGED <<Key!machine, wire, Key!dcs, kept, alive, why>>
          \/ Key!EffectiveState(d) \notin {"init", "authorized"} /\ Key!Stops
  BY DEF Key!TcBecomesReady
<1>b. UNCHANGED <<turn, logs, agreed, losses, sleeps, started>>
  BY DEF Key!TcBecomesReady, Key!bounds
<1>c. CASE Key!EffectiveState(d) = "init"
  <2>1. d \notin flags /\ cState = "init" /\ d = turn /\ nonce < MaxNonce
        /\ conn[turn] = "connecting" /\ alive
    BY <1>a, <1>c DEF Key!EffectiveState, Key!IInv, Key!TurnFits
  <2>2. /\ conn' = [conn EXCEPT ![d] = "ready"] /\ nonce' = nonce + 1 /\ cState' =
           "reqpq_sent"
        /\ wire' = [wire EXCEPT ![d] = Key!Packet("req_pq", nonce + 1)]
        /\ UNCHANGED <<success, dh, authKey, flags, clock, kept, alive, why>>
    BY <1>a, <1>c DEF Key!SendReqPq, Key!dcs
  <2>a. /\ conn'[d] = "ready" /\ \A e \in DCs \ {d} : conn'[e] = conn[e] /\ wire'[e] =
           wire[e]
        /\ wire'[d].is = "req_pq" /\ wire'[d].nonce = nonce + 1
    BY <2>2 DEF Key!IInv, Key!TypeOK, Key!Records, Key!Packet
  <2>3. Key!TypeOK'
    BY <1>b, <2>1, <2>2, <2>a DEF Key!IInv, Key!TypeOK, Key!State, Key!HandshakeAssumption
  <2>4. Key!Records'
    <3>1. Key!Packet("req_pq", nonce + 1) \in Key!PacketRecord
      BY <2>1 DEF Key!IInv, Key!TypeOK, Key!Packet, Key!PacketRecord,
         Key!HandshakeAssumption
    <3> QED
      BY <1>b, <2>2, <3>1 DEF Key!IInv, Key!Records
  <2>5. Key!TurnFits'
    BY <1>b, <2>1, <2>2, <2>a DEF Key!IInv, Key!TurnFits
  <2>6. Key!WireFits'
    BY <1>b, <2>1, <2>2, <2>a DEF Key!IInv, Key!WireFits, Key!TypeOK
  <2>7. Key!InStep'
    BY <1>b, <2>1, <2>2, <2>a DEF Key!IInv, Key!InStep, Key!Expected
  <2> QED
    BY <2>3, <2>4, <2>5, <2>6, <2>7 DEF Key!IInv
<1>d. CASE Key!EffectiveState(d) = "authorized"
  <2>2. /\ conn' = [conn EXCEPT ![d] = "ready"]
        /\ UNCHANGED <<cState, nonce, success, dh, wire, authKey, flags, clock, kept,
                       alive, why>>
    BY <1>a, <1>d DEF Key!machine, Key!dcs
  <2>1. /\ conn'[d] = "ready" /\ \A e \in DCs \ {d} : conn'[e] = conn[e]
        /\ conn' \in [DCs -> {"none", "connecting", "ready"}]
    BY <2>2 DEF Key!IInv, Key!TypeOK
  <2>3. Key!TypeOK'
    BY <1>b, <2>1, <2>2 DEF Key!IInv, Key!TypeOK
  <2>4. Key!Records'
    BY <1>b, <2>2 DEF Key!IInv, Key!Records
  <2>5. Key!TurnFits'
    BY <1>a, <1>b, <2>1, <2>2 DEF Key!IInv, Key!TurnFits
  <2>6. Key!WireFits'
    BY <1>b, <2>2 DEF Key!IInv, Key!WireFits
  <2>7. Key!InStep'
    BY <1>a, <1>b, <1>d, <2>1, <2>2 DEF Key!IInv, Key!InStep, Key!EffectiveState
  <2> QED
    BY <2>3, <2>4, <2>5, <2>6, <2>7 DEF Key!IInv
<1>e. CASE Key!EffectiveState(d) \notin {"init", "authorized"}
  <2>1. d \notin flags /\ cState \notin {"init", "authorized"} /\ d = turn
        /\ conn[turn] = "connecting"
    BY <1>a, <1>e DEF Key!EffectiveState, Key!IInv, Key!TurnFits
  <2>2. why # {}
    BY <2>1 DEF Key!IInv, Key!InStep
  <2>3. alive' = FALSE
        /\ UNCHANGED <<cState, nonce, success, dh, conn, wire, authKey, flags, clock,
                       kept, why>>
    BY <1>a, <1>e DEF Key!Stops, Key!machine, Key!link, Key!dcs
  <2> QED
    BY <1>b, <2>2, <2>3 DEF Key!IInv, Key!TypeOK, Key!Records, Key!TurnFits,
       Key!WireFits, Key!InStep
<1> QED
  BY <1>c, <1>d, <1>e

\* The server answers the packet it has; after client_dh the key is its
\* own.
LEMMA ServerAnswers_Keeps ==
  ASSUME Key!HandshakeAssumption, Key!IInv, Key!ServerAnswers
  PROVE  Key!IInv'
<1>a. PICK d \in DCs : /\ wire[d].is \in {"req_pq", "req_dh", "client_dh"}
                       /\ wire' = [wire EXCEPT ![d] =
                            Key!Packet([req_pq |-> "res_pq", req_dh |-> "dh_params",
                                        client_dh |-> "gen_ok"][wire[d].is], wire[d].nonce)]
                       /\ agreed' =
                          [agreed EXCEPT ![d] = IF wire[d].is = "client_dh" THEN @ \cup {wire[d].nonce} ELSE @]
  BY DEF Key!ServerAnswers
<1>b. UNCHANGED <<cState, nonce, success, dh, turn, conn, authKey, flags, clock, kept,
                  logs, alive, why, losses, sleeps, started>>
  BY DEF Key!ServerAnswers, Key!machine, Key!dcs, Key!bounds
<1>c. /\ wire'[d].is =
         [req_pq |-> "res_pq", req_dh |-> "dh_params", client_dh |-> "gen_ok"][wire[d].is]
      /\ wire'[d].nonce = wire[d].nonce /\ \A e \in DCs \ {d} : wire'[e] = wire[e]
  BY <1>a DEF Key!IInv, Key!Records, Key!Packet
<1>d. /\ wire'[d].is = "gen_ok" => wire[d].is = "client_dh"
         /\ wire[d].nonce \in agreed'[d]
      /\ wire'[d].is # "client_dh" /\ wire[d].nonce > 0
  BY <1>a, <1>c DEF Key!IInv, Key!Records, Key!WireFits
<1>e. \A e \in DCs : agreed[e] \subseteq agreed'[e]
  BY <1>a DEF Key!IInv, Key!Records
<1>1. Key!TypeOK'
  BY <1>b, <1>a, <1>c DEF Key!IInv, Key!TypeOK, Key!NoPacket
<1>2. Key!Records'
  BY DEF Key!IInv, Key!ServerAnswers, Key!dcs, Key!Records, Key!PacketRecord,
     Key!WireFits, Key!Packet
<1>3. Key!TurnFits'
  BY <1>b DEF Key!IInv, Key!TurnFits
<1>4. Key!WireFits'
  <2> SUFFICES ASSUME NEW e \in DCs PROVE
      /\ wire'[e].is \in {"client_dh", "gen_ok"} => authKey'[e].nonce = wire'[e].nonce
      /\ wire'[e].is \notin {"nothing", "refusal"} => wire'[e].nonce > 0
      /\ wire'[e].is = "gen_ok" => wire'[e].nonce \in agreed'[e]
      /\ e \in flags' => authKey'[e].nonce \in agreed'[e]
      /\ kept'[e] # Key!NoKey => kept'[e].nonce \in agreed'[e]
         /\ (kept'[e].shifted => logs')
    BY DEF Key!WireFits
  <2>1. CASE e = d
    BY <1>a, <1>b, <1>c, <1>d, <1>e, <2>1 DEF Key!IInv, Key!WireFits
  <2>2. CASE e # d
    BY <1>b, <1>c, <1>e, <2>2 DEF Key!IInv, Key!WireFits
  <2> QED
    BY <2>1, <2>2
<1>5. Key!InStep'
  <2> SUFFICES ASSUME why = {} PROVE Key!InStep'
    BY <1>b DEF Key!InStep
  <2>1. CASE turn = d
    BY <1>a, <1>b, <1>c, <2>1 DEF Key!IInv, Key!InStep, Key!Expected, Key!TypeOK,
       Key!State
  <2>2. CASE turn # d
    BY <1>b, <1>c, <2>2 DEF Key!IInv, Key!InStep, Key!Expected
  <2> QED
    BY <2>1, <2>2
<1> QED
  BY <1>1, <1>2, <1>3, <1>4, <1>5 DEF Key!IInv

\* The server refuses, which is a reason to stop.
LEMMA ServerRefuses_Keeps ==
  ASSUME Key!HandshakeAssumption, Key!IInv, Key!ServerRefuses
  PROVE  Key!IInv'
<1>1. Key!TypeOK'
  BY DEF Key!IInv, Key!ServerRefuses, Key!machine, Key!dcs, Key!TypeOK, Key!Reason,
     Key!NoPacket
<1>2. Key!Records'
  BY DEF Key!IInv, Key!ServerRefuses, Key!dcs, Key!Records, Key!PacketRecord,
     Key!Packet, Key!HandshakeAssumption
<1>3. Key!TurnFits'
  BY DEF Key!IInv, Key!ServerRefuses, Key!machine, Key!dcs, Key!TurnFits
<1>4. Key!WireFits'
  <2>1. UNCHANGED <<authKey, flags, kept, agreed, logs>>
    BY DEF Key!ServerRefuses, Key!dcs
  <2>2. \A d \in DCs : wire'[d] = wire[d] \/ wire'[d] = Key!Packet("refusal", 0)
    BY DEF Key!ServerRefuses, Key!IInv, Key!Records
  <2> QED
    BY <2>1, <2>2 DEF Key!IInv, Key!WireFits, Key!Packet
<1>5. Key!InStep'
  BY DEF Key!ServerRefuses, Key!InStep, Key!HandshakeAssumption
<1> QED
  BY <1>1, <1>2, <1>3, <1>4, <1>5 DEF Key!IInv

\* The first answer of the server (process_respq_answer).
LEMMA ResPq_Keeps ==
  ASSUME Key!HandshakeAssumption, Key!IInv, NEW d \in DCs, alive, d \notin flags,
         cState = "reqpq_sent", Key!ProcessResPq(d),
         wire[d].is \in {"res_pq", "dh_params", "gen_ok", "refusal"},
         UNCHANGED <<turn, logs, agreed, Key!bounds>>
  PROVE  Key!IInv'
<1>a. /\ conn[d] = "ready" /\ d = turn /\ turn \in DCs \ flags
  BY DEF Key!IInv, Key!TypeOK, Key!TurnFits, Key!NoPacket
<1>b. CASE wire[d] # Key!Packet("res_pq", nonce)
  <2>1. alive' = FALSE
        /\ UNCHANGED <<cState, nonce, success, dh, conn, wire, authKey, flags, clock,
                       kept, why, turn, logs, agreed>>
    BY <1>b DEF Key!ProcessResPq, Key!Stops, Key!machine, Key!link, Key!dcs
  <2>2. why # {}
    <3> SUFFICES ASSUME why = {} PROVE FALSE
      OBVIOUS
    <3>1. wire[d].nonce = nonce /\ wire[d].is \in Key!Expected[cState]
      BY <1>a DEF Key!IInv, Key!InStep
    <3>2. wire[d].is = "res_pq"
      BY <3>1 DEF Key!Expected
    <3>3. wire[d] \in Key!PacketRecord
      BY DEF Key!IInv, Key!Records
    <3> QED
      BY <1>b, <3>1, <3>2, <3>3 DEF Key!Packet, Key!PacketRecord
  <2> QED
    BY <2>1, <2>2, Stopped DEF Key!IInv, Key!TypeOK
<1>c. CASE wire[d] = Key!Packet("res_pq", nonce)
  <2>1. wire[d].is = "res_pq" /\ wire[d].nonce = nonce
    BY <1>c DEF Key!Packet
  <2>2. /\ cState' = "reqdh_sent" /\ wire' =
           [wire EXCEPT ![d] = Key!Packet("req_dh", nonce)]
        /\ UNCHANGED <<nonce, success, dh, conn, authKey, flags, clock, kept, alive, why,
                       turn, logs, agreed>>
    BY <1>c DEF Key!ProcessResPq, Key!dcs
  <2>a. /\ \A e \in DCs \ {d} : wire'[e] = wire[e]
        /\ wire'[d].is = "req_dh" /\ wire'[d].nonce = nonce
    BY <2>2 DEF Key!IInv, Key!Records, Key!Packet
  <2>3. Key!TypeOK'
    BY <1>a, <2>2, <2>a DEF Key!IInv, Key!TypeOK, Key!State
  <2>4. Key!Records'
    <3>1. Key!Packet("req_dh", nonce) \in Key!PacketRecord
      BY DEF Key!IInv, Key!TypeOK, Key!Packet, Key!PacketRecord
    <3> QED
      BY <2>2, <3>1 DEF Key!IInv, Key!Records
  <2>5. Key!TurnFits'
    BY <1>a, <2>2 DEF Key!IInv, Key!TurnFits
  <2>6. Key!WireFits'
    BY <2>1, <2>2, <2>a DEF Key!IInv, Key!WireFits
  <2>7. Key!InStep'
    BY <1>a, <2>1, <2>2, <2>a DEF Key!IInv, Key!InStep, Key!Expected
  <2> QED
    BY <2>3, <2>4, <2>5, <2>6, <2>7 DEF Key!IInv
<1> QED
  BY <1>b, <1>c

\* The parameters are accepted and the key is computed, or the process
\* stops (process_dh_answer).
LEMMA DhAnswer_Keeps ==
  ASSUME Key!HandshakeAssumption, Key!IInv, NEW d \in DCs, alive, d \notin flags,
         cState = "reqdh_sent", Key!ProcessDhAnswer(d),
         wire[d].is \in {"res_pq", "dh_params", "gen_ok", "refusal"},
         UNCHANGED <<turn, logs, agreed, Key!bounds>>
  PROVE  Key!IInv'
<1>a. /\ conn[d] = "ready" /\ d = turn /\ turn \in DCs \ flags
  BY DEF Key!IInv, Key!TypeOK, Key!TurnFits, Key!NoPacket
<1>b. CASE wire[d] # Key!Packet("dh_params", nonce)
  <2>1. alive' = FALSE
        /\ UNCHANGED <<cState, nonce, success, dh, conn, wire, authKey, flags, clock,
                       kept, why, turn, logs, agreed>>
    BY <1>b DEF Key!ProcessDhAnswer, Key!Stops, Key!machine, Key!link, Key!dcs
  <2>2. why # {}
    <3> SUFFICES ASSUME why = {} PROVE FALSE
      OBVIOUS
    <3>1. wire[d].nonce = nonce /\ wire[d].is \in Key!Expected[cState]
      BY <1>a DEF Key!IInv, Key!InStep
    <3>2. wire[d].is = "dh_params"
      BY <3>1 DEF Key!Expected
    <3>3. wire[d] \in Key!PacketRecord
      BY DEF Key!IInv, Key!Records
    <3> QED
      BY <1>b, <3>1, <3>2, <3>3 DEF Key!Packet, Key!PacketRecord
  <2> QED
    BY <2>1, <2>2, Stopped DEF Key!IInv, Key!TypeOK
<1>c. CASE wire[d] = Key!Packet("dh_params", nonce)
  <2>1. wire[d].is = "dh_params" /\ wire[d].nonce = nonce /\ nonce > 0
    BY <1>c DEF Key!Packet, Key!IInv, Key!WireFits
  <2>b. CASE why' = why \cup {"refused"} /\ alive' = FALSE
             /\ UNCHANGED <<Key!machine, Key!link, Key!dcs, kept>>
    <3>1. /\ UNCHANGED <<cState, nonce, success, dh, conn, wire, authKey, flags, clock,
                         kept, turn, logs, agreed>>
          /\ alive' = FALSE
      BY <2>b DEF Key!machine, Key!link, Key!dcs
    <3>2. why' # {} /\ why' \subseteq Key!Reason
      BY <2>b DEF Key!IInv, Key!TypeOK, Key!Reason
    <3> QED
      BY <3>1, <3>2, Stopped
  <2>c. ASSUME NEW short \in BOOLEAN, cState' = "client_dh_sent",
               clock' = [clock EXCEPT ![d] = "right"],
               authKey' = [authKey EXCEPT ![d] = [nonce |-> nonce, shifted |-> short]],
               why' = IF short THEN why \cup {"shifted"} ELSE why,
               wire' = [wire EXCEPT ![d] = Key!Packet("client_dh", nonce)],
               UNCHANGED <<nonce, success, conn, flags, kept, alive>>
        PROVE  Key!IInv'
    <3>1. UNCHANGED <<nonce, success, conn, flags, kept, alive, turn, logs, agreed>>
      BY <2>c
    <3>2. /\ \A e \in DCs \ {d} : wire'[e] = wire[e] /\ authKey'[e] = authKey[e]
             /\ clock'[e] = clock[e]
          /\ wire'[d].is = "client_dh" /\ wire'[d].nonce = nonce
          /\ authKey'[d].nonce = nonce /\ clock'[d] = "right" /\ authKey'[d].shifted =
             short
      BY <2>c DEF Key!IInv, Key!Records, Key!TypeOK, Key!Packet
    <3>3. why' \subseteq Key!Reason /\ (why' = {} => why = {} /\ ~short)
      BY <2>c DEF Key!IInv, Key!TypeOK, Key!Reason
    <3>4. Key!Packet("client_dh", nonce) \in Key!PacketRecord
          /\ [nonce |-> nonce, shifted |-> short] \in Key!KeyRecord
      BY DEF Key!IInv, Key!TypeOK, Key!Packet, Key!PacketRecord, Key!KeyRecord
    <3>5. Key!Records'
      BY <2>c, <3>1, <3>4 DEF Key!IInv, Key!Records
    <3>6. clock' \in [DCs -> {"unset", "right", "behind"}]
      BY <2>c DEF Key!IInv, Key!TypeOK
    <3>7. Key!TypeOK'
      BY <1>a, <2>c, <3>1, <3>2, <3>3, <3>6 DEF Key!IInv, Key!TypeOK, Key!State
    <3>8. Key!TurnFits'
      BY <1>a, <2>c, <3>1 DEF Key!IInv, Key!TurnFits
    <3>9. Key!WireFits'
      BY <1>a, <2>1, <3>1, <3>2 DEF Key!IInv, Key!WireFits
    <3>10. Key!InStep'
      BY <1>a, <2>1, <2>c, <3>1, <3>2, <3>3 DEF Key!IInv, Key!InStep, Key!Expected
    <3> QED
      BY <3>5, <3>7, <3>8, <3>9, <3>10 DEF Key!IInv
  <2> QED
    BY <1>c, <2>b, <2>c DEF Key!ProcessDhAnswer
<1> QED
  BY <1>b, <1>c

\* The server has confirmed the key: it is kept, or is short and the
\* process stops (process_auth_complete).
LEMMA AuthComplete_Keeps ==
  ASSUME Key!HandshakeAssumption, Key!IInv, NEW d \in DCs, alive, d \notin flags,
         cState = "client_dh_sent", Key!ProcessAuthComplete(d),
         wire[d].is \in {"res_pq", "dh_params", "gen_ok", "refusal"},
         UNCHANGED <<turn, logs, agreed, Key!bounds>>
  PROVE  Key!IInv'
<1>a. /\ conn[d] = "ready" /\ d = turn /\ turn \in DCs \ flags
  BY DEF Key!IInv, Key!TypeOK, Key!TurnFits, Key!NoPacket
<1>b. CASE wire[d] # Key!Packet("gen_ok", nonce)
  <2>1. alive' = FALSE
        /\ UNCHANGED <<cState, nonce, success, dh, conn, wire, authKey, flags, clock,
                       kept, why, turn, logs, agreed>>
    BY <1>b DEF Key!ProcessAuthComplete, Key!Stops, Key!machine, Key!link, Key!dcs
  <2>2. why # {}
    <3> SUFFICES ASSUME why = {} PROVE FALSE
      OBVIOUS
    <3>1. wire[d].nonce = nonce /\ wire[d].is \in Key!Expected[cState]
      BY <1>a DEF Key!IInv, Key!InStep
    <3>2. wire[d].is = "gen_ok"
      BY <3>1 DEF Key!Expected
    <3>3. wire[d] \in Key!PacketRecord
      BY DEF Key!IInv, Key!Records
    <3> QED
      BY <1>b, <3>1, <3>2, <3>3 DEF Key!Packet, Key!PacketRecord
  <2> QED
    BY <2>1, <2>2, Stopped DEF Key!IInv, Key!TypeOK
<1>c. CASE wire[d] = Key!Packet("gen_ok", nonce)
  <2>1. wire[d].is = "gen_ok" /\ wire[d].nonce = nonce /\ nonce > 0
        /\ authKey[d].nonce = nonce /\ nonce \in agreed[d]
    BY <1>c DEF Key!Packet, Key!IInv, Key!WireFits
  <2>2. flags' = flags \cup {d}
        /\ UNCHANGED <<nonce, conn, authKey, clock, why, turn, logs, agreed>>
    BY <1>c DEF Key!ProcessAuthComplete, Key!machine
  <2>b. CASE authKey[d].shifted
    <3>1. /\ alive' = FALSE /\ UNCHANGED <<cState, success, wire>>
          /\ kept' = IF logs THEN [kept EXCEPT ![d] = authKey[d]] ELSE kept
      BY <1>c, <2>b DEF Key!ProcessAuthComplete, Key!machine
    <3>2. \A e \in DCs : kept'[e] = kept[e] \/ (e = d /\ logs /\ kept'[e] = authKey[e])
      BY <3>1 DEF Key!IInv, Key!Records
    <3>3. Key!Records'
      BY <2>2, <3>1 DEF Key!IInv, Key!Records
    <3>4. Key!TypeOK'
      BY <2>1, <2>2, <3>1 DEF Key!IInv, Key!TypeOK, Key!NoKey
    <3>5. Key!TurnFits'
      BY <1>a, <2>2, <3>1 DEF Key!IInv, Key!TurnFits
    <3>6. Key!WireFits'
      BY <2>1, <2>2, <3>1, <3>2 DEF Key!IInv, Key!WireFits
    <3>7. why # {}
      BY <1>a, <2>b DEF Key!IInv, Key!InStep
    <3>8. Key!InStep'
      BY <2>2, <3>7 DEF Key!InStep
    <3> QED
      BY <3>3, <3>4, <3>5, <3>6, <3>8 DEF Key!IInv
  <2>c. CASE ~authKey[d].shifted
    <3>1. /\ wire' = [wire EXCEPT ![d] = Key!NoPacket] /\ UNCHANGED alive
          /\ cState' = "authorized" /\ success' = TRUE
          /\ kept' = [kept EXCEPT ![d] = authKey[d]]
      BY <1>c, <2>c DEF Key!ProcessAuthComplete
    <3>2. /\ \A e \in DCs \ {d} : kept'[e] = kept[e] /\ wire'[e] = wire[e]
          /\ kept'[d] = authKey[d] /\ wire'[d] = Key!NoPacket
      BY <3>1 DEF Key!IInv, Key!Records
    <3>3. Key!Records'
      <4>1. Key!NoPacket \in Key!PacketRecord
        BY DEF Key!NoPacket, Key!PacketRecord, Key!HandshakeAssumption
      <4> QED
        BY <2>2, <3>1, <4>1 DEF Key!IInv, Key!Records
    <3>4. Key!TypeOK'
      BY <2>1, <2>2, <3>1, <3>2 DEF Key!IInv, Key!TypeOK, Key!NoKey, Key!State
    <3>5. Key!TurnFits'
      BY <1>a, <2>2, <3>1 DEF Key!IInv, Key!TurnFits
    <3>6. Key!WireFits'
      BY <2>1, <2>2, <2>c, <3>1, <3>2 DEF Key!IInv, Key!WireFits, Key!NoPacket
    <3>7. Key!InStep'
      BY <1>a, <2>2, <3>1 DEF Key!IInv, Key!InStep
    <3> QED
      BY <3>3, <3>4, <3>5, <3>6, <3>7 DEF Key!IInv
  <2> QED
    BY <2>b, <2>c
<1> QED
  BY <1>b, <1>c

\* A message under the key: the clock is behind only when the machine has
\* slept (process_rpc_message).
LEMMA ProcessRpcMessage_Keeps ==
  ASSUME Key!HandshakeAssumption, Key!IInv, Key!ProcessRpcMessage
  PROVE  Key!IInv'
<1>1. Key!TypeOK'
  BY DEF Key!IInv, Key!ProcessRpcMessage, Key!machine, Key!link, Key!TypeOK
<1>2. Key!Records'
  BY DEF Key!IInv, Key!ProcessRpcMessage, Key!link, Key!Records
<1>3. Key!TurnFits'
  BY DEF Key!IInv, Key!ProcessRpcMessage, Key!machine, Key!link, Key!TurnFits
<1>4. Key!WireFits'
  BY DEF Key!IInv, Key!ProcessRpcMessage, Key!link, Key!WireFits
<1>5. Key!InStep'
  BY DEF Key!IInv, Key!ProcessRpcMessage, Key!machine, Key!link, Key!InStep,
     Key!Records, Key!TypeOK
<1> QED
  BY <1>1, <1>2, <1>3, <1>4, <1>5 DEF Key!IInv

\* A connection is lost, which is a reason if its data centre has no key.
LEMMA ConnectionLost_Keeps ==
  ASSUME Key!HandshakeAssumption, Key!IInv, Key!ConnectionLost
  PROVE  Key!IInv'
<1>1. Key!TypeOK'
  BY DEF Key!IInv, Key!ConnectionLost, Key!machine, Key!dcs, Key!TypeOK, Key!Records,
     Key!Reason
<1>2. Key!Records'
  BY DEF Key!IInv, Key!ConnectionLost, Key!dcs, Key!Records, Key!PacketRecord,
     Key!NoPacket, Key!HandshakeAssumption
<1>3. Key!TurnFits'
  BY DEF Key!IInv, Key!ConnectionLost, Key!machine, Key!dcs, Key!TurnFits, Key!NoPacket
<1>4. Key!WireFits'
  <2>1. UNCHANGED <<authKey, flags, kept, agreed, logs>>
    BY DEF Key!ConnectionLost, Key!dcs
  <2>2. \A d \in DCs : wire'[d] = wire[d] \/ wire'[d] = Key!NoPacket
    BY DEF Key!ConnectionLost, Key!IInv, Key!Records
  <2> QED
    BY <2>1, <2>2 DEF Key!IInv, Key!WireFits, Key!NoPacket
<1>5. Key!InStep'
  BY DEF Key!IInv, Key!ConnectionLost, Key!Stops, Key!machine, Key!link, Key!dcs,
     Key!bounds, Key!InStep, Key!TurnFits
<1> QED
  BY <1>1, <1>2, <1>3, <1>4, <1>5 DEF Key!IInv

\* A ping without a key stops the process (ping_alarm).
LEMMA PingAlarm_Keeps ==
  ASSUME Key!HandshakeAssumption, Key!IInv, Key!PingAlarm
  PROVE  Key!IInv'
<1>1. Key!TypeOK'
  BY DEF Key!IInv, Key!PingAlarm, Key!machine, Key!link, Key!dcs, Key!TypeOK, Key!Reason
<1>2. Key!Records'
  BY DEF Key!IInv, Key!PingAlarm, Key!link, Key!dcs, Key!Records
<1>3. Key!TurnFits'
  BY DEF Key!IInv, Key!PingAlarm, Key!machine, Key!link, Key!dcs, Key!TurnFits
<1>4. Key!WireFits'
  BY DEF Key!IInv, Key!PingAlarm, Key!dcs, Key!link, Key!WireFits
<1>5. Key!InStep'
  BY DEF Key!PingAlarm, Key!InStep, Key!HandshakeAssumption
<1> QED
  BY <1>1, <1>2, <1>3, <1>4, <1>5 DEF Key!IInv

\* The machine sleeps, which is a reason.
LEMMA Sleep_Keeps ==
  ASSUME Key!HandshakeAssumption, Key!IInv, Key!Sleep
  PROVE  Key!IInv'
<1>1. Key!TypeOK'
  BY DEF Key!IInv, Key!Sleep, Key!machine, Key!link, Key!TypeOK, Key!Reason
<1>2. Key!Records'
  BY DEF Key!IInv, Key!Sleep, Key!link, Key!Records
<1>3. Key!TurnFits'
  BY DEF Key!IInv, Key!Sleep, Key!machine, Key!link, Key!TurnFits
<1>4. Key!WireFits'
  BY DEF Key!IInv, Key!Sleep, Key!link, Key!WireFits
<1>5. Key!InStep'
  BY DEF Key!Sleep, Key!InStep, Key!HandshakeAssumption
<1> QED
  BY <1>1, <1>2, <1>3, <1>4, <1>5 DEF Key!IInv

\* A restart takes the keys that were kept, all of which the server has.
LEMMA Restart_Keeps ==
  ASSUME Key!HandshakeAssumption, Key!IInv, Key!Restart
  PROVE  Key!IInv'
<1>1. Key!TypeOK'
  BY DEF Key!IInv, Key!Restart, Key!TypeOK, Key!State
<1>2. Key!Records'
  BY DEF Key!IInv, Key!Restart, Key!Records, Key!PacketRecord, Key!NoPacket,
     Key!HandshakeAssumption
<1>3. Key!TurnFits'
  BY DEF Key!Restart, Key!TurnFits, Key!HandshakeAssumption
<1>4. Key!WireFits'
  BY DEF Key!IInv, Key!Restart, Key!WireFits, Key!NoPacket
<1>5. Key!InStep'
  BY DEF Key!Restart, Key!InStep, Key!NoDC, Key!HandshakeAssumption
<1> QED
  BY <1>1, <1>2, <1>3, <1>4, <1>5 DEF Key!IInv

\* The invariant of the exchange of keys holds at first.
LEMMA KeyInit ==
  ASSUME Key!HandshakeAssumption, Key!Init
  PROVE  Key!IInv
<1>1. Key!TypeOK
  <2>1. conn \in [DCs -> {"none", "connecting", "ready"}]
        /\ clock \in [DCs -> {"unset", "right", "behind"}]
    BY DEF Key!Init
  <2>2. success \in BOOLEAN
    BY DEF Key!Init
  <2> QED
  BY <2>1, <2>2 DEF Key!Init, Key!TypeOK, Key!State, Key!HandshakeAssumption
<1>2. Key!Records
  BY DEF Key!Init, Key!Records, Key!PacketRecord, Key!KeyRecord, Key!NoPacket,
     Key!NoKey, Key!HandshakeAssumption
<1>3. Key!TurnFits
  BY DEF Key!Init, Key!TurnFits
<1>4. Key!WireFits
  BY DEF Key!Init, Key!WireFits, Key!NoPacket
<1>5. Key!InStep
  BY DEF Key!Init, Key!InStep, Key!NoDC, Key!HandshakeAssumption
<1> QED
  BY <1>1, <1>2, <1>3, <1>4, <1>5 DEF Key!IInv

\* Each step of the exchange of keys keeps its invariant.
LEMMA KeyNext ==
  ASSUME Key!HandshakeAssumption, Key!IInv, [Key!Next]_(Key!handshake_vars)
  PROVE  Key!IInv'
<1>1. CASE UNCHANGED Key!handshake_vars
  <2>1. /\ UNCHANGED <<cState, nonce, success, dh, turn, conn, wire, authKey, flags,
                       clock>>
        /\ UNCHANGED <<kept, logs, agreed, alive, why>>
    BY <1>1 DEF Key!handshake_vars, Key!machine, Key!link, Key!dcs
  <2> QED
    BY <2>1 DEF Key!IInv, Key!TypeOK, Key!Records, Key!TurnFits, Key!WireFits, Key!InStep
<1>2. ASSUME Key!Received PROVE Key!IInv'
  <2>1. PICK d \in DCs : /\ alive /\ d \notin flags
                         /\ wire[d].is \in {"res_pq", "dh_params", "gen_ok", "refusal"}
                         /\ \/ cState = "reqpq_sent" /\ Key!ProcessResPq(d)
                            \/ cState = "reqdh_sent" /\ Key!ProcessDhAnswer(d)
                            \/ cState = "client_dh_sent" /\ Key!ProcessAuthComplete(d)
                         /\ UNCHANGED <<turn, logs, agreed, Key!bounds>>
    BY <1>2 DEF Key!Received, Key!EffectiveState
  <2> QED
    BY <2>1, ResPq_Keeps, DhAnswer_Keeps, AuthComplete_Keeps
<1> QED
  BY <1>1, <1>2, Authorize_Keeps, Authorized_Keeps, DcCreateSession_Keeps,
     TcBecomesReady_Keeps,
     ServerAnswers_Keeps, ServerRefuses_Keeps, ProcessRpcMessage_Keeps,
     ConnectionLost_Keeps,
     PingAlarm_Keeps, Sleep_Keeps, Restart_Keeps DEF Key!Next

\* The invariant of the exchange of keys implies its properties.
LEMMA KeyGoals ==
  ASSUME Key!IInv
  PROVE  Key!TypeOK /\ Key!KeysAgree /\ Key!StopsOnlyFor
  BY DEF Key!IInv, Key!KeysAgree, Key!StopsOnlyFor, Key!WireFits, Key!InStep

-----------------------------------------------------------------------------
\* The sign in

\* The values of Memory and of the state that is saved.
Snapshots == [working : DCs, known : SUBSET DCs, keys : SUBSET DCs, auth : SUBSET DCs,
              fresh : BOOLEAN]

\* What EXCEPT does to the state that is saved, field by field.
LEMMA Written ==
  ASSUME NEW s \in Snapshots, NEW v
  PROVE  /\ s = [working |-> s.working, known |-> s.known, keys |-> s.keys,
                 auth |-> s.auth,
                 fresh |-> s.fresh]
         /\ [s EXCEPT !.working = v] = [working |-> v, known |-> s.known, keys |-> s.keys,
                                        auth |-> s.auth, fresh |-> s.fresh]
         /\ [s EXCEPT !.keys = v] = [working |-> s.working, known |-> s.known, keys |-> v,
                                     auth |-> s.auth, fresh |-> s.fresh]
         /\ [s EXCEPT !.keys = @ \cup v] = [working |-> s.working, known |-> s.known,
                                            keys |-> s.keys \cup v, auth |-> s.auth,
                                            fresh |-> s.fresh]
         /\ [s EXCEPT !.auth = v] = [working |-> s.working, known |-> s.known,
                                     keys |-> s.keys, auth |-> v, fresh |-> s.fresh]
         /\ [s EXCEPT !.auth = @ \cup {v}] = [working |-> s.working, known |-> s.known,
                                              keys |-> s.keys, auth |-> s.auth \cup {v},
                                              fresh |-> s.fresh]
  BY DEF Snapshots

\* What is saved is Memory but for one field.
LEMMA Remembered ==
  ASSUME NEW k
  PROVE  /\ [Sign!Memory EXCEPT !.keys = k]
              = [working |-> working, known |-> known, keys |-> k, auth |-> auth,
                 fresh |-> fresh]
         /\ [Sign!Memory EXCEPT !.working = k]
              = [working |-> k, known |-> known, keys |-> keys, auth |-> auth,
                 fresh |-> fresh]
         /\ [Sign!Memory EXCEPT !.auth = k]
              = [working |-> working, known |-> known, keys |-> keys, auth |-> k,
                 fresh |-> fresh]
<1>1. PICK m : m = [working |-> working, known |-> known, keys |-> keys, auth |-> auth,
                    fresh |-> fresh]
  OBVIOUS
<1>2. m = Sign!Memory
  BY <1>1 DEF Sign!Memory
<1>4. [m EXCEPT !.keys = k]
         = [working |-> working, known |-> known, keys |-> k, auth |-> auth,
            fresh |-> fresh]
  BY <1>1
<1>5. [m EXCEPT !.working = k]
         = [working |-> k, known |-> known, keys |-> keys, auth |-> auth, fresh |-> fresh]
  BY <1>1
<1>6. [m EXCEPT !.auth = k]
         = [working |-> working, known |-> known, keys |-> keys, auth |-> k,
            fresh |-> fresh]
  BY <1>1
<1> QED
  BY <1>2, <1>4, <1>5, <1>6

\* A question goes to the end of the queue of events.
LEMMA QuestionQueued ==
  ASSUME NEW type \in Sign!Question, Sign!WaitAndGet(type), queue \in Seq(Sign!Event)
  PROVE  queue' \in Seq(Sign!Event)
<1>1. [is |-> "ask", type |-> type, value |-> "none"] \in Sign!Event
  BY DEF Sign!Event
<1> QED
  BY <1>1, AppendProperties DEF Sign!WaitAndGet

\* The thread waits, and what it knows stays as it is.
LEMMA Wait_Keeps ==
  ASSUME Sign!SignInAssumption, Sign!IInv, Sign!Wait
  PROVE  Sign!IInv'
<1>1. Sign!TypeOK'
  BY DEF Sign!IInv, Sign!Wait, Sign!core, Sign!config, Sign!story, Sign!counts,
     Sign!TypeOK
<1>2. Sign!Kinds'
  <2>1. Sign!Snapshot(Sign!Memory)'
    BY DEF Sign!IInv, Sign!Wait, Sign!core, Sign!Kinds, Sign!Memory
  <2>2. Sign!Snapshot(saved)'
    BY DEF Sign!IInv, Sign!Wait, Sign!config, Sign!Kinds
  <2>3. (queue \in Seq(Sign!Event))'
    BY DEF Sign!IInv, Sign!Wait, Sign!Kinds
  <2>4. (place \in DCs)'
    BY DEF Sign!IInv, Sign!Wait, Sign!server, Sign!Kinds
  <2>5. ({keepsLog, register, registered, calling, missed, unsaved, refused,
          arrived} \subseteq BOOLEAN)'
    BY DEF Sign!IInv, Sign!Wait, Sign!config, Sign!server, Sign!story, Sign!counts,
       Sign!Kinds
  <2> QED
    BY <2>1, <2>2, <2>3, <2>4, <2>5 DEF Sign!Kinds
<1>3. Sign!LogFits'
  BY DEF Sign!IInv, Sign!Wait, Sign!core, Sign!config, Sign!server, Sign!story,
     Sign!LogFits
<1>4. Sign!FileFits'
  BY DEF Sign!IInv, Sign!Wait, Sign!core, Sign!config, Sign!server, Sign!FileFits,
     Sign!SignedInAtHome, Sign!Memory
<1>5. Sign!Steps'
  BY DEF Sign!IInv, Sign!Wait, Sign!core, Sign!config, Sign!server, Sign!Question,
     Sign!Steps, Sign!TypeOK
<1>6. Sign!AtHome'
  BY DEF Sign!IInv, Sign!Wait, Sign!core, Sign!config, Sign!server, Sign!story,
     Sign!AtHome
<1>7. Sign!Arrived'
  BY DEF Sign!IInv, Sign!Wait, Sign!story, Sign!Question, Sign!Arrived, Sign!InLogin,
     Sign!TypeOK
<1> QED
  BY <1>1, <1>2, <1>3, <1>4, <1>5, <1>6, <1>7 DEF Sign!IInv

\* The user answers: the answer is one to the question that was asked.
LEMMA UserAnswers_Keeps ==
  ASSUME Sign!SignInAssumption, Sign!IInv, Sign!UserAnswers
  PROVE  Sign!IInv'
<1>1. Sign!TypeOK'
  BY DEF Sign!IInv, Sign!UserAnswers, Sign!core, Sign!config, Sign!story, Sign!TypeOK,
     Sign!SignInAssumption
<1>2. Sign!Kinds'
  <2>1. Sign!Snapshot(Sign!Memory)'
    BY DEF Sign!IInv, Sign!UserAnswers, Sign!core, Sign!Kinds, Sign!Memory
  <2>2. Sign!Snapshot(saved)'
    BY DEF Sign!IInv, Sign!UserAnswers, Sign!config, Sign!Kinds
  <2>3. (queue \in Seq(Sign!Event))'
    BY DEF Sign!IInv, Sign!UserAnswers, Sign!Kinds, Sign!Event
  <2>4. (place \in DCs)'
    BY DEF Sign!IInv, Sign!UserAnswers, Sign!server, Sign!Kinds
  <2>5. ({keepsLog, register, registered, calling, missed, unsaved, refused,
          arrived} \subseteq BOOLEAN)'
    BY DEF Sign!IInv, Sign!UserAnswers, Sign!config, Sign!server, Sign!story, Sign!Kinds
  <2> QED
    BY <2>1, <2>2, <2>3, <2>4, <2>5 DEF Sign!Kinds
<1>3. Sign!LogFits'
  BY DEF Sign!IInv, Sign!UserAnswers, Sign!core, Sign!config, Sign!server, Sign!story,
     Sign!LogFits
<1>4. Sign!FileFits'
  BY DEF Sign!IInv, Sign!UserAnswers, Sign!core, Sign!config, Sign!server,
     Sign!FileFits, Sign!SignedInAtHome, Sign!Memory
<1>5. Sign!Steps'
  BY DEF Sign!IInv, Sign!UserAnswers, Sign!core, Sign!config, Sign!server, Sign!story,
     Sign!Steps
<1>6. Sign!AtHome'
  BY DEF Sign!IInv, Sign!UserAnswers, Sign!core, Sign!config, Sign!server, Sign!story,
     Sign!AtHome
<1>7. Sign!Arrived'
  BY DEF Sign!IInv, Sign!UserAnswers, Sign!core, Sign!config, Sign!story, Sign!Arrived
<1> QED
  BY <1>1, <1>2, <1>3, <1>4, <1>5, <1>6, <1>7 DEF Sign!IInv

\* The thread of the interface takes the next event from the queue.
LEMMA MainThread_Keeps ==
  ASSUME Sign!SignInAssumption, Sign!IInv, Sign!MainThread
  PROVE  Sign!IInv'
<1>1. Sign!TypeOK'
  <2>1. PICK e \in Sign!Event : e = Head(queue)
    BY HeadTailProperties DEF Sign!IInv, Sign!Kinds, Sign!MainThread
  <2>2. page' \in Sign!Question \cup {"checking", "none"}
    BY <2>1 DEF Sign!IInv, Sign!TypeOK, Sign!MainThread, Sign!Event
  <2>3. asking' = asking \/ (asking = "waiting" /\ asking' = "woken")
    BY DEF Sign!MainThread, Sign!Callback
  <2> QED
    BY <2>2, <2>3 DEF Sign!IInv, Sign!TypeOK, Sign!MainThread, Sign!core, Sign!config,
       Sign!counts
<1>2. Sign!Kinds'
  <2>1. Sign!Snapshot(Sign!Memory)'
    BY DEF Sign!IInv, Sign!MainThread, Sign!core, Sign!Kinds, Sign!Memory
  <2>2. Sign!Snapshot(saved)'
    BY HeadTailProperties DEF Sign!IInv, Sign!MainThread, Sign!config, Sign!Kinds
  <2>3. (queue \in Seq(Sign!Event))'
    BY DEF Sign!IInv, Sign!MainThread, Sign!Kinds
  <2>4. (place \in DCs)'
    BY DEF Sign!IInv, Sign!MainThread, Sign!server, Sign!Kinds
  <2>5. ({keepsLog, register, registered, calling, missed, unsaved, refused,
          arrived} \subseteq BOOLEAN)'
    BY DEF Sign!IInv, Sign!MainThread, Sign!Callback, Sign!config, Sign!server,
       Sign!counts, Sign!Kinds
  <2> QED
    BY <2>1, <2>2, <2>3, <2>4, <2>5 DEF Sign!Kinds
<1>3. Sign!LogFits'
  BY HeadTailProperties DEF Sign!IInv, Sign!MainThread, Sign!core, Sign!config,
     Sign!server, Sign!LogFits
<1>4. Sign!FileFits'
  BY HeadTailProperties DEF Sign!IInv, Sign!MainThread, Sign!core, Sign!config,
     Sign!server, Sign!FileFits, Sign!SignedInAtHome, Sign!Memory
<1>5. Sign!Steps'
  BY HeadTailProperties DEF Sign!IInv, Sign!MainThread, Sign!core, Sign!config,
     Sign!server, Sign!Steps
<1>6. Sign!AtHome'
  BY HeadTailProperties DEF Sign!IInv, Sign!MainThread, Sign!core, Sign!config,
     Sign!server, Sign!AtHome
<1>7. Sign!Arrived'
  BY HeadTailProperties DEF Sign!IInv, Sign!MainThread, Sign!core, Sign!config,
     Sign!Arrived
<1> QED
  BY <1>1, <1>2, <1>3, <1>4, <1>5, <1>6, <1>7 DEF Sign!IInv

\* The thread that waits is woken with the answer of the user.
LEMMA Woken_Keeps ==
  ASSUME Sign!SignInAssumption, Sign!IInv, Sign!Woken
  PROVE  Sign!IInv'
<1>1. Sign!TypeOK'
  BY DEF Sign!IInv, Sign!Woken, Sign!CallWanted, Sign!PhoneGiven, Sign!DetailsGiven,
     Sign!CodeGiven, Sign!WaitAndGet, Sign!SameDCs, Sign!config, Sign!story,
     Sign!counts, Sign!Question, Sign!Queries, Sign!TypeOK, Sign!Kinds, Sign!Memory
<1>2. Sign!Kinds'
  <2>1. Sign!Snapshot(Sign!Memory)'
    BY DEF Sign!IInv, Sign!Woken, Sign!CallWanted, Sign!PhoneGiven, Sign!DetailsGiven,
       Sign!CodeGiven, Sign!SameDCs, Sign!Kinds, Sign!Memory
  <2>2. Sign!Snapshot(saved)'
    BY DEF Sign!IInv, Sign!Woken, Sign!config, Sign!Kinds
  <2>3. (queue \in Seq(Sign!Event))'
    <3>1. queue' = queue \/ \E t \in Sign!Question : Sign!WaitAndGet(t)
      BY DEF Sign!Woken, Sign!CallWanted, Sign!Question
    <3> QED
      BY <3>1, QuestionQueued DEF Sign!IInv, Sign!Kinds
  <2>4. (place \in DCs)'
    BY DEF Sign!IInv, Sign!Woken, Sign!server, Sign!Kinds
  <2>5. ({keepsLog, register, registered, calling, missed, unsaved, refused,
          arrived} \subseteq BOOLEAN)'
    BY DEF Sign!IInv, Sign!Woken, Sign!CallWanted, Sign!PhoneGiven, Sign!DetailsGiven,
       Sign!CodeGiven, Sign!config, Sign!server, Sign!story, Sign!counts, Sign!Kinds
  <2> QED
    BY <2>1, <2>2, <2>3, <2>4, <2>5 DEF Sign!Kinds
<1>3. Sign!LogFits'
  BY DEF Sign!IInv, Sign!Woken, Sign!CallWanted, Sign!PhoneGiven, Sign!DetailsGiven,
     Sign!CodeGiven, Sign!SameDCs, Sign!config, Sign!server, Sign!story, Sign!LogFits
<1>4. Sign!FileFits'
  BY DEF Sign!IInv, Sign!Woken, Sign!CallWanted, Sign!PhoneGiven, Sign!DetailsGiven,
     Sign!CodeGiven, Sign!SameDCs, Sign!config, Sign!server, Sign!FileFits,
     Sign!SignedInAtHome, Sign!Steps, Sign!InLogin
<1>5. Sign!Steps'
  BY DEF Sign!IInv, Sign!Woken, Sign!CallWanted, Sign!PhoneGiven, Sign!DetailsGiven,
     Sign!CodeGiven, Sign!WaitAndGet, Sign!SameDCs, Sign!config, Sign!server,
     Sign!Steps, Sign!InLogin
<1>6. Sign!AtHome'
  BY DEF Sign!IInv, Sign!Woken, Sign!CallWanted, Sign!PhoneGiven, Sign!DetailsGiven,
     Sign!CodeGiven, Sign!SameDCs, Sign!config, Sign!server, Sign!story, Sign!AtHome
<1>7. Sign!Arrived'
  BY DEF Sign!IInv, Sign!Woken, Sign!story, Sign!Question, Sign!Arrived, Sign!InLogin,
     Sign!TypeOK
<1> QED
  BY <1>1, <1>2, <1>3, <1>4, <1>5, <1>6, <1>7 DEF Sign!IInv

\* A key is made with the data centre that is called.
LEMMA ExchangeKey_Keeps ==
  ASSUME Sign!SignInAssumption, Sign!IInv, Sign!ExchangeKey
  PROVE  Sign!IInv'
<1>s. saved \in Snapshots
  BY DEF Sign!IInv, Sign!Kinds, Sign!Snapshot, Snapshots
<1>l0. keepsLog
       => ( saved' = [working |-> saved.working, known |-> saved.known,
                      keys |-> saved.keys \cup {working},
                auth |-> saved.auth, fresh |-> saved.fresh])
  BY <1>s, Written DEF Sign!ExchangeKey, Sign!Registering, Sign!LogKeys
<1>f0. ~keepsLog => saved' =
       [working |-> working, known |-> known, keys |-> keys \cup {working},
                auth |-> auth, fresh |-> TRUE]
  BY DEF Sign!ExchangeKey, Sign!Memory
<1>1. Sign!TypeOK'
  BY <1>l0, <1>f0 DEF Sign!IInv, Sign!ExchangeKey, Sign!NoQuestion, Sign!Registering,
     Sign!asked, Sign!story, Sign!counts, Sign!Question, Sign!Queries, Sign!TypeOK,
     Sign!Kinds, Sign!Memory
<1>2. Sign!Kinds'
  <2>1. Sign!Snapshot(Sign!Memory)'
    BY DEF Sign!IInv, Sign!ExchangeKey, Sign!Snapshot, Sign!Memory, Sign!TypeOK
  <2>2. Sign!Snapshot(saved)'
    BY <1>l0, <1>f0 DEF Sign!IInv, Sign!ExchangeKey, Sign!LogKeys, Sign!Kinds,
       Sign!Snapshot, Sign!Memory, Sign!LogFits
  <2>3. (queue \in Seq(Sign!Event))'
    BY DEF Sign!IInv, Sign!ExchangeKey, Sign!NoQuestion, Sign!asked, Sign!Kinds
  <2>4. (place \in DCs)'
    BY DEF Sign!IInv, Sign!ExchangeKey, Sign!Registering, Sign!server, Sign!Kinds
  <2>5. ({keepsLog, register, registered, calling, missed, unsaved, refused,
          arrived} \subseteq BOOLEAN)'
    BY DEF Sign!IInv, Sign!ExchangeKey, Sign!Registering, Sign!server, Sign!story,
       Sign!counts, Sign!Kinds
  <2> QED
    BY <2>1, <2>2, <2>3, <2>4, <2>5 DEF Sign!Kinds
<1>3. Sign!LogFits'
  BY <1>l0, <1>f0 DEF Sign!IInv, Sign!ExchangeKey, Sign!Registering, Sign!LogKeys,
     Sign!server, Sign!story, Sign!LogFits
<1>4. Sign!FileFits'
  BY <1>l0, <1>f0 DEF Sign!ExchangeKey, Sign!Registering, Sign!FileFits
<1>5. Sign!Steps'
  BY <1>l0, <1>f0 DEF Sign!ExchangeKey, Sign!Steps, Sign!InLogin
<1>6. Sign!AtHome'
  BY <1>l0, <1>f0 DEF Sign!IInv, Sign!ExchangeKey, Sign!Registering, Sign!server,
     Sign!story, Sign!AtHome
<1>7. Sign!Arrived'
  BY <1>l0, <1>f0 DEF Sign!IInv, Sign!ExchangeKey, Sign!story, Sign!Arrived
<1> QED
  BY <1>1, <1>2, <1>3, <1>4, <1>5, <1>6, <1>7 DEF Sign!IInv

\* The configuration names the data centres (help_get_config_on_answer).
LEMMA ConfigOnAnswer_Keeps ==
  ASSUME Sign!SignInAssumption, Sign!IInv, Sign!ConfigOnAnswer
  PROVE  Sign!IInv'
<1>1. Sign!TypeOK'
  BY DEF Sign!IInv, Sign!ConfigOnAnswer, Sign!NoQuestion, Sign!Registering,
     Sign!LogDcOptions, Sign!asked, Sign!story, Sign!counts, Sign!Question,
     Sign!TypeOK, Sign!Kinds, Sign!Snapshot
<1>2. Sign!Kinds'
  <2>1. Sign!Snapshot(Sign!Memory)'
    BY DEF Sign!IInv, Sign!ConfigOnAnswer, Sign!Kinds, Sign!Snapshot, Sign!Memory
  <2>2. Sign!Snapshot(saved)'
    BY DEF Sign!IInv, Sign!ConfigOnAnswer, Sign!LogDcOptions, Sign!Kinds, Sign!Snapshot
  <2>3. (queue \in Seq(Sign!Event))'
    BY DEF Sign!IInv, Sign!ConfigOnAnswer, Sign!NoQuestion, Sign!asked, Sign!Kinds
  <2>4. (place \in DCs)'
    BY DEF Sign!IInv, Sign!ConfigOnAnswer, Sign!Registering, Sign!server, Sign!Kinds
  <2>5. ({keepsLog, register, registered, calling, missed, unsaved, refused,
          arrived} \subseteq BOOLEAN)'
    BY DEF Sign!IInv, Sign!ConfigOnAnswer, Sign!Registering, Sign!server, Sign!story,
       Sign!counts, Sign!Kinds
  <2> QED
    BY <2>1, <2>2, <2>3, <2>4, <2>5 DEF Sign!Kinds
<1>3. Sign!LogFits'
  BY DEF Sign!IInv, Sign!ConfigOnAnswer, Sign!Registering, Sign!LogDcOptions,
     Sign!server, Sign!story, Sign!LogFits
<1>4. Sign!FileFits'
  BY DEF Sign!IInv, Sign!ConfigOnAnswer, Sign!Registering, Sign!LogDcOptions,
     Sign!server, Sign!FileFits, Sign!SignedInAtHome, Sign!Memory
<1>5. Sign!Steps'
  BY DEF Sign!ConfigOnAnswer, Sign!Steps, Sign!InLogin
<1>6. Sign!AtHome'
  BY DEF Sign!IInv, Sign!ConfigOnAnswer, Sign!Registering, Sign!LogDcOptions,
     Sign!server, Sign!story, Sign!AtHome
<1>7. Sign!Arrived'
  BY DEF Sign!IInv, Sign!ConfigOnAnswer, Sign!Registering, Sign!LogDcOptions,
     Sign!story, Sign!Arrived, Sign!InLogin
<1> QED
  BY <1>1, <1>2, <1>3, <1>4, <1>5, <1>6, <1>7 DEF Sign!IInv

\* Keys are made with the data centres of the configuration in turn.
LEMMA ExchangeKeys_Keeps ==
  ASSUME Sign!SignInAssumption, Sign!IInv, Sign!ExchangeKeys
  PROVE  Sign!IInv'
<1>s. saved \in Snapshots
  BY DEF Sign!IInv, Sign!Kinds, Sign!Snapshot, Snapshots
<1>l0. keepsLog
       => (keys # known => saved' = [working |-> saved.working, known |-> saved.known,
                                     keys |-> saved.keys \cup known,
                auth |-> saved.auth, fresh |-> saved.fresh])
  BY <1>s, Written DEF Sign!ExchangeKeys, Sign!Registering, Sign!LogKeys
<1>f0. ~keepsLog
       => (keys # known => saved' = [working |-> working, known |-> known, keys |-> known,
                auth |-> auth, fresh |-> fresh])
  BY Remembered DEF Sign!ExchangeKeys, Sign!Registering, Sign!LogKeys
<1>l1. keepsLog => (keys = known => saved' = saved)
  BY <1>s, Written DEF Sign!ExchangeKeys, Sign!Registering, Sign!LogKeys
<1>f1. ~keepsLog => (keys = known => saved' = saved)
  BY Remembered DEF Sign!ExchangeKeys, Sign!Registering, Sign!LogKeys
<1>1. Sign!TypeOK'
  BY <1>l0, <1>f0, <1>l1, <1>f1 DEF Sign!IInv, Sign!ExchangeKeys, Sign!WaitAndGet,
     Sign!NoQuestion, Sign!Registering, Sign!asked, Sign!story, Sign!counts,
     Sign!Question, Sign!TypeOK
<1>2. Sign!Kinds'
  <2>1. Sign!Snapshot(Sign!Memory)'
    BY DEF Sign!IInv, Sign!ExchangeKeys, Sign!Kinds, Sign!Snapshot, Sign!Memory
  <2>2. Sign!Snapshot(saved)'
    BY <1>l0, <1>f0, <1>l1, <1>f1 DEF Sign!IInv, Sign!Kinds, Sign!Snapshot,
       Sign!Memory, Sign!LogFits
  <2>3. (queue \in Seq(Sign!Event))'
    <3>1. queue' = queue \/ \E t \in Sign!Question : Sign!WaitAndGet(t)
      BY DEF Sign!ExchangeKeys, Sign!NoQuestion, Sign!asked, Sign!Question
    <3> QED
      BY <3>1, QuestionQueued DEF Sign!IInv, Sign!Kinds
  <2>4. (place \in DCs)'
    BY DEF Sign!IInv, Sign!ExchangeKeys, Sign!Registering, Sign!server, Sign!Kinds
  <2>5. ({keepsLog, register, registered, calling, missed, unsaved, refused,
          arrived} \subseteq BOOLEAN)'
    BY DEF Sign!IInv, Sign!ExchangeKeys, Sign!Registering, Sign!server, Sign!story,
       Sign!counts, Sign!Kinds
  <2> QED
    BY <2>1, <2>2, <2>3, <2>4, <2>5 DEF Sign!Kinds
<1>3. Sign!LogFits'
  BY <1>l0, <1>f0, <1>l1, <1>f1 DEF Sign!IInv, Sign!ExchangeKeys, Sign!Registering,
     Sign!LogKeys, Sign!server, Sign!story, Sign!LogFits, Sign!TypeOK
<1>4. Sign!FileFits'
  BY <1>l0, <1>f0, <1>l1, <1>f1 DEF Sign!IInv, Sign!ExchangeKeys, Sign!Registering,
     Sign!server, Sign!FileFits, Sign!SignedInAtHome, Sign!Memory
<1>5. Sign!Steps'
  BY <1>l0, <1>f0, <1>l1, <1>f1 DEF Sign!IInv, Sign!ExchangeKeys, Sign!WaitAndGet,
     Sign!Registering, Sign!Steps, Sign!InLogin, Sign!Memory, Sign!FileFits,
     Sign!SignedInAtHome
<1>6. Sign!AtHome'
  BY <1>l0, <1>f0, <1>l1, <1>f1 DEF Sign!IInv, Sign!ExchangeKeys, Sign!Registering,
     Sign!server, Sign!story, Sign!AtHome
<1>7. Sign!Arrived'
  BY <1>l0, <1>f0, <1>l1, <1>f1 DEF Sign!IInv, Sign!ExchangeKeys, Sign!Registering,
     Sign!story, Sign!Arrived, Sign!InLogin
<1> QED
  BY <1>1, <1>2, <1>3, <1>4, <1>5, <1>6, <1>7 DEF Sign!IInv

\* The server says whether the number is registered
\* (check_phone_on_answer).
LEMMA CheckPhoneOnAnswer_Keeps ==
  ASSUME Sign!SignInAssumption, Sign!IInv, Sign!CheckPhoneOnAnswer
  PROVE  Sign!IInv'
<1>1. Sign!TypeOK'
  BY DEF Sign!IInv, Sign!CheckPhoneOnAnswer, Sign!Checked, Sign!WaitAndGet,
     Sign!NoQuestion, Sign!Registering, Sign!SameDCs, Sign!asked, Sign!story,
     Sign!counts, Sign!Question, Sign!Queries, Sign!TypeOK
<1>2. Sign!Kinds'
  <2>1. Sign!Snapshot(Sign!Memory)'
    BY DEF Sign!IInv, Sign!CheckPhoneOnAnswer, Sign!SameDCs, Sign!Kinds, Sign!Memory
  <2>2. Sign!Snapshot(saved)'
    BY DEF Sign!IInv, Sign!CheckPhoneOnAnswer, Sign!Kinds
  <2>3. (queue \in Seq(Sign!Event))'
    <3>1. queue' = queue \/ \E t \in Sign!Question : Sign!WaitAndGet(t)
      BY DEF Sign!CheckPhoneOnAnswer, Sign!Checked, Sign!NoQuestion, Sign!asked,
         Sign!Question
    <3> QED
      BY <3>1, QuestionQueued DEF Sign!IInv, Sign!Kinds
  <2>4. (place \in DCs)'
    BY DEF Sign!IInv, Sign!CheckPhoneOnAnswer, Sign!Registering, Sign!server, Sign!Kinds
  <2>5. ({keepsLog, register, registered, calling, missed, unsaved, refused,
          arrived} \subseteq BOOLEAN)'
    BY DEF Sign!IInv, Sign!CheckPhoneOnAnswer, Sign!Registering, Sign!server,
       Sign!story, Sign!counts, Sign!Kinds
  <2> QED
    BY <2>1, <2>2, <2>3, <2>4, <2>5 DEF Sign!Kinds
<1>3. Sign!LogFits'
  BY DEF Sign!IInv, Sign!CheckPhoneOnAnswer, Sign!Registering, Sign!SameDCs,
     Sign!server, Sign!story, Sign!LogFits
<1>4. Sign!FileFits'
  BY DEF Sign!IInv, Sign!CheckPhoneOnAnswer, Sign!Registering, Sign!SameDCs,
     Sign!server, Sign!FileFits, Sign!SignedInAtHome, Sign!Steps, Sign!InLogin
<1>5. Sign!Steps'
  BY DEF Sign!IInv, Sign!CheckPhoneOnAnswer, Sign!Checked, Sign!WaitAndGet,
     Sign!Registering, Sign!SameDCs, Sign!Steps, Sign!InLogin
<1>6. Sign!AtHome'
  BY DEF Sign!IInv, Sign!CheckPhoneOnAnswer, Sign!Registering, Sign!SameDCs,
     Sign!server, Sign!story, Sign!AtHome
<1>7. Sign!Arrived'
  BY DEF Sign!IInv, Sign!CheckPhoneOnAnswer, Sign!story, Sign!Arrived, Sign!InLogin
<1> QED
  BY <1>1, <1>2, <1>3, <1>4, <1>5, <1>6, <1>7 DEF Sign!IInv

\* The server names the data centre of the number, which becomes the
\* working one (check_phone_on_error).
LEMMA CheckPhoneMigrates_Keeps ==
  ASSUME Sign!SignInAssumption, Sign!IInv, Sign!CheckPhoneMigrates
  PROVE  Sign!IInv'
<1>s. saved \in Snapshots
  BY DEF Sign!IInv, Sign!Kinds, Sign!Snapshot, Snapshots
<1>l0. keepsLog
       => (place \in known => saved' = [working |-> place, known |-> saved.known,
                                        keys |-> saved.keys,
                auth |-> saved.auth, fresh |-> saved.fresh])
  BY <1>s, Written DEF Sign!CheckPhoneMigrates, Sign!LogWorking, Sign!Fails
<1>f0. ~keepsLog
       => (place \in known => saved' = [working |-> place, known |-> known, keys |-> keys,
                auth |-> auth, fresh |-> fresh])
  BY Remembered DEF Sign!CheckPhoneMigrates, Sign!LogWorking, Sign!Fails
<1>l1. keepsLog => (place \notin known => saved' = saved)
  BY <1>s, Written DEF Sign!CheckPhoneMigrates, Sign!LogWorking, Sign!Fails
<1>f1. ~keepsLog => (place \notin known => saved' = saved)
  BY Remembered DEF Sign!CheckPhoneMigrates, Sign!LogWorking, Sign!Fails
<1>1. Sign!TypeOK'
  BY <1>l0, <1>f0, <1>l1, <1>f1 DEF Sign!IInv, Sign!CheckPhoneMigrates, Sign!Checked,
     Sign!WaitAndGet, Sign!NoQuestion, Sign!Registering, Sign!Fails, Sign!asked,
     Sign!counts, Sign!Question, Sign!Queries, Sign!TypeOK, Sign!LogFits
<1>2. Sign!Kinds'
  <2>1. Sign!Snapshot(Sign!Memory)'
    BY DEF Sign!IInv, Sign!CheckPhoneMigrates, Sign!Kinds, Sign!Snapshot, Sign!Memory
  <2>2. Sign!Snapshot(saved)'
    BY <1>l0, <1>f0, <1>l1, <1>f1 DEF Sign!IInv, Sign!Kinds, Sign!Snapshot,
       Sign!Memory, Sign!LogFits
  <2>3. (queue \in Seq(Sign!Event))'
    <3>1. queue' = queue \/ \E t \in Sign!Question : Sign!WaitAndGet(t)
      BY DEF Sign!CheckPhoneMigrates, Sign!Checked, Sign!NoQuestion, Sign!Fails,
         Sign!asked, Sign!Question
    <3> QED
      BY <3>1, QuestionQueued DEF Sign!IInv, Sign!Kinds
  <2>4. (place \in DCs)'
    BY DEF Sign!IInv, Sign!CheckPhoneMigrates, Sign!Registering, Sign!server, Sign!Kinds
  <2>5. ({keepsLog, register, registered, calling, missed, unsaved, refused,
          arrived} \subseteq BOOLEAN)'
    BY DEF Sign!IInv, Sign!CheckPhoneMigrates, Sign!Registering, Sign!server,
       Sign!counts, Sign!Kinds
  <2> QED
    BY <2>1, <2>2, <2>3, <2>4, <2>5 DEF Sign!Kinds
<1>3. Sign!LogFits'
  BY <1>l0, <1>f0, <1>l1, <1>f1 DEF Sign!IInv, Sign!CheckPhoneMigrates,
     Sign!Registering, Sign!LogWorking, Sign!server, Sign!LogFits
<1>4. Sign!FileFits'
  BY <1>l0, <1>f0, <1>l1, <1>f1 DEF Sign!IInv, Sign!CheckPhoneMigrates,
     Sign!Registering, Sign!Kinds, Sign!FileFits, Sign!Memory, Sign!Steps, Sign!InLogin
<1>5. Sign!Steps'
  BY <1>l0, <1>f0, <1>l1, <1>f1 DEF Sign!IInv, Sign!CheckPhoneMigrates, Sign!Checked,
     Sign!WaitAndGet, Sign!Registering, Sign!Steps, Sign!Kinds, Sign!InLogin
<1>6. Sign!AtHome'
  BY <1>l0, <1>f0, <1>l1, <1>f1 DEF Sign!IInv, Sign!CheckPhoneMigrates,
     Sign!Registering, Sign!server, Sign!AtHome
<1>7. Sign!Arrived'
  BY <1>l0, <1>f0, <1>l1, <1>f1 DEF Sign!IInv, Sign!CheckPhoneMigrates, Sign!Arrived,
     Sign!InLogin
<1> QED
  BY <1>1, <1>2, <1>3, <1>4, <1>5, <1>6, <1>7 DEF Sign!IInv

\* The server names the nearest data centre (nearest_dc_on_answer).
LEMMA NearestDcOnAnswer_Keeps ==
  ASSUME Sign!SignInAssumption, Sign!IInv, Sign!NearestDcOnAnswer
  PROVE  Sign!IInv'
<1>1. Sign!TypeOK'
  BY DEF Sign!IInv, Sign!NearestDcOnAnswer, Sign!NoQuestion, Sign!Registering,
     Sign!asked, Sign!counts, Sign!Question, Sign!Queries, Sign!TypeOK
<1>2. Sign!Kinds'
  <2>1. Sign!Snapshot(Sign!Memory)'
    BY DEF Sign!IInv, Sign!NearestDcOnAnswer, Sign!Kinds, Sign!Snapshot, Sign!Memory
  <2>2. Sign!Snapshot(saved)'
    BY DEF Sign!IInv, Sign!NearestDcOnAnswer, Sign!Kinds
  <2>3. (queue \in Seq(Sign!Event))'
    BY DEF Sign!IInv, Sign!NearestDcOnAnswer, Sign!NoQuestion, Sign!asked, Sign!Kinds
  <2>4. (place \in DCs)'
    BY DEF Sign!IInv, Sign!NearestDcOnAnswer, Sign!Registering, Sign!server, Sign!Kinds
  <2>5. ({keepsLog, register, registered, calling, missed, unsaved, refused,
          arrived} \subseteq BOOLEAN)'
    BY DEF Sign!IInv, Sign!NearestDcOnAnswer, Sign!Registering, Sign!server,
       Sign!counts, Sign!Kinds
  <2> QED
    BY <2>1, <2>2, <2>3, <2>4, <2>5 DEF Sign!Kinds
<1>3. Sign!LogFits'
  BY DEF Sign!IInv, Sign!NearestDcOnAnswer, Sign!Registering, Sign!server,
     Sign!Question, Sign!Kinds, Sign!LogFits, Sign!TypeOK
<1>4. Sign!FileFits'
  BY DEF Sign!IInv, Sign!NearestDcOnAnswer, Sign!Registering, Sign!server,
     Sign!FileFits, Sign!SignedInAtHome, Sign!Steps, Sign!InLogin
<1>5. Sign!Steps'
  BY DEF Sign!IInv, Sign!NearestDcOnAnswer, Sign!Registering, Sign!Steps, Sign!InLogin
<1>6. Sign!AtHome'
  BY DEF Sign!IInv, Sign!NearestDcOnAnswer, Sign!Registering, Sign!server, Sign!AtHome
<1>7. Sign!Arrived'
  BY DEF Sign!IInv, Sign!NearestDcOnAnswer, Sign!Arrived, Sign!InLogin
<1> QED
  BY <1>1, <1>2, <1>3, <1>4, <1>5, <1>6, <1>7 DEF Sign!IInv

\* The code was sent (send_code_on_answer).
LEMMA SendCodeOnAnswer_Keeps ==
  ASSUME Sign!SignInAssumption, Sign!IInv, Sign!SendCodeOnAnswer
  PROVE  Sign!IInv'
<1>1. Sign!TypeOK'
  BY DEF Sign!IInv, Sign!SendCodeOnAnswer, Sign!WaitAndGet, Sign!Registering,
     Sign!SameDCs, Sign!story, Sign!counts, Sign!Question, Sign!TypeOK
<1>2. Sign!Kinds'
  <2>1. Sign!Snapshot(Sign!Memory)'
    BY DEF Sign!IInv, Sign!SendCodeOnAnswer, Sign!SameDCs, Sign!Kinds, Sign!Memory
  <2>2. Sign!Snapshot(saved)'
    BY DEF Sign!IInv, Sign!SendCodeOnAnswer, Sign!Kinds
  <2>3. (queue \in Seq(Sign!Event))'
    <3>1. queue' = queue \/ \E t \in Sign!Question : Sign!WaitAndGet(t)
      BY DEF Sign!SendCodeOnAnswer, Sign!Question, Sign!Queries
    <3> QED
      BY <3>1, QuestionQueued DEF Sign!IInv, Sign!Kinds
  <2>4. (place \in DCs)'
    BY DEF Sign!IInv, Sign!SendCodeOnAnswer, Sign!Registering, Sign!server, Sign!Kinds
  <2>5. ({keepsLog, register, registered, calling, missed, unsaved, refused,
          arrived} \subseteq BOOLEAN)'
    BY DEF Sign!IInv, Sign!SendCodeOnAnswer, Sign!Registering, Sign!server, Sign!story,
       Sign!counts, Sign!Kinds
  <2> QED
    BY <2>1, <2>2, <2>3, <2>4, <2>5 DEF Sign!Kinds
<1>3. Sign!LogFits'
  BY DEF Sign!IInv, Sign!SendCodeOnAnswer, Sign!Registering, Sign!SameDCs, Sign!server,
     Sign!story, Sign!LogFits
<1>4. Sign!FileFits'
  BY DEF Sign!IInv, Sign!SendCodeOnAnswer, Sign!Registering, Sign!SameDCs, Sign!server,
     Sign!FileFits, Sign!SignedInAtHome, Sign!Steps, Sign!InLogin
<1>5. Sign!Steps'
  BY DEF Sign!IInv, Sign!SendCodeOnAnswer, Sign!WaitAndGet, Sign!Registering,
     Sign!SameDCs, Sign!server, Sign!Steps, Sign!InLogin
<1>6. Sign!AtHome'
  BY DEF Sign!IInv, Sign!SendCodeOnAnswer, Sign!Registering, Sign!SameDCs, Sign!server,
     Sign!story, Sign!AtHome
<1>7. Sign!Arrived'
  BY DEF Sign!IInv, Sign!SendCodeOnAnswer, Sign!story, Sign!Arrived, Sign!InLogin
<1> QED
  BY <1>1, <1>2, <1>3, <1>4, <1>5, <1>6, <1>7 DEF Sign!IInv

\* The code is asked of the data centre the server names
\* (send_code_on_error).
LEMMA SendCodeMigrates_Keeps ==
  ASSUME Sign!SignInAssumption, Sign!IInv, Sign!SendCodeMigrates
  PROVE  Sign!IInv'
<1>s. saved \in Snapshots
  BY DEF Sign!IInv, Sign!Kinds, Sign!Snapshot, Snapshots
<1>l0. keepsLog
       => (place \in known => saved' = [working |-> place, known |-> saved.known,
                                        keys |-> saved.keys,
                auth |-> saved.auth, fresh |-> saved.fresh])
  BY <1>s, Written DEF Sign!SendCodeMigrates, Sign!LogWorking, Sign!Fails
<1>f0. ~keepsLog => (place \in known => saved' = saved)
  BY Remembered DEF Sign!SendCodeMigrates, Sign!LogWorking, Sign!Fails
<1>l1. keepsLog => (place \notin known => saved' = saved)
  BY <1>s, Written DEF Sign!SendCodeMigrates, Sign!LogWorking, Sign!Fails
<1>f1. ~keepsLog => (place \notin known => saved' = saved)
  BY Remembered DEF Sign!SendCodeMigrates, Sign!LogWorking, Sign!Fails
<1>1. Sign!TypeOK'
  BY <1>l0, <1>f0, <1>l1, <1>f1 DEF Sign!IInv, Sign!SendCodeMigrates, Sign!NoQuestion,
     Sign!Registering, Sign!Fails, Sign!asked, Sign!counts, Sign!Question,
     Sign!Queries, Sign!TypeOK, Sign!LogFits
<1>2. Sign!Kinds'
  <2>1. Sign!Snapshot(Sign!Memory)'
    BY DEF Sign!IInv, Sign!SendCodeMigrates, Sign!Kinds, Sign!Snapshot, Sign!Memory
  <2>2. Sign!Snapshot(saved)'
    BY <1>l0, <1>f0, <1>l1, <1>f1 DEF Sign!IInv, Sign!Kinds, Sign!Snapshot, Sign!LogFits
  <2>3. (queue \in Seq(Sign!Event))'
    BY DEF Sign!IInv, Sign!SendCodeMigrates, Sign!NoQuestion, Sign!Fails, Sign!asked,
       Sign!Kinds
  <2>4. (place \in DCs)'
    BY DEF Sign!IInv, Sign!SendCodeMigrates, Sign!Registering, Sign!server, Sign!Kinds
  <2>5. ({keepsLog, register, registered, calling, missed, unsaved, refused,
          arrived} \subseteq BOOLEAN)'
    BY DEF Sign!IInv, Sign!SendCodeMigrates, Sign!Registering, Sign!server,
       Sign!counts, Sign!Kinds
  <2> QED
    BY <2>1, <2>2, <2>3, <2>4, <2>5 DEF Sign!Kinds
<1>3. Sign!LogFits'
  BY <1>l0, <1>f0, <1>l1, <1>f1 DEF Sign!IInv, Sign!SendCodeMigrates, Sign!Registering,
     Sign!server, Sign!LogFits
<1>4. Sign!FileFits'
  BY <1>l0, <1>f0, <1>l1, <1>f1 DEF Sign!IInv, Sign!SendCodeMigrates, Sign!Registering,
     Sign!server, Sign!FileFits, Sign!SignedInAtHome, Sign!Steps, Sign!InLogin
<1>5. Sign!Steps'
  BY <1>l0, <1>f0, <1>l1, <1>f1 DEF Sign!IInv, Sign!SendCodeMigrates, Sign!Registering,
     Sign!Steps, Sign!Kinds, Sign!InLogin
<1>6. Sign!AtHome'
  BY <1>l0, <1>f0, <1>l1, <1>f1 DEF Sign!IInv, Sign!SendCodeMigrates, Sign!Registering,
     Sign!server, Sign!AtHome
<1>7. Sign!Arrived'
  BY <1>l0, <1>f0, <1>l1, <1>f1 DEF Sign!IInv, Sign!SendCodeMigrates, Sign!Arrived,
     Sign!InLogin
<1> QED
  BY <1>1, <1>2, <1>3, <1>4, <1>5, <1>6, <1>7 DEF Sign!IInv

\* The account is signed in at the working data centre
\* (sign_in_on_answer).
LEMMA SignInOnAnswer_Keeps ==
  ASSUME Sign!SignInAssumption, Sign!IInv, Sign!SignInOnAnswer
  PROVE  Sign!IInv'
<1>s. saved \in Snapshots
  BY DEF Sign!IInv, Sign!Kinds, Sign!Snapshot, Snapshots
<1>l0. keepsLog
       => ( saved' = [working |-> saved.working, known |-> saved.known,
                      keys |-> saved.keys,
                auth |-> saved.auth \cup {working}, fresh |-> saved.fresh])
  BY <1>s, Written DEF Sign!SignInOnAnswer, Sign!SignedIn, Sign!LogSigned
<1>f0. ~keepsLog => ( saved' = saved)
  BY Remembered DEF Sign!SignInOnAnswer, Sign!SignedIn, Sign!LogSigned
<1>1. Sign!TypeOK'
  BY <1>l0, <1>f0 DEF Sign!IInv, Sign!SignInOnAnswer, Sign!NoQuestion, Sign!asked,
     Sign!counts, Sign!Question, Sign!TypeOK, Sign!Steps, Sign!InLogin
<1>2. Sign!Kinds'
  <2>1. Sign!Snapshot(Sign!Memory)'
    BY DEF Sign!IInv, Sign!SignInOnAnswer, Sign!Snapshot, Sign!Memory, Sign!TypeOK,
       Sign!Steps, Sign!InLogin
  <2>2. Sign!Snapshot(saved)'
    BY <1>l0, <1>f0 DEF Sign!IInv, Sign!SignInOnAnswer, Sign!Kinds, Sign!Snapshot,
       Sign!LogFits, Sign!Steps, Sign!InLogin
  <2>3. (queue \in Seq(Sign!Event))'
    BY DEF Sign!IInv, Sign!SignInOnAnswer, Sign!NoQuestion, Sign!asked, Sign!Kinds
  <2>4. (place \in DCs)'
    BY DEF Sign!IInv, Sign!SignInOnAnswer, Sign!Kinds
  <2>5. ({keepsLog, register, registered, calling, missed, unsaved, refused,
          arrived} \subseteq BOOLEAN)'
    BY DEF Sign!IInv, Sign!SignInOnAnswer, Sign!counts, Sign!Kinds
  <2> QED
    BY <2>1, <2>2, <2>3, <2>4, <2>5 DEF Sign!Kinds
<1>3. Sign!LogFits'
  BY <1>l0, <1>f0 DEF Sign!IInv, Sign!SignInOnAnswer, Sign!LogFits, Sign!Steps
<1>4. Sign!FileFits'
  BY <1>l0, <1>f0 DEF Sign!IInv, Sign!SignInOnAnswer, Sign!FileFits,
     Sign!SignedInAtHome, Sign!Memory, Sign!Steps
<1>5. Sign!Steps'
  BY <1>l0, <1>f0 DEF Sign!IInv, Sign!SignInOnAnswer, Sign!Steps, Sign!InLogin
<1>6. Sign!AtHome'
  BY <1>l0, <1>f0 DEF Sign!IInv, Sign!SignInOnAnswer, Sign!AtHome, Sign!Steps
<1>7. Sign!Arrived'
  BY <1>l0, <1>f0 DEF Sign!IInv, Sign!SignInOnAnswer, Sign!Arrived, Sign!InLogin
<1> QED
  BY <1>1, <1>2, <1>3, <1>4, <1>5, <1>6, <1>7 DEF Sign!IInv

\* The server refuses, and the process may stop.
LEMMA Refused_Keeps ==
  ASSUME Sign!SignInAssumption, Sign!IInv, Sign!Refused
  PROVE  Sign!IInv'
<1>1. Sign!TypeOK'
  BY DEF Sign!IInv, Sign!Refused, Sign!SameDCs, Sign!NoQuestion, Sign!config,
     Sign!asked, Sign!Question, Sign!Queries, Sign!TypeOK
<1>2. Sign!Kinds'
  <2>1. Sign!Snapshot(Sign!Memory)'
    BY DEF Sign!IInv, Sign!Refused, Sign!SameDCs, Sign!Kinds, Sign!Memory
  <2>2. Sign!Snapshot(saved)'
    BY DEF Sign!IInv, Sign!Refused, Sign!config, Sign!Kinds
  <2>3. (queue \in Seq(Sign!Event))'
    BY DEF Sign!IInv, Sign!Refused, Sign!NoQuestion, Sign!asked, Sign!Kinds
  <2>4. (place \in DCs)'
    BY DEF Sign!IInv, Sign!Refused, Sign!server, Sign!Kinds
  <2>5. ({keepsLog, register, registered, calling, missed, unsaved, refused,
          arrived} \subseteq BOOLEAN)'
    BY DEF Sign!IInv, Sign!Refused, Sign!config, Sign!server, Sign!Kinds
  <2> QED
    BY <2>1, <2>2, <2>3, <2>4, <2>5 DEF Sign!Kinds
<1>3. Sign!LogFits'
  BY DEF Sign!IInv, Sign!Refused, Sign!SameDCs, Sign!config, Sign!server, Sign!LogFits
<1>4. Sign!FileFits'
  BY DEF Sign!IInv, Sign!Refused, Sign!SameDCs, Sign!config, Sign!server, Sign!Queries,
     Sign!FileFits, Sign!SignedInAtHome, Sign!Memory
<1>5. Sign!Steps'
  BY DEF Sign!Refused, Sign!Steps, Sign!InLogin
<1>6. Sign!AtHome'
  BY DEF Sign!IInv, Sign!Refused, Sign!SameDCs, Sign!config, Sign!server, Sign!AtHome
<1>7. Sign!Arrived'
  BY DEF Sign!IInv, Sign!Refused, Sign!SameDCs, Sign!config, Sign!Arrived, Sign!InLogin
<1> QED
  BY <1>1, <1>2, <1>3, <1>4, <1>5, <1>6, <1>7 DEF Sign!IInv

\* The answer to the request of a call changes nothing
\* (phone_call_on_answer).
LEMMA PhoneCallOnAnswer_Keeps ==
  ASSUME Sign!SignInAssumption, Sign!IInv, Sign!PhoneCallOnAnswer
  PROVE  Sign!IInv'
<1>1. Sign!TypeOK'
  BY DEF Sign!IInv, Sign!PhoneCallOnAnswer, Sign!NoQuestion, Sign!core, Sign!config,
     Sign!asked, Sign!story, Sign!TypeOK
<1>2. Sign!Kinds'
  <2>1. Sign!Snapshot(Sign!Memory)'
    BY DEF Sign!IInv, Sign!PhoneCallOnAnswer, Sign!core, Sign!Kinds, Sign!Memory
  <2>2. Sign!Snapshot(saved)'
    BY DEF Sign!IInv, Sign!PhoneCallOnAnswer, Sign!config, Sign!Kinds
  <2>3. (queue \in Seq(Sign!Event))'
    BY DEF Sign!IInv, Sign!PhoneCallOnAnswer, Sign!NoQuestion, Sign!asked, Sign!Kinds
  <2>4. (place \in DCs)'
    BY DEF Sign!IInv, Sign!PhoneCallOnAnswer, Sign!server, Sign!Kinds
  <2>5. ({keepsLog, register, registered, calling, missed, unsaved, refused,
          arrived} \subseteq BOOLEAN)'
    BY DEF Sign!IInv, Sign!PhoneCallOnAnswer, Sign!config, Sign!server, Sign!story,
       Sign!Kinds
  <2> QED
    BY <2>1, <2>2, <2>3, <2>4, <2>5 DEF Sign!Kinds
<1>3. Sign!LogFits'
  BY DEF Sign!IInv, Sign!PhoneCallOnAnswer, Sign!core, Sign!config, Sign!server,
     Sign!story, Sign!LogFits
<1>4. Sign!FileFits'
  BY DEF Sign!IInv, Sign!PhoneCallOnAnswer, Sign!core, Sign!config, Sign!server,
     Sign!FileFits, Sign!SignedInAtHome, Sign!Memory
<1>5. Sign!Steps'
  BY DEF Sign!IInv, Sign!PhoneCallOnAnswer, Sign!core, Sign!config, Sign!server,
     Sign!Queries, Sign!Steps
<1>6. Sign!AtHome'
  BY DEF Sign!IInv, Sign!PhoneCallOnAnswer, Sign!core, Sign!config, Sign!server,
     Sign!story, Sign!AtHome
<1>7. Sign!Arrived'
  BY DEF Sign!IInv, Sign!PhoneCallOnAnswer, Sign!core, Sign!config, Sign!story,
     Sign!Arrived
<1> QED
  BY <1>1, <1>2, <1>3, <1>4, <1>5, <1>6, <1>7 DEF Sign!IInv

\* The authorization is taken to the other data centres, one after another
\* (export_auth_on_answer, import_auth_on_answer).
LEMMA ImportAuth_Keeps ==
  ASSUME Sign!SignInAssumption, Sign!IInv, Sign!ImportAuth
  PROVE  Sign!IInv'
<1>s. saved \in Snapshots
  BY DEF Sign!IInv, Sign!Kinds, Sign!Snapshot, Snapshots
<1>1. /\ UNCHANGED <<known, keys, working, fresh, mode, home, missed, unsaved, refused>>
      /\ UNCHANGED <<asking, reply, queue, page, keepsLog, register, place, registered>>
      /\ UNCHANGED <<calling, calls, crashes>> /\ pc = "import"
  BY DEF Sign!ImportAuth, Sign!NoQuestion, Sign!Registering, Sign!asked, Sign!server,
     Sign!counts
<1>2. CASE known \ auth # {}
  <2>1. PICK d : d = CHOOSE x \in known \ auth : \A y \in known \ auth : x <= y
    OBVIOUS
  <2>2. d \in known
    <3>1. known \ auth \subseteq Nat
      BY DEF Sign!IInv, Sign!TypeOK, Sign!SignInAssumption
    <3> QED
      BY <1>2, <2>1, <3>1, LeastOf
  <2>3. auth' = auth \cup {d} /\ pc' = pc /\ arrived' = arrived
    BY <1>2, <2>1 DEF Sign!ImportAuth
  <2>4. keepsLog => saved' = [working |-> saved.working, known |-> saved.known,
                              keys |-> saved.keys, auth |-> saved.auth \cup {d},
                              fresh |-> saved.fresh]
    BY <1>2, <1>s, <2>1, Written DEF Sign!ImportAuth, Sign!LogSigned
  <2>5. ~keepsLog => saved' = [working |-> working, known |-> known, keys |-> keys,
                               auth |-> auth', fresh |-> fresh]
    BY <1>2, <2>1, Remembered DEF Sign!ImportAuth
  <2>6. Sign!TypeOK'
    BY <1>1, <2>2, <2>3, <2>4, <2>5 DEF Sign!IInv, Sign!TypeOK, Sign!Kinds,
       Sign!Memory, Sign!Steps
  <2>7. Sign!Kinds'
    <3>1. Sign!Snapshot(Sign!Memory)'
      BY <1>1, <2>2, <2>3, <2>4, <2>5 DEF Sign!IInv, Sign!Kinds, Sign!Snapshot,
         Sign!Memory, Sign!Steps
    <3>2. Sign!Snapshot(saved)'
      <4>1. CASE keepsLog
        BY <1>1, <2>2, <2>4, <4>1 DEF Sign!IInv, Sign!Kinds, Sign!Snapshot,
           Sign!LogFits, Sign!Steps
      <4>2. CASE ~keepsLog
        <5>1. saved' = Sign!Memory'
          BY <1>1, <2>3, <2>5, <4>2 DEF Sign!Memory
        <5> QED
          BY <3>1, <5>1 DEF Sign!Snapshot
      <4> QED
        BY <4>1, <4>2
    <3>3. (queue \in Seq(Sign!Event))'
      BY <1>1, <2>2, <2>3, <2>4, <2>5 DEF Sign!IInv, Sign!Kinds, Sign!SignInAssumption
    <3>4. (place \in DCs)'
      BY <1>1, <2>2, <2>3, <2>4, <2>5 DEF Sign!IInv, Sign!Kinds, Sign!SignInAssumption
    <3>5. ({keepsLog, register, registered, calling, missed, unsaved, refused,
            arrived} \subseteq BOOLEAN)'
      BY <1>1, <2>2, <2>3, <2>4, <2>5 DEF Sign!IInv, Sign!Kinds, Sign!SignInAssumption
    <3> QED
      BY <3>1, <3>2, <3>3, <3>4, <3>5 DEF Sign!Kinds
  <2>8. Sign!LogFits'
    BY <1>1, <2>2, <2>3, <2>4, <2>5 DEF Sign!IInv, Sign!LogFits, Sign!SignInAssumption
  <2>9. Sign!FileFits'
    BY <1>1, <2>2, <2>3, <2>4, <2>5 DEF Sign!IInv, Sign!FileFits, Sign!SignedInAtHome,
       Sign!Memory
  <2>10. Sign!Steps'
    BY <1>1, <2>2, <2>3, <2>4, <2>5 DEF Sign!IInv, Sign!Steps, Sign!SignInAssumption
  <2>11. Sign!AtHome'
    BY <1>1, <2>2, <2>3, <2>4, <2>5 DEF Sign!IInv, Sign!AtHome, Sign!Steps
  <2>12. Sign!Arrived'
    BY <1>1, <2>2, <2>3, <2>4, <2>5 DEF Sign!IInv, Sign!Arrived, Sign!SignInAssumption
  <2> QED
    BY <2>6, <2>7, <2>8, <2>9, <2>10, <2>11, <2>12 DEF Sign!IInv
<1>3. CASE known \ auth = {}
  <2>2. auth' = auth /\ pc' = "main" /\ arrived' = TRUE
    BY <1>3 DEF Sign!ImportAuth
  <2>3. keepsLog => saved' = saved
    BY <1>3 DEF Sign!ImportAuth, Sign!WriteAuthFile
  <2>4. ~keepsLog => saved' = Sign!Memory
    BY <1>3 DEF Sign!ImportAuth, Sign!WriteAuthFile
  <2>6. Sign!TypeOK'
    BY <1>1, <1>3, <2>2, <2>3, <2>4 DEF Sign!IInv, Sign!TypeOK, Sign!Memory, Sign!Question
  <2>7. Sign!Kinds'
    <3>1. Sign!Snapshot(Sign!Memory)'
      BY <1>1, <1>3, <2>2, <2>3, <2>4 DEF Sign!IInv, Sign!Kinds, Sign!Memory
    <3>2. Sign!Snapshot(saved)'
      BY <1>1, <1>3, <2>2, <2>3, <2>4 DEF Sign!IInv, Sign!Kinds, Sign!SignInAssumption
    <3>3. (queue \in Seq(Sign!Event))'
      BY <1>1, <1>3, <2>2, <2>3, <2>4 DEF Sign!IInv, Sign!Kinds, Sign!SignInAssumption
    <3>4. (place \in DCs)'
      BY <1>1, <1>3, <2>2, <2>3, <2>4 DEF Sign!IInv, Sign!Kinds, Sign!SignInAssumption
    <3>5. ({keepsLog, register, registered, calling, missed, unsaved, refused,
            arrived} \subseteq BOOLEAN)'
      BY <1>1, <1>3, <2>2, <2>3, <2>4 DEF Sign!IInv, Sign!Kinds, Sign!SignInAssumption
    <3> QED
      BY <3>1, <3>2, <3>3, <3>4, <3>5 DEF Sign!Kinds
  <2>8. Sign!LogFits'
    BY <1>1, <1>3, <2>2, <2>3, <2>4 DEF Sign!IInv, Sign!LogFits, Sign!SignInAssumption
  <2>9. Sign!FileFits'
    BY <1>1, <1>3, <2>2, <2>3, <2>4 DEF Sign!IInv, Sign!FileFits, Sign!SignedInAtHome,
       Sign!Memory
  <2>10. Sign!Steps'
    BY <1>1, <1>3, <2>2, <2>3, <2>4 DEF Sign!IInv, Sign!Steps, Sign!InLogin
  <2>11. Sign!AtHome'
    BY <1>1, <1>3, <2>2, <2>3, <2>4 DEF Sign!IInv, Sign!AtHome, Sign!Steps
  <2>12. Sign!Arrived'
    BY <1>1, <1>3, <2>2, <2>3, <2>4 DEF Sign!IInv, Sign!Arrived, Sign!Kinds,
       Sign!LogFits, Sign!Steps, Sign!InLogin, Sign!Memory, Sign!Snapshot
  <2> QED
    BY <2>6, <2>7, <2>8, <2>9, <2>10, <2>11, <2>12 DEF Sign!IInv
<1> QED
  BY <1>2, <1>3

\* The process ends between any two steps and begins with what was saved.
LEMMA Crash_Keeps ==
  ASSUME Sign!SignInAssumption, Sign!IInv, Sign!Crash
  PROVE  Sign!IInv'
<1>1. Sign!TypeOK'
  BY DEF Sign!IInv, Sign!Crash, Sign!Load, Sign!config, Sign!Question, Sign!Queries,
     Sign!TypeOK, Sign!Kinds, Sign!Snapshot, Sign!SignInAssumption
<1>2. Sign!Kinds'
  <2>1. Sign!Snapshot(Sign!Memory)'
    BY DEF Sign!IInv, Sign!Crash, Sign!Load, Sign!Kinds, Sign!Snapshot, Sign!Memory
  <2>2. Sign!Snapshot(saved)'
    BY DEF Sign!IInv, Sign!Crash, Sign!config, Sign!Kinds
  <2>3. (queue \in Seq(Sign!Event))'
    BY DEF Sign!Crash, Sign!TypeOK, Sign!SignInAssumption
  <2>4. (place \in DCs)'
    BY DEF Sign!IInv, Sign!Crash, Sign!server, Sign!Kinds
  <2>5. ({keepsLog, register, registered, calling, missed, unsaved, refused,
          arrived} \subseteq BOOLEAN)'
    BY DEF Sign!IInv, Sign!Crash, Sign!config, Sign!server, Sign!Kinds
  <2> QED
    BY <2>1, <2>2, <2>3, <2>4, <2>5 DEF Sign!Kinds
<1>3. Sign!LogFits'
  BY DEF Sign!IInv, Sign!Crash, Sign!Load, Sign!config, Sign!server, Sign!LogFits
<1>4. Sign!FileFits'
  BY DEF Sign!IInv, Sign!Crash, Sign!Load, Sign!config, Sign!server, Sign!FileFits,
     Sign!SignedInAtHome, Sign!Memory
<1>5. Sign!Steps'
  BY DEF Sign!Crash, Sign!Load, Sign!Steps, Sign!InLogin
<1>6. Sign!AtHome'
  BY DEF Sign!IInv, Sign!Crash, Sign!Load, Sign!config, Sign!server, Sign!AtHome
<1>7. Sign!Arrived'
  BY DEF Sign!IInv, Sign!Crash, Sign!Load, Sign!config, Sign!Arrived, Sign!Kinds,
     Sign!InLogin, Sign!Snapshot
<1> QED
  BY <1>1, <1>2, <1>3, <1>4, <1>5, <1>6, <1>7 DEF Sign!IInv

\* The invariant of the sign in holds at first.
LEMMA SignInInit ==
  ASSUME Sign!SignInAssumption, Sign!Init
  PROVE  Sign!IInv
<1>1. Sign!Snapshot(Sign!Memory) /\ Sign!Snapshot(saved)
  BY DEF Sign!Init, Sign!Snapshot, Sign!Memory, Sign!Nothing, Sign!SignInAssumption
<1>2. queue \in Seq(Sign!Event) /\ place \in DCs
  BY DEF Sign!Init
<1>3. {keepsLog, register, registered, calling, missed, unsaved, refused,
       arrived} \subseteq BOOLEAN
  BY DEF Sign!Init
<1>4. Sign!Kinds
  BY <1>1, <1>2, <1>3 DEF Sign!Kinds
<1>5. Sign!TypeOK
  BY DEF Sign!Init, Sign!TypeOK, Sign!Nothing, Sign!Question, Sign!SignInAssumption
<1>6. Sign!LogFits /\ Sign!FileFits /\ Sign!Steps /\ Sign!AtHome /\ Sign!Arrived
  BY DEF Sign!Init, Sign!Nothing, Sign!LogFits, Sign!FileFits, Sign!Steps,
     Sign!InLogin, Sign!AtHome, Sign!Arrived
<1> QED
  BY <1>4, <1>5, <1>6 DEF Sign!IInv

\* Each step of the sign in keeps its invariant.
LEMMA SignInNext ==
  ASSUME Sign!SignInAssumption, Sign!IInv, [Sign!Next]_(Sign!signin_vars)
  PROVE  Sign!IInv'
<1>1. CASE UNCHANGED Sign!signin_vars
  <2>1. UNCHANGED <<pc, known, keys, auth, working, fresh, mode, saved, keepsLog,
                    register>>
    BY <1>1 DEF Sign!signin_vars, Sign!core, Sign!config
  <2>2. UNCHANGED <<asking, reply, queue, page, place, registered, calling, calls,
                    crashes>>
    BY <1>1 DEF Sign!signin_vars, Sign!asked, Sign!server, Sign!counts
  <2>3. UNCHANGED <<home, missed, unsaved, refused, arrived>>
    BY <1>1 DEF Sign!signin_vars, Sign!story
  <2>4. Sign!TypeOK' /\ Sign!LogFits' /\ Sign!Steps' /\ Sign!AtHome' /\ Sign!Arrived'
    BY <2>1, <2>2, <2>3 DEF Sign!IInv, Sign!TypeOK, Sign!LogFits, Sign!Steps,
       Sign!AtHome, Sign!Arrived
  <2>5. Sign!FileFits'
    BY <2>1, <2>2, <2>3 DEF Sign!IInv, Sign!FileFits, Sign!SignedInAtHome, Sign!Memory
  <2>6. Sign!Kinds'
    BY <2>1, <2>2, <2>3 DEF Sign!IInv, Sign!Kinds, Sign!Memory
  <2> QED
    BY <2>4, <2>5, <2>6 DEF Sign!IInv
<1> QED
  BY <1>1, Wait_Keeps, UserAnswers_Keeps, MainThread_Keeps, Woken_Keeps,
     ExchangeKey_Keeps, ConfigOnAnswer_Keeps, ExchangeKeys_Keeps,
     CheckPhoneOnAnswer_Keeps, CheckPhoneMigrates_Keeps, NearestDcOnAnswer_Keeps,
     SendCodeOnAnswer_Keeps,
     SendCodeMigrates_Keeps, SignInOnAnswer_Keeps, ImportAuth_Keeps,
     PhoneCallOnAnswer_Keeps, Refused_Keeps, Crash_Keeps DEF Sign!Next, Sign!Answers

\* The invariant of the sign in implies its properties.
LEMMA SignInGoals ==
  ASSUME Sign!SignInAssumption, Sign!IInv
  PROVE  Sign!TypeOK /\ Sign!HomeKept /\ Sign!SignedInOnce /\ Sign!StopsOnlyWhenRefused
<1>1. Sign!TypeOK
  BY DEF Sign!IInv
<1>2. Sign!HomeKept
  <2> SUFFICES ASSUME pc = "main" PROVE working = home \/ unsaved
    BY DEF Sign!HomeKept
  <2>1. working \in auth /\ ~fresh
    BY DEF Sign!IInv, Sign!Steps
  <2>2. home = place /\ home # 0
    BY <2>1 DEF Sign!IInv, Sign!AtHome, Sign!Kinds, Sign!SignInAssumption
  <2>3. CASE keepsLog
    BY <2>2, <2>3 DEF Sign!IInv, Sign!LogFits
  <2>4. CASE ~keepsLog
    BY <2>1, <2>2, <2>4 DEF Sign!IInv, Sign!FileFits, Sign!SignedInAtHome, Sign!Memory
  <2> QED
    BY <2>3, <2>4
<1>3. Sign!SignedInOnce
  BY DEF Sign!IInv, Sign!SignedInOnce, Sign!Arrived, Sign!InLogin
<1>4. Sign!StopsOnlyWhenRefused
  BY DEF Sign!IInv, Sign!StopsOnlyWhenRefused, Sign!Steps, Sign!InLogin, Sign!TypeOK
<1> QED
  BY <1>1, <1>2, <1>3, <1>4

-----------------------------------------------------------------------------
\* Uploads

\* The totals of the uploads are sums.
LEMMA UpTotal ==
  ASSUME NEW n
  PROVE  Up!Total(n) = Sum(n)
<1>1. Up!Total(n) = Up!Cardinality(UNION {{s} \X (1..n[s]) : s \in DOMAIN n})
  BY DEF Up!Total
<1> QED
  BY <1>1, SameCount DEF Sum

\* The sum over one place is what stands there.
LEMMA SumOfOne ==
  ASSUME NEW d, NEW m \in [{d} -> Nat]
  PROVE  Sum(m) = m[d]
<1>1. PICK n : n = [s \in {} |-> 0]
  OBVIOUS
<1>2. DOMAIN n = {} /\ n \in [{} -> Nat] /\ m \in [{} \cup {d} -> Nat] /\ IsFiniteSet({})
  BY <1>1, FS_EmptySet
<1>3. Sum(m) = Sum(n) + m[d] /\ m[d] \in Nat
  BY <1>2, SumWith
<1> QED
  BY <1>2, <1>3, SumOfNothing

\* The units of a file in order, and those that follow, are the units in
\* order.
LEMMA UnitsOn ==
  ASSUME NEW n \in Nat, NEW x \in Nat
  PROVE  /\ Up!Units(0, n) \o Up!Units(n, x) = Up!Units(0, n + x)
         /\ Up!Units(n, x) \in Seq(Nat) /\ Up!Units(0, n) \in Seq(Nat)
<1>1. Up!Units(0, n) \in Seq(Nat) /\ Len(Up!Units(0, n)) = n
  <2>1. Up!Units(0, n) \in [1..n -> Nat]
    BY DEF Up!Units
  <2> QED
    BY <2>1, IsASeq, LenProperties DEF Up!Units
<1>2. Up!Units(n, x) \in Seq(Nat) /\ Len(Up!Units(n, x)) = x
  <2>1. Up!Units(n, x) \in [1..x -> Nat]
    BY DEF Up!Units
  <2> QED
    BY <2>1, IsASeq, LenProperties DEF Up!Units
<1>3. PICK a, b : a = Up!Units(0, n) /\ b = Up!Units(n, x)
  OBVIOUS
<1>4. DOMAIN (a \o b) = 1..(n + x)
  BY <1>1, <1>2, <1>3
<1>5. \A i \in 1..(n + x) : (a \o b)[i] = i
  BY <1>1, <1>2, <1>3 DEF Up!Units
<1>6. a \o b = Up!Units(0, n + x)
  BY <1>1, <1>2, <1>3, <1>4, <1>5 DEF Up!Units
<1> QED
  BY <1>1, <1>2, <1>3, <1>6

\* What the totals of the uploads add up are numbers, finitely many.
LEMMA UpTotalsHaveKind ==
  ASSUME Up!UploadsAssumption, Up!IInv
  PROVE  /\ IsFiniteSet(Up!Begun)
         /\ [s \in Up!Begun |-> file[s].size] \in [Up!Begun -> Nat]
         /\ [s \in Up!Begun |-> file[s].offset] \in [Up!Begun -> Nat]
<1>1. IsFiniteSet(Up!Begun)
  BY FS_Subset, SameCount DEF Up!UploadsAssumption, Up!Begun
<1>2. \A s \in Slots : file[s].size \in Nat /\ file[s].offset \in Nat
  BY DEF Up!IInv, Up!SendFile
<1> QED
  BY <1>1, <1>2 DEF Up!Begun

\* What a part that is sent changes of its file.
LEMMA Advanced ==
  ASSUME NEW f \in Up!SendFile, NEW x \in Nat
  PROVE  /\ Up!Sent(f, x).num = f.num + 1 /\ Up!Sent(f, x).offset = f.offset + x
         /\ Up!Sent(f, x).size = f.size /\ Up!Sent(f, x).part = f.part
         /\ Up!Sent(f, x).open = (IF f.offset + x = f.size THEN FALSE ELSE f.open)
         /\ Up!Sent(f, x).encr = f.encr
         /\ Up!Sent(f, x) \in Up!SendFile
<1>g. PICK g : g = [f EXCEPT !.num = @ + 1, !.offset = @ + x,
                            !.open = IF f.offset + x = f.size THEN FALSE ELSE @]
  OBVIOUS
<1>0. f.num + 1 \in Nat /\ f.offset + x \in Nat
  BY <1>g DEF Up!SendFile
<1>1. g.num = f.num + 1 /\ g.offset = f.offset + x /\ g.size = f.size /\ g.part = f.part
      /\ g.encr = f.encr
  BY <1>g DEF Up!SendFile
<1>2. g.open = IF f.offset + x = f.size THEN FALSE ELSE f.open
  BY <1>g DEF Up!SendFile
<1>3. g \in Up!SendFile
  <2>1. PICK n \in Nat, o \in Nat, b \in BOOLEAN :
            g = [size |-> f.size, part |-> f.part, num |-> n, offset |-> o, open |-> b,
                 encr |-> f.encr]
    <3>1. f = [size |-> f.size, part |-> f.part, num |-> f.num, offset |-> f.offset,
               open |-> f.open, encr |-> f.encr]
      BY <1>g DEF Up!SendFile
    <3>2. CASE f.offset + x = f.size
      <4>1. g = [size |-> f.size, part |-> f.part, num |-> f.num + 1,
                 offset |-> f.offset + x, open |-> FALSE, encr |-> f.encr]
        BY <1>g, <3>1, <3>2
      <4> QED
        BY <1>0, <4>1
    <3>3. CASE f.offset + x # f.size
      <4>1. g = [size |-> f.size, part |-> f.part, num |-> f.num + 1,
                 offset |-> f.offset + x, open |-> f.open, encr |-> f.encr]
        BY <1>g, <3>1, <3>3
      <4>2. f.open \in BOOLEAN
        BY <1>g DEF Up!SendFile
      <4> QED
        BY Zenon, <1>0, <4>1, <4>2
    <3> QED
      BY <3>2, <3>3
  <2> QED
    BY <2>1 DEF Up!SendFile
<1> QED
  BY Zenon, <1>g, <1>1, <1>2, <1>3 DEF Up!Sent

\* The next part of an upload is sent: what the server stores grows in
\* order, and the totals by its units (send_file_part, send_part).
LEMMA PartSent ==
  ASSUME Up!UploadsAssumption, Up!IInv, NEW s \in Slots, NEW f \in Up!SendFile,
         f.open, f.size > 0, f.part > 0, f.offset < f.size, (f.num = 0) = (f.offset = 0),
         file[s].num = f.num, file[s].offset = f.offset,
         f.num > 0 => file[s].size = f.size,
         Up!PartGoes(s, f),
         ~overlapped' => ~overlapped /\ \A t \in Up!Active : t = s,
         last' \in Up!Last, overlapped' \in BOOLEAN,
         process' \in Up!Process,
         files' \in 0..MaxFiles, refusals' \in 0..MaxRefusals
  PROVE  Up!IInv'
<1>a. PICK x : x = Up!Length(f)
  OBVIOUS
<1>1. /\ f.size \in Nat /\ f.part \in Nat /\ f.num \in Nat /\ f.offset \in Nat
      /\ x \in Nat /\ x > 0 /\ f.offset + x <= f.size
  BY <1>a DEF Up!SendFile, Up!Length
<1>b. PICK n0 \in Nat, o0 \in Nat, z \in Nat : f.num = n0 /\ f.offset = o0 /\ f.size = z
  BY <1>1
<1>c. o0 + x <= z /\ z > 0 /\ o0 < z /\ n0 \in Nat /\ o0 \in Nat /\ z \in Nat
      /\ (n0 = 0 <=> o0 = 0)
  BY <1>1, <1>b
<1>2. PICK g : g = Up!Sent(f, x)
  OBVIOUS
<1>e. /\ g.num = f.num + 1 /\ g.offset = f.offset + x /\ g.size = f.size /\ g.part =
         f.part
      /\ g.open = (IF f.offset + x = f.size THEN FALSE ELSE f.open) /\ g \in Up!SendFile
  BY Zenon, <1>1, <1>2, Advanced
<1>f. g.open <=> o0 + x # z
  <2>1. CASE o0 + x = z
    BY <1>b, <1>e, <2>1
  <2>2. CASE o0 + x # z
    BY <1>b, <1>e, <2>2
  <2> QED
    BY <2>1, <2>2
<1>3. /\ g.num = n0 + 1 /\ g.offset = o0 + x /\ g.size = z /\ g.part = f.part
      /\ g \in Up!SendFile /\ (g.open <=> o0 + x # z)
  BY <1>b, <1>e, <1>f
<1>4. /\ file' = [file EXCEPT ![s] = g] /\ waits' = [waits EXCEPT ![s] = "part"]
      /\ stored' = [stored EXCEPT ![s] = Up!Stored(@, Up!Units(f.offset, x))]
      /\ uploading' = uploading + (IF f.num = 0 THEN f.size ELSE 0)
      /\ uploaded' = uploaded + x
      /\ progress' = Up!Progress(progress, s, uploading', uploaded')
      /\ torn' = torn
  BY <1>a, <1>2 DEF Up!PartGoes
<1>5. /\ file' \in [Slots -> Up!SendFile] /\ file'[s] = g
      /\ \A t \in Slots \ {s} : file'[t] = file[t] /\ waits'[t] = waits[t]
         /\ stored'[t] = stored[t]
      /\ waits'[s] = "part" /\ waits' \in [Slots -> Up!Waits]
      /\ stored'[s] = Up!Stored(stored[s], Up!Units(f.offset, x))
  BY <1>3, <1>4 DEF Up!IInv, Up!TypeOK, Up!Waits
<1>6. g # Up!NoFile
  BY <1>b, <1>c, <1>1, <1>3 DEF Up!NoFile
<1>7. stored'[s] = [parts |-> g.num, units |-> Up!Units(0, g.offset)]
  <2>1. stored[s] = [parts |-> f.num, units |-> Up!Units(0, f.offset)]
    BY DEF Up!IInv, Up!FileFits
  <2>2. Up!Units(0, o0) \o Up!Units(o0, x) = Up!Units(0, o0 + x)
    BY Zenon, <1>1, <1>c, UnitsOn
  <2> QED
    <3>1. stored[s].parts = n0 /\ stored[s].units = Up!Units(0, o0)
      BY <1>b, <2>1
    <3>2. stored'[s] = [parts |-> n0 + 1, units |-> Up!Units(0, o0) \o Up!Units(o0, x)]
      BY <1>b, <1>5, <3>1 DEF Up!Stored
    <3> QED
      BY <1>3, <2>2, <3>2
<1>8. stored' \in [Slots -> [parts : Nat, units : Seq(Nat)]]
  <2>3. o0 + x \in Nat /\ n0 + 1 \in Nat
    BY <1>1, <1>c
  <2>4. Up!Units(0, o0 + x) \in Seq(Nat)
    BY Zenon, <1>1, <2>3, UnitsOn
  <2>1. stored'[s] \in [parts : Nat, units : Seq(Nat)]
    BY <1>3, <1>7, <2>3, <2>4
  <2>2. Up!Stored(stored[s], Up!Units(f.offset, x)) \in [parts : Nat, units : Seq(Nat)]
    BY <1>5, <2>1
  <2> QED
    BY <1>4, <2>2 DEF Up!IInv
<1>9. Up!FileFits'
  <2> SUFFICES ASSUME NEW t \in Slots PROVE
        /\ file'[t].open <=> file'[t].offset # file'[t].size
        /\ file'[t].num = 0 <=> file'[t].offset = 0
        /\ file'[t] # Up!NoFile => file'[t].size > 0 /\ file'[t].part > 0
        /\ waits'[t] \in {"thumb", "part"} => file'[t] # Up!NoFile
        /\ stored'[t] = [parts |-> file'[t].num, units |-> Up!Units(0, file'[t].offset)]
    BY DEF Up!FileFits
  <2>1. CASE t = s
    BY <1>b, <1>c, <1>1, <1>3, <1>5, <1>6, <1>7, <2>1
  <2>2. CASE t # s
    BY <1>5, <2>2 DEF Up!IInv, Up!FileFits
  <2> QED
    BY <2>1, <2>2
<1>10. Up!Begun' = Up!Begun \cup {s}
  BY <1>b, <1>c, <1>1, <1>3, <1>5 DEF Up!Begun
<1>11. Up!TotalsAgree'
  <2>1. PICK n, o : /\ n = [t \in Up!Begun |-> file[t].size] /\ o =
                       [t \in Up!Begun |-> file[t].offset]
    OBVIOUS
  <2>2. PICK m, p : /\ m = [t \in Up!Begun' |-> file'[t].size] /\ p =
                       [t \in Up!Begun' |-> file'[t].offset]
    OBVIOUS
  <2>3. /\ IsFiniteSet(Up!Begun) /\ n \in [Up!Begun -> Nat] /\ o \in [Up!Begun -> Nat]
        /\ uploading = Sum(n) /\ uploaded = Sum(o) /\ Sum(n) \in Nat /\ Sum(o) \in Nat
    BY <2>1, UpTotalsHaveKind, PairsAreFinite, UpTotal DEF Up!IInv, Up!TotalsAgree
  <2>4. /\ m \in [Up!Begun \cup {s} -> Nat] /\ p \in [Up!Begun \cup {s} -> Nat]
        /\ m[s] = z /\ p[s] = o0 + x
        /\ \A t \in Up!Begun \ {s} : m[t] = n[t] /\ p[t] = o[t]
    BY <1>b, <1>c, <1>1, <1>3, <1>5, <1>10, <2>1, <2>2 DEF Up!Begun, Up!IInv, Up!SendFile
  <2>5. Sum(m) = uploading' /\ Sum(p) = uploaded'
    <3>1. CASE n0 = 0
      <4>1. s \notin Up!Begun /\ o0 = 0
        BY <1>b, <1>c, <1>1, <3>1 DEF Up!Begun
      <4>2. \A t \in Up!Begun : m[t] = n[t] /\ p[t] = o[t]
        BY <2>4, <4>1
      <4>4. Sum(m) = Sum(n) + m[s]
        BY <2>3, <2>4, <4>1, <4>2, SumWith
      <4>3. Sum(m) = Sum(n) + m[s] /\ Sum(p) = Sum(o) + p[s]
        BY <2>3, <2>4, <4>1, <4>2, <4>4, SumWith
      <4> QED
        BY <1>b, <1>c, <1>1, <1>4, <2>3, <2>4, <3>1, <4>1, <4>3
    <3>2. CASE n0 # 0
      <4>1. s \in Up!Begun /\ Up!Begun \cup {s} = Up!Begun
        BY <1>b, <1>c, <1>1, <3>2 DEF Up!Begun
      <4>2. n[s] = z /\ o[s] = o0
        BY <1>b, <1>c, <1>1, <2>1, <3>2, <4>1
      <4>3. Sum(m) = Sum(n) + m[s] - n[s] /\ Sum(p) = Sum(o) + p[s] - o[s]
        BY <2>3, <2>4, <4>1, SumBut
      <4> QED
        BY <1>b, <1>c, <1>1, <1>4, <2>3, <2>4, <3>2, <4>2, <4>3
    <3> QED
      BY <3>1, <3>2
  <2>6. uploading' = Up!Total(m) /\ uploaded' = Up!Total(p)
    BY <2>5, UpTotal
  <2> QED
    BY <2>2, <2>6 DEF Up!TotalsAgree
<1>12. uploading' \in Int /\ uploaded' \in Int
  BY <1>b, <1>c, <1>1, <1>4 DEF Up!IInv, Up!TypeOK
<1>13. progress' \subseteq progress \cup {s}
  BY <1>4 DEF Up!Progress
<1>14. Up!TypeOK'
  <2>1. \A t \in Slots : file'[t].offset \in 0..file'[t].size
    <3>1. file'[s].offset \in 0..file'[s].size
      BY <1>1, <1>c, <1>3, <1>5
    <3>2. \A t \in Slots \ {s} : file'[t].offset \in 0..file'[t].size
      BY <1>5 DEF Up!IInv, Up!TypeOK
    <3> QED
      BY <3>1, <3>2
  <2>2. \A t \in Slots : waits'[t] = "part" => file'[t].num > 0
    <3>1. file'[s].num > 0
      BY <1>c, <1>3, <1>5
    <3>2. \A t \in Slots \ {s} : waits'[t] = "part" => file'[t].num > 0
      BY <1>5 DEF Up!IInv, Up!TypeOK
    <3> QED
      BY <3>1, <3>2
  <2>3. {torn', overlapped'} \subseteq BOOLEAN
    BY <1>4 DEF Up!IInv, Up!TypeOK
  <2>4. progress' \subseteq Slots
    BY <1>13 DEF Up!IInv, Up!TypeOK
  <2> QED
    BY <1>5, <1>12, <2>1, <2>2, <2>3, <2>4 DEF Up!TypeOK
<1>15. Up!ShownFits'
  <2> SUFFICES ASSUME ~overlapped'
               PROVE  /\ \A t, u \in Up!Active' : t = u
                      /\ progress' \subseteq {t \in Up!Active' : file'[t].open}
    BY DEF Up!ShownFits
  <2>1. Up!Active' = {s}
    BY <1>5, <1>6 DEF Up!Active
  <2>2. progress \subseteq {s}
    BY DEF Up!IInv, Up!ShownFits
  <2>3. Up!Begun' = {s}
    <3>1. \A t \in Up!Begun : t \in Up!Active
      BY DEF Up!Begun, Up!Active, Up!NoFile
    <3> QED
      BY <1>10, <3>1
  <2>4. uploading' = z /\ uploaded' = o0 + x
    <3>1. PICK m, p : /\ m = [t \in Up!Begun' |-> file'[t].size] /\ p =
                         [t \in Up!Begun' |-> file'[t].offset]
      OBVIOUS
    <3>2. m \in [{s} -> Nat] /\ p \in [{s} -> Nat] /\ m[s] = z /\ p[s] = o0 + x
      BY <1>b, <1>c, <1>1, <1>3, <1>5, <2>3, <3>1
    <3>3. uploading' = Sum(m) /\ uploaded' = Sum(p)
      BY <1>11, <3>1, UpTotal DEF Up!TotalsAgree
    <3> QED
      BY <3>2, <3>3, SumOfOne
  <2>5. progress' \subseteq {s} /\ (s \in progress' => z > o0 + x)
    BY <1>b, <1>c, <1>1, <1>4, <2>2, <2>4 DEF Up!Progress
  <2>6. z > o0 + x => file'[s].open
    BY <1>b, <1>c, <1>1, <1>3, <1>5
  <2> QED
    BY <2>1, <2>5, <2>6
<1>16. Up!PartsBeforeMessage'
  BY <1>4 DEF Up!IInv, Up!PartsBeforeMessage
<1> QED
  BY <1>5, <1>8, <1>9, <1>11, <1>14, <1>15, <1>16 DEF Up!IInv

\* An upload whose file is closed has been sent whole.
LEMMA NothingOpen ==
  ASSUME Up!UploadsAssumption, Up!IInv, NEW s \in Slots, waits[s] \in {"thumb", "part"},
         ~file[s].open
  PROVE  /\ s \in Up!Begun /\ file[s].offset = file[s].size /\ file[s].size > 0
         /\ file[s].size \in Nat /\ Up!Whole(s, file[s])
<1>1. file[s] \in Up!SendFile /\ file[s] # Up!NoFile /\ file[s].size > 0
  BY DEF Up!IInv, Up!FileFits
<1>2. file[s].offset = file[s].size /\ file[s].size \in Nat /\ file[s].num \in Nat
  BY <1>1 DEF Up!IInv, Up!FileFits, Up!SendFile
<1>3. file[s].num # 0
  BY <1>1, <1>2 DEF Up!IInv, Up!FileFits
<1>4. s \in Up!Begun
  BY <1>2, <1>3 DEF Up!Begun
<1>5. Up!Whole(s, file[s])
  BY <1>2 DEF Up!IInv, Up!FileFits, Up!Whole
<1> QED
  BY <1>1, <1>2, <1>4, <1>5

\* The message follows the last part, when all are there, and the totals
\* lose the upload (send_part).
LEMMA MediaSent ==
  ASSUME Up!UploadsAssumption, Up!IInv, NEW s \in Slots, waits[s] \in {"thumb", "part"},
         ~file[s].open, Up!SendMedia(s, file[s]),
         UNCHANGED <<last, process, overlapped, files, refusals>>
  PROVE  Up!IInv'
<1>1. PICK z \in Nat : z = file[s].size
  BY NothingOpen
<1>2. /\ s \in Up!Begun /\ file[s].offset = z /\ file[s].size = z /\ Up!Whole(s, file[s])
  BY <1>1, NothingOpen
<1>3. /\ file' = [file EXCEPT ![s] = Up!NoFile] /\ waits' = [waits EXCEPT ![s] = "media"]
      /\ stored' = [stored EXCEPT ![s] = Up!NoParts]
      /\ uploading' = uploading - z /\ uploaded' = uploaded - z
      /\ progress' = progress \/ progress' =
         Up!Progress(progress, s, uploading', uploaded')
  BY <1>2 DEF Up!SendMedia
<1>4. torn' = torn /\ torn = FALSE
  <2>1. torn = FALSE
    BY DEF Up!IInv, Up!TypeOK, Up!PartsBeforeMessage
  <2>2. torn' = (torn \/ ~Up!Whole(s, file[s]))
    BY DEF Up!SendMedia
  <2> QED
    BY <1>2, <2>1, <2>2
<1>5. /\ file'[s] = Up!NoFile /\ waits'[s] = "media" /\ stored'[s] = Up!NoParts
      /\ \A t \in Slots \ {s} : file'[t] = file[t] /\ waits'[t] = waits[t]
         /\ stored'[t] = stored[t]
      /\ waits' \in [Slots -> Up!Waits]
  BY <1>3 DEF Up!IInv, Up!TypeOK, Up!Waits
<1>6. Up!NoFile \in Up!SendFile /\ Up!NoParts =
      [parts |-> Up!NoFile.num, units |-> Up!Units(0, Up!NoFile.offset)]
  <2>1. Up!NoFile \in Up!SendFile
    BY DEF Up!NoFile, Up!SendFile
  <2>2. Up!Units(0, 0) = <<>>
    <3>1. Up!Units(0, 0) = [i \in 1..0 |-> i]
      BY DEF Up!Units
    <3>2. 1..0 = {}
      OBVIOUS
    <3> QED
      BY <3>1, <3>2
  <2> QED
    BY <2>1, <2>2 DEF Up!NoFile, Up!NoParts
<1>7. file' \in [Slots -> Up!SendFile]
  BY <1>3, <1>6 DEF Up!IInv
<1>8. stored' \in [Slots -> [parts : Nat, units : Seq(Nat)]]
  <2>1. Up!NoParts \in [parts : Nat, units : Seq(Nat)]
    BY DEF Up!NoParts
  <2> QED
    BY <1>3, <2>1 DEF Up!IInv
<1>9. Up!FileFits'
  <2> SUFFICES ASSUME NEW t \in Slots PROVE
        /\ file'[t].open <=> file'[t].offset # file'[t].size
        /\ file'[t].num = 0 <=> file'[t].offset = 0
        /\ file'[t] # Up!NoFile => file'[t].size > 0 /\ file'[t].part > 0
        /\ waits'[t] \in {"thumb", "part"} => file'[t] # Up!NoFile
        /\ stored'[t] = [parts |-> file'[t].num, units |-> Up!Units(0, file'[t].offset)]
    BY DEF Up!FileFits
  <2>1. CASE t = s
    BY <1>5, <1>6, <2>1 DEF Up!NoFile
  <2>2. CASE t # s
    BY <1>5, <2>2 DEF Up!IInv, Up!FileFits
  <2> QED
    BY <2>1, <2>2
<1>10. Up!Begun' = Up!Begun \ {s} /\ Up!Begun' \cup {s} = Up!Begun /\ s \notin Up!Begun'
  BY <1>2, <1>5 DEF Up!Begun, Up!NoFile
<1>11. Up!TotalsAgree' /\ uploading' \in Nat /\ uploaded' \in Nat
  <2>1. PICK n, o : /\ n = [t \in Up!Begun |-> file[t].size] /\ o =
                       [t \in Up!Begun |-> file[t].offset]
    OBVIOUS
  <2>2. PICK m, p : /\ m = [t \in Up!Begun' |-> file'[t].size] /\ p =
                       [t \in Up!Begun' |-> file'[t].offset]
    OBVIOUS
  <2>3. PICK B : B = Up!Begun'
    OBVIOUS
  <2>4. /\ IsFiniteSet(Up!Begun) /\ n \in [Up!Begun -> Nat] /\ o \in [Up!Begun -> Nat]
        /\ uploading = Sum(n) /\ uploaded = Sum(o)
    BY <2>1, UpTotalsHaveKind, UpTotal DEF Up!IInv, Up!TotalsAgree
  <2>5. /\ IsFiniteSet(B) /\ s \notin B /\ n \in [B \cup {s} -> Nat]
           /\ o \in [B \cup {s} -> Nat]
    BY <1>10, <2>3, <2>4, FS_RemoveElement
  <2>6. /\ m \in [B -> Nat] /\ p \in [B -> Nat] /\ \A t \in B : n[t] = m[t] /\ o[t] = p[t]
    BY <1>5, <1>10, <2>1, <2>2, <2>3 DEF Up!Begun, Up!IInv, Up!SendFile
  <2>7. Sum(n) = Sum(m) + n[s] /\ Sum(o) = Sum(p) + o[s]
    <3>1. Sum(n) = Sum(m) + n[s]
      BY <2>5, <2>6, SumWith
    <3>2. Sum(o) = Sum(p) + o[s]
      BY <2>5, <2>6, SumWith
    <3> QED
      BY <3>1, <3>2
  <2>8. n[s] = z /\ o[s] = z
    BY <1>2, <2>1
  <2>9. Sum(m) \in Nat /\ Sum(p) \in Nat
    BY <2>5, <2>6, PairsAreFinite
  <2>10. uploading' = Sum(m) /\ uploaded' = Sum(p)
    BY <1>1, <1>3, <2>4, <2>7, <2>8, <2>9
  <2> QED
    BY <2>2, <2>9, <2>10, UpTotal DEF Up!TotalsAgree
<1>12. progress' \subseteq progress \cup {s}
  BY <1>3 DEF Up!Progress
<1>13. Up!TypeOK'
  <2>1. \A t \in Slots : file'[t].offset \in 0..file'[t].size
    <3>1. Up!NoFile.offset \in 0..Up!NoFile.size
      BY DEF Up!NoFile
    <3>2. \A t \in Slots \ {s} : file'[t].offset \in 0..file'[t].size
      BY <1>5 DEF Up!IInv, Up!TypeOK
    <3> QED
      BY <1>5, <3>1, <3>2
  <2>2. \A t \in Slots : waits'[t] = "part" => file'[t].num > 0
    BY <1>5 DEF Up!IInv, Up!TypeOK
  <2>3. {torn', overlapped'} \subseteq BOOLEAN
    BY <1>4 DEF Up!IInv, Up!TypeOK
  <2>4. progress' \subseteq Slots
    BY <1>12 DEF Up!IInv, Up!TypeOK
  <2>5. uploading' \in Int /\ uploaded' \in Int
    BY <1>11
  <2> QED
    BY <1>5, <2>1, <2>2, <2>3, <2>4, <2>5 DEF Up!IInv, Up!TypeOK
<1>14. Up!ShownFits'
  <2> SUFFICES ASSUME ~overlapped'
               PROVE  /\ \A t, u \in Up!Active' : t = u
                      /\ progress' \subseteq {t \in Up!Active' : file'[t].open}
    BY DEF Up!ShownFits
  <2>1. s \in Up!Active /\ Up!Active \subseteq {s}
    BY <1>2 DEF Up!IInv, Up!ShownFits, Up!FileFits, Up!Active
  <2>2. Up!Active' = {}
    BY <1>5, <2>1 DEF Up!Active
  <2>3. progress = {}
    BY <2>1 DEF Up!IInv, Up!ShownFits
  <2>4. Up!Begun' = {}
    BY <1>5, <1>6, <2>2 DEF Up!Begun, Up!Active, Up!NoFile
  <2>5. uploading' = 0 /\ uploaded' = 0
    BY <1>11, <2>4, UpTotal, SumOfNothing DEF Up!TotalsAgree
  <2>6. progress' = {}
    BY <1>3, <2>3, <2>5 DEF Up!Progress
  <2> QED
    BY <2>2, <2>6
<1>15. Up!PartsBeforeMessage'
  BY <1>4 DEF Up!PartsBeforeMessage
<1> QED
  BY <1>7, <1>8, <1>9, <1>11, <1>13, <1>14, <1>15 DEF Up!IInv

\* What changes only who waits for what, or what becomes of the process,
\* is no concern of the files.
LEMMA OthersKeep ==
  ASSUME Up!UploadsAssumption, Up!IInv,
         UNCHANGED <<file, uploading, uploaded, progress, stored, torn>>,
         waits' \in [Slots -> Up!Waits],
         \A t \in Slots : waits'[t] \in {"thumb", "part"} => waits'[t] = waits[t],
         last' \in Up!Last, overlapped' \in BOOLEAN, ~overlapped' => ~overlapped,
         process' \in Up!Process,
         files' \in 0..MaxFiles, refusals' \in 0..MaxRefusals
  PROVE  Up!IInv'
<1>1. Up!TypeOK'
  <2>1. {torn', overlapped'} \subseteq BOOLEAN
    BY DEF Up!IInv, Up!TypeOK
  <2> QED
    BY <2>1 DEF Up!IInv, Up!TypeOK
<1>2. Up!FileFits' /\ file' \in [Slots -> Up!SendFile]
  BY DEF Up!IInv, Up!FileFits
<1>3. Up!ShownFits'
  BY DEF Up!IInv, Up!ShownFits, Up!Active
<1>4. Up!TotalsAgree' /\ stored' \in [Slots -> [parts : Nat, units : Seq(Nat)]]
  BY DEF Up!IInv, Up!TotalsAgree, Up!Begun
<1>5. Up!PartsBeforeMessage'
  BY DEF Up!IInv, Up!PartsBeforeMessage
<1> QED
  BY <1>1, <1>2, <1>3, <1>4, <1>5 DEF Up!IInv

\* An assertion fails: nothing else changes.
LEMMA AbortKeeps ==
  ASSUME Up!UploadsAssumption, Up!IInv, Up!Abort, last' \in Up!Last,
         overlapped' \in BOOLEAN, ~overlapped' => ~overlapped,
         files' \in 0..MaxFiles, refusals' \in 0..MaxRefusals
  PROVE  Up!IInv'
<1>1. process' \in Up!Process
  BY DEF Up!Abort, Up!Process
<1>2. waits' \in [Slots -> Up!Waits] /\ waits' = waits
  BY DEF Up!Abort, Up!IInv, Up!TypeOK
<1> QED
  BY <1>1, <1>2, OthersKeep DEF Up!Abort

\* The thumb of a video goes before its first part (send_file_thumb).
LEMMA ThumbSent ==
  ASSUME Up!UploadsAssumption, Up!IInv, NEW s \in Slots, NEW f \in Up!SendFile,
         file[s] = Up!NoFile,
         f.open, f.size > 0, f.part > 0, f.num = 0, f.offset = 0,
         Up!SendFileThumb(s, f), overlapped' = (overlapped \/ Up!Active # {}),
         last' \in Up!Last,
         process' \in Up!Process,
         files' \in 0..MaxFiles, refusals' \in 0..MaxRefusals
  PROVE  Up!IInv'
<1>1. /\ file' = [file EXCEPT ![s] = f] /\ waits' = [waits EXCEPT ![s] = "thumb"]
      /\ UNCHANGED <<uploading, uploaded, progress, stored, torn>>
  BY DEF Up!SendFileThumb
<1>2. /\ file'[s] = f /\ waits'[s] = "thumb"
      /\ \A t \in Slots \ {s} : file'[t] = file[t] /\ waits'[t] = waits[t]
      /\ file' \in [Slots -> Up!SendFile] /\ waits' \in [Slots -> Up!Waits]
  BY <1>1 DEF Up!IInv, Up!TypeOK, Up!Waits
<1>3. f.size \in Nat /\ f # Up!NoFile
  BY DEF Up!SendFile, Up!NoFile
<1>4. Up!TypeOK'
  <2>1. {torn', overlapped'} \subseteq BOOLEAN
    BY <1>1 DEF Up!IInv, Up!TypeOK
  <2>2. \A t \in Slots : file'[t].offset \in 0..file'[t].size
    <3>1. file'[s].offset \in 0..file'[s].size
      BY <1>2, <1>3
    <3>2. \A t \in Slots \ {s} : file'[t].offset \in 0..file'[t].size
      BY <1>2 DEF Up!IInv, Up!TypeOK
    <3> QED
      BY <3>1, <3>2
  <2>3. \A t \in Slots : waits'[t] = "part" => file'[t].num > 0
    BY <1>2 DEF Up!IInv, Up!TypeOK
  <2> QED
    BY <1>1, <1>2, <2>1, <2>2, <2>3 DEF Up!IInv, Up!TypeOK
<1>5. Up!FileFits'
  <2> SUFFICES ASSUME NEW t \in Slots PROVE
        /\ file'[t].open <=> file'[t].offset # file'[t].size
        /\ file'[t].num = 0 <=> file'[t].offset = 0
        /\ file'[t] # Up!NoFile => file'[t].size > 0 /\ file'[t].part > 0
        /\ waits'[t] \in {"thumb", "part"} => file'[t] # Up!NoFile
        /\ stored'[t] = [parts |-> file'[t].num, units |-> Up!Units(0, file'[t].offset)]
    BY DEF Up!FileFits
  <2>1. CASE t = s
    <3>1. stored[s] = [parts |-> 0, units |-> Up!Units(0, 0)]
      BY DEF Up!IInv, Up!FileFits, Up!NoFile
    <3> QED
      BY <1>1, <1>2, <1>3, <2>1, <3>1
  <2>2. CASE t # s
    BY <1>1, <1>2, <2>2 DEF Up!IInv, Up!FileFits
  <2> QED
    BY <2>1, <2>2
<1>6. Up!Begun' = Up!Begun
  BY <1>2 DEF Up!Begun, Up!NoFile
<1>7. Up!TotalsAgree'
  <2>1. [t \in Up!Begun' |-> file'[t].size] = [t \in Up!Begun |-> file[t].size]
    BY <1>2, <1>6 DEF Up!Begun, Up!NoFile
  <2>2. [t \in Up!Begun' |-> file'[t].offset] = [t \in Up!Begun |-> file[t].offset]
    BY <1>2, <1>6 DEF Up!Begun, Up!NoFile
  <2> QED
    BY <1>1, <2>1, <2>2 DEF Up!IInv, Up!TotalsAgree
<1>8. Up!ShownFits'
  <2> SUFFICES ASSUME ~overlapped'
               PROVE  /\ \A t, u \in Up!Active' : t = u
                      /\ progress' \subseteq {t \in Up!Active' : file'[t].open}
    BY DEF Up!ShownFits
  <2>1. ~overlapped /\ Up!Active = {}
    OBVIOUS
  <2>2. Up!Active' = {s}
    BY <1>2, <1>3, <2>1 DEF Up!Active
  <2>3. progress' = {}
    BY <1>1, <2>1 DEF Up!IInv, Up!ShownFits
  <2> QED
    BY <2>2, <2>3
<1>9. Up!PartsBeforeMessage'
  BY <1>1 DEF Up!IInv, Up!PartsBeforeMessage
<1> QED
  BY <1>1, <1>2, <1>4, <1>5, <1>7, <1>8, <1>9 DEF Up!IInv

\* Either there is a next part, or the file is sent and the message
\* follows (send_part).
LEMMA PartAsked ==
  ASSUME Up!UploadsAssumption, Up!IInv, NEW s \in Slots, waits[s] \in {"thumb", "part"},
         Up!SendPart(s), UNCHANGED <<last, overlapped, files, refusals>>
  PROVE  Up!IInv'
<1>1. CASE ~file[s].open
  <2>1. Up!SendMedia(s, file[s])
    BY <1>1 DEF Up!SendPart
  <2> QED
    BY <1>1, <2>1, MediaSent DEF Up!SendMedia
<1>2. CASE file[s].open
  <2>1. file[s] \in Up!SendFile /\ file[s] # Up!NoFile /\ file[s].size > 0
        /\ file[s].part > 0
    BY DEF Up!IInv, Up!FileFits
  <2>2. file[s].offset \in Nat /\ file[s].size \in Nat /\ file[s].offset < file[s].size
    BY <1>2, <2>1 DEF Up!IInv, Up!FileFits, Up!TypeOK, Up!SendFile
  <2>3. (file[s].num = 0) = (file[s].offset = 0)
    BY DEF Up!IInv, Up!FileFits
  <2>4. ~overlapped' => ~overlapped /\ \A t \in Up!Active : t = s
    BY <2>1 DEF Up!IInv, Up!ShownFits, Up!Active
  <2>5. last' \in Up!Last /\ files' \in 0..MaxFiles /\ refusals' \in 0..MaxRefusals
    BY DEF Up!IInv, Up!TypeOK
  <2>6. overlapped' \in BOOLEAN
    BY DEF Up!IInv, Up!TypeOK
  <2>7. Up!SendFilePart(s, file[s])
    BY <1>2 DEF Up!SendPart
  <2>8. CASE Up!Breaks(file[s])
    <3>1. Up!Abort
      BY <2>7, <2>8 DEF Up!SendFilePart
    <3> QED
      BY <2>5, <2>6, <3>1, AbortKeeps
  <2>9. CASE ~Up!Breaks(file[s])
    <3>1. Up!PartGoes(s, file[s])
      BY <2>7, <2>9 DEF Up!SendFilePart
    <3>2. process' \in Up!Process
      BY <3>1 DEF Up!PartGoes, Up!IInv, Up!TypeOK
    <3> QED
      BY <1>2, <2>1, <2>2, <2>3, <2>4, <2>5, <2>6, <3>1, <3>2, PartSent
  <2> QED
    BY <2>8, <2>9
<1> QED
  BY <1>1, <1>2

\* The server has answered, and the upload goes on.
LEMMA UploadAnsweredKeeps ==
  ASSUME Up!UploadsAssumption, Up!IInv, Up!Answered
  PROVE  Up!IInv'
<1>1. PICK s \in Slots :
        /\ \/ waits[s] \in {"thumb", "part"} /\ Up!SendFilePartOnAnswer(s)
           \/ waits[s] = "media" /\ Up!SendFileOnAnswer(s)
        /\ UNCHANGED <<last, overlapped, files, refusals>>
  BY DEF Up!Answered
<1>2. CASE waits[s] \in {"thumb", "part"} /\ Up!SendFilePartOnAnswer(s)
  BY <1>1, <1>2, PartAsked DEF Up!SendFilePartOnAnswer
<1>3. CASE waits[s] = "media" /\ Up!SendFileOnAnswer(s)
  <2>1. /\ waits' = [waits EXCEPT ![s] = "nothing"]
        /\ UNCHANGED <<file, uploading, uploaded, progress, process, stored, torn>>
    BY <1>3 DEF Up!SendFileOnAnswer
  <2>2. /\ waits' \in [Slots -> Up!Waits]
        /\ \A t \in Slots : waits'[t] \in {"thumb", "part"} => waits'[t] = waits[t]
    BY <2>1 DEF Up!IInv, Up!TypeOK, Up!Waits
  <2>3. /\ last' \in Up!Last
           /\ process' \in Up!Process
        /\ files' \in 0..MaxFiles /\ refusals' \in 0..MaxRefusals
        /\ overlapped' = overlapped /\ overlapped' \in BOOLEAN
    BY <1>1, <2>1 DEF Up!IInv, Up!TypeOK
  <2> QED
    BY <2>1, <2>2, <2>3, OthersKeep
<1> QED
  BY <1>1, <1>2, <1>3

\* The server refuses a query of an upload.
LEMMA UploadRefusedKeeps ==
  ASSUME Up!UploadsAssumption, Up!IInv, Up!Refused
  PROVE  Up!IInv'
<1>1. PICK s \in Slots :
        /\ waits' = [waits EXCEPT ![s] = "nothing"] /\ refusals < MaxRefusals
        /\ refusals' = refusals + 1
        /\ UNCHANGED <<file, last, uploading, uploaded, progress, process, stored, torn,
                       overlapped, files>>
  BY DEF Up!Refused
<1>2. /\ waits' \in [Slots -> Up!Waits]
      /\ \A t \in Slots : waits'[t] \in {"thumb", "part"} => waits'[t] = waits[t]
  BY <1>1 DEF Up!IInv, Up!TypeOK, Up!Waits
<1>3. refusals' \in 0..MaxRefusals
  BY <1>1 DEF Up!IInv, Up!TypeOK, Up!UploadsAssumption
<1>4. /\ last' \in Up!Last
         /\ process' \in Up!Process
      /\ files' \in 0..MaxFiles /\ overlapped' = overlapped /\ overlapped' \in BOOLEAN
  BY <1>1 DEF Up!IInv, Up!TypeOK
<1> QED
  BY <1>1, <1>2, <1>3, <1>4, OthersKeep

\* An upload begins: the size of a part is chosen by that of the file
\* (do_send_photo).
LEMMA DoSendPhotoKeeps ==
  ASSUME Up!UploadsAssumption, Up!IInv, Up!DoSendPhoto
  PROVE  Up!IInv'
<1>1. PICK s \in Slots, size \in Sizes, kind \in Up!Kind, encr \in BOOLEAN :
        /\ file[s] = Up!NoFile /\ last' = [size |-> size, kind |-> kind, encr |-> encr]
        /\ Up!DoNotSend(kind) \/ Up!Start(s, size, kind, encr)
  BY DEF Up!DoSendPhoto
<1>2. files' \in 0..MaxFiles /\ refusals' \in 0..MaxRefusals
  BY DEF Up!DoSendPhoto, Up!IInv, Up!TypeOK, Up!UploadsAssumption
<1>3. last' \in Up!Last /\ size \in Nat
  BY <1>1 DEF Up!UploadsAssumption, Up!Last
<1>4. ASSUME Up!Same, process' \in Up!Process PROVE Up!IInv'
  BY <1>2, <1>3, <1>4, OthersKeep DEF Up!Same, Up!IInv, Up!TypeOK
<1>5. ASSUME Up!DoNotSend(kind) PROVE Up!IInv'
  BY <1>4, <1>5 DEF Up!DoNotSend, Up!IInv, Up!TypeOK, Up!Process
<1>6. ASSUME Up!Start(s, size, kind, encr) PROVE Up!IInv'
  <2>1. PICK f : f = [size |-> size, part |-> Up!PartSize(size), num |-> 0, offset |-> 0,
                      open |-> TRUE, encr |-> encr]
    OBVIOUS
  <2>2. \/ Up!DoNotSend(kind)
        \/ process' = "stuck" /\ Up!Same
        \/ /\ size > 0 /\ f.part \in 1..MaxPart
           /\ overlapped' = (overlapped \/ Up!Active # {})
           /\ Up!SendFileThumb(s, f) \/ Up!SendFilePart(s, f)
    BY <1>6, <2>1 DEF Up!Start
  <2>3. CASE /\ size > 0 /\ f.part \in 1..MaxPart
             /\ overlapped' = (overlapped \/ Up!Active # {})
             /\ Up!SendFileThumb(s, f) \/ Up!SendFilePart(s, f)
    <3>1. f \in Up!SendFile /\ f.size > 0 /\ f.part > 0 /\ f.num = 0 /\ f.offset = 0
          /\ f.offset < f.size
      BY <1>3, <2>1, <2>3 DEF Up!SendFile
    <3>2. f.open
      BY <2>1
    <3>3. process \in Up!Process
      BY DEF Up!IInv, Up!TypeOK
    <3>4. CASE Up!SendFileThumb(s, f)
      <4>1. process' \in Up!Process
        BY <3>3, <3>4 DEF Up!SendFileThumb
      <4> QED
        BY <1>1, <1>2, <1>3, <2>3, <3>1, <3>2, <3>4, <4>1, ThumbSent
    <3>6. CASE Up!SendFilePart(s, f) /\ Up!Breaks(f)
      <4>1. Up!Abort
        BY <3>6 DEF Up!SendFilePart
      <4>2. overlapped' \in BOOLEAN /\ (~overlapped' => ~overlapped)
        BY <2>3
      <4> QED
        BY <1>2, <1>3, <4>1, <4>2, AbortKeeps
    <3>5. CASE Up!SendFilePart(s, f) /\ ~Up!Breaks(f)
      <4>1. overlapped' \in BOOLEAN
        BY <2>3
      <4>2. ~overlapped' => ~overlapped /\ \A t \in Up!Active : t = s
        BY <2>3
      <4>3. file[s].num = f.num /\ file[s].offset = f.offset /\ (f.num = 0) =
            (f.offset = 0)
        BY <1>1, <3>1 DEF Up!NoFile
      <4>4. f.num > 0 => file[s].size = f.size
        BY <3>1
      <4>5. Up!PartGoes(s, f)
        BY <3>5 DEF Up!SendFilePart
      <4>6. process' \in Up!Process
        BY <3>3, <4>5 DEF Up!PartGoes
      <4> QED
        BY <1>2, <1>3, <3>1, <3>2, <4>1, <4>2, <4>3, <4>4, <4>5, <4>6, PartSent
    <3> QED
      BY <2>3, <3>4, <3>5, <3>6
  <2>4. CASE process' = "stuck" /\ Up!Same
    BY <1>4, <2>4 DEF Up!Process
  <2> QED
    BY <1>5, <2>2, <2>3, <2>4
<1> QED
  BY <1>1, <1>5, <1>6

\* The invariant of the uploads holds at first.
LEMMA UploadsInit ==
  ASSUME Up!UploadsAssumption, Up!Init
  PROVE  Up!IInv
<1>1. file \in [Slots -> Up!SendFile]
  BY DEF Up!Init, Up!NoFile, Up!SendFile
<1>2. stored \in [Slots -> [parts : Nat, units : Seq(Nat)]]
  BY DEF Up!Init, Up!NoParts
<1>3. Up!Units(0, 0) = <<>>
  <2>1. Up!Units(0, 0) = [i \in 1..0 |-> i]
    BY DEF Up!Units
  <2>2. 1..0 = {}
    OBVIOUS
  <2> QED
    BY <2>1, <2>2
<1>4. Up!FileFits
  BY <1>3 DEF Up!Init, Up!FileFits, Up!NoFile, Up!NoParts
<1>5. Up!TypeOK
  <2>1. {torn, overlapped} \subseteq BOOLEAN
    BY DEF Up!Init
  <2> QED
    BY <2>1 DEF Up!Init, Up!TypeOK, Up!NoFile, Up!Waits, Up!Kind, Up!Last, Up!Process,
       Up!UploadsAssumption
<1>6. Up!Begun = {} /\ Up!Active = {}
  BY DEF Up!Init, Up!Begun, Up!Active, Up!NoFile
<1>7. Up!TotalsAgree
  BY <1>6, UpTotal, SumOfNothing DEF Up!Init, Up!TotalsAgree
<1>8. Up!ShownFits /\ Up!PartsBeforeMessage
  BY <1>6 DEF Up!Init, Up!ShownFits, Up!PartsBeforeMessage
<1> QED
  BY <1>1, <1>2, <1>4, <1>5, <1>7, <1>8 DEF Up!IInv

\* Each step of the uploads keeps their invariant.
LEMMA UploadsNext ==
  ASSUME Up!UploadsAssumption, Up!IInv, [Up!Next]_(Up!upload_vars)
  PROVE  Up!IInv'
<1>1. CASE UNCHANGED Up!upload_vars
  <2>1. /\ UNCHANGED <<file, uploading, uploaded, progress, stored, torn>>
        /\ UNCHANGED <<waits, last, overlapped, process, files, refusals>>
        /\ overlapped' \in BOOLEAN
    BY <1>1 DEF Up!upload_vars, Up!IInv, Up!TypeOK
  <2>2. /\ waits' \in [Slots -> Up!Waits]
           /\ last' \in Up!Last
        /\ process' \in Up!Process
        /\ files' \in 0..MaxFiles /\ refusals' \in 0..MaxRefusals
    BY <2>1 DEF Up!IInv, Up!TypeOK
  <2> QED
    BY <2>1, <2>2, OthersKeep
<1> QED
  BY <1>1, DoSendPhotoKeeps, UploadAnsweredKeeps, UploadRefusedKeeps DEF Up!Next

\* The invariant of the uploads implies their properties.
LEMMA UploadsGoals ==
  ASSUME Up!IInv
  PROVE  Up!TypeOK /\ Up!PartsBeforeMessage /\ Up!TotalsAgree /\ Up!ProgressCleared
  BY DEF Up!IInv, Up!ProgressCleared, Up!ShownFits

\* Halving leaves a part of more than nothing, if a third of the file is,
\* and whole blocks, if a third of the file is at least one.
LEMMA HalvedPart ==
  ASSUME NEW p \in Nat \ {0}, NEW third \in Nat, NEW P, p \in P,
         \A q \in P : q > Align => q \div 2 \in P, Align \in Nat
  PROVE  /\ Up!Halved(p, third) \in Nat /\ (third > 0 => Up!Halved(p, third) > 0)
         /\ third >= Align => Up!Halved(p, third) \in P
<1> DEFINE V == {q \in Nat : (third > 0 => q > 0) /\ (third >= Align => q \in P)}
           step == [q \in V |-> Up!Halve(q, third)]
           F == CHOOSE f : f =
           [n \in 0..p |-> IF n = 0 THEN p ELSE Up!Halve(f[n - 1], third)]
<1>1. step \in [V -> V]
  <2> SUFFICES ASSUME NEW q \in V PROVE Up!Halve(q, third) \in V
    OBVIOUS
  <2>1. CASE q > third
    <3>1. q \div 2 \in Nat /\ (third > 0 => q \div 2 > 0)
      BY <2>1
    <3>2. third >= Align => q \div 2 \in P
      BY <2>1
    <3> QED
      BY <2>1, <3>1, <3>2 DEF Up!Halve
  <2>2. CASE ~(q > third)
    BY <2>2 DEF Up!Halve
  <2> QED
    BY <2>1, <2>2
<1>2. \A q \in V : step[q] = Up!Halve(q, third)
  OBVIOUS
<1>3. p \in V /\ p \in Nat
  OBVIOUS
<1>4. Up!Halved(p, third) = F[p]
  BY DEF Up!Halved
<1>15. PICK f : Repeats(f, V, p, p, step)
  <2> HIDE DEF V, step
  <2> QED
    BY <1>1, <1>3, Repeated
<1>5. f \in [0..p -> V] /\ \A n \in 0..p : f[n] = IF n = 0 THEN p ELSE step[f[n - 1]]
  BY <1>15 DEF Repeats
<1>6. \A n \in 0..p : f[n] = IF n = 0 THEN p ELSE Up!Halve(f[n - 1], third)
  <2> TAKE n \in 0..p
  <2>1. n # 0 => n - 1 \in 0..p
    OBVIOUS
  <2>2. n # 0 => f[n - 1] \in V
    BY <1>5, <2>1
  <2> HIDE DEF step
  <2> QED
    BY <1>2, <1>5, <2>2
<1>7. f = [n \in 0..p |-> IF n = 0 THEN p ELSE Up!Halve(f[n - 1], third)]
  BY <1>5, <1>6
<1>8. F = [n \in 0..p |-> IF n = 0 THEN p ELSE Up!Halve(F[n - 1], third)]
  BY <1>7
<1> DEFINE T == {n \in Nat : n \in 0..p => F[n] \in V}
<1> HIDE DEF F
<1>9. 0 \in T
  BY <1>8
<1>10. ASSUME NEW n \in Nat, n \in T PROVE n + 1 \in T
  <2> SUFFICES ASSUME n + 1 \in 0..p PROVE F[n + 1] \in V
    OBVIOUS
  <2>1. n \in 0..p /\ (n + 1) - 1 = n /\ n + 1 # 0
    OBVIOUS
  <2>2. F[n] \in V
    BY <1>10, <2>1
  <2>3. F[n + 1] = Up!Halve(F[n], third)
    BY <1>8, <2>1
  <2> HIDE DEF V, step
  <2> QED
    BY <1>1, <1>2, <2>2, <2>3
<1>11. p \in T
  <2> HIDE DEF T
  <2> QED
    BY <1>9, <1>10, Induction
<1> QED
  BY <1>4, <1>11

\* Twice as many blocks are whole blocks.
LEMMA TwiceAligned ==
  ASSUME NEW q \in Nat, Up!Aligned(q), Align \in Nat
  PROVE  Up!Aligned(2 * q)
<1>1. PICK k \in 0..q : q = k * Align
  BY DEF Up!Aligned
<1>2. 2 * k \in 0..(2 * q) /\ 2 * q = (2 * k) * Align
  BY <1>1
<1> QED
  BY <1>2 DEF Up!Aligned

\* Doubling leads to as much as is needed, if it starts from more than
\* nothing, and whole blocks stay whole.
LEMMA DoubledPart ==
  ASSUME NEW p \in Nat, NEW least \in Nat, Align \in Nat
  PROVE  /\ Up!Doubled(p, least) \in Nat /\ (p > 0 => Up!Doubled(p, least) > 0)
         /\ Up!Doubled(p, least) = 0 \/ Up!Doubled(p, least) >= least
         /\ Up!Aligned(p) => Up!Aligned(Up!Doubled(p, least))
<1> DEFINE V == {q \in Nat : (p > 0 => q > 0) /\ (Up!Aligned(p) => Up!Aligned(q))}
           step == [q \in V |-> Up!Double(q, least)]
           F == CHOOSE f : f =
           [n \in 0..least |-> IF n = 0 THEN p ELSE Up!Double(f[n - 1], least)]
<1>1. step \in [V -> V]
  BY TwiceAligned DEF Up!Double
<1>2. \A q \in V : step[q] = Up!Double(q, least)
  OBVIOUS
<1>3. p \in V
  OBVIOUS
<1>4. Up!Doubled(p, least) = F[least]
  BY DEF Up!Doubled
<1>15. PICK f : Repeats(f, V, p, least, step)
  <2> HIDE DEF V, step
  <2> QED
    BY <1>1, <1>3, Repeated
<1>5. f \in [0..least -> V] /\ \A n \in 0..least : f[n] = IF n = 0 THEN p
      ELSE step[f[n - 1]]
  BY <1>15 DEF Repeats
<1>6. \A n \in 0..least : f[n] = IF n = 0 THEN p ELSE Up!Double(f[n - 1], least)
  <2> TAKE n \in 0..least
  <2>1. n # 0 => n - 1 \in 0..least
    OBVIOUS
  <2>2. n # 0 => f[n - 1] \in V
    BY <1>5, <2>1
  <2> HIDE DEF step
  <2> QED
    BY <1>2, <1>5, <2>2
<1>7. f = [n \in 0..least |-> IF n = 0 THEN p ELSE Up!Double(f[n - 1], least)]
  BY <1>5, <1>6
<1>8. F = [n \in 0..least |-> IF n = 0 THEN p ELSE Up!Double(F[n - 1], least)]
  BY <1>7
<1> DEFINE T == {n \in Nat : n \in 0..least => F[n] \in V /\ (F[n] = 0 \/ F[n] > n \/ F[n] >= least)}
<1> HIDE DEF F
<1>9. 0 \in T
  BY <1>8
<1>10. ASSUME NEW n \in Nat, n \in T PROVE n + 1 \in T
  <2> SUFFICES ASSUME n + 1 \in 0..least
               PROVE  F[n + 1] \in V
                      /\ (F[n + 1] = 0 \/ F[n + 1] > n + 1 \/ F[n + 1] >= least)
    OBVIOUS
  <2>1. n \in 0..least /\ (n + 1) - 1 = n /\ n + 1 # 0
    OBVIOUS
  <2>2. PICK q : q = F[n]
    OBVIOUS
  <2>3. q \in V /\ (q = 0 \/ q > n \/ q >= least)
    BY <1>10, <2>1, <2>2
  <2>4. F[n + 1] = Up!Double(q, least)
    BY <1>8, <2>1, <2>2
  <2>5. Up!Double(q, least) \in V
        /\ (Up!Double(q, least) = 0 \/ Up!Double(q, least) > n + 1 \/ Up!Double(q, least) >= least)
    BY <2>3, TwiceAligned DEF Up!Double
  <2> QED
    BY <2>4, <2>5
<1>11. least \in T
  <2> HIDE DEF T
  <2> QED
    BY <1>9, <1>10, Induction
<1>12. F[least] \in V /\ (F[least] = 0 \/ F[least] > least \/ F[least] >= least)
  BY <1>11
<1> QED
  BY <1>4, <1>12

\* Ceil rounds up: so many times the divisor is enough.
LEMMA CeilIsEnough ==
  ASSUME NEW a \in Nat, NEW b \in Nat \ {0}
  PROVE  Up!Ceil(a, b) \in Nat /\ a <= b * Up!Ceil(a, b)
<1>1. PICK x \in Nat : x = a + b - 1
  OBVIOUS
<1>2. x \div b \in Nat
  OBVIOUS
<1>3. x < b * (x \div b) + b
  BY <1>1
<1>4. b * (x \div b) \in Int
  BY <1>2
<1>5. a <= b * (x \div b)
  BY <1>1, <1>3, <1>4
<1> QED
  BY <1>1, <1>2, <1>5 DEF Up!Ceil

\* The size of a part is nothing only for files of one or two bytes, as
\* many parts as the server takes are enough, and it is whole blocks for a
\* file of three blocks or more (do_send_photo).
LEMMA PartIsEnough ==
  ASSUME Up!UploadsAssumption, NEW size \in Nat
  PROVE  /\ Up!PartSize(size) \in Nat /\ (size > 2 => Up!PartSize(size) > 0)
         /\ Up!PartSize(size) > 0 => size <= MaxParts * Up!PartSize(size)
         /\ size >= 3 * Align => Up!Aligned(Up!PartSize(size))
<1> DEFINE third == size \div 3
           half == Up!Halved(FirstPart, third)
           least == Up!Ceil(size, MaxParts)
<1>2. FirstPart \in Nat \ {0} /\ MaxParts \in Nat \ {0} /\ Align \in Nat
  BY DEF Up!UploadsAssumption
<1>1. third \in Nat /\ (size > 2 => third > 0) /\ (size >= 3 * Align => third >= Align)
  BY <1>2
<1>a. PICK P \in SUBSET (1..FirstPart) :
        FirstPart \in P /\ \A q \in P : Up!Aligned(q) /\ (q > Align => q \div 2 \in P)
  BY DEF Up!UploadsAssumption
<1>3. least \in Nat /\ size <= MaxParts * least
  BY <1>2, CeilIsEnough
<1>4. Up!PartSize(size) = Up!Doubled(half, least)
  BY DEF Up!PartSize
<1> HIDE DEF third, least
<1>5. half \in Nat /\ (third > 0 => half > 0) /\ (third >= Align => half \in P)
  BY <1>1, <1>2, <1>a, HalvedPart
<1> HIDE DEF half
<1>6. PICK unit : unit = Up!Doubled(half, least)
  OBVIOUS
<1>7. /\ unit \in Nat /\ (half > 0 => unit > 0) /\ (unit = 0 \/ unit >= least)
      /\ Up!Aligned(half) => Up!Aligned(unit)
  BY <1>2, <1>3, <1>5, <1>6, DoubledPart
<1>8. unit > 0 => size <= MaxParts * unit
  <2> SUFFICES ASSUME unit > 0 PROVE size <= MaxParts * unit
    OBVIOUS
  <2>1. PICK more \in Nat : unit = least + more
    <3>1. unit - least \in Nat /\ unit = least + (unit - least)
      BY <1>3, <1>7
    <3> QED
      BY <3>1
  <2>2. MaxParts * unit = MaxParts * least + MaxParts * more /\ MaxParts * more >= 0
    BY <1>2, <1>3, <2>1
  <2>3. MaxParts * least \in Nat /\ MaxParts * unit \in Nat /\ MaxParts * more \in Nat
    BY <1>2, <1>3, <1>7, <2>1
  <2> QED
    BY <1>3, <2>2, <2>3
<1> QED
  BY <1>1, <1>a, <1>4, <1>5, <1>6, <1>7, <1>8

\* The next part still fits: if all parts so far have the same size and
\* the file is not sent whole, there are fewer than the server takes.  If
\* it was no part that breaks the rule, the part's size does not.
LEMMA SentFits ==
  ASSUME Up!UploadsAssumption, NEW f \in Up!SendFile, f.size <= MaxParts * f.part,
         f.offset = f.num * f.part, f.open, f.part > 0,
         f.offset < f.size, ~Up!Breaks(f), NEW x, x = Up!Length(f)
  PROVE  Up!Fits(Up!Sent(f, x))
<1> DEFINE g == Up!Sent(f, x)
<1>1. PICK size \in Nat, unit \in Nat, num \in Nat, offset \in Nat :
        size = f.size /\ unit = f.part /\ num = f.num /\ offset = f.offset
  BY DEF Up!SendFile
<1>2. /\ g.size = size /\ g.part = unit /\ g.num = num + 1 /\ g.offset = offset + x
      /\ (g.open => offset + x # size) /\ g.encr = f.encr
  BY <1>1 DEF Up!Sent, Up!SendFile
<1> HIDE DEF g
<1>3. size <= MaxParts * unit /\ offset = num * unit /\ offset < size /\ unit > 0
      /\ x = IF size - offset < unit THEN size - offset ELSE unit
  BY <1>1 DEF Up!Length
<1>4. MaxParts \in Nat /\ num \in Nat /\ unit \in Nat
  BY DEF Up!UploadsAssumption
<1>5. num < MaxParts
  <2> SUFFICES ASSUME MaxParts <= num PROVE FALSE
    BY <1>4
  <2>1. PICK more \in Nat : num = MaxParts + more
    <3>1. num - MaxParts \in Nat /\ num = MaxParts + (num - MaxParts)
      BY <1>4
    <3> QED
      BY <3>1
  <2>2. num * unit = MaxParts * unit + more * unit /\ more * unit >= 0
    BY <1>4, <2>1
  <2>3. MaxParts * unit \in Nat /\ num * unit \in Nat /\ more * unit \in Nat
    BY <1>4, <2>1
  <2> QED
    BY <1>3, <2>2, <2>3
<1>6. num + 1 <= MaxParts
  BY <1>4, <1>5
<1>7. g.open => g.offset = (num + 1) * unit
  <2> SUFFICES ASSUME g.open PROVE offset + x = (num + 1) * unit
    BY <1>2
  <2>1. x = unit
    BY <1>1, <1>2, <1>3
  <2>2. (num + 1) * unit = num * unit + unit
    BY <1>4
  <2> QED
    BY <1>3, <2>1, <2>2
<1>9. Up!Smooth(g)
  <2> SUFFICES ASSUME g.open, f.encr PROVE Up!Aligned(unit)
    BY <1>2 DEF Up!Smooth
  <2>1. x = unit /\ f.offset + Up!Length(f) # f.size
    BY <1>1, <1>2, <1>3
  <2> QED
    BY <2>1 DEF Up!Breaks
<1>8. Up!Fits(g)
  BY <1>2, <1>3, <1>6, <1>7, <1>9 DEF Up!Fits
<1> QED
  BY <1>8 DEF g

\* A slot without a file fits.
LEMMA EmptyFits == Up!UploadsAssumption => Up!Fits(Up!NoFile)
  BY DEF Up!Fits, Up!Smooth, Up!NoFile, Up!UploadsAssumption

\* One file changes and fits.
LEMMA PlacedFits ==
  ASSUME Up!IInv, Up!PartsFit, NEW s \in Slots, NEW g, Up!Fits(g), file' =
         [file EXCEPT ![s] = g]
  PROVE  Up!PartsFit'
<1>1. \A t \in Slots : file'[t] = IF t = s THEN g ELSE file[t]
  BY DEF Up!IInv
<1> QED
  BY <1>1 DEF Up!PartsFit, Up!Fits

\* A part is sent (send_file_part).
LEMMA OnePartFits ==
  ASSUME Up!UploadsAssumption, Up!IInv, Up!PartsFit, NEW s \in Slots,
         NEW f \in Up!SendFile, f.size <= MaxParts * f.part, f.offset = f.num * f.part,
         f.open, f.part > 0, f.offset < f.size, Up!SendFilePart(s, f), ~Up!Breaks(f)
  PROVE  Up!PartsFit' /\ process' = process
<1>1. PICK x : x = Up!Length(f)
  OBVIOUS
<1>2. file' = [file EXCEPT ![s] = Up!Sent(f, x)] /\ process' = process
  BY <1>1 DEF Up!SendFilePart, Up!PartGoes
<1>3. Up!Fits(Up!Sent(f, x))
  BY <1>1, SentFits
<1> QED
  BY <1>2, <1>3, PlacedFits

\* A part whose size keeps the rule does not break it.
LEMMA SmoothGoes ==
  ASSUME NEW f \in Up!SendFile, Up!Smooth(f), f.open
  PROVE  ~Up!Breaks(f)
<1>1. f.offset \in Nat /\ f.size \in Nat /\ f.part \in Nat
  BY DEF Up!SendFile
<1>2. CASE f.size - f.offset < f.part
  BY <1>1, <1>2 DEF Up!Breaks, Up!Length
<1>3. CASE ~(f.size - f.offset < f.part)
  BY <1>3 DEF Up!Breaks, Up!Length, Up!Smooth
<1> QED
  BY <1>2, <1>3

\* No file changes.
LEMMA UnchangedFits == Up!PartsFit /\ file' = file => Up!PartsFit'
  BY DEF Up!PartsFit, Up!Fits

\* The server has answered: the files fit, and the process runs as before.
LEMMA AnsweredFits ==
  ASSUME Up!UploadsAssumption, Up!UInv, Up!Answered
  PROVE  Up!PartsFit' /\ Up!StopsOnlyForKnownFiles'
<1>1. PICK s \in Slots :
        \/ waits[s] \in {"thumb", "part"} /\ Up!SendFilePartOnAnswer(s)
        \/ waits[s] = "media" /\ Up!SendFileOnAnswer(s)
  BY DEF Up!Answered
<1>2. last' = last
  BY DEF Up!Answered
<1>3. process' = process => Up!StopsOnlyForKnownFiles'
  BY <1>2 DEF Up!UInv, Up!StopsOnlyForKnownFiles
<1>4. CASE waits[s] \in {"thumb", "part"} /\ Up!SendFilePartOnAnswer(s)
  <2>1. Up!SendPart(s)
    BY <1>4 DEF Up!SendFilePartOnAnswer
  <2>2. CASE file[s].open
    <3>1. Up!SendFilePart(s, file[s])
      BY <2>1, <2>2 DEF Up!SendPart
    <3>2. file[s] # Up!NoFile
      BY <2>2 DEF Up!NoFile
    <3>3. file[s] \in Up!SendFile /\ Up!Fits(file[s]) /\ file[s].part > 0
      BY <3>2 DEF Up!UInv, Up!IInv, Up!FileFits, Up!PartsFit
    <3>4. file[s].offset < file[s].size
      <4>1. file[s].offset \in 0..file[s].size /\ file[s].offset # file[s].size
        BY <2>2 DEF Up!UInv, Up!IInv, Up!FileFits, Up!TypeOK
      <4>2. file[s].size \in Nat
        BY <3>3 DEF Up!SendFile
      <4> QED
        BY <4>1, <4>2
    <3>5. ~Up!Breaks(file[s])
      BY <2>2, <3>3, SmoothGoes DEF Up!Fits
    <3>6. file[s].size <= MaxParts * file[s].part /\ file[s].offset = file[s].num * file[s].part
      BY <2>2, <3>3 DEF Up!Fits
    <3> QED
      BY <1>3, <2>2, <3>1, <3>3, <3>4, <3>5, <3>6, OnePartFits DEF Up!UInv
  <2>3. CASE ~file[s].open
    <3>1. file' = [file EXCEPT ![s] = Up!NoFile] /\ process' = process
      BY <2>1, <2>3 DEF Up!SendPart, Up!SendMedia
    <3> QED
      BY <1>3, <3>1, EmptyFits, PlacedFits DEF Up!UInv
  <2> QED
    BY <2>2, <2>3
<1>5. CASE waits[s] = "media" /\ Up!SendFileOnAnswer(s)
  BY <1>3, <1>5, UnchangedFits DEF Up!SendFileOnAnswer, Up!UInv
<1> QED
  BY <1>1, <1>4, <1>5

\* An upload begins and fits, or the process stops for a file that is
\* known (do_send_photo).
LEMMA DoSendPhotoFits ==
  ASSUME Up!UploadsAssumption, Up!UInv, Up!DoSendPhoto
  PROVE  Up!PartsFit' /\ Up!StopsOnlyForKnownFiles'
<1>1. PICK s \in Slots, size \in Sizes, kind \in Up!Kind, encr \in BOOLEAN :
        /\ last' = [size |-> size, kind |-> kind, encr |-> encr]
        /\ Up!DoNotSend(kind) \/ Up!Start(s, size, kind, encr)
  BY DEF Up!DoSendPhoto
<1>2. process = "runs"
  BY DEF Up!DoSendPhoto
<1>3. last'.size = size /\ last'.kind = kind /\ last'.encr = encr /\ size \in Nat
  BY <1>1 DEF Up!UploadsAssumption
<1>4. ASSUME Up!DoNotSend(kind) PROVE Up!PartsFit' /\ Up!StopsOnlyForKnownFiles'
  <2>1. process' = "runs" \/ (process' = "broken" /\ kind = "photo")
    BY <1>2, <1>4 DEF Up!DoNotSend
  <2>2. file' = file
    BY <1>4 DEF Up!DoNotSend, Up!Same
  <2> QED
    BY <1>3, <2>1, <2>2, UnchangedFits DEF Up!UInv, Up!StopsOnlyForKnownFiles
<1>5. ASSUME Up!Start(s, size, kind, encr)
      PROVE  Up!PartsFit' /\ Up!StopsOnlyForKnownFiles'
  <2>1. PICK f : f = [size |-> size, part |-> Up!PartSize(size), num |-> 0, offset |-> 0,
                      open |-> TRUE, encr |-> encr]
    OBVIOUS
  <2>2. /\ f.part \in Nat /\ (size > 2 => f.part > 0)
        /\ (f.part > 0 => f.size <= MaxParts * f.part)
        /\ size >= 3 * Align => Up!Aligned(f.part)
    BY <1>3, <2>1, PartIsEnough
  <2>3. \/ Up!DoNotSend(kind)
        \/ size > 0 /\ f.part = 0 /\ process' = "stuck" /\ Up!Same
        \/ /\ size > 0 /\ f.part \in 1..MaxPart
           /\ (Up!SendFileThumb(s, f) /\ ~encr) \/ Up!SendFilePart(s, f)
    BY <1>5, <2>1 DEF Up!Start
  <2>4. CASE size > 0 /\ f.part = 0 /\ process' = "stuck" /\ Up!Same
    <3>1. size \in {1, 2}
      BY <1>3, <2>2, <2>4
    <3>2. Up!StopsOnlyForKnownFiles'
      BY <1>3, <2>4, <3>1 DEF Up!StopsOnlyForKnownFiles
    <3> QED
      BY <2>4, <3>2, UnchangedFits DEF Up!Same, Up!UInv
  <2>5. CASE /\ size > 0 /\ f.part \in 1..MaxPart
             /\ (Up!SendFileThumb(s, f) /\ ~encr) \/ Up!SendFilePart(s, f)
    <3>1. process' = process => Up!StopsOnlyForKnownFiles'
      BY <1>2 DEF Up!StopsOnlyForKnownFiles
    <3>2. f \in Up!SendFile /\ f.open /\ f.part > 0 /\ f.offset < f.size
      BY <1>3, <2>1, <2>2, <2>5 DEF Up!SendFile
    <3>3. f.size <= MaxParts * f.part /\ f.offset = f.num * f.part /\ f.num = 0
          /\ f.offset = 0 /\ f.size = size /\ f.encr = encr
      BY <2>1, <2>2, <3>2
    <3>4. CASE Up!SendFileThumb(s, f) /\ ~encr
      <4>1. 0 <= MaxParts
        BY DEF Up!UploadsAssumption
      <4>2. Up!Fits(f)
        BY <3>3, <3>4, <4>1 DEF Up!Fits, Up!Smooth
      <4> QED
        BY <3>1, <3>4, <4>2, PlacedFits DEF Up!SendFileThumb, Up!UInv
    <3>5. CASE Up!SendFilePart(s, f) /\ ~Up!Breaks(f)
      BY <3>1, <3>2, <3>3, <3>5, OnePartFits DEF Up!UInv
    <3>6. CASE Up!SendFilePart(s, f) /\ Up!Breaks(f)
      <4>1. process' = "aborted" /\ file' = file
        BY <3>6 DEF Up!SendFilePart, Up!Abort
      <4>2. encr /\ ~Up!Aligned(f.part)
        <5>1. f.size \in Nat /\ f.part \in Nat
          BY <3>2 DEF Up!SendFile
        <5> QED
          BY <3>3, <3>6, <5>1 DEF Up!Breaks, Up!Length
      <4>3. size < 3 * Align
        <5>1. Align \in Nat
          BY DEF Up!UploadsAssumption
        <5> QED
          BY <1>3, <2>2, <4>2, <5>1
      <4>4. Up!StopsOnlyForKnownFiles'
        BY <1>3, <4>1, <4>2, <4>3 DEF Up!StopsOnlyForKnownFiles
      <4> QED
        BY <4>1, <4>4, UnchangedFits DEF Up!UInv
    <3> QED
      BY <2>5, <3>4, <3>5, <3>6
  <2> QED
    BY <1>4, <2>3, <2>4, <2>5
<1> QED
  BY <1>1, <1>4, <1>5

\* Each step of the uploads keeps their invariant, with the sizes of the
\* parts.
LEMMA UInvNext ==
  ASSUME Up!UploadsAssumption, Up!UInv, [Up!Next]_(Up!upload_vars)
  PROVE  Up!UInv'
<1>1. Up!IInv'
  BY UploadsNext DEF Up!UInv
<1>2. CASE UNCHANGED <<file, last, process>>
  BY <1>1, <1>2, UnchangedFits DEF Up!UInv, Up!StopsOnlyForKnownFiles
<1>3. CASE Up!Refused
  BY <1>2, <1>3 DEF Up!Refused
<1>4. CASE UNCHANGED Up!upload_vars
  BY <1>2, <1>4 DEF Up!upload_vars
<1> QED
  BY <1>1, <1>3, <1>4, AnsweredFits, DoSendPhotoFits DEF Up!Next, Up!UInv

\* It holds at first.
LEMMA UInvInit ==
  ASSUME Up!UploadsAssumption, Up!Init
  PROVE  Up!UInv
<1>1. Up!PartsFit
  BY EmptyFits DEF Up!Init, Up!PartsFit
<1> QED
  BY <1>1, UploadsInit DEF Up!UInv, Up!Init, Up!StopsOnlyForKnownFiles

\* It implies the properties of the uploads.
LEMMA UInvGoals ==
  ASSUME Up!UInv
  PROVE  /\ Up!TypeOK /\ Up!PartsBeforeMessage /\ Up!TotalsAgree /\ Up!ProgressCleared
         /\ Up!StopsOnlyForKnownFiles /\ Up!PartsFew
  BY UploadsGoals DEF Up!UInv, Up!PartsFit, Up!Fits, Up!PartsFew

-----------------------------------------------------------------------------
\* Downloads

\* The totals of the downloads are sums.
LEMMA DownTotal ==
  ASSUME NEW n
  PROVE  Down!Total(n) = Sum(n)
<1>1. Down!Total(n) = Down!Cardinality(UNION {{s} \X (1..n[s]) : s \in DOMAIN n})
  BY DEF Down!Total
<1> QED
  BY <1>1, SameCount DEF Sum

\* A multiple leaves no remainder.
LEMMA Multiple ==
  ASSUME NEW a \in Nat \ {0}, NEW k \in Int
  PROVE  (k * a) % a = 0
  OBVIOUS

\* A number is its quotient times the divisor and the remainder.
LEMMA Divided ==
  ASSUME NEW a \in Nat \ {0}, NEW n \in Nat
  PROVE  /\ n \div a \in Nat /\ n % a \in 0..(a - 1)
         /\ n = (n \div a) * a + (n % a)
  OBVIOUS

\* The server stores a file in whole blocks if it is encrypted.
LEMMA StoredFits ==
  ASSUME Down!DownloadsAssumption, NEW f \in Files
  PROVE  /\ Size[f] \in Nat /\ Size[f] > 0
         /\ Down!Stored(f) \in Nat /\ Down!Stored(f) >= Size[f]
         /\ f \notin Encrypted => Down!Stored(f) = Size[f]
         /\ f \in Encrypted => \E c \in Nat : Down!Stored(f) = c * Align
<1>1. Size[f] \in Nat /\ Size[f] > 0 /\ Align \in Nat \ {0}
  BY DEF Down!DownloadsAssumption
<1>2. CASE f \notin Encrypted
  BY <1>1, <1>2 DEF Down!Stored
<1>3. CASE f \in Encrypted
  <2>1. PICK n \in Nat : n = Size[f] + Align - 1
    BY <1>1
  <2>2. PICK q \in Nat, r \in Nat : q = n \div Align /\ r < Align /\ n = q * Align + r
    <3>1. PICK q : q = n \div Align
      OBVIOUS
    <3>2. PICK r : r = n % Align
      OBVIOUS
    <3>3. q \in Nat /\ r \in 0..(Align - 1) /\ n = q * Align + r
      BY <1>1, <3>1, <3>2, Divided
    <3>4. r \in Nat /\ r < Align
      BY <1>1, <3>3
    <3> QED
      BY <3>1, <3>3, <3>4
  <2>3. Down!Stored(f) = q * Align
    BY <1>3, <2>1, <2>2 DEF Down!Stored
  <2>4. q * Align \in Nat
    BY <1>1
  <2>5. PICK p \in Nat : p = q * Align
    BY <2>4
  <2> QED
    BY <1>1, <1>3, <2>1, <2>2, <2>3, <2>5
<1> QED
  BY <1>2, <1>3

\* A download under way is within its file.
LEMMA UsedFits ==
  ASSUME Down!DownloadsAssumption, Down!IInv, NEW d \in Loads, load[d].used
         \/ load[d].waits
  PROVE  /\ d \in Down!Used /\ load[d] \in Down!LoadRecord /\ load[d].file \in Files
         /\ load[d].offset \in Nat /\ load[d].offset < Size[load[d].file]
         /\ load[d].from \in Nat /\ load[d].at \in Nat
         /\ load[d].offset = load[d].from + load[d].at
         /\ Down!Parts(load[d].at)
         /\ Down!Parts(load[d].from) \/ Down!Parts(Size[load[d].file] - load[d].from)
<1>1. load[d] # Down!Free /\ load[d] \in {Down!Free} \cup Down!LoadRecord
  BY DEF Down!IInv, Down!LoadFits, Down!Free
<1>2. d \in Down!Used /\ load[d] \in Down!LoadRecord
  BY <1>1 DEF Down!IInv, Down!LoadFits, Down!Used
<1>3. /\ load[d].file \in Files /\ load[d].offset \in 0..(Size[load[d].file] - 1)
      /\ load[d].at = load[d].offset - load[d].from
  BY <1>2 DEF Down!IInv, Down!TypeOK
<1>4. load[d].offset \in Nat /\ load[d].from \in Nat /\ load[d].at \in Nat
  BY <1>2 DEF Down!LoadRecord
<1>5. Size[load[d].file] \in Nat
  BY <1>3 DEF Down!DownloadsAssumption
<1>6. load[d].offset < Size[load[d].file]
  BY <1>3, <1>4, <1>5
<1>7. load[d].offset = load[d].from + load[d].at
  BY <1>3, <1>4
<1> QED
  BY <1>2, <1>3, <1>4, <1>6, <1>7 DEF Down!IInv, Down!AtParts

\* What the totals of the downloads add up are numbers, finitely many.
LEMMA DownTotalsHaveKind ==
  ASSUME Down!DownloadsAssumption, Down!IInv
  PROVE  /\ IsFiniteSet(Down!Used)
         /\ [d \in Down!Used |-> Size[load[d].file]] \in [Down!Used -> Nat]
         /\ [d \in Down!Used |-> load[d].offset] \in [Down!Used -> Nat]
<1>1. IsFiniteSet(Down!Used)
  BY FS_Subset, SameCount DEF Down!DownloadsAssumption, Down!Used
<1>2. \A d \in Down!Used : Size[load[d].file] \in Nat /\ load[d].offset \in Nat
  <2> TAKE d \in Down!Used
  <2>1. d \in Loads /\ load[d].used
    BY DEF Down!Used
  <2> QED
    BY <2>1, UsedFits, StoredFits
<1> QED
  BY <1>1, <1>2

\* What is written of a part of x units, on a copy that goes to its place.
LEMMA WrittenFits ==
  ASSUME NEW copy, NEW n \in Nat, NEW s \in Nat, copy \in [1..n -> 0..s], Len(copy) = n,
         n <= s, NEW l \in Down!LoadRecord, Size[l.file] = s, l.offset = l.from + l.at,
         l.at <= n, NEW x \in Nat, l.offset + x <= s,
         NEW new, new = Down!Written(copy, l.at, Down!Units(l, x))
  PROVE  /\ Len(new) = (IF n > l.at + x THEN n ELSE l.at + x) /\ Len(new) \in 0..s
         /\ new \in [1..Len(new) -> 0..s] /\ new \in Seq(Nat)
         /\ l.from = 0 /\ (\A i \in 1..n : copy[i] = i)
            => \A i \in 1..Len(new) : new[i] = i
<1>1. PICK at \in Nat, o \in Nat, from \in Nat :
        at = l.at /\ o = l.offset /\ from = l.from /\ o = from + at
  BY DEF Down!LoadRecord
<1>2. PICK u : u = Down!Units(l, x)
  OBVIOUS
<1>3. /\ u \in [1..x -> 0..s]
      /\ \A i \in 1..x : from = 0 => u[i] = at + i
  <2>1. u = [i \in 1..x |-> IF l.file \in Encrypted /\ l.from > 0 THEN 0 ELSE o + i]
    BY <1>1, <1>2 DEF Down!Units
  <2>2. \A i \in 1..x : o + i \in 0..s
    BY <1>1
  <2>3. 0 \in 0..s
    OBVIOUS
  <2>4. u \in [1..x -> 0..s]
    BY <2>1, <2>2, <2>3
  <2>5. ASSUME NEW i \in 1..x, from = 0 PROVE u[i] = at + i
    BY <1>1, <2>1, <2>5
  <2> QED
    BY <2>4, <2>5
<1>4. Len(u) = x
  <2>1. u \in [1..x -> 0..s] /\ x \in Nat
    BY <1>3
  <2> QED
    BY <2>1, IsASeq, LenProperties
<1>5. PICK m \in Nat : m = IF n > at + x THEN n ELSE at + x
  BY <1>1
<1>6. new = [i \in 1..m |-> IF i \in (at + 1)..(at + x) THEN u[i - at] ELSE copy[i]]
  BY <1>1, <1>2, <1>4, <1>5 DEF Down!Written
<1>7. ASSUME NEW i \in 1..m
      PROVE  /\ new[i] \in 0..s
             /\ (from = 0 /\ \A j \in 1..n : copy[j] = j) => new[i] = i
  <2>1. CASE i \in (at + 1)..(at + x)
    <3>a. i - at \in 1..x
      BY <1>1, <2>1
    <3>b. new[i] = u[i - at]
      BY <1>6, <2>1
    <3>1. i - at \in 1..x /\ new[i] = u[i - at]
      BY <3>a, <3>b
    <3>2. i - at \in Int /\ at + (i - at) = i
      BY <1>1
    <3> QED
      BY <1>3, <3>1, <3>2
  <2>2. CASE i \notin (at + 1)..(at + x)
    <3>1. i \in 1..n /\ new[i] = copy[i]
      BY <1>1, <1>5, <1>6, <2>2
    <3> QED
      BY <3>1
  <2> QED
    BY <2>1, <2>2
<1>8. new \in [1..m -> 0..s] /\ new \in [1..m -> Nat]
  <2>1. DOMAIN new = 1..m /\ new = [i \in 1..m |-> new[i]]
    BY <1>6
  <2> QED
    BY <1>7, <2>1
<1>9. new \in Seq(Nat) /\ Len(new) = m
  <2>1. new \in Seq(Nat)
    BY <1>8, IsASeq
  <2>2. DOMAIN new = 1..m
    BY <1>6
  <2> QED
    BY <2>1, <2>2, LenProperties
<1>10. m \in 0..s
  BY <1>1, <1>5
<1> QED
  BY <1>1, <1>5, <1>7, <1>8, <1>9, <1>10

\* Nothing about the copies changes when every download has ended.
LEMMA Ended ==
  ASSUME Down!DownloadsAssumption, Down!IInv, running',
         {running', padded'} \subseteq BOOLEAN,
         Down!Used' = {}, \A d \in Loads : load'[d] = Down!Free, load' =
         [d \in Loads |-> Down!Free],
         downloading' = 0, downloaded' = 0,
         UNCHANGED <<disk, resumed, spoiled>>,
         loads' \in 0..MaxLoads, partRefusals' \in 0..MaxRefusals, ends' \in 0..MaxCrashes
  PROVE  Down!IInv'
<1>1. Down!TypeOK'
  BY DEF Down!IInv, Down!TypeOK
<1>2. Down!LoadFits'
  BY DEF Down!IInv, Down!LoadFits
<1>3. Down!AtParts'
  BY DEF Down!IInv, Down!AtParts
<1>4. Down!CopyFits'
  BY DEF Down!IInv, Down!CopyFits
<1>5. Down!LoadedRight'
  BY DEF Down!IInv, Down!LoadedRight
<1>6. Down!DownloadTotals'
  <2>1. PICK m, p : /\ m = [d \in Down!Used' |-> Size[load'[d].file]]
                    /\ p = [d \in Down!Used' |-> load'[d].offset]
    OBVIOUS
  <2>2. Down!Total(m) = 0 /\ Down!Total(p) = 0
    BY <2>1, DownTotal, SumOfNothing
  <2> QED
    BY <2>1, <2>2 DEF Down!DownloadTotals
<1> QED
  BY <1>1, <1>2, <1>3, <1>4, <1>5, <1>6 DEF Down!IInv

\* The process ends: the copies stay on the disk.
LEMMA DownloadCrashKeeps ==
  ASSUME Down!DownloadsAssumption, Down!IInv, Down!Crash
  PROVE  Down!IInv'
<1>1. load' = [d \in Loads |-> Down!Free] /\ (\A d \in Loads : load'[d] = Down!Free)
      /\ Down!Used' = {}
  BY DEF Down!Crash, Down!Used, Down!Free
<1>2. loads' \in 0..MaxLoads /\ partRefusals' \in 0..MaxRefusals
      /\ ends' \in 0..MaxCrashes
  BY DEF Down!Crash, Down!IInv, Down!TypeOK, Down!DownloadsAssumption
<1>3. running' /\ {running', padded'} \subseteq BOOLEAN
  BY DEF Down!Crash
<1> QED
  BY <1>1, <1>2, <1>3, Ended DEF Down!Crash

\* The copies and the totals stay, and the used downloads with their
\* places.
LEMMA SamePlaces ==
  ASSUME Down!DownloadsAssumption, Down!IInv,
         load' \in [Loads -> {Down!Free} \cup Down!LoadRecord],
         \A d \in Loads : load'[d] # Down!Free => load'[d].used,
         Down!Used' = Down!Used,
         \A d \in Down!Used : /\ load'[d].file = load[d].file /\ load'[d].offset =
                                 load[d].offset
                              /\ load'[d].from = load[d].from /\ load'[d].at = load[d].at,
         UNCHANGED <<disk, downloading, downloaded, running, resumed, padded>>,
         spoiled' \subseteq resumed,
         loads' \in 0..MaxLoads, partRefusals' \in 0..MaxRefusals, ends' \in 0..MaxCrashes
  PROVE  Down!IInv'
<1>1. Down!TypeOK'
  BY DEF Down!IInv, Down!TypeOK
<1>2. Down!LoadFits'
  BY DEF Down!IInv, Down!LoadFits
<1>3. Down!AtParts'
  BY DEF Down!IInv, Down!AtParts
<1>4. Down!CopyFits'
  BY DEF Down!IInv, Down!CopyFits
<1>5. Down!LoadedRight'
  BY DEF Down!IInv, Down!LoadedRight
<1>6. Down!DownloadTotals'
  <2>1. [d \in Down!Used' |-> Size[load'[d].file]] =
        [d \in Down!Used |-> Size[load[d].file]]
    OBVIOUS
  <2>2. [d \in Down!Used' |-> load'[d].offset] = [d \in Down!Used |-> load[d].offset]
    OBVIOUS
  <2> QED
    BY <2>1, <2>2 DEF Down!IInv, Down!DownloadTotals
<1> QED
  BY <1>1, <1>2, <1>3, <1>4, <1>5, <1>6 DEF Down!IInv

\* The server refuses a part: the slot stays used, and its totals with it.
LEMMA PartRefusedKeeps ==
  ASSUME Down!DownloadsAssumption, Down!IInv, Down!PartRefused
  PROVE  Down!IInv'
<1>1. PICK d \in Loads :
        /\ load[d].waits /\ partRefusals < MaxRefusals /\ partRefusals' = partRefusals + 1
        /\ load' = [load EXCEPT ![d].waits = FALSE]
        /\ UNCHANGED <<disk, Down!totals, running, Down!history, loads, ends>>
  BY DEF Down!PartRefused
<1>2. d \in Down!Used /\ load[d] \in Down!LoadRecord
  BY <1>1, UsedFits
<1>3. PICK g : g = [load[d] EXCEPT !.waits = FALSE]
  OBVIOUS
<1>4. /\ g \in Down!LoadRecord /\ g.file = load[d].file /\ g.offset = load[d].offset
      /\ g.from = load[d].from /\ g.at = load[d].at /\ g.used = load[d].used
  BY <1>2, <1>3 DEF Down!LoadRecord
<1>5. load' = [load EXCEPT ![d] = g]
      /\ load \in [Loads -> {Down!Free} \cup Down!LoadRecord]
  BY <1>1, <1>3 DEF Down!IInv, Down!LoadFits
<1>6. /\ load' \in [Loads -> {Down!Free} \cup Down!LoadRecord] /\ load'[d] = g
      /\ \A e \in Loads \ {d} : load'[e] = load[e]
  BY <1>4, <1>5
<1>7. g.used
  BY <1>2, <1>4 DEF Down!Used
<1>8. \A e \in Loads : load'[e].used <=> load[e].used
  <2> TAKE e \in Loads
  <2>1. CASE e = d
    BY <1>2, <1>6, <1>7, <2>1 DEF Down!Used
  <2>2. CASE e # d
    BY <1>6, <2>2
  <2> QED
    BY <2>1, <2>2
<1>9. Down!Used' = Down!Used
  BY <1>8 DEF Down!Used
<1>10. \A e \in Loads : load'[e] # Down!Free => load'[e].used
  BY <1>6, <1>7 DEF Down!IInv, Down!LoadFits
<1>11. loads' \in 0..MaxLoads /\ partRefusals' \in 0..MaxRefusals
       /\ ends' \in 0..MaxCrashes
  BY <1>1 DEF Down!IInv, Down!TypeOK, Down!DownloadsAssumption
<1>12. UNCHANGED <<disk, downloading, downloaded, running, resumed, padded, spoiled>>
  BY <1>1 DEF Down!totals, Down!history
<1>13. \A e \in Down!Used : /\ load'[e].file = load[e].file /\ load'[e].offset =
                               load[e].offset
                            /\ load'[e].from = load[e].from /\ load'[e].at = load[e].at
  BY <1>4, <1>6 DEF Down!Used
<1>14. spoiled' \subseteq resumed
  BY <1>12 DEF Down!IInv, Down!LoadedRight
<1> QED
  BY <1>6, <1>9, <1>10, <1>11, <1>12, <1>13, <1>14, SamePlaces

\* A download begins, at the end of the copy that is there, or has nothing
\* to do (do_load_document, load_next_part).
LEMMA BeginKeeps ==
  ASSUME Down!DownloadsAssumption, Down!IInv, NEW d \in Loads \ Down!Used,
         NEW f \in Files, Down!Begin(d, f),
         UNCHANGED <<disk, running>>,
         loads' \in 0..MaxLoads, partRefusals' \in 0..MaxRefusals, ends' \in 0..MaxCrashes
  PROVE  Down!IInv'
<1>1. PICK s \in Nat, n \in Nat : s = Size[f] /\ s > 0 /\ n = Len(disk[f]) /\ n <= s
  BY StoredFits DEF Down!IInv, Down!TypeOK
<1>2. downloading \in Nat /\ downloaded \in Nat
  BY DEF Down!IInv, Down!TypeOK
<1>3. CASE n >= s
  <2>1. /\ Down!EndLoad(f, downloading + s, downloaded + n)
        /\ spoiled' = Down!Reported(f, disk[f]) /\ UNCHANGED <<load, resumed>>
    BY <1>1, <1>3 DEF Down!Begin
  <2>2. n = s
    BY <1>1, <1>3
  <2>3. /\ downloading' = downloading /\ downloaded' = downloaded
        /\ padded' = (padded \/ f \in Encrypted)
    BY <1>1, <1>2, <2>1, <2>2 DEF Down!EndLoad
  <2>4. spoiled' \subseteq resumed
    <3>1. CASE f \in resumed
      BY <2>1, <3>1 DEF Down!Reported, Down!IInv, Down!LoadedRight
    <3>2. CASE f \notin resumed
      <4>1. disk[f] = Down!Whole(f)
        BY <1>1, <2>2, <3>2 DEF Down!IInv, Down!CopyFits, Down!Whole
      <4> QED
        BY <2>1, <4>1 DEF Down!Reported, Down!IInv, Down!LoadedRight
    <3> QED
      BY <3>1, <3>2
  <2>5. padded' \in BOOLEAN /\ (padded => padded')
    BY <2>3
  <2>6. Down!TypeOK'
    <3>1. {running', padded'} \subseteq BOOLEAN
      BY <2>5 DEF Down!IInv, Down!TypeOK
    <3>2. Down!Used' = Down!Used /\ spoiled' \subseteq Files
      BY <2>1, <2>4 DEF Down!IInv, Down!TypeOK, Down!Used
    <3> QED
      BY <2>1, <2>3, <3>1, <3>2 DEF Down!IInv, Down!TypeOK
  <2>7. Down!LoadFits' /\ Down!AtParts' /\ Down!CopyFits'
    BY <2>1 DEF Down!IInv, Down!LoadFits, Down!AtParts, Down!CopyFits, Down!Used
  <2>8. Down!LoadedRight'
    BY <2>1, <2>4 DEF Down!IInv, Down!LoadedRight
  <2>9. Down!DownloadTotals'
    <3>1. Down!Used' = Down!Used
      BY <2>1 DEF Down!Used
    <3>2. PICK own : own = Down!Total([e \in Down!Used |-> load[e].offset])
      OBVIOUS
    <3>3. own = Down!Total([e \in Down!Used' |-> load'[e].offset])
      BY <2>1, <3>1, <3>2
    <3>4. downloaded >= own /\ (padded \/ downloaded = own)
      BY <3>2 DEF Down!IInv, Down!DownloadTotals
    <3>5. downloaded' >= own /\ (padded' \/ downloaded' = own)
      BY <2>3, <2>5, <3>4
    <3>6. downloading' = Down!Total([e \in Down!Used' |-> Size[load'[e].file]])
      BY <2>1, <2>3, <3>1 DEF Down!IInv, Down!DownloadTotals
    <3> QED
      BY <3>3, <3>5, <3>6 DEF Down!DownloadTotals
  <2> QED
    BY <2>6, <2>7, <2>8, <2>9 DEF Down!IInv
<1>4. CASE n < s
  <2>1. PICK l : l = Down!Load(f, n)
    OBVIOUS
  <2>2. /\ l \in Down!LoadRecord /\ l.file = f /\ l.offset = n /\ l.from = n /\ l.at = 0
        /\ l.used
    BY <1>1, <2>1 DEF Down!Load, Down!LoadRecord
  <2>3. /\ load' = [load EXCEPT ![d] = l]
        /\ downloading' = downloading + s /\ downloaded' = downloaded + n
        /\ resumed' = (IF n > 0 THEN resumed \cup {f} ELSE resumed)
        /\ UNCHANGED <<spoiled, padded>>
    BY <1>1, <1>4, <2>1 DEF Down!Begin
  <2>4. /\ load' \in [Loads -> {Down!Free} \cup Down!LoadRecord] /\ load'[d] = l
        /\ \A e \in Loads \ {d} : load'[e] = load[e]
    BY <2>2, <2>3 DEF Down!IInv, Down!LoadFits
  <2>5. d \in Loads /\ d \notin Down!Used /\ Down!Used' = Down!Used \cup {d}
    BY <2>2, <2>4 DEF Down!Used
  <2>6. \A e \in Down!Used : load'[e] = load[e] /\ e \in Loads /\ load[e].used
    BY <2>4, <2>5 DEF Down!Used
  <2>7. resumed \subseteq resumed' /\ resumed' \subseteq Files
    BY <2>3 DEF Down!IInv, Down!TypeOK
  <2>8. Down!TypeOK'
    <3>1. \A e \in Down!Used' :
            /\ load'[e].file \in Files /\ load'[e].offset \in 0..(Size[load'[e].file] - 1)
            /\ load'[e].at = load'[e].offset - load'[e].from
      <4>1. ASSUME NEW e \in Down!Used PROVE
            /\ load'[e].file \in Files /\ load'[e].offset \in 0..(Size[load'[e].file] - 1)
            /\ load'[e].at = load'[e].offset - load'[e].from
        BY <2>6, <4>1 DEF Down!IInv, Down!TypeOK
      <4>2. /\ l.file \in Files /\ l.offset \in 0..(Size[l.file] - 1)
            /\ l.at = l.offset - l.from
        <5>1. n \in 0..(s - 1) /\ 0 = n - n
          BY <1>1, <1>4
        <5> QED
          BY <1>1, <2>2, <5>1
      <4> QED
        BY <2>4, <2>5, <4>1, <4>2
    <3>2. {running', padded'} \subseteq BOOLEAN
      BY <2>3 DEF Down!IInv, Down!TypeOK
    <3>3. downloading' \in Nat /\ downloaded' \in Nat
      BY <1>1, <1>2, <2>3
    <3> QED
      BY <2>3, <2>7, <3>1, <3>2, <3>3 DEF Down!IInv, Down!TypeOK
  <2>9. Down!LoadFits'
    BY <2>2, <2>4 DEF Down!IInv, Down!LoadFits
  <2>10. Down!AtParts'
    <3>1. Down!Parts(0)
      <4>1. 0 = 0 * Part
        BY DEF Down!DownloadsAssumption
      <4> QED
        BY <4>1 DEF Down!Parts
    <3>2. Down!Parts(n) \/ Down!Parts(s - n)
      BY <1>1 DEF Down!IInv, Down!AtParts
    <3>3. \A e \in Down!Used' : /\ Down!Parts(load'[e].at)
                                /\ Down!Parts(load'[e].from)
                                   \/ Down!Parts(Size[load'[e].file] - load'[e].from)
      <4>1. \A e \in Down!Used : /\ Down!Parts(load'[e].at)
                                 /\ Down!Parts(load'[e].from)
                                    \/ Down!Parts(Size[load'[e].file] - load'[e].from)
        BY <2>6 DEF Down!IInv, Down!AtParts
      <4>2. /\ Down!Parts(load'[d].at)
            /\ Down!Parts(load'[d].from)
               \/ Down!Parts(Size[load'[d].file] - load'[d].from)
        <5>1. l.from = n /\ l.at = 0 /\ Size[l.file] = s
          BY Zenon, <1>1, <2>2
        <5>3. Size[l.file] - l.from = s - n
          BY Zenon, <5>1
        <5>2. Down!Parts(l.at)
              /\ (Down!Parts(l.from) \/ Down!Parts(Size[l.file] - l.from))
          <6>1. Down!Parts(l.at)
            BY Zenon, <3>1, <5>1
          <6>2. CASE Down!Parts(n)
            BY Zenon, <5>1, <6>1, <6>2
          <6>3. CASE Down!Parts(s - n)
            <7>1. PICK y : y = Size[l.file] - l.from
              OBVIOUS
            <7>2. y = s - n
              BY Zenon, <5>3, <7>1
            <7>3. Down!Parts(y)
              BY Zenon, <6>3, <7>2
            <7> QED
              BY Zenon, <6>1, <7>1, <7>3
          <6> QED
            BY Zenon, <3>2, <6>2, <6>3
        <5> QED
          BY Zenon, <2>4, <5>2
      <4>3. ASSUME NEW e \in Down!Used'
            PROVE  /\ Down!Parts(load'[e].at)
                   /\ Down!Parts(load'[e].from)
                      \/ Down!Parts(Size[load'[e].file] - load'[e].from)
        <5>1. CASE e \in Down!Used
          BY <4>1, <5>1
        <5>2. CASE e = d
          BY Zenon, <4>2, <5>2
        <5> QED
          BY Zenon, <2>5, <5>1, <5>2
      <4> QED
        BY Zenon, <4>3
    <3> QED
      BY <3>3 DEF Down!IInv, Down!AtParts
  <2>11. Down!CopyFits'
    <3>1. \A e \in Down!Used' : load'[e].at <= Len(disk'[load'[e].file])
      <4>1. \A e \in Down!Used : load'[e].at <= Len(disk'[load'[e].file])
        BY <2>6 DEF Down!IInv, Down!CopyFits
      <4>2. load'[d].at <= Len(disk'[load'[d].file])
        BY <1>1, <2>2, <2>4
      <4> QED
        BY <2>5, <4>1, <4>2
    <3>2. ASSUME NEW g \in Files \ resumed', NEW e \in Down!Used', load'[e].file = g
          PROVE  load'[e].from = 0
      <4>1. CASE e \in Down!Used
        BY <2>6, <2>7, <3>2, <4>1 DEF Down!IInv, Down!CopyFits
      <4>2. CASE e = d
        <5>1. g = f
          BY <2>2, <2>4, <3>2, <4>2
        <5>2. n = 0
          BY <1>1, <2>3, <3>2, <5>1
        <5> QED
          BY <2>2, <2>4, <4>2, <5>2
      <4> QED
        BY <2>5, <3>2, <4>1, <4>2
    <3>3. \A g \in Files \ resumed' : disk'[g] = [i \in 1..Len(disk'[g]) |-> i]
      BY <2>7 DEF Down!IInv, Down!CopyFits
    <3> QED
      BY <3>1, <3>2, <3>3 DEF Down!CopyFits
  <2>12. Down!LoadedRight'
    BY <2>3, <2>7 DEF Down!IInv, Down!LoadedRight
  <2>13. Down!DownloadTotals'
    <3>1. PICK m, o : m = [e \in Down!Used |-> Size[load[e].file]] /\ o =
                      [e \in Down!Used |-> load[e].offset]
      OBVIOUS
    <3>2. PICK p, q : p = [e \in Down!Used' |-> Size[load'[e].file]] /\ q =
                      [e \in Down!Used' |-> load'[e].offset]
      OBVIOUS
    <3>3. /\ IsFiniteSet(Down!Used) /\ m \in [Down!Used -> Nat]
             /\ o \in [Down!Used -> Nat]
      BY <3>1, DownTotalsHaveKind
    <3>4. /\ downloading = Sum(m) /\ downloaded >= Sum(o)
             /\ (padded \/ downloaded = Sum(o))
      BY <3>1, DownTotal DEF Down!IInv, Down!DownloadTotals
    <3>5. Sum(m) \in Nat /\ Sum(o) \in Nat
      BY <3>3, PairsAreFinite
    <3>6. /\ p \in [Down!Used \cup {d} -> Nat] /\ q \in [Down!Used \cup {d} -> Nat]
          /\ p[d] = s /\ q[d] = n
          /\ (\A e \in Down!Used : p[e] = m[e]) /\ \A e \in Down!Used : q[e] = o[e]
      <4>1. p = [e \in Down!Used \cup {d} |-> Size[load'[e].file]] /\ q =
            [e \in Down!Used \cup {d} |-> load'[e].offset]
        BY <2>5, <3>2
      <4>2. (\A e \in Down!Used : p[e] = m[e]) /\ \A e \in Down!Used : q[e] = o[e]
        BY <2>6, <3>1, <4>1
      <4>3. p[d] = s /\ q[d] = n
        BY <1>1, <2>2, <2>4, <4>1
      <4> QED
        BY <3>3, <4>1, <4>2, <4>3
    <3>a. PICK D : D = Down!Used
      OBVIOUS
    <3>b. /\ IsFiniteSet(D) /\ m \in [D -> Nat] /\ o \in [D -> Nat] /\ d \notin D
          /\ p \in [D \cup {d} -> Nat] /\ q \in [D \cup {d} -> Nat]
          /\ (\A e \in D : p[e] = m[e]) /\ \A e \in D : q[e] = o[e]
      BY <2>5, <3>a, <3>3, <3>6
    <3>7. Sum(p) = Sum(m) + p[d]
      BY <3>b, SumWith
    <3>8. Sum(q) = Sum(o) + q[d]
      BY <3>b, SumWith
    <3>c. downloading' = Sum(p) /\ downloaded' >= Sum(q)
      BY <1>1, <1>2, <2>3, <3>4, <3>5, <3>6, <3>7, <3>8
    <3>d. ASSUME ~padded PROVE downloaded' = Sum(q)
      BY <1>1, <1>2, <2>3, <3>4, <3>5, <3>6, <3>7, <3>8, <3>d
    <3>9. /\ downloading' = Sum(p) /\ downloaded' >= Sum(q)
          /\ (padded' \/ downloaded' = Sum(q))
      BY Zenon, <2>3, <3>c, <3>d
    <3> QED
      BY <3>2, <3>9, DownTotal DEF Down!DownloadTotals
  <2> QED
    BY <2>8, <2>9, <2>10, <2>11, <2>12, <2>13 DEF Down!IInv
<1> QED
  BY <1>1, <1>3, <1>4

\* A file is to be loaded.
LEMMA DoLoadKeeps ==
  ASSUME Down!DownloadsAssumption, Down!IInv, Down!DoLoad
  PROVE  Down!IInv'
<1>1. PICK d \in Loads \ Down!Used, f \in Files : Down!Begin(d, f)
  BY DEF Down!DoLoad, Down!DoLoadPhotoSize, Down!DoLoadFile, Down!DoLoadEncrVideo,
     Down!DownloadsAssumption
<1>2. UNCHANGED <<disk, running>>
  BY DEF Down!DoLoad
<1>3. loads' \in 0..MaxLoads /\ partRefusals' \in 0..MaxRefusals
      /\ ends' \in 0..MaxCrashes
  BY DEF Down!DoLoad, Down!IInv, Down!TypeOK, Down!DownloadsAssumption
<1> QED
  BY <1>1, <1>2, <1>3, BeginKeeps

\* A part has come: it is written at its place, and the download goes on
\* or has ended; the length of an encrypted part is one of whole blocks
\* (download_on_answer).
LEMMA AnswerKeeps ==
  ASSUME Down!DownloadsAssumption, Down!IInv, NEW d \in Loads, load[d].waits,
         Down!DownloadOnAnswer(d),
         UNCHANGED <<loads, partRefusals, ends>>
  PROVE  Down!IInv'
<1>1. PICK l, f : l = load[d] /\ f = l.file
  OBVIOUS
<1>2. /\ d \in Down!Used /\ l \in Down!LoadRecord /\ f \in Files
      /\ Down!Parts(l.at) /\ (Down!Parts(l.from) \/ Down!Parts(Size[f] - l.from))
  BY <1>1, UsedFits
<1>3. PICK s \in Nat, t \in Nat, o \in Nat, from \in Nat, at \in Nat, n \in Nat :
        /\ s = Size[f] /\ t = Down!Stored(f) /\ l.offset = o /\ l.from = from /\ l.at = at
        /\ n = Len(disk[f]) /\ o = from + at /\ o < s /\ t >= s /\ n <= s /\ at <= n
  <2>1. Size[f] \in Nat /\ Down!Stored(f) \in Nat /\ Down!Stored(f) >= Size[f]
    BY <1>2, StoredFits
  <2>2. /\ l.offset \in Nat /\ l.from \in Nat /\ l.at \in Nat /\ l.offset = l.from + l.at
        /\ l.offset < Size[f]
    BY <1>1, UsedFits
  <2>3. Len(disk[f]) \in Nat /\ Len(disk[f]) <= Size[f] /\ l.at <= Len(disk[f])
    <3>1. Len(disk[f]) \in 0..Size[f]
      BY <1>2 DEF Down!IInv, Down!TypeOK
    <3>2. l.at <= Len(disk[f])
      BY <1>1, <1>2 DEF Down!IInv, Down!CopyFits
    <3> QED
      BY <2>1, <3>1, <3>2
  <2> QED
    BY <2>1, <2>2, <2>3
<1>4. PICK len \in Nat : len = IF t - o < Part THEN t - o ELSE Part
  BY <1>3 DEF Down!DownloadsAssumption
<1>5. PICK x \in Nat : x = IF len > s - o THEN s - o ELSE len
  BY <1>3
<1>6. /\ len \in Nat /\ x \in Nat /\ x > 0 /\ x <= len /\ o + x <= s
      /\ t = s => x = len
      /\ o + x < s => x = len
      /\ o + x < s => Down!Parts(at + x)
      /\ Down!Parts(at + x) \/ Down!Parts(s - (at + x))
      /\ f \in Encrypted => len % Align = 0
  <2>a. Down!Parts(at) /\ (Down!Parts(from) \/ Down!Parts(s - from))
    BY Zenon, <1>2, <1>3
  <2>b. f \in Encrypted => \E c \in Nat : t = c * Align
    <3>1. f \in Encrypted => \E c \in Nat : Down!Stored(f) = c * Align
      BY Zenon, <1>2, StoredFits
    <3> QED
      BY Zenon, <1>3, <3>1
  <2>c. /\ s \in Nat /\ t \in Nat /\ o \in Nat /\ from \in Nat /\ at \in Nat
        /\ o = from + at /\ o < s /\ t >= s
    BY <1>3
  <2>1. Part \in Nat /\ Part > 0 /\ Align \in Nat \ {0}
    BY DEF Down!DownloadsAssumption
  <2>2. /\ x > 0 /\ x <= len /\ o + x <= s
        /\ t = s => x = len
        /\ o + x < s => x = len
        /\ o + x < s => x = Part
        /\ x = Part \/ x = s - o
    BY <1>4, <1>5, <2>c, <2>1
  <2>3. PICK k \in Nat : at = k * Part
    BY <2>a DEF Down!Parts
  <2>4. x = Part => Down!Parts(at + x)
    <3>1. (k + 1) * Part = k * Part + Part /\ k + 1 \in Nat
      BY <2>1
    <3> QED
      BY <2>3, <3>1 DEF Down!Parts
  <2>5. Down!Parts(at + x) \/ Down!Parts(s - (at + x))
    <3>1. CASE x = Part
      BY <2>4, <3>1
    <3>2. CASE x = s - o
      <4>1. PICK y \in Nat : y = s - o /\ x = y
        BY <2>2, <2>c, <3>2
      <4>2. s - (at + y) = from /\ at + y = s - from
        BY <2>c, <4>1
      <4> QED
        BY Zenon, <2>a, <4>1, <4>2
    <3> QED
      BY <2>2, <3>1, <3>2
  <2>6. ASSUME NEW c \in Nat, t = c * Align PROVE len % Align = 0
    <3>1. PICK p \in Nat : Part = p * Align
      <4>1. Part = (Part \div Align) * Align + (Part % Align) /\ Part \div Align \in Nat
        BY <2>1, Divided
      <4>2. Part % Align = 0
        BY DEF Down!DownloadsAssumption
      <4>3. PICK p \in Nat : p = Part \div Align
        BY <4>1
      <4> QED
        BY <2>1, <4>1, <4>2, <4>3
    <3>2. CASE Down!Parts(from)
      <4>1. PICK j \in Nat : from = j * Part
        BY <3>2 DEF Down!Parts
      <4>2. t - o = (c - (j + k) * p) * Align
        <5>1. o = j * Part + k * Part
          BY <2>3, <2>c, <4>1
        <5>2. j * (p * Align) + k * (p * Align) = ((j + k) * p) * Align
          BY <2>1
        <5>3. PICK e \in Nat : e = (j + k) * p
          OBVIOUS
        <5>4. o = e * Align
          BY <3>1, <5>1, <5>2, <5>3
        <5>5. c * Align - e * Align = (c - e) * Align
          BY <2>1
        <5> QED
          BY <2>6, <5>3, <5>4, <5>5
      <4>3. (t - o) % Align = 0
        <5>1. c - (j + k) * p \in Int
          OBVIOUS
        <5> QED
          BY <2>1, <4>2, <5>1, Multiple
      <4>4. Part % Align = 0
        BY DEF Down!DownloadsAssumption
      <4> QED
        BY <1>4, <2>1, <4>3, <4>4
    <3>3. CASE Down!Parts(s - from)
      <4>1. PICK j \in Nat : s - from = j * Part
        BY <3>3 DEF Down!Parts
      <4>2. j * Part - k * Part = (j - k) * Part
        BY <2>1
      <4>3. s - o = j * Part - k * Part
        <5>1. s - o = (s - from) - at
          BY <2>c
        <5> QED
          BY <2>3, <4>1, <5>1
      <4>4. (j - k) * Part > 0 /\ j - k \in Int
        BY <2>c, <4>2, <4>3
      <4>5. j - k >= 1
        BY <2>1, <4>4
      <4>6. (j - k) * Part >= Part
        BY <2>1, <4>5
      <4>7. s - o >= Part
        BY <4>2, <4>3, <4>6
      <4>8. len = Part
        BY <1>4, <2>1, <2>c, <4>7
      <4> QED
        BY <4>8 DEF Down!DownloadsAssumption
    <3> QED
      BY <2>a, <3>2, <3>3
  <2> QED
    BY Zenon, <2>b, <2>2, <2>4, <2>5, <2>6, <1>3
<1>7. f \notin Encrypted => len = x
  <2>1. f \notin Encrypted => t = s
    BY <1>2, <1>3, StoredFits
  <2> QED
    BY <1>6, <2>1
<1>8. PICK copy : copy = Down!Written(disk[f], at, Down!Units(l, x))
  OBVIOUS
<1>9. PICK next : next = [l EXCEPT !.offset = @ + x, !.at = @ + x]
  OBVIOUS
<1>10. x = Down!Trimmed(l, len)
  BY Zenon, <1>1, <1>3, <1>5 DEF Down!Trimmed
<1>11. /\ disk' = [disk EXCEPT ![f] = copy]
       /\ \/ /\ ~Down!Finished(l, next.offset)
             /\ load' = [load EXCEPT ![d] = next]
             /\ downloaded' = downloaded + len
             /\ UNCHANGED <<downloading, Down!history>>
          \/ /\ Down!Finished(l, next.offset)
             /\ load' = [load EXCEPT ![d] = Down!Free]
             /\ Down!EndLoad(f, downloading, downloaded + len)
             /\ spoiled' = Down!Reported(f, copy)
             /\ UNCHANGED resumed
       /\ UNCHANGED running
  BY Zenon, <1>1, <1>3, <1>4, <1>6, <1>8, <1>9, <1>10 DEF Down!DownloadOnAnswer
<1>12. /\ next.offset = o + x /\ next.at = at + x /\ next.from = from /\ next.file = f
       /\ next.used /\ next \in Down!LoadRecord
  <2>1. o + x \in Nat /\ at + x \in Nat
    BY <1>6
  <2>2. l.used
    BY <1>1, <1>2 DEF Down!Used
  <2>3. next.offset = o + x /\ next.at = at + x /\ next.from = from /\ next.file = f
    BY <1>1, <1>2, <1>3, <1>9 DEF Down!LoadRecord
  <2>4. next.used = l.used /\ next.waits = l.waits
    BY <1>2, <1>9 DEF Down!LoadRecord
  <2>5. next \in Down!LoadRecord
    <3>1. l = [file |-> l.file, offset |-> l.offset, from |-> l.from, at |-> l.at,
               waits |-> l.waits, used |-> l.used]
      BY <1>2 DEF Down!LoadRecord
    <3>2. next = [file |-> l.file, offset |-> o + x, from |-> l.from, at |-> at + x,
                  waits |-> l.waits, used |-> l.used]
      BY <1>3, <1>9, <3>1
    <3>3. l.waits \in BOOLEAN /\ l.used \in BOOLEAN /\ l.file \in Files /\ l.from \in Nat
      BY <1>2 DEF Down!LoadRecord
    <3> QED
      BY Zenon, <2>1, <3>2, <3>3 DEF Down!LoadRecord
  <2> QED
    BY <2>2, <2>3, <2>4, <2>5
<1>13. Down!Finished(l, next.offset) <=> o + x = s
  BY <1>1, <1>3, <1>6, <1>12 DEF Down!Finished
<1>14. /\ Len(copy) = (IF n > at + x THEN n ELSE at + x) /\ Len(copy) \in 0..s
       /\ copy \in [1..Len(copy) -> 0..s] /\ copy \in Seq(Nat)
       /\ from = 0 /\ (\A i \in 1..n : disk[f][i] = i)
          => \A i \in 1..Len(copy) : copy[i] = i
  <2>1. disk[f] \in [1..n -> 0..s]
    BY <1>2, <1>3 DEF Down!IInv, Down!TypeOK
  <2>2. copy = Down!Written(disk[f], l.at, Down!Units(l, x))
    BY Zenon, <1>3, <1>8
  <2>3. /\ Size[l.file] = s /\ l.offset = l.from + l.at /\ l.at <= n /\ l.offset + x <= s
        /\ Len(disk[f]) = n
    BY <1>1, <1>3, <1>6
  <2>4. /\ Len(copy) = (IF n > l.at + x THEN n ELSE l.at + x) /\ Len(copy) \in 0..s
        /\ copy \in [1..Len(copy) -> 0..s] /\ copy \in Seq(Nat)
        /\ l.from = 0 /\ (\A i \in 1..n : disk[f][i] = i)
           => \A i \in 1..Len(copy) : copy[i] = i
    <3>1. n \in Nat /\ s \in Nat /\ n <= s /\ x \in Nat /\ l \in Down!LoadRecord
      BY <1>2, <1>3, <1>6
    <3>2. PICK old : old = disk[f]
      OBVIOUS
    <3>3. old \in [1..n -> 0..s] /\ Len(old) = n /\ copy =
          Down!Written(old, l.at, Down!Units(l, x))
      BY Zenon, <2>1, <2>2, <2>3, <3>2
    <3>4. l.from = 0 /\ (\A i \in 1..n : old[i] = i)
          => \A i \in 1..Len(copy) : copy[i] = i
      BY <2>3, <3>1, <3>3, WrittenFits
    <3>5. /\ Len(copy) = (IF n > l.at + x THEN n ELSE l.at + x) /\ Len(copy) \in 0..s
          /\ copy \in [1..Len(copy) -> 0..s] /\ copy \in Seq(Nat)
      BY <2>3, <3>1, <3>3, WrittenFits
    <3> QED
      BY Zenon, <3>2, <3>4, <3>5
  <2> QED
    BY Zenon, <1>3, <2>4
<1>15. PICK m \in Nat : m = Len(copy) /\ n <= m /\ at + x <= m /\ m <= s
       /\ (m = n \/ m = at + x)
  <2>1. at + x \in Nat /\ n \in Nat /\ s \in Nat
    BY <1>6
  <2>2. Len(copy) = (IF n > at + x THEN n ELSE at + x) /\ Len(copy) \in 0..s
    BY Zenon, <1>14
  <2> QED
    BY <2>1, <2>2
<1>16. /\ disk' \in [Files -> Seq(Nat)] /\ disk'[f] = copy
       /\ \A g \in Files \ {f} : disk'[g] = disk[g]
  BY <1>2, <1>11, <1>14 DEF Down!IInv, Down!LoadFits
<1>17. resumed' = resumed
  BY <1>11 DEF Down!history
<1>18. \A g \in Files : disk'[g] \in [1..Len(disk'[g]) -> 0..Size[g]]
       /\ Len(disk'[g]) \in 0..Size[g]
  <2>1. disk'[f] \in [1..Len(disk'[f]) -> 0..Size[f]] /\ Len(disk'[f]) \in 0..Size[f]
    BY Zenon, <1>3, <1>14, <1>16
  <2>2. \A g \in Files \ {f} : disk'[g] \in [1..Len(disk'[g]) -> 0..Size[g]]
        /\ Len(disk'[g]) \in 0..Size[g]
    BY Zenon, <1>16 DEF Down!IInv, Down!TypeOK
  <2> QED
    BY Zenon, <2>1, <2>2
<1>19. \A g \in Files : Down!Parts(Len(disk'[g])) \/ Down!Parts(Size[g] - Len(disk'[g]))
  <2>1. Down!Parts(n) \/ Down!Parts(s - n)
    BY Zenon, <1>2, <1>3 DEF Down!IInv, Down!AtParts
  <2>2. Down!Parts(m) \/ Down!Parts(s - m)
    BY Zenon, <1>6, <1>15, <2>1
  <2>3. Down!Parts(Len(disk'[f])) \/ Down!Parts(Size[f] - Len(disk'[f]))
    BY Zenon, <1>3, <1>15, <1>16, <2>2
  <2>4. \A g \in Files \ {f} : Down!Parts(Len(disk'[g]))
        \/ Down!Parts(Size[g] - Len(disk'[g]))
    BY Zenon, <1>16 DEF Down!IInv, Down!AtParts
  <2> QED
    BY Zenon, <2>3, <2>4
<1>20. \A g \in Files : Len(disk[g]) <= Len(disk'[g])
  <2>1. \A g \in Files : Len(disk[g]) \in Nat
    <3> TAKE g \in Files
    <3>1. Size[g] \in Nat /\ Len(disk[g]) \in 0..Size[g]
      BY StoredFits DEF Down!IInv, Down!TypeOK
    <3> QED
      BY <3>1
  <2>2. Len(disk[f]) <= Len(disk'[f])
    BY <1>3, <1>15, <1>16
  <2>3. \A g \in Files \ {f} : Len(disk[g]) <= Len(disk'[g])
    BY <1>16, <2>1
  <2> QED
    BY <2>2, <2>3
<1>21. \A g \in Files \ resumed : disk'[g] = [i \in 1..Len(disk'[g]) |-> i]
  <2>1. ASSUME f \notin resumed PROVE copy = [i \in 1..Len(copy) |-> i]
    <3>1. disk[f] = [i \in 1..n |-> i] /\ from = 0
      BY <1>1, <1>2, <1>3, <2>1 DEF Down!IInv, Down!CopyFits
    <3>2. \A i \in 1..Len(copy) : copy[i] = i
      BY <1>14, <3>1
    <3> QED
      BY <1>14, <3>2
  <2>2. \A g \in Files \ resumed : g # f => disk'[g] = [i \in 1..Len(disk'[g]) |-> i]
    BY <1>16 DEF Down!IInv, Down!CopyFits
  <2> QED
    BY <1>16, <2>1, <2>2
<1>22. Down!LoadFits'
  <2>1. CASE load' = [load EXCEPT ![d] = next]
    BY <1>12, <1>16, <2>1 DEF Down!IInv, Down!LoadFits
  <2>2. CASE load' = [load EXCEPT ![d] = Down!Free]
    BY <1>16, <2>2 DEF Down!IInv, Down!LoadFits
  <2> QED
    BY <1>11, <2>1, <2>2
<1>23. PICK a, b : a = [e \in Down!Used |-> Size[load[e].file]] /\ b =
                   [e \in Down!Used |-> load[e].offset]
  OBVIOUS
<1>24. PICK p, q : p = [e \in Down!Used' |-> Size[load'[e].file]] /\ q =
                   [e \in Down!Used' |-> load'[e].offset]
  OBVIOUS
<1>25. PICK D : D = Down!Used
  OBVIOUS
<1>26. /\ IsFiniteSet(D) /\ a \in [D -> Nat] /\ b \in [D -> Nat] /\ d \in D
       /\ downloading = Sum(a) /\ downloaded >= Sum(b) /\ (padded \/ downloaded = Sum(b))
       /\ downloading \in Nat /\ downloaded \in Nat /\ a[d] = s /\ b[d] = o
  <2>1. /\ IsFiniteSet(D) /\ a \in [D -> Nat] /\ b \in [D -> Nat]
    BY <1>23, <1>25, DownTotalsHaveKind
  <2>2. downloading = Sum(a) /\ downloaded >= Sum(b) /\ (padded \/ downloaded = Sum(b))
    BY <1>23, DownTotal DEF Down!IInv, Down!DownloadTotals
  <2>3. a[d] = s /\ b[d] = o /\ d \in D
    BY <1>1, <1>2, <1>3, <1>23, <1>25
  <2>4. downloading \in Nat /\ downloaded \in Nat
    BY DEF Down!IInv, Down!TypeOK
  <2> QED
    BY <2>1, <2>2, <2>3, <2>4
<1>27. Down!TypeOK /\ \A e \in D : load[e] = load[e] /\ e \in Loads
  BY <1>25 DEF Down!IInv, Down!Used
<1>28. {running', padded'} \subseteq BOOLEAN /\ running'
  BY Zenon, <1>11 DEF Down!EndLoad, Down!history, Down!IInv, Down!TypeOK, Down!LoadedRight
<1>29. CASE o + x < s
  <2>1. /\ load' = [load EXCEPT ![d] = next] /\ downloaded' = downloaded + x
        /\ UNCHANGED <<downloading, spoiled, padded>>
    BY <1>6, <1>11, <1>13, <1>29 DEF Down!history
  <2>2. load'[d] = next /\ \A e \in Loads \ {d} : load'[e] = load[e]
    BY <2>1 DEF Down!IInv, Down!LoadFits
  <2>3. Down!Used' = D
    BY <1>2, <1>12, <1>25, <2>2 DEF Down!Used
  <2>4. Down!TypeOK'
    <3>1. /\ next.file \in Files /\ next.offset \in 0..(Size[next.file] - 1)
          /\ next.at = next.offset - next.from
      <4>1. o + x \in 0..(s - 1) /\ at + x = (o + x) - from
        BY <1>3, <1>6, <1>29
      <4> QED
        BY Zenon, <1>2, <1>3, <1>12, <4>1
    <3>2. \A e \in Down!Used' :
            /\ load'[e].file \in Files /\ load'[e].offset \in 0..(Size[load'[e].file] - 1)
            /\ load'[e].at = load'[e].offset - load'[e].from
      BY Zenon, <1>25, <1>27, <2>2, <2>3, <3>1 DEF Down!TypeOK
    <3>3. downloading' \in Nat /\ downloaded' \in Nat
      BY <1>6, <1>26, <2>1
    <3> QED
      BY <1>17, <1>18, <1>27, <1>28, <2>1, <3>2, <3>3 DEF Down!TypeOK
  <2>5. Down!AtParts'
    <3>1. Down!Parts(next.at)
          /\ (Down!Parts(next.from) \/ Down!Parts(Size[next.file] - next.from))
      BY Zenon, <1>2, <1>3, <1>6, <1>12, <1>29
    <3>2. \A e \in Down!Used' : /\ Down!Parts(load'[e].at)
                                /\ Down!Parts(load'[e].from)
                                   \/ Down!Parts(Size[load'[e].file] - load'[e].from)
      BY Zenon, <1>25, <1>27, <2>2, <2>3, <3>1 DEF Down!IInv, Down!AtParts
    <3> QED
      BY Zenon, <1>19, <3>2 DEF Down!AtParts
  <2>6. Down!CopyFits'
    <3>1. \A e \in Down!Used' : load'[e].at <= Len(disk'[load'[e].file])
      <4>1. next.at <= Len(disk'[next.file])
        BY <1>12, <1>15, <1>16
      <4>2. ASSUME NEW e \in Down!Used \ {d}
                   PROVE load'[e].at <= Len(disk'[load'[e].file])
        <5>1. load'[e] = load[e] /\ load[e].file \in Files /\ load[e].at \in Nat
          BY <1>25, <1>27, <2>2, <4>2, UsedFits DEF Down!Used
        <5>2. load[e].at <= Len(disk[load[e].file])
          BY DEF Down!IInv, Down!CopyFits
        <5>3. Len(disk[load[e].file]) \in Nat /\ Len(disk'[load[e].file]) \in Nat
          BY <1>18, <5>1, StoredFits DEF Down!IInv, Down!TypeOK
        <5> QED
          BY <1>20, <5>1, <5>2, <5>3
      <4> QED
        BY <1>25, <2>2, <2>3, <4>1, <4>2
    <3>2. ASSUME NEW g \in Files \ resumed', NEW e \in Down!Used', load'[e].file = g
          PROVE  load'[e].from = 0
      <4>1. e \in Down!Used /\ g \in Files \ resumed
        BY <1>17, <1>25, <2>3
      <4>2. load'[e].file = load[e].file /\ load'[e].from = load[e].from
        <5>1. CASE e = d
          BY <1>1, <1>3, <1>12, <2>2, <5>1
        <5>2. CASE e # d
          BY <1>25, <1>27, <2>2, <4>1, <5>2
        <5> QED
          BY <5>1, <5>2
      <4> QED
        BY <3>2, <4>1, <4>2 DEF Down!IInv, Down!CopyFits
    <3> QED
      BY <1>17, <1>21, <3>1, <3>2 DEF Down!CopyFits
  <2>7. Down!LoadedRight'
    BY <1>17, <1>28, <2>1 DEF Down!IInv, Down!LoadedRight
  <2>8. Down!DownloadTotals'
    <3>1. /\ p \in [D -> Nat] /\ q \in [D -> Nat] /\ q[d] = o + x
          /\ p = a /\ \A e \in D \ {d} : q[e] = b[e]
      <4>1. p = [e \in D |-> Size[load'[e].file]] /\ q = [e \in D |-> load'[e].offset]
        BY <1>24, <2>3
      <4>2. \A e \in D \ {d} : q[e] = b[e]
        BY <1>23, <1>25, <1>27, <2>2, <4>1
      <4>3. q[d] = o + x /\ o + x \in Nat
        BY <1>6, <1>12, <1>26, <2>2, <4>1
      <4>4. \A e \in D : load'[e].file = load[e].file
        BY <1>1, <1>12, <1>27, <2>2
      <4>5. p = a
        BY <1>23, <1>25, <4>1, <4>4
      <4>6. q \in [D -> Nat]
        BY <1>26, <4>1, <4>2, <4>3
      <4> QED
        BY <1>26, <4>2, <4>3, <4>5, <4>6
    <3>2. Sum(q) = Sum(b) + q[d] - b[d]
      BY <1>26, <3>1, SumBut
    <3>3. Sum(b) \in Nat
      BY <1>26, PairsAreFinite
    <3>4. downloaded' >= Sum(q)
      BY <1>6, <1>26, <2>1, <3>1, <3>2, <3>3
    <3>5. ASSUME ~padded PROVE downloaded' = Sum(q)
      BY <1>6, <1>26, <2>1, <3>1, <3>2, <3>3, <3>5
    <3>6. downloading' = Sum(p)
      BY <1>26, <2>1, <3>1
    <3>7. padded' \/ downloaded' = Sum(q)
      BY Zenon, <2>1, <3>5
    <3> QED
      BY <1>24, <3>4, <3>6, <3>7, DownTotal DEF Down!DownloadTotals
  <2> QED
    BY <1>22, <2>4, <2>5, <2>6, <2>7, <2>8 DEF Down!IInv
<1>30. CASE o + x = s
  <2>1. /\ load' = [load EXCEPT ![d] = Down!Free] /\ spoiled' = Down!Reported(f, copy)
        /\ Down!EndLoad(f, downloading, downloaded + len)
    BY <1>11, <1>13, <1>30
  <2>2. load'[d] = Down!Free /\ \A e \in Loads \ {d} : load'[e] = load[e]
    BY <2>1 DEF Down!IInv, Down!LoadFits
  <2>3. Down!Used' = D \ {d}
    BY <1>25, <2>2 DEF Down!Used, Down!Free
  <2>4. \A e \in Down!Used' : load'[e] = load[e] /\ e \in Down!Used /\ e \in Loads
    BY <1>25, <1>27, <2>2, <2>3
  <2>5. spoiled' \subseteq resumed
    <3>1. CASE f \in resumed
      BY <2>1, <3>1 DEF Down!Reported, Down!IInv, Down!LoadedRight
    <3>2. CASE f \notin resumed
      <4>1. from = 0
        BY <1>1, <1>2, <1>3, <3>2 DEF Down!IInv, Down!CopyFits
      <4>2. m = s
        BY <1>3, <1>6, <1>15, <1>30, <4>1
      <4>3. copy = [i \in 1..Len(copy) |-> i]
        BY <1>2, <1>16, <1>21, <3>2
      <4>4. copy = Down!Whole(f)
        BY <1>3, <1>15, <4>2, <4>3 DEF Down!Whole
      <4> QED
        BY <2>1, <4>4 DEF Down!Reported, Down!IInv, Down!LoadedRight
    <3> QED
      BY <3>1, <3>2
  <2>6. Down!DownloadTotals' /\ downloading' \in Nat /\ downloaded' \in Nat
    <3>1. PICK E : E = D \ {d}
      OBVIOUS
    <3>2. /\ IsFiniteSet(E) /\ d \notin E /\ E \cup {d} = D
      BY <1>26, <3>1, FS_RemoveElement
    <3>3. /\ p = [e \in E |-> a[e]] /\ q = [e \in E |-> b[e]]
      <4>1. p = [e \in E |-> Size[load'[e].file]] /\ q = [e \in E |-> load'[e].offset]
        BY <1>24, <2>3, <3>1
      <4>2. \A e \in E : load'[e] = load[e] /\ e \in Down!Used
        BY <2>3, <2>4, <3>1
      <4> QED
        BY <1>23, <4>1, <4>2
    <3>4. /\ p \in [E -> Nat] /\ q \in [E -> Nat]
          /\ (\A e \in E : a[e] = p[e]) /\ (\A e \in E : b[e] = q[e])
          /\ a \in [E \cup {d} -> Nat] /\ b \in [E \cup {d} -> Nat]
      BY <1>26, <3>1, <3>2, <3>3
    <3>5. Sum(a) = Sum(p) + a[d]
      BY <3>2, <3>4, SumWith
    <3>6. Sum(b) = Sum(q) + b[d]
      BY <3>2, <3>4, SumWith
    <3>7. Sum(p) \in Nat /\ Sum(q) \in Nat
      BY <3>2, <3>4, PairsAreFinite
    <3>8. downloading' = downloading - s /\ downloaded' = (downloaded + len) - s
      <4>1. downloading' = downloading - Size[f] /\ downloaded' =
            (downloaded + len) - Size[f]
        <5>1. PICK y : y = downloaded + len
          OBVIOUS
        <5>2. Down!EndLoad(f, downloading, y)
          BY Zenon, <2>1, <5>1
        <5>3. downloading' = downloading - Size[f] /\ downloaded' = y - Size[f]
          BY SMT, <5>2 DEF Down!EndLoad
        <5> QED
          BY Zenon, <5>1, <5>3
      <4> QED
        BY Zenon, <1>3, <4>1
    <3>9. downloading' = Sum(p) /\ downloading' \in Nat
      BY <1>26, <3>5, <3>7, <3>8
    <3>10. downloaded' >= Sum(q) /\ downloaded' \in Nat
      BY <1>6, <1>26, <1>30, <3>6, <3>7, <3>8
    <3>11. ASSUME ~padded' PROVE downloaded' = Sum(q)
      <4>1. ~padded /\ f \notin Encrypted
        BY Zenon, <2>1, <3>11 DEF Down!EndLoad
      <4>2. downloaded = Sum(b) /\ len = x
        BY Zenon, <1>7, <1>26, <4>1
      <4> QED
        BY <1>6, <1>26, <1>30, <3>6, <3>7, <3>8, <4>2
    <3>12. padded' \/ downloaded' = Sum(q)
      BY Zenon, <3>11
    <3> QED
      BY <1>24, <3>9, <3>10, <3>12, DownTotal DEF Down!DownloadTotals
  <2>7. Down!TypeOK'
    <3>1. \A e \in Down!Used' :
            /\ load'[e].file \in Files /\ load'[e].offset \in 0..(Size[load'[e].file] - 1)
            /\ load'[e].at = load'[e].offset - load'[e].from
      BY Zenon, <1>27, <2>4 DEF Down!TypeOK
    <3>2. spoiled' \subseteq Files
      BY <1>27, <2>5 DEF Down!TypeOK
    <3> QED
      BY <1>17, <1>18, <1>27, <1>28, <2>6, <3>1, <3>2 DEF Down!TypeOK
  <2>8. Down!AtParts'
    <3>1. \A e \in Down!Used' : /\ Down!Parts(load'[e].at)
                                /\ Down!Parts(load'[e].from)
                                   \/ Down!Parts(Size[load'[e].file] - load'[e].from)
      BY Zenon, <2>4 DEF Down!IInv, Down!AtParts
    <3> QED
      BY Zenon, <1>19, <3>1 DEF Down!AtParts
  <2>9. Down!CopyFits'
    <3>1. \A e \in Down!Used' : load'[e].at <= Len(disk'[load'[e].file])
      <4>1. ASSUME NEW e \in Down!Used' PROVE load'[e].at <= Len(disk'[load'[e].file])
        <5>1. load'[e] = load[e] /\ load[e].file \in Files /\ load[e].at \in Nat
              /\ e \in Down!Used
          BY <2>4, UsedFits DEF Down!Used
        <5>2. load[e].at <= Len(disk[load[e].file])
          BY <5>1 DEF Down!IInv, Down!CopyFits
        <5>3. Len(disk[load[e].file]) \in Nat /\ Len(disk'[load[e].file]) \in Nat
          BY <1>18, <5>1, StoredFits DEF Down!IInv, Down!TypeOK
        <5> QED
          BY <1>20, <5>1, <5>2, <5>3
      <4> QED
        BY <4>1
    <3>2. ASSUME NEW g \in Files \ resumed', NEW e \in Down!Used', load'[e].file = g
          PROVE  load'[e].from = 0
      BY <1>17, <2>4, <3>2 DEF Down!IInv, Down!CopyFits
    <3> QED
      BY <1>17, <1>21, <3>1, <3>2 DEF Down!CopyFits
  <2>10. Down!LoadedRight'
    BY <1>17, <1>28, <2>5 DEF Down!LoadedRight
  <2> QED
    BY <1>22, <2>6, <2>7, <2>8, <2>9, <2>10 DEF Down!IInv
<1>31. o + x < s \/ o + x = s
  BY <1>3, <1>6
<1> QED
  BY <1>29, <1>30, <1>31

\* A part that was asked for has come.
LEMMA PartAnsweredKeeps ==
  ASSUME Down!DownloadsAssumption, Down!IInv, Down!PartAnswered
  PROVE  Down!IInv'
  BY AnswerKeeps DEF Down!PartAnswered

\* The invariant of the downloads holds at first.
LEMMA DownloadsInit ==
  ASSUME Down!DownloadsAssumption, Down!Init
  PROVE  Down!IInv
<1>1. Down!Used = {} /\ load \in [Loads -> {Down!Free} \cup Down!LoadRecord]
      /\ \A d \in Loads : load[d] = Down!Free
  BY DEF Down!Init, Down!Used, Down!Free
<1>2. \A f \in Files : disk[f] = <<>> /\ Len(disk[f]) = 0 /\ 0 \in 0..Size[f]
  BY DEF Down!Init, Down!DownloadsAssumption
<1>3. Down!TypeOK
  <2>1. \A f \in Files : disk[f] \in [1..Len(disk[f]) -> 0..Size[f]]
    <3>1. 1..0 = {}
      OBVIOUS
    <3>2. \A f \in Files : <<>> \in [{} -> 0..Size[f]]
      OBVIOUS
    <3> QED
      BY Zenon, <1>2, <3>1, <3>2
  <2>2. {running, padded} \subseteq BOOLEAN
    BY DEF Down!Init
  <2> QED
    BY <1>1, <1>2, <2>1, <2>2 DEF Down!Init, Down!TypeOK, Down!DownloadsAssumption
<1>4. Down!LoadFits
  BY <1>1 DEF Down!Init, Down!LoadFits
<1>5. Down!AtParts
  <2>1. Down!Parts(0)
    <3>1. 0 = 0 * Part
      BY DEF Down!DownloadsAssumption
    <3> QED
      BY <3>1 DEF Down!Parts
  <2> QED
    BY <1>1, <1>2, <2>1 DEF Down!AtParts
<1>6. Down!CopyFits
  BY <1>1, <1>2 DEF Down!CopyFits
<1>7. Down!LoadedRight
  BY DEF Down!Init, Down!LoadedRight
<1>8. Down!DownloadTotals
  <2>1. PICK m, p : /\ m = [d \in Down!Used |-> Size[load[d].file]]
                    /\ p = [d \in Down!Used |-> load[d].offset]
    OBVIOUS
  <2>2. Down!Total(m) = 0 /\ Down!Total(p) = 0
    BY <1>1, <2>1, DownTotal, SumOfNothing
  <2> QED
    BY <2>1, <2>2 DEF Down!Init, Down!DownloadTotals
<1> QED
  BY <1>3, <1>4, <1>5, <1>6, <1>7, <1>8 DEF Down!IInv

\* Each step of the downloads keeps their invariant.
LEMMA DownloadsNext ==
  ASSUME Down!DownloadsAssumption, Down!IInv, [Down!Next]_(Down!download_vars)
  PROVE  Down!IInv'
<1>1. CASE UNCHANGED Down!download_vars
  <2>1. /\ UNCHANGED <<load, disk, downloading, downloaded, running, resumed, padded>>
        /\ UNCHANGED <<spoiled, loads, partRefusals, ends>> /\ Down!Used' = Down!Used
    BY <1>1 DEF Down!download_vars, Down!Used
  <2>2. /\ load' \in [Loads -> {Down!Free} \cup Down!LoadRecord]
        /\ \A d \in Loads : load'[d] # Down!Free => load'[d].used
    BY <2>1 DEF Down!IInv, Down!LoadFits
  <2>3. loads' \in 0..MaxLoads /\ partRefusals' \in 0..MaxRefusals
        /\ ends' \in 0..MaxCrashes
    BY <2>1 DEF Down!IInv, Down!TypeOK
  <2>4. spoiled' \subseteq resumed
    BY <2>1 DEF Down!IInv, Down!LoadedRight
  <2>5. \A d \in Down!Used : /\ load'[d].file = load[d].file /\ load'[d].offset =
                                load[d].offset
                             /\ load'[d].from = load[d].from /\ load'[d].at = load[d].at
    BY <2>1
  <2> QED
    BY <2>1, <2>2, <2>3, <2>4, <2>5, SamePlaces
<1> QED
  BY <1>1, DoLoadKeeps, PartAnsweredKeeps, PartRefusedKeeps, DownloadCrashKeeps
     DEF Down!Next

\* The invariant of the downloads implies their properties.
LEMMA DownloadsGoals ==
  ASSUME Down!IInv
  PROVE  Down!TypeOK /\ Down!LoadedRight /\ Down!DownloadTotals
  BY DEF Down!IInv

-----------------------------------------------------------------------------
\* The index of messages

\* Ids are numbers, of which Absent is none; a message has two.
LEMMA IdsOfMessages ==
  ASSUME Index!MessagesAssumption
  PROVE  /\ \A m \in Messages : m \in Nat \ {0} /\ m \in Index!Ids /\ -m \in Index!Ids
                                /\ m # -m /\ m # Index!Absent /\ m # Index!Blank
         /\ \A m, n \in Messages : -m # n /\ (-m = -n => m = n)
         /\ Index!Absent \notin Index!Ids /\ Index!Absent # Index!Blank
         /\ \A i \in Index!Ids : \E m \in Messages : i \in {m, -m}
  BY DEF Index!MessagesAssumption, Index!Ids, Index!Absent, Index!Blank

\* What the index is made of.
LEMMA IndexTypes ==
  ASSUME Index!IInv
  PROVE  /\ date \in [Messages -> Dates] /\ media \in [Messages -> Media \cup {NoMedia}]
         /\ stage \in [Messages -> {"unknown", "fetched", "pending", "announced", "sent"}]
         /\ messages \in [Index!Ids -> Index!Announced \cup {Index!Absent, Index!Blank}]
         /\ messageDates \in [Dates -> Index!Ids \cup {Index!Absent}]
            /\ lists \subseteq Index!Ids
         /\ usersMessages \in [Index!User -> [Dates -> Index!Ids \cup {Index!Absent}]]
         /\ messageMedias \in [Media -> Index!Ids \cup {Index!Absent}]
            /\ fileOf \subseteq Index!Ids
         /\ clashed \in BOOLEAN /\ early \subseteq Messages
         /\ Index!Announced \subseteq Messages
  BY DEF Index!IInv, Index!TypeOK, Index!Announced

\* Entered changes each hash at one place.
LEMMA EnteredHashes ==
  ASSUME NEW id, NEW m, Index!Becomes(Index!Entered(Index!Index, id, m))
  PROVE  /\ messages' = [messages EXCEPT ![id] = m]
         /\ messageDates' = [messageDates EXCEPT ![date[m]] = id]
         /\ usersMessages' = [usersMessages EXCEPT ![Index!From(m)] =
                                [usersMessages[Index!From(m)] EXCEPT ![date[m]] = id]]
         /\ lists' = lists \cup {id}
         /\ messageMedias' = IF media[m] = NoMedia THEN messageMedias
                             ELSE [messageMedias EXCEPT ![media[m]] = id]
         /\ fileOf' = fileOf
  BY DEF Index!Becomes, Index!Entered, Index!Index

\* A message that is not in the index is entered under one of its ids.
LEMMA EnterKeeps ==
  ASSUME Index!MessagesAssumption, Index!IInv, NEW m \in Messages, NEW id \in {m, -m},
         messages[id] = Index!Absent, Index!Becomes(Index!Entered(Index!Index, id, m)),
         UNCHANGED <<date, media, early>>, clashed' = Index!Clash(m),
         stage' \in [Messages -> {"unknown", "fetched", "pending", "announced", "sent"}],
         \A n \in Messages : stage'[n] \in {"pending", "sent"} => n \in Mine,
         \A n \in Messages \ {m} : stage'[n] = stage[n],
         m \in Index!Announced', Index!IdOf(m)' = id, m \in Index!Announced
         => Index!IdOf(m) = id
  PROVE  Index!IInv'
<1>1. /\ messages' = [messages EXCEPT ![id] = m]
      /\ messageDates' = [messageDates EXCEPT ![date[m]] = id]
      /\ usersMessages' = [usersMessages EXCEPT ![Index!From(m)] =
                             [usersMessages[Index!From(m)] EXCEPT ![date[m]] = id]]
      /\ lists' = lists \cup {id}
      /\ messageMedias' = IF media[m] = NoMedia THEN messageMedias
                          ELSE [messageMedias EXCEPT ![media[m]] = id]
      /\ fileOf' = fileOf
  BY EnteredHashes
<1>2. /\ date \in [Messages -> Dates] /\ media \in [Messages -> Media \cup {NoMedia}]
      /\ messages \in [Index!Ids -> Index!Announced \cup {Index!Absent, Index!Blank}]
      /\ messageDates \in [Dates -> Index!Ids \cup {Index!Absent}]
         /\ lists \subseteq Index!Ids
      /\ usersMessages \in [Index!User -> [Dates -> Index!Ids \cup {Index!Absent}]]
      /\ messageMedias \in [Media -> Index!Ids \cup {Index!Absent}]
         /\ fileOf \subseteq Index!Ids
      /\ clashed \in BOOLEAN /\ early \subseteq Messages
         /\ Index!Announced \subseteq Messages
  BY IndexTypes
<1>3. /\ \A n \in Messages : n \in Nat \ {0} /\ n \in Index!Ids /\ -n \in Index!Ids
                                /\ n # -n /\ n # Index!Absent /\ n # Index!Blank
      /\ \A n, k \in Messages : -n # k /\ (-n = -k => n = k)
      /\ Index!Absent \notin Index!Ids /\ Index!Absent # Index!Blank
      /\ \A i \in Index!Ids : \E n \in Messages : i \in {n, -n}
  BY IdsOfMessages
<1>4. id \in Index!Ids /\ Index!From(m) \in Index!User /\ date[m] \in Dates
      /\ id # Index!Absent
  BY <1>2, <1>3 DEF Index!From, Index!User
<1>5. /\ messages'[id] = m /\ \A i \in Index!Ids \ {id} : messages'[i] = messages[i]
      /\ messageDates'[date[m]] = id
      /\ \A t \in Dates \ {date[m]} : messageDates'[t] = messageDates[t]
      /\ usersMessages'[Index!From(m)][date[m]] = id
      /\ \A u \in Index!User, t \in Dates \ {date[m]} : usersMessages'[u][t] =
         usersMessages[u][t]
      /\ media[m] # NoMedia => media[m] \in Media /\ messageMedias'[media[m]] = id
      /\ \A v \in Media \ {media[m]} : messageMedias'[v] = messageMedias[v]
      /\ media[m] = NoMedia => messageMedias' = messageMedias
  BY <1>1, <1>2, <1>4
<1>6. Index!Announced' = Index!Announced \cup {m}
  BY DEF Index!Announced
<1>7. \A n \in Index!Announced \ {m} : Index!IdOf(n)' = Index!IdOf(n) /\ n \in Messages
  BY <1>2 DEF Index!IdOf
<1>8. Index!TypeOK'
  <2>1. messages' \in [Index!Ids -> Index!Announced \cup {m, Index!Absent, Index!Blank}]
    BY <1>1, <1>2, <1>4
  <2>2. messageDates' \in [Dates -> Index!Ids \cup {Index!Absent}]
        /\ lists' \subseteq Index!Ids
    BY <1>1, <1>2, <1>4
  <2>3. usersMessages' \in [Index!User -> [Dates -> Index!Ids \cup {Index!Absent}]]
    BY <1>1, <1>2, <1>4
  <2>4. messageMedias' \in [Media -> Index!Ids \cup {Index!Absent}]
    BY <1>1, <1>2, <1>4
  <2>5. clashed' \in BOOLEAN
    BY <1>2 DEF Index!Clash
  <2> QED
    BY <1>1, <1>2, <1>6, <2>1, <2>2, <2>3, <2>4, <2>5 DEF Index!TypeOK
<1>9. Index!DatesFit'
  <2> SUFFICES ASSUME NEW t \in Dates, messageDates'[t] # Index!Absent
               PROVE  messages'[messageDates'[t]] \in Messages
                      /\ date[messages'[messageDates'[t]]] = t
    BY DEF Index!DatesFit
  <2>1. CASE t = date[m]
    BY <1>5, <2>1
  <2>2. CASE t # date[m]
    <3>1. messageDates'[t] = messageDates[t] /\ messageDates[t] \in Index!Ids
      BY <1>2, <1>5, <2>2
    <3>2. messages[messageDates[t]] \in Messages /\ date[messages[messageDates[t]]] = t
      BY <3>1 DEF Index!IInv, Index!DatesFit
    <3>3. messageDates[t] # id
      BY <1>3, <3>2
    <3> QED
      BY <1>5, <3>1, <3>2, <3>3
  <2> QED
    BY <2>1, <2>2
<1>10. Index!SameSecond'
  <2> SUFFICES ASSUME NEW n \in Messages, NEW i \in {n, -n}, messages'[i] \in Messages
               PROVE  date[messages'[i]] = date[n]
    BY DEF Index!SameSecond
  <2>1. CASE i = id
    <3>1. n = m
      BY <1>3, <2>1
    <3> QED
      BY <1>5, <2>1, <3>1
  <2>2. CASE i # id
    <3>1. i \in Index!Ids
      BY <1>3
    <3> QED
      BY <1>5, <2>2, <3>1 DEF Index!IInv, Index!SameSecond
  <2> QED
    BY <2>1, <2>2
<1>11. Index!ListsFit'
  BY <1>1, <1>2, <1>3, <1>5 DEF Index!IInv, Index!ListsFit, Index!Known
<1>12. ~clashed' => ~clashed /\ \A n \in Index!Announced \ {m} : date[n] # date[m]
  BY DEF Index!Clash
<1>13. Index!Apart'
  BY <1>6, <1>12 DEF Index!IInv, Index!Apart
<1>14. Index!MediasFit'
  <2> SUFFICES ASSUME ~clashed', NEW v \in Media, messageMedias'[v] # Index!Absent
               PROVE  messages'[messageMedias'[v]] \in Messages
                      /\ media[messages'[messageMedias'[v]]] = v
    BY DEF Index!MediasFit
  <2>1. CASE v = media[m] /\ media[m] # NoMedia
    BY <1>5, <2>1
  <2>2. CASE ~(v = media[m] /\ media[m] # NoMedia)
    <3>1. messageMedias'[v] = messageMedias[v] /\ messageMedias[v] \in Index!Ids
      BY <1>2, <1>5, <2>2
    <3>2. messages[messageMedias[v]] \in Messages /\ media[messages[messageMedias[v]]] = v
      BY <1>12, <3>1 DEF Index!IInv, Index!MediasFit
    <3>3. messageMedias[v] # id
      BY <1>3, <3>2
    <3> QED
      BY <1>5, <3>1, <3>2, <3>3
  <2> QED
    BY <2>1, <2>2
<1>15. ASSUME ~clashed', early' = {}
       PROVE  /\ \A n \in Index!Announced : messageDates[date[n]] = Index!IdOf(n)
                 /\ messages[Index!IdOf(n)] = n
                                        /\ usersMessages[Index!From(n)][date[n]] =
                                           Index!IdOf(n)
              /\ \A i \in Index!Ids : messages[i] # Index!Absent
                 => \E n \in Index!Announced : i = Index!IdOf(n)
              /\ lists = {Index!IdOf(n) : n \in Index!Announced}
              /\ \A n \in Index!Announced \ {m} : date[n] # date[m]
  BY <1>12, <1>15 DEF Index!IInv, Index!Placed, Index!EachUnderItsId
<1>16. Index!Placed'
  <2> SUFFICES ASSUME ~clashed', early' = {}
               PROVE  /\ \A n \in Index!Announced' : messageDates'[date[n]] =
                         Index!IdOf(n)'
                      /\ \A i \in Index!Ids : messages'[i] # Index!Absent
                         => \E n \in Index!Announced' : i = Index!IdOf(n)'
    BY DEF Index!Placed
  <2>1. ASSUME NEW n \in Index!Announced' PROVE messageDates'[date[n]] = Index!IdOf(n)'
    <3>1. CASE n = m
      BY <1>5, <3>1
    <3>2. CASE n # m
      <4>1. n \in Index!Announced \ {m} /\ date[n] \in Dates \ {date[m]}
        BY <1>2, <1>6, <1>15, <2>1, <3>2
      <4> QED
        BY <1>5, <1>7, <1>15, <4>1
    <3> QED
      BY <3>1, <3>2
  <2>2. ASSUME NEW i \in Index!Ids, messages'[i] # Index!Absent
        PROVE \E n \in Index!Announced' : i = Index!IdOf(n)'
    <3>1. CASE i = id
      BY <3>1
    <3>2. CASE i # id
      <4>1. PICK n \in Index!Announced : i = Index!IdOf(n)
        BY <1>5, <1>15, <2>2, <3>2
      <4>2. n # m
        BY <3>2, <4>1
      <4> QED
        BY <1>6, <1>7, <4>1, <4>2
    <3> QED
      BY <3>1, <3>2
  <2> QED
    BY <2>1, <2>2
<1>17. Index!EachUnderItsId'
  <2> SUFFICES ASSUME ~clashed', early' = {}
               PROVE  /\ lists' = {Index!IdOf(n)' : n \in Index!Announced'}
                      /\ \A n \in Index!Announced' : messages'[Index!IdOf(n)'] = n
                           /\ usersMessages'[Index!From(n)][date[n]] = Index!IdOf(n)'
    BY DEF Index!EachUnderItsId
  <2>1. lists' = {Index!IdOf(n)' : n \in Index!Announced'}
    <3>1. ASSUME NEW i \in lists' PROVE \E n \in Index!Announced' : i = Index!IdOf(n)'
      <4>1. CASE i = id
        BY <4>1
      <4>2. CASE i # id
        <5>1. PICK n \in Index!Announced : i = Index!IdOf(n)
          BY <1>1, <1>15, <3>1, <4>2
        <5>2. n # m
          BY <4>2, <5>1
        <5> QED
          BY <1>6, <1>7, <5>1, <5>2
      <4> QED
        BY <4>1, <4>2
    <3>2. ASSUME NEW n \in Index!Announced' PROVE Index!IdOf(n)' \in lists'
      <4>1. CASE n = m
        BY <1>1, <4>1
      <4>2. CASE n # m
        <5>1. n \in Index!Announced \ {m} /\ Index!IdOf(n) \in lists
          BY <1>6, <1>15, <3>2, <4>2
        <5> QED
          BY <1>1, <1>7, <5>1
      <4> QED
        BY <4>1, <4>2
    <3> QED
      BY <3>1, <3>2
  <2>2. ASSUME NEW n \in Index!Announced'
        PROVE  messages'[Index!IdOf(n)'] = n
               /\ usersMessages'[Index!From(n)][date[n]] = Index!IdOf(n)'
    <3>1. CASE n = m
      BY <1>5, <3>1
    <3>2. CASE n # m
      <4>1. n \in Index!Announced \ {m} /\ date[n] \in Dates \ {date[m]}
            /\ Index!From(n) \in Index!User
        BY <1>2, <1>6, <1>15, <2>2, <3>2 DEF Index!From, Index!User
      <4>2. Index!IdOf(n)' = Index!IdOf(n) /\ messages[Index!IdOf(n)] = n
            /\ Index!IdOf(n) \in Index!Ids
        BY <1>3, <1>7, <1>15, <4>1 DEF Index!IdOf
      <4>3. Index!IdOf(n) # id
        BY <1>2, <1>3, <4>1, <4>2
      <4> QED
        BY <1>5, <1>15, <4>1, <4>2, <4>3
    <3> QED
      BY <3>1, <3>2
  <2> QED
    BY <2>1, <2>2
<1> QED
  BY <1>8, <1>9, <1>10, <1>11, <1>13, <1>14, <1>16, <1>17 DEF Index!IInv

\* A step that leaves the index as it is.
LEMMA SkipKeeps ==
  ASSUME Index!MessagesAssumption, Index!IInv, UNCHANGED <<date, media, Index!index>>,
         stage' \in [Messages -> {"unknown", "fetched", "pending", "announced", "sent"}],
         \A n \in Messages : stage'[n] \in {"pending", "sent"} => n \in Mine,
         Index!Announced \subseteq Index!Announced', early \subseteq early',
         early' \subseteq Messages,
         clashed' \in BOOLEAN, clashed => clashed', Index!Apart',
         ~clashed' /\ early' = {} =>
           Index!Announced' = Index!Announced
           /\ \A n \in Index!Announced : Index!IdOf(n)' = Index!IdOf(n)
  PROVE  Index!IInv'
<1>1. UNCHANGED <<messages, messageDates, usersMessages, lists, messageMedias, fileOf>>
  BY DEF Index!index
<1>2. Index!TypeOK'
  <2>1. messages' \in [Index!Ids -> Index!Announced' \cup {Index!Absent, Index!Blank}]
    BY <1>1, IndexTypes
  <2> QED
    BY <1>1, <2>1 DEF Index!IInv, Index!TypeOK
<1>3. Index!DatesFit' /\ Index!SameSecond' /\ Index!ListsFit' /\ Index!MediasFit'
  BY <1>1 DEF Index!IInv, Index!DatesFit, Index!SameSecond, Index!ListsFit,
     Index!MediasFit, Index!Known
<1>4. Index!Placed'
  BY <1>1 DEF Index!IInv, Index!Placed
<1>5. Index!EachUnderItsId'
  <2> SUFFICES ASSUME ~clashed', early' = {}
               PROVE  /\ lists' = {Index!IdOf(n)' : n \in Index!Announced'}
                      /\ \A n \in Index!Announced' : messages'[Index!IdOf(n)'] = n
                           /\ usersMessages'[Index!From(n)][date'[n]] = Index!IdOf(n)'
    BY DEF Index!EachUnderItsId
  <2>1. Index!Announced' = Index!Announced
        /\ \A n \in Index!Announced : Index!IdOf(n)' = Index!IdOf(n)
    OBVIOUS
  <2>2. ~clashed /\ early = {}
    OBVIOUS
  <2>3. /\ lists = {Index!IdOf(n) : n \in Index!Announced}
        /\ \A n \in Index!Announced : messages[Index!IdOf(n)] = n
                                 /\ usersMessages[Index!From(n)][date[n]] = Index!IdOf(n)
    BY <2>2 DEF Index!IInv, Index!EachUnderItsId
  <2> QED
    BY <1>1, <2>1, <2>3
<1> QED
  BY <1>2, <1>3, <1>4, <1>5 DEF Index!IInv

\* A message that operator[] makes disturbs none that are there.
LEMMA BlankKeeps ==
  ASSUME Index!MessagesAssumption, Index!IInv, NEW id \in Index!Ids, messages[id] =
         Index!Absent,
         messages' = [messages EXCEPT ![id] = Index!Blank], fileOf' \subseteq Index!Ids,
         UNCHANGED <<date, media, stage, messageDates, usersMessages, lists,
                     messageMedias,
                     clashed>>,
         early \subseteq early', early' \subseteq Messages, clashed \/ early' # {}
  PROVE  Index!IInv'
<1>1. /\ messages \in [Index!Ids -> Index!Announced \cup {Index!Absent, Index!Blank}]
      /\ messageDates \in [Dates -> Index!Ids \cup {Index!Absent}]
         /\ lists \subseteq Index!Ids
      /\ messageMedias \in [Media -> Index!Ids \cup {Index!Absent}]
  BY IndexTypes
<1>2. /\ \A n \in Messages : n \in Index!Ids /\ -n \in Index!Ids /\ n # Index!Absent
         /\ n # Index!Blank
      /\ Index!Absent \notin Index!Ids /\ Index!Absent # Index!Blank
  BY IdsOfMessages
<1>3. messages'[id] = Index!Blank /\ \A i \in Index!Ids \ {id} : messages'[i] =
      messages[i]
  BY <1>1
<1>4. Index!Announced' = Index!Announced
  BY DEF Index!Announced
<1>5. Index!TypeOK'
  <2>1. messages' \in [Index!Ids -> Index!Announced \cup {Index!Absent, Index!Blank}]
    BY <1>1
  <2> QED
    BY <1>4, <2>1 DEF Index!IInv, Index!TypeOK
<1>6. Index!DatesFit'
  <2> SUFFICES ASSUME NEW t \in Dates, messageDates[t] # Index!Absent
               PROVE  messages'[messageDates[t]] \in Messages
                      /\ date[messages'[messageDates[t]]] = t
    BY DEF Index!DatesFit
  <2>1. messages[messageDates[t]] \in Messages /\ date[messages[messageDates[t]]] = t
    BY DEF Index!IInv, Index!DatesFit
  <2> QED
    BY <1>1, <1>2, <1>3, <2>1
<1>7. Index!SameSecond'
  <2> SUFFICES ASSUME NEW n \in Messages, NEW i \in {n, -n}, messages'[i] \in Messages
               PROVE  date[messages'[i]] = date[n]
    BY DEF Index!SameSecond
  <2> QED
    BY <1>2, <1>3 DEF Index!IInv, Index!SameSecond
<1>8. Index!ListsFit'
  BY <1>1, <1>2, <1>3 DEF Index!IInv, Index!ListsFit, Index!Known
<1>9. Index!Apart'
  BY <1>4 DEF Index!IInv, Index!Apart
<1>10. Index!MediasFit'
  <2> SUFFICES ASSUME ~clashed, NEW v \in Media, messageMedias[v] # Index!Absent
               PROVE  messages'[messageMedias[v]] \in Messages
                      /\ media[messages'[messageMedias[v]]] = v
    BY DEF Index!MediasFit
  <2>1. messages[messageMedias[v]] \in Messages /\ media[messages[messageMedias[v]]] = v
    BY DEF Index!IInv, Index!MediasFit
  <2> QED
    BY <1>1, <1>2, <1>3, <2>1
<1>11. Index!Placed' /\ Index!EachUnderItsId'
  BY DEF Index!Placed, Index!EachUnderItsId
<1> QED
  BY <1>5, <1>6, <1>7, <1>8, <1>9, <1>10, <1>11 DEF Index!IInv

\* The message that is last under the date of m moves to the id of m: it is
\* one of that second, so that dates and ids stay together (_msgSent).
LEMMA MoveKeeps ==
  ASSUME Index!MessagesAssumption, Index!IInv, NEW m \in Messages,
         messageDates[date[m]] \notin {Index!Absent, m},
         Index!Becomes(Index!MsgSent(Index!Index, m, date[m])),
         UNCHANGED <<date, media, clashed>>, early' \subseteq Messages,
         stage' \in [Messages -> {"unknown", "fetched", "pending", "announced", "sent"}],
         \A n \in Messages : stage'[n] \in {"pending", "sent"} => n \in Mine,
         Index!Announced' = Index!Announced
  PROVE  /\ Index!TypeOK' /\ Index!DatesFit' /\ Index!SameSecond' /\ Index!ListsFit'
            /\ Index!Apart' /\ Index!MediasFit'
         /\ messages'[m] = messages[messageDates[date[m]]]
         /\ messages'[messageDates[date[m]]] = Index!Absent
         /\ \A i \in Index!Ids \ {m, messageDates[date[m]]} : messages'[i] = messages[i]
         /\ lists' = (lists \cup {m}) \ {messageDates[date[m]]}
         /\ messageDates' = [messageDates EXCEPT ![date[m]] = m]
         /\ usersMessages' =
            [usersMessages EXCEPT ![Index!From(messages[messageDates[date[m]]])] =
                [usersMessages[Index!From(messages[messageDates[date[m]]])] EXCEPT ![date[m]] = m]]
<1> DEFINE mid == messageDates[date[m]]
           c == messages[mid]
<1>1. /\ date \in [Messages -> Dates] /\ media \in [Messages -> Media \cup {NoMedia}]
      /\ messages \in [Index!Ids -> Index!Announced \cup {Index!Absent, Index!Blank}]
      /\ messageDates \in [Dates -> Index!Ids \cup {Index!Absent}]
         /\ lists \subseteq Index!Ids
      /\ usersMessages \in [Index!User -> [Dates -> Index!Ids \cup {Index!Absent}]]
      /\ messageMedias \in [Media -> Index!Ids \cup {Index!Absent}]
         /\ fileOf \subseteq Index!Ids
      /\ clashed \in BOOLEAN /\ early \subseteq Messages
         /\ Index!Announced \subseteq Messages
  BY IndexTypes
<1>2. /\ \A n \in Messages : n \in Nat \ {0} /\ n \in Index!Ids /\ -n \in Index!Ids
                                /\ n # -n /\ n # Index!Absent /\ n # Index!Blank
      /\ \A n, k \in Messages : -n # k /\ (-n = -k => n = k)
      /\ Index!Absent \notin Index!Ids /\ Index!Absent # Index!Blank
      /\ \A i \in Index!Ids : \E n \in Messages : i \in {n, -n}
  BY IdsOfMessages
<1>3. date[m] \in Dates /\ mid \in Index!Ids /\ mid # m /\ m \in Index!Ids
      /\ m # Index!Absent
  BY <1>1, <1>2
<1>4. c \in Messages /\ date[c] = date[m] /\ c \in Index!Announced /\ c # Index!Absent
  <2>1. c \in Messages /\ date[c] = date[m]
    BY <1>3 DEF Index!IInv, Index!DatesFit
  <2> QED
    BY <1>1, <1>2, <1>3, <2>1
<1>5. /\ messages' = [[messages EXCEPT ![m] = c] EXCEPT ![mid] = Index!Absent]
      /\ messageDates' = [messageDates EXCEPT ![date[c]] = m]
      /\ usersMessages' = [usersMessages EXCEPT ![Index!From(c)] =
                             [usersMessages[Index!From(c)] EXCEPT ![date[c]] = m]]
      /\ lists' = (lists \cup {m}) \ {mid}
      /\ messageMedias' = IF media[c] = NoMedia THEN messageMedias
                          ELSE [messageMedias EXCEPT ![media[c]] = m]
      /\ fileOf' = fileOf \ {mid}
  BY <1>3 DEF Index!Becomes, Index!MsgSent, Index!Entered, Index!Index
<1> HIDE DEF mid, c
<1>6. Index!From(c) \in Index!User
  BY DEF Index!From, Index!User
<1>7. /\ messages'[m] = c /\ messages'[mid] = Index!Absent
      /\ \A i \in Index!Ids \ {m, mid} : messages'[i] = messages[i]
      /\ messageDates'[date[m]] = m
      /\ \A t \in Dates \ {date[m]} : messageDates'[t] = messageDates[t]
      /\ media[c] # NoMedia => media[c] \in Media /\ messageMedias'[media[c]] = m
      /\ \A v \in Media \ {media[c]} : messageMedias'[v] = messageMedias[v]
      /\ media[c] = NoMedia => messageMedias' = messageMedias
  BY <1>1, <1>3, <1>4, <1>5
<1>8. Index!TypeOK'
  <2>1. messages' \in [Index!Ids -> Index!Announced \cup {Index!Absent, Index!Blank}]
    BY <1>1, <1>3, <1>4, <1>5
  <2>2. messageDates' \in [Dates -> Index!Ids \cup {Index!Absent}]
        /\ lists' \subseteq Index!Ids
        /\ fileOf' \subseteq Index!Ids
    BY <1>1, <1>3, <1>4, <1>5
  <2>3. usersMessages' \in [Index!User -> [Dates -> Index!Ids \cup {Index!Absent}]]
    BY <1>1, <1>3, <1>4, <1>5, <1>6
  <2>4. messageMedias' \in [Media -> Index!Ids \cup {Index!Absent}]
    BY <1>1, <1>3, <1>5
  <2> QED
    BY <1>1, <2>1, <2>2, <2>3, <2>4 DEF Index!TypeOK
<1>9. Index!DatesFit'
  <2> SUFFICES ASSUME NEW t \in Dates, messageDates'[t] # Index!Absent
               PROVE  messages'[messageDates'[t]] \in Messages
                      /\ date[messages'[messageDates'[t]]] = t
    BY DEF Index!DatesFit
  <2>1. CASE t = date[m]
    BY <1>4, <1>7, <2>1
  <2>2. CASE t # date[m]
    <3>1. messageDates'[t] = messageDates[t] /\ messageDates[t] \in Index!Ids
      BY <1>1, <1>7, <2>2
    <3>2. messages[messageDates[t]] \in Messages /\ date[messages[messageDates[t]]] = t
      BY <3>1 DEF Index!IInv, Index!DatesFit
    <3>3. messageDates[t] # mid
      BY <1>4, <2>2, <3>2 DEF c
    <3>4. messageDates[t] # m
      BY <2>2, <3>2 DEF Index!IInv, Index!SameSecond
    <3> QED
      BY <1>7, <3>1, <3>2, <3>3, <3>4
  <2> QED
    BY <2>1, <2>2
<1>10. Index!SameSecond'
  <2> SUFFICES ASSUME NEW n \in Messages, NEW i \in {n, -n}, messages'[i] \in Messages
               PROVE  date[messages'[i]] = date[n]
    BY DEF Index!SameSecond
  <2>1. CASE i = m
    <3>1. n = m
      BY <1>2, <2>1
    <3> QED
      BY <1>4, <1>7, <2>1, <3>1
  <2>2. CASE i # m
    <3>1. i \in Index!Ids \ {m, mid}
      BY <1>2, <1>7, <2>2
    <3> QED
      BY <1>7, <3>1 DEF Index!IInv, Index!SameSecond
  <2> QED
    BY <2>1, <2>2
<1>11. Index!ListsFit'
  <2> SUFFICES ASSUME NEW i \in lists' PROVE messages'[i] # Index!Absent
    BY DEF Index!ListsFit, Index!Known
  <2>1. CASE i = m
    BY <1>4, <1>7, <2>1
  <2>2. CASE i # m
    <3>1. i \in lists /\ i \in Index!Ids \ {m, mid}
      BY <1>1, <1>5, <2>2
    <3> QED
      BY <1>7, <3>1 DEF Index!IInv, Index!ListsFit, Index!Known
  <2> QED
    BY <2>1, <2>2
<1>12. Index!Apart'
  BY DEF Index!IInv, Index!Apart
<1>13. Index!MediasFit'
  <2> SUFFICES ASSUME ~clashed, NEW v \in Media, messageMedias'[v] # Index!Absent
               PROVE  messages'[messageMedias'[v]] \in Messages
                      /\ media[messages'[messageMedias'[v]]] = v
    BY DEF Index!MediasFit
  <2>1. CASE v = media[c] /\ media[c] # NoMedia
    BY <1>4, <1>7, <2>1
  <2>2. CASE ~(v = media[c] /\ media[c] # NoMedia)
    <3>1. messageMedias'[v] = messageMedias[v] /\ messageMedias[v] \in Index!Ids
          /\ v # media[c]
      <4>1. v # media[c]
        <5>1. CASE media[c] # NoMedia
          BY <2>2, <5>1
        <5>2. CASE media[c] = NoMedia
          BY <5>2 DEF Index!MessagesAssumption
        <5> QED
          BY <5>1, <5>2
      <4> QED
        BY <1>1, <1>7, <4>1
    <3>2. messages[messageMedias[v]] \in Messages /\ media[messages[messageMedias[v]]] = v
      BY <3>1 DEF Index!IInv, Index!MediasFit
    <3>3. messageMedias[v] # mid
      BY <3>1, <3>2 DEF c
    <3>4. messageMedias[v] # m
      <4>1. SUFFICES ASSUME messageMedias[v] = m PROVE FALSE
        OBVIOUS
      <4> DEFINE k == messages[m]
      <4>2. k \in Messages /\ media[k] = v /\ k \in Index!Announced
        BY <1>1, <1>2, <1>3, <3>2, <4>1
      <4>3. date[k] = date[m]
        BY <4>2 DEF Index!IInv, Index!SameSecond
      <4>4. k = c
        BY <1>4, <4>2, <4>3 DEF Index!IInv, Index!Apart
      <4> QED
        BY <3>1, <4>2, <4>4
    <3> QED
      BY <1>7, <3>1, <3>2, <3>3, <3>4
  <2> QED
    BY <2>1, <2>2
<1>14. messageDates' = [messageDates EXCEPT ![date[m]] = m]
       /\ usersMessages' = [usersMessages EXCEPT ![Index!From(c)] =
                             [usersMessages[Index!From(c)] EXCEPT ![date[m]] = m]]
  BY <1>4, <1>5
<1> QED
  BY <1>5, <1>7, <1>8, <1>9, <1>10, <1>11, <1>12, <1>13, <1>14 DEF mid, c

\* The invariant of the index of messages holds at first.
LEMMA IndexInit ==
  ASSUME Index!MessagesAssumption, Index!Init
  PROVE  Index!IInv
<1>1. Index!Announced = {}
  BY DEF Index!Init, Index!Announced
<1>2. Index!TypeOK
  BY DEF Index!Init, Index!TypeOK, Index!Absent
<1>3. \A n \in Messages : n \in Index!Ids /\ -n \in Index!Ids
      /\ Index!Absent \notin Messages
  BY IdsOfMessages
<1>4. \A i \in Index!Ids : messages[i] = Index!Absent
  BY DEF Index!Init
<1>5. Index!SameSecond
  BY <1>3, <1>4 DEF Index!SameSecond
<1>6. Index!DatesFit /\ Index!ListsFit /\ Index!MediasFit
  BY DEF Index!Init, Index!DatesFit, Index!ListsFit, Index!MediasFit
<1>7. Index!Apart /\ Index!Placed
  BY <1>1, <1>4 DEF Index!Apart, Index!Placed
<1>8. Index!EachUnderItsId
  BY <1>1 DEF Index!Init, Index!EachUnderItsId
<1> QED
  BY <1>2, <1>5, <1>6, <1>7, <1>8 DEF Index!IInv

\* A message is sent: it is entered under the id made up for it.
LEMMA SendKeeps ==
  ASSUME Index!MessagesAssumption, Index!IInv, Index!Send
  PROVE  Index!IInv'
<1>1. PICK m \in Mine :
        /\ stage[m] = "unknown" /\ stage' = [stage EXCEPT ![m] = "pending"]
        /\ Index!Becomes(Index!IncomingMsg(Index!Index, -m, m)) /\ clashed' =
           Index!Clash(m)
        /\ UNCHANGED <<date, media, early>>
  BY DEF Index!Send
<1>2. m \in Messages
  BY DEF Index!MessagesAssumption
<1>3. /\ stage \in [Messages -> {"unknown", "fetched", "pending", "announced", "sent"}]
      /\ clashed \in BOOLEAN /\ early \subseteq Messages
  BY IndexTypes
<1>4. stage'[m] = "pending" /\ \A n \in Messages \ {m} : stage'[n] = stage[n]
  BY <1>1, <1>2, <1>3
<1>5. /\ stage' \in [Messages -> {"unknown", "fetched", "pending", "announced", "sent"}]
      /\ \A n \in Messages : stage'[n] \in {"pending", "sent"} => n \in Mine
  BY <1>1, <1>2, <1>3, <1>4 DEF Index!IInv, Index!TypeOK
<1>6. /\ m \in Index!Announced' /\ m \notin Index!Announced /\ Index!IdOf(m)' = -m
      /\ Index!Announced' = Index!Announced \cup {m}
      /\ \A n \in Index!Announced : Index!IdOf(n)' = Index!IdOf(n)
  BY <1>1, <1>2, <1>4 DEF Index!Announced, Index!IdOf
<1>7. CASE messages[-m] = Index!Absent
  <2>1. Index!Becomes(Index!Entered(Index!Index, -m, m))
    BY <1>1, <1>7 DEF Index!IncomingMsg, Index!Index
  <2> QED
    BY <1>1, <1>2, <1>4, <1>5, <1>6, <1>7, <2>1, EnterKeeps
<1>8. CASE messages[-m] # Index!Absent
  <2>1. UNCHANGED Index!index
    BY <1>1, <1>8 DEF Index!IncomingMsg, Index!Index, Index!Becomes, Index!index
  <2>2. clashed' \in BOOLEAN /\ (clashed => clashed')
    BY <1>1, <1>3 DEF Index!Clash
  <2>3. Index!Apart'
    BY <1>1, <1>6 DEF Index!IInv, Index!Apart, Index!Clash
  <2>4. ~(~clashed' /\ early' = {})
    <3>1. SUFFICES ASSUME ~clashed', early' = {} PROVE FALSE
      OBVIOUS
    <3>2. -m \in Index!Ids
      BY <1>2, IdsOfMessages
    <3>3. PICK n \in Index!Announced : -m = Index!IdOf(n)
      BY <1>1, <1>8, <2>2, <3>1, <3>2 DEF Index!IInv, Index!Placed
    <3>4. n \in Messages
      BY DEF Index!Announced
    <3>5. n = m
      BY <1>2, <3>3, <3>4, IdsOfMessages DEF Index!IdOf
    <3> QED
      BY <1>6, <3>5
  <2> QED
    BY <1>1, <1>3, <1>5, <1>6, <2>1, <2>2, <2>3, <2>4, SkipKeeps
<1> QED
  BY <1>7, <1>8

\* A message is announced, once and again.
LEMMA AnnounceKeeps ==
  ASSUME Index!MessagesAssumption, Index!IInv, Index!Announce
  PROVE  Index!IInv'
<1>1. PICK m \in Messages :
        /\ stage[m] \in {"unknown", "fetched", "announced", "sent"}
        /\ stage' = [stage EXCEPT ![m] = IF @ = "sent" THEN @ ELSE "announced"]
        /\ Index!Becomes(Index!IncomingMsg(Index!Index, m, m)) /\ clashed' =
           Index!Clash(m)
        /\ UNCHANGED <<date, media, early>>
  BY DEF Index!Announce
<1>3. /\ stage \in [Messages -> {"unknown", "fetched", "pending", "announced", "sent"}]
      /\ clashed \in BOOLEAN /\ early \subseteq Messages
  BY IndexTypes
<1>4. /\ stage'[m] = IF stage[m] = "sent" THEN "sent" ELSE "announced"
      /\ \A n \in Messages \ {m} : stage'[n] = stage[n]
  BY <1>1, <1>3
<1>5. /\ stage' \in [Messages -> {"unknown", "fetched", "pending", "announced", "sent"}]
      /\ \A n \in Messages : stage'[n] \in {"pending", "sent"} => n \in Mine
  <2>1. stage'[m] \in {"announced", "sent"} /\ (stage'[m] = "sent" => m \in Mine)
    BY <1>4 DEF Index!IInv, Index!TypeOK
  <2>2. stage' \in [Messages -> {"unknown", "fetched", "pending", "announced", "sent"}]
    BY <1>1, <1>3
  <2>3. \A n \in Messages : stage[n] \in {"pending", "sent"} => n \in Mine
    BY DEF Index!IInv, Index!TypeOK
  <2> QED
    BY <1>4, <2>1, <2>2, <2>3
<1>6. /\ m \in Index!Announced' /\ Index!IdOf(m)' = m
         /\ (m \in Index!Announced => Index!IdOf(m) = m)
      /\ Index!Announced' = Index!Announced \cup {m}
      /\ \A n \in Index!Announced : Index!IdOf(n)' = Index!IdOf(n)
  <2>1. m \in Index!Announced' /\ Index!IdOf(m)' = m /\ Index!IdOf(m) = m
    BY <1>1, <1>4 DEF Index!Announced, Index!IdOf
  <2>2. Index!Announced' = Index!Announced \cup {m}
    BY <1>4, <2>1 DEF Index!Announced
  <2>3. ASSUME NEW n \in Index!Announced PROVE Index!IdOf(n)' = Index!IdOf(n)
    BY <1>4, <2>1 DEF Index!Announced, Index!IdOf
  <2> QED
    BY <2>1, <2>2, <2>3
<1>7. CASE messages[m] = Index!Absent
  <2>1. Index!Becomes(Index!Entered(Index!Index, m, m))
    BY <1>1, <1>7 DEF Index!IncomingMsg, Index!Index
  <2> QED
    BY <1>1, <1>4, <1>5, <1>6, <1>7, <2>1, EnterKeeps
<1>8. CASE messages[m] # Index!Absent
  <2>1. UNCHANGED Index!index
    BY <1>1, <1>8 DEF Index!IncomingMsg, Index!Index, Index!Becomes, Index!index
  <2>2. clashed' \in BOOLEAN /\ (clashed => clashed')
    BY <1>1, <1>3 DEF Index!Clash
  <2>3. Index!Apart'
    BY <1>1, <1>6 DEF Index!IInv, Index!Apart, Index!Clash
  <2>4. ~clashed' /\ early' = {} => Index!Announced' = Index!Announced
    <3>1. SUFFICES ASSUME ~clashed', early' = {} PROVE Index!Announced' = Index!Announced
      OBVIOUS
    <3>2. m \in Index!Ids
      BY IdsOfMessages
    <3>3. PICK n \in Index!Announced : m = Index!IdOf(n)
      BY <1>1, <1>8, <2>2, <3>1, <3>2 DEF Index!IInv, Index!Placed
    <3>4. n \in Messages
      BY DEF Index!Announced
    <3>5. n = m
      BY <3>3, <3>4, IdsOfMessages DEF Index!IdOf
    <3> QED
      BY <1>6, <3>5
  <2> QED
    BY <1>1, <1>3, <1>5, <1>6, <2>1, <2>2, <2>3, <2>4, SkipKeeps
<1> QED
  BY <1>7, <1>8

\* A message was sent: the one that is last under its date moves, which is
\* the message itself as long as no two share a second.
LEMMA SentKeeps ==
  ASSUME Index!MessagesAssumption, Index!IInv, Index!Sent
  PROVE  Index!IInv'
<1>1. PICK m \in Mine :
        /\ stage[m] = "pending" /\ stage' = [stage EXCEPT ![m] = "sent"]
        /\ Index!Becomes(Index!MsgSent(Index!Index, m, date[m]))
        /\ UNCHANGED <<date, media, clashed, early>>
  BY DEF Index!Sent
<1>2. m \in Messages
  BY DEF Index!MessagesAssumption
<1>3. /\ stage \in [Messages -> {"unknown", "fetched", "pending", "announced", "sent"}]
      /\ clashed \in BOOLEAN /\ early \subseteq Messages /\ date \in [Messages -> Dates]
      /\ usersMessages \in [Index!User -> [Dates -> Index!Ids \cup {Index!Absent}]]
      /\ messageDates \in [Dates -> Index!Ids \cup {Index!Absent}]
  BY IndexTypes
<1>4. stage'[m] = "sent" /\ \A n \in Messages \ {m} : stage'[n] = stage[n]
  BY <1>1, <1>2, <1>3
<1>5. /\ stage' \in [Messages -> {"unknown", "fetched", "pending", "announced", "sent"}]
      /\ \A n \in Messages : stage'[n] \in {"pending", "sent"} => n \in Mine
  BY <1>1, <1>2, <1>3, <1>4 DEF Index!IInv, Index!TypeOK
<1>6. /\ m \in Index!Announced /\ Index!IdOf(m) = -m /\ Index!IdOf(m)' = m
         /\ Index!Announced' = Index!Announced
      /\ \A n \in Index!Announced \ {m} : Index!IdOf(n)' = Index!IdOf(n) /\ n \in Messages
  BY <1>1, <1>2, <1>4 DEF Index!Announced, Index!IdOf
<1>7. ASSUME ~clashed, early = {}
      PROVE  /\ messageDates[date[m]] = -m /\ messages[-m] = m
             /\ \A n \in Index!Announced : date[n] = date[m] => n = m
             /\ \A n \in Index!Announced : messages[Index!IdOf(n)] = n
                    /\ messageDates[date[n]] = Index!IdOf(n)
                    /\ usersMessages[Index!From(n)][date[n]] = Index!IdOf(n)
             /\ lists = {Index!IdOf(n) : n \in Index!Announced}
             /\ \A i \in Index!Ids : messages[i] # Index!Absent
                => \E n \in Index!Announced : i = Index!IdOf(n)
  BY <1>6, <1>7 DEF Index!IInv, Index!Placed, Index!EachUnderItsId, Index!Apart
<1>8. CASE messageDates[date[m]] \in {Index!Absent, m}
  <2>1. UNCHANGED Index!index
    BY <1>1, <1>8 DEF Index!MsgSent, Index!Index, Index!Becomes, Index!index
  <2>2. Index!Apart'
    BY <1>1, <1>6 DEF Index!IInv, Index!Apart
  <2>3. ~(~clashed /\ early = {})
    <3>1. -m # m /\ -m \in Index!Ids /\ Index!Absent \notin Index!Ids
      BY <1>2, IdsOfMessages
    <3> QED
      BY <1>7, <1>8, <3>1
  <2> QED
    BY <1>1, <1>3, <1>5, <1>6, <2>1, <2>2, <2>3, SkipKeeps
<1>9. CASE messageDates[date[m]] \notin {Index!Absent, m}
  <2>1. /\ Index!TypeOK' /\ Index!DatesFit' /\ Index!SameSecond' /\ Index!ListsFit'
           /\ Index!Apart' /\ Index!MediasFit'
        /\ messages'[m] = messages[messageDates[date[m]]]
        /\ messages'[messageDates[date[m]]] = Index!Absent
        /\ \A i \in Index!Ids \ {m, messageDates[date[m]]} : messages'[i] = messages[i]
        /\ lists' = (lists \cup {m}) \ {messageDates[date[m]]}
        /\ messageDates' = [messageDates EXCEPT ![date[m]] = m]
        /\ usersMessages' =
           [usersMessages EXCEPT ![Index!From(messages[messageDates[date[m]]])] =
              [usersMessages[Index!From(messages[messageDates[date[m]]])] EXCEPT ![date[m]] = m]]
    BY <1>1, <1>2, <1>3, <1>5, <1>6, <1>9, MoveKeeps
  <2>2. ASSUME ~clashed, early = {}
        PROVE  /\ messages'[m] = m /\ messages'[-m] = Index!Absent
               /\ \A i \in Index!Ids \ {m, -m} : messages'[i] = messages[i]
               /\ lists' = (lists \cup {m}) \ {-m}
               /\ messageDates' = [messageDates EXCEPT ![date[m]] = m]
               /\ usersMessages' = [usersMessages EXCEPT ![Index!From(m)] =
                                      [usersMessages[Index!From(m)] EXCEPT ![date[m]] = m]]
    BY <1>7, <2>1, <2>2
  <2>3. ASSUME ~clashed, early = {}
        PROVE  /\ messageDates'[date[m]] = m /\ usersMessages'[Index!From(m)][date[m]] = m
               /\ \A n \in Index!Announced \ {m} : messageDates'[date[n]] =
                  messageDates[date[n]]
                    /\ usersMessages'[Index!From(n)][date[n]] =
                       usersMessages[Index!From(n)][date[n]]
    <3>1. date[m] \in Dates /\ Index!From(m) \in Index!User
      BY <1>2, <1>3 DEF Index!From, Index!User
    <3>2. \A n \in Index!Announced \ {m} : date[n] \in Dates \ {date[m]}
          /\ Index!From(n) \in Index!User
      BY <1>3, <1>6, <1>7, <2>3 DEF Index!From, Index!User
    <3>3. messageDates'[date[m]] = m /\ usersMessages'[Index!From(m)][date[m]] = m
      BY <1>3, <2>2, <2>3, <3>1
    <3>4. ASSUME NEW n \in Index!Announced \ {m}
          PROVE  /\ messageDates'[date[n]] = messageDates[date[n]]
                 /\ usersMessages'[Index!From(n)][date[n]] =
                    usersMessages[Index!From(n)][date[n]]
      BY <1>3, <2>2, <2>3, <3>1, <3>2
    <3> QED
      BY <3>3, <3>4
  <2>4. ASSUME ~clashed, early = {}, NEW n \in Index!Announced \ {m}
        PROVE  Index!IdOf(n) \in Index!Ids \ {m, -m}
    BY <1>2, <1>6, IdsOfMessages DEF Index!IdOf
  <2>5. m \in Index!Ids /\ -m \in Index!Ids /\ m # -m
    BY <1>2, IdsOfMessages
  <2>6. Index!Placed'
    <3> SUFFICES ASSUME ~clashed, early = {}
                 PROVE  /\ \A n \in Index!Announced : messageDates'[date[n]] =
                           Index!IdOf(n)'
                        /\ \A i \in Index!Ids : messages'[i] # Index!Absent
                           => \E n \in Index!Announced : i = Index!IdOf(n)'
      BY <1>1, <1>6 DEF Index!Placed
    <3>1. \A n \in Index!Announced : messageDates'[date[n]] = Index!IdOf(n)'
      BY <1>6, <1>7, <2>3
    <3>2. ASSUME NEW i \in Index!Ids, messages'[i] # Index!Absent
          PROVE  \E n \in Index!Announced : i = Index!IdOf(n)'
      <4>1. CASE i = m
        BY <1>6, <4>1
      <4>2. CASE i # m
        <5>1. i \in Index!Ids \ {m, -m} /\ messages[i] # Index!Absent
          BY <2>2, <3>2, <4>2
        <5>2. PICK n \in Index!Announced : i = Index!IdOf(n)
          BY <1>7, <5>1
        <5> QED
          BY <1>6, <5>1, <5>2
      <4> QED
        BY <4>1, <4>2
    <3> QED
      BY <3>1, <3>2
  <2>7. Index!EachUnderItsId'
    <3> SUFFICES ASSUME ~clashed, early = {}
                 PROVE  /\ lists' = {Index!IdOf(n)' : n \in Index!Announced}
                        /\ \A n \in Index!Announced : messages'[Index!IdOf(n)'] = n
                              /\ usersMessages'[Index!From(n)][date[n]] = Index!IdOf(n)'
      BY <1>1, <1>6 DEF Index!EachUnderItsId
    <3>1. ASSUME NEW n \in Index!Announced
          PROVE  messages'[Index!IdOf(n)'] = n
                 /\ usersMessages'[Index!From(n)][date[n]] = Index!IdOf(n)'
      <4>1. CASE n = m
        BY <1>6, <2>2, <2>3, <4>1
      <4>2. CASE n # m
        BY <1>6, <1>7, <2>2, <2>3, <2>4, <4>2
      <4> QED
        BY <4>1, <4>2
    <3>2. ASSUME NEW i \in lists' PROVE \E n \in Index!Announced : i = Index!IdOf(n)'
      <4>1. CASE i = m
        BY <1>6, <4>1
      <4>2. CASE i # m
        <5>1. i \in lists /\ i # -m
          BY <2>2, <3>2, <4>2
        <5>2. PICK n \in Index!Announced : i = Index!IdOf(n)
          BY <1>7, <5>1
        <5> QED
          BY <1>6, <5>1, <5>2
      <4> QED
        BY <4>1, <4>2
    <3>3. ASSUME NEW n \in Index!Announced PROVE Index!IdOf(n)' \in lists'
      <4>1. CASE n = m
        BY <1>6, <2>2, <2>5, <4>1
      <4>2. CASE n # m
        BY <1>6, <1>7, <2>2, <2>4, <4>2
      <4> QED
        BY <4>1, <4>2
    <3> QED
      BY <3>1, <3>2, <3>3
  <2> QED
    BY <2>1, <2>6, <2>7 DEF Index!IInv
<1> QED
  BY <1>8, <1>9

\* A message is told as read: one that was announced is where it belongs,
\* another is noted as early.
LEMMA ReadKeeps ==
  ASSUME Index!MessagesAssumption, Index!IInv, Index!Read
  PROVE  Index!IInv'
<1>1. PICK m \in Messages :
        /\ stage[m] \in {"fetched", "announced", "sent"}
        /\ Index!Becomes(Index!MsgMarkedAsRead(Index!Index, m, date[m]))
        /\ early' = IF stage[m] = "fetched" THEN early \cup {m} ELSE early
        /\ UNCHANGED <<date, media, stage, clashed>>
  BY DEF Index!Read
<1>2. m \in Index!Ids /\ m # Index!Absent /\ Index!Absent \notin Index!Ids
  BY IdsOfMessages
<1>3. /\ messages \in [Index!Ids -> Index!Announced \cup {Index!Absent, Index!Blank}]
      /\ messageDates \in [Dates -> Index!Ids \cup {Index!Absent}]
         /\ date \in [Messages -> Dates]
      /\ early \subseteq Messages /\ fileOf \subseteq Index!Ids
      /\ stage \in [Messages -> {"unknown", "fetched", "pending", "announced", "sent"}]
      /\ clashed \in BOOLEAN /\ Index!Announced \subseteq Messages
  BY IndexTypes
<1>4. /\ early \subseteq early' /\ early' \subseteq Messages /\ Index!Announced' =
         Index!Announced
      /\ \A n \in Messages : Index!IdOf(n)' = Index!IdOf(n)
      /\ \A n \in Messages : stage'[n] \in {"pending", "sent"} => n \in Mine
      /\ stage' \in [Messages -> {"unknown", "fetched", "pending", "announced", "sent"}]
  BY <1>1, <1>3 DEF Index!Announced, Index!IdOf, Index!IInv, Index!TypeOK
<1>5. ASSUME ~clashed, early' = {}
      PROVE  messageDates[date[m]] = m /\ messages[m] = m
  <2>1. stage[m] \in {"announced", "sent"} /\ early = {}
    BY <1>1, <1>5
  <2>2. m \in Index!Announced /\ Index!IdOf(m) = m
    BY <2>1 DEF Index!Announced, Index!IdOf
  <2> QED
    BY <1>5, <2>1, <2>2 DEF Index!IInv, Index!Placed, Index!EachUnderItsId
<1>6. CASE messageDates[date[m]] \in {Index!Absent, m}
  <2>1. /\ messages' =
           [messages EXCEPT ![m] = IF @ = Index!Absent THEN Index!Blank ELSE @]
        /\ UNCHANGED <<messageDates, usersMessages, lists, messageMedias, fileOf>>
    BY <1>1, <1>6 DEF Index!MsgMarkedAsRead, Index!MsgSent, Index!Index, Index!Becomes
  <2>2. CASE messages[m] = Index!Absent
    <3>1. messages' = [messages EXCEPT ![m] = Index!Blank]
      BY <1>2, <1>3, <2>1, <2>2
    <3>2. clashed \/ early' # {}
      BY <1>2, <1>5, <2>2
    <3> QED
      BY <1>1, <1>2, <1>3, <1>4, <2>1, <2>2, <3>1, <3>2, BlankKeeps
  <2>3. CASE messages[m] # Index!Absent
    <3>1. messages' = messages
      BY <1>2, <1>3, <2>1, <2>3
    <3>2. UNCHANGED Index!index /\ Index!Apart'
      BY <1>1, <1>4, <2>1, <3>1 DEF Index!index, Index!IInv, Index!Apart
    <3>3. \A n \in Index!Announced : Index!IdOf(n)' = Index!IdOf(n)
      BY <1>3, <1>4
    <3> QED
      BY <1>1, <1>3, <1>4, <3>2, <3>3, SkipKeeps
  <2> QED
    BY <2>2, <2>3
<1>7. CASE messageDates[date[m]] \notin {Index!Absent, m}
  <2>1. messages[messageDates[date[m]]] # Index!Absent
    <3>1. messages[messageDates[date[m]]] \in Messages
      BY <1>3, <1>7 DEF Index!IInv, Index!DatesFit
    <3> QED
      BY <3>1, IdsOfMessages
  <2>2. Index!Becomes(Index!MsgSent(Index!Index, m, date[m]))
    <3> DEFINE y == Index!MsgSent(Index!Index, m, date[m])
    <3>1. y.messages \in [Index!Ids -> Index!Announced \cup {Index!Absent, Index!Blank}]
          /\ y.messages[m] = messages[messageDates[date[m]]]
      <4>1. y.messages = [[messages EXCEPT ![m] = messages[messageDates[date[m]]]]
                            EXCEPT ![messageDates[date[m]]] = Index!Absent]
        BY <1>7 DEF Index!MsgSent, Index!Entered, Index!Index
      <4>2. messageDates[date[m]] \in Index!Ids
        BY <1>3, <1>7
      <4> QED
        BY <1>2, <1>3, <1>7, <4>1, <4>2
    <3>2. [y.messages EXCEPT ![m] = IF @ = Index!Absent THEN Index!Blank ELSE @] =
          y.messages
      BY <1>2, <2>1, <3>1
    <3>3. y = [messages |-> y.messages, dates |-> y.dates, users |-> y.users,
               lists |-> y.lists, medias |-> y.medias, files |-> y.files]
      BY <1>7 DEF Index!MsgSent, Index!Entered, Index!Index
    <3>4. /\ Index!MsgMarkedAsRead(Index!Index, m, date[m]).messages =
                [y.messages EXCEPT ![m] = IF @ = Index!Absent THEN Index!Blank ELSE @]
          /\ Index!MsgMarkedAsRead(Index!Index, m, date[m]).dates = y.dates
          /\ Index!MsgMarkedAsRead(Index!Index, m, date[m]).users = y.users
          /\ Index!MsgMarkedAsRead(Index!Index, m, date[m]).lists = y.lists
          /\ Index!MsgMarkedAsRead(Index!Index, m, date[m]).medias = y.medias
          /\ Index!MsgMarkedAsRead(Index!Index, m, date[m]).files = y.files
      <4> HIDE DEF y
      <4>1. Index!MsgMarkedAsRead(Index!Index, m, date[m]) =
              [y EXCEPT !.messages[m] = IF @ = Index!Absent THEN Index!Blank ELSE @]
        BY DEF Index!MsgMarkedAsRead, y
      <4> QED
        BY <3>3, <4>1
    <3> QED
      BY <1>1, <3>2, <3>4 DEF Index!Becomes
  <2>3. clashed \/ early' # {}
    BY <1>5, <1>7
  <2>4. Index!TypeOK' /\ Index!DatesFit' /\ Index!SameSecond' /\ Index!ListsFit'
        /\ Index!Apart' /\ Index!MediasFit'
    BY <1>1, <1>4, <1>7, <2>2, MoveKeeps
  <2>5. Index!Placed' /\ Index!EachUnderItsId'
    BY <1>1, <2>3 DEF Index!Placed, Index!EachUnderItsId
  <2> QED
    BY <2>4, <2>5 DEF Index!IInv
<1> QED
  BY <1>6, <1>7

\* A file was loaded: its message is there unless messages clashed.
LEMMA LoadedKeeps ==
  ASSUME Index!MessagesAssumption, Index!IInv, Index!Loaded
  PROVE  Index!IInv'
<1>1. PICK v \in Media :
        /\ Index!Becomes(Index!FileLoaded(Index!Index, v))
        /\ UNCHANGED <<date, media, stage, clashed, early>>
  BY DEF Index!Loaded
<1> DEFINE id == messageMedias[v]
<1>2. /\ messages \in [Index!Ids -> Index!Announced \cup {Index!Absent, Index!Blank}]
      /\ messageMedias \in [Media -> Index!Ids \cup {Index!Absent}]
      /\ early \subseteq Messages /\ fileOf \subseteq Index!Ids /\ clashed \in BOOLEAN
      /\ stage \in [Messages -> {"unknown", "fetched", "pending", "announced", "sent"}]
      /\ Index!Announced \subseteq Messages
  BY IndexTypes
<1>3. Index!Announced' = Index!Announced /\ \A n \in Messages : Index!IdOf(n)' =
      Index!IdOf(n)
  BY <1>1 DEF Index!Announced, Index!IdOf
<1>4. \A n \in Messages : stage[n] \in {"pending", "sent"} => n \in Mine
  BY DEF Index!IInv, Index!TypeOK
<1>5. CASE id = Index!Absent
  <2>1. UNCHANGED Index!index
    BY <1>1, <1>5 DEF Index!FileLoaded, Index!Index, Index!Becomes, Index!index
  <2>2. Index!Apart'
    BY <1>1, <1>3 DEF Index!IInv, Index!Apart
  <2>3. \A n \in Index!Announced : Index!IdOf(n)' = Index!IdOf(n)
    BY <1>2, <1>3
  <2> QED
    BY <1>1, <1>2, <1>3, <1>4, <2>1, <2>2, <2>3, SkipKeeps
<1>6. CASE id # Index!Absent
  <2>1. /\ messages' =
           [messages EXCEPT ![id] = IF @ = Index!Absent THEN Index!Blank ELSE @]
        /\ fileOf' = fileOf \cup {id}
        /\ UNCHANGED <<messageDates, usersMessages, lists, messageMedias>>
    BY <1>1, <1>6 DEF Index!FileLoaded, Index!Index, Index!Becomes
  <2>2. id \in Index!Ids
    BY <1>2, <1>6
  <2> HIDE DEF id
  <2>3. CASE messages[id] = Index!Absent
    <3>1. messages' = [messages EXCEPT ![id] = Index!Blank]
      BY <1>2, <2>1, <2>2, <2>3
    <3>2. clashed
      <4>1. SUFFICES ASSUME ~clashed PROVE FALSE
        OBVIOUS
      <4>2. messages[id] \in Messages
        BY <1>6, <4>1 DEF Index!IInv, Index!MediasFit, id
      <4> QED
        BY <2>3, <4>2, IdsOfMessages
    <3>3. fileOf' \subseteq Index!Ids
      BY <1>2, <2>1, <2>2
    <3> QED
      BY <1>1, <1>2, <2>1, <2>2, <2>3, <3>1, <3>2, <3>3, BlankKeeps
  <2>4. CASE messages[id] # Index!Absent
    <3>1. messages' = messages
      BY <1>2, <2>1, <2>2, <2>4
    <3>2. Index!TypeOK'
      BY <1>1, <1>2, <1>3, <2>1, <2>2, <3>1 DEF Index!IInv, Index!TypeOK
    <3>3. Index!DatesFit' /\ Index!SameSecond' /\ Index!ListsFit' /\ Index!MediasFit'
      BY <1>1, <2>1, <3>1 DEF Index!IInv, Index!DatesFit, Index!SameSecond,
         Index!ListsFit, Index!MediasFit, Index!Known
    <3>4. Index!Apart'
      BY <1>1, <1>3 DEF Index!IInv, Index!Apart
    <3>5. \A n \in Index!Announced : Index!IdOf(n)' = Index!IdOf(n)
      BY <1>2, <1>3
    <3>6. Index!Placed'
      BY <1>1, <1>3, <2>1, <3>1, <3>5 DEF Index!IInv, Index!Placed
    <3>7. Index!EachUnderItsId'
      BY <1>1, <1>3, <2>1, <3>1, <3>5 DEF Index!IInv, Index!EachUnderItsId
    <3> QED
      BY <3>2, <3>3, <3>4, <3>6, <3>7 DEF Index!IInv
  <2> QED
    BY <2>3, <2>4
<1> QED
  BY <1>5, <1>6

\* Each step of the index of messages keeps its invariant.
LEMMA IndexNext ==
  ASSUME Index!MessagesAssumption, Index!IInv, [Index!Next]_(Index!index_vars)
  PROVE  Index!IInv'
<1>1. CASE UNCHANGED Index!index_vars
  <2>1. UNCHANGED <<date, media, stage, Index!index, clashed, early>>
    BY <1>1 DEF Index!index_vars
  <2>2. Index!Announced' = Index!Announced
        /\ \A n \in Index!Announced : Index!IdOf(n)' = Index!IdOf(n)
    BY <2>1 DEF Index!Announced, Index!IdOf
  <2>3. Index!Apart'
    BY <2>1, <2>2 DEF Index!IInv, Index!Apart
  <2>4. \A n \in Messages : stage[n] \in {"pending", "sent"} => n \in Mine
    BY DEF Index!IInv, Index!TypeOK
  <2> QED
    BY <2>1, <2>2, <2>3, <2>4, IndexTypes, SkipKeeps
<1>2. CASE Index!Fetch
  <2>1. PICK m \in Messages :
          /\ stage[m] = "unknown" /\ stage' = [stage EXCEPT ![m] = "fetched"]
          /\ UNCHANGED <<date, media, Index!index, clashed, early>>
    BY <1>2 DEF Index!Fetch
  <2>2. /\ stage \in [Messages -> {"unknown", "fetched", "pending", "announced", "sent"}]
        /\ clashed \in BOOLEAN /\ early \subseteq Messages
    BY IndexTypes
  <2>3. stage'[m] = "fetched" /\ \A n \in Messages \ {m} : stage'[n] = stage[n]
    BY <2>1, <2>2
  <2>4. Index!Announced' = Index!Announced
        /\ \A n \in Index!Announced : Index!IdOf(n)' = Index!IdOf(n)
    BY <2>1, <2>3 DEF Index!Announced, Index!IdOf
  <2>5. /\ stage' \in [Messages -> {"unknown", "fetched", "pending", "announced", "sent"}]
        /\ \A n \in Messages : stage'[n] \in {"pending", "sent"} => n \in Mine
    BY <2>1, <2>2, <2>3 DEF Index!IInv, Index!TypeOK
  <2>6. Index!Apart'
    BY <2>1, <2>4 DEF Index!IInv, Index!Apart
  <2> QED
    BY <2>1, <2>2, <2>4, <2>5, <2>6, SkipKeeps
<1> QED
  BY <1>1, <1>2, SendKeeps, SentKeeps, AnnounceKeeps, ReadKeeps, LoadedKeeps
     DEF Index!Next

\* The invariant says that nothing the index names has gone.
LEMMA NothingDangles ==
  ASSUME Index!MessagesAssumption, Index!IInv
  PROVE  Index!NoDangling
<1>1. \A n \in Messages : n # Index!Absent
  BY IdsOfMessages
<1> QED
  BY <1>1 DEF Index!IInv, Index!NoDangling, Index!DatesFit, Index!ListsFit,
     Index!MediasFit, Index!Known

-----------------------------------------------------------------------------
\* The calls of the interface

\* What is typed goes to the end of the queue and what is handed over leaves
\* its head, so the two together stay the numbers in order (sendMessage).
LEMMA TypedInOrder ==
  ASSUME Out!OutboxAssumption, Out!TypeOK, Out!HandedInOrder, Out!SendMessage
  PROVE  Out!HandedInOrder' /\ sendQueue' \in Seq(1..MaxTyped)
         /\ handed' \in Seq(1..MaxTyped)
<1>1. typed' = typed + 1 /\ typed \in Nat /\ typed' \in 1..MaxTyped
  BY DEF Out!OutboxAssumption, Out!TypeOK, Out!SendMessage
<1>2. sendQueue \in Seq(1..MaxTyped) /\ handed \in Seq(1..MaxTyped)
  BY DEF Out!TypeOK
<1>3. sendQueue' = Append(sendQueue, typed')
  BY DEF Out!SendMessage
<1> DEFINE N == [k \in 1..typed |-> k]
<1>4. Append(N, typed') = [k \in 1..typed' |-> k]
  BY <1>1
<1>5. CASE sendQueue = <<>>
  <2>1. handed' = Append(handed, typed') /\ sendTimer' = TRUE
    BY <1>5 DEF Out!SendMessage
  <2>2. handed = N
    BY <1>2, <1>5 DEF Out!HandedInOrder
  <2>3. sendQueue' = <<typed'>> /\ Tail(sendQueue') = <<>> /\ sendQueue' # <<>>
    BY <1>1, <1>3, <1>5
  <2>4. handed' \o <<>> = [k \in 1..typed' |-> k]
    BY <1>1, <1>2, <1>4, <2>1, <2>2
  <2> QED
    <3>1. handed' \o (IF sendQueue' = <<>> THEN <<>> ELSE Tail(sendQueue'))
            = [k \in 1..typed' |-> k]
      BY <2>3, <2>4
    <3>2. sendTimer' = (sendQueue' # <<>>)
      BY Zenon, <2>1, <2>3
    <3>3. sendQueue' \in Seq(1..MaxTyped) /\ handed' \in Seq(1..MaxTyped)
      BY <1>1, <1>2, <1>3, <2>1
    <3> QED
      BY Zenon, <3>1, <3>2, <3>3 DEF Out!HandedInOrder
<1>6. CASE sendQueue # <<>>
  <2>1. handed' = handed /\ sendTimer' = sendTimer
    BY <1>6 DEF Out!SendMessage
  <2>2. handed \o Tail(sendQueue) = N /\ sendTimer = TRUE
    BY <1>6 DEF Out!HandedInOrder
  <2>3. Tail(sendQueue') = Append(Tail(sendQueue), typed') /\ sendQueue' # <<>>
        /\ Tail(sendQueue) \in Seq(1..MaxTyped)
    BY <1>1, <1>2, <1>3, <1>6
  <2> DEFINE R == Tail(sendQueue)
  <2> HIDE DEF R
  <2>4. handed \o Append(R, typed') = Append(handed \o R, typed')
    BY <1>1, <1>2, <2>3 DEF R
  <2>5. handed' \o Tail(sendQueue') = [k \in 1..typed' |-> k]
    BY <1>4, <2>1, <2>2, <2>3, <2>4 DEF R
  <2> QED
    <3>1. handed' \o (IF sendQueue' = <<>> THEN <<>> ELSE Tail(sendQueue'))
            = [k \in 1..typed' |-> k]
      BY <2>3, <2>5
    <3>2. sendTimer' = (sendQueue' # <<>>)
      BY Zenon, <2>1, <2>2, <2>3
    <3>3. sendQueue' \in Seq(1..MaxTyped) /\ handed' \in Seq(1..MaxTyped)
      BY <1>1, <1>2, <1>3, <2>1
    <3> QED
      BY Zenon, <3>1, <3>2, <3>3 DEF Out!HandedInOrder
<1> QED
  BY <1>5, <1>6

\* What the timer sends is the head of the queue, and goes to the end of
\* what was handed over (the timer of sendMessage).
LEMMA SentInOrder ==
  ASSUME Out!OutboxAssumption, Out!TypeOK, Out!HandedInOrder, Out!SendTimer
  PROVE  Out!HandedInOrder' /\ sendQueue' \in Seq(1..MaxTyped)
         /\ handed' \in Seq(1..MaxTyped)
<1>1. sendQueue \in Seq(1..MaxTyped) /\ handed \in Seq(1..MaxTyped) /\ sendQueue # <<>>
      /\ typed' = typed
  BY DEF Out!TypeOK, Out!HandedInOrder, Out!SendTimer
<1>2. sendQueue' = Tail(sendQueue) /\ sendTimer' = (sendQueue' # <<>>)
      /\ handed' = IF sendQueue' = <<>> THEN handed ELSE Append(handed, Head(sendQueue'))
  BY DEF Out!SendTimer, Out!SendTimerEvent
<1>3. handed \o Tail(sendQueue) = [k \in 1..typed |-> k]
  BY <1>1 DEF Out!HandedInOrder
<1>4. sendQueue' \in Seq(1..MaxTyped)
  BY <1>1, <1>2
<1>5. CASE sendQueue' = <<>>
  BY <1>1, <1>2, <1>3, <1>4, <1>5 DEF Out!HandedInOrder
<1>6. CASE sendQueue' # <<>>
  <2> DEFINE q == sendQueue'
  <2>1. q \in Seq(1..MaxTyped) /\ Head(q) \in 1..MaxTyped /\ Tail(q) \in Seq(1..MaxTyped)
    <3> HIDE DEF q
    <3> QED
      BY <1>4, <1>6, HeadTailProperties DEF q
  <2>2. handed' = Append(handed, Head(q)) /\ handed' \in Seq(1..MaxTyped)
    <3>1. handed' = Append(handed, Head(q))
      BY <1>2, <1>6
    <3> HIDE DEF q
    <3> QED
      BY <1>1, <2>1, <3>1
  <2>3. Append(handed, Head(q)) \o Tail(q) = handed \o q
    <3> HIDE DEF q
    <3> QED
      BY <1>1, <1>6, <2>1 DEF q
  <2>4. handed' \o Tail(q) = [k \in 1..typed' |-> k]
    BY <1>1, <1>2, <1>3, <2>2, <2>3
  <2> QED
    BY <1>1, <1>2, <1>4, <1>6, <2>2, <2>4 DEF Out!HandedInOrder
<1> QED
  BY <1>5, <1>6

\* The invariant of what is typed holds at first.
LEMMA OutInit ==
  ASSUME Out!OutboxAssumption, Out!Init
  PROVE  Out!IInv
<1>1. Out!TypeOK
  <2>1. sendQueue \in Seq(1..MaxTyped) /\ handed \in Seq(1..MaxTyped)
    BY DEF Out!Init
  <2>2. typed \in 0..MaxTyped
    BY DEF Out!Init, Out!OutboxAssumption
  <2>3. sendTimer \in BOOLEAN
    BY Zenon DEF Out!Init
  <2> QED
    BY <2>1, <2>2, <2>3 DEF Out!TypeOK
<1>2. Out!HandedInOrder
  <2>1. <<>> \o <<>> = [k \in 1..0 |-> k]
    OBVIOUS
  <2>2. FALSE = (<<>> # <<>>)
    BY Zenon
  <2>3. handed \o (IF sendQueue = <<>> THEN <<>> ELSE Tail(sendQueue)) =
        [k \in 1..typed |-> k]
    BY <2>1 DEF Out!Init
  <2>4. sendTimer = (sendQueue # <<>>)
    BY Zenon, <2>2 DEF Out!Init
  <2> QED
    BY <2>3, <2>4 DEF Out!HandedInOrder
<1> QED
  BY <1>1, <1>2 DEF Out!IInv

\* Each step of what is typed keeps it.
LEMMA OutNext ==
  ASSUME Out!OutboxAssumption, Out!IInv, [Out!Next]_(Out!outbox_vars)
  PROVE  Out!IInv'
<1> USE DEF Out!IInv
<1>1. CASE UNCHANGED Out!outbox_vars
  BY <1>1 DEF Out!TypeOK, Out!HandedInOrder, Out!outbox_vars
<1>2. CASE Out!SendMessage
  <2>1. Out!HandedInOrder' /\ sendQueue' \in Seq(1..MaxTyped)
        /\ handed' \in Seq(1..MaxTyped)
    BY <1>2, TypedInOrder
  <2>2. typed' \in 0..MaxTyped
    BY <1>2 DEF Out!SendMessage, Out!TypeOK, Out!OutboxAssumption
  <2>3. sendTimer' = TRUE \/ sendTimer' = sendTimer
    BY Zenon, <1>2 DEF Out!SendMessage
  <2> QED
    BY <2>1, <2>2, <2>3 DEF Out!TypeOK
<1>3. CASE Out!SendTimer
  <2>1. Out!HandedInOrder' /\ sendQueue' \in Seq(1..MaxTyped)
        /\ handed' \in Seq(1..MaxTyped)
    BY <1>3, SentInOrder
  <2>2. sendTimer' \in BOOLEAN /\ typed' = typed
    BY <1>3 DEF Out!SendTimer, Out!SendTimerEvent
  <2> QED
    BY <2>1, <2>2 DEF Out!TypeOK
<1> QED
  BY <1>1, <1>2, <1>3 DEF Out!Next

\* A group.
GroupType == [title : Titles \cup {Front!NoTitle}, others : SUBSET Members,
              stage : {"none", "asked", "made", "known", "announced"}]

\* What the type invariant says of the groups.
GroupsHaveType ==
  /\ group \in [Groups -> GroupType]
  /\ dialogs \subseteq Front!Listed /\ late \subseteq Front!On({"announced"})
  /\ waiting \in [Titles -> SUBSET Members] /\ added \in [Groups -> SUBSET Members]
  /\ unmet \in [Groups -> SUBSET Members] /\ prints \in [Titles -> SUBSET Groups]
  /\ contacts \subseteq Members /\ taken \cup retitled \subseteq Titles

\* What it says of the timer and the list of dialogs.
ListHasType ==
  /\ cameNews \in 0..MaxNews
  /\ {dialogTimer, dialogAgain, fires, news, listing} \subseteq BOOLEAN
  /\ dialogTimer = fires

\* What the invariant says of the groups.
GroupsFit ==
  GroupsHaveType /\ Front!BufferFits /\ Front!NamesFit /\ Front!GroupsAsChosen

\* These two are the invariant.
LEMMA FrontIsBoth == Front!IInv <=> ListHasType /\ GroupsFit
  BY DEF Front!IInv, Front!TypeOK, ListHasType, GroupsFit, GroupsHaveType, GroupType

\* Only a group that is in the list of dialogs, or could be, gets users.
LEMMA OnlyListedGet ==
  ASSUME GroupsFit, NEW g \in Groups, added[g] # {}
  PROVE  g \in Front!Listed /\ group[g].title \in Titles
  BY DEF GroupsFit, Front!GroupsAsChosen, Front!CalledByTitle, Front!NamesFit

\* A group comes to wait under its title, with the users that wait there;
\* if another waits there, the title is noted.
LEMMA PlacedAsChosen ==
  ASSUME GroupsFit, NEW g \in Groups, group[g].stage = "none", NEW t \in Titles,
         NEW o \in SUBSET Members, NEW st \in {"asked", "made"},
         group' = [group EXCEPT ![g] = [title |-> t, others |-> o, stage |-> st]],
         t \notin retitled' => waiting'[t] = o /\ ~Front!Awaits(t),
         waiting' \in [Titles -> SUBSET Members],
         \A u \in Titles \ {t} : waiting'[u] = waiting[u],
         retitled \subseteq retitled', retitled' \subseteq Titles,
         UNCHANGED <<dialogs, contacts, prints, taken, added, late, unmet>>
  PROVE  GroupsFit'
<1>1. GroupsHaveType
  BY DEF GroupsFit
<1>2. /\ group'[g] = [title |-> t, others |-> o, stage |-> st]
      /\ \A h \in Groups \ {g} : group'[h] = group[h]
  BY <1>1 DEF GroupsHaveType
<1>3. /\ Front!Pending' = Front!Pending \cup {g} /\ Front!Listed' = Front!Listed
      /\ Front!On({"announced"})' = Front!On({"announced"})
      /\ g \notin Front!Listed /\ g \notin Front!Pending /\ g \notin Front!On({"announced"})
      /\ Front!Listed \subseteq Groups /\ Front!Pending \subseteq Groups
  BY <1>2 DEF Front!Pending, Front!Listed, Front!On
<1>4. GroupsHaveType'
  <2>1. [title |-> t, others |-> o, stage |-> st] \in GroupType
    BY DEF GroupType
  <2>2. group' \in [Groups -> GroupType]
    BY <1>1, <2>1 DEF GroupsHaveType
  <2> QED
    BY <1>1, <1>3, <2>2 DEF GroupsHaveType
<1>5. Front!BufferFits'
  <2> SUFFICES ASSUME NEW h \in Front!Pending'
               PROVE  /\ group'[h].title \in Titles
                      /\ group'[h].title \in retitled' \/
                           /\ waiting'[group'[h].title] = group'[h].others
                           /\ \A k \in Front!Pending' \ {h} :
                                group'[k].title # group'[h].title
    BY DEF Front!BufferFits
  <2>1. CASE h = g
    BY <1>2, <1>3, <2>1 DEF Front!Awaits
  <2>2. CASE h # g
    <3>1. h \in Front!Pending /\ h \in Groups /\ group'[h] = group[h]
      BY <1>2, <1>3, <2>2
    <3>2. group[h].title = t => t \in retitled'
      BY <3>1 DEF Front!Awaits
    <3>3. /\ group[h].title \in Titles
          /\ group[h].title \in retitled \/
               /\ waiting[group[h].title] = group[h].others
               /\ \A k \in Front!Pending \ {h} : group[k].title # group[h].title
      BY <3>1 DEF GroupsFit, Front!BufferFits
    <3> QED
      BY <1>2, <1>3, <3>1, <3>2, <3>3
  <2> QED
    BY <2>1, <2>2
<1>6. Front!NamesFit'
  BY <1>2, <1>3 DEF GroupsFit, Front!NamesFit, Front!Titled
<1>7. Front!GroupsAsChosen'
  <2> SUFFICES ASSUME NEW h \in Groups
               PROVE  (Front!CalledByTitle(h) /\ Front!ChosenForTitle(h)
                       /\ Front!NobodyForgotten(h))'
    BY DEF Front!GroupsAsChosen
  <2>1. CASE h = g
    <3>1. added'[h] = {}
      BY <1>3, <2>1, OnlyListedGet
    <3> QED
      BY <1>3, <2>1, <3>1 DEF Front!CalledByTitle, Front!ChosenForTitle, Front!NobodyForgotten
  <2>2. CASE h # g
    <3>1. group'[h] = group[h]
      BY <1>2, <2>2
    <3>2. \A u : Front!Titled(u)' \cap Front!On({"announced"})'
                   = Front!Titled(u) \cap Front!On({"announced"})
      BY <1>2, <1>3 DEF Front!Titled
    <3>3. \A k \in Front!On({"announced"}) : group'[k] = group[k]
      BY <1>2, <1>3 DEF Front!On
    <3> QED
      BY <1>3, <3>1, <3>2, <3>3 DEF GroupsFit, Front!GroupsAsChosen,
         Front!CalledByTitle, Front!ChosenForTitle, Front!NobodyForgotten
  <2> QED
    BY <2>1, <2>2
<1> QED
  BY <1>4, <1>5, <1>6, <1>7 DEF GroupsFit

\* A new group waits, unless its first user is no contact (createChatUsers);
\* one that was made elsewhere does with nobody.
LEMMA CreatedAsChosen ==
  ASSUME GroupsFit, Front!CreateChatUsers \/ Front!MadeElsewhere
  PROVE  GroupsFit'
<1>1. GroupsHaveType
  BY DEF GroupsFit
<1>2. UNCHANGED <<dialogs, contacts, prints, taken, added, late, unmet>>
  BY DEF Front!CreateChatUsers, Front!MadeElsewhere, Front!naming
<1>3. CASE Front!CreateChatUsers
  <2>1. PICK t \in Titles, o \in SUBSET Members :
          /\ waiting' = [waiting EXCEPT ![t] = o]
          /\ \/ group' = group
             \/ \E g \in Front!On({"none"}) :
                  group' = [group EXCEPT ![g] = [title |-> t, others |-> o, stage |-> "asked"]]
          /\ Front!Retitle(t, Front!Awaits(t))
    BY <1>3 DEF Front!CreateChatUsers
  <2>2. /\ waiting' \in [Titles -> SUBSET Members] /\ waiting'[t] = o
        /\ \A u \in Titles \ {t} : waiting'[u] = waiting[u]
    BY <1>1, <2>1 DEF GroupsHaveType
  <2>3. /\ retitled \subseteq retitled' /\ retitled' \subseteq Titles
        /\ t \notin retitled' => ~Front!Awaits(t)
    BY <1>1, <2>1 DEF Front!Retitle, GroupsHaveType
  <2>4. CASE group' = group
    <3>1. /\ Front!Pending' = Front!Pending /\ Front!Listed' = Front!Listed
          /\ Front!On({"announced"})' = Front!On({"announced"})
          /\ \A u : Front!Titled(u)' = Front!Titled(u)
      BY <2>4 DEF Front!Pending, Front!Listed, Front!On, Front!Titled
    <3>2. GroupsHaveType'
      BY <1>1, <1>2, <2>2, <2>3, <2>4, <3>1 DEF GroupsHaveType
    <3>3. Front!BufferFits'
      BY <2>2, <2>3, <2>4, <3>1 DEF GroupsFit, Front!BufferFits, Front!Awaits
    <3>4. Front!NamesFit'
      BY <1>2, <2>4, <3>1 DEF GroupsFit, Front!NamesFit
    <3>5. Front!GroupsAsChosen'
      BY <1>2, <2>3, <2>4, <3>1 DEF GroupsFit, Front!GroupsAsChosen,
         Front!CalledByTitle, Front!ChosenForTitle, Front!NobodyForgotten
    <3> QED
      BY <3>2, <3>3, <3>4, <3>5 DEF GroupsFit
  <2>5. CASE \E g \in Front!On({"none"}) :
               group' = [group EXCEPT ![g] = [title |-> t, others |-> o, stage |-> "asked"]]
    <3>1. PICK g \in Groups :
            group[g].stage = "none"
            /\ group' = [group EXCEPT ![g] = [title |-> t, others |-> o, stage |-> "asked"]]
      BY <2>5 DEF Front!On
    <3>2. "asked" \in {"asked", "made"}
      OBVIOUS
    <3> QED
      BY <1>2, <2>2, <2>3, <3>1, <3>2, PlacedAsChosen
  <2> QED
    BY <2>1, <2>4, <2>5
<1>4. CASE Front!MadeElsewhere
  <2>1. PICK g \in Groups, t \in Titles :
          /\ group[g].stage = "none"
          /\ group' = [group EXCEPT ![g] = [title |-> t, others |-> {}, stage |-> "made"]]
          /\ Front!Retitle(t, Front!Awaits(t) \/ waiting[t] # {}) /\ waiting' = waiting
    BY <1>4 DEF Front!MadeElsewhere, Front!On
  <2>2. /\ retitled \subseteq retitled' /\ retitled' \subseteq Titles
        /\ t \notin retitled' => waiting'[t] = {} /\ ~Front!Awaits(t)
    BY <1>1, <2>1 DEF Front!Retitle, GroupsHaveType
  <2>3. waiting' \in [Titles -> SUBSET Members] /\ {} \in SUBSET Members
        /\ \A u \in Titles \ {t} : waiting'[u] = waiting[u]
    BY <1>1, <2>1 DEF GroupsHaveType
  <2>4. "made" \in {"asked", "made"}
    OBVIOUS
  <2> QED
    BY <1>2, <2>1, <2>2, <2>3, <2>4, PlacedAsChosen
<1> QED
  BY <1>3, <1>4

\* Nothing of a group changes but how far it is, and it waits still; when it
\* is known it is called by its title, if nothing is.
LEMMA MovedAsChosen ==
  ASSUME GroupsFit, NEW g \in Groups, group[g].stage \in {"asked", "made"},
         NEW st \in {"made", "known"}, group' = [group EXCEPT ![g].stage = st],
         prints' \in [Titles -> SUBSET Groups],
         \A u \in Titles : \/ prints'[u] = prints[u]
                           \/ /\ u = group[g].title /\ prints[u] = {} /\ prints'[u] = {g}
                              /\ st = "known",
         st = "known" => prints'[group[g].title] # {} \/ group[g].title \in taken,
         UNCHANGED <<dialogs, waiting, contacts, taken, added, late, unmet, retitled>>
  PROVE  GroupsFit'
<1>1. GroupsHaveType /\ Front!BufferFits /\ Front!NamesFit /\ Front!GroupsAsChosen
  BY DEF GroupsFit
<1>2. PICK t : t = group[g].title
  OBVIOUS
<1>3. t \in Titles
  BY <1>1, <1>2 DEF Front!Pending, Front!On, Front!BufferFits
<1>4. /\ \A h \in Groups : group'[h].title = group[h].title /\ group'[h].others = group[h].others
      /\ \A h \in Groups \ {g} : group'[h] = group[h]
      /\ group'[g].stage = st
      /\ group' \in [Groups -> GroupType]
  BY <1>1 DEF GroupsHaveType, GroupType
<1>5. /\ Front!Pending' = Front!Pending
      /\ Front!Listed' = IF st = "known" THEN Front!Listed \cup {g} ELSE Front!Listed
      /\ Front!On({"announced"})' = Front!On({"announced"})
      /\ \A u : Front!Titled(u)' = Front!Titled(u)
      /\ Front!Listed \subseteq Groups /\ Front!Pending \subseteq Groups
  BY <1>4 DEF Front!Pending, Front!Listed, Front!On, Front!Titled
<1>6. GroupsHaveType'
  BY <1>1, <1>4, <1>5 DEF GroupsHaveType
<1>7. Front!BufferFits'
  BY <1>1, <1>4, <1>5 DEF Front!BufferFits
<1>8. Front!NamesFit'
  <2>1. \A h \in Front!Listed' : group'[h].title \in Titles
          /\ (prints'[group'[h].title] # {} \/ group'[h].title \in taken')
    BY <1>1, <1>2, <1>3, <1>4, <1>5 DEF Front!NamesFit
  <2>2. g \in Front!Titled(t)
    BY <1>2 DEF Front!Titled
  <2>3. \A u \in Titles : /\ prints'[u] \subseteq Front!Titled(u)' \cap Front!Listed'
                          /\ \A h \in prints'[u] : prints'[u] = {h}
    BY <1>1, <1>2, <1>5, <2>2 DEF Front!NamesFit
  <2> QED
    BY <2>1, <2>3 DEF Front!NamesFit
<1>9. Front!GroupsAsChosen'
  <2> SUFFICES ASSUME NEW h \in Groups
               PROVE  (Front!CalledByTitle(h) /\ Front!ChosenForTitle(h)
                       /\ Front!NobodyForgotten(h))'
    BY DEF Front!GroupsAsChosen
  <2>1. Front!CalledByTitle(h) /\ Front!ChosenForTitle(h) /\ Front!NobodyForgotten(h)
    BY <1>1 DEF Front!GroupsAsChosen
  <2>2. h \in Front!On({"announced"}) => group[h].title \in Titles
    BY <1>1 DEF Front!NamesFit, Front!Listed, Front!On
  <2>3. UNION {group'[k].others : k \in Front!Titled(group[h].title) \cap Front!On({"announced"})}
          = UNION {group[k].others : k \in Front!Titled(group[h].title) \cap Front!On({"announced"})}
    BY <1>4 DEF Front!Titled
  <2>4. \A u \in Titles : prints[u] # {} => prints'[u] = prints[u]
    OBVIOUS
  <2> QED
    BY <1>4, <1>5, <2>1, <2>2, <2>3, <2>4 DEF Front!CalledByTitle, Front!ChosenForTitle, Front!NobodyForgotten
<1> QED
  BY <1>6, <1>7, <1>8, <1>9 DEF GroupsFit

\* The server makes a group, or the core comes to know one: it is called by
\* its title, if nothing is (fetch_alloc_chat).
LEMMA FetchedAsChosen ==
  ASSUME GroupsFit, Front!ServerMakes \/ Front!FetchChat
  PROVE  GroupsFit'
<1>1. PICK g \in Groups, st \in {"made", "known"} :
        /\ group[g].stage \in {"asked", "made"} /\ group' = [group EXCEPT ![g].stage = st]
        /\ \/ st = "made" /\ prints' = prints
           \/ st = "known" /\ prints' = [prints EXCEPT ![group[g].title] =
                                IF @ = {} /\ group[g].title \notin taken THEN {g} ELSE @]
  BY DEF Front!ServerMakes, Front!FetchChat, Front!On, Front!naming
<1>2. UNCHANGED <<dialogs, waiting, contacts, taken, added, late, unmet, retitled>>
  BY DEF Front!ServerMakes, Front!FetchChat, Front!naming
<1>3. prints \in [Titles -> SUBSET Groups] /\ group[g].title \in Titles
  BY <1>1 DEF GroupsFit, GroupsHaveType, Front!Pending, Front!On, Front!BufferFits
<1>4. /\ prints' \in [Titles -> SUBSET Groups]
      /\ \A u \in Titles : \/ prints'[u] = prints[u]
                           \/ /\ u = group[g].title /\ prints[u] = {} /\ prints'[u] = {g}
                              /\ st = "known"
      /\ st = "known" => prints'[group[g].title] # {} \/ group[g].title \in taken
  BY <1>1, <1>3
<1> QED
  BY <1>1, <1>2, <1>4, MovedAsChosen

\* The announcement gives the users that wait under the title, and are
\* contacts, to the group that is called by it, if the list of dialogs has
\* the one that is announced (_incomingNewMsg, chatAddUser).
LEMMA AnnouncedAsChosen ==
  ASSUME GroupsFit, Front!Announced
  PROVE  GroupsFit'
<1>1. PICK g \in Groups :
        /\ group[g].stage = "known" /\ group' = [group EXCEPT ![g].stage = "announced"]
        /\ Front!IncomingNewMsg(g)
        /\ late' = IF g \in dialogs THEN late ELSE late \cup {g}
        /\ unmet' = [unmet EXCEPT ![g] = group[g].others \ contacts]
        /\ UNCHANGED <<dialogs, contacts, prints, taken, retitled>>
  BY DEF Front!Announced, Front!On, Front!naming
<1>2. GroupsHaveType /\ Front!BufferFits /\ Front!NamesFit /\ Front!GroupsAsChosen
  BY DEF GroupsFit
<1>3. PICK t, reached : t = group[g].title /\ reached = IF g \in dialogs THEN prints[t] ELSE {}
  OBVIOUS
<1>4. /\ added' = [h \in Groups |-> IF h \in reached THEN added[h] \cup (waiting[t] \cap contacts)
                                    ELSE added[h]]
      /\ waiting' = [waiting EXCEPT ![t] = {}]
  BY <1>1, <1>3 DEF Front!IncomingNewMsg, Front!ChatAddUser
<1>5. /\ g \in Front!Pending /\ g \in Front!Listed /\ t \in Titles
      /\ t \in retitled \/ waiting[t] = group[g].others
      /\ t \notin retitled => \A h \in Front!Pending \ {g} : group[h].title # t
      /\ prints[t] # {} \/ t \in taken
      /\ prints[t] \subseteq Front!Titled(t) /\ \A h \in prints[t] : prints[t] = {h}
  BY <1>1, <1>2, <1>3 DEF Front!Pending, Front!Listed, Front!On, Front!BufferFits, Front!NamesFit
<1>6. /\ \A h \in Groups : group'[h].title = group[h].title /\ group'[h].others = group[h].others
      /\ \A h \in Groups \ {g} : group'[h] = group[h]
      /\ group'[g].stage = "announced"
      /\ group' \in [Groups -> GroupType]
  BY <1>1, <1>2 DEF GroupsHaveType, GroupType
<1>7. /\ Front!Pending' = Front!Pending \ {g} /\ Front!Listed' = Front!Listed
      /\ Front!On({"announced"})' = Front!On({"announced"}) \cup {g}
      /\ \A u : Front!Titled(u)' = Front!Titled(u)
      /\ Front!Listed \subseteq Groups /\ Front!Pending \subseteq Groups
  BY <1>1, <1>6 DEF Front!Pending, Front!Listed, Front!On, Front!Titled
<1>8. /\ waiting' \in [Titles -> SUBSET Members] /\ waiting'[t] = {}
      /\ \A u \in Titles \ {t} : waiting'[u] = waiting[u]
  BY <1>2, <1>4, <1>5 DEF GroupsHaveType
<1>9. /\ added' \in [Groups -> SUBSET Members] /\ unmet' \in [Groups -> SUBSET Members]
      /\ unmet'[g] = group[g].others \ contacts
      /\ \A h \in Groups \ {g} : unmet'[h] = unmet[h]
      /\ \A h \in Groups : added[h] \subseteq added'[h]
      /\ \A h \in Groups \ reached : added'[h] = added[h]
      /\ \A h \in Groups \cap reached : added'[h] = added[h] \cup (waiting[t] \cap contacts)
  <2>1. waiting[t] \subseteq Members /\ group[g].others \subseteq Members
    BY <1>2, <1>5 DEF GroupsHaveType, GroupType
  <2> QED
    BY <1>1, <1>2, <1>4, <2>1 DEF GroupsHaveType
<1>10. GroupsHaveType'
  BY <1>1, <1>2, <1>6, <1>7, <1>8, <1>9 DEF GroupsHaveType
<1>11. Front!BufferFits'
  BY <1>1, <1>2, <1>5, <1>6, <1>7, <1>8 DEF Front!BufferFits
<1>12. Front!NamesFit'
  BY <1>1, <1>2, <1>6, <1>7 DEF Front!NamesFit
<1>13. ASSUME NEW h \in Groups, added'[h] # {}
       PROVE  group'[h].title \in Titles /\ prints'[group'[h].title] = {h}
  <2>1. CASE h \in reached
    <3>1. h \in prints[t]
      BY <1>3, <2>1
    <3>2. group[h].title = t
      BY <1>5, <3>1 DEF Front!Titled
    <3> QED
      BY <1>1, <1>5, <1>6, <3>1, <3>2
  <2>2. CASE h \notin reached
    BY <1>1, <1>2, <1>6, <1>9, <1>13, <2>2 DEF Front!GroupsAsChosen, Front!CalledByTitle
  <2> QED
    BY <2>1, <2>2
<1>14. ASSUME NEW h \in Groups, group'[h].title \notin retitled'
       PROVE  added'[h] \subseteq UNION {group'[k].others :
                k \in Front!Titled(group[h].title)' \cap Front!On({"announced"})'}
  <2> SUFFICES ASSUME NEW m \in added'[h]
               PROVE  \E k \in Front!Titled(group[h].title)' \cap Front!On({"announced"})' :
                        m \in group'[k].others
    BY <1>6
  <2>1. CASE m \in added[h]
    <3>1. PICK k \in Front!Titled(group[h].title) \cap Front!On({"announced"}) :
            m \in group[k].others
      BY <1>1, <1>2, <1>6, <1>14, <2>1 DEF Front!GroupsAsChosen, Front!ChosenForTitle
    <3>2. k \in Groups
      BY <3>1 DEF Front!Titled
    <3> QED
      BY <1>6, <1>7, <3>1, <3>2
  <2>2. CASE m \notin added[h]
    <3>1. h \in reached /\ m \in waiting[t]
      BY <1>9, <2>2
    <3>2. group[h].title = t
      BY <1>3, <1>5, <3>1 DEF Front!Titled
    <3>3. m \in group'[g].others /\ g \in Front!Titled(t)'
      BY <1>1, <1>3, <1>5, <1>6, <1>14, <3>1, <3>2 DEF Front!Titled
    <3> QED
      BY <1>6, <1>7, <3>2, <3>3 DEF Front!Titled
  <2> QED
    BY <2>1, <2>2
<1>15. ASSUME NEW h \in Front!On({"announced"})' \ late',
              group'[h].title \notin retitled' \cup taken'
       PROVE  \E k \in prints'[group'[h].title] : group'[h].others \ unmet'[h] \subseteq added'[k]
  <2>1. CASE h = g
    <3>1. g \in dialogs /\ t \notin retitled \cup taken
      BY <1>1, <1>3, <1>6, <1>15, <2>1
    <3>2. PICK k \in prints[t] : k \in reached /\ k \in Groups
      BY <1>3, <1>5, <3>1 DEF Front!Titled
    <3>3. group[g].others \ unmet'[g] \subseteq added'[k]
      BY <1>5, <1>9, <3>1, <3>2
    <3> QED
      BY <1>1, <1>3, <1>6, <2>1, <3>2, <3>3
  <2>2. CASE h # g
    <3>1. h \in Front!On({"announced"}) \ late /\ h \in Groups
      BY <1>1, <1>7, <2>2 DEF Front!On
    <3>2. PICK k \in prints[group[h].title] : group[h].others \ unmet[h] \subseteq added[k]
      BY <1>1, <1>2, <1>6, <1>15, <3>1 DEF Front!GroupsAsChosen, Front!NobodyForgotten
    <3>3. group[h].title \in Titles
      BY <1>2, <3>1 DEF Front!NamesFit, Front!Listed, Front!On
    <3>4. k \in Groups
      BY <1>2, <3>2, <3>3 DEF GroupsHaveType
    <3>5. added[k] \subseteq added'[k] /\ unmet'[h] = unmet[h]
      BY <1>9, <2>2, <3>1, <3>4
    <3> QED
      BY <1>1, <1>6, <3>1, <3>2, <3>5
  <2> QED
    BY <2>1, <2>2
<1>16. Front!GroupsAsChosen'
  BY <1>13, <1>14, <1>15 DEF Front!GroupsAsChosen, Front!CalledByTitle,
     Front!ChosenForTitle, Front!NobodyForgotten
<1> QED
  BY <1>10, <1>11, <1>12, <1>16 DEF GroupsFit

\* The lists of dialogs and of contacts are no concern of who was chosen,
\* nor are other peers that come to be called by a title (FetchOther).
LEMMA ListsKeep ==
  ASSUME GroupsFit, UNCHANGED <<group, waiting, prints, added, late, unmet, retitled>>,
         taken \subseteq taken', taken' \subseteq Titles,
         dialogs' \subseteq Front!Listed, contacts' \subseteq Members
  PROVE  GroupsFit'
<1>1. /\ Front!Pending' = Front!Pending /\ Front!Listed' = Front!Listed
      /\ Front!On({"announced"})' = Front!On({"announced"})
      /\ \A u : Front!Titled(u)' = Front!Titled(u)
  BY DEF Front!Pending, Front!Listed, Front!On, Front!Titled
<1>2. GroupsHaveType'
  BY <1>1 DEF GroupsFit, GroupsHaveType
<1>3. Front!BufferFits' /\ Front!NamesFit'
  BY <1>1 DEF GroupsFit, Front!BufferFits, Front!NamesFit
<1>4. Front!GroupsAsChosen'
  BY <1>1 DEF GroupsFit, Front!GroupsAsChosen, Front!CalledByTitle, Front!ChosenForTitle,
     Front!NobodyForgotten
<1> QED
  BY <1>2, <1>3, <1>4 DEF GroupsFit

\* The invariant of the calls of the interface holds at first.
LEMMA FrontInit ==
  ASSUME Front!FrontendAssumption, Front!Init
  PROVE  Front!IInv
<1>1. ListHasType
  <2>1. cameNews \in 0..MaxNews
    BY DEF Front!FrontendAssumption, Front!Init
  <2>2. /\ dialogTimer \in BOOLEAN /\ dialogAgain \in BOOLEAN /\ fires \in BOOLEAN
        /\ news \in BOOLEAN /\ listing \in BOOLEAN /\ dialogTimer = fires
    BY Zenon DEF Front!Init
  <2> QED
    BY <2>1, <2>2 DEF ListHasType
<1>2. /\ Front!On({"asked", "made", "known"}) = {} /\ Front!On({"known", "announced"}) = {}
      /\ Front!On({"announced"}) = {}
  BY DEF Front!Init, Front!On, Front!NoGroup
<1>3. GroupsHaveType
  BY <1>2 DEF Front!Init, Front!NoGroup, Front!Listed, GroupsHaveType, GroupType
<1>4. Front!BufferFits /\ Front!NamesFit
  BY <1>2 DEF Front!Init, Front!BufferFits, Front!NamesFit, Front!Pending, Front!Listed
<1>5. Front!GroupsAsChosen
  BY <1>2 DEF Front!Init, Front!GroupsAsChosen, Front!CalledByTitle, Front!ChosenForTitle,
     Front!NobodyForgotten
<1> QED
  BY <1>1, <1>3, <1>4, <1>5, FrontIsBoth DEF GroupsFit

\* Each step of the calls of the interface keeps its invariant.
LEMMA FrontNext ==
  ASSUME Front!FrontendAssumption, Front!IInv, [Front!Next]_(Front!frontend_vars)
  PROVE  Front!IInv'
<1>1. /\ ListHasType /\ GroupsFit /\ dialogs \subseteq Front!Listed
      /\ contacts \subseteq Members /\ taken \subseteq Titles
  BY FrontIsBoth DEF GroupsFit, GroupsHaveType
<1> SUFFICES ListHasType' /\ GroupsFit'
  BY FrontIsBoth, PTL
<1>2. UNCHANGED Front!making => GroupsFit'
  BY <1>1, ListsKeep DEF Front!making, Front!naming
<1>3. UNCHANGED Front!refreshing => ListHasType'
  BY <1>1 DEF ListHasType, Front!refreshing
<1>4. CASE UNCHANGED Front!frontend_vars
  BY <1>2, <1>3, <1>4 DEF Front!frontend_vars
<1>5. CASE Front!IncomingMsg
  <2>1. cameNews' \in 0..MaxNews
    BY <1>1, <1>5 DEF Front!IncomingMsg, ListHasType, Front!FrontendAssumption
  <2>2. {dialogTimer', dialogAgain', fires', news', listing'} \subseteq BOOLEAN
    BY <1>1, <1>5 DEF Front!IncomingMsg, Front!UpdateDialogListUsingTimer, Front!making,
       ListHasType
  <2>3. dialogTimer' = fires'
    BY <1>1, <1>5 DEF Front!IncomingMsg, Front!UpdateDialogListUsingTimer, ListHasType
  <2> QED
    BY <1>2, <1>5, <2>1, <2>2, <2>3 DEF Front!IncomingMsg, ListHasType
<1>6. CASE Front!DialogTimer
  <2>1. ListHasType'
    BY <1>1, <1>6 DEF Front!DialogTimer, Front!DialogTimerEvent, ListHasType
  <2> QED
    BY <1>2, <1>6, <2>1 DEF Front!DialogTimer
<1>7. CASE Front!DialogsAnswer
  <2>1. ListHasType' /\ dialogs' \subseteq Front!Listed
    BY <1>1, <1>7 DEF Front!DialogsAnswer, ListHasType
  <2> QED
    BY <1>1, <1>7, <2>1, ListsKeep DEF Front!DialogsAnswer, Front!naming
<1>8. CASE Front!ContactList
  <2>1. GroupsFit'
    BY <1>1, <1>8, ListsKeep DEF Front!ContactList
  <2> QED
    BY <1>3, <1>8, <2>1 DEF Front!ContactList
<1>9. CASE Front!CreateChatUsers \/ Front!MadeElsewhere
  BY <1>1, <1>3, <1>9, CreatedAsChosen DEF Front!CreateChatUsers, Front!MadeElsewhere
<1>10. CASE Front!FetchOther
  <2>1. taken \subseteq taken' /\ taken' \subseteq Titles
    BY <1>1, <1>10 DEF Front!FetchOther
  <2>2. GroupsFit'
    BY <1>1, <1>10, <2>1, ListsKeep DEF Front!FetchOther
  <2> QED
    BY <1>3, <1>10, <2>2 DEF Front!FetchOther
<1>11. CASE Front!ServerMakes \/ Front!FetchChat
  BY <1>1, <1>3, <1>11, FetchedAsChosen DEF Front!ServerMakes, Front!FetchChat
<1>12. CASE Front!Announced
  <2>1. ListHasType'
    BY <1>1, <1>12 DEF Front!Announced, Front!UpdateDialogListUsingTimer, ListHasType
  <2> QED
    BY <1>1, <1>12, <2>1, AnnouncedAsChosen
<1> QED
  BY <1>4, <1>5, <1>6, <1>7, <1>8, <1>9, <1>10, <1>11, <1>12 DEF Front!Next

-----------------------------------------------------------------------------
\* The byte streams

\* A sequence of sequences is joined from left to right.
LEMMA Flattening ==
  ASSUME NEW S, NEW ss \in Seq(Seq(S))
  PROVE  \E f \in [1..Len(ss) -> Seq(S)] :
           /\ \A i \in 1..Len(ss) : f[i] = IF i = 1 THEN ss[i] ELSE f[i - 1] \o ss[i]
           /\ Buf!FlattenSeq(ss) = IF Len(ss) = 0 THEN <<>> ELSE f[Len(ss)]
<1>1. Len(ss) \in Nat /\ \A i \in 1..Len(ss) : ss[i] \in Seq(S)
  BY LenProperties, ElementOfSeq
<1>2. \E f \in [1..Len(ss) -> Seq(S)] :
        \A i \in 1..Len(ss) : f[i] = IF i = 1 THEN ss[i] ELSE f[i - 1] \o ss[i]
  <2>1. CASE Len(ss) = 0
    <3> DEFINE f == [i \in 1..Len(ss) |-> <<>>]
    <3>1. f \in [1..Len(ss) -> Seq(S)]
      BY <2>1
    <3>2. \A i \in 1..Len(ss) : f[i] = IF i = 1 THEN ss[i] ELSE f[i - 1] \o ss[i]
      BY <2>1
    <3> QED
      BY <3>1, <3>2
  <2>2. CASE Len(ss) # 0
    <3> DEFINE step == [p \in Nat \X Seq(S) |->
                          IF p[1] \in 1..Len(ss) THEN p[2] \o ss[p[1]] ELSE p[2]]
    <3>1. step \in [Nat \X Seq(S) -> Seq(S)]
      BY <1>1, ConcatProperties
    <3>2. ss[1] \in Seq(S)
      BY <1>1, <2>2
    <3>3. PICK f \in [1..Len(ss) -> Seq(S)] :
            \A i \in 1..Len(ss) : f[i] = IF i = 1 THEN ss[1] ELSE step[<<i, f[i - 1]>>]
      <4> DEFINE V == Seq(S)
                 a == ss[1]
                 N == Len(ss)
                 m == 1
      <4>1. step \in [Nat \X V -> V] /\ a \in V /\ N \in Nat /\ m \in Nat
        BY <1>1, <3>1, <3>2
      <4> HIDE DEF step, V, a, N, m
      <4>2. \E f : Turns(f, V, m, a, N, step)
        BY <4>1, Recursion
      <4> QED
        BY <4>2 DEF V, a, N, m, Turns
    <3>4. ASSUME NEW i \in 1..Len(ss)
          PROVE  f[i] = IF i = 1 THEN ss[i] ELSE f[i - 1] \o ss[i]
      <4>1. CASE i # 1
        <5>1. i - 1 \in 1..Len(ss) /\ i \in Nat
          BY <1>1, <4>1
        <5>2. <<i, f[i - 1]>> \in Nat \X Seq(S)
          BY <5>1, <3>3
        <5>3. step[<<i, f[i - 1]>>] = f[i - 1] \o ss[i]
          BY <5>2
        <5> HIDE DEF step
        <5> QED
          BY <3>3, <4>1, <5>3
      <4> QED
        BY <3>3, <4>1
    <3> QED
      BY <3>3, <3>4
  <2> QED
    BY <2>1, <2>2
<1>3. Len(ss) = 0 => ss = <<>>
  BY EmptySeq
<1> DEFINE F == CHOOSE f : f =
                [i \in 1..Len(ss) |-> IF i = 1 THEN ss[i] ELSE f[i - 1] \o ss[i]]
<1>4. Buf!FlattenSeq(ss) = IF Len(ss) = 0 THEN <<>> ELSE F[Len(ss)]
  BY <1>3 DEF Buf!FlattenSeq
<1>5. F = [i \in 1..Len(ss) |-> IF i = 1 THEN ss[i] ELSE F[i - 1] \o ss[i]]
  <2>1. PICK f \in [1..Len(ss) -> Seq(S)] :
        \A i \in 1..Len(ss) : f[i] = IF i = 1 THEN ss[i] ELSE f[i - 1] \o ss[i]
    BY <1>2
  <2>2. f = [i \in 1..Len(ss) |-> IF i = 1 THEN ss[i] ELSE f[i - 1] \o ss[i]]
    BY <2>1
  <2> QED
    BY <2>2
<1> HIDE DEF F
<1>6. \A i \in 1..Len(ss) : F[i] = IF i = 1 THEN ss[i] ELSE F[i - 1] \o ss[i]
  BY <1>5
<1>7. F \in [1..Len(ss) -> Seq(S)]
  <2> DEFINE T == {k \in Nat : k \in 1..Len(ss) => F[k] \in Seq(S)}
  <2>1. 0 \in T
    OBVIOUS
  <2>2. ASSUME NEW k \in Nat, k \in T PROVE k + 1 \in T
    <3> SUFFICES ASSUME k + 1 \in 1..Len(ss) PROVE F[k + 1] \in Seq(S)
      OBVIOUS
    <3>1. CASE k = 0
      BY <3>1, <1>1, <1>6
    <3>2. CASE k # 0
      <4>1. k \in 1..Len(ss) /\ (k + 1) - 1 = k /\ k + 1 # 1
        BY <3>2, <1>1
      <4>2. F[k] \in Seq(S)
        BY <2>2, <4>1
      <4>3. F[k + 1] = F[k] \o ss[k + 1]
        BY <3>2, <4>1, <1>6
      <4> QED
        BY <1>1, <4>2, <4>3, ConcatProperties
    <3> QED
      BY <3>1, <3>2
  <2> HIDE DEF T
  <2>3. \A k \in Nat : k \in T
    BY <2>1, <2>2, Induction
  <2>4. \A k \in 1..Len(ss) : F[k] \in Seq(S)
    BY <1>1, <2>3 DEF T
  <2> QED
    BY <1>5, <2>4
<1> QED
  BY <1>4, <1>6, <1>7

\* Nothing is joined to nothing.
LEMMA FlattenEmpty == Buf!FlattenSeq(<<>>) = <<>>
  BY DEF Buf!FlattenSeq

\* What is joined has the elements of the parts.
LEMMA FlattenType ==
  ASSUME NEW S, NEW ss \in Seq(Seq(S))
  PROVE  Buf!FlattenSeq(ss) \in Seq(S)
<1>1. PICK f \in [1..Len(ss) -> Seq(S)] :
        Buf!FlattenSeq(ss) = IF Len(ss) = 0 THEN <<>> ELSE f[Len(ss)]
  BY Flattening
<1>2. Len(ss) \in Nat
  BY LenProperties
<1>3. Len(ss) # 0 => f[Len(ss)] \in Seq(S)
  <2> DEFINE n == Len(ss)
             V == Seq(S)
  <2>1. n \in Nat /\ f \in [1..n -> V]
    BY <1>2
  <2> HIDE DEF n, V
  <2>2. n # 0 => n \in 1..n
    BY <2>1
  <2>3. n # 0 => f[n] \in V
    BY <2>1, <2>2
  <2> QED
    BY <2>3 DEF n, V
<1>4. <<>> \in Seq(S)
  OBVIOUS
<1> QED
  BY <1>1, <1>3, <1>4

\* One more is joined at the end.
LEMMA FlattenAppend ==
  ASSUME NEW S, NEW ss \in Seq(Seq(S)), NEW s \in Seq(S)
  PROVE  Buf!FlattenSeq(Append(ss, s)) = Buf!FlattenSeq(ss) \o s
<1> DEFINE n == Len(ss)
           tt == Append(ss, s)
<1>1. n \in Nat /\ tt \in Seq(Seq(S)) /\ Len(tt) = n + 1 /\ tt[n + 1] = s
      /\ \A i \in 1..n : tt[i] = ss[i]
  BY AppendProperties, LenProperties
<1> HIDE DEF n, tt
<1>2. PICK f \in [1..n -> Seq(S)] :
           /\ \A i \in 1..n : f[i] = IF i = 1 THEN ss[i] ELSE f[i - 1] \o ss[i]
           /\ Buf!FlattenSeq(ss) = IF n = 0 THEN <<>> ELSE f[n]
  BY Flattening DEF n
<1>3. PICK g \in [1..(n + 1) -> Seq(S)] :
           /\ \A i \in 1..(n + 1) : g[i] = IF i = 1 THEN tt[i] ELSE g[i - 1] \o tt[i]
           /\ Buf!FlattenSeq(tt) = IF n + 1 = 0 THEN <<>> ELSE g[n + 1]
  <2>1. \E g \in [1..Len(tt) -> Seq(S)] :
           /\ \A i \in 1..Len(tt) : g[i] = IF i = 1 THEN tt[i] ELSE g[i - 1] \o tt[i]
           /\ Buf!FlattenSeq(tt) = IF Len(tt) = 0 THEN <<>> ELSE g[Len(tt)]
    BY Flattening, <1>1
  <2> QED
    BY <1>1, <2>1
<1>4. \A k \in Nat : k \in 1..n => g[k] = f[k]
  <2> DEFINE T == {k \in Nat : k \in 1..n => g[k] = f[k]}
  <2>1. 0 \in T
    OBVIOUS
  <2>2. ASSUME NEW k \in Nat, k \in T PROVE k + 1 \in T
    <3> SUFFICES ASSUME k + 1 \in 1..n PROVE g[k + 1] = f[k + 1]
      OBVIOUS
    <3>1. CASE k = 0
      <4>1. k + 1 = 1 /\ 1 \in 1..n /\ 1 \in 1..(n + 1)
        BY <3>1, <1>1
      <4>2. g[1] = tt[1] /\ f[1] = ss[1]
        BY <4>1, <1>2, <1>3
      <4> QED
        BY <1>1, <4>1, <4>2
    <3>2. CASE k # 0
      <4>1. k \in 1..n /\ k + 1 \in 1..(n + 1) /\ (k + 1) - 1 = k /\ k + 1 # 1
        BY <3>2, <1>1
      <4>2. g[k] = f[k]
        BY <2>2, <4>1
      <4>3. g[k + 1] = g[k] \o tt[k + 1]
        BY <1>1, <1>3, <4>1, <3>2
      <4>4. f[k + 1] = f[k] \o ss[k + 1]
        BY <1>1, <1>2, <4>1, <3>2
      <4> QED
        BY <1>1, <4>2, <4>3, <4>4
    <3> QED
      BY <3>1, <3>2
  <2> HIDE DEF T
  <2>3. \A k \in Nat : k \in T
    BY <2>1, <2>2, Induction
  <2> QED
    BY <2>3 DEF T
<1>5. Buf!FlattenSeq(tt) = g[n + 1]
  BY <1>1, <1>3
<1>6. CASE n = 0
  <2>1. g[n + 1] = s /\ Buf!FlattenSeq(ss) = <<>>
    BY <1>1, <1>2, <1>3, <1>6
  <2> QED
    BY <1>5, <2>1, ConcatEmptySeq DEF tt
<1>7. CASE n # 0
  <2>1. g[n + 1] = g[n] \o s
    <3>1. n + 1 \in 1..(n + 1) /\ n + 1 # 1 /\ (n + 1) - 1 = n
      BY <1>1, <1>7
    <3> QED
      BY <1>1, <1>3, <3>1
  <2>2. Buf!FlattenSeq(ss) = f[n]
    BY <1>2, <1>7
  <2>3. g[n] = f[n]
    <3>1. n \in 1..n
      BY <1>1, <1>7
    <3> QED
      BY <1>1, <1>4, <3>1
  <2> QED
    BY <1>5, <2>1, <2>2, <2>3 DEF tt
<1> QED
  BY <1>6, <1>7

-----------------------------------------------------------------------------

\* The data of the buffers of a chain, one after another.
LEMMA Datas ==
  ASSUME NEW c \in Seq(Buf!Buffer)
  PROVE  [k \in DOMAIN c |-> c[k].data] \in Seq(Seq(Buf!Byte))
<1>1. Len(c) \in Nat /\ DOMAIN c = 1..Len(c) /\ \A k \in 1..Len(c) : c[k] \in Buf!Buffer
  BY LenProperties, ElementOfSeq
<1>2. \A k \in 1..Len(c) : c[k].data \in Seq(Buf!Byte)
  BY <1>1 DEF Buf!Buffer
<1> QED
  BY <1>1, <1>2

\* The data of a chain are bytes.
LEMMA DataType ==
  ASSUME NEW c \in Seq(Buf!Buffer)
  PROVE  Buf!Data(c) \in Seq(Buf!Byte)
BY Datas, FlattenType DEF Buf!Data

\* A chain without buffers has none.
LEMMA DataEmpty == Buf!Data(<<>>) = <<>>
<1>1. [k \in DOMAIN <<>> |-> <<>>[k].data] = <<>>
  OBVIOUS
<1> QED
  BY <1>1, FlattenEmpty DEF Buf!Data

\* Those of one more buffer come last.
LEMMA DataAppend ==
  ASSUME NEW c \in Seq(Buf!Buffer), NEW b \in Buf!Buffer
  PROVE  Buf!Data(Append(c, b)) = Buf!Data(c) \o b.data
<1> DEFINE ss == [k \in DOMAIN c |-> c[k].data]
           tt == [k \in DOMAIN Append(c, b) |-> Append(c, b)[k].data]
<1>1. ss \in Seq(Seq(Buf!Byte)) /\ b.data \in Seq(Buf!Byte)
  BY Datas DEF Buf!Buffer
<1>2. tt = Append(ss, b.data)
  <2>1. Append(c, b) \in Seq(Buf!Buffer) /\ Len(Append(c, b)) = Len(c) + 1
        /\ Len(c) \in Nat
    BY AppendProperties, LenProperties
  <2>2. tt \in Seq(Seq(Buf!Byte)) /\ Len(tt) = Len(c) + 1 /\ Len(ss) = Len(c)
    <3>1. DOMAIN Append(c, b) = 1..(Len(c) + 1) /\ DOMAIN c = 1..Len(c)
      BY <2>1, LenProperties
    <3>2. tt \in Seq(Seq(Buf!Byte))
      BY <2>1, Datas
    <3> QED
      BY <2>1, <3>1, <3>2
  <2>3. Append(ss, b.data) \in Seq(Seq(Buf!Byte)) /\ Len(Append(ss, b.data)) = Len(c) + 1
    BY <1>1, <2>2, AppendProperties
  <2>4. \A i \in 1..(Len(c) + 1) : tt[i] = Append(ss, b.data)[i]
    BY <2>1
  <2> QED
    BY <2>2, <2>3, <2>4, SeqEqual
<1>3. Buf!FlattenSeq(Append(ss, b.data)) = Buf!FlattenSeq(ss) \o b.data
  BY <1>1, FlattenAppend
<1> QED
  BY <1>2, <1>3 DEF Buf!Data

\* A sequence is its front and its last element.
LEMMA FrontAndLast ==
  ASSUME NEW S, NEW c \in Seq(S), c # <<>>
  PROVE  /\ Buf!Front(c) \in Seq(S) /\ Len(Buf!Front(c)) = Len(c) - 1
            /\ Len(c) \in Nat \ {0}
         /\ c[Len(c)] \in S /\ c = Append(Buf!Front(c), c[Len(c)])
         /\ \A k \in 1..(Len(c) - 1) : Buf!Front(c)[k] = c[k]
<1>1. Len(c) \in Nat \ {0} /\ \A k \in 1..Len(c) : c[k] \in S
  BY EmptySeq, ElementOfSeq
<1>2. Buf!Front(c) \in Seq(S) /\ Len(Buf!Front(c)) = Len(c) - 1
      /\ \A k \in 1..(Len(c) - 1) : Buf!Front(c)[k] = c[k]
  <2>1. \A k \in 1..(Len(c) - 1) : c[k] \in S
    BY <1>1
  <2>2. Len(c) - 1 \in Int /\ 1 \in Int
    BY <1>1
  <2> DEFINE n == Len(c) - 1
             F == SubSeq(c, 1, n)
  <2>3. F \in Seq(S) /\ Len(F) = (IF 1 <= n THEN n - 1 + 1 ELSE 0)
        /\ \A k \in 1..(n - 1 + 1) : F[k] = c[1 + k - 1]
    <3> HIDE DEF n
    <3> QED
      BY <2>1, <2>2, SubSeqProperties DEF n
  <2>4. Buf!Front(c) = F
    BY DEF Buf!Front
  <2>5. n \in Nat /\ Len(c) = n + 1
    BY <1>1
  <2> HIDE DEF F
  <2>6. Len(F) = n
    <3> HIDE DEF n
    <3> QED
      BY <2>3, <2>5
  <2>7. \A k \in 1..n : F[k] = c[k]
    <3> HIDE DEF n
    <3> QED
      BY <2>3, <2>5
  <2> QED
    BY <2>3, <2>4, <2>6, <2>7
<1>3. Append(Buf!Front(c), c[Len(c)]) \in Seq(S)
      /\ Len(Append(Buf!Front(c), c[Len(c)])) = Len(c)
  BY <1>1, <1>2, AppendProperties
<1>4. \A k \in 1..Len(c) : c[k] = Append(Buf!Front(c), c[Len(c)])[k]
  BY <1>1, <1>2
<1> QED
  BY <1>1, <1>2, <1>3, <1>4, SeqEqual

\* The data of a chain end with those of the last buffer.
LEMMA DataLast ==
  ASSUME NEW c \in Seq(Buf!Buffer), c # <<>>
  PROVE  Buf!Data(c) = Buf!Data(Buf!Front(c)) \o c[Len(c)].data
<1>1. Buf!Front(c) \in Seq(Buf!Buffer) /\ c[Len(c)] \in Buf!Buffer /\ c =
      Append(Buf!Front(c), c[Len(c)])
  BY FrontAndLast
<1> QED
  BY <1>1, DataAppend

\* They begin with those of the first.
LEMMA DataFirst ==
  ASSUME NEW d \in Seq(Buf!Buffer), d # <<>>
  PROVE  Buf!Data(d) = d[1].data \o Buf!Data(Tail(d))
<1> DEFINE Fits(c) == Buf!Data(c) = c[1].data \o Buf!Data(Tail(c))
           T == {n \in Nat : \A c \in Seq(Buf!Buffer) : Len(c) = n + 1 => Fits(c)}
<1>1. 0 \in T
  <2> SUFFICES ASSUME NEW c \in Seq(Buf!Buffer), Len(c) = 1 PROVE Fits(c)
    OBVIOUS
  <2>1. c # <<>> /\ c[1] \in Buf!Buffer /\ c[1].data \in Seq(Buf!Byte)
    <3>1. c # <<>> /\ 1 \in 1..Len(c)
      <4>1. c # <<>>
        <5> SUFFICES ASSUME c = <<>> PROVE FALSE
          OBVIOUS
        <5> QED
          OBVIOUS
      <4>2. 1 \in 1..Len(c)
        OBVIOUS
      <4> QED
        BY <4>1, <4>2
    <3>2. c[1] \in Buf!Buffer
      BY <3>1, ElementOfSeq
    <3> QED
      BY <3>1, <3>2 DEF Buf!Buffer
  <2>2. Buf!Front(c) = <<>> /\ Tail(c) = <<>>
    <3>1. Len(Buf!Front(c)) = 0 /\ Buf!Front(c) \in Seq(Buf!Buffer)
      BY <2>1, FrontAndLast
    <3>2. Len(Tail(c)) = 0 /\ Tail(c) \in Seq(Buf!Buffer)
      BY <2>1, HeadTailProperties
    <3> QED
      BY <3>1, <3>2, EmptySeq
  <2>3. Buf!Data(c) = <<>> \o c[1].data
    BY <2>1, <2>2, DataLast, DataEmpty
  <2> QED
    BY <2>1, <2>2, <2>3, DataEmpty, ConcatEmptySeq
<1>2. ASSUME NEW n \in Nat, n \in T PROVE n + 1 \in T
  <2> SUFFICES ASSUME NEW c \in Seq(Buf!Buffer), Len(c) = n + 2 PROVE Fits(c)
    OBVIOUS
  <2> DEFINE f == Buf!Front(c)
             b == c[Len(c)]
  <2>1. c # <<>>
    BY NotEmpty
  <2>2. f \in Seq(Buf!Buffer) /\ Len(f) = n + 1 /\ b \in Buf!Buffer /\ c = Append(f, b)
        /\ f[1] = c[1]
    <3>1. /\ f \in Seq(Buf!Buffer) /\ Len(f) = Len(c) - 1 /\ b \in Buf!Buffer /\ c =
             Append(f, b)
          /\ \A k \in 1..(Len(c) - 1) : f[k] = c[k]
      BY <2>1, FrontAndLast
    <3>2. Len(c) - 1 = n + 1 /\ 1 \in 1..(n + 1)
      OBVIOUS
    <3> QED
      BY <3>1, <3>2
  <2>3. f # <<>> /\ f[1] \in Buf!Buffer /\ f[1].data \in Seq(Buf!Byte)
        /\ b.data \in Seq(Buf!Byte)
    <3>1. f # <<>> /\ 1 \in 1..Len(f)
      BY <2>2, EmptySeq
    <3>2. f[1] \in Buf!Buffer
      BY <2>2, <3>1, ElementOfSeq
    <3> QED
      BY <2>2, <3>1, <3>2 DEF Buf!Buffer
  <2>4. Tail(f) \in Seq(Buf!Buffer) /\ Tail(c) = Append(Tail(f), b)
    BY <2>2, <2>3, HeadTailProperties, HeadTailAppend
  <2>5. Buf!Data(f) = f[1].data \o Buf!Data(Tail(f))
    BY <1>2, <2>2
  <2> HIDE DEF f, b
  <2>6. Buf!Data(c) = (f[1].data \o Buf!Data(Tail(f))) \o b.data
    BY <2>2, <2>5, DataAppend
  <2>7. Buf!Data(Tail(c)) = Buf!Data(Tail(f)) \o b.data
    BY <2>2, <2>4, DataAppend
  <2>8. Buf!Data(Tail(f)) \in Seq(Buf!Byte)
    BY <2>4, DataType
  <2> QED
    <3>1. (f[1].data \o Buf!Data(Tail(f))) \o b.data =
          f[1].data \o (Buf!Data(Tail(f)) \o b.data)
      <4>1. f[1].data \in Seq(Buf!Byte) /\ Buf!Data(Tail(f)) \in Seq(Buf!Byte)
            /\ b.data \in Seq(Buf!Byte)
        BY <2>3, <2>8
      <4>2. \A x, y, z \in Seq(Buf!Byte) : (x \o y) \o z = x \o (y \o z)
        BY Assoc
      <4> QED
        BY <4>1, <4>2, Zenon
    <3> QED
      BY <2>2, <2>6, <2>7, <3>1
<1>3. \A n \in Nat : n \in T
  <2> HIDE DEF T
  <2> QED
    BY <1>1, <1>2, Induction
<1>4. Len(d) - 1 \in Nat /\ Len(d) = (Len(d) - 1) + 1
  BY EmptySeq
<1> QED
  BY <1>3, <1>4

-----------------------------------------------------------------------------

\* A byte goes to the end of the last buffer.
LEMMA PutKeeps ==
  ASSUME NEW f \in Seq(Buf!Buffer), NEW l \in Buf!Buffer, l.room # 0, NEW b \in Buf!Byte
  PROVE  /\ Buf!Put(Append(f, l), b) =
            Append(f, [data |-> Append(l.data, b), room |-> l.room - 1])
         /\ [data |-> Append(l.data, b), room |-> l.room - 1] \in Buf!Buffer
         /\ Buf!Data(Buf!Put(Append(f, l), b)) = Append(Buf!Data(Append(f, l)), b)
<1> DEFINE c == Append(f, l)
           n == Len(f) + 1
           m == [data |-> Append(l.data, b), room |-> l.room - 1]
<1>1. c \in Seq(Buf!Buffer) /\ Len(c) = n /\ c[n] = l /\ n \in Nat
      /\ \A i \in 1..Len(f) : c[i] = f[i]
  BY AppendProperties, LenProperties
<1>2. m \in Buf!Buffer
  <2>1. l.data \in Seq(Buf!Byte) /\ l.room \in Nat
    BY DEF Buf!Buffer
  <2>2. Append(l.data, b) \in Seq(Buf!Byte) /\ l.room - 1 \in Nat
    BY <2>1, AppendProperties
  <2> QED
    BY <2>2 DEF Buf!Buffer
<1>3. Append(f, m) \in Seq(Buf!Buffer) /\ Len(Append(f, m)) = n /\ Append(f, m)[n] = m
      /\ \A i \in 1..Len(f) : Append(f, m)[i] = f[i]
  BY <1>2, AppendProperties
<1>4. Buf!Put(c, b) = Append(f, m)
  <2>1. Buf!Put(c, b) = [c EXCEPT ![n] = m]
    BY <1>1 DEF Buf!Put
  <2> HIDE DEF c, m
  <2>2. n \in 1..Len(c) /\ Len(f) \in Nat
    BY <1>1
  <2>3. Buf!Put(c, b) \in Seq(Buf!Buffer) /\ Len(Buf!Put(c, b)) = n
        /\ \A i \in 1..n : Buf!Put(c, b)[i] = IF i = n THEN m ELSE c[i]
    <3> HIDE DEF n
    <3> QED
      BY <1>1, <1>2, <2>1, <2>2, ExceptSeq
  <2>4. \A i \in 1..n : i # n => i \in 1..Len(f)
    BY <2>2
  <2>5. \A i \in 1..n : Buf!Put(c, b)[i] = Append(f, m)[i]
    <3> HIDE DEF n
    <3> QED
      BY <1>1, <1>3, <2>3, <2>4
  <2> HIDE DEF n
  <2> QED
    BY <1>3, <2>3, <2>5, SeqEqual
<1>5. Buf!Data(c) = Buf!Data(f) \o l.data
  BY DataAppend
<1>6. Buf!Data(Append(f, m)) = Buf!Data(f) \o Append(l.data, b)
  BY <1>2, DataAppend
<1>7. Buf!Data(f) \o Append(l.data, b) = Append(Buf!Data(f) \o l.data, b)
  <2>1. Buf!Data(f) \in Seq(Buf!Byte) /\ l.data \in Seq(Buf!Byte)
    BY DataType DEF Buf!Buffer
  <2> QED
    BY <2>1, AppendConcat
<1> QED
  BY <1>2, <1>4, <1>5, <1>6, <1>7

\* Full buffers and one more are a chain that is written to.
LEMMA AppendToOut ==
  ASSUME NEW f \in Seq(Buf!Buffer), NEW l \in Buf!Buffer, l.data # <<>>,
         \A k \in 1..Len(f) : f[k].data # <<>> /\ f[k].room = 0
  PROVE  Buf!OutChain(Append(f, l))
<1> DEFINE c == Append(f, l)
           n == Len(f) + 1
<1>1. c \in Seq(Buf!Buffer) /\ Len(c) = n /\ c[n] = l /\ n \in Nat
      /\ \A i \in 1..Len(f) : c[i] = f[i]
  BY AppendProperties, LenProperties
<1>2. \A k \in 1..n : k # n => k \in 1..Len(f)
  BY LenProperties
<1> HIDE DEF c, n
<1>3. \A k \in 1..Len(c) : c[k].data # <<>> /\ (c[k].room = 0 \/ k = Len(c))
  BY <1>1, <1>2
<1> QED
  BY <1>1, <1>3 DEF Buf!OutChain, c

\* A new buffer is empty and has room.
LEMMA NewBuffer ==
  ASSUME Buf!BuffersAssumption
  PROVE  Buf!NewConnectionBuffer \in Buf!Buffer /\ Buf!NewConnectionBuffer.data = <<>>
         /\ Buf!NewConnectionBuffer.room = Chunk /\ Chunk # 0
BY DEF Buf!BuffersAssumption, Buf!NewConnectionBuffer, Buf!Buffer

\* What was appended to is not empty.
LEMMA NotEmptyAppend ==
  ASSUME NEW S, NEW x \in Seq(S), NEW b \in S, Append(x, b) = <<>>
  PROVE  FALSE
<1>1. Len(Append(x, b)) = Len(x) + 1 /\ Len(x) \in Nat
  BY AppendProperties, LenProperties
<1>2. Len(Append(x, b)) = 0
  OBVIOUS
<1> QED
  BY <1>1, <1>2

\* A byte that is written goes to the end of the chain (write_out).
LEMMA WrittenKeeps ==
  ASSUME Buf!BuffersAssumption, NEW c, Buf!OutChain(c), NEW b \in Buf!Byte
  PROVE  Buf!OutChain(Buf!Written(c, b)) /\ Buf!Data(Buf!Written(c, b)) =
         Append(Buf!Data(c), b)
<1>1. c \in Seq(Buf!Buffer) /\ \A k \in 1..Len(c) :
        c[k].data # <<>> /\ (c[k].room = 0 \/ k = Len(c))
  BY DEF Buf!OutChain
<1> DEFINE More(l) == [data |-> Append(l.data, b), room |-> l.room - 1]
<1>2. ASSUME NEW f \in Seq(Buf!Buffer), NEW l \in Buf!Buffer, l.room # 0,
             \A k \in 1..Len(f) : f[k].data # <<>> /\ f[k].room = 0
      PROVE  Buf!OutChain(Buf!Put(Append(f, l), b))
             /\ Buf!Data(Buf!Put(Append(f, l), b)) = Append(Buf!Data(Append(f, l)), b)
  <2>1. Buf!Put(Append(f, l), b) = Append(f, More(l)) /\ More(l) \in Buf!Buffer
        /\ Buf!Data(Buf!Put(Append(f, l), b)) = Append(Buf!Data(Append(f, l)), b)
    BY <1>2, PutKeeps
  <2>2. More(l).data # <<>>
    <3>1. l.data \in Seq(Buf!Byte) /\ More(l).data = Append(l.data, b)
      BY DEF Buf!Buffer
    <3> HIDE DEF More
    <3> SUFFICES ASSUME More(l).data = <<>> PROVE FALSE
      OBVIOUS
    <3> QED
      BY <3>1, NotEmptyAppend
  <2> HIDE DEF More
  <2> QED
    BY <1>2, <2>1, <2>2, AppendToOut
<1>3. CASE c = <<>> \/ c[Len(c)].room = 0
  <2>1. Buf!Written(c, b) = Buf!Put(Append(c, Buf!NewConnectionBuffer), b)
    BY <1>3 DEF Buf!Written
  <2>2. Buf!Data(Append(c, Buf!NewConnectionBuffer)) = Buf!Data(c)
    <3>1. Buf!Data(Append(c, Buf!NewConnectionBuffer)) = Buf!Data(c) \o <<>>
      BY <1>1, NewBuffer, DataAppend
    <3> QED
      BY <1>1, <3>1, DataType, ConcatEmptySeq
  <2>3. \A k \in 1..Len(c) : c[k].data # <<>> /\ c[k].room = 0
    BY <1>1, <1>3
  <2> QED
    BY <1>1, <1>2, <2>1, <2>2, <2>3, NewBuffer
<1>4. CASE c # <<>> /\ c[Len(c)].room # 0
  <2> DEFINE f == Buf!Front(c)
             l == c[Len(c)]
  <2>1. f \in Seq(Buf!Buffer) /\ l \in Buf!Buffer /\ c = Append(f, l) /\ l.room # 0
        /\ Len(f) = Len(c) - 1 /\ Len(c) \in Nat /\ \A k \in 1..(Len(c) - 1) : f[k] = c[k]
    BY <1>1, <1>4, FrontAndLast
  <2>2. \A k \in 1..Len(f) : f[k].data # <<>> /\ f[k].room = 0
    <3> TAKE k \in 1..Len(f)
    <3> HIDE DEF f
    <3>1. k \in 1..Len(c) /\ k # Len(c) /\ f[k] = c[k]
      BY <2>1
    <3> QED
      BY <1>1, <3>1
  <2>3. Buf!Written(c, b) = Buf!Put(c, b)
    BY <1>4 DEF Buf!Written
  <2> HIDE DEF f, l
  <2> QED
    BY <1>2, <2>1, <2>2, <2>3
<1> QED
  BY <1>3, <1>4

\* Full buffers and one with room are a chain that is read into.
LEMMA AppendToIn ==
  ASSUME NEW f \in Seq(Buf!Buffer), NEW l \in Buf!Buffer, l.room # 0,
         \A k \in 1..Len(f) : f[k].data # <<>> /\ f[k].room = 0
  PROVE  Buf!InChain(Append(f, l))
<1> DEFINE c == Append(f, l)
           n == Len(f) + 1
<1>1. c \in Seq(Buf!Buffer) /\ Len(c) = n /\ c[n] = l /\ n \in Nat
      /\ \A i \in 1..Len(f) : c[i] = f[i]
  BY AppendProperties, LenProperties
<1>2. \A k \in 1..n : k # n => k \in 1..Len(f)
  BY LenProperties
<1> HIDE DEF c, n
<1>3. \A k \in 1..Len(c) : IF k = Len(c) THEN c[k].room # 0 ELSE c[k].data # <<>>
      /\ c[k].room = 0
  BY <1>1, <1>2
<1> QED
  BY <1>1, <1>3 DEF Buf!InChain, c

\* A byte that is read goes to the end of the chain (try_read).
LEMMA FilledWithKeeps ==
  ASSUME Buf!BuffersAssumption, NEW c, Buf!InChain(c), c # <<>>, NEW b \in Buf!Byte
  PROVE  Buf!InChain(Buf!FilledWith(c, b)) /\ Buf!FilledWith(c, b) # <<>>
         /\ Buf!Data(Buf!FilledWith(c, b)) = Append(Buf!Data(c), b)
<1>1. c \in Seq(Buf!Buffer) /\ \A k \in 1..Len(c) :
        IF k = Len(c) THEN c[k].room # 0 ELSE c[k].data # <<>> /\ c[k].room = 0
  BY DEF Buf!InChain
<1> DEFINE f == Buf!Front(c)
           l == c[Len(c)]
           more == [data |-> Append(l.data, b), room |-> l.room - 1]
           d == Buf!Put(c, b)
<1>2. f \in Seq(Buf!Buffer) /\ l \in Buf!Buffer /\ c = Append(f, l)
      /\ Len(f) = Len(c) - 1 /\ Len(c) \in Nat \ {0}
         /\ \A k \in 1..(Len(c) - 1) : f[k] = c[k]
  BY <1>1, FrontAndLast
<1>3. l.room # 0
  BY <1>1, <1>2
<1>4. \A k \in 1..Len(f) : f[k].data # <<>> /\ f[k].room = 0
  <2> TAKE k \in 1..Len(f)
  <2> HIDE DEF f
  <2>1. k \in 1..Len(c) /\ k # Len(c) /\ f[k] = c[k]
    BY <1>2
  <2> QED
    BY <1>1, <2>1
<1>5. d = Append(f, more) /\ more \in Buf!Buffer /\ Buf!Data(d) = Append(Buf!Data(c), b)
  <2> HIDE DEF f, l
  <2> QED
    BY <1>2, <1>3, PutKeeps
<1>6. more.data # <<>>
  <2>1. l.data \in Seq(Buf!Byte) /\ more.data = Append(l.data, b)
    BY <1>2 DEF Buf!Buffer
  <2> HIDE DEF more
  <2> SUFFICES ASSUME more.data = <<>> PROVE FALSE
    OBVIOUS
  <2> QED
    BY <2>1, NotEmptyAppend
<1>7. d \in Seq(Buf!Buffer) /\ d[Len(d)] = more /\ Len(d) = Len(f) + 1 /\ Len(f) \in Nat
      /\ \A k \in 1..Len(f) : d[k] = f[k]
  <2> HIDE DEF more, d, f
  <2> QED
    BY <1>2, <1>5, AppendProperties, LenProperties
<1> HIDE DEF f, l, more, d
<1>8. CASE d[Len(d)].room = 0
  <2>1. Buf!FilledWith(c, b) = Append(d, Buf!NewConnectionBuffer)
    BY <1>8 DEF Buf!FilledWith, d
  <2>2. \A k \in 1..Len(d) : d[k].data # <<>> /\ d[k].room = 0
    <3> TAKE k \in 1..Len(d)
    <3>1. k = Len(d) \/ k \in 1..Len(f)
      BY <1>7
    <3> QED
      BY <1>4, <1>6, <1>7, <1>8, <3>1
  <2>3. Buf!Data(Buf!FilledWith(c, b)) = Buf!Data(d) \o <<>>
    BY <1>7, <2>1, NewBuffer, DataAppend
  <2>4. Buf!Data(Buf!FilledWith(c, b)) = Buf!Data(d)
    BY <1>7, <2>3, DataType, ConcatEmptySeq
  <2>5. Buf!FilledWith(c, b) # <<>>
    <3> SUFFICES ASSUME Buf!FilledWith(c, b) = <<>> PROVE FALSE
      OBVIOUS
    <3> QED
      BY <1>7, <2>1, NewBuffer, NotEmptyAppend
  <2> QED
    BY <1>5, <1>7, <2>1, <2>2, <2>4, <2>5, NewBuffer, AppendToIn
<1>9. CASE d[Len(d)].room # 0
  <2>1. Buf!FilledWith(c, b) = d
    BY <1>9 DEF Buf!FilledWith, d
  <2>2. d # <<>>
    <3> SUFFICES ASSUME d = <<>> PROVE FALSE
      OBVIOUS
    <3> QED
      BY <1>2, <1>5, NotEmptyAppend
  <2> QED
    BY <1>2, <1>4, <1>5, <1>7, <1>9, <2>1, <2>2, AppendToIn
<1> QED
  BY <1>8, <1>9

\* The first of two loses its head, and so do both.
LEMMA TailConcat ==
  ASSUME NEW S, NEW x \in Seq(S), NEW y \in Seq(S), x # <<>>
  PROVE  Tail(x \o y) = Tail(x) \o y
<1>1. Len(x) \in Nat \ {0} /\ Len(y) \in Nat
  BY LenPositive, LenProperties
<1>2. /\ x \o y \in Seq(S) /\ Len(x \o y) = Len(x) + Len(y)
      /\ \A i \in 1..(Len(x) + Len(y)) : (x \o y)[i] = IF i <= Len(x) THEN x[i]
         ELSE y[i - Len(x)]
  BY ConcatProperties
<1>3. x \o y # <<>>
  <2> SUFFICES ASSUME x \o y = <<>> PROVE FALSE
    OBVIOUS
  <2>1. Len(x \o y) = 0
    OBVIOUS
  <2> QED
    BY <1>1, <1>2, <2>1
<1>4. /\ Tail(x) \in Seq(S) /\ Len(Tail(x)) = Len(x) - 1
      /\ \A i \in 1..Len(Tail(x)) : Tail(x)[i] = x[i + 1]
  BY HeadTailProperties
<1>5. /\ Tail(x \o y) \in Seq(S) /\ Len(Tail(x \o y)) = Len(x \o y) - 1
      /\ \A i \in 1..Len(Tail(x \o y)) : Tail(x \o y)[i] = (x \o y)[i + 1]
  BY <1>2, <1>3, HeadTailProperties
<1>6. /\ Tail(x) \o y \in Seq(S) /\ Len(Tail(x) \o y) = Len(Tail(x)) + Len(y)
      /\ \A i \in 1..(Len(Tail(x)) + Len(y)) :
           (Tail(x) \o y)[i] = IF i <= Len(Tail(x)) THEN Tail(x)[i]
           ELSE y[i - Len(Tail(x))]
  BY <1>4, ConcatProperties
<1> DEFINE n == Len(x)
           m == Len(y)
           u == Tail(x \o y)
           v == Tail(x) \o y
           w == x \o y
           t == Tail(x)
<1>7. Len(u) = (n + m) - 1 /\ Len(v) = (n - 1) + m
  BY <1>2, <1>4, <1>5, <1>6
<1>8. \A i \in 1..((n + m) - 1) : u[i] = v[i]
  <2> TAKE i \in 1..((n + m) - 1)
  <2>1. n \in Nat /\ m \in Nat /\ n # 0 /\ Len(u) = (n + m) - 1 /\ Len(t) = n - 1
    BY <1>1, <1>4, <1>7
  <2>2. \A j \in 1..Len(u) : u[j] = w[j + 1]
    BY <1>5
  <2>3. \A j \in 1..(n + m) : w[j] = IF j <= n THEN x[j] ELSE y[j - n]
    BY <1>2
  <2>4. \A j \in 1..(Len(t) + m) : v[j] = IF j <= Len(t) THEN t[j] ELSE y[j - Len(t)]
    BY <1>6
  <2>5. \A j \in 1..Len(t) : t[j] = x[j + 1]
    BY <1>4
  <2> HIDE DEF n, m, u, v, w, t
  <2>6. i + 1 \in 1..(n + m) /\ i \in 1..Len(u) /\ i \in 1..(Len(t) + m)
        /\ (i + 1) - n = i - Len(t) /\ (i + 1 <= n <=> i <= Len(t))
        /\ (i <= Len(t) => i \in 1..Len(t))
    BY <2>1
  <2>7. u[i] = IF i + 1 <= n THEN x[i + 1] ELSE y[(i + 1) - n]
    BY <2>2, <2>3, <2>6
  <2>8. v[i] = IF i <= Len(t) THEN t[i] ELSE y[i - Len(t)]
    BY <2>4, <2>6
  <2> QED
    BY <2>5, <2>6, <2>7, <2>8
<1>9. u \in Seq(S) /\ v \in Seq(S)
  BY <1>5, <1>6
<1>10. n \in Nat /\ m \in Nat
  BY <1>1
<1> HIDE DEF n, m, u, v, w, t
<1>11. u = v
  BY <1>7, <1>8, <1>9, <1>10, SeqEqual
<1> QED
  BY <1>11 DEF u, v

\* A byte that is taken is the first, and a buffer that was read to the
\* end goes (read_in, try_write).
LEMMA TakenKeeps ==
  ASSUME NEW c \in Seq(Buf!Buffer), Buf!Data(c) # <<>>, Buf!OutChain(c) \/ Buf!InChain(c)
  PROVE  /\ Buf!Data(Buf!Taken(c)) = Tail(Buf!Data(c))
         /\ Buf!OutChain(c) => Buf!OutChain(Buf!Taken(c))
         /\ Buf!InChain(c) => Buf!InChain(Buf!Taken(c))
<1>1. c # <<>>
  BY DataEmpty
<1>2. Len(c) \in Nat \ {0} /\ \A k \in 1..Len(c) : c[k] \in Buf!Buffer
  BY <1>1, LenPositive, ElementOfSeq
<1>3. c[1] \in Buf!Buffer /\ c[1].data \in Seq(Buf!Byte)
  BY <1>2 DEF Buf!Buffer
<1> DEFINE r == Tail(c)
           d == c[1].data
           n == Len(c)
<1>4. r \in Seq(Buf!Buffer) /\ Len(r) = n - 1 /\ \A k \in 1..Len(r) : r[k] = c[k + 1]
  BY <1>1, HeadTailProperties
<1>5. Buf!Data(c) = d \o Buf!Data(r) /\ Buf!Data(r) \in Seq(Buf!Byte)
  BY <1>1, <1>4, DataFirst, DataType
<1>6. d # <<>>
  <2>1. CASE n = 1
    <3>1. r = <<>>
      <4> HIDE DEF r, n
      <4>1. r \in Seq(Buf!Buffer) /\ Len(r) = 0
        BY <1>4, <2>1
      <4> QED
        BY <4>1, Empty
    <3>2. Buf!Data(c) = d
      BY <1>3, <1>5, <3>1, DataEmpty, ConcatEmptySeq
    <3> QED
      BY <3>2
  <2>2. CASE n # 1
    <3>1. 1 \in 1..Len(c) /\ 1 # Len(c)
      BY <1>2, <2>2
    <3> QED
      BY <3>1 DEF Buf!OutChain, Buf!InChain
  <2> QED
    BY <2>1, <2>2
<1>7. Tail(Buf!Data(c)) = Tail(d) \o Buf!Data(r)
  <2> HIDE DEF d, r
  <2>1. d \in Seq(Buf!Byte)
    BY <1>3 DEF d
  <2> QED
    BY <1>5, <1>6, <2>1, TailConcat
<1>8. CASE Len(d) > 1
  <2> DEFINE b == [c[1] EXCEPT !.data = Tail(d)]
             e == Buf!Taken(c)
  <2>1. Tail(d) \in Seq(Buf!Byte) /\ Len(Tail(d)) = Len(d) - 1
    BY <1>3, <1>6, HeadTailProperties
  <2>2. b \in Buf!Buffer /\ b.data = Tail(d) /\ b.room = c[1].room
    BY <1>3, <2>1 DEF Buf!Buffer
  <2>3. Buf!Taken(c) = [c EXCEPT ![1] = b]
    BY <1>8 DEF Buf!Taken
  <2> HIDE DEF b
  <2>4. 1 \in 1..Len(c)
    BY <1>2
  <2>5. e \in Seq(Buf!Buffer) /\ Len(e) = n /\ \A k \in 1..n : e[k] = IF k = 1 THEN b
        ELSE c[k]
    BY <2>2, <2>3, <2>4, ExceptSeq
  <2> HIDE DEF e
  <2>6. e # <<>>
    <3> SUFFICES ASSUME e = <<>> PROVE FALSE
      OBVIOUS
    <3>1. Len(e) = 0
      OBVIOUS
    <3> QED
      BY <1>2, <2>5, <3>1
  <2>7. Tail(e) \in Seq(Buf!Buffer) /\ Len(Tail(e)) = n - 1
        /\ \A k \in 1..Len(Tail(e)) : Tail(e)[k] = e[k + 1]
    BY <2>5, <2>6, HeadTailProperties
  <2>8. Tail(e) = r
    <3>1. \A k \in 1..(n - 1) : Tail(e)[k] = r[k]
      <4> TAKE k \in 1..(n - 1)
      <4>1. Tail(e)[k] = e[k + 1] /\ r[k] = c[k + 1]
        BY <1>4, <2>7
      <4>2. k + 1 \in 1..n /\ k + 1 # 1
        BY <1>2
      <4> QED
        BY <2>5, <4>1, <4>2
    <3> HIDE DEF r, n
    <3> QED
      BY <1>4, <2>7, <3>1, SeqEqual
  <2>9. e[1] = b
    BY <2>4, <2>5
  <2>10. Buf!Data(e) = Tail(d) \o Buf!Data(r)
    BY <2>2, <2>5, <2>6, <2>8, <2>9, DataFirst
  <2>11. b.data # <<>>
    <3> SUFFICES ASSUME b.data = <<>> PROVE FALSE
      OBVIOUS
    <3> DEFINE t == Tail(d)
               m == Len(d)
    <3>1. t = <<>> /\ Len(t) = m - 1 /\ m \in Nat /\ m > 1
      BY <1>3, <1>8, <2>1, <2>2, LenProperties
    <3> HIDE DEF t, m
    <3>2. Len(t) = 0
      BY <3>1
    <3> QED
      BY <3>1, <3>2
  <2>12. Buf!OutChain(c) => Buf!OutChain(e)
    <3> SUFFICES ASSUME Buf!OutChain(c), NEW k \in 1..n
                 PROVE  e[k].data # <<>> /\ (e[k].room = 0 \/ k = n)
      BY <2>5 DEF Buf!OutChain
    <3>1. c[k].data # <<>> /\ (c[k].room = 0 \/ k = n)
      BY DEF Buf!OutChain
    <3> QED
      BY <2>2, <2>5, <2>11, <3>1
  <2>13. Buf!InChain(c) => Buf!InChain(e)
    <3> SUFFICES ASSUME Buf!InChain(c), NEW k \in 1..n
                 PROVE  IF k = n THEN e[k].room # 0 ELSE e[k].data # <<>> /\ e[k].room = 0
      BY <2>5 DEF Buf!InChain
    <3>1. IF k = n THEN c[k].room # 0 ELSE c[k].data # <<>> /\ c[k].room = 0
      BY DEF Buf!InChain
    <3> QED
      BY <2>2, <2>5, <2>11, <3>1
  <2> QED
    BY <1>7, <2>10, <2>12, <2>13 DEF e
<1>9. CASE ~(Len(d) > 1)
  <2>1. Buf!Taken(c) = r
    BY <1>9 DEF Buf!Taken
  <2>2. Tail(d) = <<>>
    <3>1. Tail(d) \in Seq(Buf!Byte) /\ Len(Tail(d)) = Len(d) - 1 /\ Len(d) \in Nat \ {0}
      BY <1>3, <1>6, HeadTailProperties, LenPositive
    <3>2. Len(Tail(d)) = 0
      <4> HIDE DEF d
      <4> QED
        BY <1>9, <3>1
    <3> HIDE DEF d
    <3> QED
      BY <3>1, <3>2, Empty
  <2>3. Tail(d) \o Buf!Data(r) = Buf!Data(r)
    BY <1>5, <2>2, ConcatEmptySeq
  <2>4. \A k \in 1..Len(r) : k + 1 \in 1..n /\ (k = Len(r) <=> k + 1 = n)
    <3> HIDE DEF r, n
    <3> QED
      BY <1>2, <1>4 DEF n
  <2>5. Buf!OutChain(c) => Buf!OutChain(r)
    <3> SUFFICES ASSUME Buf!OutChain(c), NEW k \in 1..Len(r)
                 PROVE  r[k].data # <<>> /\ (r[k].room = 0 \/ k = Len(r))
      BY <1>4 DEF Buf!OutChain
    <3>1. c[k + 1].data # <<>> /\ (c[k + 1].room = 0 \/ k + 1 = n)
      BY <2>4 DEF Buf!OutChain
    <3> QED
      BY <1>4, <2>4, <3>1
  <2>6. Buf!InChain(c) => Buf!InChain(r)
    <3> SUFFICES ASSUME Buf!InChain(c), NEW k \in 1..Len(r)
                 PROVE  IF k = Len(r) THEN r[k].room # 0 ELSE r[k].data # <<>>
                        /\ r[k].room = 0
      BY <1>4 DEF Buf!InChain
    <3>1. IF k + 1 = n THEN c[k + 1].room # 0 ELSE c[k + 1].data # <<>>
          /\ c[k + 1].room = 0
      BY <2>4 DEF Buf!InChain
    <3> QED
      BY <1>4, <2>4, <3>1
  <2> QED
    BY <1>7, <2>1, <2>3, <2>5, <2>6
<1> QED
  BY <1>8, <1>9

\* The first n + 1 elements are the first n and one more.
LEMMA PrefixAppend ==
  ASSUME NEW S, NEW x \in Seq(S), NEW n \in Nat, n < Len(x)
  PROVE  SubSeq(x, 1, n + 1) = Append(SubSeq(x, 1, n), x[n + 1]) /\ x[n + 1] \in S
<1> DEFINE y == SubSeq(x, 1, n + 1)
           z == SubSeq(x, 1, n)
<1>1. n \in 0..Len(x) /\ n + 1 \in 0..Len(x) /\ n + 1 \in 1..Len(x) /\ Len(x) \in Nat
  BY LenProperties
<1>2. y \in Seq(S) /\ Len(y) = n + 1 /\ \A i \in 1..(n + 1) : y[i] = x[i]
  <2> DEFINE m == n + 1
  <2>1. m \in 0..Len(x) /\ y = SubSeq(x, 1, m)
    BY <1>1
  <2> HIDE DEF m, y
  <2>2. y \in Seq(S) /\ Len(y) = m /\ \A i \in 1..m : y[i] = x[i]
    BY <2>1, Prefix
  <2> QED
    BY <2>2 DEF m
<1>3. z \in Seq(S) /\ Len(z) = n /\ \A i \in 1..n : z[i] = x[i]
  BY <1>1, Prefix
<1>4. x[n + 1] \in S
  BY <1>1, ElementOfSeq
<1> HIDE DEF y, z
<1>5. Append(z, x[n + 1]) \in Seq(S) /\ Len(Append(z, x[n + 1])) = n + 1
      /\ \A i \in 1..n : Append(z, x[n + 1])[i] = z[i]
      /\ Append(z, x[n + 1])[n + 1] = x[n + 1]
  BY <1>3, <1>4, AppendProperties
<1>6. \A i \in 1..(n + 1) : y[i] = Append(z, x[n + 1])[i]
  <2> TAKE i \in 1..(n + 1)
  <2>1. i = n + 1 \/ i \in 1..n
    OBVIOUS
  <2> QED
    BY <1>2, <1>3, <1>5, <2>1
<1>7. y = Append(z, x[n + 1])
  BY <1>2, <1>5, <1>6, SeqEqual
<1> QED
  BY <1>4, <1>7 DEF y, z

\* What is written goes to the end of the chain (write_out).
LEMMA WriteOutKeeps ==
  ASSUME Buf!BuffersAssumption, NEW c, Buf!OutChain(c), NEW bs \in Seq(Buf!Byte)
  PROVE  Buf!OutChain(Buf!WriteOut(c, bs)) /\ Buf!Data(Buf!WriteOut(c, bs)) =
         Buf!Data(c) \o bs
<1> DEFINE N == Len(bs)
           V == Seq(Buf!Buffer)
           Good(n, x) == n <= N /\ Buf!OutChain(x) /\ Buf!Data(x) =
           Buf!Data(c) \o SubSeq(bs, 1, n)
           P == {p \in Nat \X V : Good(p[1], p[2])}
           step == [p \in P |-> IF p[1] < N THEN Buf!Written(p[2], bs[p[1] + 1]) ELSE p[2]]
<1>1. N \in Nat /\ c \in V /\ Buf!Data(c) \in Seq(Buf!Byte)
  BY LenProperties, DataType DEF Buf!OutChain
<1>2. ASSUME NEW n \in Nat, NEW x \in V, n < N, Good(n, x)
      PROVE  Good(n + 1, Buf!Written(x, bs[n + 1])) /\ Buf!Written(x, bs[n + 1]) \in V
  <2> DEFINE b == bs[n + 1]
             y == SubSeq(bs, 1, n)
  <2>1. SubSeq(bs, 1, n + 1) = Append(y, b) /\ b \in Buf!Byte /\ y \in Seq(Buf!Byte)
    <3>1. n \in 0..Len(bs)
      BY <1>1, <1>2
    <3> QED
      BY <1>2, <3>1, PrefixAppend, Prefix
  <2>2. Buf!OutChain(Buf!Written(x, b)) /\ Buf!Data(Buf!Written(x, b)) =
        Append(Buf!Data(c) \o y, b)
    BY <1>2, <2>1, WrittenKeeps
  <2> HIDE DEF b, y
  <2>3. Buf!Data(Buf!Written(x, b)) = Buf!Data(c) \o Append(y, b)
    <3>1. \A s, t \in Seq(Buf!Byte), u \in Buf!Byte : s \o Append(t, u) =
          Append(s \o t, u)
      BY AppendConcat
    <3> QED
      BY <1>1, <2>1, <2>2, <3>1, Zenon
  <2>4. n + 1 <= N
    BY <1>1, <1>2
  <2>5. Buf!Written(x, b) \in V
    BY <2>2 DEF Buf!OutChain
  <2> QED
    BY <2>1, <2>2, <2>3, <2>4, <2>5 DEF b
<1>3. Good(0, c)
  <2>1. SubSeq(bs, 1, 0) = <<>>
    BY SubSeqEmpty
  <2>2. Buf!Data(c) \o <<>> = Buf!Data(c)
    BY <1>1, ConcatEmptySeq
  <2> QED
    BY <1>1, <2>1, <2>2
<1>4. \A n \in Nat, x \in V : <<n, x>> \in P <=> Good(n, x)
  <2> HIDE DEF Good
  <2> QED
    OBVIOUS
<1>5. P \in SUBSET (Nat \X V)
  <2> HIDE DEF Good
  <2> QED
    OBVIOUS
<1>6. \A n \in Nat, x \in V : <<n, x>> \in P /\ n < N => step[<<n, x>>] =
      Buf!Written(x, bs[n + 1])
  <2> HIDE DEF P
  <2> QED
    OBVIOUS
<1>7. step \in [P -> V]
  <2> SUFFICES ASSUME NEW p \in P PROVE step[p] \in V
    <3> HIDE DEF P
    <3> QED
      OBVIOUS
  <2>1. p[1] \in Nat /\ p[2] \in V /\ Good(p[1], p[2])
    <3> HIDE DEF Good
    <3> QED
      OBVIOUS
  <2> HIDE DEF Good, P
  <2> QED
    BY <1>2, <2>1
<1> HIDE DEF Good, step
<1>8. Keeps(step, P, V, N)
  <2> SUFFICES ASSUME NEW n \in Nat, NEW x \in V, n < N, <<n, x>> \in P
               PROVE  <<n + 1, step[<<n, x>>]>> \in P
    BY DEF Keeps
  <2>1. Good(n + 1, Buf!Written(x, bs[n + 1])) /\ Buf!Written(x, bs[n + 1]) \in V
        /\ n + 1 \in Nat
    BY <1>2, <1>4
  <2>2. step[<<n, x>>] = Buf!Written(x, bs[n + 1])
    BY <1>6
  <2> HIDE DEF P
  <2> QED
    BY <1>4, <2>1, <2>2
<1>9. <<0, c>> \in P
  BY <1>1, <1>3, <1>4
<1> HIDE DEF P, V, N
<1>10. PICK f : Steps(f, P, c, N, step)
  BY <1>1, <1>5, <1>7, <1>8, <1>9, Loop
<1> DEFINE w == CHOOSE w : w =
                [n \in 0..N |-> IF n = 0 THEN c ELSE Buf!Written(w[n - 1], bs[n])]
<1>11. w = [n \in 0..N |-> IF n = 0 THEN c ELSE Buf!Written(w[n - 1], bs[n])]
  <2>1. \A n \in 0..N : f[n] = IF n = 0 THEN c ELSE Buf!Written(f[n - 1], bs[n])
    <3> TAKE n \in 0..N
    <3>1. CASE n # 0
      <4>1. n - 1 \in 0..N /\ n - 1 \in Nat /\ n - 1 < N /\ (n - 1) + 1 = n /\ n \in 1..N
        BY <1>1, <3>1
      <4>2. <<n - 1, f[n - 1]>> \in P /\ f[n] = step[<<n - 1, f[n - 1]>>]
        BY <1>10, <4>1 DEF Steps
      <4>3. f[n - 1] \in V
        BY <1>5, <4>2
      <4> QED
        BY <1>6, <3>1, <4>1, <4>2, <4>3
    <3> QED
      BY <1>10, <3>1 DEF Steps
  <2>2. f = [n \in 0..N |-> f[n]]
    BY <1>10 DEF Steps
  <2>3. f = [n \in 0..N |-> IF n = 0 THEN c ELSE Buf!Written(f[n - 1], bs[n])]
    BY <2>1, <2>2
  <2> QED
    BY <2>3
<1> HIDE DEF w
<1>12. Buf!WriteOut(c, bs) = w[N]
  BY DEF Buf!WriteOut, w, N
<1>13. w[0] = c /\ \A n \in 1..N : w[n] = Buf!Written(w[n - 1], bs[n])
  <2>1. 0 \in 0..N /\ \A n \in 1..N : n \in 0..N /\ n # 0
    BY <1>1
  <2>2. \A n \in 0..N : w[n] = IF n = 0 THEN c ELSE Buf!Written(w[n - 1], bs[n])
    BY <1>11
  <2> QED
    BY <2>1, <2>2
<1>14. Follows(w, P, c, N, step)
  <2> SUFFICES ASSUME NEW n \in 1..N, <<n - 1, w[n - 1]>> \in P PROVE w[n] =
                      step[<<n - 1, w[n - 1]>>]
    BY <1>13 DEF Follows
  <2>1. n - 1 \in Nat /\ n - 1 < N /\ (n - 1) + 1 = n /\ w[n - 1] \in V
    BY <1>1, <1>5
  <2> QED
    BY <1>6, <1>13, <2>1
<1>15. Stays(w, P, N)
  BY <1>1, <1>5, <1>8, <1>9, <1>14, LoopKeeps
<1>16. <<N, w[N]>> \in P
  BY <1>1, <1>15 DEF Stays
<1>17. Good(N, w[N])
  BY <1>1, <1>4, <1>5, <1>16
<1>18. SubSeq(bs, 1, N) = bs
  BY SubSeqFull DEF N
<1> QED
  BY <1>12, <1>17, <1>18 DEF Good

\* What is read from the socket goes to the end of the chain (try_read).
LEMMA FilledKeeps ==
  ASSUME Buf!BuffersAssumption, NEW d, Buf!InChain(d), NEW bs \in Seq(Buf!Byte)
  PROVE  Buf!InChain(Buf!Filled(d, bs)) /\ Buf!Data(Buf!Filled(d, bs)) = Buf!Data(d) \o bs
<1> DEFINE c == IF d = <<>> THEN <<Buf!NewConnectionBuffer>> ELSE d
<1>0. Buf!InChain(c) /\ c # <<>> /\ Buf!Data(c) = Buf!Data(d)
  <2>1. CASE d = <<>>
    <3>1. c = Append(<<>>, Buf!NewConnectionBuffer)
      BY <2>1
    <3>2. <<>> \in Seq(Buf!Buffer) /\ Len(<<>>) = 0
      OBVIOUS
    <3>3. Buf!InChain(c)
      <4> DEFINE e == <<>>
      <4>1. e \in Seq(Buf!Buffer) /\ \A k \in 1..Len(e) : e[k].data # <<>>
            /\ e[k].room = 0
        BY <3>2
      <4>2. c = Append(e, Buf!NewConnectionBuffer)
        BY <3>1
      <4> HIDE DEF e
      <4> QED
        BY <4>1, <4>2, NewBuffer, AppendToIn
    <3>4. c # <<>>
      BY <2>1
    <3>5. Buf!Data(c) = <<>> \o <<>>
      BY <3>1, <3>2, NewBuffer, DataAppend, DataEmpty
    <3>6. Buf!Data(c) = <<>>
      BY <3>5
    <3> QED
      BY <2>1, <3>3, <3>4, <3>6, DataEmpty
  <2> QED
    BY <2>1
<1> HIDE DEF c
<1> DEFINE N == Len(bs)
           V == Seq(Buf!Buffer)
           Good(n, x) == n <= N /\ Buf!InChain(x) /\ x # <<>> /\ Buf!Data(x) =
           Buf!Data(c) \o SubSeq(bs, 1, n)
           P == {p \in Nat \X V : Good(p[1], p[2])}
           step == [p \in P |-> IF p[1] < N THEN Buf!FilledWith(p[2], bs[p[1] + 1]) ELSE p[2]]
<1>1. N \in Nat /\ c \in V /\ Buf!Data(c) \in Seq(Buf!Byte)
  BY <1>0, LenProperties, DataType DEF Buf!InChain
<1>2. ASSUME NEW n \in Nat, NEW x \in V, n < N, Good(n, x)
      PROVE  Good(n + 1, Buf!FilledWith(x, bs[n + 1]))
             /\ Buf!FilledWith(x, bs[n + 1]) \in V
  <2> DEFINE b == bs[n + 1]
             y == SubSeq(bs, 1, n)
  <2>1. SubSeq(bs, 1, n + 1) = Append(y, b) /\ b \in Buf!Byte /\ y \in Seq(Buf!Byte)
    <3>1. n \in 0..Len(bs)
      BY <1>1, <1>2
    <3> QED
      BY <1>2, <3>1, PrefixAppend, Prefix
  <2>2. Buf!InChain(Buf!FilledWith(x, b)) /\ Buf!FilledWith(x, b) # <<>>
        /\ Buf!Data(Buf!FilledWith(x, b)) = Append(Buf!Data(c) \o y, b)
    BY <1>2, <2>1, FilledWithKeeps
  <2> HIDE DEF b, y
  <2>3. Buf!Data(Buf!FilledWith(x, b)) = Buf!Data(c) \o Append(y, b)
    <3>1. \A s, t \in Seq(Buf!Byte), u \in Buf!Byte : s \o Append(t, u) =
          Append(s \o t, u)
      BY AppendConcat
    <3> QED
      BY <1>1, <2>1, <2>2, <3>1, Zenon
  <2>4. n + 1 <= N
    BY <1>1, <1>2
  <2>5. Buf!FilledWith(x, b) \in V
    BY <2>2 DEF Buf!InChain
  <2> QED
    BY <2>1, <2>2, <2>3, <2>4, <2>5 DEF b
<1>3. Good(0, c)
  <2>1. SubSeq(bs, 1, 0) = <<>>
    BY SubSeqEmpty
  <2>2. Buf!Data(c) \o <<>> = Buf!Data(c)
    BY <1>1, ConcatEmptySeq
  <2> QED
    BY <1>0, <1>1, <2>1, <2>2
<1>4. \A n \in Nat, x \in V : <<n, x>> \in P <=> Good(n, x)
  <2> HIDE DEF Good
  <2> QED
    OBVIOUS
<1>5. P \in SUBSET (Nat \X V)
  <2> HIDE DEF Good
  <2> QED
    OBVIOUS
<1>6. \A n \in Nat, x \in V : <<n, x>> \in P /\ n < N => step[<<n, x>>] =
      Buf!FilledWith(x, bs[n + 1])
  <2> HIDE DEF P
  <2> QED
    OBVIOUS
<1>7. step \in [P -> V]
  <2> SUFFICES ASSUME NEW p \in P PROVE step[p] \in V
    <3> HIDE DEF P
    <3> QED
      OBVIOUS
  <2>1. p[1] \in Nat /\ p[2] \in V /\ Good(p[1], p[2])
    <3> HIDE DEF Good
    <3> QED
      OBVIOUS
  <2> HIDE DEF Good, P
  <2> QED
    BY <1>2, <2>1
<1> HIDE DEF Good, step
<1>8. Keeps(step, P, V, N)
  <2> SUFFICES ASSUME NEW n \in Nat, NEW x \in V, n < N, <<n, x>> \in P
               PROVE  <<n + 1, step[<<n, x>>]>> \in P
    BY DEF Keeps
  <2>1. Good(n + 1, Buf!FilledWith(x, bs[n + 1])) /\ Buf!FilledWith(x, bs[n + 1]) \in V
        /\ n + 1 \in Nat
    BY <1>2, <1>4
  <2>2. step[<<n, x>>] = Buf!FilledWith(x, bs[n + 1])
    BY <1>6
  <2> HIDE DEF P
  <2> QED
    BY <1>4, <2>1, <2>2
<1>9. <<0, c>> \in P
  BY <1>1, <1>3, <1>4
<1> HIDE DEF P, V, N
<1>10. PICK f : Steps(f, P, c, N, step)
  BY <1>1, <1>5, <1>7, <1>8, <1>9, Loop
<1> DEFINE w == CHOOSE w : w =
                [n \in 0..N |-> IF n = 0 THEN c ELSE Buf!FilledWith(w[n - 1], bs[n])]
<1>11. w = [n \in 0..N |-> IF n = 0 THEN c ELSE Buf!FilledWith(w[n - 1], bs[n])]
  <2>1. \A n \in 0..N : f[n] = IF n = 0 THEN c ELSE Buf!FilledWith(f[n - 1], bs[n])
    <3> TAKE n \in 0..N
    <3>1. CASE n # 0
      <4>1. n - 1 \in 0..N /\ n - 1 \in Nat /\ n - 1 < N /\ (n - 1) + 1 = n /\ n \in 1..N
        BY <1>1, <3>1
      <4>2. <<n - 1, f[n - 1]>> \in P /\ f[n] = step[<<n - 1, f[n - 1]>>]
        BY <1>10, <4>1 DEF Steps
      <4>3. f[n - 1] \in V
        BY <1>5, <4>2
      <4> QED
        BY <1>6, <3>1, <4>1, <4>2, <4>3
    <3> QED
      BY <1>10, <3>1 DEF Steps
  <2>2. f = [n \in 0..N |-> f[n]]
    BY <1>10 DEF Steps
  <2>3. f = [n \in 0..N |-> IF n = 0 THEN c ELSE Buf!FilledWith(f[n - 1], bs[n])]
    BY <2>1, <2>2
  <2> QED
    BY <2>3
<1> HIDE DEF w
<1>12. Buf!Filled(d, bs) = w[N]
  BY DEF Buf!Filled, w, N, c
<1>13. w[0] = c /\ \A n \in 1..N : w[n] = Buf!FilledWith(w[n - 1], bs[n])
  <2>1. 0 \in 0..N /\ \A n \in 1..N : n \in 0..N /\ n # 0
    BY <1>1
  <2>2. \A n \in 0..N : w[n] = IF n = 0 THEN c ELSE Buf!FilledWith(w[n - 1], bs[n])
    BY <1>11
  <2> QED
    BY <2>1, <2>2
<1>14. Follows(w, P, c, N, step)
  <2> SUFFICES ASSUME NEW n \in 1..N, <<n - 1, w[n - 1]>> \in P PROVE w[n] =
                      step[<<n - 1, w[n - 1]>>]
    BY <1>13 DEF Follows
  <2>1. n - 1 \in Nat /\ n - 1 < N /\ (n - 1) + 1 = n /\ w[n - 1] \in V
    BY <1>1, <1>5
  <2> QED
    BY <1>6, <1>13, <2>1
<1>15. Stays(w, P, N)
  BY <1>1, <1>5, <1>8, <1>9, <1>14, LoopKeeps
<1>16. <<N, w[N]>> \in P
  BY <1>1, <1>15 DEF Stays
<1>17. Good(N, w[N])
  BY <1>1, <1>4, <1>5, <1>16
<1>18. SubSeq(bs, 1, N) = bs
  BY SubSeqFull DEF N
<1> QED
  BY <1>0, <1>12, <1>17, <1>18 DEF Good

\* What follows after n + 1 elements is the tail of what follows after n.
LEMMA RestTail ==
  ASSUME NEW S, NEW x \in Seq(S), NEW k \in Nat, k < Len(x)
  PROVE  /\ SubSeq(x, k + 1, Len(x)) # <<>>
         /\ Tail(SubSeq(x, k + 1, Len(x))) = SubSeq(x, (k + 1) + 1, Len(x))
<1> DEFINE L == Len(x)
           y == SubSeq(x, k + 1, L)
           m == k + 1
           z == SubSeq(x, m + 1, L)
<1>1. L \in Nat /\ k \in Nat /\ k < L /\ m \in Nat /\ m <= L /\ k <= L
  BY LenProperties
<1>2. y \in Seq(S) /\ Len(y) = L - k /\ \A i \in 1..(L - k) : y[i] = x[k + i]
  BY <1>1, Middle
<1>3. z \in Seq(S) /\ Len(z) = L - m /\ \A i \in 1..(L - m) : z[i] = x[m + i]
  <2> HIDE DEF m
  <2> QED
    BY <1>1, Middle
<1> HIDE DEF y, z, L
<1>4. y # <<>>
  <2> SUFFICES ASSUME y = <<>> PROVE FALSE
    OBVIOUS
  <2>1. Len(y) = 0
    OBVIOUS
  <2> QED
    BY <1>1, <1>2, <2>1
<1> DEFINE t == Tail(y)
<1>5. t \in Seq(S) /\ Len(t) = Len(y) - 1 /\ \A i \in 1..Len(t) : t[i] = y[i + 1]
  BY <1>2, <1>4, HeadTailProperties
<1> HIDE DEF t
<1>6. Len(t) = L - m /\ Len(z) = Len(t)
  BY <1>1, <1>2, <1>3, <1>5
<1>7. \A i \in 1..Len(t) : t[i] = z[i]
  <2> TAKE i \in 1..Len(t)
  <2>1. i \in 1..(L - m) /\ i + 1 \in 1..(L - k) /\ k + (i + 1) = m + i
    BY <1>1, <1>6
  <2> QED
    BY <1>2, <1>3, <1>5, <2>1
<1>8. t = z
  BY <1>3, <1>5, <1>6, <1>7, SeqEqual
<1> QED
  BY <1>4, <1>8 DEF t, y, z, L

\* What is taken is the beginning (read_in, try_write).
LEMMA DroppedKeeps ==
  ASSUME NEW c \in Seq(Buf!Buffer), Buf!OutChain(c) \/ Buf!InChain(c),
         NEW N \in 0..Len(Buf!Data(c))
  PROVE  /\ Buf!OutChain(c) => Buf!OutChain(Buf!Dropped(c, N))
         /\ Buf!InChain(c) => Buf!InChain(Buf!Dropped(c, N))
         /\ Buf!Data(Buf!Dropped(c, N)) = SubSeq(Buf!Data(c), N + 1, Len(Buf!Data(c)))
<1> DEFINE D == Buf!Data(c)
           L == Len(D)
           V == Seq(Buf!Buffer)
           Good(n, x) == /\ n <= N /\ (Buf!OutChain(c) => Buf!OutChain(x))
                            /\ (Buf!InChain(c) => Buf!InChain(x))
                         /\ Buf!Data(x) = SubSeq(D, n + 1, L)
           P == {p \in Nat \X V : Good(p[1], p[2])}
           step == [p \in P |-> IF p[1] < N THEN Buf!Taken(p[2]) ELSE p[2]]
<1>1. N \in Nat /\ c \in V /\ D \in Seq(Buf!Byte) /\ L \in Nat /\ N <= L
  BY LenProperties, DataType
<1>2. ASSUME NEW n \in Nat, NEW x \in V, n < N, Good(n, x)
      PROVE  Good(n + 1, Buf!Taken(x)) /\ Buf!Taken(x) \in V
  <2>1. n < L
    BY <1>1, <1>2
  <2>2. Buf!Data(x) # <<>> /\ Tail(Buf!Data(x)) = SubSeq(D, (n + 1) + 1, L)
    <3>1. Buf!Data(x) = SubSeq(D, n + 1, L)
      BY <1>2
    <3> HIDE DEF D, Good
    <3> QED
      BY <1>1, <2>1, <3>1, RestTail
  <2>3. Buf!OutChain(x) \/ Buf!InChain(x)
    BY <1>2
  <2>4. /\ Buf!Data(Buf!Taken(x)) = Tail(Buf!Data(x))
        /\ Buf!OutChain(x) => Buf!OutChain(Buf!Taken(x))
        /\ Buf!InChain(x) => Buf!InChain(Buf!Taken(x))
    BY <2>2, <2>3, TakenKeeps
  <2>5. Buf!Taken(x) \in V
    BY <2>3, <2>4 DEF Buf!OutChain, Buf!InChain
  <2>6. n + 1 <= N
    BY <1>1, <1>2
  <2> QED
    BY <1>2, <2>2, <2>4, <2>5, <2>6
<1>3. Good(0, c)
  <2>1. SubSeq(D, 1, L) = D
    <3> HIDE DEF D
    <3> QED
      BY <1>1, SubSeqFull
  <2>2. 0 + 1 = 1
    OBVIOUS
  <2> HIDE DEF D, L
  <2> QED
    BY <1>1, <2>1, <2>2 DEF D
<1>4. \A n \in Nat, x \in V : <<n, x>> \in P <=> Good(n, x)
  <2> HIDE DEF Good
  <2> QED
    OBVIOUS
<1>5. P \in SUBSET (Nat \X V)
  <2> HIDE DEF Good
  <2> QED
    OBVIOUS
<1>6. \A n \in Nat, x \in V : <<n, x>> \in P /\ n < N => step[<<n, x>>] = Buf!Taken(x)
  <2> HIDE DEF P
  <2> QED
    OBVIOUS
<1>7. step \in [P -> V]
  <2> SUFFICES ASSUME NEW p \in P PROVE step[p] \in V
    <3> HIDE DEF P
    <3> QED
      OBVIOUS
  <2>1. p[1] \in Nat /\ p[2] \in V /\ Good(p[1], p[2])
    <3> HIDE DEF Good
    <3> QED
      OBVIOUS
  <2> HIDE DEF Good, P
  <2> QED
    BY <1>2, <2>1
<1> HIDE DEF Good, step, D, L
<1>8. Keeps(step, P, V, N)
  <2> SUFFICES ASSUME NEW n \in Nat, NEW x \in V, n < N, <<n, x>> \in P
               PROVE  <<n + 1, step[<<n, x>>]>> \in P
    BY DEF Keeps
  <2>1. Good(n + 1, Buf!Taken(x)) /\ Buf!Taken(x) \in V /\ n + 1 \in Nat
    BY <1>2, <1>4
  <2>2. step[<<n, x>>] = Buf!Taken(x)
    BY <1>6
  <2> HIDE DEF P
  <2> QED
    BY <1>4, <2>1, <2>2
<1>9. <<0, c>> \in P
  BY <1>1, <1>3, <1>4
<1> HIDE DEF P, V
<1>10. PICK f : Steps(f, P, c, N, step)
  BY <1>1, <1>5, <1>7, <1>8, <1>9, Loop
<1> DEFINE w == CHOOSE w : w = [n \in 0..N |-> IF n = 0 THEN c ELSE Buf!Taken(w[n - 1])]
<1>11. w = [n \in 0..N |-> IF n = 0 THEN c ELSE Buf!Taken(w[n - 1])]
  <2>1. \A n \in 0..N : f[n] = IF n = 0 THEN c ELSE Buf!Taken(f[n - 1])
    <3> TAKE n \in 0..N
    <3>1. CASE n # 0
      <4>1. n - 1 \in 0..N /\ n - 1 \in Nat /\ n - 1 < N /\ (n - 1) + 1 = n /\ n \in 1..N
        BY <1>1, <3>1
      <4>2. <<n - 1, f[n - 1]>> \in P /\ f[n] = step[<<n - 1, f[n - 1]>>]
        BY <1>10, <4>1 DEF Steps
      <4>3. f[n - 1] \in V
        BY <1>5, <4>2
      <4> QED
        BY <1>6, <3>1, <4>1, <4>2, <4>3
    <3> QED
      BY <1>10, <3>1 DEF Steps
  <2>2. f = [n \in 0..N |-> f[n]]
    BY <1>10 DEF Steps
  <2>3. f = [n \in 0..N |-> IF n = 0 THEN c ELSE Buf!Taken(f[n - 1])]
    BY <2>1, <2>2
  <2> QED
    BY <2>3
<1> HIDE DEF w
<1>12. Buf!Dropped(c, N) = w[N]
  BY DEF Buf!Dropped, w
<1>13. w[0] = c /\ \A n \in 1..N : w[n] = Buf!Taken(w[n - 1])
  <2>1. 0 \in 0..N /\ \A n \in 1..N : n \in 0..N /\ n # 0
    BY <1>1
  <2>2. \A n \in 0..N : w[n] = IF n = 0 THEN c ELSE Buf!Taken(w[n - 1])
    BY <1>11
  <2> QED
    BY <2>1, <2>2
<1>14. Follows(w, P, c, N, step)
  <2> SUFFICES ASSUME NEW n \in 1..N, <<n - 1, w[n - 1]>> \in P PROVE w[n] =
                      step[<<n - 1, w[n - 1]>>]
    BY <1>13 DEF Follows
  <2>1. n - 1 \in Nat /\ n - 1 < N /\ (n - 1) + 1 = n /\ w[n - 1] \in V
    BY <1>1, <1>5
  <2> QED
    BY <1>6, <1>13, <2>1
<1>15. Stays(w, P, N)
  BY <1>1, <1>5, <1>8, <1>9, <1>14, LoopKeeps
<1>16. <<N, w[N]>> \in P
  BY <1>1, <1>15 DEF Stays
<1>17. Good(N, w[N])
  BY <1>1, <1>4, <1>5, <1>16
<1> QED
  BY <1>12, <1>17 DEF Good, D, L

-----------------------------------------------------------------------------

\* A header has one byte or four.
LEMMA HeaderType == ASSUME NEW len PROVE Buf!HeaderOf(len) \in {1, 4}
BY DEF Buf!HeaderOf

\* A packet has the bytes of its header and those of its content.
LEMMA BytesType ==
  ASSUME NEW k \in Nat, NEW len \in Nat
  PROVE  /\ Buf!Bytes(k, len) \in Seq(Buf!Byte) /\ Len(Buf!Bytes(k, len)) =
            Buf!HeaderOf(len) + len
         /\ \A j \in 1..(Buf!HeaderOf(len) + len) : Buf!Bytes(k, len)[j] = <<k, j>>
<1> DEFINE n == Buf!HeaderOf(len) + len
<1>1. n \in Nat
  BY HeaderType
<1>2. Buf!Bytes(k, len) = [j \in 1..n |-> <<k, j>>]
  BY DEF Buf!Bytes
<1> HIDE DEF n
<1>3. \A j \in 1..n : <<k, j>> \in Buf!Byte
  BY <1>1 DEF Buf!Byte
<1>4. [j \in 1..n |-> <<k, j>>] \in Seq(Buf!Byte) /\ Len([j \in 1..n |-> <<k, j>>]) = n
  BY <1>1, <1>3, IsASeq
<1> QED
  BY <1>2, <1>4 DEF n

\* One more packet adds its bytes at the end of the stream.
LEMMA BytesOfAppend ==
  ASSUME NEW p \in Seq(Nat), NEW x \in Nat
  PROVE  /\ Buf!BytesOf(p) \in Seq(Buf!Byte)
            /\ Buf!BytesOf(Append(p, x)) \in Seq(Buf!Byte)
         /\ Buf!BytesOf(Append(p, x)) = Buf!BytesOf(p) \o Buf!Bytes(Len(p) + 1, x)
         /\ Len(Buf!BytesOf(Append(p, x))) = Len(Buf!BytesOf(p)) + Buf!HeaderOf(x) + x
<1> DEFINE ss == [k \in DOMAIN p |-> Buf!Bytes(k, p[k])]
           q == Append(p, x)
           tt == [k \in DOMAIN q |-> Buf!Bytes(k, q[k])]
           n == Len(p)
           b == Buf!Bytes(n + 1, x)
<1>1. n \in Nat /\ DOMAIN p = 1..n /\ \A k \in 1..n : p[k] \in Nat
  BY LenProperties, ElementOfSeq
<1>2. q \in Seq(Nat) /\ Len(q) = n + 1 /\ q[n + 1] = x /\ \A k \in 1..n : q[k] = p[k]
  BY AppendProperties
<1>3. DOMAIN q = 1..(n + 1) /\ \A k \in 1..(n + 1) : q[k] \in Nat
  BY <1>2, LenProperties, ElementOfSeq
<1>4. b \in Seq(Buf!Byte) /\ Len(b) = Buf!HeaderOf(x) + x
  <2> DEFINE m == n + 1
  <2>1. m \in Nat
    BY <1>1
  <2> HIDE DEF m
  <2>2. Buf!Bytes(m, x) \in Seq(Buf!Byte) /\ Len(Buf!Bytes(m, x)) = Buf!HeaderOf(x) + x
    BY <2>1, BytesType
  <2> QED
    BY <2>2 DEF m
<1>5. ss \in Seq(Seq(Buf!Byte)) /\ Len(ss) = n /\ \A k \in 1..n : ss[k] =
      Buf!Bytes(k, p[k])
  <2>1. \A k \in 1..n : Buf!Bytes(k, p[k]) \in Seq(Buf!Byte)
    BY <1>1, BytesType
  <2> HIDE DEF n
  <2> QED
    BY <1>1, <2>1
<1>6. tt \in Seq(Seq(Buf!Byte)) /\ Len(tt) = n + 1 /\ \A k \in 1..(n + 1) : tt[k] =
      Buf!Bytes(k, q[k])
  <2>1. \A k \in 1..(n + 1) : Buf!Bytes(k, q[k]) \in Seq(Buf!Byte)
    <3> TAKE k \in 1..(n + 1)
    <3>1. k \in Nat /\ q[k] \in Nat
      BY <1>1, <1>3
    <3> HIDE DEF q
    <3> QED
      BY <3>1, BytesType
  <2> HIDE DEF n, q
  <2> QED
    BY <1>1, <1>3, <2>1
<1>7. Buf!BytesOf(p) = Buf!FlattenSeq(ss) /\ Buf!BytesOf(q) = Buf!FlattenSeq(tt)
  BY DEF Buf!BytesOf
<1> HIDE DEF ss, tt, q, n, b
<1>8. Append(ss, b) \in Seq(Seq(Buf!Byte)) /\ Len(Append(ss, b)) = n + 1
      /\ Append(ss, b)[n + 1] = b /\ \A k \in 1..n : Append(ss, b)[k] = ss[k]
  BY <1>4, <1>5, AppendProperties
<1>9. \A k \in 1..(n + 1) : tt[k] = Append(ss, b)[k]
  <2> TAKE k \in 1..(n + 1)
  <2>1. k = n + 1 \/ k \in 1..n
    BY <1>1
  <2> QED
    BY <1>1, <1>2, <1>5, <1>6, <1>8, <2>1 DEF b
<1>10. tt = Append(ss, b)
  BY <1>6, <1>8, <1>9, SeqEqual
<1>11. Buf!FlattenSeq(tt) = Buf!FlattenSeq(ss) \o b
  BY <1>4, <1>5, <1>10, FlattenAppend
<1>12. Buf!FlattenSeq(ss) \in Seq(Buf!Byte) /\ Buf!FlattenSeq(tt) \in Seq(Buf!Byte)
  BY <1>5, <1>6, FlattenType
<1>13. Len(Buf!FlattenSeq(tt)) = Len(Buf!FlattenSeq(ss)) + Len(b)
  BY <1>4, <1>11, <1>12, ConcatProperties
<1>14. Len(Buf!FlattenSeq(ss)) + (Buf!HeaderOf(x) + x) =
       Len(Buf!FlattenSeq(ss)) + Buf!HeaderOf(x) + x
  BY <1>12, HeaderType, LenProperties
<1> QED
  BY <1>4, <1>7, <1>11, <1>12, <1>13, <1>14 DEF q, n, b

\* A stream is of bytes.
LEMMA BytesOfType ==
  ASSUME NEW p \in Seq(Nat)
  PROVE  Buf!BytesOf(p) \in Seq(Buf!Byte) /\ Len(Buf!BytesOf(p)) \in Nat
<1>1. Buf!BytesOf(p) \in Seq(Buf!Byte)
  BY BytesOfAppend
<1> QED
  BY <1>1, LenProperties

\* Without packets it is empty.
LEMMA BytesOfEmpty == Buf!BytesOf(<<>>) = <<>>
<1>1. [k \in DOMAIN <<>> |-> Buf!Bytes(k, <<>>[k])] = <<>>
  OBVIOUS
<1> QED
  BY <1>1, FlattenEmpty DEF Buf!BytesOf

\* Where the next packet begins.
LEMMA NextPacket ==
  ASSUME NEW p \in Seq(Nat), NEW k \in Nat, k < Len(p)
  PROVE  /\ Buf!Start(p, k) \in Nat /\ p[k + 1] \in Nat
         /\ Buf!Start(p, k + 1) = Buf!Start(p, k) + Buf!HeaderOf(p[k + 1]) + p[k + 1]
         /\ Buf!BytesOf(SubSeq(p, 1, k + 1)) =
            Buf!BytesOf(SubSeq(p, 1, k)) \o Buf!Bytes(k + 1, p[k + 1])
<1> DEFINE q == SubSeq(p, 1, k)
<1>1. SubSeq(p, 1, k + 1) = Append(q, p[k + 1]) /\ p[k + 1] \in Nat
  BY PrefixAppend
<1>2. q \in Seq(Nat) /\ Len(q) = k
  <2>1. k \in 0..Len(p)
    BY LenProperties
  <2> QED
    BY <2>1, Prefix
<1> HIDE DEF q
<1>3. Len(Buf!BytesOf(q)) \in Nat
  BY <1>2, BytesOfType
<1> QED
  BY <1>1, <1>2, <1>3, BytesOfAppend DEF Buf!Start, q

\* The bytes of the first packets are the first bytes of the stream.
LEMMA PrefixOfBytes ==
  ASSUME NEW p \in Seq(Nat), NEW m \in 0..Len(p)
  PROVE  /\ Buf!Start(p, m) \in Nat /\ Buf!Start(p, m) <= Len(Buf!BytesOf(p))
         /\ \A i \in 1..Buf!Start(p, m) : Buf!BytesOf(p)[i] =
            Buf!BytesOf(SubSeq(p, 1, m))[i]
<1> DEFINE N == Len(p)
           Q(n) == Buf!BytesOf(SubSeq(p, 1, m + n))
           T == {n \in Nat : m + n <= N => /\ Buf!Start(p, m) <= Buf!Start(p, m + n)
                                           /\ \A i \in 1..Buf!Start(p, m) : Q(n)[i] =
                                              Q(0)[i]}
<1>1. N \in Nat /\ m \in Nat /\ m <= N /\ m + 0 = m
  BY LenProperties
<1>2. \A k \in 0..N : Buf!BytesOf(SubSeq(p, 1, k)) \in Seq(Buf!Byte)
      /\ Buf!Start(p, k) \in Nat
  <2> TAKE k \in 0..N
  <2>1. SubSeq(p, 1, k) \in Seq(Nat)
    BY Prefix
  <2> QED
    BY <2>1, BytesOfType DEF Buf!Start
<1>3. 0 \in T
  BY <1>1, <1>2
<1>4. ASSUME NEW n \in Nat, n \in T PROVE n + 1 \in T
  <2> SUFFICES ASSUME m + (n + 1) <= N
               PROVE  Buf!Start(p, m) <= Buf!Start(p, m + (n + 1))
                      /\ \A i \in 1..Buf!Start(p, m) : Q(n + 1)[i] = Q(0)[i]
    OBVIOUS
  <2> DEFINE k == m + n
  <2>1. k \in Nat /\ k < Len(p) /\ k + 1 = m + (n + 1) /\ k \in 0..N /\ m \in 0..N
        /\ k + 1 \in Nat
    BY <1>1
  <2>2. Buf!Start(p, m) <= Buf!Start(p, k) /\ \A i \in 1..Buf!Start(p, m) : Q(n)[i] =
        Q(0)[i]
    BY <1>4, <2>1
  <2> HIDE DEF T
  <2>3. /\ p[k + 1] \in Nat
        /\ Buf!Start(p, k + 1) = Buf!Start(p, k) + Buf!HeaderOf(p[k + 1]) + p[k + 1]
        /\ Buf!BytesOf(SubSeq(p, 1, k + 1)) =
           Buf!BytesOf(SubSeq(p, 1, k)) \o Buf!Bytes(k + 1, p[k + 1])
    <3> HIDE DEF k
    <3> QED
      BY <2>1, NextPacket
  <2>4. Buf!Bytes(k + 1, p[k + 1]) \in Seq(Buf!Byte)
    <3> HIDE DEF k
    <3> QED
      BY <2>1, <2>3, BytesType
  <2> DEFINE b == Buf!Bytes(k + 1, p[k + 1])
             q == Q(n)
  <2>5. q \in Seq(Buf!Byte) /\ Len(q) = Buf!Start(p, k) /\ Q(n + 1) = q \o b
        /\ b \in Seq(Buf!Byte)
    BY <1>2, <2>1, <2>3, <2>4 DEF Buf!Start
  <2> HIDE DEF q, b, Q, k
  <2>6. \A i \in 1..(Len(q) + Len(b)) : (q \o b)[i] = IF i <= Len(q) THEN q[i]
        ELSE b[i - Len(q)]
    BY <2>5, ConcatProperties
  <2>7. Buf!Start(p, k) \in Nat /\ Buf!Start(p, m) \in Nat /\ Len(b) \in Nat
    BY <1>2, <2>1, <2>5, LenProperties
  <2>8. \A i \in 1..Buf!Start(p, m) : Q(n + 1)[i] = Q(0)[i]
    <3> TAKE i \in 1..Buf!Start(p, m)
    <3>1. i \in 1..(Len(q) + Len(b)) /\ i <= Len(q)
      BY <2>2, <2>5, <2>7
    <3> QED
      BY <2>2, <2>5, <2>6, <3>1 DEF q
  <2>9. Buf!Start(p, k) <= Buf!Start(p, k + 1) /\ Buf!Start(p, k + 1) \in Nat
    <3> DEFINE len == p[k + 1]
               h == Buf!HeaderOf(len)
    <3>1. len \in Nat /\ h \in {1, 4} /\ Buf!Start(p, k + 1) = Buf!Start(p, k) + h + len
      BY <2>3, HeaderType
    <3> HIDE DEF len, h
    <3> QED
      BY <2>7, <3>1
  <2> QED
    BY <2>1, <2>2, <2>7, <2>8, <2>9
<1>5. \A n \in Nat : n \in T
  <2> HIDE DEF T
  <2> QED
    BY <1>3, <1>4, Induction
<1>6. m + (N - m) = N /\ N - m \in Nat /\ N - m \in T
  <2> HIDE DEF T, N
  <2> QED
    BY <1>1, <1>5
<1>7. SubSeq(p, 1, N) = p
  BY SubSeqFull
<1>8. Q(N - m) = Buf!BytesOf(p) /\ Q(0) = Buf!BytesOf(SubSeq(p, 1, m))
      /\ Buf!Start(p, m + (N - m)) = Len(Buf!BytesOf(p))
  <2> HIDE DEF N
  <2> QED
    BY <1>1, <1>6, <1>7 DEF Buf!Start
<1>9. /\ Buf!Start(p, m) <= Buf!Start(p, m + (N - m))
      /\ \A i \in 1..Buf!Start(p, m) : Q(N - m)[i] = Q(0)[i]
  <2> HIDE DEF Q, N
  <2> QED
    BY <1>1, <1>6
<1>10. Buf!Start(p, m) \in Nat
  BY <1>2
<1> HIDE DEF Q, N
<1> QED
  BY <1>8, <1>9, <1>10

\* A packet is in the stream from its first byte on.
LEMMA BytesOfPacket ==
  ASSUME NEW p \in Seq(Nat), NEW k \in Nat, k < Len(p)
  PROVE  /\ Buf!Start(p, k) + Buf!HeaderOf(p[k + 1]) + p[k + 1] <= Len(Buf!BytesOf(p))
         /\ \A j \in 1..(Buf!HeaderOf(p[k + 1]) + p[k + 1]) : Buf!BytesOf(p)[Buf!Start(p, k) + j] = <<k + 1, j>>
<1> DEFINE m == k + 1
           len == p[m]
           q == Buf!BytesOf(SubSeq(p, 1, k))
           b == Buf!Bytes(m, len)
           s == Buf!Start(p, k)
           h == Buf!HeaderOf(len)
           B == Buf!BytesOf(p)
<1>1. m \in 0..Len(p) /\ m \in Nat /\ k \in 0..Len(p)
  BY LenProperties
<1>2. s \in Nat /\ len \in Nat /\ Buf!Start(p, m) = s + h + len
      /\ Buf!BytesOf(SubSeq(p, 1, m)) = q \o b
  BY NextPacket
<1>3. Buf!Start(p, m) <= Len(B) /\ \A i \in 1..Buf!Start(p, m) : B[i] =
      Buf!BytesOf(SubSeq(p, 1, m))[i]
  <2> HIDE DEF m
  <2> QED
    BY <1>1, PrefixOfBytes
<1>4. b \in Seq(Buf!Byte) /\ Len(b) = h + len /\ \A j \in 1..(h + len) : b[j] = <<m, j>>
  <2> HIDE DEF m
  <2> QED
    BY <1>1, <1>2, BytesType
<1>5. q \in Seq(Buf!Byte) /\ Len(q) = s
  <2>1. SubSeq(p, 1, k) \in Seq(Nat)
    BY <1>1, Prefix
  <2> QED
    BY <2>1, BytesOfType DEF Buf!Start
<1>6. h \in Nat
  BY HeaderType
<1> SUFFICES ASSUME NEW j \in 1..(h + len)
             PROVE  s + h + len <= Len(B) /\ B[s + j] = <<m, j>>
  <2>1. 1 \in 1..(h + len)
    <3>1. h \in {1, 4}
      BY HeaderType
    <3> HIDE DEF h, len
    <3> QED
      BY <1>2, <3>1
  <2> QED
    BY <2>1
<1> HIDE DEF m, len, q, b, s, h, B
<1>7. \A i \in 1..(Len(q) + Len(b)) : (q \o b)[i] = IF i <= Len(q) THEN q[i]
      ELSE b[i - Len(q)]
  BY <1>4, <1>5, ConcatProperties
<1>8. s + j \in 1..(Len(q) + Len(b)) /\ ~(s + j <= Len(q)) /\ (s + j) - Len(q) = j
      /\ s + j \in 1..Buf!Start(p, m)
  BY <1>2, <1>4, <1>5, <1>6
<1>9. B[s + j] = b[j]
  BY <1>2, <1>3, <1>7, <1>8
<1> QED
  BY <1>2, <1>3, <1>4, <1>9

\* The bytes of the packets that are left.
LEMMA BytesOfRest ==
  ASSUME NEW p \in Seq(Nat), NEW k \in 0..Len(p)
  PROVE  Len(Buf!BytesOf(SubSeq(p, k + 1, Len(p)))) =
         Len(Buf!BytesOf(p)) - Buf!Start(p, k)
<1> DEFINE N == Len(p)
           R(n) == SubSeq(p, k + 1, k + n)
           T == {n \in Nat : k + n <= N => Len(Buf!BytesOf(R(n))) = Buf!Start(p, k + n) - Buf!Start(p, k)}
<1>1. N \in Nat /\ k \in Nat /\ k <= N /\ k + 0 = k
  BY LenProperties
<1>2. \A j \in 0..N : Buf!Start(p, j) \in Nat
  BY PrefixOfBytes
<1>3. 0 \in T
  <2>1. R(0) = <<>>
    <3>1. R(0) \in Seq(Nat) /\ Len(R(0)) = k - k
      <4>1. SubSeq(p, k + 1, k) \in Seq(Nat) /\ Len(SubSeq(p, k + 1, k)) = k - k
        BY <1>1, Middle
      <4> QED
        BY <1>1, <4>1
    <3>2. Len(R(0)) = 0
      BY <1>1, <3>1
    <3> HIDE DEF R
    <3> QED
      BY <3>1, <3>2, Empty
  <2>2. Len(Buf!BytesOf(R(0))) = 0
    <3> DEFINE e == Buf!BytesOf(R(0))
    <3>1. e = <<>>
      BY <2>1, BytesOfEmpty
    <3> HIDE DEF e
    <3>2. Len(e) = 0
      BY <3>1
    <3> QED
      BY <3>2 DEF e
  <2> QED
    BY <1>1, <1>2, <2>2
<1>4. ASSUME NEW n \in Nat, n \in T PROVE n + 1 \in T
  <2> SUFFICES ASSUME k + (n + 1) <= N
               PROVE  Len(Buf!BytesOf(R(n + 1))) =
                      Buf!Start(p, k + (n + 1)) - Buf!Start(p, k)
    OBVIOUS
  <2> DEFINE m == k + n
             x == p[m + 1]
  <2>1. m \in Nat /\ m < Len(p) /\ m + 1 = k + (n + 1) /\ m <= N /\ k <= m
        /\ m + 1 \in 1..N
        /\ k <= m + 1 /\ m + 1 <= N /\ m + 1 \in Nat /\ m \in 0..N /\ m - k = n
           /\ (m + 1) - k = n + 1
    BY <1>1
  <2>2. Len(Buf!BytesOf(R(n))) = Buf!Start(p, m) - Buf!Start(p, k)
    BY <1>4, <2>1
  <2> HIDE DEF T
  <2>3. x \in Nat
    BY <2>1, ElementOfSeq
  <2>4. R(n) \in Seq(Nat) /\ Len(R(n)) = n /\ \A i \in 1..n : R(n)[i] = p[k + i]
    <3>1. SubSeq(p, k + 1, m) \in Seq(Nat) /\ Len(SubSeq(p, k + 1, m)) = m - k
          /\ \A i \in 1..(m - k) : SubSeq(p, k + 1, m)[i] = p[k + i]
      <4>1. k \in Nat /\ m \in Nat /\ k <= m /\ m <= Len(p)
        BY <1>1, <2>1
      <4> HIDE DEF m, N, R, x
      <4> QED
        BY <4>1, Middle
    <3> QED
      BY <2>1, <3>1
  <2>5. R(n + 1) \in Seq(Nat) /\ Len(R(n + 1)) = n + 1
        /\ \A i \in 1..(n + 1) : R(n + 1)[i] = p[k + i]
    <3> DEFINE u == m + 1
    <3>1. SubSeq(p, k + 1, u) \in Seq(Nat) /\ Len(SubSeq(p, k + 1, u)) = u - k
          /\ \A i \in 1..(u - k) : SubSeq(p, k + 1, u)[i] = p[k + i]
      <4>1. u \in Nat /\ k <= u /\ u <= Len(p)
        BY <2>1
      <4> HIDE DEF u
      <4> QED
        BY <1>1, <4>1, Middle
    <3>2. u - k = n + 1 /\ R(n + 1) = SubSeq(p, k + 1, u)
      BY <1>1
    <3> HIDE DEF u, R
    <3> QED
      BY <3>1, <3>2
  <2> HIDE DEF R, m
  <2>6. R(n + 1) = Append(R(n), x)
    <3>1. Append(R(n), x) \in Seq(Nat) /\ Len(Append(R(n), x)) = n + 1
          /\ Append(R(n), x)[n + 1] = x /\ \A i \in 1..n : Append(R(n), x)[i] = R(n)[i]
      BY <2>3, <2>4, AppendProperties
    <3>2. \A i \in 1..(n + 1) : R(n + 1)[i] = Append(R(n), x)[i]
      <4> TAKE i \in 1..(n + 1)
      <4>1. i = n + 1 \/ i \in 1..n
        OBVIOUS
      <4> QED
        BY <2>1, <2>4, <2>5, <3>1, <4>1
    <3> QED
      BY <2>5, <3>1, <3>2, SeqEqual
  <2>7. Len(Buf!BytesOf(R(n + 1))) = Len(Buf!BytesOf(R(n))) + Buf!HeaderOf(x) + x
    <3> HIDE DEF x
    <3> QED
      BY <2>3, <2>4, <2>6, BytesOfAppend
  <2>8. Buf!Start(p, m + 1) = Buf!Start(p, m) + Buf!HeaderOf(x) + x
    BY <2>1, NextPacket
  <2>9. Buf!Start(p, m) \in Nat /\ Buf!Start(p, k) \in Nat
    <3>1. m \in 0..N /\ k \in 0..N
      BY <1>1, <2>1
    <3> QED
      BY <1>2, <3>1
  <2> DEFINE h == Buf!HeaderOf(x)
             before == Len(Buf!BytesOf(R(n)))
             after == Len(Buf!BytesOf(R(n + 1)))
             u == Buf!Start(p, m)
             v == Buf!Start(p, k)
             w == Buf!Start(p, m + 1)
  <2>10. h \in {1, 4} /\ before = u - v /\ after = before + h + x /\ w = u + h + x
         /\ u \in Nat /\ v \in Nat
    BY <2>2, <2>7, <2>8, <2>9, HeaderType
  <2> HIDE DEF x, h, before, after, u, v, w
  <2>11. after = w - v
    BY <2>3, <2>10
  <2> QED
    BY <2>1, <2>11 DEF after, w, v
<1>5. \A n \in Nat : n \in T
  <2> HIDE DEF T
  <2> QED
    BY <1>3, <1>4, Induction
<1>6. k + (N - k) = N /\ N - k \in Nat /\ N - k \in T
  <2> HIDE DEF T, N
  <2> QED
    BY <1>1, <1>5
<1>7. SubSeq(p, 1, N) = p
  BY SubSeqFull
<1>8. R(N - k) = SubSeq(p, k + 1, N) /\ Buf!Start(p, k + (N - k)) = Len(Buf!BytesOf(p))
  <2> HIDE DEF N
  <2> QED
    BY <1>1, <1>6, <1>7 DEF Buf!Start
<1>9. Len(Buf!BytesOf(R(N - k))) = Buf!Start(p, k + (N - k)) - Buf!Start(p, k)
  <2> HIDE DEF R, N
  <2> QED
    BY <1>1, <1>6
<1> QED
  BY <1>8, <1>9

-----------------------------------------------------------------------------

\* The stream ends where its last packet does.
LEMMA WholeStream ==
  ASSUME NEW p \in Seq(Nat)
  PROVE  Buf!Start(p, Len(p)) = Len(Buf!BytesOf(p))
<1>1. SubSeq(p, 1, Len(p)) = p
  BY SubSeqFull
<1> QED
  BY <1>1 DEF Buf!Start

\* A packet that has come whole is executed, and the chain begins with the
\* one that follows; else nothing is read (try_rpc_read).
LEMMA PacketKeeps ==
  ASSUME served \in Seq(Nat), NEW E \in Nat, E <= Len(Buf!BytesOf(served)), NEW s,
         Buf!Reads(s, E)
  PROVE  /\ Buf!Reads(Buf!ReadPacket(s), E)
         /\ IF Buf!Waits(s) THEN Buf!ReadPacket(s) = s
            ELSE Buf!ReadPacket(s).bytes < s.bytes
<1> DEFINE S == Buf!BytesOf(served)
           k == Len(s.delivered)
           len == served[k + 1]
           h == Buf!HeaderOf(len)
           b == Buf!Start(served, k)
           n == s.bytes
           D == Buf!Data(s.chain)
<1>1. /\ k \in Nat /\ k <= Len(served) /\ n \in Nat /\ n = Len(D) /\ b + n = E
      /\ D = SubSeq(S, b + 1, E) /\ s.chain \in Seq(Buf!Buffer) /\ Buf!InChain(s.chain)
      /\ s.delivered \in Seq(Seq(Buf!Byte)) /\ s \in Buf!Reading
  BY LenProperties DEF Buf!Reads, Buf!Reading
<1>2. S \in Seq(Buf!Byte) /\ Len(S) \in Nat /\ Len(served) \in Nat /\ E <= Len(S)
  BY BytesOfType, LenProperties
<1>3. b \in Nat /\ b <= Len(S)
  <2>1. k \in 0..Len(served)
    BY <1>1, <1>2
  <2> HIDE DEF k
  <2> QED
    BY <2>1, PrefixOfBytes
<1>4. D \in Seq(Buf!Byte) /\ \A i \in 1..n : D[i] = S[b + i]
  <2>1. E <= Len(S) /\ b <= E /\ E - b = n
    BY <1>1, <1>2, <1>3
  <2> HIDE DEF S, b, D, n
  <2> QED
    BY <1>1, <1>2, <1>3, <2>1, Middle
<1>5. CASE n < 1
  <2>1. Buf!ReadPacket(s) = s
    BY <1>5 DEF Buf!ReadPacket
  <2>2. Buf!Waits(s)
    <3> SUFFICES ASSUME k < Len(served) PROVE n < h + len
      BY DEF Buf!Waits
    <3>1. len \in Nat
      BY <1>1, NextPacket
    <3>2. h \in {1, 4}
      BY HeaderType
    <3>3. n \in Nat
      BY <1>1
    <3> HIDE DEF h, len, n
    <3> QED
      BY <1>5, <3>1, <3>2, <3>3
  <2> QED
    BY <2>1, <2>2
<1>6. CASE ~(n < 1)
  <2>1. k < Len(served)
    <3> SUFFICES ASSUME k = Len(served) PROVE FALSE
      BY <1>1, <1>2
    <3>1. b = Len(S)
      BY WholeStream
    <3>2. n \in Nat /\ b + n = E /\ E <= Len(S) /\ Len(S) \in Nat
      BY <1>1, <1>2
    <3> HIDE DEF b, S, n
    <3> QED
      BY <1>6, <3>1, <3>2
  <2>2. len \in Nat /\ Buf!Start(served, k + 1) = b + h + len
    BY <1>1, <2>1, NextPacket
  <2>3. b + h + len <= Len(S) /\ \A j \in 1..(h + len) : S[b + j] = <<k + 1, j>>
    BY <1>1, <2>1, BytesOfPacket
  <2>4. h \in {1, 4}
    BY HeaderType
  <2>5. 1 \in 1..n /\ 1 \in 1..(h + len) /\ h + len \in Nat /\ n \in Nat
    <3>1. n \in Nat /\ len \in Nat
      BY <1>1, <2>2
    <3> HIDE DEF h, len, n
    <3> QED
      BY <1>6, <2>4, <3>1
  <2>6. D[1] = <<k + 1, 1>>
    <3>1. D[1] = S[b + 1] /\ S[b + 1] = <<k + 1, 1>>
      <4> HIDE DEF D, S, b, k, h, len, n
      <4> QED
        BY <1>4, <2>3, <2>5
    <3> QED
      BY <3>1
  <2> DEFINE first == Buf!ReadInLookup(s.chain, 1)[1]
             r == Buf!ReadIn(s, h)
             after == Buf!ReadIn(r, len)
             content == Buf!ReadInLookup(r.chain, len)
  <2>7. first = <<k + 1, 1>>
    <3>1. first = SubSeq(D, 1, 1)[1]
      BY DEF Buf!ReadInLookup
    <3>2. 1 \in 0..Len(D) /\ 1 \in 1..1
      <4>1. Len(D) = n
        BY <1>1
      <4> HIDE DEF D, n
      <4> QED
        BY <2>5, <4>1
    <3> HIDE DEF D, first, k
    <3>3. SubSeq(D, 1, 1)[1] = D[1]
      BY <1>4, <3>2, Prefix
    <3> QED
      BY <2>6, <3>1, <3>3
  <2>8. first[1] = k + 1 /\ first[2] = 1
    <3> HIDE DEF first
    <3> QED
      BY <2>7
  <2>9. Buf!ReadPacket(s) = IF n < h + len THEN s
                            ELSE [after EXCEPT !.delivered = Append(@, content)]
    <3>1. Buf!ReadPacket(s) = IF first[2] # 1 THEN [s EXCEPT !.framed = FALSE]
             ELSE IF s.bytes < Buf!HeaderOf(served[first[1]]) + served[first[1]] THEN s
             ELSE [Buf!ReadIn(Buf!ReadIn(s, Buf!HeaderOf(served[first[1]])),
                              served[first[1]])
                     EXCEPT !.delivered =
                       Append(@, Buf!ReadInLookup(Buf!ReadIn(s, Buf!HeaderOf(served[first[1]])).chain,
                                              served[first[1]]))]
      BY <1>6 DEF Buf!ReadPacket
    <3> HIDE DEF first
    <3> QED
      BY <2>8, <3>1
  <2>10. CASE n < h + len
    <3>1. Buf!Waits(s)
      BY <2>10 DEF Buf!Waits
    <3> QED
      BY <2>9, <2>10, <3>1
  <2>11. CASE ~(n < h + len)
    <3> DEFINE t == [after EXCEPT !.delivered = Append(@, content)]
               c1 == Buf!Dropped(s.chain, h)
               c2 == Buf!Dropped(c1, len)
               D1 == Buf!Data(c1)
               D2 == Buf!Data(c2)
               m == b + h + len
    <3>1. Buf!ReadPacket(s) = t
      BY <2>9, <2>11
    <3>2. h \in 0..n /\ h \in Nat /\ h <= n /\ len \in 0..(n - h) /\ len <= n - h
          /\ n - h \in Nat /\ len \in Nat
          /\ (n - h) - len = n - (h + len) /\ n - (h + len) \in Nat /\ n - (h + len) < n
          /\ m \in Nat /\ m <= E /\ m + (n - (h + len)) = E /\ E - m = n - (h + len)
      <4> HIDE DEF h, len, n, b
      <4> QED
        BY <1>1, <1>3, <2>2, <2>4, <2>11
    <3>3. Buf!InChain(c1) /\ D1 = SubSeq(D, h + 1, n)
      <4>1. h \in 0..Len(Buf!Data(s.chain))
        BY <1>1, <3>2
      <4> HIDE DEF h, n
      <4> QED
        BY <1>1, <4>1, DroppedKeeps
    <3>4. D1 \in Seq(Buf!Byte) /\ Len(D1) = n - h /\ \A i \in 1..(n - h) : D1[i] =
          D[h + i]
      <4>1. n \in Nat /\ Len(D) = n
        BY <1>1
      <4> HIDE DEF D, D1, h, n
      <4>2. h \in Nat /\ h <= n /\ n <= Len(D) /\ D \in Seq(Buf!Byte)
        BY <1>4, <3>2, <4>1
      <4>3. D1 \in Seq(Buf!Byte) /\ Len(D1) = n - h /\ \A i \in 1..(n - h) : D1[i] =
            D[h + i]
        BY <3>3, <4>1, <4>2, Middle
      <4> QED
        BY <4>3
    <3>5. Buf!InChain(c2) /\ D2 = SubSeq(D1, len + 1, n - h)
      <4>1. len \in 0..Len(Buf!Data(c1)) /\ c1 \in Seq(Buf!Buffer)
        BY <3>2, <3>3, <3>4 DEF Buf!InChain
      <4> HIDE DEF c1, len, h, n
      <4> QED
        BY <3>3, <3>4, <4>1, DroppedKeeps DEF D1
    <3>6. D2 \in Seq(Buf!Byte) /\ Len(D2) = n - (h + len)
          /\ \A i \in 1..(n - (h + len)) : D2[i] = D1[len + i]
      <4> DEFINE u == n - h
      <4>1. u \in Nat /\ len \in Nat /\ len <= u /\ u - len = n - (h + len)
            /\ Len(D1) = u /\ D2 = SubSeq(D1, len + 1, u)
        BY <3>2, <3>4, <3>5
      <4> HIDE DEF u, D1, D2, len, h, n
      <4>2. D2 \in Seq(Buf!Byte) /\ Len(D2) = u - len
            /\ \A i \in 1..(u - len) : D2[i] = D1[len + i]
        BY <3>4, <4>1, Middle
      <4> QED
        BY <4>1, <4>2
    <3>7. D2 = SubSeq(S, m + 1, E)
      <4> DEFINE R == SubSeq(S, m + 1, E)
      <4> HIDE DEF D, D1, D2, S, h, len, n, b
      <4>1. R \in Seq(Buf!Byte) /\ Len(R) = E - m /\ \A i \in 1..(E - m) : R[i] = S[m + i]
        <5>1. m \in Nat /\ m <= E /\ E <= Len(S)
          BY <1>2, <3>2
        <5> HIDE DEF m, R
        <5>2. SubSeq(S, m + 1, E) \in Seq(Buf!Byte) /\ Len(SubSeq(S, m + 1, E)) = E - m
              /\ \A i \in 1..(E - m) : SubSeq(S, m + 1, E)[i] = S[m + i]
          BY <1>2, <5>1, Middle
        <5> QED
          BY <5>2 DEF R
      <4> HIDE DEF R
      <4>2. \A i \in 1..(E - m) : D2[i] = R[i]
        <5> TAKE i \in 1..(E - m)
        <5>1. i \in 1..(n - (h + len)) /\ len + i \in 1..(n - h) /\ h + (len + i) \in 1..n
              /\ b + (h + (len + i)) = m + i
          BY <1>1, <1>3, <2>4, <3>2
        <5>2. D2[i] = D1[len + i]
          BY <3>6, <5>1
        <5>3. D1[len + i] = D[h + (len + i)]
          BY <3>4, <5>1
        <5>4. D[h + (len + i)] = S[b + (h + (len + i))]
          BY <1>4, <5>1
        <5> HIDE DEF m
        <5> QED
          BY <4>1, <5>1, <5>2, <5>3, <5>4
      <4>3. Len(D2) = Len(R)
        BY <3>2, <3>6, <4>1
      <4>4. \A i \in 1..Len(D2) : D2[i] = R[i]
        BY <3>2, <3>6, <4>2
      <4>5. D2 = R
        BY <3>6, <4>1, <4>3, <4>4, SeqEqual
      <4> QED
        BY <4>5 DEF R
    <3>8. r = [s EXCEPT !.chain = c1, !.bytes = n - h]
          /\ after = [s EXCEPT !.chain = c2, !.bytes = (n - h) - len]
      <4>1. r = [s EXCEPT !.chain = c1, !.bytes = n - h]
        BY DEF Buf!ReadIn
      <4>2. r.chain = c1 /\ r.bytes = n - h
        BY <1>1, <4>1 DEF Buf!Reading
      <4>3. after = [r EXCEPT !.chain = c2, !.bytes = (n - h) - len]
        BY <4>2 DEF Buf!ReadIn
      <4> HIDE DEF after, r, c1, c2, h, len
      <4> QED
        BY <1>1, <4>1, <4>3 DEF Buf!Reading
    <3>9. content = Buf!Content(k + 1, len)
      <4> DEFINE B == Buf!Bytes(k + 1, len)
                 u == h + len
                 X == SubSeq(D1, 1, len)
                 Y == SubSeq(B, h + 1, u)
      <4>1. content = X
        BY <1>1, <3>8 DEF Buf!ReadInLookup, Buf!Reading
      <4>2. Buf!Content(k + 1, len) = Y
        BY DEF Buf!Content
      <4>3. B \in Seq(Buf!Byte) /\ Len(B) = u /\ \A j \in 1..u : B[j] = <<k + 1, j>>
        <5>1. k + 1 \in Nat
          BY <1>1
        <5> HIDE DEF k
        <5> QED
          BY <2>2, <5>1, BytesType
      <4>4. X \in Seq(Buf!Byte) /\ Len(X) = len /\ \A i \in 1..len : X[i] = D1[i]
        <5>1. len \in 0..Len(D1)
          BY <3>2, <3>4
        <5> HIDE DEF D1, len
        <5> QED
          BY <3>4, <5>1, Prefix
      <4>5. Y \in Seq(Buf!Byte) /\ Len(Y) = u - h /\ \A i \in 1..(u - h) : Y[i] = B[h + i]
        <5>1. u \in Nat /\ h \in Nat /\ h <= u /\ u <= Len(B)
          <6> HIDE DEF h, len, B
          <6> QED
            BY <3>2, <4>3
        <5> HIDE DEF u, B, h
        <5> QED
          BY <4>3, <5>1, Middle
      <4> HIDE DEF D, D1, D2, S, h, len, n, b, B, X, Y, k
      <4>6. u - h = len
        BY <3>2
      <4>7. \A i \in 1..len : X[i] = Y[i]
        <5> TAKE i \in 1..len
        <5>1. i \in 1..(n - h) /\ h + i \in 1..n /\ h + i \in 1..u
          <6>1. h \in Nat /\ len \in Nat /\ len <= n - h /\ n \in Nat
            BY <3>2, <2>5
          <6> QED
            BY <6>1
        <5>2. X[i] = S[b + (h + i)]
          BY <1>4, <3>4, <4>4, <5>1
        <5>3. Y[i] = B[h + i]
          BY <4>5, <4>6
        <5>4. S[b + (h + i)] = <<k + 1, h + i>> /\ B[h + i] = <<k + 1, h + i>>
          BY <2>3, <4>3, <5>1
        <5> QED
          BY <5>2, <5>3, <5>4
      <4>8. X = Y
        <5> HIDE DEF u
        <5>1. Len(X) = Len(Y) /\ \A i \in 1..Len(X) : X[i] = Y[i]
          BY <4>4, <4>5, <4>6, <4>7
        <5> QED
          BY <4>4, <4>5, <5>1, SeqEqual
      <4> QED
        BY <4>1, <4>2, <4>8
    <3>10. content \in Seq(Buf!Byte)
      <4>1. len \in 0..Len(D1) /\ content = SubSeq(D1, 1, len)
        BY <1>1, <3>2, <3>4, <3>8 DEF Buf!ReadInLookup, Buf!Reading
      <4> HIDE DEF D1, len, content
      <4> QED
        BY <3>4, <4>1, Prefix
    <3> DEFINE d == Append(s.delivered, content)
    <3>11. t.chain = c2 /\ t.bytes = n - (h + len) /\ t.delivered = d /\ t.framed =
           s.framed
           /\ t = [chain |-> c2, bytes |-> n - (h + len), delivered |-> d,
                   framed |-> s.framed]
      <4>1. (n - h) - len = n - (h + len)
        BY <3>2
      <4> HIDE DEF c1, c2, content, h, len, n
      <4>2. after = [s EXCEPT !.chain = c2, !.bytes = n - (h + len)]
        BY <3>8, <4>1
      <4> HIDE DEF after
      <4>3. after.delivered = s.delivered
        BY <1>1, <4>2 DEF Buf!Reading
      <4>4. after = [chain |-> c2, bytes |-> n - (h + len), delivered |-> s.delivered,
                     framed |-> s.framed]
        BY <1>1, <4>2 DEF Buf!Reading
      <4>6. t = [after EXCEPT !.delivered = d]
        BY <4>3
      <4> HIDE DEF t, d
      <4>5. t = [chain |-> c2, bytes |-> n - (h + len), delivered |-> d,
                 framed |-> s.framed]
        BY <4>4, <4>6
      <4> QED
        BY <4>5
    <3>12. d \in Seq(Seq(Buf!Byte)) /\ Len(d) = k + 1 /\ d[k + 1] = content
           /\ \A i \in 1..k : d[i] = s.delivered[i]
      <4> HIDE DEF content
      <4> QED
        BY <1>1, <3>10, AppendProperties
    <3>13. d = [j \in 1..Len(d) |-> Buf!Content(j, served[j])]
      <4> HIDE DEF d, content
      <4>1. \A j \in 1..(k + 1) : d[j] = Buf!Content(j, served[j])
        <5> TAKE j \in 1..(k + 1)
        <5>1. CASE j = k + 1
          BY <3>9, <3>12, <5>1
        <5>2. CASE j # k + 1
          <6>1. j \in 1..k
            BY <1>1, <5>2
          <6>2. s.delivered[j] = Buf!Content(j, served[j])
            <7> DEFINE w == s.delivered
            <7>1. w = [i \in 1..k |-> Buf!Content(i, served[i])]
              BY DEF Buf!Reads
            <7> HIDE DEF w, k
            <7>2. w[j] = Buf!Content(j, served[j])
              BY <6>1, <7>1
            <7> QED
              BY <7>2 DEF w
          <6> QED
            BY <3>12, <6>1, <6>2
        <5> QED
          BY <5>1, <5>2
      <4>2. d = [j \in 1..Len(d) |-> d[j]]
        BY <3>12, LenProperties
      <4> HIDE DEF k
      <4> QED
        BY <3>12, <4>1, <4>2
    <3> HIDE DEF t, d, after, content, D2
    <3>14. Buf!Start(served, Len(t.delivered)) = m
      BY <2>2, <3>11, <3>12
    <3>15. c2 \in Seq(Buf!Buffer)
      BY <3>5 DEF Buf!InChain
    <3>16. t \in Buf!Reading
      <4>1. s.framed \in BOOLEAN
        BY <1>1 DEF Buf!Reading
      <4> HIDE DEF c2, k
      <4> QED
        BY <3>2, <3>11, <3>12, <3>15, <4>1 DEF Buf!Reading
    <3>17. t.bytes = Len(Buf!Data(t.chain)) /\ Buf!Data(t.chain) = SubSeq(S, m + 1, E)
           /\ Buf!InChain(t.chain)
      <4> HIDE DEF c2, m, S
      <4> QED
        BY <3>5, <3>6, <3>7, <3>11 DEF D2
    <3>18. m + t.bytes = E /\ t.bytes < n
      <4> HIDE DEF m, h, len, n
      <4> QED
        BY <3>2, <3>11
    <3>19. Len(t.delivered) <= Len(served)
      <4> HIDE DEF k
      <4> QED
        BY <1>1, <1>2, <2>1, <3>11, <3>12
    <3>20. t.framed
      BY <3>11 DEF Buf!Reads
    <3>21. Buf!Reads(t, E)
      <4> HIDE DEF m
      <4> QED
        BY <3>11, <3>13, <3>14, <3>16, <3>17, <3>18, <3>19, <3>20 DEF Buf!Reads
    <3>22. ~Buf!Waits(s)
      <4>1. ~(n < h + len)
        BY <2>11
      <4> QED
        BY <2>1, <4>1 DEF Buf!Waits
    <3> QED
      BY <3>1, <3>18, <3>21, <3>22
  <2> QED
    BY <2>10, <2>11
<1> QED
  BY <1>5, <1>6

\* All packets that have come whole are executed: each turn takes at least
\* a byte or has nothing to do (try_rpc_read).
LEMMA TryRpcReadKeeps ==
  ASSUME served \in Seq(Nat), NEW E \in Nat, E <= Len(Buf!BytesOf(served)), NEW c,
         Buf!Reads(c, E)
  PROVE  Buf!Reads(Buf!TryRpcRead(c), E) /\ Buf!Waits(Buf!TryRpcRead(c))
<1> DEFINE N == c.bytes
           V == Buf!Reading
           Good(n, x) == n <= N /\ Buf!Reads(x, E) /\ (Buf!Waits(x) \/ x.bytes <= N - n)
           P == {p \in Nat \X V : Good(p[1], p[2])}
           step == [p \in P |-> IF p[1] < N THEN Buf!ReadPacket(p[2]) ELSE p[2]]
<1>1. N \in Nat /\ c \in V
  BY DEF Buf!Reads, Buf!Reading
<1>2. ASSUME NEW n \in Nat, NEW x \in V, n < N, Good(n, x)
      PROVE  Good(n + 1, Buf!ReadPacket(x)) /\ Buf!ReadPacket(x) \in V
  <2>1. /\ Buf!Reads(Buf!ReadPacket(x), E)
        /\ IF Buf!Waits(x) THEN Buf!ReadPacket(x) = x
           ELSE Buf!ReadPacket(x).bytes < x.bytes
    BY <1>2, PacketKeeps
  <2>2. Buf!ReadPacket(x) \in V /\ Buf!ReadPacket(x).bytes \in Nat /\ x.bytes \in Nat
    BY <2>1 DEF Buf!Reads, Buf!Reading
  <2>3. Buf!Waits(x) => Buf!Waits(Buf!ReadPacket(x))
    BY <2>1
  <2>4. ~Buf!Waits(x) => Buf!ReadPacket(x).bytes <= N - (n + 1)
    <3> DEFINE u == Buf!ReadPacket(x).bytes
               v == x.bytes
    <3> SUFFICES ASSUME ~Buf!Waits(x) PROVE u <= N - (n + 1)
      OBVIOUS
    <3>1. u < v /\ v <= N - n /\ u \in Nat /\ v \in Nat
      BY <1>2, <2>1, <2>2
    <3> HIDE DEF u, v, N
    <3> QED
      BY <1>1, <3>1
  <2>5. n + 1 <= N
    <3> HIDE DEF N
    <3> QED
      BY <1>1, <1>2
  <2> QED
    BY <2>1, <2>2, <2>3, <2>4, <2>5
<1>3. Good(0, c)
  BY <1>1
<1>4. \A n \in Nat, x \in V : <<n, x>> \in P <=> Good(n, x)
  <2> HIDE DEF Good
  <2> QED
    OBVIOUS
<1>5. P \in SUBSET (Nat \X V)
  <2> HIDE DEF Good
  <2> QED
    OBVIOUS
<1>6. \A n \in Nat, x \in V : <<n, x>> \in P /\ n < N => step[<<n, x>>] =
      Buf!ReadPacket(x)
  <2> HIDE DEF P
  <2> QED
    OBVIOUS
<1>7. step \in [P -> V]
  <2> SUFFICES ASSUME NEW p \in P PROVE step[p] \in V
    <3> HIDE DEF P
    <3> QED
      OBVIOUS
  <2>1. p[1] \in Nat /\ p[2] \in V /\ Good(p[1], p[2])
    <3> HIDE DEF Good
    <3> QED
      OBVIOUS
  <2> HIDE DEF Good, P
  <2> QED
    BY <1>2, <2>1
<1> HIDE DEF Good, step
<1>8. Keeps(step, P, V, N)
  <2> SUFFICES ASSUME NEW n \in Nat, NEW x \in V, n < N, <<n, x>> \in P
               PROVE  <<n + 1, step[<<n, x>>]>> \in P
    BY DEF Keeps
  <2>1. Good(n + 1, Buf!ReadPacket(x)) /\ Buf!ReadPacket(x) \in V /\ n + 1 \in Nat
    BY <1>2, <1>4
  <2>2. step[<<n, x>>] = Buf!ReadPacket(x)
    BY <1>6
  <2> HIDE DEF P
  <2> QED
    BY <1>4, <2>1, <2>2
<1>9. <<0, c>> \in P
  BY <1>1, <1>3, <1>4
<1> HIDE DEF P, V, N
<1>10. PICK f : Steps(f, P, c, N, step)
  BY <1>1, <1>5, <1>7, <1>8, <1>9, Loop
<1> DEFINE w == CHOOSE w : w =
                [n \in 0..N |-> IF n = 0 THEN c ELSE Buf!ReadPacket(w[n - 1])]
<1>11. w = [n \in 0..N |-> IF n = 0 THEN c ELSE Buf!ReadPacket(w[n - 1])]
  <2>1. \A n \in 0..N : f[n] = IF n = 0 THEN c ELSE Buf!ReadPacket(f[n - 1])
    <3> TAKE n \in 0..N
    <3>1. CASE n # 0
      <4>1. n - 1 \in 0..N /\ n - 1 \in Nat /\ n - 1 < N /\ (n - 1) + 1 = n /\ n \in 1..N
        BY <1>1, <3>1
      <4>2. <<n - 1, f[n - 1]>> \in P /\ f[n] = step[<<n - 1, f[n - 1]>>]
        BY <1>10, <4>1 DEF Steps
      <4>3. f[n - 1] \in V
        BY <1>5, <4>2
      <4> QED
        BY <1>6, <3>1, <4>1, <4>2, <4>3
    <3> QED
      BY <1>10, <3>1 DEF Steps
  <2>2. f = [n \in 0..N |-> f[n]]
    BY <1>10 DEF Steps
  <2>3. f = [n \in 0..N |-> IF n = 0 THEN c ELSE Buf!ReadPacket(f[n - 1])]
    BY <2>1, <2>2
  <2> QED
    BY <2>3
<1> HIDE DEF w
<1>12. Buf!TryRpcRead(c) = w[N]
  BY DEF Buf!TryRpcRead, w, N
<1>13. w[0] = c /\ \A n \in 1..N : w[n] = Buf!ReadPacket(w[n - 1])
  <2>1. 0 \in 0..N /\ \A n \in 1..N : n \in 0..N /\ n # 0
    BY <1>1
  <2>2. \A n \in 0..N : w[n] = IF n = 0 THEN c ELSE Buf!ReadPacket(w[n - 1])
    BY <1>11
  <2> QED
    BY <2>1, <2>2
<1>14. Follows(w, P, c, N, step)
  <2> SUFFICES ASSUME NEW n \in 1..N, <<n - 1, w[n - 1]>> \in P PROVE w[n] =
                      step[<<n - 1, w[n - 1]>>]
    BY <1>13 DEF Follows
  <2>1. n - 1 \in Nat /\ n - 1 < N /\ (n - 1) + 1 = n /\ w[n - 1] \in V
    BY <1>1, <1>5
  <2> QED
    BY <1>6, <1>13, <2>1
<1>15. Stays(w, P, N)
  BY <1>1, <1>5, <1>8, <1>9, <1>14, LoopKeeps
<1>16. <<N, w[N]>> \in P
  BY <1>1, <1>15 DEF Stays
<1>17. Good(N, w[N])
  BY <1>1, <1>4, <1>5, <1>16
<1> QED
  <2>1. Buf!Reads(w[N], E) /\ (Buf!Waits(w[N]) \/ w[N].bytes <= 0)
    BY <1>1, <1>17 DEF Good
  <2>2. w[N].bytes <= 0 => Buf!Waits(w[N])
    <3> SUFFICES ASSUME w[N].bytes <= 0 PROVE Buf!Waits(w[N])
      OBVIOUS
    <3> DEFINE x == w[N]
               k == Len(x.delivered)
               len == served[k + 1]
               h == Buf!HeaderOf(len)
    <3>1. x \in Buf!Reading /\ k \in Nat
      BY <2>1, LenProperties DEF Buf!Reads, Buf!Reading
    <3>2. x.bytes \in Nat
      BY <3>1 DEF Buf!Reading
    <3> SUFFICES ASSUME k < Len(served) PROVE x.bytes < h + len
      BY DEF Buf!Waits
    <3>3. len \in Nat
      <4> HIDE DEF k
      <4> QED
        BY <3>1, NextPacket
    <3>4. h \in {1, 4}
      BY HeaderType
    <3> HIDE DEF h, len
    <3> QED
      BY <3>2, <3>3, <3>4
  <2> QED
    BY <1>12, <2>1, <2>2

-----------------------------------------------------------------------------

\* Packets have lengths.
LEMMA SeqOfLengths ==
  ASSUME Buf!BuffersAssumption, NEW p \in Seq(Lengths)
  PROVE  p \in Seq(Nat)
<1>1. Lengths \subseteq Nat
  BY DEF Buf!BuffersAssumption
<1> QED
  BY <1>1, SeqMonotonic

\* The first byte of a connection.
LEMMA FirstType == Buf!First \in Seq(Buf!Byte) /\ Buf!First # <<>> /\ Len(Buf!First) = 1
BY DEF Buf!First, Buf!Byte

\* Another packet does not move those before it.
LEMMA Same ==
  ASSUME NEW p \in Seq(Nat), NEW x \in Nat, NEW k \in 0..Len(p)
  PROVE  Buf!Start(Append(p, x), k) = Buf!Start(p, k)
<1> DEFINE q == Append(p, x)
<1>1. q \in Seq(Nat) /\ Len(q) = Len(p) + 1 /\ \A i \in 1..Len(p) : q[i] = p[i]
  BY AppendProperties
<1>2. Len(p) \in Nat /\ k \in Nat /\ k \in 0..Len(q)
  BY <1>1, LenProperties
<1>3. SubSeq(p, 1, k) \in Seq(Nat) /\ Len(SubSeq(p, 1, k)) = k
      /\ \A i \in 1..k : SubSeq(p, 1, k)[i] = p[i]
  BY Prefix
<1> HIDE DEF q
<1>4. SubSeq(q, 1, k) \in Seq(Nat) /\ Len(SubSeq(q, 1, k)) = k
      /\ \A i \in 1..k : SubSeq(q, 1, k)[i] = q[i]
  BY <1>1, <1>2, Prefix
<1> DEFINE a == SubSeq(p, 1, k)
           b == SubSeq(q, 1, k)
<1>5. \A i \in 1..k : a[i] = b[i]
  BY <1>1, <1>2, <1>3, <1>4
<1>6. a = b
  <2> HIDE DEF a, b
  <2> QED
    BY <1>3, <1>4, <1>5, SeqEqual DEF a, b
<1> QED
  BY <1>6 DEF Buf!Start, q

\* A packet is written (rpc_send_message).
LEMMA OutSent ==
  ASSUME Buf!BuffersAssumption, Buf!IInv, Buf!RpcSendMessage
  PROVE  /\ given' \in Seq(Lengths) /\ onWire' \in Seq(Buf!Byte)
         /\ Buf!OutChain(outChain') /\ outBytes' = Len(Buf!Data(outChain'))
         /\ onWire' \o Buf!Data(outChain') = Buf!First \o Buf!BytesOf(given')
<1>1. PICK len \in Lengths :
        /\ given' = Append(given, len) /\ outChain' =
           Buf!WriteOut(outChain, Buf!Bytes(Len(given'), len))
        /\ outBytes' = outBytes + Buf!HeaderOf(len) + len /\ onWire' = onWire
  BY DEF Buf!RpcSendMessage, Buf!in
<1> DEFINE b == Buf!Bytes(Len(given'), len)
           D == Buf!Data(outChain)
           G == Buf!BytesOf(given)
<1>2. len \in Nat /\ given \in Seq(Nat) /\ given \in Seq(Lengths)
  BY SeqOfLengths DEF Buf!IInv, Buf!BuffersAssumption
<1>3. given' \in Seq(Lengths) /\ Len(given') = Len(given) + 1 /\ Len(given) \in Nat
  BY <1>1, <1>2, AppendProperties, LenProperties
<1>4. b \in Seq(Buf!Byte) /\ Len(b) = Buf!HeaderOf(len) + len
  <2>1. Len(given') \in Nat
    BY <1>3
  <2> QED
    BY <1>2, <2>1, BytesType
<1>5. Buf!OutChain(outChain') /\ Buf!Data(outChain') = D \o b
  <2> HIDE DEF b
  <2>1. Buf!OutChain(outChain) /\ outChain' = Buf!WriteOut(outChain, b)
    BY <1>1 DEF Buf!IInv, b
  <2> QED
    BY <1>4, <2>1, WriteOutKeeps
<1>6. Buf!BytesOf(given') = G \o b /\ G \in Seq(Buf!Byte)
  BY <1>1, <1>2, <1>3, BytesOfAppend
<1>7. D \in Seq(Buf!Byte) /\ onWire \in Seq(Buf!Byte) /\ onWire \o D = Buf!First \o G
      /\ outBytes = Len(D)
  BY DataType DEF Buf!IInv, Buf!OutChain
<1> HIDE DEF b, D, G
<1>8. Len(D \o b) = Len(D) + Len(b) /\ Len(D) \in Nat
  BY <1>4, <1>7, ConcatProperties, LenProperties
<1>9. outBytes' = Len(Buf!Data(outChain'))
  <2>1. Buf!HeaderOf(len) \in {1, 4}
    BY HeaderType
  <2>2. outBytes' = Len(D) + Buf!HeaderOf(len) + len
    BY <1>1, <1>7
  <2> DEFINE h == Buf!HeaderOf(len)
  <2> HIDE DEF h
  <2>3. Len(D) + h + len = Len(D) + (h + len)
    BY <1>2, <1>8, <2>1 DEF h
  <2> QED
    BY <1>4, <1>5, <1>8, <2>2, <2>3 DEF h
<1>10. onWire' \o Buf!Data(outChain') = Buf!First \o Buf!BytesOf(given')
  <2>1. \A x, y, z \in Seq(Buf!Byte) : (x \o y) \o z = x \o (y \o z)
    BY Assoc
  <2>3. (onWire \o D) \o b = onWire \o (D \o b)
    BY <1>4, <1>7, <2>1, Zenon
  <2>4. (Buf!First \o G) \o b = Buf!First \o (G \o b)
    BY <1>4, <1>6, <2>1, FirstType, Zenon
  <2>2. onWire \o (D \o b) = Buf!First \o (G \o b)
    BY <1>7, <2>3, <2>4
  <2> QED
    BY <1>1, <1>5, <1>6, <2>2
<1> QED
  BY <1>1, <1>3, <1>5, <1>7, <1>9, <1>10

\* The socket takes bytes (try_write).
LEMMA OutWritten ==
  ASSUME Buf!BuffersAssumption, Buf!IInv, Buf!TryWrite
  PROVE  /\ given' \in Seq(Lengths) /\ onWire' \in Seq(Buf!Byte)
         /\ Buf!OutChain(outChain') /\ outBytes' = Len(Buf!Data(outChain'))
         /\ onWire' \o Buf!Data(outChain') = Buf!First \o Buf!BytesOf(given')
<1>1. PICK n \in 1..Len(Buf!Data(outChain)) :
        /\ onWire' = onWire \o Buf!ReadInLookup(outChain, n)
        /\ outChain' = Buf!Dropped(outChain, n) /\ outBytes' = outBytes - n
        /\ given' = given
  BY DEF Buf!TryWrite
<1> DEFINE D == Buf!Data(outChain)
           L == Len(D)
           x == SubSeq(D, 1, n)
           y == SubSeq(D, n + 1, L)
<1>2. outChain \in Seq(Buf!Buffer) /\ Buf!OutChain(outChain) /\ D \in Seq(Buf!Byte)
      /\ L \in Nat
      /\ onWire \in Seq(Buf!Byte) /\ onWire \o D = Buf!First \o Buf!BytesOf(given)
         /\ outBytes = L
      /\ given \in Seq(Lengths)
  BY DataType, LenProperties DEF Buf!IInv, Buf!OutChain
<1>3. n \in 0..Len(Buf!Data(outChain)) /\ n \in Nat /\ n <= L
  BY <1>2
<1>4. Buf!OutChain(outChain') /\ Buf!Data(outChain') = y
  BY <1>1, <1>2, <1>3, DroppedKeeps
<1>5. Buf!ReadInLookup(outChain, n) = x
  BY DEF Buf!ReadInLookup
<1> HIDE DEF D
<1>6. x \in Seq(Buf!Byte)
  BY <1>2, <1>3, Prefix DEF D
<1>7. y \in Seq(Buf!Byte) /\ Len(y) = L - n
  BY <1>2, <1>3, Middle
<1>8. x \o y = D
  BY <1>2, <1>3, SplitAt DEF D
<1> HIDE DEF x, y
<1>9. onWire' \o Buf!Data(outChain') = Buf!First \o Buf!BytesOf(given')
  <2>1. \A r, s, t \in Seq(Buf!Byte) : (r \o s) \o t = r \o (s \o t)
    BY Assoc
  <2>2. (onWire \o x) \o y = onWire \o D
    BY <1>2, <1>6, <1>7, <1>8, <2>1, Zenon
  <2> QED
    BY <1>1, <1>2, <1>4, <1>5, <2>2
<1>10. onWire' \in Seq(Buf!Byte)
  BY <1>1, <1>2, <1>5, <1>6, ConcatProperties
<1> QED
  BY <1>1, <1>2, <1>4, <1>7, <1>9, <1>10

\* A connection begins with its first byte.
LEMMA OutAgain ==
  ASSUME Buf!BuffersAssumption, NEW c, Buf!OutChain(c), Buf!Data(c) = Buf!First
  PROVE  <<>> \o Buf!Data(c) = Buf!First \o Buf!BytesOf(<<>>) /\ Len(Buf!Data(c)) = 1
<1>1. <<>> \o Buf!First = Buf!First /\ Buf!First \o <<>> = Buf!First
  BY FirstType, ConcatEmptySeq
<1> QED
  BY <1>1, BytesOfEmpty, FirstType

\* Nothing was read since the connection was made.
Nothing == Buf!Came = [chain |-> <<>>, bytes |-> 0, delivered |-> <<>>, framed |-> TRUE]
           /\ served = <<>> /\ unread = 0

\* The socket has at most what the server sent.
AllRead == unread \in 0..Len(Buf!BytesOf(served))
           /\ Buf!Reads(Buf!Came, Len(Buf!BytesOf(served)) - unread)
              /\ Buf!Waits(Buf!Came)

\* Of a new connection nothing was read, and of what the server sent
\* nothing is executed.
LEMMA NothingCame == Nothing => AllRead
<1> SUFFICES ASSUME Nothing PROVE AllRead
  OBVIOUS
<1> DEFINE s == Buf!Came
<1>0. s = [chain |-> <<>>, bytes |-> 0, delivered |-> <<>>, framed |-> TRUE]
      /\ served = <<>> /\ unread = 0
  BY DEF Nothing
<1> HIDE DEF s
<1>1. Len(Buf!BytesOf(served)) = 0
  <2> DEFINE e == Buf!BytesOf(served)
  <2>1. e = <<>>
    BY <1>0, BytesOfEmpty
  <2> HIDE DEF e
  <2>2. Len(e) = 0
    BY <2>1
  <2> QED
    BY <2>2 DEF e
<1>2. s \in Buf!Reading
  BY <1>0 DEF Buf!Reading
<1>3. Len(s.delivered) = 0 /\ Len(served) = 0
  BY <1>0
<1>4. Buf!Start(served, 0) = 0
  <2>1. served \in Seq(Nat)
    BY <1>0
  <2> QED
    BY <1>1, <1>3, <2>1, WholeStream
<1>5. Buf!Data(s.chain) = <<>>
  BY <1>0, DataEmpty
<1>6. Len(Buf!Data(s.chain)) = 0
  <2> DEFINE e == Buf!Data(s.chain)
  <2> HIDE DEF e
  <2>1. e = <<>>
    BY <1>5 DEF e
  <2>2. Len(e) = 0
    BY <2>1
  <2> QED
    BY <2>2 DEF e
<1>7. SubSeq(Buf!BytesOf(served), 0 + 1, 0) = <<>>
  <2>1. Buf!BytesOf(served) = <<>>
    BY <1>0, BytesOfEmpty
  <2>2. SubSeq(<<>>, 0 + 1, 0) = <<>>
    OBVIOUS
  <2> QED
    BY <2>1, <2>2
<1>8. Buf!InChain(s.chain)
  <2>1. s.chain \in Seq(Buf!Buffer) /\ Len(s.chain) = 0
    BY <1>0
  <2> QED
    BY <2>1 DEF Buf!InChain
<1>9. s.delivered = [k \in 1..Len(s.delivered) |-> Buf!Content(k, served[k])]
  BY <1>0, <1>3
<1>10. Buf!Reads(s, 0)
  <2>1. s.bytes = 0 /\ s.framed /\ 0 + 0 = 0
    BY <1>0
  <2>2. Buf!Data(s.chain) = SubSeq(Buf!BytesOf(served), Buf!Start(served, 0) + 1, 0)
    BY <1>4, <1>5, <1>7
  <2>3. Buf!Start(served, 0) + s.bytes = 0
    BY <1>4, <2>1
  <2>4. s.bytes = Len(Buf!Data(s.chain)) /\ Len(s.delivered) <= Len(served)
    BY <1>3, <1>6, <2>1
  <2> DEFINE k == Len(s.delivered)
  <2>5. k = 0
    BY <1>3
  <2>6. /\ s.delivered = [i \in 1..k |-> Buf!Content(i, served[i])]
        /\ Buf!Start(served, k) + s.bytes = 0
        /\ Buf!Data(s.chain) = SubSeq(Buf!BytesOf(served), Buf!Start(served, k) + 1, 0)
    <3> HIDE DEF k
    <3> QED
      BY <1>9, <2>2, <2>3, <2>5 DEF k
  <2> QED
    BY <1>2, <1>8, <2>1, <2>4, <2>6 DEF Buf!Reads
<1> QED
  BY <1>0, <1>1, <1>3, <1>10 DEF AllRead, Buf!Waits, s

\* The server sends a packet, which comes after all others.
LEMMA ServerSendsKeeps ==
  ASSUME Buf!BuffersAssumption, Buf!IInv, Buf!ServerSends
  PROVE  /\ served' \in Seq(Lengths) /\ unread' \in 0..Len(Buf!BytesOf(served'))
         /\ (Buf!Reads(Buf!Came, Len(Buf!BytesOf(served)) - unread))'
            /\ Buf!Waits(Buf!Came)'
<1>1. PICK len \in Lengths :
        /\ served' = Append(served, len) /\ unread' = unread + Buf!HeaderOf(len) + len
        /\ UNCHANGED <<inChain, inBytes, delivered, framed>>
  BY DEF Buf!ServerSends
<1> DEFINE S == Buf!BytesOf(served)
           q == Append(served, len)
           Sq == Buf!BytesOf(q)
           L == Len(S)
           k == Len(delivered)
           h == Buf!HeaderOf(len)
           E == L - unread
           b == Buf!Start(served, k)
           D == Buf!Data(inChain)
<1>2. len \in Nat /\ len # 0 /\ served \in Seq(Nat) /\ served \in Seq(Lengths)
      /\ h \in {1, 4}
  BY SeqOfLengths, HeaderType DEF Buf!IInv, Buf!BuffersAssumption
<1>3. q \in Seq(Lengths) /\ q \in Seq(Nat) /\ Len(q) = Len(served) + 1
      /\ Len(served) \in Nat
      /\ \A i \in 1..Len(served) : q[i] = served[i]
  BY <1>2, AppendProperties, LenProperties
<1>4. q[Len(served) + 1] = len
  BY <1>2, AppendProperties
<1>5. S \in Seq(Buf!Byte) /\ L \in Nat /\ Sq \in Seq(Buf!Byte) /\ Len(Sq) = L + h + len
      /\ Sq = S \o Buf!Bytes(Len(served) + 1, len)
  BY <1>2, BytesOfAppend, LenProperties
<1>6. unread \in Nat /\ unread <= L
  BY DEF Buf!IInv
<1>7. /\ inChain \in Seq(Buf!Buffer) /\ inBytes \in Nat
         /\ delivered \in Seq(Seq(Buf!Byte)) /\ framed
      /\ Buf!InChain(inChain) /\ inBytes = Len(D) /\ k <= Len(served) /\ k \in Nat
      /\ delivered = [j \in 1..k |-> Buf!Content(j, served[j])]
      /\ b + inBytes = E /\ D = SubSeq(S, b + 1, E)
  <2>1. Buf!Came.chain = inChain /\ Buf!Came.bytes = inBytes /\ Buf!Came.delivered =
        delivered /\ Buf!Came.framed = framed
    BY DEF Buf!Came
  <2>2. Buf!Reads(Buf!Came, E)
    BY DEF Buf!IInv
  <2> HIDE DEF E
  <2>3. Buf!Came \in Buf!Reading
    BY <2>2 DEF Buf!Reads
  <2>4. inChain \in Seq(Buf!Buffer) /\ inBytes \in Nat /\ delivered \in Seq(Seq(Buf!Byte))
    BY <2>1, <2>3 DEF Buf!Reading
  <2> QED
    BY <2>1, <2>2, <2>4, LenProperties DEF Buf!Reads
<1>8. k < Len(served) => inBytes < Buf!HeaderOf(served[k + 1]) + served[k + 1]
  BY DEF Buf!IInv, Buf!Waits, Buf!Came
<1>9. Buf!Start(q, k) = b /\ b \in Nat
  <2>1. k \in 0..Len(served)
    BY <1>3, <1>7
  <2> HIDE DEF k
  <2> QED
    BY <1>2, <2>1, Same, PrefixOfBytes
<1>10. unread' \in 0..Len(Sq) /\ Len(Sq) - unread' = E
  <2> HIDE DEF L, h, Sq
  <2> QED
    BY <1>1, <1>2, <1>5, <1>6 DEF h
<1>11. \A j \in 1..k : Buf!Content(j, served[j]) = Buf!Content(j, q[j])
  <2> TAKE j \in 1..k
  <2>1. k \in Nat /\ k <= Len(served)
    BY <1>7
  <2> HIDE DEF q, k
  <2>2. j \in 1..Len(served)
    BY <1>3, <2>1
  <2> QED
    BY <1>3, <2>2
<1>12. delivered = [j \in 1..k |-> Buf!Content(j, q[j])]
  <2> HIDE DEF q, k
  <2> QED
    BY <1>7, <1>11
<1>13. D = SubSeq(Sq, b + 1, E)
  <2> DEFINE x == SubSeq(S, b + 1, E)
             y == SubSeq(Sq, b + 1, E)
             n == E - b
             t == Buf!Bytes(Len(served) + 1, len)
  <2>1. b <= E /\ E <= L /\ E \in Nat /\ n \in Nat /\ L <= Len(Sq) /\ b + n = E
    <3> HIDE DEF b, L, Sq, h
    <3> QED
      BY <1>2, <1>5, <1>6, <1>7, <1>9
  <2>2. t \in Seq(Buf!Byte)
    <3> DEFINE m == Len(served) + 1
    <3>1. m \in Nat
      BY <1>3
    <3> HIDE DEF m
    <3>2. Buf!Bytes(m, len) \in Seq(Buf!Byte)
      BY <1>2, <3>1, BytesType
    <3> QED
      BY <3>2 DEF m
  <2> HIDE DEF S, Sq, b, E, n, t
  <2>9. S \in Seq(Buf!Byte) /\ Sq \in Seq(Buf!Byte) /\ b \in Nat /\ E \in Nat /\ b <= E
        /\ E <= Len(S)
    BY <1>5, <1>9, <2>1
  <2>4. E <= Len(Sq)
    <3>1. Len(Sq) \in Nat /\ Len(S) \in Nat /\ Len(S) <= Len(Sq)
      BY <1>5, <2>1, LenProperties
    <3> QED
      BY <2>9, <3>1
  <2>10. SubSeq(S, b + 1, E) \in Seq(Buf!Byte) /\ Len(SubSeq(S, b + 1, E)) = E - b
         /\ \A i \in 1..(E - b) : SubSeq(S, b + 1, E)[i] = S[b + i]
    <3> HIDE DEF x, y
    <3> QED
      BY <2>9, Middle
  <2>11. SubSeq(Sq, b + 1, E) \in Seq(Buf!Byte) /\ Len(SubSeq(Sq, b + 1, E)) = E - b
         /\ \A i \in 1..(E - b) : SubSeq(Sq, b + 1, E)[i] = Sq[b + i]
    <3> HIDE DEF x, y
    <3> QED
      BY <2>4, <2>9, Middle
  <2>3. x \in Seq(Buf!Byte) /\ Len(x) = E - b /\ \A i \in 1..(E - b) : x[i] = S[b + i]
    BY <2>10
  <2>5. y \in Seq(Buf!Byte) /\ Len(y) = E - b /\ \A i \in 1..(E - b) : y[i] = Sq[b + i]
    BY <2>11
  <2> HIDE DEF x, y
  <2>6. \A i \in 1..(Len(S) + Len(t)) : Sq[i] = IF i <= Len(S) THEN S[i]
        ELSE t[i - Len(S)]
    BY <1>5, <2>2, ConcatProperties DEF t
  <2>7. \A i \in 1..(E - b) : x[i] = y[i]
    <3> TAKE i \in 1..(E - b)
    <3>1. Len(t) \in Nat
      BY <2>2, LenProperties
    <3>2. b + i \in 1..(Len(S) + Len(t)) /\ b + i <= Len(S)
      BY <1>5, <1>9, <2>1, <3>1
    <3> QED
      BY <2>3, <2>5, <2>6, <3>2
  <2>8. x = y
    BY <2>3, <2>5, <2>7, SeqEqual
  <2> QED
    BY <1>7, <2>8 DEF x, y
<1>14. k < Len(q) => inBytes < Buf!HeaderOf(q[k + 1]) + q[k + 1]
  <2>1. CASE k < Len(served)
    <3>1. k + 1 \in 1..Len(served)
      BY <1>3, <1>7, <2>1
    <3>2. q[k + 1] = served[k + 1]
      BY <1>3, <3>1
    <3> QED
      BY <1>8, <2>1, <3>2
  <2>2. CASE k = Len(served)
    <3>1. b = L
      BY <1>2, <2>2, WholeStream
    <3>2. inBytes = 0
      <4> HIDE DEF b, L
      <4> QED
        BY <1>5, <1>6, <1>7, <3>1
    <3>3. q[k + 1] = len
      BY <1>4, <2>2
    <3>4. 0 < h + len
      BY <1>2
    <3> QED
      BY <3>2, <3>3, <3>4
  <2>3. k \in Nat /\ k <= Len(served) /\ Len(served) \in Nat
    BY <1>3, <1>7
  <2>4. k < Len(served) \/ k = Len(served)
    <3> HIDE DEF k
    <3> QED
      BY <2>3
  <2> QED
    BY <2>1, <2>2, <2>4
<1>15. k <= Len(q)
  <2> HIDE DEF k, q
  <2> QED
    BY <1>3, <1>7
<1>16. (Buf!Reads(Buf!Came, Len(Buf!BytesOf(served)) - unread))'
  <2>1. Buf!Came' =
        [chain |-> inChain, bytes |-> inBytes, delivered |-> delivered, framed |-> framed]
    BY <1>1 DEF Buf!Came
  <2>2. Buf!Came' \in Buf!Reading
    BY <1>7, <2>1 DEF Buf!Reading
  <2>3. Buf!Came'.chain = inChain /\ Buf!Came'.bytes = inBytes /\ Buf!Came'.delivered =
        delivered /\ Buf!Came'.framed = framed
    BY <2>1
  <2>4. served' = q /\ Len(Buf!BytesOf(served')) - unread' = E
    BY <1>1, <1>10
  <2> HIDE DEF q, E, b, S, D, Sq
  <2>5. Buf!Start(served', k) + inBytes = E /\ D =
        SubSeq(Buf!BytesOf(served'), Buf!Start(served', k) + 1, E)
    BY <1>7, <1>9, <1>13, <2>4 DEF Sq
  <2>6. Len(delivered) <= Len(served') /\ delivered =
        [j \in 1..Len(delivered) |-> Buf!Content(j, served'[j])]
    BY <1>12, <1>15, <2>4
  <2> QED
    BY <1>7, <2>2, <2>3, <2>4, <2>5, <2>6 DEF Buf!Reads, D
<1>17. Buf!Waits(Buf!Came)'
  <2>1. Buf!Came' =
        [chain |-> inChain, bytes |-> inBytes, delivered |-> delivered, framed |-> framed]
    BY <1>1 DEF Buf!Came
  <2>2. served' = q
    BY <1>1
  <2> HIDE DEF q
  <2> QED
    BY <1>14, <2>1, <2>2 DEF Buf!Waits
<1> QED
  BY <1>1, <1>3, <1>10, <1>16, <1>17

\* What the socket has goes to the chain, and the packets that are whole
\* are executed (try_read, try_rpc_read).
LEMMA TryReadKeeps ==
  ASSUME Buf!BuffersAssumption, Buf!IInv, Buf!TryRead
  PROVE  /\ served' \in Seq(Lengths) /\ unread' \in 0..Len(Buf!BytesOf(served'))
         /\ (Buf!Reads(Buf!Came, Len(Buf!BytesOf(served)) - unread))'
            /\ Buf!Waits(Buf!Came)'
<1> DEFINE S == Buf!BytesOf(served)
           L == Len(S)
           E == L - unread
           D == Buf!Data(inChain)
           k == Len(delivered)
           b == Buf!Start(served, k)
           New(n) == SubSeq(S, E + 1, E + n)
           Start1(n) == [chain |-> Buf!Filled(inChain, New(n)), bytes |-> inBytes + n,
                         delivered |-> delivered, framed |-> framed]
<1>1. PICK n \in 1..unread :
        LET s == Buf!TryRpcRead(Start1(n))
        IN /\ unread' = unread - n /\ served' = served
           /\ inChain' = s.chain /\ inBytes' = s.bytes
           /\ delivered' = s.delivered /\ framed' = s.framed
  BY DEF Buf!TryRead
<1> DEFINE new == New(n)
           s1 == Start1(n)
           s == Buf!TryRpcRead(s1)
           c1 == Buf!Filled(inChain, new)
<1>2. served \in Seq(Nat) /\ served \in Seq(Lengths) /\ S \in Seq(Buf!Byte) /\ L \in Nat
      /\ unread \in Nat /\ unread <= L
  <2>1. served \in Seq(Nat) /\ served \in Seq(Lengths)
    BY SeqOfLengths DEF Buf!IInv
  <2> QED
    BY <2>1, BytesOfType DEF Buf!IInv
<1>3. n \in Nat /\ E \in Nat /\ E + n \in Nat /\ E <= E + n /\ E + n <= L
      /\ (E + n) - E = n
      /\ L - unread' = E + n /\ unread' \in 0..L
  <2> HIDE DEF L
  <2> QED
    BY <1>1, <1>2
<1>4. /\ inChain \in Seq(Buf!Buffer) /\ inBytes \in Nat
         /\ delivered \in Seq(Seq(Buf!Byte)) /\ framed
      /\ Buf!InChain(inChain) /\ inBytes = Len(D) /\ k <= Len(served) /\ k \in Nat
      /\ delivered = [j \in 1..k |-> Buf!Content(j, served[j])]
      /\ b + inBytes = E /\ D = SubSeq(S, b + 1, E) /\ framed \in BOOLEAN
  <2>1. Buf!Came.chain = inChain /\ Buf!Came.bytes = inBytes /\ Buf!Came.delivered =
        delivered /\ Buf!Came.framed = framed
    BY DEF Buf!Came
  <2>2. Buf!Reads(Buf!Came, E)
    BY DEF Buf!IInv
  <2> HIDE DEF E
  <2>3. Buf!Came \in Buf!Reading
    BY <2>2 DEF Buf!Reads
  <2>4. inChain \in Seq(Buf!Buffer) /\ inBytes \in Nat
        /\ delivered \in Seq(Seq(Buf!Byte)) /\ framed \in BOOLEAN
    BY <2>1, <2>3 DEF Buf!Reading
  <2> QED
    BY <2>1, <2>2, <2>4, LenProperties DEF Buf!Reads
<1>5. b \in Nat /\ b <= E
  <2>1. k \in 0..Len(served)
    BY <1>2, <1>4, LenProperties
  <2>2. b \in Nat
    <3> HIDE DEF k
    <3> QED
      BY <1>2, <2>1, PrefixOfBytes
  <2> HIDE DEF b, E
  <2> QED
    BY <1>3, <1>4, <2>2
<1>6. new \in Seq(Buf!Byte) /\ Len(new) = n /\ \A i \in 1..n : new[i] = S[E + i]
  <2> DEFINE m == E + n
  <2>1. m \in Nat /\ E <= m /\ m <= Len(S) /\ m - E = n
    BY <1>3
  <2>2. new = SubSeq(S, E + 1, m)
    OBVIOUS
  <2>4. E \in Nat /\ S \in Seq(Buf!Byte)
    BY <1>2, <1>3
  <2> HIDE DEF m, E, S, new
  <2>5. SubSeq(S, E + 1, m) \in Seq(Buf!Byte) /\ Len(SubSeq(S, E + 1, m)) = m - E
        /\ \A i \in 1..(m - E) : SubSeq(S, E + 1, m)[i] = S[E + i]
    BY <2>1, <2>4, Middle
  <2>3. new \in Seq(Buf!Byte) /\ Len(new) = m - E /\ \A i \in 1..(m - E) : new[i] =
        S[E + i]
    BY <2>2, <2>5
  <2> QED
    BY <2>1, <2>3
<1>7. Buf!InChain(c1) /\ Buf!Data(c1) = D \o new
  <2> HIDE DEF new
  <2> QED
    BY <1>4, <1>6, FilledKeeps
<1>8. D \in Seq(Buf!Byte)
  BY <1>4, DataType
<1> DEFINE D1 == D \o new
           R == SubSeq(S, b + 1, E + n)
<1>9. D1 \in Seq(Buf!Byte) /\ Len(D1) = inBytes + n
      /\ \A i \in 1..(inBytes + n) : D1[i] = IF i <= inBytes THEN D[i]
         ELSE new[i - inBytes]
  <2>1. D1 \in Seq(Buf!Byte) /\ Len(D1) = Len(D) + Len(new)
        /\ \A i \in 1..(Len(D) + Len(new)) : D1[i] = IF i <= Len(D) THEN D[i]
           ELSE new[i - Len(D)]
    <3> HIDE DEF D, new
    <3> QED
      BY <1>6, <1>8, ConcatProperties
  <2> HIDE DEF D, new, D1
  <2> QED
    BY <1>4, <1>6, <2>1
<1>10. D1 = R
  <2> DEFINE m == E + n
  <2> HIDE DEF D, new, D1, E, S, b
  <2>1. D \in Seq(Buf!Byte) /\ \A i \in 1..inBytes : D[i] = S[b + i]
    <3>1. E <= Len(S) /\ E - b = inBytes
      BY <1>2, <1>3, <1>4, <1>5
    <3>2. SubSeq(S, b + 1, E) \in Seq(Buf!Byte)
          /\ \A i \in 1..(E - b) : SubSeq(S, b + 1, E)[i] = S[b + i]
      BY <1>2, <1>3, <1>5, <3>1, Middle
    <3> QED
      BY <1>4, <3>1, <3>2
  <2>2. m \in Nat /\ b <= m /\ m <= Len(S) /\ m - b = inBytes + n
    BY <1>2, <1>3, <1>4, <1>5
  <2>3. R = SubSeq(S, b + 1, m)
    OBVIOUS
  <2> HIDE DEF m, R
  <2>4. R \in Seq(Buf!Byte) /\ Len(R) = m - b /\ \A i \in 1..(m - b) : R[i] = S[b + i]
    BY <1>2, <1>5, <2>2, <2>3, Middle
  <2>5. \A i \in 1..(inBytes + n) : D1[i] = R[i]
    <3> TAKE i \in 1..(inBytes + n)
    <3>1. CASE i <= inBytes
      <4>1. i \in 1..inBytes
        <5>1. inBytes \in Nat
          BY <1>4
        <5> QED
          BY <3>1, <5>1
      <4> QED
        BY <1>9, <2>1, <2>2, <2>4, <3>1, <4>1
    <3>2. CASE ~(i <= inBytes)
      <4>1. i - inBytes \in 1..n /\ E + (i - inBytes) = b + i
        BY <1>3, <1>4, <1>5, <3>2
      <4>2. D1[i] = new[i - inBytes]
        BY <1>9, <3>2
      <4>3. new[i - inBytes] = S[E + (i - inBytes)]
        BY <1>6, <4>1
      <4> QED
        BY <2>2, <2>4, <4>1, <4>2, <4>3
    <3> QED
      BY <3>1, <3>2
  <2>6. Len(R) = inBytes + n
    BY <2>2, <2>4
  <2> QED
    BY <1>9, <2>4, <2>5, <2>6, SeqEqual
<1>11. Buf!Reads(s1, E + n)
  <2> HIDE DEF D1, R
  <2>1. s1.chain = c1 /\ s1.bytes = inBytes + n /\ s1.delivered = delivered
        /\ s1.framed = framed
    OBVIOUS
  <2>2. s1 = [chain |-> c1, bytes |-> inBytes + n, delivered |-> delivered,
              framed |-> framed]
    OBVIOUS
  <2>3. c1 \in Seq(Buf!Buffer)
    BY <1>7 DEF Buf!InChain
  <2>4. Buf!Data(c1) = D1
    BY <1>7 DEF D1
  <2> HIDE DEF s1, c1, S, E, b
  <2>5. s1 \in Buf!Reading
    <3>1. inBytes + n \in Nat
      <4>1. inBytes \in Nat /\ n \in Nat
        BY <1>3, <1>4
      <4> QED
        BY <4>1
    <3> QED
      BY <1>4, <2>2, <2>3, <3>1 DEF Buf!Reading
  <2>6. s1.bytes = Len(Buf!Data(s1.chain)) /\ Buf!Data(s1.chain) = R
    BY <1>9, <1>10, <2>1, <2>4
  <2>7. b + s1.bytes = E + n
    <3>1. inBytes \in Nat /\ n \in Nat /\ b \in Nat /\ b + inBytes = E
      BY <1>3, <1>4, <1>5
    <3> QED
      BY <2>1, <3>1
  <2> QED
    BY <1>4, <1>7, <2>1, <2>5, <2>6, <2>7 DEF Buf!Reads, R, b, S
<1>12. Buf!Reads(s, E + n) /\ Buf!Waits(s)
  <2> DEFINE m == E + n
  <2>1. m \in Nat /\ m <= Len(Buf!BytesOf(served)) /\ Buf!Reads(s1, m)
    BY <1>3, <1>11
  <2> HIDE DEF m, s1
  <2>2. Buf!Reads(Buf!TryRpcRead(s1), m) /\ Buf!Waits(Buf!TryRpcRead(s1))
    BY <1>2, <2>1, TryRpcReadKeeps
  <2> QED
    BY <2>2 DEF m
<1> HIDE DEF s, E
<1>13. Buf!Came' = s
  <2>1. s \in Buf!Reading
    BY <1>12 DEF Buf!Reads
  <2>2. Buf!Came' =
        [chain |-> s.chain, bytes |-> s.bytes, delivered |-> s.delivered,
         framed |-> s.framed]
    BY <1>1 DEF Buf!Came, s
  <2> QED
    BY <2>1, <2>2 DEF Buf!Reading
<1>14. served' = served /\ Len(Buf!BytesOf(served')) - unread' = E + n
  BY <1>1, <1>3
<1>15. (Buf!Reads(Buf!Came, Len(Buf!BytesOf(served)) - unread))'
  <2> DEFINE m == E + n
  <2>1. Buf!Reads(s, m) /\ Len(Buf!BytesOf(served')) - unread' = m
    BY <1>12, <1>14
  <2> HIDE DEF m
  <2> QED
    BY <1>13, <1>14, <2>1 DEF Buf!Reads
<1>16. Buf!Waits(Buf!Came)'
  BY <1>12, <1>13, <1>14 DEF Buf!Waits
<1> QED
  BY <1>2, <1>3, <1>14, <1>15, <1>16

\* The first byte is written to an empty chain.
LEMMA FirstWritten ==
  ASSUME Buf!BuffersAssumption
  PROVE  Buf!OutChain(Buf!WriteOut(<<>>, Buf!First))
         /\ Buf!Data(Buf!WriteOut(<<>>, Buf!First)) = Buf!First
<1>1. Buf!OutChain(<<>>)
  <2>1. <<>> \in Seq(Buf!Buffer) /\ Len(<<>>) = 0
    OBVIOUS
  <2> QED
    BY <2>1 DEF Buf!OutChain
<1> DEFINE c == Buf!WriteOut(<<>>, Buf!First)
<1>2. Buf!OutChain(c) /\ Buf!Data(c) = Buf!Data(<<>>) \o Buf!First
  BY <1>1, FirstType, WriteOutKeeps
<1>3. Buf!Data(<<>>) \o Buf!First = Buf!First
  BY DataEmpty, FirstType, ConcatEmptySeq
<1> QED
  BY <1>2, <1>3

\* The invariant of the streams holds at first.
LEMMA BuffersInit ==
  ASSUME Buf!BuffersAssumption, Buf!Init
  PROVE  Buf!IInv
<1> DEFINE b == [data |-> Buf!First, room |-> Chunk - 1]
<1>1. Buf!OutChain(outChain) /\ Buf!Data(outChain) = Buf!First
  <2> DEFINE e == <<>>
  <2>1. b \in Buf!Buffer /\ b.data = Buf!First
    BY FirstType DEF Buf!BuffersAssumption, Buf!Buffer
  <2>2. outChain = Append(e, b)
    BY DEF Buf!Init
  <2>3. e \in Seq(Buf!Buffer) /\ Len(e) = 0
    OBVIOUS
  <2>4. Buf!Data(e) = <<>>
    BY DataEmpty
  <2> HIDE DEF e, b
  <2>5. Buf!OutChain(Append(e, b))
    <3>1. \A k \in 1..Len(e) : e[k].data # <<>> /\ e[k].room = 0
      BY <2>3
    <3> QED
      BY <2>1, <2>3, <3>1, FirstType, AppendToOut
  <2>6. Buf!Data(Append(e, b)) = <<>> \o Buf!First
    BY <2>1, <2>3, <2>4, DataAppend
  <2> QED
    BY <2>2, <2>5, <2>6, FirstType, ConcatEmptySeq
<1>2. <<>> \o Buf!Data(outChain) = Buf!First \o Buf!BytesOf(<<>>)
      /\ Len(Buf!Data(outChain)) = 1
  BY <1>1, OutAgain
<1>3. given = <<>> /\ onWire = <<>> /\ outBytes = 1 /\ served = <<>> /\ unread = 0
      /\ inChain = <<>> /\ inBytes = 0 /\ delivered = <<>> /\ framed = TRUE /\ fails = 0
  BY DEF Buf!Init
<1>4. AllRead
  <2>1. Nothing
    BY <1>3 DEF Nothing, Buf!Came
  <2> QED
    BY <2>1, NothingCame
<1>5. fails \in 0..MaxFails /\ given \in Seq(Lengths) /\ served \in Seq(Lengths)
      /\ onWire \in Seq(Buf!Byte)
  BY <1>3 DEF Buf!BuffersAssumption
<1> QED
  BY <1>1, <1>2, <1>3, <1>4, <1>5 DEF Buf!IInv, AllRead

\* A connection fails and is made again with empty chains
\* (fail_connection).
LEMMA FailKeeps ==
  ASSUME Buf!BuffersAssumption, Buf!IInv, Buf!Fail
  PROVE  Buf!IInv'
<1>1. outChain' = Buf!WriteOut(<<>>, Buf!First) /\ outBytes' = 1 /\ given' = <<>>
      /\ onWire' = <<>>
      /\ served' = <<>> /\ unread' = 0 /\ inChain' = <<>> /\ inBytes' = 0
         /\ delivered' = <<>>
      /\ framed' = TRUE
  BY DEF Buf!Fail, Buf!FailConnection, Buf!IInv, Buf!Reads, Buf!Came, Buf!Reading
<1>2. Buf!OutChain(outChain') /\ Buf!Data(outChain') = Buf!First
  BY <1>1, FirstWritten
<1>3. <<>> \o Buf!Data(outChain') = Buf!First \o Buf!BytesOf(<<>>)
      /\ Len(Buf!Data(outChain')) = 1
  BY <1>2, OutAgain
<1>4. AllRead'
  <2>1. Nothing'
    BY <1>1 DEF Nothing, Buf!Came
  <2> QED
    BY <2>1, NothingCame, PTL
<1>5. fails' \in 0..MaxFails
  BY DEF Buf!Fail, Buf!IInv, Buf!BuffersAssumption
<1>6. given' \in Seq(Lengths) /\ served' \in Seq(Lengths) /\ onWire' \in Seq(Buf!Byte)
  BY <1>1
<1> QED
  BY <1>1, <1>2, <1>3, <1>4, <1>5, <1>6 DEF Buf!IInv, AllRead

\* What is written does not disturb what is read.
LEMMA InStays ==
  ASSUME Buf!IInv, UNCHANGED Buf!in
  PROVE  /\ served' \in Seq(Lengths) /\ unread' \in 0..Len(Buf!BytesOf(served'))
         /\ (Buf!Reads(Buf!Came, Len(Buf!BytesOf(served)) - unread))'
            /\ Buf!Waits(Buf!Came)'
<1>1. served' = served /\ unread' = unread /\ Buf!Came' = Buf!Came
  BY DEF Buf!in, Buf!Came
<1> QED
  BY <1>1 DEF Buf!IInv, Buf!Reads, Buf!Waits

\* Each step of the streams keeps their invariant.
LEMMA BuffersNext ==
  ASSUME Buf!BuffersAssumption, Buf!IInv, [Buf!Next]_(Buf!buffers_vars)
  PROVE  Buf!IInv'
<1>1. CASE Buf!RpcSendMessage
  <2>1. UNCHANGED <<Buf!in, fails>>
    BY <1>1 DEF Buf!RpcSendMessage
  <2> QED
    BY <1>1, <2>1, OutSent, InStays DEF Buf!IInv
<1>2. CASE Buf!TryWrite
  <2>1. UNCHANGED <<Buf!in, fails>>
    BY <1>2 DEF Buf!TryWrite
  <2> QED
    BY <1>2, <2>1, OutWritten, InStays DEF Buf!IInv
<1>3. CASE Buf!ServerSends
  <2>1. UNCHANGED <<Buf!out, fails>>
    BY <1>3 DEF Buf!ServerSends
  <2> QED
    BY <1>3, <2>1, ServerSendsKeeps DEF Buf!IInv, Buf!out
<1>4. CASE Buf!TryRead
  <2>1. UNCHANGED <<Buf!out, fails>>
    BY <1>4 DEF Buf!TryRead
  <2> QED
    BY <1>4, <2>1, TryReadKeeps DEF Buf!IInv, Buf!out
<1>5. CASE Buf!Fail
  BY <1>5, FailKeeps
<1>6. CASE UNCHANGED Buf!buffers_vars
  BY <1>6, InStays DEF Buf!IInv, Buf!buffers_vars, Buf!out
<1> QED
  BY <1>1, <1>2, <1>3, <1>4, <1>5, <1>6 DEF Buf!Next

\* The invariant of the streams implies their properties.
LEMMA BuffersGoals ==
  ASSUME Buf!BuffersAssumption, Buf!IInv
  PROVE  Buf!TypeOK /\ Buf!StreamsKept
<1> DEFINE S == Buf!BytesOf(served)
           k == Len(delivered)
           rest == SubSeq(served, k + 1, Len(served))
<1>1. served \in Seq(Nat) /\ Len(S) \in Nat /\ Len(served) \in Nat
  <2>1. served \in Seq(Nat)
    BY SeqOfLengths DEF Buf!IInv
  <2> QED
    BY <2>1, BytesOfType, LenProperties
<1>2. /\ inBytes \in Nat /\ delivered \in Seq(Seq(Buf!Byte)) /\ framed
      /\ Buf!InChain(inChain) /\ inBytes = Len(Buf!Data(inChain)) /\ k <= Len(served)
         /\ k \in Nat
      /\ delivered = [j \in 1..k |-> Buf!Content(j, served[j])]
      /\ Buf!Start(served, k) + inBytes = Len(S) - unread
  <2>1. Buf!Came.chain = inChain /\ Buf!Came.bytes = inBytes /\ Buf!Came.delivered =
        delivered /\ Buf!Came.framed = framed
    BY DEF Buf!Came
  <2>2. Buf!Reads(Buf!Came, Len(S) - unread)
    BY DEF Buf!IInv
  <2>3. Buf!Came \in Buf!Reading
    BY <2>2 DEF Buf!Reads
  <2>4. inBytes \in Nat /\ delivered \in Seq(Seq(Buf!Byte))
    BY <2>1, <2>3 DEF Buf!Reading
  <2> QED
    BY <2>1, <2>2, <2>4, LenProperties DEF Buf!Reads
<1>3. k < Len(served) => inBytes < Buf!HeaderOf(served[k + 1]) + served[k + 1]
  BY DEF Buf!IInv, Buf!Waits, Buf!Came
<1>4. k \in 0..Len(served)
  BY <1>1, <1>2
<1>5. Len(Buf!BytesOf(rest)) = Len(S) - Buf!Start(served, k)
      /\ Buf!Start(served, k) \in Nat
  <2> HIDE DEF k
  <2> QED
    BY <1>1, <1>4, BytesOfRest, PrefixOfBytes
<1>6. inBytes + unread = Len(Buf!BytesOf(rest))
  <2>1. unread \in Nat
    BY DEF Buf!IInv
  <2> DEFINE u == Buf!Start(served, k)
             v == Len(S)
             w == Len(Buf!BytesOf(rest))
  <2>2. u \in Nat /\ v \in Nat /\ w = v - u /\ u + inBytes = v - unread /\ inBytes \in Nat
    BY <1>1, <1>2, <1>5
  <2> HIDE DEF u, v, w
  <2>3. inBytes + unread = w
    BY <2>1, <2>2
  <2> QED
    BY <2>3 DEF w
<1>7. rest # <<>> => inBytes < Buf!HeaderOf(rest[1]) + rest[1]
  <2> SUFFICES ASSUME rest # <<>> PROVE inBytes < Buf!HeaderOf(rest[1]) + rest[1]
    OBVIOUS
  <2>1. rest \in Seq(Nat) /\ Len(rest) = Len(served) - k
        /\ \A i \in 1..(Len(served) - k) : rest[i] = served[k + i]
    <3> DEFINE n == Len(served)
    <3>1. k \in Nat /\ k <= n /\ n <= Len(served) /\ n \in Nat
      BY <1>1, <1>2
    <3> HIDE DEF k, n
    <3>2. SubSeq(served, k + 1, n) \in Seq(Nat) /\ Len(SubSeq(served, k + 1, n)) = n - k
          /\ \A i \in 1..(n - k) : SubSeq(served, k + 1, n)[i] = served[k + i]
      BY <1>1, <3>1, Middle
    <3> QED
      BY <3>2 DEF n
  <2>2. k < Len(served)
    <3> SUFFICES ASSUME k = Len(served) PROVE FALSE
      <4>1. k <= Len(served) /\ k \in Nat /\ Len(served) \in Nat
        BY <1>1, <1>2
      <4> HIDE DEF k
      <4> QED
        BY <4>1
    <3>1. Len(rest) = 0
      <4> HIDE DEF rest, k
      <4> QED
        BY <1>1, <2>1
    <3> HIDE DEF rest
    <3> QED
      BY <2>1, <3>1, Empty
  <2>3. rest[1] = served[k + 1]
    <3>1. 1 \in 1..(Len(served) - k)
      <4>1. k \in Nat /\ Len(served) \in Nat
        BY <1>1, <1>2
      <4> HIDE DEF k
      <4> QED
        BY <2>2, <4>1
    <3> HIDE DEF rest
    <3> QED
      BY <2>1, <3>1
  <2> QED
    BY <1>3, <2>2, <2>3
<1>8. Buf!StreamsKept
  <2>1. onWire \o Buf!Data(outChain) = Buf!First \o Buf!BytesOf(given)
    BY DEF Buf!IInv
  <2> QED
    BY <1>2, <1>6, <1>7, <2>1 DEF Buf!StreamsKept
<1>9. Buf!TypeOK
  <2>1. \A j \in DOMAIN outChain : outChain[j].data # <<>>
                                /\ (outChain[j].room = 0 \/ j = Len(outChain))
    BY LenProperties DEF Buf!IInv, Buf!OutChain
  <2>2. \A j \in DOMAIN inChain :
       j < Len(inChain) => inChain[j].data # <<>> /\ inChain[j].room = 0
    BY <1>2, LenProperties DEF Buf!InChain
  <2>3. outBytes = Len(Buf!Data(outChain)) /\ fails \in 0..MaxFails
    BY DEF Buf!IInv
  <2> QED
    BY <1>2, <2>1, <2>2, <2>3 DEF Buf!TypeOK
<1> QED
  BY <1>8, <1>9

-----------------------------------------------------------------------------
\* The theorems

\* A key in use, or kept for the next start, is one that the server has
\* too, whatever connection is lost, whoever refuses and whenever the
\* process ends; and the process stops in the exchange only for one of the
\* reasons listed (rpc_execute, process_auth_complete, tc_becomes_ready).
THEOREM KeysAreRight == AppSpec => []KeysRight
<1>1. AppInit => Key!IInv
  BY AppAssumption, KeyInit DEF AppInit
<1>2. Key!IInv /\ [AppNext]_app_vars => Key!IInv'
  BY AppAssumption, KeyStep, KeyNext
<1>3. Key!IInv => KeysRight
  BY AppAssumption, KeyGoals DEF KeysRight
<1> QED
  BY <1>1, <1>2, <1>3, PTL DEF AppSpec

\* In its main loop the client works with the data centre of its account,
\* whatever migrations and crashes came before, unless that was the
\* nearest one and only the event log was kept; it never registers again
\* after that, and stops only when the server has refused (loop,
\* start_registering, check_phone_on_error).
THEOREM HomeIsRight == AppSpec => []HomeRight
<1>1. AppInit => Sign!IInv
  BY AppAssumption, SignInInit DEF AppInit
<1>2. Sign!IInv /\ [AppNext]_app_vars => Sign!IInv'
  BY AppAssumption, SignStep, SignInNext
<1>3. Sign!IInv => HomeRight
  BY AppAssumption, SignInGoals DEF HomeRight
<1> QED
  BY <1>1, <1>2, <1>3, PTL DEF AppSpec

\* The server has every part of a file, in order, before the message that
\* names it, and no more parts than it takes; the totals are those of the
\* uploads under way, however many go on at once and whatever is refused;
\* no file is left as being sent, if they were sent one after the other;
\* and the process stops only for a file of one or two bytes, a photo that
\* is not sent, and a file of less than three blocks of the cipher to a
\* secret chat (send_part, do_send_photo, _fileUploading).
THEOREM UploadsAreRight == AppSpec => []UploadsRight
<1>1. AppInit => Up!UInv
  BY AppAssumption, UInvInit DEF AppInit
<1>2. Up!UInv /\ [AppNext]_app_vars => Up!UInv'
  BY AppAssumption, UpStep, UInvNext
<1>3. Up!UInv => UploadsRight
  BY AppAssumption, UInvGoals DEF UploadsRight
<1> QED
  BY <1>1, <1>2, <1>3, PTL DEF AppSpec

\* A file reported as loaded is the server's, unless a part of it was
\* there when a download of it began; the assertion on the length of
\* encrypted parts never fails; and the totals are those of the downloads
\* under way, but for padding (download_on_answer, load_next_part).
THEOREM DownloadsAreRight == AppSpec => []DownloadsRight
<1>1. AppInit => Down!IInv
  BY AppAssumption, DownloadsInit DEF AppInit
<1>2. Down!IInv /\ [AppNext]_app_vars => Down!IInv'
  BY AppAssumption, DownStep, DownloadsNext
<1>3. Down!IInv => DownloadsRight
  BY AppAssumption, DownloadsGoals DEF DownloadsRight
<1> QED
  BY <1>1, <1>2, <1>3, PTL DEF AppSpec

\* A message is found under its id, before and after the server gives it
\* another, unless two messages shared a second or one was read before it
\* came; no date and no dialog leads to a message that has gone, and no
\* file does unless two shared a second (_msgSent, _incomingMsg,
\* _msgMarkedAsRead).
THEOREM IndexIsRight == AppSpec => []IndexRight
<1>1. AppInit => Index!IInv
  BY AppAssumption, IndexInit DEF AppInit
<1>2. Index!IInv /\ [AppNext]_app_vars => Index!IInv'
  BY AppAssumption, IndexStep, IndexNext
<1>3. Index!IInv => IndexRight
  BY AppAssumption, NothingDangles DEF IndexRight, Index!IInv
<1> QED
  BY <1>1, <1>2, <1>3, PTL DEF AppSpec

\* Of the groups of one title only the one that is called by it gets users,
\* and those were chosen for it or a later group of that title; nobody who
\* was chosen is forgotten but one who was no contact when the group was
\* announced, or all, if it was not yet in the list of dialogs, its title
\* was given to another while they waited, or is the name of no group of
\* this user.  What was typed is handed over in order and once
\* (createChatUsers, _incomingNewMsg, chatAddUser, sendMessage).
THEOREM FrontIsRight == AppSpec => []FrontRight
<1>1. AppInit => Front!IInv /\ Out!IInv
  BY AppAssumption, FrontInit, OutInit DEF AppInit
<1>2. Front!IInv /\ [AppNext]_app_vars => Front!IInv'
  BY AppAssumption, FrontStep, FrontNext
<1>3. Out!IInv /\ [AppNext]_app_vars => Out!IInv'
  BY AppAssumption, OutStep, OutNext
<1>4. Front!IInv /\ Out!IInv => FrontRight
  BY DEF FrontRight, Front!IInv, Out!IInv
<1> QED
  BY <1>1, <1>2, <1>3, <1>4, PTL DEF AppSpec

\* Whatever the size of a buffer and of what the socket takes and brings
\* at a time, the bytes on the wire are those of the packets in order,
\* each packet of the server is executed once, in order and with its
\* content, as soon as its last byte is there, and no connection leaves
\* anything to the next (write_out, try_write, try_read, read_in,
\* try_rpc_read, fail_connection).
THEOREM StreamsAreRight == AppSpec => []StreamsRight
<1>1. AppInit => Buf!IInv
  BY AppAssumption, BuffersInit DEF AppInit
<1>2. Buf!IInv /\ [AppNext]_app_vars => Buf!IInv'
  BY AppAssumption, BufStep, BuffersNext
<1>3. Buf!IInv => StreamsRight
  BY AppAssumption, BuffersGoals DEF StreamsRight
<1> QED
  BY <1>1, <1>2, <1>3, PTL DEF AppSpec

\* After any insertions of keys that are not there and deletions of keys
\* that are, whatever lrand48 draws, no assertion of a tree has failed and
\* it is a search tree and a heap of exactly the keys that were inserted
\* and not deleted (tree_insert, tree_delete, tree_lookup of tree.h).
THEOREM TreesAreRight == AppSpec => []TreesRight
<1>1. AppInit => Tree!IInv
  BY AppAssumption, Tree!TreapInit DEF AppInit
<1>2. Tree!IInv /\ [AppNext]_app_vars => Tree!IInv'
  BY AppAssumption, TreeStep, Tree!TreapNext
<1>3. Tree!IInv => TreesRight
  BY AppAssumption, Tree!TreapGoals DEF TreesRight
<1> QED
  BY <1>1, <1>2, <1>3, PTL DEF AppSpec
=============================================================================
