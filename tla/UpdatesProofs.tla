---------------------------- MODULE UpdatesProofs ----------------------------
(***************************************************************************)
(* What holds of Updates for all bounds.  The lemmas on the history say    *)
(* that each update has its own value of pts or qts, those on the counters *)
(* what a handler does to them, and each action keeps IInv; SyncProofs     *)
(* draws the theorems from them.                                           *)
(***************************************************************************)
EXTENDS Updates, FiniteSetTheorems, SequenceTheorems, TLAPS

-----------------------------------------------------------------------------
(* The server's history                                                    *)

(* What is counted up to a later update is no less, and more if that one   *)
(* is counted.                                                             *)
LEMMA CountProperties ==
  ASSUME NEW F, NEW i \in Nat, NEW j \in Nat, i <= j
  PROVE  /\ Count(i, F) \in Nat /\ Count(j, F) \in Nat
         /\ Count(i, F) <= Count(j, F)
         /\ i < j /\ log[j] \in F => Count(i, F) < Count(j, F)
<1> DEFINE A == {k \in 1..i : log[k] \in F}
           B == {k \in 1..j : log[k] \in F}
<1>1. IsFiniteSet(A) /\ IsFiniteSet(B)
  <2>1. IsFiniteSet(1..i) /\ IsFiniteSet(1..j)
    BY FS_Interval
  <2>2. A \in SUBSET (1..i) /\ B \in SUBSET (1..j)
    OBVIOUS
  <2> QED
    BY <2>1, <2>2, FS_Subset
<1>2. Cardinality(A) \in Nat /\ Cardinality(B) \in Nat
  BY <1>1, FS_CardinalityType
<1>3. A \in SUBSET B
  OBVIOUS
<1>4. Cardinality(A) <= Cardinality(B)
  BY <1>1, <1>3, FS_Subset
<1>5. ASSUME i < j, log[j] \in F PROVE Cardinality(A) < Cardinality(B)
  <2>1. j \in B /\ j \notin A
    BY <1>5
  <2>2. A # B
    BY <2>1
  <2>3. Cardinality(A) # Cardinality(B)
    BY <1>1, <1>3, <2>2, FS_Subset
  <2> QED
    BY <1>2, <1>4, <2>3
<1>6. Count(i, F) = Cardinality(A) /\ Count(j, F) = Cardinality(B)
  BY DEF Count, UpTo
<1> HIDE DEF A, B
<1> QED
  BY <1>2, <1>4, <1>5, <1>6

(* The state of the server is four numbers, which do not fall.             *)
LEMMA StateProperties ==
  ASSUME NEW i \in Nat, NEW j \in Nat, i <= j
  PROVE  /\ StateAt(i) \in Counters /\ StateAt(j) \in Counters
         /\ StateAt(i).pts <= StateAt(j).pts /\ StateAt(i).qts <= StateAt(j).qts
         /\ StateAt(i).seq > 0 /\ StateAt(i).pts > 0 /\ StateAt(i).qts > 0
<1>1. \A F : Count(i, F) \in Nat /\ Count(j, F) \in Nat /\ Count(i, F) <= Count(j, F)
  BY CountProperties
<1> QED
  BY <1>1 DEF StateAt, Counters

(* A state covers an update just if the update is among those it counts:   *)
(* updates of one counter have different values of it.                     *)
LEMMA ValueProperties ==
  ASSUME log \in Seq(Form), NEW i \in DOMAIN log, NEW n \in Nat
  PROVE  /\ Counter(log[i]) \in {"pts", "qts"}
         /\ Value(i) \in Nat /\ Value(i) > 1
         /\ Value(i) <= StateAt(n)[Counter(log[i])] <=> i <= n
<1>1. i \in Nat \ {0} /\ log[i] \in Form
  BY LenProperties, ElementOfSeq
<1>2. CASE log[i] = "secret"
  <2> DEFINE F == {"secret"}
  <2>1. /\ Counter(log[i]) = "qts" /\ Value(i) = 1 + Count(i, F)
        /\ StateAt(n)[Counter(log[i])] = 1 + Count(n, F)
    BY <1>2 DEF Counter, Value, StateAt
  <2>2. Count(0, F) < Count(i, F) /\ Count(0, F) \in Nat /\ Count(i, F) \in Nat
    BY <1>1, <1>2, CountProperties
  <2>3. Count(n, F) \in Nat
    BY CountProperties
  <2>4. i <= n => Count(i, F) <= Count(n, F)
    BY <1>1, CountProperties
  <2>5. n < i => Count(n, F) < Count(i, F)
    BY <1>1, <1>2, CountProperties
  <2> HIDE DEF F
  <2> QED
    BY <1>1, <2>1, <2>2, <2>3, <2>4, <2>5
<1>3. CASE log[i] \in {"short", "text", "own"}
  <2> DEFINE F == {"short", "text", "own"}
  <2>1. /\ Counter(log[i]) = "pts" /\ Value(i) = 1 + Count(i, F)
        /\ StateAt(n)[Counter(log[i])] = 1 + Count(n, F)
    BY <1>3 DEF Counter, Value, StateAt
  <2>2. Count(0, F) < Count(i, F) /\ Count(0, F) \in Nat /\ Count(i, F) \in Nat
    BY <1>1, <1>3, CountProperties
  <2>3. Count(n, F) \in Nat
    BY CountProperties
  <2>4. i <= n => Count(i, F) <= Count(n, F)
    BY <1>1, CountProperties
  <2>5. n < i => Count(n, F) < Count(i, F)
    BY <1>1, <1>3, CountProperties
  <2> HIDE DEF F
  <2> QED
    BY <1>1, <2>1, <2>2, <2>3, <2>4, <2>5
<1> QED
  BY <1>1, <1>2, <1>3 DEF Form

-----------------------------------------------------------------------------
(* The counters                                                            *)

(* Only pts and qts say what is covered.                                   *)
LEMMA CoveredBelow ==
  ASSUME log \in Seq(Form), NEW s \in Counters, NEW t \in Counters,
         s.pts <= t.pts, s.qts <= t.qts
  PROVE  Covered(s) \subseteq Covered(t)
<1>1. s["pts"] <= t["pts"] /\ s["qts"] <= t["qts"]
  OBVIOUS
<1>2. /\ s["pts"] \in Nat /\ t["pts"] \in Nat /\ s["qts"] \in Nat /\ t["qts"] \in Nat
  BY DEF Counters
<1>3. ASSUME NEW i \in Covered(s) PROVE i \in Covered(t)
  <2>1. i \in DOMAIN log /\ Value(i) <= s[Counter(log[i])]
    BY DEF Covered
  <2>2. Counter(log[i]) \in {"pts", "qts"} /\ Value(i) \in Nat
    BY <2>1, ValueProperties
  <2>3. Value(i) <= t[Counter(log[i])]
    BY <1>1, <1>2, <2>1, <2>2
  <2> QED
    BY <2>1, <2>3 DEF Covered
<1> QED
  BY <1>3

(* A client that knows nothing covers nothing.                             *)
LEMMA ZeroProperties ==
  ASSUME log \in Seq(Form)
  PROVE  /\ Zero \in Counters /\ Covered(Zero) = {} /\ NotAhead(Zero)
<1>1. Zero \in Counters
  BY DEF Zero, Counters
<1>2. ASSUME NEW i \in Covered(Zero) PROVE FALSE
  <2>1. i \in DOMAIN log /\ Value(i) <= Zero[Counter(log[i])]
    BY <1>2 DEF Covered
  <2>2. Counter(log[i]) \in {"pts", "qts"} /\ Value(i) \in Nat /\ Value(i) > 1
    BY <2>1, ValueProperties
  <2> QED
    BY <2>1, <2>2 DEF Zero
<1>3. Len(log) \in Nat
  BY LenProperties
<1>4. NotAhead(Zero)
  BY <1>3, StateProperties DEF Zero, NotAhead, Counters
<1> QED
  BY <1>1, <1>2, <1>4

(* Setting a counter that is zero to one (do_get_difference) covers no     *)
(* more.                                                                   *)
LEMMA NotZeroProperties ==
  ASSUME log \in Seq(Form), NEW s \in Counters
  PROVE  /\ NotZero(s) \in Counters /\ Covered(NotZero(s)) \subseteq Covered(s)
         /\ s.pts <= NotZero(s).pts /\ s.qts <= NotZero(s).qts
         /\ NotAhead(s) => NotAhead(NotZero(s))
<1> DEFINE t == NotZero(s)
<1>1. /\ t \in Counters
      /\ t["pts"] = (IF s["pts"] = 0 THEN 1 ELSE s["pts"])
      /\ t["qts"] = (IF s["qts"] = 0 THEN 1 ELSE s["qts"])
  BY DEF NotZero, Counters
<1>2. s["pts"] \in Nat /\ s["qts"] \in Nat
  BY DEF Counters
<1> HIDE DEF t
<1>3. ASSUME NEW i \in Covered(t) PROVE i \in Covered(s)
  <2>1. i \in DOMAIN log /\ Value(i) <= t[Counter(log[i])]
    BY <1>3 DEF Covered
  <2>2. Counter(log[i]) \in {"pts", "qts"} /\ Value(i) \in Nat /\ Value(i) > 1
    BY <2>1, ValueProperties
  <2>3. Value(i) <= s[Counter(log[i])]
    BY <1>1, <1>2, <2>1, <2>2
  <2> QED
    BY <2>1, <2>3 DEF Covered
<1>4. s.pts <= t.pts /\ s.qts <= t.qts
  BY <1>1, <1>2
<1>5. ASSUME NotAhead(s) PROVE NotAhead(t)
  <2>1. Len(log) \in Nat
    BY LenProperties
  <2>2. /\ StateAt(Len(log)).pts > 0 /\ StateAt(Len(log)).qts > 0
        /\ StateAt(Len(log)) \in Counters
    BY <2>1, StateProperties
  <2>3. StateAt(Len(log)).pts \in Nat /\ StateAt(Len(log)).qts \in Nat
    BY <2>2 DEF Counters
  <2> QED
    BY <1>1, <1>2, <1>5, <2>2, <2>3 DEF NotAhead
<1> QED
  BY <1>1, <1>3, <1>4, <1>5 DEF t

(* An update raises its counter to its value (fetch_pts, fetch_qts): if    *)
(* that is the next one, nothing is passed but the update.                 *)
LEMMA AfterProperties ==
  ASSUME log \in Seq(Form), NEW s \in Counters, NEW i \in DOMAIN log
  PROVE  /\ After(s, i) \in Counters
         /\ Covered(s) \subseteq Covered(After(s, i))
         /\ ~Hole(s, Counter(log[i]), Value(i)) =>
              Covered(After(s, i)) \subseteq Covered(s) \cup {i}
         /\ NotAhead(s) => NotAhead(After(s, i))
         /\ \A n \in Nat : i <= n /\ Within(s, n) => Within(After(s, i), n)
         /\ s.pts <= After(s, i).pts /\ s.qts <= After(s, i).qts
<1> DEFINE c == Counter(log[i])
           up == Raised(s, c, Value(i))
           t == After(s, i)
<1>1. /\ i \in Nat /\ Len(log) \in Nat /\ i <= Len(log) /\ log[i] \in Form
      /\ c \in {"pts", "qts"} /\ Value(i) \in Nat
      /\ DOMAIN log = 1..Len(log)
  BY LenProperties, ElementOfSeq, ValueProperties
<1>2. s["pts"] \in Nat /\ s["qts"] \in Nat
  BY DEF Counters
<1>3. /\ up \in Counters
      /\ up[c] = IF Value(i) > s[c] THEN Value(i) ELSE s[c]
      /\ \A d \in {"pts", "qts"} : d # c => up[d] = s[d]
  BY <1>1 DEF Raised, Counters
<1>4. StateAt(i) \in Counters
  BY <1>1, StateProperties
<1> HIDE DEF up
<1>5. t \in Counters /\ t["pts"] = up["pts"] /\ t["qts"] = up["qts"]
  <2>1. CASE log[i] = "short"
    <3>1. t = Raised(up, "date", StateAt(i).date)
      BY <2>1 DEF After, up
    <3> QED
      BY <1>3, <1>4, <3>1 DEF Raised, Counters
  <2>2. CASE log[i] \in {"text", "own"}
    <3> DEFINE f == FetchSeq(up, StateAt(i).seq)
    <3>1. t = Raised(f, "date", StateAt(i).date)
      BY <2>2 DEF After, up
    <3>2. f \in Counters /\ f["pts"] = up["pts"] /\ f["qts"] = up["qts"]
      BY <1>3, <1>4 DEF FetchSeq, Counters
    <3> HIDE DEF f
    <3> QED
      BY <1>4, <3>1, <3>2 DEF Raised, Counters
  <2>3. CASE log[i] = "secret"
    <3>1. t = [up EXCEPT !.seq = StateAt(i).seq, !.date = StateAt(i).date]
      BY <2>3 DEF After, up
    <3> QED
      BY <1>3, <1>4, <3>1 DEF Counters
  <2> QED
    BY <1>1, <2>1, <2>2, <2>3 DEF Form
<1> HIDE DEF t
<1>6. /\ t[c] = IF Value(i) > s[c] THEN Value(i) ELSE s[c]
      /\ \A d \in {"pts", "qts"} : d # c => t[d] = s[d]
  BY <1>1, <1>3, <1>5
<1>7. s.pts <= t.pts /\ s.qts <= t.qts
  BY <1>1, <1>2, <1>6
<1>8. Covered(s) \subseteq Covered(t)
  BY <1>5, <1>7, CoveredBelow
<1>9. ASSUME ~Hole(s, c, Value(i)), NEW j \in Covered(t), j \notin Covered(s) PROVE j = i
  <2>1. j \in DOMAIN log /\ Value(j) <= t[Counter(log[j])] /\ ~(Value(j) <= s[Counter(log[j])])
    BY <1>9 DEF Covered
  <2>2. Counter(log[j]) \in {"pts", "qts"} /\ Value(j) \in Nat /\ j \in Nat
    BY <1>1, <2>1, ValueProperties
  <2>3. Counter(log[j]) = c /\ Value(j) = Value(i)
    BY <1>1, <1>2, <1>6, <1>9, <2>1, <2>2 DEF Hole
  <2>4. Value(j) <= StateAt(i)[c] <=> j <= i
    BY <1>1, <2>1, <2>3, ValueProperties
  <2>5. Value(i) <= StateAt(j)[c] <=> i <= j
    BY <2>2, ValueProperties
  <2>6. StateAt(i)[c] = Value(i) /\ StateAt(j)[c] = Value(j)
    BY <2>3 DEF Value
  <2> QED
    BY <1>1, <2>2, <2>3, <2>4, <2>5, <2>6
<1>10. ASSUME NotAhead(s) PROVE NotAhead(t)
  <2>1. Value(i) <= StateAt(Len(log))[c]
    BY <1>1, ValueProperties
  <2>2. s["pts"] <= StateAt(Len(log))["pts"] /\ s["qts"] <= StateAt(Len(log))["qts"]
    BY <1>10 DEF NotAhead
  <2>3. t["pts"] <= StateAt(Len(log))["pts"] /\ t["qts"] <= StateAt(Len(log))["qts"]
    BY <1>1, <1>6, <2>1, <2>2
  <2> QED
    BY <2>3 DEF NotAhead
<1>11. ASSUME NEW n \in Nat, i <= n, Within(s, n) PROVE Within(t, n)
  <2>1. Value(i) <= StateAt(n)[c]
    BY <1>11, ValueProperties
  <2>2. s["pts"] <= StateAt(n)["pts"] /\ s["qts"] <= StateAt(n)["qts"]
    BY <1>11 DEF Within
  <2>3. t["pts"] <= StateAt(n)["pts"] /\ t["qts"] <= StateAt(n)["qts"]
    BY <1>1, <1>6, <2>1, <2>2
  <2> QED
    BY <2>3 DEF Within
<1> QED
  BY <1>5, <1>7, <1>8, <1>9, <1>10, <1>11 DEF t

-----------------------------------------------------------------------------
(* The difference                                                          *)

(* What comes with a difference (get_difference_on_answer) covers what the *)
(* question covered and the updates in the answer, and no more.            *)
LEMMA StateOfProperties ==
  ASSUME log \in Seq(Form), NEW q \in Query, q.answer.upTo \in 0..Len(log),
         NotAhead(q.from)
  PROVE  /\ StateOf(q) \in Counters /\ NotAhead(StateOf(q)) /\ StateOf(q).seq > 0
         /\ \A k \in Nat : q.answer.upTo <= k /\ Within(q.from, k) => Within(StateOf(q), k)
         /\ StateAt(q.answer.upTo).pts <= StateOf(q).pts
         /\ StateAt(q.answer.upTo).qts <= StateOf(q).qts
         /\ Covered(StateOf(q)) \subseteq Covered(q.from) \cup Items(q)
         /\ Items(q) \subseteq DOMAIN log
<1> DEFINE n == q.answer.upTo
           at == StateAt(n)
           t == StateOf(q)
<1>1. Len(log) \in Nat /\ n \in Nat /\ n <= Len(log) /\ DOMAIN log = 1..Len(log)
  BY LenProperties
<1>2. q.from \in Counters
  BY DEF Query
<1>3. /\ at \in Counters /\ at.seq > 0
      /\ at.pts <= StateAt(Len(log)).pts /\ at.qts <= StateAt(Len(log)).qts
  BY <1>1, StateProperties
<1>4. t = [at EXCEPT !.pts = IF q.from.pts > @ THEN q.from.pts ELSE @,
                     !.qts = IF q.from.qts > @ THEN q.from.qts ELSE @]
  BY DEF StateOf
<1> HIDE DEF at, t, n
<1>5. /\ t \in Counters /\ t.seq = at.seq
      /\ t["pts"] = (IF q.from["pts"] > at["pts"] THEN q.from["pts"] ELSE at["pts"])
      /\ t["qts"] = (IF q.from["qts"] > at["qts"] THEN q.from["qts"] ELSE at["qts"])
  BY <1>2, <1>3, <1>4 DEF Counters
<1>6. NotAhead(t)
  BY <1>3, <1>5 DEF NotAhead
<1>7. ASSUME NEW i \in Covered(t), i \notin Covered(q.from) PROVE i \in Items(q)
  <2>1. /\ i \in DOMAIN log /\ Value(i) <= t[Counter(log[i])]
        /\ ~(Value(i) <= q.from[Counter(log[i])])
    BY <1>7 DEF Covered
  <2>2. Counter(log[i]) \in {"pts", "qts"} /\ Value(i) \in Nat
    BY <2>1, ValueProperties
  <2>3. /\ q.from["pts"] \in Nat /\ q.from["qts"] \in Nat
        /\ at["pts"] \in Nat /\ at["qts"] \in Nat
    BY <1>2, <1>3 DEF Counters
  <2>4. Value(i) <= at[Counter(log[i])] /\ Value(i) > q.from[Counter(log[i])]
    BY <1>5, <2>1, <2>2, <2>3
  <2>5. i <= n
    BY <1>1, <2>1, <2>4, ValueProperties DEF at
  <2> QED
    BY <1>1, <2>1, <2>4, <2>5 DEF Items, UpTo, n
<1>8. Items(q) \subseteq DOMAIN log
  BY <1>1 DEF Items, UpTo, n
<1>9. ASSUME NEW k \in Nat, n <= k, Within(q.from, k) PROVE Within(t, k)
  <2>1. at.pts <= StateAt(k).pts /\ at.qts <= StateAt(k).qts
    BY <1>1, <1>9, StateProperties DEF at
  <2> QED
    BY <1>5, <1>9, <2>1 DEF Within
<1>10. at.pts <= t.pts /\ at.qts <= t.qts
  <2>1. /\ q.from["pts"] \in Nat /\ q.from["qts"] \in Nat
        /\ at["pts"] \in Nat /\ at["qts"] \in Nat
    BY <1>2, <1>3 DEF Counters
  <2> QED
    BY <1>5, <2>1
<1> QED
  BY <1>3, <1>5, <1>6, <1>7, <1>8, <1>9, <1>10 DEF t, n, at

(* There is a number that no query has.                                    *)
LEMMA FreshProperties ==
  ASSUME IsFiniteSet(asked)
  PROVE  Fresh \in Nat /\ \A q \in asked : q.id # Fresh
<1> DEFINE n == Cardinality(asked)
<1>1. n \in Nat
  BY FS_CardinalityType
<1>2. ASSUME \A k \in 1..n + 1 : \E q \in asked : q.id = k PROVE FALSE
  <2> DEFINE f == [k \in 1..n + 1 |-> CHOOSE q \in asked : q.id = k]
  <2>1. \A k \in 1..n + 1 : f[k] \in asked /\ f[k].id = k
    BY <1>2
  <2>2. f \in [1..n + 1 -> asked]
    BY <2>1
  <2>3. IsFiniteSet(1..n + 1) /\ Cardinality(1..n + 1) = n + 1
    BY <1>1, FS_Interval
  <2>4. n < n + 1
    BY <1>1
  <2> HIDE DEF f
  <2>5. \E k, l \in 1..n + 1 : k # l /\ f[k] = f[l]
    BY <2>2, <2>3, <2>4, FS_PigeonHole
  <2> QED
    BY <2>1, <2>5
<1>3. \E k \in 1..n + 1 : \A q \in asked : q.id # k
  BY <1>2
<1>4. Fresh \in 1..n + 1 /\ \A q \in asked : q.id # Fresh
  BY <1>3 DEF Fresh
<1> QED
  BY <1>1, <1>4

(* do_get_difference asks from what is in memory, which covers no more     *)
(* than before.                                                            *)
LEMMA AskedProperties ==
  ASSUME IInv, NEW s \in Counters, NEW others \in SUBSET asked, NotAhead(s),
         DoGetDifference(s, others)
  PROVE  /\ mem' \in Counters /\ Covered(mem') \subseteq Covered(s) /\ NotAhead(mem')
         /\ s.pts <= mem'.pts /\ s.qts <= mem'.qts
         /\ asked' \subseteq Query /\ IsFiniteSet(asked')
         /\ \A q \in asked' : q \in asked \/ (q.from = mem' /\ q.answer.upTo = 0)
         /\ \E q : /\ asked' = others \cup {q} /\ q.from = mem' /\ q.answer = Unanswered
                   /\ \A r \in asked : r.id # q.id
         /\ due' = due \/ due' = due \cup DOMAIN log
<1>1. /\ log \in Seq(Form) /\ asked \subseteq Query /\ IsFiniteSet(asked)
  BY DEF IInv, TypeOK, QueriesFit
<1>2. mem' = IF s.seq > 0 THEN NotZero(s) ELSE s
  BY DEF DoGetDifference
<1>3. /\ mem' \in Counters /\ Covered(mem') \subseteq Covered(s) /\ NotAhead(mem')
      /\ s.pts <= mem'.pts /\ s.qts <= mem'.qts
  <2>1. s.pts \in Nat /\ s.qts \in Nat
    BY DEF Counters
  <2>2. CASE s.seq > 0
    BY <1>1, <1>2, <2>2, NotZeroProperties
  <2>3. CASE ~(s.seq > 0)
    <3>1. mem' = s
      BY <1>2, <2>3
    <3> QED
      BY <2>1, <3>1
  <2> QED
    BY <2>2, <2>3
<1> DEFINE new == [id |-> Fresh, full |-> s.seq > 0, from |-> mem', answer |-> Unanswered]
<1>4. asked' = others \cup {new}
  BY DEF DoGetDifference
<1>5. /\ new \in Query /\ new.from = mem' /\ new.answer.upTo = 0
      /\ new.answer = Unanswered /\ \A r \in asked : r.id # new.id
  <2>1. Fresh \in Nat /\ (s.seq > 0) \in BOOLEAN /\ \A r \in asked : r.id # Fresh
    BY <1>1, FreshProperties
  <2> QED
    BY <1>3, <2>1 DEF Query, Unanswered, AnswerKind
<1> HIDE DEF new
<1>6. IsFiniteSet(asked')
  <2>1. IsFiniteSet(others)
    BY <1>1, FS_Subset
  <2> QED
    BY <1>4, <2>1, FS_AddElement
<1>7. due' = due \/ due' = due \cup DOMAIN log
  BY DEF DoGetDifference
<1> QED
  BY <1>1, <1>3, <1>4, <1>5, <1>6, <1>7

(* What is on disk after the state was saved or logged.                    *)
LEMMA SavedProperties ==
  ASSUME IInv, NEW s \in Counters, WriteStateFile(s) \/ Logged(s)
  PROVE  disk' \in {s, disk} /\ written' \in {s, written} /\ useLog' = useLog
BY DEF WriteStateFile, Logged

-----------------------------------------------------------------------------
(* Steps that leave the server's history as it is                          *)

(* What the variables are, and what the history is.                        *)
LEMMA Basics ==
  ASSUME IInv
  PROVE  /\ log \in Seq(Form) /\ Len(log) \in Nat /\ DOMAIN log = 1..Len(log)
         /\ mem \in Counters /\ disk \in Counters /\ written \in Counters
         /\ Covered(mem) \subseteq handled \cup skipped /\ NotAhead(mem)
         /\ Covered(disk) \subseteq handled \cup skipped /\ NotAhead(disk)
         /\ Zero \in Counters /\ Covered(Zero) = {} /\ NotAhead(Zero)
         /\ asked \subseteq Query /\ IsFiniteSet(asked)
         /\ \A q \in asked : /\ Covered(q.from) \subseteq handled \cup skipped
                             /\ NotAhead(q.from) /\ q.answer.upTo \in 0..Len(log)
         /\ wire \in Seq(Parcel) /\ sent \subseteq DOMAIN log /\ again \subseteq sent
         /\ phase \in {"starting", "running"} /\ useLog \in BOOLEAN
         /\ handled \subseteq DOMAIN log /\ skipped \subseteq DOMAIN log
         /\ due \subseteq DOMAIN log
         /\ torn \in BOOLEAN /\ losses \in 0..MaxLosses /\ kills \in 0..MaxKills
<1>1. log \in Seq(Form)
  BY DEF IInv, TypeOK
<1>2. Len(log) \in Nat /\ DOMAIN log = 1..Len(log)
  BY <1>1, LenProperties
<1> QED
  BY <1>1, <1>2, ZeroProperties DEF IInv, TypeOK, QueriesFit, Accounted

(* With the history as it is, the invariant asks that what the counters    *)
(* and the questions cover stays accounted for.                            *)
LEMMA StepKeepsIInv ==
  ASSUME IInv, UNCHANGED log,
         wire' \in Seq(Parcel), sent' \subseteq DOMAIN log, again' \subseteq sent',
         handled \subseteq handled', handled' \subseteq DOMAIN log,
         skipped \subseteq skipped', skipped' \subseteq DOMAIN log,
         due' \subseteq DOMAIN log,
         mem' \in Counters, NotAhead(mem'),
         Covered(mem') \subseteq handled' \cup skipped',
         disk' \in Counters, NotAhead(disk'),
         Covered(disk') \subseteq handled' \cup skipped',
         written' \in Counters, asked' \subseteq Query, IsFiniteSet(asked'),
         \A q \in asked' : \/ q \in asked
                           \/ /\ Covered(q.from) \subseteq handled' \cup skipped'
                              /\ NotAhead(q.from) /\ q.answer.upTo \in 0..Len(log),
         phase' \in {"starting", "running"}, useLog' \in BOOLEAN, torn' \in BOOLEAN,
         losses' \in 0..MaxLosses, kills' \in 0..MaxKills
  PROVE  IInv'
<1>1. log \in Seq(Form) /\ log' = log
  BY Basics
<1>2. \A k \in DOMAIN wire' : wire'[k].is \in {"push", "answer", "too_long"}
  <2>1. \A m \in Parcel : m.is \in {"push", "answer", "too_long"}
    BY DEF Parcel
  <2> QED
    BY <2>1, LenProperties, ElementOfSeq
<1>3. TypeOK'
  BY <1>1, <1>2 DEF TypeOK
<1>4. wire' \in Seq(Parcel')
  BY <1>1 DEF Parcel
<1>5. /\ Accounted(mem)' /\ NotAhead(mem)' /\ Accounted(disk)' /\ NotAhead(disk)'
  BY <1>1 DEF Accounted, Covered, NotAhead, Value, StateAt, Count, UpTo
<1>6. QueriesFit'
  <2>1. ASSUME NEW q \in asked'
        PROVE  /\ Covered(q.from) \subseteq handled' \cup skipped'
               /\ NotAhead(q.from) /\ q.answer.upTo \in 0..Len(log)
    BY <2>1, Basics
  <2>2. ASSUME NEW q \in asked'
        PROVE  /\ Accounted(q.from)' /\ NotAhead(q.from)' /\ q.answer.upTo \in 0..Len(log')
    BY <1>1, <2>1, <2>2 DEF Accounted, Covered, NotAhead, Value, StateAt, Count, UpTo
  <2> QED
    BY <2>2 DEF QueriesFit
<1> QED
  BY <1>3, <1>4, <1>5, <1>6 DEF IInv

(* Taking the oldest parcel leaves the others.                             *)
LEMMA ReceivedProperties ==
  ASSUME IInv, wire # <<>>, Received
  PROVE  /\ Head(wire) \in Parcel /\ wire' \in Seq(Parcel)
         /\ UNCHANGED <<log, sent, again, losses, kills>>
  BY Basics, HeadTailProperties DEF Received, server, spent

(* An update is handled (work_update, rpc_execute_answer).                 *)
LEMMA ReceiveUpdateKeepsIInv ==
  ASSUME IInv, ReceiveUpdate
  PROVE  IInv'
<1>1. PICK i : i = Head(wire).n
  OBVIOUS
<1>2. /\ wire # <<>> /\ Head(wire).is = "push" /\ HandleUpdate(i) /\ Received
  BY <1>1 DEF ReceiveUpdate
<1>3. i \in DOMAIN log
  BY <1>1, <1>2, ReceivedProperties DEF Parcel
<1>4. /\ mem' = After(mem, i) /\ Logged(EventsOf(mem', i))
      /\ handled' = handled \cup {i}
      /\ torn' = (torn \/ Hole(mem, Counter(log[i]), Value(i)))
      /\ skipped' = IF Hole(mem, Counter(log[i]), Value(i))
                    THEN skipped \cup (Covered(mem') \ (Covered(mem) \cup handled'))
                    ELSE skipped
      /\ UNCHANGED <<phase, asked, due>>
  BY <1>2 DEF HandleUpdate
<1>5. /\ mem' \in Counters /\ NotAhead(mem')
      /\ ~Hole(mem, Counter(log[i]), Value(i)) => Covered(mem') \subseteq Covered(mem) \cup {i}
  BY <1>3, <1>4, Basics, AfterProperties
<1>6. Covered(mem') \subseteq handled' \cup skipped' /\ torn' \in BOOLEAN
  BY <1>4, <1>5, Basics
<1>7. /\ handled \subseteq handled' /\ handled' \subseteq DOMAIN log
      /\ skipped \subseteq skipped' /\ skipped' \subseteq DOMAIN log
  <2>1. Covered(mem') \subseteq DOMAIN log
    BY DEF Covered
  <2> QED
    BY <1>3, <1>4, <2>1, Basics
<1> DEFINE e == EventsOf(mem', i)
<1>8. e \in Counters /\ e.pts = mem'.pts /\ e.qts = mem'.qts
  BY <1>5, Basics DEF EventsOf, Counters
<1>9. Covered(e) \subseteq Covered(mem') /\ NotAhead(e)
  <2>1. mem'.pts \in Nat /\ mem'.qts \in Nat
    BY <1>5 DEF Counters
  <2>2. Covered(e) \subseteq Covered(mem')
    BY <1>5, <1>8, <2>1, Basics, CoveredBelow
  <2> QED
    BY <1>5, <1>8, <2>2 DEF NotAhead
<1>10. disk' \in {e, disk} /\ written' \in {e, written} /\ useLog' = useLog
  BY <1>4, <1>8, SavedProperties
<1> HIDE DEF e
<1>11. /\ disk' \in Counters /\ NotAhead(disk')
       /\ Covered(disk') \subseteq handled' \cup skipped'
       /\ written' \in Counters
  BY <1>6, <1>7, <1>8, <1>9, <1>10, Basics
<1> QED
  BY <1>2, <1>4, <1>5, <1>6, <1>7, <1>10, <1>11, Basics, ReceivedProperties, StepKeepsIInv

(* The server has too many updates to send: the difference is asked for.   *)
LEMMA ReceiveTooLongKeepsIInv ==
  ASSUME IInv, ReceiveTooLong
  PROVE  IInv'
<1>1. /\ wire # <<>> /\ Received /\ DoGetDifference(mem, asked)
      /\ UNCHANGED <<phase, disk, written, useLog, handled, skipped, torn>>
  BY DEF ReceiveTooLong, WorkUpdatesTooLong, saved
<1>2. /\ mem' \in Counters /\ Covered(mem') \subseteq Covered(mem) /\ NotAhead(mem')
      /\ asked' \subseteq Query /\ IsFiniteSet(asked')
      /\ \A q \in asked' : q \in asked \/ (q.from = mem' /\ q.answer.upTo = 0)
      /\ due' = due \/ due' = due \cup DOMAIN log
  BY <1>1, Basics, AskedProperties
<1>3. Covered(mem') \subseteq handled' \cup skipped' /\ due' \subseteq DOMAIN log
  BY <1>1, <1>2, Basics
<1>4. \A q \in asked' : \/ q \in asked
                        \/ /\ Covered(q.from) \subseteq handled' \cup skipped'
                           /\ NotAhead(q.from) /\ q.answer.upTo \in 0..Len(log)
  BY <1>2, <1>3, Basics
<1> QED
  BY <1>1, <1>2, <1>3, <1>4, Basics, ReceivedProperties, StepKeepsIInv

(* The answer to get_state, of which what is jumped over is remembered     *)
(* (get_state_on_answer).                                                  *)
LEMMA StateAnswerKeepsIInv ==
  ASSUME IInv, wire # <<>>, Received, NEW q \in asked, GetStateOnAnswer(q)
  PROVE  IInv'
<1> DEFINE n == q.answer.upTo
<1>1. n \in Nat /\ n <= Len(log)
  BY Basics
<1>2. /\ mem' = StateAt(n) /\ (WriteStateFile(mem') \/ Logged(mem'))
      /\ skipped' = skipped \cup (Covered(mem') \ (Covered(mem) \cup handled))
      /\ asked' = asked \ {q} /\ UNCHANGED <<phase, handled, due, torn>>
  BY DEF GetStateOnAnswer
<1> HIDE DEF n
<1>3. mem' \in Counters /\ NotAhead(mem')
  BY <1>1, <1>2, Basics, StateProperties DEF NotAhead
<1>4. /\ Covered(mem') \subseteq handled' \cup skipped'
      /\ skipped \subseteq skipped' /\ skipped' \subseteq DOMAIN log
  <2>1. Covered(mem') \subseteq DOMAIN log
    BY DEF Covered
  <2> QED
    BY <1>2, <2>1, Basics
<1>5. disk' \in {mem', disk} /\ written' \in {mem', written} /\ useLog' = useLog
  BY <1>2, <1>3, SavedProperties
<1>6. asked' \subseteq asked /\ IsFiniteSet(asked') /\ asked' \subseteq Query
  BY <1>2, Basics, FS_Subset
<1>7. /\ disk' \in Counters /\ NotAhead(disk')
      /\ Covered(disk') \subseteq handled' \cup skipped' /\ written' \in Counters
  BY <1>2, <1>3, <1>4, <1>5, Basics
<1> QED
  BY <1>2, <1>3, <1>4, <1>5, <1>6, <1>7, Basics, ReceivedProperties, StepKeepsIInv

(* There is no difference (get_difference_on_answer).                      *)
LEMMA EmptyAnswerKeepsIInv ==
  ASSUME IInv, wire # <<>>, Received, NEW q \in asked, GetDifferenceEmpty(q)
  PROVE  IInv'
<1> DEFINE at == StateAt(q.answer.upTo)
<1>1. at \in Counters
  BY Basics, StateProperties
<1>2. /\ mem' = [mem EXCEPT !.seq = at.seq, !.date = at.date]
      /\ Logged(mem') /\ asked' = asked \ {q}
      /\ UNCHANGED <<phase, handled, skipped, due, torn>>
  BY DEF GetDifferenceEmpty
<1> HIDE DEF at
<1>3. mem' \in Counters /\ mem'.pts = mem.pts /\ mem'.qts = mem.qts
  BY <1>1, <1>2, Basics DEF Counters
<1>4. NotAhead(mem') /\ Covered(mem') \subseteq handled' \cup skipped'
  <2>1. mem.pts \in Nat /\ mem.qts \in Nat
    BY Basics DEF Counters
  <2>2. Covered(mem') \subseteq Covered(mem)
    BY <1>3, <2>1, Basics, CoveredBelow
  <2> QED
    BY <1>2, <1>3, <2>2, Basics DEF NotAhead
<1>5. disk' \in {mem', disk} /\ written' \in {mem', written} /\ useLog' = useLog
  BY <1>2, <1>3, SavedProperties
<1>6. asked' \subseteq asked /\ IsFiniteSet(asked') /\ asked' \subseteq Query
  BY <1>2, Basics, FS_Subset
<1>7. /\ disk' \in Counters /\ NotAhead(disk')
      /\ Covered(disk') \subseteq handled' \cup skipped' /\ written' \in Counters
  BY <1>2, <1>3, <1>4, <1>5, Basics
<1> QED
  BY <1>2, <1>3, <1>4, <1>5, <1>6, <1>7, Basics, ReceivedProperties, StepKeepsIInv

(* The difference, or a slice of it, after which the rest is asked for     *)
(* (get_difference_on_answer).                                             *)
LEMMA DifferenceAnswerKeepsIInv ==
  ASSUME IInv, wire # <<>>, Received, NEW q \in asked, GetDifferenceOnAnswer(q)
  PROVE  IInv'
<1> DEFINE at == StateOf(q)
<1>1. /\ at \in Counters /\ NotAhead(at) /\ at.seq > 0
      /\ Covered(at) \subseteq Covered(q.from) \cup Items(q)
      /\ Items(q) \subseteq DOMAIN log
  BY Basics, StateOfProperties
<1>2. /\ WriteStateFile(at) \/ Logged(at)
      /\ handled' = handled \cup Items(q)
      /\ \/ DoGetDifference(at, asked \ {q})
         \/ mem' = at /\ asked' = asked \ {q} /\ UNCHANGED due
      /\ UNCHANGED <<phase, skipped, torn>>
  BY DEF GetDifferenceOnAnswer
<1> HIDE DEF at
<1>3. Covered(at) \subseteq handled' \cup skipped'
  BY <1>1, <1>2, Basics
<1>4. /\ mem' \in Counters /\ NotAhead(mem') /\ Covered(mem') \subseteq handled' \cup skipped'
      /\ asked' \subseteq Query /\ IsFiniteSet(asked')
      /\ \A r \in asked' : r \in asked \/ (r.from = mem' /\ r.answer.upTo = 0)
      /\ due' = due \/ due' = due \cup DOMAIN log
  <2>1. CASE DoGetDifference(at, asked \ {q})
    <3>1. asked \ {q} \in SUBSET asked
      OBVIOUS
    <3>2. /\ mem' \in Counters /\ Covered(mem') \subseteq Covered(at) /\ NotAhead(mem')
          /\ asked' \subseteq Query /\ IsFiniteSet(asked')
          /\ \A r \in asked' : r \in asked \/ (r.from = mem' /\ r.answer.upTo = 0)
          /\ due' = due \/ due' = due \cup DOMAIN log
      BY <1>1, <2>1, <3>1, AskedProperties
    <3> QED
      BY <1>3, <3>2
  <2>2. CASE mem' = at /\ asked' = asked \ {q} /\ UNCHANGED due
    <3>1. IsFiniteSet(asked \ {q})
      BY Basics, FS_Subset
    <3> QED
      BY <1>1, <1>3, <2>2, <3>1, Basics
  <2> QED
    BY <1>2, <2>1, <2>2
<1>5. disk' \in {at, disk} /\ written' \in {at, written} /\ useLog' = useLog
  BY <1>1, <1>2, SavedProperties
<1>6. /\ disk' \in Counters /\ NotAhead(disk')
      /\ Covered(disk') \subseteq handled' \cup skipped' /\ written' \in Counters
  BY <1>1, <1>2, <1>3, <1>5, Basics
<1>7. handled \subseteq handled' /\ handled' \subseteq DOMAIN log /\ due' \subseteq DOMAIN log
  BY <1>1, <1>2, <1>4, Basics
<1>8. \A r \in asked' : \/ r \in asked
                        \/ /\ Covered(r.from) \subseteq handled' \cup skipped'
                           /\ NotAhead(r.from) /\ r.answer.upTo \in 0..Len(log)
  BY <1>4, Basics
<1> QED
  BY <1>2, <1>4, <1>5, <1>6, <1>7, <1>8, Basics, ReceivedProperties, StepKeepsIInv

(* An answer is handled.                                                   *)
LEMMA ReceiveAnswerKeepsIInv ==
  ASSUME IInv, ReceiveAnswer
  PROVE  IInv'
<1>1. PICK q \in asked : WorkAnswer(q)
  BY DEF ReceiveAnswer
<1>2. wire # <<>> /\ Received
  BY DEF ReceiveAnswer
<1> QED
  BY <1>1, <1>2, StateAnswerKeepsIInv, EmptyAnswerKeepsIInv, DifferenceAnswerKeepsIInv
     DEF WorkAnswer

(* The counters are written to the state file (write_state_file).          *)
LEMMA SaveStateKeepsIInv ==
  ASSUME IInv, SaveState
  PROVE  IInv'
<1>1. /\ WriteStateFile(mem)
      /\ UNCHANGED <<log, sent, again, wire, asked, mem, phase, handled, skipped, due,
                     torn, losses, kills>>
  BY DEF SaveState, server, memory, past, spent
<1>2. disk' \in {mem, disk} /\ written' \in {mem, written} /\ useLog' = useLog
  BY <1>1, Basics, SavedProperties
<1> QED
  BY <1>1, <1>2, Basics, StepKeepsIInv

(* The counters are read from the state file (read_state_file).            *)
LEMMA ReadStateFileKeepsIInv ==
  ASSUME IInv, ReadStateFile
  PROVE  IInv'
<1>1. /\ mem' \in {mem, disk} /\ phase' = "running"
      /\ UNCHANGED <<log, sent, again, wire, asked, disk, written, useLog, handled, skipped,
                     due, torn, losses, kills>>
  BY DEF ReadStateFile, server, saved, past, spent
<1> QED
  BY <1>1, Basics, StepKeepsIInv

(* A restart knows what is on disk, if that is accounted for.              *)
LEMMA RestartedKeepsIInv ==
  ASSUME UpdatesAssumption, IInv, Restarted, skipped \subseteq skipped',
         skipped' \subseteq DOMAIN log, disk' \in Counters, NotAhead(disk'),
         Covered(disk') \subseteq handled \cup skipped'
  PROVE  IInv'
<1>1. /\ kills < MaxKills /\ kills' = kills + 1
      /\ mem' = (IF useLog THEN disk' ELSE Zero)
      /\ written' = Zero /\ phase' = "starting"
      /\ wire' = <<>> /\ asked' = {} /\ due' = {}
      /\ UNCHANGED <<log, sent, again, useLog, handled, torn, losses>>
  BY DEF Restarted, server
<1>2. kills' \in 0..MaxKills
  BY <1>1, Basics DEF UpdatesAssumption
<1>3. wire' \in Seq(Parcel) /\ IsFiniteSet(asked')
  BY <1>1, EmptySeq, FS_EmptySet
<1>4. mem' \in Counters /\ NotAhead(mem') /\ Covered(mem') \subseteq handled' \cup skipped'
  BY <1>1, Basics
<1> QED
  BY <1>1, <1>2, <1>3, <1>4, Basics, StepKeepsIInv

(* The process ends and starts again.                                      *)
LEMMA RestartKeepsIInv ==
  ASSUME UpdatesAssumption, IInv, Restart
  PROVE  IInv'
  BY Basics, RestartedKeepsIInv DEF Restart

(* The process ends between writing the state and showing the messages of  *)
(* a difference.                                                           *)
LEMMA CrashInDifferenceKeepsIInv ==
  ASSUME UpdatesAssumption, IInv, CrashInDifference
  PROVE  IInv'
<1>1. PICK q \in asked : /\ disk' = IF Grown(StateOf(q)) THEN StateOf(q) ELSE disk
                         /\ skipped' = skipped \cup (Items(q) \ handled)
  BY DEF CrashInDifference
<1>2. /\ StateOf(q) \in Counters /\ NotAhead(StateOf(q))
      /\ Covered(StateOf(q)) \subseteq Covered(q.from) \cup Items(q)
      /\ Items(q) \subseteq DOMAIN log
  BY Basics, StateOfProperties
<1>3. /\ skipped \subseteq skipped' /\ skipped' \subseteq DOMAIN log
      /\ Covered(StateOf(q)) \subseteq handled \cup skipped'
      /\ Covered(disk) \subseteq handled \cup skipped'
  BY <1>1, <1>2, Basics
<1>4. /\ disk' \in Counters /\ NotAhead(disk')
      /\ Covered(disk') \subseteq handled \cup skipped'
  BY <1>1, <1>2, <1>3, Basics
<1> QED
  BY <1>3, <1>4, RestartedKeepsIInv DEF CrashInDifference

(* An update comes once more.                                              *)
LEMMA ServerRepeatsKeepsIInv ==
  ASSUME IInv, NEW i \in again, ServerRepeats(i)
  PROVE  IInv'
<1>1. /\ again' = again \ {i} /\ wire' = Append(wire, Push(i))
      /\ UNCHANGED <<log, sent, asked, mem, phase, disk, written, useLog, handled, skipped,
                     due, torn, losses, kills>>
  BY DEF ServerRepeats, memory, saved, past, spent
<1>2. Push(i) \in Parcel
  BY Basics DEF Push, Parcel
<1>3. wire' \in Seq(Parcel)
  BY <1>1, <1>2, Basics, AppendProperties
<1> QED
  BY <1>1, <1>3, Basics, StepKeepsIInv

(* The server has too many updates to send.                                *)
LEMMA ServerTooLongKeepsIInv ==
  ASSUME IInv, ServerTooLong
  PROVE  IInv'
<1>1. /\ wire' = Append(wire, TooLong)
      /\ UNCHANGED <<log, sent, again, asked, mem, phase, disk, written, useLog, handled,
                     skipped, due, torn, losses, kills>>
  BY DEF ServerTooLong, server, memory, saved, past, spent
<1>2. TooLong \in Parcel
  BY DEF TooLong, Parcel
<1>3. wire' \in Seq(Parcel)
  BY <1>1, <1>2, Basics, AppendProperties
<1> QED
  BY <1>1, <1>3, Basics, StepKeepsIInv

(* The server answers a query, or sends its answer once more.              *)
LEMMA ServerAnswersKeepsIInv ==
  ASSUME IInv, ServerAnswers
  PROVE  IInv'
<1>1. PICK q \in asked :
        /\ \/ \E a \in Answers(q) : asked' = (asked \ {q}) \cup {[q EXCEPT !.answer = a]}
           \/ UNCHANGED asked
        /\ wire' = Append(wire, Response(q.id))
  BY DEF ServerAnswers
<1>2. UNCHANGED <<log, sent, again, mem, phase, disk, written, useLog, handled, skipped,
                  due, torn, losses, kills>>
  BY DEF ServerAnswers, server, memory, saved, past, spent
<1>3. q \in Query /\ IsFiniteSet(asked \ {q})
  BY Basics, FS_Subset
<1>4. Response(q.id) \in Parcel
  BY <1>3 DEF Response, Parcel, Query
<1>5. wire' \in Seq(Parcel)
  BY <1>1, <1>4, Basics, AppendProperties
<1>6. ASSUME NEW a \in Answers(q)
      PROVE  a \in [is : AnswerKind, upTo : Nat] /\ a.upTo \in 0..Len(log)
  <2>1. Len(log) \in Nat
    BY Basics
  <2>2. CASE a = [is |-> "state", upTo |-> Len(log)]
    BY <2>1, <2>2 DEF AnswerKind
  <2>3. CASE a = [is |-> "empty", upTo |-> Len(log)]
    BY <2>1, <2>3 DEF AnswerKind
  <2>4. CASE a = [is |-> "difference", upTo |-> Len(log)]
    BY <2>1, <2>4 DEF AnswerKind
  <2>5. CASE \E n \in 1..Len(log) - 1 : a = [is |-> "slice", upTo |-> n]
    BY <2>1, <2>5 DEF AnswerKind
  <2> QED
    BY <1>6, <2>2, <2>3, <2>4, <2>5 DEF Answers, UpTo
<1>7. ASSUME NEW a \in Answers(q), asked' = (asked \ {q}) \cup {[q EXCEPT !.answer = a]}
      PROVE  /\ asked' \subseteq Query /\ IsFiniteSet(asked')
             /\ \A r \in asked' : \/ r \in asked
                                  \/ /\ Covered(r.from) \subseteq handled' \cup skipped'
                                     /\ NotAhead(r.from) /\ r.answer.upTo \in 0..Len(log)
  <2> DEFINE r == [q EXCEPT !.answer = a]
  <2>1. r \in Query /\ r.from = q.from /\ r.answer = a
    BY <1>3, <1>6 DEF Query
  <2>2. IsFiniteSet(asked')
    BY <1>3, <1>7, FS_AddElement
  <2>3. asked' = (asked \ {q}) \cup {r}
    BY <1>7
  <2> HIDE DEF r
  <2> QED
    BY <1>2, <1>6, <2>1, <2>2, <2>3, Basics
<1>8. /\ asked' \subseteq Query /\ IsFiniteSet(asked')
      /\ \A r \in asked' : \/ r \in asked
                           \/ /\ Covered(r.from) \subseteq handled' \cup skipped'
                              /\ NotAhead(r.from) /\ r.answer.upTo \in 0..Len(log)
  <2>1. CASE UNCHANGED asked
    BY <2>1, Basics
  <2> QED
    BY <1>1, <1>7, <2>1
<1> QED
  BY <1>2, <1>5, <1>8, Basics, StepKeepsIInv

(* The connection is lost with what is in flight.                          *)
LEMMA LoseConnectionKeepsIInv ==
  ASSUME UpdatesAssumption, IInv, LoseConnection
  PROVE  IInv'
<1>1. /\ losses < MaxLosses /\ losses' = losses + 1 /\ wire' = <<>> /\ again' = sent
      /\ UNCHANGED <<log, sent, asked, mem, phase, disk, written, useLog, handled, skipped,
                     due, torn, kills>>
  BY DEF LoseConnection, memory, saved, past
<1>2. losses' \in 0..MaxLosses
  BY <1>1, Basics DEF UpdatesAssumption
<1>3. wire' \in Seq(Parcel)
  BY <1>1, EmptySeq
<1> QED
  BY <1>1, <1>2, <1>3, Basics, StepKeepsIInv

-----------------------------------------------------------------------------
(* All steps                                                               *)

(* A new update is behind no state that is not ahead of the server, and    *)
(* the values of the others stay.                                          *)
LEMMA IssueProperties ==
  ASSUME log \in Seq(Form), NEW form \in Form, log' = Append(log, form),
         NEW s \in Counters, NotAhead(s)
  PROVE  Covered(s)' = Covered(s) /\ NotAhead(s)'
<1>0. PICK n \in Nat : n = Len(log)
  BY LenProperties
<1>1. /\ log' \in Seq(Form) /\ Len(log') = n + 1
      /\ DOMAIN log = 1..n /\ DOMAIN log' = 1..n + 1
      /\ \A i \in 1..n : log'[i] = log[i]
      /\ log'[n + 1] = form
  BY <1>0, AppendProperties, LenProperties
<1>2. ASSUME NEW k \in 0..n, NEW F PROVE Count(k, F)' = Count(k, F)
  <2>1. {i \in 1..k : log'[i] \in F} = {i \in 1..k : log[i] \in F}
    BY <1>1
  <2> QED
    BY <2>1 DEF Count, UpTo
<1>3. ASSUME NEW F
      PROVE  /\ Count(n + 1, F)' \in Nat /\ Count(n, F) \in Nat
             /\ Count(n, F) <= Count(n + 1, F)'
             /\ form \in F => Count(n, F) < Count(n + 1, F)'
  <2> DEFINE A == {i \in 1..n : log[i] \in F}
             B == {i \in 1..n + 1 : log'[i] \in F}
  <2>1. /\ form \in F => B = A \cup {n + 1}
        /\ form \notin F => B = A
        /\ n + 1 \notin A
    BY <1>1
  <2>2. A \in SUBSET (1..n) /\ IsFiniteSet(1..n)
    BY FS_Interval
  <2>3. IsFiniteSet(A) /\ Cardinality(A) \in Nat
    BY <2>2, FS_Subset, FS_CardinalityType
  <2>4. Cardinality(A \cup {n + 1}) = Cardinality(A) + 1
    BY <2>1, <2>3, FS_AddElement
  <2>5. Count(n, F) = Cardinality(A) /\ Count(n + 1, F)' = Cardinality(B)
    BY DEF Count, UpTo
  <2> HIDE DEF A, B
  <2>6. CASE form \in F
    <3>1. Count(n + 1, F)' = Cardinality(A) + 1
      BY <2>1, <2>4, <2>5, <2>6
    <3> QED
      BY <2>3, <2>5, <3>1
  <2>7. CASE form \notin F
    <3>1. Count(n + 1, F)' = Cardinality(A)
      BY <2>1, <2>5, <2>7
    <3> QED
      BY <2>3, <2>5, <2>7, <3>1
  <2> QED
    BY <2>6, <2>7
<1>4. ASSUME NEW k \in 0..n PROVE StateAt(k)' = StateAt(k)
  BY <1>2 DEF StateAt
<1>5. s["pts"] \in Nat /\ s["qts"] \in Nat
  BY DEF Counters
<1>6. NotAhead(s)'
  <2>1. StateAt(n + 1)'.pts \in Nat /\ StateAt(n).pts <= StateAt(n + 1)'.pts
    BY <1>3 DEF StateAt
  <2>2. StateAt(n + 1)'.qts \in Nat /\ StateAt(n).qts <= StateAt(n + 1)'.qts
    BY <1>3 DEF StateAt
  <2>3. StateAt(n).pts \in Nat /\ StateAt(n).qts \in Nat
    BY <1>3 DEF StateAt
  <2>4. s.pts <= StateAt(n).pts /\ s.qts <= StateAt(n).qts
    BY <1>0 DEF NotAhead
  <2>5. s.pts <= StateAt(n + 1)'.pts /\ s.qts <= StateAt(n + 1)'.qts
    BY <1>5, <2>1, <2>2, <2>3, <2>4
  <2>6. StateAt(Len(log))' = StateAt(n + 1)'
    BY <1>1 DEF StateAt, Count, UpTo
  <2> QED
    BY <2>5, <2>6 DEF NotAhead
<1>7. ASSUME NEW i \in 1..n PROVE Value(i)' = Value(i)
  <2>1. i \in 0..n /\ log'[i] = log[i]
    BY <1>1
  <2>2. StateAt(i)' = StateAt(i)
    BY <1>4, <2>1
  <2> QED
    BY <2>1, <2>2 DEF Value
<1>8. ~(Value(n + 1)' <= s[Counter(log'[n + 1])])
  <2>1. CASE form = "secret"
    <3>1. Value(n + 1)' = 1 + Count(n + 1, {"secret"})' /\ Counter(log'[n + 1]) = "qts"
      BY <1>1, <2>1 DEF Value, StateAt, Counter
    <3>2. s["qts"] <= 1 + Count(n, {"secret"})
      BY <1>0 DEF NotAhead, StateAt
    <3>3. /\ Count(n + 1, {"secret"})' \in Nat /\ Count(n, {"secret"}) \in Nat
          /\ Count(n, {"secret"}) < Count(n + 1, {"secret"})'
      BY <1>3, <2>1
    <3> QED
      BY <1>5, <3>1, <3>2, <3>3
  <2>2. CASE form \in {"short", "text", "own"}
    <3> DEFINE F == {"short", "text", "own"}
    <3>1. Value(n + 1)' = 1 + Count(n + 1, F)' /\ Counter(log'[n + 1]) = "pts"
      BY <1>1, <2>2 DEF Value, StateAt, Counter
    <3>2. s["pts"] <= 1 + Count(n, F)
      BY <1>0 DEF NotAhead, StateAt
    <3>3. /\ Count(n + 1, F)' \in Nat /\ Count(n, F) \in Nat
          /\ Count(n, F) < Count(n + 1, F)'
      BY <1>3, <2>2
    <3> HIDE DEF F
    <3> QED
      BY <1>5, <3>1, <3>2, <3>3
  <2> QED
    BY <2>1, <2>2 DEF Form
<1>9. ASSUME NEW i \in DOMAIN log'
      PROVE  Value(i)' <= s[Counter(log'[i])]
               <=> i \in DOMAIN log /\ Value(i) <= s[Counter(log[i])]
  <2>1. CASE i \in 1..n
    BY <1>1, <1>7, <2>1
  <2>2. CASE i = n + 1
    BY <1>1, <1>8, <2>2
  <2> QED
    BY <1>1, <2>1, <2>2
<1>10. Covered(s)' = Covered(s)
  <2>1. DOMAIN log \subseteq DOMAIN log'
    BY <1>1
  <2> QED
    BY <1>9, <2>1 DEF Covered
<1> QED
  BY <1>6, <1>10

(* Something happens, and the client is told or not.                       *)
LEMMA ServerIssuesKeepsIInv ==
  ASSUME IInv, NEW form \in Form, ServerIssues(form)
  PROVE  IInv'
<1>0. PICK n \in Nat : n = Len(log)
  BY Basics
<1>1. /\ log' = Append(log, form)
      /\ \/ wire' = Append(wire, Push(Len(log'))) /\ sent' = sent \cup {Len(log')}
         \/ UNCHANGED <<wire, sent>>
      /\ UNCHANGED <<again, asked, mem, phase, disk, written, useLog, handled, skipped,
                     due, torn, losses, kills>>
  BY DEF ServerIssues, memory, saved, past, spent
<1>2. /\ log \in Seq(Form) /\ log' \in Seq(Form) /\ Len(log') = n + 1
      /\ DOMAIN log = 1..n /\ DOMAIN log' = 1..n + 1
  BY <1>0, <1>1, Basics, AppendProperties, LenProperties
<1>3. DOMAIN log \subseteq DOMAIN log' /\ n + 1 \in DOMAIN log' /\ 0..n \subseteq 0..n + 1
  BY <1>2
<1>4. /\ mem \in Counters /\ NotAhead(mem) /\ Covered(mem) \subseteq handled \cup skipped
      /\ disk \in Counters /\ NotAhead(disk) /\ Covered(disk) \subseteq handled \cup skipped
      /\ asked \subseteq Query /\ IsFiniteSet(asked)
  BY Basics
<1>5. ASSUME NEW s \in Counters, NotAhead(s), Covered(s) \subseteq handled \cup skipped
      PROVE  NotAhead(s)' /\ Covered(s)' \subseteq handled' \cup skipped'
  BY <1>1, <1>2, <1>5, IssueProperties
<1>6. Accounted(mem)' /\ NotAhead(mem)'
  <2>1. PICK s \in Counters : s = mem
    BY <1>4
  <2>2. NotAhead(s)' /\ Covered(s)' \subseteq handled' \cup skipped'
    BY <1>4, <1>5, <2>1
  <2>3. mem' = s
    BY <1>1, <2>1
  <2> QED
    BY <2>2, <2>3 DEF Accounted, Covered, NotAhead
<1>7. Accounted(disk)' /\ NotAhead(disk)'
  <2>1. PICK s \in Counters : s = disk
    BY <1>4
  <2>2. NotAhead(s)' /\ Covered(s)' \subseteq handled' \cup skipped'
    BY <1>4, <1>5, <2>1
  <2>3. disk' = s
    BY <1>1, <2>1
  <2> QED
    BY <2>2, <2>3 DEF Accounted, Covered, NotAhead
<1>8. QueriesFit'
  <2>1. ASSUME NEW q \in asked'
        PROVE  Accounted(q.from)' /\ NotAhead(q.from)' /\ q.answer.upTo \in 0..Len(log')
    <3>1. /\ q \in asked /\ q \in Query /\ q.from \in Counters
          /\ Covered(q.from) \subseteq handled \cup skipped /\ NotAhead(q.from)
          /\ q.answer.upTo \in 0..n
      BY <1>0, <1>1, <2>1, Basics DEF Query
    <3>2. NotAhead(q.from)' /\ Covered(q.from)' \subseteq handled' \cup skipped'
      BY <1>5, <3>1
    <3> QED
      BY <1>2, <1>3, <3>1, <3>2 DEF Accounted
  <2> QED
    BY <1>1, <1>4, <2>1 DEF QueriesFit
<1>9. wire' \in Seq(Parcel')
  <2>1. Parcel \subseteq Parcel'
    BY <1>3 DEF Parcel
  <2>2. wire \in Seq(Parcel')
    BY <2>1, Basics, SeqMonotonic
  <2>3. Push(Len(log')) \in Parcel'
    BY <1>2, <1>3 DEF Push, Parcel
  <2> QED
    BY <1>1, <2>2, <2>3, AppendProperties
<1>10. TypeOK'
  <2>1. \A m \in Parcel' : m.is \in {"push", "answer", "too_long"}
    BY DEF Parcel
  <2>2. \A k \in DOMAIN wire' : wire'[k].is \in {"push", "answer", "too_long"}
    BY <1>9, <2>1, LenProperties, ElementOfSeq
  <2>3. sent' \subseteq DOMAIN log' /\ again' \subseteq sent'
    BY <1>1, <1>2, <1>3, Basics
  <2>4. handled' \subseteq DOMAIN log' /\ skipped' \subseteq DOMAIN log' /\ due' \subseteq DOMAIN log'
    BY <1>1, <1>3, Basics
  <2> QED
    BY <1>1, <1>2, <1>4, <2>2, <2>3, <2>4, Basics DEF TypeOK
<1> QED
  BY <1>6, <1>7, <1>8, <1>9, <1>10 DEF IInv

(* A new installation knows nothing, or what there was before any update.  *)
LEMMA InitIInv ==
  ASSUME UpdatesAssumption, Init
  PROVE  IInv
<1>1. /\ log = <<>> /\ log \in Seq(Form) /\ Len(log) = 0 /\ DOMAIN log = {}
      /\ wire = <<>> /\ wire \in Seq(Parcel) /\ DOMAIN wire = {}
  BY EmptySeq DEF Init
<1>2. StateAt(0) \in Counters /\ Zero \in Counters
  BY StateProperties DEF Zero, Counters
<1>3. disk \in Counters /\ mem \in Counters /\ disk \in {Zero, StateAt(0)} /\ mem \in {Zero, disk}
  BY <1>2 DEF Init
<1>4. \A s : Covered(s) = {}
  BY <1>1 DEF Covered
<1>5. NotAhead(Zero)
  BY <1>1, ZeroProperties
<1>6. NotAhead(StateAt(0))
  BY <1>1, <1>2 DEF NotAhead, Counters
<1>7. NotAhead(disk) /\ NotAhead(mem)
  BY <1>3, <1>5, <1>6
<1>8. TypeOK
  <2>1. losses \in 0..MaxLosses /\ kills \in 0..MaxKills
    BY DEF Init, UpdatesAssumption
  <2>2. \A k \in DOMAIN wire : wire[k].is \in {"push", "answer", "too_long"}
    BY <1>1
  <2>3. /\ sent = {} /\ again = {} /\ asked = {} /\ handled = {} /\ skipped = {}
        /\ due = {} /\ torn = FALSE /\ written = Zero /\ phase = "starting"
        /\ useLog \in BOOLEAN
    BY DEF Init
  <2> QED
    BY <1>1, <1>2, <1>3, <2>1, <2>2, <2>3 DEF TypeOK
<1>9. QueriesFit
  BY FS_EmptySet DEF Init, QueriesFit
<1> QED
  BY <1>1, <1>4, <1>7, <1>8, <1>9 DEF IInv, Accounted

(* Every step keeps the invariant.                                         *)
LEMMA NextIInv ==
  ASSUME UpdatesAssumption, IInv, [Next]_vars
  PROVE  IInv'
<1>1. CASE ReceiveUpdate
  BY <1>1, ReceiveUpdateKeepsIInv
<1>2. CASE ReceiveTooLong
  BY <1>2, ReceiveTooLongKeepsIInv
<1>3. CASE ReceiveAnswer
  BY <1>3, ReceiveAnswerKeepsIInv
<1>4. CASE SaveState
  BY <1>4, SaveStateKeepsIInv
<1>5. CASE ReadStateFile
  BY <1>5, ReadStateFileKeepsIInv
<1>6. CASE Restart
  BY <1>6, RestartKeepsIInv
<1>7. CASE CrashInDifference
  BY <1>7, CrashInDifferenceKeepsIInv
<1>8. CASE \E form \in Form : ServerIssues(form)
  BY <1>8, ServerIssuesKeepsIInv
<1>9. CASE \E i \in again : ServerRepeats(i)
  BY <1>9, ServerRepeatsKeepsIInv
<1>10. CASE ServerTooLong
  BY <1>10, ServerTooLongKeepsIInv
<1>11. CASE ServerAnswers
  BY <1>11, ServerAnswersKeepsIInv
<1>12. CASE LoseConnection
  BY <1>12, LoseConnectionKeepsIInv
<1>13. CASE UNCHANGED vars
  <2>1. UNCHANGED <<log, sent, again, wire, asked, mem, phase, disk, written, useLog,
                    handled, skipped, due, torn, losses, kills>>
    BY <1>13 DEF vars, server, memory, saved, past, spent
  <2> QED
    BY <2>1, Basics, StepKeepsIInv
<1> QED
  BY <1>1, <1>2, <1>3, <1>4, <1>5, <1>6, <1>7, <1>8, <1>9, <1>10, <1>11, <1>12, <1>13
     DEF Next, Client, World

-----------------------------------------------------------------------------
(* What is in flight comes in order                                        *)

(* What is below the counters after some updates is so after more.         *)
LEMMA WithinProperties ==
  ASSUME NEW s \in Counters, NEW m \in Nat, NEW n \in Nat, m <= n, Within(s, m)
  PROVE  Within(s, n)
<1>1. /\ StateAt(m).pts <= StateAt(n).pts /\ StateAt(m).qts <= StateAt(n).qts
      /\ StateAt(m) \in Counters /\ StateAt(n) \in Counters
  BY StateProperties
<1> QED
  BY <1>1 DEF Within, Counters

(* A client that knows nothing, or only that nothing has happened yet, is  *)
(* behind every state.                                                     *)
LEMMA WithinNotZero ==
  ASSUME log \in Seq(Form), NEW s \in Counters, NEW n \in Nat, Within(s, n)
  PROVE  Within(NotZero(s), n) /\ Within(Zero, n)
<1>1. StateAt(n) \in Counters /\ StateAt(n).pts > 0 /\ StateAt(n).qts > 0
  BY StateProperties
<1>2. /\ NotZero(s).pts = (IF s.pts = 0 THEN 1 ELSE s.pts)
      /\ NotZero(s).qts = (IF s.qts = 0 THEN 1 ELSE s.qts)
  BY DEF NotZero, Counters
<1>3. /\ StateAt(n).pts \in Nat /\ StateAt(n).qts \in Nat
      /\ s.pts \in Nat /\ s.qts \in Nat
  BY <1>1 DEF Counters
<1> QED
  BY <1>1, <1>2, <1>3 DEF Within, Zero

(* With the history as it is, so is what is within it.                     *)
LEMMA WithinSame ==
  ASSUME UNCHANGED log, NEW s, NEW n
  PROVE  Within(s, n)' = Within(s, n)
BY DEF Within, StateAt, Count, UpTo

(* What is in flight before an answer that is no slice is told by it.      *)
LEMMA ToldBefore ==
  ASSUME AnsweredLast, NEW q \in asked, q.answer.is \in Whole,
         NEW k \in OnWire, wire[k] = Response(q.id), NEW j \in 1..k - 1
  PROVE  /\ wire[j].is = "push" => wire[j].n <= q.answer.upTo
         /\ \A r \in asked : wire[j] = Response(r.id) => r.answer.upTo <= q.answer.upTo
BY DEF AnsweredLast

(* After the oldest parcel was taken the others are in order, if what the  *)
(* answer changed is below every other answer.                             *)
LEMMA ReceivedInOrder ==
  ASSUME IInv, AnsweredOnce, AnsweredLast, wire # <<>>, Received,
         \A q, r \in asked' : q.id = r.id => q = r,
         \A q \in asked : q \in asked' \/ Head(wire) = Response(q.id),
         \A q \in asked' : q.answer = Unanswered \/ (q \in asked /\ Head(wire) # Response(q.id)),
         \A q \in asked' : q.answer.is \in Whole =>
           /\ Within(mem', q.answer.upTo) /\ Within(disk', q.answer.upTo)
           /\ \A r \in asked' : Within(r.from, q.answer.upTo)
  PROVE  AnsweredOnce' /\ AnsweredLast'
<1>0. PICK n \in Nat : n = Len(wire)
  BY Basics, LenProperties
<1>1. /\ wire' = Tail(wire) /\ UNCHANGED log /\ Len(wire') = n - 1 /\ n > 0
      /\ DOMAIN wire = 1..n /\ DOMAIN wire' = 1..n - 1 /\ wire[1] = Head(wire)
      /\ \A k \in 1..n - 1 : wire'[k] = wire[k + 1]
  <2>1. wire \in Seq(Parcel) /\ Tail(wire) \in Seq(Parcel)
    BY Basics, HeadTailProperties
  <2> QED
    BY <1>0, <2>1, HeadTailProperties, LenProperties DEF Received, server
<1>2. ASSUME NEW k \in OnWire' PROVE k + 1 \in OnWire /\ wire'[k] = wire[k + 1] /\ k \in 1..n - 1
  BY <1>1, <1>2 DEF OnWire
<1>3. ASSUME NEW k \in OnWire', Head(wire).is = "answer" PROVE wire[k + 1] # Head(wire)
  <2>1. 1 \in OnWire /\ k + 1 # 1
    BY <1>1, <1>2, <1>3 DEF OnWire
  <2> QED
    BY <1>1, <1>2, <2>1 DEF AnsweredOnce
<1>4. \A q : Response(q).is = "answer"
  BY DEF Response
<1>5. AnsweredOnce'
  <2>1. ASSUME NEW k \in OnWire'
        PROVE  \E q \in asked' : wire'[k] = Response(q.id) /\ q.answer # Unanswered
    <3>1. PICK q \in asked : wire[k + 1] = Response(q.id) /\ q.answer # Unanswered
      BY <1>2 DEF AnsweredOnce
    <3>2. Head(wire) # Response(q.id)
      BY <1>3, <1>4, <3>1
    <3> QED
      BY <1>2, <3>1, <3>2
  <2>2. ASSUME NEW j \in OnWire', NEW k \in OnWire', wire'[j] = wire'[k] PROVE j = k
    <3>1. j + 1 = k + 1
      BY <1>2, <2>2 DEF AnsweredOnce
    <3> QED
      BY <1>2, <3>1
  <2>3. ASSUME NEW q \in asked', q.answer # Unanswered PROVE InFlight(Response(q.id))'
    <3>1. q \in asked /\ Head(wire) # Response(q.id)
      BY <2>3
    <3>2. PICK k \in 1..n : wire[k] = Response(q.id)
      BY <1>1, <2>3, <3>1 DEF AnsweredOnce, InFlight
    <3>3. k - 1 \in 1..n - 1 /\ k - 1 + 1 = k
      BY <1>1, <3>1, <3>2
    <3>4. k - 1 \in DOMAIN wire' /\ wire'[k - 1] = Response(q.id)
      BY <1>1, <3>2, <3>3
    <3> QED
      BY <3>4 DEF InFlight, Response
  <2> QED
    BY <2>1, <2>2, <2>3 DEF AnsweredOnce
<1>6. AnsweredLast'
  <2>1. ASSUME NEW q \in asked', q.answer.is \in Whole
        PROVE  /\ Within(mem, q.answer.upTo)' /\ Within(disk, q.answer.upTo)'
               /\ \A r \in asked' : Within(r.from, q.answer.upTo)'
    BY <1>1, <2>1 DEF Within, StateAt, Count, UpTo
  <2>2. ASSUME NEW q \in asked', q.answer.is \in Whole, NEW k \in OnWire',
               wire'[k] = Response(q.id), NEW j \in 1..k - 1
        PROVE  /\ wire'[j].is = "push" => wire'[j].n <= q.answer.upTo
               /\ \A r \in asked' : wire'[j] = Response(r.id) => r.answer.upTo <= q.answer.upTo
    <3>1. q \in asked
      BY <2>2 DEF Whole, Unanswered
    <3>2. /\ k + 1 \in OnWire /\ wire[k + 1] = Response(q.id)
          /\ j + 1 \in 1..k + 1 - 1 /\ wire'[j] = wire[j + 1]
      BY <1>1, <1>2, <2>2
    <3>3. /\ wire[j + 1].is = "push" => wire[j + 1].n <= q.answer.upTo
          /\ \A r \in asked : wire[j + 1] = Response(r.id) => r.answer.upTo <= q.answer.upTo
      <4>1. PICK l \in OnWire : l = k + 1 /\ wire[l] = Response(q.id)
        BY <3>2
      <4>2. PICK i \in 1..l - 1 : i = j + 1
        <5>1. k \in 1..n - 1 /\ j \in 1..k - 1
          BY <1>2, <2>2
        <5>2. j + 1 \in 1..l - 1
          BY <4>1, <5>1
        <5> QED
          BY <5>2
      <4>3. /\ wire[i].is = "push" => wire[i].n <= q.answer.upTo
            /\ \A r \in asked : wire[i] = Response(r.id) => r.answer.upTo <= q.answer.upTo
        BY <2>2, <3>1, <4>1, ToldBefore
      <4> QED
        BY <4>2, <4>3
    <3>4. q.answer.upTo \in Nat
      BY <3>1, Basics
    <3>5. ASSUME NEW r \in asked', r \notin asked PROVE r.answer.upTo <= q.answer.upTo
      BY <3>4, <3>5 DEF Unanswered
    <3> QED
      BY <3>2, <3>3, <3>5
  <2> QED
    BY <2>1, <2>2 DEF AnsweredLast
<1> QED
  BY <1>5, <1>6

(* What is taken from the wire comes before each answer that is there.     *)
LEMMA HeadIsFirst ==
  ASSUME IInv, AnsweredOnce, AnsweredLast, wire # <<>>,
         NEW q \in asked, q.answer.is \in Whole, Head(wire) # Response(q.id)
  PROVE  /\ Head(wire).is = "push" => Head(wire).n <= q.answer.upTo
         /\ \A r \in asked : Head(wire) = Response(r.id) => r.answer.upTo <= q.answer.upTo
<1>1. InFlight(Response(q.id))
  BY DEF AnsweredOnce, Whole, Unanswered
<1>2. PICK k \in DOMAIN wire : wire[k] = Response(q.id)
  BY <1>1 DEF InFlight
<1>3. k \in OnWire
  BY <1>2 DEF OnWire, Response
<1>4. wire[1] = Head(wire) /\ k \in Nat \ {0}
  BY <1>2, Basics, HeadTailProperties, LenProperties
<1>5. 1 \in 1..k - 1
  BY <1>2, <1>4
<1> QED
  BY <1>2, <1>3, <1>4, <1>5, ToldBefore

(* The counters are raised to the value of an update that every answer     *)
(* behind it tells of.                                                     *)
LEMMA ReceiveUpdateInOrder ==
  ASSUME IInv, AnsweredOnce, AnsweredLast, ReceiveUpdate
  PROVE  /\ AnsweredOnce' /\ AnsweredLast'
         /\ mem.pts <= mem'.pts /\ mem.qts <= mem'.qts
<1>1. PICK i : i = Head(wire).n
  OBVIOUS
<1>2. /\ wire # <<>> /\ Head(wire).is = "push" /\ HandleUpdate(i) /\ Received
  BY <1>1 DEF ReceiveUpdate
<1>3. i \in DOMAIN log
  BY <1>1, <1>2, ReceivedProperties DEF Parcel
<1>4. mem' = After(mem, i) /\ Logged(EventsOf(mem', i)) /\ asked' = asked
  BY <1>2 DEF HandleUpdate
<1>5. /\ mem' \in Counters /\ mem.pts <= mem'.pts /\ mem.qts <= mem'.qts
      /\ \A n \in Nat : i <= n /\ Within(mem, n) => Within(mem', n)
  BY <1>3, <1>4, Basics, AfterProperties
<1> DEFINE e == EventsOf(mem', i)
<1>6. e \in Counters /\ e.pts = mem'.pts /\ e.qts = mem'.qts
  BY <1>5, Basics DEF EventsOf, Counters
<1>7. disk' \in {e, disk}
  BY <1>4, <1>6, SavedProperties
<1> HIDE DEF e
<1>8. \A r : Head(wire) # Response(r)
  BY <1>2 DEF Response
<1>9. ASSUME NEW q \in asked', q.answer.is \in Whole
      PROVE  /\ Within(mem', q.answer.upTo) /\ Within(disk', q.answer.upTo)
             /\ \A r \in asked' : Within(r.from, q.answer.upTo)
  <2>1. q \in asked /\ q.answer.upTo \in Nat
    BY <1>4, <1>9, Basics
  <2>2. i <= q.answer.upTo
    BY <1>1, <1>2, <1>8, <1>9, <2>1, HeadIsFirst
  <2>3. /\ Within(mem, q.answer.upTo) /\ Within(disk, q.answer.upTo)
        /\ \A r \in asked : Within(r.from, q.answer.upTo)
    BY <1>9, <2>1 DEF AnsweredLast
  <2>4. Within(mem', q.answer.upTo)
    BY <1>5, <2>1, <2>2, <2>3
  <2>5. Within(e, q.answer.upTo)
    BY <1>6, <2>4 DEF Within
  <2> QED
    BY <1>4, <1>7, <2>3, <2>4, <2>5
<1>10. \A q, r \in asked' : q.id = r.id => q = r
  BY <1>4 DEF AnsweredOnce
<1>11. AnsweredOnce' /\ AnsweredLast'
  BY <1>2, <1>4, <1>8, <1>9, <1>10, ReceivedInOrder
<1> QED
  BY <1>5, <1>11

(* A query for the difference asks from what is below the answers that are *)
(* there.                                                                  *)
LEMMA ReceiveTooLongInOrder ==
  ASSUME IInv, AnsweredOnce, AnsweredLast, ReceiveTooLong
  PROVE  /\ AnsweredOnce' /\ AnsweredLast'
         /\ mem.pts <= mem'.pts /\ mem.qts <= mem'.qts
<1>1. /\ wire # <<>> /\ Head(wire).is = "too_long" /\ Received
      /\ DoGetDifference(mem, asked) /\ UNCHANGED disk
  BY DEF ReceiveTooLong, WorkUpdatesTooLong, saved
<1>2. mem.pts <= mem'.pts /\ mem.qts <= mem'.qts
  BY <1>1, Basics, AskedProperties
<1>3. PICK new : /\ asked' = asked \cup {new} /\ new.from = mem' /\ new.answer = Unanswered
                 /\ \A r \in asked : r.id # new.id
  BY <1>1, Basics, AskedProperties
<1>4. \A r : Head(wire) # Response(r)
  BY <1>1 DEF Response
<1>5. mem' \in {mem, NotZero(mem)}
  BY <1>1 DEF DoGetDifference
<1>6. ASSUME NEW q \in asked', q.answer.is \in Whole
      PROVE  /\ Within(mem', q.answer.upTo) /\ Within(disk', q.answer.upTo)
             /\ \A r \in asked' : Within(r.from, q.answer.upTo)
  <2>1. q \in asked
    BY <1>3, <1>6 DEF Whole, Unanswered
  <2>2. /\ Within(mem, q.answer.upTo) /\ Within(disk, q.answer.upTo)
        /\ \A r \in asked : Within(r.from, q.answer.upTo)
        /\ q.answer.upTo \in Nat
    BY <1>6, <2>1, Basics DEF AnsweredLast
  <2>3. Within(mem', q.answer.upTo)
    BY <1>5, <2>2, Basics, WithinNotZero
  <2> QED
    BY <1>1, <1>3, <2>2, <2>3
<1>7. \A q, r \in asked' : q.id = r.id => q = r
  BY <1>3 DEF AnsweredOnce
<1>8. AnsweredOnce' /\ AnsweredLast'
  BY <1>1, <1>3, <1>4, <1>6, <1>7, ReceivedInOrder
<1> QED
  BY <1>2, <1>8

(* The answer to a query is below those behind it, and not below what is   *)
(* known unless it is a slice.                                             *)
LEMMA ReceiveAnswerInOrder ==
  ASSUME IInv, AnsweredOnce, AnsweredLast, ReceiveAnswer
  PROVE  /\ AnsweredOnce' /\ AnsweredLast'
         /\ SliceArrives \/ (mem.pts <= mem'.pts /\ mem.qts <= mem'.qts)
<1>1. PICK q \in asked : q.id = Head(wire).n /\ WorkAnswer(q)
  BY DEF ReceiveAnswer
<1>2. wire # <<>> /\ Received /\ Head(wire).is = "answer"
  BY DEF ReceiveAnswer
<1>3. Head(wire) = Response(q.id)
  BY <1>1, <1>2, ReceivedProperties DEF Parcel, Response
<1>4. \A r \in asked : Head(wire) = Response(r.id) => r = q
  BY <1>3 DEF Response, AnsweredOnce
<1> DEFINE m == q.answer.upTo
           at == StateOf(q)
<1>5. /\ q \in Query /\ m \in Nat /\ m \in 0..Len(log)
      /\ mem \in Counters /\ disk \in Counters /\ q.from \in Counters
  BY Basics DEF Query
<1>6. /\ StateAt(m) \in Counters /\ at \in Counters /\ NotAhead(at)
      /\ StateAt(m).pts <= at.pts /\ StateAt(m).qts <= at.qts
      /\ \A k \in Nat : m <= k /\ Within(q.from, k) => Within(at, k)
  BY <1>5, Basics, StateProperties, StateOfProperties
<1>7. CASE q.answer.is = "state" /\ GetStateOnAnswer(q)
  <2>1. mem' = StateAt(m) /\ (WriteStateFile(mem') \/ Logged(mem')) /\ asked' = asked \ {q}
    BY <1>7 DEF GetStateOnAnswer
  <2>2. disk' \in {mem', disk} /\ mem' \in Counters
    BY <1>6, <2>1, SavedProperties
  <2>3. Within(mem, m)
    BY <1>7 DEF AnsweredLast, Whole
  <2> HIDE DEF m
  <2>4. ASSUME NEW r \in asked', r.answer.is \in Whole
        PROVE  /\ Within(mem', r.answer.upTo) /\ Within(disk', r.answer.upTo)
               /\ \A o \in asked' : Within(o.from, r.answer.upTo)
    <3>1. r \in asked /\ Head(wire) # Response(r.id) /\ r.answer.upTo \in Nat
      BY <1>4, <2>1, <2>4, Basics
    <3>2. m <= r.answer.upTo
      BY <1>2, <1>3, <2>4, <3>1, HeadIsFirst DEF m
    <3>3. /\ Within(disk, r.answer.upTo) /\ \A o \in asked : Within(o.from, r.answer.upTo)
      BY <2>4, <3>1 DEF AnsweredLast
    <3>4. Within(mem', r.answer.upTo)
      BY <1>5, <2>1, <3>1, <3>2, StateProperties DEF Within
    <3> QED
      BY <2>1, <2>2, <3>3, <3>4
  <2>5. \A r, o \in asked' : r.id = o.id => r = o
    BY <2>1 DEF AnsweredOnce
  <2>6. AnsweredOnce' /\ AnsweredLast'
    BY <1>2, <1>3, <1>4, <2>1, <2>4, <2>5, ReceivedInOrder
  <2> QED
    BY <2>1, <2>3, <2>6 DEF Within
<1>8. CASE q.answer.is = "empty" /\ GetDifferenceEmpty(q)
  <2>1. /\ mem' = [mem EXCEPT !.seq = StateAt(m).seq, !.date = StateAt(m).date]
        /\ Logged(mem') /\ asked' = asked \ {q}
    BY <1>8 DEF GetDifferenceEmpty
  <2>2. mem' \in Counters /\ mem'.pts = mem.pts /\ mem'.qts = mem.qts
    BY <1>5, <1>6, <2>1 DEF Counters
  <2>3. disk' \in {mem', disk}
    BY <2>1, <2>2, SavedProperties
  <2>4. ASSUME NEW r \in asked', r.answer.is \in Whole
        PROVE  /\ Within(mem', r.answer.upTo) /\ Within(disk', r.answer.upTo)
               /\ \A o \in asked' : Within(o.from, r.answer.upTo)
    <3>1. r \in asked
      BY <2>1, <2>4
    <3>2. /\ Within(mem, r.answer.upTo) /\ Within(disk, r.answer.upTo)
          /\ \A o \in asked : Within(o.from, r.answer.upTo)
      BY <2>4, <3>1 DEF AnsweredLast
    <3>3. Within(mem', r.answer.upTo)
      BY <2>2, <3>2 DEF Within
    <3> QED
      BY <2>1, <2>3, <3>2, <3>3
  <2>5. \A r, o \in asked' : r.id = o.id => r = o
    BY <2>1 DEF AnsweredOnce
  <2>6. AnsweredOnce' /\ AnsweredLast'
    BY <1>2, <1>3, <1>4, <2>1, <2>4, <2>5, ReceivedInOrder
  <2>7. mem.pts <= mem'.pts /\ mem.qts <= mem'.qts
    BY <1>5, <2>2 DEF Counters
  <2> QED
    BY <2>6, <2>7
<1>9. CASE q.answer.is \in {"slice", "difference"} /\ GetDifferenceOnAnswer(q)
  <2>1. /\ WriteStateFile(at) \/ Logged(at)
        /\ IF q.answer.is = "slice" THEN DoGetDifference(at, asked \ {q})
           ELSE mem' = at /\ asked' = asked \ {q}
    BY <1>9 DEF GetDifferenceOnAnswer
  <2>2. disk' \in {at, disk}
    BY <1>6, <2>1, SavedProperties
  <2>3. /\ mem' \in {at, NotZero(at)}
        /\ asked \ {q} \subseteq asked'
        /\ \A r, o \in asked' : r.id = o.id => r = o
        /\ \A r \in asked' : r \in asked \ {q} \/ (r.from = mem' /\ r.answer = Unanswered)
        /\ q \notin asked'
    <3>1. CASE q.answer.is = "slice"
      <4>1. DoGetDifference(at, asked \ {q})
        BY <2>1, <3>1
      <4>2. asked \ {q} \in SUBSET asked
        OBVIOUS
      <4>3. PICK new : /\ asked' = (asked \ {q}) \cup {new}
                       /\ new.from = mem' /\ new.answer = Unanswered
                       /\ \A r \in asked : r.id # new.id
        BY <1>6, <4>1, <4>2, AskedProperties
      <4>4. mem' \in {at, NotZero(at)}
        BY <4>1 DEF DoGetDifference
      <4> QED
        BY <4>3, <4>4 DEF AnsweredOnce
    <3>2. CASE q.answer.is # "slice"
      <4>1. mem' = at /\ asked' = asked \ {q}
        BY <2>1, <3>2
      <4>2. \A r, o \in asked' : r.id = o.id => r = o
        BY <4>1 DEF AnsweredOnce
      <4> HIDE DEF at
      <4> QED
        BY <4>1, <4>2
    <3> QED
      BY <3>1, <3>2
  <2> HIDE DEF m, at
  <2>4. ASSUME NEW r \in asked', r.answer.is \in Whole
        PROVE  /\ Within(mem', r.answer.upTo) /\ Within(disk', r.answer.upTo)
               /\ \A o \in asked' : Within(o.from, r.answer.upTo)
    <3>1. r \in asked \ {q}
      BY <2>3, <2>4 DEF Whole, Unanswered
    <3>2. Head(wire) # Response(r.id) /\ r.answer.upTo \in Nat
      BY <1>4, <3>1, Basics
    <3>3. m <= r.answer.upTo
      BY <1>2, <1>3, <2>4, <3>1, <3>2, HeadIsFirst DEF m
    <3>4. /\ Within(disk, r.answer.upTo) /\ \A o \in asked : Within(o.from, r.answer.upTo)
      BY <2>4, <3>1 DEF AnsweredLast
    <3>5. Within(at, r.answer.upTo)
      BY <1>6, <3>2, <3>3, <3>4
    <3>6. Within(mem', r.answer.upTo)
      BY <1>6, <2>3, <3>2, <3>5, Basics, WithinNotZero
    <3> QED
      BY <2>2, <2>3, <3>4, <3>5, <3>6
  <2>5. \A r \in asked' : r.answer = Unanswered \/ (r \in asked /\ Head(wire) # Response(r.id))
    BY <1>4, <2>3
  <2>6. \A r \in asked : r \in asked' \/ Head(wire) = Response(r.id)
    BY <1>3, <2>3
  <2>7. AnsweredOnce' /\ AnsweredLast'
    BY <1>2, <2>3, <2>4, <2>5, <2>6, ReceivedInOrder
  <2>8. SliceArrives \/ (mem.pts <= mem'.pts /\ mem.qts <= mem'.qts)
    <3>1. CASE q.answer.is = "slice"
      BY <1>2, <1>3, <3>1 DEF SliceArrives
    <3>2. CASE q.answer.is = "difference"
      <4>1. mem' = at
        BY <2>1, <3>2
      <4>2. Within(mem, m)
        BY <3>2 DEF AnsweredLast, Whole, m
      <4>3. /\ mem.pts \in Nat /\ mem.qts \in Nat /\ at.pts \in Nat /\ at.qts \in Nat
            /\ StateAt(m).pts \in Nat /\ StateAt(m).qts \in Nat
        BY <1>5, <1>6 DEF Counters
      <4>4. mem.pts <= at.pts /\ mem.qts <= at.qts
        BY <1>6, <4>2, <4>3 DEF Within
      <4> QED
        BY <4>1, <4>4
    <3> QED
      BY <1>9, <3>1, <3>2
  <2> QED
    BY <2>7, <2>8
<1> QED
  BY <1>1, <1>7, <1>8, <1>9 DEF WorkAnswer

(* A parcel that is sent comes after those in flight.                      *)
LEMMA SentInOrder ==
  ASSUME IInv, NEW m, m \in Parcel', wire' = Append(wire, m), log' \in Seq(Form)
  PROVE  /\ Len(wire) \in Nat /\ DOMAIN wire = 1..Len(wire)
         /\ DOMAIN wire' = 1..Len(wire) + 1 /\ wire'[Len(wire) + 1] = m
         /\ \A k \in DOMAIN wire : wire'[k] = wire[k]
         /\ OnWire' = IF m.is = "answer" THEN OnWire \cup {Len(wire) + 1} ELSE OnWire
         /\ \A k \in OnWire : k \in DOMAIN wire /\ k # Len(wire) + 1
         /\ \A k \in OnWire' : \A j \in 1..k - 1 : j \in DOMAIN wire
<1>0. PICK n \in Nat : n = Len(wire)
  BY Basics, LenProperties
<1>1. /\ DOMAIN wire = 1..n /\ DOMAIN wire' = 1..n + 1 /\ wire'[n + 1] = m
      /\ \A k \in 1..n : wire'[k] = wire[k]
  <2>1. wire \in Seq(Parcel \cup {m})
    BY Basics, SeqMonotonic
  <2> QED
    BY <1>0, <2>1, AppendProperties, LenProperties
<1>2. OnWire' = IF m.is = "answer" THEN OnWire \cup {n + 1} ELSE OnWire
  BY <1>1 DEF OnWire
<1>3. \A k \in OnWire : k \in 1..n /\ k # n + 1
  BY <1>1 DEF OnWire
<1>4. ASSUME NEW k \in OnWire', NEW j \in 1..k - 1 PROVE j \in 1..n
  <2>1. k \in 1..n + 1
    BY <1>1 DEF OnWire
  <2> QED
    BY <2>1
<1> QED
  BY <1>0, <1>1, <1>2, <1>3, <1>4

(* Something that is no answer comes after those in flight.                *)
LEMMA PushInOrder ==
  ASSUME IInv, AnsweredOnce, AnsweredLast, NEW m, m \in Parcel', m.is # "answer",
         wire' = Append(wire, m) \/ wire' = wire, log' \in Seq(Form),
         UNCHANGED <<asked, mem, disk>>,
         \A q \in asked : q.answer.is \in Whole => StateAt(q.answer.upTo)' = StateAt(q.answer.upTo)
  PROVE  AnsweredOnce' /\ AnsweredLast'
<1>1. /\ OnWire' = OnWire /\ DOMAIN wire \subseteq DOMAIN wire'
      /\ \A k \in DOMAIN wire : wire'[k] = wire[k]
      /\ \A k \in OnWire : k \in DOMAIN wire
      /\ \A k \in OnWire : \A j \in 1..k - 1 : j \in DOMAIN wire
  <2>1. CASE wire' = Append(wire, m)
    BY <2>1, SentInOrder
  <2>2. CASE wire' = wire
    <3>1. wire \in Seq(Parcel) /\ Len(wire) \in Nat /\ DOMAIN wire = 1..Len(wire)
      BY Basics, LenProperties
    <3> QED
      BY <2>2, <3>1 DEF OnWire
  <2> QED
    BY <2>1, <2>2
<1>2. AnsweredOnce'
  BY <1>1 DEF AnsweredOnce, InFlight, Response
<1>3. ASSUME NEW q \in asked', q.answer.is \in Whole
      PROVE  /\ Within(mem, q.answer.upTo)' /\ Within(disk, q.answer.upTo)'
             /\ \A r \in asked' : Within(r.from, q.answer.upTo)'
  BY <1>3 DEF AnsweredLast, Within
<1>4. ASSUME NEW q \in asked', q.answer.is \in Whole, NEW k \in OnWire',
             wire'[k] = Response(q.id), NEW j \in 1..k - 1
      PROVE  /\ wire'[j].is = "push" => wire'[j].n <= q.answer.upTo
             /\ \A r \in asked' : wire'[j] = Response(r.id) => r.answer.upTo <= q.answer.upTo
  <2>1. k \in OnWire /\ wire'[k] = wire[k] /\ wire'[j] = wire[j]
    BY <1>1, <1>4
  <2> QED
    BY <1>4, <2>1, ToldBefore
<1>5. AnsweredLast'
  BY <1>3, <1>4 DEF AnsweredLast, Response
<1> QED
  BY <1>2, <1>5

(* The answer of the server tells of all there is, and comes after what is *)
(* in flight.                                                              *)
LEMMA ServerAnswersInOrder ==
  ASSUME IInv, AnsweredOnce, AnsweredLast, ServerAnswers
  PROVE  AnsweredOnce' /\ AnsweredLast'
<1>1. PICK q \in asked :
        /\ ~InFlight(Response(q.id)) /\ wire' = Append(wire, Response(q.id))
        /\ IF q.answer = Unanswered
           THEN \E a \in Answers(q) : asked' = (asked \ {q}) \cup {[q EXCEPT !.answer = a]}
           ELSE UNCHANGED asked
  BY DEF ServerAnswers
<1>2. UNCHANGED <<log, mem, disk>>
  BY DEF ServerAnswers, server, memory, saved
<1>3. q.answer = Unanswered
  BY <1>1 DEF AnsweredOnce
<1>4. PICK a \in Answers(q) : asked' = (asked \ {q}) \cup {[q EXCEPT !.answer = a]}
  BY <1>1, <1>3
<1> DEFINE new == [q EXCEPT !.answer = a]
           n == Len(wire) + 1
<1>5. /\ asked' = (asked \ {q}) \cup {new}
      /\ new.id = q.id /\ new.from = q.from /\ new.answer = a
  BY <1>4, Basics DEF Query
<1> HIDE DEF new
<1>6. /\ a.is # "none" /\ a.upTo \in 0..Len(log)
      /\ a.is \in Whole => a.upTo = Len(log)
  <2>1. Len(log) \in Nat
    BY Basics
  <2>2. CASE a = [is |-> "state", upTo |-> Len(log)]
    BY <2>1, <2>2
  <2>3. CASE a = [is |-> "empty", upTo |-> Len(log)]
    BY <2>1, <2>3
  <2>4. CASE a = [is |-> "difference", upTo |-> Len(log)]
    BY <2>1, <2>4
  <2>5. CASE \E k \in 1..Len(log) - 1 : a = [is |-> "slice", upTo |-> k]
    BY <2>1, <2>5 DEF Whole
  <2> QED
    BY <2>2, <2>3, <2>4, <2>5 DEF Answers, UpTo
<1>7. new.answer # Unanswered
  BY <1>5, <1>6 DEF Unanswered
<1>8. Response(q.id) \in Parcel' /\ Response(q.id).is = "answer"
  BY Basics DEF Response, Parcel, Query
<1>9. /\ DOMAIN wire' = DOMAIN wire \cup {n} /\ wire'[n] = Response(q.id)
      /\ \A k \in DOMAIN wire : wire'[k] = wire[k]
      /\ OnWire' = OnWire \cup {n}
      /\ \A k \in OnWire : k \in DOMAIN wire /\ k # n
      /\ \A k \in OnWire' : \A j \in 1..k - 1 : j \in DOMAIN wire
  BY <1>1, <1>2, <1>8, Basics, SentInOrder
<1> HIDE DEF n
<1>10. \A k \in DOMAIN wire : wire[k] # Response(q.id)
  BY <1>1 DEF InFlight
<1>11. AnsweredOnce'
  <2>1. \A r, o \in asked' : r.id = o.id => r = o
    BY <1>5 DEF AnsweredOnce
  <2>2. ASSUME NEW k \in OnWire'
        PROVE  \E r \in asked' : wire'[k] = Response(r.id) /\ r.answer # Unanswered
    <3>1. CASE k = n
      BY <1>5, <1>7, <1>9, <3>1
    <3>2. CASE k \in OnWire
      <4>1. PICK r \in asked : wire[k] = Response(r.id) /\ r.answer # Unanswered
        BY <3>2 DEF AnsweredOnce
      <4>2. r \in asked'
        BY <1>3, <1>5, <4>1
      <4> QED
        BY <1>9, <3>2, <4>1, <4>2
    <3> QED
      BY <1>9, <3>1, <3>2
  <2>3. ASSUME NEW j \in OnWire', NEW k \in OnWire', wire'[j] = wire'[k] PROVE j = k
    BY <1>9, <1>10, <2>3 DEF AnsweredOnce
  <2>4. ASSUME NEW r \in asked', r.answer # Unanswered PROVE InFlight(Response(r.id))'
    <3>1. CASE r = new
      <4>1. n \in DOMAIN wire' /\ wire'[n] = Response(r.id)
        BY <1>5, <1>9, <3>1
      <4> QED
        BY <4>1 DEF InFlight, Response
    <3>2. CASE r \in asked
      <4>1. PICK k \in DOMAIN wire : wire[k] = Response(r.id)
        BY <2>4, <3>2 DEF AnsweredOnce, InFlight
      <4>2. k \in DOMAIN wire' /\ wire'[k] = Response(r.id)
        BY <1>9, <4>1
      <4> QED
        BY <4>2 DEF InFlight, Response
    <3> QED
      BY <1>5, <3>1, <3>2
  <2> QED
    BY <2>1, <2>2, <2>3, <2>4 DEF AnsweredOnce, Response
<1>12. ASSUME NEW r \in asked', r.answer.is \in Whole
       PROVE  /\ Within(mem, r.answer.upTo) /\ Within(disk, r.answer.upTo)
              /\ \A o \in asked' : Within(o.from, r.answer.upTo)
  <2>1. CASE r = new
    <3>1. r.answer.upTo = Len(log)
      BY <1>5, <1>6, <1>12, <2>1
    <3> QED
      BY <1>5, <3>1, Basics DEF Within, NotAhead
  <2>2. CASE r \in asked
    <3>1. /\ Within(mem, r.answer.upTo) /\ Within(disk, r.answer.upTo)
          /\ \A o \in asked : Within(o.from, r.answer.upTo)
      BY <1>12, <2>2 DEF AnsweredLast
    <3> QED
      BY <1>5, <3>1
  <2> QED
    BY <1>5, <2>1, <2>2
<1>13. ASSUME NEW r \in asked', r.answer.is \in Whole, NEW k \in OnWire',
              wire'[k] = Response(r.id), NEW j \in 1..k - 1
       PROVE  /\ wire'[j].is = "push" => wire'[j].n <= r.answer.upTo
              /\ \A o \in asked' : wire'[j] = Response(o.id) => o.answer.upTo <= r.answer.upTo
  <2>1. j \in DOMAIN wire /\ wire'[j] = wire[j]
    BY <1>9, <1>13
  <2>2. ASSUME NEW o \in asked', wire'[j] = Response(o.id) PROVE o \in asked
    BY <1>5, <1>10, <2>1, <2>2
  <2>3. CASE r = new
    <3>1. r.answer.upTo = Len(log) /\ Len(log) \in Nat
      BY <1>5, <1>6, <1>13, <2>3, Basics
    <3>2. \A o \in asked : o.answer.upTo <= Len(log)
      BY <3>1, Basics
    <3>3. wire[j] \in Parcel
      BY <2>1, Basics, LenProperties, ElementOfSeq
    <3>4. wire[j].is = "push" => wire[j].n <= Len(log)
      BY <3>1, <3>3, Basics DEF Parcel
    <3> QED
      BY <2>1, <2>2, <3>1, <3>2, <3>4
  <2>4. CASE r \in asked /\ r # new
    <3>1. r # q
      BY <1>3, <1>13, <2>4 DEF Whole, Unanswered
    <3>2. k # n
      BY <1>9, <1>13, <2>4, <3>1 DEF Response, AnsweredOnce
    <3>3. k \in OnWire /\ wire[k] = Response(r.id)
      BY <1>9, <1>13, <3>2
    <3>4. /\ wire[j].is = "push" => wire[j].n <= r.answer.upTo
          /\ \A o \in asked : wire[j] = Response(o.id) => o.answer.upTo <= r.answer.upTo
      BY <1>13, <2>4, <3>3, ToldBefore
    <3> QED
      BY <2>1, <2>2, <3>4
  <2> QED
    BY <1>5, <2>3, <2>4
<1>14. AnsweredLast'
  <2>1. ASSUME NEW r \in asked', r.answer.is \in Whole
        PROVE  /\ Within(mem, r.answer.upTo)' /\ Within(disk, r.answer.upTo)'
               /\ \A o \in asked' : Within(o.from, r.answer.upTo)'
    BY <1>2, <1>12, <2>1 DEF Within, StateAt, Count, UpTo
  <2> QED
    BY <1>13, <2>1 DEF AnsweredLast, Response
<1> QED
  BY <1>11, <1>14

(* A new installation has asked nothing.                                   *)
LEMMA InitInOrder ==
  ASSUME Init
  PROVE  InOrder
BY DEF Init, InOrder, AnsweredOnce, AnsweredLast, OnWire

(* Something happens, of which the answers that are there do not tell.     *)
LEMMA ServerIssuesInOrder ==
  ASSUME IInv, IInv', AnsweredOnce, AnsweredLast, NEW form \in Form, ServerIssues(form)
  PROVE  AnsweredOnce' /\ AnsweredLast'
<1>1. /\ log' = Append(log, form) /\ UNCHANGED <<asked, mem, disk>>
      /\ wire' = Append(wire, Push(Len(log'))) \/ wire' = wire
  BY DEF ServerIssues, memory, saved
<1>2. PICK n \in Nat : n = Len(log)
  BY Basics
<1>3. /\ log' \in Seq(Form) /\ Len(log') = n + 1 /\ DOMAIN log' = 1..n + 1
      /\ \A i \in 1..n : log'[i] = log[i]
  BY <1>1, <1>2, Basics, AppendProperties, LenProperties
<1>4. Push(Len(log')) \in Parcel' /\ Push(Len(log')).is # "answer"
  <2>1. Len(log') \in DOMAIN log'
    BY <1>3
  <2> QED
    BY <2>1 DEF Push, Parcel
<1>5. ASSUME NEW k \in 0..n PROVE StateAt(k)' = StateAt(k)
  <2>1. ASSUME NEW F PROVE Count(k, F)' = Count(k, F)
    <3>1. {i \in 1..k : log'[i] \in F} = {i \in 1..k : log[i] \in F}
      BY <1>3
    <3> QED
      BY <3>1 DEF Count, UpTo
  <2> QED
    BY <2>1 DEF StateAt
<1>6. \A q \in asked : StateAt(q.answer.upTo)' = StateAt(q.answer.upTo)
  BY <1>2, <1>5, Basics
<1> QED
  BY <1>1, <1>3, <1>4, <1>6, PushInOrder

(* Saving and reading the state file brings no other counters.             *)
LEMMA SavedInOrder ==
  ASSUME IInv, AnsweredOnce, AnsweredLast, UNCHANGED <<log, wire, asked>>,
         mem' \in {mem, disk}, disk' \in {mem, disk}
  PROVE  AnsweredOnce' /\ AnsweredLast'
<1>1. OnWire' = OnWire
  BY DEF OnWire
<1>2. AnsweredOnce'
  BY <1>1 DEF AnsweredOnce, InFlight
<1>3. ASSUME NEW q \in asked, q.answer.is \in Whole
      PROVE  /\ Within(mem, q.answer.upTo)' /\ Within(disk, q.answer.upTo)'
             /\ \A r \in asked : Within(r.from, q.answer.upTo)'
  <2>1. /\ Within(mem', q.answer.upTo) /\ Within(disk', q.answer.upTo)
        /\ \A r \in asked : Within(r.from, q.answer.upTo)
    BY <1>3 DEF AnsweredLast
  <2> QED
    BY <2>1 DEF Within, StateAt, Count, UpTo
<1> QED
  BY <1>1, <1>2, <1>3 DEF AnsweredLast

(* Every step keeps the order, and only a slice sets back the counters of  *)
(* a running client.                                                       *)
LEMMA NextInOrder ==
  ASSUME UpdatesAssumption, IInv, InOrder, [Next]_vars
  PROVE  /\ InOrder'
         /\ phase = "running" /\ phase' = "running" /\ losses = 0 /\ ~SliceArrives =>
              mem.pts <= mem'.pts /\ mem.qts <= mem'.qts
<1>0. IInv' /\ losses \in Nat
  BY NextIInv, Basics DEF UpdatesAssumption
<1>1. /\ mem.pts \in Nat /\ mem.qts \in Nat
      /\ mem.pts <= mem.pts /\ mem.qts <= mem.qts
  BY Basics DEF Counters
<1>2. CASE ReceiveUpdate
  <2>1. losses' = losses
    BY <1>2 DEF ReceiveUpdate, Received, spent
  <2> QED
    BY <1>2, <2>1, ReceiveUpdateInOrder DEF InOrder
<1>3. CASE ReceiveTooLong
  <2>1. losses' = losses
    BY <1>3 DEF ReceiveTooLong, Received, spent
  <2> QED
    BY <1>3, <2>1, ReceiveTooLongInOrder DEF InOrder
<1>4. CASE ReceiveAnswer
  <2>1. losses' = losses
    BY <1>4 DEF ReceiveAnswer, Received, spent
  <2> QED
    BY <1>4, <2>1, ReceiveAnswerInOrder DEF InOrder
<1>5. CASE SaveState
  <2>1. UNCHANGED <<log, wire, asked, mem, losses>> /\ disk' \in {mem, disk}
    BY <1>5 DEF SaveState, WriteStateFile, server, memory, past, spent
  <2> QED
    BY <1>1, <2>1, SavedInOrder DEF InOrder
<1>6. CASE ReadStateFile
  <2>1. UNCHANGED <<log, wire, asked, disk, losses>> /\ mem' \in {mem, disk}
    BY <1>6 DEF ReadStateFile, server, saved, past, spent
  <2>2. phase # "running"
    BY <1>6 DEF ReadStateFile
  <2> QED
    BY <2>1, <2>2, SavedInOrder DEF InOrder
<1>7. CASE Restarted
  <2>1. wire' = <<>> /\ asked' = {} /\ phase' # "running"
    BY <1>7 DEF Restarted
  <2> QED
    BY <2>1 DEF InOrder, AnsweredOnce, AnsweredLast, OnWire
<1>8. CASE \E form \in Form : ServerIssues(form)
  <2>1. UNCHANGED <<mem, losses>>
    BY <1>8 DEF ServerIssues, memory, spent
  <2> QED
    BY <1>0, <1>1, <1>8, <2>1, ServerIssuesInOrder DEF InOrder
<1>9. CASE \E i \in again : ServerRepeats(i)
  <2>1. PICK i \in again : ServerRepeats(i)
    BY <1>9
  <2>2. UNCHANGED <<log, asked, mem, disk, losses>> /\ wire' = Append(wire, Push(i))
    BY <2>1 DEF ServerRepeats, memory, saved, spent
  <2>3. Push(i) \in Parcel' /\ Push(i).is # "answer"
    BY <2>2, Basics DEF Push, Parcel
  <2>4. \A n : StateAt(n)' = StateAt(n)
    BY <2>2 DEF StateAt, Count, UpTo
  <2>5. log' \in Seq(Form)
    BY <2>2, Basics
  <2> QED
    BY <1>1, <2>2, <2>3, <2>4, <2>5, PushInOrder DEF InOrder
<1>10. CASE ServerTooLong
  <2>1. UNCHANGED <<log, asked, mem, disk, losses>> /\ wire' = Append(wire, TooLong)
    BY <1>10 DEF ServerTooLong, server, memory, saved, spent
  <2>2. TooLong \in Parcel' /\ TooLong.is # "answer"
    BY DEF TooLong, Parcel
  <2>3. \A n : StateAt(n)' = StateAt(n)
    BY <2>1 DEF StateAt, Count, UpTo
  <2>4. log' \in Seq(Form)
    BY <2>1, Basics
  <2> QED
    BY <1>1, <2>1, <2>2, <2>3, <2>4, PushInOrder DEF InOrder
<1>11. CASE ServerAnswers
  <2>1. UNCHANGED <<mem, losses>>
    BY <1>11 DEF ServerAnswers, memory, spent
  <2> QED
    BY <1>1, <1>11, <2>1, ServerAnswersInOrder DEF InOrder
<1>12. CASE LoseConnection
  <2>1. UNCHANGED mem /\ losses' = losses + 1
    BY <1>12 DEF LoseConnection, memory
  <2>2. losses' # 0
    BY <1>0, <2>1
  <2> QED
    BY <1>1, <2>1, <2>2 DEF InOrder
<1>13. CASE UNCHANGED vars
  <2>1. UNCHANGED <<log, wire, asked, mem, disk, losses>>
    BY <1>13 DEF vars, server, memory, saved, spent
  <2> QED
    BY <1>1, <2>1, SavedInOrder DEF InOrder
<1> QED
  BY <1>2, <1>3, <1>4, <1>5, <1>6, <1>7, <1>8, <1>9, <1>10, <1>11, <1>12, <1>13
     DEF Next, Client, World, Restart, CrashInDifference
=============================================================================
