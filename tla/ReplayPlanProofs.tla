-------------------------- MODULE ReplayPlanProofs --------------------------
(***************************************************************************)
(* The plan of a replay is right for every trace, every number of workers   *)
(* and every size of the hints: the proofs of the invariants of ReplayPlan. *)
(*                                                                          *)
(* The first part is about its merge sort: for every sequence of records of *)
(* any length the result is those records in order of time, and records     *)
(* with equal times stay in the order they had.                             *)
(*                                                                          *)
(* PlanIInv is the inductive invariant.  Its parts follow the records       *)
(* through the planning: into the containers, from there to the workers'    *)
(* maps, through the sort, and into the hints.                              *)
(***************************************************************************)
EXTENDS ReplayPlan, NatLemmas, FiniteSetTheorems, SequenceTheorems

----------------------------------------------------------------------------
(* The merge sort *)

\* A function that never decreases from one argument to the next never
\* decreases.
LEMMA StepwiseMonotone ==
    ASSUME NEW n \in Nat, NEW f \in [0 .. n -> Int],
           \A k \in 1 .. n : f[k - 1] <= f[k]
    PROVE  \A k, l \in 0 .. n : k <= l => f[k] <= f[l]
<1> SUFFICES ASSUME NEW k \in 0 .. n, NEW l \in 0 .. n, k <= l, ~ (f[k] <= f[l])
             PROVE  FALSE
  OBVIOUS
<1> DEFINE Bad == {m \in 0 .. n : k <= m /\ ~ (f[k] <= f[m])}
<1>1. Bad \in SUBSET Nat
  OBVIOUS
<1>2. l \in Bad
  OBVIOUS
<1>3. PICK m \in Bad : \A j \in Bad : m <= j
  <2> HIDE DEF Bad
  <2> QED
    BY <1>1, <1>2, LeastNatural
<1>4. m # k /\ m \in 0 .. n /\ m > k
  BY <1>3
<1>5. m - 1 \in 0 .. n /\ k <= m - 1 /\ m - 1 \notin Bad
  BY <1>3, <1>4
<1> QED
  BY <1>3, <1>4, <1>5

----------------------------------------------------------------------------
(* The merge. *)

\* The recursion of _merge_array_by_ts, as an equation for the function it
\* defines.
Taking(left, right, taken) ==
    taken = [k \in 0 .. Len(left) + Len(right) |->
                IF k = 0 THEN 0
                ELSE LET i == taken[k - 1] + 1
                         m == k - taken[k - 1]
                     IN  IF /\ i <= Len(left)
                            /\ m > Len(right) \/ infos[left[i]].ts <= infos[right[m]].ts
                         THEN i ELSE i - 1]

\* The merge of two arrays, of which taken[k] records of the first k are from
\* the left one.
Merged(left, right, taken) ==
    [k \in 1 .. Len(left) + Len(right) |->
        IF taken[k] > taken[k - 1] THEN left[taken[k]] ELSE right[k - taken[k]]]

\* A recursion over numbers up to n has a solution: one that is right up to
\* k can be made right up to k + 1.
LEMMA TakingExists ==
    ASSUME NEW left, NEW right, Len(left) \in Nat, Len(right) \in Nat
    PROVE  \E taken : Taking(left, right, taken)
<1> DEFINE n == Len(left) + Len(right)
           Next1(f, k) == IF k = 0 THEN 0
                ELSE LET i == f[k - 1] + 1
                         m == k - f[k - 1]
                     IN  IF /\ i <= Len(left)
                            /\ m > Len(right) \/ infos[left[i]].ts <= infos[right[m]].ts
                         THEN i ELSE i - 1
           RightUpTo(f, k) == \A j \in 0 .. n : j <= k => f[j] = Next1(f, j)
           Bad == {k \in Nat : ~ \E f : f = [j \in 0 .. n |-> f[j]] /\ RightUpTo(f, k)}
<1>1. SUFFICES Bad = {}
  <2>1. n \in Nat
    OBVIOUS
  <2>0. n \notin Bad
    BY <1>1
  <2>2. PICK f : f = [j \in 0 .. n |-> f[j]] /\ RightUpTo(f, n)
    BY <2>0, <2>1
  <2>3. f = [k \in 0 .. n |-> Next1(f, k)]
    <3>1. \A k \in 0 .. n : f[k] = Next1(f, k)
      <4> HIDE DEF Next1
      <4> QED
        BY <2>1, <2>2
    <3> HIDE DEF Next1
    <3> QED
      BY <2>2, <3>1, Zenon
  <2> QED
    BY <2>3, Zenon DEF Taking
<1>2. ASSUME Bad # {}
      PROVE  FALSE
  <2>1. PICK k \in Bad : \A j \in Bad : k <= j
    <3>1. Bad \in SUBSET Nat
      OBVIOUS
    <3> HIDE DEF Bad
    <3> QED
      BY <1>2, <3>1, LeastNatural
  <2>2. CASE k = 0
    <3> DEFINE f == [j \in 0 .. n |-> 0]
    <3>1. f = [j \in 0 .. n |-> f[j]] /\ RightUpTo(f, 0)
      OBVIOUS
    <3> QED
      BY <2>1, <2>2, <3>1
  <2>3. CASE k > 0
    <3>1. k - 1 \in Nat /\ k - 1 \notin Bad
      BY <2>1, <2>3
    <3>2. PICK f : f = [j \in 0 .. n |-> f[j]] /\ RightUpTo(f, k - 1)
      BY <3>1
    <3> DEFINE g == [j \in 0 .. n |-> IF j < k THEN f[j] ELSE Next1(f, j)]
    <3>3. g = [j \in 0 .. n |-> g[j]]
      OBVIOUS
    <3>4. ASSUME NEW j \in 0 .. n, j <= k
          PROVE  g[j] = Next1(g, j)
      <4>1. j # 0 => j - 1 \in 0 .. n /\ g[j - 1] = f[j - 1]
        BY <3>4, <2>3, <2>1
      <4>2. Next1(g, j) = Next1(f, j)
        BY <4>1
      <4>3. g[j] = Next1(f, j)
        <5>1. CASE j < k
          <6>1. j <= k - 1 /\ g[j] = f[j]
            BY <5>1, <2>1
          <6> HIDE DEF g, Next1
          <6> QED
            BY <6>1, <3>2
        <5>2. CASE j = k
          BY <5>2
        <5> QED
          BY <5>1, <5>2, <3>4, <2>1
      <4> QED
        BY <4>2, <4>3
    <3> HIDE DEF g
    <3>5. RightUpTo(g, k)
      BY <3>4
    <3> QED
      BY <3>3, <3>5, <2>1
  <2> QED
    BY <2>1, <2>2, <2>3
<1> QED
  BY <1>2

\* A merge is what some `taken` that follows the recursion makes of the halves.
LEMMA MergeUnfolds ==
    ASSUME NEW left, NEW right, Len(left) \in Nat, Len(right) \in Nat
    PROVE  \E taken : /\ Taking(left, right, taken)
                      /\ _merge_array_by_ts(left, right) = Merged(left, right, taken)
<1> DEFINE taken == CHOOSE f : Taking(left, right, f)
<1>1. Taking(left, right, taken)
  BY TakingExists, Zenon
<1>2. _merge_array_by_ts(left, right) = Merged(left, right, taken)
  BY Zenon DEF _merge_array_by_ts, Taking, Merged
<1> QED
  BY <1>1, <1>2

\* Whether the k-th record of a merge is from the left.
TakesLeft(left, right, taken, k) ==
    /\ taken[k - 1] + 1 <= Len(left)
    /\ \/ k - taken[k - 1] > Len(right)
       \/ infos[left[taken[k - 1] + 1]].ts <= infos[right[k - taken[k - 1]]].ts

\* Of the first k records of a merge no more are from a side than it has, and
\* one of the two counts goes up with every record.
LEMMA TakenInRange ==
    ASSUME NEW left, NEW right, NEW taken, Len(left) \in Nat, Len(right) \in Nat,
           Taking(left, right, taken)
    PROVE  /\ \A k \in 0 .. Len(left) + Len(right) :
                /\ taken[k] \in Nat /\ taken[k] <= Len(left)
                /\ k - taken[k] \in Nat /\ k - taken[k] <= Len(right)
           /\ \A k \in 1 .. Len(left) + Len(right) :
                taken[k] = IF TakesLeft(left, right, taken, k)
                           THEN taken[k - 1] + 1 ELSE taken[k - 1]
           /\ taken = [k \in 0 .. Len(left) + Len(right) |-> taken[k]]
<1> DEFINE n == Len(left) + Len(right)
           InRange(k) == /\ taken[k] \in Nat /\ taken[k] <= Len(left)
                         /\ k - taken[k] \in Nat /\ k - taken[k] <= Len(right)
           Bad == {k \in 0 .. n : ~ InRange(k)}
<1>1. taken[0] = 0
  BY DEF Taking
<1>2. ASSUME NEW k \in 1 .. n
      PROVE  taken[k] = IF TakesLeft(left, right, taken, k)
                        THEN taken[k - 1] + 1 ELSE (taken[k - 1] + 1) - 1
  <2>1. k \in 0 .. n /\ k # 0
    OBVIOUS
  <2> DEFINE Next1(j) == LET i == taken[j - 1] + 1
                              m == j - taken[j - 1]
                          IN  IF /\ i <= Len(left)
                                 /\ m > Len(right) \/ infos[left[i]].ts <= infos[right[m]].ts
                              THEN i ELSE i - 1
  <2>2. taken = [j \in 0 .. n |-> IF j = 0 THEN 0 ELSE Next1(j)]
    BY Zenon DEF Taking
  <2>3. taken[k] = Next1(k)
    <3> HIDE DEF Next1, n
    <3> QED
      BY <2>1, <2>2
  <2>4. CASE TakesLeft(left, right, taken, k)
    <3>1. Next1(k) = taken[k - 1] + 1
      BY <2>4, Zenon DEF TakesLeft
    <3> QED
      BY <2>3, <2>4, <3>1, Zenon
  <2>5. CASE ~ TakesLeft(left, right, taken, k)
    <3>1. Next1(k) = (taken[k - 1] + 1) - 1
      BY <2>5, Zenon DEF TakesLeft
    <3> QED
      BY <2>3, <2>5, <3>1, Zenon
  <2> QED
    BY <2>4, <2>5
<1>3. ASSUME NEW k \in 1 .. n, InRange(k - 1)
      PROVE  InRange(k)
  <2>1. CASE TakesLeft(left, right, taken, k)
    <3>1. taken[k] = taken[k - 1] + 1
      BY <1>2, <2>1
    <3>2. taken[k - 1] + 1 <= Len(left)
      BY <2>1 DEF TakesLeft
    <3> QED
      BY <1>3, <3>1, <3>2
  <2>2. CASE ~ TakesLeft(left, right, taken, k)
    <3>1. taken[k] = taken[k - 1]
      BY <1>2, <1>3, <2>2
    <3>2. taken[k - 1] + 1 > Len(left) \/ k - taken[k - 1] <= Len(right)
      BY <1>3, <2>2 DEF TakesLeft
    <3> QED
      BY <1>3, <3>1, <3>2
  <2> QED
    BY <2>1, <2>2
<1>4. Bad = {}
  <2>1. SUFFICES ASSUME Bad # {}
                 PROVE  FALSE
    OBVIOUS
  <2>2. Bad \in SUBSET Nat
    OBVIOUS
  <2>3. PICK k \in Bad : \A j \in Bad : k <= j
    <3> HIDE DEF Bad
    <3> QED
      BY <2>1, <2>2, LeastNatural
  <2>4. InRange(0)
    BY <1>1
  <2>5. k \in 1 .. n /\ k - 1 \in 0 .. n /\ k - 1 \notin Bad
    <3> HIDE DEF InRange
    <3> QED
      BY <2>3, <2>4
  <2> QED
    BY <1>3, <2>3, <2>5
<1>5. ASSUME NEW k \in 0 .. n
      PROVE  InRange(k)
  BY <1>4
<1>6. ASSUME NEW k \in 1 .. n
      PROVE  taken[k] = IF TakesLeft(left, right, taken, k)
                        THEN taken[k - 1] + 1 ELSE taken[k - 1]
  <2>1. InRange(k - 1)
    BY <1>5
  <2> QED
    BY <1>2, <2>1
<1>7. taken = [k \in 0 .. n |-> taken[k]]
  BY Zenon DEF Taking
<1> HIDE DEF Bad
<1> QED
  BY <1>5, <1>6, <1>7, Zenon

----------------------------------------------------------------------------
(* The sort. *)

\* Record x of an array comes before record y in a stable sort by time.
Earlier(records, x, y) ==
    \/ infos[records[x]].ts < infos[records[y]].ts
    \/ infos[records[x]].ts = infos[records[y]].ts /\ x < y

\* s holds the records begin .. end of an array, each once, and in order.
StableSort(s, records, begin, end) ==
    \E p \in [1 .. end - begin + 1 -> begin .. end] :
        /\ s = [k \in 1 .. end - begin + 1 |-> records[p[k]]]
        /\ \A k, l \in 1 .. end - begin + 1 : k < l => Earlier(records, p[k], p[l])

\* The time stamps of a sorted part never decrease.
LEMMA SortedTimes ==
    ASSUME NEW records, NEW n \in Nat, NEW S \in SUBSET Nat, NEW p \in [1 .. n -> S],
           \A x \in S : infos[records[x]].ts \in Nat,
           \A k, l \in 1 .. n : k < l => Earlier(records, p[k], p[l])
    PROVE  \A k, l \in 1 .. n : k <= l => infos[records[p[k]]].ts <= infos[records[p[l]]].ts
<1> SUFFICES ASSUME NEW k \in 1 .. n, NEW l \in 1 .. n, k <= l
             PROVE  infos[records[p[k]]].ts <= infos[records[p[l]]].ts
  OBVIOUS
<1>1. infos[records[p[k]]].ts \in Nat /\ infos[records[p[l]]].ts \in Nat
  OBVIOUS
<1>2. CASE k = l
  BY <1>1, <1>2
<1>3. CASE k < l
  <2>1. Earlier(records, p[k], p[l])
    BY <1>3
  <2> QED
    BY <1>1, <2>1 DEF Earlier
<1> QED
  BY <1>2, <1>3

\* The next record of the right side, when one after it is still to come.
LEMMA Counts ==
    ASSUME NEW k \in Nat, NEW before \in Nat, before <= k - 1,
           NEW nr \in Nat, NEW m \in 1 .. nr, m > k - (before + 1)
    PROVE  k - before \in 1 .. nr /\ k - before <= m /\ ~ (k - before > nr)
OBVIOUS

\* Two neighbouring parts of an array, sorted, are merged to their sort.
LEMMA MergeSorts ==
    ASSUME NEW records, NEW left, NEW right,
           NEW b \in Nat, NEW mid \in Nat, NEW e \in Nat, b <= mid, mid < e,
           \A x \in b .. e : infos[records[x]].ts \in Nat,
           StableSort(left, records, b, mid),
           StableSort(right, records, mid + 1, e)
    PROVE  StableSort(_merge_array_by_ts(left, right), records, b, e)
<1> DEFINE nl == mid - b + 1
           nr == e - mid
           n == e - b + 1
           Time(x) == infos[records[x]].ts
<1>1. PICK p1 \in [1 .. nl -> b .. mid] :
        /\ left = [k \in 1 .. nl |-> records[p1[k]]]
        /\ \A k, l \in 1 .. nl : k < l => Earlier(records, p1[k], p1[l])
  BY DEF StableSort
<1>2. PICK p2 \in [1 .. nr -> mid + 1 .. e] :
        /\ right = [k \in 1 .. nr |-> records[p2[k]]]
        /\ \A k, l \in 1 .. nr : k < l => Earlier(records, p2[k], p2[l])
  <2>1. e - (mid + 1) + 1 = nr
    OBVIOUS
  <2> QED
    BY <2>1 DEF StableSort
<1>3. Len(left) = nl /\ Len(right) = nr /\ nl \in Nat /\ nr \in Nat /\ nl + nr = n /\ n \in Nat
  <2>1. nl \in Nat /\ nr \in Nat /\ nl + nr = n /\ n \in Nat
    OBVIOUS
  <2> HIDE DEF nl, nr, n
  <2>2. DOMAIN left = 1 .. nl
    BY <1>1
  <2>3. DOMAIN right = 1 .. nr
    BY <1>2
  <2>4. left = [k \in 1 .. nl |-> left[k]] /\ right = [k \in 1 .. nr |-> right[k]]
    BY <1>1, <1>2
  <2>5. Len(left) = nl
    BY <2>1, <2>2, <2>4
  <2>6. Len(right) = nr
    BY <2>1, <2>3, <2>4
  <2> QED
    BY <2>1, <2>5, <2>6
<1>4. PICK t : /\ Taking(left, right, t)
               /\ _merge_array_by_ts(left, right) = Merged(left, right, t)
  BY <1>3, MergeUnfolds
<1> DEFINE FromLeft(k) == TakesLeft(left, right, t, k)
<1>5. /\ \A k \in 0 .. n : /\ t[k] \in Nat /\ t[k] <= nl
                           /\ k - t[k] \in Nat /\ k - t[k] <= nr
      /\ \A k \in 1 .. n : t[k] = IF FromLeft(k) THEN t[k - 1] + 1 ELSE t[k - 1]
      /\ t = [k \in 0 .. n |-> t[k]]
  <2> HIDE DEF nl, nr, n
  <2>1. Len(left) \in Nat /\ Len(right) \in Nat /\ Len(left) + Len(right) = n
    BY <1>3
  <2>2. /\ \A k \in 0 .. n : /\ t[k] \in Nat /\ t[k] <= Len(left)
                            /\ k - t[k] \in Nat /\ k - t[k] <= Len(right)
        /\ \A k \in 1 .. n : t[k] = IF FromLeft(k) THEN t[k - 1] + 1 ELSE t[k - 1]
        /\ t = [k \in 0 .. n |-> t[k]]
    <3>1. Taking(left, right, t)
      BY <1>4
    <3>2. /\ \A k \in 0 .. Len(left) + Len(right) :
                /\ t[k] \in Nat /\ t[k] <= Len(left)
                /\ k - t[k] \in Nat /\ k - t[k] <= Len(right)
          /\ \A k \in 1 .. Len(left) + Len(right) :
                t[k] = IF TakesLeft(left, right, t, k) THEN t[k - 1] + 1 ELSE t[k - 1]
          /\ t = [k \in 0 .. Len(left) + Len(right) |-> t[k]]
      BY <2>1, <3>1, TakenInRange
    <3> QED
      BY <2>1, <3>2, Zenon
  <2> HIDE DEF FromLeft
  <2> QED
    BY <1>3, <2>2
<1>6. /\ \A x \in b .. mid : Time(x) \in Nat /\ x \in Nat
      /\ \A x \in mid + 1 .. e : Time(x) \in Nat /\ x \in Nat
      /\ \A x \in b .. mid, y \in mid + 1 .. e : x < y
      /\ \A x : x \in b .. mid \/ x \in mid + 1 .. e => x \in b .. e
  OBVIOUS
<1>7. \A k, l \in 1 .. nl : k <= l => Time(p1[k]) <= Time(p1[l])
  <2>1. b .. mid \in SUBSET Nat
    OBVIOUS
  <2> HIDE DEF nl, nr, n
  <2> QED
    BY <1>1, <1>3, <1>6, <2>1, SortedTimes
<1>8. \A k, l \in 1 .. nr : k <= l => Time(p2[k]) <= Time(p2[l])
  <2>1. mid + 1 .. e \in SUBSET Nat
    OBVIOUS
  <2> HIDE DEF nl, nr, n
  <2> QED
    BY <1>2, <1>3, <1>6, <2>1, SortedTimes
<1> HIDE DEF nl, nr, n
<1>9. ASSUME NEW k \in 1 .. n
      PROVE  /\ k \in Nat /\ k \in 0 .. n /\ k - 1 \in 0 .. n
             /\ t[k] \in Nat /\ t[k] <= nl /\ t[k - 1] \in Nat /\ t[k - 1] <= nl
             /\ k - t[k] <= nr /\ k - 1 - t[k - 1] <= nr
             /\ t[k] <= k /\ t[k - 1] <= k - 1
             /\ FromLeft(k) => /\ t[k] = t[k - 1] + 1 /\ t[k] \in 1 .. nl
                               /\ k - t[k] = (k - 1) - t[k - 1]
             /\ ~ FromLeft(k) => /\ t[k] = t[k - 1] /\ k - t[k] \in 1 .. nr
                                 /\ k - t[k] = k - t[k - 1]
                                 /\ k - t[k] = (k - 1) - t[k - 1] + 1
  <2>1. k \in Nat /\ k \in 0 .. n /\ k - 1 \in 0 .. n
    BY <1>3
  <2>2. t[k] = IF FromLeft(k) THEN t[k - 1] + 1 ELSE t[k - 1]
    BY <1>5
  <2>3. /\ t[k] \in Nat /\ t[k] <= nl /\ t[k - 1] \in Nat /\ t[k - 1] <= nl
        /\ k - t[k] \in Nat /\ k - t[k] <= nr
        /\ (k - 1) - t[k - 1] \in Nat /\ (k - 1) - t[k - 1] <= nr
    BY <1>5, <2>1
  <2>4. /\ FromLeft(k) => t[k] = t[k - 1] + 1
        /\ ~ FromLeft(k) => t[k] = t[k - 1]
    BY <2>2, Zenon
  <2> HIDE DEF FromLeft
  <2>5. PICK a, z : a = t[k] /\ z = t[k - 1]
    OBVIOUS
  <2>6. /\ a \in Nat /\ a <= nl /\ z \in Nat /\ z <= nl /\ k - a \in Nat /\ k - a <= nr
        /\ (k - 1) - z \in Nat /\ (k - 1) - z <= nr /\ nl \in Nat /\ nr \in Nat
    BY <1>3, <2>3, <2>5, Zenon
  <2>7. /\ a = z + 1 => a \in 1 .. nl /\ k - a = (k - 1) - z
        /\ a = z => /\ k - a \in 1 .. nr /\ k - a = k - z /\ k - a = (k - 1) - z + 1
        /\ a <= k /\ z <= k - 1
    BY <2>1, <2>6
  <2> QED
    BY <2>1, <2>3, <2>4, <2>5, <2>7, Zenon
<1>10. \A k, l \in 0 .. n : k <= l => t[k] <= t[l] /\ k - t[k] <= l - t[l]
  <2> DEFINE u == [k \in 0 .. n |-> k - t[k]]
  <2>1. t \in [0 .. n -> Int] /\ u \in [0 .. n -> Int]
    BY <1>3, <1>5
  <2>2. ASSUME NEW k \in 1 .. n
        PROVE  t[k - 1] <= t[k] /\ u[k - 1] <= u[k]
    <3> HIDE DEF FromLeft
    <3>1. u[k - 1] = (k - 1) - t[k - 1] /\ u[k] = k - t[k]
      BY <1>9
    <3> HIDE DEF u
    <3>2. /\ t[k - 1] \in Nat /\ k \in Nat
          /\ t[k] = t[k - 1] \/ t[k] = t[k - 1] + 1
      BY <1>9, Zenon
    <3> QED
      BY <3>1, <3>2
  <2>3. \A k, l \in 0 .. n : k <= l => t[k] <= t[l]
    BY <1>3, <2>1, <2>2, StepwiseMonotone
  <2>4. \A k, l \in 0 .. n : k <= l => u[k] <= u[l]
    <3> HIDE DEF u
    <3> QED
      BY <1>3, <2>1, <2>2, StepwiseMonotone
  <2> QED
    BY <2>3, <2>4
<1> DEFINE p == [k \in 1 .. n |-> IF t[k] > t[k - 1] THEN p1[t[k]] ELSE p2[k - t[k]]]
\* A record from the left is not later than those of the right still to come.
<1>11. ASSUME NEW k \in 1 .. n, FromLeft(k)
       PROVE  /\ t[k] = t[k - 1] + 1 /\ t[k] \in 1 .. nl
              /\ p[k] = p1[t[k]] /\ p[k] \in b .. mid
              /\ \A m \in 1 .. nr : m > k - t[k] => Time(p[k]) <= Time(p2[m])
  <2>1. t[k] = t[k - 1] + 1
    BY <1>9, <1>11, Zenon
  <2>2. t[k] \in 1 .. nl /\ k - t[k] = (k - 1) - t[k - 1]
    BY <1>9, <1>11, Zenon
  <2>3. p[k] = p1[t[k]]
    <3> HIDE DEF FromLeft
    <3> QED
      BY <1>9, <2>1
  <2>4. p[k] \in b .. mid
    BY <1>1, <2>2, <2>3
  <2>5. ASSUME NEW m \in 1 .. nr, m > k - t[k]
        PROVE  Time(p[k]) <= Time(p2[m])
    <3>1. k - t[k - 1] \in 1 .. nr /\ k - t[k - 1] <= m /\ ~ (k - t[k - 1] > nr)
      <4>1. k \in Nat /\ t[k - 1] \in Nat /\ t[k - 1] <= k - 1
        BY <1>9, Zenon
      <4> QED
        BY <1>3, <2>1, <2>5, <4>1, Counts
    <3>2. infos[left[t[k - 1] + 1]].ts <= infos[right[k - t[k - 1]]].ts
      BY <1>3, <1>11, <3>1, Zenon DEF TakesLeft
    <3>3. Time(p[k]) <= Time(p2[k - t[k - 1]])
      <4>1. left[t[k - 1] + 1] = records[p1[t[k]]]
        BY <1>1, <2>1, <2>2
      <4>2. right[k - t[k - 1]] = records[p2[k - t[k - 1]]]
        BY <1>2, <3>1
      <4> QED
        BY <2>3, <3>2, <4>1, <4>2, Zenon
    <3>4. Time(p2[k - t[k - 1]]) <= Time(p2[m])
      BY <1>8, <3>1, Zenon
    <3>5. Time(p[k]) \in Nat /\ Time(p2[k - t[k - 1]]) \in Nat /\ Time(p2[m]) \in Nat
      BY <1>2, <1>6, <2>4, <3>1
    <3> HIDE DEF Time, p
    <3> QED
      BY <3>3, <3>4, <3>5
  <2> HIDE DEF p
  <2> QED
    BY <2>1, <2>2, <2>3, <2>4, <2>5
\* A record from the right is earlier than those of the left still to come.
<1>12. ASSUME NEW k \in 1 .. n, ~ FromLeft(k)
       PROVE  /\ t[k] = t[k - 1] /\ k - t[k] \in 1 .. nr
              /\ p[k] = p2[k - t[k]] /\ p[k] \in mid + 1 .. e
              /\ \A m \in 1 .. nl : m > t[k] => Time(p[k]) < Time(p1[m])
  <2>1. t[k] = t[k - 1]
    BY <1>9, <1>12, Zenon
  <2>2. k - t[k] \in 1 .. nr
    BY <1>9, <1>12, Zenon
  <2>3. p[k] = p2[k - t[k]]
    <3> HIDE DEF FromLeft
    <3> QED
      BY <1>9, <2>1
  <2>4. p[k] \in mid + 1 .. e
    BY <1>2, <2>2, <2>3
  <2>5. ASSUME NEW m \in 1 .. nl, m > t[k]
        PROVE  Time(p[k]) < Time(p1[m])
    <3>1. t[k - 1] + 1 \in 1 .. nl /\ t[k - 1] + 1 <= m /\ t[k - 1] + 1 <= nl
      <4>1. t[k] \in Nat
        BY <1>9, Zenon
      <4>2. t[k] + 1 <= m /\ m <= nl /\ t[k] + 1 \in 1 .. nl
        BY <1>3, <2>5, <4>1
      <4> QED
        BY <2>1, <4>2
    <3>2. ~ (infos[left[t[k - 1] + 1]].ts <= infos[right[k - t[k - 1]]].ts)
      BY <1>3, <1>12, <3>1, Zenon DEF TakesLeft
    <3>3. ~ (Time(p1[t[k - 1] + 1]) <= Time(p[k]))
      <4>1. left[t[k - 1] + 1] = records[p1[t[k - 1] + 1]]
        BY <1>1, <3>1
      <4>2. right[k - t[k - 1]] = records[p2[k - t[k]]]
        BY <1>2, <2>1, <2>2
      <4> QED
        BY <2>3, <3>2, <4>1, <4>2, Zenon
    <3>4. Time(p1[t[k - 1] + 1]) <= Time(p1[m])
      BY <1>7, <3>1, Zenon
    <3>5. Time(p[k]) \in Nat /\ Time(p1[t[k - 1] + 1]) \in Nat /\ Time(p1[m]) \in Nat
      BY <1>1, <1>6, <2>4, <3>1
    <3> HIDE DEF Time, p
    <3> QED
      BY <3>3, <3>4, <3>5
  <2> HIDE DEF p
  <2> QED
    BY <2>1, <2>2, <2>3, <2>4, <2>5
<1> HIDE DEF FromLeft, p
<1>13. ASSUME NEW k \in 1 .. n, NEW l \in 1 .. n, k < l
       PROVE  Earlier(records, p[k], p[l])
  <2>1. t[k] <= t[l - 1] /\ k - t[k] <= l - 1 - t[l - 1]
    <3>1. k \in 0 .. n /\ l - 1 \in 0 .. n /\ k \in Nat /\ l \in Nat
      BY <1>9, Zenon
    <3>2. k <= l - 1
      BY <1>13, <3>1
    <3> QED
      BY <1>10, <3>1, <3>2, Zenon
  <2>2. t[k] \in Nat /\ t[l] \in Nat /\ t[l - 1] \in Nat /\ k \in Nat /\ l \in Nat
    BY <1>9
  <2>3. CASE FromLeft(k) /\ FromLeft(l)
    <3>1. t[k] < t[l] /\ t[k] \in 1 .. nl /\ t[l] \in 1 .. nl
      <4>1. t[k] \in 1 .. nl /\ t[l] \in 1 .. nl /\ t[l] = t[l - 1] + 1
        BY <1>11, <2>3, Zenon
      <4>2. t[k] <= t[l - 1]
        BY <2>1
      <4>3. t[k] < t[l]
        BY <2>2, <4>1, <4>2
      <4> QED
        BY <4>1, <4>3
    <3> QED
      BY <1>1, <1>11, <2>3, <3>1, Zenon
  <2>4. CASE ~ FromLeft(k) /\ ~ FromLeft(l)
    <3>1. k - t[k] < l - t[l] /\ k - t[k] \in 1 .. nr /\ l - t[l] \in 1 .. nr
      <4>1. k - t[k] \in 1 .. nr /\ l - t[l] \in 1 .. nr /\ t[l] = t[l - 1]
        BY <1>12, <2>4, Zenon
      <4>2. k - t[k] <= l - 1 - t[l]
        BY <2>1, <4>1
      <4>3. k - t[k] < l - t[l]
        BY <2>2, <4>2
      <4> QED
        BY <4>1, <4>3
    <3> QED
      BY <1>2, <1>12, <2>4, <3>1, Zenon
  <2>5. CASE FromLeft(k) /\ ~ FromLeft(l)
    <3>1. l - t[l] > k - t[k] /\ l - t[l] \in 1 .. nr
      <4>1. l - t[l] \in 1 .. nr /\ t[l] = t[l - 1]
        BY <1>12, <2>5, Zenon
      <4>2. k - t[k] <= l - 1 - t[l]
        BY <2>1, <4>1
      <4>3. l - t[l] > k - t[k]
        BY <2>2, <4>2
      <4> QED
        BY <4>1, <4>3
    <3>2. Time(p[k]) <= Time(p[l])
      BY <1>11, <1>12, <2>5, <3>1, Zenon
    <3>3. p[k] \in b .. mid /\ p[l] \in mid + 1 .. e
      BY <1>11, <1>12, <2>5
    <3>4. Time(p[k]) \in Nat /\ Time(p[l]) \in Nat /\ p[k] < p[l]
      BY <1>6, <3>3
    <3> QED
      BY <3>2, <3>4 DEF Earlier
  <2>6. CASE ~ FromLeft(k) /\ FromLeft(l)
    <3>1. t[l] > t[k] /\ t[l] \in 1 .. nl
      BY <1>11, <2>1, <2>2, <2>6
    <3>2. Time(p[k]) < Time(p[l])
      BY <1>11, <1>12, <2>6, <3>1, Zenon
    <3> QED
      BY <3>2 DEF Earlier
  <2> QED
    BY <2>3, <2>4, <2>5, <2>6
<1>14. p \in [1 .. n -> b .. e]
  <2>1. ASSUME NEW k \in 1 .. n
        PROVE  p[k] \in b .. e
    BY <1>6, <1>11, <1>12
  <2> QED
    BY <2>1 DEF p
<1>15. _merge_array_by_ts(left, right) = [k \in 1 .. n |-> records[p[k]]]
  <2>1. ASSUME NEW k \in 1 .. n
        PROVE  (IF t[k] > t[k - 1] THEN left[t[k]] ELSE right[k - t[k]]) = records[p[k]]
    <3>1. CASE FromLeft(k)
      <4>1. t[k] > t[k - 1]
        BY <1>9, <1>11, <3>1
      <4>2. left[t[k]] = records[p1[t[k]]]
        BY <1>1, <1>11, <3>1
      <4> QED
        BY <1>11, <3>1, <4>1, <4>2
    <3>2. CASE ~ FromLeft(k)
      <4>1. ~ (t[k] > t[k - 1])
        BY <1>9, <1>12, <3>2
      <4>2. right[k - t[k]] = records[p2[k - t[k]]]
        BY <1>2, <1>12, <3>2
      <4> QED
        BY <1>12, <3>2, <4>1, <4>2
    <3> QED
      BY <3>1, <3>2
  <2>2. Merged(left, right, t)
            = [k \in 1 .. n |-> IF t[k] > t[k - 1] THEN left[t[k]] ELSE right[k - t[k]]]
    BY <1>3 DEF Merged
  <2> QED
    BY <1>4, <2>1, <2>2
<1> QED
  BY <1>13, <1>14, <1>15 DEF StableSort, n

\* The middle of a part of an array, as the code computes it.
LEMMA MiddleOf ==
    ASSUME NEW b \in Nat \ {0}, NEW e \in Nat, b < e
    PROVE  LET mid == (b - 1 + e - 1) \div 2 + 1
           IN  mid \in b .. e - 1
<1> DEFINE q == (b - 1 + e - 1) \div 2
<1>1. q \in Int /\ 2 * q <= b - 1 + e - 1 /\ b - 1 + e - 1 < 2 * q + 2
  OBVIOUS
<1> HIDE DEF q
<1>2. q + 1 \in b .. e - 1
  BY <1>1
<1> QED
  BY <1>2 DEF q

\* What a call for the part range of an array leaves there.
SortStep(records, sorted, range) ==
    LET begin == range[1]
        end == range[2]
        mid == (begin - 1 + end - 1) \div 2 + 1
    IN  IF begin < end
        THEN _merge_array_by_ts(sorted[<<begin, mid>>], sorted[<<mid + 1, end>>])
        ELSE <<records[begin]>>

\* The recursion of _trace_infomap_msort_by_ts, as an equation for the
\* function it defines.
Sorting(records, sorted) ==
    sorted = [range \in (DOMAIN records) \X (DOMAIN records) |->
                SortStep(records, sorted, range)]

\* The recursion has a solution: one that is right for the parts up to a length
\* can be made right for those that are longer by one.
LEMMA SortingExists ==
    ASSUME NEW records, NEW n \in Nat, DOMAIN records = 1 .. n
    PROVE  \E sorted : Sorting(records, sorted)
<1> DEFINE Parts == (DOMAIN records) \X (DOMAIN records)
           RightUpTo(f, k) == \A r \in Parts : r[2] - r[1] <= k => f[r] = SortStep(records, f, r)
           Bad == {k \in Nat : ~ \E f : f = [r \in Parts |-> f[r]] /\ RightUpTo(f, k)}
<1>0. ASSUME NEW r \in Parts
      PROVE  r[1] \in 1 .. n /\ r[2] \in 1 .. n /\ r = <<r[1], r[2]>>
  OBVIOUS
<1>1. SUFFICES Bad = {}
  <2>1. n \notin Bad
    BY <1>1
  <2>2. PICK f : f = [r \in Parts |-> f[r]] /\ RightUpTo(f, n)
    BY <2>1
  <2>3. \A r \in Parts : f[r] = SortStep(records, f, r)
    <3> SUFFICES ASSUME NEW r \in Parts
                 PROVE  f[r] = SortStep(records, f, r)
      OBVIOUS
    <3>1. r[2] - r[1] <= n
      BY <1>0
    <3> QED
      BY <2>2, <3>1, Zenon
  <2>4. f = [r \in Parts |-> SortStep(records, f, r)]
    BY <2>2, <2>3, Zenon
  <2> QED
    BY <2>4, Zenon DEF Sorting
<1> HIDE DEF Parts
<1>2. ASSUME Bad # {}
      PROVE  FALSE
  <2>1. PICK k \in Bad : \A j \in Bad : k <= j
    <3>1. Bad \in SUBSET Nat
      OBVIOUS
    <3> HIDE DEF Bad
    <3> QED
      BY <1>2, <3>1, LeastNatural
  <2>2. CASE k = 0
    <3> DEFINE f == [r \in Parts |-> <<records[r[1]]>>]
    <3>1. f = [r \in Parts |-> f[r]]
      OBVIOUS
    <3>2. ASSUME NEW r \in Parts, r[2] - r[1] <= 0
          PROVE  f[r] = SortStep(records, f, r)
      <4>1. ~ (r[1] < r[2])
        BY <1>0, <3>2
      <4>2. f[r] = <<records[r[1]]>>
        OBVIOUS
      <4> HIDE DEF f
      <4> QED
        BY <4>1, <4>2, Zenon DEF SortStep
    <3> HIDE DEF f
    <3>3. RightUpTo(f, 0)
      BY <3>2
    <3> QED
      BY <2>1, <2>2, <3>1, <3>3
  <2>3. CASE k > 0
    <3>1. k - 1 \in Nat /\ k - 1 \notin Bad
      BY <2>1, <2>3
    <3>2. PICK f : f = [r \in Parts |-> f[r]] /\ RightUpTo(f, k - 1)
      BY <3>1
    <3> DEFINE g == [r \in Parts |-> IF r[2] - r[1] < k THEN f[r] ELSE SortStep(records, f, r)]
    <3>3. g = [r \in Parts |-> g[r]]
      OBVIOUS
    <3>4. ASSUME NEW r \in Parts
          PROVE  /\ r[2] - r[1] < k => g[r] = f[r]
                 /\ ~ (r[2] - r[1] < k) => g[r] = SortStep(records, f, r)
      OBVIOUS
    <3> HIDE DEF g
    <3>5. ASSUME NEW r \in Parts, r[2] - r[1] <= k
          PROVE  g[r] = SortStep(records, g, r)
      <4> DEFINE b == r[1]
                 e == r[2]
                 mid == (b - 1 + e - 1) \div 2 + 1
      <4>1. b \in 1 .. n /\ e \in 1 .. n
        BY <1>0
      <4>2. SortStep(records, g, r) = SortStep(records, f, r)
        <5>1. CASE b < e
          <6>1. mid \in b .. e - 1
            <7> HIDE DEF b, e
            <7> QED
              BY <4>1, <5>1, MiddleOf
          <6> HIDE DEF mid, b, e
          <6>2. <<b, mid>> \in Parts /\ <<mid + 1, e>> \in Parts
            BY <4>1, <5>1, <6>1 DEF Parts
          <6>3. mid - b < k /\ e - (mid + 1) < k
            <7>1. e - b <= k
              BY <3>5 DEF b, e
            <7> QED
              BY <2>1, <4>1, <5>1, <6>1, <7>1
          <6>4. g[<<b, mid>>] = f[<<b, mid>>] /\ g[<<mid + 1, e>>] = f[<<mid + 1, e>>]
            <7>1. <<b, mid>>[1] = b /\ <<b, mid>>[2] = mid
                  /\ <<mid + 1, e>>[1] = mid + 1 /\ <<mid + 1, e>>[2] = e
              OBVIOUS
            <7> QED
              BY <3>4, <6>2, <6>3, <7>1
          <6> QED
            BY <6>4, Zenon DEF SortStep, mid, b, e
        <5>2. CASE ~ (b < e)
          BY <5>2, Zenon DEF SortStep
        <5> QED
          BY <5>1, <5>2
      <4>3. g[r] = SortStep(records, f, r)
        <5>1. CASE r[2] - r[1] < k
          <6>1. r[2] - r[1] <= k - 1
            BY <2>1, <4>1, <5>1
          <6> QED
            BY <3>2, <3>4, <5>1, <6>1, Zenon
        <5>2. CASE ~ (r[2] - r[1] < k)
          BY <3>4, <5>2
        <5> QED
          BY <5>1, <5>2
      <4> QED
        BY <4>2, <4>3
    <3>6. RightUpTo(g, k)
      BY <3>5
    <3> QED
      BY <2>1, <3>3, <3>6
  <2> QED
    BY <2>1, <2>2, <2>3
<1> QED
  BY <1>2

\* The sorted array is what some `sorted` that follows the recursion has for all of it.
LEMMA SortUnfolds ==
    ASSUME NEW records, NEW n \in Nat, DOMAIN records = 1 .. n
    PROVE  \E sorted : /\ Sorting(records, sorted)
                       /\ _trace_infomap_msort_by_ts(records) = sorted[<<1, Len(records)>>]
<1> DEFINE sorted == CHOOSE f : Sorting(records, f)
<1>1. Sorting(records, sorted)
  BY SortingExists, Zenon
<1>2. _trace_infomap_msort_by_ts(records) = sorted[<<1, Len(records)>>]
  BY Zenon DEF _trace_infomap_msort_by_ts, Sorting, SortStep
<1> QED
  BY <1>1, <1>2

\* Every part of the array is sorted: were there one that is not, a shortest
\* of them would be merged from two shorter ones that are.
LEMMA PartsAreSorted ==
    ASSUME NEW records, NEW n \in Nat, DOMAIN records = 1 .. n,
           \A x \in 1 .. n : infos[records[x]].ts \in Nat,
           NEW sorted, Sorting(records, sorted)
    PROVE  \A b, e \in 1 .. n : b <= e => StableSort(sorted[<<b, e>>], records, b, e)
<1> DEFINE Wrong(b, e) == b <= e /\ ~ StableSort(sorted[<<b, e>>], records, b, e)
           Bad == {k \in Nat : \E b, e \in 1 .. n : e - b = k /\ Wrong(b, e)}
<1>1. ASSUME NEW b \in 1 .. n, NEW e \in 1 .. n
      PROVE  sorted[<<b, e>>] = SortStep(records, sorted, <<b, e>>)
  <2>1. <<b, e>> \in (DOMAIN records) \X (DOMAIN records)
    OBVIOUS
  <2> DEFINE Step(r) == SortStep(records, sorted, r)
  <2>2. sorted = [range \in (DOMAIN records) \X (DOMAIN records) |-> Step(range)]
    BY Zenon DEF Sorting
  <2> HIDE DEF Step
  <2>3. sorted[<<b, e>>] = Step(<<b, e>>)
    BY <2>1, <2>2, Zenon
  <2> QED
    BY <2>3 DEF Step
<1>2. SUFFICES Bad = {}
  <2> SUFFICES ASSUME NEW b \in 1 .. n, NEW e \in 1 .. n, Wrong(b, e)
               PROVE  FALSE
    OBVIOUS
  <2>1. e - b \in Nat
    OBVIOUS
  <2> HIDE DEF Wrong
  <2>2. e - b \in Bad
    BY <2>1
  <2> QED
    BY <1>2, <2>2
<1>3. ASSUME Bad # {}
      PROVE  FALSE
  <2>1. Bad \in SUBSET Nat
    OBVIOUS
  <2>2. PICK k \in Bad : \A j \in Bad : k <= j
    <3> HIDE DEF Bad
    <3> QED
      BY <1>3, <2>1, LeastNatural
  <2>3. PICK b \in 1 .. n, e \in 1 .. n : e - b = k /\ Wrong(b, e)
    <3> HIDE DEF Wrong
    <3> QED
      OBVIOUS
  <2>4. ASSUME NEW c \in 1 .. n, NEW d \in 1 .. n, c <= d, d - c < k
        PROVE  StableSort(sorted[<<c, d>>], records, c, d)
    <3>1. d - c \in Nat /\ d - c \notin Bad
      <4> HIDE DEF Bad
      <4> QED
        BY <2>1, <2>2, <2>4
    <3>2. ~ Wrong(c, d)
      <4> HIDE DEF Wrong
      <4> QED
        BY <3>1
    <3> QED
      BY <2>4, <3>2
  <2> HIDE DEF Bad
  <2>5. sorted[<<b, e>>] = SortStep(records, sorted, <<b, e>>)
    BY <1>1
  <2>6. b \in Nat \ {0} /\ e \in Nat /\ b <= e
    BY <2>3
  <2>7. CASE b = e
    <3>1. sorted[<<b, e>>] = <<records[b]>>
      <4>1. ~ (b < e) /\ <<b, e>>[1] = b /\ <<b, e>>[2] = e
        BY <2>6, <2>7
      <4> QED
        BY <2>5, <4>1, Zenon DEF SortStep
    <3> DEFINE p == [x \in 1 .. e - b + 1 |-> b]
    <3>2. e - b + 1 = 1 /\ 1 .. 1 = {1}
      BY <2>6, <2>7
    <3>3. p \in [1 .. e - b + 1 -> b .. e]
      BY <2>6, <2>7
    <3>4. sorted[<<b, e>>] = [x \in 1 .. e - b + 1 |-> records[p[x]]]
      <4>1. <<records[b]>> = [x \in 1 .. 1 |-> records[b]]
        OBVIOUS
      <4>2. \A x \in 1 .. e - b + 1 : p[x] = b
        OBVIOUS
      <4> QED
        BY <3>1, <3>2, <4>1, <4>2
    <3>5. \A x, y \in 1 .. e - b + 1 : ~ (x < y)
      BY <3>2
    <3> HIDE DEF p
    <3>6. StableSort(sorted[<<b, e>>], records, b, e)
      BY <3>3, <3>4, <3>5 DEF StableSort
    <3> QED
      BY <2>3, <3>6
  <2>8. CASE b < e
    <3> DEFINE mid == (b - 1 + e - 1) \div 2 + 1
    <3>1. mid \in b .. e - 1
      BY <2>6, <2>8, MiddleOf
    <3>2. sorted[<<b, e>>] = _merge_array_by_ts(sorted[<<b, mid>>], sorted[<<mid + 1, e>>])
      <4>1. <<b, e>>[1] = b /\ <<b, e>>[2] = e
        OBVIOUS
      <4> QED
        BY <2>5, <2>8, <4>1, Zenon DEF SortStep
    <3> HIDE DEF mid
    <3>3. /\ mid \in 1 .. n /\ mid + 1 \in 1 .. n /\ b <= mid /\ mid + 1 <= e
          /\ mid - b < k /\ e - (mid + 1) < k /\ mid \in Nat /\ mid < e
      BY <2>3, <2>6, <2>8, <3>1
    <3>4. /\ StableSort(sorted[<<b, mid>>], records, b, mid)
          /\ StableSort(sorted[<<mid + 1, e>>], records, mid + 1, e)
      BY <2>4, <3>3
    <3>5. \A x \in b .. e : infos[records[x]].ts \in Nat
      OBVIOUS
    <3>6. StableSort(sorted[<<b, e>>], records, b, e)
      BY <2>6, <3>2, <3>3, <3>4, <3>5, MergeSorts
    <3> QED
      BY <2>3, <3>6
  <2> QED
    BY <2>6, <2>7, <2>8
<1> QED
  BY <1>3

\* The merge sort sorts any nonempty array of records: the result is the same
\* records, each once, in order of time, and records of the same time in the
\* order they had (_trace_infomap_msort_by_ts, replay.c:318).
THEOREM MergeSortSorts ==
    ASSUME NEW records, NEW n \in Nat \ {0}, DOMAIN records = 1 .. n, Len(records) = n,
           \A x \in 1 .. n : infos[records[x]].ts \in Nat
    PROVE  \E p \in Bijection(1 .. n, 1 .. n) :
              /\ _trace_infomap_msort_by_ts(records) = [k \in 1 .. n |-> records[p[k]]]
              /\ \A k, l \in 1 .. n : k < l => Earlier(records, p[k], p[l])
<1>1. PICK sorted : /\ Sorting(records, sorted)
                    /\ _trace_infomap_msort_by_ts(records) = sorted[<<1, n>>]
  BY SortUnfolds
<1>2. StableSort(sorted[<<1, n>>], records, 1, n)
  <2>1. 1 \in 1 .. n /\ n \in 1 .. n /\ 1 <= n /\ n \in Nat
    OBVIOUS
  <2> QED
    BY <1>1, <2>1, PartsAreSorted, Zenon
<1>3. PICK p \in [1 .. n -> 1 .. n] :
        /\ sorted[<<1, n>>] = [k \in 1 .. n |-> records[p[k]]]
        /\ \A k, l \in 1 .. n : k < l => Earlier(records, p[k], p[l])
  <2>1. n - 1 + 1 = n
    OBVIOUS
  <2> QED
    BY <1>2, <2>1 DEF StableSort
<1>4. p \in Injection(1 .. n, 1 .. n)
  <2> SUFFICES ASSUME NEW k \in 1 .. n, NEW l \in 1 .. n, p[k] = p[l], k < l
               PROVE  FALSE
    BY <1>3 DEF Injection, IsInjective
  <2>1. Earlier(records, p[k], p[k]) /\ p[k] \in 1 .. n
    BY <1>3
  <2>2. infos[records[p[k]]].ts \in Nat
    BY <2>1
  <2>3. PICK a, x : a = infos[records[p[k]]].ts /\ x = p[k]
    OBVIOUS
  <2>4. a < a \/ x < x
    BY <2>1, <2>3 DEF Earlier
  <2>5. a \in Nat /\ x \in Nat
    BY <2>1, <2>2, <2>3
  <2> QED
    BY <2>4, <2>5
<1>5. p \in Surjection(1 .. n, 1 .. n)
  <2>1. IsFiniteSet(1 .. n)
    BY FS_Interval
  <2> QED
    BY <1>4, <2>1, FS_Injection
<1> QED
  BY <1>1, <1>3, <1>4, <1>5 DEF Bijection

----------------------------------------------------------------------------
(* The plan *)

\* A container of records, and a hint.
Container == [lba : Nat, infos_map : Seq(Nat)]
HintType == [blks : Nat, start : Nat, rw : {"R", "W"}]

\* The type invariant, for the phases of a whole run as well.
Typed ==
    /\ opt \in Options
    /\ lines \in Seq(Records \cup {BadLine})
    /\ infos \in Seq(Records)
    /\ next_info \in 1 .. valid_lines + 1
    /\ containers \in Seq(Container)
    /\ cur_thread \in Nat /\ cur_lines \in Nat
    /\ infos_map \in [Workers -> Seq(DOMAIN infos)]
    /\ worker \in 0 .. opt.threads
    /\ scan \in [j : Nat, start : Nat, max : Nat]
    /\ hints \in Seq(HintType)
    /\ params \in [Workers -> [start : Nat, end : Nat, buf : Nat]]

\* What a phase has not come to yet is as it was; what it is done with stays.
Phases ==
    /\ phase = "parse" => next_info = 1 /\ containers = <<>>
    /\ phase \in {"parse", "build", "sort"} =>
        /\ cur_thread = 0 /\ cur_lines = 0
        /\ infos_map = [w \in Workers |-> <<>>]
    /\ phase \in {"parse", "build", "sort", "assign"} => worker = 0 /\ hints = <<>>
    /\ phase \notin {"parse", "build"} => next_info = valid_lines + 1
    /\ phase \notin {"parse", "build", "sort", "assign"} => containers = <<>>
    /\ phase = "scan" => worker # opt.threads
    /\ phase = "ready" => worker = opt.threads

\* A container has the records of its LBA so far, in the order of the trace,
\* and no two containers are for one LBA.
Gathered ==
    /\ \A c \in DOMAIN containers :
        LET records == containers[c].infos_map
        IN  /\ records # <<>>
            /\ \A p \in DOMAIN records :
                /\ records[p] \in 1 .. next_info - 1
                /\ infos[records[p]].lba = containers[c].lba
            /\ \A p, q \in DOMAIN records : p < q => records[p] < records[q]
    /\ \A c, d \in DOMAIN containers : containers[c].lba = containers[d].lba => c = d

\* No record gets lost.
Complete ==
    \A n \in 1 .. next_info - 1 :
        \/ \E c \in DOMAIN containers : \E p \in DOMAIN containers[c].infos_map :
                containers[c].infos_map[p] = n
        \/ \E w \in Workers : \E p \in DOMAIN infos_map[w] : infos_map[w][p] = n

\* While the containers are dealt out, the current worker is one that may get
\* more, the ones behind it have nothing, and an LBA is either still in its
\* container or with a worker.
Dealing ==
    phase = "assign" =>
        /\ cur_thread \in Workers
        /\ cur_thread # opt.threads - 1 => cur_lines < per_thread_lines \/ cur_lines = 0
        /\ cur_lines = Len(infos_map[cur_thread])
        /\ \A w \in Workers : w > cur_thread => infos_map[w] = <<>>
        /\ \A w \in Workers : \A p \in DOMAIN infos_map[w] : \A c \in DOMAIN containers :
            infos[infos_map[w][p]].lba # containers[c].lba

\* The records of an LBA are with one worker, each once.
MapsApart ==
    /\ \A v, w \in Workers : \A p \in DOMAIN infos_map[v], q \in DOMAIN infos_map[w] :
        infos[infos_map[v][p]].lba = infos[infos_map[w][q]].lba => v = w
    /\ \A w \in Workers : \A p, q \in DOMAIN infos_map[w] :
        infos_map[w][p] = infos_map[w][q] => p = q

\* Before a worker is sorted it has the records of an LBA in trace order.
MapsInTraceOrder ==
    \A w \in Workers \ SortedWorkers : \A p, q \in DOMAIN infos_map[w] :
        p < q /\ infos[infos_map[w][p]].lba = infos[infos_map[w][q]].lba =>
            infos_map[w][p] < infos_map[w][q]

\* The positions of a worker's records of another LBA than that of record n.
OtherLBAs(w, n) ==
    {m \in DOMAIN infos_map[w] : infos[infos_map[w][m]].lba # infos[infos_map[w][n]].lba}

\* A worker before the last has more than its share only by the records of one
\* LBA, the one it was given last.
FairMaps ==
    \A w \in Workers \ {opt.threads - 1} :
        infos_map[w] # <<>> =>
            \E n \in DOMAIN infos_map[w] :
                Cardinality(OtherLBAs(w, n)) < per_thread_lines \/ OtherLBAs(w, n) = {}

\* The largest hint, in blocks.
MaxBlks == Largest(1, opt.maxblks)

\* The n-th record of worker w, from 0, in the order of its map.
rec(w, n) == infos[infos_map[w][n + 1]]

\* Records start .. start + blks - 1 of worker w are one range of blocks.
OneRange(w, start, blks) ==
    \A n \in 0 .. blks - 1 :
        /\ rec(w, start + n).rw = rec(w, start).rw
        /\ rec(w, start + n).lba = rec(w, start).lba + n * BlkSectors

\* A range of blocks that is not of the largest size ends where the next
\* record does not continue it.
EndsRange(w, start, blks) ==
    blks < opt.maxblks =>
        \/ rec(w, start + blks).rw # rec(w, start).rw
        \/ rec(w, start + blks).lba # rec(w, start + blks - 1).lba + BlkSectors

\* Hints first .. last tile the records of worker w from the first to the one
\* before `upto`, in transfers of at most buf blocks.
Tiling(w, first, last, upto, buf) ==
    /\ hints[first].start = 0
    /\ hints[last].start + hints[last].blks = upto
    /\ \A h \in first .. last :
        /\ hints[h].blks \in 1 .. buf
        /\ hints[h].start + hints[h].blks <= Len(infos_map[w])
        /\ hints[h].rw = rec(w, hints[h].start).rw
        /\ OneRange(w, hints[h].start, hints[h].blks)
        /\ h # last => /\ hints[h].start + hints[h].blks = hints[h + 1].start
                       /\ EndsRange(w, hints[h].start, hints[h].blks)

\* The hints of the workers planned so far.
HintsRight(w) ==
    /\ params[w].start < params[w].end /\ params[w].end <= Len(hints)
    /\ params[w].buf <= MaxBlks
    /\ Tiling(w, params[w].start + 1, params[w].end, Len(infos_map[w]), params[w].buf)

\* The hints of every worker that has been planned are right.
PlannedHints == \A w \in PlannedWorkers : HintsRight(w)

\* The worker whose records are scanned: its hints reach up to the range that
\* is being collected.
Scanning ==
    phase = "scan" =>
        /\ scan.start < scan.j /\ scan.j <= Len(infos_map[worker])
        /\ scan.j - scan.start <= MaxBlks /\ scan.max <= MaxBlks
        /\ OneRange(worker, scan.start, scan.j - scan.start)
        /\ params[worker].start <= Len(hints)
        /\ IF params[worker].start = Len(hints) THEN scan.start = 0
           ELSE /\ Tiling(worker, params[worker].start + 1, Len(hints), scan.start, scan.max)
                /\ EndsRange(worker, hints[Len(hints)].start, hints[Len(hints)].blks)

\* Every hint is charged to a record of its own: the first it stands for.
HintsCharged ==
    \E f \in [DOMAIN hints -> DOMAIN infos] :
        /\ \A g, h \in DOMAIN hints : f[g] = f[h] => g = h
        /\ \A h \in DOMAIN hints : \E w \in SortedWorkers : \E p \in DOMAIN infos_map[w] :
            /\ f[h] = infos_map[w][p]
            /\ w = worker => p <= scan.start

\* The inductive invariant.
PlanIInv ==
    /\ Typed /\ Phases /\ Gathered /\ Complete /\ Dealing
    /\ MapsApart /\ MapsInTraceOrder /\ InTimeOrder /\ FairMaps
    /\ PlannedHints /\ Scanning /\ HintsCharged

----------------------------------------------------------------------------
(* Facts the steps share. *)

\* The command line in force.
LEMMA OptFacts ==
    ASSUME opt \in Options
    PROVE  /\ opt.threads \in Nat \ {0} /\ opt.maxblks \in Nat
           /\ opt.threads - 1 \in Workers /\ 0 \in Workers
           /\ \A w \in Workers : w \in Nat /\ w < opt.threads
BY OptionsAssumption DEF Workers

\* The record that Append adds is the last one.
LEMMA AppendFacts ==
    ASSUME NEW S, NEW s \in Seq(S), NEW x \in S
    PROVE  /\ Append(s, x) \in Seq(S)
           /\ Len(Append(s, x)) = Len(s) + 1
           /\ DOMAIN Append(s, x) = 1 .. Len(s) + 1
           /\ DOMAIN s = 1 .. Len(s) /\ Len(s) \in Nat
           /\ \A n \in 1 .. Len(s) : Append(s, x)[n] = s[n]
           /\ Append(s, x)[Len(s) + 1] = x
OBVIOUS

\* Where no worker has been sorted there are no hints to be wrong.
Unsorted == worker = 0 /\ hints = <<>> /\ phase # "scan"

\* ... and nothing that is claimed of sorted workers and their hints can fail.
LEMMA NothingSorted ==
    Unsorted /\ Typed => InTimeOrder /\ PlannedHints /\ Scanning /\ HintsCharged
<1> SUFFICES ASSUME Unsorted, Typed
             PROVE  InTimeOrder /\ PlannedHints /\ Scanning /\ HintsCharged
  OBVIOUS
<1>1. SortedWorkers = {} /\ PlannedWorkers = {}
  <2>1. \A w \in Workers : w \in Nat
    BY OptFacts DEF Typed
  <2> QED
    BY <2>1 DEF Unsorted, SortedWorkers, PlannedWorkers
<1>2. InTimeOrder
  BY <1>1 DEF InTimeOrder
<1>3. PlannedHints
  BY <1>1 DEF PlannedHints
<1>4. Scanning
  BY DEF Scanning, Unsorted
<1>5. HintsCharged
  <2>1. DOMAIN hints = {}
    BY DEF Unsorted
  <2> DEFINE f == [h \in DOMAIN hints |-> 0]
  <2>2. f \in [DOMAIN hints -> DOMAIN infos]
    BY <2>1
  <2> QED
    BY <2>1, <2>2 DEF HintsCharged
<1> QED
  BY <1>2, <1>3, <1>4, <1>5

\* Where no container has been dealt out the maps are in order.
LEMMA NothingDealt ==
    infos_map = [w \in Workers |-> <<>>] =>
        MapsApart /\ MapsInTraceOrder /\ FairMaps
<1> SUFFICES ASSUME infos_map = [w \in Workers |-> <<>>]
             PROVE  MapsApart /\ MapsInTraceOrder /\ FairMaps
  OBVIOUS
<1>1. \A w \in Workers : infos_map[w] = <<>> /\ DOMAIN infos_map[w] = {}
  OBVIOUS
<1>2. MapsApart
  BY <1>1 DEF MapsApart
<1>3. MapsInTraceOrder
  BY <1>1 DEF MapsInTraceOrder
<1>4. FairMaps
  BY <1>1 DEF FairMaps
<1> QED
  BY <1>2, <1>3, <1>4

----------------------------------------------------------------------------
(* The initial states. *)

\* The initial states satisfy the invariant.
LEMMA PlanInitIInv == PlanInit => PlanIInv
<1> SUFFICES ASSUME PlanInit
             PROVE  PlanIInv
  OBVIOUS
<1> USE DEF PlanInit
<1>1. Typed
  <2>1. opt \in Options /\ lines \in Seq(Records \cup {BadLine})
    BY InputsAssumption
  <2>2. opt.threads \in Nat \ {0}
    BY <2>1, OptFacts
  <2>3. infos \in Seq(Records) /\ containers \in Seq(Container) /\ hints \in Seq(HintType)
    OBVIOUS
  <2>4. valid_lines = 0
    BY DEF valid_lines
  <2>5. infos_map \in [Workers -> Seq(DOMAIN infos)]
    OBVIOUS
  <2> QED
    BY <2>1, <2>2, <2>3, <2>4, <2>5 DEF Typed, NoScan
<1>2. Unsorted
  BY DEF Unsorted
<1>3. Phases
  BY DEF Phases
<1>4. Gathered /\ Complete
  BY DEF Gathered, Complete
<1>5. Dealing
  BY DEF Dealing
<1> QED
  BY <1>1, <1>2, <1>3, <1>4, <1>5, NothingSorted, NothingDealt DEF PlanIInv

----------------------------------------------------------------------------
(* Parsing and gathering. *)

\* A line read, kept or not, keeps it.
LEMMA ParseStep == PlanIInv /\ parse_trace_info => PlanIInv'
<1> SUFFICES ASSUME PlanIInv, parse_trace_info
             PROVE  PlanIInv'
  OBVIOUS
<1> USE DEF parse_trace_info
<1>1. Typed /\ Phases /\ Gathered /\ Complete
  BY DEF PlanIInv
<1>2. /\ next_info = 1 /\ containers = <<>> /\ infos_map = [w \in Workers |-> <<>>]
      /\ worker = 0 /\ hints = <<>>
  BY <1>1 DEF Phases
<1>3. Typed'
  <2>1. infos' \in Seq(Records) /\ lines' \in Seq(Records \cup {BadLine})
        /\ Len(infos') \in Nat
    <3>1. infos \in Seq(Records) /\ lines \in Seq(Records \cup {BadLine})
      BY <1>1 DEF Typed
    <3>2. CASE lines # <<>>
      <4>1. Head(lines) \in Records \cup {BadLine} /\ Tail(lines) \in Seq(Records \cup {BadLine})
        BY <3>1, <3>2
      <4>2. infos' \in Seq(Records)
        <5>1. CASE Kept(Head(lines))
          <6>1. Head(lines) \in Records
            BY <4>1, <5>1, Zenon DEF Kept
          <6>2. infos' = Append(infos, Head(lines))
            BY <3>2, <5>1
          <6> QED
            BY <3>1, <6>1, <6>2, AppendProperties
        <5>2. CASE ~ Kept(Head(lines))
          BY <3>1, <3>2, <5>2
        <5> QED
          BY <5>1, <5>2
      <4> QED
        BY <3>2, <4>1, <4>2
    <3>3. CASE lines = <<>>
      BY <3>1, <3>3
    <3> QED
      BY <3>2, <3>3
  <2>2. next_info' \in 1 .. valid_lines' + 1
    BY <1>2, <2>1 DEF valid_lines
  <2>3. infos_map' \in [Workers' -> Seq(DOMAIN infos')]
    BY <1>2 DEF Workers
  <2> QED
    BY <1>1, <2>1, <2>2, <2>3 DEF Typed, Workers
<1>4. Unsorted'
  BY <1>2 DEF Unsorted
<1>5. Phases'
  BY <1>1 DEF Phases, Workers
<1>6. Gathered' /\ Complete'
  BY <1>2 DEF Gathered, Complete
<1>7. Dealing'
  BY DEF Dealing
<1>8. (infos_map = [w \in Workers |-> <<>>])'
  BY <1>2 DEF Workers
<1>9. /\ (Unsorted /\ Typed => InTimeOrder /\ PlannedHints /\ Scanning /\ HintsCharged)'
      /\ (infos_map = [w \in Workers |-> <<>>] => MapsApart /\ MapsInTraceOrder /\ FairMaps)'
  BY NothingSorted, NothingDealt, PTL
<1> QED
  BY <1>3, <1>4, <1>5, <1>6, <1>7, <1>8, <1>9 DEF PlanIInv

\* A record gathered into its container keeps it: no LBA gets a second one.
LEMMA BuildStep == PlanIInv /\ build_trace_containers => PlanIInv'
<1> SUFFICES ASSUME PlanIInv, build_trace_containers
             PROVE  PlanIInv'
  OBVIOUS
<1> USE DEF build_trace_containers
<1>1. Typed /\ Phases /\ Gathered /\ Complete
  BY DEF PlanIInv
<1>2. /\ infos_map = [w \in Workers |-> <<>>]
      /\ worker = 0 /\ hints = <<>>
  BY <1>1 DEF Phases
<1>3. Phases'
  BY <1>1 DEF Phases, Workers, Typed, valid_lines
<1>4. Dealing'
  BY DEF Dealing
<1>5. Unsorted'
  BY <1>2 DEF Unsorted
<1>6. (infos_map = [w \in Workers |-> <<>>])'
  BY <1>2 DEF Workers
<1>7. Typed' /\ Gathered' /\ Complete'
  <2>1. CASE next_info > valid_lines
    <3>1. containers' = containers /\ next_info' = next_info
      BY <1>1, <2>1 DEF Typed, valid_lines
    <3>2. Typed'
      BY <1>1, <3>1 DEF Typed, Workers, valid_lines
    <3>3. Gathered'
      BY <1>1, <3>1 DEF Gathered
    <3>4. Complete'
      BY <1>1, <3>1 DEF Complete, Workers
    <3> QED
      BY <3>2, <3>3, <3>4
  <2>2. CASE next_info <= valid_lines
    <3>1. /\ next_info \in DOMAIN infos /\ infos[next_info] \in Records
          /\ next_info \in Nat \ {0} /\ next_info' = next_info + 1
          /\ next_info' \in 1 .. valid_lines' + 1
      <4>1. infos \in Seq(Records) /\ next_info \in 1 .. Len(infos) + 1
        BY <1>1 DEF Typed, valid_lines
      <4>2. next_info <= Len(infos) /\ valid_lines' = Len(infos)
        BY <2>2 DEF valid_lines
      <4>3. next_info' = next_info + 1
        <5>1. ~ (next_info > Len(infos))
          BY <4>1, <4>2, LenProperties
        <5> QED
          BY <5>1, Zenon DEF valid_lines
      <4>4. Len(infos) \in Nat /\ DOMAIN infos = 1 .. Len(infos)
        BY <4>1, LenProperties
      <4>5. next_info \in 1 .. Len(infos)
        BY <4>1, <4>2, <4>4
      <4> QED
        BY <4>1, <4>2, <4>3, <4>4, <4>5
    <3>2. containers \in Seq(Container)
      BY <1>1 DEF Typed
    <3> DEFINE lba == infos[next_info].lba
    <3>3. lba \in Nat
      BY <3>1 DEF Records
    <3>4. CASE \E c \in DOMAIN containers :
                    containers[c].lba = lba /\ containers' = Added(c, next_info)
      <4>1. PICK c \in DOMAIN containers :
                    containers[c].lba = lba /\ containers' = Added(c, next_info)
        BY <3>4
      <4> DEFINE old == containers[c].infos_map
                 new == Append(old, next_info)
      <4>2. containers[c] \in Container /\ old \in Seq(Nat)
        <5>1. containers[c] \in Container
          BY <3>2, <4>1
        <5> QED
          BY <5>1 DEF Container
      <4>3. /\ DOMAIN containers' = DOMAIN containers
            /\ containers'[c].infos_map = new /\ containers'[c].lba = containers[c].lba
            /\ \A d \in DOMAIN containers : d # c => containers'[d] = containers[d]
            /\ containers' \in Seq(Container)
        <5> DEFINE changed == [containers[c] EXCEPT !.infos_map = new]
        <5>1. new \in Seq(Nat)
          BY <3>1, <4>2, AppendFacts
        <5> HIDE DEF new
        <5>2. changed \in Container /\ changed.infos_map = new /\ changed.lba = containers[c].lba
          BY <4>2, <5>1 DEF Container
        <5>3. containers' = [containers EXCEPT ![c] = changed]
          BY <4>1, Zenon DEF Added, new
        <5> HIDE DEF changed
        <5>4. c \in 1 .. Len(containers) /\ DOMAIN containers = 1 .. Len(containers)
          BY <3>2, <4>1
        <5>5. /\ containers' \in Seq(Container) /\ Len(containers') = Len(containers)
              /\ \A d \in 1 .. Len(containers) :
                    containers'[d] = IF d = c THEN changed ELSE containers[d]
          BY <3>2, <5>2, <5>3, <5>4, ExceptSeq
        <5>6. DOMAIN containers' = 1 .. Len(containers)
          BY <5>5
        <5> QED
          BY <5>2, <5>4, <5>5, <5>6
      <4>4. containers' \in Seq(Container)
        BY <4>3
      <4>5. /\ Len(new) = Len(old) + 1 /\ DOMAIN new = 1 .. Len(old) + 1
            /\ DOMAIN old = 1 .. Len(old) /\ Len(old) \in Nat
            /\ \A n \in 1 .. Len(old) : new[n] = old[n]
            /\ new[Len(old) + 1] = next_info
        BY <3>1, <4>2, AppendFacts
      <4> HIDE DEF old, new
      <4>6. Typed'
        BY <1>1, <3>1, <4>4 DEF Typed, Workers
      <4>7. \A d \in DOMAIN containers' : containers'[d].lba = containers[d].lba
        BY <4>3
      <4>8. Gathered'
        <5>1. ASSUME NEW d \in DOMAIN containers'
              PROVE  LET records == containers'[d].infos_map
                     IN  /\ records # <<>>
                         /\ \A p \in DOMAIN records :
                            /\ records[p] \in 1 .. next_info' - 1
                            /\ infos'[records[p]].lba = containers'[d].lba
                         /\ \A p, q \in DOMAIN records : p < q => records[p] < records[q]
          <6>1. CASE d # c
            <7>1. containers'[d] = containers[d] /\ d \in DOMAIN containers
              BY <4>3, <6>1
            <7> QED
              BY <1>1, <3>1, <7>1 DEF Gathered
          <6>2. CASE d = c
            <7>1. /\ \A p \in 1 .. Len(old) : /\ old[p] \in 1 .. next_info - 1
                                              /\ infos[old[p]].lba = containers[c].lba
                  /\ \A p, q \in 1 .. Len(old) : p < q => old[p] < old[q]
              BY <1>1, <4>5 DEF Gathered, old
            <7>2. new # <<>>
              BY <4>5
            <7>3. \A p \in DOMAIN new : /\ new[p] \in 1 .. next_info' - 1
                                        /\ infos[new[p]].lba = containers[c].lba
              BY <3>1, <4>1, <4>5, <7>1
            <7>4. \A p, q \in DOMAIN new : p < q => new[p] < new[q]
              <8> SUFFICES ASSUME NEW p \in DOMAIN new, NEW q \in DOMAIN new, p < q
                           PROVE  new[p] < new[q]
                OBVIOUS
              <8>1. p \in 1 .. Len(old) /\ new[p] = old[p] /\ old[p] \in 1 .. next_info - 1
                BY <4>5, <7>1
              <8>2. CASE q = Len(old) + 1
                BY <3>1, <4>5, <8>1, <8>2
              <8>3. CASE q # Len(old) + 1
                BY <4>5, <7>1, <8>1, <8>3
              <8> QED
                BY <8>2, <8>3
            <7> QED
              BY <4>3, <6>2, <7>2, <7>3, <7>4
          <6> QED
            BY <6>1, <6>2
        <5>2. \A d, e \in DOMAIN containers' :
                    containers'[d].lba = containers'[e].lba => d = e
          BY <1>1, <4>3, <4>7 DEF Gathered
        <5> QED
          BY <5>1, <5>2 DEF Gathered
      <4>9. Complete'
        <5> SUFFICES ASSUME NEW n \in 1 .. next_info' - 1
                     PROVE  \E d \in DOMAIN containers' :
                                \E p \in DOMAIN containers'[d].infos_map :
                                    containers'[d].infos_map[p] = n
          BY DEF Complete
        <5>1. CASE n = next_info
          BY <4>3, <4>5, <5>1
        <5>2. CASE n # next_info
          <6>1. n \in 1 .. next_info - 1
            BY <3>1, <5>2
          <6>0. PICK d \in DOMAIN containers : \E p \in DOMAIN containers[d].infos_map :
                    containers[d].infos_map[p] = n
            BY <1>1, <1>2, <6>1 DEF Complete
          <6>2. PICK p \in DOMAIN containers[d].infos_map : containers[d].infos_map[p] = n
            BY <6>0
          <6>3. CASE d = c
            <7>1. p \in DOMAIN new /\ new[p] = n
              BY <4>5, <6>2, <6>3 DEF old
            <7> QED
              BY <4>3, <6>3, <7>1
          <6>4. CASE d # c
            BY <4>3, <6>2, <6>4
          <6> QED
            BY <6>3, <6>4
        <5> QED
          BY <5>1, <5>2
      <4> QED
        BY <4>6, <4>8, <4>9
    <3>5. CASE /\ \A c \in DOMAIN containers : containers[c].lba # lba
               /\ containers' = Append(containers, [lba |-> lba, infos_map |-> <<next_info>>])
      <4> DEFINE new == [lba |-> lba, infos_map |-> <<next_info>>]
                 last == Len(containers) + 1
      <4>1. /\ new \in Container /\ new.lba = lba /\ new.infos_map = <<next_info>>
            /\ DOMAIN <<next_info>> = {1} /\ <<next_info>>[1] = next_info
            /\ <<next_info>> # <<>>
        BY <3>1, <3>3 DEF Container
      <4> HIDE DEF new, lba
      <4>2. /\ containers' \in Seq(Container)
            /\ DOMAIN containers' = 1 .. last /\ DOMAIN containers = 1 .. Len(containers)
            /\ Len(containers) \in Nat
            /\ \A d \in DOMAIN containers : containers'[d] = containers[d]
            /\ containers'[last] = new
        BY <3>2, <3>5, <4>1, AppendFacts DEF new
      <4>3. \A d \in DOMAIN containers' : d # last => d \in DOMAIN containers
        BY <4>2
      <4> HIDE DEF last
      <4>4. Typed'
        BY <1>1, <3>1, <4>2 DEF Typed, Workers
      <4>5. Gathered'
        <5>1. ASSUME NEW d \in DOMAIN containers'
              PROVE  LET records == containers'[d].infos_map
                     IN  /\ records # <<>>
                         /\ \A p \in DOMAIN records :
                            /\ records[p] \in 1 .. next_info' - 1
                            /\ infos'[records[p]].lba = containers'[d].lba
                         /\ \A p, q \in DOMAIN records : p < q => records[p] < records[q]
          <6>1. CASE d # last
            <7>1. containers'[d] = containers[d] /\ d \in DOMAIN containers
              BY <4>2, <4>3, <6>1
            <7> QED
              BY <1>1, <3>1, <7>1 DEF Gathered
          <6>2. CASE d = last
            <7>1. containers'[d].infos_map = <<next_info>> /\ containers'[d].lba = lba
              BY <4>1, <4>2, <6>2
            <7> QED
              BY <3>1, <4>1, <7>1 DEF lba
          <6> QED
            BY <6>1, <6>2
        <5>2. \A d, e \in DOMAIN containers' :
                    containers'[d].lba = containers'[e].lba => d = e
          <6> SUFFICES ASSUME NEW d \in DOMAIN containers', NEW e \in DOMAIN containers',
                              containers'[d].lba = containers'[e].lba
                       PROVE  d = e
            OBVIOUS
          <6>1. CASE d = last /\ e # last
            BY <3>5, <4>1, <4>2, <4>3, <6>1
          <6>2. CASE d # last /\ e = last
            BY <3>5, <4>1, <4>2, <4>3, <6>2
          <6>3. CASE d # last /\ e # last
            BY <1>1, <4>2, <4>3, <6>3 DEF Gathered
          <6> QED
            BY <6>1, <6>2, <6>3
        <5> QED
          BY <5>1, <5>2 DEF Gathered
      <4>6. Complete'
        <5> SUFFICES ASSUME NEW n \in 1 .. next_info' - 1
                     PROVE  \E d \in DOMAIN containers' :
                                \E p \in DOMAIN containers'[d].infos_map :
                                    containers'[d].infos_map[p] = n
          BY DEF Complete
        <5>1. CASE n = next_info
          <6>1. last \in DOMAIN containers'
            BY <4>2 DEF last
          <6> QED
            BY <4>1, <4>2, <5>1, <6>1
        <5>2. CASE n # next_info
          <6>1. n \in 1 .. next_info - 1
            BY <3>1, <5>2
          <6>0. PICK d \in DOMAIN containers : \E p \in DOMAIN containers[d].infos_map :
                    containers[d].infos_map[p] = n
            BY <1>1, <1>2, <6>1 DEF Complete
          <6>2. PICK p \in DOMAIN containers[d].infos_map : containers[d].infos_map[p] = n
            BY <6>0
          <6>3. d \in DOMAIN containers'
            BY <4>2 DEF last
          <6> QED
            BY <4>2, <6>2, <6>3
        <5> QED
          BY <5>1, <5>2
      <4> QED
        BY <4>4, <4>5, <4>6
    <3>6. \/ \E c \in DOMAIN containers :
                containers[c].lba = lba /\ containers' = Added(c, next_info)
          \/ /\ \A c \in DOMAIN containers : containers[c].lba # lba
             /\ containers' = Append(containers, [lba |-> lba, infos_map |-> <<next_info>>])
      <4>1. ~ (next_info > valid_lines)
        BY <1>1, <2>2 DEF Typed, valid_lines
      <4> QED
        BY <4>1, Zenon
    <3> QED
      BY <3>4, <3>5, <3>6
  <2> QED
    BY <1>1, <2>1, <2>2 DEF Typed, valid_lines
<1>8. /\ (Unsorted /\ Typed => InTimeOrder /\ PlannedHints /\ Scanning /\ HintsCharged)'
      /\ (infos_map = [w \in Workers |-> <<>>] => MapsApart /\ MapsInTraceOrder /\ FairMaps)'
  BY NothingSorted, NothingDealt, PTL
<1> QED
  BY <1>3, <1>4, <1>5, <1>6, <1>7, <1>8 DEF PlanIInv

----------------------------------------------------------------------------
(* Sorting the containers and dealing them out. *)

\* The containers in another order are still one for each LBA.
LEMMA SortContainersStep == PlanIInv /\ SortContainers => PlanIInv'
<1> SUFFICES ASSUME PlanIInv, SortContainers
             PROVE  PlanIInv'
  OBVIOUS
<1>1. Typed /\ Phases /\ Gathered /\ Complete
  BY DEF PlanIInv
<1>2. /\ infos_map = [w \in Workers |-> <<>>] /\ worker = 0 /\ hints = <<>>
      /\ cur_thread = 0 /\ cur_lines = 0 /\ next_info = valid_lines + 1
  BY <1>1 DEF Phases, SortContainers
<1>3. /\ phase' = "assign" /\ opt' = opt /\ lines' = lines /\ infos' = infos
      /\ next_info' = next_info /\ cur_thread' = cur_thread /\ cur_lines' = cur_lines
      /\ infos_map' = infos_map /\ worker' = worker /\ scan' = scan /\ hints' = hints
      /\ params' = params /\ Workers' = Workers /\ valid_lines' = valid_lines
  BY DEF SortContainers, Workers, valid_lines
<1> DEFINE D == DOMAIN containers
<1>4. PICK p \in Permutations(D) : containers' = [c \in D |-> containers[p[c]]]
  BY DEF SortContainers
<1>5. p \in [D -> D] /\ \A c, d \in D : p[c] = p[d] => c = d
  BY <1>4 DEF Permutations
<1>6. D = 1 .. Len(containers) /\ Len(containers) \in Nat /\ containers \in Seq(Container)
  BY <1>1 DEF Typed
<1>7. \A d \in D : \E c \in D : p[c] = d
  <2>1. IsFiniteSet(D)
    BY <1>6, FS_Interval
  <2>2. p \in Injection(D, D)
    BY <1>5 DEF Injection, IsInjective
  <2>3. p \in Surjection(D, D)
    BY <2>1, <2>2, FS_Injection
  <2> QED
    BY <2>3 DEF Surjection
<1>8. DOMAIN containers' = D /\ \A c \in D : containers'[c] = containers[p[c]] /\ p[c] \in D
  BY <1>4, <1>5
<1>9. containers' \in Seq(Container)
  <2>1. \A c \in 1 .. Len(containers) : containers[p[c]] \in Container
    BY <1>5, <1>6
  <2> QED
    BY <1>4, <1>6, <2>1
<1> HIDE DEF D
<1>10. Typed'
  BY <1>1, <1>3, <1>9 DEF Typed
<1>11. Phases'
  BY <1>1, <1>2, <1>3 DEF Phases
<1>12. Gathered'
  <2>1. ASSUME NEW c \in DOMAIN containers'
        PROVE  LET records == containers'[c].infos_map
               IN  /\ records # <<>>
                   /\ \A n \in DOMAIN records :
                        /\ records[n] \in 1 .. next_info' - 1
                        /\ infos'[records[n]].lba = containers'[c].lba
                   /\ \A m, n \in DOMAIN records : m < n => records[m] < records[n]
    BY <1>1, <1>3, <1>8 DEF Gathered, D
  <2>2. ASSUME NEW c \in DOMAIN containers', NEW d \in DOMAIN containers',
               containers'[c].lba = containers'[d].lba
        PROVE  c = d
    <3>1. p[c] = p[d]
      BY <1>1, <1>8, <2>2 DEF Gathered, D
    <3> QED
      BY <1>5, <1>8, <3>1
  <2> QED
    BY <2>1, <2>2 DEF Gathered
<1>13. Complete'
  <2> SUFFICES ASSUME NEW n \in 1 .. next_info - 1
               PROVE  \E c \in DOMAIN containers' : \E q \in DOMAIN containers'[c].infos_map :
                            containers'[c].infos_map[q] = n
    BY <1>3 DEF Complete
  <2>1. PICK d \in D : \E q \in DOMAIN containers[d].infos_map : containers[d].infos_map[q] = n
    BY <1>1, <1>2 DEF Complete, D
  <2>2. PICK c \in D : p[c] = d
    BY <1>7
  <2> QED
    BY <1>8, <2>1, <2>2
<1>14. Dealing'
  <2>1. 0 \in Workers /\ \A w \in Workers : infos_map[w] = <<>>
    BY <1>1, <1>2, OptFacts DEF Typed
  <2>2. \A w \in Workers : DOMAIN infos_map[w] = {} /\ Len(infos_map[w]) = 0
    BY <2>1
  <2> QED
    BY <1>2, <1>3, <2>1, <2>2 DEF Dealing
<1>15. Unsorted'
  BY <1>2, <1>3 DEF Unsorted
<1>16. (infos_map = [w \in Workers |-> <<>>])'
  BY <1>2, <1>3
<1>17. /\ (Unsorted /\ Typed => InTimeOrder /\ PlannedHints /\ Scanning /\ HintsCharged)'
       /\ (infos_map = [w \in Workers |-> <<>>] => MapsApart /\ MapsInTraceOrder /\ FairMaps)'
  BY NothingSorted, NothingDealt, PTL
<1> QED
  BY <1>10, <1>11, <1>12, <1>13, <1>14, <1>15, <1>16, <1>17 DEF PlanIInv

\* The step that deals out the first container.
LEMMA DealStep ==
    ASSUME PlanIInv, AssignContainer, containers # <<>>
    PROVE  /\ Typed' /\ Gathered' /\ Complete' /\ Dealing'
           /\ MapsApart' /\ MapsInTraceOrder' /\ FairMaps'
<1>1. Typed /\ Phases /\ Gathered /\ Complete /\ Dealing
      /\ MapsApart /\ MapsInTraceOrder /\ FairMaps
  BY DEF PlanIInv
<1>2. /\ phase = "assign" /\ phase' = phase /\ opt' = opt /\ lines' = lines /\ infos' = infos
      /\ next_info' = next_info /\ worker' = worker /\ scan' = scan /\ hints' = hints
      /\ params' = params /\ Workers' = Workers /\ valid_lines' = valid_lines
      /\ per_thread_lines' = per_thread_lines
      /\ containers' = Tail(containers)
  BY DEF AssignContainer, Workers, valid_lines, per_thread_lines
<1>3. PICK moveOn \in BOOLEAN :
        /\ moveOn => MayMoveOn(Len(Head(containers).infos_map))
        /\ AssignTo(moveOn)
  BY DEF AssignContainer
<1> DEFINE records == Head(containers).infos_map
           L == Head(containers).lba
           w == IF moveOn THEN cur_thread + 1 ELSE cur_thread
           load == (IF moveOn THEN 0 ELSE cur_lines) + Len(records)
           old == infos_map[w]
           new == old \o records
\* The containers.
<1>4. /\ containers \in Seq(Container) /\ Head(containers) = containers[1]
      /\ 1 \in DOMAIN containers /\ DOMAIN containers = 1 .. Len(containers)
      /\ Len(containers) \in Nat /\ Head(containers) \in Container
  BY <1>1 DEF Typed
<1>5. /\ records \in Seq(Nat) /\ L \in Nat
  BY <1>4 DEF Container
<1>6. /\ DOMAIN records = 1 .. Len(records) /\ Len(records) \in Nat \ {0}
      /\ \A p \in DOMAIN records : /\ records[p] \in DOMAIN infos
                                   /\ infos[records[p]].lba = L
      /\ \A p, q \in DOMAIN records : p < q => records[p] < records[q]
  <2>1. next_info - 1 = Len(infos) /\ DOMAIN infos = 1 .. Len(infos)
    BY <1>1, <1>2 DEF Phases, Typed, valid_lines
  <2>2. records # <<>>
    BY <1>1, <1>4 DEF Gathered
  <2>3. DOMAIN records = 1 .. Len(records) /\ Len(records) \in Nat \ {0}
    BY <1>5, <2>2, EmptySeq, LenProperties
  <2> QED
    BY <1>1, <1>4, <2>1, <2>3 DEF Gathered
<1>7. /\ containers' \in Seq(Container)
      /\ DOMAIN containers' = 1 .. Len(containers) - 1
      /\ \A c \in DOMAIN containers' : c + 1 \in DOMAIN containers /\ c + 1 # 1
                                       /\ containers'[c] = containers[c + 1]
      /\ \A c \in DOMAIN containers : c # 1 => c - 1 \in DOMAIN containers'
                                               /\ containers'[c - 1] = containers[c]
  <2>1. /\ containers' \in Seq(Container) /\ Len(containers') = Len(containers) - 1
        /\ \A i \in 1 .. Len(containers') : containers'[i] = containers[i + 1]
    BY <1>2, <1>4, HeadTailProperties
  <2>2. DOMAIN containers' = 1 .. Len(containers) - 1
    BY <2>1
  <2> QED
    BY <1>4, <2>1, <2>2
\* The worker.
<1>8. /\ cur_thread \in Workers /\ \A v \in Workers : v \in Nat /\ v < opt.threads
      /\ opt.threads \in Nat \ {0} /\ opt.threads - 1 \in Workers
  BY <1>1, <1>2, OptFacts DEF Dealing, Typed
<1>9. w \in Workers /\ Len(old) = IF moveOn THEN 0 ELSE cur_lines
  <2>1. CASE moveOn
    <3>1. cur_thread # opt.threads - 1
      BY <1>3, <2>1 DEF MayMoveOn
    <3>2. cur_thread + 1 \in Workers /\ cur_thread + 1 > cur_thread
      BY <1>8, <3>1 DEF Workers
    <3>3. infos_map[cur_thread + 1] = <<>>
      BY <1>1, <1>2, <3>2 DEF Dealing
    <3> QED
      BY <2>1, <3>2, <3>3
  <2>2. CASE ~ moveOn
    BY <1>1, <1>2, <1>8, <2>2 DEF Dealing
  <2> QED
    BY <2>1, <2>2
<1>10. old \in Seq(DOMAIN infos) /\ infos_map \in [Workers -> Seq(DOMAIN infos)]
       /\ Len(old) \in Nat /\ DOMAIN old = 1 .. Len(old)
  <2>1. infos_map \in [Workers -> Seq(DOMAIN infos)]
    BY <1>1 DEF Typed
  <2>2. old \in Seq(DOMAIN infos)
    BY <1>9, <2>1
  <2> HIDE DEF old
  <2> QED
    BY <2>1, <2>2
<1>11. /\ infos_map' = [infos_map EXCEPT ![w] = new]
       /\ IF w # opt.threads - 1 /\ load >= per_thread_lines
          THEN cur_thread' = w + 1 /\ cur_lines' = 0
          ELSE cur_thread' = w /\ cur_lines' = load
  BY <1>3, Zenon DEF AssignTo
<1>12. load = Len(old) + Len(records)
  BY <1>9
<1> HIDE DEF w, load, old, records, L
<1>13. records \in Seq(DOMAIN infos)
  BY <1>5, <1>6
<1>14. /\ new \in Seq(DOMAIN infos) /\ DOMAIN new = 1 .. Len(old) + Len(records)
       /\ Len(new) = Len(old) + Len(records)
       /\ \A p \in 1 .. Len(old) : new[p] = old[p]
       /\ \A p \in 1 .. Len(records) : new[Len(old) + p] = records[p]
  <2>1. /\ new \in Seq(DOMAIN infos) /\ Len(new) = Len(old) + Len(records)
        /\ \A i \in 1 .. Len(old) + Len(records) :
                new[i] = IF i <= Len(old) THEN old[i] ELSE records[i - Len(old)]
    BY <1>10, <1>13, ConcatProperties
  <2> HIDE DEF new
  <2>2. DOMAIN new = 1 .. Len(old) + Len(records)
    BY <2>1
  <2>3. \A p \in 1 .. Len(old) : new[p] = old[p]
    BY <1>6, <1>10, <2>1
  <2>4. ASSUME NEW p \in 1 .. Len(records)
        PROVE  new[Len(old) + p] = records[p]
    <3>1. Len(old) + p \in 1 .. Len(old) + Len(records) /\ ~ (Len(old) + p <= Len(old))
          /\ Len(old) + p - Len(old) = p
      BY <1>6, <1>10
    <3> QED
      BY <2>1, <3>1
  <2> QED
    BY <2>1, <2>2, <2>3, <2>4
<1> HIDE DEF new
<1>15. /\ infos_map' \in [Workers -> Seq(DOMAIN infos)]
       /\ infos_map'[w] = new
       /\ \A v \in Workers : v # w => infos_map'[v] = infos_map[v]
  BY <1>9, <1>10, <1>11, <1>14
\* Each record of a map is an old one or of the container.
<1> DEFINE Old(v, p) == /\ p \in DOMAIN infos_map[v]
                        /\ infos_map'[v][p] = infos_map[v][p]
                        /\ infos[infos_map[v][p]].lba # L
           New(v, p) == /\ v = w /\ p > Len(old) /\ p - Len(old) \in DOMAIN records
                        /\ infos_map'[v][p] = records[p - Len(old)]
                        /\ infos[infos_map'[v][p]].lba = L
<1>16. ASSUME NEW v \in Workers, NEW p \in DOMAIN infos_map[v]
       PROVE  infos[infos_map[v][p]].lba # L
  BY <1>1, <1>2, <1>4 DEF Dealing, L
<1>17. ASSUME NEW v \in Workers, NEW p \in DOMAIN infos_map'[v]
       PROVE  (Old(v, p) \/ New(v, p)) /\ p \in Nat
  <2>1. CASE v # w
    <3>1. infos_map'[v] = infos_map[v] /\ infos_map[v] \in Seq(DOMAIN infos)
      BY <1>10, <1>15, <2>1
    <3>2. p \in Nat
      BY <3>1
    <3> QED
      BY <1>16, <3>1, <3>2
  <2>2. CASE v = w
    <3>1. p \in 1 .. Len(old) + Len(records) /\ infos_map'[v] = new /\ infos_map[v] = old
      BY <1>14, <1>15, <2>2 DEF old
    <3>2. CASE p <= Len(old)
      <4>1. p \in DOMAIN old /\ new[p] = old[p]
        BY <1>10, <1>14, <3>1, <3>2
      <4> QED
        BY <1>16, <3>1, <4>1
    <3>3. CASE p > Len(old)
      <4>1. p - Len(old) \in 1 .. Len(records) /\ Len(old) + (p - Len(old)) = p
        BY <1>6, <1>10, <3>1, <3>3
      <4>2. new[p] = records[p - Len(old)]
        BY <1>14, <4>1
      <4> QED
        BY <1>6, <2>2, <3>1, <3>3, <4>1, <4>2
    <3> QED
      BY <1>10, <3>1, <3>2, <3>3
  <2> QED
    BY <2>1, <2>2
<1>18. ASSUME NEW v \in Workers, NEW p \in DOMAIN infos_map[v]
       PROVE  p \in DOMAIN infos_map'[v] /\ infos_map'[v][p] = infos_map[v][p]
  <2>1. CASE v # w
    BY <1>15, <2>1
  <2>2. CASE v = w
    <3>1. p \in 1 .. Len(old) /\ infos_map'[v] = new /\ infos_map[v] = old
      BY <1>10, <1>15, <2>2 DEF old
    <3> QED
      BY <1>6, <1>10, <1>14, <3>1
  <2> QED
    BY <2>1, <2>2
<1>19. Typed'
  <2>1. cur_thread' \in Nat /\ cur_lines' \in Nat
    <3>1. w \in Nat /\ w + 1 \in Nat /\ load \in Nat
      <4>1. w \in Nat
        BY <1>8, <1>9
      <4>2. load \in Nat
        BY <1>6, <1>10, <1>12
      <4> QED
        BY <4>1, <4>2
    <3> QED
      BY <1>11, <3>1
  <2> QED
    BY <1>1, <1>2, <1>7, <1>15, <2>1 DEF Typed
<1>20. Gathered'
  <2>1. ASSUME NEW c \in DOMAIN containers'
        PROVE  LET rs == containers'[c].infos_map
               IN  /\ rs # <<>>
                   /\ \A n \in DOMAIN rs :
                        /\ rs[n] \in 1 .. next_info' - 1
                        /\ infos'[rs[n]].lba = containers'[c].lba
                   /\ \A m, n \in DOMAIN rs : m < n => rs[m] < rs[n]
    <3>1. containers'[c] = containers[c + 1] /\ c + 1 \in DOMAIN containers
      BY <1>7
    <3> QED
      BY <1>1, <1>2, <3>1 DEF Gathered
  <2>2. ASSUME NEW c \in DOMAIN containers', NEW d \in DOMAIN containers',
               containers'[c].lba = containers'[d].lba
        PROVE  c = d
    <3>1. c + 1 = d + 1 /\ c \in Nat /\ d \in Nat
      BY <1>1, <1>4, <1>7, <2>2 DEF Gathered
    <3> QED
      BY <3>1
  <2> QED
    BY <2>1, <2>2 DEF Gathered
<1>21. Complete'
  <2> SUFFICES ASSUME NEW n \in 1 .. next_info - 1
               PROVE  \/ \E c \in DOMAIN containers' :
                            \E p \in DOMAIN containers'[c].infos_map :
                                containers'[c].infos_map[p] = n
                      \/ \E v \in Workers : \E p \in DOMAIN infos_map'[v] : infos_map'[v][p] = n
    BY <1>2 DEF Complete
  <2>1. CASE \E v \in Workers : \E p \in DOMAIN infos_map[v] : infos_map[v][p] = n
    BY <1>18, <2>1
  <2>2. CASE \E c \in DOMAIN containers : \E p \in DOMAIN containers[c].infos_map :
                    containers[c].infos_map[p] = n
    <3>1. PICK c \in DOMAIN containers : \E p \in DOMAIN containers[c].infos_map :
                    containers[c].infos_map[p] = n
      BY <2>2
    <3>2. CASE c # 1
      BY <1>7, <3>1, <3>2
    <3>3. CASE c = 1
      <4>1. PICK p \in DOMAIN records : records[p] = n
        BY <1>4, <3>1, <3>3 DEF records
      <4>2. Len(old) + p \in DOMAIN new /\ new[Len(old) + p] = n
        BY <1>6, <1>10, <1>14, <4>1
      <4> QED
        BY <1>9, <1>15, <4>2
    <3> QED
      BY <3>2, <3>3
  <2> QED
    BY <1>1, <2>1, <2>2 DEF Complete
<1>22. Dealing'
  <2>1. cur_thread' \in Workers /\ cur_thread' \in Nat
    <3>1. CASE w # opt.threads - 1 /\ load >= per_thread_lines
      BY <1>8, <1>9, <1>11, <3>1 DEF Workers
    <3>2. CASE ~ (w # opt.threads - 1 /\ load >= per_thread_lines)
      BY <1>8, <1>9, <1>11, <3>2
    <3> QED
      BY <3>1, <3>2
  <2>2. per_thread_lines \in Int
    <3>1. valid_lines \in Nat /\ opt.threads \in Nat \ {0}
      BY <1>1, <1>8 DEF Typed, valid_lines
    <3> QED
      BY <3>1 DEF per_thread_lines
  <2>3. ASSUME cur_thread' # opt.threads - 1
        PROVE  cur_lines' < per_thread_lines \/ cur_lines' = 0
    BY <1>6, <1>10, <1>11, <1>12, <2>2, <2>3
  <2>4. ASSUME NEW v \in Workers, v > w
        PROVE  infos_map[v] = <<>> /\ infos_map'[v] = <<>>
    <3>1. v > cur_thread /\ v # w
      BY <1>8, <1>9, <2>4 DEF w
    <3> QED
      BY <1>1, <1>2, <1>15, <3>1 DEF Dealing
  <2>5. cur_lines' = Len(infos_map'[cur_thread'])
    <3>1. CASE w # opt.threads - 1 /\ load >= per_thread_lines
      <4>1. infos_map'[cur_thread'] = <<>>
        <5>1. cur_thread' > w
          BY <1>8, <1>9, <1>11, <3>1
        <5> QED
          BY <2>1, <2>4, <5>1
      <4> QED
        BY <1>11, <3>1, <4>1
    <3>2. CASE ~ (w # opt.threads - 1 /\ load >= per_thread_lines)
      BY <1>11, <1>12, <1>14, <1>15, <3>2
    <3> QED
      BY <3>1, <3>2
  <2>6. \A v \in Workers : v > cur_thread' => infos_map'[v] = <<>>
    <3>1. cur_thread' >= w
      BY <1>8, <1>9, <1>11
    <3>2. \A v \in Workers : v > cur_thread' => v > w
      BY <1>8, <1>9, <2>1, <3>1
    <3> QED
      BY <2>4, <3>2
  <2>7. ASSUME NEW v \in Workers, NEW p \in DOMAIN infos_map'[v], NEW c \in DOMAIN containers'
        PROVE  infos[infos_map'[v][p]].lba # containers'[c].lba
    <3>1. c + 1 \in DOMAIN containers /\ c + 1 # 1 /\ containers'[c] = containers[c + 1]
      BY <1>7
    <3>2. CASE Old(v, p)
      BY <1>1, <1>2, <3>1, <3>2 DEF Dealing
    <3>3. CASE New(v, p)
      <4>1. containers[c + 1].lba # L
        BY <1>1, <1>4, <3>1 DEF Gathered, L
      <4> QED
        BY <3>1, <3>3, <4>1
    <3> QED
      BY <1>17, <3>2, <3>3
  <2> QED
    BY <1>2, <2>1, <2>3, <2>5, <2>6, <2>7 DEF Dealing
<1>23. MapsApart'
  <2>1. ASSUME NEW u \in Workers, NEW v \in Workers,
               NEW p \in DOMAIN infos_map'[u], NEW q \in DOMAIN infos_map'[v],
               infos[infos_map'[u][p]].lba = infos[infos_map'[v][q]].lba
        PROVE  u = v
    <3>1. (Old(u, p) \/ New(u, p)) /\ (Old(v, q) \/ New(v, q))
      BY <1>17
    <3>2. CASE Old(u, p) /\ Old(v, q)
      BY <1>1, <2>1, <3>2 DEF MapsApart
    <3> QED
      BY <2>1, <3>1, <3>2
  <2>2. ASSUME NEW v \in Workers, NEW p \in DOMAIN infos_map'[v], NEW q \in DOMAIN infos_map'[v],
               infos_map'[v][p] = infos_map'[v][q]
        PROVE  p = q
    <3>1. (Old(v, p) \/ New(v, p)) /\ (Old(v, q) \/ New(v, q)) /\ p \in Nat /\ q \in Nat
      BY <1>17
    <3>2. CASE Old(v, p) /\ Old(v, q)
      BY <1>1, <2>2, <3>2 DEF MapsApart
    <3>3. CASE New(v, p) /\ New(v, q)
      <4> DEFINE i == p - Len(old)
                 j == q - Len(old)
      <4>1. i \in DOMAIN records /\ j \in DOMAIN records /\ records[i] = records[j]
            /\ records[i] \in Nat /\ records[j] \in Nat
        BY <1>5, <2>2, <3>3
      <4>2. ~ (i < j) /\ ~ (j < i)
        <5> HIDE DEF i, j
        <5> QED
          BY <1>6, <4>1
      <4> QED
        BY <1>10, <3>1, <4>2
    <3> QED
      BY <2>2, <3>1, <3>2, <3>3
  <2> QED
    BY <1>2, <2>1, <2>2 DEF MapsApart
<1>24. MapsInTraceOrder'
  <2>1. SortedWorkers = {} /\ SortedWorkers' = {}
    BY <1>1, <1>2, <1>8 DEF SortedWorkers, Phases
  <2>2. ASSUME NEW v \in Workers, NEW p \in DOMAIN infos_map'[v], NEW q \in DOMAIN infos_map'[v],
               p < q, infos[infos_map'[v][p]].lba = infos[infos_map'[v][q]].lba
        PROVE  infos_map'[v][p] < infos_map'[v][q]
    <3>1. (Old(v, p) \/ New(v, p)) /\ (Old(v, q) \/ New(v, q)) /\ p \in Nat /\ q \in Nat
      BY <1>17
    <3>2. CASE Old(v, p) /\ Old(v, q)
      BY <1>1, <2>1, <2>2, <3>2 DEF MapsInTraceOrder
    <3>3. CASE New(v, p) /\ New(v, q)
      <4>1. p - Len(old) < q - Len(old)
        BY <1>10, <2>2, <3>1
      <4> QED
        BY <1>6, <3>3, <4>1
    <3> QED
      BY <2>2, <3>1, <3>2, <3>3
  <2> QED
    BY <1>2, <2>1, <2>2 DEF MapsInTraceOrder
<1>25. FairMaps'
  <2> SUFFICES ASSUME NEW v \in Workers \ {opt.threads - 1}, infos_map'[v] # <<>>
               PROVE  \E n \in DOMAIN infos_map'[v] :
                        Cardinality(OtherLBAs(v, n)') < per_thread_lines \/ OtherLBAs(v, n)' = {}
    BY <1>2 DEF FairMaps
  <2>1. CASE v # w
    <3>1. infos_map'[v] = infos_map[v]
      BY <1>15, <2>1
    <3>2. \A n : OtherLBAs(v, n)' = OtherLBAs(v, n)
      BY <1>2, <3>1 DEF OtherLBAs
    <3> QED
      BY <1>1, <3>1, <3>2 DEF FairMaps
  <2>2. CASE v = w
    <3> DEFINE last == Len(old) + Len(records)
               Others == {m \in DOMAIN infos_map'[v] :
                            infos[infos_map'[v][m]].lba # infos[infos_map'[v][last]].lba}
    <3>1. last \in DOMAIN infos_map'[v] /\ last \in Nat /\ last > Len(old)
      BY <1>6, <1>10, <1>14, <1>15, <2>2
    <3>2. infos[infos_map'[v][last]].lba = L
      <4>1. ~ Old(v, last)
        BY <1>10, <2>2, <3>1 DEF old
      <4> QED
        BY <1>17, <3>1, <4>1
    <3>3. Others \subseteq 1 .. Len(old)
      <4> SUFFICES ASSUME NEW m \in Others
                   PROVE  m \in 1 .. Len(old)
        OBVIOUS
      <4>1. Old(v, m)
        BY <1>17, <3>2
      <4> QED
        BY <1>10, <2>2, <4>1 DEF old
    <3>4. Cardinality(Others) <= Len(old) /\ Cardinality(Others) \in Nat
      <4>1. IsFiniteSet(1 .. Len(old)) /\ Cardinality(1 .. Len(old)) = Len(old)
        <5>1. /\ IsFiniteSet(1 .. Len(old))
              /\ Cardinality(1 .. Len(old)) = IF 1 > Len(old) THEN 0 ELSE Len(old) - 1 + 1
          <6>1. 1 \in Int /\ Len(old) \in Int
            BY <1>10
          <6> QED
            BY <6>1, FS_Interval
        <5> QED
          BY <1>10, <5>1
      <4> QED
        BY <3>3, <4>1, FS_Subset, FS_CardinalityType
    <3>5. Len(old) < per_thread_lines \/ Len(old) = 0
      <4>1. CASE moveOn
        BY <1>9, <4>1
      <4>2. CASE ~ moveOn
        <5>1. w = cur_thread
          BY <4>2 DEF w
        <5>2. Len(old) = cur_lines
          BY <1>9, <4>2
        <5> QED
          BY <1>1, <1>2, <2>2, <5>1, <5>2 DEF Dealing
      <4> QED
        BY <4>1, <4>2
    <3>6. per_thread_lines \in Int
      <4>1. valid_lines \in Nat
        BY <1>1 DEF Typed, valid_lines
      <4> QED
        BY <1>8, <4>1 DEF per_thread_lines
    <3>7. Cardinality(Others) < per_thread_lines \/ Others = {}
      <4>1. CASE Len(old) = 0
        BY <3>3, <4>1
      <4>2. CASE Len(old) < per_thread_lines
        <5> HIDE DEF Others
        <5> QED
          BY <1>10, <3>4, <3>6, <4>2
      <4> QED
        BY <3>5, <4>1, <4>2
    <3>8. \A n : n = last => OtherLBAs(v, n)' = Others
      BY <1>2 DEF OtherLBAs
    <3>9. PICK n \in DOMAIN infos_map'[v] : n = last
      BY <3>1
    <3> HIDE DEF last, Others
    <3>10. OtherLBAs(v, n)' = Others
      BY <3>8, <3>9
    <3> QED
      BY <3>7, <3>10
  <2> QED
    BY <2>1, <2>2
<1> QED
  BY <1>19, <1>20, <1>21, <1>22, <1>23, <1>24, <1>25

\* A container dealt out keeps it: Dealing bounds the worker and its load.
LEMMA AssignStep == PlanIInv /\ AssignContainer => PlanIInv'
<1> SUFFICES ASSUME PlanIInv, AssignContainer
             PROVE  PlanIInv'
  OBVIOUS
<1>1. Typed /\ Phases /\ Gathered /\ Complete
      /\ MapsApart /\ MapsInTraceOrder /\ FairMaps
  BY DEF PlanIInv
<1>2. /\ phase = "assign" /\ opt' = opt /\ lines' = lines /\ infos' = infos
      /\ next_info' = next_info /\ worker' = worker /\ scan' = scan /\ hints' = hints
      /\ params' = params /\ worker = 0 /\ hints = <<>> /\ Workers' = Workers
      /\ valid_lines' = valid_lines /\ per_thread_lines' = per_thread_lines
  BY <1>1 DEF AssignContainer, Phases, Workers, valid_lines, per_thread_lines
<1>3. Unsorted' /\ Phases'
  BY <1>1, <1>2 DEF AssignContainer, Unsorted, Phases
<1>4. /\ Typed' /\ Gathered' /\ Complete' /\ Dealing'
      /\ MapsApart' /\ MapsInTraceOrder' /\ FairMaps'
  <2>1. CASE containers # <<>>
    BY <2>1, DealStep
  <2>2. CASE containers = <<>>
    <3>1. /\ containers' = containers /\ cur_thread' = cur_thread /\ cur_lines' = cur_lines
          /\ infos_map' = infos_map /\ phase' = "extract"
      BY <2>2 DEF AssignContainer
    <3>2. Typed' /\ Gathered' /\ Complete' /\ Dealing' /\ MapsApart'
      BY <1>1, <1>2, <3>1 DEF Typed, Gathered, Complete, Dealing, MapsApart
    <3>3. SortedWorkers' = SortedWorkers
      BY <1>2, <3>1 DEF SortedWorkers
    <3>4. MapsInTraceOrder'
      BY <1>1, <1>2, <3>1, <3>3 DEF MapsInTraceOrder
    <3>5. FairMaps'
      <4>1. \A v, n : OtherLBAs(v, n)' = OtherLBAs(v, n)
        BY <1>2, <3>1 DEF OtherLBAs
      <4> QED
        BY <1>1, <1>2, <3>1, <4>1 DEF FairMaps
    <3> QED
      BY <3>2, <3>4, <3>5
  <2> QED
    BY <2>1, <2>2
<1>5. (Unsorted /\ Typed => InTimeOrder /\ PlannedHints /\ Scanning /\ HintsCharged)'
  BY NothingSorted, PTL
<1> QED
  BY <1>3, <1>4, <1>5 DEF PlanIInv

----------------------------------------------------------------------------
(* Sorting a worker. *)

\* A step that leaves a worker's records, parameters and hints alone keeps
\* its plan.
LEMMA PlanKept ==
    ASSUME NEW w \in Workers, Typed, infos' = infos, opt' = opt,
           infos_map'[w] = infos_map[w], params'[w] = params[w],
           Len(hints') \in Nat, Len(hints) <= Len(hints'),
           \A h \in 1 .. Len(hints) : hints'[h] = hints[h],
           HintsRight(w)
    PROVE  HintsRight(w)'
<1> DEFINE s == params[w].start
           e == params[w].end
           upto == Len(infos_map[w])
           buf == params[w].buf
<1>1. /\ s \in Nat /\ e \in Nat /\ s < e /\ e <= Len(hints) /\ buf <= MaxBlks
      /\ Len(hints) \in Nat /\ Tiling(w, s + 1, e, upto, buf)
  BY DEF Typed, HintsRight
<1>2. /\ params'[w].start = s /\ params'[w].end = e /\ Len(infos_map'[w]) = upto
      /\ params'[w].buf = buf /\ MaxBlks' = MaxBlks
  BY DEF MaxBlks, Largest
<1>3. \A h \in s + 1 .. e : hints'[h] = hints[h]
  BY <1>1
<1>4. s + 1 \in s + 1 .. e /\ e \in s + 1 .. e
  BY <1>1
<1>5. \A h \in s + 1 .. e : h # e => h + 1 \in s + 1 .. e
  BY <1>1
<1>6. \A n : rec(w, n)' = rec(w, n)
  BY DEF rec
<1>7. \A start, blks : OneRange(w, start, blks) => OneRange(w, start, blks)'
  BY <1>6 DEF OneRange
<1>8. \A start, blks : EndsRange(w, start, blks) => EndsRange(w, start, blks)'
  BY <1>6 DEF EndsRange
<1> HIDE DEF s, e, upto, buf
<1>9. PICK first, last, total, size :
        first = s + 1 /\ last = e /\ total = upto /\ size = buf
  OBVIOUS
<1>10. Tiling(w, first, last, total, size)'
  <2>1. hints'[first].start = 0 /\ hints'[last].start + hints'[last].blks = total
    BY <1>1, <1>3, <1>4, <1>9 DEF Tiling
  <2>2. ASSUME NEW h \in first .. last
        PROVE  /\ hints'[h].blks \in 1 .. size
               /\ hints'[h].start + hints'[h].blks <= Len(infos_map'[w])
               /\ (hints[h].rw = rec(w, hints[h].start).rw)'
               /\ OneRange(w, hints[h].start, hints[h].blks)'
               /\ h # last => /\ hints'[h].start + hints'[h].blks = hints'[h + 1].start
                              /\ EndsRange(w, hints[h].start, hints[h].blks)'
    <3>1. /\ hints[h].blks \in 1 .. buf
          /\ hints[h].start + hints[h].blks <= Len(infos_map[w])
          /\ hints[h].rw = rec(w, hints[h].start).rw
          /\ OneRange(w, hints[h].start, hints[h].blks)
          /\ h # e => /\ hints[h].start + hints[h].blks = hints[h + 1].start
                      /\ EndsRange(w, hints[h].start, hints[h].blks)
      BY <1>1, <1>9, Zenon DEF Tiling
    <3>2. hints'[h] = hints[h] /\ (h # e => hints'[h + 1] = hints[h + 1])
      BY <1>3, <1>5, <1>9
    <3>3. PICK st, bl : st = hints[h].start /\ bl = hints[h].blks
      OBVIOUS
    <3>4. OneRange(w, st, bl)' /\ (h # e => EndsRange(w, st, bl)') /\ rec(w, st)' = rec(w, st)
      BY <1>6, <1>7, <1>8, <3>1, <3>3, Zenon
    <3>5. OneRange(w, hints[h].start, hints[h].blks)'
      BY <3>2, <3>3, <3>4 DEF OneRange, rec
    <3>6. h # e => EndsRange(w, hints[h].start, hints[h].blks)'
      BY <3>2, <3>3, <3>4 DEF EndsRange, rec
    <3>7. (hints[h].rw = rec(w, hints[h].start).rw)'
      BY <3>1, <3>2, <3>3, <3>4 DEF rec
    <3> QED
      BY <1>9, <3>1, <3>2, <3>5, <3>6, <3>7
  <2> QED
    BY <2>1, <2>2 DEF Tiling
<1>11. Tiling(w, params[w].start + 1, params[w].end, Len(infos_map[w]), params[w].buf)'
  BY <1>2, <1>9, <1>10 DEF Tiling
<1> QED
  BY <1>1, <1>2, <1>11 DEF HintsRight

\* A step that only leaves a phase in which no worker is being scanned.
LEMMA PhaseStep ==
    ASSUME PlanIInv, phase \in {"extract", "ready"},
           phase' \notin {"parse", "build", "sort", "assign", "scan"},
           phase' = "ready" => worker = opt.threads,
           UNCHANGED <<opt, lines, infos, next_info, containers, cur_thread, cur_lines,
                       infos_map, worker, scan, hints, params>>
    PROVE  PlanIInv'
<1>1. /\ Typed /\ Phases /\ Gathered /\ Complete /\ Dealing
      /\ MapsApart /\ MapsInTraceOrder /\ InTimeOrder /\ FairMaps
      /\ PlannedHints /\ Scanning /\ HintsCharged
  BY DEF PlanIInv
<1>2. SortedWorkers' = SortedWorkers /\ PlannedWorkers' = PlannedWorkers
      /\ Workers' = Workers /\ valid_lines' = valid_lines /\ MaxBlks' = MaxBlks
      /\ per_thread_lines' = per_thread_lines
  BY DEF SortedWorkers, PlannedWorkers, Workers, valid_lines, MaxBlks, Largest, per_thread_lines
<1>3. Typed'
  BY <1>1, <1>2 DEF Typed
<1>4. Phases'
  BY <1>1, <1>2 DEF Phases
<1>5. Gathered' /\ Complete' /\ Dealing' /\ MapsApart'
  BY <1>1, <1>2 DEF Gathered, Complete, Dealing, MapsApart
<1>6. MapsInTraceOrder' /\ InTimeOrder'
  BY <1>1, <1>2 DEF MapsInTraceOrder, InTimeOrder
<1>7. FairMaps'
  <2>1. \A v, n : OtherLBAs(v, n)' = OtherLBAs(v, n)
    BY DEF OtherLBAs
  <2> QED
    BY <1>1, <1>2, <2>1 DEF FairMaps
<1>8. PlannedHints'
  <2> SUFFICES ASSUME NEW w \in PlannedWorkers
               PROVE  HintsRight(w)'
    BY <1>2 DEF PlannedHints
  <2>1. w \in Workers /\ HintsRight(w) /\ Len(hints) \in Nat
    BY <1>1 DEF PlannedHints, PlannedWorkers, Typed
  <2> QED
    BY <1>1, <2>1, PlanKept
<1>9. Scanning'
  BY DEF Scanning
<1>10. HintsCharged'
  BY <1>1, <1>2 DEF HintsCharged
<1> QED
  BY <1>3, <1>4, <1>5, <1>6, <1>7, <1>8, <1>9, <1>10 DEF PlanIInv

\* The fault of a worker without records changes nothing else.
LEMMA SortEmptyWorkerStep == PlanIInv /\ SortEmptyWorker => PlanIInv'
  BY PhaseStep DEF SortEmptyWorker

\* The end of the planning changes nothing else.
LEMMA PlannedStep == PlanIInv /\ Planned => PlanIInv'
  BY PhaseStep DEF Planned

\* A sorted worker has the records it had, in the order InTimeOrder asks for.
LEMMA SortWorkerStep == PlanIInv /\ SortWorker => PlanIInv'
<1> SUFFICES ASSUME PlanIInv, SortWorker
             PROVE  PlanIInv'
  OBVIOUS
<1>1. /\ Typed /\ Phases /\ Gathered /\ Complete
      /\ MapsApart /\ MapsInTraceOrder /\ InTimeOrder /\ FairMaps
      /\ PlannedHints /\ HintsCharged
  BY DEF PlanIInv
<1>2. /\ phase = "extract" /\ phase' = "scan" /\ opt' = opt /\ lines' = lines
      /\ infos' = infos /\ next_info' = next_info /\ containers' = containers
      /\ cur_thread' = cur_thread /\ cur_lines' = cur_lines /\ worker' = worker
      /\ hints' = hints /\ scan' = [j |-> 1, start |-> 0, max |-> 0]
      /\ params' = [params EXCEPT ![worker].start = Len(hints)]
      /\ infos_map[worker] # <<>> /\ worker < opt.threads
      /\ infos_map' = [infos_map EXCEPT ![worker] = _trace_infomap_msort_by_ts(@)]
      /\ Workers' = Workers /\ valid_lines' = valid_lines /\ MaxBlks' = MaxBlks
      /\ per_thread_lines' = per_thread_lines /\ PlannedWorkers' = PlannedWorkers
  BY DEF SortWorker, Workers, valid_lines, MaxBlks, Largest, per_thread_lines, PlannedWorkers
<1>3. /\ opt.threads \in Nat \ {0} /\ opt.maxblks \in Nat
      /\ \A w \in Workers : w \in Nat /\ w < opt.threads
      /\ worker \in Workers /\ worker \in Nat
  <2>1. opt \in Options /\ worker \in 0 .. opt.threads
    BY <1>1 DEF Typed
  <2>2. opt.threads \in Nat \ {0} /\ opt.maxblks \in Nat
    BY <2>1, OptFacts
  <2>3. \A w \in Workers : w \in Nat /\ w < opt.threads
    BY <2>1, OptFacts
  <2> QED
    BY <1>2, <2>1, <2>2, <2>3 DEF Workers
<1> DEFINE records == infos_map[worker]
           n == Len(records)
<1>4. /\ infos_map \in [Workers -> Seq(DOMAIN infos)]
      /\ \A w \in Workers : infos_map[w] \in Seq(DOMAIN infos)
      /\ infos \in Seq(Records) /\ containers = <<>>
  BY <1>1, <1>2 DEF Typed, Phases
<1>5. /\ records \in Seq(DOMAIN infos) /\ n \in Nat \ {0} /\ DOMAIN records = 1 .. n
      /\ \A x \in 1 .. n : records[x] \in DOMAIN infos
  <2>1. records \in Seq(DOMAIN infos) /\ records # <<>>
    BY <1>2, <1>3, <1>4
  <2> HIDE DEF records
  <2> QED
    BY <2>1
<1>6. \A m \in DOMAIN infos : infos[m].ts \in Nat /\ infos[m].lba \in Nat /\ m \in Nat
  <2> SUFFICES ASSUME NEW m \in DOMAIN infos
               PROVE  infos[m].ts \in Nat /\ infos[m].lba \in Nat /\ m \in Nat
    OBVIOUS
  <2>1. infos[m] \in Records /\ m \in Nat
    BY <1>4
  <2> QED
    BY <2>1 DEF Records
<1>7. PICK p \in Bijection(1 .. n, 1 .. n) :
          /\ _trace_infomap_msort_by_ts(records) = [k \in 1 .. n |-> records[p[k]]]
          /\ \A k, l \in 1 .. n : k < l => Earlier(records, p[k], p[l])
  <2>1. \A x \in 1 .. n : infos[records[x]].ts \in Nat
    BY <1>5, <1>6
  <2> HIDE DEF records, n
  <2>2. Len(records) = n
    BY DEF n
  <2> QED
    BY <1>5, <2>1, <2>2, MergeSortSorts
<1>8. /\ p \in [1 .. n -> 1 .. n]
      /\ \A k, l \in 1 .. n : p[k] = p[l] => k = l
      /\ \A x \in 1 .. n : \E k \in 1 .. n : p[k] = x
  BY <1>7 DEF Bijection, Injection, Surjection, IsInjective
<1> DEFINE sorted == [k \in 1 .. n |-> records[p[k]]]
<1>9. /\ infos_map'[worker] = sorted /\ infos_map' \in [Workers -> Seq(DOMAIN infos)]
      /\ \A w \in Workers : w # worker => infos_map'[w] = infos_map[w]
      /\ DOMAIN sorted = 1 .. n /\ Len(sorted) = n /\ sorted \in Seq(DOMAIN infos)
  <2>1. \A k \in 1 .. n : records[p[k]] \in DOMAIN infos
    BY <1>5, <1>8
  <2>2. sorted \in [1 .. n -> DOMAIN infos] /\ DOMAIN sorted = 1 .. n
    BY <2>1
  <2>3. sorted \in Seq(DOMAIN infos) /\ Len(sorted) = n
    <3> HIDE DEF sorted, n
    <3> QED
      BY <1>5, <2>2
  <2>4. infos_map' = [infos_map EXCEPT ![worker] = sorted]
    BY <1>2, <1>7
  <2> HIDE DEF sorted
  <2> QED
    BY <1>3, <1>4, <2>2, <2>3, <2>4
<1>10. \A k \in 1 .. n : p[k] \in 1 .. n /\ infos_map'[worker][k] = infos_map[worker][p[k]]
  BY <1>8, <1>9
<1>11. DOMAIN infos_map[worker] = 1 .. n /\ DOMAIN infos_map'[worker] = 1 .. n
  BY <1>5, <1>9
<1> HIDE DEF sorted, records, n
<1>12. /\ SortedWorkers = PlannedWorkers /\ SortedWorkers' = PlannedWorkers \cup {worker}
       /\ \A w \in PlannedWorkers : w \in Workers /\ w # worker /\ w < worker
  BY <1>2, <1>3 DEF SortedWorkers, PlannedWorkers
<1>13. params' \in [Workers -> [start : Nat, end : Nat, buf : Nat]]
       /\ params'[worker].start = Len(hints)
       /\ \A w \in Workers : w # worker => params'[w] = params[w]
  <2>1. params \in [Workers -> [start : Nat, end : Nat, buf : Nat]] /\ Len(hints) \in Nat
    BY <1>1 DEF Typed
  <2> QED
    BY <1>2, <1>3, <2>1
<1>14. Typed'
  BY <1>1, <1>2, <1>9, <1>13 DEF Typed
<1>15. Phases'
  BY <1>1, <1>2, <1>3 DEF Phases
<1>16. Gathered' /\ Dealing'
  BY <1>1, <1>2 DEF Gathered, Dealing
<1>17. Complete'
  <2> SUFFICES ASSUME NEW m \in 1 .. next_info - 1
               PROVE  \E w \in Workers : \E q \in DOMAIN infos_map'[w] : infos_map'[w][q] = m
    BY <1>2 DEF Complete
  <2>1. PICK w \in Workers : \E q \in DOMAIN infos_map[w] : infos_map[w][q] = m
    BY <1>1, <1>4 DEF Complete
  <2>2. CASE w # worker
    BY <1>9, <2>1, <2>2
  <2>3. CASE w = worker
    <3>1. PICK q \in 1 .. n : infos_map[worker][q] = m
      BY <1>11, <2>1, <2>3
    <3>2. PICK k \in 1 .. n : p[k] = q
      BY <1>8
    <3> QED
      BY <1>3, <1>10, <1>11, <3>1, <3>2
  <2> QED
    BY <2>2, <2>3
\* Every record of the sorted map was in the map before.
<1>18. ASSUME NEW w \in Workers, NEW q \in DOMAIN infos_map'[w]
       PROVE  \E x \in DOMAIN infos_map[w] :
                    /\ infos_map'[w][q] = infos_map[w][x]
                    /\ x = IF w = worker THEN p[q] ELSE q
  BY <1>9, <1>10, <1>11
<1>19. MapsApart'
  <2>1. ASSUME NEW v \in Workers, NEW w \in Workers,
               NEW q \in DOMAIN infos_map'[v], NEW r \in DOMAIN infos_map'[w],
               infos[infos_map'[v][q]].lba = infos[infos_map'[w][r]].lba
        PROVE  v = w
    BY <1>1, <1>18, <2>1 DEF MapsApart
  <2>2. ASSUME NEW w \in Workers,
               NEW q \in DOMAIN infos_map'[w], NEW r \in DOMAIN infos_map'[w],
               infos_map'[w][q] = infos_map'[w][r]
        PROVE  q = r
    <3>1. CASE w # worker
      BY <1>1, <1>9, <2>2, <3>1 DEF MapsApart
    <3>2. CASE w = worker
      <4>1. q \in 1 .. n /\ r \in 1 .. n /\ infos_map[worker][p[q]] = infos_map[worker][p[r]]
        BY <1>10, <1>11, <2>2, <3>2
      <4>2. p[q] = p[r]
        BY <1>1, <1>3, <1>10, <1>11, <4>1 DEF MapsApart
      <4> QED
        BY <1>8, <4>1, <4>2
    <3> QED
      BY <3>1, <3>2
  <2> QED
    BY <1>2, <2>1, <2>2 DEF MapsApart
<1>20. MapsInTraceOrder'
  BY <1>1, <1>2, <1>9, <1>12 DEF MapsInTraceOrder
<1>21. InTimeOrder'
  <2>1. ASSUME NEW w \in PlannedWorkers,
               NEW q \in DOMAIN infos_map'[w], NEW r \in DOMAIN infos_map'[w], q < r
        PROVE  LET l == infos_map'[w][q]
                   m == infos_map'[w][r]
               IN  \/ infos[l].ts < infos[m].ts
                   \/ infos[l].ts = infos[m].ts /\ (infos[l].lba = infos[m].lba => l < m)
    <3>1. infos_map'[w] = infos_map[w] /\ w \in SortedWorkers
      BY <1>9, <1>12
    <3> QED
      BY <1>1, <2>1, <3>1 DEF InTimeOrder
  <2>2. ASSUME NEW q \in DOMAIN infos_map'[worker], NEW r \in DOMAIN infos_map'[worker], q < r
        PROVE  LET l == infos_map'[worker][q]
                   m == infos_map'[worker][r]
               IN  \/ infos[l].ts < infos[m].ts
                   \/ infos[l].ts = infos[m].ts /\ (infos[l].lba = infos[m].lba => l < m)
    <3>1. q \in 1 .. n /\ r \in 1 .. n
      BY <1>11
    <3> DEFINE l == infos_map'[worker][q]
               m == infos_map'[worker][r]
    <3>2. l = records[p[q]] /\ m = records[p[r]] /\ p[q] \in 1 .. n /\ p[r] \in 1 .. n
      BY <1>10, <3>1 DEF records
    <3>3. Earlier(records, p[q], p[r])
      BY <1>7, <2>2, <3>1
    <3>4. p[q] < p[r] /\ infos[l].lba = infos[m].lba => l < m
      <4>1. worker \in Workers \ SortedWorkers
        BY <1>3, <1>12
      <4> QED
        BY <1>1, <1>11, <3>2, <4>1 DEF MapsInTraceOrder, records
    <3> QED
      BY <3>2, <3>3, <3>4 DEF Earlier
  <2> QED
    BY <1>2, <1>12, <2>1, <2>2 DEF InTimeOrder
<1>22. FairMaps'
  <2> SUFFICES ASSUME NEW w \in Workers \ {opt.threads - 1}, infos_map'[w] # <<>>
               PROVE  \E m \in DOMAIN infos_map'[w] :
                        Cardinality(OtherLBAs(w, m)') < per_thread_lines
                            \/ OtherLBAs(w, m)' = {}
    BY <1>2 DEF FairMaps
  <2>1. CASE w # worker
    <3>1. \A m : OtherLBAs(w, m)' = OtherLBAs(w, m)
      BY <1>2, <1>9, <2>1 DEF OtherLBAs
    <3> QED
      BY <1>1, <1>9, <2>1, <3>1 DEF FairMaps
  <2>2. CASE w = worker
    <3>1. PICK x \in DOMAIN infos_map[worker] :
            Cardinality(OtherLBAs(worker, x)) < per_thread_lines \/ OtherLBAs(worker, x) = {}
      BY <1>1, <1>2, <1>3, <2>2 DEF FairMaps
    <3>2. PICK k \in 1 .. n : p[k] = x
      BY <1>8, <1>11
    <3> DEFINE S == OtherLBAs(worker, x)
               T == OtherLBAs(w, k)'
               f == [m \in T |-> p[m]]
    <3>3. \A m \in T : m \in 1 .. n /\ p[m] \in S
      BY <1>2, <1>10, <1>11, <2>2, <3>2 DEF OtherLBAs
    <3>4. f \in Injection(T, S)
      BY <1>8, <3>3 DEF Injection, IsInjective
    <3>5. IsFiniteSet(S)
      <4>1. IsFiniteSet(1 .. n)
        BY <1>5, FS_Interval
      <4>2. S \subseteq 1 .. n
        BY <1>11 DEF OtherLBAs
      <4> QED
        BY <4>1, <4>2, FS_Subset
    <3>6. Cardinality(T) <= Cardinality(S) /\ IsFiniteSet(T)
      <4> HIDE DEF f, T, S
      <4> QED
        BY <3>4, <3>5, FS_Injection
    <3>7. Cardinality(T) \in Nat /\ Cardinality(S) \in Nat
      BY <3>5, <3>6, FS_CardinalityType
    <3>8. per_thread_lines \in Int
      <4>1. valid_lines \in Nat
        BY <1>1 DEF Typed, valid_lines
      <4> QED
        BY <1>3, <4>1 DEF per_thread_lines
    <3>9. Cardinality(T) < per_thread_lines \/ T = {}
      <4>1. CASE S = {}
        BY <3>3, <4>1
      <4>2. CASE Cardinality(S) < per_thread_lines
        <5> HIDE DEF T, S
        <5> QED
          BY <3>6, <3>7, <3>8, <4>2
      <4> QED
        BY <3>1, <4>1, <4>2
    <3>10. k \in DOMAIN infos_map'[w]
      BY <1>11, <2>2
    <3> QED
      BY <3>9, <3>10
  <2> QED
    BY <2>1, <2>2
<1>23. PlannedHints'
  <2> SUFFICES ASSUME NEW w \in PlannedWorkers
               PROVE  HintsRight(w)'
    BY <1>2 DEF PlannedHints
  <2>1. w \in Workers /\ HintsRight(w) /\ Len(hints) \in Nat
    BY <1>1, <1>12 DEF PlannedHints, Typed
  <2>2. params'[w] = params[w] /\ infos_map'[w] = infos_map[w]
    BY <1>9, <1>12, <1>13
  <2> QED
    BY <1>1, <1>2, <2>1, <2>2, PlanKept
<1>24. Scanning'
  <2>1. scan'.j = 1 /\ scan'.start = 0 /\ scan'.max = 0
    BY <1>2
  <2>2. MaxBlks \in Nat /\ 1 <= MaxBlks
    BY <1>3 DEF MaxBlks, Largest
  <2>3. Len(infos_map'[worker]) = n /\ 1 <= n
    BY <1>5, <1>9
  <2>4. OneRange(worker, scan.start, scan.j - scan.start)'
    <3> SUFFICES ASSUME NEW m \in 0 .. 0
                 PROVE  (/\ rec(worker, scan.start + m).rw = rec(worker, scan.start).rw
                         /\ rec(worker, scan.start + m).lba
                                = rec(worker, scan.start).lba + m * BlkSectors)'
      BY <2>1 DEF OneRange
    <3>1. m = 0 /\ 0 + 1 = 1 /\ 0 + 0 = 0
      OBVIOUS
    <3>2. infos'[infos_map'[worker'][1]].lba \in Nat
      <4>1. infos_map'[worker][1] \in DOMAIN infos
        BY <1>5, <1>9
      <4> QED
        BY <1>2, <1>6, <4>1
    <3>3. \A y \in Nat : y + 0 * BlkSectors = y
      BY BlkSectorsAssumption
    <3> QED
      BY <2>1, <3>1, <3>2, <3>3 DEF rec
  <2> QED
    BY <1>2, <1>13, <2>1, <2>2, <2>3, <2>4 DEF Scanning
<1>25. HintsCharged'
  <2>1. PICK f \in [DOMAIN hints -> DOMAIN infos] :
            /\ \A g, h \in DOMAIN hints : f[g] = f[h] => g = h
            /\ \A h \in DOMAIN hints : \E w \in SortedWorkers : \E q \in DOMAIN infos_map[w] :
                /\ f[h] = infos_map[w][q]
                /\ w = worker => q <= scan.start
    BY <1>1 DEF HintsCharged
  <2>2. \A h \in DOMAIN hints : \E w \in SortedWorkers' : \E q \in DOMAIN infos_map'[w] :
                /\ f[h] = infos_map'[w][q]
                /\ w = worker => q <= scan'.start
    BY <1>9, <1>12, <2>1
  <2> QED
    BY <1>2, <2>1, <2>2 DEF HintsCharged
<1> QED
  BY <1>14, <1>15, <1>16, <1>17, <1>19, <1>20, <1>21, <1>22, <1>23, <1>24, <1>25 DEF PlanIInv

----------------------------------------------------------------------------
(* Scanning a worker's records. *)

\* What the scan has at hand.
LEMMA ScanFacts ==
    ASSUME PlanIInv, phase = "scan"
    PROVE  /\ worker \in Workers /\ worker \in Nat /\ worker < opt.threads
           /\ scan \in [j : Nat, start : Nat, max : Nat]
           /\ scan.j \in Nat /\ scan.start \in Nat /\ scan.max \in Nat
           /\ scan.start < scan.j /\ scan.j <= Len(infos_map[worker])
           /\ infos_map \in [Workers -> Seq(DOMAIN infos)]
           /\ infos_map[worker] \in Seq(DOMAIN infos) /\ Len(infos_map[worker]) \in Nat
           /\ \A n \in 0 .. Len(infos_map[worker]) - 1 :
                /\ infos_map[worker][n + 1] \in DOMAIN infos
                /\ rec(worker, n) \in Records
                /\ rec(worker, n).lba \in Nat /\ rec(worker, n).rw \in {"R", "W"}
           /\ MaxBlks \in Nat /\ 1 <= MaxBlks /\ opt.maxblks <= MaxBlks /\ opt.maxblks \in Nat
           /\ hints \in Seq(HintType) /\ Len(hints) \in Nat
           /\ params \in [Workers -> [start : Nat, end : Nat, buf : Nat]]
           /\ params[worker].start \in Nat /\ params[worker].start <= Len(hints)
<1>1. Typed /\ Phases /\ Scanning
  BY DEF PlanIInv
<1>2. /\ opt.threads \in Nat \ {0} /\ opt.maxblks \in Nat
      /\ \A w \in Workers : w \in Nat /\ w < opt.threads
  BY <1>1, OptFacts DEF Typed
<1>3. worker \in Workers /\ worker \in Nat /\ worker < opt.threads
  BY <1>1, <1>2 DEF Typed, Phases, Workers
<1>4. /\ infos_map \in [Workers -> Seq(DOMAIN infos)] /\ infos \in Seq(Records)
      /\ scan \in [j : Nat, start : Nat, max : Nat]
      /\ hints \in Seq(HintType) /\ Len(hints) \in Nat
      /\ params \in [Workers -> [start : Nat, end : Nat, buf : Nat]]
  BY <1>1 DEF Typed
<1>5. infos_map[worker] \in Seq(DOMAIN infos) /\ Len(infos_map[worker]) \in Nat
  BY <1>3, <1>4
<1>6. ASSUME NEW n \in 0 .. Len(infos_map[worker]) - 1
      PROVE  /\ infos_map[worker][n + 1] \in DOMAIN infos
             /\ rec(worker, n) \in Records
             /\ rec(worker, n).lba \in Nat /\ rec(worker, n).rw \in {"R", "W"}
  <2>1. infos_map[worker][n + 1] \in DOMAIN infos
    <3>1. n + 1 \in 1 .. Len(infos_map[worker])
      BY <1>5
    <3> QED
      BY <1>5, <3>1, ElementOfSeq
  <2>2. rec(worker, n) \in Records
    BY <1>4, <2>1 DEF rec
  <2> QED
    BY <2>1, <2>2 DEF Records
<1>7. MaxBlks \in Nat /\ 1 <= MaxBlks /\ opt.maxblks <= MaxBlks
  BY <1>2 DEF MaxBlks, Largest
<1>8. params[worker].start \in Nat /\ params[worker].start <= Len(hints)
  BY <1>1, <1>3, <1>4 DEF Scanning
<1> QED
  BY <1>1, <1>2, <1>3, <1>4, <1>5, <1>6, <1>7, <1>8 DEF Scanning

\* A tiling in terms of values is one in terms of the variables that have them.
TilingNamed ==
    \A w, first, last, upto, buf :
        /\ worker = w /\ params[w].start + 1 = first /\ Len(hints) = last
        /\ scan.start = upto /\ scan.max = buf
        /\ Tiling(w, first, last, upto, buf)
        => Tiling(worker, params[worker].start + 1, Len(hints), scan.start, scan.max)

\* The same of the tiling of all the records of a worker.
TilingClosed ==
    \A w, first, last, upto, buf :
        /\ params[w].start + 1 = first /\ params[w].end = last
        /\ Len(infos_map[w]) = upto /\ params[w].buf = buf
        /\ Tiling(w, first, last, upto, buf)
        => Tiling(w, params[w].start + 1, params[w].end, Len(infos_map[w]), params[w].buf)

\* Both hold in every state, so also in the state after a step.
LEMMA TilingNames == TilingNamed /\ TilingClosed
<1>1. TilingNamed
  BY Zenon DEF TilingNamed
<1>2. TilingClosed
  BY Zenon DEF TilingClosed
<1> QED
  BY <1>1, <1>2

\* Both hold in the state after a step.
LEMMA TilingNamesNext == TilingNamed' /\ TilingClosed'
  BY TilingNames, PTL

\* A hint is added for the range collected so far.
LEMMA HintAdded ==
    ASSUME PlanIInv, phase = "scan", hints' = Append(hints, HintUpTo(scan.j)),
           infos' = infos, opt' = opt, infos_map' = infos_map
    PROVE  /\ hints' \in Seq(HintType) /\ Len(hints') = Len(hints) + 1
           /\ \A h \in 1 .. Len(hints) : hints'[h] = hints[h]
           /\ hints'[Len(hints) + 1].start = scan.start
           /\ hints'[Len(hints) + 1].blks = scan.j - scan.start
           /\ Largest(scan.max, scan.j - scan.start) \in Nat
           /\ Largest(scan.max, scan.j - scan.start) <= MaxBlks
           /\ \A w, first, last, upto, buf :
                w = worker /\ first = params[worker].start + 1 /\ last = Len(hints) + 1
                    /\ upto = scan.j /\ buf = Largest(scan.max, scan.j - scan.start)
                => Tiling(w, first, last, upto, buf)'
<1> DEFINE j == scan.j
           st == scan.start
           n == Len(hints)
           s == params[worker].start
           size == Largest(scan.max, j - st)
           new == HintUpTo(j)
<1>1. Typed /\ Scanning
  BY DEF PlanIInv
<1>2. /\ worker \in Workers /\ j \in Nat /\ st \in Nat /\ scan.max \in Nat
      /\ st < j /\ j <= Len(infos_map[worker]) /\ Len(infos_map[worker]) \in Nat
      /\ hints \in Seq(HintType) /\ n \in Nat /\ s \in Nat /\ s <= n
      /\ rec(worker, st).rw \in {"R", "W"} /\ MaxBlks \in Nat
  <2>1. scan.start \in 0 .. Len(infos_map[worker]) - 1
    BY ScanFacts
  <2> QED
    BY <2>1, ScanFacts
<1>3. /\ OneRange(worker, st, j - st) /\ j - st <= MaxBlks /\ scan.max <= MaxBlks
      /\ IF s = n THEN st = 0
         ELSE /\ Tiling(worker, s + 1, n, st, scan.max)
              /\ EndsRange(worker, hints[n].start, hints[n].blks)
  BY <1>1 DEF Scanning
<1>4. /\ new.blks = j - st /\ new.start = st /\ new.rw = rec(worker, st).rw
      /\ new \in HintType
  <2>1. new = [blks |-> j - st, start |-> st, rw |-> rec(worker, st).rw]
    BY DEF HintUpTo, Record, rec
  <2>2. j - st \in Nat
    BY <1>2
  <2> HIDE DEF new, j, st
  <2> QED
    BY <1>2, <2>1, <2>2 DEF HintType
<1> HIDE DEF new, j, st, n, s
<1>5. /\ hints' \in Seq(HintType) /\ Len(hints') = n + 1
      /\ \A h \in 1 .. n : hints'[h] = hints[h]
      /\ hints'[n + 1] = new
  BY <1>2, <1>4, AppendFacts DEF n, new, j
<1>6. /\ size \in Nat /\ size <= MaxBlks /\ j - st \in 1 .. size /\ scan.max <= size
  BY <1>2, <1>3 DEF Largest
<1>7. \A m : rec(worker, m)' = rec(worker, m) \/ worker' # worker
  BY DEF rec
<1> HIDE DEF size
<1>8. ASSUME NEW w, NEW first, NEW last, NEW upto, NEW buf,
             w = worker, first = s + 1, last = n + 1, upto = j, buf = size
      PROVE  Tiling(w, first, last, upto, buf)'
  <2>1. \A m : rec(w, m)' = rec(w, m)
    BY DEF rec
  <2>2. \A start, blks : OneRange(w, start, blks) => OneRange(w, start, blks)'
    BY <2>1 DEF OneRange
  <2>3. \A start, blks : EndsRange(w, start, blks) => EndsRange(w, start, blks)'
    BY <2>1 DEF EndsRange
  <2>4. hints'[first].start = 0
    <3>1. CASE s = n
      BY <1>3, <1>4, <1>5, <1>8, <3>1
    <3>2. CASE s # n
      <4>1. s + 1 \in 1 .. n
        BY <1>2, <3>2
      <4> QED
        BY <1>3, <1>5, <1>8, <3>2, <4>1 DEF Tiling
    <3> QED
      BY <3>1, <3>2
  <2>5. hints'[last].start + hints'[last].blks = upto
    BY <1>2, <1>4, <1>5, <1>8
  <2>6. ASSUME NEW h \in first .. last
        PROVE  /\ hints'[h].blks \in 1 .. buf
               /\ hints'[h].start + hints'[h].blks <= Len(infos_map'[w])
               /\ (hints[h].rw = rec(w, hints[h].start).rw)'
               /\ OneRange(w, hints[h].start, hints[h].blks)'
               /\ h # last => /\ hints'[h].start + hints'[h].blks = hints'[h + 1].start
                              /\ EndsRange(w, hints[h].start, hints[h].blks)'
    <3>1. CASE h = last
      <4>1. hints'[h] = new
        BY <1>5, <1>8, <3>1
      <4>2. OneRange(w, hints[h].start, hints[h].blks)'
        <5>1. PICK a, b : a = st /\ b = j - st
          OBVIOUS
        <5>2. OneRange(w, a, b)'
          BY <1>3, <1>8, <2>2, <5>1
        <5>3. hints'[h].start = a /\ hints'[h].blks = b
          BY <1>4, <4>1, <5>1
        <5> QED
          BY <5>2, <5>3 DEF OneRange, rec
      <4>3. (hints[h].rw = rec(w, hints[h].start).rw)'
        <5>1. PICK a : a = st
          OBVIOUS
        <5>2. hints'[h].rw = rec(w, a).rw /\ hints'[h].start = a
          BY <1>4, <1>8, <4>1, <5>1
        <5> QED
          BY <2>1, <5>2 DEF rec
      <4>4. hints'[h].blks \in 1 .. buf
            /\ hints'[h].start + hints'[h].blks <= Len(infos_map'[w])
        BY <1>2, <1>4, <1>6, <1>8, <4>1
      <4> QED
        BY <3>1, <4>2, <4>3, <4>4
    <3>2. CASE h # last
      <4>1. h \in s + 1 .. n /\ h \in 1 .. n /\ s # n /\ s + 1 <= n
        BY <1>2, <1>8, <2>6, <3>2
      <4>2. hints'[h] = hints[h]
        BY <1>5, <4>1
      <4>3. /\ hints[h].blks \in 1 .. scan.max
            /\ hints[h].start + hints[h].blks <= Len(infos_map[w])
            /\ hints[h].rw = rec(w, hints[h].start).rw
            /\ OneRange(w, hints[h].start, hints[h].blks)
            /\ h # n => /\ hints[h].start + hints[h].blks = hints[h + 1].start
                        /\ EndsRange(w, hints[h].start, hints[h].blks)
        BY <1>3, <1>8, <4>1, Zenon DEF Tiling
      <4>4. hints[n].start + hints[n].blks = st
        BY <1>3, <4>1, Zenon DEF Tiling
      <4>5. EndsRange(w, hints[h].start, hints[h].blks)
            /\ hints'[h].start + hints'[h].blks = hints'[h + 1].start
        <5>1. CASE h = n
          <6>1. hints'[h + 1].start = st
            BY <1>4, <1>5, <5>1
          <6> QED
            BY <1>3, <1>8, <4>1, <4>2, <4>4, <5>1, <6>1
        <5>2. CASE h # n
          <6>1. h + 1 \in 1 .. n
            BY <1>2, <4>1, <5>2
          <6>2. hints'[h + 1] = hints[h + 1]
            BY <1>5, <6>1
          <6> QED
            BY <4>2, <4>3, <5>2, <6>2
        <5> QED
          BY <5>1, <5>2
      <4>6. PICK a, b : a = hints[h].start /\ b = hints[h].blks
        OBVIOUS
      <4>7. OneRange(w, a, b)' /\ EndsRange(w, a, b)' /\ rec(w, a)' = rec(w, a)
        BY <2>1, <2>2, <2>3, <4>3, <4>5, <4>6, Zenon
      <4>8. OneRange(w, hints[h].start, hints[h].blks)'
        BY <4>2, <4>6, <4>7 DEF OneRange, rec
      <4>9. EndsRange(w, hints[h].start, hints[h].blks)'
        BY <4>2, <4>6, <4>7 DEF EndsRange, rec
      <4>10. (hints[h].rw = rec(w, hints[h].start).rw)'
        BY <4>2, <4>3, <4>6, <4>7 DEF rec
      <4>11. hints'[h].blks \in 1 .. buf
        BY <1>2, <1>6, <1>8, <4>2, <4>3
      <4> QED
        BY <4>2, <4>3, <4>5, <4>8, <4>9, <4>10, <4>11
    <3> QED
      BY <3>1, <3>2
  <2> QED
    BY <2>4, <2>5, <2>6 DEF Tiling
<1> QED
  BY <1>4, <1>5, <1>6, <1>8 DEF j, st, n, s, size

\* The added hint is charged to the first record of its range.
LEMMA HintCharged ==
    ASSUME PlanIInv, phase = "scan", hints' = Append(hints, HintUpTo(scan.j)),
           Len(hints') = Len(hints) + 1, hints' \in Seq(HintType)
    PROVE  \E f \in [DOMAIN hints' -> DOMAIN infos] :
              /\ \A g, h \in DOMAIN hints' : f[g] = f[h] => g = h
              /\ \A h \in DOMAIN hints' : \E w \in SortedWorkers : \E p \in DOMAIN infos_map[w] :
                    /\ f[h] = infos_map[w][p]
                    /\ w = worker => p <= scan.j
<1>1. HintsCharged /\ MapsApart /\ Typed
  BY DEF PlanIInv
<1> DEFINE n == Len(hints)
           at == scan.start + 1
           new == infos_map[worker][at]
<1>2. /\ worker \in Workers /\ n \in Nat /\ at \in Nat /\ at > scan.start /\ at <= scan.j
      /\ at \in DOMAIN infos_map[worker] /\ new \in DOMAIN infos
      /\ scan.start \in Nat /\ scan.j \in Nat /\ hints \in Seq(HintType)
      /\ \A w \in Workers : infos_map[w] \in Seq(DOMAIN infos)
  <2>1. /\ at \in 1 .. Len(infos_map[worker]) /\ infos_map[worker] \in Seq(DOMAIN infos)
        /\ at \in Nat /\ at > scan.start /\ at <= scan.j
    BY ScanFacts
  <2>2. at \in DOMAIN infos_map[worker] /\ new \in DOMAIN infos
    BY <2>1
  <2> QED
    BY <2>1, <2>2, ScanFacts
<1>3. worker \in SortedWorkers /\ SortedWorkers \subseteq Workers
  BY <1>2 DEF SortedWorkers
<1>4. PICK f \in [DOMAIN hints -> DOMAIN infos] :
            /\ \A g, h \in DOMAIN hints : f[g] = f[h] => g = h
            /\ \A h \in DOMAIN hints : \E w \in SortedWorkers : \E p \in DOMAIN infos_map[w] :
                /\ f[h] = infos_map[w][p]
                /\ w = worker => p <= scan.start
  BY <1>1 DEF HintsCharged
<1>5. DOMAIN hints = 1 .. n /\ DOMAIN hints' = 1 .. n + 1
  BY <1>2
<1> HIDE DEF n, at, new
<1>6. \A h \in DOMAIN hints : f[h] # new
  <2> SUFFICES ASSUME NEW h \in DOMAIN hints, f[h] = new
               PROVE  FALSE
    OBVIOUS
  <2>1. PICK w \in SortedWorkers : \E p \in DOMAIN infos_map[w] :
            f[h] = infos_map[w][p] /\ (w = worker => p <= scan.start)
    BY <1>4
  <2>2. PICK p \in DOMAIN infos_map[w] :
            f[h] = infos_map[w][p] /\ (w = worker => p <= scan.start)
    BY <2>1
  <2>3. infos_map[w][p] = infos_map[worker][at] /\ w \in Workers
    BY <1>3, <2>2 DEF new
  <2>4. w = worker
    BY <1>1, <1>2, <2>3 DEF MapsApart
  <2>5. p = at
    BY <1>1, <1>2, <2>3, <2>4 DEF MapsApart
  <2> QED
    BY <1>2, <2>2, <2>4, <2>5
<1> DEFINE F == [h \in 1 .. n + 1 |-> IF h = n + 1 THEN new ELSE f[h]]
<1>7. \A h \in 1 .. n + 1 : h # n + 1 => h \in 1 .. n
  BY <1>2
<1>8. F \in [1 .. n + 1 -> DOMAIN infos]
  BY <1>2, <1>5, <1>7
<1>9. \A g, h \in 1 .. n + 1 : F[g] = F[h] => g = h
  BY <1>4, <1>5, <1>6, <1>7
<1>10. ASSUME NEW h \in 1 .. n + 1
       PROVE  \E w \in SortedWorkers : \E p \in DOMAIN infos_map[w] :
                    /\ F[h] = infos_map[w][p]
                    /\ w = worker => p <= scan.j
  <2>1. CASE h = n + 1
    BY <1>2, <1>3, <2>1 DEF new
  <2>2. CASE h # n + 1
    <3>1. h \in DOMAIN hints /\ F[h] = f[h]
      BY <1>5, <1>7, <2>2
    <3>2. PICK w \in SortedWorkers : \E p \in DOMAIN infos_map[w] :
            f[h] = infos_map[w][p] /\ (w = worker => p <= scan.start)
      BY <1>4, <3>1
    <3>3. PICK p \in DOMAIN infos_map[w] :
            f[h] = infos_map[w][p] /\ (w = worker => p <= scan.start)
      BY <3>2
    <3>4. w = worker => p <= scan.j
      <4>1. p \in Nat
        BY <1>2, <1>3
      <4> QED
        BY <1>2, <3>3, <4>1
    <3> QED
      BY <3>1, <3>3, <3>4
  <2> QED
    BY <2>1, <2>2
<1> HIDE DEF F
<1>11. /\ F \in [DOMAIN hints' -> DOMAIN infos]
       /\ \A g, h \in DOMAIN hints' : F[g] = F[h] => g = h
       /\ \A h \in DOMAIN hints' : \E w \in SortedWorkers : \E p \in DOMAIN infos_map[w] :
            /\ F[h] = infos_map[w][p]
            /\ w = worker => p <= scan.j
  <2>1. PICK D : D = DOMAIN hints'
    OBVIOUS
  <2>2. D = 1 .. n + 1
    BY <1>5, <2>1
  <2> QED
    BY <1>8, <1>9, <1>10, <2>1, <2>2, Zenon
<1> QED
  BY <1>11, Zenon

\* One more step of a range.
LEMMA NextBlock ==
    ASSUME NEW x \in Nat, NEW k \in Nat, NEW B \in Nat
    PROVE  x + k * B + B = x + (k + 1) * B
OBVIOUS

\* A scanned record continues the range or starts one after a hint.
LEMMA ScanRecordStep == PlanIInv /\ ScanRecord => PlanIInv'
<1> SUFFICES ASSUME PlanIInv, ScanRecord
             PROVE  PlanIInv'
  OBVIOUS
<1>1. /\ Typed /\ Phases /\ Gathered /\ Complete /\ Dealing
      /\ MapsApart /\ MapsInTraceOrder /\ InTimeOrder /\ FairMaps
      /\ PlannedHints /\ Scanning /\ HintsCharged
  BY DEF PlanIInv
<1>2. /\ phase = "scan" /\ phase' = phase /\ opt' = opt /\ lines' = lines
      /\ infos' = infos /\ next_info' = next_info /\ containers' = containers
      /\ cur_thread' = cur_thread /\ cur_lines' = cur_lines /\ worker' = worker
      /\ infos_map' = infos_map /\ params' = params
      /\ scan.j < Len(infos_map[worker])
      /\ Workers' = Workers /\ valid_lines' = valid_lines /\ MaxBlks' = MaxBlks
      /\ per_thread_lines' = per_thread_lines /\ PlannedWorkers' = PlannedWorkers
      /\ SortedWorkers' = SortedWorkers
  BY DEF ScanRecord, Workers, valid_lines, MaxBlks, Largest, per_thread_lines,
         PlannedWorkers, SortedWorkers
<1>3. /\ worker \in Workers /\ worker \in Nat /\ worker < opt.threads
      /\ scan \in [j : Nat, start : Nat, max : Nat]
      /\ scan.j \in Nat /\ scan.start \in Nat /\ scan.max \in Nat
      /\ scan.start < scan.j /\ scan.j <= Len(infos_map[worker])
      /\ Len(infos_map[worker]) \in Nat
      /\ \A n \in 0 .. Len(infos_map[worker]) - 1 :
            rec(worker, n).lba \in Nat /\ rec(worker, n).rw \in {"R", "W"}
      /\ MaxBlks \in Nat /\ 1 <= MaxBlks /\ opt.maxblks <= MaxBlks /\ opt.maxblks \in Nat
      /\ hints \in Seq(HintType) /\ Len(hints) \in Nat
      /\ params[worker].start \in Nat /\ params[worker].start <= Len(hints)
  BY <1>2, ScanFacts
<1>4. Phases' /\ Gathered' /\ Complete' /\ Dealing' /\ MapsApart'
  BY <1>1, <1>2 DEF Phases, Gathered, Complete, Dealing, MapsApart
<1>5. MapsInTraceOrder' /\ InTimeOrder'
  BY <1>1, <1>2 DEF MapsInTraceOrder, InTimeOrder
<1>6. FairMaps'
  <2>1. \A v, n : OtherLBAs(v, n)' = OtherLBAs(v, n)
    BY <1>2 DEF OtherLBAs
  <2> QED
    BY <1>1, <1>2, <2>1 DEF FairMaps
<1>7. ASSUME hints' \in Seq(HintType), Len(hints) <= Len(hints'),
             \A h \in 1 .. Len(hints) : hints'[h] = hints[h]
      PROVE  PlannedHints'
  <2> SUFFICES ASSUME NEW w \in PlannedWorkers
               PROVE  HintsRight(w)'
    BY <1>2 DEF PlannedHints
  <2>1. w \in Workers /\ HintsRight(w) /\ Len(hints') \in Nat
    BY <1>1, <1>7 DEF PlannedHints, PlannedWorkers
  <2> QED
    BY <1>1, <1>2, <1>7, <2>1, PlanKept
<1>8. /\ \A w, m : rec(w, m)' = rec(w, m)
      /\ scan.j - 1 \in 0 .. Len(infos_map[worker]) - 1
      /\ scan.j \in 0 .. Len(infos_map[worker]) - 1
      /\ scan.start \in 0 .. Len(infos_map[worker]) - 1
      /\ Record(scan.j) = rec(worker, scan.j) /\ Record(scan.j - 1) = rec(worker, scan.j - 1)
  BY <1>2, <1>3 DEF rec, Record
\* The record before this one is the last of the range.
<1>9. /\ rec(worker, scan.j - 1).rw = rec(worker, scan.start).rw
      /\ rec(worker, scan.j - 1).lba
            = rec(worker, scan.start).lba + (scan.j - 1 - scan.start) * BlkSectors
  <2>1. scan.j - 1 - scan.start \in 0 .. (scan.j - scan.start) - 1
        /\ scan.start + (scan.j - 1 - scan.start) = scan.j - 1
    BY <1>3
  <2>2. OneRange(worker, scan.start, scan.j - scan.start)
    BY <1>1, <1>2 DEF Scanning
  <2> QED
    BY <2>1, <2>2 DEF OneRange
<1>10. CASE Continues(scan.j)
  <2>1. hints' = hints /\ scan' = [scan EXCEPT !.j = @ + 1]
    BY <1>10 DEF ScanRecord
  <2>2. /\ scan'.j = scan.j + 1 /\ scan'.start = scan.start /\ scan'.max = scan.max
        /\ scan' \in [j : Nat, start : Nat, max : Nat]
    BY <1>3, <2>1
  <2>3. Typed'
    BY <1>1, <1>2, <2>1, <2>2 DEF Typed
  <2>4. PlannedHints'
    BY <1>3, <1>7, <2>1
  <2>5. HintsCharged'
    BY <1>1, <1>2, <2>1, <2>2 DEF HintsCharged
  <2>6. /\ rec(worker, scan.j).lba - rec(worker, scan.j - 1).lba = BlkSectors
        /\ rec(worker, scan.j).rw = rec(worker, scan.j - 1).rw
        /\ scan.j - scan.start < opt.maxblks
    BY <1>8, <1>10 DEF Continues
  <2>7. rec(worker, scan.j).lba
            = rec(worker, scan.start).lba + (scan.j - scan.start) * BlkSectors
    <3> DEFINE k == scan.j - 1 - scan.start
    <3>1. k \in Nat /\ k + 1 = scan.j - scan.start
      BY <1>3
    <3>2. rec(worker, scan.start).lba \in Nat /\ rec(worker, scan.j).lba \in Nat
          /\ rec(worker, scan.j - 1).lba \in Nat
      BY <1>3, <1>8
    <3>3. rec(worker, scan.j - 1).lba = rec(worker, scan.start).lba + k * BlkSectors
      BY <1>9
    <3> HIDE DEF k
    <3>4. rec(worker, scan.j).lba = rec(worker, scan.j - 1).lba + BlkSectors
      BY <2>6, <3>2, BlkSectorsAssumption
    <3>5. rec(worker, scan.start).lba + k * BlkSectors + BlkSectors
            = rec(worker, scan.start).lba + (k + 1) * BlkSectors
      BY <3>1, <3>2, NextBlock, BlkSectorsAssumption
    <3> QED
      BY <3>1, <3>3, <3>4, <3>5
  <2>8. OneRange(worker, scan.start, scan.j + 1 - scan.start)
    <3> SUFFICES ASSUME NEW n \in 0 .. (scan.j + 1 - scan.start) - 1
                 PROVE  /\ rec(worker, scan.start + n).rw = rec(worker, scan.start).rw
                        /\ rec(worker, scan.start + n).lba
                                = rec(worker, scan.start).lba + n * BlkSectors
      BY DEF OneRange
    <3>1. CASE n = scan.j - scan.start
      <4>1. scan.start + n = scan.j
        BY <1>3, <3>1
      <4> QED
        BY <1>9, <2>6, <2>7, <3>1, <4>1
    <3>2. CASE n # scan.j - scan.start
      <4>1. n \in 0 .. (scan.j - scan.start) - 1
        <5>1. scan.j \in Nat /\ scan.start \in Nat
          BY <1>3
        <5>2. PICK a, b : a = scan.start /\ b = scan.j
          OBVIOUS
        <5> QED
          BY <3>2, <5>1, <5>2
      <4>2. OneRange(worker, scan.start, scan.j - scan.start)
        BY <1>1, <1>2 DEF Scanning
      <4> QED
        BY <4>1, <4>2 DEF OneRange
    <3> QED
      BY <3>1, <3>2
  <2>9. Scanning'
    <3>1. OneRange(worker, scan.start, scan.j - scan.start)'
      <4>1. PICK a, b : a = scan.start /\ b = scan.j + 1 - scan.start
        OBVIOUS
      <4>2. OneRange(worker, a, b)
        BY <2>8, <4>1
      <4>3. scan'.start = a /\ scan'.j - scan'.start = b
        BY <1>3, <2>2, <4>1
      <4>4. OneRange(worker, a, b)'
        BY <1>2, <4>2 DEF OneRange, rec
      <4> QED
        BY <1>2, <4>3, <4>4 DEF OneRange, rec
    <3>2. /\ scan'.start < scan'.j /\ scan'.j <= Len(infos_map'[worker'])
          /\ scan'.j - scan'.start <= MaxBlks' /\ scan'.max <= MaxBlks'
      <4>1. scan.start < scan.j /\ scan.max <= MaxBlks
        BY <1>1, <1>2 DEF Scanning
      <4> QED
        BY <1>2, <1>3, <2>2, <2>6, <4>1
    <3>3. (params[worker].start <= Len(hints))'
      BY <1>2, <1>3, <2>1
    <3>4. CASE params[worker].start = Len(hints)
      <4>1. scan.start = 0
        BY <1>1, <1>2, <3>4 DEF Scanning
      <4> QED
        BY <1>2, <2>1, <2>2, <3>1, <3>2, <3>3, <3>4, <4>1 DEF Scanning
    <3>5. CASE params[worker].start # Len(hints)
      <4>1. /\ Tiling(worker, params[worker].start + 1, Len(hints), scan.start, scan.max)
            /\ EndsRange(worker, hints[Len(hints)].start, hints[Len(hints)].blks)
        BY <1>1, <1>2, <3>5 DEF Scanning
      <4>2. Tiling(worker, params[worker].start + 1, Len(hints), scan.start, scan.max)'
        BY <1>2, <2>1, <2>2, <4>1, ZenonT(40) DEF Tiling, OneRange, EndsRange, rec
      <4>3. EndsRange(worker, hints[Len(hints)].start, hints[Len(hints)].blks)'
        BY <1>2, <2>1, <4>1 DEF EndsRange, rec
      <4> QED
        BY <1>2, <2>1, <3>1, <3>2, <3>3, <3>5, <4>2, <4>3 DEF Scanning
    <3> QED
      BY <3>4, <3>5
  <2> QED
    BY <1>4, <1>5, <1>6, <2>3, <2>4, <2>5, <2>9 DEF PlanIInv
<1>11. CASE ~ Continues(scan.j)
  <2>1. /\ hints' = Append(hints, HintUpTo(scan.j))
        /\ scan' = [j |-> scan.j + 1, start |-> scan.j,
                    max |-> Largest(scan.max, scan.j - scan.start)]
    BY <1>11 DEF ScanRecord
  <2>2. /\ hints' \in Seq(HintType) /\ Len(hints') = Len(hints) + 1
        /\ \A h \in 1 .. Len(hints) : hints'[h] = hints[h]
        /\ hints'[Len(hints) + 1].start = scan.start
        /\ hints'[Len(hints) + 1].blks = scan.j - scan.start
        /\ Largest(scan.max, scan.j - scan.start) \in Nat
        /\ Largest(scan.max, scan.j - scan.start) <= MaxBlks
        /\ \A w, first, last, upto, buf :
                w = worker /\ first = params[worker].start + 1 /\ last = Len(hints) + 1
                    /\ upto = scan.j /\ buf = Largest(scan.max, scan.j - scan.start)
                => Tiling(w, first, last, upto, buf)'
    BY <1>2, <2>1, HintAdded
  <2>3. /\ scan'.j = scan.j + 1 /\ scan'.start = scan.j
        /\ scan'.max = Largest(scan.max, scan.j - scan.start)
        /\ scan' \in [j : Nat, start : Nat, max : Nat]
    BY <1>3, <2>1, <2>2
  <2>4. Typed'
    BY <1>1, <1>2, <2>2, <2>3 DEF Typed
  <2>5. PlannedHints'
    BY <1>3, <1>7, <2>2
  <2>6. HintsCharged'
    <3>1. \E f \in [DOMAIN hints' -> DOMAIN infos] :
              /\ \A g, h \in DOMAIN hints' : f[g] = f[h] => g = h
              /\ \A h \in DOMAIN hints' : \E w \in SortedWorkers : \E p \in DOMAIN infos_map[w] :
                    /\ f[h] = infos_map[w][p]
                    /\ w = worker => p <= scan.j
      BY <1>2, <2>1, <2>2, HintCharged
    <3> QED
      BY <1>2, <2>3, <3>1 DEF HintsCharged
  <2>7. Scanning'
    <3>1. OneRange(worker, scan.start, scan.j - scan.start)'
      <4>0. scan'.j - scan'.start = 1 /\ (scan'.j - scan'.start) - 1 = 0
        BY <1>3, <2>3
      <4> SUFFICES ASSUME NEW m \in 0 .. 0
                   PROVE  (/\ rec(worker, scan.start + m).rw = rec(worker, scan.start).rw
                           /\ rec(worker, scan.start + m).lba
                                  = rec(worker, scan.start).lba + m * BlkSectors)'
        BY <4>0 DEF OneRange
      <4>1. m = 0 /\ scan.j + 0 = scan.j
        BY <1>3
      <4>2. rec(worker, scan.j).lba \in Nat
        BY <1>3, <1>8
      <4>3. rec(worker, scan.start)'.lba \in Nat
        BY <1>2, <2>3, <4>2 DEF rec
      <4>4. \A y \in Nat : y + 0 * BlkSectors = y
        BY BlkSectorsAssumption
      <4> QED
        BY <2>3, <4>1, <4>3, <4>4 DEF rec
    <3>2. /\ scan'.start < scan'.j /\ scan'.j <= Len(infos_map'[worker'])
          /\ scan'.j - scan'.start <= MaxBlks' /\ scan'.max <= MaxBlks'
      <4>1. scan.start < scan.j /\ scan.j \in Nat /\ scan.j < Len(infos_map[worker])
            /\ Len(infos_map[worker]) \in Nat /\ MaxBlks \in Nat /\ 1 <= MaxBlks
        BY <1>2, <1>3
      <4>2. infos_map'[worker'] = infos_map[worker] /\ MaxBlks' = MaxBlks
        BY <1>2
      <4>3. PICK j, n, most :
                j = scan.j /\ n = Len(infos_map[worker]) /\ most = MaxBlks
        OBVIOUS
      <4>4. /\ j < j + 1 /\ j + 1 <= n /\ (j + 1) - j = 1 /\ 1 <= most
        BY <4>1, <4>3
      <4>5. /\ scan'.start = j /\ scan'.j = j + 1
            /\ Len(infos_map'[worker']) = n /\ MaxBlks' = most
        BY <2>3, <4>2, <4>3
      <4> QED
        BY <2>2, <2>3, <4>2, <4>4, <4>5
    <3>3. params'[worker'].start <= Len(hints') /\ params'[worker'].start # Len(hints')
      BY <1>2, <1>3, <2>2
    <3>4. Tiling(worker, params[worker].start + 1, Len(hints), scan.start, scan.max)'
      <4>1. PICK w, first, last, upto, buf :
                w = worker /\ first = params[worker].start + 1 /\ last = Len(hints) + 1
                    /\ upto = scan.j /\ buf = Largest(scan.max, scan.j - scan.start)
        OBVIOUS
      <4>2. Tiling(w, first, last, upto, buf)'
        BY <2>2, <4>1
      <4>3. /\ worker' = w /\ params'[worker'].start + 1 = first /\ Len(hints') = last
            /\ scan'.start = upto /\ scan'.max = buf
        BY <1>2, <2>2, <2>3, <4>1
      <4> QED
        BY <4>2, <4>3, TilingNamesNext, Zenon DEF TilingNamed
    <3>5. EndsRange(worker, hints[Len(hints)].start, hints[Len(hints)].blks)'
      <4>1. EndsRange(worker, scan.start, scan.j - scan.start)
        <5> SUFFICES ASSUME scan.j - scan.start < opt.maxblks
                     PROVE  \/ rec(worker, scan.start + (scan.j - scan.start)).rw
                                    # rec(worker, scan.start).rw
                            \/ rec(worker, scan.start + (scan.j - scan.start)).lba
                                    # rec(worker, scan.start + (scan.j - scan.start) - 1).lba
                                        + BlkSectors
          BY DEF EndsRange
        <5>1. scan.start + (scan.j - scan.start) = scan.j
          BY <1>3
        <5>2. \/ rec(worker, scan.j).lba - rec(worker, scan.j - 1).lba # BlkSectors
              \/ rec(worker, scan.j).rw # rec(worker, scan.j - 1).rw
          BY <1>8, <1>11 DEF Continues
        <5>3. rec(worker, scan.j).lba \in Nat /\ rec(worker, scan.j - 1).lba \in Nat
          BY <1>3, <1>8
        <5>4. \/ rec(worker, scan.j).lba # rec(worker, scan.j - 1).lba + BlkSectors
              \/ rec(worker, scan.j).rw # rec(worker, scan.j - 1).rw
          BY <5>2, <5>3, BlkSectorsAssumption
        <5>5. scan.start + (scan.j - scan.start) - 1 = scan.j - 1
          BY <1>3
        <5> QED
          BY <1>9, <5>1, <5>4, <5>5
      <4>2. PICK a, b : a = scan.start /\ b = scan.j - scan.start
        OBVIOUS
      <4>3. EndsRange(worker, a, b)
        BY <4>1, <4>2
      <4>4. hints'[Len(hints')].start = a /\ hints'[Len(hints')].blks = b
        BY <2>2, <4>2
      <4> QED
        BY <1>2, <4>3, <4>4 DEF EndsRange, rec
    <3> QED
      BY <3>1, <3>2, <3>3, <3>4, <3>5 DEF Scanning
  <2> QED
    BY <1>4, <1>5, <1>6, <2>4, <2>5, <2>6, <2>7 DEF PlanIInv
<1> QED
  BY <1>10, <1>11

\* The last hint of a worker completes its plan.
LEMMA FinishWorkerStep == PlanIInv /\ FinishWorker => PlanIInv'
<1> SUFFICES ASSUME PlanIInv, FinishWorker
             PROVE  PlanIInv'
  OBVIOUS
<1>1. /\ Typed /\ Phases /\ Gathered /\ Complete
      /\ MapsApart /\ MapsInTraceOrder /\ InTimeOrder /\ FairMaps
      /\ PlannedHints /\ Scanning
  BY DEF PlanIInv
<1>2. /\ phase = "scan" /\ phase' = "extract" /\ opt' = opt /\ lines' = lines
      /\ infos' = infos /\ next_info' = next_info /\ containers' = containers
      /\ cur_thread' = cur_thread /\ cur_lines' = cur_lines /\ worker' = worker + 1
      /\ infos_map' = infos_map /\ scan' = NoScan
      /\ scan.j >= Len(infos_map[worker])
      /\ hints' = Append(hints, HintUpTo(Len(infos_map[worker])))
      /\ params' = [params EXCEPT
            ![worker].end = Len(hints'),
            ![worker].buf = Largest(scan.max, Len(infos_map[worker]) - scan.start)]
      /\ Workers' = Workers /\ valid_lines' = valid_lines /\ MaxBlks' = MaxBlks
      /\ per_thread_lines' = per_thread_lines
  BY DEF FinishWorker, Workers, valid_lines, MaxBlks, Largest, per_thread_lines
<1>3. /\ worker \in Workers /\ worker \in Nat /\ worker < opt.threads
      /\ scan.j \in Nat /\ scan.start \in Nat /\ scan.max \in Nat
      /\ scan.j <= Len(infos_map[worker]) /\ Len(infos_map[worker]) \in Nat
      /\ MaxBlks \in Nat
      /\ hints \in Seq(HintType) /\ Len(hints) \in Nat
      /\ params \in [Workers -> [start : Nat, end : Nat, buf : Nat]]
      /\ params[worker].start \in Nat /\ params[worker].start <= Len(hints)
  BY <1>2, ScanFacts
<1>4. scan.j = Len(infos_map[worker])
  <2>1. PICK j, n : j = scan.j /\ n = Len(infos_map[worker])
    OBVIOUS
  <2>2. j >= n /\ j <= n /\ j \in Nat /\ n \in Nat
    BY <1>2, <1>3, <2>1, Zenon
  <2> QED
    BY <2>1, <2>2
<1>5. /\ hints' \in Seq(HintType) /\ Len(hints') = Len(hints) + 1
      /\ \A h \in 1 .. Len(hints) : hints'[h] = hints[h]
      /\ Largest(scan.max, scan.j - scan.start) \in Nat
      /\ Largest(scan.max, scan.j - scan.start) <= MaxBlks
      /\ \A w, first, last, upto, buf :
            w = worker /\ first = params[worker].start + 1 /\ last = Len(hints) + 1
                /\ upto = scan.j /\ buf = Largest(scan.max, scan.j - scan.start)
            => Tiling(w, first, last, upto, buf)'
  BY <1>2, <1>4, HintAdded
<1>6. /\ params' \in [Workers -> [start : Nat, end : Nat, buf : Nat]]
      /\ params'[worker].start = params[worker].start
      /\ params'[worker].end = Len(hints) + 1
      /\ params'[worker].buf = Largest(scan.max, scan.j - scan.start)
      /\ \A w \in Workers : w # worker => params'[w] = params[w]
  <2> DEFINE last == Len(hints')
             size == Largest(scan.max, Len(infos_map[worker]) - scan.start)
  <2>1. last \in Nat /\ size \in Nat /\ last = Len(hints) + 1
        /\ size = Largest(scan.max, scan.j - scan.start)
    BY <1>3, <1>4, <1>5
  <2>2. params' = [params EXCEPT ![worker].end = last, ![worker].buf = size]
    BY <1>2
  <2> HIDE DEF last, size
  <2> QED
    BY <1>3, <2>1, <2>2
<1>7. Typed'
  <2>1. worker' \in 0 .. opt.threads
    <3>1. PICK t : t = opt.threads
      OBVIOUS
    <3>2. t \in Nat /\ worker < t
      BY <1>1, <1>3, <3>1, OptFacts DEF Typed
    <3>3. worker + 1 \in 0 .. t
      BY <1>3, <3>2
    <3> QED
      BY <1>2, <3>1, <3>3
  <2>2. scan' \in [j : Nat, start : Nat, max : Nat]
    BY <1>2 DEF NoScan
  <2> QED
    BY <1>1, <1>2, <1>5, <1>6, <2>1, <2>2 DEF Typed
<1>8. Phases' /\ Gathered' /\ Complete' /\ MapsApart'
  BY <1>1, <1>2 DEF Phases, Gathered, Complete, MapsApart
<1>9. Dealing'
  BY <1>2 DEF Dealing
<1>10. /\ SortedWorkers = {w \in Workers : w < worker'} /\ SortedWorkers' = SortedWorkers
       /\ PlannedWorkers' = SortedWorkers
       /\ \A w \in SortedWorkers : w \in Workers /\ w < worker' /\ (w = worker \/ w \in PlannedWorkers)
  <2>1. \A w \in Workers : w \in Nat
    BY <1>1, OptFacts DEF Typed
  <2>2. \A w \in Workers : w < worker + 1 <=> w < worker \/ w = worker
    <3> SUFFICES ASSUME NEW w \in Workers
                 PROVE  w < worker + 1 <=> w < worker \/ w = worker
      OBVIOUS
    <3>1. w \in Nat /\ worker \in Nat
      BY <1>3, <2>1
    <3> QED
      BY <3>1
  <2>3. SortedWorkers = {w \in Workers : w < worker'}
    BY <1>2, <2>2 DEF SortedWorkers
  <2>4. SortedWorkers' = {w \in Workers : w < worker'} /\ PlannedWorkers' = {w \in Workers : w < worker'}
    BY <1>2 DEF SortedWorkers, PlannedWorkers
  <2> QED
    BY <1>2, <2>2, <2>3, <2>4 DEF PlannedWorkers
<1>11. MapsInTraceOrder' /\ InTimeOrder'
  BY <1>1, <1>2, <1>10 DEF MapsInTraceOrder, InTimeOrder
<1>12. FairMaps'
  <2>1. \A v, n : OtherLBAs(v, n)' = OtherLBAs(v, n)
    BY <1>2 DEF OtherLBAs
  <2> QED
    BY <1>1, <1>2, <2>1 DEF FairMaps
<1>13. PlannedHints'
  <2> SUFFICES ASSUME NEW w \in SortedWorkers
               PROVE  HintsRight(w)'
    BY <1>10 DEF PlannedHints
  <2>1. CASE w # worker
    <3>1. w \in Workers /\ w \in PlannedWorkers /\ HintsRight(w)
      BY <1>1, <1>10, <2>1 DEF PlannedHints
    <3>2. params'[w] = params[w] /\ infos_map'[w] = infos_map[w]
      BY <1>2, <1>6, <2>1, <3>1
    <3>3. Len(hints') \in Nat /\ Len(hints) <= Len(hints')
      <4>1. PICK n : n = Len(hints)
        OBVIOUS
      <4>2. n \in Nat /\ Len(hints') = n + 1
        BY <1>3, <1>5, <4>1
      <4> QED
        BY <4>1, <4>2
    <3> QED
      BY <1>1, <1>2, <1>5, <3>1, <3>2, <3>3, PlanKept
  <2>2. CASE w = worker
    <3>1. PICK first, last, upto, buf :
            /\ first = params[worker].start + 1 /\ last = Len(hints) + 1
            /\ upto = scan.j /\ buf = Largest(scan.max, scan.j - scan.start)
      OBVIOUS
    <3>2. Tiling(w, first, last, upto, buf)'
      BY <1>5, <2>2, <3>1
    <3>3. /\ params'[w].start + 1 = first /\ params'[w].end = last
          /\ Len(infos_map'[w]) = upto /\ params'[w].buf = buf
      BY <1>2, <1>4, <1>6, <2>2, <3>1
    <3>4. Tiling(w, params[w].start + 1, params[w].end, Len(infos_map[w]), params[w].buf)'
      BY <3>2, <3>3, TilingNamesNext, Zenon DEF TilingClosed
    <3>5. /\ params'[w].start < params'[w].end /\ params'[w].end <= Len(hints')
          /\ params'[w].buf <= MaxBlks'
      BY <1>2, <1>3, <1>5, <1>6, <2>2
    <3> QED
      BY <3>4, <3>5 DEF HintsRight
  <2> QED
    BY <2>1, <2>2
<1>14. Scanning'
  BY <1>2 DEF Scanning
<1>15. HintsCharged'
  <2>1. PICK f \in [DOMAIN hints' -> DOMAIN infos] :
            /\ \A g, h \in DOMAIN hints' : f[g] = f[h] => g = h
            /\ \A h \in DOMAIN hints' : \E w \in SortedWorkers : \E p \in DOMAIN infos_map[w] :
                  /\ f[h] = infos_map[w][p]
                  /\ w = worker => p <= scan.j
    BY <1>2, <1>4, <1>5, HintCharged
  <2>2. \A w \in SortedWorkers : w # worker'
    <3>1. \A w \in Workers : w \in Nat
      BY <1>1, OptFacts DEF Typed
    <3> QED
      BY <1>2, <1>3, <1>10, <3>1
  <2>3. \A h \in DOMAIN hints' : \E w \in SortedWorkers : \E p \in DOMAIN infos_map[w] :
            /\ f[h] = infos_map[w][p]
            /\ w = worker' => p <= scan'.start
    BY <2>1, <2>2, Zenon
  <2> QED
    BY <1>2, <1>10, <2>1, <2>3 DEF HintsCharged
<1> QED
  BY <1>7, <1>8, <1>9, <1>11, <1>12, <1>13, <1>14, <1>15 DEF PlanIInv

\* A step that changes nothing keeps the invariant.
LEMMA PlanStutter == PlanIInv /\ UNCHANGED planVars => PlanIInv'
<1> SUFFICES ASSUME PlanIInv, UNCHANGED planVars
             PROVE  PlanIInv'
  OBVIOUS
<1>1. /\ phase' = phase /\ opt' = opt /\ lines' = lines
      /\ infos' = infos /\ next_info' = next_info /\ containers' = containers
      /\ cur_thread' = cur_thread /\ cur_lines' = cur_lines /\ worker' = worker
      /\ infos_map' = infos_map /\ scan' = scan /\ hints' = hints /\ params' = params
  BY DEF planVars
<1>2. /\ Workers' = Workers /\ valid_lines' = valid_lines /\ MaxBlks' = MaxBlks
      /\ per_thread_lines' = per_thread_lines /\ SortedWorkers' = SortedWorkers
      /\ PlannedWorkers' = PlannedWorkers
  BY <1>1 DEF Workers, valid_lines, MaxBlks, Largest, per_thread_lines, SortedWorkers,
              PlannedWorkers
<1>3. /\ Typed /\ Phases /\ Gathered /\ Complete /\ Dealing
      /\ MapsApart /\ MapsInTraceOrder /\ InTimeOrder /\ FairMaps
      /\ PlannedHints /\ Scanning /\ HintsCharged
  BY DEF PlanIInv
<1>4. Typed' /\ Phases' /\ Gathered' /\ Complete' /\ Dealing'
  BY <1>1, <1>2, <1>3 DEF Typed, Phases, Gathered, Complete, Dealing
<1>5. MapsApart' /\ MapsInTraceOrder' /\ InTimeOrder'
  BY <1>1, <1>2, <1>3 DEF MapsApart, MapsInTraceOrder, InTimeOrder
<1>6. FairMaps'
  <2>1. \A v, n : OtherLBAs(v, n)' = OtherLBAs(v, n)
    BY <1>1 DEF OtherLBAs
  <2> QED
    BY <1>1, <1>2, <1>3, <2>1 DEF FairMaps
<1>7. PlannedHints' /\ Scanning'
  <2>1. ASSUME NEW w \in PlannedWorkers
        PROVE  HintsRight(w)'
    <3>1. w \in Workers /\ HintsRight(w) /\ Len(hints) \in Nat
      BY <1>3 DEF PlannedHints, PlannedWorkers, Typed
    <3>2. Len(hints') \in Nat /\ Len(hints) <= Len(hints')
      BY <1>1, <3>1
    <3> QED
      BY <1>1, <1>3, <3>1, <3>2, PlanKept
  <2>2. Scanning'
    <3>1. \A v, n : rec(v, n)' = rec(v, n)
      BY <1>1 DEF rec
    <3>2. \A v, a, b : OneRange(v, a, b) => OneRange(v, a, b)'
      BY <3>1 DEF OneRange
    <3>3. \A v, a, b : EndsRange(v, a, b) => EndsRange(v, a, b)'
      BY <1>1, <3>1 DEF EndsRange
    <3>4. \A v, first, last, upto, buf :
            Tiling(v, first, last, upto, buf) => Tiling(v, first, last, upto, buf)'
      BY <1>1, <3>1 DEF Tiling, OneRange, EndsRange
    <3>5. PICK w, st, bl, n, first, b, h, max :
            /\ w = worker /\ st = scan.start /\ bl = scan.j - scan.start
            /\ n = Len(hints) /\ first = params[worker].start + 1
            /\ b = hints[n].blks /\ h = hints[n].start /\ max = scan.max
      OBVIOUS
    <3>6. /\ OneRange(worker, scan.start, scan.j - scan.start)
             => OneRange(worker, scan.start, scan.j - scan.start)'
          /\ Tiling(worker, params[worker].start + 1, Len(hints), scan.start, scan.max)
             => Tiling(worker, params[worker].start + 1, Len(hints), scan.start, scan.max)'
          /\ EndsRange(worker, hints[Len(hints)].start, hints[Len(hints)].blks)
             => EndsRange(worker, hints[Len(hints)].start, hints[Len(hints)].blks)'
      <4>1. /\ w = worker' /\ st = scan'.start /\ bl = scan'.j - scan'.start
            /\ n = Len(hints') /\ first = params'[worker'].start + 1
            /\ b = hints'[n].blks /\ h = hints'[n].start /\ max = scan'.max
        BY <1>1, <3>5
      <4>2. /\ OneRange(w, st, bl) => OneRange(w, st, bl)'
            /\ Tiling(w, first, n, st, max) => Tiling(w, first, n, st, max)'
            /\ EndsRange(w, h, b) => EndsRange(w, h, b)'
        BY <3>2, <3>3, <3>4, Zenon
      <4>3. OneRange(w, st, bl)' => OneRange(worker, scan.start, scan.j - scan.start)'
        BY <4>1 DEF OneRange, rec
      <4>4. Tiling(w, first, n, st, max)'
              => Tiling(worker, params[worker].start + 1, Len(hints), scan.start, scan.max)'
        <5>1. /\ worker' = w /\ params'[worker'].start + 1 = first /\ Len(hints') = n
              /\ scan'.start = st /\ scan'.max = max
          BY <4>1
        <5> QED
          BY <5>1, ZenonT(30) DEF Tiling, OneRange, EndsRange, rec
      <4>5. EndsRange(w, h, b)'
              => EndsRange(worker, hints[Len(hints)].start, hints[Len(hints)].blks)'
        BY <4>1 DEF EndsRange, rec
      <4> QED
        BY <3>5, <4>2, <4>3, <4>4, <4>5
    <3> QED
      BY <1>1, <1>2, <1>3, <3>6 DEF Scanning
  <2> QED
    BY <1>2, <2>1, <2>2 DEF PlannedHints
<1>8. HintsCharged'
  BY <1>1, <1>2, <1>3 DEF HintsCharged
<1> QED
  BY <1>4, <1>5, <1>6, <1>7, <1>8 DEF PlanIInv

\* Every step of the planning keeps the invariant.
LEMMA PlanStep == PlanIInv /\ [PlanNext]_planVars => PlanIInv'
  BY ParseStep, BuildStep, SortContainersStep, AssignStep, SortWorkerStep,
     SortEmptyWorkerStep, ScanRecordStep, FinishWorkerStep, PlannedStep, PlanStutter
  DEF PlanNext

\* The plan's invariant holds in every state of every planning.
THEOREM PlanInductive == PlanSpec => []PlanIInv
  BY PlanInitIInv, PlanStep, PTL DEF PlanSpec

----------------------------------------------------------------------------
(* The properties. *)

\* The phases of the plan.
PlanPhases == {"parse", "build", "sort", "assign", "extract", "scan", "ready", "fault"}

\* While the planning runs, its variables have their types.
LEMMA PlanTypes ==
    ASSUME PlanIInv, phase \in PlanPhases
    PROVE  PlanTypeOK
<1>1. Typed /\ Gathered
  BY DEF PlanIInv
<1>2. ASSUME NEW c \in DOMAIN containers
      PROVE  /\ containers[c].lba \in Nat
             /\ containers[c].infos_map \in Seq(DOMAIN infos) \ {<<>>}
  <2> DEFINE records == containers[c].infos_map
  <2>1. containers[c] \in Container
    BY <1>1 DEF Typed
  <2>2. /\ records # <<>> /\ records \in Seq(Nat)
        /\ \A p \in DOMAIN records : records[p] \in 1 .. next_info - 1
    BY <1>1, <2>1 DEF Gathered, Container
  <2>3. 1 .. next_info - 1 \subseteq DOMAIN infos
    <3>1. DOMAIN infos = 1 .. Len(infos) /\ Len(infos) \in Nat /\ next_info \in 1 .. Len(infos) + 1
      BY <1>1 DEF Typed, valid_lines
    <3> QED
      BY <3>1
  <2> HIDE DEF records
  <2>4. \A p \in 1 .. Len(records) : records[p] \in DOMAIN infos
    BY <2>2, <2>3
  <2>5. records \in Seq(DOMAIN infos)
    BY <2>2, <2>4
  <2> QED
    BY <2>1, <2>2, <2>5 DEF Container, records
<1> QED
  BY <1>1, <1>2 DEF PlanTypeOK, Typed, PlanPhases, HintType

\* The types of the plan's variables, for every trace and every command line.
THEOREM PlanTypeCorrect == PlanSpec => []PlanTypeOK
<1>1. PlanInit => phase \in PlanPhases
  BY DEF PlanInit, PlanPhases
<1>2. phase \in PlanPhases /\ [PlanNext]_planVars => (phase \in PlanPhases)'
  BY DEF PlanPhases, PlanNext, planVars, parse_trace_info, build_trace_containers,
         SortContainers, AssignContainer, SortWorker, SortEmptyWorker, ScanRecord,
         FinishWorker, Planned
<1>3. PlanIInv /\ phase \in PlanPhases => PlanTypeOK
  BY PlanTypes
<1> QED
  BY <1>1, <1>2, <1>3, PlanInductive, PTL DEF PlanSpec

\* The containers are dealt to workers that there are, and the load of one that
\* may get more is within its share, whatever the coins say.
THEOREM AssignmentInBounds == PlanSpec => []AssignInBounds
<1>1. PlanIInv => AssignInBounds
  <2> SUFFICES ASSUME PlanIInv, phase = "assign"
               PROVE  /\ cur_thread \in Workers
                      /\ cur_thread # opt.threads - 1 => cur_lines <= per_thread_lines
    BY DEF AssignInBounds
  <2>1. Typed /\ Dealing
    BY DEF PlanIInv
  <2>2. opt.threads \in Nat \ {0} /\ Len(infos) \in Nat /\ cur_lines \in Nat
    BY <2>1, OptFacts DEF Typed
  <2>3. per_thread_lines \in Nat
    <3>1. PICK t : t = opt.threads
      OBVIOUS
    <3>2. Len(infos) \div t \in Nat
      BY <2>2, <3>1
    <3> QED
      BY <3>1, <3>2 DEF per_thread_lines, valid_lines
  <2>4. /\ cur_thread \in Workers
        /\ cur_thread # opt.threads - 1 => cur_lines < per_thread_lines \/ cur_lines = 0
    BY <2>1 DEF Dealing
  <2> QED
    BY <2>2, <2>3, <2>4
<1> QED
  BY <1>1, PlanInductive, PTL

\* Every record of the trace is replayed by one worker, once, and the records of
\* an LBA by the same one, for every trace, number of workers and toss of coins.
THEOREM TracePartitioned == PlanSpec => []Partitioned
<1>1. PlanIInv => Partitioned
  <2> SUFFICES ASSUME PlanIInv, Assigned
               PROVE  /\ \A n \in DOMAIN infos : \E w \in Workers : \E p \in DOMAIN infos_map[w] :
                            infos_map[w][p] = n
                      /\ \A v, w \in Workers :
                            \A p \in DOMAIN infos_map[v], q \in DOMAIN infos_map[w] :
                                /\ infos[infos_map[v][p]].lba = infos[infos_map[w][q]].lba => v = w
                                /\ infos_map[v][p] = infos_map[w][q] => p = q
    BY DEF Partitioned
  <2>1. Typed /\ Phases /\ Complete /\ MapsApart
    BY DEF PlanIInv
  <2>2. containers = <<>> /\ next_info = valid_lines + 1
    BY <2>1 DEF Phases, Assigned
  <2>3. DOMAIN infos = 1 .. next_info - 1
    <3>1. Len(infos) \in Nat /\ DOMAIN infos = 1 .. Len(infos)
      BY <2>1 DEF Typed
    <3> QED
      BY <2>2, <3>1 DEF valid_lines
  <2>4. \A n \in DOMAIN infos : \E w \in Workers : \E p \in DOMAIN infos_map[w] :
            infos_map[w][p] = n
    <3>1. DOMAIN containers = {}
      BY <2>2
    <3> QED
      BY <2>1, <2>3, <3>1 DEF Complete
  <2> QED
    BY <2>1, <2>4 DEF MapsApart
<1> QED
  BY <1>1, PlanInductive, PTL

\* No worker but the last gets a container beyond its share.
THEOREM SharesAreFair == PlanSpec => []FairShare
<1>1. PlanIInv => FairShare
  BY DEF PlanIInv, FairMaps, FairShare, OtherLBAs
<1> QED
  BY <1>1, PlanInductive, PTL

\* Every worker replays its records in order of time, those of an LBA with the
\* same time in the order of the trace.
THEOREM ReplayedInTimeOrder == PlanSpec => []InTimeOrder
<1>1. PlanIInv => InTimeOrder
  BY DEF PlanIInv
<1> QED
  BY <1>1, PlanInductive, PTL

\* A worker's hints, as a sequence of their own.
LEMMA HintsOfFacts ==
    ASSUME PlanIInv, NEW w \in PlannedWorkers
    PROVE  /\ HintsRight(w) /\ w \in Workers
           /\ params[w].start \in Nat /\ params[w].end \in Nat
           /\ HintsOf(w) \in Seq(HintType)
           /\ Len(HintsOf(w)) = params[w].end - params[w].start
           /\ Len(HintsOf(w)) \in Nat \ {0}
           /\ DOMAIN HintsOf(w) = 1 .. Len(HintsOf(w))
           /\ \A i \in 1 .. Len(HintsOf(w)) :
                HintsOf(w)[i] = hints[params[w].start + i] /\ HintsOf(w)[i] \in HintType
<1> DEFINE s == params[w].start
           e == params[w].end
<1>1. Typed /\ HintsRight(w) /\ w \in Workers
  BY DEF PlanIInv, PlannedHints, PlannedWorkers
<1>2. s \in Nat /\ e \in Nat /\ s < e /\ e <= Len(hints) /\ hints \in Seq(HintType)
  BY <1>1 DEF Typed, HintsRight
<1> HIDE DEF s, e
<1>3. \A i \in s + 1 .. e : hints[i] \in HintType
  BY <1>2
<1> DEFINE hs == SubSeq(hints, s + 1, e)
<1>4. /\ hs \in Seq(HintType)
      /\ Len(hs) = IF s + 1 <= e THEN e - (s + 1) + 1 ELSE 0
      /\ \A i \in 1 .. e - (s + 1) + 1 : hs[i] = hints[s + 1 + i - 1]
  <2>1. s + 1 \in Int /\ e \in Int
    BY <1>2
  <2> HIDE DEF hs
  <2>2. hs = SubSeq(hints, s + 1, e)
    BY DEF hs
  <2>3. PICK m : m = s + 1
    OBVIOUS
  <2>4. /\ SubSeq(hints, m, e) \in Seq(HintType)
        /\ Len(SubSeq(hints, m, e)) = IF m <= e THEN e - m + 1 ELSE 0
        /\ \A i \in 1 .. e - m + 1 : SubSeq(hints, m, e)[i] = hints[m + i - 1]
    <3>1. m \in Int /\ e \in Int /\ \A i \in m .. e : hints[i] \in HintType
      BY <1>3, <2>1, <2>3
    <3> QED
      BY <3>1, SubSeqProperties, SMTT(30)
  <2> QED
    BY <2>2, <2>3, <2>4
<1>5. HintsOf(w) = hs
  BY DEF HintsOf, hs, s, e
<1> HIDE DEF hs
<1>6. Len(hs) = e - s /\ Len(hs) \in Nat \ {0} /\ DOMAIN hs = 1 .. Len(hs)
  BY <1>2, <1>4
<1>7. ASSUME NEW i \in 1 .. Len(hs)
      PROVE  hs[i] = hints[s + i] /\ hs[i] \in HintType
  <2>1. i \in 1 .. e - (s + 1) + 1 /\ s + 1 + i - 1 = s + i /\ s + i \in s + 1 .. e
    BY <1>2, <1>6
  <2> QED
    BY <1>3, <1>4, <2>1
<1> QED
  BY <1>1, <1>2, <1>5, <1>6, <1>7, <1>4 DEF s, e

\* The hints of a worker tile its records, none is empty, and each fits in the
\* buffer that the worker gets.
THEOREM HintsTileRecords == PlanSpec => []HintsTile
<1>1. PlanIInv => HintsTile
  <2> SUFFICES ASSUME PlanIInv, NEW w \in PlannedWorkers
               PROVE  LET hs == HintsOf(w)
                      IN  /\ hs # <<>>
                          /\ Head(hs).start = 0
                          /\ hs[Len(hs)].start + hs[Len(hs)].blks = Len(infos_map[w])
                          /\ \A h \in 1 .. Len(hs) - 1 : hs[h].start + hs[h].blks = hs[h + 1].start
                          /\ \A h \in DOMAIN hs : hs[h].blks \in 1 .. params[w].buf
                          /\ params[w].buf <= Largest(1, opt.maxblks)
    BY DEF HintsTile
  <2> DEFINE hs == HintsOf(w)
             s == params[w].start
             e == params[w].end
             n == Len(hs)
             buf == params[w].buf
             upto == Len(infos_map[w])
  <2>1. /\ HintsRight(w) /\ s \in Nat /\ e \in Nat /\ hs \in Seq(HintType)
        /\ n = e - s /\ n \in Nat \ {0} /\ DOMAIN hs = 1 .. n
        /\ \A i \in 1 .. n : hs[i] = hints[s + i]
    BY HintsOfFacts
  <2>2. /\ Tiling(w, s + 1, e, upto, buf) /\ buf <= Largest(1, opt.maxblks)
    BY <2>1 DEF HintsRight, MaxBlks
  <2> HIDE DEF hs, s, e, n, buf, upto
  <2>3. /\ hints[s + 1].start = 0
        /\ hints[e].start + hints[e].blks = upto
        /\ \A h \in s + 1 .. e :
            /\ hints[h].blks \in 1 .. buf
            /\ h # e => hints[h].start + hints[h].blks = hints[h + 1].start
    BY <2>2, Zenon DEF Tiling
  <2>4. 1 \in 1 .. n /\ n \in 1 .. n /\ s + n = e
    BY <2>1
  <2>5. hs # <<>> /\ Head(hs) = hs[1]
    BY <2>1, <2>4 DEF n
  <2>6. Head(hs).start = 0
    BY <2>1, <2>3, <2>4, <2>5
  <2>7. hs[n].start + hs[n].blks = upto
    BY <2>1, <2>3, <2>4
  <2>8. ASSUME NEW h \in 1 .. n - 1
        PROVE  hs[h].start + hs[h].blks = hs[h + 1].start
    <3>1. /\ h \in 1 .. n /\ h + 1 \in 1 .. n /\ s + h \in s + 1 .. e /\ s + h # e
          /\ s + h + 1 = s + (h + 1)
      BY <2>1
    <3>2. hs[h] = hints[s + h] /\ hs[h + 1] = hints[s + h + 1]
      BY <2>1, <3>1
    <3> QED
      BY <2>3, <3>1, <3>2
  <2>9. ASSUME NEW h \in 1 .. n
        PROVE  hs[h].blks \in 1 .. buf
    <3>1. s + h \in s + 1 .. e
      BY <2>1
    <3> QED
      BY <2>1, <2>3, <3>1
  <2> QED
    BY <2>1, <2>2, <2>5, <2>6, <2>7, <2>8, <2>9 DEF hs, n, buf, upto
<1> QED
  BY <1>1, PlanInductive, PTL

\* A hint is one transfer of one mode over neighbouring blocks, and ends only
\* where it has to.
THEOREM HintsCoalesceRuns == PlanSpec => []HintsCoalesce
<1>1. PlanIInv => HintsCoalesce
  <2> SUFFICES ASSUME PlanIInv, NEW w \in PlannedWorkers, NEW h \in DOMAIN HintsOf(w)
               PROVE  LET hs == HintsOf(w)
                      IN  /\ \A n \in 0 .. hs[h].blks - 1 :
                                /\ rec(w, hs[h].start + n).rw = hs[h].rw
                                /\ rec(w, hs[h].start + n).lba
                                    = rec(w, hs[h].start).lba + n * BlkSectors
                          /\ h < Len(hs) /\ hs[h].blks < opt.maxblks =>
                                \/ rec(w, hs[h + 1].start).rw # hs[h].rw
                                \/ rec(w, hs[h + 1].start).lba
                                        # rec(w, hs[h + 1].start - 1).lba + BlkSectors
    BY Zenon DEF HintsCoalesce, rec
  <2> DEFINE hs == HintsOf(w)
             s == params[w].start
             e == params[w].end
             n == Len(hs)
             buf == params[w].buf
             upto == Len(infos_map[w])
  <2>1. /\ HintsRight(w) /\ s \in Nat /\ e \in Nat /\ hs \in Seq(HintType)
        /\ n = e - s /\ n \in Nat \ {0} /\ DOMAIN hs = 1 .. n
        /\ \A i \in 1 .. n : hs[i] = hints[s + i]
    BY HintsOfFacts
  <2>2. Tiling(w, s + 1, e, upto, buf)
    BY <2>1 DEF HintsRight
  <2>3. h \in 1 .. n
    BY <2>1
  <2> HIDE DEF hs, s, e, n, buf, upto
  <2>4. s + h \in s + 1 .. e /\ (h < n => h + 1 \in 1 .. n /\ s + h # e /\ s + h + 1 = s + (h + 1))
    BY <2>1, <2>3
  <2>5. /\ hints[s + h].rw = rec(w, hints[s + h].start).rw
        /\ OneRange(w, hints[s + h].start, hints[s + h].blks)
        /\ s + h # e => /\ hints[s + h].start + hints[s + h].blks = hints[s + h + 1].start
                        /\ EndsRange(w, hints[s + h].start, hints[s + h].blks)
    BY <2>2, <2>4, Zenon DEF Tiling
  <2>6. hs[h] = hints[s + h]
    BY <2>1, <2>3
  <2>7. \A m \in 0 .. hs[h].blks - 1 :
            /\ rec(w, hs[h].start + m).rw = hs[h].rw
            /\ rec(w, hs[h].start + m).lba = rec(w, hs[h].start).lba + m * BlkSectors
    BY <2>5, <2>6 DEF OneRange
  <2>8. ASSUME h < n, hs[h].blks < opt.maxblks
        PROVE  \/ rec(w, hs[h + 1].start).rw # hs[h].rw
               \/ rec(w, hs[h + 1].start).lba # rec(w, hs[h + 1].start - 1).lba + BlkSectors
    <3>1. hs[h + 1] = hints[s + h + 1]
      BY <2>1, <2>4, <2>8
    <3>2. hs[h].start + hs[h].blks = hs[h + 1].start
      BY <2>4, <2>5, <2>6, <2>8, <3>1
    <3>3. EndsRange(w, hs[h].start, hs[h].blks) /\ rec(w, hs[h].start).rw = hs[h].rw
      BY <2>4, <2>5, <2>6, <2>8
    <3>4. \/ rec(w, hs[h].start + hs[h].blks).rw # rec(w, hs[h].start).rw
          \/ rec(w, hs[h].start + hs[h].blks).lba
                # rec(w, hs[h].start + hs[h].blks - 1).lba + BlkSectors
      BY <2>8, <3>3 DEF EndsRange
    <3>5. hs[h].start + hs[h].blks - 1 = hs[h + 1].start - 1
      <4>1. hs[h] \in HintType
        BY <2>1, <2>3
      <4>2. PICK a, b : a = hs[h].start /\ b = hs[h].blks
        OBVIOUS
      <4>3. a \in Nat /\ b \in Nat /\ hs[h + 1].start = a + b
        BY <3>2, <4>1, <4>2 DEF HintType
      <4> QED
        BY <4>2, <4>3
    <3> QED
      BY <3>2, <3>3, <3>4, <3>5
  <2> QED
    BY <2>7, <2>8 DEF hs, n
<1> QED
  BY <1>1, PlanInductive, PTL

\* The array of hints, malloced with a place for every record, is large enough.
THEOREM HintsFitInArray == PlanSpec => []HintsFit
<1>1. PlanIInv => HintsFit
  <2> SUFFICES ASSUME PlanIInv, ~ (Len(hints) <= Len(infos))
               PROVE  FALSE
    BY DEF HintsFit, valid_lines
  <2>1. Typed /\ HintsCharged
    BY DEF PlanIInv
  <2>2. PICK f \in [DOMAIN hints -> DOMAIN infos] : \A g, h \in DOMAIN hints : f[g] = f[h] => g = h
    BY <2>1 DEF HintsCharged
  <2>3. PICK m \in Nat, n \in Nat : m = Len(hints) /\ n = Len(infos)
    BY <2>1 DEF Typed
  <2>4. DOMAIN hints = 1 .. m /\ DOMAIN infos = 1 .. n /\ n < m
    BY <2>1, <2>3 DEF Typed
  <2>5. IsFiniteSet(1 .. m) /\ IsFiniteSet(1 .. n)
        /\ Cardinality(1 .. n) < Cardinality(1 .. m)
    <3>1. 1 \in Int /\ m \in Int /\ n \in Int
      OBVIOUS
    <3>2. /\ IsFiniteSet(1 .. m) /\ IsFiniteSet(1 .. n)
          /\ Cardinality(1 .. m) = IF 1 > m THEN 0 ELSE m - 1 + 1
          /\ Cardinality(1 .. n) = IF 1 > n THEN 0 ELSE n - 1 + 1
      BY <3>1, FS_Interval, Zenon
    <3>3. PICK a, b : a = Cardinality(1 .. m) /\ b = Cardinality(1 .. n)
      OBVIOUS
    <3>4. a = m /\ b = n
      BY <3>2, <3>3
    <3> QED
      BY <2>4, <3>2, <3>3, <3>4
  <2>6. f \in [1 .. m -> 1 .. n]
    BY <2>4
  <2>7. \E x, y \in 1 .. m : x # y /\ f[x] = f[y]
    BY <2>5, <2>6, FS_PigeonHole, Zenon
  <2> QED
    BY <2>2, <2>4, <2>7
<1> QED
  BY <1>1, PlanInductive, PTL
=============================================================================
