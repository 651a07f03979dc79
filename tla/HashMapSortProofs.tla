------------------------ MODULE HashMapSortProofs ------------------------
(***************************************************************************)
(* Theorems of HashMapSort: for every number of entries, whatever the       *)
(* comparisons say, the merges of hashmap_sort lose no bucket of the list   *)
(* and no entry of a bucket.                                                *)
(*                                                                          *)
(* While runs are merged the pointers of the list are not all set: one is   *)
(* open behind the last merged run and one behind the first run of the two. *)
(* The invariant therefore names the order the buckets are to have, s, and  *)
(* the places of s at which the pointers may be wrong.                      *)
(***************************************************************************)
EXTENDS HashMapSort, NatLemmas, FiniteSetTheorems

-----------------------------------------------------------------------------
(* The inductive invariant *)

\* The bucket at place k of an order of c buckets, NULL before and behind it.
Entry(s, c, k) == IF k \in 1 .. c THEN s[k] ELSE NULL

\* s has each of the buckets 1 .. c once.
ListOrder(s, c) ==
    /\ s \in [1 .. c -> 1 .. c]
    /\ \A k, l \in 1 .. c : s[k] = s[l] => k = l
    /\ \A n \in 1 .. c : \E k \in 1 .. c : s[k] = n

\* Outside the places in open, the pointers nx follow the order s.
Linked(s, c, nx, open) ==
    \A k \in 1 .. c : k \notin open => nx[s[k]] = Entry(s, c, k + 1)

Pointers == Links \cup {NULL}

SortTyped ==
    /\ TypeOK
    /\ runs \in [start1 : Pointers, end1 : Pointers, start2 : Pointers,
                 end2 : Pointers, temp : Pointers]
    /\ cursor \in [a : Pointers, b : Pointers]

\* Between passes every pointer is right, and m->last is the end of the list
\* until it is sorted.
AtRest(s) ==
    pc \in {"idle", "pass"} =>
        /\ Linked(s, count, next, {})
        /\ pc = "idle" /\ ~sorted => last = Entry(s, count, count)
        /\ pc = "pass" => gap > 0

\* The first p buckets are merged; prevend, the p-th, is to be linked to what
\* comes next.
Merged(s, p) ==
    /\ p \in 0 .. count
    /\ gap \in 1 .. count - 1
    /\ runs.start1 = Entry(s, count, p + 1)
    /\ p > 0 => prevend = s[p]

BetweenRuns(s, p) == Merged(s, p) /\ Linked(s, count, next, {p})

\* The run from p + 1 to e is being made of two: up to i it is merged, up to j
\* it has the rest of the first run, and up to e that of the second.
InMerge(s, p, i, j, e) ==
    /\ Merged(s, p)
    /\ i \in p + 1 .. j /\ j \in p + 1 .. e /\ e \in p + 1 .. count
    /\ i = j => j < e
    /\ cursor.a = s[i]
    /\ cursor.b = Entry(s, count, j + 1)
    /\ runs.end1 = s[j]
    /\ j < e => runs.end2 = s[e]
    /\ runs.temp = Entry(s, count, e + 1)
    /\ Linked(s, count, next, {p, j})

\* How many turns of its loops the sort still takes at most: a pass has fewer
\* than PassTurns, gap grows with each, and what is merged is behind p.
PassTurns == 2 * count + 3
LaterTurns == IF gap < count THEN (count - gap - 1) * PassTurns ELSE 0
TurnsBeforePass == (IF gap < count THEN LaterTurns + PassTurns ELSE 0) + 1
TurnsBetween(p) == LaterTurns + 2 * (count - p) + 3
TurnsInMerge(i, e) == LaterTurns + 2 * (count - e) + 4 + (e - i)

InSort(s, m) ==
    /\ pc = "pass" => TurnsBeforePass <= m
    /\ pc = "runs" => \E p \in 0 .. count : BetweenRuns(s, p) /\ TurnsBetween(p) <= m
    /\ pc = "merge" => \E p, i, j, e \in 0 .. count :
                          InMerge(s, p, i, j, e) /\ TurnsInMerge(i, e) <= m

ListInv(s, m) ==
    /\ ListOrder(s, count)
    /\ first = Entry(s, count, 1)
    /\ AtRest(s)
    /\ InSort(s, m)

\* Buckets not yet in the list point nowhere.
RestUnlinked == \A n \in Links : n > count => next[n] = NULL

\* All is in place, and a sort returns within m steps.
SortWithin(m) ==
    /\ SortTyped
    /\ RestUnlinked
    /\ \E s \in [Nodes -> Nodes] : ListInv(s, m)

SortInv == \E m \in Nat : SortWithin(m)

-----------------------------------------------------------------------------
(* What the loops over the list find *)

WalkStep(f, n, e) ==
    IF e = 0 THEN n ELSE IF next[f[e - 1]] = NULL THEN f[e - 1] ELSE next[f[e - 1]]
Walk(n, d, f) == f = [e \in 0 .. d |-> WalkStep(f, n, e)]

LEMMA AheadWalks ==
    ASSUME NEW n, NEW d
    PROVE  Ahead(n, d) = (CHOOSE f : Walk(n, d, f))[d]
BY Zenon DEF Ahead, Walk, WalkStep

\* The walk from place q of an order in which the pointers up to place m are
\* right ends there, if it has as many steps or more and the list ends at m.
Stretch(s, q, m) == \A k \in q .. m - 1 : next[s[k]] = s[k + 1]
Place(q, m, e) == IF q + e <= m THEN q + e ELSE m

LEMMA WalkStays ==
    ASSUME count \in Nat, NEW s \in [Nodes -> Nodes], NEW q \in Nodes, NEW m \in q .. count,
           NEW d \in Nat, NULL \notin Nat, Stretch(s, q, m),
           m - q < d => next[s[m]] = NULL,
           NEW e \in 1 .. d
    PROVE  /\ Place(q, m, e) \in q .. m /\ Place(q, m, e - 1) \in q .. m
           /\ IF next[s[Place(q, m, e - 1)]] = NULL
              THEN s[Place(q, m, e)] = s[Place(q, m, e - 1)]
              ELSE s[Place(q, m, e)] = next[s[Place(q, m, e - 1)]]
<1>1. Place(q, m, e) \in q .. m /\ Place(q, m, e - 1) \in q .. m
  BY DEF Place, Nodes
<1>2. CASE q + e <= m
  <2>1. Place(q, m, e) = q + e /\ Place(q, m, e - 1) = q + (e - 1)
    BY <1>2 DEF Place, Nodes
  <2>2. q + (e - 1) \in q .. m - 1 /\ (q + (e - 1)) + 1 = q + e /\ q + e \in Nodes
    BY <1>2 DEF Nodes
  <2>3. next[s[q + (e - 1)]] = s[q + e]
    BY <2>2 DEF Stretch
  <2>4. s[q + e] \in Nat
    <3>1. s[q + e] \in Nodes
      BY <2>2
    <3>2. \A n \in Nodes : n \in Nat
      BY DEF Nodes
    <3> QED
      BY <3>1, <3>2
  <2>5. next[s[q + (e - 1)]] # NULL
    BY <2>3, <2>4
  <2> QED
    BY <1>1, <2>1, <2>3, <2>5
<1>3. CASE q + e > m
  <2>1. Place(q, m, e) = m /\ Place(q, m, e - 1) = m
    BY <1>3 DEF Place, Nodes
  <2>2. m - q < d
    <3>1. q \in Nat /\ m \in Nat
      BY DEF Nodes
    <3> QED
      BY <1>3, <3>1
  <2> QED
    BY <1>1, <2>1, <2>2
<1> QED
  BY <1>2, <1>3 DEF Nodes

LEMMA AheadIs ==
    ASSUME count \in Nat, NEW s \in [Nodes -> Nodes], NEW q \in Nodes, NEW m \in q .. count,
           NEW d \in Nat, NULL \notin Nat, Stretch(s, q, m),
           m - q < d => next[s[m]] = NULL, m - q <= d
    PROVE  Ahead(s[q], d) = s[m]
<1> DEFINE at(e) == s[Place(q, m, e)]
           w == [e \in 0 .. d |-> at(e)]
           f == CHOOSE g : Walk(s[q], d, g)
<1>1. at(0) = s[q] /\ at(d) = s[m]
  <2>1. q \in Nat /\ m \in Nat /\ q <= m
    BY DEF Nodes
  <2>2. Place(q, m, 0) = q /\ Place(q, m, d) = m
    BY <2>1 DEF Place
  <2> QED
    BY <2>2
<1>2. \A e \in 1 .. d : at(e) = IF next[at(e - 1)] = NULL THEN at(e - 1) ELSE next[at(e - 1)]
  BY WalkStays
<1> HIDE DEF at
<1>3. \A e \in 0 .. d : WalkStep(w, s[q], e) = at(e)
  <2>1. TAKE e \in 0 .. d
  <2>2. CASE e = 0
    BY <1>1, <2>2 DEF WalkStep
  <2>3. CASE e # 0
    <3>1. e \in 1 .. d /\ e - 1 \in 0 .. d
      BY <2>3
    <3>2. w[e - 1] = at(e - 1)
      BY <3>1
    <3> QED
      BY <1>2, <2>3, <3>1, <3>2 DEF WalkStep
  <2> QED
    BY <2>2, <2>3
<1>4. Walk(s[q], d, w)
  BY <1>3 DEF Walk
<1> HIDE DEF w
<1>5. Walk(s[q], d, f)
  BY <1>4
<1> HIDE DEF f
<1>6. \A e \in 0 .. d : f[e] = WalkStep(f, s[q], e)
  BY <1>5 DEF Walk
<1> DEFINE Bad == {e \in Nat : e <= d /\ f[e] # at(e)}
<1>7. Bad = {}
  <2> SUFFICES ASSUME Bad # {}
               PROVE  FALSE
    OBVIOUS
  <2>1. Bad \in SUBSET Nat
    OBVIOUS
  <2>2. PICK e \in Bad : \A l \in Bad : e <= l
    BY <2>1, LeastNatural
  <2>3. e \in 0 .. d /\ f[e] # at(e) /\ e \in Nat
    BY <2>2
  <2>4. CASE e = 0
    BY <1>1, <1>6, <2>3, <2>4 DEF WalkStep
  <2>5. CASE e # 0
    <3>1. e \in 1 .. d /\ e - 1 \in Nat /\ e - 1 <= d /\ ~ (e <= e - 1)
      BY <2>3, <2>5
    <3>2. f[e - 1] = at(e - 1)
      BY <2>2, <3>1
    <3>3. f[e] = WalkStep(f, s[q], e)
      BY <1>6, <2>3
    <3>4. f[e] = at(e)
      BY <1>2, <2>5, <3>1, <3>2, <3>3 DEF WalkStep
    <3> QED
      BY <2>3, <3>4
  <2> QED
    BY <2>4, <2>5
<1>8. f[d] = at(d)
  BY <1>7
<1>9. Ahead(s[q], d) = f[d]
  BY AheadWalks DEF f
<1> QED
  BY <1>1, <1>8, <1>9

\* The same for the order in which replay walks the list.
ListStep(f, n) ==
    IF n = 1 THEN first ELSE IF f[n - 1] = NULL THEN NULL ELSE next[f[n - 1]]
Listing(f) == f = [n \in 1 .. count + 1 |-> ListStep(f, n)]

LEMMA ListedWalks == Listed = CHOOSE f : Listing(f)
BY Zenon DEF Listed, Listing, ListStep

LEMMA ListedIs ==
    ASSUME count \in Nat, NEW s \in [Nodes -> Nodes], NULL \notin Nat,
           first = Entry(s, count, 1), Linked(s, count, next, {})
    PROVE  \A n \in 1 .. count + 1 : Listed[n] = Entry(s, count, n)
<1> DEFINE at(n) == Entry(s, count, n)
           w == [n \in 1 .. count + 1 |-> at(n)]
           f == CHOOSE g : Listing(g)
<1>1. \A n \in 2 .. count + 1 :
          /\ at(n - 1) # NULL
          /\ next[at(n - 1)] = at(n)
  <2>1. TAKE n \in 2 .. count + 1
  <2>2. n - 1 \in 1 .. count /\ (n - 1) + 1 = n
    OBVIOUS
  <2>3. at(n - 1) = s[n - 1] /\ s[n - 1] \in Nat
    BY <2>2 DEF Entry, Nodes
  <2>4. next[s[n - 1]] = Entry(s, count, n)
    BY <2>2 DEF Linked
  <2> QED
    BY <2>3, <2>4
<1>2. at(1) = first
  OBVIOUS
<1> HIDE DEF at
<1>3. \A n \in 1 .. count + 1 : ListStep(w, n) = at(n)
  <2>1. TAKE n \in 1 .. count + 1
  <2>2. CASE n = 1
    BY <1>2, <2>2 DEF ListStep
  <2>3. CASE n # 1
    <3>1. n \in 2 .. count + 1 /\ n - 1 \in 1 .. count + 1
      BY <2>3
    <3>2. w[n - 1] = at(n - 1)
      BY <3>1
    <3> QED
      BY <1>1, <2>3, <3>1, <3>2 DEF ListStep
  <2> QED
    BY <2>2, <2>3
<1>4. Listing(w)
  BY <1>3 DEF Listing
<1> HIDE DEF w
<1>5. Listing(f)
  BY <1>4
<1>6. Listed = f
  BY ListedWalks
<1> HIDE DEF f
<1>7. \A n \in 1 .. count + 1 : f[n] = ListStep(f, n)
  BY <1>5 DEF Listing
<1> DEFINE Bad == {n \in Nat : n \in 1 .. count + 1 /\ f[n] # at(n)}
<1>8. Bad = {}
  <2> SUFFICES ASSUME Bad # {}
               PROVE  FALSE
    OBVIOUS
  <2>1. Bad \in SUBSET Nat
    OBVIOUS
  <2>2. PICK n \in Bad : \A l \in Bad : n <= l
    BY <2>1, LeastNatural
  <2>3. n \in 1 .. count + 1 /\ f[n] # at(n)
    BY <2>2
  <2>4. CASE n = 1
    BY <1>2, <1>7, <2>3, <2>4 DEF ListStep
  <2>5. CASE n # 1
    <3>1. n \in 2 .. count + 1 /\ n - 1 \in Nat /\ n - 1 \in 1 .. count + 1 /\ ~ (n <= n - 1)
      BY <2>3, <2>5
    <3>2. f[n - 1] = at(n - 1)
      BY <2>2, <3>1
    <3>3. f[n] = ListStep(f, n)
      BY <1>7, <2>3
    <3>4. f[n] = at(n)
      BY <1>1, <2>5, <3>1, <3>2, <3>3 DEF ListStep
    <3> QED
      BY <2>3, <3>4
  <2> QED
    BY <2>4, <2>5
<1>9. TAKE n \in 1 .. count + 1
<1>10. f[n] = at(n)
  BY <1>8
<1> QED
  BY <1>6, <1>10 DEF at

-----------------------------------------------------------------------------
(* The steps between calls and between passes *)

LEMMA MaxBucketsNat == MaxBuckets \in Nat
BY Assumptions, FS_CardinalityType DEF MaxBuckets

\* What the invariant says of the types, as the provers need it.
LEMMA TypedFacts ==
    ASSUME SortTyped
    PROVE  /\ MaxBuckets \in Nat /\ count \in Nat /\ count <= MaxBuckets /\ gap \in Nat
           /\ Nodes \subseteq Links /\ Nodes \subseteq Nat /\ NULL \notin Nat
           /\ next \in [Links -> Pointers]
           /\ key \in [Links -> Keys \cup {NULL}]
<1>1. MaxBuckets \in Nat
  BY MaxBucketsNat
<1>2. count \in 0 .. MaxBuckets /\ gap \in 0 .. 2 * MaxBuckets
  BY DEF SortTyped, TypeOK
<1>3. count \in Nat /\ gap \in Nat /\ count <= MaxBuckets
  BY <1>1, <1>2
<1>4. Nodes \subseteq Links /\ Nodes \subseteq Nat
  BY <1>1, <1>3 DEF Nodes, Links
<1> QED
  BY <1>1, <1>3, <1>4, NullAssumption DEF SortTyped, TypeOK, Pointers

LEMMA TurnsNat ==
    ASSUME SortTyped
    PROVE  /\ PassTurns \in Nat /\ PassTurns = 2 * count + 3
           /\ LaterTurns \in Nat
<1>1. count \in Nat /\ gap \in Nat
  BY TypedFacts
<1>2. PassTurns \in Nat /\ PassTurns = 2 * count + 3
  BY <1>1 DEF PassTurns
<1>3. CASE gap < count
  <2>1. count - gap - 1 \in Nat
    BY <1>1, <1>3
  <2>2. (count - gap - 1) * PassTurns \in Nat
    BY <1>2, <2>1, MulNat
  <2> QED
    BY <1>2, <1>3, <2>2 DEF LaterTurns
<1>4. CASE ~ (gap < count)
  BY <1>2, <1>4 DEF LaterTurns
<1> QED
  BY <1>3, <1>4

LEMMA SortInvInit ==
    ASSUME Init
    PROVE  SortInv
<1>1. MaxBuckets \in Nat
  BY MaxBucketsNat
<1>2. SortTyped
  <2>1. key \in [Links -> Keys \cup {NULL}] /\ next \in [Links -> Links \cup {NULL}]
    BY DEF Init, Links
  <2>2. count \in 0 .. MaxBuckets /\ gap \in 0 .. 2 * MaxBuckets
    BY <1>1 DEF Init
  <2>3. /\ runs = NoRuns /\ NoRuns \in [start1 : Pointers, end1 : Pointers, start2 : Pointers,
                                        end2 : Pointers, temp : Pointers]
        /\ cursor = NoCursor /\ NoCursor \in [a : Pointers, b : Pointers]
    BY DEF Init, NoRuns, NoCursor, Pointers
  <2>4. \A f \in DOMAIN runs : runs[f] \in Links \cup {NULL}
    BY <2>3 DEF NoRuns
  <2>5. \A f \in DOMAIN cursor : cursor[f] \in Links \cup {NULL}
    BY <2>3 DEF NoCursor
  <2>6. /\ first \in Links \cup {NULL} /\ last \in Links \cup {NULL} /\ sorted \in BOOLEAN
        /\ pc \in {"idle", "pass", "runs", "merge"} /\ prevend \in Links \cup {NULL}
    BY DEF Init
  <2> QED
    BY <2>1, <2>2, <2>3, <2>4, <2>5, <2>6 DEF SortTyped, TypeOK
<1>3. RestUnlinked
  BY DEF Init, RestUnlinked, Links
<1>4. PICK s : s = [k \in 1 .. 0 |-> k]
  OBVIOUS
<1>5. s \in [Nodes -> Nodes] /\ ListOrder(s, count)
  <2>1. Nodes = 1 .. 0 /\ count = 0
    BY DEF Init, Nodes
  <2>2. s \in [1 .. 0 -> 1 .. 0]
    BY <1>4
  <2> QED
    BY <2>1, <2>2 DEF ListOrder
<1>6. AtRest(s)
  BY DEF Init, AtRest, Linked, Entry
<1>7. ListInv(s, 0)
  BY <1>5, <1>6 DEF Init, ListInv, InSort, Entry
<1>8. SortWithin(0)
  BY <1>2, <1>3, <1>5, <1>7 DEF SortWithin
<1> QED
  BY <1>8 DEF SortInv

\* A bucket put behind an order of all others.
LEMMA AppendOrder ==
    ASSUME NEW c \in Nat, NEW s, ListOrder(s, c),
           NEW t, t = [k \in 1 .. c + 1 |-> IF k = c + 1 THEN c + 1 ELSE s[k]]
    PROVE  ListOrder(t, c + 1)
<1>1. \A k \in 1 .. c : k \in 1 .. c + 1 /\ k # c + 1 /\ s[k] \in 1 .. c
  BY DEF ListOrder
<1>2. \A k \in 1 .. c + 1 : k = c + 1 \/ k \in 1 .. c
  OBVIOUS
<1>3. \A k \in 1 .. c : t[k] = s[k]
  BY <1>1
<1>4. t[c + 1] = c + 1 /\ c + 1 \notin 1 .. c /\ c + 1 \in 1 .. c + 1
  OBVIOUS
<1>5. \A k \in 1 .. c + 1 : t[k] \in 1 .. c + 1
  BY <1>1, <1>2, <1>3, <1>4
<1>6. t \in [1 .. c + 1 -> 1 .. c + 1]
  BY <1>5
<1>7. \A k, l \in 1 .. c + 1 : t[k] = t[l] => k = l
  BY <1>1, <1>2, <1>3, <1>4 DEF ListOrder
<1>8. \A n \in 1 .. c + 1 : \E k \in 1 .. c + 1 : t[k] = n
  BY <1>1, <1>2, <1>3, <1>4 DEF ListOrder
<1> QED
  BY <1>6, <1>7, <1>8 DEF ListOrder

LEMMA LinkEntryInv ==
    ASSUME NEW m \in Nat, SortWithin(m), ~AddsAfterSort, NEW x \in Keys, LinkEntry(x)
    PROVE  SortWithin(m)'
<1> USE DEF SortWithin
<1>1. /\ MaxBuckets \in Nat /\ count \in Nat /\ count <= MaxBuckets /\ gap \in Nat
      /\ Nodes \subseteq Links /\ Nodes \subseteq Nat /\ NULL \notin Nat
      /\ next \in [Links -> Pointers]
      /\ key \in [Links -> Keys \cup {NULL}]
  BY TypedFacts
<1>2. PICK s \in [Nodes -> Nodes] : ListInv(s, m)
  OBVIOUS
<1>3. pc = "idle" /\ ~sorted /\ count < MaxBuckets /\ count' = count + 1
  BY DEF LinkEntry
<1>4. /\ ListOrder(s, count) /\ first = Entry(s, count, 1) /\ last = Entry(s, count, count)
      /\ Linked(s, count, next, {})
  BY <1>2, <1>3 DEF ListInv, AtRest
<1>5. count + 1 \in Links /\ count + 1 \in Nat /\ count \in Links \cup {0}
  BY <1>1, <1>3 DEF Links
<1>6. SortTyped'
  <2>1. key' \in [Links -> Keys \cup {NULL}]
    BY <1>1 DEF LinkEntry
  <2>2. next' \in [Links -> Links \cup {NULL}]
    BY <1>1, <1>5 DEF LinkEntry, Pointers
  <2>3. first' \in Links \cup {NULL} /\ last' \in Links \cup {NULL}
    BY <1>5 DEF LinkEntry, SortTyped, TypeOK
  <2>4. count' \in 0 .. MaxBuckets
    BY <1>1, <1>3
  <2>5. UNCHANGED <<sorted, pc, gap, runs, prevend, cursor>>
    BY DEF LinkEntry
  <2> QED
    BY <2>1, <2>2, <2>3, <2>4, <2>5 DEF SortTyped, TypeOK
<1>7. RestUnlinked'
  <2> SUFFICES ASSUME NEW n \in Links, n > count + 1
               PROVE  next'[n] = NULL
    BY <1>3 DEF RestUnlinked
  <2>1. n > count
    BY <1>1 DEF Links
  <2>2. next[n] = NULL
    BY <2>1 DEF RestUnlinked
  <2>3. CASE next' = next
    BY <2>2, <2>3
  <2>4. CASE last # NULL /\ next' = [next EXCEPT ![last] = count + 1]
    <3>1. count \in 1 .. count
      BY <1>4, <2>4 DEF Entry
    <3>2. last \in 1 .. count
      BY <1>4, <3>1 DEF Entry, Nodes
    <3>3. last # n
      BY <1>1, <2>1, <3>2 DEF Links
    <3> QED
      BY <1>1, <2>2, <2>4, <3>3
  <2> QED
    BY <2>3, <2>4 DEF LinkEntry
<1>8. PICK t : t = [k \in 1 .. count + 1 |-> IF k = count + 1 THEN count + 1 ELSE s[k]]
  OBVIOUS
<1>9. ListOrder(t, count + 1)
  BY <1>1, <1>4, <1>8, AppendOrder
<1>10. \A k \in 1 .. count : t[k] = s[k] /\ s[k] \in 1 .. count
  <2>1. TAKE k \in 1 .. count
  <2>2. k \in 1 .. count + 1 /\ k # count + 1
    BY <1>1
  <2>3. s[k] \in 1 .. count
    BY DEF Nodes
  <2> QED
    BY <1>8, <2>2, <2>3
<1>11. t[count + 1] = count + 1
  BY <1>1, <1>8
<1>12. first' = Entry(t, count + 1, 1)
  <2>1. CASE count = 0
    BY <1>4, <1>11, <2>1 DEF Entry, LinkEntry
  <2>2. CASE count # 0
    <3>1. 1 \in 1 .. count /\ 1 \in 1 .. count + 1 /\ count \in 1 .. count
      BY <1>1, <2>2
    <3>2. last = s[count] /\ s[count] \in Nat /\ first = s[1] /\ t[1] = s[1]
      BY <1>1, <1>4, <1>10, <3>1 DEF Entry
    <3>3. first' = first
      BY <1>1, <3>2 DEF LinkEntry
    <3> QED
      BY <3>1, <3>2, <3>3 DEF Entry
  <2> QED
    BY <2>1, <2>2
<1>13. last' = Entry(t, count + 1, count + 1)
  <2>1. count + 1 \in 1 .. count + 1
    BY <1>1
  <2> QED
    BY <1>11, <2>1 DEF Entry, LinkEntry
<1>14. Linked(t, count + 1, next', {})
  <2> SUFFICES ASSUME NEW k \in 1 .. count + 1
               PROVE  next'[t[k]] = Entry(t, count + 1, k + 1)
    BY DEF Linked
  <2>1. CASE k = count + 1
    <3>1. next'[count + 1] = NULL
      <4>1. next[count + 1] = NULL
        BY <1>1, <1>5 DEF RestUnlinked
      <4>2. CASE next' = next
        BY <4>1, <4>2
      <4>3. CASE last # NULL /\ next' = [next EXCEPT ![last] = count + 1]
        <5>1. last \in 1 .. count
          BY <1>4, <4>3 DEF Entry, Nodes
        <5>2. last # count + 1
          BY <1>1, <5>1
        <5> QED
          BY <1>1, <1>5, <4>1, <4>3, <5>2
      <4> QED
        BY <4>2, <4>3 DEF LinkEntry
    <3>2. k + 1 \notin 1 .. count + 1
      BY <1>1, <2>1
    <3> QED
      BY <1>11, <2>1, <3>1, <3>2 DEF Entry
  <2>2. CASE k = count
    <3>1. k \in 1 .. count /\ k + 1 = count + 1 /\ count + 1 \in 1 .. count + 1
      BY <1>1, <2>2
    <3>2. last = s[k] /\ s[k] \in Nat /\ s[k] \in Links
      BY <1>1, <1>4, <1>10, <2>2, <3>1 DEF Entry, Nodes
    <3>3. next'[last] = count + 1
      BY <1>1, <3>2 DEF LinkEntry
    <3> QED
      BY <1>10, <1>11, <3>1, <3>2, <3>3 DEF Entry
  <2>3. CASE k \in 1 .. count - 1
    <3>1. k \in 1 .. count /\ k + 1 \in 1 .. count /\ k + 1 \in 1 .. count + 1 /\ k # count
          /\ count \in 1 .. count
      BY <1>1, <2>3
    <3>2. next[s[k]] = s[k + 1]
      BY <1>4, <3>1 DEF Linked, Entry
    <3>3. last = s[count] /\ s[k] # s[count]
      BY <1>4, <3>1 DEF Entry, ListOrder
    <3>4. next'[s[k]] = next[s[k]]
      BY <1>1, <1>10, <3>1, <3>3 DEF LinkEntry, Nodes
    <3>5. t[k] = s[k] /\ t[k + 1] = s[k + 1]
      BY <1>10, <3>1
    <3>6. Entry(t, count + 1, k + 1) = t[k + 1]
      BY <3>1 DEF Entry
    <3> QED
      BY <3>2, <3>4, <3>5, <3>6
  <2> QED
    BY <1>1, <2>1, <2>2, <2>3
<1>15. pc' = "idle"
  BY <1>3 DEF LinkEntry
<1>16. ListInv(t, m)'
  BY <1>3, <1>9, <1>12, <1>13, <1>14, <1>15 DEF ListInv, AtRest, InSort
<1>17. t \in [Nodes -> Nodes]'
  BY <1>3, <1>9 DEF Nodes, ListOrder
<1> QED
  BY <1>6, <1>7, <1>16, <1>17

\* Steps that leave the map alone.
LEMMA MapUnchanged ==
    ASSUME SortTyped, RestUnlinked, UNCHANGED map,
           sorted' \in BOOLEAN, pc' \in {"idle", "pass", "runs", "merge"},
           gap' \in 0 .. 2 * MaxBuckets, prevend' \in Pointers,
           runs' \in [start1 : Pointers, end1 : Pointers, start2 : Pointers,
                      end2 : Pointers, temp : Pointers],
           UNCHANGED cursor
    PROVE  SortTyped' /\ RestUnlinked'
<1>1. key' = key /\ next' = next /\ first' = first /\ last' = last /\ count' = count
  BY DEF map
<1>2. RestUnlinked'
  BY <1>1 DEF RestUnlinked
<1>3. \A f \in DOMAIN runs' : runs'[f] \in Links \cup {NULL}
  BY DEF Pointers
<1>4. SortTyped'
  BY <1>1, <1>3 DEF SortTyped, TypeOK, Pointers
<1> QED
  BY <1>2, <1>4

LEMMA SortCallInv ==
    ASSUME NEW m \in Nat, SortWithin(m), hashmap_sort,
           NEW n, n = (count - 1) * PassTurns + 1
    PROVE  SortWithin(n)'
<1> USE DEF SortWithin
<1>1. PICK s \in [Nodes -> Nodes] : ListInv(s, m)
  OBVIOUS
<1>2. /\ MaxBuckets \in Nat /\ count \in Nat /\ count <= MaxBuckets /\ gap \in Nat
      /\ Nodes \subseteq Links /\ Nodes \subseteq Nat /\ NULL \notin Nat
      /\ next \in [Links -> Pointers]
      /\ key \in [Links -> Keys \cup {NULL}]
  BY TypedFacts
<1>3. /\ pc = "idle" /\ pc' = "pass" /\ gap' = 1 /\ first # NULL
      /\ UNCHANGED <<map, sorted, runs, prevend, cursor>>
      /\ next' = next /\ first' = first /\ count' = count
  BY DEF hashmap_sort, map
<1>4. SortTyped' /\ RestUnlinked'
  <2>1. first = Entry(s, count, 1)
    BY <1>1 DEF ListInv
  <2>2. MaxBuckets # 0
    BY <1>2, <1>3, <2>1 DEF Entry
  <2>3. gap' \in 0 .. 2 * MaxBuckets
    BY <1>2, <1>3, <2>2
  <2> QED
    BY <1>3, <2>3, MapUnchanged DEF SortTyped, TypeOK, Pointers
<1>5. TurnsBeforePass' <= n
  <2>1. PassTurns' = PassTurns /\ PassTurns \in Nat
    BY <1>3, TurnsNat DEF PassTurns
  <2>2. count # 0
    BY <1>1, <1>3 DEF ListInv, Entry
  <2>3. CASE count = 1
    <3>1. TurnsBeforePass' = 1
      BY <1>3, <2>3 DEF TurnsBeforePass
    <3>2. (count - 1) * PassTurns = 0
      BY <2>1, <2>3
    <3> QED
      BY <3>1, <3>2
  <2>4. CASE count > 1
    <3>1. PICK c \in Nat : c + 1 = count - 1
      BY <1>2, <2>4
    <3>2. c * PassTurns \in Nat /\ (c + 1) * PassTurns = c * PassTurns + PassTurns
      BY <2>1, <3>1, MulNat
    <3>3. LaterTurns' = c * PassTurns
      <4>1. 1 < count /\ count - 1 - 1 = c
        BY <1>2, <2>4, <3>1
      <4> QED
        BY <1>3, <2>1, <4>1 DEF LaterTurns
    <3>4. TurnsBeforePass' = c * PassTurns + PassTurns + 1
      BY <1>3, <2>1, <2>4, <3>3 DEF TurnsBeforePass
    <3> QED
      BY <2>1, <3>1, <3>2, <3>4
  <2> QED
    BY <1>2, <2>2, <2>3, <2>4
<1>6. ListInv(s, n)'
  BY <1>1, <1>3, <1>5 DEF ListInv, AtRest, InSort
<1>7. s \in [Nodes -> Nodes]'
  BY <1>3 DEF Nodes
<1> QED
  BY <1>4, <1>6, <1>7

LEMMA StartPassInv ==
    ASSUME NEW m \in Nat, SortWithin(m), StartPass
    PROVE  m > 0 /\ SortWithin(m - 1)'
<1> USE DEF SortWithin
<1>1. PICK s \in [Nodes -> Nodes] : ListInv(s, m)
  OBVIOUS
<1>2. /\ MaxBuckets \in Nat /\ count \in Nat /\ count <= MaxBuckets /\ gap \in Nat
      /\ Nodes \subseteq Links /\ Nodes \subseteq Nat /\ NULL \notin Nat
      /\ next \in [Links -> Pointers]
      /\ key \in [Links -> Keys \cup {NULL}]
  BY TypedFacts
<1>3. /\ pc = "pass" /\ UNCHANGED map /\ UNCHANGED cursor
      /\ next' = next /\ first' = first /\ last' = last /\ count' = count
  BY DEF StartPass, map
<1>4. /\ ListOrder(s, count) /\ first = Entry(s, count, 1) /\ Linked(s, count, next, {})
      /\ gap > 0 /\ TurnsBeforePass <= m
  BY <1>1, <1>3 DEF ListInv, AtRest, InSort
<1>5. s \in [Nodes -> Nodes]'
  BY <1>3 DEF Nodes
<1>6. CASE gap < count /\ pc' = "runs"
  <2>1. runs' = [NoRuns EXCEPT !.start1 = first] /\ UNCHANGED <<sorted, gap, prevend>>
    BY <1>2, <1>6 DEF StartPass
  <2>2. first \in Pointers
    BY DEF SortTyped, TypeOK, Pointers
  <2>3. runs' \in [start1 : Pointers, end1 : Pointers, start2 : Pointers,
                   end2 : Pointers, temp : Pointers]
    BY <2>1, <2>2 DEF NoRuns, Pointers
  <2>4. SortTyped' /\ RestUnlinked'
    BY <1>3, <1>6, <2>1, <2>3, MapUnchanged DEF SortTyped, TypeOK, Pointers
  <2>5. runs'.start1 = first
    BY <2>1 DEF NoRuns
  <2>6. 0 \in 0 .. count /\ 0 + 1 = 1 /\ gap \in 1 .. count - 1
    BY <1>2, <1>4, <1>6
  <2>7. Merged(s, 0)'
    BY <1>3, <1>4, <2>1, <2>5, <2>6 DEF Merged
  <2>8. Linked(s, count, next, {0})
    BY <1>4 DEF Linked
  <2>9. BetweenRuns(s, 0)'
    BY <1>3, <2>7, <2>8 DEF BetweenRuns
  <2>10. m > 0 /\ TurnsBetween(0)' <= m - 1
    <3>1. PassTurns = 2 * count + 3 /\ LaterTurns \in Nat
      BY TurnsNat
    <3>2. TurnsBeforePass = LaterTurns + PassTurns + 1
      BY <1>6, <3>1 DEF TurnsBeforePass
    <3>3. LaterTurns' = LaterTurns
      BY <1>3, <2>1 DEF LaterTurns, PassTurns
    <3>4. TurnsBetween(0)' = LaterTurns + 2 * (count - 0) + 3
      BY <1>3, <3>3 DEF TurnsBetween
    <3> QED
      BY <1>2, <1>4, <3>1, <3>2, <3>4
  <2>11. InSort(s, m - 1)'
    BY <1>3, <1>6, <2>6, <2>9, <2>10 DEF InSort
  <2>12. ListInv(s, m - 1)'
    BY <1>3, <1>4, <1>6, <2>11 DEF ListInv, AtRest
  <2> QED
    BY <1>5, <2>4, <2>12, <2>10
<1>7. CASE pc' = "idle" /\ sorted' = TRUE
  <2>1. runs' = NoRuns /\ gap' = 0 /\ prevend' = NULL
    BY <1>7 DEF StartPass
  <2>2. runs' \in [start1 : Pointers, end1 : Pointers, start2 : Pointers,
                   end2 : Pointers, temp : Pointers]
    BY <2>1 DEF NoRuns, Pointers
  <2>3. 0 \in 0 .. 2 * MaxBuckets
    BY <1>2
  <2>4. SortTyped' /\ RestUnlinked'
    BY <1>3, <1>7, <2>1, <2>2, <2>3, MapUnchanged DEF Pointers
  <2>5. ListInv(s, m - 1)'
    BY <1>3, <1>4, <1>7 DEF ListInv, AtRest, InSort
  <2>6. m > 0
    <3>1. LaterTurns \in Nat /\ PassTurns \in Nat
      BY TurnsNat
    <3>2. TurnsBeforePass > 0
      BY <3>1 DEF TurnsBeforePass
    <3> QED
      BY <1>4, <3>1, <3>2 DEF TurnsBeforePass
  <2> QED
    BY <1>5, <2>4, <2>5, <2>6
<1> QED
  BY <1>6, <1>7 DEF StartPass

-----------------------------------------------------------------------------
(* The steps of a pass *)

\* Where the run that starts at place q ends.
LEMMA RunEnd ==
    ASSUME SortTyped, NEW s \in [Nodes -> Nodes],
           NEW p \in 0 .. count, Linked(s, count, next, {p}),
           NEW q \in p + 1 .. count, gap > 0,
           NEW m, m = IF q + gap - 1 <= count THEN q + gap - 1 ELSE count
    PROVE  /\ m \in q .. count
           /\ Ahead(s[q], gap - 1) = s[m]
           /\ next[s[m]] = Entry(s, count, m + 1)
<1>1. /\ count \in Nat /\ gap \in Nat /\ NULL \notin Nat
      /\ Nodes \subseteq Nat
  BY TypedFacts
<1>2. /\ p \in Nat /\ q \in Nat /\ q > p /\ q <= count /\ m \in Nat /\ gap - 1 \in Nat
  BY <1>1
<1>3. m \in q .. count /\ m \in 1 .. count /\ q \in Nodes /\ m - q <= gap - 1
  BY <1>1, <1>2 DEF Nodes
<1>4. m - q < gap - 1 => m = count
  BY <1>1, <1>2
<1>5. \A k \in q .. count : k \in 1 .. count /\ k \notin {p}
  BY <1>1, <1>2
<1>6. next[s[m]] = Entry(s, count, m + 1)
  BY <1>3, <1>5 DEF Linked
<1>7. Stretch(s, q, m)
  <2> SUFFICES ASSUME NEW k \in q .. m - 1
               PROVE  next[s[k]] = s[k + 1]
    BY DEF Stretch
  <2>1. k \in q .. count /\ k + 1 \in 1 .. count
    BY <1>1, <1>2, <1>3
  <2> QED
    BY <1>5, <2>1 DEF Linked, Entry
<1>8. m - q < gap - 1 => next[s[m]] = NULL
  BY <1>1, <1>4, <1>6 DEF Entry
<1> QED
  BY <1>1, <1>2, <1>3, <1>6, <1>7, <1>8, AheadIs

\* When a pass is over prevend is a bucket: something has been merged.
LEMMA PassMerged ==
    ASSUME SortTyped, NEW s \in [Nodes -> Nodes], NEW p \in 0 .. count, BetweenRuns(s, p),
           runs.start1 # NULL => next[Ahead(runs.start1, gap - 1)] = NULL
    PROVE  p > 0
<1>1. count \in Nat /\ gap \in Nat /\ NULL \notin Nat /\ Nodes \subseteq Nat
  BY TypedFacts
<1>2. gap \in 1 .. count - 1 /\ runs.start1 = Entry(s, count, p + 1)
      /\ Linked(s, count, next, {p})
  BY DEF BetweenRuns, Merged
<1> SUFFICES ASSUME p = 0
             PROVE  FALSE
  BY <1>1
<1>3. 1 \in p + 1 .. count /\ gap > 0 /\ p + 1 = 1 /\ 1 \in 1 .. count
      /\ gap = IF 1 + gap - 1 <= count THEN 1 + gap - 1 ELSE count
  BY <1>1, <1>2
<1>4. Ahead(s[1], gap - 1) = s[gap] /\ next[s[gap]] = Entry(s, count, gap + 1)
  BY <1>2, <1>3, RunEnd
<1>5. gap + 1 \in Nodes
  BY <1>1, <1>2 DEF Nodes
<1>6. Entry(s, count, gap + 1) # NULL
  BY <1>1, <1>5 DEF Entry, Nodes
<1>7. runs.start1 = s[1] /\ s[1] # NULL
  BY <1>1, <1>2, <1>3 DEF Entry, Nodes
<1> QED
  BY <1>4, <1>6, <1>7

LEMMA EndPassInv ==
    ASSUME NEW m \in Nat, SortWithin(m), EndPass
    PROVE  m > 0 /\ SortWithin(m - 1)'
<1> USE DEF SortWithin
<1>1. PICK s \in [Nodes -> Nodes] : ListInv(s, m)
  OBVIOUS
<1>2. /\ MaxBuckets \in Nat /\ count \in Nat /\ count <= MaxBuckets /\ gap \in Nat
      /\ Nodes \subseteq Links /\ Nodes \subseteq Nat /\ NULL \notin Nat
      /\ next \in [Links -> Pointers]
      /\ key \in [Links -> Keys \cup {NULL}]
  BY TypedFacts
<1>3. /\ pc = "runs" /\ pc' = "pass" /\ gap' = 2 * gap
      /\ runs.start1 # NULL => next[Ahead(runs.start1, gap - 1)] = NULL
      /\ next' = [next EXCEPT ![prevend] = runs.start1]
      /\ UNCHANGED <<key, first, last, count, sorted, runs, prevend, cursor>>
  BY DEF EndPass
<1>4. PICK p \in 0 .. count : BetweenRuns(s, p) /\ TurnsBetween(p) <= m
  BY <1>1, <1>3 DEF ListInv, InSort
<1>5. /\ gap \in 1 .. count - 1 /\ runs.start1 = Entry(s, count, p + 1)
      /\ p > 0 => prevend = s[p]
      /\ Linked(s, count, next, {p})
  BY <1>4 DEF BetweenRuns, Merged
<1>6. p > 0 /\ p \in 1 .. count
  BY <1>2, <1>3, <1>4, PassMerged
<1>7. prevend = s[p] /\ s[p] \in Nodes
  BY <1>5, <1>6 DEF Nodes
<1>8. SortTyped'
  <2>1. runs.start1 \in Pointers
    BY DEF SortTyped
  <2>2. next' \in [Links -> Links \cup {NULL}]
    BY <1>2, <1>3, <2>1 DEF Pointers
  <2>3. gap' \in 0 .. 2 * MaxBuckets
    BY <1>2, <1>3, <1>5
  <2> QED
    BY <1>3, <2>2, <2>3 DEF SortTyped, TypeOK
<1>9. RestUnlinked'
  <2> SUFFICES ASSUME NEW n \in Links, n > count
               PROVE  next'[n] = NULL
    BY <1>3 DEF RestUnlinked
  <2>1. n # prevend
    BY <1>2, <1>7 DEF Nodes
  <2> QED
    BY <1>2, <1>3, <2>1 DEF RestUnlinked
<1>10. Linked(s, count, next', {})
  <2> SUFFICES ASSUME NEW k \in 1 .. count
               PROVE  next'[s[k]] = Entry(s, count, k + 1)
    BY DEF Linked
  <2>1. s[k] \in Links
    BY <1>2 DEF Nodes
  <2>2. CASE k = p
    BY <1>2, <1>3, <1>5, <1>7, <2>1, <2>2
  <2>3. CASE k # p
    <3>1. s[k] # s[p]
      BY <1>1, <1>6, <2>3 DEF ListInv, ListOrder
    <3>2. next[s[k]] = Entry(s, count, k + 1)
      BY <1>5, <2>3 DEF Linked
    <3> QED
      BY <1>2, <1>3, <1>7, <2>1, <3>1, <3>2
  <2> QED
    BY <2>2, <2>3
<1>11. gap' > 0
  BY <1>2, <1>3, <1>5
<1>12. m > 0 /\ TurnsBeforePass' <= m - 1
  <2>1. PassTurns \in Nat /\ LaterTurns \in Nat /\ PassTurns' = PassTurns
    BY <1>3, TurnsNat DEF PassTurns
  <2>2. LaterTurns + 3 <= m
    <3>1. count - p \in Nat
      BY <1>2
    <3> QED
      BY <1>4, <2>1, <3>1 DEF TurnsBetween
  <2>3. TurnsBeforePass' <= LaterTurns + 1
    <3>1. CASE gap' < count
      <4>1. PICK a \in Nat : a = count - 2 * gap - 1
        BY <1>2, <1>3, <3>1
      <4>2. PICK b \in Nat : b = count - gap - 1
        BY <1>2, <1>5
      <4>3. a < b
        BY <1>2, <1>5, <4>1, <4>2
      <4>4. a * PassTurns + PassTurns <= b * PassTurns
        BY <2>1, <4>3, MulLess
      <4>5. LaterTurns = b * PassTurns
        BY <1>2, <1>5, <4>2 DEF LaterTurns
      <4>6. LaterTurns' = a * PassTurns
        BY <1>2, <1>3, <2>1, <3>1, <4>1 DEF LaterTurns
      <4>7. TurnsBeforePass' = a * PassTurns + PassTurns + 1
        BY <1>3, <2>1, <3>1, <4>6 DEF TurnsBeforePass
      <4>8. a * PassTurns \in Nat
        BY <2>1, MulNat
      <4> QED
        BY <2>1, <4>4, <4>5, <4>7, <4>8
    <3>2. CASE ~ (gap' < count)
      BY <1>3, <2>1, <3>2 DEF TurnsBeforePass
    <3> QED
      BY <3>1, <3>2
  <2>4. TurnsBeforePass' \in Int
    <3>1. CASE gap' < count
      <4>1. LaterTurns' \in Int
        <5>1. PICK a \in Nat : a = count - 2 * gap - 1
          BY <1>2, <1>3, <3>1
        <5>2. LaterTurns' = a * PassTurns
          BY <1>2, <1>3, <2>1, <3>1, <5>1 DEF LaterTurns
        <5> QED
          BY <2>1, <5>2, MulNat
      <4> QED
        BY <1>3, <2>1, <3>1, <4>1 DEF TurnsBeforePass
    <3>2. CASE ~ (gap' < count)
      BY <1>3, <3>2 DEF TurnsBeforePass
    <3> QED
      BY <3>1, <3>2
  <2> QED
    BY <2>1, <2>2, <2>3, <2>4
<1>13. ListInv(s, m - 1)'
  BY <1>1, <1>3, <1>10, <1>11, <1>12 DEF ListInv, AtRest, InSort
<1>14. s \in [Nodes -> Nodes]'
  BY <1>3 DEF Nodes
<1> QED
  BY <1>8, <1>9, <1>13, <1>14, <1>12

\* What BeginMerge finds: two runs, from p + 1 to j and from j + 1 to e.
TwoRuns(s, p, j, e) ==
    /\ j \in p + 1 .. e - 1 /\ e \in p + 2 .. count
    /\ runs.start1 = s[p + 1]
    /\ Ahead(runs.start1, gap - 1) = s[j]
    /\ next[s[j]] = s[j + 1]
    /\ Ahead(s[j + 1], gap - 1) = s[e]
    /\ next[s[e]] = Entry(s, count, e + 1)

LEMMA BeginMergeFinds ==
    ASSUME SortTyped, NEW s \in [Nodes -> Nodes], NEW p \in 0 .. count, BetweenRuns(s, p),
           runs.start1 # NULL, next[Ahead(runs.start1, gap - 1)] # NULL
    PROVE  \E j, e \in 1 .. count : TwoRuns(s, p, j, e)
<1>1. count \in Nat /\ gap \in Nat /\ NULL \notin Nat /\ Nodes \subseteq Nat
  BY TypedFacts
<1>2. gap \in 1 .. count - 1 /\ gap > 0 /\ runs.start1 = Entry(s, count, p + 1)
      /\ Linked(s, count, next, {p})
  BY <1>1 DEF BetweenRuns, Merged
<1>3. p + 1 \in p + 1 .. count /\ p + 1 \in 1 .. count
  BY <1>1, <1>2 DEF Entry
<1>4. runs.start1 = s[p + 1]
  BY <1>2, <1>3 DEF Entry
<1>5. PICK q : q = p + 1
  OBVIOUS
<1>6. PICK j : /\ j \in p + 1 .. count
               /\ Ahead(s[p + 1], gap - 1) = s[j]
               /\ next[s[j]] = Entry(s, count, j + 1)
  <2>1. q \in p + 1 .. count
    BY <1>3, <1>5
  <2>2. PICK m : m = IF q + gap - 1 <= count THEN q + gap - 1 ELSE count
    OBVIOUS
  <2>3. m \in q .. count /\ Ahead(s[q], gap - 1) = s[m] /\ next[s[m]] = Entry(s, count, m + 1)
    BY <1>2, <2>1, <2>2, RunEnd
  <2> QED
    BY <1>5, <2>3
<1>7. j + 1 \in 1 .. count
  BY <1>4, <1>6 DEF Entry
<1>8. j + 1 \in p + 1 .. count /\ j \in 1 .. count
  BY <1>1, <1>6, <1>7
<1>9. PICK r : r = j + 1
  OBVIOUS
<1>10. PICK e : /\ e \in j + 1 .. count
                /\ Ahead(s[j + 1], gap - 1) = s[e]
                /\ next[s[e]] = Entry(s, count, e + 1)
  <2>1. r \in p + 1 .. count
    BY <1>8, <1>9
  <2>2. PICK m : m = IF r + gap - 1 <= count THEN r + gap - 1 ELSE count
    OBVIOUS
  <2>3. m \in r .. count /\ Ahead(s[r], gap - 1) = s[m] /\ next[s[m]] = Entry(s, count, m + 1)
    BY <1>2, <2>1, <2>2, RunEnd
  <2> QED
    BY <1>9, <2>3
<1>11. next[s[j]] = s[j + 1]
  BY <1>6, <1>7 DEF Entry
<1>12. j \in p + 1 .. e - 1 /\ e \in p + 2 .. count /\ e \in 1 .. count
  BY <1>1, <1>6, <1>8, <1>10
<1>13. TwoRuns(s, p, j, e)
  BY <1>4, <1>6, <1>10, <1>11, <1>12 DEF TwoRuns
<1> QED
  BY <1>8, <1>12, <1>13

LEMMA SwapTyped ==
    ASSUME NEW k \in [Links -> Keys \cup {NULL}], NEW a \in Links, NEW b \in Links
    PROVE  _hashmap_swap_bucket(k, a, b) \in [Links -> Keys \cup {NULL}]
BY DEF _hashmap_swap_bucket

\* The contents of the buckets of the list.
Stored(k) == {k[n] : n \in Nodes}

\* A swap moves contents between two buckets of the list.
LEMMA SwapKeeps ==
    ASSUME NEW k \in [Links -> Keys \cup {NULL}], NEW a \in Nodes, NEW b \in Nodes,
           Nodes \subseteq Links,
           NEW x, x = _hashmap_swap_bucket(k, a, b)
    PROVE  Stored(x) = Stored(k)
<1>1. x[a] = k[b] /\ x[b] = k[a] /\ \A n \in Nodes : n # a /\ n # b => x[n] = k[n]
  BY DEF _hashmap_swap_bucket
<1>2. \A n \in Nodes : \E m \in Nodes : x[n] = k[m]
  BY <1>1
<1>3. \A n \in Nodes : \E m \in Nodes : k[n] = x[m]
  BY <1>1
<1> QED
  BY <1>2, <1>3 DEF Stored

\* The buckets BeginMerge works on are in the list, and its contents stay.
LEMMA BeginMergeMoves ==
    ASSUME SortInv, BeginMerge
    PROVE  /\ key' \in [Links -> Keys \cup {NULL}]
           /\ Stored(key') = Stored(key)
<1>1. PICK m \in Nat : SortWithin(m)
  BY DEF SortInv
<1> USE DEF SortWithin
<1>2. PICK s \in [Nodes -> Nodes] : ListInv(s, m)
  BY <1>1
<1>3. /\ MaxBuckets \in Nat /\ count \in Nat /\ count <= MaxBuckets /\ gap \in Nat
      /\ Nodes \subseteq Links /\ Nodes \subseteq Nat /\ NULL \notin Nat
      /\ next \in [Links -> Pointers]
      /\ key \in [Links -> Keys \cup {NULL}]
  BY <1>1, TypedFacts
<1> DEFINE start1 == runs.start1
           end1 == Ahead(start1, gap - 1)
           start2 == next[end1]
           end2 == Ahead(start2, gap - 1)
           once == _hashmap_swap_bucket(key, start1, start2)
<1>4. /\ pc = "runs" /\ start1 # NULL /\ start2 # NULL
      /\ \/ key' = key
         \/ key' = _hashmap_swap_bucket(once, end1, end2)
  BY DEF BeginMerge
<1>5. PICK p \in 0 .. count : BetweenRuns(s, p)
  BY <1>2, <1>4 DEF ListInv, InSort
<1>6. PICK j \in 1 .. count, e \in 1 .. count : TwoRuns(s, p, j, e)
  BY <1>3, <1>4, <1>5, <1>1, BeginMergeFinds
<1>7. start1 \in Nodes /\ end1 \in Nodes /\ start2 \in Nodes /\ end2 \in Nodes
  <2>1. p + 1 \in Nodes /\ j \in Nodes /\ j + 1 \in Nodes /\ e \in Nodes
    BY <1>3, <1>5, <1>6 DEF TwoRuns, Nodes
  <2>2. start1 = s[p + 1] /\ end1 = s[j]
    BY <1>6 DEF TwoRuns
  <2>3. start2 = s[j + 1]
    BY <1>6, <2>2 DEF TwoRuns
  <2>4. end2 = s[e]
    BY <1>6, <2>3 DEF TwoRuns
  <2> QED
    BY <2>1, <2>2, <2>3, <2>4
<1> HIDE DEF start1, end1, start2, end2
<1>8. once \in [Links -> Keys \cup {NULL}]
  BY <1>3, <1>7, SwapTyped
<1>9. Stored(once) = Stored(key)
  BY <1>3, <1>7, SwapKeeps
<1> HIDE DEF once
<1>10. CASE key' = key
  BY <1>3, <1>10
<1>11. CASE key' = _hashmap_swap_bucket(once, end1, end2)
  <2>1. key' \in [Links -> Keys \cup {NULL}]
    BY <1>3, <1>7, <1>8, <1>11, SwapTyped
  <2>2. Stored(key') = Stored(once)
    BY <1>3, <1>7, <1>8, <1>11, SwapKeeps
  <2> QED
    BY <1>9, <2>1, <2>2
<1> QED
  BY <1>4, <1>10, <1>11

LEMMA BeginMergeInv ==
    ASSUME NEW m \in Nat, SortWithin(m), BeginMerge
    PROVE  m > 0 /\ SortWithin(m - 1)'
<1> USE DEF SortWithin
<1>1. PICK s \in [Nodes -> Nodes] : ListInv(s, m)
  OBVIOUS
<1>2. /\ MaxBuckets \in Nat /\ count \in Nat /\ count <= MaxBuckets /\ gap \in Nat
      /\ Nodes \subseteq Links /\ Nodes \subseteq Nat /\ NULL \notin Nat
      /\ next \in [Links -> Pointers]
      /\ key \in [Links -> Keys \cup {NULL}]
  BY TypedFacts
<1> DEFINE start1 == runs.start1
           end1 == Ahead(start1, gap - 1)
           start2 == next[end1]
           end2 == Ahead(start2, gap - 1)
<1>3. /\ pc = "runs" /\ pc' = "merge" /\ start1 # NULL /\ start2 # NULL
      /\ runs' = [start1 |-> start1, end1 |-> end1, start2 |-> start2,
                  end2 |-> end2, temp |-> next[end2]]
      /\ cursor' = [a |-> start1, b |-> start2]
      /\ UNCHANGED <<next, first, last, count, sorted, gap, prevend>>
  BY DEF BeginMerge
<1>4. PICK p \in 0 .. count : BetweenRuns(s, p) /\ TurnsBetween(p) <= m
  BY <1>1, <1>3 DEF ListInv, InSort
<1>5. PICK j \in 1 .. count, e \in 1 .. count : TwoRuns(s, p, j, e)
  BY <1>2, <1>3, <1>4, BeginMergeFinds
<1>6. j \in p + 1 .. e - 1 /\ e \in p + 2 .. count
  BY <1>5 DEF TwoRuns
<1>7. p + 1 \in 1 .. count /\ j + 1 \in 1 .. count /\ j \in 1 .. count /\ e \in 1 .. count
  BY <1>2, <1>4, <1>5, <1>6
<1>8. start1 = s[p + 1] /\ end1 = s[j]
  BY <1>5 DEF TwoRuns
<1>9. start2 = s[j + 1]
  BY <1>5, <1>8 DEF TwoRuns
<1>10. end2 = s[e]
  BY <1>5, <1>9 DEF TwoRuns
<1>11. next[end2] = Entry(s, count, e + 1) /\ next[end2] \in Pointers
  <2>1. s[e] \in Links
    BY <1>2, <1>7 DEF Nodes
  <2> QED
    BY <1>2, <1>5, <1>10, <2>1 DEF TwoRuns
<1> HIDE DEF start1, end1, start2, end2
<1>12. start1 \in Links /\ start2 \in Links /\ end1 \in Links /\ end2 \in Links
  BY <1>2, <1>7, <1>8, <1>9, <1>10 DEF Nodes
<1>13. SortTyped'
  <2>1. runs' \in [start1 : Pointers, end1 : Pointers, start2 : Pointers,
                   end2 : Pointers, temp : Pointers]
    BY <1>3, <1>11, <1>12 DEF Pointers
  <2>2. cursor' \in [a : Pointers, b : Pointers]
    BY <1>3, <1>12 DEF Pointers
  <2>3. \A f \in DOMAIN runs' : runs'[f] \in Links \cup {NULL}
    BY <2>1 DEF Pointers
  <2>4. \A f \in DOMAIN cursor' : cursor'[f] \in Links \cup {NULL}
    BY <2>2 DEF Pointers
  <2>5. key' \in [Links -> Keys \cup {NULL}]
    <3>1. SortInv
      BY DEF SortInv
    <3> QED
      BY <3>1, BeginMergeMoves
  <2> QED
    BY <1>3, <2>1, <2>2, <2>3, <2>4, <2>5 DEF SortTyped, TypeOK
<1>14. RestUnlinked'
  BY <1>3 DEF RestUnlinked
<1>15. /\ runs'.start1 = start1 /\ runs'.end1 = end1 /\ runs'.end2 = end2
       /\ runs'.temp = next[end2] /\ cursor'.a = start1 /\ cursor'.b = start2
  BY <1>3
<1>16. Merged(s, p)'
  BY <1>3, <1>4, <1>15 DEF BetweenRuns, Merged, start1
<1>17. p + 1 \in p + 1 .. j /\ j \in p + 1 .. e /\ e \in p + 1 .. count /\ j < e
  BY <1>2, <1>4, <1>5, <1>6
<1>18. Linked(s, count, next', {p, j})
  BY <1>3, <1>4 DEF BetweenRuns, Linked
<1>19. cursor'.b = Entry(s, count, j + 1)
  BY <1>7, <1>9, <1>15 DEF Entry
<1>20. InMerge(s, p, p + 1, j, e)'
  BY <1>3, <1>8, <1>10, <1>11, <1>15, <1>16, <1>17, <1>18, <1>19 DEF InMerge
<1>21. p + 1 \in 0 .. count /\ j \in 0 .. count /\ e \in 0 .. count
  BY <1>2, <1>7
<1>22. m > 0 /\ TurnsInMerge(p + 1, e)' <= m - 1
  <2>1. LaterTurns \in Nat /\ LaterTurns' = LaterTurns
    BY <1>3, TurnsNat DEF LaterTurns, PassTurns
  <2>2. TurnsInMerge(p + 1, e)' = LaterTurns + 2 * (count - e) + 4 + (e - (p + 1))
    BY <1>3, <2>1 DEF TurnsInMerge
  <2>3. LaterTurns + 2 * (count - p) + 3 <= m
    BY <1>4 DEF TurnsBetween
  <2> QED
    BY <1>2, <1>6, <2>1, <2>2, <2>3
<1>23. InSort(s, m - 1)'
  BY <1>3, <1>20, <1>21, <1>22 DEF InSort
<1>24. ListInv(s, m - 1)'
  BY <1>1, <1>3, <1>23 DEF ListInv, AtRest
<1>25. s \in [Nodes -> Nodes]'
  BY <1>3 DEF Nodes
<1> QED
  BY <1>13, <1>14, <1>24, <1>25, <1>22

\* The order after the bucket at place j + 1 has moved behind the one at i.
IsMoved(t, s, c, i, j) ==
    /\ t \in [1 .. c -> 1 .. c]
    /\ t[i + 1] = s[j + 1]
    /\ \A k \in i + 2 .. j + 1 : t[k] = s[k - 1]
    /\ \A k \in 1 .. c : k \notin i + 1 .. j + 1 => t[k] = s[k]

LEMMA MovedExists ==
    ASSUME NEW c \in Nat, NEW s \in [1 .. c -> 1 .. c], NEW i \in 1 .. c, NEW j \in i .. c - 1
    PROVE  \E t : IsMoved(t, s, c, i, j)
<1> DEFINE From(k) == IF k = i + 1 THEN j + 1
                      ELSE IF k \in i + 2 .. j + 1 THEN k - 1 ELSE k
           t == [k \in 1 .. c |-> s[From(k)]]
<1>1. \A k \in 1 .. c : From(k) \in 1 .. c
  OBVIOUS
<1>2. i + 1 \in 1 .. c /\ From(i + 1) = j + 1
  OBVIOUS
<1>3. \A k \in i + 2 .. j + 1 : k \in 1 .. c /\ From(k) = k - 1
  OBVIOUS
<1>4. \A k \in 1 .. c : k \notin i + 1 .. j + 1 => From(k) = k
  OBVIOUS
<1> HIDE DEF From
<1>5. t \in [1 .. c -> 1 .. c]
  BY <1>1
<1>6. \A k \in 1 .. c : t[k] = s[From(k)]
  OBVIOUS
<1> HIDE DEF t
<1>7. t[i + 1] = s[j + 1]
  <2>1. t[i + 1] = s[From(i + 1)]
    BY <1>2, <1>6
  <2> QED
    BY <1>2, <2>1
<1>8. \A k \in i + 2 .. j + 1 : t[k] = s[k - 1]
  BY <1>3, <1>6
<1>9. \A k \in 1 .. c : k \notin i + 1 .. j + 1 => t[k] = s[k]
  BY <1>4, <1>6
<1>10. IsMoved(t, s, c, i, j)
  BY <1>5, <1>7, <1>8, <1>9 DEF IsMoved
<1> QED
  BY <1>10

LEMMA MovedOrder ==
    ASSUME NEW c \in Nat, NEW s, ListOrder(s, c), NEW i \in 1 .. c, NEW j \in i .. c - 1,
           NEW t, IsMoved(t, s, c, i, j)
    PROVE  ListOrder(t, c)
<1> DEFINE From(k) == IF k = i + 1 THEN j + 1
                      ELSE IF k \in i + 2 .. j + 1 THEN k - 1 ELSE k
<1>1. \A k \in 1 .. c : From(k) \in 1 .. c
  OBVIOUS
<1>2. \A k, l \in 1 .. c : From(k) = From(l) => k = l
  OBVIOUS
<1>3. \A k \in 1 .. c : \E l \in 1 .. c : From(l) = k
  <2>1. TAKE k \in 1 .. c
  <2>2. CASE k = j + 1
    <3>1. i + 1 \in 1 .. c /\ From(i + 1) = k
      BY <2>2
    <3> QED
      BY <3>1
  <2>3. CASE k \in i + 1 .. j
    <3>1. k + 1 \in 1 .. c /\ From(k + 1) = k
      BY <2>3
    <3> QED
      BY <3>1
  <2>4. CASE k \notin i + 1 .. j + 1
    <3>1. From(k) = k
      BY <2>4
    <3> QED
      BY <3>1
  <2> QED
    BY <2>2, <2>3, <2>4
<1>4. \A k \in 1 .. c : t[k] = s[From(k)]
  <2>1. TAKE k \in 1 .. c
  <2>2. CASE k = i + 1
    BY <2>2 DEF IsMoved
  <2>3. CASE k \in i + 2 .. j + 1
    <3>1. k # i + 1
      BY <2>3
    <3> QED
      BY <2>3, <3>1 DEF IsMoved
  <2>4. CASE k \notin i + 1 .. j + 1
    <3>1. From(k) = k
      BY <2>4
    <3> QED
      BY <2>4, <3>1 DEF IsMoved
  <2> QED
    BY <2>2, <2>3, <2>4
<1> HIDE DEF From
<1>5. t \in [1 .. c -> 1 .. c]
  BY DEF IsMoved
<1>6. \A k, l \in 1 .. c : t[k] = t[l] => k = l
  <2>1. TAKE k, l \in 1 .. c
  <2>2. HAVE t[k] = t[l]
  <2>3. s[From(k)] = s[From(l)]
    BY <1>4, <2>2
  <2>4. From(k) = From(l)
    BY <1>1, <2>3 DEF ListOrder
  <2> QED
    BY <1>2, <2>4
<1>7. \A n \in 1 .. c : \E k \in 1 .. c : t[k] = n
  <2>1. TAKE n \in 1 .. c
  <2>2. PICK l \in 1 .. c : s[l] = n
    BY DEF ListOrder
  <2>3. PICK k \in 1 .. c : From(k) = l
    BY <1>3
  <2> QED
    BY <1>4, <2>2, <2>3
<1> QED
  BY <1>5, <1>6, <1>7 DEF ListOrder

\* Where the order has not changed, the same is found there.
LEMMA MovedEntry ==
    ASSUME NEW c \in Nat, NEW s, NEW i \in 1 .. c, NEW j \in i .. c - 1,
           NEW t, IsMoved(t, s, c, i, j), NEW k \in Nat, k <= i \/ k > j + 1
    PROVE  Entry(t, c, k) = Entry(s, c, k)
<1>1. k \notin i + 1 .. j + 1
  OBVIOUS
<1> QED
  BY <1>1 DEF IsMoved, Entry

\* The pointers after the move: the two that are set, and all others.
LEMMA MovedLinked ==
    ASSUME NEW c \in Nat, NEW s, ListOrder(s, c), NEW p \in Nat,
           NEW i \in p + 1 .. c, NEW j \in i + 1 .. c - 1, NEW nx, Linked(s, c, nx, {p, j}),
           NEW t, IsMoved(t, s, c, i, j), NEW ny,
           ny[s[i]] = s[j + 1], ny[s[j + 1]] = s[i + 1],
           \A n \in 1 .. c : n # s[i] /\ n # s[j + 1] => ny[n] = nx[n]
    PROVE  Linked(t, c, ny, {p, j + 1})
<1> SUFFICES ASSUME NEW k \in 1 .. c, k # p, k # j + 1
             PROVE  ny[t[k]] = Entry(t, c, k + 1)
  BY DEF Linked
<1>1. i \in 1 .. c /\ j + 1 \in 1 .. c /\ i + 1 \in 1 .. c /\ i # j + 1 /\ j \in i .. c - 1
  OBVIOUS
<1>2. \A l \in 1 .. c : l # i /\ l # j + 1 => ny[s[l]] = nx[s[l]]
  <2>1. TAKE l \in 1 .. c
  <2>2. HAVE l # i /\ l # j + 1
  <2>3. s[l] \in 1 .. c /\ s[l] # s[i] /\ s[l] # s[j + 1]
    BY <1>1, <2>2 DEF ListOrder
  <2> QED
    BY <2>3
<1>3. \A l \in 1 .. c : l # p /\ l # j => nx[s[l]] = Entry(s, c, l + 1)
  BY DEF Linked
<1>4. CASE k < i \/ k > j + 1
  <2>1. k \notin i + 1 .. j + 1 /\ k # i /\ k # j /\ k + 1 \in Nat
        /\ (k + 1 <= i \/ k + 1 > j + 1)
    BY <1>1, <1>4
  <2>2. t[k] = s[k]
    BY <2>1 DEF IsMoved
  <2>3. PICK l \in Nat : l = k + 1
    BY <2>1
  <2>4. Entry(t, c, l) = Entry(s, c, l)
    BY <1>1, <2>1, <2>3, MovedEntry
  <2>5. ny[s[k]] = Entry(s, c, k + 1)
    BY <1>2, <1>3, <2>1
  <2> QED
    BY <2>2, <2>3, <2>4, <2>5
<1>5. CASE k = i
  <2>1. k \notin i + 1 .. j + 1
    BY <1>1, <1>5
  <2>2. t[k] = s[i] /\ t[k + 1] = s[j + 1]
    BY <1>5, <2>1 DEF IsMoved
  <2> QED
    BY <1>1, <1>5, <2>2 DEF Entry
<1>6. CASE k = i + 1
  <2>1. t[k] = s[j + 1]
    BY <1>6 DEF IsMoved
  <2>2. k + 1 \in i + 2 .. j + 1 /\ k + 1 \in 1 .. c /\ (k + 1) - 1 = i + 1
    BY <1>1, <1>6
  <2>3. t[k + 1] = s[i + 1]
    BY <2>2 DEF IsMoved
  <2> QED
    BY <2>1, <2>2, <2>3 DEF Entry
<1>7. CASE k \in i + 2 .. j
  <2>1. /\ k \in i + 2 .. j + 1 /\ k + 1 \in i + 2 .. j + 1 /\ (k + 1) - 1 = k
        /\ k - 1 \in 1 .. c /\ k - 1 # i /\ k - 1 # j + 1 /\ k - 1 # p /\ k - 1 # j
        /\ (k - 1) + 1 = k /\ k + 1 \in 1 .. c
    BY <1>1, <1>7
  <2>2. t[k] = s[k - 1] /\ t[k + 1] = s[k]
    BY <2>1 DEF IsMoved
  <2>3. ny[s[k - 1]] = nx[s[k - 1]]
    BY <1>2, <2>1
  <2>4. nx[s[k - 1]] = Entry(s, c, k)
    BY <1>3, <2>1
  <2> QED
    BY <2>1, <2>2, <2>3, <2>4 DEF Entry
<1> QED
  BY <1>1, <1>4, <1>5, <1>6, <1>7

\* Where a merge is: the places i, j and e, as the cursors show them.
LEMMA InMergeFacts ==
    ASSUME NEW m \in Nat, SortWithin(m), pc = "merge"
    PROVE  \E s \in [Nodes -> Nodes] : \E p, i, j, e \in 0 .. count :
               /\ ListInv(s, m) /\ InMerge(s, p, i, j, e) /\ TurnsInMerge(i, e) <= m
               /\ i \in p + 1 .. j /\ j \in p + 1 .. e /\ e \in p + 1 .. count
               /\ cursor.a = runs.end1 <=> i = j
               /\ cursor.b = runs.temp <=> j = e
<1>1. PICK s \in [Nodes -> Nodes] : ListInv(s, m)
  BY DEF SortWithin
<1>2. PICK p \in 0 .. count, i \in 0 .. count, j \in 0 .. count, e \in 0 .. count :
          InMerge(s, p, i, j, e) /\ TurnsInMerge(i, e) <= m
  BY <1>1 DEF ListInv, InSort
<1>3. i \in p + 1 .. j /\ j \in p + 1 .. e /\ e \in p + 1 .. count
  BY <1>2 DEF InMerge
<1>4. count \in Nat /\ NULL \notin Nat /\ Nodes \subseteq Nat
  BY TypedFacts DEF SortWithin
<1>5. i \in 1 .. count /\ j \in 1 .. count /\ e \in 1 .. count
  BY <1>2, <1>3, <1>4
<1>6. \A k, l \in 1 .. count : s[k] = s[l] => k = l
  BY <1>1 DEF ListInv, ListOrder
<1>7. cursor.a = runs.end1 <=> i = j
  BY <1>2, <1>5, <1>6 DEF InMerge
<1>8. cursor.b = runs.temp <=> j = e
  <2>1. cursor.b = Entry(s, count, j + 1) /\ runs.temp = Entry(s, count, e + 1)
    BY <1>2 DEF InMerge
  <2>2. CASE j = e
    BY <2>1, <2>2
  <2>3. CASE j < e
    <3>1. j + 1 \in Nodes
      BY <1>4, <1>5, <2>3 DEF Nodes
    <3>2. cursor.b = s[j + 1] /\ s[j + 1] \in Nat
      BY <1>4, <2>1, <3>1 DEF Entry, Nodes
    <3>3. CASE e + 1 \in 1 .. count
      BY <1>5, <1>6, <2>1, <2>3, <3>1, <3>2, <3>3 DEF Entry, Nodes
    <3>4. CASE e + 1 \notin 1 .. count
      BY <1>4, <1>5, <2>1, <2>3, <3>2, <3>4 DEF Entry
    <3> QED
      BY <3>3, <3>4
  <2> QED
    BY <1>3, <1>5, <2>2, <2>3
<1> QED
  BY <1>1, <1>2, <1>3, <1>7, <1>8

LEMMA MergeStepInv ==
    ASSUME NEW m \in Nat, SortWithin(m), MergeStep
    PROVE  m > 0 /\ SortWithin(m - 1)'
<1> USE DEF SortWithin
<1>1. /\ MaxBuckets \in Nat /\ count \in Nat /\ count <= MaxBuckets /\ gap \in Nat
      /\ Nodes \subseteq Links /\ Nodes \subseteq Nat /\ NULL \notin Nat
      /\ next \in [Links -> Pointers]
      /\ key \in [Links -> Keys \cup {NULL}]
  BY TypedFacts
<1>2. /\ pc = "merge" /\ pc' = "merge"
      /\ cursor.a # runs.end1 /\ cursor.b # runs.temp
      /\ UNCHANGED <<key, first, last, count, sorted, gap, runs, prevend>>
  BY DEF MergeStep, Merging
<1>3. PICK s \in [Nodes -> Nodes], p \in 0 .. count, i \in 0 .. count, j \in 0 .. count,
           e \in 0 .. count :
          /\ ListInv(s, m) /\ InMerge(s, p, i, j, e) /\ TurnsInMerge(i, e) <= m
          /\ i \in p + 1 .. j /\ j \in p + 1 .. e /\ e \in p + 1 .. count
          /\ i # j /\ j # e
  <2>1. PICK s \in [Nodes -> Nodes] : \E p, i, j, e \in 0 .. count :
               /\ ListInv(s, m) /\ InMerge(s, p, i, j, e) /\ TurnsInMerge(i, e) <= m
               /\ i \in p + 1 .. j /\ j \in p + 1 .. e /\ e \in p + 1 .. count
               /\ cursor.a = runs.end1 <=> i = j
               /\ cursor.b = runs.temp <=> j = e
    BY <1>2, InMergeFacts, Zenon
  <2> QED
    BY <1>2, <2>1, Zenon
<1>4. /\ p \in Nat /\ i \in Nat /\ j \in Nat /\ e \in Nat /\ p < i /\ i < j /\ j < e /\ e <= count
  BY <1>1, <1>3
<1>5. /\ ListOrder(s, count) /\ first = Entry(s, count, 1)
      /\ Merged(s, p) /\ Linked(s, count, next, {p, j})
      /\ cursor.a = s[i] /\ cursor.b = Entry(s, count, j + 1)
      /\ runs.end1 = s[j] /\ runs.end2 = s[e] /\ runs.temp = Entry(s, count, e + 1)
  BY <1>3, <1>4 DEF ListInv, InMerge
<1>6. /\ i \in Nodes /\ i + 1 \in Nodes /\ j \in Nodes /\ j + 1 \in Nodes /\ e \in Nodes
      /\ i # p /\ j + 1 # p /\ j + 1 # j /\ i # j + 1
  BY <1>1, <1>4 DEF Nodes
<1>7. cursor.b = s[j + 1] /\ next[s[i]] = s[i + 1] /\ next[s[j + 1]] = Entry(s, count, j + 2)
  <2>1. cursor.b = s[j + 1] /\ next[s[i]] = s[i + 1]
    BY <1>3, <1>5, <1>6 DEF Entry, Linked, Nodes
  <2>2. next[s[j + 1]] = Entry(s, count, (j + 1) + 1) /\ (j + 1) + 1 = j + 2
    BY <1>4, <1>5, <1>6 DEF Linked, Nodes
  <2> QED
    BY <2>1, <2>2
<1>8. s[i] \in Links /\ s[i + 1] \in Links /\ s[j + 1] \in Links /\ s[i] # s[j + 1]
  BY <1>1, <1>5, <1>6 DEF ListOrder, Nodes
<1>9. m > 0 /\ TurnsInMerge(i + 1, e)' <= m - 1
  <2>1. LaterTurns \in Nat /\ LaterTurns' = LaterTurns
    BY <1>2, TurnsNat DEF LaterTurns, PassTurns
  <2>2. TurnsInMerge(i + 1, e)' = LaterTurns + 2 * (count - e) + 4 + (e - (i + 1))
    BY <1>2, <2>1 DEF TurnsInMerge
  <2>3. LaterTurns + 2 * (count - e) + 4 + (e - i) <= m
    BY <1>3 DEF TurnsInMerge
  <2> QED
    BY <1>1, <1>4, <2>1, <2>2, <2>3
<1>10. CASE next' = next /\ cursor' = [a |-> s[i + 1], b |-> s[j + 1]]
  <2>1. cursor' \in [a : Pointers, b : Pointers]
    BY <1>8, <1>10 DEF Pointers
  <2>2. \A f \in DOMAIN cursor' : cursor'[f] \in Links \cup {NULL}
    BY <2>1 DEF Pointers
  <2>3. SortTyped'
    BY <1>2, <1>10, <2>1, <2>2 DEF SortTyped, TypeOK
  <2>4. RestUnlinked'
    BY <1>2, <1>10 DEF RestUnlinked
  <2>5. i + 1 \in p + 1 .. j /\ j \in p + 1 .. e /\ e \in p + 1 .. count /\ i + 1 \in 0 .. count
        /\ j < e
    BY <1>1, <1>4
  <2>6. Merged(s, p)'
    BY <1>2, <1>5 DEF Merged
  <2>7. cursor'.a = s[i + 1] /\ cursor'.b = Entry(s, count, j + 1)
    BY <1>5, <1>7, <1>10
  <2>8. InMerge(s, p, i + 1, j, e)'
    BY <1>2, <1>5, <1>10, <2>5, <2>6, <2>7 DEF InMerge
  <2>9. InSort(s, m - 1)'
    BY <1>2, <1>3, <1>9, <2>5, <2>8 DEF InSort
  <2>10. ListInv(s, m - 1)'
    BY <1>2, <1>5, <2>9 DEF ListInv, AtRest
  <2>11. s \in [Nodes -> Nodes]'
    BY <1>2 DEF Nodes
  <2> QED
    BY <1>9, <2>3, <2>4, <2>10, <2>11
<1>11. CASE /\ next' = [next EXCEPT ![s[j + 1]] = s[i + 1], ![s[i]] = s[j + 1]]
            /\ cursor' = [a |-> s[j + 1], b |-> next[s[j + 1]]]
  <2>1. next[s[j + 1]] \in Pointers
    BY <1>1, <1>8
  <2>2. cursor' \in [a : Pointers, b : Pointers]
    BY <1>8, <1>11, <2>1 DEF Pointers
  <2>3. \A f \in DOMAIN cursor' : cursor'[f] \in Links \cup {NULL}
    BY <2>2 DEF Pointers
  <2>4. next' \in [Links -> Links \cup {NULL}]
    BY <1>1, <1>8, <1>11 DEF Pointers
  <2>5. SortTyped'
    BY <1>2, <2>2, <2>3, <2>4 DEF SortTyped, TypeOK
  <2>6. /\ next'[s[i]] = s[j + 1] /\ next'[s[j + 1]] = s[i + 1]
        /\ \A n \in Links : n # s[i] /\ n # s[j + 1] => next'[n] = next[n]
    BY <1>1, <1>8, <1>11
  <2>7. RestUnlinked'
    <3> SUFFICES ASSUME NEW n \in Links, n > count
                 PROVE  next'[n] = NULL
      BY <1>2 DEF RestUnlinked
    <3>1. s[i] \in Nodes /\ s[j + 1] \in Nodes
      BY <1>6
    <3>2. n \notin Nodes
      BY <1>1 DEF Nodes, Links
    <3> QED
      BY <2>6, <3>1, <3>2 DEF RestUnlinked
  <2>8. i \in 1 .. count /\ j \in i .. count - 1 /\ s \in [1 .. count -> 1 .. count]
    BY <1>1, <1>4 DEF Nodes
  <2>9. PICK t : IsMoved(t, s, count, i, j)
    BY <1>1, <2>8, MovedExists
  <2>10. ListOrder(t, count)
    BY <1>1, <1>5, <2>8, <2>9, MovedOrder
  <2>11. Linked(t, count, next', {p, j + 1})
    <3>1. i \in p + 1 .. count /\ j \in i + 1 .. count - 1
      BY <1>1, <1>4
    <3>2. \A n \in 1 .. count : n # s[i] /\ n # s[j + 1] => next'[n] = next[n]
      BY <1>1, <2>6 DEF Nodes
    <3> QED
      BY <1>1, <1>4, <1>5, <2>6, <2>9, <3>1, <3>2, MovedLinked
  <2>12. \A k \in Nat : k <= i \/ k > j + 1 => Entry(t, count, k) = Entry(s, count, k)
    BY <1>1, <2>8, <2>9, MovedEntry
  <2>13. t[i + 1] = s[j + 1]
    BY <2>9 DEF IsMoved
  <2>14. t[j + 1] = s[j]
    <3>1. j + 1 \in i + 2 .. j + 1 /\ (j + 1) - 1 = j
      BY <1>4
    <3> QED
      BY <2>9, <3>1 DEF IsMoved
  <2>15. \A k \in 1 .. count : k \notin i + 1 .. j + 1 => t[k] = s[k]
    BY <2>9 DEF IsMoved
  <2>16. Merged(t, p)'
    <3>1. p + 1 \in Nat /\ p + 1 <= i
      BY <1>4
    <3>2. Entry(t, count, p + 1) = Entry(s, count, p + 1)
      BY <2>12, <3>1
    <3>3. p > 0 => t[p] = s[p]
      BY <1>1, <1>3, <1>4, <2>15
    <3> QED
      BY <1>2, <1>5, <3>2, <3>3 DEF Merged
  <2>17. cursor'.a = t[i + 1]
    BY <1>11, <2>13
  <2>18. cursor'.b = Entry(t, count, (j + 1) + 1)
    <3>1. j + 2 \in Nat /\ j + 2 > j + 1 /\ (j + 1) + 1 = j + 2
      BY <1>4
    <3>2. Entry(t, count, j + 2) = Entry(s, count, j + 2)
      BY <2>12, <3>1
    <3> QED
      BY <1>7, <1>11, <3>1, <3>2
  <2>19. runs'.end1 = t[j + 1]
    BY <1>2, <1>5, <2>14
  <2>20. j + 1 < e => runs'.end2 = t[e]
    <3>1. j + 1 < e => e \notin i + 1 .. j + 1
      BY <1>4
    <3> QED
      BY <1>2, <1>5, <1>6, <2>15, <3>1 DEF Nodes
  <2>21. runs'.temp = Entry(t, count, e + 1)
    <3>1. e + 1 \in Nat /\ e + 1 > j + 1
      BY <1>4
    <3> QED
      BY <1>2, <1>5, <2>12, <3>1
  <2>22. /\ i + 1 \in p + 1 .. j + 1 /\ j + 1 \in p + 1 .. e /\ e \in p + 1 .. count
         /\ i + 1 \in 0 .. count /\ j + 1 \in 0 .. count /\ i + 1 # j + 1
    BY <1>1, <1>4
  <2>23. InMerge(t, p, i + 1, j + 1, e)'
    BY <1>2, <2>11, <2>16, <2>17, <2>18, <2>19, <2>20, <2>21, <2>22 DEF InMerge
  <2>24. InSort(t, m - 1)'
    BY <1>2, <1>3, <1>9, <2>22, <2>23 DEF InSort
  <2>25. first' = Entry(t, count, 1)
    <3>1. 1 \in Nat /\ 1 <= i
      BY <1>4
    <3> QED
      BY <1>2, <1>5, <2>12, <3>1
  <2>26. ListInv(t, m - 1)'
    BY <1>2, <2>10, <2>24, <2>25 DEF ListInv, AtRest
  <2>27. t \in [Nodes -> Nodes]'
    BY <1>2, <2>10 DEF Nodes, ListOrder
  <2> QED
    BY <1>9, <2>5, <2>7, <2>26, <2>27
<1> QED
  <2>1. cursor.a = s[i] /\ cursor.b = s[j + 1] /\ next[s[i]] = s[i + 1]
    BY <1>5, <1>7
  <2> QED
    BY <1>10, <1>11, <2>1 DEF MergeStep

LEMMA EndMergeInv ==
    ASSUME NEW m \in Nat, SortWithin(m), EndMerge
    PROVE  m > 0 /\ SortWithin(m - 1)'
<1> USE DEF SortWithin
<1>1. /\ MaxBuckets \in Nat /\ count \in Nat /\ count <= MaxBuckets /\ gap \in Nat
      /\ Nodes \subseteq Links /\ Nodes \subseteq Nat /\ NULL \notin Nat
      /\ next \in [Links -> Pointers]
      /\ key \in [Links -> Keys \cup {NULL}]
  BY TypedFacts
<1> DEFINE used == cursor.a = runs.end1
           merged == IF used THEN [next EXCEPT ![cursor.a] = cursor.b] ELSE next
<1>2. /\ pc = "merge" /\ pc' = "runs"
      /\ used \/ cursor.b = runs.temp
      /\ prevend' = IF used THEN runs.end2 ELSE runs.end1
      /\ next' = IF runs.start1 = first THEN merged ELSE [merged EXCEPT ![prevend] = runs.start1]
      /\ runs' = [NoRuns EXCEPT !.start1 = runs.temp]
      /\ cursor' = NoCursor
      /\ UNCHANGED <<key, first, last, count, sorted, gap>>
  BY DEF EndMerge, Merging
<1>3. PICK s \in [Nodes -> Nodes], p \in 0 .. count, i \in 0 .. count, j \in 0 .. count,
           e \in 0 .. count :
          /\ ListInv(s, m) /\ InMerge(s, p, i, j, e) /\ TurnsInMerge(i, e) <= m
          /\ i \in p + 1 .. j /\ j \in p + 1 .. e /\ e \in p + 1 .. count
          /\ used <=> i = j
          /\ cursor.b = runs.temp <=> j = e
  <2>1. PICK s \in [Nodes -> Nodes] : \E p, i, j, e \in 0 .. count :
               /\ ListInv(s, m) /\ InMerge(s, p, i, j, e) /\ TurnsInMerge(i, e) <= m
               /\ i \in p + 1 .. j /\ j \in p + 1 .. e /\ e \in p + 1 .. count
               /\ used <=> i = j
               /\ cursor.b = runs.temp <=> j = e
    BY <1>2, InMergeFacts, Zenon
  <2> QED
    BY <2>1, Zenon
<1>4. /\ p \in Nat /\ i \in Nat /\ j \in Nat /\ e \in Nat /\ p < i /\ i <= j /\ j <= e /\ e <= count
  BY <1>1, <1>3
<1>5. /\ ListOrder(s, count) /\ first = Entry(s, count, 1)
      /\ Merged(s, p) /\ Linked(s, count, next, {p, j})
      /\ cursor.a = s[i] /\ cursor.b = Entry(s, count, j + 1)
      /\ runs.end1 = s[j] /\ (j < e => runs.end2 = s[e])
      /\ runs.temp = Entry(s, count, e + 1)
      /\ i = j => j < e
  BY <1>3 DEF ListInv, InMerge
<1>6. i \in Nodes /\ j \in Nodes /\ e \in Nodes /\ p + 1 \in Nodes /\ 1 \in Nodes
  BY <1>1, <1>4 DEF Nodes
<1>7. \A k, l \in Nodes : s[k] = s[l] => k = l
  BY <1>5 DEF ListOrder, Nodes
<1>8. runs.start1 = s[p + 1] /\ first = s[1]
  BY <1>5, <1>6 DEF Merged, Entry, Nodes
<1>9. runs.start1 = first <=> p = 0
  BY <1>4, <1>6, <1>7, <1>8
<1>10. p > 0 => p \in Nodes /\ prevend = s[p]
  BY <1>1, <1>4, <1>5 DEF Merged, Nodes
<1>11. merged \in [Links -> Pointers]
  <2>1. s[i] \in Links /\ cursor.b \in Pointers
    BY <1>1, <1>6 DEF SortTyped
  <2> QED
    BY <1>1, <1>5, <2>1
<1>12. \A n \in Links : n \notin Nodes => merged[n] = next[n]
  <2>1. s[i] \in Nodes
    BY <1>6
  <2> QED
    BY <1>1, <1>5, <2>1
<1>13. \A k \in Nodes : k # p /\ k # e => merged[s[k]] = Entry(s, count, k + 1)
  <2>1. TAKE k \in Nodes
  <2>2. HAVE k # p /\ k # e
  <2>3. s[k] \in Links
    BY <1>1
  <2>4. CASE k = j
    <3>1. used /\ i = j
      BY <1>2, <1>3, <2>2, <2>4
    <3>2. merged[s[k]] = cursor.b
      BY <1>1, <1>5, <2>3, <2>4, <3>1
    <3> QED
      BY <1>5, <2>4, <3>2
  <2>5. CASE k # j
    <3>1. next[s[k]] = Entry(s, count, k + 1)
      BY <1>5, <2>2, <2>5 DEF Linked, Nodes
    <3>2. used => s[k] # cursor.a
      BY <1>3, <1>5, <1>6, <1>7, <2>5
    <3> QED
      BY <1>1, <2>3, <3>1, <3>2
  <2> QED
    BY <2>4, <2>5
<1> HIDE DEF merged
<1>14. /\ next' \in [Links -> Pointers]
       /\ \A n \in Links : n \notin Nodes => next'[n] = next[n]
       /\ \A k \in Nodes : k # e => next'[s[k]] = Entry(s, count, k + 1)
  <2>1. CASE p = 0
    <3>1. next' = merged
      BY <1>2, <1>9, <2>1
    <3>2. \A k \in Nodes : k # p
      BY <1>1, <2>1 DEF Nodes
    <3> QED
      BY <1>11, <1>12, <1>13, <3>1, <3>2
  <2>2. CASE p > 0
    <3>1. p # 0
      BY <1>4, <2>2
    <3>2. next' = [merged EXCEPT ![prevend] = runs.start1]
      BY <1>2, <1>9, <3>1
    <3>3. next' = [merged EXCEPT ![s[p]] = s[p + 1]]
      BY <1>8, <1>10, <2>2, <3>2
    <3>4. p \in Nodes /\ s[p] \in Nodes /\ s[p] \in Links /\ s[p + 1] \in Pointers
      BY <1>1, <1>6, <1>10, <2>2 DEF Pointers
    <3>5. next' \in [Links -> Pointers]
      BY <1>11, <3>3, <3>4
    <3>6. \A n \in Links : n \notin Nodes => next'[n] = next[n]
      BY <1>11, <1>12, <3>3, <3>4
    <3>7. next'[s[p]] = Entry(s, count, p + 1)
      BY <1>6, <1>11, <3>3, <3>4 DEF Entry, Nodes
    <3>8. \A k \in Nodes : k # p /\ k # e => next'[s[k]] = Entry(s, count, k + 1)
      <4>1. TAKE k \in Nodes
      <4>2. HAVE k # p /\ k # e
      <4>3. s[k] # s[p] /\ s[k] \in Links
        BY <1>1, <1>7, <3>4, <4>2
      <4>4. next'[s[k]] = merged[s[k]]
        BY <1>11, <3>3, <3>4, <4>3
      <4> QED
        BY <1>13, <4>2, <4>4
    <3> QED
      BY <3>5, <3>6, <3>7, <3>8
  <2> QED
    BY <1>4, <2>1, <2>2
<1>15. prevend' = s[e]
  <2>1. CASE used
    BY <1>2, <1>3, <1>5, <2>1
  <2>2. CASE ~used
    <3>1. cursor.b = runs.temp /\ prevend' = runs.end1
      BY <1>2, <2>2
    <3>2. j = e
      BY <1>3, <3>1
    <3> QED
      BY <1>5, <3>1, <3>2
  <2> QED
    BY <2>1, <2>2
<1>16. runs'.start1 = runs.temp /\ runs.temp \in Pointers /\ prevend' \in Pointers
  <2>1. runs'.start1 = runs.temp
    BY <1>2 DEF NoRuns
  <2> QED
    BY <1>1, <1>6, <1>15, <2>1 DEF SortTyped, Pointers
<1>17. SortTyped'
  <2>1. runs' \in [start1 : Pointers, end1 : Pointers, start2 : Pointers,
                   end2 : Pointers, temp : Pointers]
    BY <1>2, <1>16 DEF NoRuns, Pointers
  <2>2. cursor' \in [a : Pointers, b : Pointers]
    BY <1>2 DEF NoCursor, Pointers
  <2>3. \A f \in DOMAIN runs' : runs'[f] \in Links \cup {NULL}
    BY <2>1 DEF Pointers
  <2>4. \A f \in DOMAIN cursor' : cursor'[f] \in Links \cup {NULL}
    BY <2>2 DEF Pointers
  <2> QED
    BY <1>2, <1>14, <1>16, <2>1, <2>2, <2>3, <2>4 DEF SortTyped, TypeOK, Pointers
<1>18. RestUnlinked'
  <2> SUFFICES ASSUME NEW n \in Links, n > count
               PROVE  next'[n] = NULL
    BY <1>2 DEF RestUnlinked
  <2>1. n \notin Nodes
    BY <1>1 DEF Nodes, Links
  <2> QED
    BY <1>14, <2>1 DEF RestUnlinked
<1>19. Merged(s, e)'
  BY <1>2, <1>3, <1>5, <1>15, <1>16 DEF Merged
<1>20. Linked(s, count, next', {e})
  BY <1>14 DEF Linked, Nodes
<1>21. BetweenRuns(s, e)'
  BY <1>2, <1>19, <1>20 DEF BetweenRuns
<1>22. m > 0 /\ TurnsBetween(e)' <= m - 1
  <2>1. LaterTurns \in Nat /\ LaterTurns' = LaterTurns
    BY <1>2, TurnsNat DEF LaterTurns, PassTurns
  <2>2. TurnsBetween(e)' = LaterTurns + 2 * (count - e) + 3
    BY <1>2, <2>1 DEF TurnsBetween
  <2>3. LaterTurns + 2 * (count - e) + 4 + (e - i) <= m
    BY <1>3 DEF TurnsInMerge
  <2> QED
    BY <1>1, <1>4, <2>1, <2>2, <2>3
<1>23. InSort(s, m - 1)'
  BY <1>2, <1>3, <1>21, <1>22 DEF InSort
<1>24. ListInv(s, m - 1)'
  BY <1>2, <1>5, <1>23 DEF ListInv, AtRest
<1>25. s \in [Nodes -> Nodes]'
  BY <1>2 DEF Nodes
<1> QED
  BY <1>17, <1>18, <1>24, <1>25, <1>22

-----------------------------------------------------------------------------
(* The theorems: of a map to which nothing is added after a sort, as replay   *)
(* uses it.  m->last is not set by the sort, and an entry added later would   *)
(* cut off the end of the list.                                               *)

LEMMA SortInvStutters ==
    ASSUME NEW m \in Nat, SortWithin(m), UNCHANGED vars
    PROVE  SortWithin(m)'
<1>1. /\ key' = key /\ next' = next /\ first' = first /\ last' = last /\ count' = count
      /\ sorted' = sorted /\ pc' = pc /\ gap' = gap /\ runs' = runs /\ prevend' = prevend
      /\ cursor' = cursor
  BY DEF vars
<1>2. PICK s \in [Nodes -> Nodes] : ListInv(s, m)
  BY DEF SortWithin
<1>3. SortTyped' /\ RestUnlinked' /\ s \in [Nodes -> Nodes]'
  BY <1>1 DEF SortWithin, SortTyped, TypeOK, RestUnlinked, Nodes
<1>4. InSort(s, m)'
  <2>1. \A p \in 0 .. count : BetweenRuns(s, p) => BetweenRuns(s, p)'
    BY <1>1 DEF BetweenRuns, Merged
  <2>2. \A p, i, j, e \in 0 .. count : InMerge(s, p, i, j, e) => InMerge(s, p, i, j, e)'
    BY <1>1 DEF InMerge, Merged
  <2>3. InSort(s, m)
    BY <1>2 DEF ListInv
  <2> QED
    <3>1. /\ TurnsBeforePass' = TurnsBeforePass
          /\ \A p \in 0 .. count : TurnsBetween(p)' = TurnsBetween(p)
          /\ \A i, e \in 0 .. count : TurnsInMerge(i, e)' = TurnsInMerge(i, e)
      BY <1>1 DEF TurnsBeforePass, TurnsBetween, TurnsInMerge, LaterTurns, PassTurns
    <3> QED
      BY <1>1, <2>1, <2>2, <2>3, <3>1 DEF InSort
<1>5. ListInv(s, m)'
  BY <1>1, <1>2, <1>4 DEF ListInv, AtRest
<1> QED
  BY <1>3, <1>5 DEF SortWithin

LEMMA TurnTaken ==
    ASSUME NEW m \in Nat, SortWithin(m), Sort
    PROVE  m > 0 /\ SortWithin(m - 1)'
<1>1. CASE StartPass
  BY <1>1, StartPassInv
<1>2. CASE EndPass
  BY <1>2, EndPassInv
<1>3. CASE BeginMerge
  BY <1>3, BeginMergeInv
<1>4. CASE MergeStep
  BY <1>4, MergeStepInv
<1>5. CASE EndMerge
  BY <1>5, EndMergeInv
<1> QED
  BY <1>1, <1>2, <1>3, <1>4, <1>5 DEF Sort

\* A call of a sort of count entries returns within that many steps.
CallTurns == (count - 1) * PassTurns + 1

LEMMA SortCallTurns ==
    ASSUME SortInv, hashmap_sort
    PROVE  CallTurns \in Nat /\ CallTurns' = CallTurns /\ SortWithin(CallTurns)'
<1>1. PICK m \in Nat : SortWithin(m)
  BY DEF SortInv
<1>2. PICK s \in [Nodes -> Nodes] : ListInv(s, m)
  BY <1>1 DEF SortWithin
<1>3. count \in Nat /\ PassTurns \in Nat
  BY <1>1, TypedFacts, TurnsNat DEF SortWithin
<1>4. first # NULL /\ count' = count
  BY DEF hashmap_sort, map
<1>5. count - 1 \in Nat
  BY <1>2, <1>3, <1>4 DEF ListInv, Entry
<1>6. (count - 1) * PassTurns \in Nat
  BY <1>3, <1>5, MulNat
<1>7. CallTurns' = CallTurns
  BY <1>4 DEF CallTurns, PassTurns
<1>8. PICK n : n = (count - 1) * PassTurns + 1
  OBVIOUS
<1>9. SortWithin(n)'
  BY <1>1, <1>8, SortCallInv
<1> QED
  BY <1>6, <1>7, <1>8, <1>9 DEF CallTurns

LEMMA SortInvKept ==
    ASSUME SortInv, ~AddsAfterSort, [Next]_vars
    PROVE  SortInv'
<1>1. PICK m \in Nat : SortWithin(m)
  BY DEF SortInv
<1>2. SortWithin(m)' => SortInv'
  BY DEF SortInv
<1>3. CASE Sort
  <2>1. m > 0 /\ SortWithin(m - 1)'
    BY <1>1, <1>3, TurnTaken
  <2>2. m - 1 \in Nat
    BY <2>1
  <2> QED
    BY <2>1, <2>2 DEF SortInv
<1>4. ASSUME NEW x \in Keys, LinkEntry(x)
      PROVE  SortInv'
  BY <1>1, <1>2, <1>4, LinkEntryInv
<1>5. CASE hashmap_sort
  BY <1>5, SortCallTurns DEF SortInv
<1>6. CASE UNCHANGED vars
  BY <1>1, <1>2, <1>6, SortInvStutters
<1> QED
  BY <1>3, <1>4, <1>5, <1>6 DEF Next

\* Before, during and after a sort the buckets are in some order in which only
\* the pointers that the merge has open can be wrong (map.c:255-340).
THEOREM SortInductive ==
    ASSUME ~AddsAfterSort
    PROVE  Spec => []SortInv
<1>1. Init => SortInv
  BY SortInvInit
<1>2. SortInv /\ [Next]_vars => SortInv'
  BY SortInvKept
<1> QED
  BY <1>1, <1>2, PTL DEF Spec

\* hashmap_sort leaves no pointer but to buckets of the map, or null.
THEOREM SortTypeCorrect ==
    ASSUME ~AddsAfterSort
    PROVE  Spec => []TypeOK
<1>1. SortInv => TypeOK
  BY DEF SortInv, SortWithin, SortTyped
<1> QED
  BY <1>1, SortInductive, PTL

LEMMA OrderLists ==
    ASSUME SortInv
    PROVE  EveryBucketListed
<1> SUFFICES ASSUME pc = "idle"
             PROVE  {Listed[n] : n \in Nodes} = Nodes /\ Listed[count + 1] = NULL
  BY DEF EveryBucketListed
<1>1. PICK m \in Nat : SortWithin(m)
  BY DEF SortInv
<1>2. PICK s \in [Nodes -> Nodes] : ListInv(s, m)
  BY <1>1 DEF SortWithin
<1>3. count \in Nat /\ NULL \notin Nat
  BY <1>1, TypedFacts DEF SortWithin
<1>4. ListOrder(s, count) /\ first = Entry(s, count, 1) /\ Linked(s, count, next, {})
  BY <1>2 DEF ListInv, AtRest
<1>5. \A n \in 1 .. count + 1 : Listed[n] = Entry(s, count, n)
  BY <1>3, <1>4, ListedIs
<1>6. Listed[count + 1] = NULL
  <2>1. count + 1 \in 1 .. count + 1 /\ count + 1 \notin 1 .. count
    BY <1>3
  <2> QED
    BY <1>5, <2>1 DEF Entry
<1>7. \A n \in Nodes : Listed[n] = s[n]
  <2>1. \A n \in Nodes : n \in 1 .. count + 1 /\ n \in 1 .. count
    BY <1>3 DEF Nodes
  <2> QED
    BY <1>5, <2>1 DEF Entry
<1>8. {Listed[n] : n \in Nodes} = {s[n] : n \in Nodes}
  BY <1>7
<1>9. {s[n] : n \in Nodes} = Nodes
  <2>1. \A n \in Nodes : s[n] \in Nodes
    OBVIOUS
  <2>2. \A n \in Nodes : \E k \in Nodes : s[k] = n
    BY <1>4 DEF ListOrder, Nodes
  <2> QED
    BY <2>1, <2>2
<1> QED
  BY <1>6, <1>8, <1>9

\* Between calls the list of a map of any size runs once through every bucket
\* and ends, however wrong the comparisons of the sort were (replay.c:594).
THEOREM SortKeepsList ==
    ASSUME ~AddsAfterSort
    PROVE  Spec => []EveryBucketListed
<1>1. SortInv => EveryBucketListed
  BY OrderLists
<1> QED
  BY <1>1, SortInductive, PTL

LEMMA StepKeepsContents ==
    ASSUME SortInv, [Next]_vars, count' = count
    PROVE  {key'[n] : n \in Nodes} = {key[n] : n \in Nodes}
<1>1. count \in Nat
  BY TypedFacts DEF SortInv, SortWithin
<1>2. CASE key' = key
  BY <1>2
<1>3. CASE BeginMerge
  BY <1>3, BeginMergeMoves DEF Stored
<1>4. ASSUME NEW x \in Keys, LinkEntry(x)
      PROVE  FALSE
  BY <1>1, <1>4 DEF LinkEntry
<1>5. hashmap_sort => key' = key
  BY DEF hashmap_sort, map
<1>6. StartPass => key' = key
  BY DEF StartPass, map
<1>7. EndPass \/ MergeStep \/ EndMerge => key' = key
  BY DEF EndPass, MergeStep, EndMerge
<1>8. UNCHANGED vars => key' = key
  BY DEF vars
<1> QED
  BY <1>2, <1>3, <1>4, <1>5, <1>6, <1>7, <1>8 DEF Next, Sort

\* The swaps of a merge are of two buckets of the list each: what is stored in
\* the map is the same after every step of a sort (map.c:208-222).
THEOREM SortKeepsContents ==
    ASSUME ~AddsAfterSort
    PROVE  Spec => ContentsKept
<1>1. SortInv /\ [Next]_vars =>
          [count' = count => {key'[n] : n \in Nodes} = {key[n] : n \in Nodes}]_vars
  BY StepKeepsContents
<1>2. Spec => []SortInv
  BY SortInductive
<1> QED
  BY <1>1, <1>2, PTL DEF Spec, ContentsKept

\* Where the code follows a pointer without looking: prevend at the end of a
\* pass and of a merge that is not the first, the two buckets that are compared.
NoNullFollowed ==
    /\ pc = "runs" /\ (runs.start1 # NULL => next[Ahead(runs.start1, gap - 1)] = NULL)
           => prevend # NULL
    /\ pc = "merge" /\ runs.start1 # first => prevend # NULL
    /\ pc = "merge" /\ Merging => cursor.b # NULL /\ next[cursor.a] \in Nodes

LEMMA OrderFollowed ==
    ASSUME SortInv
    PROVE  NoNullFollowed
<1>1. PICK m \in Nat : SortWithin(m)
  BY DEF SortInv
<1>2. PICK s \in [Nodes -> Nodes] : ListInv(s, m)
  BY <1>1 DEF SortWithin
<1>3. count \in Nat /\ NULL \notin Nat /\ Nodes \subseteq Nat
  BY <1>1, TypedFacts DEF SortWithin
<1>4. ASSUME pc = "runs", runs.start1 # NULL => next[Ahead(runs.start1, gap - 1)] = NULL
      PROVE  prevend # NULL
  <2>1. PICK p \in 0 .. count : BetweenRuns(s, p)
    BY <1>2, <1>4 DEF ListInv, InSort
  <2>2. p > 0
    BY <1>1, <1>4, <2>1, PassMerged DEF SortWithin
  <2>3. prevend = s[p] /\ p \in Nodes
    BY <1>3, <2>1, <2>2 DEF BetweenRuns, Merged, Nodes
  <2> QED
    BY <1>3, <2>3
<1>5. ASSUME pc = "merge"
      PROVE  /\ runs.start1 # first => prevend # NULL
             /\ Merging => cursor.b # NULL /\ next[cursor.a] \in Nodes
  <2>1. PICK r \in [Nodes -> Nodes], p \in 0 .. count, i \in 0 .. count, j \in 0 .. count,
             e \in 0 .. count :
            /\ ListInv(r, m) /\ InMerge(r, p, i, j, e) /\ TurnsInMerge(i, e) <= m
            /\ i \in p + 1 .. j /\ j \in p + 1 .. e /\ e \in p + 1 .. count
            /\ cursor.a = runs.end1 <=> i = j
            /\ cursor.b = runs.temp <=> j = e
    BY <1>1, <1>5, InMergeFacts, Zenon
  <2>2. /\ p \in Nat /\ i \in Nat /\ j \in Nat /\ e \in Nat
        /\ p < i /\ i <= j /\ j <= e /\ e <= count
    BY <1>3, <2>1
  <2>3. /\ first = Entry(r, count, 1) /\ runs.start1 = Entry(r, count, p + 1)
        /\ p > 0 => prevend = r[p]
        /\ cursor.a = r[i] /\ cursor.b = Entry(r, count, j + 1)
        /\ Linked(r, count, next, {p, j})
    BY <2>1 DEF ListInv, InMerge, Merged
  <2>4. ASSUME runs.start1 # first
        PROVE  prevend # NULL
    <3>1. p # 0
      BY <2>2, <2>3, <2>4
    <3>2. p \in Nodes
      BY <2>2, <3>1 DEF Nodes
    <3> QED
      BY <1>3, <2>2, <2>3, <3>1, <3>2
  <2>5. ASSUME Merging
        PROVE  cursor.b # NULL /\ next[cursor.a] \in Nodes
    <3>1. i # j /\ j # e
      BY <2>1, <2>5 DEF Merging
    <3>2. j + 1 \in Nodes /\ i \in Nodes /\ i + 1 \in Nodes /\ i # p
      BY <1>3, <2>2, <3>1 DEF Nodes
    <3>3. cursor.b = r[j + 1]
      BY <2>3, <3>2 DEF Entry, Nodes
    <3>4. next[r[i]] = r[i + 1]
      BY <2>3, <3>1, <3>2 DEF Linked, Entry, Nodes
    <3>5. r[j + 1] \in Nodes /\ r[i + 1] \in Nodes
      BY <3>2
    <3> QED
      BY <1>3, <2>3, <3>3, <3>4, <3>5
  <2> QED
    BY <2>4, <2>5
<1> QED
  BY <1>4, <1>5 DEF NoNullFollowed

\* _hashmap_msort and _hashmap_merge follow no null pointer, for a map of any
\* size (map.c:275-334).
THEOREM SortFollowsNoNull ==
    ASSUME ~AddsAfterSort
    PROVE  Spec => []NoNullFollowed
<1>1. SortInv => NoNullFollowed
  BY OrderFollowed
<1> QED
  BY <1>1, SortInductive, PTL

\* Every step of a sort leaves it fewer to take, and a call has a number of them
\* that its entries bound (map.c:298-334): with SortFollowsNoNull, no map is so
\* large that hashmap_sort would run on.
TurnsRunOut ==
    [][/\ hashmap_sort => SortWithin(CallTurns)'
       /\ Sort => \A m \in Nat : SortWithin(m) => m > 0 /\ SortWithin(m - 1)']_vars

LEMMA TurnsStep ==
    ASSUME SortInv
    PROVE  /\ hashmap_sort => SortWithin(CallTurns)'
           /\ Sort => \A m \in Nat : SortWithin(m) => m > 0 /\ SortWithin(m - 1)'
BY SortCallTurns, TurnTaken

THEOREM SortRunsOut ==
    ASSUME ~AddsAfterSort
    PROVE  Spec => TurnsRunOut
<1>1. SortInv /\ [Next]_vars =>
          [/\ hashmap_sort => SortWithin(CallTurns)'
           /\ Sort => \A m \in Nat : SortWithin(m) => m > 0 /\ SortWithin(m - 1)']_vars
  BY TurnsStep
<1>2. Spec => []SortInv
  BY SortInductive
<1> QED
  BY <1>1, <1>2, PTL DEF Spec, TurnsRunOut
=============================================================================
