--------------------------- MODULE HashMapProofs ---------------------------
(***************************************************************************)
(* The properties of HashMap proved for every set of keys, every hash       *)
(* function and every initial capacity of at least two buckets, and that it *)
(* implements the dictionary of OrderedDict.                                *)
(***************************************************************************)
EXTENDS HashMap, NatLemmas, FiniteSetTheorems, SequenceTheorems

USE KeysAssumption, NullAssumption, CapacityAssumption

----------------------------------------------------------------------------
(* Probing. *)

\* Every probe looks at a bucket of the table.
LEMMA ProbeInTable ==
    ASSUME TypeOK, NEW k \in Keys, NEW d \in Nat
    PROVE  Probe(k, d) \in Slots
<1>1. capacity \in Nat /\ capacity > 0 /\ Hash[k] \in Nat
  BY DEF TypeOK
<1>2. Hash[k] % capacity \in Nat
  BY <1>1, ModBasics
<1> QED
  BY <1>1, <1>2, ModBasics DEF Probe, Slots

\* The probes of a key visit every bucket of the table.
LEMMA ProbeVisitsAll ==
    ASSUME TypeOK, NEW k \in Keys, NEW i \in Slots
    PROVE  \E d \in Slots : Probe(k, d) = i
<1> DEFINE s == Hash[k] % capacity
<1>1. capacity \in Nat /\ capacity > 0 /\ Hash[k] \in Nat
  BY DEF TypeOK
<1>2. s \in 0 .. capacity - 1
  BY <1>1, ModBasics
<1>3. i \in Nat /\ i < capacity
  BY <1>1 DEF Slots
<1> HIDE DEF s
<1>4. CASE s <= i
  <2>1. i - s \in Slots /\ s + (i - s) = i
    BY <1>1, <1>2, <1>3, <1>4 DEF Slots
  <2>2. i % capacity = i
    BY <1>1, <1>3, ModBasics
  <2> QED
    BY <2>1, <2>2 DEF Probe, s
<1>5. CASE i < s
  <2> DEFINE d == (i + capacity) - s
  <2>1. d \in Slots /\ s + d = i + capacity
    BY <1>1, <1>2, <1>3, <1>5 DEF Slots
  <2>2. (i + capacity) % capacity = i
    BY <1>1, <1>3, ModBasics
  <2> HIDE DEF d
  <2> QED
    BY <2>1, <2>2 DEF Probe, s
<1> QED
  BY <1>2, <1>3, <1>4, <1>5

\* The load bound leaves an empty bucket: the list would otherwise map fewer
\* positions than there are buckets onto all of them.
LEMMA EmptyBucketExists ==
    ASSUME TypeOK, ListExact, LoadBound
    PROVE  \E i \in Slots : ~Occupied(i)
<1>1. capacity \in Nat /\ count \in Nat /\ 4 * count <= 3 * capacity /\ capacity > 0
  BY DEF TypeOK, LoadBound
<1>2. order \in [1 .. Len(order) -> Slots] /\ Len(order) \in Nat /\ Len(order) <= count
  <2>1. order \in Seq(Slots) /\ moving \in Seq(Entries)
    BY DEF TypeOK
  <2>2. Len(order) \in Nat /\ Len(moving) \in Nat
    BY <2>1, LenProperties
  <2> QED
    BY <2>1, <2>2, LenProperties DEF ListExact
<1>3. SUFFICES ASSUME \A i \in Slots : Occupied(i)
               PROVE  FALSE
  OBVIOUS
<1>4. \A i \in Slots : \E n \in 1 .. Len(order) : order[n] = i
  BY <1>2, <1>3 DEF ListExact
<1>5. order \in Surjection(1 .. Len(order), Slots)
  BY <1>2, <1>4 DEF Surjection
<1>6. Cardinality(Slots) <= Len(order)
  BY <1>2, <1>5, FS_SurjCardinalityBound DEF ExistsSurjection
<1>7. Cardinality(Slots) = capacity
  BY <1>1, FS_Interval DEF Slots
<1> QED
  BY <1>1, <1>2, <1>6, <1>7

\* With an empty bucket in the table, both kinds of probe end.
LEMMA ProbesStop ==
    ASSUME TypeOK, ListExact, LoadBound
    PROVE  ProbingEnds
<1> SUFFICES ASSUME NEW k \in Keys
             PROVE  /\ \E i \in Slots : find_entry(k, i)
                    /\ \E i \in Slots : resize_entry(k, i)
  BY DEF ProbingEnds
<1> Slots \subseteq Nat
  BY DEF Slots, TypeOK
<1>1. PICK d \in Slots : ~Occupied(Probe(k, d))
  BY EmptyBucketExists, ProbeVisitsAll
<1>2. \A m \in Slots : \A e \in 0 .. m - 1 : e \in Slots /\ e < m
  BY DEF Slots, TypeOK
<1>3. \E i \in Slots : resize_entry(k, i)
  <2> DEFINE S == {e \in Slots : ~Occupied(Probe(k, e))}
  <2>1. PICK m \in S : \A e \in S : m <= e
    BY <1>1, LeastNatural
  <2>2. \A e \in 0 .. m - 1 : Occupied(Probe(k, e))
    BY <1>2, <2>1
  <2> QED
    BY <2>1, <2>2, ProbeInTable DEF resize_entry
<1>4. \E i \in Slots : find_entry(k, i)
  <2> DEFINE S == {e \in Slots : ~Occupied(Probe(k, e)) \/ Holds(Probe(k, e), k)}
  <2>1. PICK m \in S : \A e \in S : m <= e
    BY <1>1, LeastNatural
  <2>2. \A e \in 0 .. m - 1 : Occupied(Probe(k, e)) /\ ~Holds(Probe(k, e), k)
    BY <1>2, <2>1
  <2> QED
    BY <2>1, <2>2, ProbeInTable DEF find_entry
<1> QED
  BY <1>3, <1>4

----------------------------------------------------------------------------
(* How a change of one bucket leaves every entry reachable. *)

\* Filling the empty bucket at which the probe for the new key ends: the
\* probe paths of the other entries never visited it.
LEMMA FillingKeepsReachable ==
    ASSUME TypeOK, Reachable, NEW i \in Slots, NEW x \in Entries,
           ~Occupied(i), find_entry(KeyOf[x.ptr], i),
           buckets' = [buckets EXCEPT ![i] = x], capacity' = capacity
    PROVE  Reachable'
<1>1. /\ Slots' = Slots
      /\ \A k, d : Probe(k, d)' = Probe(k, d)
  BY DEF Slots, Probe
<1>2. \A j \in Slots : buckets'[j] = IF j = i THEN x ELSE buckets[j]
  BY DEF TypeOK
<1>3. SUFFICES ASSUME NEW j \in Slots, Occupied(j)'
               PROVE  find_entry(KeyOf[buckets[j].ptr], j)'
  BY <1>1 DEF Reachable
<1>4. PICK k \in Keys : k = KeyOf[buckets'[j].ptr] /\ find_entry(k, j)
  BY <1>2, <1>3 DEF Reachable, Occupied, TypeOK, Entries, EmptyEntry
<1>5. PICK d \in Slots :
        /\ Probe(k, d) = j
        /\ \A e \in 0 .. d - 1 : Occupied(Probe(k, e)) /\ ~Holds(Probe(k, e), k)
  BY <1>4 DEF find_entry
<1>6. \A e \in 0 .. d - 1 : Probe(k, e) \in Slots /\ Probe(k, e) # i
  BY <1>5, ProbeInTable
<1>7. \A e \in 0 .. d - 1 : buckets'[Probe(k, e)] = buckets[Probe(k, e)]
  BY <1>2, <1>6
<1>8. find_entry(k, j)'
  <2>1. Occupied(j)' /\ Holds(j, k)' /\ Probe(k, d)' = j /\ d \in Slots'
    BY <1>1, <1>3, <1>4, <1>5 DEF Holds
  <2>2. ASSUME NEW e \in 0 .. d - 1
        PROVE  Occupied(Probe(k, e))' /\ ~Holds(Probe(k, e), k)'
    <3>1. Occupied(Probe(k, e)) /\ ~Holds(Probe(k, e), k)
      BY <1>5
    <3>2. Probe(k, e)' = Probe(k, e)
      BY <1>1
    <3> QED
      BY <1>7, <3>1, <3>2 DEF Occupied, Holds
  <2> QED
    BY <2>1, <2>2 DEF find_entry
<1> QED
  BY <1>4, <1>8

\* Overwriting an entry by one of the same key.
LEMMA OverwritingKeepsReachable ==
    ASSUME TypeOK, Reachable, NEW i \in Slots, NEW x \in Entries,
           Occupied(i), KeyOf[x.ptr] = KeyOf[buckets[i].ptr],
           buckets' = [buckets EXCEPT ![i] = x], capacity' = capacity
    PROVE  Reachable'
<1>1. /\ Slots' = Slots
      /\ \A k, d : Probe(k, d)' = Probe(k, d)
  BY DEF Slots, Probe
<1>2. \A j \in Slots : buckets'[j] = IF j = i THEN x ELSE buckets[j]
  BY DEF TypeOK
<1>3. \A j \in Slots : /\ Occupied(j)' <=> Occupied(j)
                       /\ \A k : Holds(j, k)' <=> Holds(j, k)
                       /\ Occupied(j) => KeyOf[buckets'[j].ptr] = KeyOf[buckets[j].ptr]
  BY <1>2 DEF Occupied, Holds, Entries
<1>4. SUFFICES ASSUME NEW j \in Slots, Occupied(j)
               PROVE  find_entry(KeyOf[buckets[j].ptr], j)'
  BY <1>1, <1>3 DEF Reachable
<1>5. PICK k \in Keys : k = KeyOf[buckets[j].ptr] /\ find_entry(k, j)
  BY <1>4 DEF Reachable, Occupied, TypeOK, Entries, EmptyEntry
<1>6. PICK d \in Slots :
        /\ Probe(k, d) = j
        /\ \A e \in 0 .. d - 1 : Occupied(Probe(k, e)) /\ ~Holds(Probe(k, e), k)
  BY <1>5 DEF find_entry
<1>7. find_entry(k, j)'
  <2>1. Holds(j, k)' /\ Probe(k, d)' = j /\ d \in Slots'
    BY <1>1, <1>3, <1>4, <1>5, <1>6 DEF Holds
  <2>2. ASSUME NEW e \in 0 .. d - 1
        PROVE  Occupied(Probe(k, e))' /\ ~Holds(Probe(k, e), k)'
    <3>1. Occupied(Probe(k, e)) /\ ~Holds(Probe(k, e), k) /\ Probe(k, e) \in Slots
      BY <1>6, ProbeInTable
    <3>2. Probe(k, e)' = Probe(k, e)
      BY <1>1
    <3>3. PICK q \in Slots : q = Probe(k, e)
      BY <3>1
    <3>4. Occupied(q)' /\ ~Holds(q, k)'
      BY <1>3, <3>1, <3>3
    <3> QED
      BY <3>2, <3>3, <3>4 DEF Occupied, Holds
  <2> QED
    BY <2>1, <2>2 DEF find_entry
<1>8. buckets'[j].ptr # NULL /\ KeyOf[buckets'[j].ptr] = k
  BY <1>3, <1>4, <1>5 DEF Occupied
<1> QED
  BY <1>7, <1>8

\* A step that leaves the table alone.
LEMMA SameTableKeepsReachable ==
    ASSUME Reachable, UNCHANGED <<buckets, capacity>>
    PROVE  Reachable'
<1>1. Slots' = Slots /\ \A i : Occupied(i)' <=> Occupied(i)
  BY DEF Slots, Occupied
<1>2. \A k, d : Probe(k, d)' = Probe(k, d)
  BY DEF Probe
<1>3. \A i, k : Holds(i, k)' <=> Holds(i, k)
  BY DEF Holds, Occupied
<1>4. SUFFICES ASSUME NEW i \in Slots, Occupied(i)
               PROVE  find_entry(KeyOf[buckets[i].ptr], i)'
  BY <1>1 DEF Reachable
<1>5. PICK k : k = KeyOf[buckets[i].ptr]
  OBVIOUS
<1>6. PICK d \in Slots :
        /\ Probe(k, d) = i
        /\ ~Occupied(i) \/ Holds(i, k)
        /\ \A e \in 0 .. d - 1 : Occupied(Probe(k, e)) /\ ~Holds(Probe(k, e), k)
  BY <1>4, <1>5 DEF Reachable, find_entry
<1>7. find_entry(k, i)'
  <2>1. \A e \in 0 .. d - 1 : Occupied(Probe(k, e))' /\ ~Holds(Probe(k, e), k)'
    BY <1>6 DEF Occupied, Holds, Probe
  <2> QED
    BY <1>1, <1>2, <1>3, <1>6, <2>1 DEF find_entry
<1> QED
  BY <1>5, <1>7

----------------------------------------------------------------------------
(* The inductive invariant, one lemma for each way the table changes. *)

IInv ==
    /\ TypeOK
    /\ Reachable
    /\ ListExact
    /\ NoDanglingKey
    /\ StoredOnce
    /\ LoadBound
    /\ CallerKeepsKey

LEMMA InitIInv == Init => IInv
<1> SUFFICES ASSUME Init
             PROVE  IInv
  OBVIOUS
<1> USE DEF Init, hashmap_create
<1>1. /\ Slots = 0 .. InitCapacity - 1
      /\ \A i \in Slots : ~Occupied(i)
  BY DEF Slots, Occupied, EmptyEntry
<1>2. TypeOK
  BY <1>1 DEF TypeOK, EmptyEntry, NoCall
<1>3. Reachable /\ ListExact /\ StoredOnce
  BY <1>1 DEF Reachable, ListExact, StoredOnce, Holds
<1>4. NoDanglingKey /\ LoadBound /\ CallerKeepsKey
  BY DEF NoDanglingKey, LoadBound, CallerKeepsKey
<1> QED
  BY <1>2, <1>3, <1>4 DEF IInv

\* A call is entered without a resize.
LEMMA EnterKeepsIInv ==
    ASSUME IInv, NEW fn \in Functions, NEW p \in Ptrs, NEW v \in Vals, Enter(fn, p, v)
    PROVE  IInv'
<1> USE DEF IInv
<1>1. CASE fn # "get" /\ Overloaded /\ BeginResize
  <2>1. /\ pc = "idle" /\ pc' = "resize" /\ capacity' = 2 * capacity
        /\ count' = count /\ freed' = freed /\ ret' = ret
        /\ call' = [fn |-> fn, ptr |-> p, val |-> v] /\ order' = <<>>
        /\ buckets' = [i \in 0 .. 2 * capacity - 1 |-> EmptyEntry]
        /\ moving' = [n \in DOMAIN order |-> buckets[order[n]]]
    BY <1>1 DEF Enter, BeginResize
  <2>2. /\ capacity \in Nat /\ capacity >= InitCapacity /\ count \in Nat
        /\ 4 * count <= 3 * capacity /\ 4 * (count + 1) > 3 * capacity
    BY <1>1 DEF TypeOK, LoadBound, Overloaded
  <2>3. /\ Len(order) \in Nat /\ DOMAIN order = 1 .. Len(order)
        /\ \A n \in DOMAIN order : order[n] \in Slots
    BY LenProperties DEF TypeOK
  <2>4. moving = <<>> /\ Len(moving) = 0 /\ count = Len(order) /\ count > 0
    BY <2>1, <2>2, <2>3 DEF LoadBound, ListExact
  <2>5. \A n \in DOMAIN order : buckets[order[n]] \in Entries
    BY <2>3 DEF ListExact, Occupied, TypeOK, EmptyEntry
  <2>6. /\ moving' \in Seq(Entries) /\ DOMAIN moving' = 1 .. Len(order)
        /\ Len(moving') = count
        /\ \A n \in DOMAIN order : moving'[n] = buckets[order[n]]
    BY <2>1, <2>3, <2>4, <2>5
  <2>7. Slots' = 0 .. 2 * capacity - 1 /\ \A i \in Slots' : ~Occupied(i)'
    BY <2>1, <2>2 DEF Slots, Occupied, EmptyEntry
  <2>8. TypeOK'
    BY <2>1, <2>2, <2>6, <2>7 DEF TypeOK, Calls
  <2>9. Reachable' /\ ListExact'
    BY <2>1, <2>4, <2>6, <2>7 DEF Reachable, ListExact
  <2>10. StoredOnce'
    <3>1. ASSUME NEW m \in DOMAIN moving', NEW n \in DOMAIN moving',
                 KeyOf[moving'[m].ptr] = KeyOf[moving'[n].ptr]
          PROVE  m = n
      <4>1. m \in DOMAIN order /\ n \in DOMAIN order
        BY <2>3, <2>6
      <4>2. Occupied(order[m]) /\ Occupied(order[n])
        BY <2>3, <4>1 DEF ListExact
      <4>3. order[m] = order[n]
        BY <2>3, <2>6, <3>1, <4>1, <4>2 DEF StoredOnce
      <4> QED
        BY <4>1, <4>3 DEF ListExact
    <3> QED
      BY <2>7, <3>1 DEF StoredOnce, Holds
  <2>11. NoDanglingKey'
    <3>1. \A i \in Slots' : buckets'[i].ptr \notin freed'
      BY <2>1, <2>7 DEF EmptyEntry, TypeOK
    <3>2. \A n \in DOMAIN moving' : moving'[n].ptr \notin freed'
      BY <2>1, <2>3, <2>6 DEF NoDanglingKey
    <3> QED
      BY <3>1, <3>2 DEF NoDanglingKey
  <2>12. LoadBound'
    BY <1>1, <2>1, <2>2, <2>4, <2>6 DEF LoadBound, Overloaded
  <2>13. CallerKeepsKey'
    <3>1. p \notin freed' /\ call'.ptr = p /\ call'.fn = fn
      BY <2>1 DEF Enter, MayPass
    <3>2. fn = "set_free" => \A n \in DOMAIN moving' : moving'[n].ptr # p
      BY <2>3, <2>6 DEF Enter, MayPass
    <3>3. \A i \in Slots' : buckets'[i].ptr # p
      BY <2>1, <2>7 DEF EmptyEntry
    <3> QED
      BY <3>1, <3>2, <3>3 DEF CallerKeepsKey
  <2> QED
    BY <2>8, <2>9, <2>10, <2>11, <2>12, <2>13
<1>2. CASE pc' = "lookup" /\ (fn = "get" \/ ~Overloaded)
           /\ UNCHANGED <<capacity, buckets, order, moving>>
  <2>1. /\ pc = "idle" /\ count' = count /\ freed' = freed /\ ret' = ret
        /\ call' = [fn |-> fn, ptr |-> p, val |-> v]
    BY DEF Enter
  <2>2. TypeOK'
    BY <1>2, <2>1 DEF TypeOK, Calls, Slots
  <2>3. Reachable' /\ ListExact' /\ StoredOnce' /\ NoDanglingKey'
    <3>1. Reachable'
      BY <1>2, SameTableKeepsReachable
    <3>2. ListExact'
      BY <1>2, <2>1 DEF ListExact, Slots, Occupied
    <3>3. StoredOnce'
      BY <1>2 DEF StoredOnce, Slots, Occupied, Holds
    <3>4. NoDanglingKey'
      BY <1>2, <2>1 DEF NoDanglingKey, Slots
    <3> QED
      BY <3>1, <3>2, <3>3, <3>4
  <2>4. LoadBound'
    BY <1>2, <2>1 DEF LoadBound, Overloaded
  <2>5. CallerKeepsKey'
    BY <1>2, <2>1 DEF CallerKeepsKey, Enter, MayPass, Slots, LoadBound
  <2> QED
    BY <2>2, <2>3, <2>4, <2>5
<1> QED
  BY <1>1, <1>2 DEF Enter

\* Linking an entry behind m->last: shared by the loop of hashmap_resize and
\* by the functions that add an entry.
LEMMA LinkingKeepsList ==
    ASSUME TypeOK, NEW i \in Slots, NEW x \in Entries, ~Occupied(i),
           \A j \in Slots : Occupied(j) <=> \E n \in DOMAIN order : order[n] = j,
           \A m, n \in DOMAIN order : order[m] = order[n] => m = n,
           buckets' = [buckets EXCEPT ![i] = x], capacity' = capacity,
           order' = Append(order, i)
    PROVE  /\ order' \in Seq(Slots) /\ Len(order') = Len(order) + 1
           /\ \A j \in Slots : Occupied(j)' <=> \E n \in DOMAIN order' : order'[n] = j
           /\ \A m, n \in DOMAIN order' : order'[m] = order'[n] => m = n
<1>1. order \in Seq(Slots) /\ Len(order) \in Nat /\ DOMAIN order = 1 .. Len(order)
  BY LenProperties DEF TypeOK
<1>2. /\ order' \in Seq(Slots) /\ Len(order') = Len(order) + 1
      /\ \A n \in 1 .. Len(order) : order'[n] = order[n]
      /\ order'[Len(order) + 1] = i
  BY <1>1, AppendProperties
<1>3. DOMAIN order' = 1 .. Len(order) + 1
  BY <1>2, LenProperties
<1>4. \A j \in Slots : Occupied(j)' <=> Occupied(j) \/ j = i
  BY DEF TypeOK, Occupied, Entries
<1>5. ASSUME NEW j \in Slots
      PROVE  Occupied(j)' <=> \E n \in DOMAIN order' : order'[n] = j
  <2>1. (\E n \in DOMAIN order' : order'[n] = j)
            <=> (\E n \in DOMAIN order : order[n] = j) \/ i = j
    <3>1. CASE j = i
      <4>1. Len(order) + 1 \in DOMAIN order' /\ order'[Len(order) + 1] = j
        BY <1>1, <1>2, <1>3, <3>1
      <4> QED
        BY <3>1, <4>1
    <3>2. CASE j # i
      <4>1. ASSUME NEW n \in DOMAIN order', order'[n] = j
            PROVE  n \in DOMAIN order /\ order[n] = j
        BY <1>1, <1>2, <1>3, <3>2, <4>1
      <4>2. ASSUME NEW n \in DOMAIN order, order[n] = j
            PROVE  n \in DOMAIN order' /\ order'[n] = j
        BY <1>1, <1>2, <1>3, <4>2
      <4> QED
        BY <3>2, <4>1, <4>2
    <3> QED
      BY <3>1, <3>2
  <2> QED
    BY <1>4, <2>1
<1>6. \A n \in DOMAIN order : order[n] # i
  BY <1>1
<1>7. ASSUME NEW m \in DOMAIN order', NEW n \in DOMAIN order', order'[m] = order'[n]
      PROVE  m = n
  BY <1>1, <1>2, <1>3, <1>6, <1>7
<1> QED
  BY <1>2, <1>5, <1>7

LEMMA ResizeStepKeepsIInv ==
    ASSUME IInv, hashmap_resize
    PROVE  IInv'
<1> USE DEF IInv
<1> DEFINE x == Head(moving)
           k == KeyOf[x.ptr]
<1>1. PICK i \in Slots :
        /\ resize_entry(k, i)
        /\ buckets' = [buckets EXCEPT ![i] = x]
        /\ order' = Append(order, i)
  BY DEF hashmap_resize
<1>2. /\ pc = "resize" /\ moving # <<>> /\ moving' = Tail(moving)
      /\ pc' = IF moving' = <<>> THEN "lookup" ELSE "resize"
      /\ UNCHANGED <<capacity, count, call, freed, ret>>
      /\ Slots' = Slots
  BY DEF hashmap_resize, Slots
<1>3. moving \in Seq(Entries) /\ DOMAIN moving = 1 .. Len(moving) /\ Len(moving) \in Nat
  BY LenProperties DEF TypeOK
<1>4. /\ x \in Entries /\ x = moving[1] /\ 1 \in DOMAIN moving
      /\ moving' \in Seq(Entries) /\ Len(moving') = Len(moving) - 1
      /\ DOMAIN moving' = 1 .. Len(moving) - 1
      /\ \A n \in DOMAIN moving' : moving'[n] = moving[n + 1]
  <2>1. Len(moving) > 0
    BY <1>2, <1>3, EmptySeq
  <2>2. moving' \in Seq(Entries) /\ Len(moving') = Len(moving) - 1
    BY <1>2, <1>3, HeadTailProperties
  <2>3. DOMAIN moving' = 1 .. Len(moving')
    BY <2>2, LenProperties
  <2> QED
    BY <1>2, <1>3, <2>1, <2>2, <2>3, HeadTailProperties
<1>5. k \in Keys /\ ~Occupied(i) /\ find_entry(k, i)
  <2>1. k \in Keys
    BY <1>4 DEF Entries
  <2>2. \A j \in Slots : ~Holds(j, k)
    BY <1>4 DEF StoredOnce
  <2>3. PICK d \in Slots :
          /\ Probe(k, d) = i
          /\ ~Occupied(i)
          /\ \A e \in 0 .. d - 1 : Occupied(Probe(k, e))
    BY <1>1 DEF resize_entry
  <2>4. \A e \in 0 .. d - 1 : Probe(k, e) \in Slots
    BY <2>1, ProbeInTable
  <2>5. \A e \in 0 .. d - 1 : Occupied(Probe(k, e)) /\ ~Holds(Probe(k, e), k)
    BY <2>2, <2>3, <2>4
  <2> QED
    BY <2>1, <2>3, <2>5 DEF find_entry
<1>6. \A j \in Slots : buckets'[j] = IF j = i THEN x ELSE buckets[j]
  BY <1>1 DEF TypeOK
<1>7. Reachable'
  BY <1>1, <1>2, <1>4, <1>5, FillingKeepsReachable
<1>8. /\ order' \in Seq(Slots) /\ Len(order') = Len(order) + 1
      /\ \A j \in Slots : Occupied(j)' <=> \E n \in DOMAIN order' : order'[n] = j
      /\ \A m, n \in DOMAIN order' : order'[m] = order'[n] => m = n
  BY <1>1, <1>2, <1>4, <1>5, LinkingKeepsList DEF ListExact
<1>9. ListExact'
  <2>1. Len(order) \in Nat
    BY LenProperties DEF TypeOK
  <2> QED
    BY <1>2, <1>3, <1>4, <1>8, <2>1 DEF ListExact
<1>10. TypeOK'
  <2>1. buckets' \in [Slots -> Entries \cup {EmptyEntry}]
    BY <1>1, <1>4 DEF TypeOK
  <2> QED
    BY <1>2, <1>4, <1>8, <2>1 DEF TypeOK
<1>11. StoredOnce'
  <2>1. \A j, l \in Slots :
          Occupied(j)' /\ Occupied(l)' /\ KeyOf[buckets'[j].ptr] = KeyOf[buckets'[l].ptr]
            => j = l
    <3>1. \A j \in Slots : Occupied(j) => KeyOf[buckets[j].ptr] # k
      BY <1>4 DEF StoredOnce, Holds
    <3>2. \A j \in Slots : j # i /\ Occupied(j)' => Occupied(j)
      BY <1>6 DEF Occupied
    <3> QED
      BY <1>6, <3>1, <3>2 DEF StoredOnce
  <2>2. ASSUME NEW m \in DOMAIN moving', NEW n \in DOMAIN moving',
               KeyOf[moving'[m].ptr] = KeyOf[moving'[n].ptr]
        PROVE  m = n
    <3>1. m \in Nat /\ n \in Nat /\ m + 1 \in DOMAIN moving /\ n + 1 \in DOMAIN moving
      BY <1>3, <1>4
    <3>2. KeyOf[moving[m + 1].ptr] = KeyOf[moving[n + 1].ptr]
      BY <1>4, <2>2
    <3>3. m + 1 = n + 1
      BY <3>1, <3>2 DEF StoredOnce
    <3> QED
      BY <3>1, <3>3
  <2>3. ASSUME NEW j \in Slots, NEW n \in DOMAIN moving', j # i
        PROVE  ~Holds(j, KeyOf[moving[n + 1].ptr])
    BY <1>3, <1>4 DEF StoredOnce
  <2>4. \A n \in DOMAIN moving' : k # KeyOf[moving[n + 1].ptr]
    BY <1>3, <1>4 DEF StoredOnce
  <2>5. \A j \in Slots, n \in DOMAIN moving' : ~Holds(j, KeyOf[moving[n].ptr])'
    BY <1>4, <1>6, <2>3, <2>4 DEF Holds, Occupied
  <2> QED
    BY <1>2, <2>1, <2>2, <2>5 DEF StoredOnce
<1>12. NoDanglingKey'
  <2>1. x.ptr \notin freed
    BY <1>4, LenProperties DEF NoDanglingKey
  <2>2. \A j \in Slots : buckets'[j].ptr \notin freed
    BY <1>6, <2>1 DEF NoDanglingKey
  <2>3. \A n \in DOMAIN moving' : moving'[n].ptr \notin freed
    BY <1>3, <1>4 DEF NoDanglingKey
  <2> QED
    BY <1>2, <2>2, <2>3 DEF NoDanglingKey
<1>13. LoadBound'
  BY <1>2 DEF LoadBound, Overloaded
<1>14. CallerKeepsKey'
  <2>1. call'.fn = "set_free" => \A j \in Slots' : buckets'[j].ptr # call'.ptr
    BY <1>2, <1>4, <1>6 DEF CallerKeepsKey
  <2>2. call'.fn = "set_free" => \A n \in DOMAIN moving' : moving'[n].ptr # call'.ptr
    BY <1>2, <1>3, <1>4 DEF CallerKeepsKey
  <2> QED
    BY <1>2, <2>1, <2>2 DEF CallerKeepsKey
<1> QED
  BY <1>7, <1>9, <1>10, <1>11, <1>12, <1>13, <1>14

\* What a returning call knows and leaves alone.
LEMMA ReturnFacts ==
    ASSUME IInv, NEW fn \in Functions, NEW i \in Slots, Return(fn, i)
    PROVE  /\ pc = "lookup" /\ pc' = "idle" /\ call' = NoCall /\ call.fn = fn
           /\ capacity' = capacity /\ Slots' = Slots
           /\ moving = <<>> /\ moving' = <<>> /\ Len(moving) = 0
           /\ call.ptr \in Ptrs /\ call.val \in Vals
           /\ find_entry(KeyOf[call.ptr], i)
  BY DEF IInv, TypeOK, LoadBound, Return, Calls, Slots

\* A probe that ends at an empty bucket has not missed its key: the bucket that
\* holds it would have ended the probe earlier.
LEMMA EmptyMeansAbsent ==
    ASSUME TypeOK, Reachable, NEW k, NEW i \in Slots, find_entry(k, i), ~Occupied(i)
    PROVE  \A j \in Slots : ~Holds(j, k)
<1> SUFFICES ASSUME NEW j \in Slots, Holds(j, k)
             PROVE  FALSE
  OBVIOUS
<1>1. find_entry(k, j)
  BY DEF Reachable, Holds
<1>2. PICK d \in Slots :
        /\ Probe(k, d) = i
        /\ \A e \in 0 .. d - 1 : ~Holds(Probe(k, e), k)
  BY DEF find_entry
<1>3. PICK c \in Slots :
        /\ Probe(k, c) = j
        /\ \A e \in 0 .. c - 1 : Occupied(Probe(k, e))
  BY <1>1 DEF find_entry
<1>4. c \in Nat /\ d \in Nat
  BY DEF Slots, TypeOK
<1>5. CASE c < d
  BY <1>2, <1>3, <1>4, <1>5
<1>6. CASE d < c
  BY <1>2, <1>3, <1>4, <1>6
<1>7. CASE c = d
  BY <1>2, <1>3, <1>7 DEF Holds
<1> QED
  BY <1>4, <1>5, <1>6, <1>7

\* A call returns after adding an entry.
LEMMA AddKeepsIInv ==
    ASSUME IInv, NEW fn \in Functions \ {"get"}, NEW i \in Slots, Return(fn, i),
           ~Occupied(i), AddEntry(i), freed' = freed,
           ret' \in [found : BOOLEAN, val : Vals \cup {NULL}]
    PROVE  IInv'
<1> USE DEF IInv
<1> DEFINE x == [ptr |-> call.ptr, value |-> call.val]
           k == KeyOf[call.ptr]
<1>1. /\ pc = "lookup" /\ pc' = "idle" /\ call' = NoCall /\ call.fn = fn
      /\ capacity' = capacity /\ Slots' = Slots
      /\ moving = <<>> /\ moving' = <<>> /\ Len(moving) = 0
      /\ x \in Entries /\ k \in Keys
      /\ find_entry(k, i)
  BY ReturnFacts DEF Entries
<1>2. /\ buckets' = [buckets EXCEPT ![i] = x]
      /\ order' = Append(order, i)
      /\ count' = count + 1
  BY DEF AddEntry
<1>3. \A j \in Slots : buckets'[j] = IF j = i THEN x ELSE buckets[j]
  BY <1>2 DEF TypeOK
<1>4. Reachable'
  BY <1>1, <1>2, FillingKeepsReachable
<1>5. /\ order' \in Seq(Slots) /\ Len(order') = Len(order) + 1
      /\ \A j \in Slots : Occupied(j)' <=> \E n \in DOMAIN order' : order'[n] = j
      /\ \A m, n \in DOMAIN order' : order'[m] = order'[n] => m = n
  BY <1>1, <1>2, LinkingKeepsList DEF ListExact
<1>6. ListExact'
  <2>1. Len(order) \in Nat
    BY LenProperties DEF TypeOK
  <2>2. count' = Len(order') + Len(moving')
    BY <1>1, <1>2, <1>5, <2>1 DEF ListExact
  <2> QED
    BY <1>1, <1>5, <2>2 DEF ListExact
<1>7. TypeOK'
  <2>1. buckets' \in [Slots -> Entries \cup {EmptyEntry}]
    BY <1>1, <1>2 DEF TypeOK
  <2> QED
    BY <1>1, <1>2, <1>5, <2>1 DEF TypeOK
<1>8. \A j \in Slots : ~Holds(j, k)
  BY <1>1, EmptyMeansAbsent
<1>9. StoredOnce'
  <2>1. \A j \in Slots : j # i /\ Occupied(j)' => Occupied(j) /\ KeyOf[buckets[j].ptr] # k
    BY <1>3, <1>8 DEF Occupied, Holds
  <2>2. \A j, l \in Slots :
          Occupied(j)' /\ Occupied(l)' /\ KeyOf[buckets'[j].ptr] = KeyOf[buckets'[l].ptr]
            => j = l
    BY <1>3, <2>1 DEF StoredOnce
  <2> QED
    BY <1>1, <2>2 DEF StoredOnce
<1>10. NoDanglingKey'
  BY <1>1, <1>3 DEF NoDanglingKey, CallerKeepsKey
<1>11. LoadBound'
  BY <1>1, <1>2 DEF LoadBound, Overloaded, TypeOK
<1>12. CallerKeepsKey'
  BY <1>1 DEF CallerKeepsKey
<1> QED
  BY <1>4, <1>6, <1>7, <1>9, <1>10, <1>11, <1>12

\* A call returns after overwriting the entry it found, whose key pointer it
\* keeps, or replaces by its own and frees.
LEMMA OverwriteKeepsIInv ==
    ASSUME IInv, NEW fn \in Functions, NEW i \in Slots, Return(fn, i),
           Occupied(i), NEW x \in Entries, buckets' = [buckets EXCEPT ![i] = x],
           \/ x.ptr = buckets[i].ptr /\ freed' = freed
           \/ x.ptr = call.ptr /\ fn = "set_free" /\ freed' = freed \cup {buckets[i].ptr},
           UNCHANGED <<order, count, ret>>
    PROVE  IInv'
<1> USE DEF IInv
<1>1. /\ pc = "lookup" /\ pc' = "idle" /\ call' = NoCall /\ call.fn = fn
      /\ capacity' = capacity /\ Slots' = Slots
      /\ moving = <<>> /\ moving' = <<>> /\ Len(moving) = 0
      /\ find_entry(KeyOf[call.ptr], i)
  BY ReturnFacts
<1>2. \A j \in Slots : buckets'[j] = IF j = i THEN x ELSE buckets[j]
  BY DEF TypeOK
<1>3. KeyOf[x.ptr] = KeyOf[buckets[i].ptr]
  BY <1>1 DEF find_entry, Holds
<1>4. \A j \in Slots : /\ Occupied(j)' <=> Occupied(j)
                       /\ Occupied(j) => KeyOf[buckets'[j].ptr] = KeyOf[buckets[j].ptr]
  BY <1>2, <1>3 DEF Occupied, Entries
<1>5. Reachable'
  BY <1>1, <1>3, OverwritingKeepsReachable
<1>6. ListExact'
  BY <1>1, <1>4 DEF ListExact
<1>7. TypeOK'
  <2>1. buckets' \in [Slots -> Entries \cup {EmptyEntry}]
    BY DEF TypeOK
  <2>2. buckets[i].ptr \in Ptrs
    BY DEF TypeOK, Occupied, Entries, EmptyEntry
  <2>3. freed' \subseteq Ptrs
    BY <2>2 DEF TypeOK
  <2> QED
    BY <1>1, <2>1, <2>3 DEF TypeOK
<1>8. StoredOnce'
  BY <1>1, <1>4 DEF StoredOnce
<1>9. NoDanglingKey'
  <2>1. ASSUME NEW j \in Slots, j # i, Occupied(j)
        PROVE  buckets[j].ptr # buckets[i].ptr
    BY <2>1 DEF StoredOnce
  <2>2. x.ptr \notin freed'
    BY <1>1 DEF NoDanglingKey, CallerKeepsKey
  <2>3. ASSUME NEW j \in Slots, j # i
        PROVE  buckets'[j].ptr \notin freed'
    BY <1>2, <2>1, <2>3 DEF NoDanglingKey, Occupied
  <2> QED
    BY <1>1, <1>2, <2>2, <2>3 DEF NoDanglingKey
<1>10. LoadBound' /\ CallerKeepsKey'
  BY <1>1 DEF LoadBound, CallerKeepsKey
<1> QED
  BY <1>5, <1>6, <1>7, <1>8, <1>9, <1>10

\* A call returns having only read the table.
LEMMA ReadKeepsIInv ==
    ASSUME IInv, NEW fn \in Functions, NEW i \in Slots, Return(fn, i),
           ret' \in [found : BOOLEAN, val : Vals \cup {NULL}],
           UNCHANGED <<buckets, order, count, freed>>
    PROVE  IInv'
<1> USE DEF IInv
<1>1. /\ pc = "lookup" /\ pc' = "idle" /\ call' = NoCall
      /\ capacity' = capacity /\ Slots' = Slots
      /\ moving = <<>> /\ moving' = <<>>
  BY ReturnFacts
<1>2. Reachable'
  BY <1>1, SameTableKeepsReachable
<1>3. TypeOK' /\ ListExact'
  BY <1>1 DEF TypeOK, ListExact, Occupied
<1>4. NoDanglingKey' /\ StoredOnce'
  BY <1>1 DEF NoDanglingKey, StoredOnce, Occupied
<1>5. LoadBound' /\ CallerKeepsKey'
  BY <1>1 DEF LoadBound, CallerKeepsKey
<1> QED
  BY <1>2, <1>3, <1>4, <1>5

LEMMA NextKeepsIInv == IInv /\ [Next]_vars => IInv'
<1> SUFFICES ASSUME IInv, [Next]_vars
             PROVE  IInv'
  OBVIOUS
<1> USE DEF Functions
<1>1. ASSUME NEW fn \in Functions, NEW p \in Ptrs, NEW v \in Vals, Enter(fn, p, v)
      PROVE  IInv'
  BY <1>1, EnterKeepsIInv
<1>2. CASE hashmap_resize
  BY <1>2, ResizeStepKeepsIInv
<1>3. ASSUME NEW i \in Slots, hashmap_set(i)
      PROVE  IInv'
  <2>1. Return("set", i) /\ freed' = freed /\ ret' = ret
    BY <1>3 DEF hashmap_set
  <2>2. CASE ~Occupied(i) /\ AddEntry(i)
    BY <2>1, <2>2, AddKeepsIInv DEF IInv, TypeOK
  <2>3. CASE Occupied(i) /\ buckets' = [buckets EXCEPT ![i].value = call.val]
             /\ UNCHANGED <<order, count>>
    <3> DEFINE x == [ptr |-> buckets[i].ptr, value |-> call.val]
    <3>1. buckets[i] \in Entries
      BY <2>3 DEF IInv, TypeOK, Occupied, EmptyEntry
    <3>2. x \in Entries /\ x.ptr = buckets[i].ptr
      BY <2>1, <3>1, ReturnFacts DEF Entries
    <3>3. [buckets[i] EXCEPT !.value = call.val] = x
      BY <3>1 DEF Entries
    <3>4. buckets' = [buckets EXCEPT ![i] = x]
      BY <2>3, <3>3
    <3> HIDE DEF x
    <3> QED
      BY <2>1, <2>3, <3>2, <3>4, OverwriteKeepsIInv
  <2> QED
    BY <1>3, <2>2, <2>3 DEF hashmap_set
<1>4. ASSUME NEW i \in Slots, hashmap_set_free(i)
      PROVE  IInv'
  <2>1. Return("set_free", i) /\ ret' = ret
    BY <1>4 DEF hashmap_set_free
  <2>2. CASE ~Occupied(i) /\ AddEntry(i) /\ UNCHANGED freed
    BY <2>1, <2>2, AddKeepsIInv DEF IInv, TypeOK
  <2>3. CASE /\ Occupied(i)
             /\ freed' = freed \cup {buckets[i].ptr}
             /\ buckets' = [buckets EXCEPT ![i] = [ptr |-> call.ptr, value |-> call.val]]
             /\ UNCHANGED <<order, count>>
    <3> DEFINE x == [ptr |-> call.ptr, value |-> call.val]
    <3>1. x \in Entries /\ x.ptr = call.ptr
      BY <2>1, ReturnFacts DEF Entries
    <3>2. buckets' = [buckets EXCEPT ![i] = x]
      BY <2>3
    <3> HIDE DEF x
    <3> QED
      BY <2>1, <2>3, <3>1, <3>2, OverwriteKeepsIInv
  <2> QED
    BY <1>4, <2>2, <2>3 DEF hashmap_set_free
<1>5. ASSUME NEW i \in Slots, hashmap_get_set(i)
      PROVE  IInv'
  <2>1. Return("get_set", i) /\ freed' = freed
    BY <1>5 DEF hashmap_get_set
  <2>2. CASE ~Occupied(i) /\ AddEntry(i) /\ ret' = [found |-> FALSE, val |-> call.val]
    BY <2>1, <2>2, AddKeepsIInv, ReturnFacts
  <2>3. CASE /\ Occupied(i)
             /\ ret' = [found |-> TRUE, val |-> buckets[i].value]
             /\ UNCHANGED <<buckets, order, count>>
    <3>1. buckets[i].value \in Vals
      BY <2>3 DEF IInv, TypeOK, Occupied, Entries, EmptyEntry
    <3> QED
      BY <2>1, <2>3, <3>1, ReadKeepsIInv
  <2> QED
    BY <1>5, <2>2, <2>3 DEF hashmap_get_set
<1>6. ASSUME NEW i \in Slots, hashmap_get(i)
      PROVE  IInv'
  <2>1. Return("get", i) /\ ret' = [found |-> Occupied(i), val |-> buckets[i].value]
        /\ UNCHANGED <<buckets, order, count, freed>>
    BY <1>6 DEF hashmap_get
  <2>2. buckets[i].value \in Vals \cup {NULL} /\ Occupied(i) \in BOOLEAN
    BY DEF IInv, TypeOK, Occupied, Entries, EmptyEntry
  <2> QED
    BY <2>1, <2>2, ReadKeepsIInv
<1>7. CASE UNCHANGED vars
  <2>1. UNCHANGED <<buckets, capacity>>
    BY <1>7 DEF vars
  <2>2. Reachable'
    BY <2>1, SameTableKeepsReachable DEF IInv
  <2>3. TypeOK' /\ ListExact'
    BY <1>7 DEF vars, IInv, TypeOK, ListExact, Slots, Occupied
  <2>4. NoDanglingKey' /\ StoredOnce'
    BY <1>7 DEF vars, IInv, NoDanglingKey, StoredOnce, Slots, Occupied, Holds
  <2>5. LoadBound' /\ CallerKeepsKey'
    BY <1>7 DEF vars, IInv, LoadBound, Overloaded, CallerKeepsKey, Slots
  <2> QED
    BY <2>2, <2>3, <2>4, <2>5 DEF IInv
<1> QED
  BY <1>1, <1>2, <1>3, <1>4, <1>5, <1>6, <1>7 DEF Next, Step

----------------------------------------------------------------------------
(* The theorems. *)

LEMMA SpecIInv == Spec => []IInv
  BY InitIInv, NextKeepsIInv, PTL DEF Spec

\* The table, the list and the arguments of the running call keep their types.
THEOREM TypeCorrect == Spec => []TypeOK
<1>1. IInv => TypeOK
  BY DEF IInv
<1> QED
  BY <1>1, SpecIInv, PTL

\* No entry is ever hidden from the lookup of its key, whatever collides and
\* however the table grows.
THEOREM StoredIsFound == Spec => []Reachable
<1>1. IInv => Reachable
  BY DEF IInv
<1> QED
  BY <1>1, SpecIInv, PTL

\* The probe loops, which have no bound of their own, always end.
THEOREM ProbesEnd == Spec => []ProbingEnds
<1>1. IInv => ProbingEnds
  BY ProbesStop DEF IInv
<1> QED
  BY <1>1, SpecIInv, PTL

\* The list runs once through every entry, and count is right.
THEOREM ListIsExact == Spec => []ListExact
<1>1. IInv => ListExact
  BY DEF IInv
<1> QED
  BY <1>1, SpecIInv, PTL

\* No stored key pointer has been freed by the callback of hashmap_set_free.
THEOREM KeysStayLive == Spec => []NoDanglingKey
<1>1. IInv => NoDanglingKey
  BY DEF IInv
<1> QED
  BY <1>1, SpecIInv, PTL
----------------------------------------------------------------------------
(* The refinement of OrderedDict. *)

\* The keys and the values of a sequence of entries.
KeysIn(es) == [n \in DOMAIN es |-> KeyOf[es[n].ptr]]
ValueIn(es, k) ==
    IF \E n \in DOMAIN KeysIn(es) : KeysIn(es)[n] = k
    THEN es[CHOOSE n \in DOMAIN KeysIn(es) : KeysIn(es)[n] = k].value
    ELSE NULL

\* No key twice.
OneEach(es) == \A m, n \in DOMAIN es : KeyOf[es[m].ptr] = KeyOf[es[n].ptr] => m = n

\* What an entry's key and value are to the dictionary.
LEMMA EntryFacts ==
    ASSUME NEW es \in Seq(Entries), OneEach(es)
    PROVE  /\ KeysIn(es) \in Seq(Keys) /\ DOMAIN KeysIn(es) = DOMAIN es
           /\ Len(KeysIn(es)) = Len(es)
           /\ \A n \in DOMAIN es : /\ KeysIn(es)[n] = KeyOf[es[n].ptr]
                                   /\ ValueIn(es, KeyOf[es[n].ptr]) = es[n].value
                                   /\ es[n].value \in Vals
           /\ \A k : (\A n \in DOMAIN es : KeyOf[es[n].ptr] # k) => ValueIn(es, k) = NULL
<1>1. es \in [1 .. Len(es) -> Entries] /\ Len(es) \in Nat
  BY LenProperties
<1>2. \A n \in DOMAIN es : es[n].ptr \in Ptrs /\ es[n].value \in Vals
  BY <1>1 DEF Entries
<1>3. KeysIn(es) \in [1 .. Len(es) -> Keys]
  BY <1>1, <1>2 DEF KeysIn
<1>4. KeysIn(es) \in Seq(Keys) /\ Len(KeysIn(es)) = Len(es) /\ DOMAIN KeysIn(es) = DOMAIN es
  <2>1. KeysIn(es) \in Seq(Keys)
    BY <1>1, <1>3, SeqDef
  <2>2. DOMAIN KeysIn(es) = 1 .. Len(es)
    BY <1>3
  <2>3. DOMAIN es = 1 .. Len(es)
    BY <1>1
  <2> QED
    BY <1>1, <2>1, <2>2, <2>3, LenProperties
<1>5. \A n \in DOMAIN es : KeysIn(es)[n] = KeyOf[es[n].ptr]
  BY DEF KeysIn
<1>6. ASSUME NEW n \in DOMAIN es
      PROVE  ValueIn(es, KeyOf[es[n].ptr]) = es[n].value
  <2>1. PICK k : k = KeyOf[es[n].ptr]
    OBVIOUS
  <2>2. \A m \in DOMAIN KeysIn(es) : KeysIn(es)[m] = k <=> m = n
    BY <1>4, <1>5, <2>1 DEF OneEach
  <2>3. (CHOOSE m \in DOMAIN KeysIn(es) : KeysIn(es)[m] = k) = n
    BY <1>4, <2>2
  <2>4. \E m \in DOMAIN KeysIn(es) : KeysIn(es)[m] = k
    BY <1>4, <2>2
  <2> QED
    BY <2>1, <2>3, <2>4 DEF ValueIn
<1>7. ASSUME NEW k, \A n \in DOMAIN es : KeyOf[es[n].ptr] # k
      PROVE  ValueIn(es, k) = NULL
  BY <1>4, <1>5, <1>7 DEF ValueIn
<1> QED
  BY <1>2, <1>4, <1>5, <1>6, <1>7

\* The entries of the map, in list order, have the types they should have, and
\* no key occurs twice.
EntriesRight ==
    /\ AllEntries \in Seq(Entries) /\ OneEach(AllEntries)
    /\ Len(AllEntries) = Len(order) + Len(moving)
    /\ \A n \in DOMAIN order : AllEntries[n] = buckets[order[n]]
    /\ \A n \in DOMAIN moving : AllEntries[Len(order) + n] = moving[n]

\* The invariant says so.
LEMMA InvariantListsEntries == IInv => EntriesRight
<1> SUFFICES ASSUME IInv
             PROVE  EntriesRight
  OBVIOUS
<1>1. /\ order \in Seq(Slots) /\ Len(order) \in Nat /\ DOMAIN order = 1 .. Len(order)
      /\ moving \in Seq(Entries) /\ Len(moving) \in Nat /\ DOMAIN moving = 1 .. Len(moving)
  BY LenProperties DEF IInv, TypeOK
<1>2. PICK listed : listed = [n \in DOMAIN order |-> buckets[order[n]]]
  OBVIOUS
<1>3. \A n \in DOMAIN order : /\ order[n] \in Slots /\ Occupied(order[n])
                              /\ buckets[order[n]] \in Entries
  <2>1. \A n \in DOMAIN order : order[n] \in Slots
    BY <1>1, LenProperties
  <2>2. \A n \in DOMAIN order : Occupied(order[n])
    BY <2>1 DEF IInv, ListExact
  <2> QED
    BY <2>1, <2>2 DEF IInv, TypeOK, Occupied, EmptyEntry
<1>4. listed \in Seq(Entries) /\ Len(listed) = Len(order) /\ DOMAIN listed = 1 .. Len(order)
  <2>1. listed \in [1 .. Len(order) -> Entries]
    BY <1>1, <1>2, <1>3
  <2> QED
    BY <1>1, <2>1, SeqDef, LenProperties
<1>5. AllEntries = listed \o moving
  BY <1>2 DEF AllEntries
<1>6. /\ AllEntries \in Seq(Entries) /\ Len(AllEntries) = Len(order) + Len(moving)
      /\ \A n \in 1 .. Len(order) + Len(moving) :
            AllEntries[n] = IF n <= Len(order) THEN listed[n] ELSE moving[n - Len(order)]
  <2>1. listed \in Seq(Entries) /\ moving \in Seq(Entries)
    BY <1>1, <1>4
  <2>2. /\ listed \o moving \in Seq(Entries)
        /\ Len(listed \o moving) = Len(listed) + Len(moving)
        /\ \A n \in 1 .. Len(listed) + Len(moving) : (listed \o moving)[n] =
                IF n <= Len(listed) THEN listed[n] ELSE moving[n - Len(listed)]
    BY <2>1, ConcatProperties
  <2>3. Len(listed) = Len(order)
    BY <1>4
  <2> QED
    BY <1>5, <2>2, <2>3
<1>7. \A n \in DOMAIN order : AllEntries[n] = buckets[order[n]]
  BY <1>1, <1>2, <1>6
<1>8. \A n \in DOMAIN moving : AllEntries[Len(order) + n] = moving[n]
  <2> TAKE n \in DOMAIN moving
  <2>1. Len(order) + n \in 1 .. Len(order) + Len(moving) /\ ~ (Len(order) + n <= Len(order))
        /\ Len(order) + n - Len(order) = n
    BY <1>1
  <2> QED
    BY <1>6, <2>1
<1>9. OneEach(AllEntries)
  <2> SUFFICES ASSUME NEW m \in DOMAIN AllEntries, NEW n \in DOMAIN AllEntries, m < n
               PROVE  KeyOf[AllEntries[m].ptr] # KeyOf[AllEntries[n].ptr]
    <3>1. DOMAIN AllEntries \subseteq Int
      BY <1>6, LenProperties
    <3> QED
      BY <3>1 DEF OneEach
  <2>1. m \in 1 .. Len(order) + Len(moving) /\ n \in 1 .. Len(order) + Len(moving)
    BY <1>6, LenProperties
  <2>2. CASE n <= Len(order)
    <3>1. m \in DOMAIN order /\ n \in DOMAIN order
      BY <1>1, <2>1, <2>2
    <3>2. order[m] # order[n]
      BY <2>1, <3>1 DEF IInv, ListExact
    <3> QED
      BY <1>3, <1>7, <3>1, <3>2 DEF IInv, StoredOnce
  <2>3. CASE ~ (n <= Len(order)) /\ m <= Len(order)
    <3>1. PICK q \in DOMAIN moving : n = Len(order) + q
      <4>1. n - Len(order) \in DOMAIN moving /\ n = Len(order) + (n - Len(order))
        BY <1>1, <2>1, <2>3
      <4> QED
        BY <4>1
    <3>2. m \in DOMAIN order
      BY <1>1, <2>1, <2>3
    <3>3. ~ Holds(order[m], KeyOf[moving[q].ptr])
      BY <1>3, <3>1, <3>2 DEF IInv, StoredOnce
    <3> QED
      BY <1>3, <1>7, <1>8, <3>1, <3>2, <3>3 DEF Holds
  <2>4. CASE ~ (m <= Len(order))
    <3>1. PICK p \in DOMAIN moving : m = Len(order) + p
      <4>1. m - Len(order) \in DOMAIN moving /\ m = Len(order) + (m - Len(order))
        BY <1>1, <2>1, <2>4
      <4> QED
        BY <4>1
    <3>2. PICK q \in DOMAIN moving : n = Len(order) + q
      <4>1. n - Len(order) \in DOMAIN moving /\ n = Len(order) + (n - Len(order))
        BY <1>1, <2>1, <2>4
      <4> QED
        BY <4>1
    <3>3. p # q
      <4>1. m # n
        BY <2>1
      <4> QED
        BY <3>1, <3>2, <4>1, Zenon
    <3> QED
      BY <1>8, <3>1, <3>2, <3>3 DEF IInv, StoredOnce
  <2> QED
    BY <2>1, <2>2, <2>3, <2>4
<1> QED
  BY <1>6, <1>7, <1>8, <1>9 DEF EntriesRight

\* In the state before a step and in the one behind it.
LEMMA AllEntriesFacts ==
    /\ IInv => EntriesRight
    /\ IInv' => EntriesRight'
<1>1. IInv => EntriesRight
  BY InvariantListsEntries
<1>2. IInv' => EntriesRight'
  BY InvariantListsEntries, PTL
<1> QED
  BY <1>1, <1>2

\* What the refinement mapping is made of.
LEMMA MappingFacts ==
    /\ StoredKeys = KeysIn(AllEntries)
    /\ \A k : ValueOf(k) = ValueIn(AllEntries, k)
    /\ StoredKeys' = KeysIn(AllEntries')
    /\ \A k : ValueOf(k)' = ValueIn(AllEntries', k)
BY DEF StoredKeys, ValueOf, KeysIn, ValueIn

\* A sequence of entries is determined by its elements.
LEMMA SameEntries ==
    ASSUME NEW a \in Seq(Entries), NEW b \in Seq(Entries), Len(a) = Len(b),
           \A n \in 1 .. Len(a) : a[n] = b[n]
    PROVE  a = b
<1>1. DOMAIN a = 1 .. Len(a) /\ DOMAIN b = 1 .. Len(a)
  BY LenProperties
<1> QED
  BY <1>1

\* The load check of a call, and the array swap of a resize, leave the entries
\* and their order alone.
LEMMA EnterKeepsEntries ==
    ASSUME IInv, IInv', NEW fn \in Functions, NEW p \in Ptrs, NEW v \in Vals, Enter(fn, p, v)
    PROVE  AllEntries' = AllEntries
<1>1. moving = <<>> /\ Len(moving) = 0
  BY DEF IInv, LoadBound, Enter
<1>2. CASE UNCHANGED <<capacity, buckets, order, moving>>
  BY <1>2 DEF AllEntries
<1>3. CASE BeginResize
  <2>1. /\ order \in Seq(Slots) /\ DOMAIN order = 1 .. Len(order) /\ Len(order) \in Nat
    BY LenProperties DEF IInv, TypeOK
  <2>2. order' = <<>> /\ Len(order') = 0 /\ moving' = [n \in DOMAIN order |-> buckets[order[n]]]
    BY <1>3 DEF BeginResize
  <2>3. Len(moving') = Len(order) /\ DOMAIN moving' = 1 .. Len(order)
    <3>1. moving' \in Seq(Entries)
      BY DEF IInv, TypeOK
    <3>2. DOMAIN moving' = 1 .. Len(order)
      BY <2>1, <2>2
    <3> QED
      BY <2>1, <3>1, <3>2, LenProperties
  <2>4. \A n \in 1 .. Len(order) : AllEntries'[n] = AllEntries[n]
    <3> TAKE n \in 1 .. Len(order)
    <3>1. AllEntries[n] = buckets[order[n]]
      BY <2>1, AllEntriesFacts DEF EntriesRight
    <3>2. \A m \in DOMAIN moving' : AllEntries'[Len(order') + m] = moving'[m]
      BY AllEntriesFacts DEF EntriesRight
    <3>3. Len(order') + n = n /\ n \in DOMAIN moving' /\ moving'[n] = buckets[order[n]]
      BY <2>1, <2>2, <2>3
    <3> QED
      BY <3>1, <3>2, <3>3
  <2>5. /\ AllEntries \in Seq(Entries) /\ Len(AllEntries) = Len(order)
        /\ AllEntries' \in Seq(Entries) /\ Len(AllEntries') = Len(order)
    <3>1. /\ AllEntries' \in Seq(Entries)
          /\ Len(AllEntries') = Len(order') + Len(moving')
      BY AllEntriesFacts DEF EntriesRight
    <3> QED
      BY <1>1, <2>1, <2>2, <2>3, <3>1, AllEntriesFacts DEF EntriesRight
  <2> QED
    BY <2>4, <2>5, SameEntries
<1> QED
  BY <1>2, <1>3 DEF Enter

\* A turn of the loop of a resize does not, either.
LEMMA ResizeKeepsEntries ==
    ASSUME IInv, IInv', hashmap_resize
    PROVE  AllEntries' = AllEntries
<1>1. PICK i \in Slots : /\ ~ Occupied(i)
                         /\ buckets' = [buckets EXCEPT ![i] = Head(moving)]
                         /\ order' = Append(order, i)
  BY DEF hashmap_resize, resize_entry
<1>2. /\ order \in Seq(Slots) /\ DOMAIN order = 1 .. Len(order) /\ Len(order) \in Nat
      /\ order' = Append(order, i) /\ Len(order') = Len(order) + 1
      /\ DOMAIN order' = 1 .. Len(order) + 1
      /\ \A n \in 1 .. Len(order) : order'[n] = order[n]
      /\ order'[Len(order) + 1] = i
  BY <1>1, LenProperties, AppendProperties DEF IInv, TypeOK
<1>3. /\ moving \in Seq(Entries) /\ moving # <<>> /\ Len(moving) \in Nat \ {0}
      /\ moving' = Tail(moving) /\ Len(moving') = Len(moving) - 1
      /\ DOMAIN moving = 1 .. Len(moving) /\ DOMAIN moving' = 1 .. Len(moving) - 1
      /\ Head(moving) = moving[1]
      /\ \A m \in 1 .. Len(moving) - 1 : moving'[m] = moving[m + 1]
  BY LenProperties, EmptySeq, HeadTailProperties DEF hashmap_resize, IInv, TypeOK
<1>4. /\ buckets'[i] = moving[1]
      /\ \A n \in DOMAIN order : buckets'[order[n]] = buckets[order[n]]
  <2>1. buckets \in [Slots -> Entries \cup {EmptyEntry}] /\ \A n \in DOMAIN order : order[n] \in Slots
    BY <1>2 DEF IInv, TypeOK
  <2>2. \A n \in DOMAIN order : order[n] # i
    BY <1>1, <2>1 DEF IInv, ListExact
  <2> QED
    BY <1>1, <1>3, <2>1, <2>2
<1>5. /\ AllEntries \in Seq(Entries) /\ Len(AllEntries) = Len(order) + Len(moving)
      /\ \A n \in DOMAIN order : AllEntries[n] = buckets[order[n]]
      /\ \A n \in DOMAIN moving : AllEntries[Len(order) + n] = moving[n]
  BY AllEntriesFacts DEF EntriesRight
<1>6. /\ AllEntries' \in Seq(Entries) /\ Len(AllEntries') = Len(order') + Len(moving')
      /\ \A n \in DOMAIN order' : AllEntries'[n] = buckets'[order'[n]]
      /\ \A n \in DOMAIN moving' : AllEntries'[Len(order') + n] = moving'[n]
  BY AllEntriesFacts DEF EntriesRight
<1>7. ASSUME NEW n \in 1 .. Len(order) + Len(moving)
      PROVE  AllEntries'[n] = AllEntries[n]
  <2>1. CASE n <= Len(order)
    <3>1. n \in DOMAIN order /\ n \in DOMAIN order' /\ order'[n] = order[n]
      BY <1>2, <2>1
    <3> QED
      BY <1>4, <1>5, <1>6, <3>1
  <2>2. CASE n = Len(order) + 1
    <3>1. n \in DOMAIN order' /\ order'[n] = i /\ 1 \in DOMAIN moving
      BY <1>2, <1>3, <2>2
    <3> QED
      BY <1>4, <1>5, <1>6, <2>2, <3>1
  <2>3. CASE n > Len(order) + 1
    <3>1. PICK m \in 1 .. Len(moving) - 1 : n = Len(order) + 1 + m
      <4>1. n - (Len(order) + 1) \in 1 .. Len(moving) - 1
            /\ n = Len(order) + 1 + (n - (Len(order) + 1))
        BY <1>2, <1>3, <2>3
      <4> QED
        BY <4>1
    <3>2. n = Len(order') + m /\ n = Len(order) + (m + 1) /\ m \in DOMAIN moving'
          /\ m + 1 \in DOMAIN moving
      BY <1>2, <1>3, <3>1
    <3> QED
      BY <1>3, <1>5, <1>6, <3>1, <3>2
  <2> QED
    BY <1>2, <2>1, <2>2, <2>3
<1>8. Len(AllEntries') = Len(AllEntries) /\ Len(AllEntries) = Len(order) + Len(moving)
  BY <1>2, <1>3, <1>5, <1>6
<1> QED
  BY <1>5, <1>6, <1>7, <1>8, SameEntries

\* Where a call's lookup ends: at the entry of its key, or, if there is none, at
\* an empty bucket.
LEMMA LookupFacts ==
    ASSUME IInv, NEW fn \in Functions, NEW i \in Slots, Return(fn, i), NEW k, k = KeyOf[call.ptr]
    PROVE  /\ k \in Keys
           /\ DOMAIN AllEntries = DOMAIN order /\ Len(AllEntries) = Len(order)
           /\ Occupied(i) => \E n \in DOMAIN order :
                /\ order[n] = i /\ AllEntries[n] = buckets[i] /\ KeyOf[AllEntries[n].ptr] = k
                /\ \A m \in DOMAIN order : order[m] = i => m = n
           /\ ~ Occupied(i) => /\ buckets[i].value = NULL
                               /\ \A n \in DOMAIN AllEntries : KeyOf[AllEntries[n].ptr] # k
<1>1. /\ moving = <<>> /\ Len(moving) = 0 /\ k \in Keys /\ find_entry(k, i)
      /\ order \in Seq(Slots) /\ Len(order) \in Nat /\ DOMAIN order = 1 .. Len(order)
  BY ReturnFacts, LenProperties DEF IInv, TypeOK
<1>2. /\ AllEntries \in Seq(Entries) /\ Len(AllEntries) = Len(order)
      /\ \A n \in DOMAIN order : AllEntries[n] = buckets[order[n]]
  BY <1>1, AllEntriesFacts DEF EntriesRight
<1>3. DOMAIN AllEntries = DOMAIN order
  BY <1>1, <1>2, LenProperties
<1>4. ASSUME Occupied(i)
      PROVE  \E n \in DOMAIN order :
                /\ order[n] = i /\ AllEntries[n] = buckets[i] /\ KeyOf[AllEntries[n].ptr] = k
                /\ \A m \in DOMAIN order : order[m] = i => m = n
  <2>1. PICK n \in DOMAIN order : order[n] = i
    BY <1>4 DEF IInv, ListExact
  <2>2. KeyOf[buckets[i].ptr] = k
    BY <1>1, <1>4 DEF find_entry, Holds
  <2>3. \A m \in DOMAIN order : order[m] = i => m = n
    BY <2>1 DEF IInv, ListExact
  <2> QED
    BY <1>2, <2>1, <2>2, <2>3
<1>5. ASSUME ~ Occupied(i)
      PROVE  /\ buckets[i].value = NULL
             /\ \A n \in DOMAIN AllEntries : KeyOf[AllEntries[n].ptr] # k
  <2>1. buckets[i].value = NULL
    BY <1>5 DEF IInv, TypeOK, Occupied, Entries, EmptyEntry
  <2>2. \A j \in Slots : ~ Holds(j, k)
    BY <1>1, <1>5, EmptyMeansAbsent DEF IInv
  <2>3. \A n \in DOMAIN order : order[n] \in Slots /\ Occupied(order[n])
    BY <1>1 DEF IInv, ListExact
  <2> QED
    BY <1>2, <1>3, <2>1, <2>2, <2>3 DEF Holds
<1> QED
  BY <1>1, <1>2, <1>3, <1>4, <1>5

\* What the dictionary says of the key of a call.
LEMMA PresentFacts ==
    ASSUME IInv, NEW fn \in Functions, NEW i \in Slots, Return(fn, i), NEW k, k = KeyOf[call.ptr]
    PROVE  /\ k \in Keys
           /\ Occupied(i) => ValueOf(k) = buckets[i].value /\ buckets[i].value \in Vals
           /\ ~ Occupied(i) => ValueOf(k) = NULL /\ buckets[i].value = NULL
           /\ Dict!Present(k) <=> Occupied(i)
<1>1. AllEntries \in Seq(Entries) /\ OneEach(AllEntries)
  BY AllEntriesFacts DEF EntriesRight
<1>2. k \in Keys
  BY LookupFacts
<1>3. ASSUME Occupied(i)
      PROVE  ValueOf(k) = buckets[i].value /\ buckets[i].value \in Vals
  <2>1. PICK n \in DOMAIN AllEntries :
            AllEntries[n] = buckets[i] /\ KeyOf[AllEntries[n].ptr] = k
    BY <1>3, LookupFacts
  <2> QED
    BY <1>1, <2>1, EntryFacts, MappingFacts
<1>4. ASSUME ~ Occupied(i)
      PROVE  ValueOf(k) = NULL /\ buckets[i].value = NULL
  <2>1. buckets[i].value = NULL /\ \A n \in DOMAIN AllEntries : KeyOf[AllEntries[n].ptr] # k
    BY <1>4, LookupFacts
  <2>2. ValueIn(AllEntries, k) = NULL
    BY <1>1, <2>1, EntryFacts
  <2> QED
    BY <2>1, <2>2, MappingFacts
<1>5. Dict!Present(k) <=> ValueOf(k) # NULL
  BY <1>2 DEF Dict!Present
<1> QED
  BY <1>2, <1>3, <1>4, <1>5

\* A call that adds an entry adds its key to the dictionary.
LEMMA AddStores ==
    ASSUME IInv, IInv', NEW fn \in Functions, NEW i \in Slots, Return(fn, i),
           ~ Occupied(i), AddEntry(i)
    PROVE  Dict!Store(KeyOf[call.ptr], call.val)
<1> DEFINE x == [ptr |-> call.ptr, value |-> call.val]
<1>1. PICK k : k = KeyOf[call.ptr]
  OBVIOUS
<1>2. /\ moving = <<>> /\ moving' = <<>> /\ Len(moving) = 0 /\ Len(moving') = 0
      /\ order \in Seq(Slots) /\ DOMAIN order = 1 .. Len(order) /\ Len(order) \in Nat
      /\ order' = Append(order, i) /\ Len(order') = Len(order) + 1
      /\ DOMAIN order' = 1 .. Len(order) + 1
      /\ \A n \in 1 .. Len(order) : order'[n] = order[n] /\ order[n] \in Slots /\ order[n] # i
      /\ order'[Len(order) + 1] = i
  <2>1. order \in Seq(Slots) /\ DOMAIN order = 1 .. Len(order) /\ Len(order) \in Nat
    BY LenProperties DEF IInv, TypeOK
  <2>2. order' = Append(order, i)
    BY DEF AddEntry
  <2>3. \A n \in DOMAIN order : order[n] \in Slots /\ order[n] # i
    BY <2>1 DEF IInv, ListExact
  <2>4. moving = <<>> /\ moving' = <<>>
    BY ReturnFacts
  <2> QED
    BY <2>1, <2>2, <2>3, <2>4, AppendProperties
<1>3. /\ buckets'[i] = x /\ x.ptr = call.ptr /\ x.value = call.val
      /\ \A n \in 1 .. Len(order) : buckets'[order[n]] = buckets[order[n]]
  BY <1>2 DEF AddEntry, IInv, TypeOK
<1>4. /\ AllEntries \in Seq(Entries) /\ OneEach(AllEntries)
      /\ Len(AllEntries) = Len(order) /\ DOMAIN AllEntries = 1 .. Len(order)
      /\ \A n \in DOMAIN order : AllEntries[n] = buckets[order[n]]
  BY <1>2, AllEntriesFacts, LenProperties DEF EntriesRight
<1>5. /\ AllEntries' \in Seq(Entries) /\ OneEach(AllEntries')
      /\ Len(AllEntries') = Len(order) + 1 /\ DOMAIN AllEntries' = 1 .. Len(order) + 1
      /\ \A n \in DOMAIN order' : AllEntries'[n] = buckets'[order'[n]]
  <2>1. /\ AllEntries' \in Seq(Entries) /\ OneEach(AllEntries')
        /\ Len(AllEntries') = Len(order') + Len(moving')
        /\ \A n \in DOMAIN order' : AllEntries'[n] = buckets'[order'[n]]
    BY AllEntriesFacts DEF EntriesRight
  <2> QED
    BY <1>2, <2>1, LenProperties
<1>6. /\ \A n \in 1 .. Len(order) : AllEntries'[n] = AllEntries[n]
      /\ AllEntries'[Len(order) + 1] = x
  <2>1. \A n \in 1 .. Len(order) : AllEntries[n] = buckets[order[n]]
    BY <1>2, <1>4
  <2>2. \A n \in 1 .. Len(order) + 1 : AllEntries'[n] = buckets'[order'[n]]
    BY <1>2, <1>5
  <2>3. \A n \in 1 .. Len(order) : n \in 1 .. Len(order) + 1
    BY <1>2
  <2>4. Len(order) + 1 \in 1 .. Len(order) + 1
    BY <1>2
  <2>5. AllEntries'[Len(order) + 1] = buckets'[i]
    BY <1>2, <2>2, <2>4
  <2>6. ASSUME NEW n \in 1 .. Len(order)
        PROVE  AllEntries'[n] = AllEntries[n]
    <3>1. order'[n] = order[n]
      BY <1>2
    <3>2. buckets'[order[n]] = buckets[order[n]]
      BY <1>3
    <3> QED
      BY <2>1, <2>2, <2>3, <3>1, <3>2
  <2> QED
    BY <1>3, <2>5, <2>6
<1> HIDE DEF x
<1>7. \A q : ValueOf(q)' = IF q = k THEN call.val ELSE ValueOf(q)
  <2> TAKE q
  <2>1. ValueOf(q)' = ValueIn(AllEntries', q) /\ ValueOf(q) = ValueIn(AllEntries, q)
    BY MappingFacts
  <2>2. CASE q = k
    <3>1. Len(order) + 1 \in DOMAIN AllEntries'
      BY <1>2, <1>5
    <3>2. ValueIn(AllEntries', KeyOf[AllEntries'[Len(order) + 1].ptr])
            = AllEntries'[Len(order) + 1].value
      BY <1>5, <3>1, EntryFacts
    <3> QED
      BY <1>1, <1>3, <1>6, <2>1, <2>2, <3>2
  <2>3. CASE q # k /\ \E n \in DOMAIN AllEntries : KeyOf[AllEntries[n].ptr] = q
    <3>1. PICK n \in DOMAIN AllEntries : KeyOf[AllEntries[n].ptr] = q
      BY <2>3
    <3>2. n \in DOMAIN AllEntries' /\ AllEntries'[n] = AllEntries[n]
      BY <1>2, <1>4, <1>5, <1>6, <3>1
    <3>3. ValueIn(AllEntries', q) = AllEntries'[n].value
      BY <1>5, <3>1, <3>2, EntryFacts
    <3>4. ValueIn(AllEntries, q) = AllEntries[n].value
      BY <1>4, <3>1, EntryFacts
    <3> QED
      BY <2>1, <2>3, <3>2, <3>3, <3>4
  <2>4. CASE q # k /\ \A n \in DOMAIN AllEntries : KeyOf[AllEntries[n].ptr] # q
    <3>1. \A n \in DOMAIN AllEntries' : KeyOf[AllEntries'[n].ptr] # q
      <4> TAKE n \in DOMAIN AllEntries'
      <4>1. n \in DOMAIN AllEntries \/ n = Len(order) + 1
        BY <1>2, <1>4, <1>5
      <4> QED
        BY <1>1, <1>3, <1>4, <1>6, <2>4, <4>1
    <3>2. ValueIn(AllEntries', q) = NULL
      BY <1>5, <3>1, EntryFacts
    <3>3. ValueIn(AllEntries, q) = NULL
      BY <1>4, <2>4, EntryFacts
    <3> QED
      BY <2>1, <2>4, <3>2, <3>3
  <2> QED
    BY <2>2, <2>3, <2>4
<1>8. StoredKeys' = Append(StoredKeys, k)
  <2>1. StoredKeys' = KeysIn(AllEntries') /\ StoredKeys = KeysIn(AllEntries)
    BY MappingFacts
  <2>2. /\ KeysIn(AllEntries) \in Seq(Keys) /\ Len(KeysIn(AllEntries)) = Len(order)
        /\ \A n \in 1 .. Len(order) : KeysIn(AllEntries)[n] = KeyOf[AllEntries[n].ptr]
    BY <1>4, EntryFacts
  <2>3. /\ KeysIn(AllEntries') \in Seq(Keys) /\ Len(KeysIn(AllEntries')) = Len(order) + 1
        /\ \A n \in 1 .. Len(order) + 1 : KeysIn(AllEntries')[n] = KeyOf[AllEntries'[n].ptr]
    BY <1>5, EntryFacts
  <2>4. k \in Keys
    BY <1>1, LookupFacts
  <2>5. PICK a, b : a = KeysIn(AllEntries) /\ b = KeysIn(AllEntries')
    OBVIOUS
  <2>6. /\ Append(a, k) \in Seq(Keys) /\ Len(Append(a, k)) = Len(order) + 1
        /\ \A n \in 1 .. Len(order) : Append(a, k)[n] = a[n]
        /\ Append(a, k)[Len(order) + 1] = k
    <3>1. a \in Seq(Keys) /\ Len(a) = Len(order)
      BY <2>2, <2>5
    <3>2. /\ Append(a, k) \in Seq(Keys) /\ Len(Append(a, k)) = Len(a) + 1
          /\ \A n \in 1 .. Len(a) : Append(a, k)[n] = a[n]
          /\ Append(a, k)[Len(a) + 1] = k
      BY <2>4, <3>1, AppendProperties
    <3> QED
      BY <3>1, <3>2
  <2>7. \A n \in 1 .. Len(order) : b[n] = a[n]
    <3> TAKE n \in 1 .. Len(order)
    <3>1. n \in 1 .. Len(order) + 1
      BY <1>2
    <3>2. b[n] = KeyOf[AllEntries'[n].ptr]
      BY <2>3, <2>5, <3>1
    <3>3. a[n] = KeyOf[AllEntries[n].ptr]
      BY <2>2, <2>5
    <3>4. AllEntries'[n] = AllEntries[n]
      BY <1>6
    <3> QED
      BY <3>2, <3>3, <3>4
  <2>8. b[Len(order) + 1] = k
    BY <1>1, <1>2, <1>3, <1>6, <2>3, <2>5
  <2>9. \A n \in 1 .. Len(order) + 1 : b[n] = Append(a, k)[n]
    BY <1>2, <2>6, <2>7, <2>8
  <2>10. DOMAIN b = 1 .. Len(order) + 1 /\ DOMAIN Append(a, k) = 1 .. Len(order) + 1
    BY <2>3, <2>5, <2>6, LenProperties
  <2>11. b = Append(a, k)
    BY <2>3, <2>5, <2>6, <2>9, <2>10
  <2> QED
    BY <2>1, <2>5, <2>11
<1>9. ~ Dict!Present(k)
  BY <1>1, PresentFacts
<1> QED
  BY <1>1, <1>7, <1>8, <1>9 DEF Dict!Store

\* A call that overwrites an entry changes the value of its key.
LEMMA OverwriteStores ==
    ASSUME IInv, IInv', NEW fn \in Functions, NEW i \in Slots, Return(fn, i),
           Occupied(i), NEW x, buckets' = [buckets EXCEPT ![i] = x],
           KeyOf[x.ptr] = KeyOf[call.ptr], x.value = call.val, order' = order
    PROVE  Dict!Store(KeyOf[call.ptr], call.val)
<1>1. PICK k : k = KeyOf[call.ptr]
  OBVIOUS
<1>2. PICK l \in DOMAIN order :
        /\ order[l] = i /\ KeyOf[AllEntries[l].ptr] = k
        /\ \A m \in DOMAIN order : order[m] = i => m = l
  BY <1>1, LookupFacts
<1>3. /\ moving = <<>> /\ moving' = <<>> /\ Len(moving) = 0 /\ Len(moving') = 0
      /\ DOMAIN order = 1 .. Len(order) /\ Len(order) \in Nat
      /\ \A n \in DOMAIN order : order[n] \in Slots
  <2>1. order \in Seq(Slots)
    BY DEF IInv, TypeOK
  <2> QED
    BY <2>1, ReturnFacts, LenProperties
<1>4. /\ AllEntries \in Seq(Entries) /\ OneEach(AllEntries)
      /\ Len(AllEntries) = Len(order) /\ DOMAIN AllEntries = 1 .. Len(order)
      /\ \A n \in DOMAIN order : AllEntries[n] = buckets[order[n]]
  BY <1>3, AllEntriesFacts, LenProperties DEF EntriesRight
<1>5. /\ AllEntries' \in Seq(Entries) /\ OneEach(AllEntries')
      /\ Len(AllEntries') = Len(order) /\ DOMAIN AllEntries' = 1 .. Len(order)
      /\ \A n \in DOMAIN order : AllEntries'[n] = buckets'[order[n]]
  <2>1. /\ AllEntries' \in Seq(Entries) /\ OneEach(AllEntries')
        /\ Len(AllEntries') = Len(order') + Len(moving')
        /\ \A n \in DOMAIN order' : AllEntries'[n] = buckets'[order'[n]]
    BY AllEntriesFacts DEF EntriesRight
  <2> QED
    BY <1>3, <2>1, LenProperties
<1>6. \A n \in DOMAIN order : AllEntries'[n] = IF n = l THEN x ELSE AllEntries[n]
  <2>1. \A j \in Slots : buckets'[j] = IF j = i THEN x ELSE buckets[j]
    BY DEF IInv, TypeOK
  <2> QED
    BY <1>2, <1>3, <1>4, <1>5, <2>1
<1>7. \A n \in DOMAIN order : KeyOf[AllEntries'[n].ptr] = KeyOf[AllEntries[n].ptr]
  BY <1>1, <1>2, <1>6
<1>8. \A q : ValueOf(q)' = IF q = k THEN call.val ELSE ValueOf(q)
  <2> TAKE q
  <2>1. ValueOf(q)' = ValueIn(AllEntries', q) /\ ValueOf(q) = ValueIn(AllEntries, q)
    BY MappingFacts
  <2>2. CASE \E n \in DOMAIN AllEntries : KeyOf[AllEntries[n].ptr] = q
    <3>1. PICK n \in DOMAIN AllEntries : KeyOf[AllEntries[n].ptr] = q
      BY <2>2
    <3>2. n \in DOMAIN order /\ n \in DOMAIN AllEntries' /\ KeyOf[AllEntries'[n].ptr] = q
      BY <1>3, <1>4, <1>5, <1>7, <3>1
    <3>3. ValueIn(AllEntries', q) = AllEntries'[n].value
      BY <1>5, <3>2, EntryFacts
    <3>4. ValueIn(AllEntries, q) = AllEntries[n].value
      BY <1>4, <3>1, EntryFacts
    <3>5. q = k <=> n = l
      BY <1>2, <1>3, <1>4, <3>1 DEF OneEach
    <3> QED
      BY <1>6, <2>1, <3>2, <3>3, <3>4, <3>5
  <2>3. CASE \A n \in DOMAIN AllEntries : KeyOf[AllEntries[n].ptr] # q
    <3>1. \A n \in DOMAIN AllEntries' : KeyOf[AllEntries'[n].ptr] # q
      BY <1>3, <1>4, <1>5, <1>7, <2>3
    <3>2. ValueIn(AllEntries', q) = NULL
      BY <1>5, <3>1, EntryFacts
    <3>3. ValueIn(AllEntries, q) = NULL
      BY <1>4, <2>3, EntryFacts
    <3>4. q # k
      BY <1>2, <1>3, <1>4, <2>3
    <3> QED
      BY <2>1, <3>2, <3>3, <3>4
  <2> QED
    BY <2>2, <2>3
<1>9. StoredKeys' = StoredKeys
  BY <1>3, <1>4, <1>5, <1>7 DEF StoredKeys
<1>10. Dict!Present(k)
  BY <1>1, PresentFacts
<1> QED
  BY <1>1, <1>8, <1>9, <1>10 DEF Dict!Store

\* What leaves the entries alone leaves the dictionary alone.
LEMMA SameDictionary ==
    ASSUME AllEntries' = AllEntries
    PROVE  UNCHANGED <<[k \in Keys |-> ValueOf(k)], StoredKeys>>
BY DEF StoredKeys, ValueOf

\* Every step of the table is a step of the dictionary, or none that a caller
\* can see.
LEMMA StepsImplement ==
    ASSUME IInv, IInv', [Next]_vars
    PROVE  [Dict!Next]_(Dict!vars)
<1> USE DEF Functions
<1>1. ASSUME NEW fn \in Functions, NEW p \in Ptrs, NEW v \in Vals, Enter(fn, p, v)
      PROVE  UNCHANGED Dict!vars
  BY <1>1, EnterKeepsEntries, SameDictionary DEF Enter, Dict!vars
<1>2. ASSUME hashmap_resize
      PROVE  UNCHANGED Dict!vars
  BY <1>2, ResizeKeepsEntries, SameDictionary DEF hashmap_resize, Dict!vars
<1>3. ASSUME NEW fn \in Functions, NEW i \in Slots, Return(fn, i)
      PROVE  /\ call.val \in Vals /\ KeyOf[call.ptr] \in Keys
             /\ buckets[i] \in Entries \/ ~ Occupied(i)
             /\ Occupied(i) => KeyOf[buckets[i].ptr] = KeyOf[call.ptr]
             /\ UNCHANGED <<buckets, order>> => AllEntries' = AllEntries
  <2>1. call.val \in Vals /\ KeyOf[call.ptr] \in Keys /\ UNCHANGED moving
        /\ find_entry(KeyOf[call.ptr], i)
    BY <1>3, ReturnFacts
  <2> QED
    <3>1. buckets[i] \in Entries \/ ~ Occupied(i)
      BY DEF IInv, TypeOK, Occupied, EmptyEntry
    <3>2. Occupied(i) => KeyOf[buckets[i].ptr] = KeyOf[call.ptr]
      BY <2>1 DEF find_entry, Holds
    <3>3. UNCHANGED <<buckets, order>> => AllEntries' = AllEntries
      BY <2>1 DEF AllEntries
    <3> QED
      BY <2>1, <3>1, <3>2, <3>3
<1>4. ASSUME NEW i \in Slots, hashmap_set(i)
      PROVE  Dict!Next
  <2>1. Return("set", i) /\ ret' = ret
    BY <1>4 DEF hashmap_set
  <2>2. CASE ~ Occupied(i) /\ AddEntry(i)
    BY <1>3, <2>1, <2>2, AddStores DEF Dict!Next, Dict!Put
  <2>3. CASE Occupied(i) /\ buckets' = [buckets EXCEPT ![i].value = call.val] /\ order' = order
    <3>1. PICK x : x = [buckets[i] EXCEPT !.value = call.val]
      OBVIOUS
    <3>2. x.ptr = buckets[i].ptr /\ x.value = call.val
      BY <1>3, <2>1, <2>3, <3>1 DEF Entries
    <3>3. buckets' = [buckets EXCEPT ![i] = x]
      BY <2>3, <3>1
    <3>4. KeyOf[x.ptr] = KeyOf[call.ptr]
      BY <1>3, <2>1, <2>3, <3>2
    <3> QED
      BY <1>3, <2>1, <2>3, <3>2, <3>3, <3>4, OverwriteStores DEF Dict!Next, Dict!Put
  <2> QED
    BY <1>4, <2>2, <2>3 DEF hashmap_set
<1>5. ASSUME NEW i \in Slots, hashmap_set_free(i)
      PROVE  Dict!Next
  <2>1. Return("set_free", i) /\ ret' = ret
    BY <1>5 DEF hashmap_set_free
  <2>2. CASE ~ Occupied(i) /\ AddEntry(i)
    BY <1>3, <2>1, <2>2, AddStores DEF Dict!Next, Dict!Put
  <2>3. CASE Occupied(i) /\ buckets' = [buckets EXCEPT ![i] = [ptr |-> call.ptr, value |-> call.val]]
             /\ order' = order
    <3>1. PICK x : x = [ptr |-> call.ptr, value |-> call.val]
      OBVIOUS
    <3>2. x.ptr = call.ptr /\ x.value = call.val /\ buckets' = [buckets EXCEPT ![i] = x]
      BY <2>3, <3>1
    <3> QED
      BY <1>3, <2>1, <2>3, <3>2, OverwriteStores DEF Dict!Next, Dict!Put
  <2> QED
    BY <1>5, <2>2, <2>3 DEF hashmap_set_free
<1>6. ASSUME NEW i \in Slots, hashmap_get_set(i)
      PROVE  Dict!Next
  <2>1. Return("get_set", i)
    BY <1>6 DEF hashmap_get_set
  <2>2. CASE ~ Occupied(i) /\ AddEntry(i) /\ ret' = [found |-> FALSE, val |-> call.val]
    <3>1. ~ Dict!Present(KeyOf[call.ptr])
      BY <2>1, <2>2, PresentFacts
    <3> QED
      BY <1>3, <2>1, <2>2, <3>1, AddStores DEF Dict!Next, Dict!GetOrPut
  <2>3. CASE /\ Occupied(i) /\ ret' = [found |-> TRUE, val |-> buckets[i].value]
             /\ UNCHANGED <<buckets, order>>
    <3>1. Dict!Present(KeyOf[call.ptr]) /\ ValueOf(KeyOf[call.ptr]) = buckets[i].value
      BY <2>1, <2>3, PresentFacts
    <3>2. UNCHANGED <<[k \in Keys |-> ValueOf(k)], StoredKeys>>
      BY <1>3, <2>1, <2>3, SameDictionary
    <3>3. Dict!Present(KeyOf[call.ptr]) = TRUE
      BY <3>1 DEF Dict!Present
    <3>4. Dict!Get(KeyOf[call.ptr])
      BY <1>3, <2>1, <2>3, <3>1, <3>2, <3>3 DEF Dict!Get
    <3> QED
      BY <1>3, <2>1, <3>4 DEF Dict!Next
  <2> QED
    BY <1>6, <2>2, <2>3 DEF hashmap_get_set
<1>7. ASSUME NEW i \in Slots, hashmap_get(i)
      PROVE  Dict!Next
  <2>1. /\ Return("get", i) /\ ret' = [found |-> Occupied(i), val |-> buckets[i].value]
        /\ UNCHANGED <<buckets, order>>
    BY <1>7 DEF hashmap_get
  <2>2. /\ Dict!Present(KeyOf[call.ptr]) <=> Occupied(i)
        /\ ValueOf(KeyOf[call.ptr]) = buckets[i].value
    BY <2>1, PresentFacts
  <2>3. Dict!Present(KeyOf[call.ptr]) = Occupied(i)
    BY <2>2, Zenon DEF Dict!Present, Occupied
  <2>4. UNCHANGED <<[k \in Keys |-> ValueOf(k)], StoredKeys>>
    BY <1>3, <2>1, SameDictionary
  <2>5. Dict!Get(KeyOf[call.ptr])
    BY <1>3, <2>1, <2>2, <2>3, <2>4 DEF Dict!Get
  <2> QED
    BY <1>3, <2>1, <2>5 DEF Dict!Next
<1>8. CASE UNCHANGED vars
  BY <1>8, SameDictionary DEF vars, AllEntries, Dict!vars
<1> QED
  BY <1>1, <1>2, <1>4, <1>5, <1>6, <1>7, <1>8 DEF Next, Step

\* The hash table implements the ordered dictionary of map.h: collisions,
\* resizes and key pointers are not visible to a caller.
THEOREM ImplementsOrderedDict == Spec => ImplementsDict
<1>1. Init => Dict!Init
  <2> SUFFICES ASSUME Init
               PROVE  Dict!Init
    OBVIOUS
  <2>1. IInv /\ order = <<>> /\ moving = <<>> /\ ret = [found |-> FALSE, val |-> NULL]
    BY InitIInv DEF Init, hashmap_create
  <2>2. AllEntries \in Seq(Entries) /\ OneEach(AllEntries) /\ Len(AllEntries) = 0
    BY <2>1, AllEntriesFacts DEF EntriesRight
  <2>3. DOMAIN AllEntries = {}
    BY <2>2, LenProperties
  <2>4. \A k : ValueOf(k) = NULL
    BY <2>2, <2>3, EntryFacts, MappingFacts
  <2>5. StoredKeys = <<>>
    BY <2>2, EntryFacts, MappingFacts, EmptySeq
  <2> QED
    BY <2>1, <2>4, <2>5 DEF Dict!Init
<1> QED
  BY <1>1, SpecIInv, StepsImplement, PTL DEF Spec, ImplementsDict, Dict!Spec

----------------------------------------------------------------------------
(* How long a call takes. *)

\* The entries that a resize still has to move, and the lookup.
StepsLeft == IF pc = "idle" THEN 0 ELSE Len(moving) + 1

\* What a running call needs to go on: an old entry to move and a bucket for
\* it, or a bucket at which its lookup ends.
CanGoOn ==
    /\ pc = "resize" =>
        moving # <<>> /\ \E i \in Slots : resize_entry(KeyOf[Head(moving).ptr], i)
    /\ pc = "lookup" => \E i \in Slots : find_entry(KeyOf[call.ptr], i)

LEMMA BucketsAreThere ==
    ASSUME IInv
    PROVE  CanGoOn
<1>1. ProbingEnds
  BY ProbesStop DEF IInv
<1>2. CASE pc = "resize"
  <2>1. moving # <<>> /\ moving \in Seq(Entries)
    BY <1>2 DEF IInv, LoadBound, TypeOK
  <2>2. Head(moving) \in Entries
    BY <2>1, HeadTailProperties
  <2>3. KeyOf[Head(moving).ptr] \in Keys
    BY <2>2 DEF Entries
  <2> QED
    BY <1>1, <1>2, <2>1, <2>3 DEF CanGoOn, ProbingEnds
<1>3. CASE pc = "lookup"
  <2>1. call \in Calls
    BY <1>3 DEF IInv, TypeOK
  <2>2. KeyOf[call.ptr] \in Keys
    BY <2>1 DEF Calls
  <2> QED
    BY <1>1, <1>3, <2>2 DEF CanGoOn, ProbingEnds
<1> QED
  BY <1>2, <1>3 DEF CanGoOn

\* A running call is never without the bucket its next step needs: no loop of
\* it finds the table full (map.c:47, 145).
THEOREM CallsCanGoOn == Spec => []CanGoOn
<1>1. IInv => CanGoOn
  BY BucketsAreThere
<1> QED
  BY <1>1, SpecIInv, PTL

\* A call with a map of count entries returns after at most count + 1 steps,
\* each of which takes it nearer.
CallsAdvance ==
    [][/\ Step => StepsLeft = StepsLeft' + 1
       /\ pc = "idle" => StepsLeft' <= count + 1]_vars

LEMMA StepAdvances ==
    ASSUME IInv, Step
    PROVE  StepsLeft = StepsLeft' + 1
<1>1. moving \in Seq(Entries) /\ Len(moving) \in Nat
  <2>1. moving \in Seq(Entries)
    BY DEF IInv, TypeOK
  <2> QED
    BY <2>1, LenProperties
<1>2. CASE hashmap_resize
  <2>1. /\ pc = "resize" /\ moving # <<>> /\ moving' = Tail(moving)
        /\ pc' \in {"resize", "lookup"}
    BY <1>2 DEF hashmap_resize
  <2>2. Len(Tail(moving)) = Len(moving) - 1
    BY <1>1, <2>1, HeadTailProperties
  <2> QED
    BY <1>1, <2>1, <2>2 DEF StepsLeft
<1>3. ASSUME NEW fn, NEW i \in Slots, Return(fn, i)
      PROVE  StepsLeft = StepsLeft' + 1
  <2>1. pc = "lookup" /\ pc' = "idle"
    BY <1>3 DEF Return
  <2>2. moving = <<>>
    BY <2>1 DEF IInv, LoadBound
  <2>3. Len(moving) = 0
    BY <2>2
  <2> QED
    BY <2>1, <2>3 DEF StepsLeft
<1>4. ASSUME NEW i \in Slots,
             hashmap_set(i) \/ hashmap_set_free(i) \/ hashmap_get_set(i) \/ hashmap_get(i)
      PROVE  \E fn : Return(fn, i)
  BY <1>4 DEF hashmap_set, hashmap_set_free, hashmap_get_set, hashmap_get
<1> QED
  BY <1>2, <1>3, <1>4 DEF Step

LEMMA CallSteps ==
    ASSUME IInv, [Next]_vars, pc = "idle"
    PROVE  StepsLeft' <= count + 1
<1>1. /\ count \in Nat /\ count = Len(order) + Len(moving)
      /\ order \in Seq(Slots) /\ moving = <<>>
  BY DEF IInv, TypeOK, ListExact, LoadBound
<1>2. Len(order) = count /\ Len(moving) = 0
  <2>1. Len(moving) = 0 /\ Len(order) \in Nat
    BY <1>1, LenProperties
  <2> QED
    BY <1>1, <2>1
<1>3. CASE pc' = "idle"
  BY <1>1, <1>3 DEF StepsLeft
<1>4. CASE pc' = "lookup" /\ moving' = moving
  BY <1>1, <1>2, <1>4 DEF StepsLeft
<1>5. CASE BeginResize
  <2>1. moving' = [n \in DOMAIN order |-> buckets[order[n]]] /\ pc' = "resize"
    BY <1>5 DEF BeginResize
  <2>2. DOMAIN order = 1 .. count
    BY <1>1, <1>2, LenProperties
  <2>3. moving' = [n \in 1 .. count |-> buckets[order[n]]]
    BY <2>1, <2>2
  <2>4. Len(moving') = count
    BY <1>1, <2>3
  <2> QED
    BY <1>1, <2>1, <2>4 DEF StepsLeft
<1>6. ~Step
  BY DEF Step, hashmap_resize, hashmap_set, hashmap_set_free, hashmap_get_set, hashmap_get, Return
<1>7. ASSUME NEW fn \in Functions, NEW p \in Ptrs, NEW v \in Vals, Enter(fn, p, v)
      PROVE  BeginResize \/ (pc' = "lookup" /\ moving' = moving)
  BY <1>7 DEF Enter
<1>8. UNCHANGED vars => pc' = "idle"
  BY DEF vars
<1> QED
  BY <1>3, <1>4, <1>5, <1>6, <1>7, <1>8 DEF Next

\* The calls of map.c come to their end: no step of one is a step back, however
\* many keys share a bucket and wherever in a call the map is resized.
THEOREM CallsTakeSteps == Spec => CallsAdvance
<1>1. IInv /\ [Next]_vars =>
          [/\ Step => StepsLeft = StepsLeft' + 1
           /\ pc = "idle" => StepsLeft' <= count + 1]_vars
  BY StepAdvances, CallSteps
<1> QED
  BY <1>1, SpecIInv, PTL DEF Spec, CallsAdvance
=============================================================================
