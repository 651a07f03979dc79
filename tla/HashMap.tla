------------------------------ MODULE HashMap ------------------------------
(***************************************************************************)
(* The insertion-ordered hash table of helper/map.c, built as shipped       *)
(* (without __HASHMAP_REMOVABLE) and used without hashmap_sort, which is    *)
(* the subject of HashMapSort.                                              *)
(*                                                                          *)
(* Open addressing with linear probing; an insertion that would push the    *)
(* load above 3/4 first doubles the bucket array and re-inserts the old     *)
(* entries one by one, in list order.  The list threaded through            *)
(* bucket.next from m->first to m->last is the sequence `order` of bucket   *)
(* indices.  A key is a pointer: two pointers may hold the same key data.   *)
(***************************************************************************)
EXTENDS Naturals, Sequences, FiniteSets

CONSTANTS
    Ptrs,           \* key pointers callers pass in
    Keys,           \* the data behind them
    KeyOf,          \* KeyOf[p]: the data pointer p refers to
    Hash,           \* Hash[k]: hash_data of the key data, a 32-bit number
    Vals,           \* stored values
    NULL,           \* the null pointer, and the zeroed value of an empty bucket
    InitCapacity    \* HASHMAP_DEFAULT_CAPACITY

ASSUME KeysAssumption == KeyOf \in [Ptrs -> Keys] /\ Hash \in [Keys -> Nat]

ASSUME NullAssumption == NULL \notin Ptrs /\ NULL \notin Vals

\* With one bucket the first insertion would resize an empty map, which
\* hashmap_resize assumes never happens (map.c:77).
ASSUME CapacityAssumption == InitCapacity \in Nat /\ InitCapacity >= 2

VARIABLES
    capacity,   \* m->capacity
    buckets,    \* m->buckets: [0 .. capacity-1 -> entry]
    order,      \* the linked list, as bucket indices from m->first to m->last
    count,      \* m->count
    pc,         \* "idle" | "resize" | "lookup": where the running call stands
    call,       \* the running call and its arguments, or NoCall
    moving,     \* old entries hashmap_resize has yet to re-insert
    freed,      \* key pointers freed by the callback of hashmap_set_free
    ret         \* what the latest get or get_set handed back

vars == <<capacity, buckets, order, count, pc, call, moving, freed, ret>>

Entries == [ptr : Ptrs, value : Vals]
EmptyEntry == [ptr |-> NULL, value |-> NULL]

Slots == 0 .. capacity - 1
Occupied(i) == buckets[i].ptr # NULL

\* Mutant: entries are compared by hash alone, without the memcmp.
HoldsByHash(i, k) == Occupied(i) /\ Hash[KeyOf[buckets[i].ptr]] = Hash[k]

Holds(i, k) == Occupied(i) /\ KeyOf[buckets[i].ptr] = k

Functions == {"set", "set_free", "get_set", "get"}
Calls == [fn : Functions, ptr : Ptrs, val : Vals]
NoCall == [fn |-> "none", ptr |-> NULL, val |-> NULL]

----------------------------------------------------------------------------
(* Probing. *)

\* The d-th bucket a probe for key k looks at.
Probe(k, d) == ((Hash[k] % capacity) + d) % capacity

\* find_entry: the probe for k stops at bucket i, the first one that is
\* empty or holds k.
find_entry(k, i) ==
    \E d \in Slots :
        /\ Probe(k, d) = i
        /\ ~Occupied(i) \/ Holds(i, k)
        /\ \A e \in 0 .. d - 1 : Occupied(Probe(k, e)) /\ ~Holds(Probe(k, e), k)

\* Mutant: the index is taken modulo the capacity before the resize.
ResizeEntryOldCapacity(k, i) ==
    \E d \in Slots :
        /\ i = ((Hash[k] % (capacity \div 2)) + d) % capacity
        /\ ~Occupied(i)
        /\ \A e \in 0 .. d - 1 : Occupied(((Hash[k] % (capacity \div 2)) + e) % capacity)

\* resize_entry: the first empty bucket on the probe path of k.
resize_entry(k, i) ==
    \E d \in Slots :
        /\ Probe(k, d) = i
        /\ ~Occupied(i)
        /\ \A e \in 0 .. d - 1 : Occupied(Probe(k, e))

\* Mutant: the load is checked without the entry about to be added.
OverloadedLate == 4 * count > 3 * capacity

\* m->count + 1 > HASHMAP_MAX_LOAD * m->capacity
Overloaded == 4 * (count + 1) > 3 * capacity

----------------------------------------------------------------------------
hashmap_create ==
    /\ capacity = InitCapacity
    /\ buckets = [i \in 0 .. InitCapacity - 1 |-> EmptyEntry]
    /\ order = <<>>
    /\ count = 0
    /\ freed = {}

Init ==
    /\ hashmap_create
    /\ pc = "idle"
    /\ call = NoCall
    /\ moving = <<>>
    /\ ret = [found |-> FALSE, val |-> NULL]

\* What a caller may pass: a live pointer, and to hashmap_set_free one that
\* is not already the stored one (its callback would free the new key).
MayPass(fn, p) ==
    /\ p \notin freed
    /\ fn = "set_free" => \A i \in Slots : buckets[i].ptr # p

\* Mutant: the new, larger array is not allocated.
BeginResizeSameArray ==
    /\ capacity' = 2 * capacity
    /\ UNCHANGED buckets
    /\ moving' = [n \in DOMAIN order |-> buckets[order[n]]]
    /\ order' = <<>>
    /\ pc' = "resize"

\* Mutant: m->last is not reset to the imaginary bucket before m->first.
BeginResizeKeepsLast ==
    /\ capacity' = 2 * capacity
    /\ buckets' = [i \in 0 .. 2 * capacity - 1 |-> EmptyEntry]
    /\ moving' = [n \in DOMAIN order |-> buckets[order[n]]]
    /\ UNCHANGED order
    /\ pc' = "resize"

\* The array swap at the head of hashmap_resize.
BeginResize ==
    /\ capacity' = 2 * capacity
    /\ buckets' = [i \in 0 .. 2 * capacity - 1 |-> EmptyEntry]
    /\ moving' = [n \in DOMAIN order |-> buckets[order[n]]]
    /\ order' = <<>>
    /\ pc' = "resize"

\* A function of the API is entered.  Every one but hashmap_get first checks
\* the load, whether or not it is going to add an entry.
Enter(fn, p, v) ==
    /\ pc = "idle"
    /\ MayPass(fn, p)
    /\ call' = [fn |-> fn, ptr |-> p, val |-> v]
    /\ \/ fn # "get" /\ Overloaded /\ BeginResize
       \/ /\ fn = "get" \/ ~Overloaded
          /\ pc' = "lookup"
          /\ UNCHANGED <<capacity, buckets, order, moving>>
    /\ UNCHANGED <<count, freed, ret>>

\* Mutant: the loop does not advance to the next old entry.
HashmapResizeSticks ==
    /\ pc = "resize"
    /\ moving # <<>>
    /\ \E i \in Slots :
        /\ resize_entry(KeyOf[Head(moving).ptr], i)
        /\ buckets' = [buckets EXCEPT ![i] = Head(moving)]
        /\ order' = Append(order, i)
    /\ UNCHANGED <<capacity, count, pc, call, moving, freed, ret>>

\* One turn of the loop of hashmap_resize.
hashmap_resize ==
    /\ pc = "resize"
    /\ moving # <<>>
    /\ \E i \in Slots :
        /\ resize_entry(KeyOf[Head(moving).ptr], i)
        /\ buckets' = [buckets EXCEPT ![i] = Head(moving)]
        /\ order' = Append(order, i)
    /\ moving' = Tail(moving)
    /\ pc' = IF Tail(moving) = <<>> THEN "lookup" ELSE "resize"
    /\ UNCHANGED <<capacity, count, call, freed, ret>>

\* The entry is linked behind m->last and filled in.
AddEntry(i) ==
    /\ buckets' = [buckets EXCEPT ![i] = [ptr |-> call.ptr, value |-> call.val]]
    /\ order' = Append(order, i)
    /\ count' = count + 1

\* The lookup of the running call ended at bucket i; the call returns.
Return(fn, i) ==
    /\ pc = "lookup"
    /\ call.fn = fn
    /\ find_entry(KeyOf[call.ptr], i)
    /\ pc' = "idle"
    /\ call' = NoCall
    /\ UNCHANGED <<capacity, moving>>

\* An overwritten entry keeps its old key pointer.
hashmap_set(i) ==
    /\ Return("set", i)
    /\ \/ ~Occupied(i) /\ AddEntry(i)
       \/ /\ Occupied(i)
          /\ buckets' = [buckets EXCEPT ![i].value = call.val]
          /\ UNCHANGED <<order, count>>
    /\ UNCHANGED <<freed, ret>>

\* Mutant: like hashmap_set, the overwrite keeps the old key pointer.
HashmapSetFreeKeepsKey(i) ==
    /\ Return("set_free", i)
    /\ \/ ~Occupied(i) /\ AddEntry(i) /\ UNCHANGED freed
       \/ /\ Occupied(i)
          /\ freed' = freed \cup {buckets[i].ptr}
          /\ buckets' = [buckets EXCEPT ![i].value = call.val]
          /\ UNCHANGED <<order, count>>
    /\ UNCHANGED ret

\* The callback frees the old key of an overwritten entry.
hashmap_set_free(i) ==
    /\ Return("set_free", i)
    /\ \/ ~Occupied(i) /\ AddEntry(i) /\ UNCHANGED freed
       \/ /\ Occupied(i)
          /\ freed' = freed \cup {buckets[i].ptr}
          /\ buckets' = [buckets EXCEPT ![i] = [ptr |-> call.ptr, value |-> call.val]]
          /\ UNCHANGED <<order, count>>
    /\ UNCHANGED ret

hashmap_get_set(i) ==
    /\ Return("get_set", i)
    /\ \/ ~Occupied(i) /\ AddEntry(i) /\ ret' = [found |-> FALSE, val |-> call.val]
       \/ /\ Occupied(i)
          /\ ret' = [found |-> TRUE, val |-> buckets[i].value]
          /\ UNCHANGED <<buckets, order, count>>
    /\ UNCHANGED freed

hashmap_get(i) ==
    /\ Return("get", i)
    /\ ret' = [found |-> Occupied(i), val |-> buckets[i].value]
    /\ UNCHANGED <<buckets, order, count, freed>>

Step ==
    \/ hashmap_resize
    \/ \E i \in Slots :
        hashmap_set(i) \/ hashmap_set_free(i) \/ hashmap_get_set(i) \/ hashmap_get(i)

Next ==
    \/ \E fn \in Functions, p \in Ptrs, v \in Vals : Enter(fn, p, v)
    \/ Step

\* The caller's thread keeps running inside a call it has made.
Spec == Init /\ [][Next]_vars /\ WF_vars(Step)

----------------------------------------------------------------------------
(* Properties *)

TypeOK ==
    /\ capacity \in Nat /\ capacity >= InitCapacity
    /\ buckets \in [Slots -> Entries \cup {EmptyEntry}]
    /\ order \in Seq(Slots)
    /\ count \in Nat
    /\ pc \in {"idle", "resize", "lookup"}
    /\ call \in IF pc = "idle" THEN {NoCall} ELSE Calls
    /\ moving \in Seq(Entries)
    /\ freed \subseteq Ptrs
    /\ ret \in [found : BOOLEAN, val : Vals \cup {NULL}]

\* The entries of the map in list order, those that a resize still has to
\* re-insert last.
AllEntries == [n \in DOMAIN order |-> buckets[order[n]]] \o moving

\* Every stored entry is where a probe for its key ends: no entry is hidden
\* behind an empty bucket or behind a second entry of the same key, before,
\* during and after a resize (map.c:44-96, 141-184).
Reachable == \A i \in Slots : Occupied(i) => find_entry(KeyOf[buckets[i].ptr], i)

\* Probing always ends, for every key: the load factor leaves an empty bucket
\* and every probe visits it, so the endless loops of find_entry (map.c:145)
\* and of resize_entry (map.c:47) stop.
ProbingEnds ==
    \A k \in Keys :
        (\E i \in Slots : find_entry(k, i)) /\ (\E i \in Slots : resize_entry(k, i))

\* The list runs exactly once through every occupied bucket and through no
\* other, and count is its length plus what a running resize has still to
\* move (map.h:46-49: "a linked list of all valid entries, in order").
ListExact ==
    /\ \A i \in Slots : Occupied(i) <=> \E n \in DOMAIN order : order[n] = i
    /\ \A m, n \in DOMAIN order : order[m] = order[n] => m = n
    /\ count = Len(order) + Len(moving)

\* No entry keeps a key pointer that the callback of hashmap_set_free has
\* freed (map.h:80-83).
NoDanglingKey ==
    /\ \A i \in Slots : buckets[i].ptr \notin freed
    /\ \A n \in DOMAIN moving : moving[n].ptr \notin freed

\* What the proofs add to the properties above to make them inductive: no two
\* entries, moved or still to be moved, hold the same key ...
StoredOnce ==
    /\ \A i, j \in Slots :
        Occupied(i) /\ Occupied(j) /\ KeyOf[buckets[i].ptr] = KeyOf[buckets[j].ptr] => i = j
    /\ \A m, n \in DOMAIN moving : KeyOf[moving[m].ptr] = KeyOf[moving[n].ptr] => m = n
    /\ \A i \in Slots, n \in DOMAIN moving : ~Holds(i, KeyOf[moving[n].ptr])

\* ... the load stays below the threshold, with room for the entry that the
\* running call may add ...
LoadBound ==
    /\ 4 * count <= 3 * capacity
    /\ pc # "idle" /\ call.fn # "get" => ~Overloaded
    /\ pc = "resize" => call.fn # "get"
    /\ pc = "resize" <=> moving # <<>>

\* ... and the running call holds a live pointer, which hashmap_set_free is
\* not about to free.
CallerKeepsKey ==
    pc # "idle" =>
        /\ call.ptr \notin freed
        /\ call.fn = "set_free" =>
            /\ \A i \in Slots : buckets[i].ptr # call.ptr
            /\ \A n \in DOMAIN moving : moving[n].ptr # call.ptr

\* Every call returns: neither a resize nor a probe goes on for ever.
CallsReturn == (pc # "idle") ~> (pc = "idle")

\* The table implements the ordered dictionary that map.h describes: a
\* resize in progress changes nothing a caller can see, and each call takes
\* effect once, when its lookup ends.  (The dictionary may be asked for any key:
\* that a call looks for its own is what the lookups of this module say.)
StoredKeys == [n \in DOMAIN AllEntries |-> KeyOf[AllEntries[n].ptr]]

ValueOf(k) ==
    IF \E n \in DOMAIN StoredKeys : StoredKeys[n] = k
    THEN AllEntries[CHOOSE n \in DOMAIN StoredKeys : StoredKeys[n] = k].value
    ELSE NULL

Dict == INSTANCE OrderedDict
            WITH dict <- [k \in Keys |-> ValueOf(k)], added <- StoredKeys

ImplementsDict == Dict!Spec
=============================================================================
