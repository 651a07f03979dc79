---------------------------- MODULE HashMapSort ----------------------------
(***************************************************************************)
(* hashmap_sort of helper/map.c, one turn of a loop per step, on the        *)
(* pointers it works with: the list m->first .. m->last threaded through    *)
(* bucket.next, and the bucket contents that _hashmap_swap_bucket moves.    *)
(* Comparisons are those of trace_container_cmp (helper/replay.c), the      *)
(* comparator replay passes in.                                             *)
(*                                                                          *)
(* Bucket n is the n-th bucket linked into the list; where it lies in the   *)
(* array does not matter to the sort.  The hash, size and value that travel *)
(* with a key when contents are swapped are represented by the key.         *)
(***************************************************************************)
EXTENDS Integers, FiniteSets

CONSTANTS
    Keys,           \* the LBAs that may be added
    NULL,           \* the null pointer
    IntBits,        \* width of int, to which trace_container_cmp truncates
    AddsAfterSort   \* whether the caller adds entries to a sorted map

ASSUME Assumptions ==
    /\ Keys \subseteq Nat /\ IsFiniteSet(Keys)
    /\ IntBits \in Nat \ {0}
    /\ AddsAfterSort \in BOOLEAN

\* The null pointer is no bucket.
ASSUME NullAssumption == NULL \notin Nat

MaxBuckets == Cardinality(Keys)

VARIABLES
    key,        \* key[n]: contents of bucket n
    next,       \* next[n]: bucket.next
    first,      \* m->first
    last,       \* m->last, NULL while it is the imaginary bucket before m->first
    count,      \* m->count: buckets 1 .. count are linked
    sorted,     \* hashmap_sort has returned at least once
    pc,         \* "idle" | "pass" | "runs" | "merge"
    gap,        \* _hashmap_msort: the length of the runs being merged
    runs,       \* _hashmap_msort: start1, end1, start2, end2 and temp
    prevend,    \* _hashmap_msort: the last bucket of the previous merged run
    cursor      \* _hashmap_merge: astart and bstart

map == <<key, next, first, last, count>>
vars == <<key, next, first, last, count, sorted, pc, gap, runs, prevend, cursor>>

Nodes == 1 .. count
NoRuns == [start1 |-> NULL, end1 |-> NULL, start2 |-> NULL, end2 |-> NULL, temp |-> NULL]
NoCursor == [a |-> NULL, b |-> NULL]

----------------------------------------------------------------------------
\* The difference of two unsigned longs, returned as an int.
trace_container_cmp(a, b) ==
    LET low == (a - b) % 2^IntBits
    IN  IF low < 2^(IntBits - 1) THEN low ELSE low - 2^IntBits

\* The bucket at most d links after bucket n, staying on the list.
Ahead(n, d) ==
    LET walk[e \in 0 .. d] ==
            IF e = 0 THEN n
            ELSE IF next[walk[e - 1]] = NULL THEN walk[e - 1] ELSE next[walk[e - 1]]
    IN  walk[d]

\* Mutant: the contents of b are copied to a, and not back.
CopyBucket(k, a, b) == [k EXCEPT ![a] = k[b]]

_hashmap_swap_bucket(k, a, b) == [k EXCEPT ![a] = k[b], ![b] = k[a]]

----------------------------------------------------------------------------
Init ==
    /\ key = [n \in 1 .. MaxBuckets |-> NULL]
    /\ next = [n \in 1 .. MaxBuckets |-> NULL]
    /\ first = NULL /\ last = NULL
    /\ count = 0
    /\ sorted = FALSE
    /\ pc = "idle"
    /\ gap = 0
    /\ runs = NoRuns
    /\ prevend = NULL
    /\ cursor = NoCursor

\* hashmap_set of a new key: the bucket is linked behind m->last.
LinkEntry(k) ==
    /\ pc = "idle"
    /\ count < MaxBuckets
    /\ sorted => AddsAfterSort
    /\ \A n \in Nodes : key[n] # k
    /\ count' = count + 1
    /\ key' = [key EXCEPT ![count + 1] = k]
    /\ \/ last = NULL /\ first' = count + 1 /\ UNCHANGED next
       \/ last # NULL /\ next' = [next EXCEPT ![last] = count + 1] /\ UNCHANGED first
    /\ last' = count + 1
    /\ UNCHANGED <<sorted, pc, gap, runs, prevend, cursor>>

hashmap_sort ==
    /\ pc = "idle"
    /\ first # NULL
    /\ gap' = 1
    /\ pc' = "pass"
    /\ UNCHANGED <<map, sorted, runs, prevend, cursor>>

\* Mutant: the loop runs up to the capacity of the table, not to count.
StartPassToCapacity ==
    /\ pc = "pass"
    /\ \/ /\ gap < 4 * MaxBuckets
          /\ runs' = [NoRuns EXCEPT !.start1 = first]
          /\ pc' = "runs"
          /\ UNCHANGED <<sorted, gap, prevend>>
       \/ /\ gap >= 4 * MaxBuckets
          /\ pc' = "idle"
          /\ sorted' = TRUE
          /\ gap' = 0
          /\ runs' = NoRuns
          /\ prevend' = NULL
    /\ UNCHANGED <<map, cursor>>

\* The head of the loop over gap.
StartPass ==
    /\ pc = "pass"
    /\ \/ /\ gap < count
          /\ runs' = [NoRuns EXCEPT !.start1 = first]
          /\ pc' = "runs"
          /\ UNCHANGED <<sorted, gap, prevend>>
       \/ /\ gap >= count  \* _hashmap_msort returns
          /\ pc' = "idle"
          /\ sorted' = TRUE
          /\ gap' = 0
          /\ runs' = NoRuns
          /\ prevend' = NULL
    /\ UNCHANGED <<map, cursor>>

\* Mutant: gap is left alone.
EndPassSameGap ==
    /\ pc = "runs"
    /\ runs.start1 # NULL => next[Ahead(runs.start1, gap - 1)] = NULL
    /\ prevend # NULL  \* dereferenced: the run would get stuck here
    /\ next' = [next EXCEPT ![prevend] = runs.start1]
    /\ pc' = "pass"
    /\ UNCHANGED <<key, first, last, count, sorted, gap, runs, prevend, cursor>>

\* No second run is left to merge with: the rest is appended.
EndPass ==
    /\ pc = "runs"
    /\ runs.start1 # NULL => next[Ahead(runs.start1, gap - 1)] = NULL
    /\ prevend # NULL  \* dereferenced: the run would get stuck here
    /\ next' = [next EXCEPT ![prevend] = runs.start1]
    /\ gap' = 2 * gap
    /\ pc' = "pass"
    /\ UNCHANGED <<key, first, last, count, sorted, runs, prevend, cursor>>

\* The next two runs are delimited and the merge begins.  When their first
\* buckets are out of order it swaps the contents of the first buckets and
\* then those of the last buckets: the same two buckets if gap = 1.
BeginMerge ==
    /\ pc = "runs"
    /\ runs.start1 # NULL
    /\ LET start1 == runs.start1
           end1 == Ahead(start1, gap - 1)
           start2 == next[end1]
           end2 == Ahead(start2, gap - 1)
       IN  /\ start2 # NULL
           /\ runs' = [start1 |-> start1, end1 |-> end1, start2 |-> start2,
                       end2 |-> end2, temp |-> next[end2]]
           /\ key' = IF trace_container_cmp(key[start1], key[start2]) > 0
                     THEN _hashmap_swap_bucket(
                              _hashmap_swap_bucket(key, start1, start2), end1, end2)
                     ELSE key
           /\ cursor' = [a |-> start1, b |-> start2]
    /\ pc' = "merge"
    /\ UNCHANGED <<next, first, last, count, sorted, gap, prevend>>

Merging == cursor.a # runs.end1 /\ cursor.b # runs.temp

\* One turn of the loop of _hashmap_merge: bstart moves behind astart when it
\* is smaller than astart's successor.
MergeStep ==
    /\ pc = "merge"
    /\ Merging
    /\ LET a == cursor.a
           b == cursor.b
           after == next[a]
       IN  IF trace_container_cmp(key[after], key[b]) > 0
           THEN /\ next' = [next EXCEPT ![b] = after, ![a] = b]
                /\ cursor' = [a |-> b, b |-> next[b]]
           ELSE /\ cursor' = [a |-> after, b |-> b]
                /\ UNCHANGED next
    /\ UNCHANGED <<key, first, last, count, sorted, pc, gap, runs, prevend>>

\* Mutant: *end2 is not set to *end1 when the second run is used up.
EndMergeKeepsEnd ==
    /\ pc = "merge"
    /\ ~Merging
    /\ next' = IF cursor.a = runs.end1 THEN [next EXCEPT ![cursor.a] = cursor.b] ELSE next
    /\ first' = first
    /\ prevend' = runs.end2
    /\ runs' = [NoRuns EXCEPT !.start1 = runs.temp]
    /\ cursor' = NoCursor
    /\ pc' = "runs"
    /\ UNCHANGED <<key, last, count, sorted, gap>>

\* The merge returns: the rest of the second run is appended, or the merged
\* run ends where the first one did.  _hashmap_msort links it behind the
\* previous run, unless it is the first, and goes on after it.
EndMerge ==
    /\ pc = "merge"
    /\ ~Merging
    /\ runs.start1 # first => prevend # NULL  \* dereferenced
    /\ LET used == cursor.a = runs.end1
           merged == IF used THEN [next EXCEPT ![cursor.a] = cursor.b] ELSE next
       IN  /\ prevend' = IF used THEN runs.end2 ELSE runs.end1
           /\ next' = IF runs.start1 = first THEN merged
                      ELSE [merged EXCEPT ![prevend] = runs.start1]
    /\ runs' = [NoRuns EXCEPT !.start1 = runs.temp]
    /\ cursor' = NoCursor
    /\ pc' = "runs"
    /\ UNCHANGED <<key, first, last, count, sorted, gap>>

Sort == StartPass \/ EndPass \/ BeginMerge \/ MergeStep \/ EndMerge

Next ==
    \/ \E k \in Keys : LinkEntry(k)
    \/ hashmap_sort
    \/ Sort

\* The caller's thread keeps running inside hashmap_sort.
Spec == Init /\ [][Next]_vars /\ WF_vars(Sort)

----------------------------------------------------------------------------
(* Properties *)

Links == 1 .. MaxBuckets

TypeOK ==
    /\ key \in [Links -> Keys \cup {NULL}]
    /\ next \in [Links -> Links \cup {NULL}]
    /\ first \in Links \cup {NULL} /\ last \in Links \cup {NULL}
    /\ count \in 0 .. MaxBuckets
    /\ sorted \in BOOLEAN
    /\ pc \in {"idle", "pass", "runs", "merge"}
    /\ gap \in 0 .. 2 * MaxBuckets
    /\ \A f \in DOMAIN runs : runs[f] \in Links \cup {NULL}
    /\ prevend \in Links \cup {NULL}
    /\ \A f \in DOMAIN cursor : cursor[f] \in Links \cup {NULL}

\* The n-th bucket of the list, NULL after its end.
Listed ==
    LET at[n \in 1 .. count + 1] ==
            IF n = 1 THEN first
            ELSE IF at[n - 1] = NULL THEN NULL ELSE next[at[n - 1]]
    IN  at

\* Whatever the contents and the (possibly truncated) comparisons, between
\* calls the list runs once through every bucket and ends: replay walks it
\* with foreach_hashmap_bucket and must not lose or repeat a container
\* (map.h:46 "a linked list of all valid entries", replay.c:594).
EveryBucketListed ==
    pc = "idle" =>
        /\ {Listed[n] : n \in Nodes} = Nodes
        /\ Listed[count + 1] = NULL

\* No step of the sort loses or duplicates an entry: swapping contents and
\* relinking buckets leaves the set of stored keys alone (map.c:208-222).
ContentsKept ==
    [][count' = count => {key'[n] : n \in Nodes} = {key[n] : n \in Nodes}]_vars

\* hashmap_sort returns.
SortReturns == (pc # "idle") ~> (pc = "idle")

\* "sort by lba" (replay.c:592): the list is in ascending order when
\* hashmap_sort has returned.
SortedByLba ==
    pc = "idle" /\ sorted =>
        \A n \in 1 .. count - 1 : key[Listed[n]] < key[Listed[n + 1]]
=============================================================================
