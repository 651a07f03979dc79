---------------------------- MODULE OrderedDict ----------------------------
(***************************************************************************)
(* What helper/map.h promises to a caller: a dictionary whose keys are      *)
(* enumerated in the order in which they were first added.  Hashing,        *)
(* buckets, probing, resizing and key pointers are not visible here.        *)
(***************************************************************************)
EXTENDS Sequences

CONSTANTS
    Keys,       \* the key contents two callers can tell apart
    Vals,       \* the values that are stored
    NULL        \* the value of a key that was never added

VARIABLES
    dict,       \* dict[k]: the value of key k, NULL while k is absent
    added,      \* the keys present, in the order they were first added
    ret         \* what the latest get or get_set handed back

vars == <<dict, added, ret>>

Init ==
    /\ dict = [k \in Keys |-> NULL]
    /\ added = <<>>
    /\ ret = [found |-> FALSE, val |-> NULL]

Present(k) == dict[k] # NULL

Store(k, v) ==
    /\ dict' = [dict EXCEPT ![k] = v]
    /\ added' = IF Present(k) THEN added ELSE Append(added, k)

\* hashmap_set and hashmap_set_free: add the key or overwrite its value.
Put(k, v) == Store(k, v) /\ UNCHANGED ret

\* hashmap_get: report the value, NULL when the key is absent.
Get(k) ==
    /\ ret' = [found |-> Present(k), val |-> dict[k]]
    /\ UNCHANGED <<dict, added>>

\* hashmap_get_set: report the value of a present key, add an absent one.
GetOrPut(k, v) ==
    \/ Present(k) /\ Get(k)
    \/ ~Present(k) /\ Store(k, v) /\ ret' = [found |-> FALSE, val |-> v]

Next == \E k \in Keys, v \in Vals : Put(k, v) \/ Get(k) \/ GetOrPut(k, v)

Spec == Init /\ [][Next]_vars
=============================================================================
