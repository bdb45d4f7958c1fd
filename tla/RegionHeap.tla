------------------------------ MODULE RegionHeap ------------------------------
(***************************************************************************)
(* What a heap promises its clients: regions of a memory that only grows,   *)
(* each given to one client at a time and kept for it until it is freed.    *)
(* There are no free blocks here, no list and no headers.                   *)
(***************************************************************************)
EXTENDS Integers

VARIABLES
    held,   \* regions in the hands of clients, [at |-> first unit, len |-> units]
    limit   \* units of memory there are

vars == <<held, limit>>

Init == held = {} /\ limit = 0

Apart(r, s) == r.at + r.len <= s.at \/ s.at + s.len <= r.at

(* The memory may be extended to find room for a region. *)
Allocate ==
    /\ limit' >= limit
    /\ \E r \in held' :
           /\ held = held' \ {r}
           /\ r \notin held
           /\ 0 <= r.at /\ r.len > 0 /\ r.at + r.len <= limit'
           /\ \A s \in held : Apart(r, s)

Release ==
    /\ \E r \in held : held' = held \ {r}
    /\ UNCHANGED limit

Extend == limit' > limit /\ UNCHANGED held

Next == Allocate \/ Release \/ Extend

Spec == Init /\ [][Next]_vars

=============================================================================
