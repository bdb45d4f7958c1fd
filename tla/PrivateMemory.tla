----------------------------- MODULE PrivateMemory -----------------------------
(***************************************************************************)
(* What paging promises the processes: each has a memory of its own.  A     *)
(* write is seen by the process that makes it and by no other; fork gives   *)
(* the child the parent's memory as it is at that moment.  There are no     *)
(* tables here, no frames, no faults and no translation buffer.             *)
(***************************************************************************)
CONSTANTS Proc, Page, Value, NoProc

VARIABLES
    live,     \* processes that exist
    onCpu,    \* the one that runs, or NoProc
    view,     \* what each process reads from each of its pages
    kept      \* the promise is still given

vars == <<live, onCpu, view, kept>>

Init ==
    /\ live \in SUBSET Proc /\ onCpu \in live
    /\ view \in [live -> [Page -> Value]]
    /\ kept = TRUE

Write(v, x) ==
    /\ onCpu \in live
    /\ view' = [view EXCEPT ![onCpu][v] = x]
    /\ UNCHANGED <<live, onCpu>>

Fork(c) ==
    /\ onCpu \in live /\ c \notin live
    /\ live' = live \cup {c}
    /\ view' = [q \in live' |-> IF q = c THEN view[onCpu] ELSE view[q]]
    /\ onCpu' = c

Switch ==
    /\ onCpu' \in live \cup {NoProc}
    /\ UNCHANGED <<live, view>>

Exit ==
    /\ onCpu \in live
    /\ live' = live \ {onCpu}
    /\ view' = [q \in live' |-> view[q]]
    /\ onCpu' \in live' \cup {NoProc}

Operate ==
    \/ \E v \in Page, x \in Value : Write(v, x)
    \/ \E c \in Proc : Fork(c)
    \/ Switch \/ Exit

(* The promise is withdrawn, after which anything may happen. *)
Withdraw == kept' = FALSE

Next == (Operate /\ UNCHANGED kept) \/ Withdraw

Spec == Init /\ [][Next]_vars

=============================================================================
