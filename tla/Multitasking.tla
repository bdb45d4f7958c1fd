----------------------------- MODULE Multitasking -----------------------------
(***************************************************************************)
(* What the process manager promises: processes are created, become ready,  *)
(* suspend themselves and exit; the CPU is given to ready processes only,    *)
(* and a process that gives it up leaves it to another that could take it.   *)
(* What it does not promise: that programs are kept from stopping the        *)
(* machine, and that there is anything to do after the last one.             *)
(* There is no list here, no order, no pr_current and no boot sequence.     *)
(***************************************************************************)
CONSTANTS Proc, NoProc

VARIABLES
    live,   \* processes that exist
    ready,  \* those that may run
    onCpu,  \* the one whose code the CPU executes, or NoProc
    stopped \* the machine is halted for good, whoever is ready

vars == <<live, ready, onCpu, stopped>>

Init == live = {} /\ ready = {} /\ onCpu = NoProc /\ stopped = FALSE

(* The CPU passes to a ready process; to none only when there is none. *)
Dispatch == IF ready' = {} THEN onCpu' = NoProc ELSE onCpu' \in ready'

Create(p) ==
    /\ p \notin live
    /\ live' = live \cup {p}
    /\ UNCHANGED <<ready, onCpu>>

Start(p) ==
    /\ p \in live
    /\ ready' = ready \cup {p}
    /\ UNCHANGED <<live, onCpu>>

(* The running process is replaced, or halted when nobody else is ready. *)
Preempt ==
    /\ \/ onCpu' \in ready \ {onCpu}
       \/ ready \subseteq {onCpu} /\ onCpu' = NoProc
    /\ UNCHANGED <<live, ready>>

(* A process forks: the child takes the CPU. *)
Spawn(p) ==
    /\ onCpu \in ready
    /\ p \notin live
    /\ live' = live \cup {p}
    /\ ready' = ready \cup {p}
    /\ onCpu' = p

Suspend ==
    /\ onCpu \in ready
    /\ ready' = ready \ {onCpu}
    /\ Dispatch
    /\ UNCHANGED live

(* The last process keeps the CPU after its own exit. *)
Terminate ==
    /\ onCpu \in ready
    /\ live' = live \ {onCpu}
    /\ ready' = ready \ {onCpu}
    /\ IF live' = {} THEN UNCHANGED onCpu ELSE Dispatch

(* What the program on the CPU does stops the machine, for all of them. *)
Stop ==
    /\ onCpu \in ready
    /\ onCpu' = NoProc
    /\ UNCHANGED <<live, ready>>

Next ==
    /\ ~ stopped
    /\ \/ stopped' = TRUE /\ Stop
       \/ /\ stopped' = FALSE
          /\ \/ \E p \in Proc : Create(p) \/ Start(p) \/ Spawn(p)
             \/ Preempt \/ Suspend \/ Terminate

Spec == Init /\ [][Next]_vars

=============================================================================
