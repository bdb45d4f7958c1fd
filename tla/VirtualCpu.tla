------------------------------ MODULE VirtualCpu ------------------------------
(***************************************************************************)
(* What switching the CPU promises a program: its registers are its own.    *)
(* They change by its own instructions, and by its own system calls as the   *)
(* calling convention of the kernel has it; not because others run between. *)
(* When the CPU has stopped nobody goes on.                                  *)
(* There are no kernel stacks here, no interrupts and no selectors.         *)
(***************************************************************************)
CONSTANTS Proc, Reg, Word, Zero, NoProc

VARIABLES
    ready,  \* processes that go on, now or when they get the CPU
    onCpu,  \* the one whose instructions are executed, or NoProc
    regs    \* the registers each of them has when it goes on

vars == <<ready, onCpu, regs>>

Init ==
    /\ ready \in SUBSET Proc /\ onCpu \in ready
    /\ regs \in [ready -> [Reg -> Word]]

SameExcept(new, old, scratch) == \A r \in Reg \ scratch : new[r] = old[r]

(* Instructions, and system calls that return. *)
Compute ==
    /\ onCpu \in ready
    /\ DOMAIN regs' = ready
    /\ regs'[onCpu] \in [Reg -> Word]
    /\ \A q \in ready \ {onCpu} : regs'[q] = regs[q]
    /\ UNCHANGED <<ready, onCpu>>

(* Registers a caller of fork has to save. *)
Scratch == {"eax", "ebx", "edx", "esi", "edi", "ebp"}

(* The child goes on first, where the parent will: with 0 for the pid. *)
Fork(c) ==
    /\ onCpu \in ready /\ c \notin ready
    /\ ready' = ready \cup {c}
    /\ onCpu' = c
    /\ DOMAIN regs' = ready'
    /\ \A q \in ready' \ {onCpu, c} : regs'[q] = regs[q]
    /\ \A q \in {onCpu, c} : SameExcept(regs'[q], regs[onCpu], Scratch)
    /\ regs'[onCpu].eax = c /\ regs'[c].eax = Zero

Switch ==
    /\ onCpu \in ready
    /\ onCpu' \in ready \cup {NoProc}
    /\ UNCHANGED <<ready, regs>>

(* A process exits, or is suspended for good. *)
Leave ==
    /\ onCpu \in ready
    /\ ready' = ready \ {onCpu}
    /\ regs' = [q \in ready' |-> regs[q]]
    /\ onCpu' \in ready' \cup {NoProc}

(* The program stops the machine, which ends it and everybody else. *)
Stop ==
    /\ onCpu \in ready
    /\ onCpu' = NoProc
    /\ DOMAIN regs' = ready
    /\ \A q \in ready \ {onCpu} : regs'[q] = regs[q]
    /\ UNCHANGED ready

Next == Compute \/ Switch \/ Leave \/ Stop \/ \E c \in Proc : Fork(c)

Spec == Init /\ [][Next]_vars

=============================================================================
