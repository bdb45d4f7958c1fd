------------------------------- MODULE Context -------------------------------
(***************************************************************************)
(* Registers and kernel stacks: the entry code of interrupts, exceptions    *)
(* and system calls (interrupt.s, exceptions.s), the frame pr_create_process *)
(* builds, the copy pr_fork_process makes, and pr_resume, which never       *)
(* returns and restarts a process from a frame at a fixed place.            *)
(*                                                                         *)
(* The stack pointer is reset to the top of the kernel stack whenever a     *)
(* program is resumed, so each entry finds it empty.  Slot -n is the n-th   *)
(* word below the top; slot -5 stands for the five words -1 .. -5 the CPU   *)
(* pushes (SS, ESP, EFLAGS, CS, EIP).  Below slot -17 nothing is read back.  *)
(* Each entry writes all of these slots, so that the stack of the running    *)
(* program, and one that has been freed, hold nothing that matters.          *)
(* Which process gets the CPU is the matter of Process: here it is any.     *)
(***************************************************************************)
EXTENDS Integers

CONSTANTS
    Proc, NoProc,   \* processes; a process stands for its pid, too
    Value,          \* what a program computes
    Zero,           \* 0
    Selector,       \* 0x20, the segment selector of a program's data
    Kernel          \* whatever compiled kernel code leaves in a word

ASSUME ProcAssumption == NoProc \notin Proc

VARIABLES
    live,       \* processes that exist
    ready,      \* those that are not suspended
    current,    \* the process whose code the CPU executes, or NoProc
    cpu,        \* its registers
    stack       \* kernel stacks, those of freed processes included

vars == <<live, ready, current, cpu, stack>>

(* frame: what iret restores.  The other names are pushad's.                  *)
Reg  == {"frame", "eax", "ecx", "edx", "ebx", "ebp", "esi", "edi"}
Slot == -17 .. -5

(* A program fills all registers, each with a value that tells which one it   *)
(* was meant for.                                                             *)
Filled(v) == [r \in Reg |-> <<r, v>>]
Word      == (Reg \X Value) \cup Proc \cup {Zero, Selector, Kernel}

(* What a program has in a register is told from what the kernel leaves.      *)
ASSUME WordAssumption == {Selector, Kernel} \cap ((Reg \X Value) \cup {Zero}) = {}

TypeOK ==
    /\ ready \subseteq live /\ live \subseteq Proc
    /\ current \in ready \cup {NoProc}
    /\ cpu \in [Reg -> Word]
    /\ stack \in [Proc -> [Slot -> Word]]

-----------------------------------------------------------------------------
(* Frames on a kernel stack. *)

Selectors == -17 .. -14

(* Where pushad leaves a register, and popad takes it from: slot -10 is ESP.  *)
PushadSlot ==
    [frame |-> -5, eax |-> -6, ecx |-> -7, edx |-> -8, ebx |-> -9,
     ebp |-> -11, esi |-> -12, edi |-> -13]

(* Mutant: the parameters of is_capi are pushed in the opposite order. *)
ApiSlotReversed == [frame |-> -5, eax |-> -6, ebx |-> -7, ecx |-> -8, edx |-> -9]

(* is_api pushes four registers in the order of is_capi's parameters.         *)
ApiSlot == [frame |-> -5, edx |-> -6, ecx |-> -7, ebx |-> -8, eax |-> -9]

(* The error code takes slot -6, so that everything is one word lower.        *)
FaultSlot ==
    [r \in Reg |-> IF r = "frame" THEN -5 ELSE PushadSlot[r] - 1]

(* The stack once the registers are in their slots, with the return address   *)
(* and the locals of the handler below.                                       *)
Pushed(slots) ==
    [k \in Slot |-> IF \E r \in DOMAIN slots : slots[r] = k
                    THEN cpu[CHOOSE r \in DOMAIN slots : slots[r] = k] ELSE Kernel]

(* The end of pr_resume: four selectors, popal, iret. *)
Popped(s) == [r \in Reg |-> s[PushadSlot[r]]]

(* pr_create_process: the frame of a program that has not run. *)
Fresh == [k \in Slot |-> IF k \in Selectors THEN Selector ELSE Zero]

(* Mutant: the loop over stack[i - 17] is missing. *)
WithoutSelectors(s) == s

WithSelectors(s) == [k \in Slot |-> IF k \in Selectors THEN Selector ELSE s[k]]

Dead == [k \in Slot |-> Kernel]

-----------------------------------------------------------------------------
(* Mutant: pr_current is not set. *)
ResumeNobody(q, stacks) ==
    /\ stack' = [stacks EXCEPT ![current] = WithSelectors(@), ![q] = Dead]
    /\ cpu' = Popped(stacks[q])
    /\ UNCHANGED current

(* pr_resume(q): stacks is what the handler left.  The selectors are stored   *)
(* on the stack of pr_current, which may have been freed.                     *)
Resume(q, stacks) ==
    /\ stack' = [stacks EXCEPT ![current] = WithSelectors(@), ![q] = Dead]
    /\ cpu' = Popped(stacks[q])
    /\ current' = q

(* pr_schedule: another process, or the CPU halts; the model ends there, and  *)
(* where the last process exits.                                              *)
Schedule(stacks) ==
    \/ \E q \in ready' \ {current} : Resume(q, stacks)
    \/ ready' \ {current} = {} /\ current' = NoProc /\ stack' = stacks /\ UNCHANGED cpu

Enter(slots) == [stack EXCEPT ![current] = Pushed(slots)]

(* main() has created one process and forked the other from it. *)
Init ==
    \E a, b \in Proc :
        /\ a # b
        /\ live = {a, b} /\ ready = live
        /\ current = a
        /\ cpu = Popped(Fresh)
        /\ stack = [p \in Proc |-> IF p = b THEN Fresh ELSE Dead]

Compute(v) ==
    /\ current # NoProc
    /\ cpu' = Filled(v)
    /\ UNCHANGED <<live, ready, current, stack>>

(* is_timer: pushad, is_ctimer, and pr_schedule if the hook is installed.     *)
Timer ==
    /\ current # NoProc
    /\ UNCHANGED <<live, ready>>
    /\ Schedule(Enter(PushadSlot))

(* A page fault that is resolved, or an interrupt with nothing to schedule:   *)
(* popad and iret from where the registers were pushed.                       *)
Return(slots) ==
    /\ current # NoProc
    /\ cpu' = [r \in Reg |-> Pushed(slots)[slots[r]]]
    /\ UNCHANGED <<live, ready, current, stack>>

(* read, write, open, getpid: is_capi leaves its result, and what it likes, in the         *)
(* registers a C function may change; is_api drops the four words.             *)
Syscall ==
    /\ current # NoProc
    /\ cpu' = [r \in Reg |-> IF r \in {"eax", "ecx", "edx"} THEN Kernel ELSE cpu[r]]
    /\ UNCHANGED <<live, ready, current, stack>>

(* The child gets a copy of the parent's kernel stack, as it is inside        *)
(* is_capi.  The return codes are stored where popal takes EAX from.          *)
Fork(c) ==
    LET copied == [Enter(ApiSlot) EXCEPT ![c] = Pushed(ApiSlot)]
        coded  == [copied EXCEPT ![current][-6] = c, ![c][-6] = Zero]
    IN
    /\ current # NoProc
    /\ c \notin live
    /\ live' = live \cup {c}
    /\ ready' = ready \cup {c}
    /\ Resume(c, [coded EXCEPT ![c] = WithSelectors(@)])

Exit ==
    /\ current # NoProc
    /\ live' = live \ {current}
    /\ ready' = ready \ {current}
    /\ Schedule([stack EXCEPT ![current] = Dead])

(* A fault that is not resolved: pr_suspend, for good. *)
Suspend ==
    /\ current # NoProc
    /\ ready' = ready \ {current}
    /\ UNCHANGED live
    /\ Schedule(Enter(FaultSlot))

(* Any other number of a system call, and any other exception: hlt with        *)
(* interrupts off, in the handler.                                            *)
Panic ==
    /\ current # NoProc
    /\ current' = NoProc
    /\ \E slots \in {ApiSlot, FaultSlot} : stack' = Enter(slots)
    /\ UNCHANGED <<live, ready, cpu>>

Next ==
    \/ \E v \in Value : Compute(v)
    \/ Timer \/ Syscall \/ Exit \/ Suspend \/ Panic
    \/ Return(PushadSlot) \/ Return(FaultSlot)
    \/ \E c \in Proc : Fork(c)

Spec == Init /\ [][Next]_vars

-----------------------------------------------------------------------------
(* Properties. *)

(* Whoever can be given the CPU has a frame pr_resume can restart it from:     *)
(* four selectors where it pops segment registers, and at slot -5 the return   *)
(* frame of a program, whatever handler took the CPU from it.                  *)
CanBeResumed ==
    current # NoProc => \A q \in ready \ {current} :
        /\ \A k \in Selectors : stack[q][k] = Selector
        /\ stack[q][-5] \notin {Kernel, Selector}

Cpu == INSTANCE VirtualCpu WITH
    onCpu <- current,
    regs  <- [q \in ready |-> IF q = current THEN cpu ELSE Popped(stack[q])]

(* Stacks, frames and copies together give every process registers of its     *)
(* own, up to what system calls change.                                       *)
ImplementsVirtualCpu == Cpu!Spec

=============================================================================
