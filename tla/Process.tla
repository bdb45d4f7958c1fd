------------------------------- MODULE Process -------------------------------
(***************************************************************************)
(* The process manager of the kernel (process.cpp) with the code that      *)
(* calls it: the boot sequence of main.cpp, the timer interrupt, the exit   *)
(* and fork system calls (interrupt.cpp), the handlers of faults that give  *)
(* up on a process, and those of all other exceptions and of system calls   *)
(* that do not exist, which give up on the machine (exceptions.cpp).        *)
(*                                                                         *)
(* The list pr_root -> next_process -> ... is the sequence order.  Every    *)
(* interrupt gate clears IF and pr_resume never returns, so a handler is    *)
(* one step; between two steps the CPU runs user code, or main() with       *)
(* interrupts on.                                                           *)
(***************************************************************************)
EXTENDS Integers, Sequences, SequencesExt

CONSTANTS
    Proc,       \* addresses kalloc may give to a pr_process_t
    NoProc,     \* the NULL pointer
    PidLimit,   \* pids are computed modulo this; 2^32 in the code
    MaxIssued   \* bound on the processes created in a behaviour

ASSUME ProcAssumption == NoProc \notin Proc
ASSUME PidAssumption  == PidLimit \in Nat \ {0} /\ MaxIssued \in Nat

VARIABLES
    order,      \* the process list, from pr_root on
    alloc,      \* process structures the heap has handed out
    state,      \* pr_process_t.state, "paused" or "running"
    pid,        \* pr_process_t.pid
    issued,     \* how often pr_free_pid was called
    current,    \* pr_current
    cpu,        \* what the CPU does between two steps
    hook,       \* sched_hook is installed
    boot,       \* the next statement of main()
    app1, app2  \* main()'s local variables

vars == <<order, alloc, state, pid, issued, current, cpu, hook, boot, app1, app2>>

Pid       == 0 .. PidLimit - 1
BootSteps == {"create", "fork", "install", "start1", "start2", "loop"}

TypeOK ==
    /\ order \in Seq(Proc)
    /\ alloc \subseteq Proc
    /\ state \in [Proc -> {"paused", "running"}]
    /\ pid \in [Proc -> Pid]
    /\ issued \in 0 .. MaxIssued
    /\ current \in Proc \cup {NoProc}
    /\ cpu \in {"main", "user", "halted", "spinning", "panicked"}
    /\ hook \in BOOLEAN
    /\ boot \in BootSteps
    /\ app1 \in Proc \cup {NoProc}
    /\ app2 \in Proc \cup {NoProc}

(* setup_process, and the fields of structures that do not exist yet. *)
Init ==
    /\ order = << >>
    /\ alloc = {}
    /\ state = [p \in Proc |-> "paused"]
    /\ pid = [p \in Proc |-> 0]
    /\ issued = 0
    /\ current = NoProc
    /\ cpu = "main"
    /\ hook = FALSE
    /\ boot = "create"
    /\ app1 = NoProc
    /\ app2 = NoProc

-----------------------------------------------------------------------------
(* The process list. *)

(* The place pr_inject_process puts a process whose pid field holds v: in    *)
(* front of the first one with a larger pid, or at the end.                  *)
InsertPos(v, i) ==
    /\ \A k \in 1 .. i - 1 : pid[order[k]] <= v
    /\ i <= Len(order) => pid[order[i]] > v

(* Mutants: what the run replaces NewPid by, to see the properties fail. *)
NewPidUnwrapped == issued
NewPidCounted   == Len(order)

(* pr_free_pid: a counter that only wraps around. *)
NewPid == issued % PidLimit

(* pr_create_process and pr_fork_process call pr_inject_process before they  *)
(* assign proc->pid, so the place depends on what the block kalloc returned  *)
(* happens to hold: any value v.                                             *)
Spawn(p, initial) ==
    /\ issued < MaxIssued
    /\ p \notin alloc
    /\ \E v \in Pid, i \in 1 .. Len(order) + 1 :
           InsertPos(v, i) /\ order' = InsertAt(order, i, p)
    /\ alloc' = alloc \cup {p}
    /\ pid' = [pid EXCEPT ![p] = NewPid]
    /\ issued' = issued + 1
    /\ state' = [state EXCEPT ![p] = initial]

(* Mutant: pr_root is not updated when the first process is taken out. *)
ExtractedKeepingRoot(list, i) == IF i = 1 THEN list ELSE RemoveAt(list, i)

(* pr_extract_process: the list without its i-th process. *)
Extracted(list, i) == RemoveAt(list, i)

(* Mutants: the search does not wrap around; it always starts at pr_root. *)
VisitedBehind(list, i)   == SubSeq(list, i + 1, Len(list))

(* The processes pr_schedule looks at, in this order, when pr_current is the *)
(* i-th of the list: those behind it, then those before it.  A terminated    *)
(* process is still walked from: its next_process field survives kfree.      *)
VisitedFrom(list, i) == SubSeq(list, i + 1, Len(list)) \o SubSeq(list, 1, i - 1)

Visited ==
    IF current \in ToSet(order)
    THEN VisitedFrom(order, CHOOSE i \in DOMAIN order : order[i] = current)
    ELSE order

(* pr_resume(p): pr_current and CR3 change and the CPU returns to user mode. *)
Resume(p) == current' = p /\ cpu' = "user"

(* Mutant: the state of the next process is not looked at. *)
ScheduleNext(seq, st) ==
    IF seq = << >> THEN cpu' = "halted" /\ UNCHANGED current ELSE Resume(Head(seq))

(* pr_schedule with the processes seq to look at and states st, once the     *)
(* list is known not to be empty.  When none of them is running the loop     *)
(* ends only if it comes back to pr_current, which must be on the list.      *)
Schedule(seq, st) ==
    \/ \E k \in DOMAIN seq :
           /\ st[seq[k]] = "running"
           /\ \A j \in 1 .. k - 1 : st[seq[j]] = "paused"
           /\ Resume(seq[k])
    \/ /\ \A k \in DOMAIN seq : st[seq[k]] = "paused"
       /\ cpu' = IF current \in ToSet(order') THEN "halted" ELSE "spinning"
       /\ UNCHANGED current

-----------------------------------------------------------------------------
(* main(), from the creation of the first process on.  Interrupts have been   *)
(* on since setup_interrupts, so a timer tick can come between these steps.   *)

CreateApp1 ==
    /\ cpu = "main" /\ boot = "create"
    /\ \E p \in Proc : Spawn(p, "paused") /\ app1' = p
    /\ boot' = "fork"
    /\ UNCHANGED <<current, cpu, hook, app2>>

ForkApp2 ==
    /\ cpu = "main" /\ boot = "fork"
    /\ \E p \in Proc : Spawn(p, "paused") /\ app2' = p
    /\ boot' = "install"
    /\ UNCHANGED <<current, cpu, hook, app1>>

InstallHook ==
    /\ cpu = "main" /\ boot = "install"
    /\ hook' = TRUE
    /\ boot' = "start1"
    /\ UNCHANGED <<order, alloc, state, pid, issued, current, cpu, app1, app2>>

StartApp1 ==
    /\ cpu = "main" /\ boot = "start1"
    /\ state' = [state EXCEPT ![app1] = "running"]
    /\ boot' = "start2"
    /\ UNCHANGED <<order, alloc, pid, issued, current, cpu, hook, app1, app2>>

StartApp2 ==
    /\ cpu = "main" /\ boot = "start2"
    /\ state' = [state EXCEPT ![app2] = "running"]
    /\ boot' = "loop"
    /\ UNCHANGED <<order, alloc, pid, issued, current, cpu, hook, app1, app2>>

-----------------------------------------------------------------------------
(* The handlers. *)

(* is_ctimer -> schedule -> pr_schedule.  With no hook, or with an empty     *)
(* list, the interrupt returns to the code it came from.                     *)
Tick ==
    /\ cpu \in {"main", "user"}
    /\ hook
    /\ order # << >>
    /\ UNCHANGED <<order, alloc, state, pid, issued, hook, boot, app1, app2>>
    /\ Schedule(Visited, state)

(* System call 1.  pr_terminate does not reset pr_current.  Without another  *)
(* process pr_schedule returns, and so does the system call: the CPU goes on *)
(* with the code of the process it has just freed, which startup.s lets spin *)
(* without further calls (hence the guard current \in alloc in the others).  *)
Exit ==
    /\ cpu = "user" /\ current \in alloc
    /\ \E i \in DOMAIN order :
           /\ order[i] = current
           /\ order' = Extracted(order, i)
    /\ alloc' = alloc \ {current}
    /\ IF order' = << >> THEN UNCHANGED <<current, cpu>> ELSE Schedule(Visited, state)
    /\ UNCHANGED <<state, pid, issued, hook, boot, app1, app2>>

(* Mutant: the child is resumed without forked->state = pr_state_running. *)
ForkPaused ==
    /\ cpu = "user" /\ current \in alloc
    /\ \E p \in Proc : Spawn(p, "paused") /\ Resume(p)
    /\ UNCHANGED <<hook, boot, app1, app2>>

(* System call 2: the child is made running and resumed at once. *)
Fork ==
    /\ cpu = "user" /\ current \in alloc
    /\ \E p \in Proc : Spawn(p, "running") /\ Resume(p)
    /\ UNCHANGED <<hook, boot, app1, app2>>

(* cli and hlt, on the way of the program that has the CPU: no interrupt will *)
(* ever end that, and nobody else is looked at.                              *)
Panic ==
    /\ cpu = "user" /\ current \in alloc
    /\ cpu' = "panicked"
    /\ UNCHANGED <<order, alloc, state, pid, issued, current, hook, boot, app1, app2>>

(* A system call whose number is_capi does not know: is_cpanic. *)
InvalidCall == Panic

(* A page fault pg_resolve_fault refuses, or a general protection fault:     *)
(* pr_suspend pauses the process and calls pr_schedule.                      *)
Fault ==
    /\ cpu = "user" /\ current \in alloc
    /\ state' = [state EXCEPT ![current] = "paused"]
    /\ UNCHANGED order
    /\ Schedule(Visited, state')
    /\ UNCHANGED <<alloc, pid, issued, hook, boot, app1, app2>>

(* Any other exception, a division by zero for one: the handler prints the    *)
(* registers and halts.  Only the debug exception returns (is_int1).         *)
OtherException == Panic

Boot    == CreateApp1 \/ ForkApp2 \/ InstallHook \/ StartApp1 \/ StartApp2
Syscall == Exit \/ Fork \/ InvalidCall
Next    == Boot \/ Tick \/ Syscall \/ Fault \/ OtherException

Spec == Init /\ [][Next]_vars

(* The timer chip interrupts for ever, and main() runs while it has the CPU. *)
FairSpec == Spec /\ WF_vars(Tick) /\ WF_vars(Boot)

-----------------------------------------------------------------------------
(* Properties. *)

(* Injection and extraction keep the list and the heap in step: every        *)
(* process structure that is allocated is on the list, once, and no freed     *)
(* one is (pr_inject_process, pr_extract_process).                            *)
ListIsAlloc ==
    /\ \A i, k \in DOMAIN order : order[i] = order[k] => i = k
    /\ ToSet(order) = alloc

(* pr_free_pid hands out "a currently unused PID" until its counter wraps:    *)
(* no two processes have the same pid.                                        *)
UniquePids ==
    issued <= PidLimit => \A p, q \in alloc : pid[p] = pid[q] => p = q

(* While there are processes, user code runs only as one that is on the list *)
(* and in state running: pr_current never stays on a paused or freed one.     *)
CpuHasRunnable ==
    cpu = "user" /\ alloc # {} => current \in alloc /\ state[current] = "running"

(* pr_schedule gives up (hlt, or its endless loop) only when it has looked at *)
(* every process: nobody but pr_current could still run.                      *)
NobodyLeftBehind ==
    cpu \in {"halted", "spinning"} =>
        \A p \in alloc : state[p] = "running" => p = current

(* The inductive invariant: the above, with the two facts that carry them.    *)
(* Pids in use are below the counter, and main() runs only until the first    *)
(* process is resumed.                                                        *)
IInv ==
    /\ TypeOK
    /\ ListIsAlloc
    /\ UniquePids
    /\ issued <= PidLimit => \A p \in alloc : pid[p] < issued
    /\ cpu = "main" => current = NoProc
    /\ CpuHasRunnable
    /\ NobodyLeftBehind


(* The process list with its cursor implements Multitasking. *)
Tasks == INSTANCE Multitasking WITH
    live    <- alloc,
    ready   <- {p \in alloc : state[p] = "running"},
    onCpu   <- IF cpu = "user" THEN current ELSE NoProc,
    stopped <- cpu = "panicked"

(* Every step of the process manager is a step Multitasking allows: it leaves *)
(* no ready process waiting except by an act of the program on the CPU that    *)
(* stops the machine.                                                         *)
ImplementsMultitasking == Tasks!Spec

=============================================================================
