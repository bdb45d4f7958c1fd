------------------------------ MODULE Interrupts ------------------------------
(***************************************************************************)
(* Interrupts (interrupt.cpp, interrupt.s, exceptions.cpp): the two 8259,   *)
(* the interrupt descriptor table, and the way every handler ends.  The     *)
(* devices are the timer, the keyboard, the disk and whatever else has a    *)
(* line.  What the handlers do with processes is the matter of Process and  *)
(* Context, so that here pr_schedule finds a process or finds none.         *)
(***************************************************************************)
EXTENDS Integers, Sequences

CONSTANT LidtCompiled
(* interrupt.cpp:81 has lidt in a comment.  TRUE is the program the rest of   *)
(* the source is written for, FALSE the source as it stands.                  *)
ASSUME LidtAssumption == LidtCompiled \in BOOLEAN

(* Lines of a chip: 2 of the master is the slave, 7 the lowest priority.      *)
Timer == 0
Keyboard == 1
Cascade == 2
Line == {Timer, Keyboard, Cascade, 6, 7}

(* The vectors that differ: exceptions, the lines of the master from 0x20 and  *)
(* of the slave from 0x28 on, system calls, and one nobody has installed.     *)
Exception == {0, 1, 13, 14}
Vector    == Exception \cup 32 .. 47 \cup {128, 129}

VARIABLES
    master, slave,  \* the chips: requests, in service, mask, base, ICW expected
    if,             \* the interrupt flag
    idtr,           \* the table the processor uses: the kernel's, or none
    idt,            \* the kernel's: routine and DPL of each vector
    hook,           \* sched_hook is set
    obf,            \* the keyboard has a byte nobody has read
    at,             \* what the processor executes: main(), a program, a handler
    from,           \* what a handler returns to
    step            \* steps of setup_interrupts, or of a handler, already done

chips == <<master, slave>>
vars  == <<master, slave, if, idtr, idt, hook, obf, at, from, step>>

Handlers == {"is_timer", "is_keyboard", "is_8259", "is_api", "is_int", "is_int1", "is_panic"}

-----------------------------------------------------------------------------
(* The 8259. *)

(* ICW1 starts the initialization: what was latched or masked is forgotten.   *)
Command(c)  == [c EXCEPT !.irr = {}, !.isr = {}, !.imr = {}, !.icw = 2]

(* A data byte is the ICW that is expected, or else the mask.                 *)
Data(c, x) ==
    CASE c.icw = 2 -> [c EXCEPT !.base = x, !.icw = 3]
      [] c.icw = 3 -> [c EXCEPT !.icw = 4]
      [] c.icw = 4 -> [c EXCEPT !.icw = 0]
      [] OTHER     -> [c EXCEPT !.imr = x]

Highest(s) == CHOOSE n \in s : \A k \in s : n <= k

Pending(c) == {n \in c.irr \ c.imr : \A k \in c.isr : n < k}

(* The slave raises line 2 of the master.                                     *)
Requests ==
    Pending([master EXCEPT !.irr = @ \cup {n \in {Cascade} : Pending(slave) # {}}])

(* The end of interrupt command, 0x20: the highest line in service.           *)
Eoi(c) == IF c.isr = {} THEN c ELSE [c EXCEPT !.isr = @ \ {Highest(c.isr)}]

Acknowledge(c, n) == [c EXCEPT !.irr = @ \ {n}, !.isr = @ \cup {n}]

-----------------------------------------------------------------------------
(* main() *)

Chip == [irr : SUBSET Line, isr : SUBSET Line, imr : SUBSET Line, base : {0, 8, 32, 40, 112},
         icw : {0, 2, 3, 4}]

(* As the BIOS leaves them, with requests of its time.                        *)
Init ==
    /\ \E r \in SUBSET Line, b \in BOOLEAN :
        /\ master = [irr |-> r, isr |-> {}, imr |-> {}, base |-> 8, icw |-> 0]
        /\ obf = b /\ (Keyboard \in r => b)
    /\ slave = [irr |-> {}, isr |-> {}, imr |-> {}, base |-> 112, icw |-> 0]
    /\ if = FALSE /\ idtr = "boot"
    /\ idt = [v \in {} |-> <<>>]
    /\ hook = FALSE
    /\ at = "setup" /\ from = "main" /\ step = 0

(* is_install_handler *)
Gate(routine, dpl) == [routine |-> routine, dpl |-> dpl]
Install(vs, routine, dpl) ==
    idt' = [v \in DOMAIN idt \cup vs |-> IF v \in vs THEN Gate(routine, dpl) ELSE idt[v]]

(* Mutant: no ICW2 for the master. *)
WritesNoOffset ==
    << <<"master", Line>>, <<"slave", Line>>,
       <<"ICW1 master">>, <<"master", 4>>, <<"master", 5>>,
       <<"ICW1 slave">>,  <<"slave", 40>>,  <<"slave", 2>>,  <<"slave", 1>> >>

(* The writes of setup_interrupts, in their order; the PIT has no part here.  *)
Writes ==
    << <<"master", Line>>, <<"slave", Line>>,
       <<"ICW1 master">>, <<"master", 32>>, <<"master", 4>>, <<"master", 5>>,
       <<"ICW1 slave">>,  <<"slave", 40>>,  <<"slave", 2>>,  <<"slave", 1>> >>

Unmask == << <<"master", Line \ {Timer, Keyboard}>>, <<"slave", Line>> >>

Write(w) ==
    /\ master' = CASE w[1] = "master"      -> Data(master, w[2])
                   [] w[1] = "ICW1 master" -> Command(master)
                   [] OTHER                -> master
    /\ slave'  = CASE w[1] = "slave"      -> Data(slave, w[2])
                   [] w[1] = "ICW1 slave" -> Command(slave)
                   [] OTHER               -> slave

Setup(k) == at = "setup" /\ step = k /\ step' = k + 1 /\ UNCHANGED <<at, if, hook, obf, from>>

FillTable ==
    /\ Setup(0)
    /\ Install(Vector, "is_panic", 0)
    /\ idtr' = IF LidtCompiled THEN "kernel" ELSE idtr
    /\ UNCHANGED chips

SetupChips == \E k \in DOMAIN Writes : Setup(k) /\ Write(Writes[k]) /\ UNCHANGED <<idt, idtr>>

(* is_install_exception_handlers, and the gates of setup_interrupts.          *)
InstallExceptions ==
    /\ Setup(11)
    /\ idt' = [v \in Vector |-> IF v \notin 0 .. 31 THEN idt[v]
                                ELSE Gate(IF v = 1 THEN "is_int1" ELSE "is_int", 0)]
    /\ UNCHANGED <<chips, idtr>>

(* Mutant: the loop over the other lines ends too early. *)
InstallOthersShort == Setup(14) /\ Install(34 .. 38, "is_8259", 0) /\ UNCHANGED <<chips, idtr>>

InstallTimer    == Setup(12) /\ Install({32}, "is_timer", 0) /\ UNCHANGED <<chips, idtr>>
InstallKeyboard == Setup(13) /\ Install({33}, "is_keyboard", 0) /\ UNCHANGED <<chips, idtr>>
InstallOthers   == Setup(14) /\ Install(34 .. 46, "is_8259", 0) /\ UNCHANGED <<chips, idtr>>
InstallApi      == Setup(15) /\ Install({128}, "is_api", 3) /\ UNCHANGED <<chips, idtr>>

RestoreMask == \E k \in 1 .. 2 : Setup(15 + k) /\ Write(Unmask[k]) /\ UNCHANGED <<idt, idtr>>

Sti ==
    /\ at = "setup" /\ step = 18
    /\ at' = "main" /\ if' = TRUE /\ step' = 0
    /\ UNCHANGED <<chips, idtr, idt, hook, obf, from>>

(* The pg_ functions of main() run between cli and popf.                      *)
Cli ==
    /\ at = "main" /\ if /\ if' = FALSE
    /\ UNCHANGED <<chips, idtr, idt, hook, obf, at, from, step>>

(* Mutant: what pg_unmap does without a table, paging.cpp:290. *)
PopfForgotten == at = "main" /\ ~ if /\ UNCHANGED vars

Popf ==
    /\ at = "main" /\ ~ if /\ if' = TRUE
    /\ UNCHANGED <<chips, idtr, idt, hook, obf, at, from, step>>

InstallHook ==
    /\ at = "main" /\ if /\ ~ hook /\ hook' = TRUE
    /\ UNCHANGED <<chips, if, idtr, idt, obf, at, from, step>>

-----------------------------------------------------------------------------
(* Devices. *)

Running == at \notin {"halted", "reset"}

(* A tick is 55 ms long: there is none while the handler of another one runs,  *)
(* and none is withdrawn before the processor has taken it.                   *)
Tick ==
    /\ Running /\ at # "is_timer"
    /\ Timer \notin master.irr
    /\ master' = [master EXCEPT !.irr = @ \cup {Timer}]
    /\ UNCHANGED <<slave, if, idtr, idt, hook, obf, at, from, step>>

(* The keyboard raises its line until the byte has been read.                 *)
Press ==
    /\ Running
    /\ ~ obf /\ obf' = TRUE
    /\ master' = [master EXCEPT !.irr = @ \cup {Keyboard}]
    /\ UNCHANGED <<slave, if, idtr, idt, hook, at, from, step>>

(* The disk, which ata_read polls, and any other device.                      *)
Raise ==
    /\ Running
    /\ \E n \in {6, 7} :
        \/ slave'  = [slave EXCEPT !.irr = @ \cup {n}] /\ UNCHANGED master
        \/ master' = [master EXCEPT !.irr = @ \cup {n}] /\ UNCHANGED slave
    /\ UNCHANGED <<if, idtr, idt, hook, obf, at, from, step>>

-----------------------------------------------------------------------------
(* The processor. *)

Deliver(v) ==
    /\ at' = IF idtr = "kernel" THEN idt[v].routine ELSE "reset"
    /\ from' = at /\ if' = FALSE /\ step' = 0
    /\ UNCHANGED <<idtr, idt, hook, obf>>

Interruptible == if /\ at \in {"main", "program"}

Accept(n) ==
    /\ Interruptible
    /\ Requests # {} /\ n = Highest(Requests)
    /\ master' = Acknowledge(master, n)
    /\ slave'  = IF n = Cascade THEN Acknowledge(slave, Highest(Pending(slave))) ELSE slave
    /\ Deliver(IF n = Cascade THEN slave.base + Highest(Pending(slave)) ELSE master.base + n)

(* A request that is withdrawn too late is answered with vector 7 of the chip, *)
(* and nothing is in service.                                                 *)
Spurious ==
    /\ Interruptible
    /\ Deliver(master.base + 7)
    /\ UNCHANGED chips

(* A program faults, or executes int v, which is a fault itself without a gate *)
(* for ring 3.                                                                *)
Fault == at = "program" /\ (\E v \in Exception : Deliver(v)) /\ UNCHANGED chips

SoftInt ==
    /\ at = "program"
    /\ \E v \in Vector : Deliver(IF idt[v].dpl = 3 THEN v ELSE 13)
    /\ UNCHANGED chips

-----------------------------------------------------------------------------
(* The handlers, which run with interrupts off. *)

Leave(to, flag) ==
    /\ at' = to /\ if' = flag /\ step' = 0
    /\ UNCHANGED <<idtr, idt, hook, from>>

Iret == Leave(from, TRUE)
Halt == Leave("halted", FALSE)

(* pr_schedule ends in pr_resume, which does not return, or stops the CPU.     *)
Schedule == Leave("program", TRUE) \/ Halt

Further == step' = step + 1 /\ UNCHANGED <<if, idtr, idt, hook, at, from>>

(* Mutants: the timer is acknowledged after the hook, which may not return;    *)
(* the keyboard is not read.                                                  *)
IsTimerLate ==
    /\ at = "is_timer"
    /\ \/ step = 0 /\ hook /\ Schedule /\ UNCHANGED <<chips, obf>>
       \/ step = 0 /\ ~ hook /\ Further /\ UNCHANGED <<chips, obf>>
       \/ step = 1 /\ master' = Eoi(master) /\ Iret /\ UNCHANGED <<slave, obf>>

IsKeyboardUnread ==
    /\ at = "is_keyboard"
    /\ \/ step = 0 /\ Further /\ UNCHANGED <<chips, obf>>
       \/ step = 1 /\ master' = Eoi(master) /\ Iret /\ UNCHANGED <<slave, obf>>

(* is_timer: the 8259 is told before the scheduler is called.  Without a       *)
(* process pr_schedule returns.                                               *)
IsTimer ==
    /\ at = "is_timer"
    /\ \/ step = 0 /\ master' = Eoi(master) /\ Further /\ UNCHANGED <<slave, obf>>
       \/ step = 1 /\ Iret /\ UNCHANGED <<chips, obf>>
       \/ step = 1 /\ hook /\ Schedule /\ UNCHANGED <<chips, obf>>

IsKeyboard ==
    /\ at = "is_keyboard"
    /\ \/ /\ step = 0 /\ obf' = FALSE
          /\ master' = [master EXCEPT !.irr = @ \ {Keyboard}]
          /\ Further /\ UNCHANGED slave
       \/ step = 1 /\ master' = Eoi(master) /\ Iret /\ UNCHANGED <<slave, obf>>

Is8259 ==
    /\ at = "is_8259"
    /\ \/ step = 0 /\ master' = Eoi(master) /\ Further /\ UNCHANGED <<slave, obf>>
       \/ step = 1 /\ slave' = Eoi(slave) /\ Iret /\ UNCHANGED <<master, obf>>

(* is_panic only stops the CPU, and nothing leads there: NoInterruptPanics.    *)
(* System calls return, or end in pr_schedule or pr_resume; an unknown one     *)
(* panics.  A page fault is resolved, or else suspends the process, as a       *)
(* protection fault does; the other exceptions stop the CPU.                  *)
Unhandled == Halt
IsApi   == at = "is_api"   /\ (Iret \/ Schedule) /\ UNCHANGED <<chips, obf>>
IsInt   == at = "is_int"   /\ (Iret \/ Schedule \/ Unhandled) /\ UNCHANGED <<chips, obf>>
IsInt1  == at = "is_int1"  /\ Iret /\ UNCHANGED <<chips, obf>>

SetupInterrupts == FillTable \/ SetupChips \/ InstallExceptions \/ InstallTimer
                   \/ InstallKeyboard \/ InstallOthers \/ InstallApi \/ RestoreMask \/ Sti

Handler == IsTimer \/ IsKeyboard \/ Is8259 \/ IsApi \/ IsInt \/ IsInt1

Next ==
    \/ SetupInterrupts \/ Cli \/ Popf \/ InstallHook
    \/ Tick \/ Press \/ Raise
    \/ (\E n \in Line : Accept(n)) \/ Spurious
    \/ Fault \/ SoftInt
    \/ Handler

(* The processor goes on, the timer ticks, and an interrupt is taken when it   *)
(* can be time and again: it is off only in handlers and for a few            *)
(* instructions of main().                                                    *)
Fairness ==
    /\ WF_vars(SetupInterrupts) /\ WF_vars(Popf) /\ WF_vars(Handler)
    /\ WF_vars(Tick)
    /\ \A n \in Line : SF_vars(Accept(n))

Spec == Init /\ [][Next]_vars /\ Fairness

-----------------------------------------------------------------------------
(* Properties. *)

TypeOK ==
    /\ master \in Chip /\ slave \in Chip
    /\ if \in BOOLEAN /\ hook \in BOOLEAN /\ obf \in BOOLEAN
    /\ idtr \in {"boot", "kernel"}
    /\ DOMAIN idt \in {{}, Vector}
    /\ \A v \in DOMAIN idt : idt[v] \in [routine : Handlers, dpl : {0, 3}]
    /\ at \in Handlers \cup {"setup", "main", "program", "halted", "reset"}
    /\ from \in {"main", "program"} /\ step \in 0 .. 18

(* A chip holds back every line below the one in service.  So nothing may be   *)
(* in service but the line whose handler runs, until that handler has told    *)
(* the chip: not in a program, not after a handler that never returned, not    *)
(* by the commands for a spurious interrupt.                                  *)
InService ==
    IF at = "is_timer" /\ step = 0 THEN {Timer}
    ELSE IF at = "is_keyboard" THEN {Keyboard} ELSE {}

NothingLeftInService ==
    at \notin {"setup", "reset"} => master.isr = InService /\ slave.isr = {}

(* No interrupt is left to is_panic: the vectors the chips were given are      *)
(* those of the gates, and a line without a handler is masked before sti.      *)
NoInterruptPanics == at # "is_panic"

(* The timer never stops, so that the scheduler gets its turn, unless the CPU   *)
(* has been halted on purpose.                                                *)
TimerGoesOn == []<>(at \in {"is_timer", "halted"})

(* A key whose interrupt is requested after the set-up is read, though the     *)
(* timer has priority and handlers may not return.                            *)
KeysAreRead ==
    (Keyboard \in master.irr /\ at # "setup") ~> (~ obf \/ at = "halted")

=============================================================================
