------------------------------ MODULE KernelSetup -----------------------------
(***************************************************************************)
(* Interrupts and descriptors together, in the order of main(): setup_gdt,  *)
(* setup_interrupts, and setup_process while interrupts are on already.     *)
(* Every gate names a segment of the table, and every process is resumed    *)
(* with segments of it, so that the one depends on the other.               *)
(***************************************************************************)
EXTENDS Interrupts

CONSTANTS GD_MAX_ENTRIES, TssBase
VARIABLES gdt, gd_nentries, gdtr, tr, done

Gdt == INSTANCE Descriptors

(* gdt-internal.h gives the table just the room for what main() adds.          *)
ASSUME TableAssumption ==
    GD_MAX_ENTRIES \in Nat /\ GD_MAX_ENTRIES >= 6 /\ TssBase \in Gdt!Word \X Gdt!Word

table == <<gdt, gd_nentries, gdtr, tr, done>>

KInit == Init /\ Gdt!Init

(* setup_gdt comes first; setup_process is interrupted at any point.          *)
Describe ==
    /\ Gdt!Next
    /\ \/ at = "setup" /\ step = 0 /\ ~ Gdt!GdtReady
       \/ at = "main" /\ if /\ Gdt!GdtReady
    /\ UNCHANGED vars

(* The processes and the hook that starts them come after setup_process.      *)
KNext ==
    \/ Describe
    \/ /\ Next /\ UNCHANGED table
       /\ Gdt!GdtReady
       /\ hook' => Gdt!ProcessReady

KSpec == KInit /\ [][KNext]_<<vars, table>> /\ Fairness /\ WF_<<vars, table>>(Describe)

-----------------------------------------------------------------------------
KernelTypeOK == TypeOK /\ Gdt!TypeOK

Selected(sel) == gdt[sel \div 8]

(* The selectors are those of the gates (0x08), of ss0 in the task state        *)
(* segment (0x10), and of the frame pr_create_process builds (0x1B, 0x23,      *)
(* 0x20).  Whenever an interrupt can come, its gate leads to a flat code segment of    *)
(* ring 0 the processor knows; when a program can run, so do the segments of   *)
(* ring 3, and the task register names a task state segment with room for the  *)
(* stack of ring 0.  setup_process changes the table while interrupts are on.  *)
SegmentsAreInForce ==
    /\ at # "setup" =>
        /\ Gdt!Loadable(8)  /\ Gdt!IsCode(Selected(8), 0)  /\ Gdt!IsFlat(Selected(8))
        /\ Gdt!Loadable(16) /\ Gdt!IsData(Selected(16), 0) /\ Gdt!IsFlat(Selected(16))
    /\ hook =>
        /\ Gdt!Loadable(27) /\ Gdt!IsCode(Selected(27), 3) /\ Gdt!IsFlat(Selected(27))
        /\ \A s \in {32, 35} :
            Gdt!Loadable(s) /\ Gdt!IsData(Selected(s), 3) /\ Gdt!IsFlat(Selected(s))
        /\ tr # 0 /\ Gdt!Loadable(tr) /\ Gdt!IsTss(Selected(tr))
        /\ Gdt!Base(Selected(tr)) = TssBase
        /\ Gdt!Limit(Selected(tr)) = <<0, 103>> /\ ~ Gdt!Pages(Selected(tr))
=============================================================================
