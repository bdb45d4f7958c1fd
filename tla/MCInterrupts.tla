----------------------------- MODULE MCInterrupts -----------------------------
(* Interrupts, as intended and as compiled, and what the comments say.        *)
EXTENDS KernelSetup

(* Some address in the kernel: 0xC0015A84. *)
TssAddress == <<49153, 23172>>

(* interrupt.cpp:62, "Initializes the PICs and enables interrupts": the first  *)
(* one is taken by a handler of the kernel.                                   *)
EnablesInterrupts == at # "reset"

=============================================================================
