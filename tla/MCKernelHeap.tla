----------------------------- MODULE MCKernelHeap -----------------------------
(* KernelHeap on a small instance. *)
EXTENDS KernelHeap

=============================================================================
