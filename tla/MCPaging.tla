------------------------------- MODULE MCPaging -------------------------------
(* Paging on a small instance, and what the comments of the code say.        *)
EXTENDS Paging, TLC

Symmetry == Permutations(Proc)

(* paging.cpp:369, "Copy page table and set copy-on-write on each PTE": there *)
(* is a table to copy, also when the other sharers of it have exited.         *)
CopiesATable == broken # "uninit"

=============================================================================
