---------------------------- MODULE MCAddressSpace ----------------------------
(* AddressSpace on a small instance. *)
EXTENDS AddressSpace, TLC

(* No table; a table, but no page; behind the heap; a page of the kernel.      *)
SomeStrays == {<<"other", 0>>, <<"low", E - 1>>, <<"heap", E - 1>>, <<"window", 0>>}

Symmetry == Permutations(Proc)

=============================================================================
