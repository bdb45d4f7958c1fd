------------------------------- MODULE MCLoading -------------------------------
(* Drives of every kind, alone or not, and disks with small and large numbers. *)
EXTENDS Loading

Alone == {Primary}
AllMachines ==
    ({Alone, {Primary, <<496, 1>>, <<368, 0>>}} \X BOOLEAN \X BOOLEAN)
    \cup {<<{}, TRUE, TRUE>>, <<{<<496, 1>>}, TRUE, TRUE>>, <<{<<368, 1>>}, TRUE, TRUE>>}

Disk(first, size, tables) == [first |-> first, size |-> size, tables |-> tables, reserved |-> 1]

SomeDisks == {Disk(63, 9, 2), Disk(70000, 250, 2), Disk(63, 300, 1)}

=============================================================================
