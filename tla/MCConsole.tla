------------------------------- MODULE MCConsole -------------------------------
(* A screen of two lines; numbers with and without zeros, in both radices.    *)
EXTENDS Console

Texts  == {<<"a", "\n">>, <<"b", "\t", "c">>, <<"\n", "\n">>}
Notice == <<"!">>

=============================================================================
