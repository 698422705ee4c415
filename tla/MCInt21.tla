------------------------------- MODULE MCInt21 -------------------------------
(* Instances of Int21 for TLC: a letter, CR, Ctrl-C, a function key.         *)
EXTENDS Int21

MCKeys == {<<45, 120>>, <<28, 13>>, <<46, 3>>, <<59, 0>>}
=============================================================================
