------------------------------- MODULE MCMouse -------------------------------
(* Instances of Mouse for TLC: two cells of two pixels.                    *)
EXTENDS Mouse

MCMoves      == {-1, 1}
MCAttributes == {<<0, 7>>, <<7, 0>>}
MCMinVisible == -2
MCPoints     == {0, 3}
=============================================================================
