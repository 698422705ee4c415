------------------------------ MODULE MCFileIO -------------------------------
(* Two directories of one entry, two clusters of two sectors, two slots. *)
EXTENDS FileIO, TLC

MCModes == {Mode(1, 2), Mode(2, 0)}
Symmetric == Permutations(Names) \cup Permutations(Vals) \cup Permutations(Dirs)
=============================================================================
