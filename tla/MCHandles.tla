----------------------------- MODULE MCHandles ------------------------------
(* Two processes besides the kernel, two slots for programs, two files. *)
EXTENDS Handles

MCModes == {Mode(0, 2), Mode(4, 2), Mode(2, 0)}
MCRegions == {<<0, 2>>, <<1, 2>>}
=============================================================================
