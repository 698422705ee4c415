------------------------------- MODULE MCXms --------------------------------
(* A pool of a few KB and three handles. *)
EXTENDS Xms
=============================================================================
