------------------------------- MODULE MCMcb --------------------------------
(* An arena of Top - First paragraphs.  No action reads ret, so states that *)
(* differ in nothing else have the same successors: the view drops it, and  *)
(* TLC still checks the answer of every call it tries.                      *)
EXTENDS Mcb

ChainOnly == mcb
=============================================================================
