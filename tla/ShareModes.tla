----------------------------- MODULE ShareModes ------------------------------
(***************************************************************************)
(* The sharing matrix of src/kernel/share.c: which opens of one file go    *)
(* together.                                                               *)
(***************************************************************************)
EXTENDS Integers

\* The AL of an open: access 0 read, 1 write, 2 both; sharing 0 compatibility,
\* 1 deny all, 2 deny write, 3 deny read, 4 deny none.
Mode(share, access) == [share |-> share, access |-> access]
Modes == [share : 0..4, access : 0..2]

\* An open with sharing mode share lets another have access ac.
Permits(share, ac) ==
  /\ share # 1
  /\ share = 2 => ac = 0
  /\ share = 3 => ac = 1

\* Mutant: the new open's own deny bits are not held against the others.
OneSidedCompat(existing, new) ==
  IF existing.share = 0 \/ new.share = 0
    THEN existing.share = 0 /\ new.share = 0
    ELSE Permits(existing.share, new.access)

share_mode_compat(existing, new) ==
  IF existing.share = 0 \/ new.share = 0
    THEN existing.share = 0 /\ new.share = 0
    ELSE Permits(existing.share, new.access) /\ Permits(new.share, existing.access)
=============================================================================
