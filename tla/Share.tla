------------------------------- MODULE Share --------------------------------
(***************************************************************************)
(* The lock table of src/kernel/share.c, the built-in SHARE, as operators  *)
(* over a table t that the handle layer (module Handles) holds.  A file's  *)
(* identity, its volume and the place of its directory entry, is a member  *)
(* of Files.                                                               *)
(***************************************************************************)
EXTENDS ShareModes

CONSTANTS Files,      \* identities of files: volume + dirent location
          MaxLocks,   \* MAX_LOCKS: entries of the lock table
          Word        \* 2^32: file offsets are u32 and wrap

ASSUME MaxLocksAssumption == MaxLocks \in Nat \ {0}
ASSUME WordAssumption == Word \in Nat \ {0}

NoLock == [used |-> FALSE]
Lock(file, psp, start, len) ==
  [used |-> TRUE, file |-> file, psp |-> psp, start |-> start, len |-> len]

LockSlots == 0..(MaxLocks - 1)

same_file(l, file) == l.used /\ l.file = file

\* Mutant: only the start of the new region is tested.
StartOverlap(s1, l1, s2, l2) == s1 <= s2 /\ s2 < (s1 + l1) % Word

ranges_overlap(s1, l1, s2, l2) == s1 < (s2 + l2) % Word /\ s2 < (s1 + l1) % Word

\* What share_lock makes of an overlapping lock, its own ones included.
LockConflict(t, file, start, len) ==
  \E i \in LockSlots : /\ same_file(t[i], file)
                       /\ ranges_overlap(t[i].start, t[i].len, start, len)

\* Slots of the table that are not in use; share_lock takes the last one.
FreeLocks(t) == {i \in LockSlots : ~t[i].used}
LastFree(t) == CHOOSE i \in FreeLocks(t) : \A j \in FreeLocks(t) : j <= i

\* 5Ch/0: TRUE when the call succeeds (a zero-length lock is a no-op).
LockGranted(t, file, start, len) ==
  len = 0 \/ (~LockConflict(t, file, start, len) /\ FreeLocks(t) # {})

share_lock(t, file, psp, start, len) ==
  IF len = 0 THEN t
  ELSE [t EXCEPT ![LastFree(t)] = Lock(file, psp, start, len)]

\* 5Ch/1: the lock must be the caller's and match exactly.
Matching(t, file, psp, start, len) ==
  {i \in LockSlots : t[i] = Lock(file, psp, start, len)}

share_unlock(t, file, psp, start, len) ==
  LET i == CHOOSE k \in Matching(t, file, psp, start, len) :
             \A j \in Matching(t, file, psp, start, len) : k <= j
  IN  [t EXCEPT ![i] = NoLock]

\* The last reference to an open-file entry went away.
share_file_closed(t, files) ==
  [i \in LockSlots |-> IF t[i].used /\ t[i].file \in files THEN NoLock ELSE t[i]]

\* The process terminated.
share_psp_closed(t, psp) ==
  [i \in LockSlots |-> IF t[i].used /\ t[i].psp = psp THEN NoLock ELSE t[i]]

=============================================================================
