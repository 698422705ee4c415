------------------------------- MODULE MemMap -------------------------------
(***************************************************************************)
(* What the conventional-memory manager of src/kernel/proc.c promises its  *)
(* callers, with no chain of control blocks: a partial map from paragraph  *)
(* segments to blocks.  A block at h takes its header paragraph h and the  *)
(* paragraphs h+1 .. h+size; a request is refused only when the arena has  *)
(* no room for it, and the refusal names the largest size that would fit.  *)
(***************************************************************************)
EXTENDS Integers

CONSTANTS First,   \* segment of the first paragraph of the arena
          Top,     \* first segment beyond the arena
          Owners   \* PSP segments and OWNER_SYSTEM

VARIABLES blocks,  \* header segment |-> [owner, size], allocated blocks only
          ret      \* the last call: [fn, seg, n, ok, ax, bx]

memVars == <<blocks, ret>>

Sizes == 0..(Top - First)

\* The answer of a call of function fn for segment seg and size n.
Answer(fn, seg, n, ok, ax, bx) ==
  [fn |-> fn, seg |-> seg, n |-> n, ok |-> ok, ax |-> ax, bx |-> bx]

\* A block of n paragraphs with its header at h touches no block of b.
Room(b, h, n) ==
  /\ First <= h
  /\ h + 1 + n <= Top
  /\ \A x \in DOMAIN b : h + n < x \/ x + b[x].size < h

NoRoom(b, n) == \A h \in First..Top : ~Room(b, h, n)

\* A request for more than m finds no room, one for m does (when m > 0).
IsLargest(b, hs, m) ==
  /\ m > 0 => \E h \in hs : Room(b, h, m)
  /\ \A h \in hs : ~Room(b, h, m + 1)

Drop(b, gone) == [x \in DOMAIN b \ gone |-> b[x]]

MemInit ==
  /\ blocks = [x \in {} |-> 0]
  /\ ret = Answer("boot", 0, 0, TRUE, 0, 0)

Allocate(o, n) ==
  \/ \E h \in First..Top :
        /\ Room(blocks, h, n)
        /\ blocks' = [x \in DOMAIN blocks \cup {h} |->
                        IF x = h THEN [owner |-> o, size |-> n] ELSE blocks[x]]
        /\ ret' = Answer("48", 0, n, TRUE, h + 1, 0)
  \/ /\ NoRoom(blocks, n)
     /\ \E m \in Sizes : /\ IsLargest(blocks, First..Top, m)
                         /\ ret' = Answer("48", 0, n, FALSE, 8, m)
     /\ UNCHANGED blocks

Release(h) ==
  /\ h \in DOMAIN blocks
  /\ blocks' = Drop(blocks, {h})
  /\ ret' = Answer("49", h + 1, 0, TRUE, 0, 0)

Resize(h, n) ==
  LET others == Drop(blocks, {h})
  IN  /\ h \in DOMAIN blocks
      /\ \/ /\ Room(others, h, n)
            /\ blocks' = [blocks EXCEPT ![h].size = n]
            /\ ret' = Answer("4A", h + 1, n, TRUE, 0, 0)
         \/ /\ ~Room(others, h, n)
            /\ \E m \in Sizes : /\ IsLargest(others, {h}, m)
                                /\ ret' = Answer("4A", h + 1, n, FALSE, 8, m)
            /\ UNCHANGED blocks

\* A free or a resize of a segment that is not an allocated block leaves
\* every allocated block alone, whatever it answers.
Ignore ==
  /\ ret'.fn \in {"49", "4A"}
  /\ ret'.seg - 1 \notin DOMAIN blocks
  /\ UNCHANGED blocks

ReleaseOwner(o) ==
  /\ blocks' = Drop(blocks, {x \in DOMAIN blocks : blocks[x].owner = o})
  /\ ret' = Answer("free owner", o, 0, TRUE, 0, 0)

Rename(h, o) ==
  /\ h \in DOMAIN blocks
  /\ blocks' = [blocks EXCEPT ![h].owner = o]
  /\ ret' = Answer("set owner", h + 1, o, TRUE, 0, 0)

MemNext ==
  \/ \E o \in Owners : Allocate(o, ret'.n)
  \/ \E h \in DOMAIN blocks : Release(h) \/ Resize(h, ret'.n)
  \/ Ignore
  \/ \E o \in Owners : ReleaseOwner(o) \/ \E h \in DOMAIN blocks : Rename(h, o)

MemSpec == MemInit /\ [][MemNext]_memVars
=============================================================================
