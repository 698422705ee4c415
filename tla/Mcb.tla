-------------------------------- MODULE Mcb ---------------------------------
(***************************************************************************)
(* The conventional-memory manager of src/kernel/proc.c: the chain of      *)
(* Memory Control Blocks that tiles the arena.  The header at segment m    *)
(* describes the msize paragraphs that follow it, and the next header is   *)
(* at m + 1 + msize.  A walk of the chain visits the headers in address    *)
(* order, so the chain is a function from header segments to headers;      *)
(* ChainOK says that the "next" links and the 'Z' mark agree with it.      *)
(***************************************************************************)
EXTENDS Integers

CONSTANTS First,    \* CONV_ARENA_SEG: segment of the first header
          Top,      \* first segment beyond conventional memory (BDA word 413h)
          Owners,   \* PSP segments, and OWNER_SYSTEM
          MaxReq    \* bound of the model: largest BX of 48h/4Ah tried

OWNER_FREE == 0

ASSUME ArenaAssumption == First \in Nat /\ Top \in Nat /\ 0 < First /\ First < Top
ASSUME OwnersAssumption == Owners \subseteq Nat \ {OWNER_FREE}
ASSUME MaxReqAssumption == MaxReq \in Nat

VARIABLES mcb,   \* header segment |-> [sig, owner, size]
          ret    \* the last call: [fn, seg, n, ok, ax, bx]

vars == <<mcb, ret>>

Answer(fn, seg, n, ok, ax, bx) ==
  [fn |-> fn, seg |-> seg, n |-> n, ok |-> ok, ax |-> ax, bx |-> bx]

Header(sig, owner, size) == [sig |-> sig, owner |-> owner, size |-> size]

Free(c, m) == c[m].owner = OWNER_FREE

mnext(c, m) == m + 1 + c[m].size

----------------------------------------------------------------------------
\* MCB primitives: each takes a chain c and gives the chain after the call.

\* Mutant: the remainder is always marked as followed by another block.
SplitKeepsM(c, m, n) ==
  LET nm == m + 1 + n
  IN  [x \in DOMAIN c \cup {nm} |->
         IF x = m THEN Header("M", c[m].owner, n)
         ELSE IF x = nm THEN Header("M", OWNER_FREE, c[m].size - n - 1)
         ELSE c[x]]

\* The header m shrinks to n paragraphs; a new free header takes over the
\* rest of the block and m's signature.
Split(c, m, n) ==
  LET nm == m + 1 + n
  IN  [x \in DOMAIN c \cup {nm} |->
         IF x = m THEN Header("M", c[m].owner, n)
         ELSE IF x = nm THEN Header(c[m].sig, OWNER_FREE, c[m].size - n - 1)
         ELSE c[x]]

\* The free header m swallows the block behind it, signature included.
Absorb(c, m) ==
  LET n == mnext(c, m)
  IN  [x \in DOMAIN c \ {n} |->
         IF x = m THEN Header(c[n].sig, c[m].owner, c[m].size + 1 + c[n].size)
         ELSE c[x]]

\* The headers mcb_coalesce keeps: all but a free one behind a free one.
Kept(c) ==
  {m \in DOMAIN c : ~(Free(c, m) /\ \E p \in DOMAIN c : Free(c, p) /\ mnext(c, p) = m)}

\* e is the last header of the run of blocks that m, one of kept, swallows.
IsRunEnd(c, kept, m, e) ==
  /\ e >= m
  /\ \A k \in kept : ~(m < k /\ k <= e)
  /\ \A d \in DOMAIN c : d > e => \E k \in kept : m < k /\ k <= d

RunEnd(c, kept, m) == CHOOSE e \in DOMAIN c : IsRunEnd(c, kept, m, e)

mcb_coalesce(c) ==
  LET kept == Kept(c)
  IN  [m \in kept |->
         LET e == RunEnd(c, kept, m)
         IN  Header(c[e].sig, c[m].owner, e + c[e].size - m)]

Fits(c, paras) == {m \in DOMAIN c : Free(c, m) /\ c[m].size >= paras}

FirstFit(c, paras) ==
  CHOOSE m \in Fits(c, paras) : \A x \in Fits(c, paras) : m <= x

\* Guarded by Fits(c, paras) # {}: mcb_alloc answers 0 otherwise.
mcb_alloc(c, paras, owner) ==
  LET m == FirstFit(c, paras)
      s == IF c[m].size > paras THEN Split(c, m, paras) ELSE c
  IN  [s EXCEPT ![m].owner = owner]

mcb_find(c, block) == block - 1 \in DOMAIN c

\* Mutant: the freed block is not merged with its neighbours.
FreeNoCoalesce(c, block) == [c EXCEPT ![block - 1].owner = OWNER_FREE]

mcb_free(c, block) == mcb_coalesce([c EXCEPT ![block - 1].owner = OWNER_FREE])

\* Mutant: the header paragraph of the swallowed neighbour is not counted.
AvailForgetsHeader(c, m) ==
  IF c[m].sig # "Z" /\ Free(c, mnext(c, m))
    THEN c[m].size + c[mnext(c, m)].size
    ELSE c[m].size

\* Mutant: the neighbour is taken whether it is free or not.
AvailTakesNeighbour(c, m) ==
  IF c[m].sig # "Z" THEN c[m].size + 1 + c[mnext(c, m)].size ELSE c[m].size

\* What 4Ah may give the block at header m of a coalesced chain.
Avail(c, m) ==
  IF c[m].sig # "Z" /\ Free(c, mnext(c, m))
    THEN c[m].size + 1 + c[mnext(c, m)].size
    ELSE c[m].size

\* Guarded by newp <= Avail: take the free neighbour, give back the excess.
mcb_resize(c, m, newp) ==
  LET a == IF Avail(c, m) # c[m].size THEN Absorb(c, m) ELSE c
  IN  IF a[m].size > newp THEN mcb_coalesce(Split(a, m, newp)) ELSE a

mcb_largest(c) ==
  LET sizes == {c[m].size : m \in {x \in DOMAIN c : Free(c, x)}} \cup {0}
  IN  CHOOSE s \in sizes : \A t \in sizes : t <= s

\* Mutant: what a process leaves is not merged.
FreeOwnerNoCoalesce(c, psp) ==
  [m \in DOMAIN c |-> IF c[m].owner = psp THEN [c[m] EXCEPT !.owner = OWNER_FREE] ELSE c[m]]

mcb_free_owner(c, psp) ==
  mcb_coalesce([m \in DOMAIN c |->
                  IF c[m].owner = psp THEN [c[m] EXCEPT !.owner = OWNER_FREE]
                  ELSE c[m]])

mcb_set_owner(c, block, owner) == [c EXCEPT ![block - 1].owner = owner]

----------------------------------------------------------------------------
proc_init ==
  /\ mcb = [m \in {First} |-> Header("Z", OWNER_FREE, Top - First - 1)]
  /\ ret = Answer("boot", 0, 0, TRUE, 0, 0)

\* 48h: allocate paras paragraphs for owner.
f48_alloc(owner, paras) ==
  \/ /\ Fits(mcb, paras) # {}
     /\ mcb' = mcb_alloc(mcb, paras, owner)
     /\ ret' = Answer("48", 0, paras, TRUE, FirstFit(mcb, paras) + 1, 0)
  \/ /\ Fits(mcb, paras) = {}
     /\ mcb' = mcb_coalesce(mcb)
     /\ ret' = Answer("48", 0, paras, FALSE, 8, mcb_largest(mcb'))

\* 49h: free the block at segment block, whoever owns it.
f49_free(block) ==
  \/ /\ mcb_find(mcb, block)
     /\ mcb' = mcb_free(mcb, block)
     /\ ret' = Answer("49", block, 0, TRUE, 0, 0)
  \/ /\ ~mcb_find(mcb, block)
     /\ ret' = Answer("49", block, 0, FALSE, 9, 0)
     /\ UNCHANGED mcb

\* 4Ah: resize the block at segment block to newp paragraphs.
f4a_resize(block, newp) ==
  LET c == mcb_coalesce(mcb)
      m == block - 1
  IN  \/ /\ ~mcb_find(mcb, block)
         /\ ret' = Answer("4A", block, newp, FALSE, 9, 0)
         /\ UNCHANGED mcb
      \/ /\ mcb_find(mcb, block)
         /\ newp > Avail(c, m)
         /\ mcb' = c
         /\ ret' = Answer("4A", block, newp, FALSE, 8, Avail(c, m))
      \/ /\ mcb_find(mcb, block)
         /\ newp <= Avail(c, m)
         /\ mcb' = mcb_resize(c, m, newp)
         /\ ret' = Answer("4A", block, newp, TRUE, 0, 0)

\* Termination of a process gives back everything it owns.
FreeOwner(psp) ==
  /\ mcb' = mcb_free_owner(mcb, psp)
  /\ ret' = Answer("free owner", psp, 0, TRUE, 0, 0)

\* EXEC hands a block it has just allocated to the new process.
SetOwner(block, owner) ==
  /\ mcb_find(mcb, block)
  /\ ~Free(mcb, block - 1)
  /\ mcb' = mcb_set_owner(mcb, block, owner)
  /\ ret' = Answer("set owner", block, owner, TRUE, 0, 0)

Next ==
  \/ \E o \in Owners, n \in 0..MaxReq : f48_alloc(o, n)
  \/ \E b \in First..Top : f49_free(b)
  \/ \E b \in First..Top, n \in 0..MaxReq : f4a_resize(b, n)
  \/ \E o \in Owners : FreeOwner(o)
  \/ \E b \in First..Top, o \in Owners : SetOwner(b, o)

Spec == proc_init /\ [][Next]_vars

----------------------------------------------------------------------------
\* The state between two calls is well typed.
HeaderType == [sig : {"M", "Z"}, owner : Owners \cup {OWNER_FREE}, size : 0..(Top - First - 1)]

Typed(c) ==
  /\ DOMAIN c \subseteq First..(Top - 1)
  /\ c \in [DOMAIN c -> HeaderType]

TypeOK == Typed(mcb)

\* The walks of mcb_alloc, mcb_find and mcb_free_owner follow size and stop at
\* 'Z': the chain starts at First, every link leads to the next header in
\* address order, and exactly the header whose block ends at Top carries 'Z'.
\* So the blocks tile the arena: no paragraph is lost or in two blocks.
Linked(c) ==
  /\ First \in DOMAIN c
  /\ \A m \in DOMAIN c :
       /\ mnext(c, m) <= Top
       /\ mnext(c, m) < Top => mnext(c, m) \in DOMAIN c
       /\ c[m].sig = "Z" <=> mnext(c, m) = Top
       /\ \A x \in DOMAIN c : x <= m \/ mnext(c, m) <= x

ChainOK == Linked(mcb)

\* Between two calls no free block is followed by a free block.  mcb_alloc
\* does not coalesce before it looks, so without this it refuses requests
\* that the free memory could satisfy, and mcb_resize, which finds its header
\* before it coalesces, would go on with a header that is no longer a header.
Coalesced(c) == \A m, p \in DOMAIN c : Free(c, p) /\ Free(c, m) => mnext(c, p) # m

NoAdjacentFree == Coalesced(mcb)

\* The allocated blocks, as the callers of 48h see them.
Allocated == {m \in DOMAIN mcb : ~Free(mcb, m)}

Map == INSTANCE MemMap WITH
         blocks <- [m \in Allocated |-> [owner |-> mcb[m].owner, size |-> mcb[m].size]]

\* The chain implements the block map: first-fit never overlaps two blocks, a
\* call changes no block but its own, 48h and 4Ah refuse only what really has
\* no room, and the BX they answer is the largest size that has.
ImplementsMap == Map!MemSpec
=============================================================================
