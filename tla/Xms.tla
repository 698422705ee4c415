-------------------------------- MODULE Xms ---------------------------------
(***************************************************************************)
(* The XMS driver, src/kernel/xms.c: a table of handles over a pool of     *)
(* extended memory counted in KB.  Allocation and query walk the gaps      *)
(* between blocks; each turn of that loop is a step of its own, because    *)
(* whether the walk ends, and what it has seen when it ends, is the        *)
(* question.  The driver is not reentered: a call in progress excludes the *)
(* others.  Bad handles are refused with no change and are left out.       *)
(***************************************************************************)
EXTENDS Integers, FiniteSets

CONSTANTS NHandles,   \* XMS_NHANDLES
          PoolStart,  \* POOL_START_KB
          PoolEnd,    \* pool_end_kb as xms_init finds it
          CountMax,   \* 0xFF: lock and A20 counts are bytes and saturate
          EmsKb,      \* sizes the EMS emulator may reserve at boot, 0: none
          Kb          \* bound of the model: sizes that clients ask for

ASSUME PoolAssumption ==
  /\ NHandles \in Nat \ {0}
  /\ PoolStart \in Nat \ {0}
  /\ PoolEnd \in Nat /\ PoolStart <= PoolEnd
  /\ CountMax \in Nat \ {0}
ASSUME SizeAssumption == Kb \subseteq Nat /\ EmsKb \subseteq Nat

VARIABLES xh,        \* the handle table
          hma_used,
          a20_count,
          call,      \* the walk in progress, or Idle
          ret        \* outcome of the last allocation or query

vars == <<xh, hma_used, a20_count, call, ret>>

H    == 0..(NHandles - 1)
Free == [used |-> FALSE]
Block(locks, base, size) == [used |-> TRUE, locks |-> locks, base |-> base, size |-> size]
Used == {h \in H : xh[h].used}

Idle  == [fn |-> "idle"]
Quiet == [fn |-> "other"]

----------------------------------------------------------------------------
\* Used blocks with a base at or above from, and the lowest, first one.
Above(from) == {h \in Used : xh[h].base >= from}
\* Mutant: the block with the lowest handle, wherever it lies.
AnyBlockAbove(from) == CHOOSE h \in Above(from) : \A k \in Above(from) : h <= k

next_block_above(from) ==
  CHOOSE h \in Above(from) :
    \A k \in Above(from) : xh[h].base < xh[k].base \/ (xh[h].base = xh[k].base /\ h <= k)

\* Mutant: the last KB of the pool is never handed out.
LimitShort(cand) ==
  IF Above(cand) = {} THEN PoolEnd - 1 ELSE xh[next_block_above(cand)].base

\* Where the gap that starts at cand ends.
Limit(cand) == IF Above(cand) = {} THEN PoolEnd ELSE xh[next_block_above(cand)].base

\* Mutant: the walk goes on at the next block, not behind it.
AtNext(cand) == xh[next_block_above(cand)].base

\* Where the walk goes on, behind the next block.
Behind(cand) == LET n == next_block_above(cand) IN xh[n].base + xh[n].size

FreeHandle == CHOOSE h \in H \ Used : \A k \in H \ Used : h <= k

xms_init ==
  /\ \E kb \in EmsKb :     \* xms_reserve, called once by ems_init
       xh = [h \in H |-> IF h = 0 /\ kb > 0 /\ PoolStart + kb <= PoolEnd
                           THEN Block(1, PoolStart, kb) ELSE Free]
  /\ hma_used = FALSE
  /\ a20_count = 0
  /\ call = Idle
  /\ ret = Quiet

\* 09h: the walk starts when a handle is free.
f09_start(kb) ==
  /\ call = Idle
  /\ Used # H
  /\ call' = [fn |-> "09", kb |-> kb, cand |-> PoolStart]
  /\ ret' = Quiet
  /\ UNCHANGED <<xh, hma_used, a20_count>>

\* The gap is wide enough: the block goes there.
f09_found ==
  /\ call.fn = "09"
  /\ call.cand + call.kb <= Limit(call.cand)
  /\ xh' = [xh EXCEPT ![FreeHandle] = Block(0, call.cand, call.kb)]
  /\ ret' = [fn |-> "09", kb |-> call.kb, ok |-> TRUE, base |-> call.cand]
  /\ call' = Idle
  /\ UNCHANGED <<hma_used, a20_count>>

f09_advance ==
  /\ call.fn = "09"
  /\ call.cand + call.kb > Limit(call.cand)
  /\ Above(call.cand) # {}
  /\ call' = [call EXCEPT !.cand = Behind(@)]
  /\ UNCHANGED <<xh, hma_used, a20_count, ret>>

\* No gap is left: XE_OUT_OF_MEM, unless the block is empty.
f09_exhausted ==
  /\ call.fn = "09"
  /\ call.cand + call.kb > Limit(call.cand)
  /\ Above(call.cand) = {}
  /\ call' = Idle
  /\ IF call.kb = 0
       THEN /\ xh' = [xh EXCEPT ![FreeHandle] = Block(0, PoolStart, 0)]
            /\ ret' = [fn |-> "09", kb |-> 0, ok |-> TRUE, base |-> PoolStart]
       ELSE /\ ret' = [fn |-> "09", kb |-> call.kb, ok |-> FALSE, base |-> 0]
            /\ UNCHANGED xh
  /\ UNCHANGED <<hma_used, a20_count>>

\* 08h: query_free.
f08_start ==
  /\ call = Idle
  /\ call' = [fn |-> "08", cand |-> PoolStart, largest |-> 0, total |-> 0]
  /\ ret' = Quiet
  /\ UNCHANGED <<xh, hma_used, a20_count>>

\* The gap in front of the next block, or of the end of the pool, is counted.
Gap == IF Limit(call.cand) > call.cand THEN Limit(call.cand) - call.cand ELSE 0
LastGap == Gap     \* mutant: the last gap, not the widest
Largest == IF Gap > call.largest THEN Gap ELSE call.largest
LastTotal == Gap   \* mutant: the last gap, not the sum
Total == call.total + Gap

f08_advance ==
  /\ call.fn = "08"
  /\ Above(call.cand) # {}
  /\ call' = [fn |-> "08", cand |-> Behind(call.cand),
              largest |-> Largest, total |-> Total]
  /\ UNCHANGED <<xh, hma_used, a20_count, ret>>

f08_end ==
  /\ call.fn = "08"
  /\ Above(call.cand) = {}
  /\ call' = Idle
  /\ ret' = [fn |-> "08", largest |-> Largest, total |-> Total]
  /\ UNCHANGED <<xh, hma_used, a20_count>>

----------------------------------------------------------------------------
\* A call that changes one handle and nothing else.
Change(h, entry) ==
  /\ call = Idle
  /\ h \in Used
  /\ xh' = [xh EXCEPT ![h] = entry]
  /\ ret' = Quiet
  /\ UNCHANGED <<hma_used, a20_count, call>>

\* Mutant: locks do not keep a block.
FreeLocked(h) == xh[h].used /\ Change(h, Free)

\* 0Ah
f0a_free(h) == xh[h].used /\ xh[h].locks = 0 /\ Change(h, Free)

\* 0Ch: the count saturates.
f0c_lock(h) ==
  /\ xh[h].used
  /\ Change(h, [xh[h] EXCEPT !.locks = IF @ < CountMax THEN @ + 1 ELSE @])

\* Mutant: a block without locks can be unlocked.
UnlockAny(h) == xh[h].used /\ Change(h, [xh[h] EXCEPT !.locks = @ - 1])

\* 0Dh
f0d_unlock(h) ==
  /\ xh[h].used
  /\ xh[h].locks # 0
  /\ Change(h, [xh[h] EXCEPT !.locks = @ - 1])

\* Mutant: blocks behind are not looked for.
RoomToEnd(h) == PoolEnd

\* What 0Fh takes for the space behind the block: up to the next block whose
\* base is above its own.
Behindroom(h) == Limit(xh[h].base + 1)

\* 0Fh: shrink in place, or grow into the space behind.
f0f_realloc(h, newkb) ==
  /\ xh[h].used
  /\ xh[h].locks = 0
  /\ newkb <= xh[h].size \/ xh[h].base + newkb <= Behindroom(h)
  /\ Change(h, [xh[h] EXCEPT !.size = newkb])

\* 01h, 02h
f01_hma(take) ==
  /\ call = Idle
  /\ hma_used = ~take
  /\ hma_used' = take
  /\ ret' = Quiet
  /\ UNCHANGED <<xh, a20_count, call>>

\* 03h/05h and 04h/06h: only the count moves, the gate stays on.
f03_a20(on) ==
  /\ call = Idle
  /\ a20_count' = IF on THEN (IF a20_count < CountMax THEN a20_count + 1 ELSE a20_count)
                  ELSE (IF a20_count # 0 THEN a20_count - 1 ELSE 0)
  /\ ret' = Quiet
  /\ UNCHANGED <<xh, hma_used, call>>

Walk == f09_found \/ f09_advance \/ f09_exhausted \/ f08_advance \/ f08_end

Next ==
  \/ \E kb \in Kb : f09_start(kb)
  \/ f09_found \/ f09_advance \/ f09_exhausted
  \/ f08_start \/ f08_advance \/ f08_end
  \/ \E h \in H : f0a_free(h) \/ f0c_lock(h) \/ f0d_unlock(h)
  \/ \E h \in H, kb \in Kb : f0f_realloc(h, kb)
  \/ \E b \in BOOLEAN : f01_hma(b) \/ f03_a20(b)

Spec == xms_init /\ [][Next]_vars

\* The processor goes on executing a call it has begun.
FairSpec == Spec /\ WF_vars(Walk)

----------------------------------------------------------------------------
Blocks == [used : {TRUE}, locks : 0..CountMax, base : Nat, size : Nat]
Calls ==
  {Idle} \cup [fn : {"09"}, kb : Kb, cand : Nat]
         \cup [fn : {"08"}, cand : Nat, largest : Nat, total : Nat]

TypeOK ==
  /\ xh \in [H -> {Free} \cup Blocks]
  /\ hma_used \in BOOLEAN
  /\ a20_count \in 0..CountMax
  /\ call \in Calls

\* The blocks of two handles share no KB, and every block lies in the pool.
End(h) == xh[h].base + xh[h].size
InPool(h) == PoolStart <= xh[h].base /\ End(h) <= PoolEnd
Disjoint(g, h) == End(g) <= xh[h].base \/ End(h) <= xh[g].base
NoOverlap ==
  /\ \A h \in Used : InPool(h)
  /\ \A g, h \in Used : g # h => Disjoint(g, h)

\* What the walk has passed is behind it: no block reaches across cand, and an
\* allocation that gets as far as cand has found no gap below it.
FreeKb(k) == \A h \in Used : k < xh[h].base \/ End(h) <= k
HasGap(from, below, kb) ==
  \E b \in from..below : b + kb <= below /\ \A k \in b..(b + kb - 1) : FreeKb(k)
WalkSound ==
  call.fn # "idle" =>
    /\ call.cand >= PoolStart
    /\ \A h \in Used : xh[h].base < call.cand => End(h) <= call.cand
    /\ call.fn = "09" => ~HasGap(PoolStart, call.cand, call.kb)

\* 09h puts a block at the lowest address with room (one KB lower the block
\* would have met another one), and answers "out of memory" only when no gap of
\* the pool is wide enough.
AllocExact ==
  ret.fn = "09" =>
    /\ ret.ok =>
         \A b \in PoolStart..(ret.base - 1) :
           \E k \in b..(b + ret.kb - 1) : ~FreeKb(k) /\ k < ret.base
    /\ ~ret.ok => ~HasGap(PoolStart, PoolEnd, ret.kb)

\* 08h answers the widest gap, so that a client that asks for the largest block
\* it was told of gets it, and the sum of all gaps: as many KB as are free.
FreeKbs(from, below) == {k \in from..(below - 1) : FreeKb(k)}
QueryExact ==
  ret.fn = "08" =>
    /\ HasGap(PoolStart, PoolEnd, ret.largest)
    /\ ~HasGap(PoolStart, PoolEnd, ret.largest + 1)
    /\ ret.total = Cardinality(FreeKbs(PoolStart, PoolEnd))

\* A block with a lock is neither freed nor resized nor moved: its linear
\* address, which 0Ch has given to a client, stays good.
Pinned ==
  \A h \in H : xh[h].used /\ xh[h].locks > 0 =>
    xh'[h].used /\ xh'[h].base = xh[h].base /\ xh'[h].size = xh[h].size
LockedStay == [][Pinned]_vars

\* Every walk ends: 08h and 09h return to their caller.
CallsReturn == (call.fn # "idle") ~> (call.fn = "idle")
=============================================================================
