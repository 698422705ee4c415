----------------------------- MODULE XmsProofs ------------------------------
(***************************************************************************)
(* Theorems about the XMS pool (module Xms), for any number of handles,    *)
(* any pool and any sizes.  TypeOK and LockedStay hold as they stand.  The *)
(* others need blocks of positive size, 0 \notin Kb: a block of size zero  *)
(* shares its base with another, and the driver finds only one of them     *)
(* (README, Known deviations).                                             *)
(***************************************************************************)
EXTENDS Xms, Extremum, FiniteSetTheorems

----------------------------------------------------------------------------
\* A walk's position: nothing reaches across it, and it is the start of the
\* pool or lies just behind a block.
Reached(cand) ==
  /\ cand \in Nat
  /\ PoolStart <= cand
  /\ \A h \in Used : xh[h].base < cand => End(h) <= cand
  /\ cand = PoolStart \/ \E h \in Used : End(h) = cand

Solid == \A h \in Used : xh[h].size > 0

Pool == TypeOK /\ NoOverlap /\ Solid

\* A walk of 09h has a free handle to store its block in.
HandleLeft == call.fn = "09" => Used # H

\* What 09h and 08h know of the pool below the position of their walk.
AllocSoFar ==
  call.fn = "09" =>
    /\ call.kb \in Nat \ {0}
    /\ ~HasGap(PoolStart, call.cand, call.kb)
QuerySoFar ==
  call.fn = "08" =>
    /\ call.largest \in Nat
    /\ HasGap(PoolStart, call.cand, call.largest)
    /\ ~HasGap(PoolStart, call.cand, call.largest + 1)
    /\ call.total = Cardinality(FreeKbs(PoolStart, call.cand))

Answers ==
  /\ ret.fn \in {"other", "08", "09"}
  /\ ret.fn = "09" => ret.kb \in Nat \ {0} /\ ret.ok \in BOOLEAN /\ ret.base \in Nat

\* The inductive invariant.
IInv ==
  /\ Pool
  /\ call.fn # "idle" => Reached(call.cand)
  /\ HandleLeft
  /\ AllocSoFar
  /\ QuerySoFar
  /\ Answers
  /\ AllocExact
  /\ QueryExact

----------------------------------------------------------------------------
\* Lemmas about the pool between two steps.

LEMMA BlockTypes ==
  ASSUME TypeOK, NEW h \in Used
  PROVE  h \in H /\ xh[h].base \in Nat /\ xh[h].size \in Nat /\ xh[h].locks \in 0..CountMax
<1>1. h \in H /\ xh[h] \in {Free} \cup Blocks /\ xh[h].used
  BY DEF TypeOK, Used
<1>2. xh[h] \in Blocks
  BY <1>1 DEF Free
<1> QED BY <1>1, <1>2 DEF Blocks

\* next_block_above finds a block with the lowest base at or above from.
LEMMA NextAbove ==
  ASSUME TypeOK, NEW from \in Nat, Above(from) # {}
  PROVE  /\ next_block_above(from) \in Above(from)
         /\ \A k \in Above(from) : xh[next_block_above(from)].base <= xh[k].base
<1> DEFINE f == [h \in H |-> xh[h].base]
           First(h) == \A k \in Above(from) :
                         xh[h].base < xh[k].base \/ (xh[h].base = xh[k].base /\ h <= k)
<1>1. Above(from) \in SUBSET Nat /\ Above(from) \subseteq H
  BY PoolAssumption DEF Above, Used, H
<1>2. \A h \in Above(from) : f[h] \in Nat /\ f[h] = xh[h].base
  BY <1>1, BlockTypes DEF Above
<1> HIDE DEF f
<1>3. PICK x \in Above(from) :
        \A k \in Above(from) : f[x] < f[k] \/ (f[x] = f[k] /\ x <= k)
  BY <1>1, <1>2, NatFirstBy
<1>4. First(x)
  BY <1>2, <1>3
<1>5. next_block_above(from) \in Above(from) /\ First(next_block_above(from))
  BY <1>4, Zenon DEF next_block_above
<1>6. \A k \in Above(from) : xh[k].base \in Nat
  BY <1>2
<1> QED BY <1>5, <1>6

\* The gap that starts at cand ends in the pool, and at no block's inside.
LEMMA LimitFacts ==
  ASSUME Pool, NEW cand \in Nat
  PROVE  /\ Limit(cand) \in Nat
         /\ Limit(cand) <= PoolEnd
         /\ \A h \in Above(cand) : Limit(cand) <= xh[h].base
         /\ Above(cand) # {} => cand <= Limit(cand)
<1> USE DEF Pool
<1>1. CASE Above(cand) = {}
  BY <1>1, PoolAssumption DEF Limit
<1>2. CASE Above(cand) # {}
  <2> DEFINE n == next_block_above(cand)
  <2>1. n \in Above(cand) /\ \A k \in Above(cand) : xh[n].base <= xh[k].base
    BY <1>2, NextAbove
  <2>2. n \in Used /\ xh[n].base >= cand
    BY <2>1 DEF Above
  <2>3. xh[n].base \in Nat /\ xh[n].size \in Nat /\ End(n) <= PoolEnd
    BY <2>2, BlockTypes DEF NoOverlap, InPool
  <2>4. Limit(cand) = xh[n].base
    BY <1>2 DEF Limit
  <2> HIDE DEF n
  <2> QED BY <2>1, <2>2, <2>3, <2>4, PoolAssumption DEF End
<1> QED BY <1>1, <1>2

\* Between a position of a walk and the end of its gap everything is free.
LEMMA GapIsFree ==
  ASSUME Pool, NEW cand, Reached(cand), NEW k \in Int, cand <= k, k < Limit(cand)
  PROVE  FreeKb(k)
<1>1. ASSUME NEW h \in Used PROVE k < xh[h].base \/ End(h) <= k
  <2>1. xh[h].base \in Nat /\ End(h) \in Nat
    BY BlockTypes DEF Pool, End
  <2>2. CASE xh[h].base >= cand
    BY <2>1, <2>2, LimitFacts DEF Reached, Above
  <2>3. CASE xh[h].base < cand
    BY <2>1, <2>3 DEF Reached
  <2> QED BY <2>1, <2>2, <2>3 DEF Reached
<1> QED BY <1>1 DEF FreeKb

\* No run of free KB goes across the position of a walk.
LEMMA RunStays ==
  ASSUME Pool, NEW cand, Reached(cand), NEW kb \in Nat \ {0}, NEW b \in Int,
         PoolStart <= b, \A k \in b..(b + kb - 1) : FreeKb(k)
  PROVE  b + kb <= cand \/ cand <= b
<1> SUFFICES ASSUME b < cand, cand < b + kb PROVE FALSE
  BY DEF Reached
<1>1. PICK h \in Used : End(h) = cand
  BY PoolAssumption DEF Reached
<1>2. xh[h].base \in Nat /\ xh[h].size \in Nat /\ xh[h].size > 0
  BY BlockTypes DEF Pool, Solid
<1>3. FreeKb(cand - 1)
  BY DEF Reached
<1> QED BY <1>1, <1>2, <1>3 DEF FreeKb, End, Reached

\* Behind the next block is a position of the walk again.
LEMMA BehindReached ==
  ASSUME Pool, NEW cand, Reached(cand), Above(cand) # {}
  PROVE  Reached(Behind(cand)) /\ cand < Behind(cand)
<1> DEFINE n == next_block_above(cand)
<1>1. n \in Used /\ xh[n].base >= cand /\ cand \in Nat /\ PoolStart <= cand
  BY NextAbove DEF Above, Pool, Reached
<1>2. xh[n].base \in Nat /\ xh[n].size \in Nat /\ xh[n].size > 0
  BY <1>1, BlockTypes DEF Pool, Solid
<1>3. Behind(cand) = End(n)
  BY DEF Behind, End
<1> HIDE DEF n
<1>4. ASSUME NEW h \in Used, xh[h].base < End(n) PROVE End(h) <= End(n)
  <2>1. xh[h].base \in Nat /\ xh[h].size \in Nat
    BY BlockTypes DEF Pool
  <2>2. CASE h = n
    BY <2>2, <1>2 DEF End
  <2>3. CASE h # n
    <3>1. Disjoint(h, n)
      BY <1>1, <2>3 DEF Pool, NoOverlap
    <3> QED BY <3>1, <2>1, <1>2, <1>4 DEF Disjoint, End
  <2> QED BY <2>2, <2>3
<1> QED BY <1>1, <1>2, <1>3, <1>4, PoolAssumption DEF Reached, End

\* A walk that goes on has missed no gap.
LEMMA NoGapBehind ==
  ASSUME Pool, NEW cand, Reached(cand), Above(cand) # {}, NEW kb \in Nat \ {0},
         cand + kb > Limit(cand), ~HasGap(PoolStart, cand, kb)
  PROVE  ~HasGap(PoolStart, Behind(cand), kb)
<1> SUFFICES ASSUME NEW b \in PoolStart..Behind(cand), b + kb <= Behind(cand),
                    \A k \in b..(b + kb - 1) : FreeKb(k)
             PROVE  FALSE
  BY DEF HasGap
<1> DEFINE n == next_block_above(cand)
<1>1. n \in Used /\ xh[n].base = Limit(cand) /\ Behind(cand) = End(n)
  BY NextAbove DEF Above, Pool, Reached, Limit, Behind, End
<1>2. xh[n].base \in Nat /\ xh[n].size \in Nat /\ xh[n].size > 0
  BY <1>1, BlockTypes DEF Pool, Solid
<1> HIDE DEF n
<1>3. b \in Int /\ PoolStart <= b /\ cand \in Nat
  BY PoolAssumption, <1>1, <1>2 DEF Reached, End
<1>4. CASE b + kb <= cand
  BY <1>3, <1>4, PoolAssumption DEF HasGap
<1>5. CASE cand <= b
  <2>1. b <= xh[n].base => FALSE
    <3> SUFFICES ASSUME b <= xh[n].base PROVE FALSE
      OBVIOUS
    <3>1. xh[n].base \in b..(b + kb - 1)
      BY <1>1, <1>2, <1>3, <1>5
    <3>2. FreeKb(xh[n].base)
      BY <3>1
    <3> QED BY <3>2, <1>1, <1>2 DEF FreeKb, End
  <2>2. xh[n].base < b
    BY <2>1, <1>2, <1>3
  <2>3. FreeKb(b)
    BY <1>3
  <2>4. b < xh[n].base \/ End(n) <= b
    BY <2>3, <1>1 DEF FreeKb
  <2>5. End(n) <= b
    BY <2>2, <2>4, <1>2, <1>3
  <2> QED BY <2>5, <1>1, <1>2, <1>3 DEF End
<1> QED BY <1>3, <1>4, <1>5, RunStays

\* Behind the last block only the rest of the pool is left.
LEMMA NoGapToEnd ==
  ASSUME Pool, NEW cand, Reached(cand), NEW kb \in Nat \ {0},
         cand + kb > PoolEnd, ~HasGap(PoolStart, cand, kb)
  PROVE  ~HasGap(PoolStart, PoolEnd, kb)
<1> SUFFICES ASSUME NEW b \in PoolStart..PoolEnd, b + kb <= PoolEnd,
                    \A k \in b..(b + kb - 1) : FreeKb(k)
             PROVE  FALSE
  BY DEF HasGap
<1>1. b \in Int /\ PoolStart <= b /\ cand \in Nat
  BY PoolAssumption DEF Reached
<1>2. b + kb <= cand \/ cand <= b
  BY <1>1, RunStays
<1>3. CASE b + kb <= cand
  BY <1>1, <1>3, PoolAssumption DEF HasGap
<1> QED BY <1>1, <1>2, <1>3, PoolAssumption

\* The gap at cand is a gap of the pool, and so is every narrower one.
LEMMA GapAt ==
  ASSUME Pool, NEW cand, Reached(cand), NEW kb \in Nat, cand + kb <= Limit(cand),
         NEW below \in Nat, Limit(cand) <= below
  PROVE  HasGap(PoolStart, below, kb)
<1>1. \A k \in cand..(cand + kb - 1) : FreeKb(k)
  <2> SUFFICES ASSUME NEW k \in cand..(cand + kb - 1) PROVE FreeKb(k)
    OBVIOUS
  <2>1. k \in Int /\ cand <= k /\ k < Limit(cand)
    BY LimitFacts DEF Reached
  <2> QED BY <2>1, GapIsFree
<1>2. cand \in PoolStart..below /\ cand + kb <= below
  BY LimitFacts, PoolAssumption DEF Reached
<1> QED BY <1>1, <1>2 DEF HasGap

\* A gap is not lost by looking at more of the pool, and narrower gaps are
\* gaps too.
LEMMA GapMonotone ==
  ASSUME NEW low \in Nat, NEW high \in Nat, low <= high,
         NEW kb \in Nat, NEW wide \in Nat, kb <= wide, HasGap(PoolStart, low, wide)
  PROVE  HasGap(PoolStart, high, kb)
<1>1. PICK b \in PoolStart..low :
        b + wide <= low /\ \A k \in b..(b + wide - 1) : FreeKb(k)
  BY DEF HasGap
<1>2. b \in PoolStart..high /\ b + kb <= high
  BY <1>1, PoolAssumption
<1>3. \A k \in b..(b + kb - 1) : FreeKb(k)
  BY <1>1, PoolAssumption
<1> QED BY <1>2, <1>3 DEF HasGap

----------------------------------------------------------------------------
\* The free KB below a walk, counted.

\* The gap at cand adds its width to the free KB below cand.
LEMMA GapCounted ==
  ASSUME Pool, NEW cand, Reached(cand), cand <= Limit(cand)
  PROVE  Cardinality(FreeKbs(PoolStart, Limit(cand)))
           = Cardinality(FreeKbs(PoolStart, cand)) + (Limit(cand) - cand)
<1>1. cand \in Nat /\ Limit(cand) \in Nat /\ PoolStart \in Nat /\ PoolStart <= cand
  BY LimitFacts, PoolAssumption DEF Reached
<1> DEFINE low == FreeKbs(PoolStart, cand)
           gap == cand..(Limit(cand) - 1)
<1>2. \A k \in gap : FreeKb(k)
  BY <1>1, GapIsFree
<1>3. FreeKbs(PoolStart, Limit(cand)) = low \cup gap
  BY <1>1, <1>2 DEF FreeKbs
<1>4. low \cap gap = {}
  BY <1>1 DEF FreeKbs
<1>5. IsFiniteSet(low)
  <2>1. IsFiniteSet(PoolStart..(cand - 1))
    BY <1>1, FS_Interval
  <2> QED BY <2>1, FS_Subset DEF FreeKbs
<1>6. IsFiniteSet(gap) /\ Cardinality(gap) = Limit(cand) - cand
  <2>1. cand \in Int /\ Limit(cand) - 1 \in Int
    BY <1>1
  <2>2. /\ IsFiniteSet(gap)
        /\ Cardinality(gap) = IF cand > Limit(cand) - 1 THEN 0
                                                        ELSE (Limit(cand) - 1) - cand + 1
    BY <2>1, FS_Interval
  <2> QED BY <2>2, <1>1
<1>7. Cardinality(low \cap gap) = 0 /\ Cardinality(low) \in Nat
  BY <1>4, <1>5, FS_EmptySet, FS_CardinalityType
<1>8. Cardinality(low \cup gap) = Cardinality(low) + Cardinality(gap) - Cardinality(low \cap gap)
  BY <1>5, <1>6, FS_Union
<1> HIDE DEF low, gap
<1>9. Cardinality(low \cup gap) = Cardinality(low) + (Limit(cand) - cand)
  BY <1>1, <1>6, <1>7, <1>8
<1> QED BY <1>3, <1>9 DEF low

\* The block behind the gap adds none.
LEMMA BlockNotCounted ==
  ASSUME Pool, NEW cand, Reached(cand), Above(cand) # {}
  PROVE  FreeKbs(PoolStart, Behind(cand)) = FreeKbs(PoolStart, Limit(cand))
<1> DEFINE n == next_block_above(cand)
<1>1. n \in Used /\ xh[n].base = Limit(cand) /\ Behind(cand) = End(n)
  BY NextAbove DEF Above, Pool, Reached, Limit, Behind, End
<1>2. xh[n].base \in Nat /\ xh[n].size \in Nat
  BY <1>1, BlockTypes DEF Pool
<1> HIDE DEF n
<1>3. \A k \in Int : xh[n].base <= k /\ k < End(n) => ~FreeKb(k)
  BY <1>1, <1>2 DEF FreeKb, End
<1>4. Limit(cand) \in Nat /\ Behind(cand) \in Nat /\ Limit(cand) <= Behind(cand)
  BY <1>1, <1>2 DEF End
<1> QED BY <1>1, <1>3, <1>4, PoolAssumption DEF FreeKbs

----------------------------------------------------------------------------
\* Type correctness.

LEMMA NextTypes ==
  ASSUME TypeOK, NEW cand \in Nat
  PROVE  /\ Limit(cand) \in Nat
         /\ Above(cand) # {} => Behind(cand) \in Nat
<1>1. CASE Above(cand) = {}
  BY <1>1, PoolAssumption DEF Limit
<1>2. CASE Above(cand) # {}
  <2> DEFINE n == next_block_above(cand)
  <2>1. n \in Used
    BY <1>2, NextAbove DEF Above
  <2>2. xh[n].base \in Nat /\ xh[n].size \in Nat
    BY <2>1, BlockTypes
  <2> QED BY <1>2, <2>2 DEF Limit, Behind
<1> QED BY <1>1, <1>2

LEMMA InitTypes ==
  ASSUME xms_init
  PROVE  TypeOK
<1>1. \A kb \in EmsKb : Block(1, PoolStart, kb) \in Blocks
  BY PoolAssumption, SizeAssumption DEF Block, Blocks
<1>2. call \in Calls
  BY DEF xms_init, Calls
<1>3. hma_used = FALSE /\ a20_count = 0
  BY DEF xms_init
<1>4. 0 \in 0..CountMax
  BY PoolAssumption
<1> QED BY <1>1, <1>2, <1>3, <1>4 DEF xms_init, TypeOK

\* Change stores a block or Free where its handle points.
LEMMA ChangeTypes ==
  ASSUME TypeOK, NEW h \in H, NEW entry \in {Free} \cup Blocks, Change(h, entry)
  PROVE  TypeOK'
BY DEF Change, TypeOK

LEMMA NextTypeOK ==
  ASSUME TypeOK, [Next]_vars
  PROVE  TypeOK'
<1> USE PoolAssumption, SizeAssumption
<1>1. CASE \E kb \in Kb : f09_start(kb)
  BY <1>1 DEF TypeOK, f09_start, Calls
<1>2. CASE f09_found
  <2>1. call \in [fn : {"09"}, kb : Kb, cand : Nat]
    BY <1>2 DEF TypeOK, Calls, Idle, f09_found
  <2>2. call.cand \in Nat /\ call.kb \in Nat
    BY <2>1
  <2>3. Block(0, call.cand, call.kb) \in Blocks
    BY <2>2 DEF Block, Blocks
  <2> QED BY <1>2, <2>3 DEF TypeOK, f09_found, Calls
<1>3. CASE f09_advance
  <2>1. call \in [fn : {"09"}, kb : Kb, cand : Nat]
    BY <1>3 DEF TypeOK, Calls, Idle, f09_advance
  <2>2. Behind(call.cand) \in Nat
    BY <1>3, <2>1, NextTypes DEF f09_advance
  <2> QED BY <1>3, <2>1, <2>2 DEF TypeOK, f09_advance, Calls
<1>4. CASE f09_exhausted
  <2>1. Block(0, PoolStart, 0) \in Blocks
    BY DEF Block, Blocks
  <2> QED BY <1>4, <2>1 DEF TypeOK, f09_exhausted, Calls
<1>5. CASE f08_start
  BY <1>5 DEF TypeOK, f08_start, Calls
<1>6. CASE f08_advance
  <2>1. call \in [fn : {"08"}, cand : Nat, largest : Nat, total : Nat]
    BY <1>6 DEF TypeOK, Calls, Idle, f08_advance
  <2>2. Behind(call.cand) \in Nat /\ Limit(call.cand) \in Nat
    BY <1>6, <2>1, NextTypes DEF f08_advance
  <2>3. Gap \in Nat /\ Largest \in Nat /\ Total \in Nat
    BY <2>1, <2>2 DEF Gap, Largest, Total
  <2> QED BY <1>6, <2>2, <2>3 DEF TypeOK, f08_advance, Calls
<1>7. CASE f08_end
  BY <1>7 DEF TypeOK, f08_end, Calls
<1>8. ASSUME NEW h \in H, f0a_free(h) \/ f0c_lock(h) \/ f0d_unlock(h)
      PROVE  TypeOK'
  <2>1. xh[h] \in Blocks
    BY <1>8 DEF TypeOK, Free, f0a_free, f0c_lock, f0d_unlock
  <2>2. xh[h].locks \in 0..CountMax
    BY <2>1 DEF Blocks
  <2>3. ASSUME NEW n \in 0..CountMax PROVE [xh[h] EXCEPT !.locks = n] \in Blocks
    BY <2>1 DEF Blocks
  <2>4. CASE f0a_free(h)
    BY <2>4, ChangeTypes DEF f0a_free
  <2>5. CASE f0c_lock(h)
    <3> DEFINE n == IF xh[h].locks < CountMax THEN xh[h].locks + 1 ELSE xh[h].locks
    <3>1. n \in 0..CountMax
      BY <2>2
    <3>2. Change(h, [xh[h] EXCEPT !.locks = n])
      BY <2>5 DEF f0c_lock
    <3> QED BY <2>3, <3>1, <3>2, ChangeTypes
  <2>6. CASE f0d_unlock(h)
    <3>1. xh[h].locks - 1 \in 0..CountMax
      BY <2>2, <2>6 DEF f0d_unlock
    <3>2. Change(h, [xh[h] EXCEPT !.locks = xh[h].locks - 1])
      BY <2>6 DEF f0d_unlock
    <3> QED BY <2>3, <3>1, <3>2, ChangeTypes
  <2> QED BY <1>8, <2>4, <2>5, <2>6
<1>9. ASSUME NEW h \in H, NEW kb \in Kb, f0f_realloc(h, kb)
      PROVE  TypeOK'
  <2>1. xh[h] \in Blocks
    BY <1>9 DEF TypeOK, Free, f0f_realloc
  <2>2. [xh[h] EXCEPT !.size = kb] \in Blocks
    BY <2>1 DEF Blocks
  <2> QED BY <1>9, <2>2, ChangeTypes DEF f0f_realloc
<1>10. ASSUME NEW b \in BOOLEAN, f01_hma(b) \/ f03_a20(b)
       PROVE  TypeOK'
  BY <1>10 DEF TypeOK, f01_hma, f03_a20
<1>11. CASE UNCHANGED vars
  BY <1>11 DEF TypeOK, vars
<1> QED
  BY <1>1, <1>2, <1>3, <1>4, <1>5, <1>6, <1>7, <1>8, <1>9, <1>10, <1>11 DEF Next

\* In every state the driver's table, counts and walk have their types: no
\* lock or A20 count leaves the range of its byte, no size becomes negative.
THEOREM TypeCorrect == Spec => []TypeOK
<1>1. xms_init => TypeOK
  BY InitTypes
<1>2. TypeOK /\ [Next]_vars => TypeOK'
  BY NextTypeOK
<1> QED BY <1>1, <1>2, PTL DEF Spec

LEMMA NextHandleLeft ==
  ASSUME TypeOK, HandleLeft, [Next]_vars
  PROVE  HandleLeft'
BY DEF HandleLeft, Next, vars, Idle, Used, Change, f09_start, f09_found, f09_advance,
       f09_exhausted, f08_start, f08_advance, f08_end, f0a_free, f0c_lock, f0d_unlock,
       f0f_realloc, f01_hma, f03_a20

\* The handle 09h takes was not in use.
LEMMA FreeHandleFree ==
  ASSUME Used # H
  PROVE  FreeHandle \in H \ Used
<1>1. H \ Used \in SUBSET Nat /\ H \ Used # {}
  BY PoolAssumption DEF Used, H
<1>2. \E h \in H \ Used : \A k \in H \ Used : h <= k
  BY <1>1, NatLeast
<1> QED BY <1>2, Zenon DEF FreeHandle

\* 0Ch to 0Fh leave a locked block where it is, and walks never touch one.
THEOREM LockedBlocksStay == Spec => LockedStay
<1>1. ASSUME TypeOK, HandleLeft, [Next]_vars PROVE [Pinned]_vars
  <2> SUFFICES ASSUME Next, NEW g \in H, xh[g].used, xh[g].locks > 0
               PROVE  xh'[g].used /\ xh'[g].base = xh[g].base /\ xh'[g].size = xh[g].size
    BY <1>1 DEF Pinned
  <2>1. ASSUME xh' = xh PROVE xh'[g].used /\ xh'[g].base = xh[g].base /\ xh'[g].size = xh[g].size
    BY <2>1
  <2>2. CASE f09_found \/ f09_exhausted
    <3>1. call.fn = "09" /\ FreeHandle \in H \ Used
      BY <1>1, <2>2, FreeHandleFree DEF HandleLeft, f09_found, f09_exhausted
    <3>2. FreeHandle # g /\ g \in H /\ DOMAIN xh = H
      BY <1>1, <3>1 DEF Used, TypeOK
    <3> QED BY <2>2, <3>1, <3>2 DEF f09_found, f09_exhausted
  <2>3. ASSUME NEW h \in H, f0a_free(h) \/ f0c_lock(h) \/ f0d_unlock(h)
        PROVE  xh'[g].used /\ xh'[g].base = xh[g].base /\ xh'[g].size = xh[g].size
    <3>1. xh[h] \in Blocks
      BY <1>1, <2>3 DEF TypeOK, Free, f0a_free, f0c_lock, f0d_unlock
    <3>2. CASE f0a_free(h)
      BY <1>1, <3>2 DEF f0a_free, Change, TypeOK
    <3>3. CASE f0c_lock(h)
      BY <1>1, <3>1, <3>3 DEF f0c_lock, Change, TypeOK, Blocks
    <3>4. CASE f0d_unlock(h)
      BY <1>1, <3>1, <3>4 DEF f0d_unlock, Change, TypeOK, Blocks
    <3> QED BY <2>3, <3>2, <3>3, <3>4
  <2>4. ASSUME NEW h \in H, NEW kb \in Kb, f0f_realloc(h, kb)
        PROVE  xh'[g].used /\ xh'[g].base = xh[g].base /\ xh'[g].size = xh[g].size
    BY <1>1, <2>4 DEF f0f_realloc, Change, TypeOK
  <2> QED
    BY <2>1, <2>2, <2>3, <2>4
    DEF Next, f09_start, f09_advance, f08_start, f08_advance, f08_end, f01_hma, f03_a20
<1>2. xms_init => HandleLeft
  BY DEF xms_init, HandleLeft, Idle
<1>3. TypeOK /\ HandleLeft /\ [Next]_vars => HandleLeft'
  BY NextHandleLeft
<1> QED BY <1>1, <1>2, <1>3, TypeCorrect, PTL DEF Spec, LockedStay
----------------------------------------------------------------------------
\* The pool through the steps that change it.

\* A new block at the position of the walk, in a gap that has room for it.
LEMMA FoundPool ==
  ASSUME Pool, HandleLeft, TypeOK', f09_found, Reached(call.cand), call.kb \in Nat \ {0},
         NEW new, new = FreeHandle, NEW cand, cand = call.cand, NEW kb, kb = call.kb
  PROVE  Pool' /\ Used' = Used \cup {new} /\ new \in H \ Used
              /\ xh'[new].base = cand /\ xh'[new].size = kb
              /\ \A h \in Used : xh'[h] = xh[h]
<1>1. new \in H \ Used /\ cand \in Nat /\ PoolStart <= cand /\ kb \in Nat \ {0}
  BY FreeHandleFree DEF HandleLeft, f09_found, Reached
<1>2. xh' = [xh EXCEPT ![new] = Block(0, cand, kb)] /\ xh \in [H -> {Free} \cup Blocks]
  BY DEF f09_found, Pool, TypeOK
<1>3. /\ xh'[new] = Block(0, cand, kb)
      /\ \A h \in H : h # new => xh'[h] = xh[h]
  BY <1>1, <1>2
<1>4. Used' = Used \cup {new}
  BY <1>1, <1>3 DEF Used, Block
<1>5. cand + kb <= Limit(cand)
  BY DEF f09_found
<1>6. xh'[new].base = cand /\ xh'[new].size = kb /\ End(new)' = cand + kb
  BY <1>3 DEF Block, End
<1>7. ASSUME NEW h \in Used
      PROVE  /\ h # new /\ xh'[h] = xh[h] /\ End(h)' = End(h)
             /\ xh[h].base \in Nat /\ xh[h].size \in Nat /\ xh[h].size > 0
             /\ InPool(h)
             /\ End(h) <= cand \/ cand + kb <= xh[h].base
  <2>1. h \in H /\ h # new
    BY <1>1 DEF Used
  <2>2. xh[h].base \in Nat /\ xh[h].size \in Nat /\ xh[h].size > 0 /\ InPool(h)
    BY BlockTypes DEF Pool, Solid, NoOverlap
  <2>3. xh[h].base < cand => End(h) <= cand
    BY DEF Reached
  <2>4. xh[h].base >= cand => Limit(cand) <= xh[h].base /\ Limit(cand) \in Nat
    BY <1>1, LimitFacts DEF Above
  <2> QED BY <2>1, <2>2, <2>3, <2>4, <1>1, <1>3, <1>5 DEF End
<1>8. Limit(cand) \in Nat /\ Limit(cand) <= PoolEnd
  BY <1>1, LimitFacts
<1>9. NoOverlap'
  <2>1. ASSUME NEW h \in Used' PROVE InPool(h)'
    <3>1. CASE h = new
      BY <3>1, <1>1, <1>5, <1>6, <1>8, PoolAssumption DEF InPool
    <3>2. CASE h \in Used
      BY <3>2, <1>7 DEF InPool
    <3> QED BY <3>1, <3>2, <1>4
  <2>2. ASSUME NEW g \in Used', NEW h \in Used', g # h PROVE Disjoint(g, h)'
    <3>1. CASE g = new
      BY <3>1, <2>2, <1>4, <1>6, <1>7 DEF Disjoint
    <3>2. CASE h = new
      BY <3>2, <2>2, <1>4, <1>6, <1>7 DEF Disjoint
    <3>3. CASE g # new /\ h # new
      <4>1. g \in Used /\ h \in Used
        BY <3>3, <1>4
      <4>2. Disjoint(g, h)
        BY <4>1, <2>2 DEF Pool, NoOverlap
      <4> QED BY <4>1, <4>2, <1>7 DEF Disjoint
    <3> QED BY <3>1, <3>2, <3>3
  <2> QED BY <2>1, <2>2 DEF NoOverlap
<1>10. Solid'
  BY <1>4, <1>6, <1>7 DEF Solid
<1> QED BY <1>1, <1>3, <1>4, <1>6, <1>9, <1>10 DEF Pool, Used

\* A handle freed, locked or unlocked, or resized within its room.
LEMMA ChangePool ==
  ASSUME Pool, TypeOK', NEW h \in H, NEW entry \in {Free} \cup Blocks, Change(h, entry),
         entry.used => /\ entry.base = xh[h].base
                       /\ entry.size > 0
                       /\ \/ entry.size <= xh[h].size
                          \/ xh[h].base + entry.size <= Behindroom(h)
  PROVE  Pool'
<1>1. h \in Used /\ xh' = [xh EXCEPT ![h] = entry] /\ xh \in [H -> {Free} \cup Blocks]
  BY DEF Change, Pool, TypeOK
<1>2. xh'[h] = entry /\ \A g \in H : g # h => xh'[g] = xh[g]
  BY <1>1
<1>3. \A g \in Used' : g \in Used /\ (g = h => entry.used)
  BY <1>1, <1>2 DEF Used
<1>4. ASSUME NEW g \in Used
      PROVE  /\ g \in H /\ InPool(g) /\ (g # h => Disjoint(g, h))
             /\ xh[g].base \in Nat /\ xh[g].size \in Nat /\ xh[g].size > 0
  BY <1>1, BlockTypes DEF Pool, Solid, NoOverlap
<1>5. ASSUME entry.used
      PROVE  /\ entry.base = xh[h].base /\ entry.size \in Nat /\ entry.size > 0
             /\ entry.base + entry.size <= PoolEnd
             /\ \A g \in Used : g # h =>
                  End(g) <= entry.base \/ entry.base + entry.size <= xh[g].base
  <2>1. entry.base = xh[h].base /\ entry.size \in Nat /\ entry.size > 0
    <3>1. entry \in Blocks
      BY <1>5 DEF Free
    <3> QED BY <1>5, <3>1 DEF Blocks
  <2>2. CASE entry.size <= xh[h].size
    BY <2>1, <2>2, <1>1, <1>4, PoolAssumption DEF InPool, Disjoint, End
  <2>3. CASE xh[h].base + entry.size <= Behindroom(h)
    <3> DEFINE from == xh[h].base + 1
    <3>1. from \in Nat
      BY <1>1, <1>4
    <3>2. Behindroom(h) = Limit(from)
      BY DEF Behindroom
    <3>3. Limit(from) \in Nat /\ Limit(from) <= PoolEnd
      BY <3>1, LimitFacts
    <3>4. ASSUME NEW g \in Used, g # h
          PROVE  End(g) <= xh[h].base \/ Limit(from) <= xh[g].base
      <4>1. Disjoint(g, h) /\ xh[g].base \in Nat /\ xh[g].size > 0 /\ xh[g].size \in Nat
        BY <3>4, <1>4
      <4>2. xh[h].base \in Nat /\ xh[h].size \in Nat /\ xh[h].size > 0
        BY <1>1, <1>4
      <4>3. CASE xh[g].base >= from
        BY <4>3, <3>1, LimitFacts DEF Above
      <4>4. CASE xh[g].base < from
        BY <4>1, <4>2, <4>4 DEF Disjoint, End
      <4> QED BY <4>1, <4>2, <4>3, <4>4
    <3> HIDE DEF from
    <3> QED
      BY <2>1, <2>3, <3>2, <3>3, <3>4, <1>1, <1>4, PoolAssumption
  <2> QED BY <1>5, <2>2, <2>3
<1>6. NoOverlap'
  <2>1. ASSUME NEW g \in Used' PROVE InPool(g)'
    <3>1. CASE g = h
      BY <3>1, <1>1, <1>2, <1>3, <1>4, <1>5 DEF InPool, End
    <3>2. CASE g # h
      BY <3>2, <1>2, <1>3, <1>4 DEF InPool, End
    <3> QED BY <3>1, <3>2
  <2>2. ASSUME NEW f \in Used', NEW g \in Used', f # g PROVE Disjoint(f, g)'
    <3>1. f \in Used /\ g \in Used
      BY <1>3
    <3>2. CASE f = h
      BY <2>2, <3>1, <3>2, <1>2, <1>3, <1>4, <1>5 DEF Disjoint, End
    <3>3. CASE g = h
      BY <2>2, <3>1, <3>3, <1>2, <1>3, <1>4, <1>5 DEF Disjoint, End
    <3>4. CASE f # h /\ g # h
      <4>1. Disjoint(f, g)
        BY <2>2, <3>1 DEF Pool, NoOverlap
      <4> QED BY <4>1, <3>1, <3>4, <1>2, <1>4 DEF Disjoint, End
    <3> QED BY <3>2, <3>3, <3>4
  <2> QED BY <2>1, <2>2 DEF NoOverlap
<1>7. Solid'
  BY <1>1, <1>2, <1>3, <1>4, <1>5 DEF Solid
<1> QED BY <1>6, <1>7 DEF Pool

----------------------------------------------------------------------------
\* The walks: what they know is kept by steps that leave the table alone.

LEMMA SameTable ==
  ASSUME Pool, TypeOK', xh' = xh
  PROVE  /\ Pool'
         /\ \A c : Reached(c) => Reached(c)'
         /\ \A a, b, kb : HasGap(a, b, kb)' <=> HasGap(a, b, kb)
         /\ \A a, b : FreeKbs(a, b)' = FreeKbs(a, b)
<1>1. Used' = Used /\ \A h : End(h)' = End(h)
  BY DEF Used, End
<1>2. NoOverlap' /\ Solid'
  BY <1>1 DEF Pool, NoOverlap, Solid, InPool, Disjoint
<1>3. \A c : Reached(c) => Reached(c)'
  BY <1>1 DEF Reached
<1>4. \A k : FreeKb(k)' <=> FreeKb(k)
  BY <1>1 DEF FreeKb
<1> QED BY <1>2, <1>3, <1>4 DEF Pool, HasGap, FreeKbs

\* The widest gap up to the end of the gap at cand.
LEMMA WidestSoFar ==
  ASSUME Pool, NEW cand, Reached(cand), cand <= Limit(cand),
         NEW largest \in Nat, HasGap(PoolStart, cand, largest),
         ~HasGap(PoolStart, cand, largest + 1),
         NEW below \in Nat, Limit(cand) <= below,
         NEW widest, widest = IF Limit(cand) - cand > largest THEN Limit(cand) - cand
                                                             ELSE largest
  PROVE  /\ widest \in Nat
         /\ HasGap(PoolStart, below, widest)
         /\ ~HasGap(PoolStart, cand, widest + 1)
         /\ cand + (widest + 1) > Limit(cand)
<1>1. cand \in Nat /\ Limit(cand) \in Nat
  BY LimitFacts DEF Reached
<1>2. widest \in Nat /\ largest <= widest /\ cand + (widest + 1) > Limit(cand)
  BY <1>1
<1>3. HasGap(PoolStart, below, widest)
  <2>1. CASE Limit(cand) - cand > largest
    BY <2>1, <1>1, <1>2, GapAt
  <2>2. CASE ~(Limit(cand) - cand > largest)
    BY <2>2, <1>1, GapMonotone
  <2> QED BY <2>1, <2>2
<1>4. ~HasGap(PoolStart, cand, widest + 1)
  <2>1. widest + 1 \in Nat /\ largest + 1 \in Nat /\ largest + 1 <= widest + 1
    BY <1>2
  <2> QED BY <2>1, <1>1, GapMonotone
<1> QED BY <1>2, <1>3, <1>4

\* A position of a walk lies in the pool or at its end.
LEMMA ReachedInPool ==
  ASSUME Pool, NEW cand, Reached(cand)
  PROVE  cand <= PoolEnd
BY PoolAssumption DEF Pool, NoOverlap, InPool, Reached

LEMMA StartInv ==
  ASSUME 0 \notin Kb, IInv, TypeOK', HandleLeft', f08_start \/ \E kb \in Kb : f09_start(kb)
  PROVE  IInv'
<1> USE PoolAssumption, SizeAssumption
<1>1. xh' = xh /\ ret' = Quiet /\ call'.cand = PoolStart /\ call'.fn \in {"08", "09"}
  BY DEF f08_start, f09_start
<1>2. Pool'
  BY <1>1, SameTable DEF IInv
<1>3. Reached(PoolStart)
  BY BlockTypes DEF Reached, IInv, Pool, NoOverlap, InPool
<1>4. Reached(call.cand)'
  BY <1>1, <1>3, SameTable DEF IInv, Reached
<1>5. \A kb \in Nat \ {0} : ~HasGap(PoolStart, PoolStart, kb)
  BY DEF HasGap
<1>6. HasGap(PoolStart, PoolStart, 0)
  BY DEF HasGap
<1>7. /\ \A kb \in Nat \ {0} : ~HasGap(PoolStart, PoolStart, kb)'
      /\ HasGap(PoolStart, PoolStart, 0)'
  BY <1>1, <1>5, <1>6, SameTable DEF IInv
<1>8. AllocSoFar'
  <2> SUFFICES ASSUME call'.fn = "09"
               PROVE  call'.kb \in Nat \ {0} /\ ~HasGap(PoolStart, call.cand, call.kb)'
    BY DEF AllocSoFar
  <2>1. PICK kb \in Kb : call'.kb = kb
    BY DEF f08_start, f09_start
  <2>2. kb \in Nat \ {0}
    OBVIOUS
  <2>3. ~HasGap(PoolStart, PoolStart, kb)'
    BY <1>7, <2>2
  <2> QED BY <1>1, <2>1, <2>2, <2>3 DEF HasGap
<1>9. QuerySoFar'
  <2> SUFFICES ASSUME call'.fn = "08"
               PROVE  /\ call'.largest \in Nat
                      /\ HasGap(PoolStart, call.cand, call.largest)'
                      /\ ~HasGap(PoolStart, call.cand, call.largest + 1)'
                      /\ call'.total = Cardinality(FreeKbs(PoolStart, call.cand))'
    BY DEF QuerySoFar
  <2>1. call'.largest = 0 /\ call'.total = 0
    BY DEF f08_start, f09_start
  <2>2. ~HasGap(PoolStart, PoolStart, 1)'
    BY <1>7
  <2>3. FreeKbs(PoolStart, call.cand)' = {}
    BY <1>1 DEF FreeKbs
  <2>4. Cardinality(FreeKbs(PoolStart, call.cand))' = 0
    BY <2>3, FS_EmptySet
  <2> QED BY <1>1, <1>7, <2>1, <2>2, <2>4 DEF HasGap
<1> QED
  BY <1>1, <1>2, <1>4, <1>8, <1>9 DEF IInv, Answers, AllocExact, QueryExact, Quiet

LEMMA AdvanceAllocInv ==
  ASSUME IInv, TypeOK', HandleLeft', f09_advance
  PROVE  IInv'
<1>1. PICK cand, kb, next : cand = call.cand /\ kb = call.kb /\ next = Behind(call.cand)
  OBVIOUS
<1>2. /\ xh' = xh /\ ret' = ret
      /\ call.fn = "09" /\ Above(cand) # {} /\ cand + kb > Limit(cand)
  BY <1>1 DEF f09_advance
<1>3. call'.fn = "09" /\ call'.cand = next /\ call'.kb = kb
  <2>1. call \in [fn : {"09"}, kb : Kb, cand : Nat]
    BY <1>2 DEF IInv, Pool, TypeOK, Calls, Idle
  <2> QED BY <2>1, <1>1 DEF f09_advance
<1>4. Reached(cand) /\ kb \in Nat \ {0} /\ ~HasGap(PoolStart, cand, kb)
  BY <1>1, <1>2 DEF IInv, AllocSoFar
<1>5. Reached(next) /\ ~HasGap(PoolStart, next, kb)
  BY <1>1, <1>2, <1>4, BehindReached, NoGapBehind DEF IInv
<1>6. Reached(next)' /\ ~HasGap(PoolStart, next, kb)' /\ Pool'
  BY <1>2, <1>5, SameTable DEF IInv
<1>7. Reached(call.cand)'
  BY <1>3, <1>6 DEF Reached
<1>8. AllocSoFar' /\ QuerySoFar'
  BY <1>3, <1>4, <1>6 DEF AllocSoFar, QuerySoFar, HasGap
<1>9. Answers' /\ AllocExact' /\ QueryExact'
  BY <1>2, SameTable DEF IInv, Answers, AllocExact, QueryExact, HasGap, FreeKbs, FreeKb, Used, End
<1> QED BY <1>6, <1>7, <1>8, <1>9 DEF IInv

LEMMA QueryFacts ==
  ASSUME TypeOK, call.fn = "08"
  PROVE  call \in [fn : {"08"}, cand : Nat, largest : Nat, total : Nat]
BY DEF TypeOK, Calls, Idle

LEMMA AdvanceQueryInv ==
  ASSUME IInv, TypeOK', HandleLeft', f08_advance
  PROVE  IInv'
<1>1. PICK cand, widest, sum, next : /\ cand = call.cand /\ widest = Largest
                                     /\ sum = Total /\ next = Behind(call.cand)
  OBVIOUS
<1>2. xh' = xh /\ ret' = ret /\ call.fn = "08" /\ Above(cand) # {}
  BY <1>1 DEF f08_advance
<1>3. call'.fn = "08" /\ call'.cand = next /\ call'.largest = widest /\ call'.total = sum
  BY <1>1 DEF f08_advance
<1>4. Reached(cand) /\ cand \in Nat /\ Limit(cand) \in Nat /\ cand <= Limit(cand)
  BY <1>1, <1>2, LimitFacts DEF IInv, Reached
<1>5. Reached(next) /\ next \in Nat
  BY <1>1, <1>2, <1>4, BehindReached DEF IInv, Reached
<1>6. Limit(cand) <= next
  <2>1. next_block_above(cand) \in Used
    BY <1>2, <1>4, NextAbove DEF Above, IInv, Pool
  <2> QED BY <2>1, <1>1, <1>2, BlockTypes DEF Limit, Behind, IInv, Pool
<1>7. /\ widest \in Nat
      /\ HasGap(PoolStart, next, widest)
      /\ ~HasGap(PoolStart, cand, widest + 1)
      /\ cand + (widest + 1) > Limit(cand)
  <2>1. PICK largest : largest = call.largest
    OBVIOUS
  <2>2. /\ largest \in Nat /\ HasGap(PoolStart, cand, largest)
        /\ ~HasGap(PoolStart, cand, largest + 1)
    BY <2>1, <1>1, <1>2 DEF IInv, QuerySoFar
  <2>3. widest = IF Limit(cand) - cand > largest THEN Limit(cand) - cand ELSE largest
    BY <2>1, <2>2, <1>1, <1>4 DEF Largest, Gap
  <2> QED BY <2>2, <2>3, <1>4, <1>5, <1>6, WidestSoFar DEF IInv
<1>8. ~HasGap(PoolStart, next, widest + 1)
  <2>1. widest + 1 \in Nat \ {0}
    BY <1>7
  <2> QED BY <2>1, <1>1, <1>2, <1>4, <1>7, NoGapBehind DEF IInv
<1>9. sum = Cardinality(FreeKbs(PoolStart, next))
  <2>1. Gap = Limit(cand) - cand
    BY <1>1, <1>4 DEF Gap
  <2>2. sum = Cardinality(FreeKbs(PoolStart, cand)) + (Limit(cand) - cand)
    BY <2>1, <1>1, <1>2 DEF IInv, QuerySoFar, Total
  <2> QED BY <2>2, <1>1, <1>2, <1>4, GapCounted, BlockNotCounted DEF IInv
<1>10. /\ Pool' /\ Reached(next)'
       /\ HasGap(PoolStart, next, widest)' /\ ~HasGap(PoolStart, next, widest + 1)'
       /\ sum = Cardinality(FreeKbs(PoolStart, next))'
  BY <1>2, <1>5, <1>7, <1>8, <1>9, SameTable DEF IInv
<1>11. Reached(call.cand)'
  BY <1>3, <1>10 DEF Reached
<1>12. AllocSoFar' /\ QuerySoFar'
  BY <1>3, <1>7, <1>10 DEF AllocSoFar, QuerySoFar, HasGap, FreeKbs
<1>13. Answers' /\ AllocExact' /\ QueryExact'
  BY <1>2 DEF IInv, Answers, AllocExact, QueryExact, HasGap, FreeKbs, FreeKb, Used, End
<1> QED BY <1>10, <1>11, <1>12, <1>13 DEF IInv

LEMMA EndQueryInv ==
  ASSUME IInv, TypeOK', HandleLeft', f08_end
  PROVE  IInv'
<1>1. PICK cand, widest, sum : cand = call.cand /\ widest = Largest /\ sum = Total
  OBVIOUS
<1>2. xh' = xh /\ call' = Idle /\ call.fn = "08" /\ Above(cand) = {}
  BY <1>1 DEF f08_end
<1>3. ret'.fn = "08" /\ ret'.largest = widest /\ ret'.total = sum
  BY <1>1 DEF f08_end
<1>4. Reached(cand) /\ cand \in Nat /\ Limit(cand) = PoolEnd /\ cand <= PoolEnd
  BY <1>1, <1>2, ReachedInPool DEF IInv, Reached, Limit
<1>5. /\ widest \in Nat
      /\ HasGap(PoolStart, PoolEnd, widest)
      /\ ~HasGap(PoolStart, cand, widest + 1)
      /\ cand + (widest + 1) > PoolEnd
  <2>1. PICK largest : largest = call.largest
    OBVIOUS
  <2>2. /\ largest \in Nat /\ HasGap(PoolStart, cand, largest)
        /\ ~HasGap(PoolStart, cand, largest + 1)
    BY <2>1, <1>1, <1>2 DEF IInv, QuerySoFar
  <2>3. widest = IF Limit(cand) - cand > largest THEN Limit(cand) - cand ELSE largest
    BY <2>1, <2>2, <1>1, <1>4, PoolAssumption DEF Largest, Gap
  <2> QED BY <2>2, <2>3, <1>4, WidestSoFar, PoolAssumption DEF IInv
<1>6. ~HasGap(PoolStart, PoolEnd, widest + 1)
  <2>1. widest + 1 \in Nat \ {0}
    BY <1>5
  <2> QED BY <2>1, <1>4, <1>5, NoGapToEnd DEF IInv
<1>7. sum = Cardinality(FreeKbs(PoolStart, PoolEnd))
  <2>1. Gap = PoolEnd - cand
    BY <1>1, <1>4, PoolAssumption DEF Gap
  <2>2. sum = Cardinality(FreeKbs(PoolStart, cand)) + (PoolEnd - cand)
    BY <2>1, <1>1, <1>2 DEF IInv, QuerySoFar, Total
  <2> QED BY <2>2, <1>4, GapCounted DEF IInv
<1>8. /\ Pool' /\ HasGap(PoolStart, PoolEnd, widest)'
      /\ ~HasGap(PoolStart, PoolEnd, widest + 1)'
      /\ sum = Cardinality(FreeKbs(PoolStart, PoolEnd))'
  BY <1>2, <1>5, <1>6, <1>7, SameTable DEF IInv
<1>9. QueryExact'
  BY <1>3, <1>8 DEF QueryExact, HasGap, FreeKbs
<1> QED
  BY <1>2, <1>3, <1>8, <1>9 DEF IInv, Idle, AllocSoFar, QuerySoFar, Answers, AllocExact

LEMMA ExhaustedInv ==
  ASSUME IInv, TypeOK', HandleLeft', f09_exhausted
  PROVE  IInv'
<1>1. PICK cand, kb : cand = call.cand /\ kb = call.kb
  OBVIOUS
<1>2. /\ call.fn = "09" /\ Above(cand) = {} /\ cand + kb > PoolEnd
      /\ kb \in Nat \ {0} /\ Reached(cand) /\ ~HasGap(PoolStart, cand, kb)
  BY <1>1 DEF f09_exhausted, IInv, AllocSoFar, Limit
<1>3. /\ xh' = xh /\ call' = Idle
      /\ ret' = [fn |-> "09", kb |-> kb, ok |-> FALSE, base |-> 0]
  BY <1>1, <1>2 DEF f09_exhausted
<1>4. ~HasGap(PoolStart, PoolEnd, kb)
  BY <1>2, NoGapToEnd DEF IInv
<1>5. Pool' /\ ~HasGap(PoolStart, PoolEnd, kb)'
  BY <1>3, <1>4, SameTable DEF IInv
<1>6. AllocExact'
  BY <1>3, <1>5 DEF AllocExact, HasGap
<1> QED
  BY <1>2, <1>3, <1>5, <1>6 DEF IInv, Idle, AllocSoFar, QuerySoFar, Answers, QueryExact

LEMMA FoundInv ==
  ASSUME IInv, TypeOK', HandleLeft', f09_found
  PROVE  IInv'
<1>1. PICK cand, kb, new : cand = call.cand /\ kb = call.kb /\ new = FreeHandle
  OBVIOUS
<1>2. /\ call.fn = "09" /\ kb \in Nat \ {0} /\ Reached(cand) /\ cand \in Nat
      /\ ~HasGap(PoolStart, cand, kb)
  BY <1>1 DEF f09_found, IInv, AllocSoFar, Reached
<1>3. call' = Idle /\ ret' = [fn |-> "09", kb |-> kb, ok |-> TRUE, base |-> cand]
  BY <1>1 DEF f09_found
<1>4. /\ Pool' /\ Used' = Used \cup {new} /\ new \in H \ Used
      /\ xh'[new].base = cand /\ xh'[new].size = kb
      /\ \A h \in Used : xh'[h] = xh[h]
  BY <1>1, <1>2, FoundPool DEF IInv
<1>5. ASSUME NEW k \in Int, FreeKb(k)' PROVE FreeKb(k) /\ (k < cand \/ cand + kb <= k)
  BY <1>4, <1>5 DEF FreeKb, End
<1>6. ASSUME NEW b \in PoolStart..(cand - 1)
      PROVE  \E k \in b..(b + kb - 1) : ~FreeKb(k)' /\ k < cand
  <2> SUFFICES ASSUME \A k \in b..(b + kb - 1) : k < cand => FreeKb(k)' PROVE FALSE
    BY <1>2, PoolAssumption
  <2>1. b \in Int /\ PoolStart <= b /\ b < cand
    BY <1>2, PoolAssumption
  <2>2. cand + kb <= Limit(cand) /\ Limit(cand) \in Nat
    BY <1>1, <1>2, LimitFacts DEF f09_found, IInv
  <2>3. ASSUME NEW k \in b..(b + kb - 1) PROVE FreeKb(k)
    <3>1. CASE k < cand
      BY <3>1, <2>1, <1>2, <1>5
    <3>2. CASE ~(k < cand)
      BY <3>2, <2>1, <2>2, <1>2, GapIsFree DEF IInv
    <3> QED BY <3>1, <3>2
  <2>4. b + kb <= cand
    BY <2>1, <2>3, <1>2, RunStays DEF IInv
  <2>5. b \in PoolStart..cand
    BY <2>1, <1>2, PoolAssumption
  <2> QED BY <2>3, <2>4, <2>5, <1>2 DEF HasGap
<1>7. AllocExact'
  BY <1>3, <1>6 DEF AllocExact
<1> QED
  BY <1>2, <1>3, <1>4, <1>7 DEF IInv, Idle, AllocSoFar, QuerySoFar, Answers, QueryExact

LEMMA ChangeInv ==
  ASSUME 0 \notin Kb, IInv, TypeOK', HandleLeft', NEW h \in H,
         \/ f0a_free(h) \/ f0c_lock(h) \/ f0d_unlock(h)
         \/ \E kb \in Kb : f0f_realloc(h, kb)
  PROVE  IInv'
<1>1. xh[h] \in Blocks /\ xh[h].size > 0 /\ h \in Used
  <2>1. xh[h].used
    BY DEF f0a_free, f0c_lock, f0d_unlock, f0f_realloc
  <2>2. h \in Used
    BY <2>1 DEF Used
  <2>3. xh[h] \in Blocks
    BY <2>1 DEF IInv, Pool, TypeOK, Free
  <2> QED BY <2>2, <2>3 DEF IInv, Pool, Solid
<1>2. Pool' /\ call' = Idle /\ ret' = Quiet
  <2>1. CASE f0a_free(h)
    BY <2>1, ChangePool DEF f0a_free, Change, IInv, Free
  <2>2. ASSUME NEW n \in 0..CountMax, Change(h, [xh[h] EXCEPT !.locks = n])
        PROVE  Pool' /\ call' = Idle /\ ret' = Quiet
    <3> DEFINE entry == [xh[h] EXCEPT !.locks = n]
    <3>1. entry \in Blocks /\ entry.base = xh[h].base /\ entry.size = xh[h].size
      BY <1>1 DEF Blocks
    <3>2. entry.size > 0 /\ entry.size <= xh[h].size
      BY <3>1, <1>1 DEF Blocks
    <3>3. Change(h, entry)
      BY <2>2
    <3> HIDE DEF entry
    <3> QED BY <3>1, <3>2, <3>3, ChangePool DEF Change, IInv
  <2>3. CASE f0c_lock(h) \/ f0d_unlock(h)
    <3>1. xh[h].locks \in 0..CountMax
      BY <1>1 DEF Blocks
    <3>2. CASE f0c_lock(h)
      <4> DEFINE n == IF xh[h].locks < CountMax THEN xh[h].locks + 1 ELSE xh[h].locks
      <4>1. n \in 0..CountMax
        BY <3>1, PoolAssumption
      <4>2. Change(h, [xh[h] EXCEPT !.locks = n])
        BY <3>2 DEF f0c_lock
      <4> QED BY <4>1, <4>2, <2>2
    <3>3. CASE f0d_unlock(h)
      <4>1. xh[h].locks - 1 \in 0..CountMax
        BY <3>1, <3>3, PoolAssumption DEF f0d_unlock
      <4>2. Change(h, [xh[h] EXCEPT !.locks = xh[h].locks - 1])
        BY <3>3 DEF f0d_unlock
      <4> QED BY <4>1, <4>2, <2>2
    <3> QED BY <2>3, <3>2, <3>3
  <2>4. ASSUME NEW kb \in Kb, f0f_realloc(h, kb)
        PROVE  Pool' /\ call' = Idle /\ ret' = Quiet
    <3> DEFINE entry == [xh[h] EXCEPT !.size = kb]
    <3>1. kb \in Nat /\ kb > 0
      BY SizeAssumption
    <3>2. entry \in Blocks /\ entry.base = xh[h].base /\ entry.size = kb
      BY <1>1, <3>1 DEF Blocks
    <3>3. Change(h, entry) /\ (kb <= xh[h].size \/ xh[h].base + kb <= Behindroom(h))
      BY <2>4 DEF f0f_realloc
    <3> HIDE DEF entry
    <3> QED BY <3>1, <3>2, <3>3, ChangePool DEF Change, IInv
  <2> QED BY <2>1, <2>3, <2>4
<1> QED
  BY <1>2 DEF IInv, Idle, Quiet, AllocSoFar, QuerySoFar, Answers, AllocExact, QueryExact

LEMMA OtherInv ==
  ASSUME IInv, TypeOK', HandleLeft', xh' = xh, call' = call, ret' \in {ret, Quiet}
  PROVE  IInv'
<1>1. Pool'
  BY SameTable DEF IInv
<1>2. Reached(call.cand) => Reached(call.cand)'
  BY DEF Reached, Used, End
<1>3. AllocSoFar' /\ QuerySoFar'
  BY DEF IInv, AllocSoFar, QuerySoFar, HasGap, FreeKbs, FreeKb, Used, End
<1>4. Answers' /\ AllocExact' /\ QueryExact'
  BY DEF IInv, Quiet, Answers, AllocExact, QueryExact, HasGap, FreeKbs, FreeKb, Used, End
<1> QED BY <1>1, <1>2, <1>3, <1>4 DEF IInv

----------------------------------------------------------------------------
\* The invariant.

LEMMA InitInv ==
  ASSUME xms_init
  PROVE  IInv
<1>1. TypeOK
  BY InitTypes
<1>2. PICK kb \in EmsKb :
        xh = [h \in H |-> IF h = 0 /\ kb > 0 /\ PoolStart + kb <= PoolEnd
                            THEN Block(1, PoolStart, kb) ELSE Free]
  BY DEF xms_init
<1>3. \A h \in Used : /\ h = 0 /\ kb > 0 /\ PoolStart + kb <= PoolEnd
                      /\ xh[h].base = PoolStart /\ xh[h].size = kb
  BY <1>2 DEF Used, Free, Block
<1>4. NoOverlap /\ Solid
  BY <1>3, PoolAssumption, SizeAssumption DEF NoOverlap, InPool, End, Solid
<1> QED
  BY <1>1, <1>4 DEF xms_init, IInv, Pool, HandleLeft, AllocSoFar, QuerySoFar, Answers,
                    AllocExact, QueryExact, Idle, Quiet

LEMMA NextInv ==
  ASSUME 0 \notin Kb, IInv, [Next]_vars
  PROVE  IInv'
<1>1. TypeOK' /\ HandleLeft'
  BY NextTypeOK, NextHandleLeft DEF IInv, Pool
<1>2. CASE f08_start \/ \E kb \in Kb : f09_start(kb)
  BY <1>1, <1>2, StartInv
<1>3. CASE f09_advance
  BY <1>1, <1>3, AdvanceAllocInv
<1>4. CASE f08_advance
  BY <1>1, <1>4, AdvanceQueryInv
<1>5. CASE f08_end
  BY <1>1, <1>5, EndQueryInv
<1>6. CASE f09_exhausted
  BY <1>1, <1>6, ExhaustedInv
<1>7. CASE f09_found
  BY <1>1, <1>7, FoundInv
<1>8. ASSUME NEW h \in H, \/ f0a_free(h) \/ f0c_lock(h) \/ f0d_unlock(h)
                          \/ \E kb \in Kb : f0f_realloc(h, kb)
      PROVE  IInv'
  BY <1>1, <1>8, ChangeInv
<1>9. ASSUME NEW b \in BOOLEAN, f01_hma(b) \/ f03_a20(b)
      PROVE  IInv'
  BY <1>1, <1>9, OtherInv DEF f01_hma, f03_a20
<1>10. CASE UNCHANGED vars
  BY <1>1, <1>10, OtherInv DEF vars
<1> QED BY <1>2, <1>3, <1>4, <1>5, <1>6, <1>7, <1>8, <1>9, <1>10 DEF Next

THEOREM Inductive ==
  ASSUME 0 \notin Kb
  PROVE  Spec => []IInv
<1>1. xms_init => IInv
  BY InitInv
<1>2. IInv /\ [Next]_vars => IInv'
  BY NextInv
<1> QED BY <1>1, <1>2, PTL DEF Spec

\* No two XMS handles ever share a KB, and every block lies in the pool: what
\* a client moves into its block, no other client loses.
THEOREM NoSharedMemory ==
  ASSUME 0 \notin Kb
  PROVE  Spec => []NoOverlap
<1>1. IInv => NoOverlap
  BY DEF IInv, Pool
<1> QED BY <1>1, Inductive, PTL

\* The loop of 08h and 09h has missed no gap below where it stands.
THEOREM WalksSound ==
  ASSUME 0 \notin Kb
  PROVE  Spec => []WalkSound
<1>1. IInv => WalkSound
  BY DEF IInv, Reached, AllocSoFar, WalkSound
<1> QED BY <1>1, Inductive, PTL

\* 09h is first fit: no place below the block had room.  It says "out of
\* memory" only when no gap is wide enough.
THEOREM AllocationExact ==
  ASSUME 0 \notin Kb
  PROVE  Spec => []AllocExact
<1>1. IInv => AllocExact
  BY DEF IInv
<1> QED BY <1>1, Inductive, PTL

\* 08h reports the widest gap of the pool and the number of its free KB, neither
\* more nor less.
THEOREM QueryIsExact ==
  ASSUME 0 \notin Kb
  PROVE  Spec => []QueryExact
<1>1. IInv => QueryExact
  BY DEF IInv
<1> QED BY <1>1, Inductive, PTL
=============================================================================
