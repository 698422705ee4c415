--------------------------- MODULE ProcessProofs ----------------------------
(***************************************************************************)
(* Theorems about the MCB chain (module Mcb), for any arena, any owners    *)
(* and requests of any size, and about processes over the chain (module    *)
(* Process), for any program files.                                        *)
(*                                                                         *)
(* First the chain alone: between two calls it is whole, no two free       *)
(* blocks are neighbours, and it implements a map of blocks.  The proofs   *)
(* about processes then speak of the allocated blocks (Blocks): a call     *)
(* changes no block but those of the process that makes it, and a merged   *)
(* chain is determined by its blocks.                                      *)
(***************************************************************************)
EXTENDS Process, Extremum

----------------------------------------------------------------------------
(* The chain.                                                              *)

Chain(c) == Typed(c) /\ Linked(c)

----------------------------------------------------------------------------
\* One header.

LEMMA HeaderFacts ==
  ASSUME NEW c, Chain(c), NEW m \in DOMAIN c
  PROVE  /\ m \in Nat /\ First <= m /\ m < Top
         /\ c[m] \in HeaderType
         /\ c[m].size \in Nat /\ c[m].size <= Top - First - 1
         /\ c[m].owner \in Owners \cup {OWNER_FREE}
         /\ c[m].sig \in {"M", "Z"}
         /\ mnext(c, m) \in Nat /\ m < mnext(c, m) /\ mnext(c, m) <= Top
         /\ mnext(c, m) < Top => mnext(c, m) \in DOMAIN c
         /\ c[m].sig = "Z" <=> mnext(c, m) = Top
         /\ \A x \in DOMAIN c : x <= m \/ mnext(c, m) <= x
<1>1. m \in First..(Top - 1) /\ c[m] \in HeaderType
  BY DEF Chain, Typed
<1>2. m \in Nat /\ First <= m /\ m < Top
  BY <1>1, ArenaAssumption
<1>3. /\ c[m].size \in 0..(Top - First - 1)
      /\ c[m].owner \in Owners \cup {OWNER_FREE} /\ c[m].sig \in {"M", "Z"}
  BY <1>1 DEF HeaderType
<1>4. c[m].size \in Nat /\ c[m].size <= Top - First - 1
  BY <1>3, ArenaAssumption
<1>5. mnext(c, m) \in Nat /\ m < mnext(c, m)
  BY <1>2, <1>4 DEF mnext
<1> QED BY <1>1, <1>2, <1>3, <1>4, <1>5 DEF Chain, Linked

\* A chain is whole again when owners alone have changed.
LEMMA OwnerChain ==
  ASSUME NEW c, Chain(c), NEW d, d \in [DOMAIN c -> HeaderType],
         \A m \in DOMAIN c : d[m].sig = c[m].sig /\ d[m].size = c[m].size
  PROVE  Chain(d)
<1>1. DOMAIN d = DOMAIN c /\ \A m \in DOMAIN c : mnext(d, m) = mnext(c, m)
  BY DEF mnext
<1>2. Typed(d)
  BY <1>1 DEF Chain, Typed
<1>3. Linked(d)
  BY <1>1 DEF Chain, Linked
<1> QED BY <1>2, <1>3 DEF Chain

----------------------------------------------------------------------------
\* The merging pass.

\* The run that a kept header swallows ends at Top or at the next kept one.
LEMMA RunEndFacts ==
  ASSUME NEW c, Chain(c), NEW m \in Kept(c), NEW e, e = RunEnd(c, Kept(c), m)
  PROVE  /\ e \in DOMAIN c /\ m \in DOMAIN c /\ m <= e
         /\ \A k \in Kept(c) : ~(m < k /\ k <= e)
         /\ mnext(c, e) = Top \/ mnext(c, e) \in Kept(c)
         /\ \A k \in Kept(c) : k <= m \/ mnext(c, e) <= k
<1> DEFINE kept == Kept(c)
           S == {d \in DOMAIN c : m <= d /\ \A k \in kept : ~(m < k /\ k <= d)}
<1>1. kept \subseteq DOMAIN c /\ m \in DOMAIN c /\ m \in kept
  BY DEF Kept
<1>2. \A d \in DOMAIN c : d \in Nat /\ d <= Top
  BY HeaderFacts, ArenaAssumption
<1>3. S \in SUBSET Nat /\ m \in S /\ \A d \in S : d <= Top
  BY <1>1, <1>2
<1> HIDE DEF kept
<1>4. PICK g \in S : \A d \in S : d <= g
  BY <1>3, NatGreatest, ArenaAssumption
<1>5. IsRunEnd(c, kept, m, g)
  <2> SUFFICES ASSUME NEW d \in DOMAIN c, d > g PROVE \E k \in kept : m < k /\ k <= d
    BY <1>4 DEF IsRunEnd
  <2>1. d \notin S
    BY <1>2, <1>3, <1>4
  <2>2. m <= d
    BY <1>1, <1>2, <1>4
  <2> QED BY <2>1, <2>2
<1>6. e \in DOMAIN c /\ IsRunEnd(c, kept, m, e)
  BY <1>4, <1>5 DEF RunEnd, kept
<1>7. m <= e /\ \A k \in kept : ~(m < k /\ k <= e)
  BY <1>6 DEF IsRunEnd
<1>8. ASSUME NEW k \in kept PROVE k <= m \/ mnext(c, e) <= k
  <2>1. k \in Nat /\ m \in Nat /\ e \in Nat /\ (k <= e \/ mnext(c, e) <= k)
    BY <1>1, <1>2, <1>6, HeaderFacts
  <2> QED BY <2>1, <1>7
<1>9. ASSUME mnext(c, e) # Top PROVE mnext(c, e) \in kept
  <2>1. mnext(c, e) \in DOMAIN c /\ mnext(c, e) > e /\ mnext(c, e) \in Nat
    BY <1>6, <1>9, HeaderFacts, ArenaAssumption
  <2>2. PICK k \in kept : m < k /\ k <= mnext(c, e)
    BY <1>6, <2>1 DEF IsRunEnd
  <2>3. mnext(c, e) <= k
    BY <2>2, <1>1, <1>2, <1>8
  <2> QED BY <2>1, <2>2, <2>3, <1>1, <1>2
<1> QED BY <1>1, <1>6, <1>7, <1>8, <1>9 DEF kept

LEMMA FirstKept ==
  ASSUME NEW c, Chain(c)
  PROVE  First \in Kept(c)
<1>1. First \in DOMAIN c
  BY DEF Chain, Linked
<1>2. \A p \in DOMAIN c : First < mnext(c, p)
  BY HeaderFacts, ArenaAssumption
<1> QED BY <1>1, <1>2, ArenaAssumption DEF Kept

\* One pass makes a whole chain of any whole chain, and leaves no two free
\* blocks side by side.
LEMMA CoalesceChain ==
  ASSUME NEW c, Chain(c), NEW d, d = mcb_coalesce(c)
  PROVE  Chain(d) /\ Coalesced(d)
<1> DEFINE e == [m \in Kept(c) |-> RunEnd(c, Kept(c), m)]
<1>1. DOMAIN d = Kept(c) /\ Kept(c) \subseteq DOMAIN c
  BY DEF mcb_coalesce, Kept
<1>2. ASSUME NEW m \in Kept(c)
      PROVE  /\ e[m] \in DOMAIN c /\ m \in DOMAIN c /\ m <= e[m]
             /\ \A k \in Kept(c) : ~(m < k /\ k <= e[m])
             /\ mnext(c, e[m]) = Top \/ mnext(c, e[m]) \in Kept(c)
             /\ \A k \in Kept(c) : k <= m \/ mnext(c, e[m]) <= k
  BY RunEndFacts
<1>3. ASSUME NEW m \in Kept(c)
      PROVE  d[m] = [sig |-> c[e[m]].sig, owner |-> c[m].owner, size |-> e[m] + c[e[m]].size - m]
  BY DEF mcb_coalesce, Header
<1> HIDE DEF e
<1>4. ASSUME NEW m \in Kept(c)
      PROVE  /\ d[m] \in HeaderType
             /\ d[m].sig = c[e[m]].sig /\ d[m].owner = c[m].owner
             /\ mnext(d, m) = mnext(c, e[m])
  <2>1. /\ e[m] \in Nat /\ c[e[m]].size \in Nat /\ c[e[m]].sig \in {"M", "Z"}
        /\ mnext(c, e[m]) <= Top
    BY <1>2, HeaderFacts
  <2>2. m \in Nat /\ First <= m /\ c[m].owner \in Owners \cup {OWNER_FREE}
    BY <1>2, HeaderFacts
  <2>3. e[m] + c[e[m]].size - m \in 0..(Top - First - 1)
    BY <1>2, <2>1, <2>2, ArenaAssumption DEF mnext
  <2>4. PICK sig, owner, size : /\ sig = c[e[m]].sig /\ owner = c[m].owner
                                /\ size = e[m] + c[e[m]].size - m
    OBVIOUS
  <2>5. d[m] = [sig |-> sig, owner |-> owner, size |-> size]
    BY <1>3, <2>4
  <2>6. d[m].size = size /\ d[m].sig = sig /\ d[m].owner = owner
    BY <2>5
  <2>7. mnext(d, m) = mnext(c, e[m])
    BY <2>1, <2>2, <2>4, <2>6 DEF mnext
  <2>8. sig \in {"M", "Z"} /\ owner \in Owners \cup {OWNER_FREE} /\ size \in 0..(Top - First - 1)
    BY <2>1, <2>2, <2>3, <2>4
  <2>9. d[m] \in HeaderType
    BY <2>5, <2>8 DEF HeaderType
  <2> QED BY <2>4, <2>6, <2>7, <2>9
<1>5. Typed(d)
  <2>1. DOMAIN d \subseteq First..(Top - 1)
    BY <1>1 DEF Chain, Typed
  <2>2. d = [m \in DOMAIN d |-> d[m]]
    BY DEF mcb_coalesce
  <2>3. \A m \in DOMAIN d : d[m] \in HeaderType
    BY <1>1, <1>4
  <2> QED BY <2>1, <2>2, <2>3 DEF Typed
<1>6. Linked(d)
  <2>1. First \in DOMAIN d
    BY <1>1, FirstKept
  <2>2. ASSUME NEW m \in DOMAIN d
        PROVE  /\ mnext(d, m) <= Top
               /\ mnext(d, m) < Top => mnext(d, m) \in DOMAIN d
               /\ d[m].sig = "Z" <=> mnext(d, m) = Top
               /\ \A x \in DOMAIN d : x <= m \/ mnext(d, m) <= x
    <3>1. m \in Kept(c) /\ e[m] \in DOMAIN c
      BY <1>1, <1>2
    <3>2. mnext(c, e[m]) <= Top /\ (c[e[m]].sig = "Z" <=> mnext(c, e[m]) = Top)
      BY <3>1, HeaderFacts
    <3> QED BY <3>1, <3>2, <1>1, <1>2, <1>4, ArenaAssumption
  <2> QED BY <2>1, <2>2 DEF Linked
<1>7. Coalesced(d)
  <2> SUFFICES ASSUME NEW m \in DOMAIN d, NEW p \in DOMAIN d,
                      Free(d, p), Free(d, m), mnext(d, p) = m
               PROVE  FALSE
    BY DEF Coalesced
  <2>1. m \in Kept(c) /\ p \in Kept(c) /\ Free(c, m) /\ Free(c, p)
    BY <1>1, <1>4 DEF Free
  <2>2. e[p] \in DOMAIN c /\ mnext(c, e[p]) = m
    BY <2>1, <1>2, <1>4
  <2>3. Free(c, e[p])
    <3>1. CASE e[p] = p
      BY <3>1, <2>1
    <3>2. CASE e[p] # p
      <4>1. e[p] \notin Kept(c)
        <5>1. p \in Nat /\ e[p] \in Nat /\ p <= e[p]
          BY <2>1, <1>2, HeaderFacts
        <5> QED BY <5>1, <3>2, <2>1, <1>2
      <4> QED BY <4>1, <2>2 DEF Kept
    <3> QED BY <3>1, <3>2
  <2> QED BY <2>1, <2>2, <2>3 DEF Kept
<1> QED BY <1>5, <1>6, <1>7 DEF Chain

\* There is nothing to merge where no free block follows a free one.
LEMMA CoalesceNothing ==
  ASSUME NEW c, Chain(c), Coalesced(c)
  PROVE  mcb_coalesce(c) = c
<1>1. Kept(c) = DOMAIN c
  BY DEF Kept, Coalesced
<1>2. ASSUME NEW m \in DOMAIN c
      PROVE  Header(c[RunEnd(c, Kept(c), m)].sig, c[m].owner,
                    RunEnd(c, Kept(c), m) + c[RunEnd(c, Kept(c), m)].size - m) = c[m]
  <2>1. PICK e : e = RunEnd(c, Kept(c), m)
    OBVIOUS
  <2>2. e \in DOMAIN c /\ m <= e /\ \A k \in Kept(c) : ~(m < k /\ k <= e)
    BY <1>1, <2>1, RunEndFacts
  <2>3. e \in Nat /\ m \in Nat /\ c[m].size \in Nat /\ c[m] \in HeaderType
    BY <2>2, HeaderFacts
  <2>4. e = m
    BY <1>1, <2>2, <2>3
  <2>5. m + c[m].size - m = c[m].size
    BY <2>3
  <2>6. Header(c[m].sig, c[m].owner, c[m].size) = c[m]
    BY <2>3 DEF Header, HeaderType
  <2> QED BY <2>1, <2>4, <2>5, <2>6
<1>3. mcb_coalesce(c) = [m \in DOMAIN c |-> c[m]]
  BY <1>1, <1>2 DEF mcb_coalesce
<1> QED BY <1>3 DEF Chain, Typed

----------------------------------------------------------------------------
\* Splitting and absorbing.

LEMMA SplitChain ==
  ASSUME NEW c, Chain(c), NEW m \in DOMAIN c, NEW n \in Nat, n < c[m].size,
         NEW d, d = Split(c, m, n), NEW nm, nm = m + 1 + n
  PROVE  /\ Chain(d)
         /\ DOMAIN d = DOMAIN c \cup {nm} /\ nm \notin DOMAIN c
         /\ d[m].owner = c[m].owner /\ Free(d, nm)
         /\ mnext(d, m) = nm /\ mnext(d, nm) = mnext(c, m)
         /\ \A x \in DOMAIN c : x # m => d[x] = c[x] /\ mnext(d, x) = mnext(c, x)
<1>1. /\ m \in Nat /\ First <= m /\ c[m].size \in Nat /\ c[m].size <= Top - First - 1
      /\ c[m].owner \in Owners \cup {OWNER_FREE} /\ c[m].sig \in {"M", "Z"}
      /\ mnext(c, m) \in Nat /\ mnext(c, m) <= Top
      /\ mnext(c, m) < Top => mnext(c, m) \in DOMAIN c
      /\ c[m].sig = "Z" <=> mnext(c, m) = Top
      /\ \A x \in DOMAIN c : x <= m \/ mnext(c, m) <= x
  BY HeaderFacts
<1>2. nm \in Nat /\ m < nm /\ nm < mnext(c, m)
  BY <1>1 DEF mnext
<1>3. nm \notin DOMAIN c
  BY <1>1, <1>2
<1>4. /\ DOMAIN d = DOMAIN c \cup {nm}
      /\ d[m] = [sig |-> "M", owner |-> c[m].owner, size |-> n]
      /\ \A x \in DOMAIN c : x # m => d[x] = c[x]
  BY <1>3 DEF Split, Header
<1>5. PICK rest : rest = c[m].size - n - 1
  OBVIOUS
<1>6. d[nm] = [sig |-> c[m].sig, owner |-> OWNER_FREE, size |-> rest]
  BY <1>1, <1>2, <1>5 DEF Split, Header
<1>7. rest \in 0..(Top - First - 1) /\ n \in 0..(Top - First - 1) /\ rest \in Nat
  BY <1>1, <1>5, ArenaAssumption
<1>8. d[m] \in HeaderType /\ d[nm] \in HeaderType
  BY <1>1, <1>4, <1>6, <1>7 DEF HeaderType
<1>9. /\ d[m].size = n /\ d[m].sig = "M" /\ d[m].owner = c[m].owner
      /\ d[nm].size = rest /\ d[nm].sig = c[m].sig /\ d[nm].owner = OWNER_FREE
  BY <1>4, <1>6
<1>10. mnext(d, m) = nm /\ mnext(d, nm) = mnext(c, m)
  BY <1>1, <1>2, <1>5, <1>9 DEF mnext
<1>11. \A x \in DOMAIN c : x # m => mnext(d, x) = mnext(c, x)
  BY <1>4 DEF mnext
<1>12. Typed(d)
  <2>1. \A x \in DOMAIN d : d[x] \in HeaderType
    BY <1>4, <1>8, HeaderFacts
  <2>2. d = [x \in DOMAIN d |-> d[x]]
    BY DEF Split
  <2>3. nm \in First..(Top - 1)
    BY <1>1, <1>2, ArenaAssumption
  <2> QED BY <2>1, <2>2, <2>3, <1>4 DEF Typed, Chain
<1>13. Linked(d)
  <2>1. First \in DOMAIN d
    BY <1>4 DEF Chain, Linked
  <2>2. ASSUME NEW x \in DOMAIN d
        PROVE  /\ mnext(d, x) <= Top
               /\ mnext(d, x) < Top => mnext(d, x) \in DOMAIN d
               /\ d[x].sig = "Z" <=> mnext(d, x) = Top
               /\ \A y \in DOMAIN d : y <= x \/ mnext(d, x) <= y
    <3>1. CASE x = m
      <4>1. \A y \in DOMAIN d : y <= m \/ nm <= y
        <5> SUFFICES ASSUME NEW y \in DOMAIN c PROVE y <= m \/ nm <= y
          BY <1>2, <1>4
        <5>1. y \in Nat /\ (y <= m \/ mnext(c, m) <= y)
          BY HeaderFacts
        <5> QED BY <5>1, <1>1, <1>2
      <4> QED BY <3>1, <4>1, <1>1, <1>2, <1>4, <1>9, <1>10, ArenaAssumption
    <3>2. CASE x = nm
      <4>1. \A y \in DOMAIN d : y <= nm \/ mnext(c, m) <= y
        <5> SUFFICES ASSUME NEW y \in DOMAIN c PROVE y <= nm \/ mnext(c, m) <= y
          BY <1>2, <1>4
        <5>1. y \in Nat /\ (y <= m \/ mnext(c, m) <= y)
          BY HeaderFacts
        <5> QED BY <5>1, <1>1, <1>2
      <4> QED BY <3>2, <4>1, <1>1, <1>4, <1>9, <1>10
    <3>3. CASE x # m /\ x # nm
      <4>1. x \in DOMAIN c /\ d[x] = c[x] /\ mnext(d, x) = mnext(c, x) /\ x \in Nat
        BY <3>3, <1>4, <1>11, HeaderFacts
      <4>2. \A y \in DOMAIN c : y <= x \/ mnext(c, x) <= y
        BY <4>1, HeaderFacts
      <4>3. nm <= x \/ mnext(c, x) <= nm
        <5>1. m <= x \/ mnext(c, x) <= m
          BY <4>1, <4>2, <1>1
        <5>2. x <= m \/ mnext(c, m) <= x
          BY <4>1, <1>1
        <5>3. mnext(c, x) \in Nat
          BY <4>1, HeaderFacts
        <5> QED BY <5>1, <5>2, <5>3, <4>1, <3>3, <1>1, <1>2
      <4>4. /\ mnext(c, x) <= Top
            /\ mnext(c, x) < Top => mnext(c, x) \in DOMAIN c
            /\ c[x].sig = "Z" <=> mnext(c, x) = Top
        BY <4>1, HeaderFacts
      <4>5. \A y \in DOMAIN d : y <= x \/ mnext(d, x) <= y
        BY <4>1, <4>2, <4>3, <1>2, <1>4
      <4> QED BY <4>1, <4>4, <4>5, <1>4
    <3> QED BY <3>1, <3>2, <3>3
  <2> QED BY <2>1, <2>2 DEF Linked
<1> QED BY <1>3, <1>4, <1>9, <1>10, <1>11, <1>12, <1>13 DEF Chain, Free

LEMMA SplitIsChain ==
  ASSUME NEW c, Chain(c), NEW m \in DOMAIN c, NEW n \in Nat, n < c[m].size
  PROVE  Chain(Split(c, m, n))
<1>1. PICK d, nm : d = Split(c, m, n) /\ nm = m + 1 + n
  OBVIOUS
<1>2. /\ Chain(d)
      /\ DOMAIN d = DOMAIN c \cup {nm} /\ nm \notin DOMAIN c
      /\ d[m].owner = c[m].owner /\ Free(d, nm)
      /\ mnext(d, m) = nm /\ mnext(d, nm) = mnext(c, m)
      /\ \A x \in DOMAIN c : x # m => d[x] = c[x] /\ mnext(d, x) = mnext(c, x)
  <2>1. d = Split(c, m, n)
    BY <1>1
  <2>2. nm = m + 1 + n
    BY <1>1
  <2> QED BY <2>1, <2>2, SplitChain
<1> QED BY <1>1, <1>2

LEMMA AbsorbChain ==
  ASSUME NEW c, Chain(c), NEW m \in DOMAIN c, NEW n \in DOMAIN c, n = mnext(c, m),
         NEW d, d = Absorb(c, m)
  PROVE  /\ Chain(d)
         /\ DOMAIN d = DOMAIN c \ {n} /\ m # n
         /\ d[m].owner = c[m].owner /\ d[m].size = c[m].size + 1 + c[n].size
         /\ \A x \in DOMAIN d : x # m => d[x] = c[x] /\ mnext(d, x) = mnext(c, x)
<1>1. /\ m \in Nat /\ First <= m /\ c[m].size \in Nat
      /\ c[m].owner \in Owners \cup {OWNER_FREE}
      /\ m < n
      /\ \A x \in DOMAIN c : x <= m \/ n <= x
  BY HeaderFacts
<1>2. /\ n \in Nat /\ c[n].size \in Nat /\ c[n].sig \in {"M", "Z"}
      /\ mnext(c, n) \in Nat /\ mnext(c, n) <= Top /\ n < mnext(c, n)
      /\ mnext(c, n) < Top => mnext(c, n) \in DOMAIN c
      /\ c[n].sig = "Z" <=> mnext(c, n) = Top
      /\ \A x \in DOMAIN c : x <= n \/ mnext(c, n) <= x
  BY HeaderFacts
<1>3. PICK size : size = c[m].size + 1 + c[n].size
  OBVIOUS
<1>4. /\ DOMAIN d = DOMAIN c \ {n} /\ m \in DOMAIN d
      /\ d[m] = [sig |-> c[n].sig, owner |-> c[m].owner, size |-> size]
      /\ \A x \in DOMAIN d : x # m => d[x] = c[x]
  BY <1>1, <1>2, <1>3 DEF Absorb, Header
<1>5. d[m].sig = c[n].sig /\ d[m].owner = c[m].owner /\ d[m].size = size
  BY <1>4
<1>6. mnext(d, m) = mnext(c, n)
  BY <1>1, <1>2, <1>3, <1>5 DEF mnext
<1>7. size \in 0..(Top - First - 1)
  BY <1>1, <1>2, <1>3, ArenaAssumption DEF mnext
<1>8. d[m] \in HeaderType
  BY <1>1, <1>2, <1>4, <1>7 DEF HeaderType
<1>9. \A x \in DOMAIN d : x # m => mnext(d, x) = mnext(c, x)
  BY <1>4 DEF mnext
<1>10. Typed(d)
  <2>1. \A x \in DOMAIN d : d[x] \in HeaderType
    BY <1>4, <1>8, HeaderFacts
  <2>2. d = [x \in DOMAIN d |-> d[x]]
    BY DEF Absorb
  <2> QED BY <2>1, <2>2, <1>4 DEF Typed, Chain
<1>11. Linked(d)
  <2>1. First \in DOMAIN d
    BY <1>1, <1>2, <1>4, ArenaAssumption DEF Chain, Linked
  <2>2. ASSUME NEW x \in DOMAIN d
        PROVE  /\ mnext(d, x) <= Top
               /\ mnext(d, x) < Top => mnext(d, x) \in DOMAIN d
               /\ d[x].sig = "Z" <=> mnext(d, x) = Top
               /\ \A y \in DOMAIN d : y <= x \/ mnext(d, x) <= y
    <3>1. CASE x = m
      <4>1. \A y \in DOMAIN d : y \in DOMAIN c /\ y # n /\ y \in Nat
        BY <1>4, HeaderFacts
      <4>2. \A y \in DOMAIN d : y <= m \/ mnext(c, n) <= y
        BY <4>1, <1>1, <1>2
      <4> QED BY <3>1, <4>2, <1>2, <1>4, <1>5, <1>6
    <3>2. CASE x # m
      <4>1. x \in DOMAIN c /\ x # n /\ d[x] = c[x] /\ mnext(d, x) = mnext(c, x) /\ x \in Nat
        BY <3>2, <1>4, <1>9, HeaderFacts
      <4>2. /\ mnext(c, x) \in Nat /\ mnext(c, x) <= Top /\ x < mnext(c, x)
            /\ mnext(c, x) < Top => mnext(c, x) \in DOMAIN c
            /\ c[x].sig = "Z" <=> mnext(c, x) = Top
            /\ \A y \in DOMAIN c : y <= x \/ mnext(c, x) <= y
        BY <4>1, HeaderFacts
      <4>3. mnext(c, x) # n
        BY <4>1, <4>2, <3>2, <1>1, <1>2
      <4> QED BY <4>1, <4>2, <4>3, <1>4
    <3> QED BY <3>1, <3>2
  <2> QED BY <2>1, <2>2 DEF Linked
<1> QED BY <1>1, <1>2, <1>3, <1>4, <1>5, <1>9, <1>10, <1>11 DEF Chain

----------------------------------------------------------------------------
\* The operations, on a whole chain without free neighbours.

LEMMA FirstFitFits ==
  ASSUME NEW c, Chain(c), NEW n, Fits(c, n) # {}
  PROVE  FirstFit(c, n) \in Fits(c, n)
<1>1. Fits(c, n) \in SUBSET Nat
  BY HeaderFacts DEF Fits
<1>2. PICK m \in Fits(c, n) : \A x \in Fits(c, n) : m <= x
  BY <1>1, NatLeast
<1> QED BY <1>2 DEF FirstFit

GivenTo(c, m, owner) == [c EXCEPT ![m].owner = owner]

LEMMA SetOwnerChain ==
  ASSUME NEW c, Chain(c), NEW m \in DOMAIN c, NEW owner \in Owners \cup {OWNER_FREE},
         NEW d, d = GivenTo(c, m, owner)
  PROVE  /\ Chain(d) /\ DOMAIN d = DOMAIN c
         /\ d[m].owner = owner
         /\ \A x \in DOMAIN c : x # m => d[x] = c[x]
         /\ \A x \in DOMAIN c : mnext(d, x) = mnext(c, x)
<1>1. c \in [DOMAIN c -> HeaderType]
  BY DEF Chain, Typed
<1>2. c[m] \in HeaderType
  BY HeaderFacts
<1>3. PICK e : e = [c[m] EXCEPT !.owner = owner]
  OBVIOUS
<1>4. e \in HeaderType /\ e.owner = owner /\ e.size = c[m].size /\ e.sig = c[m].sig
  BY <1>2, <1>3 DEF HeaderType
<1>5. d = [c EXCEPT ![m] = e]
  BY <1>3 DEF GivenTo
<1>6. /\ d \in [DOMAIN c -> HeaderType] /\ d[m] = e
      /\ \A x \in DOMAIN c : x # m => d[x] = c[x]
  BY <1>1, <1>4, <1>5
<1>7. \A x \in DOMAIN c : d[x].sig = c[x].sig /\ d[x].size = c[x].size
  BY <1>4, <1>6
<1> QED BY <1>4, <1>6, <1>7, OwnerChain DEF mnext

\* 48h keeps free blocks apart without a merging pass of its own.
LEMMA AllocKeeps ==
  ASSUME NEW c, Chain(c), Coalesced(c), NEW n \in Nat, Fits(c, n) # {},
         NEW owner \in Owners
  PROVE  Chain(mcb_alloc(c, n, owner)) /\ Coalesced(mcb_alloc(c, n, owner))
<1>1. PICK m : m = FirstFit(c, n)
  OBVIOUS
<1>2. m \in DOMAIN c /\ Free(c, m) /\ n <= c[m].size
  BY <1>1, FirstFitFits DEF Fits
<1>3. PICK s : s = IF c[m].size > n THEN Split(c, m, n) ELSE c
  OBVIOUS
<1>4. PICK d : d = GivenTo(s, m, owner)
  OBVIOUS
<1>5. mcb_alloc(c, n, owner) = d
  BY <1>1, <1>3, <1>4 DEF mcb_alloc, GivenTo
<1>6. owner # OWNER_FREE
  BY OwnersAssumption
<1>7. CASE c[m].size > n
  <2>1. PICK nm : nm = m + 1 + n
    OBVIOUS
  <2>2. /\ Chain(s)
        /\ DOMAIN s = DOMAIN c \cup {nm} /\ nm \notin DOMAIN c
        /\ mnext(s, m) = nm /\ mnext(s, nm) = mnext(c, m)
        /\ \A x \in DOMAIN c : x # m => s[x] = c[x] /\ mnext(s, x) = mnext(c, x)
    <3>1. s = Split(c, m, n) /\ n < c[m].size
      BY <1>2, <1>3, <1>7, HeaderFacts
    <3> QED BY <3>1, <1>2, <2>1, SplitChain
  <2>3. /\ Chain(d) /\ DOMAIN d = DOMAIN s /\ d[m].owner = owner
        /\ \A x \in DOMAIN s : x # m => d[x] = s[x]
        /\ \A x \in DOMAIN s : mnext(d, x) = mnext(s, x)
    <3>1. m \in DOMAIN s /\ owner \in Owners \cup {OWNER_FREE} /\ Chain(s)
      BY <1>2, <2>2
    <3>2. \A x \in DOMAIN s : mnext(d, x) = mnext(s, x)
      BY <3>1, <1>4, SetOwnerChain
    <3>3. Chain(d) /\ DOMAIN d = DOMAIN s /\ d[m].owner = owner
      BY <3>1, <1>4, SetOwnerChain
    <3>4. \A x \in DOMAIN s : x # m => d[x] = s[x]
      BY <3>1, <1>4, SetOwnerChain
    <3> QED BY <3>2, <3>3, <3>4
  <2>4. ASSUME NEW x \in DOMAIN d, NEW p \in DOMAIN d, Free(d, p), Free(d, x), mnext(d, p) = x
        PROVE  FALSE
    <3>1. p # m /\ x # m
      BY <1>6, <2>3, <2>4 DEF Free
    <3>2. CASE p = nm
      <4>1. x = mnext(c, m) /\ x # nm
        BY <2>2, <2>3, <2>4, <3>2, HeaderFacts
      <4> QED BY <4>1, <3>1, <1>2, <2>2, <2>3, <2>4 DEF Free, Coalesced
    <3>3. CASE p # nm
      <4>1. p \in DOMAIN c /\ Free(c, p) /\ mnext(c, p) = x
        BY <3>1, <3>3, <2>2, <2>3, <2>4 DEF Free
      <4>2. x # nm
        <5>1. mnext(c, p) = Top \/ mnext(c, p) \in DOMAIN c
          BY <4>1, HeaderFacts, ArenaAssumption
        <5>2. x # Top
          BY <2>3, <2>4, HeaderFacts
        <5> QED BY <4>1, <5>1, <5>2, <2>2
      <4> QED BY <4>1, <4>2, <3>1, <2>2, <2>3, <2>4 DEF Free, Coalesced
    <3> QED BY <3>2, <3>3
  <2> QED BY <1>5, <2>3, <2>4 DEF Coalesced
<1>8. CASE ~(c[m].size > n)
  <2>1. /\ Chain(d) /\ DOMAIN d = DOMAIN c /\ d[m].owner = owner
        /\ \A x \in DOMAIN c : x # m => d[x] = c[x]
        /\ \A x \in DOMAIN c : mnext(d, x) = mnext(c, x)
    BY <1>2, <1>3, <1>4, <1>8, SetOwnerChain
  <2> QED BY <1>5, <1>6, <2>1 DEF Free, Coalesced
<1> QED BY <1>7, <1>8

\* What 4Ah may give a block: its own size, or that and a free neighbour.
LEMMA AvailFacts ==
  ASSUME NEW c, Chain(c), NEW m \in DOMAIN c
  PROVE  \/ Avail(c, m) = c[m].size
         \/ /\ mnext(c, m) \in DOMAIN c /\ Free(c, mnext(c, m))
            /\ Avail(c, m) = c[m].size + 1 + c[mnext(c, m)].size
BY HeaderFacts, ArenaAssumption DEF Avail

LEMMA ResizeKeeps ==
  ASSUME NEW c, Chain(c), Coalesced(c), NEW m \in DOMAIN c, NEW n \in Nat, n <= Avail(c, m)
  PROVE  Chain(mcb_resize(c, m, n)) /\ Coalesced(mcb_resize(c, m, n))
<1>1. PICK a : a = IF Avail(c, m) # c[m].size THEN Absorb(c, m) ELSE c
  OBVIOUS
<1>2. Chain(a) /\ Coalesced(a) /\ m \in DOMAIN a
  <2>1. CASE Avail(c, m) = c[m].size
    BY <1>1, <2>1
  <2>2. CASE Avail(c, m) # c[m].size
    <3>1. PICK k : k = mnext(c, m)
      OBVIOUS
    <3>2. k \in DOMAIN c /\ Free(c, k)
      BY <2>2, <3>1, AvailFacts
    <3>3. /\ Chain(a) /\ DOMAIN a = DOMAIN c \ {k} /\ m # k
          /\ a[m].owner = c[m].owner
          /\ \A x \in DOMAIN a : x # m => a[x] = c[x] /\ mnext(a, x) = mnext(c, x)
      BY <1>1, <2>2, <3>1, <3>2, AbsorbChain
    <3>4. ~Free(a, m)
      BY <3>1, <3>2, <3>3 DEF Coalesced, Free
    <3> QED BY <3>3, <3>4 DEF Coalesced, Free
  <2> QED BY <2>1, <2>2
<1>3. mcb_resize(c, m, n) = IF a[m].size > n THEN mcb_coalesce(Split(a, m, n)) ELSE a
  BY <1>1 DEF mcb_resize
<1>4. CASE a[m].size > n
  <2>1. m \in DOMAIN a /\ Chain(a)
    BY <1>2
  <2>2. n \in Nat /\ n < a[m].size
    BY <2>1, <1>4, HeaderFacts
  <2>3. Chain(Split(a, m, n))
    BY <2>1, <2>2, SplitIsChain
  <2> QED BY <1>3, <1>4, <2>3, CoalesceChain
<1>5. CASE ~(a[m].size > n)
  BY <1>2, <1>3, <1>5
<1> QED BY <1>4, <1>5

\* 49h, and the end of a process.
LEMMA FreeKeeps ==
  ASSUME NEW c, Chain(c), NEW block, mcb_find(c, block)
  PROVE  Chain(mcb_free(c, block)) /\ Coalesced(mcb_free(c, block))
<1>1. PICK m, d : m = block - 1 /\ d = GivenTo(c, m, OWNER_FREE)
  OBVIOUS
<1>2. Chain(d)
  <2>1. m \in DOMAIN c /\ OWNER_FREE \in Owners \cup {OWNER_FREE}
    BY <1>1 DEF mcb_find
  <2> QED BY <2>1, <1>1, SetOwnerChain
<1> QED BY <1>1, <1>2, CoalesceChain DEF mcb_free, GivenTo

LEMMA FreeOwnerKeeps ==
  ASSUME NEW c, Chain(c), NEW psp
  PROVE  Chain(mcb_free_owner(c, psp)) /\ Coalesced(mcb_free_owner(c, psp))
<1>1. PICK d : d = [m \in DOMAIN c |-> IF c[m].owner = psp
                                         THEN [c[m] EXCEPT !.owner = OWNER_FREE] ELSE c[m]]
  OBVIOUS
<1>2. ASSUME NEW m \in DOMAIN c
      PROVE  d[m] \in HeaderType /\ d[m].sig = c[m].sig /\ d[m].size = c[m].size
  <2>1. c[m] \in HeaderType
    BY HeaderFacts
  <2>2. PICK e : e = [c[m] EXCEPT !.owner = OWNER_FREE]
    OBVIOUS
  <2>3. e \in HeaderType /\ e.sig = c[m].sig /\ e.size = c[m].size
    BY <2>1, <2>2 DEF HeaderType
  <2>4. d[m] = IF c[m].owner = psp THEN e ELSE c[m]
    BY <1>1, <2>2
  <2> QED BY <2>1, <2>3, <2>4
<1>3. d \in [DOMAIN c -> HeaderType]
  BY <1>1, <1>2
<1>4. Chain(d)
  BY <1>2, <1>3, OwnerChain
<1> QED BY <1>1, <1>4, CoalesceChain DEF mcb_free_owner

\* Giving an allocated block another owner.
LEMMA SetOwnerKeeps ==
  ASSUME NEW c, Chain(c), Coalesced(c), NEW block, mcb_find(c, block), ~Free(c, block - 1),
         NEW owner \in Owners
  PROVE  Chain(mcb_set_owner(c, block, owner)) /\ Coalesced(mcb_set_owner(c, block, owner))
<1>1. PICK m, d : m = block - 1 /\ d = GivenTo(c, m, owner)
  OBVIOUS
<1>2. m \in DOMAIN c
  BY <1>1 DEF mcb_find
<1>3. /\ Chain(d) /\ DOMAIN d = DOMAIN c /\ d[m].owner = owner
      /\ \A x \in DOMAIN c : x # m => d[x] = c[x]
      /\ \A x \in DOMAIN c : mnext(d, x) = mnext(c, x)
  <2>1. d = GivenTo(c, m, owner) /\ owner \in Owners \cup {OWNER_FREE}
    BY <1>1
  <2> QED BY <2>1, <1>2, SetOwnerChain
<1>4. Coalesced(d)
  BY <1>3, OwnersAssumption DEF Coalesced, Free
<1> QED BY <1>1, <1>3, <1>4 DEF mcb_set_owner, GivenTo

----------------------------------------------------------------------------
\* What the callers see of a chain: the allocated blocks.

Blocks(c) ==
  [m \in {x \in DOMAIN c : ~Free(c, x)} |-> [owner |-> c[m].owner, size |-> c[m].size]]

\* Two chains that agree on the allocated headers show the same blocks.
LEMMA SameBlocks ==
  ASSUME NEW c, NEW d,
         \A x \in DOMAIN c : ~Free(c, x) =>
            x \in DOMAIN d /\ d[x].owner = c[x].owner /\ d[x].size = c[x].size,
         \A x \in DOMAIN d : ~Free(d, x) => x \in DOMAIN c /\ ~Free(c, x)
  PROVE  Blocks(d) = Blocks(c)
<1>1. {x \in DOMAIN d : ~Free(d, x)} = {x \in DOMAIN c : ~Free(c, x)}
  BY DEF Free
<1> QED BY <1>1 DEF Blocks

\* Behind an allocated block comes a header that merging keeps.
LEMMA NextKept ==
  ASSUME NEW c, Chain(c), NEW m \in DOMAIN c, ~Free(c, m), mnext(c, m) < Top
  PROVE  mnext(c, m) \in Kept(c)
<1>1. PICK k : k = mnext(c, m)
  OBVIOUS
<1>2. k \in DOMAIN c /\ m \in Nat /\ k \in Nat /\ m < k /\ \A x \in DOMAIN c : x <= m \/ k <= x
  BY <1>1, HeaderFacts
<1>3. ASSUME NEW p \in DOMAIN c, mnext(c, p) = k PROVE p = m
  <2>1. /\ p \in Nat /\ p < k
        /\ m <= p \/ k <= m
    BY <1>2, <1>3, HeaderFacts
  <2>2. p <= m \/ k <= p
    BY <1>2
  <2> QED BY <1>2, <2>1, <2>2
<1> QED BY <1>1, <1>2, <1>3 DEF Kept

LEMMA CoalesceBlocks ==
  ASSUME NEW c, Chain(c)
  PROVE  Blocks(mcb_coalesce(c)) = Blocks(c)
<1>1. PICK d : d = mcb_coalesce(c)
  OBVIOUS
<1>2. DOMAIN d = Kept(c) /\ Kept(c) \subseteq DOMAIN c
  BY <1>1 DEF mcb_coalesce, Kept
<1>3. \A m \in Kept(c) : d[m].owner = c[m].owner
  BY <1>1 DEF mcb_coalesce, Header
<1>4. ASSUME NEW m \in DOMAIN c, ~Free(c, m)
      PROVE  m \in Kept(c) /\ d[m].size = c[m].size
  <2>1. m \in Kept(c)
    BY <1>4 DEF Kept
  <2>2. PICK e : e = RunEnd(c, Kept(c), m)
    OBVIOUS
  <2>3. e \in DOMAIN c /\ m <= e /\ \A k \in Kept(c) : ~(m < k /\ k <= e)
    BY <2>1, <2>2, RunEndFacts
  <2>4. /\ m \in Nat /\ m < mnext(c, m) /\ mnext(c, m) <= Top /\ mnext(c, m) \in Nat
        /\ e <= m \/ mnext(c, m) <= e
        /\ e \in Nat /\ e < Top
        /\ c[m].size \in Nat
    BY <2>3, HeaderFacts
  <2>5. e = m
    <3>1. CASE mnext(c, m) < Top
      <4>1. mnext(c, m) \in Kept(c)
        BY <1>4, <3>1, NextKept
      <4> QED BY <4>1, <2>3, <2>4
    <3>2. CASE ~(mnext(c, m) < Top)
      BY <2>3, <2>4, <3>2, ArenaAssumption
    <3> QED BY <3>1, <3>2
  <2>6. d[m] = Header(c[e].sig, c[m].owner, e + c[e].size - m)
    BY <1>1, <2>1, <2>2 DEF mcb_coalesce
  <2>7. d[m].size = m + c[m].size - m
    BY <2>5, <2>6 DEF Header
  <2> QED BY <2>1, <2>4, <2>7
<1>5. \A x \in DOMAIN c : ~Free(c, x) =>
        x \in DOMAIN d /\ d[x].owner = c[x].owner /\ d[x].size = c[x].size
  BY <1>2, <1>3, <1>4
<1>6. \A x \in DOMAIN d : ~Free(d, x) => x \in DOMAIN c /\ ~Free(c, x)
  BY <1>2, <1>3 DEF Free
<1> QED BY <1>1, <1>5, <1>6, SameBlocks

\* Every paragraph of the arena is in the block of one header.
LEMMA Covered ==
  ASSUME NEW c, Chain(c), NEW h \in Nat, First <= h, h < Top
  PROVE  \E m \in DOMAIN c : m <= h /\ h < mnext(c, m)
<1> DEFINE S == {x \in DOMAIN c : x <= h}
<1>1. S \in SUBSET Nat
  BY HeaderFacts
<1>2. First \in S
  BY DEF Chain, Linked
<1>3. PICK m \in S : \A x \in S : x <= m
  BY <1>1, <1>2, NatGreatest
<1>4. /\ mnext(c, m) \in Nat /\ m < mnext(c, m) /\ m \in Nat
      /\ mnext(c, m) < Top => mnext(c, m) \in DOMAIN c
  BY <1>3, HeaderFacts
<1>5. ASSUME mnext(c, m) <= h PROVE FALSE
  <2>1. mnext(c, m) \in S
    BY <1>4, <1>5, ArenaAssumption
  <2> QED BY <1>3, <1>4, <2>1
<1> QED BY <1>3, <1>4, <1>5

\* A merged chain is determined by its allocated blocks.
LEMMA BlocksDetermine ==
  ASSUME NEW c, Chain(c), Coalesced(c), NEW d, Chain(d), Coalesced(d),
         Blocks(c) = Blocks(d)
  PROVE  \A m \in DOMAIN c : m \in DOMAIN d /\ c[m] = d[m]
<1>1. ASSUME NEW x
      PROVE  (x \in DOMAIN c /\ ~Free(c, x)) <=> (x \in DOMAIN d /\ ~Free(d, x))
  <2>1. DOMAIN Blocks(c) = {y \in DOMAIN c : ~Free(c, y)}
        /\ DOMAIN Blocks(d) = {y \in DOMAIN d : ~Free(d, y)}
    BY DEF Blocks
  <2> QED BY <2>1
<1>2. ASSUME NEW x \in DOMAIN c, ~Free(c, x)
      PROVE  d[x].owner = c[x].owner /\ d[x].size = c[x].size
  <2>1. x \in DOMAIN d /\ ~Free(d, x)
    BY <1>1, <1>2
  <2>2. /\ Blocks(c)[x] = [owner |-> c[x].owner, size |-> c[x].size]
        /\ Blocks(d)[x] = [owner |-> d[x].owner, size |-> d[x].size]
    BY <1>2, <2>1 DEF Blocks
  <2> QED BY <2>2
<1>3. ASSUME NEW m \in DOMAIN c, m \in DOMAIN d, c[m].owner = d[m].owner, c[m].size = d[m].size
      PROVE  c[m] = d[m]
  <2>1. mnext(c, m) = mnext(d, m)
    BY <1>3 DEF mnext
  <2>2. c[m] \in HeaderType /\ d[m] \in HeaderType /\ c[m].sig = d[m].sig
    BY <1>3, <2>1, HeaderFacts
  <2> QED BY <1>3, <2>2 DEF HeaderType
<1>4. ASSUME NEW m \in DOMAIN c, Free(c, m)
      PROVE  m \in DOMAIN d /\ Free(d, m)
  <2>1. CASE m = First
    <3>1. m \in DOMAIN d
      BY <2>1 DEF Chain, Linked
    <3> QED BY <3>1, <1>1, <1>4
  <2>2. CASE m # First
    <3>1. m \in Nat /\ First <= m /\ m < Top
      BY HeaderFacts
    <3>2. PICK p \in DOMAIN c : p <= m - 1 /\ m - 1 < mnext(c, p)
      BY <3>1, <2>2, ArenaAssumption, Covered
    <3>3. mnext(c, p) = m
      <4>1. p \in Nat /\ mnext(c, p) \in Nat /\ (m <= p \/ mnext(c, p) <= m)
        BY HeaderFacts
      <4> QED BY <3>1, <3>2, <4>1
    <3>4. ~Free(c, p)
      BY <3>3, <1>4 DEF Coalesced
    <3>5. p \in DOMAIN d /\ mnext(d, p) = m
      BY <1>1, <1>2, <3>3, <3>4 DEF mnext
    <3>6. m \in DOMAIN d
      BY <3>1, <3>5, HeaderFacts
    <3> QED BY <3>6, <1>1, <1>4
  <2> QED BY <2>1, <2>2
<1>5. ASSUME NEW m \in DOMAIN c, Free(c, m)
      PROVE  c[m].size = d[m].size
  <2>1. m \in DOMAIN d /\ Free(d, m)
    BY <1>4, <1>5
  <2>2. PICK e, f : e = mnext(c, m) /\ f = mnext(d, m)
    OBVIOUS
  <2>3. /\ m \in Nat /\ e \in Nat /\ f \in Nat /\ m < e /\ m < f /\ e <= Top /\ f <= Top
        /\ e < Top => e \in DOMAIN c
        /\ f < Top => f \in DOMAIN d
        /\ \A x \in DOMAIN c : x <= m \/ e <= x
        /\ \A x \in DOMAIN d : x <= m \/ f <= x
    BY <2>1, <2>2, HeaderFacts
  <2>4. e < Top => e \in DOMAIN d
    BY <1>1, <1>5, <2>2, <2>3 DEF Coalesced
  <2>5. f < Top => f \in DOMAIN c
    BY <1>1, <2>1, <2>2, <2>3 DEF Coalesced
  <2>6. e = f
    BY <2>3, <2>4, <2>5, ArenaAssumption
  <2>7. c[m].size \in Nat /\ d[m].size \in Nat
    BY <2>1, HeaderFacts
  <2> QED BY <2>2, <2>3, <2>6, <2>7 DEF mnext
<1>6. ASSUME NEW m \in DOMAIN c
      PROVE  m \in DOMAIN d /\ c[m] = d[m]
  <2>1. CASE Free(c, m)
    <3>1. m \in DOMAIN d /\ c[m].owner = d[m].owner /\ c[m].size = d[m].size
      BY <1>4, <1>5, <2>1 DEF Free
    <3> QED BY <3>1, <1>3
  <2>2. CASE ~Free(c, m)
    <3>1. m \in DOMAIN d /\ c[m].owner = d[m].owner /\ c[m].size = d[m].size
      BY <1>1, <1>2, <2>2
    <3> QED BY <3>1, <1>3
  <2> QED BY <2>1, <2>2
<1> QED BY <1>6

LEMMA BlocksCanonical ==
  ASSUME NEW c, Chain(c), Coalesced(c), NEW d, Chain(d), Coalesced(d),
         Blocks(c) = Blocks(d)
  PROVE  c = d
<1>1. \A m \in DOMAIN c : m \in DOMAIN d /\ c[m] = d[m]
  BY BlocksDetermine
<1>2. \A m \in DOMAIN d : m \in DOMAIN c
  BY BlocksDetermine
<1>3. c = [m \in DOMAIN c |-> c[m]] /\ d = [m \in DOMAIN d |-> d[m]]
  BY DEF Chain, Typed
<1> QED BY <1>1, <1>2, <1>3

----------------------------------------------------------------------------
\* What each operation does to the blocks.

LEMMA BlocksAre ==
  ASSUME NEW d, NEW b, b = [x \in DOMAIN b |-> b[x]], DOMAIN b \subseteq DOMAIN d,
         \A x \in DOMAIN d : ~Free(d, x) <=> x \in DOMAIN b,
         \A x \in DOMAIN b : b[x] = [owner |-> d[x].owner, size |-> d[x].size]
  PROVE  Blocks(d) = b
<1>1. {x \in DOMAIN d : ~Free(d, x)} = DOMAIN b
  OBVIOUS
<1> QED BY <1>1 DEF Blocks

LEMMA BlocksFacts ==
  ASSUME NEW c
  PROVE  /\ \A x : x \in DOMAIN Blocks(c) <=> x \in DOMAIN c /\ ~Free(c, x)
         /\ \A x : x \in DOMAIN Blocks(c) =>
              Blocks(c)[x] = [owner |-> c[x].owner, size |-> c[x].size]
BY DEF Blocks

\* A header is allocated and, where its block is larger, split.
LEMMA AllocBlocks ==
  ASSUME NEW c, Chain(c), NEW n \in Nat, Fits(c, n) # {}, NEW owner \in Owners,
         NEW m, m = FirstFit(c, n)
  PROVE  /\ m \in DOMAIN c /\ Free(c, m) /\ n <= c[m].size
         /\ Blocks(mcb_alloc(c, n, owner)) =
              [x \in DOMAIN Blocks(c) \cup {m} |->
                 IF x = m THEN [owner |-> owner, size |-> n] ELSE Blocks(c)[x]]
<1>1. m \in DOMAIN c /\ Free(c, m) /\ n <= c[m].size
  BY FirstFitFits DEF Fits
<1>2. PICK s : s = IF c[m].size > n THEN Split(c, m, n) ELSE c
  OBVIOUS
<1>3. PICK d : d = GivenTo(s, m, owner)
  OBVIOUS
<1>4. mcb_alloc(c, n, owner) = d
  BY <1>2, <1>3 DEF mcb_alloc, GivenTo
<1>5. owner # OWNER_FREE
  BY OwnersAssumption
<1>6. /\ Chain(s) /\ DOMAIN c \subseteq DOMAIN s /\ s[m].size = n
      /\ \A x \in DOMAIN c : x # m => s[x] = c[x]
      /\ \A x \in DOMAIN s \ DOMAIN c : Free(s, x)
  <2>1. CASE c[m].size > n
    <3>1. PICK nm : nm = m + 1 + n
      OBVIOUS
    <3>2. s = Split(c, m, n) /\ n < c[m].size
      BY <1>1, <1>2, <2>1, HeaderFacts
    <3>3. /\ Chain(s)
          /\ DOMAIN s = DOMAIN c \cup {nm} /\ nm \notin DOMAIN c
          /\ Free(s, nm)
          /\ \A x \in DOMAIN c : x # m => s[x] = c[x] /\ mnext(s, x) = mnext(c, x)
      BY <3>1, <3>2, <1>1, SplitChain
    <3>4. s[m].size = n
      BY <1>1, <3>2 DEF Split, Header
    <3> QED BY <3>3, <3>4
  <2>2. CASE ~(c[m].size > n)
    BY <1>1, <1>2, <2>2, HeaderFacts
  <2> QED BY <2>1, <2>2
<1>7. /\ DOMAIN d = DOMAIN s /\ d[m] = [s[m] EXCEPT !.owner = owner]
      /\ \A x \in DOMAIN s : x # m => d[x] = s[x]
  <2>1. m \in DOMAIN s /\ s = [x \in DOMAIN s |-> s[x]]
    BY <1>1, <1>6 DEF Chain, Typed
  <2> QED BY <1>3, <2>1 DEF GivenTo
<1>8. d[m].owner = owner /\ d[m].size = n
  <2>1. s[m] \in HeaderType
    BY <1>1, <1>6, HeaderFacts
  <2> QED BY <2>1, <1>6, <1>7 DEF HeaderType
<1>9. PICK b : b = [x \in DOMAIN Blocks(c) \cup {m} |->
                      IF x = m THEN [owner |-> owner, size |-> n] ELSE Blocks(c)[x]]
  OBVIOUS
<1>10. DOMAIN b = DOMAIN Blocks(c) \cup {m} /\ b = [x \in DOMAIN b |-> b[x]]
  BY <1>9
<1>11. DOMAIN b \subseteq DOMAIN d
  BY <1>1, <1>6, <1>7, <1>10, BlocksFacts
<1>12. ASSUME NEW x \in DOMAIN d
       PROVE  ~Free(d, x) <=> x \in DOMAIN b
  <2>1. x \in DOMAIN b <=> x = m \/ (x \in DOMAIN c /\ ~Free(c, x))
    BY <1>10, BlocksFacts
  <2>2. CASE x = m
    BY <1>5, <1>8, <2>1, <2>2 DEF Free
  <2>3. CASE x # m
    <3>1. Free(d, x) <=> Free(s, x)
      BY <1>7, <2>3 DEF Free
    <3>2. x \in DOMAIN c => (Free(s, x) <=> Free(c, x))
      BY <1>6, <2>3 DEF Free
    <3> QED BY <1>6, <1>7, <2>1, <2>3, <3>1, <3>2
  <2> QED BY <2>2, <2>3
<1>13. \A x \in DOMAIN b : b[x] = [owner |-> d[x].owner, size |-> d[x].size]
  <2>1. b[m] = [owner |-> owner, size |-> n]
    BY <1>9
  <2>2. ASSUME NEW x \in DOMAIN b, x # m
        PROVE  b[x] = [owner |-> d[x].owner, size |-> d[x].size]
    <3>1. x \in DOMAIN Blocks(c) /\ b[x] = Blocks(c)[x]
      BY <1>9, <2>2
    <3>2. x \in DOMAIN c /\ d[x] = c[x]
      BY <3>1, <2>2, <1>6, <1>7, BlocksFacts
    <3> QED BY <3>1, <3>2, BlocksFacts
  <2> QED BY <2>1, <2>2, <1>8
<1>14. Blocks(d) = b
  BY <1>10, <1>11, <1>12, <1>13, BlocksAre
<1> QED BY <1>1, <1>4, <1>9, <1>14

\* The headers in S are freed and the chain is merged.
LEMMA FreedBlocks ==
  ASSUME NEW c, Chain(c), NEW S, NEW d, Chain(d), DOMAIN d = DOMAIN c,
         \A x \in DOMAIN c \cap S : Free(d, x),
         \A x \in DOMAIN c \ S : d[x] = c[x]
  PROVE  Blocks(mcb_coalesce(d)) = Map!Drop(Blocks(c), S)
<1>1. PICK b : b = Map!Drop(Blocks(c), S)
  OBVIOUS
<1>2. DOMAIN b = DOMAIN Blocks(c) \ S /\ b = [x \in DOMAIN b |-> b[x]]
      /\ \A x \in DOMAIN b : b[x] = Blocks(c)[x]
  BY <1>1 DEF Map!Drop
<1>3. \A x \in DOMAIN d : ~Free(d, x) <=> x \in DOMAIN b
  BY <1>2, BlocksFacts DEF Free
<1>4. \A x \in DOMAIN b : b[x] = [owner |-> d[x].owner, size |-> d[x].size]
  BY <1>2, BlocksFacts
<1>5. DOMAIN b \subseteq DOMAIN d
  BY <1>2, BlocksFacts
<1>6. Blocks(d) = b
  BY <1>2, <1>3, <1>4, <1>5, BlocksAre
<1> QED BY <1>1, <1>6, CoalesceBlocks

LEMMA FreeBlocks ==
  ASSUME NEW c, Chain(c), NEW block, mcb_find(c, block)
  PROVE  Blocks(mcb_free(c, block)) = Map!Drop(Blocks(c), {block - 1})
<1>1. PICK m, d : m = block - 1 /\ d = GivenTo(c, m, OWNER_FREE)
  OBVIOUS
<1>2. m \in DOMAIN c /\ OWNER_FREE \in Owners \cup {OWNER_FREE}
  BY <1>1 DEF mcb_find
<1>3. /\ Chain(d) /\ DOMAIN d = DOMAIN c /\ d[m].owner = OWNER_FREE
      /\ \A x \in DOMAIN c : x # m => d[x] = c[x]
  <2>1. d = GivenTo(c, m, OWNER_FREE)
    BY <1>1
  <2>2. Chain(d) /\ DOMAIN d = DOMAIN c /\ d[m].owner = OWNER_FREE
    BY <2>1, <1>2, SetOwnerChain
  <2>3. \A x \in DOMAIN c : x # m => d[x] = c[x]
    BY <2>1, <1>2, SetOwnerChain
  <2> QED BY <2>2, <2>3
<1>4. mcb_free(c, block) = mcb_coalesce(d)
  BY <1>1 DEF mcb_free, GivenTo
<1>5. \A x \in DOMAIN c \cap {m} : Free(d, x)
  BY <1>3 DEF Free
<1>6. \A x \in DOMAIN c \ {m} : d[x] = c[x]
  BY <1>3
<1>7. Blocks(mcb_coalesce(d)) = Map!Drop(Blocks(c), {m})
  BY <1>3, <1>5, <1>6, FreedBlocks
<1> QED BY <1>1, <1>4, <1>7

LEMMA FreeOwnerBlocks ==
  ASSUME NEW c, Chain(c), NEW psp, NEW S, S = {x \in DOMAIN c : c[x].owner = psp}
  PROVE  Blocks(mcb_free_owner(c, psp)) = Map!Drop(Blocks(c), S)
<1>1. PICK d : d = [m \in DOMAIN c |-> IF c[m].owner = psp
                                         THEN [c[m] EXCEPT !.owner = OWNER_FREE] ELSE c[m]]
  OBVIOUS
<1>2. ASSUME NEW m \in DOMAIN c
      PROVE  /\ d[m] \in HeaderType /\ d[m].sig = c[m].sig /\ d[m].size = c[m].size
             /\ d[m].owner = IF c[m].owner = psp THEN OWNER_FREE ELSE c[m].owner
             /\ m \notin S => d[m] = c[m]
  <2>1. c[m] \in HeaderType
    BY HeaderFacts
  <2>2. PICK e : e = [c[m] EXCEPT !.owner = OWNER_FREE]
    OBVIOUS
  <2>3. e \in HeaderType /\ e.sig = c[m].sig /\ e.size = c[m].size /\ e.owner = OWNER_FREE
    BY <2>1, <2>2 DEF HeaderType
  <2>4. d[m] = IF c[m].owner = psp THEN e ELSE c[m]
    BY <1>1, <2>2
  <2> QED BY <2>1, <2>3, <2>4
<1>3. d \in [DOMAIN c -> HeaderType] /\ DOMAIN d = DOMAIN c
  BY <1>1, <1>2
<1>4. Chain(d)
  BY <1>2, <1>3, OwnerChain
<1>5. \A x \in DOMAIN c \cap S : Free(d, x)
  BY <1>2 DEF Free
<1>6. \A x \in DOMAIN c \ S : d[x] = c[x]
  BY <1>2
<1>7. Blocks(mcb_coalesce(d)) = Map!Drop(Blocks(c), S)
  BY <1>3, <1>4, <1>5, <1>6, FreedBlocks
<1> QED BY <1>1, <1>7 DEF mcb_free_owner

\* The block map b with the block at m given to owner.
RenamedBlock(b, m, owner) == [b EXCEPT ![m].owner = owner]

LEMMA SetOwnerBlocks ==
  ASSUME NEW c, Chain(c), NEW block, mcb_find(c, block), ~Free(c, block - 1),
         NEW owner \in Owners
  PROVE  Blocks(mcb_set_owner(c, block, owner)) = RenamedBlock(Blocks(c), block - 1, owner)
<1>1. PICK m, d : m = block - 1 /\ d = GivenTo(c, m, owner)
  OBVIOUS
<1>2. m \in DOMAIN c /\ ~Free(c, m) /\ c = [x \in DOMAIN c |-> c[x]]
  BY <1>1 DEF mcb_find, Chain, Typed
<1>3. DOMAIN d = DOMAIN c /\ d[m] = [c[m] EXCEPT !.owner = owner]
      /\ \A x \in DOMAIN c : x # m => d[x] = c[x]
  BY <1>1, <1>2 DEF GivenTo
<1>4. d[m].owner = owner /\ d[m].size = c[m].size /\ owner # OWNER_FREE
  <2>1. c[m] \in HeaderType
    BY <1>2, HeaderFacts
  <2> QED BY <2>1, <1>3, OwnersAssumption DEF HeaderType
<1>5. PICK b : b = [Blocks(c) EXCEPT ![m].owner = owner]
  OBVIOUS
<1>6. m \in DOMAIN Blocks(c) /\ Blocks(c)[m] = [owner |-> c[m].owner, size |-> c[m].size]
  BY <1>2, BlocksFacts
<1>7. /\ DOMAIN b = DOMAIN Blocks(c) /\ b = [x \in DOMAIN b |-> b[x]]
      /\ b[m] = [owner |-> owner, size |-> c[m].size]
      /\ \A x \in DOMAIN b : x # m => b[x] = Blocks(c)[x]
  <2>1. [Blocks(c)[m] EXCEPT !.owner = owner] = [owner |-> owner, size |-> c[m].size]
    BY <1>6
  <2> QED BY <1>5, <1>6, <2>1
<1>8. ASSUME NEW x \in DOMAIN d
      PROVE  ~Free(d, x) <=> x \in DOMAIN b
  <2>1. x \in DOMAIN b <=> x \in DOMAIN c /\ ~Free(c, x)
    BY <1>7, BlocksFacts
  <2>2. CASE x = m
    BY <1>2, <1>4, <2>1, <2>2 DEF Free
  <2>3. CASE x # m
    BY <1>3, <2>1, <2>3 DEF Free
  <2> QED BY <2>2, <2>3
<1>9. ASSUME NEW x \in DOMAIN b
      PROVE  b[x] = [owner |-> d[x].owner, size |-> d[x].size]
  <2>1. x \in DOMAIN c
    BY <1>7, BlocksFacts
  <2>2. CASE x = m
    BY <1>4, <1>7, <2>2
  <2>3. CASE x # m
    BY <1>3, <1>7, <2>1, <2>3, BlocksFacts
  <2> QED BY <2>2, <2>3
<1>10. DOMAIN b \subseteq DOMAIN d
  BY <1>3, <1>7, BlocksFacts
<1>11. Blocks(d) = b
  BY <1>7, <1>8, <1>9, <1>10, BlocksAre
<1> QED BY <1>1, <1>5, <1>11 DEF mcb_set_owner, GivenTo, RenamedBlock

\* The block at m gets n paragraphs; a free one shows before and after nothing.
LEMMA ResizeBlocks ==
  ASSUME NEW c, Chain(c), Coalesced(c), NEW m \in DOMAIN c, NEW n \in Nat, n <= Avail(c, m)
  PROVE  Blocks(mcb_resize(c, m, n)) =
           IF Free(c, m) THEN Blocks(c) ELSE [Blocks(c) EXCEPT ![m].size = n]
<1>1. PICK a : a = IF Avail(c, m) # c[m].size THEN Absorb(c, m) ELSE c
  OBVIOUS
<1>2. /\ Chain(a) /\ m \in DOMAIN a /\ DOMAIN a \subseteq DOMAIN c
      /\ a[m].owner = c[m].owner /\ a[m].size = Avail(c, m)
      /\ \A x \in DOMAIN a : x # m => a[x] = c[x]
      /\ \A x \in DOMAIN c \ DOMAIN a : Free(c, x)
  <2>1. CASE Avail(c, m) = c[m].size
    BY <1>1, <2>1
  <2>2. CASE Avail(c, m) # c[m].size
    <3>1. PICK k : k = mnext(c, m)
      OBVIOUS
    <3>2. k \in DOMAIN c /\ Free(c, k) /\ Avail(c, m) = c[m].size + 1 + c[k].size
      BY <2>2, <3>1, AvailFacts
    <3>3. /\ Chain(a) /\ DOMAIN a = DOMAIN c \ {k} /\ m # k
          /\ a[m].owner = c[m].owner /\ a[m].size = c[m].size + 1 + c[k].size
          /\ \A x \in DOMAIN a : x # m => a[x] = c[x] /\ mnext(a, x) = mnext(c, x)
      BY <1>1, <2>2, <3>1, <3>2, AbsorbChain
    <3> QED BY <3>2, <3>3
  <2> QED BY <2>1, <2>2
<1>3. PICK e : e = IF a[m].size > n THEN Split(a, m, n) ELSE a
  OBVIOUS
<1>4. /\ Chain(e) /\ DOMAIN a \subseteq DOMAIN e
      /\ e[m].owner = c[m].owner /\ e[m].size = n
      /\ \A x \in DOMAIN a : x # m => e[x] = c[x]
      /\ \A x \in DOMAIN e \ DOMAIN a : Free(e, x)
  <2>1. a[m].size \in Nat
    BY <1>2, HeaderFacts
  <2>2. CASE a[m].size > n
    <3>1. PICK nm : nm = m + 1 + n
      OBVIOUS
    <3>2. e = Split(a, m, n) /\ n < a[m].size
      BY <1>3, <2>1, <2>2
    <3>3. /\ Chain(e)
          /\ DOMAIN e = DOMAIN a \cup {nm} /\ nm \notin DOMAIN a
          /\ e[m].owner = a[m].owner /\ Free(e, nm)
          /\ \A x \in DOMAIN a : x # m => e[x] = a[x] /\ mnext(e, x) = mnext(a, x)
      BY <3>1, <3>2, <1>2, SplitChain
    <3>4. e[m].size = n
      BY <1>2, <3>2 DEF Split, Header
    <3> QED BY <1>2, <3>3, <3>4
  <2>3. CASE ~(a[m].size > n)
    <3>1. e = a /\ a[m].size = n
      BY <1>2, <1>3, <2>1, <2>3
    <3> QED BY <1>2, <3>1
  <2> QED BY <2>2, <2>3
<1>5. Blocks(mcb_resize(c, m, n)) = Blocks(e)
  <2>1. mcb_resize(c, m, n) = IF a[m].size > n THEN mcb_coalesce(e) ELSE e
    BY <1>1, <1>3 DEF mcb_resize
  <2>2. Blocks(mcb_coalesce(e)) = Blocks(e)
    BY <1>4, CoalesceBlocks
  <2> QED BY <2>1, <2>2
<1>6. PICK b : b = IF Free(c, m) THEN Blocks(c) ELSE [Blocks(c) EXCEPT ![m].size = n]
  OBVIOUS
<1>7. /\ DOMAIN b = DOMAIN Blocks(c) /\ b = [x \in DOMAIN b |-> b[x]]
      /\ \A x \in DOMAIN b : x # m => b[x] = Blocks(c)[x]
      /\ m \in DOMAIN b => ~Free(c, m) /\ b[m] = [owner |-> c[m].owner, size |-> n]
  <2>1. CASE Free(c, m)
    <3>1. b = Blocks(c) /\ m \notin DOMAIN Blocks(c)
      BY <1>6, <2>1, BlocksFacts
    <3>2. Blocks(c) = [x \in DOMAIN Blocks(c) |-> Blocks(c)[x]]
      BY DEF Blocks
    <3> QED BY <3>1, <3>2
  <2>2. CASE ~Free(c, m)
    <3>1. m \in DOMAIN Blocks(c) /\ Blocks(c)[m] = [owner |-> c[m].owner, size |-> c[m].size]
      BY <2>2, BlocksFacts
    <3>2. [Blocks(c)[m] EXCEPT !.size = n] = [owner |-> c[m].owner, size |-> n]
      BY <3>1
    <3> QED BY <1>6, <2>2, <3>1, <3>2
  <2> QED BY <2>1, <2>2
<1>8. ASSUME NEW x \in DOMAIN e
      PROVE  ~Free(e, x) <=> x \in DOMAIN b
  <2>1. x \in DOMAIN b <=> x \in DOMAIN c /\ ~Free(c, x)
    BY <1>7, BlocksFacts
  <2>2. CASE x = m
    BY <1>4, <2>1, <2>2 DEF Free
  <2>3. CASE x # m /\ x \in DOMAIN a
    BY <1>2, <1>4, <2>1, <2>3 DEF Free
  <2>4. CASE x \notin DOMAIN a
    BY <1>2, <1>4, <2>1, <2>4 DEF Free
  <2> QED BY <2>2, <2>3, <2>4
<1>9. ASSUME NEW x \in DOMAIN b
      PROVE  x \in DOMAIN e /\ b[x] = [owner |-> e[x].owner, size |-> e[x].size]
  <2>1. x \in DOMAIN c /\ ~Free(c, x)
    BY <1>7, BlocksFacts
  <2>2. x \in DOMAIN a
    BY <1>2, <2>1
  <2>3. CASE x = m
    BY <1>4, <1>7, <2>2, <2>3
  <2>4. CASE x # m
    <3>1. e[x] = c[x] /\ b[x] = Blocks(c)[x] /\ x \in DOMAIN Blocks(c)
      BY <1>4, <1>7, <2>2, <2>4
    <3> QED BY <3>1, <1>4, <2>2, BlocksFacts
  <2> QED BY <2>3, <2>4
<1>10. Blocks(e) = b
  BY <1>7, <1>8, <1>9, BlocksAre
<1> QED BY <1>5, <1>6, <1>10

----------------------------------------------------------------------------
\* Where the blocks leave room.

\* A place without blocks lies in a free block.
LEMMA RoomIsFit ==
  ASSUME NEW c, Chain(c), Coalesced(c), NEW h \in First..Top, NEW n \in Nat,
         Map!Room(Blocks(c), h, n)
  PROVE  \E m \in DOMAIN c : Free(c, m) /\ n <= c[m].size
<1>1. h \in Nat /\ First <= h /\ h + 1 + n <= Top /\ h < Top
  BY ArenaAssumption DEF Map!Room
<1>2. PICK m \in DOMAIN c : m <= h /\ h < mnext(c, m)
  BY <1>1, Covered
<1>3. /\ m \in Nat /\ c[m].size \in Nat /\ mnext(c, m) = m + 1 + c[m].size
      /\ mnext(c, m) <= Top /\ (mnext(c, m) < Top => mnext(c, m) \in DOMAIN c)
  BY HeaderFacts DEF mnext
<1>4. \A x \in DOMAIN c : ~Free(c, x) => h + n < x \/ x + c[x].size < h
  <2> SUFFICES ASSUME NEW x \in DOMAIN c, ~Free(c, x)
               PROVE  h + n < x \/ x + c[x].size < h
    OBVIOUS
  <2>1. x \in DOMAIN Blocks(c) /\ Blocks(c)[x].size = c[x].size
    BY BlocksFacts
  <2> QED BY <2>1 DEF Map!Room
<1>5. Free(c, m)
  <2> SUFFICES ASSUME ~Free(c, m) PROVE FALSE
    OBVIOUS
  <2>1. h + n < m \/ m + c[m].size < h
    BY <1>4
  <2> QED BY <1>1, <1>2, <1>3, <2>1
<1>6. n <= c[m].size
  <2>1. CASE mnext(c, m) < Top
    <3>1. PICK k : k = mnext(c, m)
      OBVIOUS
    <3>2. k \in DOMAIN c /\ ~Free(c, k)
      BY <1>3, <1>5, <2>1, <3>1 DEF Coalesced
    <3>3. h + n < k \/ k + c[k].size < h
      BY <1>4, <3>2
    <3>4. k \in Nat /\ c[k].size \in Nat
      BY <3>2, HeaderFacts
    <3> QED BY <1>1, <1>2, <1>3, <3>1, <3>3, <3>4
  <2>2. CASE ~(mnext(c, m) < Top)
    BY <1>1, <1>2, <1>3, <2>2, ArenaAssumption
  <2> QED BY <2>1, <2>2
<1> QED BY <1>5, <1>6

\* A free block is a place without blocks.
LEMMA FitIsRoom ==
  ASSUME NEW c, Chain(c), NEW m \in DOMAIN c, Free(c, m), NEW n \in Nat, n <= c[m].size
  PROVE  m \in First..Top /\ Map!Room(Blocks(c), m, n)
<1>1. /\ m \in Nat /\ First <= m /\ m < Top /\ c[m].size \in Nat
      /\ mnext(c, m) = m + 1 + c[m].size /\ mnext(c, m) <= Top
      /\ \A x \in DOMAIN c : x <= m \/ mnext(c, m) <= x
  BY HeaderFacts DEF mnext
<1>2. ASSUME NEW x \in DOMAIN Blocks(c)
      PROVE  m + n < x \/ x + Blocks(c)[x].size < m
  <2>1. x \in DOMAIN c /\ ~Free(c, x) /\ Blocks(c)[x].size = c[x].size
    BY BlocksFacts
  <2>2. /\ x \in Nat /\ c[x].size \in Nat /\ mnext(c, x) = x + 1 + c[x].size
        /\ m <= x \/ mnext(c, x) <= m
    BY <2>1, HeaderFacts DEF mnext
  <2>3. x # m
    BY <2>1
  <2> QED BY <1>1, <2>1, <2>2, <2>3
<1> QED BY <1>1, <1>2, ArenaAssumption DEF Map!Room

LEMMA LargestFacts ==
  ASSUME NEW c, Chain(c)
  PROVE  /\ mcb_largest(c) \in Nat /\ mcb_largest(c) <= Top - First - 1
         /\ \A m \in DOMAIN c : Free(c, m) => c[m].size <= mcb_largest(c)
         /\ mcb_largest(c) > 0 => \E m \in DOMAIN c : Free(c, m) /\ c[m].size = mcb_largest(c)
<1> DEFINE S == {c[m].size : m \in {x \in DOMAIN c : Free(c, x)}} \cup {0}
<1>1. /\ S \in SUBSET Nat /\ S # {} /\ Top - First - 1 \in Nat
      /\ \A x \in S : x <= Top - First - 1
  <2>1. Top - First - 1 \in Nat
    BY ArenaAssumption
  <2> QED BY <2>1, HeaderFacts
<1>2. PICK s \in S : \A t \in S : t <= s
  BY <1>1, NatGreatest
<1>3. mcb_largest(c) \in S /\ \A t \in S : t <= mcb_largest(c)
  BY <1>2 DEF mcb_largest
<1>4. \A m \in DOMAIN c : Free(c, m) => c[m].size \in S
  OBVIOUS
<1> QED BY <1>1, <1>3, <1>4

\* The BX of a refused 48h.
LEMMA LargestIsLargest ==
  ASSUME NEW c, Chain(c), Coalesced(c)
  PROVE  /\ mcb_largest(c) \in Map!Sizes
         /\ Map!IsLargest(Blocks(c), First..Top, mcb_largest(c))
<1>1. PICK s : s = mcb_largest(c)
  OBVIOUS
<1>2. /\ s \in Nat /\ s <= Top - First - 1
      /\ \A m \in DOMAIN c : Free(c, m) => c[m].size <= s
      /\ s > 0 => \E m \in DOMAIN c : Free(c, m) /\ c[m].size = s
  BY <1>1, LargestFacts
<1>3. s \in Map!Sizes
  BY <1>2, ArenaAssumption DEF Map!Sizes
<1>4. s > 0 => \E h \in First..Top : Map!Room(Blocks(c), h, s)
  <2> SUFFICES ASSUME s > 0 PROVE \E h \in First..Top : Map!Room(Blocks(c), h, s)
    OBVIOUS
  <2>1. PICK m \in DOMAIN c : Free(c, m) /\ c[m].size = s
    BY <1>2
  <2>2. m \in First..Top /\ Map!Room(Blocks(c), m, s)
    BY <1>2, <2>1, FitIsRoom
  <2> QED BY <2>2
<1>5. ASSUME NEW h \in First..Top, Map!Room(Blocks(c), h, s + 1)
      PROVE  FALSE
  <2>1. s + 1 \in Nat
    BY <1>2
  <2>2. PICK m \in DOMAIN c : Free(c, m) /\ s + 1 <= c[m].size
    BY <1>5, <2>1, RoomIsFit
  <2>3. c[m].size \in Nat /\ c[m].size <= s
    BY <1>2, <2>2, HeaderFacts
  <2> QED BY <1>2, <2>2, <2>3
<1> QED BY <1>1, <1>3, <1>4, <1>5 DEF Map!IsLargest

\* A block can grow to what Avail says and no further.
LEMMA RoomIsAvail ==
  ASSUME NEW c, Chain(c), Coalesced(c), NEW m \in DOMAIN c, ~Free(c, m)
  PROVE  /\ Avail(c, m) \in Map!Sizes
         /\ \A n \in Nat : Map!Room(Map!Drop(Blocks(c), {m}), m, n) <=> n <= Avail(c, m)
<1>1. PICK e : e = m + 1 + Avail(c, m)
  OBVIOUS
<1>2. /\ m \in Nat /\ First <= m /\ m < Top /\ c[m].size \in Nat
      /\ mnext(c, m) = m + 1 + c[m].size /\ mnext(c, m) <= Top
      /\ mnext(c, m) < Top => mnext(c, m) \in DOMAIN c
      /\ \A x \in DOMAIN c : x <= m \/ mnext(c, m) <= x
      /\ c[m].sig = "Z" <=> mnext(c, m) = Top
  BY HeaderFacts DEF mnext
<1>3. /\ Avail(c, m) \in Nat /\ e \in Nat /\ e <= Top
      /\ e < Top => e \in DOMAIN c /\ ~Free(c, e)
      /\ \A x \in DOMAIN c : ~Free(c, x) => x <= m \/ e <= x
  <2>1. CASE mnext(c, m) < Top /\ Free(c, mnext(c, m))
    <3>1. PICK k : k = mnext(c, m)
      OBVIOUS
    <3>2. /\ k \in DOMAIN c /\ Free(c, k) /\ k \in Nat /\ c[k].size \in Nat
          /\ mnext(c, k) = k + 1 + c[k].size /\ mnext(c, k) <= Top
          /\ mnext(c, k) < Top => mnext(c, k) \in DOMAIN c
          /\ \A x \in DOMAIN c : x <= k \/ mnext(c, k) <= x
      BY <1>2, <2>1, <3>1, HeaderFacts DEF mnext
    <3>3. Avail(c, m) = c[m].size + 1 + c[k].size
      BY <1>2, <2>1, <3>1, ArenaAssumption DEF Avail
    <3>4. e = mnext(c, k)
      BY <1>1, <1>2, <3>1, <3>2, <3>3
    <3>5. e < Top => ~Free(c, e)
      BY <3>2, <3>4 DEF Coalesced
    <3>6. ASSUME NEW x \in DOMAIN c, ~Free(c, x) PROVE x <= m \/ e <= x
      <4>1. x # k /\ x \in Nat
        BY <3>2, <3>6, HeaderFacts
      <4>2. x <= m \/ k <= x
        BY <1>2, <3>1
      <4>3. x <= k \/ e <= x
        BY <3>2, <3>4
      <4> QED BY <1>2, <3>2, <4>1, <4>2, <4>3
    <3> QED BY <1>2, <3>2, <3>3, <3>4, <3>5, <3>6
  <2>2. CASE ~(mnext(c, m) < Top /\ Free(c, mnext(c, m)))
    <3>1. Avail(c, m) = c[m].size
      BY <1>2, <2>2, ArenaAssumption DEF Avail
    <3>2. e = mnext(c, m)
      BY <1>1, <1>2, <3>1
    <3> QED BY <1>2, <2>2, <3>1, <3>2
  <2> QED BY <2>1, <2>2
<1>4. Avail(c, m) \in Map!Sizes
  BY <1>1, <1>2, <1>3, ArenaAssumption DEF Map!Sizes
<1>5. PICK b : b = Map!Drop(Blocks(c), {m})
  OBVIOUS
<1>6. ASSUME NEW x
      PROVE  /\ x \in DOMAIN b <=> x \in DOMAIN c /\ ~Free(c, x) /\ x # m
             /\ x \in DOMAIN b => b[x].size = c[x].size
  <2>1. DOMAIN b = DOMAIN Blocks(c) \ {m}
    BY <1>5 DEF Map!Drop
  <2>2. x \in DOMAIN b => b[x] = Blocks(c)[x]
    BY <1>5 DEF Map!Drop
  <2> QED BY <2>1, <2>2, BlocksFacts
<1>7. ASSUME NEW n \in Nat, n <= Avail(c, m)
      PROVE  Map!Room(b, m, n)
  <2>1. ASSUME NEW x \in DOMAIN b PROVE m + n < x \/ x + b[x].size < m
    <3>1. x \in DOMAIN c /\ ~Free(c, x) /\ x # m /\ b[x].size = c[x].size
      BY <1>6
    <3>2. /\ x \in Nat /\ c[x].size \in Nat /\ mnext(c, x) = x + 1 + c[x].size
          /\ m <= x \/ mnext(c, x) <= m
      BY <3>1, HeaderFacts DEF mnext
    <3>3. x <= m \/ e <= x
      BY <1>3, <3>1
    <3> QED BY <1>1, <1>2, <1>3, <1>7, <3>1, <3>2, <3>3
  <2>2. m + 1 + n <= Top
    BY <1>1, <1>2, <1>3, <1>7, ArenaAssumption
  <2> QED BY <1>2, <2>1, <2>2 DEF Map!Room
<1>8. ASSUME NEW n \in Nat, Map!Room(b, m, n)
      PROVE  n <= Avail(c, m)
  <2>1. m + 1 + n <= Top /\ \A x \in DOMAIN b : m + n < x \/ x + b[x].size < m
    BY <1>8 DEF Map!Room
  <2>2. CASE e < Top
    <3>1. e \in DOMAIN b /\ b[e].size = c[e].size /\ c[e].size \in Nat
      BY <1>1, <1>2, <1>3, <1>6, <2>2, HeaderFacts
    <3> QED BY <1>1, <1>2, <1>3, <2>1, <3>1
  <2>3. CASE ~(e < Top)
    BY <1>1, <1>2, <1>3, <2>1, <2>3, ArenaAssumption
  <2> QED BY <2>2, <2>3
<1> QED BY <1>4, <1>5, <1>7, <1>8

----------------------------------------------------------------------------
\* The invariant.

ChainInv == TypeOK /\ ChainOK /\ NoAdjacentFree

LEMMA InitChain ==
  ASSUME proc_init
  PROVE  ChainInv
<1>1. PICK size : size = Top - First - 1
  OBVIOUS
<1>2. size \in 0..(Top - First - 1) /\ First + 1 + size = Top
  BY <1>1, ArenaAssumption
<1>3. /\ DOMAIN mcb = {First}
      /\ mcb[First] = [sig |-> "Z", owner |-> OWNER_FREE, size |-> size]
      /\ mcb = [m \in DOMAIN mcb |-> mcb[m]]
  BY <1>1 DEF proc_init, Header
<1>4. mcb[First] \in HeaderType
  BY <1>2, <1>3 DEF HeaderType
<1>5. First \in First..(Top - 1)
  BY ArenaAssumption
<1>6. mnext(mcb, First) = Top
  BY <1>2, <1>3 DEF mnext
<1>7. First # Top /\ First <= First /\ Top <= Top
  BY ArenaAssumption
<1>8. TypeOK
  BY <1>3, <1>4, <1>5 DEF TypeOK, Typed
<1>9. ChainOK
  <2>1. mcb[First].sig = "Z"
    BY <1>3
  <2>2. First \in DOMAIN mcb /\ \A m \in DOMAIN mcb : m = First
    BY <1>3
  <2>3. /\ mnext(mcb, First) <= Top
        /\ ~(mnext(mcb, First) < Top)
        /\ \A x \in DOMAIN mcb : x <= First
    BY <1>6, <2>2, ArenaAssumption
  <2> QED BY <1>6, <2>1, <2>2, <2>3, Zenon DEF ChainOK, Linked
<1>10. NoAdjacentFree
  BY <1>3, <1>6, <1>7 DEF NoAdjacentFree, Coalesced
<1> QED BY <1>8, <1>9, <1>10 DEF ChainInv

LEMMA NextChain ==
  ASSUME ChainInv, [Next]_vars
  PROVE  ChainInv'
<1>1. PICK c, d : c = mcb /\ d = mcb'
  OBVIOUS
<1>2. Chain(c) /\ Coalesced(c)
  BY <1>1 DEF ChainInv, TypeOK, ChainOK, NoAdjacentFree, Chain
<1>3. mcb_coalesce(c) = c
  BY <1>2, CoalesceNothing
<1>4. \A n \in 0..MaxReq : n \in Nat
  BY MaxReqAssumption
<1>5. Chain(d) /\ Coalesced(d)
  <2>1. ASSUME NEW o \in Owners, NEW n \in 0..MaxReq, f48_alloc(o, n)
        PROVE  Chain(d) /\ Coalesced(d)
    BY <2>1, <1>1, <1>2, <1>3, <1>4, AllocKeeps DEF f48_alloc
  <2>2. ASSUME NEW b \in First..Top, f49_free(b)
        PROVE  Chain(d) /\ Coalesced(d)
    BY <2>2, <1>1, <1>2, FreeKeeps DEF f49_free
  <2>3. ASSUME NEW b \in First..Top, NEW n \in 0..MaxReq, f4a_resize(b, n)
        PROVE  Chain(d) /\ Coalesced(d)
    <3>1. PICK m : m = b - 1
      OBVIOUS
    <3>2. \/ d = c
          \/ m \in DOMAIN c /\ n <= Avail(c, m) /\ d = mcb_resize(c, m, n)
      BY <2>3, <3>1, <1>1, <1>3 DEF f4a_resize, mcb_find
    <3> QED BY <3>2, <1>2, <1>4, ResizeKeeps
  <2>4. ASSUME NEW o \in Owners, FreeOwner(o)
        PROVE  Chain(d) /\ Coalesced(d)
    BY <2>4, <1>1, <1>2, FreeOwnerKeeps DEF FreeOwner
  <2>5. ASSUME NEW b \in First..Top, NEW o \in Owners, SetOwner(b, o)
        PROVE  Chain(d) /\ Coalesced(d)
    BY <2>5, <1>1, <1>2, SetOwnerKeeps DEF SetOwner
  <2>6. CASE UNCHANGED vars
    BY <2>6, <1>1, <1>2 DEF vars
  <2> QED BY <2>1, <2>2, <2>3, <2>4, <2>5, <2>6 DEF Next
<1>6. Typed(mcb)' /\ Linked(mcb)' /\ Coalesced(mcb)'
  BY <1>1, <1>5 DEF Chain, Typed, Linked, Coalesced, mnext, Free
<1> QED BY <1>6 DEF ChainInv, TypeOK, ChainOK, NoAdjacentFree

LEMMA SpecChain == Spec => []ChainInv
<1>1. proc_init => ChainInv
  BY InitChain
<1>2. ChainInv /\ [Next]_vars => ChainInv'
  BY NextChain
<1> QED BY <1>1, <1>2, PTL DEF Spec

\* Through any sequence of calls the headers are well typed, and every walk of
\* the chain from First meets every header and ends at the top of memory.
THEOREM ChainKept == Spec => [](TypeOK /\ ChainOK)
<1>1. ChainInv => TypeOK /\ ChainOK
  BY DEF ChainInv
<1> QED BY <1>1, SpecChain, PTL

\* No call of 48h, 49h and 4Ah, and no end of a process, leaves two free blocks
\* side by side: each of them merges, before or after its own change, so the
\* header a resize has found is never swallowed under it.
THEOREM FreeMerged == Spec => []NoAdjacentFree
<1>1. ChainInv => NoAdjacentFree
  BY DEF ChainInv
<1> QED BY <1>1, SpecChain, PTL

----------------------------------------------------------------------------
\* The block map.

LEMMA MapShows ==
  [m \in Allocated |-> [owner |-> mcb[m].owner, size |-> mcb[m].size]] = Blocks(mcb)
BY DEF Allocated, Blocks

LEMMA MapInit ==
  ASSUME proc_init
  PROVE  Map!MemInit
<1>1. mcb = [m \in {First} |-> Header("Z", OWNER_FREE, Top - First - 1)]
      /\ ret = Answer("boot", 0, 0, TRUE, 0, 0)
  BY DEF proc_init
<1>2. \A m \in DOMAIN mcb : Free(mcb, m)
  BY <1>1 DEF Free, Header
<1>3. Blocks(mcb) = [x \in {} |-> 0]
  BY <1>2 DEF Blocks
<1> QED BY <1>1, <1>3, MapShows DEF Map!MemInit, Map!Answer, Answer

LEMMA MapStep ==
  ASSUME ChainInv, [Next]_vars
  PROVE  [Map!MemNext]_Map!memVars
<1>1. PICK c, d : c = mcb /\ d = mcb'
  OBVIOUS
<1>2. Chain(c) /\ Coalesced(c)
  BY <1>1 DEF ChainInv, TypeOK, ChainOK, NoAdjacentFree, Chain
<1>3. mcb_coalesce(c) = c
  BY <1>2, CoalesceNothing
<1>4. PICK b, e : b = Blocks(c) /\ e = Blocks(d)
  OBVIOUS
<1>5. [m \in Allocated |-> [owner |-> mcb[m].owner, size |-> mcb[m].size]] = b
  BY <1>1, <1>4, MapShows
<1>6. [m \in Allocated |-> [owner |-> mcb[m].owner, size |-> mcb[m].size]]' = e
  BY <1>1, <1>4 DEF Allocated, Blocks, Free
<1>7. /\ \A x : x \in DOMAIN b <=> x \in DOMAIN c /\ ~Free(c, x)
      /\ \A x \in DOMAIN b : b[x].owner = c[x].owner /\ b[x].size = c[x].size
  BY <1>4, BlocksFacts
<1>8. CASE UNCHANGED vars
  <2>1. d = c /\ ret' = ret
    BY <1>8, <1>1 DEF vars
  <2>2. e = b
    BY <2>1, <1>4
  <2> QED BY <2>1, <2>2, <1>5, <1>6 DEF Map!memVars
<1>9. ASSUME NEW o \in Owners, NEW n \in 0..MaxReq, f48_alloc(o, n)
      PROVE  Map!Allocate(o, ret'.n)
  <2>1. n \in Nat
    BY MaxReqAssumption
  <2>2. CASE Fits(c, n) # {}
    <3>1. PICK h : h = FirstFit(c, n)
      OBVIOUS
    <3>2. d = mcb_alloc(c, n, o) /\ ret' = Answer("48", 0, n, TRUE, h + 1, 0)
      BY <1>9, <1>1, <2>2, <3>1 DEF f48_alloc
    <3>3. /\ h \in DOMAIN c /\ Free(c, h) /\ n <= c[h].size
          /\ e = [x \in DOMAIN b \cup {h} |-> IF x = h THEN [owner |-> o, size |-> n] ELSE b[x]]
      BY <1>2, <1>4, <2>1, <2>2, <3>1, <3>2, AllocBlocks
    <3>4. h \in First..Top /\ Map!Room(b, h, n)
      BY <1>2, <1>4, <2>1, <3>3, FitIsRoom
    <3>5. ret'.n = n
      BY <3>2 DEF Answer
    <3> QED BY <3>2, <3>3, <3>4, <3>5, <1>5, <1>6 DEF Map!Allocate, Map!Answer, Answer
  <2>3. CASE Fits(c, n) = {}
    <3>1. d = c /\ ret' = Answer("48", 0, n, FALSE, 8, mcb_largest(d))
      BY <1>9, <1>1, <1>3, <2>3 DEF f48_alloc
    <3>2. Map!NoRoom(b, n)
      <4> SUFFICES ASSUME NEW h \in First..Top, Map!Room(b, h, n) PROVE FALSE
        BY DEF Map!NoRoom
      <4>1. \E m \in DOMAIN c : Free(c, m) /\ n <= c[m].size
        BY <1>2, <1>4, <2>1, RoomIsFit
      <4>2. PICK m \in DOMAIN c : Free(c, m) /\ n <= c[m].size
        BY <4>1
      <4>3. m \in Fits(c, n)
        BY <4>2, <2>1, <1>2, HeaderFacts DEF Fits
      <4> QED BY <4>3, <2>3
    <3>3. mcb_largest(c) \in Map!Sizes /\ Map!IsLargest(b, First..Top, mcb_largest(c))
      BY <1>2, <1>4, LargestIsLargest
    <3>4. ret'.n = n /\ e = b
      BY <3>1, <1>4 DEF Answer
    <3> QED BY <3>1, <3>2, <3>3, <3>4, <1>5, <1>6 DEF Map!Allocate, Map!Answer, Answer
  <2> QED BY <2>2, <2>3
<1>10. ASSUME NEW k \in First..Top, f49_free(k)
       PROVE  Map!MemNext
  <2>1. PICK h : h = k - 1
    OBVIOUS
  <2>2. k = h + 1
    BY <2>1, ArenaAssumption
  <2>3. ret'.fn = "49" /\ ret'.seg = k
    BY <1>10 DEF f49_free, Answer
  <2>4. CASE h \in DOMAIN b
    <3>1. mcb_find(c, k)
      BY <2>1, <2>4, <1>7 DEF mcb_find
    <3>2. d = mcb_free(c, k) /\ ret' = Answer("49", k, 0, TRUE, 0, 0)
      BY <1>10, <1>1, <3>1 DEF f49_free
    <3>3. e = Map!Drop(b, {h})
      BY <1>2, <1>4, <2>1, <3>1, <3>2, FreeBlocks
    <3>4. Map!Release(h)
      BY <2>2, <2>4, <3>2, <3>3, <1>5, <1>6 DEF Map!Release, Map!Answer, Answer
    <3> QED BY <2>4, <3>4, <1>5 DEF Map!MemNext
  <2>5. CASE h \notin DOMAIN b
    <3>1. e = b
      <4>1. CASE mcb_find(c, k)
        <5>1. d = mcb_free(c, k)
          BY <1>10, <1>1, <4>1 DEF f49_free
        <5>2. e = Map!Drop(b, {h})
          BY <1>2, <1>4, <2>1, <4>1, <5>1, FreeBlocks
        <5>3. DOMAIN b \ {h} = DOMAIN b /\ b = [x \in DOMAIN b |-> b[x]]
          BY <2>5, <1>4 DEF Blocks
        <5> QED BY <5>2, <5>3 DEF Map!Drop
      <4>2. CASE ~mcb_find(c, k)
        BY <1>10, <1>1, <1>4, <4>2 DEF f49_free
      <4> QED BY <4>1, <4>2
    <3>2. Map!Ignore
      BY <2>1, <2>3, <2>5, <3>1, <1>5, <1>6 DEF Map!Ignore
    <3> QED BY <3>2 DEF Map!MemNext
  <2> QED BY <2>4, <2>5
<1>11. ASSUME NEW k \in First..Top, NEW n \in 0..MaxReq, f4a_resize(k, n)
       PROVE  Map!MemNext
  <2>1. PICK h : h = k - 1
    OBVIOUS
  <2>2. k = h + 1 /\ n \in Nat
    BY <2>1, ArenaAssumption, MaxReqAssumption
  <2>3. ret'.fn = "4A" /\ ret'.seg = k /\ ret'.n = n
    BY <1>11 DEF f4a_resize, Answer
  <2>4. \/ h \notin DOMAIN c /\ d = c
        \/ /\ h \in DOMAIN c /\ n > Avail(c, h) /\ d = c
           /\ ret' = Answer("4A", k, n, FALSE, 8, Avail(c, h))
        \/ /\ h \in DOMAIN c /\ n <= Avail(c, h) /\ d = mcb_resize(c, h, n)
           /\ ret' = Answer("4A", k, n, TRUE, 0, 0)
    BY <1>11, <1>1, <1>3, <2>1 DEF f4a_resize, mcb_find
  <2>5. CASE h \in DOMAIN b
    <3>1. h \in DOMAIN c /\ ~Free(c, h)
      BY <1>7, <2>5
    <3>2. /\ Avail(c, h) \in Map!Sizes
          /\ \A i \in Nat : Map!Room(Map!Drop(b, {h}), h, i) <=> i <= Avail(c, h)
      BY <3>1, <1>2, <1>4, RoomIsAvail
    <3>3. Avail(c, h) \in Nat
      BY <3>2, ArenaAssumption DEF Map!Sizes
    <3>4. CASE n > Avail(c, h)
      <4>0. ~(n <= Avail(c, h))
        BY <2>2, <3>3, <3>4
      <4>1. d = c /\ ret' = Answer("4A", k, n, FALSE, 8, Avail(c, h))
        BY <2>4, <3>1, <4>0, Zenon
      <4>2. e = b
        BY <4>1, <1>4
      <4>3. Map!IsLargest(Map!Drop(b, {h}), {h}, Avail(c, h))
        <5>1. Map!Room(Map!Drop(b, {h}), h, Avail(c, h))
          BY <3>2, <3>3
        <5>2. ~Map!Room(Map!Drop(b, {h}), h, Avail(c, h) + 1)
          BY <3>2, <3>3
        <5> QED BY <5>1, <5>2 DEF Map!IsLargest
      <4>4. ~Map!Room(Map!Drop(b, {h}), h, n)
        BY <2>2, <3>2, <3>3, <3>4
      <4>5. Map!Resize(h, ret'.n)
        BY <2>2, <2>3, <2>5, <3>2, <4>1, <4>2, <4>3, <4>4, <1>5, <1>6
           DEF Map!Resize, Map!Answer, Answer
      <4> QED BY <2>5, <4>5, <1>5 DEF Map!MemNext
    <3>5. CASE ~(n > Avail(c, h))
      <4>1. n <= Avail(c, h) /\ d = mcb_resize(c, h, n) /\ ret' = Answer("4A", k, n, TRUE, 0, 0)
        BY <2>2, <2>4, <3>1, <3>3, <3>5
      <4>2. e = [b EXCEPT ![h].size = n]
        BY <1>2, <1>4, <2>2, <3>1, <4>1, ResizeBlocks
      <4>3. Map!Room(Map!Drop(b, {h}), h, n)
        BY <2>2, <3>2, <4>1
      <4>4. Map!Resize(h, ret'.n)
        BY <2>2, <2>3, <2>5, <4>1, <4>2, <4>3, <1>5, <1>6 DEF Map!Resize, Map!Answer, Answer
      <4> QED BY <2>5, <4>4, <1>5 DEF Map!MemNext
    <3> QED BY <3>4, <3>5
  <2>6. CASE h \notin DOMAIN b
    <3>1. e = b
      <4>1. CASE d = c
        BY <4>1, <1>4
      <4>2. CASE d # c
        <5>1. h \in DOMAIN c /\ Free(c, h) /\ n <= Avail(c, h) /\ d = mcb_resize(c, h, n)
          BY <1>7, <2>4, <2>6, <4>2
        <5> QED BY <5>1, <1>2, <1>4, <2>2, ResizeBlocks
      <4> QED BY <4>1, <4>2
    <3>2. Map!Ignore
      BY <2>1, <2>3, <2>6, <3>1, <1>5, <1>6 DEF Map!Ignore
    <3> QED BY <3>2 DEF Map!MemNext
  <2> QED BY <2>5, <2>6
<1>12. ASSUME NEW o \in Owners, FreeOwner(o)
       PROVE  Map!MemNext
  <2>1. d = mcb_free_owner(c, o) /\ ret' = Answer("free owner", o, 0, TRUE, 0, 0)
    BY <1>12, <1>1 DEF FreeOwner
  <2>2. PICK S : S = {x \in DOMAIN c : c[x].owner = o}
    OBVIOUS
  <2>3. e = Map!Drop(b, S)
    BY <1>2, <1>4, <2>1, <2>2, FreeOwnerBlocks
  <2>4. DOMAIN b \ S = DOMAIN b \ {x \in DOMAIN b : b[x].owner = o}
    BY <1>7, <2>2
  <2>5. e = Map!Drop(b, {x \in DOMAIN b : b[x].owner = o})
    BY <2>3, <2>4 DEF Map!Drop
  <2>6. Map!ReleaseOwner(o)
    BY <2>1, <2>5, <1>5, <1>6 DEF Map!ReleaseOwner, Map!Answer, Answer
  <2> QED BY <2>6 DEF Map!MemNext
<1>13. ASSUME NEW k \in First..Top, NEW o \in Owners, SetOwner(k, o)
       PROVE  Map!MemNext
  <2>1. PICK h : h = k - 1
    OBVIOUS
  <2>2. k = h + 1
    BY <2>1, ArenaAssumption
  <2>3. /\ mcb_find(c, k) /\ ~Free(c, h) /\ d = mcb_set_owner(c, k, o)
        /\ ret' = Answer("set owner", k, o, TRUE, 0, 0)
    BY <1>13, <1>1, <2>1 DEF SetOwner
  <2>4. h \in DOMAIN b
    BY <2>1, <2>3, <1>7 DEF mcb_find
  <2>5. e = [b EXCEPT ![h].owner = o]
    <3>1. ~Free(c, k - 1)
      BY <2>1, <2>3
    <3>2. Blocks(mcb_set_owner(c, k, o)) = RenamedBlock(Blocks(c), k - 1, o)
      BY <1>2, <1>13, <2>3, <3>1, SetOwnerBlocks
    <3> QED BY <1>4, <2>1, <2>3, <3>2 DEF RenamedBlock
  <2>6. Map!Rename(h, o)
    BY <2>2, <2>3, <2>4, <2>5, <1>5, <1>6 DEF Map!Rename, Map!Answer, Answer
  <2> QED BY <2>4, <2>6, <1>5 DEF Map!MemNext
<1> QED
  <2>1. ASSUME Next PROVE Map!MemNext
    BY <2>1, <1>9, <1>10, <1>11, <1>12, <1>13 DEF Next, Map!MemNext
  <2> QED BY <2>1, <1>8

\* The chain implements the block map: what its callers see is a map from
\* segments to blocks on which first fit overlaps nothing, a call changes no
\* block but its own, and a refusal and its BX tell the truth.
THEOREM ChainImplementsMap == Spec => ImplementsMap
<1>1. proc_init => ChainInv
  BY InitChain
<1>2. ChainInv /\ [Next]_vars => ChainInv'
  BY NextChain
<1>3. proc_init => Map!MemInit
  BY MapInit
<1>4. ChainInv /\ [Next]_vars => [Map!MemNext]_Map!memVars
  BY MapStep
<1> QED BY <1>1, <1>2, <1>3, <1>4, PTL DEF Spec, ImplementsMap, Map!MemSpec

----------------------------------------------------------------------------
(* Processes.                                                              *)

\* Every owner the processes put into a header is one.
OwnersFit == {OWNER_IMAGE, OWNER_SYSTEM} \cup (First..Top) \subseteq Owners

\* The headers of .EXE files: what the file loads and asks for fits 16 bits,
\* and the maximum, when given, is not below the minimum.
HeadersSane ==
  \A f \in Images :
    /\ f.com => f.min = 0
    /\ ~f.com => PspParas + f.load + f.min < Word /\ (f.max = 0 \/ f.min <= f.max)

Whole(c) == Chain(c) /\ Coalesced(c)

\* A block of n paragraphs for owner at m, among the blocks b.
Grown(b, m, owner, n) ==
  [x \in DOMAIN b \cup {m} |-> IF x = m THEN [owner |-> owner, size |-> n] ELSE b[x]]

\* The blocks of b that are not owner's.
Less(b, owner) == Map!Drop(b, {x \in DOMAIN b : b[x].owner = owner})

----------------------------------------------------------------------------
\* Block maps.

LEMMA BlocksMap ==
  ASSUME NEW c
  PROVE  Blocks(c) = [x \in DOMAIN Blocks(c) |-> Blocks(c)[x]]
BY DEF Blocks

\* What Less keeps.
LEMMA LessFacts ==
  ASSUME NEW b, NEW o
  PROVE  /\ \A x : x \in DOMAIN Less(b, o) <=> x \in DOMAIN b /\ b[x].owner # o
         /\ \A x \in DOMAIN Less(b, o) : Less(b, o)[x] = b[x]
         /\ Less(b, o) = [x \in DOMAIN Less(b, o) |-> Less(b, o)[x]]
BY DEF Less, Map!Drop

\* Two maps that agree outside the blocks of o.
LEMMA LessSame ==
  ASSUME NEW b, NEW e, NEW o,
         \A x : x \in DOMAIN b /\ b[x].owner # o <=> x \in DOMAIN e /\ e[x].owner # o,
         \A x \in DOMAIN b : b[x].owner # o => e[x] = b[x]
  PROVE  Less(e, o) = Less(b, o)
<1>1. DOMAIN Less(e, o) = DOMAIN Less(b, o)
  BY LessFacts
<1>2. \A x \in DOMAIN Less(b, o) : Less(e, o)[x] = Less(b, o)[x]
  BY <1>1, LessFacts
<1>3. Less(e, o) = [x \in DOMAIN Less(e, o) |-> Less(e, o)[x]]
  BY LessFacts
<1>4. Less(b, o) = [x \in DOMAIN Less(b, o) |-> Less(b, o)[x]]
  BY LessFacts
<1> QED BY <1>1, <1>2, <1>3, <1>4

LEMMA LessNone ==
  ASSUME NEW b, b = [x \in DOMAIN b |-> b[x]], NEW o, \A x \in DOMAIN b : b[x].owner # o
  PROVE  Less(b, o) = b
<1>1. DOMAIN Less(b, o) = DOMAIN b
  BY LessFacts
<1>2. \A x \in DOMAIN b : Less(b, o)[x] = b[x]
  BY <1>1, LessFacts
<1>3. Less(b, o) = [x \in DOMAIN Less(b, o) |-> Less(b, o)[x]]
  BY LessFacts
<1> QED BY <1>1, <1>2, <1>3

\* A block that is added and dropped again.
LEMMA GrownDropped ==
  ASSUME NEW b, b = [x \in DOMAIN b |-> b[x]], NEW m, m \notin DOMAIN b, NEW o, NEW n
  PROVE  Map!Drop(Grown(b, m, o, n), {m}) = b
<1>1. PICK g : g = Grown(b, m, o, n)
  OBVIOUS
<1>2. DOMAIN g \ {m} = DOMAIN b /\ \A x \in DOMAIN b : g[x] = b[x]
  BY <1>1 DEF Grown
<1>3. Map!Drop(g, {m}) = [x \in DOMAIN b |-> g[x]]
  BY <1>2 DEF Map!Drop
<1> QED BY <1>1, <1>2, <1>3

LEMMA GrownFacts ==
  ASSUME NEW b, NEW m, NEW o, NEW n, NEW g, g = Grown(b, m, o, n)
  PROVE  /\ \A x : x \in DOMAIN g <=> x \in DOMAIN b \/ x = m
         /\ g[m] = [owner |-> o, size |-> n] /\ g[m].owner = o /\ g[m].size = n
         /\ \A x \in DOMAIN b : x # m => g[x] = b[x]
         /\ g = [x \in DOMAIN g |-> g[x]]
BY DEF Grown

LEMMA WholeInv == ChainInv <=> Whole(mcb)
BY DEF ChainInv, TypeOK, ChainOK, NoAdjacentFree, Whole, Chain

----------------------------------------------------------------------------
\* The calls of a program, on the blocks.

LEMMA Allocates ==
  ASSUME NEW c, Whole(c), NEW n \in Nat, Fits(c, n) # {}, NEW o \in Owners,
         NEW m, m = FirstFit(c, n), NEW d, d = mcb_alloc(c, n, o)
  PROVE  /\ Whole(d) /\ m \in Nat /\ First <= m /\ m < Top
         /\ m \notin DOMAIN Blocks(c) /\ m \in DOMAIN Blocks(d)
         /\ Blocks(d) = Grown(Blocks(c), m, o, n)
<1>1. m \in DOMAIN c /\ Free(c, m) /\ Blocks(d) = Grown(Blocks(c), m, o, n)
  BY AllocBlocks DEF Whole, Grown
<1>2. Whole(d)
  BY AllocKeeps DEF Whole
<1>3. m \in Nat /\ First <= m /\ m < Top
  BY <1>1, HeaderFacts DEF Whole
<1>4. m \notin DOMAIN Blocks(c)
  BY <1>1, BlocksFacts
<1>5. m \in DOMAIN Blocks(d)
  BY <1>1 DEF Grown
<1> QED BY <1>1, <1>2, <1>3, <1>4, <1>5

\* 48h: the blocks of the others are the same afterwards.
LEMMA AllocStep ==
  ASSUME Whole(mcb), NEW o \in Owners, NEW n \in Nat, f48_alloc(o, n)
  PROVE  /\ Whole(mcb') /\ Less(Blocks(mcb'), o) = Less(Blocks(mcb), o)
         /\ \A x \in DOMAIN Blocks(mcb) :
              x \in DOMAIN Blocks(mcb') /\ Blocks(mcb')[x] = Blocks(mcb)[x]
<1>1. PICK c, d : c = mcb /\ d = mcb'
  OBVIOUS
<1>2. CASE Fits(c, n) = {}
  <2>1. d = c
    BY <1>1, <1>2, CoalesceNothing DEF f48_alloc, Whole
  <2> QED BY <1>1, <2>1
<1>3. CASE Fits(c, n) # {}
  <2>1. PICK m, b, g : m = FirstFit(c, n) /\ b = Blocks(c) /\ g = Blocks(d)
    OBVIOUS
  <2>2. d = mcb_alloc(c, n, o)
    BY <1>1, <1>3 DEF f48_alloc
  <2>3. Whole(d) /\ m \notin DOMAIN b /\ g = Grown(b, m, o, n)
    BY <1>1, <1>3, <2>1, <2>2, Allocates
  <2>4. /\ \A x : x \in DOMAIN g <=> x \in DOMAIN b \/ x = m
        /\ g[m].owner = o
        /\ \A x \in DOMAIN b : x # m => g[x] = b[x]
    BY <2>3 DEF Grown
  <2>5. Less(g, o) = Less(b, o)
    BY <2>3, <2>4, LessSame
  <2> QED BY <1>1, <2>1, <2>3, <2>4, <2>5
<1> QED BY <1>2, <1>3

\* 49h on a block of one's own.
LEMMA FreeStep ==
  ASSUME Whole(mcb), NEW block, mcb_find(mcb, block), NEW o, o # OWNER_FREE,
         mcb[block - 1].owner = o, f49_free(block)
  PROVE  /\ Whole(mcb') /\ Less(Blocks(mcb'), o) = Less(Blocks(mcb), o)
         /\ \A x \in DOMAIN Blocks(mcb) : x # block - 1 =>
              x \in DOMAIN Blocks(mcb') /\ Blocks(mcb')[x] = Blocks(mcb)[x]
<1>1. PICK c, d, m, b, g : c = mcb /\ d = mcb' /\ m = block - 1 /\ b = Blocks(c) /\ g = Blocks(d)
  OBVIOUS
<1>2. d = mcb_free(c, block) /\ Whole(d)
  BY <1>1, FreeKeeps DEF f49_free, Whole
<1>3. g = Map!Drop(b, {m})
  BY <1>1, <1>2, FreeBlocks DEF Whole
<1>4. /\ \A x : x \in DOMAIN g <=> x \in DOMAIN b /\ x # m
      /\ \A x \in DOMAIN g : g[x] = b[x]
  BY <1>3 DEF Map!Drop
<1>5. m \in DOMAIN b /\ b[m].owner = o
  BY <1>1, BlocksFacts DEF mcb_find, Free
<1>6. Less(g, o) = Less(b, o)
  BY <1>4, <1>5, LessSame
<1> QED BY <1>1, <1>2, <1>4, <1>6

\* 4Ah on a block of one's own: it stays, and stays one's own.
LEMMA ResizeStep ==
  ASSUME Whole(mcb), NEW block, mcb_find(mcb, block), NEW o, o # OWNER_FREE,
         mcb[block - 1].owner = o, NEW n \in Nat, f4a_resize(block, n)
  PROVE  /\ Whole(mcb') /\ Less(Blocks(mcb'), o) = Less(Blocks(mcb), o)
         /\ \A x \in DOMAIN Blocks(mcb) :
              x \in DOMAIN Blocks(mcb') /\ Blocks(mcb')[x].owner = Blocks(mcb)[x].owner
<1>1. PICK c, d, m, b, g : c = mcb /\ d = mcb' /\ m = block - 1 /\ b = Blocks(c) /\ g = Blocks(d)
  OBVIOUS
<1>2. m \in DOMAIN c /\ ~Free(c, m) /\ mcb_coalesce(c) = c
  BY <1>1, CoalesceNothing DEF mcb_find, Free, Whole
<1>3. d = c \/ (n <= Avail(c, m) /\ d = mcb_resize(c, m, n))
  BY <1>1, <1>2 DEF f4a_resize
<1>4. CASE d = c
  BY <1>1, <1>4
<1>5. CASE n <= Avail(c, m) /\ d = mcb_resize(c, m, n)
  <2>1. Whole(d)
    BY <1>1, <1>2, <1>5, ResizeKeeps DEF Whole
  <2>2. g = [b EXCEPT ![m].size = n]
    BY <1>1, <1>2, <1>5, ResizeBlocks DEF Whole
  <2>3. m \in DOMAIN b /\ b[m] = [owner |-> o, size |-> c[m].size]
    BY <1>1, <1>2, BlocksFacts
  <2>4. DOMAIN g = DOMAIN b /\ g[m].owner = o /\ \A x \in DOMAIN b : x # m => g[x] = b[x]
    <3>1. [b[m] EXCEPT !.size = n].owner = o
      BY <2>3
    <3> QED BY <2>2, <2>3, <3>1
  <2>5. Less(g, o) = Less(b, o)
    BY <2>3, <2>4, LessSame
  <2> QED BY <1>1, <2>1, <2>3, <2>4, <2>5
<1> QED BY <1>3, <1>4, <1>5

\* Termination leaves exactly the blocks of the others.
LEMMA EndStep ==
  ASSUME Whole(mcb), NEW o, o # OWNER_FREE, FreeOwner(o)
  PROVE  Whole(mcb') /\ Blocks(mcb') = Less(Blocks(mcb), o)
<1>1. PICK c, d, b, S : /\ c = mcb /\ d = mcb' /\ b = Blocks(c)
                        /\ S = {x \in DOMAIN c : c[x].owner = o}
  OBVIOUS
<1>2. d = mcb_free_owner(c, o) /\ Whole(d)
  BY <1>1, FreeOwnerKeeps DEF FreeOwner, Whole
<1>3. Blocks(d) = Map!Drop(b, S)
  BY <1>1, <1>2, FreeOwnerBlocks DEF Whole
<1>4. DOMAIN b \ S = DOMAIN b \ {x \in DOMAIN b : b[x].owner = o}
  BY <1>1, BlocksFacts
<1>5. Map!Drop(b, S) = Less(b, o)
  BY <1>4 DEF Less, Map!Drop
<1> QED BY <1>1, <1>2, <1>3, <1>5

----------------------------------------------------------------------------
\* EXEC, on the chain.

\* What was just allocated is given back: the chain is the same, header by header.
LEMMA GivenBack ==
  ASSUME NEW c, Whole(c), NEW d, Whole(d), NEW m \in Nat, mcb_find(d, m + 1),
         m \notin DOMAIN Blocks(c), NEW o, NEW n, Blocks(d) = Grown(Blocks(c), m, o, n)
  PROVE  mcb_free(d, m + 1) = c
<1>1. m + 1 - 1 = m
  OBVIOUS
<1>2. PICK e : e = mcb_free(d, m + 1)
  OBVIOUS
<1>3. Whole(e)
  BY <1>2, FreeKeeps DEF Whole
<1>4. Blocks(e) = Map!Drop(Blocks(d), {m + 1 - 1})
  BY <1>2, FreeBlocks DEF Whole
<1>5. Blocks(e) = Blocks(c)
  BY <1>1, <1>4, BlocksMap, GrownDropped
<1> QED BY <1>2, <1>3, <1>5, BlocksCanonical DEF Whole

\* A block gets another owner.
LEMMA Rename ==
  ASSUME NEW c, Whole(c), NEW m \in Nat, m \in DOMAIN Blocks(c), NEW o \in Owners,
         NEW d, d = mcb_set_owner(c, m + 1, o)
  PROVE  /\ Whole(d)
         /\ \A x : x \in DOMAIN Blocks(d) <=> x \in DOMAIN Blocks(c)
         /\ Blocks(d)[m].owner = o /\ Blocks(d)[m].size = Blocks(c)[m].size
         /\ \A x \in DOMAIN Blocks(c) : x # m => Blocks(d)[x] = Blocks(c)[x]
<1>1. m + 1 - 1 = m
  OBVIOUS
<1>2. mcb_find(c, m + 1) /\ ~Free(c, m + 1 - 1)
  BY <1>1, BlocksFacts DEF mcb_find
<1>3. Whole(d)
  BY <1>2, SetOwnerKeeps DEF Whole
<1>4. Blocks(d) = RenamedBlock(Blocks(c), m, o)
  <2>1. Blocks(d) = RenamedBlock(Blocks(c), m + 1 - 1, o)
    BY <1>2, SetOwnerBlocks DEF Whole
  <2> QED BY <1>1, <2>1
<1>5. Blocks(c)[m] = [owner |-> c[m].owner, size |-> c[m].size]
  BY BlocksFacts
<1>6. PICK b, r : b = Blocks(c) /\ r = [b[m] EXCEPT !.owner = o]
  OBVIOUS
<1>7. r.owner = o /\ r.size = b[m].size
  BY <1>5, <1>6
<1>8. Blocks(d) = [b EXCEPT ![m] = r]
  BY <1>4, <1>6 DEF RenamedBlock
<1> QED BY <1>3, <1>6, <1>7, <1>8

\* The environment block at e and the image block at p, and what becomes of
\* them: both are given back, or both get the new process for an owner.
LEMMA ExecBlocks ==
  ASSUME OwnersFit, NEW c, Whole(c), NEW paras \in Nat, Fits(c, paras) # {},
         NEW e, e = FirstFit(c, paras), NEW c1, c1 = mcb_alloc(c, paras, OWNER_SYSTEM),
         NEW take \in Nat, Fits(c1, take) # {},
         NEW p, p = FirstFit(c1, take), NEW c2, c2 = mcb_alloc(c1, take, OWNER_IMAGE),
         NEW d, d = HandOver(c2, p + 1, e + 1)
  PROVE  /\ FailPath(c2, p + 1, e + 1) = c
         /\ Whole(d) /\ p \in Nat /\ First <= p /\ p < Top /\ p \notin DOMAIN Blocks(c)
         /\ \A x : x \in DOMAIN Blocks(d) <=> x \in DOMAIN Blocks(c) \/ x = p \/ x = e
         /\ Blocks(d)[p].owner = p + 1 /\ Blocks(d)[p].size = take
         /\ Blocks(d)[e].owner = p + 1 /\ e \notin DOMAIN Blocks(c)
         /\ \A x \in DOMAIN Blocks(c) : Blocks(d)[x] = Blocks(c)[x]
<1>1. /\ Whole(c1) /\ e \in Nat /\ First <= e /\ e < Top
      /\ e \notin DOMAIN Blocks(c) /\ e \in DOMAIN Blocks(c1)
      /\ Blocks(c1) = Grown(Blocks(c), e, OWNER_SYSTEM, paras)
  BY Allocates DEF OwnersFit
<1>2. /\ Whole(c2) /\ p \in Nat /\ First <= p /\ p < Top
      /\ p \notin DOMAIN Blocks(c1) /\ p \in DOMAIN Blocks(c2)
      /\ Blocks(c2) = Grown(Blocks(c1), p, OWNER_IMAGE, take)
  BY <1>1, Allocates DEF OwnersFit
<1>3. p + 1 \in Owners /\ p + 1 - 1 = p /\ e + 1 - 1 = e
  BY <1>1, <1>2, ArenaAssumption DEF OwnersFit
<1>4. FailPath(c2, p + 1, e + 1) = c
  <2>1. mcb_find(c2, p + 1)
    BY <1>2, <1>3, BlocksFacts DEF mcb_find
  <2>2. mcb_free(c2, p + 1) = c1
    BY <1>1, <1>2, <2>1, GivenBack
  <2>3. mcb_find(c1, e + 1)
    BY <1>1, <1>3, BlocksFacts DEF mcb_find
  <2>4. mcb_free(c1, e + 1) = c
    BY <1>1, <2>3, GivenBack
  <2> QED BY <2>2, <2>4 DEF FailPath
<1>5. PICK b, b1, b2, c3, b3, b4 :
        /\ b = Blocks(c) /\ b1 = Blocks(c1) /\ b2 = Blocks(c2)
        /\ c3 = mcb_set_owner(c2, p + 1, p + 1) /\ b3 = Blocks(c3) /\ b4 = Blocks(d)
  OBVIOUS
<1>6. d = mcb_set_owner(c3, e + 1, p + 1)
  BY <1>5 DEF HandOver
<1>7. /\ \A x : x \in DOMAIN b1 <=> x \in DOMAIN b \/ x = e
      /\ \A x \in DOMAIN b : x # e => b1[x] = b[x]
  BY <1>1, <1>5 DEF Grown
<1>8. /\ \A x : x \in DOMAIN b2 <=> x \in DOMAIN b1 \/ x = p
      /\ b2[p].size = take
      /\ \A x \in DOMAIN b1 : x # p => b2[x] = b1[x]
  BY <1>2, <1>5 DEF Grown
<1>9. /\ Whole(c3) /\ \A x : x \in DOMAIN b3 <=> x \in DOMAIN b2
      /\ b3[p].owner = p + 1 /\ b3[p].size = b2[p].size
      /\ \A x \in DOMAIN b2 : x # p => b3[x] = b2[x]
  BY <1>2, <1>3, <1>5, Rename
<1>10. e # p /\ e \in DOMAIN b3
  BY <1>1, <1>2, <1>5, <1>8, <1>9
<1>11. /\ Whole(d) /\ \A x : x \in DOMAIN b4 <=> x \in DOMAIN b3
       /\ b4[e].owner = p + 1
       /\ \A x \in DOMAIN b3 : x # e => b4[x] = b3[x]
  BY <1>1, <1>3, <1>5, <1>6, <1>9, <1>10, Rename
<1>12. p \notin DOMAIN b /\ e \notin DOMAIN b
  BY <1>1, <1>2, <1>5, <1>7
<1>13. \A x : x \in DOMAIN b4 <=> x \in DOMAIN b \/ x = p \/ x = e
  BY <1>7, <1>8, <1>9, <1>11
<1>14. b4[p].owner = p + 1 /\ b4[p].size = take
  BY <1>8, <1>9, <1>10, <1>11
<1>15. \A x \in DOMAIN b : b4[x] = b[x]
  BY <1>7, <1>8, <1>9, <1>11, <1>12
<1> QED BY <1>2, <1>4, <1>5, <1>11, <1>12, <1>13, <1>14, <1>15

LEMMA NeedNat ==
  ASSUME NEW f \in Images
  PROVE  /\ Need(f) \in Nat /\ f.load \in Nat /\ f.min \in Nat /\ f.max \in Nat
         /\ \A largest \in Nat : Take(f, largest) \in Nat
<1>1. f.load \in Nat /\ f.min \in Nat /\ f.max \in Nat /\ PspParas \in Nat
  BY FilesAssumption
<1>2. Need(f) \in Nat
  <2>1. \A a \in Nat : a % Word \in Nat
    BY FilesAssumption
  <2> QED BY <1>1, <2>1 DEF Need
<1>3. ASSUME NEW largest \in Nat
      PROVE  Take(f, largest) \in Nat
  BY <1>1, <1>2 DEF Take, Want
<1> QED BY <1>1, <1>2, <1>3

\* With a sane header the block that EXEC takes holds what the file asks for.
LEMMA TakeEnough ==
  ASSUME HeadersSane, NEW f \in Images, NEW largest \in Nat, Need(f) <= largest,
         Loads(f, Take(f, largest))
  PROVE  PspParas + (f.load + f.min) <= Take(f, largest)
<1>1. f.load \in Nat /\ f.min \in Nat /\ f.max \in Nat /\ PspParas \in Nat
  BY FilesAssumption
<1>2. CASE f.com
  BY <1>1, <1>2, NeedNat DEF HeadersSane, Loads, TooLarge
<1>3. CASE ~f.com
  <2>1. PspParas + f.load + f.min < Word /\ (f.max = 0 \/ f.min <= f.max)
    BY <1>3 DEF HeadersSane
  <2>2. Need(f) = PspParas + f.load + f.min
    <3>1. \A a \in Nat : a < Word => a % Word = a
      BY FilesAssumption
    <3> QED BY <1>1, <1>3, <2>1, <3>1 DEF Need
  <2> QED BY <1>1, <1>3, <2>1, <2>2 DEF Take, Want
<1> QED BY <1>2, <1>3

\* EXEC has made the process psp out of a block of take paragraphs.
Started(f, psp, take) ==
  /\ parent' = With(parent, psp, cur)
  /\ origin' = With(origin, psp, [chain |-> mcb, resident |-> resident])
  /\ cur' = psp
  /\ resident' = resident
  /\ ret' = Answer("4B", psp, f.load + f.min, TRUE, 0, 0)
  /\ psp \in First..Top
  /\ psp - 1 \notin DOMAIN Blocks(mcb) /\ psp - 1 \in DOMAIN Blocks(mcb')
  /\ Blocks(mcb')[psp - 1].owner = psp /\ Blocks(mcb')[psp - 1].size = take
  /\ \A x \in DOMAIN Blocks(mcb') : x \in DOMAIN Blocks(mcb) \/ Blocks(mcb')[x].owner = psp
  /\ \A x \in DOMAIN Blocks(mcb) :
       x \in DOMAIN Blocks(mcb') /\ Blocks(mcb')[x] = Blocks(mcb)[x]

\* EXEC changes nothing, or makes a process.
LEMMA ExecStep ==
  ASSUME OwnersFit, Whole(mcb), NEW f \in Images, NEW paras \in EnvParas, f4b_exec(f, paras)
  PROVE  \/ mcb' = mcb /\ ret'.ok = FALSE /\ UNCHANGED procs
         \/ /\ Whole(mcb')
            /\ \E psp, largest \in Nat :
                 /\ Need(f) <= largest /\ Loads(f, Take(f, largest))
                 /\ Started(f, psp, Take(f, largest))
<1>1. PICK c : c = mcb
  OBVIOUS
<1>2. paras \in Nat /\ Need(f) \in Nat /\ OWNER_SYSTEM \in Owners
  BY NeedNat, FilesAssumption DEF OwnersFit
<1>3. CASE Fits(c, paras) = {}
  BY <1>1, <1>3 DEF f4b_exec, Fail, Answer
<1>4. CASE Fits(c, paras) # {}
  <2>1. PICK e, c1 : e = FirstFit(c, paras) /\ c1 = mcb_alloc(c, paras, OWNER_SYSTEM)
    OBVIOUS
  <2>2. /\ Whole(c1) /\ e \in Nat /\ e \notin DOMAIN Blocks(c) /\ e \in DOMAIN Blocks(c1)
        /\ Blocks(c1) = Grown(Blocks(c), e, OWNER_SYSTEM, paras)
    BY <1>1, <1>2, <1>4, <2>1, Allocates
  <2>3. mcb_coalesce(env_build(paras)) = c1
    BY <1>1, <2>1, <2>2, CoalesceNothing DEF env_build, Whole
  <2>4. PICK largest, take : largest = mcb_largest(c1) /\ take = Take(f, largest)
    OBVIOUS
  <2>5. largest \in Nat /\ take \in Nat
    BY <2>2, <2>4, LargestFacts, NeedNat DEF Whole
  <2>6. CASE largest < Need(f) \/ Fits(c1, take) = {}
    <3>1. Fail(mcb_free(c1, e + 1), 8)
      BY <1>1, <1>4, <2>1, <2>3, <2>4, <2>6 DEF f4b_exec
    <3>2. mcb_find(c1, e + 1)
      BY <2>2, BlocksFacts DEF mcb_find
    <3>3. mcb_free(c1, e + 1) = c
      BY <1>1, <2>2, <3>2, GivenBack
    <3> QED BY <1>1, <3>1, <3>3 DEF Fail, Answer
  <2>7. CASE ~(largest < Need(f)) /\ Fits(c1, take) # {}
    <3>1. PICK p, c2, d : /\ p = FirstFit(c1, take) /\ c2 = mcb_alloc(c1, take, OWNER_IMAGE)
                          /\ d = HandOver(c2, p + 1, e + 1)
      OBVIOUS
    <3>2. /\ FailPath(c2, p + 1, e + 1) = c
          /\ Whole(d) /\ p \in Nat /\ First <= p /\ p < Top /\ p \notin DOMAIN Blocks(c)
          /\ \A x : x \in DOMAIN Blocks(d) <=> x \in DOMAIN Blocks(c) \/ x = p \/ x = e
          /\ Blocks(d)[p].owner = p + 1 /\ Blocks(d)[p].size = take
          /\ Blocks(d)[e].owner = p + 1 /\ e \notin DOMAIN Blocks(c)
          /\ \A x \in DOMAIN Blocks(c) : Blocks(d)[x] = Blocks(c)[x]
      BY <1>1, <1>2, <1>4, <2>1, <2>5, <2>7, <3>1, ExecBlocks
    <3>3. CASE ~Loads(f, take)
      <4>1. Fail(FailPath(c2, p + 1, e + 1), IF TooLarge(f, take) THEN 8 ELSE 11)
        BY <1>1, <1>4, <2>1, <2>3, <2>4, <2>7, <3>1, <3>3 DEF f4b_exec
      <4> QED BY <1>1, <3>2, <4>1 DEF Fail, Answer
    <3>4. CASE Loads(f, take)
      <4>1. /\ mcb' = d
            /\ ret' = Answer("4B", p + 1, f.load + f.min, TRUE, 0, 0)
            /\ parent' = With(parent, p + 1, cur)
            /\ origin' = With(origin, p + 1, [chain |-> mcb, resident |-> resident])
            /\ cur' = p + 1
            /\ UNCHANGED resident
        BY <1>1, <1>4, <2>1, <2>3, <2>4, <2>7, <3>1, <3>4 DEF f4b_exec
      <4>2. p + 1 \in First..Top /\ p + 1 - 1 = p
        BY <3>2, ArenaAssumption
      <4>3. Started(f, p + 1, Take(f, largest))
        BY <1>1, <2>4, <3>2, <4>1, <4>2 DEF Started
      <4>4. Need(f) <= largest /\ Loads(f, Take(f, largest)) /\ p + 1 \in Nat
        BY <1>2, <2>4, <2>5, <2>7, <3>2, <3>4
      <4>5. Whole(mcb')
        BY <3>2, <4>1
      <4> QED BY <2>5, <4>3, <4>4, <4>5, Zenon
    <3> QED BY <3>3, <3>4
  <2> QED BY <2>6, <2>7
<1> QED BY <1>3, <1>4

----------------------------------------------------------------------------
\* The invariant.

Running == Procs \ resident

\* Every block has a live owner, and every process the block it is named after.
Held ==
  /\ \A m \in DOMAIN Blocks(mcb) : Blocks(mcb)[m].owner \in Procs
  /\ \A p \in Procs : p - 1 \in DOMAIN Blocks(mcb) /\ Blocks(mcb)[p - 1].owner = p

\* A process waits for one child at most, and a running one for none.
Parents ==
  /\ Procs \subseteq First..Top
  /\ resident \subseteq Procs
  /\ cur \in Running \cup {Kernel}
  /\ DOMAIN origin = Running
  /\ \A p \in Running : parent[p] \in Running \cup {Kernel} /\ parent[p] # cur
  /\ \A p, q \in Running : parent[p] = parent[q] => p = q

\* What the chain was when q was started is the chain that its parent was
\* started with and the blocks of the parent, unless there are new residents.
Past ==
  /\ \A p \in Running : Whole(origin[p].chain) /\ origin[p].resident \subseteq resident
  /\ \A q \in Running : parent[q] # Kernel =>
       /\ origin[parent[q]].resident \subseteq origin[q].resident
       /\ origin[q].resident = origin[parent[q]].resident =>
            Blocks(origin[parent[q]].chain) = Less(Blocks(origin[q].chain), parent[q])
  /\ cur # Kernel /\ resident = origin[cur].resident =>
       Blocks(origin[cur].chain) = Less(Blocks(mcb), cur)

IInv == Whole(mcb) /\ Held /\ Parents /\ Past

LEMMA KernelIsNone ==
  ASSUME Parents
  PROVE  /\ Kernel \notin Procs /\ Kernel = OWNER_FREE
         /\ cur # Kernel => cur \in Running /\ cur \in First..Top
         /\ \A p \in Procs : p \in Nat /\ p # OWNER_FREE
BY ArenaAssumption DEF Parents, Running, Kernel, OWNER_FREE

\* A call of the running process on blocks of its own.
OwnCall ==
  /\ cur # Kernel
  /\ Whole(mcb')
  /\ Less(Blocks(mcb'), cur) = Less(Blocks(mcb), cur)
  /\ cur - 1 \in DOMAIN Blocks(mcb') /\ Blocks(mcb')[cur - 1].owner = cur

LEMMA OwnHeld ==
  ASSUME Held, Parents, OwnCall, Procs' = Procs
  PROVE  Held'
<1>1. PICK b, g : b = Blocks(mcb) /\ g = Blocks(mcb')
  OBVIOUS
<1>2. cur \in Procs
  BY KernelIsNone DEF OwnCall, Running
<1>3. /\ \A x : x \in DOMAIN g /\ g[x].owner # cur <=> x \in DOMAIN b /\ b[x].owner # cur
      /\ \A x \in DOMAIN g : g[x].owner # cur => g[x] = b[x]
  BY <1>1, LessFacts DEF OwnCall
<1>4. ASSUME NEW m \in DOMAIN g
      PROVE  g[m].owner \in Procs
  <2>1. CASE g[m].owner = cur
    BY <1>2, <2>1
  <2>2. CASE g[m].owner # cur
    BY <1>1, <1>3, <1>4, <2>2 DEF Held
  <2> QED BY <2>1, <2>2
<1>5. ASSUME NEW p \in Procs
      PROVE  p - 1 \in DOMAIN g /\ g[p - 1].owner = p
  <2>1. CASE p = cur
    BY <1>1, <2>1 DEF OwnCall
  <2>2. CASE p # cur
    BY <1>1, <1>3, <1>5, <2>2 DEF Held
  <2> QED BY <2>1, <2>2
<1> QED BY <1>1, <1>4, <1>5 DEF Held

LEMMA OwnPast ==
  ASSUME Parents, Past, OwnCall, UNCHANGED procs
  PROVE  Past'
<1>1. /\ parent' = parent /\ resident' = resident /\ cur' = cur /\ origin' = origin
      /\ Running' = Running
  BY DEF procs, Running, Procs
<1> QED BY <1>1 DEF Past, OwnCall

LEMMA OwnStep ==
  ASSUME IInv, OwnCall, UNCHANGED procs
  PROVE  IInv'
<1>1. Procs' = Procs /\ Parents'
  BY DEF IInv, Parents, procs, Procs, Running
<1> QED BY <1>1, OwnHeld, OwnPast DEF IInv, OwnCall

\* 48h, 49h and 4Ah are such calls.
LEMMA AllocOwn ==
  ASSUME OwnersFit, IInv, NEW n \in Nat, Alloc(n)
  PROVE  OwnCall /\ UNCHANGED procs
<1>1. cur # Kernel /\ f48_alloc(cur, n) /\ UNCHANGED procs
  BY DEF Alloc
<1>2. cur \in Owners /\ cur \in Procs
  BY <1>1, KernelIsNone DEF IInv, OwnersFit, Running
<1>3. cur - 1 \in DOMAIN Blocks(mcb) /\ Blocks(mcb)[cur - 1].owner = cur
  BY <1>2 DEF IInv, Held
<1> QED BY <1>1, <1>2, <1>3, AllocStep DEF OwnCall, IInv

LEMMA ReleaseOwn ==
  ASSUME IInv, NEW block \in First..Top, Release(block)
  PROVE  OwnCall /\ UNCHANGED procs
<1>1. mcb_find(mcb, block) /\ mcb[block - 1].owner = cur /\ block # cur /\ f49_free(block)
      /\ UNCHANGED procs
  BY DEF Release, Mine
<1>2. cur # Kernel /\ cur # OWNER_FREE /\ cur \in Procs /\ cur \in Nat
  BY KernelIsNone DEF IInv, Running, Release, Mine
<1>3. cur - 1 \in DOMAIN Blocks(mcb) /\ Blocks(mcb)[cur - 1].owner = cur
  BY <1>2 DEF IInv, Held
<1>4. cur - 1 # block - 1
  BY <1>1, <1>2, ArenaAssumption
<1> QED BY <1>1, <1>2, <1>3, <1>4, FreeStep DEF OwnCall, IInv

LEMMA ResizeOwn ==
  ASSUME IInv, cur # Kernel, NEW block, mcb_find(mcb, block), mcb[block - 1].owner = cur,
         NEW n \in Nat, f4a_resize(block, n)
  PROVE  OwnCall
<1>1. cur # OWNER_FREE /\ cur \in Procs
  BY KernelIsNone DEF IInv, Running
<1>2. cur - 1 \in DOMAIN Blocks(mcb) /\ Blocks(mcb)[cur - 1].owner = cur
  BY <1>1 DEF IInv, Held
<1> QED BY <1>1, <1>2, ResizeStep DEF OwnCall, IInv

\* EXEC adds a process that nobody has waited for, with blocks of its own.
LEMMA StartedInv ==
  ASSUME IInv, NEW f, NEW psp, NEW take, Whole(mcb'), Started(f, psp, take)
  PROVE  IInv'
<1>1. PICK b, g : b = Blocks(mcb) /\ g = Blocks(mcb')
  OBVIOUS
<1>2. psp \in First..Top /\ psp \notin Procs /\ psp # Kernel /\ psp # cur
  <2>1. psp - 1 \notin DOMAIN Blocks(mcb)
    BY DEF Started
  <2>2. psp \notin Procs
    BY <2>1 DEF IInv, Held
  <2>3. psp \in First..Top /\ psp # Kernel
    BY ArenaAssumption DEF Started, Kernel
  <2> QED BY <2>2, <2>3, KernelIsNone DEF IInv, Parents, Running
<1>3. /\ Procs' = Procs \cup {psp} /\ parent'[psp] = cur
      /\ \A p \in Procs : parent'[p] = parent[p]
  BY <1>2 DEF Started, With, Procs
<1>4. /\ resident' = resident /\ cur' = psp /\ Running' = Running \cup {psp}
      /\ psp \notin resident
  BY <1>2, <1>3 DEF Started, Running, IInv, Parents
<1>5. /\ DOMAIN origin' = DOMAIN origin \cup {psp}
      /\ origin'[psp].chain = mcb /\ origin'[psp].resident = resident
      /\ \A p \in Running : origin'[p] = origin[p]
  BY <1>2 DEF Started, With, IInv, Parents, Running
<1>6. /\ \A x \in DOMAIN g : x \in DOMAIN b \/ g[x].owner = psp
      /\ \A x \in DOMAIN b : x \in DOMAIN g /\ g[x] = b[x]
      /\ psp - 1 \in DOMAIN g /\ g[psp - 1].owner = psp
  BY <1>1 DEF Started
<1>7. Held'
  BY <1>1, <1>2, <1>3, <1>6 DEF IInv, Held
<1>8. Parents'
  <2>1. Procs' \subseteq First..Top /\ resident' \subseteq Procs' /\ DOMAIN origin' = Running'
    BY <1>2, <1>3, <1>4, <1>5 DEF IInv, Parents
  <2>2. cur' \in Running' \cup {Kernel}
    BY <1>4
  <2>3. ASSUME NEW p \in Running'
        PROVE  parent'[p] \in Running' \cup {Kernel} /\ parent'[p] # cur'
    <3>1. CASE p = psp
      BY <1>2, <1>3, <1>4, <3>1 DEF IInv, Parents
    <3>2. CASE p \in Running
      <4>1. p \in Procs /\ parent[p] \in Running \cup {Kernel}
        BY <3>2 DEF IInv, Parents, Running
      <4>2. parent[p] # psp
        BY <1>2, <4>1 DEF Running
      <4> QED BY <1>3, <1>4, <4>1, <4>2
    <3> QED BY <1>4, <2>3, <3>1, <3>2
  <2>4. ASSUME NEW p \in Running', NEW q \in Running', parent'[p] = parent'[q]
        PROVE  p = q
    <3>1. \A r \in Running : r \in Procs /\ parent'[r] = parent[r] /\ parent[r] # cur
      BY <1>3 DEF IInv, Parents, Running
    <3>2. (p \in Running \/ p = psp) /\ (q \in Running \/ q = psp)
      BY <1>4, <2>4
    <3> QED BY <1>3, <2>4, <3>1, <3>2 DEF IInv, Parents
  <2> QED BY <2>1, <2>2, <2>3, <2>4 DEF Parents
<1>9. Past'
  <2>1. ASSUME NEW p \in Running'
        PROVE  Whole(origin'[p].chain) /\ origin'[p].resident \subseteq resident'
    <3>1. CASE p = psp
      BY <1>4, <1>5, <3>1 DEF IInv
    <3>2. CASE p \in Running
      BY <1>4, <1>5, <3>2 DEF IInv, Past
    <3> QED BY <1>4, <2>1, <3>1, <3>2
  <2>2. ASSUME NEW q \in Running', parent'[q] # Kernel
        PROVE  /\ origin'[parent'[q]].resident \subseteq origin'[q].resident
               /\ origin'[q].resident = origin'[parent'[q]].resident =>
                    Blocks(origin'[parent'[q]].chain) = Less(Blocks(origin'[q].chain), parent'[q])
    <3>1. CASE q = psp
      <4>1. parent'[q] = cur /\ cur \in Running
        BY <1>3, <2>2, <3>1, KernelIsNone DEF IInv
      <4>2. origin'[cur] = origin[cur] /\ origin[cur].resident \subseteq resident
        BY <1>5, <4>1 DEF IInv, Past
      <4>3. resident = origin[cur].resident => Blocks(origin[cur].chain) = Less(Blocks(mcb), cur)
        BY <2>2, <4>1 DEF IInv, Past
      <4> QED BY <1>5, <3>1, <4>1, <4>2, <4>3
    <3>2. CASE q \in Running
      <4>1. parent'[q] = parent[q] /\ parent[q] \in Running
        BY <1>3, <2>2, <3>2 DEF IInv, Parents, Running
      <4> QED BY <1>5, <2>2, <3>2, <4>1 DEF IInv, Past
    <3> QED BY <1>4, <2>2, <3>1, <3>2
  <2>3. Blocks(origin'[cur'].chain) = Less(Blocks(mcb'), cur')
    <3>1. \A x \in DOMAIN b : b[x].owner # psp
      BY <1>1, <1>2 DEF IInv, Held
    <3>2. Less(g, psp) = Less(b, psp)
      BY <1>6, <3>1, LessSame
    <3>3. Less(b, psp) = b
      BY <1>1, <3>1, BlocksMap, LessNone
    <3> QED BY <1>1, <1>4, <1>5, <3>2, <3>3
  <2> QED BY <2>1, <2>2, <2>3 DEF Past
<1> QED BY <1>7, <1>8, <1>9 DEF IInv

\* The process that ends leaves its parent with the blocks it was started on.
LEMMA EndInv ==
  ASSUME IInv, proc_terminate
  PROVE  IInv' /\ (resident = origin[cur].resident => mcb' = origin[cur].chain)
<1>1. PICK b, g, r : b = Blocks(mcb) /\ g = Blocks(mcb') /\ r = parent[cur]
  OBVIOUS
<1>2. cur # Kernel /\ cur \in Running /\ cur \in Procs /\ cur # OWNER_FREE
  BY KernelIsNone DEF IInv, proc_terminate, Running
<1>3. Whole(mcb') /\ g = Less(b, cur)
  BY <1>1, <1>2, EndStep DEF IInv, proc_terminate
<1>4. resident = origin[cur].resident => mcb' = origin[cur].chain
  <2>1. Whole(origin[cur].chain)
    BY <1>2 DEF IInv, Past
  <2>2. resident = origin[cur].resident => Blocks(origin[cur].chain) = g
    BY <1>1, <1>2, <1>3 DEF IInv, Past
  <2> QED BY <1>1, <1>3, <2>1, <2>2, BlocksCanonical DEF Whole
<1>5. /\ Procs' = Procs \ {cur} /\ \A p \in Procs' : parent'[p] = parent[p]
      /\ resident' = resident /\ Running' = Running \ {cur}
      /\ cur' = r
  BY <1>1 DEF proc_terminate, Without, Procs, Running, proc_unwind
<1>6. DOMAIN origin' = DOMAIN origin \ {cur} /\ \A p \in Running' : origin'[p] = origin[p]
  BY <1>5 DEF proc_terminate, Without, IInv, Parents
<1>7. r \in Running \cup {Kernel} /\ r # cur
  BY <1>1, <1>2 DEF IInv, Parents
<1>8. \A p \in Running : parent[p] # cur /\ parent[p] \in Running \cup {Kernel}
                        /\ (p # cur => parent[p] # r)
  BY <1>1, <1>2 DEF IInv, Parents
<1>9. Held'
  <2>1. /\ \A x : x \in DOMAIN g <=> x \in DOMAIN b /\ b[x].owner # cur
        /\ \A x \in DOMAIN g : g[x] = b[x]
    BY <1>3, LessFacts
  <2> QED BY <1>1, <1>5, <2>1 DEF IInv, Held
<1>10. Parents'
  <2>1. Procs' \subseteq First..Top /\ resident' \subseteq Procs'
    BY <1>2, <1>5 DEF IInv, Parents, Running
  <2>2. cur' \in Running' \cup {Kernel} /\ DOMAIN origin' = Running'
    BY <1>5, <1>6, <1>7 DEF IInv, Parents
  <2>3. \A p \in Running' : p \in Running /\ p # cur /\ p \in Procs'
    BY <1>5 DEF Running
  <2>4. \A p \in Running' : parent'[p] \in Running' \cup {Kernel} /\ parent'[p] # cur'
    BY <1>5, <1>8, <2>3
  <2>5. \A p, q \in Running' : parent'[p] = parent'[q] => p = q
    BY <1>5, <2>3, ZenonT(60) DEF IInv, Parents
  <2> QED BY <2>1, <2>2, <2>4, <2>5 DEF Parents
<1>11. Past'
  <2>1. \A p \in Running' : p \in Running /\ p # cur /\ p \in Procs' /\ parent'[p] = parent[p]
    BY <1>5 DEF Running
  <2>2. ASSUME NEW p \in Running'
        PROVE  Whole(origin'[p].chain) /\ origin'[p].resident \subseteq resident'
    BY <1>5, <1>6, <2>1, <2>2 DEF IInv, Past
  <2>3. ASSUME NEW q \in Running', parent'[q] # Kernel
        PROVE  /\ origin'[parent'[q]].resident \subseteq origin'[q].resident
               /\ origin'[q].resident = origin'[parent'[q]].resident =>
                    Blocks(origin'[parent'[q]].chain) = Less(Blocks(origin'[q].chain), parent'[q])
    <3>1. q \in Running /\ parent'[q] = parent[q] /\ parent[q] \in Running'
      BY <1>5, <1>8, <2>1, <2>3
    <3>2. origin'[q] = origin[q] /\ origin'[parent[q]] = origin[parent[q]]
      BY <1>6, <2>3, <3>1
    <3>3. /\ origin[parent[q]].resident \subseteq origin[q].resident
          /\ origin[q].resident = origin[parent[q]].resident =>
               Blocks(origin[parent[q]].chain) = Less(Blocks(origin[q].chain), parent[q])
      BY <2>3, <3>1 DEF IInv, Past
    <3> QED BY <3>1, <3>2, <3>3
  <2>4. ASSUME cur' # Kernel, resident' = origin'[cur'].resident
        PROVE  Blocks(origin'[cur'].chain) = Less(Blocks(mcb'), cur')
    <3>1. r \in Running' /\ origin'[r] = origin[r] /\ cur' = r /\ parent[cur] = r
      BY <1>1, <1>5, <1>6, <1>7, <2>4
    <3>2. origin[r].resident \subseteq origin[cur].resident /\ origin[cur].resident \subseteq resident
      BY <1>2, <2>4, <3>1 DEF IInv, Past
    <3>3. resident = origin[r].resident
      BY <1>5, <2>4, <3>1
    <3>4. resident = origin[cur].resident
      BY <3>2, <3>3
    <3>5. Blocks(origin[r].chain) = Less(Blocks(origin[cur].chain), r)
      BY <1>2, <2>4, <3>1, <3>3, <3>4 DEF IInv, Past
    <3> QED BY <1>4, <3>1, <3>4, <3>5
  <2> QED BY <2>2, <2>3, <2>4 DEF Past
<1> QED BY <1>3, <1>4, <1>9, <1>10, <1>11 DEF IInv

\* What is left of 31h when the resize has been done.
Stays ==
  /\ resident' = resident \cup {cur}
  /\ origin' = Without(origin, cur)
  /\ cur' = proc_unwind
  /\ parent' = parent

\* The process that stays is nobody's parent, and its parent was started
\* without it among the residents.
LEMMA StaysInv ==
  ASSUME IInv, OwnCall, Stays
  PROVE  IInv' /\ Procs' = Procs
<1>1. PICK r : r = parent[cur]
  OBVIOUS
<1>2. cur \in Running /\ cur \in Procs /\ cur \notin resident
  BY KernelIsNone DEF IInv, OwnCall, Running
<1>3. /\ Procs' = Procs /\ parent' = parent
      /\ resident' = resident \cup {cur} /\ Running' = Running \ {cur}
      /\ cur' = r
  BY <1>1 DEF Stays, Procs, Running, proc_unwind
<1>4. DOMAIN origin' = DOMAIN origin \ {cur} /\ \A p \in Running' : origin'[p] = origin[p]
  BY <1>3 DEF Stays, Without, IInv, Parents
<1>5. r \in Running \cup {Kernel} /\ r # cur
  BY <1>1, <1>2 DEF IInv, Parents
<1>6. \A p \in Running : parent[p] # cur /\ parent[p] \in Running \cup {Kernel}
                        /\ (p # cur => parent[p] # r)
  BY <1>1, <1>2 DEF IInv, Parents
<1>7. Held'
  BY <1>3, OwnHeld DEF IInv
<1>8. Parents'
  <2>1. Procs' \subseteq First..Top /\ resident' \subseteq Procs'
    BY <1>2, <1>3 DEF IInv, Parents
  <2>2. cur' \in Running' \cup {Kernel} /\ DOMAIN origin' = Running'
    BY <1>3, <1>4, <1>5 DEF IInv, Parents
  <2>3. \A p \in Running' : parent'[p] \in Running' \cup {Kernel} /\ parent'[p] # cur'
    BY <1>3, <1>6
  <2>4. \A p, q \in Running' : parent'[p] = parent'[q] => p = q
    BY <1>3 DEF IInv, Parents
  <2> QED BY <2>1, <2>2, <2>3, <2>4 DEF Parents
<1>9. Past'
  <2>1. ASSUME NEW p \in Running'
        PROVE  Whole(origin'[p].chain) /\ origin'[p].resident \subseteq resident'
    <3>1. p \in Running /\ origin'[p] = origin[p]
      BY <1>3, <1>4, <2>1
    <3> QED BY <1>3, <3>1 DEF IInv, Past
  <2>2. ASSUME NEW q \in Running', parent'[q] # Kernel
        PROVE  /\ origin'[parent'[q]].resident \subseteq origin'[q].resident
               /\ origin'[q].resident = origin'[parent'[q]].resident =>
                    Blocks(origin'[parent'[q]].chain) = Less(Blocks(origin'[q].chain), parent'[q])
    <3>1. q \in Running /\ parent'[q] = parent[q] /\ parent[q] \in Running'
      BY <1>3, <1>6, <2>2
    <3>2. origin'[q] = origin[q] /\ origin'[parent[q]] = origin[parent[q]]
      BY <1>4, <2>2, <3>1
    <3>3. /\ origin[parent[q]].resident \subseteq origin[q].resident
          /\ origin[q].resident = origin[parent[q]].resident =>
               Blocks(origin[parent[q]].chain) = Less(Blocks(origin[q].chain), parent[q])
      BY <2>2, <3>1 DEF IInv, Past
    <3> QED BY <3>1, <3>2, <3>3
  <2>3. ASSUME cur' # Kernel
        PROVE  resident' # origin'[cur'].resident
    <3>1. r \in Running /\ r \in Running' /\ origin'[cur'] = origin[r]
      BY <1>3, <1>4, <1>5, <2>3
    <3>2. origin[r].resident \subseteq resident
      BY <3>1 DEF IInv, Past
    <3> QED BY <1>2, <1>3, <3>1, <3>2
  <2> QED BY <2>1, <2>2, <2>3 DEF Past
<1> QED BY <1>3, <1>7, <1>8, <1>9 DEF IInv, OwnCall

----------------------------------------------------------------------------
\* Every step.

LEMMA InitInv ==
  ASSUME Init
  PROVE  IInv
<1>1. Whole(mcb) /\ DOMAIN Blocks(mcb) = {}
  <2>1. ChainInv
    BY InitChain DEF Init
  <2>2. \A x \in DOMAIN mcb : Free(mcb, x)
    BY DEF Init, proc_init, Header, Free
  <2>3. DOMAIN Blocks(mcb) = {}
    BY <2>2, BlocksFacts
  <2> QED BY <2>1, <2>3, WholeInv
<1>2. Procs = {} /\ resident = {} /\ cur = Kernel /\ DOMAIN origin = {} /\ Running = {}
  BY DEF Init, Procs, Running
<1> QED BY <1>1, <1>2 DEF IInv, Held, Parents, Past

\* A step is a call of the running process on blocks of its own, such a call
\* with which it stays resident, an EXEC that fails or succeeds, or its end.
LEMMA Steps ==
  ASSUME OwnersFit, IInv, ProcNext
  PROVE  \/ OwnCall /\ UNCHANGED procs /\ ret'.fn # "4B"
         \/ OwnCall /\ Stays /\ ret'.fn # "4B"
         \/ mcb' = mcb /\ ret'.ok = FALSE /\ UNCHANGED procs
         \/ /\ Whole(mcb')
            /\ \E f \in Images, psp, largest \in Nat :
                 /\ Need(f) <= largest /\ Loads(f, Take(f, largest))
                 /\ Started(f, psp, Take(f, largest))
         \/ proc_terminate /\ ret'.fn # "4B"
<1>1. ASSUME NEW n \in 0..MaxReq, Alloc(n)
      PROVE  OwnCall /\ UNCHANGED procs /\ ret'.fn # "4B"
  <2>1. n \in Nat
    BY MaxReqAssumption
  <2>2. ret'.fn = "48"
    BY <1>1 DEF Alloc, f48_alloc, Answer
  <2> QED BY <1>1, <2>1, <2>2, AllocOwn
<1>2. ASSUME NEW block \in First..Top, Release(block)
      PROVE  OwnCall /\ UNCHANGED procs /\ ret'.fn # "4B"
  <2>1. ret'.fn = "49"
    BY <1>2 DEF Release, f49_free, Answer
  <2> QED BY <1>2, <2>1, ReleaseOwn
<1>3. ASSUME NEW block \in First..Top, NEW n \in 0..MaxReq, Resize(block, n)
      PROVE  OwnCall /\ UNCHANGED procs /\ ret'.fn # "4B"
  <2>1. n \in Nat
    BY MaxReqAssumption
  <2>2. /\ cur # Kernel /\ mcb_find(mcb, block) /\ mcb[block - 1].owner = cur
        /\ f4a_resize(block, n) /\ UNCHANGED procs
    BY <1>3 DEF Resize, Mine
  <2>3. ret'.fn = "4A"
    BY <2>2 DEF f4a_resize, Answer
  <2> QED BY <2>1, <2>2, <2>3, ResizeOwn
<1>4. ASSUME NEW n \in 0..MaxReq, f31_tsr(n)
      PROVE  OwnCall /\ Stays /\ ret'.fn # "4B"
  <2>1. PICK keep : keep = IF n < MinKeep THEN MinKeep ELSE n
    OBVIOUS
  <2>2. cur # Kernel /\ f4a_resize(cur, keep) /\ Stays
    BY <1>4, <2>1 DEF f31_tsr, Stays
  <2>3. keep \in Nat
    BY <2>1, MaxReqAssumption, FilesAssumption
  <2>4. cur \in Procs
    BY <2>2, KernelIsNone DEF IInv, Running
  <2>5. cur - 1 \in DOMAIN Blocks(mcb) /\ Blocks(mcb)[cur - 1].owner = cur
    BY <2>4 DEF IInv, Held
  <2>6. mcb_find(mcb, cur) /\ mcb[cur - 1].owner = cur
    BY <2>5, BlocksFacts DEF mcb_find
  <2>7. ret'.fn = "4A"
    BY <2>2 DEF f4a_resize, Answer
  <2> QED BY <2>2, <2>3, <2>6, <2>7, ResizeOwn
<1>5. ASSUME proc_terminate
      PROVE  ret'.fn # "4B"
  BY <1>5 DEF proc_terminate, FreeOwner, Answer
<1>6. ASSUME NEW f \in Images, NEW e \in EnvParas, f4b_exec(f, e)
      PROVE  \/ mcb' = mcb /\ ret'.ok = FALSE /\ UNCHANGED procs
             \/ /\ Whole(mcb')
                /\ \E psp, largest \in Nat :
                     /\ Need(f) <= largest /\ Loads(f, Take(f, largest))
                     /\ Started(f, psp, Take(f, largest))
  BY <1>6, ExecStep DEF IInv
<1> QED BY <1>1, <1>2, <1>3, <1>4, <1>5, <1>6 DEF ProcNext

LEMMA NextInv == OwnersFit /\ IInv /\ [ProcNext]_allvars => IInv'
<1> SUFFICES ASSUME OwnersFit, IInv, [ProcNext]_allvars PROVE IInv'
  OBVIOUS
<1>1. CASE ProcNext
  <2>1. CASE OwnCall /\ UNCHANGED procs
    BY <2>1, OwnStep
  <2>2. CASE OwnCall /\ Stays
    BY <2>2, StaysInv
  <2>3. CASE mcb' = mcb /\ UNCHANGED procs
    BY <2>3 DEF procs, IInv, Held, Parents, Past, Running, Procs
  <2>4. ASSUME Whole(mcb'), NEW f, NEW psp, NEW take, Started(f, psp, take)
        PROVE  IInv'
    BY <2>4, StartedInv
  <2>5. CASE proc_terminate
    BY <2>5, EndInv
  <2> QED BY <1>1, <2>1, <2>2, <2>3, <2>4, <2>5, Steps
<1>2. CASE UNCHANGED allvars
  BY <1>2 DEF allvars, procs, IInv, Held, Parents, Past, Running, Procs
<1> QED BY <1>1, <1>2

----------------------------------------------------------------------------
\* What the invariant says of the headers.

LEMMA InvOwned == IInv => BlocksOwned
<1> SUFFICES ASSUME IInv PROVE BlocksOwned
  OBVIOUS
<1>1. ProcTypeOK
  BY DEF IInv, Whole, Chain, TypeOK, ProcTypeOK, Parents, Running
<1>2. ASSUME NEW m \in DOMAIN mcb
      PROVE  mcb[m].owner \in Procs \cup {OWNER_FREE}
  <2>1. CASE Free(mcb, m)
    BY <2>1 DEF Free
  <2>2. CASE ~Free(mcb, m)
    <3>1. m \in DOMAIN Blocks(mcb) /\ Blocks(mcb)[m].owner = mcb[m].owner
      BY <2>2, BlocksFacts
    <3> QED BY <3>1 DEF IInv, Held
  <2> QED BY <2>1, <2>2
<1>3. ASSUME NEW p \in Procs
      PROVE  mcb_find(mcb, p) /\ mcb[p - 1].owner = p
  <2>1. p - 1 \in DOMAIN Blocks(mcb) /\ Blocks(mcb)[p - 1].owner = p
    BY DEF IInv, Held
  <2> QED BY <2>1, BlocksFacts DEF mcb_find
<1> QED BY <1>1, <1>2, <1>3 DEF BlocksOwned

\* Foreign headers stand when foreign blocks do.
LEMMA Untouched ==
  ASSUME \A x \in DOMAIN Blocks(mcb) : Blocks(mcb)[x].owner # cur =>
           x \in DOMAIN Blocks(mcb') /\ Blocks(mcb')[x] = Blocks(mcb)[x]
  PROVE  ForeignUntouched
<1> SUFFICES ASSUME NEW m \in DOMAIN mcb, mcb[m].owner \notin {OWNER_FREE, cur}
             PROVE  /\ m \in DOMAIN mcb'
                    /\ mcb'[m].owner = mcb[m].owner
                    /\ mcb'[m].size = mcb[m].size
  BY DEF ForeignUntouched
<1>1. PICK c, d : c = mcb /\ d = mcb'
  OBVIOUS
<1>2. m \in DOMAIN Blocks(c) /\ Blocks(c)[m] = [owner |-> c[m].owner, size |-> c[m].size]
  BY <1>1, BlocksFacts DEF Free
<1>3. m \in DOMAIN Blocks(d) /\ Blocks(d)[m] = Blocks(c)[m]
  BY <1>1, <1>2
<1>4. m \in DOMAIN d /\ Blocks(d)[m] = [owner |-> d[m].owner, size |-> d[m].size]
  BY <1>3, BlocksFacts
<1> QED BY <1>1, <1>2, <1>3, <1>4

LEMMA StepKept == OwnersFit /\ IInv /\ [ProcNext]_allvars => [ForeignUntouched]_allvars
<1> SUFFICES ASSUME OwnersFit, IInv, ProcNext PROVE ForeignUntouched
  OBVIOUS
<1>1. CASE OwnCall
  BY <1>1, LessFacts, Untouched DEF OwnCall
<1>2. CASE mcb' = mcb
  BY <1>2, Untouched
<1>3. ASSUME NEW f, NEW psp, NEW take, Started(f, psp, take)
      PROVE  ForeignUntouched
  BY <1>3, Untouched DEF Started
<1>4. CASE proc_terminate
  <2>1. cur # OWNER_FREE
    BY <1>4, KernelIsNone DEF IInv, proc_terminate, Running
  <2>2. Blocks(mcb') = Less(Blocks(mcb), cur)
    BY <1>4, <2>1, EndStep DEF IInv, proc_terminate
  <2> QED BY <2>2, LessFacts, Untouched
<1> QED BY <1>1, <1>2, <1>3, <1>4, Steps

LEMMA StepExec ==
  OwnersFit /\ HeadersSane /\ IInv /\ [ProcNext]_allvars => [ret'.fn = "4B" => ExecResult]_allvars
<1> SUFFICES ASSUME OwnersFit, HeadersSane, IInv, ProcNext, ret'.fn = "4B" PROVE ExecResult
  OBVIOUS
<1>1. CASE mcb' = mcb /\ ret'.ok = FALSE
  BY <1>1 DEF ExecResult
<1>2. ASSUME NEW f \in Images, NEW psp, NEW largest \in Nat, Need(f) <= largest,
             Loads(f, Take(f, largest)), Started(f, psp, Take(f, largest))
      PROVE  ExecResult
  <2>1. PspParas + (f.load + f.min) <= Take(f, largest)
    BY <1>2, TakeEnough
  <2>2. ret'.ok = TRUE /\ ret'.seg = psp /\ ret'.n = f.load + f.min
    BY <1>2 DEF Started, Answer
  <2>3. psp - 1 \in DOMAIN Blocks(mcb') /\ Blocks(mcb')[psp - 1].size = Take(f, largest)
    BY <1>2 DEF Started
  <2>4. mcb'[psp - 1].size = Take(f, largest)
    BY <2>3, BlocksFacts
  <2>5. /\ PspParas \in Nat /\ f.load + f.min \in Nat /\ Take(f, largest) \in Nat
    BY NeedNat, FilesAssumption
  <2>6. mcb'[psp - 1].size >= PspParas + (f.load + f.min)
    BY <2>1, <2>4, <2>5
  <2> QED BY <2>2, <2>6 DEF ExecResult
<1> QED BY <1>1, <1>2, Steps

LEMMA StepNeutral == OwnersFit /\ IInv /\ [ProcNext]_allvars => [Restored]_allvars
<1> SUFFICES ASSUME OwnersFit, IInv, ProcNext PROVE Restored
  OBVIOUS
<1>1. CASE Procs' = Procs
  BY <1>1, KernelIsNone DEF Restored, IInv, Running
<1>2. CASE UNCHANGED procs
  BY <1>1, <1>2 DEF procs, Procs
<1>3. CASE OwnCall /\ Stays
  BY <1>1, <1>3, StaysInv
<1>4. ASSUME NEW f, NEW psp, NEW take, Started(f, psp, take)
      PROVE  Restored
  <2>1. Procs' = Procs \cup {psp}
    BY <1>4 DEF Started, With, Procs
  <2> QED BY <2>1, KernelIsNone DEF Restored, IInv, Running
<1>5. CASE proc_terminate
  BY <1>5, EndInv DEF Restored
<1> QED BY <1>2, <1>3, <1>4, <1>5, Steps

\* Through any sequence of calls, EXECs and ends of programs, every block that
\* is not free belongs to a process that runs, waits or is resident, and each
\* of those has the block it is named after.
THEOREM OwnersLive == ASSUME OwnersFit PROVE ProcSpec => []BlocksOwned
<1>1. Init => IInv
  BY InitInv
<1>2. IInv /\ [ProcNext]_allvars => IInv'
  BY NextInv
<1>3. IInv => BlocksOwned
  BY InvOwned
<1> QED BY <1>1, <1>2, <1>3, PTL DEF ProcSpec

\* No call of a program, and not its end, changes a block of another process.
THEOREM ForeignBlocksKept == ASSUME OwnersFit PROVE ProcSpec => BlocksKept
<1>1. Init => IInv
  BY InitInv
<1>2. IInv /\ [ProcNext]_allvars => IInv'
  BY NextInv
<1>3. IInv /\ [ProcNext]_allvars => [ForeignUntouched]_allvars
  BY StepKept
<1> QED BY <1>1, <1>2, <1>3, PTL DEF ProcSpec, BlocksKept

\* An EXEC that fails leaves the chain header by header as it found it; one
\* that succeeds gives the program the room its header asks for.
THEOREM ExecIsAtomic == ASSUME OwnersFit, HeadersSane PROVE ProcSpec => ExecAllOrNothing
<1>1. Init => IInv
  BY InitInv
<1>2. IInv /\ [ProcNext]_allvars => IInv'
  BY NextInv
<1>3. IInv /\ [ProcNext]_allvars => [ret'.fn = "4B" => ExecResult]_allvars
  BY StepExec
<1> QED BY <1>1, <1>2, <1>3, PTL DEF ProcSpec, ExecAllOrNothing

\* A child that ends leaves its parent the chain it was started with, header by
\* header, unless a program under it has stayed resident.
THEOREM ChildrenNeutral == ASSUME OwnersFit PROVE ProcSpec => MemoryNeutral
<1>1. Init => IInv
  BY InitInv
<1>2. IInv /\ [ProcNext]_allvars => IInv'
  BY NextInv
<1>3. IInv /\ [ProcNext]_allvars => [Restored]_allvars
  BY StepNeutral
<1> QED BY <1>1, <1>2, <1>3, PTL DEF ProcSpec, MemoryNeutral
=============================================================================
