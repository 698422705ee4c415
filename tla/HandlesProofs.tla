---------------------------- MODULE HandlesProofs ----------------------------
(***************************************************************************)
(* Theorems about the handle layer (module Handles): the reference counts  *)
(* are exact and the sharing modes are respected, for any number of slots, *)
(* handles and processes whose handles cannot make a count saturate.       *)
(***************************************************************************)
EXTENDS Handles, Extremum, FiniteSetTheorems, TLAPS

\* Few enough processes that no reference count reaches 0xFF.
CountsFit ==
  /\ IsFiniteSet(Psps)
  /\ Cardinality(Psps) * JftSize + 1 < RefMax

----------------------------------------------------------------------------
(* Counting the entries of job file tables j that refer to a slot.         *)

Of(j, s) == {r \in (DOMAIN j \ {Kernel}) \X Handle : j[r[1]][r[2]] = s}
N(j, s)  == Cardinality(Of(j, s))
In(row, s) == {h \in Handle : row[h] = s}

Tables(j) ==
  /\ DOMAIN j \subseteq Psps \cup {Kernel}
  /\ Kernel \in DOMAIN j
  /\ j \in [DOMAIN j -> [Handle -> Slots \cup {JFT_FREE}]]

LEMMA HandleFinite ==
  IsFiniteSet(Handle) /\ Cardinality(Handle) = JftSize /\ JftSize \in Nat
<1>1. JftSize \in Nat /\ JftSize - 1 >= 0
  BY SizesAssumption
<1>2. IsFiniteSet(Handle) /\ Cardinality(Handle) = IF 0 > JftSize - 1 THEN 0 ELSE JftSize - 1 - 0 + 1
  BY <1>1, FS_Interval DEF Handle
<1> QED BY <1>1, <1>2

LEMMA OfFinite ==
  ASSUME CountsFit, NEW j, Tables(j), NEW s
  PROVE  /\ IsFiniteSet(Of(j, s))
         /\ N(j, s) \in Nat /\ N(j, s) + 1 < RefMax
<1>1. IsFiniteSet(Psps \X Handle) /\ Cardinality(Psps \X Handle) = Cardinality(Psps) * JftSize
  BY HandleFinite, FS_Product DEF CountsFit
<1>2. Of(j, s) \in SUBSET (Psps \X Handle)
  BY DEF Of, Tables
<1>3. IsFiniteSet(Of(j, s)) /\ N(j, s) <= Cardinality(Psps) * JftSize
  BY <1>1, <1>2, FS_Subset DEF N
<1>4. N(j, s) \in Nat /\ Cardinality(Psps \X Handle) \in Nat
  BY <1>1, <1>3, FS_CardinalityType DEF N
<1>5. RefMax \in Nat
  BY SizesAssumption
<1> QED BY <1>1, <1>3, <1>4, <1>5 DEF CountsFit

LEMMA InFinite ==
  ASSUME NEW row, NEW s
  PROVE  IsFiniteSet(In(row, s)) /\ Cardinality(In(row, s)) \in Nat
         /\ Cardinality(In(row, s)) <= JftSize
<1>1. In(row, s) \in SUBSET Handle
  BY DEF In
<1>2. IsFiniteSet(In(row, s)) /\ Cardinality(In(row, s)) <= JftSize
  BY <1>1, HandleFinite, FS_Subset
<1> QED BY <1>2, FS_CardinalityType

SetEntry(j, p, h, t) == [j EXCEPT ![p][h] = t]

\* One entry changes: the slot it referred to loses a reference, the slot it
\* refers to gains one.
LEMMA EntryChanged ==
  ASSUME CountsFit, NEW j, Tables(j), NEW p \in DOMAIN j \ {Kernel}, NEW h \in Handle,
         NEW t \in Slots \cup {JFT_FREE}, NEW k, k = SetEntry(j, p, h, t)
  PROVE  /\ Tables(k) /\ DOMAIN k = DOMAIN j
         /\ k[p][h] = t
         /\ \A q \in DOMAIN j, g \in Handle : <<q, g>> # <<p, h>> => k[q][g] = j[q][g]
         /\ \A q \in DOMAIN j \ {p} : k[q] = j[q]
         /\ \A s : N(k, s) = N(j, s) + (IF s = t THEN 1 ELSE 0) - (IF s = j[p][h] THEN 1 ELSE 0)
<1>1. j[p] \in [Handle -> Slots \cup {JFT_FREE}]
  BY DEF Tables
<1>2. k = [j EXCEPT ![p] = [j[p] EXCEPT ![h] = t]]
  BY DEF SetEntry
<1>3. /\ DOMAIN k = DOMAIN j /\ k[p] = [j[p] EXCEPT ![h] = t]
      /\ \A q \in DOMAIN j \ {p} : k[q] = j[q]
  BY <1>2
<1>4. Tables(k)
  BY <1>1, <1>2, <1>3 DEF Tables
<1>5. k[p][h] = t /\ \A g \in Handle \ {h} : k[p][g] = j[p][g]
  BY <1>1, <1>3
<1>6. \A q \in DOMAIN j, g \in Handle : <<q, g>> # <<p, h>> => k[q][g] = j[q][g]
  BY <1>3, <1>5
<1>7. \A r \in (DOMAIN j \ {Kernel}) \X Handle :
        k[r[1]][r[2]] = IF r = <<p, h>> THEN t ELSE j[r[1]][r[2]]
  BY <1>5, <1>6
<1>8. ASSUME NEW s
      PROVE  N(k, s) = N(j, s) + (IF s = t THEN 1 ELSE 0) - (IF s = j[p][h] THEN 1 ELSE 0)
  <2> DEFINE r == <<p, h>>
  <2>1. IsFiniteSet(Of(j, s)) /\ N(j, s) \in Nat
    BY OfFinite
  <2>2. r \in Of(j, s) <=> s = j[p][h]
    BY DEF Of
  <2>3. CASE s = t
    <3>1. Of(k, s) = Of(j, s) \cup {r}
      BY <2>3, <1>3, <1>7 DEF Of
    <3>2. Cardinality(Of(j, s) \cup {r}) = IF r \in Of(j, s) THEN N(j, s) ELSE N(j, s) + 1
      BY <2>1, FS_AddElement DEF N
    <3>3. N(k, s) = IF s = j[p][h] THEN N(j, s) ELSE N(j, s) + 1
      BY <2>2, <3>1, <3>2 DEF N
    <3> HIDE DEF r
    <3> QED BY <2>1, <2>3, <3>3
  <2>4. CASE s # t
    <3>1. Of(k, s) = Of(j, s) \ {r}
      BY <2>4, <1>3, <1>7 DEF Of
    <3>2. Cardinality(Of(j, s) \ {r}) = IF r \in Of(j, s) THEN N(j, s) - 1 ELSE N(j, s)
      BY <2>1, FS_RemoveElement DEF N
    <3>3. N(k, s) = IF s = j[p][h] THEN N(j, s) - 1 ELSE N(j, s)
      BY <2>2, <3>1, <3>2 DEF N
    <3> HIDE DEF r
    <3> QED BY <2>1, <2>4, <3>3
  <2> QED BY <2>3, <2>4
<1> QED BY <1>3, <1>4, <1>5, <1>6, <1>8

\* k has one table more than j.
LEMMA RowMore ==
  ASSUME CountsFit, NEW j, Tables(j), NEW k, Tables(k), NEW p, p \notin DOMAIN j, p # Kernel,
         DOMAIN k = DOMAIN j \cup {p}, \A q \in DOMAIN j : k[q] = j[q]
  PROVE  \A s : N(k, s) = N(j, s) + Cardinality(In(k[p], s))
<1> SUFFICES ASSUME NEW s PROVE N(k, s) = N(j, s) + Cardinality(In(k[p], s))
  OBVIOUS
<1> DEFINE A == Of(j, s)
           B == {p} \X In(k[p], s)
<1>1. Of(k, s) = A \cup B
  BY DEF Of, In
<1>2. A \cap B = {}
  BY DEF Of
<1>3. IsFiniteSet(A) /\ N(j, s) \in Nat /\ IsFiniteSet(In(k[p], s))
      /\ Cardinality(In(k[p], s)) \in Nat
  BY OfFinite, InFinite
<1>4. IsFiniteSet({p}) /\ Cardinality({p}) = 1
  BY FS_Singleton
<1>5. IsFiniteSet(B) /\ Cardinality(B) = 1 * Cardinality(In(k[p], s))
  BY <1>3, <1>4, FS_Product
<1>6. Cardinality(A \cup B) = Cardinality(A) + Cardinality(B) - Cardinality(A \cap B)
  BY <1>3, <1>5, FS_Union
<1>7. Cardinality(A \cap B) = 0
  BY <1>2, FS_EmptySet
<1>8. N(k, s) = Cardinality(A \cup B) /\ N(j, s) = Cardinality(A)
  BY <1>1 DEF N
<1>9. Cardinality(A) \in Nat /\ Cardinality(B) = Cardinality(In(k[p], s)) /\ Cardinality(B) \in Nat
  BY <1>3, <1>5, <1>8
<1> HIDE DEF A, B
<1> QED BY <1>6, <1>7, <1>8, <1>9

----------------------------------------------------------------------------
(* Entries of the System File Table.                                       *)

\* e and f are the same open file or device.
Same(e, f) ==
  /\ e.open # 0 /\ f.open # 0
  /\ e.dev = f.dev /\ e.mode = f.mode
  /\ e.dev = DEV_FILE => e.file = f.file

LEMMA SlotKinds ==
  ASSUME NEW e \in SlotType
  PROVE  /\ RefMax \in Nat /\ RefMax > 5
         /\ e.open \in 0..RefMax
         /\ e.open = 0 <=> e = FreeSlot
         /\ e.open = 0 => e.dev = DEV_FILE
         /\ e.open # 0 => e.mode \in Modes
         /\ e.open # 0 /\ e.dev = DEV_FILE => e.file \in Files
<1>1. RefMax \in Nat /\ RefMax > 5
  BY SizesAssumption
<1>2. FreeSlot.open = 0 /\ FreeSlot.dev = DEV_FILE
  BY DEF FreeSlot
<1>3. DEV_FILE \notin Devices \cup {CON, AUX, NUL}
  BY InputsAssumption DEF DEV_FILE, CON, AUX, NUL
<1>4. CASE e = FreeSlot
  BY <1>1, <1>2, <1>4
<1>5. CASE e \in [open : 1..RefMax, dev : Devices \cup {CON, AUX, NUL}, mode : Modes]
  <2>1. e.open \in 1..RefMax /\ e.dev # DEV_FILE /\ e.mode \in Modes
    BY <1>3, <1>5
  <2> QED BY <1>1, <1>2, <2>1
<1>6. CASE e \in [open : 1..RefMax, dev : {DEV_FILE}, file : Files, mode : Modes]
  <2>1. e.open \in 1..RefMax /\ e.dev = DEV_FILE /\ e.mode \in Modes /\ e.file \in Files
    BY <1>6
  <2> QED BY <1>1, <1>2, <2>1
<1> QED BY <1>4, <1>5, <1>6 DEF SlotType

\* Another count for an open entry.
LEMMA Recount ==
  ASSUME NEW e \in SlotType, e.open # 0, NEW n \in 1..RefMax,
         NEW f, f = [e EXCEPT !.open = n]
  PROVE  f \in SlotType /\ f.open = n /\ Same(e, f)
<1>1. CASE e = FreeSlot
  BY <1>1 DEF FreeSlot
<1>2. CASE e \in [open : 1..RefMax, dev : Devices \cup {CON, AUX, NUL}, mode : Modes]
  <2>1. f \in [open : 1..RefMax, dev : Devices \cup {CON, AUX, NUL}, mode : Modes]
    BY <1>2
  <2>2. f.open = n /\ f.dev = e.dev /\ f.mode = e.mode /\ e.dev # DEV_FILE /\ n # 0
    BY <1>2, InputsAssumption DEF DEV_FILE, CON, AUX, NUL
  <2> QED BY <2>1, <2>2 DEF Same, SlotType
<1>3. CASE e \in [open : 1..RefMax, dev : {DEV_FILE}, file : Files, mode : Modes]
  <2>1. f \in [open : 1..RefMax, dev : {DEV_FILE}, file : Files, mode : Modes]
    BY <1>3
  <2>2. f.open = n /\ f.dev = e.dev /\ f.mode = e.mode /\ f.file = e.file /\ n # 0
    BY <1>3
  <2> QED BY <2>1, <2>2 DEF Same, SlotType
<1> QED BY <1>1, <1>2, <1>3 DEF SlotType

LEMMA AddRefsSlot ==
  ASSUME NEW e \in SlotType, e.open # 0, NEW n \in Nat
  PROVE  /\ AddRefs(e, n) \in SlotType /\ Same(e, AddRefs(e, n))
         /\ e.open + n <= RefMax => AddRefs(e, n).open = e.open + n
<1> DEFINE m == IF e.open + n > RefMax THEN RefMax ELSE e.open + n
<1>1. e.open \in 1..RefMax /\ RefMax \in Nat
  BY SlotKinds
<1>2. m \in 1..RefMax /\ (e.open + n <= RefMax => m = e.open + n)
  BY <1>1
<1>3. AddRefs(e, n) = [e EXCEPT !.open = m]
  BY DEF AddRefs
<1> HIDE DEF m
<1> QED BY <1>2, <1>3, Recount

LEMMA ReleaseSlot ==
  ASSUME NEW e \in SlotType, e.open # 0, NEW n \in Nat \ {0}, NEW f, f = sft_release(e, n)
  PROVE  /\ f \in SlotType
         /\ e.dev # DEV_FILE => Same(e, f) /\ f.open = IF e.open - n >= 1 THEN e.open - n ELSE 1
         /\ e.dev = DEV_FILE /\ e.open > n => Same(e, f) /\ f.open = e.open - n
         /\ e.dev = DEV_FILE /\ e.open <= n => f = FreeSlot
<1>1. e.open \in 1..RefMax /\ RefMax \in Nat
  BY SlotKinds
<1>2. CASE e.dev # DEV_FILE
  <2> DEFINE m == IF e.open - n >= 1 THEN e.open - n ELSE 1
  <2>1. m \in 1..RefMax
    BY <1>1
  <2>2. f = [e EXCEPT !.open = m]
    BY <1>2 DEF sft_release
  <2>3. f \in SlotType /\ f.open = m /\ Same(e, f)
    <3> HIDE DEF m
    <3> QED BY <2>1, <2>2, Recount
  <2> QED BY <1>2, <2>3
<1>3. CASE e.dev = DEV_FILE /\ e.open > n
  <2>1. e.open - n \in 1..RefMax
    BY <1>1, <1>3
  <2>2. f = [e EXCEPT !.open = e.open - n]
    BY <1>3 DEF sft_release
  <2>3. f \in SlotType /\ f.open = e.open - n /\ Same(e, f)
    BY <2>1, <2>2, Recount
  <2> QED BY <1>1, <1>3, <2>3
<1>4. CASE e.dev = DEV_FILE /\ e.open <= n
  <2>1. f = FreeSlot
    BY <1>1, <1>4 DEF sft_release
  <2>2. f \in SlotType
    BY <2>1 DEF SlotType
  <2> QED BY <1>1, <1>4, <2>1, <2>2
<1> QED BY <1>1, <1>2, <1>3, <1>4

----------------------------------------------------------------------------
(* Slots t and job file tables j together.                                 *)

Boot(s) == CASE s = 0 -> CON [] s = 1 -> AUX [] s = 2 -> NUL [] OTHER -> DEV_FILE

\* RefcountExact and BootDevicesStay.
Counted(t, j) ==
  \A s \in Slots :
    /\ s <= 2 => t[s].dev = Boot(s) /\ t[s].open = 1 + N(j, s)
    /\ s > 2 /\ t[s].dev = DEV_FILE => t[s].open = N(j, s)

KernelRow(j) == \A h \in Handle : j[Kernel][h] \in {0, 1, 2, JFT_FREE}

Sound(t, j) ==
  t \in [Slots -> SlotType] /\ Tables(j) /\ Counted(t, j) /\ KernelRow(j)

\* What is open in u was open in t, and is the same.
Narrower(t, u) == \A s \in Slots : u[s].open # 0 => Same(t[s], u[s])

Shared(t) ==
  \A s, r \in Slots :
    s # r /\ t[s].open # 0 /\ t[r].open # 0
      /\ t[s].dev = DEV_FILE /\ t[r].dev = DEV_FILE /\ t[s].file = t[r].file
    => share_mode_compat(t[s].mode, t[r].mode)

LEMMA SlotNumbers ==
  /\ Slots \subseteq Nat /\ JFT_FREE \notin Slots /\ {0, 1, 2} \subseteq Slots
  /\ \A s \in Slots : s <= 2 <=> s \in {0, 1, 2}
  /\ \A s \in Slots : s <= 2 => Boot(s) # DEV_FILE
BY SizesAssumption DEF Slots, JFT_FREE, Boot, CON, AUX, NUL, DEV_FILE

LEMMA NarrowShared ==
  ASSUME NEW t, NEW u, Narrower(t, u), Shared(t)
  PROVE  Shared(u)
BY DEF Narrower, Same, Shared

\* A slot that an entry refers to is open.
LEMMA ReferredOpen ==
  ASSUME CountsFit, NEW t, NEW j, Sound(t, j), NEW p \in DOMAIN j, NEW h \in Handle,
         j[p][h] \in Slots
  PROVE  t[j[p][h]].open # 0 /\ (p # Kernel => N(j, j[p][h]) >= 1)
<1> DEFINE s == j[p][h]
<1>1. N(j, s) \in Nat /\ IsFiniteSet(Of(j, s)) /\ t[s] \in SlotType
  BY OfFinite DEF Sound
<1>2. p # Kernel => N(j, s) # 0
  <2>1. p # Kernel => <<p, h>> \in Of(j, s)
    BY DEF Of
  <2> QED BY <1>1, <2>1, FS_EmptySet DEF N
<1>3. p = Kernel => s <= 2
  <2>1. p = Kernel => s \in {0, 1, 2, JFT_FREE}
    BY DEF Sound, KernelRow
  <2> QED BY <2>1, SlotNumbers
<1>4. s <= 2 => t[s].open = 1 + N(j, s)
  BY DEF Sound, Counted
<1>5. s > 2 /\ t[s].open = 0 => N(j, s) = 0
  <2>1. t[s].open = 0 => t[s].dev = DEV_FILE
    BY <1>1, SlotKinds
  <2> QED BY <2>1 DEF Sound, Counted
<1>6. s \in Nat
  BY SlotNumbers
<1> HIDE DEF s
<1>7. t[s].open # 0 /\ (p # Kernel => N(j, s) >= 1)
  BY <1>1, <1>2, <1>3, <1>4, <1>5, <1>6
<1> QED BY <1>7 DEF s

\* count[s] references of each slot s are released.
Released(t, count) ==
  [s \in Slots |-> IF count[s] = 0 \/ t[s].open = 0 THEN t[s] ELSE sft_release(t[s], count[s])]

LEMMA ReleasedSound ==
  ASSUME CountsFit, NEW t, NEW j, Sound(t, j), NEW k, Tables(k), KernelRow(k),
         NEW count, \A s \in Slots : count[s] \in Nat /\ N(j, s) = N(k, s) + count[s],
         NEW u, u = Released(t, count)
  PROVE  Sound(u, k) /\ Narrower(t, u)
<1>1. ASSUME NEW s \in Slots
      PROVE  /\ u[s] \in SlotType
             /\ s <= 2 => u[s].dev = Boot(s) /\ u[s].open = 1 + N(k, s)
             /\ s > 2 /\ u[s].dev = DEV_FILE => u[s].open = N(k, s)
             /\ u[s].open # 0 => Same(t[s], u[s])
  <2>1. /\ t[s] \in SlotType /\ N(k, s) \in Nat /\ N(j, s) = N(k, s) + count[s] /\ count[s] \in Nat
        /\ s <= 2 => t[s].dev = Boot(s) /\ t[s].open = 1 + N(j, s) /\ t[s].dev # DEV_FILE
        /\ s > 2 /\ t[s].dev = DEV_FILE => t[s].open = N(j, s)
    BY OfFinite, SlotNumbers DEF Sound, Counted
  <2>2. s \in Nat /\ t[s].open \in Nat /\ (t[s].open = 0 => t[s].dev = DEV_FILE)
    BY <2>1, SlotKinds, SlotNumbers
  <2>3. CASE count[s] = 0 \/ t[s].open = 0
    <3>1. u[s] = t[s]
      BY <2>3 DEF Released
    <3>2. t[s].open = 0 => s > 2 /\ N(k, s) = 0 /\ count[s] = 0
      BY <2>1, <2>2
    <3> QED BY <2>1, <2>2, <2>3, <3>1, <3>2 DEF Same
  <2>4. CASE count[s] # 0 /\ t[s].open # 0
    <3>1. u[s] = sft_release(t[s], count[s])
      BY <2>4 DEF Released
    <3>2. /\ u[s] \in SlotType
          /\ t[s].dev # DEV_FILE => Same(t[s], u[s])
               /\ u[s].open = IF t[s].open - count[s] >= 1 THEN t[s].open - count[s] ELSE 1
          /\ t[s].dev = DEV_FILE /\ t[s].open > count[s]
               => Same(t[s], u[s]) /\ u[s].open = t[s].open - count[s]
          /\ t[s].dev = DEV_FILE /\ t[s].open <= count[s] => u[s] = FreeSlot
      BY <2>1, <2>4, <3>1, ReleaseSlot
    <3>3. FreeSlot.open = 0
      BY DEF FreeSlot
    <3> QED BY <2>1, <2>2, <2>4, <3>2, <3>3 DEF Same
  <2> QED BY <2>3, <2>4
<1>2. u \in [Slots -> SlotType]
  BY <1>1 DEF Released
<1> QED BY <1>1, <1>2 DEF Sound, Counted, Narrower

\* more[s] references of each slot s are added.
Added(t, more) ==
  [s \in Slots |-> IF more[s] = 0 THEN t[s] ELSE AddRefs(t[s], more[s])]

LEMMA AddedSound ==
  ASSUME CountsFit, NEW t, NEW j, Sound(t, j), NEW k, Tables(k), KernelRow(k),
         NEW more, \A s \in Slots : more[s] \in Nat /\ N(k, s) = N(j, s) + more[s]
                                    /\ (more[s] # 0 => t[s].open # 0),
         NEW u, u = Added(t, more)
  PROVE  Sound(u, k) /\ Narrower(t, u) /\ \A s \in Slots : t[s].open # 0 => Same(t[s], u[s])
<1>1. ASSUME NEW s \in Slots
      PROVE  /\ u[s] \in SlotType
             /\ s <= 2 => u[s].dev = Boot(s) /\ u[s].open = 1 + N(k, s)
             /\ s > 2 /\ u[s].dev = DEV_FILE => u[s].open = N(k, s)
             /\ u[s].open # 0 \/ t[s].open # 0 => Same(t[s], u[s])
  <2>1. /\ t[s] \in SlotType /\ N(j, s) \in Nat /\ N(k, s) = N(j, s) + more[s] /\ more[s] \in Nat
        /\ N(k, s) + 1 < RefMax
        /\ s <= 2 => t[s].dev = Boot(s) /\ t[s].open = 1 + N(j, s)
        /\ s > 2 /\ t[s].dev = DEV_FILE => t[s].open = N(j, s)
    BY OfFinite DEF Sound, Counted
  <2>2. s \in Nat /\ t[s].open \in Nat /\ RefMax \in Nat
    BY <2>1, SlotKinds, SlotNumbers
  <2>3. CASE more[s] = 0
    <3>1. u[s] = t[s]
      BY <2>3 DEF Added
    <3> QED BY <2>1, <2>2, <2>3, <3>1 DEF Same
  <2>4. CASE more[s] # 0
    <3>1. u[s] = AddRefs(t[s], more[s]) /\ t[s].open # 0
      BY <2>4 DEF Added
    <3>2. /\ u[s] \in SlotType /\ Same(t[s], u[s])
          /\ t[s].open + more[s] <= RefMax => u[s].open = t[s].open + more[s]
      BY <2>1, <3>1, AddRefsSlot
    <3> QED BY <2>1, <2>2, <3>2 DEF Same
  <2> QED BY <2>3, <2>4
<1>2. u \in [Slots -> SlotType]
  BY <1>1 DEF Added
<1> QED BY <1>1, <1>2 DEF Sound, Counted, Narrower

----------------------------------------------------------------------------
(* The calls on handles.                                                   *)

Running == cur \in DOMAIN jft

LEMMA KernelRowKept ==
  ASSUME NEW j, KernelRow(j), NEW k, k[Kernel] = j[Kernel]
  PROVE  KernelRow(k)
BY DEF KernelRow

LEMMA Leasts ==
  ASSUME CanAlloc
  PROVE  /\ Least(FreeJft) \in Handle /\ jft[cur][Least(FreeJft)] = JFT_FREE
         /\ Least(FreeSft) \in Slots /\ sft[Least(FreeSft)].open = 0
<1>1. FreeJft \in SUBSET Nat /\ FreeSft \in SUBSET Nat
  <2>1. Handle \subseteq Nat
    BY SizesAssumption DEF Handle
  <2> QED BY <2>1, SlotNumbers DEF FreeJft, FreeSft
<1>2. \E x \in FreeJft : \A y \in FreeJft : x <= y
  BY <1>1, NatLeast DEF CanAlloc
<1>3. \E x \in FreeSft : \A y \in FreeSft : x <= y
  BY <1>1, NatLeast DEF CanAlloc
<1>4. Least(FreeJft) \in FreeJft
  BY <1>2 DEF Least
<1>5. Least(FreeSft) \in FreeSft
  BY <1>3 DEF Least
<1> QED BY <1>4, <1>5 DEF FreeJft, FreeSft

\* A new entry in a free slot, one handle refers to it.
LEMMA AllocSound ==
  ASSUME CountsFit, Sound(sft, jft), Running, Program, CanAlloc,
         NEW entry \in SlotType, entry.open = 1, handle_alloc(entry)
  PROVE  /\ Sound(sft, jft)' /\ DOMAIN jft' = DOMAIN jft
         /\ \E s \in Slots : /\ sft[s].open = 0 /\ sft'[s] = entry
                            /\ \A x \in Slots \ {s} : sft'[x] = sft[x]
<1> DEFINE s == Least(FreeSft)
           h == Least(FreeJft)
<1>1. h \in Handle /\ jft[cur][h] = JFT_FREE /\ s \in Slots /\ sft[s].open = 0
  BY Leasts
<1>2. sft' = [sft EXCEPT ![s] = entry] /\ jft' = SetEntry(jft, cur, h, s)
  BY DEF handle_alloc, SetEntry
<1> HIDE DEF s, h
<1>3. cur \in DOMAIN jft \ {Kernel}
  BY DEF Running, Program
<1>4. Tables(jft)
  BY DEF Sound
<1>5. /\ Tables(jft') /\ DOMAIN jft' = DOMAIN jft
      /\ \A q \in DOMAIN jft \ {cur} : jft'[q] = jft[q]
      /\ \A x : N(jft', x) = N(jft, x) + (IF x = s THEN 1 ELSE 0) - (IF x = jft[cur][h] THEN 1 ELSE 0)
  BY <1>1, <1>2, <1>3, <1>4, EntryChanged
<1>6. \A x \in Slots : N(jft, x) \in Nat /\ N(jft', x) = IF x = s THEN N(jft, x) + 1 ELSE N(jft, x)
  BY <1>1, <1>4, <1>5, SlotNumbers, OfFinite
<1>7. sft \in [Slots -> SlotType] /\ sft' \in [Slots -> SlotType]
  BY <1>1, <1>2 DEF Sound
<1>8. sft'[s] = entry /\ \A x \in Slots \ {s} : sft'[x] = sft[x]
  BY <1>1, <1>2, <1>7
<1>9. s \notin {0, 1, 2} /\ N(jft, s) = 0
  <2>1. sft[s].dev = DEV_FILE
    BY <1>1, <1>7, SlotKinds
  <2>2. s > 2
    BY <1>1, <2>1, SlotNumbers DEF Sound, Counted
  <2> QED BY <1>1, <2>1, <2>2 DEF Sound, Counted
<1>10. Counted(sft', jft')
  <2>1. ASSUME NEW x \in Slots, x # s
        PROVE  /\ x <= 2 => sft'[x].dev = Boot(x) /\ sft'[x].open = 1 + N(jft', x)
               /\ x > 2 /\ sft'[x].dev = DEV_FILE => sft'[x].open = N(jft', x)
    BY <1>6, <1>8, <2>1 DEF Sound, Counted
  <2>2. ~(s <= 2) /\ sft'[s].open = N(jft', s)
    BY <1>1, <1>6, <1>8, <1>9, SlotNumbers
  <2> QED BY <2>1, <2>2 DEF Counted
<1>11. KernelRow(jft')
  BY <1>3, <1>5, KernelRowKept DEF Sound, Tables
<1> QED BY <1>1, <1>5, <1>7, <1>8, <1>10, <1>11 DEF Sound

LEMMA CompatSymmetric ==
  ASSUME NEW a, NEW b
  PROVE  share_mode_compat(a, b) = share_mode_compat(b, a)
BY DEF share_mode_compat

\* An entry that goes together with those open for its file.
LEMMA AllocShared ==
  ASSUME NEW s \in Slots, NEW entry, sft[s].open = 0, sft'[s] = entry, Shared(sft),
         \A x \in Slots \ {s} : sft'[x] = sft[x],
         entry.dev = DEV_FILE =>
           \A x \in Slots : IsOpenFile(x, entry.file) => share_mode_compat(sft[x].mode, entry.mode)
  PROVE  Shared(sft')
<1> SUFFICES ASSUME NEW x \in Slots, NEW y \in Slots, x # y,
                    sft'[x].open # 0, sft'[y].open # 0, sft'[x].dev = DEV_FILE,
                    sft'[y].dev = DEV_FILE, sft'[x].file = sft'[y].file
             PROVE  share_mode_compat(sft'[x].mode, sft'[y].mode)
  BY DEF Shared
<1>1. CASE x # s /\ y # s
  BY <1>1 DEF Shared
<1>2. CASE y = s
  BY <1>2 DEF IsOpenFile
<1>3. CASE x = s
  BY <1>3, CompatSymmetric DEF IsOpenFile
<1> QED BY <1>1, <1>2, <1>3

LEMMA FileSlotType ==
  ASSUME NEW file \in Files, NEW mode \in Modes
  PROVE  /\ FileSlot(file, mode) \in SlotType /\ FileSlot(file, mode).open = 1
         /\ FileSlot(file, mode).dev = DEV_FILE /\ FileSlot(file, mode).file = file
         /\ FileSlot(file, mode).mode = mode
<1>1. 1 \in 1..RefMax
  BY SizesAssumption
<1> QED BY <1>1 DEF FileSlot, SlotType

LEMMA DevSlotType ==
  ASSUME NEW dev \in Devices \cup {CON, AUX, NUL}, NEW mode \in Modes
  PROVE  /\ DevSlot(dev, mode) \in SlotType /\ DevSlot(dev, mode).open = 1
         /\ DevSlot(dev, mode).dev = dev /\ dev # DEV_FILE
<1>1. 1 \in 1..RefMax /\ dev # DEV_FILE
  BY SizesAssumption, InputsAssumption DEF CON, AUX, NUL, DEV_FILE
<1> QED BY <1>1 DEF DevSlot, SlotType

LEMMA OpensSound ==
  ASSUME CountsFit, Sound(sft, jft), Running, Shared(sft),
         \/ \E file \in Files, mode \in OpenModes : f3d_open(file, mode)
         \/ \E dev \in Devices : OpenDevice(dev, Mode(0, 2))
         \/ \E file \in Files : f3c_create(file)
  PROVE  /\ Sound(sft, jft)' /\ Shared(sft') /\ DOMAIN jft' = DOMAIN jft
         /\ \A x \in Slots : sft[x].open # 0 => sft'[x] = sft[x]
<1>1. Mode(0, 2) \in Modes /\ OpenModes \subseteq Modes
  BY InputsAssumption DEF Mode, Modes
<1>2. \A x \in Slots : sft[x].open # 0 => sft[x].mode \in Modes
  BY SlotKinds DEF Sound
<1>3. ASSUME NEW file \in Files, NEW mode \in Modes, f3d_open(file, mode)
      PROVE  /\ Sound(sft, jft)' /\ Shared(sft') /\ DOMAIN jft' = DOMAIN jft
             /\ \A x \in Slots : sft[x].open # 0 => sft'[x] = sft[x]
  <2> DEFINE e == FileSlot(file, mode)
  <2>1. Program /\ CanAlloc /\ handle_alloc(e)
    BY <1>3 DEF f3d_open
  <2>2. \A x \in Slots : IsOpenFile(x, file) => share_mode_compat(sft[x].mode, mode)
    BY <1>2, <1>3 DEF f3d_open, share_conflict, Clashing, IsOpenFile
  <2>3. e \in SlotType /\ e.open = 1 /\ e.dev = DEV_FILE /\ e.file = file /\ e.mode = mode
    BY FileSlotType
  <2> HIDE DEF e
  <2>4. /\ Sound(sft, jft)' /\ DOMAIN jft' = DOMAIN jft
        /\ \E s \in Slots : /\ sft[s].open = 0 /\ sft'[s] = e
                            /\ \A x \in Slots \ {s} : sft'[x] = sft[x]
    BY <2>1, <2>3, AllocSound
  <2>5. Shared(sft')
    BY <2>2, <2>3, <2>4, AllocShared
  <2> QED BY <2>4, <2>5
<1>4. ASSUME NEW dev \in Devices, OpenDevice(dev, Mode(0, 2))
      PROVE  /\ Sound(sft, jft)' /\ Shared(sft') /\ DOMAIN jft' = DOMAIN jft
             /\ \A x \in Slots : sft[x].open # 0 => sft'[x] = sft[x]
  <2> DEFINE e == DevSlot(dev, Mode(0, 2))
  <2>1. Program /\ CanAlloc /\ handle_alloc(e)
    BY <1>4 DEF OpenDevice
  <2>2. e \in SlotType /\ e.open = 1 /\ e.dev # DEV_FILE
    BY <1>1, DevSlotType
  <2> HIDE DEF e
  <2>3. /\ Sound(sft, jft)' /\ DOMAIN jft' = DOMAIN jft
        /\ \E s \in Slots : /\ sft[s].open = 0 /\ sft'[s] = e
                            /\ \A x \in Slots \ {s} : sft'[x] = sft[x]
    BY <2>1, <2>2, AllocSound
  <2>4. Shared(sft')
    BY <2>2, <2>3, AllocShared
  <2> QED BY <2>3, <2>4
<1>5. ASSUME NEW file \in Files, f3c_create(file)
      PROVE  /\ Sound(sft, jft)' /\ Shared(sft') /\ DOMAIN jft' = DOMAIN jft
             /\ \A x \in Slots : sft[x].open # 0 => sft'[x] = sft[x]
  <2> DEFINE e == FileSlot(file, Mode(0, 2))
  <2>1. Program /\ CanAlloc /\ handle_alloc(e)
    BY <1>5 DEF f3c_create
  <2>2. \A x \in Slots : ~IsOpenFile(x, file)
    BY <1>2, <1>5 DEF f3c_create, share_conflict, IsOpenFile
  <2>3. e \in SlotType /\ e.open = 1 /\ e.file = file
    BY <1>1, FileSlotType
  <2> HIDE DEF e
  <2>4. /\ Sound(sft, jft)' /\ DOMAIN jft' = DOMAIN jft
        /\ \E s \in Slots : /\ sft[s].open = 0 /\ sft'[s] = e
                            /\ \A x \in Slots \ {s} : sft'[x] = sft[x]
    BY <2>1, <2>3, AllocSound
  <2>5. Shared(sft')
    BY <2>2, <2>3, <2>4, AllocShared
  <2> QED BY <2>4, <2>5
<1> QED BY <1>1, <1>3, <1>4, <1>5

LEMMA ReleasesAll ==
  ASSUME NEW count, ReleaseAll(count)
  PROVE  /\ sft' = Released(sft, count)
         /\ locks' = share_file_closed(locks, ClosedFiles(sft, sft'))
BY DEF ReleaseAll, Released

\* What a change of one entry of the running process does to the counts.
LEMMA EntryCounts ==
  ASSUME CountsFit, NEW j, Tables(j), KernelRow(j), NEW p \in DOMAIN j, p # Kernel, NEW h \in Handle,
         NEW t \in Slots \cup {JFT_FREE}, NEW k, k = SetEntry(j, p, h, t)
  PROVE  /\ Tables(k) /\ KernelRow(k) /\ DOMAIN k = DOMAIN j
         /\ \A s \in Slots :
              /\ N(j, s) \in Nat /\ N(k, s) \in Nat
              /\ t = JFT_FREE => N(j, s) = N(k, s) + (IF s = j[p][h] THEN 1 ELSE 0)
              /\ j[p][h] \notin Slots => N(k, s) = N(j, s) + (IF s = t THEN 1 ELSE 0)
              /\ t = j[p][h] => N(k, s) = N(j, s)
<1>1. /\ Tables(k) /\ DOMAIN k = DOMAIN j /\ k[Kernel] = j[Kernel]
      /\ \A s : N(k, s) = N(j, s) + (IF s = t THEN 1 ELSE 0) - (IF s = j[p][h] THEN 1 ELSE 0)
  BY EntryChanged DEF Tables
<1>2. KernelRow(k)
  BY <1>1, KernelRowKept
<1>3. ASSUME NEW s \in Slots
      PROVE  /\ N(j, s) \in Nat /\ N(k, s) \in Nat
             /\ t = JFT_FREE => N(j, s) = N(k, s) + (IF s = j[p][h] THEN 1 ELSE 0)
             /\ j[p][h] \notin Slots => N(k, s) = N(j, s) + (IF s = t THEN 1 ELSE 0)
             /\ t = j[p][h] => N(k, s) = N(j, s)
  <2>1. N(j, s) \in Nat /\ N(k, s) \in Nat /\ s # JFT_FREE
    BY <1>1, OfFinite, SlotNumbers
  <2>2. N(k, s) = N(j, s) + (IF s = t THEN 1 ELSE 0) - (IF s = j[p][h] THEN 1 ELSE 0)
    BY <1>1
  <2> QED BY <2>1, <2>2
<1> QED BY <1>1, <1>2, <1>3

LEMMA AddOne ==
  ASSUME NEW t \in [Slots -> SlotType], NEW s \in Slots,
         NEW u, u = [t EXCEPT ![s] = AddRefs(t[s], 1)]
  PROVE  u = Added(t, One(s))
<1>1. \A x \in Slots : One(s)[x] = IF x = s THEN 1 ELSE 0
  BY DEF One
<1>2. \A x \in Slots : Added(t, One(s))[x] = IF x = s THEN AddRefs(t[x], 1) ELSE t[x]
  BY <1>1 DEF Added
<1>3. u = [x \in Slots |-> IF x = s THEN AddRefs(t[x], 1) ELSE t[x]]
  OBVIOUS
<1>4. Added(t, One(s)) = [x \in Slots |-> Added(t, One(s))[x]]
  BY DEF Added
<1> QED BY <1>2, <1>3, <1>4

LEMMA ReleaseOne ==
  ASSUME NEW t \in [Slots -> SlotType], NEW s, s \in Slots => t[s].open # 0,
         NEW u, u = IF s \in Slots THEN [t EXCEPT ![s] = sft_release(t[s], 1)] ELSE t
  PROVE  u = Released(t, One(s))
<1>1. \A x \in Slots : One(s)[x] = IF x = s THEN 1 ELSE 0
  BY DEF One
<1>2. \A x \in Slots : Released(t, One(s))[x] = IF x = s THEN sft_release(t[x], 1) ELSE t[x]
  BY <1>1 DEF Released
<1>3. u = [x \in Slots |-> IF x = s THEN sft_release(t[x], 1) ELSE t[x]]
  OBVIOUS
<1>4. Released(t, One(s)) = [x \in Slots |-> Released(t, One(s))[x]]
  BY DEF Released
<1> QED BY <1>2, <1>3, <1>4

LEMMA CloseSound ==
  ASSUME CountsFit, Sound(sft, jft), Running, NEW h \in Handle, f3e_close(h)
  PROVE  Sound(sft, jft)' /\ Narrower(sft, sft') /\ DOMAIN jft' = DOMAIN jft
<1> DEFINE s == jft[cur][h]
           count == One(s)
<1>1. cur \in DOMAIN jft /\ cur # Kernel /\ s \in Slots
  BY DEF Running, Program, f3e_close, handle_of
<1>2. sft' = Released(sft, count) /\ jft' = SetEntry(jft, cur, h, JFT_FREE)
  BY ReleasesAll DEF f3e_close, SetEntry
<1>3. /\ Tables(jft') /\ KernelRow(jft') /\ DOMAIN jft' = DOMAIN jft
      /\ \A x \in Slots : N(jft', x) \in Nat /\ N(jft, x) = N(jft', x) + (IF x = s THEN 1 ELSE 0)
  BY <1>1, <1>2, EntryCounts DEF Sound
<1>4. \A x \in Slots : count[x] \in Nat /\ N(jft, x) = N(jft', x) + count[x]
  BY <1>3 DEF One
<1> HIDE DEF s, count
<1> QED BY <1>2, <1>3, <1>4, ReleasedSound

LEMMA DupSound ==
  ASSUME CountsFit, Sound(sft, jft), Running, NEW h \in Handle, f45_dup(h)
  PROVE  /\ Sound(sft, jft)' /\ Narrower(sft, sft') /\ DOMAIN jft' = DOMAIN jft
         /\ \A x \in Slots : sft[x].open # 0 => Same(sft[x], sft'[x])
<1> DEFINE s == jft[cur][h]
           g == Least(FreeJft)
           more == One(s)
<1>1. cur \in DOMAIN jft /\ cur # Kernel /\ s \in Slots /\ sft[s].open # 0
  BY DEF Running, Program, f45_dup, handle_of
<1>2. g \in Handle /\ jft[cur][g] = JFT_FREE
  <2>1. FreeJft \in SUBSET Nat /\ FreeJft # {}
    BY SizesAssumption DEF FreeJft, Handle, f45_dup
  <2>2. \E x \in FreeJft : \A y \in FreeJft : x <= y
    BY <2>1, NatLeast
  <2> QED BY <2>2 DEF Least, FreeJft
<1>3. jft' = SetEntry(jft, cur, g, s)
  BY DEF f45_dup, SetEntry
<1>4. sft' = Added(sft, more)
  BY <1>1, AddOne DEF f45_dup, Sound
<1> HIDE DEF g
<1>5. /\ Tables(jft') /\ KernelRow(jft') /\ DOMAIN jft' = DOMAIN jft
      /\ \A x \in Slots : N(jft', x) = N(jft, x) + (IF x = s THEN 1 ELSE 0)
  <2>1. Tables(jft) /\ KernelRow(jft)
    BY DEF Sound
  <2>2. jft[cur][g] \notin Slots
    BY <1>2, SlotNumbers
  <2> HIDE DEF s
  <2> QED BY <1>1, <1>2, <1>3, <2>1, <2>2, EntryCounts
<1>6. \A x \in Slots : more[x] \in Nat /\ N(jft', x) = N(jft, x) + more[x]
                        /\ (more[x] # 0 => sft[x].open # 0)
  BY <1>1, <1>5 DEF One
<1> HIDE DEF s, more
<1> QED BY <1>4, <1>5, <1>6, AddedSound

\* 46h, its two halves one after the other: h2 is closed, then it refers to
\* the slot of h, which is still open even if h2 referred to it too.
LEMMA ForceDupSound ==
  ASSUME CountsFit, Sound(sft, jft), Running, NEW h \in Handle, NEW h2 \in Handle, f46_forcedup(h, h2)
  PROVE  Sound(sft, jft)' /\ Narrower(sft, sft') /\ DOMAIN jft' = DOMAIN jft
         /\ \E t : /\ Narrower(sft, t) /\ ClosedFiles(sft, t) = ClosedFiles(sft, sft')
                  /\ locks' = share_file_closed(locks, ClosedFiles(sft, t))
<1> DEFINE s     == jft[cur][h]
           old   == jft[cur][h2]
           k     == SetEntry(jft, cur, h2, JFT_FREE)
           count == One(old)
           freed == IF handle_of(h2) THEN [sft EXCEPT ![old] = sft_release(@, 1)] ELSE sft
           more  == One(s)
<1>1. /\ cur \in DOMAIN jft /\ cur # Kernel /\ s \in Slots /\ h # h2
      /\ sft \in [Slots -> SlotType] /\ jft[cur] \in [Handle -> Slots \cup {JFT_FREE}]
  BY DEF Running, Program, f46_forcedup, handle_of, Sound, Tables
<1>2. /\ sft' = [freed EXCEPT ![s] = AddRefs(@, 1)]
      /\ jft' = [jft EXCEPT ![cur][h2] = s]
      /\ locks' = share_file_closed(locks, ClosedFiles(sft, freed))
  BY DEF f46_forcedup
<1>3. freed = Released(sft, count)
  <2>1. old \in Slots => sft[old].open # 0
    BY <1>1, ReferredOpen
  <2>2. freed = IF old \in Slots THEN [sft EXCEPT ![old] = sft_release(sft[old], 1)] ELSE sft
    BY <2>1 DEF handle_of
  <2> HIDE DEF freed, old
  <2> QED BY <1>1, <2>1, <2>2, ReleaseOne
<1>4. /\ Tables(k) /\ KernelRow(k) /\ DOMAIN k = DOMAIN jft
      /\ \A x \in Slots : N(k, x) \in Nat /\ N(jft, x) = N(k, x) + (IF x = old THEN 1 ELSE 0)
  BY <1>1, EntryCounts DEF Sound
<1>5. Sound(freed, k) /\ Narrower(sft, freed)
  <2>1. \A x \in Slots : count[x] \in Nat /\ N(jft, x) = N(k, x) + count[x]
    BY <1>4 DEF One
  <2> HIDE DEF count, freed, k, old
  <2> QED BY <1>3, <1>4, <2>1, ReleasedSound
<1>6. k[cur][h2] = JFT_FREE /\ k[cur][h] = s
  BY <1>1 DEF SetEntry, Tables
<1>7. jft' = SetEntry(k, cur, h2, s)
  BY <1>1, <1>2 DEF SetEntry, Sound, Tables
<1> HIDE DEF s, old, k, count, freed, more
<1>8. freed[s].open # 0
  BY <1>1, <1>4, <1>5, <1>6, ReferredOpen
<1>9. /\ Tables(jft') /\ KernelRow(jft') /\ DOMAIN jft' = DOMAIN jft
      /\ \A x \in Slots : N(jft', x) = N(k, x) + (IF x = s THEN 1 ELSE 0)
  BY <1>1, <1>4, <1>6, <1>7, SlotNumbers, EntryCounts
<1>10. sft' = Added(freed, more)
  BY <1>1, <1>2, <1>5, AddOne DEF more, Sound
<1>11. /\ Sound(sft', jft') /\ Narrower(freed, sft')
       /\ \A x \in Slots : freed[x].open # 0 => Same(freed[x], sft'[x])
  <2>1. \A x \in Slots : more[x] \in Nat /\ N(jft', x) = N(k, x) + more[x]
                          /\ (more[x] # 0 => freed[x].open # 0)
    BY <1>8, <1>9 DEF more, One
  <2> QED BY <1>5, <1>9, <1>10, <2>1, AddedSound
<1>12. Narrower(sft, sft')
  BY <1>5, <1>11 DEF Narrower, Same
<1>13. ClosedFiles(sft, freed) = ClosedFiles(sft, sft')
  <2>1. \A x \in Slots : freed[x].open = 0 <=> sft'[x].open = 0
    BY <1>11 DEF Narrower, Same
  <2> QED BY <2>1 DEF ClosedFiles
<1> QED BY <1>2, <1>5, <1>9, <1>11, <1>12, <1>13

----------------------------------------------------------------------------
(* EXEC and the end of a process.                                          *)

LEMMA RowCounts ==
  ASSUME NEW row, NEW s \in Slots
  PROVE  RowCount(row)[s] = Cardinality(In(row, s)) /\ RowCount(row)[s] \in Nat
BY InFinite DEF RowCount, In

LEMMA InheritSound ==
  ASSUME CountsFit, Sound(sft, jft), Running, NEW psp \in Psps \ DOMAIN jft, file_jft_inherit(psp, cur)
  PROVE  /\ Sound(sft, jft)' /\ Narrower(sft, sft') /\ DOMAIN jft' = DOMAIN jft \cup {psp}
         /\ \A x \in Slots : sft[x].open # 0 => Same(sft[x], sft'[x])
<1> DEFINE row  == Inherited(jft[cur])
           more == RowCount(row)
<1>1. /\ Tables(jft) /\ KernelRow(jft) /\ psp # Kernel /\ cur \in DOMAIN jft
      /\ jft[cur] \in [Handle -> Slots \cup {JFT_FREE}]
  BY DEF Sound, Tables, Running
<1>2. row \in [Handle -> Slots \cup {JFT_FREE}]
  BY <1>1 DEF Inherited
<1>3. \A h \in Handle : row[h] \in Slots => sft[row[h]].open # 0
  BY <1>1, SlotNumbers DEF Inherited
<1>4. /\ jft' = [p \in DOMAIN jft \cup {psp} |-> IF p = psp THEN row ELSE jft[p]]
      /\ sft' = Added(sft, more)
  BY DEF file_jft_inherit, Added
<1> HIDE DEF row, more
<1>5. /\ Tables(jft') /\ DOMAIN jft' = DOMAIN jft \cup {psp} /\ jft'[psp] = row
      /\ \A q \in DOMAIN jft : jft'[q] = jft[q]
  BY <1>1, <1>2, <1>4 DEF Tables
<1>6. KernelRow(jft')
  BY <1>1, <1>5, KernelRowKept DEF Tables
<1>7. \A s : N(jft', s) = N(jft, s) + Cardinality(In(row, s))
  BY <1>1, <1>5, RowMore
<1>8. ASSUME NEW s \in Slots
      PROVE  /\ more[s] \in Nat /\ N(jft', s) = N(jft, s) + more[s]
             /\ (more[s] # 0 => sft[s].open # 0)
  <2>1. more[s] = Cardinality(In(row, s)) /\ more[s] \in Nat
    BY RowCounts DEF more
  <2>2. more[s] # 0 => In(row, s) # {}
    BY <2>1, FS_EmptySet
  <2>3. In(row, s) # {} => sft[s].open # 0
    BY <1>3 DEF In
  <2> QED BY <1>7, <2>1, <2>2, <2>3
<1> QED BY <1>4, <1>5, <1>6, <1>8, AddedSound

LEMMA TerminateSound ==
  ASSUME CountsFit, Sound(sft, jft), Running, proc_terminate
  PROVE  /\ Sound(sft, jft)' /\ Narrower(sft, sft') /\ DOMAIN jft' = DOMAIN jft \ {cur}
         /\ locks' = share_psp_closed(share_file_closed(locks, ClosedFiles(sft, sft')), cur)
<1> DEFINE count == RowCount(jft[cur])
<1>1. Tables(jft) /\ KernelRow(jft) /\ cur \in DOMAIN jft /\ cur # Kernel
  BY DEF Sound, Running, Program, proc_terminate
<1>2. /\ sft' = Released(sft, count)
      /\ jft' = [p \in DOMAIN jft \ {cur} |-> jft[p]]
      /\ locks' = share_psp_closed(share_file_closed(locks, ClosedFiles(sft, sft')), cur)
  BY DEF proc_terminate, Released
<1> HIDE DEF count
<1>3. /\ Tables(jft') /\ DOMAIN jft' = DOMAIN jft \ {cur}
      /\ \A q \in DOMAIN jft' : jft[q] = jft'[q]
  BY <1>1, <1>2 DEF Tables
<1>4. KernelRow(jft')
  BY <1>1, <1>3, KernelRowKept DEF Tables
<1>5. DOMAIN jft = DOMAIN jft' \cup {cur} /\ cur \notin DOMAIN jft'
  BY <1>1, <1>3
<1>6. \A s : N(jft, s) = N(jft', s) + Cardinality(In(jft[cur], s))
  <2> DEFINE j == jft'
  <2>1. /\ Tables(j) /\ Tables(jft) /\ cur \notin DOMAIN j /\ DOMAIN jft = DOMAIN j \cup {cur}
        /\ \A q \in DOMAIN j : jft[q] = j[q]
    BY <1>1, <1>3, <1>5
  <2> HIDE DEF j
  <2>2. \A s : N(jft, s) = N(j, s) + Cardinality(In(jft[cur], s))
    BY <1>1, <2>1, RowMore
  <2> QED BY <2>2 DEF j
<1>7. \A s \in Slots : count[s] \in Nat /\ N(jft, s) = N(jft', s) + count[s]
  BY <1>6, RowCounts DEF count
<1> QED BY <1>2, <1>3, <1>4, <1>7, ReleasedSound

----------------------------------------------------------------------------
(* Processes.                                                              *)

Waiting == DOMAIN jft \ ({Kernel} \cup resident)

\* A process that is not resident waits for at most one child, and the one
\* that runs for none.
Tree ==
  /\ parent \in [DOMAIN jft \ {Kernel} -> Psps \cup {Kernel}]
  /\ resident \subseteq DOMAIN jft \ {Kernel}
  /\ running \in DOMAIN jft \ resident /\ cur \in DOMAIN jft
  /\ \A p \in Waiting : parent[p] \in DOMAIN jft \ resident /\ parent[p] # running
  /\ \A p, q \in Waiting : p # q => parent[p] # parent[q]

LEMMA TreeKept ==
  ASSUME Tree, UNCHANGED procs, DOMAIN jft' = DOMAIN jft, cur' \in DOMAIN jft
  PROVE  Tree'
BY DEF Tree, procs, Waiting

LEMMA ExecTree ==
  ASSUME Tree, NEW psp \in Psps \ DOMAIN jft, psp # Kernel, DOMAIN jft' = DOMAIN jft \cup {psp},
         cur = running, resident' = resident, running' = psp, cur' = psp, Kernel \in DOMAIN jft,
         DOMAIN jft \subseteq Psps \cup {Kernel},
         parent' = [p \in DOMAIN parent \cup {psp} |-> IF p = psp THEN cur ELSE parent[p]]
  PROVE  Tree'
<1>1. DOMAIN parent = DOMAIN jft \ {Kernel} /\ psp \notin resident
  BY DEF Tree
<1>2. parent'[psp] = running /\ \A p \in DOMAIN jft \ {Kernel} : parent'[p] = parent[p]
  BY <1>1
<1>3. parent' \in [DOMAIN jft' \ {Kernel} -> Psps \cup {Kernel}]
  BY <1>1 DEF Tree
<1>4. Waiting' = Waiting \cup {psp}
  BY <1>1 DEF Waiting
<1>5. \A p \in Waiting' : parent'[p] \in DOMAIN jft' \ resident' /\ parent'[p] # running'
  BY <1>1, <1>2, <1>4 DEF Tree, Waiting
<1>6. \A p, q \in Waiting' : p # q => parent'[p] # parent'[q]
  BY <1>1, <1>2, <1>4 DEF Tree, Waiting
<1> QED BY <1>1, <1>3, <1>5, <1>6 DEF Tree

\* The process that runs ends or becomes resident.
LEMMA EndTree ==
  ASSUME Tree, cur = running, cur # Kernel, running' = parent[cur], cur' = parent[cur],
         \/ /\ DOMAIN jft' = DOMAIN jft \ {cur} /\ resident' = resident
            /\ parent' = [p \in DOMAIN parent \ {cur} |-> parent[p]]
         \/ /\ DOMAIN jft' = DOMAIN jft /\ resident' = resident \cup {cur}
            /\ parent' = parent
  PROVE  Tree'
<1>1. DOMAIN parent = DOMAIN jft \ {Kernel} /\ cur \in Waiting
  BY DEF Tree, Waiting
<1>2. parent[cur] \in DOMAIN jft \ resident /\ parent[cur] # cur
  BY <1>1 DEF Tree
<1>3. Waiting' = Waiting \ {cur}
  BY <1>1 DEF Waiting
<1>4. \A p \in DOMAIN jft' \ {Kernel} : parent'[p] = parent[p]
  BY <1>1
<1>5. parent' \in [DOMAIN jft' \ {Kernel} -> Psps \cup {Kernel}]
  BY <1>1 DEF Tree
<1>6. \A p \in Waiting' : parent'[p] = parent[p] /\ p \in Waiting /\ p # cur
  BY <1>3, <1>4 DEF Waiting
<1>7. \A p \in Waiting' : parent'[p] \in DOMAIN jft' \ resident' /\ parent'[p] # running'
  BY <1>1, <1>6 DEF Tree
<1>8. \A p, q \in Waiting' : p # q => parent'[p] # parent'[q]
  BY <1>6 DEF Tree
<1>9. /\ resident' \subseteq DOMAIN jft' \ {Kernel}
      /\ running' \in DOMAIN jft' \ resident' /\ cur' \in DOMAIN jft'
  BY <1>1, <1>2 DEF Tree
<1> QED BY <1>5, <1>7, <1>8, <1>9 DEF Tree

----------------------------------------------------------------------------
(* Locks.                                                                  *)

\* No region reaches the end of what 32 bits address.
NoWrap == \A r \in Regions : r[1] + r[2] < Word

LockType == {NoLock} \cup [used : {TRUE}, file : Files, psp : Psps, start : Nat, len : Nat]

LocksTyped == locks \in [LockSlots -> LockType]

Short == \A i \in LockSlots : locks[i].used => locks[i].start + locks[i].len < Word

Disjoint ==
  \A i, j \in LockSlots :
    i # j /\ locks[i].used /\ locks[j].used /\ locks[i].file = locks[j].file
    => Bytes(locks[i]) \cap Bytes(locks[j]) = {}

Reasons ==
  \A i \in LockSlots : locks[i].used =>
    /\ \E s \in Slots : IsOpenFile(s, locks[i].file)
    /\ locks[i].psp \in DOMAIN jft

Locked == LocksTyped /\ Reasons /\ (NoWrap => Short /\ Disjoint)

\* What stays open stays the same.
Steady == \A s \in Slots : sft[s].open # 0 /\ sft'[s].open # 0 => Same(sft[s], sft'[s])

LEMMA LockKinds ==
  ASSUME NEW l \in LockType
  PROVE  /\ l.used \in BOOLEAN /\ (~l.used => l = NoLock)
         /\ l.used => l.file \in Files /\ l.psp \in Psps /\ l.start \in Nat /\ l.len \in Nat
<1>1. CASE l = NoLock
  BY <1>1 DEF NoLock
<1>2. CASE l \in [used : {TRUE}, file : Files, psp : Psps, start : Nat, len : Nat]
  BY <1>2
<1> QED BY <1>1, <1>2 DEF LockType

\* The table loses locks: those of files that are closed, and those of a
\* process that ends, among them.
LEMMA LocksShrink ==
  ASSUME Locked, Steady, locks' \in [LockSlots -> LockType],
         \A i \in LockSlots : locks'[i] = NoLock \/
           /\ locks'[i] = locks[i]
           /\ locks[i].used => locks[i].file \notin ClosedFiles(sft, sft')
                               /\ locks[i].psp \in DOMAIN jft'
  PROVE  Locked'
<1>1. ~NoLock.used
  BY DEF NoLock
<1>2. \A i \in LockSlots : locks'[i].used =>
        /\ locks'[i] = locks[i] /\ locks[i].used
        /\ locks[i].file \notin ClosedFiles(sft, sft') /\ locks[i].psp \in DOMAIN jft'
  BY <1>1
<1>3. LocksTyped'
  BY <1>2 DEF Locked, LocksTyped
<1>4. NoWrap => Short' /\ Disjoint'
  BY <1>2 DEF Locked, Short, Disjoint, Bytes
<1>5. Reasons'
  <2> SUFFICES ASSUME NEW i \in LockSlots, locks'[i].used
               PROVE  /\ \E s \in Slots : IsOpenFile(s, locks[i].file)'
                      /\ locks'[i].psp \in DOMAIN jft'
    BY DEF Reasons
  <2>1. PICK s \in Slots : IsOpenFile(s, locks[i].file)
    BY <1>2 DEF Locked, Reasons
  <2>2. sft'[s].open # 0
    BY <1>2, <2>1 DEF ClosedFiles, IsOpenFile
  <2>3. Same(sft[s], sft'[s])
    BY <2>1, <2>2 DEF Steady, IsOpenFile
  <2> QED BY <1>2, <2>1, <2>2, <2>3 DEF IsOpenFile, Same
<1> QED BY <1>3, <1>4, <1>5 DEF Locked

LEMMA FileClosedLocks ==
  ASSUME Locked, Steady, DOMAIN jft \subseteq DOMAIN jft', NEW files,
         ClosedFiles(sft, sft') \subseteq files, locks' = share_file_closed(locks, files)
  PROVE  Locked'
<1>1. NoLock \in LockType
  BY DEF LockType
<1>2. \A i \in LockSlots :
        locks'[i] = IF locks[i].used /\ locks[i].file \in files THEN NoLock ELSE locks[i]
  BY DEF share_file_closed
<1>3. locks' \in [LockSlots -> LockType]
  BY <1>1 DEF share_file_closed, Locked, LocksTyped
<1>4. \A i \in LockSlots : locks'[i] = NoLock \/
        /\ locks'[i] = locks[i]
        /\ locks[i].used => locks[i].file \notin ClosedFiles(sft, sft')
                            /\ locks[i].psp \in DOMAIN jft'
  BY <1>2 DEF Locked, Reasons
<1> QED BY <1>3, <1>4, LocksShrink

LEMMA ProcessClosedLocks ==
  ASSUME Locked, Steady, NEW psp, DOMAIN jft' = DOMAIN jft \ {psp},
         locks' = share_psp_closed(share_file_closed(locks, ClosedFiles(sft, sft')), psp)
  PROVE  Locked'
<1> DEFINE files == ClosedFiles(sft, sft')
           t == share_file_closed(locks, files)
<1>1. NoLock \in LockType /\ ~NoLock.used
  BY DEF LockType, NoLock
<1>2. \A i \in LockSlots : t[i] = IF locks[i].used /\ locks[i].file \in files THEN NoLock ELSE locks[i]
  BY DEF share_file_closed
<1>3. t \in [LockSlots -> LockType]
  BY <1>1 DEF share_file_closed, Locked, LocksTyped
<1> HIDE DEF t, files
<1>4. locks' = [i \in LockSlots |-> IF t[i].used /\ t[i].psp = psp THEN NoLock ELSE t[i]]
  BY DEF share_psp_closed, t, files
<1>5. locks' \in [LockSlots -> LockType]
  BY <1>1, <1>3, <1>4
<1>6. \A i \in LockSlots : locks'[i] = NoLock \/
        /\ locks'[i] = locks[i]
        /\ locks[i].used => locks[i].file \notin ClosedFiles(sft, sft')
                            /\ locks[i].psp \in DOMAIN jft'
  BY <1>2, <1>4 DEF Locked, Reasons, files
<1> QED BY <1>5, <1>6, LocksShrink

LEMMA UnlockLocks ==
  ASSUME Locked, UNCHANGED <<sft, jft>>, NEW h \in Handle, NEW start, NEW len,
         f5c_unlock(h, start, len)
  PROVE  Locked'
<1>1. PICK i : locks' = [locks EXCEPT ![i] = NoLock]
  BY DEF f5c_unlock, share_unlock
<1>2. NoLock \in LockType
  BY DEF LockType
<1>3. locks' \in [LockSlots -> LockType]
  BY <1>1, <1>2 DEF Locked, LocksTyped
<1>4. \A j \in LockSlots : locks'[j] = NoLock \/ locks'[j] = locks[j]
  BY <1>1 DEF Locked, LocksTyped
<1>5. ClosedFiles(sft, sft') = {} /\ Steady
  BY DEF ClosedFiles, Steady, Same
<1> QED BY <1>3, <1>4, <1>5, LocksShrink DEF Locked, Reasons

\* A lock that is granted overlaps none: the test is right where the sums do
\* not wrap.
LEMMA LockLocks ==
  ASSUME Locked, UNCHANGED <<sft, jft>>, cur \in DOMAIN jft, DOMAIN jft \subseteq Psps \cup {Kernel},
         sft \in [Slots -> SlotType],
         NEW h \in Handle, NEW start \in 0..Word - 1, NEW len \in 0..Word - 1,
         NoWrap => start + len < Word, f5c_lock(h, start, len)
  PROVE  Locked'
<1> DEFINE s    == jft[cur][h]
           file == sft[s].file
           l    == Lock(file, cur, start, len)
           i    == LastFree(locks)
<1>1. /\ s \in Slots /\ sft[s].open # 0 /\ sft[s].dev = DEV_FILE /\ cur \in Psps
      /\ LockGranted(locks, file, start, len)
      /\ locks' = share_lock(locks, file, cur, start, len)
  BY DEF f5c_lock, handle_of, Program
<1>2. IsOpenFile(s, file) /\ file \in Files
  BY <1>1, SlotKinds DEF IsOpenFile
<1> HIDE DEF s, file
<1>3. CASE len = 0
  <2>1. locks' = locks
    BY <1>1, <1>3 DEF share_lock
  <2> QED BY <2>1 DEF Locked, LocksTyped, Short, Disjoint, Reasons, Bytes, IsOpenFile
<1>4. CASE len # 0
  <2>1. ~LockConflict(locks, file, start, len) /\ FreeLocks(locks) # {}
    BY <1>1, <1>4 DEF LockGranted
  <2>2. i \in LockSlots /\ ~locks[i].used
    <3>1. MaxLocks \in Nat \ {0} /\ FreeLocks(locks) \in SUBSET Nat
          /\ MaxLocks - 1 \in Nat /\ \A x \in FreeLocks(locks) : x <= MaxLocks - 1
      BY MaxLocksAssumption DEF FreeLocks, LockSlots
    <3>2. \E x \in FreeLocks(locks) : \A y \in FreeLocks(locks) : y <= x
      BY <2>1, <3>1, NatGreatest
    <3> QED BY <3>2 DEF LastFree, FreeLocks
  <2>3. locks' = [locks EXCEPT ![i] = l]
    BY <1>1, <1>4 DEF share_lock
  <2>4. /\ l \in LockType /\ l.used /\ l.file = file /\ l.psp = cur /\ l.start = start /\ l.len = len
        /\ Bytes(l) = start..(start + len - 1)
    BY <1>1, <1>2 DEF Lock, LockType, Bytes
  <2> HIDE DEF i, l
  <2>5. locks'[i] = l /\ \A j \in LockSlots \ {i} : locks'[j] = locks[j]
    BY <2>2, <2>3 DEF Locked, LocksTyped
  <2>6. LocksTyped'
    BY <2>2, <2>3, <2>4, <2>5 DEF Locked, LocksTyped
  <2>7. ASSUME NoWrap, NEW j \in LockSlots, j # i, locks[j].used, locks[j].file = file
        PROVE  Bytes(locks[j]) \cap Bytes(l) = {}
    <3>1. ~ranges_overlap(locks[j].start, locks[j].len, start, len)
      BY <2>1, <2>7 DEF LockConflict, same_file
    <3>2. locks[j].start \in Nat /\ locks[j].len \in Nat /\ locks[j].start + locks[j].len < Word
      BY <2>7, LockKinds DEF Locked, LocksTyped, Short
    <3>3. /\ (start + len) % Word = start + len
          /\ (locks[j].start + locks[j].len) % Word = locks[j].start + locks[j].len
      BY <2>7, <3>2, WordAssumption
    <3>4. ~(locks[j].start < start + len /\ start < locks[j].start + locks[j].len)
      BY <3>1, <3>3 DEF ranges_overlap
    <3> QED BY <2>4, <3>2, <3>4 DEF Bytes
  <2>8. NoWrap => Short' /\ Disjoint'
    <3> SUFFICES ASSUME NoWrap PROVE Short' /\ Disjoint'
      OBVIOUS
    <3> Short'
      BY <2>4, <2>5 DEF Locked, Short
    <3> SUFFICES ASSUME NEW a \in LockSlots, NEW b \in LockSlots, a # b,
                        locks'[a].used, locks'[b].used, locks'[a].file = locks'[b].file
                 PROVE  Bytes(locks'[a]) \cap Bytes(locks'[b]) = {}
      BY DEF Disjoint, Bytes
    <3>1. CASE a # i /\ b # i
      BY <2>5, <3>1 DEF Locked, Disjoint
    <3>2. CASE a = i
      <4>1. Bytes(locks[b]) \cap Bytes(l) = {}
        BY <2>4, <2>5, <2>7, <3>2
      <4> QED BY <2>5, <3>2, <4>1
    <3>3. CASE b = i
      <4>1. Bytes(locks[a]) \cap Bytes(l) = {}
        BY <2>4, <2>5, <2>7, <3>3
      <4> QED BY <2>5, <3>3, <4>1
    <3> QED BY <3>1, <3>2, <3>3
  <2>9. Reasons'
    <3> SUFFICES ASSUME NEW j \in LockSlots, locks'[j].used
                 PROVE  /\ \E x \in Slots : IsOpenFile(x, locks'[j].file)
                        /\ locks'[j].psp \in DOMAIN jft
      BY DEF Reasons, IsOpenFile
    <3>1. CASE j = i
      BY <1>1, <1>2, <2>4, <2>5, <3>1
    <3>2. CASE j # i
      BY <2>5, <3>2 DEF Locked, Reasons
    <3> QED BY <3>1, <3>2
  <2> QED BY <2>6, <2>8, <2>9 DEF Locked
<1> QED BY <1>3, <1>4

----------------------------------------------------------------------------
(* All steps.                                                              *)

IInv == Sound(sft, jft) /\ Shared(sft) /\ Tree /\ Locked

LEMMA NarrowSteady ==
  ASSUME Narrower(sft, sft')
  PROVE  Steady
BY DEF Narrower, Steady

\* What is open in a table that only gained references was and is the same.
LEMMA NoneClosed0 ==
  ASSUME \A x \in Slots : sft[x].open # 0 => Same(sft[x], sft'[x])
  PROVE  ClosedFiles(sft, sft') = {} /\ Steady
BY DEF ClosedFiles, Steady, Same

LEMMA SameItself == ASSUME NEW e, e.open # 0 PROVE Same(e, e)
BY DEF Same

LEMMA UnchangedLocks ==
  ASSUME Locked, locks' = locks, DOMAIN jft \subseteq DOMAIN jft',
         \A x \in Slots : sft[x].open # 0 => Same(sft[x], sft'[x])
  PROVE  Locked'
<1>1. ClosedFiles(sft, sft') = {} /\ Steady
  BY NoneClosed0
<1> QED BY <1>1, LocksShrink DEF Locked, LocksTyped, Reasons

LEMMA InitInv == CountsFit /\ file_init => IInv
<1> SUFFICES ASSUME CountsFit, file_init PROVE IInv
  OBVIOUS
<1>1. DOMAIN jft = {Kernel} /\ \A s : N(jft, s) = 0
  <2>1. DOMAIN jft = {Kernel}
    BY DEF file_init
  <2>2. \A s : Of(jft, s) = {}
    BY <2>1 DEF Of
  <2> QED BY <2>1, <2>2, FS_EmptySet DEF N
<1>2. Tables(jft) /\ KernelRow(jft)
  <2>1. jft = [p \in {Kernel} |-> [h \in Handle |-> CASE h < 3 -> 0 [] h = 3 -> 1 [] h = 4 -> 2
                                                      [] OTHER -> JFT_FREE]]
    BY DEF file_init
  <2>2. \A h \in Handle : jft[Kernel][h] \in {0, 1, 2, JFT_FREE}
    BY <2>1, SizesAssumption DEF Handle
  <2>3. jft[Kernel] \in [Handle -> {0, 1, 2, JFT_FREE}]
    BY <2>1, <2>2
  <2>4. jft \in [{Kernel} -> [Handle -> Slots \cup {JFT_FREE}]]
    BY <2>1, <2>3, SlotNumbers
  <2> QED BY <1>1, <2>2, <2>4 DEF Tables, KernelRow
<1>3. ASSUME NEW s \in Slots
      PROVE  /\ sft[s] \in SlotType
             /\ s <= 2 => sft[s].dev = Boot(s) /\ sft[s].open = 1
             /\ s > 2 => sft[s] = FreeSlot
  <2>1. Mode(0, 0) \in Modes
    BY DEF Mode, Modes
  <2>2. \A d \in {CON, AUX, NUL} : /\ DevSlot(d, Mode(0, 0)) \in SlotType
                                   /\ DevSlot(d, Mode(0, 0)).dev = d
                                   /\ DevSlot(d, Mode(0, 0)).open = 1
    BY <2>1, DevSlotType
  <2>3. sft[s] = IF s = 0 THEN DevSlot(CON, Mode(0, 0)) ELSE IF s = 1 THEN DevSlot(AUX, Mode(0, 0))
                 ELSE IF s = 2 THEN DevSlot(NUL, Mode(0, 0)) ELSE FreeSlot
    BY DEF file_init
  <2>4. s \in Nat /\ FreeSlot \in SlotType
    BY SlotNumbers DEF SlotType
  <2> QED BY <2>2, <2>3, <2>4 DEF Boot
<1>4. Sound(sft, jft)
  <2>1. sft \in [Slots -> SlotType]
    BY <1>3 DEF file_init
  <2>2. FreeSlot.open = 0
    BY DEF FreeSlot
  <2>3. Counted(sft, jft)
    BY <1>1, <1>3, <2>2 DEF Counted
  <2> QED BY <1>2, <2>1, <2>3 DEF Sound
<1>5. Shared(sft)
  BY <1>3, SlotNumbers DEF Shared, FreeSlot
<1>6. Tree
  <2>1. parent = [p \in {} |-> Kernel] /\ resident = {} /\ running = Kernel /\ cur = Kernel
    BY DEF file_init
  <2>2. Waiting = {}
    BY <1>1 DEF Waiting
  <2> QED BY <1>1, <2>1, <2>2 DEF Tree
<1>7. Locked
  <2>1. NoLock \in LockType /\ ~NoLock.used
    BY DEF LockType, NoLock
  <2>2. locks \in [LockSlots -> LockType] /\ \A i \in LockSlots : locks[i] = NoLock
    BY <2>1 DEF file_init
  <2> QED BY <2>1, <2>2 DEF Locked, LocksTyped, Short, Disjoint, Reasons
<1> QED BY <1>4, <1>5, <1>6, <1>7 DEF IInv

LEMMA NextInv == CountsFit /\ IInv /\ [Next]_vars => IInv'
<1> SUFFICES ASSUME CountsFit, IInv, [Next]_vars PROVE IInv'
  OBVIOUS
<1>1. /\ Sound(sft, jft) /\ Shared(sft) /\ Tree /\ Locked /\ Running
      /\ sft \in [Slots -> SlotType] /\ DOMAIN jft \subseteq Psps \cup {Kernel} /\ Kernel \in DOMAIN jft
  BY DEF IInv, Running, Tree, Sound, Tables
<1>2. UserH \subseteq Handle
  BY InputsAssumption DEF Handle
<1>3. CASE \/ \E f \in Files, m \in OpenModes : f3d_open(f, m)
           \/ \E d \in Devices : OpenDevice(d, Mode(0, 2))
           \/ \E f \in Files : f3c_create(f)
  <2>1. UNCHANGED <<locks, procs, cur>>
    BY <1>3 DEF f3d_open, OpenDevice, f3c_create
  <2>2. /\ Sound(sft, jft)' /\ Shared(sft') /\ DOMAIN jft' = DOMAIN jft
        /\ \A x \in Slots : sft[x].open # 0 => sft'[x] = sft[x]
    BY <1>1, <1>3, OpensSound
  <2>3. \A x \in Slots : sft[x].open # 0 => Same(sft[x], sft'[x])
    BY <2>2, SameItself
  <2>4. Locked'
    BY <1>1, <2>1, <2>2, <2>3, UnchangedLocks
  <2> QED BY <1>1, <2>1, <2>2, <2>4, TreeKept DEF IInv, Tree
<1>4. ASSUME NEW h \in UserH, f3e_close(h) PROVE IInv'
  <2>1. UNCHANGED <<procs, cur>> /\ locks' = share_file_closed(locks, ClosedFiles(sft, sft'))
    BY <1>4, ReleasesAll DEF f3e_close
  <2>2. Sound(sft, jft)' /\ Narrower(sft, sft') /\ DOMAIN jft' = DOMAIN jft
    BY <1>1, <1>2, <1>4, CloseSound
  <2>3. Locked'
    BY <1>1, <2>1, <2>2, NarrowSteady, FileClosedLocks
  <2> QED BY <1>1, <2>1, <2>2, <2>3, NarrowShared, TreeKept DEF IInv, Tree
<1>5. ASSUME NEW h \in UserH, f45_dup(h) PROVE IInv'
  <2>1. UNCHANGED <<locks, procs, cur>>
    BY <1>5 DEF f45_dup
  <2>2. /\ Sound(sft, jft)' /\ Narrower(sft, sft') /\ DOMAIN jft' = DOMAIN jft
        /\ \A x \in Slots : sft[x].open # 0 => Same(sft[x], sft'[x])
    BY <1>1, <1>2, <1>5, DupSound
  <2>3. Locked'
    BY <1>1, <2>1, <2>2, UnchangedLocks
  <2> QED BY <1>1, <2>1, <2>2, <2>3, NarrowShared, TreeKept DEF IInv, Tree
<1>6. ASSUME NEW h \in UserH, NEW h2 \in UserH, f46_forcedup(h, h2) PROVE IInv'
  <2>1. UNCHANGED <<procs, cur>>
    BY <1>6 DEF f46_forcedup
  <2>2. /\ Sound(sft, jft)' /\ Narrower(sft, sft') /\ DOMAIN jft' = DOMAIN jft
        /\ locks' = share_file_closed(locks, ClosedFiles(sft, sft'))
    BY <1>1, <1>2, <1>6, ForceDupSound
  <2>3. Locked'
    BY <1>1, <2>2, NarrowSteady, FileClosedLocks
  <2> QED BY <1>1, <2>1, <2>2, <2>3, NarrowShared, TreeKept DEF IInv, Tree
<1>7. ASSUME NEW h \in UserH, NEW r \in Regions,
             f5c_lock(h, r[1], r[2]) \/ f5c_unlock(h, r[1], r[2])
      PROVE  IInv'
  <2>1. UNCHANGED <<sft, jft, procs, cur>>
    BY <1>7 DEF f5c_lock, f5c_unlock
  <2>2. r[1] \in 0..Word - 1 /\ r[2] \in 0..Word - 1 /\ (NoWrap => r[1] + r[2] < Word)
    BY InputsAssumption DEF NoWrap
  <2>3. Locked'
    BY <1>1, <1>2, <1>7, <2>1, <2>2, LockLocks, UnlockLocks DEF Running
  <2> QED BY <1>1, <2>1, <2>3, TreeKept DEF IInv, Tree
<1>8. ASSUME NEW prog \in Files, NEW psp \in Psps, f4b_exec(prog, psp) PROVE IInv'
  <2>1. /\ psp \in Psps \ DOMAIN jft /\ file_jft_inherit(psp, cur) /\ cur = running
        /\ locks' = share_file_closed(locks, {prog}) /\ resident' = resident
        /\ running' = psp /\ cur' = psp
        /\ parent' = [p \in DOMAIN parent \cup {psp} |-> IF p = psp THEN cur ELSE parent[p]]
    BY <1>8 DEF f4b_exec, LocksAfterLoad
  <2>2. /\ Sound(sft, jft)' /\ Narrower(sft, sft') /\ DOMAIN jft' = DOMAIN jft \cup {psp}
        /\ \A x \in Slots : sft[x].open # 0 => Same(sft[x], sft'[x])
    BY <1>1, <2>1, InheritSound
  <2>3. Locked'
    BY <1>1, <2>1, <2>2, NoneClosed0, FileClosedLocks
  <2>4. Tree'
    BY <1>1, <2>1, <2>2, ExecTree
  <2> QED BY <1>1, <2>2, <2>3, <2>4, NarrowShared DEF IInv
<1>9. ASSUME NEW prog \in Files, f4b_exec_fails(prog) PROVE IInv'
  <2>1. UNCHANGED <<sft, jft, procs, cur>> /\ locks' = share_file_closed(locks, {prog})
    BY <1>9 DEF f4b_exec_fails, LocksAfterLoad
  <2>2. \A x \in Slots : sft[x].open # 0 => Same(sft[x], sft'[x])
    BY <2>1, SameItself
  <2>3. Locked'
    BY <1>1, <2>1, <2>2, NoneClosed0, FileClosedLocks
  <2> QED BY <1>1, <2>1, <2>3, TreeKept DEF IInv, Tree
<1>10. CASE proc_terminate
  <2>1. /\ cur # Kernel /\ cur = running /\ running' = parent[cur] /\ cur' = parent[cur]
        /\ resident' = resident /\ parent' = [p \in DOMAIN parent \ {cur} |-> parent[p]]
    BY <1>10 DEF proc_terminate, Program
  <2>2. /\ Sound(sft, jft)' /\ Narrower(sft, sft') /\ DOMAIN jft' = DOMAIN jft \ {cur}
        /\ locks' = share_psp_closed(share_file_closed(locks, ClosedFiles(sft, sft')), cur)
    BY <1>1, <1>10, TerminateSound
  <2>3. Locked'
    BY <1>1, <2>2, NarrowSteady, ProcessClosedLocks
  <2>4. Tree'
    BY <1>1, <2>1, <2>2, EndTree
  <2> QED BY <1>1, <2>2, <2>3, <2>4, NarrowShared DEF IInv
<1>11. CASE f31_tsr
  <2>1. /\ cur # Kernel /\ cur = running /\ running' = parent[cur] /\ cur' = parent[cur]
        /\ resident' = resident \cup {cur} /\ parent' = parent /\ UNCHANGED <<sft, jft, locks>>
    BY <1>11 DEF f31_tsr, Program, tables
  <2>2. Locked'
    BY <1>1, <2>1, SameItself, UnchangedLocks
  <2>3. Tree'
    BY <1>1, <2>1, EndTree
  <2> QED BY <1>1, <2>1, <2>2, <2>3 DEF IInv
<1>12. ASSUME NEW psp \in Psps, f50_setpsp(psp) PROVE IInv'
  <2>1. UNCHANGED <<sft, jft, locks, procs>> /\ cur' \in DOMAIN jft
    BY <1>1, <1>12 DEF f50_setpsp, tables, Tree
  <2>2. Locked'
    BY <1>1, <2>1, SameItself, UnchangedLocks
  <2> QED BY <1>1, <2>1, <2>2, TreeKept DEF IInv
<1>13. CASE UNCHANGED vars
  <2>1. UNCHANGED <<sft, jft, locks, procs, cur>>
    BY <1>13 DEF vars, procs
  <2>2. Locked'
    BY <1>1, <2>1, SameItself, UnchangedLocks
  <2> QED BY <1>1, <2>1, <2>2, TreeKept DEF IInv, Tree
<1> QED BY <1>3, <1>4, <1>5, <1>6, <1>7, <1>8, <1>9, <1>10, <1>11, <1>12, <1>13 DEF Next

LEMMA InvRefcount == CountsFit /\ IInv => RefcountExact
<1> SUFFICES ASSUME CountsFit, IInv PROVE RefcountExact
  OBVIOUS
<1>1. /\ Sound(sft, jft) /\ Tree /\ LocksTyped /\ Tables(jft) /\ KernelRow(jft)
      /\ sft \in [Slots -> SlotType]
  BY DEF IInv, Locked, Sound
<1>2. TypeOK
  <2>1. \A i \in LockSlots : locks[i] = NoLock \/ (locks[i].file \in Files /\ locks[i].psp \in Psps)
    BY <1>1, LockKinds DEF LocksTyped
  <2>2. \A p \in DOMAIN parent \ resident : parent[p] \in DOMAIN jft \ resident
    BY <1>1 DEF Tree, Waiting
  <2> QED BY <1>1, <2>1, <2>2 DEF TypeOK, Tree, Tables
<1>3. \A s : {r \in Refs(s) : r[1] # Kernel} = Of(jft, s)
  BY DEF Refs, Of
<1>4. BootDevicesStay
  <2> SUFFICES ASSUME NEW s \in 0..2
               PROVE  /\ sft[s].dev = CASE s = 0 -> CON [] s = 1 -> AUX [] s = 2 -> NUL
                      /\ sft[s].open = 1 + Cardinality({r \in Refs(s) : r[1] # Kernel})
    BY DEF BootDevicesStay
  <2>1. s \in Slots /\ s <= 2 /\ s \in {0, 1, 2}
    BY SlotNumbers
  <2>2. sft[s].dev = Boot(s) /\ sft[s].open = 1 + N(jft, s)
    BY <1>1, <2>1 DEF Sound, Counted
  <2>3. sft[s].dev = CASE s = 0 -> CON [] s = 1 -> AUX [] s = 2 -> NUL
    <3>1. CASE s = 0
      BY <2>2, <3>1 DEF Boot
    <3>2. CASE s = 1
      BY <2>2, <3>2 DEF Boot
    <3>3. CASE s = 2
      BY <2>2, <3>3 DEF Boot
    <3> QED BY <2>1, <3>1, <3>2, <3>3
  <2> QED BY <1>3, <2>2, <2>3 DEF N
<1>5. ASSUME NEW s \in Slots, sft[s].open = 0 \/ sft[s].dev = DEV_FILE
      PROVE  sft[s].open = Cardinality(Refs(s))
  <2>1. sft[s].dev = DEV_FILE
    BY <1>1, <1>5, SlotKinds
  <2>2. ~(s <= 2) /\ s > 2
    BY <1>1, <2>1, SlotNumbers DEF Sound, Counted
  <2>3. Refs(s) = Of(jft, s)
    <3>1. \A h \in Handle : jft[Kernel][h] # s
      BY <1>1, <2>2, SlotNumbers DEF KernelRow
    <3> QED BY <3>1 DEF Refs, Of
  <2> QED BY <1>1, <2>1, <2>2, <2>3 DEF Sound, Counted, N
<1> QED BY <1>2, <1>4, <1>5 DEF RefcountExact

\* The count of a file's slot is the number of handles that refer to it, over
\* all processes, and boot devices are never released, as long as no count
\* can reach 0xFF.
THEOREM CountsExact == ASSUME CountsFit PROVE Spec => []RefcountExact
<1>1. file_init => IInv
  BY InitInv
<1>2. IInv /\ [Next]_vars => IInv'
  BY NextInv
<1>3. IInv => RefcountExact
  BY InvRefcount
<1> QED BY <1>1, <1>2, <1>3, PTL DEF Spec

\* No two open-file entries for one file but by the leave of both modes.
THEOREM ModesRespected == ASSUME CountsFit PROVE Spec => []SharingHolds
<1>1. file_init => IInv
  BY InitInv
<1>2. IInv /\ [Next]_vars => IInv'
  BY NextInv
<1>3. IInv => SharingHolds
  BY DEF IInv, Shared, SharingHolds
<1> QED BY <1>1, <1>2, <1>3, PTL DEF Spec

\* Locked regions of one file are disjoint, and no lock outlives the entries
\* of its file or its owner, where no region reaches the end of 32 bits.
THEOREM LocksOwned == ASSUME CountsFit, NoWrap PROVE Spec => []LocksSound
<1>1. file_init => IInv
  BY InitInv
<1>2. IInv /\ [Next]_vars => IInv'
  BY NextInv
<1>3. IInv => LocksSound
  BY DEF IInv, Locked, Disjoint, Reasons, LocksSound
<1> QED BY <1>1, <1>2, <1>3, PTL DEF Spec

----------------------------------------------------------------------------
(* What a step leaves alone.                                               *)

LEMMA NextSteady ==
  ASSUME CountsFit, IInv, [Next]_vars
  PROVE  Steady
<1>1. Sound(sft, jft) /\ Shared(sft) /\ Running /\ UserH \subseteq Handle
  BY InputsAssumption DEF IInv, Running, Tree, Handle
<1>2. ASSUME \/ \E f \in Files, m \in OpenModes : f3d_open(f, m)
             \/ \E d \in Devices : OpenDevice(d, Mode(0, 2))
             \/ \E f \in Files : f3c_create(f)
      PROVE  Steady
  <2>1. \A x \in Slots : sft[x].open # 0 => sft'[x] = sft[x]
    BY <1>1, <1>2, OpensSound
  <2> QED BY <2>1, SameItself DEF Steady
<1>3. ASSUME NEW h \in UserH, f3e_close(h) \/ f45_dup(h) PROVE Steady
  BY <1>1, <1>3, CloseSound, DupSound, NarrowSteady
<1>4. ASSUME NEW h \in UserH, NEW h2 \in UserH, f46_forcedup(h, h2) PROVE Steady
  BY <1>1, <1>4, ForceDupSound, NarrowSteady
<1>5. ASSUME NEW prog \in Files, NEW psp \in Psps, f4b_exec(prog, psp) PROVE Steady
  <2>1. psp \in Psps \ DOMAIN jft /\ file_jft_inherit(psp, cur)
    BY <1>5 DEF f4b_exec
  <2> QED BY <1>1, <2>1, InheritSound, NarrowSteady
<1>6. CASE proc_terminate
  BY <1>1, <1>6, TerminateSound, NarrowSteady
<1>7. CASE UNCHANGED sft
  BY <1>7, SameItself DEF Steady
<1>8. \/ \E h \in UserH, r \in Regions : f5c_lock(h, r[1], r[2]) \/ f5c_unlock(h, r[1], r[2])
      \/ \E prog \in Files : f4b_exec_fails(prog)
      \/ f31_tsr \/ (\E psp \in Psps : f50_setpsp(psp)) \/ UNCHANGED vars
      => UNCHANGED sft
  BY DEF f5c_lock, f5c_unlock, f4b_exec_fails, f31_tsr, f50_setpsp, tables, vars
<1> QED BY <1>2, <1>3, <1>4, <1>5, <1>6, <1>7, <1>8 DEF Next

LEMMA NextRows ==
  ASSUME CountsFit, IInv, [Next]_vars, NEW p \in DOMAIN jft, p # cur, p \in DOMAIN jft'
  PROVE  jft'[p] = jft[p]
<1>1. Tables(jft)
  BY DEF IInv, Sound
<1>2. CASE \E h, t : jft' = [jft EXCEPT ![cur][h] = t]
  BY <1>1, <1>2 DEF Tables
<1>3. CASE \E h \in UserH : f3e_close(h) \/ f45_dup(h) \/ \E h2 \in UserH : f46_forcedup(h, h2)
  BY <1>2, <1>3 DEF f3e_close, f45_dup, f46_forcedup
<1>4. CASE \/ \E f \in Files, m \in OpenModes : f3d_open(f, m)
           \/ \E d \in Devices : OpenDevice(d, Mode(0, 2))
           \/ \E f \in Files : f3c_create(f)
  BY <1>2, <1>4 DEF f3d_open, OpenDevice, f3c_create, handle_alloc
<1>5. CASE \E prog \in Files, psp \in Psps : f4b_exec(prog, psp)
  BY <1>5 DEF f4b_exec, file_jft_inherit
<1>6. CASE proc_terminate
  BY <1>6 DEF proc_terminate
<1>7. CASE \/ \E h \in UserH, r \in Regions : f5c_lock(h, r[1], r[2]) \/ f5c_unlock(h, r[1], r[2])
           \/ \E prog \in Files : f4b_exec_fails(prog)
           \/ f31_tsr \/ (\E psp \in Psps : f50_setpsp(psp)) \/ UNCHANGED vars
  BY <1>7 DEF f5c_lock, f5c_unlock, f4b_exec_fails, f31_tsr, f50_setpsp, tables, vars
<1> QED BY <1>3, <1>4, <1>5, <1>6, <1>7 DEF Next

LEMMA SameBut ==
  ASSUME NEW e \in SlotType, NEW f \in SlotType, Same(e, f)
  PROVE  [f EXCEPT !.open = 0] = [e EXCEPT !.open = 0]
<1>1. e # FreeSlot /\ f # FreeSlot
  BY DEF Same, FreeSlot
<1>2. DEV_FILE \notin Devices \cup {CON, AUX, NUL}
  BY InputsAssumption DEF DEV_FILE, CON, AUX, NUL
<1>3. CASE e.dev = DEV_FILE
  <2>1. /\ e \in [open : 1..RefMax, dev : {DEV_FILE}, file : Files, mode : Modes]
        /\ f \in [open : 1..RefMax, dev : {DEV_FILE}, file : Files, mode : Modes]
    BY <1>1, <1>2, <1>3 DEF Same, SlotType
  <2> QED BY <1>3, <2>1 DEF Same
<1>4. CASE e.dev # DEV_FILE
  <2>1. /\ e \in [open : 1..RefMax, dev : Devices \cup {CON, AUX, NUL}, mode : Modes]
        /\ f \in [open : 1..RefMax, dev : Devices \cup {CON, AUX, NUL}, mode : Modes]
    BY <1>1, <1>2, <1>4 DEF Same, SlotType
  <2> QED BY <2>1 DEF Same
<1> QED BY <1>3, <1>4

\* Whatever a process does, EXEC and termination included, the handles of the
\* others refer to the slots they referred to, open on the same files.
THEOREM OthersKept == ASSUME CountsFit PROVE Spec => HandlesSurvive
<1>1. file_init => IInv
  BY InitInv
<1>2. IInv /\ [Next]_vars => IInv'
  BY NextInv
<1>3. IInv /\ IInv' /\ [Next]_vars => OthersUndisturbed
  <2> SUFFICES ASSUME IInv, IInv', [Next]_vars, NEW p \in DOMAIN jft \ {cur}, p \in DOMAIN jft'
               PROVE  /\ jft'[p] = jft[p]
                      /\ \A h \in Handle : jft[p][h] # JFT_FREE =>
                           LET s == jft[p][h]
                           IN  /\ sft'[s].open # 0
                               /\ [sft'[s] EXCEPT !.open = 0] = [sft[s] EXCEPT !.open = 0]
    BY DEF OthersUndisturbed
  <2>1. jft'[p] = jft[p]
    BY NextRows
  <2>2. ASSUME NEW h \in Handle, jft[p][h] # JFT_FREE, NEW s, s = jft[p][h]
        PROVE  /\ sft'[s].open # 0
               /\ [sft'[s] EXCEPT !.open = 0] = [sft[s] EXCEPT !.open = 0]
    <3>1. Sound(sft, jft) /\ Sound(sft', jft') /\ Steady
      BY NextSteady DEF IInv
    <3>2. s \in Slots /\ s = jft'[p][h]
      BY <2>1, <2>2, <3>1 DEF Sound, Tables
    <3>3. sft[s].open # 0
      BY <2>2, <3>1, <3>2, ReferredOpen
    <3>4. sft'[s].open # 0
      BY <3>1, <3>2, ReferredOpen
    <3>5. sft[s] \in SlotType /\ sft'[s] \in SlotType /\ Same(sft[s], sft'[s])
      BY <3>1, <3>2, <3>3, <3>4 DEF Sound, Steady
    <3> QED BY <3>4, <3>5, SameBut
  <2> QED BY <2>1, <2>2
<1> QED BY <1>1, <1>2, <1>3, PTL DEF Spec, HandlesSurvive
=============================================================================
