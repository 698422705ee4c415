---------------------------- MODULE DirsProofs -----------------------------
(***************************************************************************)
(* Theorems about directories, long names and searches (module Dirs), for  *)
(* any sizes of volume and clusters, any names and patterns.               *)
(*                                                                         *)
(* The argument: a long name is right because the slots that lie directly  *)
(* in front of its entry are its own run (OwnRun), and no call writes      *)
(* among them but the one that drops or moves the entry.  Old slots may    *)
(* lie in front of that run, or of an entry without long name: they are    *)
(* not taken for a long name of that entry, since their checksum is that   *)
(* of an alias, which an entry without long name does not have for a name. *)
(* The tree is one because the entries that lead to directories and the    *)
(* ".." of these agree, and from no set of directories do all ".." lead    *)
(* back into it (NoLoops).                                                 *)
(***************************************************************************)
EXTENDS Dirs, Extremum, FiniteSetTheorems, SequenceTheorems

----------------------------------------------------------------------------
(* Numbers and names.                                                      *)

\* The least number of a set.
LEMMA MinIn ==
  ASSUME NEW S \in SUBSET Nat, S # {}
  PROVE  Min(S) \in S /\ \A x \in S : Min(S) <= x
<1>1. \E x \in S : \A y \in S : x <= y
  BY NatLeast
<1> QED BY <1>1 DEF Min

\* The greatest number of a set that is bounded.
LEMMA MaxIn ==
  ASSUME NEW S \in SUBSET Nat, S # {}, NEW b \in Nat, \A x \in S : x <= b
  PROVE  Max(S) \in S /\ \A x \in S : x <= Max(S)
<1>1. \E x \in S : \A y \in S : y <= x
  BY NatGreatest
<1>2. \E x \in S : \A y \in S : x >= y
  BY <1>1
<1> QED BY <1>2 DEF Max

\* The names of entries other than "." and "..".
Shorts == ShortNames \cup Aliases

\* What the names of a program, the aliases, the long names and the dots are
\* told apart by.
LEMMA NamesDiffer ==
  /\ \A n \in Shorts : n # Dot /\ n # DotDot /\ n \notin Longs /\ n # NoLong /\ fat_is_short_name(n)
  /\ \A n \in ShortNames : n \notin Aliases
  /\ \A l \in Longs : /\ l # Dot /\ l # DotDot /\ l # NoLong /\ l \notin Aliases
                      /\ ~fat_is_short_name(l)
  /\ Dot \notin Aliases /\ DotDot \notin Aliases /\ NoLong \notin Aliases /\ Dot # DotDot
  /\ NoLong # Dot /\ NoLong # DotDot
<1>1. Dot[2] = 0 /\ DotDot[2] = 0 /\ NoLong[2] = -1 /\ Dot[1] = "." /\ DotDot[1] = ".."
  BY DEF Dot, DotDot, NoLong
<1>2. \A a \in Aliases : a[2] \in 1..MaxAlias
  BY DEF Aliases
<1>3. \A l \in Longs : l[2] = -1 /\ l # NoLong
  BY DirsAssumption DEF Longs, NoLong
<1>4. \A n \in ShortNames : n[2] = 0 /\ n # Dot /\ n # DotDot
  BY DirsAssumption DEF Dot, DotDot
<1>5. MaxAlias \in Nat
  BY DirsAssumption
<1>6. \A a \in Aliases : a[2] \in Int /\ a[2] > 0
  BY <1>2, <1>5
<1>7. \A n \in ShortNames : n \notin Aliases /\ n \notin Longs /\ n # NoLong
  BY <1>1, <1>3, <1>4, <1>6
<1>8. \A a \in Aliases : a # Dot /\ a # DotDot /\ a \notin Longs /\ a # NoLong
  BY <1>1, <1>3, <1>6
<1>9. \A l \in Longs : l # Dot /\ l # DotDot
  BY <1>1, <1>3
<1>10. Dot # DotDot /\ NoLong # Dot /\ NoLong # DotDot
  BY <1>1
<1>11. \A n \in Shorts : fat_is_short_name(n)
  BY <1>4, <1>6 DEF Shorts, fat_is_short_name
<1>12. \A l \in Longs : ~fat_is_short_name(l)
  BY <1>3 DEF fat_is_short_name
<1> QED BY <1>3, <1>4, <1>7, <1>8, <1>9, <1>10, <1>11, <1>12 DEF Shorts

----------------------------------------------------------------------------
(* The slots of a directory.                                               *)

PieceType ==
  [tag : {"lfn"}, text : Longs, ord : Nat, last : BOOLEAN, sum : Aliases]
EntryType ==
  [tag : {"entry"}, name : Shorts \cup {Dot, DotDot}, kind : {"file", "dir"},
   first : {Root} \cup Clusters, ro : BOOLEAN, long : Longs \cup {NoLong}]
SlotType == {Del} \cup PieceType \cup EntryType

\* A slot that is no entry is free or a piece of a long name.
LEMMA SlotKinds ==
  ASSUME NEW x \in SlotType
  PROVE  /\ x = Del <=> x.tag = "del"
         /\ IsEntry(x) <=> x \in EntryType
         /\ x.tag = "lfn" <=> x \in PieceType
         /\ x.tag \in {"del", "lfn", "entry"}
         /\ ~(x = Del /\ IsEntry(x)) /\ ~IsEntry(Del)
<1>1. Del.tag = "del"
  BY DEF Del
<1>2. \A y \in PieceType : y.tag = "lfn"
  BY DEF PieceType
<1>3. \A y \in EntryType : y.tag = "entry"
  BY DEF EntryType
<1> QED BY <1>1, <1>2, <1>3 DEF SlotType, IsEntry

\* Entry and Piece make slots.
LEMMA EntryMade ==
  ASSUME NEW name \in Shorts \cup {Dot, DotDot}, NEW kind \in {"file", "dir"},
         NEW first \in {Root} \cup Clusters, NEW long \in Longs \cup {NoLong}
  PROVE  LET e == Entry(name, kind, first, long)
         IN  /\ e \in EntryType /\ e \in SlotType /\ IsEntry(e) /\ (IsDir(e) <=> kind = "dir")
             /\ e.name = name /\ e.kind = kind /\ e.first = first /\ e.long = long
BY DEF Entry, EntryType, SlotType, IsEntry, IsDir

\* A piece has the type of a slot.
LEMMA PieceMade ==
  ASSUME NEW l \in Longs, NEW ord \in Nat, NEW last \in BOOLEAN, NEW sum \in Aliases
  PROVE  LET x == Piece(l, ord, last, sum)
         IN  /\ x \in PieceType /\ x \in SlotType /\ ~IsEntry(x) /\ x # Del /\ x.tag = "lfn"
             /\ x.text = l /\ x.ord = ord /\ x.last = last /\ x.sum = sum
<1>1. PICK x : x = Piece(l, ord, last, sum)
  OBVIOUS
<1>2. x \in PieceType /\ x.text = l /\ x.ord = ord /\ x.last = last /\ x.sum = sum
  BY <1>1 DEF Piece, PieceType
<1>3. x \in SlotType
  BY <1>2 DEF SlotType
<1>4. x.tag = "lfn" /\ x.tag # "del" /\ x.tag # "entry"
  BY <1>1 DEF Piece
<1>5. ~IsEntry(x) /\ x # Del
  BY <1>3, <1>4, SlotKinds DEF IsEntry
<1> QED BY <1>1, <1>2, <1>3, <1>4, <1>5

\* The entry at p in the slots s has the long name l: its run is right in front of it.
OwnRun(s, p, l) ==
  /\ LongSlots[l] < p
  /\ \A q \in (p - LongSlots[l])..(p - 1) :
       s[q] = Piece(l, p - q, q = p - LongSlots[l], s[p].name)

EntriesIn(s) == {p \in DOMAIN s : IsEntry(s[p])}

\* The aliases of a long name.
AliasesOf(l) == {<<LongBase[l], n>> : n \in 1..MaxAlias}

\* They are aliases.
LEMMA AliasesAre == \A l \in Longs : AliasesOf(l) \subseteq Aliases
BY DEF AliasesOf, Aliases

\* An entry has an alias when it has a run of its own, and no other entry has
\* its short or its long name.
NamesIn(s) ==
  /\ \A p \in EntriesIn(s) :
       IF s[p].long = NoLong THEN s[p].name \notin Aliases
       ELSE s[p].name \in AliasesOf(s[p].long) /\ OwnRun(s, p, s[p].long)
  /\ \A p, q \in EntriesIn(s) : s[p].name = s[q].name => p = q
  /\ \A p, q \in EntriesIn(s) : s[p].long = s[q].long /\ s[p].long # NoLong => p = q

\* The last slot in front of p that is no long-name slot.
LEMMA BoundaryIs ==
  ASSUME NEW s, NEW p \in Nat \ {0}
  PROVE  /\ Boundary(s, p) \in 0..(p - 1)
         /\ Boundary(s, p) # 0 => s[Boundary(s, p)].tag # "lfn"
         /\ \A q \in 1..(p - 1) : s[q].tag # "lfn" => q <= Boundary(s, p)
<1>1. PICK S : S = {0} \cup {q \in 1..(p - 1) : s[q].tag # "lfn"}
  OBVIOUS
<1>2. S \in SUBSET Nat /\ S # {} /\ p - 1 \in Nat /\ \A x \in S : x <= p - 1
  BY <1>1
<1>3. Max(S) \in S /\ \A x \in S : x <= Max(S)
  BY <1>2, MaxIn
<1>4. Boundary(s, p) = Max(S)
  BY <1>1 DEF Boundary
<1> QED BY <1>1, <1>2, <1>3, <1>4

\* Between the boundary and an entry there are only pieces of long names.
LEMMA OnlyPieces ==
  ASSUME NEW s \in Seq(SlotType), NEW p \in DOMAIN s, NEW q \in (Boundary(s, p) + 1)..(p - 1)
  PROVE  q \in DOMAIN s /\ q < p /\ s[q].tag = "lfn" /\ s[q] \in PieceType
<1>1. /\ Len(s) \in Nat /\ p \in 1..Len(s) /\ p \in Nat \ {0}
  BY LenProperties
<1>2. Boundary(s, p) \in 0..(p - 1) /\ \A k \in 1..(p - 1) : s[k].tag # "lfn" => k <= Boundary(s, p)
  BY <1>1, BoundaryIs
<1>3. q \in 1..(p - 1) /\ q \in DOMAIN s /\ ~(q <= Boundary(s, p)) /\ q < p
  BY <1>1, <1>2
<1>4. s[q].tag = "lfn" /\ s[q] \in SlotType
  BY <1>2, <1>3
<1> QED BY <1>3, <1>4, SlotKinds

\* The greater of two numbers.
LEMMA MaxOfTwo ==
  ASSUME NEW i \in Nat, NEW j \in Nat
  PROVE  Max({i, j}) = IF i > j THEN i ELSE j
<1>1. PICK b \in Nat : i <= b /\ j <= b
  <2>1. i + j \in Nat /\ i <= i + j /\ j <= i + j
    OBVIOUS
  <2> QED BY <2>1
<1>2. {i, j} \in SUBSET Nat /\ {i, j} # {} /\ \A x \in {i, j} : x <= b
  BY <1>1
<1>3. Max({i, j}) \in {i, j} /\ \A x \in {i, j} : x <= Max({i, j})
  BY <1>1, <1>2, MaxIn
<1> QED BY <1>3

\* Where the name is read from does not matter, as long as it is not after the
\* boundary.
LEMMA ReadFromAnywhere ==
  ASSUME NEW s, NEW p \in Nat \ {0}, NEW i \in Nat, NEW j \in Nat,
         i <= Boundary(s, p) + 1, j <= Boundary(s, p) + 1
  PROVE  LongName(s, i, p) = LongName(s, j, p)
<1>1. PICK b \in Nat : b = Boundary(s, p) + 1
  <2>1. Boundary(s, p) \in 0..(p - 1)
    BY BoundaryIs
  <2> QED BY <2>1
<1>2. Max({i, b}) = b /\ Max({j, b}) = b
  BY <1>1, MaxOfTwo
<1>3. Max({i, Boundary(s, p) + 1}) = b /\ Max({j, Boundary(s, p) + 1}) = b
  BY <1>1, <1>2
<1> QED BY <1>3 DEF LongName

\* An entry shows the name it was given: its run is all there, and no other
\* run in front of it has its checksum.
LEMMA OwnName ==
  ASSUME NEW s \in Seq(SlotType), NamesIn(s), NEW p \in EntriesIn(s)
  PROVE  LongName(s, 1, p) = s[p].long
<1>1. Len(s) \in Nat /\ p \in 1..Len(s) /\ p \in Nat \ {0} /\ p \in DOMAIN s
  BY LenProperties DEF EntriesIn
<1>2. Boundary(s, p) \in 0..(p - 1) /\ (Boundary(s, p) # 0 => s[Boundary(s, p)].tag # "lfn")
  BY <1>1, BoundaryIs
<1>3. PICK b \in Nat : b = Boundary(s, p) + 1
  BY <1>2
<1>4. Max({1, Boundary(s, p) + 1}) = b /\ b >= 1 /\ b <= p
  BY <1>1, <1>2, <1>3, MaxOfTwo
<1>5. PICK starts : starts = {q \in b..(p - 1) : s[q].last}
  OBVIOUS
<1>6. \A q \in b..(p - 1) : s[q] \in PieceType /\ s[q].sum \in Aliases
  <2>1. \A q \in b..(p - 1) : s[q] \in PieceType
    BY <1>1, <1>3, OnlyPieces
  <2> QED BY <2>1 DEF PieceType
<1>7. starts \in SUBSET Nat /\ \A q \in starts : q <= p - 1 /\ q \in b..(p - 1)
  BY <1>1, <1>4, <1>5
<1>8. PICK start : start = Max(starts)
  OBVIOUS
<1>9. LongName(s, 1, p) =
        IF \/ starts = {} \/ \E q \in start..(p - 1) : s[q].sum # s[start].sum
           \/ s[start].sum # s[p].name
          THEN NoLong
        ELSE IF \A q \in start..(p - 1) : s[q].text = s[start].text /\ s[q].ord = p - q
          THEN s[start].text
        ELSE Garbled
  BY <1>4, <1>5, <1>8 DEF LongName, fat_lfn_checksum
<1>10. starts # {} => start \in starts /\ \A q \in starts : q <= start
  <2>1. p - 1 \in Nat
    BY <1>1
  <2> QED BY <1>7, <1>8, <2>1, MaxIn
<1>11. CASE s[p].long = NoLong
  <2>1. s[p].name \notin Aliases
    BY <1>11 DEF NamesIn
  <2>2. starts # {} => s[start].sum \in Aliases
    BY <1>6, <1>7, <1>10
  <2> QED BY <1>9, <1>11, <2>1, <2>2
<1>12. CASE s[p].long # NoLong
  <2>1. PICK l, n : l = s[p].long /\ n = LongSlots[l]
    OBVIOUS
  <2>2. l \in Longs /\ OwnRun(s, p, l)
    <3>1. s[p] \in EntryType
      BY <1>1, SlotKinds, ElementOfSeq DEF EntriesIn
    <3> QED BY <1>12, <2>1, <3>1 DEF NamesIn, EntryType
  <2>3. n \in Nat \ {0} /\ n < p
    BY <2>1, <2>2, DirsAssumption DEF OwnRun, Longs
  <2>4. \A q \in (p - n)..(p - 1) : s[q] = Piece(l, p - q, q = p - n, s[p].name)
    BY <2>1, <2>2 DEF OwnRun
  <2>5. ASSUME NEW q \in (p - n)..(p - 1)
        PROVE  /\ s[q].tag = "lfn" /\ s[q].text = l /\ s[q].ord = p - q
               /\ (s[q].last <=> q = p - n) /\ s[q].sum = s[p].name
    <3>1. PICK y \in BOOLEAN : y = (q = p - n)
      OBVIOUS
    <3>2. s[q] = Piece(l, p - q, y, s[p].name)
      BY <2>4, <3>1
    <3>3. PICK x, name : x = s[q] /\ name = s[p].name
      OBVIOUS
    <3>4. x = Piece(l, p - q, y, name)
      BY <3>2, <3>3
    <3>5. /\ x.tag = "lfn" /\ x.text = l /\ x.ord = p - q /\ x.last = y /\ x.sum = name
      BY <3>4 DEF Piece
    <3>6. y <=> q = p - n
      BY <3>1
    <3> QED BY <3>3, <3>5, <3>6
  <2>6. ~(Boundary(s, p) >= p - n)
    <3>1. Boundary(s, p) >= p - n => Boundary(s, p) \in (p - n)..(p - 1) /\ Boundary(s, p) # 0
      BY <1>1, <1>2, <2>3
    <3> QED BY <1>2, <2>5, <3>1
  <2>7. p - n \in b..(p - 1) /\ p - n \in (p - n)..(p - 1)
    BY <1>1, <1>2, <1>3, <2>3, <2>6
  <2>8. p - n \in starts
    BY <1>5, <2>5, <2>7
  <2>9. start = p - n
    <3>1. start \in starts /\ p - n <= start /\ start \in (p - n)..(p - 1)
      <4>1. start \in starts /\ p - n <= start
        BY <1>10, <2>8
      <4>2. start \in Nat /\ start <= p - 1
        BY <1>7, <4>1
      <4> QED BY <1>1, <2>3, <4>1, <4>2
    <3>2. s[start].last
      BY <1>5, <3>1
    <3> QED BY <2>5, <3>1, <3>2
  <2> QED BY <1>9, <2>1, <2>5, <2>7, <2>8, <2>9
<1> QED BY <1>11, <1>12

\* The slots in front of an entry that are the run of its long name.
LEMMA RunIs ==
  ASSUME NEW s \in Seq(SlotType), NamesIn(s), NEW p \in EntriesIn(s), s[p].long # NoLong
  PROVE  /\ s[p].long \in Longs /\ LongSlots[s[p].long] \in Nat \ {0} /\ LongSlots[s[p].long] < p
         /\ OwnRun(s, p, s[p].long) /\ p \in Nat \ {0} /\ p \in DOMAIN s
         /\ \A q \in (p - LongSlots[s[p].long])..(p - 1) : q \in DOMAIN s /\ s[q].tag = "lfn"
<1>1. Len(s) \in Nat /\ DOMAIN s = 1..Len(s) /\ p \in 1..Len(s)
  BY LenProperties DEF EntriesIn
<1>2. s[p] \in EntryType
  BY <1>1, SlotKinds, ElementOfSeq DEF EntriesIn
<1>3. PICK l, n : l = s[p].long /\ n = LongSlots[l]
  OBVIOUS
<1>4. l \in Longs /\ OwnRun(s, p, l)
  BY <1>2, <1>3 DEF NamesIn, EntryType
<1>5. n \in Nat \ {0} /\ n < p
  BY <1>3, <1>4, DirsAssumption DEF OwnRun, Longs
<1>6. ASSUME NEW q \in (p - n)..(p - 1) PROVE q \in DOMAIN s /\ s[q].tag = "lfn"
  <2>1. s[q] = Piece(l, p - q, q = p - n, s[p].name)
    BY <1>3, <1>4 DEF OwnRun
  <2>2. s[q].tag = "lfn"
    BY <2>1 DEF Piece
  <2> QED BY <1>1, <1>5, <2>2
<1> QED BY <1>1, <1>3, <1>4, <1>5, <1>6

\* The runs of the slots s are still there in the slots u.
RunsKept(s, u, p) ==
  s[p].long # NoLong => \A q \in (p - LongSlots[s[p].long])..(p - 1) : u[q] = s[q]

\* Slots that keep their entries and runs, but for a new entry at x, keep names apart.
LEMMA NamesStay ==
  ASSUME NEW s, NamesIn(s), NEW u, NEW x,
         \A p \in EntriesIn(u) : p # x =>
           /\ p \in EntriesIn(s) /\ u[p].name = s[p].name /\ u[p].long = s[p].long
           /\ RunsKept(s, u, p),
         x \in EntriesIn(u) =>
           /\ IF u[x].long = NoLong THEN u[x].name \notin Aliases
              ELSE u[x].name \in AliasesOf(u[x].long) /\ OwnRun(u, x, u[x].long)
           /\ \A p \in EntriesIn(u) : p # x =>
                u[p].name # u[x].name /\ (u[x].long # NoLong => u[p].long # u[x].long)
  PROVE  NamesIn(u)
<1>1. ASSUME NEW p \in EntriesIn(u)
      PROVE  IF u[p].long = NoLong THEN u[p].name \notin Aliases
             ELSE u[p].name \in AliasesOf(u[p].long) /\ OwnRun(u, p, u[p].long)
  <2>1. CASE p = x
    BY <2>1
  <2>2. CASE p # x
    <3>1. /\ p \in EntriesIn(s) /\ u[p].name = s[p].name /\ u[p].long = s[p].long
          /\ RunsKept(s, u, p)
      BY <2>2
    <3>2. IF s[p].long = NoLong THEN s[p].name \notin Aliases
          ELSE s[p].name \in AliasesOf(s[p].long) /\ OwnRun(s, p, s[p].long)
      BY <3>1 DEF NamesIn
    <3>3. s[p].long # NoLong => OwnRun(u, p, s[p].long)
      BY <3>1, <3>2 DEF OwnRun, RunsKept
    <3> QED BY <3>1, <3>2, <3>3
  <2> QED BY <2>1, <2>2
<1>2. ASSUME NEW p \in EntriesIn(u), NEW q \in EntriesIn(u), u[p].name = u[q].name PROVE p = q
  <2>1. p # x /\ q # x => p = q
    BY <1>2 DEF NamesIn
  <2> QED BY <1>2, <2>1
<1>3. ASSUME NEW p \in EntriesIn(u), NEW q \in EntriesIn(u), u[p].long = u[q].long, u[p].long # NoLong
      PROVE  p = q
  <2>1. p # x /\ q # x => p = q
    BY <1>3 DEF NamesIn
  <2> QED BY <1>3, <2>1
<1> QED BY <1>1, <1>2, <1>3 DEF NamesIn

\* fat_dir_set, as Set writes it.
Put(s, p, x) == IF p > Len(s) THEN Append(s, x) ELSE [s EXCEPT ![p] = x]

\* The slots u are the slots s but for x at p.
PutIn(s, p, x, u) ==
  /\ u \in Seq(SlotType) /\ Len(u) = IF p > Len(s) THEN p ELSE Len(s)
  /\ DOMAIN u = DOMAIN s \cup {p} /\ u[p] = x
  /\ \A q \in DOMAIN s : q # p => u[q] = s[q]

\* What fat_dir_set makes of a sequence of slots.
LEMMA PutSlot ==
  ASSUME NEW s \in Seq(SlotType), NEW p \in 1..(Len(s) + 1), NEW x \in SlotType
  PROVE  PutIn(s, p, x, Put(s, p, x))
<1> SUFFICES ASSUME NEW u, u = Put(s, p, x) PROVE PutIn(s, p, x, u)
  OBVIOUS
<1>1. Len(s) \in Nat /\ DOMAIN s = 1..Len(s)
  BY LenProperties
<1>2. CASE p > Len(s)
  <2>1. p = Len(s) + 1
    BY <1>1, <1>2
  <2>2. u = Append(s, x)
    BY <1>2 DEF Put
  <2>3. /\ u \in Seq(SlotType) /\ Len(u) = Len(s) + 1 /\ u[Len(s) + 1] = x
        /\ \A q \in 1..Len(s) : u[q] = s[q]
    BY <2>2, AppendProperties
  <2>4. DOMAIN u = 1..Len(u)
    BY <2>3, LenProperties
  <2>5. DOMAIN u = DOMAIN s \cup {p}
    <3>1. PICK n \in Nat : n = Len(s)
      BY <1>1
    <3>2. DOMAIN s = 1..n /\ DOMAIN u = 1..(n + 1) /\ p = n + 1
      BY <1>1, <2>1, <2>3, <2>4, <3>1
    <3>3. 1..(n + 1) = (1..n) \cup {n + 1}
      OBVIOUS
    <3> QED BY <3>2, <3>3
  <2> QED BY <1>1, <1>2, <2>1, <2>3, <2>5 DEF PutIn
<1>3. CASE ~(p > Len(s))
  <2>1. p \in 1..Len(s)
    BY <1>1, <1>3
  <2>2. u = [s EXCEPT ![p] = x]
    BY <1>3 DEF Put
  <2>3. u \in Seq(SlotType) /\ Len(u) = Len(s)
    BY <2>1, <2>2, ExceptSeq
  <2>4. DOMAIN u = DOMAIN s \cup {p} /\ u[p] = x /\ \A q \in DOMAIN s : q # p => u[q] = s[q]
    BY <1>1, <2>1, <2>2
  <2> QED BY <1>3, <2>3, <2>4 DEF PutIn
<1> QED BY <1>2, <1>3

\* The slots u have in front of at, in place of free ones, the n pieces of the
\* long name l of an entry called name that is to come at at; s is what they were.
RoomIn(s, u, at, n, l, name) ==
  /\ u \in Seq(SlotType) /\ n \in Nat /\ at \in 1..(Len(u) + 1) /\ n < at /\ DOMAIN s \subseteq DOMAIN u
  /\ \A q \in DOMAIN u : q \in (at - n)..(at - 1) \/ (q \in DOMAIN s /\ u[q] = s[q])
  /\ \A q \in (at - n)..(at - 1) :
       q \in DOMAIN u /\ u[q] = Piece(l, at - q, q = at - n, name) /\ (q \in DOMAIN s => s[q] = Del)
  /\ at \in DOMAIN u => u[at] = Del

\* Room for an entry disturbs no name.
LEMMA NamesRoom ==
  ASSUME NEW s \in Seq(SlotType), NamesIn(s), NEW u, NEW at, NEW n, NEW l, NEW name,
         RoomIn(s, u, at, n, l, name)
  PROVE  /\ EntriesIn(u) = EntriesIn(s) /\ \A p \in EntriesIn(s) : u[p] = s[p]
         /\ \A q \in DOMAIN s : s[q].tag = "lfn" => u[q] = s[q]
         /\ NamesIn(u)
<1>1. \A q \in (at - n)..(at - 1) : u[q].tag = "lfn" /\ ~IsEntry(u[q])
  <2> TAKE q \in (at - n)..(at - 1)
  <2>1. u[q] = Piece(l, at - q, q = at - n, name)
    BY DEF RoomIn
  <2>2. u[q].tag = "lfn"
    BY <2>1 DEF Piece
  <2> QED BY <2>2 DEF IsEntry
<1>2. \A q \in DOMAIN s : q \in DOMAIN u /\ (s[q] # Del => u[q] = s[q])
  BY DEF RoomIn
<1>3. \A q \in DOMAIN s : s[q] \in SlotType
  BY LenProperties, ElementOfSeq
<1>4. \A q \in DOMAIN s : IsEntry(s[q]) \/ s[q].tag = "lfn" => s[q] # Del
  BY <1>3, SlotKinds DEF Del, IsEntry
<1>5. EntriesIn(u) = EntriesIn(s) /\ \A p \in EntriesIn(s) : u[p] = s[p]
  <2>1. \A p \in EntriesIn(s) : p \in EntriesIn(u) /\ u[p] = s[p]
    BY <1>2, <1>4 DEF EntriesIn
  <2>2. \A p \in EntriesIn(u) : p \in EntriesIn(s)
    BY <1>1 DEF EntriesIn, RoomIn
  <2> QED BY <2>1, <2>2
<1>6. \A q \in DOMAIN s : s[q].tag = "lfn" => u[q] = s[q]
  BY <1>2, <1>4
<1>7. \A p \in EntriesIn(s) : RunsKept(s, u, p)
  BY <1>6, RunIs DEF RunsKept
<1>8. PICK x : x \notin EntriesIn(u)
  <2>1. 0 \notin EntriesIn(s)
    BY LenProperties DEF EntriesIn
  <2> QED BY <1>5, <2>1
<1>9. NamesIn(u)
  BY <1>5, <1>7, <1>8, NamesStay
<1> QED BY <1>5, <1>6, <1>9

\* An entry put where there is room for it, with a name that is not there yet.
LEMMA NamesPut ==
  ASSUME NEW s \in Seq(SlotType), NamesIn(s), NEW u, NEW at, NEW n, NEW l, NEW e \in EntryType,
         RoomIn(s, u, at, n, l, e.name), e.long = l,
         IF l = NoLong THEN e.name \notin Aliases ELSE e.name \in AliasesOf(l) /\ n = LongSlots[l],
         \A p \in EntriesIn(s) : s[p].name # e.name /\ (l # NoLong => s[p].long # l)
  PROVE  NamesIn(Put(u, at, e))
<1>1. /\ EntriesIn(u) = EntriesIn(s) /\ \A p \in EntriesIn(s) : u[p] = s[p]
      /\ NamesIn(u) /\ u \in Seq(SlotType) /\ at \in 1..(Len(u) + 1) /\ n < at /\ n \in Nat
  <2>1. /\ EntriesIn(u) = EntriesIn(s) /\ \A p \in EntriesIn(s) : u[p] = s[p]
        /\ NamesIn(u)
    BY NamesRoom
  <2> QED BY <2>1 DEF RoomIn
<1>2. e \in SlotType /\ IsEntry(e)
  BY SlotKinds DEF SlotType
<1>3. PICK w : w = Put(u, at, e)
  OBVIOUS
<1>4. /\ w \in Seq(SlotType) /\ DOMAIN w = DOMAIN u \cup {at} /\ w[at] = e
      /\ \A q \in DOMAIN u : q # at => w[q] = u[q]
  <2>1. PutIn(u, at, e, w)
    BY <1>1, <1>2, <1>3, PutSlot
  <2> QED BY <2>1 DEF PutIn
<1>5. \A q \in DOMAIN u : u[q].tag = "lfn" => q # at
  <2>1. Del.tag # "lfn"
    BY DEF Del
  <2> QED BY <2>1 DEF RoomIn
<1>6. ASSUME NEW p \in EntriesIn(w), p # at
      PROVE  /\ p \in EntriesIn(u) /\ w[p] = u[p] /\ RunsKept(u, w, p)
  <2>1. p \in EntriesIn(u) /\ w[p] = u[p]
    BY <1>4, <1>6 DEF EntriesIn
  <2>2. RunsKept(u, w, p)
    BY <1>1, <1>4, <1>5, <2>1, RunIs DEF RunsKept
  <2> QED BY <2>1, <2>2
<1>7. w[at].long # NoLong => OwnRun(w, at, w[at].long)
  <2> SUFFICES ASSUME l # NoLong PROVE OwnRun(w, at, l)
    BY <1>4
  <2>1. \A q \in (at - n)..(at - 1) : q \in DOMAIN u /\ q # at /\ u[q] = Piece(l, at - q, q = at - n, e.name)
    BY <1>1 DEF RoomIn
  <2>2. \A q \in (at - n)..(at - 1) : w[q] = Piece(l, at - q, q = at - n, e.name)
    BY <1>4, <2>1
  <2>3. n = LongSlots[l]
    OBVIOUS
  <2> QED BY <1>1, <1>4, <2>2, <2>3 DEF OwnRun
<1>8. \A p \in EntriesIn(w) : p # at =>
        w[p].name # w[at].name /\ (w[at].long # NoLong => w[p].long # w[at].long)
  BY <1>1, <1>4, <1>6
<1>9. NamesIn(w)
  BY <1>1, <1>4, <1>6, <1>7, <1>8, NamesStay
<1> QED BY <1>3, <1>9

\* An entry that is deleted, with the slots in front of it or without.
LEMMA NamesDropped ==
  ASSUME NEW s \in Seq(SlotType), NamesIn(s), NEW p \in EntriesIn(s), NEW u,
         DOMAIN u = DOMAIN s, u[p] = Del,
         \A q \in DOMAIN s : q # p => u[q] = s[q] \/ (Boundary(s, p) < q /\ q < p /\ u[q] = Del)
  PROVE  NamesIn(u)
<1>1. Len(s) \in Nat /\ DOMAIN s = 1..Len(s) /\ p \in 1..Len(s) /\ IsEntry(s[p]) /\ s[p].tag # "lfn"
  BY LenProperties DEF EntriesIn, IsEntry
<1>2. /\ Boundary(s, p) \in 0..(p - 1)
      /\ \A q \in 1..(p - 1) : s[q].tag # "lfn" => q <= Boundary(s, p)
  BY <1>1, BoundaryIs
<1>3. ~IsEntry(Del)
  BY DEF IsEntry, Del
<1>4. ASSUME NEW i \in EntriesIn(u)
      PROVE  i \in EntriesIn(s) /\ u[i] = s[i] /\ RunsKept(s, u, i)
  <2>1. i \in EntriesIn(s) /\ u[i] = s[i] /\ i # p
    BY <1>3, <1>4 DEF EntriesIn
  <2>2. ASSUME s[i].long # NoLong, NEW q \in (i - LongSlots[s[i].long])..(i - 1) PROVE u[q] = s[q]
    <3>1. PICK n \in Nat \ {0} : n = LongSlots[s[i].long]
      BY <2>1, <2>2, RunIs
    <3>2. /\ n < i /\ i \in Nat /\ q \in DOMAIN s
          /\ \A k \in (i - n)..(i - 1) : s[k].tag = "lfn"
      BY <2>1, <2>2, <3>1, RunIs
    <3>3. q # p
      BY <1>1, <2>2, <3>1, <3>2
    <3>4. ~(Boundary(s, p) < q /\ q < p)
      <4> SUFFICES ASSUME Boundary(s, p) < q, q < p PROVE FALSE
        OBVIOUS
      <4>1. ~(i < p)
        <5>1. i < p => i \in 1..(p - 1) /\ s[i].tag # "lfn"
          BY <2>1, <3>2, <1>1 DEF EntriesIn, IsEntry
        <5>2. i < p => i <= Boundary(s, p)
          BY <1>2, <5>1
        <5> QED BY <1>1, <1>2, <2>2, <3>1, <3>2, <5>2
      <4>2. p \in (i - n)..(i - 1)
        BY <1>1, <2>1, <2>2, <3>1, <3>2, <4>1
      <4> QED BY <1>1, <3>2, <4>2
    <3> QED BY <3>2, <3>3, <3>4
  <2> QED BY <2>1, <2>2 DEF RunsKept
<1>5. PICK x : x \notin EntriesIn(u)
  <2>1. p \notin EntriesIn(u)
    BY <1>3 DEF EntriesIn
  <2> QED BY <2>1
<1> QED BY <1>4, <1>5, NamesStay

\* Slots where entries keep their names or go, and pieces stay.
LEMMA NamesKept ==
  ASSUME NEW s \in Seq(SlotType), NamesIn(s), NEW u, DOMAIN u = DOMAIN s,
         \A q \in DOMAIN s : s[q].tag = "lfn" => u[q] = s[q],
         \A p \in EntriesIn(u) : p \in EntriesIn(s) /\ u[p].name = s[p].name /\ u[p].long = s[p].long
  PROVE  NamesIn(u)
<1>1. \A p \in EntriesIn(s) : RunsKept(s, u, p)
  BY RunIs DEF RunsKept
<1>2. PICK x : x \notin EntriesIn(u)
  <2>1. 0 \notin EntriesIn(u)
    BY LenProperties DEF EntriesIn
  <2> QED BY <2>1
<1> QED BY <1>1, <1>2, NamesStay

\* An entry that gets a name that is not there yet, and no long one.
LEMMA NamesRenamed ==
  ASSUME NEW s \in Seq(SlotType), NamesIn(s), NEW p \in EntriesIn(s), NEW u, DOMAIN u = DOMAIN s,
         \A q \in DOMAIN s : q # p => u[q] = s[q],
         u[p].name \notin Aliases, u[p].long = NoLong,
         \A q \in EntriesIn(s) : s[q].name # u[p].name
  PROVE  NamesIn(u)
<1>1. ASSUME NEW i \in EntriesIn(u), i # p
      PROVE  i \in EntriesIn(s) /\ u[i] = s[i] /\ RunsKept(s, u, i)
  <2>1. i \in EntriesIn(s) /\ u[i] = s[i]
    BY <1>1 DEF EntriesIn
  <2>2. \A q \in DOMAIN s : s[q].tag = "lfn" => q # p
    BY DEF EntriesIn, IsEntry
  <2> QED BY <2>1, <2>2, RunIs DEF RunsKept
<1> QED BY <1>1, NamesStay

----------------------------------------------------------------------------
(* The tree.                                                               *)

TreeType ==
  [dir : [{Root} \cup Clusters -> Seq(SlotType)], owner : [Clusters -> {NoOne} \cup Clusters]]

LiveIn(t) == {Root} \cup {c \in Clusters : t.owner[c] = c}

\* The slots of "." and ".." come first in a directory other than the root.
Base(d) == IF d = Root THEN 0 ELSE 2

\* The entries of the slots s, after the first b, that lead to directories,
\* and the directories.
SubdirsIn(s, b) == {p \in DOMAIN s : p > b /\ IsDir(s[p])}
KidsIn(s, b)    == {s[p].first : p \in SubdirsIn(s, b)}

\* The directory ".." leads to.
Parent(t, d) == t.dir[d][2].first

SlotsOK(s, b) ==
  /\ s \in Seq(SlotType) /\ b <= Len(s)
  /\ NamesIn(s)
  /\ \A p \in EntriesIn(s) : p > b => s[p].name \in Shorts
  /\ \A p, q \in SubdirsIn(s, b) : s[p].first = s[q].first => p = q

HeadOK(t, d) ==
  /\ t.dir[d][1] = Entry(Dot, "dir", d, NoLong)
  /\ t.dir[d][2] = Entry(DotDot, "dir", Parent(t, d), NoLong)
  /\ Parent(t, d) \in LiveIn(t)

\* From every set of directories ".." leads out somewhere.
NoLoops(t) ==
  \A C \in SUBSET (LiveIn(t) \ {Root}) : C # {} => \E d \in C : Parent(t, d) \notin C

TreeOK(t) ==
  /\ t \in TreeType
  /\ \A c \in Clusters : t.owner[c] # NoOne => t.owner[c] \in LiveIn(t) \ {Root}
  /\ \A d \in Clusters : d \notin LiveIn(t) => t.dir[d] = <<>>
  /\ \A d \in LiveIn(t) : SlotsOK(t.dir[d], Base(d)) /\ Len(t.dir[d]) <= Capacity(t, d)
  /\ \A d \in LiveIn(t) \ {Root} : HeadOK(t, d)
  /\ \A d \in LiveIn(t) :
       KidsIn(t.dir[d], Base(d)) = {k \in LiveIn(t) \ {Root} : Parent(t, k) = d}
  /\ NoLoops(t)

\* The sizes, and the directories that exist.
LEMMA Basics ==
  /\ MaxCluster \in Nat /\ MaxCluster >= 2 /\ RootSize \in Nat /\ SlotsPerCluster \in Nat
  /\ SlotsPerCluster > 2
  /\ Root \notin Clusters /\ NoOne \notin Clusters /\ NoOne # Root
  /\ Root = 0 /\ Clusters \subseteq Nat /\ IsFiniteSet(Clusters)
  /\ \A t : LiveIn(t) \subseteq {Root} \cup Clusters /\ Root \in LiveIn(t)
<1>1. MaxCluster \in Nat /\ MaxCluster >= 2 /\ RootSize \in Nat /\ SlotsPerCluster \in Nat
      /\ SlotsPerCluster > 2
  BY DirsAssumption
<1>2. IsFiniteSet(Clusters)
  BY <1>1, FS_Interval DEF Clusters
<1>3. Root \notin Clusters /\ NoOne \notin Clusters /\ NoOne # Root /\ Root = 0 /\ Clusters \subseteq Nat
  BY <1>1 DEF Root, NoOne, Clusters
<1> QED BY <1>1, <1>2, <1>3 DEF LiveIn

\* A directory has room for its slots, and for more when it gets clusters.
LEMMA CapacityGrows ==
  ASSUME NEW t, NEW u, NEW d,
         \A c \in Clusters : t.owner[c] = d => u.owner[c] = d
  PROVE  /\ Capacity(t, d) \in Nat /\ Capacity(u, d) \in Nat
         /\ Capacity(t, d) <= Capacity(u, d)
<1>1. PICK A, B : A = {c \in Clusters : t.owner[c] = d} /\ B = {c \in Clusters : u.owner[c] = d}
  OBVIOUS
<1>2. A \subseteq B /\ B \subseteq Clusters
  BY <1>1
<1>3. IsFiniteSet(A) /\ IsFiniteSet(B) /\ Cardinality(A) <= Cardinality(B)
  BY <1>2, Basics, FS_Subset
<1>4. PICK a \in Nat, b \in Nat : a = Cardinality(A) /\ b = Cardinality(B) /\ a <= b
  BY <1>3, FS_CardinalityType
<1>5. Capacity(t, d) = (IF d = Root THEN RootSize ELSE SlotsPerCluster * a)
      /\ Capacity(u, d) = (IF d = Root THEN RootSize ELSE SlotsPerCluster * b)
  BY <1>1, <1>4 DEF Capacity
<1>6. PICK c \in Nat : b = a + c
  <2>1. b - a \in Nat /\ b = a + (b - a)
    BY <1>4
  <2> QED BY <2>1
<1>7. PICK z \in Nat : z = SlotsPerCluster
  BY Basics
<1>8. z * b = z * a + z * c /\ z * a \in Nat /\ z * b \in Nat /\ z * c \in Nat
  BY <1>6, <1>7
<1>9. z * a <= z * b
  BY <1>8
<1> QED BY <1>5, <1>7, <1>8, <1>9, Basics

\* The same clusters, the same room.
LEMMA CapacitySame ==
  ASSUME NEW t, NEW u, NEW d,
         \A c \in Clusters : t.owner[c] = d <=> u.owner[c] = d
  PROVE  Capacity(t, d) \in Nat /\ Capacity(u, d) = Capacity(t, d)
<1>1. Capacity(t, d) \in Nat /\ Capacity(u, d) \in Nat /\ Capacity(t, d) <= Capacity(u, d)
  BY CapacityGrows
<1>2. Capacity(u, d) <= Capacity(t, d)
  BY CapacityGrows
<1> QED BY <1>1, <1>2

\* t2 is t but for the slots u of the directory d.
Written(t, t2, d, u) ==
  /\ t2 \in TreeType /\ t2.owner = t.owner /\ t2.dir[d] = u
  /\ \A x \in {Root} \cup Clusters : x # d => t2.dir[x] = t.dir[x]

\* One directory is written, and keeps its first slots and what it leads to.
LEMMA OneDir ==
  ASSUME NEW t, TreeOK(t), NEW d \in LiveIn(t), NEW t2, NEW u, Written(t, t2, d, u),
         SlotsOK(u, Base(d)), Len(u) <= Capacity(t, d),
         \A p \in 1..Base(d) : u[p] = t.dir[d][p],
         KidsIn(u, Base(d)) = KidsIn(t.dir[d], Base(d))
  PROVE  TreeOK(t2) /\ LiveIn(t2) = LiveIn(t)
<1>1. LiveIn(t2) = LiveIn(t) /\ LiveIn(t) \subseteq {Root} \cup Clusters /\ Root \in LiveIn(t)
  BY Basics DEF Written, LiveIn
<1>2. \A x \in LiveIn(t) : Capacity(t2, x) = Capacity(t, x)
  BY DEF Written, Capacity
<1>3. \A x \in {Root} \cup Clusters : x # d => t2.dir[x] = t.dir[x]
  BY DEF Written
<1>4. \A k \in LiveIn(t) \ {Root} : Parent(t2, k) = Parent(t, k)
                                   /\ t2.dir[k][1] = t.dir[k][1] /\ t2.dir[k][2] = t.dir[k][2]
  <2>1. d # Root => t2.dir[d][1] = t.dir[d][1] /\ t2.dir[d][2] = t.dir[d][2]
    BY DEF Written, Base
  <2> QED BY <1>1, <1>3, <2>1 DEF Parent
<1>5. \A x \in LiveIn(t) : /\ SlotsOK(t2.dir[x], Base(x)) /\ Len(t2.dir[x]) <= Capacity(t2, x)
                           /\ KidsIn(t2.dir[x], Base(x)) = KidsIn(t.dir[x], Base(x))
  BY <1>1, <1>2, <1>3 DEF Written, TreeOK
<1>6. \A x \in LiveIn(t2) \ {Root} : HeadOK(t2, x)
  BY <1>1, <1>4 DEF TreeOK, HeadOK
<1>7. \A x \in LiveIn(t2) :
        KidsIn(t2.dir[x], Base(x)) = {k \in LiveIn(t2) \ {Root} : Parent(t2, k) = x}
  BY <1>1, <1>4, <1>5 DEF TreeOK
<1>8. NoLoops(t2)
  <2> SUFFICES ASSUME NEW C \in SUBSET (LiveIn(t) \ {Root}), C # {}
               PROVE  \E x \in C : Parent(t2, x) \notin C
    BY <1>1 DEF NoLoops
  <2>1. PICK x \in C : Parent(t, x) \notin C
    BY DEF TreeOK, NoLoops
  <2> QED BY <1>4, <2>1
<1>9. t2 \in TreeType /\ \A c \in Clusters : t2.owner[c] # NoOne => t2.owner[c] \in LiveIn(t2) \ {Root}
  BY <1>1 DEF Written, TreeOK
<1>10. \A x \in Clusters : x \notin LiveIn(t2) => t2.dir[x] = <<>>
  BY <1>1, <1>3 DEF TreeOK
<1> QED BY <1>1, <1>5, <1>6, <1>7, <1>8, <1>9, <1>10 DEF TreeOK

\* Clusters that are free go to the directory d.
Extended(t, t2, d) ==
  /\ t2 \in TreeType /\ t2.dir = t.dir
  /\ \A c \in Clusters : t2.owner[c] # t.owner[c] => t.owner[c] = NoOne /\ t2.owner[c] = d

\* A tree in which one directory gets clusters is a tree.
LEMMA Grown ==
  ASSUME NEW t, TreeOK(t), NEW d \in LiveIn(t) \ {Root}, NEW t2, Extended(t, t2, d)
  PROVE  /\ TreeOK(t2) /\ LiveIn(t2) = LiveIn(t)
         /\ \A x \in {Root} \cup Clusters : Capacity(t, x) <= Capacity(t2, x)
<1>1. LiveIn(t) \subseteq {Root} \cup Clusters /\ Root \in LiveIn(t) /\ d \in Clusters /\ t.owner[d] = d
  BY Basics DEF LiveIn
<1>2. t2.owner[d] = d /\ \A c \in Clusters : t2.owner[c] = c <=> t.owner[c] = c
  BY <1>1, Basics DEF Extended
<1>3. LiveIn(t2) = LiveIn(t)
  BY <1>2 DEF LiveIn
<1>4. ASSUME NEW x \in {Root} \cup Clusters
      PROVE  Capacity(t, x) \in Nat /\ Capacity(t2, x) \in Nat /\ Capacity(t, x) <= Capacity(t2, x)
  <2>1. \A c \in Clusters : t.owner[c] = x => t2.owner[c] = x
    BY Basics DEF Extended
  <2> QED BY <2>1, CapacityGrows
<1>5. \A x \in LiveIn(t2) \ {Root} : HeadOK(t2, x)
  BY <1>3 DEF TreeOK, HeadOK, Parent, Extended
<1>6. \A k : Parent(t2, k) = Parent(t, k)
  BY DEF Extended, Parent
<1>7. NoLoops(t2)
  BY <1>3, <1>6 DEF TreeOK, NoLoops
<1>8. \A x \in LiveIn(t2) : /\ SlotsOK(t2.dir[x], Base(x)) /\ Len(t2.dir[x]) <= Capacity(t2, x)
  <2> TAKE x \in LiveIn(t2)
  <2>1. SlotsOK(t.dir[x], Base(x)) /\ Len(t.dir[x]) <= Capacity(t, x) /\ t2.dir[x] = t.dir[x]
    BY <1>3 DEF TreeOK, Extended
  <2>2. Len(t.dir[x]) \in Nat
    BY <2>1, LenProperties DEF SlotsOK
  <2>3. x \in {Root} \cup Clusters
    BY <1>1, <1>3
  <2>4. Capacity(t, x) \in Nat /\ Capacity(t2, x) \in Nat /\ Capacity(t, x) <= Capacity(t2, x)
    BY <1>4, <2>3
  <2> QED BY <2>1, <2>2, <2>4
<1>9. \A x \in LiveIn(t2) :
        KidsIn(t2.dir[x], Base(x)) = {k \in LiveIn(t2) \ {Root} : Parent(t2, k) = x}
  BY <1>3, <1>6 DEF TreeOK, Extended
<1>10. \A c \in Clusters : t2.owner[c] # NoOne => t2.owner[c] \in LiveIn(t2) \ {Root}
  BY <1>3 DEF TreeOK, Extended
<1>11. t2 \in TreeType /\ \A x \in Clusters : x \notin LiveIn(t2) => t2.dir[x] = <<>>
  BY <1>3 DEF TreeOK, Extended
<1> QED BY <1>3, <1>4, <1>5, <1>7, <1>8, <1>9, <1>10, <1>11 DEF TreeOK

----------------------------------------------------------------------------
(* The tree with a slot written, and with a longer directory.              *)

\* fat_dir_set writes one slot.
LEMMA SetType ==
  ASSUME NEW t \in TreeType, NEW d \in {Root} \cup Clusters, NEW p \in Nat \ {0}, NEW x \in SlotType
  PROVE  /\ Set(t, d, p, x) \in TreeType
         /\ Written(t, Set(t, d, p, x), d, Put(t.dir[d], p, x))
<1>1. PICK D, o : t = [dir |-> D, owner |-> o] /\ D \in [{Root} \cup Clusters -> Seq(SlotType)]
                 /\ o \in [Clusters -> {NoOne} \cup Clusters]
  BY DEF TreeType
<1>2. t.dir = D /\ t.owner = o
  BY <1>1
<1>3. PICK s : s = D[d] /\ s \in Seq(SlotType)
  BY <1>1
<1>4. PICK u : u = Put(s, p, x)
  OBVIOUS
<1>5. u \in Seq(SlotType)
  <2>1. CASE p > Len(s)
    BY <1>3, <1>4, <2>1, AppendProperties DEF Put
  <2>2. CASE ~(p > Len(s))
    <3>1. p \in 1..Len(s)
      BY <1>3, <2>2, LenProperties
    <3>2. u = [s EXCEPT ![p] = x]
      BY <1>4, <2>2 DEF Put
    <3> QED BY <1>3, <3>1, <3>2, ExceptSeq
  <2> QED BY <2>1, <2>2
<1>6. Set(t, d, p, x) = [t EXCEPT !.dir = [D EXCEPT ![d] = u]]
  BY <1>2, <1>3, <1>4 DEF Set, Put
<1>7. Set(t, d, p, x) = [dir |-> [D EXCEPT ![d] = u], owner |-> o]
  BY <1>1, <1>6
<1>8. PICK E : E = [D EXCEPT ![d] = u]
  OBVIOUS
<1>9. E \in [{Root} \cup Clusters -> Seq(SlotType)] /\ E[d] = u
      /\ \A y \in {Root} \cup Clusters : y # d => E[y] = D[y]
  BY <1>1, <1>5, <1>8
<1>10. PICK t2 : t2 = Set(t, d, p, x) /\ t2 = [dir |-> E, owner |-> o]
  BY <1>7, <1>8
<1>11. t2 \in TreeType /\ t2.dir = E /\ t2.owner = o
  BY <1>1, <1>9, <1>10 DEF TreeType
<1> QED BY <1>2, <1>3, <1>4, <1>9, <1>10, <1>11 DEF Written

\* fat_dir_extend gives the directory a free cluster.
LEMMA Extend ==
  ASSUME NEW t \in TreeType, NEW d \in Clusters
  PROVE  /\ fat_dir_extend(t, d) \in TreeType /\ fat_dir_extend(t, d).dir = t.dir
         /\ FreeClusters(t) # {} =>
              \E c \in FreeClusters(t) :
                /\ fat_dir_extend(t, d).owner[c] = d
                /\ \A k \in Clusters : k # c => fat_dir_extend(t, d).owner[k] = t.owner[k]
<1>1. PICK D, o : t = [dir |-> D, owner |-> o] /\ D \in [{Root} \cup Clusters -> Seq(SlotType)]
                 /\ o \in [Clusters -> {NoOne} \cup Clusters]
  BY DEF TreeType
<1>2. t.dir = D /\ t.owner = o
  BY <1>1
<1>3. PICK c : c = Min(FreeClusters(t))
  OBVIOUS
<1>4. PICK w : w = [o EXCEPT ![c] = d]
  OBVIOUS
<1>5. w \in [Clusters -> {NoOne} \cup Clusters] /\ (c \in Clusters => w[c] = d)
      /\ \A k \in Clusters : k # c => w[k] = o[k]
  BY <1>1, <1>4
<1>6. fat_dir_extend(t, d) = [dir |-> D, owner |-> w]
  <2>1. fat_dir_extend(t, d) = [t EXCEPT !.owner = w]
    BY <1>2, <1>3, <1>4 DEF fat_dir_extend
  <2> QED BY <1>1, <2>1
<1>7. PICK v : v = fat_dir_extend(t, d) /\ v = [dir |-> D, owner |-> w]
  BY <1>6
<1>8. v.dir = D /\ v.owner = w /\ v \in TreeType
  BY <1>1, <1>5, <1>7 DEF TreeType
<1>9. FreeClusters(t) # {} => c \in FreeClusters(t) /\ c \in Clusters
  <2>1. FreeClusters(t) \in SUBSET Nat /\ FreeClusters(t) \subseteq Clusters
    BY Basics DEF FreeClusters
  <2> QED BY <1>3, <2>1, MinIn
<1> QED BY <1>2, <1>5, <1>7, <1>8, <1>9

\* The directory d as it grows in fat_dir_alloc_run.
MoreFor(t, d) == IF d = Root THEN 0 ELSE Cardinality(FreeClusters(t))

Growing(t, d) ==
  LET grown[n \in 0..MoreFor(t, d)] == IF n = 0 THEN t ELSE fat_dir_extend(grown[n - 1], d)
  IN  grown

\* Each step of the growth takes one free cluster.
LEMMA GrowingSteps ==
  ASSUME NEW t, TreeOK(t), NEW d \in LiveIn(t)
  PROVE  /\ MoreFor(t, d) \in Nat
         /\ \A n \in 0..MoreFor(t, d) :
              LET v == Growing(t, d)[n]
              IN  v = t \/ (d # Root /\ Extended(t, v, d))
<1>1. t \in TreeType /\ d \in {Root} \cup Clusters
  BY Basics DEF TreeOK
<1>2. PICK N : N = MoreFor(t, d)
  OBVIOUS
<1>3. IsFiniteSet(FreeClusters(t)) /\ Cardinality(FreeClusters(t)) \in Nat
  <2>1. FreeClusters(t) \subseteq Clusters
    BY DEF FreeClusters
  <2> QED BY <2>1, Basics, FS_Subset, FS_CardinalityType
<1>4. N \in Nat /\ (d = Root => N = 0) /\ (d # Root => N = Cardinality(FreeClusters(t)) /\ d \in Clusters)
  BY <1>1, <1>2, <1>3 DEF MoreFor
<1> DEFINE g == [n \in 1..N |-> [v \in TreeType |-> fat_dir_extend(v, d)]]
           F == Growing(t, d)
<1>5. g \in [1..N -> [TreeType -> TreeType]]
  <2>1. \A n \in 1..N : d \in Clusters
    BY <1>4
  <2> QED BY <2>1, Extend
<1>6. F = CHOOSE u : u = [n \in 0..N |-> IF n = 0 THEN t ELSE fat_dir_extend(u[n - 1], d)]
  BY <1>2 DEF Growing
<1> HIDE DEF g, F
<1>7. PICK f \in [0..N -> TreeType] : Lists(f, t, g, N)
  BY <1>1, <1>4, <1>5, RepeatedSteps, Zenon
<1>8. f[0] = t /\ \A n \in 1..N : f[n] = fat_dir_extend(f[n - 1], d)
  <2>1. ASSUME NEW n \in 1..N PROVE f[n] = fat_dir_extend(f[n - 1], d)
    <3>1. n - 1 \in 0..N
      BY <1>4
    <3>2. f[n - 1] \in TreeType
      BY <1>7, <3>1
    <3>3. f[n] = g[n][f[n - 1]]
      BY <1>7 DEF Lists
    <3> QED BY <3>2, <3>3 DEF g
  <2> QED BY <1>7, <2>1 DEF Lists
<1>9. f = [n \in 0..N |-> IF n = 0 THEN t ELSE fat_dir_extend(f[n - 1], d)]
  <2>1. \A n \in 0..N : n = 0 \/ n \in 1..N
    BY <1>4
  <2> QED BY <1>7, <1>8, <2>1
<1>10. F = [n \in 0..N |-> IF n = 0 THEN t ELSE fat_dir_extend(F[n - 1], d)]
  BY <1>6, <1>9
<1>11. F[0] = t /\ \A n \in 1..N : F[n] = fat_dir_extend(F[n - 1], d)
  <2>1. 0 \in 0..N /\ \A n \in 1..N : n \in 0..N /\ n # 0
    BY <1>4
  <2> QED BY <1>10, <2>1
<1> DEFINE S == {n \in 0..N : /\ F[n] = t \/ (d # Root /\ Extended(t, F[n], d))
                              /\ F[n] \in TreeType
                              /\ d # Root => IsFiniteSet(FreeClusters(F[n]))
                                             /\ Cardinality(FreeClusters(F[n])) = N - n}
<1>12. 0 \in S
  BY <1>1, <1>3, <1>4, <1>11
<1>13. ASSUME NEW n \in 1..N, n - 1 \in S PROVE n \in S
  <2>1. PICK v : v = F[n - 1]
    OBVIOUS
  <2>2. PICK w : w = F[n]
    OBVIOUS
  <2>3. w = fat_dir_extend(v, d) /\ d # Root /\ d \in Clusters /\ n \in 0..N
    BY <1>4, <1>11, <2>1, <2>2
  <2>4. /\ v \in TreeType /\ (v = t \/ Extended(t, v, d))
        /\ IsFiniteSet(FreeClusters(v)) /\ Cardinality(FreeClusters(v)) = N - (n - 1)
    BY <1>13, <2>1, <2>3
  <2>5. FreeClusters(v) # {}
    <3>1. N - (n - 1) # 0
      BY <1>4
    <3> QED BY <2>4, <3>1, FS_EmptySet
  <2>6. w \in TreeType /\ w.dir = v.dir
    BY <2>3, <2>4, Extend
  <2>7. PICK c \in FreeClusters(v) : w.owner[c] = d /\ \A k \in Clusters : k # c => w.owner[k] = v.owner[k]
    BY <2>3, <2>4, <2>5, Extend
  <2>8. c \in Clusters /\ v.owner[c] = NoOne
    BY <2>7 DEF FreeClusters
  <2>9. Extended(t, w, d)
    <3>1. v.dir = t.dir /\ \A k \in Clusters : v.owner[k] # t.owner[k] => t.owner[k] = NoOne /\ v.owner[k] = d
      BY <2>4 DEF Extended
    <3>2. t.owner[c] = NoOne
      BY <2>3, <2>8, <3>1, Basics
    <3> QED BY <2>6, <2>7, <3>1, <3>2 DEF Extended
  <2>10. FreeClusters(w) = FreeClusters(v) \ {c}
    BY <2>3, <2>7, <2>8, Basics DEF FreeClusters
  <2>11. IsFiniteSet(FreeClusters(w)) /\ Cardinality(FreeClusters(w)) = N - n
    <3>1. IsFiniteSet(FreeClusters(w)) /\ Cardinality(FreeClusters(w)) = Cardinality(FreeClusters(v)) - 1
      BY <2>4, <2>7, <2>10, FS_RemoveElement
    <3> QED BY <1>4, <2>4, <3>1
  <2> QED BY <2>2, <2>3, <2>6, <2>9, <2>11
<1> HIDE DEF S
<1>14. \A n \in 0..N : n \in S
  BY <1>4, <1>12, <1>13, Upwards
<1> QED BY <1>2, <1>4, <1>14 DEF S, F

\* The tree v is t, or t with more clusters for the directory d.
Roomier(t, v, d) ==
  /\ TreeOK(v) /\ LiveIn(v) = LiveIn(t) /\ v.dir = t.dir
  /\ \A c \in Clusters : v.owner[c] # t.owner[c] => t.owner[c] = NoOne /\ v.owner[c] = d
  /\ \A x \in {Root} \cup Clusters : Capacity(t, x) <= Capacity(v, x)

\* A directory that grows leaves the tree what it is.
LEMMA GrowingOK ==
  ASSUME NEW t, TreeOK(t), NEW d \in LiveIn(t), NEW n \in 0..MoreFor(t, d)
  PROVE  Roomier(t, Growing(t, d)[n], d)
<1>1. PICK v : v = Growing(t, d)[n]
  OBVIOUS
<1>2. v = t \/ (d # Root /\ Extended(t, v, d))
  BY <1>1, GrowingSteps
<1>3. CASE v = t
  <2>1. \A x \in {Root} \cup Clusters : Capacity(t, x) <= Capacity(t, x)
    <3> TAKE x \in {Root} \cup Clusters
    <3> QED BY CapacityGrows
  <2> QED BY <1>1, <1>3, <2>1 DEF Roomier
<1>4. CASE d # Root /\ Extended(t, v, d)
  <2>1. /\ TreeOK(v) /\ LiveIn(v) = LiveIn(t)
        /\ \A x \in {Root} \cup Clusters : Capacity(t, x) <= Capacity(v, x)
    BY <1>4, Grown
  <2> QED BY <1>1, <1>4, <2>1 DEF Roomier, Extended
<1> QED BY <1>2, <1>3, <1>4

\* A run of count free slots at at, when the directory has the room of v.
RunAt(t, v, d, at, count) ==
  /\ at \in 1..(Len(t.dir[d]) + 1) /\ at + count - 1 <= Capacity(v, d)
  /\ \A q \in at..(at + count - 1) : q <= Len(t.dir[d]) => t.dir[d][q] = Del

\* fat_dir_alloc_slot finds one.
LEMMA SlotFound ==
  ASSUME NEW t, TreeOK(t), NEW d \in LiveIn(t)
  PROVE  LET r == fat_dir_alloc_slot(t, d)
         IN  /\ Roomier(t, r.t, d)
             /\ r.at = 0 \/ RunAt(t, r.t, d, r.at, 1)
<1>1. PICK r : r = fat_dir_alloc_slot(t, d)
  OBVIOUS
<1>2. PICK s : s = t.dir[d]
  OBVIOUS
<1>3. /\ t \in TreeType /\ d \in {Root} \cup Clusters /\ s \in Seq(SlotType) /\ Len(s) \in Nat
      /\ DOMAIN s = 1..Len(s) /\ Len(s) <= Capacity(t, d) /\ Capacity(t, d) \in Nat
  <2>1. t \in TreeType /\ d \in {Root} \cup Clusters
    BY Basics DEF TreeOK
  <2>2. SlotsOK(s, Base(d)) /\ Len(s) <= Capacity(t, d)
    BY <1>2 DEF TreeOK
  <2>3. Capacity(t, d) \in Nat
    BY CapacityGrows
  <2> QED BY <2>1, <2>2, <2>3, LenProperties DEF SlotsOK
<1>4. PICK deleted, next : deleted = {p \in DOMAIN s : s[p] = Del} /\ next = Len(s) + 1
  OBVIOUS
<1>5. r = IF deleted # {} THEN [t |-> t, at |-> Min(deleted)]
          ELSE IF next <= Capacity(t, d) THEN [t |-> t, at |-> next]
          ELSE IF d = Root \/ FreeClusters(t) = {} THEN [t |-> t, at |-> 0]
          ELSE [t |-> fat_dir_extend(t, d), at |-> next]
  BY <1>1, <1>2, <1>4 DEF fat_dir_alloc_slot
<1>6. Roomier(t, t, d)
  <2>1. \A x \in {Root} \cup Clusters : Capacity(t, x) <= Capacity(t, x)
    <3> TAKE x \in {Root} \cup Clusters
    <3> QED BY CapacityGrows
  <2> QED BY <2>1 DEF Roomier
<1>7. CASE deleted # {}
  <2>1. deleted \in SUBSET Nat
    BY <1>3, <1>4
  <2>2. PICK m : m = Min(deleted) /\ m \in deleted
    BY <1>7, <2>1, MinIn
  <2>3. m \in 1..Len(s) /\ s[m] = Del /\ r.t = t /\ r.at = m
    BY <1>3, <1>4, <1>5, <1>7, <2>2
  <2>4. m \in 1..(Len(s) + 1) /\ m + 1 - 1 = m /\ m <= Capacity(t, d) /\ \A q \in m..(m + 1 - 1) : q = m
    BY <1>3, <2>3
  <2>5. RunAt(t, t, d, m, 1)
    BY <1>2, <2>3, <2>4 DEF RunAt
  <2> QED BY <1>1, <1>6, <2>3, <2>5
<1>8. CASE deleted = {} /\ next <= Capacity(t, d)
  <2>1. r.t = t /\ r.at = next
    BY <1>5, <1>8
  <2>2. RunAt(t, t, d, next, 1)
    <3>1. /\ next \in 1..(Len(s) + 1) /\ next + 1 - 1 <= Capacity(t, d)
          /\ \A q \in next..(next + 1 - 1) : ~(q <= Len(s))
      BY <1>3, <1>4, <1>8
    <3> QED BY <1>2, <3>1 DEF RunAt
  <2> QED BY <1>1, <1>6, <2>1, <2>2
<1>9. CASE deleted = {} /\ ~(next <= Capacity(t, d)) /\ (d = Root \/ FreeClusters(t) = {})
  <2>1. r.t = t /\ r.at = 0
    BY <1>5, <1>9
  <2> QED BY <1>1, <1>6, <2>1
<1>10. CASE deleted = {} /\ ~(next <= Capacity(t, d)) /\ d # Root /\ FreeClusters(t) # {}
  <2>1. PICK v : v = fat_dir_extend(t, d)
    OBVIOUS
  <2>2. r = [t |-> v, at |-> next]
    BY <1>5, <1>10, <2>1
  <2>3. r.t = v /\ r.at = next /\ d \in Clusters
    BY <1>3, <1>10, <2>2
  <2>4. v \in TreeType /\ v.dir = t.dir
    BY <1>3, <2>1, <2>3, Extend
  <2>5. PICK c \in FreeClusters(t) : v.owner[c] = d /\ \A k \in Clusters : k # c => v.owner[k] = t.owner[k]
    BY <1>3, <1>10, <2>1, <2>3, Extend
  <2>6. c \in Clusters /\ t.owner[c] = NoOne
    BY <2>5 DEF FreeClusters
  <2>7. Extended(t, v, d)
    BY <2>4, <2>5, <2>6 DEF Extended
  <2>8. Roomier(t, v, d)
    <3>1. d \in LiveIn(t) \ {Root}
      BY <1>10
    <3>2. /\ TreeOK(v) /\ LiveIn(v) = LiveIn(t)
          /\ \A x \in {Root} \cup Clusters : Capacity(t, x) <= Capacity(v, x)
      BY <2>7, <3>1, Grown
    <3> QED BY <2>7, <3>2 DEF Roomier, Extended
  <2>9. next <= Capacity(v, d)
    <3>1. PICK A, B : A = {k \in Clusters : t.owner[k] = d} /\ B = {k \in Clusters : v.owner[k] = d}
      OBVIOUS
    <3>2. B = A \cup {c} /\ c \notin A /\ A \subseteq Clusters
      BY <2>3, <2>5, <2>6, <3>1, Basics
    <3>3. IsFiniteSet(A)
      BY <3>2, Basics, FS_Subset
    <3>4. Cardinality(B) = Cardinality(A) + 1
      BY <3>2, <3>3, FS_AddElement
    <3>5. PICK a \in Nat : a = Cardinality(A)
      BY <3>3, FS_CardinalityType
    <3>6. Capacity(t, d) = SlotsPerCluster * a /\ Capacity(v, d) = SlotsPerCluster * (a + 1)
      BY <1>10, <3>1, <3>4, <3>5 DEF Capacity
    <3>7. PICK z \in Nat : z = SlotsPerCluster /\ z > 2
      BY Basics
    <3>8. z * (a + 1) = (z * a) + z
      BY <3>5, <3>7
    <3>9. PICK b \in Nat : b = z * a
      BY <3>5, <3>7
    <3>10. Capacity(t, d) = b /\ Capacity(v, d) = b + z
      BY <3>6, <3>7, <3>8, <3>9
    <3> QED BY <1>3, <1>4, <3>7, <3>10
  <2>10. RunAt(t, v, d, next, 1)
    <3>1. /\ next \in 1..(Len(s) + 1) /\ next + 1 - 1 = next
          /\ \A q \in next..(next + 1 - 1) : ~(q <= Len(s))
      BY <1>3, <1>4
    <3> QED BY <1>2, <2>9, <3>1 DEF RunAt
  <2> QED BY <1>1, <2>3, <2>8, <2>10
<1> QED BY <1>7, <1>8, <1>9, <1>10

\* fat_dir_alloc_run finds so many in a row.
LEMMA RunFound ==
  ASSUME NEW t, TreeOK(t), NEW d \in LiveIn(t), NEW count \in Nat \ {0}
  PROVE  LET r == fat_dir_alloc_run(t, d, count)
         IN  /\ Roomier(t, r.t, d)
             /\ r.at = 0 \/ RunAt(t, r.t, d, r.at, count)
<1>1. PICK r : r = fat_dir_alloc_run(t, d, count)
  OBVIOUS
<1>2. PICK s, N, G : s = t.dir[d] /\ N = MoreFor(t, d) /\ G = Growing(t, d)
  OBVIOUS
<1>3. PICK fits : fits = {n \in 0..N : Runs(s, Capacity(G[n], d), count) # {}}
  OBVIOUS
<1>4. r = IF fits = {} THEN [t |-> G[N], at |-> 0]
          ELSE [t |-> G[Min(fits)], at |-> Min(Runs(s, Capacity(G[Min(fits)], d), count))]
  BY <1>1, <1>2, <1>3 DEF fat_dir_alloc_run, Growing, MoreFor
<1>5. N \in Nat /\ \A n \in 0..N : Roomier(t, G[n], d)
  BY <1>2, GrowingSteps, GrowingOK
<1>6. CASE fits = {}
  <2>1. r.t = G[N] /\ r.at = 0 /\ N \in 0..N
    BY <1>4, <1>5, <1>6
  <2> QED BY <1>1, <1>5, <2>1
<1>7. CASE fits # {}
  <2>1. PICK n : n = Min(fits) /\ n \in fits
    <3>1. fits \in SUBSET Nat
      BY <1>3
    <3> QED BY <1>7, <3>1, MinIn
  <2>2. PICK R : R = Runs(s, Capacity(G[n], d), count)
    OBVIOUS
  <2>3. R # {} /\ n \in 0..N
    BY <1>3, <2>1, <2>2
  <2>4. Len(s) \in Nat
    <3>1. SlotsOK(s, Base(d))
      BY <1>2 DEF TreeOK
    <3> QED BY <3>1, LenProperties DEF SlotsOK
  <2>5. R \in SUBSET Nat
    BY <2>2, <2>4 DEF Runs
  <2>6. PICK m : m = Min(R) /\ m \in R
    BY <2>3, <2>5, MinIn
  <2>7. r = [t |-> G[n], at |-> m]
    BY <1>4, <1>7, <2>1, <2>2, <2>6
  <2>8. r.t = G[n] /\ r.at = m
    BY <2>7
  <2>9. RunAt(t, G[n], d, m, count)
    BY <1>2, <2>2, <2>6 DEF Runs, RunAt
  <2> QED BY <1>1, <1>5, <2>3, <2>8, <2>9
<1> QED BY <1>6, <1>7

\* The slots a directory starts with are entries.
LEMMA FirstSlots ==
  ASSUME NEW t, TreeOK(t), NEW d \in LiveIn(t)
  PROVE  /\ t.dir[d] \in Seq(SlotType) /\ Len(t.dir[d]) \in Nat /\ DOMAIN t.dir[d] = 1..Len(t.dir[d])
         /\ Base(d) \in 0..Len(t.dir[d]) /\ (d # Root => Base(d) = 2) /\ Base(Root) = 0
         /\ d \in {Root} \cup Clusters
         /\ \A p \in 1..Base(d) : /\ p \in DOMAIN t.dir[d] /\ IsEntry(t.dir[d][p]) /\ t.dir[d][p] # Del
                                  /\ IsDir(t.dir[d][p])
                                  /\ t.dir[d][p].name \in {Dot, DotDot} /\ t.dir[d][p].long = NoLong
<1>1. SlotsOK(t.dir[d], Base(d)) /\ d \in {Root} \cup Clusters
  BY Basics DEF TreeOK
<1>2. /\ t.dir[d] \in Seq(SlotType) /\ Len(t.dir[d]) \in Nat /\ DOMAIN t.dir[d] = 1..Len(t.dir[d])
  BY <1>1, LenProperties DEF SlotsOK
<1>3. Base(d) \in 0..Len(t.dir[d]) /\ (d # Root => Base(d) = 2) /\ Base(Root) = 0
  BY <1>1, <1>2 DEF SlotsOK, Base
<1>4. ASSUME NEW p \in 1..Base(d)
      PROVE  /\ p \in DOMAIN t.dir[d] /\ IsEntry(t.dir[d][p]) /\ t.dir[d][p] # Del /\ IsDir(t.dir[d][p])
             /\ t.dir[d][p].name \in {Dot, DotDot} /\ t.dir[d][p].long = NoLong
  <2>1. d # Root /\ (p = 1 \/ p = 2)
    BY <1>3
  <2>2. p \in DOMAIN t.dir[d]
    BY <1>2, <1>3
  <2>3. HeadOK(t, d)
    BY <2>1 DEF TreeOK
  <2>4. PICK k, name : t.dir[d][p] = Entry(name, "dir", k, NoLong) /\ name \in {Dot, DotDot}
    BY <2>1, <2>3 DEF HeadOK
  <2>5. PICK x : x = t.dir[d][p]
    OBVIOUS
  <2>6. IsEntry(x) /\ IsDir(x) /\ x.name = name /\ x.long = NoLong
    BY <2>4, <2>5 DEF Entry, IsEntry, IsDir
  <2>7. x # Del
    BY <2>6 DEF Del, IsEntry
  <2> QED BY <2>2, <2>4, <2>5, <2>6, <2>7
<1> QED BY <1>1, <1>2, <1>3, <1>4

\* Room in the directory d for an entry at at, with n pieces of the long name l.
RoomFor(t, v, d, at, n, l, name) ==
  /\ TreeOK(v) /\ LiveIn(v) = LiveIn(t)
  /\ \A x \in {Root} \cup Clusters : x # d => v.dir[x] = t.dir[x]
  /\ \A k \in LiveIn(t) \ {Root} : Parent(v, k) = Parent(t, k)
  /\ RoomIn(t.dir[d], v.dir[d], at, n, l, name)
  /\ Len(t.dir[d]) <= Len(v.dir[d])
  /\ at > Base(d) /\ at <= Capacity(v, d)

\* No room: the tree is as it was, but for clusters.
NoRoom(t, v, d) == Roomier(t, v, d)

\* The place fat_dir_alloc_slot finds.
LEMMA SlotRoom ==
  ASSUME NEW t, TreeOK(t), NEW d \in LiveIn(t), NEW v, Roomier(t, v, d), NEW at, RunAt(t, v, d, at, 1),
         NEW l, NEW name
  PROVE  RoomFor(t, v, d, at, 0, l, name)
<1>1. PICK s : s = t.dir[d]
  OBVIOUS
<1>2. /\ s \in Seq(SlotType) /\ Len(s) \in Nat /\ DOMAIN s = 1..Len(s)
      /\ Base(d) \in 0..Len(s)
      /\ \A p \in 1..Base(d) : s[p] # Del
  BY <1>1, FirstSlots
<1>3. /\ at \in 1..(Len(s) + 1) /\ at + 1 - 1 = at /\ at <= Capacity(v, d)
      /\ (at <= Len(s) => s[at] = Del)
  <2>1. at \in 1..(Len(s) + 1) /\ at + 1 - 1 <= Capacity(v, d)
        /\ \A q \in at..(at + 1 - 1) : q <= Len(s) => s[q] = Del
    BY <1>1 DEF RunAt
  <2>2. at + 1 - 1 = at /\ at \in at..(at + 1 - 1)
    BY <1>2, <2>1
  <2> QED BY <2>1, <2>2
<1>4. at > Base(d)
  BY <1>2, <1>3
<1>5. RoomIn(s, s, at, 0, l, name)
  <2>1. PICK z \in Nat : z = 0
    OBVIOUS
  <2>2. (at - z)..(at - 1) = {} /\ z < at
    BY <1>2, <1>3, <2>1
  <2>3. at \in DOMAIN s => s[at] = Del
    BY <1>2, <1>3
  <2>4. RoomIn(s, s, at, z, l, name)
    BY <1>2, <1>3, <2>2, <2>3 DEF RoomIn
  <2> QED BY <2>1, <2>4
<1>6. v.dir = t.dir /\ TreeOK(v) /\ LiveIn(v) = LiveIn(t)
  BY DEF Roomier
<1>7. \A k : Parent(v, k) = Parent(t, k)
  BY <1>6 DEF Parent
<1> QED BY <1>1, <1>2, <1>3, <1>4, <1>5, <1>6, <1>7 DEF RoomFor

----------------------------------------------------------------------------
(* The slots of a long name.                                               *)

\* The pieces of l as they are written, one by one, from at on.
PieceOf(l, k, short) == Piece(l, LongSlots[l] - k + 1, k = 1, fat_lfn_checksum(short))

Laying(v, d, at, l, short) ==
  LET put[k \in 0..LongSlots[l]] ==
        IF k = 0 THEN v ELSE Set(put[k - 1], d, at + k - 1, PieceOf(l, k, short))
  IN  put

\* The pieces are written one after the other.
LEMMA LayingSteps ==
  ASSUME NEW v \in TreeType, NEW d \in {Root} \cup Clusters, NEW at \in Nat \ {0}, NEW l \in Longs,
         NEW short \in Aliases
  PROVE  LET P == Laying(v, d, at, l, short)
         IN  /\ P[0] = v
             /\ \A k \in 0..LongSlots[l] : P[k] \in TreeType
             /\ \A k \in 1..LongSlots[l] :
                  /\ PieceOf(l, k, short) \in SlotType
                  /\ P[k] = Set(P[k - 1], d, at + k - 1, PieceOf(l, k, short))
<1>1. PICK n \in Nat \ {0} : n = LongSlots[l]
  BY DirsAssumption DEF Longs
<1>2. ASSUME NEW k \in 1..n PROVE PieceOf(l, k, short) \in SlotType /\ at + k - 1 \in Nat \ {0}
  <2>1. PICK y \in BOOLEAN, o \in Nat : y = (k = 1) /\ o = n - k + 1
    <3>1. n - k + 1 \in Nat /\ (k = 1) \in BOOLEAN
      BY <1>1
    <3> QED BY <3>1
  <2>2. PieceOf(l, k, short) = Piece(l, o, y, short)
    BY <1>1, <2>1 DEF PieceOf, fat_lfn_checksum
  <2>3. Piece(l, o, y, short) \in SlotType
    BY PieceMade
  <2>4. at + k - 1 \in Nat \ {0}
    BY <1>1
  <2> QED BY <2>2, <2>3, <2>4
<1> DEFINE step(k, w) == Set(w, d, at + k - 1, PieceOf(l, k, short))
           g == [k \in 1..n |-> [w \in TreeType |-> step(k, w)]]
           P == Laying(v, d, at, l, short)
<1>3. \A k \in 1..n : \A w \in TreeType : step(k, w) \in TreeType
  BY <1>2, SetType
<1>4. P = CHOOSE u : u = [k \in 0..n |-> IF k = 0 THEN v ELSE step(k, u[k - 1])]
  BY <1>1 DEF Laying
<1> HIDE DEF step
<1>5. g \in [1..n -> [TreeType -> TreeType]]
  BY <1>3
<1> HIDE DEF g, P
<1>6. PICK f \in [0..n -> TreeType] : Lists(f, v, g, n)
  <2>1. n \in Nat
    BY <1>1
  <2> QED BY <1>5, <2>1, RepeatedSteps, Zenon
<1>7. f[0] = v /\ \A k \in 1..n : f[k] = step(k, f[k - 1])
  <2>1. ASSUME NEW k \in 1..n PROVE f[k] = step(k, f[k - 1])
    <3>1. k - 1 \in 0..n
      BY <1>1
    <3>2. f[k - 1] \in TreeType
      BY <1>6, <3>1
    <3>3. f[k] = g[k][f[k - 1]]
      BY <1>6 DEF Lists
    <3> QED BY <3>2, <3>3 DEF g
  <2> QED BY <1>6, <2>1 DEF Lists
<1>8. f = [k \in 0..n |-> IF k = 0 THEN v ELSE step(k, f[k - 1])]
  <2>1. \A k \in 0..n : k = 0 \/ k \in 1..n
    BY <1>1
  <2> QED BY <1>6, <1>7, <2>1
<1>9. P = [k \in 0..n |-> IF k = 0 THEN v ELSE step(k, P[k - 1])]
  BY <1>4, <1>8
<1>10. P[0] = v /\ \A k \in 1..n : P[k] = step(k, P[k - 1])
  <2>1. 0 \in 0..n /\ \A k \in 1..n : k \in 0..n /\ k # 0
    BY <1>1
  <2> QED BY <1>9, <2>1
<1> DEFINE S == {k \in 0..n : P[k] \in TreeType}
<1>11. 0 \in S
  BY <1>1, <1>10
<1>12. \A k \in 1..n : k - 1 \in S => k \in S
  <2> TAKE k \in 1..n
  <2> HAVE k - 1 \in S
  <2>1. P[k - 1] \in TreeType /\ k \in 0..n
    BY <1>1
  <2>2. step(k, P[k - 1]) \in TreeType
    BY <1>3, <2>1 DEF step
  <2> QED BY <1>10, <2>1, <2>2
<1> HIDE DEF S
<1>13. \A k \in 0..n : k \in S
  <2>1. n \in Nat
    BY <1>1
  <2> QED BY <1>11, <1>12, <2>1, Upwards
<1> QED BY <1>1, <1>2, <1>10, <1>13 DEF S, P, step

\* After k steps the first k of them are there, in place of free slots.
LaidIn(s, u, at, l, short, k) ==
  /\ u \in Seq(SlotType) /\ Len(u) = IF at + k - 1 > Len(s) THEN at + k - 1 ELSE Len(s)
  /\ \A q \in 1..Len(u) :
       IF q \in at..(at + k - 1) THEN u[q] = PieceOf(l, q - at + 1, short)
       ELSE q \in 1..Len(s) /\ u[q] = s[q]

\* One piece more.
LEMMA LaidOne ==
  ASSUME NEW s \in Seq(SlotType), NEW at \in 1..(Len(s) + 1), NEW l, NEW short, NEW k \in Nat \ {0},
         NEW u, LaidIn(s, u, at, l, short, k - 1), PieceOf(l, k, short) \in SlotType
  PROVE  LaidIn(s, Put(u, at + k - 1, PieceOf(l, k, short)), at, l, short, k)
<1>1. PICK w, p, x : w = Put(u, p, x) /\ p = at + k - 1 /\ x = PieceOf(l, k, short)
  OBVIOUS
<1>2. PICK m \in Nat : m = Len(s) /\ at \in 1..(m + 1)
  BY LenProperties
<1>3. u \in Seq(SlotType) /\ Len(u) = IF at + (k - 1) - 1 > m THEN at + (k - 1) - 1 ELSE m
  BY <1>2 DEF LaidIn
<1>4. PICK i \in Nat : i = Len(u) /\ DOMAIN u = 1..i
  BY <1>3, LenProperties
<1>5. \A q \in 1..i :
        IF q \in at..(at + (k - 1) - 1) THEN u[q] = PieceOf(l, q - at + 1, short)
        ELSE q \in 1..m /\ u[q] = s[q]
  BY <1>2, <1>4 DEF LaidIn
<1>6. p \in Nat \ {0} /\ p \in 1..(i + 1)
  BY <1>1, <1>2, <1>3, <1>4
<1>7. PutIn(u, p, x, w)
  BY <1>1, <1>3, <1>4, <1>6, PutSlot
<1>8. w \in Seq(SlotType) /\ Len(w) = (IF p > i THEN p ELSE i) /\ w[p] = x
      /\ \A q \in 1..i : q # p => w[q] = u[q]
  BY <1>4, <1>7 DEF PutIn
<1>9. Len(w) = IF p > m THEN p ELSE m
  BY <1>1, <1>2, <1>3, <1>4, <1>8
<1>10. ASSUME NEW q \in 1..Len(w)
       PROVE  IF q \in at..(at + k - 1) THEN w[q] = PieceOf(l, q - at + 1, short)
              ELSE q \in 1..m /\ w[q] = s[q]
  <2>1. CASE q = p
    <3>1. q \in at..(at + k - 1) /\ q - at + 1 = k
      BY <1>1, <1>2, <2>1
    <3> QED BY <1>1, <1>8, <2>1, <3>1
  <2>2. CASE q # p
    <3>1. q \in 1..i /\ (q \in at..(at + k - 1) <=> q \in at..(at + (k - 1) - 1))
      BY <1>1, <1>2, <1>3, <1>4, <1>8, <2>2
    <3> QED BY <1>5, <1>8, <2>2, <3>1
  <2> QED BY <2>1, <2>2
<1> QED BY <1>1, <1>2, <1>8, <1>9, <1>10 DEF LaidIn

\* All the pieces are there, and the place for the entry behind them.
LEMMA LaidAll ==
  ASSUME NEW s \in Seq(SlotType), NEW at \in 1..(Len(s) + 1), NEW l \in Longs, NEW short, NEW u,
         LaidIn(s, u, at, l, short, LongSlots[l]),
         \A q \in at..(at + (LongSlots[l] + 1) - 1) : q <= Len(s) => s[q] = Del
  PROVE  RoomIn(s, u, at + LongSlots[l], LongSlots[l], l, short) /\ Len(s) <= Len(u)
<1>1. PICK n \in Nat \ {0} : n = LongSlots[l]
  BY DirsAssumption DEF Longs
<1>2. PICK m \in Nat : m = Len(s) /\ at \in 1..(m + 1) /\ DOMAIN s = 1..m
  BY LenProperties
<1>3. u \in Seq(SlotType) /\ Len(u) = IF at + n - 1 > m THEN at + n - 1 ELSE m
  BY <1>1, <1>2 DEF LaidIn
<1>4. PICK i \in Nat : i = Len(u) /\ DOMAIN u = 1..i
  BY <1>3, LenProperties
<1>5. \A q \in 1..i :
        IF q \in at..(at + n - 1) THEN u[q] = PieceOf(l, q - at + 1, short)
        ELSE q \in 1..m /\ u[q] = s[q]
  BY <1>1, <1>2, <1>4 DEF LaidIn
<1>6. \A q \in at..(at + n) : q <= m => s[q] = Del
  <2>1. at + (n + 1) - 1 = at + n
    BY <1>1, <1>2
  <2> QED BY <1>1, <1>2, <2>1
<1>7. PICK e \in Nat : e = at + n /\ e - n = at /\ e - 1 = at + n - 1
  <2>1. at \in Nat
    BY <1>2
  <2>2. at + n \in Nat /\ (at + n) - n = at /\ (at + n) - 1 = at + n - 1
    BY <1>1, <2>1
  <2> QED BY <2>2
<1>8. e \in 1..(i + 1) /\ n < e /\ m <= i /\ DOMAIN s \subseteq DOMAIN u
  <2>1. i = IF at + n - 1 > m THEN at + n - 1 ELSE m
    BY <1>3, <1>4
  <2>2. at \in Nat /\ 1 <= at /\ at <= m + 1
    BY <1>2
  <2>3. e \in 1..(i + 1) /\ n < e /\ m <= i
    <3>1. PICK b \in Nat : b = at
      BY <2>2
    <3>2. PICK k \in Nat : k = n /\ k >= 1
      BY <1>1
    <3>3. 1 <= b /\ b <= m + 1 /\ e = b + k /\ i = IF b + k - 1 > m THEN b + k - 1 ELSE m
      BY <1>7, <2>1, <2>2, <3>1, <3>2
    <3>4. e \in 1..(i + 1) /\ k < e /\ m <= i
      BY <3>2, <3>3
    <3> QED BY <3>2, <3>4
  <2>4. 1..m \subseteq 1..i
    BY <1>2, <1>4, <2>3
  <2> QED BY <1>2, <1>4, <2>3, <2>4
<1>9. \A q \in 1..i : q \in (e - n)..(e - 1) \/ (q \in DOMAIN s /\ u[q] = s[q])
  BY <1>2, <1>5, <1>7
<1>10. ASSUME NEW q \in (e - n)..(e - 1)
       PROVE  q \in DOMAIN u /\ u[q] = Piece(l, e - q, q = e - n, short) /\ (q \in DOMAIN s => s[q] = Del)
  <2>0. q \in Nat /\ at \in Nat /\ 1 <= at /\ at <= q /\ q <= at + n - 1
    BY <1>2, <1>7
  <2>1. q \in 1..i /\ q \in at..(at + n - 1) /\ q \in at..(at + n) /\ n - (q - at + 1) + 1 = e - q
        /\ (q - at + 1 = 1 <=> q = e - n)
    <3>1. PICK b \in Nat : b = at
      BY <2>0
    <3>2. PICK k \in Nat : k = n /\ k >= 1
      BY <1>1
    <3>3. 1 <= b /\ b <= q /\ q <= b + k - 1 /\ e = b + k /\ e <= i + 1 /\ q \in Nat
      BY <1>7, <1>8, <2>0, <3>1, <3>2
    <3>4. q \in 1..i /\ q \in b..(b + k - 1) /\ q \in b..(b + k) /\ k - (q - b + 1) + 1 = e - q
          /\ (q - b + 1 = 1 <=> q = e - k)
      BY <3>2, <3>3
    <3> QED BY <3>1, <3>2, <3>4
  <2>2. u[q] = PieceOf(l, q - at + 1, short)
    BY <1>5, <2>1
  <2>3. PICK y \in BOOLEAN : y = (q = e - n)
    OBVIOUS
  <2>4. y = (q - at + 1 = 1)
    BY <2>1, <2>3
  <2>5. u[q] = Piece(l, e - q, y, short)
    BY <1>1, <2>1, <2>2, <2>4 DEF PieceOf, fat_lfn_checksum
  <2>6. q \in DOMAIN s => s[q] = Del
    BY <1>2, <1>6, <2>1
  <2> QED BY <1>4, <2>1, <2>3, <2>5, <2>6
<1>11. e \in DOMAIN u => u[e] = Del
  <2>1. e \in 1..i => e \notin at..(at + n - 1) /\ e \in at..(at + n)
    <3>1. at \in Nat
      BY <1>2
    <3>2. PICK b \in Nat : b = at
      BY <3>1
    <3>3. PICK k \in Nat : k = n /\ k >= 1
      BY <1>1
    <3>4. e = b + k
      BY <1>7, <3>2, <3>3
    <3>5. e \notin b..(b + k - 1) /\ e \in b..(b + k)
      BY <3>3, <3>4
    <3> QED BY <3>2, <3>3, <3>5
  <2>2. e \in 1..i => e \in 1..m /\ u[e] = s[e]
    BY <1>5, <2>1
  <2> QED BY <1>4, <1>6, <2>1, <2>2
<1>12. RoomIn(s, u, e, n, l, short)
  BY <1>1, <1>3, <1>4, <1>8, <1>9, <1>10, <1>11 DEF RoomIn
<1> QED BY <1>1, <1>2, <1>4, <1>7, <1>8, <1>12

\* Slots that are all entries of s, and pieces in place of free ones, are slots
\* of a directory as s are.
LEMMA RoomSlots ==
  ASSUME NEW t, TreeOK(t), NEW d \in LiveIn(t), NEW u, NEW at, NEW n, NEW l, NEW name,
         RoomIn(t.dir[d], u, at, n, l, name), Len(t.dir[d]) <= Len(u)
  PROVE  /\ SlotsOK(u, Base(d))
         /\ \A p \in 1..Base(d) : u[p] = t.dir[d][p]
         /\ KidsIn(u, Base(d)) = KidsIn(t.dir[d], Base(d))
         /\ at > Base(d)
<1>1. PICK s : s = t.dir[d]
  OBVIOUS
<1>2. /\ s \in Seq(SlotType) /\ Len(s) \in Nat /\ DOMAIN s = 1..Len(s)
      /\ Base(d) \in 0..Len(s)
      /\ \A p \in 1..Base(d) : p \in DOMAIN s /\ IsEntry(s[p]) /\ s[p] # Del
  BY <1>1, FirstSlots
<1>3. SlotsOK(s, Base(d))
  BY <1>1 DEF TreeOK
<1>4. /\ EntriesIn(u) = EntriesIn(s) /\ \A p \in EntriesIn(s) : u[p] = s[p]
      /\ NamesIn(u)
  BY <1>1, <1>3, NamesRoom DEF SlotsOK
<1>5. u \in Seq(SlotType) /\ Len(u) \in Nat
  BY LenProperties DEF RoomIn
<1>6. SubdirsIn(u, Base(d)) = SubdirsIn(s, Base(d))
      /\ \A p \in SubdirsIn(s, Base(d)) : u[p] = s[p]
  <2>1. \A p : p \in SubdirsIn(u, Base(d)) <=> p \in EntriesIn(u) /\ p > Base(d) /\ IsDir(u[p])
    BY DEF SubdirsIn, EntriesIn, IsDir
  <2>2. \A p : p \in SubdirsIn(s, Base(d)) <=> p \in EntriesIn(s) /\ p > Base(d) /\ IsDir(s[p])
    BY DEF SubdirsIn, EntriesIn, IsDir
  <2> QED BY <1>4, <2>1, <2>2
<1>7. KidsIn(u, Base(d)) = KidsIn(s, Base(d))
  BY <1>6 DEF KidsIn
<1>8. \A p \in 1..Base(d) : p \in EntriesIn(s)
  BY <1>2 DEF EntriesIn
<1>9. at > Base(d)
  <2> SUFFICES ASSUME ~(at > Base(d)) PROVE FALSE
    OBVIOUS
  <2>1. at \in 1..(Len(u) + 1)
    BY DEF RoomIn
  <2>2. at \in 1..Base(d)
    BY <1>2, <1>5, <2>1
  <2>3. at \in EntriesIn(u)
    BY <1>4, <1>8, <2>2
  <2>4. u[at] = Del
    BY <2>3 DEF RoomIn, EntriesIn
  <2> QED BY <1>2, <1>4, <1>8, <2>2, <2>4
<1>10. SlotsOK(u, Base(d))
  <2>1. Base(d) <= Len(u)
    BY <1>1, <1>2, <1>5
  <2>2. \A p \in EntriesIn(u) : p > Base(d) => u[p].name \in Shorts
    BY <1>3, <1>4 DEF SlotsOK
  <2>3. \A p, q \in SubdirsIn(u, Base(d)) : u[p].first = u[q].first => p = q
    BY <1>3, <1>6 DEF SlotsOK
  <2> QED BY <1>4, <1>5, <2>1, <2>2, <2>3 DEF SlotsOK
<1> QED BY <1>1, <1>4, <1>7, <1>8, <1>9, <1>10

\* Room for a long name.
LEMMA LongRoom ==
  ASSUME NEW t, TreeOK(t), NEW d \in LiveIn(t), NEW l \in Longs, NEW short \in Aliases
  PROVE  LET r == fat_alloc_lfn_entry(t, d, l, short)
         IN  IF r.at = 0 THEN NoRoom(t, r.t, d)
             ELSE RoomFor(t, r.t, d, r.at, LongSlots[l], l, short)
<1>1. PICK n \in Nat \ {0} : n = LongSlots[l]
  BY DirsAssumption DEF Longs
<1>2. PICK got, r : got = fat_dir_alloc_run(t, d, n + 1) /\ r = fat_alloc_lfn_entry(t, d, l, short)
  OBVIOUS
<1>3. Roomier(t, got.t, d) /\ (got.at = 0 \/ RunAt(t, got.t, d, got.at, n + 1))
  <2>1. PICK c \in Nat \ {0} : c = n + 1
    BY <1>1
  <2> QED BY <1>2, <2>1, RunFound
<1>4. r = IF got.at = 0 THEN got
          ELSE [t |-> Laying(got.t, d, got.at, l, short)[n], at |-> got.at + n]
  BY <1>1, <1>2 DEF fat_alloc_lfn_entry, Laying, PieceOf
<1>5. CASE got.at = 0
  BY <1>2, <1>3, <1>4, <1>5 DEF NoRoom
<1>6. CASE got.at # 0
  <2>1. PICK v, at : v = got.t /\ at = got.at
    OBVIOUS
  <2>2. PICK s : s = t.dir[d]
    OBVIOUS
  <2>3. s \in Seq(SlotType) /\ Len(s) \in Nat /\ d \in {Root} \cup Clusters
    BY <2>2, FirstSlots
  <2>4. Roomier(t, v, d) /\ RunAt(t, v, d, at, n + 1)
    BY <1>3, <1>6, <2>1
  <2>5. /\ v \in TreeType /\ v.dir[d] = s /\ at \in 1..(Len(s) + 1) /\ at \in Nat \ {0}
        /\ at + (n + 1) - 1 <= Capacity(v, d)
        /\ \A q \in at..(at + (n + 1) - 1) : q <= Len(s) => s[q] = Del
    BY <2>2, <2>3, <2>4 DEF Roomier, TreeOK, RunAt
  <2>6. PICK P : P = Laying(v, d, at, l, short)
    OBVIOUS
  <2>7. /\ P[0] = v /\ \A k \in 0..n : P[k] \in TreeType
        /\ \A k \in 1..n : /\ PieceOf(l, k, short) \in SlotType
                           /\ P[k] = Set(P[k - 1], d, at + k - 1, PieceOf(l, k, short))
    <3>1. LET Q == Laying(v, d, at, l, short)
          IN  /\ Q[0] = v
              /\ \A k \in 0..LongSlots[l] : Q[k] \in TreeType
              /\ \A k \in 1..LongSlots[l] :
                   /\ PieceOf(l, k, short) \in SlotType
                   /\ Q[k] = Set(Q[k - 1], d, at + k - 1, PieceOf(l, k, short))
      <4>1. v \in TreeType /\ d \in {Root} \cup Clusters /\ at \in Nat \ {0}
        BY <2>3, <2>5
      <4> QED BY <4>1, LayingSteps
    <3> QED BY <1>1, <2>6, <3>1
  <2>8. r.t = P[n] /\ r.at = at + n
    <3>1. r = [t |-> P[n], at |-> at + n]
      BY <1>4, <1>6, <2>1, <2>6
    <3> QED BY <3>1
  <2> DEFINE S == {k \in 0..n : /\ LaidIn(s, P[k].dir[d], at, l, short, k)
                                /\ P[k].owner = v.owner
                                /\ \A x \in {Root} \cup Clusters : x # d => P[k].dir[x] = v.dir[x]}
  <2>9. 0 \in S
    <3>1. PICK z \in Nat : z = 0
      OBVIOUS
    <3>2. LaidIn(s, s, at, l, short, z)
      <4>1. Len(s) = IF at + z - 1 > Len(s) THEN at + z - 1 ELSE Len(s)
        BY <2>3, <2>5, <3>1
      <4>2. \A q \in 1..Len(s) : q \notin at..(at + z - 1)
        BY <2>3, <2>5, <3>1
      <4> QED BY <2>3, <4>1, <4>2 DEF LaidIn
    <3> QED BY <1>1, <2>5, <2>7, <3>1, <3>2
  <2>10. ASSUME NEW k \in 1..n, k - 1 \in S PROVE k \in S
    <3>1. PICK w, w2, p, x : /\ w = P[k - 1] /\ w2 = P[k] /\ p = at + k - 1 /\ x = PieceOf(l, k, short)
      OBVIOUS
    <3>2. /\ LaidIn(s, w.dir[d], at, l, short, k - 1) /\ w.owner = v.owner
          /\ \A y \in {Root} \cup Clusters : y # d => w.dir[y] = v.dir[y]
      BY <2>10, <3>1
    <3>3. k - 1 \in 0..n /\ k \in 0..n /\ k \in Nat \ {0} /\ p \in Nat \ {0}
      BY <1>1, <2>5, <3>1
    <3>4. w \in TreeType /\ w2 = Set(w, d, p, x) /\ x \in SlotType
      BY <2>7, <3>1, <3>3
    <3>5. Written(w, w2, d, Put(w.dir[d], p, x))
      BY <2>3, <3>3, <3>4, SetType
    <3>6. LaidIn(s, Put(w.dir[d], p, x), at, l, short, k)
      <4>1. PICK u : u = w.dir[d]
        OBVIOUS
      <4>2. LaidIn(s, u, at, l, short, k - 1) /\ PieceOf(l, k, short) \in SlotType
        BY <3>1, <3>2, <3>4, <4>1
      <4>3. LaidIn(s, Put(u, at + k - 1, PieceOf(l, k, short)), at, l, short, k)
        BY <2>3, <2>5, <3>3, <4>2, LaidOne
      <4> QED BY <3>1, <4>1, <4>3
    <3>7. /\ w2.owner = v.owner /\ w2.dir[d] = Put(w.dir[d], p, x)
          /\ \A y \in {Root} \cup Clusters : y # d => w2.dir[y] = v.dir[y]
      BY <3>2, <3>5 DEF Written
    <3> QED BY <3>1, <3>3, <3>6, <3>7
  <2> HIDE DEF S
  <2>11. \A k \in 0..n : k \in S
    <3>1. n \in Nat
      BY <1>1
    <3> QED BY <2>9, <2>10, <3>1, Upwards
  <2>12. PICK v2, u : v2 = P[n] /\ u = v2.dir[d]
    OBVIOUS
  <2>13. n \in 0..n
    BY <1>1
  <2>14. /\ LaidIn(s, u, at, l, short, n) /\ v2 \in TreeType /\ v2.owner = v.owner
         /\ \A x \in {Root} \cup Clusters : x # d => v2.dir[x] = v.dir[x]
    BY <2>7, <2>11, <2>12, <2>13 DEF S
  <2>15. RoomIn(s, u, at + n, n, l, short) /\ Len(s) <= Len(u)
    BY <1>1, <2>3, <2>5, <2>14, LaidAll
  <2>16. Written(v, v2, d, u)
    BY <2>12, <2>14 DEF Written
  <2>17. TreeOK(v) /\ LiveIn(v) = LiveIn(t) /\ v.dir = t.dir
    BY <2>4 DEF Roomier
  <2>18. /\ SlotsOK(u, Base(d)) /\ \A p \in 1..Base(d) : u[p] = v.dir[d][p]
         /\ KidsIn(u, Base(d)) = KidsIn(v.dir[d], Base(d)) /\ at + n > Base(d)
    <3>1. RoomIn(v.dir[d], u, at + n, n, l, short) /\ Len(v.dir[d]) <= Len(u)
      BY <2>5, <2>15
    <3>2. PICK e : e = at + n
      OBVIOUS
    <3>3. TreeOK(v) /\ d \in LiveIn(v) /\ RoomIn(v.dir[d], u, e, n, l, short)
      BY <2>17, <3>1, <3>2
    <3>4. /\ SlotsOK(u, Base(d))
          /\ \A p \in 1..Base(d) : u[p] = v.dir[d][p]
          /\ KidsIn(u, Base(d)) = KidsIn(v.dir[d], Base(d))
          /\ e > Base(d)
      <4>1. Len(v.dir[d]) <= Len(u)
        BY <3>1
      <4>2. TreeOK(v)
        BY <3>3
      <4>3. d \in LiveIn(v)
        BY <3>3
      <4>4. RoomIn(v.dir[d], u, e, n, l, short)
        BY <3>3
      <4> QED BY <4>1, <4>2, <4>3, <4>4, RoomSlots
    <3> QED BY <3>2, <3>4
  <2>19. Len(u) <= Capacity(v, d) /\ at + n <= Capacity(v2, d)
    <3>1. Len(u) = IF at + n - 1 > Len(s) THEN at + n - 1 ELSE Len(s)
      BY <2>14 DEF LaidIn
    <3>2. Len(s) <= Capacity(v, d)
      BY <2>5, <2>17 DEF TreeOK
    <3>3. Capacity(v, d) \in Nat /\ Capacity(v2, d) = Capacity(v, d)
      <4>1. \A c \in Clusters : v.owner[c] = d <=> v2.owner[c] = d
        BY <2>14
      <4> QED BY <4>1, CapacitySame
    <3> QED BY <1>1, <2>3, <2>5, <3>1, <3>2, <3>3
  <2>20. TreeOK(v2) /\ LiveIn(v2) = LiveIn(v)
    BY <2>16, <2>17, <2>18, <2>19, OneDir
  <2>21. \A k \in LiveIn(t) \ {Root} : Parent(v2, k) = Parent(t, k)
    <3> TAKE k \in LiveIn(t) \ {Root}
    <3>1. k \in {Root} \cup Clusters
      BY Basics
    <3>2. k # d => v2.dir[k] = t.dir[k]
      BY <2>14, <2>17, <3>1
    <3>3. k = d => v2.dir[k][2] = t.dir[k][2]
      <4>1. k = d => 2 \in 1..Base(d)
        BY DEF Base
      <4> QED BY <2>12, <2>17, <2>18, <4>1
    <3> QED BY <3>2, <3>3 DEF Parent
  <2>22. \A x \in {Root} \cup Clusters : x # d => v2.dir[x] = t.dir[x]
    BY <2>14, <2>17
  <2>23. RoomFor(t, v2, d, at + n, n, l, short)
    BY <2>2, <2>12, <2>15, <2>17, <2>18, <2>19, <2>20, <2>21, <2>22 DEF RoomFor
  <2>24. at + n # 0
    BY <1>1, <2>5
  <2> QED BY <1>1, <1>2, <2>8, <2>12, <2>23, <2>24
<1> QED BY <1>5, <1>6

----------------------------------------------------------------------------
(* Looking names up.                                                       *)

\* What is found is an entry of that name.
LEMMA SearchIs ==
  ASSUME NEW s \in Seq(SlotType), NEW name
  PROVE  LET p == fat_dir_search(s, name)
         IN  IF p = 0 THEN \A q \in EntriesIn(s) : s[q].name # name
             ELSE p \in EntriesIn(s) /\ s[p].name = name
<1>1. PICK hits : hits = {p \in DOMAIN s : IsEntry(s[p]) /\ s[p].name = name}
  OBVIOUS
<1>2. PICK p : p = fat_dir_search(s, name)
  OBVIOUS
<1>3. p = IF hits = {} THEN 0 ELSE Min(hits)
  BY <1>1, <1>2 DEF fat_dir_search
<1>4. hits \in SUBSET Nat /\ 0 \notin hits
  BY <1>1, LenProperties
<1>5. hits # {} => p \in hits
  BY <1>3, <1>4, MinIn
<1>6. \A q : q \in hits <=> q \in EntriesIn(s) /\ s[q].name = name
  BY <1>1 DEF EntriesIn
<1> QED BY <1>2, <1>3, <1>4, <1>5, <1>6

\* An entry shows its long name, or its 8.3 name when it has none.
LEMMA ShownIs ==
  ASSUME NEW s \in Seq(SlotType), NamesIn(s), NEW p \in EntriesIn(s)
  PROVE  Shown(s, p) = IF s[p].long = NoLong THEN s[p].name ELSE s[p].long
BY OwnName DEF Shown

\* By long names the entries are found that have that name, long or short.
LEMMA LookupIs ==
  ASSUME NEW s \in Seq(SlotType), NamesIn(s), NEW name, name # NoLong
  PROVE  LET p == lfn_lookup(s, name)
         IN  IF p = 0 THEN \A q \in EntriesIn(s) : s[q].name # name /\ s[q].long # name
             ELSE p \in EntriesIn(s) /\ name \in {s[p].name, s[p].long}
<1>1. PICK hits : hits = {p \in DOMAIN s : IsEntry(s[p]) /\ name \in {s[p].name, Shown(s, p)}}
  OBVIOUS
<1>2. PICK p : p = lfn_lookup(s, name)
  OBVIOUS
<1>3. p = IF hits = {} THEN 0 ELSE Min(hits)
  BY <1>1, <1>2 DEF lfn_lookup
<1>4. hits \in SUBSET Nat /\ 0 \notin hits
  BY <1>1, LenProperties
<1>5. hits # {} => p \in hits
  BY <1>3, <1>4, MinIn
<1>6. \A q : q \in hits <=> q \in EntriesIn(s) /\ name \in {s[q].name, s[q].long}
  <2>1. \A q : q \in hits <=> q \in EntriesIn(s) /\ name \in {s[q].name, Shown(s, q)}
    BY <1>1 DEF EntriesIn
  <2>2. \A q \in EntriesIn(s) : name \in {s[q].name, Shown(s, q)} <=> name \in {s[q].name, s[q].long}
    BY ShownIs
  <2> QED BY <2>1, <2>2
<1> QED BY <1>2, <1>3, <1>4, <1>5, <1>6

\* The long names whose aliases have the base b.
SharedBase(b) == {l \in Longs : LongBase[l] = b}

\* A base has aliases for all its long names: the one made is new.
LEMMA FreshAlias ==
  ASSUME NEW s \in Seq(SlotType), NamesIn(s), NEW l \in Longs,
         IsFiniteSet(SharedBase(LongBase[l])), Cardinality(SharedBase(LongBase[l])) <= MaxAlias,
         \A p \in EntriesIn(s) : s[p].long # l
  PROVE  /\ fat_make_shortname(s, l) \in AliasesOf(l)
         /\ \A p \in EntriesIn(s) : s[p].name # fat_make_shortname(s, l)
<1>1. PICK b, M : b = LongBase[l] /\ M = MaxAlias
  OBVIOUS
<1>2. M \in Nat \ {0}
  BY <1>1, DirsAssumption
<1>3. PICK unused : unused = {n \in 1..M : fat_dir_search(s, <<b, n>>) = 0}
  OBVIOUS
<1>4. fat_make_shortname(s, l) = <<b, IF unused = {} THEN M ELSE Min(unused)>>
  BY <1>1, <1>3 DEF fat_make_shortname
<1>5. \A n \in 1..M : <<b, n>> \in AliasesOf(l) /\ <<b, n>> \in Aliases
  BY <1>1 DEF AliasesOf, Aliases
<1>6. unused # {}
  <2> SUFFICES ASSUME unused = {} PROVE FALSE
    OBVIOUS
  <2> DEFINE at(n) == fat_dir_search(s, <<b, n>>)
             f == [n \in 1..M |-> s[at(n)].long]
  <2>0. PICK L : L = SharedBase(b)
    OBVIOUS
  <2>1. ASSUME NEW n \in 1..M
        PROVE  /\ at(n) \in EntriesIn(s) /\ s[at(n)].name = <<b, n>>
               /\ s[at(n)].long # NoLong /\ s[at(n)].long \in L \ {l}
    <3>1. at(n) # 0
      BY <1>3
    <3>2. at(n) \in EntriesIn(s) /\ s[at(n)].name = <<b, n>>
      BY <3>1, SearchIs
    <3>3. PICK p : p = at(n)
      OBVIOUS
    <3>4. p \in EntriesIn(s) /\ s[p].name \in Aliases /\ s[p].name = <<b, n>>
      BY <1>5, <3>2, <3>3
    <3>5. s[p].long # NoLong /\ s[p].name \in AliasesOf(s[p].long)
      BY <3>4 DEF NamesIn
    <3>6. s[p].long \in Longs
      BY <3>4, <3>5, RunIs
    <3>7. LongBase[s[p].long] = b
      BY <3>4, <3>5 DEF AliasesOf
    <3>8. s[p].long \in L \ {l}
      BY <2>0, <3>4, <3>6, <3>7 DEF SharedBase
    <3> QED BY <3>2, <3>3, <3>5, <3>8
  <2>2. f \in [1..M -> L \ {l}]
    BY <2>1
  <2>3. IsFiniteSet(L \ {l}) /\ Cardinality(L \ {l}) = Cardinality(L) - 1
        /\ Cardinality(L) \in Nat /\ Cardinality(L) <= M
    <3>1. IsFiniteSet(L) /\ Cardinality(L) <= M
      BY <1>1, <2>0
    <3>2. l \in L
      BY <1>1, <2>0 DEF SharedBase
    <3> QED BY <3>1, <3>2, FS_RemoveElement, FS_CardinalityType
  <2>4. IsFiniteSet(1..M) /\ Cardinality(1..M) = M
    <3>1. 1 \in Int /\ M \in Int /\ ~(1 > M) /\ M - 1 + 1 = M
      BY <1>2
    <3> QED BY <3>1, FS_Interval
  <2>5. Cardinality(L \ {l}) < Cardinality(1..M)
    BY <1>2, <2>3, <2>4
  <2> HIDE DEF f
  <2>6. \E x, y \in 1..M : x # y /\ f[x] = f[y]
    <3>1. PICK S, T : S = 1..M /\ T = L \ {l}
      OBVIOUS
    <3>2. IsFiniteSet(S) /\ IsFiniteSet(T) /\ Cardinality(T) < Cardinality(S) /\ f \in [S -> T]
      BY <2>2, <2>3, <2>4, <2>5, <3>1
    <3>3. \E x, y \in S : x # y /\ f[x] = f[y]
      BY <3>2, FS_PigeonHole
    <3> QED BY <3>1, <3>3
  <2>7. PICK x, y \in 1..M : x # y /\ f[x] = f[y]
    BY <2>6
  <2>8. s[at(x)].long = s[at(y)].long
    BY <2>7 DEF f
  <2>9. at(x) = at(y)
    <3>1. PICK p, q : p = at(x) /\ q = at(y)
      OBVIOUS
    <3>2. p \in EntriesIn(s) /\ q \in EntriesIn(s) /\ s[p].long = s[q].long /\ s[p].long # NoLong
      BY <2>1, <2>7, <2>8, <3>1
    <3>3. p = q
      BY <3>2 DEF NamesIn
    <3> QED BY <3>1, <3>3
  <2>10. <<b, x>> = <<b, y>>
    BY <2>1, <2>9
  <2> QED BY <2>7, <2>10
<1>7. Min(unused) \in unused
  <2>1. unused \in SUBSET Nat
    BY <1>3
  <2> QED BY <1>6, <2>1, MinIn
<1>8. PICK n : n = Min(unused) /\ n \in 1..M /\ fat_dir_search(s, <<b, n>>) = 0
  BY <1>3, <1>7
<1>9. fat_make_shortname(s, l) = <<b, n>>
  BY <1>4, <1>6, <1>8
<1>10. \A p \in EntriesIn(s) : s[p].name # <<b, n>>
  BY <1>8, SearchIs
<1> QED BY <1>5, <1>8, <1>9, <1>10

----------------------------------------------------------------------------
\* A name short of a directory: what Room says of the entry that is to come.
FreshFor(s, short, long) ==
  /\ short \in Shorts /\ long \in Longs \cup {NoLong}
  /\ IF long = NoLong THEN short \notin Aliases ELSE short \in AliasesOf(long)
  /\ \A p \in EntriesIn(s) : s[p].name # short /\ (long # NoLong => s[p].long # long)

\* A hypothesis of the theorems: there are enough aliases for the long names
\* that share a base (999 in the code, which takes the last one again when
\* there are more).
EnoughAliases ==
  \A b \in {LongBase[l] : l \in Longs} :
    IsFiniteSet(SharedBase(b)) /\ Cardinality(SharedBase(b)) <= MaxAlias

\* Room: a name that is new, and a place for its entry, unless there is none.
LEMMA RoomIs ==
  ASSUME EnoughAliases, NEW t, TreeOK(t), NEW d \in LiveIn(t), NEW name \in ShortNames \cup Longs,
         \A p \in EntriesIn(t.dir[d]) : t.dir[d][p].name # name /\ t.dir[d][p].long # name
  PROVE  LET r == Room(t, d, name)
         IN  /\ FreshFor(t.dir[d], r.short, r.long)
             /\ IF r.at = 0 THEN NoRoom(t, r.t, d)
                ELSE \E n : /\ RoomFor(t, r.t, d, r.at, n, r.long, r.short)
                            /\ r.long # NoLong => n = LongSlots[r.long]
<1>1. PICK s, r : s = t.dir[d] /\ r = Room(t, d, name)
  OBVIOUS
<1>2. s \in Seq(SlotType) /\ NamesIn(s)
  BY <1>1 DEF TreeOK, SlotsOK
<1>3. CASE name \in ShortNames
  <2>1. fat_is_short_name(name) /\ name \in Shorts /\ name \notin Aliases
    BY <1>3, NamesDiffer DEF Shorts
  <2>2. PICK got : got = fat_dir_alloc_slot(t, d)
    OBVIOUS
  <2>3. r = [t |-> got.t, at |-> got.at, short |-> name, long |-> NoLong]
    BY <1>1, <2>1, <2>2 DEF Room
  <2>4. r.t = got.t /\ r.at = got.at /\ r.short = name /\ r.long = NoLong
    BY <2>3
  <2>5. Roomier(t, got.t, d) /\ (got.at = 0 \/ RunAt(t, got.t, d, got.at, 1))
    BY <2>2, SlotFound
  <2>6. FreshFor(s, r.short, r.long)
    BY <1>1, <2>1, <2>4 DEF FreshFor
  <2>7. r.at = 0 => NoRoom(t, r.t, d)
    BY <2>4, <2>5 DEF NoRoom
  <2>8. r.at # 0 => RoomFor(t, r.t, d, r.at, 0, r.long, r.short)
    BY <2>4, <2>5, SlotRoom
  <2> QED BY <1>1, <2>4, <2>6, <2>7, <2>8
<1>4. CASE name \in Longs
  <2>1. ~fat_is_short_name(name) /\ name # NoLong
    BY <1>4, NamesDiffer
  <2>2. PICK short : short = fat_make_shortname(s, name)
    OBVIOUS
  <2>3. short \in AliasesOf(name) /\ \A p \in EntriesIn(s) : s[p].name # short
    <3>1. /\ IsFiniteSet(SharedBase(LongBase[name]))
          /\ Cardinality(SharedBase(LongBase[name])) <= MaxAlias
      BY <1>4 DEF EnoughAliases
    <3>2. \A p \in EntriesIn(s) : s[p].long # name
      BY <1>1
    <3> QED BY <1>2, <1>4, <2>2, <3>1, <3>2, FreshAlias
  <2>9. short \in Aliases
    BY <1>4, <2>3, AliasesAre
  <2>4. PICK got : got = fat_alloc_lfn_entry(t, d, name, short)
    OBVIOUS
  <2>5. r = [t |-> got.t, at |-> got.at, short |-> short, long |-> name]
    BY <1>1, <2>1, <2>2, <2>4 DEF Room
  <2>6. r.t = got.t /\ r.at = got.at /\ r.short = short /\ r.long = name
    BY <2>5
  <2>7. IF got.at = 0 THEN NoRoom(t, got.t, d)
        ELSE RoomFor(t, got.t, d, got.at, LongSlots[name], name, short)
    BY <1>4, <2>4, <2>9, LongRoom
  <2>8. FreshFor(s, r.short, r.long)
    BY <1>1, <1>4, <2>1, <2>3, <2>6, <2>9 DEF FreshFor, Shorts
  <2> QED BY <1>1, <2>6, <2>7, <2>8
<1> QED BY <1>3, <1>4

----------------------------------------------------------------------------
(* What the calls do to one directory.                                     *)

\* The tree t2 has the directories of t, and they have not become shorter.
Kept(t, t2) ==
  /\ TreeOK(t2)
  /\ \A d \in LiveIn(t) : d \in LiveIn(t2) /\ Len(t.dir[d]) <= Len(t2.dir[d])

\* Kept, then kept again.
LEMMA KeptTwice ==
  ASSUME NEW t, TreeOK(t), NEW t1, Kept(t, t1), NEW t2, Kept(t1, t2)
  PROVE  Kept(t, t2)
<1>1. ASSUME NEW d \in LiveIn(t) PROVE d \in LiveIn(t2) /\ Len(t.dir[d]) <= Len(t2.dir[d])
  <2>1. d \in LiveIn(t1) /\ Len(t.dir[d]) <= Len(t1.dir[d]) /\ TreeOK(t1)
    BY DEF Kept
  <2>2. d \in LiveIn(t2) /\ Len(t1.dir[d]) <= Len(t2.dir[d]) /\ TreeOK(t2)
    BY <2>1 DEF Kept
  <2>3. Len(t.dir[d]) \in Nat
    BY FirstSlots
  <2>4. Len(t1.dir[d]) \in Nat
    BY <2>1, FirstSlots
  <2>5. Len(t2.dir[d]) \in Nat
    BY <2>2, FirstSlots
  <2> QED BY <2>1, <2>2, <2>3, <2>4, <2>5
<1> QED BY <1>1 DEF Kept

\* Nothing but clusters were added.
LEMMA NoRoomKept ==
  ASSUME NEW t, TreeOK(t), NEW d, NEW v, Roomier(t, v, d)
  PROVE  Kept(t, v)
<1>1. ASSUME NEW x \in LiveIn(t) PROVE x \in LiveIn(v) /\ Len(t.dir[x]) <= Len(v.dir[x])
  <2>1. Len(t.dir[x]) \in Nat
    BY FirstSlots
  <2> QED BY <2>1 DEF Roomier
<1> QED BY <1>1 DEF Kept, Roomier

\* Only pieces of a long name were added.
LEMMA RoomKept ==
  ASSUME NEW t, TreeOK(t), NEW d \in LiveIn(t), NEW v, NEW at, NEW n, NEW l, NEW name,
         RoomFor(t, v, d, at, n, l, name)
  PROVE  Kept(t, v)
<1>1. ASSUME NEW x \in LiveIn(t) PROVE x \in LiveIn(v) /\ Len(t.dir[x]) <= Len(v.dir[x])
  <2>1. Len(t.dir[x]) \in Nat /\ x \in {Root} \cup Clusters
    BY FirstSlots
  <2>2. x # d => v.dir[x] = t.dir[x]
    BY <2>1 DEF RoomFor
  <2>3. x = d => Len(t.dir[x]) <= Len(v.dir[x])
    BY DEF RoomFor
  <2> QED BY <2>1, <2>2, <2>3 DEF RoomFor
<1> QED BY <1>1 DEF Kept, RoomFor

\* One directory is written, and leads to what it did from the same places.
LEMMA OneDirKept ==
  ASSUME NEW t, TreeOK(t), NEW d \in LiveIn(t), NEW t2, NEW u, Written(t, t2, d, u),
         u \in Seq(SlotType), NamesIn(u), Len(t.dir[d]) <= Len(u), Len(u) <= Capacity(t, d),
         \A p \in 1..Base(d) : u[p] = t.dir[d][p],
         \A p \in EntriesIn(u) : p > Base(d) => u[p].name \in Shorts,
         SubdirsIn(u, Base(d)) = SubdirsIn(t.dir[d], Base(d)),
         \A p \in SubdirsIn(u, Base(d)) : u[p].first = t.dir[d][p].first
  PROVE  Kept(t, t2) /\ LiveIn(t2) = LiveIn(t)
<1>1. PICK s : s = t.dir[d]
  OBVIOUS
<1>2. PICK b : b = Base(d) /\ b \in 0..Len(s) /\ Len(s) \in Nat
  BY <1>1, FirstSlots
<1>3. SlotsOK(s, b)
  BY <1>1, <1>2 DEF TreeOK
<1>4. SubdirsIn(u, b) = SubdirsIn(s, b) /\ \A p \in SubdirsIn(s, b) : u[p].first = s[p].first
  BY <1>1, <1>2
<1>5. Len(u) \in Nat
  BY LenProperties
<1>6. SlotsOK(u, b)
  <2>1. \A p, q \in SubdirsIn(u, b) : u[p].first = u[q].first => p = q
    BY <1>3, <1>4 DEF SlotsOK
  <2>2. b <= Len(u)
    BY <1>1, <1>2, <1>5
  <2>3. \A p \in EntriesIn(u) : p > b => u[p].name \in Shorts
    BY <1>2
  <2> QED BY <2>1, <2>2, <2>3 DEF SlotsOK
<1>7. KidsIn(u, b) = KidsIn(s, b)
  BY <1>4 DEF KidsIn
<1>8. TreeOK(t2) /\ LiveIn(t2) = LiveIn(t)
  BY <1>1, <1>2, <1>6, <1>7, OneDir
<1>9. ASSUME NEW x \in LiveIn(t) PROVE x \in LiveIn(t2) /\ Len(t.dir[x]) <= Len(t2.dir[x])
  <2>1. Len(t.dir[x]) \in Nat /\ x \in {Root} \cup Clusters
    BY FirstSlots
  <2>2. x # d => t2.dir[x] = t.dir[x]
    BY <2>1 DEF Written
  <2>3. x = d => Len(t.dir[x]) <= Len(t2.dir[x])
    BY DEF Written
  <2> QED BY <1>8, <2>1, <2>2, <2>3
<1> QED BY <1>8, <1>9 DEF Kept

\* The entry e has come to the slots s, at at; pieces of its long name may have too.
EntryIn(s, w, b, at, e) ==
  /\ w \in Seq(SlotType) /\ NamesIn(w) /\ Len(s) <= Len(w)
  /\ at \in EntriesIn(w) /\ at > b /\ w[at] = e /\ at \notin EntriesIn(s)
  /\ EntriesIn(w) = EntriesIn(s) \cup {at}
  /\ \A p \in EntriesIn(s) : w[p] = s[p]

\* The entry is written where there is room for it.
LEMMA EntryPut ==
  ASSUME NEW t, TreeOK(t), NEW d \in LiveIn(t), NEW v, NEW at, NEW n, NEW e \in EntryType,
         RoomFor(t, v, d, at, n, e.long, e.name), e.long # NoLong => n = LongSlots[e.long],
         FreshFor(t.dir[d], e.name, e.long)
  PROVE  /\ EntryIn(t.dir[d], Put(v.dir[d], at, e), Base(d), at, e)
         /\ Len(Put(v.dir[d], at, e)) <= Capacity(v, d)
         /\ \A p \in EntriesIn(v.dir[d]) : Put(v.dir[d], at, e)[p] = v.dir[d][p]
         /\ EntriesIn(v.dir[d]) = EntriesIn(t.dir[d])
         /\ Len(v.dir[d]) <= Len(Put(v.dir[d], at, e))
         /\ Written(v, Set(v, d, at, e), d, Put(v.dir[d], at, e))
<1>1. PICK s, u, w : s = t.dir[d] /\ u = v.dir[d] /\ w = Put(u, at, e)
  OBVIOUS
<1>2. PICK l, name : l = e.long /\ name = e.name
  OBVIOUS
<1>3. /\ RoomIn(s, u, at, n, l, name) /\ Len(s) <= Len(u) /\ at > Base(d) /\ at <= Capacity(v, d)
      /\ TreeOK(v) /\ d \in LiveIn(v)
  BY <1>1, <1>2 DEF RoomFor
<1>4. s \in Seq(SlotType) /\ NamesIn(s) /\ Len(s) \in Nat /\ d \in {Root} \cup Clusters
  BY <1>1, FirstSlots DEF TreeOK, SlotsOK
<1>5. e \in SlotType /\ IsEntry(e)
  BY SlotKinds DEF SlotType
<1>6. NamesIn(w)
  <2>1. \A p \in EntriesIn(s) : s[p].name # e.name /\ (l # NoLong => s[p].long # l)
    BY <1>1, <1>2 DEF FreshFor
  <2>2. IF l = NoLong THEN e.name \notin Aliases ELSE e.name \in AliasesOf(l) /\ n = LongSlots[l]
    BY <1>2 DEF FreshFor
  <2>3. RoomIn(s, u, at, n, l, e.name) /\ e.long = l
    BY <1>2, <1>3
  <2>4. NamesIn(Put(u, at, e))
    BY <1>4, <2>1, <2>2, <2>3, NamesPut
  <2> QED BY <1>1, <2>4
<1>7. /\ EntriesIn(u) = EntriesIn(s) /\ \A p \in EntriesIn(s) : u[p] = s[p]
  BY <1>3, <1>4, NamesRoom
<1>8. u \in Seq(SlotType) /\ Len(u) \in Nat /\ DOMAIN u = 1..Len(u) /\ at \in 1..(Len(u) + 1)
  BY <1>3, LenProperties DEF RoomIn
<1>9. PutIn(u, at, e, w)
  BY <1>1, <1>5, <1>8, PutSlot
<1>10. /\ w \in Seq(SlotType) /\ Len(w) = (IF at > Len(u) THEN at ELSE Len(u))
       /\ DOMAIN w = DOMAIN u \cup {at} /\ w[at] = e
       /\ \A q \in DOMAIN u : q # at => w[q] = u[q]
  BY <1>9 DEF PutIn
<1>11. at \notin EntriesIn(u)
  <2>1. at \in DOMAIN u => ~IsEntry(u[at])
    <3>1. at \in DOMAIN u => u[at] = Del
      BY <1>3 DEF RoomIn
    <3>2. ~IsEntry(Del)
      BY DEF Del, IsEntry
    <3> QED BY <3>1, <3>2
  <2> QED BY <2>1 DEF EntriesIn
<1>12. EntriesIn(w) = EntriesIn(u) \cup {at} /\ at \in EntriesIn(w)
       /\ \A p \in EntriesIn(u) : w[p] = u[p]
  <2>1. \A p : p \in EntriesIn(w) <=> p = at \/ p \in EntriesIn(u)
    BY <1>5, <1>10, <1>11 DEF EntriesIn
  <2>2. \A p \in EntriesIn(u) : p # at /\ p \in DOMAIN u
    BY <1>11 DEF EntriesIn
  <2> QED BY <1>10, <2>1, <2>2
<1>13. Len(u) <= Len(w) /\ Len(w) <= Capacity(v, d) /\ Len(s) <= Len(w)
  <2>1. Len(u) <= Capacity(v, d)
    BY <1>1, <1>3 DEF TreeOK
  <2> QED BY <1>3, <1>4, <1>8, <1>10, <2>1
<1>14. EntryIn(s, w, Base(d), at, e)
  BY <1>3, <1>6, <1>7, <1>10, <1>11, <1>12, <1>13 DEF EntryIn
<1>15. Written(v, Set(v, d, at, e), d, w)
  <2>1. v \in TreeType /\ at \in Nat \ {0}
    BY <1>3, <1>8 DEF TreeOK
  <2> QED BY <1>1, <1>4, <1>5, <2>1, SetType
<1> QED BY <1>1, <1>7, <1>12, <1>13, <1>14, <1>15

\* The entry at p is gone from the slots s; the pieces in front of it may be too.
DroppedIn(s, u, p) ==
  /\ u \in Seq(SlotType) /\ DOMAIN u = DOMAIN s /\ Len(u) = Len(s) /\ u[p] = Del
  /\ \A q \in DOMAIN s : q # p => u[q] = s[q] \/ (Boundary(s, p) < q /\ q < p /\ u[q] = Del)

\* One entry less, and none of the runs of the others touched.
LEMMA DroppedIs ==
  ASSUME NEW s \in Seq(SlotType), NamesIn(s), NEW p \in EntriesIn(s), NEW u, DroppedIn(s, u, p)
  PROVE  /\ NamesIn(u) /\ EntriesIn(u) = EntriesIn(s) \ {p}
         /\ \A q \in EntriesIn(u) : u[q] = s[q]
<1>1. Len(s) \in Nat /\ DOMAIN s = 1..Len(s) /\ p \in 1..Len(s) /\ p \in Nat \ {0}
  BY LenProperties DEF EntriesIn
<1>2. /\ Boundary(s, p) \in 0..(p - 1)
      /\ \A q \in 1..(p - 1) : s[q].tag # "lfn" => q <= Boundary(s, p)
  BY <1>1, BoundaryIs
<1>3. ~IsEntry(Del)
  BY DEF IsEntry, Del
<1>4. \A q \in EntriesIn(s) : q # p => u[q] = s[q]
  <2> TAKE q \in EntriesIn(s)
  <2> HAVE q # p
  <2>1. q \in DOMAIN s /\ s[q].tag # "lfn"
    BY DEF EntriesIn, IsEntry
  <2>2. ~(Boundary(s, p) < q /\ q < p)
    <3>1. q < p => q \in 1..(p - 1)
      BY <1>1, <2>1
    <3>2. q < p => q <= Boundary(s, p)
      BY <1>2, <2>1, <3>1
    <3> QED BY <1>1, <1>2, <2>1, <3>2
  <2> QED BY <2>1, <2>2 DEF DroppedIn
<1>5. \A q : q \in EntriesIn(u) <=> q \in EntriesIn(s) /\ q # p
  BY <1>3, <1>4 DEF EntriesIn, DroppedIn
<1>6. NamesIn(u)
  BY NamesDropped DEF DroppedIn
<1> QED BY <1>4, <1>5, <1>6

\* An entry is marked as deleted.
LEMMA DropOne ==
  ASSUME NEW v \in TreeType, NEW d \in {Root} \cup Clusters, NEW p \in EntriesIn(v.dir[d])
  PROVE  \E u : Written(v, Set(v, d, p, Del), d, u) /\ DroppedIn(v.dir[d], u, p)
<1>1. PICK s : s = v.dir[d]
  OBVIOUS
<1>2. s \in Seq(SlotType)
  BY <1>1 DEF TreeType
<1>3. Len(s) \in Nat /\ DOMAIN s = 1..Len(s) /\ p \in 1..Len(s) /\ p \in Nat \ {0} /\ p \in 1..(Len(s) + 1)
  BY <1>1, <1>2, LenProperties DEF EntriesIn
<1>4. Del \in SlotType
  BY DEF SlotType
<1>5. PICK u : u = Put(s, p, Del)
  OBVIOUS
<1>6. PutIn(s, p, Del, u)
  BY <1>2, <1>3, <1>4, <1>5, PutSlot
<1>7. DroppedIn(s, u, p)
  <2>1. DOMAIN s \cup {p} = DOMAIN s
    BY <1>3
  <2>2. ~(p > Len(s))
    BY <1>3
  <2> QED BY <1>6, <2>1, <2>2 DEF PutIn, DroppedIn
<1>8. Written(v, Set(v, d, p, Del), d, u)
  BY <1>1, <1>3, <1>4, <1>5, SetType
<1> QED BY <1>1, <1>7, <1>8

\* The slots in front of it are, as fat_delete_lfn_slots does it.
Swept(s, p) == [q \in DOMAIN s |-> IF q > Boundary(s, p) /\ q < p THEN Del ELSE s[q]]

\* The slots without those in front of p.
LEMMA SweptIs ==
  ASSUME NEW s \in Seq(SlotType), NEW p
  PROVE  Swept(s, p) \in Seq(SlotType) /\ Len(Swept(s, p)) = Len(s)
<1>1. PICK n \in Nat : n = Len(s) /\ DOMAIN s = 1..n
  BY LenProperties
<1>2. \A q \in 1..n : s[q] \in SlotType
  BY <1>1, ElementOfSeq
<1>3. Swept(s, p) \in [1..n -> SlotType]
  BY <1>1, <1>2 DEF Swept, SlotType
<1>4. Swept(s, p) \in Seq(SlotType)
  BY <1>3, SeqDef
<1>5. Len(Swept(s, p)) = n
  <2>1. DOMAIN Swept(s, p) = 1..n
    BY <1>3
  <2>2. Len(Swept(s, p)) \in Nat /\ DOMAIN Swept(s, p) = 1..Len(Swept(s, p))
    BY <1>4, LenProperties
  <2> QED BY <1>1, <2>1, <2>2
<1> QED BY <1>1, <1>4, <1>5

\* What fat_delete_lfn_slots does to the tree.
LEMMA Sweep ==
  ASSUME NEW v \in TreeType, NEW d \in {Root} \cup Clusters, NEW p
  PROVE  Written(v, fat_delete_lfn_slots(v, d, p), d, Swept(v.dir[d], p))
<1>1. PICK D, o : v = [dir |-> D, owner |-> o] /\ D \in [{Root} \cup Clusters -> Seq(SlotType)]
                 /\ o \in [Clusters -> {NoOne} \cup Clusters]
  BY DEF TreeType
<1>2. v.dir = D /\ v.owner = o
  BY <1>1
<1>3. PICK u : u = Swept(D[d], p)
  OBVIOUS
<1>4. u \in Seq(SlotType)
  BY <1>1, <1>3, SweptIs
<1>5. PICK E : E = [D EXCEPT ![d] = u]
  OBVIOUS
<1>6. E \in [{Root} \cup Clusters -> Seq(SlotType)] /\ E[d] = u
      /\ \A y \in {Root} \cup Clusters : y # d => E[y] = D[y]
  BY <1>1, <1>4, <1>5
<1>7. fat_delete_lfn_slots(v, d, p) = [v EXCEPT !.dir = E]
  BY <1>2, <1>3, <1>5 DEF fat_delete_lfn_slots, Swept
<1>8. fat_delete_lfn_slots(v, d, p) = [dir |-> E, owner |-> o]
  BY <1>1, <1>7
<1>9. PICK w : w = fat_delete_lfn_slots(v, d, p) /\ w = [dir |-> E, owner |-> o]
  BY <1>8
<1>10. w \in TreeType /\ w.dir = E /\ w.owner = o
  BY <1>1, <1>6, <1>9 DEF TreeType
<1> QED BY <1>2, <1>3, <1>6, <1>9, <1>10 DEF Written

\* What is in front of p does not depend on what is at p.
LEMMA BoundarySame ==
  ASSUME NEW s, NEW u, NEW p \in Nat, \A q \in 1..(p - 1) : u[q].tag = s[q].tag
  PROVE  Boundary(u, p) = Boundary(s, p)
<1>1. {q \in 1..(p - 1) : u[q].tag # "lfn"} = {q \in 1..(p - 1) : s[q].tag # "lfn"}
  OBVIOUS
<1> QED BY <1>1 DEF Boundary

\* First the entry, then the slots in front of it.
LEMMA DropAndSweep ==
  ASSUME NEW v \in TreeType, NEW d \in {Root} \cup Clusters, NEW p \in EntriesIn(v.dir[d])
  PROVE  \E u : /\ Written(v, fat_delete_lfn_slots(Set(v, d, p, Del), d, p), d, u)
                /\ DroppedIn(v.dir[d], u, p)
<1>1. PICK s, w : s = v.dir[d] /\ w = Set(v, d, p, Del)
  OBVIOUS
<1>2. s \in Seq(SlotType)
  BY <1>1 DEF TreeType
<1>3. PICK x : Written(v, w, d, x) /\ DroppedIn(s, x, p)
  BY <1>1, DropOne
<1>4. w \in TreeType /\ w.dir[d] = x
  BY <1>3 DEF Written
<1>5. Len(s) \in Nat /\ DOMAIN s = 1..Len(s) /\ p \in 1..Len(s)
  BY <1>1, <1>2, LenProperties DEF EntriesIn
<1>6. PICK u : u = Swept(x, p)
  OBVIOUS
<1>7. Written(w, fat_delete_lfn_slots(w, d, p), d, u)
  BY <1>4, <1>6, Sweep
<1>8. Written(v, fat_delete_lfn_slots(w, d, p), d, u)
  BY <1>3, <1>7 DEF Written
<1>9. x \in Seq(SlotType) /\ DOMAIN x = DOMAIN s /\ Len(x) = Len(s) /\ x[p] = Del
  BY <1>3 DEF DroppedIn
<1>10. u \in Seq(SlotType) /\ Len(u) = Len(s)
  BY <1>6, <1>9, SweptIs
<1>11. DOMAIN u = DOMAIN s /\ \A q \in DOMAIN s : u[q] = IF q > Boundary(x, p) /\ q < p THEN Del ELSE x[q]
  BY <1>6, <1>9 DEF Swept
<1>12. Boundary(s, p) \in 0..(p - 1)
  <2>1. p \in Nat \ {0}
    BY <1>5
  <2> QED BY <2>1, BoundaryIs
<1>13. Boundary(x, p) \in 0..(p - 1) /\ \A q \in 1..(p - 1) : x[q].tag # "lfn" => q <= Boundary(x, p)
  <2>1. p \in Nat \ {0}
    BY <1>5
  <2> QED BY <2>1, BoundaryIs
<1>14. ~(Boundary(x, p) < Boundary(s, p))
  <2> SUFFICES ASSUME Boundary(x, p) < Boundary(s, p) PROVE FALSE
    OBVIOUS
  <2>1. PICK b : b = Boundary(s, p) /\ b \in 1..(p - 1) /\ b # 0 /\ b \in DOMAIN s /\ b # p
    BY <1>5, <1>12, <1>13
  <2>2. s[b].tag # "lfn"
    <3>1. p \in Nat \ {0}
      BY <1>5
    <3> QED BY <2>1, <3>1, BoundaryIs
  <2>3. ~(b < b)
    BY <2>1, <1>5
  <2>4. x[b] = s[b]
    BY <1>3, <2>1, <2>3 DEF DroppedIn
  <2>5. b <= Boundary(x, p)
    BY <1>13, <2>1, <2>2, <2>4
  <2> QED BY <1>5, <1>12, <1>13, <2>1, <2>5
<1>15. \A q \in DOMAIN s : q # p => u[q] = s[q] \/ (Boundary(s, p) < q /\ q < p /\ u[q] = Del)
  <2> TAKE q \in DOMAIN s
  <2> HAVE q # p
  <2>1. x[q] = s[q] \/ (Boundary(s, p) < q /\ q < p /\ x[q] = Del)
    BY <1>3 DEF DroppedIn
  <2>2. q > Boundary(x, p) => Boundary(s, p) < q
    BY <1>5, <1>12, <1>13, <1>14
  <2> QED BY <1>11, <2>1, <2>2
<1>16. u[p] = Del
  <2>1. ~(p < p) /\ p \in DOMAIN s
    BY <1>5
  <2> QED BY <1>9, <1>11, <2>1
<1>17. DroppedIn(s, u, p)
  BY <1>10, <1>11, <1>15, <1>16 DEF DroppedIn
<1> QED BY <1>1, <1>8, <1>17

\* First the slots in front of the entry, then the entry.
LEMMA SweepAndDrop ==
  ASSUME NEW v \in TreeType, NEW d \in {Root} \cup Clusters, NEW p \in EntriesIn(v.dir[d])
  PROVE  \E u : /\ Written(v, Set(fat_delete_lfn_slots(v, d, p), d, p, Del), d, u)
                /\ DroppedIn(v.dir[d], u, p)
<1>1. PICK s, w : s = v.dir[d] /\ w = fat_delete_lfn_slots(v, d, p)
  OBVIOUS
<1>2. s \in Seq(SlotType)
  BY <1>1 DEF TreeType
<1>3. PICK x : x = Swept(s, p)
  OBVIOUS
<1>4. Written(v, w, d, x)
  BY <1>1, <1>3, Sweep
<1>5. Len(s) \in Nat /\ DOMAIN s = 1..Len(s) /\ p \in 1..Len(s) /\ IsEntry(s[p])
  BY <1>1, <1>2, LenProperties DEF EntriesIn
<1>6. /\ x \in Seq(SlotType) /\ Len(x) = Len(s) /\ DOMAIN x = DOMAIN s
      /\ \A q \in DOMAIN s : x[q] = IF q > Boundary(s, p) /\ q < p THEN Del ELSE s[q]
  BY <1>2, <1>3, SweptIs DEF Swept
<1>7. w \in TreeType /\ w.dir[d] = x
  BY <1>4 DEF Written
<1>8. p \in EntriesIn(x)
  <2>1. ~(p < p) /\ p \in DOMAIN s
    BY <1>5
  <2> QED BY <1>5, <1>6, <2>1 DEF EntriesIn
<1>9. PICK u : Written(w, Set(w, d, p, Del), d, u) /\ DroppedIn(x, u, p)
  BY <1>7, <1>8, DropOne
<1>10. Written(v, Set(w, d, p, Del), d, u)
  BY <1>4, <1>9 DEF Written
<1>11. Boundary(s, p) \in 0..(p - 1) /\ \A q \in 1..(p - 1) : s[q].tag # "lfn" => q <= Boundary(s, p)
  <2>1. p \in Nat \ {0}
    BY <1>5
  <2> QED BY <2>1, BoundaryIs
<1>12. Boundary(x, p) \in 0..(p - 1) /\ (Boundary(s, p) # 0 => Boundary(x, p) >= Boundary(s, p))
  <2>1. p \in Nat \ {0}
    BY <1>5
  <2>2. Boundary(x, p) \in 0..(p - 1) /\ \A q \in 1..(p - 1) : x[q].tag # "lfn" => q <= Boundary(x, p)
    BY <2>1, BoundaryIs
  <2>3. ASSUME Boundary(s, p) # 0 PROVE Boundary(x, p) >= Boundary(s, p)
    <3>1. PICK b : b = Boundary(s, p) /\ b \in 1..(p - 1) /\ b \in DOMAIN s /\ ~(b > b)
      BY <1>5, <1>11, <2>3
    <3>2. s[b].tag # "lfn"
      BY <2>1, <2>3, <3>1, BoundaryIs
    <3>3. x[b] = s[b]
      BY <1>6, <3>1
    <3>4. b <= Boundary(x, p)
      BY <2>2, <3>1, <3>2, <3>3
    <3> QED BY <2>2, <3>1, <3>4, <1>5
  <2> QED BY <2>2, <2>3
<1>13. \A q \in DOMAIN s : q # p => u[q] = s[q] \/ (Boundary(s, p) < q /\ q < p /\ u[q] = Del)
  <2> TAKE q \in DOMAIN s
  <2> HAVE q # p
  <2>1. u[q] = x[q] \/ (Boundary(x, p) < q /\ q < p /\ u[q] = Del)
    BY <1>6, <1>9 DEF DroppedIn
  <2>2. Boundary(x, p) < q => Boundary(s, p) < q
    BY <1>5, <1>11, <1>12
  <2>3. x[q] = s[q] \/ (Boundary(s, p) < q /\ q < p /\ x[q] = Del)
    BY <1>5, <1>6, <1>11
  <2> QED BY <2>1, <2>2, <2>3
<1>14. DroppedIn(s, u, p)
  BY <1>6, <1>9, <1>13 DEF DroppedIn
<1> QED BY <1>1, <1>10, <1>14

\* The subdirectories among the entries.
LEMMA SubdirsAre ==
  ASSUME NEW s, NEW b
  PROVE  \A p : p \in SubdirsIn(s, b) <=> p \in EntriesIn(s) /\ p > b /\ IsDir(s[p])
BY DEF SubdirsIn, EntriesIn, IsDir

\* A slot of a name is an entry, and which one it is.
LEMMA EntryAt ==
  ASSUME NEW t, TreeOK(t), NEW d \in LiveIn(t), NEW p \in EntriesIn(t.dir[d])
  PROVE  /\ t.dir[d][p] \in EntryType /\ p \in 1..Len(t.dir[d]) /\ p \in Nat \ {0}
         /\ p > Base(d) => t.dir[d][p].name \in Shorts
         /\ ~(p > Base(d)) => t.dir[d][p].name \in {Dot, DotDot} /\ t.dir[d][p].long = NoLong
<1>1. PICK s : s = t.dir[d]
  OBVIOUS
<1>2. /\ s \in Seq(SlotType) /\ Len(s) \in Nat /\ DOMAIN s = 1..Len(s) /\ Base(d) \in 0..Len(s)
      /\ \A q \in 1..Base(d) : s[q].name \in {Dot, DotDot} /\ s[q].long = NoLong
  BY <1>1, FirstSlots
<1>3. p \in 1..Len(s) /\ IsEntry(s[p]) /\ s[p] \in SlotType
  BY <1>1, <1>2, ElementOfSeq DEF EntriesIn
<1>4. s[p] \in EntryType
  BY <1>3, SlotKinds
<1>5. p > Base(d) => s[p].name \in Shorts
  BY <1>1 DEF TreeOK, SlotsOK
<1>6. ~(p > Base(d)) => p \in 1..Base(d)
  BY <1>2, <1>3
<1> QED BY <1>1, <1>2, <1>3, <1>4, <1>5, <1>6

\* A file gets an entry.
LEMMA FileEntered ==
  ASSUME NEW t, TreeOK(t), NEW d \in LiveIn(t), NEW v, NEW at, NEW n, NEW e \in EntryType,
         RoomFor(t, v, d, at, n, e.long, e.name), e.long # NoLong => n = LongSlots[e.long],
         FreshFor(t.dir[d], e.name, e.long), ~IsDir(e)
  PROVE  Kept(t, Set(v, d, at, e)) /\ LiveIn(Set(v, d, at, e)) = LiveIn(t)
<1>1. PICK s, u, w, t2 : s = t.dir[d] /\ u = v.dir[d] /\ w = Put(u, at, e) /\ t2 = Set(v, d, at, e)
  OBVIOUS
<1>2. /\ EntryIn(t.dir[d], Put(v.dir[d], at, e), Base(d), at, e)
      /\ Len(Put(v.dir[d], at, e)) <= Capacity(v, d)
      /\ \A p \in EntriesIn(v.dir[d]) : Put(v.dir[d], at, e)[p] = v.dir[d][p]
      /\ EntriesIn(v.dir[d]) = EntriesIn(t.dir[d])
      /\ Len(v.dir[d]) <= Len(Put(v.dir[d], at, e))
      /\ Written(v, Set(v, d, at, e), d, Put(v.dir[d], at, e))
  BY EntryPut
<1>3. /\ EntryIn(s, w, Base(d), at, e) /\ Len(w) <= Capacity(v, d)
      /\ \A p \in EntriesIn(u) : w[p] = u[p]
      /\ EntriesIn(u) = EntriesIn(s) /\ Len(u) <= Len(w) /\ Written(v, t2, d, w)
  BY <1>1, <1>2
<1>4. TreeOK(v) /\ d \in LiveIn(v) /\ LiveIn(v) = LiveIn(t)
  BY DEF RoomFor
<1>5. \A p \in 1..Base(d) : w[p] = u[p]
  <2>1. \A p \in 1..Base(d) : p \in EntriesIn(u)
    BY <1>1, <1>4, FirstSlots DEF EntriesIn
  <2> QED BY <1>3, <2>1
<1>6. EntriesIn(w) = EntriesIn(u) \cup {at} /\ w[at] = e /\ at \notin EntriesIn(u)
      /\ w \in Seq(SlotType) /\ NamesIn(w)
  BY <1>3 DEF EntryIn
<1>7. SubdirsIn(w, Base(d)) = SubdirsIn(u, Base(d))
      /\ \A p \in SubdirsIn(w, Base(d)) : w[p].first = u[p].first
  <2>1. \A p : p \in SubdirsIn(w, Base(d)) <=> p \in EntriesIn(w) /\ p > Base(d) /\ IsDir(w[p])
    BY SubdirsAre
  <2>2. \A p : p \in SubdirsIn(u, Base(d)) <=> p \in EntriesIn(u) /\ p > Base(d) /\ IsDir(u[p])
    BY SubdirsAre
  <2>3. \A p : p \in SubdirsIn(w, Base(d)) <=> p \in SubdirsIn(u, Base(d))
    BY <1>3, <1>6, <2>1, <2>2
  <2> QED BY <1>3, <2>2, <2>3
<1>8. \A p \in EntriesIn(w) : p > Base(d) => w[p].name \in Shorts
  <2> TAKE p \in EntriesIn(w)
  <2>1. p = at => w[p].name \in Shorts
    BY <1>6 DEF FreshFor
  <2>2. p # at /\ p > Base(d) => w[p].name \in Shorts
    <3>1. p # at => p \in EntriesIn(u) /\ w[p] = u[p]
      BY <1>3, <1>6
    <3> QED BY <1>1, <1>4, <3>1, EntryAt
  <2> QED BY <2>1, <2>2
<1>9. Kept(v, t2) /\ LiveIn(t2) = LiveIn(v)
  BY <1>1, <1>3, <1>4, <1>5, <1>6, <1>7, <1>8, OneDirKept
<1>10. Kept(t, v)
  BY RoomKept
<1>11. Kept(t, t2)
  BY <1>9, <1>10, KeptTwice
<1> QED BY <1>1, <1>4, <1>9, <1>11

\* The entry of a file goes.
LEMMA FileDropped ==
  ASSUME NEW t, TreeOK(t), NEW d \in LiveIn(t), NEW p \in EntriesIn(t.dir[d]), ~IsDir(t.dir[d][p]),
         NEW t2, NEW u, Written(t, t2, d, u), DroppedIn(t.dir[d], u, p)
  PROVE  Kept(t, t2) /\ LiveIn(t2) = LiveIn(t)
<1>1. PICK s, b : s = t.dir[d] /\ b = Base(d)
  OBVIOUS
<1>2. /\ s \in Seq(SlotType) /\ Len(s) \in Nat /\ NamesIn(s) /\ Len(s) <= Capacity(t, d)
      /\ \A q \in 1..b : q \in EntriesIn(s) /\ IsDir(s[q])
  <2>1. SlotsOK(s, b) /\ Len(s) <= Capacity(t, d)
    BY <1>1 DEF TreeOK
  <2>2. \A q \in 1..b : q \in EntriesIn(s) /\ IsDir(s[q])
    BY <1>1, FirstSlots DEF EntriesIn
  <2> QED BY <2>1, <2>2, LenProperties DEF SlotsOK
<1>3. NamesIn(u) /\ EntriesIn(u) = EntriesIn(s) \ {p} /\ \A q \in EntriesIn(u) : u[q] = s[q]
  BY <1>1, <1>2, DroppedIs
<1>4. u \in Seq(SlotType) /\ Len(u) = Len(s)
  BY <1>1 DEF DroppedIn
<1>5. \A q \in 1..b : u[q] = s[q]
  BY <1>1, <1>2, <1>3
<1>6. \A q : q \in SubdirsIn(u, b) <=> q \in EntriesIn(u) /\ q > b /\ IsDir(u[q])
  BY SubdirsAre
<1>7. \A q : q \in SubdirsIn(s, b) <=> q \in EntriesIn(s) /\ q > b /\ IsDir(s[q])
  BY SubdirsAre
<1>8. \A q : q \in SubdirsIn(u, b) <=> q \in SubdirsIn(s, b)
  BY <1>1, <1>3, <1>6, <1>7
<1>9. SubdirsIn(u, b) = SubdirsIn(s, b) /\ \A q \in SubdirsIn(u, b) : u[q].first = s[q].first
  BY <1>3, <1>6, <1>8
<1>10. \A q \in EntriesIn(u) : q > b => u[q].name \in Shorts
  BY <1>1, <1>3, EntryAt
<1>11. Len(s) <= Len(u) /\ Len(u) <= Capacity(t, d)
  BY <1>2, <1>4
<1> QED BY <1>1, <1>3, <1>4, <1>5, <1>9, <1>10, <1>11, OneDirKept

\* Some of the files of a directory go.
LEMMA FilesDropped ==
  ASSUME NEW t, TreeOK(t), NEW d \in LiveIn(t), NEW G \in SUBSET EntriesIn(t.dir[d]),
         \A p \in G : ~IsDir(t.dir[d][p]), NEW t2, NEW u, Written(t, t2, d, u),
         u = [p \in DOMAIN t.dir[d] |-> IF p \in G THEN Del ELSE t.dir[d][p]]
  PROVE  Kept(t, t2)
<1>1. PICK s, b : s = t.dir[d] /\ b = Base(d)
  OBVIOUS
<1>2. /\ s \in Seq(SlotType) /\ NamesIn(s) /\ Len(s) <= Capacity(t, d)
      /\ \A q \in 1..b : q \in EntriesIn(s) /\ IsDir(s[q])
  <2>1. SlotsOK(s, b) /\ Len(s) <= Capacity(t, d)
    BY <1>1 DEF TreeOK
  <2>2. \A q \in 1..b : q \in EntriesIn(s) /\ IsDir(s[q])
    BY <1>1, FirstSlots DEF EntriesIn
  <2> QED BY <2>1, <2>2 DEF SlotsOK
<1>3. PICK n \in Nat : n = Len(s) /\ DOMAIN s = 1..n
  BY <1>2, LenProperties
<1>4. PICK w : w = u /\ DOMAIN w = DOMAIN s /\ \A q \in DOMAIN s : w[q] = IF q \in G THEN Del ELSE s[q]
  BY <1>1
<1>5. w \in Seq(SlotType) /\ Len(w) = n
  <2>1. \A q \in 1..n : s[q] \in SlotType
    BY <1>2, <1>3, ElementOfSeq
  <2>2. u \in [1..n -> SlotType]
    BY <1>1, <1>3, <2>1 DEF SlotType
  <2>3. w \in Seq(SlotType) /\ DOMAIN w = 1..n
    BY <1>3, <1>4, <2>2, SeqDef
  <2>4. Len(w) \in Nat /\ DOMAIN w = 1..Len(w)
    BY <2>3, LenProperties
  <2> QED BY <2>3, <2>4
<1>6. ~IsEntry(Del) /\ ~IsDir(Del)
  BY DEF Del, IsEntry, IsDir
<1>7. \A q : q \in EntriesIn(w) <=> q \in EntriesIn(s) /\ q \notin G
  BY <1>4, <1>6 DEF EntriesIn
<1>8. \A q \in EntriesIn(w) : w[q] = s[q]
  BY <1>4, <1>7 DEF EntriesIn
<1>9. NamesIn(w)
  <2>1. \A q \in DOMAIN s : s[q].tag = "lfn" => w[q] = s[q]
    BY <1>1, <1>4 DEF EntriesIn, IsEntry
  <2> QED BY <1>2, <1>4, <1>7, <1>8, <2>1, NamesKept
<1>10. \A q \in 1..b : w[q] = s[q]
  BY <1>1, <1>2, <1>7, <1>8
<1>11. \A q : q \in SubdirsIn(w, b) <=> q \in EntriesIn(w) /\ q > b /\ IsDir(w[q])
  BY SubdirsAre
<1>12. \A q : q \in SubdirsIn(s, b) <=> q \in EntriesIn(s) /\ q > b /\ IsDir(s[q])
  BY SubdirsAre
<1>13. \A q : q \in SubdirsIn(w, b) <=> q \in SubdirsIn(s, b)
  BY <1>1, <1>7, <1>8, <1>11, <1>12
<1>14. SubdirsIn(w, b) = SubdirsIn(s, b) /\ \A q \in SubdirsIn(w, b) : w[q].first = s[q].first
  BY <1>8, <1>11, <1>13
<1>15. \A q \in EntriesIn(w) : q > b => w[q].name \in Shorts
  BY <1>1, <1>7, <1>8, EntryAt
<1>16. Len(s) <= Len(w) /\ Len(w) <= Capacity(t, d)
  BY <1>2, <1>3, <1>5
<1>17. Written(t, t2, d, w)
  BY <1>4
<1> QED BY <1>1, <1>5, <1>9, <1>10, <1>14, <1>15, <1>16, <1>17, OneDirKept

\* An entry is written over: it is for the same file or directory.
LEMMA EntryRewritten ==
  ASSUME NEW t, TreeOK(t), NEW d \in LiveIn(t), NEW p \in EntriesIn(t.dir[d]), p > Base(d),
         NEW e \in EntryType, e.name \in Shorts, e.first = t.dir[d][p].first,
         IsDir(e) <=> IsDir(t.dir[d][p]),
         NEW t2, NEW u, Written(t, t2, d, u), PutIn(t.dir[d], p, e, u), NamesIn(u)
  PROVE  Kept(t, t2) /\ LiveIn(t2) = LiveIn(t)
<1>1. PICK s, b : s = t.dir[d] /\ b = Base(d)
  OBVIOUS
<1>2. /\ s \in Seq(SlotType) /\ Len(s) \in Nat /\ DOMAIN s = 1..Len(s) /\ Len(s) <= Capacity(t, d)
      /\ b \in Nat
  <2>1. SlotsOK(s, b) /\ Len(s) <= Capacity(t, d)
    BY <1>1 DEF TreeOK
  <2>2. b \in Nat
    BY <1>1 DEF Base
  <2> QED BY <2>1, <2>2, LenProperties DEF SlotsOK
<1>3. p \in 1..Len(s) /\ IsEntry(e) /\ IsEntry(s[p])
  BY <1>1, <1>2, SlotKinds DEF EntriesIn, SlotType
<1>4. /\ u \in Seq(SlotType) /\ Len(u) = Len(s) /\ DOMAIN u = DOMAIN s /\ u[p] = e
      /\ \A q \in DOMAIN s : q # p => u[q] = s[q]
  <2>1. DOMAIN s \cup {p} = DOMAIN s /\ ~(p > Len(s))
    BY <1>2, <1>3
  <2> QED BY <1>1, <2>1 DEF PutIn
<1>5. \A q : q \in EntriesIn(u) <=> q \in EntriesIn(s)
  BY <1>3, <1>4 DEF EntriesIn
<1>6. \A q \in EntriesIn(s) : q # p => u[q] = s[q]
  BY <1>4 DEF EntriesIn
<1>7. \A q \in 1..b : u[q] = s[q]
  <2>1. \A q \in 1..b : q \in DOMAIN s
    BY <1>1, FirstSlots
  <2>2. \A q \in 1..b : q # p
    BY <1>1, <1>2, <1>3
  <2> QED BY <1>4, <2>1, <2>2
<1>8. \A q : q \in SubdirsIn(u, b) <=> q \in EntriesIn(u) /\ q > b /\ IsDir(u[q])
  BY SubdirsAre
<1>9. \A q : q \in SubdirsIn(s, b) <=> q \in EntriesIn(s) /\ q > b /\ IsDir(s[q])
  BY SubdirsAre
<1>10. \A q : q \in SubdirsIn(u, b) <=> q \in SubdirsIn(s, b)
  BY <1>1, <1>4, <1>5, <1>6, <1>8, <1>9
<1>11. SubdirsIn(u, b) = SubdirsIn(s, b) /\ \A q \in SubdirsIn(u, b) : u[q].first = s[q].first
  <2>1. \A q \in SubdirsIn(u, b) : u[q].first = s[q].first
    BY <1>1, <1>4, <1>6, <1>9, <1>10
  <2> QED BY <1>10, <2>1
<1>12. \A q \in EntriesIn(u) : q > b => u[q].name \in Shorts
  BY <1>1, <1>4, <1>5, <1>6, EntryAt
<1>13. Len(s) <= Len(u) /\ Len(u) <= Capacity(t, d)
  BY <1>2, <1>4
<1> QED BY <1>1, <1>4, <1>7, <1>11, <1>12, <1>13, OneDirKept

\* An entry gets a new place in its directory, and a new name.
LEMMA EntrySwapped ==
  ASSUME NEW t, TreeOK(t), NEW d \in LiveIn(t), NEW p \in EntriesIn(t.dir[d]), p > Base(d),
         NEW v, NEW at, NEW n, NEW e \in EntryType,
         RoomFor(t, v, d, at, n, e.long, e.name), e.long # NoLong => n = LongSlots[e.long],
         FreshFor(t.dir[d], e.name, e.long),
         e.first = t.dir[d][p].first, IsDir(e) <=> IsDir(t.dir[d][p]),
         NEW t2, NEW u, Written(Set(v, d, at, e), t2, d, u), DroppedIn(Set(v, d, at, e).dir[d], u, p)
  PROVE  Kept(t, t2) /\ LiveIn(t2) = LiveIn(t)
<1>1. PICK s, x, w, b, t1 : /\ s = t.dir[d] /\ x = v.dir[d] /\ w = Put(x, at, e) /\ b = Base(d)
                            /\ t1 = Set(v, d, at, e)
  OBVIOUS
<1>2. /\ EntryIn(t.dir[d], Put(v.dir[d], at, e), Base(d), at, e)
      /\ Len(Put(v.dir[d], at, e)) <= Capacity(v, d)
      /\ \A q \in EntriesIn(v.dir[d]) : Put(v.dir[d], at, e)[q] = v.dir[d][q]
      /\ EntriesIn(v.dir[d]) = EntriesIn(t.dir[d])
      /\ Len(v.dir[d]) <= Len(Put(v.dir[d], at, e))
      /\ Written(v, Set(v, d, at, e), d, Put(v.dir[d], at, e))
  BY EntryPut
<1>3. /\ EntryIn(s, w, b, at, e) /\ Len(w) <= Capacity(v, d)
      /\ \A q \in EntriesIn(x) : w[q] = x[q]
      /\ EntriesIn(x) = EntriesIn(s) /\ Len(x) <= Len(w) /\ Written(v, t1, d, w)
  BY <1>1, <1>2
<1>4. TreeOK(v) /\ d \in LiveIn(v) /\ LiveIn(v) = LiveIn(t)
  BY DEF RoomFor
<1>5. /\ w \in Seq(SlotType) /\ NamesIn(w) /\ at \in EntriesIn(w) /\ at > b /\ w[at] = e
      /\ at \notin EntriesIn(s) /\ EntriesIn(w) = EntriesIn(s) \cup {at}
      /\ \A q \in EntriesIn(s) : w[q] = s[q]
  BY <1>3 DEF EntryIn
<1>6. p \in EntriesIn(s) /\ p # at /\ p \in EntriesIn(w) /\ w[p] = s[p] /\ p > b
  BY <1>1, <1>5
<1>7. t1.dir[d] = w
  BY <1>3 DEF Written
<1>8. DroppedIn(w, u, p) /\ Written(v, t2, d, u)
  <2>1. Written(t1, t2, d, u)
    BY <1>1
  <2> QED BY <1>1, <1>3, <1>7, <2>1 DEF Written
<1>9. NamesIn(u) /\ EntriesIn(u) = EntriesIn(w) \ {p} /\ \A q \in EntriesIn(u) : u[q] = w[q]
  BY <1>5, <1>6, <1>8, DroppedIs
<1>10. u \in Seq(SlotType) /\ Len(u) = Len(w)
  BY <1>8 DEF DroppedIn
<1>11. b \in Nat /\ \A q \in 1..b : q \in EntriesIn(x) /\ q # p
  <2>1. \A q \in 1..b : q \in EntriesIn(x)
    BY <1>1, <1>4, FirstSlots DEF EntriesIn
  <2>2. b \in Nat
    BY <1>1 DEF Base
  <2>3. p \in Nat
    BY <1>1, EntryAt
  <2>4. \A q \in 1..b : q # p
    BY <1>6, <2>2, <2>3
  <2> QED BY <2>1, <2>2, <2>4
<1>12. \A q \in 1..b : u[q] = x[q]
  BY <1>3, <1>5, <1>9, <1>11
<1>13. \A q \in EntriesIn(s) : x[q] = s[q]
  BY <1>3, <1>5
<1>14. \A q : q \in SubdirsIn(u, b) <=> q \in EntriesIn(u) /\ q > b /\ IsDir(u[q])
  BY SubdirsAre
<1>15. \A q : q \in SubdirsIn(x, b) <=> q \in EntriesIn(x) /\ q > b /\ IsDir(x[q])
  BY SubdirsAre
<1>16. SlotsOK(x, b) /\ \A i, j \in SubdirsIn(x, b) : x[i].first = x[j].first => i = j
  BY <1>1, <1>4 DEF TreeOK, SlotsOK
<1>17. \A q \in SubdirsIn(u, b) :
         IF q = at THEN p \in SubdirsIn(x, b) /\ u[q].first = x[p].first
         ELSE q \in SubdirsIn(x, b) /\ q # p /\ u[q].first = x[q].first
  <2> TAKE q \in SubdirsIn(u, b)
  <2>1. q \in EntriesIn(w) /\ q # p /\ u[q] = w[q] /\ IsDir(u[q]) /\ q > b
    BY <1>9, <1>14
  <2>2. CASE q = at
    <3>1. IsDir(e) /\ IsDir(s[p]) /\ e.first = s[p].first /\ u[q] = e
      BY <1>1, <1>5, <2>1, <2>2
    <3> QED BY <1>3, <1>6, <1>13, <1>15, <2>2, <3>1
  <2>3. CASE q # at
    BY <1>3, <1>5, <1>15, <2>1, <2>3
  <2> QED BY <2>2, <2>3
<1>18. \A q \in SubdirsIn(x, b) :
         IF q = p THEN at \in SubdirsIn(u, b) /\ u[at].first = x[q].first
         ELSE q \in SubdirsIn(u, b) /\ u[q].first = x[q].first
  <2> TAKE q \in SubdirsIn(x, b)
  <2>1. q \in EntriesIn(x) /\ q > b /\ IsDir(x[q]) /\ x[q] = s[q] /\ q \in EntriesIn(s)
    BY <1>3, <1>13, <1>15
  <2>2. CASE q = p
    <3>1. IsDir(e) /\ e.first = x[q].first
      BY <1>1, <2>1, <2>2
    <3>2. at \in EntriesIn(u) /\ u[at] = e
      BY <1>5, <1>6, <1>9
    <3> QED BY <1>5, <1>14, <2>2, <3>1, <3>2
  <2>3. CASE q # p
    BY <1>3, <1>5, <1>9, <1>14, <2>1, <2>3
  <2> QED BY <2>2, <2>3
<1>19. \A i, j \in SubdirsIn(u, b) : u[i].first = u[j].first => i = j
  BY <1>16, <1>17
<1>20. KidsIn(u, b) = KidsIn(x, b)
  <2>1. ASSUME NEW k \in KidsIn(u, b) PROVE k \in KidsIn(x, b)
    <3>1. PICK q \in SubdirsIn(u, b) : k = u[q].first
      BY <2>1 DEF KidsIn
    <3>2. \E j \in SubdirsIn(x, b) : k = x[j].first
      BY <1>17, <3>1
    <3> QED BY <3>2 DEF KidsIn
  <2>2. ASSUME NEW k \in KidsIn(x, b) PROVE k \in KidsIn(u, b)
    <3>1. PICK q \in SubdirsIn(x, b) : k = x[q].first
      BY <2>2 DEF KidsIn
    <3>2. \E j \in SubdirsIn(u, b) : k = u[j].first
      BY <1>18, <3>1
    <3> QED BY <3>2 DEF KidsIn
  <2> QED BY <2>1, <2>2
<1>21. \A q \in EntriesIn(u) : q > b => u[q].name \in Shorts
  <2> TAKE q \in EntriesIn(u)
  <2>1. q = at => u[q].name \in Shorts
    BY <1>5, <1>9 DEF FreshFor
  <2>2. q # at => q \in EntriesIn(s) /\ u[q] = s[q]
    BY <1>5, <1>9
  <2> QED BY <1>1, <2>1, <2>2, EntryAt
<1>22. /\ Len(x) \in Nat /\ Len(w) \in Nat /\ b <= Len(x) /\ Len(x) <= Len(w) /\ Len(w) <= Capacity(v, d)
       /\ Len(s) \in Nat /\ Len(s) <= Len(w)
  <2>1. x \in Seq(SlotType) /\ b <= Len(x)
    BY <1>16 DEF SlotsOK
  <2>2. Len(s) \in Nat
    BY <1>1, FirstSlots
  <2>3. Len(s) <= Len(w)
    BY <1>3 DEF EntryIn
  <2> QED BY <1>3, <1>5, <2>1, <2>2, <2>3, LenProperties
<1>23. SlotsOK(u, b)
  <2>1. b <= Len(u)
    BY <1>10, <1>11, <1>22
  <2> QED BY <1>9, <1>10, <1>19, <1>21, <2>1 DEF SlotsOK
<1>24. TreeOK(t2) /\ LiveIn(t2) = LiveIn(v)
  BY <1>1, <1>4, <1>8, <1>10, <1>12, <1>20, <1>22, <1>23, OneDir
<1>25. ASSUME NEW y \in LiveIn(t) PROVE Len(t.dir[y]) <= Len(t2.dir[y])
  <2>1. y \in {Root} \cup Clusters /\ Len(t.dir[y]) \in Nat
    BY FirstSlots
  <2>2. y # d => t2.dir[y] = t.dir[y]
    BY <1>8, <2>1 DEF Written, RoomFor
  <2>3. y = d => Len(t.dir[y]) <= Len(t2.dir[y])
    BY <1>1, <1>8, <1>10, <1>22 DEF Written
  <2> QED BY <2>1, <2>2, <2>3
<1> QED BY <1>4, <1>24, <1>25 DEF Kept

----------------------------------------------------------------------------
(* Directories come, go and move.                                          *)

\* No directory is its own parent.
LEMMA NotItself ==
  ASSUME NEW t, TreeOK(t), NEW k \in LiveIn(t) \ {Root}
  PROVE  Parent(t, k) # k
<1>1. {k} \in SUBSET (LiveIn(t) \ {Root}) /\ {k} # {}
  OBVIOUS
<1>2. \E x \in {k} : Parent(t, x) \notin {k}
  BY <1>1 DEF TreeOK, NoLoops
<1> QED BY <1>2

\* The slots of a new directory.
Heads(c, d) == <<Entry(Dot, "dir", c, NoLong), Entry(DotDot, "dir", d, NoLong)>>

\* The first two slots of a directory.
LEMMA NewSlots ==
  ASSUME NEW c \in Clusters, NEW d \in {Root} \cup Clusters
  PROVE  /\ SlotsOK(Heads(c, d), 2) /\ Len(Heads(c, d)) = 2
         /\ Heads(c, d)[1] = Entry(Dot, "dir", c, NoLong)
         /\ Heads(c, d)[2] = Entry(DotDot, "dir", d, NoLong)
         /\ Heads(c, d)[2].first = d
         /\ SubdirsIn(Heads(c, d), 2) = {}
<1>1. PICK x : x = Entry(Dot, "dir", c, NoLong)
  OBVIOUS
<1>2. PICK y : y = Entry(DotDot, "dir", d, NoLong)
  OBVIOUS
<1>3. x \in SlotType /\ IsEntry(x) /\ x.name = Dot /\ x.long = NoLong
  BY <1>1, EntryMade
<1>4. y \in SlotType /\ IsEntry(y) /\ y.name = DotDot /\ y.long = NoLong /\ y.first = d
  BY <1>2, EntryMade
<1>5. PICK s : s = <<x, y>>
  OBVIOUS
<1>6. s \in Seq(SlotType) /\ Len(s) = 2 /\ DOMAIN s = 1..2 /\ s[1] = x /\ s[2] = y
  BY <1>3, <1>4, <1>5
<1>7. \A p \in DOMAIN s : p = 1 \/ p = 2
  BY <1>6
<1>8. \A p \in EntriesIn(s) : (p = 1 /\ s[p] = x) \/ (p = 2 /\ s[p] = y)
  BY <1>6, <1>7 DEF EntriesIn
<1>9. NamesIn(s)
  <2>1. Dot \notin Aliases /\ DotDot \notin Aliases /\ Dot # DotDot
    BY NamesDiffer
  <2> QED BY <1>3, <1>4, <1>8, <2>1 DEF NamesIn
<1>10. SubdirsIn(s, 2) = {}
  <2>1. \A p \in DOMAIN s : ~(p > 2)
    BY <1>7
  <2> QED BY <2>1 DEF SubdirsIn
<1>11. \A p \in EntriesIn(s) : ~(p > 2)
  BY <1>8
<1>12. SlotsOK(s, 2)
  BY <1>6, <1>9, <1>10, <1>11 DEF SlotsOK
<1>13. Heads(c, d) = s
  BY <1>1, <1>2, <1>5 DEF Heads
<1> QED BY <1>1, <1>2, <1>4, <1>6, <1>10, <1>12, <1>13

\* The tree with it.
LEMMA NewDirIs ==
  ASSUME NEW v \in TreeType, NEW c \in Clusters, NEW d \in {Root} \cup Clusters
  PROVE  /\ NewDir(v, c, d) \in TreeType
         /\ NewDir(v, c, d).dir[c] = Heads(c, d)
         /\ \A x \in {Root} \cup Clusters : x # c => NewDir(v, c, d).dir[x] = v.dir[x]
         /\ NewDir(v, c, d).owner[c] = c
         /\ \A x \in Clusters : x # c => NewDir(v, c, d).owner[x] = v.owner[x]
<1>1. PICK h : h = Heads(c, d)
  OBVIOUS
<1>2. h \in Seq(SlotType)
  BY <1>1, NewSlots DEF SlotsOK
<1>3. PICK D, o : D = [v.dir EXCEPT ![c] = h] /\ o = [v.owner EXCEPT ![c] = c]
  OBVIOUS
<1>4. /\ D \in [{Root} \cup Clusters -> Seq(SlotType)] /\ o \in [Clusters -> {NoOne} \cup Clusters]
      /\ D[c] = h /\ o[c] = c
      /\ \A x \in {Root} \cup Clusters : x # c => D[x] = v.dir[x]
      /\ \A x \in Clusters : x # c => o[x] = v.owner[x]
  <2>1. v.dir \in [{Root} \cup Clusters -> Seq(SlotType)] /\ v.owner \in [Clusters -> {NoOne} \cup Clusters]
    BY DEF TreeType
  <2> QED BY <1>2, <1>3, <2>1
<1>5. NewDir(v, c, d) = [dir |-> D, owner |-> o]
  BY <1>1, <1>3 DEF NewDir, Heads
<1>6. PICK w : w = NewDir(v, c, d) /\ w = [dir |-> D, owner |-> o]
  BY <1>5
<1>7. w \in TreeType /\ w.dir = D /\ w.owner = o
  BY <1>4, <1>6 DEF TreeType
<1> QED BY <1>1, <1>4, <1>6, <1>7

\* A directory comes below d.
LEMMA KidMade ==
  ASSUME NEW t, TreeOK(t), NEW d \in LiveIn(t), NEW v, NEW at, NEW n, NEW c \in FreeClusters(v),
         NEW short, NEW long,
         RoomFor(t, v, d, at, n, long, short), long # NoLong => n = LongSlots[long],
         FreshFor(t.dir[d], short, long)
  PROVE  Kept(t, Set(NewDir(v, c, d), d, at, Entry(short, "dir", c, long)))
<1>1. TreeOK(v) /\ d \in LiveIn(v) /\ LiveIn(v) = LiveIn(t) /\ v \in TreeType /\ d \in {Root} \cup Clusters
      /\ LiveIn(v) \subseteq {Root} \cup Clusters /\ Root \in LiveIn(v)
  BY Basics DEF RoomFor, TreeOK
<1>2. c \in Clusters /\ v.owner[c] = NoOne /\ c \notin LiveIn(v) /\ c # d /\ c # Root
  BY <1>1, Basics DEF FreeClusters, LiveIn
<1>3. PICK e : e = Entry(short, "dir", c, long)
  OBVIOUS
<1>4. /\ e \in EntryType /\ e \in SlotType /\ IsEntry(e) /\ IsDir(e)
      /\ e.name = short /\ e.first = c /\ e.long = long
  BY <1>2, <1>3, EntryMade DEF FreshFor
<1>5. PICK nd : nd = NewDir(v, c, d)
  OBVIOUS
<1>6. /\ nd \in TreeType /\ nd.dir[c] = Heads(c, d)
      /\ \A x \in {Root} \cup Clusters : x # c => nd.dir[x] = v.dir[x]
      /\ nd.owner[c] = c /\ \A x \in Clusters : x # c => nd.owner[x] = v.owner[x]
  BY <1>1, <1>2, <1>5, NewDirIs
<1>7. PICK s, x, w, b, t2 : /\ s = t.dir[d] /\ x = v.dir[d] /\ w = Put(x, at, e) /\ b = Base(d)
                            /\ t2 = Set(nd, d, at, e)
  OBVIOUS
<1>8. RoomFor(t, v, d, at, n, e.long, e.name) /\ (e.long # NoLong => n = LongSlots[e.long])
      /\ FreshFor(t.dir[d], e.name, e.long)
  BY <1>4
<1>9. /\ EntryIn(t.dir[d], Put(v.dir[d], at, e), Base(d), at, e)
      /\ Len(Put(v.dir[d], at, e)) <= Capacity(v, d)
      /\ \A q \in EntriesIn(v.dir[d]) : Put(v.dir[d], at, e)[q] = v.dir[d][q]
      /\ EntriesIn(v.dir[d]) = EntriesIn(t.dir[d])
      /\ Len(v.dir[d]) <= Len(Put(v.dir[d], at, e))
      /\ Written(v, Set(v, d, at, e), d, Put(v.dir[d], at, e))
  BY <1>4, <1>8, EntryPut
<1>10. /\ EntryIn(s, w, b, at, e) /\ Len(w) <= Capacity(v, d)
       /\ \A q \in EntriesIn(x) : w[q] = x[q]
       /\ EntriesIn(x) = EntriesIn(s) /\ Len(x) <= Len(w)
  BY <1>7, <1>9
<1>11. /\ w \in Seq(SlotType) /\ NamesIn(w) /\ at \in EntriesIn(w) /\ at > b /\ w[at] = e
       /\ at \notin EntriesIn(s) /\ EntriesIn(w) = EntriesIn(s) \cup {at}
  BY <1>10 DEF EntryIn
<1>12. t2 \in TreeType /\ t2.owner = nd.owner /\ t2.dir[d] = w
       /\ \A y \in {Root} \cup Clusters : y # d => t2.dir[y] = nd.dir[y]
  <2>1. at \in Nat \ {0}
    <3>1. RoomIn(s, x, at, n, long, short)
      BY <1>7 DEF RoomFor
    <3>2. at \in 1..(Len(x) + 1) /\ x \in Seq(SlotType)
      BY <3>1 DEF RoomIn
    <3> QED BY <3>2, LenProperties
  <2>2. Written(nd, t2, d, Put(nd.dir[d], at, e))
    BY <1>1, <1>4, <1>6, <1>7, <2>1, SetType
  <2>3. Put(nd.dir[d], at, e) = w
    BY <1>1, <1>2, <1>6, <1>7
  <2> QED BY <2>2, <2>3 DEF Written
<1>13. /\ t2.dir[c] = Heads(c, d) /\ t2.owner[c] = c
       /\ \A y \in {Root} \cup Clusters : y # d /\ y # c => t2.dir[y] = v.dir[y]
       /\ \A y \in Clusters : y # c => t2.owner[y] = v.owner[y]
  BY <1>2, <1>6, <1>12
<1>14. LiveIn(t2) = LiveIn(v) \cup {c}
  BY <1>2, <1>13 DEF LiveIn
<1>15. \A k \in Clusters : t2.owner[k] # NoOne => t2.owner[k] \in LiveIn(t2) \ {Root}
  BY <1>1, <1>2, <1>13, <1>14 DEF TreeOK
<1>16. \A k \in Clusters : k \notin LiveIn(t2) => t2.dir[k] = <<>>
  BY <1>1, <1>13, <1>14 DEF TreeOK
<1>17. \A y \in LiveIn(v) : Capacity(t2, y) = Capacity(v, y)
  <2> TAKE y \in LiveIn(v)
  <2>1. y # NoOne /\ y # c
    BY <1>1, <1>2, Basics
  <2>2. \A k \in Clusters : v.owner[k] = y <=> t2.owner[k] = y
    BY <1>2, <1>13, <2>1
  <2> QED BY <2>2, CapacitySame
<1>18. 2 <= Capacity(t2, c)
  <2>1. \A k \in Clusters : t2.owner[k] = c <=> k = c
    BY <1>1, <1>2, <1>13, Basics DEF TreeOK
  <2>2. {k \in Clusters : t2.owner[k] = c} = {c}
    BY <1>2, <2>1
  <2>3. Cardinality({c}) = 1
    BY FS_Singleton
  <2>4. Capacity(t2, c) = SlotsPerCluster * 1
    BY <1>2, <2>2, <2>3 DEF Capacity
  <2> QED BY <2>4, Basics
<1>19. \A y \in LiveIn(v) : SlotsOK(v.dir[y], Base(y)) /\ Len(v.dir[y]) <= Capacity(v, y)
  BY <1>1 DEF TreeOK
<1>20. /\ b \in Nat /\ Len(x) \in Nat /\ b <= Len(x) /\ Len(w) \in Nat
       /\ \A q \in 1..b : q \in EntriesIn(x) /\ w[q] = x[q]
  <2>1. b \in Nat /\ \A q \in 1..b : q \in EntriesIn(x)
    BY <1>1, <1>7, FirstSlots DEF EntriesIn, Base
  <2>2. x \in Seq(SlotType) /\ b <= Len(x)
    BY <1>1, <1>7, <1>19 DEF SlotsOK
  <2> QED BY <1>10, <1>11, <2>1, <2>2, LenProperties
<1>21. \A q : q \in SubdirsIn(w, b) <=> q \in EntriesIn(w) /\ q > b /\ IsDir(w[q])
  BY SubdirsAre
<1>22. \A q : q \in SubdirsIn(x, b) <=> q \in EntriesIn(x) /\ q > b /\ IsDir(x[q])
  BY SubdirsAre
<1>23. SubdirsIn(w, b) = SubdirsIn(x, b) \cup {at} /\ at \notin SubdirsIn(x, b)
       /\ \A q \in SubdirsIn(x, b) : w[q] = x[q]
  <2>1. \A q : q \in SubdirsIn(w, b) <=> q \in SubdirsIn(x, b) \/ q = at
    BY <1>4, <1>10, <1>11, <1>21, <1>22
  <2> QED BY <1>10, <1>11, <1>22, <2>1
<1>24. KidsIn(x, b) = {k \in LiveIn(v) \ {Root} : Parent(v, k) = d}
  BY <1>1, <1>7 DEF TreeOK
<1>25. KidsIn(w, b) = KidsIn(x, b) \cup {c}
  <2>1. w[at].first = c
    BY <1>4, <1>11
  <2> QED BY <1>23, <2>1 DEF KidsIn
<1>26. SlotsOK(w, b)
  <2>1. \A i, j \in SubdirsIn(x, b) : x[i].first = x[j].first => i = j
    BY <1>1, <1>7, <1>19 DEF SlotsOK
  <2>2. \A i \in SubdirsIn(x, b) : w[i].first = x[i].first /\ x[i].first # c
    <3>1. \A i \in SubdirsIn(x, b) : x[i].first \in KidsIn(x, b)
      BY DEF KidsIn
    <3> QED BY <1>2, <1>23, <1>24, <3>1
  <2>3. w[at].first = c
    BY <1>4, <1>11
  <2>4. \A i, j \in SubdirsIn(w, b) : w[i].first = w[j].first => i = j
    BY <1>23, <2>1, <2>2, <2>3
  <2>5. \A q \in EntriesIn(w) : q > b => w[q].name \in Shorts
    <3> TAKE q \in EntriesIn(w)
    <3>1. q = at => w[q].name \in Shorts
      BY <1>4, <1>11 DEF FreshFor
    <3>2. q # at => q \in EntriesIn(x) /\ w[q] = x[q]
      BY <1>10, <1>11
    <3> QED BY <1>1, <1>7, <3>1, <3>2, EntryAt
  <2>6. b <= Len(w)
    BY <1>10, <1>20
  <2> QED BY <1>11, <2>4, <2>5, <2>6 DEF SlotsOK
<1>27. SlotsOK(Heads(c, d), 2) /\ Len(Heads(c, d)) = 2 /\ Base(c) = 2
       /\ Heads(c, d)[1] = Entry(Dot, "dir", c, NoLong)
       /\ Heads(c, d)[2] = Entry(DotDot, "dir", d, NoLong)
       /\ Heads(c, d)[2].first = d /\ SubdirsIn(Heads(c, d), 2) = {}
  BY <1>1, <1>2, NewSlots DEF Base
<1>28. \A y \in LiveIn(t2) : SlotsOK(t2.dir[y], Base(y)) /\ Len(t2.dir[y]) <= Capacity(t2, y)
  <2> TAKE y \in LiveIn(t2)
  <2>1. CASE y = c
    BY <1>13, <1>18, <1>27, <2>1
  <2>2. CASE y = d
    BY <1>1, <1>7, <1>10, <1>12, <1>17, <1>26, <2>2
  <2>3. CASE y # c /\ y # d
    BY <1>1, <1>13, <1>14, <1>17, <1>19, <2>3
  <2> QED BY <2>1, <2>2, <2>3
<1>29. /\ Parent(t2, c) = d
       /\ \A k \in LiveIn(v) \ {Root} : /\ Parent(t2, k) = Parent(v, k)
                                        /\ t2.dir[k][1] = v.dir[k][1] /\ t2.dir[k][2] = v.dir[k][2]
  <2>1. Parent(t2, c) = d
    BY <1>13, <1>27 DEF Parent
  <2>2. ASSUME NEW k \in LiveIn(v) \ {Root}
        PROVE  t2.dir[k][1] = v.dir[k][1] /\ t2.dir[k][2] = v.dir[k][2]
    <3>1. k \in {Root} \cup Clusters /\ k # c
      BY <1>1, <1>2
    <3>2. k = d => 1 \in 1..b /\ 2 \in 1..b
      BY <1>7, <2>2 DEF Base
    <3> QED BY <1>7, <1>12, <1>13, <1>20, <3>1, <3>2
  <2> QED BY <2>1, <2>2 DEF Parent
<1>30. \A y \in LiveIn(t2) \ {Root} : HeadOK(t2, y)
  <2> TAKE y \in LiveIn(t2) \ {Root}
  <2>1. CASE y = c
    BY <1>1, <1>13, <1>14, <1>27, <1>29, <2>1 DEF HeadOK
  <2>2. CASE y # c
    <3>1. y \in LiveIn(v) \ {Root}
      BY <1>14, <2>2
    <3>2. HeadOK(v, y)
      BY <1>1, <3>1 DEF TreeOK
    <3> QED BY <1>14, <1>29, <3>1, <3>2 DEF HeadOK
  <2> QED BY <2>1, <2>2
<1>31. \A k \in LiveIn(v) \ {Root} : Parent(v, k) \in LiveIn(v)
  BY <1>1 DEF TreeOK, HeadOK
<1>32. \A y \in LiveIn(t2) :
         KidsIn(t2.dir[y], Base(y)) = {k \in LiveIn(t2) \ {Root} : Parent(t2, k) = y}
  <2> TAKE y \in LiveIn(t2)
  <2>1. CASE y = c
    <3>1. KidsIn(t2.dir[y], Base(y)) = {}
      BY <1>13, <1>27, <2>1 DEF KidsIn
    <3>2. \A k \in LiveIn(t2) \ {Root} : Parent(t2, k) # c
      BY <1>2, <1>14, <1>29, <1>31
    <3> QED BY <2>1, <3>1, <3>2
  <2>2. CASE y = d
    <3>1. KidsIn(t2.dir[y], Base(y)) = {k \in LiveIn(v) \ {Root} : Parent(v, k) = d} \cup {c}
      BY <1>7, <1>12, <1>24, <1>25, <2>2
    <3> QED BY <1>2, <1>14, <1>29, <2>2, <3>1
  <2>3. CASE y # c /\ y # d
    <3>1. y \in LiveIn(v) /\ t2.dir[y] = v.dir[y]
      BY <1>1, <1>13, <1>14, <2>3
    <3>2. KidsIn(v.dir[y], Base(y)) = {k \in LiveIn(v) \ {Root} : Parent(v, k) = y}
      BY <1>1, <3>1 DEF TreeOK
    <3> QED BY <1>14, <1>29, <2>3, <3>1, <3>2
  <2> QED BY <2>1, <2>2, <2>3
<1>33. NoLoops(t2)
  <2> SUFFICES ASSUME NEW C \in SUBSET (LiveIn(t2) \ {Root}), C # {}
               PROVE  \E y \in C : Parent(t2, y) \notin C
    BY DEF NoLoops
  <2>1. PICK B : B = C \ {c}
    OBVIOUS
  <2>2. B \in SUBSET (LiveIn(v) \ {Root})
    BY <1>14, <2>1
  <2>3. CASE B = {}
    BY <1>2, <1>29, <2>1, <2>3
  <2>4. CASE B # {}
    <3>1. PICK y \in B : Parent(v, y) \notin B
      BY <1>1, <2>2, <2>4 DEF TreeOK, NoLoops
    <3>2. Parent(v, y) # c /\ Parent(t2, y) = Parent(v, y)
      BY <1>2, <1>29, <1>31, <2>2
    <3> QED BY <2>1, <3>1, <3>2
  <2> QED BY <2>3, <2>4
<1>34. TreeOK(t2)
  BY <1>12, <1>15, <1>16, <1>28, <1>30, <1>32, <1>33 DEF TreeOK
<1>35. ASSUME NEW y \in LiveIn(v) PROVE y \in LiveIn(t2) /\ Len(v.dir[y]) <= Len(t2.dir[y])
  <2>1. y \in {Root} \cup Clusters /\ Len(v.dir[y]) \in Nat /\ y # c
    BY <1>1, <1>2, FirstSlots
  <2>2. y # d => t2.dir[y] = v.dir[y]
    BY <1>13, <2>1
  <2> QED BY <1>7, <1>10, <1>12, <1>14, <2>1, <2>2
<1>36. Kept(v, t2)
  BY <1>34, <1>35 DEF Kept
<1>37. Kept(t, v)
  BY RoomKept
<1>38. Kept(t, t2)
  BY <1>36, <1>37, KeptTwice
<1> QED BY <1>3, <1>5, <1>7, <1>38

\* The chain of a directory is freed.
LEMMA FreedIs ==
  ASSUME NEW t \in TreeType, NEW c \in Clusters
  PROVE  /\ Freed(t, c) \in TreeType
         /\ Freed(t, c).dir[c] = <<>>
         /\ \A x \in {Root} \cup Clusters : x # c => Freed(t, c).dir[x] = t.dir[x]
         /\ \A k \in Clusters : Freed(t, c).owner[k] = IF t.owner[k] = c THEN NoOne ELSE t.owner[k]
<1>1. PICK D, o : /\ D = [t.dir EXCEPT ![c] = <<>>]
                  /\ o = [k \in Clusters |-> IF t.owner[k] = c THEN NoOne ELSE t.owner[k]]
  OBVIOUS
<1>2. /\ D \in [{Root} \cup Clusters -> Seq(SlotType)] /\ o \in [Clusters -> {NoOne} \cup Clusters]
      /\ D[c] = <<>>
      /\ \A x \in {Root} \cup Clusters : x # c => D[x] = t.dir[x]
      /\ \A k \in Clusters : o[k] = IF t.owner[k] = c THEN NoOne ELSE t.owner[k]
  <2>1. t.dir \in [{Root} \cup Clusters -> Seq(SlotType)] /\ t.owner \in [Clusters -> {NoOne} \cup Clusters]
    BY DEF TreeType
  <2>2. <<>> \in Seq(SlotType)
    OBVIOUS
  <2> QED BY <1>1, <2>1, <2>2
<1>3. Freed(t, c) = [dir |-> D, owner |-> o]
  <2>1. c # Root
    BY DEF Clusters, Root
  <2> QED BY <1>1, <2>1 DEF Freed
<1>4. PICK w : w = Freed(t, c) /\ w = [dir |-> D, owner |-> o]
  BY <1>3
<1>5. w \in TreeType /\ w.dir = D /\ w.owner = o
  BY <1>2, <1>4 DEF TreeType
<1> QED BY <1>2, <1>4, <1>5

\* Where an entry leads to.
LEMMA LeadsTo ==
  ASSUME NEW t, TreeOK(t), NEW d \in LiveIn(t), NEW p \in EntriesIn(t.dir[d]), p > Base(d),
         IsDir(t.dir[d][p])
  PROVE  /\ t.dir[d][p].first \in LiveIn(t) \ {Root}
         /\ Parent(t, t.dir[d][p].first) = d
         /\ t.dir[d][p].first # d /\ t.dir[d][p].first \in Clusters
<1>1. PICK k : k = t.dir[d][p].first
  OBVIOUS
<1>2. p \in SubdirsIn(t.dir[d], Base(d))
  BY SubdirsAre
<1>3. k \in KidsIn(t.dir[d], Base(d))
  BY <1>1, <1>2 DEF KidsIn
<1>4. KidsIn(t.dir[d], Base(d)) = {j \in LiveIn(t) \ {Root} : Parent(t, j) = d}
  BY DEF TreeOK
<1>5. k \in LiveIn(t) \ {Root} /\ Parent(t, k) = d
  BY <1>3, <1>4
<1>6. k # d
  BY <1>5, NotItself
<1>7. k \in Clusters
  BY <1>5 DEF LiveIn
<1> QED BY <1>1, <1>5, <1>6, <1>7

\* An empty directory goes.
LEMMA KidRemoved ==
  ASSUME NEW t, TreeOK(t), NEW d \in LiveIn(t), NEW p \in EntriesIn(t.dir[d]), p > Base(d),
         IsDir(t.dir[d][p]), NEW c, c = t.dir[d][p].first,
         \A q \in 3..Len(t.dir[c]) : t.dir[c][q] = Del,
         NEW t2, NEW u, Written(Freed(t, c), t2, d, u), DroppedIn(t.dir[d], u, p)
  PROVE  /\ TreeOK(t2) /\ LiveIn(t2) = LiveIn(t) \ {c}
         /\ \A x \in LiveIn(t2) : Len(t.dir[x]) <= Len(t2.dir[x])
<1>1. PICK k : k = c /\ k = t.dir[d][p].first
  OBVIOUS
<1>2. k \in LiveIn(t) \ {Root} /\ Parent(t, k) = d /\ k # d /\ k \in Clusters /\ t.owner[k] = k
  <2>1. k \in LiveIn(t) \ {Root} /\ Parent(t, k) = d /\ k # d /\ k \in Clusters
    BY <1>1, LeadsTo
  <2> QED BY <2>1 DEF LiveIn
<1>3. t \in TreeType /\ d \in {Root} \cup Clusters
      /\ LiveIn(t) \subseteq {Root} \cup Clusters /\ Root \in LiveIn(t)
  BY Basics DEF TreeOK
<1>4. PICK s, b : s = t.dir[d] /\ b = Base(d)
  OBVIOUS
<1>5. /\ t2 \in TreeType /\ t2.dir[d] = u /\ t2.dir[k] = <<>>
      /\ \A x \in {Root} \cup Clusters : x # d /\ x # k => t2.dir[x] = t.dir[x]
      /\ \A j \in Clusters : t2.owner[j] = IF t.owner[j] = k THEN NoOne ELSE t.owner[j]
  <2>1. Written(Freed(t, k), t2, d, u)
    BY <1>1
  <2>2. /\ Freed(t, k).dir[k] = <<>>
        /\ \A x \in {Root} \cup Clusters : x # k => Freed(t, k).dir[x] = t.dir[x]
        /\ \A j \in Clusters : Freed(t, k).owner[j] = IF t.owner[j] = k THEN NoOne ELSE t.owner[j]
    BY <1>2, <1>3, FreedIs
  <2> QED BY <1>2, <2>1, <2>2 DEF Written
<1>6. LiveIn(t2) = LiveIn(t) \ {k}
  <2>1. \A j \in Clusters : t2.owner[j] = j <=> t.owner[j] = j /\ j # k
    BY <1>2, <1>5, Basics
  <2>2. \A x : x \in LiveIn(t2) <=> x = Root \/ (x \in Clusters /\ t2.owner[x] = x)
    BY DEF LiveIn
  <2>3. \A x : x \in LiveIn(t) <=> x = Root \/ (x \in Clusters /\ t.owner[x] = x)
    BY DEF LiveIn
  <2>4. \A x : x \in LiveIn(t2) <=> x \in LiveIn(t) /\ x # k
    BY <1>2, <2>1, <2>2, <2>3
  <2> QED BY <2>4
<1>7. \A j \in Clusters : t2.owner[j] # NoOne => t2.owner[j] \in LiveIn(t2) \ {Root}
  BY <1>5, <1>6 DEF TreeOK
<1>8. \A j \in Clusters : j \notin LiveIn(t2) => t2.dir[j] = <<>>
  BY <1>5, <1>6 DEF TreeOK
<1>9. \A x \in LiveIn(t2) : Capacity(t2, x) = Capacity(t, x)
  <2> TAKE x \in LiveIn(t2)
  <2>1. x # NoOne /\ x # k
    BY <1>3, <1>6, Basics
  <2>2. \A j \in Clusters : t.owner[j] = x <=> t2.owner[j] = x
    BY <1>5, <2>1
  <2> QED BY <2>2, CapacitySame
<1>10. \A x \in LiveIn(t) : SlotsOK(t.dir[x], Base(x)) /\ Len(t.dir[x]) <= Capacity(t, x)
  BY DEF TreeOK
<1>11. s \in Seq(SlotType) /\ NamesIn(s) /\ SlotsOK(s, b) /\ Len(s) \in Nat /\ b <= Len(s)
       /\ DOMAIN s = 1..Len(s)
  <2>1. SlotsOK(s, b)
    BY <1>4, <1>10
  <2> QED BY <2>1, LenProperties DEF SlotsOK
<1>12. p \in EntriesIn(s) /\ p > b /\ IsDir(s[p]) /\ s[p].first = k
  BY <1>1, <1>4
<1>13. DroppedIn(s, u, p)
  BY <1>4
<1>14. NamesIn(u) /\ EntriesIn(u) = EntriesIn(s) \ {p} /\ \A q \in EntriesIn(u) : u[q] = s[q]
  BY <1>11, <1>12, <1>13, DroppedIs
<1>15. u \in Seq(SlotType) /\ Len(u) = Len(s)
  BY <1>13 DEF DroppedIn
<1>16. b \in Nat /\ \A q \in 1..b : u[q] = s[q]
  <2>1. b \in Nat /\ \A q \in 1..b : q \in EntriesIn(s)
    BY <1>4, FirstSlots DEF EntriesIn, Base
  <2>2. p \in Nat
    BY <1>11, <1>12 DEF EntriesIn
  <2>3. \A q \in 1..b : q # p
    BY <1>12, <2>1, <2>2
  <2> QED BY <1>14, <2>1, <2>3
<1>17. \A q : q \in SubdirsIn(u, b) <=> q \in EntriesIn(u) /\ q > b /\ IsDir(u[q])
  BY SubdirsAre
<1>18. \A q : q \in SubdirsIn(s, b) <=> q \in EntriesIn(s) /\ q > b /\ IsDir(s[q])
  BY SubdirsAre
<1>19. SubdirsIn(u, b) = SubdirsIn(s, b) \ {p} /\ p \in SubdirsIn(s, b)
       /\ \A q \in SubdirsIn(u, b) : u[q] = s[q]
  <2>1. \A q : q \in SubdirsIn(u, b) <=> q \in SubdirsIn(s, b) /\ q # p
    BY <1>14, <1>17, <1>18
  <2> QED BY <1>12, <1>14, <1>17, <1>18, <2>1
<1>20. \A i, j \in SubdirsIn(s, b) : s[i].first = s[j].first => i = j
  BY <1>11 DEF SlotsOK
<1>21. KidsIn(u, b) = KidsIn(s, b) \ {k}
  <2>1. \A i \in SubdirsIn(u, b) : u[i].first = s[i].first /\ s[i].first # k /\ i \in SubdirsIn(s, b)
    BY <1>12, <1>19, <1>20
  <2>2. \A i \in SubdirsIn(s, b) : s[i].first # k => i \in SubdirsIn(u, b) /\ u[i].first = s[i].first
    BY <1>12, <1>19
  <2>3. \A j : j \in KidsIn(u, b) <=> j \in KidsIn(s, b) /\ j # k
    BY <2>1, <2>2 DEF KidsIn
  <2> QED BY <2>3
<1>22. SlotsOK(u, b)
  <2>1. \A i, j \in SubdirsIn(u, b) : u[i].first = u[j].first => i = j
    BY <1>19, <1>20
  <2>2. \A q \in EntriesIn(u) : q > b => u[q].name \in Shorts
    BY <1>4, <1>14, EntryAt
  <2> QED BY <1>11, <1>14, <1>15, <2>1, <2>2 DEF SlotsOK
<1>23. \A x \in LiveIn(t2) : SlotsOK(t2.dir[x], Base(x)) /\ Len(t2.dir[x]) <= Capacity(t2, x)
  <2> TAKE x \in LiveIn(t2)
  <2>1. CASE x = d
    BY <1>4, <1>5, <1>9, <1>10, <1>15, <1>22, <2>1
  <2>2. CASE x # d
    BY <1>3, <1>5, <1>6, <1>9, <1>10, <2>2
  <2> QED BY <2>1, <2>2
<1>24. \A j \in LiveIn(t2) \ {Root} : /\ Parent(t2, j) = Parent(t, j)
                                     /\ t2.dir[j][1] = t.dir[j][1] /\ t2.dir[j][2] = t.dir[j][2]
  <2>1. ASSUME NEW j \in LiveIn(t2) \ {Root}
        PROVE  t2.dir[j][1] = t.dir[j][1] /\ t2.dir[j][2] = t.dir[j][2]
    <3>1. j \in {Root} \cup Clusters /\ j # k
      BY <1>3, <1>6
    <3>2. j = d => 1 \in 1..b /\ 2 \in 1..b
      BY <1>4, <2>1 DEF Base
    <3> QED BY <1>4, <1>5, <1>16, <3>1, <3>2
  <2> QED BY <2>1 DEF Parent
<1>25. \A j \in LiveIn(t) \ {Root} : Parent(t, j) # k
  <2>1. KidsIn(t.dir[k], Base(k)) = {j \in LiveIn(t) \ {Root} : Parent(t, j) = k}
    BY <1>2 DEF TreeOK
  <2>2. SubdirsIn(t.dir[k], Base(k)) = {}
    <3>1. /\ t.dir[k] \in Seq(SlotType) /\ Len(t.dir[k]) \in Nat /\ DOMAIN t.dir[k] = 1..Len(t.dir[k])
          /\ Base(k) = 2
      BY <1>2, FirstSlots
    <3>2. \A q \in 3..Len(t.dir[k]) : t.dir[k][q] = Del
      BY <1>1
    <3>3. \A q \in DOMAIN t.dir[k] : q > 2 => t.dir[k][q] = Del
      <4> TAKE q \in DOMAIN t.dir[k]
      <4> HAVE q > 2
      <4>1. q \in 3..Len(t.dir[k])
        BY <3>1
      <4> QED BY <3>2, <4>1
    <3>4. ~IsDir(Del)
      BY DEF Del, IsDir, IsEntry
    <3> QED BY <3>1, <3>3, <3>4 DEF SubdirsIn
  <2>3. KidsIn(t.dir[k], Base(k)) = {}
    BY <2>2 DEF KidsIn
  <2> QED BY <2>1, <2>3
<1>26. \A x \in LiveIn(t2) \ {Root} : HeadOK(t2, x)
  <2> TAKE x \in LiveIn(t2) \ {Root}
  <2>1. x \in LiveIn(t) \ {Root}
    BY <1>6
  <2>2. HeadOK(t, x) /\ Parent(t, x) # k
    BY <1>25, <2>1 DEF TreeOK
  <2> QED BY <1>6, <1>24, <2>2 DEF HeadOK
<1>27. \A x \in LiveIn(t2) :
         KidsIn(t2.dir[x], Base(x)) = {j \in LiveIn(t2) \ {Root} : Parent(t2, j) = x}
  <2> TAKE x \in LiveIn(t2)
  <2>1. KidsIn(t.dir[x], Base(x)) = {j \in LiveIn(t) \ {Root} : Parent(t, j) = x}
    BY <1>6 DEF TreeOK
  <2>2. CASE x = d
    <3>1. KidsIn(t2.dir[x], Base(x)) = {j \in LiveIn(t) \ {Root} : Parent(t, j) = x} \ {k}
      BY <1>4, <1>5, <1>21, <2>1, <2>2
    <3> QED BY <1>6, <1>24, <3>1
  <2>3. CASE x # d
    <3>1. t2.dir[x] = t.dir[x]
      BY <1>3, <1>5, <1>6, <2>3
    <3> QED BY <1>2, <1>6, <1>24, <2>1, <2>3, <3>1
  <2> QED BY <2>2, <2>3
<1>28. NoLoops(t2)
  <2> SUFFICES ASSUME NEW C \in SUBSET (LiveIn(t2) \ {Root}), C # {}
               PROVE  \E y \in C : Parent(t2, y) \notin C
    BY DEF NoLoops
  <2>1. C \in SUBSET (LiveIn(t) \ {Root})
    BY <1>6
  <2>2. PICK y \in C : Parent(t, y) \notin C
    BY <2>1 DEF TreeOK, NoLoops
  <2> QED BY <1>24, <2>2
<1>29. TreeOK(t2)
  BY <1>5, <1>7, <1>8, <1>23, <1>26, <1>27, <1>28 DEF TreeOK
<1>30. ASSUME NEW x \in LiveIn(t2) PROVE Len(t.dir[x]) <= Len(t2.dir[x])
  <2>1. x \in LiveIn(t) /\ x # k
    BY <1>6
  <2>2. x \in {Root} \cup Clusters /\ Len(t.dir[x]) \in Nat
    BY <2>1, FirstSlots
  <2>3. x # d => t2.dir[x] = t.dir[x]
    BY <1>5, <2>1, <2>2
  <2> QED BY <1>4, <1>5, <1>11, <1>15, <2>2, <2>3
<1> QED BY <1>1, <1>6, <1>29, <1>30

\* ".." of a moved directory leads to where it is now.
LEMMA DotDotFixed ==
  ASSUME NEW t \in TreeType, NEW k \in Clusters, NEW d, NEW d2 \in {Root} \cup Clusters, NEW e,
         IsDir(e), e.first = k, 2 \in DOMAIN t.dir[k], t.dir[k][2] = Entry(DotDot, "dir", d, NoLong)
  PROVE  \E y : /\ Written(t, FixDotDot(t, e, d2), k, y)
                /\ PutIn(t.dir[k], 2, Entry(DotDot, "dir", d2, NoLong), y)
<1>1. PICK D, o : t = [dir |-> D, owner |-> o] /\ D \in [{Root} \cup Clusters -> Seq(SlotType)]
                 /\ o \in [Clusters -> {NoOne} \cup Clusters]
  BY DEF TreeType
<1>2. t.dir = D /\ t.owner = o
  BY <1>1
<1>3. PICK s : s = D[k] /\ s \in Seq(SlotType)
  BY <1>1
<1>4. PICK x : x = Entry(DotDot, "dir", d2, NoLong)
  OBVIOUS
<1>5. x \in SlotType
  BY <1>4, EntryMade
<1>6. [s[2] EXCEPT !.first = d2] = x
  <2>1. s[2] = [tag |-> "entry", name |-> DotDot, kind |-> "dir", first |-> d, ro |-> FALSE, long |-> NoLong]
    BY <1>2, <1>3 DEF Entry
  <2>2. x = [tag |-> "entry", name |-> DotDot, kind |-> "dir", first |-> d2, ro |-> FALSE, long |-> NoLong]
    BY <1>4 DEF Entry
  <2>3. PICK r, nm, f, l : r = s[2] /\ nm = DotDot /\ f = FALSE /\ l = NoLong
    OBVIOUS
  <2>4. /\ r = [tag |-> "entry", name |-> nm, kind |-> "dir", first |-> d, ro |-> f, long |-> l]
        /\ x = [tag |-> "entry", name |-> nm, kind |-> "dir", first |-> d2, ro |-> f, long |-> l]
    BY <2>1, <2>2, <2>3
  <2>5. [r EXCEPT !.first = d2] = x
    BY <2>4
  <2> QED BY <2>3, <2>5
<1>7. PICK y : y = [s EXCEPT ![2] = x]
  OBVIOUS
<1>8. PICK n \in Nat : n = Len(s) /\ DOMAIN s = 1..n /\ 2 \in 1..n
  BY <1>2, <1>3, LenProperties
<1>9. PutIn(s, 2, x, y)
  <2>1. 2 \in 1..(Len(s) + 1) /\ ~(2 > Len(s))
    BY <1>8
  <2>2. PICK p \in Nat : p = 2
    OBVIOUS
  <2>3. Put(s, p, x) = [s EXCEPT ![p] = x]
    BY <2>1, <2>2 DEF Put
  <2>4. PutIn(s, p, x, Put(s, p, x))
    <3>1. p \in 1..(Len(s) + 1)
      BY <2>1, <2>2
    <3> QED BY <1>3, <1>5, <3>1, PutSlot
  <2> QED BY <1>7, <2>2, <2>3, <2>4
<1>10. y \in Seq(SlotType)
  BY <1>9 DEF PutIn
<1>11. PICK E : E = [D EXCEPT ![k] = y]
  OBVIOUS
<1>12. E \in [{Root} \cup Clusters -> Seq(SlotType)] /\ E[k] = y
       /\ \A z \in {Root} \cup Clusters : z # k => E[z] = D[z]
  BY <1>1, <1>10, <1>11
<1>13. FixDotDot(t, e, d2) = [t EXCEPT !.dir = E]
  <2>1. FixDotDot(t, e, d2) = [t EXCEPT !.dir[k][2].first = d2]
    <3>1. IsEntry(t.dir[k][2]) /\ t.dir[k][2].name = DotDot
      BY DEF Entry, IsEntry
    <3>2. Len(t.dir[k]) >= 2
      BY <1>2, <1>3, <1>8
    <3>3. HasDotDot(t.dir[k])
      BY <3>1, <3>2 DEF HasDotDot
    <3> QED BY <3>3 DEF FixDotDot
  <2>2. [t EXCEPT !.dir[k][2].first = d2]
          = [t EXCEPT !.dir = [t.dir EXCEPT ![k] = [t.dir[k] EXCEPT ![2] = [t.dir[k][2] EXCEPT !.first = d2]]]]
    OBVIOUS
  <2>3. [t.dir EXCEPT ![k] = [t.dir[k] EXCEPT ![2] = [t.dir[k][2] EXCEPT !.first = d2]]] = E
    BY <1>2, <1>3, <1>6, <1>7, <1>11
  <2> QED BY <2>1, <2>2, <2>3
<1>14. FixDotDot(t, e, d2) = [dir |-> E, owner |-> o]
  BY <1>1, <1>13
<1>15. PICK w : w = FixDotDot(t, e, d2) /\ w = [dir |-> E, owner |-> o]
  BY <1>14
<1>16. w \in TreeType /\ w.dir = E /\ w.owner = o
  BY <1>1, <1>12, <1>15 DEF TreeType
<1>17. Written(t, w, k, y)
  BY <1>2, <1>12, <1>16 DEF Written
<1> QED BY <1>2, <1>3, <1>4, <1>9, <1>15, <1>17

\* A directory gets an entry in another one, that is not below it.
LEMMA KidMoved ==
  ASSUME NEW t, TreeOK(t), NEW d \in LiveIn(t), NEW p \in EntriesIn(t.dir[d]), p > Base(d),
         IsDir(t.dir[d][p]), NEW d2 \in LiveIn(t), d2 # d,
         NEW v, NEW at, NEW n, NEW e \in EntryType,
         RoomFor(t, v, d2, at, n, e.long, e.name), e.long # NoLong => n = LongSlots[e.long],
         FreshFor(t.dir[d2], e.name, e.long), IsDir(e), e.first = t.dir[d][p].first,
         NEW A, d2 \in A, e.first \notin A, \A x \in A \cap (LiveIn(t) \ {Root}) : Parent(t, x) \in A
  PROVE  Kept(t, Set(FixDotDot(Set(v, d2, at, e), e, d2), d, p, Del))
<1>1. PICK k : k = e.first /\ k = t.dir[d][p].first
  OBVIOUS
<1>2. k \in LiveIn(t) \ {Root} /\ Parent(t, k) = d /\ k # d /\ k \in Clusters /\ k # d2
  BY <1>1, LeadsTo
<1>3. /\ TreeOK(v) /\ LiveIn(v) = LiveIn(t) /\ v \in TreeType
      /\ LiveIn(v) \subseteq {Root} \cup Clusters /\ Root \in LiveIn(v)
      /\ d \in {Root} \cup Clusters /\ d2 \in {Root} \cup Clusters
      /\ v.dir[d] = t.dir[d] /\ v.dir[k] = t.dir[k]
      /\ \A j \in LiveIn(t) \ {Root} : Parent(v, j) = Parent(t, j)
  BY <1>2, Basics DEF RoomFor, TreeOK
<1>4. PICK s, x, w, b, b2, t1 : /\ s = v.dir[d] /\ x = v.dir[d2] /\ w = Put(x, at, e)
                                /\ b = Base(d) /\ b2 = Base(d2) /\ t1 = Set(v, d2, at, e)
  OBVIOUS
<1>5. /\ EntryIn(t.dir[d2], Put(v.dir[d2], at, e), Base(d2), at, e)
      /\ Len(Put(v.dir[d2], at, e)) <= Capacity(v, d2)
      /\ \A q \in EntriesIn(v.dir[d2]) : Put(v.dir[d2], at, e)[q] = v.dir[d2][q]
      /\ EntriesIn(v.dir[d2]) = EntriesIn(t.dir[d2])
      /\ Len(v.dir[d2]) <= Len(Put(v.dir[d2], at, e))
      /\ Written(v, Set(v, d2, at, e), d2, Put(v.dir[d2], at, e))
  BY EntryPut
<1>6. /\ EntryIn(t.dir[d2], w, b2, at, e) /\ Len(w) <= Capacity(v, d2)
      /\ \A q \in EntriesIn(x) : w[q] = x[q]
      /\ EntriesIn(x) = EntriesIn(t.dir[d2]) /\ Len(x) <= Len(w) /\ Written(v, t1, d2, w)
  BY <1>4, <1>5
<1>7. /\ w \in Seq(SlotType) /\ NamesIn(w) /\ at \in EntriesIn(w) /\ at > b2 /\ w[at] = e
      /\ at \notin EntriesIn(x) /\ EntriesIn(w) = EntriesIn(x) \cup {at}
  BY <1>6 DEF EntryIn
<1>8. t1 \in TreeType /\ t1.owner = v.owner /\ t1.dir[d2] = w
      /\ \A z \in {Root} \cup Clusters : z # d2 => t1.dir[z] = v.dir[z]
  BY <1>6 DEF Written
<1>9. HeadOK(v, k) /\ Parent(v, k) = d
  BY <1>2, <1>3 DEF TreeOK
<1>10. PICK h, g : h = v.dir[k] /\ g = Entry(DotDot, "dir", d2, NoLong)
  OBVIOUS
<1>11. /\ h \in Seq(SlotType) /\ Len(h) \in Nat /\ DOMAIN h = 1..Len(h) /\ Base(k) = 2 /\ 2 \in 1..Len(h)
       /\ SlotsOK(h, 2) /\ NamesIn(h) /\ Len(h) <= Capacity(v, k)
       /\ h[2] = Entry(DotDot, "dir", d, NoLong) /\ h[1] = Entry(Dot, "dir", k, NoLong)
  <2>1. /\ h \in Seq(SlotType) /\ Len(h) \in Nat /\ DOMAIN h = 1..Len(h) /\ Base(k) = 2
        /\ Base(k) \in 0..Len(h)
    BY <1>2, <1>3, <1>10, FirstSlots
  <2>2. SlotsOK(h, 2) /\ Len(h) <= Capacity(v, k)
    BY <1>2, <1>3, <1>10, <2>1 DEF TreeOK
  <2> QED BY <1>9, <1>10, <2>1, <2>2 DEF HeadOK, SlotsOK
<1>12. PICK y : /\ Written(t1, FixDotDot(t1, e, d2), k, y)
                /\ PutIn(t1.dir[k], 2, Entry(DotDot, "dir", d2, NoLong), y)
  <2>1. t1.dir[k] = h
    BY <1>2, <1>8, <1>10
  <2>2. 2 \in DOMAIN t1.dir[k] /\ t1.dir[k][2] = Entry(DotDot, "dir", d, NoLong)
    BY <1>11, <2>1
  <2> QED BY <1>1, <1>2, <1>3, <1>8, <2>2, DotDotFixed
<1>13. PICK tf : tf = FixDotDot(t1, e, d2)
  OBVIOUS
<1>14. /\ tf \in TreeType /\ tf.owner = v.owner /\ tf.dir[k] = y /\ tf.dir[d2] = w /\ tf.dir[d] = s
       /\ \A z \in {Root} \cup Clusters : z # d2 /\ z # k => tf.dir[z] = v.dir[z]
  <2>1. Written(t1, tf, k, y)
    BY <1>12, <1>13
  <2> QED BY <1>2, <1>3, <1>4, <1>8, <2>1 DEF Written
<1>15. /\ y \in Seq(SlotType) /\ Len(y) = Len(h) /\ DOMAIN y = DOMAIN h /\ y[2] = g
       /\ \A q \in DOMAIN h : q # 2 => y[q] = h[q]
  <2>1. PutIn(h, 2, g, y)
    BY <1>2, <1>8, <1>10, <1>12
  <2>2. ~(2 > Len(h)) /\ DOMAIN h \cup {2} = DOMAIN h
    BY <1>11
  <2> QED BY <2>1, <2>2 DEF PutIn
<1>16. p \in EntriesIn(s) /\ p > b /\ IsDir(s[p]) /\ s[p].first = k
  BY <1>1, <1>3, <1>4
<1>17. PICK u, t2 : t2 = Set(tf, d, p, Del) /\ Written(tf, t2, d, u) /\ DroppedIn(s, u, p)
  BY <1>3, <1>14, <1>16, DropOne
<1>18. /\ t2 \in TreeType /\ t2.owner = v.owner /\ t2.dir[k] = y /\ t2.dir[d2] = w /\ t2.dir[d] = u
       /\ \A z \in {Root} \cup Clusters : z # d2 /\ z # k /\ z # d => t2.dir[z] = v.dir[z]
  BY <1>2, <1>3, <1>14, <1>17 DEF Written
<1>19. LiveIn(t2) = LiveIn(v) /\ \A z : Capacity(t2, z) = Capacity(v, z)
  BY <1>18 DEF LiveIn, Capacity
<1>20. \A z \in LiveIn(v) : SlotsOK(v.dir[z], Base(z)) /\ Len(v.dir[z]) <= Capacity(v, z)
  BY <1>3 DEF TreeOK
\* The directory it comes from.
<1>21. s \in Seq(SlotType) /\ NamesIn(s) /\ SlotsOK(s, b) /\ Len(s) \in Nat /\ b <= Len(s)
       /\ DOMAIN s = 1..Len(s) /\ Len(s) <= Capacity(v, d)
  <2>1. SlotsOK(s, b) /\ Len(s) <= Capacity(v, d)
    BY <1>3, <1>4, <1>20
  <2> QED BY <2>1, LenProperties DEF SlotsOK
<1>22. NamesIn(u) /\ EntriesIn(u) = EntriesIn(s) \ {p} /\ \A q \in EntriesIn(u) : u[q] = s[q]
  BY <1>16, <1>17, <1>21, DroppedIs
<1>23. u \in Seq(SlotType) /\ Len(u) = Len(s)
  BY <1>17 DEF DroppedIn
<1>24. b \in Nat /\ \A q \in 1..b : u[q] = s[q]
  <2>1. b \in Nat /\ \A q \in 1..b : q \in EntriesIn(s)
    BY <1>3, <1>4, FirstSlots DEF EntriesIn, Base
  <2>2. p \in Nat
    BY <1>16, <1>21 DEF EntriesIn
  <2>3. \A q \in 1..b : q # p
    BY <1>16, <2>1, <2>2
  <2> QED BY <1>22, <2>1, <2>3
<1>25. SubdirsIn(u, b) = SubdirsIn(s, b) \ {p} /\ p \in SubdirsIn(s, b)
       /\ \A q \in SubdirsIn(u, b) : u[q] = s[q]
  <2>1. \A q : q \in SubdirsIn(u, b) <=> q \in EntriesIn(u) /\ q > b /\ IsDir(u[q])
    BY SubdirsAre
  <2>2. \A q : q \in SubdirsIn(s, b) <=> q \in EntriesIn(s) /\ q > b /\ IsDir(s[q])
    BY SubdirsAre
  <2>3. \A q : q \in SubdirsIn(u, b) <=> q \in SubdirsIn(s, b) /\ q # p
    BY <1>22, <2>1, <2>2
  <2> QED BY <1>16, <1>22, <2>1, <2>2, <2>3
<1>26. \A i, j \in SubdirsIn(s, b) : s[i].first = s[j].first => i = j
  BY <1>21 DEF SlotsOK
<1>27. KidsIn(u, b) = KidsIn(s, b) \ {k}
  <2>1. \A i \in SubdirsIn(u, b) : u[i].first = s[i].first /\ s[i].first # k /\ i \in SubdirsIn(s, b)
    BY <1>16, <1>25, <1>26
  <2>2. \A i \in SubdirsIn(s, b) : s[i].first # k => i \in SubdirsIn(u, b) /\ u[i].first = s[i].first
    BY <1>16, <1>25
  <2>3. \A j : j \in KidsIn(u, b) <=> j \in KidsIn(s, b) /\ j # k
    BY <2>1, <2>2 DEF KidsIn
  <2> QED BY <2>3
<1>28. SlotsOK(u, b)
  <2>1. \A i, j \in SubdirsIn(u, b) : u[i].first = u[j].first => i = j
    BY <1>25, <1>26
  <2>2. \A q \in EntriesIn(u) : q > b => u[q].name \in Shorts
    BY <1>3, <1>4, <1>22, EntryAt
  <2> QED BY <1>21, <1>22, <1>23, <2>1, <2>2 DEF SlotsOK
\* The directory it comes to.
<1>29. /\ b2 \in Nat /\ Len(x) \in Nat /\ b2 <= Len(x) /\ Len(w) \in Nat
       /\ \A q \in 1..b2 : q \in EntriesIn(x) /\ w[q] = x[q]
  <2>1. b2 \in Nat /\ \A q \in 1..b2 : q \in EntriesIn(x)
    BY <1>3, <1>4, FirstSlots DEF EntriesIn, Base
  <2>2. x \in Seq(SlotType) /\ b2 <= Len(x)
    BY <1>3, <1>4, <1>20 DEF SlotsOK
  <2> QED BY <1>6, <1>7, <2>1, <2>2, LenProperties
<1>30. SubdirsIn(w, b2) = SubdirsIn(x, b2) \cup {at} /\ at \notin SubdirsIn(x, b2)
       /\ \A q \in SubdirsIn(x, b2) : w[q] = x[q]
  <2>1. \A q : q \in SubdirsIn(w, b2) <=> q \in EntriesIn(w) /\ q > b2 /\ IsDir(w[q])
    BY SubdirsAre
  <2>2. \A q : q \in SubdirsIn(x, b2) <=> q \in EntriesIn(x) /\ q > b2 /\ IsDir(x[q])
    BY SubdirsAre
  <2>3. \A q : q \in SubdirsIn(w, b2) <=> q \in SubdirsIn(x, b2) \/ q = at
    BY <1>6, <1>7, <2>1, <2>2
  <2> QED BY <1>6, <1>7, <2>2, <2>3
<1>31. KidsIn(x, b2) = {j \in LiveIn(v) \ {Root} : Parent(v, j) = d2}
  BY <1>3, <1>4 DEF TreeOK
<1>32. w[at].first = k
  BY <1>1, <1>7
<1>33. KidsIn(w, b2) = KidsIn(x, b2) \cup {k}
  BY <1>30, <1>32 DEF KidsIn
<1>34. SlotsOK(w, b2)
  <2>1. \A i, j \in SubdirsIn(x, b2) : x[i].first = x[j].first => i = j
    BY <1>3, <1>4, <1>20 DEF SlotsOK
  <2>2. \A i \in SubdirsIn(x, b2) : w[i].first = x[i].first /\ x[i].first # k
    <3>1. \A i \in SubdirsIn(x, b2) : x[i].first \in KidsIn(x, b2)
      BY DEF KidsIn
    <3>2. k \notin KidsIn(x, b2)
      BY <1>9, <1>31
    <3> QED BY <1>30, <3>1, <3>2
  <2>3. \A i, j \in SubdirsIn(w, b2) : w[i].first = w[j].first => i = j
    BY <1>30, <1>32, <2>1, <2>2
  <2>4. \A q \in EntriesIn(w) : q > b2 => w[q].name \in Shorts
    <3> TAKE q \in EntriesIn(w)
    <3>1. q = at => w[q].name \in Shorts
      BY <1>7 DEF FreshFor
    <3>2. q # at => q \in EntriesIn(x) /\ w[q] = x[q]
      BY <1>6, <1>7
    <3> QED BY <1>3, <1>4, <3>1, <3>2, EntryAt
  <2>5. b2 <= Len(w)
    BY <1>6, <1>29
  <2> QED BY <1>7, <2>3, <2>4, <2>5 DEF SlotsOK
\* The directory itself.
<1>35. IsEntry(g) /\ g.name = DotDot /\ g.long = NoLong /\ g.first = d2
  <2>1. PICK name, kind, long : name = DotDot /\ kind = "dir" /\ long = NoLong
    OBVIOUS
  <2>2. g = Entry(name, kind, d2, long)
    BY <1>10, <2>1
  <2>3. IsEntry(g) /\ g.name = name /\ g.long = long /\ g.first = d2
    BY <2>2 DEF Entry, IsEntry
  <2> QED BY <2>1, <2>3
<1>36. IsEntry(h[2]) /\ h[2].name = DotDot /\ h[2].long = NoLong
  <2>1. h[2] = Entry(DotDot, "dir", d, NoLong)
    BY <1>11
  <2>2. IsEntry(Entry(DotDot, "dir", d, NoLong)) /\ Entry(DotDot, "dir", d, NoLong).name = DotDot
        /\ Entry(DotDot, "dir", d, NoLong).long = NoLong
    BY DEF Entry, IsEntry
  <2> QED BY <2>1, <2>2
<1>37. \A q : q \in EntriesIn(y) <=> q \in EntriesIn(h)
  BY <1>11, <1>15, <1>35, <1>36 DEF EntriesIn
<1>38. NamesIn(y)
  <2>1. \A q \in DOMAIN h : h[q].tag = "lfn" => y[q] = h[q]
    BY <1>15, <1>36 DEF IsEntry
  <2>2. \A q \in EntriesIn(y) : q \in EntriesIn(h) /\ y[q].name = h[q].name /\ y[q].long = h[q].long
    <3> TAKE q \in EntriesIn(y)
    <3>1. q \in EntriesIn(h) /\ q \in DOMAIN h
      BY <1>37 DEF EntriesIn
    <3> QED BY <1>15, <1>35, <1>36, <3>1
  <2> QED BY <1>11, <1>15, <2>1, <2>2, NamesKept
<1>39. SubdirsIn(y, 2) = SubdirsIn(h, 2) /\ \A q \in SubdirsIn(y, 2) : y[q] = h[q] /\ q # 2
  <2>1. \A q \in DOMAIN h : q > 2 => q # 2
    BY <1>11
  <2>2. \A q : q \in SubdirsIn(y, 2) <=> q \in SubdirsIn(h, 2)
    BY <1>15, <2>1 DEF SubdirsIn
  <2>3. \A q \in SubdirsIn(y, 2) : y[q] = h[q] /\ q # 2
    BY <1>15, <2>1 DEF SubdirsIn
  <2> QED BY <2>2, <2>3
<1>40. KidsIn(y, 2) = KidsIn(h, 2)
  BY <1>39 DEF KidsIn
<1>41. SlotsOK(y, 2)
  <2>1. \A i, j \in SubdirsIn(y, 2) : y[i].first = y[j].first => i = j
    BY <1>11, <1>39 DEF SlotsOK
  <2>2. \A q \in EntriesIn(y) : q > 2 => y[q].name \in Shorts
    <3> TAKE q \in EntriesIn(y)
    <3> HAVE q > 2
    <3>1. q \in EntriesIn(h) /\ q \in DOMAIN h
      BY <1>37 DEF EntriesIn
    <3>2. q # 2
      BY <1>11, <3>1
    <3> QED BY <1>11, <1>15, <3>1, <3>2 DEF SlotsOK
  <2>3. 2 <= Len(y)
    BY <1>11, <1>15
  <2> QED BY <1>15, <1>38, <2>1, <2>2, <2>3 DEF SlotsOK
\* All of them.
<1>42. \A z \in LiveIn(t2) : SlotsOK(t2.dir[z], Base(z)) /\ Len(t2.dir[z]) <= Capacity(t2, z)
  <2> TAKE z \in LiveIn(t2)
  <2>1. CASE z = d
    BY <1>4, <1>18, <1>19, <1>21, <1>23, <1>28, <2>1
  <2>2. CASE z = d2
    BY <1>4, <1>6, <1>18, <1>19, <1>34, <2>2
  <2>3. CASE z = k
    BY <1>11, <1>15, <1>18, <1>19, <1>41, <2>3
  <2>4. CASE z # d /\ z # d2 /\ z # k
    BY <1>3, <1>18, <1>19, <1>20, <2>4
  <2> QED BY <2>1, <2>2, <2>3, <2>4
<1>43. /\ Parent(t2, k) = d2 /\ t2.dir[k][2] = g /\ t2.dir[k][1] = v.dir[k][1]
       /\ \A j \in LiveIn(v) \ {Root} : j # k =>
            /\ Parent(t2, j) = Parent(v, j)
            /\ t2.dir[j][1] = v.dir[j][1] /\ t2.dir[j][2] = v.dir[j][2]
  <2>1. t2.dir[k][2] = g /\ Parent(t2, k) = d2
    BY <1>15, <1>18, <1>35 DEF Parent
  <2>2. t2.dir[k][1] = v.dir[k][1]
    <3>1. 1 \in DOMAIN h /\ 1 # 2
      BY <1>11
    <3> QED BY <1>10, <1>15, <1>18, <3>1
  <2>3. ASSUME NEW j \in LiveIn(v) \ {Root}, j # k
        PROVE  t2.dir[j][1] = v.dir[j][1] /\ t2.dir[j][2] = v.dir[j][2]
    <3>1. j \in {Root} \cup Clusters
      BY <1>3
    <3>2. j = d => 1 \in 1..b /\ 2 \in 1..b
      BY <1>4, <2>3 DEF Base
    <3>3. j = d2 => 1 \in 1..b2 /\ 2 \in 1..b2
      BY <1>4, <2>3 DEF Base
    <3> QED BY <1>4, <1>18, <1>24, <1>29, <2>3, <3>1, <3>2, <3>3
  <2> QED BY <2>1, <2>2, <2>3 DEF Parent
<1>44. \A z \in LiveIn(t2) \ {Root} : HeadOK(t2, z)
  <2> TAKE z \in LiveIn(t2) \ {Root}
  <2>1. z \in LiveIn(v) \ {Root} /\ HeadOK(v, z)
    BY <1>3, <1>19 DEF TreeOK
  <2>2. CASE z = k
    BY <1>3, <1>10, <1>19, <1>43, <2>1, <2>2 DEF HeadOK
  <2>3. CASE z # k
    BY <1>19, <1>43, <2>1, <2>3 DEF HeadOK
  <2> QED BY <2>2, <2>3
<1>45. \A z \in LiveIn(t2) :
         KidsIn(t2.dir[z], Base(z)) = {j \in LiveIn(t2) \ {Root} : Parent(t2, j) = z}
  <2> TAKE z \in LiveIn(t2)
  <2>1. KidsIn(v.dir[z], Base(z)) = {j \in LiveIn(v) \ {Root} : Parent(v, j) = z}
    BY <1>3, <1>19 DEF TreeOK
  <2>2. CASE z = d
    <3>1. KidsIn(t2.dir[z], Base(z)) = {j \in LiveIn(v) \ {Root} : Parent(v, j) = z} \ {k}
      BY <1>4, <1>18, <1>27, <2>1, <2>2
    <3>2. \A j \in LiveIn(v) \ {Root} : Parent(t2, j) = z <=> Parent(v, j) = z /\ j # k
      BY <1>43, <2>2
    <3> QED BY <1>19, <3>1, <3>2
  <2>3. CASE z = d2
    <3>1. KidsIn(t2.dir[z], Base(z)) = {j \in LiveIn(v) \ {Root} : Parent(v, j) = z} \cup {k}
      BY <1>4, <1>18, <1>33, <2>1, <2>3
    <3>2. \A j \in LiveIn(v) \ {Root} : Parent(t2, j) = z <=> Parent(v, j) = z \/ j = k
      BY <1>43, <2>3
    <3>3. k \in LiveIn(v) \ {Root}
      BY <1>2, <1>3
    <3> QED BY <1>19, <3>1, <3>2, <3>3
  <2>4. CASE z # d /\ z # d2
    <3>1. KidsIn(t2.dir[z], Base(z)) = KidsIn(v.dir[z], Base(z))
      <4>1. z = k => t2.dir[z] = y /\ v.dir[z] = h /\ Base(z) = 2
        BY <1>10, <1>11, <1>18
      <4>2. z # k => t2.dir[z] = v.dir[z]
        BY <1>3, <1>18, <1>19, <2>4
      <4> QED BY <1>40, <4>1, <4>2
    <3>2. \A j \in LiveIn(v) \ {Root} : Parent(t2, j) = z <=> Parent(v, j) = z
      BY <1>9, <1>43, <2>4
    <3> QED BY <1>19, <2>1, <3>1, <3>2
  <2> QED BY <2>2, <2>3, <2>4
<1>46. NoLoops(t2)
  <2> SUFFICES ASSUME NEW C \in SUBSET (LiveIn(t) \ {Root}), C # {},
                      \A z \in C : Parent(t2, z) \in C
               PROVE  FALSE
    BY <1>3, <1>19 DEF NoLoops
  <2>1. \A z \in C : z # k => Parent(t2, z) = Parent(t, z)
    BY <1>3, <1>43
  <2>2. CASE k \notin C
    <3>1. \E z \in C : Parent(t, z) \notin C
      BY DEF TreeOK, NoLoops
    <3> QED BY <2>1, <2>2, <3>1
  <2>3. CASE k \in C
    <3>1. PICK B : B = C \cap A
      OBVIOUS
    <3>2. d2 \in B /\ k \notin B /\ B \in SUBSET (LiveIn(t) \ {Root}) /\ B # {}
      BY <1>1, <1>43, <2>3, <3>1
    <3>3. PICK z \in B : Parent(t, z) \notin B
      BY <3>2 DEF TreeOK, NoLoops
    <3>4. Parent(t, z) \in C
      BY <2>1, <3>1, <3>2, <3>3
    <3>5. Parent(t, z) \in A
      BY <3>1, <3>2, <3>3
    <3> QED BY <3>1, <3>3, <3>4, <3>5
  <2> QED BY <2>2, <2>3
<1>47. \A c \in Clusters : t2.owner[c] # NoOne => t2.owner[c] \in LiveIn(t2) \ {Root}
  BY <1>3, <1>18, <1>19 DEF TreeOK
<1>48. \A c \in Clusters : c \notin LiveIn(t2) => t2.dir[c] = <<>>
  BY <1>2, <1>3, <1>18, <1>19 DEF TreeOK
<1>49. TreeOK(t2)
  BY <1>18, <1>42, <1>44, <1>45, <1>46, <1>47, <1>48 DEF TreeOK
<1>50. \A z \in LiveIn(v) : Len(v.dir[z]) <= Len(t2.dir[z])
  <2> TAKE z \in LiveIn(v)
  <2>1. Len(v.dir[z]) \in Nat /\ z \in {Root} \cup Clusters
    BY <1>3, FirstSlots
  <2>2. z = d => Len(v.dir[z]) <= Len(t2.dir[z])
    BY <1>4, <1>18, <1>21, <1>23
  <2>3. z = d2 => Len(v.dir[z]) <= Len(t2.dir[z])
    BY <1>4, <1>6, <1>18
  <2>4. z = k => Len(v.dir[z]) <= Len(t2.dir[z])
    BY <1>10, <1>11, <1>15, <1>18
  <2>5. z # d /\ z # d2 /\ z # k => t2.dir[z] = v.dir[z]
    BY <1>18, <2>1
  <2> QED BY <2>1, <2>2, <2>3, <2>4, <2>5
<1>51. Kept(v, t2)
  BY <1>19, <1>49, <1>50 DEF Kept
<1>52. Kept(t, v)
  BY RoomKept
<1>53. Kept(t, t2)
  BY <1>51, <1>52, KeptTwice
<1> QED BY <1>4, <1>13, <1>17, <1>53

----------------------------------------------------------------------------
(* Paths and names.                                                        *)

\* The way up from a directory.
Climbing(d) ==
  LET up[k \in 0..MaxCluster] ==
        IF k = 0 \/ up[k - 1] = Root THEN IF k = 0 THEN d ELSE Root
        ELSE dir[up[k - 1]][2].first
  IN  up

\* Each step leads to the parent, and the root stays.
LEMMA ClimbingSteps ==
  ASSUME TreeOK(Tree), NEW d \in LiveIn(Tree)
  PROVE  /\ \A k \in 0..MaxCluster : Climbing(d)[k] \in LiveIn(Tree)
         /\ Climbing(d)[0] = d
         /\ \A k \in 1..MaxCluster :
              Climbing(d)[k] = IF Climbing(d)[k - 1] = Root THEN Root ELSE Parent(Tree, Climbing(d)[k - 1])
<1>1. PICK N \in Nat : N = MaxCluster
  BY Basics
<1>2. PICK S : S = LiveIn(Tree)
  OBVIOUS
<1>3. d \in S /\ Root \in S /\ \A x \in S : x # Root => dir[x][2].first \in S /\ dir[x][2].first = Parent(Tree, x)
  <2>1. Tree.dir = dir
    BY DEF Tree
  <2> QED BY <1>2, <2>1, Basics DEF TreeOK, HeadOK, Parent
<1> DEFINE g == [n \in 1..N |-> [x \in S |-> IF x = Root THEN Root ELSE dir[x][2].first]]
           F == Climbing(d)
<1>4. g \in [1..N -> [S -> S]]
  BY <1>3
<1>5. F = CHOOSE u : u = [k \in 0..N |-> IF k = 0 \/ u[k - 1] = Root THEN IF k = 0 THEN d ELSE Root
                                         ELSE dir[u[k - 1]][2].first]
  BY <1>1 DEF Climbing
<1> HIDE DEF g, F
<1>6. PICK f \in [0..N -> S] : Lists(f, d, g, N)
  BY <1>1, <1>3, <1>4, RepeatedSteps, Zenon
<1>7. f[0] = d /\ \A n \in 1..N : f[n] = IF f[n - 1] = Root THEN Root ELSE dir[f[n - 1]][2].first
  <2>1. ASSUME NEW n \in 1..N PROVE f[n] = IF f[n - 1] = Root THEN Root ELSE dir[f[n - 1]][2].first
    <3>1. n - 1 \in 0..N
      BY <1>1
    <3>2. f[n - 1] \in S
      BY <1>6, <3>1
    <3>3. f[n] = g[n][f[n - 1]]
      BY <1>6 DEF Lists
    <3> QED BY <3>2, <3>3 DEF g
  <2> QED BY <1>6, <2>1 DEF Lists
<1>8. f = [k \in 0..N |-> IF k = 0 \/ f[k - 1] = Root THEN IF k = 0 THEN d ELSE Root
                          ELSE dir[f[k - 1]][2].first]
  <2>1. \A n \in 0..N : n = 0 \/ n \in 1..N
    BY <1>1
  <2>2. \A n \in 1..N : n # 0
    OBVIOUS
  <2> QED BY <1>6, <1>7, <2>1, <2>2
<1>9. F = [k \in 0..N |-> IF k = 0 \/ F[k - 1] = Root THEN IF k = 0 THEN d ELSE Root
                          ELSE dir[F[k - 1]][2].first]
  BY <1>5, <1>8
<1>10. F[0] = d /\ \A n \in 1..N : F[n] = IF F[n - 1] = Root THEN Root ELSE dir[F[n - 1]][2].first
  <2>1. 0 \in 0..N /\ \A n \in 1..N : n \in 0..N /\ n # 0
    BY <1>1
  <2> QED BY <1>9, <2>1
<1> DEFINE Q == {n \in 0..N : F[n] \in S}
<1>11. 0 \in Q
  BY <1>3, <1>10
<1>12. ASSUME NEW n \in 1..N, n - 1 \in Q PROVE n \in Q
  <2>1. F[n - 1] \in S /\ n \in 0..N
    BY <1>12
  <2> QED BY <1>3, <1>10, <2>1
<1>13. \A k \in 0..N : k \in Q
  <2> HIDE DEF Q
  <2> QED BY <1>1, <1>11, <1>12, Upwards
<1>14. \A k \in 0..N : F[k] \in S
  BY <1>13
<1>15. \A k \in 1..N : F[k - 1] \in S
  <2>1. \A k \in 1..N : k - 1 \in 0..N
    BY <1>1
  <2> QED BY <1>14, <2>1
<1>16. \A k \in 1..N : F[k] = IF F[k - 1] = Root THEN Root ELSE Parent(Tree, F[k - 1])
  BY <1>3, <1>10, <1>15
<1> QED BY <1>1, <1>2, <1>10, <1>14, <1>16 DEF F

\* In as many steps as there are clusters the root is reached: otherwise a
\* directory would come twice, and those between form a loop.
LEMMA RootReached ==
  ASSUME TreeOK(Tree), NEW d \in LiveIn(Tree)
  PROVE  \E k \in 0..MaxCluster : Climbing(d)[k] = Root
<1> SUFFICES ASSUME \A k \in 0..MaxCluster : Climbing(d)[k] # Root
             PROVE  FALSE
  OBVIOUS
<1>0. PICK F : F = Climbing(d)
  OBVIOUS
<1>1. PICK N \in Nat : N = MaxCluster /\ N >= 2 /\ F = Climbing(d)
  BY <1>0, Basics
<1>2. \A k \in 0..N : F[k] \in LiveIn(Tree) /\ F[k] # Root
  BY <1>1, ClimbingSteps
<1>3. \A k \in 1..N : F[k] = Parent(Tree, F[k - 1])
  <2>1. \A k \in 1..N : k - 1 \in 0..N
    BY <1>1
  <2>2. \A k \in 1..N : F[k] = IF F[k - 1] = Root THEN Root ELSE Parent(Tree, F[k - 1])
    BY <1>1, ClimbingSteps
  <2> QED BY <1>2, <2>1, <2>2
<1>4. \A k \in 0..N : F[k] \in Clusters
  BY <1>2, Basics
<1> DEFINE G == [k \in 0..N |-> F[k]]
<1>5. G \in [0..N -> Clusters]
  BY <1>4
<1>6. IsFiniteSet(0..N) /\ Cardinality(0..N) = N + 1
  <2>1. 0 \in Int /\ N \in Int
    OBVIOUS
  <2>2. IsFiniteSet(0..N) /\ Cardinality(0..N) = IF 0 > N THEN 0 ELSE N - 0 + 1
    BY <2>1, FS_Interval
  <2> QED BY <1>1, <2>2
<1>7. IsFiniteSet(Clusters) /\ Cardinality(Clusters) = N - 1
  <2>1. 2 \in Int /\ N \in Int
    OBVIOUS
  <2>2. IsFiniteSet(2..N) /\ Cardinality(2..N) = IF 2 > N THEN 0 ELSE N - 2 + 1
    BY <2>1, FS_Interval
  <2> QED BY <1>1, <2>2 DEF Clusters
<1>8. \E i, j \in 0..N : i # j /\ G[i] = G[j]
  <2> HIDE DEF G
  <2>1. Cardinality(Clusters) < Cardinality(0..N)
    BY <1>1, <1>6, <1>7
  <2> QED BY <1>5, <1>6, <1>7, <2>1, FS_PigeonHole
<1>9. PICK i \in 0..N, j \in 0..N : i < j /\ F[i] = F[j]
  <2>1. PICK i \in 0..N, j \in 0..N : i # j /\ G[i] = G[j]
    BY <1>8
  <2>2. F[i] = F[j] /\ (i < j \/ j < i)
    BY <2>1
  <2> QED BY <2>2
<1> DEFINE C == {F[m] : m \in i..(j - 1)}
<1>10. C \in SUBSET (LiveIn(Tree) \ {Root})
  <2>1. \A m \in i..(j - 1) : m \in 0..N
    BY <1>1
  <2> QED BY <1>2, <2>1
<1>11. F[i] \in C
  <2>1. i \in i..(j - 1)
    BY <1>1, <1>9
  <2> QED BY <2>1
<1>12. ASSUME NEW x \in C PROVE Parent(Tree, x) \in C
  <2>1. PICK m \in i..(j - 1) : x = F[m]
    OBVIOUS
  <2>2. PICK q \in Nat : q = m + 1
    BY <1>1
  <2>3. q \in 1..N /\ q - 1 = m /\ (q = j \/ q \in i..(j - 1))
    BY <1>1, <2>2
  <2>4. F[q] = Parent(Tree, x)
    BY <1>3, <2>1, <2>3
  <2> QED BY <1>9, <1>11, <2>3, <2>4
<1> HIDE DEF C
<1>13. NoLoops(Tree)
  BY DEF TreeOK
<1>14. PICK x \in C : Parent(Tree, x) \notin C
  BY <1>10, <1>11, <1>13 DEF NoLoops
<1> QED BY <1>12, <1>14

\* What is above a directory are directories up to the root.
LEMMA AboveIs ==
  ASSUME TreeOK(Tree), NEW d \in LiveIn(Tree)
  PROVE  /\ Above(d) \subseteq LiveIn(Tree) /\ d \in Above(d) /\ Root \in Above(d)
         /\ \A x \in Above(d) : x # Root => Parent(Tree, x) \in Above(d)
<1>0. PICK F : F = Climbing(d)
  OBVIOUS
<1>1. PICK N \in Nat : N = MaxCluster /\ N >= 2 /\ F = Climbing(d)
  BY <1>0, Basics
<1>2. Above(d) = {F[k] : k \in 0..N}
  BY <1>1 DEF Above, Climbing
<1>3. \A k \in 0..N : F[k] \in LiveIn(Tree)
  BY <1>1, ClimbingSteps
<1>4. F[0] = d /\ \A k \in 1..N : F[k] = IF F[k - 1] = Root THEN Root ELSE Parent(Tree, F[k - 1])
  BY <1>1, ClimbingSteps
<1>5. PICK r \in 0..N : F[r] = Root
  BY <1>1, RootReached
<1>6. 0 \in 0..N
  OBVIOUS
<1> DEFINE S == {k \in 0..N : k < r \/ F[k] = Root}
<1>7. 0 \in S
  BY <1>5, <1>6
<1>8. ASSUME NEW k \in 1..N, k - 1 \in S PROVE k \in S
  <2>1. k \in 0..N /\ k - 1 \in 0..N /\ (k - 1 < r \/ F[k - 1] = Root)
    BY <1>8
  <2>2. k < r \/ k = r \/ F[k - 1] = Root
    BY <2>1
  <2> QED BY <1>4, <1>5, <2>1, <2>2
<1>9. \A k \in 0..N : k \in S
  <2> HIDE DEF S
  <2> QED BY <1>7, <1>8, Upwards
<1>10. F[N] = Root
  <2>1. N \in 0..N /\ ~(N < r)
    OBVIOUS
  <2> QED BY <1>9, <2>1
<1>11. ASSUME NEW x \in Above(d), x # Root PROVE Parent(Tree, x) \in Above(d)
  <2>1. PICK k \in 0..N : x = F[k]
    BY <1>2
  <2>2. k # N
    BY <1>10, <1>11, <2>1
  <2>3. PICK q \in Nat : q = k + 1
    OBVIOUS
  <2>4. q \in 1..N /\ q - 1 = k /\ q \in 0..N
    BY <2>2, <2>3
  <2>5. F[q] = Parent(Tree, x)
    BY <1>4, <1>11, <2>1, <2>4
  <2> QED BY <1>2, <2>4, <2>5
<1>12. Above(d) \subseteq LiveIn(Tree)
  BY <1>2, <1>3
<1> QED BY <1>2, <1>4, <1>5, <1>6, <1>11, <1>12

\* The hypotheses of the theorems, each for a deviation of the code: 8.3 calls do
\* not make names of the form of an alias, "." and ".." are not the last
\* component of a path, 7156h moves no directory to another one and 56h none
\* below itself.
Plain == ~AliasNames /\ ~DotNames /\ ~MovesAnywhere

\* The names that calls get.
LEMMA NamesGiven ==
  ASSUME Plain
  PROVE  Names = Shorts \cup Longs /\ NewNames \subseteq ShortNames \cup Longs
<1>1. Names = Shorts \cup Longs
  BY DEF Plain, Names, Shorts
<1>2. NewNames = Names \ Aliases
  BY DEF Plain, NewNames
<1> QED BY <1>1, <1>2 DEF Shorts

\* The slots of "." and "..".
LEMMA DotsLead ==
  ASSUME NEW t, TreeOK(t), NEW d \in LiveIn(t), NEW p \in 1..Base(d)
  PROVE  d # Root /\ (p = 1 \/ p = 2) /\ t.dir[d][p].first \in LiveIn(t)
<1>1. d # Root
  BY DEF Base
<1>2. p = 1 \/ p = 2
  BY <1>1 DEF Base
<1>3. HeadOK(t, d)
  BY <1>1 DEF TreeOK
<1>4. PICK x : x = t.dir[d][1]
  OBVIOUS
<1>5. x.first = d
  BY <1>3, <1>4 DEF HeadOK, Entry
<1>6. t.dir[d][2].first \in LiveIn(t)
  BY <1>3 DEF HeadOK, Parent
<1> QED BY <1>1, <1>2, <1>4, <1>5, <1>6

\* Paths lead to directories there are.
LEMMA ResolvedLive ==
  ASSUME TreeOK(Tree), cwd \in LiveIn(Tree)
  PROVE  \A d \in fat_resolve_dir : d \in LiveIn(Tree)
<1> DEFINE t == Tree
<1>0. TreeOK(t) /\ t.dir = dir /\ LiveIn(t) = LiveIn(Tree)
  BY DEF Tree
<1> HIDE DEF t
<1>1. ASSUME NEW d \in LiveIn(t), NEW name, Component(d, name) # Nowhere
      PROVE  Component(d, name) \in LiveIn(t)
  <2>1. PICK p : p = fat_dir_search(t.dir[d], name)
    OBVIOUS
  <2>2. Component(d, name) = IF name = Dot THEN d
                             ELSE IF p # 0 /\ IsDir(t.dir[d][p]) THEN t.dir[d][p].first ELSE Nowhere
    BY <1>0, <2>1 DEF Component
  <2>3. CASE name = Dot
    BY <2>2, <2>3
  <2>4. CASE name # Dot
    <3>1. p # 0 /\ IsDir(t.dir[d][p]) /\ Component(d, name) = t.dir[d][p].first
      BY <1>1, <2>2, <2>4
    <3>2. t.dir[d] \in Seq(SlotType) /\ Len(t.dir[d]) \in Nat
      BY <1>0, FirstSlots
    <3>3. p \in EntriesIn(t.dir[d])
      BY <2>1, <3>1, <3>2, SearchIs
    <3>4. CASE p > Base(d)
      BY <1>0, <3>1, <3>3, <3>4, LeadsTo
    <3>5. CASE ~(p > Base(d))
      <4>1. p \in Nat \ {0} /\ Base(d) \in Nat
        BY <1>0, <3>3, EntryAt DEF Base
      <4>2. p \in 1..Base(d)
        BY <3>5, <4>1
      <4> QED BY <1>0, <3>1, <4>2, DotsLead
    <3> QED BY <3>4, <3>5
  <2> QED BY <2>3, <2>4
<1>2. Root \in LiveIn(t)
  BY Basics
<1>3. \A d \in {Root, cwd}, n \in ShortNames \cup Aliases \cup {Dot, DotDot} :
        Component(d, n) # Nowhere => Component(d, n) \in LiveIn(t)
  BY <1>0, <1>1, <1>2
<1> QED BY <1>0, <1>3 DEF fat_resolve_dir

\* The entry a name leads to.
LEMMA Searched ==
  ASSUME NEW t, TreeOK(t), NEW d \in LiveIn(t), NEW name \in Shorts \cup Longs
  PROVE  LET p == fat_dir_search(t.dir[d], name)
         IN  IF p = 0 THEN \A q \in EntriesIn(t.dir[d]) : t.dir[d][q].name # name
             ELSE p \in EntriesIn(t.dir[d]) /\ p > Base(d) /\ t.dir[d][p].name = name
<1>1. PICK s, p : s = t.dir[d] /\ p = fat_dir_search(s, name)
  OBVIOUS
<1>2. s \in Seq(SlotType)
  BY <1>1, FirstSlots
<1>3. IF p = 0 THEN \A q \in EntriesIn(s) : s[q].name # name ELSE p \in EntriesIn(s) /\ s[p].name = name
  BY <1>1, <1>2, SearchIs
<1>4. name # Dot /\ name # DotDot
  BY NamesDiffer
<1>5. p # 0 => p > Base(d)
  BY <1>1, <1>3, <1>4, EntryAt
<1> QED BY <1>1, <1>3, <1>5

\* The same by short and long names.
LEMMA LookedUp ==
  ASSUME NEW t, TreeOK(t), NEW d \in LiveIn(t), NEW name \in Shorts \cup Longs
  PROVE  LET p == lfn_lookup(t.dir[d], name)
         IN  IF p = 0 THEN \A q \in EntriesIn(t.dir[d]) : t.dir[d][q].name # name /\ t.dir[d][q].long # name
             ELSE p \in EntriesIn(t.dir[d]) /\ p > Base(d)
<1>1. PICK s, p : s = t.dir[d] /\ p = lfn_lookup(s, name)
  OBVIOUS
<1>2. s \in Seq(SlotType) /\ NamesIn(s)
  BY <1>1, FirstSlots DEF TreeOK, SlotsOK
<1>3. name # Dot /\ name # DotDot /\ name # NoLong
  BY NamesDiffer
<1>4. IF p = 0 THEN \A q \in EntriesIn(s) : s[q].name # name /\ s[q].long # name
      ELSE p \in EntriesIn(s) /\ name \in {s[p].name, s[p].long}
  BY <1>1, <1>2, <1>3, LookupIs
<1>5. p # 0 => p > Base(d)
  BY <1>1, <1>3, <1>4, EntryAt
<1> QED BY <1>1, <1>4, <1>5

\* A name that calls find nothing by is one that no entry has.
LEMMA NewName ==
  ASSUME NEW t, TreeOK(t), NEW d \in LiveIn(t), NEW name \in ShortNames \cup Longs,
         \/ lfn_lookup(t.dir[d], name) = 0
         \/ name \in ShortNames /\ fat_dir_search(t.dir[d], name) = 0
  PROVE  \A p \in EntriesIn(t.dir[d]) : t.dir[d][p].name # name /\ t.dir[d][p].long # name
<1>1. name \in Shorts \cup Longs
  BY DEF Shorts
<1>2. CASE lfn_lookup(t.dir[d], name) = 0
  BY <1>1, <1>2, LookedUp
<1>3. CASE name \in ShortNames /\ fat_dir_search(t.dir[d], name) = 0
  <2>1. \A p \in EntriesIn(t.dir[d]) : t.dir[d][p].name # name
    BY <1>1, <1>3, Searched
  <2>2. \A p \in EntriesIn(t.dir[d]) : t.dir[d][p].long \in Longs \cup {NoLong}
    BY EntryAt DEF EntryType
  <2>3. name \notin Longs /\ name # NoLong
    BY <1>1, <1>3, NamesDiffer DEF Shorts
  <2> QED BY <2>1, <2>2, <2>3
<1> QED BY <1>2, <1>3

----------------------------------------------------------------------------
(* What the calls make of a tree.                                          *)

\* What 3Ch, 5Bh and 716Ch make.
LEMMA CreateKept ==
  ASSUME EnoughAliases, NEW t, TreeOK(t), NEW d \in LiveIn(t), NEW name \in ShortNames \cup Longs,
         \A p \in EntriesIn(t.dir[d]) : t.dir[d][p].name # name /\ t.dir[d][p].long # name
  PROVE  LET r == Room(t, d, name)
         IN  Kept(t, IF r.at = 0 THEN r.t ELSE Set(r.t, d, r.at, Entry(r.short, "file", 0, r.long)))
<1>1. PICK r : r = Room(t, d, name)
  OBVIOUS
<1>2. /\ FreshFor(t.dir[d], r.short, r.long)
      /\ IF r.at = 0 THEN NoRoom(t, r.t, d)
         ELSE \E n : /\ RoomFor(t, r.t, d, r.at, n, r.long, r.short)
                     /\ r.long # NoLong => n = LongSlots[r.long]
  BY <1>1, RoomIs
<1>3. CASE r.at = 0
  <2>1. Kept(t, r.t)
    BY <1>2, <1>3, NoRoomKept DEF NoRoom
  <2> QED BY <1>1, <1>3, <2>1
<1>4. CASE r.at # 0
  <2>1. PICK v, at, short, long : v = r.t /\ at = r.at /\ short = r.short /\ long = r.long
    OBVIOUS
  <2>2. PICK n : RoomFor(t, v, d, at, n, long, short) /\ (long # NoLong => n = LongSlots[long])
    BY <1>2, <1>4, <2>1
  <2>3. FreshFor(t.dir[d], short, long)
    BY <1>2, <2>1
  <2>4. short \in Shorts /\ long \in Longs \cup {NoLong}
    BY <2>3 DEF FreshFor
  <2>5. PICK e : e = Entry(short, "file", 0, long)
    OBVIOUS
  <2>6. e \in EntryType /\ ~IsDir(e) /\ e.name = short /\ e.long = long
    <3>1. PICK k, f : k = "file" /\ f = 0
      OBVIOUS
    <3>2. k \in {"file", "dir"} /\ f \in {Root} \cup Clusters /\ k # "dir"
      BY <3>1 DEF Root
    <3>3. short \in Shorts \cup {Dot, DotDot}
      BY <2>4
    <3>4. e = Entry(short, k, f, long)
      BY <2>5, <3>1
    <3> QED BY <2>4, <3>2, <3>3, <3>4, EntryMade
  <2>7. Kept(t, Set(v, d, at, e))
    <3>1. RoomFor(t, v, d, at, n, e.long, e.name) /\ (e.long # NoLong => n = LongSlots[e.long])
      BY <2>2, <2>6
    <3>2. FreshFor(t.dir[d], e.name, e.long)
      BY <2>3, <2>6
    <3> QED BY <2>6, <3>1, <3>2, FileEntered
  <2> QED BY <1>1, <1>4, <2>1, <2>5, <2>7
<1> QED BY <1>3, <1>4

\* What 39h and 7139h make.
LEMMA MakeDirKept ==
  ASSUME EnoughAliases, NEW t, TreeOK(t), NEW d \in LiveIn(t), NEW name \in ShortNames \cup Longs,
         \A p \in EntriesIn(t.dir[d]) : t.dir[d][p].name # name /\ t.dir[d][p].long # name
  PROVE  LET r == Room(t, d, name)
             c == Min(FreeClusters(r.t))
         IN  Kept(t, IF r.at = 0 \/ FreeClusters(r.t) = {} THEN r.t
                     ELSE Set(NewDir(r.t, c, d), d, r.at, Entry(r.short, "dir", c, r.long)))
<1>1. PICK r : r = Room(t, d, name)
  OBVIOUS
<1>2. /\ FreshFor(t.dir[d], r.short, r.long)
      /\ IF r.at = 0 THEN NoRoom(t, r.t, d)
         ELSE \E n : /\ RoomFor(t, r.t, d, r.at, n, r.long, r.short)
                     /\ r.long # NoLong => n = LongSlots[r.long]
  BY <1>1, RoomIs
<1>3. CASE r.at = 0
  <2>1. Kept(t, r.t)
    BY <1>2, <1>3, NoRoomKept DEF NoRoom
  <2> QED BY <1>1, <1>3, <2>1
<1>4. CASE r.at # 0
  <2>1. PICK v, at, short, long : v = r.t /\ at = r.at /\ short = r.short /\ long = r.long
    OBVIOUS
  <2>2. PICK n : RoomFor(t, v, d, at, n, long, short) /\ (long # NoLong => n = LongSlots[long])
    BY <1>2, <1>4, <2>1
  <2>3. FreshFor(t.dir[d], short, long)
    BY <1>2, <2>1
  <2>4. CASE FreeClusters(v) = {}
    <3>1. Kept(t, v)
      BY <2>2, RoomKept
    <3> QED BY <1>1, <2>1, <2>4, <3>1
  <2>5. CASE FreeClusters(v) # {}
    <3>1. PICK c : c = Min(FreeClusters(v))
      OBVIOUS
    <3>2. FreeClusters(v) \in SUBSET Nat
      BY Basics DEF FreeClusters
    <3>3. c \in FreeClusters(v)
      BY <2>5, <3>1, <3>2, MinIn
    <3>4. Kept(t, Set(NewDir(v, c, d), d, at, Entry(short, "dir", c, long)))
      BY <2>2, <2>3, <3>3, KidMade
    <3> QED BY <1>1, <1>4, <2>1, <2>5, <3>1, <3>4
  <2> QED BY <2>4, <2>5
<1> QED BY <1>3, <1>4

\* What 41h and 7141h leave.
LEMMA UnlinkKept ==
  ASSUME NEW t, TreeOK(t), NEW d \in LiveIn(t), NEW p \in EntriesIn(t.dir[d]), ~IsDir(t.dir[d][p])
  PROVE  /\ Kept(t, Set(t, d, p, Del))
         /\ Kept(t, fat_delete_lfn_slots(Set(t, d, p, Del), d, p))
<1>1. t \in TreeType /\ d \in {Root} \cup Clusters
  BY Basics DEF TreeOK
<1>2. Kept(t, Set(t, d, p, Del))
  <2>1. PICK u : Written(t, Set(t, d, p, Del), d, u) /\ DroppedIn(t.dir[d], u, p)
    BY <1>1, DropOne
  <2> QED BY <2>1, FileDropped
<1>3. Kept(t, fat_delete_lfn_slots(Set(t, d, p, Del), d, p))
  <2>1. PICK u : /\ Written(t, fat_delete_lfn_slots(Set(t, d, p, Del), d, p), d, u)
                 /\ DroppedIn(t.dir[d], u, p)
    BY <1>1, DropAndSweep
  <2> QED BY <2>1, FileDropped
<1> QED BY <1>2, <1>3

\* The tree with other slots in one directory.
LEMMA DirReplaced ==
  ASSUME NEW t \in TreeType, NEW d \in {Root} \cup Clusters, NEW u \in Seq(SlotType)
  PROVE  Written(t, [t EXCEPT !.dir[d] = u], d, u)
<1>1. PICK D, o : /\ t = [dir |-> D, owner |-> o]
                  /\ D \in [{Root} \cup Clusters -> Seq(SlotType)]
                  /\ o \in [Clusters -> {NoOne} \cup Clusters]
  BY DEF TreeType
<1>2. t.dir = D /\ t.owner = o
  BY <1>1
<1>3. PICK E : E = [D EXCEPT ![d] = u]
  OBVIOUS
<1>4. PICK t2 : t2 = [dir |-> E, owner |-> o]
  OBVIOUS
<1>5. /\ E \in [{Root} \cup Clusters -> Seq(SlotType)] /\ E[d] = u
      /\ \A x \in {Root} \cup Clusters : x # d => E[x] = D[x]
  BY <1>1, <1>3
<1>6. t2 \in TreeType /\ t2.dir = E /\ t2.owner = o
  BY <1>1, <1>4, <1>5 DEF TreeType
<1>7. Written(t, t2, d, u)
  BY <1>2, <1>5, <1>6 DEF Written
<1>8. t2 = [t EXCEPT !.dir[d] = u]
  <2>1. [t EXCEPT !.dir[d] = u] = [t EXCEPT !.dir = [t.dir EXCEPT ![d] = u]]
    OBVIOUS
  <2>2. [t EXCEPT !.dir = E] = [dir |-> E, owner |-> o]
    BY <1>1
  <2> QED BY <1>2, <1>3, <1>4, <2>1, <2>2
<1> QED BY <1>7, <1>8

\* What 13h leaves.
LEMMA DeletesKept ==
  ASSUME NEW t, TreeOK(t), NEW d \in LiveIn(t), NEW pattern
  PROVE  Kept(t, [t EXCEPT !.dir[d] =
                    [p \in DOMAIN @ |-> IF /\ IsEntry(@[p]) /\ ~IsDir(@[p]) /\ ~@[p].ro
                                           /\ @[p].name \in pattern
                                          THEN Del ELSE @[p]]])
<1>1. PICK s, G : /\ s = t.dir[d]
                  /\ G = {p \in EntriesIn(s) : ~IsDir(s[p]) /\ ~s[p].ro /\ s[p].name \in pattern}
  OBVIOUS
<1>2. t \in TreeType /\ d \in {Root} \cup Clusters /\ s \in Seq(SlotType) /\ Len(s) \in Nat /\ DOMAIN s = 1..Len(s)
  BY <1>1, Basics, FirstSlots DEF TreeOK
<1>3. PICK u : u = [p \in DOMAIN s |-> IF p \in G THEN Del ELSE s[p]]
  OBVIOUS
<1>4. u \in Seq(SlotType)
  <2>1. \A p \in 1..Len(s) : s[p] \in SlotType
    BY <1>2
  <2>2. \A p \in 1..Len(s) : (IF p \in G THEN Del ELSE s[p]) \in SlotType
    BY <2>1 DEF SlotType
  <2>3. u \in [1..Len(s) -> SlotType]
    BY <1>2, <1>3, <2>2
  <2> QED BY <1>2, <2>3
<1>5. u = [p \in DOMAIN s |-> IF /\ IsEntry(s[p]) /\ ~IsDir(s[p]) /\ ~s[p].ro
                                 /\ s[p].name \in pattern
                                THEN Del ELSE s[p]]
  <2>1. \A p \in DOMAIN s : p \in G <=> IsEntry(s[p]) /\ ~IsDir(s[p]) /\ ~s[p].ro /\ s[p].name \in pattern
    BY <1>1 DEF EntriesIn
  <2> QED BY <1>3, <2>1
<1>6. PICK t2 : t2 = [t EXCEPT !.dir[d] = u]
  OBVIOUS
<1>7. Written(t, t2, d, u)
  BY <1>2, <1>4, <1>6, DirReplaced
<1>8. Kept(t, t2)
  <2>1. G \in SUBSET EntriesIn(s) /\ \A p \in G : ~IsDir(s[p])
    BY <1>1
  <2> QED BY <1>1, <1>3, <1>7, <2>1, FilesDropped
<1>9. [t EXCEPT !.dir[d] =
          [p \in DOMAIN @ |-> IF /\ IsEntry(@[p]) /\ ~IsDir(@[p]) /\ ~@[p].ro
                                 /\ @[p].name \in pattern
                                THEN Del ELSE @[p]]] = [t EXCEPT !.dir[d] = u]
  BY <1>1, <1>5
<1> QED BY <1>6, <1>8, <1>9

\* What 3Ah and 713Ah leave.
LEMMA RemovedIs ==
  ASSUME NEW t, TreeOK(t), NEW d \in LiveIn(t), NEW p \in EntriesIn(t.dir[d]), p > Base(d),
         IsDir(t.dir[d][p]), NEW c, c = t.dir[d][p].first,
         \A q \in 3..Len(t.dir[c]) : t.dir[c][q] = Del,
         NEW t2, \/ t2 = Set(Freed(t, c), d, p, Del)
                 \/ t2 = fat_delete_lfn_slots(Set(Freed(t, c), d, p, Del), d, p)
  PROVE  /\ TreeOK(t2) /\ LiveIn(t2) = LiveIn(t) \ {c}
         /\ \A x \in LiveIn(t2) : Len(t.dir[x]) <= Len(t2.dir[x])
<1>1. c \in LiveIn(t) \ {Root} /\ c # d /\ c \in Clusters
  BY LeadsTo
<1>2. t \in TreeType /\ d \in {Root} \cup Clusters
  BY Basics DEF TreeOK
<1>3. PICK v : v = Freed(t, c)
  OBVIOUS
<1>4. v \in TreeType /\ v.dir[d] = t.dir[d]
  BY <1>1, <1>2, <1>3, FreedIs
<1>5. p \in EntriesIn(v.dir[d])
  BY <1>4
<1>6. \E u : Written(v, t2, d, u) /\ DroppedIn(v.dir[d], u, p)
  <2>1. CASE t2 = Set(Freed(t, c), d, p, Del)
    BY <1>2, <1>3, <1>4, <1>5, <2>1, DropOne
  <2>2. CASE t2 = fat_delete_lfn_slots(Set(Freed(t, c), d, p, Del), d, p)
    BY <1>2, <1>3, <1>4, <1>5, <2>2, DropAndSweep
  <2> QED BY <2>1, <2>2
<1>7. PICK u : Written(v, t2, d, u) /\ DroppedIn(v.dir[d], u, p)
  BY <1>6
<1>8. Written(Freed(t, c), t2, d, u) /\ DroppedIn(t.dir[d], u, p)
  BY <1>3, <1>4, <1>7
<1>9. /\ Written(Freed(t, t.dir[d][p].first), t2, d, u)
      /\ \A q \in 3..Len(t.dir[t.dir[d][p].first]) : t.dir[t.dir[d][p].first][q] = Del
  BY <1>8
<1> HIDE <1>1, <1>2, <1>3, <1>4, <1>5, <1>6, <1>7
<1>10. /\ TreeOK(t2) /\ LiveIn(t2) = LiveIn(t) \ {t.dir[d][p].first}
       /\ \A x \in LiveIn(t2) : Len(t.dir[x]) <= Len(t2.dir[x])
  BY <1>8, <1>9, KidRemoved
<1> QED BY <1>10

\* An entry under another name.
LEMMA EntryChanged ==
  ASSUME NEW x \in EntryType, NEW name \in Shorts, NEW long \in Longs \cup {NoLong}, NEW e,
         e = [x EXCEPT !.name = name, !.long = long]
  PROVE  /\ e \in EntryType /\ e \in SlotType /\ IsEntry(e) /\ IsEntry(x)
         /\ e.name = name /\ e.long = long /\ e.first = x.first
         /\ IsDir(e) <=> IsDir(x)
<1>1. name \in Shorts \cup {Dot, DotDot}
  OBVIOUS
<1>2. e \in EntryType /\ e.name = name /\ e.long = long /\ e.first = x.first /\ e.kind = x.kind
  BY <1>1 DEF EntryType
<1>3. e \in SlotType /\ IsEntry(e) /\ IsEntry(x)
  BY <1>2 DEF EntryType, SlotType, IsEntry
<1> QED BY <1>2, <1>3 DEF IsDir

\* 56h in one directory.
LEMMA RenamedKept ==
  ASSUME NEW t, TreeOK(t), NEW d \in LiveIn(t), NEW p \in EntriesIn(t.dir[d]), p > Base(d),
         NEW name \in ShortNames, \A q \in EntriesIn(t.dir[d]) : t.dir[d][q].name # name,
         NEW e, e = [t.dir[d][p] EXCEPT !.name = name, !.long = NoLong],
         NEW t2, NEW u, Written(t, t2, d, u), PutIn(t.dir[d], p, e, u)
  PROVE  Kept(t, t2) /\ LiveIn(t2) = LiveIn(t)
<1>1. PICK x, l : x = t.dir[d][p] /\ l = NoLong
  OBVIOUS
<1>2. x \in EntryType /\ name \in Shorts /\ l \in Longs \cup {NoLong}
  BY <1>1, EntryAt DEF Shorts
<1>3. e = [x EXCEPT !.name = name, !.long = l]
  BY <1>1
<1> HIDE <1>1
<1>4. /\ e \in EntryType /\ e \in SlotType /\ IsEntry(e) /\ IsEntry(x)
      /\ e.name = name /\ e.long = l /\ e.first = x.first
      /\ IsDir(e) <=> IsDir(x)
  BY <1>2, <1>3, EntryChanged
<1>5. PICK s : s = t.dir[d]
  OBVIOUS
<1>6. /\ s \in Seq(SlotType) /\ NamesIn(s) /\ p \in EntriesIn(s) /\ p \in DOMAIN s /\ s[p] = x
      /\ p \in 1..Len(s) /\ Len(s) \in Nat
  BY <1>1, <1>5, FirstSlots, EntryAt DEF TreeOK, SlotsOK, EntriesIn
<1>7. NamesIn(u)
  <2>1. PutIn(s, p, e, u)
    BY <1>5
  <2>2. DOMAIN u = DOMAIN s /\ u[p] = e /\ \A q \in DOMAIN s : q # p => u[q] = s[q]
    BY <1>6, <2>1 DEF PutIn
  <2>3. u[p].name \notin Aliases /\ u[p].long = NoLong
    BY <1>1, <1>4, <2>2, NamesDiffer
  <2>4. \A q \in EntriesIn(s) : s[q].name # u[p].name
    BY <1>4, <1>5, <2>2
  <2> QED BY <1>6, <2>2, <2>3, <2>4, NamesRenamed
<1>8. e.name \in Shorts /\ e.first = t.dir[d][p].first /\ (IsDir(e) <=> IsDir(t.dir[d][p]))
  BY <1>1, <1>2, <1>4
<1> QED BY <1>4, <1>7, <1>8, EntryRewritten

\* A file of one directory becomes one of another.
LEMMA FileMoved ==
  ASSUME NEW t, TreeOK(t), NEW d \in LiveIn(t), NEW p \in EntriesIn(t.dir[d]), ~IsDir(t.dir[d][p]),
         NEW d2 \in LiveIn(t), d2 # d,
         NEW v, NEW at, NEW n, NEW e \in EntryType,
         RoomFor(t, v, d2, at, n, e.long, e.name), e.long # NoLong => n = LongSlots[e.long],
         FreshFor(t.dir[d2], e.name, e.long), ~IsDir(e)
  PROVE  /\ Kept(t, Set(Set(v, d2, at, e), d, p, Del))
         /\ Kept(t, Set(fat_delete_lfn_slots(Set(v, d2, at, e), d, p), d, p, Del))
<1>1. PICK w : w = Set(v, d2, at, e)
  OBVIOUS
<1>2. Kept(t, w) /\ LiveIn(w) = LiveIn(t)
  BY <1>1, FileEntered
<1>3. TreeOK(w) /\ w \in TreeType /\ d \in LiveIn(w) /\ d \in {Root} \cup Clusters
  BY <1>2, Basics DEF Kept, TreeOK
<1>4. w.dir[d] = t.dir[d]
  <2>1. Written(v, Set(v, d2, at, e), d2, Put(v.dir[d2], at, e))
    BY EntryPut
  <2>2. w.dir[d] = v.dir[d]
    BY <1>1, <1>3, <2>1 DEF Written
  <2> QED BY <1>3, <2>2 DEF RoomFor
<1>5. p \in EntriesIn(w.dir[d]) /\ ~IsDir(w.dir[d][p])
  BY <1>4
<1>6. ASSUME NEW t2, \E u : Written(w, t2, d, u) /\ DroppedIn(w.dir[d], u, p)
      PROVE  Kept(t, t2)
  <2>1. PICK u : Written(w, t2, d, u) /\ DroppedIn(w.dir[d], u, p)
    BY <1>6
  <2>2. Kept(w, t2)
    BY <1>3, <1>5, <2>1, FileDropped
  <2> QED BY <1>2, <2>2, KeptTwice
<1>7. \E u : Written(w, Set(w, d, p, Del), d, u) /\ DroppedIn(w.dir[d], u, p)
  BY <1>3, <1>5, DropOne
<1>8. \E u : Written(w, Set(fat_delete_lfn_slots(w, d, p), d, p, Del), d, u) /\ DroppedIn(w.dir[d], u, p)
  BY <1>3, <1>5, SweepAndDrop
<1> QED BY <1>1, <1>6, <1>7, <1>8

\* 56h from one directory to another; A has the directories above d2.
LEMMA MovedKept ==
  ASSUME NEW t, TreeOK(t), NEW d \in LiveIn(t), NEW p \in EntriesIn(t.dir[d]), p > Base(d),
         NEW d2 \in LiveIn(t), d2 # d,
         NEW name \in ShortNames, \A q \in EntriesIn(t.dir[d2]) : t.dir[d2][q].name # name,
         NEW e, e = [t.dir[d][p] EXCEPT !.name = name, !.long = NoLong],
         NEW A, d2 \in A, IsDir(e) => e.first \notin A,
         \A x \in A \cap (LiveIn(t) \ {Root}) : Parent(t, x) \in A,
         NEW v, NEW at, Roomier(t, v, d2), RunAt(t, v, d2, at, 1)
  PROVE  Kept(t, Set(FixDotDot(Set(v, d2, at, e), e, d2), d, p, Del))
<1>1. PICK x, l, n : x = t.dir[d][p] /\ l = NoLong /\ n = 0
  OBVIOUS
<1>2. x \in EntryType /\ name \in Shorts /\ l \in Longs \cup {NoLong}
  BY <1>1, EntryAt DEF Shorts
<1>3. e = [x EXCEPT !.name = name, !.long = l]
  BY <1>1
<1>4. /\ e \in EntryType /\ e \in SlotType /\ IsEntry(e) /\ IsEntry(x)
      /\ e.name = name /\ e.long = l /\ e.first = x.first
      /\ IsDir(e) <=> IsDir(x)
  <2> HIDE <1>1
  <2> QED BY <1>2, <1>3, EntryChanged
<1>5. RoomFor(t, v, d2, at, n, l, name)
  <2>1. RoomFor(t, v, d2, at, 0, l, name)
    BY SlotRoom
  <2> QED BY <1>1, <2>1
<1>6. RoomFor(t, v, d2, at, n, e.long, e.name) /\ (e.long # NoLong => n = LongSlots[e.long])
  BY <1>1, <1>4, <1>5
<1>7. FreshFor(t.dir[d2], e.name, e.long)
  BY <1>1, <1>2, <1>4, NamesDiffer DEF FreshFor
<1>8. CASE IsDir(e)
  <2>1. e.first \notin A /\ IsDir(t.dir[d][p]) /\ e.first = t.dir[d][p].first
    BY <1>1, <1>4, <1>8
  <2> HIDE <1>1, <1>2, <1>3, <1>5
  <2> QED BY <1>4, <1>6, <1>7, <1>8, <2>1, KidMoved
<1>9. CASE ~IsDir(e)
  <2>1. ~IsDir(t.dir[d][p])
    BY <1>1, <1>4, <1>9
  <2>2. FixDotDot(Set(v, d2, at, e), e, d2) = Set(v, d2, at, e)
    BY <1>9 DEF FixDotDot
  <2>3. Kept(t, Set(Set(v, d2, at, e), d, p, Del))
    BY <1>4, <1>6, <1>7, <1>9, <2>1, FileMoved
  <2> QED BY <2>2, <2>3
<1> QED BY <1>8, <1>9

\* 7156h.
LEMMA Moved71Kept ==
  ASSUME NEW t, TreeOK(t), NEW d \in LiveIn(t), NEW p \in EntriesIn(t.dir[d]), p > Base(d),
         NEW d2 \in LiveIn(t), d2 = d \/ ~IsDir(t.dir[d][p]),
         NEW short, NEW long, FreshFor(t.dir[d2], short, long),
         NEW e, e = [t.dir[d][p] EXCEPT !.name = short, !.long = long],
         NEW v, NEW at, NEW n, RoomFor(t, v, d2, at, n, long, short),
         long # NoLong => n = LongSlots[long]
  PROVE  Kept(t, Set(fat_delete_lfn_slots(Set(v, d2, at, e), d, p), d, p, Del))
<1>1. PICK x : x = t.dir[d][p]
  OBVIOUS
<1>2. x \in EntryType /\ short \in Shorts /\ long \in Longs \cup {NoLong}
  BY <1>1, EntryAt DEF FreshFor
<1>3. e = [x EXCEPT !.name = short, !.long = long]
  BY <1>1
<1>4. /\ e \in EntryType /\ e \in SlotType /\ IsEntry(e) /\ IsEntry(x)
      /\ e.name = short /\ e.long = long /\ e.first = x.first
      /\ IsDir(e) <=> IsDir(x)
  <2>1. PICK f : f = [x EXCEPT !.name = short, !.long = long]
    OBVIOUS
  <2>2. /\ f \in EntryType /\ f \in SlotType /\ IsEntry(f) /\ IsEntry(x)
        /\ f.name = short /\ f.long = long /\ f.first = x.first
        /\ IsDir(f) <=> IsDir(x)
    <3>1. short \in Shorts \cup {Dot, DotDot}
      BY <1>2
    <3>2. f \in EntryType /\ f.name = short /\ f.long = long /\ f.first = x.first /\ f.kind = x.kind
      BY <1>2, <2>1, <3>1 DEF EntryType
    <3>3. f \in SlotType /\ IsEntry(f) /\ IsEntry(x)
      BY <1>2, <3>2 DEF EntryType, SlotType, IsEntry
    <3> QED BY <3>2, <3>3 DEF IsDir
  <2> QED BY <1>3, <2>1, <2>2
<1>5. /\ RoomFor(t, v, d2, at, n, e.long, e.name) /\ (e.long # NoLong => n = LongSlots[e.long])
      /\ FreshFor(t.dir[d2], e.name, e.long)
      /\ e.first = t.dir[d][p].first /\ (IsDir(e) <=> IsDir(t.dir[d][p]))
  BY <1>1, <1>4
<1> HIDE <1>1, <1>2, <1>3
<1>6. CASE d2 # d
  <2>1. ~IsDir(t.dir[d][p]) /\ ~IsDir(e)
    BY <1>5, <1>6
  <2> QED BY <1>4, <1>5, <1>6, <2>1, FileMoved
<1>7. CASE d2 = d
  <2>1. /\ RoomFor(t, v, d, at, n, e.long, e.name)
        /\ FreshFor(t.dir[d], e.name, e.long)
    BY <1>5, <1>7
  <2>2. PICK w : w = Set(v, d, at, e)
    OBVIOUS
  <2>3. /\ EntryIn(t.dir[d], Put(v.dir[d], at, e), Base(d), at, e)
        /\ Written(v, Set(v, d, at, e), d, Put(v.dir[d], at, e))
    BY <1>4, <1>5, <2>1, EntryPut
  <2>4. w \in TreeType /\ w.dir[d] = Put(v.dir[d], at, e)
    BY <2>2, <2>3 DEF Written
  <2>5. p \in EntriesIn(w.dir[d]) /\ d \in {Root} \cup Clusters
    BY <2>3, <2>4, Basics DEF EntryIn
  <2>6. PICK u : /\ Written(w, Set(fat_delete_lfn_slots(w, d, p), d, p, Del), d, u)
                 /\ DroppedIn(w.dir[d], u, p)
    BY <2>4, <2>5, SweepAndDrop
  <2>7. /\ Written(Set(v, d, at, e), Set(fat_delete_lfn_slots(w, d, p), d, p, Del), d, u)
        /\ DroppedIn(Set(v, d, at, e).dir[d], u, p)
    BY <2>2, <2>6
  <2>8. Kept(t, Set(fat_delete_lfn_slots(w, d, p), d, p, Del))
    <3> HIDE <2>2, <2>3, <2>4, <2>5, <2>6
    <3> QED BY <1>4, <1>5, <2>1, <2>7, EntrySwapped
  <2> QED BY <1>7, <2>2, <2>8
<1> QED BY <1>6, <1>7

\* 17h, entry by entry.
Renames(u, k, pattern, newname) ==
  /\ IsEntry(u[k]) /\ ~IsDir(u[k])
  /\ u[k].name \in pattern
  /\ ~Taken(u, newname)

Renaming(s, pattern, newname) ==
  LET after[k \in 0..Len(s)] ==
        IF k = 0 THEN s
        ELSE LET u == after[k - 1]
             IN  IF /\ IsEntry(u[k]) /\ ~IsDir(u[k])
                    /\ u[k].name \in pattern
                    /\ ~Taken(u, newname)
                   THEN [u EXCEPT ![k].name = newname, ![k].long = NoLong]
                   ELSE u
  IN  after

\* The slot k of u, as 17h leaves it.
RenameSlot(u, k, pattern, newname) ==
  IF Renames(u, k, pattern, newname) THEN [u EXCEPT ![k].name = newname, ![k].long = NoLong] ELSE u

\* One entry of 17h.
LEMMA SlotRenamed ==
  ASSUME NEW u \in Seq(SlotType), NEW k \in 1..Len(u), NEW newname \in ShortNames, IsEntry(u[k])
  PROVE  \E e : /\ e = [u[k] EXCEPT !.name = newname, !.long = NoLong]
                /\ PutIn(u, k, e, [u EXCEPT ![k].name = newname, ![k].long = NoLong])
                /\ Len([u EXCEPT ![k].name = newname, ![k].long = NoLong]) = Len(u)
<1>1. PICK n \in Nat : n = Len(u) /\ DOMAIN u = 1..n /\ k \in 1..n
  BY LenProperties
<1>2. PICK x : x = u[k] /\ x \in SlotType
  BY <1>1
<1>3. x \in EntryType
  BY <1>2, SlotKinds
<1>4. PICK l : l = NoLong
  OBVIOUS
<1>5. PICK e : e = [x EXCEPT !.name = newname, !.long = l]
  OBVIOUS
<1>6. e \in SlotType
  <2>1. newname \in Shorts /\ l \in Longs \cup {NoLong}
    BY <1>4 DEF Shorts
  <2> QED BY <1>3, <1>5, <2>1, EntryChanged, ZenonT(60)
<1>7. [u EXCEPT ![k].name = newname, ![k].long = NoLong] = [u EXCEPT ![k] = e]
  <2>1. PICK y, z : y = [u EXCEPT ![k] = [u[k] EXCEPT !.name = newname]] /\ z = [x EXCEPT !.name = newname]
    OBVIOUS
  <2>2. y[k] = z
    BY <1>1, <1>2, <2>1
  <2>3. [y EXCEPT ![k] = [y[k] EXCEPT !.long = NoLong]] = [u EXCEPT ![k] = e]
    <3>1. [z EXCEPT !.long = l] = e
      BY <1>5, <2>1
    <3>2. [y EXCEPT ![k] = e] = [u EXCEPT ![k] = e]
      BY <2>1
    <3> QED BY <1>4, <2>2, <3>1, <3>2
  <2>4. [u EXCEPT ![k].name = newname, ![k].long = NoLong] = [y EXCEPT ![k] = [y[k] EXCEPT !.long = NoLong]]
    BY <2>1
  <2> QED BY <2>3, <2>4
<1>8. PutIn(u, k, e, [u EXCEPT ![k] = e])
  <2>1. Put(u, k, e) = [u EXCEPT ![k] = e]
    BY <1>1 DEF Put
  <2>2. k \in 1..(Len(u) + 1)
    BY <1>1
  <2> QED BY <1>6, <2>1, <2>2, PutSlot
<1>9. Len([u EXCEPT ![k] = e]) = Len(u)
  <2>1. ~(k > Len(u))
    BY <1>1
  <2> QED BY <1>8, <2>1 DEF PutIn
<1> QED BY <1>2, <1>4, <1>5, <1>7, <1>8, <1>9

\* The loop of 17h, one slot after the other.
LEMMA RenamingSteps ==
  ASSUME NEW s \in Seq(SlotType), NEW pattern, NEW newname \in ShortNames
  PROVE  /\ Renaming(s, pattern, newname)[0] = s
         /\ \A k \in 0..Len(s) : /\ Renaming(s, pattern, newname)[k] \in Seq(SlotType)
                                 /\ Len(Renaming(s, pattern, newname)[k]) = Len(s)
         /\ \A k \in 1..Len(s) : Renaming(s, pattern, newname)[k]
                                   = RenameSlot(Renaming(s, pattern, newname)[k - 1], k, pattern, newname)
<1>1. PICK N \in Nat : N = Len(s)
  OBVIOUS
<1>2. PICK S : S = {u \in Seq(SlotType) : Len(u) = N}
  OBVIOUS
<1>3. s \in S
  BY <1>1, <1>2
<1> DEFINE g == [n \in 1..N |-> [u \in S |-> RenameSlot(u, n, pattern, newname)]]
           F == Renaming(s, pattern, newname)
<1>4. g \in [1..N -> [S -> S]]
  <2>1. ASSUME NEW n \in 1..N, NEW u \in S PROVE RenameSlot(u, n, pattern, newname) \in S
    <3>1. u \in Seq(SlotType) /\ Len(u) = N /\ n \in 1..Len(u)
      BY <1>2
    <3>2. CASE Renames(u, n, pattern, newname)
      <4>1. IsEntry(u[n])
        BY <3>2 DEF Renames
      <4>2. PICK w : w = [u EXCEPT ![n].name = newname, ![n].long = NoLong]
        OBVIOUS
      <4>3. \E e : PutIn(u, n, e, w) /\ Len(w) = Len(u)
        BY <3>1, <4>1, <4>2, SlotRenamed
      <4>4. w \in S
        BY <1>2, <3>1, <4>3 DEF PutIn
      <4> QED BY <3>2, <4>2, <4>4 DEF RenameSlot
    <3>3. CASE ~Renames(u, n, pattern, newname)
      BY <3>3 DEF RenameSlot
    <3> QED BY <3>2, <3>3
  <2> QED BY <2>1
<1>5. F = CHOOSE u : u = [k \in 0..N |-> IF k = 0 THEN s ELSE RenameSlot(u[k - 1], k, pattern, newname)]
  BY <1>1 DEF Renaming, RenameSlot, Renames
<1> HIDE DEF g, F
<1>6. PICK f \in [0..N -> S] : Lists(f, s, g, N)
  BY <1>3, <1>4, RepeatedSteps, Zenon
<1>7. f[0] = s /\ \A n \in 1..N : f[n] = RenameSlot(f[n - 1], n, pattern, newname)
  <2>1. ASSUME NEW n \in 1..N PROVE f[n] = RenameSlot(f[n - 1], n, pattern, newname)
    <3>1. n - 1 \in 0..N
      OBVIOUS
    <3>2. f[n - 1] \in S
      BY <1>6, <3>1
    <3>3. f[n] = g[n][f[n - 1]]
      BY <1>6 DEF Lists
    <3> QED BY <3>2, <3>3 DEF g
  <2> QED BY <1>6, <2>1 DEF Lists
<1>8. f = [k \in 0..N |-> IF k = 0 THEN s ELSE RenameSlot(f[k - 1], k, pattern, newname)]
  <2>1. \A n \in 0..N : n = 0 \/ n \in 1..N
    OBVIOUS
  <2> QED BY <1>6, <1>7, <2>1
<1>9. F = [k \in 0..N |-> IF k = 0 THEN s ELSE RenameSlot(F[k - 1], k, pattern, newname)]
  BY <1>5, <1>8
<1>10. F[0] = s /\ \A n \in 1..N : F[n] = RenameSlot(F[n - 1], n, pattern, newname)
  <2>1. 0 \in 0..N /\ \A n \in 1..N : n \in 0..N /\ n # 0
    OBVIOUS
  <2> QED BY <1>9, <2>1
<1> DEFINE Q == {n \in 0..N : F[n] \in S}
<1>11. 0 \in Q
  BY <1>3, <1>10
<1>12. ASSUME NEW n \in 1..N, n - 1 \in Q PROVE n \in Q
  <2>1. F[n - 1] \in S /\ n \in 0..N
    BY <1>12
  <2>2. g[n][F[n - 1]] \in S
    BY <1>4, <2>1
  <2>3. g[n][F[n - 1]] = RenameSlot(F[n - 1], n, pattern, newname)
    BY <2>1 DEF g
  <2> QED BY <1>10, <2>1, <2>2, <2>3
<1>13. \A k \in 0..N : k \in Q
  <2> HIDE DEF Q
  <2> QED BY <1>11, <1>12, Upwards
<1>14. \A k \in 0..N : F[k] \in S
  BY <1>13
<1> QED BY <1>1, <1>2, <1>10, <1>14 DEF F

\* What 17h leaves.
LEMMA RenamesKept ==
  ASSUME NEW t, TreeOK(t), NEW d \in LiveIn(t), NEW pattern, NEW newname \in ShortNames
  PROVE  Kept(t, [t EXCEPT !.dir[d] = Renaming(t.dir[d], pattern, newname)[Len(t.dir[d])]])
<1>1. PICK s, F, N : s = t.dir[d] /\ F = Renaming(t.dir[d], pattern, newname) /\ N = Len(t.dir[d])
  OBVIOUS
<1>2. t \in TreeType /\ d \in {Root} \cup Clusters /\ s \in Seq(SlotType) /\ N \in Nat
  BY <1>1, Basics, FirstSlots DEF TreeOK
<1>3. /\ F[0] = s
      /\ \A k \in 0..N : F[k] \in Seq(SlotType) /\ Len(F[k]) = N
      /\ \A k \in 1..N : F[k] = RenameSlot(F[k - 1], k, pattern, newname)
  <2>1. \A z \in Seq(SlotType) :
          /\ Renaming(z, pattern, newname)[0] = z
          /\ \A k \in 0..Len(z) : /\ Renaming(z, pattern, newname)[k] \in Seq(SlotType)
                                  /\ Len(Renaming(z, pattern, newname)[k]) = Len(z)
          /\ \A k \in 1..Len(z) : Renaming(z, pattern, newname)[k]
                                    = RenameSlot(Renaming(z, pattern, newname)[k - 1], k, pattern, newname)
    <3> TAKE z \in Seq(SlotType)
    <3> QED BY RenamingSteps, ZenonT(60)
  <2>2. /\ Renaming(s, pattern, newname)[0] = s
        /\ \A k \in 0..Len(s) : /\ Renaming(s, pattern, newname)[k] \in Seq(SlotType)
                                /\ Len(Renaming(s, pattern, newname)[k]) = Len(s)
        /\ \A k \in 1..Len(s) : Renaming(s, pattern, newname)[k]
                                  = RenameSlot(Renaming(s, pattern, newname)[k - 1], k, pattern, newname)
    BY <1>2, <2>1
  <2> QED BY <1>1, <2>2
<1> DEFINE W(u) == [t EXCEPT !.dir[d] = u]
<1>4. \A k \in 0..N : Written(t, W(F[k]), d, F[k])
  BY <1>2, <1>3, DirReplaced
<1> HIDE DEF W
<1> DEFINE Q == {k \in 0..N : Kept(t, W(F[k])) /\ LiveIn(W(F[k])) = LiveIn(t)}
<1>5. 0 \in Q
  <2>1. 0 \in 0..N
    BY <1>2
  <2>2. Written(t, W(F[0]), d, t.dir[d])
    BY <1>1, <1>3, <1>4, <2>1
  <2>3. Kept(t, W(F[0])) /\ LiveIn(W(F[0])) = LiveIn(t)
    <3>1. PICK w, u : w = W(F[0]) /\ u = t.dir[d]
      OBVIOUS
    <3>2. Written(t, w, d, u) /\ u \in Seq(SlotType) /\ Len(u) \in Nat
      BY <1>2, <2>2, <3>1, FirstSlots
    <3>3. NamesIn(u) /\ Len(u) <= Capacity(t, d)
      BY <3>1 DEF TreeOK, SlotsOK
    <3>4. \A p \in EntriesIn(u) : p > Base(d) => u[p].name \in Shorts
      BY <3>1, EntryAt
    <3> QED BY <3>1, <3>2, <3>3, <3>4, OneDirKept
  <2> QED BY <2>1, <2>3
<1>6. ASSUME NEW k \in 1..N, k - 1 \in Q PROVE k \in Q
  <2>1. k \in 0..N /\ k - 1 \in 0..N
    BY <1>2
  <2>2. PICK w, u, w2, u2 : w = W(F[k - 1]) /\ u = F[k - 1] /\ w2 = W(F[k]) /\ u2 = F[k]
    OBVIOUS
  <2>3. /\ Kept(t, w) /\ LiveIn(w) = LiveIn(t) /\ Written(t, w, d, u) /\ Written(t, w2, d, u2)
        /\ u \in Seq(SlotType) /\ Len(u) = N /\ u2 = RenameSlot(u, k, pattern, newname)
    BY <1>3, <1>4, <1>6, <2>1, <2>2
  <2>4. Kept(t, w2) /\ LiveIn(w2) = LiveIn(t)
    <3>1. CASE ~Renames(u, k, pattern, newname)
      <4>1. F[k] = F[k - 1]
        BY <2>2, <2>3, <3>1 DEF RenameSlot
      <4> QED BY <2>2, <2>3, <4>1
    <3>2. CASE Renames(u, k, pattern, newname)
      <4>1. TreeOK(w) /\ d \in LiveIn(w) /\ w.dir[d] = u /\ k \in 1..Len(u)
        BY <2>3 DEF Kept, Written
      <4>2. IsEntry(u[k]) /\ ~IsDir(u[k]) /\ fat_dir_search(u, newname) = 0
        BY <3>2 DEF Renames, Taken
      <4>3. k \in EntriesIn(u)
        BY <1>2, <2>3, <4>2 DEF EntriesIn
      <4>4. k > Base(d)
        <5>1. Base(d) \in Nat /\ \A p \in 1..Base(d) : IsDir(w.dir[d][p])
          BY <4>1, FirstSlots
        <5> QED BY <1>2, <4>1, <4>2, <5>1
      <4>5. \A q \in EntriesIn(u) : u[q].name # newname
        BY <2>3, <4>2, SearchIs
      <4>6. PICK e : e = [u[k] EXCEPT !.name = newname, !.long = NoLong] /\ PutIn(u, k, e, u2)
        <5>1. u2 = [u EXCEPT ![k].name = newname, ![k].long = NoLong]
          BY <2>3, <3>2 DEF RenameSlot
        <5>2. u \in Seq(SlotType) /\ k \in 1..Len(u) /\ IsEntry(u[k])
          BY <2>3, <4>1, <4>2
        <5>3. \E e : /\ e = [u[k] EXCEPT !.name = newname, !.long = NoLong]
                     /\ PutIn(u, k, e, [u EXCEPT ![k].name = newname, ![k].long = NoLong])
                     /\ Len([u EXCEPT ![k].name = newname, ![k].long = NoLong]) = Len(u)
          BY <5>2, SlotRenamed
        <5> QED BY <5>1, <5>3
      <4>7. Written(w, w2, d, u2)
        BY <2>3 DEF Written
      <4>8. Kept(w, w2) /\ LiveIn(w2) = LiveIn(w)
        <5>1. k \in EntriesIn(w.dir[d]) /\ \A q \in EntriesIn(w.dir[d]) : w.dir[d][q].name # newname
          BY <4>1, <4>3, <4>5
        <5>2. e = [w.dir[d][k] EXCEPT !.name = newname, !.long = NoLong] /\ PutIn(w.dir[d], k, e, u2)
          BY <4>1, <4>6
        <5> HIDE <4>6, <2>2, <2>3
        <5> QED BY <4>1, <4>4, <4>7, <5>1, <5>2, RenamedKept
      <4> QED BY <2>3, <4>8, KeptTwice
    <3> QED BY <3>1, <3>2
  <2> QED BY <2>1, <2>2, <2>4
<1>7. \A k \in 0..N : k \in Q
  <2> HIDE DEF Q
  <2> QED BY <1>2, <1>5, <1>6, Upwards
<1>8. Kept(t, W(F[N]))
  BY <1>2, <1>7
<1> QED BY <1>1, <1>8 DEF W

\* What 43h leaves.
LEMMA AttribKept ==
  ASSUME NEW t, TreeOK(t), NEW d \in LiveIn(t), NEW p \in EntriesIn(t.dir[d]), p > Base(d),
         NEW ro \in BOOLEAN
  PROVE  Kept(t, [t EXCEPT !.dir[d][p].ro = ro])
<1>1. PICK s, x, n : s = t.dir[d] /\ x = s[p] /\ n = Len(s)
  OBVIOUS
<1>2. /\ t \in TreeType /\ d \in {Root} \cup Clusters /\ s \in Seq(SlotType) /\ NamesIn(s)
      /\ n \in Nat /\ DOMAIN s = 1..n /\ p \in 1..n /\ x \in EntryType /\ x.name \in Shorts
      /\ p \in EntriesIn(s) /\ x \in SlotType
  BY <1>1, Basics, FirstSlots, EntryAt DEF TreeOK, SlotsOK, SlotType
<1>3. PICK e : e = [x EXCEPT !.ro = ro]
  OBVIOUS
<1>4. /\ e \in EntryType /\ e.name = x.name /\ e.long = x.long /\ e.first = x.first /\ e.kind = x.kind
      /\ e.tag = x.tag
  BY <1>2, <1>3 DEF EntryType
<1>5. e \in SlotType /\ IsEntry(e) /\ IsEntry(x) /\ (IsDir(e) <=> IsDir(x))
  BY <1>2, <1>4 DEF EntryType, SlotType, IsEntry, IsDir
<1>6. PICK u : u = [s EXCEPT ![p] = e]
  OBVIOUS
<1>7. PutIn(s, p, e, u)
  <2>1. Put(s, p, e) = u
    BY <1>1, <1>2, <1>6 DEF Put
  <2>2. p \in 1..(Len(s) + 1)
    BY <1>1, <1>2
  <2> QED BY <1>2, <1>5, <2>1, <2>2, PutSlot
<1>8. DOMAIN u = DOMAIN s /\ u[p] = e /\ \A q \in DOMAIN s : q # p => u[q] = s[q]
  BY <1>2, <1>7 DEF PutIn
<1>9. NamesIn(u)
  <2>1. \A q \in DOMAIN s : s[q].tag = "lfn" => u[q] = s[q]
    BY <1>1, <1>5, <1>8 DEF IsEntry
  <2>2. \A q \in EntriesIn(u) : q \in EntriesIn(s) /\ u[q].name = s[q].name /\ u[q].long = s[q].long
    BY <1>1, <1>2, <1>4, <1>8 DEF EntriesIn
  <2> QED BY <1>2, <1>8, <2>1, <2>2, NamesKept
<1>10. PICK t2 : t2 = [t EXCEPT !.dir[d] = u]
  OBVIOUS
<1>11. Written(t, t2, d, u)
  <2>1. u \in Seq(SlotType)
    BY <1>7 DEF PutIn
  <2> QED BY <1>2, <1>10, <2>1, DirReplaced
<1>12. Kept(t, t2)
  <2>1. p \in EntriesIn(t.dir[d]) /\ PutIn(t.dir[d], p, e, u)
    BY <1>1, <1>7
  <2>2. e.first = t.dir[d][p].first /\ (IsDir(e) <=> IsDir(t.dir[d][p])) /\ e.name \in Shorts
    BY <1>1, <1>2, <1>4, <1>5
  <2> HIDE <1>1, <1>3, <1>6, <1>10
  <2> QED BY <1>4, <1>9, <1>11, <2>1, <2>2, EntryRewritten
<1>13. [t EXCEPT !.dir[d][p].ro = ro] = [t EXCEPT !.dir[d] = [t.dir[d] EXCEPT ![p] = [t.dir[d][p] EXCEPT !.ro = ro]]]
  OBVIOUS
<1>14. [t EXCEPT !.dir[d][p].ro = ro] = t2
  BY <1>1, <1>3, <1>6, <1>10, <1>13
<1> QED BY <1>12, <1>14

----------------------------------------------------------------------------
(* The calls.                                                              *)

\* A tree that the calls may leave: directories other than those removed only grow.
Goes(t2) ==
  /\ TreeOK(t2) /\ cwd \in LiveIn(t2)
  /\ \A d \in LiveIn(Tree) : d \in LiveIn(t2) => Len(dir[d]) <= Len(t2.dir[d])

Changed == \E t2 : Goes(t2) /\ Becomes(t2) /\ UNCHANGED cwd

\* What is known when a call begins.
Ready == Plain /\ EnoughAliases /\ TreeOK(Tree) /\ cwd \in LiveIn(Tree)

\* What only adds and rewrites is such a tree.
LEMMA KeptGoes ==
  ASSUME Ready, NEW t2, Kept(Tree, t2)
  PROVE  Goes(t2)
<1>1. Tree.dir = dir
  BY DEF Tree
<1> QED BY <1>1 DEF Ready, Kept, Goes

\* 3Ch, 5Bh, 716Ch.
LEMMA CreateChanges ==
  ASSUME Ready, NEW d \in LiveIn(Tree), NEW name \in NewNames,
         f3c_create(d, name) \/ f71_open(d, name)
  PROVE  Changed
<1>1. dir = Tree.dir /\ name \in ShortNames \cup Longs
  BY NamesGiven DEF Tree, Ready
<1>2. Create(d, name)
  BY DEF f3c_create, f71_open
<1>3. \A p \in EntriesIn(Tree.dir[d]) : Tree.dir[d][p].name # name /\ Tree.dir[d][p].long # name
  <2>1. \/ lfn_lookup(Tree.dir[d], name) = 0
        \/ name \in ShortNames /\ fat_dir_search(Tree.dir[d], name) = 0
    BY <1>1, NamesDiffer DEF f3c_create, f71_open
  <2> QED BY <1>1, <2>1, NewName DEF Ready
<1>4. PICK r, x : /\ r = Room(Tree, d, name)
                  /\ x = IF r.at = 0 THEN r.t ELSE Set(r.t, d, r.at, Entry(r.short, "file", 0, r.long))
  OBVIOUS
<1>5. Kept(Tree, x)
  BY <1>1, <1>3, <1>4, CreateKept DEF Ready
<1>6. Becomes(x) /\ UNCHANGED cwd
  BY <1>2, <1>4 DEF Create
<1> QED BY <1>5, <1>6, KeptGoes DEF Changed

\* 39h, 7139h.
LEMMA MakeDirChanges ==
  ASSUME Ready, NEW d \in LiveIn(Tree), NEW name \in NewNames,
         f39_mkdir(d, name) \/ f71_mkdir(d, name)
  PROVE  Changed
<1>1. dir = Tree.dir /\ name \in ShortNames \cup Longs
  BY NamesGiven DEF Tree, Ready
<1>2. MakeDir(d, name)
  BY DEF f39_mkdir, f71_mkdir
<1>3. \A p \in EntriesIn(Tree.dir[d]) : Tree.dir[d][p].name # name /\ Tree.dir[d][p].long # name
  <2>1. \/ lfn_lookup(Tree.dir[d], name) = 0
        \/ name \in ShortNames /\ fat_dir_search(Tree.dir[d], name) = 0
    BY <1>1, NamesDiffer DEF f39_mkdir, f71_mkdir
  <2> QED BY <1>1, <2>1, NewName DEF Ready
<1>4. PICK r, c, x : /\ r = Room(Tree, d, name) /\ c = Min(FreeClusters(r.t))
                     /\ x = IF r.at = 0 \/ FreeClusters(r.t) = {} THEN r.t
                            ELSE Set(NewDir(r.t, c, d), d, r.at, Entry(r.short, "dir", c, r.long))
  OBVIOUS
<1>5. Kept(Tree, x)
  BY <1>1, <1>3, <1>4, MakeDirKept DEF Ready
<1>6. Becomes(x) /\ UNCHANGED cwd
  BY <1>2, <1>4 DEF MakeDir
<1> QED BY <1>5, <1>6, KeptGoes DEF Changed

\* 41h, 7141h.
LEMMA UnlinkChanges ==
  ASSUME Ready, NEW d \in LiveIn(Tree), NEW name \in Names,
         file_unlink_path(d, name) \/ f71_delete(d, name)
  PROVE  Changed
<1>1. dir = Tree.dir /\ name \in Shorts \cup Longs /\ TreeOK(Tree)
  BY NamesGiven DEF Tree, Ready
<1>2. CASE file_unlink_path(d, name)
  <2>1. PICK p : p = fat_dir_search(Tree.dir[d], name)
    OBVIOUS
  <2>2. CanUnlink(Tree.dir[d], p) /\ Becomes(Set(Tree, d, p, Del)) /\ UNCHANGED cwd
    BY <1>1, <1>2, <2>1 DEF file_unlink_path, Unlinked
  <2>3. p \in EntriesIn(Tree.dir[d]) /\ ~IsDir(Tree.dir[d][p])
    BY <1>1, <2>1, <2>2, Searched DEF CanUnlink
  <2> QED BY <1>1, <2>2, <2>3, UnlinkKept, KeptGoes DEF Changed
<1>3. CASE f71_delete(d, name)
  <2>1. PICK p : p = lfn_lookup(Tree.dir[d], name)
    OBVIOUS
  <2>2. CanUnlink(Tree.dir[d], p) /\ Becomes(fat_delete_lfn_slots(Set(Tree, d, p, Del), d, p)) /\ UNCHANGED cwd
    BY <1>1, <1>3, <2>1 DEF f71_delete, Unlinked
  <2>3. p \in EntriesIn(Tree.dir[d]) /\ ~IsDir(Tree.dir[d][p])
    BY <1>1, <2>1, <2>2, LookedUp DEF CanUnlink
  <2> QED BY <1>1, <2>2, <2>3, UnlinkKept, KeptGoes DEF Changed
<1> QED BY <1>2, <1>3

\* 13h.
LEMMA DeletesChange ==
  ASSUME Ready, NEW pattern, f13_fcb_delete(pattern)
  PROVE  Changed
<1>1. PICK x : x = [Tree EXCEPT !.dir[cwd] =
                      [p \in DOMAIN @ |-> IF /\ IsEntry(@[p]) /\ ~IsDir(@[p]) /\ ~@[p].ro
                                             /\ @[p].name \in pattern
                                            THEN Del ELSE @[p]]]
  OBVIOUS
<1>2. Becomes(x) /\ UNCHANGED cwd
  BY <1>1 DEF f13_fcb_delete
<1>3. Kept(Tree, x)
  BY <1>1, DeletesKept DEF Ready
<1> QED BY <1>2, <1>3, KeptGoes DEF Changed

\* 3Ah, 713Ah.
LEMMA RemoveChanges ==
  ASSUME Ready, NEW d \in LiveIn(Tree), NEW name \in Names,
         f3a_rmdir(d, name) \/ f71_rmdir(d, name)
  PROVE  Changed
<1>1. dir = Tree.dir /\ name \in Shorts \cup Longs /\ TreeOK(Tree) /\ cwd \in LiveIn(Tree)
  BY NamesGiven DEF Tree, Ready
<1>2. \E p : /\ p = fat_dir_search(Tree.dir[d], name) \/ p = lfn_lookup(Tree.dir[d], name)
             /\ CanRemove(dir[d], p)
             /\ Becomes(Removed(d, p)) \/ Becomes(fat_delete_lfn_slots(Removed(d, p), d, p))
             /\ UNCHANGED cwd
  BY <1>1 DEF f3a_rmdir, f71_rmdir
<1>3. PICK p : /\ p = fat_dir_search(Tree.dir[d], name) \/ p = lfn_lookup(Tree.dir[d], name)
               /\ CanRemove(dir[d], p)
               /\ Becomes(Removed(d, p)) \/ Becomes(fat_delete_lfn_slots(Removed(d, p), d, p))
               /\ UNCHANGED cwd
  BY <1>2
<1>4. p # 0 /\ IsDir(Tree.dir[d][p]) /\ Tree.dir[d][p].first # cwd
      /\ \A q \in 3..Len(Tree.dir[Tree.dir[d][p].first]) : Tree.dir[Tree.dir[d][p].first][q] = Del
  BY <1>1, <1>3 DEF CanRemove
<1>5. p \in EntriesIn(Tree.dir[d]) /\ p > Base(d)
  BY <1>1, <1>3, <1>4, Searched, LookedUp
<1>6. PICK c, x : /\ c = Tree.dir[d][p].first /\ Becomes(x)
                  /\ \/ x = Set(Freed(Tree, c), d, p, Del)
                     \/ x = fat_delete_lfn_slots(Set(Freed(Tree, c), d, p, Del), d, p)
  BY <1>1, <1>3 DEF Removed
<1>7. \A y \in {x} : /\ TreeOK(y) /\ LiveIn(y) = LiveIn(Tree) \ {c}
                     /\ \A z \in LiveIn(y) : Len(Tree.dir[z]) <= Len(y.dir[z])
  <2> TAKE y \in {x}
  <2>1. \/ y = Set(Freed(Tree, Tree.dir[d][p].first), d, p, Del)
        \/ y = fat_delete_lfn_slots(Set(Freed(Tree, Tree.dir[d][p].first), d, p, Del), d, p)
    BY <1>6
  <2>2. /\ TreeOK(y) /\ LiveIn(y) = LiveIn(Tree) \ {Tree.dir[d][p].first}
        /\ \A z \in LiveIn(y) : Len(Tree.dir[z]) <= Len(y.dir[z])
    BY <1>1, <1>4, <1>5, <2>1, RemovedIs
  <2> QED BY <1>6, <2>2
<1>8. Goes(x)
  BY <1>1, <1>4, <1>6, <1>7 DEF Goes
<1> QED BY <1>3, <1>6, <1>8 DEF Changed

\* 17h.
LEMMA RenamesChange ==
  ASSUME Ready, NEW pattern, NEW newname \in ShortNames, f17_fcb_rename(pattern, newname)
  PROVE  Changed
<1>1. dir = Tree.dir
  BY DEF Tree
<1>2. PICK x : x = [Tree EXCEPT !.dir[cwd] = Renaming(Tree.dir[cwd], pattern, newname)[Len(Tree.dir[cwd])]]
  OBVIOUS
<1>3. Becomes([Tree EXCEPT !.dir[cwd] = Renaming(dir[cwd], pattern, newname)[Len(dir[cwd])]]) /\ UNCHANGED cwd
  BY DEF f17_fcb_rename, Renaming
<1>4. Kept(Tree, x)
  BY <1>2, RenamesKept DEF Ready
<1> QED BY <1>1, <1>2, <1>3, <1>4, KeptGoes DEF Changed

\* 43h, 7143h.
LEMMA AttribChanges ==
  ASSUME Ready, NEW d \in LiveIn(Tree), NEW name \in Names, NEW ro \in BOOLEAN, f43_attrib(d, name, ro)
  PROVE  Changed
<1>1. dir = Tree.dir /\ name \in Shorts \cup Longs /\ TreeOK(Tree)
  BY NamesGiven DEF Tree, Ready
<1>2. PICK p, x : p = lfn_lookup(Tree.dir[d], name) /\ x = [Tree EXCEPT !.dir[d][p].ro = ro]
  OBVIOUS
<1>3. p # 0 /\ Becomes(x) /\ UNCHANGED cwd
  BY <1>1, <1>2 DEF f43_attrib
<1>4. p \in EntriesIn(Tree.dir[d]) /\ p > Base(d)
  BY <1>1, <1>2, <1>3, LookedUp
<1>5. Kept(Tree, x)
  BY <1>1, <1>2, <1>4, AttribKept
<1> QED BY <1>3, <1>5, KeptGoes DEF Changed

\* 56h.
LEMMA RenameChanges ==
  ASSUME Ready, NEW d \in LiveIn(Tree), NEW name \in Names, file_rename_path(d, name)
  PROVE  Changed
<1>1. dir = Tree.dir /\ name \in Shorts \cup Longs /\ TreeOK(Tree) /\ cwd \in LiveIn(Tree)
  BY NamesGiven DEF Tree, Ready
<1>2. PICK p : p = fat_dir_search(Tree.dir[d], name)
  OBVIOUS
<1>3. PICK name2 \in NewNames, d2 \in fat_resolve_dir :
        LET e == [Tree.dir[d][p] EXCEPT !.name = name2, !.long = NoLong]
            room == fat_dir_alloc_slot(Tree, d2)
        IN  /\ fat_is_short_name(name2)
            /\ fat_dir_search(Tree.dir[d2], name2) = 0
            /\ MovesAnywhere \/ d = d2 \/ ~IsDir(e) \/ e.first \notin Above(d2)
            /\ IF d = d2 THEN Becomes(Set(Tree, d, p, e))
               ELSE IF room.at = 0 THEN Becomes(room.t)
               ELSE Becomes(Set(FixDotDot(Set(room.t, d2, room.at, e), e, d2), d, p, Del))
  BY <1>1, <1>2 DEF file_rename_path
<1>4. p # 0 /\ UNCHANGED cwd
  BY <1>1, <1>2 DEF file_rename_path
<1>5. p \in EntriesIn(Tree.dir[d]) /\ p > Base(d)
  BY <1>1, <1>2, <1>4, Searched
<1>6. name2 \in ShortNames /\ d2 \in LiveIn(Tree) /\ ~MovesAnywhere
  <2>1. fat_is_short_name(name2) /\ name2 \in ShortNames \cup Longs
    BY <1>3, NamesGiven DEF Ready
  <2> QED BY <1>1, <2>1, NamesDiffer, ResolvedLive DEF Ready, Plain
<1>7. \A q \in EntriesIn(Tree.dir[d2]) : Tree.dir[d2][q].name # name2
  BY <1>1, <1>3, <1>6, Searched DEF Shorts
<1>8. PICK e : e = [Tree.dir[d][p] EXCEPT !.name = name2, !.long = NoLong]
  OBVIOUS
<1>9. \E x : Kept(Tree, x) /\ Becomes(x)
  <2>1. CASE d = d2
    <3>1. Becomes(Set(Tree, d, p, e))
      BY <1>3, <1>8, <2>1
    <3>2. Kept(Tree, Set(Tree, d, p, e))
      <4>1. p \in 1..Len(Tree.dir[d]) /\ p \in Nat \ {0} /\ Tree.dir[d] \in Seq(SlotType)
            /\ Len(Tree.dir[d]) \in Nat /\ Tree.dir[d][p] \in EntryType /\ Tree \in TreeType
            /\ d \in {Root} \cup Clusters
        BY <1>1, <1>5, EntryAt, FirstSlots DEF TreeOK
      <4>2. e \in SlotType
        <5>1. PICK x, l : x = Tree.dir[d][p] /\ l = NoLong
          OBVIOUS
        <5>2. PICK f : f = [x EXCEPT !.name = name2, !.long = l]
          OBVIOUS
        <5>3. x \in EntryType /\ name2 \in Shorts /\ l \in Longs \cup {NoLong}
          BY <1>6, <4>1, <5>1 DEF Shorts
        <5>4. f \in SlotType
          BY <5>2, <5>3, EntryChanged
        <5> QED BY <1>8, <5>1, <5>2, <5>4
      <4>3. Written(Tree, Set(Tree, d, p, e), d, Put(Tree.dir[d], p, e))
        BY <4>1, <4>2, SetType
      <4>4. PutIn(Tree.dir[d], p, e, Put(Tree.dir[d], p, e))
        <5>1. p \in 1..(Len(Tree.dir[d]) + 1)
          BY <4>1
        <5> QED BY <4>1, <4>2, <5>1, PutSlot
      <4>5. \A q \in EntriesIn(Tree.dir[d]) : Tree.dir[d][q].name # name2
        BY <1>7, <2>1
      <4>6. PICK t2, u : t2 = Set(Tree, d, p, e) /\ u = Put(Tree.dir[d], p, e)
        OBVIOUS
      <4>7. Written(Tree, t2, d, u) /\ PutIn(Tree.dir[d], p, e, u)
        BY <4>3, <4>4, <4>6
      <4>8. Kept(Tree, t2)
        BY <1>1, <1>5, <1>6, <1>8, <4>5, <4>7, RenamedKept
      <4> QED BY <4>6, <4>8
    <3> QED BY <3>1, <3>2
  <2>2. CASE d # d2
    <3>1. PICK r : r = fat_dir_alloc_slot(Tree, d2)
      OBVIOUS
    <3>2. Roomier(Tree, r.t, d2) /\ (r.at = 0 \/ RunAt(Tree, r.t, d2, r.at, 1))
      BY <1>1, <1>6, <3>1, SlotFound
    <3>3. CASE r.at = 0
      <4>1. Becomes(r.t)
        BY <1>3, <2>2, <3>1, <3>3
      <4> QED BY <1>1, <3>2, <4>1, NoRoomKept
    <3>4. CASE r.at # 0
      <4>1. Becomes(Set(FixDotDot(Set(r.t, d2, r.at, e), e, d2), d, p, Del))
        BY <1>3, <1>8, <2>2, <3>1, <3>4
      <4>2. IsDir(e) => e.first \notin Above(d2)
        BY <1>3, <1>6, <1>8, <2>2
      <4>3. PICK A, v, at : A = Above(d2) /\ v = r.t /\ at = r.at
        OBVIOUS
      <4>4. d2 \in A /\ (IsDir(e) => e.first \notin A) /\ \A x \in A \cap (LiveIn(Tree) \ {Root}) : Parent(Tree, x) \in A
        BY <1>1, <1>6, <4>2, <4>3, AboveIs
      <4>5. Roomier(Tree, v, d2) /\ RunAt(Tree, v, d2, at, 1)
        BY <3>2, <3>4, <4>3
      <4>6. Kept(Tree, Set(FixDotDot(Set(v, d2, at, e), e, d2), d, p, Del))
        <5> HIDE <4>3
        <5> QED BY <1>1, <1>5, <1>6, <1>7, <1>8, <2>2, <4>4, <4>5, MovedKept
      <4> QED BY <4>1, <4>3, <4>6
    <3> QED BY <3>3, <3>4
  <2> QED BY <2>1, <2>2
<1> QED BY <1>4, <1>9, KeptGoes DEF Changed

\* 7156h.
LEMMA Rename71Changes ==
  ASSUME Ready, NEW d \in LiveIn(Tree), NEW name \in Names, f71_rename(d, name)
  PROVE  Changed
<1>1. dir = Tree.dir /\ name \in Shorts \cup Longs /\ TreeOK(Tree) /\ cwd \in LiveIn(Tree)
  BY NamesGiven DEF Tree, Ready
<1>2. PICK p : p = lfn_lookup(Tree.dir[d], name)
  OBVIOUS
<1>3. PICK name2 \in NewNames, d2 \in fat_resolve_dir :
        LET room == Room(Tree, d2, name2)
            e == [Tree.dir[d][p] EXCEPT !.name = room.short, !.long = room.long]
        IN  /\ lfn_lookup(Tree.dir[d2], name2) = 0
            /\ MovesAnywhere \/ d = d2 \/ ~IsDir(Tree.dir[d][p])
            /\ IF room.at = 0 THEN Becomes(room.t)
               ELSE Becomes(Set(fat_delete_lfn_slots(Set(room.t, d2, room.at, e), d, p), d, p, Del))
  BY <1>1, <1>2 DEF f71_rename
<1>4. p # 0 /\ UNCHANGED cwd
  BY <1>1, <1>2 DEF f71_rename
<1>5. p \in EntriesIn(Tree.dir[d]) /\ p > Base(d)
  BY <1>1, <1>2, <1>4, LookedUp
<1>6. name2 \in ShortNames \cup Longs /\ d2 \in LiveIn(Tree) /\ (d2 = d \/ ~IsDir(Tree.dir[d][p]))
  BY <1>1, <1>3, NamesGiven, ResolvedLive DEF Ready, Plain
<1>7. \A q \in EntriesIn(Tree.dir[d2]) : Tree.dir[d2][q].name # name2 /\ Tree.dir[d2][q].long # name2
  BY <1>1, <1>3, <1>6, NewName
<1>8. PICK r : r = Room(Tree, d2, name2)
  OBVIOUS
<1>9. /\ FreshFor(Tree.dir[d2], r.short, r.long)
      /\ IF r.at = 0 THEN NoRoom(Tree, r.t, d2)
         ELSE \E n : /\ RoomFor(Tree, r.t, d2, r.at, n, r.long, r.short)
                     /\ r.long # NoLong => n = LongSlots[r.long]
  BY <1>1, <1>6, <1>7, <1>8, RoomIs DEF Ready
<1>10. \E x : Kept(Tree, x) /\ Becomes(x)
  <2>1. CASE r.at = 0
    <3>1. Becomes(r.t)
      BY <1>3, <1>8, <2>1
    <3> QED BY <1>1, <1>9, <2>1, <3>1, NoRoomKept DEF NoRoom
  <2>2. CASE r.at # 0
    <3>1. PICK v, at, short, long, e : /\ v = r.t /\ at = r.at /\ short = r.short /\ long = r.long
                                       /\ e = [Tree.dir[d][p] EXCEPT !.name = r.short, !.long = r.long]
      OBVIOUS
    <3>2. Becomes(Set(fat_delete_lfn_slots(Set(v, d2, at, e), d, p), d, p, Del))
      BY <1>3, <1>8, <2>2, <3>1
    <3>3. PICK n : RoomFor(Tree, v, d2, at, n, long, short) /\ (long # NoLong => n = LongSlots[long])
      BY <1>9, <2>2, <3>1
    <3>4. FreshFor(Tree.dir[d2], short, long) /\ e = [Tree.dir[d][p] EXCEPT !.name = short, !.long = long]
      BY <1>9, <3>1
    <3>5. Kept(Tree, Set(fat_delete_lfn_slots(Set(v, d2, at, e), d, p), d, p, Del))
      <4> HIDE <3>1
      <4> QED BY <1>1, <1>5, <1>6, <3>3, <3>4, Moved71Kept
    <3> QED BY <3>2, <3>5
  <2> QED BY <2>1, <2>2
<1> QED BY <1>4, <1>10, KeptGoes DEF Changed

----------------------------------------------------------------------------
(* Searches.                                                               *)

\* A search under way.
ActiveType ==
  [on : {TRUE}, dir : {Root} \cup Clusters, at : Nat \ {0}, pattern : Patterns, dirs : Masks,
   todo : SUBSET Nat, lost : BOOLEAN, during : Nat]

\* What it still has to return is there, ahead of it, and matches.
AheadOf(h, q, s) ==
  \A p \in q.todo : p \in DOMAIN s /\ p >= q.at /\ Matches(h, q, s, p)

SearchOK(t, h, q) ==
  \/ q = Idle
  \/ /\ q \in ActiveType
     /\ q.lost => q.todo = {}
     /\ ~q.lost => q.dir \in LiveIn(t) /\ AheadOf(h, q, t.dir[q.dir])

\* A search is idle or under way.
LEMMA OnOrIdle ==
  /\ ~Idle.on
  /\ \A q \in ActiveType : q.on
BY DEF Idle, ActiveType

\* What a search looks for does not depend on its history.
LEMMA MatchesSame ==
  ASSUME NEW h, NEW s, NEW p, NEW q, NEW r, r.at = q.at, r.dirs = q.dirs, r.pattern = q.pattern
  PROVE  Matches(h, r, s, p) <=> Matches(h, q, s, p)
BY DEF Matches, KnownAs

\* Nor on how far it is, while the entry is ahead.
LEMMA MatchesOn ==
  ASSUME NEW h, NEW s \in Seq(SlotType), NEW p \in DOMAIN s, NEW q, NEW r,
         r.dirs = q.dirs, r.pattern = q.pattern,
         q.at \in Nat, r.at \in Nat, q.at <= Boundary(s, p) + 1, r.at <= Boundary(s, p) + 1
  PROVE  Matches(h, r, s, p) <=> Matches(h, q, s, p)
<1>1. PICK i \in Nat, j \in Nat : i = q.at /\ j = r.at
  OBVIOUS
<1>2. p \in Nat \ {0}
  OBVIOUS
<1>3. i <= Boundary(s, p) + 1 /\ j <= Boundary(s, p) + 1
  BY <1>1
<1>4. LongName(s, i, p) = LongName(s, j, p)
  BY <1>2, <1>3, ReadFromAnywhere
<1>5. KnownAs(h, s, q.at, p) = KnownAs(h, s, r.at, p)
  BY <1>1, <1>4 DEF KnownAs
<1> QED BY <1>5 DEF Matches

\* The history of a search when the tree changes.
LEMMA WatchedOK ==
  ASSUME Ready, NEW t, Goes(t), NEW h, NEW q, SearchOK(Tree, h, q)
  PROVE  SearchOK(t, h, Watched(h, q, t))
<1>1. CASE q = Idle
  <2>1. Watched(h, q, t) = Idle
    BY <1>1, OnOrIdle DEF Watched
  <2> QED BY <2>1 DEF SearchOK
<1>2. CASE q # Idle
  <2>1. /\ q \in ActiveType /\ q.on /\ (q.lost => q.todo = {})
        /\ ~q.lost => q.dir \in LiveIn(Tree) /\ AheadOf(h, q, Tree.dir[q.dir])
    BY <1>2, OnOrIdle DEF SearchOK
  <2>2. CASE q.dir \in Clusters /\ t.dir[q.dir] = <<>>
    <3>1. PICK w : w = [q EXCEPT !.lost = TRUE, !.todo = {}]
      OBVIOUS
    <3>2. Watched(h, q, t) = w
      BY <2>1, <2>2, <3>1 DEF Watched
    <3>3. w \in ActiveType /\ w.lost /\ w.todo = {}
      BY <2>1, <3>1 DEF ActiveType
    <3> QED BY <3>2, <3>3 DEF SearchOK
  <2>3. CASE ~(q.dir \in Clusters /\ t.dir[q.dir] = <<>>)
    <3>1. PICK T : T = {p \in q.todo : Matches(h, q, t.dir[q.dir], p)}
      OBVIOUS
    <3>2. PICK w : w = [q EXCEPT !.todo = T, !.during = @ + 1]
      OBVIOUS
    <3>3. Watched(h, q, t) = w
      BY <2>1, <2>3, <3>1, <3>2 DEF Watched
    <3>4. T \in SUBSET Nat /\ T \subseteq q.todo
      BY <2>1, <3>1 DEF ActiveType
    <3>5. /\ w \in ActiveType /\ w.lost = q.lost /\ w.todo = T /\ w.dir = q.dir /\ w.at = q.at
          /\ w.dirs = q.dirs /\ w.pattern = q.pattern
      <4>1. PICK y \in Nat : y = q.during + 1
        BY <2>1 DEF ActiveType
      <4>2. w = [q EXCEPT !.todo = T, !.during = y]
        BY <3>2, <4>1
      <4> QED BY <2>1, <3>4, <4>2 DEF ActiveType
    <3>6. w.lost => w.todo = {}
      BY <2>1, <3>4, <3>5
    <3>7. ASSUME ~w.lost PROVE w.dir \in LiveIn(t) /\ AheadOf(h, w, t.dir[w.dir])
      <4>1. q.dir \in LiveIn(Tree) /\ AheadOf(h, q, Tree.dir[q.dir])
        BY <2>1, <3>5, <3>7
      <4>2. q.dir \in LiveIn(t)
        <5>1. TreeOK(t) /\ Root \in LiveIn(t) /\ q.dir \in {Root} \cup Clusters
          BY <2>1, Basics DEF Goes, ActiveType
        <5>2. q.dir \in Clusters /\ q.dir \notin LiveIn(t) => t.dir[q.dir] = <<>>
          BY <5>1 DEF TreeOK
        <5> QED BY <2>3, <5>1, <5>2
      <4>3. Len(dir[q.dir]) <= Len(t.dir[q.dir]) /\ Tree.dir = dir
        BY <4>1, <4>2 DEF Goes, Tree
      <4>4. /\ DOMAIN Tree.dir[q.dir] = 1..Len(Tree.dir[q.dir]) /\ Len(Tree.dir[q.dir]) \in Nat
            /\ DOMAIN t.dir[q.dir] = 1..Len(t.dir[q.dir]) /\ Len(t.dir[q.dir]) \in Nat
        BY <4>1, <4>2, FirstSlots DEF Goes, Ready
      <4>5. ASSUME NEW p \in T
            PROVE  p \in DOMAIN t.dir[q.dir] /\ p >= w.at /\ Matches(h, w, t.dir[q.dir], p)
        <5>1. p \in DOMAIN Tree.dir[q.dir] /\ p >= q.at
          BY <3>4, <4>1, <4>5 DEF AheadOf
        <5>2. p \in DOMAIN t.dir[q.dir]
          BY <4>3, <4>4, <5>1
        <5>3. Matches(h, q, t.dir[q.dir], p)
          BY <3>1, <4>5
        <5> QED BY <3>5, <5>1, <5>2, <5>3, MatchesSame
      <4> QED BY <3>5, <4>2, <4>5 DEF AheadOf
    <3> QED BY <3>3, <3>5, <3>6, <3>7 DEF SearchOK
  <2> QED BY <2>2, <2>3
<1> QED BY <1>1, <1>2

\* A search goes on.
LEMMA ContinueOK ==
  ASSUME NEW t, TreeOK(t), NEW h, NEW q \in ActiveType, SearchOK(t, h, q), ~q.lost
  PROVE  SearchOK(t, h, find_continue(h, q, t.dir[q.dir]).q)
<1>1. PICK s : s = t.dir[q.dir]
  OBVIOUS
<1>2. q # Idle
  BY OnOrIdle
<1>3. q.dir \in LiveIn(t) /\ AheadOf(h, q, s) /\ q.at \in Nat \ {0} /\ q.todo \in SUBSET Nat
  BY <1>1, <1>2 DEF SearchOK, ActiveType
<1>4. s \in Seq(SlotType) /\ Len(s) \in Nat /\ DOMAIN s = 1..Len(s)
  BY <1>1, <1>3, FirstSlots
<1>5. PICK hits : hits = {p \in DOMAIN s : p >= q.at /\ Matches(h, q, s, p)}
  OBVIOUS
<1>6. q.todo \subseteq hits
  BY <1>3, <1>5 DEF AheadOf
<1>7. CASE hits = {}
  <2>1. PICK w : w = [q EXCEPT !.at = Len(s) + 1]
    OBVIOUS
  <2>2. find_continue(h, q, s).q = w
    BY <1>5, <1>7, <2>1 DEF find_continue
  <2>3. Len(s) + 1 \in Nat \ {0}
    BY <1>4
  <2>4. w \in ActiveType /\ w.lost = q.lost /\ w.todo = q.todo /\ w.dir = q.dir
    BY <2>1, <2>3 DEF ActiveType
  <2>5. w.todo = {}
    BY <1>6, <1>7, <2>4
  <2> QED BY <1>1, <1>3, <2>2, <2>4, <2>5 DEF SearchOK, AheadOf
<1>8. CASE hits # {}
  <2>1. PICK m : m = Min(hits)
    OBVIOUS
  <2>2. m \in hits /\ (\A p \in hits : m <= p) /\ m \in Nat
    <3>1. hits \in SUBSET Nat
      BY <1>4, <1>5
    <3> QED BY <1>8, <2>1, <3>1, MinIn
  <2>3. PICK T, w : T = q.todo \ {m} /\ w = [q EXCEPT !.at = m + 1, !.todo = T]
    OBVIOUS
  <2>4. find_continue(h, q, s).q = w
    BY <1>5, <1>8, <2>1, <2>3 DEF find_continue
  <2>5. m + 1 \in Nat \ {0} /\ T \in SUBSET Nat
    BY <1>3, <2>2, <2>3
  <2>6. /\ w \in ActiveType /\ w.lost = q.lost /\ w.todo = T /\ w.dir = q.dir /\ w.at = m + 1
        /\ w.dirs = q.dirs /\ w.pattern = q.pattern
    BY <2>3, <2>5 DEF ActiveType
  <2>7. ASSUME NEW p \in T PROVE p \in DOMAIN s /\ p >= w.at /\ Matches(h, w, s, p)
    <3>1. p \in hits /\ p # m /\ p \in Nat
      BY <1>3, <1>6, <2>3, <2>7
    <3>2. p \in DOMAIN s /\ Matches(h, q, s, p) /\ m < p /\ q.at <= m
      BY <1>5, <2>2, <3>1
    <3>3. IsEntry(s[m]) /\ m \in 1..(p - 1)
      BY <1>4, <1>5, <2>2, <3>1, <3>2 DEF Matches
    <3>4. m <= Boundary(s, p) /\ Boundary(s, p) \in Nat
      <4>1. p \in Nat \ {0} /\ s[m].tag # "lfn"
        BY <3>1, <3>2, <3>3 DEF IsEntry
      <4>2. Boundary(s, p) \in 0..(p - 1) /\ \A x \in 1..(p - 1) : s[x].tag # "lfn" => x <= Boundary(s, p)
        BY <4>1, BoundaryIs
      <4> QED BY <3>1, <3>3, <4>1, <4>2
    <3>5. /\ q.at \in Nat /\ w.at \in Nat /\ q.at <= Boundary(s, p) + 1 /\ w.at <= Boundary(s, p) + 1
      BY <1>3, <2>2, <2>6, <3>2, <3>4
    <3>6. Matches(h, w, s, p)
      BY <1>4, <2>6, <3>2, <3>5, MatchesOn
    <3> QED BY <2>2, <2>6, <3>1, <3>2, <3>6
  <2>8. AheadOf(h, w, t.dir[w.dir])
    BY <1>1, <2>6, <2>7 DEF AheadOf
  <2> QED BY <1>1, <1>3, <2>4, <2>6, <2>8 DEF SearchOK
<1> QED BY <1>1, <1>7, <1>8

\* A search starts.
LEMMA StartedOK ==
  ASSUME Ready, NEW h, NEW d \in LiveIn(Tree), NEW pattern \in Patterns, NEW dirs \in Masks
  PROVE  /\ Started(h, d, pattern, dirs) \in ActiveType
         /\ ~Started(h, d, pattern, dirs).lost
         /\ Started(h, d, pattern, dirs).dir = d
         /\ SearchOK(Tree, h, Started(h, d, pattern, dirs))
<1>1. PICK s : s = dir[d]
  OBVIOUS
<1>2. s = Tree.dir[d] /\ DOMAIN s = 1..Len(s) /\ Len(s) \in Nat /\ d \in {Root} \cup Clusters
  BY <1>1, FirstSlots DEF Tree, Ready
<1>3. PICK f \in BOOLEAN : f <=> FALSE
  OBVIOUS
<1>4. PICK q : q = [on |-> TRUE, dir |-> d, at |-> 1, pattern |-> pattern, dirs |-> dirs,
                    todo |-> {}, lost |-> f, during |-> 0]
  OBVIOUS
<1>5. PICK T : T = {p \in DOMAIN s : Matches(h, q, s, p)}
  OBVIOUS
<1>6. PICK w : w = [q EXCEPT !.todo = T]
  OBVIOUS
<1>7. Started(h, d, pattern, dirs) = w
  BY <1>1, <1>3, <1>4, <1>5, <1>6 DEF Started
<1>8. T \in SUBSET Nat
  BY <1>2, <1>5
<1>9. q \in ActiveType /\ q.dir = d /\ q.at = 1 /\ q.lost = f
  <2>1. f \in BOOLEAN /\ {} \in SUBSET Nat /\ 1 \in Nat \ {0} /\ 0 \in Nat
    OBVIOUS
  <2> QED BY <1>2, <1>4, <2>1 DEF ActiveType
<1>10. /\ w \in ActiveType /\ w.dir = d /\ w.at = 1 /\ w.lost = f /\ w.todo = T
       /\ w.at = q.at /\ w.dirs = q.dirs /\ w.pattern = q.pattern
  BY <1>6, <1>8, <1>9 DEF ActiveType
<1>11. \A p \in T : p \in DOMAIN s /\ p >= w.at /\ Matches(h, w, s, p)
  <2> TAKE p \in T
  <2>1. p \in DOMAIN s /\ Matches(h, q, s, p)
    BY <1>5
  <2>2. Matches(h, w, s, p)
    BY <1>10, <2>1, MatchesSame
  <2> QED BY <1>2, <1>10, <2>1, <2>2
<1>12. AheadOf(h, w, Tree.dir[w.dir])
  BY <1>2, <1>10, <1>11 DEF AheadOf
<1>13. ~w.lost
  BY <1>3, <1>10
<1> QED BY <1>7, <1>10, <1>12, <1>13 DEF SearchOK

----------------------------------------------------------------------------
(* The invariant.                                                          *)

\* The tree is one, the current directory is in it, and so are the searches
\* under way, or their directory was removed.
Inv ==
  /\ TreeOK(Tree) /\ cwd \in LiveIn(Tree)
  /\ search \in [Searches -> {Idle} \cup ActiveType]
  /\ \A h \in Searches : SearchOK(Tree, h, search[h])

\* Its type.
LEMMA SearchTyped ==
  ASSUME NEW t, NEW h, NEW q, SearchOK(t, h, q)
  PROVE  q \in {Idle} \cup ActiveType
BY DEF SearchOK

\* The tree changes, and every search is told.
LEMMA ChangedInv ==
  ASSUME Plain, EnoughAliases, Inv, Changed
  PROVE  Inv'
<1>1. PICK t : Goes(t) /\ Becomes(t) /\ cwd' = cwd
  BY DEF Changed
<1>2. dir' = t.dir /\ owner' = t.owner /\ search' = [h \in Searches |-> Watched(h, search[h], t)]
  BY <1>1 DEF Becomes
<1>3. Tree' = t
  <2>1. t = [dir |-> t.dir, owner |-> t.owner]
    BY <1>1 DEF Goes, TreeOK, TreeType
  <2> QED BY <1>2, <2>1 DEF Tree
<1>4. Ready
  BY DEF Inv, Ready
<1>5. \A h \in Searches : SearchOK(t, h, Watched(h, search[h], t))
  BY <1>1, <1>4, WatchedOK DEF Inv
<1>6. \A h \in Searches : SearchOK(t, h, search'[h])
  BY <1>2, <1>5
<1>7. search' \in [Searches -> {Idle} \cup ActiveType]
  BY <1>2, <1>5, SearchTyped
<1>8. TreeOK(t) /\ cwd' \in LiveIn(t)
  BY <1>1 DEF Goes
<1> QED BY <1>3, <1>6, <1>7, <1>8 DEF Inv

\* One search changes, and nothing else.
LEMMA SearchInv ==
  ASSUME Inv, NEW h \in Searches, NEW q, SearchOK(Tree, h, q),
         search' = [search EXCEPT ![h] = q], UNCHANGED <<dir, owner, cwd>>
  PROVE  Inv'
<1>1. Tree' = Tree /\ cwd' = cwd
  BY DEF Tree
<1>2. PICK t : t = Tree
  OBVIOUS
<1>3. TreeOK(t) /\ cwd' \in LiveIn(t) /\ Tree' = t
  BY <1>1, <1>2 DEF Inv
<1>4. search' \in [Searches -> {Idle} \cup ActiveType]
  BY SearchTyped DEF Inv
<1>5. \A x \in Searches : SearchOK(t, x, search'[x])
  BY <1>2 DEF Inv
<1> QED BY <1>3, <1>4, <1>5 DEF Inv

\* Only the current directory changes.
LEMMA ChdirInv ==
  ASSUME Inv, NEW d \in LiveIn(Tree), fat_chdir(d)
  PROVE  Inv'
<1>1. Tree' = Tree /\ cwd' = d /\ search' = search
  BY DEF fat_chdir, Tree
<1>2. PICK t : t = Tree
  OBVIOUS
<1>3. TreeOK(t) /\ cwd' \in LiveIn(t) /\ Tree' = t
  BY <1>1, <1>2 DEF Inv
<1>4. \A x \in Searches : SearchOK(t, x, search'[x])
  BY <1>1, <1>2 DEF Inv
<1> QED BY <1>1, <1>3, <1>4 DEF Inv

\* An empty volume.
LEMMA InitInv ==
  ASSUME Init
  PROVE  Inv
<1>1. PICK D, o, t : /\ D = [d \in {Root} \cup Clusters |-> <<>>] /\ o = [c \in Clusters |-> NoOne]
                     /\ t = [dir |-> D, owner |-> o]
  OBVIOUS
<1>2. Tree = t /\ t \in TreeType
  <2>1. <<>> \in Seq(SlotType)
    OBVIOUS
  <2>2. D \in [{Root} \cup Clusters -> Seq(SlotType)] /\ o \in [Clusters -> {NoOne} \cup Clusters]
    BY <1>1, <2>1
  <2>3. Tree = t
    BY <1>1 DEF Init, Tree
  <2> QED BY <1>1, <2>2, <2>3 DEF TreeType
<1>3. /\ \A d \in {Root} \cup Clusters : t.dir[d] = <<>>
      /\ \A c \in Clusters : t.owner[c] = NoOne
  BY <1>1
<1>4. \A x : x \in LiveIn(t) <=> x = Root
  BY <1>3, Basics DEF LiveIn
<1>5. /\ SlotsOK(t.dir[Root], Base(Root)) /\ Len(t.dir[Root]) <= Capacity(t, Root)
      /\ \A k : k \notin KidsIn(t.dir[Root], Base(Root))
  <2>1. PICK s : s = <<>> /\ s = t.dir[Root] /\ s \in Seq(SlotType) /\ Len(s) = 0 /\ DOMAIN s = {}
    <3>1. <<>> \in Seq(SlotType) /\ Len(<<>>) = 0 /\ DOMAIN <<>> = {}
      OBVIOUS
    <3> QED BY <1>3, <3>1
  <2>2. EntriesIn(s) = {} /\ SubdirsIn(s, 0) = {}
    BY <2>1 DEF EntriesIn, SubdirsIn
  <2>3. SlotsOK(s, 0)
    BY <2>1, <2>2 DEF SlotsOK, NamesIn
  <2>4. Len(s) <= Capacity(t, Root)
    BY <2>1, Basics DEF Capacity
  <2>5. \A k : k \notin KidsIn(s, 0)
    BY <2>2 DEF KidsIn
  <2> QED BY <2>1, <2>3, <2>4, <2>5 DEF Base
<1>6. TreeOK(t)
  <2>1. KidsIn(t.dir[Root], Base(Root)) = {k \in LiveIn(t) \ {Root} : Parent(t, k) = Root}
    BY <1>4, <1>5
  <2>2. NoLoops(t)
    BY <1>4 DEF NoLoops
  <2> QED BY <1>2, <1>3, <1>4, <1>5, <2>1, <2>2 DEF TreeOK
<1>7. \A h \in Searches : search[h] = Idle
  BY DEF Init
<1>8. search \in [Searches -> {Idle} \cup ActiveType]
  BY DEF Init
<1>9. cwd \in LiveIn(t)
  BY <1>4 DEF Init
<1> QED BY <1>2, <1>6, <1>7, <1>8, <1>9 DEF Inv, SearchOK

\* A search starts: 4Eh, 11h, 714Eh.
LEMMA StartInv ==
  ASSUME Plain, EnoughAliases, Inv, NEW h \in Searches, NEW d \in LiveIn(Tree),
         NEW pattern \in Patterns, NEW dirs \in Masks,
         search' = [search EXCEPT ![h] = find_continue(h, Started(h, d, pattern, dirs), dir[d]).q],
         UNCHANGED <<dir, owner, cwd>>
  PROVE  Inv'
<1>1. Ready
  BY DEF Inv, Ready
<1>2. PICK q : q = Started(h, d, pattern, dirs)
  OBVIOUS
<1>3. q \in ActiveType /\ ~q.lost /\ q.dir = d /\ SearchOK(Tree, h, q)
  BY <1>1, <1>2, StartedOK
<1>4. SearchOK(Tree, h, find_continue(h, q, Tree.dir[q.dir]).q)
  BY <1>3, ContinueOK DEF Inv
<1>5. Tree.dir[q.dir] = dir[d]
  BY <1>3 DEF Tree
<1>6. PICK r : r = find_continue(h, q, dir[d]).q
  OBVIOUS
<1>7. SearchOK(Tree, h, r) /\ search' = [search EXCEPT ![h] = r]
  BY <1>2, <1>4, <1>5, <1>6
<1> QED BY <1>7, SearchInv

\* A search goes on: 4Fh, 12h, 714Fh.
LEMMA NextInv ==
  ASSUME Plain, EnoughAliases, Inv, FindNext(Memory) \/ \E h \in Handles : FindNext(h)
  PROVE  Inv'
<1>1. PICK h \in Searches : FindNext(h)
  BY DEF Searches
<1>2. PICK q : q = search[h]
  OBVIOUS
<1>3. q.on /\ ~q.lost /\ SearchOK(Tree, h, q) /\ UNCHANGED <<dir, owner, cwd>>
      /\ search' = [search EXCEPT ![h] = find_continue(h, q, dir[q.dir]).q]
  BY <1>1, <1>2 DEF FindNext, Inv
<1>4. q \in ActiveType
  BY <1>3, OnOrIdle DEF SearchOK
<1>5. SearchOK(Tree, h, find_continue(h, q, Tree.dir[q.dir]).q)
  BY <1>3, <1>4, ContinueOK DEF Inv
<1>6. Tree.dir = dir
  BY DEF Tree
<1> QED BY <1>3, <1>5, <1>6, SearchInv

\* A search ends.
LEMMA CloseInv ==
  ASSUME Inv, NEW h \in Searches, search' = [search EXCEPT ![h] = Idle], UNCHANGED <<dir, owner, cwd>>
  PROVE  Inv'
<1>1. SearchOK(Tree, h, Idle)
  BY DEF SearchOK
<1> QED BY <1>1, SearchInv

\* The calls that take the name of an entry.
LEMMA ByNameInv ==
  ASSUME Plain, EnoughAliases, Inv, NEW d \in LiveIn(Tree), ByName(d)
  PROVE  Inv'
<1>1. Ready
  BY DEF Inv, Ready
<1>2. PICK name \in Names :
        \/ file_unlink_path(d, name) \/ f71_delete(d, name)
        \/ f3a_rmdir(d, name) \/ f71_rmdir(d, name)
        \/ f71_chdir(d, name)
        \/ \E ro \in BOOLEAN : f43_attrib(d, name, ro)
        \/ file_rename_path(d, name) \/ f71_rename(d, name)
  BY DEF ByName
<1>3. CASE file_unlink_path(d, name) \/ f71_delete(d, name)
  BY <1>1, <1>3, UnlinkChanges, ChangedInv
<1>4. CASE f3a_rmdir(d, name) \/ f71_rmdir(d, name)
  BY <1>1, <1>4, RemoveChanges, ChangedInv
<1>5. CASE f71_chdir(d, name)
  <2>1. dir = Tree.dir /\ name \in Shorts \cup Longs /\ TreeOK(Tree)
    BY NamesGiven DEF Tree, Inv
  <2>2. PICK p : p = lfn_lookup(Tree.dir[d], name)
    OBVIOUS
  <2>3. p # 0 /\ IsDir(Tree.dir[d][p]) /\ fat_chdir(Tree.dir[d][p].first)
    BY <1>5, <2>1, <2>2 DEF f71_chdir
  <2>4. p \in EntriesIn(Tree.dir[d]) /\ p > Base(d)
    BY <2>1, <2>2, <2>3, LookedUp
  <2>5. Tree.dir[d][p].first \in LiveIn(Tree)
    BY <2>1, <2>3, <2>4, LeadsTo
  <2> QED BY <2>3, <2>5, ChdirInv
<1>6. CASE \E ro \in BOOLEAN : f43_attrib(d, name, ro)
  BY <1>1, <1>6, AttribChanges, ChangedInv
<1>7. CASE file_rename_path(d, name)
  BY <1>1, <1>7, RenameChanges, ChangedInv
<1>8. CASE f71_rename(d, name)
  BY <1>1, <1>8, Rename71Changes, ChangedInv
<1> QED BY <1>2, <1>3, <1>4, <1>5, <1>6, <1>7, <1>8

\* The calls that take a pattern.
LEMMA ByPatternInv ==
  ASSUME Plain, EnoughAliases, Inv, ByPattern
  PROVE  Inv'
<1>1. Ready /\ cwd \in LiveIn(Tree) /\ \A d \in fat_resolve_dir : d \in LiveIn(Tree)
  BY ResolvedLive DEF Inv, Ready
<1>2. PICK pattern \in Patterns :
        \/ f13_fcb_delete(pattern)
        \/ \E name \in ShortNames : f17_fcb_rename(pattern, name)
        \/ \E dirs \in Masks :
             \/ f11_fcb_findfirst(pattern, dirs)
             \/ \E d \in fat_resolve_dir :
                  f4e_findfirst(d, pattern, dirs) \/ \E h \in Handles : f71_findfirst(h, d, pattern, dirs)
  BY DEF ByPattern
<1>3. CASE f13_fcb_delete(pattern)
  BY <1>1, <1>3, DeletesChange, ChangedInv
<1>4. CASE \E name \in ShortNames : f17_fcb_rename(pattern, name)
  BY <1>1, <1>4, RenamesChange, ChangedInv
<1>5. ASSUME NEW d \in LiveIn(Tree), NEW dirs \in Masks, FindFirst(d, pattern, dirs)
      PROVE  Inv'
  <2>1. /\ search' = [search EXCEPT ![Memory] = find_continue(Memory, Started(Memory, d, pattern, dirs), dir[d]).q]
        /\ UNCHANGED <<dir, owner, cwd>> /\ Memory \in Searches
    BY <1>5 DEF FindFirst, Searches
  <2> QED BY <2>1, StartInv
<1>6. CASE \E dirs \in Masks :
             f11_fcb_findfirst(pattern, dirs) \/ \E d \in fat_resolve_dir : f4e_findfirst(d, pattern, dirs)
  BY <1>1, <1>5, <1>6 DEF f11_fcb_findfirst, f4e_findfirst
<1>7. CASE \E dirs \in Masks, d \in fat_resolve_dir, h \in Handles : f71_findfirst(h, d, pattern, dirs)
  <2>1. PICK dirs \in Masks, d \in fat_resolve_dir, h \in Handles : f71_findfirst(h, d, pattern, dirs)
    BY <1>7
  <2>2. /\ search' = [search EXCEPT ![h] = find_continue(h, Started(h, d, pattern, dirs), dir[d]).q]
        /\ UNCHANGED <<dir, owner, cwd>> /\ h \in Searches
    BY <2>1 DEF f71_findfirst, Searches
  <2> QED BY <1>1, <2>2, StartInv
<1> QED BY <1>2, <1>3, <1>4, <1>6, <1>7

\* Every step keeps the invariant.
LEMMA StepInv ==
  ASSUME Plain, EnoughAliases, Inv, [Next]_vars
  PROVE  Inv'
<1>1. Ready /\ \A d \in fat_resolve_dir : d \in LiveIn(Tree)
  BY ResolvedLive DEF Inv, Ready
<1>2. CASE \E d \in fat_resolve_dir : Creating(d)
  <2>1. PICK d \in fat_resolve_dir, name \in NewNames :
          \/ f3c_create(d, name) \/ f71_open(d, name)
          \/ f39_mkdir(d, name) \/ f71_mkdir(d, name)
    BY <1>2 DEF Creating
  <2>2. Changed
    BY <1>1, <2>1, CreateChanges, MakeDirChanges
  <2> QED BY <2>2, ChangedInv
<1>3. CASE \E d \in fat_resolve_dir : ByName(d)
  BY <1>1, <1>3, ByNameInv
<1>4. CASE \E d \in fat_resolve_dir : fat_chdir(d)
  BY <1>1, <1>4, ChdirInv
<1>5. CASE ByPattern
  BY <1>5, ByPatternInv
<1>6. CASE \E h \in Searches : FindNext(h)
  BY <1>6, NextInv DEF Searches
<1>7. CASE \E h \in Handles : f71_findclose(h)
  BY <1>7, CloseInv DEF f71_findclose, Searches
<1>8. CASE Forget
  BY <1>8, CloseInv DEF Forget, Searches
<1>9. CASE UNCHANGED vars
  <2>1. Tree' = Tree /\ cwd' = cwd /\ search' = search
    BY <1>9 DEF vars, Tree
  <2>2. PICK t : t = Tree
    OBVIOUS
  <2>3. TreeOK(t) /\ cwd' \in LiveIn(t) /\ Tree' = t /\ \A x \in Searches : SearchOK(t, x, search'[x])
    BY <2>1, <2>2 DEF Inv
  <2> QED BY <2>1, <2>3 DEF Inv
<1> QED BY <1>2, <1>3, <1>4, <1>5, <1>6, <1>7, <1>8, <1>9 DEF Next

\* The invariant holds of every state the calls reach, for any sizes, names and
\* patterns.
THEOREM DirsInvariant ==
  ASSUME Plain, EnoughAliases
  PROVE  Spec => []Inv
<1>1. Init => Inv
  BY InitInv
<1>2. Inv /\ [Next]_vars => Inv'
  BY StepInv
<1> QED BY <1>1, <1>2, PTL DEF Spec

\* What the invariant says about names.
LEMMA InvNames ==
  ASSUME Inv
  PROVE  NamesSound
<1>1. PICK t : t = Tree
  OBVIOUS
<1>2. TreeOK(t) /\ t.dir = dir /\ t.owner = owner
  BY <1>1 DEF Inv, Tree
<1>3. \A d : d \in Live <=> d \in LiveIn(t)
  BY <1>2 DEF Live, LiveIn
<1>4. ASSUME NEW d \in Live
      PROVE  /\ \A p \in EntriesOf(d) : LongName(dir[d], 1, p) = dir[d][p].long
             /\ \A p, q \in EntriesOf(d) :
                  p # q => {dir[d][p].name, Shown(dir[d], p)} \cap {dir[d][q].name, Shown(dir[d], q)} = {}
  <2>1. PICK s : s = dir[d] /\ s = t.dir[d]
    BY <1>2
  <2>2. s \in Seq(SlotType) /\ NamesIn(s) /\ EntriesOf(d) = EntriesIn(s)
    BY <1>2, <1>3, <2>1 DEF TreeOK, SlotsOK, EntriesOf, EntriesIn
  <2>3. \A p \in EntriesIn(s) : LongName(s, 1, p) = s[p].long
    BY <2>2, OwnName
  <2>4. \A p \in EntriesIn(s) : /\ s[p].name \in Shorts \cup {Dot, DotDot}
                                /\ s[p].long \in Longs \cup {NoLong}
                                /\ Shown(s, p) = IF s[p].long = NoLong THEN s[p].name ELSE s[p].long
    <3>1. \A p \in EntriesIn(s) : s[p] \in EntryType
      BY <1>2, <1>3, <2>1, EntryAt
    <3> QED BY <2>2, <3>1, ShownIs DEF EntryType
  <2>5. \A n \in Shorts \cup {Dot, DotDot}, l \in Longs : n # l
    BY NamesDiffer
  <2>6. ASSUME NEW p \in EntriesIn(s), NEW q \in EntriesIn(s), p # q
        PROVE  {s[p].name, Shown(s, p)} \cap {s[q].name, Shown(s, q)} = {}
    <3>1. s[p].name # s[q].name /\ (s[p].long # NoLong => s[p].long # s[q].long)
      BY <2>2, <2>6 DEF NamesIn
    <3>2. PICK a, b, f, g : a = s[p].name /\ b = s[q].name /\ f = Shown(s, p) /\ g = Shown(s, q)
      OBVIOUS
    <3>3. a # b /\ a # g /\ f # b /\ f # g
      BY <2>4, <2>5, <3>1, <3>2
    <3>4. {a, f} \cap {b, g} = {}
      BY <3>3
    <3> QED BY <3>2, <3>4
  <2> QED BY <2>1, <2>2, <2>3, <2>6
<1> QED BY <1>4 DEF NamesSound

\* What it says about searches.
LEMMA InvScans ==
  ASSUME Inv
  PROVE  ScansComplete
<1>1. ASSUME NEW h \in Active, NEW p \in search[h].todo PROVE p >= search[h].at
  <2>1. h \in Searches /\ search[h].on
    BY DEF Active
  <2>2. SearchOK(Tree, h, search[h]) /\ search[h] # Idle
    BY <2>1, OnOrIdle DEF Inv
  <2> QED BY <2>2 DEF SearchOK, AheadOf
<1> QED BY <1>1 DEF ScansComplete

\* The entries that lead to directories.
LEMMA NamedAre ==
  ASSUME Inv, NEW u \in Live, NEW p
  PROVE  p \in Named(u) /\ IsDir(dir[u][p]) <=> p \in SubdirsIn(dir[u], Base(u))
<1>1. PICK t : t = Tree
  OBVIOUS
<1>2. TreeOK(t) /\ t.dir = dir /\ u \in LiveIn(t)
  BY <1>1 DEF Inv, Tree, Live, LiveIn
<1>3. EntriesOf(u) = EntriesIn(t.dir[u])
  BY <1>2 DEF EntriesOf, EntriesIn
<1>4. ASSUME p \in EntriesIn(t.dir[u]) PROVE t.dir[u][p].name \notin {Dot, DotDot} <=> p > Base(u)
  <2>1. /\ p > Base(u) => t.dir[u][p].name \in Shorts
        /\ ~(p > Base(u)) => t.dir[u][p].name \in {Dot, DotDot}
    BY <1>2, <1>4, EntryAt
  <2>2. \A n \in Shorts : n # Dot /\ n # DotDot
    BY NamesDiffer
  <2> QED BY <2>1, <2>2
<1>5. p \in Named(u) <=> p \in EntriesIn(t.dir[u]) /\ p > Base(u)
  BY <1>2, <1>3, <1>4 DEF Named
<1>6. p \in SubdirsIn(t.dir[u], Base(u)) <=> p \in EntriesIn(t.dir[u]) /\ p > Base(u) /\ IsDir(t.dir[u][p])
  BY SubdirsAre
<1> QED BY <1>2, <1>5, <1>6

\* One entry leads to a directory.
LEMMA OneLeads ==
  ASSUME Inv, NEW d \in Live, d # Root
  PROVE  \E p : Leading(d) = {<<Parent(Tree, d), p>>}
<1>1. PICK t, u : t = Tree /\ u = Parent(Tree, d)
  OBVIOUS
<1>2. TreeOK(t) /\ t.dir = dir /\ \A x : x \in Live <=> x \in LiveIn(t)
  BY <1>1 DEF Inv, Tree, Live, LiveIn
<1>3. u = Parent(t, d) /\ u \in LiveIn(t) /\ d \in LiveIn(t) \ {Root}
  BY <1>1, <1>2 DEF TreeOK, HeadOK
<1>4. PICK s : s = t.dir[u]
  OBVIOUS
<1>5. KidsIn(s, Base(u)) = {k \in LiveIn(t) \ {Root} : Parent(t, k) = u} /\ SlotsOK(s, Base(u))
  BY <1>2, <1>3, <1>4 DEF TreeOK
<1>6. d \in KidsIn(s, Base(u))
  BY <1>3, <1>5
<1>7. PICK p \in SubdirsIn(s, Base(u)) : s[p].first = d
  BY <1>6 DEF KidsIn
<1>8. \A q \in SubdirsIn(s, Base(u)) : s[q].first = d => q = p
  BY <1>5, <1>7 DEF SlotsOK
<1>9. \A x : x \in Leading(d) <=> x = <<u, p>>
  <2> TAKE x
  <2>1. ASSUME x \in Leading(d) PROVE x = <<u, p>>
    <3>0. PICK v \in Live : \E q \in Named(v) : x = <<v, q>> /\ IsDir(dir[v][q]) /\ dir[v][q].first = d
      BY <2>1 DEF Leading
    <3>1. PICK q \in Named(v) : x = <<v, q>> /\ IsDir(dir[v][q]) /\ dir[v][q].first = d
      BY <3>0
    <3>2. q \in SubdirsIn(dir[v], Base(v))
      BY <3>1, NamedAre
    <3>3. d \in KidsIn(t.dir[v], Base(v)) /\ v \in LiveIn(t)
      BY <1>2, <3>1, <3>2 DEF KidsIn
    <3>4. v = u
      BY <1>2, <1>3, <3>3 DEF TreeOK
    <3>5. q = p
      BY <1>2, <1>4, <1>8, <3>1, <3>2, <3>4
    <3> QED BY <3>1, <3>4, <3>5
  <2>2. <<u, p>> \in Leading(d)
    <3>1. u \in Live /\ p \in SubdirsIn(dir[u], Base(u)) /\ dir[u][p].first = d
      BY <1>2, <1>3, <1>4, <1>7
    <3>2. p \in Named(u) /\ IsDir(dir[u][p])
      BY <3>1, NamedAre
    <3>3. p \in {q \in Named(u) : IsDir(dir[u][q]) /\ dir[u][q].first = d}
      BY <3>1, <3>2
    <3>4. <<u, p>> \in {<<u, y>> : y \in {q \in Named(u) : IsDir(dir[u][q]) /\ dir[u][q].first = d}}
      BY <3>3
    <3> QED BY <3>1, <3>4 DEF Leading
  <2> QED BY <2>1, <2>2
<1>10. Leading(d) = {<<u, p>>}
  BY <1>9
<1> QED BY <1>1, <1>10

\* What it says about the tree.
LEMMA InvTree ==
  ASSUME Inv
  PROVE  TreeSound
<1>1. PICK t : t = Tree
  OBVIOUS
<1>2. TreeOK(t) /\ t.dir = dir /\ t.owner = owner /\ \A x : x \in Live <=> x \in LiveIn(t)
  BY <1>1 DEF Inv, Tree, Live, LiveIn
<1>3. ASSUME NEW d \in Live
      PROVE  /\ Len(dir[d]) <= Capacity(Tree, d)
             /\ \A p \in Named(d) : IsDir(dir[d][p]) => dir[d][p].first \in Live \ {Root}
  <2>1. Len(t.dir[d]) <= Capacity(t, d)
    BY <1>2 DEF TreeOK
  <2>2. ASSUME NEW p \in Named(d), IsDir(dir[d][p]) PROVE dir[d][p].first \in Live \ {Root}
    <3>1. p \in SubdirsIn(dir[d], Base(d))
      BY <2>2, NamedAre
    <3>2. p \in EntriesIn(t.dir[d]) /\ p > Base(d)
      BY <1>2, <3>1, SubdirsAre
    <3>3. t.dir[d][p].first \in LiveIn(t) \ {Root}
      BY <1>2, <2>2, <3>2, LeadsTo
    <3> QED BY <1>2, <3>3
  <2> QED BY <1>1, <1>2, <2>1, <2>2
<1>4. ASSUME NEW d \in Live, d # Root
      PROVE  /\ Cardinality(Leading(d)) = 1
             /\ \A x \in Leading(d) : dir[d][2].first = x[1]
             /\ dir[d][1] = Entry(Dot, "dir", d, NoLong) /\ dir[d][2].name = DotDot
             /\ Root \in Above(d)
  <2>1. PICK p : Leading(d) = {<<Parent(Tree, d), p>>}
    BY <1>4, OneLeads
  <2>2. Parent(Tree, d) = dir[d][2].first
    BY DEF Parent, Tree
  <2>3. Cardinality(Leading(d)) = 1
    BY <2>1, FS_Singleton
  <2>4. \A x \in Leading(d) : dir[d][2].first = x[1]
    BY <2>1, <2>2
  <2>5. HeadOK(t, d)
    BY <1>2, <1>4 DEF TreeOK
  <2>6. dir[d][1] = Entry(Dot, "dir", d, NoLong) /\ dir[d][2].name = DotDot
    BY <1>2, <2>5 DEF HeadOK, Entry
  <2>7. Root \in Above(d)
    BY <1>1, <1>2, <1>4, AboveIs
  <2> QED BY <2>3, <2>4, <2>6, <2>7
<1>5. \A c \in Clusters : owner[c] \in {NoOne} \cup (Live \ {Root})
  BY <1>2 DEF TreeOK
<1>6. cwd \in Live
  BY <1>1, <1>2 DEF Inv
<1>7. \A h \in Active : search[h].lost \/ search[h].dir \in Live
  <2> TAKE h \in Active
  <2>1. h \in Searches /\ search[h].on
    BY DEF Active
  <2>2. SearchOK(t, h, search[h]) /\ search[h] # Idle
    BY <1>1, <2>1, OnOrIdle DEF Inv
  <2> QED BY <1>2, <2>2 DEF SearchOK
<1> QED BY <1>3, <1>4, <1>5, <1>6, <1>7 DEF TreeSound

\* Names: no two entries of a directory go by the same name, and each shows the
\* long name it was given last, whatever slots 41h, 13h, 17h and 56h, which know
\* nothing of long names, have left in front of it, when no 8.3 call gives an
\* entry a name of the form of an alias (Plain).
THEOREM DirsNamesSound ==
  ASSUME Plain, EnoughAliases
  PROVE  Spec => []NamesSound
<1>1. Inv => NamesSound
  BY InvNames
<1> QED BY <1>1, DirsInvariant, PTL

\* The tree: create, mkdir, rmdir and moves, also those that end half way on a
\* full disk, leave one tree without lost or shared clusters, and every ".."
\* leads where its directory is.
THEOREM DirsTreeSound ==
  ASSUME Plain, EnoughAliases
  PROVE  Spec => []TreeSound
<1>1. Inv => TreeSound
  BY InvTree
<1> QED BY <1>1, DirsInvariant, PTL

\* Searches: nothing that was there when a search began and is still there is
\* behind it without having been returned.
THEOREM DirsScansComplete ==
  ASSUME Plain, EnoughAliases
  PROVE  Spec => []ScansComplete
<1>1. Inv => ScansComplete
  BY InvScans
<1> QED BY <1>1, DirsInvariant, PTL
=============================================================================
