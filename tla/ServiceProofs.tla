---------------------------- MODULE ServiceProofs ----------------------------
(***************************************************************************)
(* Theorems about the services beside files and memory blocks: the EMS     *)
(* driver (module Ems), for any number of handles, windows and backing     *)
(* pages; the console calls and the way of a break (module Int21), for any *)
(* keys, buffer size and depth of processes; and the shell whose handler a *)
(* break reaches (module Shell), for any batch files and settings.         *)
(***************************************************************************)
EXTENDS Ems, Int21, Shell, Extremum, FiniteSetTheorems, FunctionTheorems, SequenceTheorems

----------------------------------------------------------------------------
(* Runs of backing pages and their lengths.                                *)

LEMMA Sizes == total_pages \in Nat /\ NHandles \in Nat /\ NWindows \in Nat /\ NWindows > 0
BY EmsAssumption

LEMMA RunSize ==
  ASSUME NEW f \in Nat, NEW n \in Nat
  PROVE  IsFiniteSet(Run(f, n)) /\ Cardinality(Run(f, n)) = n
<1>1. f \in Int /\ f + n - 1 \in Int
  OBVIOUS
<1>2. /\ IsFiniteSet(f..(f + n - 1))
      /\ Cardinality(f..(f + n - 1)) = IF f > f + n - 1 THEN 0 ELSE (f + n - 1) - f + 1
  BY <1>1, FS_Interval
<1> QED BY <1>2 DEF Run

LEMMA PagesFinite ==
  ASSUME NEW S \in SUBSET Page
  PROVE  IsFiniteSet(S) /\ Cardinality(S) \in 0..total_pages
<1>1. IsFiniteSet(Page) /\ Cardinality(Page) = total_pages
  BY Sizes, FS_Interval DEF Page
<1>2. IsFiniteSet(S) /\ Cardinality(S) <= Cardinality(Page)
  BY <1>1, FS_Subset
<1> QED BY <1>1, <1>2, FS_CardinalityType, Sizes

\* A run that leaves, and one that joins, the pages in use.
LEMMA Counted ==
  ASSUME NEW S \in SUBSET Page, NEW f \in Nat, NEW n \in Nat,
         Run(f, n) \subseteq Page
  PROVE  /\ Run(f, n) \subseteq S => Cardinality(S \ Run(f, n)) = Cardinality(S) - n
         /\ Run(f, n) \cap S = {} => Cardinality(S \cup Run(f, n)) = Cardinality(S) + n
<1> DEFINE R == Run(f, n)
<1>1. IsFiniteSet(S) /\ IsFiniteSet(R) /\ Cardinality(R) = n /\ Cardinality(S) \in Nat
  BY PagesFinite, RunSize, Sizes
<1> HIDE DEF R
<1>2. ASSUME R \subseteq S PROVE Cardinality(S \ R) = Cardinality(S) - n
  <2>1. S \cap R = R
    BY <1>2
  <2>2. Cardinality(S \ R) = Cardinality(S) - Cardinality(S \cap R)
    BY <1>1, FS_Difference
  <2> QED BY <1>1, <2>1, <2>2
<1>3. ASSUME R \cap S = {} PROVE Cardinality(S \cup R) = Cardinality(S) + n
  <2>1. S \cap R = {}
    BY <1>3
  <2>2. Cardinality(S \cup R) = Cardinality(S) + Cardinality(R) - Cardinality({})
    BY <1>1, <2>1, FS_Union
  <2>3. Cardinality({}) = 0
    BY FS_EmptySet
  <2> QED BY <1>1, <2>2, <2>3
<1> QED BY <1>2, <1>3 DEF R

\* First fit finds a free run, and the lowest free handle is free.
LEMMA AllocFits ==
  ASSUME NEW n \in Nat, Runs(n) # {}
  PROVE  /\ backing_alloc(n) \in Page
         /\ \A p \in Run(backing_alloc(n), n) : p \in Page /\ page_owner[p] = NoOne
<1>1. Runs(n) \in SUBSET Nat
  BY DEF Runs, Page
<1>2. \E x \in Runs(n) : \A y \in Runs(n) : x <= y
  BY <1>1, NatLeast
<1>3. backing_alloc(n) \in Runs(n)
  BY <1>2, Zenon DEF backing_alloc, Lowest
<1> QED BY <1>3 DEF Runs

LEMMA LowestHandle ==
  ASSUME Used # H
  PROVE  Lowest(H \ Used) \in H \ Used
<1>1. H \ Used \in SUBSET Nat /\ H \ Used # {}
  BY DEF H, Used
<1>2. \E x \in H \ Used : \A y \in H \ Used : x <= y
  BY <1>1, NatLeast
<1> QED BY <1>2, Zenon DEF Lowest

----------------------------------------------------------------------------
(* The runs of the handles and the owner table.                            *)

HandleType == [npages : 0..total_pages, first : 0..total_pages, used : BOOLEAN]
InUse(owner) == {p \in Page : owner[p] # NoOne}

Tables ==
  /\ eh \in [H -> HandleType]
  /\ page_owner \in [Page -> H \cup {NoOne}]
  /\ \A h \in Used : Pages(h) = {p \in Page : page_owner[p] = h}
  /\ \A p \in Page : page_owner[p] \in Used \cup {NoOne}
  /\ used_pages = Cardinality(InUse(page_owner))

LEMMA NoOneIsNoHandle == NoOne \notin H
BY Sizes DEF NoOne, H

LEMMA InitTables == ems_init => Tables
<1> SUFFICES ASSUME ems_init PROVE Tables
  OBVIOUS
<1>1. /\ eh = [h \in H |-> Unused] /\ page_owner = [p \in Page |-> NoOne] /\ used_pages = 0
  BY DEF ems_init
<1>2. Used = {} /\ InUse(page_owner) = {}
  BY <1>1 DEF Used, Unused, InUse
<1>3. Unused \in HandleType
  BY Sizes DEF Unused, HandleType
<1> QED BY <1>1, <1>2, <1>3, FS_EmptySet DEF Tables

\* 43h: a run that nobody owned, for a handle that nobody had.
LEMMA AllocTables ==
  ASSUME Tables, NEW n \in 1..total_pages, f43_alloc(n)
  PROVE  Tables'
<1> DEFINE h == Lowest(H \ Used)
           first == backing_alloc(n)
           R == Run(first, n)
<1>1. h \in H /\ h \notin Used
  BY LowestHandle DEF f43_alloc
<1>2. n \in Nat /\ first \in Page /\ \A p \in R : p \in Page /\ page_owner[p] = NoOne
  BY AllocFits, Sizes DEF f43_alloc
<1>3. /\ eh' = [eh EXCEPT ![h] = [npages |-> n, first |-> first, used |-> TRUE]]
      /\ page_owner' = [p \in Page |-> IF p \in R THEN h ELSE page_owner[p]]
      /\ used_pages' = used_pages + n
  BY DEF f43_alloc, Owned
<1> HIDE DEF h, first
<1>4. first \in Nat /\ first \in 0..total_pages /\ n \in 0..total_pages
  BY <1>2, Sizes DEF Page
<1>5. eh' \in [H -> HandleType]
  <2>1. [npages |-> n, first |-> first, used |-> TRUE] \in HandleType
    BY <1>4 DEF HandleType
  <2> QED BY <1>3, <2>1 DEF Tables
<1>6. page_owner' \in [Page -> H \cup {NoOne}]
  BY <1>1, <1>3 DEF Tables
<1>7. Used' = Used \cup {h}
  BY <1>1, <1>3 DEF Used, Tables
<1>8. ASSUME NEW g \in Used' PROVE Pages(g)' = {p \in Page : page_owner'[p] = g}
  <2>1. CASE g = h
    <3>1. Pages(g)' = R
      BY <1>1, <1>3, <2>1 DEF Pages, Tables
    <3>2. \A p \in Page : page_owner[p] # h
      BY <1>1, NoOneIsNoHandle DEF Tables
    <3> HIDE DEF R
    <3>3. {p \in Page : page_owner'[p] = h} = R
      BY <1>2, <1>3, <3>2
    <3> QED BY <2>1, <3>1, <3>3
  <2>2. CASE g # h
    <3>1. g \in Used /\ g \in H
      BY <1>7, <2>2 DEF Used
    <3>2. Pages(g)' = Pages(g)
      BY <1>3, <2>2, <3>1 DEF Pages, Tables
    <3>3. g # NoOne
      BY <3>1, NoOneIsNoHandle
    <3> HIDE DEF R
    <3>4. {p \in Page : page_owner'[p] = g} = {p \in Page : page_owner[p] = g}
      BY <1>2, <1>3, <2>2, <3>3
    <3> QED BY <3>1, <3>2, <3>4 DEF Tables
  <2> QED BY <2>1, <2>2
<1>9. \A p \in Page : page_owner'[p] \in Used' \cup {NoOne}
  BY <1>3, <1>7 DEF Tables
<1>10. used_pages' = Cardinality(InUse(page_owner'))
  <2>1. R \subseteq Page /\ R \cap InUse(page_owner) = {}
    BY <1>2 DEF InUse
  <2>2. InUse(page_owner') = InUse(page_owner) \cup R
    <3>1. h # NoOne
      BY <1>1, NoOneIsNoHandle
    <3> HIDE DEF R
    <3> QED BY <1>2, <1>3, <2>1, <3>1 DEF InUse
  <2>3. InUse(page_owner) \subseteq Page
    BY DEF InUse
  <2>4. Cardinality(InUse(page_owner) \cup R) = Cardinality(InUse(page_owner)) + n
    BY <1>2, <1>4, <2>1, <2>3, Counted
  <2> QED BY <1>3, <2>2, <2>4 DEF Tables
<1> QED BY <1>5, <1>6, <1>8, <1>9, <1>10 DEF Tables

\* 45h and the shrinking 51h: the pages of R leave h, which keeps the first k.
LEMMA FreedTables ==
  ASSUME Tables, NEW h \in Used, NEW k \in Nat, k <= eh[h].npages,
         NEW e \in HandleType,
         \/ e.used /\ e.npages = k /\ e.first = eh[h].first
         \/ ~e.used /\ k = 0,
         eh' = [eh EXCEPT ![h] = e],
         page_owner' = Owned(Run(eh[h].first + k, eh[h].npages - k), NoOne),
         used_pages' = used_pages - (eh[h].npages - k)
  PROVE  Tables'
<1> DEFINE f == eh[h].first
           n == eh[h].npages
           R == Run(f + k, n - k)
<1>1. h \in H /\ f \in Nat /\ n \in Nat /\ k <= n
  BY Sizes DEF Tables, HandleType, Used
<1>2. Pages(h) = {p \in Page : page_owner[p] = h} /\ Pages(h) = Run(f, n)
  BY DEF Tables, Pages
<1>3. page_owner' = [p \in Page |-> IF p \in R THEN NoOne ELSE page_owner[p]]
  BY DEF Owned
<1>4. R \subseteq Run(f, n) /\ Run(f, k) = Run(f, n) \ R
  <2> HIDE DEF f, n
  <2>1. /\ R = f + k..f + k + (n - k) - 1 /\ f + k + (n - k) - 1 = f + n - 1
        /\ Run(f, n) = f..f + n - 1 /\ Run(f, k) = f..f + k - 1
    BY <1>1 DEF Run
  <2> HIDE DEF R
  <2> QED BY <1>1, <2>1
<1>5. R \subseteq Page /\ \A p \in R : page_owner[p] = h
  BY <1>2, <1>4
<1>6. f + k \in Nat /\ n - k \in Nat
  BY <1>1
<1> HIDE DEF f, n, R
<1>7. eh' \in [H -> HandleType]
  BY DEF Tables
<1>8. page_owner' \in [Page -> H \cup {NoOne}]
  BY <1>3 DEF Tables
<1>9. Used' = IF e.used THEN Used ELSE Used \ {h}
  BY <1>1 DEF Used, Tables, HandleType
<1>10. ASSUME NEW g \in Used' PROVE Pages(g)' = {p \in Page : page_owner'[p] = g}
  <2>1. g \in Used /\ g \in H /\ g # NoOne
    BY <1>9, NoOneIsNoHandle DEF Used
  <2>2. CASE g = h
    <3>1. e.used /\ Pages(g)' = Run(f, k)
      BY <1>1, <1>9, <2>2 DEF Pages, Tables, f
    <3>2. {p \in Page : page_owner'[p] = h} = {p \in Page : page_owner[p] = h} \ R
      BY <1>3, <2>1, <2>2
    <3> QED BY <1>2, <1>4, <2>2, <3>1, <3>2
  <2>3. CASE g # h
    <3>1. Pages(g)' = Pages(g)
      BY <2>1, <2>3 DEF Pages, Tables
    <3>2. {p \in Page : page_owner'[p] = g} = {p \in Page : page_owner[p] = g}
      BY <1>3, <1>5, <2>1, <2>3
    <3> QED BY <2>1, <3>1, <3>2 DEF Tables
  <2> QED BY <2>2, <2>3
<1>11. \A p \in Page : page_owner'[p] \in Used' \cup {NoOne}
  <2> TAKE p \in Page
  <2>1. CASE p \in R
    BY <1>3, <2>1
  <2>2. CASE p \notin R
    <3>1. page_owner'[p] = page_owner[p]
      BY <1>3, <2>2
    <3>2. ~e.used => page_owner[p] # h
      <4> SUFFICES ASSUME ~e.used, page_owner[p] = h PROVE FALSE
        OBVIOUS
      <4>1. k = 0
        OBVIOUS
      <4>2. p \in Run(f, n) /\ Run(f, k) = {}
        BY <1>1, <1>2, <4>1 DEF Run
      <4> QED BY <1>4, <2>2, <4>2
    <3> QED BY <1>9, <3>1, <3>2 DEF Tables
  <2> QED BY <2>1, <2>2
<1>12. used_pages' = Cardinality(InUse(page_owner'))
  <2>1. R \subseteq InUse(page_owner)
    BY <1>1, <1>5, NoOneIsNoHandle DEF InUse
  <2>2. InUse(page_owner') = InUse(page_owner) \ R
    BY <1>3 DEF InUse
  <2>3. InUse(page_owner) \subseteq Page
    BY DEF InUse
  <2>4. Cardinality(InUse(page_owner) \ R) = Cardinality(InUse(page_owner)) - (n - k)
    BY <1>5, <1>6, <2>1, <2>3, Counted DEF R
  <2> QED BY <2>2, <2>4 DEF Tables, n
<1> QED BY <1>7, <1>8, <1>10, <1>11, <1>12 DEF Tables

LEMMA ReleaseTables ==
  ASSUME Tables, NEW h \in H, f45_release(h)
  PROVE  Tables'
<1>1. h \in Used /\ eh[h] \in HandleType
  BY DEF f45_release, Tables
<1>2. Unused \in HandleType /\ ~Unused.used
  BY Sizes DEF Unused, HandleType
<1>3. eh[h].npages \in Nat /\ eh[h].first \in Nat
  BY <1>1, Sizes DEF HandleType
<1>4. /\ eh' = [eh EXCEPT ![h] = Unused]
      /\ page_owner' = Owned(Pages(h), NoOne) /\ used_pages' = used_pages - eh[h].npages
  BY DEF f45_release
<1>5. /\ Pages(h) = Run(eh[h].first + 0, eh[h].npages - 0)
      /\ eh[h].npages - 0 = eh[h].npages /\ 0 \in Nat /\ 0 <= eh[h].npages
  BY <1>3 DEF Pages
<1>6. /\ page_owner' = Owned(Run(eh[h].first + 0, eh[h].npages - 0), NoOne)
      /\ used_pages' = used_pages - (eh[h].npages - 0)
  BY <1>4, <1>5
<1> QED BY <1>1, <1>2, <1>4, <1>5, <1>6, FreedTables, Zenon

LEMMA ShrinkTables ==
  ASSUME Tables, NEW h \in H, NEW n \in 0..total_pages, f51_shrink(h, n)
  PROVE  Tables'
<1> DEFINE e == [eh[h] EXCEPT !.npages = n]
<1>1. h \in Used /\ eh[h] \in HandleType /\ n < eh[h].npages /\ n \in Nat
  BY Sizes DEF f51_shrink, Tables
<1>2. e \in HandleType /\ e.used /\ e.npages = n /\ e.first = eh[h].first
  BY <1>1 DEF HandleType, Used
<1>3. eh[h].npages \in Nat
  BY <1>1, Sizes DEF HandleType
<1>4. /\ eh' = [eh EXCEPT ![h] = e]
      /\ page_owner' = Owned(Run(eh[h].first + n, eh[h].npages - n), NoOne)
      /\ used_pages' = used_pages - (eh[h].npages - n)
  BY DEF f51_shrink, Tables
<1>5. n <= eh[h].npages
  BY <1>1, <1>3
<1> HIDE DEF e
<1> QED BY <1>1, <1>2, <1>4, <1>5, FreedTables, Zenon

\* 51h that grows: the new run is taken before the old one is given up.
LEMMA GrowTables ==
  ASSUME Tables, NEW h \in H, NEW n \in 0..total_pages, f51_grow(h, n)
  PROVE  Tables'
<1> DEFINE first == backing_alloc(n)
           R == Run(first, n)
           old == eh[h].npages
<1>1. h \in Used /\ eh[h] \in HandleType /\ n > old /\ n \in Nat /\ old \in Nat
  BY Sizes DEF f51_grow, Tables, HandleType
<1>2. first \in Page /\ \A p \in R : p \in Page /\ page_owner[p] = NoOne
  BY <1>1, AllocFits DEF f51_grow
<1>3. CASE UNCHANGED <<page_owner, used_pages, eh>>
  <2>1. Used' = Used /\ InUse(page_owner') = InUse(page_owner)
    BY <1>3 DEF Used, InUse
  <2>2. \A g \in Used : Pages(g)' = Pages(g)
    BY <1>3 DEF Pages
  <2> QED BY <1>3, <2>1, <2>2 DEF Tables
<1>4. CASE /\ page_owner' = [p \in Page |->
                IF p \in R THEN h ELSE IF p \in Pages(h) THEN NoOne ELSE page_owner[p]]
           /\ used_pages' = used_pages + (n - old)
           /\ eh' = [eh EXCEPT ![h].first = first, ![h].npages = n]
  <2>1. first \in Nat /\ first \in 0..total_pages
    BY <1>2, Sizes DEF Page
  <2>2. Pages(h) = {p \in Page : page_owner[p] = h} /\ h # NoOne
    BY <1>1, NoOneIsNoHandle DEF Tables
  <2>3. Pages(h) = Run(eh[h].first, old) /\ eh[h].first \in Nat
    BY <1>1, Sizes DEF Pages, HandleType
  <2> HIDE DEF first
  <2>4. eh' = [eh EXCEPT ![h] = [eh[h] EXCEPT !.first = first, !.npages = n]]
    BY <1>4 DEF Tables
  <2>5. [eh[h] EXCEPT !.first = first, !.npages = n] \in HandleType
    BY <1>1, <2>1 DEF HandleType
  <2>6. eh' \in [H -> HandleType] /\ Used' = Used
    BY <1>1, <2>4, <2>5 DEF Tables, Used, HandleType
  <2>7. page_owner' \in [Page -> H \cup {NoOne}]
    BY <1>4 DEF Tables
  <2>8. ASSUME NEW g \in Used' PROVE Pages(g)' = {p \in Page : page_owner'[p] = g}
    <3>1. g \in Used /\ g \in H /\ g # NoOne
      BY <2>6, <2>8, NoOneIsNoHandle DEF Used
    <3>2. CASE g = h
      <4>1. Pages(g)' = R
        BY <1>1, <2>4, <2>5, <3>2 DEF Pages, Tables, HandleType
      <4> HIDE DEF R
      <4>2. {p \in Page : page_owner'[p] = h} = R
        BY <1>2, <1>4, <2>2
      <4> QED BY <3>2, <4>1, <4>2
    <3>3. CASE g # h
      <4>1. Pages(g)' = Pages(g)
        BY <2>4, <3>1, <3>3 DEF Pages, Tables
      <4> HIDE DEF R
      <4>2. {p \in Page : page_owner'[p] = g} = {p \in Page : page_owner[p] = g}
        BY <1>2, <1>4, <2>2, <3>1, <3>3
      <4> QED BY <3>1, <4>1, <4>2 DEF Tables
    <3> QED BY <3>2, <3>3
  <2>9. \A p \in Page : page_owner'[p] \in Used' \cup {NoOne}
    BY <1>1, <1>4, <2>6 DEF Tables
  <2>10. used_pages' = Cardinality(InUse(page_owner'))
    <3> DEFINE S == InUse(page_owner)
               O == Run(eh[h].first, old)
    <3>1. /\ R \subseteq Page /\ R \cap S = {} /\ S \subseteq Page
          /\ O \subseteq S
      BY <1>2, <2>2, <2>3 DEF InUse
    <3>2. InUse(page_owner') = (S \cup R) \ O
      <4> HIDE DEF R
      <4> QED BY <1>4, <2>2, <2>3, <3>1 DEF InUse
    <3>3. Cardinality(S \cup R) = Cardinality(S) + n
      <4> HIDE DEF S
      <4> QED BY <1>1, <2>1, <3>1, Counted
    <3>4. Cardinality((S \cup R) \ O) = Cardinality(S \cup R) - old
      <4>1. S \cup R \subseteq Page /\ O \subseteq S \cup R /\ O \subseteq Page
        BY <3>1
      <4> HIDE DEF S, R
      <4> QED BY <1>1, <2>3, <4>1, Counted
    <3>5. Cardinality(S) \in Nat
      BY <3>1, PagesFinite, Sizes
    <3> HIDE DEF S, R, O
    <3>6. used_pages = Cardinality(S) /\ used_pages' = used_pages + (n - old)
      BY <1>4 DEF Tables, S
    <3>7. Cardinality(S) + (n - old) = (Cardinality(S) + n) - old
      BY <1>1, <3>5
    <3> QED BY <3>2, <3>3, <3>4, <3>6, <3>7
  <2> QED BY <2>6, <2>7, <2>8, <2>9, <2>10 DEF Tables
<1> QED BY <1>3, <1>4 DEF f51_grow

----------------------------------------------------------------------------
(* The memories of the mapping functions.                                  *)
(*                                                                         *)
(* A memory is faithful when its windows hold pages that their handles     *)
(* have and, unless a page was loaded twice, every page is in at most one  *)
(* window and reads as it did when the call began; provided that no page   *)
(* was dropped while a window held it.                                     *)

MemType == [map : [Window -> Entry], frame : [Window -> Content], store : [Page -> Content],
            ok : BOOLEAN, twice : BOOLEAN]

LivePages == {e \in H \X Page : Live(e)}
Address(e) == eh[e[1]].first + e[2]
Where(m, e) == {w \in Window : m.map[w] = e}
Told(m, e) == IF Where(m, e) # {} THEN m.frame[Lowest(Where(m, e))] ELSE m.store[Address(e)]

SameAs(m, c) == \A e \in LivePages : Told(m, e) = c[e]
Faithful(m, c) ==
  /\ ~DropMapped => \A w \in Window : m.map[w] # EMS_UNMAPPED => m.map[w] \in LivePages
  /\ ~DropMapped /\ ~m.twice => Single(m.map) /\ SameAs(m, c)

LEMMA NoEntry == \A e \in H \X Page : e # EMS_UNMAPPED
BY DEF EMS_UNMAPPED

\* Two logical pages are two backing pages.
LEMMA Addresses ==
  ASSUME Tables
  PROVE  /\ \A e \in LivePages : Address(e) \in Page
         /\ \A e, d \in LivePages : e # d => Address(e) # Address(d)
<1>1. ASSUME NEW e \in LivePages
      PROVE  /\ Address(e) \in Page /\ page_owner[Address(e)] = e[1]
             /\ e[2] \in Int /\ eh[e[1]].first \in Int /\ e = <<e[1], e[2]>>
  <2>1. e[1] \in Used /\ e[2] \in Nat /\ e[2] < eh[e[1]].npages /\ e = <<e[1], e[2]>>
    BY DEF LivePages, Live, Used, Page
  <2>2. eh[e[1]].first \in Nat /\ eh[e[1]].npages \in Nat
    BY <2>1, Sizes DEF Tables, HandleType, Used
  <2>3. Address(e) \in Pages(e[1])
    BY <2>1, <2>2 DEF Address, Pages, Run
  <2> QED BY <2>1, <2>2, <2>3 DEF Tables
<1>2. ASSUME NEW e \in LivePages, NEW d \in LivePages, Address(e) = Address(d)
      PROVE  e = d
  <2>1. e[1] = d[1]
    BY <1>1, <1>2
  <2>2. e[2] = d[2]
    BY <1>1, <1>2, <2>1 DEF Address
  <2> QED BY <1>1, <2>1, <2>2
<1> QED BY <1>1, <1>2

\* Where a page reads from.
LEMMA ToldShown ==
  ASSUME NEW m \in MemType, Single(m.map), NEW w \in Window, m.map[w] # EMS_UNMAPPED
  PROVE  Told(m, m.map[w]) = m.frame[w]
<1> DEFINE e == m.map[w]
<1>1. Where(m, e) = {w}
  <2>1. \A v \in Window : m.map[v] = e => v = w
    BY DEF Single
  <2> QED BY <2>1 DEF Where
<1>2. Lowest({w}) = w
  <2>1. \E x \in {w} : \A y \in {w} : x <= y
    BY DEF Window
  <2> QED BY <2>1 DEF Lowest
<1> HIDE DEF e
<1> QED BY <1>1, <1>2 DEF Told, e

LEMMA ToldStored ==
  ASSUME NEW m, NEW e, \A w \in Window : m.map[w] # e
  PROVE  Told(m, e) = m.store[Address(e)]
<1>1. Where(m, e) = {}
  BY DEF Where
<1> QED BY <1>1 DEF Told

\* The cases of a page in a faithful memory: in one window, or stored.
LEMMA ToldCases ==
  ASSUME NEW m \in MemType, Single(m.map), NEW e \in LivePages
  PROVE  \/ \E w \in Window : m.map[w] = e /\ Told(m, e) = m.frame[w]
         \/ (\A w \in Window : m.map[w] # e) /\ Told(m, e) = m.store[Address(e)]
<1>1. e # EMS_UNMAPPED
  BY NoEntry DEF LivePages
<1>2. CASE \E w \in Window : m.map[w] = e
  BY <1>1, <1>2, ToldShown
<1>3. CASE \A w \in Window : m.map[w] # e
  BY <1>3, ToldStored
<1> QED BY <1>2, <1>3

\* Writing a window back keeps the memory faithful, whether it succeeds or not.
LEMMA FlushFaithful ==
  ASSUME Tables, NEW m \in MemType, NEW c, Faithful(m, c), NEW w \in Window,
         NEW f \in phys_flush(m, w)
  PROVE  /\ f \in MemType /\ Faithful(f, c) /\ f.twice = m.twice
         /\ f.ok => f.map[w] = EMS_UNMAPPED
<1> DEFINE bp == Address(m.map[w])
<1>1. CASE m.map[w] = EMS_UNMAPPED
  BY <1>1 DEF phys_flush
<1>2. CASE m.map[w] # EMS_UNMAPPED
  <2>1. ~DropMapped => m.map[w] \in LivePages
    BY <1>2 DEF Faithful
  <2>2. ~DropMapped => bp \in Page
    BY <2>1, Addresses
  <2>3. m.frame[w] \in Content /\ Junk \in Content /\ EMS_UNMAPPED \in Entry
        /\ \A p \in Page : m.store[p] \in Content
    BY DEF MemType, Content, Entry
  <2>4. CASE f = [m EXCEPT !.store = [p \in Page |-> IF p = bp THEN m.frame[w] ELSE @[p]],
                           !.map[w] = EMS_UNMAPPED]
    <3>1. /\ f \in MemType /\ f.twice = m.twice /\ f.frame = m.frame
          /\ f.map = [m.map EXCEPT ![w] = EMS_UNMAPPED]
          /\ f.store = [p \in Page |-> IF p = bp THEN m.frame[w] ELSE m.store[p]]
      <4> HIDE DEF bp
      <4> QED BY <2>3, <2>4 DEF MemType
    <3>2. /\ f.map[w] = EMS_UNMAPPED
          /\ \A v \in Window : v # w => f.map[v] = m.map[v]
      BY <3>1 DEF MemType
    <3>3. ASSUME ~DropMapped, Single(m.map), SameAs(m, c) PROVE Single(f.map) /\ SameAs(f, c)
      <4>1. Single(f.map)
        BY <3>2, <3>3 DEF Single
      <4>2. ASSUME NEW e \in LivePages PROVE Told(f, e) = c[e]
        <5>1. e # EMS_UNMAPPED /\ Address(e) \in Page
          BY NoEntry, Addresses DEF LivePages
        <5>2. CASE e = m.map[w]
          <6>1. \A v \in Window : f.map[v] # e
            BY <1>2, <3>2, <3>3, <5>1, <5>2 DEF Single
          <6>2. Told(f, e) = m.frame[w]
            <7>1. Told(f, e) = f.store[Address(e)]
              BY <6>1, ToldStored
            <7> QED BY <2>2, <3>1, <3>3, <5>2, <7>1
          <6> QED BY <1>2, <3>3, <5>2, <6>2, ToldShown DEF SameAs
        <5>3. CASE e # m.map[w]
          <6>1. Address(e) # bp
            BY <2>1, <3>3, <5>3, Addresses
          <6>2. CASE \E v \in Window : m.map[v] = e /\ Told(m, e) = m.frame[v]
            <7>1. PICK v \in Window : m.map[v] = e /\ Told(m, e) = m.frame[v]
              BY <6>2
            <7>2. f.map[v] = e
              BY <3>2, <5>3, <7>1
            <7>3. Told(f, e) = f.frame[v]
              BY <3>1, <4>1, <5>1, <7>2, ToldShown
            <7> QED BY <3>1, <3>3, <7>1, <7>3 DEF SameAs
          <6>3. CASE (\A v \in Window : m.map[v] # e) /\ Told(m, e) = m.store[Address(e)]
            <7>1. \A v \in Window : f.map[v] # e
              BY <3>2, <5>1, <6>3
            <7>2. Told(f, e) = f.store[Address(e)]
              BY <7>1, ToldStored
            <7>3. f.store[Address(e)] = m.store[Address(e)]
              BY <3>1, <5>1, <6>1
            <7> QED BY <3>3, <6>3, <7>2, <7>3 DEF SameAs
          <6> QED BY <3>3, <6>2, <6>3, ToldCases
        <5> QED BY <5>2, <5>3
      <4> QED BY <4>1, <4>2 DEF SameAs
    <3>4. ~DropMapped => \A v \in Window : f.map[v] # EMS_UNMAPPED => f.map[v] \in LivePages
      BY <3>2 DEF Faithful
    <3> QED BY <3>1, <3>2, <3>3, <3>4 DEF Faithful
  <2>5. CASE \E x \in {Junk} \cup {m.store[p] : p \in Page \cap {bp}} :
               f = [m EXCEPT !.store = [p \in Page |-> IF p = bp THEN x ELSE @[p]], !.ok = FALSE]
    <3>1. PICK x \in {Junk} \cup {m.store[p] : p \in Page \cap {bp}} :
               f = [m EXCEPT !.store = [p \in Page |-> IF p = bp THEN x ELSE @[p]], !.ok = FALSE]
      BY <2>5
    <3>2. x \in Content
      BY <2>3
    <3>3. /\ f \in MemType /\ f.twice = m.twice /\ f.frame = m.frame /\ f.map = m.map /\ ~f.ok
          /\ f.store = [p \in Page |-> IF p = bp THEN x ELSE m.store[p]]
      <4> HIDE DEF bp
      <4> QED BY <2>3, <3>1, <3>2 DEF MemType
    <3>4. ASSUME ~DropMapped, Single(m.map), SameAs(m, c) PROVE SameAs(f, c)
      <4> SUFFICES ASSUME NEW e \in LivePages PROVE Told(f, e) = c[e]
        BY DEF SameAs
      <4>1. e # EMS_UNMAPPED /\ Address(e) \in Page
        BY NoEntry, Addresses DEF LivePages
      <4>2. CASE \E v \in Window : m.map[v] = e /\ Told(m, e) = m.frame[v]
        <5>1. PICK v \in Window : m.map[v] = e /\ Told(m, e) = m.frame[v]
          BY <4>2
        <5>2. Told(f, e) = f.frame[v]
          BY <3>3, <3>4, <4>1, <5>1, ToldShown
        <5> QED BY <3>3, <3>4, <5>1, <5>2 DEF SameAs
      <4>3. CASE (\A v \in Window : m.map[v] # e) /\ Told(m, e) = m.store[Address(e)]
        <5>1. Told(f, e) = f.store[Address(e)]
          BY <3>3, <4>3, ToldStored
        <5>2. Address(e) # bp
          BY <2>1, <3>4, <4>3, Addresses
        <5>3. f.store[Address(e)] = m.store[Address(e)]
          BY <3>3, <4>1, <5>2
        <5> QED BY <3>4, <4>3, <5>1, <5>3 DEF SameAs
      <4> QED BY <3>4, <4>2, <4>3, ToldCases
    <3> QED BY <3>3, <3>4 DEF Faithful
  <2> QED BY <1>2, <2>4, <2>5 DEF phys_flush, Address
<1> QED BY <1>1, <1>2

\* So does loading a page into a window that is empty.
LEMMA LoadFaithful ==
  ASSUME Tables, NEW f \in MemType, NEW c, Faithful(f, c), NEW w \in Window,
         f.map[w] = EMS_UNMAPPED, NEW e \in LivePages, NEW m \in Load(f, e, w)
  PROVE  m \in MemType /\ Faithful(m, c)
<1> DEFINE held == \E v \in Window \ {w} : f.map[v] = e
           x == f.store[Address(e)]
<1>1. Address(e) \in Page /\ e \in Entry /\ e # EMS_UNMAPPED
  BY Addresses, NoEntry DEF LivePages, Entry
<1>2. x \in Content /\ Junk \in Content
  BY <1>1 DEF MemType, Content
<1>3. f.map[w] # e
  BY <1>1
<1>4. CASE m = [f EXCEPT !.map[w] = e, !.frame[w] = x, !.twice = @ \/ held]
  <2>1. /\ m \in MemType /\ m.store = f.store /\ (m.twice <=> f.twice \/ held)
        /\ m.map = [f.map EXCEPT ![w] = e] /\ m.frame = [f.frame EXCEPT ![w] = x]
    <3> HIDE DEF held, x
    <3> QED BY <1>1, <1>2, <1>4 DEF MemType
  <2>2. /\ m.map[w] = e /\ m.frame[w] = x
        /\ \A v \in Window : v # w => m.map[v] = f.map[v] /\ m.frame[v] = f.frame[v]
    <3> HIDE DEF x
    <3> QED BY <2>1 DEF MemType
  <2>3. ~DropMapped => \A v \in Window : m.map[v] # EMS_UNMAPPED => m.map[v] \in LivePages
    BY <2>2 DEF Faithful
  <2>4. ASSUME ~DropMapped, ~m.twice PROVE Single(m.map) /\ SameAs(m, c)
    <3>1. /\ Single(f.map) /\ SameAs(f, c)
          /\ \A v \in Window : f.map[v] # e
      BY <1>3, <2>1, <2>4 DEF Faithful
    <3>2. Single(m.map)
      BY <2>2, <3>1 DEF Single
    <3>3. ASSUME NEW d \in LivePages PROVE Told(m, d) = c[d]
      <4>1. d # EMS_UNMAPPED
        BY NoEntry DEF LivePages
      <4>2. CASE d = e
        <5>1. Told(m, d) = x
          BY <1>1, <2>2, <3>2, <4>2, <2>1, ToldShown
        <5>2. Told(f, d) = x
          BY <3>1, <4>2, ToldStored
        <5> QED BY <3>1, <5>1, <5>2 DEF SameAs
      <4>3. CASE d # e /\ \E v \in Window : f.map[v] = d /\ Told(f, d) = f.frame[v]
        <5>1. PICK v \in Window : f.map[v] = d /\ Told(f, d) = f.frame[v]
          BY <4>3
        <5>2. v # w
          BY <4>1, <5>1
        <5>3. m.map[v] = d
          BY <2>2, <5>1, <5>2
        <5>4. Told(m, d) = m.frame[v]
          BY <2>1, <3>2, <4>1, <5>3, ToldShown
        <5> QED BY <2>2, <3>1, <5>1, <5>2, <5>4 DEF SameAs
      <4>4. CASE d # e /\ (\A v \in Window : f.map[v] # d) /\ Told(f, d) = f.store[Address(d)]
        <5>1. \A v \in Window : m.map[v] # d
          BY <2>2, <4>4
        <5>2. Told(m, d) = m.store[Address(d)]
          BY <5>1, ToldStored
        <5> QED BY <2>1, <3>1, <4>4, <5>2 DEF SameAs
      <4> QED BY <3>1, <4>2, <4>3, <4>4, ToldCases
    <3> QED BY <3>2, <3>3 DEF SameAs
  <2> QED BY <2>1, <2>3, <2>4 DEF Faithful
<1>5. CASE \/ m = [f EXCEPT !.ok = FALSE, !.twice = @ \/ held]
           \/ m = [[f EXCEPT !.ok = FALSE, !.twice = @ \/ held] EXCEPT !.frame[w] = Junk]
  <2>1. /\ m \in MemType /\ m.store = f.store /\ (m.twice <=> f.twice \/ held)
        /\ m.map = f.map
        /\ \A v \in Window : v # w => m.frame[v] = f.frame[v]
    <3> HIDE DEF held
    <3>1. CASE m = [f EXCEPT !.ok = FALSE, !.twice = @ \/ held]
      BY <3>1 DEF MemType
    <3>2. CASE m = [[f EXCEPT !.ok = FALSE, !.twice = @ \/ held] EXCEPT !.frame[w] = Junk]
      <4>1. m.frame = [f.frame EXCEPT ![w] = Junk]
        BY <3>2 DEF MemType
      <4>2. m.frame \in [Window -> Content]
        BY <1>2, <4>1 DEF MemType
      <4> DEFINE b == f.twice \/ held
      <4>3. m = [map |-> f.map, frame |-> m.frame, store |-> f.store, ok |-> FALSE, twice |-> b]
        BY <3>2, <4>1 DEF MemType
      <4>4. b \in BOOLEAN /\ (b <=> f.twice \/ held)
        BY Zenon
      <4> HIDE DEF b
      <4>5. m.map = f.map /\ m.store = f.store /\ m.twice = b /\ m.ok = FALSE
        BY <4>3
      <4>6. m \in MemType
        <5>1. PICK g : g = m.frame
          OBVIOUS
        <5>2. m = [map |-> f.map, frame |-> g, store |-> f.store, ok |-> FALSE, twice |-> b]
          BY <4>3, <5>1
        <5>3. /\ f.map \in [Window -> Entry] /\ f.store \in [Page -> Content]
              /\ g \in [Window -> Content]
          BY <4>2, <5>1 DEF MemType
        <5> QED BY <4>4, <5>2, <5>3 DEF MemType
      <4> QED BY <4>1, <4>4, <4>5, <4>6 DEF MemType
    <3> QED BY <1>5, <3>1, <3>2
  <2>2. ~DropMapped => \A v \in Window : m.map[v] # EMS_UNMAPPED => m.map[v] \in LivePages
    BY <2>1 DEF Faithful
  <2>3. ASSUME ~DropMapped, ~m.twice PROVE Single(m.map) /\ SameAs(m, c)
    <3>1. Single(f.map) /\ SameAs(f, c) /\ Single(m.map)
      BY <2>1, <2>3 DEF Faithful
    <3>2. ASSUME NEW d \in LivePages PROVE Told(m, d) = c[d]
      <4>1. d # EMS_UNMAPPED
        BY NoEntry DEF LivePages
      <4>2. CASE \E v \in Window : f.map[v] = d /\ Told(f, d) = f.frame[v]
        <5>1. PICK v \in Window : f.map[v] = d /\ Told(f, d) = f.frame[v]
          BY <4>2
        <5>2. v # w
          BY <4>1, <5>1
        <5>3. Told(m, d) = m.frame[v]
          BY <2>1, <3>1, <4>1, <5>1, ToldShown
        <5> QED BY <2>1, <3>1, <5>1, <5>2, <5>3 DEF SameAs
      <4>3. CASE (\A v \in Window : f.map[v] # d) /\ Told(f, d) = f.store[Address(d)]
        <5>1. Told(m, d) = m.store[Address(d)]
          BY <2>1, <4>3, ToldStored
        <5> QED BY <2>1, <3>1, <4>3, <5>1 DEF SameAs
      <4> QED BY <3>1, <4>2, <4>3, ToldCases
    <3> QED BY <3>1, <3>2 DEF SameAs
  <2> QED BY <2>1, <2>2, <2>3 DEF Faithful
<1>6. \/ m = [f EXCEPT !.map[w] = e, !.frame[w] = x, !.twice = @ \/ held]
      \/ m = [f EXCEPT !.ok = FALSE, !.twice = @ \/ held]
      \/ m = [[f EXCEPT !.ok = FALSE, !.twice = @ \/ held] EXCEPT !.frame[w] = Junk]
  BY DEF Load, Address
<1> QED BY <1>4, <1>5, <1>6

\* One window is mapped.
Asked == Entry \cup {Bad}

LEMMA MapFaithful ==
  ASSUME Tables, NEW m \in MemType, NEW c, Faithful(m, c), NEW w \in Window,
         NEW e \in Asked, NEW r \in map_page(m, e, w)
  PROVE  r \in MemType /\ Faithful(r, c)
<1>1. Live(e) => e \in LivePages
  <2> SUFFICES ASSUME Live(e) PROVE e \in H \X Page
    BY DEF LivePages
  <2>1. CASE e = Bad
    <3>1. 0 \in H /\ e[1] = 0 /\ e[2] = total_pages
      BY <2>1, EmsAssumption DEF H, Bad
    <3>2. eh[0].npages \in 0..total_pages
      BY <3>1 DEF Tables, HandleType
    <3> QED BY <3>1, <3>2, Sizes DEF Live
  <2>2. CASE e \in Entry
    BY <2>2 DEF Entry, Live
  <2> QED BY <2>1, <2>2 DEF Asked
<1>2. CASE r = m
  BY <1>2
<1>3. CASE r \in phys_flush(m, w)
  BY <1>3, FlushFaithful
<1>4. CASE r = [m EXCEPT !.ok = FALSE]
  <2>1. r \in MemType /\ r.map = m.map /\ r.frame = m.frame /\ r.store = m.store /\ r.twice = m.twice
    BY <1>4 DEF MemType
  <2>2. \A d \in LivePages : Told(r, d) = Told(m, d)
    BY <2>1 DEF Told, Where
  <2> QED BY <2>1, <2>2 DEF Faithful, SameAs
<1>5. CASE Live(e) /\ r \in UNION {IF f.ok THEN Load(f, e, w) ELSE {f} : f \in phys_flush(m, w)}
  <2>1. PICK f \in phys_flush(m, w) : r \in IF f.ok THEN Load(f, e, w) ELSE {f}
    BY <1>5
  <2>2. f \in MemType /\ Faithful(f, c) /\ (f.ok => f.map[w] = EMS_UNMAPPED)
    BY FlushFaithful
  <2>3. CASE f.ok
    BY <1>1, <1>5, <2>1, <2>2, <2>3, LoadFaithful
  <2>4. CASE ~f.ok
    BY <2>1, <2>2, <2>4
  <2> QED BY <2>3, <2>4
<1>6. \/ r = m \/ r \in phys_flush(m, w) \/ r = [m EXCEPT !.ok = FALSE]
      \/ Live(e) /\ r \in UNION {IF f.ok THEN Load(f, e, w) ELSE {f} : f \in phys_flush(m, w)}
  <2>1. CASE ~m.ok
    BY <2>1 DEF map_page
  <2>2. CASE m.ok /\ e = EMS_UNMAPPED
    BY <2>2 DEF map_page
  <2>3. CASE m.ok /\ e # EMS_UNMAPPED /\ ~Live(e)
    BY <2>3 DEF map_page
  <2>4. CASE m.ok /\ Live(e) /\ m.map[w] = e
    BY <2>4 DEF map_page, Live
  <2>5. CASE m.ok /\ Live(e) /\ m.map[w] # e
    BY <2>5 DEF map_page, Live
  <2> QED BY <2>1, <2>2, <2>3, <2>4, <2>5
<1> QED BY <1>2, <1>3, <1>4, <1>5, <1>6

----------------------------------------------------------------------------
(* A whole map, window by window.                                          *)

Good(c) == {m \in MemType : Faithful(m, c)}

\* What is computed window by window by the recursive function of MapAll.
Upto(to) ==
  LET upto[w \in 0..NWindows] ==
        IF w = 0 THEN {Memory}
        ELSE UNION {map_page(m, to[w - 1], w - 1) : m \in upto[w - 1]}
  IN upto

LEMMA UptoSteps ==
  ASSUME Tables, NEW c, Memory \in Good(c), NEW to \in [Window -> Asked]
  PROVE  /\ Upto(to)[0] = {Memory}
         /\ \A w \in 1..NWindows :
              Upto(to)[w] = UNION {map_page(m, to[w - 1], w - 1) : m \in Upto(to)[w - 1]}
<1> DEFINE S == SUBSET Good(c)
           step(w, X) == UNION {map_page(m, to[w - 1], w - 1) : m \in X}
           g == [w \in 1..NWindows |-> [X \in S |-> step(w, X)]]
<1>1. ASSUME NEW w \in 1..NWindows, NEW X \in S PROVE step(w, X) \in S
  <2>1. w - 1 \in Window
    BY Sizes DEF Window
  <2>2. to[w - 1] \in Asked
    BY <2>1
  <2>3. ASSUME NEW m \in X, NEW r \in map_page(m, to[w - 1], w - 1) PROVE r \in Good(c)
    <3>1. m \in MemType /\ Faithful(m, c)
      BY DEF Good
    <3> QED BY <2>1, <2>2, <2>3, <3>1, MapFaithful DEF Good
  <2> QED BY <2>3
<1>2. {Memory} \in S
  OBVIOUS
<1>3. g \in [1..NWindows -> [S -> S]]
  <2> HIDE DEF step, S
  <2> QED BY <1>1
<1> HIDE DEF S, g
<1>4. PICK f \in [0..NWindows -> S] :
        Lists(f, {Memory}, g, NWindows)
  <2>1. NWindows \in Nat
    BY Sizes
  <2> QED BY <1>2, <1>3, <2>1, RepeatedSteps, Zenon
<1>5. \A w \in 1..NWindows : f[w] = step(w, f[w - 1])
  <2> TAKE w \in 1..NWindows
  <2>1. w - 1 \in 0..NWindows
    BY Sizes
  <2>2. f[w - 1] \in S
    BY <2>1, <1>4
  <2> HIDE DEF step
  <2> QED BY <1>4, <2>2 DEF g, Lists
<1>6. f = [w \in 0..NWindows |-> IF w = 0 THEN {Memory} ELSE step(w, f[w - 1])]
  <2>1. \A w \in 0..NWindows : w = 0 \/ w \in 1..NWindows
    BY Sizes
  <2> HIDE DEF step
  <2> QED BY <1>4, <1>5, <2>1 DEF Lists
<1>7. Upto(to) = [w \in 0..NWindows |->
                    IF w = 0 THEN {Memory} ELSE step(w, Upto(to)[w - 1])]
  <2>1. Upto(to) = CHOOSE u : u = [w \in 0..NWindows |->
                    IF w = 0 THEN {Memory} ELSE step(w, u[w - 1])]
    BY DEF Upto
  <2> HIDE DEF step
  <2> QED BY <1>6, <2>1
<1>8. 0 \in 0..NWindows /\ \A w \in 1..NWindows : w \in 0..NWindows /\ w # 0
  BY Sizes
<1> HIDE DEF step
<1>9. Upto(to)[0] = {Memory} /\ \A w \in 1..NWindows : Upto(to)[w] = step(w, Upto(to)[w - 1])
  BY <1>7, <1>8
<1> QED BY <1>9 DEF step

\* Whatever the windows are asked for, the memory stays faithful.
LEMMA MapAllFaithful ==
  ASSUME Tables, NEW c, Memory \in Good(c), NEW to \in [Window -> Asked], NEW m \in MapAll(to)
  PROVE  m \in Good(c)
<1> DEFINE U == Upto(to)
           Wrong == {w \in Nat : w <= NWindows /\ ~(U[w] \subseteq Good(c))}
<1>1. /\ U[0] = {Memory}
      /\ \A w \in 1..NWindows : U[w] = UNION {map_page(n, to[w - 1], w - 1) : n \in U[w - 1]}
  BY UptoSteps
<1> HIDE DEF U
<1>2. Wrong = {}
  <2> SUFFICES ASSUME Wrong # {} PROVE FALSE
    OBVIOUS
  <2>1. PICK w \in Wrong : \A v \in Wrong : w <= v
    BY NatLeast
  <2>2. w \in Nat /\ w <= NWindows /\ ~(U[w] \subseteq Good(c))
    BY <2>1
  <2>3. w # 0
    BY <1>1, <2>2
  <2>4. w - 1 \in Nat /\ w - 1 <= NWindows /\ w \in 1..NWindows /\ w - 1 \in Window /\ w - 1 < w
    BY <2>2, <2>3, Sizes DEF Window
  <2>5. w - 1 \notin Wrong
    <3>1. w - 1 \in Wrong => w <= w - 1
      BY <2>1
    <3> HIDE DEF Wrong
    <3> QED BY <2>2, <3>1
  <2>6. U[w - 1] \subseteq Good(c)
    BY <2>4, <2>5
  <2>7. ASSUME NEW n \in U[w - 1], NEW r \in map_page(n, to[w - 1], w - 1)
        PROVE  r \in Good(c)
    <3>1. n \in MemType /\ Faithful(n, c) /\ to[w - 1] \in Asked
      BY <2>4, <2>6 DEF Good
    <3> QED BY <2>4, <2>7, <3>1, MapFaithful DEF Good
  <2> QED BY <1>1, <2>2, <2>4, <2>7
<1>3. m \in U[NWindows]
  <2>1. MapAll(to) = Upto(to)[NWindows]
    BY Zenon DEF MapAll, Upto
  <2> QED BY <2>1 DEF U
<1>4. NWindows \notin Wrong
  BY <1>2
<1> QED BY <1>3, <1>4, Sizes

----------------------------------------------------------------------------
(* The map, the saved maps and the memories.                               *)

Maps ==
  /\ cur_map \in [Window -> Entry]
  /\ saved_map \in [H -> {NotSaved} \cup [Window -> Entry]]
  /\ frame \in [Window -> Content]
  /\ store \in [Page -> Content]
  /\ Single(cur_map)
  /\ ~DropMapped => MapsLive

\* What the pages hold before a call maps anything.
Before == [e \in LivePages |-> Told(Memory, e)]

LEMMA InitMaps == ems_init => Maps
<1> SUFFICES ASSUME ems_init PROVE Maps
  OBVIOUS
<1>1. /\ cur_map = [w \in Window |-> EMS_UNMAPPED] /\ saved_map = [h \in H |-> NotSaved]
      /\ frame = [w \in Window |-> Junk] /\ store = [p \in Page |-> Junk]
  BY DEF ems_init
<1>2. EMS_UNMAPPED \in Entry /\ Junk \in Content
  BY DEF Entry, Content
<1> QED BY <1>1, <1>2 DEF Maps, MapsLive, Single

\* The memory that a mapping call starts from is faithful.
LEMMA MemoryGood ==
  ASSUME Maps
  PROVE  Memory \in Good(Before)
<1>1. Memory \in MemType /\ Memory.map = cur_map /\ ~Memory.twice
  BY DEF Memory, MemType, Maps
<1>2. ~DropMapped => \A w \in Window : cur_map[w] # EMS_UNMAPPED => cur_map[w] \in LivePages
  BY DEF Maps, MapsLive, LivePages, Entry
<1>3. SameAs(Memory, Before)
  BY DEF SameAs, Before
<1>4. Single(cur_map)
  BY DEF Maps
<1> QED BY <1>1, <1>2, <1>3, <1>4 DEF Good, Faithful

\* What a mapping call leaves behind.
LEMMA BecomesMaps ==
  ASSUME Tables, Maps, NEW m \in Good(Before), Becomes(m),
         saved_map' \in [H -> {NotSaved} \cup [Window -> Entry]]
  PROVE  Tables' /\ Maps'
<1>1. /\ cur_map' = m.map /\ frame' = m.frame /\ store' = m.store /\ Single(m.map)
      /\ UNCHANGED <<eh, page_owner, used_pages>>
  BY DEF Becomes, Harmless
<1>2. Tables'
  BY <1>1 DEF Tables, Used, Pages
<1>3. m \in MemType /\ Faithful(m, Before)
  BY DEF Good
<1>4. ~DropMapped => MapsLive'
  <2> SUFFICES ASSUME ~DropMapped, NEW w \in Window, m.map[w] # EMS_UNMAPPED
               PROVE  Live(m.map[w])'
    BY <1>1 DEF MapsLive, Live
  <2>1. Live(m.map[w])
    BY <1>3 DEF Faithful, LivePages
  <2> QED BY <1>1, <2>1 DEF Live
<1>5. /\ cur_map' \in [Window -> Entry] /\ frame' \in [Window -> Content]
      /\ store' \in [Page -> Content] /\ Single(cur_map)'
  BY <1>1, <1>3 DEF MemType, Single
<1> QED BY <1>2, <1>4, <1>5 DEF Maps

\* The memories of the calls that map.
LEMMA MappedGood ==
  ASSUME Tables, Maps, NEW h \in H, NEW l \in Page \cup {total_pages}, NEW w \in Window,
         NEW m \in map_page(Memory, IF l \in Page THEN <<h, l>> ELSE EMS_UNMAPPED, w)
  PROVE  m \in Good(Before)
<1>1. (IF l \in Page THEN <<h, l>> ELSE EMS_UNMAPPED) \in Asked
  BY DEF Asked, Entry
<1>2. Memory \in MemType /\ Faithful(Memory, Before)
  BY MemoryGood DEF Good
<1>3. m \in MemType /\ Faithful(m, Before)
  BY <1>1, <1>2, MapFaithful
<1> QED BY <1>3 DEF Good

LEMMA RestoredGood ==
  ASSUME Tables, Maps, NEW h \in H, saved_map[h] # NotSaved, NEW m \in MapAll(saved_map[h])
  PROVE  m \in Good(Before)
<1>1. saved_map[h] \in [Window -> Asked]
  BY DEF Maps, Asked
<1> QED BY <1>1, MemoryGood, MapAllFaithful

LEMMA SetGood ==
  ASSUME Tables, Maps,
         NEW to \in [Window -> {EMS_UNMAPPED, Bad} \cup {e \in H \X Page : Live(e)}],
         NEW m \in MapAll(to)
  PROVE  m \in Good(Before)
<1>1. to \in [Window -> Asked]
  BY DEF Asked, Entry
<1> QED BY <1>1, MemoryGood, MapAllFaithful

----------------------------------------------------------------------------
(* The EMS calls, one by one.                                              *)

LEMMA AllocMaps ==
  ASSUME Tables, Maps, NEW n \in 1..total_pages, f43_alloc(n)
  PROVE  Maps'
<1> DEFINE h == Lowest(H \ Used)
<1>1. h \in H /\ h \notin Used
  BY LowestHandle DEF f43_alloc
<1>2. /\ \A g \in H : g # h => eh'[g] = eh[g]
      /\ saved_map' = [saved_map EXCEPT ![h] = NotSaved]
      /\ UNCHANGED <<cur_map, frame, store>>
  BY DEF f43_alloc, Tables
<1> HIDE DEF h
<1>3. \A e \in H \X Page : Live(e) => Live(e)'
  BY <1>1, <1>2 DEF Live, Used
<1>4. ~DropMapped => MapsLive'
  BY <1>2, <1>3 DEF Maps, MapsLive, Entry
<1>5. saved_map' \in [H -> {NotSaved} \cup [Window -> Entry]]
  BY <1>1, <1>2 DEF Maps
<1> QED BY <1>2, <1>4, <1>5 DEF Maps, Single

LEMMA MapCallMaps ==
  ASSUME Tables, Maps, NEW h \in H, NEW l \in Page \cup {total_pages}, NEW w \in Window,
         f44_map(h, l, w)
  PROVE  Tables' /\ Maps'
<1>1. PICK m \in map_page(Memory, IF l \in Page THEN <<h, l>> ELSE EMS_UNMAPPED, w) : Becomes(m)
  BY DEF f44_map
<1>2. m \in Good(Before)
  BY MappedGood
<1>3. saved_map' \in [H -> {NotSaved} \cup [Window -> Entry]]
  BY DEF f44_map, Maps
<1> QED BY <1>1, <1>2, <1>3, BecomesMaps

LEMMA ReleaseMaps ==
  ASSUME Tables, Maps, NEW h \in H, f45_release(h)
  PROVE  Maps'
<1>1. /\ cur_map' = Dropped(h) /\ UNCHANGED <<frame, store>>
      /\ eh' = [eh EXCEPT ![h] = Unused]
      /\ saved_map' = [saved_map EXCEPT ![h] = NotSaved]
  BY DEF f45_release
<1>2. \A g \in H : g # h => eh'[g] = eh[g]
  BY <1>1 DEF Tables
<1>3. /\ cur_map' \in [Window -> Entry]
      /\ \A w \in Window : cur_map'[w] # EMS_UNMAPPED => cur_map'[w] = cur_map[w] /\ cur_map[w][1] # h
  BY <1>1 DEF Dropped, Maps, Entry
<1>4. Single(cur_map)'
  BY <1>3 DEF Single, Maps
<1>5. ~DropMapped => MapsLive'
  <2> SUFFICES ASSUME ~DropMapped, NEW w \in Window, cur_map'[w] # EMS_UNMAPPED
               PROVE  Live(cur_map[w])'
    BY DEF MapsLive
  <2>1. cur_map'[w] = cur_map[w] /\ cur_map[w][1] # h /\ cur_map[w] \in Entry
        /\ cur_map[w] # EMS_UNMAPPED /\ Live(cur_map[w])
    BY <1>3 DEF Maps, MapsLive
  <2>2. cur_map[w][1] \in H
    BY <2>1 DEF Entry
  <2> QED BY <1>2, <2>1, <2>2 DEF Live
<1>6. saved_map' \in [H -> {NotSaved} \cup [Window -> Entry]]
  BY <1>1 DEF Maps
<1> QED BY <1>1, <1>3, <1>4, <1>5, <1>6 DEF Maps

LEMMA SaveMaps ==
  ASSUME Maps, NEW h \in H, f47_save(h)
  PROVE  Maps'
<1>1. saved_map' = [saved_map EXCEPT ![h] = cur_map] /\ UNCHANGED <<eh, cur_map, frame, store>>
  BY DEF f47_save
<1>2. saved_map' \in [H -> {NotSaved} \cup [Window -> Entry]]
  BY <1>1 DEF Maps
<1>3. MapsLive => MapsLive'
  BY <1>1 DEF MapsLive, Live
<1> QED BY <1>1, <1>2, <1>3 DEF Maps, Single

LEMMA RestoreMaps ==
  ASSUME Tables, Maps, NEW h \in H, f48_restore(h)
  PROVE  Tables' /\ Maps'
<1>1. PICK m \in MapAll(saved_map[h]) :
        /\ Becomes(m)
        /\ saved_map' = IF m.ok THEN [saved_map EXCEPT ![h] = NotSaved] ELSE saved_map
  BY DEF f48_restore
<1>2. m \in Good(Before)
  BY RestoredGood DEF f48_restore
<1>3. saved_map' \in [H -> {NotSaved} \cup [Window -> Entry]]
  BY <1>1 DEF Maps
<1> QED BY <1>1, <1>2, <1>3, BecomesMaps

LEMMA SetMaps ==
  ASSUME Tables, Maps,
         NEW to \in [Window -> {EMS_UNMAPPED, Bad} \cup {e \in H \X Page : Live(e)}], f4e_set(to)
  PROVE  Tables' /\ Maps'
<1>1. PICK m \in MapAll(to) : Becomes(m)
  BY DEF f4e_set
<1>2. m \in Good(Before)
  BY SetGood
<1>3. saved_map' \in [H -> {NotSaved} \cup [Window -> Entry]]
  BY DEF f4e_set, Maps
<1> QED BY <1>1, <1>2, <1>3, BecomesMaps

\* A handle that shrinks loses no page that a window holds, unless DropMapped.
LEMMA ShrinkMaps ==
  ASSUME Tables, Maps, NEW h \in H, NEW n \in 0..total_pages, f51_shrink(h, n)
  PROVE  Maps'
<1>1. /\ UNCHANGED <<cur_map, saved_map, frame, store>> /\ eh' = [eh EXCEPT ![h].npages = n]
      /\ n < eh[h].npages /\ h \in Used
      /\ ~DropMapped => \A w \in Window : cur_map[w] \notin {h} \X (n..total_pages)
  BY DEF f51_shrink
<1>2. /\ \A g \in H : eh'[g].used = eh[g].used /\ (g # h => eh'[g].npages = eh[g].npages)
      /\ eh'[h].npages = n
  BY <1>1 DEF Tables, HandleType
<1>3. ~DropMapped => MapsLive'
  <2> SUFFICES ASSUME ~DropMapped, NEW w \in Window, cur_map[w] # EMS_UNMAPPED
               PROVE  Live(cur_map[w])'
    BY <1>1 DEF MapsLive
  <2>1. PICK e \in H \X Page : cur_map[w] = e
    BY DEF Maps, Entry
  <2>2. Live(e) /\ e[1] \in H /\ e[2] \in Page /\ e = <<e[1], e[2]>> /\ e # EMS_UNMAPPED
    BY <2>1 DEF Maps, MapsLive
  <2>3. e[1] = h => e[2] < n
    <3> SUFFICES ASSUME e[1] = h, ~(e[2] < n) PROVE FALSE
      OBVIOUS
    <3>1. e[2] \in n..total_pages
      BY <2>2, Sizes DEF Page
    <3> QED BY <1>1, <2>1, <2>2, <3>1
  <2>4. Live(e)'
    BY <1>2, <2>2, <2>3 DEF Live
  <2> QED BY <1>1, <2>1, <2>4
<1> QED BY <1>1, <1>3 DEF Maps, Single

\* What a page of the old run moves to, when a handle grows.
LEMMA GrownStore ==
  ASSUME Tables, Maps, NEW h \in H, NEW n \in 0..total_pages, f51_grow(h, n)
  PROVE  /\ store' \in [Page -> Content]
         /\ \A p \in Page : page_owner[p] # NoOne => store'[p] = store[p]
         /\ \/ UNCHANGED eh
            \/ /\ eh'[h].used = eh[h].used /\ eh'[h].npages = n
               /\ \A g \in H : g # h => eh'[g] = eh[g]
               /\ \A l \in Page : l < eh[h].npages =>
                    store'[eh'[h].first + l] = store[eh[h].first + l]
<1> DEFINE first == backing_alloc(n)
           old == eh[h].npages
           R == Run(first, old)
           moved == [p \in Page |-> store[eh[h].first + (p - first)]]
           copied(c) == [p \in Page |-> IF p \in R THEN c[p] ELSE store[p]]
<1>1. /\ h \in Used /\ n > old /\ n \in Nat /\ old \in Nat /\ eh[h].first \in Nat
      /\ eh[h] \in HandleType
  BY Sizes DEF f51_grow, Tables, HandleType
<1>2. first \in Page /\ \A p \in Run(first, n) : p \in Page /\ page_owner[p] = NoOne
  BY <1>1, AllocFits DEF f51_grow
<1>3. first \in Nat
  BY <1>2, Sizes DEF Page
<1>4. \/ store' = copied(moved) /\ eh' = [eh EXCEPT ![h].first = first, ![h].npages = n]
      \/ store' = copied([p \in Page |-> Junk]) /\ UNCHANGED eh
  BY DEF f51_grow
<1> HIDE DEF first, old
<1>5. \A p \in R : p \in Run(first, n) /\ p - first \in 0..old - 1
  BY <1>1, <1>3 DEF Run
<1>6. ASSUME NEW p \in R PROVE store[eh[h].first + (p - first)] \in Content
  <2>1. eh[h].first + (p - first) \in Pages(h)
    BY <1>1, <1>5 DEF Pages, Run, old
  <2> QED BY <1>1, <2>1 DEF Tables, Maps
<1>7. \A p \in R : moved[p] \in Content
  BY <1>2, <1>5, <1>6
<1>8. store' \in [Page -> Content]
  <2> HIDE DEF R, moved
  <2>1. \A p \in Page : store[p] \in Content
    BY DEF Maps
  <2> QED BY <1>4, <1>7, <2>1 DEF Content
<1>9. ASSUME NEW p \in Page, page_owner[p] # NoOne PROVE store'[p] = store[p]
  <2>1. p \notin R
    BY <1>2, <1>5, <1>9
  <2> HIDE DEF R, moved
  <2> QED BY <1>4, <2>1
<1>10. CASE store' = copied(moved) /\ eh' = [eh EXCEPT ![h].first = first, ![h].npages = n]
  <2>1. /\ eh'[h].used = eh[h].used /\ eh'[h].npages = n /\ eh'[h].first = first
        /\ \A g \in H : g # h => eh'[g] = eh[g]
    <3>1. eh' = [eh EXCEPT ![h] = [eh[h] EXCEPT !.first = first, !.npages = n]]
      BY <1>10 DEF Tables
    <3> QED BY <1>1, <3>1 DEF Tables, HandleType
  <2>2. ASSUME NEW l \in Page, l < old PROVE store'[first + l] = store[eh[h].first + l]
    <3>1. l \in Nat /\ first + l \in R /\ (first + l) - first = l
      BY <1>1, <1>3, <2>2, Sizes DEF Page, Run
    <3>2. first + l \in Page
      BY <1>2, <1>5, <3>1
    <3>3. moved[first + l] = store[eh[h].first + l]
      BY <3>1, <3>2
    <3> HIDE DEF R, moved
    <3> QED BY <1>10, <3>1, <3>2, <3>3
  <2> QED BY <1>8, <1>9, <2>1, <2>2 DEF old
<1>11. CASE UNCHANGED eh
  BY <1>8, <1>9, <1>11
<1> QED BY <1>4, <1>10, <1>11

LEMMA GrowMaps ==
  ASSUME Tables, Maps, NEW h \in H, NEW n \in 0..total_pages, f51_grow(h, n)
  PROVE  Maps'
<1>1. store' \in [Page -> Content]
  BY GrownStore
<1>2. UNCHANGED <<cur_map, saved_map, frame>> /\ n > eh[h].npages
  BY DEF f51_grow
<1>3. \A e \in H \X Page : Live(e) => Live(e)'
  <2> TAKE e \in H \X Page
  <2>1. CASE UNCHANGED eh
    BY <2>1 DEF Live
  <2>2. CASE /\ eh'[h].used = eh[h].used /\ eh'[h].npages = n
             /\ \A g \in H : g # h => eh'[g] = eh[g]
    <3>1. e[2] \in Nat /\ eh[h].npages \in Nat /\ n \in Nat
      BY Sizes DEF Page, Tables, HandleType
    <3> QED BY <1>2, <2>2, <3>1 DEF Live
  <2> QED BY <2>1, <2>2, GrownStore
<1>4. MapsLive /\ cur_map \in [Window -> Entry] => MapsLive'
  BY <1>2, <1>3 DEF MapsLive, Entry
<1> QED BY <1>1, <1>2, <1>4 DEF Maps, Single

LEMMA WriteMaps ==
  ASSUME Maps, NEW w \in Window, NEW v \in Values, Write(w, v)
  PROVE  Maps'
<1>1. frame' \in [Window -> Content]
  BY DEF Write, Maps, Content
<1>2. MapsLive => MapsLive'
  BY DEF Write, MapsLive, Live
<1> QED BY <1>1, <1>2 DEF Write, Maps, Single

\* Every call keeps the tables and the maps.
LEMMA StepInv ==
  ASSUME Tables, Maps, [Next]_vars
  PROVE  Tables' /\ Maps'
<1>1. CASE \E n \in 1..total_pages : f43_alloc(n)
  BY <1>1, AllocTables, AllocMaps
<1>2. CASE \E h \in H : f45_release(h)
  BY <1>2, ReleaseTables, ReleaseMaps
<1>3. CASE \E h \in H : f47_save(h)
  <2>1. PICK h \in H : f47_save(h)
    BY <1>3
  <2>2. Tables'
    BY <2>1 DEF f47_save, Tables, Used, Pages
  <2> QED BY <2>1, <2>2, SaveMaps
<1>4. CASE \E h \in H : f48_restore(h)
  BY <1>4, RestoreMaps
<1>5. CASE \E h \in H, l \in Page \cup {total_pages}, w \in Window : f44_map(h, l, w)
  BY <1>5, MapCallMaps
<1>6. CASE \E h \in H, n \in 0..total_pages : f51_shrink(h, n)
  BY <1>6, ShrinkTables, ShrinkMaps
<1>7. CASE \E h \in H, n \in 0..total_pages : f51_grow(h, n)
  BY <1>7, GrowTables, GrowMaps
<1>8. CASE \E to \in [Window -> {EMS_UNMAPPED, Bad} \cup {e \in H \X Page : Live(e)}] : f4e_set(to)
  BY <1>8, SetMaps
<1>9. CASE \E w \in Window, v \in Values : Write(w, v)
  <2>1. PICK w \in Window, v \in Values : Write(w, v)
    BY <1>9
  <2>2. Tables'
    BY <2>1 DEF Write, Tables, Used, Pages
  <2> QED BY <2>1, <2>2, WriteMaps
<1>10. CASE UNCHANGED vars
  <2>1. Tables'
    BY <1>10 DEF vars, Tables, Used, Pages
  <2>2. Maps'
    BY <1>10 DEF vars, Maps, Single, MapsLive, Live
  <2> QED BY <2>1, <2>2
<1> QED BY <1>1, <1>2, <1>3, <1>4, <1>5, <1>6, <1>7, <1>8, <1>9, <1>10, Zenon DEF Next

LEMMA SpecInv == Spec => [](Tables /\ Maps)
<1>1. ems_init => Tables /\ Maps
  BY InitTables, InitMaps
<1>2. Tables /\ Maps /\ [Next]_vars => (Tables /\ Maps)'
  BY StepInv
<1> QED BY <1>1, <1>2, PTL DEF Spec

----------------------------------------------------------------------------
(* The theorems about EMS.                                                 *)

\* The runs of the handles, the owner table and the count of used pages tell
\* the same story after every call of ems.c, failed ones included.
THEOREM RunsAgree == Spec => []RunsExact
<1>1. Tables /\ Maps => RunsExact
  <2> SUFFICES ASSUME Tables, Maps PROVE RunsExact
    OBVIOUS
  <2>1. InUse(page_owner) \subseteq Page
    BY DEF InUse
  <2>2. used_pages \in 0..total_pages
    BY <2>1, PagesFinite DEF Tables
  <2>3. TypeOK
    BY <2>2 DEF TypeOK, Tables, Maps, HandleType
  <2> QED BY <2>3 DEF RunsExact, Tables, InUse
<1> QED BY <1>1, SpecInv, PTL

\* Unless a handle gives up a page that a window holds (51h does not look at
\* the windows), a window only ever holds a page that its handle has.
THEOREM WindowsLive ==
  ASSUME ~DropMapped
  PROVE  Spec => []MapsLive
<1>1. Maps => MapsLive
  BY DEF Maps
<1> QED BY <1>1, SpecInv, PTL

----------------------------------------------------------------------------
(* What the pages hold.                                                    *)

\* A page the handle keeps, and nobody wrote, over a step.
Kept(h, l) == PageWritten(h, l) \/ Contents(h, l)' = Contents(h, l)

LEMMA ContentsTold ==
  ASSUME NEW h, NEW l
  PROVE  Contents(h, l) = Told(Memory, <<h, l>>)
<1>1. Shows(h, l) = Where(Memory, <<h, l>>)
  BY DEF Shows, Where, Memory
<1> QED BY <1>1 DEF Contents, Told, Memory, Address

\* The calls that map: nothing was loaded twice, so every page reads as before.
LEMMA MappedKept ==
  ASSUME ~DropMapped, ~Reshuffle, NEW m \in Good(Before), Becomes(m),
         NEW h \in Used, NEW l \in Page, l < eh[h].npages
  PROVE  Kept(h, l)
<1> DEFINE e == <<h, l>>
<1>1. /\ cur_map' = m.map /\ frame' = m.frame /\ store' = m.store /\ ~m.twice /\ eh' = eh
  BY DEF Becomes, Harmless
<1>2. e \in LivePages
  BY DEF LivePages, Live, Used, EMS_UNMAPPED
<1>3. Told(m, e) = Told(Memory, e)
  BY <1>1, <1>2 DEF Good, Faithful, SameAs, Before
<1>4. Shows(h, l)' = Where(m, e)
  BY <1>1 DEF Shows, Where
<1>5. Contents(h, l)' = Told(m, e)
  BY <1>1, <1>4 DEF Contents, Told, Address
<1> QED BY <1>3, <1>5, ContentsTold DEF Kept

\* The calls that leave the windows that show the page, and its backing page.
LEMMA UntouchedKept ==
  ASSUME NEW h, NEW l, Shows(h, l)' = Shows(h, l), UNCHANGED frame,
         store'[eh'[h].first + l] = store[eh[h].first + l]
  PROVE  Kept(h, l)
<1>1. Contents(h, l)' =
        IF Shows(h, l)' # {} THEN frame'[Lowest(Shows(h, l)')] ELSE store'[eh'[h].first + l]
  BY DEF Contents
<1> QED BY <1>1 DEF Kept, Contents

LEMMA GrowKept ==
  ASSUME Tables, Maps, NEW g \in H, NEW n \in 0..total_pages, f51_grow(g, n),
         NEW h \in Used, NEW l \in Page, l < eh[h].npages
  PROVE  Kept(h, l)
<1>1. UNCHANGED <<cur_map, frame>>
  BY DEF f51_grow
<1>2. Shows(h, l)' = Shows(h, l)
  BY <1>1 DEF Shows
<1>3. eh'[h] = eh[h] => store'[eh'[h].first + l] = store[eh[h].first + l]
  <2>1. h \in H /\ h # NoOne /\ eh[h].first \in Nat /\ eh[h].npages \in Nat /\ l \in Nat
    BY NoOneIsNoHandle, Sizes DEF Used, Tables, HandleType, Page
  <2>2. eh[h].first + l \in Pages(h)
    BY <2>1 DEF Pages, Run
  <2>3. eh[h].first + l \in Page /\ page_owner[eh[h].first + l] = h
    BY <2>2 DEF Tables
  <2> QED BY <2>1, <2>3, GrownStore
<1>4. store'[eh'[h].first + l] = store[eh[h].first + l]
  <2>1. CASE eh'[h] = eh[h]
    BY <1>3, <2>1
  <2>2. CASE eh'[h] # eh[h]
    <3>1. h \in H
      BY DEF Used
    <3>2. h = g /\ \A k \in Page : k < eh[g].npages =>
                     store'[eh'[g].first + k] = store[eh[g].first + k]
      BY <2>2, <3>1, GrownStore
    <3> QED BY <3>2
  <2> QED BY <2>1, <2>2
<1> QED BY <1>1, <1>2, <1>4, UntouchedKept

LEMMA ReleaseKept ==
  ASSUME Tables, Maps, NEW g \in H, f45_release(g),
         NEW h \in Used, h \in Used', NEW l \in Page
  PROVE  Kept(h, l)
<1>1. /\ cur_map' = Dropped(g) /\ UNCHANGED <<frame, store>>
      /\ eh' = [eh EXCEPT ![g] = Unused]
  BY DEF f45_release
<1>2. h \in H /\ h # g
  BY <1>1 DEF Used, Unused, Tables
<1>3. eh'[h] = eh[h]
  BY <1>1, <1>2 DEF Tables
<1>4. Shows(h, l)' = Shows(h, l)
  <2>1. \A w \in Window : cur_map'[w] = <<h, l>> <=> cur_map[w] = <<h, l>>
    BY <1>1, <1>2 DEF Dropped, EMS_UNMAPPED
  <2> QED BY <2>1 DEF Shows
<1> QED BY <1>1, <1>3, <1>4, UntouchedKept

LEMMA WriteKept ==
  ASSUME Maps, NEW w \in Window, NEW v \in Values, Write(w, v), NEW h \in Used, NEW l \in Page
  PROVE  Kept(h, l)
<1>1. UNCHANGED <<cur_map, store, eh>>
  BY DEF Write
<1>2. CASE Shows(h, l) # {}
  BY <1>1, <1>2 DEF Kept, PageWritten
<1>3. CASE Shows(h, l) = {}
  <2>1. Shows(h, l)' = {}
    BY <1>1, <1>3 DEF Shows
  <2>2. Contents(h, l)' = store'[eh'[h].first + l]
    BY <2>1 DEF Contents
  <2> QED BY <1>1, <1>3, <2>2 DEF Kept, Contents
<1> QED BY <1>2, <1>3

LEMMA StepKept ==
  ASSUME ~DropMapped, ~Reshuffle, Tables, Maps, [Next]_vars,
         NEW h \in Used, h \in Used', NEW l \in Page, l < eh[h].npages
  PROVE  Kept(h, l)
<1>0. h \in H
  BY DEF Used
<1>1. CASE \E n \in 1..total_pages : f43_alloc(n)
  <2>1. PICK n \in 1..total_pages : f43_alloc(n)
    BY <1>1
  <2>2. UNCHANGED <<cur_map, frame, store>> /\ Lowest(H \ Used) \notin Used
    BY <2>1, LowestHandle DEF f43_alloc
  <2>3. eh'[h] = eh[h]
    BY <1>0, <2>1, <2>2 DEF f43_alloc, Tables
  <2>4. Shows(h, l)' = Shows(h, l)
    BY <2>2 DEF Shows
  <2> QED BY <2>2, <2>3, <2>4, UntouchedKept
<1>2. CASE \E g \in H : f45_release(g)
  BY <1>2, ReleaseKept
<1>3. CASE (\E g \in H : f47_save(g)) \/ UNCHANGED vars
  <2>1. UNCHANGED <<cur_map, frame, store, eh>>
    BY <1>3 DEF f47_save, vars
  <2>2. Shows(h, l)' = Shows(h, l)
    BY <2>1 DEF Shows
  <2> QED BY <2>1, <2>2, UntouchedKept
<1>4. CASE \E g \in H : f48_restore(g)
  <2>1. PICK g \in H : f48_restore(g)
    BY <1>4
  <2>2. PICK m \in MapAll(saved_map[g]) : Becomes(m)
    BY <2>1 DEF f48_restore
  <2>3. m \in Good(Before)
    BY <2>1, RestoredGood DEF f48_restore
  <2> QED BY <2>2, <2>3, MappedKept
<1>5. CASE \E g \in H, k \in Page \cup {total_pages}, w \in Window : f44_map(g, k, w)
  <2>1. PICK g \in H, k \in Page \cup {total_pages}, w \in Window : f44_map(g, k, w)
    BY <1>5
  <2>2. PICK m \in map_page(Memory, IF k \in Page THEN <<g, k>> ELSE EMS_UNMAPPED, w) : Becomes(m)
    BY <2>1 DEF f44_map
  <2>3. m \in Good(Before)
    BY MappedGood
  <2> QED BY <2>2, <2>3, MappedKept
<1>6. CASE \E g \in H, n \in 0..total_pages : f51_shrink(g, n)
  <2>1. PICK g \in H, n \in 0..total_pages : f51_shrink(g, n)
    BY <1>6
  <2>2. UNCHANGED <<cur_map, frame, store>> /\ eh' = [eh EXCEPT ![g].npages = n]
    BY <2>1 DEF f51_shrink
  <2>3. eh'[h].first = eh[h].first
    BY <1>0, <2>2 DEF Tables, HandleType
  <2>4. Shows(h, l)' = Shows(h, l)
    BY <2>2 DEF Shows
  <2> QED BY <2>2, <2>3, <2>4, UntouchedKept
<1>7. CASE \E g \in H, n \in 0..total_pages : f51_grow(g, n)
  BY <1>7, GrowKept
<1>8. CASE \E to \in [Window -> {EMS_UNMAPPED, Bad} \cup {e \in H \X Page : Live(e)}] : f4e_set(to)
  <2>1. PICK to \in [Window -> {EMS_UNMAPPED, Bad} \cup {e \in H \X Page : Live(e)}] : f4e_set(to)
    BY <1>8
  <2>2. PICK m \in MapAll(to) : Becomes(m)
    BY <2>1 DEF f4e_set
  <2>3. m \in Good(Before)
    BY SetGood
  <2> QED BY <2>2, <2>3, MappedKept
<1>9. CASE \E w \in Window, v \in Values : Write(w, v)
  BY <1>9, WriteKept
<1> QED BY <1>1, <1>2, <1>3, <1>4, <1>5, <1>6, <1>7, <1>8, <1>9, Zenon DEF Next

\* No call changes what a page holds, whichever copy fails on the way: only a
\* program's write into a window that shows the page does.  Of programs that
\* move no page from window to window within one call, and give up no page
\* that a window holds.
THEOREM ContentsKept ==
  ASSUME ~DropMapped, ~Reshuffle
  PROVE  Spec => PagesKept
<1>1. Tables /\ Maps /\ [Next]_vars => KeepContents
  <2> SUFFICES ASSUME Tables, Maps, [Next]_vars, NEW h \in Used, h \in Used',
                      NEW l \in Page, l < eh[h].npages
               PROVE  Kept(h, l)
    BY DEF KeepContents, Kept, Page
  <2> QED BY StepKept
<1>2. Tables /\ Maps /\ [Next]_vars => [KeepContents]_vars
  BY <1>1
<1> QED BY <1>2, SpecInv, PTL DEF Spec, PagesKept

----------------------------------------------------------------------------
(* The console: the flags and the vector.                                  *)

Outside == {"user", "handler", "abort"}

\* HandlersSound, with what makes it inductive: break_abort is up exactly on
\* the way from a handler that aborts to the end of the program.
Flags ==
  /\ cpu = [at |-> cpu.at, fn |-> cpu.fn, al |-> cpu.al]
  /\ int23_pending \in BOOLEAN /\ indos_flag \in BOOLEAN /\ break_abort \in BOOLEAN
  /\ int23_pending => cpu.at = "return"
  /\ indos_flag <=> cpu.at \notin Outside
  /\ break_abort <=> cpu.at = "abort"
  /\ last_exit = how

Vector ==
  /\ depth \in 0..MaxDepth
  /\ vec \in 0..depth
  /\ DOMAIN saved = 1..MaxDepth
  /\ \A p \in 1..MaxDepth : saved[p] \in 0..p - 1

LEMMA DepthPositive == MaxDepth \in Nat /\ MaxDepth > 0
BY Int21Assumption

LEMMA InitHandlers == Init => Flags /\ Vector
<1>1. Init => Flags
  <2> SUFFICES ASSUME Init PROVE Flags
    OBVIOUS
  <2>1. cpu = [at |-> "user", fn |-> "none", al |-> -1]
    BY DEF Init
  <2>2. cpu.at = "user" /\ cpu = [at |-> cpu.at, fn |-> cpu.fn, al |-> cpu.al]
    BY <2>1
  <2>3. /\ int23_pending = FALSE /\ indos_flag = FALSE /\ break_abort = FALSE
        /\ last_exit = how
    BY DEF Init
  <2> QED BY <2>2, <2>3 DEF Flags, Outside
<1>2. Init => Vector
  <2> SUFFICES ASSUME Init PROVE Vector
    OBVIOUS
  <2>1. depth = 0 /\ vec = 0 /\ saved = [p \in 1..MaxDepth |-> 0]
    BY DEF Init
  <2> QED BY <2>1, DepthPositive DEF Vector
<1> QED BY <1>1, <1>2

\* The steps inside a call.
LEMMA KernelFlags ==
  ASSUME Flags, KernelStep
  PROVE  Flags'
<1> USE DEF Flags, Outside
<1>1. CASE break_check
  <2>1. Past \in {"get", "return", "swallow"}
    BY DEF Past
  <2>2. PICK place \in {"drop", "take", "get", "return", "swallow"} : cpu' = [cpu EXCEPT !.at = place]
    BY <1>1, <2>1 DEF break_check, Go
  <2>3. cpu.at \in {"check", "zero"} /\ NoSignal /\ Quiet
    BY <1>1 DEF break_check
  <2> QED BY <2>2, <2>3 DEF NoSignal, Quiet, chain
<1>2. CASE DropBreak \/ TakeCtrlC
  <2>1. cpu' = [cpu EXCEPT !.at = "return", !.al = CtrlC] /\ int23_pending' = TRUE
    BY <1>2 DEF DropBreak, TakeCtrlC, break_signal, Finish
  <2>2. cpu.at \in {"drop", "take"} /\ Quiet
    BY <1>2 DEF DropBreak, TakeCtrlC
  <2> QED BY <2>1, <2>2 DEF Quiet, chain
<1>3. CASE GetKey
  BY <1>3 DEF GetKey, break_signal, Finish, NoSignal, Go, chain, AfterZero
<1>4. CASE Swallow
  BY <1>4 DEF Swallow, Go, NoSignal, Quiet, chain
<1>5. CASE f06_direct
  BY <1>5 DEF f06_direct, Finish, NoSignal, Quiet, chain
<1>6. CASE f0c_flush
  <2>1. \A sub \in Subs : \A place \in Begin(sub) : place \notin Outside
    BY DEF Begin, Subs
  <2>2. \E place, fn, al : cpu' = [at |-> place, fn |-> fn, al |-> al] /\ place \notin Outside
    BY <1>6, <2>1 DEF f0c_flush, Finish
  <2>3. cpu.at = "flush" /\ NoSignal /\ Quiet
    BY <1>6 DEF f0c_flush
  <2> QED BY <2>2, <2>3 DEF NoSignal, Quiet, chain
<1>7. CASE int21_epilogue
  BY <1>7 DEF int21_epilogue, Go, chain
<1> QED BY <1>1, <1>2, <1>3, <1>4, <1>5, <1>6, <1>7 DEF KernelStep

LEMMA NextFlags ==
  ASSUME Flags, [ConsoleNext]_console_vars
  PROVE  Flags'
<1> USE DEF Flags, Outside
<1>1. CASE KernelStep
  BY <1>1, KernelFlags
<1>2. ASSUME NEW fn \in Calls, int21_dispatch(fn) PROVE Flags'
  <2>1. \A place \in Begin(fn) : place \notin Outside
    BY DEF Begin, Calls, Checked
  <2> QED BY <1>2, <2>1 DEF int21_dispatch, NoSignal, chain
<1>3. CASE int21_break
  <2>1. \/ cpu' = [cpu EXCEPT !.at = "user"] /\ break_abort' = break_abort
        \/ cpu' = [cpu EXCEPT !.at = "abort"] /\ break_abort' = TRUE
    BY <1>3 DEF int21_break, Go
  <2>2. /\ cpu.at = "handler"
        /\ indos_flag' = indos_flag /\ int23_pending' = int23_pending
        /\ last_exit' = last_exit /\ how' = how
    BY <1>3 DEF int21_break, NoSignal, chain
  <2>3. ~int23_pending /\ ~indos_flag /\ ~break_abort
    BY <2>2
  <2>4. CASE cpu' = [cpu EXCEPT !.at = "user"] /\ break_abort' = break_abort
    <3>1. cpu'.at = "user" /\ cpu' = [at |-> cpu'.at, fn |-> cpu'.fn, al |-> cpu'.al]
      BY <2>4
    <3> QED BY <2>2, <2>3, <2>4, <3>1
  <2>5. CASE cpu' = [cpu EXCEPT !.at = "abort"] /\ break_abort' = TRUE
    <3>1. cpu'.at = "abort" /\ cpu' = [at |-> cpu'.at, fn |-> cpu'.fn, al |-> cpu'.al]
      BY <2>5
    <3> QED BY <2>2, <2>3, <2>5, <3>1
  <2> QED BY <2>1, <2>4, <2>5
<1>4. CASE proc_terminate
  BY <1>4 DEF proc_terminate, ResetAbort, proc_unwind, NoSignal
<1>5. CASE f31_tsr
  BY <1>5 DEF f31_tsr, proc_unwind, NoSignal
<1>6. CASE f4b_exec
  BY <1>6 DEF f4b_exec, NoSignal
<1>7. CASE f25_setvect
  BY <1>7 DEF f25_setvect, NoSignal
<1>8. ASSUME NEW k \in Keys, KeyPress(k) PROVE Flags'
  BY <1>8 DEF KeyPress, NoSignal, chain
<1>9. CASE int1b_entry
  BY <1>9 DEF int1b_entry, NoSignal, chain
<1>10. CASE UNCHANGED console_vars
  BY <1>10 DEF console_vars
<1> QED BY <1>1, <1>2, <1>3, <1>4, <1>5, <1>6, <1>7, <1>8, <1>9, <1>10 DEF ConsoleNext

LEMMA NextVector ==
  ASSUME Vector, [ConsoleNext]_console_vars
  PROVE  Vector'
<1> USE DEF Vector
<1>1. CASE UNCHANGED <<depth, vec, saved>>
  BY <1>1
<1>2. CASE proc_terminate \/ f31_tsr
  <2>1. depth > 0 /\ depth' = depth - 1 /\ vec' = saved[depth]
        /\ saved' = [saved EXCEPT ![depth] = 0]
    BY <1>2 DEF proc_terminate, f31_tsr, proc_unwind, RestoreVector
  <2> QED BY <2>1, DepthPositive
<1>3. CASE f4b_exec
  BY <1>3, DepthPositive DEF f4b_exec
<1>4. CASE f25_setvect
  BY <1>4, DepthPositive DEF f25_setvect
<1>5. \/ UNCHANGED <<depth, vec, saved>>
      \/ proc_terminate \/ f31_tsr \/ f4b_exec \/ f25_setvect
  BY DEF ConsoleNext, KernelStep, chain, Quiet, console_vars, break_check, DropBreak, TakeCtrlC, GetKey,
         Swallow, f06_direct, f0c_flush, int21_epilogue, int21_dispatch, int21_break,
         KeyPress, int1b_entry
<1> QED BY <1>1, <1>2, <1>3, <1>4, <1>5

\* INT 23h is owed only by the call about to return, InDOS is up exactly
\* inside calls, the vector never names a program that has ended, and 4Dh
\* reports a Ctrl-C exit for the programs that were aborted and no other.
THEOREM FlagsBelong == ConsoleSpec => []HandlersSound
<1>1. Init => Flags /\ Vector
  BY InitHandlers
<1>2. Flags /\ Vector /\ [ConsoleNext]_console_vars => (Flags /\ Vector)'
  BY NextFlags, NextVector
<1>3. Flags /\ Vector => HandlersSound
  <2> SUFFICES ASSUME Flags, Vector PROVE HandlersSound
    OBVIOUS
  <2>1. vec <= depth /\ \A p \in 1..MaxDepth : saved[p] < p
    BY DEF Vector
  <2> QED BY <2>1 DEF Flags, Outside, HandlersSound
<1> QED BY <1>1, <1>2, <1>3, PTL DEF ConsoleSpec

----------------------------------------------------------------------------
(* Breaks keyed and breaks signalled.                                      *)
(*                                                                         *)
(* The invariant is an account: every break that was keyed and not yet     *)
(* signalled is a Ctrl-C in the buffer, the latch, or a break_check that   *)
(* has noticed one and not yet reported it.                                *)

\* The keys that break_check and con_getc can tell from the word the BIOS
\* stores for Ctrl-Break and from a Ctrl-C: no extended key has scan code 0
\* (a character 224 keyed in by number) or 3 (Ctrl-2).
PlainKeys == \A k \in Keys : Char(k) \in {0, 224} => Scan(k) \notin {0, CtrlC}

Word    == Keys \cup {BreakWord}
HasWord == kb # <<>> /\ kb[1] = BreakWord
Ctrls(b) == {i \in 1..Len(b) : Char(b[i]) = CtrlC}
One(c)  == IF c THEN 1 ELSE 0

\* The word of Ctrl-Break is the oldest of the buffer, if it is there.
BufferType ==
  /\ kb \in Seq(Word)
  /\ \A i \in 2..Len(kb) : kb[i] # BreakWord
  /\ pending_scan \in 0..255 /\ pending_scan # CtrlC
  /\ HasWord => pending_scan = 0

\* What the processor knows of the buffer, where it is.
Noticed ==
  /\ HasWord => ctrl_break_hit \/ cpu.at = "drop"
  /\ cpu.at = "take" => pending_scan = 0 /\ kb # <<>> /\ (HasWord \/ Char(kb[1]) = CtrlC)
  /\ cpu.at = "zero" => pending_scan # 0 \/ ctrl_break_hit
  /\ cpu.at \in {"poll", "flush"} => cpu.fn # "char"
  /\ (cpu.at = "return" /\ cpu.fn = "char" /\ cpu.al = 0) => pending_scan # 0

Owed ==
  Cardinality(Ctrls(kb)) + One(ctrl_break_hit) + One(cpu.at = "drop")
    + One(cpu.at = "take" /\ HasWord)
Account ==
  /\ signalled \in Nat /\ keyed \in Nat
  /\ signalled + Owed <= keyed

Breaks == Flags /\ ctrl_break_hit \in BOOLEAN /\ BufferType /\ Noticed /\ Account

LEMMA CtrlsFinite ==
  ASSUME NEW b \in Seq(Word)
  PROVE  IsFiniteSet(Ctrls(b)) /\ Cardinality(Ctrls(b)) \in Nat
<1>1. Len(b) \in Nat
  BY LenProperties
<1>2. IsFiniteSet(1..Len(b))
  BY <1>1, FS_Interval
<1>3. Ctrls(b) \subseteq 1..Len(b)
  BY DEF Ctrls
<1> QED BY <1>2, <1>3, FS_Subset, FS_CardinalityType

\* A key at the end of the buffer counts when it is Ctrl-C.
LEMMA CtrlsAppend ==
  ASSUME NEW b \in Seq(Word), NEW k \in Word
  PROVE  Cardinality(Ctrls(Append(b, k))) = Cardinality(Ctrls(b)) + One(Char(k) = CtrlC)
<1> DEFINE n == Len(b)
<1>1. /\ n \in Nat /\ Len(Append(b, k)) = n + 1
      /\ Append(b, k)[n + 1] = k /\ \A i \in 1..n : Append(b, k)[i] = b[i]
  BY AppendProperties, LenProperties
<1>2. Ctrls(Append(b, k)) = IF Char(k) = CtrlC THEN Ctrls(b) \cup {n + 1} ELSE Ctrls(b)
  <2>1. 1..(n + 1) = (1..n) \cup {n + 1}
    BY <1>1
  <2> HIDE DEF n
  <2>2. Ctrls(Append(b, k)) = {i \in (1..n) \cup {n + 1} : Char(Append(b, k)[i]) = CtrlC}
    BY <1>1, <2>1 DEF Ctrls
  <2>3. Ctrls(b) = {i \in 1..n : Char(b[i]) = CtrlC}
    BY DEF Ctrls, n
  <2> QED BY <1>1, <2>2, <2>3
<1>3. n + 1 \notin Ctrls(b)
  BY <1>1 DEF Ctrls
<1>4. IsFiniteSet(Ctrls(b)) /\ Cardinality(Ctrls(b)) \in Nat
  BY CtrlsFinite
<1>5. CASE Char(k) = CtrlC
  BY <1>2, <1>3, <1>4, <1>5, FS_AddElement DEF One
<1>6. CASE Char(k) # CtrlC
  BY <1>2, <1>4, <1>6 DEF One
<1> QED BY <1>5, <1>6

\* The oldest key leaves the count when it is Ctrl-C.
LEMMA CtrlsTail ==
  ASSUME NEW b \in Seq(Word), b # <<>>
  PROVE  Cardinality(Ctrls(b)) = Cardinality(Ctrls(Tail(b))) + One(Char(b[1]) = CtrlC)
<1> DEFINE t == Tail(b)
           n == Len(t)
           Up == [i \in Ctrls(t) |-> i + 1]
           U  == {i \in 2..Len(b) : Char(b[i]) = CtrlC}
<1>1. /\ t \in Seq(Word) /\ n \in Nat /\ Len(b) = n + 1
      /\ \A i \in 1..n : t[i] = b[i + 1]
  BY HeadTailProperties, LenProperties
<1>2. IsFiniteSet(Ctrls(t)) /\ Cardinality(Ctrls(t)) \in Nat
  BY <1>1, CtrlsFinite
<1>3. Up \in Bijection(Ctrls(t), U)
  <2> HIDE DEF t, n
  <2>1. Ctrls(t) = {i \in 1..n : Char(b[i + 1]) = CtrlC}
    BY <1>1 DEF Ctrls, n
  <2>2. \A i \in Ctrls(t) : i \in Int /\ i + 1 \in U
    BY <1>1, <2>1
  <2>3. Up \in [Ctrls(t) -> U]
    BY <2>2
  <2>4. \A i, j \in Ctrls(t) : Up[i] = Up[j] => i = j
    BY <2>2
  <2>5. ASSUME NEW u \in U PROVE \E i \in Ctrls(t) : Up[i] = u
    <3>1. u \in 2..(n + 1) /\ Char(b[u]) = CtrlC
      BY <1>1
    <3>2. u - 1 \in 1..n /\ (u - 1) + 1 = u
      BY <1>1, <3>1
    <3>3. u - 1 \in Ctrls(t)
      BY <2>1, <3>1, <3>2
    <3> QED BY <3>2, <3>3
  <2> HIDE DEF Up, U
  <2> QED BY <2>3, <2>4, <2>5 DEF Bijection, Injection, IsInjective, Surjection
<1>4. IsFiniteSet(U) /\ Cardinality(U) = Cardinality(Ctrls(t))
  <2> HIDE DEF Up, U, t
  <2>1. ExistsBijection(Ctrls(t), U)
    BY <1>3 DEF ExistsBijection
  <2> QED BY <1>2, <2>1, FS_Bijection
<1>5. Ctrls(b) = IF Char(b[1]) = CtrlC THEN U \cup {1} ELSE U
  <2>1. 1..Len(b) = (2..Len(b)) \cup {1}
    BY <1>1
  <2>2. Ctrls(b) = {i \in (2..Len(b)) \cup {1} : Char(b[i]) = CtrlC}
    BY <2>1 DEF Ctrls
  <2> HIDE DEF t, n
  <2> QED BY <2>2
<1>6. 1 \notin U
  OBVIOUS
<1> HIDE DEF U, t, n
<1>7. CASE Char(b[1]) = CtrlC
  BY <1>2, <1>4, <1>5, <1>6, <1>7, FS_AddElement DEF One, t
<1>8. CASE Char(b[1]) # CtrlC
  BY <1>2, <1>4, <1>5, <1>8 DEF One, t
<1> QED BY <1>7, <1>8

LEMMA EmptyBuffer == <<>> \in Seq(Word) /\ Cardinality(Ctrls(<<>>)) = 0
<1>1. Ctrls(<<>>) = {}
  BY DEF Ctrls
<1> QED BY <1>1, FS_EmptySet, EmptySeq

LEMMA InitBreaks == Init => ctrl_break_hit \in BOOLEAN /\ BufferType /\ Noticed /\ Account
<1> SUFFICES ASSUME Init
             PROVE  ctrl_break_hit \in BOOLEAN /\ BufferType /\ Noticed /\ Account
  OBVIOUS
<1>1. /\ kb = <<>> /\ pending_scan = 0 /\ ctrl_break_hit = FALSE
      /\ keyed = 0 /\ signalled = 0
  BY DEF Init
<1>2. cpu.at = "user"
  BY DEF Init
<1>3. BufferType
  BY <1>1, EmptyBuffer DEF BufferType, HasWord, CtrlC
<1>4. Noticed
  BY <1>1, <1>2 DEF Noticed, HasWord
<1>5. Owed = 0
  BY <1>1, <1>2, EmptyBuffer DEF Owed, One, HasWord
<1>6. Account
  BY <1>1, <1>5 DEF Account
<1> QED BY <1>1, <1>3, <1>4, <1>6

\* What con_getc does to the buffer: the oldest key is gone, and with it the
\* word of Ctrl-Break; a 0 announces a scan code unless it was that word.
LEMMA GetcEffect ==
  ASSUME PlainKeys, BufferType, con_getc
  PROVE  /\ BufferType' /\ ~HasWord'
         /\ Cardinality(Ctrls(kb)) = Cardinality(Ctrls(kb')) + One(Got = CtrlC)
         /\ Got = 0 => pending_scan' # 0 \/ HasWord
<1> USE DEF BufferType
<1>1. CASE pending_scan # 0
  <2>1. pending_scan' = 0 /\ kb' = kb /\ ~HasWord /\ Got = pending_scan
    BY <1>1 DEF con_getc, Got
  <2>2. BufferType' /\ ~HasWord'
    BY <2>1 DEF HasWord, CtrlC
  <2>3. Cardinality(Ctrls(kb)) \in Nat
    BY CtrlsFinite
  <2> QED BY <1>1, <2>1, <2>2, <2>3 DEF One
<1>2. CASE pending_scan = 0
  <2>1. /\ kb # <<>> /\ kb' = Tail(kb)
        /\ pending_scan' = IF Got = 0 THEN Scan(kb[1]) ELSE 0
        /\ Got = IF Char(kb[1]) = 224 THEN 0 ELSE Char(kb[1])
    BY <1>2 DEF con_getc, Got
  <2>2. /\ kb' \in Seq(Word) /\ Len(kb) \in Nat /\ Len(kb') \in Nat /\ Len(kb) = Len(kb') + 1
        /\ \A i \in 1..Len(kb') : kb'[i] = kb[i + 1]
    BY <2>1, HeadTailProperties, LenProperties
  <2>3. \A i \in 1..Len(kb') : kb'[i] # BreakWord
    <3> TAKE i \in 1..Len(kb')
    <3>1. i + 1 \in 2..Len(kb)
      BY <2>2
    <3> QED BY <2>2, <3>1
  <2>4. ~HasWord'
    <3>1. kb' # <<>> => 1 \in 1..Len(kb')
      BY <2>2, EmptySeq
    <3> QED BY <2>3, <3>1 DEF HasWord
  <2>5. kb[1] \in Word
    BY <2>2, ElementOfSeq
  <2>6. kb[1] = BreakWord \/ kb[1] \in Keys
    BY <2>5 DEF Word
  <2>7. CASE kb[1] = BreakWord
    <3>1. Char(kb[1]) = 0 /\ Scan(kb[1]) = 0 /\ HasWord
      BY <2>1, <2>7 DEF BreakWord, Char, Scan, HasWord
    <3>2. Got = 0 /\ pending_scan' = 0
      BY <2>1, <3>1
    <3> QED BY <2>1, <2>2, <2>3, <2>4, <3>1, <3>2, CtrlsTail DEF CtrlC
  <2>8. CASE kb[1] \in Keys
    <3>1. Scan(kb[1]) \in 0..255 /\ Char(kb[1]) \in 0..255
      BY <2>8, Int21Assumption DEF Scan, Char
    <3>2. Got = 0 => Scan(kb[1]) \notin {0, CtrlC}
      BY <2>1, <2>8, <3>1 DEF PlainKeys
    <3>3. Got = CtrlC <=> Char(kb[1]) = CtrlC
      BY <2>1, <3>1 DEF CtrlC
    <3>4. pending_scan' \in 0..255 /\ pending_scan' # CtrlC /\ (Got = 0 => pending_scan' # 0)
      BY <2>1, <3>1, <3>2 DEF CtrlC
    <3>5. BufferType'
      BY <2>2, <2>3, <2>4, <3>4
    <3>6. Cardinality(Ctrls(kb)) = Cardinality(Ctrls(kb')) + One(Got = CtrlC)
      BY <2>1, <3>3, CtrlsTail DEF One
    <3> QED BY <2>4, <3>4, <3>5, <3>6
  <2> QED BY <2>6, <2>7, <2>8
<1> QED BY <1>1, <1>2 DEF BufferType

\* A step that leaves the buffer, or takes one key of it, and reports no
\* break keeps the account unless it takes a Ctrl-C without being told to.
LEMMA Frugal ==
  ASSUME Breaks, Cardinality(Ctrls(kb')) \in Nat, Cardinality(Ctrls(kb)) \in Nat,
         signalled' \in Nat, keyed' \in Nat,
         signalled' - signalled + (Cardinality(Ctrls(kb')) - Cardinality(Ctrls(kb)))
           + (One(ctrl_break_hit') - One(ctrl_break_hit))
           + (One(cpu'.at = "drop") - One(cpu.at = "drop"))
           + (One(cpu'.at = "take" /\ HasWord') - One(cpu.at = "take" /\ HasWord))
         <= keyed' - keyed
  PROVE  Account'
<1> DEFINE a == One(ctrl_break_hit)
           b == One(cpu.at = "drop")
           c == One(cpu.at = "take" /\ HasWord)
           aa == One(ctrl_break_hit')
           bb == One(cpu'.at = "drop")
           cc == One(cpu'.at = "take" /\ HasWord')
<1>1. a \in Nat /\ b \in Nat /\ c \in Nat /\ aa \in Nat /\ bb \in Nat /\ cc \in Nat
  BY DEF One
<1>2. signalled \in Nat /\ keyed \in Nat /\ signalled + (Cardinality(Ctrls(kb)) + a + b + c) <= keyed
  BY DEF Breaks, Account, Owed
<1> HIDE DEF a, b, c, aa, bb, cc
<1>3. signalled' - signalled + (Cardinality(Ctrls(kb')) - Cardinality(Ctrls(kb)))
           + (aa - a) + (bb - b) + (cc - c) <= keyed' - keyed
  BY DEF a, b, c, aa, bb, cc
<1>4. signalled' + (Cardinality(Ctrls(kb')) + aa + bb + cc) <= keyed'
  BY <1>1, <1>2, <1>3
<1>5. Owed' = Cardinality(Ctrls(kb')) + aa + bb + cc
  BY DEF Owed, aa, bb, cc
<1> QED BY <1>4, <1>5 DEF Account

\* The steps inside a call.
LEMMA KernelBreaks ==
  ASSUME PlainKeys, Breaks, KernelStep
  PROVE  ctrl_break_hit' \in BOOLEAN /\ BufferType' /\ Noticed' /\ Account'
<1> DEFINE n  == Cardinality(Ctrls(kb))
           nn == Cardinality(Ctrls(kb'))
<1> USE DEF Breaks
<1>1. /\ cpu = [at |-> cpu.at, fn |-> cpu.fn, al |-> cpu.al]
      /\ signalled \in Nat /\ keyed \in Nat
  BY DEF Flags, Account
<1>2. n \in Nat
  BY CtrlsFinite DEF BufferType
<1>3. ASSUME BufferType' PROVE nn \in Nat
  <2> DEFINE b == kb'
  <2>1. b \in Seq(Word)
    BY <1>3 DEF BufferType, Word
  <2> HIDE DEF b
  <2>2. Cardinality(Ctrls(b)) \in Nat
    BY <2>1, CtrlsFinite
  <2> QED BY <2>2 DEF b
<1> HIDE DEF n, nn
<1>4. CASE break_check
  <2>1. UNCHANGED <<kb, pending_scan, signalled, keyed>>
    BY <1>4 DEF break_check, kbd, NoSignal, Quiet
  <2>2. BufferType' /\ HasWord' = HasWord /\ nn = n
    BY <2>1 DEF BufferType, HasWord, n, nn, Word
  <2>3. cpu.at \in {"check", "zero"}
    BY <1>4 DEF break_check
  <2>4. CASE ctrl_break_hit /\ ClearLatch /\ Go("drop")
    <3>1. cpu'.at = "drop" /\ ctrl_break_hit' = FALSE
      BY <2>4, <1>1 DEF Go, ClearLatch
    <3>2. Noticed'
      BY <3>1, <2>1 DEF Noticed
    <3>3. Account'
      BY <1>2, <2>1, <2>2, <2>3, <2>4, <3>1, Frugal, <1>1 DEF One, n, nn
    <3> QED BY <2>2, <3>1, <3>2, <3>3
  <2>5. CASE ~ctrl_break_hit /\ HeadIsCtrlC /\ Go("take") /\ UNCHANGED ctrl_break_hit
    <3>1. cpu'.at = "take" /\ ctrl_break_hit' = FALSE
      BY <2>5, <1>1 DEF Go
    <3>2. pending_scan = 0 /\ kb # <<>> /\ Char(kb[1]) = CtrlC
      BY <2>5 DEF HeadIsCtrlC, con_peek, CtrlC, Char
    <3>3. ~HasWord
      BY <3>2 DEF HasWord, BreakWord, Char, CtrlC
    <3>4. Noticed'
      BY <3>1, <3>2, <2>1, <2>2, <3>3 DEF Noticed
    <3>5. Account'
      BY <1>2, <2>1, <2>2, <2>3, <2>5, <3>1, <3>3, Frugal, <1>1 DEF One, n, nn
    <3> QED BY <2>2, <3>1, <3>4, <3>5
  <2>6. CASE ~ctrl_break_hit /\ ~HeadIsCtrlC /\ Go(Past) /\ UNCHANGED ctrl_break_hit
    <3>1. cpu'.at = Past /\ cpu'.fn = cpu.fn /\ cpu'.al = cpu.al /\ ctrl_break_hit' = FALSE
      BY <2>6, <1>1 DEF Go
    <3>2. Past \in {"get", "return", "swallow"}
      BY DEF Past
    <3>3. Past = "return" /\ cpu.fn = "char" => cpu.at = "zero"
      BY <2>3 DEF Past
    <3>4. ~HasWord
      BY <2>3, <2>6 DEF Noticed
    <3>5. Noticed'
      BY <2>1, <2>2, <2>3, <2>6, <3>1, <3>2, <3>3, <3>4 DEF Noticed
    <3>6. Account'
      BY <1>2, <2>1, <2>2, <2>3, <2>6, <3>1, <3>2, Frugal, <1>1 DEF One, n, nn
    <3> QED BY <2>2, <3>1, <3>5, <3>6
  <2> QED BY <1>4, <2>4, <2>5, <2>6 DEF break_check
<1>5. CASE DropBreak
  <2>1. /\ cpu.at = "drop" /\ cpu'.at = "return" /\ cpu'.al = CtrlC
        /\ UNCHANGED <<keyed, ctrl_break_hit>> /\ signalled' = signalled + 1
    BY <1>1, <1>5 DEF DropBreak, break_signal, Finish, Quiet
  <2>2. DropWord
    BY <1>5 DEF DropBreak
  <2>3. BufferType' /\ ~HasWord' /\ nn <= n /\ nn \in Nat
    <3>1. CASE con_peek = BreakWord
      <4>1. con_getc
        BY <2>2, <3>1 DEF DropWord
      <4>2. BufferType' /\ ~HasWord' /\ n = nn + One(Got = CtrlC)
        BY <4>1, GetcEffect DEF n, nn
      <4> QED BY <4>2, <1>2, <1>3 DEF One
    <3>2. CASE con_peek # BreakWord
      <4>1. UNCHANGED <<kb, pending_scan>>
        BY <2>2, <3>2 DEF DropWord, kbd
      <4>2. ~HasWord
        BY <3>2 DEF HasWord, con_peek, BufferType
      <4> QED BY <4>1, <4>2, <1>2 DEF BufferType, HasWord, n, nn, Word
    <3> QED BY <3>1, <3>2
  <2>4. Noticed'
    BY <2>1, <2>3 DEF Noticed, CtrlC
  <2>5. Account'
    BY <1>1, <1>2, <2>1, <2>3, Frugal DEF One, n, nn
  <2> QED BY <2>1, <2>3, <2>4, <2>5
<1>6. CASE TakeCtrlC
  <2>1. /\ cpu.at = "take" /\ cpu'.at = "return" /\ cpu'.al = CtrlC
        /\ UNCHANGED <<keyed, ctrl_break_hit>> /\ signalled' = signalled + 1
    BY <1>1, <1>6 DEF TakeCtrlC, break_signal, Finish, Quiet
  <2>2. con_getc
    BY <1>6 DEF TakeCtrlC
  <2>3. BufferType' /\ ~HasWord' /\ n = nn + One(Got = CtrlC)
    BY <2>2, GetcEffect DEF n, nn
  <2>4. HasWord \/ Got = CtrlC
    BY <2>1 DEF Noticed, Got, CtrlC
  <2>5. Noticed'
    BY <2>1, <2>3 DEF Noticed, CtrlC
  <2>6. Account'
    BY <1>1, <1>2, <1>3, <2>1, <2>3, <2>4, Frugal DEF One, n, nn
  <2> QED BY <2>1, <2>3, <2>5, <2>6
<1>7. CASE GetKey
  <2>1. cpu.at = "get" /\ con_getc /\ UNCHANGED <<ctrl_break_hit, keyed>>
    BY <1>7 DEF GetKey
  <2>2. /\ BufferType' /\ ~HasWord' /\ n = nn + One(Got = CtrlC)
        /\ Got = 0 => pending_scan' # 0 \/ HasWord
    BY <2>1, GetcEffect DEF n, nn
  <2>3. HasWord => ctrl_break_hit
    BY <2>1 DEF Noticed
  <2>4. \/ cpu'.at = "return" /\ cpu'.fn = "raw" /\ signalled' = signalled
        \/ Got = CtrlC /\ cpu'.at = "return" /\ cpu'.al = CtrlC /\ signalled' = signalled + 1
        \/ Got = 0 /\ cpu'.at = "zero" /\ signalled' = signalled
        \/ Got # 0 /\ cpu'.at = "return" /\ cpu'.al = Got /\ signalled' = signalled
        \/ cpu'.at = "get" /\ signalled' = signalled
    BY <1>7, <1>1 DEF GetKey, Finish, NoSignal, break_signal, Go, AfterZero
  <2>5. Noticed'
    BY <2>1, <2>2, <2>3, <2>4 DEF Noticed, CtrlC
  <2>6. cpu'.at \notin {"take", "drop"} /\ signalled' \in Nat
    BY <2>4, <1>1
  <2>7. signalled' - signalled <= n - nn
    BY <1>1, <1>2, <1>3, <2>2, <2>4 DEF One
  <2>8. Account'
    BY <1>1, <1>2, <1>3, <2>1, <2>2, <2>6, <2>7, Frugal DEF One, n, nn
  <2> QED BY <2>1, <2>2, <2>5, <2>8
<1>8. ASSUME \/ con_getc
             \/ UNCHANGED <<kb, pending_scan>>
                /\ ~HasWord,
             cpu.at \in {"swallow", "poll", "flush"},
             cpu'.at \in {"get", "return", "flush", "check", "poll"},
             cpu'.at \in {"return", "flush", "poll"} => cpu'.fn # "char",
             UNCHANGED <<ctrl_break_hit, keyed, signalled>>
      PROVE  BufferType' /\ Noticed' /\ Account'
  <2>1. BufferType' /\ ~HasWord' /\ nn <= n /\ nn \in Nat
    <3>1. CASE con_getc
      <4>1. BufferType' /\ ~HasWord' /\ n = nn + One(Got = CtrlC)
        BY <3>1, GetcEffect DEF n, nn
      <4> QED BY <4>1, <1>2, <1>3 DEF One
    <3>2. CASE UNCHANGED <<kb, pending_scan>> /\ ~HasWord
      BY <3>2, <1>2 DEF BufferType, HasWord, n, nn, Word
    <3> QED BY <1>8, <3>1, <3>2
  <2>2. Noticed'
    BY <1>8, <2>1 DEF Noticed
  <2>3. Account'
    BY <1>1, <1>2, <1>8, <2>1, Frugal DEF One, n, nn
  <2> QED BY <2>1, <2>2, <2>3
<1>9. CASE Swallow
  BY <1>8, <1>9, <1>1 DEF Swallow, Go, NoSignal, Quiet
<1>10. ~con_kbhit => ~HasWord
  BY DEF con_kbhit, HasWord
<1>11. CASE f06_direct
  <2>1. /\ cpu.at = "poll" /\ cpu'.at = "return" /\ cpu'.fn = cpu.fn
        /\ UNCHANGED <<ctrl_break_hit, keyed, signalled>>
    BY <1>11, <1>1 DEF f06_direct, Finish, NoSignal, Quiet
  <2>2. con_getc \/ (UNCHANGED <<kb, pending_scan>> /\ ~HasWord)
    BY <1>11, <1>10 DEF f06_direct, kbd
  <2>3. cpu.fn # "char"
    BY <2>1 DEF Noticed
  <2> QED BY <1>8, <2>1, <2>2, <2>3
<1>12. CASE f0c_flush
  <2>1. cpu.at = "flush" /\ UNCHANGED <<ctrl_break_hit, keyed, signalled>>
    BY <1>12 DEF f0c_flush, NoSignal, Quiet
  <2>2. con_getc \/ (UNCHANGED <<kb, pending_scan>> /\ ~HasWord)
    BY <1>12, <1>10 DEF f0c_flush, kbd
  <2>3. cpu.fn # "char"
    BY <2>1 DEF Noticed
  <2>4. \A sub \in Subs : \A place \in Begin(sub) :
          /\ place \in {"get", "return", "check", "poll"}
          /\ place \in {"return", "poll"} => sub # "char"
    BY DEF Begin, Subs
  <2>5. \/ cpu' = cpu
        \/ cpu' = [cpu EXCEPT !.at = "return", !.al = 0]
        \/ \E sub \in Subs : \E place \in Begin(sub) : cpu' = [at |-> place, fn |-> sub, al |-> -1]
    BY <1>12 DEF f0c_flush, Finish
  <2>6. /\ cpu'.at \in {"get", "return", "flush", "check", "poll"}
        /\ cpu'.at \in {"return", "flush", "poll"} => cpu'.fn # "char"
    <3>1. CASE cpu' = cpu
      BY <2>1, <2>3, <3>1
    <3>2. CASE cpu' = [cpu EXCEPT !.at = "return", !.al = 0]
      <4>1. cpu'.at = "return" /\ cpu'.fn = cpu.fn
        BY <3>2, <1>1
      <4> QED BY <4>1, <2>3
    <3>3. CASE \E sub \in Subs : \E place \in Begin(sub) : cpu' = [at |-> place, fn |-> sub, al |-> -1]
      <4>1. PICK sub \in Subs : \E place \in Begin(sub) : cpu' = [at |-> place, fn |-> sub, al |-> -1]
        BY <3>3
      <4>2. PICK place \in Begin(sub) : cpu' = [at |-> place, fn |-> sub, al |-> -1]
        BY <4>1
      <4>3. cpu'.at = place /\ cpu'.fn = sub
        BY <4>2
      <4> QED BY <2>4, <4>1, <4>2, <4>3
    <3> QED BY <2>5, <3>1, <3>2, <3>3
  <2> QED BY <1>8, <2>1, <2>2, <2>6
<1>13. CASE int21_epilogue
  <2>1. /\ cpu.at = "return" /\ cpu'.at \in {"handler", "user"}
        /\ UNCHANGED <<kb, pending_scan, ctrl_break_hit, keyed, signalled>>
    BY <1>13, <1>1 DEF int21_epilogue, Go, kbd
  <2>2. BufferType' /\ HasWord' = HasWord /\ nn = n
    BY <2>1 DEF BufferType, HasWord, n, nn, Word
  <2>3. Noticed'
    BY <2>1, <2>2 DEF Noticed
  <2>4. Account'
    BY <1>1, <1>2, <2>1, <2>2, Frugal DEF One, n, nn
  <2> QED BY <2>1, <2>2, <2>3, <2>4
<1> QED BY <1>4, <1>5, <1>6, <1>7, <1>8, <1>9, <1>11, <1>12, <1>13 DEF KernelStep

\* The steps of the programs and their handlers, and of the keyboard.
LEMMA NextBreaks ==
  ASSUME PlainKeys, ~SplitBreak, Breaks, [ConsoleNext]_console_vars
  PROVE  ctrl_break_hit' \in BOOLEAN /\ BufferType' /\ Noticed' /\ Account'
<1> DEFINE n  == Cardinality(Ctrls(kb))
           nn == Cardinality(Ctrls(kb'))
<1> USE DEF Breaks
<1>1. /\ cpu = [at |-> cpu.at, fn |-> cpu.fn, al |-> cpu.al]
      /\ signalled \in Nat /\ keyed \in Nat
  BY DEF Flags, Account
<1>2. n \in Nat
  BY CtrlsFinite DEF BufferType
<1> HIDE DEF n, nn
<1>3. CASE KernelStep
  BY <1>3, KernelBreaks
<1>4. ASSUME UNCHANGED <<kb, pending_scan, ctrl_break_hit, keyed, signalled>>,
             cpu.at \in {"user", "handler", "abort"},
             cpu'.at \notin {"drop", "take", "zero"},
             cpu'.at \in {"poll", "flush"} => cpu'.fn # "char",
             cpu'.at = "return" => cpu'.al # 0
      PROVE  ctrl_break_hit' \in BOOLEAN /\ BufferType' /\ Noticed' /\ Account'
  <2>1. BufferType' /\ HasWord' = HasWord /\ nn = n
    BY <1>4 DEF BufferType, HasWord, n, nn, Word
  <2>2. Noticed'
    BY <1>4, <2>1 DEF Noticed
  <2>3. Account'
    BY <1>1, <1>2, <1>4, <2>1, Frugal DEF One, n, nn
  <2> QED BY <1>4, <2>1, <2>2, <2>3
<1>5. ASSUME NEW fn \in Calls, int21_dispatch(fn)
      PROVE  ctrl_break_hit' \in BOOLEAN /\ BufferType' /\ Noticed' /\ Account'
  <2>1. PICK place \in Begin(fn) : cpu' = [at |-> place, fn |-> fn, al |-> -1]
    BY <1>5 DEF int21_dispatch
  <2>2. place \in {"check", "return", "get", "poll", "flush"} /\ (place \in {"poll", "flush"} => fn # "char")
    BY <1>5 DEF Begin, Calls, Checked
  <2>3. cpu'.at = place /\ cpu'.fn = fn /\ cpu'.al = -1
    BY <2>1
  <2>4. cpu.at = "user" /\ UNCHANGED <<kb, pending_scan, ctrl_break_hit, keyed, signalled>>
    BY <1>5 DEF int21_dispatch, NoSignal, kbd
  <2> QED BY <1>4, <2>2, <2>3, <2>4
<1>6. CASE int21_break
  <2>1. cpu'.at \in {"user", "abort"}
    BY <1>6, <1>1 DEF int21_break, Go
  <2>2. cpu.at = "handler" /\ UNCHANGED <<kb, pending_scan, ctrl_break_hit, keyed, signalled>>
    BY <1>6 DEF int21_break, NoSignal, kbd
  <2> QED BY <1>4, <2>1, <2>2
<1>7. CASE proc_terminate \/ f31_tsr
  <2>1. proc_unwind /\ cpu.at \in {"user", "abort", "handler"}
    BY <1>7 DEF proc_terminate, f31_tsr
  <2>2. cpu'.at = "user" /\ UNCHANGED <<kb, pending_scan, ctrl_break_hit, keyed, signalled>>
    BY <2>1 DEF proc_unwind, NoSignal, kbd
  <2> QED BY <1>4, <2>1, <2>2
<1>8. CASE f4b_exec \/ f25_setvect
  <2>1. /\ cpu' = cpu /\ cpu.at = "user"
        /\ UNCHANGED <<kb, pending_scan, ctrl_break_hit, keyed, signalled>>
    BY <1>8 DEF f4b_exec, f25_setvect, NoSignal, kbd
  <2> QED BY <1>4, <2>1
<1>9. ASSUME NEW k \in Keys, KeyPress(k)
      PROVE  ctrl_break_hit' \in BOOLEAN /\ BufferType' /\ Noticed' /\ Account'
  <2>1. /\ kb' = Append(kb, k)
        /\ keyed' = IF Char(k) = CtrlC THEN keyed + 1 ELSE keyed
        /\ UNCHANGED <<pending_scan, ctrl_break_hit, signalled, cpu>>
    BY <1>9 DEF KeyPress, NoSignal
  <2>2. k \in Word
    BY DEF Word
  <2>3. k # BreakWord
    BY DEF PlainKeys, BreakWord, Char, Scan
  <2>4. kb \in Seq(Word)
    BY DEF BufferType
  <2>5. /\ kb' \in Seq(Word) /\ Len(kb') = Len(kb) + 1 /\ Len(kb) \in Nat
        /\ kb'[Len(kb) + 1] = k /\ \A i \in 1..Len(kb) : kb'[i] = kb[i]
    BY <2>1, <2>2, <2>4, AppendProperties, LenProperties
  <2>6. \A i \in 2..Len(kb') : kb'[i] # BreakWord
    <3> TAKE i \in 2..Len(kb')
    <3>1. CASE i = Len(kb) + 1
      BY <2>3, <2>5, <3>1
    <3>2. CASE i # Len(kb) + 1
      <4>1. i \in 2..Len(kb) /\ i \in 1..Len(kb)
        BY <2>5, <3>2
      <4> QED BY <2>5, <4>1 DEF BufferType
    <3> QED BY <3>1, <3>2
  <2>7. kb' # <<>> /\ (kb # <<>> => kb'[1] = kb[1]) /\ HasWord' = HasWord
    <3>1. CASE kb = <<>>
      <4>1. Len(kb) = 0 /\ kb' # <<>> /\ kb'[1] = k
        BY <2>4, <2>5, <3>1, EmptySeq
      <4> QED BY <3>1, <4>1, <2>3 DEF HasWord
    <3>2. CASE kb # <<>>
      <4>1. 1 \in 1..Len(kb) /\ kb' # <<>>
        BY <2>4, <2>5, <3>2, EmptySeq
      <4> QED BY <3>2, <4>1, <2>5 DEF HasWord
    <3> QED BY <3>1, <3>2
  <2>8. BufferType'
    BY <2>1, <2>5, <2>6, <2>7 DEF BufferType, Word
  <2>9. nn = n + One(Char(k) = CtrlC)
    BY <2>1, <2>2, <2>4, CtrlsAppend DEF n, nn
  <2>10. Noticed'
    BY <2>1, <2>7 DEF Noticed
  <2>11. Account'
    BY <1>1, <1>2, <2>1, <2>7, <2>9, Frugal DEF One, n, nn
  <2> QED BY <2>1, <2>8, <2>10, <2>11
<1>10. CASE int1b_entry
  <2>1. /\ pending_scan = 0 /\ kb' = <<BreakWord>> /\ ctrl_break_hit' = TRUE
        /\ keyed' = keyed + 1 /\ UNCHANGED <<pending_scan, signalled, cpu>>
    BY <1>10 DEF int1b_entry, NoSignal
  <2>2. /\ kb' \in Seq(Word) /\ Len(kb') = 1 /\ kb' # <<>> /\ kb'[1] = BreakWord
    BY <2>1 DEF Word
  <2>3. BufferType' /\ HasWord'
    BY <2>1, <2>2 DEF BufferType, HasWord, Word, CtrlC
  <2>4. nn = 0
    <3>1. Ctrls(kb') = {}
      BY <2>1, <2>2 DEF Ctrls, BreakWord, Char, CtrlC
    <3> QED BY <3>1, FS_EmptySet DEF nn
  <2>5. Noticed'
    BY <2>1, <2>2, <2>3 DEF Noticed
  <2>6. cpu.at = "take" /\ ~HasWord => n >= 1
    <3> SUFFICES ASSUME cpu.at = "take", ~HasWord PROVE n >= 1
      OBVIOUS
    <3>1. kb # <<>> /\ Char(kb[1]) = CtrlC /\ kb \in Seq(Word)
      BY DEF Noticed, BufferType
    <3>2. n = Cardinality(Ctrls(Tail(kb))) + One(TRUE)
      BY <3>1, CtrlsTail DEF n
    <3>3. Tail(kb) \in Seq(Word)
      BY <3>1, HeadTailProperties
    <3>4. Cardinality(Ctrls(Tail(kb))) \in Nat
      BY <3>3, CtrlsFinite
    <3> QED BY <3>2, <3>4 DEF One
  <2>7. Account'
    BY <1>1, <1>2, <2>1, <2>3, <2>4, <2>6, Frugal DEF One, n, nn
  <2> QED BY <2>1, <2>3, <2>5, <2>7
<1>11. CASE UNCHANGED console_vars
  <2>1. UNCHANGED <<kb, pending_scan, ctrl_break_hit, keyed, signalled, cpu>>
    BY <1>11 DEF console_vars
  <2>2. BufferType' /\ HasWord' = HasWord /\ nn = n
    BY <2>1 DEF BufferType, HasWord, n, nn, Word
  <2>3. Noticed'
    BY <2>1, <2>2 DEF Noticed
  <2>4. Account'
    BY <1>1, <1>2, <2>1, <2>2, Frugal DEF One, n, nn
  <2> QED BY <2>1, <2>2, <2>3, <2>4
<1> QED BY <1>3, <1>5, <1>6, <1>7, <1>8, <1>9, <1>10, <1>11 DEF ConsoleNext

\* INT 23h is called at most once for every Ctrl-C and Ctrl-Break keyed, and
\* a program that gets 0 from 01h or 08h gets a scan code next, wherever in a
\* call the keys and the interrupt arrive; for keyboards whose keys can be
\* told from a break, and Ctrl-Break not between the two halves of a key.
THEOREM BreaksCounted ==
  ASSUME PlainKeys, ~SplitBreak
  PROVE  ConsoleSpec => []BreaksExact
<1>1. Init => Breaks
  BY InitBreaks, InitHandlers DEF Breaks
<1>2. Breaks /\ [ConsoleNext]_console_vars => Breaks'
  <2> SUFFICES ASSUME Breaks, [ConsoleNext]_console_vars PROVE Breaks'
    OBVIOUS
  <2>1. Flags'
    BY NextFlags DEF Breaks
  <2>2. ctrl_break_hit' \in BOOLEAN /\ BufferType' /\ Noticed' /\ Account'
    BY NextBreaks
  <2> QED BY <2>1, <2>2 DEF Breaks
<1>3. Breaks => BreaksExact
  <2> SUFFICES ASSUME Breaks PROVE BreaksExact
    OBVIOUS
  <2>1. Cardinality(Ctrls(kb)) \in Nat
    BY CtrlsFinite DEF Breaks, BufferType
  <2>2. Owed \in Nat
    BY <2>1 DEF Owed, One
  <2>3. signalled <= keyed
    BY <2>2 DEF Breaks, Account
  <2> QED BY <2>3 DEF Breaks, Noticed, BreaksExact
<1> QED BY <1>1, <1>2, <1>3, PTL DEF ConsoleSpec

----------------------------------------------------------------------------
(* The shell.                                                              *)

\* The files that are open where the shell is.
Holds(place) ==
  CASE place = "type"   -> {"text"}
    [] place = "create" -> {"source"}
    [] place = "copy"   -> {"source", "target"}
    [] place = "load"   -> {"batch"}
    [] OTHER            -> {}

\* Where the shell is between beginning a command and having carried it out.
Carrying == {"say", "type", "create", "copy", "child", "done"}
Frame    == [file : DOMAIN Batch, pos : Nat]

ShellInv ==
  /\ at \in Carrying \cup {"boot", "prompt", "batch", "line", "load"}
  /\ opened = Holds(at)
  \* the calls of run_batch
  /\ frames \in Seq(Frame)
  /\ \A i \in 1..Len(frames) : frames[i].pos <= Len(Batch[frames[i].file])
  /\ batch_depth = Len(frames) /\ batch_depth <= BATCH_DEPTH
  /\ NamesBatch(cmd)
  /\ at = "load" => batch_depth < BATCH_DEPTH /\ cmd.op = "batch"
  /\ at = "batch" => frames # <<>>
  /\ at \in {"boot", "prompt"} => frames = <<>>
  \* the flag, and what has begun since it went up
  /\ at \in {"boot", "prompt"} => ~shell_break_hit
  /\ begun = 0 \/ (begun = 1 /\ shell_break_hit /\ at \in Carrying)

LEMMA NopNames == NamesBatch(Nop) /\ Nop.op = "rem"
BY DEF NamesBatch, Nop

\* The calls of run_batch under way, when the last one returns.
LEMMA ReturnFrames ==
  ASSUME ShellInv, frames # <<>>, Return
  PROVE  /\ frames' \in Seq(Frame) /\ Len(frames') = Len(frames) - 1
         /\ \A i \in 1..Len(frames') : frames'[i].pos <= Len(Batch[frames'[i].file])
         /\ batch_depth' = Len(frames') /\ batch_depth' <= BATCH_DEPTH
<1>1. frames \in Seq(Frame) /\ Len(frames) \in Nat /\ Len(frames) > 0
  BY DEF ShellInv
<1> QED BY <1>1, ShellAssumption DEF ShellInv, Return

LEMMA InitShell == ShellInit => ShellInv
<1> SUFFICES ASSUME ShellInit PROVE ShellInv
  OBVIOUS
<1>1. frames = <<>> /\ Len(frames) = 0 /\ frames \in Seq(Frame)
  BY DEF ShellInit
<1> QED BY <1>1, NopNames, ShellAssumption DEF ShellInit, ShellInv, Holds, Carrying

LEMMA StepShell ==
  ASSUME ShellInv, [ShellNext]_shell_vars
  PROVE  ShellInv'
<1> USE DEF BatchCalls, Settings
<1>1. CASE Boot
  <2>1. \A f \in Autoexec : NamesBatch([Nop EXCEPT !.op = "batch", !.file = f])
    BY ShellAssumption DEF NamesBatch, Nop
  <2> QED BY <1>1, <2>1 DEF Boot, ShellInv, Holds, Carrying
<1>2. CASE NextLine
  <2>1. frames # <<>> /\ Len(frames) \in Nat /\ Len(frames) \in 1..Len(frames)
    BY <1>2 DEF NextLine, ShellInv
  <2>2. /\ Top \in Frame /\ Top.pos <= Len(Batch[Top.file]) /\ Len(Batch[Top.file]) \in Nat
    <3>1. Top \in Frame /\ Top.pos <= Len(Batch[Top.file])
      BY <2>1 DEF Top, ShellInv
    <3> QED BY <3>1, ShellAssumption DEF Frame
  <2>3. CASE Top.pos = Len(Batch[Top.file])
    BY <1>2, <2>1, <2>3, ReturnFrames DEF NextLine, ShellInv, Holds, Carrying
  <2>4. CASE Top.pos # Len(Batch[Top.file])
    <3> DEFINE c == Batch[Top.file][Top.pos + 1]
    <3>1. Top.pos + 1 \in 1..Len(Batch[Top.file]) /\ Top.file \in DOMAIN Batch
      BY <2>2, <2>4 DEF Frame
    <3>2. NamesBatch(c)
      BY <3>1, ShellAssumption
    <3>3. frames' = [frames EXCEPT ![Len(frames)] = [file |-> Top.file, pos |-> Top.pos + 1]]
      BY <1>2, <2>1, <2>2, <2>4 DEF NextLine, Top, Frame
    <3>4. [file |-> Top.file, pos |-> Top.pos + 1] \in Frame
      BY <2>2 DEF Frame
    <3>5. /\ frames' \in Seq(Frame) /\ Len(frames') = Len(frames) /\ frames' # <<>>
          /\ \A i \in 1..Len(frames') : frames'[i].pos <= Len(Batch[frames'[i].file])
      BY <2>1, <3>1, <3>3, <3>4 DEF ShellInv
    <3>6. /\ IF c.op = "empty" THEN UNCHANGED <<at, cmd>> ELSE at' = "line" /\ cmd' = c
          /\ UNCHANGED <<batch_depth, opened, begun, shell_break_hit>> /\ at = "batch"
      BY <1>2, <2>4 DEF NextLine
    <3> HIDE DEF c
    <3> QED BY <3>2, <3>5, <3>6 DEF ShellInv, Holds, Carrying
  <2> QED BY <2>3, <2>4
<1>3. CASE Done
  <2>1. CASE frames = <<>>
    BY <1>3, <2>1, NopNames DEF Done, ShellInv, Holds, Carrying
  <2>2. CASE frames # <<>> /\ Abandons
    BY <1>3, <2>2, ReturnFrames, NopNames DEF Done, Abandons, ShellInv, Holds, Carrying
  <2>3. CASE frames # <<>> /\ ~Abandons
    BY <1>3, <2>3, NopNames DEF Done, Abandons, ShellInv, Holds, Carrying
  <2> QED BY <2>1, <2>2, <2>3
<1>4. CASE \E c \in Typed : Prompt(c)
  BY <1>4, ShellAssumption DEF Prompt, ShellInv, Holds, Carrying
<1>5. CASE Plain \/ cmd_echo \/ cmd_set \/ cmd_setver
  BY <1>5, NopNames DEF Plain, cmd_echo, cmd_set, cmd_setver, Executes, ShellInv, Holds, Carrying
<1>6. CASE cmd_type \/ TypeEnds
  BY <1>6, NopNames DEF cmd_type, TypeEnds, Executes, Goes, ShellInv, Holds, Carrying
<1>7. CASE cmd_copy \/ CopyStep
  BY <1>7, NopNames DEF cmd_copy, CopyStep, CloseSource, Executes, Goes, ShellInv, Holds, Carrying
<1>8. CASE run_external
  BY <1>8, NopNames DEF run_external, Executes, Goes, ShellInv, Holds, Carrying
<1>9. CASE run_batch
  BY <1>9, NopNames DEF run_batch, Executes, ShellInv, Holds, Carrying
<1>10. CASE LoadBatch
  <2>1. [file |-> cmd.file, pos |-> 0] \in Frame
    BY <1>10 DEF LoadBatch, ShellInv, NamesBatch, Frame
  <2>2. Len(Batch[cmd.file]) \in Nat
    BY <1>10, ShellAssumption DEF LoadBatch, ShellInv, NamesBatch
  <2>3. frames \in Seq(Frame) /\ frames' = Append(frames, [file |-> cmd.file, pos |-> 0])
    BY <1>10 DEF LoadBatch, ShellInv
  <2>4. /\ frames' \in Seq(Frame) /\ Len(frames') = Len(frames) + 1 /\ frames' # <<>>
        /\ \A i \in 1..Len(frames') : frames'[i].pos <= Len(Batch[frames'[i].file])
    <3>1. \A i \in 1..Len(frames) : frames'[i] = frames[i]
      BY <2>1, <2>3
    <3>2. frames'[Len(frames) + 1] = [file |-> cmd.file, pos |-> 0]
      BY <2>1, <2>3
    <3>3. frames' \in Seq(Frame) /\ Len(frames') = Len(frames) + 1 /\ Len(frames) \in Nat
      BY <2>1, <2>3
    <3>4. frames' # <<>>
      BY <3>3
    <3>5. \A i \in 1..Len(frames') : i = Len(frames) + 1 \/ i \in 1..Len(frames)
      BY <3>3
    <3> QED BY <2>2, <3>1, <3>2, <3>3, <3>4, <3>5 DEF ShellInv
  <2>5. opened' = {} /\ batch_depth' = batch_depth + 1 /\ at' = "batch" /\ cmd' = Nop
        /\ UNCHANGED <<shell_break_hit, begun>> /\ at = "load"
    BY <1>10 DEF LoadBatch, ShellInv, Holds
  <2>6. Len(frames) \in Nat /\ batch_depth = Len(frames) /\ batch_depth < BATCH_DEPTH /\ begun = 0
    BY <2>3, <2>5 DEF ShellInv, Carrying
  <2> QED BY <2>4, <2>5, <2>6, NopNames, ShellAssumption DEF ShellInv, Holds, Carrying
<1>11. CASE Said
  BY <1>11 DEF Said, Goes, ShellInv, Holds, Carrying
<1>12. CASE Exit
  <2>1. frames' = <<>> /\ Len(frames') = 0 /\ frames' \in Seq(Frame)
    BY <1>12 DEF Exit
  <2> QED BY <1>12, <2>1, NopNames, ShellAssumption DEF Exit, ShellInv, Holds, Carrying
<1>13. CASE break_handler
  BY <1>13 DEF break_handler, ShellInv, Holds, Carrying
<1>14. CASE UNCHANGED shell_vars
  BY <1>14 DEF shell_vars, ShellInv, Holds, Carrying
<1> QED BY <1>1, <1>2, <1>3, <1>4, <1>5, <1>6, <1>7, <1>8, <1>9, <1>10, <1>11, <1>12, <1>13, <1>14,
           Zenon DEF ShellNext

LEMMA SpecShell == ShellSpec => []ShellInv
<1>1. ShellInit => ShellInv
  BY InitShell
<1>2. ShellInv /\ [ShellNext]_shell_vars => ShellInv'
  BY StepShell
<1> QED BY <1>1, <1>2, PTL DEF ShellSpec

\* After Ctrl-C at most one more command begins before the prompt, whatever
\* batch files call one another and however deep.
THEOREM BreakEndsJob == ShellSpec => []JobAbandoned
<1>1. ShellInv => JobAbandoned
  BY DEF ShellInv, JobAbandoned
<1> QED BY <1>1, SpecShell, PTL

\* Between commands no file is open, and the depth of nesting is the number of
\* calls of run_batch under way.
THEOREM NoFileLeft == ShellSpec => []NothingLeft
<1>1. ShellInv => NothingLeft
  BY DEF ShellInv, NothingLeft, Holds
<1> QED BY <1>1, SpecShell, PTL

----------------------------------------------------------------------------
(* The environment block of the shell.                                     *)

Assignments == [Variables -> Texts]

LEMMA TextsAre ==
  /\ \A v \in Texts : v \in Seq(Nat) /\ Len(v) \in Nat /\ DOMAIN v = 1..Len(v)
                      /\ \A i \in 1..Len(v) : v[i] # NUL
  /\ \A n \in Variables : n \in Texts /\ \A i \in 1..Len(n) : n[i] # EQ
<1>1. \A v \in Texts : v \in Seq(Nat) /\ \A i \in 1..Len(v) : v[i] # NUL
  BY DEF Texts
<1>2. \A v \in Texts : Len(v) \in Nat /\ DOMAIN v = 1..Len(v)
  BY <1>1, LenProperties
<1>3. \A n \in Variables : n \in Texts /\ \A i \in 1..Len(n) : n[i] # EQ
  BY SettingsAssumption
<1> QED BY <1>1, <1>2, <1>3

\* The bytes of a string: a name has no "=", and NUL is only at the end.
LEMMA BytesAre ==
  ASSUME NEW n \in Variables, NEW v \in Texts
  PROVE  /\ Size(n, v) \in Nat /\ Size(n, v) = Len(n) + Len(v) + 2 /\ Len(n) \in Nat /\ Len(v) \in Nat
         /\ \A i \in 1..Len(n) : Byte(n, v, i) = n[i] /\ n[i] # EQ /\ n[i] # NUL
         /\ Byte(n, v, Len(n) + 1) = EQ
         /\ \A i \in 1..Len(v) : Byte(n, v, Len(n) + 1 + i) = v[i] /\ v[i] # NUL
         /\ Byte(n, v, Size(n, v)) = NUL
         /\ \A i \in 1..Size(n, v) - 1 : Byte(n, v, i) # NUL
<1>1. Len(n) \in Nat /\ Len(v) \in Nat /\ \A i \in 1..Len(n) : n[i] # EQ /\ n[i] # NUL
  BY TextsAre
<1>2. \A i \in 1..Len(v) : v[i] # NUL
  BY TextsAre
<1>3. PICK x \in Nat, y \in Nat : x = Len(n) /\ y = Len(v)
  BY <1>1
<1>4. Size(n, v) = x + y + 2
  BY <1>3 DEF Size
<1>5. \A i \in 1..x : Byte(n, v, i) = n[i]
  BY <1>3 DEF Byte
<1>6. Byte(n, v, x + 1) = EQ
  BY <1>3 DEF Byte
<1>7. \A i \in 1..y : Byte(n, v, x + 1 + i) = v[i]
  <2> TAKE i \in 1..y
  <2>1. PICK j : j = x + 1 + i
    OBVIOUS
  <2>2. ~(j <= x) /\ j # x + 1 /\ j > x + 1 /\ j < x + y + 2 /\ j - x - 1 = i
    BY <1>3, <2>1
  <2>3. Byte(n, v, j) = v[j - x - 1]
    BY <1>3, <1>4, <2>2 DEF Byte
  <2> QED BY <2>1, <2>2, <2>3
<1>8. Byte(n, v, x + y + 2) = NUL
  <2>1. ~(x + y + 2 <= x) /\ x + y + 2 # x + 1 /\ ~(x + y + 2 < x + y + 2)
    BY <1>3
  <2> QED BY <1>3, <1>4, <2>1 DEF Byte
<1>9. \A i \in 1..x + y + 1 : Byte(n, v, i) # NUL
  <2> TAKE i \in 1..x + y + 1
  <2>1. CASE i <= x
    BY <1>1, <1>3, <1>5, <2>1
  <2>2. CASE i = x + 1
    BY <1>6, <2>2 DEF EQ, NUL
  <2>3. CASE i > x + 1
    <3>1. PICK j \in 1..y : i = x + 1 + j
      <4>1. i - x - 1 \in 1..y /\ i = x + 1 + (i - x - 1)
        BY <1>3, <2>3
      <4> QED BY <4>1
    <3> QED BY <1>2, <1>3, <1>7, <3>1
  <2> QED BY <1>3, <2>1, <2>2, <2>3
<1> QED BY <1>1, <1>2, <1>3, <1>4, <1>5, <1>6, <1>7, <1>8, <1>9

\* A string in the block: what is at its places.
LEMMA StringIs ==
  ASSUME NEW b, NEW m \in Assignments, NEW place, NEW e, Laid(b, m, place, e), NEW n \in Has(m)
  PROVE  /\ n \in Variables /\ m[n] \in Texts /\ m[n] # <<>> /\ place[n] \in Nat /\ e \in Nat
         /\ Size(n, m[n]) \in Nat /\ Size(n, m[n]) >= 2 /\ place[n] + Size(n, m[n]) <= e
         /\ \A i \in 1..Size(n, m[n]) : b[place[n] + i - 1] = Byte(n, m[n], i)
<1>1. n \in Variables /\ m[n] \in Texts /\ m[n] # <<>>
  BY DEF Has, Assignments
<1> QED BY <1>1, BytesAre DEF Laid

\* Strings begin at the places of the variables, and the list ends at e.
LEMMA StartsAre ==
  ASSUME NEW b, NEW m \in Assignments, NEW place, NEW e, Laid(b, m, place, e)
  PROVE  /\ \A n \in Has(m) : place[n] \in Starts(b) /\ b[place[n]] # NUL /\ place[n] < e
         /\ e \in Starts(b) /\ b[e] = NUL
         /\ \A o \in Starts(b) : o < e => \E n \in Has(m) : o = place[n]
<1>1. EnvSize \in Nat /\ e \in 0..EnvSize - 1 /\ b[e] = NUL
  BY ShellAssumption DEF Laid
<1>2. PICK sz : sz = [n \in Has(m) |-> Size(n, m[n])]
  OBVIOUS
<1>3. \A n \in Has(m) : /\ sz[n] \in Nat /\ sz[n] >= 2 /\ place[n] \in Nat /\ place[n] + sz[n] <= e
                        /\ b[place[n] + sz[n] - 1] = NUL
                        /\ \A i \in 1..sz[n] - 1 : b[place[n] + i - 1] # NUL
  <2> TAKE n \in Has(m)
  <2>1. /\ n \in Variables /\ m[n] \in Texts /\ place[n] \in Nat /\ place[n] + sz[n] <= e
        /\ \A i \in 1..sz[n] : b[place[n] + i - 1] = Byte(n, m[n], i)
        /\ sz[n] \in Nat /\ sz[n] >= 2
    <3>1. sz[n] = Size(n, m[n])
      BY <1>2
    <3> QED BY <3>1, StringIs
  <2>2. Byte(n, m[n], sz[n]) = NUL /\ \A i \in 1..sz[n] - 1 : Byte(n, m[n], i) # NUL
    BY <1>2, <2>1, BytesAre
  <2>3. sz[n] \in 1..sz[n] /\ \A i \in 1..sz[n] - 1 : i \in 1..sz[n]
    BY <2>1
  <2> QED BY <2>1, <2>2, <2>3
<1>4. \A p \in 0..e - 1 : \E n \in Has(m) : place[n] <= p /\ p < place[n] + sz[n]
  BY <1>2 DEF Laid
<1>5. \A n, k \in Has(m) : n = k \/ place[n] + sz[n] <= place[k] \/ place[k] + sz[k] <= place[n]
  BY <1>2 DEF Laid
<1>6. ASSUME NEW p \in 0..e - 1, b[p] = NUL, NEW n \in Has(m), place[n] <= p, p < place[n] + sz[n]
      PROVE  p = place[n] + sz[n] - 1
  <2>1. p - place[n] + 1 \in 1..sz[n] /\ place[n] + (p - place[n] + 1) - 1 = p
    BY <1>1, <1>3, <1>6
  <2>2. ~(p - place[n] + 1 \in 1..sz[n] - 1)
    BY <1>3, <1>6, <2>1
  <2> QED BY <1>1, <1>3, <2>1, <2>2
<1>7. ASSUME NEW p \in 0..e, p = 0 \/ p = e \/ (\E n \in Has(m) : p = place[n])
      PROVE  p \in Starts(b)
  <2>1. p \in 0..EnvSize - 1
    BY <1>1
  <2>2. CASE p = 0
    BY <2>1, <2>2 DEF Starts
  <2>3. CASE p # 0
    <3>1. p - 1 \in 0..e - 1
      BY <1>1, <2>3
    <3>2. PICK k \in Has(m) : place[k] <= p - 1 /\ p - 1 < place[k] + sz[k]
      BY <1>4, <3>1
    <3>3. p - 1 = place[k] + sz[k] - 1
      <4>1. CASE p = e
        BY <1>1, <1>3, <3>1, <3>2, <4>1
      <4>2. CASE \E n \in Has(m) : p = place[n]
        <5>1. PICK n \in Has(m) : p = place[n]
          BY <4>2
        <5>2. n # k
          BY <1>3, <3>1, <3>2, <5>1
        <5> QED BY <1>1, <1>3, <1>5, <3>1, <3>2, <5>1, <5>2
      <4> QED BY <1>7, <2>3, <4>1, <4>2
    <3>4. b[p - 1] = NUL
      BY <1>3, <3>3
    <3> QED BY <2>1, <3>4 DEF Starts
  <2> QED BY <2>2, <2>3
<1>8. ASSUME NEW o \in Starts(b), o < e PROVE \E n \in Has(m) : o = place[n]
  <2>1. o \in 0..EnvSize - 1 /\ (o = 0 \/ b[o - 1] = NUL)
    BY DEF Starts
  <2>2. o \in 0..e - 1
    BY <1>1, <1>8, <2>1
  <2>3. PICK n \in Has(m) : place[n] <= o /\ o < place[n] + sz[n]
    BY <1>4, <2>2
  <2>4. CASE o = place[n]
    BY <2>4
  <2>5. CASE o # place[n]
    <3>1. o # 0 /\ o - 1 \in 0..e - 1 /\ place[n] <= o - 1 /\ o - 1 < place[n] + sz[n]
      BY <1>1, <1>3, <2>2, <2>3, <2>5
    <3>2. o - 1 = place[n] + sz[n] - 1
      BY <1>6, <2>1, <3>1
    <3> QED BY <1>3, <2>2, <2>3, <3>2
  <2> QED BY <2>4, <2>5
<1>9. ASSUME NEW n \in Has(m) PROVE place[n] \in Starts(b) /\ b[place[n]] # NUL /\ place[n] < e
  <2>1. place[n] \in 0..e /\ place[n] < e
    BY <1>1, <1>3
  <2>2. 1 \in 1..sz[n] - 1 /\ place[n] + 1 - 1 = place[n]
    BY <1>3
  <2>3. b[place[n]] # NUL
    BY <1>3, <2>2
  <2> QED BY <1>7, <2>1, <2>3
<1>10. e \in Starts(b)
  <2>1. e \in 0..e
    BY <1>1
  <2> QED BY <1>7, <2>1
<1> QED BY <1>1, <1>8, <1>9, <1>10

\* The least number of a set.
LEMMA MinIs ==
  ASSUME NEW S \in SUBSET Nat, NEW x \in S, \A y \in S : x <= y
  PROVE  Min(S) = x
<1>1. PICK z : z = Min(S)
  OBVIOUS
<1>2. z \in S /\ \A y \in S : z <= y
  BY <1>1 DEF Min
<1>3. x \in Nat /\ z \in Nat /\ x <= z /\ z <= x
  BY <1>2
<1> QED BY <1>1, <1>3

LEMMA StringsAre ==
  ASSUME NEW b, NEW m \in Assignments, NEW place, NEW e, Laid(b, m, place, e)
  PROVE  env_end(b) = e /\ Strings(b) = {place[n] : n \in Has(m)}
<1>1. /\ \A n \in Has(m) : place[n] \in Starts(b) /\ b[place[n]] # NUL /\ place[n] < e
      /\ e \in Starts(b) /\ b[e] = NUL
      /\ \A o \in Starts(b) : o < e => \E n \in Has(m) : o = place[n]
  BY StartsAre
<1>2. Starts(b) \subseteq Nat /\ e \in Nat
  <2>1. EnvSize \in Nat
    BY ShellAssumption
  <2>2. e \in 0..EnvSize - 1 /\ Starts(b) \subseteq 0..EnvSize - 1
    BY DEF Laid, Starts
  <2> QED BY <2>1, <2>2
<1>3. PICK S : S = {o \in Starts(b) : b[o] = NUL}
  OBVIOUS
<1>4. S \in SUBSET Nat /\ e \in S
  BY <1>1, <1>2, <1>3
<1>5. \A o \in S : e <= o
  <2> TAKE o \in S
  <2>1. o \in Nat /\ o \in Starts(b) /\ b[o] = NUL
    BY <1>2, <1>3
  <2>2. ~(o < e)
    BY <1>1, <2>1
  <2> QED BY <1>2, <2>1, <2>2
<1>6. env_end(b) = e
  BY <1>3, <1>4, <1>5, MinIs DEF env_end
<1>7. \A o : o \in Strings(b) <=> \E n \in Has(m) : o = place[n]
  BY <1>1, <1>6 DEF Strings
<1> QED BY <1>6, <1>7

\* A name is found where its string is, and nowhere when it has no value.
LEMMA MatchesAre ==
  ASSUME NEW b, NEW m \in Assignments, NEW place, NEW e, Laid(b, m, place, e), NEW name \in Variables
  PROVE  Matches(b, name) = IF name \in Has(m) THEN {place[name]} ELSE {}
<1>1. Len(name) \in Nat /\ name \in Seq(Nat) /\ \A i \in 1..Len(name) : name[i] # EQ /\ name[i] # NUL
  BY TextsAre
<1>2. ASSUME NEW n \in Has(m) PROVE env_match(b, place[n], name) <=> n = name
  <2>1. /\ n \in Variables /\ m[n] \in Texts /\ place[n] \in Nat
        /\ \A i \in 1..Size(n, m[n]) : b[place[n] + i - 1] = Byte(n, m[n], i)
    BY StringIs
  <2>2. PICK x \in Nat : x = Len(n) /\ x + 1 <= Size(n, m[n]) /\ n \in Seq(Nat) /\ Size(n, m[n]) \in Nat
    <3>1. Len(n) \in Nat /\ Size(n, m[n]) = Len(n) + Len(m[n]) + 2 /\ Len(m[n]) \in Nat
      BY <2>1, BytesAre
    <3>2. n \in Seq(Nat)
      BY <2>1, TextsAre
    <3> QED BY <3>1, <3>2
  <2>3. \A i \in 1..x : b[place[n] + i - 1] = n[i] /\ n[i] # EQ
    <3>1. \A i \in 1..Len(n) : Byte(n, m[n], i) = n[i] /\ n[i] # EQ
      BY <2>1, BytesAre
    <3>2. \A i \in 1..x : i \in 1..Size(n, m[n])
      BY <2>2
    <3> QED BY <2>1, <2>2, <3>1, <3>2
  <2>4. b[place[n] + x] = EQ
    <3>1. x + 1 \in 1..Size(n, m[n]) /\ Byte(n, m[n], x + 1) = EQ
      BY <2>1, <2>2, BytesAre
    <3>2. b[place[n] + (x + 1) - 1] = EQ
      BY <2>1, <3>1
    <3>3. place[n] + (x + 1) - 1 = place[n] + x
      BY <2>1, <2>2
    <3> QED BY <3>2, <3>3
  <2>5. CASE n = name
    BY <2>2, <2>3, <2>4, <2>5 DEF env_match
  <2>6. ASSUME env_match(b, place[n], name) PROVE n = name
    <3>1. PICK y \in Nat : y = Len(name)
      BY <1>1
    <3>2. (\A i \in 1..y : b[place[n] + i - 1] = name[i]) /\ b[place[n] + y] = EQ
      BY <2>6, <3>1 DEF env_match
    <3>3. ~(y < x)
      <4> SUFFICES ASSUME y < x PROVE FALSE
        OBVIOUS
      <4>1. y + 1 \in 1..x /\ place[n] + (y + 1) - 1 = place[n] + y
        BY <2>1
      <4>2. b[place[n] + (y + 1) - 1] # EQ
        BY <2>3, <4>1
      <4> QED BY <3>2, <4>1, <4>2
    <3>4. ~(x < y)
      <4> SUFFICES ASSUME x < y PROVE FALSE
        OBVIOUS
      <4>1. x + 1 \in 1..y /\ place[n] + (x + 1) - 1 = place[n] + x
        BY <2>1
      <4>2. b[place[n] + (x + 1) - 1] = name[x + 1]
        BY <3>2, <4>1
      <4>3. name[x + 1] # EQ
        BY <1>1, <3>1, <4>1
      <4> QED BY <2>4, <4>1, <4>2, <4>3
    <3>5. x = y
      BY <3>3, <3>4
    <3>6. \A i \in 1..x : n[i] = name[i]
      BY <2>3, <3>2, <3>5
    <3> QED BY <1>1, <2>2, <3>1, <3>5, <3>6, SeqEqual
  <2> QED BY <2>5, <2>6
<1>3. \A o : o \in Matches(b, name) <=> \E n \in Has(m) : o = place[n] /\ env_match(b, o, name)
  <2>1. Strings(b) = {place[n] : n \in Has(m)}
    BY StringsAre
  <2>2. \A o : o \in Matches(b, name) <=> o \in Strings(b) /\ env_match(b, o, name)
    BY DEF Matches
  <2> QED BY <2>1, <2>2
<1>4. \A o : o \in Matches(b, name) <=> name \in Has(m) /\ o = place[name]
  BY <1>2, <1>3
<1> QED BY <1>4

\* What is read is the value.
LEMMA GetIs ==
  ASSUME NEW b, NEW m \in Assignments, NEW place, NEW e, Laid(b, m, place, e), NEW name \in Variables
  PROVE  env_get(b, name) = m[name]
<1>1. Matches(b, name) = IF name \in Has(m) THEN {place[name]} ELSE {}
  BY MatchesAre
<1>2. CASE name \notin Has(m)
  <2>1. m[name] = <<>>
    BY <1>2 DEF Has, Assignments
  <2>2. env_get(b, name) = <<>>
    BY <1>1, <1>2 DEF env_get
  <2> QED BY <2>1, <2>2
<1>3. CASE name \in Has(m)
  <2>1. PICK v, o : v = m[name] /\ o = place[name]
    OBVIOUS
  <2>2. /\ v \in Texts /\ o \in Nat /\ e \in Nat /\ Size(name, v) \in Nat
        /\ o + Size(name, v) <= e
        /\ \A i \in 1..Size(name, v) : b[o + i - 1] = Byte(name, v, i)
    <3>1. /\ m[name] \in Texts /\ place[name] \in Nat /\ e \in Nat /\ Size(name, m[name]) \in Nat
          /\ place[name] + Size(name, m[name]) <= e
      BY <1>3, StringIs
    <3>2. \A i \in 1..Size(name, m[name]) : b[place[name] + i - 1] = Byte(name, m[name], i)
      BY <1>3, StringIs
    <3> QED BY <2>1, <3>1, <3>2
  <2>3. PICK x \in Nat, y \in Nat : x = Len(name) /\ y = Len(v) /\ Size(name, v) = x + y + 2
    BY <2>2, BytesAre
  <2>4. EnvSize \in Nat /\ e <= EnvSize - 1
    <3>1. EnvSize \in Nat /\ e \in 0..EnvSize - 1
      BY ShellAssumption DEF Laid
    <3> QED BY <3>1
  <2>5. \A i \in 1..y : b[o + x + i] = v[i] /\ v[i] # NUL
    <3> TAKE i \in 1..y
    <3>1. x + 1 + i \in 1..x + y + 2 /\ o + (x + 1 + i) - 1 = o + x + i
      BY <2>2
    <3>2. b[o + (x + 1 + i) - 1] = Byte(name, v, x + 1 + i)
      BY <2>2, <2>3, <3>1
    <3>3. Byte(name, v, x + 1 + i) = v[i] /\ v[i] # NUL
      BY <2>2, <2>3, BytesAre
    <3> QED BY <3>1, <3>2, <3>3
  <2>6. b[o + x + y + 1] = NUL
    <3>1. x + y + 2 \in 1..x + y + 2 /\ o + (x + y + 2) - 1 = o + x + y + 1
      BY <2>2
    <3>2. b[o + (x + y + 2) - 1] = Byte(name, v, x + y + 2)
      BY <2>2, <2>3, <3>1
    <3>3. Byte(name, v, x + y + 2) = NUL
      BY <2>2, <2>3, BytesAre
    <3> QED BY <3>1, <3>2, <3>3
  <2>7. PICK S : S = {p \in o + x + 1..EnvSize - 1 : b[p] = NUL}
    OBVIOUS
  <2>8. S \in SUBSET Nat /\ o + x + y + 1 \in S
    BY <2>2, <2>3, <2>4, <2>6, <2>7
  <2>9. \A p \in S : o + x + y + 1 <= p
    <3> TAKE p \in S
    <3>1. p \in Nat /\ o + x + 1 <= p /\ b[p] = NUL
      BY <2>2, <2>4, <2>7, <2>8
    <3>2. ~(p < o + x + y + 1)
      <4> SUFFICES ASSUME p < o + x + y + 1 PROVE FALSE
        OBVIOUS
      <4>1. p - (o + x) \in 1..y /\ o + x + (p - (o + x)) = p
        BY <2>2, <3>1
      <4>2. b[o + x + (p - (o + x))] # NUL
        BY <2>5, <4>1
      <4> QED BY <3>1, <4>1, <4>2
    <3> QED BY <2>2, <3>1, <3>2
  <2>10. Min(S) = o + x + y + 1
    BY <2>8, <2>9, MinIs
  <2>11. Min({place[name]}) = o
    <3>1. {o} \in SUBSET Nat
      BY <2>2
    <3>2. Min({o}) = o
      BY <3>1, MinIs
    <3> QED BY <2>1, <3>2
  <2>12. env_get(b, name) = [i \in 1..(o + x + y + 1) - (o + x + 1) |-> b[o + x + 1 + i - 1]]
    <3>1. PICK c, z : c = o + x + 1 /\ z = o + x + y + 1
      OBVIOUS
    <3>2. Min(Matches(b, name)) + Len(name) + 1 = c
      BY <1>1, <1>3, <2>3, <2>11, <3>1
    <3>3. Min({p \in c..EnvSize - 1 : b[p] = NUL}) = z
      BY <2>7, <2>10, <3>1
    <3>4. Matches(b, name) # {}
      BY <1>1, <1>3
    <3>5. env_get(b, name) = [i \in 1..z - c |-> b[c + i - 1]]
      BY <3>2, <3>3, <3>4 DEF env_get
    <3> QED BY <3>1, <3>5
  <2>13. (o + x + y + 1) - (o + x + 1) = y
    BY <2>2
  <2>14. \A i \in 1..y : o + x + 1 + i - 1 = o + x + i
    BY <2>2
  <2>15. [i \in 1..y |-> b[o + x + 1 + i - 1]] = [i \in 1..y |-> v[i]]
    BY <2>5, <2>14
  <2>16. v = [i \in 1..y |-> v[i]]
    <3>1. v \in Seq(Nat)
      BY <2>2, TextsAre
    <3> QED BY <2>3, <3>1, LenProperties
  <2> QED BY <2>1, <2>12, <2>13, <2>15, <2>16
<1> QED BY <1>2, <1>3

\* The bytes of all strings.
Cells(m) == UNION {{n} \X (1..Size(n, m[n])) : n \in Has(m)}

LEMMA TotalCells == \A m : Total(m) = Cardinality(Cells(m))
BY DEF Total, Cells

\* The strings take as many bytes as there are in front of the end.
LEMMA TotalIs ==
  ASSUME NEW b, NEW m \in Assignments, NEW place, NEW e, Laid(b, m, place, e)
  PROVE  IsFiniteSet(Cells(m)) /\ Total(m) = e
<1>1. e \in Nat
  <2>1. EnvSize \in Nat
    BY ShellAssumption
  <2> QED BY <2>1 DEF Laid
<1>2. PICK sz : sz = [n \in Has(m) |-> Size(n, m[n])]
  OBVIOUS
<1>3. \A n \in Has(m) : sz[n] = Size(n, m[n]) /\ sz[n] \in Nat /\ place[n] \in Nat /\ place[n] + sz[n] <= e
  <2> TAKE n \in Has(m)
  <2>1. sz[n] = Size(n, m[n])
    BY <1>2
  <2> QED BY <2>1, StringIs
<1>4. PICK C : C = Cells(m)
  OBVIOUS
<1>5. \A c : c \in C <=> \E n \in Has(m) : \E i \in 1..sz[n] : c = <<n, i>>
  BY <1>3, <1>4 DEF Cells
<1> DEFINE f == [c \in C |-> place[c[1]] + c[2] - 1]
<1>6. f \in [C -> 0..e - 1]
  <2>1. ASSUME NEW c \in C PROVE place[c[1]] + c[2] - 1 \in 0..e - 1
    <3>1. PICK n \in Has(m) : \E i \in 1..sz[n] : c = <<n, i>>
      BY <1>5
    <3>2. PICK i \in 1..sz[n] : c = <<n, i>>
      BY <3>1
    <3>3. place[n] + i - 1 \in 0..e - 1
      BY <1>1, <1>3
    <3> QED BY <3>2, <3>3
  <2> QED BY <2>1
<1>7. ASSUME NEW c \in C, NEW d \in C, f[c] = f[d] PROVE c = d
  <2>1. PICK n \in Has(m), k \in Has(m) :
          (\E i \in 1..sz[n] : c = <<n, i>>) /\ (\E j \in 1..sz[k] : d = <<k, j>>)
    BY <1>5
  <2>2. PICK i \in 1..sz[n] : c = <<n, i>>
    BY <2>1
  <2>3. PICK j \in 1..sz[k] : d = <<k, j>>
    BY <2>1
  <2>4. place[n] + i - 1 = place[k] + j - 1
    BY <1>7, <2>2, <2>3
  <2>5. n = k \/ place[n] + sz[n] <= place[k] \/ place[k] + sz[k] <= place[n]
    BY <1>3 DEF Laid
  <2>6. n = k
    BY <1>3, <2>4, <2>5
  <2>7. i = j
    BY <1>3, <2>4, <2>6
  <2> QED BY <2>2, <2>3, <2>6, <2>7
<1>8. ASSUME NEW p \in 0..e - 1 PROVE \E c \in C : f[c] = p
  <2>1. PICK n \in Has(m) : place[n] <= p /\ p < place[n] + sz[n]
    BY <1>3 DEF Laid
  <2>2. p - place[n] + 1 \in 1..sz[n] /\ place[n] + (p - place[n] + 1) - 1 = p
    BY <1>3, <2>1
  <2>3. <<n, p - place[n] + 1>> \in C
    BY <1>5, <2>2
  <2>4. f[<<n, p - place[n] + 1>>] = p
    BY <2>2, <2>3
  <2> QED BY <2>3, <2>4
<1> HIDE DEF f
<1>9. f \in Bijection(C, 0..e - 1)
  <2>1. PICK T : T = 0..e - 1
    OBVIOUS
  <2>2. f \in [C -> T] /\ \A p \in T : \E c \in C : f[c] = p
    BY <1>6, <1>8, <2>1
  <2>3. f \in Surjection(C, T)
    BY <2>2 DEF Surjection
  <2>4. DOMAIN f = C /\ \A c, d \in C : f[c] = f[d] => c = d
    BY <1>7, <2>2
  <2>5. f \in Injection(C, T)
    BY <2>2, <2>4 DEF Injection, IsInjective
  <2> QED BY <2>1, <2>3, <2>5 DEF Bijection
<1>10. ExistsBijection(C, 0..e - 1)
  BY <1>9 DEF ExistsBijection
<1>11. IsFiniteSet(0..e - 1) /\ Cardinality(0..e - 1) = e
  <2>1. 0 \in Int /\ e - 1 \in Int /\ (0 > e - 1 => e = 0) /\ (~(0 > e - 1) => (e - 1) - 0 + 1 = e)
    BY <1>1
  <2> QED BY <2>1, FS_Interval
<1>12. IsFiniteSet(C) /\ Cardinality(C) = Cardinality(0..e - 1)
  <2>1. ExistsBijection(0..e - 1, C)
    BY <1>10, Fun_ExistsBijSymmetric
  <2> QED BY <1>11, <2>1, FS_Bijection
<1> QED BY <1>4, <1>11, <1>12, TotalCells

Without(m, name) == [m EXCEPT ![name] = <<>>]

LEMMA EmptyText == <<>> \in Texts
<1>1. <<>> \in Seq(Nat) /\ Len(<<>>) = 0
  OBVIOUS
<1> QED BY <1>1 DEF Texts

\* A value less.
LEMMA WithoutIs ==
  ASSUME NEW m \in Assignments, NEW name \in Variables
  PROVE  /\ Without(m, name) \in Assignments /\ Without(m, name)[name] = <<>>
         /\ Has(Without(m, name)) = Has(m) \ {name}
         /\ \A n \in Variables : n # name => Without(m, name)[n] = m[n]
         /\ name \notin Has(m) => Without(m, name) = m
<1>1. PICK u : u = Without(m, name)
  OBVIOUS
<1>2. /\ u \in Assignments /\ DOMAIN u = Variables /\ DOMAIN m = Variables
      /\ u[name] = <<>> /\ \A n \in Variables : n # name => u[n] = m[n]
  BY <1>1, EmptyText DEF Without, Assignments
<1>3. \A n : n \in Has(u) <=> n \in Has(m) /\ n # name
  BY <1>2 DEF Has
<1>4. Has(u) = Has(m) \ {name}
  BY <1>3
<1>5. name \notin Has(m) => u = m
  <2> SUFFICES ASSUME name \notin Has(m) PROVE u = m
    OBVIOUS
  <2>1. m[name] = <<>>
    BY <1>2 DEF Has
  <2>2. \A n \in Variables : u[n] = m[n]
    BY <1>2, <2>1
  <2> QED BY <1>2, <2>2 DEF Assignments
<1> QED BY <1>1, <1>2, <1>4, <1>5

\* Where strings are when the one of a name goes.
LEMMA CloseUpIs ==
  ASSUME NEW b, NEW m \in Assignments, NEW place, NEW e, Laid(b, m, place, e), NEW name \in Has(m)
  PROVE  \E to : Laid(CloseUp(b, place[name]), Without(m, name), to, e - Size(name, m[name]))
<1>1. PICK start, L : start = place[name] /\ L = Size(name, m[name])
  OBVIOUS
<1>2. PICK sz : sz = [n \in Has(m) |-> Size(n, m[n])]
  OBVIOUS
<1>3. \A n \in Has(m) : /\ sz[n] = Size(n, m[n]) /\ sz[n] \in Nat /\ sz[n] >= 2
                        /\ place[n] \in Nat /\ place[n] + sz[n] <= e /\ n \in Variables
                        /\ \A i \in 1..sz[n] : b[place[n] + i - 1] = Byte(n, m[n], i)
  <2> TAKE n \in Has(m)
  <2>1. sz[n] = Size(n, m[n])
    BY <1>2
  <2>2. /\ n \in Variables /\ place[n] \in Nat /\ Size(n, m[n]) \in Nat /\ Size(n, m[n]) >= 2
        /\ place[n] + Size(n, m[n]) <= e
        /\ \A i \in 1..Size(n, m[n]) : b[place[n] + i - 1] = Byte(n, m[n], i)
    <3>1. /\ n \in Variables /\ place[n] \in Nat /\ Size(n, m[n]) \in Nat /\ Size(n, m[n]) >= 2
          /\ place[n] + Size(n, m[n]) <= e
      BY StringIs
    <3>2. \A i \in 1..Size(n, m[n]) : b[place[n] + i - 1] = Byte(n, m[n], i)
      BY StringIs
    <3> QED BY <3>1, <3>2
  <2> QED BY <2>1, <2>2
<1>4. EnvSize \in Nat /\ e \in 0..EnvSize - 1 /\ b[e] = NUL /\ DOMAIN b = 0..EnvSize - 1
  BY ShellAssumption DEF Laid
<1>5. start \in Nat /\ L \in Nat /\ L >= 2 /\ start + L <= e /\ e \in Nat /\ L = sz[name] /\ name \in Variables
  BY <1>1, <1>3, <1>4
<1>6. \A p \in 0..e - 1 : \E n \in Has(m) : place[n] <= p /\ p < place[n] + sz[n]
  BY <1>3 DEF Laid
<1>7. \A n, k \in Has(m) : n = k \/ place[n] + sz[n] <= place[k] \/ place[k] + sz[k] <= place[n]
  BY <1>3 DEF Laid
<1>8. \A n \in Has(m) : n # name => place[n] + sz[n] <= start \/ place[n] >= start + L
  BY <1>1, <1>5, <1>7
<1>9. NextString(b, start) = start + L
  <2>1. PICK S : S = {p \in Starts(b) : p > start}
    OBVIOUS
  <2>2. S \in SUBSET Nat
    BY <1>4, <2>1 DEF Starts
  <2>3. start + L \in Starts(b)
    <3>1. CASE start + L = e
      BY <3>1, StartsAre
    <3>2. CASE start + L # e
      <4>1. start + L \in 0..e - 1
        BY <1>5, <3>2
      <4>2. PICK n \in Has(m) : place[n] <= start + L /\ start + L < place[n] + sz[n]
        BY <1>6, <4>1
      <4>3. n # name
        BY <1>1, <1>5, <4>2
      <4>4. place[n] = start + L
        BY <1>3, <1>5, <1>8, <4>2, <4>3
      <4> QED BY <4>4, StartsAre
    <3> QED BY <3>1, <3>2
  <2>4. start + L \in S
    BY <1>5, <2>1, <2>3
  <2>5. \A p \in S : start + L <= p
    <3> TAKE p \in S
    <3>1. p \in Starts(b) /\ p > start /\ p \in Nat
      BY <2>1, <2>2
    <3>2. CASE p < e
      <4>1. PICK n \in Has(m) : p = place[n]
        BY <3>1, <3>2, StartsAre
      <4>2. n # name
        BY <1>1, <1>5, <3>1, <4>1
      <4> QED BY <1>3, <1>5, <1>8, <3>1, <4>1, <4>2
    <3>3. CASE ~(p < e)
      BY <1>5, <3>1, <3>3
    <3> QED BY <3>2, <3>3
  <2>6. Min(S) = start + L
    BY <2>2, <2>4, <2>5, MinIs
  <2> QED BY <2>1, <2>6 DEF NextString
<1>10. PICK c : c = CloseUp(b, start)
  OBVIOUS
<1>11. c = [p \in 0..EnvSize - 1 |->
              IF p \in start..start + (e + 1 - (start + L)) - 1 THEN b[start + L + p - start] ELSE b[p]]
  <2>1. env_end(b) = e
    BY StringsAre
  <2> QED BY <1>4, <1>9, <1>10, <2>1 DEF CloseUp
<1>12. /\ DOMAIN c = 0..EnvSize - 1
       /\ \A p \in 0..start - 1 : c[p] = b[p]
       /\ \A p \in start..e - L : c[p] = b[p + L]
  <2>1. \A p \in 0..EnvSize - 1 :
          c[p] = IF p \in start..start + (e + 1 - (start + L)) - 1 THEN b[start + L + p - start] ELSE b[p]
    BY <1>11
  <2>2. start + (e + 1 - (start + L)) - 1 = e - L
    BY <1>5
  <2>3. \A p \in 0..start - 1 : p \in 0..EnvSize - 1 /\ p \notin start..e - L
    BY <1>4, <1>5
  <2>4. \A p \in start..e - L : p \in 0..EnvSize - 1 /\ start + L + p - start = p + L
    BY <1>4, <1>5
  <2> QED BY <1>11, <2>1, <2>2, <2>3, <2>4
<1>13. PICK u : u = Without(m, name)
  OBVIOUS
<1>14. /\ u \in Assignments /\ Has(u) = Has(m) \ {name} /\ \A n \in Has(u) : u[n] = m[n] /\ n # name
  <2>1. /\ u \in Assignments /\ Has(u) = Has(m) \ {name} /\ \A n \in Variables : n # name => u[n] = m[n]
    BY <1>5, <1>13, WithoutIs
  <2> QED BY <1>3, <2>1
<1>15. PICK to : to = [n \in Has(u) |-> IF place[n] < start THEN place[n] ELSE place[n] - L]
  OBVIOUS
<1>16. \A n \in Has(u) :
         /\ n \in Has(m) /\ Size(n, u[n]) = sz[n]
         /\ \/ place[n] + sz[n] <= start /\ to[n] = place[n]
            \/ place[n] >= start + L /\ to[n] = place[n] - L
  <2> TAKE n \in Has(u)
  <2>1. n \in Has(m) /\ n # name /\ u[n] = m[n]
    BY <1>14
  <2>2. to[n] = IF place[n] < start THEN place[n] ELSE place[n] - L
    BY <1>15
  <2>3. place[n] + sz[n] <= start => place[n] < start
    BY <1>3, <1>5, <2>1
  <2>4. place[n] >= start + L => ~(place[n] < start)
    BY <1>3, <1>5, <2>1
  <2> QED BY <1>3, <1>8, <2>1, <2>2, <2>3, <2>4
<1>17. to \in [Has(u) -> Nat]
  <2>1. \A n \in Has(u) : to[n] \in Nat
    BY <1>3, <1>5, <1>16
  <2> QED BY <1>15, <2>1
<1>18. e - L \in 0..EnvSize - 1 /\ c[e - L] = NUL
  <2>1. e - L \in start..e - L /\ e - L + L = e /\ e - L \in 0..EnvSize - 1
    BY <1>4, <1>5
  <2>2. c[e - L] = b[e - L + L]
    BY <1>12, <2>1
  <2> QED BY <1>4, <2>1, <2>2
<1>19. ASSUME NEW n \in Has(u)
       PROVE  /\ to[n] + Size(n, u[n]) <= e - L
              /\ \A i \in 1..Size(n, u[n]) : c[to[n] + i - 1] = Byte(n, u[n], i)
  <2>1. n \in Has(m) /\ Size(n, u[n]) = sz[n] /\ u[n] = m[n]
    BY <1>14, <1>16
  <2>2. PICK t \in Nat, z \in Nat : t = place[n] /\ z = sz[n] /\ z >= 2
    BY <1>3, <2>1
  <2>3. t + z <= e /\ \A i \in 1..z : b[t + i - 1] = Byte(n, m[n], i)
    BY <1>3, <2>1, <2>2
  <2>4. CASE t + z <= start
    <3>1. to[n] = t
      BY <1>5, <1>16, <2>2, <2>4
    <3>2. \A i \in 1..z : c[t + i - 1] = Byte(n, m[n], i)
      <4> TAKE i \in 1..z
      <4>1. t + i - 1 \in 0..start - 1
        BY <1>5, <2>4
      <4> QED BY <1>12, <2>3, <4>1
    <3>3. t + z <= e - L
      BY <1>5, <2>4
    <3> QED BY <2>1, <2>2, <3>1, <3>2, <3>3
  <2>5. CASE t >= start + L
    <3>1. to[n] = t - L
      BY <1>5, <1>16, <2>2, <2>5
    <3>2. \A i \in 1..z : c[t - L + i - 1] = Byte(n, m[n], i)
      <4> TAKE i \in 1..z
      <4>1. t - L + i - 1 \in start..e - L /\ t - L + i - 1 + L = t + i - 1
        BY <1>5, <2>3, <2>5
      <4>2. c[t - L + i - 1] = b[t - L + i - 1 + L]
        BY <1>12, <4>1
      <4> QED BY <2>3, <4>1, <4>2
    <3>3. t - L + z <= e - L
      BY <1>5, <2>3
    <3> QED BY <2>1, <2>2, <3>1, <3>2, <3>3
  <2> QED BY <1>16, <2>2, <2>4, <2>5
<1>20. ASSUME NEW p \in 0..e - L - 1
       PROVE  \E n \in Has(u) : to[n] <= p /\ p < to[n] + Size(n, u[n])
  <2>1. CASE p < start
    <3>1. p \in 0..e - 1
      BY <1>5
    <3>2. PICK n \in Has(m) : place[n] <= p /\ p < place[n] + sz[n]
      BY <1>6, <3>1
    <3>3. n # name
      BY <1>1, <1>5, <2>1, <3>2
    <3>4. n \in Has(u)
      BY <1>14, <3>3
    <3>5. to[n] = place[n]
      BY <1>3, <1>5, <1>16, <2>1, <3>2, <3>4
    <3> QED BY <1>16, <3>2, <3>4, <3>5
  <2>2. CASE p >= start
    <3>1. p + L \in 0..e - 1
      BY <1>5
    <3>2. PICK n \in Has(m) : place[n] <= p + L /\ p + L < place[n] + sz[n]
      BY <1>6, <3>1
    <3>3. n # name
      BY <1>1, <1>5, <2>2, <3>2
    <3>4. n \in Has(u)
      BY <1>14, <3>3
    <3>5. to[n] = place[n] - L
      BY <1>3, <1>5, <1>16, <2>2, <3>2, <3>4
    <3>6. to[n] <= p /\ p < to[n] + sz[n]
      BY <1>3, <1>5, <3>2, <3>5
    <3> QED BY <1>16, <3>4, <3>6
  <2> QED BY <1>5, <2>1, <2>2
<1>21. ASSUME NEW n \in Has(u), NEW k \in Has(u)
       PROVE  n = k \/ to[n] + Size(n, u[n]) <= to[k] \/ to[k] + Size(k, u[k]) <= to[n]
  <2>1. n \in Has(m) /\ k \in Has(m)
    BY <1>16
  <2>2. n = k \/ place[n] + sz[n] <= place[k] \/ place[k] + sz[k] <= place[n]
    BY <1>7, <2>1
  <2>3. /\ place[n] \in Nat /\ sz[n] \in Nat /\ place[k] \in Nat /\ sz[k] \in Nat
    BY <1>3, <2>1
  <2>4. \/ place[n] + sz[n] <= start /\ to[n] = place[n]
        \/ place[n] >= start + L /\ to[n] = place[n] - L
    BY <1>16
  <2>5. \/ place[k] + sz[k] <= start /\ to[k] = place[k]
        \/ place[k] >= start + L /\ to[k] = place[k] - L
    BY <1>16
  <2>6. n = k \/ to[n] + sz[n] <= to[k] \/ to[k] + sz[k] <= to[n]
    BY <1>5, <2>2, <2>3, <2>4, <2>5
  <2> QED BY <1>16, <2>6
<1>22. Laid(c, u, to, e - L)
  BY <1>12, <1>17, <1>18, <1>19, <1>20, <1>21 DEF Laid
<1> QED BY <1>1, <1>10, <1>13, <1>22

\* The way Removed goes.
Removing(b, name) ==
  LET After[k \in 0..Cardinality(Strings(b))] ==
        IF k = 0 THEN b
        ELSE LET c == After[k - 1]
             IN IF Matches(c, name) = {} THEN c ELSE CloseUp(c, Min(Matches(c, name)))
  IN After

\* One string goes, and then none is left of that name.
LEMMA RemovedIs ==
  ASSUME NEW b, NEW m \in Assignments, NEW place, NEW e, Laid(b, m, place, e), NEW name \in Variables
  PROVE  \E to, f : Laid(Removed(b, name), Without(m, name), to, f)
<1>1. PICK u : u = Without(m, name)
  OBVIOUS
<1>2. u \in Assignments /\ Has(u) = Has(m) \ {name} /\ (name \notin Has(m) => u = m)
  BY <1>1, WithoutIs
<1>3. PICK b2, to, f :
        /\ Laid(b2, u, to, f)
        /\ b2 = IF name \in Has(m) THEN CloseUp(b, place[name]) ELSE b
        /\ name \notin Has(m) => b2 = b
  <2>1. CASE name \in Has(m)
    BY <1>1, <2>1, CloseUpIs
  <2>2. CASE name \notin Has(m)
    BY <1>2, <2>2
  <2> QED BY <2>1, <2>2
<1>4. Matches(b2, name) = {}
  <2>1. name \notin Has(u)
    BY <1>2
  <2> QED BY <1>2, <1>3, <2>1, MatchesAre
<1>5. name \in Has(m) => Matches(b, name) = {place[name]} /\ Min({place[name]}) = place[name]
  <2> SUFFICES ASSUME name \in Has(m)
               PROVE  Matches(b, name) = {place[name]} /\ Min({place[name]}) = place[name]
    OBVIOUS
  <2>1. PICK o \in Nat : o = place[name]
    BY StringIs
  <2>2. {o} \in SUBSET Nat
    OBVIOUS
  <2>3. Min({o}) = o
    BY <2>2, MinIs
  <2> QED BY <2>1, <2>3, MatchesAre
<1>6. PICK N : N = Cardinality(Strings(b))
  OBVIOUS
<1>7. N \in Nat /\ (name \in Has(m) => N # 0)
  <2>1. PICK S : S = Strings(b)
    OBVIOUS
  <2>2. S \subseteq 0..EnvSize - 1 /\ EnvSize \in Nat
    BY <2>1, ShellAssumption DEF Strings, Starts
  <2>3. IsFiniteSet(0..EnvSize - 1)
    BY <2>2, FS_Interval
  <2>4. IsFiniteSet(S)
    BY <2>2, <2>3, FS_Subset
  <2>5. name \in Has(m) => S # {}
    <3>1. Strings(b) = {place[n] : n \in Has(m)}
      BY StringsAre
    <3> QED BY <2>1, <3>1
  <2>6. Cardinality(S) \in Nat /\ (Cardinality(S) = 0 <=> S = {})
    BY <2>4, FS_CardinalityType, FS_EmptySet
  <2> QED BY <1>6, <2>1, <2>5, <2>6
<1> DEFINE S == {b, b2}
           g == [k \in 1..N |-> [c \in S |-> IF Matches(c, name) = {} THEN c
                                              ELSE CloseUp(c, Min(Matches(c, name)))]]
           F == Removing(b, name)
<1>8. \A c \in S : (IF Matches(c, name) = {} THEN c ELSE CloseUp(c, Min(Matches(c, name)))) = b2
  BY <1>3, <1>4, <1>5
<1>9. g \in [1..N -> [S -> S]] /\ \A k \in 1..N : \A c \in S : g[k][c] = b2
  BY <1>8
<1>10. F = CHOOSE h : h = [k \in 0..N |->
              IF k = 0 THEN b
              ELSE IF Matches(h[k - 1], name) = {} THEN h[k - 1]
                   ELSE CloseUp(h[k - 1], Min(Matches(h[k - 1], name)))]
  BY <1>6 DEF Removing
<1> HIDE DEF g, F
<1>11. b \in S
  OBVIOUS
<1> HIDE DEF S
<1>12. PICK h \in [0..N -> S] : Lists(h, b, g, N)
  BY <1>7, <1>9, <1>11, RepeatedSteps, Zenon
<1>13. h[0] = b /\ \A k \in 1..N : h[k] = b2 /\ h[k - 1] \in S
  <2>1. h[0] = b /\ \A k \in 1..N : h[k] = g[k][h[k - 1]]
    BY <1>12 DEF Lists
  <2>2. \A k \in 1..N : k - 1 \in 0..N
    BY <1>7
  <2>3. \A k \in 1..N : h[k - 1] \in S
    BY <1>12, <2>2
  <2> QED BY <1>9, <2>1, <2>3
<1>14. h = [k \in 0..N |->
              IF k = 0 THEN b
              ELSE IF Matches(h[k - 1], name) = {} THEN h[k - 1]
                   ELSE CloseUp(h[k - 1], Min(Matches(h[k - 1], name)))]
  <2>1. \A k \in 0..N : h[k] =
          IF k = 0 THEN b
          ELSE IF Matches(h[k - 1], name) = {} THEN h[k - 1]
               ELSE CloseUp(h[k - 1], Min(Matches(h[k - 1], name)))
    <3> TAKE k \in 0..N
    <3>1. k # 0 => k \in 1..N
      BY <1>7
    <3> QED BY <1>8, <1>13, <3>1
  <2> QED BY <1>12, <2>1
<1>15. F = [k \in 0..N |->
              IF k = 0 THEN b
              ELSE IF Matches(F[k - 1], name) = {} THEN F[k - 1]
                   ELSE CloseUp(F[k - 1], Min(Matches(F[k - 1], name)))]
  BY <1>10, <1>14
<1>16. F[N] = b2
  <2>1. F[0] = b
    BY <1>7, <1>15
  <2>2. \A k \in 1..N : F[k] = IF Matches(F[k - 1], name) = {} THEN F[k - 1]
                               ELSE CloseUp(F[k - 1], Min(Matches(F[k - 1], name)))
    <3> TAKE k \in 1..N
    <3>1. k \in 0..N /\ k # 0
      BY <1>7
    <3> QED BY <1>15, <3>1
  <2>3. CASE N = 0
    BY <1>3, <1>7, <2>1, <2>3
  <2>4. CASE N # 0
    <3>1. PICK T : T = {k \in 0..N : k = 0 \/ F[k] = b2}
      OBVIOUS
    <3>2. 0 \in T
      BY <1>7, <3>1
    <3>3. \A k \in 1..N : k - 1 \in T => k \in T
      <4> TAKE k \in 1..N
      <4> HAVE k - 1 \in T
      <4>1. k \in 0..N /\ k - 1 \in 0..N
        BY <1>7
      <4>2. F[k - 1] = b \/ F[k - 1] = b2
        BY <2>1, <3>1
      <4>3. F[k - 1] \in S
        BY <4>2 DEF S
      <4>4. F[k] = b2
        BY <1>8, <2>2, <4>3
      <4> QED BY <3>1, <4>1, <4>4
    <3>4. \A k \in 0..N : k \in T
      BY <1>7, <3>2, <3>3, Upwards, Zenon
    <3>5. N \in T
      BY <1>7, <3>4
    <3> QED BY <2>4, <3>1, <3>5
  <2> QED BY <2>3, <2>4
<1>17. Removed(b, name) = F[N]
  BY <1>6 DEF Removed, Removing, F
<1> QED BY <1>1, <1>3, <1>16, <1>17

\* One list after another.
Joins(u, s, t, x, y) ==
  /\ u \in Seq(Nat) /\ Len(u) = x + y
  /\ \A i \in 1..x + y : u[i] = IF i <= x THEN s[i] ELSE t[i - x]

LEMMA Joined ==
  ASSUME NEW s \in Seq(Nat), NEW t \in Seq(Nat), NEW x \in Nat, NEW y \in Nat, x = Len(s), y = Len(t)
  PROVE  Joins(s \o t, s, t, x, y)
BY ConcatProperties DEF Joins

\* A string more, where there is room.
LEMMA AddedIs ==
  ASSUME NEW b, NEW m \in Assignments, NEW place, NEW e, Laid(b, m, place, e), NEW name \in Variables,
         m[name] = <<>>, NEW value \in Texts, value # <<>>, e + Size(name, value) + 1 <= EnvSize
  PROVE  \E to : Laid(Added(b, name, value), [m EXCEPT ![name] = value], to, e + Size(name, value))
<1>1. PICK L \in Nat : L = Size(name, value) /\ L = Len(name) + Len(value) + 2 /\ L >= 2
  BY BytesAre
<1>2. PICK s : s = name \o <<EQ>> \o value \o <<NUL, NUL>>
  OBVIOUS
<1>3. s \in Seq(Nat) /\ Len(s) = L + 1 /\ s[L + 1] = NUL /\ \A i \in 1..L : s[i] = Byte(name, value, i)
  <2>1. name \in Seq(Nat) /\ value \in Seq(Nat)
    BY TextsAre
  <2>2. PICK x \in Nat, y \in Nat : x = Len(name) /\ y = Len(value) /\ L = x + y + 2
    BY <1>1, <2>1, LenProperties
  <2>3. PICK eq, nul : eq = <<EQ>> /\ nul = <<NUL, NUL>>
    OBVIOUS
  <2>4. eq \in Seq(Nat) /\ Len(eq) = 1 /\ eq[1] = EQ /\ nul \in Seq(Nat) /\ Len(nul) = 2
        /\ nul[1] = NUL /\ nul[2] = NUL
    BY <2>3 DEF EQ, NUL
  <2>5. PICK s1 : s1 = name \o eq
    OBVIOUS
  <2>6. s1 \in Seq(Nat) /\ Len(s1) = x + 1 /\ \A i \in 1..x + 1 : s1[i] = IF i <= x THEN name[i] ELSE eq[i - x]
    <3>1. PICK one \in Nat : one = 1
      OBVIOUS
    <3>2. s1 \in Seq(Nat) /\ Len(s1) = x + one
          /\ \A i \in 1..x + one : s1[i] = IF i <= x THEN name[i] ELSE eq[i - x]
      <4>1. Joins(name \o eq, name, eq, x, one)
        BY <2>1, <2>2, <2>4, <2>5, <3>1, Joined
      <4>2. Joins(s1, name, eq, x, one)
        BY <2>5, <4>1
      <4> QED BY <4>2 DEF Joins
    <3> QED BY <3>1, <3>2
  <2>7. PICK s2 : s2 = s1 \o value
    OBVIOUS
  <2>8. s2 \in Seq(Nat) /\ Len(s2) = x + 1 + y
        /\ \A i \in 1..x + 1 + y : s2[i] = IF i <= x + 1 THEN s1[i] ELSE value[i - (x + 1)]
    <3>1. PICK z \in Nat : z = x + 1
      OBVIOUS
    <3>2. s2 \in Seq(Nat) /\ Len(s2) = z + y
          /\ \A i \in 1..z + y : s2[i] = IF i <= z THEN s1[i] ELSE value[i - z]
      <4>1. Joins(s1 \o value, s1, value, z, y)
        BY <2>1, <2>2, <2>6, <2>7, <3>1, Joined
      <4>2. Joins(s2, s1, value, z, y)
        BY <2>7, <4>1
      <4> QED BY <4>2 DEF Joins
    <3> QED BY <3>1, <3>2
  <2>9. s = s2 \o nul
    BY <1>2, <2>3, <2>5, <2>7
  <2>10. s \in Seq(Nat) /\ Len(s) = x + 1 + y + 2
         /\ \A i \in 1..x + 1 + y + 2 : s[i] = IF i <= x + 1 + y THEN s2[i] ELSE nul[i - (x + 1 + y)]
    <3>1. PICK z \in Nat, two \in Nat : z = x + 1 + y /\ two = 2
      OBVIOUS
    <3>2. s \in Seq(Nat) /\ Len(s) = z + two
          /\ \A i \in 1..z + two : s[i] = IF i <= z THEN s2[i] ELSE nul[i - z]
      <4>1. Joins(s2 \o nul, s2, nul, z, two)
        BY <2>4, <2>8, <2>9, <3>1, Joined
      <4>2. Joins(s, s2, nul, z, two)
        BY <2>9, <4>1
      <4> QED BY <4>2 DEF Joins
    <3> QED BY <3>1, <3>2
  <2>11. Len(s) = L + 1
    BY <2>2, <2>10
  <2>12. s[L + 1] = NUL
    <3>1. PICK j : j = L + 1
      OBVIOUS
    <3>2. j \in 1..x + 1 + y + 2 /\ ~(j <= x + 1 + y) /\ j - (x + 1 + y) = 2
      BY <2>2, <3>1
    <3>3. s[j] = nul[2]
      BY <2>10, <3>2
    <3> QED BY <2>4, <3>1, <3>3
  <2>13. ASSUME NEW i \in 1..L PROVE s[i] = Byte(name, value, i)
    <3>1. i \in 1..x + 1 + y + 2
      BY <2>2
    <3>2. CASE i <= x
      <4>1. i <= x + 1 + y /\ i <= x + 1 /\ i \in 1..x + 1 + y /\ i \in 1..x + 1 /\ i \in 1..x
        BY <2>2, <3>2
      <4>2. s[i] = name[i]
        BY <2>6, <2>8, <2>10, <3>1, <3>2, <4>1
      <4>3. Byte(name, value, i) = name[i]
        BY <2>2, <4>1, BytesAre
      <4> QED BY <4>2, <4>3
    <3>3. CASE i = x + 1
      <4>1. i <= x + 1 + y /\ i <= x + 1 /\ i \in 1..x + 1 + y /\ i \in 1..x + 1 /\ ~(i <= x) /\ i - x = 1
        BY <2>2, <3>3
      <4>2. s[i] = EQ
        BY <2>4, <2>6, <2>8, <2>10, <3>1, <4>1
      <4>3. Byte(name, value, x + 1) = EQ
        BY <2>2, BytesAre
      <4> QED BY <3>3, <4>2, <4>3
    <3>4. CASE i > x + 1 /\ i < L
      <4>1. i <= x + 1 + y /\ ~(i <= x + 1) /\ i \in 1..x + 1 + y /\ i - (x + 1) \in 1..y
            /\ x + 1 + (i - (x + 1)) = i
        BY <2>2, <3>4
      <4>2. s[i] = value[i - (x + 1)]
        BY <2>8, <2>10, <3>1, <4>1
      <4>3. Byte(name, value, x + 1 + (i - (x + 1))) = value[i - (x + 1)]
        BY <2>2, <4>1, BytesAre
      <4> QED BY <4>1, <4>2, <4>3
    <3>5. CASE i = L
      <4>1. ~(i <= x + 1 + y) /\ i - (x + 1 + y) = 1
        BY <2>2, <3>5
      <4>2. s[i] = NUL
        BY <2>4, <2>10, <3>1, <4>1
      <4>3. Byte(name, value, L) = NUL
        BY <1>1, BytesAre
      <4> QED BY <3>5, <4>2, <4>3
    <3> QED BY <2>2, <3>2, <3>3, <3>4, <3>5
  <2> QED BY <2>10, <2>11, <2>12, <2>13
<1>4. EnvSize \in Nat /\ e \in 0..EnvSize - 1 /\ DOMAIN b = 0..EnvSize - 1 /\ e + L + 1 <= EnvSize
  BY <1>1, ShellAssumption DEF Laid
<1>5. PICK c : c = Added(b, name, value)
  OBVIOUS
<1>6. c = [p \in 0..EnvSize - 1 |-> IF p \in e..e + Len(s) - 1 THEN s[p - e + 1] ELSE b[p]]
  <2>1. env_end(b) = e
    BY StringsAre
  <2> QED BY <1>2, <1>4, <1>5, <2>1 DEF Added
<1>7. /\ DOMAIN c = 0..EnvSize - 1
      /\ \A p \in 0..e - 1 : c[p] = b[p]
      /\ \A i \in 1..L : c[e + i - 1] = Byte(name, value, i)
      /\ c[e + L] = NUL
  <2>1. \A p \in 0..EnvSize - 1 : c[p] = IF p \in e..e + L THEN s[p - e + 1] ELSE b[p]
    <3>1. e + Len(s) - 1 = e + L
      BY <1>3, <1>4
    <3> QED BY <1>6, <3>1
  <2>2. DOMAIN c = 0..EnvSize - 1
    BY <1>6
  <2>3. \A p \in 0..e - 1 : c[p] = b[p]
    <3> TAKE p \in 0..e - 1
    <3>1. p \in 0..EnvSize - 1 /\ p \notin e..e + L
      BY <1>4
    <3> QED BY <2>1, <3>1
  <2>4. \A i \in 1..L + 1 : c[e + i - 1] = s[i]
    <3> TAKE i \in 1..L + 1
    <3>1. PICK p : p = e + i - 1
      OBVIOUS
    <3>2. p \in 0..EnvSize - 1 /\ p \in e..e + L /\ p - e + 1 = i
      BY <1>4, <3>1
    <3>3. c[p] = s[p - e + 1]
      BY <2>1, <3>2
    <3> QED BY <3>1, <3>2, <3>3
  <2>5. L + 1 \in 1..L + 1 /\ e + (L + 1) - 1 = e + L /\ \A i \in 1..L : i \in 1..L + 1
    BY <1>4
  <2>6. c[e + (L + 1) - 1] = s[L + 1]
    BY <2>4, <2>5
  <2>7. c[e + L] = NUL
    BY <1>3, <2>5, <2>6
  <2> QED BY <1>3, <2>2, <2>3, <2>4, <2>5, <2>7
<1>8. PICK u : u = [m EXCEPT ![name] = value]
  OBVIOUS
<1>9. /\ u \in Assignments /\ Has(u) = Has(m) \cup {name} /\ u[name] = value
      /\ \A n \in Variables : n # name => u[n] = m[n]
  <2>1. u \in Assignments /\ u[name] = value /\ \A n \in Variables : n # name => u[n] = m[n]
    BY <1>8 DEF Assignments
  <2>2. DOMAIN u = Variables /\ DOMAIN m = Variables
    BY <1>8 DEF Assignments
  <2>3. \A n : n \in Has(u) <=> n \in Has(m) \cup {name}
    BY <2>1, <2>2 DEF Has
  <2>4. Has(u) = Has(m) \cup {name}
    BY <2>3
  <2> QED BY <2>1, <2>4
<1>10. name \notin Has(m) /\ \A n \in Has(m) : n \in Variables /\ n # name
  BY DEF Has, Assignments
<1>11. PICK to : to = [n \in Has(u) |-> IF n = name THEN e ELSE place[n]]
  OBVIOUS
<1>12. ASSUME NEW n \in Has(m)
       PROVE  /\ n \in Has(u) /\ to[n] = place[n] /\ Size(n, u[n]) = Size(n, m[n]) /\ place[n] \in Nat
              /\ Size(n, m[n]) \in Nat /\ place[n] + Size(n, m[n]) <= e /\ u[n] = m[n]
  <2>1. n \in Has(u) /\ to[n] = place[n] /\ u[n] = m[n]
    BY <1>9, <1>10, <1>11
  <2>2. place[n] \in Nat /\ Size(n, m[n]) \in Nat /\ place[n] + Size(n, m[n]) <= e
    BY StringIs
  <2> QED BY <2>1, <2>2
<1>13. name \in Has(u) /\ to[name] = e /\ Size(name, u[name]) = L
  BY <1>1, <1>9, <1>11
<1>14. to \in [Has(u) -> Nat]
  <2>1. \A n \in Has(u) : to[n] \in Nat
    BY <1>4, <1>9, <1>12, <1>13
  <2> QED BY <1>11, <2>1
<1>15. ASSUME NEW n \in Has(u)
       PROVE  /\ to[n] + Size(n, u[n]) <= e + L
              /\ \A i \in 1..Size(n, u[n]) : c[to[n] + i - 1] = Byte(n, u[n], i)
  <2>1. CASE n = name
    <3>1. to[n] + Size(n, u[n]) <= e + L
      BY <1>4, <1>13, <2>1
    <3>2. \A i \in 1..L : c[e + i - 1] = Byte(name, value, i)
      BY <1>7
    <3> QED BY <1>9, <1>13, <2>1, <3>1, <3>2
  <2>2. CASE n \in Has(m)
    <3>1. PICK t \in Nat, z \in Nat : t = place[n] /\ z = Size(n, m[n]) /\ t + z <= e
      BY <1>12, <2>2
    <3>2. \A i \in 1..z : b[t + i - 1] = Byte(n, m[n], i)
      BY <2>2, <3>1 DEF Laid
    <3>3. \A i \in 1..z : c[t + i - 1] = Byte(n, m[n], i)
      <4> TAKE i \in 1..z
      <4>1. t + i - 1 \in 0..e - 1
        BY <1>4, <3>1
      <4> QED BY <1>7, <3>2, <4>1
    <3>4. t + z <= e + L
      BY <1>4, <3>1
    <3> QED BY <1>12, <2>2, <3>1, <3>3, <3>4
  <2> QED BY <1>9, <2>1, <2>2
<1>16. ASSUME NEW p \in 0..(e + L) - 1
       PROVE  \E n \in Has(u) : to[n] <= p /\ p < to[n] + Size(n, u[n])
  <2>1. CASE p < e
    <3>1. p \in 0..e - 1
      BY <1>4, <2>1
    <3>2. PICK n \in Has(m) : place[n] <= p /\ p < place[n] + Size(n, m[n])
      BY <3>1 DEF Laid
    <3> QED BY <1>12, <3>2
  <2>2. CASE ~(p < e)
    <3>1. e <= p /\ p < e + L
      BY <1>4, <2>2
    <3> QED BY <1>13, <3>1
  <2> QED BY <2>1, <2>2
<1>17. ASSUME NEW n \in Has(u), NEW k \in Has(u)
       PROVE  n = k \/ to[n] + Size(n, u[n]) <= to[k] \/ to[k] + Size(k, u[k]) <= to[n]
  <2>1. CASE n \in Has(m) /\ k \in Has(m)
    <3>1. n = k \/ place[n] + Size(n, m[n]) <= place[k] \/ place[k] + Size(k, m[k]) <= place[n]
      BY <2>1 DEF Laid
    <3> QED BY <1>12, <2>1, <3>1
  <2>2. CASE n = name
    BY <1>9, <1>12, <1>13, <2>2
  <2>3. CASE k = name
    BY <1>9, <1>12, <1>13, <2>3
  <2> QED BY <1>9, <2>1, <2>2, <2>3
<1>18. e + L \in 0..EnvSize - 1 /\ c[e + L] = NUL
  BY <1>4, <1>7
<1>19. Laid(c, u, to, e + L)
  BY <1>7, <1>14, <1>15, <1>16, <1>17, <1>18 DEF Laid
<1> QED BY <1>1, <1>5, <1>8, <1>19
\* A value more takes the bytes of its string.
LEMMA TotalPut ==
  ASSUME NEW m \in Assignments, NEW name \in Variables, m[name] = <<>>, IsFiniteSet(Cells(m)),
         NEW value \in Texts, value # <<>>
  PROVE  Total([m EXCEPT ![name] = value]) = Total(m) + Size(name, value)
<1>1. PICK u : u = [m EXCEPT ![name] = value]
  OBVIOUS
<1>2. /\ DOMAIN m = Variables /\ DOMAIN u = Variables /\ u[name] = value
      /\ \A n \in Variables : n # name => u[n] = m[n]
  BY <1>1 DEF Assignments
<1>3. PICK L \in Nat : L = Size(name, value)
  BY BytesAre
<1>4. PICK C, D : C = Cells(m) /\ D = {name} \X (1..L)
  OBVIOUS
<1>5. \A n : n \in Has(u) <=> n \in Has(m) \/ n = name
  BY <1>2 DEF Has
<1>6. name \notin Has(m) /\ \A n \in Has(m) : Size(n, u[n]) = Size(n, m[n])
  BY <1>2 DEF Has
<1>7. \A c : c \in C <=> \E n \in Has(m) : c \in {n} \X (1..Size(n, m[n]))
  BY <1>4 DEF Cells
<1>8. \A c : c \in Cells(u) <=> \E n \in Has(u) : c \in {n} \X (1..Size(n, u[n]))
  BY DEF Cells
<1>9. Cells(u) = C \cup D
  <2>1. \A c : c \in Cells(u) => c \in C \cup D
    <3> TAKE c
    <3> HAVE c \in Cells(u)
    <3>1. PICK n \in Has(u) : c \in {n} \X (1..Size(n, u[n]))
      BY <1>8
    <3>2. CASE n = name
      BY <1>2, <1>3, <1>4, <3>1, <3>2
    <3>3. CASE n \in Has(m)
      <4>1. c \in {n} \X (1..Size(n, m[n]))
        BY <1>6, <3>1, <3>3
      <4> QED BY <1>7, <3>3, <4>1
    <3> QED BY <1>5, <3>2, <3>3
  <2>2. \A c : c \in C => c \in Cells(u)
    <3> TAKE c
    <3> HAVE c \in C
    <3>1. PICK n \in Has(m) : c \in {n} \X (1..Size(n, m[n]))
      BY <1>7
    <3>2. n \in Has(u) /\ c \in {n} \X (1..Size(n, u[n]))
      BY <1>5, <1>6, <3>1
    <3> QED BY <1>8, <3>2
  <2>3. \A c : c \in D => c \in Cells(u)
    <3> TAKE c
    <3> HAVE c \in D
    <3>1. name \in Has(u) /\ c \in {name} \X (1..Size(name, u[name]))
      BY <1>2, <1>3, <1>4, <1>5
    <3> QED BY <1>8, <3>1
  <2> QED BY <2>1, <2>2, <2>3
<1>10. C \cap D = {}
  <2> SUFFICES ASSUME NEW c \in C, c \in D PROVE FALSE
    OBVIOUS
  <2>1. PICK n \in Has(m) : c \in {n} \X (1..Size(n, m[n]))
    BY <1>7
  <2>2. c[1] = n /\ c[1] = name
    BY <1>4, <2>1
  <2> QED BY <1>6, <2>2
<1>11. IsFiniteSet(D) /\ Cardinality(D) = L
  <2>1. IsFiniteSet(1..L) /\ Cardinality(1..L) = L
    <3>1. 1 \in Int /\ L \in Int /\ (1 > L => L = 0) /\ (~(1 > L) => L - 1 + 1 = L)
      BY <1>3
    <3> QED BY <3>1, FS_Interval
  <2>2. IsFiniteSet({name}) /\ Cardinality({name}) = 1
    BY FS_Singleton
  <2>3. IsFiniteSet(D) /\ Cardinality(D) = Cardinality({name}) * Cardinality(1..L)
    BY <1>4, <2>1, <2>2, FS_Product
  <2> QED BY <1>3, <2>1, <2>2, <2>3
<1>12. Cardinality(C \cup D) = Cardinality(C) + Cardinality(D) - Cardinality(C \cap D)
  BY <1>4, <1>11, FS_Union
<1>13. Cardinality(C) \in Nat /\ Cardinality({}) = 0
  BY <1>4, FS_CardinalityType, FS_EmptySet
<1>14. Cardinality(C \cup D) = Cardinality(C) + L
  <2>1. PICK x \in Nat : x = Cardinality(C)
    BY <1>13
  <2>2. Cardinality(C \cap D) = 0
    BY <1>10, <1>13
  <2>3. Cardinality(C \cup D) = x + L - 0
    BY <1>11, <1>12, <2>1, <2>2
  <2> QED BY <2>1, <2>3
<1> QED BY <1>1, <1>3, <1>4, <1>9, <1>14, TotalCells

\* SET leaves the block with what SET promises.
LEMMA SetIs ==
  ASSUME NEW b, NEW m \in Assignments, NEW place, NEW e, Laid(b, m, place, e), NEW name \in Variables,
         NEW value \in Texts
  PROVE  /\ SetWanted(m, name, value) \in Assignments
         /\ \E to, f : Laid(env_set(b, name, value), SetWanted(m, name, value), to, f)
<1>1. PICK r, u, put : r = Removed(b, name) /\ u = Without(m, name) /\ put = [m EXCEPT ![name] = value]
  OBVIOUS
<1>2. u \in Assignments /\ u[name] = <<>> /\ put \in Assignments
  BY <1>1, EmptyText DEF Without, Assignments
<1>3. PICK to, f : Laid(r, u, to, f)
  BY <1>1, RemovedIs
<1>4. env_end(r) = f /\ f \in Nat /\ EnvSize \in Nat
  <2>1. EnvSize \in Nat
    BY ShellAssumption
  <2>2. f \in 0..EnvSize - 1
    BY <1>3 DEF Laid
  <2>3. env_end(r) = f
    BY <1>2, <1>3, StringsAre
  <2> QED BY <2>1, <2>2, <2>3
<1>5. PICK w : w = SetWanted(m, name, value)
  OBVIOUS
<1>6. w = IF Total(put) + 1 <= EnvSize THEN put ELSE u
  BY <1>1, <1>5 DEF SetWanted, Without
<1>7. CASE value = <<>>
  <2>1. put = u
    BY <1>1, <1>7 DEF Without
  <2>2. w = u
    BY <1>6, <2>1
  <2>3. env_set(b, name, value) = r
    BY <1>1, <1>7 DEF env_set
  <2> QED BY <1>2, <1>3, <1>5, <2>2, <2>3
<1>8. CASE value # <<>>
  <2>1. put = [u EXCEPT ![name] = value]
    BY <1>1 DEF Without, Assignments
  <2>2. PICK x \in Nat, y \in Nat : x = Len(name) /\ y = Len(value) /\ Size(name, value) = x + y + 2
    BY BytesAre
  <2>3. Total(u) = f /\ IsFiniteSet(Cells(u))
    BY <1>2, <1>3, TotalIs
  <2>4. Total(put) = f + Size(name, value)
    BY <1>2, <1>8, <2>1, <2>3, TotalPut
  <2>5. Fits(r, name, value) <=> f + (x + y + 2) + 1 <= EnvSize
    BY <1>4, <2>2 DEF Fits
  <2>6. env_set(b, name, value) = IF Fits(r, name, value) THEN Added(r, name, value) ELSE r
    BY <1>1, <1>8 DEF env_set
  <2>7. CASE f + (x + y + 2) + 1 <= EnvSize
    <3>1. w = put /\ env_set(b, name, value) = Added(r, name, value)
      BY <1>6, <2>2, <2>4, <2>5, <2>6, <2>7
    <3>2. f + Size(name, value) + 1 <= EnvSize
      BY <2>2, <2>7
    <3>3. \E at1 : Laid(Added(r, name, value), [u EXCEPT ![name] = value], at1, f + Size(name, value))
      BY <1>2, <1>3, <1>8, <3>2, AddedIs
    <3> QED BY <1>2, <1>5, <2>1, <3>1, <3>3
  <2>8. CASE ~(f + (x + y + 2) + 1 <= EnvSize)
    <3>1. w = u /\ env_set(b, name, value) = r
      BY <1>6, <2>2, <2>4, <2>5, <2>6, <2>8
    <3> QED BY <1>2, <1>3, <1>5, <3>1
  <2> QED BY <2>7, <2>8
<1> QED BY <1>7, <1>8
----------------------------------------------------------------------------
(* The version table.                                                      *)

Numbers == 1..SETVER_MAX

\* A program has one entry at most, which says what SETVER said last, or none
\* when that is the default.
TableInv(t, g) ==
  /\ t \in [Numbers -> [name : Programs \cup {""}, version : Nat]]
  /\ g \in [Programs -> Nat]
  /\ \A d, e \in Numbers : t[d].name = t[e].name => d = e \/ t[d].name = ""
  /\ \A e \in Numbers : t[e].name # "" => g[t[e].name] = t[e].version
  /\ \A p \in Programs : Entries(t, p) = {} => g[p] = DEFAULT

LEMMA MinOf ==
  ASSUME NEW t, NEW g, TableInv(t, g), NEW name, Entries(t, name) # {}
  PROVE  Min(Entries(t, name)) \in Numbers /\ t[Min(Entries(t, name))].name = name
<1>1. PICK S : S = Entries(t, name)
  OBVIOUS
<1>2. SETVER_MAX \in Nat /\ DOMAIN t = Numbers
  BY ShellAssumption DEF TableInv
<1>3. S \subseteq Nat /\ S \subseteq Numbers /\ S # {} /\ \A e \in S : t[e].name = name
  BY <1>1, <1>2 DEF Entries, Numbers
<1>4. PICK x \in S : \A y \in S : x <= y
  BY <1>3, NatLeast
<1>5. Min(S) = x
  BY <1>3, <1>4, MinIs
<1> QED BY <1>1, <1>3, <1>5

\* What EXEC finds is what SETVER said.
LEMMA AppliedIs ==
  ASSUME NEW t, NEW g, TableInv(t, g), NEW p \in Programs
  PROVE  setver_apply(t, p) = g[p]
<1>1. p # ""
  BY SettingsAssumption
<1>2. CASE Entries(t, p) = {}
  BY <1>2 DEF setver_apply, TableInv
<1>3. CASE Entries(t, p) # {}
  <2>1. PICK e : e = Min(Entries(t, p))
    OBVIOUS
  <2>2. e \in Numbers /\ t[e].name = p
    BY <1>3, <2>1, MinOf
  <2>3. g[p] = t[e].version
    BY <1>1, <2>2 DEF TableInv
  <2> QED BY <1>3, <2>1, <2>3 DEF setver_apply
<1> QED BY <1>2, <1>3

\* An entry is freed.
LEMMA FreedTable ==
  ASSUME NEW t, NEW g, TableInv(t, g), NEW p \in Programs, Entries(t, p) # {}
  PROVE  TableInv([t EXCEPT ![Min(Entries(t, p))] = Free], [g EXCEPT ![p] = DEFAULT])
<1>1. PICK e : e = Min(Entries(t, p))
  OBVIOUS
<1>2. e \in Numbers /\ t[e].name = p /\ p # ""
  BY <1>1, MinOf, SettingsAssumption
<1>3. PICK u, h : u = [t EXCEPT ![e] = Free] /\ h = [g EXCEPT ![p] = DEFAULT]
  OBVIOUS
<1>4. /\ DOMAIN t = Numbers /\ u[e].name = "" /\ DOMAIN u = Numbers
      /\ \A d \in Numbers : d # e => u[d] = t[d]
      /\ u \in [Numbers -> [name : Programs \cup {""}, version : Nat]]
  BY <1>2, <1>3 DEF TableInv, Free, DEFAULT
<1>5. h \in [Programs -> Nat] /\ h[p] = DEFAULT /\ \A q \in Programs : q # p => h[q] = g[q]
  BY <1>3 DEF TableInv, DEFAULT
<1>6. \A d, k \in Numbers : u[d].name = u[k].name => d = k \/ u[d].name = ""
  <2> SUFFICES ASSUME NEW d \in Numbers, NEW k \in Numbers, u[d].name = u[k].name
               PROVE  d = k \/ u[d].name = ""
    OBVIOUS
  <2>1. CASE d = e \/ k = e
    BY <1>4, <2>1
  <2>2. CASE d # e /\ k # e
    <3>1. u[d] = t[d] /\ u[k] = t[k]
      BY <1>4, <2>2
    <3> QED BY <3>1 DEF TableInv
  <2> QED BY <2>1, <2>2
<1>7. \A d \in Numbers : u[d].name # "" => h[u[d].name] = u[d].version
  <2> SUFFICES ASSUME NEW d \in Numbers, u[d].name # "" PROVE h[u[d].name] = u[d].version
    OBVIOUS
  <2>1. d # e /\ u[d] = t[d]
    BY <1>4
  <2>2. t[d].name # p
    BY <1>2, <2>1 DEF TableInv
  <2>3. t[d].name \in Programs /\ g[t[d].name] = t[d].version
    BY <2>1 DEF TableInv
  <2> QED BY <1>5, <2>1, <2>2, <2>3
<1>8. \A q \in Programs : Entries(u, q) = {} => h[q] = DEFAULT
  <2> SUFFICES ASSUME NEW q \in Programs, Entries(u, q) = {}, q # p PROVE h[q] = DEFAULT
    BY <1>5
  <2>1. \A d \in Numbers : t[d].name # q
    <3> SUFFICES ASSUME NEW d \in Numbers, t[d].name = q PROVE FALSE
      OBVIOUS
    <3>1. d # e
      BY <1>2
    <3>2. d \in Entries(u, q)
      BY <1>4, <3>1 DEF Entries
    <3> QED BY <3>2
  <2>2. Entries(t, q) = {}
    BY <1>4, <2>1 DEF Entries
  <2>3. g[q] = DEFAULT
    BY <2>2 DEF TableInv
  <2> QED BY <1>5, <2>3
<1>9. TableInv(u, h)
  BY <1>4, <1>5, <1>6, <1>7, <1>8 DEF TableInv
<1> QED BY <1>1, <1>3, <1>9

\* An entry gets a version: the one the program has, or else a free one.
LEMMA EnteredTable ==
  ASSUME NEW t, NEW g, TableInv(t, g), NEW p \in Programs, NEW v \in Nat, Slot(t, p) # {}
  PROVE  TableInv([t EXCEPT ![Min(Slot(t, p))] = [name |-> p, version |-> v]], [g EXCEPT ![p] = v])
<1>1. PICK e : e = Min(Slot(t, p))
  OBVIOUS
<1>2. /\ e \in Numbers /\ p # ""
      /\ \/ t[e].name = p
         \/ t[e].name = "" /\ Entries(t, p) = {}
  <2>0. p # ""
    BY SettingsAssumption
  <2>1. CASE Entries(t, p) # {}
    <3>1. Slot(t, p) = Entries(t, p)
      BY <2>1 DEF Slot, setver_find
    <3>2. Min(Entries(t, p)) \in Numbers /\ t[Min(Entries(t, p))].name = p
      BY <2>1, MinOf
    <3> QED BY <1>1, <2>0, <3>1, <3>2
  <2>2. CASE Entries(t, p) = {}
    <3>1. Slot(t, p) = Entries(t, "") /\ Entries(t, "") # {}
      BY <2>2 DEF Slot, setver_find
    <3>2. Min(Entries(t, "")) \in Numbers /\ t[Min(Entries(t, ""))].name = ""
      BY <3>1, MinOf
    <3> QED BY <1>1, <2>0, <2>2, <3>1, <3>2
  <2> QED BY <2>1, <2>2
<1>3. PICK x : x = [name |-> p, version |-> v]
  OBVIOUS
<1>4. PICK u, h : u = [t EXCEPT ![e] = x] /\ h = [g EXCEPT ![p] = v]
  OBVIOUS
<1>5. DOMAIN t = Numbers /\ x.name = p /\ x.version = v /\ x \in [name : Programs \cup {""}, version : Nat]
  BY <1>3 DEF TableInv
<1>6. /\ u[e] = x /\ DOMAIN u = Numbers
      /\ \A d \in Numbers : d # e => u[d] = t[d]
      /\ u \in [Numbers -> [name : Programs \cup {""}, version : Nat]]
  BY <1>2, <1>4, <1>5 DEF TableInv
<1>7. h \in [Programs -> Nat] /\ h[p] = v /\ \A q \in Programs : q # p => h[q] = g[q]
  BY <1>4 DEF TableInv
<1>8. \A d \in Numbers : d # e => t[d].name # p
  <2> SUFFICES ASSUME NEW d \in Numbers, d # e, t[d].name = p PROVE FALSE
    OBVIOUS
  <2>1. CASE t[e].name = p
    BY <1>2, <2>1 DEF TableInv
  <2>2. CASE Entries(t, p) = {}
    <3>1. d \in Entries(t, p)
      BY <1>5 DEF Entries
    <3> QED BY <2>2, <3>1
  <2> QED BY <1>2, <2>1, <2>2
<1>9. \A d, k \in Numbers : u[d].name = u[k].name => d = k \/ u[d].name = ""
  <2> SUFFICES ASSUME NEW d \in Numbers, NEW k \in Numbers, u[d].name = u[k].name, d # k
               PROVE  u[d].name = ""
    OBVIOUS
  <2>1. CASE d = e
    BY <1>5, <1>6, <1>8, <2>1
  <2>2. CASE k = e
    BY <1>5, <1>6, <1>8, <2>2
  <2>3. CASE d # e /\ k # e
    BY <1>6, <2>3 DEF TableInv
  <2> QED BY <2>1, <2>2, <2>3
<1>10. \A d \in Numbers : u[d].name # "" => h[u[d].name] = u[d].version
  <2> SUFFICES ASSUME NEW d \in Numbers, u[d].name # "" PROVE h[u[d].name] = u[d].version
    OBVIOUS
  <2>1. CASE d = e
    BY <1>5, <1>6, <1>7, <2>1
  <2>2. CASE d # e
    <3>1. u[d] = t[d] /\ t[d].name # p
      BY <1>6, <1>8, <2>2
    <3>2. t[d].name \in Programs /\ g[t[d].name] = t[d].version
      BY <3>1 DEF TableInv
    <3> QED BY <1>7, <3>1, <3>2
  <2> QED BY <2>1, <2>2
<1>11. \A q \in Programs : Entries(u, q) = {} => h[q] = DEFAULT
  <2> SUFFICES ASSUME NEW q \in Programs, Entries(u, q) = {} PROVE h[q] = DEFAULT
    OBVIOUS
  <2>1. q # p
    <3> SUFFICES ASSUME q = p PROVE FALSE
      OBVIOUS
    <3>1. e \in Entries(u, q)
      BY <1>2, <1>5, <1>6 DEF Entries
    <3> QED BY <3>1
  <2>2. \A d \in Numbers : t[d].name # q
    <3> SUFFICES ASSUME NEW d \in Numbers, t[d].name = q PROVE FALSE
      OBVIOUS
    <3>1. d # e
      BY <1>2, <2>1, SettingsAssumption
    <3>2. d \in Entries(u, q)
      BY <1>6, <3>1 DEF Entries
    <3> QED BY <3>2
  <2>3. Entries(t, q) = {}
    BY <1>5, <2>2 DEF Entries
  <2>4. g[q] = DEFAULT
    BY <2>3 DEF TableInv
  <2> QED BY <1>7, <2>1, <2>4
<1>12. TableInv(u, h)
  BY <1>6, <1>7, <1>9, <1>10, <1>11 DEF TableInv
<1> QED BY <1>1, <1>3, <1>4, <1>12

----------------------------------------------------------------------------
(* The settings: the environment and the table together.                   *)

EnvInv(b, m) == m \in Assignments /\ \E place, e : Laid(b, m, place, e)

SettingsInv == NamesSetting(cmd) /\ EnvInv(env, wanted) /\ TableInv(table, given)

LEMMA ListIs ==
  ASSUME NEW s \in Inherited
  PROVE  EnvInv(env_init(s), Decoded(env_init(s)))
<1>1. ProperList(s)
  BY SettingsAssumption
<1>2. PICK b, m : b = env_init(s) /\ m = Decoded(b)
  OBVIOUS
<1>3. m \in Assignments /\ Laid(b, m, [n \in Has(m) |-> Min(Matches(b, n))], env_end(b))
  BY <1>1, <1>2 DEF ProperList, Assignments
<1>4. \E place, e : Laid(b, m, place, e)
  BY <1>3
<1> QED BY <1>2, <1>3, <1>4 DEF EnvInv

LEMMA NopSetting ==
  NamesSetting(Nop) /\ \A f : NamesSetting([Nop EXCEPT !.op = "batch", !.file = f])
BY DEF NamesSetting, Nop

LEMMA InitSettings == ShellInit => SettingsInv
<1> SUFFICES ASSUME ShellInit PROVE SettingsInv
  OBVIOUS
<1>1. NamesSetting(cmd)
  BY NopSetting DEF ShellInit
<1>2. EnvInv(env, wanted)
  <2>1. PICK s \in Inherited : env = env_init(s) /\ wanted = Decoded(env_init(s))
    BY DEF ShellInit
  <2> QED BY <2>1, ListIs
<1>3. TableInv(table, given)
  <2>1. /\ table = [e \in Numbers |-> Free] /\ given = [p \in Programs |-> DEFAULT]
    BY DEF ShellInit, Numbers
  <2> QED BY <2>1 DEF TableInv, Free, DEFAULT
<1> QED BY <1>1, <1>2, <1>3 DEF SettingsInv

\* The command that is carried out next.
LEMMA NextSetting ==
  ASSUME ShellInv, NamesSetting(cmd), [ShellNext]_shell_vars
  PROVE  NamesSetting(cmd')
<1>1. CASE Boot
  BY <1>1, NopSetting DEF Boot
<1>2. CASE NextLine
  <2>1. CASE Top.pos = Len(Batch[Top.file])
    BY <1>2, <2>1 DEF NextLine
  <2>2. CASE Top.pos # Len(Batch[Top.file])
    <3>1. frames # <<>> /\ Len(frames) \in 1..Len(frames)
      BY <1>2 DEF NextLine, ShellInv
    <3>2. Top \in Frame /\ Top.pos <= Len(Batch[Top.file])
      BY <3>1 DEF Top, ShellInv
    <3>3. Top.file \in DOMAIN Batch /\ Top.pos \in Nat /\ Len(Batch[Top.file]) \in Nat
      BY <3>2, ShellAssumption DEF Frame
    <3>4. Top.pos + 1 \in 1..Len(Batch[Top.file])
      BY <2>2, <3>2, <3>3
    <3>5. NamesSetting(Batch[Top.file][Top.pos + 1])
      BY <3>3, <3>4, SettingsAssumption
    <3>6. cmd' = cmd \/ cmd' = Batch[Top.file][Top.pos + 1]
      BY <1>2, <2>2 DEF NextLine
    <3> QED BY <3>5, <3>6
  <2> QED BY <2>1, <2>2
<1>3. CASE \E c \in Typed : Prompt(c)
  BY <1>3, SettingsAssumption DEF Prompt
<1>4. CASE Done \/ LoadBatch \/ Exit
  BY <1>4, NopSetting DEF Done, LoadBatch, Exit
<1>5. CASE Plain \/ cmd_echo \/ cmd_set \/ cmd_setver \/ cmd_type \/ cmd_copy \/ run_external \/ run_batch
  BY <1>5, NopSetting DEF Plain, cmd_echo, cmd_set, cmd_setver, cmd_type, cmd_copy, run_external, run_batch,
                          Executes, Goes
<1>6. CASE TypeEnds \/ CopyStep \/ Said \/ break_handler \/ UNCHANGED shell_vars
  BY <1>6 DEF TypeEnds, CopyStep, Said, break_handler, shell_vars, Goes
<1> QED BY <1>1, <1>2, <1>3, <1>4, <1>5, <1>6, Zenon DEF ShellNext

LEMMA StepSettings ==
  ASSUME ShellInv, SettingsInv, [ShellNext]_shell_vars
  PROVE  SettingsInv'
<1>1. NamesSetting(cmd) /\ EnvInv(env, wanted) /\ TableInv(table, given)
  BY DEF SettingsInv
<1>2. NamesSetting(cmd)'
  <2>1. NamesSetting(cmd')
    BY <1>1, NextSetting
  <2> QED BY <2>1 DEF NamesSetting
<1>3. CASE cmd_set
  <2>1. cmd.op = "set" /\ UNCHANGED <<table, given>>
        /\ env'    = (IF env_seg THEN env_set(env, cmd.name, cmd.value) ELSE env)
        /\ wanted' = (IF env_seg THEN SetWanted(wanted, cmd.name, cmd.value) ELSE wanted)
    BY <1>3 DEF cmd_set, Executes
  <2>2. cmd.name \in Variables /\ cmd.value \in Texts
    BY <1>1, <2>1 DEF NamesSetting
  <2>3. PICK b, m, n, v : b = env /\ m = wanted /\ n = cmd.name /\ v = cmd.value
    OBVIOUS
  <2>4. m \in Assignments /\ \E place, e : Laid(b, m, place, e)
    BY <1>1, <2>3 DEF EnvInv
  <2>5. SetWanted(m, n, v) \in Assignments /\ \E to, f : Laid(env_set(b, n, v), SetWanted(m, n, v), to, f)
    BY <2>2, <2>3, <2>4, SetIs
  <2>6. EnvInv(env_set(b, n, v), SetWanted(m, n, v))
    BY <2>5 DEF EnvInv
  <2>7. EnvInv(env', wanted')
    BY <1>1, <2>1, <2>3, <2>6
  <2>8. TableInv(table', given')
    BY <1>1, <2>1
  <2> QED BY <1>2, <2>7, <2>8 DEF SettingsInv
<1>4. CASE cmd_setver
  <2> DEFINE prog == cmd.file
             ver  == cmd.value[1]
             to   == IF ver = 0 THEN setver_find(table, prog) ELSE Slot(table, prog)
  <2>1. cmd.op = "setver" /\ UNCHANGED <<env, wanted>>
        /\ table' = (IF to = {} THEN table
                     ELSE [table EXCEPT ![Min(to)] = IF ver = 0 THEN Free ELSE [name |-> prog, version |-> ver]])
        /\ given' = (IF to = {} THEN given ELSE [given EXCEPT ![prog] = IF ver = 0 THEN DEFAULT ELSE ver])
    BY <1>4 DEF cmd_setver, Executes
  <2>2. prog \in Programs /\ ver \in Nat
    BY <1>1, <2>1 DEF NamesSetting
  <2>3. EnvInv(env', wanted')
    BY <1>1, <2>1
  <2>4. PICK p, v, q, t, g : p = prog /\ v = ver /\ q = to /\ t = table /\ g = given
    OBVIOUS
  <2>5. p \in Programs /\ v \in Nat /\ TableInv(t, g) /\ q = IF v = 0 THEN Entries(t, p) ELSE Slot(t, p)
    BY <1>1, <2>2, <2>4 DEF setver_find
  <2>6. /\ table' = (IF q = {} THEN t
                     ELSE [t EXCEPT ![Min(q)] = IF v = 0 THEN Free ELSE [name |-> p, version |-> v]])
        /\ given' = (IF q = {} THEN g ELSE [g EXCEPT ![p] = IF v = 0 THEN DEFAULT ELSE v])
    BY <2>1, <2>4
  <2> HIDE DEF prog, ver, to
  <2>7. TableInv(table', given')
    <3>1. CASE q = {}
      BY <2>5, <2>6, <3>1
    <3>2. CASE q # {} /\ v = 0
      <4>1. TableInv([t EXCEPT ![Min(Entries(t, p))] = Free], [g EXCEPT ![p] = DEFAULT])
        BY <2>5, <3>2, FreedTable
      <4>2. table' = [t EXCEPT ![Min(Entries(t, p))] = Free] /\ given' = [g EXCEPT ![p] = DEFAULT]
        BY <2>5, <2>6, <3>2
      <4> QED BY <4>1, <4>2
    <3>3. CASE q # {} /\ v # 0
      <4>1. TableInv([t EXCEPT ![Min(Slot(t, p))] = [name |-> p, version |-> v]], [g EXCEPT ![p] = v])
        BY <2>5, <3>3, EnteredTable
      <4>2. table' = [t EXCEPT ![Min(Slot(t, p))] = [name |-> p, version |-> v]] /\ given' = [g EXCEPT ![p] = v]
        BY <2>5, <2>6, <3>3
      <4> QED BY <4>1, <4>2
    <3> QED BY <3>1, <3>2, <3>3
  <2> QED BY <1>2, <2>3, <2>7 DEF SettingsInv
<1>5. CASE Exit
  <2>1. UNCHANGED <<table, given>> /\ \E s \in Inherited : env' = env_init(s) /\ wanted' = Decoded(env_init(s))
    BY <1>5 DEF Exit
  <2>2. EnvInv(env', wanted')
    BY <2>1, ListIs
  <2>3. TableInv(table', given')
    BY <1>1, <2>1
  <2> QED BY <1>2, <2>2, <2>3 DEF SettingsInv
<1>6. CASE UNCHANGED <<env, wanted, table, given>>
  <2>1. EnvInv(env', wanted') /\ TableInv(table', given')
    BY <1>1, <1>6
  <2> QED BY <1>2, <2>1 DEF SettingsInv
<1>7. cmd_set \/ cmd_setver \/ Exit \/ UNCHANGED <<env, wanted, table, given>>
  <2>1. CASE Boot \/ NextLine \/ Done \/ (\E c \in Typed : Prompt(c)) \/ LoadBatch
    BY <2>1 DEF Boot, NextLine, Done, Prompt, LoadBatch, Settings
  <2>2. CASE Plain \/ cmd_echo \/ cmd_type \/ cmd_copy \/ run_external \/ run_batch
    BY <2>2 DEF Plain, cmd_echo, cmd_type, cmd_copy, run_external, run_batch, Goes, Settings
  <2>3. CASE TypeEnds \/ CopyStep \/ Said \/ break_handler \/ UNCHANGED shell_vars
    BY <2>3 DEF TypeEnds, CopyStep, Said, break_handler, shell_vars, Goes, Settings
  <2> QED BY <2>1, <2>2, <2>3, Zenon DEF ShellNext
<1> QED BY <1>3, <1>4, <1>5, <1>6, <1>7

\* The environment block and the version table say exactly what SET and SETVER
\* were told, for any names and values, any size of block and table, and any
\* list of strings, one of a name, that a shell is started with.
THEOREM SettingsKept == ShellSpec => []SettingsExact
<1>1. ShellInit => SettingsInv
  BY InitSettings
<1>2. ShellInv /\ SettingsInv /\ [ShellNext]_shell_vars => SettingsInv'
  BY StepSettings
<1>3. SettingsInv => SettingsExact
  <2> SUFFICES ASSUME SettingsInv PROVE SettingsExact
    OBVIOUS
  <2>1. PICK b, m : b = env /\ m = wanted
    OBVIOUS
  <2>2. m \in Assignments /\ \E place, e : Laid(b, m, place, e)
    BY <2>1 DEF SettingsInv, EnvInv
  <2>3. PICK place, e : Laid(b, m, place, e)
    BY <2>2
  <2>4. env_end(b) = e
    BY <2>2, <2>3, StringsAre
  <2>5. Total(m) = e
    BY <2>2, <2>3, TotalIs
  <2>6. \A n \in Variables : env_get(b, n) = m[n]
    BY <2>2, <2>3, GetIs
  <2>7. e < EnvSize
    <3>1. EnvSize \in Nat /\ e \in 0..EnvSize - 1
      BY <2>3, ShellAssumption DEF Laid
    <3> QED BY <3>1
  <2>8. \A p \in Programs : setver_apply(table, p) = given[p]
    BY AppliedIs DEF SettingsInv
  <2> QED BY <2>1, <2>4, <2>5, <2>6, <2>7, <2>8 DEF SettingsExact
<1> QED BY <1>1, <1>2, <1>3, SpecShell, PTL DEF ShellSpec
=============================================================================
