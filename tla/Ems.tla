-------------------------------- MODULE Ems ---------------------------------
(***************************************************************************)
(* The EMS driver, src/kernel/ems.c.  Nothing is paged: mapping a logical  *)
(* page into a window of the page frame copies it there from the backing   *)
(* store, and the window is copied back when another page takes its place. *)
(* Programs write through the windows.  A copy goes through the BIOS and   *)
(* may fail, having overwritten what it was copying to or not.             *)
(***************************************************************************)
EXTENDS Integers, FiniteSets

CONSTANTS NHandles,     \* EMS_NHANDLES
          NWindows,     \* EMS_PHYS_PAGES
          total_pages,  \* EMS_BACKING_KB / EMS_PAGE_KB
          Values,       \* bound of the model: what programs write to a page
          Junk,         \* contents nobody wrote
          Savers,       \* bound of the model: handles that save a map
          \* What the programs that run do, beyond what is always harmless:
          Reshuffle,    \* move a page between windows within one call
          DropMapped    \* shrink a handle while a page it loses is mapped

ASSUME EmsAssumption ==
  /\ NHandles \in Nat \ {0} /\ NWindows \in Nat \ {0} /\ total_pages \in Nat
  /\ Junk \notin Values /\ Savers \subseteq 0..(NHandles - 1)
  /\ Reshuffle \in BOOLEAN /\ DropMapped \in BOOLEAN

VARIABLES eh,          \* the run of backing pages of each handle
          page_owner,
          used_pages,
          cur_map,     \* window -> <<handle, logical page>> it holds
          saved_map,   \* handle -> the map 47h saved for it
          frame,       \* contents of the windows
          store        \* contents of the backing pages

vars == <<eh, page_owner, used_pages, cur_map, saved_map, frame, store>>

H       == 0..(NHandles - 1)
Window  == 0..(NWindows - 1)
Page    == 0..(total_pages - 1)
NoOne   == NHandles          \* page_owner 0xFF
Unused  == [npages |-> 0, first |-> 0, used |-> FALSE]
EMS_UNMAPPED == <<>>
NotSaved     == <<>>
Content == Values \cup {Junk}
Used    == {h \in H : eh[h].used}
Run(first, n) == first..(first + n - 1)
Pages(h)      == Run(eh[h].first, eh[h].npages)
Entry   == {EMS_UNMAPPED} \cup (H \X Page)

ems_init ==
  /\ eh = [h \in H |-> Unused]
  /\ page_owner = [p \in Page |-> NoOne]
  /\ used_pages = 0
  /\ cur_map = [w \in Window |-> EMS_UNMAPPED]
  /\ saved_map = [h \in H |-> NotSaved]
  /\ frame = [w \in Window |-> Junk]
  /\ store = [p \in Page |-> Junk]

----------------------------------------------------------------------------
\* First fit: the lowest run of n free backing pages, if there is one.
\* ShortRuns is a mutant: a run one page too short.
ShortRuns(n) == {f \in Page : Run(f, n - 1) \subseteq {p \in Page : page_owner[p] = NoOne}}
Runs(n) == {f \in Page : Run(f, n) \subseteq {p \in Page : page_owner[p] = NoOne}}
Lowest(S) == CHOOSE x \in S : \A y \in S : x <= y
backing_alloc(n) == Lowest(Runs(n))

\* The mapping functions work on m: the map, the two memories, whether every
\* copy was made and every argument good, and whether a page was loaded while
\* another window held it.
Memory == [map |-> cur_map, frame |-> frame, store |-> store, ok |-> TRUE, twice |-> FALSE]

FlushForgets(m, w) == {[m EXCEPT !.map[w] = EMS_UNMAPPED]}   \* mutant
phys_flush(m, w) ==
  IF m.map[w] = EMS_UNMAPPED THEN {m}
  ELSE LET bp == eh[m.map[w][1]].first + m.map[w][2]
       IN {[m EXCEPT !.store = [p \in Page |-> IF p = bp THEN m.frame[w] ELSE @[p]],
                     !.map[w] = EMS_UNMAPPED]}
            \cup {[m EXCEPT !.store = [p \in Page |-> IF p = bp THEN c ELSE @[p]],
                            !.ok = FALSE] : c \in {Junk} \cup {m.store[p] : p \in Page \cap {bp}}}

Load(m, e, w) ==
  LET held == \E v \in Window \ {w} : m.map[v] = e
      torn == [m EXCEPT !.ok = FALSE, !.twice = @ \/ held]
  IN {[m EXCEPT !.map[w] = e, !.frame[w] = m.store[eh[e[1]].first + e[2]],
                !.twice = @ \/ held],
      torn, [torn EXCEPT !.frame[w] = Junk]}

\* The entry names a page of a handle in use.
Live(e) == e # EMS_UNMAPPED /\ eh[e[1]].used /\ e[2] < eh[e[1]].npages

\* The memories map_page can leave: e is to be mapped at window w.
map_page(m, e, w) ==
  CASE ~m.ok -> {m}
    [] m.ok /\ e = EMS_UNMAPPED -> phys_flush(m, w)
    [] m.ok /\ e # EMS_UNMAPPED /\ ~Live(e) -> {[m EXCEPT !.ok = FALSE]}
    [] m.ok /\ Live(e) /\ m.map[w] = e -> {m}
    [] m.ok /\ Live(e) /\ m.map[w] # e ->
         UNION {IF f.ok THEN Load(f, e, w) ELSE {f} : f \in phys_flush(m, w)}

\* A whole map, window by window, up to the first failure.
MapAll(to) ==
  LET upto[w \in 0..NWindows] ==
        IF w = 0 THEN {Memory}
        ELSE UNION {map_page(m, to[w - 1], w - 1) : m \in upto[w - 1]}
  IN upto[NWindows]

\* Programs keep a page in one window: a copied page has no aliases.
Single(map) == \A v, w \in Window : v # w /\ map[v] # EMS_UNMAPPED => map[v] # map[w]
Harmless(m) == Single(m.map) /\ (Reshuffle \/ ~m.twice)

Becomes(m) ==
  /\ Harmless(m)
  /\ cur_map' = m.map /\ frame' = m.frame /\ store' = m.store
  /\ UNCHANGED <<eh, page_owner, used_pages>>

Owned(run, h) == [p \in Page |-> IF p \in run THEN h ELSE page_owner[p]]

----------------------------------------------------------------------------
\* 43h
f43_alloc(n) ==
  /\ n # 0 /\ n <= total_pages
  /\ Used # H
  /\ Runs(n) # {}
  /\ LET h == Lowest(H \ Used)
         first == backing_alloc(n)
     IN /\ eh' = [eh EXCEPT ![h] = [npages |-> n, first |-> first, used |-> TRUE]]
        /\ page_owner' = Owned(Run(first, n), h)
        /\ saved_map' = [saved_map EXCEPT ![h] = NotSaved]
  /\ used_pages' = used_pages + n
  /\ UNCHANGED <<cur_map, frame, store>>

\* 44h and, one page after the other, 50h: handle_arg, then map_page.
f44_map(h, l, w) ==
  /\ h \in Used
  /\ \E m \in map_page(Memory, IF l \in Page THEN <<h, l>> ELSE EMS_UNMAPPED, w) : Becomes(m)
  /\ UNCHANGED saved_map

\* The map without the windows of a handle; they are not flushed.
KeepsWindows(h) == cur_map                                     \* mutant
Dropped(h) ==
  [w \in Window |->
    IF cur_map[w] # EMS_UNMAPPED /\ cur_map[w][1] = h THEN EMS_UNMAPPED ELSE cur_map[w]]

\* 45h
f45_release(h) ==
  /\ h \in Used
  /\ cur_map' = Dropped(h)
  /\ page_owner' = Owned(Pages(h), NoOne)
  /\ used_pages' = used_pages - eh[h].npages
  /\ eh' = [eh EXCEPT ![h] = Unused]
  /\ saved_map' = [saved_map EXCEPT ![h] = NotSaved]
  /\ UNCHANGED <<frame, store>>

\* 47h
f47_save(h) ==
  /\ h \in Used
  /\ saved_map[h] = NotSaved
  /\ saved_map' = [saved_map EXCEPT ![h] = cur_map]
  /\ UNCHANGED <<eh, page_owner, used_pages, cur_map, frame, store>>

\* 48h: a failure on the way leaves the map half restored, and saved.
f48_restore(h) ==
  /\ h \in Used
  /\ saved_map[h] # NotSaved
  /\ \E m \in MapAll(saved_map[h]) :
       /\ Becomes(m)
       /\ saved_map' = IF m.ok THEN [saved_map EXCEPT ![h] = NotSaved] ELSE saved_map

\* 4Eh, set.  Bad stands for any entry that names no page.
Bad == <<0, total_pages>>
f4e_set(to) ==
  /\ \E m \in MapAll(to) : Becomes(m)
  /\ UNCHANGED saved_map

\* 51h, shrink: the tail goes, the windows are not looked at.
f51_shrink(h, n) ==
  /\ h \in Used
  /\ n < eh[h].npages
  /\ DropMapped \/ \A w \in Window : cur_map[w] \notin {h} \X (n..total_pages)
  /\ page_owner' = Owned(Run(eh[h].first + n, eh[h].npages - n), NoOne)
  /\ used_pages' = used_pages - (eh[h].npages - n)
  /\ eh' = [eh EXCEPT ![h].npages = n]
  /\ UNCHANGED <<cur_map, saved_map, frame, store>>

\* 51h, grow: a fresh run, beside the old one, takes the contents of the old.
f51_grow(h, n) ==
  /\ h \in Used
  /\ n > eh[h].npages
  /\ Runs(n) # {}
  /\ LET first == backing_alloc(n)
         copied(c) == [p \in Page |-> IF p \in Run(first, eh[h].npages) THEN c[p] ELSE store[p]]
     IN \/ /\ store' = copied([p \in Page |-> store[eh[h].first + (p - first)]])
           /\ page_owner' = [p \in Page |->
                IF p \in Run(first, n) THEN h
                ELSE IF p \in Pages(h) THEN NoOne ELSE page_owner[p]]
           /\ used_pages' = used_pages + (n - eh[h].npages)
           /\ eh' = [eh EXCEPT ![h].first = first, ![h].npages = n]
        \/ /\ eh[h].npages > 0          \* the copy fails half way
           /\ store' = copied([p \in Page |-> Junk])
           /\ UNCHANGED <<page_owner, used_pages, eh>>
  /\ UNCHANGED <<cur_map, saved_map, frame>>

\* A program writes into a window that holds a page it has.
Write(w, v) ==
  /\ Live(cur_map[w])
  /\ frame' = [frame EXCEPT ![w] = v]
  /\ UNCHANGED <<eh, page_owner, used_pages, cur_map, saved_map, store>>

Next ==
  \/ \E n \in 1..total_pages : f43_alloc(n)
  \/ \E h \in H :
       \/ f45_release(h)
       \/ h \in Savers /\ f47_save(h)
       \/ f48_restore(h)
       \/ \E l \in Page \cup {total_pages}, w \in Window : f44_map(h, l, w)
       \/ \E n \in 0..total_pages : f51_shrink(h, n) \/ f51_grow(h, n)
  \/ \E to \in [Window -> {EMS_UNMAPPED, Bad} \cup {e \in H \X Page : Live(e)}] : f4e_set(to)
  \/ \E w \in Window, v \in Values : Write(w, v)

Spec == ems_init /\ [][Next]_vars

----------------------------------------------------------------------------
TypeOK ==
  /\ eh \in [H -> [npages : 0..total_pages, first : 0..total_pages, used : BOOLEAN]]
  /\ page_owner \in [Page -> H \cup {NoOne}]
  /\ used_pages \in 0..total_pages
  /\ cur_map \in [Window -> Entry]
  /\ \A h \in H : saved_map[h] = NotSaved \/ saved_map[h] \in [Window -> Entry]
  /\ frame \in [Window -> Content]
  /\ store \in [Page -> Content]

\* The owner table, the runs of the handles and the count of used pages tell
\* the same story, so the runs of two handles share no backing page and 42h
\* reports what 43h can draw on.
RunsExact ==
  /\ TypeOK
  /\ \A h \in Used : Pages(h) = {p \in Page : page_owner[p] = h}
  /\ \A p \in Page : page_owner[p] \in Used \cup {NoOne}
  /\ used_pages = Cardinality({p \in Page : page_owner[p] # NoOne})

\* A window never holds a page its handle has not got: what the next flush of
\* the window overwrites belongs to the page the window shows.
MapsLive ==
  \A w \in Window : cur_map[w] # EMS_UNMAPPED => Live(cur_map[w])

\* The contents of a logical page, where its owner would find them.
Shows(h, l) == {w \in Window : cur_map[w] = <<h, l>>}
Contents(h, l) ==
  IF Shows(h, l) # {} THEN frame[Lowest(Shows(h, l))] ELSE store[eh[h].first + l]

\* No call changes what a page holds, whatever it maps, saves, restores,
\* allocates or moves, and whichever copy fails; only a program's write into a
\* window changes the one page that the window shows.
PageWritten(h, l) == cur_map' = cur_map /\ store' = store /\ Shows(h, l) # {}
KeepContents ==
  \A h \in Used : h \in Used' =>
    \A l \in 0..(total_pages - 1) :
      l < eh[h].npages /\ l < eh'[h].npages =>
        PageWritten(h, l) \/ Contents(h, l)' = Contents(h, l)
PagesKept == [][KeepContents]_vars
=============================================================================
