-------------------------------- MODULE Dirs ---------------------------------
(***************************************************************************)
(* The directory tree of one volume: 8.3 entries, the runs of long-name    *)
(* slots in front of them (fat.c), and the calls that create, delete,      *)
(* rename, move and search entries, by short names (file.c, fcb.c) and by  *)
(* long ones (lfn.c).  A directory is the sequence of its slots in front   *)
(* of the end marker; position p of the sequence is index p - 1 of the     *)
(* code.  Files are empty here (module FileIO has their data), every name  *)
(* of 11 characters has a checksum of its own, and disk transfers succeed. *)
(*                                                                         *)
(* A name is a pair: <<base, 0>> an 8.3 name, <<base, n>> with n > 0 the   *)
(* alias BASE~n, and <<text, -1>> a name that only fits a long entry.      *)
(***************************************************************************)
EXTENDS Integers, Sequences, FiniteSetsExt

CONSTANTS MaxCluster,       \* v->max_cluster
          RootSize,         \* v->root_entries
          SlotsPerCluster,  \* directory entries in a cluster
          LongBase,         \* long name |-> the base of its aliases
          LongSlots,        \* long name |-> slots its run takes
          MaxAlias,         \* 999: aliases that are tried
          ShortNames,       \* bound of the model: 8.3 names programs give
          AliasNames,       \* TRUE: 8.3 calls also make names BASE~n
          DotNames,         \* TRUE: also "." and ".." as the last component of a path
          Attributes,       \* bound of the model: names made read-only and back
          MaxEntries,       \* bound of the model: named entries in the tree
          MaxPieces,        \* bound of the model: long-name slots, and deleted slots
          Patterns,         \* bound of the model: sets of names searched for
          Handles,          \* find handles of 714Eh (LFN_MAX_HANDLES of them)
          Searching,        \* bound of the model: searches under way at once
          MinFound,         \* bound of the model: what a search has to find
          MaxDuring,        \* bound of the model: changes of the tree during it
          Masks,            \* bound of the model: whether searches see directories
          MovesAnywhere     \* TRUE: 7156h moves directories elsewhere, 56h below themselves

ASSUME DirsAssumption ==
  /\ MaxCluster \in Nat /\ MaxCluster >= 2
  /\ RootSize \in Nat \ {0}
  /\ SlotsPerCluster \in Nat /\ SlotsPerCluster > 2
  /\ MaxAlias \in Nat \ {0}
  /\ AliasNames \in BOOLEAN /\ DotNames \in BOOLEAN /\ MovesAnywhere \in BOOLEAN
  /\ LongSlots \in [DOMAIN LongBase -> Nat \ {0}]
  /\ \A l \in DOMAIN LongBase : l[2] = -1 /\ l # <<"", -1>>
  /\ \A n \in ShortNames : n[2] = 0 /\ n \notin {<<".", 0>>, <<"..", 0>>}
  /\ Handles \subseteq Nat

VARIABLES
  dir,     \* dir[d]: the slots in use of the directory at d
  owner,   \* owner[c]: the directory whose chain has cluster c
  cwd,     \* v->cwd_cluster
  search   \* search[h]: find_slots[h]; search[Memory]: findstate in a DTA or FCB

vars == <<dir, owner, cwd, search>>

Root     == 0
Clusters == 2..MaxCluster
NoOne    == -1
Nowhere  == -1

Dot    == <<".", 0>>
DotDot == <<"..", 0>>
NoLong == <<"", -1>>
Garbled == <<"?", -1>>

Longs   == DOMAIN LongBase
Aliases == {<<LongBase[l], n>> : l \in Longs, n \in 1..MaxAlias}
Names    == ShortNames \cup Aliases \cup Longs \cup (IF DotNames THEN {Dot, DotDot} ELSE {})
NewNames == IF AliasNames THEN Names ELSE Names \ Aliases
fat_is_short_name(n) == n[2] >= 0

\* A slot.  long is a history variable: the long name the entry was given.
Del == [tag |-> "del"]
Piece(l, ord, last, sum) ==
  [tag |-> "lfn", text |-> l, ord |-> ord, last |-> last, sum |-> sum]
Entry(name, kind, first, long) ==
  [tag |-> "entry", name |-> name, kind |-> kind, first |-> first, ro |-> FALSE, long |-> long]

IsEntry(s) == s.tag = "entry"
IsDir(s)   == IsEntry(s) /\ s.kind = "dir"

\* Mutant: the slots of a run do not say which name they belong to.
OneChecksum(short) == 0

\* The checksum of the 8.3 name.
fat_lfn_checksum(short) == short

----------------------------------------------------------------------------
\* Looking names up.

\* fat_dir_search_i: where the 8.3 name is, or 0.
fat_dir_search(s, name) ==
  LET hits == {p \in DOMAIN s : IsEntry(s[p]) /\ s[p].name = name}
  IN  IF hits = {} THEN 0 ELSE Min(hits)

\* The last slot in front of p that is no long-name slot, or 0.
Boundary(s, p) == Max({0} \cup {q \in 1..(p - 1) : s[q].tag # "lfn"})

\* The long name fat_dir_next_lfn assembles for the entry at p, read from i:
\* the last run that starts in front of it, if nothing breaks it.
LongName(s, i, p) ==
  LET starts == {q \in Max({i, Boundary(s, p) + 1})..(p - 1) : s[q].last}
      start  == Max(starts)
      run    == start..(p - 1)
  IN  IF \/ starts = {}
         \/ \E q \in run : s[q].sum # s[start].sum
         \/ s[start].sum # fat_lfn_checksum(s[p].name)
        THEN NoLong
      ELSE IF \A q \in run : s[q].text = s[start].text /\ s[q].ord = p - q
        THEN s[start].text
      ELSE Garbled

\* The name a search by long names shows for the entry at p.
Shown(s, p) ==
  LET long == LongName(s, 1, p) IN IF long = NoLong THEN s[p].name ELSE long

\* lfn_lookup: the entry with that long or short name, or 0.
lfn_lookup(s, name) ==
  LET hits == {p \in DOMAIN s : IsEntry(s[p]) /\ name \in {s[p].name, Shown(s, p)}}
  IN  IF hits = {} THEN 0 ELSE Min(hits)

\* fat_resolve_dir: the directories a path of at most one component leads to,
\* from the root or from the current directory.
Component(d, name) ==
  LET p == fat_dir_search(dir[d], name)
  IN  IF name = Dot THEN d
      ELSE IF p # 0 /\ IsDir(dir[d][p]) THEN dir[d][p].first
      ELSE Nowhere

fat_resolve_dir ==
  {Component(d, n) : d \in {Root, cwd}, n \in ShortNames \cup Aliases \cup {Dot, DotDot}}
    \ {Nowhere}

----------------------------------------------------------------------------
\* Making room.  A tree t is the two variables that an operation changes.
Tree == [dir |-> dir, owner |-> owner]

FreeClusters(t) == {c \in Clusters : t.owner[c] = NoOne}

\* fat_dir_lba: the slots there are on disk for d.
Capacity(t, d) ==
  IF d = Root THEN RootSize
  ELSE SlotsPerCluster * Cardinality({c \in Clusters : t.owner[c] = d})

\* fat_dir_extend: the lowest free cluster, zeroed, is added to d.
fat_dir_extend(t, d) == [t EXCEPT !.owner[Min(FreeClusters(t))] = d]

\* at is the place found, 0 when there is none.  A FAT12/16 root is fixed.
fat_dir_alloc_slot(t, d) ==
  LET deleted == {p \in DOMAIN t.dir[d] : t.dir[d][p] = Del}
      next    == Len(t.dir[d]) + 1
  IN  IF deleted # {} THEN [t |-> t, at |-> Min(deleted)]
      ELSE IF next <= Capacity(t, d) THEN [t |-> t, at |-> next]
      ELSE IF d = Root \/ FreeClusters(t) = {} THEN [t |-> t, at |-> 0]
      ELSE [t |-> fat_dir_extend(t, d), at |-> next]

\* Where count free slots in a row start, when s has room for so many.
Runs(s, room, count) ==
  {p \in 1..(Len(s) + 1) : /\ p + count - 1 <= room
                           /\ \A q \in p..(p + count - 1) : q <= Len(s) => s[q] = Del}

\* The directory grows until there is a run; when the disk is full first, it
\* keeps what it has grown by.
fat_dir_alloc_run(t, d, count) ==
  LET more == IF d = Root THEN 0 ELSE Cardinality(FreeClusters(t))
      grown[n \in 0..more] == IF n = 0 THEN t ELSE fat_dir_extend(grown[n - 1], d)
      runs(n) == Runs(t.dir[d], Capacity(grown[n], d), count)
      fits == {n \in 0..more : runs(n) # {}}
  IN  IF fits = {} THEN [t |-> grown[more], at |-> 0]
      ELSE [t |-> grown[Min(fits)], at |-> Min(runs(Min(fits)))]

\* The first alias of l that is not taken.
fat_make_shortname(s, l) ==
  LET unused == {n \in 1..MaxAlias : fat_dir_search(s, <<LongBase[l], n>>) = 0}
  IN  <<LongBase[l], IF unused = {} THEN MaxAlias ELSE Min(unused)>>

\* fat_dir_set.
Set(t, d, p, slot) ==
  [t EXCEPT !.dir[d] = IF p > Len(@) THEN Append(@, slot) ELSE [@ EXCEPT ![p] = slot]]

\* fat_alloc_lfn_entry: a run for l with its slots written; at is where the
\* 8.3 entry goes.
fat_alloc_lfn_entry(t, d, l, short) ==
  LET n   == LongSlots[l]
      got == fat_dir_alloc_run(t, d, n + 1)
      put[k \in 0..n] ==
        IF k = 0 THEN got.t
        ELSE Set(put[k - 1], d, got.at + k - 1,
                 Piece(l, n - k + 1, k = 1, fat_lfn_checksum(short)))
  IN  IF got.at = 0 THEN got ELSE [t |-> put[n], at |-> got.at + n]

\* Place for an entry of that name, with the slots of a long one.
Room(t, d, name) ==
  LET long  == ~fat_is_short_name(name)
      short == IF long THEN fat_make_shortname(t.dir[d], name) ELSE name
      got   == IF long THEN fat_alloc_lfn_entry(t, d, name, short) ELSE fat_dir_alloc_slot(t, d)
  IN  [t |-> got.t, at |-> got.at, short |-> short, long |-> IF long THEN name ELSE NoLong]

\* The slots just before p, back to the first that is no long-name slot.
fat_delete_lfn_slots(t, d, p) ==
  LET s == t.dir[d]
      kept == Boundary(s, p)
  IN  [t EXCEPT !.dir[d] = [q \in DOMAIN s |-> IF q > kept /\ q < p THEN Del ELSE s[q]]]

\* fat_free_chain for the directory at c.  The root has no chain.
Freed(t, c) ==
  [dir   |-> [t.dir EXCEPT ![c] = IF c = Root THEN @ ELSE <<>>],
   owner |-> [k \in Clusters |-> IF t.owner[k] = c THEN NoOne ELSE t.owner[k]]]

\* A new directory at c below d: "." and ".." in a zeroed cluster.
NewDir(t, c, d) ==
  [dir   |-> [t.dir EXCEPT ![c] = <<Entry(Dot, "dir", c, NoLong),
                                    Entry(DotDot, "dir", d, NoLong)>>],
   owner |-> [t.owner EXCEPT ![c] = c]]

----------------------------------------------------------------------------
\* Searches.  todo is a history variable: the matching entries that were there
\* when the search began, have not moved since and have not been returned.
Idle == [on |-> FALSE]
Memory == -1
Searches == Handles \cup {Memory}
Active == {h \in Searches : search[h].on}

\* The names by which the search h, about to read slot at, knows entry p.
KnownAs(h, s, at, p) ==
  IF h \in Handles THEN {s[p].name, LongName(s, at, p)} ELSE {s[p].name}

Matches(h, q, s, p) ==
  /\ IsEntry(s[p])
  /\ IsDir(s[p]) => q.dirs
  /\ KnownAs(h, s, q.at, p) \cap q.pattern # {}

\* Mutant: the entry after the one returned is not looked at.
SkipOne(h, q, s) ==
  LET hits == {p \in DOMAIN s : p >= q.at /\ Matches(h, q, s, p)}
  IN  IF hits = {} THEN [found |-> FALSE, q |-> [q EXCEPT !.at = Len(s) + 1]]
      ELSE [found |-> TRUE, q |-> [q EXCEPT !.at = Min(hits) + 2, !.todo = @ \ {Min(hits)}]]

\* find_continue, find_scan, fcb_find: on to the next match, or to the end.
find_continue(h, q, s) ==
  LET hits == {p \in DOMAIN s : p >= q.at /\ Matches(h, q, s, p)}
  IN  IF hits = {} THEN [found |-> FALSE, q |-> [q EXCEPT !.at = Len(s) + 1]]
      ELSE [found |-> TRUE, q |-> [q EXCEPT !.at = Min(hits) + 1, !.todo = @ \ {Min(hits)}]]

\* What happens to the history of a search when its directory changes.
Watched(h, q, t) ==
  IF ~q.on THEN q
  ELSE IF q.dir \in Clusters /\ t.dir[q.dir] = <<>> THEN [q EXCEPT !.lost = TRUE, !.todo = {}]
  ELSE [q EXCEPT !.todo = {p \in @ : Matches(h, q, t.dir[q.dir], p)}, !.during = @ + 1]

Tagged(t, tag) ==
  UNION {{<<d, p>> : p \in {q \in DOMAIN t.dir[d] : t.dir[d][q].tag = tag}} : d \in DOMAIN t.dir}

Becomes(t) ==
  /\ t # Tree
  /\ Cardinality(Tagged(t, "lfn")) <= MaxPieces
  /\ Cardinality(Tagged(t, "del")) <= MaxPieces
  /\ \A h \in Active : search[h].during < MaxDuring
  /\ dir' = t.dir
  /\ owner' = t.owner
  /\ search' = [h \in Searches |-> Watched(h, search[h], t)]

----------------------------------------------------------------------------
Init ==
  /\ dir = [d \in {Root} \cup Clusters |-> <<>>]
  /\ owner = [c \in Clusters |-> NoOne]
  /\ cwd = Root
  /\ search = [h \in Searches |-> Idle]

\* 3Ch and 5Bh on a name that is not there, and 716Ch, which takes long names.
Create(d, name) ==
  LET room == Room(Tree, d, name)
  IN  /\ IF room.at = 0 THEN Becomes(room.t)
         ELSE Becomes(Set(room.t, d, room.at, Entry(room.short, "file", 0, room.long)))
      /\ UNCHANGED cwd

f3c_create(d, name) ==
  /\ fat_is_short_name(name)
  /\ fat_dir_search(dir[d], name) = 0
  /\ Create(d, name)

f71_open(d, name) ==
  /\ lfn_lookup(dir[d], name) = 0
  /\ Create(d, name)

\* 39h and 7139h.  The slot is found, and the directory grown, before the
\* cluster: when the disk is full, slots of a long name stay behind.
MakeDir(d, name) ==
  LET room == Room(Tree, d, name)
      c    == Min(FreeClusters(room.t))
  IN  /\ IF room.at = 0 \/ FreeClusters(room.t) = {} THEN Becomes(room.t)
         ELSE Becomes(Set(NewDir(room.t, c, d), d, room.at, Entry(room.short, "dir", c, room.long)))
      /\ UNCHANGED cwd

f39_mkdir(d, name) ==
  /\ fat_is_short_name(name)
  /\ fat_dir_search(dir[d], name) = 0
  /\ MakeDir(d, name)

f71_mkdir(d, name) ==
  /\ lfn_lookup(dir[d], name) = 0
  /\ MakeDir(d, name)

\* 41h: the slots of a long name are left where they are.
Unlinked(d, p) == Set(Tree, d, p, Del)

CanUnlink(s, p) == p # 0 /\ ~IsDir(s[p]) /\ ~s[p].ro

file_unlink_path(d, name) ==
  LET p == fat_dir_search(dir[d], name)
  IN  /\ CanUnlink(dir[d], p)
      /\ Becomes(Unlinked(d, p))
      /\ UNCHANGED cwd

f71_delete(d, name) ==
  LET p == lfn_lookup(dir[d], name)
  IN  /\ CanUnlink(dir[d], p)
      /\ Becomes(fat_delete_lfn_slots(Unlinked(d, p), d, p))
      /\ UNCHANGED cwd

\* 13h: every file the pattern matches, but no directory.
f13_fcb_delete(pattern) ==
  /\ Becomes([Tree EXCEPT !.dir[cwd] =
       [p \in DOMAIN @ |-> IF /\ IsEntry(@[p]) /\ ~IsDir(@[p]) /\ ~@[p].ro
                              /\ @[p].name \in pattern
                             THEN Del ELSE @[p]]])
  /\ UNCHANGED cwd

\* 3Ah: an empty directory, slots left by long names counted, other than the
\* current one.
CanRemove(s, p) ==
  /\ p # 0 /\ IsDir(s[p]) /\ ~s[p].ro
  /\ s[p].first # cwd
  /\ LET sub == dir[s[p].first] IN \A q \in 3..Len(sub) : sub[q] = Del

Removed(d, p) == Set(Freed(Tree, dir[d][p].first), d, p, Del)

f3a_rmdir(d, name) ==
  LET p == fat_dir_search(dir[d], name)
  IN  /\ CanRemove(dir[d], p)
      /\ Becomes(Removed(d, p))
      /\ UNCHANGED cwd

f71_rmdir(d, name) ==
  LET p == lfn_lookup(dir[d], name)
  IN  /\ CanRemove(dir[d], p)
      /\ Becomes(fat_delete_lfn_slots(Removed(d, p), d, p))
      /\ UNCHANGED cwd

----------------------------------------------------------------------------
\* Renaming and moving.

\* The directories from d up to the root.
Above(d) ==
  LET up[k \in 0..MaxCluster] ==
        IF k = 0 \/ up[k - 1] = Root THEN IF k = 0 THEN d ELSE Root
        ELSE dir[up[k - 1]][2].first
  IN  {up[k] : k \in 0..MaxCluster}

\* Mutant: ".." of a moved directory is left alone.
KeepsDotDot(t, e, d2) == t

HasDotDot(s) == Len(s) >= 2 /\ IsEntry(s[2]) /\ s[2].name = DotDot

\* ".." of a moved directory leads to where it is now.
FixDotDot(t, e, d2) ==
  IF IsDir(e) /\ HasDotDot(t.dir[e.first]) THEN [t EXCEPT !.dir[e.first][2].first = d2] ELSE t

\* 56h.  In one directory the entry stays in its slot; otherwise the new
\* entry is written before the old one is dropped.  Slots of a long name stay.
file_rename_path(d, name) ==
  LET p == fat_dir_search(dir[d], name)
  IN  /\ p # 0
      /\ \E name2 \in NewNames, d2 \in fat_resolve_dir :
           LET e == [dir[d][p] EXCEPT !.name = name2, !.long = NoLong]
               room == fat_dir_alloc_slot(Tree, d2)
           IN  /\ fat_is_short_name(name2)
               /\ fat_dir_search(dir[d2], name2) = 0
               /\ MovesAnywhere \/ d = d2 \/ ~IsDir(e) \/ e.first \notin Above(d2)
               /\ IF d = d2 THEN Becomes(Set(Tree, d, p, e))
                  ELSE IF room.at = 0 THEN Becomes(room.t)
                  ELSE Becomes(Set(FixDotDot(Set(room.t, d2, room.at, e), e, d2), d, p, Del))
      /\ UNCHANGED cwd

\* 7156h: always to a new slot.  ".." of a moved directory is left alone.
f71_rename(d, name) ==
  LET p == lfn_lookup(dir[d], name)
  IN  /\ p # 0
      /\ \E name2 \in NewNames, d2 \in fat_resolve_dir :
           LET room == Room(Tree, d2, name2)
               e == [dir[d][p] EXCEPT !.name = room.short, !.long = room.long]
           IN  /\ lfn_lookup(dir[d2], name2) = 0
               /\ MovesAnywhere \/ d = d2 \/ ~IsDir(dir[d][p])
               /\ IF room.at = 0 THEN Becomes(room.t)
                  ELSE Becomes(Set(fat_delete_lfn_slots(Set(room.t, d2, room.at, e), d, p), d, p, Del))
      /\ UNCHANGED cwd

\* Mutant: 17h does not look for the new name.
NeverTaken(s, name) == FALSE

Taken(s, name) == fat_dir_search(s, name) # 0

\* 17h: every file the pattern matches whose new name is not taken yet, in the
\* order of the entries.
f17_fcb_rename(pattern, newname) ==
  LET s == dir[cwd]
      after[k \in 0..Len(s)] ==
        IF k = 0 THEN s
        ELSE LET u == after[k - 1]
             IN  IF /\ IsEntry(u[k]) /\ ~IsDir(u[k])
                    /\ u[k].name \in pattern
                    /\ ~Taken(u, newname)
                   THEN [u EXCEPT ![k].name = newname, ![k].long = NoLong]
                   ELSE u
  IN  /\ after[Len(s)] # s
      /\ Becomes([Tree EXCEPT !.dir[cwd] = after[Len(s)]])
      /\ UNCHANGED cwd

\* 43h and 7143h: the read-only attribute.
f43_attrib(d, name, ro) ==
  LET p == lfn_lookup(dir[d], name)
  IN  /\ p # 0
      /\ Becomes([Tree EXCEPT !.dir[d][p].ro = ro])
      /\ UNCHANGED cwd

\* 3Bh.
fat_chdir(d) == cwd' = d /\ UNCHANGED <<dir, owner, search>>

\* 713Bh: the last component by its long name.
f71_chdir(d, name) ==
  LET p == lfn_lookup(dir[d], name)
  IN  /\ p # 0 /\ IsDir(dir[d][p])
      /\ fat_chdir(dir[d][p].first)

----------------------------------------------------------------------------
\* A search of d for a pattern, as it starts.
Started(h, d, pattern, dirs) ==
  LET q == [on |-> TRUE, dir |-> d, at |-> 1, pattern |-> pattern, dirs |-> dirs,
            todo |-> {}, lost |-> FALSE, during |-> 0]
  IN  [q EXCEPT !.todo = {p \in DOMAIN dir[d] : Matches(h, q, dir[d], p)}]

CanStart(q) == Cardinality(Active) < Searching /\ Cardinality(q.todo) >= MinFound

\* 4Eh in the DTA; 11h, in an FCB, searches the current directory.
FindFirst(d, pattern, dirs) ==
  LET q == Started(Memory, d, pattern, dirs)
  IN  /\ CanStart(q)
      /\ search' = [search EXCEPT ![Memory] = find_continue(Memory, q, dir[d]).q]
      /\ UNCHANGED <<dir, owner, cwd>>

f4e_findfirst(d, pattern, dirs) == FindFirst(d, pattern, dirs)
f11_fcb_findfirst(pattern, dirs) == FindFirst(cwd, pattern, dirs)

\* 714Eh takes the first free handle, if there is a match.
FreeHandles == {h \in Handles : ~search[h].on}

f71_findfirst(h, d, pattern, dirs) ==
  LET q == Started(h, d, pattern, dirs)
      first == find_continue(h, q, dir[d])
  IN  /\ CanStart(q)
      /\ h \in FreeHandles /\ h = Min(FreeHandles)
      /\ first.found
      /\ search' = [search EXCEPT ![h] = first.q]
      /\ UNCHANGED <<dir, owner, cwd>>

\* 4Fh, 12h and 714Fh.  No search goes on in a directory that was removed.
FindNext(h) ==
  /\ search[h].on /\ ~search[h].lost
  /\ search' = [search EXCEPT ![h] = find_continue(h, @, dir[@.dir]).q]
  /\ UNCHANGED <<dir, owner, cwd>>

\* 71A1h.
f71_findclose(h) ==
  /\ search[h].on
  /\ search' = [search EXCEPT ![h] = Idle]
  /\ UNCHANGED <<dir, owner, cwd>>

\* The memory of a DTA or an FCB is used for something else.
Forget ==
  /\ search[Memory].on
  /\ search' = [search EXCEPT ![Memory] = Idle]
  /\ UNCHANGED <<dir, owner, cwd>>

----------------------------------------------------------------------------
Live == {Root} \cup {c \in Clusters : owner[c] = c}
EntriesOf(d) == {p \in DOMAIN dir[d] : IsEntry(dir[d][p])}
Named(d) == {p \in EntriesOf(d) : dir[d][p].name \notin {Dot, DotDot}}

Creating(d) ==
  /\ Cardinality(UNION {{<<u, p>> : p \in Named(u)} : u \in Live}) < MaxEntries
  /\ \E name \in NewNames :
       \/ f3c_create(d, name) \/ f71_open(d, name)
       \/ f39_mkdir(d, name) \/ f71_mkdir(d, name)

ByName(d) ==
  \E name \in Names :
    \/ file_unlink_path(d, name) \/ f71_delete(d, name)
    \/ f3a_rmdir(d, name) \/ f71_rmdir(d, name)
    \/ f71_chdir(d, name)
    \/ name \in Attributes /\ \E ro \in BOOLEAN : f43_attrib(d, name, ro)
    \/ file_rename_path(d, name) \/ f71_rename(d, name)

ByPattern ==
  \E pattern \in Patterns :
    \/ f13_fcb_delete(pattern)
    \/ \E name \in ShortNames : f17_fcb_rename(pattern, name)
    \/ \E dirs \in Masks :
         \/ f11_fcb_findfirst(pattern, dirs)
         \/ \E d \in fat_resolve_dir :
              f4e_findfirst(d, pattern, dirs) \/ \E h \in Handles : f71_findfirst(h, d, pattern, dirs)

Next ==
  \/ \E d \in fat_resolve_dir : Creating(d) \/ ByName(d) \/ fat_chdir(d)
  \/ ByPattern
  \/ \E h \in Searches : FindNext(h)
  \/ \E h \in Handles : f71_findclose(h)
  \/ Forget

Spec == Init /\ [][Next]_vars

----------------------------------------------------------------------------
\* Through any sequence of calls by short and by long names no two entries of a
\* directory go by the same name, and each shows the long name it was given
\* last and no other, whatever slots other calls have left in front of it: as
\* long as no 8.3 call gives an entry that it creates or renames the name of an
\* alias (~AliasNames).  With AliasNames it fails: 3Ch of the alias of a long
\* name that 41h has deleted takes the slot behind its orphaned run, and the new
\* file shows the dead name.
NamesSound ==
  \A d \in Live :
    /\ \A p \in EntriesOf(d) : LongName(dir[d], 1, p) = dir[d][p].long
    /\ \A p, q \in EntriesOf(d) :
         p # q => {dir[d][p].name, Shown(dir[d], p)} \cap {dir[d][q].name, Shown(dir[d], q)} = {}

\* The entries, by directory and place, that lead to the directory d.
Leading(d) ==
  UNION {{<<u, p>> : p \in {q \in Named(u) : IsDir(dir[u][q]) /\ dir[u][q].first = d}} : u \in Live}

\* The directories form one tree: every one has one entry that leads to it,
\* and its ".." back to the directory of that entry; no cluster is lost or
\* shared, and no directory is longer than its chain; the current directory and
\* the directories searched exist.
TreeSound ==
  /\ \A d \in Live :
       /\ Len(dir[d]) <= Capacity(Tree, d)
       /\ d # Root =>
            /\ Cardinality(Leading(d)) = 1
            /\ \A x \in Leading(d) : dir[d][2].first = x[1]
            /\ dir[d][1] = Entry(Dot, "dir", d, NoLong) /\ dir[d][2].name = DotDot
            /\ Root \in Above(d)
       /\ \A p \in Named(d) : IsDir(dir[d][p]) => dir[d][p].first \in Live \ {Root}
  /\ \A c \in Clusters : owner[c] \in {NoOne} \cup (Live \ {Root})
  /\ cwd \in Live
  /\ \A h \in Active : search[h].lost \/ search[h].dir \in Live

\* An entry that was there when a search began, and is still there, has been
\* returned or is still ahead of the search: what other calls create, delete
\* and rename meanwhile hides nothing.
ScansComplete == \A h \in Active : \A p \in search[h].todo : p >= search[h].at
=============================================================================
