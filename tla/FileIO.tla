------------------------------- MODULE FileIO --------------------------------
(***************************************************************************)
(* Reading, writing, truncating, deleting and renaming files, as           *)
(* src/kernel/file.c does it over the directory entries and the FAT of     *)
(* fat.c.  An open file keeps its size, its first cluster and the cluster  *)
(* it was last at in its slot of the system file table, and writes the     *)
(* first two to the directory entry when it is flushed.  A sector is the   *)
(* unit of data.  Every handle has a slot of its own here (module Handles  *)
(* has the sharing of slots), no region is locked, no file is read-only,   *)
(* directories do not grow, and the power can go between two calls.        *)
(***************************************************************************)
EXTENDS Volume, ShareModes, FiniteSets

CONSTANTS ClusterSecs,  \* v->secs_per_clus
          Dirs,         \* directories, by first cluster
          DirSize,      \* entries of a directory
          Names,        \* names, all valid 8.3 names
          NumSft,       \* slots of the system file table left for files
          OpenModes,    \* bound of the model: open ALs tried
          Vals,         \* bound of the model: what programs write
          Counts,       \* bound of the model: sectors per read or write
          Positions,    \* bound of the model: where programs seek to
          MaxSecs,      \* bound of the model: no write goes beyond this size
          Careful       \* TRUE: programs delete and rename closed files only

ASSUME SizeAssumption ==
  /\ ClusterSecs \in Nat \ {0}
  /\ DirSize \in Nat \ {0}
  /\ NumSft \in Nat \ {0}
ASSUME InputAssumption ==
  /\ OpenModes \subseteq Modes
  /\ Counts \subseteq Nat \ {0}
  /\ Positions \subseteq 0..MaxSecs
  /\ Careful \in BOOLEAN
  /\ MaxSecs \in Nat

VARIABLES
  dir,     \* place <<directory, index>> |-> directory entry
  vol,     \* the FAT (module Volume)
  data,    \* cluster |-> its sectors
  sft      \* slot |-> open-file entry

vars == <<dir, vol, data, sft>>

Slots  == 0..(NumSft - 1)
Places == Dirs \X (0..(DirSize - 1))
Sector == 0..(ClusterSecs - 1)

NoFile == [used |-> FALSE]
File(name, first, size) == [used |-> TRUE, name |-> name, first |-> first, size |-> size]

Closed == [open |-> FALSE]
Entered(place, mode, first, size) ==
  [open |-> TRUE, place |-> place, mode |-> mode, dirty |-> FALSE,
   first |-> first, cur |-> first, cpos |-> 0, pos |-> 0, size |-> size]

\* fat_dir_search_i: the place of a name, as a set of at most one.
Found(d, name) == {i \in Places : i[1] = d /\ dir[i].used /\ dir[i].name = name}
PlaceOf(d, name) == CHOOSE i \in Found(d, name) : TRUE

\* fat_dir_alloc_slot: the first entry of d that is free.
FreePlaces(d) == {i \in Places : i[1] = d /\ ~dir[i].used}
FirstFree(d) == CHOOSE i \in FreePlaces(d) : \A j \in FreePlaces(d) : i[2] <= j[2]

FreeSft == {s \in Slots : ~sft[s].open}
LowestSft == CHOOSE s \in FreeSft : \A t \in FreeSft : s <= t

OpenAt(place) == {s \in Slots : sft[s].open /\ sft[s].place = place}
share_conflict(place, clashing) == \E s \in OpenAt(place) : sft[s].mode \in clashing
Clashing(mode) == {m \in Modes : ~share_mode_compat(m, mode)}

----------------------------------------------------------------------------
\* Transfers.  A transfer t is a slot f on its way, with the volume, the data,
\* what was read, the count still to go, and whether it had to stop.
Start(s, n) == [f |-> sft[s], vol |-> vol, data |-> data, read |-> <<>>,
                left |-> n, stop |-> FALSE]

\* Mutant: the position of the cursor is taken back, its cluster is not.
RewindPosition(t) == IF t.f.pos < t.f.cpos THEN [t EXCEPT !.f.cpos = 0] ELSE t

\* Seeked backwards: start again from the first cluster.
Rewind(t) ==
  IF t.f.pos < t.f.cpos THEN [t EXCEPT !.f.cur = t.f.first, !.f.cpos = 0] ELSE t

\* On to the next cluster; a write (grow) adds one to the end of the chain.
NextCluster(t, grow) ==
  LET seen == Looked(t.vol, t.f.cur)
      next == seen.fat[t.f.cur]
      new  == fat_alloc(seen, t.f.cur)
  IN  IF next # CLUS_EOC
        THEN [t EXCEPT !.vol = seen, !.f.cur = next, !.f.cpos = @ + ClusterSecs]
      ELSE IF ~grow THEN [t EXCEPT !.vol = seen, !.stop = TRUE]
      ELSE IF new.cl = 0 THEN [t EXCEPT !.vol = new.vol, !.stop = TRUE]
      ELSE [t EXCEPT !.vol = new.vol, !.f.cur = new.cl, !.f.cpos = @ + ClusterSecs,
                     !.f.dirty = TRUE]

\* Seeked forwards: the position is in a later cluster.
Forward(t, grow) ==
  LET after[k \in 0..(MaxSecs \div ClusterSecs)] ==
        IF k = 0 THEN t
        ELSE LET u == after[k - 1]
             IN  IF u.stop \/ u.f.cpos + ClusterSecs > u.f.pos THEN u
                 ELSE NextCluster(u, grow)
  IN  after[MaxSecs \div ClusterSecs]

\* One sector has been read or written.
Moved(t, grow) ==
  LET u == [t EXCEPT !.f.pos = @ + 1, !.left = @ - 1]
  IN  IF u.f.pos - u.f.cpos >= ClusterSecs /\ u.left > 0
        THEN NextCluster(u, grow) ELSE u

GetSector(t) ==
  Moved([t EXCEPT !.read = Append(@, t.data[t.f.cur][t.f.pos - t.f.cpos])], FALSE)

\* Mutant: the file ends where the last write did.
PutAndEnd(t, v) ==
  Moved([t EXCEPT !.data[t.f.cur][t.f.pos - t.f.cpos] = v,
                  !.f.size = t.f.pos + 1,
                  !.f.dirty = TRUE], TRUE)

PutSector(t, v) ==
  Moved([t EXCEPT !.data[t.f.cur][t.f.pos - t.f.cpos] = v,
                  !.f.size = IF t.f.pos < @ THEN @ ELSE t.f.pos + 1,
                  !.f.dirty = TRUE], TRUE)

Least(a, b) == IF a < b THEN a ELSE b

file_do_read(s, n) ==
  LET count == Least(n, sft[s].size - sft[s].pos)
      after[k \in 0..n] ==
        IF k = 0 THEN Forward(Rewind(Start(s, count)), FALSE)
        ELSE LET t == after[k - 1]
             IN  IF t.stop \/ t.left = 0 THEN t ELSE GetSector(t)
  IN  IF sft[s].pos >= sft[s].size THEN Start(s, 0) ELSE after[n]

\* A file without a cluster gets its first one.
WithFirst(t) ==
  LET new == fat_alloc(t.vol, 0)
  IN  IF t.f.first # 0 THEN t
      ELSE IF new.cl = 0 THEN [t EXCEPT !.vol = new.vol, !.stop = TRUE]
      ELSE [t EXCEPT !.vol = new.vol, !.f.first = new.cl, !.f.cur = new.cl,
                     !.f.cpos = 0, !.f.dirty = TRUE]

file_do_write(s, v, n) ==
  LET after[k \in 0..n] ==
        IF k = 0 THEN LET t == WithFirst(Start(s, n))
                      IN  IF t.stop THEN t ELSE Forward(Rewind(t), TRUE)
        ELSE LET t == after[k - 1]
             IN  IF t.stop \/ t.left = 0 THEN t ELSE PutSector(t, v)
  IN  after[n]

----------------------------------------------------------------------------
\* What file_flush leaves of the directory.  The entry is read back, its name
\* (or that it is deleted) stays as it is on disk.
Flushed(f) ==
  IF f.dirty /\ dir[f.place].used
    THEN [dir EXCEPT ![f.place].first = f.first, ![f.place].size = f.size]
    ELSE dir

\* Mutant: the directory entry is written, the FAT is not.
FlushEntryOnly(f, v) == dir' = Flushed(f) /\ vol' = v

\* f is the open file, v the volume as the caller has left it.
file_flush(f, v) ==
  /\ dir' = Flushed(f)
  /\ vol' = IF f.dirty THEN fat_commit(v) ELSE v

\* Clusters kept by a truncation to pos > 0: the last of them.
LastKept(v, f) ==
  Chain(v.fat, f.first)[(f.pos - 1) \div ClusterSecs]

\* The slot after it: the cursor is back at the first cluster.
CutSlot(f, first) ==
  [f EXCEPT !.first = first, !.cur = first, !.cpos = 0, !.size = f.pos, !.dirty = TRUE]

\* Mutant: the last cluster kept still leads to those that are freed.
CutDangling(f, v) ==
  IF f.pos = 0
    THEN [f |-> CutSlot(f, 0), vol |-> fat_free_chain(v, f.first)]
    ELSE [f |-> CutSlot(f, f.first), vol |-> fat_free_chain(v, v.fat[LastKept(v, f)])]

\* file_truncate up to its flush, which leaves nothing in the cache of the
\* sectors looked at on the way to the last cluster.
Cut(f, v) ==
  IF f.pos = 0
    THEN [f |-> CutSlot(f, 0), vol |-> fat_free_chain(v, f.first)]
    ELSE [f |-> CutSlot(f, f.first),
          vol |-> fat_free_chain(fat_set(v, LastKept(v, f), CLUS_EOC), v.fat[LastKept(v, f)])]

----------------------------------------------------------------------------
Init ==
  /\ dir = [i \in Places |-> NoFile]
  /\ vol = Formatted
  /\ data = [c \in Entry |-> [k \in Sector |-> 0]]
  /\ sft = [s \in Slots |-> Closed]

IsOpen(s) == sft[s].open

f3d_open(d, name, mode) ==
  LET place == PlaceOf(d, name)
  IN  /\ Found(d, name) # {}
      /\ ~share_conflict(place, Clashing(mode))
      /\ FreeSft # {}
      /\ sft' = [sft EXCEPT ![LowestSft] =
                   Entered(place, mode, dir[place].first, dir[place].size)]
          /\ UNCHANGED <<dir, vol, data>>

\* create_core at a place, once it holds v and its entry is to be written: a
\* call that finds no slot fails after that.
CreateAt(place, name, v) ==
  /\ dir' = [dir EXCEPT ![place] = File(name, 0, 0)]
  /\ vol' = fat_commit(v)
  /\ sft' = IF FreeSft = {} THEN sft
            ELSE [sft EXCEPT ![LowestSft] = Entered(place, Mode(0, 2), 0, 0)]
  /\ UNCHANGED data

\* 3Ch of a file that exists.
CreateOver(d, name) ==
  LET place == PlaceOf(d, name)
  IN  /\ Found(d, name) # {}
      /\ ~share_conflict(place, Modes)
      /\ CreateAt(place, name, fat_free_chain(vol, dir[place].first))

\* 3Ch or 5Bh of a new file.
CreateNew(d, name) ==
  /\ Found(d, name) = {}
  /\ FreePlaces(d) # {}
  /\ CreateAt(FirstFree(d), name, vol)

f3e_close(s) ==
  /\ IsOpen(s)
  /\ file_flush(sft[s], vol)
  /\ sft' = [sft EXCEPT ![s] = Closed]
  /\ UNCHANGED data

f68_commit(s) ==
  /\ IsOpen(s)
  /\ file_flush(sft[s], vol)
  /\ sft' = [sft EXCEPT ![s].dirty = FALSE]
  /\ UNCHANGED data

f3f_read(s, n) ==
  /\ IsOpen(s)
  /\ LET t == file_do_read(s, n)
     IN  /\ sft' = [sft EXCEPT ![s] = t.f]
         /\ vol' = t.vol
  /\ UNCHANGED <<dir, data>>

Writable(s) == IsOpen(s) /\ sft[s].mode.access # 0

f40_write(s, v, n) ==
  /\ Writable(s)
  /\ sft[s].pos + n <= MaxSecs
  /\ LET t == file_do_write(s, v, n)
     IN  /\ sft' = [sft EXCEPT ![s] = t.f]
         /\ vol' = t.vol
         /\ data' = t.data
  /\ UNCHANGED dir

\* 40h with CX = 0, before the end of the file.
file_truncate(s) ==
  /\ Writable(s)
  /\ sft[s].pos < sft[s].size
  /\ LET cut == Cut(sft[s], vol)
     IN  /\ file_flush(cut.f, cut.vol)
         /\ sft' = [sft EXCEPT ![s] = [cut.f EXCEPT !.dirty = FALSE]]
  /\ UNCHANGED data

\* Any whence: the new position can be anywhere, past the end too.
f42_seek(s, pos) ==
  /\ IsOpen(s)
  /\ sft' = [sft EXCEPT ![s].pos = pos]
  /\ UNCHANGED <<dir, vol, data>>

\* 36h counts the free clusters, which takes every FAT sector through the
\* cache.
f36_freespace ==
  /\ vol' = Searched(vol, MaxCluster)
  /\ UNCHANGED <<dir, data, sft>>

\* 0Dh writes the FAT, and no directory entry.
f0d_diskreset ==
  /\ vol' = fat_commit(vol)
  /\ UNCHANGED <<dir, data, sft>>

file_unlink_path(d, name) ==
  LET place == PlaceOf(d, name)
  IN  /\ Found(d, name) # {}
      /\ Careful => OpenAt(place) = {}
      /\ dir' = [dir EXCEPT ![place] = NoFile]
      /\ vol' = fat_commit(fat_free_chain(vol, dir[place].first))
          /\ UNCHANGED <<data, sft>>

\* Within a directory the entry stays where it is and the FAT is not written.
RenameInPlace(d, old, new) ==
  /\ dir' = [dir EXCEPT ![PlaceOf(d, old)].name = new]
  /\ UNCHANGED vol

RenameAcross(d, old, e, new) ==
  /\ FreePlaces(e) # {}
  /\ dir' = [dir EXCEPT ![FirstFree(e)] = [dir[PlaceOf(d, old)] EXCEPT !.name = new],
                        ![PlaceOf(d, old)] = NoFile]
  /\ vol' = fat_commit(vol)

file_rename_path(d, old, e, new) ==
  /\ Found(d, old) # {}
  /\ Found(e, new) = {}
  /\ Careful => OpenAt(PlaceOf(d, old)) = {}
  /\ IF d = e THEN RenameInPlace(d, old, new) ELSE RenameAcross(d, old, e, new)
  /\ UNCHANGED <<data, sft>>

\* The machine is switched off between two calls and started again.
PowerOff ==
  /\ vol' = Mounted(vol.disk)
  /\ sft' = [s \in Slots |-> Closed]
  /\ UNCHANGED <<dir, data>>

Next ==
  \/ \E d \in Dirs, n \in Names, m \in OpenModes : f3d_open(d, n, m)
  \/ \E d \in Dirs, n \in Names : CreateOver(d, n) \/ CreateNew(d, n)
  \/ \E s \in Slots : f3e_close(s) \/ f68_commit(s) \/ file_truncate(s)
  \/ \E s \in Slots, n \in Counts : f3f_read(s, n)
  \/ \E s \in Slots, v \in Vals, n \in Counts : f40_write(s, v, n)
  \/ \E s \in Slots, pos \in Positions : f42_seek(s, pos)
  \/ \E d \in Dirs, n \in Names : file_unlink_path(d, n)
  \/ \E d, e \in Dirs, n, m \in Names : file_rename_path(d, n, e, m)
  \/ f36_freespace
  \/ f0d_diskreset
  \/ PowerOff

Spec == Init /\ [][Next]_vars

----------------------------------------------------------------------------
EntryType == {NoFile} \cup [used : {TRUE}, name : Names, first : {0} \cup Clusters,
                            size : 0..MaxSecs]
OpenType == [open : {TRUE}, place : Places, mode : Modes, dirty : BOOLEAN,
             first : {0} \cup Clusters, cur : {0} \cup Clusters,
             cpos : {k * ClusterSecs : k \in 0..(MaxSecs \div ClusterSecs)},
             pos : 0..MaxSecs, size : 0..MaxSecs]
TableType == [Entry -> {0, CLUS_EOC} \cup Clusters]

TypeOK ==
  /\ dir \in [Places -> EntryType]
  /\ vol.fat \in TableType /\ vol.disk \in TableType
  /\ vol.at \in {Nowhere} \cup {SectorOf(c) : c \in Entry}
  /\ vol.dirty \in BOOLEAN
  /\ data \in [Entry -> [Sector -> Vals \cup {0}]]
  /\ sft \in [Slots -> {Closed} \cup OpenType]

\* The file at a place as the kernel has it: its unflushed open entry, or else
\* its directory entry.
Unflushed(place) == {s \in OpenAt(place) : sft[s].dirty}
Current(place) ==
  IF Unflushed(place) = {} THEN dir[place] ELSE sft[CHOOSE s \in Unflushed(place) : TRUE]
InUse == {i \in Places : dir[i].used}

Covers(fat, f) == f.size <= ClusterSecs * Cardinality(ClustersOf(fat, f.first))

\* Every file in the table fat, f(i) being the file at place i: its chain ends
\* properly, is long enough for its size, and shares no cluster.
Sound(fat, f) ==
  /\ \A i \in DOMAIN f : IsWhole(fat, f[i].first) /\ Covers(fat, f[i])
  /\ \A i, j \in DOMAIN f : i # j =>
       ClustersOf(fat, f[i].first) \cap ClustersOf(fat, f[j].first) = {}

\* "cluster containing cur_cluster_pos" (file.c:55): the cursor is on the
\* cluster of its position, so that the next transfer may start there.
CursorRight ==
  \A s \in Slots : IsOpen(s) =>
    sft[s].cur = Chain(vol.fat, sft[s].first)[sft[s].cpos \div ClusterSecs]

\* Whatever is written, cut, deleted and renamed in whatever order, no cluster
\* serves two files or is free while a file needs it, and no cursor is left on
\* a cluster that has been cut off.
FilesSound == TypeOK /\ Sound(vol.fat, [i \in InUse |-> Current(i)]) /\ CursorRight

\* The disk is as sound if the power goes now, between two calls: the entries
\* on disk describe whole files although the FAT in the cache is ahead of the
\* FAT on disk, and its sectors are written one by one as others are loaded.
DiskSound == Sound(vol.disk, [i \in InUse |-> dir[i]])

\* Clusters that are not free and in no file.
Lost == {c \in Clusters : vol.fat[c] # 0}
          \ UNION {ClustersOf(vol.fat, Current(i).first) : i \in InUse}

\* "Free a whole cluster chain" (fat.c:267): no call loses a cluster, failed
\* writes and creates included; only a power failure does.
NoLostCluster == [][PowerOff \/ Lost' \subseteq Lost]_vars

\* "Returns bytes written (may be short when the disk fills up)" (file.c:779):
\* a write is short only when it leaves no free cluster.
ShortOnlyWhenFull ==
  \A s \in Slots, v \in Vals, n \in Counts :
    Writable(s) /\ sft[s].pos + n <= MaxSecs =>
      LET t == file_do_write(s, v, n)
      IN  t.left > 0 => \A c \in Clusters : t.vol.fat[c] # 0

\* The contents of a file, sector by sector.
Content(place) ==
  LET f     == Current(place)
      chain == Chain(vol.fat, f.first)
  IN  [k \in 1..f.size |-> data[chain[(k - 1) \div ClusterSecs]][(k - 1) % ClusterSecs]]

\* What a read gives is the file, from the position on: the next n sectors or
\* those there are, wherever seeks, writes and truncations left the cursor.
ReadsBack ==
  \A s \in Slots, n \in Counts : IsOpen(s) =>
    LET file == Content(sft[s].place)
    IN  file_do_read(s, n).read =
          SubSeq(file, sft[s].pos + 1, Least(sft[s].pos + n, Len(file)))

\* What the programs see: the files by their paths, the open handles, and the
\* paths of the files that have not been flushed.
PathAt(place) == <<place[1], dir[place].name>>
FilesNow == [p \in {PathAt(i) : i \in InUse} |-> Content(PlaceOf(p[1], p[2]))]
OpenNow ==
  [s \in {t \in Slots : IsOpen(t)} |-> [path |-> PathAt(sft[s].place), pos |-> sft[s].pos]]
UnsavedNow == {PathAt(i) : i \in {j \in InUse : Unflushed(j) # {}}}
Store == INSTANCE FileStore WITH
  Paths <- Dirs \X Names, Handles <- Slots,
  files <- FilesNow, open <- OpenNow, unsaved <- UnsavedNow

\* Seen from the programs, the calls are those of a simple store of files
\* (module FileStore): what is read is what was written, at the position of
\* the handle, and a call changes no file but the one it is for.
StoreSpec == Store!Spec

\* "newmode 0xFF = any open entry conflicts (create truncating, delete, rename
\* paths)" (file.c:356): the directory entry of an open file keeps its name.
OpenFilesStay ==
  [][\A s \in Slots : IsOpen(s) /\ sft'[s].open =>
       dir'[sft[s].place].used /\ dir'[sft[s].place].name = dir[sft[s].place].name]_vars
=============================================================================
