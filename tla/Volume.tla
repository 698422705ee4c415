------------------------------- MODULE Volume --------------------------------
(***************************************************************************)
(* The File Allocation Table of one volume as src/kernel/fat.c keeps it:   *)
(* the entries on disk and, in front of them, a write-back cache of one    *)
(* sector of entries (f16buf).  With PerSector > MaxCluster the one sector *)
(* is the whole table: the fatcache of a FAT12 volume.  A volume is a      *)
(* record: fat is the table as the kernel sees it, disk what is stored, at *)
(* the cached sector, dirty whether the two differ there.  Disk reads and  *)
(* writes succeed here.                                                    *)
(***************************************************************************)
EXTENDS Integers, Sequences

CONSTANTS MaxCluster,  \* v->max_cluster
          PerSector    \* FAT entries in a sector: 256 (FAT16), 128 (FAT32)

ASSUME MaxClusterAssumption == MaxCluster \in Nat /\ MaxCluster >= 2
ASSUME PerSectorAssumption == PerSector \in Nat \ {0}

Entry    == 0..MaxCluster
Clusters == 2..MaxCluster
CLUS_EOC == -1
Nowhere  == -1

SectorOf(cl) == cl \div PerSector

Mounted(disk) == [fat |-> disk, disk |-> disk, at |-> Nowhere, dirty |-> FALSE]

\* A formatted volume: entries 0 and 1 hold the media byte, read as the end
\* of a chain.
Formatted == Mounted([k \in Entry |-> IF k \in Clusters THEN 0 ELSE CLUS_EOC])

f16_flush(v) ==
  IF v.dirty
    THEN [v EXCEPT !.disk = [k \in Entry |-> IF SectorOf(k) = v.at THEN v.fat[k] ELSE @[k]],
                   !.dirty = FALSE]
    ELSE v

f16_load(v, sector) ==
  IF v.at = sector THEN v ELSE [f16_flush(v) EXCEPT !.at = sector]

\* fat_next(cl) is the entry v.fat[cl]; this is what it does to the cache.
Looked(v, cl) == f16_load(v, SectorOf(cl))

fat_set(v, cl, val) ==
  [f16_load(v, SectorOf(cl)) EXCEPT !.fat[cl] = val, !.dirty = TRUE]

\* The search of fat_alloc has looked at the clusters up to last.
Searched(v, last) == Looked(Looked(v, 2), last)

\* Mutant: the last cluster is never looked at.
AllButLast(v) == {k \in 2..(MaxCluster - 1) : v.fat[k] = 0}

FreeClusters(v) == {k \in Clusters : v.fat[k] = 0}

\* The lowest free cluster, made the end of a chain and linked after prev
\* (if prev # 0).  cl = 0 when the disk is full.
fat_alloc(v, prev) ==
  IF FreeClusters(v) = {} THEN [vol |-> Searched(v, MaxCluster), cl |-> 0]
  ELSE LET cl   == CHOOSE k \in FreeClusters(v) : \A j \in FreeClusters(v) : k <= j
           last == fat_set(Searched(v, cl), cl, CLUS_EOC)
       IN  [vol |-> IF prev = 0 THEN last ELSE fat_set(last, prev, cl), cl |-> cl]

\* Mutant: the rest of a chain is not freed.
FreeFirst(v, first) == IF first \in Clusters THEN fat_set(v, first, 0) ELSE v

fat_free_chain(v, first) ==
  LET after[k \in 0..MaxCluster] ==
        IF k = 0 THEN [vol |-> v, cl |-> first]
        ELSE LET s == after[k - 1]
             IN  IF s.cl \notin Clusters THEN s
                 ELSE [vol |-> fat_set(s.vol, s.cl, 0), cl |-> s.vol.fat[s.cl]]
  IN  after[MaxCluster].vol

fat_commit(v) == f16_flush(v)

----------------------------------------------------------------------------
\* Reading a chain off a table (not code: what the properties are about).

\* Chain(fat, first)[k]: the k-th entry, from 0, of the chain from first; it
\* stays at the entry where the chain leaves the clusters.
Chain(fat, first) ==
  LET next == [e \in Entry \cup {CLUS_EOC} |-> IF e \in Clusters THEN fat[e] ELSE e]
      entry[k \in 0..MaxCluster] == IF k = 0 THEN first ELSE next[entry[k - 1]]
  IN  [k \in 0..MaxCluster |-> entry[k]]

\* No cluster: an empty file.  Otherwise clusters up to an end of chain.
IsWhole(fat, first) == first = 0 \/ Chain(fat, first)[MaxCluster] = CLUS_EOC

ClustersOf(fat, first) ==
  LET chain == Chain(fat, first) IN {chain[k] : k \in 0..MaxCluster} \cap Clusters
=============================================================================
