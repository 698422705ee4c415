-------------------------------- MODULE Disk ---------------------------------
(***************************************************************************)
(* Sectors between the file system and the BIOS: the transfers of disk.c   *)
(* with their three tries, the shared sector buffer, the one-sector cache  *)
(* of FAT16/32 and the whole-FAT cache of FAT12 (fat.c), and INT 25h/26h,  *)
(* which pass all of them by.                                              *)
(*                                                                         *)
(* A sector is <<volume, lba>>; volumes are on drives of their own, and    *)
(* equal lba on two of them are different sectors.  A call is a sequence   *)
(* of transfers, one BIOS try a step; a try that fails may have written    *)
(* the sector, part of it, or nothing, and a floppy read that fails leaves *)
(* the buffer in pieces.  Each FAT has one copy and, on FAT12, one sector. *)
(***************************************************************************)
EXTENDS Integers

CONSTANTS Fat16,       \* FAT sectors of the FAT16 and FAT32 volumes
          Fat12,       \* the FAT sector of the FAT12 volume
          Data,        \* all other sectors: data, directories
          Floppies,    \* volumes that are read by floppy_io
          Values,      \* contents programs write
          Tries,       \* BIOS calls for a transfer (3)
          MaxFailed,   \* bound of the model: calls that fail
          ReloadFails  \* TRUE: reading the FAT back after INT 26h may fail

Zero    == 0
Torn    == -1
Unknown == -2
None    == <<-1, -1>>

ASSUME DiskAssumption ==
  /\ Fat12 \notin Fat16 /\ Data \cap (Fat16 \cup {Fat12}) = {}
  /\ None \notin Fat16 \cup Data \cup {Fat12}
  /\ Tries \in Nat \ {0}
  /\ Values \subseteq Nat /\ MaxFailed \in Nat /\ ReloadFails \in BOOLEAN

Sectors == Fat16 \cup Data \cup {Fat12}

VARIABLES
  disk,       \* sector |-> contents
  disk_buf,   \* the shared buffer
  buf_lba,    \* the sector it holds, buf_drv included
  f16buf,
  f16lba,     \* the FAT sector it holds, f16vol included
  f16dirty,
  fatcache, fat12_dirty,
  call,       \* the call under way: [op, at, sec, val]
  tries,      \* of its transfer
  latest,     \* history: what was last written to a sector, through whatever
  failed      \* history: calls that have failed

bufs == <<disk_buf, buf_lba>>
fat16 == <<f16buf, f16lba, f16dirty>>
fat12 == <<fatcache, fat12_dirty>>
vars == <<disk, disk_buf, buf_lba, f16buf, f16lba, f16dirty, fatcache, fat12_dirty,
          call, tries, latest, failed>>

Idle == [op |-> "none", at |-> "idle", sec |-> None, val |-> Zero]
Busy == call # Idle

Run(op, at, sec, val) == call' = [op |-> op, at |-> at, sec |-> sec, val |-> val] /\ tries' = 0

----------------------------------------------------------------------------
\* The transfer that the call is at.
Sector == CASE call.at = "evict" -> f16lba
            [] call.at \in {"flush12", "reload"} -> Fat12
            [] OTHER -> call.sec

Writing == call.at \in {"evict", "flush12"}
           \/ (call.at = "transfer" /\ call.op \in {"store", "zero", "int26"})

Source == CASE call.at = "evict" -> f16buf
            [] call.at = "flush12" -> fatcache
            [] call.at = "transfer" /\ call.op = "int26" -> call.val
            [] OTHER -> disk_buf

\* Reading puts c into the buffer of the transfer.
Fill(c) ==
  /\ disk_buf' = IF call.op = "load" THEN c ELSE disk_buf
  /\ f16buf'   = IF call.op = "fat"  THEN c ELSE f16buf
  /\ fatcache' = IF call.at = "reload" THEN c ELSE fatcache

\* Mutant: the FAT sector in the cache survives.
DropsBuffer == buf_lba' = None /\ f16lba' = f16lba

\* absdisk_invalidate: every cache that could shadow the raw write is dropped.
absdisk_invalidate == buf_lba' = None /\ f16lba' = None

\* The FAT12 cache is read back if the write was to its volume.
AfterRaw == IF call.sec[1] = Fat12[1] THEN [call EXCEPT !.at = "reload"] ELSE Idle

\* Where a call goes after it has flushed the FAT sector, and the FAT12 FAT.
Proceed(at) ==
  CASE call.op # "fat" /\ at = "evict" /\ fat12_dirty -> [call EXCEPT !.at = "flush12"]
    [] call.op = "commit" /\ ~(at = "evict" /\ fat12_dirty) -> Idle
    [] OTHER -> [call EXCEPT !.at = "transfer"]

\* A try that succeeds, and how the call goes on.
Succeeds ==
  /\ Busy /\ tries' = 0
  /\ disk' = IF Writing THEN [disk EXCEPT ![Sector] = Source] ELSE disk
  /\ IF Writing THEN UNCHANGED <<disk_buf, f16buf, fatcache>> ELSE Fill(disk[Sector])
  /\ latest' = IF call.at = "transfer" /\ Writing THEN [latest EXCEPT ![Sector] = Source] ELSE latest
  /\ UNCHANGED failed
  /\ \/ call.at = "evict" /\ f16dirty' = FALSE /\ call' = Proceed("evict")
        /\ UNCHANGED <<buf_lba, f16lba, fat12_dirty>>
     \/ call.at = "flush12" /\ fat12_dirty' = FALSE /\ call' = Proceed("flush12")
        /\ UNCHANGED <<buf_lba, f16lba, f16dirty>>
     \/ call.at = "reload" /\ fat12_dirty' = FALSE /\ call' = Idle
        /\ UNCHANGED <<buf_lba, f16lba, f16dirty>>
     \/ /\ call.at = "transfer"
        /\ CASE call.op \in {"load", "store"} -> buf_lba' = call.sec /\ f16lba' = f16lba
             [] call.op = "fat"   -> f16lba' = call.sec /\ buf_lba' = buf_lba
             [] call.op = "int26" -> absdisk_invalidate
             [] OTHER -> UNCHANGED <<buf_lba, f16lba>>
        /\ call' = IF call.op = "int26" THEN AfterRaw ELSE Idle
        /\ UNCHANGED <<f16dirty, fat12_dirty>>

\* What a try that fails has left: on the disk, and in the buffer of a floppy.
Damage ==
  /\ \E c \in {disk[Sector], Torn} \cup (IF Writing THEN {Source} ELSE {}) :
       disk' = IF Writing THEN [disk EXCEPT ![Sector] = c] ELSE disk
  /\ IF ~Writing /\ Sector[1] \in Floppies THEN Fill(Torn)
     ELSE UNCHANGED <<disk_buf, f16buf, fatcache>>

\* Mutant: the count of the tries starts again.
NoCount == tries' = 0

Count == tries' = tries + 1

\* The controller is reset and the transfer tried again.
Retries ==
  /\ Busy /\ tries < Tries - 1
  /\ Damage /\ Count
  /\ UNCHANGED <<buf_lba, f16lba, f16dirty, fat12_dirty, call, latest, failed>>

\* The third try has failed, and the call fails.
GivesUp ==
  /\ Busy /\ tries = Tries - 1
  /\ failed < MaxFailed /\ failed' = failed + 1
  /\ call.at = "reload" => ReloadFails
  /\ Damage
  /\ tries' = 0
  /\ latest' = IF call.at = "transfer" /\ Writing THEN [latest EXCEPT ![Sector] = Unknown] ELSE latest
  /\ CASE call.at = "transfer" /\ call.op \in {"load", "store"} -> buf_lba' = None /\ f16lba' = f16lba
       [] call.at = "transfer" /\ call.op = "fat" -> f16lba' = None /\ buf_lba' = buf_lba
       [] call.at = "transfer" /\ call.op = "int26" -> absdisk_invalidate
       [] OTHER -> UNCHANGED <<buf_lba, f16lba>>
  /\ call' = IF call.at = "transfer" /\ call.op = "int26" THEN AfterRaw ELSE Idle
  /\ fat12_dirty' = IF call.at = "reload" THEN FALSE ELSE fat12_dirty
  /\ UNCHANGED f16dirty

floppy_io == Succeeds \/ Retries \/ GivesUp

----------------------------------------------------------------------------
\* The calls.  Only those that need a transfer do more than answer.

\* A directory entry or part of a file is read.
fat_load_sector(s) ==
  /\ ~Busy /\ s # buf_lba
  /\ Run("load", "transfer", s, Zero)
  /\ UNCHANGED <<disk, latest, failed>> /\ UNCHANGED bufs /\ UNCHANGED fat16 /\ UNCHANGED fat12

\* The buffer is changed, in part (then it holds the sector) or as a whole,
\* and stored.
fat_store_buf(s, val, whole) ==
  /\ ~Busy /\ (whole \/ s = buf_lba)
  /\ disk_buf' = val
  /\ Run("store", "transfer", s, Zero)
  /\ UNCHANGED <<disk, buf_lba, latest, failed>> /\ UNCHANGED fat16 /\ UNCHANGED fat12

fat_zero_cluster(s) ==
  /\ ~Busy
  /\ disk_buf' = Zero /\ buf_lba' = None
  /\ Run("zero", "transfer", s, Zero)
  /\ UNCHANGED <<disk, latest, failed>> /\ UNCHANGED fat16 /\ UNCHANGED fat12

\* A dirty sector is written back first.
FirstEvict == IF f16dirty /\ f16lba # None THEN "evict" ELSE "transfer"

\* fat_next and fat_set want a FAT sector in the cache.
f16_load(s) ==
  /\ ~Busy /\ s # f16lba
  /\ Run("fat", FirstEvict, s, Zero)
  /\ UNCHANGED <<disk, latest, failed>> /\ UNCHANGED bufs /\ UNCHANGED fat16 /\ UNCHANGED fat12

fat_set(s, val) ==
  /\ ~Busy
  /\ \/ s = f16lba /\ f16buf' = val /\ f16dirty' = TRUE /\ UNCHANGED f16lba /\ UNCHANGED fat12
     \/ s = Fat12 /\ fatcache' = val /\ fat12_dirty' = TRUE /\ UNCHANGED fat16
  /\ latest' = [latest EXCEPT ![s] = val]
  /\ UNCHANGED <<disk, call, tries, failed>> /\ UNCHANGED bufs

\* What a call that commits the FATs has to flush first, and where it is
\* when there is nothing.
Flushing(at) ==
  IF f16dirty /\ f16lba # None THEN "evict" ELSE IF fat12_dirty THEN "flush12" ELSE at

fat_commit ==
  /\ ~Busy /\ Flushing("idle") # "idle"
  /\ Run("commit", Flushing("idle"), None, Zero)
  /\ UNCHANGED <<disk, latest, failed>> /\ UNCHANGED bufs /\ UNCHANGED fat16 /\ UNCHANGED fat12

\* Mutant: the raw transfer does not wait for the caches.
NoCommit == "transfer"

CommitFirst == Flushing("transfer")

\* INT 25h and INT 26h.
absdisk_dispatch(op, s, val) ==
  /\ ~Busy
  /\ Run(op, CommitFirst, s, val)
  /\ UNCHANGED <<disk, latest, failed>> /\ UNCHANGED bufs /\ UNCHANGED fat16 /\ UNCHANGED fat12

Init ==
  /\ disk = [s \in Sectors |-> Zero] /\ latest = disk
  /\ disk_buf = Zero /\ buf_lba = None
  /\ f16buf = Zero /\ f16lba = None /\ f16dirty = FALSE
  /\ fatcache = Zero /\ fat12_dirty = FALSE
  /\ call = Idle /\ tries = 0 /\ failed = 0

Next ==
  \/ floppy_io
  \/ \E s \in Data : \/ fat_load_sector(s) \/ fat_zero_cluster(s)
                     \/ \E val \in Values, whole \in BOOLEAN : fat_store_buf(s, val, whole)
  \/ \E s \in Fat16 : f16_load(s)
  \/ \E s \in Sectors, val \in Values : fat_set(s, val) \/ absdisk_dispatch("int26", s, val)
  \/ \E s \in Sectors : absdisk_dispatch("int25", s, Zero)
  \/ fat_commit

\* The BIOS answers every try.
Spec == Init /\ [][Next]_vars /\ WF_vars(floppy_io)

----------------------------------------------------------------------------
\* Every path to a sector sees what was last written to it through any other:
\* the shared buffer, the FAT caches, INT 25h and INT 26h, on both drives,
\* whatever tries and calls have failed.  Of a sector whose last write failed
\* nothing is said.
Sees(s, c) == latest[s] \in {Unknown, c}
OnDisk(s) == ~(s = f16lba /\ f16dirty) /\ ~(s = Fat12 /\ fat12_dirty)

LatestSeen ==
  /\ ~Busy =>
       /\ buf_lba # None => Sees(buf_lba, disk_buf)
       /\ f16lba # None => Sees(f16lba, f16buf)
       /\ Sees(Fat12, fatcache)
       /\ \A s \in Sectors : OnDisk(s) => Sees(s, disk[s])
  /\ (call.op = "int25" /\ call.at = "transfer") => Sees(Sector, disk[Sector])

\* A call returns, with an error after the third try at the latest.
CallsEnd == Busy ~> ~Busy
=============================================================================
