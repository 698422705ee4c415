---------------------------- MODULE DriverProofs ------------------------------
(***************************************************************************)
(* Theorems about two drivers.  The sector caches (module Disk): for any   *)
(* volumes, sectors, contents, number of tries and number of calls that    *)
(* fail, every path to a sector sees what was last written to it.  The     *)
(* mouse (module Mouse): for any screen, ranges, ratios and movements, as  *)
(* long as the cursor is not hidden so often that its signed byte wraps.   *)
(***************************************************************************)
EXTENDS Disk, Mouse, TLAPS

----------------------------------------------------------------------------
(* The sector caches.                                                      *)

Ops == {"none", "load", "store", "zero", "fat", "commit", "int25", "int26"}
Ats == {"idle", "evict", "flush12", "transfer", "reload"}

Types ==
  /\ disk \in [Sectors -> Int] /\ latest \in [Sectors -> Int]
  /\ disk_buf \in Int /\ f16buf \in Int /\ fatcache \in Int
  /\ buf_lba \in Data \cup {None} /\ f16lba \in Fat16 \cup {None}
  /\ f16dirty \in BOOLEAN /\ fat12_dirty \in BOOLEAN
  /\ call \in [op : Ops, at : Ats, sec : Sectors \cup {None}, val : Int]

\* Where a call of each kind can be, and which caches it has flushed by then.
Place ==
  /\ call.op = "none" <=> call = Idle
  /\ call.op \in {"load", "store", "zero"} => call.at = "transfer" /\ call.sec \in Data
  /\ call.op = "fat" => call.at \in {"evict", "transfer"} /\ call.sec \in Fat16
  /\ call.op = "commit" => call.at \in {"evict", "flush12"}
  /\ call.op = "int25" => call.at \in {"evict", "flush12", "transfer"} /\ call.sec \in Sectors
  /\ call.op = "int26" => call.at \in {"evict", "flush12", "transfer", "reload"}
                          /\ call.sec \in Sectors
  /\ call.op = "zero" => buf_lba = None

Flushed ==
  /\ f16dirty => f16lba # None
  /\ call.at = "evict" => f16dirty
  /\ call.at = "flush12" => fat12_dirty /\ ~f16dirty
  /\ (call.op = "fat" /\ call.at = "transfer") => ~f16dirty
  /\ (call.op \in {"int25", "int26"} /\ call.at \in {"transfer", "reload"}) =>
       ~f16dirty /\ ~fat12_dirty

\* LatestSeen, in the middle of a call too: every copy is current but the one
\* that the call is writing or filling.
InFlight(s) == call.at = "transfer" /\ call.op \in {"store", "zero", "int26"} /\ s = call.sec

BufSeen  == buf_lba # None /\ call.op \notin {"load", "store"} => Sees(buf_lba, disk_buf)
Fat16Seen == f16lba # None /\ ~(call.op = "fat" /\ call.at = "transfer") => Sees(f16lba, f16buf)
Fat12Seen == call.at # "reload" => Sees(Fat12, fatcache)
DiskSeen == \A s \in Sectors : OnDisk(s) /\ ~InFlight(s) => Sees(s, disk[s])

Seen == BufSeen /\ Fat16Seen /\ Fat12Seen /\ DiskSeen
IInv == Types /\ Place /\ Flushed /\ Seen

LEMMA SectorSets ==
  /\ Data \subseteq Sectors /\ Fat16 \subseteq Sectors /\ Fat12 \in Sectors
  /\ Fat12 \notin Fat16 /\ Fat12 \notin Data /\ Data \cap Fat16 = {}
  /\ None \notin Sectors
  /\ Values \subseteq Int /\ Zero \in Int /\ Torn \in Int /\ Unknown \in Int
BY DiskAssumption DEF Sectors, Zero, Torn, Unknown

LEMMA InitSeen == Init => IInv
<1> SUFFICES ASSUME Init PROVE IInv
  OBVIOUS
<1> USE SectorSets DEF Init
<1>1. call = Idle /\ call.op = "none" /\ call.at = "idle" /\ call.sec = None /\ call.val = 0
  BY DEF Idle, Zero
<1>2. Types
  BY <1>1, Zero = 0 DEF Types, Ops, Ats, Idle, Zero
<1>3. Place /\ Flushed
  BY <1>1 DEF Place, Flushed
<1>4. \A s \in Sectors : latest[s] = Zero /\ disk[s] = Zero
  OBVIOUS
<1>5. Seen
  BY <1>1, <1>4 DEF Seen, BufSeen, Fat16Seen, Fat12Seen, DiskSeen, Sees
<1> QED BY <1>2, <1>3, <1>5 DEF IInv

----------------------------------------------------------------------------
(* A try of the BIOS, by where the call is.                                *)

\* What the next place of the call is, after a flush.
LEMMA ProceedPlace ==
  ASSUME IInv, NEW at \in {"evict", "flush12"}, call.at = at,
         NEW dirty12 \in BOOLEAN, at = "evict" => dirty12 = fat12_dirty, at = "flush12" => ~dirty12,
         f16dirty' = FALSE, fat12_dirty' = dirty12, call' = Proceed(at),
         UNCHANGED buf_lba
  PROVE  /\ call' \in [op : Ops, at : Ats, sec : Sectors \cup {None}, val : Int]
         /\ Place' /\ Flushed'
         /\ call'.at # "reload" /\ (call' = Idle \/ (call'.op = call.op /\ call'.sec = call.sec))
         /\ call.op \in {"fat", "commit", "int25", "int26"}
         /\ call'.op \in {"fat", "none", "commit", "int25", "int26"}
<1> USE DEF IInv
<1>1. call.op \in {"fat", "commit", "int25", "int26"} /\ (call.op = "fat" => at = "evict")
  BY DEF Types, Place, Idle, Ops
<1>2. Idle \in [op : Ops, at : Ats, sec : Sectors \cup {None}, val : Int]
      /\ Idle.op = "none" /\ Idle.at = "idle"
  BY DEF Idle, Zero, Ops, Ats
<1>3. CASE call' = Idle
  <2>1. call'.op = "none" /\ call'.at = "idle"
    BY <1>2, <1>3
  <2> QED BY <1>1, <1>2, <1>3, <2>1 DEF Place, Flushed
<1>4. CASE call' = [call EXCEPT !.at = "flush12"] /\ at = "evict" /\ fat12_dirty
           /\ call.op # "fat"
  <2>1. call'.op = call.op /\ call'.at = "flush12" /\ call'.sec = call.sec /\ call'.op # "none"
    BY <1>1, <1>4 DEF Types
  <2>2. call' \in [op : Ops, at : Ats, sec : Sectors \cup {None}, val : Int]
    BY <1>4 DEF Types, Ats
  <2>3. call' # Idle
    BY <2>1, <1>2
  <2> QED BY <1>1, <1>4, <2>1, <2>2, <2>3 DEF Place, Flushed
<1>5. CASE call' = [call EXCEPT !.at = "transfer"] /\ call.op # "commit"
           /\ (call.op = "fat" \/ at = "flush12" \/ ~fat12_dirty)
  <2>1. call'.op = call.op /\ call'.at = "transfer" /\ call'.sec = call.sec /\ call'.op # "none"
    BY <1>1, <1>5 DEF Types
  <2>2. call' \in [op : Ops, at : Ats, sec : Sectors \cup {None}, val : Int]
    BY <1>5 DEF Types, Ats
  <2>3. call' # Idle
    BY <2>1, <1>2
  <2>4. call.op = "fat" \/ ~dirty12
    BY <1>5
  <2> QED BY <1>1, <1>5, <2>1, <2>2, <2>3, <2>4 DEF Place, Flushed
<1>6. \/ call' = Idle
      \/ call' = [call EXCEPT !.at = "flush12"] /\ at = "evict" /\ fat12_dirty /\ call.op # "fat"
      \/ call' = [call EXCEPT !.at = "transfer"] /\ call.op # "commit"
         /\ (call.op = "fat" \/ at = "flush12" \/ ~fat12_dirty)
  BY <1>1 DEF Proceed
<1> QED BY <1>3, <1>4, <1>5, <1>6

LEMMA IdleFacts ==
  /\ Idle.op = "none" /\ Idle.at = "idle" /\ Idle.sec = None
  /\ Idle \in [op : Ops, at : Ats, sec : Sectors \cup {None}, val : Int]
BY DEF Idle, Zero, Ops, Ats

\* The call has ended: what Place and Flushed ask for then.
LEMMA EndedPlace ==
  ASSUME call' = Idle, f16dirty' => f16lba' # None
  PROVE  Place' /\ Flushed'
<1>1. call'.op = "none" /\ call'.at = "idle"
  BY IdleFacts
<1> QED BY <1>1 DEF Place, Flushed

LEMMA EvictSucceeds ==
  ASSUME IInv, Succeeds, call.at = "evict"
  PROVE  IInv'
<1> USE SectorSets DEF IInv
<1>1. /\ disk' = [disk EXCEPT ![f16lba] = f16buf]
      /\ UNCHANGED <<disk_buf, f16buf, fatcache, latest, buf_lba, f16lba, fat12_dirty>>
      /\ f16dirty' = FALSE /\ call' = Proceed("evict")
  <2>1. Sector = f16lba /\ Source = f16buf /\ Writing
    BY DEF Sector, Source, Writing
  <2> QED BY <2>1 DEF Succeeds
<1>2. f16lba \in Fat16 /\ f16lba \in Sectors /\ f16lba # Fat12
  BY DEF Types, Flushed
<1>3. /\ call' \in [op : Ops, at : Ats, sec : Sectors \cup {None}, val : Int]
      /\ Place' /\ Flushed'
      /\ call.op \in {"fat", "commit", "int25", "int26"}
      /\ call'.op \in {"fat", "none", "commit", "int25", "int26"}
  <2>1. fat12_dirty \in BOOLEAN
    BY DEF Types
  <2> QED BY <1>1, <2>1, ProceedPlace
<1>4. Types'
  BY <1>1, <1>2, <1>3 DEF Types
<1>5. BufSeen' /\ Fat16Seen' /\ Fat12Seen'
  BY <1>1, <1>3 DEF Seen, BufSeen, Fat16Seen, Fat12Seen, Sees
<1>6. DiskSeen'
  <2> SUFFICES ASSUME NEW s \in Sectors, OnDisk(s)' PROVE Sees(s, disk[s])'
    BY DEF DiskSeen
  <2>1. CASE s = f16lba
    <3>1. disk'[s] = f16buf
      BY <1>1, <1>2, <2>1 DEF Types
    <3> QED BY <1>1, <1>2, <2>1, <3>1 DEF Seen, Fat16Seen, Sees
  <2>2. CASE s # f16lba
    <3>1. disk'[s] = disk[s] /\ OnDisk(s) /\ ~InFlight(s)
      BY <1>1, <2>2 DEF Types, OnDisk, InFlight
    <3> QED BY <1>1, <3>1 DEF Seen, DiskSeen, Sees
  <2> QED BY <2>1, <2>2
<1> QED BY <1>3, <1>4, <1>5, <1>6 DEF Seen

LEMMA FlushSucceeds ==
  ASSUME IInv, Succeeds, call.at = "flush12"
  PROVE  IInv'
<1> USE SectorSets DEF IInv
<1>1. /\ disk' = [disk EXCEPT ![Fat12] = fatcache]
      /\ UNCHANGED <<disk_buf, f16buf, fatcache, latest, buf_lba, f16lba, f16dirty>>
      /\ fat12_dirty' = FALSE /\ call' = Proceed("flush12")
  <2>1. Sector = Fat12 /\ Source = fatcache /\ Writing
    BY DEF Sector, Source, Writing
  <2> QED BY <2>1 DEF Succeeds
<1>2. fat12_dirty /\ ~f16dirty
  BY DEF Flushed
<1>3. /\ call' \in [op : Ops, at : Ats, sec : Sectors \cup {None}, val : Int]
      /\ Place' /\ Flushed'
      /\ call.op \in {"fat", "commit", "int25", "int26"}
      /\ call'.op \in {"fat", "none", "commit", "int25", "int26"}
  <2>1. f16dirty' = FALSE
    BY <1>1, <1>2 DEF Types
  <2> QED BY <1>1, <2>1, ProceedPlace
<1>4. Types'
  BY <1>1, <1>2, <1>3 DEF Types
<1>5. call.op # "fat"
  BY DEF Place
<1>6. BufSeen' /\ Fat16Seen' /\ Fat12Seen'
  BY <1>1, <1>3, <1>5 DEF Seen, BufSeen, Fat16Seen, Fat12Seen, Sees
<1>7. DiskSeen'
  <2> SUFFICES ASSUME NEW s \in Sectors, OnDisk(s)' PROVE Sees(s, disk[s])'
    BY DEF DiskSeen
  <2>1. CASE s = Fat12
    <3>1. disk'[s] = fatcache
      BY <1>1, <2>1 DEF Types
    <3> QED BY <1>1, <2>1, <3>1 DEF Seen, Fat12Seen, Sees
  <2>2. CASE s # Fat12
    <3>1. disk'[s] = disk[s] /\ OnDisk(s) /\ ~InFlight(s)
      BY <1>1, <1>2, <2>2 DEF Types, OnDisk, InFlight
    <3> QED BY <1>1, <3>1 DEF Seen, DiskSeen, Sees
  <2> QED BY <2>1, <2>2
<1> QED BY <1>3, <1>4, <1>6, <1>7 DEF Seen

LEMMA ReloadSucceeds ==
  ASSUME IInv, Succeeds, call.at = "reload"
  PROVE  IInv'
<1> USE SectorSets, IdleFacts DEF IInv
<1>1. call.op = "int26"
  BY DEF Place, Types, Ops
<1>2. /\ fatcache' = disk[Fat12] /\ fat12_dirty' = FALSE /\ call' = Idle
      /\ UNCHANGED <<disk, disk_buf, f16buf, latest, buf_lba, f16lba, f16dirty>>
  <2>1. Sector = Fat12 /\ ~Writing
    BY DEF Sector, Writing
  <2> QED BY <1>1, <2>1 DEF Succeeds, Fill
<1>3. ~f16dirty /\ ~fat12_dirty
  BY <1>1 DEF Flushed
<1>4. \A s \in Sectors : Sees(s, disk[s])
  BY <1>3 DEF Seen, DiskSeen, OnDisk, InFlight
<1>5. Types'
  BY <1>2 DEF Types
<1>6. Place' /\ Flushed'
  BY <1>2, <1>3, EndedPlace DEF Types
<1>7. BufSeen' /\ Fat16Seen' /\ Fat12Seen' /\ DiskSeen'
  BY <1>1, <1>2, <1>4 DEF Seen, BufSeen, Fat16Seen, Fat12Seen, DiskSeen, Sees
<1> QED BY <1>5, <1>6, <1>7 DEF Seen

\* Reading at the transfer step: load, fat and int25.
LEMMA ReadSucceeds ==
  ASSUME IInv, Succeeds, call.at = "transfer", call.op \in {"load", "fat", "int25"}
  PROVE  IInv'
<1> USE SectorSets, IdleFacts DEF IInv
<1>1. Sector = call.sec /\ ~Writing /\ call.sec \in Sectors
  BY DEF Sector, Writing, Place
<1>2. UNCHANGED <<disk, latest, f16dirty, fat12_dirty>> /\ call' = Idle /\ Fill(disk[call.sec])
  BY <1>1 DEF Succeeds
<1>3. fatcache' = fatcache
  BY <1>2 DEF Fill
<1>4. Fat12Seen'
  BY <1>2, <1>3 DEF Seen, Fat12Seen, Sees
<1>5. CASE call.op = "load"
  <2>1. disk_buf' = disk[call.sec] /\ f16buf' = f16buf /\ buf_lba' = call.sec /\ f16lba' = f16lba
    BY <1>2, <1>5 DEF Fill, Succeeds
  <2>2. call.sec \in Data
    BY <1>5 DEF Place
  <2>3. Sees(call.sec, disk[call.sec])
    BY <1>5, <2>2 DEF Types, Seen, DiskSeen, OnDisk, InFlight
  <2>4. DiskSeen'
    BY <1>2, <1>5, <2>1 DEF Seen, DiskSeen, OnDisk, InFlight, Sees
  <2>5. BufSeen' /\ Fat16Seen'
    BY <1>2, <1>5, <2>1, <2>3 DEF Seen, BufSeen, Fat16Seen, Sees
  <2>6. Types'
    BY <1>1, <1>2, <1>3, <2>1, <2>2 DEF Types
  <2>7. Place' /\ Flushed'
    BY <1>2, <2>1, EndedPlace DEF Types, Flushed
  <2> QED BY <1>4, <2>4, <2>5, <2>6, <2>7 DEF Seen
<1>6. CASE call.op = "fat"
  <2>1. f16buf' = disk[call.sec] /\ disk_buf' = disk_buf /\ f16lba' = call.sec /\ buf_lba' = buf_lba
    BY <1>2, <1>6 DEF Fill, Succeeds
  <2>2. call.sec \in Fat16 /\ ~f16dirty
    BY <1>6 DEF Place, Flushed
  <2>3. Sees(call.sec, disk[call.sec])
    BY <1>6, <2>2 DEF Types, Seen, DiskSeen, OnDisk, InFlight
  <2>4. DiskSeen'
    BY <1>2, <1>6, <2>1, <2>2 DEF Types, Seen, DiskSeen, OnDisk, InFlight, Sees
  <2>5. BufSeen' /\ Fat16Seen'
    BY <1>2, <1>6, <2>1, <2>3 DEF Seen, BufSeen, Fat16Seen, Sees
  <2>6. Types'
    BY <1>1, <1>2, <1>3, <2>1, <2>2 DEF Types
  <2>7. Place' /\ Flushed'
    BY <1>2, <2>1, <2>2, EndedPlace
  <2> QED BY <1>4, <2>4, <2>5, <2>6, <2>7 DEF Seen
<1>7. CASE call.op = "int25"
  <2>1. UNCHANGED <<disk_buf, f16buf, buf_lba, f16lba>>
    BY <1>2, <1>7 DEF Fill, Succeeds
  <2>2. BufSeen' /\ Fat16Seen' /\ DiskSeen'
    BY <1>2, <1>7, <2>1 DEF Seen, BufSeen, Fat16Seen, DiskSeen, OnDisk, InFlight, Sees
  <2>3. Types'
    BY <1>2, <1>3, <2>1 DEF Types
  <2>4. Place' /\ Flushed'
    BY <1>2, <2>1, EndedPlace DEF Types, Flushed
  <2> QED BY <1>4, <2>2, <2>3, <2>4 DEF Seen
<1> QED BY <1>5, <1>6, <1>7

\* Writing at the transfer step through the shared buffer.
LEMMA WriteSucceeds ==
  ASSUME IInv, Succeeds, call.at = "transfer", call.op \in {"store", "zero"}
  PROVE  IInv'
<1> USE SectorSets, IdleFacts DEF IInv
<1>1. Sector = call.sec /\ Source = disk_buf /\ Writing /\ call.sec \in Data
  BY DEF Sector, Source, Writing, Place
<1>2. /\ disk' = [disk EXCEPT ![call.sec] = disk_buf]
      /\ latest' = [latest EXCEPT ![call.sec] = disk_buf]
      /\ UNCHANGED <<disk_buf, f16buf, fatcache, f16lba, f16dirty, fat12_dirty>>
      /\ call' = Idle
      /\ buf_lba' = IF call.op = "store" THEN call.sec ELSE buf_lba
  BY <1>1 DEF Succeeds
<1>3. Types'
  BY <1>1, <1>2 DEF Types
<1>4. Place' /\ Flushed'
  BY <1>2, EndedPlace DEF Types, Flushed
<1>5. latest'[call.sec] = disk_buf /\ disk'[call.sec] = disk_buf
  BY <1>1, <1>2 DEF Types
<1>6. \A s \in Sectors : s # call.sec => latest'[s] = latest[s] /\ disk'[s] = disk[s]
  BY <1>1, <1>2 DEF Types
<1>7. BufSeen'
  BY <1>2, <1>5 DEF BufSeen, Sees, Place
<1>8. Fat16Seen' /\ Fat12Seen'
  BY <1>1, <1>2, <1>6 DEF Types, Seen, Fat16Seen, Fat12Seen, Sees
<1>9. DiskSeen'
  BY <1>2, <1>5, <1>6 DEF Seen, DiskSeen, OnDisk, InFlight, Sees
<1> QED BY <1>3, <1>4, <1>7, <1>8, <1>9 DEF Seen

\* INT 26h, whether the last try succeeds or not: the caches are dropped and
\* the FAT12 FAT is read back when it may have changed.
LEMMA RawWriteEnds ==
  ASSUME IInv, call.at = "transfer", call.op = "int26",
         NEW c \in Int, NEW l \in {c, Unknown},
         disk' = [disk EXCEPT ![call.sec] = c], latest' = [latest EXCEPT ![call.sec] = l],
         UNCHANGED <<disk_buf, f16buf, fatcache, f16dirty, fat12_dirty>>,
         absdisk_invalidate, call' = AfterRaw
  PROVE  IInv'
<1> USE SectorSets, IdleFacts DEF IInv
<1>1. call.sec \in Sectors /\ ~f16dirty /\ ~fat12_dirty
  BY DEF Place, Flushed
<1>2. buf_lba' = None /\ f16lba' = None
  BY DEF absdisk_invalidate
<1>3. \/ call' = [call EXCEPT !.at = "reload"]
      \/ call' = Idle /\ call.sec # Fat12
  BY DEF AfterRaw
<1>4. Place' /\ Flushed' /\ call' \in [op : Ops, at : Ats, sec : Sectors \cup {None}, val : Int]
  <2>1. CASE call' = Idle
    BY <1>1, <2>1, EndedPlace
  <2>2. CASE call' = [call EXCEPT !.at = "reload"]
    <3>1. call'.op = "int26" /\ call'.at = "reload" /\ call'.sec = call.sec
      BY <2>2 DEF Types
    <3>2. call' \in [op : Ops, at : Ats, sec : Sectors \cup {None}, val : Int]
      BY <2>2 DEF Types, Ats
    <3> QED BY <1>1, <3>1, <3>2 DEF Place, Flushed
  <2> QED BY <1>3, <2>1, <2>2
<1>5. Types'
  BY <1>1, <1>2, <1>4 DEF Types
<1>6. BufSeen' /\ Fat16Seen'
  BY <1>2 DEF BufSeen, Fat16Seen
<1>7. Fat12Seen'
  <2>1. CASE call' = Idle /\ call.sec # Fat12
    BY <1>1, <2>1 DEF Types, Seen, Fat12Seen, Sees
  <2>2. CASE call' = [call EXCEPT !.at = "reload"]
    <3>1. call'.at = "reload"
      BY <2>2 DEF Types
    <3> QED BY <3>1 DEF Fat12Seen
  <2> QED BY <1>3, <2>1, <2>2
<1>8. DiskSeen'
  <2> SUFFICES ASSUME NEW s \in Sectors PROVE Sees(s, disk[s])'
    BY DEF DiskSeen
  <2>1. CASE s = call.sec
    BY <1>1, <2>1 DEF Types, Sees
  <2>2. CASE s # call.sec
    BY <1>1, <2>2 DEF Types, Seen, DiskSeen, OnDisk, InFlight, Sees
  <2> QED BY <2>1, <2>2
<1> QED BY <1>4, <1>5, <1>6, <1>7, <1>8 DEF Seen

LEMMA SucceedsSeen ==
  ASSUME IInv, Succeeds
  PROVE  IInv'
<1>1. CASE call.at = "transfer" /\ call.op = "int26"
  <2>1. Sector = call.sec /\ Source = call.val /\ Writing
    BY <1>1 DEF Sector, Source, Writing
  <2>2. call.val \in Int
    BY DEF IInv, Types
  <2> QED BY <1>1, <2>1, <2>2, RawWriteEnds DEF Succeeds
<1>2. call.at \in {"evict", "flush12", "reload", "transfer"}
  BY DEF Succeeds
<1>3. call.at = "transfer" => call.op \in {"load", "fat", "int25", "store", "zero", "int26"}
  BY IdleFacts DEF IInv, Place, Types, Ops
<1> QED BY <1>1, <1>2, <1>3, EvictSucceeds, FlushSucceeds, ReloadSucceeds, ReadSucceeds, WriteSucceeds

----------------------------------------------------------------------------
(* A try that fails.                                                       *)

\* What it leaves: one sector, or one buffer, may be in pieces, and that one
\* is the one in flight.
LEMMA DamageLocal ==
  ASSUME IInv, Busy, Damage
  PROVE  /\ disk' \in [Sectors -> Int]
         /\ Writing => Sector \in Sectors
                       /\ \A s \in Sectors : s # Sector => disk'[s] = disk[s]
         /\ ~Writing => disk' = disk
         /\ disk_buf' \in Int /\ f16buf' \in Int /\ fatcache' \in Int
         /\ call.op # "load" => disk_buf' = disk_buf
         /\ ~(call.op = "fat" /\ call.at = "transfer") => f16buf' = f16buf
         /\ call.at # "reload" => fatcache' = fatcache
<1> USE SectorSets DEF IInv
<1>1. Writing => Sector \in Sectors /\ Source \in Int
  <2>1. call.at = "evict" => Sector \in Sectors /\ Source \in Int
    BY DEF Sector, Source, Types, Flushed
  <2>2. call.at = "flush12" => Sector \in Sectors /\ Source \in Int
    BY DEF Sector, Source, Types
  <2>3. call.at = "transfer" /\ call.op \in {"store", "zero", "int26"}
        => Sector \in Sectors /\ Source \in Int
    BY DEF Sector, Source, Types, Place
  <2> QED BY <2>1, <2>2, <2>3 DEF Writing
<1>2. CASE Writing
  <2>1. PICK c \in {disk[Sector], Torn, Source} : disk' = [disk EXCEPT ![Sector] = c]
    BY <1>2 DEF Damage
  <2>2. c \in Int
    BY <1>1, <1>2, <2>1 DEF Types
  <2>3. UNCHANGED <<disk_buf, f16buf, fatcache>>
    BY <1>2 DEF Damage
  <2> QED BY <1>1, <1>2, <2>1, <2>2, <2>3 DEF Types
<1>3. CASE ~Writing
  <2>1. disk' = disk
    BY <1>3 DEF Damage
  <2>2. Fill(Torn) \/ UNCHANGED <<disk_buf, f16buf, fatcache>>
    BY <1>3 DEF Damage
  <2>3. /\ disk_buf' \in {disk_buf, Torn} /\ f16buf' \in {f16buf, Torn}
        /\ fatcache' \in {fatcache, Torn}
        /\ call.op # "load" => disk_buf' = disk_buf
        /\ call.op # "fat" => f16buf' = f16buf
        /\ call.at # "reload" => fatcache' = fatcache
    BY <2>2 DEF Fill
  <2>4. call.op = "fat" => call.at = "transfer"
    BY <1>3 DEF Place, Writing
  <2> QED BY <1>3, <2>1, <2>3, <2>4 DEF Types
<1> QED BY <1>2, <1>3

\* The sector in flight is one whose contents nothing else claims.
LEMMA DamageHidden ==
  ASSUME IInv, Busy, Damage, NEW s \in Sectors, OnDisk(s), ~InFlight(s)
  PROVE  disk'[s] = disk[s]
<1>1. CASE Writing
  <2>1. s # Sector
    <3>1. call.at = "evict" => Sector = f16lba /\ f16dirty
      BY DEF Sector, IInv, Flushed
    <3>2. call.at = "flush12" => Sector = Fat12 /\ fat12_dirty
      BY DEF Sector, IInv, Flushed
    <3>3. call.at = "transfer" => Sector = call.sec
      BY DEF Sector
    <3> QED BY <1>1, <3>1, <3>2, <3>3 DEF Writing, OnDisk, InFlight
  <2> QED BY <1>1, <2>1, DamageLocal
<1>2. CASE ~Writing
  BY <1>2, DamageLocal
<1> QED BY <1>1, <1>2

LEMMA RetriesSeen ==
  ASSUME IInv, Retries
  PROVE  IInv'
<1>1. Busy /\ Damage /\ UNCHANGED <<buf_lba, f16lba, f16dirty, fat12_dirty, call, latest, failed>>
  BY DEF Retries
<1>2. Types'
  BY <1>1, DamageLocal DEF IInv, Types
<1>3. Place' /\ Flushed'
  BY <1>1 DEF IInv, Place, Flushed
<1>4. BufSeen' /\ Fat16Seen' /\ Fat12Seen'
  BY <1>1, DamageLocal DEF IInv, Seen, BufSeen, Fat16Seen, Fat12Seen, Sees
<1>5. DiskSeen'
  <2> SUFFICES ASSUME NEW s \in Sectors, OnDisk(s), ~InFlight(s) PROVE Sees(s, disk[s])'
    BY <1>1 DEF DiskSeen, OnDisk, InFlight
  <2>1. disk'[s] = disk[s]
    BY <1>1, DamageHidden
  <2> QED BY <1>1, <2>1 DEF IInv, Seen, DiskSeen, Sees
<1> QED BY <1>2, <1>3, <1>4, <1>5 DEF IInv, Seen

LEMMA GivesUpSeen ==
  ASSUME ~ReloadFails, IInv, GivesUp
  PROVE  IInv'
<1> USE SectorSets, IdleFacts
<1>1. Busy /\ Damage /\ UNCHANGED f16dirty /\ call.at # "reload" /\ fat12_dirty' = fat12_dirty
  BY DEF GivesUp
<1>2. CASE call.at = "transfer" /\ call.op = "int26"
  <2>1. Writing /\ Sector = call.sec /\ call.sec \in Sectors
    BY <1>2 DEF Writing, Sector, IInv, Place
  <2>2. PICK c \in {disk[Sector], Torn, Source} : disk' = [disk EXCEPT ![Sector] = c]
    BY <1>1, <2>1 DEF Damage
  <2>3. c \in Int
    <3>1. Source = call.val
      BY <1>2 DEF Source
    <3> QED BY <2>1, <2>2, <3>1 DEF IInv, Types
  <2>4. UNCHANGED <<disk_buf, f16buf, fatcache>>
    BY <1>1, <2>1 DEF Damage
  <2>5. latest' = [latest EXCEPT ![call.sec] = Unknown] /\ absdisk_invalidate /\ call' = AfterRaw
    BY <1>2, <2>1 DEF GivesUp
  <2> QED BY <1>1, <1>2, <2>1, <2>2, <2>3, <2>4, <2>5, RawWriteEnds
<1>3. CASE ~(call.at = "transfer" /\ call.op = "int26")
  <2>1. call' = Idle /\ (call.at # "transfer" \/ ~Writing => latest' = latest)
    BY <1>3 DEF GivesUp
  <2>2. /\ buf_lba' \in {buf_lba, None} /\ f16lba' \in {f16lba, None}
        /\ call.op \in {"load", "store"} => buf_lba' = None /\ f16lba' = f16lba
        /\ call.op = "fat" /\ call.at = "transfer" => f16lba' = None
        /\ ~(call.op = "fat" /\ call.at = "transfer") => f16lba' = f16lba
        /\ call.op = "zero" => buf_lba' = None
    BY <1>3 DEF GivesUp, IInv, Place
  <2>3. call.at = "transfer" /\ Writing =>
          /\ call.op \in {"store", "zero"} /\ call.sec \in Data /\ buf_lba' = None
          /\ latest' = [latest EXCEPT ![call.sec] = Unknown]
    BY <1>3, <2>2 DEF GivesUp, Writing, Sector, IInv, Place
  <2>4. latest' \in [Sectors -> Int]
    BY <2>1, <2>3 DEF IInv, Types
  <2>5. Types'
    BY <1>1, <2>1, <2>2, <2>4, DamageLocal DEF IInv, Types
  <2>6. Place' /\ Flushed'
    <3>1. f16dirty' => f16lba' # None
      BY <1>1, <2>2 DEF IInv, Flushed
    <3> QED BY <2>1, <3>1, EndedPlace
  <2>7. \A s \in Sectors : s \in Fat16 \cup {Fat12} \/ buf_lba' = s => latest'[s] = latest[s]
    BY <2>1, <2>3 DEF IInv, Types
  <2>8. BufSeen' /\ Fat16Seen' /\ Fat12Seen'
    BY <1>1, <2>1, <2>2, <2>7, DamageLocal
    DEF IInv, Types, Seen, BufSeen, Fat16Seen, Fat12Seen, Sees
  <2>9. DiskSeen'
    <3> SUFFICES ASSUME NEW s \in Sectors, OnDisk(s)' PROVE Sees(s, disk[s])'
      BY DEF DiskSeen
    <3>1. OnDisk(s)
      BY <1>1, <2>2 DEF OnDisk, IInv, Flushed
    <3>2. CASE InFlight(s)
      <4>1. Writing /\ s = call.sec
        BY <3>2 DEF InFlight, Writing
      <4> QED BY <2>3, <3>2, <4>1 DEF InFlight, IInv, Types, Sees
    <3>3. CASE ~InFlight(s)
      <4>1. disk'[s] = disk[s]
        BY <1>1, <3>1, <3>3, DamageHidden
      <4>2. latest'[s] = latest[s]
        BY <2>1, <2>3, <3>3 DEF InFlight, IInv, Types, Writing
      <4> QED BY <3>1, <3>3, <4>1, <4>2 DEF IInv, Seen, DiskSeen, Sees
    <3> QED BY <3>2, <3>3
  <2> QED BY <2>5, <2>6, <2>8, <2>9 DEF IInv, Seen
<1> QED BY <1>2, <1>3

----------------------------------------------------------------------------
(* The calls.                                                              *)

LEMMA StartPlace ==
  ASSUME IInv, ~Busy, NEW op \in Ops \ {"none"}, NEW at \in Ats, NEW s \in Sectors \cup {None},
         NEW val \in Int, Run(op, at, s, val), UNCHANGED <<f16lba, f16dirty, fat12_dirty>>,
         op \in {"load", "store", "zero"} => at = "transfer" /\ s \in Data,
         op = "zero" => buf_lba' = None,
         op = "fat" => at = FirstEvict /\ s \in Fat16,
         op = "commit" => at = Flushing("idle") /\ at # "idle",
         op \in {"int25", "int26"} => at = Flushing("transfer") /\ s \in Sectors
  PROVE  /\ call' = [op |-> op, at |-> at, sec |-> s, val |-> val]
         /\ call'.op = op /\ call'.at = at /\ call'.sec = s
         /\ Place' /\ Flushed'
<1>1. call' = [op |-> op, at |-> at, sec |-> s, val |-> val]
  BY DEF Run
<1>2. call'.op = op /\ call'.at = at /\ call'.sec = s
  BY <1>1
<1>3. call' # Idle /\ op # "none"
  BY <1>2, IdleFacts
<1>4. Place'
  BY <1>2, <1>3 DEF Place, FirstEvict, Flushing
<1>5. f16dirty => f16lba # None
  BY DEF IInv, Flushed
<1>6. op = "fat" => (at = "evict" /\ f16dirty) \/ (at = "transfer" /\ ~f16dirty)
  BY <1>5 DEF FirstEvict
<1>7. op \in {"commit", "int25", "int26"} =>
        \/ at = "evict" /\ f16dirty
        \/ at = "flush12" /\ fat12_dirty /\ ~f16dirty
        \/ at = "transfer" /\ ~f16dirty /\ ~fat12_dirty
  BY <1>5 DEF Flushing
<1>8. Flushed'
  BY <1>2, <1>5, <1>6, <1>7 DEF Flushed, Ops
<1> QED BY <1>1, <1>2, <1>4, <1>8

LEMMA LoadSeen ==
  ASSUME IInv, NEW s \in Data, fat_load_sector(s)
  PROVE  IInv'
<1> USE SectorSets
<1>1. ~Busy /\ Run("load", "transfer", s, Zero)
      /\ UNCHANGED <<disk, latest, disk_buf, buf_lba, f16buf, f16lba, f16dirty, fatcache, fat12_dirty>>
  BY DEF fat_load_sector, bufs, fat16, fat12
<1>2. /\ call' = [op |-> "load", at |-> "transfer", sec |-> s, val |-> Zero]
      /\ call'.op = "load" /\ call'.at = "transfer" /\ call'.sec = s /\ Place' /\ Flushed'
  BY <1>1, StartPlace DEF Ops, Ats
<1>3. Types'
  BY <1>1, <1>2 DEF IInv, Types, Ops, Ats
<1>4. Seen'
  BY <1>1, <1>2, IdleFacts
  DEF IInv, Seen, BufSeen, Fat16Seen, Fat12Seen, DiskSeen, OnDisk, InFlight, Sees, Busy
<1> QED BY <1>2, <1>3, <1>4 DEF IInv

LEMMA StoreSeen ==
  ASSUME IInv, NEW s \in Data, NEW val \in Values, NEW whole \in BOOLEAN,
         fat_store_buf(s, val, whole)
  PROVE  IInv'
<1> USE SectorSets
<1>1. ~Busy /\ Run("store", "transfer", s, Zero) /\ disk_buf' = val
      /\ UNCHANGED <<disk, latest, buf_lba, f16buf, f16lba, f16dirty, fatcache, fat12_dirty>>
  BY DEF fat_store_buf, bufs, fat16, fat12
<1>2. /\ call' = [op |-> "store", at |-> "transfer", sec |-> s, val |-> Zero]
      /\ call'.op = "store" /\ call'.at = "transfer" /\ call'.sec = s /\ Place' /\ Flushed'
  BY <1>1, StartPlace DEF Ops, Ats
<1>3. Types'
  BY <1>1, <1>2 DEF IInv, Types, Ops, Ats
<1>4. Seen'
  BY <1>1, <1>2, IdleFacts
  DEF IInv, Seen, BufSeen, Fat16Seen, Fat12Seen, DiskSeen, OnDisk, InFlight, Sees, Busy
<1> QED BY <1>2, <1>3, <1>4 DEF IInv

LEMMA ZeroSeen ==
  ASSUME IInv, NEW s \in Data, fat_zero_cluster(s)
  PROVE  IInv'
<1> USE SectorSets
<1>1. ~Busy /\ Run("zero", "transfer", s, Zero) /\ disk_buf' = Zero /\ buf_lba' = None
      /\ UNCHANGED <<disk, latest, f16buf, f16lba, f16dirty, fatcache, fat12_dirty>>
  BY DEF fat_zero_cluster, fat16, fat12
<1>2. /\ call' = [op |-> "zero", at |-> "transfer", sec |-> s, val |-> Zero]
      /\ call'.op = "zero" /\ call'.at = "transfer" /\ call'.sec = s /\ Place' /\ Flushed'
  BY <1>1, StartPlace DEF Ops, Ats
<1>3. Types'
  BY <1>1, <1>2 DEF IInv, Types, Ops, Ats
<1>4. Seen'
  BY <1>1, <1>2, IdleFacts
  DEF IInv, Seen, BufSeen, Fat16Seen, Fat12Seen, DiskSeen, OnDisk, InFlight, Sees, Busy
<1> QED BY <1>2, <1>3, <1>4 DEF IInv

\* f16_load, fat_commit and absdisk_dispatch only begin.
LEMMA BeginsSeen ==
  ASSUME IInv, ~Busy, NEW op \in {"fat", "commit", "int25", "int26"}, NEW at \in Ats \ {"reload"},
         NEW s \in Sectors \cup {None}, NEW val \in Int, Run(op, at, s, val),
         UNCHANGED <<disk, latest, disk_buf, buf_lba, f16buf, f16lba, f16dirty, fatcache, fat12_dirty>>,
         op = "fat" => at = FirstEvict /\ s \in Fat16,
         op = "commit" => at = Flushing("idle") /\ at # "idle",
         op \in {"int25", "int26"} => at = Flushing("transfer") /\ s \in Sectors
  PROVE  IInv'
<1> USE SectorSets
<1>1. /\ call' = [op |-> op, at |-> at, sec |-> s, val |-> val]
      /\ call'.op = op /\ call'.at = at /\ call'.sec = s /\ Place' /\ Flushed'
  BY StartPlace DEF Ops
<1>2. Types'
  BY <1>1 DEF IInv, Types, Ops
<1>3. Seen'
  BY <1>1, IdleFacts
  DEF IInv, Seen, BufSeen, Fat16Seen, Fat12Seen, DiskSeen, OnDisk, InFlight, Sees, Busy
<1> QED BY <1>1, <1>2, <1>3 DEF IInv

LEMMA SetSeen ==
  ASSUME IInv, NEW s \in Sectors, NEW val \in Values, fat_set(s, val)
  PROVE  IInv'
<1> USE SectorSets
<1>1. ~Busy /\ latest' = [latest EXCEPT ![s] = val] /\ UNCHANGED <<disk, call, disk_buf, buf_lba>>
      /\ call.op = "none" /\ call.at = "idle"
  BY IdleFacts DEF fat_set, bufs, Busy
<1>2. \/ /\ s = f16lba /\ f16buf' = val /\ f16dirty' = TRUE
         /\ UNCHANGED <<f16lba, fatcache, fat12_dirty>>
      \/ /\ s = Fat12 /\ fatcache' = val /\ fat12_dirty' = TRUE
         /\ UNCHANGED <<f16buf, f16lba, f16dirty>>
  BY DEF fat_set, fat16, fat12
<1>3. latest'[s] = val /\ \A t \in Sectors : t # s => latest'[t] = latest[t]
  BY <1>1 DEF IInv, Types
<1>4. Types'
  BY <1>1, <1>2 DEF IInv, Types
<1>5. Place' /\ Flushed'
  BY <1>1, <1>2 DEF IInv, Place, Flushed
<1>6. s \in Fat16 \cup {Fat12}
  BY <1>2 DEF IInv, Types
<1>7. BufSeen'
  BY <1>1, <1>3, <1>6 DEF IInv, Types, Seen, BufSeen, Sees
<1>8. Fat16Seen' /\ Fat12Seen'
  BY <1>1, <1>2, <1>3 DEF IInv, Types, Seen, Fat16Seen, Fat12Seen, Sees
<1>9. DiskSeen'
  BY <1>1, <1>2, <1>3 DEF IInv, Types, Seen, DiskSeen, OnDisk, InFlight, Sees
<1> QED BY <1>4, <1>5, <1>7, <1>8, <1>9 DEF IInv, Seen

LEMMA StepSeen ==
  ASSUME ~ReloadFails, IInv, [Next]_vars
  PROVE  IInv'
<1> USE SectorSets
<1>1. CASE floppy_io
  BY <1>1, SucceedsSeen, RetriesSeen, GivesUpSeen DEF floppy_io
<1>2. ASSUME NEW s \in Data,
             \/ fat_load_sector(s) \/ fat_zero_cluster(s)
             \/ \E val \in Values, whole \in BOOLEAN : fat_store_buf(s, val, whole)
      PROVE  IInv'
  BY <1>2, LoadSeen, ZeroSeen, StoreSeen
<1>3. ASSUME NEW s \in Fat16, f16_load(s) PROVE IInv'
  <2>1. FirstEvict \in Ats \ {"reload"} /\ s \in Sectors
    BY DEF FirstEvict, Ats
  <2> QED BY <1>3, <2>1, BeginsSeen DEF f16_load, bufs, fat16, fat12
<1>4. ASSUME NEW s \in Sectors, NEW val \in Values, fat_set(s, val) PROVE IInv'
  BY <1>4, SetSeen
<1>5. \A at \in {"idle", "transfer"} : Flushing(at) \in Ats \ {"reload"}
  BY DEF Flushing, Ats
<1>6. ASSUME NEW s \in Sectors, NEW val \in Int, NEW op \in {"int25", "int26"},
             absdisk_dispatch(op, s, val)
      PROVE  IInv'
  BY <1>5, <1>6, BeginsSeen DEF absdisk_dispatch, CommitFirst, bufs, fat16, fat12
<1>7. CASE fat_commit
  <2>1. ~Busy /\ Run("commit", Flushing("idle"), None, Zero) /\ Flushing("idle") # "idle"
        /\ UNCHANGED <<disk, latest, disk_buf, buf_lba, f16buf, f16lba, f16dirty, fatcache, fat12_dirty>>
    BY <1>7 DEF fat_commit, bufs, fat16, fat12
  <2>2. Flushing("idle") \in Ats \ {"reload"}
    BY <1>5
  <2> QED BY <2>1, <2>2, BeginsSeen
<1>8. CASE UNCHANGED vars
  BY <1>8 DEF vars, IInv, Types, Place, Flushed, Seen, BufSeen, Fat16Seen, Fat12Seen, DiskSeen,
              OnDisk, InFlight, Sees
<1> QED BY <1>1, <1>2, <1>3, <1>4, <1>6, <1>7, <1>8 DEF Next

\* Whatever tries and calls fail, every path to a sector sees what was last
\* written to it through any other, provided that the FAT can be read back
\* after INT 26h.
THEOREM NothingStale == ASSUME ~ReloadFails PROVE Spec => []LatestSeen
<1>1. Init => IInv
  BY InitSeen
<1>2. IInv /\ [Next]_vars => IInv'
  BY StepSeen
<1>3. IInv => LatestSeen
  <2> SUFFICES ASSUME IInv PROVE LatestSeen
    OBVIOUS
  <2>1. CASE call = Idle
    BY <2>1, IdleFacts DEF IInv, Seen, BufSeen, Fat16Seen, Fat12Seen, DiskSeen, InFlight, LatestSeen
  <2>2. CASE call # Idle
    <3> SUFFICES ASSUME call.op = "int25", call.at = "transfer" PROVE Sees(Sector, disk[Sector])
      BY <2>2 DEF LatestSeen, Busy
    <3>1. Sector = call.sec /\ call.sec \in Sectors /\ OnDisk(call.sec) /\ ~InFlight(call.sec)
      BY DEF Sector, IInv, Place, Flushed, OnDisk, InFlight
    <3> QED BY <3>1 DEF IInv, Seen, DiskSeen
  <2> QED BY <2>1, <2>2
<1> QED BY <1>1, <1>2, <1>3, PTL DEF Spec

----------------------------------------------------------------------------
(* The mouse.                                                              *)

\* The part of Overlay that speaks of the screen: s shows the page pg, with
\* the cell of the cursor inverted while it is drawn.
Covers(s, pg) ==
  /\ s = [video |-> s.video, drawn |-> s.drawn, cell |-> s.cell, attr |-> s.attr]
  /\ s.drawn \in BOOLEAN /\ s.cell \in Cells
  /\ s.video = IF s.drawn THEN [pg EXCEPT ![s.cell] = Invert(pg[s.cell])] ELSE pg
  /\ s.drawn => s.attr = pg[s.cell]

States == [px : 0..MaxX, min : 0..MaxX, max : 0..MaxX, frac : Int,
           ratio : Nat \ {0}, visible : Int]

\* Overlay and CursorFollows are not inductive.  A step needs to know that the
\* state 17h puts back hides the cursor as well, and that a drawn cursor is in
\* a text mode, since cur_draw looks at the mode before it looks at the cell.
MouseInv ==
  /\ ms \in States /\ saved \in States
  /\ ms.visible <= 0 /\ saved.visible <= 0
  /\ text \in BOOLEAN /\ ranged \in BOOLEAN
  /\ DOMAIN page = Cells
  /\ page = [c \in Cells |-> page[c]]
  /\ Covers(screen, page)
  /\ screen.drawn => ms.visible = 0 /\ text
  /\ CursorFollows

----------------------------------------------------------------------------
\* The cell of a point of the range is a cell of the screen.
LEMMA TimesGrows ==
  ASSUME NEW p \in Nat, NEW q \in Int, NEW r \in Int, q >= r
  PROVE  p * q >= p * r
<1>1. p * (q - r) >= 0
  BY SMT
<1>2. p * (q - r) = p * q - p * r
  BY SMT
<1> QED BY <1>1, <1>2

LEMMA CellInRange ==
  ASSUME NEW x \in 0..MaxX
  PROVE  Cell(x) \in Cells
<1> DEFINE q == x \div CellPixels
           r == MaxX \div CellPixels
<1>1. MaxX \in Nat /\ CellPixels \in Nat /\ CellPixels > 0 /\ x \in Nat /\ x <= MaxX
  BY MouseAssumption
<1>2. q \in Nat /\ CellPixels * q <= x
  BY <1>1, SMT
<1>3. r \in Nat /\ MaxX < CellPixels * r + CellPixels
  BY <1>1, SMT
<1> HIDE DEF q, r
<1>4. q <= r
  <2> SUFFICES ASSUME q > r PROVE FALSE
    BY <1>2, <1>3
  <2>1. CellPixels * q >= CellPixels * (r + 1)
    BY <1>1, <1>2, <1>3, TimesGrows
  <2>2. CellPixels * (r + 1) = CellPixels * r + CellPixels
    BY <1>1, <1>3, SMT
  <2> QED BY <1>1, <1>2, <1>3, <2>1, <2>2
<1>5. q \in 0..r
  BY <1>2, <1>3, <1>4
<1> QED BY <1>5 DEF Cell, Cells, q, r

LEMMA ClampInRange ==
  ASSUME NEW x \in Int, NEW lo \in 0..MaxX, NEW hi \in 0..MaxX
  PROVE  clamp(x, lo, hi) \in 0..MaxX
BY MouseAssumption DEF clamp

\* cur_undraw takes the cursor off and leaves the page.
LEMMA Undrawn ==
  ASSUME NEW pg, DOMAIN pg = Cells, pg = [c \in Cells |-> pg[c]],
         NEW s, Covers(s, pg)
  PROVE  Covers(cur_undraw(s), pg) /\ ~cur_undraw(s).drawn
<1>1. CASE s.drawn
  <2>1. cur_undraw(s) = [video |-> [s.video EXCEPT ![s.cell] = s.attr], drawn |-> FALSE,
                         cell |-> s.cell, attr |-> s.attr]
    BY <1>1 DEF cur_undraw, Covers
  <2>2. [s.video EXCEPT ![s.cell] = s.attr] = pg
    BY <1>1 DEF Covers
  <2> QED BY <2>1, <2>2 DEF Covers
<1>2. CASE ~s.drawn
  BY <1>2 DEF cur_undraw
<1> QED BY <1>1, <1>2

\* cur_draw puts it where the pointer is, if it is to be drawn at all.
LEMMA Drawn ==
  ASSUME NEW pg, DOMAIN pg = Cells, pg = [c \in Cells |-> pg[c]],
         NEW s, Covers(s, pg), NEW m \in States
  PROVE  /\ Covers(cur_draw(s, m), pg)
         /\ Draws(m) => cur_draw(s, m).drawn /\ cur_draw(s, m).cell = Cell(m.px)
         /\ ~Draws(m) => cur_draw(s, m) = s
<1> DEFINE u == cur_undraw(s)
           c == Cell(m.px)
<1>1. c \in Cells
  BY CellInRange DEF States
<1>2. Covers(u, pg) /\ ~u.drawn
  BY Undrawn
<1>3. u.video = pg
  BY <1>2 DEF Covers
<1> HIDE DEF u, c
<1>4. CASE ~Draws(m) \/ InPlace(s, m)
  BY <1>4 DEF cur_draw, InPlace
<1>5. CASE Draws(m) /\ ~InPlace(s, m)
  <2>1. cur_draw(s, m) = [video |-> [pg EXCEPT ![c] = Invert(pg[c])], drawn |-> TRUE,
                          cell |-> c, attr |-> pg[c]]
    BY <1>3, <1>5 DEF cur_draw, Inverted, u, c
  <2>2. Covers(cur_draw(s, m), pg)
    BY <1>1, <2>1 DEF Covers
  <2> QED BY <1>5, <2>1, <2>2 DEF c
<1> QED BY <1>4, <1>5

\* A step that shows the state m on a screen whose cursor is off, or that
\* keeps visible as it was.
LEMMA ShowKeeps ==
  ASSUME MouseInv, NEW s, NEW m \in States, Covers(s, page), m.visible <= 0,
         s.drawn => m.visible = 0 /\ text,
         Show(s, m), saved' \in States, saved'.visible <= 0, UNCHANGED <<text, page>>
  PROVE  MouseInv'
<1>1. /\ Covers(screen', page)
      /\ Draws(m) => screen'.drawn /\ screen'.cell = Cell(m.px)
      /\ ~Draws(m) => screen' = s
  BY Drawn DEF MouseInv, Show
<1>2. Draws(m) <=> (m.visible = 0 /\ text)
  BY DEF Draws, States
<1>3. screen'.drawn => m.visible = 0 /\ text
  BY <1>1, <1>2
<1>4. CursorFollows'
  BY <1>1, <1>2 DEF CursorFollows, Show, MouseInv
<1>5. Covers(screen, page)'
  BY <1>1 DEF Covers
<1>6. ranged' \in BOOLEAN
  BY DEF Show, MouseInv
<1> QED BY <1>3, <1>4, <1>5, <1>6 DEF MouseInv, Show

LEMMA InitMouse == MouseInit => MouseInv
<1> SUFFICES ASSUME MouseInit PROVE MouseInv
  OBVIOUS
<1>1. Default \in States
  BY MouseAssumption, SMT DEF Default, States
<1>2. 0 \in Cells
  <2>1. MaxX \in 0..MaxX
    BY MouseAssumption
  <2> QED BY <2>1, CellInRange DEF Cells
<1>3. Covers(screen, page)
  BY <1>2 DEF MouseInit, Covers
<1>4. DOMAIN page = Cells /\ page = [c \in Cells |-> page[c]]
  BY DEF MouseInit
<1>5. ms.visible <= 0 /\ saved.visible <= 0 /\ ~screen.drawn
  BY DEF MouseInit, Default
<1> QED BY <1>1, <1>3, <1>4, <1>5 DEF MouseInit, MouseInv, CursorFollows

LEMMA NextMouse ==
  ASSUME ~Wraps, MouseInv, [MouseNext]_mouse_vars
  PROVE  MouseInv'
<1>1. /\ ms \in States /\ saved \in States /\ Covers(screen, page)
      /\ ms.visible <= 0 /\ saved.visible <= 0 /\ ms.visible \in Int
  BY DEF MouseInv, States
<1>2. Covers(cur_undraw(screen), page) /\ ~cur_undraw(screen).drawn
  BY <1>1, Undrawn DEF MouseInv
<1>3. CASE reset_state
  <2>1. Default \in States /\ Default.visible <= 0
    BY MouseAssumption, SMT DEF Default, States
  <2>2. Covers(screen, page)'
    BY <1>2, <1>3 DEF reset_state, Covers
  <2> QED BY <1>2, <1>3, <2>1, <2>2 DEF reset_state, MouseInv, CursorFollows
<1>4. CASE ShowCursor
  <2> DEFINE m == [ms EXCEPT !.visible = IF @ < 0 THEN @ + 1 ELSE @]
  <2>1. m \in States /\ m.visible <= 0 /\ (ms.visible = 0 => m.visible = 0)
    BY <1>1 DEF States
  <2> QED BY <1>1, <1>4, <2>1, ShowKeeps DEF ShowCursor, MouseInv
<1>5. CASE HideCursor
  <2>1. ms' \in States /\ ms'.visible < 0 /\ ms'.px = ms.px
    BY <1>1, <1>5 DEF HideCursor, Lower, States
  <2>2. Covers(screen', page) /\ ~screen'.drawn
    BY <1>1, <1>2, <1>5 DEF HideCursor, MouseInv
  <2>3. Covers(screen, page)'
    BY <1>5, <2>2 DEF HideCursor, Covers
  <2>4. UNCHANGED <<saved, text, page, ranged>>
    BY <1>5 DEF HideCursor
  <2> QED BY <1>1, <2>1, <2>2, <2>3, <2>4 DEF MouseInv, CursorFollows, States
<1>6. CASE state_copy_out
  <2>1. Covers(screen, page)'
    BY <1>1, <1>6 DEF state_copy_out, Covers
  <2> QED BY <1>6, <2>1 DEF state_copy_out, MouseInv, CursorFollows
<1>7. CASE state_copy_in
  BY <1>1, <1>2, <1>7, ShowKeeps DEF state_copy_in
<1>8. CASE SetMode
  <2>1. Covers(screen, page)' /\ ~screen.drawn
    BY <1>1, <1>8 DEF SetMode, Covers, MouseInv
  <2> QED BY <1>8, <2>1 DEF SetMode, MouseInv, CursorFollows
<1>9. ASSUME NEW d \in Moves, mouse_event(d) PROVE MouseInv'
  <2> DEFINE f == ms.frac + d * 8
             step == Quot(f, ms.ratio)
             m == [ms EXCEPT !.frac = f - step * ms.ratio,
                             !.px = clamp(ms.px + step, ms.min, ms.max)]
  <2>1. f \in Int /\ ms.ratio \in Nat \ {0}
    BY <1>1, MouseAssumption DEF States
  <2>2. step \in Int
    BY <2>1, SMT DEF Quot
  <2> HIDE DEF f, step
  <2>3. f - step * ms.ratio \in Int
    BY <2>1, <2>2, SMT
  <2>4. ms.px + step \in Int /\ ms.min \in 0..MaxX /\ ms.max \in 0..MaxX
    BY <1>1, <2>2, MouseAssumption DEF States
  <2>5. m \in States /\ m.visible = ms.visible
    BY <1>1, <2>3, <2>4, ClampInRange DEF States
  <2>6. Show(screen, m) /\ UNCHANGED <<saved, text, page>>
    BY <1>9 DEF mouse_event, f, step
  <2> HIDE DEF m
  <2> QED BY <1>1, <2>5, <2>6, ShowKeeps DEF MouseInv
<1>10. ASSUME NEW x \in Points, SetPosition(x) PROVE MouseInv'
  <2> DEFINE m == [ms EXCEPT !.px = clamp(x, ms.min, ms.max)]
  <2>1. m \in States /\ m.visible = ms.visible
    BY <1>1, ClampInRange, MouseAssumption DEF States
  <2>2. CASE m.visible = 0
    BY <1>1, <1>10, <2>1, <2>2, ShowKeeps DEF SetPosition, MouseInv
  <2>3. CASE m.visible # 0
    <3>1. ~screen.drawn /\ Covers(screen, page)'
      BY <1>1, <1>10, <2>1, <2>3 DEF SetPosition, MouseInv, Covers
    <3>2. ms' = m /\ UNCHANGED <<saved, screen, text, page, ranged>>
      BY <1>10, <2>3 DEF SetPosition
    <3> HIDE DEF m
    <3> QED BY <1>1, <2>1, <3>1, <3>2 DEF MouseInv, CursorFollows
  <2> QED BY <2>2, <2>3
<1>11. ASSUME NEW x \in Points, NEW y \in Points, SetRange(x, y) PROVE MouseInv'
  <2> DEFINE lo == IF x > y THEN y ELSE x
             hi == IF x > y THEN x ELSE y
  <2>1. lo \in 0..MaxX /\ hi \in 0..MaxX /\ ms.px \in Int
    BY <1>1, MouseAssumption DEF States
  <2>2. ms' = [ms EXCEPT !.min = lo, !.max = hi, !.px = clamp(@, lo, hi)]
    BY <1>11 DEF SetRange
  <2> HIDE DEF lo, hi
  <2>3. ms' \in States /\ ms'.visible = ms.visible
    BY <1>1, <2>1, <2>2, ClampInRange DEF States
  <2>4. Covers(screen, page)'
    BY <1>1, <1>11 DEF SetRange, Covers
  <2> QED BY <1>11, <2>3, <2>4 DEF SetRange, MouseInv, CursorFollows
<1>12. ASSUME NEW r \in Ratios, SetRatio(r) PROVE MouseInv'
  <2>1. ms' \in States /\ ms'.visible = ms.visible /\ ms'.px = ms.px
    BY <1>1, <1>12, MouseAssumption DEF SetRatio, States
  <2>2. Covers(screen, page)'
    BY <1>1, <1>12 DEF SetRatio, Covers
  <2> QED BY <1>12, <2>1, <2>2 DEF SetRatio, MouseInv, CursorFollows
<1>13. ASSUME NEW c \in Cells, NEW a \in Attributes, WriteCell(c, a) PROVE MouseInv'
  <2>1. ~screen.drawn /\ screen.video = page
    BY <1>1, <1>13 DEF WriteCell, MouseInv, Covers
  <2>2. Covers(screen, page)'
    BY <1>1, <1>13, <2>1 DEF WriteCell, Covers
  <2>3. page' = [k \in Cells |-> page'[k]] /\ DOMAIN page' = Cells
    BY <1>13 DEF WriteCell, MouseInv
  <2>4. ~screen'.drawn
    BY <1>1, <1>13, <2>1 DEF WriteCell, Covers
  <2> QED BY <1>13, <2>2, <2>3, <2>4 DEF WriteCell, MouseInv, CursorFollows
<1>14. CASE UNCHANGED mouse_vars
  <2>1. Covers(screen, page)'
    BY <1>1, <1>14 DEF mouse_vars, Covers
  <2> QED BY <1>14, <2>1 DEF mouse_vars, MouseInv, CursorFollows
<1> QED BY <1>3, <1>4, <1>5, <1>6, <1>7, <1>8, <1>9, <1>10, <1>11, <1>12, <1>13, <1>14 DEF MouseNext

THEOREM Inductive ==
  ASSUME ~Wraps
  PROVE  MouseSpec => []MouseInv
<1>1. MouseInit => MouseInv
  BY InitMouse
<1>2. MouseInv /\ [MouseNext]_mouse_vars => MouseInv'
  BY NextMouse
<1> QED BY <1>1, <1>2, PTL DEF MouseSpec

\* Video memory is what programs have written to it, with the cell of a drawn
\* cursor inverted and no other, whatever interrupts and calls have moved,
\* hidden, saved and restored.
THEOREM NoTrace ==
  ASSUME ~Wraps
  PROVE  MouseSpec => []Overlay
<1>1. MouseInv => Overlay
  BY DEF MouseInv, Covers, Overlay
<1> QED BY <1>1, Inductive, PTL

\* A drawn cursor is where the pointer is, unless 07h has moved the pointer.
THEOREM DrawnAtPointer ==
  ASSUME ~Wraps
  PROVE  MouseSpec => []CursorFollows
<1>1. MouseInv => CursorFollows
  BY DEF MouseInv
<1> QED BY <1>1, Inductive, PTL
=============================================================================
