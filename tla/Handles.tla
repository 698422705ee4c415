------------------------------ MODULE Handles -------------------------------
(***************************************************************************)
(* The handle layer of src/kernel/file.c over the lock table of share.c:   *)
(* the System File Table with its reference counts, the Job File Table of  *)
(* every process, and what EXEC, terminate and TSR (src/kernel/proc.c) do  *)
(* to them.  INT 21h calls run one at a time, so each call is one step.    *)
(* Processes nest: a parent stands still inside its EXEC until its child   *)
(* ends.  A resident program (TSR) keeps its PSP and its handles, and runs *)
(* again from an interrupt, switching PSPs with 50h around what it does.   *)
(***************************************************************************)
EXTENDS Share, FiniteSets

CONSTANTS Psps,      \* segments a PSP can have
          NumSft,    \* NUM_SFT
          JftSize,   \* JFT_SIZE
          RefMax,    \* 0xFF: a reference count is a byte and saturates
          ReadOnly,  \* files whose read-only attribute is set
          Devices,   \* devices a program can open by name (CON, NUL, ...)
          OpenModes, \* bound of the model: open ALs tried
          Regions,   \* bound of the model: <<start, len>> of 5Ch
          UserH      \* bound of the model: handles that calls name

ASSUME PspsAssumption == Psps \subseteq Nat \ {0}
ASSUME SizesAssumption ==
  /\ NumSft \in 4..255
  /\ JftSize \in Nat /\ JftSize >= 5
  /\ RefMax \in Nat /\ RefMax > 5
ASSUME InputsAssumption ==
  /\ ReadOnly \subseteq Files
  /\ "FILE" \notin Devices
  /\ OpenModes \subseteq Modes
  /\ UserH \subseteq 0..(JftSize - 1)
  /\ Regions \subseteq (0..(Word - 1)) \X (0..(Word - 1))

VARIABLES
  sft,       \* slot |-> [open, dev, file, mode], open is the reference count
  jft,       \* existing PSP (0: the kernel) |-> handle |-> slot or JFT_FREE
  locks,     \* the table of share.c
  parent,    \* existing PSP other than 0 |-> PSP of its parent
  resident,  \* PSPs that ended with 31h
  running,   \* PSP of the process whose code runs (0: the kernel's own)
  cur        \* current_psp

tables == <<sft, jft, locks>>
procs  == <<parent, resident, running>>
vars   == <<sft, jft, locks, parent, resident, running, cur>>

Kernel   == 0
JFT_FREE == 255
Slots    == 0..(NumSft - 1)
Handle   == 0..(JftSize - 1)
DEV_FILE == "FILE"
CON == "CON"
AUX == "AUX"
NUL == "NUL"

\* A slot with open = 0 is never read before handle_alloc zeroes it.
FreeSlot == [open |-> 0, dev |-> DEV_FILE]
DevSlot(dev, mode) == [open |-> 1, dev |-> dev, mode |-> mode]
FileSlot(file, mode) == [open |-> 1, dev |-> DEV_FILE, file |-> file, mode |-> mode]

IsOpenFile(s, file) ==
  /\ sft[s].open # 0
  /\ sft[s].dev = DEV_FILE
  /\ sft[s].file = file

----------------------------------------------------------------------------
\* Primitives.

handle_of(h) == jft[cur][h] \in Slots /\ sft[jft[cur][h]].open # 0

FreeJft == {h \in Handle : jft[cur][h] = JFT_FREE}
FreeSft == {s \in Slots : sft[s].open = 0}
Least(S) == CHOOSE x \in S : \A y \in S : x <= y

CanAlloc == FreeJft # {} /\ FreeSft # {}

\* handle_alloc and the assignments of its caller to the new entry.
handle_alloc(entry) ==
  /\ sft' = [sft EXCEPT ![Least(FreeSft)] = entry]
  /\ jft' = [jft EXCEPT ![cur][Least(FreeJft)] = Least(FreeSft)]

\* An open entry for the file has one of the modes in clashing.
share_conflict(file, clashing) ==
  \E s \in Slots : IsOpenFile(s, file) /\ sft[s].mode \in clashing
Clashing(mode) == {m \in Modes : ~share_mode_compat(m, mode)}

AddRefs(e, n) == [e EXCEPT !.open = IF @ + n > RefMax THEN RefMax ELSE @ + n]

\* n calls of sft_release on a slot in state e: a device stays at 1, a file
\* is closed at 0 and further calls find nothing to release.
sft_release(e, n) ==
  IF e.dev # DEV_FILE THEN [e EXCEPT !.open = IF @ - n >= 1 THEN @ - n ELSE 1]
  ELSE IF e.open > n THEN [e EXCEPT !.open = @ - n]
  ELSE FreeSlot

\* Mutant: the locks of a closed file stay in the table.
NoneClosed(old, new) == {}

\* The files of the slots that go from old to FreeSlot: each gets a
\* share_file_closed.
ClosedFiles(old, new) ==
  {old[s].file : s \in {x \in Slots : old[x].open # 0 /\ new[x].open = 0}}

\* Releasing count[s] references of each slot s.
ReleaseAll(count) ==
  LET new == [s \in Slots |-> IF count[s] = 0 \/ sft[s].open = 0 THEN sft[s]
                              ELSE sft_release(sft[s], count[s])]
  IN  /\ sft' = new
      /\ locks' = share_file_closed(locks, ClosedFiles(sft, new))

One(s) == [x \in Slots |-> IF x = s THEN 1 ELSE 0]
RowCount(row) == [s \in Slots |-> Cardinality({h \in Handle : row[h] = s})]

----------------------------------------------------------------------------
file_init ==
  /\ sft = [s \in Slots |-> CASE s = 0 -> DevSlot(CON, Mode(0, 0))
                              [] s = 1 -> DevSlot(AUX, Mode(0, 0))
                              [] s = 2 -> DevSlot(NUL, Mode(0, 0))
                              [] OTHER -> FreeSlot]
  /\ jft = [p \in {Kernel} |->
              [h \in Handle |-> CASE h < 3 -> 0 [] h = 3 -> 1 [] h = 4 -> 2
                                  [] OTHER -> JFT_FREE]]
  /\ locks = [i \in LockSlots |-> NoLock]
  /\ parent = [p \in {} |-> Kernel]
  /\ resident = {}
  /\ running = Kernel
  /\ cur = Kernel

\* The handle calls of a program run with the PSP it has set.
Program == cur # Kernel

\* 3Dh of a file that exists.
f3d_open(file, mode) ==
  /\ Program
  /\ file \in ReadOnly => mode.access = 0
  /\ ~share_conflict(file, Clashing(mode))
  /\ CanAlloc
  /\ handle_alloc(FileSlot(file, mode))
  /\ UNCHANGED <<locks, procs, cur>>

\* 3Dh or 3Ch of a device name: a new slot each time.
OpenDevice(dev, mode) ==
  /\ Program
  /\ CanAlloc
  /\ handle_alloc(DevSlot(dev, mode))
  /\ UNCHANGED <<locks, procs, cur>>

\* 3Ch: any open entry for the file stops it.
f3c_create(file) ==
  /\ Program
  /\ file \notin ReadOnly
  /\ ~share_conflict(file, Modes)
  /\ CanAlloc
  /\ handle_alloc(FileSlot(file, Mode(0, 2)))
  /\ UNCHANGED <<locks, procs, cur>>

f3e_close(h) ==
  /\ Program
  /\ handle_of(h)
  /\ ReleaseAll(One(jft[cur][h]))
  /\ jft' = [jft EXCEPT ![cur][h] = JFT_FREE]
  /\ UNCHANGED <<procs, cur>>

f45_dup(h) ==
  /\ Program
  /\ handle_of(h)
  /\ FreeJft # {}
  /\ jft' = [jft EXCEPT ![cur][Least(FreeJft)] = jft[cur][h]]
  /\ sft' = [sft EXCEPT ![jft[cur][h]] = AddRefs(@, 1)]
  /\ UNCHANGED <<locks, procs, cur>>

\* Mutant: what h2 referred to is not released.
ForceDupLeaks(h, h2) ==
  LET s == jft[cur][h]
  IN  /\ Program
      /\ handle_of(h)
      /\ h # h2
      /\ sft' = [sft EXCEPT ![s] = AddRefs(@, 1)]
      /\ jft' = [jft EXCEPT ![cur][h2] = s]
      /\ UNCHANGED <<locks, procs, cur>>

\* 46h: h2 is released first, then it refers to the slot of h.
f46_forcedup(h, h2) ==
  LET s     == jft[cur][h]
      old   == jft[cur][h2]
      freed == IF handle_of(h2) THEN [sft EXCEPT ![old] = sft_release(@, 1)] ELSE sft
  IN  /\ Program
      /\ handle_of(h)
      /\ h # h2
      /\ sft' = [freed EXCEPT ![s] = AddRefs(@, 1)]
      /\ locks' = share_file_closed(locks, ClosedFiles(sft, freed))
      /\ jft' = [jft EXCEPT ![cur][h2] = s]
      /\ UNCHANGED <<procs, cur>>

\* 5Ch on a file handle.
f5c_lock(h, start, len) ==
  LET file == sft[jft[cur][h]].file
  IN  /\ Program
      /\ handle_of(h)
      /\ sft[jft[cur][h]].dev = DEV_FILE
      /\ LockGranted(locks, file, start, len)
      /\ locks' = share_lock(locks, file, cur, start, len)
      /\ UNCHANGED <<sft, jft, procs, cur>>

f5c_unlock(h, start, len) ==
  LET file == sft[jft[cur][h]].file
  IN  /\ Program
      /\ handle_of(h)
      /\ sft[jft[cur][h]].dev = DEV_FILE
      /\ Matching(locks, file, cur, start, len) # {}
      /\ locks' = share_unlock(locks, file, cur, start, len)
      /\ UNCHANGED <<sft, jft, procs, cur>>

----------------------------------------------------------------------------
\* kfile_open on a program file: read/write, or read-only where that is
\* denied; it needs a handle and a slot of the caller for a while.
kfile_open(prog) ==
  /\ ~share_conflict(prog, Clashing(Mode(0, IF prog \in ReadOnly THEN 0 ELSE 2)))
  /\ CanAlloc

\* Opening and closing it again leaves the slots as they were and takes the
\* locks of the file away.
LocksAfterLoad(prog) == share_file_closed(locks, {prog})

\* file_jft_inherit: the child gets the parent's handles.
Inherited(row) == [h \in Handle |-> IF row[h] \in Slots /\ sft[row[h]].open # 0
                                      THEN row[h] ELSE JFT_FREE]

\* Mutant: the child gets the handles, the slots no reference.
InheritUncounted(psp, from) ==
  /\ jft' = [p \in DOMAIN jft \cup {psp} |->
               IF p = psp THEN Inherited(jft[from]) ELSE jft[p]]
  /\ sft' = sft

file_jft_inherit(psp, from) ==
  LET row == Inherited(jft[from])
      n   == RowCount(row)
  IN  /\ jft' = [p \in DOMAIN jft \cup {psp} |-> IF p = psp THEN row ELSE jft[p]]
      /\ sft' = [s \in Slots |-> IF n[s] = 0 THEN sft[s] ELSE AddRefs(sft[s], n[s])]

\* 4Bh, when the program is loaded into a new process psp.
f4b_exec(prog, psp) ==
  /\ cur = running
  /\ psp \in Psps \ DOMAIN jft
  /\ kfile_open(prog)
  /\ locks' = LocksAfterLoad(prog)
  /\ file_jft_inherit(psp, cur)
  /\ parent' = [p \in DOMAIN parent \cup {psp} |-> IF p = psp THEN cur ELSE parent[p]]
  /\ running' = psp
  /\ cur' = psp
  /\ UNCHANGED resident

\* 4Bh, when memory or the format of the file stops it after kfile_open.
f4b_exec_fails(prog) ==
  /\ cur = running
  /\ kfile_open(prog)
  /\ locks' = LocksAfterLoad(prog)
  /\ UNCHANGED <<sft, jft, procs, cur>>

\* 4Ch, 00h, INT 20h: close the handles, drop the locks, back to the parent.
proc_terminate ==
  LET psp   == cur
      count == RowCount(jft[psp])
      new   == [s \in Slots |-> IF count[s] = 0 \/ sft[s].open = 0 THEN sft[s]
                                ELSE sft_release(sft[s], count[s])]
  IN  /\ Program
      /\ cur = running
      /\ sft' = new
      /\ locks' = share_psp_closed(share_file_closed(locks, ClosedFiles(sft, new)), psp)
      /\ jft' = [p \in DOMAIN jft \ {psp} |-> jft[p]]
      /\ parent' = [p \in DOMAIN parent \ {psp} |-> parent[p]]
      /\ running' = parent[psp]
      /\ cur' = parent[psp]
      /\ UNCHANGED resident

\* 31h: handles and locks stay.
f31_tsr ==
  /\ Program
  /\ cur = running
  /\ resident' = resident \cup {cur}
  /\ running' = parent[cur]
  /\ cur' = parent[cur]
  /\ UNCHANGED <<tables, parent>>

\* 50h: a resident program switches to its own PSP and back.
f50_setpsp(psp) ==
  /\ running # Kernel
  /\ psp \in (resident \cup {running}) \ {cur}
  /\ cur' = psp
  /\ UNCHANGED <<tables, procs>>

Next ==
  \/ \E f \in Files, m \in OpenModes : f3d_open(f, m)
  \/ \E d \in Devices : OpenDevice(d, Mode(0, 2))
  \/ \E f \in Files : f3c_create(f)
  \/ \E h \in UserH : f3e_close(h) \/ f45_dup(h)
  \/ \E h, h2 \in UserH : f46_forcedup(h, h2)
  \/ \E h \in UserH, r \in Regions :
       f5c_lock(h, r[1], r[2]) \/ f5c_unlock(h, r[1], r[2])
  \/ \E f \in Files, p \in Psps : f4b_exec(f, p)
  \/ \E f \in Files : f4b_exec_fails(f)
  \/ proc_terminate
  \/ f31_tsr
  \/ \E p \in Psps : f50_setpsp(p)

Spec == file_init /\ [][Next]_vars

----------------------------------------------------------------------------
SlotType ==
  {FreeSlot}
    \cup [open : 1..RefMax, dev : Devices \cup {CON, AUX, NUL}, mode : Modes]
    \cup [open : 1..RefMax, dev : {DEV_FILE}, file : Files, mode : Modes]

TypeOK ==
  /\ sft \in [Slots -> SlotType]
  /\ DOMAIN jft \subseteq Psps \cup {Kernel}
  /\ jft \in [DOMAIN jft -> [Handle -> Slots \cup {JFT_FREE}]]
  /\ parent \in [DOMAIN jft \ {Kernel} -> Psps \cup {Kernel}]
  /\ resident \subseteq DOMAIN jft \ {Kernel}
  /\ running \in DOMAIN jft \ resident /\ cur \in DOMAIN jft
  /\ \A p \in DOMAIN parent \ resident : parent[p] \in DOMAIN jft \ resident
  /\ \A i \in LockSlots : locks[i] = NoLock \/
       (locks[i].file \in Files /\ locks[i].psp \in Psps)

\* Entries of the job file tables, of all processes, that refer to slot s.
Refs(s) == {r \in (DOMAIN jft) \X Handle : jft[r[1]][r[2]] = s}

\* The three boot devices never go away, whatever the programs close: their
\* count is 1 and one more for each handle of a process.
BootDevicesStay ==
  \A s \in 0..2 :
    /\ sft[s].dev = CASE s = 0 -> CON [] s = 1 -> AUX [] s = 2 -> NUL
    /\ sft[s].open = 1 + Cardinality({r \in Refs(s) : r[1] # Kernel})

\* "SFT refcount, 0 = slot free" (file.c:46): the count of a file's slot is
\* the number of handles, in the running processes, their waiting parents and
\* the resident programs, that refer to it.  One less and a slot in use is
\* given to another file; one more and it is never free again.
RefcountExact ==
  /\ TypeOK
  /\ BootDevicesStay
  /\ \A s \in Slots : sft[s].open = 0 \/ sft[s].dev = DEV_FILE =>
                        sft[s].open = Cardinality(Refs(s))

\* Two open-file entries for one file never exist unless the sharing modes of
\* both permit the access of the other, however the opens, creates and closes
\* of the processes are interleaved.
SharingHolds ==
  \A s, t \in Slots :
    s # t /\ sft[s].open # 0 /\ sft[t].open # 0
      /\ sft[s].dev = DEV_FILE /\ sft[t].dev = DEV_FILE /\ sft[s].file = sft[t].file
    => share_mode_compat(sft[s].mode, sft[t].mode)

Bytes(l) == l.start .. (l.start + l.len - 1)

\* Regions locked on one file are disjoint, as sets of bytes: a region has at
\* most one lock, of one owner.  And no lock outlives its reason: its file is
\* open in some slot, its owner is a process that still exists.
LocksSound ==
  /\ \A i, j \in LockSlots :
       i # j /\ locks[i].used /\ locks[j].used /\ locks[i].file = locks[j].file
       => Bytes(locks[i]) \cap Bytes(locks[j]) = {}
  /\ \A i \in LockSlots : locks[i].used =>
       /\ \E s \in Slots : IsOpenFile(s, locks[i].file)
       /\ locks[i].psp \in DOMAIN jft

\* A child gives back exactly what it took: while it runs and when it ends,
\* the handles of every other process refer to the slots they referred to, and
\* each of those slots is still open on the same file or device.
OthersUndisturbed ==
  \A p \in DOMAIN jft \ {cur} :
    p \in DOMAIN jft' =>
      /\ jft'[p] = jft[p]
      /\ \A h \in Handle : jft[p][h] # JFT_FREE =>
           LET s == jft[p][h]
           IN  /\ sft'[s].open # 0
               /\ [sft'[s] EXCEPT !.open = 0] = [sft[s] EXCEPT !.open = 0]
HandlesSurvive == [][OthersUndisturbed]_vars
=============================================================================
