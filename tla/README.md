# LiberDOS, modelled

TLA+ modules, TLC configurations and TLAPS proofs for the LiberDOS kernel, a
16-bit real-mode DOS written in C and assembly. The modules translate
`src/src/kernel/*.c`; `PROJECT.json` names, for each definition, the lines it
stands for.

    tlc -workers 2 -config MCMcb.cfg MCMcb      # any MC module and its .cfg
    tlapm XmsProofs.tla                         # any ...Proofs module

## 1. Inventory

### How the system runs

One processor, real mode, no threads. A program calls `INT 21h`; the stub in
`startup.asm` switches to the kernel stack, sets the InDOS flag and calls
`int21_dispatch`. Calls of the kernel are therefore serial, and a whole handler
is one step of the models. What interleaves is

* the processes: `EXEC` (4Bh) nests them, a parent stands still until its child
  ends, and a resident program (31h) runs again from interrupts, between any
  two calls of the others, with its own PSP set by 50h;
* the clients of the memory drivers, whose calls come in any order;
* interrupts: the Ctrl-Break latch (INT 1Bh) and the mouse (PS/2 callback).

Memory, once allocated, is named by its segment address, so identity is reused
as soon as something is freed: PSPs, MCB headers, SFT slots and EMS handles all
are. Most of what can go wrong is bookkeeping through long sequences of legal
calls, and the failure paths of calls with several steps.

### Components

| Component | Source (`src/src/kernel/`) | State | Operations | Talks to | What is hard | What makes it correct |
|---|---|---|---|---|---|---|
| Memory control blocks | `proc.c` 40-196, 314-341 | the MCB chain in conventional memory | 48h, 49h, 4Ah, free by owner, set owner | called by EXEC, terminate, TSR, programs | splits and merges that must tile; `mcb_alloc` does not merge, so it relies on all others having done so | blocks disjoint, chain whole, refusals only when there is no room, BX the largest size that fits |
| Processes | `proc.c` 198-590 | PSPs, current PSP, parent links | EXEC, terminate, TSR | MCBs, handle table, lock table | EXEC fails at five points; temporary owners; a PSP dies with its block | failure undoes everything, nothing belongs to the dead, children give memory back |
| Handle layer | `file.c` 45-213, 341-639 | SFT with reference counts, a JFT per PSP | open, create, close, dup, forced dup, inherit, close all | locks, FAT, EXEC, terminate | counts kept by hand over several processes; devices are never freed | counts exact, one process's calls leave the handles of others alone |
| Sharing and locks | `share.c` | lock table | lock, unlock, drop by file, drop by process, mode matrix | handle layer | lock lifetime against slot and process lifetime; wrap of 32-bit sums | open modes compatible pairwise, locks disjoint and owned |
| XMS driver | `xms.c` | handle table, HMA flag, A20 count | 00h-0Fh | EMS takes a block at boot | handles are not in address order; the gap walk must end; realloc looks behind | blocks disjoint, first fit and query exact, locked blocks stay |
| EMS driver | `ems.c` | handle table, page owners, current and saved maps; frame and backing store | 40h-51h | XMS move (BIOS copy) | pages are copied, not mapped: stale windows, order of copies, failing copies | no call changes what a page holds; runs disjoint |
| File I/O | `file.c` 221-271, 378-554, 696-966, 1098-1441 | position, size, cluster cursor and dirty flag per SFT slot | read, write, seek, truncate, commit, unlink, rename, free space | FAT, handle layer | cursors on cluster boundaries; deletion of open files; flush on close | a file is what was written to it |
| FAT volume | `fat.c` | FAT and its caches, sector buffer, directory slots | chains, directory slots, commit, path resolution, absolute disk I/O | disk | three caches over one disk; crash between writes, full disk | chains disjoint and whole, no cache stale |
| Directory calls | `file.c` 968-1300, `fat.c` 360-1150 | directory entries, current directory, search states | create, delete, rename, move, mkdir, rmdir, chdir, attributes, find first/next | FAT | a move changes three directories; searches go on over changes | one tree; names unique; searches miss nothing that stays |
| Long file names | `lfn.c`, `fat.c` | runs of slots in front of an entry; four find handles | 71xxh | FAT | 8.3 calls know nothing of the runs; aliases collide | each entry shows its own long name and no other (not after 8.3 calls that make aliases) |
| FCB interface | `fcb.c` | search state and handles stashed in FCBs | 0Fh-29h | handle layer, FAT | wildcard rename and delete go through the directory they change | as the directory calls, as file I/O |
| Dispatcher, Ctrl-Break | `int21.c`, `startup.asm` | break latch, pending INT 23h, abort flag, InDOS, saved vectors | entry and epilogue of every call, 25h, 4Ch, 4Dh | everything | flags set in one call and read in a later one; keys come by interrupt | a break is reported once, flags belong to their call and program |
| Console input | `console.c` | pending scan code | 01h, 06h-08h, 0Ah-0Ch, 3Fh on handle 0 | BIOS | two-byte keys; a word of the BIOS for Ctrl-Break | both halves delivered, in order; waits end on a break |
| Mouse | `mouse.c` | position, range, ratio, visible count, drawn cell, counters, event mask | INT 33h, packets | BIOS callback, video memory | interrupt against INT 33h calls and screen writes | the cursor leaves no trace |
| Disk | `disk.c` | geometry | read, write with three tries | BIOS | partial transfers, retries | a call ends, a failure is reported and nothing stale remains |
| Version table | `setver.c` | names and versions | lookup at EXEC, edited in place by SETVER | shell, EXEC | free entries among used ones | a program sees the version it was given |
| Shell | `shell/shell.c`, `cstart.asm` | batch nesting, break flag, environment block, open files | prompt, batch files, SET, SETVER, COPY, TYPE, programs | INT 21h | recursion of batch files and Ctrl-C; failures half way | a break abandons the job, no file stays open, SET does what it says |
| Clock, boot, helpers, utilities | `clock.c`, `main.c`, `util.c`, `boot/`, `shell/*.c` | little | conversions, boot order, programs that only use the kernel | | | |

`PROJECT.json` "hazards" lists, line by line, what is hard to test in these and
the properties that watch it.

## 2. The modules

| Module | What it is |
|---|---|
| `MemMap` | abstract specification: memory as a map from segments to blocks, with no chain |
| `Mcb` | the MCB chain and its operations; implements `MemMap` |
| `Process` | EXTENDS `Mcb`: EXEC, terminate, TSR on the chain |
| `ShareModes` | the sharing matrix, operators only |
| `Share` | EXTENDS `ShareModes`: the lock table, operators only |
| `Handles` | EXTENDS `Share`: SFT, JFTs and locks under handle calls, EXEC, terminate, TSR, 50h |
| `Xms` | the XMS pool, the gap walk turn by turn |
| `Ems` | the EMS driver with contents, failing copies and windows |
| `Volume` | the FAT behind its one-sector write-back cache, operators only |
| `FileStore` | abstract specification: files as sequences, handles as positions |
| `FileIO` | EXTENDS `Volume`, `ShareModes`: open files, directory entries, chains, power failures; implements `FileStore` |
| `Dirs` | directories as sequences of slots: 8.3 entries, long-name runs, searches; short-name, FCB and long-name calls |
| `Disk` | sectors between three caches, INT 25h/26h and the tries of the BIOS |
| `Int21` | console calls step by step, keys and breaks by interrupt, INT 23h, chain of programs |
| `Mouse` | packets, INT 33h, the text cursor in video memory |
| `Shell` | prompt, batch files, Ctrl-C, environment block, version table, open files |
| `Extremum` | lemmas on least and greatest elements and on repeated steps (proved) |
| `ProcessProofs` | theorems about `Mcb`, `MemMap` and `Process` |
| `XmsProofs`, `HandlesProofs`, `FileIOProofs`, `DirsProofs` | theorems about the module of that name |
| `ServiceProofs` | theorems about `Ems`, `Int21` and `Shell` |
| `DriverProofs` | theorems about `Disk` and `Mouse` |
| `MC*` | small instances; `MCFileIO` has two .cfg |

### Mcb and MemMap

`mcb` maps the segment of each header to its signature, owner and size. The
code walks the chain by `mnext`; since a walk meets the headers in address
order, the function carries all a walk sees, provided the links and the `Z` mark
agree with it: that proviso is `ChainOK`, an invariant. `mcb_coalesce` is one
pass that lets each header swallow the free run behind it (`Kept`, `RunEnd`);
`mcb_alloc`, `mcb_free`, `mcb_resize`, `mcb_largest`, `mcb_free_owner` and
`mcb_set_owner` are operators from chain to chain, and the actions `f48_alloc`,
`f49_free`, `f4a_resize`, `FreeOwner`, `SetOwner` are the callers. `ret` is the
answer of the last call, so that a refusal and its BX can be judged.

`MemMap` says what callers may rely on: a block is placed where no other is, a
call changes only its own block, a refusal is given only when there is no room
anywhere (48h) or at that block (4Ah), and its BX is the largest size for which
there is. `ImplementsMap` is that, under the mapping that forgets free headers.

### Process

EXEC on the chain in the order of the code: environment block under
`OWNER_SYSTEM`, coalesce, size of the image block (`Need`, `Want`, `Take`,
16-bit), image block under owner 1, load, hand over or give back. PSPs are block
addresses. `origin` is a history variable: the chain each program was started on.
Programs behave: they free and resize only their own blocks, do not free the
block they run in, nor shrink it below their PSP (the code would let them, and
then nothing can be promised). Handles are left to `Handles`.

### Share and Handles

`sft`, `jft`, `locks` are the tables of `file.c` and `share.c`; `parent`,
`resident`, `running`, `cur` the process structure, with PSPs as plain names.
One action per call; refused calls that change nothing are left out, and so are
contents and positions of files. `n` releases of one slot by close-all are one
operator (`sft_release`), with the lock drops each last release causes. EXEC
opens and closes the program file through the same table (`kfile_open`), which
needs a free handle and a free slot and drops the locks on that file. `running` differs from
`cur` while a resident program has set its own PSP.

### Xms

`xh` is the handle table. `find_gap` and `query_free` are loops, modelled turn
by turn: `call` holds the position `cand` and what the loop has accumulated,
`f09_advance`/`f08_advance` is one turn, `f09_found`, `f09_exhausted`, `f08_end`
the exits. Nothing else runs in between (the driver is not reentered); the turns
are separate steps so that "the walk ends" and "the walk has missed nothing" can
be said. `xms_init` includes the block EMS may take at boot, locked.
0Bh (move) and 0Eh (information) change nothing the driver keeps.

### Ems

`frame` and `store` are the contents of windows and backing pages. `phys_flush`,
`map_page` and the mapping loops (`MapAll`) return sets of outcomes, because
each copy goes through the BIOS and may fail, with its target overwritten or not.
`Write` is a program's store into a window. Two kinds of call are switched by
constants because the driver does not survive them: `Reshuffle` (one call moves a
page from one window to another) and `DropMapped` (51h cuts off a mapped page).
Programs never keep one page in two windows: with copies there are no aliases.

### Volume, FileIO and FileStore

`vol` is the FAT: as the kernel sees it (`fat`), as it is on disk (`disk`), which
sector is cached (`at`) and whether it differs from the disk (`dirty`). `f16_load`
writes a dirty sector before it takes another, so the disk follows the kernel in an
order no call chooses. `PerSector` above `MaxCluster` gives the whole-table cache
of FAT12. `dir` holds the directory entries, written at once; `data` the sectors of
each cluster, written at once; `sft` the open files with first cluster, size, dirty
flag, position and the cursor (`cur`, `cpos`). A transfer is a record that goes
through the steps of `file_do_read` and `file_do_write`: `WithFirst`, `Rewind`,
`Forward`, then one sector at a time, with `NextCluster` at each boundary. `Cut` is
`file_truncate` up to the flush at its end. A create is `CreateOver` or
`CreateNew`, and both empty the file before they look for a slot.

`FileStore` knows paths, contents, positions and which files are `unsaved`.
`StoreSpec` maps each path to the sectors its chain leads to. It says that a call
changes no file but its own, that an overwrite in the middle keeps the rest, that a
truncation keeps the front, that renaming keeps the contents, and that a power
failure changes unsaved files only. `ReadsBack` adds that reads give these contents.

A sector is the unit: the read-modify-write of part of a sector is left out, and so
are time stamps, attributes, failing disk transfers, and the growth of
directories (their own clusters are not in the model). Handles that share a slot are
the matter of `Handles`. What other readers of the FAT do to the cache, 36h does too.

Two things programs do here that the code does not force on them, because without
them it promises nothing:
* a file is opened for writing once (`OpenModes`: deny all for writers, deny write
  for readers; a create refuses a file that is open). Two compatibility-mode
  entries for one file, which `share_mode_compat` allows, keep separate sizes
  and cursors, and the second to be flushed wins;
* files are deleted and renamed only while closed (`Careful`). `files_unlink` drops
  this and shows that nothing in the code sees to it.

### Dirs

The tree of one volume with empty files. `dir[d]` is the sequence of slots of a
directory in front of the end marker: `Entry`, long-name `Piece` with ordinal and
checksum, or `Del`. `owner` says which chain a cluster is in; the root has a fixed
size. The long name an entry shows is assembled as `fat_dir_next_lfn` does
(`LongName`: the last run that starts in front of it, if nothing breaks it), so an
orphan run that could attach itself to a later entry would show. Each slot carries
as history the long name it was *given*; `NamesSound` compares the two. The checksum
does not tell an orphan run from a live one when an 8.3 call makes the very alias the run
belongs to: `NamesSound` is checked and proved without such calls (`~AliasNames`), and
the deviations below say what they do.

Searches (`search`) are an index into a directory and a pattern: `Memory` stands for
a DTA or an FCB, the others are the find handles of 714Eh. `todo` is the history: the
matching entries that were there when the search began and have not moved since.
Short-name, FCB and long-name forms of a call are separate actions because they
differ: 41h, 13h and 56h leave long-name slots behind, 71xxh delete them; 56h keeps
the slot within one directory and 7156h never does; 17h takes the entries one after
another, each against what the former have left.

Left out or switched by constants: `AliasNames` (8.3 calls that make names BASE~n by
themselves), `DotNames` (a path that ends in "." or "..": 39h, 3Ah, 56h and others take these like
any name), `MovesAnywhere` (7156h of a directory
to another one, 56h of a directory below itself), searches in a directory that has been removed (they read clusters that
belong to something else), `alloc_run` in FAT32 roots, what happens after 999 aliases.

### Disk

The unit is the sector, `<<volume, lba>>`. A call is a sequence of transfers and a BIOS
try is a step (`Succeeds`, `Retries`, `GivesUp`). A failed write leaves the old sector, the
new one or a torn one; a failed floppy read leaves its buffer torn, a hard disk read
does not touch it, as in the two functions of `disk.c`. `latest` is the history of what
was last written, through whatever path; a sector whose write failed is `Unknown`.
Left out: the second copy of the FAT, `fat_write_ext` (nothing calls it), `fat_set` after
a failed load (the function has no result: the update is lost and the caller goes on).

### Int21

One call is several steps, because keys and breaks arrive by interrupt between them:
`int21_dispatch`, then `break_check` with its two ways to find a break, `GetKey`,
`Swallow`, `f06_direct`, `f0c_flush`, then `int21_epilogue`, which returns to the program
or to its INT 23h handler (`int21_break`). `KeyPress` and `int1b_entry` are the
interrupts. Programs are a chain of processes; `vec` and `saved` say whose INT 23h handler
is installed and which one each PSP has saved. `keyed`, `signalled` and `how` are
histories. A handler makes no call that looks for a break itself, residents do not
run again here (`Handles` has them), and echo, backspace and the bell are left out.

### Shell

`frames` are the nested calls of `run_batch`, `at` the place in the command under way.
Files exist or not, transfers fail or not, programs are found or not: chosen.
The environment is the block of bytes and `env_set` what the code does to it; `wanted`
is the history of what was set. Findings that the model takes as given: SET of a value
that does not fit loses the old value as well (`SetWanted` says so), a break that aborts
a program does not stop the batch file that started it, `env_init` does not check the
length of what it copies, COPY of a file onto itself empties it, and COPY and DEL do
not look at the flag between files. `SettingsAssumption` says what names, values and inherited lists are;
TLC evaluates it for the instance.

### Mouse

One axis. `Packet` is the interrupt; the functions of INT 33h run with interrupts
off and are one step each. `screen` is video memory with the saved cell, `page` what
programs have written: they write while the cursor is hidden, as they must,
and change the video mode while it is not drawn. Left out: buttons, motion counters
and the user's handler, which is not cleared when its process ends.

## 3. The runs

| Run | Question | Bounds, and why they are enough |
|---|---|---|
| `mcb` | chain whole, coalesced, and an implementation of `MemMap` | 7 paragraphs, two owners, sizes 0-4: up to three allocated blocks with free blocks of size 0, 1 and more between, so every combination of neighbours of a split or merge occurs; free and resize are tried on every segment, header or not. The view drops `ret`, which no action reads |
| `process` | EXEC undoes itself, nothing belongs to the dead, programs fit, memory is given back | 10 paragraphs, a PSP of 1, five program files (.COM that fits and does not, .EXE with maximum 0, with a maximum, truncated): nesting three deep, resident programs below and above, EXEC failing at each point |
| `handles` | counts exact, boot devices stay, sharing respected, locks disjoint and owned, others undisturbed | two processes, two slots beyond the boot devices, two files (one read-only), three open modes that clash and agree, two overlapping regions, two locks. Two of each is what the properties relate |
| `xms` | blocks disjoint, walks sound and finite, answers exact, locked blocks stay | three handles over 5 KB, sizes 1-3, lock count saturating at 2, with and without the EMS block: all orders of bases against handles |
| `ems` | runs disjoint, maps live, pages keep their contents | two handles, two windows, three pages, one value to write, one handle that saves maps. The view drops the contents of windows that show nothing, which no action reads |
| `files` | chains whole and disjoint in the kernel and on disk, cursors right, a store of files implemented | two directories of one entry, two names, two slots, two clusters of two sectors in different FAT sectors, two sectors per transfer, one value to write (told apart from what a cluster held before), seeks to sector 1, files of up to five sectors: chains of both orders, transfers that start in, end at and cross a cluster boundary, writes past the end, full disk at the first and the second cluster, full directory, no free slot, power failure anywhere. Names and directories are symmetric: the code only compares them |
| `dirs` | names unique and each its own (without 8.3 calls that make aliases), one tree, searches miss nothing | a root of five slots and two clusters of three slots, so directories one and two deep, that grow or cannot; two long names that share an alias base, of one and two slots, one short name; at most two named entries, three long-name and three deleted slots: runs of every length in front of an entry, complete, orphaned, cut and taken over; one search at a time that finds at least two entries, with two changes of the tree while it is under way. Searches run without directories among the matches |
| `disk` | no path to a sector is stale, calls end | a floppy with FAT12 and a disk with two FAT sectors, one data sector each of the same number, one value, two tries, one failing call: every pair of caches holds the same sector, clean and dirty |
| `console` | flags belong to their call, a break is reported once, a Ctrl-Break wakes | a letter, CR, ^C and a function key, a keyboard buffer of two words, three nested processes, two breaks: a break before, in and after each step, with a key in front of it, in a program whose parent has another handler |
| `shell` | a break abandons the job, no file stays open, SET and SETVER exact | two batch files that call each other up to a depth of three, two variables of which one begins like the other, in a block of 12 bytes that they can fill exactly or exceed, three programs for two version entries |
| `mouse` | no trace on the screen, the cursor is where the pointer is | two cells of two pixels, ratios 8 and 16, positions 0 and 3, the count down to -2: every edge between cells from both sides, with remainders of both signs |
| `files_unlink` | violation: an open file is deleted | as `files`, without `Careful` |

Properties that belong together are one definition with a part for each: `RefcountExact`
includes types and the boot devices, `LocksSound` that locks are disjoint and that each
has an owner and an open file, `RunsExact` the types of EMS.

Deadlock is checked but in three runs. In `handles` a resident program can hold
every slot, the kernel can then start no further shell, and nothing is left to do. In
`dirs` the bounds on entries and on changes during a search, in `console` those on
breaks and keys (a call waits for a key that the bounds do not allow), stop the model
where the system would go on.

Names of bounds: `MaxReq`, `Images`, `EnvParas`, `Owners` (Mcb, Process), `OpenModes`,
`Regions`, `UserH`, `Psps` (Handles), `Kb`, `EmsKb` (Xms), `Values`, `Savers`
(Ems), `Vals`, `Counts`, `Positions`, `MaxSecs` (FileIO), `ShortNames`, `Attributes`, `MaxEntries`,
`MaxPieces`, `Patterns`, `Searching`, `MinFound`, `MaxDuring`, `Masks` (Dirs), `Values`, `MaxFailed`
(Disk), `MaxDepth`, `MaxBreaks` (Int21), `Typed`, `Variables`, `Programs`, `Inherited` (Shell),
`Moves`, `Ratios`, `Points`, `Attributes` (Mouse) limit the inputs; the sizes of tables and the
byte and word limits (`RefMax`, `CountMax`, `Word`, `MinVisible`, `Tries`, `BATCH_DEPTH`,
`EnvSize`, `SETVER_MAX`, `KbdSize`) are parameters with the code's value in the code and a
small one where the limit is to be reached. `RefMax` stays at 255 and is not reached.

Fairness: `Xms!FairSpec`, weak fairness on the turns of the walk, since nothing else
runs while the driver does; `Int21!ConsoleSpec`, on `KernelStep`: the processor goes on with the
call it is in, interrupts or not (a key need never come); `Disk!Spec`, on `floppy_io`:
the BIOS answers every try. No other module claims that anything happens.

### Known deviations

Where the code does what it does not say, or what no client will expect. Most are kept out of the
runs by a constant or a bound, which can be set to see them.

| What | Where | In the models |
|---|---|---|
| An open file can be deleted and renamed; `share_conflict` is documented to guard both | `file.c:1111`, comment `file.c:356` | `files_unlink` |
| `share_file_closed` drops all locks on a file when *any* entry on it is closed for the last time, EXEC included, though it is documented for the last reference to the file | `share.c:102`, `file.c:196` | `ClosedFiles` does it; `LocksSound` says no more than that locks are owned |
| Device entries stay at one reference for ever: right for the boot devices, a leak for those opened by name | `file.c:190` | `sft_release` |
| A region whose end wraps past 2^32 overlaps nothing | `share.c:36` | `Regions` end below `Word`; `NoWrap` in the proofs |
| XMS: a zero-length block, which 09h hands out, shares its base with another. Growing (0Fh) then misses a neighbour and the walks do not end | `xms.c:439`, `xms.c:139` | add 0 to `Kb` |
| EMS 48h and 4Eh load each window before later ones are flushed: a page moved between windows is lost | `ems.c:321` | `Reshuffle` |
| EMS 51h does not look at the windows: a page that was cut off is flushed over another's | `ems.c:431` | `DropMapped` |
| Ctrl-2 has the key word 0300h: its second half, scan code 3, is taken for ^C, though the comment says that a pending scan code never is one | `console.c:136` | not among `Keys` |
| A Ctrl-Break between the halves of an extended key leaves the second half to the next reader | `int21.c:44` | `SplitBreak` |
| An orphan run of long-name slots is told by the checksum alone. 716Ch makes a long name with the alias LONG~1, 41h LONG~1 leaves its run, 3Ch (39h, 56h, 17h) LONG~1 takes the deleted slot behind it, the checksum is right, and the new entry goes by the dead long name, though the comment says "Deleted and orphaned slots are skipped" | `fat.c:670`, comment `fat.c:610` | `AliasNames`: with it TLC finds `NamesSound` violated (with `MaxCluster = 4` in these steps) |
| "." and ".." are taken as the last component of a path: 39h makes an entry "." in the root, 3Ah and 56h remove, rename and move the entries "." and ".." of directories | `fat.c:1049`, `file.c:1139`, `file.c:1207`, `file.c:1260` | `DotNames` |
| A lock count of XMS saturates: after more than 255 locks, 255 unlocks leave a block free to move that clients still use | `xms.c:378` | `CountMax`; `LockedStay` speaks of the count |
| 7156h of a directory to another one leaves its ".." as it was | `lfn.c:689` | `MovesAnywhere` |
| 56h moves a directory below itself when asked to: it is then cut off from the root | `file.c:1167` | `MovesAnywhere` |
| When the FAT12 table cannot be read back after INT 26h, its cache is stale and clean | `fat.c:1202` | `ReloadFails` |
| The visible count of the mouse is a signed byte: hidden 128 times it is 127, and the cursor shows | `mouse.c:250` | `Wraps` |
| Orphaned long-name slots keep a directory from being removed; 7139h on a full disk leaves some | `fat.c:612` | in `Dirs`, no property |
| Find handles are not freed when their process ends | `lfn.c:291` | searches end by `Forget` |
| Hours, minutes and seconds are read in two BIOS calls | `clock.c:102` | not modelled |

## 4. The proofs

`XmsProofs` holds for every number of handles, pool and limit. From the
assumptions of `Xms` alone: `TypeCorrect` (`TypeOK`) and `LockedBlocksStay`
(`LockedStay`, which needs that a walk of 09h still finds a free handle at its end,
`HandleLeft`). From `0 \notin Kb`, that clients ask for positive sizes:
`NoSharedMemory`, `WalksSound`, `AllocationExact`, `QueryIsExact`; they fail without it.

None of these is inductive. `IInv` adds
* `Solid`, every block has a positive size;
* `Reached`, a walk stands at the start of the pool or *just behind a block*, with
  no block across. The second half is what makes the walk complete: a run of free
  KB cannot reach across such a position (`RunStays`), so a walk that found no room
  in front of the next block has missed nothing when it goes behind it
  (`NoGapBehind`), and at the end nothing at all (`NoGapToEnd`);
* `AllocSoFar` and `QuerySoFar`, what 09h and 08h know of the pool below: for 08h also
  that its sum is the number of free KB passed, since the gap in front of the next block
  adds its width (`GapCounted`) and the block behind it nothing (`BlockNotCounted`).

The pool changes in two lemmas: `FoundPool` (the new block lies in the gap that
was checked) and `ChangePool` (a resize stays within what `Behindroom` allows;
positive sizes make "behind" unambiguous). `Extremum` supplies the existence of
the elements that `CHOOSE` picks.

The part of `ProcessProofs` about `Mcb` holds for every arena, set of owners and request size. `ChainKept` and
`FreeMerged` state `[](TypeOK /\ ChainOK)` and `[]NoAdjacentFree`. The three are inductive only
together: `mcb_resize` finds its header before it merges and is right because there
is nothing left to merge (`CoalesceNothing`), and `mcb_alloc` splits a free block
without merging, which keeps free blocks apart only if they were. The work is in
`CoalesceChain`: one pass of `mcb_coalesce` over any whole chain yields a whole
chain without free neighbours.

`ChainImplementsMap` is the refinement of `MemMap`. `Blocks` is what the callers see of a
chain, the allocated headers; merging does not change it (`CoalesceBlocks`), and each
operation has a lemma that says what it does to it. That refusals are true needs the other
direction: a place without blocks lies in one free block, because free neighbours are
merged (`RoomIsFit`, `FitIsRoom`, `LargestIsLargest`), and what 4Ah can give is the block
and the free one behind it (`RoomIsAvail`).

The rest puts EXEC, termination and 31h on top, if the owners include every segment
of the arena and the two temporary ones (`OwnersFit`). A merged chain is determined by its
allocated blocks (`BlocksCanonical`): so an EXEC that fails restores the chain header by
header once it has restored the blocks (`ExecIsAtomic`, whose second half also needs
`HeadersSane`: sums of an .EXE header below 64K paragraphs, no maximum below the minimum).
Its `IInv` says that every block has a live owner (`Held`), that a process waits for
one child at most (`Parents`), and how the chain at the start of each program follows from the
one at the start of its parent (`Past`); the last carries `ChildrenNeutral` through
any depth of nesting. `ForeignBlocksKept` and `OwnersLive` come out of the same steps.

`HandlesProofs` is about any number of slots, files and processes for which
`CountsFit`: all handles of all processes and the kernel's own are fewer than `RefMax`,
so that no count saturates (20 handles and 255 in the code: up to 12 processes with open
handles on one slot). `CountsExact`, `ModesRespected`, `LocksOwned` and `OthersKept` rest on one
invariant, `IInv`, of four parts: `Sound` (the count of a slot is the number `N` of
entries of the job file tables that name it, the kernel's row counted with the boot
devices), `Shared` (modes compatible pairwise), `Tree` (a process waits for at most one child
and a running one for none, so that what terminates is never somebody's parent) and
`Locked` (each lock has a live owner and an open file). The counting is in a few lemmas on
cardinalities: `EntryChanged` (one entry of one table changes), `RowMore` (a table more)
and their like; EXEC and termination are built from them. `OthersKept` is an action property: it
follows from the invariant on both sides of the step. `LocksOwned` needs `NoWrap`.

`ServiceProofs`, on the console: `FlagsBelong` for any keys, depth and number of breaks. `HandlersSound` lacks that
`break_abort` is up exactly on the way from a handler that aborts to the end of
its program: `Flags` adds that, `Vector` the types of `vec` and `saved`.

`BreaksCounted` needs two things to be kept out, both deviations listed above: a key whose second
half reads as ^C or whose word is the one for Ctrl-Break (`PlainKeys`: the scan code of a key whose
character is 0 or E0h is neither 0 nor 3), and a
Ctrl-Break between the halves of a key (`~SplitBreak`). Its invariant `Breaks` is an account:
what was keyed is at least what was signalled, plus the words for ^C and Ctrl-Break that
wait in the keyboard buffer, plus one if the latch is up, plus one if the step under way has taken the
word for Ctrl-Break (place `drop`) or is about to (`take`): `Account`. Each step moves a break from one place to
another; the sums over the buffer are the lemmas `CtrlsAppend` and `CtrlsTail`.

`BreakEndsJob` and `NoFileLeft` are about the shell, with any batch files. `ShellInv` ties the file
that is open to the place in the command under way, `batch_depth` to the number of
calls of `run_batch`, and says that commands that have begun since the flag went up are none, or
one that is still running.

`SettingsKept` is about any names, values, programs, sizes of block and table. It rests on
`SettingsAssumption`: a name of a variable has no "=", no byte of a name or value is NUL, and a shell is started
with strings NAME=value, one of a name, which `env_init` takes as they come. `Laid(b, m, place, e)` says
what the block `b` is: the strings of the variables that `m` gives a value lie side by side, none across
another, and fill `b` up to `e`, where the empty string ends the list. From it follow where strings start (`StartsAre`),
that a name is found at its string only, also one that begins like another (`MatchesAre`), what is read
(`GetIs`) and the bytes in use, by a bijection between the bytes of the strings and the places in front of `e`
(`TotalIs`). `CloseUpIs`, `RemovedIs`, `AddedIs` and `SetIs` carry it through the parts of `env_set`; the loop that
removes strings is a recursive function, reached step by step as `MapAll` below. `TableInv` is the same for the
version table: a program has one entry at most, and it says what was said last.

`ServiceProofs`, on EMS, holds for any number of handles, windows and pages. `RunsAgree` has no hypothesis
beyond the sizes: `Tables` adds that the run of each handle is exactly the set of pages it owns,
from which the count of pages in use follows by cardinality (`Counted`). `WindowsLive` and `ContentsKept`
exclude what the driver does not survive (`DropMapped`, `Reshuffle`, see the deviations). `Maps`
says that a window is mapped to a page of a live handle, that no two windows are mapped to one page, and
that a saved map names live pages. `MapAll`, the loop over the windows, is a recursive function; its
values are reached step by step: `RepeatedSteps` of `Extremum` says that values computed
one after the other exist, as the list the steps make, and a property of a memory that each
copy keeps (`Faithful`: each page is told by its window or its backing page as before) holds of
every element of the list (`UptoSteps`, `MapAllFaithful`).

`DriverProofs`: `NothingStale` for any volumes, sectors, tries and failures, if the FAT can be
read back after INT 26h (`~ReloadFails`). `LatestSeen` speaks of idle moments; `Seen` says of
every step that each copy is current except the one in flight, `Place` which steps a call
can be at, `Flushed` which caches are clean by then. A raw transfer finds both FAT
caches clean, which is what the commit in front of it is for. `NoTrace` and `DrawnAtPointer` (the mouse)
for any screen, ratios and movements, as long as
the visible count does not wrap (`~Wraps`). The invariant adds that the state 17h puts
back hides the cursor as well, and that a drawn cursor is in a text mode.

`FileIOProofs`: `FilesAreSound`, `DiskIsSound`, `ReadsAreBack`, `ShortWritesFill` and `ClustersKept`,
for any sizes of volume, clusters, FAT sectors, directories and tables. Two hypotheses:
* `Careful`: open files are neither deleted nor renamed, which the code does not see to (deviations
  above). Without it a slot leads to clusters that another file may take (`files_unlink`).
* `ExclusiveWriters`: of two opens that the sharing matrix admits together, neither writes, and no open
  is in compatibility mode, so that a file created by 3Ch is open once as well. Without it two entries
  for one file keep their own sizes and cursors, and the last flush wins: nothing in the properties
  is left to be true.

None of the properties is inductive. Chains may be disjoint today and run together tomorrow if a link
leads to a free cluster, so the invariant does not speak of chains but of links:
* `Linked`: a link leads to a cluster in use, and no two links lead to the same one. With it chains that
  begin at different first clusters never meet (`ChainsApart`) and end (`ChainEnds`);
* `Laid(T, F)`: the files `F` begin chains of their own in the table `T`, each long enough for its size.
  It holds twice in `FileInv`: of the kernel's table with the files as the slots have them (`Now`,
  the entry of a file unless a dirty slot knows better), and of the table on disk with the files as the
  entries have them. The second is `DiskSound`;
* `Behind`: what the disk lacks of the kernel's table is clusters not yet taken and links not yet set,
  never the reverse; and no link on disk leads to a cluster that is free there. It is said cluster by
  cluster, so in whatever order the cache writes its sectors. What a call has freed is on disk when
  it returns (`fat_commit`), before another can take it;
* `OpenRight`: a slot that is not dirty agrees with its entry, its cursor is the cluster of the chain
  that its position asks for (`Placed`), and `OneWriter`.

A transfer is a fold of steps on a record. `Moving` is the invariant of that fold: whatever was taken of
the volume is in the chain of this file, and if it stopped early nothing is free; `ShortWritesFill`
and `ClustersKept` follow from it. Freeing is a fold over the chain (`FreedTo`: the first k clusters are
free, the rest of the table is as it was). A step that changes one file and one chain
leaves the other files laid, since none of their clusters is touched (`Without`, `Grows`). `ReadsAreBack`
follows a read sector by sector: what has been read (`OnRead`) is the file from the position at which the read
began (`SectorAt`).

`FilesAreStored` is the refinement of `FileStore`, under the same two hypotheses: `Spec => StoreSpec`. `StoreInv`
adds to `FileInv` that a directory has no name twice (`NamesApart`), since the store knows files by their paths
and the code by their entries. The mapping is compared place by place (`FilesAre`, `HandlesAre`,
`UnsavedAre`). The step that takes work is the write: what it makes of its own file is the old contents with
the sectors written put in, behind the old end whatever the new clusters held; and no sector
of another file is touched, since no cluster of its chain is. A power failure takes the unsaved files back to
what their entries say, which may be longer, shorter or gone.

`DirsProofs`: `DirsNamesSound`, `DirsTreeSound`, `DirsScansComplete`, for any volume, names, patterns and number of
searches. Two hypotheses:
* `Plain`: the three constants for behaviours the code does not survive are off (deviations above: 8.3 calls make no
  names BASE~n by themselves, no path ends in "." or "..", 7156h moves no directory to another one and 56h none below
  itself);
* `EnoughAliases`: a base has as many aliases as there are long names that share it. The code has 999, and takes
  the last again when they are gone.

`Inv` says that the tree is one (`TreeOK`), the current directory is in it, and what each search still has to return lies
ahead of it (`AheadOf`), or its directory was removed. `NamesSound` alone is not inductive: what an entry shows
depends on slots in front of it that nobody owns. The invariant is `OwnRun`, the slots directly in front of an
entry with a long name are its own run, complete and in order, and names are unique as aliases and as long
names (`NamesIn`). What calls by short names leave behind may lie anywhere; a piece in front of somebody's own
run is stopped by the run's first piece, and in front of an entry without long name by the checksum, which is
that of an alias (hence `~AliasNames`: with it the checksum may match). For the tree, entries that lead to directories and the ".." of these agree in both
directions, and no set of directories leads only back into itself (`NoLoops`): what a move keeps, as long as
it does not go below the directory that is moved.

Only model-checked: liveness (`CallsReturn`, `CallsEnd`, `BreakWakes`), which is out of the prover's reach. Every
invariant and every other action property of a run that passes is stated by a theorem.

## 5. Not modelled, and what is left

Not modelled, and why:
* clock, boot sectors, kernel start, helpers, utilities: conversions without state, sequential
  loaders that run once, programs that only use the kernel;
* contents of PSP and environment of programs, relocation: data no property tells apart;
* file I/O through FCBs: calls of the handle layer with positions kept by the program;
* reports (36h on FAT32 apart, see the hazards; 714Eh data, 7160h, 71A0h), time stamps;
* mounting and geometry: done once, before any call;
* the second copy of the FAT and partial sectors.

Left, in this order:
1. The writes of one flush as separate steps with a power failure between them (the entry is
   written before the FAT), by joining `FileIO` and `Disk`.
2. Two entries for one file: what compatibility mode can promise.
3. Residents that run again inside `Int21`, with the second InDOS call they must not make.
