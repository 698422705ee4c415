------------------------------ MODULE Process -------------------------------
(***************************************************************************)
(* Processes over the memory chain, src/kernel/proc.c: EXEC allocates an   *)
(* environment block and an image block under temporary owners and hands   *)
(* them to the process it makes, whose PSP segment is the address of the   *)
(* image block; a failure gives them back.  Termination frees everything   *)
(* the process owns; 31h keeps its blocks and shrinks the image block.     *)
(* Parents stand still until their child ends.  What EXEC and termination  *)
(* do to handles and locks is in module Handles.                           *)
(***************************************************************************)
EXTENDS Mcb

CONSTANTS PspParas,   \* paragraphs of a PSP: 16
          Word,       \* 2^16: paragraph counts are u16
          MinKeep,    \* paragraphs 31h keeps at least: 6
          Images,     \* bound of the model: program files EXEC may be given
          EnvParas    \* bound of the model: paragraphs of an environment

OWNER_SYSTEM == 8
OWNER_IMAGE  == 1

\* A program file: paragraphs to load, and for an .EXE the minimum and maximum
\* of paragraphs it wants behind them; a .COM loads its file and a word of stack.
\* bad when the file is cut short.
Exe(load, min, max, bad) ==
  [com |-> FALSE, load |-> load, min |-> min, max |-> max, bad |-> bad]
Com(load, bad) == [com |-> TRUE, load |-> load, min |-> 0, max |-> 0, bad |-> bad]

ASSUME SegmentsAssumption == First >= OWNER_SYSTEM
ASSUME FilesAssumption ==
  /\ PspParas \in Nat \ {0} /\ Word \in Nat \ {0} /\ MinKeep \in Nat /\ EnvParas \subseteq Nat
  /\ \A f \in Images : f.load \in Nat /\ f.min \in Nat /\ f.max \in Nat

VARIABLES parent,    \* PSP of a process that exists |-> PSP of its parent
          resident,  \* PSPs that ended with 31h
          cur        \* current_psp; 0 is the kernel, which starts the shell

VARIABLE origin      \* history: running PSP |-> chain and residents at its EXEC

procs == <<parent, resident, cur, origin>>
allvars == <<mcb, ret, procs>>

Kernel  == 0
Procs   == DOMAIN parent
Without(f, x) == [y \in DOMAIN f \ {x} |-> f[y]]
With(f, x, v) == [y \in DOMAIN f \cup {x} |-> IF y = x THEN v ELSE f[y]]

Init ==
  /\ proc_init
  /\ parent = [p \in {} |-> Kernel]
  /\ resident = {}
  /\ cur = Kernel
  /\ origin = [p \in {} |-> [chain |-> mcb, resident |-> resident]]

----------------------------------------------------------------------------
\* 48h, 49h and 4Ah of the running program, on blocks of its own.  It does not
\* free the block it runs in, nor shrink it to less than its PSP.
Mine(block) == cur # Kernel /\ mcb_find(mcb, block) /\ mcb[block - 1].owner = cur

Alloc(n)         == cur # Kernel /\ f48_alloc(cur, n) /\ UNCHANGED procs
Release(block)   == Mine(block) /\ block # cur /\ f49_free(block) /\ UNCHANGED procs
Resize(block, n) ==
  Mine(block) /\ (block = cur => n >= PspParas) /\ f4a_resize(block, n) /\ UNCHANGED procs

----------------------------------------------------------------------------
\* EXEC, step by step, on the chain.
env_build(paras) == mcb_alloc(mcb, paras, OWNER_SYSTEM)

Need(f) == IF f.com THEN PspParas + 1 ELSE (PspParas + f.load + f.min) % Word
Want(f, largest) ==
  IF f.com THEN largest
  ELSE IF f.max = 0 THEN Need(f) ELSE PspParas + f.load + f.max

Take(f, largest) == IF Want(f, largest) > largest THEN largest ELSE Want(f, largest)

\* A .COM takes what there is and is refused when that is too little.
TooLarge(f, take) == f.com /\ PspParas + f.load > take

\* The image is read into the block, unless it is cut short.
Loads(f, take) == ~TooLarge(f, take) /\ ~f.bad

\* Mutant: the image block alone is given back.
KeepsEnv(c, psp, env) == mcb_free(c, psp)

\* The failure path: what has been allocated is freed, the image block first.
FailPath(c, psp, env) == mcb_free(mcb_free(c, psp), env)

\* Mutant: the environment stays with the temporary owner.
HandOverImage(c, psp, env) == mcb_set_owner(c, psp, psp)

HandOver(c, psp, env) == mcb_set_owner(mcb_set_owner(c, psp, psp), env, psp)

Fail(c, code) ==
  /\ mcb' = c
  /\ ret' = Answer("4B", 0, 0, FALSE, code, 0)
  /\ UNCHANGED procs

f4b_exec(f, paras) ==
  IF Fits(mcb, paras) = {} THEN Fail(mcb, 8)
  ELSE LET env     == FirstFit(mcb, paras) + 1
           c1      == mcb_coalesce(env_build(paras))
           largest == mcb_largest(c1)
           take    == Take(f, largest)
       IN IF largest < Need(f) \/ Fits(c1, take) = {} THEN Fail(mcb_free(c1, env), 8)
          ELSE LET psp == FirstFit(c1, take) + 1
                   c2  == mcb_alloc(c1, take, OWNER_IMAGE)
               IN IF ~Loads(f, take)
                  THEN Fail(FailPath(c2, psp, env), IF TooLarge(f, take) THEN 8 ELSE 11)
                  ELSE /\ mcb' = HandOver(c2, psp, env)
                       /\ ret' = Answer("4B", psp, f.load + f.min, TRUE, 0, 0)
                       /\ parent' = With(parent, psp, cur)
                       /\ origin' = With(origin, psp, [chain |-> mcb, resident |-> resident])
                       /\ cur' = psp
                       /\ UNCHANGED resident

\* The process that proc_unwind returns to.
proc_unwind == parent[cur]

\* 4Ch
proc_terminate ==
  /\ cur # Kernel
  /\ FreeOwner(cur)
  /\ parent' = Without(parent, cur)
  /\ origin' = Without(origin, cur)
  /\ cur' = proc_unwind
  /\ UNCHANGED resident

\* 31h: an error of the resize is ignored.
f31_tsr(paras) ==
  LET keep == IF paras < MinKeep THEN MinKeep ELSE paras
  IN /\ cur # Kernel
     /\ f4a_resize(cur, keep)
     /\ resident' = resident \cup {cur}
     /\ origin' = Without(origin, cur)
     /\ cur' = proc_unwind
     /\ UNCHANGED parent

ProcNext ==
  \/ \E n \in 0..MaxReq : Alloc(n)
  \/ \E b \in First..Top : Release(b)
  \/ \E b \in First..Top, n \in 0..MaxReq : Resize(b, n)
  \/ \E f \in Images, e \in EnvParas : f4b_exec(f, e)
  \/ proc_terminate
  \/ \E n \in 0..MaxReq : f31_tsr(n)

ProcSpec == Init /\ [][ProcNext]_allvars

----------------------------------------------------------------------------
ProcTypeOK ==
  /\ TypeOK
  /\ Procs \subseteq First..Top
  /\ \A p \in Procs \ resident : parent[p] \in (Procs \ resident) \cup {Kernel}
  /\ resident \subseteq Procs
  /\ cur \in (Procs \ resident) \cup {Kernel}
  /\ DOMAIN origin = Procs \ resident

\* Every block that is not free belongs to a process that runs, waits for a
\* child or is resident, and each of those still has the block it is named
\* after: nothing is left to the temporary owners of EXEC or to the dead, whose
\* segment the next process may get, and no two processes get one segment.
BlocksOwned ==
  /\ ProcTypeOK
  /\ \A m \in DOMAIN mcb : mcb[m].owner \in Procs \cup {OWNER_FREE}
  /\ \A p \in Procs : mcb_find(mcb, p) /\ mcb[p - 1].owner = p

\* An EXEC that fails, at whichever point, leaves the chain as it found it; a
\* program that EXEC starts got a block with room for its PSP, what it loads
\* and the minimum it asks for behind that.
ExecResult ==
  /\ ~ret'.ok => mcb' = mcb
  /\ ret'.ok => mcb'[ret'.seg - 1].size >= PspParas + ret'.n
ExecAllOrNothing == [][ret'.fn = "4B" => ExecResult]_allvars

\* No call of a program, and not its end, changes a block of another process.
ForeignUntouched ==
  \A m \in DOMAIN mcb : mcb[m].owner \notin {OWNER_FREE, cur} =>
    /\ m \in DOMAIN mcb'
    /\ mcb'[m].owner = mcb[m].owner
    /\ mcb'[m].size = mcb[m].size
BlocksKept == [][ForeignUntouched]_allvars

\* A child that ends leaves its parent the memory map it was started with,
\* header by header, unless a program under it has stayed resident.
Restored ==
  Procs' = Procs \ {cur} /\ cur # Kernel /\ resident = origin[cur].resident
    => mcb' = origin[cur].chain
MemoryNeutral == [][Restored]_allvars
=============================================================================
