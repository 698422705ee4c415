-------------------------------- MODULE Int21 --------------------------------
(***************************************************************************)
(* The console calls of INT 21h (int21.c, the cooked read of file.c), the  *)
(* keyboard below them (console.c), and the way of a break: Ctrl-C and     *)
(* Ctrl-Break are noticed inside a call, and answered in the epilogue of   *)
(* the entry stub (startup.asm), where the INT 23h handler goes on or      *)
(* aborts the program.  Keys and Ctrl-Break arrive by interrupt between    *)
(* any two steps.                                                          *)
(*                                                                         *)
(* Programs are a chain of processes 1..depth, 1 the shell; handler p of   *)
(* INT 23h belongs to process p, 0 is the kernel's own.  What a handler    *)
(* does is chosen; it makes no call that looks for a break itself.         *)
(***************************************************************************)
EXTENDS Integers, Sequences

CONSTANTS Keys,        \* key words <<scan code, character>> that are typed
          KbdSize,     \* words in the BIOS buffer
          MaxDepth,    \* bound of the model: nested programs
          MaxBreaks,   \* bound of the model: breaks that are keyed
          SplitBreak   \* TRUE: Ctrl-Break also between the halves of a key

ASSUME Int21Assumption ==
  /\ Keys \subseteq (0..255) \X (0..255)
  /\ KbdSize \in Nat \ {0} /\ MaxDepth \in Nat \ {0} /\ MaxBreaks \in Nat
  /\ SplitBreak \in BOOLEAN

VARIABLES
  kb,              \* the BIOS keyboard buffer, oldest key first
  pending_scan,    \* scan code of a key whose 0 has been delivered, or 0
  ctrl_break_hit,  \* latched by INT 1Bh
  int23_pending,   \* the epilogue has to call INT 23h
  break_abort,     \* the 4C00h under way is a Ctrl-C exit
  indos_flag,
  cpu,             \* at: where the processor is; fn: the call; al: its result
  leftover,        \* line_pos < line_len: a cooked line is only read in part
  depth,           \* processes in the chain
  vec,             \* owner of the INT 23h vector
  saved,           \* saved[p]: the vector in the PSP of process p
  last_exit,       \* AH of 4Dh: 0 normal, 1 Ctrl-C, 3 resident
  how,             \* history: how the last process really ended
  keyed,           \* history: breaks keyed
  signalled        \* history: breaks reported to INT 23h

kbd   == <<kb, pending_scan>>
chain == <<depth, vec, saved, last_exit, how>>
console_vars ==
  <<kb, pending_scan, ctrl_break_hit, int23_pending, break_abort, indos_flag, cpu, leftover,
    depth, vec, saved, last_exit, how, keyed, signalled>>

Char(k) == k[2]
Scan(k) == k[1]
BreakWord == <<0, 0>>   \* what the BIOS puts into the buffer for Ctrl-Break
CtrlC     == 3
CR        == 13

Checked == {"char", "line", "read", "status", "output"}  \* 01h 08h, 0Ah, 3Fh, 0Bh, 02h 09h
Calls   == Checked \cup {"raw", "direct", "flush"}       \* 07h, 06h, 0Ch
Subs    == {"char", "direct", "raw", "line"}             \* what 0Ch goes on with

----------------------------------------------------------------------------
\* console.c
con_kbhit == pending_scan # 0 \/ kb # <<>>

\* The next key, <<-1, -1>> for FFFFh.
con_peek == IF pending_scan # 0 THEN <<pending_scan, 0>>
            ELSE IF kb # <<>> THEN Head(kb) ELSE <<-1, -1>>

\* What con_getc returns, and what it leaves.
Got == IF pending_scan # 0 THEN pending_scan
       ELSE IF Char(Head(kb)) = 224 THEN 0 ELSE Char(Head(kb))

con_getc ==
  IF pending_scan # 0 THEN pending_scan' = 0 /\ UNCHANGED kb
  ELSE /\ kb # <<>>
       /\ kb' = Tail(kb)
       /\ pending_scan' = IF Got = 0 THEN Scan(Head(kb)) ELSE 0

Go(at) == cpu' = [cpu EXCEPT !.at = at]
Finish(al) == cpu' = [cpu EXCEPT !.at = "return", !.al = al]

Quiet == UNCHANGED <<break_abort, indos_flag, leftover, keyed>> /\ UNCHANGED chain

break_signal ==
  /\ int23_pending' = TRUE
  /\ signalled' = signalled + 1
  /\ Finish(CtrlC)
NoSignal == UNCHANGED <<int23_pending, signalled>>

----------------------------------------------------------------------------
\* break_check, at the start of a call ("check") and after a key that gave
\* 0 ("zero"); Past is where the call goes on when there is no break.
Past == IF cpu.at = "check"
        THEN CASE cpu.fn \in {"char", "line", "read"} -> "get"
               [] OTHER -> "return"
        ELSE IF cpu.fn = "char" THEN "return" ELSE "swallow"

HeadIsCtrlC == con_peek[2] = CtrlC

ClearLatch == ctrl_break_hit' = FALSE

break_check ==
  /\ cpu.at \in {"check", "zero"}
  /\ \/ ctrl_break_hit /\ ClearLatch /\ Go("drop")
     \/ ~ctrl_break_hit /\ HeadIsCtrlC /\ Go("take") /\ UNCHANGED ctrl_break_hit
     \/ ~ctrl_break_hit /\ ~HeadIsCtrlC /\ Go(Past) /\ UNCHANGED ctrl_break_hit
  /\ NoSignal /\ Quiet /\ UNCHANGED kbd

\* Mutant: the word of Ctrl-Break stays in the buffer.
WordStays == UNCHANGED kbd

DropWord == IF con_peek = BreakWord THEN con_getc ELSE UNCHANGED kbd

\* The rest of it after a Ctrl-Break, and after a Ctrl-C.
DropBreak ==
  cpu.at = "drop" /\ DropWord /\ break_signal /\ Quiet /\ UNCHANGED ctrl_break_hit
TakeCtrlC ==
  cpu.at = "take" /\ con_getc /\ break_signal /\ Quiet /\ UNCHANGED ctrl_break_hit

----------------------------------------------------------------------------
\* int21_dispatch: the flag goes up and the call begins.  0Ah with a buffer
\* of no characters, 3Fh of none or of a line read in part, 06h that writes
\* and 0Ch with another function return at once.
Begin(fn) ==
  CASE fn \in {"char", "status", "output"} -> {"check"}
    [] fn = "line"   -> {"check", "return"}
    [] fn = "read"   -> IF leftover THEN {"return"} ELSE {"check", "return"}
    [] fn = "raw"    -> {"get"}
    [] fn = "direct" -> {"poll", "return"}
    [] fn = "flush"  -> {"flush"}

int21_dispatch(fn) ==
  /\ cpu.at = "user" /\ depth > 0
  /\ \E at \in Begin(fn) :
       /\ cpu' = [at |-> at, fn |-> fn, al |-> -1]
       /\ leftover' \in IF fn = "read" /\ leftover THEN BOOLEAN ELSE {leftover}
  /\ indos_flag' = TRUE
  /\ UNCHANGED <<ctrl_break_hit, break_abort, keyed>>
  /\ NoSignal /\ UNCHANGED kbd /\ UNCHANGED chain

\* A key that is waited for.  The line input functions go on until CR.
Unfinished(fn) == fn \in {"line", "read"}

\* Mutant: line input swallows what follows any 0.
ZeroUnchecked(fn) == IF Unfinished(fn) THEN "swallow" ELSE "zero"

\* Where a call goes with a key that gave 0.
AfterZero(fn) == "zero"

GetKey ==
  /\ cpu.at = "get"
  /\ con_getc
  /\ IF cpu.fn = "raw" THEN Finish(Got) /\ NoSignal
     ELSE \/ Got = CtrlC /\ break_signal
          \/ Got = 0 /\ cpu' = [cpu EXCEPT !.at = AfterZero(cpu.fn), !.al = 0] /\ NoSignal
          \/ /\ Got \notin {CtrlC, 0}
             /\ IF Unfinished(cpu.fn) /\ Got # CR THEN Go("get") ELSE Finish(Got)
             /\ NoSignal
  /\ leftover' \in IF cpu.fn = "read" /\ Got = CR THEN BOOLEAN ELSE {leftover}
  /\ UNCHANGED <<ctrl_break_hit, break_abort, indos_flag, keyed>> /\ UNCHANGED chain

\* The scan code of an extended key is swallowed by line input.
Swallow ==
  /\ cpu.at = "swallow"
  /\ con_getc
  /\ Go("get")
  /\ NoSignal /\ Quiet /\ UNCHANGED ctrl_break_hit

f06_direct ==
  /\ cpu.at = "poll"
  /\ IF con_kbhit THEN con_getc /\ Finish(Got) ELSE UNCHANGED kbd /\ Finish(0)
  /\ NoSignal /\ Quiet /\ UNCHANGED ctrl_break_hit

f0c_flush ==
  /\ cpu.at = "flush"
  /\ IF con_kbhit THEN con_getc /\ UNCHANGED cpu
     ELSE /\ UNCHANGED kbd
          /\ \/ Finish(0)
             \/ \E sub \in Subs : \E at \in Begin(sub) : cpu' = [at |-> at, fn |-> sub, al |-> -1]
  /\ NoSignal /\ Quiet /\ UNCHANGED ctrl_break_hit

\* The epilogue: back to the caller, or to the INT 23h handler first.
int21_epilogue ==
  /\ cpu.at = "return"
  /\ indos_flag' = FALSE
  /\ int23_pending' = FALSE
  /\ Go(IF int23_pending THEN "handler" ELSE "user")
  /\ UNCHANGED <<ctrl_break_hit, break_abort, leftover, keyed, signalled>>
  /\ UNCHANGED kbd /\ UNCHANGED chain

KernelStep ==
  \/ break_check \/ DropBreak \/ TakeCtrlC
  \/ GetKey \/ Swallow \/ f06_direct \/ f0c_flush
  \/ int21_epilogue

----------------------------------------------------------------------------
\* int21_break: the handler returns by IRET or RETF (it goes on), or by RETF
\* with CF set (the program is aborted).  The kernel's own stub aborts; the
\* shell's aborts programs but not the shell (cstart.asm).
MayGoOn  == vec # 0 /\ (vec = 1 => depth = 1)
MayAbort == vec = 0 \/ (vec = 1 /\ depth > 1) \/ vec > 1

int21_break ==
  /\ cpu.at = "handler"
  /\ \/ MayGoOn  /\ Go("user")  /\ UNCHANGED break_abort
     \/ MayAbort /\ Go("abort") /\ break_abort' = TRUE
  /\ UNCHANGED <<ctrl_break_hit, indos_flag, leftover, keyed>>
  /\ NoSignal /\ UNCHANGED kbd /\ UNCHANGED chain

RestoreVector == vec' = saved[depth]

\* Mutant: the flag survives the program it was raised for.
KeepsAbort == UNCHANGED break_abort

ResetAbort == break_abort' = FALSE

proc_unwind ==
  /\ RestoreVector
  /\ saved' = [saved EXCEPT ![depth] = 0]
  /\ depth' = depth - 1
  /\ indos_flag' = FALSE
  /\ cpu' = [at |-> "user", fn |-> "none", al |-> -1]
  /\ UNCHANGED <<ctrl_break_hit, leftover, keyed>> /\ NoSignal /\ UNCHANGED kbd

\* 00h, 4Ch, INT 20h from the program or from its handler, and the 4C00h of
\* int21_break.
proc_terminate ==
  /\ depth > 0
  /\ cpu.at \in {"user", "abort"} \/ (cpu.at = "handler" /\ vec > 1)
  /\ last_exit' = IF break_abort THEN 1 ELSE 0
  /\ how' = IF cpu.at = "abort" THEN 1 ELSE 0
  /\ ResetAbort
  /\ proc_unwind

\* 31h
f31_tsr ==
  /\ depth > 0 /\ cpu.at = "user"
  /\ last_exit' = 3 /\ how' = 3
  /\ proc_unwind
  /\ UNCHANGED break_abort

\* 4Bh: the child's PSP keeps the vector.  The kernel (depth 0) starts the
\* shell, and starts it again when it ends.
f4b_exec ==
  /\ cpu.at = "user" /\ depth < MaxDepth
  /\ depth' = depth + 1
  /\ saved' = [saved EXCEPT ![depth + 1] = vec]
  /\ indos_flag' = FALSE
  /\ UNCHANGED <<ctrl_break_hit, break_abort, leftover, keyed, vec, last_exit, how, cpu>>
  /\ NoSignal /\ UNCHANGED kbd

\* 25h: a program takes the vector, or puts back what it found.
f25_setvect ==
  /\ cpu.at = "user" /\ depth > 0
  /\ vec' \in {depth, saved[depth]}
  /\ UNCHANGED <<ctrl_break_hit, break_abort, indos_flag, leftover, keyed, cpu>>
  /\ UNCHANGED <<depth, saved, last_exit, how>> /\ NoSignal /\ UNCHANGED kbd

----------------------------------------------------------------------------
\* The keyboard interrupt.  Ctrl-Break empties the buffer, stores a word of
\* its own and calls INT 1Bh.
KeyPress(k) ==
  /\ Len(kb) < KbdSize
  /\ kb' = Append(kb, k)
  /\ keyed' = IF Char(k) = CtrlC THEN keyed + 1 ELSE keyed
  /\ keyed' <= MaxBreaks
  /\ UNCHANGED <<pending_scan, ctrl_break_hit, break_abort, indos_flag, leftover, cpu>>
  /\ NoSignal /\ UNCHANGED chain

int1b_entry ==
  /\ SplitBreak \/ pending_scan = 0
  /\ keyed < MaxBreaks
  /\ kb' = <<BreakWord>>
  /\ ctrl_break_hit' = TRUE
  /\ keyed' = keyed + 1
  /\ UNCHANGED <<pending_scan, break_abort, indos_flag, leftover, cpu>>
  /\ NoSignal /\ UNCHANGED chain

Init ==
  /\ kb = <<>> /\ pending_scan = 0
  /\ ctrl_break_hit = FALSE /\ int23_pending = FALSE /\ break_abort = FALSE
  /\ indos_flag = FALSE /\ leftover = FALSE
  /\ cpu = [at |-> "user", fn |-> "none", al |-> -1]
  /\ depth = 0 /\ vec = 0 /\ saved = [p \in 1..MaxDepth |-> 0]
  /\ last_exit = 0 /\ how = 0
  /\ keyed = 0 /\ signalled = 0

ConsoleNext ==
  \/ KernelStep
  \/ \E fn \in Calls : int21_dispatch(fn)
  \/ int21_break \/ proc_terminate \/ f31_tsr \/ f4b_exec \/ f25_setvect
  \/ \E k \in Keys : KeyPress(k)
  \/ int1b_entry

\* The processor goes on with the call it is in.
ConsoleSpec == Init /\ [][ConsoleNext]_console_vars /\ WF_console_vars(KernelStep)

----------------------------------------------------------------------------
\* The flags belong to one call and one program: INT 23h is owed only by the
\* call that is about to return, InDOS is up exactly inside calls, the vector
\* never names a program that has ended, and 4Dh reports a Ctrl-C exit for
\* the programs that were aborted and for no other.
HandlersSound ==
  /\ int23_pending => cpu.at = "return"
  /\ indos_flag <=> cpu.at \notin {"user", "handler", "abort"}
  /\ vec <= depth /\ \A p \in 1..MaxDepth : saved[p] < p
  /\ last_exit = how

\* INT 23h is called at most once for every Ctrl-C and Ctrl-Break keyed, and
\* never for another key; and a program that gets 0 from 01h or 08h gets a
\* scan code next: what it saw was half of a key, never the word the BIOS
\* stores for Ctrl-Break.
BreaksExact ==
  /\ signalled <= keyed
  /\ (cpu.at = "return" /\ cpu.fn = "char" /\ cpu.al = 0) => pending_scan # 0

Waits == cpu.at \in {"check", "get", "zero", "swallow"} /\ cpu.fn \in {"char", "line", "read"}

\* A Ctrl-Break that comes while a call waits for a key ends the wait.
BreakWakes == (Waits /\ ctrl_break_hit) ~> cpu.at \in {"user", "handler"}
=============================================================================
