-------------------------------- MODULE Shell --------------------------------
(***************************************************************************)
(* The command interpreter (shell.c): the prompt loop, batch files that    *)
(* call one another, its environment block, the version table it edits     *)
(* for the kernel (setver.c), the files its commands hold open, and what   *)
(* Ctrl-C does to all of them (break_handler in cstart.asm).               *)
(*                                                                         *)
(* A command is a record [op, file, name, value].  Commands that only      *)
(* print are one step, "say".  Whether files exist, transfers fail and     *)
(* programs are found is chosen.  The environment is a block of bytes; its *)
(* characters are small numbers, and case is left out.                     *)
(***************************************************************************)
EXTENDS Integers, Sequences, FiniteSetsExt

CONSTANTS Batch,       \* batch file |-> its lines, "empty" for a blank one
          Autoexec,    \* the batch file run at the start, or none
          Typed,       \* commands given at the prompt
          Variables,   \* names SET is used with
          Programs,    \* names SETVER is used with
          Inherited,   \* lists of strings a shell may be started with
          BATCH_DEPTH,
          EnvSize,     \* ENV_PARAS * 16
          SETVER_MAX

NamesBatch(c) == c.op = "batch" => c.file \in DOMAIN Batch

ASSUME ShellAssumption ==
  /\ BATCH_DEPTH \in Nat /\ SETVER_MAX \in Nat
  /\ EnvSize \in Nat \ {0}
  /\ Autoexec \subseteq DOMAIN Batch
  /\ \A c \in Typed : NamesBatch(c)
  /\ \A f \in DOMAIN Batch :
       Len(Batch[f]) \in Nat /\ \A i \in 1..Len(Batch[f]) : NamesBatch(Batch[f][i])

VARIABLES
  at,              \* where the shell is
  frames,          \* the calls of run_batch: [file, pos], innermost last
  batch_depth,
  echo_on,
  cmd,             \* the command that is carried out
  shell_break_hit,
  opened,          \* open handles of the shell, by what they are for
  env_seg,         \* env_seg # 0: the shell has got a block
  env,             \* the block, offset |-> byte
  table,           \* the version table: [name, version], name "" for free
  wanted,          \* history: what SET has set and not lost
  given,           \* history: what SETVER has set
  begun            \* history: commands begun since the break was latched

shell_vars == <<at, frames, batch_depth, echo_on, cmd, shell_break_hit, opened, env_seg, env,
          table, wanted, given, begun>>

NUL == 0
EQ  == 1

Nop == [op |-> "rem", file |-> "", name |-> <<>>, value |-> <<>>]

----------------------------------------------------------------------------
\* The environment: strings NAME=value, each ended by NUL, and one NUL more.
Starts(b) == {o \in 0..EnvSize - 1 : o = 0 \/ b[o - 1] = NUL}
env_end(b) == Min({o \in Starts(b) : b[o] = NUL})
Strings(b) == {o \in Starts(b) : o < env_end(b)}
NextString(b, o) == Min({p \in Starts(b) : p > o})

env_match(b, o, name) ==
  (\A i \in 1..Len(name) : b[o + i - 1] = name[i]) /\ b[o + Len(name)] = EQ

Matches(b, name) == {o \in Strings(b) : env_match(b, o, name)}

\* The rest of the list, its terminator included, moves down over a string.
CloseUp(b, start) ==
  LET o == NextString(b, start)
      n == env_end(b) + 1 - o
  IN [p \in DOMAIN b |-> IF p \in start..start + n - 1 THEN b[o + p - start] ELSE b[p]]

\* All strings of that name, the lowest first.
Removed(b, name) ==
  LET After[k \in 0..Cardinality(Strings(b))] ==
        IF k = 0 THEN b
        ELSE LET c == After[k - 1]
             IN IF Matches(c, name) = {} THEN c ELSE CloseUp(c, Min(Matches(c, name)))
  IN After[Cardinality(Strings(b))]

Fits(b, name, value) == env_end(b) + Len(name) + 1 + Len(value) + 2 <= EnvSize

Added(b, name, value) ==
  LET s == name \o <<EQ>> \o value \o <<NUL, NUL>>
      e == env_end(b)
  IN [p \in DOMAIN b |-> IF p \in e..e + Len(s) - 1 THEN s[p - e + 1] ELSE b[p]]

env_set(b, name, value) ==
  LET r == Removed(b, name)
  IN IF value # <<>> /\ Fits(r, name, value) THEN Added(r, name, value) ELSE r

\* The value of a name, or nothing.
env_get(b, name) ==
  IF Matches(b, name) = {} THEN <<>>
  ELSE LET o == Min(Matches(b, name)) + Len(name) + 1
           e == Min({p \in o..EnvSize - 1 : b[p] = NUL})
       IN [i \in 1..e - o |-> b[o + i - 1]]

\* env_init: a copy of the list the shell was started with.
env_init(list) == [p \in 0..EnvSize - 1 |-> IF p < Len(list) THEN list[p + 1] ELSE NUL]

\* What the block says: the value of every variable, or nothing.  Has are the
\* variables with a value, Size the bytes of a string and its NUL.
Has(m)     == {n \in DOMAIN m : m[n] # <<>>}
Size(n, v) == Len(n) + Len(v) + 2
Decoded(b) == [n \in Variables |-> env_get(b, n)]

\* What SET promises: a variable has the value it was given, or none when the
\* value is empty or there is no room for it beside the others.
Total(m) == Cardinality(UNION {{n} \X (1..Size(n, m[n])) : n \in Has(m)})
SetWanted(m, name, value) ==
  LET put == [m EXCEPT ![name] = value]
  IN IF Total(put) + 1 <= EnvSize THEN put ELSE [m EXCEPT ![name] = <<>>]

\* Strings of m lie side by side in front of e, that of a variable at its place.
Byte(n, v, i) ==
  CASE i <= Len(n)                       -> n[i]
    [] i = Len(n) + 1                    -> EQ
    [] i > Len(n) + 1 /\ i < Size(n, v)  -> v[i - Len(n) - 1]
    [] OTHER                             -> NUL
Laid(b, m, place, e) ==
  /\ DOMAIN b = 0..EnvSize - 1 /\ e \in DOMAIN b /\ b[e] = NUL
  /\ place \in [Has(m) -> Nat]
  /\ \A n \in Has(m) :
       /\ place[n] + Size(n, m[n]) <= e
       /\ \A i \in 1..Size(n, m[n]) : b[place[n] + i - 1] = Byte(n, m[n], i)
  /\ \A p \in 0..e - 1 : \E n \in Has(m) : place[n] <= p /\ p < place[n] + Size(n, m[n])
  /\ \A n, k \in Has(m) :
       n = k \/ place[n] + Size(n, m[n]) <= place[k] \/ place[k] + Size(k, m[k]) <= place[n]

\* Names of variables have no "=", names of programs are not empty, and a shell
\* is started with strings NAME=value, one of a name.
Texts == {v \in Seq(Nat) : \A i \in 1..Len(v) : v[i] # NUL}
NamesSetting(c) ==
  /\ c.op = "set" => c.name \in Variables /\ c.value \in Texts
  /\ c.op = "setver" => c.file \in Programs /\ c.value[1] \in Nat
ProperList(s) ==
  LET b == env_init(s)
      m == Decoded(b)
  IN m \in [Variables -> Texts] /\ Laid(b, m, [n \in Has(m) |-> Min(Matches(b, n))], env_end(b))

ASSUME SettingsAssumption ==
  /\ \A n \in Variables : n \in Texts /\ \A i \in 1..Len(n) : n[i] # EQ
  /\ "" \notin Programs
  /\ \A c \in Typed : NamesSetting(c)
  /\ \A f \in DOMAIN Batch : \A i \in 1..Len(Batch[f]) : NamesSetting(Batch[f][i])
  /\ \A s \in Inherited : ProperList(s)

----------------------------------------------------------------------------
\* The version table.  A free entry has no name; all versions but DEFAULT
\* come from an entry.
DEFAULT == 70
Free == [name |-> "", version |-> DEFAULT]
Entries(t, name) == {e \in DOMAIN t : t[e].name = name}

\* What EXEC stores in the PSP of a program.
setver_apply(t, program) ==
  IF Entries(t, program) = {} THEN DEFAULT ELSE t[Min(Entries(t, program))].version

setver_find(t, name) == Entries(t, name)

\* Mutant: a free entry is taken although the name has one.
TakesFree(t, name) == Entries(t, "")

\* Where a version for a name goes: its entry, or else a free one.
Slot(t, name) == IF setver_find(t, name) # {} THEN setver_find(t, name) ELSE Entries(t, "")

----------------------------------------------------------------------------
Settings   == <<env_seg, env, table, wanted, given>>
BatchCalls == <<frames, batch_depth>>
Top        == frames[Len(frames)]

\* A call of run_batch returns.
Return ==
  /\ frames' = SubSeq(frames, 1, Len(frames) - 1)
  /\ batch_depth' = batch_depth - 1

\* shell_main: the environment is cloned, AUTOEXEC.BAT is run if it is there.
Boot ==
  /\ at = "boot"
  /\ \/ at' = "prompt" /\ UNCHANGED cmd
     \/ \E f \in Autoexec : at' = "line" /\ cmd' = [Nop EXCEPT !.op = "batch", !.file = f]
  /\ UNCHANGED <<echo_on, shell_break_hit, opened, begun>> /\ UNCHANGED BatchCalls /\ UNCHANGED Settings

\* The prompt loop reads a line.
Prompt(c) ==
  /\ at = "prompt"
  /\ at' = "line" /\ cmd' = c
  /\ UNCHANGED <<echo_on, shell_break_hit, opened, begun>> /\ UNCHANGED BatchCalls /\ UNCHANGED Settings

\* run_batch takes a line, or ends with its file.
NextLine ==
  /\ at = "batch"
  /\ IF Top.pos = Len(Batch[Top.file])
     THEN Return /\ at' = "done" /\ UNCHANGED cmd
     ELSE LET c == Batch[Top.file][Top.pos + 1]
          IN /\ frames' = [frames EXCEPT ![Len(frames)].pos = @ + 1]
             /\ IF c.op = "empty" THEN UNCHANGED <<at, cmd>> ELSE at' = "line" /\ cmd' = c
             /\ UNCHANGED batch_depth
  /\ UNCHANGED <<echo_on, shell_break_hit, opened, begun>> /\ UNCHANGED Settings

\* Mutant: the batch file that called the one abandoned goes on.
OnlyInnermost == shell_break_hit /\ batch_depth > 1

\* After a line run_batch looks at the flag.
Abandons == shell_break_hit

\* A command has been carried out: the prompt, which clears the flag, or the
\* batch file the line was from.
Done ==
  /\ at = "done"
  /\ IF frames = <<>>
     THEN at' = "prompt" /\ shell_break_hit' = FALSE /\ begun' = 0 /\ UNCHANGED BatchCalls
     ELSE /\ IF Abandons THEN Return /\ UNCHANGED at ELSE at' = "batch" /\ UNCHANGED BatchCalls
          /\ UNCHANGED <<shell_break_hit, begun>>
  /\ cmd' = Nop
  /\ UNCHANGED <<echo_on, opened>> /\ UNCHANGED Settings

----------------------------------------------------------------------------
\* execute: cmd is carried out, and the shell is next at one of "next".
Executes(op, next) ==
  /\ at = "line" /\ cmd.op = op
  /\ at' \in next
  /\ begun' = IF op # "batch" /\ shell_break_hit THEN begun + 1 ELSE begun
  /\ cmd' = IF op = "batch" THEN cmd ELSE Nop
  /\ UNCHANGED shell_break_hit /\ UNCHANGED BatchCalls

\* REM; and DIR, DEL, VER, PAUSE and the like, which print or wait for a key.
Plain ==
  /\ Executes("rem", {"done"}) \/ Executes("say", {"say"})
  /\ UNCHANGED <<echo_on, opened>> /\ UNCHANGED Settings

cmd_echo ==
  /\ Executes("echo", {"done"})
  /\ echo_on' = (cmd.value # <<>>)
  /\ UNCHANGED opened /\ UNCHANGED Settings

cmd_set ==
  /\ Executes("set", {"say"})
  /\ env'    = IF env_seg THEN env_set(env, cmd.name, cmd.value) ELSE env
  /\ wanted' = IF env_seg THEN SetWanted(wanted, cmd.name, cmd.value) ELSE wanted
  /\ UNCHANGED <<echo_on, opened, env_seg, table, given>>

\* The version is a number, 0 for /D.
cmd_setver ==
  LET prog == cmd.file
      ver  == cmd.value[1]
      to   == IF ver = 0 THEN setver_find(table, prog) ELSE Slot(table, prog)
  IN /\ Executes("setver", {"say"})
     /\ table' = IF to = {} THEN table
                 ELSE [table EXCEPT ![Min(to)] =
                         IF ver = 0 THEN Free ELSE [name |-> prog, version |-> ver]]
     /\ given' = IF to = {} THEN given
                 ELSE [given EXCEPT ![prog] = IF ver = 0 THEN DEFAULT ELSE ver]
     /\ UNCHANGED <<echo_on, opened, env_seg, env, wanted>>

\* TYPE opens the file and writes it block by block.
cmd_type ==
  /\ \/ Executes("type", {"say"}) /\ UNCHANGED opened
     \/ Executes("type", {"type"}) /\ opened' = opened \cup {"text"}
  /\ UNCHANGED echo_on /\ UNCHANGED Settings

Goes(from, to) ==
  /\ at = from /\ at' = to
  /\ UNCHANGED <<echo_on, cmd, shell_break_hit, begun>> /\ UNCHANGED BatchCalls /\ UNCHANGED Settings

TypeEnds == Goes("type", "say") /\ opened' = opened \ {"text"}

\* Mutant: the source stays open when the target cannot be created.
LeavesSource(o) == o

CloseSource(o) == o \ {"source"}

\* COPY opens the source, creates the target and copies until the end, ^Z or
\* a full disk.
cmd_copy ==
  /\ \/ Executes("copy", {"say"}) /\ UNCHANGED opened
     \/ Executes("copy", {"create"}) /\ opened' = opened \cup {"source"}
  /\ UNCHANGED echo_on /\ UNCHANGED Settings

CopyStep ==
  \/ Goes("create", "say")  /\ opened' = CloseSource(opened)
  \/ Goes("create", "copy") /\ opened' = opened \cup {"target"}
  \/ Goes("copy", "say")    /\ opened' = CloseSource(opened \ {"target"})

\* A program is found, or none is, or EXEC fails.  The program ends by itself
\* or Ctrl-C aborts it: the flag stays as it is.
run_external ==
  \/ /\ Executes("run", {"child", "say"})
     /\ UNCHANGED <<echo_on, opened>> /\ UNCHANGED Settings
  \/ Goes("child", "done") /\ UNCHANGED opened

\* A batch file is opened, read as a whole and closed before its first line.
run_batch ==
  /\ \/ Executes("batch", {"say"}) /\ UNCHANGED opened
     \/ batch_depth < BATCH_DEPTH /\ Executes("batch", {"load"})
        /\ opened' = opened \cup {"batch"}
  /\ UNCHANGED echo_on /\ UNCHANGED Settings

LoadBatch ==
  /\ at = "load"
  /\ opened' = opened \ {"batch"}
  /\ batch_depth' = batch_depth + 1
  /\ frames' = Append(frames, [file |-> cmd.file, pos |-> 0])
  /\ at' = "batch" /\ cmd' = Nop
  /\ UNCHANGED <<echo_on, shell_break_hit, begun>> /\ UNCHANGED Settings

Said == Goes("say", "done") /\ UNCHANGED opened

\* EXIT: the kernel closes the shell's files, frees its block and starts it
\* again.
Exit ==
  /\ at = "line" /\ cmd.op = "exit"
  /\ at' = "boot" /\ cmd' = Nop
  /\ frames' = <<>> /\ batch_depth' = 0
  /\ echo_on' = TRUE /\ shell_break_hit' = FALSE /\ begun' = 0 /\ opened' = {}
  /\ env_seg' \in BOOLEAN
  /\ \E s \in Inherited : env' = env_init(s) /\ wanted' = Decoded(env_init(s))
  /\ UNCHANGED <<table, given>>

\* break_handler, called when the shell writes to the console or waits for a
\* key: while a line is shown, in the output of a command, while COPY reads
\* the console.
break_handler ==
  /\ at \in {"say", "type", "copy"} \/ (at = "line" /\ (frames = <<>> \/ echo_on))
  /\ shell_break_hit' = TRUE
  /\ UNCHANGED <<at, echo_on, cmd, opened, begun>> /\ UNCHANGED BatchCalls /\ UNCHANGED Settings

ShellInit ==
  /\ at = "boot" /\ cmd = Nop /\ frames = <<>> /\ batch_depth = 0
  /\ echo_on = TRUE /\ shell_break_hit = FALSE /\ begun = 0 /\ opened = {}
  /\ env_seg \in BOOLEAN
  /\ \E s \in Inherited : env = env_init(s) /\ wanted = Decoded(env_init(s))
  /\ table = [e \in 1..SETVER_MAX |-> Free]
  /\ given = [p \in Programs |-> DEFAULT]

ShellNext ==
  \/ Boot \/ NextLine \/ Done \/ \E c \in Typed : Prompt(c)
  \/ Plain \/ cmd_echo \/ cmd_set \/ cmd_setver
  \/ cmd_type \/ TypeEnds \/ cmd_copy \/ CopyStep
  \/ run_external \/ run_batch \/ LoadBatch \/ Said \/ Exit
  \/ break_handler

ShellSpec == ShellInit /\ [][ShellNext]_shell_vars

----------------------------------------------------------------------------
\* Ctrl-C abandons the batch job, however deep its files call one another:
\* once the flag is up, at most one more command begins (the line that was
\* being shown) before the prompt.
JobAbandoned == begun <= 1

\* Whatever fails or is broken off, no command leaves a file open: the prompt,
\* the lines of a batch file and the programs they start find none; the depth
\* that limits nesting is the number of calls under way.
NothingLeft ==
  /\ at \in {"prompt", "batch", "line", "child", "done"} => opened = {}
  /\ batch_depth = Len(frames) /\ batch_depth <= BATCH_DEPTH
  /\ at = "prompt" => batch_depth = 0 /\ ~shell_break_hit

\* The environment block and the version table say exactly what SET and
\* SETVER were told, for names that begin like one another too: a variable
\* has its last value, or none when that did not fit.
SettingsExact ==
  /\ env_end(env) < EnvSize
  /\ \A n \in Variables : env_get(env, n) = wanted[n]
  /\ Total(wanted) = env_end(env)
  /\ \A p \in Programs : setver_apply(table, p) = given[p]
=============================================================================
