----------------------------- MODULE FileStore ------------------------------
(***************************************************************************)
(* What the file calls of INT 21h promise a program, with no disk, no      *)
(* directory and no cluster in sight: a file is a sequence of values found *)
(* by its path, an open handle is a path and a position.  Module FileIO    *)
(* implements it for programs that write a file through one handle only.   *)
(***************************************************************************)
EXTENDS Naturals, Sequences

CONSTANTS Paths, Handles, Vals, Counts, Positions

VARIABLES
  files,    \* existing path |-> its contents
  open,     \* open handle |-> [path, pos]
  unsaved   \* paths of files with changes that a power failure may undo

store == <<files, open, unsaved>>

Unused(p) == \A h \in DOMAIN open : open[h].path # p
With(f, x, y) == [k \in DOMAIN f \cup {x} |-> IF k = x THEN y ELSE f[k]]
Without(f, x) == [k \in DOMAIN f \ {x} |-> f[k]]

Init ==
  /\ files = [p \in {} |-> <<>>]
  /\ open = [h \in {} |-> 0]
  /\ unsaved = {}

Open(h, p) ==
  /\ h \notin DOMAIN open
  /\ p \in DOMAIN files
  /\ open' = With(open, h, [path |-> p, pos |-> 0])
  /\ UNCHANGED <<files, unsaved>>

\* The file is there and empty, also when there is no handle left to give.
Create(h, p) ==
  /\ Unused(p)
  /\ \/ h \notin DOMAIN open /\ open' = With(open, h, [path |-> p, pos |-> 0])
     \/ DOMAIN open = Handles /\ UNCHANGED open
  /\ UNCHANGED unsaved
  /\ files' = With(files, p, <<>>)

Close(h) ==
  /\ h \in DOMAIN open
  /\ open' = Without(open, h)
  /\ unsaved' \in {unsaved, unsaved \ {open[h].path}}
  /\ UNCHANGED files

Commit(h) ==
  /\ h \in DOMAIN open
  /\ unsaved' \in {unsaved, unsaved \ {open[h].path}}
  /\ UNCHANGED <<files, open>>

Seek(h, pos) ==
  /\ h \in DOMAIN open
  /\ open' = [open EXCEPT ![h].pos = pos]
  /\ UNCHANGED <<files, unsaved>>

Least(a, b)    == IF a < b THEN a ELSE b
Greatest(a, b) == IF a < b THEN b ELSE a

\* A read gives the next n values, or those there are (FileIO!ReadsBack).
Read(h, n) ==
  /\ h \in DOMAIN open
  /\ open' = [open EXCEPT ![h].pos = Least(@ + n, Greatest(@, Len(files[open[h].path])))]
  /\ UNCHANGED <<files, unsaved>>

\* A write puts k <= n copies of v at the position (k < n: the disk is full).
\* What lies between the old end and the position can be anything.
Write(h, v, n) ==
  /\ h \in DOMAIN open
  /\ LET p   == open[h].path
         pos == open[h].pos
         old == files[p]
     IN  \E k \in 0..n :
           /\ open' = [open EXCEPT ![h].pos = @ + k]
           /\ unsaved' \in {unsaved, unsaved \cup {p}}
           /\ k > 0 => p \in unsaved'
           /\ DOMAIN files' = DOMAIN files
           /\ \A q \in DOMAIN files \ {p} : files'[q] = files[q]
           /\ Len(files'[p]) = IF k = 0 \/ pos + k < Len(old) THEN Len(old) ELSE pos + k
           /\ \A i \in 1..Len(files'[p]) :
                IF i > pos /\ i <= pos + k THEN files'[p][i] = v
                ELSE i <= Len(old) => files'[p][i] = old[i]

\* A write of nothing cuts the file at the position; it never lengthens it.
Truncate(h) ==
  /\ h \in DOMAIN open
  /\ UNCHANGED open
  /\ LET p == open[h].path
     IN  /\ unsaved' = unsaved \ {p}
         /\ open[h].pos < Len(files[p])
         /\ files' = [files EXCEPT ![p] = SubSeq(@, 1, open[h].pos)]

Delete(p) ==
  /\ p \in DOMAIN files
  /\ Unused(p)
  /\ UNCHANGED <<open, unsaved>>
  /\ files' = Without(files, p)

Rename(p, q) ==
  /\ p \in DOMAIN files /\ q \notin DOMAIN files
  /\ Unused(p)
  /\ UNCHANGED <<open, unsaved>>
  /\ files' = With(Without(files, p), q, files[p])

\* The power goes: no file is lost, and every file saved is as it was.
PowerOff ==
  /\ open' = [h \in {} |-> 0]
  /\ DOMAIN files' = DOMAIN files
  /\ \A p \in DOMAIN files \ unsaved : files'[p] = files[p]
  /\ unsaved' = {}

Next ==
  \/ \E h \in Handles, p \in Paths : Open(h, p) \/ Create(h, p)
  \/ \E h \in Handles : Close(h) \/ Commit(h) \/ Truncate(h)
  \/ \E h \in Handles, pos \in Positions : Seek(h, pos)
  \/ \E h \in Handles, n \in Counts : Read(h, n)
  \/ \E h \in Handles, v \in Vals, n \in Counts : Write(h, v, n)
  \/ \E p \in Paths : Delete(p)
  \/ \E p, q \in Paths : Rename(p, q)
  \/ PowerOff

Spec == Init /\ [][Next]_store
=============================================================================
