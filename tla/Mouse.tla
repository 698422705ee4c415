-------------------------------- MODULE Mouse --------------------------------
(***************************************************************************)
(* The mouse driver (mouse.c): movement packets from the PS/2 interrupt    *)
(* and the functions of INT 33h, which run with interrupts off.  The text  *)
(* cursor is the attribute of a cell inverted in video memory, which       *)
(* programs write to as well.  One axis stands for both; the buttons, the  *)
(* motion counters and the user's handler are left out.                    *)
(***************************************************************************)
EXTENDS Integers

CONSTANTS MaxX,        \* the widest range, 639
          CellPixels,  \* virtual pixels of a cell, 8
          Moves,       \* movements of one packet
          Ratios,      \* mickeys per 8 pixels that programs set
          Points,      \* positions and limits that programs set
          Attributes,  \* what programs write into cells, as pairs of nibbles
          MinVisible,  \* the lowest value of ms.visible, -128
          Wraps        \* TRUE: also hidden once more, to 127

ASSUME MouseAssumption ==
  /\ MaxX \in Nat /\ CellPixels \in Nat \ {0}
  /\ Moves \subseteq Int /\ Ratios \subseteq Nat \ {0} /\ Points \subseteq 0..MaxX
  /\ MinVisible \in Int /\ MinVisible < 0 /\ Wraps \in BOOLEAN

VARIABLES
  ms,      \* px, min_x, max_x, frac_x, ratio_x, visible
  saved,   \* what 16h has copied out, from the start a state like any other
  screen,  \* video: cell |-> attribute; cur_drawn, cur_cell, cur_attr
  text,    \* the video mode is a text mode
  page,    \* history: what programs have written to the cells
  ranged   \* history: the range was set since the cursor was last drawn

mouse_vars == <<ms, saved, screen, text, page, ranged>>

Cell(x) == x \div CellPixels
Cells   == 0..Cell(MaxX)
Invert(a) == <<a[2], a[1]>>

clamp(x, lo, hi) == IF x < lo THEN lo ELSE IF x > hi THEN hi ELSE x

\* Division as in C, towards zero.
Quot(a, b) == IF a >= 0 THEN a \div b ELSE -((-a) \div b)

----------------------------------------------------------------------------
cur_undraw(s) ==
  IF s.drawn THEN [s EXCEPT !.video[s.cell] = s.attr, !.drawn = FALSE] ELSE s

InPlace(s, m) == s.drawn /\ s.cell = Cell(m.px)

Inverted(u, c) ==
  [video |-> [u.video EXCEPT ![c] = Invert(u.video[c])], drawn |-> TRUE,
   cell |-> c, attr |-> u.video[c]]

Draws(m) == m.visible >= 0 /\ text

\* Mutant: the cell that the cursor leaves stays inverted.
LeavesTrace(s, m) ==
  IF ~Draws(m) \/ InPlace(s, m) THEN s ELSE Inverted(s, Cell(m.px))

cur_draw(s, m) ==
  IF ~Draws(m) \/ InPlace(s, m) THEN s ELSE Inverted(cur_undraw(s), Cell(m.px))

\* The state becomes m and the cursor is drawn.
Show(s, m) ==
  /\ ms' = m
  /\ screen' = cur_draw(s, m)
  /\ ranged' = (ranged /\ ~Draws(m))

Default ==
  [px |-> (MaxX + 1) \div 2, min |-> 0, max |-> MaxX, frac |-> 0, ratio |-> 8, visible |-> -1]

\* 00h and 21h
reset_state ==
  /\ ms' = Default
  /\ screen' = cur_undraw(screen)
  /\ UNCHANGED <<saved, text, page, ranged>>

\* A packet that moves the pointer.
mouse_event(d) ==
  LET f    == ms.frac + d * 8
      step == Quot(f, ms.ratio)
  IN /\ Show(screen, [ms EXCEPT !.frac = f - step * ms.ratio,
                                !.px = clamp(ms.px + step, ms.min, ms.max)])
     /\ UNCHANGED <<saved, text, page>>

\* 01h
ShowCursor ==
  /\ Show(screen, [ms EXCEPT !.visible = IF @ < 0 THEN @ + 1 ELSE @])
  /\ UNCHANGED <<saved, text, page>>

\* 02h, in a signed byte.
Lower(n) == IF n = MinVisible THEN -MinVisible - 1 ELSE n - 1

HideCursor ==
  /\ Wraps \/ ms.visible > MinVisible
  /\ screen' = IF ms.visible = 0 THEN cur_undraw(screen) ELSE screen
  /\ ms' = [ms EXCEPT !.visible = Lower(@)]
  /\ UNCHANGED <<saved, text, page, ranged>>

\* Mutant: the cursor stays where it was until the mouse moves.
MovesLater(x) ==
  /\ ms' = [ms EXCEPT !.px = clamp(x, ms.min, ms.max)]
  /\ UNCHANGED <<saved, screen, text, page, ranged>>

\* 04h
SetPosition(x) ==
  LET m == [ms EXCEPT !.px = clamp(x, ms.min, ms.max)]
  IN /\ IF m.visible = 0 THEN Show(screen, m) ELSE ms' = m /\ UNCHANGED <<screen, ranged>>
     /\ UNCHANGED <<saved, text, page>>

\* 07h: the pointer is moved into the range, the cursor is not.
SetRange(x, y) ==
  LET lo == IF x > y THEN y ELSE x
      hi == IF x > y THEN x ELSE y
  IN /\ ms' = [ms EXCEPT !.min = lo, !.max = hi, !.px = clamp(@, lo, hi)]
     /\ ranged' = TRUE
     /\ UNCHANGED <<saved, screen, text, page>>

\* 0Fh
SetRatio(r) ==
  /\ ms' = [ms EXCEPT !.ratio = r]
  /\ UNCHANGED <<saved, screen, text, page, ranged>>

\* 16h and 17h
state_copy_out == saved' = ms /\ UNCHANGED <<ms, screen, text, page, ranged>>

state_copy_in ==
  /\ Show(cur_undraw(screen), saved)
  /\ UNCHANGED <<saved, text, page>>

\* Programs write to the screen and change the mode while they hide the cursor.
WriteCell(c, a) ==
  /\ ms.visible < 0
  /\ page' = [page EXCEPT ![c] = a]
  /\ screen' = [screen EXCEPT !.video[c] = a]
  /\ UNCHANGED <<ms, saved, text, ranged>>

SetMode ==
  /\ ms.visible < 0
  /\ text' = ~text
  /\ UNCHANGED <<ms, saved, screen, page, ranged>>

MouseInit ==
  /\ ms = Default /\ saved = Default
  /\ page \in [Cells -> Attributes]
  /\ screen = [video |-> page, drawn |-> FALSE, cell |-> 0, attr |-> page[0]]
  /\ text = TRUE /\ ranged = FALSE

MouseNext ==
  \/ reset_state \/ ShowCursor \/ HideCursor \/ state_copy_out \/ state_copy_in \/ SetMode
  \/ \E d \in Moves : mouse_event(d)
  \/ \E x \in Points : SetPosition(x) \/ \E y \in Points : SetRange(x, y)
  \/ \E r \in Ratios : SetRatio(r)
  \/ \E c \in Cells, a \in Attributes : WriteCell(c, a)

MouseSpec == MouseInit /\ [][MouseNext]_mouse_vars

----------------------------------------------------------------------------
TypeOK ==
  LET States == [px : 0..MaxX, min : 0..MaxX, max : 0..MaxX, frac : Int,
                 ratio : Nat \ {0}, visible : Int]
  IN /\ ms \in States /\ saved \in States
     /\ screen.cell \in Cells /\ screen.drawn \in BOOLEAN
     /\ text \in BOOLEAN /\ ranged \in BOOLEAN

\* Video memory is what programs have written, with exactly the cell of the
\* cursor inverted while it is drawn; whatever is moved, hidden, saved and
\* restored, a hidden cursor leaves no trace, and what is under a drawn one
\* is remembered.
Overlay ==
  /\ screen.drawn => ms.visible = 0
  /\ screen.video = IF screen.drawn
                    THEN [page EXCEPT ![screen.cell] = Invert(page[screen.cell])] ELSE page
  /\ screen.drawn => screen.attr = page[screen.cell]

\* A cursor that is drawn is where the pointer is; only 07h, which moves the
\* pointer into a range, leaves it behind until it is drawn next.
CursorFollows == (screen.drawn /\ ~ranged) => screen.cell = Cell(ms.px)
=============================================================================
