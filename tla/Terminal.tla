------------------------------ MODULE Terminal ------------------------------
(***************************************************************************)
(* libc/v32term.c: a text terminal on the console's screen.  The library   *)
(* keeps the cells a program wants (want) and those it has drawn (shown),  *)
(* and draws the difference when it is flushed: the screen keeps its       *)
(* contents between frames.  Only the cells from first to last can differ. *)
(* Past its budget of pixels for a frame the GPU drops what it is told to  *)
(* draw without saying so.                                                 *)
(*                                                                         *)
(* A call is one step, but for the loops that end frames: a flush draws a  *)
(* cell per step, and the on-screen keyboard draws, polls and draws again. *)
(* What is left to do of such a call is a stack, pc.                       *)
(***************************************************************************)
EXTENDS Integers, Sequences, FiniteSets

CONSTANTS
  Rows, Cols,  \* V32TERM_ROWS, V32TERM_COLS
  Glyphs,      \* cells: a character and its attributes
  Blank,       \* ' '
  Zero,        \* a cell of static memory
  Unknown,     \* -1 in shown
  Budget,      \* bound: cells the GPU can draw in a frame
  TabStop      \* 8

ASSUME TerminalSize == Rows \in Nat \ {0} /\ Cols \in Nat \ {0}
ASSUME TerminalCells == Blank \in Glyphs /\ Zero \notin Glyphs /\ Unknown \notin Glyphs \cup {Zero}
ASSUME TerminalBudget == Budget \in Nat \ {0}
ASSUME TerminalTabs == TabStop \in Nat \ {0}

VARIABLES
  term,    \* the library's variables
  osk,     \* v32osk_saved
  brush,   \* i of v32term_flush(), or -1
  pc,      \* what is left of the call in progress
  screen,  \* the console's picture, cell by cell
  room     \* GPU_RemainingPixels, in cells

termVars == <<term, brush, osk, pc, screen, room>>

Cells == Rows * Cols
Pos == 0 .. Cells - 1
Cell == Glyphs \cup {Zero}

OnScreen(y, x) == y \in 0 .. Rows - 1 /\ x \in 0 .. Cols - 1
Index(y, x) == y * Cols + x
RowOf(i) == i \div Cols
ColOf(i) == i % Cols

Least(S)    == CHOOSE m \in S : \A n \in S : m <= n
Greatest(S) == CHOOSE m \in S : \A n \in S : n <= m

-----------------------------------------------------------------------------
(* The functions of the library that only change its variables             *)

DirtyAll(t) == [t EXCEPT !.dirty = TRUE, !.first = 0, !.last = Cells - 1]

Redraw(t) == DirtyAll([t EXCEPT !.shown = [i \in Pos |-> Unknown]])

Clear(t) == DirtyAll([t EXCEPT !.want = [i \in Pos |-> Blank]])

Goto(t, y, x) == [t EXCEPT !.y = y, !.x = x]

Ready(t) == IF t.ready THEN t
            ELSE Goto([Redraw(Clear(t)) EXCEPT !.ready = TRUE], 0, 0)

(* v32term_set() for each cell of a function from positions to cells.      *)
SetAll(t, cells) ==
  LET changed == {i \in DOMAIN cells : t.want[i] # cells[i]}
      range   == IF t.dirty THEN changed \cup {t.first, t.last} ELSE changed
  IN IF changed = {} THEN t
     ELSE [t EXCEPT !.want  = [i \in Pos |-> IF i \in changed THEN cells[i] ELSE @[i]],
                    !.dirty = TRUE,
                    !.first = Least(range),
                    !.last  = Greatest(range)]

Rectangle(y, x, h, w) == {i \in Pos : RowOf(i) \in y .. y + h - 1 /\ ColOf(i) \in x .. x + w - 1}

Fill(t, y, x, h, w, c) == SetAll(t, [i \in Rectangle(y, x, h, w) |-> c])

(* v32term_box() with one cell for its border.                             *)
Box(t, y, x, h, w, border) ==
  SetAll(Fill(t, y, x, h, w, Blank),
         [i \in Rectangle(y, x, h, w) \ Rectangle(y + 1, x + 1, h - 2, w - 2) |-> border])

Text(t, y, x, s) == SetAll(t, [i \in Rectangle(y, x, 1, Len(s)) |-> s[ColOf(i) - x + 1]])

Restore(t, buffer) == DirtyAll([t EXCEPT !.want = buffer])

(* v32term_scroll(), n times, the cursor going up with the text.           *)
Scroll(t, n) ==
  IF n <= 0 THEN t
  ELSE DirtyAll([t EXCEPT !.want = [i \in Pos |-> IF i + n * Cols < Cells THEN @[i + n * Cols] ELSE Blank],
                          !.y = @ - n])

IntoView(t) == Scroll(t, t.y - Rows + 1)

(* A character that shows, after the line has wrapped.                     *)
Type(t, c) ==
  LET wrapped == IF t.x >= Cols THEN Goto(t, t.y + 1, 0) ELSE t
      u       == IntoView(wrapped)
      cells   == [i \in {i \in Pos : OnScreen(u.y, u.x) /\ i = Index(u.y, u.x)} |-> c]
  IN [SetAll(u, cells) EXCEPT !.x = @ + 1]

(* v32term_putc()                                                          *)
Putc(t, c) ==
  LET u == Ready(t)
  IN IntoView(CASE c = "newline"   -> Goto(u, u.y + 1, 0)
                [] c = "return"    -> Goto(u, u.y, 0)
                [] c = "backspace" -> IF u.x > 0 THEN Goto(u, u.y, u.x - 1) ELSE u
                [] c = "tab"       -> Goto(u, u.y, (u.x \div TabStop + 1) * TabStop)
                [] OTHER           -> Type(u, c))

Controls == {"newline", "return", "backspace", "tab"}

-----------------------------------------------------------------------------
(* The console                                                             *)

Draw(i, c) ==
  IF room > 0 THEN screen' = [screen EXCEPT ![i] = c] /\ room' = room - 1
  ELSE UNCHANGED <<screen, room>>

(* Mutant: the budget is not looked at.                                    *)
EnoughRoom_Never == TRUE

EnoughRoom == room > 0

-----------------------------------------------------------------------------
TermInit ==
  /\ term = [want |-> [i \in Pos |-> Zero], shown |-> [i \in Pos |-> Zero], ready |-> FALSE,
             dirty |-> FALSE, first |-> 0, last |-> 0, y |-> 0, x |-> 0]
  /\ osk = [i \in Pos |-> Zero]
  /\ brush = -1
  /\ pc = <<>>
  /\ screen = [i \in Pos |-> Unknown]
  /\ room = Budget

Painting == brush >= 0
Idle == pc = <<>> /\ ~Painting

(* The next thing to do is label; steps take its place.                    *)
At(label) == ~Painting /\ pc # <<>> /\ Head(pc) = label
Then(steps) == pc' = steps \o Tail(pc)

(* The beginning of v32term_flush() with the variables t.                  *)
Flush(t) ==
  LET u == Ready(t)
  IN term' = u /\ brush' = IF u.dirty THEN u.first ELSE -1

PaintCell ==
  /\ Painting
  /\ brush <= term.last
  /\ IF term.want[brush] = term.shown[brush]
       THEN brush' = brush + 1 /\ UNCHANGED <<term, screen, room>>
     ELSE IF ~EnoughRoom
       THEN room' = Budget /\ UNCHANGED <<term, brush, screen>>
     ELSE /\ Draw(brush, term.want[brush])
          /\ term' = [term EXCEPT !.shown[brush] = term.want[brush]]
          /\ brush' = brush + 1
  /\ UNCHANGED <<osk, pc>>

PaintEnd ==
  /\ Painting
  /\ brush > term.last
  /\ term' = [term EXCEPT !.dirty = FALSE]
  /\ brush' = -1
  /\ UNCHANGED <<osk, pc, screen, room>>

EndFrame ==
  /\ At("end_frame")
  /\ room' = Budget
  /\ Then(<<>>)
  /\ UNCHANGED <<term, brush, osk, screen>>

FlushStep ==
  /\ At("flush")
  /\ Flush(term)
  /\ Then(<<>>)
  /\ UNCHANGED <<osk, screen, room>>

-----------------------------------------------------------------------------
(* The on-screen keyboard                                                  *)

(* v32osk_getkey_titled(): what is under the panel is saved.               *)
OskOpen ==
  /\ At("osk_open")
  /\ term' = Ready(term)
  /\ osk' = term'.want
  /\ Then(<<"osk_draw">>)
  /\ UNCHANGED <<brush, screen, room>>

(* The panel stays out of the way of the line that is typed on.            *)
PanelTop == IF term.y >= Rows - 2 THEN 1 ELSE Rows - 1

OskDraw ==
  /\ At("osk_draw")
  /\ \E c \in Glyphs : term' = Fill(term, PanelTop, 0, 1, Cols, c)
  /\ Then(<<"flush", "end_frame", "osk_poll">>)
  /\ UNCHANGED <<brush, osk, screen, room>>

(* No key, or one: the panel goes.                                         *)
OskPoll ==
  /\ At("osk_poll")
  /\ \/ Then(<<"osk_draw">>) /\ UNCHANGED term
     \/ term' = Restore(term, osk) /\ Then(<<"flush">>)
  /\ UNCHANGED <<brush, osk, screen, room>>

TermStep == PaintCell \/ PaintEnd \/ EndFrame \/ FlushStep \/ OskOpen \/ OskDraw \/ OskPoll

-----------------------------------------------------------------------------
(* A program's calls                                                       *)

Call(t) ==
  /\ Idle
  /\ term' = t
  /\ UNCHANGED <<brush, osk, pc, screen, room>>

(* Calls that return at once; a program moves the cursor anywhere, also    *)
(* below the last row.                                                     *)
Write ==
  \/ Call(Ready(term))
  \/ Call(Clear(term))
  \/ \E y \in -1 .. Rows, x \in -1 .. Cols, c \in Glyphs : Call(Fill(term, y, x, 1, 1, c))
  \/ \E y \in 0 .. Rows - 1, c, d \in Glyphs : Call(Text(term, y, 0, <<c, d>>))
  \/ \E y \in -1 .. Rows - 1, w \in 1 .. Cols, c \in Glyphs : Call(Box(term, y, 0, 2, w, c))
  \/ \E y \in -1 .. Rows + 1, x \in 0 .. Cols : Call(Goto(term, y, x))
  \/ \E c \in Controls \cup Glyphs : Call(Putc(term, c))

CallFlush ==
  /\ Idle
  /\ Flush(term)
  /\ UNCHANGED <<osk, pc, screen, room>>

(* v32term_frame()                                                         *)
CallFrame ==
  /\ Idle
  /\ pc' = <<"flush", "end_frame">>
  /\ UNCHANGED <<term, brush, osk, screen, room>>

(* v32term_getkey() with the key source it starts with.                    *)
GetKey == <<"flush", "osk_open">>

CallGetKey ==
  /\ Idle
  /\ term' = Ready(term)
  /\ pc' = GetKey
  /\ UNCHANGED <<brush, osk, screen, room>>

(* The program draws something of its own and says so with v32term_redraw. *)
DrawOver ==
  /\ Idle
  /\ \E i \in Pos, c \in Glyphs : Draw(i, c)
  /\ term' = Redraw(term)
  /\ UNCHANGED <<brush, osk, pc>>

TermCall == Write \/ CallFlush \/ CallFrame \/ CallGetKey \/ DrawOver

TermSpec == TermInit /\ [][TermStep \/ TermCall]_termVars
-----------------------------------------------------------------------------
(* The terminal's cells that differ from what is drawn lie in the range    *)
(* that the next flush goes over, and what it believes to be drawn is.     *)
DirtyCovers ==
  \A i \in Pos : term.want[i] # term.shown[i] => term.dirty /\ i \in term.first .. term.last

ShownIsDrawn ==
  term.ready => \A i \in Pos : term.shown[i] # Unknown => screen[i] = term.shown[i]

(* "Draw the changed cells": when a flush has ended and nothing has been   *)
(* written since, the screen is what the program wrote - over frames that  *)
(* end in the middle of the flush, scrolled lines, the keyboard's panel    *)
(* and pictures of the program's own.                                      *)
CleanMeansShown == term.ready /\ ~term.dirty => screen = term.want
=============================================================================
