------------------------------- MODULE Curses -------------------------------
(***************************************************************************)
(* libc/v32curses.c: windows above the terminal.  A window has its cells,  *)
(* one mark per row that has changed since the last refresh, and a place   *)
(* on the screen; a subwindow has its parent's cells and marks.            *)
(*                                                                         *)
(* The composition: a program makes calls of both libraries, and reads     *)
(* keys with wgetch(), which refreshes and then puts the terminal's        *)
(* keyboard over what the window shows.                                    *)
(***************************************************************************)
EXTENDS Terminal

CONSTANTS
  Windows,   \* WINDOW *, stdscr among them
  stdscr,
  Sizes,     \* the sizes and places <<lines, cols, y, x>> of new windows
  Caret,     \* what a control character shows as, with a letter
  Partial,   \* whether subwindows are narrower than their parents, or move
  MaxCalls   \* bound: calls of a program

(* A window has rows and columns: newwin() takes those that are left from  *)
(* its place where it is given none.  (A place off the screen would leave  *)
(* none, which a program does not ask for.)                                *)
ASSUME WindowSizes == Sizes \subseteq (Nat \ {0}) \X (Nat \ {0}) \X Int \X Int
ASSUME WindowNames == stdscr \in Windows /\ "none" \notin Windows
ASSUME CaretShows == Caret \in Glyphs
ASSUME PartialAssumption == Partial \in BOOLEAN

VARIABLES
  wins,        \* the windows; NoWindow
  clear_next,  \* curses_clear_next
  covered,     \* by owner: the positions drawn over since the cells were drawn there
  calls

cursesVars == <<wins, clear_next, covered, calls>>

vars == <<termVars, cursesVars>>

NoWindow == [owner |-> "none"]
Alive(w) == wins[w] # NoWindow
Open == {w \in Windows : Alive(w)}

-----------------------------------------------------------------------------
(* Windows.  p is a cell of the window, a pair of row and column; ws are   *)
(* all the windows.                                                        *)

Area(lines, cols) == (0 .. lines - 1) \X (0 .. cols - 1)
Inside(win) == Area(win.maxy, win.maxx)

(* Where in its owner's cells a window's are.                              *)
Stored(win, p) == <<p[1] + win.offy, p[2] + win.offx>>
Content(ws, w, p) == ws[ws[w].owner].cells[Stored(ws[w], p)]
Marked(ws, w, y) == ws[ws[w].owner].marks[y + ws[w].offy]

Mark(ws, w, rows, value) ==
  LET win == ws[w]
  IN [ws EXCEPT ![win.owner].marks = [y \in DOMAIN @ |-> IF y - win.offy \in rows THEN value ELSE @[y]]]

TouchAll(ws, w) == Mark(ws, w, 0 .. ws[w].maxy - 1, TRUE)

(* curses_put() of c in each cell of an area.                              *)
Put(ws, w, area, c) ==
  LET win == ws[w]
      changed == {p \in area : Content(ws, w, p) # c}
      stored  == {Stored(win, p) : p \in changed}
  IN Mark([ws EXCEPT ![win.owner].cells = [p \in DOMAIN @ |-> IF p \in stored THEN c ELSE @[p]]],
          w, {p[1] : p \in changed}, TRUE)

MoveTo(ws, w, y, x) == [ws EXCEPT ![w].cury = y, ![w].curx = x]

(* curses_blank()                                                          *)
BlankAll(ws, w) == TouchAll(Put(ws, w, Inside(ws[w]), Blank), w)

Erase(ws, w) == MoveTo(BlankAll(ws, w), w, 0, 0)

RestOfLine(win) == {p \in Inside(win) : p[1] = win.cury /\ p[2] >= win.curx}
RestOfWindow(win) == RestOfLine(win) \cup {p \in Inside(win) : p[1] > win.cury}

NewWindow(lines, cols, y, x) ==
  [owner |-> "self", offy |-> 0, offx |-> 0, cury |-> 0, curx |-> 0, maxy |-> lines, maxx |-> cols,
   begy |-> y, begx |-> x, clear |-> FALSE,
   cells |-> [p \in Area(lines, cols) |-> Blank], marks |-> [r \in 0 .. lines - 1 |-> TRUE]]

-----------------------------------------------------------------------------
(* waddch()                                                                *)

(* Mutant: a full window's cursor goes on.                                 *)
Advance_Off(ws, w, y, x) ==
  LET win  == ws[w]
      line == IF x >= win.maxx THEN y + 1 ELSE y
  IN MoveTo(ws, w, line, IF x >= win.maxx THEN 0 ELSE x)

(* The cursor goes to x, wraps, and stays on the last cell.                *)
Advance(ws, w, y, x) ==
  LET win  == ws[w]
      line == IF x >= win.maxx THEN y + 1 ELSE y
  IN IF line >= win.maxy THEN MoveTo(ws, w, win.maxy - 1, win.maxx - 1)
     ELSE MoveTo(ws, w, line, IF x >= win.maxx THEN 0 ELSE x)

(* A character that shows, at y, x: at most one row below the last.        *)
AddGlyph(ws, w, y, x, c) ==
  IF y < ws[w].maxy THEN Advance(Put(ws, w, {<<y, x>>}, c), w, y, x + 1)
  ELSE Advance(ws, w, y, x)

Addch(ws, w, c) ==
  LET win == ws[w]
      y == win.cury
      x == win.curx
      stop == (x \div TabStop + 1) * TabStop
      tab  == IF stop > win.maxx THEN win.maxx ELSE stop
      after == x + 1
  IN CASE c = "newline"   -> Advance(Put(ws, w, RestOfLine(win), Blank), w, y + 1, 0)
       [] c = "return"    -> MoveTo(ws, w, y, 0)
       [] c = "backspace" -> MoveTo(ws, w, y, IF x > 0 THEN x - 1 ELSE 0)
       [] c = "tab"       -> Advance(Put(ws, w, {<<y, k>> : k \in x .. tab - 1}, Blank), w, y, tab)
       [] c = "control"   ->
            LET shown == Put(ws, w, {<<y, x>>}, Caret)
            IN IF after >= win.maxx THEN AddGlyph(shown, w, y + 1, 0, Caret)
               ELSE AddGlyph(shown, w, y, after, Caret)
       [] OTHER           -> AddGlyph(ws, w, y, x, c)

-----------------------------------------------------------------------------
(* wrefresh()                                                              *)

Visible(win, p) == OnScreen(win.begy + p[1], win.begx + p[2])
Place(win, p) == Index(win.begy + p[1], win.begx + p[2])

(* The cells of the marked rows, by their positions on the screen.         *)
MarkedCells(ws, w) ==
  LET win == ws[w]
      shown == {p \in Inside(win) : Marked(ws, w, p[1]) /\ Visible(win, p)}
  IN [i \in {Place(win, p) : p \in shown} |->
        Content(ws, w, CHOOSE p \in shown : Place(win, p) = i)]

FullScreen(win) == win.maxy = Rows /\ win.maxx = Cols

(* What a window that is cleared does to the terminal first.               *)
Cleared(t, win) ==
  IF ~(clear_next \/ win.clear) THEN t
  ELSE Redraw(IF clear_next \/ FullScreen(win) THEN Clear(t) ELSE t)

(* Positions of the terminal that change are covered for every owner but   *)
(* the one whose cells are drawn there.                                    *)
Covered(t, drawn) ==
  [w \in Windows |-> (covered[w] \cup {i \in Pos : t.want[i] # term.want[i]}) \ drawn[w]]

Refresh(w) ==
  LET win == wins[w]
      ws  == IF clear_next \/ win.clear THEN TouchAll(wins, w) ELSE wins
      new == MarkedCells(ws, w)
      t   == SetAll(Cleared(term, win), new)
  IN /\ Flush(t)
     /\ wins' = [Mark(ws, w, 0 .. win.maxy - 1, FALSE) EXCEPT ![w].clear = FALSE]
     /\ clear_next' = FALSE
     /\ covered' = Covered(t, [v \in Windows |-> IF v = win.owner THEN DOMAIN new ELSE {}])

-----------------------------------------------------------------------------
Init ==
  /\ TermInit
  /\ wins = [w \in Windows |-> NoWindow]
  /\ clear_next = FALSE
  /\ covered = [w \in Windows |-> {}]
  /\ calls = 0

Count == Idle /\ calls < MaxCalls /\ calls' = calls + 1

(* A call that changes windows only.                                       *)
Edit(ws) == Count /\ wins' = ws /\ UNCHANGED <<termVars, clear_next, covered>>

Create(w, win) ==
  /\ ~Alive(w)
  /\ Count
  /\ wins' = [wins EXCEPT ![w] = win]
  /\ covered' = [covered EXCEPT ![w] = {}]
  /\ UNCHANGED <<termVars, clear_next>>

Initscr ==
  /\ Count
  /\ term' = Clear(Ready(term))
  /\ wins' = IF Alive(stdscr) THEN wins
             ELSE [wins EXCEPT ![stdscr] = [NewWindow(Rows, Cols, 0, 0) EXCEPT !.owner = stdscr]]
  /\ clear_next' = TRUE
  /\ covered' = Covered(term', [w \in Windows |-> {}])
  /\ UNCHANGED <<brush, osk, pc, screen, room>>

(* Before initscr() there is no screen.                                    *)
Newwin(w) ==
  term.ready /\ \E s \in Sizes : Create(w, [NewWindow(s[1], s[2], s[3], s[4]) EXCEPT !.owner = w])

(* A subwindow of a subwindow has the same owner.                          *)
Subwin(w, parent) ==
  LET win == wins[parent]
  IN \E s \in Sizes :
       LET offy == s[3] - win.begy
           offx == s[4] - win.begx
       IN /\ offy >= 0 /\ offx >= 0 /\ offy + s[1] <= win.maxy /\ offx + s[2] <= win.maxx
          /\ Partial \/ s[2] = win.maxx
          /\ Create(w, [NewWindow(s[1], s[2], s[3], s[4]) EXCEPT
                          !.owner = win.owner, !.offy = win.offy + offy, !.offx = win.offx + offx,
                          !.cells = <<>>, !.marks = <<>>])

(* Nobody uses the cells of a window that has been deleted.                *)
Delwin(w) ==
  /\ \A v \in Open \ {w} : wins[v].owner # w
  /\ Edit([wins EXCEPT ![w] = NoWindow])

Alone(w) == wins[w].owner = w /\ \A v \in Open \ {w} : wins[v].owner # w

(* Mutant: the window's rows are not drawn again at the new place.         *)
Moved_NotTouched(ws, w, y, x) == [ws EXCEPT ![w].begy = y, ![w].begx = x]

Moved(ws, w, y, x) == TouchAll([ws EXCEPT ![w].begy = y, ![w].begx = x], w)

Mvwin(w) ==
  LET win == wins[w]
  IN \E y \in 0 .. Rows - 1, x \in 0 .. Cols - 1 :
       /\ y + win.maxy <= Rows /\ x + win.maxx <= Cols
       /\ Partial \/ Alone(w)
       /\ Count
       /\ wins' = Moved(wins, w, y, x)
       /\ covered' = [covered EXCEPT ![w] = {}]
       /\ UNCHANGED <<termVars, clear_next>>

Wmove(w) == \E p \in Inside(wins[w]) : Edit(MoveTo(wins, w, p[1], p[2]))

Waddch(w) == \E c \in Controls \cup {"control"} \cup Glyphs : Edit(Addch(wins, w, c))

Werase(w) == Edit(Erase(wins, w))

Wclear(w) == Edit([Erase(wins, w) EXCEPT ![w].clear = TRUE])

Wclrtoeol(w) == Edit(Put(wins, w, RestOfLine(wins[w]), Blank))

Wclrtobot(w) == Edit(Put(wins, w, RestOfWindow(wins[w]), Blank))

Touchwin(w) == Edit(TouchAll(wins, w))

(* clearok() of a window, or of curscr.                                    *)
Clearok(w) ==
  \E flag \in BOOLEAN :
    \/ Edit([wins EXCEPT ![w].clear = flag])
    \/ Count /\ clear_next' = flag /\ UNCHANGED <<termVars, wins, covered>>

Border(win) == {p \in Inside(win) : p[1] \in {0, win.maxy - 1} \/ p[2] \in {0, win.maxx - 1}}

BoxWindow(w) == \E c \in Glyphs : Edit(Put(wins, w, Border(wins[w]), c))

Wrefresh(w) ==
  /\ Count
  /\ Refresh(w)
  /\ UNCHANGED <<osk, pc, screen, room>>

(* wrefresh(curscr)                                                        *)
RefreshScreen ==
  /\ Count
  /\ Flush(Redraw(term))
  /\ UNCHANGED <<osk, pc, screen, room, wins, clear_next, covered>>

Wgetch(w) ==
  /\ Count
  /\ Refresh(w)
  /\ pc' = GetKey
  /\ UNCHANGED <<osk, screen, room>>

(* What wgetnstr() does to the window on a backspace.                      *)
Rubout(w) ==
  LET x == wins[w].curx - 1
  IN x >= 0 /\ Edit(Put(MoveTo(wins, w, wins[w].cury, x), w, {<<wins[w].cury, x>>}, Blank))

Endwin ==
  /\ Count
  /\ Flush(Goto(term, Rows - 1, 0))
  /\ UNCHANGED <<osk, pc, screen, room, wins, clear_next, covered>>

WindowCall(w) ==
  \/ Delwin(w) \/ Mvwin(w) \/ Wmove(w) \/ Waddch(w) \/ Werase(w) \/ Wclear(w) \/ Wclrtoeol(w) \/ Wclrtobot(w)
  \/ Touchwin(w) \/ Clearok(w) \/ BoxWindow(w) \/ Wrefresh(w) \/ Wgetch(w) \/ Rubout(w)

(* A call of the terminal's own functions.                                 *)
Plain ==
  /\ Count
  /\ TermCall
  /\ covered' = Covered(term', [w \in Windows |-> {}])
  /\ UNCHANGED <<wins, clear_next>>

Next ==
  \/ TermStep /\ UNCHANGED cursesVars
  \/ Plain \/ Initscr \/ RefreshScreen \/ Endwin
  \/ \E w \in Open : WindowCall(w)
  \/ \E w \in Windows \ {stdscr} : Newwin(w) \/ \E parent \in Open : Subwin(w, parent)

Spec == Init /\ [][Next]_vars
-----------------------------------------------------------------------------
(* The cursor is in the window, and the window's cells are in its owner's: *)
(* whatever is added, no call writes outside of them.                      *)
CursorInside ==
  \A w \in Open :
    /\ <<wins[w].cury, wins[w].curx>> \in Inside(wins[w])
    /\ \A p \in Inside(wins[w]) : Stored(wins[w], p) \in Inside(wins[wins[w].owner])

(* The panel of the keyboard is on the screen.                             *)
PanelUp == \E k \in DOMAIN pc : pc[k] \in {"osk_draw", "osk_poll"}

(* "Makes the screen match the window.  Only rows changed since the last   *)
(* refresh are copied": a row that is not marked is on the terminal as the *)
(* window has it, where no other window and no plain output has been drawn *)
(* over it since - whatever was shared, moved, cleared and typed over.     *)
RowsMatch ==
  ~PanelUp =>
    \A w \in Open : \A p \in Inside(wins[w]) :
      Visible(wins[w], p) /\ ~Marked(wins, w, p[1]) /\ Place(wins[w], p) \notin covered[wins[w].owner]
        => term.want[Place(wins[w], p)] = Content(wins, w, p)
=============================================================================
