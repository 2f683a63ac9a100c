--------------------------- MODULE Screen_proofs ----------------------------
(***************************************************************************)
(* A flush that has ended has drawn the screen, for every size of it and   *)
(* every number of cells the GPU can draw in a frame.  Above it, for all   *)
(* windows: cursors stay inside, and a row without a mark is on the        *)
(* terminal as its window has it.                                          *)
(***************************************************************************)
EXTENDS Curses, TLAPS, WellFoundedInduction

TermType ==
  [want : [Pos -> Cell], shown : [Pos -> Cell \cup {Unknown}], ready : BOOLEAN, dirty : BOOLEAN,
   first : Int, last : Int, y : Int, x : Int]

Picture == [Pos -> Cell \cup {Unknown}]

TermTypeOK ==
  /\ term \in TermType
  /\ osk \in [Pos -> Cell]
  /\ brush \in Int
  /\ screen \in Picture
  /\ room \in Nat

(* What every function of the library keeps of its variables: the range    *)
(* covers the cells that differ, and the shown ones are on the picture.    *)
Covers(t) ==
  /\ t.dirty => t.first \in Pos /\ t.last \in Pos
  /\ \A i \in Pos : t.want[i] # t.shown[i] => t.dirty /\ t.first <= i /\ i <= t.last

Drawn(t, picture) ==
  t.ready => \A i \in Pos : t.shown[i] # Unknown => picture[i] = t.shown[i]

Sound(t, picture) == t \in TermType /\ Covers(t) /\ Drawn(t, picture)

(* A flush has drawn the cells before its brush.                           *)
Swept ==
  \/ brush = -1
  \/ /\ term.ready /\ term.dirty /\ brush \in Nat /\ term.first <= brush
     /\ \A i \in Pos : term.want[i] # term.shown[i] => brush <= i

IInv == TermTypeOK /\ Sound(term, screen) /\ Swept

(* A set of positions has a least and a greatest member.                   *)
LEMMA LeastExists ==
  ASSUME NEW S \in SUBSET Nat, S # {}
  PROVE  Least(S) \in S /\ \A n \in S : Least(S) <= n
<1>1. \E m \in S : \A n \in S : ~ (<<n, m>> \in OpToRel(<, Nat))
  BY NatLessThanWellFounded, WFMin
<1>2. OpToRel(<, Nat) = {p \in Nat \X Nat : p[1] < p[2]}
  BY Zenon DEF OpToRel
<1>3. \A m, n \in S : n < m => <<n, m>> \in OpToRel(<, Nat)
  BY <1>2
<1>4. \A m, n \in S : ~ (n < m) => m <= n
  OBVIOUS
<1>5. \E m \in S : \A n \in S : m <= n
  BY <1>1, <1>3, <1>4, Zenon
<1> QED
  BY <1>5 DEF Least

LEMMA CellsPositive == Cells \in Nat /\ Cells >= 1
<1>1. Rows \in Nat /\ Cols \in Nat /\ Rows >= 1 /\ Cols >= 1
  BY TerminalSize
<1>2. \A a, b \in Nat : a >= 1 /\ b >= 1 => a * b \in Nat /\ a * b >= 1
  OBVIOUS
<1> QED
  BY <1>1, <1>2 DEF Cells

LEMMA GreatestExists ==
  ASSUME NEW S \in SUBSET Pos, S # {}
  PROVE  Greatest(S) \in S /\ \A n \in S : n <= Greatest(S)
<1> DEFINE T == {Cells - n : n \in S}
<1>0. \A n \in S : n \in Nat /\ Cells - n \in Nat
  BY CellsPositive DEF Pos
<1>1. T \in SUBSET Nat /\ T # {}
  BY <1>0
<1>2. PICK m \in S : Least(T) = Cells - m
  BY <1>1, LeastExists
<1>3. \A n \in S : Cells - n \in T
  OBVIOUS
<1>4. \A n \in S : Cells - m <= Cells - n
  BY <1>1, <1>2, <1>3, LeastExists
<1>5. \A n \in S : n <= m
  BY <1>4, CellsPositive DEF Pos
<1> QED
  BY <1>5 DEF Greatest

-----------------------------------------------------------------------------
(* The functions of the library keep its variables sound.                  *)

(* Everything differs, and the range is everything.                        *)
LEMMA DirtyAllSound ==
  ASSUME NEW t \in TermType, NEW picture, Drawn(t, picture)
  PROVE  Sound(DirtyAll(t), picture) /\ DirtyAll(t).dirty
<1> DEFINE u == DirtyAll(t)
<1>0. 0 \in Int /\ Cells - 1 \in Int
  BY CellsPositive
<1>a. u = [t EXCEPT !.dirty = TRUE, !.first = 0, !.last = Cells - 1]
  BY DEF DirtyAll
<1>b. u \in TermType
  BY <1>0, <1>a DEF TermType
<1>1. u.dirty = TRUE /\ u.first = 0 /\ u.last = Cells - 1 /\ u.shown = t.shown /\ u.ready = t.ready
  BY <1>a DEF TermType
<1> HIDE DEF u
<1>2. Covers(u)
  BY <1>1, CellsPositive DEF Covers, Pos
<1>3. Drawn(u, picture)
  BY <1>1 DEF Drawn
<1> QED
  BY <1>b, <1>1, <1>2, <1>3 DEF Sound, u

LEMMA RedrawSound ==
  ASSUME NEW t \in TermType, NEW picture
  PROVE  Sound(Redraw(t), picture) /\ Redraw(t).dirty
<1> DEFINE u == [t EXCEPT !.shown = [i \in Pos |-> Unknown]]
<1>1. u \in TermType /\ u.shown = [i \in Pos |-> Unknown]
  BY DEF TermType
<1>2. Drawn(u, picture)
  BY <1>1 DEF Drawn
<1> QED
  BY <1>1, <1>2, DirtyAllSound DEF Redraw

LEMMA ClearSound ==
  ASSUME NEW t, NEW picture, Sound(t, picture)
  PROVE  Sound(Clear(t), picture)
<1> DEFINE u == [t EXCEPT !.want = [i \in Pos |-> Blank]]
<1>1. u \in TermType /\ u.shown = t.shown /\ u.ready = t.ready
  BY TerminalCells DEF TermType, Sound, Cell
<1>2. Drawn(u, picture)
  BY <1>1 DEF Drawn, Sound
<1> QED
  BY <1>1, <1>2, DirtyAllSound DEF Clear

LEMMA GotoSound ==
  ASSUME NEW t, NEW picture, Sound(t, picture), NEW y \in Int, NEW x \in Int
  PROVE  Sound(Goto(t, y, x), picture)
<1> DEFINE u == Goto(t, y, x)
<1>1. u \in TermType /\ u.shown = t.shown /\ u.ready = t.ready /\ u.want = t.want
      /\ u.dirty = t.dirty /\ u.first = t.first /\ u.last = t.last
  BY DEF Goto, TermType, Sound
<1> QED
  BY <1>1 DEF Sound, Covers, Drawn

LEMMA ReadySound ==
  ASSUME NEW t, NEW picture, Sound(t, picture)
  PROVE  Sound(Ready(t), picture) /\ Ready(t).ready
<1>1. CASE t.ready
  BY <1>1 DEF Ready
<1>2. CASE ~t.ready
  <2> DEFINE u == Redraw(Clear(t))
             v == [u EXCEPT !.ready = TRUE]
  <2>1. u \in TermType /\ Sound(u, picture)
    BY ClearSound, RedrawSound DEF Sound
  <2>2. u.shown = [i \in Pos |-> Unknown]
    <3>1. Clear(t) \in TermType
      BY ClearSound DEF Sound
    <3> QED
      BY <3>1 DEF Redraw, DirtyAll, TermType
  <2> HIDE DEF u
  <2>3. v \in TermType
    BY <2>1 DEF TermType
  <2>4. v.ready = TRUE /\ v.shown = u.shown /\ v.want = u.want
        /\ v.dirty = u.dirty /\ v.first = u.first /\ v.last = u.last
    BY <2>1 DEF TermType
  <2>5. Sound(v, picture)
    BY <2>1, <2>2, <2>3, <2>4 DEF Sound, Covers, Drawn
  <2> HIDE DEF v
  <2>6. Sound(Goto(v, 0, 0), picture)
    BY <2>5, GotoSound
  <2>7. Goto(v, 0, 0).ready
    BY <2>3, <2>4 DEF Goto, TermType
  <2>8. Ready(t) = Goto(v, 0, 0)
    BY <1>2 DEF Ready, v, u
  <2> QED
    BY <2>6, <2>7, <2>8
<1> QED
  BY <1>1, <1>2

(* Cells are written: the range grows to hold those that change.           *)
LEMMA SetAllSound ==
  ASSUME NEW t, NEW picture, Sound(t, picture), NEW cells,
         DOMAIN cells \subseteq Pos, \A i \in DOMAIN cells : cells[i] \in Cell
  PROVE  /\ Sound(SetAll(t, cells), picture)
         /\ SetAll(t, cells).ready = t.ready
         /\ SetAll(t, cells).y = t.y /\ SetAll(t, cells).x = t.x
<1> DEFINE changed == {i \in DOMAIN cells : t.want[i] # cells[i]}
           range   == IF t.dirty THEN changed \cup {t.first, t.last} ELSE changed
           u       == SetAll(t, cells)
<1>t. t \in TermType
  BY DEF Sound
<1>1. CASE changed = {}
  BY <1>1 DEF SetAll
<1>2. CASE changed # {}
  <2>1. range \in SUBSET Pos /\ range # {} /\ changed \subseteq range
    BY <1>2 DEF Sound, Covers
  <2>2. range \in SUBSET Nat
    BY <2>1, CellsPositive DEF Pos
  <2>3. Least(range) \in range /\ \A n \in range : Least(range) <= n
    BY <2>1, <2>2, LeastExists
  <2>4. Greatest(range) \in range /\ \A n \in range : n <= Greatest(range)
    BY <2>1, GreatestExists
  <2>5. u = [t EXCEPT !.want  = [i \in Pos |-> IF i \in changed THEN cells[i] ELSE @[i]],
                      !.dirty = TRUE, !.first = Least(range), !.last = Greatest(range)]
    BY <1>2, Zenon DEF SetAll
  <2> HIDE DEF changed, range
  <2>6. Least(range) \in Int /\ Greatest(range) \in Int /\ Least(range) \in Pos /\ Greatest(range) \in Pos
    <3>1. Least(range) \in Pos /\ Greatest(range) \in Pos
      BY <2>1, <2>3, <2>4
    <3> QED
      BY <3>1, CellsPositive DEF Pos
  <2>w. [i \in Pos |-> IF i \in changed THEN cells[i] ELSE t.want[i]] \in [Pos -> Cell]
    BY <1>t DEF changed, TermType
  <2>7. /\ u \in TermType /\ u.shown = t.shown /\ u.ready = t.ready /\ u.dirty = TRUE
        /\ u.first = Least(range) /\ u.last = Greatest(range) /\ u.y = t.y /\ u.x = t.x
        /\ u.want = [i \in Pos |-> IF i \in changed THEN cells[i] ELSE t.want[i]]
    BY <1>t, <2>5, <2>6, <2>w DEF TermType
  <2> HIDE DEF u
  <2>8. Covers(u)
    <3> SUFFICES ASSUME NEW i \in Pos, u.want[i] # u.shown[i]
                 PROVE  u.first <= i /\ i <= u.last
      BY <2>6, <2>7 DEF Covers
    <3>1. CASE i \in changed
      BY <2>1, <2>3, <2>4, <2>7, <3>1
    <3>2. CASE i \notin changed
      <4>1. t.dirty /\ t.first <= i /\ i <= t.last
        BY <2>7, <3>2 DEF Sound, Covers
      <4>2. t.first \in range /\ t.last \in range
        BY <4>1 DEF range
      <4>3. Least(range) <= t.first /\ t.last <= Greatest(range)
        BY <2>3, <2>4, <4>2
      <4>4. i \in Int /\ t.first \in Int /\ t.last \in Int
        BY <1>t, CellsPositive DEF Pos, TermType
      <4> QED
        BY <2>6, <2>7, <4>1, <4>3, <4>4
    <3> QED
      BY <3>1, <3>2
  <2>9. Drawn(u, picture)
    BY <2>7 DEF Drawn, Sound
  <2> QED
    BY <2>7, <2>8, <2>9 DEF Sound, u
<1> QED
  BY <1>1, <1>2

LEMMA FillSound ==
  ASSUME NEW t, NEW picture, Sound(t, picture), NEW y, NEW x, NEW h, NEW w, NEW c \in Glyphs
  PROVE  Sound(Fill(t, y, x, h, w, c), picture)
<1> DEFINE cells == [i \in Rectangle(y, x, h, w) |-> c]
<1>1. DOMAIN cells \subseteq Pos
  BY DEF Rectangle
<1>2. \A i \in DOMAIN cells : cells[i] \in Cell
  BY DEF Cell
<1> HIDE DEF cells
<1>3. Sound(SetAll(t, cells), picture)
  BY <1>1, <1>2, SetAllSound
<1> QED
  BY <1>3 DEF Fill, cells

LEMMA BoxSound ==
  ASSUME NEW t, NEW picture, Sound(t, picture), NEW y, NEW x, NEW h, NEW w, NEW c \in Glyphs
  PROVE  Sound(Box(t, y, x, h, w, c), picture)
<1> DEFINE cells == [i \in Rectangle(y, x, h, w) \ Rectangle(y + 1, x + 1, h - 2, w - 2) |-> c]
           u == Fill(t, y, x, h, w, Blank)
<1>1. Sound(u, picture)
  BY FillSound, TerminalCells
<1>2. DOMAIN cells \subseteq Pos
  BY DEF Rectangle
<1>3. \A i \in DOMAIN cells : cells[i] \in Cell
  BY DEF Cell
<1> HIDE DEF cells, u
<1>4. Sound(SetAll(u, cells), picture)
  BY <1>1, <1>2, <1>3, SetAllSound
<1> QED
  BY <1>4 DEF Box, cells, u

LEMMA TextSound ==
  ASSUME NEW t, NEW picture, Sound(t, picture), NEW y, NEW s \in Seq(Glyphs)
  PROVE  Sound(Text(t, y, 0, s), picture)
<1> DEFINE cells == [i \in Rectangle(y, 0, 1, Len(s)) |-> s[ColOf(i) - 0 + 1]]
<1>1. DOMAIN cells \subseteq Pos
  BY DEF Rectangle
<1>2. \A i \in DOMAIN cells : cells[i] \in Cell
  BY DEF Cell, Rectangle
<1> HIDE DEF cells
<1>3. Sound(SetAll(t, cells), picture)
  BY <1>1, <1>2, SetAllSound
<1> QED
  BY <1>3 DEF Text, cells

LEMMA RestoreSound ==
  ASSUME NEW t, NEW picture, Sound(t, picture), NEW buffer \in [Pos -> Cell]
  PROVE  Sound(Restore(t, buffer), picture)
<1> DEFINE u == [t EXCEPT !.want = buffer]
<1>1. u \in TermType /\ u.shown = t.shown /\ u.ready = t.ready
  BY DEF TermType, Sound
<1>2. Drawn(u, picture)
  BY <1>1 DEF Drawn, Sound
<1> QED
  BY <1>1, <1>2, DirtyAllSound DEF Restore

LEMMA ScrollSound ==
  ASSUME NEW t, NEW picture, Sound(t, picture), NEW n \in Int
  PROVE  Sound(Scroll(t, n), picture)
<1>1. CASE n <= 0
  BY <1>1 DEF Scroll
<1>2. CASE n > 0
  <2> DEFINE want == [i \in Pos |-> IF i + n * Cols < Cells THEN t.want[i + n * Cols] ELSE Blank]
             u == [t EXCEPT !.want = want, !.y = @ - n]
  <2>0. n \in Nat /\ Cols \in Nat
    BY <1>2, TerminalSize
  <2>a. n * Cols \in Nat
    BY <2>0
  <2>1. \A i \in Pos : i + n * Cols < Cells => i + n * Cols \in Pos
    BY <2>a, CellsPositive DEF Pos
  <2>2. want \in [Pos -> Cell]
    BY <2>1, TerminalCells DEF Sound, TermType, Cell
  <2> HIDE DEF want
  <2>b. t \in TermType /\ t.y - n \in Int
    BY <2>0 DEF TermType, Sound
  <2>c. u \in TermType
    BY <2>2, <2>b DEF TermType
  <2>3. u.shown = t.shown /\ u.ready = t.ready
    BY <2>b DEF TermType
  <2>4. Drawn(u, picture)
    BY <2>3 DEF Drawn, Sound
  <2>5. Scroll(t, n) = DirtyAll(u)
    BY <1>2 DEF Scroll, want
  <2> HIDE DEF u
  <2> QED
    BY <2>c, <2>4, <2>5, DirtyAllSound
<1> QED
  BY <1>1, <1>2

LEMMA IntoViewSound ==
  ASSUME NEW t, NEW picture, Sound(t, picture)
  PROVE  Sound(IntoView(t), picture)
<1>1. t.y - Rows + 1 \in Int
  BY TerminalSize DEF Sound, TermType
<1> QED
  BY <1>1, ScrollSound DEF IntoView

LEMMA TypeSound ==
  ASSUME NEW t, NEW picture, Sound(t, picture), NEW c \in Glyphs
  PROVE  Sound(Type(t, c), picture)
<1> DEFINE wrapped == IF t.x >= Cols THEN Goto(t, t.y + 1, 0) ELSE t
           u == IntoView(wrapped)
           cells == [i \in {i \in Pos : OnScreen(u.y, u.x) /\ i = Index(u.y, u.x)} |-> c]
           v == SetAll(u, cells)
<1>1. Sound(wrapped, picture)
  <2>1. t.y + 1 \in Int
    BY DEF Sound, TermType
  <2> QED
    BY <2>1, GotoSound
<1> HIDE DEF wrapped
<1>2. Sound(u, picture)
  BY <1>1, IntoViewSound
<1>3. DOMAIN cells \subseteq Pos /\ \A i \in DOMAIN cells : cells[i] \in Cell
  BY DEF Cell
<1> HIDE DEF u, cells
<1>4. Sound(v, picture)
  BY <1>2, <1>3, SetAllSound
<1> HIDE DEF v
<1> DEFINE r == [v EXCEPT !.x = @ + 1]
<1>5. r \in TermType /\ r.shown = v.shown /\ r.ready = v.ready /\ r.want = v.want
      /\ r.dirty = v.dirty /\ r.first = v.first /\ r.last = v.last
  BY <1>4 DEF TermType, Sound
<1>6. Sound(r, picture)
  BY <1>4, <1>5 DEF Sound, Covers, Drawn
<1> QED
  BY <1>6 DEF Type, v, cells, u, wrapped

LEMMA PutcSound ==
  ASSUME NEW t, NEW picture, Sound(t, picture), NEW c \in Controls \cup Glyphs
  PROVE  Sound(Putc(t, c), picture)
<1> DEFINE u == Ready(t)
           put == CASE c = "newline"   -> Goto(u, u.y + 1, 0)
                    [] c = "return"    -> Goto(u, u.y, 0)
                    [] c = "backspace" -> IF u.x > 0 THEN Goto(u, u.y, u.x - 1) ELSE u
                    [] c = "tab"       -> Goto(u, u.y, (u.x \div TabStop + 1) * TabStop)
                    [] OTHER           -> Type(u, c)
<1>1. Sound(u, picture)
  BY ReadySound
<1> HIDE DEF u
<1>2. u.y \in Int /\ u.x \in Int /\ u.y + 1 \in Int /\ u.x - 1 \in Int
  BY <1>1 DEF Sound, TermType
<1>3. (u.x \div TabStop + 1) * TabStop \in Int
  <2>1. TabStop \in Int /\ TabStop > 0
    BY TerminalTabs
  <2>2. u.x \div TabStop \in Int
    BY <1>2, <2>1
  <2> QED
    BY <2>1, <2>2
<1>4. CASE c \in Controls
  <2>1. Sound(Goto(u, u.y + 1, 0), picture) /\ Sound(Goto(u, u.y, 0), picture)
        /\ Sound(Goto(u, u.y, u.x - 1), picture)
        /\ Sound(Goto(u, u.y, (u.x \div TabStop + 1) * TabStop), picture)
    BY <1>1, <1>2, <1>3, GotoSound
  <2> QED
    BY <1>1, <1>4, <2>1, IntoViewSound DEF Putc, u, Controls
<1>5. CASE c \notin Controls
  <2>1. c \in Glyphs /\ Sound(Type(u, c), picture)
    BY <1>1, <1>5, TypeSound
  <2>2. Putc(t, c) = IntoView(Type(u, c))
    BY <1>5 DEF Putc, u, Controls
  <2> QED
    BY <2>1, <2>2, IntoViewSound
<1> QED
  BY <1>4, <1>5

-----------------------------------------------------------------------------
(* The calls and the steps keep the invariant.                             *)

LEMMA InitIInv == TermInit => IInv
<1> SUFFICES ASSUME TermInit PROVE IInv
  OBVIOUS
<1>0. \A i \in Pos : Zero \in Cell
  BY DEF Cell
<1>1. term \in TermType
  BY DEF TermInit, TermType, Cell
<1>2. TermTypeOK
  BY <1>1, TerminalBudget DEF TermInit, TermTypeOK, Picture, Cell
<1>3. term.want = [i \in Pos |-> Zero] /\ term.shown = [i \in Pos |-> Zero]
      /\ term.ready = FALSE /\ term.dirty = FALSE
  BY DEF TermInit
<1>4. Covers(term) /\ Drawn(term, screen)
  BY <1>3 DEF Covers, Drawn
<1> QED
  BY <1>1, <1>2, <1>4 DEF IInv, Sound, Swept, TermInit

(* A call that leaves its work in the variables.                           *)
LEMMA CallIInv ==
  ASSUME IInv, NEW t, Sound(t, screen), Call(t)
  PROVE  IInv'
<1>1. term' = t /\ UNCHANGED <<brush, osk, screen, room>> /\ brush \in Int /\ ~(brush >= 0)
  BY DEF Call, Idle, Painting, IInv, TermTypeOK
<1>2. brush = -1
  BY <1>1 DEF IInv, Swept
<1>3. TermTypeOK'
  BY <1>1 DEF IInv, TermTypeOK, Sound
<1> QED
  BY <1>1, <1>2, <1>3 DEF IInv, Swept, Sound, Covers, Drawn

LEMMA WriteIInv == IInv /\ Write => IInv'
<1> SUFFICES ASSUME IInv, Write PROVE IInv'
  OBVIOUS
<1>0. Sound(term, screen) /\ Rows \in Int /\ Cols \in Int
  BY TerminalSize DEF IInv
<1>1. CASE Call(Ready(term))
  BY <1>0, <1>1, ReadySound, CallIInv
<1>2. CASE Call(Clear(term))
  BY <1>0, <1>2, ClearSound, CallIInv
<1>3. ASSUME NEW y \in -1 .. Rows, NEW x \in -1 .. Cols, NEW c \in Glyphs, Call(Fill(term, y, x, 1, 1, c))
      PROVE  IInv'
  BY <1>0, <1>3, FillSound, CallIInv
<1>4. ASSUME NEW y \in 0 .. Rows - 1, NEW c \in Glyphs, NEW d \in Glyphs, Call(Text(term, y, 0, <<c, d>>))
      PROVE  IInv'
  <2>1. <<c, d>> \in Seq(Glyphs)
    OBVIOUS
  <2> QED
    BY <1>0, <1>4, <2>1, TextSound, CallIInv
<1>5. ASSUME NEW y \in -1 .. Rows - 1, NEW w \in 1 .. Cols, NEW c \in Glyphs, Call(Box(term, y, 0, 2, w, c))
      PROVE  IInv'
  BY <1>0, <1>5, BoxSound, CallIInv
<1>6. ASSUME NEW y \in -1 .. Rows + 1, NEW x \in 0 .. Cols, Call(Goto(term, y, x))
      PROVE  IInv'
  BY <1>0, <1>6, GotoSound, CallIInv
<1>7. ASSUME NEW c \in Controls \cup Glyphs, Call(Putc(term, c))
      PROVE  IInv'
  BY <1>0, <1>7, PutcSound, CallIInv
<1> QED
  BY <1>1, <1>2, <1>3, <1>4, <1>5, <1>6, <1>7 DEF Write

(* A flush starts with the cells that differ before its brush.             *)
LEMMA FlushIInv ==
  ASSUME IInv, NEW t, Sound(t, screen), Flush(t), UNCHANGED <<osk, screen, room>>
  PROVE  IInv'
<1> DEFINE u == Ready(t)
<1>1. Sound(u, screen) /\ u.ready
  BY ReadySound
<1>2. term' = u /\ brush' = IF u.dirty THEN u.first ELSE -1
  BY DEF Flush
<1> HIDE DEF u
<1>3. u \in TermType /\ (u.dirty => u.first \in Nat)
  BY <1>1, CellsPositive DEF Sound, Covers, Pos
<1>4. brush' \in Int
  BY <1>2, <1>3
<1>5. TermTypeOK'
  BY <1>2, <1>3, <1>4 DEF IInv, TermTypeOK
<1>6. Sound(term, screen)'
  BY <1>1, <1>2 DEF Sound, Covers, Drawn
<1>7. Swept'
  BY <1>1, <1>2, <1>3 DEF Swept, Sound, Covers
<1> QED
  BY <1>5, <1>6, <1>7 DEF IInv

(* A cell is drawn, if it differs, and the brush goes on.                  *)
LEMMA PaintCellIInv == IInv /\ PaintCell => IInv'
<1> SUFFICES ASSUME IInv, PaintCell PROVE IInv'
  OBVIOUS
<1>t. term \in TermType /\ screen \in Picture /\ room \in Nat /\ brush \in Int
  BY DEF IInv, TermTypeOK
<1>0. /\ term.ready /\ term.dirty /\ brush \in Nat /\ term.first <= brush /\ brush <= term.last
      /\ term.first \in Pos /\ term.last \in Pos /\ term.first \in Int /\ term.last \in Int
      /\ \A i \in Pos : term.want[i] # term.shown[i] => brush <= i
  BY <1>t DEF IInv, Swept, Painting, PaintCell, Sound, Covers, TermType
<1>1. brush \in Pos
  BY <1>0, CellsPositive DEF Pos
<1>2. osk' = osk
  BY DEF PaintCell
<1>3. CASE term.want[brush] = term.shown[brush]
  <2>1. brush' = brush + 1 /\ term' = term /\ screen' = screen /\ room' = room
    BY <1>3 DEF PaintCell
  <2>2. \A i \in Pos : term.want[i] # term.shown[i] => brush + 1 <= i
    BY <1>0, <1>3, CellsPositive DEF Pos
  <2>3. Swept'
    BY <1>0, <2>1, <2>2 DEF Swept
  <2>4. TermTypeOK'
    BY <1>0, <1>2, <2>1 DEF IInv, TermTypeOK
  <2> QED
    BY <2>1, <2>3, <2>4 DEF IInv, Sound, Covers, Drawn
<1>4. CASE term.want[brush] # term.shown[brush] /\ ~EnoughRoom
  <2>1. brush' = brush /\ term' = term /\ screen' = screen /\ room' \in Nat
    BY <1>4, TerminalBudget DEF PaintCell
  <2>2. TermTypeOK'
    BY <1>2, <2>1 DEF IInv, TermTypeOK
  <2> QED
    BY <2>1, <2>2 DEF IInv, Sound, Covers, Drawn, Swept
<1>5. CASE term.want[brush] # term.shown[brush] /\ EnoughRoom
  <2>1. /\ screen' = [screen EXCEPT ![brush] = term.want[brush]] /\ room' = room - 1
        /\ term' = [term EXCEPT !.shown[brush] = term.want[brush]] /\ brush' = brush + 1
    BY <1>5 DEF PaintCell, Draw, EnoughRoom
  <2>2. term.want[brush] \in Cell /\ term.shown \in [Pos -> Cell \cup {Unknown}]
    BY <1>t, <1>1 DEF TermType
  <2>3. [term.shown EXCEPT ![brush] = term.want[brush]] \in [Pos -> Cell \cup {Unknown}]
    BY <2>2
  <2>4. /\ term'.shown = [term.shown EXCEPT ![brush] = term.want[brush]]
        /\ term'.want = term.want /\ term'.ready = term.ready /\ term'.dirty = term.dirty
        /\ term'.first = term.first /\ term'.last = term.last
    BY <1>t, <2>1 DEF TermType
  <2>5. term' \in TermType
    BY <1>t, <2>1, <2>3 DEF TermType
  <2>6. screen' \in Picture /\ room' \in Nat /\ brush' \in Int
    <3>1. screen' \in Picture
      BY <1>t, <2>1, <2>2 DEF Picture
    <3>2. room > 0
      BY <1>5 DEF EnoughRoom
    <3>3. room' \in Nat
      BY <1>t, <2>1, <3>2
    <3>4. brush' \in Int
      BY <1>0, <2>1
    <3> QED
      BY <3>1, <3>3, <3>4
  <2>7. \A i \in Pos : term'.shown[i] = IF i = brush THEN term.want[brush] ELSE term.shown[i]
    BY <2>2, <2>4
  <2>8. \A i \in Pos : screen'[i] = IF i = brush THEN term.want[brush] ELSE screen[i]
    BY <1>t, <2>1 DEF Picture
  <2>9. Covers(term')
    BY <1>0, <2>4, <2>7 DEF IInv, Sound, Covers
  <2>10. Drawn(term', screen')
    BY <1>0, <2>7, <2>8 DEF IInv, Sound, Drawn
  <2>11. \A i \in Pos : term'.want[i] # term'.shown[i] => brush + 1 <= i
    BY <1>0, <2>4, <2>7, CellsPositive DEF Pos
  <2>12. Swept'
    BY <1>0, <2>1, <2>4, <2>11 DEF Swept
  <2>13. TermTypeOK'
    BY <1>2, <2>5, <2>6 DEF IInv, TermTypeOK
  <2>14. Sound(term, screen)'
    BY <2>5, <2>9, <2>10 DEF Sound, Covers, Drawn
  <2> QED
    BY <2>12, <2>13, <2>14 DEF IInv
<1> QED
  BY <1>3, <1>4, <1>5

LEMMA PaintEndIInv == IInv /\ PaintEnd => IInv'
<1> SUFFICES ASSUME IInv, PaintEnd PROVE IInv'
  OBVIOUS
<1>t. term \in TermType
  BY DEF IInv, TermTypeOK
<1>1. brush' = -1 /\ UNCHANGED <<osk, screen, room>> /\ term' = [term EXCEPT !.dirty = FALSE]
  BY DEF PaintEnd
<1>2. term' \in TermType
  BY <1>t, <1>1 DEF TermType
<1>3. /\ term'.shown = term.shown /\ term'.want = term.want /\ term'.ready = term.ready
      /\ term'.dirty = FALSE
  BY <1>t, <1>1 DEF TermType
<1>4. \A i \in Pos : term.want[i] = term.shown[i]
  BY <1>t, CellsPositive DEF IInv, Swept, Sound, Covers, PaintEnd, Painting, Pos, TermType
<1>5. Covers(term') /\ Drawn(term', screen')
  BY <1>1, <1>3, <1>4 DEF Covers, Drawn, IInv, Sound
<1>6. TermTypeOK'
  BY <1>1, <1>2 DEF IInv, TermTypeOK
<1> QED
  BY <1>1, <1>2, <1>5, <1>6 DEF IInv, Sound, Swept, Covers, Drawn

(* The steps that only change what is left to do or the room.              *)
LEMMA StillIInv ==
  ASSUME IInv, UNCHANGED <<term, brush, osk, screen>>, room' \in Nat
  PROVE  IInv'
BY DEF IInv, TermTypeOK, Sound, Covers, Drawn, Swept

(* The steps that replace the variables outside of a flush.                *)
LEMMA ReplaceIInv ==
  ASSUME IInv, NEW t, Sound(t, screen), ~Painting, term' = t, osk' \in [Pos -> Cell],
         UNCHANGED <<brush, screen, room>>
  PROVE  IInv'
<1>1. brush = -1
  BY DEF IInv, TermTypeOK, Swept, Painting
<1>2. TermTypeOK'
  BY DEF IInv, TermTypeOK, Sound
<1> QED
  BY <1>1, <1>2 DEF IInv, Swept, Sound, Covers, Drawn

LEMMA StepIInv == IInv /\ TermStep => IInv'
<1> SUFFICES ASSUME IInv, TermStep PROVE IInv'
  OBVIOUS
<1>0. Sound(term, screen) /\ osk \in [Pos -> Cell] /\ Budget \in Nat /\ room \in Nat
  BY TerminalBudget DEF IInv, TermTypeOK
<1>1. CASE PaintCell
  BY <1>1, PaintCellIInv
<1>2. CASE PaintEnd
  BY <1>2, PaintEndIInv
<1>3. CASE EndFrame
  BY <1>0, <1>3, StillIInv DEF EndFrame
<1>4. CASE FlushStep
  BY <1>0, <1>4, FlushIInv DEF FlushStep
<1>5. CASE OskOpen
  <2>1. Sound(Ready(term), screen) /\ Ready(term).want \in [Pos -> Cell]
    <3>1. Sound(Ready(term), screen)
      BY <1>0, ReadySound
    <3> QED
      BY <3>1 DEF Sound, TermType
  <2> QED
    BY <1>5, <2>1, ReplaceIInv DEF OskOpen, At
<1>6. CASE OskDraw
  <2>1. PICK c \in Glyphs : term' = Fill(term, PanelTop, 0, 1, Cols, c)
    BY <1>6 DEF OskDraw
  <2>2. Sound(Fill(term, PanelTop, 0, 1, Cols, c), screen)
    BY <1>0, FillSound
  <2> QED
    BY <1>0, <1>6, <2>1, <2>2, ReplaceIInv DEF OskDraw, At
<1>7. CASE OskPoll
  <2>1. CASE term' = term
    BY <1>0, <1>7, <2>1, ReplaceIInv DEF OskPoll, At
  <2>2. CASE term' = Restore(term, osk)
    <3>1. Sound(Restore(term, osk), screen)
      BY <1>0, RestoreSound
    <3> QED
      BY <1>0, <1>7, <2>2, <3>1, ReplaceIInv DEF OskPoll, At
  <2> QED
    BY <1>7, <2>1, <2>2 DEF OskPoll
<1> QED
  BY <1>1, <1>2, <1>3, <1>4, <1>5, <1>6, <1>7 DEF TermStep

LEMMA TermCallIInv == IInv /\ TermCall => IInv'
<1> SUFFICES ASSUME IInv, TermCall PROVE IInv'
  OBVIOUS
<1>0. Sound(term, screen) /\ osk \in [Pos -> Cell] /\ room \in Nat
  BY DEF IInv, TermTypeOK
<1>1. CASE Write
  BY <1>1, WriteIInv
<1>2. CASE CallFlush
  BY <1>0, <1>2, FlushIInv DEF CallFlush
<1>3. CASE CallFrame
  BY <1>0, <1>3, StillIInv DEF CallFrame
<1>4. CASE CallGetKey
  <2>1. Sound(Ready(term), screen)
    BY <1>0, ReadySound
  <2> QED
    BY <1>0, <1>4, <2>1, ReplaceIInv DEF CallGetKey, Idle
<1>5. CASE DrawOver
  <2>1. term \in TermType /\ screen \in Picture
    BY DEF IInv, TermTypeOK
  <2>2. PICK i \in Pos, c \in Glyphs : Draw(i, c)
    BY <1>5 DEF DrawOver
  <2>3. screen' \in Picture /\ room' \in Nat
    BY <1>0, <2>1, <2>2 DEF Draw, Picture, Cell
  <2>4. term' = Redraw(term) /\ osk' = osk /\ brush' = brush
    BY <1>5 DEF DrawOver
  <2>5. Sound(term', screen')
    BY <2>1, <2>4, RedrawSound
  <2>6. brush = -1
    BY <1>5 DEF DrawOver, Idle, Painting, IInv, TermTypeOK, Swept
  <2>7. TermTypeOK'
    BY <1>0, <2>3, <2>4, <2>5 DEF IInv, TermTypeOK, Sound
  <2> QED
    BY <2>4, <2>5, <2>6, <2>7 DEF IInv, Swept, Sound, Covers, Drawn
<1> QED
  BY <1>1, <1>2, <1>3, <1>4, <1>5 DEF TermCall

(* The cells that differ are covered, what is believed to be drawn is, and *)
(* so the screen shows what was written when nothing is left to draw.      *)
LEMMA IInvShown == IInv => DirtyCovers /\ ShownIsDrawn /\ CleanMeansShown
<1> SUFFICES ASSUME IInv PROVE DirtyCovers /\ ShownIsDrawn /\ CleanMeansShown
  OBVIOUS
<1>t. term \in TermType /\ screen \in Picture /\ Unknown \notin Cell
  BY TerminalCells DEF IInv, TermTypeOK, Cell
<1>1. DirtyCovers
  BY <1>t, CellsPositive DEF DirtyCovers, IInv, Sound, Covers, Pos, TermType
<1>2. ShownIsDrawn
  BY DEF ShownIsDrawn, IInv, Sound, Drawn
<1>3. CleanMeansShown
  <2> SUFFICES ASSUME term.ready, ~term.dirty PROVE screen = term.want
    BY DEF CleanMeansShown
  <2>1. \A i \in Pos : term.want[i] = term.shown[i] /\ term.want[i] \in Cell
    BY <1>t, <1>1 DEF DirtyCovers, TermType
  <2>2. \A i \in Pos : screen[i] = term.want[i]
    BY <1>t, <1>2, <2>1 DEF ShownIsDrawn
  <2>3. term.want \in [Pos -> Cell]
    BY <1>t DEF TermType
  <2> QED
    BY <1>t, <2>2, <2>3 DEF Picture
<1> QED
  BY <1>1, <1>2, <1>3

(* However the program writes, scrolls, draws and asks for keys, and       *)
(* wherever frames end in the middle of a flush, the console shows what    *)
(* was written once the flush has ended.                                   *)
THEOREM TerminalShows == TermSpec => []CleanMeansShown
<1>1. TermInit => IInv
  BY InitIInv
<1>2. IInv /\ [TermStep \/ TermCall]_termVars => IInv'
  <2>1. ASSUME IInv, UNCHANGED termVars PROVE IInv'
    BY <2>1, StillIInv DEF termVars, IInv, TermTypeOK
  <2> QED
    BY <2>1, StepIInv, TermCallIInv
<1>3. IInv => CleanMeansShown
  BY IInvShown
<1> QED
  BY <1>1, <1>2, <1>3, PTL DEF TermSpec

-----------------------------------------------------------------------------
(* Windows above the terminal.                                             *)

CellMaps == UNION {[S -> Glyphs] : S \in SUBSET (Nat \X Nat)}
MarkMaps == UNION {[S -> BOOLEAN] : S \in SUBSET Nat}

WindowType ==
  [owner : Windows, offy : Nat, offx : Nat, cury : Int, curx : Int, maxy : Nat \ {0}, maxx : Nat \ {0},
   begy : Int, begx : Int, clear : BOOLEAN, cells : CellMaps, marks : MarkMaps]

WindowMap == [Windows -> WindowType \cup {NoWindow}]

Live(ws) == {v \in Windows : ws[v] # NoWindow}

(* A window's cells and marks are its owner's, which owns itself.          *)
OwnCells(win) ==
  /\ win.cells \in [Inside(win) -> Glyphs]
  /\ win.marks \in [0 .. win.maxy - 1 -> BOOLEAN]

Shape(ws) ==
  \A v \in Live(ws) :
    /\ ws[v].owner \in Live(ws)
    /\ ws[ws[v].owner].owner = ws[v].owner
    /\ ws[v].offy + ws[v].maxy <= ws[ws[v].owner].maxy
    /\ ws[v].offx + ws[v].maxx <= ws[ws[v].owner].maxx
    /\ ws[v].owner = v => OwnCells(ws[v])

CursorIn(win) == win.cury \in 0 .. win.maxy - 1 /\ win.curx \in 0 .. win.maxx - 1

(* Without Partial: windows that share cells have them at the same places. *)
Aligned(ws) ==
  \A v \in Live(ws) :
    /\ ws[v].offx = 0
    /\ ws[v].maxx = ws[ws[v].owner].maxx
    /\ ws[v].begx = ws[ws[v].owner].begx
    /\ ws[v].begy = ws[ws[v].owner].begy + ws[v].offy

(* The cells of an unmarked row are wanted where nothing is drawn over.    *)
CellMatches(win, want, over, q) ==
  Visible(win, q) /\ ~win.marks[q[1]] /\ Place(win, q) \notin over
    => want[Place(win, q)] = win.cells[q]

Matched(ws, want, over) ==
  \A o \in Live(ws) :
    ws[o].owner = o => \A q \in Inside(ws[o]) : CellMatches(ws[o], want, over[o], q)

(* What calls that change cells, marks and cursors leave alone.            *)
SamePlace(a, b) ==
  /\ b.owner = a.owner /\ b.offy = a.offy /\ b.offx = a.offx
  /\ b.maxy = a.maxy /\ b.maxx = a.maxx /\ b.begy = a.begy /\ b.begx = a.begx

(* Cells change in rows that are marked, and no mark is lost.              *)
Marking(a, b) ==
  /\ OwnCells(b)
  /\ \A q \in Inside(a) : b.cells[q] # a.cells[q] => b.marks[q[1]]
  /\ \A y \in 0 .. a.maxy - 1 : a.marks[y] => b.marks[y]

Edits(ws, us) ==
  /\ us \in WindowMap
  /\ Live(us) = Live(ws)
  /\ \A v \in Live(ws) : SamePlace(ws[v], us[v])
  /\ \A o \in Live(ws) : ws[o].owner = o => Marking(ws[o], us[o])

SameCursors(ws, us) ==
  \A v \in Live(ws) : us[v].cury = ws[v].cury /\ us[v].curx = ws[v].curx

-----------------------------------------------------------------------------

(* The components of a window.                                             *)
LEMMA WindowFields ==
  ASSUME NEW win \in WindowType
  PROVE  /\ win.owner \in Windows /\ win.offy \in Nat /\ win.offx \in Nat /\ win.cury \in Int /\ win.curx \in Int
         /\ win.maxy \in Nat /\ win.maxy > 0 /\ win.maxx \in Nat /\ win.maxx > 0
         /\ win.begy \in Int /\ win.begx \in Int /\ win.clear \in BOOLEAN
         /\ win.cells \in CellMaps /\ win.marks \in MarkMaps
BY DEF WindowType

LEMMA LiveTyped ==
  ASSUME NEW ws \in WindowMap, NEW v \in Live(ws)
  PROVE  v \in Windows /\ ws[v] \in WindowType
BY DEF WindowMap, Live

LEMMA WindowIsLive ==
  ASSUME NEW win \in WindowType
  PROVE  win # NoWindow
<1>1. win.owner # "none"
  BY WindowNames DEF WindowType
<1> QED
  BY <1>1 DEF NoWindow

(* The components of a window that is changed in one of them.              *)
LEMMA ExceptMarks ==
  ASSUME NEW win \in WindowType, NEW m \in MarkMaps
  PROVE  LET u == [win EXCEPT !.marks = m]
         IN u \in WindowType /\ SamePlace(win, u) /\ u.marks = m /\ u.cells = win.cells
            /\ u.cury = win.cury /\ u.curx = win.curx /\ u.clear = win.clear
BY DEF WindowType, SamePlace

LEMMA ExceptCells ==
  ASSUME NEW win \in WindowType, NEW m \in CellMaps
  PROVE  LET u == [win EXCEPT !.cells = m]
         IN u \in WindowType /\ SamePlace(win, u) /\ u.cells = m /\ u.marks = win.marks
            /\ u.cury = win.cury /\ u.curx = win.curx /\ u.clear = win.clear
BY DEF WindowType, SamePlace

LEMMA ExceptClear ==
  ASSUME NEW win \in WindowType, NEW b \in BOOLEAN
  PROVE  LET u == [win EXCEPT !.clear = b]
         IN u \in WindowType /\ SamePlace(win, u) /\ u.cells = win.cells /\ u.marks = win.marks
            /\ u.cury = win.cury /\ u.curx = win.curx
BY DEF WindowType, SamePlace

(* Mark() of a window changes the marks of its owner.                      *)
NewMarks(m, offy, rows, value) == [y \in DOMAIN m |-> IF y - offy \in rows THEN value ELSE m[y]]

LEMMA NewMarksTyped ==
  ASSUME NEW m \in MarkMaps, NEW offy, NEW rows, NEW value \in BOOLEAN
  PROVE  NewMarks(m, offy, rows, value) \in MarkMaps
<1>1. PICK S \in SUBSET Nat : m \in [S -> BOOLEAN]
  BY DEF MarkMaps
<1>2. NewMarks(m, offy, rows, value) \in [S -> BOOLEAN]
  BY <1>1 DEF NewMarks
<1> QED
  BY <1>2 DEF MarkMaps

(* us are the windows ws when o's marks in those rows have the value.      *)
MarksOf(ws, us, o, m) ==
  /\ us \in WindowMap
  /\ \A v \in Windows \ {o} : us[v] = ws[v]
  /\ us[o] \in WindowType /\ SamePlace(ws[o], us[o])
  /\ us[o].marks = m
  /\ us[o].cells = ws[o].cells
  /\ us[o].cury = ws[o].cury /\ us[o].curx = ws[o].curx /\ us[o].clear = ws[o].clear

(* Mark() changes the marks of the owner, and nothing else.                *)
LEMMA MarkIs ==
  ASSUME NEW ws \in WindowMap, NEW w \in Live(ws), NEW o \in Live(ws), ws[w].owner = o,
         NEW rows, NEW value \in BOOLEAN
  PROVE  MarksOf(ws, Mark(ws, w, rows, value), o, NewMarks(ws[o].marks, ws[w].offy, rows, value))
<1> DEFINE us == Mark(ws, w, rows, value)
           m == NewMarks(ws[o].marks, ws[w].offy, rows, value)
           b == [ws[o] EXCEPT !.marks = m]
<1>1. o \in Windows /\ ws[o] \in WindowType
  BY LiveTyped
<1>2. us = [ws EXCEPT ![o] = b]
  BY DEF Mark, NewMarks
<1>3. m \in MarkMaps
  BY <1>1, NewMarksTyped, WindowFields
<1> HIDE DEF m
<1>4. /\ b \in WindowType /\ SamePlace(ws[o], b) /\ b.marks = m /\ b.cells = ws[o].cells
      /\ b.cury = ws[o].cury /\ b.curx = ws[o].curx /\ b.clear = ws[o].clear
  BY <1>1, <1>3, ExceptMarks
<1> HIDE DEF b, us
<1>5. us \in WindowMap /\ us[o] = b /\ \A v \in Windows \ {o} : us[v] = ws[v]
  BY <1>1, <1>2, <1>4 DEF WindowMap
<1> QED
  BY <1>4, <1>5 DEF m, us, MarksOf

-----------------------------------------------------------------------------
(* What edits keep.                                                        *)

LEMMA EditsNothing ==
  ASSUME NEW ws \in WindowMap, Shape(ws)
  PROVE  Edits(ws, ws)
BY DEF Edits, SamePlace, Marking, Shape

LEMMA InsideSame ==
  ASSUME NEW a, NEW b, SamePlace(a, b)
  PROVE  Inside(b) = Inside(a)
BY DEF SamePlace, Inside

(* Edits that follow one another are an edit.                              *)
LEMMA EditsFollow ==
  ASSUME NEW ws, NEW xs, NEW us, Edits(ws, xs), Edits(xs, us)
  PROVE  Edits(ws, us)
<1>1. us \in WindowMap /\ Live(us) = Live(ws) /\ Live(xs) = Live(ws)
  BY DEF Edits
<1>2. ASSUME NEW v \in Live(ws) PROVE SamePlace(ws[v], us[v])
  BY <1>1, <1>2 DEF Edits, SamePlace
<1>3. ASSUME NEW o \in Live(ws), ws[o].owner = o PROVE Marking(ws[o], us[o])
  <2>1. SamePlace(ws[o], xs[o]) /\ Marking(ws[o], xs[o])
    BY <1>3 DEF Edits
  <2>2. xs[o].owner = o /\ Inside(xs[o]) = Inside(ws[o]) /\ xs[o].maxy = ws[o].maxy
    BY <1>3, <2>1, InsideSame DEF SamePlace
  <2>3. Marking(xs[o], us[o])
    BY <1>1, <2>2 DEF Edits
  <2>4. ASSUME NEW q \in Inside(ws[o]), us[o].cells[q] # ws[o].cells[q] PROVE us[o].marks[q[1]]
    <3>1. CASE us[o].cells[q] # xs[o].cells[q]
      BY <2>2, <2>3, <3>1 DEF Marking
    <3>2. CASE us[o].cells[q] = xs[o].cells[q]
      <4>1. xs[o].marks[q[1]]
        BY <2>1, <2>4, <3>2 DEF Marking
      <4>2. q[1] \in 0 .. ws[o].maxy - 1
        BY DEF Inside, Area
      <4> QED
        BY <2>2, <2>3, <4>1, <4>2 DEF Marking
    <3> QED
      BY <3>1, <3>2
  <2>5. ASSUME NEW y \in 0 .. ws[o].maxy - 1, ws[o].marks[y] PROVE us[o].marks[y]
    BY <2>1, <2>2, <2>3, <2>5 DEF Marking
  <2> QED
    BY <2>3, <2>4, <2>5 DEF Marking
<1> QED
  BY <1>1, <1>2, <1>3 DEF Edits

(* Edits keep the tree of windows, the places, the rows that are shown,    *)
(* and the cursors that they do not move.                                  *)
LEMMA EditsShape ==
  ASSUME NEW ws, NEW us, Edits(ws, us), Shape(ws)
  PROVE  Shape(us)
<1> SUFFICES ASSUME NEW v \in Live(ws)
             PROVE  /\ us[v].owner \in Live(ws)
                    /\ us[us[v].owner].owner = us[v].owner
                    /\ us[v].offy + us[v].maxy <= us[us[v].owner].maxy
                    /\ us[v].offx + us[v].maxx <= us[us[v].owner].maxx
                    /\ us[v].owner = v => OwnCells(us[v])
  BY DEF Edits, Shape
<1>1. SamePlace(ws[v], us[v]) /\ ws[v].owner \in Live(ws)
  BY DEF Edits, Shape
<1>2. SamePlace(ws[ws[v].owner], us[ws[v].owner])
  BY <1>1 DEF Edits
<1>3. ws[v].owner = v => OwnCells(us[v])
  BY DEF Edits, Marking
<1> QED
  BY <1>1, <1>2, <1>3 DEF SamePlace, Shape

LEMMA EditsAligned ==
  ASSUME NEW ws, NEW us, Edits(ws, us), Shape(ws), Aligned(ws)
  PROVE  Aligned(us)
<1> SUFFICES ASSUME NEW v \in Live(ws)
             PROVE  /\ us[v].offx = 0
                    /\ us[v].maxx = us[us[v].owner].maxx
                    /\ us[v].begx = us[us[v].owner].begx
                    /\ us[v].begy = us[us[v].owner].begy + us[v].offy
  BY DEF Edits, Aligned
<1>1. SamePlace(ws[v], us[v]) /\ ws[v].owner \in Live(ws)
  BY DEF Edits, Shape
<1>2. SamePlace(ws[ws[v].owner], us[ws[v].owner])
  BY <1>1 DEF Edits
<1> QED
  BY <1>1, <1>2 DEF SamePlace, Aligned

LEMMA EditsMatched ==
  ASSUME NEW ws, NEW us, Edits(ws, us), NEW want, NEW over, Matched(ws, want, over)
  PROVE  Matched(us, want, over)
<1> SUFFICES ASSUME NEW o \in Live(ws), us[o].owner = o, NEW q \in Inside(us[o])
             PROVE  CellMatches(us[o], want, over[o], q)
  BY DEF Edits, Matched
<1>1. SamePlace(ws[o], us[o])
  BY DEF Edits
<1>2. ws[o].owner = o /\ q \in Inside(ws[o])
  BY <1>1, InsideSame DEF SamePlace
<1>3. Marking(ws[o], us[o]) /\ CellMatches(ws[o], want, over[o], q)
  BY <1>2 DEF Edits, Matched
<1>4. Visible(us[o], q) = Visible(ws[o], q) /\ Place(us[o], q) = Place(ws[o], q)
  BY <1>1 DEF SamePlace, Visible, Place
<1>5. ASSUME ~us[o].marks[q[1]] PROVE ~ws[o].marks[q[1]] /\ us[o].cells[q] = ws[o].cells[q]
  <2>1. q[1] \in 0 .. ws[o].maxy - 1
    BY <1>2 DEF Inside, Area
  <2> QED
    BY <1>2, <1>3, <1>5, <2>1 DEF Marking
<1> QED
  BY <1>3, <1>4, <1>5 DEF CellMatches

LEMMA EditsCursors ==
  ASSUME NEW ws, NEW us, Edits(ws, us), SameCursors(ws, us), \A v \in Live(ws) : CursorIn(ws[v])
  PROVE  \A v \in Live(us) : CursorIn(us[v])
<1> SUFFICES ASSUME NEW v \in Live(ws) PROVE CursorIn(us[v])
  BY DEF Edits
<1>1. SamePlace(ws[v], us[v]) /\ us[v].cury = ws[v].cury /\ us[v].curx = ws[v].curx /\ CursorIn(ws[v])
  BY DEF Edits, SameCursors
<1> QED
  BY <1>1 DEF SamePlace, CursorIn

-----------------------------------------------------------------------------
(* The functions of the library edit.                                      *)

(* One window that is edited, where it owns its cells.                     *)
LEMMA SameExceptOwner ==
  ASSUME NEW ws \in WindowMap, Shape(ws), NEW us \in WindowMap, NEW o \in Live(ws),
         \A v \in Windows \ {o} : us[v] = ws[v], us[o] \in WindowType, SamePlace(ws[o], us[o]),
         ws[o].owner = o => Marking(ws[o], us[o])
  PROVE  Edits(ws, us)
<1>1. Live(us) = Live(ws)
  <2>1. us[o] # NoWindow /\ ws[o] # NoWindow
    BY WindowIsLive DEF Live
  <2> QED
    BY <2>1 DEF Live
<1>2. ASSUME NEW v \in Live(ws), v # o PROVE us[v] = ws[v]
  BY <1>2 DEF Live
<1>3. ASSUME NEW v \in Live(ws) PROVE SamePlace(ws[v], us[v])
  BY <1>2 DEF SamePlace
<1>4. ASSUME NEW v \in Live(ws), ws[v].owner = v PROVE Marking(ws[v], us[v])
  BY <1>2, <1>4 DEF Marking, Shape
<1> QED
  BY <1>1, <1>3, <1>4 DEF Edits

LEMMA MarkEdits ==
  ASSUME NEW ws \in WindowMap, Shape(ws), NEW w \in Live(ws), NEW rows, NEW us, us = Mark(ws, w, rows, TRUE)
  PROVE  Edits(ws, us) /\ SameCursors(ws, us)
<1> DEFINE o == ws[w].owner
           m == NewMarks(ws[o].marks, ws[w].offy, rows, TRUE)
<1>1. ws[w].owner = o /\ o \in Live(ws) /\ ws[o].owner = o /\ OwnCells(ws[o])
  BY DEF Shape
<1> HIDE DEF o
<1> HIDE DEF m
<1>2. /\ us \in WindowMap /\ \A v \in Windows \ {o} : us[v] = ws[v]
      /\ us[o] \in WindowType /\ SamePlace(ws[o], us[o]) /\ us[o].marks = m /\ us[o].cells = ws[o].cells
      /\ us[o].cury = ws[o].cury /\ us[o].curx = ws[o].curx
  <2>1. MarksOf(ws, Mark(ws, w, rows, TRUE), o, m)
    BY <1>1, MarkIs DEF m
  <2> QED
    BY <2>1 DEF MarksOf
<1>3. /\ m \in [0 .. ws[o].maxy - 1 -> BOOLEAN]
      /\ \A y \in 0 .. ws[o].maxy - 1 : ws[o].marks[y] => m[y]
  BY <1>1 DEF OwnCells, NewMarks, m
<1>4. Marking(ws[o], us[o])
  <2>1. Inside(us[o]) = Inside(ws[o]) /\ us[o].maxy = ws[o].maxy
    BY <1>2, InsideSame DEF SamePlace
  <2> QED
    BY <1>1, <1>2, <1>3, <2>1 DEF Marking, OwnCells
<1>5. Edits(ws, us)
  BY <1>1, <1>2, <1>4, SameExceptOwner
<1>6. SameCursors(ws, us)
  BY <1>2 DEF SameCursors, Live
<1> QED
  BY <1>5, <1>6

(* The cells and rows that curses_put() changes.                           *)
Changes(ws, w, area, c) == {p \in area : Content(ws, w, p) # c}
Written(m, win, changed, c) == [p \in DOMAIN m |-> IF p \in {Stored(win, r) : r \in changed} THEN c ELSE m[p]]

LEMMA WrittenTyped ==
  ASSUME NEW m \in CellMaps, NEW win, NEW changed, NEW c \in Glyphs
  PROVE  Written(m, win, changed, c) \in CellMaps
<1>1. PICK S \in SUBSET (Nat \X Nat) : m \in [S -> Glyphs]
  BY DEF CellMaps
<1>2. Written(m, win, changed, c) \in [S -> Glyphs]
  BY <1>1 DEF Written
<1> QED
  BY <1>2 DEF CellMaps

(* curses_put() marks the rows of the cells it changes, whoever the owner  *)
(* is.                                                                     *)
LEMMA PutEdits ==
  ASSUME NEW ws \in WindowMap, Shape(ws), NEW w \in Live(ws), NEW area \in SUBSET (Int \X Int), NEW c \in Glyphs
  PROVE  Edits(ws, Put(ws, w, area, c)) /\ SameCursors(ws, Put(ws, w, area, c))
<1> DEFINE o == ws[w].owner
           changed == Changes(ws, w, area, c)
           rows == {p[1] : p \in changed}
           new == Written(ws[o].cells, ws[w], changed, c)
           b == [ws[o] EXCEPT !.cells = new]
           xs == [ws EXCEPT ![o] = b]
           m == NewMarks(ws[o].marks, ws[w].offy, rows, TRUE)
           us == Put(ws, w, area, c)
<1>1. ws[w].owner = o /\ o \in Live(ws) /\ ws[o].owner = o /\ OwnCells(ws[o])
  BY DEF Shape
<1>2. o \in Windows /\ ws[o] \in WindowType /\ w \in Windows /\ ws[w] \in WindowType
  BY <1>1, LiveTyped
<1>3. us = Mark(xs, w, rows, TRUE)
  BY DEF Put, Changes, Written
<1>4. new \in CellMaps
  BY <1>2, WrittenTyped, WindowFields
<1>5. /\ b \in WindowType /\ SamePlace(ws[o], b) /\ b.cells = new /\ b.marks = ws[o].marks
      /\ b.cury = ws[o].cury /\ b.curx = ws[o].curx
  <2> HIDE DEF new, o
  <2> QED
    BY <1>2, <1>4, ExceptCells
<1>w. new \in [Inside(ws[o]) -> Glyphs]
  BY <1>1 DEF OwnCells, Written
<1>d. ASSUME NEW q \in Inside(ws[o]), new[q] # ws[o].cells[q]
      PROVE  q[1] - ws[w].offy \in rows /\ q[1] \in 0 .. ws[o].maxy - 1
  <2>1. q \in {Stored(ws[w], r) : r \in changed}
    BY <1>1, <1>d DEF Written, OwnCells
  <2>2. PICK p \in changed : q = Stored(ws[w], p)
    BY <2>1
  <2>3. p \in Int \X Int
    BY DEF Changes
  <2>4. q[1] = p[1] + ws[w].offy /\ p[1] \in Int /\ ws[w].offy \in Int
    BY <1>2, <2>2, <2>3, WindowFields DEF Stored
  <2>5. q[1] \in 0 .. ws[o].maxy - 1
    BY DEF Inside, Area
  <2> QED
    BY <2>4, <2>5
<1>m. /\ m \in [0 .. ws[o].maxy - 1 -> BOOLEAN]
      /\ \A y \in 0 .. ws[o].maxy - 1 : (ws[o].marks[y] \/ y - ws[w].offy \in rows) => m[y]
  <2> HIDE DEF rows
  <2> QED
    BY <1>1 DEF OwnCells, NewMarks
<1> HIDE DEF new, b, rows, changed
<1>6. xs \in WindowMap /\ xs[o] = b /\ \A v \in Windows \ {o} : xs[v] = ws[v]
  BY <1>2, <1>5 DEF WindowMap
<1> HIDE DEF xs, m, us, o
<1>7. Live(xs) = Live(ws)
  <2>1. xs[o] # NoWindow /\ ws[o] # NoWindow
    BY <1>2, <1>5, <1>6, WindowIsLive
  <2> QED
    BY <1>6, <2>1 DEF Live
<1>8. xs[w].owner = o /\ xs[w].offy = ws[w].offy /\ xs[o].marks = ws[o].marks
  BY <1>1, <1>2, <1>5, <1>6 DEF SamePlace
<1>9. MarksOf(xs, us, o, m)
  <2>1. m = NewMarks(xs[o].marks, xs[w].offy, rows, TRUE)
    BY <1>8 DEF m
  <2>2. MarksOf(xs, Mark(xs, w, rows, TRUE), o, NewMarks(xs[o].marks, xs[w].offy, rows, TRUE))
    BY <1>1, <1>6, <1>7, <1>8, MarkIs
  <2> QED
    BY <1>3, <2>1, <2>2
<1>10. /\ us \in WindowMap /\ \A v \in Windows \ {o} : us[v] = ws[v]
       /\ us[o] \in WindowType /\ SamePlace(ws[o], us[o]) /\ us[o].marks = m /\ us[o].cells = new
       /\ us[o].cury = ws[o].cury /\ us[o].curx = ws[o].curx
  BY <1>5, <1>6, <1>9 DEF MarksOf, SamePlace
<1>11. Marking(ws[o], us[o])
  <2>1. Inside(us[o]) = Inside(ws[o]) /\ us[o].maxy = ws[o].maxy
    BY <1>10, InsideSame DEF SamePlace
  <2> QED
    BY <1>10, <1>w, <1>d, <1>m, <2>1 DEF Marking, OwnCells
<1>12. Edits(ws, us)
  BY <1>1, <1>10, <1>11, SameExceptOwner
<1>13. SameCursors(ws, us)
  BY <1>10 DEF SameCursors, Live
<1> QED
  BY <1>12, <1>13 DEF us

(* A cursor that moves.                                                    *)
LEMMA MoveEdits ==
  ASSUME NEW ws \in WindowMap, Shape(ws), NEW w \in Live(ws), NEW y \in Int, NEW x \in Int
  PROVE  /\ Edits(ws, MoveTo(ws, w, y, x))
         /\ MoveTo(ws, w, y, x)[w].cury = y /\ MoveTo(ws, w, y, x)[w].curx = x
         /\ \A v \in Live(ws) \ {w} : MoveTo(ws, w, y, x)[v] = ws[v]
<1> DEFINE b == [ws[w] EXCEPT !.cury = y, !.curx = x]
           us == MoveTo(ws, w, y, x)
<1>1. w \in Windows /\ ws[w] \in WindowType
  BY LiveTyped
<1>2. us = [ws EXCEPT ![w] = b]
  BY DEF MoveTo
<1>3. /\ b \in WindowType /\ SamePlace(ws[w], b) /\ b.cells = ws[w].cells /\ b.marks = ws[w].marks
      /\ b.cury = y /\ b.curx = x
  BY <1>1 DEF WindowType, SamePlace
<1> HIDE DEF b, us
<1>4. us \in WindowMap /\ us[w] = b /\ \A v \in Windows \ {w} : us[v] = ws[v]
  BY <1>1, <1>2, <1>3 DEF WindowMap
<1>5. ws[w].owner = w => Marking(ws[w], us[w])
  <2>1. Inside(us[w]) = Inside(ws[w]) /\ us[w].maxy = ws[w].maxy
    BY <1>3, <1>4, InsideSame DEF SamePlace
  <2> QED
    BY <1>3, <1>4, <2>1 DEF Marking, OwnCells, Shape
<1>6. Edits(ws, us)
  BY <1>1, <1>3, <1>4, <1>5, SameExceptOwner
<1> QED
  BY <1>3, <1>4, <1>6 DEF us, Live
-----------------------------------------------------------------------------
(* The calls that change windows only.                                     *)

Steady(ws) == ws \in WindowMap /\ Shape(ws) /\ \A v \in Live(ws) : CursorIn(ws[v])

Changing(ws, us) == Edits(ws, us) /\ Steady(us)

LEMMA ChangingFollows ==
  ASSUME NEW ws, NEW xs, NEW us, Changing(ws, xs), Changing(xs, us)
  PROVE  Changing(ws, us)
BY EditsFollow DEF Changing

LEMMA InsideInts ==
  ASSUME NEW win \in WindowType
  PROVE  /\ Inside(win) \in SUBSET (Int \X Int) /\ RestOfLine(win) \in SUBSET (Int \X Int)
         /\ RestOfWindow(win) \in SUBSET (Int \X Int) /\ Border(win) \in SUBSET (Int \X Int)
<1>1. Inside(win) \in SUBSET (Int \X Int)
  BY WindowFields DEF Inside, Area
<1> QED
  BY <1>1 DEF RestOfLine, RestOfWindow, Border

(* Every function that writes to a window edits it, and leaves all cursors *)
(* inside.                                                                 *)
LEMMA PutChanges ==
  ASSUME NEW ws, Steady(ws), NEW w \in Live(ws), NEW area \in SUBSET (Int \X Int), NEW c \in Glyphs
  PROVE  Changing(ws, Put(ws, w, area, c)) /\ SamePlace(ws[w], Put(ws, w, area, c)[w])
<1> DEFINE us == Put(ws, w, area, c)
<1>1. Edits(ws, us) /\ SameCursors(ws, us)
  BY PutEdits DEF Steady
<1> HIDE DEF us
<1>2. Steady(us)
  BY <1>1, EditsShape, EditsCursors DEF Steady, Edits
<1> QED
  BY <1>1, <1>2 DEF us, Changing, Edits

LEMMA MarkChanges ==
  ASSUME NEW ws, Steady(ws), NEW w \in Live(ws), NEW rows
  PROVE  Changing(ws, Mark(ws, w, rows, TRUE)) /\ SamePlace(ws[w], Mark(ws, w, rows, TRUE)[w])
<1> DEFINE us == Mark(ws, w, rows, TRUE)
<1>1. Edits(ws, us) /\ SameCursors(ws, us)
  BY MarkEdits DEF Steady
<1> HIDE DEF us
<1>2. Steady(us)
  BY <1>1, EditsShape, EditsCursors DEF Steady, Edits
<1> QED
  BY <1>1, <1>2 DEF us, Changing, Edits

LEMMA MoveChanges ==
  ASSUME NEW ws, Steady(ws), NEW w \in Live(ws),
         NEW y \in 0 .. ws[w].maxy - 1, NEW x \in 0 .. ws[w].maxx - 1
  PROVE  Changing(ws, MoveTo(ws, w, y, x)) /\ SamePlace(ws[w], MoveTo(ws, w, y, x)[w])
<1> DEFINE us == MoveTo(ws, w, y, x)
<1>1. w \in Windows /\ ws[w] \in WindowType /\ ws[w].maxy \in Nat /\ ws[w].maxx \in Nat
  BY LiveTyped, WindowFields DEF Steady
<1>2. y \in Int /\ x \in Int
  BY <1>1
<1>3. /\ Edits(ws, us) /\ us[w].cury = y /\ us[w].curx = x
      /\ \A v \in Live(ws) \ {w} : us[v] = ws[v]
  BY <1>2, MoveEdits DEF Steady
<1> HIDE DEF us
<1>4. SamePlace(ws[w], us[w])
  BY <1>3 DEF Edits
<1>5. ASSUME NEW v \in Live(us) PROVE CursorIn(us[v])
  <2>1. CASE v = w
    BY <1>3, <1>4, <2>1 DEF CursorIn, SamePlace
  <2>2. CASE v # w
    BY <1>3, <2>2 DEF Edits, Steady
  <2> QED
    BY <2>1, <2>2
<1>6. Steady(us)
  BY <1>3, <1>5, EditsShape DEF Steady, Edits
<1> QED
  BY <1>3, <1>4, <1>6 DEF us, Changing

LEMMA EraseChanges ==
  ASSUME NEW ws, Steady(ws), NEW w \in Live(ws)
  PROVE  Changing(ws, Erase(ws, w)) /\ w \in Live(Erase(ws, w))
<1> DEFINE xs == Put(ws, w, Inside(ws[w]), Blank)
           zs == Mark(xs, w, 0 .. xs[w].maxy - 1, TRUE)
           us == MoveTo(zs, w, 0, 0)
<1>1. w \in Windows /\ ws[w] \in WindowType /\ ws[w].maxy \in Nat \ {0} /\ ws[w].maxx \in Nat \ {0}
  BY LiveTyped, WindowFields DEF Steady
<1>2. Changing(ws, xs) /\ SamePlace(ws[w], xs[w])
  BY <1>1, PutChanges, InsideInts, TerminalCells
<1>3. us = Erase(ws, w)
  BY DEF Erase, BlankAll, TouchAll
<1> HIDE DEF us, xs
<1>4. Steady(xs) /\ w \in Live(xs)
  BY <1>2 DEF Changing, Edits
<1>5. Changing(xs, zs) /\ SamePlace(xs[w], zs[w])
  BY <1>4, MarkChanges
<1> HIDE DEF zs
<1>6. Steady(zs) /\ w \in Live(zs) /\ zs[w].maxy = ws[w].maxy /\ zs[w].maxx = ws[w].maxx
  BY <1>2, <1>4, <1>5 DEF Changing, Edits, SamePlace
<1>7. 0 \in 0 .. zs[w].maxy - 1 /\ 0 \in 0 .. zs[w].maxx - 1
  BY <1>1, <1>6
<1>8. Changing(zs, us)
  BY <1>6, <1>7, MoveChanges DEF us
<1>9. Changing(ws, us)
  BY <1>2, <1>5, <1>8, ChangingFollows
<1> QED
  BY <1>3, <1>9 DEF Changing, Edits

LEMMA AdvanceChanges ==
  ASSUME NEW ws, Steady(ws), NEW w \in Live(ws), NEW y \in 0 .. ws[w].maxy, NEW x \in 0 .. ws[w].maxx
  PROVE  Changing(ws, Advance(ws, w, y, x))
<1> DEFINE line == IF x >= ws[w].maxx THEN y + 1 ELSE y
<1>1. ws[w].maxy \in Nat \ {0} /\ ws[w].maxx \in Nat \ {0}
  BY LiveTyped, WindowFields DEF Steady
<1>2. CASE line >= ws[w].maxy
  <2>1. ws[w].maxy - 1 \in 0 .. ws[w].maxy - 1 /\ ws[w].maxx - 1 \in 0 .. ws[w].maxx - 1
    BY <1>1
  <2>2. Changing(ws, MoveTo(ws, w, ws[w].maxy - 1, ws[w].maxx - 1))
    BY <2>1, MoveChanges
  <2> QED
    BY <1>2, <2>2 DEF Advance
<1>3. CASE ~(line >= ws[w].maxy)
  <2> DEFINE column == IF x >= ws[w].maxx THEN 0 ELSE x
  <2>1. line \in 0 .. ws[w].maxy - 1 /\ column \in 0 .. ws[w].maxx - 1
    BY <1>1, <1>3
  <2>2. Advance(ws, w, y, x) = MoveTo(ws, w, line, column)
    BY <1>3 DEF Advance
  <2> HIDE DEF line, column
  <2>3. Changing(ws, MoveTo(ws, w, line, column))
    BY <2>1, MoveChanges
  <2> QED
    BY <2>2, <2>3
<1> QED
  BY <1>2, <1>3

LEMMA PutAdvanceChanges ==
  ASSUME NEW ws, Steady(ws), NEW w \in Live(ws), NEW area \in SUBSET (Int \X Int), NEW c \in Glyphs,
         NEW y \in 0 .. ws[w].maxy, NEW x \in 0 .. ws[w].maxx
  PROVE  Changing(ws, Advance(Put(ws, w, area, c), w, y, x))
<1> DEFINE xs == Put(ws, w, area, c)
<1>1. Changing(ws, xs) /\ SamePlace(ws[w], xs[w])
  BY PutChanges
<1> HIDE DEF xs
<1>2. Steady(xs) /\ w \in Live(xs) /\ y \in 0 .. xs[w].maxy /\ x \in 0 .. xs[w].maxx
  BY <1>1 DEF Changing, Edits, SamePlace
<1>3. Changing(xs, Advance(xs, w, y, x))
  BY <1>2, AdvanceChanges
<1> QED
  BY <1>1, <1>3, ChangingFollows DEF xs

LEMMA AddGlyphChanges ==
  ASSUME NEW ws, Steady(ws), NEW w \in Live(ws), NEW c \in Glyphs,
         NEW y \in 0 .. ws[w].maxy, NEW x \in 0 .. ws[w].maxx - 1
  PROVE  Changing(ws, AddGlyph(ws, w, y, x, c))
<1>1. ws[w].maxy \in Nat \ {0} /\ ws[w].maxx \in Nat \ {0}
  BY LiveTyped, WindowFields DEF Steady
<1>2. {<<y, x>>} \in SUBSET (Int \X Int) /\ x + 1 \in 0 .. ws[w].maxx /\ x \in 0 .. ws[w].maxx
  BY <1>1
<1>3. CASE y < ws[w].maxy
  <2>1. Changing(ws, Advance(Put(ws, w, {<<y, x>>}, c), w, y, x + 1))
    BY <1>2, PutAdvanceChanges
  <2> QED
    BY <1>3, <2>1 DEF AddGlyph
<1>4. CASE ~(y < ws[w].maxy)
  <2>1. Changing(ws, Advance(ws, w, y, x))
    BY <1>2, AdvanceChanges
  <2> QED
    BY <1>4, <2>1 DEF AddGlyph
<1> QED
  BY <1>3, <1>4

(* waddch(): whatever the character, and wherever the cursor is.           *)
LEMMA AddchChanges ==
  ASSUME NEW ws, Steady(ws), NEW w \in Live(ws), NEW c \in Controls \cup {"control"} \cup Glyphs
  PROVE  Changing(ws, Addch(ws, w, c))
<1> DEFINE y == ws[w].cury
           x == ws[w].curx
           stop == (x \div TabStop + 1) * TabStop
           tab  == IF stop > ws[w].maxx THEN ws[w].maxx ELSE stop
<1>1. ws[w] \in WindowType /\ ws[w].maxy \in Nat \ {0} /\ ws[w].maxx \in Nat \ {0}
  BY LiveTyped, WindowFields DEF Steady
<1>2. y \in 0 .. ws[w].maxy - 1 /\ x \in 0 .. ws[w].maxx - 1
  BY DEF Steady, CursorIn
<1>3. y \in 0 .. ws[w].maxy /\ y + 1 \in 0 .. ws[w].maxy /\ 0 \in 0 .. ws[w].maxx /\ 0 \in 0 .. ws[w].maxx - 1
      /\ Blank \in Glyphs /\ x \in Int
  BY <1>1, <1>2, TerminalCells
<1>4. tab \in 0 .. ws[w].maxx
  <2>1. x \div TabStop \in Int /\ x \div TabStop >= 0
    BY <1>1, <1>2, TerminalTabs
  <2> DEFINE n == x \div TabStop
  <2>2. n \in Int /\ n >= 0
    BY <2>1
  <2> HIDE DEF n
  <2>3. (n + 1) * TabStop \in Int /\ (n + 1) * TabStop >= 0
    BY <2>2, TerminalTabs
  <2>4. stop \in Int /\ stop >= 0
    BY <2>3 DEF n
  <2> HIDE DEF stop, x
  <2> QED
    BY <1>1, <2>4
<1>5. CASE c = "newline"
  <2>1. Changing(ws, Advance(Put(ws, w, RestOfLine(ws[w]), Blank), w, y + 1, 0))
    BY <1>1, <1>3, PutAdvanceChanges, InsideInts
  <2> QED
    BY <1>5, <2>1 DEF Addch
<1>6. CASE c = "return"
  <2>1. Changing(ws, MoveTo(ws, w, y, 0))
    BY <1>2, <1>3, MoveChanges
  <2> QED
    BY <1>6, <2>1 DEF Addch
<1>7. CASE c = "backspace"
  <2> DEFINE back == IF x > 0 THEN x - 1 ELSE 0
  <2>1. back \in 0 .. ws[w].maxx - 1
    BY <1>1, <1>2
  <2>2. Addch(ws, w, c) = MoveTo(ws, w, y, back)
    BY <1>7 DEF Addch
  <2> HIDE DEF back
  <2> QED
    BY <1>2, <2>1, <2>2, MoveChanges
<1>8. CASE c = "tab"
  <2> DEFINE area == {<<y, k>> : k \in x .. tab - 1}
  <2>1. Addch(ws, w, c) = Advance(Put(ws, w, area, Blank), w, y, tab)
    BY <1>8 DEF Addch
  <2>2. area \in SUBSET (Int \X Int)
    <3>1. y \in Int /\ x \in Int
      BY <1>1, <1>2
    <3> HIDE DEF y, x, tab
    <3> QED
      BY <3>1
  <2> HIDE DEF area, tab
  <2> QED
    BY <1>3, <1>4, <2>1, <2>2, PutAdvanceChanges
<1>9. CASE c = "control"
  <2> DEFINE shown == Put(ws, w, {<<y, x>>}, Caret)
  <2>1. {<<y, x>>} \in SUBSET (Int \X Int)
    BY <1>1, <1>2
  <2>2. Changing(ws, shown) /\ SamePlace(ws[w], shown[w])
    BY <2>1, PutChanges, CaretShows
  <2>3. Addch(ws, w, c) = IF x + 1 >= ws[w].maxx THEN AddGlyph(shown, w, y + 1, 0, Caret)
                          ELSE AddGlyph(shown, w, y, x + 1, Caret)
    BY <1>9 DEF Addch
  <2> HIDE DEF shown
  <2>4. Steady(shown) /\ w \in Live(shown) /\ shown[w].maxy = ws[w].maxy /\ shown[w].maxx = ws[w].maxx
    BY <2>2 DEF Changing, Edits, SamePlace
  <2>5. CASE x + 1 >= ws[w].maxx
    <3>1. Changing(shown, AddGlyph(shown, w, y + 1, 0, Caret))
      BY <1>3, <2>4, AddGlyphChanges, CaretShows
    <3> QED
      BY <2>2, <2>3, <2>5, <3>1, ChangingFollows
  <2>6. CASE ~(x + 1 >= ws[w].maxx)
    <3>1. x + 1 \in 0 .. ws[w].maxx - 1
      BY <1>1, <1>2, <2>6
    <3>2. Changing(shown, AddGlyph(shown, w, y, x + 1, Caret))
      BY <1>3, <2>4, <3>1, AddGlyphChanges, CaretShows
    <3> QED
      BY <2>2, <2>3, <2>6, <3>2, ChangingFollows
  <2> QED
    BY <2>5, <2>6
<1>10. CASE c \notin {"newline", "return", "backspace", "tab", "control"}
  <2>1. c \in Glyphs
    BY <1>10 DEF Controls
  <2>2. Changing(ws, AddGlyph(ws, w, y, x, c))
    BY <1>2, <1>3, <2>1, AddGlyphChanges
  <2> QED
    BY <1>10, <2>2 DEF Addch
<1> QED
  BY <1>5, <1>6, <1>7, <1>8, <1>9, <1>10

-----------------------------------------------------------------------------
(* Positions on the screen.                                                *)

(* Rows of the screen do not overlap, so that a position has one row and   *)
(* one column.                                                             *)
LEMMA RowsApart ==
  ASSUME NEW a \in Nat, NEW b \in Nat, a < b
  PROVE  a * Cols + Cols <= b * Cols /\ a * Cols \in Nat /\ b * Cols \in Nat
<1>1. Cols \in Nat /\ Cols >= 1
  BY TerminalSize
<1> DEFINE k == b - a - 1
<1>2. k \in Nat /\ b = a + 1 + k
  OBVIOUS
<1> HIDE DEF k
<1>3. b * Cols = a * Cols + Cols + k * Cols
  BY <1>1, <1>2
<1>4. k * Cols \in Nat /\ a * Cols \in Nat /\ b * Cols \in Nat
  BY <1>1, <1>2
<1> QED
  BY <1>1, <1>3, <1>4

LEMMA IndexOnScreen ==
  ASSUME NEW y, NEW x, OnScreen(y, x)
  PROVE  Index(y, x) \in Pos
<1>1. y \in Nat /\ x \in Nat /\ y < Rows /\ x < Cols /\ Rows \in Nat /\ Cols \in Nat
  BY TerminalSize DEF OnScreen
<1>2. y * Cols + Cols <= Rows * Cols /\ y * Cols \in Nat /\ Rows * Cols \in Nat
  BY <1>1, RowsApart
<1> QED
  BY <1>1, <1>2 DEF Index, Pos, Cells

LEMMA IndexUnique ==
  ASSUME NEW y, NEW x, NEW v, NEW u, OnScreen(y, x), OnScreen(v, u), Index(y, x) = Index(v, u)
  PROVE  y = v /\ x = u
<1>1. y \in Nat /\ x \in Nat /\ x < Cols /\ v \in Nat /\ u \in Nat /\ u < Cols /\ Cols \in Nat
  BY TerminalSize DEF OnScreen
<1>2. y * Cols + x = v * Cols + u /\ y * Cols \in Nat /\ v * Cols \in Nat
  BY <1>1 DEF Index
<1>3. ~(y < v)
  <2> SUFFICES ASSUME y < v PROVE FALSE
    OBVIOUS
  <2>1. y * Cols + Cols <= v * Cols
    BY <1>1, RowsApart
  <2> QED
    BY <1>1, <1>2, <2>1
<1>4. ~(v < y)
  <2> SUFFICES ASSUME v < y PROVE FALSE
    OBVIOUS
  <2>1. v * Cols + Cols <= y * Cols
    BY <1>1, RowsApart
  <2> QED
    BY <1>1, <1>2, <2>1
<1>5. y = v
  BY <1>1, <1>3, <1>4
<1> QED
  BY <1>1, <1>2, <1>5

(* A window's cells are in its owner's.                                    *)
LEMMA StoredInside ==
  ASSUME NEW ws, Steady(ws), NEW w \in Live(ws), NEW p \in Inside(ws[w])
  PROVE  /\ Stored(ws[w], p) \in Inside(ws[ws[w].owner])
         /\ Content(ws, w, p) \in Glyphs
         /\ p[1] \in Nat /\ p[2] \in Nat /\ p = <<p[1], p[2]>>
         /\ p[1] \in 0 .. ws[w].maxy - 1 /\ p[2] \in 0 .. ws[w].maxx - 1
<1> DEFINE o == ws[w].owner
<1>1. o \in Live(ws) /\ ws[o].owner = o /\ ws[w].offy + ws[w].maxy <= ws[o].maxy /\ ws[w].offx + ws[w].maxx <= ws[o].maxx
  BY DEF Steady, Shape
<1>2. OwnCells(ws[o])
  BY <1>1 DEF Steady, Shape
<1>3. /\ ws[w].offy \in Nat /\ ws[w].offx \in Nat /\ ws[w].maxy \in Nat /\ ws[w].maxx \in Nat
      /\ ws[o].maxy \in Nat /\ ws[o].maxx \in Nat
  BY <1>1, LiveTyped, WindowFields DEF Steady
<1>4. p \in (0 .. ws[w].maxy - 1) \X (0 .. ws[w].maxx - 1)
  BY DEF Inside, Area
<1>5. p[1] \in 0 .. ws[w].maxy - 1 /\ p[2] \in 0 .. ws[w].maxx - 1 /\ p = <<p[1], p[2]>>
  BY <1>4
<1> HIDE DEF o
<1>6. p[1] + ws[w].offy \in 0 .. ws[o].maxy - 1 /\ p[2] + ws[w].offx \in 0 .. ws[o].maxx - 1
  BY <1>1, <1>3, <1>5
<1>7. Stored(ws[w], p) \in Inside(ws[o])
  BY <1>6 DEF Stored, Inside, Area
<1>8. Content(ws, w, p) \in Glyphs
  BY <1>2, <1>7 DEF Content, OwnCells, o
<1> QED
  BY <1>3, <1>5, <1>7, <1>8 DEF o

(* Two cells of a window are at two places.                                *)
LEMMA PlaceUnique ==
  ASSUME NEW ws, Steady(ws), NEW w \in Live(ws), NEW p \in Inside(ws[w]), NEW q \in Inside(ws[w]),
         Visible(ws[w], p), Visible(ws[w], q), Place(ws[w], p) = Place(ws[w], q)
  PROVE  p = q
<1>1. ws[w].begy \in Int /\ ws[w].begx \in Int
  BY LiveTyped, WindowFields DEF Steady
<1>2. /\ p[1] \in Nat /\ p[2] \in Nat /\ p = <<p[1], p[2]>>
      /\ q[1] \in Nat /\ q[2] \in Nat /\ q = <<q[1], q[2]>>
  BY StoredInside
<1>3. ws[w].begy + p[1] = ws[w].begy + q[1] /\ ws[w].begx + p[2] = ws[w].begx + q[2]
  BY IndexUnique DEF Visible, Place
<1>4. p[1] = q[1] /\ p[2] = q[2]
  BY <1>1, <1>2, <1>3
<1> QED
  BY <1>2, <1>4

(* The cells that a refresh hands to the terminal.                         *)
Showing(ws, w) == {p \in Inside(ws[w]) : Marked(ws, w, p[1]) /\ Visible(ws[w], p)}

LEMMA MarkedCellsAre ==
  ASSUME NEW ws, Steady(ws), NEW w \in Live(ws)
  PROVE  /\ \A i : i \in DOMAIN MarkedCells(ws, w) <=> \E p \in Showing(ws, w) : i = Place(ws[w], p)
         /\ DOMAIN MarkedCells(ws, w) \subseteq Pos
         /\ \A i \in DOMAIN MarkedCells(ws, w) : MarkedCells(ws, w)[i] \in Glyphs
         /\ \A p \in Showing(ws, w) : MarkedCells(ws, w)[Place(ws[w], p)] = Content(ws, w, p)
<1> DEFINE new == MarkedCells(ws, w)
           Source(i) == CHOOSE p \in Showing(ws, w) : Place(ws[w], p) = i
<1>1. new = [i \in {Place(ws[w], p) : p \in Showing(ws, w)} |-> Content(ws, w, Source(i))]
  BY DEF MarkedCells, Showing
<1>2. DOMAIN new = {Place(ws[w], p) : p \in Showing(ws, w)}
  BY <1>1
<1>3. ASSUME NEW i \in DOMAIN new
      PROVE  Source(i) \in Showing(ws, w) /\ Place(ws[w], Source(i)) = i /\ new[i] = Content(ws, w, Source(i))
  BY <1>1, <1>2
<1> HIDE DEF new, Source
<1>4. DOMAIN new \subseteq Pos
  <2> SUFFICES ASSUME NEW p \in Showing(ws, w) PROVE Place(ws[w], p) \in Pos
    BY <1>2
  <2> QED
    BY IndexOnScreen DEF Showing, Visible, Place
<1>5. ASSUME NEW i \in DOMAIN new PROVE new[i] \in Glyphs
  <2>1. Source(i) \in Inside(ws[w])
    BY <1>3 DEF Showing
  <2> QED
    BY <1>3, <2>1, StoredInside
<1>6. ASSUME NEW p \in Showing(ws, w) PROVE new[Place(ws[w], p)] = Content(ws, w, p)
  <2> DEFINE i == Place(ws[w], p)
  <2>1. i \in DOMAIN new
    BY <1>2
  <2>2. Source(i) \in Showing(ws, w) /\ Place(ws[w], Source(i)) = i /\ new[i] = Content(ws, w, Source(i))
    BY <1>3, <2>1
  <2>3. Source(i) = p
    BY <2>2, PlaceUnique DEF Showing
  <2> QED
    BY <2>2, <2>3
<1> QED
  BY <1>2, <1>4, <1>5, <1>6 DEF new
-----------------------------------------------------------------------------
(* The composition.                                                        *)

(* What is left to do of a call: the stacks the calls put there.           *)
Stacks ==
  {<<>>, <<"flush">>, <<"flush", "end_frame">>, <<"end_frame">>, <<"flush", "osk_open">>, <<"osk_open">>,
   <<"osk_draw">>, <<"flush", "end_frame", "osk_poll">>, <<"end_frame", "osk_poll">>, <<"osk_poll">>}

PanelStacks ==
  {<<"osk_draw">>, <<"flush", "end_frame", "osk_poll">>, <<"end_frame", "osk_poll">>, <<"osk_poll">>}

(* The windows that are open, and whether the panel is up, by the stack.   *)
LEMMA OpenIsLive == Open = Live(wins)
BY DEF Open, Alive, Live

LEMMA PanelUpIs ==
  /\ pc \in Stacks => (PanelUp <=> pc \in PanelStacks)
  /\ pc' \in Stacks => (PanelUp' <=> pc' \in PanelStacks)
BY DEF Stacks, PanelStacks, PanelUp

(* The terminal's steps take the stack down and put it up again; the       *)
(* panel comes with osk_open and goes with osk_poll.                       *)
LEMMA Heads ==
  ASSUME pc \in Stacks, pc # <<>>
  PROVE  /\ Head(pc) = "flush" => pc \in {<<"flush">>, <<"flush", "end_frame">>, <<"flush", "osk_open">>,
                                         <<"flush", "end_frame", "osk_poll">>}
         /\ Head(pc) = "end_frame" => pc \in {<<"end_frame">>, <<"end_frame", "osk_poll">>}
         /\ Head(pc) = "osk_open" => pc = <<"osk_open">>
         /\ Head(pc) = "osk_draw" => pc = <<"osk_draw">>
         /\ Head(pc) = "osk_poll" => pc = <<"osk_poll">>
BY DEF Stacks

(* What is left after a flush, and after a frame.                          *)
LEMMA FlushTails ==
  ASSUME NEW s \in {<<"flush">>, <<"flush", "end_frame">>, <<"flush", "osk_open">>, <<"flush", "end_frame", "osk_poll">>}
  PROVE  <<>> \o Tail(s) \in Stacks /\ (<<>> \o Tail(s) \in PanelStacks <=> s \in PanelStacks)
<1>1. CASE s = <<"flush">>
  <2>1. <<>> \o Tail(s) = <<>>
    BY <1>1
  <2> QED
    BY <1>1, <2>1 DEF Stacks, PanelStacks
<1>2. CASE s = <<"flush", "end_frame">>
  <2>1. <<>> \o Tail(s) = <<"end_frame">>
    BY <1>2
  <2> QED
    BY <1>2, <2>1 DEF Stacks, PanelStacks
<1>3. CASE s = <<"flush", "osk_open">>
  <2>1. <<>> \o Tail(s) = <<"osk_open">>
    BY <1>3
  <2> QED
    BY <1>3, <2>1 DEF Stacks, PanelStacks
<1>4. CASE s = <<"flush", "end_frame", "osk_poll">>
  <2>1. <<>> \o Tail(s) = <<"end_frame", "osk_poll">>
    BY <1>4
  <2> QED
    BY <1>4, <2>1 DEF Stacks, PanelStacks
<1> QED
  BY <1>1, <1>2, <1>3, <1>4

LEMMA FrameTails ==
  ASSUME NEW s \in {<<"end_frame">>, <<"end_frame", "osk_poll">>}
  PROVE  <<>> \o Tail(s) \in Stacks /\ (<<>> \o Tail(s) \in PanelStacks <=> s \in PanelStacks)
<1>1. CASE s = <<"end_frame">>
  <2>1. <<>> \o Tail(s) = <<>>
    BY <1>1
  <2> QED
    BY <1>1, <2>1 DEF Stacks, PanelStacks
<1>2. CASE s = <<"end_frame", "osk_poll">>
  <2>1. <<>> \o Tail(s) = <<"osk_poll">>
    BY <1>2
  <2> QED
    BY <1>2, <2>1 DEF Stacks, PanelStacks
<1> QED
  BY <1>1, <1>2

(* Each step, by the stack it finds and the one it leaves.                 *)
LEMMA StackSteps ==
  ASSUME pc \in Stacks
  PROVE  /\ PaintCell \/ PaintEnd => pc' = pc
         /\ EndFrame \/ FlushStep => pc' \in Stacks /\ (pc' \in PanelStacks <=> pc \in PanelStacks)
         /\ OskOpen => pc = <<"osk_open">> /\ pc' = <<"osk_draw">>
         /\ OskDraw => pc = <<"osk_draw">> /\ pc' = <<"flush", "end_frame", "osk_poll">>
         /\ OskPoll => /\ pc = <<"osk_poll">>
                       /\ \/ pc' = <<"osk_draw">> /\ UNCHANGED term
                          \/ pc' = <<"flush">> /\ term' = Restore(term, osk)
<1>1. PaintCell \/ PaintEnd => pc' = pc
  BY DEF PaintCell, PaintEnd
<1>2. ASSUME EndFrame PROVE pc' \in Stacks /\ (pc' \in PanelStacks <=> pc \in PanelStacks)
  <2>1. pc \in {<<"end_frame">>, <<"end_frame", "osk_poll">>} /\ pc' = <<>> \o Tail(pc)
    BY <1>2, Heads DEF EndFrame, At, Then
  <2> QED
    BY <2>1, FrameTails
<1>3. ASSUME FlushStep PROVE pc' \in Stacks /\ (pc' \in PanelStacks <=> pc \in PanelStacks)
  <2>1. /\ pc \in {<<"flush">>, <<"flush", "end_frame">>, <<"flush", "osk_open">>, <<"flush", "end_frame", "osk_poll">>}
        /\ pc' = <<>> \o Tail(pc)
    BY <1>3, Heads DEF FlushStep, At, Then
  <2> QED
    BY <2>1, FlushTails
<1>4. ASSUME OskOpen PROVE pc = <<"osk_open">> /\ pc' = <<"osk_draw">>
  <2>1. pc = <<"osk_open">> /\ pc' = <<"osk_draw">> \o Tail(pc)
    BY <1>4, Heads DEF OskOpen, At, Then
  <2> QED
    BY <2>1
<1>5. ASSUME OskDraw PROVE pc = <<"osk_draw">> /\ pc' = <<"flush", "end_frame", "osk_poll">>
  <2>1. pc = <<"osk_draw">> /\ pc' = <<"flush", "end_frame", "osk_poll">> \o Tail(pc)
    BY <1>5, Heads DEF OskDraw, At, Then
  <2> QED
    BY <2>1
<1>6. ASSUME OskPoll
      PROVE  /\ pc = <<"osk_poll">>
             /\ \/ pc' = <<"osk_draw">> /\ UNCHANGED term
                \/ pc' = <<"flush">> /\ term' = Restore(term, osk)
  <2>1. pc = <<"osk_poll">>
    BY <1>6, Heads DEF OskPoll, At
  <2>2. CASE pc' = <<"osk_draw">> \o Tail(pc) /\ UNCHANGED term
    BY <2>1, <2>2
  <2>3. CASE term' = Restore(term, osk) /\ pc' = <<"flush">> \o Tail(pc)
    BY <2>1, <2>3
  <2> QED
    BY <1>6, <2>2, <2>3 DEF OskPoll, Then
<1> QED
  BY <1>1, <1>2, <1>3, <1>4, <1>5, <1>6

(* A call is made when none is in progress, and leaves one at most.        *)
LEMMA StackCalls ==
  ASSUME pc \in Stacks, TermCall
  PROVE  pc = <<>> /\ pc' \in Stacks \ PanelStacks
<1>1. CASE Write
  <2>1. Idle /\ pc' = pc
    BY <1>1, Zenon DEF Write, Call
  <2> QED
    BY <2>1 DEF Idle, Stacks, PanelStacks
<1>2. CASE CallFlush \/ CallFrame \/ CallGetKey \/ DrawOver
  <2>1. Idle /\ pc' \in {pc, <<"flush", "end_frame">>, <<"flush", "osk_open">>}
    BY <1>2 DEF CallFlush, CallFrame, CallGetKey, GetKey, DrawOver
  <2> QED
    BY <2>1 DEF Idle, Stacks, PanelStacks
<1> QED
  BY <1>1, <1>2 DEF TermCall

-----------------------------------------------------------------------------
(* Once ready, the terminal stays so.                                      *)

(* The functions of the terminal keep whether it is ready.                 *)
LEMMA ReadyFields ==
  ASSUME NEW t \in TermType
  PROVE  /\ Clear(t).ready = t.ready /\ Redraw(t).ready = t.ready /\ Redraw(t).want = t.want
         /\ \A y, x : Goto(t, y, x).ready = t.ready /\ Goto(t, y, x).want = t.want
         /\ \A w : Restore(t, w).ready = t.ready /\ Restore(t, w).want = w
         /\ t.ready => Ready(t) = t
BY DEF Clear, Redraw, DirtyAll, Goto, Restore, Ready, TermType

LEMMA SetAllReady ==
  ASSUME NEW t \in TermType, NEW cells
  PROVE  SetAll(t, cells).ready = t.ready
<1> DEFINE changed == {i \in DOMAIN cells : t.want[i] # cells[i]}
           range   == IF t.dirty THEN changed \cup {t.first, t.last} ELSE changed
           want    == [i \in Pos |-> IF i \in changed THEN cells[i] ELSE t.want[i]]
<1>1. CASE changed = {}
  BY <1>1 DEF SetAll
<1>2. CASE changed # {}
  <2>1. SetAll(t, cells) = [t EXCEPT !.want = want, !.dirty = TRUE, !.first = Least(range), !.last = Greatest(range)]
    BY <1>2, Zenon DEF SetAll
  <2> HIDE DEF want, range, changed
  <2> QED
    BY <2>1 DEF TermType
<1> QED
  BY <1>1, <1>2

LEMMA ScrollReady ==
  ASSUME NEW t \in TermType, NEW n
  PROVE  Scroll(t, n).ready = t.ready
BY DEF Scroll, DirtyAll, TermType

LEMMA TypeReady ==
  ASSUME NEW t, NEW picture, Sound(t, picture), NEW c \in Glyphs
  PROVE  Type(t, c).ready = t.ready
<1> DEFINE wrapped == IF t.x >= Cols THEN Goto(t, t.y + 1, 0) ELSE t
           u == IntoView(wrapped)
           cells == [i \in {i \in Pos : OnScreen(u.y, u.x) /\ i = Index(u.y, u.x)} |-> c]
           v == SetAll(u, cells)
<1>1. Sound(wrapped, picture) /\ wrapped.ready = t.ready
  <2>1. t.y + 1 \in Int /\ t \in TermType
    BY DEF Sound, TermType
  <2> QED
    BY <2>1, GotoSound, ReadyFields
<1> HIDE DEF wrapped
<1>2. Sound(u, picture) /\ u.ready = wrapped.ready
  BY <1>1, IntoViewSound, ScrollReady DEF IntoView, Sound
<1>3. DOMAIN cells \subseteq Pos /\ \A i \in DOMAIN cells : cells[i] \in Cell
  BY DEF Cell
<1> HIDE DEF u, cells
<1>4. v \in TermType /\ v.ready = u.ready
  BY <1>2, <1>3, SetAllSound DEF Sound
<1> HIDE DEF v
<1>5. [v EXCEPT !.x = @ + 1].ready = v.ready
  BY <1>4 DEF TermType
<1> QED
  BY <1>1, <1>2, <1>4, <1>5 DEF Type, v, cells, u, wrapped

LEMMA PutcReady ==
  ASSUME NEW t, NEW picture, Sound(t, picture), NEW c \in Controls \cup Glyphs, t.ready
  PROVE  Putc(t, c).ready
<1>1. Ready(t) = t /\ t \in TermType
  BY ReadyFields DEF Sound
<1>i. \A u \in TermType : IntoView(u).ready = u.ready
  BY ScrollReady DEF IntoView
<1>t. t.y \in Int /\ t.x \in Int /\ t.y + 1 \in Int /\ t.x - 1 \in Int
  BY <1>1 DEF TermType
<1>3. (t.x \div TabStop + 1) * TabStop \in Int
  <2>1. TabStop \in Int /\ TabStop > 0
    BY TerminalTabs
  <2>2. t.x \div TabStop \in Int
    BY <1>t, <2>1
  <2> QED
    BY <2>1, <2>2
<1>g. \A y, x \in Int : Goto(t, y, x) \in TermType /\ Goto(t, y, x).ready
  BY <1>1, GotoSound, ReadyFields DEF Sound
<1>4. CASE c \in Controls
  <2>1. /\ IntoView(Goto(t, t.y + 1, 0)).ready /\ IntoView(Goto(t, t.y, 0)).ready
        /\ IntoView(Goto(t, t.y, t.x - 1)).ready
        /\ IntoView(Goto(t, t.y, (t.x \div TabStop + 1) * TabStop)).ready
    BY <1>i, <1>t, <1>3, <1>g
  <2> QED
    BY <1>1, <1>4, <1>i, <2>1 DEF Putc, Controls
<1>5. CASE c \notin Controls
  <2>1. c \in Glyphs /\ Sound(Type(t, c), picture) /\ Type(t, c).ready
    BY <1>5, TypeSound, TypeReady
  <2>2. Putc(t, c) = IntoView(Type(t, c))
    BY <1>1, <1>5 DEF Putc, Controls
  <2> QED
    BY <1>i, <2>1, <2>2 DEF Sound
<1> QED
  BY <1>4, <1>5

LEMMA WriteStaysReady ==
  ASSUME IInv, Write, term.ready
  PROVE  term'.ready
<1>0. Sound(term, screen) /\ term \in TermType
  BY DEF IInv, Sound
<1>1. CASE Call(Ready(term)) \/ Call(Clear(term))
  BY <1>0, <1>1, ReadyFields DEF Call
<1>3. ASSUME NEW y, NEW x, NEW c, Call(Fill(term, y, x, 1, 1, c))
      PROVE  term'.ready
  BY <1>0, <1>3, SetAllReady DEF Fill, Call
<1>4. ASSUME NEW y, NEW s, Call(Text(term, y, 0, s))
      PROVE  term'.ready
  BY <1>0, <1>4, SetAllReady DEF Text, Call
<1>5. ASSUME NEW y, NEW w, NEW c \in Glyphs, Call(Box(term, y, 0, 2, w, c))
      PROVE  term'.ready
  <2> DEFINE u == Fill(term, y, 0, 2, w, Blank)
             cells == [i \in Rectangle(y, 0, 2, w) \ Rectangle(y + 1, 0 + 1, 2 - 2, w - 2) |-> c]
  <2>1. u \in TermType
    BY <1>0, FillSound, TerminalCells DEF Sound
  <2>2. u.ready = term.ready
    BY <1>0, SetAllReady DEF Fill
  <2>3. term' = SetAll(u, cells)
    BY <1>5 DEF Box, Call
  <2> HIDE DEF u, cells
  <2> QED
    BY <2>1, <2>2, <2>3, SetAllReady
<1>6. ASSUME NEW y, NEW x, Call(Goto(term, y, x))
      PROVE  term'.ready
  BY <1>0, <1>6, ReadyFields DEF Call
<1>7. ASSUME NEW c \in Controls \cup Glyphs, Call(Putc(term, c))
      PROVE  term'.ready
  BY <1>0, <1>7, PutcReady DEF Call
<1> QED
  BY <1>1, <1>3, <1>4, <1>5, <1>6, <1>7 DEF Write

LEMMA TermStaysReady ==
  ASSUME IInv, TermStep \/ TermCall, term.ready
  PROVE  term'.ready
<1>0. Sound(term, screen) /\ term \in TermType /\ Ready(term) = term
  BY ReadyFields DEF IInv, Sound
<1>1. CASE PaintCell \/ PaintEnd \/ EndFrame
  BY <1>0, <1>1 DEF PaintCell, PaintEnd, EndFrame, TermType
<1>2. CASE FlushStep \/ CallFlush \/ OskOpen \/ CallGetKey \/ CallFrame
  BY <1>0, <1>2 DEF FlushStep, CallFlush, Flush, OskOpen, CallGetKey, CallFrame
<1>3. CASE OskDraw
  BY <1>0, <1>3, SetAllReady DEF OskDraw, Fill
<1>4. CASE OskPoll \/ DrawOver
  BY <1>0, <1>4, ReadyFields DEF OskPoll, DrawOver
<1>5. CASE Write
  BY <1>5, WriteStaysReady
<1> QED
  BY <1>1, <1>2, <1>3, <1>4, <1>5 DEF TermStep, TermCall

-----------------------------------------------------------------------------
(* What a refresh makes of the windows.                                    *)

(* Windows stay where they are, whatever becomes of cells and marks.       *)
Keeps(ws, us) ==
  /\ us \in WindowMap
  /\ Live(us) = Live(ws)
  /\ \A v \in Live(ws) : SamePlace(ws[v], us[v]) /\ us[v].cury = ws[v].cury /\ us[v].curx = ws[v].curx
  /\ \A o \in Live(ws) : ws[o].owner = o => OwnCells(us[o])

(* Such windows are as steady as before.                                   *)
LEMMA KeepsSteady ==
  ASSUME NEW ws, NEW us, Keeps(ws, us), Steady(ws)
  PROVE  Steady(us) /\ (Aligned(ws) => Aligned(us))
<1>1. ASSUME NEW v \in Live(ws)
      PROVE  SamePlace(ws[v], us[v]) /\ ws[v].owner \in Live(ws) /\ SamePlace(ws[ws[v].owner], us[ws[v].owner])
  BY DEF Keeps, Steady, Shape
<1>2. Shape(us)
  <2> SUFFICES ASSUME NEW v \in Live(ws)
               PROVE  /\ us[v].owner \in Live(ws)
                      /\ us[us[v].owner].owner = us[v].owner
                      /\ us[v].offy + us[v].maxy <= us[us[v].owner].maxy
                      /\ us[v].offx + us[v].maxx <= us[us[v].owner].maxx
                      /\ us[v].owner = v => OwnCells(us[v])
    BY DEF Keeps, Shape
  <2> QED
    BY <1>1 DEF SamePlace, Steady, Shape, Keeps
<1>3. ASSUME NEW v \in Live(us) PROVE CursorIn(us[v])
  BY <1>1 DEF Keeps, Steady, CursorIn, SamePlace
<1>4. ASSUME Aligned(ws) PROVE Aligned(us)
  <2> SUFFICES ASSUME NEW v \in Live(ws)
               PROVE  /\ us[v].offx = 0
                      /\ us[v].maxx = us[us[v].owner].maxx
                      /\ us[v].begx = us[us[v].owner].begx
                      /\ us[v].begy = us[us[v].owner].begy + us[v].offy
    BY DEF Keeps, Aligned
  <2> QED
    BY <1>1, <1>4 DEF SamePlace, Aligned
<1> QED
  BY <1>2, <1>3, <1>4 DEF Steady, Keeps

(* The windows xs with w's rows marked if flag says so.                    *)
Touched(ws, w, flag) == IF flag THEN TouchAll(ws, w) ELSE ws

TouchedOf(ws, xs, w, o, flag) ==
  /\ Steady(xs) /\ Live(xs) = Live(ws) /\ \A v \in Live(ws) : SamePlace(ws[v], xs[v])
  /\ xs[o].cells = ws[o].cells /\ xs[o].cury = ws[o].cury /\ xs[o].curx = ws[o].curx
  /\ \A y \in 0 .. ws[o].maxy - 1 :
       xs[o].marks[y] <=> ws[o].marks[y] \/ (flag /\ y - ws[w].offy \in 0 .. ws[w].maxy - 1)
  /\ \A v \in Windows \ {o} : xs[v] = ws[v]

(* The marks after a window was touched for a refresh that clears.         *)
LEMMA TouchedMarks ==
  ASSUME NEW ws, Steady(ws), NEW w \in Live(ws), NEW flag \in BOOLEAN, NEW o, ws[w].owner = o
  PROVE  TouchedOf(ws, Touched(ws, w, flag), w, o, flag)
<1> DEFINE xs == Touched(ws, w, flag)
<1>1. o \in Live(ws) /\ ws[o].owner = o /\ OwnCells(ws[o])
  BY DEF Steady, Shape
<1>2. CASE ~flag
  BY <1>1, <1>2 DEF Touched, TouchedOf, SamePlace, OwnCells
<1>3. CASE flag
  <2> DEFINE rows == 0 .. ws[w].maxy - 1
             m == NewMarks(ws[o].marks, ws[w].offy, rows, TRUE)
  <2>1. xs = Mark(ws, w, rows, TRUE)
    BY <1>3 DEF Touched, TouchAll
  <2>2. \A y \in 0 .. ws[o].maxy - 1 : m[y] <=> ws[o].marks[y] \/ y - ws[w].offy \in rows
    <3> HIDE DEF rows
    <3> QED
      BY <1>1 DEF OwnCells, NewMarks
  <2> HIDE DEF m
  <2>3. MarksOf(ws, xs, o, m)
    <3> HIDE DEF rows
    <3>1. MarksOf(ws, Mark(ws, w, rows, TRUE), o, NewMarks(ws[o].marks, ws[w].offy, rows, TRUE))
      BY <1>1, MarkIs DEF Steady
    <3> QED
      BY <2>1, <3>1 DEF m
  <2>4. Changing(ws, xs)
    BY <2>1, MarkChanges
  <2> QED
    BY <1>3, <2>2, <2>3, <2>4 DEF MarksOf, Changing, Edits, TouchedOf
<1> QED
  BY <1>2, <1>3

(* The windows after a refresh of w: its marks go, and its clear flag.     *)
Refreshed(xs, w, rows) == [Mark(xs, w, rows, FALSE) EXCEPT ![w].clear = FALSE]

(* A refresh takes the marks of its rows away, and no cell changes.        *)
LEMMA RefreshedMarks ==
  ASSUME NEW ws, Steady(ws), NEW w \in Live(ws), NEW o, ws[w].owner = o, NEW rows,
         NEW us, us = Refreshed(ws, w, rows)
  PROVE  /\ Keeps(ws, us)
         /\ us[o].cells = ws[o].cells
         /\ \A y \in 0 .. ws[o].maxy - 1 : us[o].marks[y] <=> ws[o].marks[y] /\ y - ws[w].offy \notin rows
         /\ \A v \in Live(ws) \ {o} : us[v].cells = ws[v].cells /\ us[v].marks = ws[v].marks
<1> DEFINE ys == Mark(ws, w, rows, FALSE)
           m == NewMarks(ws[o].marks, ws[w].offy, rows, FALSE)
           b == [ys[w] EXCEPT !.clear = FALSE]
<1>1. o \in Live(ws) /\ ws[o].owner = o /\ OwnCells(ws[o]) /\ ws \in WindowMap /\ w \in Windows
  BY LiveTyped DEF Steady, Shape
<1>2. /\ \A y \in 0 .. ws[o].maxy - 1 : m[y] <=> ws[o].marks[y] /\ y - ws[w].offy \notin rows
      /\ m \in [0 .. ws[o].maxy - 1 -> BOOLEAN]
  BY <1>1 DEF OwnCells, NewMarks
<1>3. us = [ys EXCEPT ![w] = b]
  BY DEF Refreshed
<1>4. MarksOf(ws, ys, o, m)
  BY <1>1, MarkIs
<1> HIDE DEF m, ys
<1>5. /\ ys \in WindowMap /\ \A v \in Windows \ {o} : ys[v] = ws[v]
      /\ ys[o] \in WindowType /\ SamePlace(ws[o], ys[o]) /\ ys[o].marks = m /\ ys[o].cells = ws[o].cells
      /\ ys[o].cury = ws[o].cury /\ ys[o].curx = ws[o].curx
  BY <1>4 DEF MarksOf
<1>6. ys[w] \in WindowType
  BY <1>1, <1>5, LiveTyped
<1>7. /\ b \in WindowType /\ SamePlace(ys[w], b) /\ b.cells = ys[w].cells /\ b.marks = ys[w].marks
      /\ b.cury = ys[w].cury /\ b.curx = ys[w].curx
  BY <1>6, ExceptClear
<1> HIDE DEF b
<1>8. us \in WindowMap /\ us[w] = b /\ \A v \in Windows \ {w} : us[v] = ys[v]
  BY <1>1, <1>3, <1>5, <1>7 DEF WindowMap
<1>9. Live(us) = Live(ws)
  <2>1. ws[w] # NoWindow /\ us[w] # NoWindow /\ ws[o] # NoWindow /\ ys[o] # NoWindow
    BY <1>1, <1>5, <1>7, <1>8, WindowIsLive DEF Live
  <2> QED
    BY <1>5, <1>8, <2>1 DEF Live
<1>10. ASSUME NEW v \in Live(ws)
       PROVE  /\ SamePlace(ws[v], us[v]) /\ us[v].cury = ws[v].cury /\ us[v].curx = ws[v].curx
              /\ us[v].cells = ws[v].cells
              /\ us[v].marks = IF v = o THEN m ELSE ws[v].marks
  <2>1. /\ SamePlace(ws[v], ys[v]) /\ ys[v].cury = ws[v].cury /\ ys[v].curx = ws[v].curx
        /\ ys[v].cells = ws[v].cells
        /\ ys[v].marks = IF v = o THEN m ELSE ws[v].marks
    BY <1>5 DEF Live, SamePlace
  <2>2. CASE v = w
    BY <1>7, <1>8, <2>1, <2>2 DEF SamePlace
  <2>3. CASE v # w
    BY <1>8, <2>1, <2>3 DEF Live
  <2> QED
    BY <2>2, <2>3
<1>11. ASSUME NEW v \in Live(ws), ws[v].owner = v PROVE OwnCells(us[v])
  <2>1. Inside(us[v]) = Inside(ws[v]) /\ us[v].maxy = ws[v].maxy /\ OwnCells(ws[v])
    BY <1>10, <1>11, InsideSame DEF SamePlace, Steady, Shape
  <2> QED
    BY <1>2, <1>10, <2>1 DEF OwnCells
<1>12. Keeps(ws, us)
  BY <1>8, <1>9, <1>10, <1>11 DEF Keeps
<1> QED
  BY <1>1, <1>2, <1>10, <1>12
-----------------------------------------------------------------------------
(* What a refresh makes of the terminal.                                   *)

(* What is written is wanted.                                              *)
LEMMA SetAllWant ==
  ASSUME NEW t \in TermType, NEW cells, DOMAIN cells \subseteq Pos, NEW i \in Pos
  PROVE  SetAll(t, cells).want[i] = IF i \in DOMAIN cells THEN cells[i] ELSE t.want[i]
<1> DEFINE changed == {j \in DOMAIN cells : t.want[j] # cells[j]}
           range   == IF t.dirty THEN changed \cup {t.first, t.last} ELSE changed
           want    == [j \in Pos |-> IF j \in changed THEN cells[j] ELSE t.want[j]]
<1>1. CASE changed = {}
  BY <1>1 DEF SetAll
<1>2. CASE changed # {}
  <2>1. SetAll(t, cells) = [t EXCEPT !.want = want, !.dirty = TRUE, !.first = Least(range), !.last = Greatest(range)]
    BY <1>2, Zenon DEF SetAll
  <2>2. SetAll(t, cells).want = want
    <3> HIDE DEF want, range
    <3> QED
      BY <2>1 DEF TermType
  <2> QED
    BY <2>2
<1> QED
  BY <1>1, <1>2

(* The terminal's variables when a refresh starts its flush.               *)
RefreshTerm(w, xs) == SetAll(Cleared(term, wins[w]), MarkedCells(xs, w))

(* A refresh leaves the terminal sound.                                    *)
LEMMA ClearedSound ==
  ASSUME IInv, NEW win, term.ready
  PROVE  Sound(Cleared(term, win), screen) /\ Cleared(term, win).ready
<1>1. Sound(term, screen) /\ term \in TermType
  BY DEF IInv, Sound
<1>2. Sound(Clear(term), screen) /\ Clear(term).ready
  BY <1>1, ClearSound, ReadyFields
<1>3. /\ Sound(Redraw(term), screen) /\ Redraw(term).ready
      /\ Sound(Redraw(Clear(term)), screen) /\ Redraw(Clear(term)).ready
  BY <1>1, <1>2, RedrawSound, ReadyFields DEF Sound
<1> QED
  BY <1>1, <1>2, <1>3 DEF Cleared

LEMMA RefreshTermSound ==
  ASSUME IInv, term.ready, NEW w, NEW xs, Steady(xs), w \in Live(xs)
  PROVE  Sound(RefreshTerm(w, xs), screen) /\ RefreshTerm(w, xs).ready
<1> DEFINE new == MarkedCells(xs, w)
           t == Cleared(term, wins[w])
<1>1. DOMAIN new \subseteq Pos /\ \A i \in DOMAIN new : new[i] \in Cell
  BY MarkedCellsAre DEF Cell
<1>2. Sound(t, screen) /\ t.ready
  BY ClearedSound
<1> HIDE DEF new, t
<1>3. Sound(SetAll(t, new), screen) /\ SetAll(t, new).ready
  BY <1>1, <1>2, SetAllSound
<1> QED
  BY <1>3 DEF RefreshTerm, new, t

(* A window's cell and its owner's are at one place.                       *)
LEMMA SharedPlace ==
  ASSUME NEW ws, Steady(ws), Aligned(ws), NEW w \in Live(ws), NEW o, ws[w].owner = o, NEW p \in Inside(ws[w])
  PROVE  /\ Stored(ws[w], p) = <<p[1] + ws[w].offy, p[2]>>
         /\ Visible(ws[w], p) = Visible(ws[o], Stored(ws[w], p))
         /\ Place(ws[w], p) = Place(ws[o], Stored(ws[w], p))
<1>1. p[1] \in Nat /\ p[2] \in Nat
  BY StoredInside
<1>2. o \in Live(ws)
  BY DEF Steady, Shape
<1>3. ws[w].offy \in Nat /\ ws[o].begy \in Int /\ ws[o].begx \in Int
  BY <1>2, LiveTyped, WindowFields DEF Steady
<1>4. ws[w].offx = 0 /\ ws[w].begx = ws[o].begx /\ ws[w].begy = ws[o].begy + ws[w].offy
  BY DEF Aligned
<1>5. Stored(ws[w], p) = <<p[1] + ws[w].offy, p[2]>>
  BY <1>1, <1>4 DEF Stored
<1>6. ws[w].begy + p[1] = ws[o].begy + (p[1] + ws[w].offy) /\ ws[w].begx + p[2] = ws[o].begx + p[2]
  BY <1>1, <1>3, <1>4
<1> QED
  BY <1>5, <1>6 DEF Visible, Place

(* The rows of the owner that are w's.                                     *)
LEMMA SharedRows ==
  ASSUME NEW ws, Steady(ws), Aligned(ws), NEW w \in Live(ws), NEW o, ws[w].owner = o, NEW q \in Inside(ws[o]),
         q[1] - ws[w].offy \in 0 .. ws[w].maxy - 1
  PROVE  \E p \in Inside(ws[w]) : q = Stored(ws[w], p) /\ p[1] = q[1] - ws[w].offy
<1>1. o \in Live(ws)
  BY DEF Steady, Shape
<1>2. q[1] \in Nat /\ q[2] \in 0 .. ws[o].maxx - 1 /\ q = <<q[1], q[2]>>
  BY <1>1, StoredInside
<1>3. ws[w].maxx = ws[o].maxx /\ ws[w].offy \in Nat
  BY LiveTyped, WindowFields DEF Aligned, Steady
<1> DEFINE p == <<q[1] - ws[w].offy, q[2]>>
<1>4. p \in Inside(ws[w])
  BY <1>2, <1>3 DEF Inside, Area
<1>5. Stored(ws[w], p) = <<p[1] + ws[w].offy, p[2]>>
  BY <1>4, SharedPlace
<1>6. p[1] + ws[w].offy = q[1]
  BY <1>2, <1>3
<1>7. Stored(ws[w], p) = q /\ p[1] = q[1] - ws[w].offy
  BY <1>2, <1>5, <1>6
<1> QED
  BY <1>4, <1>7

(* The rows that are marked are drawn, those that are not were already     *)
(* there, and rows of other windows that change are covered.               *)
LEMMA RefreshMatched ==
  ASSUME NEW ws, Steady(ws), Aligned(ws), NEW w \in Live(ws), NEW flag \in BOOLEAN, NEW o, ws[w].owner = o,
         NEW xs, xs = Touched(ws, w, flag), NEW us, us = Refreshed(xs, w, 0 .. ws[w].maxy - 1),
         NEW want, NEW over, Matched(ws, want, over),
         NEW new, new = MarkedCells(xs, w), NEW shows,
         \A i \in DOMAIN new : shows[i] = new[i],
         NEW overs, \A v \in Windows : \A i \in Pos :
           i \notin overs[v] => \/ i \notin over[v] /\ shows[i] = want[i]
                                \/ v = o /\ i \in DOMAIN new
  PROVE  Matched(us, shows, overs)
<1>1. /\ Steady(xs) /\ Live(xs) = Live(ws) /\ \A v \in Live(ws) : SamePlace(ws[v], xs[v])
      /\ xs[o].cells = ws[o].cells
      /\ \A y \in 0 .. ws[o].maxy - 1 :
           xs[o].marks[y] <=> ws[o].marks[y] \/ (flag /\ y - ws[w].offy \in 0 .. ws[w].maxy - 1)
      /\ \A v \in Windows \ {o} : xs[v] = ws[v]
  <2>1. TouchedOf(ws, Touched(ws, w, flag), w, o, flag)
    BY TouchedMarks
  <2> QED
    BY <2>1 DEF TouchedOf
<1>2. o \in Live(ws) /\ ws[o].owner = o /\ w \in Live(xs) /\ xs[w].owner = o /\ xs[w].offy = ws[w].offy
  BY <1>1 DEF Steady, Shape, SamePlace
<1>n. /\ \A i : i \in DOMAIN new <=> \E p \in Showing(xs, w) : i = Place(xs[w], p)
      /\ \A p \in Showing(xs, w) : new[Place(xs[w], p)] = Content(xs, w, p)
  <2>1. Steady(xs) /\ w \in Live(xs)
    BY <1>1, <1>2
  <2> QED
    BY <2>1, MarkedCellsAre
<1> DEFINE rows == 0 .. ws[w].maxy - 1
<1>3. us = Refreshed(xs, w, rows)
  OBVIOUS
<1> HIDE DEF rows
<1>4. /\ Keeps(xs, us) /\ us[o].cells = xs[o].cells
      /\ \A y \in 0 .. xs[o].maxy - 1 : us[o].marks[y] <=> xs[o].marks[y] /\ y - xs[w].offy \notin rows
      /\ \A v \in Live(xs) \ {o} : us[v].cells = xs[v].cells /\ us[v].marks = xs[v].marks
  BY <1>1, <1>2, <1>3, RefreshedMarks
<1>5. Live(us) = Live(ws) /\ \A v \in Live(ws) : SamePlace(ws[v], us[v])
  BY <1>1, <1>4 DEF Keeps, SamePlace
<1>6. /\ us[o].cells = ws[o].cells
      /\ \A y \in 0 .. ws[o].maxy - 1 :
           us[o].marks[y] <=> ws[o].marks[y] /\ y - ws[w].offy \notin rows
      /\ \A v \in Live(ws) \ {o} : us[v].cells = ws[v].cells /\ us[v].marks = ws[v].marks
  <2>1. xs[o].maxy = ws[o].maxy
    BY <1>1, <1>2 DEF SamePlace
  <2>2. \A v \in Live(ws) \ {o} : xs[v] = ws[v]
    BY <1>1 DEF Live
  <2> QED
    BY <1>1, <1>2, <1>4, <2>1, <2>2 DEF rows
<1> SUFFICES ASSUME NEW v \in Live(ws), us[v].owner = v, NEW q \in Inside(us[v]),
                    Visible(us[v], q), ~us[v].marks[q[1]], Place(us[v], q) \notin overs[v]
             PROVE  shows[Place(us[v], q)] = us[v].cells[q]
  BY <1>5 DEF Matched, CellMatches
<1> DEFINE i == Place(ws[v], q)
<1>7. /\ ws[v].owner = v /\ q \in Inside(ws[v]) /\ Visible(ws[v], q) /\ i = Place(us[v], q)
      /\ i \notin overs[v] /\ v \in Windows
  BY <1>5, InsideSame DEF SamePlace, Visible, Place, Live
<1>8. i \in Pos
  BY <1>7, IndexOnScreen DEF Visible, Place
<1>9. CellMatches(ws[v], want, over[v], q)
  BY <1>7 DEF Matched
<1>10. q[1] \in 0 .. ws[v].maxy - 1
  BY <1>7, StoredInside
<1> HIDE DEF i
<1>11. CASE v # o
  <2>1. i \notin over[v] /\ shows[i] = want[i]
    BY <1>7, <1>8, <1>11
  <2>2. us[v].cells = ws[v].cells /\ us[v].marks = ws[v].marks
    BY <1>6, <1>11
  <2> QED
    BY <1>7, <1>9, <2>1, <2>2 DEF CellMatches, i
<1>12. CASE v = o
  <2>a. Aligned(xs) /\ Inside(xs[o]) = Inside(ws[o]) /\ Inside(xs[w]) = Inside(ws[w])
    <3>1. Aligned(xs)
      <4> SUFFICES ASSUME NEW u \in Live(xs)
                   PROVE  /\ xs[u].offx = 0
                          /\ xs[u].maxx = xs[xs[u].owner].maxx
                          /\ xs[u].begx = xs[xs[u].owner].begx
                          /\ xs[u].begy = xs[xs[u].owner].begy + xs[u].offy
        BY DEF Aligned
      <4>1. SamePlace(ws[u], xs[u]) /\ ws[u].owner \in Live(ws) /\ SamePlace(ws[ws[u].owner], xs[ws[u].owner])
        BY <1>1 DEF Steady, Shape
      <4> QED
        BY <1>1, <4>1 DEF Aligned, SamePlace
    <3> QED
      BY <1>1, <1>2, <3>1, InsideSame
  <2>b. SamePlace(ws[o], xs[o]) /\ SamePlace(ws[w], xs[w])
    BY <1>1, <1>2
  <2>s. ASSUME NEW p \in Inside(xs[w])
        PROVE  /\ Place(xs[w], p) = Place(ws[o], Stored(ws[w], p))
               /\ Visible(xs[w], p) = Visible(ws[o], Stored(ws[w], p))
               /\ Stored(xs[w], p) = Stored(ws[w], p)
               /\ Stored(ws[w], p) \in Inside(ws[o])
               /\ Stored(ws[w], p)[1] = p[1] + ws[w].offy
    <3>1. Place(ws[w], p) = Place(ws[o], Stored(ws[w], p)) /\ Visible(ws[w], p) = Visible(ws[o], Stored(ws[w], p))
          /\ Stored(ws[w], p) = <<p[1] + ws[w].offy, p[2]>>
      BY <2>a, SharedPlace
    <3>2. Stored(ws[w], p) \in Inside(ws[o])
      BY <2>a, StoredInside
    <3>3. Place(xs[w], p) = Place(ws[w], p) /\ Visible(xs[w], p) = Visible(ws[w], p) /\ Stored(xs[w], p) = Stored(ws[w], p)
      BY <2>b DEF SamePlace, Place, Visible, Stored
    <3> QED
      BY <3>1, <3>2, <3>3
  <2>n. ASSUME i \in DOMAIN new
        PROVE  \E p \in Showing(xs, w) : q = Stored(ws[w], p)
    <3>1. PICK p \in Showing(xs, w) : i = Place(xs[w], p)
      BY <1>n, <2>n
    <3>2. p \in Inside(xs[w]) /\ Visible(xs[w], p)
      BY DEF Showing
    <3>3. Place(ws[o], Stored(ws[w], p)) = Place(ws[o], q) /\ Visible(ws[o], Stored(ws[w], p))
          /\ Stored(ws[w], p) \in Inside(ws[o])
      BY <1>12, <2>s, <3>1, <3>2 DEF i
    <3>4. Stored(ws[w], p) = q
      BY <1>2, <1>7, <1>12, <3>3, PlaceUnique
    <3> QED
      BY <3>4
  <2>1. CASE q[1] - ws[w].offy \in rows
    <3>1. PICK p \in Inside(ws[w]) : q = Stored(ws[w], p) /\ p[1] = q[1] - ws[w].offy
      BY <1>7, <1>12, <2>1, SharedRows DEF rows
    <3>2. p \in Inside(xs[w]) /\ i = Place(xs[w], p) /\ Visible(xs[w], p) /\ q = Stored(xs[w], p)
      BY <1>7, <1>12, <2>a, <2>s, <3>1 DEF i
    <3>m. Marked(xs, w, p[1]) <=> xs[o].marks[q[1]]
      <4>1. p[1] \in Nat /\ xs[w].offy \in Nat /\ q[1] = p[1] + xs[w].offy
        <5>1. p[1] \in Nat /\ Stored(xs[w], p) = <<p[1] + xs[w].offy, p[2] + xs[w].offx>>
          BY <1>1, <1>2, <3>2, StoredInside DEF Stored
        <5> QED
          BY <1>1, <1>2, <3>2, <5>1, LiveTyped, WindowFields DEF Steady
      <4> QED
        BY <1>2, <4>1 DEF Marked
    <3>3. CASE Marked(xs, w, p[1])
      <4>1. p \in Showing(xs, w)
        BY <3>2, <3>3 DEF Showing
      <4>2. i \in DOMAIN new /\ new[i] = Content(xs, w, p)
        BY <1>n, <3>2, <4>1
      <4>3. Content(xs, w, p) = ws[o].cells[q]
        BY <1>1, <1>2, <3>2 DEF Content
      <4> QED
        BY <1>6, <1>7, <1>12, <4>2, <4>3
    <3>4. CASE ~Marked(xs, w, p[1])
      <4>1. i \notin DOMAIN new
        <5> SUFFICES ASSUME i \in DOMAIN new PROVE FALSE
          OBVIOUS
        <5>1. PICK r \in Showing(xs, w) : q = Stored(ws[w], r)
          BY <2>n
        <5>2. r \in Inside(xs[w]) /\ Marked(xs, w, r[1])
          BY DEF Showing
        <5>3. r[1] + ws[w].offy = p[1] + ws[w].offy /\ r[1] \in Nat /\ p[1] \in Nat /\ ws[w].offy \in Nat
          <6>1. Stored(ws[w], r)[1] = r[1] + ws[w].offy /\ Stored(ws[w], p)[1] = p[1] + ws[w].offy
            BY <2>s, <3>2, <5>2
          <6>2. r[1] \in Nat /\ p[1] \in Nat
            BY <1>1, <1>2, <3>2, <5>2, StoredInside
          <6>3. ws[w].offy \in Nat
            BY LiveTyped, WindowFields DEF Steady
          <6> QED
            BY <3>1, <5>1, <6>1, <6>2, <6>3
        <5>4. r[1] = p[1]
          BY <5>3
        <5> QED
          BY <3>4, <5>2, <5>4
      <4>2. i \notin over[o] /\ shows[i] = want[i]
        BY <1>7, <1>8, <1>12, <4>1
      <4>3. ~ws[o].marks[q[1]]
        BY <1>1, <1>10, <1>12, <3>4, <3>m
      <4> QED
        BY <1>6, <1>7, <1>9, <1>12, <4>2, <4>3 DEF CellMatches, i
    <3> QED
      BY <3>3, <3>4
  <2>2. CASE q[1] - ws[w].offy \notin rows
    <3>1. ~ws[o].marks[q[1]]
      BY <1>6, <1>10, <1>12, <2>2
    <3>2. i \notin DOMAIN new
      <4> SUFFICES ASSUME i \in DOMAIN new PROVE FALSE
        OBVIOUS
      <4>1. PICK p \in Showing(xs, w) : q = Stored(ws[w], p)
        BY <2>n
      <4>2. p \in Inside(xs[w])
        BY DEF Showing
      <4>3. q[1] = p[1] + ws[w].offy /\ p[1] \in 0 .. ws[w].maxy - 1
        BY <2>a, <2>s, <4>1, <4>2, StoredInside
      <4>4. ws[w].offy \in Nat /\ ws[w].maxy \in Nat
        BY LiveTyped, WindowFields DEF Steady
      <4>5. q[1] - ws[w].offy = p[1]
        BY <4>3, <4>4
      <4> QED
        BY <2>2, <4>3, <4>5 DEF rows
    <3>3. i \notin over[o] /\ shows[i] = want[i]
      BY <1>7, <1>8, <1>12, <3>2
    <3> QED
      BY <1>6, <1>7, <1>9, <1>12, <3>1, <3>3 DEF CellMatches, i
  <2> QED
    BY <2>1, <2>2
<1> QED
  BY <1>11, <1>12

-----------------------------------------------------------------------------
(* The invariants of the composition.                                      *)

(* What the terminal will show when the keyboard's panel has gone.         *)
Wanted == IF PanelUp THEN osk ELSE term.want

(* Windows are there once the terminal is ready.                           *)
ScreenIInv ==
  /\ IInv
  /\ Steady(wins)
  /\ clear_next \in BOOLEAN
  /\ pc \in Stacks
  /\ Live(wins) # {} => term.ready
  /\ covered \in [Windows -> SUBSET Pos]

SharedIInv == Aligned(wins) /\ Matched(wins, Wanted, covered)

-----------------------------------------------------------------------------
(* The calls that only change a window's cells, marks and cursor.          *)

LEMMA ClearChanges ==
  ASSUME NEW ws, Steady(ws), NEW w \in Live(ws), NEW b \in BOOLEAN
  PROVE  Changing(ws, [ws EXCEPT ![w].clear = b])
<1> DEFINE win == [ws[w] EXCEPT !.clear = b]
           us == [ws EXCEPT ![w].clear = b]
<1>1. w \in Windows /\ ws[w] \in WindowType /\ ws \in WindowMap /\ Shape(ws)
  BY LiveTyped DEF Steady
<1>2. us = [ws EXCEPT ![w] = win]
  OBVIOUS
<1>3. /\ win \in WindowType /\ SamePlace(ws[w], win) /\ win.cells = ws[w].cells /\ win.marks = ws[w].marks
      /\ win.cury = ws[w].cury /\ win.curx = ws[w].curx
  BY <1>1, ExceptClear
<1> HIDE DEF win, us
<1>4. us \in WindowMap /\ us[w] = win /\ \A v \in Windows \ {w} : us[v] = ws[v]
  BY <1>1, <1>2, <1>3 DEF WindowMap
<1>5. ws[w].owner = w => Marking(ws[w], us[w])
  <2>1. Inside(us[w]) = Inside(ws[w]) /\ us[w].maxy = ws[w].maxy
    BY <1>3, <1>4, InsideSame DEF SamePlace
  <2> QED
    BY <1>1, <1>3, <1>4, <2>1 DEF Marking, OwnCells, Shape
<1>6. Edits(ws, us)
  BY <1>1, <1>3, <1>4, <1>5, SameExceptOwner
<1>7. SameCursors(ws, us)
  BY <1>3, <1>4 DEF SameCursors, Live
<1>8. Steady(us)
  BY <1>6, <1>7, EditsShape, EditsCursors DEF Steady, Edits
<1> QED
  BY <1>6, <1>8 DEF Changing, us

EditCall(w) ==
  \/ Wmove(w) \/ Waddch(w) \/ Werase(w) \/ Wclear(w) \/ Wclrtoeol(w) \/ Wclrtobot(w)
  \/ Touchwin(w) \/ Clearok(w) \/ BoxWindow(w) \/ Rubout(w)

(* Each of these calls edits, or only says that the next refresh clears.   *)
LEMMA EditCalls ==
  ASSUME Steady(wins), clear_next \in BOOLEAN, NEW w \in Live(wins), EditCall(w)
  PROVE  Changing(wins, wins') /\ UNCHANGED <<termVars, covered>> /\ clear_next' \in BOOLEAN
<1>1. wins \in WindowMap /\ wins[w] \in WindowType
  BY LiveTyped DEF Steady
<1>a. /\ wins[w].maxy \in Nat \ {0} /\ wins[w].maxx \in Nat \ {0}
      /\ wins[w].cury \in 0 .. wins[w].maxy - 1 /\ wins[w].curx \in 0 .. wins[w].maxx - 1
  BY <1>1, WindowFields DEF Steady, CursorIn
<1>e. ASSUME NEW us, Edit(us), Changing(wins, us)
      PROVE  Changing(wins, wins') /\ UNCHANGED <<termVars, covered>> /\ clear_next' \in BOOLEAN
  BY <1>e DEF Edit
<1>2. ASSUME Wmove(w) PROVE \E us : Edit(us) /\ Changing(wins, us)
  <2>1. PICK p \in Inside(wins[w]) : Edit(MoveTo(wins, w, p[1], p[2]))
    BY <1>2 DEF Wmove
  <2>2. p[1] \in 0 .. wins[w].maxy - 1 /\ p[2] \in 0 .. wins[w].maxx - 1
    BY StoredInside
  <2> QED
    BY <2>1, <2>2, MoveChanges
<1>3. ASSUME Waddch(w) PROVE \E us : Edit(us) /\ Changing(wins, us)
  BY <1>3, AddchChanges DEF Waddch
<1>4. ASSUME Werase(w) PROVE \E us : Edit(us) /\ Changing(wins, us)
  BY <1>4, EraseChanges DEF Werase
<1>5. ASSUME Wclear(w) PROVE \E us : Edit(us) /\ Changing(wins, us)
  <2> DEFINE us == Erase(wins, w)
  <2>1. Changing(wins, us) /\ w \in Live(us)
    BY EraseChanges
  <2>2. Edit([us EXCEPT ![w].clear = TRUE])
    BY <1>5 DEF Wclear
  <2> HIDE DEF us
  <2>3. Changing(us, [us EXCEPT ![w].clear = TRUE])
    BY <2>1, ClearChanges DEF Changing
  <2>4. Changing(wins, [us EXCEPT ![w].clear = TRUE])
    BY <2>1, <2>3, ChangingFollows
  <2> QED
    BY <2>2, <2>4
<1>6. ASSUME Wclrtoeol(w) PROVE \E us : Edit(us) /\ Changing(wins, us)
  BY <1>1, <1>6, PutChanges, InsideInts, TerminalCells DEF Wclrtoeol
<1>7. ASSUME Wclrtobot(w) PROVE \E us : Edit(us) /\ Changing(wins, us)
  BY <1>1, <1>7, PutChanges, InsideInts, TerminalCells DEF Wclrtobot
<1>8. ASSUME Touchwin(w) PROVE \E us : Edit(us) /\ Changing(wins, us)
  BY <1>8, MarkChanges DEF Touchwin, TouchAll
<1>9. ASSUME BoxWindow(w) PROVE \E us : Edit(us) /\ Changing(wins, us)
  BY <1>1, <1>9, PutChanges, InsideInts DEF BoxWindow
<1>10. ASSUME Rubout(w) PROVE \E us : Edit(us) /\ Changing(wins, us)
  <2> DEFINE x == wins[w].curx - 1
             y == wins[w].cury
             xs == MoveTo(wins, w, y, x)
  <2>1. x >= 0 /\ Edit(Put(xs, w, {<<y, x>>}, Blank))
    BY <1>10 DEF Rubout
  <2>2. y \in 0 .. wins[w].maxy - 1 /\ x \in 0 .. wins[w].maxx - 1 /\ {<<y, x>>} \in SUBSET (Int \X Int)
    BY <1>a, <2>1
  <2> HIDE DEF x, y
  <2>3. Changing(wins, xs)
    BY <2>2, MoveChanges
  <2> HIDE DEF xs
  <2>4. Steady(xs) /\ w \in Live(xs)
    BY <2>3 DEF Changing, Edits
  <2>5. Changing(xs, Put(xs, w, {<<y, x>>}, Blank))
    BY <2>2, <2>4, PutChanges, TerminalCells
  <2>6. Changing(wins, Put(xs, w, {<<y, x>>}, Blank))
    BY <2>3, <2>5, ChangingFollows
  <2> QED
    BY <2>1, <2>6
<1>11. ASSUME Clearok(w)
       PROVE  \/ \E us : Edit(us) /\ Changing(wins, us)
              \/ clear_next' \in BOOLEAN /\ UNCHANGED <<termVars, wins, covered>>
  BY <1>11, ClearChanges DEF Clearok
<1>12. Changing(wins, wins)
  BY EditsNothing DEF Changing, Steady
<1>13. (\E us : Edit(us) /\ Changing(wins, us)) \/ (clear_next' \in BOOLEAN /\ UNCHANGED <<termVars, wins, covered>>)
  BY <1>2, <1>3, <1>4, <1>5, <1>6, <1>7, <1>8, <1>9, <1>10, <1>11 DEF EditCall
<1> QED
  BY <1>e, <1>12, <1>13

(* Edits keep the invariants.                                              *)
LEMMA EditKeeps ==
  ASSUME ScreenIInv, Changing(wins, wins'), UNCHANGED <<termVars, covered>>, clear_next' \in BOOLEAN
  PROVE  ScreenIInv' /\ (SharedIInv => SharedIInv')
<1>1. UNCHANGED <<term, brush, osk, pc, screen, room>> /\ room \in Nat
  BY DEF termVars, ScreenIInv, IInv, TermTypeOK
<1>2. IInv'
  BY <1>1, StillIInv DEF ScreenIInv
<1>3. Live(wins') = Live(wins) /\ Steady(wins') /\ Edits(wins, wins') /\ Shape(wins)
  BY DEF Changing, Edits, ScreenIInv, Steady
<1>4. ScreenIInv'
  BY <1>1, <1>2, <1>3 DEF ScreenIInv
<1>5. Wanted' = Wanted
  BY <1>1 DEF Wanted, PanelUp
<1>6. ASSUME SharedIInv PROVE Aligned(wins') /\ Matched(wins', Wanted', covered')
  BY <1>3, <1>5, <1>6, EditsAligned, EditsMatched DEF SharedIInv
<1> QED
  BY <1>4, <1>6 DEF SharedIInv

-----------------------------------------------------------------------------
(* Windows that come, move and go.                                         *)

(* A window that can be added to ws as w: one of its own, or a part of     *)
(* another one's.                                                          *)
Fresh(ws, w, win) ==
  /\ win \in WindowType /\ CursorIn(win)
  /\ \/ win.owner = w /\ win.offy = 0 /\ win.offx = 0 /\ OwnCells(win) /\ \A y \in 0 .. win.maxy - 1 : win.marks[y]
     \/ /\ win.owner \in Live(ws) /\ ws[win.owner].owner = win.owner
        /\ win.offy + win.maxy <= ws[win.owner].maxy
        /\ win.offx + win.maxx <= ws[win.owner].maxx

Fits(ws, w, win) ==
  \/ win.owner = w
  \/ /\ win.offx = 0 /\ win.maxx = ws[win.owner].maxx /\ win.begx = ws[win.owner].begx
     /\ win.begy = ws[win.owner].begy + win.offy

(* A new window leaves the others as they were.                            *)
LEMMA FreshSteady ==
  ASSUME NEW ws, Steady(ws), NEW w \in Windows, ws[w] = NoWindow, NEW win, Fresh(ws, w, win),
         NEW us, us = [ws EXCEPT ![w] = win]
  PROVE  /\ Steady(us)
         /\ Live(us) = Live(ws) \cup {w}
         /\ Aligned(ws) /\ Fits(ws, w, win) => Aligned(us)
<1>1. us \in WindowMap /\ us[w] = win /\ \A v \in Windows \ {w} : us[v] = ws[v]
  BY DEF Steady, WindowMap, Fresh
<1>2. win # NoWindow /\ w \notin Live(ws)
  BY WindowIsLive DEF Fresh, Live
<1>3. Live(us) = Live(ws) \cup {w} /\ \A v \in Live(ws) : us[v] = ws[v] /\ v # w
  BY <1>1, <1>2 DEF Live
<1>t. /\ win.offy \in Nat /\ win.offx \in Nat /\ win.maxy \in Nat /\ win.maxx \in Nat
      /\ win.begy \in Int
  BY WindowFields DEF Fresh
<1>4. Shape(us)
  <2> SUFFICES ASSUME NEW v \in Live(us)
               PROVE  /\ us[v].owner \in Live(us)
                      /\ us[us[v].owner].owner = us[v].owner
                      /\ us[v].offy + us[v].maxy <= us[us[v].owner].maxy
                      /\ us[v].offx + us[v].maxx <= us[us[v].owner].maxx
                      /\ us[v].owner = v => OwnCells(us[v])
    BY DEF Shape
  <2>1. CASE v \in Live(ws)
    BY <1>3, <2>1 DEF Steady, Shape
  <2>2. CASE v = w /\ win.owner = w
    BY <1>1, <1>2, <1>3, <1>t, <2>2 DEF Fresh
  <2>3. CASE v = w /\ win.owner # w
    BY <1>1, <1>2, <1>3, <2>3 DEF Fresh
  <2> QED
    BY <1>3, <2>1, <2>2, <2>3
<1>5. \A v \in Live(us) : CursorIn(us[v])
  BY <1>1, <1>3 DEF Steady, Fresh
<1>6. ASSUME Aligned(ws), Fits(ws, w, win), NEW v \in Live(us)
      PROVE  /\ us[v].offx = 0
             /\ us[v].maxx = us[us[v].owner].maxx
             /\ us[v].begx = us[us[v].owner].begx
             /\ us[v].begy = us[us[v].owner].begy + us[v].offy
  <2>1. CASE v \in Live(ws)
    BY <1>3, <1>6, <2>1 DEF Steady, Shape, Aligned
  <2>2. CASE v = w /\ win.owner = w
    BY <1>1, <1>2, <1>t, <2>2 DEF Fresh
  <2>3. CASE v = w /\ win.owner # w
    BY <1>1, <1>2, <1>3, <1>6, <2>3 DEF Fresh, Fits
  <2> QED
    BY <1>3, <2>1, <2>2, <2>3
<1> QED
  BY <1>1, <1>3, <1>4, <1>5, <1>6 DEF Steady, Aligned

(* Its own cells, if it has any, are all marked.                           *)
LEMMA FreshMatched ==
  ASSUME NEW ws, Steady(ws), NEW w \in Windows, ws[w] = NoWindow, NEW win, Fresh(ws, w, win),
         NEW us, us = [ws EXCEPT ![w] = win],
         NEW want, NEW over, Matched(ws, want, over), NEW shows, NEW overs,
         \A v \in Windows \ {w} : \A i \in Pos : i \notin overs[v] => i \notin over[v] /\ shows[i] = want[i]
  PROVE  Matched(us, shows, overs)
<1>1. us[w] = win /\ (\A v \in Windows \ {w} : us[v] = ws[v]) /\ Live(us) = Live(ws) \cup {w} /\ w \notin Live(ws)
  BY FreshSteady DEF Steady, WindowMap, Fresh, Live
<1> SUFFICES ASSUME NEW o \in Live(us), us[o].owner = o, NEW q \in Inside(us[o])
             PROVE  CellMatches(us[o], shows, overs[o], q)
  BY DEF Matched
<1>2. CASE o = w
  <2>1. q[1] \in 0 .. win.maxy - 1
    BY <1>1, <1>2 DEF Inside, Area
  <2>2. win.marks[q[1]]
    BY <1>1, <1>2, <2>1 DEF Fresh
  <2> QED
    BY <1>1, <1>2, <2>2 DEF CellMatches
<1>3. CASE o # w
  <2>1. o \in Live(ws) /\ us[o] = ws[o] /\ o \in Windows \ {w}
    BY <1>1, <1>3 DEF Live
  <2>2. CellMatches(ws[o], want, over[o], q)
    BY <2>1 DEF Matched
  <2>3. Visible(ws[o], q) => Place(ws[o], q) \in Pos
    BY IndexOnScreen DEF Visible, Place
  <2> QED
    BY <2>1, <2>2, <2>3 DEF CellMatches
<1> QED
  BY <1>2, <1>3

(* newwin() makes a window of its own.                                     *)
LEMMA BlankWindow ==
  ASSUME NEW w \in Windows, NEW lines \in Nat \ {0}, NEW cols \in Nat \ {0}, NEW y \in Int, NEW x \in Int, NEW ws
  PROVE  /\ Fresh(ws, w, [NewWindow(lines, cols, y, x) EXCEPT !.owner = w])
         /\ Fits(ws, w, [NewWindow(lines, cols, y, x) EXCEPT !.owner = w])
<1> DEFINE cells == [p \in Area(lines, cols) |-> Blank]
           marks == [r \in 0 .. lines - 1 |-> TRUE]
           Owned(o, b) ==
             [owner |-> o, offy |-> 0, offx |-> 0, cury |-> 0, curx |-> 0, maxy |-> lines, maxx |-> cols,
              begy |-> y, begx |-> x, clear |-> b, cells |-> cells, marks |-> marks]
           win == Owned(w, FALSE)
<1>a. NewWindow(lines, cols, y, x) = Owned("self", FALSE)
  BY DEF NewWindow
<1>1. [NewWindow(lines, cols, y, x) EXCEPT !.owner = w] = win
  <2> HIDE DEF cells, marks
  <2>1. \A b : [Owned("self", b) EXCEPT !.owner = w] = Owned(w, b)
    OBVIOUS
  <2> HIDE DEF Owned
  <2>2. [Owned("self", FALSE) EXCEPT !.owner = w] = Owned(w, FALSE)
    BY <2>1, Zenon
  <2> QED
    BY <1>a, <2>2, Zenon DEF win
<1>2. cells \in [Area(lines, cols) -> Glyphs] /\ Area(lines, cols) \in SUBSET (Nat \X Nat)
  BY TerminalCells DEF Area
<1>3. marks \in [0 .. lines - 1 -> BOOLEAN] /\ 0 .. lines - 1 \in SUBSET Nat /\ \A r \in 0 .. lines - 1 : marks[r]
  OBVIOUS
<1> HIDE DEF cells, marks
<1>4. cells \in CellMaps /\ marks \in MarkMaps
  BY <1>2, <1>3 DEF CellMaps, MarkMaps
<1>5. win \in WindowType
  BY <1>4 DEF WindowType
<1>6. CursorIn(win) /\ OwnCells(win)
  BY <1>2, <1>3 DEF CursorIn, OwnCells, Inside
<1>7. \A r \in 0 .. win.maxy - 1 : win.marks[r]
  BY <1>3
<1> QED
  BY <1>1, <1>5, <1>6, <1>7 DEF Fresh, Fits

(* subwin() makes a part of its parent's owner.                            *)
LEMMA PartWindow ==
  ASSUME NEW ws, Steady(ws), NEW parent \in Live(ws), NEW s \in Sizes, NEW w \in Windows, ws[w] = NoWindow,
         NEW offy, offy = s[3] - ws[parent].begy, NEW offx, offx = s[4] - ws[parent].begx,
         offy >= 0, offx >= 0, offy + s[1] <= ws[parent].maxy, offx + s[2] <= ws[parent].maxx,
         NEW win, win = [NewWindow(s[1], s[2], s[3], s[4]) EXCEPT
                           !.owner = ws[parent].owner, !.offy = ws[parent].offy + offy,
                           !.offx = ws[parent].offx + offx, !.cells = <<>>, !.marks = <<>>]
  PROVE  /\ Fresh(ws, w, win)
         /\ Aligned(ws) /\ s[2] = ws[parent].maxx => Fits(ws, w, win)
<1> DEFINE o == ws[parent].owner
           p == ws[parent]
<1>1. s[1] \in Nat \ {0} /\ s[2] \in Nat \ {0} /\ s[3] \in Int /\ s[4] \in Int
  BY WindowSizes
<1>2. /\ o \in Live(ws) /\ ws[o].owner = o /\ p.offy + p.maxy <= ws[o].maxy /\ p.offx + p.maxx <= ws[o].maxx
      /\ o \in Windows
  BY LiveTyped DEF Steady, Shape
<1>3. /\ p.offy \in Nat /\ p.offx \in Nat /\ p.maxy \in Nat /\ p.maxx \in Nat /\ p.begy \in Int /\ p.begx \in Int
      /\ ws[o].maxy \in Nat /\ ws[o].maxx \in Nat /\ ws[o].begy \in Int /\ ws[o].begx \in Int
  BY <1>2, LiveTyped, WindowFields DEF Steady
<1>4. offy \in Nat /\ offx \in Nat /\ p.offy + offy \in Nat /\ p.offx + offx \in Nat
  BY <1>1, <1>3
<1> DEFINE new == [owner |-> o, offy |-> p.offy + offy, offx |-> p.offx + offx, cury |-> 0, curx |-> 0,
                   maxy |-> s[1], maxx |-> s[2], begy |-> s[3], begx |-> s[4], clear |-> FALSE,
                   cells |-> <<>>, marks |-> <<>>]
<1>5. win = new
  <2> HIDE DEF o, p
  <2> QED
    BY DEF NewWindow, o, p
<1>6. <<>> \in CellMaps /\ <<>> \in MarkMaps
  <2>1. <<>> \in [{} -> Glyphs] /\ <<>> \in [{} -> BOOLEAN]
    OBVIOUS
  <2> QED
    BY <2>1 DEF CellMaps, MarkMaps
<1>7. new \in WindowType
  <2> HIDE DEF o, p
  <2> QED
    BY <1>1, <1>2, <1>4, <1>6 DEF WindowType
<1>8. CursorIn(new)
  BY <1>1 DEF CursorIn
<1>9. /\ new.owner = o /\ new.offy + new.maxy <= ws[o].maxy /\ new.offx + new.maxx <= ws[o].maxx
  BY <1>1, <1>2, <1>3, <1>4
<1>10. Fresh(ws, w, win)
  BY <1>2, <1>5, <1>7, <1>8, <1>9 DEF Fresh
<1>11. ASSUME Aligned(ws), s[2] = p.maxx PROVE Fits(ws, w, win)
  <2>1. p.offx = 0 /\ p.maxx = ws[o].maxx /\ p.begx = ws[o].begx /\ p.begy = ws[o].begy + p.offy
    BY <1>11 DEF Aligned
  <2>2. offx = 0
    BY <1>4, <1>3, <1>11
  <2>3. s[4] = ws[o].begx /\ s[3] = ws[o].begy + (p.offy + offy)
    BY <1>1, <1>3, <2>1, <2>2
  <2> HIDE DEF o, p
  <2>4. new.offx = 0 /\ new.maxx = ws[o].maxx /\ new.begx = ws[o].begx /\ new.begy = ws[o].begy + new.offy /\ new.owner = o
    BY <1>11, <2>1, <2>2, <2>3
  <2> HIDE DEF new
  <2> QED
    BY <1>5, <2>4 DEF Fits
<1> QED
  BY <1>10, <1>11

-----------------------------------------------------------------------------
(* What is wanted may change where it is covered.                          *)
LEMMA WantKept ==
  ASSUME NEW ws, NEW want, NEW over, Matched(ws, want, over), NEW shows, NEW overs,
         \A v \in Windows : \A i \in Pos : i \notin overs[v] => i \notin over[v] /\ shows[i] = want[i]
  PROVE  Matched(ws, shows, overs)
<1> SUFFICES ASSUME NEW o \in Live(ws), ws[o].owner = o, NEW q \in Inside(ws[o])
             PROVE  CellMatches(ws[o], shows, overs[o], q)
  BY DEF Matched
<1>1. CellMatches(ws[o], want, over[o], q) /\ o \in Windows
  BY DEF Matched, Live
<1>2. Visible(ws[o], q) => Place(ws[o], q) \in Pos
  BY IndexOnScreen DEF Visible, Place
<1> QED
  BY <1>1, <1>2 DEF CellMatches

(* A position that is not covered is as it was, or was drawn.              *)
LEMMA CoveredIs ==
  ASSUME covered \in [Windows -> SUBSET Pos], NEW t, NEW drawn
  PROVE  /\ Covered(t, drawn) \in [Windows -> SUBSET Pos]
         /\ \A v \in Windows : \A i \in Pos :
              i \notin Covered(t, drawn)[v] =>
                i \in drawn[v] \/ (i \notin covered[v] /\ t.want[i] = term.want[i])
BY DEF Covered

(* Between calls the keyboard's panel is not there.                        *)
LEMMA WantedIs ==
  /\ pc \in Stacks \ PanelStacks => Wanted = term.want
  /\ pc' \in Stacks \ PanelStacks => Wanted' = term'.want
  /\ pc = <<>> => pc \in Stacks \ PanelStacks
  /\ pc' = <<>> => pc' \in Stacks \ PanelStacks
BY PanelUpIs DEF Wanted, Stacks, PanelStacks

(* The terminal when only windows change.                                  *)
LEMMA SameTerminal ==
  ASSUME ScreenIInv, UNCHANGED termVars
  PROVE  IInv' /\ Wanted' = Wanted /\ UNCHANGED <<term, pc>>
<1>1. UNCHANGED <<term, brush, osk, pc, screen, room>> /\ room \in Nat
  BY DEF termVars, ScreenIInv, IInv, TermTypeOK
<1>2. IInv'
  BY <1>1, StillIInv DEF ScreenIInv
<1>3. Wanted' = Wanted
  BY <1>1 DEF Wanted, PanelUp
<1> QED
  BY <1>1, <1>2, <1>3

(* The windows that come and go keep the invariants.                       *)
LEMMA CreateKeeps ==
  ASSUME ScreenIInv, term.ready, NEW w \in Windows, NEW win, Fresh(wins, w, win), Create(w, win)
  PROVE  ScreenIInv' /\ (SharedIInv /\ Fits(wins, w, win) => SharedIInv')
<1>1. /\ wins[w] = NoWindow /\ wins' = [wins EXCEPT ![w] = win] /\ covered' = [covered EXCEPT ![w] = {}]
      /\ UNCHANGED termVars /\ clear_next' = clear_next
  BY DEF Create, Alive
<1>2. IInv' /\ Wanted' = Wanted /\ UNCHANGED <<term, pc>>
  BY <1>1, SameTerminal
<1>3. Steady(wins') /\ (Aligned(wins) /\ Fits(wins, w, win) => Aligned(wins'))
  BY <1>1, FreshSteady DEF ScreenIInv
<1>4. ScreenIInv'
  BY <1>1, <1>2, <1>3 DEF ScreenIInv
<1>5. ASSUME SharedIInv PROVE Matched(wins', Wanted', covered')
  <2>1. \A v \in Windows \ {w} : covered'[v] = covered[v]
    BY <1>1 DEF ScreenIInv
  <2>2. \A v \in Windows \ {w} : \A i \in Pos : i \notin covered'[v] => i \notin covered[v] /\ Wanted'[i] = Wanted[i]
    BY <1>2, <2>1
  <2>3. Matched(wins, Wanted, covered) /\ Steady(wins) /\ wins[w] = NoWindow
    BY <1>1, <1>5 DEF SharedIInv, ScreenIInv
  <2>4. ASSUME NEW shows, NEW overs,
               \A v \in Windows \ {w} : \A i \in Pos : i \notin overs[v] => i \notin covered[v] /\ shows[i] = Wanted[i]
        PROVE  Matched([wins EXCEPT ![w] = win], shows, overs)
    BY <2>3, <2>4, FreshMatched
  <2>5. Matched([wins EXCEPT ![w] = win], Wanted', covered')
    BY <2>2, <2>4
  <2> QED
    BY <1>1, <2>5
<1> QED
  BY <1>3, <1>4, <1>5 DEF SharedIInv

LEMMA NewwinKeeps ==
  ASSUME ScreenIInv, NEW w \in Windows, Newwin(w)
  PROVE  ScreenIInv' /\ (SharedIInv => SharedIInv')
<1>1. PICK s \in Sizes : Create(w, [NewWindow(s[1], s[2], s[3], s[4]) EXCEPT !.owner = w])
  BY DEF Newwin
<1>2. s[1] \in Nat \ {0} /\ s[2] \in Nat \ {0} /\ s[3] \in Int /\ s[4] \in Int
  BY WindowSizes
<1> DEFINE win == [NewWindow(s[1], s[2], s[3], s[4]) EXCEPT !.owner = w]
<1>3. Fresh(wins, w, win) /\ Fits(wins, w, win)
  BY <1>2, BlankWindow
<1> HIDE DEF win
<1>4. term.ready
  BY DEF Newwin
<1> QED
  BY <1>1, <1>3, <1>4, CreateKeeps DEF win

LEMMA SubwinKeeps ==
  ASSUME ScreenIInv, NEW w \in Windows, NEW parent \in Live(wins), Subwin(w, parent)
  PROVE  ScreenIInv' /\ (~Partial /\ SharedIInv => SharedIInv')
<1> DEFINE p == wins[parent]
           Offy(s) == s[3] - p.begy
           Offx(s) == s[4] - p.begx
           Part(s) == [NewWindow(s[1], s[2], s[3], s[4]) EXCEPT
                         !.owner = p.owner, !.offy = p.offy + Offy(s),
                         !.offx = p.offx + Offx(s), !.cells = <<>>, !.marks = <<>>]
<1>1. PICK s \in Sizes :
         /\ Offy(s) >= 0 /\ Offx(s) >= 0 /\ Offy(s) + s[1] <= p.maxy /\ Offx(s) + s[2] <= p.maxx
         /\ Partial \/ s[2] = p.maxx
         /\ Create(w, Part(s))
  BY DEF Subwin
<1>2. wins[w] = NoWindow
  BY <1>1 DEF Create, Alive
<1>3. Steady(wins) /\ term.ready
  BY DEF ScreenIInv
<1>4. /\ Fresh(wins, w, Part(s))
      /\ Aligned(wins) /\ s[2] = p.maxx => Fits(wins, w, Part(s))
  BY <1>1, <1>2, <1>3, PartWindow
<1> HIDE DEF Part
<1>5. ScreenIInv' /\ (SharedIInv /\ Fits(wins, w, Part(s)) => SharedIInv')
  BY <1>1, <1>3, <1>4, CreateKeeps
<1> QED
  BY <1>1, <1>4, <1>5 DEF SharedIInv

LEMMA DelwinKeeps ==
  ASSUME ScreenIInv, NEW w \in Live(wins), Delwin(w)
  PROVE  ScreenIInv' /\ (SharedIInv => SharedIInv')
<1>1. /\ wins' = [wins EXCEPT ![w] = NoWindow] /\ UNCHANGED <<termVars, clear_next, covered>>
      /\ \A v \in Live(wins) \ {w} : wins[v].owner # w
  BY OpenIsLive DEF Delwin, Edit
<1>2. IInv' /\ Wanted' = Wanted /\ UNCHANGED <<term, pc>>
  BY <1>1, SameTerminal
<1>3. w \in Windows /\ wins \in WindowMap
  BY DEF Live, ScreenIInv, Steady
<1>4. wins' \in WindowMap /\ Live(wins') = Live(wins) \ {w} /\ \A v \in Live(wins') : wins'[v] = wins[v]
  BY <1>1, <1>3 DEF WindowMap, Live
<1>5. \A v \in Live(wins') : wins[v].owner \in Live(wins')
  BY <1>1, <1>4 DEF ScreenIInv, Steady, Shape
<1>6. Steady(wins')
  BY <1>4, <1>5 DEF ScreenIInv, Steady, Shape
<1>7. ScreenIInv'
  BY <1>1, <1>2, <1>4, <1>6 DEF ScreenIInv
<1>8. ASSUME SharedIInv PROVE Aligned(wins')
  BY <1>4, <1>5, <1>8 DEF SharedIInv, Aligned
<1>9. ASSUME SharedIInv PROVE Matched(wins', Wanted', covered')
  BY <1>1, <1>2, <1>4, <1>9 DEF SharedIInv, Matched
<1> QED
  BY <1>7, <1>8, <1>9 DEF SharedIInv

-----------------------------------------------------------------------------

(* The windows after a refresh, from the windows before.                   *)
LEMMA RefreshDraws ==
  ASSUME NEW ws, Steady(ws), Aligned(ws), NEW w \in Live(ws), NEW flag \in BOOLEAN,
         NEW want, NEW over, Matched(ws, want, over), NEW shows,
         \A i \in DOMAIN MarkedCells(Touched(ws, w, flag), w) : shows[i] = MarkedCells(Touched(ws, w, flag), w)[i],
         NEW overs, \A v \in Windows : \A i \in Pos :
           i \notin overs[v] => \/ i \notin over[v] /\ shows[i] = want[i]
                                \/ v = ws[w].owner /\ i \in DOMAIN MarkedCells(Touched(ws, w, flag), w)
  PROVE  Matched(Refreshed(Touched(ws, w, flag), w, 0 .. ws[w].maxy - 1), shows, overs)
  BY RefreshMatched

LEMMA TouchedKeeps ==
  ASSUME NEW ws, Steady(ws), NEW w \in Live(ws), NEW flag \in BOOLEAN
  PROVE  /\ Steady(Touched(ws, w, flag)) /\ w \in Live(Touched(ws, w, flag))
         /\ Live(Touched(ws, w, flag)) = Live(ws)
         /\ Aligned(ws) => Aligned(Touched(ws, w, flag))
<1>1. CASE ~flag
  BY <1>1 DEF Touched
<1>2. CASE flag
  <2> DEFINE xs == TouchAll(ws, w)
  <2>1. Changing(ws, xs)
    BY MarkChanges DEF TouchAll
  <2>2. Aligned(ws) => Aligned(xs)
    BY <2>1, EditsAligned DEF Changing, Steady
  <2>3. Touched(ws, w, flag) = xs
    BY <1>2 DEF Touched
  <2> HIDE DEF xs
  <2> QED
    BY <2>1, <2>2, <2>3 DEF Changing, Edits
<1> QED
  BY <1>1, <1>2

LEMMA RefreshedKeeps ==
  ASSUME NEW ws, Steady(ws), NEW w \in Live(ws), NEW rows
  PROVE  /\ Steady(Refreshed(ws, w, rows)) /\ Live(Refreshed(ws, w, rows)) = Live(ws)
         /\ Aligned(ws) => Aligned(Refreshed(ws, w, rows))
<1>1. Keeps(ws, Refreshed(ws, w, rows))
  BY RefreshedMarks
<1> QED
  BY <1>1, KeepsSteady DEF Keeps

(* A refresh in the composition.                                           *)
LEMMA RefreshIs ==
  ASSUME ScreenIInv, NEW w \in Live(wins), Refresh(w)
  PROVE  LET flag == clear_next \/ wins[w].clear
             xs   == Touched(wins, w, flag)
             t    == RefreshTerm(w, xs)
         IN /\ flag \in BOOLEAN
            /\ Flush(t) /\ Sound(t, screen) /\ term' = t /\ t.ready
            /\ wins' = Refreshed(xs, w, 0 .. wins[w].maxy - 1)
            /\ clear_next' = FALSE
            /\ covered' = Covered(t, [v \in Windows |-> IF v = wins[w].owner THEN DOMAIN MarkedCells(xs, w) ELSE {}])
<1> DEFINE flag == clear_next \/ wins[w].clear
           xs   == Touched(wins, w, flag)
           t    == RefreshTerm(w, xs)
<1>1. flag \in BOOLEAN
  OBVIOUS
<1>2. /\ Flush(t) /\ clear_next' = FALSE /\ wins' = Refreshed(xs, w, 0 .. wins[w].maxy - 1)
      /\ covered' = Covered(t, [v \in Windows |-> IF v = wins[w].owner THEN DOMAIN MarkedCells(xs, w) ELSE {}])
  BY Zenon DEF Refresh, Touched, Refreshed, RefreshTerm
<1> HIDE DEF flag
<1>3. Steady(xs) /\ w \in Live(xs) /\ IInv /\ term.ready
  BY <1>1, TouchedKeeps DEF ScreenIInv
<1> HIDE DEF xs
<1>4. Sound(t, screen) /\ t.ready
  BY <1>3, RefreshTermSound
<1> HIDE DEF t
<1>5. term' = t
  BY <1>2, <1>4, ReadyFields DEF Flush, Sound
<1> QED
  BY <1>1, <1>2, <1>4, <1>5 DEF t, xs, flag

(* What a refresh hands to the terminal is wanted.                         *)
LEMMA RefreshWant ==
  ASSUME IInv, term.ready, NEW w, NEW xs, Steady(xs), w \in Live(xs), NEW i \in DOMAIN MarkedCells(xs, w)
  PROVE  RefreshTerm(w, xs).want[i] = MarkedCells(xs, w)[i]
<1>1. Cleared(term, wins[w]) \in TermType
  BY ClearedSound DEF Sound
<1>2. DOMAIN MarkedCells(xs, w) \subseteq Pos
  BY MarkedCellsAre
<1> QED
  BY <1>1, <1>2, SetAllWant DEF RefreshTerm

(* A refresh keeps the invariants.                                         *)
LEMMA RefreshKeeps ==
  ASSUME ScreenIInv, NEW w \in Live(wins), Refresh(w), UNCHANGED <<osk, screen, room>>,
         pc = <<>>, pc' \in Stacks \ PanelStacks
  PROVE  ScreenIInv' /\ (SharedIInv => SharedIInv')
<1> DEFINE flag == clear_next \/ wins[w].clear
           xs   == Touched(wins, w, flag)
           t    == RefreshTerm(w, xs)
           rows == 0 .. wins[w].maxy - 1
           new  == MarkedCells(xs, w)
           drawn == [v \in Windows |-> IF v = wins[w].owner THEN DOMAIN new ELSE {}]
<1>1. /\ flag \in BOOLEAN
      /\ Flush(t) /\ Sound(t, screen) /\ term' = t /\ t.ready
      /\ wins' = Refreshed(xs, w, rows) /\ clear_next' = FALSE /\ covered' = Covered(t, drawn)
  BY RefreshIs
<1>2. IInv /\ term.ready /\ Steady(wins) /\ covered \in [Windows -> SUBSET Pos]
  BY DEF ScreenIInv
<1>d. \A v \in Windows : \A i \in drawn[v] : v = wins[w].owner /\ i \in DOMAIN new
  OBVIOUS
<1>x. xs = Touched(wins, w, flag)
  OBVIOUS
<1> HIDE DEF flag
<1>3. /\ Steady(xs) /\ w \in Live(xs) /\ Live(xs) = Live(wins)
      /\ Aligned(wins) => Aligned(xs)
  BY <1>1, <1>2, TouchedKeeps
<1> HIDE DEF xs, drawn
<1>4. /\ Steady(Refreshed(xs, w, rows)) /\ Live(Refreshed(xs, w, rows)) = Live(xs)
      /\ Aligned(xs) => Aligned(Refreshed(xs, w, rows))
  <2> HIDE DEF rows
  <2> QED
    BY <1>3, RefreshedKeeps
<1>5. \A i \in DOMAIN new : t.want[i] = new[i]
  BY <1>2, <1>3, RefreshWant
<1>6. /\ covered' \in [Windows -> SUBSET Pos]
      /\ \A v \in Windows : \A i \in Pos :
           i \notin covered'[v] => i \in drawn[v] \/ (i \notin covered[v] /\ t.want[i] = term.want[i])
  <2> HIDE DEF t
  <2>1. /\ Covered(t, drawn) \in [Windows -> SUBSET Pos]
        /\ \A v \in Windows : \A i \in Pos :
             i \notin Covered(t, drawn)[v] => i \in drawn[v] \/ (i \notin covered[v] /\ t.want[i] = term.want[i])
    BY <1>2, CoveredIs
  <2> QED
    BY <1>1, <2>1
<1> HIDE DEF t, new
<1>7. IInv'
  BY <1>1, <1>2, FlushIInv
<1>8. ScreenIInv'
  BY <1>1, <1>4, <1>6, <1>7 DEF ScreenIInv
<1>9. ASSUME SharedIInv PROVE Matched(wins', Wanted', covered')
  <2>1. Wanted = term.want /\ Wanted' = t.want
    BY <1>1, WantedIs
  <2>2. Matched(wins, term.want, covered) /\ Aligned(wins)
    BY <1>9, <2>1 DEF SharedIInv
  <2>3. \A v \in Windows : \A i \in Pos :
           i \notin covered'[v] => \/ i \notin covered[v] /\ t.want[i] = term.want[i]
                                   \/ v = wins[w].owner /\ i \in DOMAIN new
    BY <1>6, <1>d
  <2>4. ASSUME NEW overs, \A v \in Windows : \A i \in Pos :
                 i \notin overs[v] => \/ i \notin covered[v] /\ t.want[i] = term.want[i]
                                      \/ v = wins[w].owner /\ i \in DOMAIN MarkedCells(Touched(wins, w, flag), w)
        PROVE  Matched(Refreshed(Touched(wins, w, flag), w, 0 .. wins[w].maxy - 1), t.want, overs)
    <3>1. \A i \in DOMAIN MarkedCells(Touched(wins, w, flag), w) : t.want[i] = MarkedCells(Touched(wins, w, flag), w)[i]
      BY <1>5, <1>x DEF new
    <3>2. flag \in BOOLEAN
      BY <1>1
    <3> QED
      BY <1>2, <2>2, <2>4, <3>1, <3>2, RefreshDraws
  <2>5. Matched(Refreshed(Touched(wins, w, flag), w, 0 .. wins[w].maxy - 1), t.want, covered')
    BY <2>3, <2>4, <1>x DEF new
  <2> QED
    BY <1>1, <1>x, <2>1, <2>5
<1>10. ASSUME SharedIInv PROVE Aligned(wins')
  BY <1>1, <1>3, <1>4, <1>10 DEF SharedIInv
<1> QED
  BY <1>8, <1>9, <1>10 DEF SharedIInv

-----------------------------------------------------------------------------

(* A window that is moved has all its rows marked.                         *)
LEMMA MovedKeeps ==
  ASSUME NEW ws, Steady(ws), NEW w \in Live(ws), NEW y \in Int, NEW x \in Int
  PROVE  /\ Steady(Moved(ws, w, y, x)) /\ Live(Moved(ws, w, y, x)) = Live(ws)
         /\ ws[w].owner = w /\ (\A v \in Live(ws) \ {w} : ws[v].owner # w) =>
              /\ Aligned(ws) => Aligned(Moved(ws, w, y, x))
              /\ \A v \in Windows \ {w} : Moved(ws, w, y, x)[v] = ws[v]
              /\ Moved(ws, w, y, x)[w].maxy = ws[w].maxy
              /\ ws[w].offy = 0 => \A r \in 0 .. ws[w].maxy - 1 : Moved(ws, w, y, x)[w].marks[r]
<1> DEFINE b  == [ws[w] EXCEPT !.begy = y, !.begx = x]
           xs == [ws EXCEPT ![w] = b]
           us == Moved(ws, w, y, x)
<1>1. w \in Windows /\ ws[w] \in WindowType /\ ws \in WindowMap
  BY LiveTyped DEF Steady
<1>2. us = Mark(xs, w, 0 .. xs[w].maxy - 1, TRUE)
  <2>1. [ws EXCEPT ![w].begy = y, ![w].begx = x] = xs
    BY <1>1 DEF WindowMap
  <2> HIDE DEF xs
  <2> QED
    BY <2>1 DEF Moved, TouchAll
<1>3. /\ b \in WindowType
      /\ b.owner = ws[w].owner /\ b.offy = ws[w].offy /\ b.offx = ws[w].offx /\ b.maxy = ws[w].maxy /\ b.maxx = ws[w].maxx
      /\ b.begy = y /\ b.begx = x /\ b.cury = ws[w].cury /\ b.curx = ws[w].curx
      /\ b.cells = ws[w].cells /\ b.marks = ws[w].marks
  <2> HIDE DEF xs, us
  <2> QED
    BY <1>1 DEF WindowType
<1> HIDE DEF b
<1>4. xs \in WindowMap /\ xs[w] = b /\ \A v \in Windows \ {w} : xs[v] = ws[v]
  BY <1>1, <1>3 DEF WindowMap
<1> HIDE DEF xs, us
<1>5. Live(xs) = Live(ws)
  BY <1>1, <1>3, <1>4, WindowIsLive DEF Live
<1>6. \A v \in Live(ws) : /\ xs[v].owner = ws[v].owner /\ xs[v].offy = ws[v].offy /\ xs[v].offx = ws[v].offx
                          /\ xs[v].maxy = ws[v].maxy /\ xs[v].maxx = ws[v].maxx
                          /\ xs[v].cury = ws[v].cury /\ xs[v].curx = ws[v].curx
                          /\ xs[v].cells = ws[v].cells /\ xs[v].marks = ws[v].marks
  <2> SUFFICES ASSUME NEW v \in Live(ws)
               PROVE  /\ xs[v].owner = ws[v].owner /\ xs[v].offy = ws[v].offy /\ xs[v].offx = ws[v].offx
                      /\ xs[v].maxy = ws[v].maxy /\ xs[v].maxx = ws[v].maxx
                      /\ xs[v].cury = ws[v].cury /\ xs[v].curx = ws[v].curx
                      /\ xs[v].cells = ws[v].cells /\ xs[v].marks = ws[v].marks
    OBVIOUS
  <2>1. CASE v = w
    BY <1>3, <1>4, <2>1
  <2>2. CASE v # w
    BY <1>4, <2>2 DEF Live
  <2> QED
    BY <2>1, <2>2
<1>7. \A v \in Live(ws) : Inside(xs[v]) = Inside(ws[v])
  BY <1>6 DEF Inside
<1>8. Shape(xs)
  BY <1>5, <1>6, <1>7 DEF Steady, Shape, OwnCells
<1>9. Steady(xs)
  BY <1>4, <1>5, <1>6, <1>8 DEF Steady, CursorIn
<1>10. Changing(xs, us)
  BY <1>2, <1>5, <1>9, MarkChanges
<1>11. ASSUME ws[w].owner = w, \A v \in Live(ws) \ {w} : ws[v].owner # w
       PROVE  /\ Aligned(ws) => Aligned(us)
              /\ \A v \in Windows \ {w} : us[v] = ws[v]
              /\ us[w].maxy = ws[w].maxy
              /\ ws[w].offy = 0 => \A r \in 0 .. ws[w].maxy - 1 : us[w].marks[r]
  <2> DEFINE rows == 0 .. xs[w].maxy - 1
             m == NewMarks(xs[w].marks, xs[w].offy, rows, TRUE)
  <2>1. xs[w].owner = w /\ w \in Live(xs)
    BY <1>5, <1>6, <1>11
  <2>2. MarksOf(xs, us, w, m)
    <3> HIDE DEF rows
    <3>1. us = Mark(xs, w, rows, TRUE)
      BY <1>2 DEF rows
    <3> QED
      BY <1>4, <2>1, <3>1, MarkIs
  <2>3. us[w].marks = m /\ (\A v \in Windows \ {w} : us[v] = ws[v]) /\ us[w].maxy = ws[w].maxy
    BY <1>4, <1>6, <2>2 DEF MarksOf, SamePlace
  <2>4. ws[w].offy = 0 => \A r \in 0 .. ws[w].maxy - 1 : us[w].marks[r]
    <3>1. OwnCells(xs[w]) /\ xs[w].maxy = ws[w].maxy /\ xs[w].offy = ws[w].offy /\ ws[w].maxy \in Nat
      BY <1>1, <1>6, <1>8, <2>1, WindowFields DEF Shape
    <3>2. ASSUME ws[w].offy = 0, NEW r \in 0 .. ws[w].maxy - 1 PROVE m[r]
      <4>1. r \in DOMAIN xs[w].marks /\ r - xs[w].offy \in rows
        BY <3>1, <3>2 DEF OwnCells
      <4> QED
        BY <4>1 DEF NewMarks
    <3> QED
      BY <2>3, <3>2
  <2>5. ASSUME Aligned(ws) PROVE Aligned(xs)
    <3> SUFFICES ASSUME NEW v \in Live(ws)
                 PROVE  /\ xs[v].offx = 0
                        /\ xs[v].maxx = xs[xs[v].owner].maxx
                        /\ xs[v].begx = xs[xs[v].owner].begx
                        /\ xs[v].begy = xs[xs[v].owner].begy + xs[v].offy
      BY <1>5 DEF Aligned
    <3>1. CASE v = w
      <4>1. ws[w].offx = 0 /\ ws[w].begy = ws[w].begy + ws[w].offy /\ ws[w].begy \in Int /\ ws[w].offy \in Int
        BY <1>1, <1>11, <2>5, WindowFields DEF Aligned
      <4>2. ws[w].offy = 0 /\ xs[w].begy = y /\ xs[w].begx = x
        BY <1>3, <1>4, <4>1
      <4> QED
        BY <1>6, <2>1, <3>1, <4>1, <4>2
    <3>2. CASE v # w
      <4>1. ws[v].owner \in Live(ws) /\ ws[v].owner # w
        BY <1>11, <3>2 DEF Steady, Shape
      <4>2. xs[v] = ws[v] /\ xs[ws[v].owner] = ws[ws[v].owner]
        BY <1>4, <3>2, <4>1 DEF Live
      <4> QED
        BY <2>5, <4>2 DEF Aligned
    <3> QED
      BY <3>1, <3>2
  <2>6. Aligned(ws) => Aligned(us)
    BY <1>8, <1>10, <2>5, EditsAligned DEF Changing
  <2> QED
    BY <2>3, <2>4, <2>6
<1> QED
  BY <1>5, <1>10, <1>11 DEF Changing, Edits, us

(* mvwin() of a window that shares no cells keeps what is shared.          *)
LEMMA MvwinKeeps ==
  ASSUME ScreenIInv, NEW w \in Live(wins), Mvwin(w)
  PROVE  ScreenIInv' /\ (~Partial /\ SharedIInv => SharedIInv')
<1>1. PICK y \in 0 .. Rows - 1, x \in 0 .. Cols - 1 :
        /\ Partial \/ Alone(w)
        /\ wins' = Moved(wins, w, y, x) /\ covered' = [covered EXCEPT ![w] = {}]
        /\ UNCHANGED <<termVars, clear_next>>
  BY DEF Mvwin
<1>2. IInv' /\ Wanted' = Wanted /\ UNCHANGED <<term, pc>>
  BY <1>1, SameTerminal
<1>3. w \in Windows /\ Steady(wins) /\ y \in Int /\ x \in Int
  BY DEF ScreenIInv, Live
<1>4. Steady(wins') /\ Live(wins') = Live(wins)
  BY <1>1, <1>3, MovedKeeps
<1>5. ScreenIInv'
  BY <1>1, <1>2, <1>3, <1>4 DEF ScreenIInv
<1>6. ASSUME ~Partial, SharedIInv PROVE SharedIInv'
  <2>1. wins[w].owner = w /\ \A v \in Live(wins) \ {w} : wins[v].owner # w
    BY <1>1, <1>6, OpenIsLive DEF Alone
  <2>2. wins[w].offy = 0
    <3>1. wins[w].begy = wins[w].begy + wins[w].offy /\ wins[w].begy \in Int /\ wins[w].offy \in Int
      BY <1>3, <1>6, <2>1, LiveTyped, WindowFields DEF SharedIInv, Aligned, Steady
    <3> QED
      BY <3>1
  <2>3. /\ Aligned(wins')
        /\ \A v \in Windows \ {w} : wins'[v] = wins[v]
        /\ wins'[w].maxy = wins[w].maxy
        /\ \A r \in 0 .. wins[w].maxy - 1 : wins'[w].marks[r]
    BY <1>1, <1>3, <1>6, <2>1, <2>2, MovedKeeps DEF SharedIInv
  <2>4. Matched(wins', Wanted', covered')
    <3> SUFFICES ASSUME NEW o \in Live(wins'), wins'[o].owner = o, NEW q \in Inside(wins'[o])
                 PROVE  CellMatches(wins'[o], Wanted', covered'[o], q)
      BY DEF Matched
    <3>1. CASE o = w
      <4>1. q[1] \in 0 .. wins'[w].maxy - 1
        BY <3>1 DEF Inside, Area
      <4> QED
        BY <2>3, <3>1, <4>1 DEF CellMatches
    <3>2. CASE o # w
      <4>1. o \in Live(wins) /\ wins'[o] = wins[o] /\ covered'[o] = covered[o]
        BY <1>1, <1>4, <2>3, <3>2 DEF Live, ScreenIInv
      <4>2. CellMatches(wins[o], Wanted, covered[o], q)
        BY <1>6, <4>1 DEF SharedIInv, Matched
      <4> QED
        BY <1>2, <4>1, <4>2
    <3> QED
      BY <3>1, <3>2
  <2> QED
    BY <2>3, <2>4 DEF SharedIInv
<1> QED
  BY <1>5, <1>6

-----------------------------------------------------------------------------
(* The calls and steps of the terminal.                                    *)

(* The terminal of initscr().                                              *)
LEMMA ClearReady == IInv => Sound(Clear(Ready(term)), screen) /\ Clear(Ready(term)).ready
<1> SUFFICES ASSUME IInv PROVE Sound(Clear(Ready(term)), screen) /\ Clear(Ready(term)).ready
  OBVIOUS
<1>1. Sound(Ready(term), screen) /\ Ready(term).ready
  BY ReadySound DEF IInv
<1>2. Sound(Clear(Ready(term)), screen)
  BY <1>1, ClearSound
<1> QED
  BY <1>1, <1>2, ReadyFields DEF Sound

(* initscr(): the screen is cleared, and stdscr is there.                  *)
LEMMA InitscrKeeps ==
  ASSUME ScreenIInv, Initscr
  PROVE  ScreenIInv' /\ (SharedIInv => SharedIInv')
<1> DEFINE t == Clear(Ready(term))
           drawn == [v \in Windows |-> {}]
           win == [NewWindow(Rows, Cols, 0, 0) EXCEPT !.owner = stdscr]
<1>1. /\ Idle /\ term' = t /\ clear_next' = TRUE /\ covered' = Covered(t, drawn)
      /\ UNCHANGED <<brush, osk, pc, screen, room>>
  BY DEF Initscr, Count
<1>2. wins' = IF Alive(stdscr) THEN wins ELSE [wins EXCEPT ![stdscr] = win]
  BY DEF Initscr
<1>3. IInv /\ Steady(wins) /\ covered \in [Windows -> SUBSET Pos] /\ osk \in [Pos -> Cell]
  BY DEF ScreenIInv, IInv, TermTypeOK
<1>4. Sound(t, screen) /\ t.ready
  BY <1>3, ClearReady
<1>5. IInv'
  <2> HIDE DEF t
  <2> QED
    BY <1>1, <1>3, <1>4, ReplaceIInv DEF Idle
<1>6. /\ Covered(t, drawn) \in [Windows -> SUBSET Pos]
      /\ \A v \in Windows : \A i \in Pos :
           i \notin Covered(t, drawn)[v] => i \in drawn[v] \/ (i \notin covered[v] /\ t.want[i] = term.want[i])
  <2> HIDE DEF t, drawn
  <2> QED
    BY <1>3, CoveredIs
<1>7. \A v \in Windows : \A i \in Pos : i \notin covered'[v] => i \notin covered[v] /\ t.want[i] = term.want[i]
  <2> HIDE DEF t
  <2> QED
    BY <1>1, <1>6
<1>8. Wanted = term.want /\ Wanted' = t.want /\ pc' = pc
  BY <1>1, WantedIs DEF Idle
<1>9. stdscr \in Windows /\ Fresh(wins, stdscr, win) /\ Fits(wins, stdscr, win)
  <2>1. Rows \in Nat \ {0} /\ Cols \in Nat \ {0} /\ 0 \in Int
    BY TerminalSize
  <2> QED
    BY <2>1, WindowNames, BlankWindow
<1> HIDE DEF t, drawn, win
<1>10. CASE Alive(stdscr)
  <2>1. ScreenIInv'
    BY <1>1, <1>2, <1>4, <1>5, <1>6, <1>10 DEF ScreenIInv
  <2>2. ASSUME SharedIInv PROVE Matched(wins, t.want, covered')
    <3>1. Matched(wins, term.want, covered)
      BY <1>8, <2>2 DEF SharedIInv
    <3> QED
      BY <1>7, <3>1, WantKept
  <2> QED
    BY <1>2, <1>8, <1>10, <2>1, <2>2 DEF SharedIInv
<1>11. CASE ~Alive(stdscr)
  <2>1. wins[stdscr] = NoWindow
    BY <1>11 DEF Alive
  <2>2. /\ Steady([wins EXCEPT ![stdscr] = win])
        /\ Aligned(wins) /\ Fits(wins, stdscr, win) => Aligned([wins EXCEPT ![stdscr] = win])
    BY <1>3, <1>9, <2>1, FreshSteady
  <2>3. wins' = [wins EXCEPT ![stdscr] = win]
    BY <1>2, <1>11
  <2>4. ScreenIInv'
    BY <1>1, <1>4, <1>5, <1>6, <2>2, <2>3 DEF ScreenIInv
  <2>5. ASSUME SharedIInv PROVE Matched(wins', t.want, covered')
    <3>1. Matched(wins, term.want, covered)
      BY <1>8, <2>5 DEF SharedIInv
    <3>2. ASSUME NEW shows, NEW overs,
                 \A v \in Windows \ {stdscr} : \A i \in Pos : i \notin overs[v] => i \notin covered[v] /\ shows[i] = term.want[i]
          PROVE  Matched([wins EXCEPT ![stdscr] = win], shows, overs)
      BY <1>3, <1>9, <2>1, <3>1, <3>2, FreshMatched
    <3>3. Matched([wins EXCEPT ![stdscr] = win], t.want, covered')
      BY <1>7, <3>2
    <3> QED
      BY <2>3, <3>3
  <2> QED
    BY <1>8, <1>9, <2>2, <2>3, <2>4, <2>5 DEF SharedIInv
<1> QED
  BY <1>10, <1>11

(* Nothing changes that the windows are compared with.                     *)
LEMMA WantSame ==
  ASSUME ScreenIInv, IInv', UNCHANGED <<wins, clear_next, covered>>, pc' \in Stacks,
         term.ready => term'.ready /\ Wanted' = Wanted
  PROVE  ScreenIInv' /\ (SharedIInv => SharedIInv')
<1>1. ScreenIInv'
  BY DEF ScreenIInv
<1>2. CASE Live(wins) = {}
  BY <1>1, <1>2 DEF SharedIInv, Aligned, Matched
<1>3. CASE Live(wins) # {}
  <2>1. Wanted' = Wanted
    BY <1>3 DEF ScreenIInv
  <2> QED
    BY <1>1, <2>1 DEF SharedIInv
<1> QED
  BY <1>2, <1>3

(* A flush that writes nothing.                                            *)
LEMMA FlushKeeps ==
  ASSUME ScreenIInv, NEW t, Sound(t, screen), t.ready = term.ready, t.want = term.want, Idle, Flush(t),
         UNCHANGED <<osk, pc, screen, room, wins, clear_next, covered>>
  PROVE  ScreenIInv' /\ (SharedIInv => SharedIInv')
<1>1. IInv'
  BY FlushIInv DEF ScreenIInv
<1>2. Wanted = term.want /\ Wanted' = term'.want /\ pc' \in Stacks
  BY WantedIs DEF Idle, ScreenIInv
<1>3. term.ready => term' = t
  BY ReadyFields DEF Flush, Sound
<1> QED
  BY <1>1, <1>2, <1>3, WantSame

LEMMA RefreshScreenKeeps ==
  ASSUME ScreenIInv, RefreshScreen
  PROVE  ScreenIInv' /\ (SharedIInv => SharedIInv')
<1> DEFINE t == Redraw(term)
<1>1. Idle /\ Flush(t) /\ UNCHANGED <<osk, pc, screen, room, wins, clear_next, covered>>
  BY DEF RefreshScreen, Count
<1>2. Sound(t, screen) /\ t.ready = term.ready /\ t.want = term.want
  BY RedrawSound, ReadyFields DEF ScreenIInv, IInv, TermTypeOK
<1> HIDE DEF t
<1> QED
  BY <1>1, <1>2, FlushKeeps

LEMMA EndwinKeeps ==
  ASSUME ScreenIInv, Endwin
  PROVE  ScreenIInv' /\ (SharedIInv => SharedIInv')
<1> DEFINE t == Goto(term, Rows - 1, 0)
<1>1. Idle /\ Flush(t) /\ UNCHANGED <<osk, pc, screen, room, wins, clear_next, covered>>
  BY DEF Endwin, Count
<1>2. Sound(t, screen) /\ t.ready = term.ready /\ t.want = term.want
  <2>1. Rows - 1 \in Int /\ 0 \in Int
    BY TerminalSize
  <2> QED
    BY <2>1, GotoSound, ReadyFields DEF ScreenIInv, IInv, TermTypeOK
<1> HIDE DEF t
<1> QED
  BY <1>1, <1>2, FlushKeeps

(* Plain output covers what it changes.                                    *)
LEMMA PlainKeeps ==
  ASSUME ScreenIInv, Plain
  PROVE  ScreenIInv' /\ (SharedIInv => SharedIInv')
<1> DEFINE drawn == [v \in Windows |-> {}]
<1>1. TermCall /\ covered' = Covered(term', drawn) /\ UNCHANGED <<wins, clear_next>>
  BY DEF Plain
<1>2. IInv' /\ pc = <<>> /\ pc' \in Stacks \ PanelStacks /\ (term.ready => term'.ready)
  BY <1>1, TermCallIInv, StackCalls, TermStaysReady DEF ScreenIInv
<1>3. covered \in [Windows -> SUBSET Pos]
  BY DEF ScreenIInv
<1>4. /\ Covered(term', drawn) \in [Windows -> SUBSET Pos]
      /\ \A v \in Windows : \A i \in Pos :
           i \notin Covered(term', drawn)[v] => i \in drawn[v] \/ (i \notin covered[v] /\ term'.want[i] = term.want[i])
  <2> HIDE DEF drawn
  <2> QED
    BY <1>3, CoveredIs
<1>5. \A v \in Windows : \A i \in Pos : i \notin covered'[v] => i \notin covered[v] /\ term'.want[i] = term.want[i]
  BY <1>1, <1>4
<1>6. ScreenIInv'
  BY <1>1, <1>2, <1>4 DEF ScreenIInv
<1>7. Wanted = term.want /\ Wanted' = term'.want
  BY <1>2, WantedIs
<1>8. ASSUME SharedIInv PROVE Matched(wins, term'.want, covered')
  <2>1. Matched(wins, term.want, covered)
    BY <1>7, <1>8 DEF SharedIInv
  <2> QED
    BY <1>5, <2>1, WantKept
<1> QED
  BY <1>1, <1>6, <1>7, <1>8 DEF SharedIInv

(* What is under the panel is what is wanted when it has gone.             *)
LEMMA TermStepKeeps ==
  ASSUME ScreenIInv, TermStep, UNCHANGED cursesVars
  PROVE  ScreenIInv' /\ (SharedIInv => SharedIInv')
<1>1. UNCHANGED <<wins, clear_next, covered>> /\ IInv /\ pc \in Stacks /\ term \in TermType
  BY DEF cursesVars, ScreenIInv, IInv, TermTypeOK
<1>2. IInv' /\ (term.ready => term'.ready)
  BY <1>1, StepIInv, TermStaysReady
<1>s. /\ PaintCell \/ PaintEnd => pc' = pc
      /\ EndFrame \/ FlushStep => pc' \in Stacks /\ (pc' \in PanelStacks <=> pc \in PanelStacks)
      /\ OskOpen => pc = <<"osk_open">> /\ pc' = <<"osk_draw">>
      /\ OskDraw => pc = <<"osk_draw">> /\ pc' = <<"flush", "end_frame", "osk_poll">>
      /\ OskPoll => /\ pc = <<"osk_poll">>
                    /\ \/ pc' = <<"osk_draw">> /\ UNCHANGED term
                       \/ pc' = <<"flush">> /\ term' = Restore(term, osk)
  BY <1>1, StackSteps
<1>3. pc' \in Stacks
  BY <1>1, <1>s DEF TermStep, Stacks
<1>w. /\ Wanted = IF pc \in PanelStacks THEN osk ELSE term.want
      /\ Wanted' = IF pc' \in PanelStacks THEN osk' ELSE term'.want
  BY <1>1, <1>3, PanelUpIs DEF Wanted
<1>4. ASSUME term.ready PROVE Wanted' = Wanted
  <2>1. CASE PaintCell \/ PaintEnd
    <3>1. term'.want = term.want /\ osk' = osk /\ pc' = pc
      BY <1>1, <1>s, <2>1 DEF PaintCell, PaintEnd, TermType
    <3> QED
      BY <1>w, <3>1
  <2>2. CASE EndFrame
    <3>1. term' = term /\ osk' = osk
      BY <2>2 DEF EndFrame
    <3> QED
      BY <1>s, <1>w, <2>2, <3>1
  <2>3. CASE FlushStep
    <3>1. term' = term /\ osk' = osk
      BY <1>1, <1>4, <2>3, ReadyFields DEF FlushStep, Flush
    <3> QED
      BY <1>s, <1>w, <2>3, <3>1
  <2>4. CASE OskOpen
    <3>1. term' = term /\ osk' = term.want
      BY <1>1, <1>4, <2>4, ReadyFields DEF OskOpen
    <3> QED
      BY <1>s, <1>w, <2>4, <3>1 DEF PanelStacks
  <2>5. CASE OskDraw
    <3>1. osk' = osk
      BY <2>5 DEF OskDraw
    <3> QED
      BY <1>s, <1>w, <2>5, <3>1 DEF PanelStacks
  <2>6. CASE OskPoll
    <3>1. osk' = osk
      BY <2>6 DEF OskPoll
    <3>2. CASE pc' = <<"osk_draw">>
      BY <1>s, <1>w, <2>6, <3>1, <3>2 DEF PanelStacks
    <3>3. CASE pc' = <<"flush">> /\ term' = Restore(term, osk)
      <4>1. term'.want = osk
        BY <1>1, <3>3, ReadyFields
      <4> QED
        BY <1>s, <1>w, <2>6, <3>3, <4>1 DEF PanelStacks
    <3> QED
      BY <1>s, <2>6, <3>2, <3>3
  <2> QED
    BY <2>1, <2>2, <2>3, <2>4, <2>5, <2>6 DEF TermStep
<1> QED
  BY <1>1, <1>2, <1>3, <1>4, WantSame

-----------------------------------------------------------------------------
(* The invariants hold of the beginning, and every step keeps them.        *)
LEMMA InitScreen == Init => ScreenIInv /\ SharedIInv
<1> SUFFICES ASSUME Init PROVE ScreenIInv /\ SharedIInv
  OBVIOUS
<1>1. IInv /\ pc = <<>>
  BY InitIInv DEF Init, TermInit
<1>2. wins = [w \in Windows |-> NoWindow] /\ clear_next = FALSE /\ covered = [w \in Windows |-> {}]
  BY DEF Init
<1>3. wins \in WindowMap /\ Live(wins) = {}
  BY <1>2, Zenon DEF WindowMap, Live
<1>4. Steady(wins) /\ Aligned(wins) /\ Matched(wins, Wanted, covered)
  BY <1>3 DEF Steady, Shape, Aligned, Matched
<1>5. covered \in [Windows -> SUBSET Pos] /\ clear_next \in BOOLEAN /\ pc \in Stacks
  BY <1>1, <1>2 DEF Stacks
<1> QED
  BY <1>1, <1>3, <1>4, <1>5 DEF ScreenIInv, SharedIInv

LEMMA WindowCallKeeps ==
  ASSUME ScreenIInv, NEW w \in Live(wins), WindowCall(w)
  PROVE  ScreenIInv' /\ (~Partial /\ SharedIInv => SharedIInv')
<1>1. CASE Delwin(w)
  BY <1>1, DelwinKeeps
<1>2. CASE Mvwin(w)
  BY <1>2, MvwinKeeps
<1>3. CASE EditCall(w)
  <2>1. Steady(wins) /\ clear_next \in BOOLEAN
    BY DEF ScreenIInv
  <2>2. Changing(wins, wins') /\ UNCHANGED <<termVars, covered>> /\ clear_next' \in BOOLEAN
    BY <1>3, <2>1, EditCalls
  <2> QED
    BY <2>2, EditKeeps
<1>4. CASE Wrefresh(w)
  <2>1. pc = <<>> /\ pc' \in Stacks \ PanelStacks
    BY <1>4, WantedIs DEF Wrefresh, Count, Idle
  <2> QED
    BY <1>4, <2>1, RefreshKeeps DEF Wrefresh
<1>5. CASE Wgetch(w)
  <2>1. pc = <<>> /\ pc' \in Stacks \ PanelStacks
    BY <1>5 DEF Wgetch, Count, Idle, GetKey, Stacks, PanelStacks
  <2> QED
    BY <1>5, <2>1, RefreshKeeps DEF Wgetch
<1> QED
  BY <1>1, <1>2, <1>3, <1>4, <1>5 DEF WindowCall, EditCall

LEMMA NextKeeps ==
  ASSUME ScreenIInv, [Next]_vars
  PROVE  ScreenIInv' /\ (~Partial /\ SharedIInv => SharedIInv')
<1>1. CASE TermStep /\ UNCHANGED cursesVars
  BY <1>1, TermStepKeeps
<1>2. CASE Plain
  BY <1>2, PlainKeeps
<1>3. CASE Initscr
  BY <1>3, InitscrKeeps
<1>4. CASE RefreshScreen
  BY <1>4, RefreshScreenKeeps
<1>5. CASE Endwin
  BY <1>5, EndwinKeeps
<1>6. ASSUME NEW w \in Open, WindowCall(w)
      PROVE  ScreenIInv' /\ (~Partial /\ SharedIInv => SharedIInv')
  BY <1>6, OpenIsLive, WindowCallKeeps
<1>7. ASSUME NEW w \in Windows, Newwin(w)
      PROVE  ScreenIInv' /\ (~Partial /\ SharedIInv => SharedIInv')
  BY <1>7, NewwinKeeps
<1>8. ASSUME NEW w \in Windows, NEW parent \in Open, Subwin(w, parent)
      PROVE  ScreenIInv' /\ (~Partial /\ SharedIInv => SharedIInv')
  BY <1>8, OpenIsLive, SubwinKeeps
<1>9. CASE UNCHANGED vars
  <2>1. UNCHANGED termVars /\ UNCHANGED <<wins, clear_next, covered>>
    BY <1>9 DEF vars, cursesVars
  <2>2. IInv' /\ Wanted' = Wanted /\ UNCHANGED <<term, pc>>
    BY <2>1, SameTerminal
  <2> QED
    BY <2>1, <2>2, WantSame DEF ScreenIInv
<1> QED
  BY <1>1, <1>2, <1>3, <1>4, <1>5, <1>6, <1>7, <1>8, <1>9 DEF Next

(* What the invariants say of cursors and rows.                            *)
LEMMA ScreenCursors == ScreenIInv => CursorInside
<1> SUFFICES ASSUME ScreenIInv, NEW w \in Open
             PROVE  /\ <<wins[w].cury, wins[w].curx>> \in Inside(wins[w])
                    /\ \A p \in Inside(wins[w]) : Stored(wins[w], p) \in Inside(wins[wins[w].owner])
  BY DEF CursorInside
<1>1. w \in Live(wins) /\ Steady(wins)
  BY OpenIsLive DEF ScreenIInv
<1>2. CursorIn(wins[w])
  BY <1>1 DEF Steady
<1>3. <<wins[w].cury, wins[w].curx>> \in Inside(wins[w])
  BY <1>2 DEF CursorIn, Inside, Area
<1> QED
  BY <1>1, <1>3, StoredInside

LEMMA SharedRowsMatch == ScreenIInv /\ SharedIInv => RowsMatch
<1> SUFFICES ASSUME ScreenIInv, SharedIInv, ~PanelUp, NEW w \in Open, NEW p \in Inside(wins[w]),
                    Visible(wins[w], p), ~Marked(wins, w, p[1]), Place(wins[w], p) \notin covered[wins[w].owner]
             PROVE  term.want[Place(wins[w], p)] = Content(wins, w, p)
  BY DEF RowsMatch
<1> DEFINE o == wins[w].owner
           q == Stored(wins[w], p)
<1>1. w \in Live(wins) /\ Steady(wins) /\ Aligned(wins) /\ Matched(wins, Wanted, covered) /\ wins[w].owner = o
  BY OpenIsLive DEF ScreenIInv, SharedIInv
<1>2. o \in Live(wins) /\ wins[o].owner = o /\ q \in Inside(wins[o])
  BY <1>1, StoredInside DEF Steady, Shape
<1>3. /\ q = <<p[1] + wins[w].offy, p[2]>>
      /\ Visible(wins[o], q) /\ Place(wins[w], p) = Place(wins[o], q)
  BY <1>1, SharedPlace
<1>4. ~wins[o].marks[q[1]]
  BY <1>3 DEF Marked
<1>5. CellMatches(wins[o], Wanted, covered[o], q)
  BY <1>1, <1>2 DEF Matched
<1>6. Wanted = term.want
  BY DEF Wanted
<1>7. wins[o].cells[q] = Content(wins, w, p)
  BY DEF Content
<1> QED
  BY <1>3, <1>4, <1>5, <1>6, <1>7 DEF CellMatches

-----------------------------------------------------------------------------
(* The composition shows what was written: whatever windows are created,   *)
(* shared, moved, drawn and refreshed, and whatever the program writes     *)
(* past them, the picture is what the terminal wants once no cell is left  *)
(* to draw.                                                                *)
THEOREM ScreenShows == Spec => []CleanMeansShown
<1>1. Init => ScreenIInv
  BY InitScreen
<1>2. ScreenIInv /\ [Next]_vars => ScreenIInv'
  BY NextKeeps
<1>3. ScreenIInv => CleanMeansShown
  BY IInvShown DEF ScreenIInv
<1> QED
  BY <1>1, <1>2, <1>3, PTL DEF Spec

(* No call writes outside of a window: for every tree of windows, the      *)
(* cursor is inside after every call, and a window's cells are in its      *)
(* owner's.                                                                *)
THEOREM CursorsStayInside == Spec => []CursorInside
<1>1. Init => ScreenIInv
  BY InitScreen
<1>2. ScreenIInv /\ [Next]_vars => ScreenIInv'
  BY NextKeeps
<1>3. ScreenIInv => CursorInside
  BY ScreenCursors
<1> QED
  BY <1>1, <1>2, <1>3, PTL DEF Spec

(* "Only rows changed since the last refresh are copied": a row that is    *)
(* not marked is on the terminal as its window has it, where nothing was   *)
(* drawn over it since, for every tree of windows in which a subwindow is  *)
(* as wide as its parent and stays where it is.                            *)
THEOREM RefreshedRowsMatch ==
  ASSUME ~Partial
  PROVE  Spec => []RowsMatch
<1>1. Init => ScreenIInv /\ SharedIInv
  BY InitScreen
<1>2. (ScreenIInv /\ SharedIInv) /\ [Next]_vars => (ScreenIInv /\ SharedIInv)'
  BY NextKeeps
<1>3. ScreenIInv /\ SharedIInv => RowsMatch
  BY SharedRowsMatch
<1> QED
  BY <1>1, <1>2, <1>3, PTL DEF Spec
=============================================================================
