------------------------------ MODULE MCScreen ------------------------------
(* Two windows and a subwindow on a screen of a few cells.                  *)
EXTENDS Curses

(* <<lines, cols, y, x>>: a row, a row of the screen, one that sticks out.  *)
MCSizes == {<<1, Cols, 0, 0>>, <<1, 1, 1, 1>>, <<2, 1, 1, 0>>}
=============================================================================
