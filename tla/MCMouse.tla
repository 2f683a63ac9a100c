------------------------------ MODULE MCMouse ------------------------------
(***************************************************************************)
(* Every position of a counter and every step a frame allows, one button,  *)
(* two bounds, and a pointer that reaches both ends of them.               *)
(***************************************************************************)
EXTENDS Mouse

MCControls ==
  {[axis |-> x, buttons |-> b] :
     x \in [Axes -> {AxisAt(i) : i \in 0 .. Positions - 1}], b \in SUBSET Buttons}
MCReleased == [axis |-> [a \in Axes |-> AxisAt(1)], buttons |-> {}]
MCBounds == {[min |-> 0, max |-> 9], [min |-> 3, max |-> 5]}
MCPlaces == {-1, 0, 4, 9}
MCScales == {0, 1, 2}
=============================================================================
