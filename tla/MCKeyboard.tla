----------------------------- MODULE MCKeyboard -----------------------------
(***************************************************************************)
(* Caps lock, left shift and a letter, a character of each codepage (one   *)
(* whose payload is a prefix code itself, one whose code is a key's), a    *)
(* queue of two and a timeout of two frames.                               *)
(***************************************************************************)
EXTENDS Keyboard

MCTyped == {5, 6, 97}
MCCharacters == {13, 158}
MCReleased == Shown(NoSide, FALSE, 0)
MCControls ==
  {MCReleased}
    \cup {Shown(s, p, k) : s \in Sides, p \in BOOLEAN, k \in MCTyped}
    \cup {Shown(s, FALSE, k) : s \in Sides, k \in {PageHigh, PageLow, 13}}
=============================================================================
