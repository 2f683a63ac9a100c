----------------------------- MODULE MCV32File -----------------------------
(***************************************************************************)
(* Small instances of the memory-card file system for TLC.                 *)
(***************************************************************************)
EXTENDS V32File, TLC

(* Another format's words, read as a directory: one name in every entry,   *)
(* the first beyond the card, the others among the words in use.           *)
Junk(n) ==
  [k \in Entries |->
     [name |-> n,
      start |-> (IF k = 1 THEN CardWords ELSE DataStart) + 1 - MaxSize,
      size |-> MaxSize]]

OldFormats == {Junk(n) : n \in Names}

UnusedFormats == {EmptyDir}

Symmetry == Permutations(Names) \cup Permutations(Words) \cup Permutations(Cards)
=============================================================================
