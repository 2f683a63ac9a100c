----------------------------- MODULE KeyEvents -----------------------------
(***************************************************************************)
(* What v32::Keyboard promises a program: every key pressed or released    *)
(* and every character typed is noted once, in the order it happened; the  *)
(* oldest Limit of them wait to be read and the rest are counted; the keys *)
(* held and caps lock follow the keyboard even when nobody reads.          *)
(***************************************************************************)
EXTENDS Integers, Sequences

CONSTANTS
  Limit,      \* KeyboardQueueSize: the events that can wait to be read
  Happenings, \* what can happen on the keyboard: keys and characters
  Nothing,    \* nothing has happened since the last probe
  Symbol(_, _, _), \* the character a key types, given shift and caps lock
  CapsLock,   \* the caps lock key
  Shifts      \* the shift keys

VARIABLES
  happened,  \* what happened and was not noted yet
  waiting,   \* the events waiting to be read, oldest first
  lost,      \* how many were not kept
  down,      \* the keys held
  caps,      \* caps lock is on
  out        \* what the last call to read the queue returned

vars == <<happened, waiting, lost, down, caps, out>>

Shift(keys) == Shifts \cap keys # {}

Init ==
  /\ happened = Nothing
  /\ waiting = <<>>
  /\ lost = 0
  /\ down = {}
  /\ caps = FALSE
  /\ out = Nothing

Happen ==
  /\ happened = Nothing
  /\ happened' \in Happenings
  /\ UNCHANGED <<waiting, lost, down, caps, out>>

Held(e) == IF e.text THEN down ELSE IF e.pressed THEN down \cup {e.key} ELSE down \ {e.key}

Caps(e) == IF ~e.text /\ e.pressed /\ e.key = CapsLock THEN ~caps ELSE caps

AsEvent(e) ==
  [key |-> e.key, pressed |-> e.pressed, text |-> e.text,
   symbol |-> IF e.text THEN e.key ELSE Symbol(e.key, Shift(Held(e)), Caps(e))]

Note ==
  /\ happened # Nothing
  /\ happened' = Nothing
  /\ down' = Held(happened)
  /\ caps' = Caps(happened)
  /\ IF Len(waiting) < Limit
       THEN waiting' = Append(waiting, AsEvent(happened)) /\ UNCHANGED lost
       ELSE lost' = lost + 1 /\ UNCHANGED waiting
  /\ UNCHANGED out

(* The first event that is wanted comes out; those before it are gone.     *)
Take(wanted(_)) ==
  /\ LET at == {i \in 1 .. Len(waiting) : wanted(waiting[i])}
     IN IF at = {} THEN out' = Nothing /\ waiting' = <<>>
        ELSE \E i \in at :
               /\ \A j \in at : i <= j
               /\ out' = waiting[i]
               /\ waiting' = SubSeq(waiting, i + 1, Len(waiting))
  /\ UNCHANGED <<happened, lost, down, caps>>

Read == Take(LAMBDA e : e.pressed)

ReadEvent == Take(LAMBDA e : ~e.text)

NextEvent == Take(LAMBDA e : TRUE)

Flush ==
  /\ waiting' = <<>>
  /\ UNCHANGED <<happened, lost, down, caps, out>>

Next == Happen \/ Note \/ Read \/ ReadEvent \/ NextEvent \/ Flush

Spec == Init /\ [][Next]_vars
=============================================================================
