------------------------------- MODULE Mouse -------------------------------
(***************************************************************************)
(* v32::Mouse (v32/mouse.hpp) and the v32mouse device it decodes.  An axis *)
(* is a counter of twelve positions, shown as a Gray code and a pair of    *)
(* opposite directions; the driver takes the difference of two frames for  *)
(* the movement.  The axes are alike: Axes says which ones there are.      *)
(***************************************************************************)
EXTENDS V32Io

CONSTANTS
  Axes,        \* x and y
  Buttons,     \* MouseLeft, MouseRight, MouseMiddle
  MaxSteps,    \* the steps the device lets an axis move in one frame
  Bounds,      \* the bounds the program sets, [min, max]
  Places,      \* where the program puts the pointer
  Scales,      \* the scales it sets
  ExtraProbes  \* it probes a frame more than once

ASSUME MouseAssumption ==
  /\ MaxSteps \in 0 .. 5
  /\ \A b \in Bounds : b.min <= b.max
  /\ Places \subseteq Int /\ Scales \subseteq Int
  /\ ExtraProbes \in BOOLEAN

VARIABLES
  counter,           \* counter_x, counter_y
  steps_moved,       \* steps_moved_x, steps_moved_y
  pixels_moved,      \* pixels_moved_x, pixels_moved_y
  pointer,           \* pointer_x, pointer_y
  bounds,            \* bound_min_x, bound_max_x, ...
  pixels_per_step,
  held_buttons,
  went_down,
  went_up,
  last_event_frame,
  moved              \* the device: the steps it made before this frame

mouseVars == <<counter, steps_moved, pixels_moved, pointer, bounds, pixels_per_step,
               held_buttons, went_down, went_up, last_event_frame>>
vars == <<ioVars, mouseVars, moved>>

Positions == 12
Unknown == -1
DefaultScale == 2

Axis == [negative : BOOLEAN, positive : BOOLEAN, high : BOOLEAN, low : BOOLEAN]

-----------------------------------------------------------------------------
(* The protocol.                                                           *)

(* mouse_counter(): the odd groups walk the trit back.                     *)
Counter(c) ==
  LET group == IF c.high THEN IF c.low THEN 2 ELSE 3 ELSE IF c.low THEN 1 ELSE 0
      trit == IF c.negative THEN 0 ELSE IF c.positive THEN 2 ELSE 1
  IN IF c.negative /\ c.positive THEN Unknown
     ELSE IF group % 2 = 0 THEN group * 3 + trit
     ELSE group * 3 + 2 - trit

(* mouse_steps()                                                           *)
Steps(before, after) ==
  LET steps == (after - before + Positions) % Positions
  IN IF before < 0 \/ after < 0 \/ steps = 6 THEN 0
     ELSE IF steps > 6 THEN steps - Positions ELSE steps

(* The device: the table of positions, each one control from the next.     *)
AxisAt(position) ==
  [negative |-> position \in {0, 5, 6, 11}, positive |-> position \in {2, 3, 8, 9},
   high |-> position \in 6 .. 11, low |-> position \in 3 .. 8]

(* What the port of a mouse shows: "never both pressed".                   *)
ASSUME DeviceAssumption ==
  Controls = [axis : [Axes -> {AxisAt(i) : i \in 0 .. Positions - 1}], buttons : SUBSET Buttons]

-----------------------------------------------------------------------------
(* The driver.                                                             *)

Clamp(p, b) == IF p > b.max THEN b.max ELSE IF p < b.min THEN b.min ELSE p

(* keep_in_bounds()                                                        *)
KeepInBounds(p, b) == [a \in Axes |-> Clamp(p[a], b[a])]

Counters(controls) == [a \in Axes |-> Counter(controls.axis[a])]

(* Mutant: the frame of a connection is measured like any other.           *)
Movement_OnPlug ==
  [a \in Axes |-> IF io'.is_connected THEN Steps(counter[a], Counters(io'.data)[a]) ELSE 0]

(* Nothing is measured in the frame in which the gamepad is connected.     *)
Movement ==
  [a \in Axes |-> IF io'.is_connected /\ ~io'.was_plugged
                    THEN Steps(counter[a], Counters(io'.data)[a]) ELSE 0]

ProbeButtons(buttons) ==
  /\ went_down' = buttons \ held_buttons
  /\ went_up' = held_buttons \ buttons
  /\ held_buttons' = buttons

(* probe()                                                                 *)
Probe ==
  /\ ExtraProbes \/ io.probe_frame # frame
  /\ ProbeIo
  /\ ProbeButtons(io'.data.buttons)
  /\ counter' = Counters(io'.data)
  /\ steps_moved' = Movement
  /\ pixels_moved' = [a \in Axes |-> steps_moved'[a] * pixels_per_step]
  /\ pointer' = KeepInBounds([a \in Axes |-> pointer[a] + pixels_moved'[a]], bounds)
  /\ last_event_frame' =
       IF went_down' # {} \/ went_up' # {} \/ \E a \in Axes : steps_moved'[a] # 0
         THEN frame ELSE last_event_frame
  /\ UNCHANGED <<bounds, pixels_per_step, moved>>

(* set_position()                                                          *)
SetPosition ==
  /\ \E p \in [Axes -> Places] : pointer' = KeepInBounds(p, bounds)
  /\ UNCHANGED <<ioVars, moved, counter, steps_moved, pixels_moved, bounds, pixels_per_step,
                 held_buttons, went_down, went_up, last_event_frame>>

(* set_bounds()                                                            *)
SetBounds ==
  /\ bounds' \in [Axes -> Bounds]
  /\ pointer' = KeepInBounds(pointer, bounds')
  /\ UNCHANGED <<ioVars, moved, counter, steps_moved, pixels_moved, pixels_per_step,
                 held_buttons, went_down, went_up, last_event_frame>>

(* set_scale()                                                             *)
SetScale ==
  /\ \E s \in Scales : pixels_per_step' = IF s > 0 THEN s ELSE pixels_per_step
  /\ UNCHANGED <<ioVars, moved, counter, steps_moved, pixels_moved, pointer, bounds,
                 held_buttons, went_down, went_up, last_event_frame>>

-----------------------------------------------------------------------------
(* The device and the player: a connected mouse moves by a few steps and   *)
(* changes its buttons between two frames.                                 *)
Ends(p) == EndFrame(p) /\ UNCHANGED mouseVars

Still == [a \in Axes |-> 0]

Move ==
  /\ port.connected
  /\ moved' \in [Axes -> -MaxSteps .. MaxSteps]
  /\ \E b \in SUBSET Buttons :
        Ends([port EXCEPT !.controls =
                [axis |-> [a \in Axes |-> AxisAt((Counter(port.controls.axis[a]) + moved'[a]) % Positions)],
                 buttons |-> b]])

Unplug ==
  /\ port.connected
  /\ \E p \in Unplugged : Ends(p)
  /\ moved' = Still

Plug ==
  /\ ~port.connected
  /\ Ends(Plugged)
  /\ moved' = Still

Away ==
  /\ ~port.connected
  /\ Ends(port)
  /\ moved' = Still

-----------------------------------------------------------------------------
(* Mouse(): movement is measured from here on.                             *)
Init ==
  /\ IoInit
  /\ counter = Counters(io.data)
  /\ steps_moved = Still
  /\ pixels_moved = Still
  /\ bounds \in [Axes -> Bounds]
  /\ pointer \in {p \in [Axes -> Places] : KeepInBounds(p, bounds) = p}
  /\ pixels_per_step = DefaultScale
  /\ held_buttons = io.data.buttons
  /\ went_down = {}
  /\ went_up = {}
  /\ last_event_frame = -1
  /\ moved = Still

Next ==
  \/ Probe \/ SetPosition \/ SetBounds \/ SetScale
  \/ Move \/ Unplug \/ Plug \/ Away

Spec == Init /\ [][Next]_vars

-----------------------------------------------------------------------------
(* The movement reported for a frame is the movement the device made since *)
(* the frame before, in both directions and round the cycle, and none is   *)
(* made up by a connection; pressed() and released() report each change of *)
(* a button in one frame, the one in which it happened.                    *)
FrameExact ==
  io.probe_frame = frame =>
    /\ steps_moved = moved
    /\ went_down = port.controls.buttons \ past.controls.buttons
    /\ went_up = past.controls.buttons \ port.controls.buttons
    /\ held_buttons = port.controls.buttons

(* "Extra probe() calls within one frame are harmless (they do nothing)"   *)
(* (mouse.hpp).                                                            *)
ExtraProbeHarmless == [][~(Probe /\ io.probe_frame = frame)]_vars
=============================================================================
