------------------------------- MODULE V32Io -------------------------------
(***************************************************************************)
(* v32::IoDevice (v32/v32io.hpp): a gamepad port read as data.  The        *)
(* console changes what a port shows between two frames; the program       *)
(* probes it once per frame or oftener, and keeps the controls of the last *)
(* two probes.  The packed controls are one value of the set Controls.     *)
(***************************************************************************)
EXTENDS Integers

CONSTANTS
  Controls,  \* what the 11 controls of the port can show
  Released,  \* the controls with none of them pressed
  MaxFrame   \* bound: the frames a behaviour has

ASSUME IoAssumption ==
  /\ Released \in Controls
  /\ MaxFrame \in Nat

VARIABLES
  frame,   \* get_frame_counter()
  port,    \* the gamepad port: connected or not, and its controls
  io,      \* the IoDevice
  past     \* history: what the port was in the frame before

ioVars == <<frame, port, io, past>>

Port == [connected : BOOLEAN, controls : Controls]

Device == [data : Controls, previous : Controls, probe_frame : -1 .. MaxFrame,
           is_connected : BOOLEAN, was_plugged : BOOLEAN]

(* IoDevice(): the constructor ends with a scan of its own.                *)
NewDevice(p) ==
  [data |-> p.controls, previous |-> p.controls, probe_frame |-> -1,
   is_connected |-> p.connected, was_plugged |-> FALSE]

IoInit ==
  /\ frame = 0
  /\ port \in Port
  /\ io = NewDevice(port)
  /\ past = port

(* Mutant: the old connection is read after the scan.                      *)
ProbeDevice_LateBefore ==
  IF io.probe_frame = frame THEN io
  ELSE [data |-> port.controls, previous |-> io.data, probe_frame |-> frame,
        is_connected |-> port.connected, was_plugged |-> FALSE]

(* probe(): once per frame, the controls and the connection move on.       *)
ProbeDevice ==
  IF io.probe_frame = frame THEN io
  ELSE [data |-> port.controls, previous |-> io.data, probe_frame |-> frame,
        is_connected |-> port.connected, was_plugged |-> port.connected /\ ~io.is_connected]

ProbeIo ==
  /\ io' = ProbeDevice
  /\ UNCHANGED <<frame, port, past>>

(* end_frame(): the console lets a port change between two frames only.    *)
(* THE RULE: the program has probed the frame that ends.                   *)
EndFrame(p) ==
  /\ frame < MaxFrame
  /\ io.probe_frame = frame
  /\ frame' = frame + 1
  /\ port' = p
  /\ past' = port
  /\ UNCHANGED io

(* What a port may show in the next frame: a gamepad that has just been    *)
(* connected shows every control released.                                 *)
Plugged == [connected |-> TRUE, controls |-> Released]

(* One that has been disconnected may still show what it showed last.      *)
Unplugged == {[connected |-> FALSE, controls |-> c] : c \in {port.controls, Released}}

-----------------------------------------------------------------------------
IoTypeOK ==
  /\ frame \in 0 .. MaxFrame
  /\ port \in Port
  /\ io \in Device
  /\ past \in Port

(* Once a frame is probed, however often, read() and read_previous() are   *)
(* the controls of that frame and of the one before, and plugged() tells   *)
(* whether the gamepad became connected between the two: no connection is  *)
(* missed, and none is reported in two frames.                             *)
ShowsTwoFrames ==
  io.probe_frame = frame =>
    /\ io.data = port.controls
    /\ io.previous = past.controls
    /\ io.was_plugged <=> port.connected /\ ~past.connected
=============================================================================
