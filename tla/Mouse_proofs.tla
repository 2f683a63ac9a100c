---------------------------- MODULE Mouse_proofs ----------------------------
(***************************************************************************)
(* v32::Mouse reports the movement of each frame exactly, for every number *)
(* of axes, every set of buttons and every speed of up to five steps.      *)
(*                                                                         *)
(* The driver keeps the counters and the buttons of its last probe, which  *)
(* the IoDevice's data are; in a frame that is not probed yet the counters *)
(* of the port are those plus the steps of the device, round the cycle.    *)
(* What remains is that the Gray code tells the positions apart and that   *)
(* the difference of two of them is the number of steps.                   *)
(***************************************************************************)
EXTENDS Mouse, TLAPS

(* What the IoDevice holds: the frame it has probed, or the one before.    *)
ProbedOrPast ==
  IF io.probe_frame = frame
    THEN /\ io.data = port.controls
         /\ io.previous = past.controls
         /\ io.is_connected = port.connected
         /\ io.was_plugged <=> port.connected /\ ~past.connected
    ELSE /\ io.data = past.controls
         /\ io.is_connected = past.connected

IoIInv == IoTypeOK /\ ProbedOrPast

(* The driver starts from what it saw last.                                *)
LastSeen ==
  /\ counter = Counters(io.data)
  /\ held_buttons = io.data.buttons

(* The device went from the past counters to those of the port.            *)
Stepped ==
  /\ moved \in [Axes -> -MaxSteps .. MaxSteps]
  /\ IF port.connected /\ past.connected
       THEN \A a \in Axes :
              Counter(port.controls.axis[a]) = (Counter(past.controls.axis[a]) + moved[a]) % Positions
       ELSE moved = Still

MouseIInv ==
  /\ IoIInv
  /\ LastSeen
  /\ io.probe_frame # frame => Stepped
  /\ FrameExact

-----------------------------------------------------------------------------
(* The protocol.                                                           *)

(* The Gray code tells the twelve positions apart.                         *)
LEMMA CounterOfAxis ==
  ASSUME NEW i \in 0 .. 11
  PROVE  Counter(AxisAt(i)) = i
<1> DEFINE c == AxisAt(i)
<1>1. /\ c.negative <=> i \in {0, 5, 6, 11}
      /\ c.positive <=> i \in {2, 3, 8, 9}
      /\ c.high <=> i \in 6 .. 11
      /\ c.low <=> i \in 3 .. 8
  BY DEF AxisAt
<1> HIDE DEF c
<1> DEFINE group == IF c.high THEN IF c.low THEN 2 ELSE 3 ELSE IF c.low THEN 1 ELSE 0
           trit == IF c.negative THEN 0 ELSE IF c.positive THEN 2 ELSE 1
<1>2. Counter(c) = IF c.negative /\ c.positive THEN Unknown
                   ELSE IF group % 2 = 0 THEN group * 3 + trit ELSE group * 3 + 2 - trit
  BY DEF Counter
<1>3. ~(c.negative /\ c.positive)
  BY <1>1
<1>4. group = (IF i \in 0 .. 2 THEN 0 ELSE IF i \in 3 .. 5 THEN 1 ELSE IF i \in 6 .. 8 THEN 2 ELSE 3)
  BY <1>1
<1>5. trit = (IF i \in {0, 5, 6, 11} THEN 0 ELSE IF i \in {2, 3, 8, 9} THEN 2 ELSE 1)
  BY <1>1
<1> HIDE DEF group, trit
<1> QED
  BY <1>2, <1>3, <1>4, <1>5 DEF c

(* The difference of two counters is the steps between them, both ways and *)
(* round the cycle, up to five.                                            *)
LEMMA StepsAreExact ==
  ASSUME NEW before \in 0 .. 11, NEW m \in -5 .. 5
  PROVE  /\ Steps(before, (before + m) % Positions) = m
         /\ (before + m) % Positions \in 0 .. 11
<1>1. (before + m) % 12 =
        IF before + m < 0 THEN before + m + 12
        ELSE IF before + m >= 12 THEN before + m - 12 ELSE before + m
  OBVIOUS
<1> DEFINE after == (before + m) % 12
<1> HIDE DEF after
<1>2. after \in 0 .. 11 /\ (after = before + m \/ after = before + m + 12 \/ after = before + m - 12)
  BY <1>1 DEF after
<1>3. (after - before + 12) % 12 = IF m >= 0 THEN m ELSE m + 12
  BY <1>2
<1>4. Steps(before, after) = m
  BY <1>2, <1>3 DEF Steps, Positions
<1> QED
  BY <1>2, <1>4 DEF after, Positions

LEMMA CountersInRange ==
  ASSUME NEW c \in Controls, NEW a \in Axes
  PROVE  Counter(c.axis[a]) \in 0 .. 11 /\ Counters(c)[a] = Counter(c.axis[a])
<1>1. c.axis \in [Axes -> {AxisAt(i) : i \in 0 .. 11}]
  BY DeviceAssumption DEF Positions
<1>2. PICK i \in 0 .. 11 : c.axis[a] = AxisAt(i)
  BY <1>1
<1> QED
  BY <1>2, CounterOfAxis DEF Counters

-----------------------------------------------------------------------------
(* The IoDevice.                                                           *)

LEMMA IoInitially == IoInit => IoIInv
<1> SUFFICES ASSUME IoInit PROVE IoIInv
  OBVIOUS
<1>1. /\ frame = 0 /\ past = port
      /\ port \in Port
      /\ io = NewDevice(port)
  BY DEF IoInit
<1>2. /\ io.probe_frame = -1
      /\ io.data = port.controls
      /\ io.is_connected = port.connected
  BY <1>1 DEF NewDevice
<1>3. io \in Device
  BY <1>1, IoAssumption DEF NewDevice, Device, Port
<1> QED
  BY <1>1, <1>2, <1>3, IoAssumption DEF IoIInv, IoTypeOK, ProbedOrPast

LEMMA ProbeIoSound ==
  ASSUME IoIInv, ProbeIo
  PROVE  /\ IoIInv'
         /\ UNCHANGED <<frame, port, past>>
         /\ io'.probe_frame = frame
         /\ io'.data = port.controls
         /\ io'.was_plugged <=> port.connected /\ ~past.connected
         /\ io.probe_frame = frame => io' = io
<1>1. UNCHANGED <<frame, port, past>> /\ io' = ProbeDevice
  BY DEF ProbeIo
<1>2. /\ frame \in 0 .. MaxFrame /\ port \in Port /\ past \in Port /\ io \in Device
  BY DEF IoIInv, IoTypeOK
<1>3. CASE io.probe_frame = frame
  <2>1. io' = io
    BY <1>1, <1>3 DEF ProbeDevice
  <2> QED
    BY <1>1, <1>2, <1>3, <2>1 DEF IoIInv, IoTypeOK, ProbedOrPast
<1>4. CASE io.probe_frame # frame
  <2>1. io' = [data |-> port.controls, previous |-> io.data, probe_frame |-> frame,
               is_connected |-> port.connected,
               was_plugged |-> port.connected /\ ~io.is_connected]
    BY <1>1, <1>4 DEF ProbeDevice
  <2>2. io.data = past.controls /\ io.is_connected = past.connected
    BY <1>4 DEF IoIInv, ProbedOrPast
  <2>3. io' \in Device
    BY <1>2, <2>1 DEF Device, Port
  <2>4. /\ io'.probe_frame = frame /\ io'.data = port.controls /\ io'.previous = past.controls
        /\ io'.is_connected = port.connected
        /\ io'.was_plugged <=> port.connected /\ ~past.connected
    BY <2>1, <2>2
  <2> QED
    BY <1>1, <1>2, <1>4, <2>3, <2>4 DEF IoIInv, IoTypeOK, ProbedOrPast
<1> QED
  BY <1>3, <1>4

LEMMA EndFrameSound ==
  ASSUME IoIInv, NEW p \in Port, EndFrame(p)
  PROVE  /\ IoIInv'
         /\ io.probe_frame = frame
         /\ io'.probe_frame # frame'
         /\ frame' = frame + 1 /\ frame \in Int
         /\ port' = p /\ past' = port
<1>1. /\ frame < MaxFrame /\ io.probe_frame = frame /\ frame' = frame + 1
      /\ port' = p /\ past' = port /\ io' = io
  BY DEF EndFrame
<1>2. /\ frame \in 0 .. MaxFrame /\ port \in Port /\ past \in Port /\ io \in Device
  BY DEF IoIInv, IoTypeOK
<1>3. frame' \in 0 .. MaxFrame /\ io'.probe_frame # frame'
  BY <1>1, <1>2, IoAssumption
<1>4. io.data = port.controls /\ io.is_connected = port.connected
  BY <1>1 DEF IoIInv, ProbedOrPast
<1> QED
  BY <1>1, <1>2, <1>3, <1>4 DEF IoIInv, IoTypeOK, ProbedOrPast

-----------------------------------------------------------------------------
(* The device ends a frame.                                                *)

LEMMA EndsSound ==
  ASSUME MouseIInv, NEW p \in Port, Ends(p), Stepped'
  PROVE  MouseIInv'
<1>1. EndFrame(p) /\ UNCHANGED mouseVars
  BY DEF Ends
<1>2. /\ IoIInv' /\ io'.probe_frame # frame'
  BY <1>1, EndFrameSound DEF MouseIInv
<1>3. LastSeen'
  BY <1>1 DEF MouseIInv, LastSeen, EndFrame, mouseVars, Counters
<1> QED
  BY <1>2, <1>3 DEF MouseIInv, FrameExact

LEMMA StillIsAMove == Still \in [Axes -> -MaxSteps .. MaxSteps]
  BY MouseAssumption DEF Still

LEMMA MoveSound ==
  ASSUME MouseIInv, Move
  PROVE  MouseIInv'
<1>1. port.connected /\ moved' \in [Axes -> -MaxSteps .. MaxSteps]
  BY DEF Move
<1> DEFINE axis == [a \in Axes |->
                      AxisAt((Counter(port.controls.axis[a]) + moved'[a]) % Positions)]
<1>2. PICK b \in SUBSET Buttons : Ends([port EXCEPT !.controls = [axis |-> axis, buttons |-> b]])
  BY DEF Move
<1> DEFINE q == [port EXCEPT !.controls = [axis |-> axis, buttons |-> b]]
<1>3. port \in Port
  BY DEF MouseIInv, IoIInv, IoTypeOK
<1>4. \A a \in Axes :
        /\ (Counter(port.controls.axis[a]) + moved'[a]) % Positions \in 0 .. 11
        /\ Counter(axis[a]) = (Counter(port.controls.axis[a]) + moved'[a]) % Positions
  <2> SUFFICES ASSUME NEW a \in Axes
               PROVE  /\ (Counter(port.controls.axis[a]) + moved'[a]) % Positions \in 0 .. 11
                      /\ Counter(axis[a]) = (Counter(port.controls.axis[a]) + moved'[a]) % Positions
    OBVIOUS
  <2>1. Counter(port.controls.axis[a]) \in 0 .. 11
    BY <1>3, CountersInRange DEF Port
  <2>2. moved'[a] \in -5 .. 5
    BY <1>1, MouseAssumption
  <2>3. (Counter(port.controls.axis[a]) + moved'[a]) % Positions \in 0 .. 11
    BY <2>1, <2>2, StepsAreExact
  <2> QED
    BY <2>3, CounterOfAxis
<1>5. axis \in [Axes -> {AxisAt(i) : i \in 0 .. 11}]
  BY <1>4
<1> HIDE DEF axis
<1>6. [axis |-> axis, buttons |-> b] \in Controls
  BY <1>5, DeviceAssumption DEF Positions
<1>7. q \in Port /\ q.connected = TRUE /\ q.controls.axis = axis
  BY <1>1, <1>3, <1>6 DEF Port
<1> HIDE DEF q
<1>8. port' = q /\ past' = port
  BY <1>2 DEF Ends, EndFrame, q
<1>9. Stepped'
  <2>1. port'.connected /\ past'.connected /\ port'.controls.axis = axis /\ past' = port
    BY <1>1, <1>7, <1>8
  <2>2. \A a \in Axes :
          Counter(port'.controls.axis[a]) = (Counter(past'.controls.axis[a]) + moved'[a]) % Positions
    BY <1>4, <2>1
  <2> QED
    BY <1>1, <2>1, <2>2 DEF Stepped, Counter, Positions
<1> QED
  BY <1>2, <1>7, <1>9, EndsSound DEF q

LEMMA UnplugSound ==
  ASSUME MouseIInv, Unplug
  PROVE  MouseIInv'
<1>1. PICK p \in Unplugged : Ends(p)
  BY DEF Unplug
<1>2. PICK c \in {port.controls, Released} : p = [connected |-> FALSE, controls |-> c]
  BY DEF Unplugged
<1>3. p \in Port /\ ~p.connected
  BY <1>2, IoAssumption DEF MouseIInv, IoIInv, IoTypeOK, Port
<1>4. port' = p /\ moved' = Still
  BY <1>1 DEF Unplug, Ends, EndFrame
<1>5. Stepped'
  BY <1>3, <1>4, StillIsAMove DEF Stepped, Still
<1> QED
  BY <1>1, <1>3, <1>5, EndsSound

LEMMA PlugSound ==
  ASSUME MouseIInv, Plug \/ Away
  PROVE  MouseIInv'
<1>1. PICK p \in Port : Ends(p)
  BY IoAssumption DEF Plug, Away, Plugged, Port, MouseIInv, IoIInv, IoTypeOK
<1>2. past' = port /\ ~port.connected /\ moved' = Still
  BY <1>1 DEF Plug, Away, Ends, EndFrame
<1>3. Stepped'
  BY <1>2, StillIsAMove DEF Stepped, Still
<1> QED
  BY <1>1, <1>3, EndsSound

-----------------------------------------------------------------------------
(* A probe of a frame that was not probed yet.                             *)

LEMMA ProbeSound ==
  ASSUME MouseIInv, Probe, io.probe_frame # frame
  PROVE  MouseIInv'
<1>1. /\ IoIInv'
      /\ UNCHANGED <<frame, port, past>>
      /\ io'.probe_frame = frame
      /\ io'.data = port.controls
      /\ io'.is_connected = port.connected
      /\ io'.was_plugged <=> port.connected /\ ~past.connected
  <2>1. ProbeIo
    BY DEF Probe
  <2> QED
    BY <2>1, ProbeIoSound DEF MouseIInv, IoIInv, ProbedOrPast
<1>2. /\ ProbeButtons(port.controls.buttons)
      /\ counter' = Counters(port.controls)
      /\ steps_moved' = Movement
      /\ moved' = moved
  BY <1>1 DEF Probe
<1>3. io.data = past.controls /\ Stepped /\ port \in Port /\ past \in Port
  BY DEF MouseIInv, IoIInv, IoTypeOK, ProbedOrPast
<1>4. counter = Counters(past.controls) /\ held_buttons = past.controls.buttons
  BY <1>3 DEF MouseIInv, LastSeen
<1>5. /\ went_down' = port.controls.buttons \ past.controls.buttons
      /\ went_up' = past.controls.buttons \ port.controls.buttons
      /\ held_buttons' = port.controls.buttons
  BY <1>2, <1>4 DEF ProbeButtons
<1>6. steps_moved' = moved
  <2>1. CASE port.connected /\ past.connected
    <3>1. \A a \in Axes : Steps(counter[a], Counters(port.controls)[a]) = moved[a]
      <4> SUFFICES ASSUME NEW a \in Axes
                   PROVE  Steps(counter[a], Counters(port.controls)[a]) = moved[a]
        OBVIOUS
      <4>1. /\ Counter(past.controls.axis[a]) \in 0 .. 11
            /\ counter[a] = Counter(past.controls.axis[a])
            /\ Counters(port.controls)[a] = Counter(port.controls.axis[a])
        BY <1>3, <1>4, CountersInRange DEF Port
      <4>2. Counter(port.controls.axis[a]) = (Counter(past.controls.axis[a]) + moved[a]) % Positions
        BY <1>3, <2>1 DEF Stepped
      <4>3. moved[a] \in -5 .. 5
        BY <1>3, MouseAssumption DEF Stepped
      <4> QED
        BY <4>1, <4>2, <4>3, StepsAreExact
    <3>2. Movement = [a \in Axes |-> Steps(counter[a], Counters(port.controls)[a])]
      BY <1>1, <2>1 DEF Movement
    <3>3. moved = [a \in Axes |-> moved[a]]
      BY <1>3 DEF Stepped
    <3> QED
      BY <1>2, <3>1, <3>2, <3>3
  <2>2. CASE ~(port.connected /\ past.connected)
    <3>1. moved = Still
      BY <1>3, <2>2 DEF Stepped
    <3>2. ~(io'.is_connected /\ ~io'.was_plugged)
      BY <1>1, <2>2
    <3> QED
      BY <1>2, <3>1, <3>2 DEF Movement, Still
  <2> QED
    BY <2>1, <2>2
<1>7. LastSeen'
  BY <1>1, <1>2, <1>5 DEF LastSeen, Counters
<1>8. FrameExact'
  BY <1>1, <1>2, <1>5, <1>6 DEF FrameExact
<1> QED
  BY <1>1, <1>7, <1>8 DEF MouseIInv

(* The calls that place the pointer leave all of this alone.               *)
LEMMA OthersSound ==
  ASSUME MouseIInv,
         UNCHANGED <<ioVars, moved, counter, steps_moved, held_buttons, went_down, went_up>>
  PROVE  MouseIInv'
  BY DEF MouseIInv, ioVars, IoIInv, IoTypeOK, ProbedOrPast, LastSeen, Stepped, FrameExact,
         Counters

-----------------------------------------------------------------------------
LEMMA MouseInitially == Init => MouseIInv
<1> SUFFICES ASSUME Init PROVE MouseIInv
  OBVIOUS
<1>1. IoIInv /\ IoInit
  BY IoInitially DEF Init
<1>2. io.probe_frame # frame /\ past = port /\ port \in Port /\ moved = Still
  BY <1>1 DEF Init, IoInit, NewDevice
<1>3. Stepped
  <2>1. \A a \in Axes :
          Counter(port.controls.axis[a]) = (Counter(port.controls.axis[a]) + 0) % 12
    <3> SUFFICES ASSUME NEW a \in Axes
                 PROVE  Counter(port.controls.axis[a]) = (Counter(port.controls.axis[a]) + 0) % 12
      OBVIOUS
    <3>1. Counter(port.controls.axis[a]) \in 0 .. 11
      BY <1>2, CountersInRange DEF Port
    <3> QED
      BY <3>1
  <2>2. \A a \in Axes : moved[a] = 0
    BY <1>2 DEF Still
  <2> QED
    BY <1>2, <2>1, <2>2, StillIsAMove DEF Stepped, Positions
<1> QED
  BY <1>1, <1>2, <1>3 DEF MouseIInv, LastSeen, FrameExact, Init

LEMMA MouseStep ==
  ASSUME ~ExtraProbes, MouseIInv, [Next]_vars
  PROVE  MouseIInv'
<1>1. CASE Probe
  BY <1>1, ProbeSound DEF Probe
<1>2. CASE SetPosition
  BY <1>2, OthersSound DEF SetPosition
<1>3. CASE SetBounds
  BY <1>3, OthersSound DEF SetBounds
<1>4. CASE SetScale
  BY <1>4, OthersSound DEF SetScale
<1>5. CASE Move
  BY <1>5, MoveSound
<1>6. CASE Unplug
  BY <1>6, UnplugSound
<1>7. CASE Plug \/ Away
  BY <1>7, PlugSound
<1>8. CASE UNCHANGED vars
  BY <1>8, OthersSound DEF vars, mouseVars
<1> QED
  BY <1>1, <1>2, <1>3, <1>4, <1>5, <1>6, <1>7, <1>8 DEF Next

(* A program that probes each frame once is told the steps the device made *)
(* in it, and each change of a button in the frame in which it happened.   *)
THEOREM MovementIsExact ==
  ASSUME ~ExtraProbes
  PROVE  Spec => []FrameExact
<1>1. Init => MouseIInv
  BY MouseInitially
<1>2. MouseIInv /\ [Next]_vars => MouseIInv'
  BY MouseStep
<1>3. MouseIInv => FrameExact
  BY DEF MouseIInv
<1> QED
  BY <1>1, <1>2, <1>3, PTL DEF Spec
=============================================================================
