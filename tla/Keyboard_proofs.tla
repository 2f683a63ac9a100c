-------------------------- MODULE Keyboard_proofs --------------------------
(***************************************************************************)
(* v32::Keyboard notes what the device sends, for every set of keys and    *)
(* characters, every size of the queue and every timeout.                  *)
(*                                                                         *)
(* Between two probes the driver lags the device by at most one event.  So *)
(* the invariant says where each is: after a probe they are in step (the   *)
(* strobe and the prefix the driver remembers are those of the port); in   *)
(* a frame that is not probed yet the driver is in step with the frame     *)
(* before, and what the port shows is one move of the device away.         *)
(***************************************************************************)
EXTENDS Keyboard, SequenceTheorems, WellFoundedInduction, TLAPS

(* Keys and characters as the driver notes them: what read() tells apart.  *)
Noted == {e \in Event : IF e.text THEN e.symbol # 127 ELSE e.symbol <= 127}

(* The ring buffer: the events that wait are whole.                        *)
QueueSound ==
  /\ slots \in [0 .. QueueSize - 1 -> Noted \cup {Nothing}]
  /\ queue_first \in 0 .. QueueSize - 1
  /\ queue_count \in 0 .. QueueSize
  /\ \A i \in 0 .. queue_count - 1 : slots[Slot(i)] \in Noted
  /\ dropped_events \in Nat
  /\ out \in Noted \cup {Nothing}

KeysTyped ==
  /\ page \in {NoPage, PageHigh, PageLow}
  /\ page_frame \in Int
  /\ caps_lock \in BOOLEAN
  /\ sending \in Characters \cup {Nothing}
  /\ sent_in \in Int

(* What the IoDevice holds: the frame it has probed, or the one before.    *)
ProbedOrPast ==
  IF io.probe_frame = frame
    THEN /\ io.data = port.controls
         /\ io.previous = past.controls
         /\ io.is_connected = port.connected
         /\ io.was_plugged <=> port.connected /\ ~past.connected
    ELSE /\ io.data = past.controls
         /\ io.is_connected = past.connected

IoIInv == IoTypeOK /\ ProbedOrPast

PageOf(c) == IF c > 127 THEN PageHigh ELSE PageLow

(* The strobe the driver remembers is the one the port p shows.            *)
SideInStep(p) ==
  \/ p.controls.side = strobe_side
  \/ p.controls.side = NoSide /\ ~p.connected

(* The prefix that waits is that of the character the device is sending.   *)
PageInStep(p) ==
  /\ sending # Nothing =>
       p.connected /\ page = PageOf(sending) /\ page_frame = sent_in
  /\ p.connected /\ page # NoPage => sending # Nothing

NoPageWaits == page # NoPage => frame - page_frame > PageTimeout

(* One move of the device, from what the port was to what it is.           *)
Still == port = past /\ happened = Nothing /\ PageInStep(past)

Sent(p, k) ==
  /\ past.connected /\ port.connected
  /\ \E s \in Sides \ {strobe_side} : port.controls = Shown(s, p, k)

KeySent ==
  \E k \in Typed, p \in BOOLEAN :
     /\ Sent(p, k)
     /\ happened = Happening(k, p, FALSE)
     /\ sending = Nothing
     /\ NoPageWaits

PrefixSent ==
  \E c \in Characters :
     /\ Sent(FALSE, PageOf(c))
     /\ happened = Nothing
     /\ sending = c
     /\ sent_in = frame
     /\ NoPageWaits

PayloadSent ==
  \E c \in Characters :
     /\ Sent(FALSE, c % 128)
     /\ happened = Happening(c, TRUE, TRUE)
     /\ sending = Nothing
     /\ page = PageOf(c)
     /\ frame - page_frame <= PageTimeout

Unplugging ==
  /\ past.connected /\ ~port.connected
  /\ port.controls \in {past.controls, Released}
  /\ happened = Nothing
  /\ sending = Nothing

Plugging ==
  /\ ~past.connected
  /\ port = Plugged
  /\ happened = Nothing
  /\ sending = Nothing

Moved == Still \/ KeySent \/ PrefixSent \/ PayloadSent \/ Unplugging \/ Plugging

InStep ==
  /\ SideInStep(port)
  /\ PageInStep(port)
  /\ happened = Nothing
  /\ io.was_plugged => strobe_side = NoSide /\ page = NoPage

DriverInStep ==
  IF io.probe_frame = frame THEN InStep ELSE SideInStep(past) /\ Moved

KeyIInv == IoIInv /\ KeysTyped /\ QueueSound /\ DriverInStep

-----------------------------------------------------------------------------
(* Facts about the operators.                                              *)

(* The ring wraps around once.                                             *)
LEMMA SlotWraps ==
  ASSUME NEW q \in Nat \ {0}, NEW first \in 0 .. q - 1, NEW i \in 0 .. q
  PROVE  /\ (first + i) % q = IF first + i < q THEN first + i ELSE first + i - q
         /\ (first + i) % q \in 0 .. q - 1
  OBVIOUS

(* Two slots less than a lap apart differ.                                 *)
LEMMA SlotsDiffer ==
  ASSUME NEW q \in Nat \ {0}, NEW first \in 0 .. q - 1,
         NEW i \in 0 .. q - 1, NEW j \in 0 .. q - 1, i # j
  PROVE  (first + i) % q # (first + j) % q
<1>1. (first + i) % q = IF first + i < q THEN first + i ELSE first + i - q
  OBVIOUS
<1>2. (first + j) % q = IF first + j < q THEN first + j ELSE first + j - q
  OBVIOUS
<1> QED
  BY <1>1, <1>2

(* To go on from a slot is to skip the slots before it.                    *)
LEMMA SlotsFollow ==
  ASSUME NEW q \in Nat \ {0}, NEW first \in 0 .. q - 1, NEW n \in 0 .. q, NEW i \in 0 .. q - n - 1
  PROVE  (((first + n) % q) + i) % q = (first + (n + i)) % q
<1> DEFINE f == (first + n) % q
<1>1. f = (IF first + n < q THEN first + n ELSE first + n - q) /\ f \in 0 .. q - 1
  OBVIOUS
<1>2. (first + (n + i)) % q =
        IF first + (n + i) < q THEN first + (n + i) ELSE first + (n + i) - q
  OBVIOUS
<1>3. (f + i) % q = IF f + i < q THEN f + i ELSE f + i - q
  <2> HIDE DEF f
  <2> QED
    BY <1>1
<1> QED
  BY <1>1, <1>2, <1>3

(* Min() of a set of naturals is its least element.                        *)
LEMMA MinIsLeast ==
  ASSUME NEW S \in SUBSET Nat, S # {}
  PROVE  Min(S) \in S /\ \A y \in S : Min(S) <= y
<1>1. \E x \in S : \A y \in S : x <= y
  <2>1. PICK x \in S : \A y \in S : ~(<<y, x>> \in OpToRel(<, Nat))
    BY NatLessThanWellFounded, WFMin
  <2>2. \A y \in S : ~(y < x)
    BY <2>1, Zenon DEF OpToRel
  <2> QED
    BY <2>2
<1> QED
  BY <1>1 DEF Min

(* A key types an ASCII code.                                              *)
LEMMA SymbolIsAscii ==
  ASSUME NEW key \in 1 .. 127, NEW shift \in BOOLEAN, NEW caps \in BOOLEAN
  PROVE  Symbol(key, shift, caps) \in 1 .. 127
<1>1. CASE key \in 97 .. 122
  BY <1>1 DEF Symbol
<1>2. CASE ~(key \in 97 .. 122) /\ shift /\ \E i \in DOMAIN Base : Base[i] = key
  <2> DEFINE at == CHOOSE i \in DOMAIN Base : Base[i] = key
  <2>1. at \in DOMAIN Base
    BY <1>2
  <2>2. DOMAIN Base = 1 .. 21
    BY DEF Base
  <2>3. \A i \in 1 .. 21 : Over[i] \in 1 .. 127
    BY DEF Over
  <2>4. Symbol(key, shift, caps) = Over[at]
    BY <1>2 DEF Symbol
  <2> QED
    BY <2>1, <2>2, <2>3, <2>4
<1>3. CASE ~(key \in 97 .. 122) /\ ~(shift /\ \E i \in DOMAIN Base : Base[i] = key)
  BY <1>3 DEF Symbol
<1> QED
  BY <1>1, <1>2, <1>3

(* A payload of 7 bits and the codepage of its prefix make the character.  *)
LEMMA PayloadCompletes ==
  ASSUME NEW c \in Characters
  PROVE  /\ c % 128 \in 0 .. 127
         /\ c = IF PageOf(c) = PageHigh THEN (c % 128) + 128 ELSE c % 128
         /\ PageOf(c) \in {PageHigh, PageLow}
  BY KeyboardAssumption DEF PageOf, PageHigh, PageLow

LEMMA KeyIsNoted ==
  ASSUME NEW k \in Typed, NEW p \in BOOLEAN, NEW shift \in BOOLEAN, NEW caps \in BOOLEAN
  PROVE  NewEvent(k, Symbol(k, shift, caps), p, FALSE) \in Noted
<1>1. k \in 1 .. 127
  BY KeyboardAssumption
<1>2. Symbol(k, shift, caps) \in 1 .. 127
  BY <1>1, SymbolIsAscii
<1> QED
  BY <1>1, <1>2 DEF NewEvent, Noted, Event

LEMMA CharacterIsNoted ==
  ASSUME NEW c \in Characters
  PROVE  NewEvent(c, c, TRUE, TRUE) \in Noted
  BY KeyboardAssumption DEF NewEvent, Noted, Event

LEMMA NothingIsNoEvent ==
  /\ Nothing \notin Noted /\ Nothing \notin Happenings /\ Nothing \notin Characters
  BY DeviceAssumption DEF Noted

-----------------------------------------------------------------------------
(* The queue: what the ring buffer does to the events that wait.           *)

LEMMA WaitingIsASequence ==
  ASSUME QueueSound
  PROVE  Waiting \in Seq(Noted) /\ Len(Waiting) = queue_count /\ DOMAIN Waiting = 1 .. queue_count
<1>1. queue_count \in Nat /\ \A i \in 1 .. queue_count : slots[Slot(i - 1)] \in Noted
  BY KeyboardAssumption DEF QueueSound
<1> QED
  BY <1>1 DEF Waiting

(* enqueue() appends, or counts.                                           *)
LEMMA EnqueueAppends ==
  ASSUME QueueSound, NEW e \in Noted, Enqueue(e)
  PROVE  /\ IF Len(Waiting) < QueueSize
              THEN Waiting' = Append(Waiting, e) /\ dropped_events' = dropped_events
              ELSE Waiting' = Waiting /\ dropped_events' = dropped_events + 1
         /\ UNCHANGED out => QueueSound'
<1>0. Len(Waiting) = queue_count
  BY WaitingIsASequence
<1>1. CASE queue_count < QueueSize
  <2>1. /\ slots' = [slots EXCEPT ![Slot(queue_count)] = e]
        /\ queue_count' = queue_count + 1
        /\ queue_first' = queue_first
        /\ dropped_events' = dropped_events
    BY <1>1 DEF Enqueue
  <2>2. /\ queue_first \in 0 .. QueueSize - 1
        /\ queue_count \in 0 .. QueueSize - 1
        /\ QueueSize \in Nat \ {0}
    BY <1>1, KeyboardAssumption DEF QueueSound
  <2>3. Slot(queue_count) \in 0 .. QueueSize - 1
    BY <2>2, SlotWraps DEF Slot
  <2>4. \A i \in 0 .. queue_count - 1 : Slot(i) \in 0 .. QueueSize - 1 /\ Slot(i) # Slot(queue_count)
    <3> SUFFICES ASSUME NEW i \in 0 .. queue_count - 1
                 PROVE  Slot(i) \in 0 .. QueueSize - 1 /\ Slot(i) # Slot(queue_count)
      OBVIOUS
    <3>1. /\ i \in 0 .. QueueSize /\ i \in 0 .. QueueSize - 1
          /\ queue_count \in 0 .. QueueSize - 1 /\ i # queue_count
      BY <2>2
    <3>2. (queue_first + i) % QueueSize \in 0 .. QueueSize - 1
      BY <2>2, <3>1
    <3>3. (queue_first + i) % QueueSize # (queue_first + queue_count) % QueueSize
      BY <2>2, <3>1, SlotsDiffer
    <3> QED
      BY <3>2, <3>3 DEF Slot
  <2>5. \A i : Slot(i)' = Slot(i)
    BY <2>1 DEF Slot
  <2>6. DOMAIN slots = 0 .. QueueSize - 1
    BY DEF QueueSound
  <2>7. slots'[Slot(queue_count)] = e /\ \A i \in 0 .. queue_count - 1 : slots'[Slot(i)] = slots[Slot(i)]
    BY <2>1, <2>3, <2>4, <2>6
  <2>8. Waiting' = [i \in 1 .. queue_count + 1 |-> slots'[Slot(i - 1)]]
    BY <2>1, <2>5 DEF Waiting
  <2>9. Waiting' = Append(Waiting, e)
    <3>1. Append(Waiting, e) =
            [i \in 1 .. queue_count + 1 |-> IF i <= queue_count THEN Waiting[i] ELSE e]
      <4>1. Waiting \in Seq(Noted) /\ Len(Waiting) = queue_count
        BY WaitingIsASequence
      <4> DEFINE w == Waiting
      <4> HIDE DEF w
      <4>2. w \in Seq(Noted) /\ Len(w) = queue_count
        BY <4>1 DEF w
      <4>3. Append(w, e) = [i \in 1 .. Len(w) + 1 |-> IF i <= Len(w) THEN w[i] ELSE e]
        <5> DEFINE s == Append(w, e)
                   t == [i \in 1 .. Len(w) + 1 |-> IF i <= Len(w) THEN w[i] ELSE e]
        <5>1. /\ s \in Seq(Noted)
              /\ Len(s) = Len(w) + 1
              /\ \A i \in 1 .. Len(w) : s[i] = w[i]
              /\ s[Len(w) + 1] = e
          BY <4>2, AppendProperties
        <5>2. Len(w) \in Nat /\ \A i \in 1 .. Len(w) : w[i] \in Noted
          BY <4>2
        <5>3. t \in Seq(Noted) /\ Len(t) = Len(w) + 1
          BY <5>2
        <5>4. \A i \in 1 .. Len(s) : s[i] = t[i]
          BY <5>1, <5>2
        <5> HIDE DEF s, t
        <5>5. s = t
          BY <5>1, <5>3, <5>4, SeqEqual
        <5> QED
          BY <5>5 DEF s, t
      <4> QED
        BY <4>2, <4>3 DEF w
    <3>2. \A i \in 1 .. queue_count + 1 :
            slots'[Slot(i - 1)] = IF i <= queue_count THEN Waiting[i] ELSE e
      <4> SUFFICES ASSUME NEW i \in 1 .. queue_count + 1
                   PROVE  slots'[Slot(i - 1)] = IF i <= queue_count THEN Waiting[i] ELSE e
        OBVIOUS
      <4>1. CASE i <= queue_count
        <5>1. i - 1 \in 0 .. queue_count - 1 /\ i \in 1 .. queue_count
          BY <4>1, <2>2
        <5> QED
          BY <5>1, <2>7, <4>1 DEF Waiting
      <4>2. CASE i = queue_count + 1
        BY <4>2, <2>7, <2>2
      <4> QED
        BY <4>1, <4>2, <2>2
    <3> QED
      BY <3>1, <3>2, <2>8
  <2>10. UNCHANGED out => QueueSound'
    <3>1. slots' \in [0 .. QueueSize - 1 -> Noted \cup {Nothing}]
      BY <2>1 DEF QueueSound
    <3>2. \A i \in 0 .. queue_count : slots'[Slot(i)] \in Noted
      BY <2>2, <2>7 DEF QueueSound
    <3>3. \A i \in 0 .. queue_count' - 1 : slots'[Slot(i)'] \in Noted
      BY <2>1, <2>2, <2>5, <3>2
    <3> QED
      BY <2>1, <2>2, <3>1, <3>3 DEF QueueSound
  <2> QED
    BY <1>0, <1>1, <2>1, <2>9, <2>10
<1>2. CASE ~(queue_count < QueueSize)
  <2>1. UNCHANGED <<slots, queue_first, queue_count>> /\ dropped_events' = dropped_events + 1
    BY <1>2 DEF Enqueue
  <2>2. Waiting' = Waiting
    BY <2>1 DEF Waiting, Slot
  <2>3. UNCHANGED out => QueueSound'
    BY <2>1 DEF QueueSound, Slot
  <2> QED
    BY <1>0, <1>2, <2>1, <2>2, <2>3
<1> QED
  BY <1>1, <1>2

LEMMA QueueUnchanged ==
  ASSUME UNCHANGED queueVars
  PROVE  /\ Waiting' = Waiting
         /\ dropped_events' = dropped_events
         /\ QueueSound /\ UNCHANGED out => QueueSound'
  BY DEF queueVars, Waiting, QueueSound, Slot

(* pop_event(), n times, leaves what waited behind the first n.            *)
LEMMA PopSkips ==
  ASSUME QueueSound, NEW n \in 0 .. queue_count, Pop(n)
  PROVE  /\ Waiting' = SubSeq(Waiting, n + 1, Len(Waiting))
         /\ out' \in Noted \cup {Nothing} => QueueSound'
<1>1. /\ queue_first' = (queue_first + n) % QueueSize
      /\ queue_count' = queue_count - n
      /\ slots' = slots
      /\ dropped_events' = dropped_events
  BY DEF Pop
<1>2. /\ queue_first \in 0 .. QueueSize - 1
      /\ queue_count \in 0 .. QueueSize
      /\ n \in 0 .. QueueSize
      /\ QueueSize \in Nat \ {0}
  BY KeyboardAssumption DEF QueueSound
<1>3. \A i \in 0 .. queue_count - n - 1 : Slot(i)' = Slot(n + i)
  <2> SUFFICES ASSUME NEW i \in 0 .. queue_count - n - 1
               PROVE  (((queue_first + n) % QueueSize) + i) % QueueSize = (queue_first + (n + i)) % QueueSize
    BY <1>1 DEF Slot
  <2> QED
    BY <1>2, SlotsFollow
<1>4. queue_first' \in 0 .. QueueSize - 1 /\ queue_count' \in 0 .. QueueSize
  BY <1>1, <1>2, SlotWraps
<1>5. Waiting' = SubSeq(Waiting, n + 1, Len(Waiting))
  <2>1. Waiting' = [i \in 1 .. queue_count - n |-> slots[Slot(i - 1)']]
    BY <1>1 DEF Waiting
  <2>2. SubSeq(Waiting, n + 1, Len(Waiting)) = [i \in 1 .. queue_count - n |-> Waiting[i + n]]
    <3>1. Len(Waiting) = queue_count /\ Waiting \in Seq(Noted)
      BY WaitingIsASequence
    <3> QED
      BY <3>1, <1>2
  <2>3. \A i \in 1 .. queue_count - n : slots[Slot(i - 1)'] = Waiting[i + n]
    <3> SUFFICES ASSUME NEW i \in 1 .. queue_count - n
                 PROVE  slots[Slot(i - 1)'] = Waiting[i + n]
      OBVIOUS
    <3>1. i - 1 \in 0 .. queue_count - n - 1 /\ i + n \in 1 .. queue_count /\ n + (i - 1) = i + n - 1
      BY <1>2
    <3>2. Slot(i - 1)' = Slot(i + n - 1)
      BY <3>1, <1>3
    <3> QED
      BY <3>1, <3>2 DEF Waiting
  <2> QED
    BY <2>1, <2>2, <2>3
<1>6. \A i \in 0 .. queue_count' - 1 : slots'[Slot(i)'] \in Noted
  <2> SUFFICES ASSUME NEW i \in 0 .. queue_count - n - 1
               PROVE  slots[Slot(i)'] \in Noted
    BY <1>1
  <2>1. n + i \in 0 .. queue_count - 1 /\ Slot(i)' = Slot(n + i)
    BY <1>2, <1>3
  <2> QED
    BY <2>1 DEF QueueSound
<1> QED
  BY <1>1, <1>4, <1>5, <1>6 DEF QueueSound

-----------------------------------------------------------------------------
(* The IoDevice.                                                           *)

LEMMA IoInitially == IoInit => IoIInv
<1> SUFFICES ASSUME IoInit PROVE IoIInv
  OBVIOUS
<1>1. /\ frame = 0 /\ past = port
      /\ port \in Port
      /\ io = NewDevice(port)
  BY DEF IoInit
<1>2. /\ io.probe_frame = -1
      /\ io.data = port.controls
      /\ io.is_connected = port.connected
  BY <1>1 DEF NewDevice
<1>3. io \in Device
  BY <1>1, IoAssumption DEF NewDevice, Device, Port
<1> QED
  BY <1>1, <1>2, <1>3, IoAssumption DEF IoIInv, IoTypeOK, ProbedOrPast

LEMMA ProbeIoSound ==
  ASSUME IoIInv, ProbeIo
  PROVE  /\ IoIInv'
         /\ UNCHANGED <<frame, port, past>>
         /\ io'.probe_frame = frame
         /\ io'.data = port.controls
         /\ io'.was_plugged <=> port.connected /\ ~past.connected
         /\ io.probe_frame = frame => io' = io
<1>1. UNCHANGED <<frame, port, past>> /\ io' = ProbeDevice
  BY DEF ProbeIo
<1>2. /\ frame \in 0 .. MaxFrame /\ port \in Port /\ past \in Port /\ io \in Device
  BY DEF IoIInv, IoTypeOK
<1>3. CASE io.probe_frame = frame
  <2>1. io' = io
    BY <1>1, <1>3 DEF ProbeDevice
  <2> QED
    BY <1>1, <1>2, <1>3, <2>1 DEF IoIInv, IoTypeOK, ProbedOrPast
<1>4. CASE io.probe_frame # frame
  <2>1. io' = [data |-> port.controls, previous |-> io.data, probe_frame |-> frame,
               is_connected |-> port.connected,
               was_plugged |-> port.connected /\ ~io.is_connected]
    BY <1>1, <1>4 DEF ProbeDevice
  <2>2. io.data = past.controls /\ io.is_connected = past.connected
    BY <1>4 DEF IoIInv, ProbedOrPast
  <2>3. io' \in Device
    BY <1>2, <2>1 DEF Device, Port
  <2>4. /\ io'.probe_frame = frame /\ io'.data = port.controls /\ io'.previous = past.controls
        /\ io'.is_connected = port.connected
        /\ io'.was_plugged <=> port.connected /\ ~past.connected
    BY <2>1, <2>2
  <2> QED
    BY <1>1, <1>2, <1>4, <2>3, <2>4 DEF IoIInv, IoTypeOK, ProbedOrPast
<1> QED
  BY <1>3, <1>4

LEMMA EndFrameSound ==
  ASSUME IoIInv, NEW p \in Port, EndFrame(p)
  PROVE  /\ IoIInv'
         /\ io.probe_frame = frame
         /\ io'.probe_frame # frame'
         /\ frame' = frame + 1 /\ frame \in Int
         /\ port' = p /\ past' = port
<1>1. /\ frame < MaxFrame /\ io.probe_frame = frame /\ frame' = frame + 1
      /\ port' = p /\ past' = port /\ io' = io
  BY DEF EndFrame
<1>2. /\ frame \in 0 .. MaxFrame /\ port \in Port /\ past \in Port /\ io \in Device
  BY DEF IoIInv, IoTypeOK
<1>3. frame' \in 0 .. MaxFrame /\ io'.probe_frame # frame'
  BY <1>1, <1>2, IoAssumption
<1>4. io.data = port.controls /\ io.is_connected = port.connected
  BY <1>1 DEF IoIInv, ProbedOrPast
<1> QED
  BY <1>1, <1>2, <1>3, <1>4 DEF IoIInv, IoTypeOK, ProbedOrPast

-----------------------------------------------------------------------------
(* The device: a frame ends with the driver in step, and is one move away. *)

LEMMA ShownOnPort ==
  ASSUME NEW s \in Sides, NEW p \in BOOLEAN, NEW k, port \in Port,
         \/ k \in Typed
         \/ ~p /\ k \in {PageHigh, PageLow} \cup {c % 128 : c \in Characters}
  PROVE  [port EXCEPT !.controls = Shown(s, p, k)] \in Port
<1>1. Shown(s, p, k) \in Controls
  <2>1. CASE k \in Typed
    <3>1. Shown(s, p, k) \in [side : Sides, pressed : BOOLEAN, key : Typed]
      BY <2>1 DEF Shown
    <3> QED
      BY <3>1, DeviceAssumption
  <2>2. CASE ~p /\ k \in {PageHigh, PageLow} \cup {c % 128 : c \in Characters}
    <3> DEFINE halves == {PageHigh, PageLow} \cup {c % 128 : c \in Characters}
    <3>1. [side : Sides, pressed : {FALSE}, key : halves] \subseteq Controls
      BY DeviceAssumption
    <3>2. k \in halves
      BY <2>2
    <3> HIDE DEF halves
    <3>3. Shown(s, p, k) \in [side : Sides, pressed : {FALSE}, key : halves]
      BY <2>2, <3>2 DEF Shown
    <3> QED
      BY <3>1, <3>3
  <2> QED
    BY <2>1, <2>2
<1> QED
  BY <1>1 DEF Port

LEMMA EndsInAMove ==
  ASSUME KeyIInv, NEW p \in Port, Ends(p), KeysTyped', Moved'
  PROVE  /\ KeyIInv'
         /\ Waiting' = Waiting
         /\ UNCHANGED <<dropped_events, held, caps_lock, out>>
<1>1. EndFrame(p) /\ UNCHANGED <<queueVars, keyVars, out>>
  BY DEF Ends
<1>2. /\ IoIInv' /\ io.probe_frame = frame /\ io'.probe_frame # frame' /\ past' = port
  BY <1>1, EndFrameSound DEF KeyIInv
<1>3. QueueSound' /\ Waiting' = Waiting
  BY <1>1, QueueUnchanged DEF KeyIInv
<1>4. SideInStep(port)
  BY <1>2 DEF KeyIInv, DriverInStep, InStep
<1>5. SideInStep(past)'
  BY <1>1, <1>2, <1>4 DEF SideInStep, keyVars
<1> QED
  BY <1>1, <1>2, <1>3, <1>5 DEF KeyIInv, DriverInStep, queueVars, keyVars

(* What a frame that ends finds.                                           *)
LEMMA EndedInStep ==
  ASSUME KeyIInv, NEW p \in Port, Ends(p)
  PROVE  /\ InStep /\ KeysTyped
         /\ frame' = frame + 1 /\ frame \in Int /\ port' = p /\ past' = port
         /\ UNCHANGED <<strobe_side, page, page_frame, caps_lock>>
         /\ port \in Port
<1>1. EndFrame(p) /\ UNCHANGED keyVars
  BY DEF Ends
<1>2. /\ io.probe_frame = frame /\ port' = p /\ past' = port /\ frame' = frame + 1 /\ frame \in Int
  BY <1>1, EndFrameSound DEF KeyIInv
<1> QED
  BY <1>1, <1>2 DEF KeyIInv, DriverInStep, keyVars, IoIInv, IoTypeOK

LEMMA FramesSound ==
  ASSUME KeyIInv, Frames
  PROVE  KeyIInv' /\ UNCHANGED Abstract!vars
<1>1. port \in Port /\ Ends(port) /\ UNCHANGED <<sending, sent_in, happened>>
  BY DEF Frames, deviceVars, KeyIInv, IoIInv, IoTypeOK
<1>2. /\ InStep /\ KeysTyped /\ port' = port /\ past' = port
      /\ UNCHANGED <<strobe_side, page, page_frame, caps_lock>>
  BY <1>1, EndedInStep
<1>3. KeysTyped'
  BY <1>1, <1>2 DEF KeysTyped
<1>4. Still'
  BY <1>1, <1>2 DEF Still, InStep, PageInStep
<1> QED
  BY <1>1, <1>3, <1>4, EndsInAMove DEF Moved, Abstract!vars

(* No prefix that the driver still waits on is left behind by the device.  *)
LEMMA NoPageWaitsNext ==
  ASSUME KeyIInv, NEW p \in Port, Ends(p), ~Owes, port.connected
  PROVE  NoPageWaits'
<1>1. /\ InStep /\ frame' = frame + 1 /\ frame \in Int /\ UNCHANGED <<page, page_frame>> /\ KeysTyped
  BY EndedInStep
<1> QED
  BY <1>1, KeyboardAssumption DEF NoPageWaits, InStep, PageInStep, Owes, KeysTyped

LEMMA NewSide ==
  ASSUME InStep, port.connected, NEW s \in Sides, NextSide(s)
  PROVE  s \in Sides \ {strobe_side} /\ s # NoSide
  BY DEF InStep, SideInStep, NextSide, Sides, NoSide

LEMMA KeySound ==
  ASSUME KeyIInv, Key
  PROVE  KeyIInv' /\ Abstract!Happen
<1>1. ~Owes /\ port.connected /\ sending' = Nothing /\ UNCHANGED sent_in
  BY DEF Key
<1>2. PICK k \in Typed, p \in BOOLEAN, s \in Sides :
        /\ NextSide(s)
        /\ Ends([port EXCEPT !.controls = Shown(s, p, k)])
        /\ happened' = Happening(k, p, FALSE)
  BY DEF Key
<1> DEFINE q == [port EXCEPT !.controls = Shown(s, p, k)]
<1>3. port \in Port
  BY DEF KeyIInv, IoIInv, IoTypeOK
<1>4. q \in Port /\ q.connected = TRUE /\ q.controls = Shown(s, p, k)
  BY <1>1, <1>3, ShownOnPort DEF Port
<1> HIDE DEF q
<1>5. /\ InStep /\ KeysTyped /\ port' = q /\ past' = port
      /\ UNCHANGED <<strobe_side, page, page_frame, caps_lock>>
  BY <1>2, <1>4, EndedInStep DEF q
<1>6. KeysTyped'
  BY <1>1, <1>5 DEF KeysTyped
<1>7. NoPageWaits'
  BY <1>1, <1>2, <1>4, NoPageWaitsNext DEF q
<1>8. s \in Sides \ {strobe_side'}
  BY <1>1, <1>2, <1>5, NewSide
<1>9. Sent(p, k)'
  BY <1>1, <1>4, <1>5, <1>8 DEF Sent
<1>10. KeySent'
  BY <1>1, <1>2, <1>7, <1>9 DEF KeySent
<1>11. /\ KeyIInv'
       /\ Waiting' = Waiting
       /\ UNCHANGED <<dropped_events, held, caps_lock, out>>
  BY <1>2, <1>4, <1>6, <1>10, EndsInAMove DEF Moved, q
<1>12. Happening(k, p, FALSE) \in Happenings
  BY DEF Happenings, Happening
<1>13. happened = Nothing /\ happened' \in Happenings
  BY <1>2, <1>5, <1>12 DEF InStep
<1> QED
  BY <1>11, <1>13 DEF Abstract!Happen

LEMMA StartCharacterSound ==
  ASSUME KeyIInv, StartCharacter
  PROVE  KeyIInv' /\ UNCHANGED Abstract!vars
<1>1. ~Owes /\ port.connected /\ sent_in' = frame + 1 /\ UNCHANGED happened
  BY DEF StartCharacter
<1>2. PICK c \in Characters, s \in Sides :
        /\ NextSide(s)
        /\ Ends([port EXCEPT !.controls = Shown(s, FALSE, PageOf(c))])
        /\ sending' = c
  BY DEF StartCharacter, PageOf
<1> DEFINE q == [port EXCEPT !.controls = Shown(s, FALSE, PageOf(c))]
<1>3. port \in Port
  BY DEF KeyIInv, IoIInv, IoTypeOK
<1>4. q \in Port /\ q.connected = TRUE /\ q.controls = Shown(s, FALSE, PageOf(c))
  <2>1. PageOf(c) \in {PageHigh, PageLow}
    BY PayloadCompletes
  <2> QED
    BY <1>1, <1>3, <2>1, ShownOnPort DEF Port
<1> HIDE DEF q
<1>5. /\ InStep /\ KeysTyped /\ port' = q /\ past' = port /\ frame' = frame + 1 /\ frame \in Int
      /\ UNCHANGED <<strobe_side, page, page_frame, caps_lock>>
  BY <1>2, <1>4, EndedInStep DEF q
<1>6. KeysTyped'
  BY <1>1, <1>2, <1>5 DEF KeysTyped
<1>7. NoPageWaits'
  BY <1>1, <1>2, <1>4, NoPageWaitsNext DEF q
<1>8. s \in Sides \ {strobe_side'}
  BY <1>1, <1>2, <1>5, NewSide
<1>9. Sent(FALSE, PageOf(c))'
  BY <1>1, <1>4, <1>5, <1>8 DEF Sent, PageOf
<1>10. PrefixSent'
  BY <1>1, <1>2, <1>5, <1>7, <1>9 DEF PrefixSent, InStep
<1>11. /\ KeyIInv'
       /\ Waiting' = Waiting
       /\ UNCHANGED <<dropped_events, held, caps_lock, out>>
  BY <1>2, <1>4, <1>6, <1>10, EndsInAMove DEF Moved, q
<1> QED
  BY <1>1, <1>11 DEF Abstract!vars

LEMMA FinishCharacterSound ==
  ASSUME KeyIInv, FinishCharacter
  PROVE  KeyIInv' /\ Abstract!Happen
<1>1. /\ sending # Nothing /\ frame + 1 - sent_in <= PageTimeout
      /\ happened' = Happening(sending, TRUE, TRUE)
      /\ sending' = Nothing /\ UNCHANGED sent_in
  BY DEF FinishCharacter, Owes
<1>2. PICK s \in Sides :
        NextSide(s) /\ Ends([port EXCEPT !.controls = Shown(s, FALSE, sending % 128)])
  BY DEF FinishCharacter
<1> DEFINE q == [port EXCEPT !.controls = Shown(s, FALSE, sending % 128)]
<1>3. port \in Port /\ sending \in Characters
  BY <1>1 DEF KeyIInv, IoIInv, IoTypeOK, KeysTyped
<1>4. q \in Port /\ q.connected = port.connected /\ q.controls = Shown(s, FALSE, sending % 128)
  BY <1>3, ShownOnPort DEF Port
<1> HIDE DEF q
<1>5. /\ InStep /\ KeysTyped /\ port' = q /\ past' = port /\ frame' = frame + 1 /\ frame \in Int
      /\ UNCHANGED <<strobe_side, page, page_frame, caps_lock>>
  BY <1>2, <1>4, EndedInStep DEF q
<1>6. KeysTyped'
  BY <1>1, <1>5 DEF KeysTyped
<1>7. port.connected /\ page = PageOf(sending) /\ page_frame = sent_in
  BY <1>1, <1>5 DEF InStep, PageInStep
<1>8. s \in Sides \ {strobe_side'}
  BY <1>2, <1>5, <1>7, NewSide
<1>9. \E t \in Sides \ {strobe_side'} : port'.controls = Shown(t, FALSE, sending % 128)
  BY <1>4, <1>5, <1>8
<1>10. PayloadSent'
  <2>1. past'.connected /\ port'.connected
    BY <1>4, <1>5, <1>7
  <2>2. page' = PageOf(sending)
    BY <1>5, <1>7
  <2>3. frame' = frame + 1 /\ page_frame' = sent_in /\ frame \in Int /\ sent_in \in Int
    BY <1>5, <1>7 DEF KeysTyped
  <2>4. frame' - page_frame' <= PageTimeout
    BY <1>1, <2>3, KeyboardAssumption
  <2> QED
    BY <1>1, <1>3, <1>9, <2>1, <2>2, <2>4 DEF PayloadSent, Sent, PageOf
<1>11. /\ KeyIInv'
       /\ Waiting' = Waiting
       /\ UNCHANGED <<dropped_events, held, caps_lock, out>>
  BY <1>2, <1>4, <1>6, <1>10, EndsInAMove DEF Moved, q
<1>12. Happening(sending, TRUE, TRUE) \in Happenings
  BY <1>3 DEF Happenings, Happening
<1>13. happened = Nothing /\ happened' \in Happenings
  BY <1>1, <1>5, <1>12 DEF InStep
<1> QED
  BY <1>11, <1>13 DEF Abstract!Happen

LEMMA UnplugSound ==
  ASSUME KeyIInv, Unplug
  PROVE  KeyIInv' /\ UNCHANGED Abstract!vars
<1>1. port.connected /\ sending' = Nothing /\ UNCHANGED <<sent_in, happened>>
  BY DEF Unplug
<1>2. PICK p \in Unplugged : Ends(p)
  BY DEF Unplug
<1>3. port \in Port
  BY DEF KeyIInv, IoIInv, IoTypeOK
<1>4. p \in Port /\ p.connected = FALSE /\ p.controls \in {port.controls, Released}
  <2>1. PICK c \in {port.controls, Released} : p = [connected |-> FALSE, controls |-> c]
    BY DEF Unplugged
  <2>2. c \in Controls
    BY <1>3, IoAssumption DEF Port
  <2> QED
    BY <2>1, <2>2 DEF Port
<1>5. /\ InStep /\ KeysTyped /\ port' = p /\ past' = port
      /\ UNCHANGED <<strobe_side, page, page_frame, caps_lock>>
  BY <1>2, <1>4, EndedInStep
<1>6. KeysTyped'
  BY <1>1, <1>5 DEF KeysTyped
<1>7. Unplugging'
  BY <1>1, <1>4, <1>5 DEF Unplugging, InStep
<1> QED
  BY <1>1, <1>2, <1>4, <1>6, <1>7, EndsInAMove DEF Moved, Abstract!vars

LEMMA PlugSound ==
  ASSUME KeyIInv, Plug
  PROVE  KeyIInv' /\ UNCHANGED Abstract!vars
<1>1. ~port.connected /\ Ends(Plugged) /\ UNCHANGED <<sending, sent_in, happened>>
  BY DEF Plug, deviceVars
<1>2. Plugged \in Port
  BY IoAssumption DEF Plugged, Port
<1>3. /\ InStep /\ KeysTyped /\ port' = Plugged /\ past' = port
      /\ UNCHANGED <<strobe_side, page, page_frame, caps_lock>>
  BY <1>1, <1>2, EndedInStep
<1>4. KeysTyped'
  BY <1>1, <1>3 DEF KeysTyped
<1>5. Plugging'
  BY <1>1, <1>3 DEF Plugging, InStep, PageInStep, Plugged
<1> QED
  BY <1>1, <1>2, <1>4, <1>5, EndsInAMove DEF Moved, Abstract!vars

-----------------------------------------------------------------------------
(* The driver: a probe brings it in step again.                            *)

LEMMA ProbeReads ==
  ASSUME KeyIInv, Probe
  PROVE  /\ IoIInv'
         /\ UNCHANGED <<frame, port, past, out, sending, sent_in>>
         /\ io'.probe_frame = frame
         /\ io'.data = port.controls
         /\ io'.was_plugged <=> port.connected /\ ~past.connected
         /\ io.probe_frame = frame => io' = io
         /\ IF IsNew THEN NewOne(port.controls.key, port.controls.pressed) ELSE NoEvent
<1>1. ProbeIo /\ UNCHANGED <<out, sending, sent_in>>
  BY DEF Probe
<1>2. /\ IoIInv'
      /\ UNCHANGED <<frame, port, past>>
      /\ io'.probe_frame = frame
      /\ io'.data = port.controls
      /\ io'.was_plugged <=> port.connected /\ ~past.connected
      /\ io.probe_frame = frame => io' = io
  BY <1>1, ProbeIoSound DEF KeyIInv
<1>3. IF IsNew THEN NewOne(port.controls.key, port.controls.pressed) ELSE NoEvent
  BY <1>2 DEF Probe
<1> QED
  BY <1>1, <1>2, <1>3

(* Nothing was sent: nothing is noted, and an extra probe does nothing.    *)
LEMMA QuietProbe ==
  ASSUME KeyIInv, Probe,
         io.probe_frame = frame \/ Still \/ Unplugging \/ Plugging
  PROVE  /\ KeyIInv'
         /\ UNCHANGED Abstract!vars
         /\ io.probe_frame = frame => UNCHANGED vars
<1>1. /\ IoIInv'
      /\ UNCHANGED <<frame, port, past, out, sending, sent_in>>
      /\ io'.probe_frame = frame
      /\ io'.data = port.controls
      /\ io'.was_plugged <=> port.connected /\ ~past.connected
      /\ io.probe_frame = frame => io' = io
      /\ IF IsNew THEN NewOne(port.controls.key, port.controls.pressed) ELSE NoEvent
  BY ProbeReads
<1> DEFINE strobe == IF io'.was_plugged THEN NoSide ELSE strobe_side
           prefix == IF io'.was_plugged THEN NoPage ELSE page
<1>2. /\ \/ port.controls.side = strobe
         \/ port.controls.side = NoSide /\ (~port.connected \/ strobe = NoSide)
      /\ sending # Nothing =>
           port.connected /\ prefix = PageOf(sending) /\ page_frame = sent_in
      /\ port.connected /\ prefix # NoPage => sending # Nothing
      /\ happened = Nothing
      /\ io.probe_frame = frame => strobe = strobe_side /\ prefix = page
  <2>1. CASE io.probe_frame = frame
    <3>1. InStep /\ (io'.was_plugged => strobe_side = NoSide /\ page = NoPage)
      BY <1>1, <2>1 DEF KeyIInv, DriverInStep, InStep
    <3> QED
      BY <3>1 DEF InStep, SideInStep, PageInStep
  <2>2. CASE io.probe_frame # frame /\ Still
    <3>1. SideInStep(past) /\ port = past /\ happened = Nothing /\ PageInStep(past)
      BY <2>2 DEF KeyIInv, DriverInStep, Still
    <3>2. ~io'.was_plugged
      BY <1>1, <3>1
    <3> QED
      BY <2>2, <3>1, <3>2 DEF SideInStep, PageInStep
  <2>3. CASE io.probe_frame # frame /\ Unplugging
    <3>1. SideInStep(past) /\ past.connected
      BY <2>3 DEF KeyIInv, DriverInStep, Unplugging
    <3>2. /\ ~port.connected /\ port.controls \in {past.controls, Released}
          /\ happened = Nothing /\ sending = Nothing
      BY <2>3 DEF Unplugging
    <3>3. Released.side = NoSide
      BY DeviceAssumption DEF Shown
    <3>4. ~io'.was_plugged
      BY <1>1, <3>2
    <3> QED
      BY <2>3, <3>1, <3>2, <3>3, <3>4 DEF SideInStep
  <2>4. CASE io.probe_frame # frame /\ Plugging
    <3>1. ~past.connected /\ port = Plugged /\ happened = Nothing /\ sending = Nothing
      BY <2>4 DEF Plugging
    <3>2. port.connected /\ port.controls.side = NoSide
      BY <3>1, DeviceAssumption DEF Plugged, Shown
    <3>3. io'.was_plugged
      BY <1>1, <3>1, <3>2
    <3> QED
      BY <2>4, <3>1, <3>2, <3>3
  <2> QED
    BY <2>1, <2>2, <2>3, <2>4
<1>3. ~IsNew
  BY <1>1, <1>2 DEF IsNew, Strobe
<1>4. /\ strobe_side' = strobe /\ page' = prefix
      /\ UNCHANGED <<page_frame, held, caps_lock, happened>>
      /\ UNCHANGED queueVars
  BY <1>1, <1>3 DEF NoEvent, Strobe
<1>5. QueueSound' /\ Waiting' = Waiting /\ dropped_events' = dropped_events
  BY <1>1, <1>4, QueueUnchanged DEF KeyIInv
<1>6. KeysTyped'
  BY <1>1, <1>4 DEF KeyIInv, KeysTyped
<1>7. InStep'
  <2>1. SideInStep(port)'
    BY <1>1, <1>2, <1>4 DEF SideInStep
  <2>2. PageInStep(port)'
    BY <1>1, <1>2, <1>4 DEF PageInStep, PageOf
  <2>3. io'.was_plugged => strobe_side' = NoSide /\ page' = NoPage
    BY <1>4
  <2> QED
    BY <1>2, <1>4, <2>1, <2>2, <2>3 DEF InStep
<1>8. KeyIInv'
  BY <1>1, <1>5, <1>6, <1>7 DEF KeyIInv, DriverInStep
<1>9. UNCHANGED Abstract!vars
  BY <1>1, <1>4, <1>5 DEF Abstract!vars
<1>10. io.probe_frame = frame => UNCHANGED vars
  BY <1>1, <1>2, <1>4 DEF vars, ioVars, keyVars, deviceVars
<1> QED
  BY <1>8, <1>9, <1>10

(* The port shows something that was sent since the last frame.            *)
LEMMA NewsArrives ==
  ASSUME KeyIInv, Probe, io.probe_frame # frame,
         NEW p \in BOOLEAN, NEW k, Sent(p, k)
  PROVE  /\ IoIInv' /\ io'.probe_frame = frame'
         /\ UNCHANGED <<frame, port, past, out, sending, sent_in>>
         /\ NewOne(k, p)
         /\ ~io'.was_plugged
         /\ port.controls.side = strobe_side'
         /\ port.connected
<1>1. /\ IoIInv'
      /\ UNCHANGED <<frame, port, past, out, sending, sent_in>>
      /\ io'.probe_frame = frame
      /\ io'.data = port.controls
      /\ io'.was_plugged <=> port.connected /\ ~past.connected
      /\ IF IsNew THEN NewOne(port.controls.key, port.controls.pressed) ELSE NoEvent
  BY ProbeReads
<1>2. PICK s \in Sides \ {strobe_side} : port.controls = Shown(s, p, k)
  BY DEF Sent
<1>3. /\ port.controls.side = s /\ port.controls.key = k /\ port.controls.pressed = p
  BY <1>2 DEF Shown
<1>4. ~io'.was_plugged /\ port.connected
  BY <1>1 DEF Sent
<1>5. IsNew
  BY <1>1, <1>2, <1>3, <1>4 DEF IsNew, Strobe, Sides, NoSide
<1>6. NewOne(k, p)
  BY <1>1, <1>3, <1>5
<1>7. strobe_side' = port.controls.side
  BY <1>1, <1>6 DEF NewOne
<1> QED
  BY <1>1, <1>4, <1>6, <1>7

LEMMA InStepAfterNews ==
  ASSUME KeyIInv, IoIInv', KeysTyped', QueueSound',
         io'.probe_frame = frame', UNCHANGED port,
         port.connected, port.controls.side = strobe_side', ~io'.was_plugged,
         happened' = Nothing, PageInStep(port)'
  PROVE  KeyIInv'
  BY DEF KeyIInv, DriverInStep, InStep, SideInStep

(* A key.                                                                  *)
LEMMA KeyIsNotedOnce ==
  ASSUME KeyIInv, Probe, io.probe_frame # frame, KeySent
  PROVE  KeyIInv' /\ Abstract!Note
<1>1. PICK k \in Typed, p \in BOOLEAN :
        /\ Sent(p, k)
        /\ happened = Happening(k, p, FALSE)
        /\ sending = Nothing
        /\ NoPageWaits
  BY DEF KeySent
<1>2. /\ IoIInv' /\ io'.probe_frame = frame'
      /\ UNCHANGED <<frame, port, past, out, sending, sent_in>>
      /\ NewOne(k, p)
      /\ ~io'.was_plugged
      /\ port.controls.side = strobe_side'
      /\ port.connected
  BY <1>1, NewsArrives
<1>3. ~Awaited
  BY <1>1, KeyboardAssumption DEF Awaited, NoPageWaits, KeyIInv, KeysTyped, IoIInv, IoTypeOK
<1>4. k > 0 /\ k \notin {PageHigh, PageLow}
  BY KeyboardAssumption DEF PageHigh, PageLow
<1>5. PressOrRelease(k, p) /\ happened' = Nothing
  BY <1>2, <1>3, <1>4 DEF NewOne
<1> DEFINE e == NewEvent(k, Symbol(k, Shift(held'), caps_lock'), p, FALSE)
<1>6. /\ page' = NoPage /\ page_frame' = page_frame
      /\ held' = IF p THEN held \cup {k} ELSE held \ {k}
      /\ caps_lock' = IF k = CapsLock /\ p THEN ~caps_lock ELSE caps_lock
      /\ Enqueue(e)
  BY <1>5 DEF PressOrRelease
<1>7. KeysTyped'
  BY <1>2, <1>6 DEF KeyIInv, KeysTyped
<1>8. e \in Noted
  <2>1. Shift(held') \in BOOLEAN /\ caps_lock' \in BOOLEAN
    BY <1>7 DEF Shift, KeysTyped
  <2> QED
    BY <2>1, KeyIsNoted
<1> HIDE DEF e
<1>9. /\ IF Len(Waiting) < QueueSize
           THEN Waiting' = Append(Waiting, e) /\ dropped_events' = dropped_events
           ELSE Waiting' = Waiting /\ dropped_events' = dropped_events + 1
      /\ QueueSound'
  BY <1>2, <1>6, <1>8, EnqueueAppends DEF KeyIInv
<1>10. KeyIInv'
  <2>1. PageInStep(port)'
    BY <1>1, <1>2, <1>6 DEF PageInStep
  <2> QED
    BY <1>2, <1>5, <1>7, <1>9, <2>1, InStepAfterNews
<1>11. Abstract!Note
  <2>1. happened.key = k /\ happened.pressed = p /\ happened.text = FALSE
    BY <1>1 DEF Happening
  <2>2. happened \in Happenings
    BY <1>1 DEF Happenings, Happening
  <2>3. held' = Abstract!Held(happened)
    BY <1>6, <2>1 DEF Abstract!Held
  <2>4. caps_lock' = Abstract!Caps(happened)
    BY <1>6, <2>1 DEF Abstract!Caps
  <2>5. e = Abstract!AsEvent(happened)
    BY <2>1, <2>3, <2>4 DEF e, NewEvent, Abstract!AsEvent, Abstract!Shift, Shift
  <2> QED
    BY <1>2, <1>5, <1>9, <2>2, <2>3, <2>4, <2>5, NothingIsNoEvent DEF Abstract!Note
<1> QED
  BY <1>10, <1>11

(* The prefix of a character.                                              *)
LEMMA PrefixIsRemembered ==
  ASSUME KeyIInv, Probe, io.probe_frame # frame, PrefixSent
  PROVE  KeyIInv' /\ UNCHANGED Abstract!vars
<1>1. PICK c \in Characters :
        /\ Sent(FALSE, PageOf(c))
        /\ happened = Nothing
        /\ sending = c
        /\ sent_in = frame
        /\ NoPageWaits
  BY DEF PrefixSent
<1>2. /\ IoIInv' /\ io'.probe_frame = frame'
      /\ UNCHANGED <<frame, port, past, out, sending, sent_in>>
      /\ NewOne(PageOf(c), FALSE)
      /\ ~io'.was_plugged
      /\ port.controls.side = strobe_side'
      /\ port.connected
  BY <1>1, NewsArrives
<1>3. ~Awaited
  BY <1>1, KeyboardAssumption DEF Awaited, NoPageWaits, KeyIInv, KeysTyped, IoIInv, IoTypeOK
<1>4. PageOf(c) \in {PageHigh, PageLow}
  BY PayloadCompletes
<1>5. Prefix(PageOf(c)) /\ happened' = Nothing
  BY <1>2, <1>3, <1>4 DEF NewOne
<1>6. /\ page' = PageOf(c) /\ page_frame' = frame
      /\ UNCHANGED <<held, caps_lock>> /\ UNCHANGED queueVars
  BY <1>5 DEF Prefix
<1>7. QueueSound' /\ Waiting' = Waiting /\ dropped_events' = dropped_events
  BY <1>2, <1>6, QueueUnchanged DEF KeyIInv
<1>8. KeysTyped'
  <2>1. frame \in Int
    BY DEF KeyIInv, IoIInv, IoTypeOK
  <2> QED
    BY <1>2, <1>4, <1>6, <2>1 DEF KeyIInv, KeysTyped
<1>9. KeyIInv'
  <2>1. PageInStep(port)'
    BY <1>1, <1>2, <1>6, NothingIsNoEvent DEF PageInStep, PageOf
  <2> QED
    BY <1>2, <1>5, <1>7, <1>8, <2>1, InStepAfterNews
<1> QED
  BY <1>1, <1>2, <1>5, <1>6, <1>7, <1>9 DEF Abstract!vars

(* Its payload.                                                            *)
LEMMA CharacterIsNotedOnce ==
  ASSUME KeyIInv, Probe, io.probe_frame # frame, PayloadSent
  PROVE  KeyIInv' /\ Abstract!Note
<1>1. PICK c \in Characters :
        /\ Sent(FALSE, c % 128)
        /\ happened = Happening(c, TRUE, TRUE)
        /\ sending = Nothing
        /\ page = PageOf(c)
        /\ frame - page_frame <= PageTimeout
  BY DEF PayloadSent
<1>2. /\ IoIInv' /\ io'.probe_frame = frame'
      /\ UNCHANGED <<frame, port, past, out, sending, sent_in>>
      /\ NewOne(c % 128, FALSE)
      /\ ~io'.was_plugged
      /\ port.controls.side = strobe_side'
      /\ port.connected
  BY <1>1, NewsArrives
<1>3. Awaited
  BY <1>1, <1>2, PayloadCompletes DEF Awaited, NoPage, PageHigh, PageLow
<1>4. Payload(c % 128) /\ happened' = Nothing
  BY <1>2, <1>3 DEF NewOne
<1> DEFINE e == NewEvent(c, c, TRUE, TRUE)
<1>5. /\ page' = NoPage /\ UNCHANGED <<page_frame, held, caps_lock>>
      /\ Enqueue(e)
  <2>1. c = (IF page = PageHigh THEN (c % 128) + 128 ELSE c % 128) /\ c > 0
    BY <1>1, PayloadCompletes, KeyboardAssumption
  <2> QED
    BY <1>4, <2>1 DEF Payload
<1>6. KeysTyped'
  BY <1>2, <1>5 DEF KeyIInv, KeysTyped
<1>7. e \in Noted
  BY CharacterIsNoted
<1> HIDE DEF e
<1>8. /\ IF Len(Waiting) < QueueSize
           THEN Waiting' = Append(Waiting, e) /\ dropped_events' = dropped_events
           ELSE Waiting' = Waiting /\ dropped_events' = dropped_events + 1
      /\ QueueSound'
  BY <1>2, <1>5, <1>7, EnqueueAppends DEF KeyIInv
<1>9. KeyIInv'
  <2>1. PageInStep(port)'
    BY <1>1, <1>2, <1>5 DEF PageInStep
  <2> QED
    BY <1>2, <1>4, <1>6, <1>8, <2>1, InStepAfterNews
<1>10. Abstract!Note
  <2>1. happened.key = c /\ happened.pressed = TRUE /\ happened.text = TRUE
    BY <1>1 DEF Happening
  <2>2. happened \in Happenings
    BY <1>1 DEF Happenings, Happening
  <2>3. held' = Abstract!Held(happened) /\ caps_lock' = Abstract!Caps(happened)
    BY <1>5, <2>1 DEF Abstract!Held, Abstract!Caps
  <2>4. e = Abstract!AsEvent(happened)
    BY <2>1 DEF e, NewEvent, Abstract!AsEvent
  <2> QED
    BY <1>2, <1>4, <1>8, <2>2, <2>3, <2>4, NothingIsNoEvent DEF Abstract!Note
<1> QED
  BY <1>9, <1>10

LEMMA ProbeSound ==
  ASSUME KeyIInv, Probe
  PROVE  KeyIInv' /\ (Abstract!Note \/ UNCHANGED Abstract!vars)
<1>1. io.probe_frame # frame => Moved
  BY DEF KeyIInv, DriverInStep
<1> QED
  BY <1>1, QuietProbe, KeyIsNotedOnce, PrefixIsRemembered, CharacterIsNotedOnce DEF Moved

-----------------------------------------------------------------------------
(* The program takes events out of the queue.                              *)

(* The first of the events wanted, at their places in the queue: the same  *)
(* one comes out of the ring buffer and of the abstract queue.             *)
LEMMA FirstWanted ==
  ASSUME QueueSound, NEW at \in SUBSET (0 .. queue_count - 1),
         IF at = {} THEN Pop(queue_count) /\ out' = Nothing
         ELSE Pop(Min(at) + 1) /\ out' = slots[Slot(Min(at))],
         NEW places, places = {i \in 1 .. Len(Waiting) : i - 1 \in at}
  PROVE  /\ QueueSound'
         /\ IF places = {} THEN out' = Nothing /\ Waiting' = <<>>
            ELSE \E i \in places :
                   /\ \A j \in places : i <= j
                   /\ out' = Waiting[i]
                   /\ Waiting' = SubSeq(Waiting, i + 1, Len(Waiting))
<1>1. queue_count \in Nat
  BY KeyboardAssumption DEF QueueSound
<1>2. Waiting \in Seq(Noted) /\ Len(Waiting) = queue_count
  BY WaitingIsASequence
<1>3. CASE at = {}
  <2>1. places = {}
    BY <1>3
  <2>2. Pop(queue_count) /\ out' = Nothing /\ queue_count \in 0 .. queue_count
    BY <1>1, <1>3
  <2>3. Waiting' = SubSeq(Waiting, queue_count + 1, Len(Waiting)) /\ QueueSound'
    BY <2>2, PopSkips
  <2>4. Waiting' = <<>>
    <3>1. queue_count' = 0
      BY <2>2, <1>1 DEF Pop
    <3>2. Waiting' \in Seq(Noted) /\ Len(Waiting') = 0
      BY <2>3, <3>1, <1>1, <1>2
    <3> QED
      BY <3>2
  <2> QED
    BY <2>1, <2>2, <2>3, <2>4
<1>4. CASE at # {}
  <2> DEFINE m == Min(at)
  <2>1. m \in at /\ \A y \in at : m <= y
    <3>1. at \in SUBSET Nat
      BY <1>1
    <3> QED
      BY <3>1, <1>4, MinIsLeast
  <2>2. Pop(m + 1) /\ out' = slots[Slot(m)]
    BY <1>4
  <2> HIDE DEF m
  <2>3. m \in 0 .. queue_count - 1 /\ m + 1 \in 0 .. queue_count /\ m + 1 \in 1 .. queue_count
    BY <1>1, <2>1
  <2>4. Waiting' = SubSeq(Waiting, (m + 1) + 1, Len(Waiting))
    BY <2>2, <2>3, PopSkips
  <2>5. m + 1 \in places /\ \A j \in places : m + 1 <= j
    BY <1>1, <1>2, <2>1, <2>3
  <2>6. Waiting[m + 1] = slots[Slot(m)]
    <3>1. (m + 1) - 1 = m
      BY <2>3
    <3> QED
      BY <2>3, <3>1 DEF Waiting
  <2>7. slots[Slot(m)] \in Noted
    BY <2>3 DEF QueueSound
  <2>8. QueueSound'
    BY <2>2, <2>3, <2>7, PopSkips
  <2> QED
    BY <2>2, <2>4, <2>5, <2>6, <2>8
<1> QED
  BY <1>3, <1>4

LEMMA OnlyQueue ==
  ASSUME KeyIInv, QueueSound', UNCHANGED <<keyVars, deviceVars, ioVars>>
  PROVE  KeyIInv'
  BY DEF KeyIInv, keyVars, deviceVars, ioVars, IoIInv, IoTypeOK, ProbedOrPast, KeysTyped,
         DriverInStep, InStep, SideInStep, PageInStep, Moved, Still, KeySent, PrefixSent,
         PayloadSent, Unplugging, Plugging, Sent, NoPageWaits

LEMMA PlaceOfSlot ==
  ASSUME QueueSound, NEW i \in 1 .. Len(Waiting)
  PROVE  i - 1 \in 0 .. queue_count - 1 /\ Waiting[i] = slots[Slot(i - 1)]
<1>1. Len(Waiting) = queue_count /\ queue_count \in Nat
  BY WaitingIsASequence, KeyboardAssumption DEF QueueSound
<1> QED
  BY <1>1 DEF Waiting

LEMMA ReadSound ==
  ASSUME KeyIInv, Read
  PROVE  KeyIInv' /\ Abstract!Read
<1> DEFINE at == {i \in 0 .. queue_count - 1 : slots[Slot(i)].pressed}
           places == {i \in 1 .. Len(Waiting) : Waiting[i].pressed}
<1>1. IF at = {} THEN Pop(queue_count) /\ out' = Nothing
      ELSE Pop(Min(at) + 1) /\ out' = slots[Slot(Min(at))]
  BY DEF Read, Take
<1>2. QueueSound
  BY DEF KeyIInv
<1>3. places = {i \in 1 .. Len(Waiting) : i - 1 \in at}
  BY <1>2, PlaceOfSlot
<1>4. /\ QueueSound'
      /\ IF places = {} THEN out' = Nothing /\ Waiting' = <<>>
         ELSE \E i \in places :
                /\ \A j \in places : i <= j
                /\ out' = Waiting[i]
                /\ Waiting' = SubSeq(Waiting, i + 1, Len(Waiting))
  <2> HIDE DEF places
  <2>1. at \in SUBSET (0 .. queue_count - 1)
    OBVIOUS
  <2> HIDE DEF at
  <2> QED
    BY <1>1, <1>2, <1>3, <2>1, FirstWanted
<1>5. UNCHANGED <<dropped_events, keyVars, deviceVars, ioVars>>
  BY <1>1 DEF Pop
<1>6. KeyIInv'
  BY <1>4, <1>5, OnlyQueue
<1>7. Abstract!Read
  BY <1>4, <1>5 DEF Abstract!Read, Abstract!Take, keyVars, deviceVars
<1> QED
  BY <1>6, <1>7

LEMMA ReadEventSound ==
  ASSUME KeyIInv, ReadEvent
  PROVE  KeyIInv' /\ Abstract!ReadEvent
<1> DEFINE at == {i \in 0 .. queue_count - 1 : ~slots[Slot(i)].text}
           places == {i \in 1 .. Len(Waiting) : ~Waiting[i].text}
<1>1. IF at = {} THEN Pop(queue_count) /\ out' = Nothing
      ELSE Pop(Min(at) + 1) /\ out' = slots[Slot(Min(at))]
  BY DEF ReadEvent, Take
<1>2. QueueSound
  BY DEF KeyIInv
<1>3. places = {i \in 1 .. Len(Waiting) : i - 1 \in at}
  BY <1>2, PlaceOfSlot
<1>4. /\ QueueSound'
      /\ IF places = {} THEN out' = Nothing /\ Waiting' = <<>>
         ELSE \E i \in places :
                /\ \A j \in places : i <= j
                /\ out' = Waiting[i]
                /\ Waiting' = SubSeq(Waiting, i + 1, Len(Waiting))
  <2> HIDE DEF places
  <2>1. at \in SUBSET (0 .. queue_count - 1)
    OBVIOUS
  <2> HIDE DEF at
  <2> QED
    BY <1>1, <1>2, <1>3, <2>1, FirstWanted
<1>5. UNCHANGED <<dropped_events, keyVars, deviceVars, ioVars>>
  BY <1>1 DEF Pop
<1>6. KeyIInv'
  BY <1>4, <1>5, OnlyQueue
<1>7. Abstract!ReadEvent
  BY <1>4, <1>5 DEF Abstract!ReadEvent, Abstract!Take, keyVars, deviceVars
<1> QED
  BY <1>6, <1>7

LEMMA NextEventSound ==
  ASSUME KeyIInv, NextEvent
  PROVE  KeyIInv' /\ Abstract!NextEvent
<1> DEFINE at == {i \in 0 .. queue_count - 1 : TRUE}
           places == {i \in 1 .. Len(Waiting) : TRUE}
<1>1. IF at = {} THEN Pop(queue_count) /\ out' = Nothing
      ELSE Pop(Min(at) + 1) /\ out' = slots[Slot(Min(at))]
  BY DEF NextEvent, Take
<1>2. QueueSound
  BY DEF KeyIInv
<1>3. places = {i \in 1 .. Len(Waiting) : i - 1 \in at}
  BY <1>2, PlaceOfSlot
<1>4. /\ QueueSound'
      /\ IF places = {} THEN out' = Nothing /\ Waiting' = <<>>
         ELSE \E i \in places :
                /\ \A j \in places : i <= j
                /\ out' = Waiting[i]
                /\ Waiting' = SubSeq(Waiting, i + 1, Len(Waiting))
  <2> HIDE DEF places
  <2>1. at \in SUBSET (0 .. queue_count - 1)
    OBVIOUS
  <2> HIDE DEF at
  <2> QED
    BY <1>1, <1>2, <1>3, <2>1, FirstWanted
<1>5. UNCHANGED <<dropped_events, keyVars, deviceVars, ioVars>>
  BY <1>1 DEF Pop
<1>6. KeyIInv'
  BY <1>4, <1>5, OnlyQueue
<1>7. Abstract!NextEvent
  BY <1>4, <1>5 DEF Abstract!NextEvent, Abstract!Take, keyVars, deviceVars
<1> QED
  BY <1>6, <1>7

LEMMA FlushSound ==
  ASSUME KeyIInv, Flush
  PROVE  KeyIInv' /\ Abstract!Flush
<1>1. /\ queue_first' = 0 /\ queue_count' = 0
      /\ UNCHANGED <<slots, dropped_events, keyVars, deviceVars, ioVars, out>>
  BY DEF Flush
<1>2. QueueSound'
  BY <1>1, KeyboardAssumption DEF KeyIInv, QueueSound
<1>3. KeyIInv'
  BY <1>1, <1>2, OnlyQueue
<1>4. Waiting' = <<>>
  <2>1. Waiting' \in Seq(Noted) /\ Len(Waiting') = 0
    <3>1. Waiting' = [i \in 1 .. 0 |-> slots'[Slot(i - 1)']]
      BY <1>1 DEF Waiting
    <3> QED
      BY <3>1
  <2> QED
    BY <2>1
<1>5. Abstract!Flush
  BY <1>1, <1>4 DEF Abstract!Flush, keyVars, deviceVars
<1> QED
  BY <1>3, <1>5

-----------------------------------------------------------------------------
(* The invariant, and what follows from it.                                *)

LEMMA KeyInitially == Init => KeyIInv /\ Abstract!Init
<1> SUFFICES ASSUME Init PROVE KeyIInv /\ Abstract!Init
  OBVIOUS
<1>1. IoIInv
  BY IoInitially DEF Init
<1>2. /\ strobe_side = io.data.side
      /\ page = NoPage
      /\ page_frame = 0
      /\ held = {}
      /\ caps_lock = FALSE
      /\ slots = [i \in 0 .. QueueSize - 1 |-> Nothing]
      /\ queue_first = 0
      /\ queue_count = 0
      /\ dropped_events = 0
      /\ out = Nothing
      /\ sending = Nothing
      /\ sent_in = 0
      /\ happened = Nothing
  BY DEF Init
<1>3. QueueSound
  BY <1>2, KeyboardAssumption DEF QueueSound
<1>4. KeysTyped
  <2>1. caps_lock \in BOOLEAN
    BY <1>2
  <2>2. /\ page \in {NoPage, PageHigh, PageLow} /\ page_frame \in Int
        /\ sending \in Characters \cup {Nothing} /\ sent_in \in Int
    BY <1>2
  <2> QED
    BY <2>1, <2>2 DEF KeysTyped
<1>5. DriverInStep
  <2>1. io.probe_frame # frame /\ io.data = past.controls /\ past = port
    BY <1>1 DEF Init, IoInit, NewDevice
  <2>2. SideInStep(past)
    BY <1>2, <2>1 DEF SideInStep
  <2>3. Still
    BY <1>2, <2>1 DEF Still, PageInStep
  <2> QED
    BY <2>1, <2>2, <2>3 DEF DriverInStep, Moved
<1>6. Waiting = <<>>
  <2>1. Waiting \in Seq(Noted) /\ Len(Waiting) = 0
    BY <1>2, <1>3, WaitingIsASequence
  <2> QED
    BY <2>1
<1>7. Abstract!Init
  BY <1>2, <1>6 DEF Abstract!Init
<1> QED
  BY <1>1, <1>3, <1>4, <1>5, <1>7 DEF KeyIInv

LEMMA KeyStep ==
  ASSUME KeyIInv, [Next]_vars
  PROVE  KeyIInv' /\ [Abstract!Next]_(Abstract!vars)
<1>1. CASE Probe
  BY <1>1, ProbeSound DEF Abstract!Next
<1>2. CASE Read
  BY <1>2, ReadSound DEF Abstract!Next
<1>3. CASE ReadEvent
  BY <1>3, ReadEventSound DEF Abstract!Next
<1>4. CASE NextEvent
  BY <1>4, NextEventSound DEF Abstract!Next
<1>5. CASE Flush
  BY <1>5, FlushSound DEF Abstract!Next
<1>6. CASE Frames
  BY <1>6, FramesSound
<1>7. CASE Key
  BY <1>7, KeySound DEF Abstract!Next
<1>8. CASE StartCharacter
  BY <1>8, StartCharacterSound
<1>9. CASE FinishCharacter
  BY <1>9, FinishCharacterSound DEF Abstract!Next
<1>10. CASE Unplug
  BY <1>10, UnplugSound
<1>11. CASE Plug
  BY <1>11, PlugSound
<1>12. CASE UNCHANGED vars
  <2>1. UNCHANGED <<queueVars, out, keyVars, deviceVars, ioVars>>
    BY <1>12 DEF vars
  <2>2. Waiting' = Waiting /\ dropped_events' = dropped_events /\ QueueSound'
    BY <2>1, QueueUnchanged DEF KeyIInv
  <2> QED
    BY <2>1, <2>2, OnlyQueue DEF Abstract!vars, keyVars, deviceVars
<1> QED
  BY <1>1, <1>2, <1>3, <1>4, <1>5, <1>6, <1>7, <1>8, <1>9, <1>10, <1>11, <1>12 DEF Next

LEMMA DriverStaysInStep == Spec => []KeyIInv
<1>1. Init => KeyIInv
  BY KeyInitially
<1>2. KeyIInv /\ [Next]_vars => KeyIInv'
  BY KeyStep
<1> QED
  BY <1>1, <1>2, PTL DEF Spec

(* The two frames an IoDevice keeps are the one probed and the one before, *)
(* and a connection is reported in its frame only.                         *)
THEOREM TwoFramesShown == Spec => []ShowsTwoFrames
<1>1. KeyIInv => ShowsTwoFrames
  BY DEF KeyIInv, IoIInv, ProbedOrPast, ShowsTwoFrames
<1> QED
  BY <1>1, DriverStaysInStep, PTL

(* What the device sends is noted in the frame in which it is sent.        *)
THEOREM EventsNotedInTheirFrame == Spec => []NotedInItsFrame
<1>1. KeyIInv => NotedInItsFrame
  BY DEF KeyIInv, DriverInStep, InStep, NotedInItsFrame
<1> QED
  BY <1>1, DriverStaysInStep, PTL

(* glyph() of what read() returned is the character typed, or 0 for a key  *)
(* that types none.                                                        *)
THEOREM GlyphsDrawWhatWasTyped == Spec => []GlyphOfRead
<1>1. KeyIInv => GlyphOfRead
  <2> SUFFICES ASSUME KeyIInv, out # Nothing, out.pressed
               PROVE  KeyGlyph(ReadValue(out)) =
                        IF out.text \/ out.symbol \in 32 .. 126 THEN out.symbol ELSE 0
    BY DEF GlyphOfRead
  <2>1. /\ out.symbol \in 1 .. 255
        /\ out.text => out.symbol # 127
        /\ ~out.text => out.symbol <= 127
    BY DEF KeyIInv, QueueSound, Noted, Event
  <2>2. CASE out.text
    BY <2>1, <2>2 DEF ReadValue, KeyGlyph, Glyph
  <2>3. CASE ~out.text
    BY <2>1, <2>3 DEF ReadValue, KeyGlyph, Glyph
  <2> QED
    BY <2>2, <2>3
<1> QED
  BY <1>1, DriverStaysInStep, PTL

(* Every key and every character is noted once, in order, and handed out   *)
(* in that order.                                                          *)
THEOREM DriverImplementsKeyEvents == Spec => ImplementsKeyEvents
<1>1. Init => Abstract!Init
  BY KeyInitially
<1>2. KeyIInv /\ [Next]_vars => [Abstract!Next]_(Abstract!vars)
  BY KeyStep
<1> QED
  BY <1>1, <1>2, DriverStaysInStep, PTL DEF Spec, ImplementsKeyEvents, Abstract!Spec

(* A probe of a frame that was probed already does nothing.                *)
THEOREM ExtraProbesDoNothing == Spec => ExtraProbeHarmless
<1>1. KeyIInv /\ [Next]_vars => [~(Probe /\ io.probe_frame = frame)]_vars
  BY QuietProbe
<1> QED
  BY <1>1, DriverStaysInStep, PTL DEF Spec, ExtraProbeHarmless
=============================================================================
