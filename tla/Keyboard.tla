------------------------------ MODULE Keyboard ------------------------------
(***************************************************************************)
(* v32::Keyboard (v32/keyboard.hpp) and the v32kbd device it decodes.  The *)
(* device shows its last event until the next one: a strobe side that      *)
(* alternates, press or release, and a key code.  A character that is no   *)
(* key takes two events, a codepage prefix and a payload.                  *)
(***************************************************************************)
EXTENDS V32Io, FiniteSetsExt

CONSTANTS
  Typed,        \* the keys the player presses and releases
  Characters,   \* the characters the device can send
  QueueSize,    \* KeyboardQueueSize
  PageTimeout,  \* KeyboardPageTimeout: how long a prefix waits
  Nothing       \* no event, no character

ASSUME KeyboardAssumption ==
  /\ QueueSize \in Nat \ {0}
  /\ PageTimeout \in Nat
  /\ Typed \subseteq 1 .. 127 /\ Typed \cap {30, 31} = {}
  /\ Characters \subseteq 1 .. 255 \ {127}  \* the BIOS font has no 127

VARIABLES
  strobe_side,       \* the last strobe side seen
  page,              \* the prefix waiting for its payload, or NoPage
  page_frame,        \* the frame in which it came
  held,              \* the keys held
  caps_lock,
  slots,             \* the ring buffer: queue_key, queue_symbol, ...
  queue_first,       \* the index of the oldest event
  queue_count,       \* the events waiting
  dropped_events,
  out,               \* what the last call that takes an event handed out
  sending,           \* the device: the character whose prefix it has sent
  sent_in,           \* the device: the frame of that prefix
  happened           \* the device: what the program has not been told yet

queueVars == <<slots, queue_first, queue_count, dropped_events>>
keyVars == <<strobe_side, page, page_frame, held, caps_lock>>
deviceVars == <<sending, sent_in, happened>>
vars == <<ioVars, queueVars, keyVars, deviceVars, out>>

CapsLock == 5
LShift == 6
RShift == 7
PageHigh == 30
PageLow == 31
Glyph == 256
NoPage == 0
NoSide == 0
Sides == {1, 2}

(* What one event of the device is to the port.                            *)
Shown(s, p, k) == [side |-> s, pressed |-> p, key |-> k]

Happening(k, p, t) == [key |-> k, pressed |-> p, text |-> t]

Happenings ==
  [key : Typed, pressed : BOOLEAN, text : {FALSE}]
    \cup [key : Characters, pressed : {TRUE}, text : {TRUE}]

Event == [key : 1 .. 255, symbol : 1 .. 255, pressed : BOOLEAN, text : BOOLEAN]

(* What the port of a keyboard shows: no event yet, a key, one half of a   *)
(* character.                                                              *)
ASSUME DeviceAssumption ==
  /\ Released = Shown(NoSide, FALSE, 0)
  /\ [side : Sides, pressed : BOOLEAN, key : Typed] \subseteq Controls
  /\ [side : Sides, pressed : {FALSE},
       key : {PageHigh, PageLow} \cup {c % 128 : c \in Characters}] \subseteq Controls
  /\ Nothing \notin Happenings \cup Event \cup Characters

-----------------------------------------------------------------------------
(* The driver.                                                             *)

Base == <<49, 50, 51, 52, 53, 54, 55, 56, 57, 48, 45, 61, 91, 93, 92, 59, 39, 44, 46, 47, 96>>
Over == <<33, 64, 35, 36, 37, 94, 38, 42, 40, 41, 95, 43, 123, 125, 124, 58, 34, 60, 62, 63, 126>>

(* symbol(): the US layout.                                                *)
Symbol(key, shift, caps) ==
  IF key \in 97 .. 122 THEN IF shift # caps THEN key - 32 ELSE key
  ELSE IF shift /\ \E i \in DOMAIN Base : Base[i] = key
    THEN Over[CHOOSE i \in DOMAIN Base : Base[i] = key]
    ELSE key

Shift(keys) == {LShift, RShift} \cap keys # {}

Slot(i) == (queue_first + i) % QueueSize

(* enqueue(): an event nobody has room for is counted.                     *)
Enqueue(e) ==
  IF queue_count < QueueSize
    THEN /\ slots' = [slots EXCEPT ![Slot(queue_count)] = e]
         /\ queue_count' = queue_count + 1
         /\ UNCHANGED <<queue_first, dropped_events>>
    ELSE /\ dropped_events' = dropped_events + 1
         /\ UNCHANGED <<slots, queue_first, queue_count>>

NewEvent(k, s, p, t) == [key |-> k, symbol |-> s, pressed |-> p, text |-> t]

(* A payload completes the character that its prefix announced.            *)
Payload(key) ==
  LET character == IF page = PageHigh THEN key + 128 ELSE key
  IN /\ page' = NoPage
     /\ IF character > 0 THEN Enqueue(NewEvent(character, character, TRUE, TRUE))
                         ELSE UNCHANGED queueVars
     /\ UNCHANGED <<page_frame, held, caps_lock>>

Prefix(key) ==
  /\ page' = key
  /\ page_frame' = frame
  /\ UNCHANGED <<queueVars, held, caps_lock>>

(* Mutant: an event that finds the queue full is dropped whole.            *)
PressOrRelease_QueuedOnly(key, pressed) ==
  /\ page' = NoPage
  /\ IF queue_count < QueueSize
       THEN /\ held' = IF pressed THEN held \cup {key} ELSE held \ {key}
            /\ caps_lock' = IF key = CapsLock /\ pressed THEN ~caps_lock ELSE caps_lock
       ELSE UNCHANGED <<held, caps_lock>>
  /\ Enqueue(NewEvent(key, Symbol(key, Shift(held'), caps_lock'), pressed, FALSE))
  /\ UNCHANGED page_frame

(* A key: held and caps lock follow it before it is queued.                *)
PressOrRelease(key, pressed) ==
  /\ page' = NoPage
  /\ held' = IF pressed THEN held \cup {key} ELSE held \ {key}
  /\ caps_lock' = IF key = CapsLock /\ pressed THEN ~caps_lock ELSE caps_lock
  /\ Enqueue(NewEvent(key, Symbol(key, Shift(held'), caps_lock'), pressed, FALSE))
  /\ UNCHANGED page_frame

(* Mutant: the strobe of before the reconnection is kept.                  *)
Strobe_Kept == strobe_side

(* A gamepad that was just connected starts the strobe over.               *)
Strobe == IF io'.was_plugged THEN NoSide ELSE strobe_side

(* Mutant: whatever shows a strobe is an event.                            *)
IsNew_AnySide == io'.data.side # NoSide

IsNew == io'.data.side \notin {NoSide, Strobe}

(* A prefix is waiting, over the same connection and not for too long.     *)
Awaited == page # NoPage /\ ~io'.was_plugged /\ frame - page_frame <= PageTimeout

NoEvent ==
  /\ strobe_side' = Strobe
  /\ page' = IF io'.was_plugged THEN NoPage ELSE page
  /\ UNCHANGED <<page_frame, held, caps_lock, queueVars, happened>>

NewOne(key, pressed) ==
  /\ strobe_side' = io'.data.side
  /\ happened' = Nothing
  /\ IF Awaited THEN Payload(key)
     ELSE IF key \in {PageHigh, PageLow} THEN Prefix(key)
     ELSE IF key > 0 THEN PressOrRelease(key, pressed)
     ELSE page' = NoPage /\ UNCHANGED <<page_frame, held, caps_lock, queueVars>>

(* probe()                                                                 *)
Probe ==
  /\ ProbeIo
  /\ IF IsNew THEN NewOne(io'.data.key, io'.data.pressed) ELSE NoEvent
  /\ UNCHANGED <<out, sending, sent_in>>

(* pop_event(), n times.                                                   *)
Pop(n) ==
  /\ queue_first' = (queue_first + n) % QueueSize
  /\ queue_count' = queue_count - n
  /\ UNCHANGED <<slots, dropped_events, keyVars, deviceVars, ioVars>>

(* The first of the waiting events that is wanted, and the calls that skip *)
(* the others: read() wants a press, read_event() a key.                   *)
Take(wanted(_)) ==
  LET at == {i \in 0 .. queue_count - 1 : wanted(slots[Slot(i)])}
  IN IF at = {} THEN Pop(queue_count) /\ out' = Nothing
     ELSE Pop(Min(at) + 1) /\ out' = slots[Slot(Min(at))]

Read == Take(LAMBDA e : e.pressed)

(* Mutant: a character below 32 is handed out as it is.                    *)
ReadValue_NoGlyph(e) == e.symbol

(* The value read() returns for the press it takes.                        *)
ReadValue(e) == IF e.text /\ e.symbol < 32 THEN e.symbol + Glyph ELSE e.symbol

(* key_glyph(): what to draw for such a value, or 0.                       *)
KeyGlyph(value) ==
  IF value \in 32 .. 126 \cup 128 .. 255 THEN value
  ELSE IF value \in Glyph + 1 .. Glyph + 31 THEN value - Glyph ELSE 0

ReadEvent == Take(LAMBDA e : ~e.text)

NextEvent == Take(LAMBDA e : TRUE)

Flush ==
  /\ queue_first' = 0
  /\ queue_count' = 0
  /\ UNCHANGED <<slots, dropped_events, keyVars, deviceVars, ioVars, out>>

-----------------------------------------------------------------------------
(* The device and the player.                                              *)

(* The device alternates the strobe; after a reconnection it starts from   *)
(* the side it happens to be at.                                           *)
NextSide(s) == IF port.controls.side = NoSide THEN s \in Sides ELSE s \in Sides \ {port.controls.side}

(* A character waits for its payload; the device gives one up only after   *)
(* the driver has.                                                         *)
Owes == sending # Nothing /\ frame + 1 - sent_in <= PageTimeout

Ends(p) == EndFrame(p) /\ UNCHANGED <<queueVars, keyVars, out>>

Frames == Ends(port) /\ UNCHANGED deviceVars

Key ==
  /\ ~Owes
  /\ port.connected
  /\ \E k \in Typed, p \in BOOLEAN, s \in Sides :
        /\ NextSide(s)
        /\ Ends([port EXCEPT !.controls = Shown(s, p, k)])
        /\ happened' = Happening(k, p, FALSE)
  /\ sending' = Nothing
  /\ UNCHANGED sent_in

StartCharacter ==
  /\ ~Owes
  /\ port.connected
  /\ \E c \in Characters, s \in Sides :
        /\ NextSide(s)
        /\ Ends([port EXCEPT !.controls = Shown(s, FALSE, IF c > 127 THEN PageHigh ELSE PageLow)])
        /\ sending' = c
  /\ sent_in' = frame + 1
  /\ UNCHANGED happened

FinishCharacter ==
  /\ Owes
  /\ \E s \in Sides :
        /\ NextSide(s)
        /\ Ends([port EXCEPT !.controls = Shown(s, FALSE, sending % 128)])
  /\ happened' = Happening(sending, TRUE, TRUE)
  /\ sending' = Nothing
  /\ UNCHANGED sent_in

Unplug ==
  /\ port.connected
  /\ \E p \in Unplugged : Ends(p)
  /\ sending' = Nothing
  /\ UNCHANGED <<sent_in, happened>>

Plug ==
  /\ ~port.connected
  /\ Ends(Plugged)
  /\ UNCHANGED deviceVars

-----------------------------------------------------------------------------
(* Keyboard(): an event from before the program started is not a new one.  *)
Init ==
  /\ IoInit
  /\ strobe_side = io.data.side
  /\ page = NoPage
  /\ page_frame = 0
  /\ held = {}
  /\ caps_lock = FALSE
  /\ slots = [i \in 0 .. QueueSize - 1 |-> Nothing]
  /\ queue_first = 0
  /\ queue_count = 0
  /\ dropped_events = 0
  /\ out = Nothing
  /\ sending = Nothing
  /\ sent_in = 0
  /\ happened = Nothing

Next ==
  \/ Probe \/ Read \/ ReadEvent \/ NextEvent \/ Flush
  \/ Frames \/ Key \/ StartCharacter \/ FinishCharacter \/ Unplug \/ Plug

Spec == Init /\ [][Next]_vars

-----------------------------------------------------------------------------
Waiting == [i \in 1 .. queue_count |-> slots[Slot(i - 1)]]

Abstract == INSTANCE KeyEvents
  WITH Limit <- QueueSize, Shifts <- {LShift, RShift}, waiting <- Waiting,
       lost <- dropped_events, down <- held, caps <- caps_lock

(* Every key event and every character the device sends is noted exactly   *)
(* once and handed out in order, through strobes, prefixes, timeouts,      *)
(* reconnections and a full queue (KeyEvents).                             *)
ImplementsKeyEvents == Abstract!Spec

(* A probe of a frame that was probed already changes nothing, also on the *)
(* frame of a reconnection (v32io.hpp's RULE: "they do nothing").          *)
ExtraProbeHarmless == [][~(Probe /\ io.probe_frame = frame)]_vars

(* Nothing the device has sent is left unnoticed when a frame ends.        *)
NotedInItsFrame == io.probe_frame = frame => happened = Nothing

(* The value read() returns tells what to draw: a key code and a character *)
(* with the same code stay apart ("glyph() turns any value read() returned *)
(* into the code to draw").                                                *)
GlyphOfRead ==
  out # Nothing /\ out.pressed =>
    KeyGlyph(ReadValue(out)) =
      IF out.text \/ out.symbol \in 32 .. 126 THEN out.symbol ELSE 0
=============================================================================
