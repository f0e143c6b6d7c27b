------------------------------ MODULE Devices -------------------------------
(***************************************************************************)
(* The device layer of a machine: VirtioBus and the console and RNG        *)
(* devices (crates/devices), virtio-net (crates/network), virtio-blk       *)
(* (crates/storage), the audio device (crates/audio) and the queue of      *)
(* input events (crates/input).                                            *)
(*                                                                         *)
(* The bus holds its lock during every operation, so an operation is a     *)
(* step.  Registers have names instead of offsets; "other" stands for      *)
(* every offset that a device only logs, ignores or, as the console does,  *)
(* hands on to its callback, and "rate" also for the channels of the audio *)
(* device.  Reads change nothing.                                          *)
(* On the input side any thread of the user interface injects and the      *)
(* device model consumes.                                                  *)
(*                                                                         *)
(* X_fault is X with a slip; no specification uses it.                     *)
(***************************************************************************)
EXTENDS Naturals, Sequences

CONSTANTS
  MAX_VIRTIO_DEVICES, AUDIO_BUF_SIZE, FLUSH_THRESHOLD,
  Capacity,      \* of the channel of input events
  Values,        \* what the guest writes into registers; 0 and Rate are new's
  Rate,
  Controls,      \* keys, mouse buttons, touch slots
  MaxSamples,    \* bound: samples written to one device
  MaxResets      \* bound

Kinds == {"serial", "rng", "net", "blk", "audio"}
Registers == {"status", "data", "rate", "other"}

ASSUME DevicesAssumption ==
  /\ MAX_VIRTIO_DEVICES \in Nat /\ Capacity \in Nat \ {0}
  /\ AUDIO_BUF_SIZE \in Nat /\ FLUSH_THRESHOLD \in 1..AUDIO_BUF_SIZE
  /\ {0, Rate} \subseteq Values
  /\ MaxSamples \in Nat /\ MaxResets \in Nat

VARIABLES
  devices,   \* the bus; the position is the address
  resets,    \* reset_all calls so far
  queue,     \* the channel of InputManager
  pressed,   \* the controls the user holds down
  guest,     \* the controls the guest takes to be held down
  lost       \* history: controls whose last press or release was dropped

input == <<queue, pressed, guest, lost>>
vars == <<devices, resets, input>>

-----------------------------------------------------------------------------
(***************************************************************************)
(* Devices.                                                                *)
(***************************************************************************)

\* What the constructors make.  Samples are marked with the number of resets
\* before them; written, played and cleared count them, for the properties.
New(kind) == [kind |-> kind, status |-> 0, buffer |-> <<>>, rate |-> Rate,
              written |-> 0, played |-> 0, cleared |-> 0, stale |-> FALSE]

\* The threshold is above the size of the buffer.
flush_buffer_fault(d) ==
  IF Len(d.buffer) > AUDIO_BUF_SIZE
    THEN [d EXCEPT !.buffer = <<>>, !.played = @ + Len(d.buffer)] ELSE d

flush_buffer(d) ==
  IF Len(d.buffer) >= FLUSH_THRESHOLD
    THEN [d EXCEPT !.buffer = <<>>, !.played = @ + Len(d.buffer),
                   !.stale = @ \/ \E i \in 1..Len(d.buffer) : d.buffer[i] # resets]
    ELSE d

\* mmio_write of REG_DATA: a sample that finds the buffer full is dropped.
WriteData(d) ==
  flush_buffer([d EXCEPT !.written = @ + 1,
                         !.buffer = IF Len(@) < AUDIO_BUF_SIZE
                                      THEN Append(@, resets) ELSE @])

\* mmio_write of the console, the RNG, virtio-net and virtio-blk, which keep
\* nothing but their status.
StatusWrite(d, reg, v) == IF reg = "status" THEN [d EXCEPT !.status = v] ELSE d

\* mmio_write of the audio device.
AudioWrite(d, reg, v) ==
  CASE reg = "status" -> [d EXCEPT !.status = v]
    [] reg = "rate"   -> [d EXCEPT !.rate = v]
    [] reg = "data"   -> WriteData(d)
    [] reg = "other"  -> d

mmio_write(d, reg, v) ==
  IF d.kind = "audio" THEN AudioWrite(d, reg, v) ELSE StatusWrite(d, reg, v)

\* Only the registers are reset.
AudioReset_fault(d) == [d EXCEPT !.status = 0, !.rate = Rate]

AudioReset(d) == [d EXCEPT !.status = 0, !.rate = Rate, !.buffer = <<>>,
                           !.cleared = @ + Len(d.buffer)]
reset(d) == IF d.kind = "audio" THEN AudioReset(d) ELSE [d EXCEPT !.status = 0]

-----------------------------------------------------------------------------
(***************************************************************************)
(* VirtioBus.                                                              *)
(***************************************************************************)

Init ==
  /\ devices = <<>> /\ resets = 0
  /\ queue = <<>> /\ pressed = {} /\ guest = {} /\ lost = {}

\* A device beyond the last region is refused.
add_device(kind) ==
  /\ Len(devices) < MAX_VIRTIO_DEVICES
  /\ devices' = Append(devices, New(kind))
  /\ UNCHANGED <<resets, input>>

\* An address without a device is ignored.
write(i, reg, v) ==
  /\ i \in 1..Len(devices)
  /\ devices[i].written < MaxSamples
  /\ devices' = [devices EXCEPT ![i] = mmio_write(devices[i], reg, v)]
  /\ UNCHANGED <<resets, input>>

\* From another thread than the vCPU's, between any two accesses.
reset_all ==
  /\ resets < MaxResets /\ resets' = resets + 1
  /\ devices' = [i \in 1..Len(devices) |-> reset(devices[i])]
  /\ UNCHANGED input

-----------------------------------------------------------------------------
(***************************************************************************)
(* InputManager.                                                           *)
(***************************************************************************)

\* The event takes the place of the oldest one when the channel is full.
try_send_fault(event) ==
  queue' = Append(IF Len(queue) < Capacity THEN queue ELSE Tail(queue), event)

\* Dropped without notice when the channel is full.
try_send(event) ==
  queue' = IF Len(queue) < Capacity THEN Append(queue, event) ELSE queue

Lost(c) == IF Len(queue) < Capacity THEN lost \ {c} ELSE lost \cup {c}

\* inject_key_down, inject_mouse_down, inject_touch_start.
Press(c) ==
  /\ c \notin pressed /\ pressed' = pressed \cup {c}
  /\ try_send([kind |-> "down", control |-> c])
  /\ lost' = Lost(c)
  /\ UNCHANGED <<devices, resets, guest>>

\* inject_key_up, inject_mouse_up, inject_touch_end.
Release(c) ==
  /\ c \in pressed /\ pressed' = pressed \ {c}
  /\ try_send([kind |-> "up", control |-> c])
  /\ lost' = Lost(c)
  /\ UNCHANGED <<devices, resets, guest>>

\* inject_mouse_move, inject_touch_move, inject_android_button.
Move(c) ==
  /\ try_send([kind |-> "move", control |-> c])
  /\ UNCHANGED <<devices, resets, pressed, guest, lost>>

\* try_recv, or recv_timeout in time; the guest is told.
Receive ==
  /\ queue # <<>> /\ queue' = Tail(queue)
  /\ LET e == Head(queue) IN
     guest' = CASE e.kind = "down" -> guest \cup {e.control}
                [] e.kind = "up"   -> guest \ {e.control}
                [] e.kind = "move" -> guest
  /\ UNCHANGED <<devices, resets, pressed, lost>>

Next ==
  \/ \E k \in Kinds : add_device(k)
  \/ \E i \in 1..MAX_VIRTIO_DEVICES, reg \in Registers, v \in Values : write(i, reg, v)
  \/ reset_all
  \/ \E c \in Controls : Press(c) \/ Release(c) \/ Move(c)
  \/ Receive

Spec == Init /\ [][Next]_vars

-----------------------------------------------------------------------------
(***************************************************************************)
(* Properties.                                                             *)
(***************************************************************************)

AnyDevice == [kind : Kinds, status : Values, buffer : Seq(0..MaxResets),
              rate : Values, written : Nat, played : Nat, cleared : Nat,
              stale : BOOLEAN]
Events == [kind : {"down", "up", "move"}, control : Controls]

TypeOK ==
  /\ devices \in Seq(AnyDevice)
  /\ resets \in 0..MaxResets
  /\ queue \in Seq(Events)
  /\ pressed \subseteq Controls /\ guest \subseteq Controls /\ lost \subseteq Controls

\* Every sample the guest writes is played, waits in the buffer, or was cleared
\* by a reset: the buffer is flushed before the test in mmio_write can drop one.
SamplesAccounted ==
  \A i \in 1..Len(devices) :
    devices[i].kind = "audio" =>
      devices[i].written = devices[i].played + devices[i].cleared + Len(devices[i].buffer)

\* No sample from before a reset is played after it.
NoStaleAudio == \A i \in 1..Len(devices) : ~devices[i].stale

\* When the queue has been consumed, the guest and the user agree on every key,
\* button and finger, unless the last press or release of it found the queue
\* full: a key is not stuck for any other reason.
StuckOnlyAfterFull ==
  queue = <<>> => \A c \in Controls \ lost : c \in guest <=> c \in pressed
=============================================================================
