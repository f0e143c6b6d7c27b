---------------------------- MODULE DevicesProof ----------------------------
(***************************************************************************)
(* SamplesAccounted, NoStaleAudio and StuckOnlyAfterFull of Devices, for   *)
(* every size of bus, buffer and channel and every set of controls.        *)
(*                                                                         *)
(* Sound says of a device what an operation needs of it: its buffer is     *)
(* below the threshold, because mmio_write flushes before it returns, and  *)
(* holds nothing from before the last reset.  InputInv says which event of *)
(* a control matters: the last press or release of it in the channel       *)
(* agrees with the user, and if there is none the guest does.              *)
(***************************************************************************)
EXTENDS Devices, SequenceTheorems, TLAPS

\* A device after r resets.
Sound(d, r) ==
  /\ d \in AnyDevice /\ ~d.stale
  /\ Len(d.buffer) < FLUSH_THRESHOLD
  /\ \A i \in 1..Len(d.buffer) : d.buffer[i] = r
  /\ d.kind # "audio" => d.buffer = <<>>
  /\ d.written = d.played + d.cleared + Len(d.buffer)

BusInv ==
  /\ devices \in Seq(AnyDevice) /\ resets \in 0..MaxResets
  /\ \A i \in 1..Len(devices) : Sound(devices[i], resets)

\* The places in the channel at which control c goes down or up.
Changes(c) ==
  {i \in 1..Len(queue) : queue[i].control = c /\ queue[i].kind \in {"down", "up"}}

InputInv ==
  /\ queue \in Seq(Events)
  /\ pressed \subseteq Controls /\ guest \subseteq Controls /\ lost \subseteq Controls
  /\ \A c \in Controls \ lost :
       /\ Changes(c) = {} => (c \in guest <=> c \in pressed)
       /\ \A i \in Changes(c) :
            (\A j \in Changes(c) : j <= i) => (queue[i].kind = "down" <=> c \in pressed)

DevicesInv == BusInv /\ InputInv

-----------------------------------------------------------------------------
\* What the constructors make is sound.
LEMMA NewSound ==
  ASSUME NEW k \in Kinds, NEW r \in 0..MaxResets
  PROVE  Sound(New(k), r)
<1>1. New(k) \in AnyDevice
  BY DevicesAssumption, EmptySeq DEF New, AnyDevice
<1>2. /\ New(k).buffer = <<>> /\ ~New(k).stale
      /\ New(k).written = 0 /\ New(k).played = 0 /\ New(k).cleared = 0
  BY DEF New
<1>3. Len(New(k).buffer) = 0
  BY <1>2
<1> QED BY <1>1, <1>2, <1>3, DevicesAssumption DEF Sound

\* A register without a side effect.
LEMMA RegisterSound ==
  ASSUME NEW r, NEW d, Sound(d, r), NEW v \in Values
  PROVE  Sound([d EXCEPT !.status = v], r) /\ Sound([d EXCEPT !.rate = v], r)
<1>1. d \in AnyDevice
  BY DEF Sound
<1>2. /\ [d EXCEPT !.status = v] \in AnyDevice /\ [d EXCEPT !.rate = v] \in AnyDevice
  BY <1>1 DEF AnyDevice
<1>3. ASSUME NEW e \in {[d EXCEPT !.status = v], [d EXCEPT !.rate = v]}
      PROVE  /\ e.buffer = d.buffer /\ e.stale = d.stale /\ e.kind = d.kind
             /\ e.written = d.written /\ e.played = d.played /\ e.cleared = d.cleared
  BY <1>1, <1>3 DEF AnyDevice
<1> QED BY <1>2, <1>3 DEF Sound

\* A sample always finds room, and is played or waits afterwards.
LEMMA WriteDataSound ==
  ASSUME resets \in 0..MaxResets, NEW d, Sound(d, resets), d.kind = "audio"
  PROVE  Sound(WriteData(d), resets)
<1>1. /\ d \in AnyDevice /\ d.buffer \in Seq(0..MaxResets) /\ Len(d.buffer) \in Nat
      /\ d.written \in Nat /\ d.played \in Nat /\ d.cleared \in Nat
      /\ Len(d.buffer) < FLUSH_THRESHOLD /\ Len(d.buffer) < AUDIO_BUF_SIZE
  <2>1. d \in AnyDevice /\ Len(d.buffer) < FLUSH_THRESHOLD
    BY DEF Sound
  <2>2. d.buffer \in Seq(0..MaxResets)
    BY <2>1 DEF AnyDevice
  <2> QED BY <2>1, <2>2, LenProperties, DevicesAssumption DEF AnyDevice
<1>2. PICK b \in Seq(0..MaxResets) :
        /\ b = Append(d.buffer, resets) /\ Len(b) = Len(d.buffer) + 1
        /\ \A i \in 1..Len(b) : b[i] = resets
  <2> DEFINE a == Append(d.buffer, resets)
  <2>1. /\ a \in Seq(0..MaxResets) /\ Len(a) = Len(d.buffer) + 1
        /\ \A i \in 1..Len(d.buffer) : a[i] = d.buffer[i]
        /\ a[Len(d.buffer) + 1] = resets
    BY <1>1, AppendProperties
  <2>2. \A i \in 1..Len(a) : a[i] = resets
    BY <1>1, <2>1 DEF Sound
  <2> QED BY <2>1, <2>2
<1>3. PICK w \in Nat : w = d.written + 1
  BY <1>1
<1>4. PICK e : e = [d EXCEPT !.written = w, !.buffer = b]
  OBVIOUS
<1>5. /\ e \in AnyDevice /\ e.buffer = b /\ e.kind = "audio" /\ ~e.stale
      /\ e.written = w /\ e.played = d.played /\ e.cleared = d.cleared
  <2>1. e \in AnyDevice
    BY <1>1, <1>4 DEF AnyDevice
  <2>2. /\ e.buffer = b /\ e.kind = d.kind /\ e.stale = d.stale
        /\ e.written = w /\ e.played = d.played /\ e.cleared = d.cleared
    BY <1>1, <1>4 DEF AnyDevice
  <2> QED BY <2>1, <2>2 DEF Sound
<1>6. WriteData(d) = flush_buffer(e)
  BY <1>1, <1>2, <1>3, <1>4 DEF WriteData
<1>7. CASE Len(b) < FLUSH_THRESHOLD
  <2>1. flush_buffer(e) = e
    BY <1>1, <1>2, <1>5, <1>7, DevicesAssumption DEF flush_buffer
  <2>2. e.written = e.played + e.cleared + Len(e.buffer)
    BY <1>1, <1>2, <1>3, <1>5 DEF Sound
  <2> QED BY <1>2, <1>5, <1>6, <1>7, <2>1, <2>2 DEF Sound
<1>8. CASE Len(b) >= FLUSH_THRESHOLD
  <2>1. PICK p \in Nat : p = e.played + Len(b)
    BY <1>1, <1>2, <1>5
  <2>2. PICK f : f = [e EXCEPT !.buffer = <<>>, !.played = p, !.stale = FALSE]
    OBVIOUS
  <2>3. (e.stale \/ \E i \in 1..Len(b) : b[i] # resets) = FALSE
    BY <1>2, <1>5
  <2>4. flush_buffer(e) = f
    BY <1>5, <1>8, <2>1, <2>2, <2>3 DEF flush_buffer
  <2>5. /\ f \in AnyDevice /\ f.buffer = <<>> /\ f.played = p /\ f.stale = FALSE
        /\ f.written = e.written /\ f.cleared = e.cleared
    <3>1. <<>> \in Seq(0..MaxResets)
      BY EmptySeq
    <3>2. f \in AnyDevice
      BY <1>5, <2>2, <3>1 DEF AnyDevice
    <3> QED BY <1>5, <2>2, <3>2 DEF AnyDevice
  <2>6. Len(f.buffer) = 0
    BY <2>5
  <2>7. d.written = d.played + d.cleared + Len(d.buffer)
    BY DEF Sound
  <2>8. f.written = w /\ f.played = p /\ f.cleared = d.cleared
    BY <1>5, <2>5
  <2>9. p = d.played + Len(b)
    BY <1>5, <2>1
  <2>10. PICK x \in Nat, y \in Nat, z \in Nat, n \in Nat :
           x = d.written /\ y = d.played /\ z = d.cleared /\ n = Len(d.buffer)
    BY <1>1
  <2>11. w = x + 1 /\ p = y + (n + 1) /\ x = y + z + n
    BY <1>2, <1>3, <2>7, <2>9, <2>10
  <2>12. w = p + z + 0
    BY <2>11
  <2>13. f.written = f.played + f.cleared + Len(f.buffer)
    BY <2>6, <2>8, <2>10, <2>12
  <2> QED BY <1>6, <2>4, <2>5, <2>6, <2>13, DevicesAssumption DEF Sound
<1> QED BY <1>1, <1>2, <1>7, <1>8, DevicesAssumption

\* A reset leaves nothing in the buffer, whatever the number of resets.
LEMMA ResetSound ==
  ASSUME NEW r, NEW s, NEW d, Sound(d, r)
  PROVE  Sound(reset(d), s)
<1>1. /\ d \in AnyDevice /\ d.buffer \in Seq(0..MaxResets) /\ Len(d.buffer) \in Nat
      /\ d.written \in Nat /\ d.played \in Nat /\ d.cleared \in Nat
  <2>1. d \in AnyDevice
    BY DEF Sound
  <2>2. d.buffer \in Seq(0..MaxResets)
    BY <2>1 DEF AnyDevice
  <2> QED BY <2>1, <2>2, LenProperties DEF AnyDevice
<1>2. CASE d.kind = "audio"
  <2>1. PICK n \in Nat : n = d.cleared + Len(d.buffer)
    BY <1>1
  <2>2. PICK e : e = [d EXCEPT !.status = 0, !.rate = Rate, !.buffer = <<>>, !.cleared = n]
    OBVIOUS
  <2>3. reset(d) = e
    BY <1>2, <2>1, <2>2 DEF reset, AudioReset
  <2>4. /\ e \in AnyDevice /\ e.buffer = <<>> /\ e.stale = d.stale /\ e.cleared = n
        /\ e.written = d.written /\ e.played = d.played
    <3>1. <<>> \in Seq(0..MaxResets)
      BY EmptySeq
    <3>2. e \in AnyDevice
      BY <1>1, <2>2, <3>1, DevicesAssumption DEF AnyDevice
    <3> QED BY <1>1, <2>2, <3>2 DEF AnyDevice
  <2>5. Len(e.buffer) = 0
    BY <2>4
  <2> QED BY <1>1, <2>1, <2>3, <2>4, <2>5, DevicesAssumption DEF Sound
<1>3. CASE d.kind # "audio"
  <2> DEFINE e == [d EXCEPT !.status = 0]
  <2>1. reset(d) = e
    BY <1>3 DEF reset
  <2>2. Sound(e, r)
    BY RegisterSound, DevicesAssumption
  <2>3. e.kind = d.kind
    BY <1>1 DEF AnyDevice
  <2>4. e.buffer = <<>> /\ Len(e.buffer) = 0
    BY <1>3, <2>2, <2>3 DEF Sound
  <2> HIDE DEF e
  <2> QED BY <2>1, <2>2, <2>4 DEF Sound
<1> QED BY <1>2, <1>3

\* No register write makes a sound device unsound.
LEMMA WriteSound ==
  ASSUME resets \in 0..MaxResets, NEW d, Sound(d, resets), NEW reg \in Registers,
         NEW v \in Values
  PROVE  Sound(mmio_write(d, reg, v), resets)
<1>1. CASE d.kind = "audio"
  BY <1>1, RegisterSound, WriteDataSound DEF mmio_write, AudioWrite, Registers
<1>2. CASE d.kind # "audio"
  BY <1>2, RegisterSound DEF mmio_write, StatusWrite
<1> QED BY <1>1, <1>2

\* Every step keeps the bus.
LEMMA StepBus == BusInv /\ [Next]_vars => BusInv'
<1> SUFFICES ASSUME BusInv, [Next]_vars PROVE BusInv'
  OBVIOUS
<1> USE DEF BusInv
<1>1. ASSUME NEW k \in Kinds, add_device(k) PROVE BusInv'
  <2>1. Sound(New(k), resets) /\ New(k) \in AnyDevice
    BY NewSound DEF Sound
  <2>2. devices' = Append(devices, New(k)) /\ resets' = resets
    BY <1>1 DEF add_device
  <2>3. /\ devices' \in Seq(AnyDevice) /\ Len(devices') = Len(devices) + 1
        /\ \A i \in 1..Len(devices) : devices'[i] = devices[i]
        /\ devices'[Len(devices) + 1] = New(k)
    BY <2>1, <2>2, AppendProperties
  <2>4. Len(devices) \in Nat
    BY LenProperties
  <2>5. ASSUME NEW i \in 1..Len(devices') PROVE Sound(devices'[i], resets)
    BY <2>1, <2>3, <2>4
  <2> QED BY <2>2, <2>3, <2>5
<1>2. ASSUME NEW i \in 1..MAX_VIRTIO_DEVICES, NEW reg \in Registers, NEW v \in Values,
             write(i, reg, v)
      PROVE  BusInv'
  <2>1. /\ i \in 1..Len(devices) /\ resets' = resets
        /\ devices' = [devices EXCEPT ![i] = mmio_write(devices[i], reg, v)]
    BY <1>2 DEF write
  <2>2. /\ Sound(mmio_write(devices[i], reg, v), resets)
        /\ mmio_write(devices[i], reg, v) \in AnyDevice
    BY <2>1, WriteSound DEF Sound
  <2>3. /\ devices' \in Seq(AnyDevice) /\ Len(devices') = Len(devices)
        /\ \A j \in 1..Len(devices) :
             devices'[j] = IF j = i THEN mmio_write(devices[i], reg, v) ELSE devices[j]
    BY <2>1, <2>2, ExceptSeq
  <2> QED BY <2>1, <2>2, <2>3
<1>3. CASE reset_all
  <2>1. /\ resets' = resets + 1 /\ resets < MaxResets
        /\ devices' = [i \in 1..Len(devices) |-> reset(devices[i])]
    BY <1>3 DEF reset_all
  <2>2. resets' \in 0..MaxResets /\ Len(devices) \in Nat
    BY <2>1, LenProperties, DevicesAssumption
  <2>3. ASSUME NEW i \in 1..Len(devices)
        PROVE  Sound(reset(devices[i]), resets') /\ reset(devices[i]) \in AnyDevice
    <3>1. Sound(reset(devices[i]), resets')
      BY ResetSound
    <3> QED BY <3>1 DEF Sound
  <2>4. devices' \in Seq(AnyDevice) /\ Len(devices') = Len(devices)
    BY <2>1, <2>2, <2>3, IsASeq
  <2> QED BY <2>1, <2>2, <2>3, <2>4
<1>4. CASE UNCHANGED <<devices, resets>>
  BY <1>4
<1> QED BY <1>1, <1>2, <1>3, <1>4
        DEF Next, Press, Release, Move, Receive, vars

-----------------------------------------------------------------------------
\* An event that is sent is the last one in the channel, or is dropped.
LEMMA SendAppends ==
  ASSUME queue \in Seq(Events), NEW e \in Events, try_send(e), Len(queue) < Capacity
  PROVE  /\ queue' \in Seq(Events) /\ Len(queue) \in Nat /\ Len(queue') = Len(queue) + 1
         /\ \A i \in 1..Len(queue) : queue'[i] = queue[i]
         /\ queue'[Len(queue) + 1] = e
<1>1. queue' = Append(queue, e)
  BY DEF try_send
<1> QED BY <1>1, AppendProperties, LenProperties

\* What the invariant says of one control.
Agrees(c) ==
  /\ Changes(c) = {} => (c \in guest <=> c \in pressed)
  /\ \A i \in Changes(c) :
       (\A j \in Changes(c) : j <= i) => (queue[i].kind = "down" <=> c \in pressed)

\* An event that is no change of c leaves c's changes where they are.
LEMMA OtherAgrees ==
  ASSUME queue \in Seq(Events), NEW e \in Events, try_send(e), NEW c \in Controls,
         e.control # c \/ e.kind = "move", Agrees(c), guest' = guest,
         c \in pressed' <=> c \in pressed
  PROVE  Agrees(c)'
<1>1. CASE Len(queue) < Capacity
  <2>1. Changes(c)' = Changes(c)
    BY <1>1, SendAppends DEF Changes
  <2>2. \A i \in Changes(c) : queue'[i] = queue[i]
    BY <1>1, SendAppends DEF Changes
  <2> QED BY <2>1, <2>2 DEF Agrees
<1>2. CASE ~(Len(queue) < Capacity)
  <2>1. queue' = queue
    BY <1>2 DEF try_send
  <2> QED BY <2>1 DEF Agrees, Changes
<1> QED BY <1>1, <1>2

\* A press or a release that finds room is the last change of its control.
LEMMA ChangeAgrees ==
  ASSUME queue \in Seq(Events), NEW e \in Events, try_send(e), Len(queue) < Capacity,
         e.kind \in {"down", "up"}, e.kind = "down" <=> e.control \in pressed'
  PROVE  Agrees(e.control)'
<1> DEFINE c == e.control
           n == Len(queue) + 1
<1>1. /\ n \in 1..Len(queue') /\ queue'[n] = e /\ Len(queue') = n /\ n \in Nat
  BY SendAppends
<1>2. n \in Changes(c)'
  BY <1>1 DEF Changes
<1>3. ASSUME NEW i \in Changes(c)', \A j \in Changes(c)' : j <= i PROVE i = n
  <2>1. i \in 1..Len(queue')
    BY DEF Changes
  <2>2. n <= i
    BY <1>2, <1>3
  <2> QED BY <1>1, <2>1, <2>2
<1> QED BY <1>1, <1>2, <1>3 DEF Agrees

\* An event that is received moves the others up by one.
LEMMA ReceiveShifts ==
  ASSUME queue \in Seq(Events), Receive
  PROVE  /\ queue' \in Seq(Events) /\ Len(queue) \in Nat /\ Len(queue) > 0
         /\ Head(queue) = queue[1] /\ queue[1] \in Events
         /\ Len(queue') = Len(queue) - 1
         /\ \A i \in 1..Len(queue') : queue'[i] = queue[i + 1]
<1>1. queue # <<>> /\ queue' = Tail(queue)
  BY DEF Receive
<1>2. Len(queue) \in Nat /\ Len(queue) > 0
  BY <1>1, LenProperties, EmptySeq
<1> QED BY <1>1, <1>2, HeadTailProperties, ElementOfSeq

\* The guest follows the change it receives; if it was the last one of its
\* control, the guest now agrees with the user.
LEMMA ReceiveAgrees ==
  ASSUME queue \in Seq(Events), Receive, NEW c \in Controls, Agrees(c)
  PROVE  Agrees(c)'
<1>1. /\ queue' \in Seq(Events) /\ Len(queue) \in Nat /\ Len(queue) > 0
      /\ Head(queue) = queue[1] /\ queue[1] \in Events
      /\ Len(queue') = Len(queue) - 1
      /\ \A i \in 1..Len(queue') : queue'[i] = queue[i + 1]
  BY ReceiveShifts
<1>2. pressed' = pressed
  BY DEF Receive
<1>3. \A i \in Nat : i \in Changes(c)' <=> (i > 0 /\ i + 1 \in Changes(c))
  BY <1>1 DEF Changes
<1>4. \A i \in Changes(c)' : i \in Nat /\ i > 0 /\ queue'[i] = queue[i + 1]
  BY <1>1 DEF Changes
<1>5. \A i \in Changes(c) : i \in Nat /\ i > 0
  BY <1>1 DEF Changes
<1>6. ASSUME NEW i \in Changes(c)', \A j \in Changes(c)' : j <= i
      PROVE  queue'[i].kind = "down" <=> c \in pressed'
  <2>1. i \in Nat /\ i + 1 \in Changes(c) /\ queue'[i] = queue[i + 1]
    BY <1>3, <1>4
  <2>2. ASSUME NEW j \in Changes(c) PROVE j <= i + 1
    <3>1. CASE j = 1
      BY <2>1, <3>1
    <3>2. CASE j # 1
      <4>1. j - 1 \in Nat /\ j - 1 > 0 /\ (j - 1) + 1 = j
        BY <1>5, <3>2
      <4>2. j - 1 \in Changes(c)'
        BY <1>3, <4>1
      <4> QED BY <1>6, <2>1, <4>1, <4>2
    <3> QED BY <3>1, <3>2
  <2> QED BY <1>2, <2>1, <2>2 DEF Agrees
<1>7. ASSUME Changes(c)' = {} PROVE c \in guest' <=> c \in pressed'
  <2>1. \A j \in Changes(c) : j = 1
    <3> SUFFICES ASSUME NEW j \in Changes(c), j # 1 PROVE FALSE
      OBVIOUS
    <3>1. j - 1 \in Nat /\ j - 1 > 0 /\ (j - 1) + 1 = j
      BY <1>5
    <3> QED BY <1>3, <1>7, <3>1
  <2>2. guest' = CASE queue[1].kind = "down" -> guest \cup {queue[1].control}
                   [] queue[1].kind = "up"   -> guest \ {queue[1].control}
                   [] queue[1].kind = "move" -> guest
    BY <1>1 DEF Receive
  <2>3. queue[1].kind \in {"down", "up", "move"}
    BY <1>1 DEF Events
  <2>4. CASE 1 \in Changes(c)
    <3>1. queue[1].kind = "down" <=> c \in pressed
      BY <2>1, <2>4 DEF Agrees
    <3>2. queue[1].control = c /\ queue[1].kind \in {"down", "up"}
      BY <2>4 DEF Changes
    <3> QED BY <1>2, <2>2, <3>1, <3>2
  <2>5. CASE 1 \notin Changes(c)
    <3>1. Changes(c) = {}
      BY <2>1, <2>5
    <3>2. c \in guest <=> c \in pressed
      BY <3>1 DEF Agrees
    <3>3. queue[1].control # c \/ queue[1].kind = "move"
      BY <1>1, <2>3, <2>5 DEF Changes
    <3>4. c \in guest' <=> c \in guest
      BY <2>2, <2>3, <3>3
    <3> QED BY <1>2, <3>2, <3>4
  <2> QED BY <2>4, <2>5
<1> QED BY <1>6, <1>7 DEF Agrees

\* Every step keeps the channel.
LEMMA StepInput == InputInv /\ [Next]_vars => InputInv'
<1> SUFFICES ASSUME InputInv, [Next]_vars PROVE InputInv'
  OBVIOUS
<1>1. /\ queue \in Seq(Events) /\ pressed \subseteq Controls
      /\ guest \subseteq Controls /\ lost \subseteq Controls
      /\ \A c \in Controls \ lost : Agrees(c)
  BY DEF InputInv, Agrees
<1>2. ASSUME NEW c \in Controls, NEW k \in {"down", "up"},
             try_send([kind |-> k, control |-> c]), lost' = Lost(c), guest' = guest,
             pressed' = IF k = "down" THEN pressed \cup {c} ELSE pressed \ {c}
      PROVE  InputInv'
  <2>1. PICK e \in Events : e = [kind |-> k, control |-> c]
    BY DEF Events
  <2>2. e.kind = k /\ e.control = c /\ try_send(e)
    BY <1>2, <2>1
  <2>3. queue' \in Seq(Events)
    BY <1>1, <2>2, SendAppends DEF try_send
  <2>4. pressed' \subseteq Controls /\ guest' \subseteq Controls /\ lost' \subseteq Controls
    BY <1>1, <1>2 DEF Lost
  <2>5. ASSUME NEW d \in Controls \ lost' PROVE Agrees(d)'
    <3>1. CASE d = c
      <4>1. Len(queue) < Capacity
        BY <1>2, <2>5, <3>1 DEF Lost
      <4>2. e.kind = "down" <=> e.control \in pressed'
        BY <1>2, <2>2
      <4>3. Agrees(e.control)'
        BY <1>1, <2>2, <4>1, <4>2, ChangeAgrees
      <4> QED BY <2>2, <3>1, <4>3
    <3>2. CASE d # c
      <4>1. d \notin lost /\ (d \in pressed' <=> d \in pressed)
        BY <1>2, <2>5, <3>2 DEF Lost
      <4>2. Agrees(d) /\ e.control # d
        BY <1>1, <2>2, <3>2, <4>1
      <4> QED BY <1>1, <1>2, <2>2, <4>1, <4>2, OtherAgrees
    <3> QED BY <3>1, <3>2
  <2> QED BY <2>3, <2>4, <2>5 DEF InputInv, Agrees
<1>3. ASSUME NEW c \in Controls, Press(c) PROVE InputInv'
  BY <1>2, <1>3 DEF Press
<1>4. ASSUME NEW c \in Controls, Release(c) PROVE InputInv'
  BY <1>2, <1>4 DEF Release
<1>5. ASSUME NEW c \in Controls, Move(c) PROVE InputInv'
  <2>1. PICK e \in Events : e = [kind |-> "move", control |-> c]
    BY DEF Events
  <2>2. e.kind = "move" /\ try_send(e) /\ UNCHANGED <<pressed, guest, lost>>
    BY <1>5, <2>1 DEF Move
  <2>3. queue' \in Seq(Events)
    BY <1>1, <2>2, SendAppends DEF try_send
  <2>4. ASSUME NEW d \in Controls \ lost' PROVE Agrees(d)'
    BY <1>1, <2>2, OtherAgrees
  <2> QED BY <1>1, <2>2, <2>3, <2>4 DEF InputInv, Agrees
<1>6. CASE Receive
  <2>1. queue' \in Seq(Events) /\ Head(queue) \in Events
    BY <1>1, <1>6, ReceiveShifts
  <2>2. pressed' = pressed /\ lost' = lost
    BY <1>6 DEF Receive
  <2>3. Head(queue).control \in Controls /\ Head(queue).kind \in {"down", "up", "move"}
    BY <2>1 DEF Events
  <2>4. guest' \subseteq Controls
    BY <1>1, <1>6, <2>3 DEF Receive
  <2>5. ASSUME NEW d \in Controls \ lost' PROVE Agrees(d)'
    BY <1>1, <1>6, <2>2, ReceiveAgrees
  <2> QED BY <1>1, <2>1, <2>2, <2>4, <2>5 DEF InputInv, Agrees
<1>7. CASE UNCHANGED input
  BY <1>7 DEF input, InputInv, Changes
<1> QED BY <1>3, <1>4, <1>5, <1>6, <1>7
        DEF Next, add_device, write, reset_all, vars

-----------------------------------------------------------------------------
\* A machine without devices, and nothing held down.
LEMMA InitDevices == Init => DevicesInv
<1> SUFFICES ASSUME Init PROVE DevicesInv
  OBVIOUS
<1>1. devices = <<>> /\ Len(devices) = 0 /\ devices \in Seq(AnyDevice) /\ resets = 0
  BY EmptySeq DEF Init
<1>2. BusInv
  BY <1>1, DevicesAssumption DEF BusInv
<1>3. queue = <<>> /\ Len(queue) = 0 /\ queue \in Seq(Events)
  BY EmptySeq DEF Init
<1>4. \A c \in Controls : Changes(c) = {}
  BY <1>3 DEF Changes
<1>5. InputInv
  BY <1>3, <1>4 DEF InputInv, Init
<1> QED BY <1>2, <1>5 DEF DevicesInv

\* The inductive invariant of the device layer: every operation of the bus
\* leaves sound devices, and every event leaves the channel, the user and the
\* guest in agreement.
THEOREM DevicesInvariant == Spec => []DevicesInv
<1>1. DevicesInv /\ [Next]_vars => DevicesInv'
  BY StepBus, StepInput DEF DevicesInv
<1> QED BY <1>1, InitDevices, PTL DEF Spec

\* Every variable keeps the values its part of the code can give it.
THEOREM DevicesTypes == Spec => []TypeOK
<1>1. DevicesInv => TypeOK
  BY DEF DevicesInv, BusInv, InputInv, TypeOK
<1> QED BY <1>1, DevicesInvariant, PTL

\* The audio device drops no sample that the guest writes, for every size of
\* the buffer that is not below the threshold of flush_buffer.
THEOREM NoSampleDropped == Spec => []SamplesAccounted
<1>1. DevicesInv => SamplesAccounted
  BY DEF DevicesInv, BusInv, Sound, SamplesAccounted
<1> QED BY <1>1, DevicesInvariant, PTL

\* A reset of the bus between any two writes leaves no old sample to be played.
THEOREM ResetsSilence == Spec => []NoStaleAudio
<1>1. DevicesInv => NoStaleAudio
  BY DEF DevicesInv, BusInv, Sound, NoStaleAudio
<1> QED BY <1>1, DevicesInvariant, PTL

\* For every capacity of the channel of input events, a control is stuck in the
\* guest only when its own last press or release found the channel full.
THEOREM StuckIsLost == Spec => []StuckOnlyAfterFull
<1>1. ASSUME DevicesInv, queue = <<>>, NEW c \in Controls \ lost
      PROVE  c \in guest <=> c \in pressed
  <2>1. Len(queue) = 0
    BY <1>1
  <2>2. Changes(c) = {}
    BY <2>1 DEF Changes
  <2> QED BY <1>1, <2>2 DEF DevicesInv, InputInv
<1>2. DevicesInv => StuckOnlyAfterFull
  BY <1>1 DEF StuckOnlyAfterFull
<1> QED BY <1>2, DevicesInvariant, PTL
=============================================================================
