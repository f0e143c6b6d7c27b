----------------------------- MODULE VirtioBlk ------------------------------
(***************************************************************************)
(* VirtioBlock of crates/vmm/src/lib.rs: its registers, process_queue and  *)
(* process_request, and the memory it shares with the guest's driver       *)
(* (external).  Guest and device take turns: the only vCPU that is driven  *)
(* is stopped while a notification is handled.                             *)
(*                                                                         *)
(* mem is the queue in guest memory, in words of 16 bits from the address  *)
(* in queue_pfn on.  Descriptor d is the words 8d to 8d + 7: its address   *)
(* (four words), its length (two), flags and next.  The device finds the   *)
(* available index in word 1 and the ring from word 2 on, in the same      *)
(* words as the first descriptors.  Where the driver keeps its ring and    *)
(* which descriptors it uses is its layout; a virtio driver has the ring   *)
(* behind the table.  The used ring has a page of its own.                 *)
(*                                                                         *)
(* A descriptor points to an area that is named after it: a header, whose  *)
(* contents are the request type (op), or a buffer (buf).  The disk is one *)
(* sector of two halves.  Memory outside mem and the areas is not          *)
(* modelled: a request that leads there fails.  process_request may fail   *)
(* at every question mark; the question marks fall into those before the   *)
(* data moves, those between the data and the used ring, and those inside  *)
(* the used ring.                                                          *)
(*                                                                         *)
(* X_fault is X with a slip; no specification uses it.                     *)
(***************************************************************************)
EXTENDS Naturals, Sequences

CONSTANTS
  IdxMod,    \* ring indices are u16: they wrap at 2^16
  QueueMax,  \* the largest queue size, 128 in the code
  Descs,     \* number of descriptors that fit into mem
  Layouts,   \* what a driver may choose: the size it asks for, the word where
             \* its ring begins, and its chains: head to data and status
  Values,    \* contents of half a sector
  Empty      \* memory and disk before the first write

Words == 0..((8 * Descs) - 1)
Cells == 0..(Descs - 1)

\* 0x38 truncates to u16 and limits the size to what the device supports.
Granted(n) == IF n % IdxMod < QueueMax THEN n % IdxMod ELSE QueueMax

\* Drivers ask for powers of two, as virtio has it: they divide the range of the
\* indices.  None asks for an empty queue.
ASSUME QueueAssumption ==
  /\ IdxMod \in Nat \ {0} /\ QueueMax \in 1..(IdxMod - 1)
  /\ IdxMod % QueueMax = 0
  /\ \A l \in Layouts : l.size \in Nat /\ Granted(l.size) \in Nat \ {0}
                          /\ IdxMod % Granted(l.size) = 0

\* Ring and chains lie in mem.
ASSUME LayoutAssumption ==
  /\ Descs \in Nat
  /\ \A l \in Layouts :
       /\ l.avail \in Nat /\ l.avail + 2 + QueueMax <= 8 * Descs
       /\ DOMAIN l.chains \subseteq Cells
       /\ \A h \in DOMAIN l.chains : l.chains[h] \in [data : Cells, status : Cells]

VARIABLES
  queue_num, queue_pfn, status, last_avail,   \* struct VirtioBlock
  disk,                                       \* the image file
  mem, used_idx, used,                        \* the queue in guest memory
  op, buf,                                    \* the areas in guest memory
  layout, seen,                               \* driver: its layout, and how many
                                              \* used entries it has read
  busy,                                       \* process_queue is under way
  posted                                      \* requests of the driver under way

registers == <<queue_num, queue_pfn, status>>
chains == <<layout, mem, op>>
vars == <<registers, last_avail, disk, chains, used_idx, used, buf, seen, busy,
          posted>>

Wrap(n) == n % IdxMod
Slots == 0..(QueueMax - 1)

Sectors == (Values \cup {Empty}) \X (Values \cup {Empty})
Blank == <<Empty, Empty>>

\* A write brings data, every other buffer is blank.
Requests ==
  [head : Cells, op : {"write"}, val : {<<v, v>> : v \in Values}]
    \cup [head : Cells, op : {"read", "other"}, val : {Blank}]

\* Heads that are on their way between driver and device.
InFlight == {posted[i].head : i \in DOMAIN posted}

Init ==
  /\ queue_num = QueueMax /\ queue_pfn = 0 /\ status = 0 /\ last_avail = 0
  /\ disk = Blank /\ used_idx = 0 /\ seen = 0 /\ busy = FALSE
  /\ layout \in Layouts
  /\ mem = [w \in Words |-> 0] /\ used = [s \in Slots |-> 0]
  /\ op = [d \in Cells |-> "other"] /\ buf = [d \in Cells |-> Blank]
  /\ posted = <<>>

-----------------------------------------------------------------------------
(***************************************************************************)
(* Register writes, handled by VirtioBlock::write.                         *)
(***************************************************************************)

\* 0x38.
WriteQueueNum(n) ==
  /\ ~busy
  /\ queue_num' = Granted(n)
  /\ UNCHANGED <<queue_pfn, status, last_avail, disk, chains, used_idx, used,
                 buf, seen, busy, posted>>

\* 0x40.
WriteQueuePfn(n) ==
  /\ ~busy
  /\ queue_pfn' = n
  /\ UNCHANGED <<queue_num, status, last_avail, disk, chains, used_idx, used,
                 buf, seen, busy, posted>>

\* 0x60: the status is only stored.
WriteStatus(n) ==
  /\ ~busy
  /\ status' = n
  /\ UNCHANGED <<queue_num, queue_pfn, last_avail, disk, chains, used_idx,
                 used, buf, seen, busy, posted>>

\* 0x50: a notification is ignored while there is no queue.
Notify ==
  /\ ~busy
  /\ busy' = (queue_pfn # 0)
  /\ UNCHANGED <<registers, last_avail, disk, chains, used_idx, used, buf,
                 seen, posted>>

\* What a driver writes: it sizes the queue, puts it into use and declares
\* itself ready, once.
RegisterWrite ==
  \/ queue_pfn = 0 /\ WriteQueueNum(layout.size)
  \/ queue_pfn = 0 /\ queue_num = Granted(layout.size) /\ WriteQueuePfn(1)
  \/ queue_pfn # 0 /\ status = 0 /\ WriteStatus(1)
  \/ Notify

-----------------------------------------------------------------------------
(***************************************************************************)
(* What the driver does in guest memory.                                   *)
(***************************************************************************)

\* Descriptor d with its flags (1 for next, 2 for write) and its next.
Descriptor(d, flags, next) == <<d, 1, 0, 0, 2, 0, flags, next>>

Written(m, d, desc) ==
  [w \in Words |-> IF w \in (8 * d)..((8 * d) + 7) THEN desc[w - (8 * d) + 1]
                                                   ELSE m[w]]

\* The memory m with the three descriptors of request r.
Chained(m, r) ==
  LET d == layout.chains[r.head].data
      s == layout.chains[r.head].status
      m1 == Written(m, s, Descriptor(s, 2, 0))
      m2 == Written(m1, d, Descriptor(d, IF r.op = "read" THEN 3 ELSE 1, s))
  IN  Written(m2, r.head, Descriptor(r.head, 1, d))

\* The driver fills a free chain, writes its head into its ring and then moves
\* its index; with queue_num descriptors no more can be under way.
Post(r) ==
  /\ ~busy /\ status = 1
  /\ r.head \in DOMAIN layout.chains \ InFlight /\ Len(posted) < queue_num
  /\ op' = [op EXCEPT ![r.head] = r.op]
  /\ buf' = [buf EXCEPT ![layout.chains[r.head].data] = r.val]
  /\ LET idx == mem[layout.avail + 1]
     IN  mem' = [Chained(mem, r) EXCEPT
                   ![layout.avail + 2 + (idx % queue_num)] = r.head,
                   ![layout.avail + 1] = Wrap(idx + 1)]
  /\ posted' = Append(posted, r)
  /\ UNCHANGED <<registers, last_avail, disk, layout, used_idx, used, seen,
                 busy>>

\* What the driver finds when it reads the used entry that is n ahead.
UsedEntry(n) ==
  LET h == used[(seen + n) % queue_num]
  IN  [head |-> h, data |-> buf[layout.chains[h].data]]

\* The driver takes the next entry of the used ring.  One that finds more
\* entries than it has posted requests gives up.
Reclaim ==
  /\ ~busy /\ seen # used_idx /\ posted # <<>>
  /\ posted' = Tail(posted)
  /\ seen' = Wrap(seen + 1)
  /\ UNCHANGED <<registers, last_avail, disk, chains, used_idx, used, buf,
                 busy>>

MemoryAccess == Reclaim \/ \E r \in Requests : Post(r)

-----------------------------------------------------------------------------
(***************************************************************************)
(* process_queue, one turn of its loop at a time.                          *)
(***************************************************************************)

\* The word at queue + 2.
AvailIdx == mem[1]

Working == busy /\ last_avail # AvailIdx

\* The newest entry of the ring instead of the oldest.
NextHead_fault == mem[2 + ((AvailIdx + IdxMod - 1) % queue_num)]

\* The word at queue + 4 + 2 * slot.
NextHead == mem[2 + (last_avail % queue_num)]

\* The fields of descriptor d, and the area its address leads to.
Address(d) == <<mem[8 * d], mem[(8 * d) + 1], mem[(8 * d) + 2], mem[(8 * d) + 3]>>
Area(d) == mem[8 * d]
HasArea(d) == Address(d) \in {<<a, 1, 0, 0>> : a \in Cells}
HasNext(d) == mem[(8 * d) + 6] % 2 = 1
Writable(d) == (mem[(8 * d) + 6] \div 2) % 2 = 1
Succ(d) == mem[(8 * d) + 7]

\* The type of the request and the area of its payload.
Type == op[Area(NextHead)]
Payload == Area(Succ(NextHead))

\* The chain is one that process_request does not turn down, and it leads to
\* memory that is modelled.
Accepted ==
  /\ NextHead \in Cells /\ HasNext(NextHead) /\ HasArea(NextHead)
  /\ LET p == Succ(NextHead)
     IN  /\ p \in Cells /\ HasNext(p) /\ HasArea(p)
         /\ Succ(p) < queue_num /\ Succ(p) \in Cells /\ HasArea(Succ(p))
         /\ Type = "read" => Writable(p)
         /\ Type = "write" => ~Writable(p)

\* pread and pwrite may move less than they are asked for, and nobody looks at
\* how much it was.
Transfers(from, to) == {from, <<from[1], to[2]>>, to}

\* process_request up to the status byte: a read fills the guest's buffer, a
\* write stores it, any other type touches neither.
MoveData ==
  /\ IF Type = "read"
     THEN \E x \in Transfers(disk, buf[Payload]) : buf' = [buf EXCEPT ![Payload] = x]
     ELSE UNCHANGED buf
  /\ IF Type = "write" THEN disk' \in Transfers(buf[Payload], disk)
                       ELSE UNCHANGED disk

\* The request completes: its head is written to the used ring before the used
\* index moves, and then last_avail moves.
Process ==
  /\ Working /\ Accepted /\ MoveData
  /\ used' = [used EXCEPT ![used_idx % queue_num] = NextHead]
  /\ used_idx' = Wrap(used_idx + 1)
  /\ last_avail' = Wrap(last_avail + 1)
  /\ UNCHANGED <<registers, chains, seen, busy, posted>>

\* The request fails before its data moves: the error is logged, the rest of
\* the queue waits, and the next notification tries the same request again.
FailEarly ==
  /\ Working
  /\ busy' = FALSE
  /\ UNCHANGED <<registers, last_avail, disk, chains, used_idx, used, buf,
                 seen, posted>>

\* It fails when the data has moved, at the status byte or at the used index.
FailMoved ==
  /\ Working /\ Accepted /\ MoveData
  /\ busy' = FALSE
  /\ UNCHANGED <<registers, last_avail, chains, used_idx, used, seen, posted>>

\* The used index has already moved when the rest of the entry fails.
FailUsed_fault ==
  /\ Working /\ Accepted /\ MoveData
  /\ used' = [used EXCEPT ![used_idx % queue_num] = NextHead]
  /\ used_idx' = Wrap(used_idx + 1)
  /\ busy' = FALSE
  /\ UNCHANGED <<registers, last_avail, chains, seen, posted>>

\* It fails when its head is already in the used ring.
FailUsed ==
  /\ Working /\ Accepted /\ MoveData
  /\ used' = [used EXCEPT ![used_idx % queue_num] = NextHead]
  /\ busy' = FALSE
  /\ UNCHANGED <<registers, last_avail, chains, used_idx, seen, posted>>

\* The queue is empty: the guest goes on.
ProcessDone ==
  /\ busy /\ last_avail = AvailIdx
  /\ busy' = FALSE
  /\ UNCHANGED <<registers, last_avail, disk, chains, used_idx, used, buf,
                 seen, posted>>

-----------------------------------------------------------------------------
Device == Process \/ FailEarly \/ FailMoved \/ FailUsed \/ ProcessDone

Next == RegisterWrite \/ MemoryAccess \/ Device

Spec == Init /\ [][Next]_vars

-----------------------------------------------------------------------------
(***************************************************************************)
(* Properties.                                                             *)
(***************************************************************************)

\* The driver has its ring where the device looks for it, and uses none of the
\* descriptors whose words are the ring; its chains are apart.
Suits ==
  /\ layout.avail = 0
  /\ \A h \in DOMAIN layout.chains :
       LET c == layout.chains[h]
       IN  \A d \in {h, c.data, c.status} : 2 + QueueMax <= 8 * d
  /\ \A g, h \in DOMAIN layout.chains :
       LET c == layout.chains[h]
       IN  /\ g \notin {c.data, c.status} /\ layout.chains[g].data # c.status
           /\ layout.chains[g].data = c.data => g = h

\* What the guest finds in the used ring.
Answers == [i \in 1..Wrap(used_idx + IdxMod - seen) |-> UsedEntry(i - 1)]

Queue == INSTANCE BlockQueue
           WITH posted <- IF Suits THEN posted ELSE <<>>,
                answers <- IF Suits THEN Answers ELSE <<>>,
                disk <- IF Suits THEN disk ELSE Blank

\* To a driver with a layout that suits it, process_queue with process_request
\* looks like a disk that executes the guest's requests one after the other:
\* each is answered once, in order, and a read gets what the last write before
\* it has stored, as far as the two transfers went, across the wrap of the u16
\* indices and of the rings, and whatever a failed attempt has left behind when
\* the request is tried again.  Nothing is said to a driver that keeps its ring
\* where virtio has it: the device takes its descriptors for the ring.
InOrderOnce == Queue!Spec

\* The device keeps last_avail itself and reads the used index from guest
\* memory; whatever the layout of the driver, a failed process_request never
\* makes the two part, so the next attempt does not answer a request a second
\* time.
CursorsAgree == used_idx = last_avail
=============================================================================
