----------------------------- MODULE VmRunProof -----------------------------
(***************************************************************************)
(* The two cursors of the block device (VirtioBlk) agree, whatever the     *)
(* layout of the driver, and to a driver whose layout suits it the device  *)
(* implements BlockQueue, alone and inside the run loop (VmRun): for every *)
(* queue size, index width and set of requests.                            *)
(***************************************************************************)
EXTENDS VmRun, SequenceTheorems, TLAPS

\* One step of driver or device.
LEMMA StepCursors == CursorsAgree /\ [Next]_vars => CursorsAgree'
<1> SUFFICES ASSUME CursorsAgree, [Next]_vars PROVE CursorsAgree'
  OBVIOUS
<1> USE DEF CursorsAgree
<1>1. CASE RegisterWrite
  BY <1>1 DEF RegisterWrite, WriteQueueNum, WriteQueuePfn, WriteStatus, Notify
<1>2. CASE MemoryAccess
  BY <1>2 DEF MemoryAccess, Reclaim, Post
<1>3. CASE Process
  BY <1>3 DEF Process
<1>4. CASE FailEarly \/ FailMoved \/ FailUsed \/ ProcessDone
  BY <1>4 DEF FailEarly, FailMoved, FailUsed, ProcessDone
<1>5. CASE UNCHANGED vars
  BY <1>5 DEF vars
<1> QED BY <1>1, <1>2, <1>3, <1>4, <1>5 DEF Next, Device

\* The used index in guest memory and last_avail of the device never part,
\* wherever process_request fails.
THEOREM CursorsStay == Spec => []CursorsAgree
<1>1. Init => CursorsAgree
  BY DEF Init, CursorsAgree
<1> QED BY <1>1, StepCursors, PTL DEF Spec

-----------------------------------------------------------------------------
(***************************************************************************)
(* Remainders.                                                             *)
(***************************************************************************)

\* Quotient and remainder.
LEMMA ModDef ==
  ASSUME NEW n \in Nat, NEW m \in Nat \ {0}
  PROVE \E q \in Nat : n = (q * m) + (n % m)
<1>1. n \div m \in Nat
  OBVIOUS
<1>2. n = ((n \div m) * m) + (n % m)
  OBVIOUS
<1> QED BY <1>1, <1>2

\* A remainder is what it is called.
LEMMA ModUnique ==
  ASSUME NEW m \in Nat \ {0}, NEW q \in Nat, NEW r \in 0..(m - 1)
  PROVE ((q * m) + r) % m = r
OBVIOUS

\* Numbers less than m apart have different remainders.
LEMMA ModDiff ==
  ASSUME NEW m \in Nat \ {0}, NEW i \in Nat, NEW j \in Nat, j < i, i < j + m
  PROVE i % m # j % m
<1>1. PICK p \in Nat : i = (p * m) + (i % m)
  BY ModDef
<1>2. PICK q \in Nat : j = (q * m) + (j % m)
  BY ModDef
<1>3. SUFFICES ASSUME i % m = j % m PROVE FALSE
  OBVIOUS
<1>4. i - j = (p - q) * m
  BY <1>1, <1>2, <1>3
<1> QED BY <1>4
\* Multiples of m do not change a remainder.
LEMMA ModShift ==
  ASSUME NEW m \in Nat \ {0}, NEW q \in Nat, NEW n \in Nat
  PROVE (n + (q * m)) % m = n % m
<1>1. PICK p \in Nat : n = (p * m) + (n % m)
  BY ModDef
<1>2. n + (q * m) = ((p + q) * m) + (n % m)
  BY <1>1
<1>3. p + q \in Nat /\ n % m \in 0..(m - 1)
  OBVIOUS
<1> HIDE <1>1
<1>4. (((p + q) * m) + (n % m)) % m = n % m
  BY <1>3, ModUnique
<1> QED BY <1>2, <1>4

\* Reducing modulo m first does not matter when k divides m.
LEMMA ModAdd ==
  ASSUME NEW m \in Nat \ {0}, NEW k \in Nat \ {0}, m % k = 0, NEW i \in Nat, NEW n \in Nat
  PROVE ((i % m) + n) % k = (i + n) % k
<1>1. PICK p \in Nat : i = (p * m) + (i % m)
  BY ModDef
<1>2. PICK c \in Nat : m = c * k
  <2>1. PICK c \in Nat : m = (c * k) + (m % k)
    BY ModDef
  <2> QED BY <2>1
<1>3. PICK r \in Nat : r = i % m
  OBVIOUS
<1>4. i + n = (r + n) + ((p * c) * k)
  <2>1. p * m = (p * c) * k
    BY <1>2
  <2>2. i = (p * m) + r
    BY <1>1, <1>3
  <2>3. (p * c) * k \in Nat
    OBVIOUS
  <2>4. i = ((p * c) * k) + r
    BY <2>1, <2>2
  <2>5. ASSUME NEW z \in Nat, i = z + r PROVE i + n = (r + n) + z
    BY <2>5
  <2> QED BY <2>3, <2>4, <2>5
<1>5. p * c \in Nat /\ r + n \in Nat
  OBVIOUS
<1>6. ((r + n) + ((p * c) * k)) % k = (r + n) % k
  BY <1>5, ModShift
<1> QED BY <1>3, <1>4, <1>6

\* The distance of two numbers less than m apart can be read off their
\* remainders.
LEMMA ModGap ==
  ASSUME NEW m \in Nat \ {0}, NEW i \in Nat, NEW j \in Nat, j <= i, i < j + m
  PROVE ((i % m) + m - (j % m)) % m = i - j
<1>1. PICK p \in Nat : i = (p * m) + (i % m)
  BY ModDef
<1>2. PICK q \in Nat : j = (q * m) + (j % m)
  BY ModDef
<1>3. PICK r \in 0..(m - 1) : r = i % m
  OBVIOUS
<1>4. PICK s \in 0..(m - 1) : s = j % m
  OBVIOUS
<1>5. i - j = ((p - q) * m) + (r - s)
  BY <1>1, <1>2, <1>3, <1>4
<1>6. p = q \/ p = q + 1
  BY <1>5
<1>7. (r + m) - s = (i - j) + (1 * m) \/ (r + m) - s = (i - j) + (0 * m)
  BY <1>5, <1>6
<1>8. i - j \in 0..(m - 1)
  OBVIOUS
<1>9. ((i - j) + (1 * m)) % m = i - j /\ ((i - j) + (0 * m)) % m = i - j
  BY <1>8
<1> QED BY <1>3, <1>4, <1>7, <1>9
\* ModAdd for the next number.
LEMMA ModSucc ==
  ASSUME NEW m \in Nat \ {0}, NEW i \in Nat
  PROVE ((i % m) + 1) % m = (i + 1) % m
<1>1. m % m = 0
  OBVIOUS
<1>2. \A n \in Nat : ((i % m) + n) % m = (i + n) % m
  BY <1>1, ModAdd
<1> QED BY <1>2

-----------------------------------------------------------------------------
(***************************************************************************)
(* The queue in guest memory, for a layout that suits the device.          *)
(***************************************************************************)

Heads == DOMAIN layout.chains
DataOf(h) == layout.chains[h].data
StatusOf(h) == layout.chains[h].status

\* What the device follows of chain h: the header's address and next, and the
\* address of the payload.
Linked(m, h) ==
  /\ m[8 * h] = h /\ m[(8 * h) + 7] = DataOf(h)
  /\ m[8 * DataOf(h)] = DataOf(h)

\* The words of ring and chains, and what keeps them apart.
LEMMA Apart ==
  ASSUME Suits, layout \in Layouts
  PROVE /\ QueueMax \in Nat \ {0} /\ Descs \in Nat /\ 2 + QueueMax <= 8 * Descs
        /\ 1 \in Words /\ \A s \in Slots : 2 + s \in Words /\ s \in Nat
        /\ \A h \in Heads : /\ h \in Cells /\ DataOf(h) \in Cells /\ StatusOf(h) \in Cells
                            /\ 2 + QueueMax <= 8 * h /\ 2 + QueueMax <= 8 * DataOf(h)
                            /\ 2 + QueueMax <= 8 * StatusOf(h)
        /\ \A g, h \in Heads : /\ g # DataOf(h) /\ g # StatusOf(h) /\ DataOf(g) # StatusOf(h)
                               /\ DataOf(g) = DataOf(h) => g = h
<1>1. /\ QueueMax \in Nat \ {0} /\ Descs \in Nat /\ 2 + QueueMax <= 8 * Descs
      /\ DOMAIN layout.chains \subseteq Cells
      /\ \A h \in DOMAIN layout.chains : layout.chains[h] \in [data : Cells, status : Cells]
  BY QueueAssumption, LayoutAssumption DEF Suits
<1>2. 1 \in Words /\ \A s \in Slots : 2 + s \in Words /\ s \in Nat
  BY <1>1 DEF Words, Slots
<1>3. \A h \in Heads : /\ h \in Cells /\ DataOf(h) \in Cells /\ StatusOf(h) \in Cells
                       /\ 2 + QueueMax <= 8 * h /\ 2 + QueueMax <= 8 * DataOf(h)
                       /\ 2 + QueueMax <= 8 * StatusOf(h)
  BY <1>1 DEF Suits, Heads, DataOf, StatusOf
<1>4. \A g, h \in Heads : /\ g # DataOf(h) /\ g # StatusOf(h) /\ DataOf(g) # StatusOf(h)
                          /\ DataOf(g) = DataOf(h) => g = h
  BY DEF Suits, Heads, DataOf, StatusOf
<1> QED BY <1>1, <1>2, <1>3, <1>4

\* The words of one descriptor.
LEMMA DescriptorWords ==
  ASSUME Descs \in Nat, NEW m \in [Words -> Nat], NEW d \in Cells, NEW f, NEW n,
         f \in Nat /\ n \in Nat
  PROVE /\ Written(m, d, Descriptor(d, f, n)) \in [Words -> Nat]
        /\ Written(m, d, Descriptor(d, f, n))[8 * d] = d
        /\ Written(m, d, Descriptor(d, f, n))[(8 * d) + 7] = n
        /\ \A w \in Words : w < 8 * d \/ w > (8 * d) + 7 =>
             Written(m, d, Descriptor(d, f, n))[w] = m[w]
<1> DEFINE desc == Descriptor(d, f, n)
<1>1. d \in Nat /\ 8 * d \in Words /\ (8 * d) + 7 \in Words
  BY DEF Cells, Words
<1>2. \A w \in Words : w \in Nat
  BY DEF Words
<1>3. \A k \in 1..8 : desc[k] \in Nat
  BY <1>1 DEF Descriptor
<1>4. desc[1] = d /\ desc[8] = n
  BY DEF Descriptor
<1> HIDE DEF desc
<1>5. ASSUME NEW w \in Words
      PROVE (IF w \in (8 * d)..((8 * d) + 7) THEN desc[w - (8 * d) + 1] ELSE m[w]) \in Nat
  <2>1. CASE w \in (8 * d)..((8 * d) + 7)
    <3>1. w - (8 * d) + 1 \in 1..8
      BY <1>1, <1>2, <2>1
    <3> QED BY <1>3, <2>1, <3>1
  <2> QED BY <2>1
<1>6. Written(m, d, desc) = [w \in Words |-> IF w \in (8 * d)..((8 * d) + 7)
                                             THEN desc[w - (8 * d) + 1] ELSE m[w]]
  BY DEF Written
<1>7. Written(m, d, desc) \in [Words -> Nat]
  BY <1>5, <1>6
<1>8. (8 * d) - (8 * d) + 1 = 1 /\ ((8 * d) + 7) - (8 * d) + 1 = 8
  BY <1>1
<1>9. Written(m, d, desc)[8 * d] = d /\ Written(m, d, desc)[(8 * d) + 7] = n
  BY <1>1, <1>4, <1>6, <1>8
<1>10. \A w \in Words : w < 8 * d \/ w > (8 * d) + 7 => Written(m, d, desc)[w] = m[w]
  BY <1>1, <1>2, <1>6
<1> QED BY <1>7, <1>9, <1>10 DEF desc

\* Filling a chain touches neither the words of the ring nor another chain.
LEMMA ChainedWords ==
  ASSUME Suits, layout \in Layouts, mem \in [Words -> Nat], NEW r, r.head \in Heads
  PROVE /\ Chained(mem, r) \in [Words -> Nat]
        /\ \A w \in Words : w < 2 + QueueMax => Chained(mem, r)[w] = mem[w]
        /\ Linked(Chained(mem, r), r.head)
        /\ \A g \in Heads \ {r.head} : Linked(mem, g) => Linked(Chained(mem, r), g)
<1>1. PICK h, d, s, f : /\ h = r.head /\ d = DataOf(h) /\ s = StatusOf(h)
                        /\ f = IF r.op = "read" THEN 3 ELSE 1
  OBVIOUS
<1>2. PICK m1, m2, m3 : /\ m1 = Written(mem, s, Descriptor(s, 2, 0))
                        /\ m2 = Written(m1, d, Descriptor(d, f, s))
                        /\ m3 = Written(m2, h, Descriptor(h, 1, d))
  OBVIOUS
<1>3. Chained(mem, r) = m3
  BY <1>1, <1>2 DEF Chained, DataOf, StatusOf
<1>4. /\ Descs \in Nat /\ QueueMax \in Nat /\ f \in Nat
      /\ h \in Cells /\ d \in Cells /\ s \in Cells
      /\ 2 + QueueMax <= 8 * h /\ 2 + QueueMax <= 8 * d /\ 2 + QueueMax <= 8 * s
      /\ h # d /\ h # s /\ d # s
  BY <1>1, Apart
<1>5. /\ m3 \in [Words -> Nat]
      /\ m3[8 * h] = h /\ m3[(8 * h) + 7] = d /\ m3[8 * d] = d
      /\ \A w \in Words : w < 8 * s /\ w < 8 * d /\ w < 8 * h => m3[w] = mem[w]
      /\ \A c \in Cells \ {h, d, s}, k \in 0..7 : m3[(8 * c) + k] = mem[(8 * c) + k]
  <2>0. h \in Nat /\ d \in Nat /\ s \in Nat /\ \A w \in Words : w \in Nat
    BY <1>4 DEF Cells, Words
  <2>1. /\ m1 \in [Words -> Nat]
        /\ \A w \in Words : w < 8 * s \/ w > (8 * s) + 7 => m1[w] = mem[w]
    BY <1>2, <1>4, DescriptorWords
  <2>2. /\ m2 \in [Words -> Nat] /\ m2[8 * d] = d
        /\ \A w \in Words : w < 8 * d \/ w > (8 * d) + 7 => m2[w] = m1[w]
    BY <1>2, <1>4, <2>0, <2>1, DescriptorWords
  <2>3. /\ m3 \in [Words -> Nat] /\ m3[8 * h] = h /\ m3[(8 * h) + 7] = d
        /\ \A w \in Words : w < 8 * h \/ w > (8 * h) + 7 => m3[w] = m2[w]
    BY <1>2, <1>4, <2>0, <2>2, DescriptorWords
  <2>4. m3[8 * d] = d
    <3>1. 8 * d \in Words /\ (8 * d < 8 * h \/ 8 * d > (8 * h) + 7)
      BY <1>4, <2>0 DEF Cells, Words
    <3> QED BY <2>2, <2>3, <3>1
  <2>5. \A w \in Words : w < 8 * s /\ w < 8 * d /\ w < 8 * h => m3[w] = mem[w]
    BY <2>1, <2>2, <2>3
  <2>6. ASSUME NEW c \in Cells \ {h, d, s}, NEW k \in 0..7
        PROVE m3[(8 * c) + k] = mem[(8 * c) + k]
    <3>1. c \in Nat /\ (8 * c) + k \in Words
      BY <1>4 DEF Cells, Words
    <3>2. PICK w \in Words : w = (8 * c) + k
      BY <3>1
    <3>3. /\ w < 8 * h \/ w > (8 * h) + 7
          /\ w < 8 * d \/ w > (8 * d) + 7
          /\ w < 8 * s \/ w > (8 * s) + 7
      BY <2>0, <3>1, <3>2
    <3>4. m3[w] = mem[w]
      BY <2>1, <2>2, <2>3, <3>3
    <3> QED BY <3>2, <3>4
  <2> QED BY <2>3, <2>4, <2>5, <2>6
<1>6. \A w \in Words : w < 2 + QueueMax => m3[w] = mem[w]
  <2>1. h \in Nat /\ d \in Nat /\ s \in Nat /\ \A w \in Words : w \in Nat
    BY <1>4 DEF Cells, Words
  <2> QED BY <1>4, <1>5, <2>1
<1>7. Linked(m3, h)
  BY <1>1, <1>5 DEF Linked
<1>8. ASSUME NEW g \in Heads \ {h}, Linked(mem, g) PROVE Linked(m3, g)
  <2>1. /\ g \in Cells \ {h, d, s} /\ DataOf(g) \in Cells \ {h, d, s}
        /\ g \in Nat /\ DataOf(g) \in Nat
    BY <1>1, Apart DEF Cells
  <2>2. \A c \in {g, DataOf(g)}, k \in {0, 7} : m3[(8 * c) + k] = mem[(8 * c) + k]
    BY <1>5, <2>1
  <2>3. (8 * g) + 0 = 8 * g /\ (8 * DataOf(g)) + 0 = 8 * DataOf(g)
    BY <2>1
  <2> QED BY <1>8, <2>2, <2>3 DEF Linked
<1> QED BY <1>1, <1>3, <1>5, <1>6, <1>7, <1>8

\* What a post leaves in the queue: its head in the slot of the index, the moved
\* index, its chain, and everything else of ring and chains as it was.
LEMMA PostWords ==
  ASSUME Suits, layout \in Layouts, mem \in [Words -> Nat], queue_num \in 1..QueueMax,
         NEW r \in Requests, Post(r)
  PROVE /\ mem' \in [Words -> Nat] /\ mem'[1] = Wrap(mem[1] + 1)
        /\ mem'[2 + (mem[1] % queue_num)] = r.head
        /\ \A s \in Slots : s # mem[1] % queue_num => mem'[2 + s] = mem[2 + s]
        /\ Linked(mem', r.head)
        /\ \A g \in Heads \ {r.head} : Linked(mem, g) => Linked(mem', g)
<1> DEFINE m == Chained(mem, r)
           t == 2 + (mem[1] % queue_num)
           i == Wrap(mem[1] + 1)
<1>1. /\ QueueMax \in Nat \ {0} /\ Descs \in Nat /\ 2 + QueueMax <= 8 * Descs
      /\ 1 \in Words /\ \A s \in Slots : 2 + s \in Words /\ s \in Nat
      /\ \A h \in Heads : /\ h \in Cells /\ DataOf(h) \in Cells
                          /\ 2 + QueueMax <= 8 * h /\ 2 + QueueMax <= 8 * DataOf(h)
  BY Apart
<1>2. r.head \in Heads /\ r.head \in Nat
  BY <1>1 DEF Post, Heads, Cells
<1>3. mem' = [m EXCEPT ![t] = r.head, ![1] = i]
  <2>1. layout.avail = 0 /\ 0 + 1 = 1 /\ \A k \in Nat : (0 + 2) + k = 2 + k
    BY DEF Suits
  <2>2. mem[1] % queue_num \in Nat
    BY <1>1
  <2> QED BY <2>1, <2>2 DEF Post
<1>4. /\ m \in [Words -> Nat]
      /\ \A w \in Words : w < 2 + QueueMax => m[w] = mem[w]
      /\ Linked(m, r.head)
      /\ \A g \in Heads \ {r.head} : Linked(mem, g) => Linked(m, g)
  BY <1>2, ChainedWords
<1>5. /\ mem[1] % queue_num \in Slots /\ t \in Words /\ t # 1 /\ t < 2 + QueueMax
      /\ i \in Nat
  <2>1. mem[1] \in Nat /\ queue_num \in Nat \ {0} /\ queue_num <= QueueMax
    BY <1>1
  <2>2. mem[1] % queue_num \in Slots
    BY <1>1, <2>1 DEF Slots
  <2>3. i \in Nat
    BY <2>1, QueueAssumption DEF Wrap
  <2> QED BY <1>1, <2>2, <2>3 DEF Slots
<1> HIDE DEF m, t, i
<1>6. mem' \in [Words -> Nat] /\ mem'[1] = i /\ mem'[t] = r.head
  BY <1>1, <1>2, <1>3, <1>4, <1>5
<1>7. \A w \in Words : w # t /\ w # 1 => mem'[w] = m[w]
  BY <1>3, <1>4
<1>8. ASSUME NEW s \in Slots, s # mem[1] % queue_num PROVE mem'[2 + s] = mem[2 + s]
  <2>1. 2 + s \in Words /\ 2 + s # 1 /\ 2 + s # t /\ 2 + s < 2 + QueueMax
    BY <1>1, <1>5, <1>8 DEF Slots, t
  <2> QED BY <1>4, <1>7, <2>1
<1>9. ASSUME NEW g \in Heads, Linked(m, g) PROVE Linked(mem', g)
  <2>1. \A c \in {g, DataOf(g)}, k \in {0, 7} :
          (8 * c) + k \in Words /\ (8 * c) + k # t /\ (8 * c) + k # 1
    <3> SUFFICES ASSUME NEW c \in {g, DataOf(g)}, NEW k \in {0, 7}
                 PROVE (8 * c) + k \in Words /\ (8 * c) + k # t /\ (8 * c) + k # 1
      OBVIOUS
    <3>1. c \in Cells /\ 2 + QueueMax <= 8 * c
      BY <1>1
    <3>2. c \in Nat /\ (8 * c) + k \in Words
      BY <1>1, <3>1 DEF Cells, Words
    <3>3. t \in Nat
      BY <1>1, <1>5 DEF Words
    <3> QED BY <1>1, <1>5, <3>1, <3>2, <3>3
  <2>2. g \in Nat /\ DataOf(g) \in Nat
    BY <1>1 DEF Cells
  <2>3. (8 * g) + 0 = 8 * g /\ (8 * DataOf(g)) + 0 = 8 * DataOf(g)
    BY <2>2
  <2>4. /\ mem'[8 * g] = m[8 * g] /\ mem'[(8 * g) + 7] = m[(8 * g) + 7]
        /\ mem'[8 * DataOf(g)] = m[8 * DataOf(g)]
    BY <1>7, <2>1, <2>3
  <2> QED BY <1>9, <2>4 DEF Linked
<1> QED BY <1>2, <1>4, <1>6, <1>8, <1>9 DEF t, i

-----------------------------------------------------------------------------
(***************************************************************************)
(* The invariant: what lies between the cursors.                           *)
(***************************************************************************)

AnswerSet == [head : Cells, data : Sectors]

QueueTypes ==
  /\ layout \in Layouts
  /\ queue_num \in 1..QueueMax /\ IdxMod % queue_num = 0
  /\ posted \in Seq(Requests) /\ \A i \in 1..Len(posted) : posted[i].head \in Heads
  /\ mem \in [Words -> Nat] /\ used \in [Slots -> Nat]
  /\ op \in [Cells -> {"read", "write", "other"}] /\ buf \in [Cells -> Sectors]
  /\ disk \in Sectors /\ seen \in 0..(IdxMod - 1)
  /\ status = 1 => queue_pfn # 0
  /\ queue_pfn = 0 => posted = <<>>

\* How many of the requests under way have been answered.
Done == Wrap(used_idx + IdxMod - seen)

\* The wrapped indices count requests that are posted and answered, and never
\* more than the queue holds are under way.
CursorInv ==
  /\ Done \in Nat /\ Done <= Len(posted) /\ Len(posted) <= queue_num
  /\ mem[1] = Wrap(seen + Len(posted))
  /\ used_idx = Wrap(seen + Done) /\ last_avail = Wrap(seen + Done)

\* The requests under way, and the slot of a request in either ring.
Open == 1..Len(posted)

Slot(i) == (seen + (i - 1)) % queue_num

\* Requests under way have heads of their own.
HeadsDiffer == \A i, j \in Open : posted[i].head = posted[j].head => i = j

\* The chain of a request under way is the one that was posted.
ChainsHold ==
  \A i \in Open : /\ Linked(mem, posted[i].head)
                  /\ op[posted[i].head] = posted[i].op

\* So is the buffer of one that is not answered; only the buffer of the oldest
\* may have been filled, if it is a read, by an attempt that failed.
BufferOf(i) == buf[DataOf(posted[i].head)]

BuffersHold ==
  \A i \in Open : i > Done =>
    IF i = Done + 1 /\ posted[i].op = "read"
    THEN BufferOf(i) \in Transfers(disk, posted[i].val)
    ELSE BufferOf(i) = posted[i].val

\* The slots between the cursors hold the heads of the requests there.
RingsHold ==
  \A i \in Open : IF i <= Done THEN used[Slot(i)] = posted[i].head
                               ELSE mem[2 + Slot(i)] = posted[i].head

QueueInv ==
  QueueTypes /\ CursorInv /\ HeadsDiffer /\ ChainsHold /\ BuffersHold /\ RingsHold

\* The numbers of the invariant, for the arithmetic below.
LEMMA Numbers ==
  ASSUME QueueTypes
  PROVE /\ IdxMod \in Nat \ {0} /\ QueueMax \in Nat \ {0} /\ QueueMax < IdxMod
        /\ queue_num \in Nat \ {0} /\ queue_num <= QueueMax /\ IdxMod % queue_num = 0
        /\ Len(posted) \in Nat /\ seen \in Nat /\ seen < IdxMod
BY QueueAssumption DEF QueueTypes

\* A transfer that is tried again moves no more than a whole one.
LEMMA TransferFacts ==
  ASSUME NEW x \in Sectors, NEW y \in Sectors
  PROVE /\ Transfers(x, y) \subseteq Sectors /\ y \in Transfers(x, y)
        /\ \A z \in Transfers(x, y) : Transfers(x, z) \subseteq Transfers(x, y)
<1>1. x = <<x[1], x[2]>> /\ y = <<y[1], y[2]>>
  BY DEF Sectors
<1>2. <<x[1], y[2]>> \in Sectors
  BY DEF Sectors
<1>3. \A z \in Transfers(x, y) : <<x[1], z[2]>> \in Transfers(x, y)
  <2> SUFFICES ASSUME NEW z \in Transfers(x, y) PROVE <<x[1], z[2]>> \in Transfers(x, y)
    OBVIOUS
  <2>1. CASE z = x
    BY <1>1, <2>1 DEF Transfers
  <2>2. CASE z = <<x[1], y[2]>>
    BY <2>2 DEF Transfers
  <2>3. CASE z = y
    BY <2>3 DEF Transfers
  <2> QED BY <2>1, <2>2, <2>3 DEF Transfers
<1> QED BY <1>2, <1>3 DEF Transfers

\* What the driver computes from two indices is how far they are apart, although
\* both have wrapped.
LEMMA Between ==
  ASSUME NEW r \in 0..(IdxMod - 1), NEW n \in 0..QueueMax
  PROVE Wrap(Wrap(r + n) + IdxMod - r) = n
<1>1. IdxMod \in Nat \ {0} /\ r \in Nat /\ n \in Nat /\ r + n < r + IdxMod
  BY QueueAssumption
<1>2. r % IdxMod = r
  BY <1>1
<1>3. \A i, j \in Nat : j <= i /\ i < j + IdxMod =>
        ((i % IdxMod) + IdxMod - (j % IdxMod)) % IdxMod = i - j
  BY <1>1, ModGap
<1>4. r + n \in Nat /\ r <= r + n /\ (r + n) - r = n
  BY <1>1
<1>5. (((r + n) % IdxMod) + IdxMod - (r % IdxMod)) % IdxMod = n
  BY <1>1, <1>3, <1>4
<1> QED BY <1>2, <1>5 DEF Wrap

\* Moving an index that has wrapped.
LEMMA Forward ==
  ASSUME NEW n \in Nat, NEW k \in Nat
  PROVE /\ Wrap(Wrap(n) + k) = Wrap(n + k)
        /\ Wrap(n) \in 0..(IdxMod - 1)
<1>1. IdxMod \in Nat \ {0} /\ IdxMod % IdxMod = 0
  BY QueueAssumption
<1>2. ((n % IdxMod) + k) % IdxMod = (n + k) % IdxMod
  BY <1>1, ModAdd
<1>3. n % IdxMod \in 0..(IdxMod - 1)
  BY <1>1
<1> QED BY <1>2, <1>3 DEF Wrap

\* The slots that driver and device compute from the wrapped indices are those of
\* the requests they mean, and requests under way at the same time have slots of
\* their own.
LEMMA SlotsOf ==
  ASSUME QueueTypes, CursorInv
  PROVE /\ mem[1] % queue_num = Slot(Len(posted) + 1)
        /\ used_idx % queue_num = Slot(Done + 1)
        /\ last_avail % queue_num = Slot(Done + 1)
        /\ \A i \in Nat \ {0} : Slot(i) \in Slots
        /\ \A i, j \in Nat \ {0} : i < j /\ j < i + queue_num => Slot(i) # Slot(j)
<1>0. /\ IdxMod \in Nat \ {0} /\ QueueMax \in Nat \ {0} /\ QueueMax < IdxMod
      /\ queue_num \in Nat \ {0} /\ queue_num <= QueueMax /\ IdxMod % queue_num = 0
      /\ Len(posted) \in Nat /\ seen \in Nat /\ Done \in Nat
  BY Numbers DEF CursorInv
<1>1. \A n \in Nat : Wrap(seen + n) % queue_num = Slot(n + 1)
  <2> SUFFICES ASSUME NEW n \in Nat PROVE Wrap(seen + n) % queue_num = Slot(n + 1)
    OBVIOUS
  <2>1. seen + n \in Nat /\ Wrap(seen + n) \in Nat
    <3>1. \A k \in Nat : k % IdxMod \in Nat
      BY <1>0
    <3> QED BY <1>0, <3>1 DEF Wrap
  <2>2. (((seen + n) % IdxMod) + 0) % queue_num = ((seen + n) + 0) % queue_num
    <3>1. \A i, k \in Nat : ((i % IdxMod) + k) % queue_num = (i + k) % queue_num
      BY <1>0, ModAdd
    <3> QED BY <2>1, <3>1
  <2>3. Wrap(seen + n) + 0 = Wrap(seen + n) /\ (seen + n) + 0 = seen + n /\ (n + 1) - 1 = n
    BY <1>0, <2>1
  <2> QED BY <2>2, <2>3 DEF Slot, Wrap
<1>2. \A i \in Nat \ {0} : Slot(i) \in Slots
  BY <1>0 DEF Slot, Slots
<1>3. ASSUME NEW i \in Nat \ {0}, NEW j \in Nat \ {0}, i < j, j < i + queue_num
      PROVE Slot(i) # Slot(j)
  <2>1. /\ seen + (i - 1) \in Nat /\ seen + (j - 1) \in Nat
        /\ seen + (i - 1) < seen + (j - 1) /\ seen + (j - 1) < (seen + (i - 1)) + queue_num
    BY <1>0, <1>3
  <2> QED BY <2>1, <1>0, ModDiff DEF Slot
<1> QED BY <1>0, <1>1, <1>2, <1>3 DEF CursorInv

\* Facts about a request under way.
LEMMA OpenRequest ==
  ASSUME Suits, QueueTypes, NEW i \in Open
  PROVE /\ posted[i] \in Requests /\ posted[i].head \in Heads /\ posted[i].head \in Cells
        /\ posted[i].head \in Nat
        /\ DataOf(posted[i].head) \in Cells /\ posted[i].val \in Sectors
        /\ posted[i].op \in {"read", "write", "other"}
<1>1. posted[i] \in Requests /\ posted[i].head \in Heads
  BY DEF QueueTypes, Open
<1>2. /\ posted[i].val \in Sectors /\ posted[i].op \in {"read", "write", "other"}
      /\ posted[i].head \in Cells
  BY <1>1 DEF Requests, Sectors, Blank
<1>3. posted[i].head \in Nat
  BY <1>2, LayoutAssumption DEF Cells
<1> QED BY <1>1, <1>2, <1>3, Apart DEF QueueTypes

\* The device takes the oldest request that is not answered, and follows its
\* chain to its type and its buffer.
LEMMA OldestRequest ==
  ASSUME Suits, QueueInv, Working
  PROVE /\ Done + 1 \in Open /\ Done < Len(posted)
        /\ NextHead = posted[Done + 1].head
        /\ Type = posted[Done + 1].op /\ Payload = DataOf(NextHead)
<1>0. /\ Len(posted) \in Nat /\ Done \in Nat /\ Done <= Len(posted)
  BY Numbers DEF QueueInv, CursorInv
<1>1. Done # Len(posted)
  BY DEF QueueInv, CursorInv, Working, AvailIdx
<1>2. Done < Len(posted) /\ Done + 1 \in Open
  BY <1>0, <1>1 DEF Open
<1>3. mem[2 + Slot(Done + 1)] = posted[Done + 1].head
  BY <1>0, <1>2 DEF QueueInv, RingsHold
<1>4. NextHead = posted[Done + 1].head
  BY <1>3, SlotsOf DEF QueueInv, NextHead
<1>5. Linked(mem, NextHead) /\ op[NextHead] = posted[Done + 1].op
  BY <1>2, <1>4 DEF QueueInv, ChainsHold
<1>6. Area(NextHead) = NextHead /\ Succ(NextHead) = DataOf(NextHead)
      /\ Area(DataOf(NextHead)) = DataOf(NextHead)
  BY <1>5 DEF Linked, Area, Succ
<1> QED BY <1>2, <1>4, <1>5, <1>6 DEF Type, Payload

-----------------------------------------------------------------------------
(***************************************************************************)
(* One step of driver or device.                                           *)
(***************************************************************************)

\* The invariant holds before the driver has done anything.
LEMMA QueueInit == Init => QueueInv
<1> SUFFICES ASSUME Init PROVE QueueInv
  OBVIOUS
<1>0. IdxMod \in Nat \ {0} /\ QueueMax \in 1..(IdxMod - 1) /\ IdxMod % QueueMax = 0
  BY QueueAssumption
<1>1. Len(posted) = 0 /\ posted \in Seq(Requests)
  BY DEF Init
<1>2. Wrap(0) = 0 /\ Wrap(0 + IdxMod - 0) = 0 /\ Wrap(0 + 0) = 0
  BY <1>0 DEF Wrap
<1>3. Done = 0
  BY <1>2 DEF Init, Done
<1>4. QueueTypes
  <2>1. Blank \in Sectors
    BY DEF Blank, Sectors
  <2>2. mem \in [Words -> Nat] /\ used \in [Slots -> Nat] /\ seen \in 0..(IdxMod - 1)
    BY <1>0 DEF Init
  <2> QED BY <1>0, <1>1, <2>1, <2>2 DEF Init, QueueTypes
<1>5. CursorInv
  <2>1. mem[1] = 0
    <3>1. QueueMax \in Nat /\ Descs \in Nat /\ layout.avail \in Nat
          /\ layout.avail + 2 + QueueMax <= 8 * Descs
      BY <1>0, LayoutAssumption DEF Init
    <3>2. 1 \in Words
      BY <3>1 DEF Words
    <3> QED BY <3>2 DEF Init
  <2>2. seen = 0 /\ used_idx = 0 /\ last_avail = 0 /\ queue_num = QueueMax
    BY DEF Init
  <2> QED BY <1>0, <1>1, <1>2, <1>3, <2>1, <2>2 DEF CursorInv
<1>6. Open = {}
  BY <1>1 DEF Open
<1> QED BY <1>4, <1>5, <1>6 DEF QueueInv, HeadsDiffer, ChainsHold, BuffersHold, RingsHold

\* A step that leaves memory, cursors and requests alone.
LEMMA Untouched ==
  ASSUME QueueInv,
         UNCHANGED <<queue_num, last_avail, disk, mem, used_idx, used, op, buf>>,
         UNCHANGED <<layout, seen, posted>>,
         status' = 1 => queue_pfn' # 0, queue_pfn' = 0 => posted = <<>>
  PROVE QueueInv' /\ Done' = Done
<1>1. Done' = Done /\ Open' = Open /\ Heads' = Heads
  BY DEF Done, Open, Heads
<1>2. \A i : Slot(i)' = Slot(i) /\ BufferOf(i)' = BufferOf(i)
  BY DEF Slot, BufferOf, DataOf
<1>3. \A h : Linked(mem, h)' <=> Linked(mem, h)
  BY DEF Linked, DataOf
<1>4. QueueTypes'
  BY <1>1 DEF QueueInv, QueueTypes
<1>5. CursorInv' /\ HeadsDiffer' /\ ChainsHold'
  BY <1>1, <1>3 DEF QueueInv, CursorInv, HeadsDiffer, ChainsHold
<1>6. BuffersHold' /\ RingsHold'
  BY <1>1, <1>2 DEF QueueInv, BuffersHold, RingsHold
<1> QED BY <1>1, <1>4, <1>5, <1>6 DEF QueueInv

\* Register writes: the queue is resized only while it is empty.
LEMMA RegisterStep ==
  ASSUME QueueInv, RegisterWrite
  PROVE QueueInv' /\ Done' = Done
<1>1. CASE queue_pfn = 0 /\ WriteQueueNum(layout.size)
  <2>1. queue_num' \in 1..QueueMax /\ IdxMod % queue_num' = 0
    <3>1. /\ IdxMod \in Nat \ {0} /\ QueueMax \in 1..(IdxMod - 1) /\ IdxMod % QueueMax = 0
          /\ layout.size \in Nat /\ Granted(layout.size) \in Nat \ {0}
          /\ IdxMod % Granted(layout.size) = 0
      BY QueueAssumption DEF QueueInv, QueueTypes
    <3>2. Granted(layout.size) <= QueueMax
      BY <3>1 DEF Granted
    <3> QED BY <1>1, <3>1, <3>2 DEF WriteQueueNum
  <2>2. UNCHANGED <<queue_pfn, status, last_avail, disk, layout, mem, op>>
        /\ UNCHANGED <<used_idx, used, buf, seen, posted>>
    BY <1>1 DEF WriteQueueNum, chains
  <2>3. Heads' = Heads /\ Done' = Done
    BY <2>2 DEF Heads, Done
  <2>4. QueueTypes'
    BY <2>1, <2>2, <2>3 DEF QueueInv, QueueTypes
  <2>5. Len(posted) = 0 /\ Len(posted') = 0
    BY <1>1, <2>2 DEF QueueInv, QueueTypes
  <2>6. CursorInv'
    BY <2>1, <2>2, <2>3, <2>5 DEF QueueInv, CursorInv
  <2>7. Open' = {}
    BY <2>5 DEF Open
  <2> QED BY <2>3, <2>4, <2>6, <2>7
          DEF QueueInv, HeadsDiffer, ChainsHold, BuffersHold, RingsHold
<1>2. CASE queue_pfn = 0 /\ WriteQueuePfn(1)
  BY <1>2, Untouched DEF WriteQueuePfn, chains
<1>3. CASE queue_pfn # 0 /\ WriteStatus(1)
  BY <1>3, Untouched DEF WriteStatus, chains, QueueInv, QueueTypes
<1>4. CASE Notify
  BY <1>4, Untouched DEF Notify, chains, registers, QueueInv, QueueTypes
<1> QED BY <1>1, <1>2, <1>3, <1>4 DEF RegisterWrite

\* Steps that change nothing but busy.
LEMMA QuietDevice ==
  ASSUME QueueInv, FailEarly \/ ProcessDone \/ UNCHANGED vars
  PROVE QueueInv' /\ Done' = Done
BY Untouched DEF FailEarly, ProcessDone, vars, registers, chains, QueueInv, QueueTypes

\* A post uses a chain and a slot that nobody else uses.
LEMMA PostStep ==
  ASSUME Suits, QueueInv, NEW r \in Requests, Post(r)
  PROVE /\ QueueInv' /\ Done' = Done
        /\ \A i \in Open : posted'[i] = posted[i] /\ BufferOf(i)' = BufferOf(i)
<1>0. /\ IdxMod \in Nat \ {0} /\ QueueMax \in Nat \ {0} /\ QueueMax < IdxMod
      /\ queue_num \in Nat \ {0} /\ queue_num <= QueueMax
      /\ Len(posted) \in Nat /\ seen \in Nat /\ Done \in Nat /\ Done <= Len(posted)
  BY Numbers DEF QueueInv, CursorInv
<1>1. Len(posted) < queue_num
  BY DEF Post
<1>2. /\ r.head \in Heads /\ r.head \in Cells /\ DataOf(r.head) \in Cells
      /\ r.op \in {"read", "write", "other"} /\ r.val \in Sectors
  <2>1. r.head \in Heads
    BY DEF Post, Heads
  <2>2. r.op \in {"read", "write", "other"} /\ r.val \in Sectors
    BY DEF Requests, Sectors, Blank
  <2> QED BY <2>1, <2>2, Apart DEF QueueInv, QueueTypes
<1>3. /\ posted' \in Seq(Requests) /\ Len(posted') = Len(posted) + 1
      /\ posted'[Len(posted) + 1] = r
      /\ \A i \in 1..Len(posted) : posted'[i] = posted[i]
  BY DEF QueueInv, QueueTypes, Post
<1>4. /\ mem' \in [Words -> Nat] /\ mem'[1] = Wrap(mem[1] + 1)
      /\ mem'[2 + (mem[1] % queue_num)] = r.head
      /\ \A s \in Slots : s # mem[1] % queue_num => mem'[2 + s] = mem[2 + s]
      /\ Linked(mem', r.head)
      /\ \A g \in Heads \ {r.head} : Linked(mem, g) => Linked(mem', g)
  BY PostWords DEF QueueInv, QueueTypes
<1>5. /\ UNCHANGED <<queue_num, queue_pfn, status, last_avail, disk, layout>>
      /\ UNCHANGED <<used_idx, used, seen>> /\ status = 1
      /\ op' = [op EXCEPT ![r.head] = r.op]
      /\ buf' = [buf EXCEPT ![DataOf(r.head)] = r.val]
  BY DEF Post, registers, DataOf
<1>6. /\ Heads' = Heads /\ Done' = Done /\ Open' = Open \cup {Len(posted) + 1}
      /\ \A h : DataOf(h)' = DataOf(h)
      /\ \A i : Slot(i)' = Slot(i)
  BY <1>0, <1>3, <1>5 DEF Heads, Done, Open, DataOf, Slot
<1>7. QueueTypes'
  <2>1. \A i \in 1..Len(posted') : posted'[i].head \in Heads'
    <3>1. \A i \in 1..Len(posted) : posted[i].head \in Heads
      BY DEF QueueInv, QueueTypes
    <3>2. \A i \in 1..Len(posted') : i \in 1..Len(posted) \/ i = Len(posted) + 1
      BY <1>0, <1>3
    <3> QED BY <1>2, <1>3, <1>6, <3>1, <3>2
  <2>2. op' \in [Cells -> {"read", "write", "other"}] /\ buf' \in [Cells -> Sectors]
    BY <1>2, <1>5 DEF QueueInv, QueueTypes
  <2>3. queue_pfn' # 0
    BY <1>5 DEF QueueInv, QueueTypes
  <2> QED BY <1>3, <1>4, <1>5, <2>1, <2>2, <2>3 DEF QueueInv, QueueTypes
<1>8. CursorInv'
  <2>1. Wrap(mem[1] + 1) = Wrap(seen + (Len(posted) + 1))
    <3>1. seen + Len(posted) \in Nat /\ (seen + Len(posted)) + 1 = seen + (Len(posted) + 1)
      BY <1>0
    <3>2. Wrap(Wrap(seen + Len(posted)) + 1) = Wrap((seen + Len(posted)) + 1)
      BY <3>1, Forward
    <3> QED BY <3>1, <3>2 DEF QueueInv, CursorInv
  <2>2. Done' <= Len(posted') /\ Len(posted') <= queue_num'
    BY <1>0, <1>1, <1>3, <1>5, <1>6
  <2> QED BY <1>3, <1>4, <1>5, <1>6, <2>1, <2>2 DEF QueueInv, CursorInv
<1>9. ASSUME NEW i \in Open
      PROVE /\ i \in Nat \ {0} /\ i <= Len(posted) /\ posted'[i] = posted[i]
            /\ posted[i].head \in Heads \ {r.head} /\ posted[i].head \in Cells
            /\ DataOf(posted[i].head) \in Cells /\ DataOf(posted[i].head) # DataOf(r.head)
  <2>1. i \in Nat \ {0} /\ i <= Len(posted) /\ posted'[i] = posted[i]
    BY <1>0, <1>3 DEF Open
  <2>2. posted[i].head \in Heads /\ posted[i].head \in Cells /\ DataOf(posted[i].head) \in Cells
    BY OpenRequest DEF QueueInv
  <2>3. posted[i].head # r.head
    <3>1. i \in DOMAIN posted
      BY DEF Open, QueueInv, QueueTypes
    <3> QED BY <3>1 DEF Post, InFlight
  <2>4. DataOf(posted[i].head) # DataOf(r.head)
    BY <1>2, <2>2, <2>3, Apart DEF QueueInv, QueueTypes
  <2> QED BY <2>1, <2>2, <2>3, <2>4
<1>10. HeadsDiffer'
  <2>1. \A i \in Open : posted'[i] = posted[i] /\ posted[i].head # r.head
    BY <1>9
  <2> QED BY <1>3, <1>6, <2>1 DEF QueueInv, HeadsDiffer
<1>11. \A i \in Open : /\ Linked(mem', posted[i].head)
                       /\ op'[posted[i].head] = posted[i].op
  <2> SUFFICES ASSUME NEW i \in Open
               PROVE Linked(mem', posted[i].head) /\ op'[posted[i].head] = posted[i].op
    OBVIOUS
  <2>1. Linked(mem, posted[i].head) /\ op[posted[i].head] = posted[i].op
    BY DEF QueueInv, ChainsHold
  <2>2. op'[posted[i].head] = op[posted[i].head]
    BY <1>5, <1>9 DEF QueueInv, QueueTypes
  <2> QED BY <1>4, <1>9, <2>1, <2>2
<1>12. ChainsHold'
  <2>1. op'[r.head] = r.op
    BY <1>2, <1>5 DEF QueueInv, QueueTypes
  <2>2. \A h : Linked(mem, h)' <=> Linked(mem', h)
    BY <1>6 DEF Linked
  <2>3. \A i \in Open : posted'[i] = posted[i]
    BY <1>9
  <2> QED BY <1>3, <1>4, <1>6, <1>11, <2>1, <2>2, <2>3 DEF ChainsHold
<1>13. \A i \in Open : BufferOf(i)' = BufferOf(i)
  <2> SUFFICES ASSUME NEW i \in Open PROVE BufferOf(i)' = BufferOf(i)
    OBVIOUS
  <2>1. posted'[i] = posted[i] /\ DataOf(posted[i].head) \in Cells
        /\ DataOf(posted[i].head) # DataOf(r.head)
    BY <1>9
  <2>2. BufferOf(i)' = buf'[DataOf(posted[i].head)]
    BY <1>6, <2>1 DEF BufferOf
  <2> QED BY <1>5, <2>1, <2>2 DEF BufferOf, QueueInv, QueueTypes
<1>14. BuffersHold'
  <2>1. \A i \in {Len(posted) + 1} : BufferOf(i)' = r.val
    <3>1. buf'[DataOf(r.head)] = r.val
      BY <1>2, <1>5 DEF QueueInv, QueueTypes
    <3> QED BY <1>3, <1>6, <3>1 DEF BufferOf
  <2>2. r.val \in Transfers(disk', r.val)
    BY DEF Transfers
  <2>3. \A i \in Open : posted'[i] = posted[i]
    BY <1>9
  <2> QED BY <1>3, <1>5, <1>6, <1>13, <2>1, <2>2, <2>3 DEF QueueInv, BuffersHold
<1>15. RingsHold'
  <2>1. mem'[2 + Slot(Len(posted) + 1)] = r.head
    BY <1>4, SlotsOf DEF QueueInv
  <2>2. \A i \in Open : mem'[2 + Slot(i)] = mem[2 + Slot(i)]
    <3> SUFFICES ASSUME NEW i \in Open PROVE mem'[2 + Slot(i)] = mem[2 + Slot(i)]
      OBVIOUS
    <3>1. i \in Nat \ {0} /\ i < Len(posted) + 1 /\ Len(posted) + 1 < i + queue_num
      BY <1>0, <1>1, <1>9
    <3>2. Slot(i) # Slot(Len(posted) + 1) /\ Slot(i) \in Slots
      BY <1>0, <3>1, SlotsOf DEF QueueInv
    <3> QED BY <1>4, <3>2, SlotsOf DEF QueueInv
  <2>3. ~ (Len(posted) + 1 <= Done)
    BY <1>0
  <2>4. \A i \in Open : posted'[i] = posted[i]
    BY <1>9
  <2> QED BY <1>3, <1>5, <1>6, <2>1, <2>2, <2>3, <2>4 DEF QueueInv, RingsHold
<1>16. \A i \in Open : posted'[i] = posted[i]
  BY <1>9
<1> QED BY <1>6, <1>7, <1>8, <1>10, <1>12, <1>13, <1>14, <1>15, <1>16 DEF QueueInv

\* The driver takes an entry: its request is under way no longer, and those
\* behind it move up.
LEMMA ReclaimStep ==
  ASSUME Suits, QueueInv, Reclaim
  PROVE /\ QueueInv' /\ Done > 0 /\ Done' = Done - 1
        /\ Len(posted') = Len(posted) - 1
        /\ \A i \in 1..(Len(posted) - 1) :
             posted'[i] = posted[i + 1] /\ BufferOf(i)' = BufferOf(i + 1)
<1>0. /\ IdxMod \in Nat \ {0} /\ QueueMax \in Nat \ {0} /\ QueueMax < IdxMod
      /\ queue_num \in Nat \ {0} /\ queue_num <= QueueMax /\ IdxMod % queue_num = 0
      /\ Len(posted) \in Nat /\ seen \in Nat /\ seen < IdxMod
      /\ Done \in Nat /\ Done <= Len(posted) /\ Len(posted) <= queue_num
  BY Numbers DEF QueueInv, CursorInv
<1>1. Done > 0
  <2>1. Wrap(seen + 0) = seen
    BY <1>0 DEF Wrap
  <2>2. used_idx = Wrap(seen + Done) /\ seen # used_idx
    BY DEF QueueInv, CursorInv, Reclaim
  <2> QED BY <1>0, <2>1, <2>2
<1>2. /\ posted' \in Seq(Requests) /\ Len(posted') = Len(posted) - 1
      /\ \A i \in 1..(Len(posted) - 1) : posted'[i] = posted[i + 1]
  BY DEF QueueInv, QueueTypes, Reclaim
<1>3. /\ UNCHANGED <<queue_num, queue_pfn, status, last_avail, disk, layout, mem>>
      /\ UNCHANGED <<op, buf, used_idx, used>> /\ seen' = Wrap(seen + 1)
  BY DEF Reclaim, registers, chains
<1>4. Heads' = Heads /\ \A h : DataOf(h)' = DataOf(h)
  BY <1>3 DEF Heads, DataOf
<1>5. seen' \in 0..(IdxMod - 1) /\ \A n \in Nat : Wrap(seen' + n) = Wrap(seen + (n + 1))
  <2>1. seen + 1 \in Nat
    BY <1>0
  <2>2. /\ Wrap(seen + 1) \in 0..(IdxMod - 1)
        /\ \A n \in Nat : Wrap(Wrap(seen + 1) + n) = Wrap((seen + 1) + n)
    <3>1. \A m, n \in Nat : Wrap(m) \in 0..(IdxMod - 1) /\ Wrap(Wrap(m) + n) = Wrap(m + n)
      BY Forward
    <3> QED BY <2>1, <3>1
  <2>3. \A n \in Nat : (seen + 1) + n = seen + (n + 1)
    BY <1>0
  <2> QED BY <1>3, <2>2, <2>3
<1>6. PICK n \in Nat : n = Done - 1
  BY <1>0, <1>1
<1>7. PICK m \in Nat : m = Len(posted) - 1
  <2>1. Len(posted) - 1 \in Nat
    BY <1>0, <1>1
  <2> QED BY <2>1
<1>8. Done' = n
  <2>1. used_idx = Wrap(seen' + n)
    <3>1. n + 1 = Done
      BY <1>0, <1>6
    <3> QED BY <1>5, <3>1 DEF QueueInv, CursorInv
  <2>2. n \in 0..QueueMax
    BY <1>0, <1>6
  <2>3. \A r \in 0..(IdxMod - 1), k \in 0..QueueMax : Wrap(Wrap(r + k) + IdxMod - r) = k
    BY Between
  <2>4. Wrap(Wrap(seen' + n) + IdxMod - seen') = n
    BY <1>5, <2>2, <2>3
  <2>5. Done' = Wrap(used_idx' + IdxMod - seen')
    BY DEF Done, Wrap
  <2> QED BY <1>3, <2>1, <2>4, <2>5
<1>9. CursorInv'
  <2>1. Wrap(seen' + n) = Wrap(seen + Done) /\ Wrap(seen' + m) = Wrap(seen + Len(posted))
    <3>1. n + 1 = Done /\ m + 1 = Len(posted)
      BY <1>0, <1>6, <1>7
    <3> QED BY <1>5, <3>1
  <2>2. Len(posted') = m /\ n <= m /\ m <= queue_num'
    BY <1>0, <1>2, <1>3, <1>6, <1>7
  <2> QED BY <1>3, <1>8, <2>1, <2>2 DEF QueueInv, CursorInv
<1>10. Open' = 1..m /\ \A i \in Open' : /\ i + 1 \in Open /\ posted'[i] = posted[i + 1]
                                        /\ i \in Nat /\ (i + 1 <= Done <=> i <= n)
  BY <1>0, <1>2, <1>6, <1>7 DEF Open
<1>11. QueueTypes'
  <2>1. \A i \in 1..Len(posted') : posted'[i].head \in Heads'
    <3>1. \A i \in 1..Len(posted) : posted[i].head \in Heads
      BY DEF QueueInv, QueueTypes
    <3> QED BY <1>4, <1>10, <3>1 DEF Open
  <2>2. queue_pfn # 0
    BY <1>0, <1>1 DEF QueueInv, QueueTypes
  <2> QED BY <1>2, <1>3, <1>5, <2>1, <2>2 DEF QueueInv, QueueTypes
<1>12. \A i \in Open' : BufferOf(i)' = BufferOf(i + 1)
  BY <1>3, <1>4, <1>10 DEF BufferOf
<1>13. \A i \in Open' : Slot(i)' = Slot(i + 1)
  <2> SUFFICES ASSUME NEW i \in Open' PROVE Slot(i)' = Slot(i + 1)
    OBVIOUS
  <2>1. i - 1 \in Nat /\ seen + 1 \in Nat
    BY <1>0, <1>10
  <2>2. \A a, k \in Nat : ((a % IdxMod) + k) % queue_num = (a + k) % queue_num
    BY <1>0, ModAdd
  <2>3. (Wrap(seen + 1) + (i - 1)) % queue_num = ((seen + 1) + (i - 1)) % queue_num
    BY <2>1, <2>2 DEF Wrap
  <2>4. (seen + 1) + (i - 1) = seen + ((i + 1) - 1)
    BY <1>0, <1>10
  <2> QED BY <1>3, <2>3, <2>4 DEF Slot
<1>14. HeadsDiffer'
  <2> SUFFICES ASSUME NEW i \in Open', NEW j \in Open', posted'[i].head = posted'[j].head
               PROVE i = j
    BY DEF HeadsDiffer
  <2>1. posted[i + 1].head = posted[j + 1].head /\ i + 1 \in Open /\ j + 1 \in Open
    BY <1>10
  <2>2. i + 1 = j + 1
    BY <2>1 DEF QueueInv, HeadsDiffer
  <2> QED BY <1>10, <2>2
<1>15. ChainsHold'
  <2>1. \A h : Linked(mem, h)' <=> Linked(mem, h)
    BY <1>3, <1>4 DEF Linked
  <2> QED BY <1>3, <1>10, <2>1 DEF QueueInv, ChainsHold
<1>16. BuffersHold'
  <2> SUFFICES ASSUME NEW i \in Open', i > n
               PROVE IF i = n + 1 /\ posted'[i].op = "read"
                     THEN BufferOf(i)' \in Transfers(disk, posted'[i].val)
                     ELSE BufferOf(i)' = posted'[i].val
    BY <1>3, <1>8 DEF BuffersHold, Transfers
  <2>0. i \in Nat /\ i + 1 \in Open /\ n + 1 = Done
    <3>1. n + 1 = Done
      BY <1>0, <1>6
    <3> QED BY <1>10, <3>1, Zenon
  <2>1. i + 1 \in Open /\ i + 1 > Done /\ (i = n + 1 <=> i + 1 = Done + 1)
    BY <1>0, <2>0
  <2>2. IF i + 1 = Done + 1 /\ posted[i + 1].op = "read"
        THEN BufferOf(i + 1) \in Transfers(disk, posted[i + 1].val)
        ELSE BufferOf(i + 1) = posted[i + 1].val
    BY <2>1 DEF QueueInv, BuffersHold
  <2> QED BY <1>10, <1>12, <2>1, <2>2
<1>17. RingsHold'
  <2>1. \A i \in Open' : IF i + 1 <= Done THEN used[Slot(i + 1)] = posted[i + 1].head
                                          ELSE mem[2 + Slot(i + 1)] = posted[i + 1].head
    BY <1>10 DEF QueueInv, RingsHold
  <2> QED BY <1>3, <1>8, <1>10, <1>13, <2>1 DEF RingsHold
<1>18. Open' = 1..(Len(posted) - 1)
  BY <1>7, <1>10
<1> QED BY <1>1, <1>2, <1>6, <1>8, <1>9, <1>11, <1>12, <1>14, <1>15, <1>16, <1>17, <1>18
        DEF QueueInv

\* MoveData moves data between the disk and the buffer of the oldest request.
LEMMA Moved ==
  ASSUME Suits, QueueInv, Working, MoveData
  PROVE /\ buf' \in [Cells -> Sectors] /\ disk' \in Sectors
        /\ IF posted[Done + 1].op = "write"
           THEN disk' \in Transfers(posted[Done + 1].val, disk) ELSE disk' = disk
        /\ IF posted[Done + 1].op = "read"
           THEN buf'[DataOf(NextHead)] \in Transfers(disk, posted[Done + 1].val)
           ELSE buf'[DataOf(NextHead)] = posted[Done + 1].val
        /\ \A d \in Cells \ {DataOf(NextHead)} : buf'[d] = buf[d]
<1> DEFINE o == posted[Done + 1]
           d == DataOf(NextHead)
<1>1. /\ Done + 1 \in Open /\ NextHead = o.head /\ Type = o.op /\ Payload = d
  BY OldestRequest
<1>2. d \in Cells /\ o.val \in Sectors /\ disk \in Sectors /\ buf \in [Cells -> Sectors]
  BY <1>1, OpenRequest DEF QueueInv, QueueTypes
<1>3. IF o.op = "read" THEN buf[d] \in Transfers(disk, o.val) ELSE buf[d] = o.val
  <2>1. Done + 1 > Done
    BY DEF QueueInv, CursorInv
  <2> QED BY <1>1, <2>1 DEF QueueInv, BuffersHold, BufferOf
<1> HIDE DEF o, d
<1>4. CASE o.op = "read"
  <2>1. PICK x \in Transfers(disk, buf[d]) : buf' = [buf EXCEPT ![d] = x]
    BY <1>1, <1>4 DEF MoveData
  <2>2. Transfers(disk, buf[d]) \subseteq Transfers(disk, o.val)
        /\ Transfers(disk, o.val) \subseteq Sectors
    BY <1>2, <1>3, <1>4, TransferFacts
  <2>3. disk' = disk
    BY <1>1, <1>4 DEF MoveData
  <2> QED BY <1>2, <1>4, <2>1, <2>2, <2>3 DEF o, d
<1>5. CASE o.op # "read"
  <2>1. buf' = buf /\ buf[d] = o.val
    BY <1>1, <1>3, <1>5 DEF MoveData
  <2>2. IF o.op = "write" THEN disk' \in Transfers(o.val, disk) ELSE disk' = disk
    BY <1>1, <2>1 DEF MoveData
  <2>3. disk' \in Sectors
    BY <1>2, <2>2, TransferFacts
  <2> QED BY <1>2, <1>5, <2>1, <2>2, <2>3 DEF o, d
<1> QED BY <1>4, <1>5

\* What is left of the invariant when the oldest request has been worked on.
LEMMA Worked ==
  ASSUME Suits, QueueInv, Working, MoveData,
         used' = [used EXCEPT ![used_idx % queue_num] = NextHead] \/ used' = used,
         UNCHANGED <<registers, chains, seen, posted>>
  PROVE /\ QueueTypes' /\ HeadsDiffer' /\ ChainsHold' /\ Open' = Open
        /\ \A i : Slot(i)' = Slot(i)
        /\ \A i \in Open : i # Done + 1 => BufferOf(i)' = BufferOf(i)
        /\ \A i \in {Done + 1} : BufferOf(i)' = buf'[DataOf(NextHead)]
        /\ \A i \in Open : i <= Done => used'[Slot(i)] = posted[i].head
<1>0. /\ queue_num \in Nat \ {0} /\ queue_num <= QueueMax
      /\ Len(posted) \in Nat /\ Done \in Nat
      /\ Done < Len(posted) /\ Len(posted) <= queue_num
  BY Numbers, OldestRequest DEF QueueInv, CursorInv
<1>1. /\ UNCHANGED <<queue_num, queue_pfn, status, layout, mem, op>>
      /\ UNCHANGED <<seen, posted>>
  BY DEF registers, chains
<1>2. NextHead = posted[Done + 1].head /\ Done + 1 \in Open /\ NextHead \in Nat
  BY OldestRequest, OpenRequest DEF QueueInv
<1>3. used_idx % queue_num = Slot(Done + 1) /\ Slot(Done + 1) \in Slots
  BY <1>0, SlotsOf DEF QueueInv
<1>4. used' \in [Slots -> Nat]
  BY <1>2 DEF QueueInv, QueueTypes
<1>5. /\ Heads' = Heads /\ \A h : DataOf(h)' = DataOf(h)
      /\ \A h : Linked(mem, h)' <=> Linked(mem, h)
  BY <1>1 DEF Heads, DataOf, Linked
<1>6. QueueTypes'
  BY <1>1, <1>4, <1>5, Moved DEF QueueInv, QueueTypes
<1>7. Open' = Open /\ (\A i : Slot(i)' = Slot(i)) /\ HeadsDiffer' /\ ChainsHold'
  BY <1>1, <1>5 DEF Open, Slot, QueueInv, HeadsDiffer, ChainsHold
<1>8. \A i \in Open : i # Done + 1 => BufferOf(i)' = BufferOf(i)
  <2> SUFFICES ASSUME NEW i \in Open, i # Done + 1 PROVE BufferOf(i)' = BufferOf(i)
    OBVIOUS
  <2>1. posted[i].head \in Heads /\ NextHead \in Heads /\ DataOf(posted[i].head) \in Cells
    BY <1>2, OpenRequest DEF QueueInv
  <2>2. posted[i].head # NextHead
    BY <1>2 DEF QueueInv, HeadsDiffer
  <2>3. DataOf(posted[i].head) # DataOf(NextHead)
    BY <2>1, <2>2, Apart DEF QueueInv, QueueTypes
  <2> QED BY <1>1, <1>5, <2>1, <2>3, Moved DEF BufferOf
<1>9. \A i \in {Done + 1} : BufferOf(i)' = buf'[DataOf(NextHead)]
  BY <1>1, <1>2, <1>5 DEF BufferOf
<1>10. \A i \in Open : i <= Done => used'[Slot(i)] = posted[i].head
  <2> SUFFICES ASSUME NEW i \in Open, i <= Done
               PROVE used'[Slot(i)] = posted[i].head
    OBVIOUS
  <2>1. i \in Nat \ {0} /\ i < Done + 1 /\ Done + 1 < i + queue_num
    BY <1>0 DEF Open
  <2>2. Slot(i) # Slot(Done + 1) /\ Slot(i) \in Slots
    BY <1>0, <2>1, SlotsOf DEF QueueInv
  <2>3. used'[Slot(i)] = used[Slot(i)]
    BY <1>3, <2>2 DEF QueueInv, QueueTypes
  <2> QED BY <2>3 DEF QueueInv, RingsHold
<1> QED BY <1>6, <1>7, <1>8, <1>9, <1>10

\* A failed attempt leaves the request where it was, with a buffer that a second
\* attempt fills again.
LEMMA FailStep ==
  ASSUME Suits, QueueInv, FailMoved \/ FailUsed
  PROVE QueueInv' /\ Done' = Done
<1>0. /\ Working /\ MoveData
      /\ used' = [used EXCEPT ![used_idx % queue_num] = NextHead] \/ used' = used
      /\ UNCHANGED <<registers, chains, seen, posted>>
      /\ UNCHANGED <<last_avail, used_idx>>
  BY DEF FailMoved, FailUsed
<1>1. /\ QueueTypes' /\ HeadsDiffer' /\ ChainsHold' /\ Open' = Open
      /\ \A i : Slot(i)' = Slot(i)
      /\ \A i \in Open : i # Done + 1 => BufferOf(i)' = BufferOf(i)
      /\ \A i \in {Done + 1} : BufferOf(i)' = buf'[DataOf(NextHead)]
      /\ \A i \in Open : i <= Done => used'[Slot(i)] = posted[i].head
  BY <1>0, Worked
<1>2. UNCHANGED <<queue_num, mem, posted, seen, used_idx, last_avail>>
  BY <1>0 DEF registers, chains
<1>3. Done' = Done
  BY <1>2 DEF Done
<1>4. CursorInv'
  BY <1>2, <1>3 DEF QueueInv, CursorInv
<1>5. BuffersHold'
  <2> SUFFICES ASSUME NEW i \in Open, i > Done
               PROVE IF i = Done + 1 /\ posted[i].op = "read"
                     THEN BufferOf(i)' \in Transfers(disk', posted[i].val)
                     ELSE BufferOf(i)' = posted[i].val
    BY <1>1, <1>2, <1>3 DEF BuffersHold, Transfers
  <2>1. CASE i = Done + 1
    BY <1>0, <1>1, <2>1, Moved
  <2>2. CASE i # Done + 1
    BY <1>1, <2>2 DEF QueueInv, BuffersHold
  <2> QED BY <2>1, <2>2
<1>6. RingsHold'
  BY <1>1, <1>2, <1>3 DEF QueueInv, RingsHold
<1> QED BY <1>1, <1>3, <1>4, <1>5, <1>6 DEF QueueInv

\* A request that completes has its head in the next slot of the used ring.
LEMMA ProcessStep ==
  ASSUME Suits, QueueInv, Process
  PROVE QueueInv' /\ Done' = Done + 1
<1>0. /\ Working /\ MoveData
      /\ used' = [used EXCEPT ![used_idx % queue_num] = NextHead]
      /\ UNCHANGED <<registers, chains, seen, posted>>
  BY DEF Process
<1>1. /\ QueueTypes' /\ HeadsDiffer' /\ ChainsHold' /\ Open' = Open
      /\ \A i : Slot(i)' = Slot(i)
      /\ \A i \in Open : i # Done + 1 => BufferOf(i)' = BufferOf(i)
      /\ \A i \in Open : i <= Done => used'[Slot(i)] = posted[i].head
  BY <1>0, Worked
<1>2. UNCHANGED <<queue_num, mem, posted, seen>>
  BY <1>0 DEF registers, chains
<1>3. /\ queue_num \in Nat \ {0} /\ queue_num <= QueueMax /\ QueueMax \in Nat
      /\ Len(posted) \in Nat /\ Done \in Nat /\ seen \in Nat /\ seen \in 0..(IdxMod - 1)
      /\ Done < Len(posted) /\ Len(posted) <= queue_num
  BY <1>0, Numbers, OldestRequest DEF QueueInv, CursorInv, QueueTypes
<1>4. used_idx' = Wrap(seen + (Done + 1)) /\ last_avail' = Wrap(seen + (Done + 1))
  <2>1. seen + Done \in Nat /\ (seen + Done) + 1 = seen + (Done + 1)
    BY <1>3
  <2>2. \A a, k \in Nat : Wrap(Wrap(a) + k) = Wrap(a + k)
    BY Forward
  <2>3. Wrap(Wrap(seen + Done) + 1) = Wrap((seen + Done) + 1)
    BY <2>1, <2>2
  <2> QED BY <2>1, <2>3 DEF QueueInv, CursorInv, Process
<1>5. Done' = Done + 1
  <2>1. Done + 1 \in 0..QueueMax
    BY <1>3
  <2>2. Wrap(Wrap(seen + (Done + 1)) + IdxMod - seen) = Done + 1
    <3>1. \A r \in 0..(IdxMod - 1), k \in 0..QueueMax : Wrap(Wrap(r + k) + IdxMod - r) = k
      BY Between
    <3> QED BY <1>3, <2>1, <3>1
  <2>3. Done' = Wrap(used_idx' + IdxMod - seen')
    BY DEF Done, Wrap
  <2> QED BY <1>2, <1>4, <2>2, <2>3
<1>6. CursorInv'
  BY <1>2, <1>3, <1>4, <1>5 DEF QueueInv, CursorInv
<1>7. \A i \in Open : i \in Nat
  BY <1>3 DEF Open
<1>8. BuffersHold'
  <2> SUFFICES ASSUME NEW i \in Open, i > Done + 1
               PROVE /\ BufferOf(i)' = posted[i].val
                     /\ posted[i].val \in Transfers(disk', posted[i].val)
    BY <1>1, <1>2, <1>5 DEF BuffersHold, Transfers
  <2>1. i > Done /\ i # Done + 1
    BY <1>3, <1>7
  <2>2. BufferOf(i) = posted[i].val
    BY <2>1 DEF QueueInv, BuffersHold
  <2> QED BY <1>1, <2>1, <2>2 DEF Transfers
<1>9. RingsHold'
  <2>1. used'[Slot(Done + 1)] = posted[Done + 1].head
    <3>1. used_idx % queue_num = Slot(Done + 1) /\ Slot(Done + 1) \in Slots
      BY <1>3, SlotsOf DEF QueueInv
    <3> QED BY <1>0, <3>1, OldestRequest DEF QueueInv, QueueTypes
  <2> QED BY <1>1, <1>2, <1>3, <1>5, <1>7, <2>1 DEF QueueInv, RingsHold
<1> QED BY <1>1, <1>5, <1>6, <1>8, <1>9 DEF QueueInv

\* Every step of driver and device keeps the invariant.
LEMMA QueueStep == Suits /\ QueueInv /\ [Next]_vars => QueueInv'
BY RegisterStep, PostStep, ReclaimStep, FailStep, ProcessStep, QuietDevice
   DEF Next, MemoryAccess, Device

\* The driver keeps its layout.
LEMMA LayoutStep == [Next]_vars => layout' = layout /\ (Suits' <=> Suits)
<1> SUFFICES ASSUME [Next]_vars PROVE layout' = layout /\ (Suits' <=> Suits)
  OBVIOUS
<1>1. layout' = layout
  BY DEF Next, RegisterWrite, MemoryAccess, Device, WriteQueueNum, WriteQueuePfn,
         WriteStatus, Notify, Post, Reclaim, Process, FailEarly, FailMoved, FailUsed,
         ProcessDone, vars, chains
<1> QED BY <1>1 DEF Suits

\* For a driver whose layout suits the device, rings, cursors, chains and buffers
\* describe the same requests under way in every state.
THEOREM QueueInvariant == Spec => [](Suits => QueueInv)
<1>1. (Suits => QueueInv) /\ [Next]_vars => (Suits => QueueInv)'
  BY QueueStep, LayoutStep
<1> QED BY <1>1, QueueInit, PTL DEF Spec

-----------------------------------------------------------------------------
(***************************************************************************)
(* The refinement.                                                         *)
(***************************************************************************)

\* The answer to request i.
Answer(i) == [head |-> posted[i].head, data |-> BufferOf(i)]

\* The mapping has an answer for each request up to Done.
AnswersInv ==
  /\ Answers \in Seq(AnswerSet) /\ Len(Answers) = Done
  /\ \A i \in 1..Done : Answers[i] = Answer(i)

\* The refinement mapping in terms of the requests.
LEMMA AnswersAre == Suits /\ QueueInv => AnswersInv
<1> SUFFICES ASSUME Suits, QueueInv PROVE AnswersInv
  OBVIOUS
<1>0. Done \in Nat /\ Len(posted) \in Nat /\ Done <= Len(posted)
  BY Numbers DEF QueueInv, CursorInv
<1>1. Answers = [i \in 1..Done |-> UsedEntry(i - 1)]
  BY DEF Answers, Done
<1>2. ASSUME NEW i \in 1..Done
      PROVE UsedEntry(i - 1) = Answer(i) /\ Answer(i) \in AnswerSet
  <2>1. i \in Open /\ i <= Done
    BY <1>0 DEF Open
  <2>2. used[Slot(i)] = posted[i].head
    BY <2>1 DEF QueueInv, RingsHold
  <2>3. UsedEntry(i - 1) = [head |-> posted[i].head, data |-> buf[DataOf(posted[i].head)]]
    BY <2>2 DEF UsedEntry, Slot, DataOf
  <2>4. posted[i].head \in Cells /\ DataOf(posted[i].head) \in Cells
    BY <2>1, OpenRequest DEF QueueInv
  <2>5. BufferOf(i) \in Sectors
    BY <2>4 DEF BufferOf, QueueInv, QueueTypes
  <2> QED BY <2>3, <2>4, <2>5 DEF Answer, BufferOf, AnswerSet
<1>3. Answers \in [1..Done -> AnswerSet]
  BY <1>1, <1>2
<1> QED BY <1>0, <1>1, <1>2, <1>3 DEF AnswersInv

\* The same in the state after a step.
LEMMA AnswersNext == (Suits /\ QueueInv)' => AnswersInv'
BY AnswersAre, PTL

\* Two lists of answers are equal when their entries are.
LEMMA SameAnswers ==
  ASSUME Suits, QueueInv, Suits', QueueInv', Done' = Done,
         \A i \in 1..Done : Answer(i)' = Answer(i)
  PROVE Answers' = Answers
<1>1. /\ Answers \in Seq(AnswerSet) /\ Len(Answers) = Done
      /\ \A i \in 1..Done : Answers[i] = Answer(i)
  BY AnswersAre DEF AnswersInv
<1>2. /\ Answers' \in Seq(AnswerSet) /\ Len(Answers') = Done'
      /\ \A i \in 1..Done' : Answers'[i] = Answer(i)'
  BY AnswersNext DEF AnswersInv
<1>3. Len(Answers') = Len(Answers) /\ \A i \in 1..Len(Answers') : Answers'[i] = Answers[i]
  BY <1>1, <1>2
<1> HIDE DEF Answers
<1> QED BY <1>1, <1>2, <1>3, SeqEqual

\* The initial state maps to the initial state.
LEMMA RefineInit == Init => Queue!Init
<1> SUFFICES ASSUME Init PROVE Queue!Init
  OBVIOUS
<1>1. CASE Suits
  <2>1. QueueInv /\ Len(posted) = 0
    BY QueueInit DEF Init
  <2>2. Done = 0
    BY <2>1 DEF QueueInv, CursorInv
  <2>3. Answers = <<>>
    BY <1>1, <2>1, <2>2, AnswersAre, EmptySeq DEF AnswersInv
  <2> QED BY <1>1, <2>3 DEF Init, Queue!Init
<1>2. CASE ~Suits
  BY <1>2 DEF Queue!Init
<1> QED BY <1>1, <1>2

\* What the mapping shows of the state.
Shown == <<IF Suits THEN posted ELSE <<>>, IF Suits THEN Answers ELSE <<>>,
           IF Suits THEN disk ELSE Blank>>

\* Post maps to Post, Reclaim to Take, Process to Answer, an attempt that fails
\* after a write to Store, and everything else to a stuttering step.
LEMMA RefineStep == (Suits => QueueInv) /\ [Next]_vars => [Queue!Next]_Shown
<1> SUFFICES ASSUME Suits => QueueInv, [Next]_vars PROVE [Queue!Next]_Shown
  OBVIOUS
<1>1. CASE ~Suits
  BY <1>1, LayoutStep DEF Shown
<1>2. CASE Suits
  <2>0. /\ Suits /\ Suits' /\ QueueInv /\ QueueInv'
    BY <1>2, QueueStep, LayoutStep
  <2>1. /\ Len(posted) \in Nat /\ Done \in Nat /\ Done <= Len(posted) /\ Open = 1..Len(posted)
    BY <2>0, Numbers DEF QueueInv, CursorInv, Open
  <2>2. /\ Answers \in Seq(AnswerSet) /\ Len(Answers) = Done
        /\ \A i \in 1..Done : Answers[i] = Answer(i)
    BY <2>0, AnswersAre DEF AnswersInv
  <2>3. /\ Answers' \in Seq(AnswerSet) /\ Len(Answers') = Done'
        /\ \A i \in 1..Done' : Answers'[i] = Answer(i)'
    BY <2>0, AnswersNext DEF AnswersInv
  <2>4. \A i \in 1..Done : i \in Open /\ i # Done + 1
    BY <2>1
  <2>5. CASE RegisterWrite \/ FailEarly \/ ProcessDone \/ UNCHANGED vars
    <3>1. UNCHANGED <<posted, disk, buf, layout>> /\ Done' = Done
      BY <2>0, <2>5, RegisterStep, QuietDevice
         DEF RegisterWrite, WriteQueueNum, WriteQueuePfn, WriteStatus, Notify, FailEarly,
             ProcessDone, vars, chains
    <3>2. \A i \in 1..Done : Answer(i)' = Answer(i)
      BY <3>1 DEF Answer, BufferOf, DataOf
    <3>3. Answers' = Answers
      BY <2>0, <3>1, <3>2, SameAnswers
    <3> QED BY <2>0, <3>1, <3>3 DEF Shown
  <2>6. ASSUME NEW r \in Requests, Post(r) PROVE Queue!Post(r)
    <3>1. Done' = Done /\ \A i \in Open : posted'[i] = posted[i] /\ BufferOf(i)' = BufferOf(i)
      BY <2>0, <2>6, PostStep
    <3>2. \A i \in 1..Done : Answer(i)' = Answer(i)
      BY <2>4, <3>1 DEF Answer
    <3>3. Answers' = Answers
      BY <2>0, <3>1, <3>2, SameAnswers
    <3> QED BY <2>0, <2>6, <3>3 DEF Post, Queue!Post
  <2>7. CASE Reclaim
    <3>1. /\ Done > 0 /\ Done' = Done - 1
          /\ \A i \in 1..(Len(posted) - 1) :
               posted'[i] = posted[i + 1] /\ BufferOf(i)' = BufferOf(i + 1)
      BY <2>0, <2>7, ReclaimStep
    <3>2. Answers # <<>>
      BY <2>1, <2>2, <3>1
    <3>3. /\ Tail(Answers) \in Seq(AnswerSet) /\ Len(Tail(Answers)) = Done - 1
          /\ \A i \in 1..(Done - 1) : Tail(Answers)[i] = Answers[i + 1]
      <4> HIDE DEF Answers
      <4> QED BY <2>1, <2>2, <3>1, <3>2, HeadTailProperties
    <3>4. \A i \in 1..(Done - 1) : Answers'[i] = Tail(Answers)[i]
      <4> SUFFICES ASSUME NEW i \in 1..(Done - 1) PROVE Answers'[i] = Tail(Answers)[i]
        OBVIOUS
      <4>1. i \in 1..(Len(posted) - 1) /\ i + 1 \in 1..Done
        BY <2>1
      <4>2. Answer(i)' = [head |-> posted[i + 1].head, data |-> BufferOf(i + 1)]
        BY <3>1, <4>1 DEF Answer
      <4>3. Answers'[i] = Answer(i)' /\ Answers[i + 1] = Answer(i + 1)
        BY <2>2, <2>3, <3>1, <4>1
      <4> QED BY <3>3, <4>2, <4>3 DEF Answer
    <3>5. Answers' = Tail(Answers)
      <4> HIDE DEF Answers
      <4> QED BY <2>3, <3>1, <3>3, <3>4, SeqEqual
    <3>6. posted' = Tail(posted) /\ disk' = disk
      BY <2>7 DEF Reclaim
    <3>7. Queue!Take
      BY <2>0, <3>2, <3>5, <3>6 DEF Queue!Take
    <3> QED BY <3>7 DEF Queue!Next
  <2>8. ASSUME Working, MoveData,
               used' = [used EXCEPT ![used_idx % queue_num] = NextHead] \/ used' = used,
               UNCHANGED <<registers, chains, seen, posted>>
        PROVE /\ Done < Len(posted) /\ posted' = posted
              /\ \A i \in 1..Done : Answer(i)' = Answer(i)
              /\ \A i \in {Done + 1} : Answer(i)' = [head |-> posted[Done + 1].head,
                                                     data |-> buf'[DataOf(NextHead)]]
              /\ IF posted[Done + 1].op = "write"
                 THEN disk' \in Transfers(posted[Done + 1].val, disk) ELSE disk' = disk
              /\ buf'[DataOf(NextHead)] \in IF posted[Done + 1].op = "read"
                                            THEN Transfers(disk, posted[Done + 1].val)
                                            ELSE {posted[Done + 1].val}
    <3>1. /\ \A i \in Open : i # Done + 1 => BufferOf(i)' = BufferOf(i)
          /\ \A i \in {Done + 1} : BufferOf(i)' = buf'[DataOf(NextHead)]
      BY <2>0, <2>8, Worked
    <3>2. Done < Len(posted)
      BY <2>0, <2>8, OldestRequest
    <3>3. posted' = posted
      BY <2>8
    <3>4. \A i \in 1..Done : Answer(i)' = Answer(i)
      BY <2>4, <3>1, <3>3 DEF Answer
    <3>5. \A i \in {Done + 1} : Answer(i)' = [head |-> posted[Done + 1].head,
                                              data |-> buf'[DataOf(NextHead)]]
      BY <3>1, <3>3 DEF Answer
    <3> QED BY <2>0, <2>8, <3>2, <3>3, <3>4, <3>5, Moved
  <2>9. CASE FailMoved \/ FailUsed
    <3>0. /\ Working /\ MoveData
          /\ used' = [used EXCEPT ![used_idx % queue_num] = NextHead] \/ used' = used
          /\ UNCHANGED <<registers, chains, seen, posted>>
      BY <2>9 DEF FailMoved, FailUsed
    <3>1. /\ Done < Len(posted) /\ posted' = posted
          /\ \A i \in 1..Done : Answer(i)' = Answer(i)
          /\ IF posted[Done + 1].op = "write"
             THEN disk' \in Transfers(posted[Done + 1].val, disk) ELSE disk' = disk
      BY <2>8, <3>0
    <3>2. Done' = Done
      BY <2>0, <2>9, FailStep
    <3>3. Answers' = Answers
      BY <2>0, <3>1, <3>2, SameAnswers
    <3>4. CASE posted[Done + 1].op = "write"
      <4>1. Queue!Store
        BY <2>0, <2>2, <3>1, <3>3, <3>4 DEF Queue!Store, Queue!Pending, Queue!Oldest
      <4> QED BY <4>1 DEF Queue!Next
    <3>5. CASE posted[Done + 1].op # "write"
      BY <2>0, <3>1, <3>3, <3>5 DEF Shown
    <3> QED BY <3>4, <3>5
  <2>10. CASE Process
    <3>0. /\ Working /\ MoveData
          /\ used' = [used EXCEPT ![used_idx % queue_num] = NextHead] \/ used' = used
          /\ UNCHANGED <<registers, chains, seen, posted>>
      BY <2>10 DEF Process
    <3>1. PICK x : x = buf'[DataOf(NextHead)]
      OBVIOUS
    <3>2. PICK e : e = [head |-> posted[Done + 1].head, data |-> x]
      OBVIOUS
    <3>3. /\ Done < Len(posted) /\ posted' = posted
          /\ \A i \in 1..Done : Answer(i)' = Answer(i)
          /\ \A i \in {Done + 1} : Answer(i)' = e
          /\ IF posted[Done + 1].op = "write"
             THEN disk' \in Transfers(posted[Done + 1].val, disk) ELSE disk' = disk
          /\ x \in IF posted[Done + 1].op = "read" THEN Transfers(disk, posted[Done + 1].val)
                                                   ELSE {posted[Done + 1].val}
      BY <2>8, <3>0, <3>1, <3>2
    <3>4. Done' = Done + 1
      BY <2>0, <2>10, ProcessStep
    <3>5. Answers'[Done + 1] = e /\ e \in AnswerSet
      <4>1. Done + 1 \in 1..(Done + 1)
        BY <2>1
      <4>2. Answers'[Done + 1] \in AnswerSet
        BY <2>3, <3>4, <4>1, ElementOfSeq
      <4> QED BY <2>3, <3>3, <3>4, <4>1, <4>2
    <3>6. Answers' = Append(Answers, e)
      <4>1. /\ Append(Answers, e) \in Seq(AnswerSet)
            /\ Len(Append(Answers, e)) = Done + 1
            /\ \A i \in 1..Done : Append(Answers, e)[i] = Answers[i]
            /\ Append(Answers, e)[Done + 1] = e
        BY <2>2, <3>5, AppendProperties
      <4>2. \A i \in 1..Done : Answers'[i] = Answers[i]
        BY <2>1, <2>2, <2>3, <3>3, <3>4
      <4>3. \A i \in 1..(Done + 1) : Answers'[i] = Append(Answers, e)[i]
        BY <2>1, <3>5, <4>1, <4>2
      <4> HIDE DEF Answers
      <4> QED BY <2>3, <3>4, <4>1, <4>3, SeqEqual
    <3>7. Queue!Answer
      BY <2>0, <2>2, <3>2, <3>3, <3>6 DEF Queue!Answer, Queue!Pending, Queue!Oldest
    <3> QED BY <3>7 DEF Queue!Next
  <2> QED BY <2>5, <2>6, <2>7, <2>9, <2>10 DEF Next, MemoryAccess, Device, Queue!Next
<1> QED BY <1>1, <1>2

\* To a driver whose layout suits it, the block device implements BlockQueue:
\* requests are answered once each and in order, and a read gets what the last
\* write stored, as far as the transfers went, across the wrap of indices and
\* rings and whatever failed attempts of process_request leave behind.
THEOREM QueueImplements == Spec => InOrderOnce
BY QueueInvariant, RefineInit, RefineStep, PTL DEF Spec, InOrderOnce, Queue!Spec, Shown

-----------------------------------------------------------------------------
(***************************************************************************)
(* The run loop.                                                           *)
(***************************************************************************)

\* Every step of the run loop is one of the block device or leaves it alone.
LEMMA LoopStep == [VmNext]_vmVars => [Next]_vars
<1> SUFFICES ASSUME [VmNext]_vmVars PROVE [Next]_vars
  OBVIOUS
<1>1. CASE GuestStep \/ MmioWrite \/ Handle
  BY <1>1 DEF GuestStep, MmioWrite, Handle, Next
<1>2. CASE Run \/ Check \/ IgnoredExit \/ FinalExit \/ Stop
  BY <1>2 DEF Run, Check, IgnoredExit, FinalExit, Stop
<1>3. CASE UNCHANGED vmVars
  BY <1>3 DEF vmVars
<1> QED BY <1>1, <1>2, <1>3 DEF VmNext

\* The run loop, with stops and further runs at any time, implements the block
\* device on its own, so whatever holds of VirtioBlk holds inside a machine.
THEOREM LoopKeepsDevice == VmSpec => Spec
<1>1. VmInit => Init
  BY DEF VmInit
<1> QED BY <1>1, LoopStep, PTL DEF VmSpec, Spec

\* So the indices agree across stops and further runs as well.
THEOREM CursorsStayInLoop == VmSpec => []CursorsAgree
BY LoopKeepsDevice, CursorsStay, PTL

\* A stop in the middle of a notification and a further run lose nothing: inside
\* a machine the device implements BlockQueue as well.
THEOREM QueueAcrossRuns == VmSpec => InOrderOnce
BY LoopKeepsDevice, QueueImplements, PTL
=============================================================================
