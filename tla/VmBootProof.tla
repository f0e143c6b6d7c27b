---------------------------- MODULE VmBootProof -----------------------------
(***************************************************************************)
(* The safety properties of VmBoot, for every kernel, ramdisk, size of RAM *)
(* and number of vCPUs.                                                    *)
(*                                                                         *)
(* Memory is right because every piece has its place: Right says where a   *)
(* piece may lie and how long it may be, and two pieces at their places    *)
(* meet only when a setup or a kernel is too long (Below).  So as long as  *)
(* nothing oversized was written, no load damages another piece, whatever  *)
(* the order.  What setup_boot hands over is right because the fields it   *)
(* reads follow the pieces in memory (LoadedInv).  The machine is dropped  *)
(* in the right order because the tail of an ordered list is ordered.      *)
(***************************************************************************)
EXTENDS VmBoot, SequenceTheorems, TLAPS

Contents == Files \cup {"long", "protected"} \cup [header : Files, ramdisk : Nat]
Piece == [at : Nat, len : Nat, intact : BOOLEAN, of : Contents]
Memory == [Pieces -> Piece]

\* Piece p may lie at "at" with this length.
Right(p, at, len) ==
  \/ p = "setup" /\ at = SETUP_ADDR /\ len \in 1..32
  \/ p = "cmdline" /\ at = CMDLINE_ADDR /\ len = 1
  \/ p = "pml4" /\ at = PML4_ADDR /\ len = 1
  \/ p = "pdpt" /\ at = PDPT_ADDR /\ len = 1
  \/ p = "pd" /\ at = PD_ADDR /\ len = 1
  \/ p = "gdt" /\ at = GDT_ADDR /\ len = 1
  \/ p = "params" /\ at = BOOT_PARAMS_ADDR /\ len = 1
  \/ p = "kernel" /\ at = KERNEL_LOAD_ADDR /\ len > 0 /\ at + len <= ram
  \/ p = "initramfs" /\ at = INITRAMFS_LOAD_ADDR /\ len > 0 /\ at + len <= ram

\* It does not reach the piece above it.
Below(p, at, len) ==
  /\ p = "setup" => at + len <= CMDLINE_ADDR
  /\ p = "kernel" => at + len <= INITRAMFS_LOAD_ADDR

\* Memory after something oversized was written or not.
Good(m, over) ==
  /\ m \in Memory
  /\ \A p \in Pieces :
       \/ m[p].at = 0 /\ m[p].len = 0
       \/ Right(p, m[p].at, m[p].len)
  /\ ~over => \A p \in Pieces :
                m[p].len > 0 => Below(p, m[p].at, m[p].len) /\ m[p].intact

LoadedInv ==
  /\ kernel_is_bzimage \in BOOLEAN /\ bzimage_header \in Files
  /\ kernel_is_bzimage => bzimage_header \in Kernels
  /\ initramfs_size \in Nat /\ initramfs_size = mem["initramfs"].len
  /\ mem["kernel"].len > 0 =>
       \/ mem["kernel"].of.form = "plain"
       \/ kernel_is_bzimage /\ mem["kernel"].of = bzimage_header

\* What setup_boot has written is there, and nothing it has read has changed.
BootedInv ==
  /\ booted \in {"none", "long", "protected"}
  /\ booted # "none" =>
       /\ booted = Mode /\ cpu = [sregs |-> booted, regs |-> booted]
       /\ mem["gdt"].len = 1 /\ mem["gdt"].of = booted
  /\ booted = "long" => mem["pml4"].len = 1 /\ mem["pdpt"].len = 1 /\ mem["pd"].len = 1
  /\ booted = "protected" =>
       /\ mem["cmdline"].len = 1 /\ mem["params"].len = 1
       /\ mem["params"].of = [header |-> bzimage_header, ramdisk |-> initramfs_size]

MemoryInv ==
  /\ ram \in MIN_RAM..MAX_RAM /\ oversized \in BOOLEAN
  /\ Good(mem, oversized) /\ LoadedInv /\ BootedInv

Holdings == {"hypervisor", "vm", "vcpus", "guest_memory", "disk"}

\* The vCPUs go before guest memory.
Ordered(s) ==
  \A i \in 1..Len(s) : s[i] = "vcpus" => \E j \in 1..Len(s) : i < j /\ s[j] = "guest_memory"

BuildInv ==
  /\ stage \in {"building", "ready", "dropping"} /\ host \in Hosts /\ broke \in BOOLEAN
  /\ done \in 0..11 /\ vcpus \in 0..VcpuCount /\ held \in Seq(Holdings)
  /\ done < 9 => vcpus = 0
  /\ done = 9 => vcpus < VcpuCount
  /\ stage = "building" => done < 11
  /\ stage = "ready" => done = 11 /\ held = Fields
  /\ stage = "dropping" /\ vcpus > 0 => Ordered(held) \/ done = 10

BootInv == MemoryInv /\ BuildInv

-----------------------------------------------------------------------------
(***************************************************************************)
(* Guest memory.                                                           *)
(***************************************************************************)

\* What a load does to each piece.
LEMMA LoadFields ==
  ASSUME NEW m \in Memory, NEW q \in Pieces, NEW at \in Nat, NEW len \in Nat,
         NEW of \in Contents
  PROVE  LET b == load_blob(m, q, at, len, of) IN
         /\ b \in Memory
         /\ b[q].at = at /\ b[q].len = len /\ b[q].intact /\ b[q].of = of
         /\ \A p \in Pieces \ {q} :
              /\ b[p].at = m[p].at /\ b[p].len = m[p].len /\ b[p].of = m[p].of
              /\ b[p].intact <=> m[p].intact /\ ~Overlaps(m, p, at, len)
<1> DEFINE b == load_blob(m, q, at, len, of)
<1>1. b[q] = [at |-> at, len |-> len, intact |-> TRUE, of |-> of]
  BY DEF load_blob
<1>2. b[q] \in Piece
  BY <1>1 DEF Piece
<1>3. ASSUME NEW p \in Pieces, p # q
      PROVE  /\ b[p] \in Piece
             /\ b[p].at = m[p].at /\ b[p].len = m[p].len /\ b[p].of = m[p].of
             /\ b[p].intact <=> m[p].intact /\ ~Overlaps(m, p, at, len)
  <2>1. m[p] \in Piece
    BY DEF Memory
  <2>2. CASE Overlaps(m, p, at, len)
    <3>1. b[p] = [m[p] EXCEPT !.intact = FALSE]
      BY <1>3, <2>2 DEF load_blob
    <3>2. b[p] \in Piece
      BY <2>1, <3>1 DEF Piece
    <3> QED BY <2>1, <2>2, <3>1, <3>2 DEF Piece
  <2>3. CASE ~Overlaps(m, p, at, len)
    <3>1. b[p] = m[p]
      BY <1>3, <2>3 DEF load_blob
    <3> QED BY <2>1, <2>3, <3>1
  <2> QED BY <2>2, <2>3
<1>4. b \in Memory
  <2>1. \A p \in Pieces : b[p] \in Piece
    BY <1>2, <1>3
  <2>2. b = [p \in Pieces |-> b[p]]
    BY DEF load_blob
  <2> HIDE DEF b
  <2> QED BY <2>1, <2>2 DEF Memory
<1>5. b[q].at = at /\ b[q].len = len /\ b[q].intact /\ b[q].of = of
  BY <1>1
<1> HIDE DEF b
<1>6. /\ b \in Memory
      /\ b[q].at = at /\ b[q].len = len /\ b[q].intact /\ b[q].of = of
      /\ \A p \in Pieces \ {q} :
           /\ b[p].at = m[p].at /\ b[p].len = m[p].len /\ b[p].of = m[p].of
           /\ b[p].intact <=> m[p].intact /\ ~Overlaps(m, p, at, len)
  BY <1>3, <1>4, <1>5
<1> QED BY <1>6 DEF b

\* Two pieces at their places do not meet.
LEMMA PlacesApart ==
  ASSUME NEW p, NEW q, p # q, NEW a \in Nat, NEW l \in Nat, NEW b \in Nat, NEW k \in Nat,
         Right(p, a, l), Right(q, b, k), Below(p, a, l), Below(q, b, k)
  PROVE  ~(a < b + k /\ b < a + l)
BY DEF Right, Below, SETUP_ADDR, CMDLINE_ADDR, PML4_ADDR, PDPT_ADDR, PD_ADDR, GDT_ADDR,
       BOOT_PARAMS_ADDR, KERNEL_LOAD_ADDR, INITRAMFS_LOAD_ADDR

\* A load to its place keeps memory good; it may be the first oversized one.
LEMMA LoadGood ==
  ASSUME NEW m, NEW o, Good(m, o), NEW q \in Pieces, NEW at \in Nat,
         NEW len \in Nat, NEW of \in Contents, Right(q, at, len), len > 0,
         NEW n, o => n, ~n => Below(q, at, len)
  PROVE  Good(load_blob(m, q, at, len, of), n)
<1>1. PICK b : b = load_blob(m, q, at, len, of)
  OBVIOUS
<1>2. /\ b \in Memory
      /\ b[q].at = at /\ b[q].len = len /\ b[q].intact
      /\ \A p \in Pieces \ {q} :
           /\ b[p].at = m[p].at /\ b[p].len = m[p].len
           /\ b[p].intact <=> m[p].intact /\ ~Overlaps(m, p, at, len)
  BY <1>1, LoadFields DEF Good
<1>3. ASSUME NEW p \in Pieces
      PROVE  (b[p].at = 0 /\ b[p].len = 0) \/ Right(p, b[p].at, b[p].len)
  BY <1>2 DEF Good
<1>4. ASSUME ~n, NEW p \in Pieces, b[p].len > 0
      PROVE  Below(p, b[p].at, b[p].len) /\ b[p].intact
  <2>1. CASE p = q
    BY <1>2, <1>4, <2>1
  <2>2. CASE p # q
    <3>1. m[p].at = b[p].at /\ m[p].len = b[p].len
      BY <1>2, <2>2
    <3>2. m[p].at \in Nat /\ m[p].len \in Nat
      BY DEF Good, Memory, Piece
    <3>3. Right(p, m[p].at, m[p].len) /\ Below(p, m[p].at, m[p].len) /\ m[p].intact
      BY <1>4, <3>1, <3>2 DEF Good
    <3>4. ~Overlaps(m, p, at, len)
      BY <1>4, <2>2, <3>2, <3>3, PlacesApart DEF Overlaps
    <3> QED BY <1>2, <2>2, <3>1, <3>3, <3>4
  <2> QED BY <2>1, <2>2
<1> QED BY <1>1, <1>2, <1>3, <1>4 DEF Good

\* Memory b is m but for the pieces Q and for damage.
OnlyAt(b, m, Q) == \A p \in Pieces \ Q : b[p].len = m[p].len /\ b[p].of = m[p].of

\* A load replaces its own piece.
LEMMA LoadStays ==
  ASSUME NEW m \in Memory, NEW q \in Pieces, NEW at \in Nat, NEW len \in Nat,
         NEW of \in Contents, NEW b, b = load_blob(m, q, at, len, of)
  PROVE  b[q].len = len /\ b[q].of = of /\ OnlyAt(b, m, {q})
BY LoadFields DEF OnlyAt

\* A page that setup_boot writes.
LEMMA LoadPage ==
  ASSUME NEW m, NEW o, Good(m, o), NEW q \in Pieces \ {"setup", "kernel"},
         NEW at \in Nat, Right(q, at, 1), NEW of \in Contents,
         NEW b, b = load_blob(m, q, at, 1, of)
  PROVE  Good(b, o) /\ b[q].len = 1 /\ b[q].of = of /\ OnlyAt(b, m, {q})
<1>1. Below(q, at, 1)
  BY DEF Below
<1>2. Good(b, o)
  BY <1>1, LoadGood
<1>3. m \in Memory
  BY DEF Good
<1> QED BY <1>2, <1>3, LoadStays

\* setup_page_tables.
LEMMA PageTablesGood ==
  ASSUME ram \in MIN_RAM..MAX_RAM, NEW m, NEW o, Good(m, o)
  PROVE  LET b == PageTables(m) IN
         /\ Good(b, o) /\ OnlyAt(b, m, {"pml4", "pdpt", "pd"})
         /\ b["pml4"].len = 1 /\ b["pdpt"].len = 1 /\ b["pd"].len = 1
<1>1. /\ Right("pml4", PML4_ADDR, 1) /\ Right("pdpt", PDPT_ADDR, 1)
      /\ Right("pd", PD_ADDR, 1) /\ <<>> \in Contents
      /\ PML4_ADDR \in Nat /\ PDPT_ADDR \in Nat /\ PD_ADDR \in Nat
      /\ {"pml4", "pdpt", "pd"} \subseteq Pieces \ {"setup", "kernel"}
  BY DEF Right, Contents, Files, PML4_ADDR, PDPT_ADDR, PD_ADDR, Pieces
<1>2. PICK a : a = load_blob(m, "pml4", PML4_ADDR, 1, <<>>)
  OBVIOUS
<1>3. Good(a, o) /\ a["pml4"].len = 1 /\ OnlyAt(a, m, {"pml4"})
  BY <1>1, <1>2, LoadPage DEF PML4_ADDR
<1>4. PICK b : b = load_blob(a, "pdpt", PDPT_ADDR, 1, <<>>)
  OBVIOUS
<1>5. Good(b, o) /\ b["pdpt"].len = 1 /\ OnlyAt(b, a, {"pdpt"})
  BY <1>1, <1>3, <1>4, LoadPage DEF PDPT_ADDR
<1>6. PICK c : c = load_blob(b, "pd", PD_ADDR, 1, <<>>)
  OBVIOUS
<1>7. Good(c, o) /\ c["pd"].len = 1 /\ OnlyAt(c, b, {"pd"})
  BY <1>1, <1>5, <1>6, LoadPage DEF PD_ADDR
<1>8. PageTables(m) = c
  BY <1>2, <1>4, <1>6 DEF PageTables
<1>9. OnlyAt(c, m, {"pml4", "pdpt", "pd"}) /\ c["pml4"].len = 1 /\ c["pdpt"].len = 1
  BY <1>1, <1>3, <1>5, <1>7 DEF OnlyAt
<1> QED BY <1>7, <1>8, <1>9

\* The command line and the boot parameters.
LEMMA BootParamsGood ==
  ASSUME ram \in MIN_RAM..MAX_RAM, NEW m, NEW o, Good(m, o),
         bzimage_header \in Files, initramfs_size \in Nat
  PROVE  LET b == BootParams(m) IN
         /\ Good(b, o) /\ OnlyAt(b, m, {"cmdline", "params"})
         /\ b["cmdline"].len = 1 /\ b["params"].len = 1
         /\ b["params"].of = [header |-> bzimage_header, ramdisk |-> initramfs_size]
<1>1. /\ Right("cmdline", CMDLINE_ADDR, 1) /\ Right("params", BOOT_PARAMS_ADDR, 1)
      /\ <<>> \in Contents /\ CMDLINE_ADDR \in Nat /\ BOOT_PARAMS_ADDR \in Nat
      /\ {"cmdline", "params"} \subseteq Pieces \ {"setup", "kernel"}
  BY DEF Right, Contents, Files, CMDLINE_ADDR, BOOT_PARAMS_ADDR, Pieces
<1>2. PICK h \in Contents : h = [header |-> bzimage_header, ramdisk |-> initramfs_size]
  BY DEF Contents
<1>3. PICK a : a = load_blob(m, "cmdline", CMDLINE_ADDR, 1, <<>>)
  OBVIOUS
<1>4. Good(a, o) /\ a["cmdline"].len = 1 /\ OnlyAt(a, m, {"cmdline"})
  BY <1>1, <1>3, LoadPage DEF CMDLINE_ADDR
<1>5. PICK b : b = load_blob(a, "params", BOOT_PARAMS_ADDR, 1, h)
  OBVIOUS
<1>6. Good(b, o) /\ b["params"].len = 1 /\ b["params"].of = h /\ OnlyAt(b, a, {"params"})
  BY <1>1, <1>2, <1>4, <1>5, LoadPage DEF BOOT_PARAMS_ADDR
<1>7. BootParams(m) = b
  BY <1>2, <1>3, <1>5 DEF BootParams
<1>8. OnlyAt(b, m, {"cmdline", "params"}) /\ b["cmdline"].len = 1
  BY <1>1, <1>4, <1>6 DEF OnlyAt
<1> QED BY <1>2, <1>6, <1>7, <1>8

\* All that setup_boot writes.
LEMMA BootMemoryGood ==
  ASSUME MemoryInv
  PROVE  LET b == BootMemory IN
         /\ Good(b, oversized)
         /\ b["kernel"].len = mem["kernel"].len /\ b["kernel"].of = mem["kernel"].of
         /\ b["initramfs"].len = mem["initramfs"].len
         /\ b["gdt"].len = 1 /\ b["gdt"].of = Mode
         /\ Mode = "long" => b["pml4"].len = 1 /\ b["pdpt"].len = 1 /\ b["pd"].len = 1
         /\ Mode = "protected" =>
              /\ b["cmdline"].len = 1 /\ b["params"].len = 1
              /\ b["params"].of = [header |-> bzimage_header, ramdisk |-> initramfs_size]
<1>1. /\ ram \in MIN_RAM..MAX_RAM /\ oversized \in BOOLEAN /\ Good(mem, oversized)
      /\ bzimage_header \in Files /\ initramfs_size \in Nat /\ kernel_is_bzimage \in BOOLEAN
  BY DEF MemoryInv, LoadedInv
<1>2. /\ Right("gdt", GDT_ADDR, 1) /\ GDT_ADDR \in Nat /\ "gdt" \in Pieces \ {"setup", "kernel"}
      /\ Mode \in Contents
      /\ "kernel" \in Pieces /\ "initramfs" \in Pieces
      /\ "pml4" \in Pieces /\ "pdpt" \in Pieces /\ "pd" \in Pieces
      /\ "cmdline" \in Pieces /\ "params" \in Pieces
  BY DEF Right, GDT_ADDR, Pieces, Mode, Contents
<1>3. PICK a : a = IF kernel_is_bzimage THEN BootParams(mem) ELSE PageTables(mem)
  OBVIOUS
<1>4. Good(a, oversized)
  BY <1>1, <1>3, BootParamsGood, PageTablesGood
<1>5. PICK b : b = load_blob(a, "gdt", GDT_ADDR, 1, Mode)
  OBVIOUS
<1>6. /\ Good(b, oversized) /\ b["gdt"].len = 1 /\ b["gdt"].of = Mode
      /\ OnlyAt(b, a, {"gdt"})
  BY <1>1, <1>2, <1>4, <1>5, LoadPage DEF GDT_ADDR
<1>7. BootMemory = b
  BY <1>3, <1>5 DEF BootMemory, Gdt
<1>8. CASE kernel_is_bzimage
  <2>1. /\ OnlyAt(a, mem, {"cmdline", "params"})
        /\ a["cmdline"].len = 1 /\ a["params"].len = 1
        /\ a["params"].of = [header |-> bzimage_header, ramdisk |-> initramfs_size]
    BY <1>1, <1>3, <1>8, BootParamsGood
  <2>2. /\ b["kernel"].len = mem["kernel"].len /\ b["kernel"].of = mem["kernel"].of
        /\ b["initramfs"].len = mem["initramfs"].len
        /\ b["cmdline"].len = 1 /\ b["params"].len = 1
        /\ b["params"].of = a["params"].of
    BY <1>2, <1>6, <2>1 DEF OnlyAt
  <2> QED BY <1>6, <1>7, <1>8, <2>1, <2>2 DEF Mode
<1>9. CASE ~kernel_is_bzimage
  <2>1. /\ OnlyAt(a, mem, {"pml4", "pdpt", "pd"})
        /\ a["pml4"].len = 1 /\ a["pdpt"].len = 1 /\ a["pd"].len = 1
    BY <1>1, <1>3, <1>9, PageTablesGood
  <2>2. /\ b["kernel"].len = mem["kernel"].len /\ b["kernel"].of = mem["kernel"].of
        /\ b["initramfs"].len = mem["initramfs"].len
        /\ b["pml4"].len = 1 /\ b["pdpt"].len = 1 /\ b["pd"].len = 1
    BY <1>2, <1>6, <2>1 DEF OnlyAt
  <2> QED BY <1>6, <1>7, <1>9, <2>2 DEF Mode
<1> QED BY <1>1, <1>8, <1>9

-----------------------------------------------------------------------------
\* What is good for the RAM of a machine stays good: its RAM does not change.
LEMMA GoodNext ==
  ASSUME ram' = ram, Good(mem', oversized')
  PROVE  Good(mem, oversized)'
BY DEF Good, Right

\* Every step keeps guest memory and what is known about it.
LEMMA StepMemory == MemoryInv /\ [Next]_vars => MemoryInv'
<1> SUFFICES ASSUME MemoryInv, [Next]_vars PROVE MemoryInv'
  OBVIOUS
<1>1. /\ ram \in MIN_RAM..MAX_RAM /\ oversized \in BOOLEAN /\ Good(mem, oversized)
      /\ mem \in Memory /\ LoadedInv /\ BootedInv
  BY DEF MemoryInv, Good
<1>2. /\ "setup" \in Pieces /\ "kernel" \in Pieces /\ "initramfs" \in Pieces
      /\ "pml4" \in Pieces /\ "pdpt" \in Pieces /\ "pd" \in Pieces
      /\ "cmdline" \in Pieces /\ "params" \in Pieces /\ "gdt" \in Pieces
  BY DEF Pieces
<1>3. ASSUME NEW k \in Kernels, LoadPlain(k) PROVE MemoryInv'
  <2>1. /\ k.form = "plain" /\ k.size \in Nat /\ k.size > 0 /\ k \in Contents
        /\ ram' = ram /\ KERNEL_LOAD_ADDR \in Nat
        /\ mem' = load_blob(mem, "kernel", KERNEL_LOAD_ADDR, k.size, k)
        /\ oversized' = (oversized \/ KERNEL_LOAD_ADDR + k.size > INITRAMFS_LOAD_ADDR)
        /\ KERNEL_LOAD_ADDR + k.size <= ram
        /\ booted' = "none" /\ UNCHANGED <<kernel_is_bzimage, bzimage_header, initramfs_size>>
    BY <1>3, BootAssumption
       DEF LoadPlain, building, Contents, Files, KERNEL_LOAD_ADDR, InRange
  <2>2. Right("kernel", KERNEL_LOAD_ADDR, k.size)
    BY <2>1 DEF Right
  <2>3. /\ oversized' \in BOOLEAN /\ oversized => oversized'
        /\ ~oversized' => Below("kernel", KERNEL_LOAD_ADDR, k.size)
    <3>1. /\ oversized' \in BOOLEAN /\ oversized => oversized'
          /\ KERNEL_LOAD_ADDR + k.size > INITRAMFS_LOAD_ADDR => oversized'
      BY <1>1, <2>1, Zenon
    <3>2. \/ KERNEL_LOAD_ADDR + k.size > INITRAMFS_LOAD_ADDR
          \/ Below("kernel", KERNEL_LOAD_ADDR, k.size)
      BY <2>1 DEF Below, KERNEL_LOAD_ADDR, INITRAMFS_LOAD_ADDR
    <3> QED BY <3>1, <3>2
  <2>4. Good(mem', oversized')
    BY <1>1, <1>2, <2>1, <2>2, <2>3, LoadGood
  <2>5. mem'["initramfs"].len = mem["initramfs"].len /\ mem'["kernel"].of = k
    <3>1. PICK z \in Nat : z = k.size
      BY <2>1
    <3>2. /\ mem \in Memory /\ "kernel" \in Pieces /\ k \in Contents
          /\ mem' = load_blob(mem, "kernel", 256, z, k)
      BY <1>1, <1>2, <2>1, <3>1 DEF KERNEL_LOAD_ADDR
    <3>3. mem'["kernel"].of = k /\ OnlyAt(mem', mem, {"kernel"})
      BY <3>2, LoadStays
    <3> QED BY <1>2, <3>3 DEF OnlyAt
  <2>6. LoadedInv'
    BY <1>1, <2>1, <2>5 DEF LoadedInv
  <2>7. BootedInv'
    BY <2>1 DEF BootedInv
  <2> QED BY <1>1, <2>1, <2>3, <2>4, <2>6, <2>7, GoodNext DEF MemoryInv
<1>4. ASSUME NEW k \in Kernels, stage = "ready", k.form = "bzImage",
             NEW n, n = (oversized \/ LongSetup(k))
      PROVE  /\ Good(Setup(k), n) /\ Setup(k) \in Memory
             /\ OnlyAt(Setup(k), mem, {"setup"})
  <2>1. /\ k.setup \in 1..32 /\ k \in Contents /\ SETUP_ADDR \in Nat
        /\ Setup(k) = load_blob(mem, "setup", SETUP_ADDR, k.setup, k)
    BY <1>4, BootAssumption DEF Setup, Contents, Files, SETUP_ADDR
  <2>2. /\ Right("setup", SETUP_ADDR, k.setup) /\ k.setup \in Nat /\ k.setup > 0
        /\ LongSetup(k) \/ Below("setup", SETUP_ADDR, k.setup)
    BY <2>1 DEF Right, Below, LongSetup, SETUP_ADDR, CMDLINE_ADDR
  <2>3. Good(Setup(k), n)
    <3>1. oversized => n
      BY <1>1, <1>4, Zenon
    <3>2. ~n => Below("setup", SETUP_ADDR, k.setup)
      BY <1>4, <2>2, Zenon
    <3> QED BY <1>1, <1>2, <2>1, <2>2, <3>1, <3>2, LoadGood
  <2>4. OnlyAt(Setup(k), mem, {"setup"})
    BY <1>1, <1>2, <2>1, <2>2, LoadStays
  <2> QED BY <2>3, <2>4 DEF Good
<1>5. ASSUME NEW k \in Kernels, LoadBzFails(k) PROVE MemoryInv'
  <2>1. /\ stage = "ready" /\ k.form = "bzImage" /\ ram' = ram /\ mem' = Setup(k)
        /\ oversized' = (oversized \/ LongSetup(k)) /\ oversized' \in BOOLEAN
        /\ UNCHANGED <<kernel_is_bzimage, bzimage_header, initramfs_size, cpu, booted>>
    BY <1>1, <1>5 DEF LoadBzFails, building, LongSetup
  <2>2. Good(mem', oversized') /\ OnlyAt(mem', mem, {"setup"})
    BY <1>4, <2>1
  <2>3. LoadedInv' /\ BootedInv'
    BY <1>1, <1>2, <2>1, <2>2 DEF LoadedInv, BootedInv, OnlyAt, Mode
  <2> QED BY <1>1, <2>1, <2>2, <2>3, GoodNext DEF MemoryInv
<1>6. ASSUME NEW k \in Kernels, LoadBzImage(k) PROVE MemoryInv'
  <2>1. /\ stage = "ready" /\ k.form = "bzImage" /\ ram' = ram /\ k \in Contents /\ k \in Files
        /\ k.size \in Nat /\ k.size > 0 /\ KERNEL_LOAD_ADDR + k.size <= ram
        /\ KERNEL_LOAD_ADDR \in Nat
        /\ mem' = load_blob(Setup(k), "kernel", KERNEL_LOAD_ADDR, k.size, k)
        /\ kernel_is_bzimage' = TRUE /\ bzimage_header' = k /\ booted' = "none"
        /\ initramfs_size' = initramfs_size
        /\ oversized' = (oversized \/ LongSetup(k)
                           \/ KERNEL_LOAD_ADDR + k.size > INITRAMFS_LOAD_ADDR)
    BY <1>6, BootAssumption
       DEF LoadBzImage, building, Contents, Files, InRange, KERNEL_LOAD_ADDR
  <2>2. PICK n \in BOOLEAN : n = (oversized \/ LongSetup(k))
    BY <1>1 DEF LongSetup
  <2>3. PICK m : m = Setup(k)
    OBVIOUS
  <2>4. Good(m, n) /\ m \in Memory /\ OnlyAt(m, mem, {"setup"})
    BY <1>4, <2>1, <2>2, <2>3
  <2>5. Right("kernel", KERNEL_LOAD_ADDR, k.size)
    BY <2>1 DEF Right
  <2>6. /\ oversized' \in BOOLEAN /\ n => oversized'
        /\ ~oversized' => Below("kernel", KERNEL_LOAD_ADDR, k.size)
    <3>1. /\ oversized' \in BOOLEAN /\ n => oversized'
          /\ KERNEL_LOAD_ADDR + k.size > INITRAMFS_LOAD_ADDR => oversized'
      BY <1>1, <2>1, <2>2, Zenon
    <3>2. \/ KERNEL_LOAD_ADDR + k.size > INITRAMFS_LOAD_ADDR
          \/ Below("kernel", KERNEL_LOAD_ADDR, k.size)
      BY <2>1 DEF Below, KERNEL_LOAD_ADDR, INITRAMFS_LOAD_ADDR
    <3> QED BY <3>1, <3>2
  <2>7. Good(mem', oversized')
    BY <1>2, <2>1, <2>3, <2>4, <2>5, <2>6, LoadGood
  <2>8. mem'["initramfs"].len = m["initramfs"].len /\ mem'["kernel"].of = k
    <3>1. PICK z \in Nat : z = k.size
      BY <2>1
    <3>2. /\ m \in Memory /\ "kernel" \in Pieces /\ k \in Contents
          /\ mem' = load_blob(m, "kernel", 256, z, k)
      BY <1>2, <2>1, <2>3, <2>4, <3>1 DEF KERNEL_LOAD_ADDR
    <3>3. mem'["kernel"].of = k /\ OnlyAt(mem', m, {"kernel"})
      BY <3>2, LoadStays
    <3> QED BY <1>2, <3>3 DEF OnlyAt
  <2>9. m["initramfs"].len = mem["initramfs"].len
    BY <1>2, <2>4 DEF OnlyAt
  <2>10. LoadedInv'
    BY <1>1, <2>1, <2>8, <2>9 DEF LoadedInv
  <2>11. BootedInv'
    BY <2>1 DEF BootedInv
  <2> QED BY <1>1, <2>1, <2>6, <2>7, <2>10, <2>11, GoodNext DEF MemoryInv
<1>7. ASSUME NEW n \in Ramdisks, LoadInitramfs(n) PROVE MemoryInv'
  <2>1. /\ n \in Nat /\ n > 0 /\ ram' = ram /\ <<>> \in Contents /\ INITRAMFS_LOAD_ADDR \in Nat
        /\ mem' = load_blob(mem, "initramfs", INITRAMFS_LOAD_ADDR, n, <<>>)
        /\ INITRAMFS_LOAD_ADDR + n <= ram /\ initramfs_size' = n /\ booted' = "none"
        /\ UNCHANGED <<kernel_is_bzimage, bzimage_header, oversized>>
    BY <1>7, BootAssumption
       DEF LoadInitramfs, building, Contents, Files, InRange, INITRAMFS_LOAD_ADDR
  <2>2. Right("initramfs", INITRAMFS_LOAD_ADDR, n) /\ Below("initramfs", INITRAMFS_LOAD_ADDR, n)
    BY <2>1 DEF Right, Below
  <2>3. Good(mem', oversized')
    BY <1>1, <1>2, <2>1, <2>2, LoadGood
  <2>4. /\ mem'["initramfs"].len = n /\ mem'["kernel"].len = mem["kernel"].len
        /\ mem'["kernel"].of = mem["kernel"].of
    <3>1. PICK z \in Nat : z = n
      BY <2>1
    <3>2. mem'["initramfs"].len = n /\ OnlyAt(mem', mem, {"initramfs"})
      BY <1>1, <1>2, <2>1, <3>1, LoadStays DEF INITRAMFS_LOAD_ADDR
    <3> QED BY <1>2, <3>2 DEF OnlyAt
  <2>5. LoadedInv'
    BY <1>1, <2>1, <2>4 DEF LoadedInv
  <2>6. BootedInv'
    BY <2>1 DEF BootedInv
  <2> QED BY <1>1, <2>1, <2>3, <2>5, <2>6, GoodNext DEF MemoryInv
<1>8. CASE SetupBoot \/ SetupBootFails
  <2>1. PICK b : b = BootMemory
    OBVIOUS
  <2>2. /\ mem' = b /\ ram' = ram
        /\ UNCHANGED <<kernel_is_bzimage, bzimage_header, initramfs_size, oversized>>
        /\ Mode' = Mode
        /\ booted' = "none" \/ (booted' = Mode /\ cpu' = [sregs |-> Mode, regs |-> Mode])
    BY <1>8, <2>1 DEF SetupBoot, SetupBootFails, building, Mode
  <2>3. /\ Good(b, oversized)
        /\ b["kernel"].len = mem["kernel"].len /\ b["kernel"].of = mem["kernel"].of
        /\ b["initramfs"].len = mem["initramfs"].len
        /\ b["gdt"].len = 1 /\ b["gdt"].of = Mode
        /\ Mode = "long" => b["pml4"].len = 1 /\ b["pdpt"].len = 1 /\ b["pd"].len = 1
        /\ Mode = "protected" =>
             /\ b["cmdline"].len = 1 /\ b["params"].len = 1
             /\ b["params"].of = [header |-> bzimage_header, ramdisk |-> initramfs_size]
    BY <2>1, BootMemoryGood
  <2>4. LoadedInv'
    BY <1>1, <2>2, <2>3 DEF LoadedInv
  <2>5. Mode \in {"long", "protected"}
    BY DEF Mode
  <2>6. BootedInv'
    BY <2>2, <2>3, <2>5 DEF BootedInv
  <2> QED BY <1>1, <2>2, <2>3, <2>4, <2>6, GoodNext DEF MemoryInv
<1>9. CASE UNCHANGED <<ram, loaded, cpu, booted>>
  BY <1>1, <1>9 DEF MemoryInv, loaded, Good, Right, LoadedInv, BootedInv, Mode
<1> QED BY <1>3, <1>5, <1>6, <1>7, <1>8, <1>9
        DEF Next, Build, BuildFails, Discard, Drop, LoadStub, vars, building, loaded

-----------------------------------------------------------------------------
(***************************************************************************)
(* Construction and drop.                                                  *)
(***************************************************************************)

\* The calls of new that matter here.
LEMMA StepsFacts ==
  /\ Len(Steps) = 11
  /\ Steps[1] = "open" /\ Steps[2] = "create_vm" /\ Steps[7] = "mmap" /\ Steps[9] = "cpuid"
  /\ \A i \in 1..11 : Steps[i] = "vcpu" <=> i = 10
BY DEF Steps

\* One more thing at the end of a list.
LEMMA ConcatOne ==
  ASSUME NEW s \in Seq(Holdings), NEW h \in Holdings
  PROVE  /\ s \o <<h>> \in Seq(Holdings) /\ Len(s \o <<h>>) = Len(s) + 1
         /\ \A i \in 1..Len(s) : (s \o <<h>>)[i] = s[i]
         /\ (s \o <<h>>)[Len(s) + 1] = h
<1>1. PICK t \in Seq(Holdings) : t = <<h>>
  <2>1. <<h>> \in Seq(Holdings)
    BY DEF Holdings
  <2> QED BY <2>1
<1>2. Len(t) = 1 /\ t[1] = h /\ Len(s) \in Nat
  BY <1>1, LenProperties
<1>3. /\ s \o t \in Seq(Holdings) /\ Len(s \o t) = Len(s) + Len(t)
      /\ \A i \in 1..Len(s) + Len(t) :
           (s \o t)[i] = IF i <= Len(s) THEN s[i] ELSE t[i - Len(s)]
  BY ConcatProperties
<1>4. (s \o t)[Len(s) + 1] = t[1]
  BY <1>2, <1>3
<1>5. \A i \in 1..Len(s) : (s \o t)[i] = s[i]
  BY <1>2, <1>3
<1> QED BY <1>1, <1>2, <1>3, <1>4, <1>5

\* When a vCPU cannot be created, the others go before guest memory.
LEMMA LocalsOrdered ==
  ASSUME done = 9
  PROVE  Ordered(Locals)
<1>1. /\ ~Made("vcpu") /\ Made("cpuid") /\ Made("mmap") /\ Made("create_vm")
      /\ Made("open")
  BY StepsFacts DEF Made
<1>2. Locals = <<"vcpus">> \o <<"guest_memory">> \o <<"vm">> \o <<"hypervisor">>
  BY <1>1 DEF Locals
<1>3. PICK d \in Seq(Holdings) : d = <<"vcpus">> /\ Len(d) = 1 /\ d[1] = "vcpus"
  <2>1. <<"vcpus">> \in Seq(Holdings)
    BY DEF Holdings
  <2> QED BY <2>1
<1>4. "guest_memory" \in Holdings /\ "vm" \in Holdings /\ "hypervisor" \in Holdings
  BY DEF Holdings
<1>5. PICK e \in Seq(Holdings) :
        e = d \o <<"guest_memory">> /\ Len(e) = 2 /\ e[1] = d[1] /\ e[2] = "guest_memory"
  <2> DEFINE x == d \o <<"guest_memory">>
  <2>1. /\ x \in Seq(Holdings) /\ Len(x) = Len(d) + 1
        /\ \A i \in 1..Len(d) : x[i] = d[i]
        /\ x[Len(d) + 1] = "guest_memory"
    BY <1>4, ConcatOne
  <2> HIDE DEF x
  <2>2. Len(x) = 2 /\ x[1] = d[1] /\ x[2] = "guest_memory"
    BY <1>3, <2>1
  <2> QED BY <2>1, <2>2 DEF x
<1>6. PICK f \in Seq(Holdings) :
        f = e \o <<"vm">> /\ Len(f) = 3 /\ f[1] = e[1] /\ f[2] = e[2] /\ f[3] = "vm"
  <2> DEFINE x == e \o <<"vm">>
  <2>1. /\ x \in Seq(Holdings) /\ Len(x) = Len(e) + 1
        /\ \A i \in 1..Len(e) : x[i] = e[i]
        /\ x[Len(e) + 1] = "vm"
    BY <1>4, ConcatOne
  <2> HIDE DEF x
  <2>2. Len(x) = 3 /\ x[1] = e[1] /\ x[2] = e[2] /\ x[3] = "vm"
    BY <1>5, <2>1
  <2> QED BY <2>1, <2>2 DEF x
<1>7. PICK g \in Seq(Holdings) :
        /\ g = f \o <<"hypervisor">> /\ Len(g) = 4
        /\ g[1] = f[1] /\ g[2] = f[2] /\ g[3] = f[3] /\ g[4] = "hypervisor"
  <2> DEFINE x == f \o <<"hypervisor">>
  <2>1. /\ x \in Seq(Holdings) /\ Len(x) = Len(f) + 1
        /\ \A i \in 1..Len(f) : x[i] = f[i]
        /\ x[Len(f) + 1] = "hypervisor"
    BY <1>4, ConcatOne
  <2> HIDE DEF x
  <2>2. Len(x) = 4 /\ x[1] = f[1] /\ x[2] = f[2] /\ x[3] = f[3] /\ x[4] = "hypervisor"
    BY <1>6, <2>1
  <2> QED BY <2>1, <2>2 DEF x
<1>8. Locals = g
  BY <1>2, <1>3, <1>5, <1>6, <1>7
<1>9. Ordered(g)
  BY <1>3, <1>5, <1>6, <1>7 DEF Ordered
<1> QED BY <1>8, <1>9

\* What is left after a failure is a list of things to drop.
LEMMA LocalsType == Locals \in Seq(Holdings)
<1>1. /\ <<"vcpus">> \in Seq(Holdings) /\ <<"guest_memory">> \in Seq(Holdings)
      /\ <<"vm">> \in Seq(Holdings) /\ <<"hypervisor">> \in Seq(Holdings)
      /\ <<>> \in Seq(Holdings)
      /\ <<"guest_memory", "vcpus", "vm", "hypervisor">> \in Seq(Holdings)
  BY DEF Holdings
<1>2. PICK a \in Seq(Holdings) : a = IF Made("cpuid") THEN <<"vcpus">> ELSE <<>>
  BY <1>1
<1>3. PICK b \in Seq(Holdings) : b = IF Made("mmap") THEN <<"guest_memory">> ELSE <<>>
  BY <1>1
<1>4. PICK c \in Seq(Holdings) : c = IF Made("create_vm") THEN <<"vm">> ELSE <<>>
  BY <1>1
<1>5. PICK d \in Seq(Holdings) : d = IF Made("open") THEN <<"hypervisor">> ELSE <<>>
  BY <1>1
<1>6. a \o b \o c \o d \in Seq(Holdings)
  BY ConcatProperties
<1>7. Locals = IF Made("vcpu") THEN <<"guest_memory", "vcpus", "vm", "hypervisor">>
               ELSE a \o b \o c \o d
  BY <1>2, <1>3, <1>4, <1>5 DEF Locals
<1> QED BY <1>1, <1>6, <1>7

\* The fields are declared in an order that drops vCPUs first.
LEMMA FieldsOrdered == Fields \in Seq(Holdings) /\ Ordered(Fields)
<1>1. /\ Fields \in Seq(Holdings) /\ Len(Fields) = 5 /\ Fields[1] = "hypervisor"
      /\ Fields[2] = "vm" /\ Fields[3] = "vcpus" /\ Fields[4] = "guest_memory"
      /\ Fields[5] = "disk"
  BY DEF Fields, Holdings
<1>2. Ordered(Fields)
  BY <1>1 DEF Ordered
<1> QED BY <1>1, <1>2

\* A drop leaves the rest in order.
LEMMA TailOrdered ==
  ASSUME NEW s \in Seq(Holdings), s # <<>>, Ordered(s)
  PROVE  Ordered(Tail(s))
<1>1. PICK t \in Seq(Holdings) : t = Tail(s)
  BY HeadTailProperties
<1>2. /\ Len(s) \in Nat /\ Len(s) > 0 /\ Len(t) = Len(s) - 1
      /\ \A i \in 1..Len(t) : t[i] = s[i + 1]
  BY <1>1, HeadTailProperties, LenProperties, EmptySeq
<1>3. ASSUME NEW i \in 1..Len(t), t[i] = "vcpus"
      PROVE  \E j \in 1..Len(t) : i < j /\ t[j] = "guest_memory"
  <2>1. i + 1 \in 1..Len(s) /\ s[i + 1] = "vcpus" /\ i \in Nat
    BY <1>2, <1>3
  <2>2. PICK j \in 1..Len(s) : i + 1 < j /\ s[j] = "guest_memory"
    BY <2>1 DEF Ordered
  <2>3. j - 1 \in 1..Len(t) /\ i < j - 1 /\ (j - 1) + 1 = j
    BY <1>2, <2>1, <2>2
  <2>4. t[j - 1] = "guest_memory"
    BY <1>2, <2>2, <2>3
  <2> QED BY <2>3, <2>4
<1> QED BY <1>1, <1>3 DEF Ordered

\* Every step keeps the order of construction and of drop.
LEMMA StepBuild == BuildInv /\ [Next]_vars => BuildInv'
<1> SUFFICES ASSUME BuildInv, [Next]_vars PROVE BuildInv'
  OBVIOUS
<1> USE DEF BuildInv
<1>1. VcpuCount \in Nat /\ VcpuCount > 0
  BY BootAssumption
<1>2. CASE Build
  <2>1. /\ stage = "building" /\ done < 11 /\ UNCHANGED <<host, broke>>
        /\ Call = "vcpu" <=> done = 9
    BY <1>2, StepsFacts DEF Build, Call
  <2>2. CASE Call = "vcpu" /\ vcpus + 1 < VcpuCount
    BY <1>1, <1>2, <2>1, <2>2 DEF Build
  <2>3. CASE ~(Call = "vcpu" /\ vcpus + 1 < VcpuCount)
    <3>1. /\ vcpus' = IF Call = "vcpu" THEN vcpus + 1 ELSE vcpus
          /\ done' = done + 1
          /\ stage' = IF done + 1 = 11 THEN "ready" ELSE stage
          /\ held' = IF done + 1 = 11 THEN Fields ELSE held
      BY <1>2, <2>3, StepsFacts DEF Build
    <3> QED BY <1>1, <2>1, <2>3, <3>1, FieldsOrdered
  <2> QED BY <2>2, <2>3
<1>3. CASE BuildFails
  <2>1. /\ stage = "building" /\ stage' = "dropping" /\ held' = Locals
        /\ UNCHANGED <<host, done, vcpus>>
        /\ broke' = broke \/ broke' = TRUE
    BY <1>3 DEF BuildFails
  <2>2. held' \in Seq(Holdings)
    BY <2>1, LocalsType
  <2>3. vcpus > 0 => Ordered(held') \/ done = 10
    BY <2>1, LocalsOrdered
  <2> QED BY <2>1, <2>2, <2>3
<1>4. CASE Discard
  BY <1>4, FieldsOrdered DEF Discard
<1>5. CASE Drop
  <2>1. /\ stage = "dropping" /\ held # <<>> /\ held' = Tail(held)
        /\ UNCHANGED <<stage, host, done, vcpus, broke>>
    BY <1>5 DEF Drop
  <2>2. held' \in Seq(Holdings)
    BY <2>1, HeadTailProperties
  <2>3. vcpus > 0 => Ordered(held') \/ done = 10
    BY <2>1, TailOrdered
  <2> QED BY <2>1, <2>2, <2>3
<1>6. ASSUME NEW k \in Kernels, LoadStub(k) PROVE BuildInv'
  BY <1>6, FieldsOrdered DEF LoadStub
<1>7. CASE UNCHANGED building
  BY <1>7 DEF building
<1> QED BY <1>2, <1>3, <1>4, <1>5, <1>6, <1>7
        DEF Next, LoadPlain, LoadBzImage, LoadBzFails, LoadInitramfs, SetupBoot,
            SetupBootFails, vars

-----------------------------------------------------------------------------
\* Nothing is in memory, and no call has been made.
LEMMA InitBoot == Init => BootInv
<1> SUFFICES ASSUME Init PROVE BootInv
  OBVIOUS
<1>1. mem = [p \in Pieces |-> Nothing] /\ Nothing \in Piece
  BY DEF Init, Nothing, Piece, Contents, Files
<1>2. \A p \in Pieces : mem[p].at = 0 /\ mem[p].len = 0
  BY <1>1 DEF Nothing
<1>3. Good(mem, oversized)
  BY <1>1, <1>2 DEF Good, Memory
<1>4. LoadedInv
  <2>1. mem["initramfs"].len = 0 /\ mem["kernel"].len = 0 /\ <<>> \in Files
    BY <1>2 DEF Pieces, Files
  <2>2. /\ kernel_is_bzimage = FALSE /\ bzimage_header = <<>> /\ initramfs_size = 0
        /\ ~(mem["kernel"].len > 0)
    BY <2>1 DEF Init
  <2> QED BY <2>1, <2>2 DEF LoadedInv
<1>5. BootedInv
  BY DEF BootedInv, Init
<1>6. MemoryInv
  BY <1>3, <1>4, <1>5 DEF MemoryInv, Init, validate
<1>7. BuildInv
  <2>1. VcpuCount \in Nat /\ VcpuCount > 0 /\ <<>> \in Seq(Holdings)
    BY BootAssumption, EmptySeq
  <2>2. /\ stage = "building" /\ done = 0 /\ vcpus = 0 /\ held = <<>> /\ host \in Hosts
        /\ broke = FALSE
    BY DEF Init
  <2>3. broke \in BOOLEAN
    BY DEF Init
  <2>4. done \in 0..11 /\ done < 11 /\ done # 9
    BY <2>2
  <2>5. vcpus \in 0..VcpuCount /\ ~(vcpus > 0)
    BY <2>1, <2>2
  <2>6. stage # "ready" /\ stage # "dropping"
    BY <2>2
  <2> QED BY <2>1, <2>2, <2>3, <2>4, <2>5, <2>6 DEF BuildInv
<1> QED BY <1>6, <1>7 DEF BootInv

\* The inductive invariant of a machine up to run and from its end: pieces at
\* their places, fields that follow them, and an order of drop.
THEOREM BootInvariant == Spec => []BootInv
<1>1. BootInv /\ [Next]_vars => BootInv'
  BY StepMemory, StepBuild DEF BootInv
<1> QED BY <1>1, InitBoot, PTL DEF Spec

\* Every variable keeps the values its part of the code can give it.
THEOREM BootTypes == Spec => []TypeOK
<1>1. BootInv => TypeOK
  <2> SUFFICES ASSUME BootInv PROVE TypeOK
    OBVIOUS
  <2>1. ASSUME NEW p \in Pieces
        PROVE  mem[p].at \in Nat /\ mem[p].len \in Nat /\ mem[p].intact \in BOOLEAN
    BY DEF BootInv, MemoryInv, Good, Memory, Piece
  <2> QED BY <2>1, StepsFacts
          DEF TypeOK, BootInv, MemoryInv, BuildInv, LoadedInv, BootedInv
<1> QED BY <1>1, BootInvariant, PTL

\* However construction ends, guest memory outlives the vCPUs, for every number
\* of vCPUs and every call that fails, but for the disk image that cannot be
\* opened.
THEOREM DropsInOrder == Spec => []MemoryOutlivesVcpus
<1>1. BootInv => MemoryOutlivesVcpus
  <2> SUFFICES ASSUME BootInv, stage = "dropping", vcpus > 0, InSeq("vcpus", held)
               PROVE  InSeq("guest_memory", held) \/ done = Len(Steps) - 1
    BY DEF MemoryOutlivesVcpus
  <2>1. Ordered(held) \/ done = 10
    BY DEF BootInv, BuildInv
  <2> QED BY <2>1, StepsFacts DEF InSeq, Ordered
<1> QED BY <1>1, BootInvariant, PTL

\* For every kernel and ramdisk, in every order of loads and boots: what the
\* guest is handed is undamaged unless a kernel or a setup was too long.
THEOREM HandedOverIntact == Spec => []BootIntact
<1>1. BootInv => BootIntact
  <2> SUFFICES ASSUME BootInv, booted # "none", ~oversized, NEW p \in Needed(booted)
               PROVE  mem[p].intact
    BY DEF BootIntact
  <2>1. Good(mem, oversized) /\ LoadedInv /\ BootedInv
    BY DEF BootInv, MemoryInv
  <2>2. p \in Pieces
    BY DEF Needed, Pieces
  <2>3. mem[p].len > 0
    BY <2>1 DEF Needed, LoadedInv, BootedInv
  <2> QED BY <2>1, <2>2, <2>3 DEF Good
<1> QED BY <1>1, BootInvariant, PTL

\* For every kernel and ramdisk the guest is entered in the mode of the kernel
\* in memory, with its header and the size of its ramdisk.
THEOREM EnteredAsLoaded == Spec => []BootMatches
<1>1. BootInv => BootMatches
  <2> SUFFICES ASSUME BootInv, booted # "none", mem["kernel"].len > 0
               PROVE  /\ mem["gdt"].of = booted /\ cpu = [sregs |-> booted, regs |-> booted]
                      /\ booted = "long" => mem["kernel"].of.form = "plain"
                      /\ booted = "protected" =>
                           /\ mem["params"].of.header \in
                                IF mem["kernel"].of.form = "plain"
                                  THEN Kernels ELSE {mem["kernel"].of}
                           /\ mem["params"].of.ramdisk = mem["initramfs"].len
    BY DEF BootMatches
  <2>1. LoadedInv /\ BootedInv
    BY DEF BootInv, MemoryInv
  <2>2. mem["gdt"].of = booted /\ cpu = [sregs |-> booted, regs |-> booted] /\ booted = Mode
    BY <2>1 DEF BootedInv
  <2>3. ASSUME booted = "long" PROVE mem["kernel"].of.form = "plain"
    BY <2>1, <2>2, <2>3 DEF LoadedInv, Mode
  <2>4. ASSUME booted = "protected"
        PROVE  /\ mem["params"].of.header \in
                    IF mem["kernel"].of.form = "plain" THEN Kernels ELSE {mem["kernel"].of}
               /\ mem["params"].of.ramdisk = mem["initramfs"].len
    <3>1. kernel_is_bzimage
      BY <2>1, <2>2, <2>4 DEF LoadedInv, Mode
    <3>2. mem["params"].of.header = bzimage_header /\ mem["params"].of.ramdisk = initramfs_size
      BY <2>1, <2>4 DEF BootedInv
    <3> QED BY <2>1, <3>1, <3>2 DEF LoadedInv
  <2> QED BY <2>2, <2>3, <2>4
<1> QED BY <1>1, BootInvariant, PTL

\* The guest's first push hits nothing that was loaded, but for a plain kernel
\* of at least 7 MB.
THEOREM FirstPushIsSafe == Spec => []StackIsFree
<1>1. BootInv => StackIsFree
  <2> SUFFICES ASSUME BootInv, booted # "none", NEW p \in Pieces,
                      Overlaps(mem, p, StackPointer(booted) - 1, 1)
               PROVE  p = "kernel" /\ booted = "long" /\ mem[p].len >= 7 * MB
    BY DEF StackIsFree
  <2>1. /\ mem[p].at \in Nat /\ mem[p].len \in Nat
        /\ (mem[p].at = 0 /\ mem[p].len = 0) \/ Right(p, mem[p].at, mem[p].len)
    BY DEF BootInv, MemoryInv, Good, Memory, Piece
  <2>2. booted \in {"long", "protected"}
    BY DEF BootInv, MemoryInv, BootedInv
  <2>3. PICK a \in Nat, l \in Nat : a = mem[p].at /\ l = mem[p].len
    BY <2>1
  <2>4. PICK sp \in Nat : sp = StackPointer(booted)
    BY DEF StackPointer, BOOT_STACK_POINTER, SETUP_ADDR
  <2>5. a < sp /\ sp - 1 < a + l
    BY <2>3, <2>4, <2>2 DEF Overlaps, StackPointer, BOOT_STACK_POINTER, SETUP_ADDR
  <2>6. sp = IF booted = "long" THEN 2048 ELSE 16
    BY <2>4 DEF StackPointer, BOOT_STACK_POINTER, SETUP_ADDR
  <2>7. Right(p, a, l)
    BY <2>1, <2>3, <2>5, <2>6
  <2>8. p = "kernel" /\ booted = "long" /\ l >= 1792
    BY <2>2, <2>5, <2>6, <2>7
       DEF Right, SETUP_ADDR, CMDLINE_ADDR, PML4_ADDR, PDPT_ADDR, PD_ADDR, GDT_ADDR,
           BOOT_PARAMS_ADDR, KERNEL_LOAD_ADDR, INITRAMFS_LOAD_ADDR
  <2> QED BY <2>3, <2>8 DEF MB
<1> QED BY <1>1, BootInvariant, PTL

\* For every size of RAM, what a guest in long mode is handed is mapped, but for
\* what ends beyond 1 GB.
THEOREM HandedOverMapped == Spec => []HandedOverIsMapped
<1>1. BootInv => HandedOverIsMapped
  <2> SUFFICES ASSUME BootInv, booted = "long", NEW p \in Needed(booted)
               PROVE  End(p) <= Mapped \/ End(p) \in 1024 * MB + 1 .. ram
    BY DEF HandedOverIsMapped
  <2>1. p \in Pieces
    BY DEF Needed, Pieces
  <2>2. /\ ram \in Nat /\ ram >= 131072 /\ mem[p].at \in Nat /\ mem[p].len \in Nat
        /\ (mem[p].at = 0 /\ mem[p].len = 0) \/ Right(p, mem[p].at, mem[p].len)
    <3>1. Good(mem, oversized)
      BY DEF BootInv, MemoryInv
    <3>2. mem[p].at \in Nat /\ mem[p].len \in Nat
      BY <2>1, <3>1 DEF Good, Memory, Piece
    <3>3. (mem[p].at = 0 /\ mem[p].len = 0) \/ Right(p, mem[p].at, mem[p].len)
      BY <2>1, <3>1 DEF Good
    <3>4. ram \in Nat /\ ram >= 131072
      <4>1. ram \in MIN_RAM..MAX_RAM
        BY DEF BootInv, MemoryInv
      <4>2. MIN_RAM \in Nat /\ MAX_RAM \in Nat
        BY SMT DEF MIN_RAM, MAX_RAM, MB
      <4>3. ram \in Nat /\ ram >= MIN_RAM
        BY <4>1, <4>2
      <4> QED BY <4>3, SMT DEF MIN_RAM, MB
    <3> QED BY <3>2, <3>3, <3>4
  <2>3. PICK a \in Nat, l \in Nat : a = mem[p].at /\ l = mem[p].len
    BY <2>2
  <2>4. a + l <= ram
    BY <2>2, <2>3
       DEF Right, SETUP_ADDR, CMDLINE_ADDR, PML4_ADDR, PDPT_ADDR, PD_ADDR, GDT_ADDR,
           BOOT_PARAMS_ADDR, KERNEL_LOAD_ADDR, INITRAMFS_LOAD_ADDR
  <2>5. PICK e \in Nat : e = (ram + 511) \div 512
    BY <2>2
  <2>6. 512 * e >= ram
    BY <2>2, <2>5
  <2>7. Mapped = IF e < 512 THEN 512 * e ELSE 262144
    BY <2>5 DEF Mapped
  <2>8. End(p) = a + l
    BY <2>3 DEF End
  <2> QED BY <2>2, <2>4, <2>6, <2>7, <2>8 DEF MB
<1> QED BY <1>1, BootInvariant, PTL

-----------------------------------------------------------------------------
(***************************************************************************)
(* The safe half of BuildsUnlessBroken.  That new goes on is fairness;     *)
(* that it does not go on to a call which KVM must refuse is the order of  *)
(* its calls, and holds of every host and number of vCPUs.                 *)
(***************************************************************************)

\* While new runs, KVM has no objection to the order of the next call.
LEMMA OrderAccepted ==
  ASSUME BuildInv, stage = "building"
  PROVE  OrderOk(Call)
<1>1. done \in 0..10 /\ done + 1 \in 1..11
  BY DEF BuildInv
<1>2. CASE Call \in {"irq_chip", "identity_map"}
  <2>1. done + 1 < 9
    BY <1>1, <1>2 DEF Call, Steps
  <2>2. vcpus = 0
    BY <1>1, <2>1 DEF BuildInv
  <2> QED BY <1>2, <2>2 DEF OrderOk
<1>3. CASE Call = "pit"
  <2>1. done = 3
    BY <1>1, <1>3 DEF Call, Steps
  <2>2. Made("irq_chip")
    BY <2>1 DEF Made, Steps
  <2> QED BY <1>3, <2>2 DEF OrderOk
<1> QED BY <1>2, <1>3 DEF OrderOk

NoTableFits == \A n \in {32, 64, 128, 256} : n \notin host.leaves..host.most

\* A machine that is dropped before it was ready.
FailedByHost == stage = "dropping" /\ done < 11 => broke \/ NoTableFits

\* A construction that fails was broken off by the host, or the host accepts
\* none of the CPUID tables that get_supported_cpuid tries: new never fails
\* because of the order of its own calls.
THEOREM FailsByHostOnly == Spec => []FailedByHost
<1>1. Init => FailedByHost
  BY DEF Init, FailedByHost
<1>2. BootInv /\ FailedByHost /\ [Next]_vars => FailedByHost'
  <2> SUFFICES ASSUME BuildInv, FailedByHost, [Next]_vars PROVE FailedByHost'
    BY DEF BootInv
  <2>1. CASE Build
    BY <2>1 DEF Build, FailedByHost, Steps
  <2>2. CASE BuildFails
    <3>1. CASE ~CallWorks
      <4>1. ~get_supported_cpuid(host) /\ host' = host
        BY <2>2, <3>1, OrderAccepted DEF BuildFails, CallWorks
      <4>2. NoTableFits'
        BY <4>1 DEF get_supported_cpuid, TableSizes, NoTableFits
      <4> QED BY <4>2 DEF FailedByHost
    <3>2. CASE broke' = TRUE
      BY <3>2 DEF FailedByHost
    <3> QED BY <2>2, <3>1, <3>2 DEF BuildFails
  <2>3. CASE Discard \/ \E k \in Kernels : LoadStub(k)
    BY <2>3 DEF Discard, LoadStub, FailedByHost, BuildInv
  <2>4. CASE UNCHANGED <<stage, host, done, broke>>
    BY <2>4 DEF FailedByHost, NoTableFits
  <2>5. Build \/ BuildFails \/ Discard \/ (\E k \in Kernels : LoadStub(k))
          \/ UNCHANGED <<stage, host, done, broke>>
    BY DEF Next, Drop, SetupBoot, SetupBootFails, LoadPlain, LoadBzImage, LoadBzFails,
           LoadInitramfs, building, vars
  <2> QED BY <2>1, <2>2, <2>3, <2>4, <2>5
<1> QED BY <1>1, <1>2, BootInvariant, PTL DEF Spec
=============================================================================
