------------------------------- MODULE VmBoot -------------------------------
(***************************************************************************)
(* A virtual machine from VirtualMachine::new to the moment run is called, *)
(* and its end (crates/vmm/src/lib.rs with crates/kvm and crates/memory):  *)
(* the calls that build it, the loads of kernel and ramdisk, setup_boot,   *)
(* and the release of what it holds, in the order Rust drops it.           *)
(*                                                                         *)
(* Guest memory is what has been put there: every load is a piece with a   *)
(* place, and a write over a part of another piece damages that piece.     *)
(* Addresses and lengths are in pages of 4 KB; the tables and the GDT,     *)
(* which are smaller, take a page each.  Loads that fail before the first  *)
(* write leave everything as it is and are not modelled as steps.  The     *)
(* command line is the one every profile has, which fits its buffer.       *)
(*                                                                         *)
(* X_fault is X with a slip; no specification uses it.                     *)
(***************************************************************************)
EXTENDS Naturals, Sequences

CONSTANTS
  RamSizes,    \* RAM in pages, of the profiles new is called with
  Kernels,     \* kernel files: form, pages of setup, pages of the rest
  Ramdisks,    \* ramdisk files: pages
  Hosts,       \* CPUID leaves the host has, and the largest table it accepts
  VcpuCount

MB == 256
MIN_RAM == 512 * MB
MAX_RAM == 8192 * MB
Forms == {"plain", "bzImage", "stub"}

ASSUME BootAssumption ==
  /\ RamSizes \subseteq Nat
  /\ Kernels \subseteq [form : Forms, setup : 1..32, size : Nat \ {0}]
  /\ Ramdisks \subseteq Nat \ {0}
  /\ Hosts \subseteq [leaves : Nat, most : Nat]
  /\ VcpuCount \in Nat \ {0}

VARIABLES
  stage,     \* "building", "ready" or "dropping"
  ram,       \* config.ram_mb
  host,
  done,      \* how many of the calls in Steps have succeeded
  vcpus,     \* vCPUs created and programmed
  held,      \* what is still to be dropped, in that order
  mem,       \* guest memory, per piece
  kernel_is_bzimage,
  bzimage_header,    \* the kernel whose header was retained
  initramfs_size,
  cpu,       \* what the system and the general registers are set up for
  booted,    \* history: the mode of the last setup_boot, if it has succeeded
             \* and nothing was loaded since
  broke,     \* history: a call failed for reasons of the host
  oversized  \* history: a kernel that does not fit below the ramdisk, or a setup
             \* that does not fit below the command line, was written

building == <<stage, ram, host, done, vcpus, held, broke>>
loaded == <<mem, kernel_is_bzimage, bzimage_header, initramfs_size, oversized>>
vars == <<building, loaded, cpu, booted>>

-----------------------------------------------------------------------------
(***************************************************************************)
(* Guest memory.                                                           *)
(***************************************************************************)

SETUP_ADDR == 16
CMDLINE_ADDR == 32
PML4_ADDR == 112
\* The directory is written where its pointer table is.
PDPT_ADDR_fault == 114
PDPT_ADDR == 113
PD_ADDR == 114
GDT_ADDR == 128
BOOT_PARAMS_ADDR == 144
KERNEL_LOAD_ADDR == 256
BOOT_STACK_POINTER == 2048
INITRAMFS_LOAD_ADDR == 32768

Pieces == {"setup", "kernel", "initramfs", "cmdline", "params", "gdt", "pml4",
           "pdpt", "pd"}

Nothing == [at |-> 0, len |-> 0, intact |-> FALSE, of |-> <<>>]
End(p) == mem[p].at + mem[p].len

\* The check leaves out the length.
InRange_fault(at, len) == at <= ram

\* The bounds check of read_guest and write_guest.
InRange(at, len) == at + len <= ram

Overlaps(m, p, at, len) == m[p].at < at + len /\ at < m[p].at + m[p].len

\* m after a blob was written.
load_blob(m, piece, at, len, of) ==
  [p \in Pieces |->
     IF p = piece THEN [at |-> at, len |-> len, intact |-> TRUE, of |-> of]
     ELSE IF Overlaps(m, p, at, len) THEN [m[p] EXCEPT !.intact = FALSE]
     ELSE m[p]]

-----------------------------------------------------------------------------
(***************************************************************************)
(* VirtualMachine::new.                                                    *)
(***************************************************************************)

Steps == <<"open", "create_vm", "irq_chip", "pit", "tss_addr", "identity_map",
           "mmap", "memory_region", "cpuid", "vcpu", "disk">>

Made(call) == \E i \in 1..done : Steps[i] = call

\* What KVM asks of the order in which a machine is set up.
OrderOk(call) ==
  CASE call \in {"irq_chip", "identity_map"} -> vcpus = 0
    [] call = "pit" -> Made("irq_chip")
    [] OTHER -> TRUE

validate(pages) == pages \in MIN_RAM..MAX_RAM

\* Only the first table is tried.
TableSizes_fault == {256}

TableSizes == {256, 128, 64, 32}

\* A table too large is rejected, one too small does not hold the leaves.
get_supported_cpuid(h) == \E n \in TableSizes : n \in h.leaves..h.most

\* The fields of VirtualMachine in the order of their declaration.
Fields_fault == <<"hypervisor", "vm", "guest_memory", "vcpus", "disk">>

Fields == <<"hypervisor", "vm", "vcpus", "guest_memory", "disk">>

\* The locals of new, the last one first; when the disk image cannot be opened
\* they are operands of the struct expression, and the last one is guest_memory.
Locals ==
  IF Made("vcpu") THEN <<"guest_memory", "vcpus", "vm", "hypervisor">> ELSE
  (IF Made("cpuid") THEN <<"vcpus">> ELSE <<>>)
    \o (IF Made("mmap") THEN <<"guest_memory">> ELSE <<>>)
    \o (IF Made("create_vm") THEN <<"vm">> ELSE <<>>)
    \o (IF Made("open") THEN <<"hypervisor">> ELSE <<>>)

Init ==
  /\ stage = "building" /\ done = 0 /\ vcpus = 0 /\ held = <<>>
  /\ ram \in {r \in RamSizes : validate(r)}
  /\ host \in Hosts
  /\ mem = [p \in Pieces |-> Nothing]
  /\ kernel_is_bzimage = FALSE /\ bzimage_header = <<>> /\ initramfs_size = 0
  /\ cpu = [sregs |-> "reset", regs |-> "reset"]
  /\ booted = "none" /\ broke = FALSE /\ oversized = FALSE

Call == Steps[done + 1]
CallWorks == OrderOk(Call) /\ (Call = "cpuid" => get_supported_cpuid(host))

\* One call; the vCPUs are created and programmed one after the other.
Build ==
  /\ stage = "building" /\ CallWorks
  /\ IF Call = "vcpu" /\ vcpus + 1 < VcpuCount
       THEN vcpus' = vcpus + 1 /\ UNCHANGED <<done, stage, held>>
       ELSE /\ vcpus' = IF Call = "vcpu" THEN vcpus + 1 ELSE vcpus
            /\ done' = done + 1
            /\ stage' = IF done + 1 = Len(Steps) THEN "ready" ELSE stage
            /\ held' = IF done + 1 = Len(Steps) THEN Fields ELSE held
  /\ UNCHANGED <<ram, host, broke, loaded, cpu, booted>>

BuildFails ==
  /\ stage = "building"
  /\ \/ ~CallWorks /\ UNCHANGED broke
     \/ broke' = TRUE
  /\ stage' = "dropping" /\ held' = Locals
  /\ UNCHANGED <<ram, host, done, vcpus, loaded, cpu, booted>>

\* The machine goes out of scope.
Discard ==
  /\ stage = "ready"
  /\ stage' = "dropping"
  /\ UNCHANGED <<ram, host, done, vcpus, held, broke, loaded, cpu, booted>>

\* Closes a file or unmaps guest memory.
Drop ==
  /\ stage = "dropping" /\ held # <<>>
  /\ held' = Tail(held)
  /\ UNCHANGED <<stage, ram, host, done, vcpus, broke, loaded, cpu, booted>>

-----------------------------------------------------------------------------
(***************************************************************************)
(* load_kernel and load_initramfs.                                         *)
(***************************************************************************)

\* kernel_is_bzimage stays as it is.
LoadPlain(k) ==
  /\ stage = "ready" /\ k.form = "plain" /\ InRange(KERNEL_LOAD_ADDR, k.size)
  /\ mem' = load_blob(mem, "kernel", KERNEL_LOAD_ADDR, k.size, k)
  /\ booted' = "none"
  /\ oversized' = (oversized \/ KERNEL_LOAD_ADDR + k.size > INITRAMFS_LOAD_ADDR)
  /\ UNCHANGED <<building, kernel_is_bzimage, bzimage_header, initramfs_size, cpu>>

Setup(k) == load_blob(mem, "setup", SETUP_ADDR, k.setup, k)
LongSetup(k) == SETUP_ADDR + k.setup > CMDLINE_ADDR

\* The setup is in its place when the rest turns out to be too long.
LoadBzFails(k) ==
  /\ stage = "ready" /\ k.form = "bzImage" /\ ~InRange(KERNEL_LOAD_ADDR, k.size)
  /\ mem' = Setup(k)
  /\ oversized' = (oversized \/ LongSetup(k))
  /\ UNCHANGED <<building, kernel_is_bzimage, bzimage_header, initramfs_size, cpu, booted>>

LoadBzImage(k) ==
  /\ stage = "ready" /\ k.form = "bzImage" /\ InRange(KERNEL_LOAD_ADDR, k.size)
  /\ mem' = load_blob(Setup(k), "kernel", KERNEL_LOAD_ADDR, k.size, k)
  /\ kernel_is_bzimage' = TRUE /\ bzimage_header' = k
  /\ booted' = "none"
  /\ oversized' = (oversized \/ LongSetup(k)
                     \/ KERNEL_LOAD_ADDR + k.size > INITRAMFS_LOAD_ADDR)
  /\ UNCHANGED <<building, initramfs_size, cpu>>

\* A file that ends within the header: the machine is lost in the panic that
\* comes when the header is to be retained.
LoadStub(k) ==
  /\ stage = "ready" /\ k.form = "stub"
  /\ stage' = "dropping"
  /\ UNCHANGED <<ram, host, done, vcpus, held, broke, loaded, cpu, booted>>

LoadInitramfs(n) ==
  /\ stage = "ready" /\ InRange(INITRAMFS_LOAD_ADDR, n)
  /\ mem' = load_blob(mem, "initramfs", INITRAMFS_LOAD_ADDR, n, <<>>)
  /\ initramfs_size' = n
  /\ booted' = "none"
  /\ UNCHANGED <<building, kernel_is_bzimage, bzimage_header, oversized, cpu>>

-----------------------------------------------------------------------------
(***************************************************************************)
(* setup_boot.                                                             *)
(***************************************************************************)

Mode == IF kernel_is_bzimage THEN "protected" ELSE "long"

\* setup_page_tables: the number of 2 MB entries, in pages.
Mapped == LET entries == (ram + 511) \div 512
          IN 512 * (IF entries < 512 THEN entries ELSE 512)

PageTables(m) ==
  load_blob(load_blob(load_blob(m, "pml4", PML4_ADDR, 1, <<>>),
                      "pdpt", PDPT_ADDR, 1, <<>>), "pd", PD_ADDR, 1, <<>>)

\* setup_bzimage_boot up to the boot parameters.
BootParams(m) ==
  load_blob(load_blob(m, "cmdline", CMDLINE_ADDR, 1, <<>>),
            "params", BOOT_PARAMS_ADDR, 1,
            [header |-> bzimage_header, ramdisk |-> initramfs_size])

\* setup_gdt and setup_gdt_32bit.
Gdt(m) == load_blob(m, "gdt", GDT_ADDR, 1, Mode)

\* The stack pointer is set to the end of the first page of the setup.
StackPointer_fault(mode) == SETUP_ADDR + 1

\* rsp, which setup_boot and setup_bzimage_boot set.
StackPointer(mode) == IF mode = "long" THEN BOOT_STACK_POINTER ELSE SETUP_ADDR

\* A GDT that is there is used again.
BootMemory_fault ==
  LET m == IF kernel_is_bzimage THEN BootParams(mem) ELSE PageTables(mem)
  IN IF mem["gdt"].intact THEN m ELSE Gdt(m)

BootMemory == Gdt(IF kernel_is_bzimage THEN BootParams(mem) ELSE PageTables(mem))

SetupBoot ==
  /\ stage = "ready"
  /\ mem' = BootMemory
  /\ cpu' = [sregs |-> Mode, regs |-> Mode]
  /\ booted' = Mode
  /\ UNCHANGED <<building, kernel_is_bzimage, bzimage_header, initramfs_size, oversized>>

\* The calls that read and write the registers of vCPU 0 can fail, the system
\* registers come first.
SetupBootFails ==
  /\ stage = "ready"
  /\ mem' = BootMemory
  /\ \E s \in {cpu.sregs, Mode} : cpu' = [cpu EXCEPT !.sregs = s]
  /\ booted' = "none"
  /\ UNCHANGED <<building, kernel_is_bzimage, bzimage_header, initramfs_size, oversized>>

Next ==
  \/ Build \/ BuildFails \/ Discard \/ Drop \/ SetupBoot \/ SetupBootFails
  \/ \E k \in Kernels : LoadPlain(k) \/ LoadBzImage(k) \/ LoadBzFails(k) \/ LoadStub(k)
  \/ \E n \in Ramdisks : LoadInitramfs(n)

\* new does not block.
Spec == Init /\ [][Next]_vars /\ WF_vars(Build \/ BuildFails)

-----------------------------------------------------------------------------
(***************************************************************************)
(* Properties.                                                             *)
(***************************************************************************)

Files == Kernels \cup {<<>>}

TypeOK ==
  /\ stage \in {"building", "ready", "dropping"}
  /\ ram \in MIN_RAM..MAX_RAM /\ host \in Hosts
  /\ done \in 0..Len(Steps) /\ vcpus \in 0..VcpuCount
  /\ \A p \in Pieces : mem[p].at \in Nat /\ mem[p].len \in Nat /\ mem[p].intact \in BOOLEAN
  /\ kernel_is_bzimage \in BOOLEAN /\ bzimage_header \in Files
  /\ initramfs_size \in Nat
  /\ booted \in {"none", "long", "protected"}
  /\ broke \in BOOLEAN /\ oversized \in BOOLEAN

\* A machine can be built on every host that does not refuse a call for reasons
\* of its own: new makes its calls in an order KVM accepts, and finds a CPUID
\* table that the host does not reject.
BuildsUnlessBroken ==
  (stage = "building")
    ~> (stage = "ready" \/ broke \/ \A n \in {32, 64, 128, 256} : n \notin host.leaves..host.most)

InSeq(e, s) == \E i \in 1..Len(s) : s[i] = e

\* However a machine ends, in the middle of new or later, guest memory is
\* unmapped only when no vCPU is left that could use it.  The one exception: new
\* fails because the disk image cannot be opened.
MemoryOutlivesVcpus ==
  stage = "dropping" /\ vcpus > 0 /\ InSeq("vcpus", held)
    => InSeq("guest_memory", held) \/ done = Len(Steps) - 1

Needed(mode) ==
  {"gdt"} \cup (IF mem["kernel"].len > 0 THEN {"kernel"} ELSE {})
    \cup (IF initramfs_size > 0 THEN {"initramfs"} ELSE {})
    \cup (IF mode = "long" THEN {"pml4", "pdpt", "pd"} ELSE {"cmdline", "params"})

\* When setup_boot has succeeded, everything the guest is handed is in its
\* place and undamaged, whatever was loaded before, in which order and how
\* often, and whatever failed: unless a kernel reached into the ramdisk, or a
\* setup into the command line.
BootIntact ==
  booted # "none" /\ ~oversized => \A p \in Needed(booted) : mem[p].intact

\* The page below the stack pointer, which the guest's first push overwrites,
\* belongs to nothing that was loaded or set up, for whichever kernel was loaded
\* before.  The one exception: a plain kernel of 7 MB or more lies around the
\* stack, or ends at the stack pointer.
StackIsFree ==
  booted # "none" =>
    \A p \in Pieces :
      Overlaps(mem, p, StackPointer(booted) - 1, 1)
        => p = "kernel" /\ booted = "long" /\ mem[p].len >= 7 * MB

\* setup_boot enters the kernel that is in memory the way it wants to be
\* entered, with its own header, the GDT of that mode and the size of the
\* ramdisk that is there.  The one exception: a plain kernel loaded into a
\* machine that had a bzImage before.
BootMatches ==
  booted # "none" /\ mem["kernel"].len > 0 =>
    /\ mem["gdt"].of = booted /\ cpu = [sregs |-> booted, regs |-> booted]
    /\ booted = "long" => mem["kernel"].of.form = "plain"
    /\ booted = "protected" =>
         /\ mem["params"].of.header \in IF mem["kernel"].of.form = "plain"
                                         THEN Kernels ELSE {mem["kernel"].of}
         /\ mem["params"].of.ramdisk = mem["initramfs"].len

\* A guest that starts in long mode has everything it is handed mapped: the one
\* page directory is enough unless a ramdisk reaches beyond 1 GB.
HandedOverIsMapped ==
  booted = "long" =>
    \A p \in Needed(booted) : End(p) <= Mapped \/ End(p) \in 1024 * MB + 1 .. ram
=============================================================================
