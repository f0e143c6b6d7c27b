# LiteDroid: a TLA+ model

This directory models LiteDroid where threads, processes, failures and retries
meet: the daemon and the emulator it owns, the daemon processes that share one
socket, the files a launch creates and rewrites, the profiles three programs
edit, the ADB server, the NAT rules, and of the virtual machine monitor the
construction and boot of a machine, its run loop, the block device and the other
devices. TLC checks the models on small instances; TLAPS proves every safety
property for every instance, and that the daemon and the block device implement
their abstract specifications.

Line numbers in `PROJECT.json` refer to the repository's sources, and
`map` gives for every definition the lines it stands for.

## 1. The system

| Part | State | Operations | Talks to |
|---|---|---|---|
| `apps/daemon` | `RUNNING`, `DaemonState` (active device, power state, emulator child, adb path) behind one mutex | accept loop, one thread per connection, `dispatch` (start, stop, restart, wipe, status, ADB commands, shutdown), signal handlers | clients over a Unix socket, the Android Emulator process, `adb`, `sdkmanager` |
| daemon start-up | the socket path and the PID file | write PID, remove socket, bind, clean up | other daemons, GUI, CLI |
| `apps/gui` | list of devices, selected device, power state, "auto start attempted" | `ensure_daemon`, `refresh`, buttons, `create_device` | daemon, profile files |
| `apps/cli` | none | one request per call, profile files, `daemon start` | daemon, profile files |
| `crates/ipc` | a stream | framing, `connect`, `send_request`, `IpcServer::new` | daemon, clients |
| `crates/config` | profiles, image files, `config.toml` | `device_config`, `ensure_default_device`, `ensure_android_images` | `sdkmanager` |
| `crates/adb` | stop flag, listener | `start`, `stop`, `handle_client`, message codec | TCP clients |
| `crates/network` | TAP fd, "set up" flag, the host's iptables | `setup`, `teardown`, `Drop`, virtio-net registers | host tools |
| `crates/vmm`, `kvm`, `memory` | guest memory, vCPUs, block device, run flag | `new`, loads, boot set-up, `run`, `stop`, virtio-blk queue | KVM, guest |
| `crates/devices`, `storage`, `input`, `audio` | registers, the list of devices, a sample buffer, a bounded channel | `add_device`, reads, writes, `reset_all`, `inject_*`, `try_recv` | VMM, user interface |
| `crates/graphics` | a framebuffer | fill, blit | nobody yet |
| `crates/core`, `logging`, `diagnostics`, `scripts` | none | types, log set-up, host checks, build | all |

What is hard here, and hardly reached by the repository's tests:

- requests of several clients overlap, each in its own thread, while the
  emulator boots and dies by itself and the main thread may leave;
- a handler checks the child process, then downloads for minutes, then spawns;
- one step of several fails (launch after stop, one iptables rule of three, the
  status byte of a block request) and the state in between is what the next
  request sees;
- processes that know nothing of each other remove and create the same files,
  sockets as well as profiles, images and AVDs, and are killed half-way;
- everything a guest is handed lies at fixed addresses and is loaded in any order;
- blocking calls (`accept`, `read_exact`, `KVM_RUN`) are supposed to notice a
  flag;
- 16-bit ring indices wrap, rings wrap at another size, and requests are
  retried.

`PROJECT.json` lists these as hazards at the lines where they bite, with the
properties that watch over them.

## 2. The modules

Definitions keep the names of the code where there is one. An operator whose
name ends in `_fault` is a variant of the operator it is named after, with a
slip a change of the code could introduce. No specification uses them; they show
that each property notices something.

### Daemon

`Daemon` is the process of `apps/daemon/src/main.rs`. `main` is the position of
the main thread (`setup`, `bind`, `loop`, `accept`, `sleep`, `exited`),
`stage[c]` how far the request of connection `c` has come, `lock` the connection
whose handler holds the mutex, `active`, `power`, `emu`, `adb` are the fields of
`DaemonState`, and `proc`/`dev` is the operating system's process table.

`dispatch` holds the mutex from beginning to end. A handler is therefore cut only
where someone without the mutex can act: between the check and the spawn of
`launch_device`, between `try_wait` and `adb get-state`, and before the ADB
command. There the emulator may come up or die, a signal or a new client may
arrive, and the main thread may return, which ends all handlers and leaves the
emulator alone. Exited children stay in the process table until they are waited
for. The seven methods that end in an ADB command are one request kind, the
methods that do not touch `DaemonState` another. A client that gives up after
30 s is invisible to the daemon: its request runs on, and its retry is another
connection.

`SerialDaemon` is the abstract specification: a server without connections,
threads, handles or process slots, which takes one request at a time, gives it the
effects of its method, and knows at most one emulator, which boots and dies by
itself. Launching is a state of its own, because a launch takes long and an
emulator that is gone is gone while it lasts. `Daemon!RequestsInTurn` says that the
daemon implements it. The refinement mapping takes the request in service from the
holder of the mutex (`Serving`) and the emulators from the whole process table
(`Emulators`), not from the handle, so a process nobody answers for would show.

### Instances

`Instances` models several daemon processes and the two files they share. Each
goes through the steps of `main` one system call at a time: write the PID file,
remove the socket, remove it again in `IpcServer::new`, bind, serve, remove the
socket, remove the PID file. A daemon may crash anywhere. GUIs run
`ensure_daemon` (connect, and spawn when that fails), the CLI spawns without a
check. Two history variables record whether two daemons have existed at the same
time (`overlapped`) and whether one was killed, shut down or refused a free path
(`ended`), because what can be promised depends on it.

### AdbServer

`AdbServer` models `AdbServer::start`, `stop` and the message loop of
`handle_client`, which runs in the accepting thread. Messages are the kinds the
loop tells apart. Clients and the owner that calls `stop()` (flag, then a
connection to itself) are separate processes. A client may stay connected and
silent for ever, and then the thread stays with it (`Hogged`).

### NatManager

`NatManager` models the managers, the host's table of rules as a bag (iptables
keeps duplicates) and a default route that may change. `setup` turns its receiver
into a manager that is set up and returns another one, so two managers will delete
what was added once. Every iptables command, `-A`, `-I` or `-D`, may be refused
without anybody noticing; `MaxRefused` bounds how often. The history variables say
what can be promised: `via` the interface each manager's `setup` used, `missed` how
many deletes that were due for a rule did not happen, `whole` the TAPs whose setup
was complete and of which no manager has been torn down.

### Launch

`Launch` follows `launch_device` from the profile to the spawn, one call that
changes a file per step: `device_config`, `ensure_default_device`,
`ensure_android_images` with its three copies, `avdmanager`, `configure_avd`. All
of it works on files that outlive the daemon, and every rewrite is a truncation
followed by a write; a call can fail and a daemon can be killed between any two.
The mutex of `Daemon` allows one launch per daemon, but there may be several
daemons (`Instances`). `cut` records the AVDs whose `config.ini` was left
truncated, `overlapped` that two daemons were launching at the same time.

### Profiles

`Profiles` models the directory of profiles and the processes that work on it
without a lock: the GUI's `refresh`, `create_device`, selection and automatic
boot, the CLI's `device create` and `device delete`, and the daemon's
`ensure_default_device`. A file that two processes have open holds the later text
with the end of the longer one behind it; a file that is deleted while it is open
takes the text with it. Every call may fail, and a write that fails has emptied the
file and may have left the beginning of its text in it. `raced`, `miscount` and
`torn` record which of the known causes of damage have occurred.

### VmBoot

`VmBoot` takes a machine through `VirtualMachine::new` call by call, with the
order KVM asks for and the CPUID table sizes that `get_supported_cpuid` tries,
through `load_kernel`, `load_initramfs` and `setup_boot` in any order, and through
the release of what it holds in the order Rust drops it (fields of the struct, or
the locals of `new` when it fails). Guest memory is a set of pieces with their
place; a write over a part of a piece damages it. Addresses are real, in pages of
4 KB.

### Devices

`Devices` models `VirtioBus` with the devices on it (console, RNG, virtio-net,
virtio-blk, audio) and, beside it, the bounded channel of `InputManager` with the
user that presses and releases and the guest that is told.

### VirtioBlk, BlockQueue and VmRun

`VirtioBlk` models the registers of `VirtioBlock`, the queue in guest memory that it
shares with the guest's driver (external) and `process_queue`, one request per step.

Memory is words of 16 bits (`mem`), because the code reads the same words in two
ways: word 1 is the available index and the words from 2 on are the ring (lines 735
and 738), and the words from 8 * d on are descriptor d (line 746). The driver has a
`layout`: the queue size it asks for, where it keeps its ring, and its chains of
three descriptors. Two kinds exist in the instance. The layout of virtio has the
ring behind the descriptor table, and the device takes the first descriptors for
index and ring. A layout that `Suits` the device has the ring at the beginning and
uses none of the descriptors that share its words; since line 762 wants the status
descriptor below the queue size, a queue of one slot is unusable in any layout.

`process_request` follows the chain with all its checks (`Accepted`) and moves the
data; `pread` and `pwrite` may move less than asked, which the code answers as
success (`Transfers`). It can fail at every `?`; the failures form three groups:
before the data moves (`FailEarly`), after it (`FailMoved`), and inside the used
ring (`FailUsed`). In each case the error is logged and the same request is tried
again at the next notification.

`BlockQueue` is the abstract specification: a disk that executes the requests one
after the other and answers each once, with transfers that may be short.
`VirtioBlk!InOrderOnce` says that the device implements it for a layout that suits;
the refinement mapping reads the answers from what the driver would find in the used
ring. For any other layout the mapping is constant and nothing is claimed.

`VmRun` composes the block device with the run loop: guest memory is accessed
while the vCPU runs, every register access is an exit, and the stop flag may
change at any time. `MCVmRun` is the instance of both.

## 3. What TLC checks

| Run | Instance | Shows |
|---|---|---|
| `daemon_safety` | 2 connections, 2 profiles, 2 process slots | `SingleEmulator`, `CheckStillHolds`, `RegisteredChildIsActive`, `OffMeansNoEmulator`, `StatusNamesDevice`, the action properties `RestartKeepsDevice` and `OnlyAskedKill`, and that `Daemon` implements `SerialDaemon` (`RequestsInTurn`) |
| `daemon_live` | 2 connections, 1 profile | every accepted request ends; with `RUNNING` false the next client ends the daemon |
| `daemon_shutdown` | same | *violated*: after shutdown or SIGTERM the daemon stays in `accept` until one more client comes |
| `instances_shared` | 3 daemons, 2 GUIs | while daemons follow one another, left-over files never block a bind and the daemon that serves is reachable; when starts race and nobody ends a daemon, the path leads to a listening daemon once nobody is starting, and a start leads there |
| `adb_live` | 3 clients | no message ends the server; unless one client stays connected for ever, `stop()` ends it and queued clients are served |
| `adb_handlers` | same | *violated*: a client that stays keeps all others from being served |
| `nat_forward` | 4 managers, 2 TAPs, 2 routes, 2 refused commands | a rule outlives its managers only when two deletes due for it were missed (`NothingLeft`); a TAP's FORWARD rules are deleted by its own managers only (`ForwardsStay`) |
| `launch_files` | 2 daemons, 2 profiles on one AVD, 2 disturbances | only the system image can be taken for ready when it is not complete; an emulator runs with the configuration of its profile; repeated starts recover from everything but the two states of `Stuck` |
| `profiles_store` | GUI, CLI, daemon, 3 names, 2 commands, 1 kill or failing call | where an empty or garbled `metadata.json` can come from, that `create_device` overwrites nothing while its count is right, that the selection sticks, and that the automatic boot is sent |
| `vm_boot` | 4 sizes of RAM, 7 kernels, 3 ramdisks, 3 hosts, 2 vCPUs | `new` succeeds on every host that breaks nothing; the guest is handed undamaged, matching, mapped pieces and a free stack; guest memory outlives the vCPUs |
| `vm_loop` | queue of 4 slots, indices modulo 8, 7 descriptors, one driver of each layout, any number of requests | `VirtioBlk` implements `BlockQueue` (`InOrderOnce`), in one run of the loop or several; the two cursors agree; the loop ends when the flag is down, unless the guest never exits again |
| `devices_io` | 2 devices, a buffer of 4, a channel of 2 | no sample is lost or survives a reset; a key is stuck only after the channel was full |

Several properties name the one case in which the code does not give what they
say, as a history variable in their premise or as an explicit exception. Those
cases are listed in section 5.

The two violated runs state what a comment of the repository says; the findings in
`PROJECT.json` quote the lines.

The bounds. Two connections are enough for every pair of overlapping requests; a
third only waits for the same mutex. Two profiles tell "the right device" from
"another one", two process slots allow the second emulator the properties exclude.
Three daemons let a third interfere between two steps of a race, and give the files
two owners in the past. The stream of block requests has no end: `posted` holds only
those under way, so that with indices modulo 8 and four slots indices and rings wrap
again and again. Four slots are the fewest for two suiting chains (descriptor 0
shares its words with the ring, and two status descriptors must be below the queue
size, a power of two); one driver asks for more than the device's limit, the other
for a number that is too wide for the register, and a disk of two halves tells a
short transfer from a full one. Four managers are two pairs; with two refused
commands both deletes of a rule can be missed. Managers, TAPs and host interfaces in
`nat_forward`, and values, connections and process slots in `daemon_safety`, are
only compared, which is why symmetry is used in these two runs; they have no
liveness. Two daemons and two disturbances let a launch meet another one in every
step, be cut off, be repeated and be cut off again; the two profiles share an AVD
because separate AVDs do not meet. One kill or failing call, two commands and two
names of `create_device` let a file be created, deleted and created again beside the
GUI. The boot instance has sizes on both sides of every limit in the code: the
smallest RAM and one less, an odd number of megabytes, more than the page directory
maps; a plain kernel that just spares the initial stack and one that ends at the
stack pointer, a kernel that reaches the ramdisk, one that ends beyond the RAM; a
setup that reaches the command line. A buffer of four with a threshold of two is
`AUDIO_BUF_SIZE` with its half. All runs check for deadlock except `vm_boot`, where
a machine is gone in the end.

Fairness. Threads are scheduled (weak fairness of their steps). parking_lot's
mutex is eventually fair and the kernel's accept queue is first in, first out
(strong fairness of taking the lock and of accepting a given connection). The
tools the daemon calls return (weak fairness of the steps of `Launch` and of
`VmBoot`), and somebody keeps asking for each device (strong fairness of `Start`:
`RetryRecovers` is about retries). The GUI's timer calls `refresh` every three
seconds whatever else happens in the window (strong fairness of `Refresh`). Nothing is
assumed of users, signals, emulators, ADB clients or guests. A client may keep the
ADB server's only thread for ever, and a guest may never leave `KVM_RUN` (it may
compute, or halt with the interrupt controller in the kernel, and nothing kicks the
vCPU); `StopEnds`, `QueuedServed` and `FlagEndsLoop` name these two cases as the only
ones in which what they say does not happen.

## 4. What is proved

`DaemonProof`, for any sets of connections, profiles and process slots and from
the three assumptions that `None` is no element of them and that the default
profile is a profile:

- `OneEmulator`, `ChecksHold`, `ActiveIsChild`, `PowerStateSound`, `StatusSound`:
  the invariants of `daemon_safety`, and `TypeCorrect`: `TypeOK`;
- `RestartSameDevice`, `KillsAreAsked`: its two action properties;
- `ServesInTurn`: `RequestsInTurn`, i.e. `Daemon` implements `SerialDaemon`;
- `OnTheirWay`: no handler ever goes back a stage (`HandlersAdvance`). With the
  fairness of `daemon_live`, which gives every handler its next step, this is why
  `HandlersFinish` holds.

None of the invariants is inductive. `IInv` adds that a handler is inside
`dispatch` exactly while it holds the mutex (`HolderInside`) and ties the
stage of the holder to the registered child. With it a step is either a step of
the holder, treated per action, or one that changes neither `DaemonState` nor
the child (`QuietStep`).

The refinement goes by groups of actions. The main thread, the clients and a
handler outside `dispatch` do not show (`UnseenStep`, `OutsideUnseen`); `Lock` is
`Take`; a handler that returns without an effect is `Finish`; the requests that end
the emulator are `End`, `Begin` and `BeginAgain`; `LaunchOk` is `Launch`; the
outcomes of `emulator_state` are `PollExited` and `PollPresent`; the emulator's own
steps are `Live`. It needs `IInv` to know that the registered child is all the
emulators there are (`ChildIsAll`), before and after the step, and one fact that
`IInv` does not have: a handler that waits for `adb get-state` still carries a
status or ADB request (`ProbesPoll`, proved by `ProbesArePolls`).

`InstancesProof`, for any number of daemons and GUIs:

- `RaceSettles`: `SettledIsReachable`, with `PathInv`: as long as nobody has ended
  a daemon, a path that leads nowhere has someone who is about to bind;
- `SequenceServes` and `SequenceBinds`: `ServingIsReachable` and
  `StaleNeverBlocks`, with `SequenceInv`: as long as daemons have not overlapped at
  most one exists, so what it has removed or put at the path is still as it left it.

`NetworkProof`, for any TAPs and host interfaces and any finite set of managers:

- `OneMissIsHarmless` and `OthersKeepForwards`: `NothingLeft` and `ForwardsStay`.
  `NothingLeft` is not inductive, because what a teardown deletes may have been
  added by another manager, and all TAPs share the MASQUERADE rule. `RulesBalance`
  proves the invariant that is (`Shares`). Its heart is `Balance`: twice the copies
  of a rule are at most the managers that have to delete it and the deletes that
  were missed. A complete setup adds one copy and two managers; a teardown takes one
  manager away and either a copy or a miss comes with it. It holds for every
  sequence of refused commands and route changes.

The same module, for the ADB server with any set of clients:

- `OnlyOwnerEnds`: `OnlyStopEnds`;
- `OneClientServed`: the invariant `ServesOne`: the client served is the one the
  thread reads from, and nothing is left of a connection that was closed;
- `NoLostWakeup`: after `stop()` a thread that is still in `accept` has a connection
  to take, if there is room for one connection at all. This is the safe half of
  `StopEnds`. When the connection of `stop()` is refused, it rests on `ServesOne`:
  the queue is full and the thread serves nobody, so all of it is waiting.

`VmRunProof`, for every queue size and index width with sizes that divide the
range of the indices, as virtio's powers of two do, every amount of memory, every set
of layouts and every stream of requests:

- `QueueImplements`: `InOrderOnce`, i.e. `VirtioBlk` implements `BlockQueue` for every
  layout that suits. The initial state maps to the initial state (`RefineInit`),
  `Post` to `Post`, `Reclaim` to `Take`, `Process` to `Answer`, an attempt that fails
  after a write to `Store`, and every other step to a stutter (`RefineStep`). This
  rests on `QueueInvariant`: the wrapped indices count the requests posted and
  answered (`CursorInv`); requests under way have heads of their own (`HeadsDiffer`),
  are at most as many as the queue has slots, and therefore have slots of their own;
  the words the device takes for the ring hold their heads (`RingsHold`), the words of
  their descriptors lead to their areas (`ChainsHold`), and the areas hold what was
  posted, up to the buffer of a read that an attempt has filled in part
  (`BuffersHold`). `PostWords` shows that the driver's writes of a suiting chain
  disturb neither the ring nor another chain; a few lemmas on remainders carry the
  wrap of indices and rings;
- `CursorsStay`: `CursorsAgree`, which is inductive and holds for every layout;
- `LoopKeepsDevice`: `VmSpec => Spec`, i.e. the run loop with its stops and further
  runs implements the block device alone, and with it `CursorsStayInLoop` and
  `QueueAcrossRuns` (`InOrderOnce` of `VmSpec`).

`LaunchProof`, for any sets of daemons, profiles, AVDs and parameters and any number
of disturbances:

- `ImagesInOrder`: `OnlySystemShort`. Not inductive, since images become ready one
  copy at a time: `InstallInv` says for each position inside
  `ensure_android_images` which images are complete. It holds while no two daemons
  launch together (`Alone`: then at most one is inside `launch_device`);
- `EmulatorsConfigured`: `SpawnedAsConfigured`, with `ConfigInv`: from the end of
  `configure_avd` to the spawn the AVD holds the values of the launching profile,
  and an AVD that is not `cut` has the lines of `avdmanager`;
- `LaunchTypes`: `TypeOK`.

`ProfilesProof`, for any GUIs, CLIs, finite sets of names, and any number of commands,
kills and failing calls:

- `EmptyIsTorn` and `GarbageIsRaced`: `EmptyHasWriter` and `GarbageNeedsRace`. The
  strengthening (`StoreInv`) says that an open file is empty unless it was raced
  for, so a write that finds a text in its file, or stops in the middle of it, is
  known to be one of two;
- `ChoiceIsKept`: `SelectionSticks`, with `GuiInv`: what a GUI lists or its user has
  chosen is readable or was touched since;
- `CreatesFresh`: `CreateIsFresh` when there is one GUI. `FreshInv`: while the count
  is right, no PixelLite number in use is larger than the number of directories,
  nor, between a listing and the next, than the number of devices listed. With two
  GUIs it does not hold: both take the same number from the same list;
- `ProfilesTypes`: `TypeOK`.

`VmBootProof`, for any sizes of RAM and ramdisks, kernels with any setup up to 32
sectors, hosts and numbers of vCPUs:

- `DropsInOrder`: `MemoryOutlivesVcpus`, with the order of the drop lists
  (`BuildInv`);
- `HandedOverIntact`, `EnteredAsLoaded`, `FirstPushIsSafe`, `HandedOverMapped`:
  `BootIntact`, `BootMatches`, `StackIsFree`, `HandedOverIsMapped`. They need the
  place of every piece (`Right`), how far each may reach (`Below`), that pieces
  stay undamaged until something is `oversized`, and what is loaded
  (`LoadedInv`), because `setup_boot` may follow any sequence of loads;
- `FailsByHostOnly`: the safe half of `BuildsUnlessBroken`. While `new` runs, KVM has
  no objection to the order of the next call (`OrderAccepted`, from `BuildInv`), so
  a construction that fails was broken off by the host;
- `BootTypes`: `TypeOK`.

The proof of `FirstPushIsSafe` did not go through for a plain kernel of exactly
7 MB: the property had excluded larger ones only. The instance has that kernel
now.

`DevicesProof`, for any number of devices, size of the audio buffer and threshold,
length of the channel and set of controls:

- `NoSampleDropped` and `ResetsSilence`: `SamplesAccounted` and `NoStaleAudio`, with a
  buffer that is below the threshold between two calls (`Sound`);
- `StuckIsLost`: `StuckOnlyAfterFull`, with `InputInv`: the last change of a control
  in the channel agrees with the user, and without one the guest does;
- `DevicesTypes`: `TypeOK`.

Only model-checked is what has `~>` in it (`HandlersFinish`, `NextClientEndsDaemon`,
`StartLeadsToReachable`, `StopEnds`, `QueuedServed`, `FlagEndsLoop`, `RetryRecovers`,
`BootIsAsked`, `BuildsUnlessBroken`): liveness under fairness is out of the prover's
reach. For four of them the part that can be said of states and steps is proved:
`OnTheirWay` for `HandlersFinish`, `RaceSettles` for `StartLeadsToReachable`,
`NoLostWakeup` for `StopEnds` and `FailsByHostOnly` for `BuildsUnlessBroken`.

All proofs use the named ASSUME of the module they are about and nothing else (but
for the one GUI of `CreatesFresh` and the room of `NoLostWakeup`, which these
theorems state); TLC evaluates it in the module's run. The inductive invariants were
checked with TLC on the instances of section 3 before they were proved.

## 5. Where the code falls short

These are cases met while modelling in which the code does less than a reader may
expect. The two that contradict a comment and are violated runs come first; the
properties leave the others out by name. Where the repository says otherwise, the
place is quoted.

- `apps/daemon` 531 (`daemon_shutdown`): after a shutdown request or a signal the
  main thread stays in `accept` until one more client comes.
- `crates/adb` 328 (`adb_handlers`): a client is served in the accepting thread, on
  a stream without a read timeout (205), although line 292 says "accepts ADB client
  connections and spawns handlers". One that stays also keeps `stop()` from ending
  the thread.
- `apps/daemon` 83, 291: a start over an exited emulator that then fails leaves
  `power_state`, `active_device` and `adb` describing the dead one. Without a
  registered emulator a status request does not look again, so this lasts until the
  next start, stop or restart.
- `apps/daemon` 496: a signal before `RUNNING.store(true)` is overwritten.
- `apps/daemon` 549: `main` returns while a handler may be in `launch_device`; an
  emulator it has spawned is nobody's.
- `crates/ipc` 118: "Remove stale socket" removes a live one, too; the daemon behind
  it cannot be reached any more (`overlapped` in `Instances`).
- `apps/daemon` 412: `config.ini` is rewritten in place; a kill between truncation
  and write loses the lines of `avdmanager` for good (`cut` in `Launch`). An AVD
  directory without `config.ini` and a "default" profile that does not parse are
  never repaired (`Stuck`).
- `crates/config` 231, 377: images are ready by their first bytes; an interrupted
  copy of the system image is taken for complete. The API level is not compared.
- `apps/gui` 171: the name of a new profile is a count; after a deletion or beside
  an unreadable profile it may name an existing one (`miscount` in `Profiles`).
- `crates/config` 219, `apps/gui` 186, `apps/cli` 313: a profile is rewritten in
  place; a write that fails, or a process that is killed, between truncation and
  write leaves an empty or cut `metadata.json` (`torn` in `Profiles`).
- `crates/network` 394: "Remove the iptables rules that were added by setup".
  Teardown asks for the default route again; when it has moved, the MASQUERADE rule
  of the old interface is not asked for. Refused deletes are not repeated. A rule
  stays when both of its managers have missed it (`missed` in `NatManager`). The
  MASQUERADE rule does not name the TAP, so the second manager of one guest removes
  the rule of another.
- `crates/vmm` 512: "Run the guest until it halts, shuts down, or is stopped
  externally". `stop` lowers a flag that `run` reads between two exits (525); a
  guest that computes, or halts with the in-kernel interrupt controller (92), does
  not exit and is not stopped.
- `crates/vmm` 735, 738: index and ring are read at the beginning of the descriptor
  table, where a virtio driver has descriptors; with such a driver the device reads
  heads from descriptors (`Suits` in `VirtioBlk`). 783, 794: a short `pread` or
  `pwrite` is answered as success.
- `crates/vmm` 136: when the disk image cannot be opened, guest memory is unmapped
  before the vCPUs are closed. 178: a plain kernel loaded after a bzImage is booted
  with the old header. 179: a bzImage that ends within its header panics. 47: the
  initial stack is at 8 MB, not "just below the initramfs area", and lies inside a
  plain kernel of more than 7 MB and at the end of one of exactly 7 MB. 424: what
  lies above 1 GB is not mapped. 517: a stop before `run` has set the flag is lost.
- `crates/input` 122: a release that finds the channel full is dropped.

### Not modelled

Panics other than the one named, and failing `thread::spawn`; file permissions; time
(a timeout is a step that may happen at any moment, or is invisible as explained
above); two client connections in one process; logging, formatting and drawing. A
listing of the profiles is one step in `Profiles`. In `VirtioBlk`: a driver that
resets the device, a queue of size 0 (its remainder panics), memory outside the
queue and the areas of the requests. The byte formats of IPC and ADB messages, the
ioctls of the TAP interface, the framebuffer, the diagnostics, logging and the
scripts keep no state that a later step could meet; `PROJECT.json` gives the reason
for each.

## 6. Plan

Done: all modules of section 2, and the proofs of section 4. What is left:

1. A driver that resets the block device, once the code says what should happen.
2. `Daemon` and `Instances` composed: an emulator that outlives its daemon, port
   5554, and the next daemon.
3. `Profiles` with two GUIs: what can still be said of the names they create.
