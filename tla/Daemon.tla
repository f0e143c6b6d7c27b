------------------------------- MODULE Daemon -------------------------------
(***************************************************************************)
(* The litedroid-daemon process (apps/daemon/src/main.rs): the accept loop *)
(* of main, one handler thread per connection, the mutex around            *)
(* DaemonState, and the Android Emulator child processes the handlers      *)
(* start, poll and kill.                                                   *)
(*                                                                         *)
(* A handler holds the mutex from the first line of dispatch to its last.  *)
(* It is cut into several steps wherever somebody who does not need the    *)
(* mutex can act in between: the emulator process (which boots and dies by *)
(* itself), the main thread (which may return and take every handler down  *)
(* with it), clients and signals.                                          *)
(*                                                                         *)
(* A client that stops waiting after its 30 s timeout is not visible to    *)
(* the daemon: its request still runs to the end and the response is       *)
(* written to nobody.  A connection therefore has no "client gone" state;  *)
(* the retry of such a client is just another connection.                  *)
(*                                                                         *)
(* An operator X_fault is X with a slip that a change of the code could    *)
(* introduce.  No specification uses it; it records what the properties at *)
(* the end of the module are there to notice.                              *)
(***************************************************************************)
EXTENDS Naturals

CONSTANTS
  Conns,    \* connections that may be open at the same time
  Devices,  \* names of device profiles
  Default,  \* the profile named "default"
  Procs,    \* slots of the operating system's table of emulator processes
  None      \* Option::None

ASSUME DevicesAssumption == Default \in Devices /\ None \notin Devices

ASSUME ConnsAssumption == None \notin Conns

ASSUME ProcsAssumption == None \notin Procs

VARIABLES
  main,     \* where the main thread is
  running,  \* the static RUNNING
  stage,    \* per connection: how far its request has come
  req,      \* per connection: the request it carries
  lock,     \* the connection whose handler holds the DaemonState mutex
  target,   \* device_name of the launch_device call under way
  active,   \* DaemonState.active_device
  power,    \* DaemonState.power_state
  emu,      \* DaemonState.emulator: the Child handle
  adb,      \* DaemonState.adb is Some
  proc,     \* per process slot: what the operating system knows of it
  dev       \* per process slot: the device its emulator was started for

state == <<active, power, emu, adb>>
vars == <<main, running, stage, req, lock, target, state, proc, dev>>

(***************************************************************************)
(* "adb" stands for the seven methods that end in an ADB command,          *)
(* "other" for the ones that neither read nor write DaemonState.           *)
(***************************************************************************)
Methods == {"shutdown", "start", "stop", "restart", "wipe", "status", "adb",
            "other"}
Requests == [m : Methods, d : Devices]

\* What a connection without a received request carries.
NoRequest == [m |-> "other", d |-> Default]

\* Stages in which a handler is inside dispatch and holds the mutex.
Inside == {"run", "launch", "probe", "adb"}
Stages == {"closed", "backlog", "recv", "lock", "reply"} \union Inside

Powers == {"off", "booting", "running", "error", "stopping"}

\* "ok" and "err" are processes that have exited and are not yet waited for.
ProcStates == {"free", "booting", "up", "ok", "err"}
Live == {"booting", "up"}

Init ==
  /\ main = "setup" /\ running = FALSE
  /\ stage = [c \in Conns |-> "closed"]
  /\ req = [c \in Conns |-> NoRequest]
  /\ lock = None /\ target = Default
  /\ active = None /\ power = "off" /\ emu = None /\ adb = FALSE
  /\ proc = [p \in Procs |-> "free"]
  /\ dev = [p \in Procs |-> Default]

-----------------------------------------------------------------------------
(***************************************************************************)
(* The main thread, the signal handlers and the clients.                   *)
(***************************************************************************)

\* The signal handlers are already installed when RUNNING is set, so a signal
\* that arrives in "setup" is overwritten here.
SetRunning ==
  /\ main = "setup"
  /\ main' = "bind" /\ running' = TRUE
  /\ UNCHANGED <<stage, req, lock, target, state, proc, dev>>

\* A socket that cannot be bound ends the daemon.
Bind ==
  /\ main = "bind"
  /\ main' \in {"loop", "exited"}
  /\ UNCHANGED <<running, stage, req, lock, target, state, proc, dev>>

\* The loop forgets to look at RUNNING.
LoopTest_fault ==
  /\ main = "loop"
  /\ main' = "accept"
  /\ UNCHANGED <<running, stage, req, lock, target, state, proc, dev>>

\* while RUNNING.load(..); when the loop ends main returns, which ends every
\* handler thread wherever it is and leaves the child processes alone.
LoopTest ==
  /\ main = "loop"
  /\ main' = IF running THEN "accept" ELSE "exited"
  /\ UNCHANGED <<running, stage, req, lock, target, state, proc, dev>>

\* accept blocks until a connection is there (a signal does not interrupt it:
\* the standard library retries on EINTR) and its handler thread is spawned.
Accept(c) ==
  /\ main = "accept" /\ stage[c] = "backlog"
  /\ main' = "sleep"
  /\ stage' = [stage EXCEPT ![c] = "recv"]
  /\ UNCHANGED <<running, req, lock, target, state, proc, dev>>

\* An error of accept or of setting the timeouts is logged; when the timeouts
\* fail the connection is already taken and is dropped.
AcceptError ==
  /\ main = "accept"
  /\ main' = "sleep"
  /\ \/ UNCHANGED stage
     \/ \E c \in Conns : /\ stage[c] = "backlog"
                         /\ stage' = [stage EXCEPT ![c] = "closed"]
  /\ UNCHANGED <<running, req, lock, target, state, proc, dev>>

Sleep ==
  /\ main = "sleep"
  /\ main' = "loop"
  /\ UNCHANGED <<running, stage, req, lock, target, state, proc, dev>>

\* sigterm_handler and sigint_handler.
Signal ==
  /\ main # "exited" /\ running
  /\ running' = FALSE
  /\ UNCHANGED <<main, stage, req, lock, target, state, proc, dev>>

\* A client connects to the listening socket.
Connect(c) ==
  /\ main \in {"loop", "accept", "sleep"} /\ stage[c] = "closed"
  /\ stage' = [stage EXCEPT ![c] = "backlog"]
  /\ UNCHANGED <<main, running, req, lock, target, state, proc, dev>>

-----------------------------------------------------------------------------
(***************************************************************************)
(* handle_request: receive, dispatch, send the response.                   *)
(***************************************************************************)
Handling(c, s) == main # "exited" /\ stage[c] = s

\* The steps of a handler that leave everything but its stage alone.
Goto(c, s) == stage' = [stage EXCEPT ![c] = s]

\* The mutex is not released.
Return_fault(c) == Goto(c, "reply") /\ UNCHANGED lock

\* dispatch returns: the guard is dropped and the response is written.
Return(c) == Goto(c, "reply") /\ lock' = None

\* A whole request has arrived; only device.start reads a device from it.
Recv(c) ==
  /\ Handling(c, "recv")
  /\ Goto(c, "lock")
  /\ \E r \in Requests :
       /\ r.m # "start" => r.d = Default
       /\ req' = [req EXCEPT ![c] = r]
  /\ UNCHANGED <<main, running, lock, target, state, proc, dev>>

\* A request that is malformed, or not complete within the timeout, is logged
\* and gets no response.
RecvError(c) ==
  /\ Handling(c, "recv")
  /\ Goto(c, "closed")
  /\ UNCHANGED <<main, running, req, lock, target, state, proc, dev>>

\* The mutex does not exclude anybody.
Lock_fault(c) ==
  /\ Handling(c, "lock")
  /\ Goto(c, "run") /\ lock' = c
  /\ UNCHANGED <<main, running, req, target, state, proc, dev>>

Lock(c) ==
  /\ Handling(c, "lock") /\ lock = None
  /\ Goto(c, "run") /\ lock' = c
  /\ UNCHANGED <<main, running, req, target, state, proc, dev>>

\* send_response; its error is ignored and the stream is closed.
Respond(c) ==
  /\ Handling(c, "reply")
  /\ Goto(c, "closed")
  /\ req' = [req EXCEPT ![c] = NoRequest]
  /\ UNCHANGED <<main, running, lock, target, state, proc, dev>>

-----------------------------------------------------------------------------
(***************************************************************************)
(* The methods of dispatch.                                                *)
(***************************************************************************)
Method(c, ms) == Handling(c, "run") /\ req[c].m \in ms

\* emulator.take(), kill(), wait(): the process is gone and reaped.
Kill ==
  /\ emu' = None
  /\ proc' = IF emu = None THEN proc ELSE [proc EXCEPT ![emu] = "free"]

Shutdown(c) ==
  /\ Method(c, {"shutdown"})
  /\ Kill
  /\ active' = None /\ power' = "stopping" /\ running' = FALSE
  /\ Return(c)
  /\ UNCHANGED <<main, req, target, adb, dev>>

\* The power state is left as it was.
StopEmulator_fault ==
  /\ Kill
  /\ adb' = FALSE /\ active' = None /\ UNCHANGED power

\* stop_emulator, and the same statements in device.stop.
StopEmulator ==
  /\ Kill
  /\ adb' = FALSE /\ active' = None /\ power' = "off"

Stop(c) ==
  /\ Method(c, {"stop"})
  /\ StopEmulator
  /\ Return(c)
  /\ UNCHANGED <<main, running, req, target, dev>>

\* device.start when try_wait says the emulator is there, or fails.
StartRefused(c) ==
  /\ Method(c, {"start"}) /\ emu # None
  /\ Return(c)
  /\ UNCHANGED <<main, running, req, target, state, proc, dev>>

\* The handle is dropped without asking try_wait; dropping does not kill.
StartLaunch_fault(c) ==
  /\ Method(c, {"start"})
  /\ emu' = None
  /\ target' = req[c].d
  /\ Goto(c, "launch")
  /\ UNCHANGED <<main, running, req, lock, active, power, adb, proc, dev>>

\* The check is left out altogether and the new child overwrites the handle.
StartLaunch_fault2(c) ==
  /\ Method(c, {"start"})
  /\ target' = req[c].d
  /\ Goto(c, "launch")
  /\ UNCHANGED <<main, running, req, lock, state, proc, dev>>

\* A start replaces the emulator that runs.
StartLaunch_fault3(c) ==
  /\ Method(c, {"start"})
  /\ Kill
  /\ target' = req[c].d
  /\ Goto(c, "launch")
  /\ UNCHANGED <<main, running, req, lock, active, power, adb, dev>>

\* device.start otherwise: an emulator that has exited is reaped and its
\* handle dropped, nothing else of DaemonState is touched.
StartLaunch(c) ==
  /\ Method(c, {"start"})
  /\ emu # None => proc[emu] \notin Live
  /\ Kill
  /\ target' = req[c].d
  /\ Goto(c, "launch")
  /\ UNCHANGED <<main, running, req, lock, active, power, adb, dev>>

\* The name is read after stop_emulator has cleared it.
Restart_fault(c) ==
  /\ Method(c, {"restart", "wipe"})
  /\ StopEmulator
  /\ target' = IF active' = None THEN Default ELSE active'
  /\ Goto(c, "launch")
  /\ UNCHANGED <<main, running, req, lock, dev>>

\* device.restart and device.wipe differ only in the emulator's arguments.
Restart(c) ==
  /\ Method(c, {"restart", "wipe"})
  /\ target' = IF active = None THEN Default ELSE active
  /\ StopEmulator
  /\ Goto(c, "launch")
  /\ UNCHANGED <<main, running, req, lock, dev>>

\* command.spawn(): the child takes a free process slot.
Spawn ==
  \E p \in Procs :
    /\ proc[p] = "free"
    /\ proc' = [proc EXCEPT ![p] = "booting"]
    /\ dev' = [dev EXCEPT ![p] = target]
    /\ emu' = p

\* The device of the request is registered instead of the one launched.
LaunchOk_fault(c) ==
  /\ Handling(c, "launch")
  /\ Spawn
  /\ active' = req[c].d /\ power' = "booting" /\ adb' = TRUE
  /\ Return(c)
  /\ UNCHANGED <<main, running, req, target>>

\* The power state waits for the first status poll.
LaunchOk_fault2(c) ==
  /\ Handling(c, "launch")
  /\ Spawn
  /\ active' = target /\ adb' = TRUE
  /\ Return(c)
  /\ UNCHANGED <<main, running, req, target, power>>

\* launch_device succeeds: the child is spawned and registered.
LaunchOk(c) ==
  /\ Handling(c, "launch")
  /\ Spawn
  /\ active' = target /\ power' = "booting" /\ adb' = TRUE
  /\ Return(c)
  /\ UNCHANGED <<main, running, req, target>>

\* launch_device fails: configuration, profile, images, SDK tools, log file or
\* spawn.  Every one of its early returns precedes the first assignment.
LaunchFail(c) ==
  /\ Handling(c, "launch")
  /\ Return(c)
  /\ UNCHANGED <<main, running, req, target, state, proc, dev>>

-----------------------------------------------------------------------------
(***************************************************************************)
(* emulator_state, and what device.status and adb_bytes do with its value. *)
(***************************************************************************)

\* emulator_state has returned p and left DaemonState.adb at a.
AfterState(c, p, a) ==
  IF req[c].m = "adb" /\ p = "running" /\ a
    THEN Goto(c, "adb") /\ UNCHANGED lock
    ELSE Return(c)

\* No child handle: the recorded power state is returned as it is.
StateNoChild(c) ==
  /\ Method(c, {"status", "adb"}) /\ emu = None
  /\ AfterState(c, power, adb)
  /\ UNCHANGED <<main, running, req, target, state, proc, dev>>

\* try_wait says that the child has exited.
StateExited(c) ==
  /\ Method(c, {"status", "adb"}) /\ emu # None
  /\ proc[emu] \notin Live
  /\ power' = IF proc[emu] = "ok" THEN "off" ELSE "error"
  /\ Kill
  /\ adb' = FALSE /\ active' = None
  /\ Return(c)
  /\ UNCHANGED <<main, running, req, target, dev>>

\* try_wait fails.
StateWaitError(c) ==
  /\ Method(c, {"status", "adb"}) /\ emu # None
  /\ power' = "error"
  /\ Return(c)
  /\ UNCHANGED <<main, running, req, target, active, emu, adb, proc, dev>>

\* try_wait says that the child runs: adb get-state is started ...
StateAlive(c) ==
  /\ Method(c, {"status", "adb"}) /\ emu # None /\ proc[emu] \in Live
  /\ Goto(c, "probe")
  /\ UNCHANGED <<main, running, req, lock, target, state, proc, dev>>

\* ... and answers for whatever holds port 5554.  The ADB server may still list
\* an emulator that has exited meanwhile, and may not be reachable at all.
StateProbe(c) ==
  /\ Handling(c, "probe")
  /\ \/ /\ adb /\ \E p \in Procs : proc[p] \in {"up", "ok", "err"}
        /\ power' = "running"
     \/ power' = "booting"
  /\ AfterState(c, power', adb)
  /\ UNCHANGED <<main, running, req, target, active, emu, adb, proc, dev>>

\* The ADB command itself, and what the method does with its output.
AdbCommand(c) ==
  /\ Handling(c, "adb")
  /\ Return(c)
  /\ UNCHANGED <<main, running, req, target, state, proc, dev>>

\* daemon.ping, daemon.status, vm.stats, pause, resume, the snapshot methods
\* and unknown ones; also an ADB method whose parameters are rejected.
NoEffect(c) ==
  /\ Method(c, {"other", "adb"})
  /\ Return(c)
  /\ UNCHANGED <<main, running, req, target, state, proc, dev>>

-----------------------------------------------------------------------------
(***************************************************************************)
(* The Android Emulator processes (external).                              *)
(***************************************************************************)
EmulatorUp(p) ==
  /\ proc[p] = "booting"
  /\ proc' = [proc EXCEPT ![p] = "up"]
  /\ UNCHANGED <<main, running, stage, req, lock, target, state, dev>>

EmulatorExit(p) ==
  /\ proc[p] \in Live
  /\ \E s \in {"ok", "err"} : proc' = [proc EXCEPT ![p] = s]
  /\ UNCHANGED <<main, running, stage, req, lock, target, state, dev>>

\* After main has returned nothing of the daemon is left to act.
Terminated == main = "exited" /\ UNCHANGED vars

-----------------------------------------------------------------------------
MainStep ==
  SetRunning \/ Bind \/ LoopTest \/ AcceptError \/ Sleep
    \/ \E c \in Conns : Accept(c)

Dispatch(c) ==
  \/ Shutdown(c) \/ Stop(c) \/ StartRefused(c) \/ StartLaunch(c)
  \/ Restart(c) \/ LaunchOk(c) \/ LaunchFail(c)
  \/ StateNoChild(c) \/ StateExited(c) \/ StateWaitError(c)
  \/ StateAlive(c) \/ StateProbe(c) \/ AdbCommand(c) \/ NoEffect(c)

Handler(c) == Recv(c) \/ RecvError(c) \/ Lock(c) \/ Dispatch(c) \/ Respond(c)

Environment ==
  \/ Signal
  \/ \E c \in Conns : Connect(c)
  \/ \E p \in Procs : EmulatorUp(p) \/ EmulatorExit(p)

Next ==
  MainStep \/ (\E c \in Conns : Handler(c)) \/ Environment \/ Terminated

Spec == Init /\ [][Next]_vars

(***************************************************************************)
(* Threads are scheduled, the emulator's tools return (nothing in the code *)
(* bounds them), parking_lot's mutex is eventually fair, and the kernel's  *)
(* queue of connections is first in, first out.  Nothing is assumed of     *)
(* clients, signals or emulators.                                          *)
(***************************************************************************)
Fairness ==
  /\ WF_vars(SetRunning \/ Bind \/ LoopTest \/ Sleep)
  /\ \A c \in Conns :
       /\ SF_vars(Accept(c))
       /\ SF_vars(Lock(c))
       /\ WF_vars(Recv(c) \/ RecvError(c) \/ Dispatch(c) \/ Respond(c))

FairSpec == Spec /\ Fairness
-----------------------------------------------------------------------------
(***************************************************************************)
(* Properties.                                                             *)
(***************************************************************************)

\* Every variable has its type.
TypeOK ==
  /\ main \in {"setup", "bind", "loop", "accept", "sleep", "exited"}
  /\ running \in BOOLEAN
  /\ stage \in [Conns -> Stages]
  /\ req \in [Conns -> Requests]
  /\ lock \in Conns \union {None}
  /\ target \in Devices
  /\ active \in Devices \union {None}
  /\ power \in Powers
  /\ emu \in Procs \union {None}
  /\ adb \in BOOLEAN
  /\ proc \in [Procs -> ProcStates]
  /\ dev \in [Procs -> Devices]

\* The daemon never has a second emulator, running or left behind as a zombie,
\* next to the one DaemonState.emulator holds: all of them would be started
\* with "-port 5554", and every ADB command is addressed to that port.
\* device.start's check, the kills of stop, restart, wipe and shutdown and the
\* mutex have to work together for this, whatever requests overlap.
SingleEmulator == \A p \in Procs : proc[p] # "free" => emu = p

\* The emptiness of DaemonState.emulator, established at the start of
\* device.start, restart and wipe, still holds when launch_device spawns the
\* child, however long the image download in between takes; and the child that
\* emulator_state found alive is still the registered one when adb answers.
CheckStillHolds ==
  \A c \in Conns :
    /\ stage[c] = "launch" => emu = None
    /\ stage[c] = "probe" => emu # None

\* While a child is registered, DaemonState names the device that child was
\* started for and the adb binary that reaches it, so restart and wipe, which
\* take their device from active_device, act on the emulator they have killed.
RegisteredChildIsActive ==
  emu # None => proc[emu] # "free" /\ active = dev[emu] /\ adb

\* "off" and "stopping" are never reported while an emulator process exists.
OffMeansNoEmulator ==
  power \in {"off", "stopping"} => \A p \in Procs : proc[p] = "free"

\* A status of "booting" or "running" always names a device and has an adb
\* binary behind it, also when the emulator it speaks of is long dead: the
\* ok_or_else of adb_bytes can never be reached with state "running".
StatusNamesDevice ==
  power \in {"booting", "running"} => active # None /\ adb

\* A restart or wipe of a registered emulator launches the device of that very
\* emulator, never the "default" it falls back to when none is active.
RestartKeepsDevice ==
  [][\A c \in Conns :
       (req[c].m \in {"restart", "wipe"} /\ stage[c] = "run"
          /\ stage'[c] = "launch" /\ emu # None)
         => target' = dev[emu]]_vars

\* A live emulator goes away at the daemon's hand only in a handler that was
\* asked for it and holds the mutex; starts and status polls never kill one.
OnlyAskedKill ==
  [][\A p \in Procs :
       (proc[p] \in Live /\ proc'[p] = "free")
         => /\ lock # None
            /\ req[lock].m \in {"shutdown", "stop", "restart", "wipe"}]_vars

\* What SerialDaemon knows of the daemon: the request in service, and the
\* emulator processes that exist, registered or not.
Serving ==
  IF lock = None THEN "idle"
  ELSE IF stage[lock] = "launch" THEN "launching" ELSE req[lock].m

Emulators ==
  {[device |-> dev[p], phase |-> proc[p]] : p \in {q \in Procs : proc[q] # "free"}}

Serial ==
  INSTANCE SerialDaemon WITH serving <- Serving, emulators <- Emulators

\* The handler threads of any number of connections look like one server that
\* executes the requests one after the other, on at most one emulator: no
\* request is served between two steps of another one, and none has an effect
\* that is not its own, however emulators die and launches fail meanwhile.
RequestsInTurn == Serial!Spec

\* Every connection the accept loop has taken is answered or dropped, or the
\* daemon ends: no handler starves at the mutex and none keeps it.
HandlersFinish ==
  \A c \in Conns :
    stage[c] \notin {"closed", "backlog"}
      ~> (stage[c] = "closed" \/ main = "exited")

\* Once RUNNING is false, one more client that connects is enough to end the
\* daemon, whoever cleared the flag and wherever the main thread was.
NextClientEndsDaemon ==
  (~running /\ \E c \in Conns : stage[c] = "backlog") ~> main = "exited"

\* What the comment at the end of the accept loop takes for granted: the loop
\* keeps turning "when no connections" come, so that clearing RUNNING (by
\* daemon.shutdown, which answers "shutting_down", or by a signal once the loop
\* runs) ends the daemon.
ShutdownEnds == (~running /\ main = "accept") ~> main = "exited"
=============================================================================
