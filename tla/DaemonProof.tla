---------------------------- MODULE DaemonProof -----------------------------
(***************************************************************************)
(* Proofs about the daemon, for any number of connections, devices and     *)
(* process slots.                                                          *)
(***************************************************************************)
EXTENDS Daemon, TLAPS

\* The mutex is held by exactly the handler that is inside dispatch.
HolderInside == \A c \in Conns : stage[c] \in Inside <=> lock = c

(***************************************************************************)
(* The inductive invariant.  SingleEmulator alone is not inductive: that   *)
(* LaunchOk finds no other process rests on CheckStillHolds, which rests   *)
(* on the mutex; and StatusNamesDevice after adb has answered rests on the *)
(* child found by emulator_state being still registered.                   *)
(***************************************************************************)
IInv ==
  /\ TypeOK
  /\ HolderInside
  /\ SingleEmulator
  /\ CheckStillHolds
  /\ RegisteredChildIsActive
  /\ OffMeansNoEmulator
  /\ StatusNamesDevice

USE DevicesAssumption, ConnsAssumption, ProcsAssumption

\* Killing the child frees the only process there is.
LEMMA KillFreesAll ==
  ASSUME TypeOK, SingleEmulator, Kill
  PROVE  /\ emu' = None
         /\ proc' \in [Procs -> ProcStates]
         /\ \A p \in Procs : proc'[p] = "free"
BY DEF TypeOK, SingleEmulator, Kill, ProcStates

LEMMA InitIInv == Init => IInv
<1> SUFFICES ASSUME Init PROVE IInv
  OBVIOUS
<1>1. TypeOK
  BY DEF Init, TypeOK, Stages, Requests, Methods, NoRequest, Powers,
         ProcStates
<1>2. HolderInside
  BY DEF Init, HolderInside, Inside
<1>3. SingleEmulator /\ OffMeansNoEmulator
  BY DEF Init, SingleEmulator, OffMeansNoEmulator
<1>4. CheckStillHolds /\ RegisteredChildIsActive /\ StatusNamesDevice
  BY DEF Init, CheckStillHolds, RegisteredChildIsActive, StatusNamesDevice
<1> QED BY <1>1, <1>2, <1>3, <1>4 DEF IInv

(***************************************************************************)
(* The part of the invariant that speaks of DaemonState and the processes  *)
(* is preserved by a step that leaves both alone and moves no handler into *)
(* "launch" or "probe".                                                    *)
(***************************************************************************)
LEMMA QuietStep ==
  ASSUME IInv, UNCHANGED <<state, proc, dev>>,
         \A c \in Conns :
           stage'[c] \in {"launch", "probe"} => stage'[c] = stage[c]
  PROVE  /\ SingleEmulator' /\ CheckStillHolds' /\ RegisteredChildIsActive'
         /\ OffMeansNoEmulator' /\ StatusNamesDevice'
<1>1. UNCHANGED <<active, power, emu, adb, proc, dev>>
  BY DEF state
<1>2. CheckStillHolds'
  BY <1>1 DEF IInv, CheckStillHolds
<1> QED
  BY <1>1, <1>2 DEF IInv, SingleEmulator, RegisteredChildIsActive,
                OffMeansNoEmulator, StatusNamesDevice

(***************************************************************************)
(* After a step in which the lock holder kills the child, all that speaks  *)
(* of processes holds of none of them.                                     *)
(***************************************************************************)
LEMMA KillStep ==
  ASSUME IInv, Kill, NEW c \in Conns, NEW s \in Stages \ {"probe"}, lock = c,
         Goto(c, s)
  PROVE  /\ SingleEmulator' /\ CheckStillHolds' /\ RegisteredChildIsActive'
         /\ OffMeansNoEmulator'
<1>1. /\ emu' = None
      /\ \A p \in Procs : proc'[p] = "free"
  BY KillFreesAll DEF IInv
<1>2. SingleEmulator' /\ RegisteredChildIsActive' /\ OffMeansNoEmulator'
  BY <1>1 DEF SingleEmulator, RegisteredChildIsActive, OffMeansNoEmulator
<1>3. \A d \in Conns : stage'[d] # "probe"
  BY DEF IInv, TypeOK, HolderInside, Goto, Inside
<1> QED BY <1>1, <1>2, <1>3 DEF CheckStillHolds

(***************************************************************************)
(* The mutex: a handler that stays inside keeps it, one that returns from  *)
(* dispatch gives it up.                                                   *)
(***************************************************************************)
LEMMA StayInside ==
  ASSUME TypeOK, HolderInside, NEW c \in Conns, stage[c] \in Inside,
         NEW s \in Inside, Goto(c, s), UNCHANGED lock
  PROVE  stage' \in [Conns -> Stages] /\ lock' \in Conns \union {None}
           /\ HolderInside'
BY DEF TypeOK, HolderInside, Goto, Inside, Stages

LEMMA LeaveInside ==
  ASSUME TypeOK, HolderInside, NEW c \in Conns, stage[c] \in Inside, Return(c)
  PROVE  stage' \in [Conns -> Stages] /\ lock' \in Conns \union {None}
           /\ HolderInside'
BY DEF TypeOK, HolderInside, Return, Goto, Inside, Stages

\* Outside dispatch a handler moves without touching the mutex.
LEMMA StayOutside ==
  ASSUME TypeOK, HolderInside, NEW c \in Conns, stage[c] \notin Inside,
         NEW s \in Stages \ Inside, Goto(c, s), UNCHANGED lock
  PROVE  stage' \in [Conns -> Stages] /\ lock' \in Conns \union {None}
           /\ HolderInside'
BY DEF TypeOK, HolderInside, Goto, Inside, Stages

-----------------------------------------------------------------------------
\* The main thread, the environment and the ends of a handler: DaemonState and
\* the process table do not change, or only an emulator acts.
LEMMA OuterSteps ==
  ASSUME IInv, MainStep \/ Environment \/ Terminated
  PROVE  IInv'
<1> USE DEF IInv
<1>1. CASE SetRunning \/ Bind \/ LoopTest \/ Sleep \/ Signal
  <2>1. UNCHANGED <<stage, req, lock, target, state, proc, dev>>
    BY <1>1 DEF SetRunning, Bind, LoopTest, Sleep, Signal
  <2>2. TypeOK'
    BY <1>1, <2>1 DEF SetRunning, Bind, LoopTest, Sleep, Signal, TypeOK, state
  <2>3. HolderInside'
    BY <2>1 DEF HolderInside
  <2> QED BY <2>1, <2>2, <2>3, QuietStep
<1>2. ASSUME NEW c \in Conns, Accept(c) \/ Connect(c)
      PROVE  IInv'
  <2>1. stage[c] \notin Inside /\ UNCHANGED lock
    BY <1>2 DEF Accept, Connect, Inside
  <2>2. \E s \in {"recv", "backlog"} : Goto(c, s)
    BY <1>2 DEF Accept, Connect, Goto
  <2>3. stage' \in [Conns -> Stages] /\ lock' \in Conns \union {None}
          /\ HolderInside'
    BY <2>1, <2>2, StayOutside DEF Stages, Inside
  <2>4. TypeOK'
    BY <1>2, <2>3 DEF Accept, Connect, TypeOK, state
  <2>5. \A d \in Conns :
          stage'[d] \in {"launch", "probe"} => stage'[d] = stage[d]
    BY <2>2 DEF Goto, TypeOK
  <2> QED BY <1>2, <2>3, <2>4, <2>5, QuietStep DEF Accept, Connect
<1>3. CASE AcceptError
  <2>1. UNCHANGED <<running, req, lock, target, state, proc, dev>>
          /\ main' = "sleep"
    BY <1>3 DEF AcceptError
  <2>2. CASE UNCHANGED stage
    <3>1. TypeOK' /\ HolderInside'
      BY <2>1, <2>2 DEF TypeOK, HolderInside, state
    <3> QED BY <2>1, <2>2, <3>1, QuietStep
  <2>3. ASSUME NEW c \in Conns, stage[c] = "backlog",
               stage' = [stage EXCEPT ![c] = "closed"]
        PROVE  IInv'
    <3>1. stage' \in [Conns -> Stages] /\ lock' \in Conns \union {None}
            /\ HolderInside'
      BY <2>1, <2>3, StayOutside DEF Stages, Inside, Goto
    <3>2. TypeOK'
      BY <2>1, <3>1 DEF TypeOK, state
    <3>3. \A d \in Conns :
            stage'[d] \in {"launch", "probe"} => stage'[d] = stage[d]
      BY <2>3 DEF TypeOK
    <3> QED BY <2>1, <3>1, <3>2, <3>3, QuietStep
  <2> QED BY <1>3, <2>2, <2>3 DEF AcceptError
<1>4. ASSUME NEW p \in Procs, EmulatorUp(p) \/ EmulatorExit(p)
      PROVE  IInv'
  <2>1. /\ UNCHANGED <<main, running, stage, req, lock, target, active, power,
                       emu, adb, dev>>
        /\ proc[p] \in Live
        /\ \E s \in {"up", "ok", "err"} : proc' = [proc EXCEPT ![p] = s]
    BY <1>4 DEF EmulatorUp, EmulatorExit, state, Live
  <2>2. TypeOK'
    BY <2>1 DEF TypeOK, ProcStates
  <2>3. HolderInside' /\ CheckStillHolds' /\ StatusNamesDevice'
    BY <2>1 DEF HolderInside, CheckStillHolds, StatusNamesDevice
  <2>4. SingleEmulator' /\ RegisteredChildIsActive'
    BY <2>1 DEF SingleEmulator, RegisteredChildIsActive, TypeOK, Live
  <2>5. OffMeansNoEmulator'
    BY <2>1 DEF OffMeansNoEmulator, TypeOK, Live
  <2> QED BY <2>2, <2>3, <2>4, <2>5
<1>5. CASE Terminated
  <2>1. TypeOK' /\ HolderInside'
    BY <1>5 DEF Terminated, vars, state, TypeOK, HolderInside
  <2> QED BY <1>5, <2>1, QuietStep DEF Terminated, vars
<1> QED BY <1>1, <1>2, <1>3, <1>4, <1>5 DEF MainStep, Environment

\* Receiving the request, taking the mutex and answering.
LEMMA HandlerEnds ==
  ASSUME IInv, NEW c \in Conns,
         Recv(c) \/ RecvError(c) \/ Lock(c) \/ Respond(c)
  PROVE  IInv'
<1> USE DEF IInv
<1>1. \E s \in {"lock", "closed", "run"} : Goto(c, s)
  BY DEF Recv, RecvError, Lock, Respond
<1>2. \A d \in Conns :
        stage'[d] \in {"launch", "probe"} => stage'[d] = stage[d]
  BY <1>1 DEF Goto, TypeOK
<1>3. UNCHANGED <<main, running, target, state, proc, dev>>
        /\ req' \in [Conns -> Requests]
  BY DEF Recv, RecvError, Lock, Respond, TypeOK, Requests, NoRequest, Methods
<1>4. stage' \in [Conns -> Stages] /\ lock' \in Conns \union {None}
        /\ HolderInside'
  <2>1. CASE Lock(c)
    BY <2>1 DEF Lock, Handling, Goto, TypeOK, HolderInside, Inside, Stages
  <2>2. CASE Recv(c) \/ RecvError(c) \/ Respond(c)
    <3>1. stage[c] \notin Inside /\ UNCHANGED lock
      BY <2>2 DEF Recv, RecvError, Respond, Handling, Inside
    <3>2. \E s \in {"lock", "closed"} : Goto(c, s)
      BY <2>2 DEF Recv, RecvError, Respond
    <3> QED BY <3>1, <3>2, StayOutside DEF Stages, Inside
  <2> QED BY <2>1, <2>2
<1>5. TypeOK'
  BY <1>3, <1>4 DEF TypeOK, state
<1> QED BY <1>2, <1>3, <1>4, <1>5, QuietStep

-----------------------------------------------------------------------------
\* The steps of dispatch that only decide and return.
LEMMA DispatchQuiet ==
  ASSUME IInv, NEW c \in Conns,
         StartRefused(c) \/ LaunchFail(c) \/ StateNoChild(c) \/ AdbCommand(c)
           \/ NoEffect(c)
  PROVE  IInv'
<1> USE DEF IInv
<1>1. stage[c] \in Inside
        /\ UNCHANGED <<main, running, req, target, state, proc, dev>>
  BY DEF StartRefused, LaunchFail, StateNoChild, AdbCommand, NoEffect, Method,
         Handling, Inside
<1>2. Return(c) \/ (Goto(c, "adb") /\ UNCHANGED lock)
  BY DEF StartRefused, LaunchFail, StateNoChild, AdbCommand, NoEffect,
         AfterState
<1>3. stage' \in [Conns -> Stages] /\ lock' \in Conns \union {None}
        /\ HolderInside'
  BY <1>1, <1>2, StayInside, LeaveInside DEF Inside
<1>4. \A d \in Conns :
        stage'[d] \in {"launch", "probe"} => stage'[d] = stage[d]
  BY <1>2 DEF Return, Goto, TypeOK
<1>5. TypeOK'
  BY <1>1, <1>3 DEF TypeOK, state
<1> QED BY <1>1, <1>3, <1>4, <1>5, QuietStep

\* The steps of dispatch that take the child out of DaemonState.
LEMMA DispatchKill ==
  ASSUME IInv, NEW c \in Conns,
         Shutdown(c) \/ Stop(c) \/ StartLaunch(c) \/ Restart(c)
           \/ StateExited(c)
  PROVE  IInv'
<1> USE DEF IInv
<1>1. stage[c] = "run" /\ lock = c /\ Kill
  BY DEF Shutdown, Stop, StartLaunch, Restart, StateExited, StopEmulator,
         Method, Handling, HolderInside, Inside
<1>2. Return(c) \/ (Goto(c, "launch") /\ UNCHANGED lock)
  BY DEF Shutdown, Stop, StartLaunch, Restart, StateExited
<1>3. stage' \in [Conns -> Stages] /\ lock' \in Conns \union {None}
        /\ HolderInside'
  BY <1>1, <1>2, StayInside, LeaveInside DEF Inside
<1>4. /\ SingleEmulator' /\ CheckStillHolds' /\ RegisteredChildIsActive'
      /\ OffMeansNoEmulator'
  <2>1. \E s \in Stages \ {"probe"} : Goto(c, s)
    BY <1>2 DEF Return, Stages, Inside
  <2> QED BY <1>1, <2>1, KillStep
<1>5. /\ active' \in Devices \union {None} /\ power' \in Powers
      /\ adb' \in BOOLEAN /\ target' \in Devices /\ running' \in BOOLEAN
      /\ UNCHANGED <<main, req, dev>>
  <2>1. power' \in Powers /\ UNCHANGED <<main, req, dev>>
    BY DEF Shutdown, Stop, StartLaunch, Restart, StateExited, StopEmulator,
           TypeOK, Powers
  <2>2. active' \in Devices \union {None} /\ target' \in Devices
    BY DEF Shutdown, Stop, StartLaunch, Restart, StateExited, StopEmulator,
           TypeOK, Requests
  <2>3. adb' \in {adb, FALSE} /\ running' \in {running, FALSE}
    BY Zenon DEF Shutdown, Stop, StartLaunch, Restart, StateExited,
                 StopEmulator
  <2> QED BY <2>1, <2>2, <2>3 DEF TypeOK
<1>6. TypeOK'
  <2>1. emu' = None /\ proc' \in [Procs -> ProcStates]
    BY <1>1, KillFreesAll
  <2> QED BY <1>3, <1>5, <2>1 DEF TypeOK
<1>7. StatusNamesDevice'
  BY DEF Shutdown, Stop, StartLaunch, Restart, StateExited, StopEmulator,
         StatusNamesDevice
<1> QED BY <1>3, <1>4, <1>6, <1>7

\* A child is spawned: the only process, and the one that is registered.
LEMMA DispatchLaunch ==
  ASSUME IInv, NEW c \in Conns, LaunchOk(c)
  PROVE  IInv'
<1> USE DEF IInv
<1>1. PICK p \in Procs :
        /\ proc[p] = "free"
        /\ proc' = [proc EXCEPT ![p] = "booting"]
        /\ dev' = [dev EXCEPT ![p] = target]
        /\ emu' = p
  BY DEF LaunchOk, Spawn
<1>2. /\ stage[c] = "launch" /\ lock = c /\ Return(c)
      /\ active' = target /\ power' = "booting" /\ adb' = TRUE
      /\ UNCHANGED <<main, running, req, target>>
  BY DEF LaunchOk, Handling, HolderInside, Inside
<1>3. emu = None
  BY <1>2 DEF CheckStillHolds
<1>4. \A q \in Procs : q # p => proc'[q] = "free"
  BY <1>1, <1>3 DEF SingleEmulator, TypeOK
<1>5. stage' \in [Conns -> Stages] /\ lock' \in Conns \union {None}
        /\ HolderInside'
  BY <1>2, LeaveInside DEF Inside
<1>6. TypeOK'
  BY <1>1, <1>2, <1>5 DEF TypeOK, ProcStates, Powers
<1>7. CheckStillHolds'
  BY <1>2 DEF CheckStillHolds, HolderInside, Return, Goto, TypeOK, Inside
<1>8. SingleEmulator' /\ RegisteredChildIsActive'
  BY <1>1, <1>2, <1>4 DEF SingleEmulator, RegisteredChildIsActive, TypeOK
<1>9. OffMeansNoEmulator' /\ StatusNamesDevice'
  BY <1>2 DEF OffMeansNoEmulator, StatusNamesDevice, TypeOK
<1> QED BY <1>5, <1>6, <1>7, <1>8, <1>9

\* emulator_state of a child that is there.
LEMMA DispatchState ==
  ASSUME IInv, NEW c \in Conns,
         StateWaitError(c) \/ StateAlive(c) \/ StateProbe(c)
  PROVE  IInv'
<1> USE DEF IInv
<1>1. /\ stage[c] \in {"run", "probe"} /\ lock = c
      /\ UNCHANGED <<main, running, req, target, active, emu, adb, proc, dev>>
  BY DEF StateWaitError, StateAlive, StateProbe, Method, Handling,
         HolderInside, Inside, state
<1>2. emu # None
  BY DEF StateWaitError, StateAlive, StateProbe, Handling, CheckStillHolds
<1>3. \/ Return(c)
      \/ Goto(c, "adb") /\ UNCHANGED lock
      \/ Goto(c, "probe") /\ UNCHANGED lock
  BY DEF StateWaitError, StateAlive, StateProbe, AfterState
<1>4. stage' \in [Conns -> Stages] /\ lock' \in Conns \union {None}
        /\ HolderInside'
  BY <1>1, <1>3, StayInside, LeaveInside DEF Inside
<1>5. power' \in {"error", "running", "booting"} \/ UNCHANGED power
  BY DEF StateWaitError, StateAlive, StateProbe, state
<1>6. TypeOK'
  BY <1>1, <1>4, <1>5 DEF TypeOK, Powers
<1>7. CheckStillHolds'
  BY <1>1, <1>2, <1>3 DEF CheckStillHolds, Return, Goto, TypeOK
<1>8. SingleEmulator' /\ RegisteredChildIsActive'
  BY <1>1 DEF SingleEmulator, RegisteredChildIsActive
<1>9. OffMeansNoEmulator'
  BY <1>1, <1>5 DEF OffMeansNoEmulator
<1>10. StatusNamesDevice'
  BY <1>1, <1>2 DEF StatusNamesDevice, RegisteredChildIsActive, TypeOK
<1> QED BY <1>4, <1>6, <1>7, <1>8, <1>9, <1>10

-----------------------------------------------------------------------------
\* IInv is an invariant of the daemon.
THEOREM Invariance == Spec => []IInv
<1>1. IInv /\ [Next]_vars => IInv'
  <2> SUFFICES ASSUME IInv, [Next]_vars PROVE IInv'
    OBVIOUS
  <2>1. CASE MainStep \/ Environment \/ Terminated
    BY <2>1, OuterSteps
  <2>2. ASSUME NEW c \in Conns, Handler(c) PROVE IInv'
    BY <2>2, HandlerEnds, DispatchQuiet, DispatchKill, DispatchLaunch,
       DispatchState DEF Handler, Dispatch
  <2>3. CASE UNCHANGED vars
    <3>1. TypeOK' /\ HolderInside'
      BY <2>3 DEF IInv, vars, state, TypeOK, HolderInside
    <3> QED BY <2>3, <3>1, QuietStep DEF IInv, vars
  <2> QED BY <2>1, <2>2, <2>3 DEF Next
<1> QED BY InitIInv, <1>1, PTL DEF Spec

\* Type correctness.
THEOREM TypeCorrect == Spec => []TypeOK
<1>1. IInv => TypeOK
  BY DEF IInv
<1> QED BY Invariance, <1>1, PTL

\* However requests, crashes of the emulator and failed launches interleave,
\* there is at most one emulator process, and it is the registered one.
THEOREM OneEmulator == Spec => []SingleEmulator
<1>1. IInv => SingleEmulator
  BY DEF IInv
<1> QED BY Invariance, <1>1, PTL

\* What a handler checked about the child still holds when it acts on it.
THEOREM ChecksHold == Spec => []CheckStillHolds
<1>1. IInv => CheckStillHolds
  BY DEF IInv
<1> QED BY Invariance, <1>1, PTL

\* DaemonState names the device of the registered child.
THEOREM ActiveIsChild == Spec => []RegisteredChildIsActive
<1>1. IInv => RegisteredChildIsActive
  BY DEF IInv
<1> QED BY Invariance, <1>1, PTL

\* A power state of "off" or "stopping" excludes any emulator process.
THEOREM PowerStateSound == Spec => []OffMeansNoEmulator
<1>1. IInv => OffMeansNoEmulator
  BY DEF IInv
<1> QED BY Invariance, <1>1, PTL

\* A power state of "booting" or "running" comes with the name of a device and
\* an adb binary.
THEOREM StatusSound == Spec => []StatusNamesDevice
<1>1. IInv => StatusNamesDevice
  BY DEF IInv
<1> QED BY Invariance, <1>1, PTL

-----------------------------------------------------------------------------
\* A handler that goes from its first check into launch_device does so by one
\* of the two actions that call it.
LEMMA IntoLaunch ==
  ASSUME TypeOK, Next, NEW c \in Conns, stage[c] = "run",
         stage'[c] = "launch"
  PROVE  StartLaunch(c) \/ Restart(c)
<1>1. CASE MainStep \/ Environment \/ Terminated
  BY <1>1 DEF MainStep, Environment, Terminated, SetRunning, Bind, LoopTest,
              AcceptError, Sleep, Accept, Signal, Connect, EmulatorUp,
              EmulatorExit, vars, TypeOK
<1>2. ASSUME NEW d \in Conns, Handler(d)
      PROVE  StartLaunch(c) \/ Restart(c)
  <2>1. CASE StartLaunch(d) \/ Restart(d)
    BY <2>1 DEF StartLaunch, Restart, Goto, TypeOK
  <2>2. CASE ~(StartLaunch(d) \/ Restart(d))
    <3>1. \E s \in Stages \ {"launch"} : Goto(d, s)
      BY <1>2, <2>2 DEF Handler, Dispatch, Recv, RecvError, Lock, Respond,
            Shutdown, Stop, StartRefused, LaunchOk, LaunchFail, StateNoChild,
            StateExited, StateWaitError, StateAlive, StateProbe, AdbCommand,
            NoEffect, AfterState, Return, Stages, Inside
    <3> QED BY <3>1 DEF Goto, TypeOK
  <2> QED BY <2>1, <2>2
<1> QED BY <1>1, <1>2 DEF Next

\* Restart and wipe launch the device of the emulator they have killed.
THEOREM RestartSameDevice == Spec => RestartKeepsDevice
<1>1. ASSUME IInv, [Next]_vars, NEW c \in Conns,
             req[c].m \in {"restart", "wipe"}, stage[c] = "run",
             stage'[c] = "launch", emu # None
      PROVE  target' = dev[emu]
  <2>1. Next
    BY <1>1 DEF vars
  <2>2. StartLaunch(c) \/ Restart(c)
    BY <1>1, <2>1, IntoLaunch DEF IInv
  <2>3. Restart(c)
    BY <1>1, <2>2 DEF StartLaunch, Method
  <2> QED BY <1>1, <2>3 DEF Restart, IInv, TypeOK, RegisteredChildIsActive
<1>2. IInv /\ [Next]_vars
        => [\A c \in Conns :
              (req[c].m \in {"restart", "wipe"} /\ stage[c] = "run"
                 /\ stage'[c] = "launch" /\ emu # None)
                => target' = dev[emu]]_vars
  BY <1>1
<1> QED BY <1>2, Invariance, PTL DEF RestartKeepsDevice, Spec

\* Only stop, restart, wipe and shutdown take a live emulator away.
THEOREM KillsAreAsked == Spec => OnlyAskedKill
<1>1. ASSUME IInv, [Next]_vars, NEW p \in Procs, proc[p] \in Live,
             proc'[p] = "free"
      PROVE  /\ lock # None
             /\ req[lock].m \in {"shutdown", "stop", "restart", "wipe"}
  <2>1. proc' # proc
    BY <1>1 DEF Live
  <2>2. ASSUME NEW q \in Procs, EmulatorUp(q) \/ EmulatorExit(q)
        PROVE  FALSE
    BY <1>1, <2>2 DEF EmulatorUp, EmulatorExit, IInv, TypeOK, Live
  <2>3. PICK c \in Conns : Dispatch(c)
    BY <1>1, <2>1, <2>2 DEF Next, MainStep, Environment, Terminated, vars,
          SetRunning, Bind, LoopTest, AcceptError, Sleep, Accept, Signal,
          Connect, Handler, Recv, RecvError, Lock, Respond
  <2>4. emu = p
    BY <1>1 DEF IInv, SingleEmulator, Live
  <2>5. ~LaunchOk(c)
    BY <1>1 DEF LaunchOk, Spawn, IInv, TypeOK, Live
  <2>6. Shutdown(c) \/ Stop(c) \/ Restart(c)
    BY <1>1, <2>1, <2>3, <2>4, <2>5
       DEF Dispatch, StartRefused, StartLaunch, LaunchFail, StateNoChild,
           StateExited, StateWaitError, StateAlive, StateProbe, AdbCommand,
           NoEffect, IInv, TypeOK
  <2>7. stage[c] = "run"
          /\ req[c].m \in {"shutdown", "stop", "restart", "wipe"}
    BY <2>6 DEF Shutdown, Stop, Restart, Method, Handling
  <2> QED BY <1>1, <2>7 DEF IInv, HolderInside, Inside
<1>2. IInv /\ [Next]_vars
        => [\A p \in Procs :
              (proc[p] \in Live /\ proc'[p] = "free")
                => /\ lock # None
                   /\ req[lock].m \in {"shutdown", "stop", "restart",
                                       "wipe"}]_vars
  BY <1>1
<1> QED BY <1>2, Invariance, PTL DEF OnlyAskedKill, Spec

-----------------------------------------------------------------------------
(***************************************************************************)
(* The daemon implements SerialDaemon.  Every step of Daemon is a step of  *)
(* SerialDaemon or leaves what it knows alone; the invariant is needed     *)
(* where a handler acts on what it holds the mutex for, and wherever the   *)
(* set of emulators is more than the registered child.                     *)
(***************************************************************************)

\* One thing IInv does not say: the request of a handler that waits for adb is
\* the one with which it began.
ProbesPoll ==
  \A c \in Conns : stage[c] = "probe" => req[c].m \in {"status", "adb"}

THEOREM ProbesArePolls == Spec => []ProbesPoll
<1>1. Init => ProbesPoll
  BY DEF Init, ProbesPoll
<1>2. IInv /\ ProbesPoll /\ [Next]_vars => ProbesPoll'
  <2> SUFFICES ASSUME IInv, ProbesPoll, [Next]_vars, NEW c \in Conns,
                      stage'[c] = "probe"
               PROVE  req'[c].m \in {"status", "adb"}
    BY DEF ProbesPoll
  <2>1. CASE MainStep \/ Environment \/ Terminated \/ UNCHANGED vars
    BY <2>1 DEF MainStep, Environment, Terminated, SetRunning, Bind, LoopTest,
                AcceptError, Sleep, Accept, Signal, Connect, EmulatorUp,
                EmulatorExit, vars, IInv, TypeOK, ProbesPoll
  <2>2. ASSUME NEW d \in Conns, Recv(d) \/ RecvError(d) \/ Lock(d) \/ Respond(d)
        PROVE  req'[c].m \in {"status", "adb"}
    <3>1. \E s \in Stages \ {"probe"} : Goto(d, s)
      BY <2>2 DEF Recv, RecvError, Lock, Respond, Stages, Inside
    <3>2. c # d /\ stage[c] = "probe"
      BY <3>1 DEF Goto, IInv, TypeOK
    <3>3. req'[c] = req[c]
      BY <2>2, <3>2 DEF Recv, RecvError, Lock, Respond, IInv, TypeOK
    <3> QED BY <3>2, <3>3 DEF ProbesPoll
  <2>3. ASSUME NEW d \in Conns, Dispatch(d), ~StateAlive(d)
        PROVE  req'[c].m \in {"status", "adb"}
    <3>1. \E s \in Stages \ {"probe"} : Goto(d, s)
      BY <2>3 DEF Dispatch, Shutdown, Stop, StartRefused, StartLaunch, Restart,
            LaunchOk, LaunchFail, StateNoChild, StateExited, StateWaitError,
            StateProbe, AdbCommand, NoEffect, AfterState, Return, Stages, Inside
    <3>2. UNCHANGED req
      BY <2>3 DEF Dispatch, Shutdown, Stop, StartRefused, StartLaunch, Restart,
            LaunchOk, LaunchFail, StateNoChild, StateExited, StateWaitError,
            StateProbe, AdbCommand, NoEffect
    <3> QED BY <3>1, <3>2 DEF Goto, IInv, TypeOK, ProbesPoll
  <2>4. ASSUME NEW d \in Conns, StateAlive(d)
        PROVE  req'[c].m \in {"status", "adb"}
    BY <2>4 DEF StateAlive, Method, Goto, IInv, TypeOK, ProbesPoll
  <2> QED BY <2>1, <2>2, <2>3, <2>4 DEF Next, Handler
<1> QED BY <1>1, <1>2, Invariance, PTL DEF Spec

\* What SerialDaemon sees of a process table.
Seen(pr, dv) == {[device |-> dv[p], phase |-> pr[p]] : p \in {q \in Procs : pr[q] # "free"}}

LEMMA SeenNone ==
  ASSUME NEW pr, NEW dv, \A p \in Procs : pr[p] = "free"
  PROVE  Seen(pr, dv) = {}
BY DEF Seen

LEMMA SeenOne ==
  ASSUME NEW pr, NEW dv, NEW p \in Procs, pr[p] # "free",
         \A q \in Procs : pr[q] # "free" => q = p
  PROVE  Seen(pr, dv) = {[device |-> dv[p], phase |-> pr[p]]}
BY DEF Seen

\* The registered child is all the emulators there are.
ChildIsAll ==
  Emulators = IF emu = None THEN {} ELSE {Serial!Emulator(dev[emu], proc[emu])}

LEMMA EmulatorsAre == IInv => ChildIsAll
<1> SUFFICES ASSUME IInv PROVE ChildIsAll
  OBVIOUS
<1>1. Emulators = Seen(proc, dev)
  BY DEF Emulators, Seen
<1>2. CASE emu = None
  <2>1. \A p \in Procs : proc[p] = "free"
    BY <1>2 DEF IInv, SingleEmulator
  <2> QED BY <1>1, <1>2, <2>1, SeenNone DEF ChildIsAll
<1>3. CASE emu # None
  <2>1. emu \in Procs /\ proc[emu] # "free"
    BY <1>3 DEF IInv, TypeOK, RegisteredChildIsActive
  <2>2. \A q \in Procs : proc[q] # "free" => q = emu
    BY DEF IInv, SingleEmulator
  <2>3. Seen(proc, dev) = {[device |-> dev[emu], phase |-> proc[emu]]}
    BY <2>1, <2>2, SeenOne
  <2> QED BY <1>1, <1>3, <2>3 DEF ChildIsAll, Serial!Emulator
<1> QED BY <1>2, <1>3

\* The request of the handler inside dispatch is the one in service.
LEMMA ServingIs ==
  ASSUME HolderInside, NEW c \in Conns, stage[c] \in Inside
  PROVE  /\ lock = c /\ lock # None
         /\ Serving = IF stage[c] = "launch" THEN "launching" ELSE req[c].m
BY DEF HolderInside, Serving

\* It stays in service until the mutex is given up.
LEMMA ServingEnds ==
  ASSUME NEW c \in Conns, Return(c)
  PROVE  Serving' = "idle"
BY DEF Return, Serving

LEMMA ServingLaunches ==
  ASSUME TypeOK, NEW c \in Conns, lock = c, Goto(c, "launch"), UNCHANGED lock
  PROVE  Serving' = "launching"
BY DEF Goto, Serving, TypeOK

LEMMA ServingStays ==
  ASSUME TypeOK, NEW c \in Conns, lock = c, NEW s \in Inside \ {"launch"}, Goto(c, s),
         UNCHANGED <<lock, req>>
  PROVE  Serving' = req[c].m
BY DEF Goto, Serving, TypeOK

\* A step that leaves the request in service, DaemonState and the processes.
LEMMA UnseenStep ==
  ASSUME UNCHANGED <<lock, target, state, proc, dev>>,
         lock # None => stage'[lock] = stage[lock] /\ req'[lock] = req[lock]
  PROVE  UNCHANGED Serial!vars
<1>1. Serving' = Serving
  BY DEF Serving
<1>2. Emulators' = Emulators
  BY DEF Emulators
<1> QED BY <1>1, <1>2 DEF Serial!vars, state

\* A connection outside dispatch moves unseen.
LEMMA OutsideUnseen ==
  ASSUME TypeOK, HolderInside, NEW c \in Conns, stage[c] \notin Inside,
         \E s \in Stages : Goto(c, s),
         \A d \in Conns : d # c => req'[d] = req[d],
         UNCHANGED <<lock, target, state, proc, dev>>
  PROVE  UNCHANGED Serial!vars
<1>1. lock # c
  BY DEF HolderInside
<1>2. lock # None => stage'[lock] = stage[lock] /\ req'[lock] = req[lock]
  BY <1>1 DEF TypeOK, Goto
<1> QED BY <1>2, UnseenStep

-----------------------------------------------------------------------------
\* The main thread and the clients are not seen; the emulator is.
LEMMA OuterImplements ==
  ASSUME IInv, ChildIsAll, ChildIsAll', MainStep \/ Environment \/ Terminated
  PROVE  [Serial!Next]_(Serial!vars)
<1> USE DEF IInv
<1>1. CASE SetRunning \/ Bind \/ LoopTest \/ Sleep \/ Signal \/ Terminated
  <2>1. UNCHANGED <<stage, req, lock, target, state, proc, dev>>
    BY <1>1 DEF SetRunning, Bind, LoopTest, Sleep, Signal, Terminated, vars
  <2> QED BY <2>1, UnseenStep
<1>2. ASSUME NEW c \in Conns, Accept(c) \/ Connect(c)
      PROVE  UNCHANGED Serial!vars
  <2>1. /\ stage[c] \notin Inside
        /\ UNCHANGED <<req, lock, target, state, proc, dev>>
    BY <1>2 DEF Accept, Connect, Inside
  <2>2. \E s \in Stages : Goto(c, s)
    BY <1>2 DEF Accept, Connect, Goto, Stages
  <2> QED BY <2>1, <2>2, OutsideUnseen
<1>3. CASE AcceptError
  <2>1. UNCHANGED <<req, lock, target, state, proc, dev>>
    BY <1>3 DEF AcceptError
  <2>2. CASE UNCHANGED stage
    BY <2>1, <2>2, UnseenStep
  <2>3. ASSUME NEW c \in Conns, stage[c] = "backlog",
               stage' = [stage EXCEPT ![c] = "closed"]
        PROVE  UNCHANGED Serial!vars
    <3>1. stage[c] \notin Inside /\ \E s \in Stages : Goto(c, s)
      BY <2>3 DEF Goto, Stages, Inside
    <3> QED BY <2>1, <3>1, OutsideUnseen
  <2> QED BY <1>3, <2>2, <2>3 DEF AcceptError
<1>4. ASSUME NEW p \in Procs, EmulatorUp(p) \/ EmulatorExit(p)
      PROVE  Serial!Live
  <2>1. /\ UNCHANGED <<stage, req, lock, target, active, power, emu, dev>>
        /\ proc[p] \in {"booting", "up"}
    BY <1>4 DEF EmulatorUp, EmulatorExit, Live, state
  <2>2. PICK s \in {"up", "ok", "err"} :
          /\ proc' = [proc EXCEPT ![p] = s]
          /\ s = "up" => proc[p] = "booting"
    BY <1>4 DEF EmulatorUp, EmulatorExit
  <2>3. emu = p /\ emu # None
    BY <2>1 DEF SingleEmulator
  <2>4. Emulators = {Serial!Emulator(dev[p], proc[p])}
    BY <2>3 DEF ChildIsAll
  <2>5. Emulators' = {Serial!Emulator(dev[p], s)}
    BY <2>1, <2>2, <2>3 DEF ChildIsAll, TypeOK
  <2>6. Serving' = Serving
    BY <2>1 DEF Serving
  <2> DEFINE e == Serial!Emulator(dev[p], proc[p])
  <2>7. /\ e \in Emulators /\ Serial!Alive(e) /\ e.device = dev[p]
        /\ s = "up" => e.phase = "booting"
    BY <2>1, <2>2, <2>4 DEF Serial!Emulator, Serial!Alive
  <2> HIDE DEF e
  <2> QED BY <2>1, <2>5, <2>6, <2>7 DEF Serial!Live
<1> QED BY <1>1, <1>2, <1>3, <1>4 DEF MainStep, Environment, Serial!Next

\* A request is taken into service with the mutex, and not before.
LEMMA EndsImplement ==
  ASSUME IInv, NEW c \in Conns, Recv(c) \/ RecvError(c) \/ Lock(c) \/ Respond(c)
  PROVE  [Serial!Next]_(Serial!vars)
<1> USE DEF IInv
<1>1. CASE Lock(c)
  <2>1. lock = None /\ lock' = c /\ stage'[c] = "run"
          /\ UNCHANGED <<req, target, active, power, proc, dev>>
    BY <1>1 DEF Lock, Goto, TypeOK, state
  <2>2. Serving = "idle" /\ Serving' = req[c].m
    BY <2>1 DEF Serving
  <2>3. req[c].m \in Methods
    BY DEF TypeOK, Requests
  <2>4. Emulators' = Emulators
    BY <2>1 DEF Emulators
  <2> QED BY <2>1, <2>2, <2>3, <2>4 DEF Serial!Take, Serial!Next
<1>2. CASE Recv(c) \/ RecvError(c) \/ Respond(c)
  <2>1. stage[c] \notin Inside /\ UNCHANGED <<lock, target, state, proc, dev>>
    BY <1>2 DEF Recv, RecvError, Respond, Handling, Inside
  <2>2. \E s \in Stages : Goto(c, s)
    BY <1>2 DEF Recv, RecvError, Respond, Stages
  <2>3. \A d \in Conns : d # c => req'[d] = req[d]
    BY <1>2 DEF Recv, RecvError, Respond, TypeOK
  <2> QED BY <2>1, <2>2, <2>3, OutsideUnseen
<1> QED BY <1>1, <1>2

\* A handler that returns without an effect.
LEMMA QuietImplements ==
  ASSUME IInv, NEW c \in Conns,
         StartRefused(c) \/ LaunchFail(c) \/ StateNoChild(c) \/ AdbCommand(c)
           \/ NoEffect(c) \/ StateAlive(c)
  PROVE  [Serial!Next]_(Serial!vars)
<1> USE DEF IInv
<1>1. /\ stage[c] \in Inside
      /\ UNCHANGED <<main, running, req, target, state, proc, dev>>
  BY DEF StartRefused, LaunchFail, StateNoChild, AdbCommand, NoEffect, StateAlive,
         Method, Handling, Inside
<1>2. /\ lock = c /\ lock # None
      /\ Serving = IF stage[c] = "launch" THEN "launching" ELSE req[c].m
  BY <1>1, ServingIs
<1>3. Emulators' = Emulators
  BY <1>1 DEF Emulators
<1>4. \/ Return(c)
      \/ /\ stage[c] = "run" /\ UNCHANGED lock
         /\ \E s \in {"adb", "probe"} : Goto(c, s)
  BY DEF StartRefused, LaunchFail, StateNoChild, AdbCommand, NoEffect, StateAlive,
         AfterState, Method, Handling
<1>5. CASE Return(c)
  <2>1. Serving' = "idle"
    BY <1>5, ServingEnds
  <2>2. Serving # "idle"
    BY <1>2 DEF TypeOK, Requests, Methods
  <2> QED BY <1>1, <1>3, <2>1, <2>2 DEF Serial!Finish, Serial!Next, state
<1>6. CASE stage[c] = "run" /\ UNCHANGED lock /\ \E s \in {"adb", "probe"} : Goto(c, s)
  <2>1. Serving' = req[c].m
    BY <1>1, <1>2, <1>6, ServingStays DEF Inside
  <2>2. Serving' = Serving
    BY <1>2, <1>6, <2>1
  <2> QED BY <1>1, <1>3, <2>2 DEF Serial!vars, state
<1> QED BY <1>4, <1>5, <1>6

\* The requests that end the emulator, or find it ended.
LEMMA KillImplements ==
  ASSUME IInv, ChildIsAll, ChildIsAll', NEW c \in Conns,
         Shutdown(c) \/ Stop(c) \/ StartLaunch(c) \/ Restart(c) \/ StateExited(c)
  PROVE  Serial!Next
<1> USE DEF IInv
<1>1. stage[c] = "run" /\ Kill /\ UNCHANGED <<req, dev>>
  BY DEF Shutdown, Stop, StartLaunch, Restart, StateExited, StopEmulator, Method,
         Handling
<1>2. lock = c /\ Serving = req[c].m
  BY <1>1, ServingIs DEF Inside
<1>3. Emulators' = {}
  BY <1>1 DEF ChildIsAll, Kill
<1>4. CASE Shutdown(c) \/ Stop(c)
  <2>1. Serving' = "idle"
    BY <1>4, ServingEnds DEF Shutdown, Stop
  <2> QED BY <1>2, <1>3, <1>4, <2>1
          DEF Shutdown, Stop, StopEmulator, Method, Serial!End, Serial!Gone, Serial!Next
<1>5. CASE StartLaunch(c)
  <2>1. Serving' = "launching"
    BY <1>2, <1>5, ServingLaunches DEF StartLaunch
  <2>2. \A e \in Emulators : ~Serial!Alive(e)
    BY <1>5 DEF StartLaunch, ChildIsAll, Serial!Emulator, Serial!Alive, Live
  <2>3. target' \in Devices /\ UNCHANGED <<active, power>>
    BY <1>5 DEF StartLaunch, TypeOK, Requests
  <2>4. Serving = "start"
    BY <1>2, <1>5 DEF StartLaunch, Method
  <2> QED BY <1>3, <2>1, <2>2, <2>3, <2>4 DEF Serial!Begin, Serial!Next
<1>6. CASE Restart(c)
  <2>1. Serving' = "launching"
    BY <1>2, <1>6, ServingLaunches DEF Restart
  <2> QED BY <1>2, <1>3, <1>6, <2>1
          DEF Restart, StopEmulator, Method, Serial!BeginAgain, Serial!Gone, Serial!Next
<1>7. CASE StateExited(c)
  <2>1. Serving' = "idle" /\ Serving \in {"status", "adb"} /\ UNCHANGED target
    BY <1>2, <1>7, ServingEnds DEF StateExited, Method
  <2> DEFINE e == Serial!Emulator(dev[emu], proc[emu])
  <2>2. e \in Emulators
    BY <1>7 DEF StateExited, ChildIsAll
  <2>3. ~Serial!Alive(e) /\ e.phase = proc[emu]
    BY <1>7 DEF StateExited, Live, Serial!Emulator, Serial!Alive
  <2>4. active' = None /\ power' = IF e.phase = "ok" THEN "off" ELSE "error"
    BY <1>7, <2>3 DEF StateExited
  <2> HIDE DEF e
  <2>5. Serial!PollExited
    BY <1>3, <2>1, <2>2, <2>3, <2>4 DEF Serial!PollExited, Serial!Gone
  <2> QED BY <2>5 DEF Serial!Next
<1> QED BY <1>4, <1>5, <1>6, <1>7

\* The child launch_device spawns is the only emulator.
LEMMA LaunchImplements ==
  ASSUME IInv, ChildIsAll', NEW c \in Conns, LaunchOk(c)
  PROVE  Serial!Next
<1> USE DEF IInv
<1>1. stage[c] = "launch" /\ Return(c) /\ UNCHANGED target
        /\ active' = target /\ power' = "booting"
  BY DEF LaunchOk, Handling
<1>2. Serving = "launching" /\ Serving' = "idle"
  BY <1>1, ServingIs, ServingEnds DEF Inside
<1>3. PICK p \in Procs :
        /\ proc' = [proc EXCEPT ![p] = "booting"]
        /\ dev' = [dev EXCEPT ![p] = target]
        /\ emu' = p
  BY DEF LaunchOk, Spawn
<1>4. emu' # None /\ dev'[emu'] = target /\ proc'[emu'] = "booting"
  BY <1>3 DEF TypeOK
<1>5. Emulators' = {Serial!Emulator(target, "booting")}
  BY <1>4 DEF ChildIsAll
<1> QED BY <1>1, <1>2, <1>5 DEF Serial!Launch, Serial!Next

\* A poll reports "running" only of an emulator that has booted.
LEMMA PollImplements ==
  ASSUME IInv, ChildIsAll, ProbesPoll, NEW c \in Conns,
         StateWaitError(c) \/ StateProbe(c)
  PROVE  Serial!Next
<1> USE DEF IInv
<1>1. /\ stage[c] \in {"run", "probe"} /\ emu # None
      /\ UNCHANGED <<req, target, active, emu, proc, dev>>
  BY DEF StateWaitError, StateProbe, Method, Handling, CheckStillHolds
<1>2. lock = c /\ Serving = req[c].m
  BY <1>1, ServingIs DEF Inside
<1>3. req[c].m \in {"status", "adb"}
  BY DEF StateWaitError, StateProbe, Method, Handling, ProbesPoll
<1>4. Serving' \in {Serving, "idle"}
  <2>1. Return(c) \/ (Goto(c, "adb") /\ UNCHANGED lock)
    BY DEF StateWaitError, StateProbe, AfterState
  <2>2. Goto(c, "adb") /\ UNCHANGED lock => Serving' = req[c].m
    BY <1>1, <1>2, ServingStays DEF Inside
  <2> QED BY <1>2, <2>1, <2>2, ServingEnds
<1> DEFINE e == Serial!Emulator(dev[emu], proc[emu])
<1>5. e \in Emulators /\ e.phase = proc[emu]
  BY <1>1 DEF ChildIsAll, Serial!Emulator
<1>6. power' \in {"error", "booting"}
        \/ (power' = "running" /\ \E p \in Procs : proc[p] \in {"up", "ok", "err"})
  BY DEF StateWaitError, StateProbe
<1>7. power' = "running" => e.phase # "booting"
  BY <1>5, <1>6 DEF SingleEmulator
<1>8. Emulators' = Emulators
  BY <1>1 DEF Emulators
<1> HIDE DEF e
<1>9. power' \in {"error", "booting"} \cup IF e.phase = "booting" THEN {} ELSE {"running"}
  BY <1>6, <1>7
<1>10. Serial!PollPresent
  BY <1>1, <1>2, <1>3, <1>4, <1>5, <1>8, <1>9 DEF Serial!PollPresent
<1> QED BY <1>10 DEF Serial!Next

\* The daemon implements SerialDaemon.
THEOREM ServesInTurn == Spec => RequestsInTurn
<1>1. Init => Serial!Init
  <2>1. Init => Emulators = {} /\ Serving = "idle"
    BY DEF Init, Emulators, Serving
  <2> QED BY <2>1 DEF Init, Serial!Init
<1>2. IInv /\ ChildIsAll /\ ChildIsAll' /\ ProbesPoll /\ [Next]_vars
        => [Serial!Next]_(Serial!vars)
  <2> SUFFICES ASSUME IInv, ChildIsAll, ChildIsAll', ProbesPoll, [Next]_vars
               PROVE  [Serial!Next]_(Serial!vars)
    OBVIOUS
  <2>1. CASE MainStep \/ Environment \/ Terminated
    BY <2>1, OuterImplements
  <2>2. ASSUME NEW c \in Conns, Handler(c) PROVE [Serial!Next]_(Serial!vars)
    BY <2>2, EndsImplement, QuietImplements, KillImplements, LaunchImplements,
       PollImplements DEF Handler, Dispatch
  <2>3. CASE UNCHANGED vars
    BY <2>3, UnseenStep DEF vars
  <2> QED BY <2>1, <2>2, <2>3 DEF Next
<1> QED BY <1>1, <1>2, Invariance, ProbesArePolls, EmulatorsAre, PTL
        DEF Spec, RequestsInTurn, Serial!Spec

-----------------------------------------------------------------------------
(***************************************************************************)
(* The safe half of HandlersFinish: what is left to fairness is only that  *)
(* every thread takes its next step.                                       *)
(***************************************************************************)

\* How many stages are ahead of a handler, at most.
Ahead(s) ==
  CASE s = "closed" -> 0 [] s = "reply" -> 1 [] s = "adb" -> 2
    [] s \in {"launch", "probe"} -> 3 [] s = "run" -> 4 [] s = "lock" -> 5
    [] s = "recv" -> 6 [] OTHER -> 7

\* No handler goes back, so none goes round in a circle or asks for the mutex
\* again; and nobody but its own handler, or the accept loop, moves a connection
\* that a client has opened.
Advance ==
  \A c \in Conns :
    \/ stage'[c] = stage[c]
    \/ stage[c] = "closed" /\ stage'[c] = "backlog"
    \/ Ahead(stage'[c]) < Ahead(stage[c]) /\ \A d \in Conns \ {c} : stage'[d] = stage[d]

HandlersAdvance == [][Advance]_vars

\* Every handler, of any number of them, is on its way to the end.
THEOREM OnTheirWay == Spec => HandlersAdvance
<1>1. ASSUME TypeOK, NEW c \in Conns, NEW s \in Stages, Goto(c, s),
             Ahead(s) < Ahead(stage[c])
      PROVE  Advance
  BY <1>1 DEF TypeOK, Goto, Advance
<1>2. ASSUME TypeOK, UNCHANGED stage PROVE Advance
  BY <1>2 DEF Advance
<1>3. ASSUME TypeOK, Next PROVE Advance
  <2>1. CASE SetRunning \/ Bind \/ LoopTest \/ Sleep \/ Signal \/ Terminated
             \/ \E p \in Procs : EmulatorUp(p) \/ EmulatorExit(p)
    <3>1. UNCHANGED stage
      BY <2>1 DEF SetRunning, Bind, LoopTest, Sleep, Signal, Terminated, vars,
                  EmulatorUp, EmulatorExit
    <3> QED BY <1>2, <1>3, <3>1
  <2>2. ASSUME NEW c \in Conns, Accept(c) PROVE Advance
    <3>1. stage[c] = "backlog" /\ Goto(c, "recv")
      BY <2>2 DEF Accept, Goto
    <3> QED BY <1>1, <1>3, <3>1 DEF Ahead, Stages
  <2>3. ASSUME NEW c \in Conns, Connect(c) PROVE Advance
    BY <1>3, <2>3 DEF Connect, Advance, TypeOK
  <2>4. CASE AcceptError
    <3>1. ASSUME NEW c \in Conns, stage[c] = "backlog",
                 stage' = [stage EXCEPT ![c] = "closed"]
          PROVE  Advance
      <4>1. Goto(c, "closed")
        BY <3>1 DEF Goto
      <4> QED BY <1>1, <1>3, <3>1, <4>1 DEF Ahead, Stages
    <3> QED BY <1>2, <1>3, <2>4, <3>1 DEF AcceptError
  <2>5. ASSUME NEW c \in Conns, Recv(c) \/ RecvError(c) \/ Lock(c) \/ Respond(c)
        PROVE  Advance
    <3>1. \/ stage[c] = "recv" /\ \E s \in {"lock", "closed"} : Goto(c, s)
          \/ stage[c] = "lock" /\ Goto(c, "run")
          \/ stage[c] = "reply" /\ Goto(c, "closed")
      BY <2>5 DEF Recv, RecvError, Lock, Respond, Handling
    <3> QED BY <1>1, <1>3, <3>1 DEF Ahead, Stages, Inside
  <2>6. ASSUME NEW c \in Conns, Dispatch(c) PROVE Advance
    <3>1. \/ stage[c] \in {"run", "launch", "probe", "adb"} /\ Goto(c, "reply")
          \/ stage[c] \in {"run", "probe"} /\ Goto(c, "adb")
          \/ stage[c] = "run" /\ \E s \in {"launch", "probe"} : Goto(c, s)
      BY <2>6 DEF Dispatch, Shutdown, Stop, StartRefused, StartLaunch, Restart,
            LaunchOk, LaunchFail, StateNoChild, StateExited, StateWaitError,
            StateAlive, StateProbe, AdbCommand, NoEffect, AfterState, Return,
            Method, Handling
    <3> QED BY <1>1, <1>3, <3>1 DEF Ahead, Stages, Inside
  <2> QED BY <1>3, <2>1, <2>2, <2>3, <2>4, <2>5, <2>6
          DEF Next, MainStep, Environment, Handler
<1>4. TypeOK /\ [Next]_vars => [Advance]_vars
  BY <1>3
<1> QED BY <1>4, TypeCorrect, PTL DEF Spec, HandlersAdvance
=============================================================================
