--------------------------- MODULE InstancesProof ---------------------------
(***************************************************************************)
(* Proofs about daemons that share the socket path, for any number of      *)
(* daemons and control panels.                                             *)
(***************************************************************************)
EXTENDS Instances, TLAPS

USE NoneAssumption

(***************************************************************************)
(* When nobody is killed, shut down or refused: the path leads to a daemon *)
(* that serves, and it is empty only while some daemon is between removing *)
(* the file and binding it, or while nobody has come that far.             *)
(***************************************************************************)
PathInv ==
  ~ended =>
    /\ \A d \in Daemons : pc[d] \notin {"rm_sock", "rm_pid"}
    /\ sock # None => pc[sock] = "serve"
    /\ (sock = None /\ \E d \in Daemons : pc[d] \in {"serve", "gone"})
         => \E d \in Daemons : pc[d] \in {"unlink_again", "bind"}

RaceInv == TypeOK /\ PathInv

(***************************************************************************)
(* When daemons follow one another at most one exists at a time, and it    *)
(* finds the path as its own last call has left it.                        *)
(***************************************************************************)
OneAtATime == \A d, e \in Daemons : Running(d) /\ Running(e) => d = e

SequenceInv ==
  TypeOK /\ (~overlapped => OneAtATime)
    /\ ServingIsReachable /\ StaleNeverBlocks
    /\ (~overlapped => \A d \in Daemons : pc[d] = "unlink_again" => sock = None)

LEMMA InitTypeOK == Init => TypeOK
BY DEF Init, TypeOK

LEMMA StepTypeOK == TypeOK /\ [Next]_vars => TypeOK'
<1> SUFFICES ASSUME TypeOK, [Next]_vars PROVE TypeOK'
  OBVIOUS
<1> USE DEF TypeOK, Alive, Goto, RemoveSocket, past
<1>1. CASE CliStart
  BY <1>1 DEF CliStart, Spawn
<1>2. ASSUME NEW g \in Guis,
             GuiCheck(g) \/ GuiSpawn(g) \/ GuiSpawnFails(g) \/ GuiClose(g)
      PROVE  TypeOK'
  BY <1>2 DEF GuiCheck, GuiSpawn, GuiSpawnFails, GuiClose, Spawn
<1>3. ASSUME NEW d \in Daemons, Startup(d)
      PROVE  TypeOK'
  BY <1>3 DEF Startup, WritePid, Unlink, UnlinkAgain, Bind, BindFails
<1>4. ASSUME NEW d \in Daemons,
             LoopEnds(d) \/ CleanSocket(d) \/ CleanPid(d) \/ Crash(d)
      PROVE  TypeOK'
  BY <1>4 DEF LoopEnds, CleanSocket, CleanPid, Crash
<1>5. CASE UNCHANGED vars
  BY <1>5 DEF vars
<1> QED BY <1>1, <1>2, <1>3, <1>4, <1>5 DEF Next

-----------------------------------------------------------------------------
\* The history variables never go back.
LEMMA HistoryGrows ==
  ASSUME TypeOK, [Next]_vars
  PROVE  (ended => ended') /\ (overlapped => overlapped')
<1> USE DEF TypeOK, past
<1>1. CASE CliStart
  BY <1>1 DEF CliStart, Spawn
<1>2. ASSUME NEW g \in Guis,
             GuiCheck(g) \/ GuiSpawn(g) \/ GuiSpawnFails(g) \/ GuiClose(g)
      PROVE  (ended => ended') /\ (overlapped => overlapped')
  BY <1>2 DEF GuiCheck, GuiSpawn, GuiSpawnFails, GuiClose, Spawn
<1>3. ASSUME NEW d \in Daemons, Startup(d)
      PROVE  (ended => ended') /\ (overlapped => overlapped')
  BY <1>3 DEF Startup, WritePid, Unlink, UnlinkAgain, Bind, BindFails
<1>4. ASSUME NEW d \in Daemons,
             LoopEnds(d) \/ CleanSocket(d) \/ CleanPid(d) \/ Crash(d)
      PROVE  (ended => ended') /\ (overlapped => overlapped')
  BY <1>4 DEF LoopEnds, CleanSocket, CleanPid, Crash
<1>5. CASE UNCHANGED vars
  BY <1>5 DEF vars
<1> QED BY <1>1, <1>2, <1>3, <1>4, <1>5 DEF Next

LEMMA StepPathInv == RaceInv /\ [Next]_vars => PathInv'
<1> SUFFICES ASSUME TypeOK, PathInv, ~ended', [Next]_vars
             PROVE  PathInv'
  BY DEF RaceInv, PathInv
<1>0. ~ended
  BY HistoryGrows
<1> USE <1>0 DEF TypeOK, PathInv, Goto
<1>1. ASSUME NEW d \in Daemons, Spawn(d), UNCHANGED sock PROVE PathInv'
  BY <1>1 DEF Spawn
<1>2. CASE UNCHANGED <<pc, sock>>
  BY <1>2
<1>3. ASSUME NEW d \in Daemons, WritePid(d) PROVE PathInv'
  BY <1>3 DEF WritePid
<1>4. ASSUME NEW d \in Daemons, Unlink(d) \/ UnlinkAgain(d) PROVE PathInv'
  <2>1. pc'[d] \in {"unlink_again", "bind"} /\ sock' = None
    BY <1>4 DEF Unlink, UnlinkAgain, RemoveSocket
  <2>2. \A e \in Daemons : pc'[e] \notin {"rm_sock", "rm_pid"}
    BY <1>4 DEF Unlink, UnlinkAgain
  <2> QED BY <2>1, <2>2
<1>5. ASSUME NEW d \in Daemons, Bind(d) PROVE PathInv'
  BY <1>5 DEF Bind
<1>6. ASSUME NEW d \in Daemons, BindFails(d) PROVE PathInv'
  BY <1>6 DEF BindFails
<1>7. ASSUME NEW d \in Daemons,
             LoopEnds(d) \/ CleanSocket(d) \/ CleanPid(d) \/ Crash(d)
      PROVE  FALSE
  BY <1>7 DEF LoopEnds, CleanSocket, CleanPid, Crash
<1> QED
  BY <1>1, <1>2, <1>3, <1>4, <1>5, <1>6, <1>7
     DEF Next, CliStart, GuiCheck, GuiSpawn, GuiSpawnFails, GuiClose, Startup,
         vars

\* Racing starts never leave the path empty or dead once they have settled.
THEOREM RaceSettles == Spec => []SettledIsReachable
<1>1. Init => RaceInv
  BY InitTypeOK DEF Init, RaceInv, PathInv
<1>2. RaceInv /\ [Next]_vars => RaceInv'
  BY StepTypeOK, StepPathInv DEF RaceInv
<1>3. RaceInv => SettledIsReachable
  <2> SUFFICES ASSUME RaceInv, ~ended,
                      NEW d \in Daemons, pc[d] # "absent",
                      \A e \in Daemons : pc[e] \in {"absent", "serve", "gone"}
               PROVE  Reachable
    BY DEF SettledIsReachable
  <2>1. sock # None
    BY DEF RaceInv, PathInv
  <2> QED BY <2>1 DEF RaceInv, PathInv, Reachable, Listening
<1> QED BY <1>1, <1>2, <1>3, PTL DEF Spec

-----------------------------------------------------------------------------
LEMMA StepSequenceInv == SequenceInv /\ [Next]_vars => SequenceInv'
<1> SUFFICES ASSUME SequenceInv, [Next]_vars, ~overlapped' PROVE SequenceInv'
  BY StepTypeOK DEF SequenceInv, ServingIsReachable, StaleNeverBlocks
<1>a. ~overlapped
  BY HistoryGrows DEF SequenceInv
<1> USE <1>a DEF SequenceInv, ServingIsReachable, StaleNeverBlocks, OneAtATime,
            TypeOK, Goto, Running, Alive
<1>0. TypeOK'
  BY StepTypeOK
<1>1. ASSUME NEW d \in Daemons, Spawn(d), UNCHANGED sock
      PROVE  SequenceInv'
  BY <1>0, <1>1 DEF Spawn
<1>2. CASE UNCHANGED <<pc, sock>>
  BY <1>0, <1>2
<1>3. ASSUME NEW d \in Daemons, Startup(d) PROVE SequenceInv'
  <2>1. CASE WritePid(d)
    BY <1>0, <2>1 DEF WritePid
  <2>2. CASE Unlink(d) \/ UnlinkAgain(d)
    BY <1>0, <2>2 DEF Unlink, UnlinkAgain, RemoveSocket
  <2>3. CASE Bind(d)
    BY <1>0, <2>3 DEF Bind
  <2>4. CASE BindFails(d)
    BY <1>0, <2>4 DEF BindFails
  <2> QED BY <1>3, <2>1, <2>2, <2>3, <2>4 DEF Startup
<1>4. ASSUME NEW d \in Daemons,
             LoopEnds(d) \/ CleanSocket(d) \/ CleanPid(d) \/ Crash(d)
      PROVE  SequenceInv'
  <2>1. CASE LoopEnds(d)
    BY <1>0, <2>1 DEF LoopEnds
  <2>2. CASE CleanSocket(d)
    BY <1>0, <2>2 DEF CleanSocket
  <2>3. CASE CleanPid(d) \/ Crash(d)
    BY <1>0, <2>3 DEF CleanPid, Crash
  <2> QED BY <1>4, <2>1, <2>2, <2>3
<1> QED
  BY <1>1, <1>2, <1>3, <1>4
     DEF Next, CliStart, GuiCheck, GuiSpawn, GuiSpawnFails, GuiClose, vars

\* SequenceInv holds in every reachable state.
LEMMA SequenceInvariance == Spec => []SequenceInv
<1>1. Init => SequenceInv
  BY InitTypeOK DEF Init, SequenceInv, ServingIsReachable, StaleNeverBlocks,
                    OneAtATime, Running, Alive
<1> QED BY <1>1, StepSequenceInv, PTL DEF Spec

\* Daemons that follow one another own the path while they serve, however their
\* predecessors ended.
THEOREM SequenceServes == Spec => []ServingIsReachable
<1>1. SequenceInv => ServingIsReachable
  BY DEF SequenceInv
<1> QED BY <1>1, SequenceInvariance, PTL

\* They always find the path free when they bind.
THEOREM SequenceBinds == Spec => []StaleNeverBlocks
<1>1. SequenceInv => StaleNeverBlocks
  BY DEF SequenceInv
<1> QED BY <1>1, SequenceInvariance, PTL
=============================================================================
