----------------------------- MODULE Instances ------------------------------
(***************************************************************************)
(* Several litedroid-daemon processes around one socket path and one PID   *)
(* file: main of apps/daemon/src/main.rs from its first line to its last,  *)
(* IpcServer::new, and those who start daemons (ensure_daemon of the GUI   *)
(* and "litedroid daemon start").                                          *)
(*                                                                         *)
(* Each file-system call is a step of its own.  A socket file leads to the *)
(* daemon that bound it; removing the file leaves that daemon listening on *)
(* a socket nobody can reach any more.                                     *)
(*                                                                         *)
(* X_fault is X with a slip; no specification uses it.                     *)
(***************************************************************************)
EXTENDS Naturals, FiniteSets

CONSTANTS
  Daemons,  \* daemon processes that may be started
  Guis,     \* control panels that may be started
  None

ASSUME NoneAssumption == None \notin Daemons

VARIABLES
  pc,       \* per daemon: the call of main it makes next
  sock,     \* whose listening socket DAEMON_SOCKET_PATH leads to
  pidfile,  \* whose PID is in DAEMON_PID_PATH
  gui,      \* per control panel: where ensure_daemon is
  overlapped,  \* history: a daemon was started while another one was there
  ended        \* history: a daemon was killed or shut down, or the path could
               \* not be bound although it was free

past == <<overlapped, ended>>
vars == <<pc, sock, pidfile, gui, past>>

\* A daemon process that exists.
Alive == {"write_pid", "unlink", "unlink_again", "bind", "serve", "rm_sock",
          "rm_pid"}
\* Its listening socket is open.
Listening == {"serve", "rm_sock", "rm_pid"}

Running(d) == pc[d] \in Alive

\* UnixStream::connect on the path succeeds.
Reachable == sock # None /\ pc[sock] \in Listening

Init ==
  /\ pc = [d \in Daemons |-> "absent"]
  /\ sock = None /\ pidfile = None
  /\ gui = [g \in Guis |-> "closed"]
  /\ overlapped = FALSE /\ ended = FALSE

-----------------------------------------------------------------------------
Goto(d, l) == pc' = [pc EXCEPT ![d] = l]

\* A daemon process is created.
Spawn(d) ==
  /\ pc[d] = "absent"
  /\ Goto(d, "write_pid")
  /\ overlapped' = (overlapped \/ \E e \in Daemons : Running(e))

\* Without a connection the GUI decides to start a daemon ...
GuiCheck(g) ==
  /\ gui[g] = "closed"
  /\ gui' = [gui EXCEPT ![g] = IF Reachable THEN "open" ELSE "spawn"]
  /\ UNCHANGED <<pc, sock, pidfile, past>>

\* ... and starts it next to its own binary.
GuiSpawn(g) ==
  /\ gui[g] = "spawn"
  /\ gui' = [gui EXCEPT ![g] = "open"]
  /\ \E d \in Daemons : Spawn(d)
  /\ UNCHANGED <<sock, pidfile, ended>>

\* The spawn fails, or there is no such binary; both are ignored.
GuiSpawnFails(g) ==
  /\ gui[g] = "spawn"
  /\ gui' = [gui EXCEPT ![g] = "open"]
  /\ UNCHANGED <<pc, sock, pidfile, past>>

\* "litedroid daemon start" does not look first.
CliStart ==
  /\ \E d \in Daemons : Spawn(d)
  /\ UNCHANGED <<sock, pidfile, gui, ended>>

\* A PID file that cannot be written is only worth a warning.
WritePid(d) ==
  /\ pc[d] = "write_pid"
  /\ Goto(d, "unlink")
  /\ pidfile' \in {d, pidfile}
  /\ UNCHANGED <<sock, gui, past>>

\* The socket file is left in place.
RemoveSocket_fault(d) == UNCHANGED sock

\* remove_file on the path, whoever owns it; its error is ignored.
RemoveSocket(d) == sock' = None

\* "Clean up old socket" in main.
Unlink(d) ==
  /\ pc[d] = "unlink"
  /\ Goto(d, "unlink_again") /\ RemoveSocket(d)
  /\ UNCHANGED <<pidfile, gui, past>>

\* The start is tried again from the top instead of going on to bind.
UnlinkAgain_fault(d) ==
  /\ pc[d] = "unlink_again"
  /\ Goto(d, "unlink") /\ RemoveSocket(d)
  /\ UNCHANGED <<pidfile, gui, past>>

\* "Remove stale socket if present" in IpcServer::new.
UnlinkAgain(d) ==
  /\ pc[d] = "unlink_again"
  /\ Goto(d, "bind") /\ RemoveSocket(d)
  /\ UNCHANGED <<pidfile, gui, past>>

\* The old socket is cleaned up after the new one is bound.
Bind_fault(d) ==
  /\ pc[d] = "bind" /\ sock = None
  /\ Goto(d, "serve")
  /\ UNCHANGED <<sock, pidfile, gui, past>>

Bind(d) ==
  /\ pc[d] = "bind" /\ sock = None
  /\ Goto(d, "serve") /\ sock' = d
  /\ UNCHANGED <<pidfile, gui, past>>

\* The failing daemon cleans up both paths.
BindFails_fault(d) ==
  /\ pc[d] = "bind"
  /\ Goto(d, "gone") /\ pidfile' = None /\ sock' = None
  /\ ended' = (ended \/ sock = None)
  /\ UNCHANGED <<gui, overlapped>>

\* A path that exists, or cannot be created, ends the daemon; it takes the PID
\* file with it.
BindFails(d) ==
  /\ pc[d] = "bind"
  /\ Goto(d, "gone") /\ pidfile' = None
  /\ ended' = (ended \/ sock = None)
  /\ UNCHANGED <<sock, gui, overlapped>>

\* The accept loop ends (see the module Daemon for when it does).
LoopEnds(d) ==
  /\ pc[d] = "serve"
  /\ Goto(d, "rm_sock") /\ ended' = TRUE
  /\ UNCHANGED <<sock, pidfile, gui, overlapped>>

\* The cleanup at the end of main, on the same two paths.
CleanSocket(d) ==
  /\ pc[d] = "rm_sock"
  /\ Goto(d, "rm_pid") /\ sock' = None
  /\ UNCHANGED <<pidfile, gui, past>>

CleanPid(d) ==
  /\ pc[d] = "rm_pid"
  /\ Goto(d, "gone") /\ pidfile' = None
  /\ UNCHANGED <<sock, gui, past>>

\* SIGKILL, a panic or a power failure: the files stay.
Crash(d) ==
  /\ Running(d)
  /\ Goto(d, "gone") /\ ended' = TRUE
  /\ UNCHANGED <<sock, pidfile, gui, overlapped>>

\* The control panel is closed and may be opened again.
GuiClose(g) ==
  /\ gui[g] = "open"
  /\ gui' = [gui EXCEPT ![g] = "closed"]
  /\ UNCHANGED <<pc, sock, pidfile, past>>

-----------------------------------------------------------------------------
Startup(d) == WritePid(d) \/ Unlink(d) \/ UnlinkAgain(d) \/ Bind(d) \/ BindFails(d)

Next ==
  \/ CliStart
  \/ \E g \in Guis : GuiCheck(g) \/ GuiSpawn(g) \/ GuiSpawnFails(g) \/ GuiClose(g)
  \/ \E d \in Daemons :
       Startup(d) \/ LoopEnds(d) \/ CleanSocket(d) \/ CleanPid(d) \/ Crash(d)

Spec == Init /\ [][Next]_vars

\* A daemon that has been started is scheduled.
FairSpec == Spec /\ \A d \in Daemons : WF_vars(Startup(d))

-----------------------------------------------------------------------------
(***************************************************************************)
(* Properties.                                                             *)
(***************************************************************************)

\* Every variable has its type.
TypeOK ==
  /\ pc \in [Daemons -> Alive \union {"absent", "gone"}]
  /\ sock \in Daemons \union {None}
  /\ pidfile \in Daemons \union {None}
  /\ gui \in [Guis -> {"closed", "spawn", "open"}]
  /\ overlapped \in BOOLEAN /\ ended \in BOOLEAN

\* As long as daemons follow one another, a daemon that serves owns the socket
\* path, no matter how its predecessors ended and what files they left behind.
\* (With overlapping daemons this does not hold: the cleanup of an older daemon
\* removes the socket of a newer one.)
ServingIsReachable ==
  ~overlapped => \A d \in Daemons : pc[d] = "serve" => sock = d

\* As long as daemons follow one another, the socket file a crashed daemon has
\* left behind never keeps the next one from binding.
StaleNeverBlocks ==
  ~overlapped => \A d \in Daemons : pc[d] = "bind" => sock = None

\* When starts race and no daemon has been killed or shut down, the path leads to a
\* listening daemon as soon as nobody is on the way up, whatever the daemons
\* have removed from under each other and however many failed to bind.
SettledIsReachable ==
  (~ended /\ (\E d \in Daemons : pc[d] # "absent")
         /\ (\A d \in Daemons : pc[d] \in {"absent", "serve", "gone"}))
    => Reachable

\* A start leads to a daemon that clients reach, races included, unless somebody
\* ends a daemon or the path cannot be bound.
StartLeadsToReachable ==
  (\E d \in Daemons : Running(d)) ~> (Reachable \/ ended)
=============================================================================
