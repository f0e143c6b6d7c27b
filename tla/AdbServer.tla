----------------------------- MODULE AdbServer ------------------------------
(***************************************************************************)
(* AdbServer and AdbConnection (crates/adb/src/lib.rs): the owner, who     *)
(* calls start and stop; the one background thread, which accepts a client *)
(* and then serves it itself until that client's message loop ends; and    *)
(* the clients.  A message is abstracted to whether the loop goes on after *)
(* it: "go" is CNXN, OKAY, WRTE, an unknown command or OPEN of anything    *)
(* but host:kill; "end" is host:kill, CLSE or bytes that do not decode.    *)
(*                                                                         *)
(* X_fault is X with a slip; no specification uses it.                     *)
(***************************************************************************)
EXTENDS Naturals

CONSTANTS
  Clients,  \* slots for TCP connections
  Nobody    \* cur when no client is served

ASSUME ClientsAssumption == Nobody \notin Clients

VARIABLES
  running,  \* AdbServer.running
  owner,    \* where the owner is in stop()
  thread,   \* where the background thread is
  cur,      \* the client handle_client serves
  conn,     \* per client: the server's end of its connection
  open,     \* per client: it has not closed its end
  msg       \* per client: a message sent and not yet read

adbVars == <<running, owner, thread, cur, conn, open, msg>>

Messages == {"go", "end"}

AdbInit ==
  /\ running = FALSE /\ owner = "idle"
  /\ thread = "none" /\ cur = Nobody
  /\ conn = [c \in Clients |-> "none"]
  /\ open = [c \in Clients |-> FALSE]
  /\ msg = [c \in Clients |-> "none"]

\* The listening socket is bound in new() and dropped with the thread.
Listening == thread # "done"

-----------------------------------------------------------------------------
(***************************************************************************)
(* The owner.                                                              *)
(***************************************************************************)

\* start() takes the listener; a second call finds none and fails.
Start ==
  /\ owner = "idle" /\ thread = "none"
  /\ running' = TRUE /\ thread' = "test"
  /\ UNCHANGED <<owner, cur, conn, open, msg>>

\* stop() first clears the flag ...
StopFlag ==
  /\ owner = "idle"
  /\ running' = FALSE /\ owner' = "connect"
  /\ UNCHANGED <<thread, cur, conn, open, msg>>

\* The connection to itself is forgotten.
StopConnect_fault ==
  /\ owner = "connect"
  /\ owner' = "idle"
  /\ UNCHANGED <<running, thread, cur, conn, open, msg>>

\* ... and then connects to itself, to unblock accept(), and drops the stream.
\* With a full queue the attempt times out, which is ignored.
StopConnect ==
  /\ owner = "connect"
  /\ owner' = "idle"
  /\ IF Listening /\ \E c \in Clients : conn[c] = "none"
       THEN \E c \in Clients :
              /\ conn[c] = "none"
              /\ conn' = [conn EXCEPT ![c] = "queued"]
       ELSE UNCHANGED conn
  /\ UNCHANGED <<running, thread, cur, open, msg>>

-----------------------------------------------------------------------------
(***************************************************************************)
(* The clients.                                                            *)
(***************************************************************************)
Connect(c) ==
  /\ Listening /\ conn[c] = "none"
  /\ conn' = [conn EXCEPT ![c] = "queued"]
  /\ open' = [open EXCEPT ![c] = TRUE]
  /\ UNCHANGED <<running, owner, thread, cur, msg>>

Send(c) ==
  /\ open[c] /\ msg[c] = "none"
  /\ \E m \in Messages : msg' = [msg EXCEPT ![c] = m]
  /\ UNCHANGED <<running, owner, thread, cur, conn, open>>

Leave(c) ==
  /\ open[c]
  /\ open' = [open EXCEPT ![c] = FALSE]
  /\ UNCHANGED <<running, owner, thread, cur, conn, msg>>

-----------------------------------------------------------------------------
(***************************************************************************)
(* The background thread.                                                  *)
(***************************************************************************)
Test ==
  /\ thread = "test"
  /\ thread' = IF running THEN "accept" ELSE "done"
  /\ UNCHANGED <<running, owner, cur, conn, open, msg>>

\* accept() returns the client and handle_client sends the CNXN message; an
\* error of that write ends the connection at once.
Accept(c) ==
  /\ thread = "accept" /\ conn[c] = "queued"
  /\ thread' = "read" /\ cur' = c
  /\ conn' = [conn EXCEPT ![c] = "served"]
  /\ UNCHANGED <<running, owner, open, msg>>

\* An error of accept() ends the thread if stop() was called, else it sleeps.
AcceptError ==
  /\ thread = "accept"
  /\ thread' = IF running THEN "pause" ELSE "done"
  /\ UNCHANGED <<running, owner, cur, conn, open, msg>>

Pause ==
  /\ thread = "pause"
  /\ thread' = "test"
  /\ UNCHANGED <<running, owner, cur, conn, open, msg>>

\* handle_client returns to the accept loop at l and closes the stream.
Close(l) ==
  /\ thread' = l /\ cur' = Nobody
  /\ conn' = [conn EXCEPT ![cur] = "none"]
  /\ open' = [open EXCEPT ![cur] = FALSE]
  /\ msg' = [msg EXCEPT ![cur] = "none"]

\* host:kill is taken for the end of the server.
ReadEnd_fault ==
  /\ thread = "read" /\ msg[cur] = "end"
  /\ Close("done")
  /\ UNCHANGED <<running, owner>>

\* A message after which handle_client breaks out of its loop.
ReadEnd ==
  /\ thread = "read" /\ msg[cur] = "end"
  /\ Close("test")
  /\ UNCHANGED <<running, owner>>

\* A message that is answered, or ignored, and the next one is waited for.
ReadGo ==
  /\ thread = "read" /\ msg[cur] = "go"
  /\ msg' = [msg EXCEPT ![cur] = "none"]
  /\ UNCHANGED <<running, owner, thread, cur, conn, open>>

\* The end of the stream is retried instead of ending the connection.
ReadEof_fault ==
  /\ thread = "read" /\ msg[cur] = "none" /\ ~open[cur]
  /\ UNCHANGED adbVars

\* read_exact fails because the client has gone.  The stream has no read
\* timeout, so nothing else gets the thread out of a silent connection.
ReadEof ==
  /\ thread = "read" /\ ~open[cur]
  /\ Close("test")
  /\ UNCHANGED <<running, owner>>

-----------------------------------------------------------------------------
Thread ==
  Test \/ AcceptError \/ Pause \/ ReadEnd \/ ReadGo \/ ReadEof
    \/ \E c \in Clients : Accept(c)

AdbNext ==
  \/ Start \/ StopFlag \/ StopConnect \/ Thread
  \/ \E c \in Clients : Connect(c) \/ Send(c) \/ Leave(c)

AdbSpec == AdbInit /\ [][AdbNext]_adbVars

\* The owner finishes a stop() it has begun, the thread is scheduled, and the
\* kernel's queue of connections is first in, first out.  Nothing is asked of
\* the clients: a client may stay silent, and connected, for ever.
Fairness ==
  /\ WF_adbVars(StopConnect)
  /\ WF_adbVars(Test \/ Pause \/ ReadEnd \/ ReadGo \/ ReadEof)
  /\ \A c \in Clients : SF_adbVars(Accept(c))

FairSpec == AdbSpec /\ Fairness

-----------------------------------------------------------------------------
(***************************************************************************)
(* Properties.                                                             *)
(***************************************************************************)

\* Every variable has its type.
TypeOK ==
  /\ running \in BOOLEAN
  /\ owner \in {"idle", "connect"}
  /\ thread \in {"none", "test", "accept", "pause", "read", "done"}
  /\ cur \in Clients \union {Nobody}
  /\ conn \in [Clients -> {"none", "queued", "served"}]
  /\ open \in [Clients -> BOOLEAN]
  /\ msg \in [Clients -> Messages \union {"none"}]

\* The thread outlives whatever its clients do: kill requests, garbage and
\* disconnects end a connection, and only stop() ends the server.
OnlyStopEnds == thread = "done" => ~running

\* One client stays connected for ever, and the only thread stays in read_exact
\* for it.
Hogged == \E c \in Clients : <>[](thread = "read" /\ cur = c /\ open[c])

\* What the comment of stop() says, "signal the accept loop to stop and unblock
\* the listener": once stop() is called on a started server the thread ends,
\* wherever it was, unless one client stays connected for ever.  Silence is the
\* only thing that keeps it: not a full queue, a retried accept() or a client
\* that sends again and again and leaves.
StopEnds == ((~running /\ thread # "none") ~> thread = "done") \/ Hogged

\* A client in the queue of a started server is accepted, or the server ends,
\* unless one client stays connected for ever.
QueuedServed ==
  \A c \in Clients :
    \/ (conn[c] = "queued" /\ thread # "none")
         ~> (conn[c] # "queued" \/ thread = "done")
    \/ Hogged

\* What the comment of AdbServer says, "accepts ADB client connections and
\* spawns handlers": a client in the queue gets its handler, or the server ends,
\* whatever the other clients do.
HandlersSpawned ==
  \A c \in Clients :
    (conn[c] = "queued" /\ thread # "none")
      ~> (conn[c] # "queued" \/ thread = "done")
=============================================================================
