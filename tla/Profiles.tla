------------------------------ MODULE Profiles ------------------------------
(***************************************************************************)
(* The device profiles, one directory with a metadata.json for each, and   *)
(* the processes that write, delete and list them without any lock: the    *)
(* GUI (refresh and create_device of apps/gui/src/main.rs), the CLI        *)
(* ("device create" and "device delete" of apps/cli/src/main.rs) and the   *)
(* daemon, which creates "default" (ensure_default_device of               *)
(* crates/config/src/lib.rs; what it then does is in Launch).              *)
(*                                                                         *)
(* Each file-system call is a step.  fs::write empties the file when it    *)
(* opens it and writes from the beginning; what others have done to the    *)
(* file in between is overwritten as far as the text reaches.  Every call  *)
(* may fail; a write that fails (a full disk, a quota) has emptied the     *)
(* file and may have written the beginning of its text.  A listing is one  *)
(* step.                                                                   *)
(*                                                                         *)
(* X_fault is X with a slip; no specification uses it.                     *)
(***************************************************************************)
EXTENDS Naturals, Sequences, FiniteSets

CONSTANTS
  Guis, Clis, Daemon,   \* processes
  Default,              \* the name "default"
  PixelLite,            \* the names "PixelLite-1", "PixelLite-2", ...
  CliNames,             \* the names the CLI is given
  None,
  MaxCommands,          \* CLI commands
  MaxMishaps            \* processes that are killed and calls that fail

Procs == Guis \cup Clis \cup {Daemon}
Pixels == {PixelLite[i] : i \in DOMAIN PixelLite}
Names == {Default} \cup Pixels \cup CliNames

\* The names "PixelLite-1", "PixelLite-2", ... differ.
ASSUME ProfilesAssumption ==
  /\ PixelLite \in Seq(Pixels) /\ Default \notin Pixels
  /\ \A i, j \in DOMAIN PixelLite : PixelLite[i] = PixelLite[j] => i = j
  /\ IsFiniteSet(CliNames) /\ None \notin Names
  /\ Daemon \notin Guis \cup Clis /\ Guis \cap Clis = {}
  /\ MaxCommands \in Nat /\ MaxMishaps \in Nat

VARIABLES
  store,     \* per name: "absent", "dir" (no metadata.json), "empty", "part"
             \* (the beginning of a text), "garbage" (the end of another text
             \* behind its own), or the text that was written
  job,       \* per process: the call it makes next and what for
  fd,        \* per process: whether the file it has open is still in its directory
  gui,       \* per GUI: devices, selected_device, auto_start_attempted, ...
  daemon,    \* somebody listens on the socket
  commands,  \* CLI commands left
  mishaps,   \* kills and failing calls left
  raced,     \* history: files two processes have had open together
  miscount,  \* history: a profile was deleted or left out of a listing, or a
             \* PixelLite name was written by somebody else than the GUI or
             \* not to the end
  torn       \* history: files whose writer was killed or whose write failed

past == <<raced, miscount, torn>>
bounds == <<commands, mishaps>>
vars == <<store, job, fd, gui, daemon, bounds, past>>

\* What create_device and ensure_default_device write, and what the CLI writes,
\* which is longer: it has the paths of the images as well.
Texts == {"std", "tuned"}
Long == {"tuned", "garbage"}

Idle == [pc |-> "idle", name |-> None, text |-> "std", next |-> "idle"]

\* A GUI refreshes before it shows itself.
Started(p) == IF p \in Guis THEN [Idle EXCEPT !.pc = "refresh"] ELSE Idle

\* devices, selected_device and auto_start_attempted; then, for the properties,
\* the device the user clicked on, which names were written or removed since
\* it was last listed, and whether device.start was delivered.
NewGui == [devices |-> {}, selected |-> Default, attempted |-> FALSE,
           chosen |-> None, touched |-> {}, asked |-> FALSE]

Init ==
  /\ store = [n \in Names |-> "absent"]
  /\ job = [p \in Procs |-> Started(p)]
  /\ fd = [p \in Procs |-> "none"]
  /\ gui = [g \in Guis |-> NewGui]
  /\ daemon = FALSE
  /\ commands = MaxCommands /\ mishaps = MaxMishaps
  /\ raced = {} /\ miscount = FALSE /\ torn = {}

Goto(p, l) == job' = [job EXCEPT ![p].pc = l]
Touch(n) == gui' = [g \in Guis |-> [gui[g] EXCEPT !.touched =
                      (@ \cup {n}) \cap (gui[g].devices \cup {gui[g].chosen})]]
Exists(n) == store[n] \notin {"absent", "dir"}

-----------------------------------------------------------------------------
(***************************************************************************)
(* Writing a profile: create_dir_all, then fs::write.                      *)
(***************************************************************************)

\* When the write succeeds the process goes on with "next"; refresh ignores the
\* error of ensure_default_device.
Succeed(p) ==
  job' = [job EXCEPT ![p] =
            IF job[p].next = "idle" THEN Idle ELSE [Idle EXCEPT !.pc = job[p].next]]
GiveUp(p) ==
  job' = [job EXCEPT ![p] =
            IF job[p].next = "list" THEN [Idle EXCEPT !.pc = "list"] ELSE Idle]

Mkdir(p) ==
  /\ job[p].pc = "mkdir"
  /\ store' = [store EXCEPT ![job[p].name] = IF @ = "absent" THEN "dir" ELSE @]
  /\ Goto(p, "open")
  /\ UNCHANGED <<fd, gui, daemon, bounds, past>>

\* The file is opened without being emptied.
Open_fault(p) ==
  LET n == job[p].name IN
  /\ job[p].pc = "open" /\ store[n] # "absent"
  /\ store' = [store EXCEPT ![n] = IF @ = "dir" THEN "empty" ELSE @]
  /\ fd' = [fd EXCEPT ![p] = "live"]
  /\ Goto(p, "write") /\ Touch(n)
  /\ raced' = IF \E q \in Procs : fd[q] = "live" /\ job[q].name = n
                THEN raced \cup {n} ELSE raced \ {n}
  /\ torn' = torn \ {n}
  /\ miscount' = (miscount \/ (n \in Pixels /\ p \notin Guis))
  /\ UNCHANGED <<daemon, bounds>>

Open(p) ==
  LET n == job[p].name IN
  /\ job[p].pc = "open" /\ store[n] # "absent"
  /\ store' = [store EXCEPT ![n] = "empty"]
  /\ fd' = [fd EXCEPT ![p] = "live"]
  /\ Goto(p, "write") /\ Touch(n)
  /\ raced' = IF \E q \in Procs : fd[q] = "live" /\ job[q].name = n
                THEN raced \cup {n} ELSE raced \ {n}
  /\ torn' = torn \ {n}
  /\ miscount' = (miscount \/ (n \in Pixels /\ p \notin Guis))
  /\ UNCHANGED <<daemon, bounds>>

\* The directory has been deleted meanwhile.
OpenFails(p) ==
  /\ job[p].pc = "open" /\ store[job[p].name] = "absent"
  /\ GiveUp(p)
  /\ UNCHANGED <<store, fd, gui, daemon, bounds, past>>

\* What a file that holds old may hold after text was written at its beginning:
\* the rest of a longer old text stays, and how long a part is nobody knows.
Over(old, text) ==
  CASE old \in Long /\ text \notin Long -> {"garbage"}
    [] old = "part" /\ text \notin Long -> {"garbage", text}
    [] OTHER -> {text}

\* The same when the write stops before its end, or before its beginning.
Cut(old) == IF old = "empty" THEN {"empty", "part"} ELSE {old, "garbage"}

\* The values are validated when the file is already open.
Write_fault(p) ==
  LET n == job[p].name IN
  /\ job[p].pc = "write"
  /\ \E x \in IF fd[p] = "live" /\ job[p].text = "std" THEN Over(store[n], "std")
                                                      ELSE {store[n]} :
       store' = [store EXCEPT ![n] = x]
  /\ fd' = [fd EXCEPT ![p] = "none"]
  /\ Succeed(p) /\ Touch(n)
  /\ UNCHANGED <<daemon, bounds, past>>

\* A file that was removed takes the text with it.
Write(p) ==
  LET n == job[p].name IN
  /\ job[p].pc = "write"
  /\ \E x \in IF fd[p] = "live" THEN Over(store[n], job[p].text) ELSE {store[n]} :
       store' = [store EXCEPT ![n] = x]
  /\ fd' = [fd EXCEPT ![p] = "none"]
  /\ Succeed(p) /\ Touch(n)
  /\ UNCHANGED <<daemon, bounds, past>>

\* The write fails; the file stays as it is by then.
WriteFails(p) ==
  LET n == job[p].name IN
  /\ job[p].pc = "write" /\ mishaps > 0 /\ mishaps' = mishaps - 1
  /\ \E x \in IF fd[p] = "live" THEN Cut(store[n]) ELSE {store[n]} :
       store' = [store EXCEPT ![n] = x]
  /\ fd' = [fd EXCEPT ![p] = "none"]
  /\ GiveUp(p) /\ Touch(n)
  /\ torn' = IF fd[p] = "live" THEN torn \cup {n} ELSE torn
  /\ miscount' = (miscount \/ n \in Pixels)
  /\ UNCHANGED <<daemon, commands, raced>>

\* create_dir_all or the opening fails; the CLI does not look at the former.
CallFails(p) ==
  /\ job[p].pc \in {"mkdir", "open"} /\ mishaps > 0 /\ mishaps' = mishaps - 1
  /\ IF job[p].pc = "mkdir" /\ p \in Clis THEN Goto(p, "open") ELSE GiveUp(p)
  /\ UNCHANGED <<store, fd, gui, daemon, commands, past>>

-----------------------------------------------------------------------------
(***************************************************************************)
(* The CLI and the daemon.                                                 *)
(***************************************************************************)

CliCreate(c, n) ==
  /\ job[c] = Idle /\ commands > 0 /\ commands' = commands - 1
  /\ job' = [job EXCEPT ![c] = [pc |-> "mkdir", name |-> n, text |-> "tuned",
                                next |-> "idle"]]
  /\ UNCHANGED <<store, fd, gui, daemon, mishaps, past>>

CliDelete(c, n) ==
  /\ job[c] = Idle /\ commands > 0 /\ commands' = commands - 1
  /\ job' = [job EXCEPT ![c] = [Idle EXCEPT !.pc = "unlink", !.name = n]]
  /\ UNCHANGED <<store, fd, gui, daemon, mishaps, past>>

\* remove_dir_all removes what is in the directory ...
Unlink(c) ==
  LET n == job[c].name IN
  /\ job[c].pc = "unlink"
  /\ \/ /\ store[n] # "absent"
        /\ store' = [store EXCEPT ![n] = "dir"]
        /\ fd' = [p \in Procs |->
                    IF fd[p] = "live" /\ job[p].name = n THEN "dead" ELSE fd[p]]
        /\ Goto(c, "rmdir") /\ Touch(n)
        /\ miscount' = TRUE /\ raced' = raced \ {n} /\ torn' = torn \ {n}
     \/ /\ store[n] = "absent"
        /\ GiveUp(c)
        /\ UNCHANGED <<store, fd, gui, past>>
  /\ UNCHANGED <<daemon, bounds>>

\* ... and then the directory, unless there is something in it again.
Rmdir(c) ==
  /\ job[c].pc = "rmdir"
  /\ store' = [store EXCEPT ![job[c].name] = IF @ = "dir" THEN "absent" ELSE @]
  /\ Succeed(c)
  /\ UNCHANGED <<fd, gui, daemon, bounds, past>>

\* remove_dir_all fails before or after it has removed the file.
DeleteFails(c) ==
  /\ job[c].pc \in {"unlink", "rmdir"} /\ mishaps > 0 /\ mishaps' = mishaps - 1
  /\ GiveUp(c)
  /\ UNCHANGED <<store, fd, gui, daemon, commands, past>>

\* launch_device has not found "default".
EnsureDefault(p, next) ==
  job' = [job EXCEPT ![p] =
            IF Exists(Default) THEN [Idle EXCEPT !.pc = next]
            ELSE [pc |-> "mkdir", name |-> Default, text |-> "std", next |-> next]]

DaemonDefault ==
  /\ daemon /\ job[Daemon] = Idle /\ ~Exists(Default)
  /\ EnsureDefault(Daemon, "idle")
  /\ UNCHANGED <<store, fd, gui, daemon, bounds, past>>

-----------------------------------------------------------------------------
(***************************************************************************)
(* The GUI.                                                                *)
(***************************************************************************)

\* refresh, on the timer, on the button, and after create_device.
Refresh(g) ==
  /\ job[g].pc = "refresh" \/ job[g] = Idle
  /\ EnsureDefault(g, "list")
  /\ UNCHANGED <<store, fd, gui, daemon, bounds, past>>

Readable == {n \in Names : store[n] \in Texts}

\* The first device is selected after every listing.
Selection_fault(selected) == IF Readable = {} THEN {selected} ELSE Readable

\* A selected device that is not listed gives way to the first one.
Selection(selected) ==
  IF selected \in Readable \/ Readable = {} THEN {selected} ELSE Readable

\* Profiles that cannot be read or parsed are left out.
List(g) ==
  /\ job[g].pc = "list"
  /\ \E s \in Selection(gui[g].selected) :
       gui' = [gui EXCEPT ![g].devices = Readable, ![g].selected = s,
                          ![g].touched = IF gui[g].chosen \in {None} \cup (Readable \cap {s})
                                           THEN {} ELSE @]
  /\ miscount' = (miscount \/ \E n \in Names : store[n] # "absent" /\ n \notin Readable)
  /\ Goto(g, "status")
  /\ UNCHANGED <<store, fd, daemon, bounds, raced, torn>>

\* device.status: daemon_online says whether the connection came about.
Status(g) ==
  /\ job[g].pc = "status"
  /\ job' = [job EXCEPT ![g] = IF daemon /\ ~gui[g].attempted
                                 THEN [Idle EXCEPT !.pc = "boot"] ELSE Idle]
  /\ UNCHANGED <<store, fd, gui, daemon, bounds, past>>

\* The attempt is made and ticked off when there is nothing to start yet.
AutoStart_fault(g) ==
  /\ job[g].pc = "boot"
  /\ job' = [job EXCEPT ![g] = Idle]
  /\ gui' = [gui EXCEPT ![g].attempted = TRUE,
                        ![g].asked = daemon /\ gui[g].devices # {}]
  /\ UNCHANGED <<store, fd, daemon, bounds, past>>

\* The attempt is ticked off before device.start is sent.
AutoStart(g) ==
  /\ job[g].pc = "boot"
  /\ job' = [job EXCEPT ![g] = Idle]
  /\ gui' = IF gui[g].devices = {} THEN gui
            ELSE [gui EXCEPT ![g].attempted = TRUE, ![g].asked = daemon]
  /\ UNCHANGED <<store, fd, daemon, bounds, past>>

NewName(g) == PixelLite[Cardinality(gui[g].devices) + 1]

\* The devices are not listed again afterwards.
CreateDevice_fault(g) ==
  /\ job[g] = Idle
  /\ Cardinality(gui[g].devices) < Len(PixelLite)
  /\ job' = [job EXCEPT ![g] = [pc |-> "mkdir", name |-> NewName(g),
                                text |-> "std", next |-> "idle"]]
  /\ UNCHANGED <<store, fd, gui, daemon, bounds, past>>

\* The button; the bound is the number of names.
CreateDevice(g) ==
  /\ job[g] = Idle
  /\ Cardinality(gui[g].devices) < Len(PixelLite)
  /\ job' = [job EXCEPT ![g] = [pc |-> "mkdir", name |-> NewName(g),
                                text |-> "std", next |-> "refresh"]]
  /\ UNCHANGED <<store, fd, gui, daemon, bounds, past>>

Select(g, n) ==
  /\ job[g] = Idle /\ n \in gui[g].devices
  /\ gui' = [gui EXCEPT ![g].selected = n, ![g].chosen = n]
  /\ UNCHANGED <<store, job, fd, daemon, bounds, past>>

-----------------------------------------------------------------------------
(***************************************************************************)
(* Kills, and daemons that come and go.                                    *)
(***************************************************************************)

\* A GUI that was killed is started again.
Kill(p) ==
  /\ job[p] # Idle /\ mishaps > 0 /\ mishaps' = mishaps - 1
  /\ job' = [job EXCEPT ![p] = Started(p)]
  /\ fd' = [fd EXCEPT ![p] = "none"]
  /\ gui' = IF p \in Guis THEN [gui EXCEPT ![p] = NewGui] ELSE gui
  /\ torn' = IF fd[p] = "live" THEN torn \cup {job[p].name} ELSE torn
  /\ daemon' = (daemon /\ p # Daemon)
  /\ UNCHANGED <<store, commands, raced, miscount>>

DaemonComes == ~daemon /\ daemon' = TRUE /\ UNCHANGED <<store, job, fd, gui, bounds, past>>
DaemonGoes ==
  /\ daemon /\ job[Daemon] = Idle /\ daemon' = FALSE
  /\ UNCHANGED <<store, job, fd, gui, bounds, past>>

Writing(p) == Mkdir(p) \/ Open(p) \/ OpenFails(p) \/ Write(p)
Panel(g) == Refresh(g) \/ List(g) \/ Status(g) \/ AutoStart(g)

Next ==
  \/ \E p \in Procs : Writing(p) \/ WriteFails(p) \/ CallFails(p) \/ Kill(p)
  \/ \E c \in Clis : \/ Unlink(c) \/ Rmdir(c) \/ DeleteFails(c)
                     \/ \E n \in CliNames : CliCreate(c, n) \/ CliDelete(c, n)
  \/ \E g \in Guis : \/ Panel(g) \/ CreateDevice(g)
                     \/ \E n \in Names : Select(g, n)
  \/ DaemonDefault \/ DaemonComes \/ DaemonGoes

\* The GUI is scheduled and refreshes every three seconds, whatever the user
\* does in between.
Spec ==
  /\ Init /\ [][Next]_vars
  /\ \A g \in Guis : /\ WF_vars(Writing(g)) /\ SF_vars(Refresh(g))
                     /\ WF_vars(List(g) \/ Status(g) \/ AutoStart(g))

-----------------------------------------------------------------------------
(***************************************************************************)
(* Properties.                                                             *)
(***************************************************************************)

TypeOK ==
  /\ store \in [Names -> {"absent", "dir", "empty", "part", "garbage"} \cup Texts]
  /\ fd \in [Procs -> {"none", "live", "dead"}]
  /\ \A g \in Guis : gui[g].devices \subseteq Names /\ gui[g].selected \in Names

\* An empty metadata.json, or one that holds the beginning of a text, is about to
\* be written, or since it was last emptied somebody who had it open was killed
\* or failed to write: no order of creating, overwriting and deleting alone
\* leaves a profile that refresh leaves out and ensure_default_device does not
\* repair.
EmptyHasWriter ==
  \A n \in Names : store[n] \in {"empty", "part"} =>
    n \in torn \/ \E p \in Procs : fd[p] = "live" /\ job[p].name = n

\* A metadata.json with the end of another one behind its own text comes only
\* from two processes that had the file open at the same time, and lasts until
\* somebody writes the file alone.
GarbageNeedsRace == \A n \in Names : store[n] = "garbage" => n \in raced

OpensFree ==
  \A g \in Guis :
    /\ job[g].pc = "open" /\ job[g].name \in Pixels /\ job'[g].pc = "write"
    /\ store[job[g].name] \in Texts
    => miscount

\* create_device takes a name that is free, as long as no profile has been
\* deleted, nobody else uses its names, none of its own writes has failed, and
\* none was unreadable when the devices were counted.
CreateIsFresh == [][OpensFree]_vars

\* refresh leaves the user's choice alone unless somebody has written or removed
\* that very profile since.
SelectionSticks ==
  \A g \in Guis :
    gui[g].chosen \notin {None, gui[g].selected} => gui[g].chosen \in gui[g].touched

\* A GUI that has not attempted the automatic boot sends device.start in the
\* end, unless the daemon is away or no profile can be read.
BootIsAsked ==
  \A g \in Guis : ~gui[g].attempted ~> (gui[g].asked \/ ~daemon \/ Readable = {})
=============================================================================
