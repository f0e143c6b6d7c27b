---------------------------- MODULE SerialDaemon ----------------------------
(***************************************************************************)
(* What the clients of the daemon may expect: their requests are served    *)
(* one after the other, each has the effects of its own method and of no   *)
(* other, and there is at most one emulator, which lives and dies by       *)
(* itself in between.                                                      *)
(*                                                                         *)
(* There are no connections, threads, handles or process slots here.  An   *)
(* emulator is a record of its device and its phase, so that a second      *)
(* process, or one nobody answers for, has no place in this specification. *)
(***************************************************************************)
CONSTANTS Devices, Default, Methods, None

VARIABLES
  serving,    \* "idle", the method in service, or "launching"
  target,     \* the device to be launched
  emulators,  \* the emulator processes there are
  active,     \* the device the daemon reports
  power       \* the power state the daemon reports

vars == <<serving, target, emulators, active, power>>

Emulator(d, s) == [device |-> d, phase |-> s]
Alive(e) == e.phase \in {"booting", "up"}

Init ==
  /\ serving = "idle" /\ target = Default
  /\ emulators = {} /\ active = None /\ power = "off"

Take ==
  /\ serving = "idle" /\ serving' \in Methods
  /\ UNCHANGED <<target, emulators, active, power>>

\* The request has no effect, or none any more.
Finish ==
  /\ serving # "idle" /\ serving' = "idle"
  /\ UNCHANGED <<target, emulators, active, power>>

\* No emulator is left, and the daemon reports p and no device.
Gone(p) == emulators' = {} /\ active' = None /\ power' = p

End ==
  /\ \/ serving = "stop" /\ Gone("off")
     \/ serving = "shutdown" /\ Gone("stopping")
  /\ serving' = "idle" /\ UNCHANGED target

\* A start replaces no emulator that is alive.
Begin ==
  /\ serving = "start" /\ \A e \in emulators : ~Alive(e)
  /\ serving' = "launching" /\ target' \in Devices
  /\ emulators' = {} /\ UNCHANGED <<active, power>>

\* A restart or wipe ends the emulator first and remembers its device.
BeginAgain ==
  /\ serving \in {"restart", "wipe"}
  /\ serving' = "launching"
  /\ target' = IF active = None THEN Default ELSE active
  /\ Gone("off")

Launch ==
  /\ serving = "launching" /\ serving' = "idle"
  /\ emulators' = {Emulator(target, "booting")}
  /\ active' = target /\ power' = "booting"
  /\ UNCHANGED target

\* A poll finds that the emulator has exited ...
PollExited ==
  /\ serving \in {"status", "adb"} /\ serving' = "idle"
  /\ \E e \in emulators : ~Alive(e) /\ Gone(IF e.phase = "ok" THEN "off" ELSE "error")
  /\ UNCHANGED target

\* ... or reports how far the emulator that is there has come.
PollPresent ==
  /\ serving \in {"status", "adb"} /\ serving' \in {serving, "idle"}
  /\ \E e \in emulators :
       power' \in {"error", "booting"} \cup IF e.phase = "booting" THEN {} ELSE {"running"}
  /\ UNCHANGED <<target, emulators, active>>

\* The emulator boots or exits, whatever is in service.
Live ==
  /\ \E e \in emulators, s \in {"up", "ok", "err"} :
       /\ Alive(e) /\ (s = "up" => e.phase = "booting")
       /\ emulators' = {Emulator(e.device, s)}
  /\ UNCHANGED <<serving, target, active, power>>

Next ==
  \/ Take \/ Finish \/ End \/ Begin \/ BeginAgain \/ Launch
  \/ PollExited \/ PollPresent \/ Live

Spec == Init /\ [][Next]_vars
=============================================================================
