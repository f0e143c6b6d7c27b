------------------------------- MODULE Launch -------------------------------
(***************************************************************************)
(* launch_device of apps/daemon/src/main.rs from the profile to the spawn  *)
(* of the emulator, with what it calls: device_config,                     *)
(* ensure_default_device and ensure_android_images of                      *)
(* crates/config/src/lib.rs, android_emulator and configure_avd.           *)
(*                                                                         *)
(* All of it works on files that outlive the daemon: the profiles, the     *)
(* three images and the AVDs.  Every call that changes a file is a step;   *)
(* files that are rewritten are truncated first and filled later.  A call  *)
(* can fail and a daemon can be killed between any two steps; both leave   *)
(* the files as they are.  One daemon handles one launch at a time (the    *)
(* mutex of Daemon), but several daemons can be there (Instances).         *)
(*                                                                         *)
(* X_fault is X with a slip; no specification uses it.                     *)
(***************************************************************************)
EXTENDS Naturals, Sequences

CONSTANTS
  Daemons,
  Devices,          \* names of profiles
  Default,          \* the profile "default"
  Avds,
  avd_name,         \* the AVD of a device: '-' and '.' both become '_'; the API
                    \* level in the name is the same in every profile that is written
  Params,           \* what a usable profile says (CPUs, RAM, display)
  Std,              \* DeviceConfig::default()
  None,
  MaxDisturbances   \* failures, crashes and edits of profiles

ASSUME LaunchAssumption ==
  /\ Default \in Devices /\ Std \in Params
  /\ avd_name \in [Devices -> Avds]
  /\ None \notin Daemons \cup Devices \cup Avds \cup Params
  /\ "absent" \notin Params /\ "unfit" \notin Params
  /\ MaxDisturbances \in Nat

VARIABLES
  profile,   \* metadata.json: "absent", "unfit" (cut short, no JSON, or values
             \* that validate refuses), or what it says
  image,     \* kernel, ramdisk.img, system.img: "unfit" for images_are_ready,
             \* "short" (passes, but is not complete), or "whole"
  avd,       \* ~/.android/avd: "none", "bare" (a directory without config.ini)
             \* or "file"; what config.ini holds
  pc,        \* per daemon: the next call of launch_device
  job,       \* per daemon: the arguments and locals of launch_device
  emu,       \* per daemon: the configuration its emulator was spawned with
  budget,    \* disturbances left
  cut,       \* history: AVDs whose config.ini was left truncated
  overlapped \* history: two daemons have been in launch_device together

files == <<profile, image, avd>>
past == <<budget, cut, overlapped>>
vars == <<files, pc, job, emu, past>>

\* In the order in which ensure_android_images copies them.
Copies == <<"kernel", "ramdisk", "system">>
Images == {"kernel", "ramdisk", "system"}

NoJob == [device |-> None, par |-> None, copy |-> 1, keeps |-> FALSE]
NoAvd == [state |-> "none", keeps |-> FALSE, par |-> None]
\* keeps: the lines of config.ini that configure_avd does not manage are there.
\* par: the values of the managed lines.
Avd(keeps, par) == [state |-> "file", keeps |-> keeps, par |-> par]

Init ==
  /\ profile = [n \in Devices |-> "absent"]
  /\ image = [f \in Images |-> "unfit"]
  /\ avd = [a \in Avds |-> NoAvd]
  /\ pc = [d \in Daemons |-> "idle"]
  /\ job = [d \in Daemons |-> NoJob]
  /\ emu = [d \in Daemons |-> None]
  /\ budget = MaxDisturbances /\ cut = {} /\ overlapped = FALSE

Goto(d, l) == pc' = [pc EXCEPT ![d] = l]
\* launch_device returns.
Return(d) == Goto(d, "idle") /\ job' = [job EXCEPT ![d] = NoJob]
MyAvd(d) == avd_name[job[d].device]

-----------------------------------------------------------------------------
(***************************************************************************)
(* Profiles.                                                               *)
(***************************************************************************)

\* dispatch has found no emulator of its own.
Start(d, n) ==
  /\ pc[d] = "idle" /\ emu[d] = None
  /\ Goto(d, "profile")
  /\ job' = [job EXCEPT ![d] = [NoJob EXCEPT !.device = n]]
  /\ overlapped' = (overlapped \/ \E e \in Daemons \ {d} : pc[e] # "idle")
  /\ UNCHANGED <<files, emu, budget, cut>>

Usable(n) == profile[n] \in Params

\* device_config; the error of any other profile ends the launch, that of
\* "default" leads to ensure_default_device.
ReadProfile(d) ==
  /\ pc[d] \in {"profile", "default"}
  /\ LET n == job[d].device IN
     \/ /\ Usable(n)
        /\ job' = [job EXCEPT ![d].par = profile[n]]
        /\ Goto(d, "images")
     \/ /\ ~Usable(n) /\ n = Default /\ pc[d] = "profile"
        /\ Goto(d, "default") /\ UNCHANGED job
     \/ /\ profile[n] = "absent" /\ pc[d] = "default"
        /\ Goto(d, "mkprofile") /\ UNCHANGED job
     \/ /\ \/ ~Usable(n) /\ n # Default
           \/ profile[n] = "unfit" /\ pc[d] = "default"
        /\ Return(d)
  /\ UNCHANGED <<files, emu, past>>

\* create_dir_all and fs::write, which empties the file before it writes.
OpenProfile(d) ==
  /\ pc[d] = "mkprofile"
  /\ Goto(d, "wrprofile")
  /\ profile' = [profile EXCEPT ![Default] = "unfit"]
  /\ UNCHANGED <<image, avd, job, emu, past>>

WriteProfile(d) ==
  /\ pc[d] = "wrprofile"
  /\ Goto(d, "images")
  /\ profile' = [profile EXCEPT ![Default] = Std]
  /\ job' = [job EXCEPT ![d].par = Std]
  /\ UNCHANGED <<image, avd, emu, past>>

-----------------------------------------------------------------------------
(***************************************************************************)
(* ensure_android_images.                                                  *)
(***************************************************************************)

\* A kernel that is not all zeros, a ramdisk that is not empty, a system image
\* with a known header.
images_are_ready == \A f \in Images : image[f] # "unfit"

\* Files that are there, but not complete, are an error for the user to solve.
CheckImages_fault(d) ==
  /\ pc[d] = "images"
  /\ \/ images_are_ready /\ Goto(d, "tools") /\ UNCHANGED job
     \/ /\ ~images_are_ready
        /\ IF \E f \in Images : image[f] # "unfit"
             THEN Return(d) ELSE Goto(d, "install") /\ UNCHANGED job
  /\ UNCHANGED <<files, emu, past>>

CheckImages(d) ==
  /\ pc[d] = "images"
  /\ Goto(d, IF images_are_ready THEN "tools" ELSE "install")
  /\ UNCHANGED <<files, job, emu, past>>

\* Find sdkmanager, accept the licences, install the package.
Install(d) ==
  /\ pc[d] = "install"
  /\ Goto(d, "copy")
  /\ UNCHANGED <<files, job, emu, past>>

\* The images are copied in the opposite order.
CopyOf_fault(d) == Copies[4 - job[d].copy]

CopyOf(d) == Copies[job[d].copy]

\* fs::copy truncates the destination, then fills it.
CopyOpen(d) ==
  /\ pc[d] = "copy"
  /\ Goto(d, "copying")
  /\ image' = [image EXCEPT ![CopyOf(d)] = "unfit"]
  /\ UNCHANGED <<profile, avd, job, emu, past>>

\* Enough has arrived for the check.
CopyPart(d) ==
  /\ pc[d] = "copying"
  /\ image[CopyOf(d)] = "unfit"
  /\ image' = [image EXCEPT ![CopyOf(d)] = "short"]
  /\ UNCHANGED <<profile, avd, pc, job, emu, past>>

\* With another copy into the same file under way the result has holes until
\* that one is finished.
CopyEnd(d) ==
  /\ pc[d] = "copying"
  /\ image' = [image EXCEPT ![CopyOf(d)] =
       IF \E e \in Daemons \ {d} : pc[e] = "copying" /\ CopyOf(e) = CopyOf(d)
       THEN "short" ELSE "whole"]
  /\ \/ /\ job[d].copy < Len(Copies)
        /\ job' = [job EXCEPT ![d].copy = @ + 1]
        /\ Goto(d, "copy")
     \/ /\ job[d].copy = Len(Copies)
        /\ job' = [job EXCEPT ![d].copy = 1]
        /\ Goto(d, "tools")
  /\ UNCHANGED <<profile, avd, emu, past>>

-----------------------------------------------------------------------------
(***************************************************************************)
(* android_emulator and configure_avd.                                     *)
(***************************************************************************)

\* The AVD is created only when its directory is not there.
CheckAvd(d) ==
  /\ pc[d] = "tools"
  /\ Goto(d, IF avd[MyAvd(d)].state = "none" THEN "create" ELSE "cfgread")
  /\ UNCHANGED <<files, job, emu, past>>

\* avdmanager makes the directory ...
CreateDir(d) ==
  /\ pc[d] = "create"
  /\ Goto(d, "creating")
  /\ avd' = [avd EXCEPT ![MyAvd(d)].state = "bare"]
  /\ UNCHANGED <<profile, image, job, emu, past>>

\* ... and then config.ini.
CreateConfig(d) ==
  /\ pc[d] = "creating"
  /\ Goto(d, "cfgread")
  /\ avd' = [avd EXCEPT ![MyAvd(d)] = Avd(TRUE, None)]
  /\ UNCHANGED <<profile, image, job, emu, past>>

\* config.ini is opened for writing before it is read.
ReadConfig_fault(d) ==
  /\ pc[d] = "cfgread"
  /\ Goto(d, "cfgopen")
  /\ job' = [job EXCEPT ![d].keeps = FALSE]
  /\ UNCHANGED <<files, emu, past>>

\* An AVD without config.ini is an error, and stays one.
ReadConfig(d) ==
  /\ pc[d] = "cfgread"
  /\ \/ /\ avd[MyAvd(d)].state = "file"
        /\ job' = [job EXCEPT ![d].keeps = avd[MyAvd(d)].keeps]
        /\ Goto(d, "cfgopen")
     \/ avd[MyAvd(d)].state # "file" /\ Return(d)
  /\ UNCHANGED <<files, emu, past>>

OpenConfig(d) ==
  /\ pc[d] = "cfgopen"
  /\ Goto(d, "cfgwrite")
  /\ avd' = [avd EXCEPT ![MyAvd(d)] = Avd(FALSE, None)]
  /\ UNCHANGED <<profile, image, job, emu, past>>

\* The unmanaged lines as they were read, then the managed ones.
WriteConfig(d) ==
  /\ pc[d] = "cfgwrite"
  /\ Goto(d, "spawn")
  /\ avd' = [avd EXCEPT ![MyAvd(d)] = Avd(job[d].keeps, job[d].par)]
  /\ UNCHANGED <<profile, image, job, emu, past>>

\* The log file, the process, and the registration in DaemonState.
Spawn(d) ==
  /\ pc[d] = "spawn"
  /\ Return(d)
  /\ emu' = [emu EXCEPT ![d] = [avd |-> MyAvd(d), config |-> avd[MyAvd(d)],
                                par |-> job[d].par]]
  /\ UNCHANGED <<files, past>>

-----------------------------------------------------------------------------
(***************************************************************************)
(* What goes wrong.                                                        *)
(***************************************************************************)

Leaves(d) == IF pc[d] = "cfgwrite" THEN cut \cup {MyAvd(d)} ELSE cut

\* The call returns an error, which ends launch_device, or the daemon is killed;
\* its emulator is then nobody's.
Disturbed(d) ==
  /\ budget > 0 /\ budget' = budget - 1
  /\ Return(d)
  /\ cut' = Leaves(d)
  /\ UNCHANGED <<files, overlapped>>

Fail(d) == pc[d] # "idle" /\ Disturbed(d) /\ UNCHANGED emu

Crash(d) ==
  /\ pc[d] # "idle" \/ emu[d] # None
  /\ Disturbed(d)
  /\ emu' = [emu EXCEPT ![d] = None]

\* device.stop, or the emulator ends by itself.
EmulatorEnds(d) ==
  /\ pc[d] = "idle" /\ emu[d] # None
  /\ emu' = [emu EXCEPT ![d] = None]
  /\ UNCHANGED <<files, pc, job, past>>

\* "litedroid device create" and "delete", and the GUI; see Profiles.
EditProfile ==
  /\ budget > 0 /\ budget' = budget - 1
  /\ \E n \in Devices, v \in Params \cup {"absent", "unfit"} :
       profile' = [profile EXCEPT ![n] = v]
  /\ UNCHANGED <<image, avd, pc, job, emu, cut, overlapped>>

Step(d) ==
  \/ ReadProfile(d) \/ OpenProfile(d) \/ WriteProfile(d)
  \/ CheckImages(d) \/ Install(d) \/ CopyOpen(d) \/ CopyPart(d) \/ CopyEnd(d)
  \/ CheckAvd(d) \/ CreateDir(d) \/ CreateConfig(d)
  \/ ReadConfig(d) \/ OpenConfig(d) \/ WriteConfig(d) \/ Spawn(d)

Next ==
  \/ \E d \in Daemons :
       \/ Step(d) \/ Fail(d) \/ Crash(d) \/ EmulatorEnds(d)
       \/ \E n \in Devices : Start(d, n)
  \/ EditProfile

\* The tools that are called return, and somebody keeps asking for each device.
Spec ==
  /\ Init /\ [][Next]_vars
  /\ \A d \in Daemons : WF_vars(Step(d))
  /\ \A d \in Daemons, n \in Devices : SF_vars(Start(d, n))

-----------------------------------------------------------------------------
(***************************************************************************)
(* Properties.                                                             *)
(***************************************************************************)

Stages == {"idle", "profile", "default", "mkprofile", "wrprofile", "images",
           "install", "copy", "copying", "tools", "create", "creating",
           "cfgread", "cfgopen", "cfgwrite", "spawn"}
Jobs == [device : Devices \cup {None}, par : Params \cup {None}, copy : 1..3,
         keeps : BOOLEAN]
Configs == [state : {"none", "bare", "file"}, keeps : BOOLEAN,
            par : Params \cup {None}]
Emulators == [avd : Avds, par : Params \cup {None}, config : Configs]

TypeOK ==
  /\ profile \in [Devices -> Params \cup {"absent", "unfit"}]
  /\ image \in [Images -> {"unfit", "short", "whole"}]
  /\ avd \in [Avds -> Configs]
  /\ pc \in [Daemons -> Stages]
  /\ job \in [Daemons -> Jobs]
  /\ emu \in [Daemons -> {None} \cup Emulators]
  /\ budget \in 0..MaxDisturbances /\ cut \subseteq Avds
  /\ overlapped \in BOOLEAN

\* Whatever copy was interrupted, images that images_are_ready accepts have a
\* complete kernel and a complete ramdisk: the system image is the last to be
\* written, so only it can be short.  Two daemons that install at the same
\* time can break this.
OnlySystemShort ==
  ~overlapped /\ images_are_ready
    => image["kernel"] = "whole" /\ image["ramdisk"] = "whole"

\* An emulator is spawned on an AVD that has all the lines avdmanager wrote and
\* the values of the profile launch_device has read, although devices may share
\* an AVD and launches are broken off anywhere: except where config.ini was left
\* truncated, and where two daemons configure at the same time.
SpawnedAsConfigured ==
  \A d \in Daemons :
    emu[d] # None /\ ~overlapped /\ emu[d].avd \notin cut
      => emu[d].config = Avd(TRUE, emu[d].par)

\* Nothing repairs these: a profile "default" that cannot be used, and an AVD
\* directory without config.ini.
Stuck == profile[Default] = "unfit" \/ avd[avd_name[Default]].state = "bare"

\* A launch that was broken off does not stand in the way of the next one:
\* requests that are repeated bring up an emulator in the end, unless one of the
\* two states above has been reached.
RetryRecovers ==
  \A d \in Daemons : (pc[d] = "idle" /\ emu[d] = None) ~> (emu[d] # None \/ Stuck)
=============================================================================
