----------------------------- MODULE LaunchProof ----------------------------
(***************************************************************************)
(* TypeOK, OnlySystemShort and SpawnedAsConfigured of Launch, for any      *)
(* number of daemons, profiles and AVDs, any sharing of AVDs between       *)
(* profiles and any number of disturbances.                                *)
(*                                                                         *)
(* Both properties speak of the time before two daemons have overlapped.   *)
(* Until then at most one daemon is inside launch_device (Alone), so what  *)
(* it has found or done there is still so at its next step: which images   *)
(* it has copied (InstallInv), and what config.ini held when it was read   *)
(* (ConfigInv).                                                            *)
(***************************************************************************)
EXTENDS Launch, TLAPS

\* What launch_device has looked up is there for its later calls.
Prepared ==
  \A d \in Daemons :
    /\ pc[d] # "idle" => job[d].device \in Devices
    /\ pc[d] \notin {"idle", "profile", "default", "mkprofile", "wrprofile"}
         => job[d].par \in Params
    /\ pc[d] \in {"default", "mkprofile", "wrprofile"} => job[d].device = Default

\* One daemon at most is in launch_device.
Alone ==
  ~overlapped =>
    \A d, e \in Daemons : pc[d] # "idle" /\ pc[e] # "idle" => d = e

\* The system image is the last to be copied: it is unfit from the beginning of
\* an installation until its own copy, and the images before it are complete
\* from then on.
InstallInv ==
  ~overlapped =>
    /\ image["system"] # "unfit" => image["kernel"] = "whole" /\ image["ramdisk"] = "whole"
    /\ \A d \in Daemons :
         /\ pc[d] \in {"install", "copy"} => image["system"] = "unfit"
         /\ pc[d] = "copying" /\ job[d].copy < 3 => image["system"] = "unfit"
         /\ pc[d] \in {"copy", "copying"} =>
              /\ job[d].copy > 1 => image["kernel"] = "whole"
              /\ job[d].copy > 2 => image["ramdisk"] = "whole"
         /\ pc[d] \notin {"copy", "copying"} => job[d].copy = 1

\* Unless it was left truncated, config.ini has its unmanaged lines whenever
\* nobody is between truncation and write, and whoever is there holds them.
ConfigInv ==
  ~overlapped =>
    /\ \A a \in Avds \ cut :
         avd[a].state = "file" /\ (\A d \in Daemons : pc[d] = "cfgwrite" => MyAvd(d) # a)
           => avd[a].keeps
    /\ \A d \in Daemons :
         /\ pc[d] \in {"cfgopen", "cfgwrite"} /\ MyAvd(d) \notin cut => job[d].keeps
         /\ pc[d] = "spawn" /\ MyAvd(d) \notin cut
              => avd[MyAvd(d)] = Avd(TRUE, job[d].par)

LaunchInv == TypeOK /\ Prepared /\ Alone /\ InstallInv /\ ConfigInv /\ SpawnedAsConfigured

-----------------------------------------------------------------------------
\* Changes of one field of a job keep its type and the other fields.
LEMMA JobFields ==
  /\ NoJob \in Jobs /\ NoJob.copy = 1
  /\ \A n \in Devices : /\ [NoJob EXCEPT !.device = n] \in Jobs
                        /\ [NoJob EXCEPT !.device = n].device = n
                        /\ [NoJob EXCEPT !.device = n].copy = 1
  /\ \A j \in Jobs, p \in Params :
       LET k == [j EXCEPT !.par = p]
       IN k \in Jobs /\ k.device = j.device /\ k.par = p /\ k.copy = j.copy /\ k.keeps = j.keeps
  /\ \A j \in Jobs, c \in 1..3 :
       LET k == [j EXCEPT !.copy = c]
       IN k \in Jobs /\ k.device = j.device /\ k.par = j.par /\ k.copy = c /\ k.keeps = j.keeps
  /\ \A j \in Jobs, b \in BOOLEAN :
       LET k == [j EXCEPT !.keeps = b]
       IN k \in Jobs /\ k.device = j.device /\ k.par = j.par /\ k.copy = j.copy /\ k.keeps = b
<1>1. NoJob \in Jobs /\ NoJob.copy = 1
  BY DEF Jobs, NoJob
<1>2. ASSUME NEW n \in Devices
      PROVE  /\ [NoJob EXCEPT !.device = n] \in Jobs
             /\ [NoJob EXCEPT !.device = n].device = n
             /\ [NoJob EXCEPT !.device = n].copy = 1
  BY <1>1 DEF Jobs, NoJob
<1>3. ASSUME NEW j \in Jobs, NEW p \in Params
      PROVE  LET k == [j EXCEPT !.par = p]
             IN k \in Jobs /\ k.device = j.device /\ k.par = p /\ k.copy = j.copy /\ k.keeps = j.keeps
  BY DEF Jobs
<1>4. ASSUME NEW j \in Jobs, NEW c \in 1..3
      PROVE  LET k == [j EXCEPT !.copy = c]
             IN k \in Jobs /\ k.device = j.device /\ k.par = j.par /\ k.copy = c /\ k.keeps = j.keeps
  BY DEF Jobs
<1>5. ASSUME NEW j \in Jobs, NEW b \in BOOLEAN
      PROVE  LET k == [j EXCEPT !.keeps = b]
             IN k \in Jobs /\ k.device = j.device /\ k.par = j.par /\ k.copy = j.copy /\ k.keeps = b
  BY DEF Jobs
<1> QED BY <1>1, <1>2, <1>3, <1>4, <1>5

\* The three images are counted from 1 to 3.
LEMMA CopyCounter ==
  ASSUME TypeOK, NEW d \in Daemons
  PROVE  /\ job[d].copy \in 1..3 /\ Len(Copies) = 3
         /\ job[d].copy < 3 => job[d].copy + 1 \in 1..3
BY DEF TypeOK, Jobs, Copies

\* A step of launch_device changes nothing of the other daemons.
LEMMA OthersStay ==
  ASSUME TypeOK, NEW d \in Daemons, Step(d)
  PROVE  /\ pc[d] # "idle"
         /\ overlapped' = overlapped /\ cut' = cut /\ budget' = budget
         /\ \A e \in Daemons \ {d} : pc'[e] = pc[e] /\ job'[e] = job[e] /\ emu'[e] = emu[e]
BY DEF TypeOK, Goto, Return, files, past, Step, ReadProfile, OpenProfile, WriteProfile,
       CheckImages, Install, CopyOpen, CopyPart, CopyEnd, CheckAvd, CreateDir,
       CreateConfig, ReadConfig, OpenConfig, WriteConfig, Spawn

\* Every step keeps the types.
LEMMA StepTypes == TypeOK /\ Prepared /\ [Next]_vars => TypeOK'
<1> SUFFICES ASSUME TypeOK, Prepared, [Next]_vars PROVE TypeOK'
  OBVIOUS
<1> USE DEF TypeOK, Goto, Return, files, past
<1>1. ASSUME NEW d \in Daemons, NEW n \in Devices, Start(d, n) PROVE TypeOK'
  BY <1>1, JobFields DEF Start, Stages
<1>2. ASSUME NEW d \in Daemons, ReadProfile(d) PROVE TypeOK'
  BY <1>2, JobFields, LaunchAssumption DEF ReadProfile, Usable, Stages
<1>3. ASSUME NEW d \in Daemons, OpenProfile(d) PROVE TypeOK'
  BY <1>3, LaunchAssumption DEF OpenProfile, Stages
<1>4. ASSUME NEW d \in Daemons, WriteProfile(d) PROVE TypeOK'
  <2>1. [job[d] EXCEPT !.par = Std] \in Jobs
    BY JobFields, LaunchAssumption
  <2>2. job' \in [Daemons -> Jobs]
    BY <1>4, <2>1 DEF WriteProfile
  <2> QED BY <1>4, <2>2, LaunchAssumption DEF WriteProfile, Stages
<1>5. ASSUME NEW d \in Daemons, CheckImages(d) \/ Install(d) PROVE TypeOK'
  BY <1>5 DEF CheckImages, Install, Stages
<1>6. ASSUME NEW d \in Daemons, CopyOpen(d) \/ CopyPart(d) PROVE TypeOK'
  BY <1>6 DEF CopyOpen, CopyPart, Stages
<1>7. ASSUME NEW d \in Daemons, CopyEnd(d) PROVE TypeOK'
  <2>1. PICK c \in 1..3 : job' = [job EXCEPT ![d].copy = c]
    BY <1>7, CopyCounter DEF CopyEnd, Copies
  <2>2. [job[d] EXCEPT !.copy = c] \in Jobs
    BY JobFields
  <2>3. job' \in [Daemons -> Jobs]
    BY <2>1, <2>2
  <2> QED BY <1>7, <2>3 DEF CopyEnd, Stages
<1>8. ASSUME NEW d \in Daemons, CheckAvd(d) PROVE TypeOK'
  BY <1>8 DEF CheckAvd, Stages
<1>9. ASSUME NEW d \in Daemons, CreateDir(d) PROVE TypeOK'
  <2>1. \A c \in Configs : [c EXCEPT !.state = "bare"] \in Configs
    BY DEF Configs
  <2>2. avd' \in [Avds -> Configs]
    BY <1>9, <2>1 DEF CreateDir
  <2> QED BY <1>9, <2>2 DEF CreateDir, Stages
<1>10. ASSUME NEW d \in Daemons, CreateConfig(d) \/ OpenConfig(d) \/ WriteConfig(d)
       PROVE  TypeOK'
  <2>1. /\ Avd(TRUE, None) \in Configs /\ Avd(FALSE, None) \in Configs
        /\ Avd(job[d].keeps, job[d].par) \in Configs
    BY DEF Avd, Configs, Jobs
  <2>2. avd' \in [Avds -> Configs]
    BY <1>10, <2>1 DEF CreateConfig, OpenConfig, WriteConfig
  <2> QED BY <1>10, <2>2 DEF CreateConfig, OpenConfig, WriteConfig, Stages
<1>11. ASSUME NEW d \in Daemons, ReadConfig(d) PROVE TypeOK'
  <2>1. avd[MyAvd(d)].keeps \in BOOLEAN
    BY <1>11, LaunchAssumption DEF ReadConfig, MyAvd, Configs, Prepared
  <2> QED BY <1>11, <2>1, JobFields DEF ReadConfig, Stages
<1>12. ASSUME NEW d \in Daemons, Spawn(d) PROVE TypeOK'
  <2>1. MyAvd(d) \in Avds
    BY <1>12, LaunchAssumption DEF Spawn, MyAvd, Prepared
  <2>2. [avd |-> MyAvd(d), config |-> avd[MyAvd(d)], par |-> job[d].par] \in Emulators
    BY <2>1 DEF Emulators, Jobs
  <2> QED BY <1>12, <2>2, JobFields DEF Spawn, Stages
<1>13. ASSUME NEW d \in Daemons, Fail(d) \/ Crash(d) PROVE TypeOK'
  <2>1. budget' \in 0..MaxDisturbances
    BY <1>13, LaunchAssumption DEF Fail, Crash, Disturbed
  <2>2. cut' \subseteq Avds
    BY <1>13, LaunchAssumption DEF Fail, Crash, Disturbed, Leaves, MyAvd, Prepared
  <2> QED BY <1>13, <2>1, <2>2, JobFields DEF Fail, Crash, Disturbed, Stages
<1>14. CASE EditProfile \/ (\E d \in Daemons : EmulatorEnds(d)) \/ UNCHANGED vars
  BY <1>14, LaunchAssumption DEF EditProfile, EmulatorEnds, vars
<1> QED BY <1>1, <1>2, <1>3, <1>4, <1>5, <1>6, <1>7, <1>8, <1>9, <1>10, <1>11, <1>12,
           <1>13, <1>14 DEF Next, Step

\* Every step keeps what launch_device has looked up.
LEMMA StepPrepared == TypeOK /\ Prepared /\ [Next]_vars => Prepared'
<1> SUFFICES ASSUME TypeOK, Prepared, [Next]_vars PROVE Prepared'
  OBVIOUS
<1> USE DEF TypeOK, Prepared, Goto, Return, files, past
<1>1. ASSUME NEW d \in Daemons, NEW n \in Devices, Start(d, n) PROVE Prepared'
  BY <1>1, JobFields DEF Start
<1>2. ASSUME NEW d \in Daemons, Step(d) PROVE Prepared'
  <2>1. \A e \in Daemons \ {d} : pc'[e] = pc[e] /\ job'[e] = job[e]
    BY <1>2, OthersStay
  <2>2. SUFFICES /\ pc'[d] # "idle" => job'[d].device \in Devices
                 /\ pc'[d] \notin {"idle", "profile", "default", "mkprofile", "wrprofile"}
                      => job'[d].par \in Params
                 /\ pc'[d] \in {"default", "mkprofile", "wrprofile"} => job'[d].device = Default
    BY <2>1
  <2>3. CASE ReadProfile(d)
    <3>1. CASE Usable(job[d].device) /\ job' = [job EXCEPT ![d].par = profile[job[d].device]]
      <4>1. job'[d] = [job[d] EXCEPT !.par = profile[job[d].device]]
        BY <3>1
      <4>2. job'[d].device = job[d].device /\ job'[d].par = profile[job[d].device]
        BY <3>1, <4>1, JobFields DEF Usable
      <4> QED BY <2>3, <3>1, <4>2, LaunchAssumption DEF ReadProfile, Usable
    <3>2. CASE pc'[d] = "idle"
      BY <3>2
    <3>3. CASE ~Usable(job[d].device) /\ job' = job
      BY <2>3, <3>3, LaunchAssumption DEF ReadProfile, Usable
    <3> QED BY <2>3, <3>1, <3>2, <3>3, LaunchAssumption DEF ReadProfile, Usable
  <2>4. CASE WriteProfile(d)
    <3>1. job'[d] = [job[d] EXCEPT !.par = Std]
      BY <2>4 DEF WriteProfile
    <3>2. job'[d].device = job[d].device /\ job'[d].par = Std
      BY <3>1, JobFields, LaunchAssumption
    <3> QED BY <2>4, <3>2, LaunchAssumption DEF WriteProfile
  <2>5. CASE OpenProfile(d) \/ CheckImages(d) \/ Install(d) \/ CopyOpen(d) \/ CopyPart(d)
    BY <2>5 DEF OpenProfile, CheckImages, Install, CopyOpen, CopyPart
  <2>6. CASE CopyEnd(d)
    <3>1. PICK c \in 1..3 : job' = [job EXCEPT ![d].copy = c]
      BY <2>6, CopyCounter DEF CopyEnd, Copies
    <3>2. job'[d].device = job[d].device /\ job'[d].par = job[d].par
      BY <3>1, JobFields
    <3> QED BY <2>6, <3>2 DEF CopyEnd
  <2>7. CASE CheckAvd(d) \/ CreateDir(d) \/ CreateConfig(d) \/ OpenConfig(d) \/ WriteConfig(d)
    BY <2>7 DEF CheckAvd, CreateDir, CreateConfig, OpenConfig, WriteConfig
  <2>8. CASE ReadConfig(d)
    <3>1. CASE pc'[d] = "idle"
      BY <3>1
    <3>2. CASE pc'[d] # "idle"
      <4>1. avd[MyAvd(d)].keeps \in BOOLEAN
        BY <2>8, LaunchAssumption DEF ReadConfig, MyAvd, Configs
      <4>2. job'[d] = [job[d] EXCEPT !.keeps = avd[MyAvd(d)].keeps]
        BY <2>8, <3>2 DEF ReadConfig
      <4>3. job'[d].device = job[d].device /\ job'[d].par = job[d].par
        BY <4>1, <4>2, JobFields
      <4> QED BY <2>8, <4>3 DEF ReadConfig
    <3> QED BY <3>1, <3>2
  <2>9. CASE Spawn(d)
    BY <2>9 DEF Spawn
  <2> QED BY <1>2, <2>3, <2>4, <2>5, <2>6, <2>7, <2>8, <2>9 DEF Step
<1>3. ASSUME NEW d \in Daemons, Fail(d) \/ Crash(d) PROVE Prepared'
  BY <1>3 DEF Fail, Crash, Disturbed
<1>4. CASE EditProfile \/ (\E d \in Daemons : EmulatorEnds(d)) \/ UNCHANGED vars
  BY <1>4 DEF EditProfile, EmulatorEnds, vars
<1> QED BY <1>1, <1>2, <1>3, <1>4 DEF Next

\* A launch begins alone or is recorded as an overlap; every other step leaves
\* no more daemons in launch_device than there were.
LEMMA StepAlone == TypeOK /\ Alone /\ [Next]_vars => Alone'
<1> SUFFICES ASSUME TypeOK, Alone, [Next]_vars PROVE Alone'
  OBVIOUS
<1> USE DEF TypeOK, Alone, Goto, Return, files, past
<1>1. ASSUME NEW d \in Daemons, NEW n \in Devices, Start(d, n) PROVE Alone'
  BY <1>1 DEF Start
<1>2. ASSUME NEW d \in Daemons, Step(d) PROVE Alone'
  BY <1>2, OthersStay
<1>3. ASSUME NEW d \in Daemons, Fail(d) \/ Crash(d) PROVE Alone'
  BY <1>3 DEF Fail, Crash, Disturbed
<1>4. CASE EditProfile \/ (\E d \in Daemons : EmulatorEnds(d)) \/ UNCHANGED vars
  BY <1>4 DEF EditProfile, EmulatorEnds, vars
<1> QED BY <1>1, <1>2, <1>3, <1>4 DEF Next

-----------------------------------------------------------------------------
\* Before an overlap the other daemons are idle while one is in launch_device,
\* and stay so.
LEMMA OthersIdle ==
  ASSUME TypeOK, Alone, ~overlapped, NEW d \in Daemons, Step(d)
  PROVE  \A e \in Daemons \ {d} : pc[e] = "idle" /\ pc'[e] = "idle" /\ job'[e] = job[e]
BY OthersStay DEF Alone

\* Only the end of a copy moves the counter of images.
LEMMA CounterStays ==
  ASSUME TypeOK, Prepared, NEW d \in Daemons, Step(d), ~CopyEnd(d)
  PROVE  job'[d].copy = job[d].copy \/ (pc'[d] = "idle" /\ job'[d].copy = 1)
<1> USE DEF TypeOK, Goto, Return
<1>1. CASE ReadProfile(d)
  <2>1. CASE Usable(job[d].device) /\ job' = [job EXCEPT ![d].par = profile[job[d].device]]
    <3>1. job'[d] = [job[d] EXCEPT !.par = profile[job[d].device]]
      BY <2>1
    <3> QED BY <2>1, <3>1, JobFields DEF Usable
  <2>2. CASE pc'[d] = "idle" /\ job' = [job EXCEPT ![d] = NoJob]
    BY <2>2, JobFields
  <2>3. CASE job' = job
    BY <2>3
  <2> QED BY <1>1, <2>1, <2>2, <2>3 DEF ReadProfile
<1>2. CASE WriteProfile(d)
  <2>1. job'[d] = [job[d] EXCEPT !.par = Std]
    BY <1>2 DEF WriteProfile
  <2> QED BY <2>1, JobFields, LaunchAssumption
<1>3. CASE ReadConfig(d)
  <2>1. CASE pc'[d] = "idle" /\ job' = [job EXCEPT ![d] = NoJob]
    BY <2>1, JobFields
  <2>2. CASE job' = [job EXCEPT ![d].keeps = avd[MyAvd(d)].keeps]
    <3>1. avd[MyAvd(d)].keeps \in BOOLEAN
      BY <1>3, LaunchAssumption DEF ReadConfig, MyAvd, Configs, Prepared
    <3>2. job'[d] = [job[d] EXCEPT !.keeps = avd[MyAvd(d)].keeps]
      BY <2>2
    <3> QED BY <3>1, <3>2, JobFields
  <2> QED BY <1>3, <2>1, <2>2 DEF ReadConfig
<1>4. CASE Spawn(d)
  BY <1>4, JobFields DEF Spawn
<1> QED BY <1>1, <1>2, <1>3, <1>4
        DEF Step, OpenProfile, CheckImages, Install, CopyOpen, CopyPart, CheckAvd,
            CreateDir, CreateConfig, OpenConfig, WriteConfig

\* Every step keeps the order of the images.
LEMMA StepInstall ==
  TypeOK /\ Prepared /\ Alone /\ InstallInv /\ [Next]_vars => InstallInv'
<1> SUFFICES ASSUME TypeOK, Prepared, Alone, InstallInv, [Next]_vars, ~overlapped'
             PROVE  InstallInv'
  BY DEF InstallInv
<1>1. ASSUME NEW d \in Daemons, NEW n \in Devices, Start(d, n) PROVE InstallInv'
  BY <1>1, JobFields DEF Start, InstallInv, TypeOK, Goto, files
<1>2. ASSUME NEW d \in Daemons, Step(d) PROVE InstallInv'
  <2>1. ~overlapped /\ pc[d] # "idle"
    BY <1>2, OthersStay
  <2>2. \A e \in Daemons \ {d} : pc'[e] = "idle" /\ job'[e].copy = 1
    BY <1>2, <2>1, OthersIdle DEF InstallInv
  <2> USE DEF InstallInv, TypeOK, Goto, Return
  <2>3. CASE CheckImages(d)
    <3>1. pc'[d] = "install" => image["system"] = "unfit"
      BY <2>1, <2>3 DEF CheckImages, images_are_ready, Images
    <3> QED BY <2>1, <2>2, <2>3, <3>1 DEF CheckImages, files
  <2>4. CASE Install(d)
    BY <2>1, <2>2, <2>4 DEF Install, files
  <2>5. CASE CopyOpen(d)
    <3>1. job[d].copy \in 1..3
      BY CopyCounter
    <3>2. CopyOf(d) = IF job[d].copy = 1 THEN "kernel"
                      ELSE IF job[d].copy = 2 THEN "ramdisk" ELSE "system"
      BY <3>1 DEF CopyOf, Copies
    <3> QED BY <2>1, <2>2, <2>5, <3>1, <3>2 DEF CopyOpen, Images
  <2>6. CASE CopyPart(d)
    <3>1. job[d].copy \in 1..3
      BY CopyCounter
    <3>2. CopyOf(d) = IF job[d].copy = 1 THEN "kernel"
                      ELSE IF job[d].copy = 2 THEN "ramdisk" ELSE "system"
      BY <3>1 DEF CopyOf, Copies
    <3> QED BY <2>1, <2>2, <2>6, <3>1, <3>2 DEF CopyPart, Images
  <2>7. CASE CopyEnd(d)
    <3>1. job[d].copy \in 1..3 /\ Len(Copies) = 3
      BY CopyCounter
    <3>2. CopyOf(d) = IF job[d].copy = 1 THEN "kernel"
                      ELSE IF job[d].copy = 2 THEN "ramdisk" ELSE "system"
      BY <3>1 DEF CopyOf, Copies
    <3>3. image' = [image EXCEPT ![CopyOf(d)] = "whole"]
      BY <2>1, <2>7, <1>2, OthersIdle DEF CopyEnd
    <3>4. CASE job[d].copy < 3
      <4>1. job'[d] = [job[d] EXCEPT !.copy = job[d].copy + 1] /\ pc'[d] = "copy"
        BY <2>7, <3>1, <3>4 DEF CopyEnd
      <4>2. job'[d].copy = job[d].copy + 1
        BY <3>1, <3>4, <4>1, CopyCounter, JobFields
      <4>3. image'["system"] = "unfit"
        BY <2>1, <2>7, <3>1, <3>2, <3>3, <3>4 DEF CopyEnd, Images
      <4>4. /\ image'["kernel"] = "whole"
            /\ job[d].copy = 2 => image'["ramdisk"] = "whole"
        BY <2>1, <2>7, <3>1, <3>2, <3>3, <3>4 DEF CopyEnd, Images
      <4> HIDE DEF TypeOK
      <4>5. CASE job[d].copy = 1
        <5>1. job'[d].copy = 2 /\ ~(job'[d].copy > 2)
          BY <4>2, <4>5
        <5> QED BY <2>2, <4>1, <4>3, <4>4, <5>1
      <4>6. CASE job[d].copy = 2
        BY <2>2, <4>1, <4>2, <4>3, <4>4, <4>6
      <4> QED BY <3>1, <3>4, <4>5, <4>6
    <3>5. CASE job[d].copy = 3
      <4>1. job'[d] = [job[d] EXCEPT !.copy = 1] /\ pc'[d] = "tools"
        BY <2>7, <3>1, <3>5 DEF CopyEnd
      <4>2. job'[d].copy = 1
        BY <4>1, JobFields
      <4>3. image'["kernel"] = "whole" /\ image'["ramdisk"] = "whole"
        BY <2>1, <2>7, <3>2, <3>3, <3>5 DEF CopyEnd, Images
      <4> HIDE DEF TypeOK
      <4> QED BY <2>2, <4>1, <4>2, <4>3
    <3> QED BY <3>1, <3>4, <3>5
  <2>8. CASE /\ image' = image
             /\ pc[d] \notin {"copy", "copying"}
             /\ pc'[d] \notin {"install", "copy", "copying"} /\ ~CopyEnd(d)
    <3>1. job'[d].copy = 1
      BY <1>2, <2>1, <2>8, CounterStays
    <3> QED BY <2>1, <2>2, <2>8, <3>1
  <2> QED BY <1>2, <2>3, <2>4, <2>5, <2>6, <2>7, <2>8
          DEF Step, ReadProfile, OpenProfile, WriteProfile, CheckAvd, CreateDir, CreateConfig,
              ReadConfig, OpenConfig, WriteConfig, Spawn, CopyEnd, files
<1>3. ASSUME NEW d \in Daemons, Fail(d) \/ Crash(d) PROVE InstallInv'
  BY <1>3, JobFields DEF Fail, Crash, Disturbed, Return, Goto, InstallInv, TypeOK, files
<1>4. CASE EditProfile \/ (\E d \in Daemons : EmulatorEnds(d)) \/ UNCHANGED vars
  BY <1>4 DEF EditProfile, EmulatorEnds, vars, files, past, InstallInv
<1> QED BY <1>1, <1>2, <1>3, <1>4 DEF Next

-----------------------------------------------------------------------------
\* A launch stays with its device to the end.
LEMMA DeviceStays ==
  ASSUME TypeOK, Prepared, NEW d \in Daemons, Step(d)
  PROVE  pc'[d] = "idle" \/ job'[d].device = job[d].device
<1> USE DEF TypeOK, Goto, Return
<1>1. CASE ReadProfile(d)
  <2>1. CASE Usable(job[d].device) /\ job' = [job EXCEPT ![d].par = profile[job[d].device]]
    <3>1. job'[d] = [job[d] EXCEPT !.par = profile[job[d].device]]
      BY <2>1
    <3> QED BY <2>1, <3>1, JobFields DEF Usable
  <2>2. CASE pc'[d] = "idle" \/ job' = job
    BY <2>2
  <2> QED BY <1>1, <2>1, <2>2 DEF ReadProfile
<1>2. CASE WriteProfile(d)
  <2>1. job'[d] = [job[d] EXCEPT !.par = Std]
    BY <1>2 DEF WriteProfile
  <2> QED BY <2>1, JobFields, LaunchAssumption
<1>3. CASE CopyEnd(d)
  <2>1. PICK c \in 1..3 : job' = [job EXCEPT ![d].copy = c]
    BY <1>3, CopyCounter DEF CopyEnd, Copies
  <2> QED BY <2>1, JobFields
<1>4. CASE ReadConfig(d)
  <2>1. CASE pc'[d] = "idle"
    BY <2>1
  <2>2. CASE job' = [job EXCEPT ![d].keeps = avd[MyAvd(d)].keeps]
    <3>1. avd[MyAvd(d)].keeps \in BOOLEAN
      BY <1>4, LaunchAssumption DEF ReadConfig, MyAvd, Configs, Prepared
    <3>2. job'[d] = [job[d] EXCEPT !.keeps = avd[MyAvd(d)].keeps]
      BY <2>2
    <3> QED BY <3>1, <3>2, JobFields
  <2> QED BY <1>4, <2>1, <2>2 DEF ReadConfig
<1> QED BY <1>1, <1>2, <1>3, <1>4
        DEF Step, OpenProfile, CheckImages, Install, CopyOpen, CopyPart, CheckAvd,
            CreateDir, CreateConfig, OpenConfig, WriteConfig, Spawn

\* Every step keeps what is known about config.ini.
LEMMA StepConfig ==
  TypeOK /\ Prepared /\ Alone /\ ConfigInv /\ [Next]_vars => ConfigInv'
<1> SUFFICES ASSUME TypeOK, Prepared, Alone, ConfigInv, [Next]_vars, ~overlapped'
             PROVE  ConfigInv'
  BY DEF ConfigInv
<1>1. ASSUME NEW d \in Daemons, NEW n \in Devices, Start(d, n) PROVE ConfigInv'
  BY <1>1 DEF Start, ConfigInv, TypeOK, Goto, MyAvd, files
<1>2. ASSUME NEW d \in Daemons, Step(d) PROVE ConfigInv'
  <2>1. ~overlapped /\ pc[d] # "idle" /\ cut' = cut
    BY <1>2, OthersStay
  <2>2. \A e \in Daemons \ {d} : pc[e] = "idle" /\ pc'[e] = "idle"
    BY <1>2, <2>1, OthersIdle
  <2>3. pc'[d] = "idle" \/ MyAvd(d)' = MyAvd(d)
    BY <1>2, DeviceStays DEF MyAvd
  <2>4. MyAvd(d) \in Avds
    BY <2>1, LaunchAssumption DEF Prepared, MyAvd
  <2>5. ASSUME NEW a \in Avds \ cut, pc[d] = "cfgwrite" => MyAvd(d) # a, avd[a].state = "file"
        PROVE  avd[a].keeps
    BY <2>1, <2>2, <2>5 DEF ConfigInv
  <2>6. SUFFICES
          /\ \A a \in Avds \ cut :
               avd'[a].state = "file" /\ (pc'[d] = "cfgwrite" => MyAvd(d)' # a)
                 => avd'[a].keeps
          /\ pc'[d] \in {"cfgopen", "cfgwrite"} /\ MyAvd(d)' \notin cut => job'[d].keeps
          /\ pc'[d] = "spawn" /\ MyAvd(d)' \notin cut
               => avd'[MyAvd(d)'] = Avd(TRUE, job'[d].par)
    BY <2>1, <2>2 DEF ConfigInv
  <2> USE DEF TypeOK, Goto, Return
  <2>7. CASE /\ avd' = avd /\ pc[d] # "cfgwrite"
             /\ pc'[d] \notin {"cfgopen", "cfgwrite", "spawn"}
    BY <2>5, <2>7
  <2>8. CASE CreateDir(d)
    <3>1. \A a \in Avds : avd'[a] = avd[a] \/ avd'[a].state = "bare"
      BY <2>8 DEF CreateDir, Configs
    <3> QED BY <2>5, <2>8, <3>1 DEF CreateDir
  <2>9. CASE CreateConfig(d)
    <3>1. avd' = [avd EXCEPT ![MyAvd(d)] = Avd(TRUE, None)] /\ pc'[d] = "cfgread"
      BY <2>9 DEF CreateConfig
    <3>2. Avd(TRUE, None).keeps
      BY DEF Avd
    <3> QED BY <2>4, <2>5, <2>9, <3>1, <3>2 DEF CreateConfig
  <2>10. CASE ReadConfig(d) /\ pc'[d] # "idle"
    <3>1. /\ avd' = avd /\ pc[d] = "cfgread" /\ pc'[d] = "cfgopen"
          /\ avd[MyAvd(d)].state = "file"
          /\ job'[d] = [job[d] EXCEPT !.keeps = avd[MyAvd(d)].keeps]
      BY <2>10 DEF ReadConfig, files
    <3>2. avd[MyAvd(d)].keeps \in BOOLEAN
      BY <2>4 DEF Configs
    <3>3. job'[d].keeps = avd[MyAvd(d)].keeps
      BY <3>1, <3>2, JobFields
    <3> QED BY <2>3, <2>4, <2>5, <3>1, <3>3
  <2>11. CASE OpenConfig(d)
    <3>1. /\ avd' = [avd EXCEPT ![MyAvd(d)] = Avd(FALSE, None)]
          /\ pc[d] = "cfgopen" /\ pc'[d] = "cfgwrite" /\ job' = job
      BY <2>11 DEF OpenConfig
    <3> QED BY <2>1, <2>3, <2>4, <2>5, <3>1 DEF ConfigInv
  <2>12. CASE WriteConfig(d)
    <3>1. /\ avd' = [avd EXCEPT ![MyAvd(d)] = Avd(job[d].keeps, job[d].par)]
          /\ pc[d] = "cfgwrite" /\ pc'[d] = "spawn" /\ job' = job
      BY <2>12 DEF WriteConfig
    <3>2. MyAvd(d) \notin cut => job[d].keeps = TRUE
      BY <2>1, <3>1 DEF ConfigInv, Jobs
    <3>3. avd'[MyAvd(d)].keeps = job[d].keeps
      BY <2>4, <3>1 DEF Avd
    <3>4. \A a \in Avds \ {MyAvd(d)} : avd'[a] = avd[a]
      BY <3>1
    <3>5. MyAvd(d) \notin cut => avd'[MyAvd(d)] = Avd(TRUE, job'[d].par)
      BY <2>4, <3>1, <3>2
    <3> QED BY <2>3, <2>4, <2>5, <3>1, <3>2, <3>3, <3>4, <3>5
  <2> QED BY <1>2, <2>7, <2>8, <2>9, <2>10, <2>11, <2>12
          DEF Step, ReadProfile, OpenProfile, WriteProfile, CheckImages, Install, CopyOpen,
              CopyPart, CopyEnd, CheckAvd, ReadConfig, Spawn, files
<1>3. ASSUME NEW d \in Daemons, Fail(d) \/ Crash(d) PROVE ConfigInv'
  <2>1. /\ pc' = [pc EXCEPT ![d] = "idle"] /\ avd' = avd
        /\ cut' = Leaves(d) /\ overlapped' = overlapped
        /\ \A e \in Daemons \ {d} : job'[e] = job[e]
    BY <1>3 DEF Fail, Crash, Disturbed, Return, Goto, files, TypeOK
  <2>2. /\ pc'[d] = "idle"
        /\ \A e \in Daemons \ {d} : pc'[e] = pc[e] /\ MyAvd(e)' = MyAvd(e)
    BY <2>1 DEF TypeOK, MyAvd
  <2>3. cut \subseteq cut' /\ (pc[d] = "cfgwrite" => MyAvd(d) \in cut')
    BY <2>1 DEF Leaves
  <2>4. ASSUME NEW a \in Avds \ cut', avd[a].state = "file",
               \A e \in Daemons : pc'[e] = "cfgwrite" => MyAvd(e)' # a
        PROVE  avd[a].keeps
    <3>1. \A e \in Daemons : pc[e] = "cfgwrite" => MyAvd(e) # a
      BY <2>2, <2>3, <2>4
    <3> QED BY <2>1, <2>3, <2>4, <3>1 DEF ConfigInv
  <2>5. ASSUME NEW e \in Daemons \ {d}
        PROVE  /\ pc'[e] \in {"cfgopen", "cfgwrite"} /\ MyAvd(e)' \notin cut' => job'[e].keeps
               /\ pc'[e] = "spawn" /\ MyAvd(e)' \notin cut'
                    => avd'[MyAvd(e)'] = Avd(TRUE, job'[e].par)
    BY <2>1, <2>2, <2>3 DEF ConfigInv
  <2> QED BY <2>1, <2>2, <2>4, <2>5 DEF ConfigInv
<1>4. CASE EditProfile \/ (\E d \in Daemons : EmulatorEnds(d)) \/ UNCHANGED vars
  BY <1>4 DEF EditProfile, EmulatorEnds, vars, files, past, ConfigInv, MyAvd
<1> QED BY <1>1, <1>2, <1>3, <1>4 DEF Next

\* Every step keeps what is known about the emulators.
LEMMA StepSpawned ==
  TypeOK /\ Prepared /\ ConfigInv /\ SpawnedAsConfigured /\ [Next]_vars
    => SpawnedAsConfigured'
<1> SUFFICES ASSUME TypeOK, Prepared, ConfigInv, SpawnedAsConfigured, [Next]_vars, ~overlapped'
             PROVE  SpawnedAsConfigured'
  BY DEF SpawnedAsConfigured
<1>1. ASSUME NEW d \in Daemons, Spawn(d) PROVE SpawnedAsConfigured'
  <2>1. /\ pc[d] = "spawn" /\ overlapped' = overlapped /\ cut' = cut
        /\ emu' = [emu EXCEPT ![d] = [avd |-> MyAvd(d), config |-> avd[MyAvd(d)],
                                      par |-> job[d].par]]
    BY <1>1 DEF Spawn, past
  <2>2. emu'[d].avd = MyAvd(d) /\ emu'[d].config = avd[MyAvd(d)] /\ emu'[d].par = job[d].par
    BY <2>1 DEF TypeOK
  <2>3. MyAvd(d) \notin cut => avd[MyAvd(d)] = Avd(TRUE, job[d].par)
    BY <2>1 DEF ConfigInv
  <2>4. \A e \in Daemons \ {d} : emu'[e] = emu[e]
    BY <2>1 DEF TypeOK
  <2>5. ASSUME emu'[d].avd \notin cut' PROVE emu'[d].config = Avd(TRUE, emu'[d].par)
    <3>1. cut' = cut /\ MyAvd(d) \notin cut
      BY <2>1, <2>2, <2>5
    <3>2. emu'[d].config = Avd(TRUE, job[d].par)
      BY <2>2, <2>3, <3>1
    <3> QED BY <2>2, <3>2
  <2>6. ASSUME NEW e \in Daemons \ {d}, emu'[e] # None, emu'[e].avd \notin cut'
        PROVE  emu'[e].config = Avd(TRUE, emu'[e].par)
    BY <2>1, <2>4, <2>6 DEF SpawnedAsConfigured, Avd
  <2> QED BY <2>5, <2>6 DEF SpawnedAsConfigured
<1>2. ASSUME ~overlapped, cut \subseteq cut', \A e \in Daemons : emu'[e] \in {emu[e], None}
      PROVE  SpawnedAsConfigured'
  BY <1>2 DEF SpawnedAsConfigured
<1>3. ASSUME NEW d \in Daemons, Step(d), ~Spawn(d) PROVE SpawnedAsConfigured'
  <2>1. emu' = emu
    BY <1>3 DEF Step, ReadProfile, OpenProfile, WriteProfile, CheckImages, Install, CopyOpen,
                CopyPart, CopyEnd, CheckAvd, CreateDir, CreateConfig, ReadConfig, OpenConfig,
                WriteConfig
  <2>2. ~overlapped /\ cut' = cut
    BY <1>3, OthersStay
  <2> QED BY <1>2, <2>1, <2>2
<1>4. ASSUME NEW d \in Daemons,
             Fail(d) \/ Crash(d) \/ EmulatorEnds(d) \/ \E n \in Devices : Start(d, n)
      PROVE  SpawnedAsConfigured'
  <2>1. ~overlapped /\ cut \subseteq cut'
    BY <1>4 DEF Fail, Crash, Disturbed, Leaves, EmulatorEnds, Start, past, TypeOK
  <2>2. \A e \in Daemons : emu'[e] \in {emu[e], None}
    <3>1. emu' = emu \/ emu' = [emu EXCEPT ![d] = None]
      BY <1>4 DEF Fail, Crash, EmulatorEnds, Start
    <3> QED BY <3>1 DEF TypeOK
  <2> QED BY <1>2, <2>1, <2>2
<1>5. CASE EditProfile \/ UNCHANGED vars
  BY <1>2, <1>5 DEF EditProfile, vars, past
<1> QED BY <1>1, <1>3, <1>4, <1>5 DEF Next

-----------------------------------------------------------------------------
\* The inductive invariant holds in every reachable state.
LEMMA LaunchInvariance == Spec => []LaunchInv
<1>1. Init => LaunchInv
  <2> SUFFICES ASSUME Init PROVE LaunchInv
    OBVIOUS
  <2>1. TypeOK
    <3>1. NoAvd \in Configs /\ NoJob \in Jobs /\ "idle" \in Stages
      BY JobFields DEF Configs, NoAvd, Stages
    <3>2. budget \in 0..MaxDisturbances
      BY LaunchAssumption DEF Init
    <3> QED BY <3>1, <3>2 DEF Init, TypeOK
  <2>2. Prepared /\ Alone /\ SpawnedAsConfigured
    BY DEF Init, Prepared, Alone, SpawnedAsConfigured
  <2>3. InstallInv
    <3>1. /\ image["system"] = "unfit"
          /\ \A d \in Daemons : pc[d] = "idle" /\ job[d].copy = 1
      BY JobFields DEF Init, Images
    <3> QED BY <3>1 DEF InstallInv
  <2>4. ConfigInv
    <3>1. /\ \A a \in Avds : avd[a].state = "none"
          /\ \A d \in Daemons : pc[d] = "idle"
      BY DEF Init, NoAvd
    <3> QED BY <3>1 DEF ConfigInv
  <2> QED BY <2>1, <2>2, <2>3, <2>4 DEF LaunchInv
<1>2. LaunchInv /\ [Next]_vars => LaunchInv'
  BY StepTypes, StepPrepared, StepAlone, StepInstall, StepConfig, StepSpawned DEF LaunchInv
<1> QED BY <1>1, <1>2, PTL DEF Spec

\* The files and the jobs of launch_device have their types, whatever fails.
THEOREM LaunchTypes == Spec => []TypeOK
BY LaunchInvariance, PTL DEF LaunchInv

\* However often an installation is broken off and repeated, images that
\* images_are_ready accepts have a complete kernel and a complete ramdisk, as
\* long as no two daemons have been launching together.
THEOREM ImagesInOrder == Spec => []OnlySystemShort
<1>1. LaunchInv => OnlySystemShort
  BY DEF LaunchInv, InstallInv, OnlySystemShort, images_are_ready, Images
<1> QED BY <1>1, LaunchInvariance, PTL

\* Every emulator runs on a complete config.ini with the values of its profile,
\* for any sharing of AVDs, with the exceptions SpawnedAsConfigured names.
THEOREM EmulatorsConfigured == Spec => []SpawnedAsConfigured
BY LaunchInvariance, PTL DEF LaunchInv
=============================================================================
