--------------------------- MODULE ProfilesProof ----------------------------
(***************************************************************************)
(* EmptyHasWriter, GarbageNeedsRace and SelectionSticks of Profiles, for   *)
(* every set of GUIs, CLIs and names, and CreateIsFresh for one GUI.       *)
(*                                                                         *)
(* JobInv: a process has a file open exactly while it is about to write.   *)
(* StoreInv: a file that somebody has open and that is not empty any more, *)
(* or that two have open, has been raced for; so only a write that finds   *)
(* the file raced for can leave the end of another text behind its own.    *)
(* GuiInv: a device that a GUI lists or its user has chosen is readable,   *)
(* or has been touched since.                                              *)
(***************************************************************************)
EXTENDS Profiles, FiniteSetTheorems, TLAPS

FilePcs == {"mkdir", "open", "write", "unlink", "rmdir"}
Pcs == FilePcs \cup {"idle", "refresh", "list", "status", "boot"}
Jobs == [pc : Pcs, name : Names \cup {None}, text : Texts,
         next : {"idle", "list", "refresh"}]
States == {"absent", "dir", "empty", "part", "garbage"} \cup Texts
Panels == [devices : SUBSET Names, selected : Names, attempted : BOOLEAN,
           chosen : Names \cup {None}, touched : SUBSET Names, asked : BOOLEAN]

JobInv ==
  /\ job \in [Procs -> Jobs] /\ fd \in [Procs -> {"none", "live", "dead"}]
  /\ \A p \in Procs : /\ job[p].pc \in FilePcs => job[p].name \in Names
                      /\ fd[p] = "none" <=> job[p].pc # "write"

StoreInv ==
  /\ store \in [Names -> States]
  /\ EmptyHasWriter /\ GarbageNeedsRace
  /\ \A p \in Procs :
       fd[p] = "live" => store[job[p].name] = "empty" \/ job[p].name \in raced
  /\ \A p, q \in Procs :
       fd[p] = "live" /\ fd[q] = "live" /\ p # q /\ job[p].name = job[q].name
         => job[p].name \in raced

Watched(g) == gui[g].devices \cup ({gui[g].chosen} \ {None})

GuiInv ==
  /\ gui \in [Guis -> Panels] /\ SelectionSticks
  /\ \A g \in Guis : \A n \in Watched(g) : n \in gui[g].touched \/ store[n] \in Texts

ProfilesInv == JobInv /\ StoreInv /\ GuiInv /\ daemon \in BOOLEAN

-----------------------------------------------------------------------------
(***************************************************************************)
(* Jobs and files.                                                         *)
(***************************************************************************)

\* The jobs that are made from other jobs.
LEMMA IdleFacts ==
  /\ Idle \in Jobs /\ Idle.pc = "idle"
  /\ \A l \in Pcs : [Idle EXCEPT !.pc = l] \in Jobs /\ [Idle EXCEPT !.pc = l].pc = l
BY DEF Idle, Jobs, Pcs, Texts

\* Another call for the same file.
LEMMA GotoFields ==
  ASSUME NEW r \in Jobs, NEW l \in Pcs
  PROVE  /\ [r EXCEPT !.pc = l] \in Jobs /\ [r EXCEPT !.pc = l].pc = l
         /\ [r EXCEPT !.pc = l].name = r.name
BY DEF Jobs

\* Only the process that makes a step gets another job.
LEMMA OneJob ==
  ASSUME JobInv, NEW p \in Procs, NEW j \in Jobs, job' = [job EXCEPT ![p] = j]
  PROVE  /\ job' \in [Procs -> Jobs] /\ job'[p] = j
         /\ \A q \in Procs \ {p} : job'[q] = job[q]
BY DEF JobInv

\* What a call that opens and closes no file may do: a directory comes or goes.
Quiet(p, j) ==
  /\ job' = [job EXCEPT ![p] = j]
  /\ job[p].pc # "write" /\ j.pc # "write" /\ (j.pc \in FilePcs => j.name \in Names)
  /\ UNCHANGED <<fd, raced, torn>>
  /\ store' \in [Names -> States]
  /\ \A n \in Names : \/ store'[n] = store[n]
                      \/ store[n] \in {"absent", "dir"} /\ store'[n] \in {"absent", "dir"}

\* It disturbs nobody's file.
LEMMA QuietStep ==
  ASSUME JobInv, StoreInv, NEW p \in Procs, NEW j \in Jobs, Quiet(p, j)
  PROVE  JobInv' /\ StoreInv'
<1>1. /\ job' \in [Procs -> Jobs] /\ job'[p] = j
      /\ \A q \in Procs \ {p} : job'[q] = job[q]
  BY OneJob DEF Quiet
<1>2. fd[p] = "none" /\ fd' = fd
  BY DEF Quiet, JobInv
<1>3. JobInv'
  BY <1>1, <1>2 DEF JobInv, Quiet
<1>4. \A q \in Procs : fd[q] = "live" => q # p /\ job'[q] = job[q] /\ job[q].name \in Names
  BY <1>1, <1>2 DEF JobInv, FilePcs
<1>5. EmptyHasWriter'
  BY <1>2, <1>4 DEF EmptyHasWriter, StoreInv, Quiet
<1>6. GarbageNeedsRace'
  BY DEF GarbageNeedsRace, StoreInv, Quiet
<1>7. \A q \in Procs :
        fd'[q] = "live" => store'[job'[q].name] = "empty" \/ job'[q].name \in raced'
  BY <1>2, <1>4 DEF StoreInv, Quiet
<1>8. \A q, r \in Procs :
        fd'[q] = "live" /\ fd'[r] = "live" /\ q # r /\ job'[q].name = job'[r].name
          => job'[q].name \in raced'
  BY <1>2, <1>4 DEF StoreInv, Quiet
<1> QED BY <1>3, <1>5, <1>6, <1>7, <1>8 DEF StoreInv, Quiet

\* Open empties the file; others that have it open are noticed.
LEMMA OpenStep ==
  ASSUME JobInv, StoreInv, NEW p \in Procs, Open(p)
  PROVE  JobInv' /\ StoreInv'
<1>1. PICK n \in Names : n = job[p].name
  BY DEF Open, JobInv, FilePcs
<1>2. PICK j \in Jobs : j = [job[p] EXCEPT !.pc = "write"] /\ j.pc = "write" /\ j.name = n
  <2>1. job[p] \in Jobs
    BY DEF JobInv
  <2>2. "write" \in Pcs
    BY DEF Pcs, FilePcs
  <2> QED BY <1>1, <2>1, <2>2, GotoFields
<1>3. job' = [job EXCEPT ![p] = j]
  BY <1>2 DEF Open, Goto, JobInv
<1>4. /\ job' \in [Procs -> Jobs] /\ job'[p] = j
      /\ \A q \in Procs \ {p} : job'[q] = job[q]
  BY <1>3, OneJob
<1>5. /\ store' = [store EXCEPT ![n] = "empty"] /\ fd' = [fd EXCEPT ![p] = "live"]
      /\ torn' = torn \ {n}
      /\ raced' = IF \E q \in Procs : fd[q] = "live" /\ job[q].name = n
                    THEN raced \cup {n} ELSE raced \ {n}
      /\ job[p].pc = "open"
  BY <1>1 DEF Open
<1>6. /\ fd' \in [Procs -> {"none", "live", "dead"}] /\ fd'[p] = "live" /\ fd[p] = "none"
      /\ \A q \in Procs \ {p} : fd'[q] = fd[q]
  BY <1>5 DEF JobInv
<1>7. JobInv'
  <2>1. ASSUME NEW q \in Procs
        PROVE  /\ job'[q].pc \in FilePcs => job'[q].name \in Names
               /\ fd'[q] = "none" <=> job'[q].pc # "write"
    <3>1. CASE q = p
      BY <1>2, <1>4, <1>6, <3>1
    <3>2. CASE q # p
      BY <1>4, <1>6, <3>2 DEF JobInv
    <3> QED BY <3>1, <3>2
  <2> QED BY <1>4, <1>6, <2>1 DEF JobInv
<1>8. /\ store' \in [Names -> States] /\ store'[n] = "empty"
      /\ \A m \in Names \ {n} : store'[m] = store[m]
  BY <1>5 DEF StoreInv, States
<1>9. \A m \in Names \ {n} : m \in raced' <=> m \in raced
  BY <1>5
<1>10. \A q \in Procs : fd[q] = "live" => q # p /\ job'[q] = job[q] /\ job[q].name \in Names
  BY <1>4, <1>6 DEF JobInv, FilePcs
<1>11. \A q \in Procs : fd[q] = "live" /\ job[q].name = n => n \in raced'
  BY <1>5
<1>12. EmptyHasWriter'
  <2> SUFFICES ASSUME NEW m \in Names, store'[m] \in {"empty", "part"}
               PROVE  m \in torn' \/ \E q \in Procs : fd'[q] = "live" /\ job'[q].name = m
    BY DEF EmptyHasWriter
  <2>1. CASE m = n
    BY <1>2, <1>4, <1>6, <2>1
  <2>2. CASE m # n
    <3>1. m \in torn \/ \E q \in Procs : fd[q] = "live" /\ job[q].name = m
      BY <1>8, <2>2 DEF StoreInv, EmptyHasWriter
    <3> QED BY <1>5, <1>6, <1>10, <2>2, <3>1
  <2> QED BY <2>1, <2>2
<1>13. GarbageNeedsRace'
  BY <1>8, <1>9 DEF GarbageNeedsRace, StoreInv
<1>14. ASSUME NEW q \in Procs, fd'[q] = "live"
       PROVE  store'[job'[q].name] = "empty" \/ job'[q].name \in raced'
  <2>1. CASE q = p
    BY <1>2, <1>4, <1>8, <2>1
  <2>2. CASE q # p
    BY <1>6, <1>8, <1>9, <1>10, <1>14, <2>2 DEF StoreInv
  <2> QED BY <2>1, <2>2
<1>15. ASSUME NEW q \in Procs, NEW r \in Procs, fd'[q] = "live", fd'[r] = "live", q # r,
              job'[q].name = job'[r].name
       PROVE  job'[q].name \in raced'
  <2>1. CASE q = p \/ r = p
    BY <1>2, <1>4, <1>6, <1>11, <1>15, <2>1
  <2>2. CASE q # p /\ r # p
    <3>1. /\ fd[q] = "live" /\ fd[r] = "live" /\ job'[q] = job[q] /\ job'[r] = job[r]
          /\ job[q].name \in Names
      BY <1>6, <1>10, <1>15, <2>2
    <3>2. job[q].name \in raced
      BY <1>15, <3>1 DEF StoreInv
    <3> QED BY <1>9, <1>11, <3>1, <3>2
  <2> QED BY <2>1, <2>2
<1> QED BY <1>7, <1>8, <1>12, <1>13, <1>14, <1>15 DEF StoreInv

\* A process closes its file n, which holds x by then, and goes on with j.
LEMMA CloseStep ==
  ASSUME JobInv, StoreInv, NEW p \in Procs, NEW n \in Names, n = job[p].name,
         NEW j \in Jobs, j.pc \notin FilePcs, job' = [job EXCEPT ![p] = j],
         NEW x \in States, store' = [store EXCEPT ![n] = x],
         fd' = [fd EXCEPT ![p] = "none"], raced' = raced, torn \subseteq torn',
         fd[p] # "live" => x = store[n],
         fd[p] = "live" /\ x \in {"empty", "part"} => n \in torn',
         fd[p] = "live" /\ store[n] = "empty" => x # "garbage"
  PROVE  JobInv' /\ StoreInv'
<1>1. /\ job' \in [Procs -> Jobs] /\ job'[p] = j
      /\ \A q \in Procs \ {p} : job'[q] = job[q]
  BY OneJob
<1>2. /\ fd' \in [Procs -> {"none", "live", "dead"}] /\ fd'[p] = "none"
      /\ \A q \in Procs \ {p} : fd'[q] = fd[q]
  BY DEF JobInv
<1>3. JobInv'
  BY <1>1, <1>2 DEF JobInv, FilePcs
<1>4. /\ store' \in [Names -> States] /\ store'[n] = x
      /\ \A m \in Names \ {n} : store'[m] = store[m]
  BY DEF StoreInv
<1>5. \A q \in Procs :
        fd'[q] = "live" => /\ q # p /\ fd[q] = "live" /\ job'[q] = job[q]
                           /\ job[q].name \in Names
  BY <1>1, <1>2 DEF JobInv, FilePcs
<1>6. EmptyHasWriter'
  <2> SUFFICES ASSUME NEW m \in Names, store'[m] \in {"empty", "part"}
               PROVE  m \in torn' \/ \E q \in Procs : fd'[q] = "live" /\ job'[q].name = m
    BY DEF EmptyHasWriter
  <2>1. CASE m = n /\ fd[p] = "live"
    BY <1>4, <2>1
  <2>2. CASE ~(m = n /\ fd[p] = "live")
    <3>1. store[m] \in {"empty", "part"}
      BY <1>4, <2>2
    <3>2. m \in torn \/ \E q \in Procs : fd[q] = "live" /\ job[q].name = m
      BY <3>1 DEF StoreInv, EmptyHasWriter
    <3> QED BY <1>1, <1>2, <2>2, <3>2
  <2> QED BY <2>1, <2>2
<1>7. GarbageNeedsRace'
  <2> SUFFICES ASSUME NEW m \in Names, store'[m] = "garbage" PROVE m \in raced
    BY DEF GarbageNeedsRace
  <2>1. CASE m = n /\ fd[p] = "live"
    BY <1>4, <2>1 DEF StoreInv
  <2>2. CASE ~(m = n /\ fd[p] = "live")
    BY <1>4, <2>2 DEF StoreInv, GarbageNeedsRace
  <2> QED BY <2>1, <2>2
<1>8. ASSUME NEW q \in Procs, fd'[q] = "live"
      PROVE  store'[job'[q].name] = "empty" \/ job'[q].name \in raced'
  <2>1. q # p /\ fd[q] = "live" /\ job'[q] = job[q] /\ job[q].name \in Names
    BY <1>5, <1>8
  <2>2. CASE job[q].name = n /\ fd[p] = "live"
    BY <2>1, <2>2 DEF StoreInv
  <2>3. CASE ~(job[q].name = n /\ fd[p] = "live")
    BY <1>4, <2>1, <2>3 DEF StoreInv
  <2> QED BY <2>2, <2>3
<1>9. \A q, r \in Procs :
        fd'[q] = "live" /\ fd'[r] = "live" /\ q # r /\ job'[q].name = job'[r].name
          => job'[q].name \in raced'
  BY <1>5 DEF StoreInv
<1> QED BY <1>3, <1>4, <1>6, <1>7, <1>8, <1>9 DEF StoreInv

\* A write over an old text happens only in a file that was raced for.
LEMMA WriteStep ==
  ASSUME JobInv, StoreInv, NEW p \in Procs, Write(p)
  PROVE  JobInv' /\ StoreInv'
<1>1. PICK n \in Names : n = job[p].name
  BY DEF Write, JobInv, FilePcs
<1>2. job[p].text \in Texts /\ job[p].next \in {"idle", "list", "refresh"}
  BY DEF JobInv, Jobs
<1>3. PICK j \in Jobs : /\ j = IF job[p].next = "idle" THEN Idle
                               ELSE [Idle EXCEPT !.pc = job[p].next]
                        /\ j.pc \in {"idle", "list", "refresh"}
  BY <1>2, IdleFacts DEF Pcs
<1>4. PICK x \in IF fd[p] = "live" THEN Over(store[n], job[p].text) ELSE {store[n]} :
        store' = [store EXCEPT ![n] = x]
  BY <1>1 DEF Write
<1>5. /\ x \in States /\ (fd[p] = "live" => x \notin {"empty", "part"})
      /\ fd[p] = "live" /\ store[n] = "empty" => x # "garbage"
      /\ fd[p] # "live" => x = store[n]
  BY <1>2, <1>4 DEF Over, States, Texts, Long, StoreInv
<1>6. /\ job' = [job EXCEPT ![p] = j] /\ fd' = [fd EXCEPT ![p] = "none"]
      /\ raced' = raced /\ torn' = torn /\ j.pc \notin FilePcs
  BY <1>3 DEF Write, Succeed, past, FilePcs
<1> QED BY <1>1, <1>4, <1>5, <1>6, CloseStep

\* A file whose write fails is remembered in torn.
LEMMA WriteFailsStep ==
  ASSUME JobInv, StoreInv, NEW p \in Procs, WriteFails(p)
  PROVE  JobInv' /\ StoreInv'
<1>1. PICK n \in Names : n = job[p].name
  BY DEF WriteFails, JobInv, FilePcs
<1>2. PICK j \in Jobs : /\ j = IF job[p].next = "list" THEN [Idle EXCEPT !.pc = "list"]
                               ELSE Idle
                        /\ j.pc \in {"idle", "list"}
  BY IdleFacts DEF Pcs
<1>3. PICK x \in IF fd[p] = "live" THEN Cut(store[n]) ELSE {store[n]} :
        store' = [store EXCEPT ![n] = x]
  BY <1>1 DEF WriteFails
<1>4. /\ x \in States /\ (fd[p] = "live" /\ store[n] = "empty" => x # "garbage")
      /\ fd[p] # "live" => x = store[n]
  BY <1>3 DEF Cut, States, Texts, StoreInv
<1>5. /\ job' = [job EXCEPT ![p] = j] /\ fd' = [fd EXCEPT ![p] = "none"]
      /\ raced' = raced /\ j.pc \notin FilePcs
      /\ torn' = IF fd[p] = "live" THEN torn \cup {n} ELSE torn
  BY <1>1, <1>2 DEF WriteFails, GiveUp, FilePcs
<1> QED BY <1>1, <1>3, <1>4, <1>5, CloseStep

\* remove_dir_all takes the file away from everybody who has it open.
LEMMA UnlinkStep ==
  ASSUME JobInv, StoreInv, NEW c \in Procs, Unlink(c), store[job[c].name] # "absent"
  PROVE  JobInv' /\ StoreInv'
<1>1. PICK n \in Names : n = job[c].name
  BY DEF Unlink, JobInv, FilePcs
<1>2. /\ job[c].pc = "unlink" /\ store' = [store EXCEPT ![n] = "dir"]
      /\ fd' = [p \in Procs |-> IF fd[p] = "live" /\ job[p].name = n THEN "dead" ELSE fd[p]]
      /\ Goto(c, "rmdir") /\ raced' = raced \ {n} /\ torn' = torn \ {n}
  BY <1>1 DEF Unlink
<1>3. PICK j \in Jobs : j = [job[c] EXCEPT !.pc = "rmdir"] /\ j.pc = "rmdir" /\ j.name = n
  <2>1. job[c] \in Jobs
    BY DEF JobInv
  <2>2. "rmdir" \in Pcs
    BY DEF Pcs, FilePcs
  <2> QED BY <1>1, <2>1, <2>2, GotoFields
<1>4. job' = [job EXCEPT ![c] = j]
  BY <1>2, <1>3 DEF Goto, JobInv
<1>5. /\ job' \in [Procs -> Jobs] /\ job'[c] = j
      /\ \A q \in Procs \ {c} : job'[q] = job[q]
  BY <1>4, OneJob
<1>6. /\ fd' \in [Procs -> {"none", "live", "dead"}] /\ fd[c] = "none" /\ fd'[c] = "none"
      /\ \A q \in Procs : fd'[q] = "none" <=> fd[q] = "none"
      /\ \A q \in Procs : fd'[q] = "live" <=> fd[q] = "live" /\ job[q].name # n
  BY <1>2 DEF JobInv
<1>7. JobInv'
  <2>1. ASSUME NEW q \in Procs
        PROVE  /\ job'[q].pc \in FilePcs => job'[q].name \in Names
               /\ fd'[q] = "none" <=> job'[q].pc # "write"
    <3>1. CASE q = c
      BY <1>3, <1>5, <1>6, <3>1
    <3>2. CASE q # c
      BY <1>5, <1>6, <3>2 DEF JobInv
    <3> QED BY <3>1, <3>2
  <2> QED BY <1>5, <1>6, <2>1 DEF JobInv
<1>8. /\ store' \in [Names -> States] /\ store'[n] = "dir"
      /\ \A m \in Names \ {n} : store'[m] = store[m]
  BY <1>2 DEF StoreInv, States
<1>9. \A q \in Procs :
        fd'[q] = "live" => /\ fd[q] = "live" /\ job'[q] = job[q]
                           /\ job[q].name \in Names \ {n}
  BY <1>5, <1>6 DEF JobInv, FilePcs
<1>10. EmptyHasWriter'
  <2> SUFFICES ASSUME NEW m \in Names, store'[m] \in {"empty", "part"}
               PROVE  m \in torn' \/ \E q \in Procs : fd'[q] = "live" /\ job'[q].name = m
    BY DEF EmptyHasWriter
  <2>1. m # n /\ store[m] \in {"empty", "part"}
    BY <1>8
  <2>2. m \in torn \/ \E q \in Procs : fd[q] = "live" /\ job[q].name = m
    BY <2>1 DEF StoreInv, EmptyHasWriter
  <2> QED BY <1>2, <1>5, <1>6, <2>1, <2>2
<1>11. GarbageNeedsRace'
  BY <1>2, <1>8 DEF GarbageNeedsRace, StoreInv
<1>12. \A q \in Procs :
         fd'[q] = "live" => store'[job'[q].name] = "empty" \/ job'[q].name \in raced'
  BY <1>2, <1>8, <1>9 DEF StoreInv
<1>13. \A q, r \in Procs :
         fd'[q] = "live" /\ fd'[r] = "live" /\ q # r /\ job'[q].name = job'[r].name
           => job'[q].name \in raced'
  BY <1>2, <1>9 DEF StoreInv
<1> QED BY <1>7, <1>8, <1>10, <1>11, <1>12, <1>13 DEF StoreInv

\* A file whose writer is killed is remembered in torn.
LEMMA KillStep ==
  ASSUME JobInv, StoreInv, NEW p \in Procs, Kill(p)
  PROVE  JobInv' /\ StoreInv'
<1>1. PICK j \in Jobs : j = Started(p) /\ j.pc \in {"idle", "refresh"}
  BY IdleFacts DEF Started, Pcs
<1>2. /\ job' = [job EXCEPT ![p] = j] /\ fd' = [fd EXCEPT ![p] = "none"]
      /\ UNCHANGED <<store, raced>>
      /\ torn' = IF fd[p] = "live" THEN torn \cup {job[p].name} ELSE torn
  BY <1>1 DEF Kill
<1>3. /\ job' \in [Procs -> Jobs] /\ job'[p] = j
      /\ \A q \in Procs \ {p} : job'[q] = job[q]
  BY <1>2, OneJob
<1>4. /\ fd' \in [Procs -> {"none", "live", "dead"}] /\ fd'[p] = "none"
      /\ \A q \in Procs \ {p} : fd'[q] = fd[q]
  BY <1>2 DEF JobInv
<1>5. JobInv'
  BY <1>1, <1>3, <1>4 DEF JobInv, FilePcs
<1>6. \A q \in Procs : fd'[q] = "live" => q # p /\ fd[q] = "live" /\ job'[q] = job[q]
  BY <1>3, <1>4
<1>7. EmptyHasWriter'
  <2> SUFFICES ASSUME NEW m \in Names, store[m] \in {"empty", "part"}
               PROVE  m \in torn' \/ \E q \in Procs : fd'[q] = "live" /\ job'[q].name = m
    BY <1>2 DEF EmptyHasWriter
  <2>1. m \in torn \/ \E q \in Procs : fd[q] = "live" /\ job[q].name = m
    BY DEF StoreInv, EmptyHasWriter
  <2> QED BY <1>2, <1>3, <1>4, <2>1
<1>8. GarbageNeedsRace'
  BY <1>2 DEF GarbageNeedsRace, StoreInv
<1>9. \A q \in Procs :
        fd'[q] = "live" => store'[job'[q].name] = "empty" \/ job'[q].name \in raced'
  BY <1>2, <1>6 DEF StoreInv
<1>10. \A q, r \in Procs :
         fd'[q] = "live" /\ fd'[r] = "live" /\ q # r /\ job'[q].name = job'[r].name
           => job'[q].name \in raced'
  BY <1>2, <1>6 DEF StoreInv
<1> QED BY <1>2, <1>5, <1>7, <1>8, <1>9, <1>10 DEF StoreInv

-----------------------------------------------------------------------------
(***************************************************************************)
(* The GUI.                                                                *)
(***************************************************************************)

\* What the invariant says of one GUI that is u, when the files are s.
PanelOk(u, s) ==
  /\ u \in Panels
  /\ u.chosen \notin {None, u.selected} => u.chosen \in u.touched
  /\ \A n \in u.devices \cup ({u.chosen} \ {None}) : n \in u.touched \/ s[n] \in Texts

\* A GUI that a write to n, or its removal, touches.
LEMMA PanelTouched ==
  ASSUME NEW u, PanelOk(u, store), NEW n \in Names,
         \A m \in Names \ {n} : store'[m] = store[m]
  PROVE  PanelOk([u EXCEPT !.touched = (@ \cup {n}) \cap (u.devices \cup {u.chosen})], store')
<1>1. u \in Panels /\ u.devices \subseteq Names /\ u.touched \subseteq Names
      /\ u.chosen \in Names \cup {None}
  BY DEF PanelOk, Panels
<1>2. PICK t : t = (u.touched \cup {n}) \cap (u.devices \cup {u.chosen})
  OBVIOUS
<1>3. t \subseteq Names
  BY <1>1, <1>2
<1>4. PICK v : v = [u EXCEPT !.touched = t]
  OBVIOUS
<1>5. /\ v \in Panels /\ v.touched = t /\ v.devices = u.devices /\ v.chosen = u.chosen
      /\ v.selected = u.selected
  BY <1>1, <1>3, <1>4 DEF Panels
<1>6. v.chosen \notin {None, v.selected} => v.chosen \in v.touched
  BY <1>2, <1>5 DEF PanelOk
<1>7. ASSUME NEW m \in v.devices \cup ({v.chosen} \ {None})
      PROVE  m \in v.touched \/ store'[m] \in Texts
  <2>1. m \in Names /\ m \in u.devices \cup {u.chosen}
    BY <1>1, <1>5, <1>7
  <2>2. m \in u.touched \/ store[m] \in Texts
    BY <1>5, <1>7 DEF PanelOk
  <2> QED BY <1>2, <1>5, <2>1, <2>2
<1> QED BY <1>2, <1>4, <1>5, <1>6, <1>7 DEF PanelOk

\* Writes and removals tell every GUI.
LEMMA TouchStep ==
  ASSUME GuiInv, NEW n \in Names, Touch(n), \A m \in Names \ {n} : store'[m] = store[m]
  PROVE  GuiInv'
<1>1. \A g \in Guis : PanelOk(gui[g], store)
  BY DEF GuiInv, PanelOk, SelectionSticks, Watched
<1>2. ASSUME NEW g \in Guis PROVE PanelOk(gui'[g], store')
  <2>1. PICK u : u = gui[g]
    OBVIOUS
  <2>2. gui'[g] = [u EXCEPT !.touched = (@ \cup {n}) \cap (u.devices \cup {u.chosen})]
    BY <2>1 DEF Touch
  <2>3. PanelOk(u, store)
    BY <1>1, <2>1
  <2> QED BY <2>2, <2>3, PanelTouched
<1>3. gui' = [g \in Guis |-> gui'[g]]
  BY DEF Touch
<1> QED BY <1>2, <1>3 DEF GuiInv, PanelOk, SelectionSticks, Watched

\* Nothing is written or removed and no GUI does anything.
LEMMA NoTouchStep ==
  ASSUME GuiInv, gui' = gui, \A n \in Names : store[n] \in Texts => store'[n] \in Texts
  PROVE  GuiInv'
<1>1. \A g \in Guis : gui[g].devices \subseteq Names /\ gui[g].chosen \in Names \cup {None}
  BY DEF GuiInv, Panels
<1> QED BY <1>1 DEF GuiInv, SelectionSticks, Watched

\* One GUI is u afterwards, and no file has changed.
LEMMA OnePanel ==
  ASSUME GuiInv, NEW g \in Guis, NEW u, PanelOk(u, store), gui' = [gui EXCEPT ![g] = u],
         store' = store
  PROVE  GuiInv'
<1>1. u \in Panels
  BY DEF PanelOk
<1>2. /\ gui' \in [Guis -> Panels] /\ gui'[g] = u
      /\ \A h \in Guis \ {g} : gui'[h] = gui[h]
  BY <1>1 DEF GuiInv
<1>3. \A h \in Guis : PanelOk(gui[h], store)
  BY DEF GuiInv, PanelOk, SelectionSticks, Watched
<1>4. \A h \in Guis : PanelOk(gui'[h], store)
  BY <1>2, <1>3
<1> QED BY <1>2, <1>4 DEF GuiInv, PanelOk, SelectionSticks, Watched

\* A listing: the selection moves only when the selected profile is unreadable.
LEMMA ListStep ==
  ASSUME GuiInv, NEW g \in Guis, List(g)
  PROVE  GuiInv'
<1>1. PICK u : u = gui[g] /\ PanelOk(u, store) /\ u \in Panels
  BY DEF GuiInv, PanelOk, SelectionSticks, Watched
<1>2. PICK s \in Selection(gui[g].selected) :
        gui' = [gui EXCEPT ![g].devices = Readable, ![g].selected = s,
                           ![g].touched = IF gui[g].chosen \in {None} \cup (Readable \cap {s})
                                            THEN {} ELSE @]
  BY DEF List
<1>3. PICK t : t = IF u.chosen \in {None} \cup (Readable \cap {s}) THEN {} ELSE u.touched
  OBVIOUS
<1>4. PICK v : v = [u EXCEPT !.devices = Readable, !.selected = s, !.touched = t]
  OBVIOUS
<1>5. gui' = [gui EXCEPT ![g] = v]
  BY <1>1, <1>2, <1>3, <1>4 DEF GuiInv, Panels
<1>6. Readable \subseteq Names /\ s \in Names /\ t \subseteq Names
  BY <1>1, <1>2, <1>3 DEF Readable, Selection, Panels
<1>7. /\ v \in Panels /\ v.devices = Readable /\ v.selected = s /\ v.touched = t
      /\ v.chosen = u.chosen
  BY <1>1, <1>4, <1>6 DEF Panels
<1>8. /\ u.chosen \notin {None, u.selected} => u.chosen \in u.touched
      /\ u.chosen # None => u.chosen \in u.touched \/ u.chosen \in Readable
  BY <1>1 DEF PanelOk, Readable, Panels
<1>9. ASSUME u.chosen \notin {None, s} PROVE u.chosen \in t
  <2>1. t = u.touched
    BY <1>3, <1>9
  <2>2. CASE u.chosen = u.selected
    <3>1. u.selected \notin Readable
      BY <1>1, <1>2, <1>9, <2>2 DEF Selection
    <3> QED BY <1>8, <1>9, <2>1, <2>2, <3>1
  <2>3. CASE u.chosen # u.selected
    BY <1>8, <1>9, <2>1, <2>3
  <2> QED BY <2>2, <2>3
<1>10. ASSUME NEW n \in Readable \cup ({u.chosen} \ {None})
       PROVE  n \in t \/ store[n] \in Texts
  <2>1. CASE n \in Readable
    BY <2>1 DEF Readable
  <2>2. CASE n \notin Readable
    BY <1>3, <1>8, <1>10, <2>2
  <2> QED BY <2>1, <2>2
<1>11. PanelOk(v, store)
  BY <1>7, <1>9, <1>10 DEF PanelOk
<1> QED BY <1>5, <1>11, OnePanel DEF List

\* A click on a device that is listed.
LEMMA SelectStep ==
  ASSUME GuiInv, NEW g \in Guis, NEW n \in Names, Select(g, n)
  PROVE  GuiInv'
<1>1. PICK u : u = gui[g] /\ PanelOk(u, store) /\ u \in Panels
  BY DEF GuiInv, PanelOk, SelectionSticks, Watched
<1>2. PICK v : v = [u EXCEPT !.selected = n, !.chosen = n]
  OBVIOUS
<1>3. gui' = [gui EXCEPT ![g] = v] /\ n \in u.devices
  BY <1>1, <1>2 DEF Select, GuiInv, Panels
<1>4. /\ v \in Panels /\ v.devices = u.devices /\ v.selected = n /\ v.touched = u.touched
      /\ v.chosen = n
  BY <1>1, <1>2 DEF Panels
<1>5. PanelOk(v, store)
  BY <1>1, <1>3, <1>4 DEF PanelOk
<1> QED BY <1>3, <1>5, OnePanel DEF Select

\* The automatic boot changes nothing that is listed or chosen.
LEMMA AutoStartStep ==
  ASSUME GuiInv, NEW g \in Guis, AutoStart(g), daemon \in BOOLEAN
  PROVE  GuiInv'
<1>1. PICK u : u = gui[g] /\ PanelOk(u, store) /\ u \in Panels
  BY DEF GuiInv, PanelOk, SelectionSticks, Watched
<1>2. CASE gui[g].devices = {}
  BY <1>2, NoTouchStep DEF AutoStart
<1>3. CASE gui[g].devices # {}
  <2>1. PICK v : v = [u EXCEPT !.attempted = TRUE, !.asked = daemon]
    OBVIOUS
  <2>2. gui' = [gui EXCEPT ![g] = v]
    BY <1>1, <1>3, <2>1 DEF AutoStart, GuiInv, Panels
  <2>3. /\ v \in Panels /\ v.devices = u.devices /\ v.selected = u.selected
        /\ v.touched = u.touched /\ v.chosen = u.chosen
    BY <1>1, <2>1 DEF Panels
  <2>4. PanelOk(v, store)
    BY <1>1, <2>3 DEF PanelOk
  <2> QED BY <2>2, <2>4, OnePanel DEF AutoStart
<1> QED BY <1>2, <1>3

\* What a GUI starts with.
LEMMA NewPanel ==
  ASSUME NEW s
  PROVE  PanelOk(NewGui, s)
<1>1. NewGui \in Panels
  BY DEF NewGui, Panels, Names
<1>2. NewGui.chosen = None /\ NewGui.devices = {}
  BY DEF NewGui
<1> QED BY <1>1, <1>2 DEF PanelOk

-----------------------------------------------------------------------------
(***************************************************************************)
(* Every step.                                                             *)
(***************************************************************************)

\* There are finitely many names.
LEMMA NamesFinite == IsFiniteSet(Names)
<1>1. PixelLite \in Seq(Pixels) /\ Len(PixelLite) \in Nat
  BY ProfilesAssumption
<1>2. DOMAIN PixelLite = 1..Len(PixelLite)
  BY <1>1
<1>3. IsFiniteSet(1..Len(PixelLite))
  BY <1>1, FS_Interval
<1>4. IsFiniteSet(Pixels)
  <2>1. PixelLite \in [1..Len(PixelLite) -> Pixels]
    BY <1>1
  <2>2. \A n \in Pixels : \E i \in 1..Len(PixelLite) : PixelLite[i] = n
    BY <1>2 DEF Pixels
  <2>3. PixelLite \in Surjection(1..Len(PixelLite), Pixels)
    BY <2>1, <2>2 DEF Surjection
  <2> QED BY <1>3, <2>3, FS_Surjection
<1>5. IsFiniteSet({Default}) /\ IsFiniteSet(CliNames)
  BY FS_Singleton, ProfilesAssumption
<1>6. IsFiniteSet({Default} \cup Pixels)
  BY <1>4, <1>5, FS_Union
<1> QED BY <1>5, <1>6, FS_Union DEF Names

\* So the devices of a GUI can be counted, and the name that create_device makes
\* of their number is one of PixelLite's.
LEMMA NewNameType ==
  ASSUME GuiInv, NEW g \in Guis, Cardinality(gui[g].devices) < Len(PixelLite)
  PROVE  NewName(g) \in Names
<1>1. PixelLite \in Seq(Pixels)
  BY ProfilesAssumption
<1>2. DOMAIN PixelLite = 1..Len(PixelLite) /\ Len(PixelLite) \in Nat
  BY <1>1
<1>3. gui[g].devices \subseteq Names
  BY DEF GuiInv, Panels
<1>4. Cardinality(gui[g].devices) \in Nat
  BY <1>3, NamesFinite, FS_Subset, FS_CardinalityType
<1>5. Cardinality(gui[g].devices) + 1 \in DOMAIN PixelLite
  BY <1>2, <1>4
<1> QED BY <1>5 DEF NewName, Pixels, Names

\* A quiet step of a process, and what it means for the GUIs.
LEMMA QuietPanels ==
  ASSUME NEW p, NEW j, Quiet(p, j)
  PROVE  \A n \in Names : store[n] \in Texts => store'[n] \in Texts
BY DEF Quiet, Texts

\* Every step keeps the invariant.
LEMMA StepProfiles == ProfilesInv /\ [Next]_vars => ProfilesInv'
<1> SUFFICES ASSUME ProfilesInv, [Next]_vars PROVE ProfilesInv'
  OBVIOUS
<1>1. JobInv /\ StoreInv /\ GuiInv /\ daemon \in BOOLEAN
  BY DEF ProfilesInv
<1>2. /\ \A g \in Guis : g \in Procs
      /\ \A c \in Clis : c \in Procs
      /\ Daemon \in Procs /\ Default \in Names /\ CliNames \subseteq Names
  BY DEF Procs, Names
<1>3. \A p \in Procs : job[p] \in Jobs
  BY <1>1 DEF JobInv
<1>4. store \in [Names -> States]
  BY <1>1 DEF StoreInv
<1>5. daemon' \in BOOLEAN
  BY <1>1 DEF Next, Writing, Mkdir, Open, OpenFails, Write, WriteFails, CallFails, Kill, Unlink,
     Rmdir, DeleteFails, CliCreate, CliDelete, Panel, Refresh, List, Status, AutoStart, CreateDevice, Select,
     DaemonDefault, DaemonComes, DaemonGoes, vars
<1>6. ASSUME NEW p \in Procs, NEW j \in Jobs, Quiet(p, j), gui' = gui
      PROVE  ProfilesInv'
  <2>1. JobInv' /\ StoreInv'
    BY <1>1, <1>6, QuietStep
  <2>2. GuiInv'
    BY <1>1, <1>6, QuietPanels, NoTouchStep
  <2> QED BY <1>5, <2>1, <2>2 DEF ProfilesInv
<1>7. ASSUME NEW p \in Procs, Mkdir(p) PROVE ProfilesInv'
  <2>1. PICK j \in Jobs : j = [job[p] EXCEPT !.pc = "open"] /\ j.pc = "open"
                          /\ j.name = job[p].name
    <3>1. "open" \in Pcs
      BY DEF Pcs, FilePcs
    <3> QED BY <1>3, <3>1, GotoFields
  <2>2. job' = [job EXCEPT ![p] = j]
    BY <1>1, <1>7, <2>1 DEF Mkdir, Goto, JobInv
  <2>3. job[p].pc = "mkdir" /\ job[p].name \in Names
    BY <1>1, <1>7 DEF Mkdir, JobInv, FilePcs
  <2>4. /\ store' \in [Names -> States]
        /\ \A n \in Names : \/ store'[n] = store[n]
                            \/ store[n] = "absent" /\ store'[n] = "dir"
    BY <1>4, <1>7, <2>3 DEF Mkdir, States
  <2>5. UNCHANGED <<fd, gui, raced, torn>>
    BY <1>7 DEF Mkdir, past
  <2>6. Quiet(p, j)
    BY <2>1, <2>2, <2>3, <2>4, <2>5 DEF Quiet
  <2> QED BY <1>6, <2>5, <2>6
<1>8. ASSUME NEW p \in Procs, NEW j \in Jobs, job' = [job EXCEPT ![p] = j],
             job[p].pc # "write", j.pc # "write", j.pc \in FilePcs => j.name \in Names,
             UNCHANGED <<store, fd, raced, torn>>
      PROVE  Quiet(p, j)
  BY <1>4, <1>8 DEF Quiet
<1>9. ASSUME NEW p \in Procs, GiveUp(p), job[p].pc # "write",
             UNCHANGED <<store, fd, gui, raced, torn>>
      PROVE  ProfilesInv'
  <2>1. PICK j \in Jobs : /\ j = IF job[p].next = "list" THEN [Idle EXCEPT !.pc = "list"] ELSE Idle
                          /\ j.pc \in {"idle", "list"}
    BY IdleFacts DEF Pcs
  <2>2. job' = [job EXCEPT ![p] = j]
    BY <1>9, <2>1 DEF GiveUp
  <2> QED BY <1>6, <1>8, <1>9, <2>1, <2>2 DEF FilePcs
<1>10. ASSUME NEW p \in Procs, OpenFails(p) \/ CallFails(p) \/ DeleteFails(p)
       PROVE  ProfilesInv'
  <2>1. job[p].pc # "write" /\ UNCHANGED <<store, fd, gui, raced, torn>>
    BY <1>10 DEF OpenFails, CallFails, DeleteFails, past
  <2>2. CASE GiveUp(p)
    BY <1>9, <2>1, <2>2
  <2>3. CASE ~GiveUp(p)
    <3>1. Goto(p, "open") /\ job[p].pc = "mkdir"
      BY <1>10, <2>3 DEF OpenFails, CallFails, DeleteFails
    <3>2. PICK j \in Jobs : j = [job[p] EXCEPT !.pc = "open"] /\ j.pc = "open"
                            /\ j.name = job[p].name
      <4>1. "open" \in Pcs
        BY DEF Pcs, FilePcs
      <4> QED BY <1>3, <4>1, GotoFields
    <3>3. job' = [job EXCEPT ![p] = j] /\ j.name \in Names
      BY <1>1, <3>1, <3>2 DEF Goto, JobInv, FilePcs
    <3> QED BY <1>6, <1>8, <2>1, <3>2, <3>3
  <2> QED BY <2>2, <2>3
<1>11. ASSUME NEW p \in Procs, Open(p) PROVE ProfilesInv'
  <2>1. JobInv' /\ StoreInv'
    BY <1>1, <1>11, OpenStep
  <2>2. PICK n \in Names : n = job[p].name
    BY <1>1, <1>11 DEF Open, JobInv, FilePcs
  <2>3. Touch(n) /\ store' = [store EXCEPT ![n] = "empty"]
    BY <1>11, <2>2 DEF Open
  <2>4. \A m \in Names \ {n} : store'[m] = store[m]
    BY <1>4, <2>3
  <2> QED BY <1>1, <1>5, <2>1, <2>3, <2>4, TouchStep DEF ProfilesInv
<1>12. ASSUME NEW p \in Procs, Write(p) PROVE ProfilesInv'
  <2>1. JobInv' /\ StoreInv'
    BY <1>1, <1>12, WriteStep
  <2>2. PICK n \in Names : n = job[p].name
    BY <1>1, <1>12 DEF Write, JobInv, FilePcs
  <2>3. Touch(n) /\ \A m \in Names \ {n} : store'[m] = store[m]
    BY <1>4, <1>12, <2>2 DEF Write
  <2> QED BY <1>1, <1>5, <2>1, <2>2, <2>3, TouchStep DEF ProfilesInv
<1>13. ASSUME NEW p \in Procs, WriteFails(p) PROVE ProfilesInv'
  <2>1. JobInv' /\ StoreInv'
    BY <1>1, <1>13, WriteFailsStep
  <2>2. PICK n \in Names : n = job[p].name
    BY <1>1, <1>13 DEF WriteFails, JobInv, FilePcs
  <2>3. Touch(n) /\ \A m \in Names \ {n} : store'[m] = store[m]
    BY <1>4, <1>13, <2>2 DEF WriteFails
  <2> QED BY <1>1, <1>5, <2>1, <2>2, <2>3, TouchStep DEF ProfilesInv
<1>14. ASSUME NEW p \in Procs, Kill(p) PROVE ProfilesInv'
  <2>1. JobInv' /\ StoreInv'
    BY <1>1, <1>14, KillStep
  <2>2. GuiInv'
    <3>1. CASE p \in Guis
      <4>1. PICK u : u = NewGui /\ PanelOk(u, store)
        BY NewPanel
      <4>2. gui' = [gui EXCEPT ![p] = u] /\ store' = store
        BY <1>14, <3>1, <4>1 DEF Kill
      <4> QED BY <1>1, <3>1, <4>1, <4>2, OnePanel
    <3>2. CASE p \notin Guis
      <4>1. gui' = gui /\ store' = store
        BY <1>14, <3>2 DEF Kill
      <4> QED BY <1>1, <4>1, NoTouchStep
    <3> QED BY <3>1, <3>2
  <2> QED BY <1>5, <2>1, <2>2 DEF ProfilesInv
<1>15. ASSUME NEW c \in Clis, Unlink(c) PROVE ProfilesInv'
  <2>1. CASE store[job[c].name] # "absent"
    <3>1. JobInv' /\ StoreInv'
      BY <1>1, <1>2, <1>15, <2>1, UnlinkStep
    <3>2. PICK n \in Names : n = job[c].name
      BY <1>1, <1>2, <1>15 DEF Unlink, JobInv, FilePcs
    <3>3. Touch(n) /\ store' = [store EXCEPT ![n] = "dir"]
      BY <1>15, <2>1, <3>2 DEF Unlink
    <3>4. \A m \in Names \ {n} : store'[m] = store[m]
      BY <1>4, <3>3
    <3> QED BY <1>1, <1>5, <3>1, <3>2, <3>3, <3>4, TouchStep DEF ProfilesInv
  <2>2. CASE store[job[c].name] = "absent"
    BY <1>2, <1>9, <1>15, <2>2 DEF Unlink, past
  <2> QED BY <2>1, <2>2
<1>16. ASSUME NEW c \in Clis, Rmdir(c) PROVE ProfilesInv'
  <2>1. PICK j \in Jobs : /\ j = IF job[c].next = "idle" THEN Idle
                                 ELSE [Idle EXCEPT !.pc = job[c].next]
                          /\ j.pc \in {"idle", "list", "refresh"}
    <3>1. job[c].next \in {"idle", "list", "refresh"}
      BY <1>2, <1>3 DEF Jobs
    <3> QED BY <3>1, IdleFacts DEF Pcs
  <2>2. job' = [job EXCEPT ![c] = j] /\ job[c].pc = "rmdir"
    BY <1>16, <2>1 DEF Rmdir, Succeed
  <2>3. job[c].name \in Names
    BY <1>1, <1>2, <2>2 DEF JobInv, FilePcs
  <2>4. /\ store' \in [Names -> States]
        /\ \A n \in Names : \/ store'[n] = store[n]
                            \/ store[n] = "dir" /\ store'[n] = "absent"
    BY <1>4, <1>16, <2>3 DEF Rmdir, States
  <2>5. UNCHANGED <<fd, gui, raced, torn>>
    BY <1>16 DEF Rmdir, past
  <2>6. Quiet(c, j)
    BY <2>1, <2>2, <2>4, <2>5 DEF Quiet, FilePcs
  <2> QED BY <1>2, <1>6, <2>5, <2>6
<1>17. ASSUME NEW c \in Clis, NEW n \in CliNames, CliCreate(c, n) PROVE ProfilesInv'
  <2>1. PICK j \in Jobs :
          /\ j = [pc |-> "mkdir", name |-> n, text |-> "tuned", next |-> "idle"]
          /\ j.pc = "mkdir" /\ j.name \in Names
    <3>1. [pc |-> "mkdir", name |-> n, text |-> "tuned", next |-> "idle"] \in Jobs
      BY <1>2 DEF Jobs, Pcs, FilePcs, Texts
    <3> QED BY <1>2, <3>1
  <2>2. /\ job' = [job EXCEPT ![c] = j] /\ job[c].pc = "idle"
        /\ UNCHANGED <<store, fd, gui, raced, torn>>
    BY <1>17, <2>1, IdleFacts DEF CliCreate, past
  <2> QED BY <1>2, <1>6, <1>8, <2>1, <2>2
<1>18. ASSUME NEW c \in Clis, NEW n \in CliNames, CliDelete(c, n) PROVE ProfilesInv'
  <2>1. PICK j \in Jobs :
          /\ j = [Idle EXCEPT !.pc = "unlink", !.name = n]
          /\ j.pc = "unlink" /\ j.name \in Names
    <3>1. Idle \in Jobs /\ "unlink" \in Pcs /\ n \in Names
      BY <1>2, IdleFacts DEF Pcs, FilePcs
    <3>2. PICK i \in Jobs, l \in Pcs : i = Idle /\ l = "unlink"
      BY <3>1
    <3>3. PICK j : j = [i EXCEPT !.pc = l, !.name = n]
      OBVIOUS
    <3>4. j \in Jobs /\ j.pc = l /\ j.name = n
      BY <3>1, <3>3 DEF Jobs
    <3> QED BY <3>1, <3>2, <3>3, <3>4
  <2>2. /\ job' = [job EXCEPT ![c] = j] /\ job[c].pc = "idle"
        /\ UNCHANGED <<store, fd, gui, raced, torn>>
    BY <1>18, <2>1, IdleFacts DEF CliDelete, past
  <2> QED BY <1>2, <1>6, <1>8, <2>1, <2>2
<1>19. ASSUME NEW p \in Procs, NEW next \in {"idle", "list"}, EnsureDefault(p, next),
              job[p].pc # "write", UNCHANGED <<store, fd, gui, raced, torn>>
       PROVE  ProfilesInv'
  <2>1. PICK j \in Jobs :
          /\ j = IF Exists(Default) THEN [Idle EXCEPT !.pc = next]
                 ELSE [pc |-> "mkdir", name |-> Default, text |-> "std", next |-> next]
          /\ j.pc # "write" /\ (j.pc \in FilePcs => j.name \in Names)
    <3>1. /\ [Idle EXCEPT !.pc = next] \in Jobs
          /\ [Idle EXCEPT !.pc = next].pc = next /\ next \notin FilePcs
      BY IdleFacts DEF Pcs, FilePcs
    <3>2. [pc |-> "mkdir", name |-> Default, text |-> "std", next |-> next] \in Jobs
      BY <1>2 DEF Jobs, Pcs, FilePcs, Texts
    <3> QED BY <1>2, <3>1, <3>2 DEF FilePcs
  <2>2. job' = [job EXCEPT ![p] = j]
    BY <1>19, <2>1 DEF EnsureDefault
  <2> QED BY <1>6, <1>8, <1>19, <2>1, <2>2
<1>20. ASSUME NEW g \in Guis, Refresh(g) PROVE ProfilesInv'
  <2>1. job[g].pc # "write" /\ EnsureDefault(g, "list") /\ UNCHANGED <<store, fd, gui, raced, torn>>
    BY <1>20, IdleFacts DEF Refresh, past
  <2> QED BY <1>2, <1>19, <2>1
<1>21. CASE DaemonDefault
  <2>1. /\ job[Daemon].pc # "write" /\ EnsureDefault(Daemon, "idle")
        /\ UNCHANGED <<store, fd, gui, raced, torn>>
    BY <1>21, IdleFacts DEF DaemonDefault, past
  <2> QED BY <1>2, <1>19, <2>1
<1>22. ASSUME NEW g \in Guis, List(g) PROVE ProfilesInv'
  <2>1. PICK j \in Jobs : j = [job[g] EXCEPT !.pc = "status"] /\ j.pc = "status"
    <3>1. "status" \in Pcs
      BY DEF Pcs
    <3> QED BY <1>2, <1>3, <3>1, GotoFields
  <2>2. /\ job' = [job EXCEPT ![g] = j] /\ job[g].pc = "list"
        /\ UNCHANGED <<store, fd, raced, torn>>
    BY <1>1, <1>2, <1>22, <2>1 DEF List, Goto, JobInv
  <2>3. JobInv' /\ StoreInv'
    BY <1>1, <1>2, <1>8, <2>1, <2>2, QuietStep DEF FilePcs
  <2>4. GuiInv'
    BY <1>1, <1>22, ListStep
  <2> QED BY <1>5, <2>3, <2>4 DEF ProfilesInv
<1>23. ASSUME NEW g \in Guis, Status(g) PROVE ProfilesInv'
  <2>1. PICK j \in Jobs : /\ j = IF daemon /\ ~gui[g].attempted
                                   THEN [Idle EXCEPT !.pc = "boot"] ELSE Idle
                          /\ j.pc \in {"idle", "boot"}
    BY IdleFacts DEF Pcs
  <2>2. /\ job' = [job EXCEPT ![g] = j] /\ job[g].pc = "status"
        /\ UNCHANGED <<store, fd, gui, raced, torn>>
    BY <1>23, <2>1 DEF Status, past
  <2> QED BY <1>2, <1>6, <1>8, <2>1, <2>2 DEF FilePcs
<1>24. ASSUME NEW g \in Guis, AutoStart(g) PROVE ProfilesInv'
  <2>1. PICK j \in Jobs : j = Idle /\ j.pc = "idle"
    BY IdleFacts
  <2>2. /\ job' = [job EXCEPT ![g] = j] /\ job[g].pc = "boot"
        /\ UNCHANGED <<store, fd, raced, torn>>
    BY <1>24, <2>1 DEF AutoStart, past
  <2>3. JobInv' /\ StoreInv'
    BY <1>1, <1>2, <1>8, <2>1, <2>2, QuietStep DEF FilePcs
  <2>4. GuiInv'
    BY <1>1, <1>24, AutoStartStep
  <2> QED BY <1>5, <2>3, <2>4 DEF ProfilesInv
<1>25. ASSUME NEW g \in Guis, CreateDevice(g) PROVE ProfilesInv'
  <2>1. NewName(g) \in Names
    BY <1>1, <1>25, NewNameType DEF CreateDevice
  <2>2. PICK j \in Jobs :
          /\ j = [pc |-> "mkdir", name |-> NewName(g), text |-> "std", next |-> "refresh"]
          /\ j.pc = "mkdir" /\ j.name \in Names
    <3>1. [pc |-> "mkdir", name |-> NewName(g), text |-> "std", next |-> "refresh"] \in Jobs
      BY <2>1 DEF Jobs, Pcs, FilePcs, Texts
    <3> QED BY <2>1, <3>1
  <2>3. /\ job' = [job EXCEPT ![g] = j] /\ job[g].pc = "idle"
        /\ UNCHANGED <<store, fd, gui, raced, torn>>
    BY <1>25, <2>2, IdleFacts DEF CreateDevice, past
  <2> QED BY <1>2, <1>6, <1>8, <2>2, <2>3
<1>26. ASSUME NEW g \in Guis, NEW n \in Names, Select(g, n) PROVE ProfilesInv'
  <2>1. UNCHANGED <<store, job, fd, raced, torn>>
    BY <1>26 DEF Select, past
  <2>2. JobInv' /\ StoreInv'
    BY <1>1, <2>1 DEF JobInv, StoreInv, EmptyHasWriter, GarbageNeedsRace
  <2>3. GuiInv'
    BY <1>1, <1>26, SelectStep
  <2> QED BY <1>5, <2>2, <2>3 DEF ProfilesInv
<1>27. CASE DaemonComes \/ DaemonGoes \/ UNCHANGED vars
  <2>1. UNCHANGED <<store, job, fd, gui, raced, torn>>
    BY <1>27 DEF DaemonComes, DaemonGoes, vars, past
  <2>2. JobInv' /\ StoreInv'
    BY <1>1, <2>1 DEF JobInv, StoreInv, EmptyHasWriter, GarbageNeedsRace
  <2>3. GuiInv'
    BY <1>1, <2>1, NoTouchStep
  <2> QED BY <1>5, <2>2, <2>3 DEF ProfilesInv
<1> QED BY <1>7, <1>10, <1>11, <1>12, <1>14, <1>15, <1>16, <1>17, <1>18, <1>20, <1>21,
           <1>22, <1>23, <1>24, <1>25, <1>26, <1>27, <1>13, <1>2
        DEF Next, Writing, Panel

-----------------------------------------------------------------------------
\* No profile exists and nobody writes one.
LEMMA InitProfiles == Init => ProfilesInv
<1> SUFFICES ASSUME Init PROVE ProfilesInv
  OBVIOUS
<1>1. /\ store = [n \in Names |-> "absent"] /\ job = [p \in Procs |-> Started(p)]
      /\ fd = [p \in Procs |-> "none"] /\ gui = [g \in Guis |-> NewGui]
      /\ daemon = FALSE
  BY DEF Init
<1>2. \A p \in Procs : Started(p) \in Jobs /\ Started(p).pc \in {"idle", "refresh"}
  BY IdleFacts DEF Started, Pcs
<1>3. JobInv
  BY <1>1, <1>2 DEF JobInv, FilePcs
<1>4. StoreInv
  BY <1>1 DEF StoreInv, EmptyHasWriter, GarbageNeedsRace, States
<1>5. \A g \in Guis : PanelOk(gui[g], store)
  BY <1>1, NewPanel
<1>6. GuiInv
  BY <1>1, <1>5 DEF GuiInv, PanelOk, SelectionSticks, Watched
<1>7. daemon \in BOOLEAN
  BY DEF Init
<1> QED BY <1>3, <1>4, <1>6, <1>7 DEF ProfilesInv

\* The inductive invariant of the profile directory and of those who use it.
THEOREM ProfilesInvariant == Spec => []ProfilesInv
BY InitProfiles, StepProfiles, PTL DEF Spec

\* Every variable keeps the values its part of the code can give it.
THEOREM ProfilesTypes == Spec => []TypeOK
<1>1. ProfilesInv => TypeOK
  BY DEF ProfilesInv, JobInv, StoreInv, GuiInv, TypeOK, States, Panels
<1> QED BY <1>1, ProfilesInvariant, PTL

\* For every number of GUIs, CLIs and names: a metadata.json that is empty or
\* ends too early is about to be written, or a writer was killed or has failed.
THEOREM EmptyIsTorn == Spec => []EmptyHasWriter
<1>1. ProfilesInv => EmptyHasWriter
  BY DEF ProfilesInv, StoreInv
<1> QED BY <1>1, ProfilesInvariant, PTL

\* For every number of GUIs, CLIs and names: a mixed metadata.json comes from
\* two processes that had it open together.
THEOREM GarbageIsRaced == Spec => []GarbageNeedsRace
<1>1. ProfilesInv => GarbageNeedsRace
  BY DEF ProfilesInv, StoreInv
<1> QED BY <1>1, ProfilesInvariant, PTL

\* For every number of GUIs, CLIs and names: refresh gives up the user's choice
\* only when somebody has written or removed that profile.
THEOREM ChoiceIsKept == Spec => []SelectionSticks
<1>1. ProfilesInv => SelectionSticks
  BY DEF ProfilesInv, GuiInv
<1> QED BY <1>1, ProfilesInvariant, PTL

-----------------------------------------------------------------------------
(***************************************************************************)
(* What create_device counts on, when there is one GUI.  A number that has *)
(* been used is never larger than the number of directories, and between   *)
(* a listing and the next one never larger than what was listed; so the    *)
(* next number has not been used.  A second GUI would take the same number *)
(* from the same list.                                                     *)
(***************************************************************************)

\* The profiles that have a metadata.json, and those that have a directory.
Opened == {n \in Names : Exists(n)}
Present == {n \in Names : store[n] # "absent"}

\* No number in use is larger than the size of S.
Counted(S) == \A i \in DOMAIN PixelLite : PixelLite[i] \in Opened => i <= Cardinality(S)

\* The GUI has listed the devices since its start and since its last creation.
Creating(j) == j.pc \in {"mkdir", "open"} /\ j.name \in Pixels
Listed(j) == j.pc \in {"idle", "status", "boot"} \/ Creating(j)

\* A creation under way is the one of the next number after d.
Aims(j, d) == Creating(j) => /\ Cardinality(d) < Len(PixelLite)
                             /\ j.name = PixelLite[Cardinality(d) + 1]

\* After a write the GUI lists the devices again.
Returns(j) ==
  j.pc \in {"mkdir", "open", "write"} =>
    j.next = "list" \/ (j.next = "refresh" /\ j.name \in Pixels)

FreshInv(g) ==
  /\ \A p \in Procs : /\ fd[p] = "live" => job[p].name \in Opened
                      /\ job[p].pc = "rmdir" => miscount
  /\ Returns(job[g])
  /\ ~miscount =>
       /\ Counted(Present)
       /\ Listed(job[g]) => /\ gui[g].devices \subseteq Opened
                            /\ Counted(gui[g].devices) /\ Aims(job[g], gui[g].devices)

\* So a part of a set of names has no more elements, and fewer when one is left out.
LEMMA Counting ==
  ASSUME NEW S \in SUBSET Names, NEW T \in SUBSET Names, S \subseteq T
  PROVE  /\ Cardinality(S) \in Nat /\ Cardinality(T) \in Nat
         /\ Cardinality(S) <= Cardinality(T)
         /\ \A n \in T \ S : Cardinality(S) + 1 <= Cardinality(T)
<1>1. IsFiniteSet(T) /\ IsFiniteSet(S)
  BY NamesFinite, FS_Subset
<1>2. Cardinality(S) \in Nat /\ Cardinality(T) \in Nat /\ Cardinality(S) <= Cardinality(T)
  BY <1>1, FS_Subset, FS_CardinalityType
<1>3. ASSUME NEW n \in T \ S PROVE Cardinality(S) + 1 <= Cardinality(T)
  <2>1. Cardinality(S \cup {n}) = Cardinality(S) + 1
    BY <1>1, FS_AddElement
  <2>2. S \cup {n} \subseteq T
    OBVIOUS
  <2>3. Cardinality(S \cup {n}) <= Cardinality(T)
    BY <1>1, <2>2, FS_Subset
  <2> QED BY <2>1, <2>3
<1> QED BY <1>2, <1>3

\* Numbers stay below a count that grows.
LEMMA CountedMore ==
  ASSUME NEW S \in SUBSET Names, NEW T \in SUBSET Names, S \subseteq T, Counted(S),
         \A n \in Pixels : n \in Opened' => n \in Opened
  PROVE  \A i \in DOMAIN PixelLite : PixelLite[i] \in Opened' => i <= Cardinality(T)
<1>1. Cardinality(S) \in Nat /\ Cardinality(T) \in Nat /\ Cardinality(S) <= Cardinality(T)
  BY Counting
<1>2. DOMAIN PixelLite \subseteq Nat
  <2>1. PixelLite \in Seq(Pixels)
    BY ProfilesAssumption
  <2>2. DOMAIN PixelLite = 1..Len(PixelLite) /\ Len(PixelLite) \in Nat
    BY <2>1
  <2> QED BY <2>2
<1> SUFFICES ASSUME NEW i \in DOMAIN PixelLite, PixelLite[i] \in Opened'
             PROVE  i <= Cardinality(T)
  OBVIOUS
<1>3. PixelLite[i] \in Opened
  BY DEF Pixels
<1>4. i <= Cardinality(S) /\ i \in Nat
  BY <1>2, <1>3 DEF Counted
<1> QED BY <1>1, <1>4

\* A call that opens no file.
LEMMA FreshQuiet ==
  ASSUME NEW g, Guis = {g}, ProfilesInv, FreshInv(g),
         NEW p \in Procs, NEW j \in Jobs, Quiet(p, j),
         miscount' = miscount, gui'[g].devices = gui[g].devices,
         j.pc = "rmdir" => miscount,
         miscount \/ \A n \in Names : store[n] # "absent" => store'[n] # "absent",
         p = g => /\ Returns(j)
                  /\ Listed(j) => Listed(job[g]) /\ (miscount \/ Aims(j, gui[g].devices))
  PROVE  FreshInv(g)'
<1>1. /\ job' \in [Procs -> Jobs] /\ job'[p] = j
      /\ \A q \in Procs \ {p} : job'[q] = job[q]
  BY OneJob DEF Quiet, ProfilesInv
<1>2. Opened' = Opened
  BY DEF Opened, Exists, Quiet
<1>3. g \in Procs
  BY DEF Procs
<1>4. fd' = fd /\ fd[p] # "live"
  BY DEF Quiet, ProfilesInv, JobInv
<1>5. \A q \in Procs : /\ fd'[q] = "live" => job'[q].name \in Opened'
                       /\ job'[q].pc = "rmdir" => miscount'
  BY <1>1, <1>2, <1>4 DEF FreshInv
<1>6. Returns(job'[g])
  BY <1>1, <1>3 DEF FreshInv
<1>7. ASSUME ~miscount'
      PROVE  Counted(Present)' /\
             (Listed(job'[g]) => /\ gui'[g].devices \subseteq Opened'
                                 /\ Counted(gui[g].devices)'
                                 /\ Aims(job'[g], gui'[g].devices))
  <2>1. Present \subseteq Present' /\ Present \subseteq Names /\ Present' \subseteq Names
    BY <1>7 DEF Present
  <2>2. Counted(Present)
    BY <1>7 DEF FreshInv
  <2>3. Counted(Present)'
    BY <1>2, <2>1, <2>2, CountedMore DEF Counted
  <2>4. Listed(job'[g]) => Listed(job[g]) /\ Aims(job'[g], gui[g].devices)
    BY <1>1, <1>3, <1>7 DEF FreshInv
  <2> QED BY <1>2, <1>7, <2>3, <2>4 DEF FreshInv, Counted
<1> QED BY <1>5, <1>6, <1>7 DEF FreshInv, Returns, Listed, Aims, Creating

\* Nothing is promised once the count went wrong.
LEMMA FreshLost ==
  ASSUME NEW g, FreshInv(g), miscount', Returns(job'[g]),
         \A q \in Procs : fd'[q] = "live" => job'[q].name \in Opened'
  PROVE  FreshInv(g)'
BY DEF FreshInv, Returns

\* The GUI opens the file of a new number; nobody else opens such a file unnoticed.
LEMMA FreshOpen ==
  ASSUME NEW g, Guis = {g}, ProfilesInv, FreshInv(g), NEW p \in Procs, Open(p)
  PROVE  FreshInv(g)'
<1>0. JobInv /\ store \in [Names -> States] /\ g \in Procs /\ gui[g] \in Panels
  BY DEF ProfilesInv, StoreInv, Procs, GuiInv
<1>1. PICK n \in Names : n = job[p].name
  BY <1>0 DEF Open, JobInv, FilePcs
<1>2. PICK j \in Jobs : /\ j = [job[p] EXCEPT !.pc = "write"] /\ j.pc = "write"
                        /\ j.name = n /\ j.next = job[p].next
  <2>1. job[p] \in Jobs
    BY <1>0 DEF JobInv
  <2>2. "write" \in Pcs
    BY DEF Pcs, FilePcs
  <2>3. [job[p] EXCEPT !.pc = "write"].next = job[p].next
    BY <2>1 DEF Jobs
  <2> QED BY <1>1, <2>1, <2>2, <2>3, GotoFields
<1>3. job' = [job EXCEPT ![p] = j]
  BY <1>0, <1>2 DEF Open, Goto, JobInv
<1>4. /\ job' \in [Procs -> Jobs] /\ job'[p] = j
      /\ \A q \in Procs \ {p} : job'[q] = job[q]
  BY <1>0, <1>3, OneJob
<1>5. /\ store' = [store EXCEPT ![n] = "empty"] /\ fd' = [fd EXCEPT ![p] = "live"]
      /\ job[p].pc = "open" /\ store[n] # "absent" /\ Touch(n)
      /\ miscount' = (miscount \/ (n \in Pixels /\ p \notin Guis))
  BY <1>1 DEF Open
<1>6. Opened' = Opened \cup {n} /\ Present' = Present /\ n \in Present
  BY <1>0, <1>5 DEF Opened, Present, Exists
<1>7. gui'[g].devices = gui[g].devices
  BY <1>0, <1>5 DEF Touch, Panels
<1>8. \A q \in Procs : /\ fd'[q] = "live" => job'[q].name \in Opened'
                       /\ job'[q].pc = "rmdir" => miscount'
  <2> SUFFICES ASSUME NEW q \in Procs
               PROVE /\ fd'[q] = "live" => job'[q].name \in Opened'
                     /\ job'[q].pc = "rmdir" => miscount'
    OBVIOUS
  <2>1. CASE q = p
    BY <1>2, <1>4, <1>6, <2>1
  <2>2. CASE q # p
    <3>1. job'[q] = job[q] /\ fd'[q] = fd[q]
      BY <1>0, <1>4, <1>5, <2>2 DEF JobInv
    <3> QED BY <1>5, <1>6, <3>1 DEF FreshInv
  <2> QED BY <2>1, <2>2
<1>9. Returns(job'[g])
  <2>1. CASE p = g
    BY <1>1, <1>2, <1>4, <1>5, <2>1 DEF FreshInv, Returns
  <2>2. CASE p # g
    BY <1>0, <1>4, <2>2 DEF FreshInv
  <2> QED BY <2>1, <2>2
<1>10. ASSUME ~miscount'
       PROVE  /\ Counted(Present)'
              /\ Listed(job'[g]) => /\ gui'[g].devices \subseteq Opened'
                                    /\ Counted(gui[g].devices)'
                                    /\ Aims(job'[g], gui'[g].devices)
  <2>1. ~miscount /\ (n \in Pixels => p = g)
    BY <1>5, <1>10
  <2>2. CASE n \in Pixels
    <3>1. p = g /\ Listed(job[g]) /\ Creating(job[g])
      BY <1>1, <1>5, <2>1, <2>2 DEF Listed, Creating
    <3>2. PICK d : /\ d = gui[g].devices /\ d \subseteq Opened
                   /\ Counted(d) /\ Aims(job[g], d)
      BY <2>1, <3>1 DEF FreshInv
    <3>3. n = PixelLite[Cardinality(d) + 1] /\ Cardinality(d) < Len(PixelLite)
      BY <1>1, <3>1, <3>2 DEF Aims
    <3>4. d \subseteq Present /\ Present \subseteq Names /\ d \subseteq Names
      BY <3>2 DEF Opened, Present, Exists
    <3>5. Cardinality(d) \in Nat /\ Cardinality(Present) \in Nat
      BY <3>4, Counting
    <3>6. DOMAIN PixelLite = 1..Len(PixelLite) /\ Len(PixelLite) \in Nat
      <4>1. PixelLite \in Seq(Pixels)
        BY ProfilesAssumption
      <4> QED BY <4>1
    <3>7. Cardinality(d) + 1 \in DOMAIN PixelLite /\ ~(Cardinality(d) + 1 <= Cardinality(d))
      BY <3>3, <3>5, <3>6
    <3>8. n \notin Opened
      BY <3>2, <3>3, <3>7 DEF Counted
    <3>9. Cardinality(d) + 1 <= Cardinality(Present)
      BY <1>6, <3>2, <3>4, <3>8, Counting
    <3>10. ASSUME NEW i \in DOMAIN PixelLite, PixelLite[i] \in Opened'
           PROVE  i <= Cardinality(Present')
      <4>1. CASE PixelLite[i] \in Opened
        <5>1. Counted(Present)
          BY <2>1 DEF FreshInv
        <5> QED BY <1>6, <4>1, <5>1 DEF Counted
      <4>2. CASE PixelLite[i] = n
        <5>1. i = Cardinality(d) + 1
          BY <3>3, <3>7, <4>2, ProfilesAssumption
        <5> QED BY <1>6, <3>9, <5>1
      <4> QED BY <1>6, <3>10, <4>1, <4>2
    <3>11. Counted(Present)'
      BY <3>10 DEF Counted
    <3>12. ~Listed(job'[g])
      BY <1>2, <1>4, <3>1 DEF Listed, Creating
    <3> QED BY <3>11, <3>12
  <2>3. CASE n \notin Pixels
    <3>1. \A m \in Pixels : m \in Opened' => m \in Opened
      BY <1>6, <2>3
    <3>2. Present \subseteq Names /\ Counted(Present)
      BY <2>1 DEF Present, FreshInv
    <3>3. Counted(Present)'
      BY <1>6, <3>1, <3>2, CountedMore DEF Counted
    <3>4. ASSUME Listed(job'[g])
          PROVE  /\ gui'[g].devices \subseteq Opened' /\ Counted(gui[g].devices)'
                 /\ Aims(job'[g], gui'[g].devices)
      <4>1. p # g
        BY <1>2, <1>4, <3>4 DEF Listed, Creating
      <4>2. job'[g] = job[g]
        BY <1>0, <1>4, <4>1
      <4>3. /\ gui[g].devices \subseteq Opened /\ Counted(gui[g].devices)
            /\ Aims(job[g], gui[g].devices)
        BY <2>1, <3>4, <4>2 DEF FreshInv
      <4>4. gui[g].devices \subseteq Names
        BY <4>3 DEF Opened
      <4>5. \A i \in DOMAIN PixelLite :
              PixelLite[i] \in Opened' => i <= Cardinality(gui[g].devices)
        BY <3>1, <4>3, <4>4, CountedMore
      <4> QED BY <1>6, <1>7, <4>2, <4>3, <4>5 DEF Counted
    <3> QED BY <3>3, <3>4
  <2> QED BY <2>2, <2>3
<1> QED BY <1>8, <1>9, <1>10 DEF FreshInv, Returns, Listed, Aims, Creating

\* Writing changes neither which files exist nor who has listed them.
LEMMA FreshWrite ==
  ASSUME NEW g, Guis = {g}, ProfilesInv, FreshInv(g), NEW p \in Procs, Write(p)
  PROVE  FreshInv(g)'
<1>0. JobInv /\ store \in [Names -> States] /\ g \in Procs /\ gui[g] \in Panels
  BY DEF ProfilesInv, StoreInv, Procs, GuiInv
<1>1. PICK n \in Names : n = job[p].name
  BY <1>0 DEF Write, JobInv, FilePcs
<1>2. job[p].text \in Texts /\ job[p].next \in {"idle", "list", "refresh"}
  BY <1>0 DEF JobInv, Jobs
<1>3. PICK j \in Jobs : /\ j = IF job[p].next = "idle" THEN Idle
                               ELSE [Idle EXCEPT !.pc = job[p].next]
                        /\ j.pc = job[p].next
  BY <1>2, IdleFacts DEF Pcs
<1>4. job' = [job EXCEPT ![p] = j] /\ fd' = [fd EXCEPT ![p] = "none"] /\ Touch(n)
      /\ miscount' = miscount /\ job[p].pc = "write"
  BY <1>1, <1>3 DEF Write, Succeed, past
<1>5. /\ job' \in [Procs -> Jobs] /\ job'[p] = j
      /\ \A q \in Procs \ {p} : job'[q] = job[q]
  BY <1>0, <1>4, OneJob
<1>6. Opened' = Opened /\ Present' = Present
  <2>1. fd[p] = "live" => n \in Opened
    BY <1>1 DEF FreshInv
  <2>2. /\ \A m \in Names \ {n} : store'[m] = store[m]
        /\ store'[n] \in IF fd[p] = "live" THEN Over(store[n], job[p].text) ELSE {store[n]}
    BY <1>0, <1>1 DEF Write
  <2>3. fd[p] = "live" => store'[n] \notin {"absent", "dir"}
    BY <1>2, <2>2 DEF Over, Texts
  <2> QED BY <2>1, <2>2, <2>3 DEF Opened, Present, Exists
<1>7. gui'[g].devices = gui[g].devices
  BY <1>0, <1>4 DEF Touch, Panels
<1>8. \A q \in Procs : /\ fd'[q] = "live" => job'[q].name \in Opened'
                       /\ job'[q].pc = "rmdir" => miscount'
  <2> SUFFICES ASSUME NEW q \in Procs
               PROVE /\ fd'[q] = "live" => job'[q].name \in Opened'
                     /\ job'[q].pc = "rmdir" => miscount'
    OBVIOUS
  <2>1. CASE q = p
    BY <1>0, <1>2, <1>3, <1>4, <1>5, <2>1 DEF JobInv
  <2>2. CASE q # p
    <3>1. job'[q] = job[q] /\ fd'[q] = fd[q]
      BY <1>0, <1>4, <1>5, <2>2 DEF JobInv
    <3> QED BY <1>4, <1>6, <3>1 DEF FreshInv
  <2> QED BY <2>1, <2>2
<1>9. Returns(job'[g]) /\ (Listed(job'[g]) => job'[g] = job[g])
  <2>1. CASE p = g
    <3>1. job[g].next \in {"list", "refresh"}
      BY <1>4, <2>1 DEF FreshInv, Returns
    <3> QED BY <1>3, <1>5, <2>1, <3>1 DEF Returns, Listed, Creating
  <2>2. CASE p # g
    BY <1>0, <1>5, <2>2 DEF FreshInv
  <2> QED BY <2>1, <2>2
<1> QED BY <1>4, <1>6, <1>7, <1>8, <1>9 DEF FreshInv, Counted, Returns, Listed, Aims, Creating

\* A write that fails leaves the file there; the GUI counts right only if the
\* file was not one of its own.
LEMMA FreshWriteFails ==
  ASSUME NEW g, Guis = {g}, ProfilesInv, FreshInv(g), NEW p \in Procs, WriteFails(p)
  PROVE  FreshInv(g)'
<1>0. JobInv /\ store \in [Names -> States] /\ g \in Procs /\ gui[g] \in Panels
  BY DEF ProfilesInv, StoreInv, Procs, GuiInv
<1>1. PICK n \in Names : n = job[p].name
  BY <1>0 DEF WriteFails, JobInv, FilePcs
<1>2. PICK j \in Jobs : /\ j = IF job[p].next = "list" THEN [Idle EXCEPT !.pc = "list"] ELSE Idle
                        /\ j.pc = IF job[p].next = "list" THEN "list" ELSE "idle"
  BY IdleFacts DEF Pcs
<1>3. /\ job' = [job EXCEPT ![p] = j] /\ fd' = [fd EXCEPT ![p] = "none"] /\ Touch(n)
      /\ miscount' = (miscount \/ n \in Pixels) /\ job[p].pc = "write"
  BY <1>1, <1>2 DEF WriteFails, GiveUp
<1>4. /\ job' \in [Procs -> Jobs] /\ job'[p] = j
      /\ \A q \in Procs \ {p} : job'[q] = job[q]
  BY <1>0, <1>3, OneJob
<1>5. Opened' = Opened /\ Present' = Present
  <2>1. fd[p] = "live" => n \in Opened
    BY <1>1 DEF FreshInv
  <2>2. /\ \A m \in Names \ {n} : store'[m] = store[m]
        /\ store'[n] \in IF fd[p] = "live" THEN Cut(store[n]) ELSE {store[n]}
    BY <1>0, <1>1 DEF WriteFails
  <2>3. fd[p] = "live" => store'[n] \notin {"absent", "dir"}
    BY <2>1, <2>2 DEF Cut, Opened, Exists
  <2> QED BY <2>1, <2>2, <2>3 DEF Opened, Present, Exists
<1>6. gui'[g].devices = gui[g].devices
  BY <1>0, <1>3 DEF Touch, Panels
<1>7. \A q \in Procs : /\ fd'[q] = "live" => job'[q].name \in Opened'
                       /\ job'[q].pc = "rmdir" => miscount'
  <2> SUFFICES ASSUME NEW q \in Procs
               PROVE /\ fd'[q] = "live" => job'[q].name \in Opened'
                     /\ job'[q].pc = "rmdir" => miscount'
    OBVIOUS
  <2>1. CASE q = p
    BY <1>0, <1>2, <1>3, <1>4, <2>1 DEF JobInv
  <2>2. CASE q # p
    <3>1. job'[q] = job[q] /\ fd'[q] = fd[q]
      BY <1>0, <1>3, <1>4, <2>2 DEF JobInv
    <3>2. miscount => miscount'
      BY <1>3, Zenon
    <3> QED BY <1>5, <3>1, <3>2 DEF FreshInv
  <2> QED BY <2>1, <2>2
<1>8. Returns(job'[g]) /\ (Listed(job'[g]) => job'[g] = job[g] \/ n \in Pixels)
  <2>1. CASE p = g
    <3>1. job[g].next = "list" \/ n \in Pixels
      BY <1>1, <1>3, <2>1 DEF FreshInv, Returns
    <3> QED BY <1>2, <1>4, <2>1, <3>1 DEF Returns, Listed, Creating
  <2>2. CASE p # g
    BY <1>0, <1>4, <2>2 DEF FreshInv
  <2> QED BY <2>1, <2>2
<1>9. CASE miscount'
  BY <1>7, <1>8, <1>9, FreshLost
<1>10. CASE ~miscount'
  BY <1>3, <1>5, <1>6, <1>7, <1>8, <1>10
     DEF FreshInv, Counted, Returns, Listed, Aims, Creating
<1> QED BY <1>9, <1>10

\* A GUI that is started again has to list the devices first.
LEMMA FreshKill ==
  ASSUME NEW g, Guis = {g}, ProfilesInv, FreshInv(g), NEW p \in Procs, Kill(p)
  PROVE  FreshInv(g)'
<1>0. JobInv /\ g \in Procs
  BY DEF ProfilesInv, Procs
<1>1. PICK j \in Jobs : /\ j = Started(p) /\ j.pc \in {"idle", "refresh"}
                        /\ p = g => j.pc = "refresh"
  BY IdleFacts DEF Started, Pcs
<1>2. /\ job' = [job EXCEPT ![p] = j] /\ fd' = [fd EXCEPT ![p] = "none"]
      /\ UNCHANGED <<store, miscount>> /\ (p # g => gui' = gui)
  BY <1>1 DEF Kill
<1>3. /\ job' \in [Procs -> Jobs] /\ job'[p] = j
      /\ \A q \in Procs \ {p} : job'[q] = job[q]
  BY <1>0, <1>2, OneJob
<1>4. Opened' = Opened /\ Present' = Present
  BY <1>2 DEF Opened, Present, Exists
<1>5. \A q \in Procs : /\ fd'[q] = "live" => job'[q].name \in Opened'
                       /\ job'[q].pc = "rmdir" => miscount'
  <2> SUFFICES ASSUME NEW q \in Procs
               PROVE /\ fd'[q] = "live" => job'[q].name \in Opened'
                     /\ job'[q].pc = "rmdir" => miscount'
    OBVIOUS
  <2>1. CASE q = p
    BY <1>0, <1>1, <1>2, <1>3, <2>1 DEF JobInv
  <2>2. CASE q # p
    <3>1. job'[q] = job[q] /\ fd'[q] = fd[q]
      BY <1>0, <1>2, <1>3, <2>2 DEF JobInv
    <3> QED BY <1>2, <1>4, <3>1 DEF FreshInv
  <2> QED BY <2>1, <2>2
<1>6. Returns(job'[g]) /\ (Listed(job'[g]) => job'[g] = job[g] /\ gui' = gui)
  <2>1. CASE p = g
    BY <1>1, <1>3, <2>1 DEF Returns, Listed, Creating
  <2>2. CASE p # g
    BY <1>0, <1>2, <1>3, <2>2 DEF FreshInv
  <2> QED BY <2>1, <2>2
<1> QED BY <1>2, <1>4, <1>5, <1>6 DEF FreshInv, Counted, Returns, Listed, Aims, Creating

\* A deletion ends what is promised; it takes open files away from their writers.
LEMMA FreshUnlink ==
  ASSUME NEW g, Guis = {g}, ProfilesInv, FreshInv(g), NEW c \in Procs, c # g,
         Unlink(c), store[job[c].name] # "absent"
  PROVE  FreshInv(g)'
<1>0. JobInv /\ store \in [Names -> States] /\ g \in Procs
  BY DEF ProfilesInv, StoreInv, Procs
<1>1. PICK n \in Names : n = job[c].name
  BY <1>0 DEF Unlink, JobInv, FilePcs
<1>2. /\ job[c].pc = "unlink" /\ store' = [store EXCEPT ![n] = "dir"] /\ miscount'
      /\ fd' = [p \in Procs |-> IF fd[p] = "live" /\ job[p].name = n THEN "dead" ELSE fd[p]]
      /\ job' = [job EXCEPT ![c] = [job[c] EXCEPT !.pc = "rmdir"]]
  BY <1>0, <1>1 DEF Unlink, Goto, JobInv
<1>3. \A q \in Procs \ {c} : job'[q] = job[q]
  BY <1>0, <1>2 DEF JobInv
<1>4. fd[c] = "none"
  BY <1>0, <1>2 DEF JobInv
<1>5. Opened' = Opened \ {n}
  BY <1>0, <1>2 DEF Opened, Exists
<1>6. \A q \in Procs : fd'[q] = "live" => job'[q].name \in Opened'
  BY <1>2, <1>3, <1>4, <1>5 DEF FreshInv
<1>7. Returns(job'[g])
  BY <1>0, <1>3 DEF FreshInv
<1> QED BY <1>2, <1>6, <1>7, FreshLost

\* A listing that leaves nothing out counts everything.
LEMMA FreshList ==
  ASSUME NEW g, Guis = {g}, ProfilesInv, FreshInv(g), List(g)
  PROVE  FreshInv(g)'
<1>0. JobInv /\ g \in Procs /\ gui \in [Guis -> Panels]
  BY DEF ProfilesInv, Procs, GuiInv
<1>1. PICK j \in Jobs : j = [job[g] EXCEPT !.pc = "status"] /\ j.pc = "status"
  <2>1. "status" \in Pcs /\ job[g] \in Jobs
    BY <1>0 DEF Pcs, JobInv
  <2> QED BY <2>1, GotoFields
<1>2. /\ job' = [job EXCEPT ![g] = j] /\ UNCHANGED <<store, fd>>
      /\ miscount' = (miscount \/ \E n \in Names : store[n] # "absent" /\ n \notin Readable)
  BY <1>0, <1>1 DEF List, Goto, JobInv
<1>3. /\ job'[g] = j /\ \A q \in Procs \ {g} : job'[q] = job[q]
  BY <1>0, <1>2, OneJob
<1>4. gui'[g].devices = Readable
  BY <1>0 DEF List, Panels
<1>5. Opened' = Opened /\ Present' = Present /\ fd[g] # "live"
  BY <1>0, <1>2 DEF Opened, Present, Exists, List, JobInv
<1>6. \A q \in Procs : /\ fd'[q] = "live" => job'[q].name \in Opened'
                       /\ job'[q].pc = "rmdir" => miscount'
  <2>1. miscount => miscount'
    BY <1>2, Zenon
  <2>2. fd' = fd /\ j.pc # "rmdir"
    BY <1>1, <1>2
  <2> QED BY <1>3, <1>5, <2>1, <2>2 DEF FreshInv
<1>7. Returns(job'[g]) /\ ~Creating(job'[g])
  BY <1>1, <1>3 DEF Returns, Creating
<1>8. ASSUME ~miscount'
      PROVE  /\ Counted(Present)' /\ gui'[g].devices \subseteq Opened'
             /\ Counted(gui[g].devices)'
  <2>1. ~miscount /\ \A n \in Names : store[n] = "absent" \/ n \in Readable
    BY <1>2, <1>8
  <2>2. Present = Readable /\ Readable \subseteq Opened
    BY <2>1 DEF Present, Readable, Opened, Exists, Texts
  <2> QED BY <1>4, <1>5, <2>1, <2>2 DEF FreshInv, Counted
<1> QED BY <1>6, <1>7, <1>8 DEF FreshInv, Returns, Aims, Creating

\* Every step keeps the invariant when there is one GUI.
LEMMA FreshStep ==
  ASSUME NEW g, Guis = {g}, ProfilesInv, FreshInv(g), [Next]_vars
  PROVE  FreshInv(g)'
<1>1. JobInv /\ StoreInv /\ GuiInv
  BY DEF ProfilesInv
<1>2. /\ g \in Procs /\ g \in Guis
      /\ \A c \in Clis : c \in Procs /\ c # g
      /\ Daemon \in Procs /\ Daemon # g
      /\ Default \in Names \ Pixels /\ CliNames \subseteq Names
  BY ProfilesAssumption DEF Procs, Names
<1>3. \A p \in Procs : job[p] \in Jobs
  BY <1>1 DEF JobInv
<1>4. store \in [Names -> States] /\ gui[g] \in Panels
  BY <1>1, <1>2 DEF StoreInv, GuiInv
\* A step that changes one job and no file.
<1>5. ASSUME NEW p \in Procs, NEW j \in Jobs, job' = [job EXCEPT ![p] = j],
             job[p].pc # "write", j.pc \notin {"write", "rmdir"},
             j.pc \in FilePcs => j.name \in Names,
             UNCHANGED <<store, fd, raced, torn, miscount>>,
             gui'[g].devices = gui[g].devices,
             p = g => /\ Returns(j)
                      /\ Listed(j) => Listed(job[g]) /\ (miscount \/ Aims(j, gui[g].devices))
      PROVE  FreshInv(g)'
  <2>1. Quiet(p, j)
    BY <1>4, <1>5 DEF Quiet
  <2> QED BY <1>5, <2>1, FreshQuiet
<1>6. ASSUME NEW p \in Procs, Mkdir(p) PROVE FreshInv(g)'
  <2>1. PICK j \in Jobs : /\ j = [job[p] EXCEPT !.pc = "open"] /\ j.pc = "open"
                          /\ j.name = job[p].name /\ j.next = job[p].next
    <3>1. "open" \in Pcs
      BY DEF Pcs, FilePcs
    <3>2. [job[p] EXCEPT !.pc = "open"].next = job[p].next
      BY <1>3 DEF Jobs
    <3> QED BY <1>3, <3>1, <3>2, GotoFields
  <2>2. job' = [job EXCEPT ![p] = j]
    BY <1>1, <1>6, <2>1 DEF Mkdir, Goto, JobInv
  <2>3. job[p].pc = "mkdir" /\ job[p].name \in Names
    BY <1>1, <1>6 DEF Mkdir, JobInv, FilePcs
  <2>4. /\ store' \in [Names -> States]
        /\ \A n \in Names : \/ store'[n] = store[n]
                            \/ store[n] = "absent" /\ store'[n] = "dir"
    BY <1>4, <1>6, <2>3 DEF Mkdir, States
  <2>5. UNCHANGED <<fd, gui, raced, torn, miscount>>
    BY <1>6 DEF Mkdir, past
  <2>6. Quiet(p, j)
    BY <2>1, <2>2, <2>3, <2>4, <2>5 DEF Quiet
  <2>7. \A n \in Names : store[n] # "absent" => store'[n] # "absent"
    BY <2>4
  <2>8. p = g => /\ Returns(j)
                 /\ Listed(j) => Listed(job[g]) /\ (miscount \/ Aims(j, gui[g].devices))
    BY <2>1, <2>3 DEF FreshInv, Returns, Listed, Aims, Creating
  <2> QED BY <2>1, <2>5, <2>6, <2>7, <2>8, FreshQuiet
<1>7. ASSUME NEW p \in Procs, GiveUp(p), job[p].pc \in {"mkdir", "open", "unlink", "rmdir"},
             UNCHANGED <<store, fd, gui, raced, torn, miscount>>,
             p = g => job[p].pc \in {"mkdir", "open"}
      PROVE  FreshInv(g)'
  <2>1. PICK j \in Jobs : /\ j = IF job[p].next = "list" THEN [Idle EXCEPT !.pc = "list"] ELSE Idle
                          /\ j.pc = IF job[p].next = "list" THEN "list" ELSE "idle"
    BY IdleFacts DEF Pcs
  <2>2. job' = [job EXCEPT ![p] = j]
    BY <1>7, <2>1 DEF GiveUp
  <2>3. p = g => Returns(j) /\ Aims(j, gui[g].devices) /\ (Listed(j) => Listed(job[g]))
    BY <1>7, <2>1 DEF FreshInv, Returns, Listed, Aims, Creating
  <2> QED BY <1>5, <1>7, <2>1, <2>2, <2>3 DEF FilePcs
<1>8. ASSUME NEW p \in Procs, OpenFails(p) \/ CallFails(p) \/ (p \in Clis /\ DeleteFails(p))
      PROVE  FreshInv(g)'
  <2>1. /\ job[p].pc \in {"mkdir", "open", "unlink", "rmdir"}
        /\ p = g => job[p].pc \in {"mkdir", "open"}
        /\ UNCHANGED <<store, fd, gui, raced, torn, miscount>>
    BY <1>2, <1>8 DEF OpenFails, CallFails, DeleteFails, past
  <2>2. CASE GiveUp(p)
    BY <1>7, <2>1, <2>2
  <2>3. CASE ~GiveUp(p)
    <3>1. Goto(p, "open") /\ job[p].pc = "mkdir" /\ p # g
      BY <1>2, <1>8, <2>3 DEF OpenFails, CallFails, DeleteFails
    <3>2. PICK j \in Jobs : j = [job[p] EXCEPT !.pc = "open"] /\ j.pc = "open"
                            /\ j.name = job[p].name
      <4>1. "open" \in Pcs
        BY DEF Pcs, FilePcs
      <4> QED BY <1>3, <4>1, GotoFields
    <3>3. job' = [job EXCEPT ![p] = j] /\ j.name \in Names
      BY <1>1, <3>1, <3>2 DEF Goto, JobInv, FilePcs
    <3> QED BY <1>5, <2>1, <3>1, <3>2, <3>3
  <2> QED BY <2>2, <2>3
<1>9. ASSUME NEW c \in Clis, Unlink(c) PROVE FreshInv(g)'
  <2>1. CASE store[job[c].name] # "absent"
    BY <1>2, <1>9, <2>1, FreshUnlink
  <2>2. CASE store[job[c].name] = "absent"
    BY <1>2, <1>7, <1>9, <2>2 DEF Unlink, past
  <2> QED BY <2>1, <2>2
<1>10. ASSUME NEW c \in Clis, Rmdir(c) PROVE FreshInv(g)'
  <2>1. PICK j \in Jobs : /\ j = IF job[c].next = "idle" THEN Idle
                                 ELSE [Idle EXCEPT !.pc = job[c].next]
                          /\ j.pc \in {"idle", "list", "refresh"}
    <3>1. job[c].next \in {"idle", "list", "refresh"}
      BY <1>2, <1>3 DEF Jobs
    <3> QED BY <3>1, IdleFacts DEF Pcs
  <2>2. job' = [job EXCEPT ![c] = j] /\ job[c].pc = "rmdir" /\ miscount
    BY <1>2, <1>10, <2>1 DEF Rmdir, Succeed, FreshInv
  <2>3. job[c].name \in Names
    BY <1>1, <1>2, <2>2 DEF JobInv, FilePcs
  <2>4. /\ store' \in [Names -> States]
        /\ \A n \in Names : \/ store'[n] = store[n]
                            \/ store[n] = "dir" /\ store'[n] = "absent"
    BY <1>4, <1>10, <2>3 DEF Rmdir, States
  <2>5. UNCHANGED <<fd, gui, raced, torn, miscount>>
    BY <1>10 DEF Rmdir, past
  <2>6. Quiet(c, j)
    BY <2>1, <2>2, <2>4, <2>5 DEF Quiet, FilePcs
  <2> QED BY <1>2, <2>1, <2>2, <2>5, <2>6, FreshQuiet
<1>11. ASSUME NEW c \in Clis, NEW n \in CliNames, CliCreate(c, n) PROVE FreshInv(g)'
  <2>1. PICK j \in Jobs :
          /\ j = [pc |-> "mkdir", name |-> n, text |-> "tuned", next |-> "idle"]
          /\ j.pc = "mkdir" /\ j.name \in Names
    <3>1. [pc |-> "mkdir", name |-> n, text |-> "tuned", next |-> "idle"] \in Jobs
      BY <1>2 DEF Jobs, Pcs, FilePcs, Texts
    <3> QED BY <1>2, <3>1
  <2>2. /\ job' = [job EXCEPT ![c] = j] /\ job[c].pc = "idle"
        /\ UNCHANGED <<store, fd, gui, raced, torn, miscount>>
    BY <1>11, <2>1, IdleFacts DEF CliCreate, past
  <2> QED BY <1>2, <1>5, <2>1, <2>2
<1>12. ASSUME NEW c \in Clis, NEW n \in CliNames, CliDelete(c, n) PROVE FreshInv(g)'
  <2>1. PICK j \in Jobs :
          /\ j = [Idle EXCEPT !.pc = "unlink", !.name = n]
          /\ j.pc = "unlink" /\ j.name \in Names
    <3>1. Idle \in Jobs /\ "unlink" \in Pcs /\ n \in Names
      BY <1>2, IdleFacts DEF Pcs, FilePcs
    <3>2. PICK i \in Jobs, l \in Pcs : i = Idle /\ l = "unlink"
      BY <3>1
    <3>3. PICK j : j = [i EXCEPT !.pc = l, !.name = n]
      OBVIOUS
    <3>4. j \in Jobs /\ j.pc = l /\ j.name = n
      BY <3>1, <3>3 DEF Jobs
    <3> QED BY <3>1, <3>2, <3>3, <3>4
  <2>2. /\ job' = [job EXCEPT ![c] = j] /\ job[c].pc = "idle"
        /\ UNCHANGED <<store, fd, gui, raced, torn, miscount>>
    BY <1>12, <2>1, IdleFacts DEF CliDelete, past
  <2> QED BY <1>2, <1>5, <2>1, <2>2
<1>13. ASSUME NEW p \in Procs, NEW next \in {"idle", "list"}, EnsureDefault(p, next),
              job[p].pc # "write", UNCHANGED <<store, fd, gui, raced, torn, miscount>>,
              p = g => next = "list"
       PROVE  FreshInv(g)'
  <2>1. PICK j \in Jobs :
          /\ j = IF Exists(Default) THEN [Idle EXCEPT !.pc = next]
                 ELSE [pc |-> "mkdir", name |-> Default, text |-> "std", next |-> next]
          /\ j.pc = next \/ (j.pc = "mkdir" /\ j.name = Default /\ j.next = next)
    <3>1. [Idle EXCEPT !.pc = next] \in Jobs /\ [Idle EXCEPT !.pc = next].pc = next
      BY IdleFacts DEF Pcs
    <3>2. [pc |-> "mkdir", name |-> Default, text |-> "std", next |-> next] \in Jobs
      BY <1>2 DEF Jobs, Pcs, FilePcs, Texts
    <3> QED BY <3>1, <3>2
  <2>2. job' = [job EXCEPT ![p] = j]
    BY <1>13, <2>1 DEF EnsureDefault
  <2>3. p = g => Returns(j) /\ ~Listed(j)
    BY <1>2, <1>13, <2>1 DEF Returns, Listed, Creating
  <2>4. j.pc \notin {"write", "rmdir"} /\ (j.pc \in FilePcs => j.name \in Names)
    BY <1>2, <2>1 DEF FilePcs
  <2> QED BY <1>5, <1>13, <2>2, <2>3, <2>4
<1>14. CASE Refresh(g)
  <2>1. /\ job[g].pc # "write" /\ EnsureDefault(g, "list")
        /\ UNCHANGED <<store, fd, gui, raced, torn, miscount>>
    BY <1>14, IdleFacts DEF Refresh, past
  <2> QED BY <1>2, <1>13, <2>1
<1>15. CASE DaemonDefault
  <2>1. /\ job[Daemon].pc # "write" /\ EnsureDefault(Daemon, "idle")
        /\ UNCHANGED <<store, fd, gui, raced, torn, miscount>>
    BY <1>15, IdleFacts DEF DaemonDefault, past
  <2> QED BY <1>2, <1>13, <2>1
<1>16. CASE Status(g)
  <2>1. PICK j \in Jobs : /\ j = IF daemon /\ ~gui[g].attempted
                                   THEN [Idle EXCEPT !.pc = "boot"] ELSE Idle
                          /\ j.pc \in {"idle", "boot"}
    BY IdleFacts DEF Pcs
  <2>2. /\ job' = [job EXCEPT ![g] = j] /\ job[g].pc = "status"
        /\ UNCHANGED <<store, fd, gui, raced, torn, miscount>>
    BY <1>16, <2>1 DEF Status, past
  <2>3. Returns(j) /\ Aims(j, gui[g].devices) /\ Listed(job[g])
    BY <2>1, <2>2 DEF Returns, Aims, Listed, Creating
  <2> QED BY <1>2, <1>5, <2>1, <2>2, <2>3 DEF FilePcs
<1>17. CASE AutoStart(g)
  <2>1. PICK j \in Jobs : j = Idle /\ j.pc = "idle"
    BY IdleFacts
  <2>2. /\ job' = [job EXCEPT ![g] = j] /\ job[g].pc = "boot"
        /\ UNCHANGED <<store, fd, raced, torn, miscount>>
    BY <1>17, <2>1 DEF AutoStart, past
  <2>3. gui'[g].devices = gui[g].devices
    BY <1>1, <1>2, <1>17 DEF AutoStart, GuiInv, Panels
  <2>4. Returns(j) /\ Aims(j, gui[g].devices) /\ Listed(job[g])
    BY <2>1, <2>2 DEF Returns, Aims, Listed, Creating
  <2> QED BY <1>2, <1>5, <2>1, <2>2, <2>3, <2>4 DEF FilePcs
<1>18. CASE CreateDevice(g)
  <2>1. NewName(g) \in Names /\ Cardinality(gui[g].devices) < Len(PixelLite)
    BY <1>1, <1>2, <1>18, NewNameType DEF CreateDevice
  <2>2. NewName(g) \in Pixels
    <3>1. gui[g].devices \subseteq Names
      BY <1>4 DEF Panels
    <3>2. Cardinality(gui[g].devices) \in Nat
      BY <3>1, Counting
    <3>3. PixelLite \in Seq(Pixels)
      BY ProfilesAssumption
    <3>4. Len(PixelLite) \in Nat /\ DOMAIN PixelLite = 1..Len(PixelLite)
      BY <3>3
    <3>5. Cardinality(gui[g].devices) + 1 \in DOMAIN PixelLite
      BY <2>1, <3>2, <3>4
    <3> QED BY <3>5 DEF NewName, Pixels
  <2>3. PICK j \in Jobs :
          /\ j = [pc |-> "mkdir", name |-> NewName(g), text |-> "std", next |-> "refresh"]
          /\ j.pc = "mkdir" /\ j.name = NewName(g) /\ j.next = "refresh"
    <3>1. [pc |-> "mkdir", name |-> NewName(g), text |-> "std", next |-> "refresh"] \in Jobs
      BY <2>1 DEF Jobs, Pcs, FilePcs, Texts
    <3> QED BY <3>1
  <2>4. /\ job' = [job EXCEPT ![g] = j] /\ job[g].pc = "idle"
        /\ UNCHANGED <<store, fd, gui, raced, torn, miscount>>
    BY <1>18, <2>3, IdleFacts DEF CreateDevice, past
  <2>5. Returns(j) /\ Aims(j, gui[g].devices) /\ Listed(job[g])
    BY <2>1, <2>2, <2>3, <2>4 DEF Returns, Aims, Listed, NewName
  <2> QED BY <1>2, <1>5, <2>1, <2>3, <2>4, <2>5
<1>19. ASSUME NEW n \in Names, Select(g, n) PROVE FreshInv(g)'
  <2>1. UNCHANGED <<store, job, fd, miscount>>
    BY <1>19 DEF Select, past
  <2>2. gui'[g].devices = gui[g].devices
    BY <1>1, <1>2, <1>19 DEF Select, GuiInv, Panels
  <2>3. Opened' = Opened /\ Present' = Present
    BY <2>1 DEF Opened, Present, Exists
  <2> QED BY <2>1, <2>2, <2>3 DEF FreshInv, Counted, Returns, Listed, Aims, Creating
<1>20. CASE DaemonComes \/ DaemonGoes \/ UNCHANGED vars
  <2>1. UNCHANGED <<store, job, fd, gui, miscount>>
    BY <1>20 DEF DaemonComes, DaemonGoes, vars, past
  <2>2. Opened' = Opened /\ Present' = Present
    BY <2>1 DEF Opened, Present, Exists
  <2> QED BY <2>1, <2>2 DEF FreshInv, Counted, Returns, Listed, Aims, Creating
<1> QED BY <1>6, <1>8, <1>9, <1>10, <1>11, <1>12, <1>14, <1>15, <1>16, <1>17, <1>18,
           <1>19, <1>20, <1>2, FreshOpen, FreshWrite, FreshWriteFails, FreshKill, FreshList
        DEF Next, Writing, Panel

\* No profile exists, and a GUI lists before anything else.
LEMMA FreshInit ==
  ASSUME NEW g, Guis = {g}, Init
  PROVE  FreshInv(g)
<1>1. g \in Procs
  BY DEF Procs
<1>2. /\ job = [p \in Procs |-> Started(p)] /\ fd = [p \in Procs |-> "none"]
      /\ store = [n \in Names |-> "absent"]
  BY DEF Init
<1>3. Opened = {}
  BY <1>2 DEF Opened, Exists
<1>4. \A p \in Procs : Started(p).pc \in {"idle", "refresh"} /\ (p = g => Started(p).pc = "refresh")
  BY IdleFacts DEF Started, Pcs
<1>5. job[g].pc = "refresh" /\ \A p \in Procs : job[p].pc # "rmdir" /\ fd[p] # "live"
  BY <1>1, <1>2, <1>4
<1> QED BY <1>3, <1>5 DEF FreshInv, Counted, Returns, Listed, Creating

\* With one GUI, create_device never overwrites a profile while its count is
\* right, whatever CLI and daemon do beside it and whoever is killed.
THEOREM CreatesFresh ==
  ASSUME NEW g, Guis = {g}
  PROVE  Spec => CreateIsFresh
<1>1. Init => FreshInv(g)
  BY FreshInit
<1>2. ProfilesInv /\ FreshInv(g) /\ [Next]_vars => FreshInv(g)'
  BY FreshStep
<1>3. ProfilesInv /\ FreshInv(g) => [OpensFree]_vars
  <2> SUFFICES ASSUME ProfilesInv, FreshInv(g), job[g].pc = "open", job[g].name \in Pixels,
                      store[job[g].name] \in Texts, ~miscount
               PROVE  FALSE
    BY DEF OpensFree
  <2>1. Creating(job[g]) /\ Listed(job[g])
    BY DEF Creating, Listed
  <2>2. PICK d : d = gui[g].devices /\ d \subseteq Opened /\ Counted(d) /\ Aims(job[g], d)
    BY <2>1 DEF FreshInv
  <2>3. job[g].name = PixelLite[Cardinality(d) + 1] /\ Cardinality(d) < Len(PixelLite)
    BY <2>1, <2>2 DEF Aims
  <2>4. Cardinality(d) \in Nat
    BY <2>2, Counting DEF Opened
  <2>5. PixelLite \in Seq(Pixels)
    BY ProfilesAssumption
  <2>6. Len(PixelLite) \in Nat /\ DOMAIN PixelLite = 1..Len(PixelLite)
    BY <2>5
  <2>7. Cardinality(d) + 1 \in DOMAIN PixelLite /\ ~(Cardinality(d) + 1 <= Cardinality(d))
    BY <2>3, <2>4, <2>6
  <2>8. job[g].name \in Opened
    BY DEF Opened, Exists, Texts, Names
  <2> QED BY <2>2, <2>3, <2>7, <2>8 DEF Counted
<1>4. Spec => []FreshInv(g)
  BY <1>1, <1>2, ProfilesInvariant, PTL DEF Spec
<1> QED BY <1>3, <1>4, ProfilesInvariant, PTL DEF CreateIsFresh
=============================================================================
