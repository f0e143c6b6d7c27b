------------------------------- MODULE VmRun --------------------------------
(***************************************************************************)
(* The run loop of VirtualMachine (crates/vmm/src/lib.rs: run, stop,       *)
(* stop_handle, is_running) around the block device of VirtioBlk.  One     *)
(* thread owns the machine and calls run; any other thread holds the stop  *)
(* flag.  The guest's driver runs while the vCPU does, and every access to *)
(* a device register is an exit from the vCPU that the loop handles.       *)
(*                                                                         *)
(* Register reads and port I/O change no state of the machine and are one  *)
(* action, IgnoredExit.  X_fault is X with a slip; no specification uses   *)
(* it.                                                                     *)
(***************************************************************************)
EXTENDS VirtioBlk

VARIABLES
  running,   \* the shared flag, Arc<AtomicBool>
  pc         \* owner: "idle" before and after run, "check" at the loop's test,
             \* "guest" in run_with_mmio, "handle" in the match on the exit

vmVars == <<vars, running, pc>>

VmInit == Init /\ running = FALSE /\ pc = "idle"

\* run sets the flag, whatever has happened to it before.
Run ==
  /\ pc = "idle"
  /\ running' = TRUE /\ pc' = "check"
  /\ UNCHANGED vars

\* The flag is tested only by the code that handles an exit.
Check_fault ==
  /\ pc = "check"
  /\ pc' = "guest"
  /\ UNCHANGED <<vars, running>>

\* The loop's test; run returns when the flag is down.
Check ==
  /\ pc = "check"
  /\ pc' = IF running THEN "guest" ELSE "idle"
  /\ UNCHANGED <<vars, running>>

\* The guest uses memory without an exit.
GuestStep == pc = "guest" /\ MemoryAccess /\ UNCHANGED <<running, pc>>

\* A write to a register is an exit and is handled by VirtioBlock::write; only
\* a notification takes more than one step.
MmioWrite ==
  /\ pc = "guest" /\ RegisterWrite
  /\ pc' = IF busy' THEN "handle" ELSE "check"
  /\ UNCHANGED running

Handle ==
  /\ pc = "handle" /\ Device
  /\ pc' = IF busy' THEN "handle" ELSE "check"
  /\ UNCHANGED running

\* Port I/O, register reads and unknown exits.
IgnoredExit ==
  /\ pc = "guest"
  /\ pc' = "check"
  /\ UNCHANGED <<vars, running>>

\* The guest halts or shuts down, raises an exception, or KVM reports a failed
\* entry, an internal error or an error of the call: the flag goes down.
FinalExit ==
  /\ pc = "guest"
  /\ running' = FALSE /\ pc' = "check"
  /\ UNCHANGED vars

\* stop, or the holder of stop_handle, in another thread at any time.
Stop ==
  /\ running' = FALSE
  /\ UNCHANGED <<vars, pc>>

VmNext ==
  \/ Run \/ Check \/ GuestStep \/ MmioWrite \/ Handle \/ IgnoredExit
  \/ FinalExit \/ Stop

\* The owner's thread runs, and a request is processed or fails in finite time.
\* The guest owes nothing: it may compute without an exit for ever, and with the
\* interrupt controller in the kernel a halted vCPU stays in there as well.
VmSpec ==
  /\ VmInit /\ [][VmNext]_vmVars
  /\ WF_vmVars(Check) /\ WF_vmVars(Handle)

-----------------------------------------------------------------------------
(***************************************************************************)
(* Properties.                                                             *)
(***************************************************************************)

\* Once the flag is down the loop ends, wherever it was when the flag changed,
\* with the device work that is under way finished, or the guest never leaves
\* the vCPU again: run looks at the flag between two exits only, and stop does
\* nothing but lower it.
FlagEndsLoop ==
  \/ (pc # "idle" /\ ~running) ~> (pc = "idle" /\ ~busy)
  \/ <>[](pc = "guest")
=============================================================================
