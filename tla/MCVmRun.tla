------------------------------ MODULE MCVmRun -------------------------------
(***************************************************************************)
(* VmRun for TLC: a driver whose layout suits the device, and one with the *)
(* layout of virtio.                                                       *)
(***************************************************************************)
EXTENDS VmRun, TLC

CONSTANTS v, empty

MCValues == {v}

\* The first driver asks for a size that does not fit the indices, the second
\* for one above the limit: both are granted 4.
MCLayouts ==
  {[size |-> 12, avail |-> 0,
    chains |-> 3 :> [data |-> 5, status |-> 1] @@ 4 :> [data |-> 6, status |-> 2]],
   [size |-> 6, avail |-> 32, chains |-> 0 :> [data |-> 1, status |-> 2]]}
=============================================================================
