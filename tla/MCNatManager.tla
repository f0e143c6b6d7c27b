---------------------------- MODULE MCNatManager ----------------------------
(***************************************************************************)
(* NatManager for TLC.                                                     *)
(***************************************************************************)
EXTENDS NatManager, TLC

\* Managers and interfaces are only compared.
Symmetry == Permutations(Managers) \cup Permutations(Taps) \cup Permutations(Ifaces)
=============================================================================
