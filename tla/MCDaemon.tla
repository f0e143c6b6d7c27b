------------------------------ MODULE MCDaemon ------------------------------
(***************************************************************************)
(* Instances of Daemon for TLC.                                            *)
(***************************************************************************)
EXTENDS Daemon, TLC

\* Connections and process slots are interchangeable.
Symmetry == Permutations(Conns) \union Permutations(Procs)
=============================================================================
