------------------------------ MODULE MCLaunch ------------------------------
(***************************************************************************)
(* Launch for TLC: two profiles whose names lead to one AVD.               *)
(***************************************************************************)
EXTENDS Launch

CONSTANTS default, other, shared

MCDevices == {default, other}
MCAvds == {shared}
MCavd_name == [n \in MCDevices |-> shared]
=============================================================================
