----------------------------- MODULE MCProfiles -----------------------------
(***************************************************************************)
(* Profiles for TLC.                                                       *)
(***************************************************************************)
EXTENDS Profiles

CONSTANTS p1, p2

MCPixelLite == <<p1, p2>>
=============================================================================
