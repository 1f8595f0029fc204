----------------------------- MODULE MCEnrollment -----------------------------
(***************************************************************************)
(* Instances of Enrollment for TLC.                                        *)
(***************************************************************************)
EXTENDS Enrollment
===============================================================================
