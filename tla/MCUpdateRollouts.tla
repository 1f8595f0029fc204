--------------------------- MODULE MCUpdateRollouts ---------------------------
(***************************************************************************)
(* An instance of UpdateRollouts for TLC.                                  *)
(***************************************************************************)
EXTENDS UpdateRollouts

CONSTANTS r1, r2, d1, h1, h2, w1, w2

\* A device that names r1 and runs it, one that names r1 and does not, and a report
\* that is refused.
SomeReports ==
  {[desired |-> r1, installed |-> r1, status |-> "current"],
   [desired |-> r1, installed |-> None, status |-> "current"],
   [desired |-> None, installed |-> None, status |-> "unsupported"]}
===============================================================================
