------------------------------ MODULE MCAlerting ------------------------------
(***************************************************************************)
(* Instances of Alerting for TLC.                                          *)
(***************************************************************************)
EXTENDS Alerting, TLC

CONSTANTS c1, c2, c3, k1, h1, h2

\* Three candidates of one device, so that an alert is raised, repeated and
\* recovered.
OneKey == (c1 :> k1) @@ (c2 :> k1) @@ (c3 :> k1)

Symmetry == Permutations(Handlers) \union Permutations(Candidates)
===============================================================================
