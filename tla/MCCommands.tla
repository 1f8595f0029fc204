------------------------------ MODULE MCCommands ------------------------------
(***************************************************************************)
(* An instance of Commands for TLC.                                        *)
(***************************************************************************)
EXTENDS Commands

\* A usable type with the shortest windows definitionFor accepts, and one whose
\* result window does not exceed its ack window.
MCDefinitions ==
  [short |-> [ack |-> 1, result |-> 2],
   equal |-> [ack |-> 1, result |-> 1]]

MCTypes == {"short", "equal", "unknown"}
===============================================================================
