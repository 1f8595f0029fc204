--------------------------- MODULE MCCommandDelivery ---------------------------
(***************************************************************************)
(* Instances of CommandDelivery for TLC.                                   *)
(***************************************************************************)
EXTENDS CommandDelivery, TLC

CONSTANTS c1, h1, h2, t1, t2, u1, u2

\* A type of commands the agent handles, one it knows and does not handle, and one
\* it does not know, all with the shortest windows the service accepts.
MCTypes == {"upload_artifact", "check_update_status", "unknown"}

MCDefinitions == [t \in MCTypes |-> [ack |-> 1, result |-> 2]]

\* Commands with and without a limit, with a payload the agent refuses, that do not
\* fit in a notice, that nobody handles or that nobody knows.
SixKinds ==
  {[type |-> "upload_artifact", payload |-> "good", limit |-> 0],
   [type |-> "upload_artifact", payload |-> "good", limit |-> 1],
   [type |-> "upload_artifact", payload |-> "bad", limit |-> 0],
   [type |-> "upload_artifact", payload |-> "unsendable", limit |-> 0],
   [type |-> "check_update_status", payload |-> "good", limit |-> 0],
   [type |-> "unknown", payload |-> "good", limit |-> 0]}

\* One whose handler reports a failure at once.
OneKind == {[type |-> "upload_artifact", payload |-> "bad", limit |-> 0]}

Symmetry == Permutations(Handlers) \union Permutations(Threads)
===============================================================================
