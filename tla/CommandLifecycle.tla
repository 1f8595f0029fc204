--------------------------- MODULE CommandLifecycle ---------------------------
(***************************************************************************)
(* What the command service promises its callers: the default lifecycle of *)
(* design-docs/command-lifecycle.md, as the status checks of               *)
(* backend/internal/domain/commands/service.go enforce it on one command   *)
(* at a time.                                                              *)
(*                                                                         *)
(*    queued -> sent -> ack_accepted | ack_rejected | ack_timed_out        *)
(*           -> running -> succeeded | failed | timed_out | canceled       *)
(*                                                                         *)
(* A command also has at most one terminal outcome.  The outcome is        *)
(* recorded first; the status settles on it later, or never.               *)
(***************************************************************************)

CONSTANT Commands

VARIABLES
  status,   \* status[c]: the stored status, "none" before the command exists
  outcome   \* outcome[c]: the terminal result on record, "none" when there is none

lifecycleVars == <<status, outcome>>

Terminal == {"succeeded", "failed", "timed_out", "canceled"}

Executing == {"ack_accepted", "running"}

\* The documented arrows that do not end in a terminal status.
Arrow == {<<"none", "queued">>,
          <<"queued", "sent">>,
          <<"sent", "ack_accepted">>,
          <<"sent", "ack_rejected">>,
          <<"sent", "ack_timed_out">>,
          <<"ack_accepted", "running">>}

LifecycleInit ==
  /\ status = [c \in Commands |-> "none"]
  /\ outcome = [c \in Commands |-> "none"]

Advance(c, s) ==
  /\ <<status[c], s>> \in Arrow
  /\ status' = [status EXCEPT ![c] = s]
  /\ UNCHANGED outcome

\* Any outcome while the device executes; before that, or after a refusal or
\* a missed acknowledgement, only a cancellation.
Conclude(c, r) ==
  /\ status[c] # "none"
  /\ status[c] \notin Terminal
  /\ outcome[c] = "none"
  /\ r \in Terminal
  /\ status[c] \in Executing \/ r = "canceled"
  /\ outcome' = [outcome EXCEPT ![c] = r]
  /\ UNCHANGED status

Settle(c) ==
  /\ outcome[c] # "none"
  /\ status[c] \notin Terminal
  /\ status' = [status EXCEPT ![c] = outcome[c]]
  /\ UNCHANGED outcome

LifecycleNext ==
  \E c \in Commands :
    \/ \E s \in {"queued", "sent", "ack_accepted", "ack_rejected",
                 "ack_timed_out", "running"} : Advance(c, s)
    \/ \E r \in Terminal : Conclude(c, r)
    \/ Settle(c)

LifecycleSpec == LifecycleInit /\ [][LifecycleNext]_lifecycleVars
===============================================================================
