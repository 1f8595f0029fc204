-------------------------- MODULE MCTelemetryIngest --------------------------
(***************************************************************************)
(* An instance of TelemetryIngest for TLC.                                 *)
(***************************************************************************)
EXTENDS TelemetryIngest, TLC

CONSTANTS h1, h2

Telemetry(id, material) ==
  [id |-> id, device |-> "d1", kind |-> "telemetry", material |-> material,
   verdict |-> "ok"]

\* Two reports with different material, an alarm, a message the schema refuses,
\* and one whose payload names another device.
Reports ==
  {Telemetry(1, 1), Telemetry(2, 2),
   [Telemetry(4, 1) EXCEPT !.kind = "event"],
   [Telemetry(5, 1) EXCEPT !.verdict = "invalid"],
   [Telemetry(6, 1) EXCEPT !.verdict = "drift"]}

\* The end of a session of the device that reports, the start of the next one a
\* second later, and an event of a type that is not supported.
Sessions ==
  {[device |-> "d1", state |-> "disconnected", session |-> 1, at |-> 1],
   [device |-> "d1", state |-> "online", session |-> 2, at |-> 2],
   [device |-> "d1", state |-> "unknown", session |-> 2, at |-> 2]}

Symmetry == Permutations(Handlers)
===============================================================================
