------------------------------- MODULE Commands -------------------------------
(***************************************************************************)
(* The cloud side of a device command:                                     *)
(* backend/internal/domain/commands/service.go over the Repository         *)
(* interface and the commands, command_progress_events and command_results *)
(* tables of backend/migrations/000002_core_domain_schema.sql.             *)
(*                                                                         *)
(* Every operation of the service runs as a request of its own: it loads   *)
(* the whole command row, checks it in memory, makes zero or one insert    *)
(* (progress event or result) and then saves the whole row back.  No       *)
(* transaction or version check spans those repository calls, so the       *)
(* requests interleave between any two of them, and a request may die (or  *)
(* one of its calls fail) between any two of them.                         *)
(***************************************************************************)
EXTENDS Integers

CONSTANTS
  Commands,      \* command ids callers use
  Handlers,      \* requests that can be in flight at the same time
  CommandTypes,  \* command types callers ask for
  Definitions,   \* Service.Definitions: type -> [ack, result] windows
  Reports,       \* statuses callers report as results, terminal or not
  MaxClock       \* bound on the clock

Windows == [ack : Nat, result : Nat]

ASSUME DefinitionsAssumption ==
  /\ DOMAIN Definitions \subseteq CommandTypes
  /\ Definitions \in [DOMAIN Definitions -> Windows]

ASSUME ClockAssumption == MaxClock \in Nat

VARIABLES
  clock,     \* wall clock, shared by all requests
  db,        \* commands table
  results,   \* command_results table: one row per command at most
  progress,  \* commands with at least one command_progress_events row
  accepted,  \* history: commands stored as ack_accepted at some time
  hs,        \* requests in flight
  outdated,  \* history: requests in flight whose command was saved by another
             \* request since they loaded it
  overwritten, \* history: commands saved by an outdated request
  unsettled  \* history: commands whose result was inserted by a request that
             \* ended before it saved the status

history == <<outdated, overwritten, unsettled>>
vars == <<clock, db, results, progress, accepted, hs, history>>

-------------------------------------------------------------------------------
(***************************************************************************)
(* Data.  Times are naturals.                                              *)
(***************************************************************************)
Terminal == {"succeeded", "failed", "timed_out", "canceled"}

Executing == {"ack_accepted", "running"}

Statuses == {"queued", "sent", "ack_rejected", "ack_timed_out"}
              \union Executing \union Terminal

\* A commands row.  Ids, payload and the audit timestamps are left out, and of
\* sent_at, acked_at and terminal_at only whether they are set.  "none" is the
\* status of a row that was never inserted.
Rows == [status : Statuses \union {"none"},
         type : CommandTypes \union {"none"},
         ackDeadline : Nat, resultDeadline : Nat,
         sent : BOOLEAN, acked : BOOLEAN, ended : BOOLEAN]

NoRow == [status |-> "none", type |-> "none",
          ackDeadline |-> 0, resultDeadline |-> 0,
          sent |-> FALSE, acked |-> FALSE, ended |-> FALSE]

\* A command_results row: who put it there is its reason code.
Results == [status : Terminal \union {"none"},
            by : {"none", "device", "deadline", "cancel"}]

NoResult == [status |-> "none", by |-> "none"]

\* A request in flight: the repository call it makes next, the command, the
\* row it loaded or is about to save, and the author of its result.
Idle == [pc |-> "idle", cmd |-> "none", row |-> NoRow, by |-> "none"]

-------------------------------------------------------------------------------
(***************************************************************************)
(* The operations, up to their first repository call after the load.       *)
(***************************************************************************)
definitionFor(t) ==
  /\ t \in DOMAIN Definitions
  /\ Definitions[t].ack > 0
  /\ Definitions[t].result > Definitions[t].ack

\* c stands for what the unique indexes of the table identify a command by, its
\* id and its idempotency key: a second insert is refused.
Create(c, t) ==
  /\ definitionFor(t)
  /\ db[c].status = "none"
  /\ db' = [db EXCEPT ![c] =
              [NoRow EXCEPT !.status = "queued", !.type = t,
                            !.ackDeadline = clock + Definitions[t].ack,
                            !.resultDeadline = clock + Definitions[t].result]]
  /\ UNCHANGED <<clock, results, progress, accepted, hs, history>>

\* Every operation starts with the same load, so which operation the request is
\* for is chosen when it decides.
load(h, c) ==
  /\ hs[h].pc = "idle"
  /\ db[c].status # "none"
  /\ hs' = [hs EXCEPT ![h] = [pc |-> "loaded", cmd |-> c, row |-> db[c],
                              by |-> "none"]]
  /\ UNCHANGED <<clock, db, results, progress, accepted, history>>

\* The request read the clock and accepted the row it loaded: it goes on to
\* repository call pc with the row it means to save.
Proceed(h, pc, row, by) ==
  /\ hs[h].pc = "loaded"
  /\ hs' = [hs EXCEPT ![h] = [pc |-> pc, cmd |-> @.cmd, row |-> row, by |-> by]]
  /\ UNCHANGED <<clock, db, results, progress, accepted, history>>

MarkSent(h) ==
  LET row == hs[h].row IN
  /\ row.status = "queued"
  /\ definitionFor(row.type)
  /\ Proceed(h, "save",
             [row EXCEPT !.status = "sent", !.sent = TRUE,
                         !.ackDeadline = clock + Definitions[row.type].ack],
             "none")

\* Mutant: RecordAck takes an acknowledgement whatever the status is.
RecordAckAlways(h, verdict) ==
  LET row == hs[h].row IN
  \/ /\ clock > row.ackDeadline
     /\ Proceed(h, "save", [row EXCEPT !.status = "ack_timed_out"], "none")
  \/ /\ clock <= row.ackDeadline
     /\ Proceed(h, "save", [row EXCEPT !.status = verdict, !.acked = TRUE], "none")

RecordAck(h, verdict) ==
  LET row == hs[h].row IN
  /\ row.status = "sent"
  /\ \/ /\ clock > row.ackDeadline
        /\ Proceed(h, "save", [row EXCEPT !.status = "ack_timed_out"], "none")
     \/ /\ clock <= row.ackDeadline
        /\ Proceed(h, "save", [row EXCEPT !.status = verdict, !.acked = TRUE],
                   "none")

\* Mutant: the acknowledgement expires at its deadline, not after it.
ExpireMissingAckAtDeadline(h) ==
  LET row == hs[h].row IN
  /\ row.status = "sent"
  /\ clock >= row.ackDeadline
  /\ Proceed(h, "save", [row EXCEPT !.status = "ack_timed_out"], "none")

ExpireMissingAck(h) ==
  LET row == hs[h].row IN
  /\ row.status = "sent"
  /\ clock > row.ackDeadline
  /\ Proceed(h, "save", [row EXCEPT !.status = "ack_timed_out"], "none")

\* Mutant: progress counts as the missing acknowledgement.
RecordProgressUnacked(h) ==
  LET row == hs[h].row IN
  /\ row.status \in Executing \union {"sent"}
  /\ Proceed(h, "append", [row EXCEPT !.status = "running"], "none")

\* Mutant: progress is refused only before the acceptance.
RecordProgressLate(h) ==
  LET row == hs[h].row IN
  /\ row.status \in Executing \union Terminal
  /\ Proceed(h, "append", [row EXCEPT !.status = "running"], "none")

RecordProgress(h) ==
  LET row == hs[h].row IN
  /\ row.status \in Executing
  /\ Proceed(h, "append", [row EXCEPT !.status = "running"], "none")

RecordResult(h, reported) ==
  LET row == hs[h].row IN
  /\ row.status \in Executing
  /\ reported \in Terminal
  /\ Proceed(h, "record", [row EXCEPT !.status = reported, !.ended = TRUE],
             "device")

\* Mutant: only a command that has reported progress is overdue.
ExpireRunningResult(h) ==
  LET row == hs[h].row IN
  /\ row.status = "running"
  /\ clock > row.resultDeadline
  /\ Proceed(h, "record", [row EXCEPT !.status = "timed_out", !.ended = TRUE],
             "deadline")

ExpireResult(h) ==
  LET row == hs[h].row IN
  /\ row.status \in Executing
  /\ clock > row.resultDeadline
  /\ Proceed(h, "record", [row EXCEPT !.status = "timed_out", !.ended = TRUE],
             "deadline")

Cancel(h) ==
  LET row == hs[h].row IN
  /\ row.status \notin Terminal
  /\ Proceed(h, "record", [row EXCEPT !.status = "canceled", !.ended = TRUE],
             "cancel")

-------------------------------------------------------------------------------
(***************************************************************************)
(* The repository calls that follow.                                       *)
(***************************************************************************)
AppendProgressEvent(h) ==
  /\ hs[h].pc = "append"
  /\ progress' = progress \union {hs[h].cmd}
  /\ hs' = [hs EXCEPT ![h] = [@ EXCEPT !.pc = "save"]]
  /\ UNCHANGED <<clock, db, results, accepted, history>>

\* Mutant: a second result is skipped (ON CONFLICT DO NOTHING) and the request
\* goes on to save its status.
InsertResultOrSkip(h) ==
  LET c == hs[h].cmd IN
  /\ hs[h].pc = "record"
  /\ results' = IF results[c] = NoResult
                  THEN [results EXCEPT ![c] = [status |-> hs[h].row.status,
                                               by |-> hs[h].by]]
                  ELSE results
  /\ hs' = [hs EXCEPT ![h] = [@ EXCEPT !.pc = "save"]]
  /\ UNCHANGED <<clock, db, progress, accepted, history>>

\* The unique index on command_results refuses a second row.
InsertResult(h) ==
  LET c == hs[h].cmd IN
  /\ hs[h].pc = "record"
  /\ results[c] = NoResult
  /\ results' = [results EXCEPT ![c] = [status |-> hs[h].row.status,
                                        by |-> hs[h].by]]
  /\ hs' = [hs EXCEPT ![h] = [@ EXCEPT !.pc = "save"]]
  /\ UNCHANGED <<clock, db, progress, accepted, history>>

\* The whole row is written back over whatever the table holds by now.
SaveCommand(h) ==
  LET c == hs[h].cmd IN
  /\ hs[h].pc = "save"
  /\ db' = [db EXCEPT ![c] = hs[h].row]
  /\ accepted' = IF hs[h].row.status = "ack_accepted"
                   THEN accepted \union {c} ELSE accepted
  /\ hs' = [hs EXCEPT ![h] = Idle]
  /\ outdated' = {g \in Handlers \ {h} : g \in outdated \/ hs[g].cmd = c}
  /\ overwritten' = IF h \in outdated THEN overwritten \union {c} ELSE overwritten
  /\ UNCHANGED <<clock, results, progress, unsettled>>

\* The request ends with an error and leaves the tables alone: the operation
\* refused the loaded row, a deadline has not passed yet, the index refused the
\* result, a repository call failed, or the process died.
Return(h) ==
  /\ hs[h].pc # "idle"
  /\ hs' = [hs EXCEPT ![h] = Idle]
  /\ outdated' = outdated \ {h}
  /\ unsettled' = IF hs[h].pc = "save" /\ hs[h].row.status \in Terminal
                    THEN unsettled \union {hs[h].cmd} ELSE unsettled
  /\ UNCHANGED <<clock, db, results, progress, accepted, overwritten>>

Tick ==
  /\ clock < MaxClock
  /\ clock' = clock + 1
  /\ UNCHANGED <<db, results, progress, accepted, hs, history>>

-------------------------------------------------------------------------------
Init ==
  /\ clock = 0
  /\ db = [c \in Commands |-> NoRow]
  /\ results = [c \in Commands |-> NoResult]
  /\ progress = {}
  /\ accepted = {}
  /\ hs = [h \in Handlers |-> Idle]
  /\ outdated = {} /\ overwritten = {} /\ unsettled = {}

Decide(h) ==
  \/ MarkSent(h)
  \/ \E verdict \in {"ack_accepted", "ack_rejected"} : RecordAck(h, verdict)
  \/ ExpireMissingAck(h)
  \/ RecordProgress(h)
  \/ \E reported \in Reports : RecordResult(h, reported)
  \/ ExpireResult(h)
  \/ Cancel(h)

RepositoryCall(h) ==
  \/ AppendProgressEvent(h)
  \/ InsertResult(h)
  \/ SaveCommand(h)

Next ==
  \/ \E c \in Commands, t \in CommandTypes : Create(c, t)
  \/ \E h \in Handlers, c \in Commands : load(h, c)
  \/ \E h \in Handlers : Decide(h)
  \/ \E h \in Handlers : RepositoryCall(h)
  \/ \E h \in Handlers : Return(h)
  \/ Tick

Spec == Init /\ [][Next]_vars

\* The job that looks for overdue results, as it goes through the service for c.
ExpiryLoads(c) == \E h \in Handlers : load(h, c)
ExpiryDecides(c) == \E h \in Handlers : hs[h].cmd = c /\ ExpireResult(h)
ExpiryInserts(c) == \E h \in Handlers : hs[h].cmd = c /\ InsertResult(h)

\* Every request comes to an end, time passes, and the job (its caller is not in
\* the repository) is run again and again and does not fail before the same call
\* for ever.  Nothing is assumed of any other request, nor of any save.
Fairness ==
  /\ WF_vars(Tick)
  /\ \A h \in Handlers : WF_vars(Decide(h) \/ RepositoryCall(h) \/ Return(h))
  /\ \A c \in Commands :
       WF_vars(ExpiryLoads(c)) /\ SF_vars(ExpiryDecides(c)) /\ SF_vars(ExpiryInserts(c))

FairSpec == Spec /\ Fairness

-------------------------------------------------------------------------------
(***************************************************************************)
(* Properties.                                                             *)
(***************************************************************************)

HandlerStates ==
  [pc : {"idle", "loaded", "append", "record", "save"},
   cmd : Commands \union {"none"}, row : Rows,
   by : {"none", "device", "deadline", "cancel"}]

\* The tables and the requests in flight hold values of their types.
TypeOK ==
  /\ clock \in Nat
  /\ db \in [Commands -> Rows]
  /\ results \in [Commands -> Results]
  /\ progress \in SUBSET Commands
  /\ accepted \in SUBSET Commands
  /\ hs \in [Handlers -> HandlerStates]
  /\ outdated \in SUBSET Handlers
  /\ overwritten \in SUBSET Commands
  /\ unsettled \in SUBSET Commands

\* A commands row with a terminal status agrees with the command's only result
\* row, however requests interleave and wherever they fail: RecordResult,
\* ExpireResult and Cancel insert the result first and save the status only
\* when the insert won.
TerminalMatchesResult ==
  \A c \in Commands :
    db[c].status \in Terminal => results[c].status = db[c].status

\* Request h has inserted the result of c and is about to save its status.
Settling(h, c) ==
  /\ hs[h].pc = "save" /\ hs[h].cmd = c
  /\ hs[h].row.status = results[c].status

\* A command with a result shows it as its status as soon as the request that
\* inserted the result has saved the row, and from then on, with two exceptions
\* the service does not repair: that request ended between its two calls, or a
\* request saved a copy of the row that another save had outdated.  Progress that
\* arrives late, a second result or a cancellation alone never take a terminal
\* status back.
ResultIsShown ==
  \A c \in Commands : results[c].status # "none" =>
    \/ db[c].status = results[c].status
    \/ \E h \in Handlers : Settling(h, c)
    \/ c \in overwritten \union unsettled

\* Nothing is executed that the device did not accept: a progress event, a
\* running status or a result other than a cancellation by the cloud exists
\* only for a command whose acceptance was stored before.
AcceptedBeforeExecution ==
  \A c \in Commands :
    (\/ c \in progress
     \/ db[c].status = "running"
     \/ results[c].by \in {"device", "deadline"})
      => c \in accepted

\* No deadline fires early: a row is ack_timed_out only after its own
\* acknowledgement deadline, and a result_deadline_exceeded result exists only
\* after the result deadline, at the very boundary too.
NoEarlyExpiry ==
  \A c \in Commands :
    /\ db[c].status = "ack_timed_out" => clock > db[c].ackDeadline
    /\ results[c].by = "deadline" => clock > db[c].resultDeadline

\* A command the device executes ends with a terminal status even if no result
\* ever arrives (ExpireResult), with the two exceptions of ResultIsShown: a copy
\* that was outdated was saved, or the status of a recorded result was not, which
\* no later run of the job makes up for, because the index refuses its result.
\* (The deadline is one that passes within the bound on the clock.)
ExecutingIsDecided ==
  \A c \in Commands :
    db[c].status \in Executing /\ db[c].resultDeadline < MaxClock ~>
      db[c].status \in Terminal \/ c \in overwritten \union unsettled

Stamped(row) ==
  /\ row.status \in {"none", "queued"} => ~row.sent /\ ~row.acked
  /\ row.status \in {"sent", "ack_timed_out"} => row.sent /\ ~row.acked
  /\ row.status \in Executing \union {"ack_rejected"} => row.sent /\ row.acked
  /\ row.ended <=> row.status \in Terminal

\* The timestamps of a row tell the same story as its status, although each
\* request writes back a copy that may be stale: sent_at once sent, acked_at
\* exactly when the device answered in time, terminal_at exactly when terminal.
StampsMatchStatus == \A c \in Commands : Stamped(db[c])

\* The result deadline is fixed when the command is created, whichever copy of
\* the row is saved later.
ResultDeadlineFixed ==
  [][\A c \in Commands : db[c].status # "none" =>
       db'[c].resultDeadline = db[c].resultDeadline]_vars

-------------------------------------------------------------------------------
(***************************************************************************)
(* What the properties above rest on: the copies that requests in flight   *)
(* carry.  A copy may be stale, and still never claims something that did  *)
(* not happen.                                                             *)
(***************************************************************************)
CopyIsOfStoredRow(r) ==
  /\ r.cmd \in Commands
  /\ db[r.cmd].status # "none"
  /\ r.row.status # "none"
  /\ r.row.resultDeadline = db[r.cmd].resultDeadline
  /\ Stamped(r.row)

CopyIsJustified(r) ==
  /\ r.row.status = "ack_timed_out" => clock > r.row.ackDeadline
  /\ r.row.status = "running" => r.cmd \in accepted
  /\ r.row.status = "ack_accepted" /\ r.pc = "loaded" => r.cmd \in accepted
  /\ r.row.status \in Terminal /\ r.pc # "record" =>
       results[r.cmd].status = r.row.status

IntentIsJustified(r) ==
  /\ r.pc = "append" => r.row.status = "running"
  /\ r.pc = "record" =>
       /\ r.row.status \in Terminal
       /\ r.by \in {"device", "deadline"} => r.cmd \in accepted
       /\ r.by = "deadline" => clock > r.row.resultDeadline

RequestsInv ==
  \A h \in Handlers : hs[h].pc # "idle" =>
    /\ CopyIsOfStoredRow(hs[h])
    /\ CopyIsJustified(hs[h])
    /\ IntentIsJustified(hs[h])

TablesInv ==
  \A c \in Commands :
    /\ results[c] # NoResult => db[c].status # "none"
    /\ db[c].status = "ack_accepted" => c \in accepted

\* The inductive invariant of the service: every property above, and the
\* copies requests carry.
CommandsInv ==
  /\ TypeOK
  /\ TablesInv
  /\ RequestsInv
  /\ TerminalMatchesResult
  /\ AcceptedBeforeExecution
  /\ NoEarlyExpiry
  /\ StampsMatchStatus

-------------------------------------------------------------------------------
(***************************************************************************)
(* As long as no outdated copy is saved, the service implements the        *)
(* documented lifecycle.                                                   *)
(***************************************************************************)
StoredStatus == [c \in Commands |-> db[c].status]

RecordedOutcome == [c \in Commands |-> results[c].status]

Lifecycle == INSTANCE CommandLifecycle
               WITH status <- StoredStatus, outcome <- RecordedOutcome

\* One request at a time takes every command along the documented lifecycle: no
\* arrow is skipped, a terminal status is entered with the recorded outcome and
\* never left, and there is at most one outcome.
ImplementsLifecycle == Lifecycle!LifecycleSpec

\* Whatever requests cross and wherever they fail, a step leaves the documented
\* lifecycle only if an outdated copy is saved, or was saved before.
DepartsOnlyByOverwriting ==
  [][overwritten' # {} \/ Lifecycle!LifecycleNext
       \/ UNCHANGED <<StoredStatus, RecordedOutcome>>]_vars

\* A copy that no other request has outdated.
CopyIsFresh(r) ==
  LET stored == db[r.cmd].status IN
  /\ r.pc = "loaded" => r.row = db[r.cmd]
  /\ r.pc = "append" => stored \in Executing
  /\ r.pc = "record" => /\ stored \notin Terminal
                        /\ stored \in Executing \/ r.row.status = "canceled"
  /\ r.pc = "save" => \/ <<stored, r.row.status>> \in Lifecycle!Arrow
                      \/ stored = "running" /\ r.row.status = "running"
                      \/ stored \notin Terminal /\ r.row.status \in Terminal

\* A request that is not outdated writes back a row one arrow of the lifecycle away
\* from the one the table holds.
FreshInv == \A h \in Handlers \ outdated : hs[h].pc # "idle" => CopyIsFresh(hs[h])

\* An outdated request may still insert a result: it found the command executing
\* and, if nothing was overwritten, the command executes or has ended.
ForwardInv ==
  \A h \in Handlers :
    hs[h].cmd \notin overwritten
      /\ (\/ hs[h].pc = "loaded" /\ hs[h].row.status \in Executing
          \/ hs[h].pc = "record" /\ hs[h].row.status # "canceled")
      => db[hs[h].cmd].status \in Executing \union Terminal

===============================================================================
