---------------------------- MODULE UpdateRollouts ----------------------------
(***************************************************************************)
(* Rollouts, device assignments and reported update status:                *)
(* backend/internal/domain/releases/updates.go and status.go, with the     *)
(* desired state of backend/internal/domain/edgestate/service.go, over     *)
(* their repositories (backend/migrations/000008 and 000009) and the       *)
(* device shadow.                                                          *)
(*                                                                         *)
(* AssignDevice makes five calls that are not in one transaction: it reads *)
(* the rollout, creates the assignment, stores the desired state,          *)
(* publishes it and saves how that went.  Each call can fail, a publish    *)
(* can take effect and still be reported as failed, the process can stop   *)
(* between any two, and other requests change the rollout meanwhile.  A    *)
(* report of a device is written to two tables one after the other.        *)
(***************************************************************************)
EXTENDS Integers

CONSTANTS
  Rollouts,     \* rollout ids; a rollout also stands for its target version
  Devices,      \* device ids
  Handlers,     \* assignment requests in flight at the same time
  Reporters,    \* update reports being recorded at the same time
  RequestedStatuses,  \* the rollout statuses that requests name
  SampleReports,     \* reports devices send, ones that are not valid included
  HasAdapter,   \* whether the edge state service has a shadow adapter
  MaxChanges,   \* bound: changes of a rollout's status
  MaxReports,   \* bound: reports received
  None

VARIABLES
  rollout,      \* status of each rollout, "none" before it is created
  assignment,   \* status of the assignment of each rollout and device
  desired,      \* device_desired_state, key update: the rollout it names
  shadow,       \* external: the desired state in the device shadow
  audit,        \* rollout_audit_events of assignments
  call,         \* AssignDevice requests in flight
  abandoned,    \* history: assignments whose request ended before its outcome
                \* was saved
  statusRow,    \* device_update_status
  projection,   \* the update projection of the device
  report,       \* reports being recorded
  torn,         \* history: devices whose last reports overlapped or failed halfway
  changes, reports  \* bounded counters

rolloutVars == <<rollout, changes>>
assignVars == <<assignment, desired, shadow, audit, abandoned>>
reportVars == <<statusRow, projection, report, torn, reports>>
vars == <<rolloutVars, assignVars, call, reportVars>>

-------------------------------------------------------------------------------
(***************************************************************************)
(* Data.                                                                   *)
(***************************************************************************)

\* validRolloutStatus.
RolloutStatuses == {"draft", "active", "paused", "completed", "canceled"}

\* The assignment statuses the code writes.
AssignmentStatuses == {"assigned", "projected", "projection_failed"}

Pairs == Rollouts \X Devices

\* The audit event of an assignment.
Events == [r : Rollouts, d : Devices, result : {"projected", "projection_failed"}]

\* A request in flight.  pc is what it has done; lapsed is history, it tells
\* that the rollout left "active" after the request had read it.
Calls == [pc : {"idle", "loaded", "assigned", "stored", "published", "unpublished", "audit"},
          r : Rollouts \union {None}, d : Devices \union {None},
          result : {"none", "projected", "projection_failed"},
          lapsed : BOOLEAN]

Idle == [pc |-> "idle", r |-> None, d |-> None, result |-> "none", lapsed |-> FALSE]

\* The steps of AssignDevice between the creation of the assignment and its outcome.
Holding == {"assigned", "stored", "published", "unpublished"}

\* What a device says of itself: the version it was told, the version it runs.
ReportsOf(statuses) == [desired : Rollouts \union {None}, installed : Rollouts \union {None},
                        status : statuses]

UpdateStatuses == {"current", "pending", "blocked", "failed", "rolled_back", "unknown"}

\* validateDeviceUpdateStatus.
ValidReports == ReportsOf(UpdateStatuses)

NoReport == [desired |-> None, installed |-> None, status |-> "none"]

\* A report being recorded: started once its first row is written; alone is
\* history, it tells that no other report of the device was written since.
Recordings == [d : Devices \union {None}, rep : SampleReports \union {NoReport},
               started : BOOLEAN, alone : BOOLEAN]

NoRecording == [d |-> None, rep |-> NoReport, started |-> FALSE, alone |-> TRUE]

ASSUME RolloutsAssumption ==
  /\ RequestedStatuses \subseteq RolloutStatuses
  /\ SampleReports \subseteq ReportsOf(UpdateStatuses \union {"unsupported"})
  /\ HasAdapter \in BOOLEAN
  /\ MaxChanges \in Nat /\ MaxReports \in Nat
  /\ None \notin Rollouts \union Devices

\* convergenceStatusForUpdate: the desired version is the one the device names.
ConvergenceStatusForUpdate(rep) ==
  CASE rep.status = "current" ->
         IF rep.desired = None \/ rep.installed = rep.desired THEN "converged" ELSE "pending"
    [] rep.status = "pending" -> "pending"
    [] rep.status \in {"blocked", "failed", "rolled_back"} -> "failed"
    [] OTHER -> "unknown"

Projections == [rep : ValidReports \union {NoReport},
                convergence : {"converged", "pending", "failed", "unknown"}]

NoProjection == [rep |-> NoReport, convergence |-> "unknown"]

-------------------------------------------------------------------------------
(***************************************************************************)
(* Rollouts.                                                               *)
(***************************************************************************)

\* CreateRollout: any status is a first status.  Whether its audit event, which
\* nothing reads, gets written as well makes no difference to the rollout.
CreateRollout(r, s) ==
  /\ rollout[r] = "none"
  /\ rollout' = [rollout EXCEPT ![r] = s]
  /\ UNCHANGED <<changes, assignVars, call, reportVars>>

\* ChangeRolloutStatus: from any status to any other; the audit event as above.
ChangeRolloutStatus(r, s) ==
  /\ changes < MaxChanges
  /\ rollout[r] # "none"
  /\ rollout' = [rollout EXCEPT ![r] = s]
  /\ call' = [h \in Handlers |->
       IF call[h].pc = "loaded" /\ call[h].r = r /\ s # "active"
         THEN [call[h] EXCEPT !.lapsed = TRUE] ELSE call[h]]
  /\ changes' = changes + 1
  /\ UNCHANGED <<assignVars, reportVars>>

-------------------------------------------------------------------------------
(***************************************************************************)
(* AssignDevice.                                                           *)
(***************************************************************************)

\* Only an active rollout is assigned from.
Assignable(r) == rollout[r] = "active"

\* GetRollout, and the check of its status.
LoadRollout(h, r, d) ==
  /\ call[h] = Idle
  /\ Assignable(r)
  /\ call' = [call EXCEPT ![h] = [Idle EXCEPT !.pc = "loaded", !.r = r, !.d = d]]
  /\ UNCHANGED <<rolloutVars, assignVars, reportVars>>

\* Mutant: an assignment that was projected is no longer open.
OpenWhileUndecided(d) == \E q \in Rollouts : assignment[<<q, d>>] = "assigned"

\* The unique index device_update_assignments_one_open_idx.  It also implies the
\* uniqueness of a rollout and a device, as nothing in the code ever writes a
\* status that is not open.
HasOpenAssignment(d) == \E q \in Rollouts : assignment[<<q, d>>] \in AssignmentStatuses

\* CreateDeviceAssignment, which is refused when the device has an open one.
CreateDeviceAssignment(h) ==
  /\ call[h].pc = "loaded"
  /\ IF HasOpenAssignment(call[h].d)
       THEN /\ call' = [call EXCEPT ![h] = Idle]
            /\ UNCHANGED assignment
       ELSE /\ assignment' = [assignment EXCEPT ![<<call[h].r, call[h].d>>] = "assigned"]
            /\ call' = [call EXCEPT ![h] = [call[h] EXCEPT !.pc = "assigned", !.lapsed = FALSE]]
  /\ UNCHANGED <<rolloutVars, desired, shadow, audit, abandoned, reportVars>>

\* Mutant: the state is published and not stored.
PublishUnstored(h) ==
  /\ call[h].pc = "assigned"
  /\ shadow' = [shadow EXCEPT ![call[h].d] = call[h].r]
  /\ call' = [call EXCEPT ![h].pc = "stored"]
  /\ UNCHANGED <<rolloutVars, assignment, desired, audit, abandoned, reportVars>>

\* PutDesired of the edge state service: the row first.
UpsertDesiredState(h) ==
  /\ call[h].pc = "assigned"
  /\ desired' = [desired EXCEPT ![call[h].d] = call[h].r]
  /\ call' = [call EXCEPT ![h].pc = "stored"]
  /\ UNCHANGED <<rolloutVars, assignment, shadow, audit, abandoned, reportVars>>

\* Then the shadow, if there is an adapter.
PutDesired(h) ==
  /\ call[h].pc = "stored"
  /\ shadow' = IF HasAdapter THEN [shadow EXCEPT ![call[h].d] = call[h].r] ELSE shadow
  /\ call' = [call EXCEPT ![h].pc = "published"]
  /\ UNCHANGED <<rolloutVars, assignment, desired, audit, abandoned, reportVars>>

\* Either call may fail; a publish may have taken effect all the same.
PutDesiredFails(h) ==
  /\ \/ call[h].pc = "assigned" /\ shadow' = shadow
     \/ /\ call[h].pc = "stored" /\ HasAdapter
        /\ shadow' \in {shadow, [shadow EXCEPT ![call[h].d] = call[h].r]}
  /\ call' = [call EXCEPT ![h].pc = "unpublished"]
  /\ UNCHANGED <<rolloutVars, assignment, desired, audit, abandoned, reportVars>>

\* What AssignDevice saves after PutDesired.
Outcome(h) == IF call[h].pc = "published" THEN "projected" ELSE "projection_failed"

\* Mutant: the event is recorded and the status left as it is.
AuditWithoutSaving(h) ==
  /\ call[h].pc \in {"published", "unpublished"}
  /\ call' = [call EXCEPT ![h].pc = "audit", ![h].result = Outcome(h)]
  /\ UNCHANGED <<rolloutVars, assignVars, reportVars>>

\* SaveDeviceAssignmentProjection, up to the audit event.
SaveDeviceAssignmentProjection(h) ==
  /\ call[h].pc \in {"published", "unpublished"}
  /\ assignment' = [assignment EXCEPT ![<<call[h].r, call[h].d>>] = Outcome(h)]
  /\ call' = [call EXCEPT ![h] = [call[h] EXCEPT !.pc = "audit", !.result = Outcome(h)]]
  /\ UNCHANGED <<rolloutVars, desired, shadow, audit, abandoned, reportVars>>

\* The audit event, the last call.
RecordRolloutAudit(h) ==
  /\ call[h].pc = "audit"
  /\ audit' = audit \union {[r |-> call[h].r, d |-> call[h].d, result |-> call[h].result]}
  /\ call' = [call EXCEPT ![h] = Idle]
  /\ UNCHANGED <<rolloutVars, assignment, desired, shadow, abandoned, reportVars>>

\* A request ends early: a read, a save or an audit fails, or the process stops.
\* Nothing ever takes its work up again.
EndEarly(h) ==
  /\ call[h] # Idle
  /\ abandoned' = IF call[h].pc \in Holding
                    THEN abandoned \union {<<call[h].r, call[h].d>>} ELSE abandoned
  /\ call' = [call EXCEPT ![h] = Idle]
  /\ UNCHANGED <<rolloutVars, assignment, desired, shadow, audit, reportVars>>

-------------------------------------------------------------------------------
(***************************************************************************)
(* RecordReportedUpdateStatus.                                             *)
(***************************************************************************)

\* A report arrives, perhaps a late one.  It may name any desired version.
ReceiveReport(w, d, rep) ==
  /\ report[w] = NoRecording
  /\ reports < MaxReports
  /\ report' = [report EXCEPT ![w] = [NoRecording EXCEPT !.d = d, !.rep = rep]]
  /\ reports' = reports + 1
  /\ UNCHANGED <<rolloutVars, assignVars, call, statusRow, projection, torn>>

\* The first write; a report that is not valid is refused before it.
UpsertDeviceUpdateStatus(w) ==
  LET d == report[w].d IN
  /\ d # None /\ ~report[w].started
  /\ IF report[w].rep \in ValidReports
       THEN /\ statusRow' = [statusRow EXCEPT ![d] = report[w].rep]
            /\ report' = [v \in Reporters |->
                 IF v = w THEN [report[w] EXCEPT !.started = TRUE]
                 ELSE IF report[v].d = d THEN [report[v] EXCEPT !.alone = FALSE]
                 ELSE report[v]]
       ELSE /\ report' = [report EXCEPT ![w] = NoRecording]
            /\ UNCHANGED statusRow
  /\ UNCHANGED <<rolloutVars, assignVars, call, projection, torn, reports>>

\* Mutant: a report that has not converged leaves the projection alone.
UpsertProjectionIfConverged(w) ==
  /\ report[w].started
  /\ projection' = IF ConvergenceStatusForUpdate(report[w].rep) = "converged"
       THEN [projection EXCEPT ![report[w].d] =
              [rep |-> report[w].rep, convergence |-> "converged"]]
       ELSE projection
  /\ torn' = IF report[w].alone THEN torn \ {report[w].d} ELSE torn \union {report[w].d}
  /\ report' = [report EXCEPT ![w] = NoRecording]
  /\ UNCHANGED <<rolloutVars, assignVars, call, statusRow, reports>>

\* The second write.  A report that had the device to itself makes the two
\* tables agree again.
UpsertUpdateProjection(w) ==
  LET d == report[w].d
      others == {v \in Reporters \ {w} : report[v].d = d /\ report[v].started}
  IN
  /\ report[w].started
  /\ projection' = [projection EXCEPT ![d] =
       [rep |-> report[w].rep, convergence |-> ConvergenceStatusForUpdate(report[w].rep)]]
  /\ torn' = IF others = {} /\ report[w].alone THEN torn \ {d} ELSE torn \union {d}
  /\ report' = [report EXCEPT ![w] = NoRecording]
  /\ UNCHANGED <<rolloutVars, assignVars, call, statusRow, reports>>

\* A write fails or the process stops.
ReportFails(w) ==
  /\ report[w] # NoRecording
  /\ torn' = IF report[w].started THEN torn \union {report[w].d} ELSE torn
  /\ report' = [report EXCEPT ![w] = NoRecording]
  /\ UNCHANGED <<rolloutVars, assignVars, call, statusRow, projection, reports>>

-------------------------------------------------------------------------------
Init ==
  /\ rollout = [r \in Rollouts |-> "none"]
  /\ assignment = [p \in Pairs |-> "none"]
  /\ desired = [d \in Devices |-> None]
  /\ shadow = [d \in Devices |-> None]
  /\ audit = {}
  /\ call = [h \in Handlers |-> Idle]
  /\ abandoned = {}
  /\ statusRow = [d \in Devices |-> NoReport]
  /\ projection = [d \in Devices |-> NoProjection]
  /\ report = [w \in Reporters |-> NoRecording]
  /\ torn = {}
  /\ changes = 0 /\ reports = 0

\* The steps a request takes once it has started.
AssignStep(h) ==
  \/ CreateDeviceAssignment(h)
  \/ UpsertDesiredState(h)
  \/ PutDesired(h)
  \/ PutDesiredFails(h)
  \/ SaveDeviceAssignmentProjection(h)
  \/ RecordRolloutAudit(h)
  \/ EndEarly(h)

ReportStep(w) ==
  \/ UpsertDeviceUpdateStatus(w)
  \/ UpsertUpdateProjection(w)
  \/ ReportFails(w)

Next ==
  \/ \E r \in Rollouts, s \in RequestedStatuses :
       CreateRollout(r, s) \/ ChangeRolloutStatus(r, s)
  \/ \E h \in Handlers, r \in Rollouts, d \in Devices : LoadRollout(h, r, d)
  \/ \E h \in Handlers : AssignStep(h)
  \/ \E w \in Reporters, d \in Devices, rep \in SampleReports :
       ReceiveReport(w, d, rep)
  \/ \E w \in Reporters : ReportStep(w)

\* A request that has started runs on, or ends early; new requests need not come.
Fairness == \A h \in Handlers : WF_vars(AssignStep(h))

Spec == Init /\ [][Next]_vars /\ Fairness

-------------------------------------------------------------------------------
(***************************************************************************)
(* Properties.                                                             *)
(***************************************************************************)

\* Every variable has its type.
TypeOK ==
  /\ rollout \in [Rollouts -> RolloutStatuses \union {"none"}]
  /\ assignment \in [Pairs -> AssignmentStatuses \union {"none"}]
  /\ desired \in [Devices -> Rollouts \union {None}]
  /\ shadow \in [Devices -> Rollouts \union {None}]
  /\ audit \subseteq Events
  /\ call \in [Handlers -> Calls]
  /\ abandoned \subseteq Pairs
  /\ statusRow \in [Devices -> ValidReports \union {NoReport}]
  /\ projection \in [Devices -> Projections]
  /\ report \in [Reporters -> Recordings]
  /\ torn \subseteq Devices
  /\ changes \in Nat /\ reports \in Nat

\* An assignment that is saved as projected names the desired state that is
\* stored for the device, and the one in its shadow where there is an adapter:
\* no other rollout ever wrote over it (AssignDevice against the index).
ProjectedIsDesired ==
  \A r \in Rollouts, d \in Devices : assignment[<<r, d>>] = "projected" =>
    desired[d] = r /\ (HasAdapter => shadow[d] = r)

\* A device shown as converged on the version in its shadow runs that version, and
\* it is the stored desired state and comes from an assignment of this device
\* (PutDesired stores before it publishes).
ConvergedIsAssigned ==
  \A d \in Devices :
    LET rep == projection[d].rep IN
    projection[d].convergence = "converged" /\ rep.desired = shadow[d] /\ shadow[d] # None =>
      /\ rep.installed = desired[d]
      /\ assignment[<<rep.installed, d>>] # "none"

\* An audit event of an assignment says what the assignment row says: a
\* projection that failed is never on record as a success, nor the reverse.
AuditTellsTruth ==
  \A e \in audit : assignment[<<e.r, e.d>>] = e.result

\* An assignment that stays "assigned" is in the hands of a request, or its
\* request ended early: none is lost in any other way.
OpenIsHeldOrAbandoned ==
  \A p \in Pairs : assignment[p] = "assigned" =>
    \/ p \in abandoned
    \/ \E h \in Handlers : /\ <<call[h].r, call[h].d>> = p
                           /\ call[h].pc \in Holding

\* The status row and the projection of a device come from the same report,
\* unless reports of the device overlapped or one failed halfway.
RowsAgreeUnlessTorn ==
  \A d \in Devices :
    \/ projection[d].rep = statusRow[d]
    \/ d \in torn
    \/ \E w \in Reporters : report[w].d = d /\ report[w].started

\* A device has at most one assignment, and at most one request works on it.
OneAssignmentPerDevice ==
  \A d \in Devices :
    /\ \A q, r \in Rollouts :
         assignment[<<q, d>>] # "none" /\ assignment[<<r, d>>] # "none" => q = r
    /\ \A g, h \in Handlers : call[g].pc \in Holding /\ call[h].pc \in Holding
                               /\ call[g].d = d /\ call[h].d = d => g = h

\* What a request has done so far is what the tables and the shadow show.
CallIsTruthful(c) ==
  /\ c.pc = "idle" => c = Idle
  /\ c.pc # "idle" => c.r \in Rollouts /\ c.d \in Devices
  /\ c.pc = "loaded" => c.lapsed \/ rollout[c.r] = "active"
  /\ c.pc \in Holding => assignment[<<c.r, c.d>>] = "assigned"
  /\ c.pc \in {"stored", "published"} => desired[c.d] = c.r
  /\ c.pc = "published" /\ HasAdapter => shadow[c.d] = c.r
  /\ c.pc = "audit" => c.result # "none" /\ assignment[<<c.r, c.d>>] = c.result

CallsAreTruthful == \A h \in Handlers : CallIsTruthful(call[h])

\* Desired state comes from an assignment, and the shadow from the desired state.
DesiredIsAssigned ==
  \A d \in Devices :
    /\ desired[d] # None => assignment[<<desired[d], d>>] # "none"
    /\ shadow[d] \in {None, desired[d]}

\* A report is recorded with its own convergence, after it was found valid; one
\* that has had the device to itself is in the status row.
ReportsAreTruthful ==
  /\ \A w \in Reporters : report[w].started =>
       /\ report[w].rep \in ValidReports /\ report[w].d # None
       /\ report[w].alone => statusRow[report[w].d] = report[w].rep
  /\ \A d \in Devices :
       \/ projection[d] = NoProjection
       \/ projection[d].convergence = ConvergenceStatusForUpdate(projection[d].rep)

\* The inductive invariant: AssignDevice keeps the tables and the shadow in step
\* with its own progress, and the index keeps every other request away from the
\* device in the meantime and afterwards.
RolloutsInv ==
  /\ OneAssignmentPerDevice
  /\ CallsAreTruthful
  /\ DesiredIsAssigned
  /\ ReportsAreTruthful
  /\ AuditTellsTruth
  /\ ProjectedIsDesired
  /\ OpenIsHeldOrAbandoned
  /\ RowsAgreeUnlessTorn

\* An assignment is created while its rollout is active, except when the rollout
\* lapsed after the request had read it (AssignDevice reads and then creates).
AssignedOnlyWhileActive ==
  [][\A r \in Rollouts, d \in Devices :
       assignment[<<r, d>>] = "none" /\ assignment'[<<r, d>>] # "none" =>
         \/ rollout[r] = "active"
         \/ \E h \in Handlers : call[h].r = r /\ call[h].d = d /\ call[h].lapsed]_vars

\* A device can be assigned again from an active rollout once every rollout that
\* it was assigned from is over and the outcome of the assignment saved: "When the
\* release is promoted for a cohort, the Edge State Adapter writes the desired app
\* version/channel", and rollback is allowed.
LaterRolloutTakesOver ==
  [][\A h \in Handlers :
       LET r == call[h].r  d == call[h].d IN
       /\ CreateDeviceAssignment(h)
       /\ rollout[r] = "active" /\ assignment[<<r, d>>] = "none"
       /\ \A q \in Rollouts :
            assignment[<<q, d>>] # "none" =>
              assignment[<<q, d>>] # "assigned" /\ rollout[q] \in {"completed", "canceled"}
       => assignment'[<<r, d>>] = "assigned"]_vars

\* Every assignment gets its outcome, unless its request ended early.
AssignmentIsDecided ==
  \A r \in Rollouts, d \in Devices :
    (assignment[<<r, d>>] = "assigned" /\ <<r, d>> \notin abandoned) ~>
      (assignment[<<r, d>>] # "assigned" \/ <<r, d>> \in abandoned)
===============================================================================
