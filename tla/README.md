# HomeSignal: a TLA+ verification project

HomeSignal connects Home Assistant installations to a cloud service. An *agent*
(a Home Assistant add-on, `src/homesignal`) pairs with the cloud, keeps an AWS IoT
credential and carries out commands; a *control plane* (`src/backend`) keeps the
fleet's state in Postgres: commands, alerts, notifications, backups, rollouts; a
*telemetry ingest* service (`src/telemetry-ingest`) turns device messages and AWS IoT
lifecycle events into rows. This directory holds TLA+ models of these parts, the TLC
configurations that check them, and TLAPS proofs of what matters most.

Contents: [inventory](#1-inventory), [modules and their correspondence to the
code](#2-modules-and-the-code), [runs](#3-runs), [bounds](#4-bounds),
[fairness](#5-fairness), [proofs](#6-proofs), [disagreements
found](#7-where-code-and-documents-disagree), [what is not
modelled](#8-what-is-not-modelled), [plan](#9-plan), [how to run](#10-running).

## 1. Inventory

| Component | State | Operations | Talks to | What is hard |
|---|---|---|---|---|
| **Command service** `backend/internal/domain/commands/service.go` | rows of `commands`, `command_progress_events`, `command_results` (one terminal result per command, by unique index) | `Create`, `MarkSent`, `RecordAck`, `ExpireMissingAck`, `RecordProgress`, `RecordResult`, `ExpireResult`, `Cancel` | repository interface, MQTT notices, backups, diagnostics, rollouts | load, check, save without a transaction or a version; two writes per conclusion; three deadlines and late answers |
| **Command delivery** `commands/mqtt_notice.go`, `agent/command_receiver.go`, `agent/artifact_upload_handler.go`, `domain/artifacts/service.go` | MQTT notices; nothing on the agent; `artifact_uploads`, objects behind signed URLs | publish, `HandleMQTTCommandNotice`, `HandleArtifactCommand`, `CreateUpload` | MQTT QoS 1, control plane HTTP, object store | repeated and late notices, lost answers, an agent without memory, expiring URLs, two size limits on two sides |
| **Agent enrolment** `homesignal/cmd/agent/enrollment_*.go` | `device.json`, poll token, device key and certificate, temporary claim certificate and key, in-memory record | `RunOnce` (create, poll, provision, finalize, check), `Start` | cloud HTTP API, AWS IoT fleet provisioning, supervisor | one reconcile run makes up to ten durable changes in several files and two remote systems; crash between any two; lost answers; torn writes |
| **Telemetry ingest** `telemetry-ingest/internal/pipeline` and `storage/postgres` | `devices`, `device_latest_state`, `device_telemetry_events`, in-memory dedupe store | `Ingest` (parse, resolve, dedupe, suppress, write, remember) | AWS IoT rule, Postgres | cache outside the transaction, restarts empty it, concurrent requests of one device, revocation in between |
| **Presence** `storage/postgres/lifecycle.go` | `device_presence`, `device_lifecycle_events` | `WriteLifecycle` | AWS IoT lifecycle events, telemetry writer | events late, repeated, reordered; `last_seen_at` shared with telemetry |
| **Alerting** `domain/alerting/service.go` | `alert_candidates`, `alerts`, `alert_events` | `IntakeCandidate`, `AcknowledgeAlert`, `SnoozeAlert`, `ResolveAlert` | telemetry, state verifier | record-then-verify, whole-row saves |
| **Recipients, notifications** `domain/alerting/recipients.go`, `domain/notifications` | `alert_recipients` with subscriptions, `notification_attempts` | recipient CRUD, `EligibleRecipients`, `EnqueueAlertEmail`, `ProcessPending` | alerting, e-mail provider | claim-then-send-then-save, crashes of a worker, eligibility judged on a copy |
| **Releases** `domain/releases/service.go`, `ha_versions.go`, `platform/hacatalog` | channels, artifacts with windows, catalogue of Home Assistant versions, advisories | `RegisterChannel`, `RegisterArtifact`, `CompatibilityForVersion`, `RefreshLatestStable`, `AdvisoryForInstalled` | GitHub | comparison of versions of different lengths, order of windows, crossing refreshes |
| **Rollouts, edge state, update status** `domain/releases/updates.go`, `status.go`, `domain/edgestate` | rollouts, assignments, desired state, named shadow, status row and projection | `CreateRollout`, `ChangeRolloutStatus`, `AssignDevice`, `PutDesired`, `RecordReportedUpdateStatus` | AWS IoT named shadows | store-then-publish, five calls without a transaction, late and overlapping reports |
| **Idempotency, rate limit, dispatch** `controlplane/app.go`, `routes.go`, `idempotency.go` | in-memory maps | `ServeWithContext`, `getOrStore`, `allow` | every mutating route | unlocked while the response is produced; window boundary; restart |
| Backups `domain/backups` | backup runs, per-device status | `TriggerBackup`, `RecordCommandResult` | commands | command created before the run is stored; results out of order |
| Diagnostics `domain/diagnostics` | debug sessions, bundles | `StartDebugSession`, `CreateDiagnosticBundle` | commands | several rows one after the other |
| Migration runner `platform/migration` | `schema_migrations` | `Apply` | Postgres | concurrent runners |
| Stateless parts: read models, authorization, adapters, UI | none | | | |

The components in bold are modelled. What makes each of them correct:

* *Commands.* A terminal status is the recorded outcome; a recorded outcome is shown and
  stays shown, and an executing command ends, but for two accidents the service does not
  repair; nothing executes that was not accepted; no deadline takes effect early; as long
  as no outdated copy of a row is saved, the documented lifecycle.
* *Command delivery.* A command is worked on at most once and only if it was accepted,
  however often its notice comes, again as long as no outdated copy is saved; a success has
  its object in the store, within both limits.
* *Enrolment.* `CLAIMED` is never believed without the cloud's confirmation; the
  credential on disk is the confirmed one; a provisioned certificate is neither dropped
  nor left undecided.
* *Telemetry.* What is acknowledged is committed; a revoked device is silent;
  suppression happens only when nothing changed, unless commits crossed.
* *Presence.* A stale event changes nothing; a connect newer than all else shows.
* *Alerting.* A key has at most one active alert; a candidate counts once, however often
  it is delivered; an undisturbed intake leaves the alert as the verifier found the state;
  only a race undoes what a user did.
* *Notifications.* Nobody gets the same e-mail twice; the outbox does not contradict the
  provider; only eligible recipients are queued; only a race restores a deleted recipient;
  what a worker claims it decides.
* *Releases.* Support and advice agree with the order of versions as numbers; only
  overlapping refreshes take the catalogue back.
* *Rollouts.* A projected assignment is what the device was told; "converged" is earned;
  an assignment gets its outcome; a later rollout takes over from one that is over (the
  code fails this: section 7); status row and
  projection are of the same report.
* *Control plane.* A window lets its limit through, any span of its length less than twice
  that; a replay is of the same request and fresh; a key runs again only after the time to
  live of its stored runs, or if another request of the key was on its way when one of them
  was stored.

`PROJECT.json` lists the hazards, each at its line, with the properties that cover it.

## 2. Modules and the code

| Module | Models | Used by |
|---|---|---|
| `CommandLifecycle` | the lifecycle of `design-docs/command-lifecycle.md` as the status checks of `service.go` spell it: an abstract specification of status and outcome | `Commands` (refinement) |
| `Commands` | the command service | `CommandDelivery` (composition), `MCCommands`, `CommandsProofs` |
| `CommandDelivery` | notice, receiver, upload handler, upload broker and object store around the command service | `MCCommandDelivery`, `CommandDeliveryProofs` |
| `Enrollment` | the agent's enrolment loop, its files and its view of the cloud | `MCEnrollment`, `EnrollmentProofs` |
| `TelemetryIngest` | ingest pipeline, dedupe store, latest-state writer and lifecycle writer | `MCTelemetryIngest`, `TelemetryIngestProofs` |
| `Alerting` | the alert service | `MCAlerting`, `AlertingProofs` |
| `Notifications` | alert recipients, fan-out and e-mail outbox | `MCNotifications`, `NotificationsProofs` |
| `UpdateRollouts` | rollouts, assignments, edge state and update reports | `MCUpdateRollouts`, `UpdateRolloutsProofs` |
| `Releases` | channels, artifacts, versions, catalogue, advisories | `MCReleases`, `UpdateRolloutsProofs` |
| `ControlPlane` | dispatch, idempotency store, rate limiter | `MCControlPlane`, `ControlPlaneProofs` |
| `*Proofs` | the theorems about the module they extend; `UpdateRolloutsProofs` extends `UpdateRollouts` and `Releases`, which share no state | |
| `MC*` | instances for TLC: messages, events, command definitions, symmetry | the runs |

### Commands

`db[c]` is the row of command `c` (status, the two deadlines, which timestamps are set),
`results[c]` its row in `command_results`, `accepted` the commands for which an accepted
acknowledgement was ever saved (history, for `AcceptedBeforeExecution`), `clock` the
service's `Now`. `hs[h]` is a request in flight: the copy of the row it loaded, what it is
about to write and the repository call it stands before. The repository exists only as an
interface and a schema, without transactions in that interface; each of its calls is
therefore one atomic step, and other requests may take steps between them:

* `load` is `Service.load` with the row copied into the request; a command that is not
  there ends the request;
* `MarkSent`, `RecordAck`, `ExpireMissingAck`, `RecordProgress`, `RecordResult`,
  `ExpireResult`, `Cancel` are the checks and assignments each operation makes on its
  *copy*, at the clock of that moment;
* `AppendProgressEvent`, `InsertResult`, `SaveCommand` are the repository calls, in the
  operation's order (progress event before row, result before row). `InsertResult` obeys
  `command_results_one_terminal_idx`; `SaveCommand` writes the *whole* copy back;
* `Return` ends a request before any of its calls: an error of the repository, a caller
  that goes away, a crash of the Lambda.

Three history variables name what the service cannot prevent: `outdated` are the requests
whose command was saved by another since they loaded it, `overwritten` the commands saved
by an outdated request, `unsettled` the commands whose result was inserted by a request
that ended before its save.

Payloads, ids and texts are left out. `definitionFor` keeps its check of the windows, so
that unusable command types are refused as the code does.

### Enrollment

`mem` is `EnrollmentManager.record`, `disk`, `token`, `key`, `cert`, `claimFiles` are the
files, `run` is where `RunOnce` stands. One action is one durable effect: `storeSession`
(poll token file) and `saveSession` (`device.json`) are two steps, as in the code, and
`Crash` may come between them. `loadDeviceRecord` is the start of the process, with its
treatment of missing, legacy and unreadable files. `cloud` and `certKey` model the
services the agent calls and are marked external: only what the agent can observe or
change is in them. A file operation may fail (`Fault`) and leaves the old content, the new
one or a torn file, since `os.WriteFile` truncates before it writes. A call whose answer
is lost has its effect in the cloud and none on the agent. A session stands for its id,
its poll token and the device id reserved for it. `main.go` wires the loop with an
`UnsupportedFleetProvisioningClient`; the model takes the interface
`FleetProvisioningClient` as the tests do.

### TelemetryIngest

`reqs[h]` is a request in flight; `ResolveDevice`, `SeenMessage`,
`shouldSuppressUnchangedTelemetry`, `WriteLatest` / `recordTelemetrySeen`,
`RecordMaterialHash`, `RecordMessage` are the calls `Ingest` makes in that order, each one
step, because the store locks per call and the database per transaction. `WriteLatest` may
also commit and report a failure (`budget.unknown`). `Restart` empties the dedupe store and
drops the requests in flight. Parsing, schema and identity checks are the `verdict` of a
message (`ok`, `invalid`, `drift`); times are a small clock, since only their order is
used. `crossed` is history: devices of which telemetry was committed while another request
stood between its commit and `RecordMaterialHash`, or committed and reported as failed,
until the next commit that is alone. `LookupDevice` and `WriteLifecycle` are the lifecycle
writer's lookup and transaction; `PresenceAfter` is its SQL upsert, with the `CASE` on
`last_seen_at` as written.

### Alerting

`recorded`, `alerts` and `events` are the three tables, `unhealthy` is what the external
`StateVerifier` finds, `reqs[h]` is a request in flight with the verifier's answer and the
row it is about to write. As for commands, each repository call is one step:
`TryRecordCandidate`, `VerifyCandidate`, `GetActiveAlertByKey` (with the decision and the
changes the code makes to its copy of the row: `Created`, `Updated`, `Resolved`),
`CreateAlert`, `SaveAlert`, `RecordAlertEvent`; a user's request starts in `loadAlert`.
`CreateAlert` and `SaveAlert` obey `alerts_one_active_key_idx` and otherwise write
whatever the copy holds. `Return` ends a request before any of its calls; a candidate of
such a request stays recorded, and its next delivery is a duplicate. Rows keep status,
key, first and last candidate, the occurrence count and whether a user marked the alert;
severity, texts, times and the events of users are left out. `solo` is history: the
request that has had no other beside it since it began, if there is one.

### Notifications

`recipients` is `alert_recipients` with its subscriptions; `managers[m]` is a change
between `GetRecipient` and `SaveRecipient`, holding the whole row it will write; the
partial unique indexes are `UniqueEmail`. `dispatch[d]` is an alert being fanned out over
the copies `EligibleRecipients` listed, and `attempts` is the table of notification
attempts by idempotency key. A worker claims up to `BatchLimit` pending attempts
(`ClaimPendingAttempts`; only the interface is in the repository, so it is external and
atomic: an attempt goes to one caller), then sends and saves one after the other as
`ProcessPending` does; a failed save is only reported to the caller, a crash strands the
batch. The provider (`delivered`) may take an e-mail and not answer. `raced`, `stale` and
`stranded` are history: they name the race or the failure a property excepts.

### UpdateRollouts

`rollout`, `assignment`, `desired`, `statusRow`, `projection` are tables, `shadow` is the
device's named shadow, `audit` the rollout events. `call[h]` is an `AssignDevice` in
flight, which stands before one of its calls: `GetRollout` with the status check,
`CreateDeviceAssignment` under `device_update_assignments_one_open_idx`, the two writes of
`PutDesired` (row, then shadow), `SaveDeviceAssignmentProjection`, the audit event. Each
may fail, a publish also after it took effect, and `EndEarly` stops a request anywhere.
`report[w]` is a `RecordReportedUpdateStatus` between its two upserts. A version is the
rollout it comes from. A device reports any desired version, none or one
it was never told included, and any installed version: `RecordReportedUpdateStatus` judges
convergence by the version the device names, so `ConvergedIsAssigned` speaks of reports
that name the version in the shadow, and of others "converged" says no more than the
device does.

### Releases

A version is a sequence of numbers with or without a tag, absent or malformed; text and
parsing are abstracted to that. `CompareDottedVersion`, `VersionWithin`,
`ValidateWindowBound` and `CompatibilityForVersion` are pure operators in the order of
checks the code has. The properties compare them with `Reading`, which reads a version as
one number with a digit per part: `Between` and `Holds` say with it when a window holds an
agent protocol and a Home Assistant version. `refresh[f]` is a `RefreshLatestStable`
between its clock, the provider's answer and `SaveHACoreCatalog`; `advisory` is the
device's last advisory with the catalogue row it was judged on.

### CommandDelivery

The module extends `Commands`: the command service is there as it is, request by request
and call by call. `LoadForService` and `DecideForService` are the requests of the sender of
notices, of the expiry jobs and of an operator; the agent's acknowledgements and results
enter by `CallService` as requests of the same kind, and `origin[h]` tells which thread
waits for the answer of request `h`. So two acknowledgements, an acknowledgement and an
expiry, two `MarkSent` or any other two operations cross between load and save as the code
lets them. A request whose thread is gone goes on. `SaveForRequest` answers: the handler
starts if the acceptance was saved and the thread still waits; `EndRequest` is every other
end, with an error for the thread. `ServiceIsUsed` proves that every behaviour of the
composition is one of `Commands`.

`notices` only grows: a notice in it may be delivered never, late, or again and again,
until it expires. `thread[t]` is a notice in the agent's hands and what it has generated
and uploaded; every call of `HandleArtifactCommand` is a step that fails with or without
effect. `Restart` forgets the threads. Who publishes a notice and who calls the handler
after an acceptance is not in the repository; the model lets a caller publish while the
command waits and calls the handler once per acceptance that was answered.

### ControlPlane

`Refusal` is the cascade of checks of `ServeWithContext` and the routes up to the
idempotency key, one route per kind. `Lookup` and `Store` are the two critical sections of
`getOrStore`, `Handle` is the one of `allow` with the handler. Both read the clock before
they wait for their lock, so `Arrive` and `ReadClock` are steps of their own and requests
pass a lock in another order than their clocks. `CacheKey` joins subject and key as the
code does (`scope + "|" + key`), so that two subjects may share a key. A response is its
code and the number of the run that made it, so that a replay can be told from a second
run. `contested` is history: runs stored while another request of the key was on its way;
`late` marks a run counted in a window that was opened by a request that read the clock
after it.

## 3. Runs

| Run | Checks | Shows |
|---|---|---|
| `commands_concurrent` | `TerminalMatchesResult`, `AcceptedBeforeExecution`, `NoEarlyExpiry`, `ResultIsShown`, `DepartsOnlyByOverwriting`, `ExecutingIsDecided` | what the service guarantees with two requests racing on a command and failing anywhere, and that an executing command ends |
| `delivery_crossing` | `HandledOnce`, `RefusedIsNotHandled` | a notice repeated into two threads, restarts, any two requests crossing in the service: worked on twice, or after a refusal, only after an outdated copy was saved |
| `delivery_upload` | `SucceededIsStored`, `ImplementsLifecycle` | one command of any kind, lost answers, an expiring URL, one request of the service at a time: a success has its object, and all parts together refine `CommandLifecycle` |
| `enrollment_crash` | `ClaimIsConfirmed`, `CredentialIsTheConfirmedOne`, `TokenIsOfSession`, `ProvisionedIsKept`, `ApprovedIsDecided`, `ProvisionedIsDecidedUndisturbed` | two pairings, a crash, a failing write, lost credentials and any number of failed calls, in every order; and that pairing is decided as long as the agent is not disturbed |
| `enrollment_losttoken` | `ProvisionedIsDecided`, violated | with one crash pairing need not be decided; section 7 |
| `telemetry_concurrent` | `AckedIsPersisted`, `CacheMatchesLatest`, `ConnectedIsApplied`, `RevokedIsSilent`, `StaleEventsIgnored` | two requests, a restart, a commit reported as failed, a revocation, and lifecycle events in any order beside telemetry of the same device |
| `alerting_concurrent` | `OneActivePerKey`, `OneOutcomePerCandidate`, `IntakeDecides`, `UndoneOnlyByRace` | two requests racing on the alerts of one key, failing anywhere, candidates delivered repeatedly; a request alone repairs what races left behind and undoes nothing |
| `notifications_outbox` | `AtMostOneEmail`, `OutboxAgreesWithProvider`, `QueuedOnlyIfEligible`, `UndeletedOnlyByRace`, `ClaimedIsDecided` | two alerts fanned out repeatedly while two managers change the recipient and two workers claim, send, fail and crash |
| `rollouts_assign` | `ProjectedIsDesired`, `ConvergedIsAssigned`, `RowsAgreeUnlessTorn`, `AssignmentIsDecided` | two assignments of one device from two rollouts that change status, failing between any two calls, with two reports of any version beside them |
| `rollouts_replaced` | `LaterRolloutTakesOver`, violated | a completed rollout keeps its device; section 7 |
| `releases_catalog` | `SupportIsSound`, `AdviceIsSound`, `CatalogMovesBackOnlyByRace` | every pair of sample windows registered, two refreshes at once, advisories at any time, against the numeric reading of versions |
| `controlplane_keys` | `LimitHolds`, `ReplayFits`, `RunsAgainOnlyWhenOld` | requests of every kind of route, two at a time, two subjects and keys that join to one text, two bodies, expiry, two requests to a window, window ends and a restart |

The larger runs: `telemetry_concurrent` 4.5 million distinct states, `delivery_crossing`
1.9, `delivery_upload` 0.7, `commands_concurrent` 0.42, `rollouts_assign` 0.39,
`controlplane_keys` 0.2.

A property that only holds without races says so by name or by its history variable: it
excepts exactly the commands, keys, recipients or devices whose requests interfered
(`overwritten`, `crossed`, `contested`, `raced`, `torn`, ...) and binds all others. Every
property of a passing run has a mutant, an operator defined before the definition it
replaces, that a plausible slip in the code would produce and that TLC refutes. The type
and inductive invariants (`CommandsInv`, `IngestInv`, `CacheInv`, `PresenceInv`,
`AlertingInv`, `NotificationsInv`, `RolloutsInv`; `RunsInv`, `CallsInv`, `EntriesInv`,
`ForgottenInv` and `LimitInv` of the control plane; `FreshInv` and `ForwardInv` of the
commands; `KnownInv`, `OriginInv`, `AckInv` and `UploadInv` of command delivery;
`RecordsInv`, `RunInv`, `SyncInv` and `CredentialInv` of enrolment; `RowsInv`, `AdviceInv`
and `RefreshInv` of releases) were checked with TLC before they were proved and are not
part of the runs.

`CHECK_DEADLOCK FALSE` is set where the system may stop: the enrolment runs end in states
in which the agent is stuck (a torn `device.json` makes `main` exit on every start), and in
the outbox, rollout, control plane and release runs every request may be answered,
every bounded request used up and the clock at its end.

## 4. Bounds

* *Commands.* One command (commands do not interact: each operation touches the rows of
  one id), two requests, since every race found or excluded is between the copy of one
  and the write of another; the clock runs to 3, so that with windows of 1 and 2
  every deadline is met, reached exactly and passed, before and after sending. `equal`
  has windows `definitionFor` refuses, `unknown` no definition.
* *CommandDelivery.* One command, two threads, so that a notice overlaps with its
  repetition. `delivery_crossing` has two requests of the service and one kind of command,
  whose handler reports at once, since kinds differ only in the handler; the clock runs to
  2, in which the acknowledgement deadline passes before, between and after the calls of
  either request. `delivery_upload` has six kinds, two upload slots, sizes below, at and
  above the limits, a clock to 3, in which each of the deadlines and the URL may pass before
  or after the others, and one request of the service at a time: that is where the
  composition refines the lifecycle.
* *Enrollment.* Two sessions, so that a first pairing may run out and a second succeed;
  two certificates and two keys, so that provisioning may be repeated; one crash, one
  failing write and one loss of files, in any order. (The safety properties also hold with
  two crashes, a run of more than five minutes.)
* *TelemetryIngest.* One device (devices share nothing) that both reports and connects. Two
  reports with different material, either of which may be in hand twice, so that the
  material changes back (the ABA case of the suppression); an alarm, a message the schema
  refuses, one whose payload names another device; two handlers; one restart; one commit
  reported as failed. Lifecycle events: a disconnect, a later connect and an unsupported
  event at the same instant; telemetry at every instant from before the first to that of
  the last.
* *Alerting.* Three candidates of one key, so that an alert is raised, repeated and
  recovered, or raised twice; keys do not interact, since a request touches alerts of one
  key only; two handlers; two alerts, so that a stale row can be saved while the next
  alert is active.
* *Notifications.* One recipient, whose row two managers change twice; two alerts, so that
  a batch has more than one attempt and a failure in its middle; two fan-outs, so that a
  key is enqueued again; two workers. With one recipient the uniqueness of addresses is
  not exercised by TLC; the proofs cover any number.
* *UpdateRollouts.* One device (rows of devices do not interact), two rollouts, two
  assignments in flight, one status change, two reports at a time out of three samples,
  which name the version of one rollout, running it or not, whether or not the device was
  assigned it or told of it, or are refused. `rollouts_replaced` lets rollouts be completed
  and has no reports.
* *Releases.* Versions of one and two numbers, one with a tag, an absent and a malformed
  one, each as protocol and as Home Assistant version; windows with two bounds, one,
  reversed and malformed, one of them bounding the protocol too, in every order of two;
  two refreshes, three instants.
* *ControlPlane.* A time to live of 1, a window of 2 and a limit of 2 within three instants,
  so that entries expire inside a window, windows follow each other and a span holds runs
  of two; four runs between restarts, of which three do pass in a span across the boundary,
  the most the bound `2 * Limit` allows. Two requests whose subject and key differ and join
  to the same text.

All bounds are constants of the specifications (`MaxClock`, `MaxCrashes`, ...) or sets in
the MC modules. The theorems hold for every value of them.

## 5. Fairness

* `Enrollment!FairSpec`: `WF(RunOnce)`, because `Start` calls it on every tick of a ticker;
  `WF(loadDeviceRecord)`, because the supervisor restarts the add-on; `SF` on
  `pollApproved`, `provision` and `finalizeClaimed \/ finalizeRefused`: a remote call that
  is repeated for ever is answered at some time, as the cloud will. Nothing is assumed
  about users, the clock, crashes or losses.
* `Commands!FairSpec`: time passes, every request in flight takes its next call or ends, and
  the job that calls `ExpireResult` is run again and again and does not fail before the same
  call for ever (`SF` on its check and on its insert). The service offers the operation for
  such a job; its caller is not in the repository, only tests call it. Nothing is assumed of
  the device, of any other request or of any save, which is the point of
  `ExecutingIsDecided`.
* `Notifications!Spec`: `WF(WorkerStep(w))`: a run of `ProcessPending` goes on with its
  loop until it is done or crashes. New runs need not come.
* `UpdateRollouts!Spec`: `WF(AssignStep(h))`: a request that has started takes its next
  call, or ends early. New requests need not come.

The other specifications assume no fairness; their properties are safety.

## 6. Proofs

TLAPS checks every leaf of the eight proof modules, for any sets of commands, requests,
devices, messages, candidates, recipients, workers and rollouts and any windows and
bounds, from the named assumptions of the modules and, where a theorem says so, a named
hypothesis on the constants.

*Commands.* `Invariance` proves `Spec => []CommandsInv`. The safety properties are not
inductive: a request that holds a stale copy writes it back, so the invariant must say
what every copy in flight is worth. `CommandsInv` adds to them
`RequestsInv`, that a copy is one of a stored row with the same result deadline and
stamps (`CopyIsOfStoredRow`), that a status it carries is justified by a fact that can
never be undone, such as a passed deadline, a recorded acceptance or a recorded result
(`CopyIsJustified`), and that a write about to be made has passed its check
(`IntentIsJustified`); and `TablesInv`. The argument is monotonicity: the clock grows,
acceptances and results are never removed, result deadlines never change, so an old copy
stays justified. From the invariant follow `TypeCorrect`, `TerminalAgreement`,
`AcceptanceFirst`, `DeadlinesNeverEarly` and `StampsAgree`, and `ResultDeadlineStable`, an
action property. `CopiesInvariance` adds what is known as long as no outdated copy was
saved: `FreshInv` says that a request that is not outdated writes a row one arrow of the
lifecycle away from the stored one, `ForwardInv` that an outdated one that is about to
insert a result finds its command executing or ended. `ResultsAreShown` follows, for any
number of requests; `DepartureNeedsOverwriting` shows that every step is one of the
lifecycle or leaves status and outcome alone until an outdated copy is saved, and so
`Refinement` proves `Spec /\ [](overwritten = {}) => ImplementsLifecycle`.
`SequentialRefinement` needs no such hypothesis where one request is in flight at a time,
since then no request is ever outdated.

*TelemetryIngest.* `Invariance` proves `Spec => []IngestInv`; beside the properties it
says what a request that stands before `RecordMaterialHash` or `RecordMessage` knows
(`RequestKnows`): its message is committed. Event rows are never deleted, so that
knowledge survives other requests, restarts and revocation. `AcceptedIsKept`,
`CacheAfterCommit`, `LatestHasItsEvent` and `TypeCorrect` follow, and the action property
`RevokedSilence`: a write follows a lookup that finds the device claimed, and `Quiet` says
that no request is between the two. `SuppressionIsSound` holds for any number of requests:
`CacheInv` says of a device that is not in `crossed` that at most one request is about to
record its material and that it wrote the latest state, so what it will record is what the
table holds. For the presence, `PresenceInv` ties `last_seen_at` to the newest event or the
last telemetry, whichever is later, and the connection state to a newest event unless
telemetry came after it; `StaleStaysIgnored`, an action property, and `ConnectionIsApplied`
follow, for devices that report and connect.

*CommandDelivery.* `DeliveryInvariance` proves `DeliverySpec => []DeliveryInv`: the
invariants of `Commands` (`CopiesInv`), types and `KnownInv` (nothing refers to a command
that was not created), `OriginInv`, `AckInv` and `UploadInv`. `ServiceIsUsed` proves
`DeliverySpec => Spec`, so whatever is proved of `Commands` holds here. The agent keeps no
memory, so that a command is worked on once rests on the service: `AckInv` says that, as
long as no outdated copy of its row was saved, a command not past `sent` has not been
worked on, nor any twice; an acceptance that is not outdated found the stored row `sent`, by
`FreshInv`, so the save that lets the handler start is then the one that leaves `sent`.
`UploadInv` follows an artifact through the handler: what was checked of it before each
call (`Checked`), and that what is in the store has a slot and is within both limits
(`StoredFits`), whichever call was repeated or reported as failed. `HandlingIsOnce`,
`SuccessIsStored` and the action property `RefusedStaysRefused` follow.
`DeliveryRefinement` combines `ServiceIsUsed` with the refinement of `Commands`:
`DeliverySpec /\ [](overwritten = {})` implements `LifecycleSpec`, where the hypothesis
covers every operation that loads and saves.

*Enrollment.* `EnrollmentInvariance` proves `Spec => []EnrollmentInv`: `TypeOK`,
`RecordsInv`, `RunInv`, `SyncInv` and `CredentialInv`. A crash forgets the memory and goes
on from `device.json`, so the invariant must say how far the file may be behind at each
place where `RunOnce` can be cut off. `RunInv` says what the record in memory is at each
place. `SyncInv` says, as long as no file operation failed, that `device.json` *is* the
memory at most places, is one field behind while a certificate is being saved, and still
has the pending certificate while the claim is being saved; and that the token file is
empty or of the session `device.json` waits on. `CredentialInv` says that the key and
certificate files fit (`Holds`) every certificate a record names as pending or as
confirmed: the files are written only at places where, by `SyncInv`, neither record names
one. Two facts about all steps carry the argument: whatever is saved is the record in
memory (`DiskStep`), and a session the cloud has confirmed stays confirmed for the same
certificate (`CloudStep`). `ClaimsAreConfirmed`, which needs no assumption about faults,
`TokensFit`, `CredentialsAreConfirmed` and the action property `ProvisionedStays` follow,
for any number of sessions, keys, certificates, crashes, faults and losses.

*Alerting.* `Invariance` proves `Spec => []AlertingInv`. Rows are written back stale, so
the invariant says of every row, stored or carried, that it is *backed* (`RowIsBacked`):
the candidates it names are on record for its key, and it counts no more of them than
have been looked up (`Counted`). That set only grows, so an old row stays backed; a
request that looks its alert up adds its own candidate to it, which pays for the
occurrence it adds to the row. `RequestInv` says that no two requests carry the same
candidate and that no event names it yet; `SoloInv` says what a request without a rival
knows of the table at each of its calls. `TypeCorrect`, `OneActive`,
`DistinctOccurrences`, `OneOutcome` and `LoneIntakeDecides` follow, and the action
property `NothingUndoneAlone`.

*Notifications.* `Invariance` proves `Spec => []Known`, the conjunction of `TypeOK`,
`NotificationsInv` and `CopiesAreFresh`. That an e-mail is not sent twice needs to know who
may send: batches are disjoint sets of claimed attempts (`BatchesAreClaimed`), the attempt
in hand is of the batch and those still to come were not sent (`InHand`); an attempt that
leaves a batch is decided or stranded, and neither is ever pending again. `CopiesAreFresh`
says what a manager's or dispatcher's copy is worth as long as nobody saved the row since.
`OneEmail`, `ProviderAgreement`, `DecisionsAreFinal`, `QueuedAreEligible` and
`DeletionSurvivesAlone` follow.

*UpdateRollouts.* `Invariance` proves `Spec => [](TypeOK /\ RolloutsInv)`. The unique index
gives a device one assignment, and no code closes it (`OneAssignmentPerDevice`); so the
request that created it is alone with the device, and what it has done so far is what the
tables show (`CallsAreTruthful`). Desired state comes from an assignment, and the shadow
from desired state, whatever devices report (`DesiredIsAssigned`); a report that had the
device to itself is in the status row (`ReportsAreTruthful`). `ProjectionHolds`,
`ConvergenceIsEarned`, `RowsAgree` and `AssignmentNeedsActiveRollout` follow; the last,
that only a rollout that lapsed between the check and the insert is assigned from without
being active, has no run.

*ControlPlane.* `BaseInvariance` is about runs and calls: runs are numbered, and a call
past `Handle` holds the response of the run it made. On it rest two invariants.
`IdempotencyInv` says that an entry stands for a finished run of its own key and body, with
the time to live counted from the clock that request read, and that this run is contested
unless nobody is on the way to store another (`EntriesInv`); and that a finished run since
the last restart is too old, was contested, or has the entry (`ForgottenInv`). `ReplaysFit`
and the action property `KeysAreKept` follow. `LimitInv` says of each scope, leaving out
runs that are counted late, that the open window was opened by a run, that the runs that
passed in it are no more than the bucket counts and than the limit, and that any span
reaching back less than a window from its start holds *less* than the limit, since the run
that opened the window before it is not in the span; a span across the boundary then holds
less than twice the limit, which is `LimitIsKept`.

*Releases* (in `UpdateRolloutsProofs`, which extends both modules of the component). The
reference `Reading` is recursive, and its order is proved for versions of any length and
numbers of any size. The provers have no induction rule they can instantiate; the proofs
use that a non-empty set of natural numbers has a least element (`LeastNumber`, from the
well-foundedness of `<`), on the set of places where a claim fails. So the recursion has a
solution (`ReadsExist`) and `Reading` is its last number (`ReadingReads`), equal prefixes
read the same (`EqualPrefix`), and the first part that differs outweighs all that follow
(`FirstDecides`, by `Carry`); hence `CompareDottedVersion` is the order of the readings
(`CompareIsOrder`), whatever the lengths. `WithinIsBetween` and `MatchIsHold` carry this
to windows, and `FirstHitDecides` to a sequence of windows of any length: the window the
code stops at is the first that holds the device. `ReleasesInvariance` proves
`ReleasesSpec => []ReleasesInv`: `ReleasesTypeOK`, `RowsInv` (an active row has a version
that parses), `AdviceInv` (an advisory is what its own row and time give) and `RefreshInv`
(a refresh that nobody overtook began after the catalogue was fetched, and its answer is
not older than itself). `SupportAgreesWithOrder`, `AdviceAgreesWithOrder` and the action
property `CatalogNeedsRaceToMoveBack` follow.

Every safety property the passing runs check is proved for all values of the constants; the
only hypothesis is that of the two refinement theorems, that no outdated copy was saved.
Out of the prover's reach: the liveness properties (`ApprovedIsDecided`,
`ProvisionedIsDecided`, `ProvisionedIsDecidedUndisturbed`, `ExecutingIsDecided`,
`ClaimedIsDecided`, `AssignmentIsDecided`), which stay with TLC.

## 7. Where code and documents disagree

`enrollment_losttoken`, with its entry in `PROJECT.json`: the poll token file is removed
before the claimed record is saved; a crash in between leaves an agent that can neither
finalize nor expire, although the contract says that pending claim verification survives
restart until expiry.

`rollouts_replaced`, with its entry in `PROJECT.json`:
`device_update_assignments_one_open_idx` keeps a device to one open assignment, and no code
ever closes one, so a rollout that was completed, or whose projection failed, keeps its
devices for ever. The architecture says that each release promoted for a cohort writes its
version (`update-architecture.md:453`), and that rollback is allowed (`:548`).

Seen in the code while modelling, without a run of their own:

* commands: every operation writes back the row it loaded, so a slow `RecordProgress`
  (`service.go:348`) puts `running` over a terminal status, against
  `command-lifecycle.md:67`; a result that is inserted before a failing save
  (`service.go:393`) blocks every later result, and the command never ends by itself;
  `MarkSent` moves the acknowledgement deadline past the result deadline although
  `validateCommand` demands their order;
* command delivery: requests that cross between load and save overwrite each other. Two
  `MarkSent` put `sent` back over an acceptance, and a repeated notice is then accepted and
  worked on again; an expiry that loaded `sent` puts `ack_timed_out` over an acceptance
  whose handler is at work, and its result is refused. The properties except exactly the
  commands on which an outdated copy was saved (`overwritten`);
* enrolment: the removal of the claim material is deferred, so a crash or a failing
  removal leaves it on disk (`enrollment_manager.go:291`); a failed write of
  `device.json` leaves a file `main` refuses;
* telemetry: the material hash is recorded after the commit, so two requests cross and
  equal telemetry is suppressed although the table shows another state
  (`pipeline.go:103`, `service-map.md:321`); a disconnect is applied at once, where
  `telemetry-ingest-architecture.md:749` says not to and asks for a delayed verification;
  telemetry moves `last_seen_at`, so a late
  disconnect is taken for stale (`lifecycle.go:94`, `writer.go:203`,
  `telemetry-ingest-architecture.md:740`); a stale lifecycle event still replaces
  `last_session_identifier`;
* alerting: a candidate whose verification fails is already recorded, so its retry is
  ignored as a duplicate; `validateVerification` accepts an empty `reason_code` that
  `validateAlert` then refuses, with the candidate spent; an acknowledgement that loaded
  an alert before it was resolved makes it active again;
* recipients: an update that loaded the row before a deletion restores it, and one that
  loaded it after gives a deleted row the status `verified`; `EligibleRecipients` looks
  at the status and not at `deleted_at`;
* notifications: an attempt that a crash or a failed save leaves claimed stays claimed;
* rollouts: a rollout may leave any status for any other, also between the check of its
  status and the assignment; convergence is judged by the version the device names, not by
  the one it was assigned;
* control plane: a response of the rate limiter is stored under the idempotency key and
  replayed after the window has ended, where `api-facade.md:151` limits first; two requests
  with one key both run, and the one that stores last may bring the earlier expiry, so that
  a third runs within the time to live of the other; subject and key are joined by `|`, so
  different pairs may share a key; a request that read the clock before a window was opened
  is counted in it, on top of what its own window let through.

## 8. What is not modelled

* *Backups*: `TriggerBackup` creates a command and then writes two rows, the shape of
  `AssignDevice`; `RecordCommandResult` has no caller in the repository yet. Its hazard (an
  old result over a newer run) is listed without a property.
* *Diagnostics*: a command, a row and an event written in sequence and never changed.
* *Migration runner*: `Apply` is one transaction per migration; whether two runners
  exclude each other rests on Postgres.
* `RequestUpdateStatusCheck`, `RequestUpdateRepair`: create a command and nothing else.
  `notification.go` of the commands: formats a message.
* Read models, authorization, adapters, the Lambda loop, UI, infrastructure: no state of
  their own, or pure I/O.
* JSON, schema validation, formatting, logging, failure logs: abstracted to a verdict or
  left out.

## 9. Plan

1. `Commands`, `CommandLifecycle`, refinement, proofs. *Done.*
2. `Enrollment` with crashes, faults and liveness; proofs of its safety
   properties. *Done.*
3. `TelemetryIngest` with presence, proofs. *Done.*
4. `Alerting`; `Notifications` with recipients; proofs of both. *Done.*
5. `CommandDelivery`: notices, agent, upload, composed with `Commands`;
   proofs of its safety properties and of the refinement. *Done.*
6. `UpdateRollouts` with edge state, `Releases`; proofs of both. *Done.*
7. `ControlPlane`, proofs. *Done.*
8. `Backups` over `CommandLifecycle`: run, device status, results out of order.
   `Diagnostics` in the same shape.

## 10. Running

In this directory: `tlc -workers 2 -config MCCommands_concurrent.cfg MCCommands` for a
run (the table in `PROJECT.json` pairs configurations and modules), `tlapm
CommandsProofs.tla` for the proofs. The largest runs (`telemetry_concurrent`,
`delivery_crossing`, `enrollment_crash`, `releases_catalog`) take one and a half to three
minutes each; each proof module a few minutes.
