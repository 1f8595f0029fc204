------------------------------- MODULE Alerting -------------------------------
(***************************************************************************)
(* Product alerts: backend/internal/domain/alerting/service.go over its    *)
(* Repository interface and the alert_candidates, alerts and alert_events  *)
(* tables of backend/migrations/000011_alerting_core.sql.                  *)
(*                                                                         *)
(* A candidate is a wake-up signal: it is recorded, the current state is   *)
(* verified, and the active alert of its key is created, updated or        *)
(* resolved; users acknowledge, snooze and resolve alerts.  Every request  *)
(* makes several repository calls with no transaction around them, saves   *)
(* whole rows it loaded before, and may fail between any two calls.        *)
(* Candidates are delivered any number of times.                           *)
(***************************************************************************)
EXTENDS Integers, FiniteSets

CONSTANTS
  Candidates,  \* candidate ids
  Keys,        \* alert keys: a device and an alert family
  KeyOf,       \* the key the verifier finds for each candidate
  Handlers,    \* requests that can be in flight at the same time
  MaxAlerts,   \* bound: alerts ever created
  None         \* no candidate, no key, no request

ASSUME AlertingAssumption ==
  /\ KeyOf \in [Candidates -> Keys]
  /\ MaxAlerts \in Nat
  /\ IsFiniteSet(Candidates)
  /\ None \notin Candidates \union Keys \union Handlers

VARIABLES
  unhealthy,  \* external: the keys whose current state is bad
  recorded,   \* alert_candidates
  alerts,     \* alerts
  events,     \* alert_events of candidates; those of users are left out
  reqs,       \* requests in flight
  solo        \* history: the request that has had no other beside it

vars == <<unhealthy, recorded, alerts, events, reqs, solo>>

-------------------------------------------------------------------------------
(***************************************************************************)
(* Data.                                                                   *)
(***************************************************************************)
AlertIds == 1..MaxAlerts

\* An alerts row.  Severity, texts and times are left out; marked tells whether
\* acknowledged_at or snoozed_until is set.  resolved_at is set exactly when
\* the status is resolved: the two are assigned together.
Rows == [status : {"none", "active", "resolved"}, key : Keys \union {None},
         first : Candidates \union {None}, last : Candidates \union {None},
         count : Nat, marked : BOOLEAN]

NoAlert == [status |-> "none", key |-> None, first |-> None, last |-> None,
            count |-> 0, marked |-> FALSE]

Events == [alert : AlertIds, cand : Candidates, type : {"created", "updated", "resolved"}]

\* A request: the repository call it makes next, its candidate (None for a
\* user's request) and what the verifier said of it, the alert and the row it
\* is about to write, and the event that will follow.
Requests ==
  [pc : {"idle", "verify", "lookup", "create", "save", "event", "done"},
   cand : Candidates \union {None}, healthy : BOOLEAN, id : 0..MaxAlerts,
   row : Rows, type : {"created", "updated", "resolved"}]

Idle == [pc |-> "idle", cand |-> None, healthy |-> TRUE, id |-> 0,
         row |-> NoAlert, type |-> "updated"]

ActiveOf(k) == {a \in AlertIds : alerts[a].status = "active" /\ alerts[a].key = k}

Others(h) == Handlers \ {h}

Goto(h, r) ==
  /\ reqs' = [reqs EXCEPT ![h] = r]
  /\ UNCHANGED solo

\* A request begins.
Begin(h, r) ==
  /\ reqs[h].pc = "idle"
  /\ reqs' = [reqs EXCEPT ![h] = r]
  /\ solo' = IF \A g \in Others(h) : reqs[g].pc = "idle" THEN h ELSE None

At(h, pc) == reqs[h].pc = pc

\* The row is one that alerts_one_active_key_idx accepts for alert a.
OneActiveKey(a, row) ==
  row.status = "active" => ActiveOf(row.key) \subseteq {a}

-------------------------------------------------------------------------------
(***************************************************************************)
(* IntakeCandidate.                                                        *)
(***************************************************************************)

\* Mutant: the candidate is recorded, but a duplicate goes on.
TryRecordAnyCandidate(h, c) ==
  /\ recorded' = recorded \union {c}
  /\ Begin(h, [Idle EXCEPT !.pc = "verify", !.cand = c])
  /\ UNCHANGED <<unhealthy, alerts, events>>

\* A candidate that is on record already is a duplicate and is ignored: the
\* request ends without effect.
TryRecordCandidate(h, c) ==
  /\ c \notin recorded
  /\ recorded' = recorded \union {c}
  /\ Begin(h, [Idle EXCEPT !.pc = "verify", !.cand = c])
  /\ UNCHANGED <<unhealthy, alerts, events>>

VerifyCandidate(h) ==
  /\ At(h, "verify")
  /\ Goto(h, [reqs[h] EXCEPT !.pc = "lookup",
                             !.healthy = KeyOf[reqs[h].cand] \notin unhealthy])
  /\ UNCHANGED <<unhealthy, recorded, alerts, events>>

Updated(row, c) == [row EXCEPT !.last = c, !.count = @ + 1]

\* Mutant: a recovery only notes its candidate.
ResolvedInName(row, c) == [row EXCEPT !.last = IF c = None THEN @ ELSE c]

Resolved(row, c) == [row EXCEPT !.status = "resolved",
                                !.last = IF c = None THEN @ ELSE c]

Created(c) == [NoAlert EXCEPT !.status = "active", !.key = KeyOf[c],
                              !.first = c, !.last = c, !.count = 1]

\* The active alert of the key, and what is to be done with it.
GetActiveAlertByKey(h) ==
  LET r == reqs[h]
      active == ActiveOf(KeyOf[r.cand])
  IN
  /\ At(h, "lookup")
  /\ \/ /\ active = {} /\ r.healthy
        /\ Goto(h, [r EXCEPT !.pc = "done"])
     \/ /\ active = {} /\ ~r.healthy
        /\ Goto(h, [r EXCEPT !.pc = "create", !.row = Created(r.cand),
                             !.type = "created"])
     \/ \E a \in active :
          Goto(h, [r EXCEPT !.pc = "save", !.id = a,
                            !.row = IF r.healthy THEN Resolved(alerts[a], r.cand)
                                                 ELSE Updated(alerts[a], r.cand),
                            !.type = IF r.healthy THEN "resolved" ELSE "updated"])
  /\ UNCHANGED <<unhealthy, recorded, alerts, events>>

\* The id is fresh; alerts_one_active_key_idx refuses a second active alert.
CreateAlert(h) ==
  \E a \in AlertIds :
    /\ At(h, "create")
    /\ alerts[a] = NoAlert
    /\ OneActiveKey(a, reqs[h].row)
    /\ alerts' = [alerts EXCEPT ![a] = reqs[h].row]
    /\ Goto(h, [reqs[h] EXCEPT !.pc = "event", !.id = a])
    /\ UNCHANGED <<unhealthy, recorded, events>>

\* Mutant: the table has no partial unique index.
SaveAlertUnchecked(h) ==
  /\ At(h, "save")
  /\ alerts' = [alerts EXCEPT ![reqs[h].id] = reqs[h].row]
  /\ Goto(h, [reqs[h] EXCEPT !.pc = "event"])
  /\ UNCHANGED <<unhealthy, recorded, events>>

\* The whole row is written, whatever the table holds by now.
SaveAlert(h) ==
  /\ At(h, "save")
  /\ OneActiveKey(reqs[h].id, reqs[h].row)
  /\ alerts' = [alerts EXCEPT ![reqs[h].id] = reqs[h].row]
  /\ Goto(h, [reqs[h] EXCEPT !.pc = "event"])
  /\ UNCHANGED <<unhealthy, recorded, events>>

RecordAlertEvent(h) ==
  /\ At(h, "event")
  /\ events' = events \union
       {[alert |-> reqs[h].id, cand |-> c, type |-> reqs[h].type] :
          c \in {reqs[h].cand} \ {None}}
  /\ Goto(h, [reqs[h] EXCEPT !.pc = "done"])
  /\ UNCHANGED <<unhealthy, recorded, alerts>>

-------------------------------------------------------------------------------
(***************************************************************************)
(* What users do.                                                          *)
(***************************************************************************)
\* A user's request loads the alert and goes on to save its changed copy.
loadAlert(h, a, row) ==
  /\ alerts[a] # NoAlert
  /\ Begin(h, [Idle EXCEPT !.pc = "save", !.id = a, !.row = row])
  /\ UNCHANGED <<unhealthy, recorded, alerts, events>>

\* Mutant: an acknowledgement opens the alert again.
AcknowledgeReopens(h, a) ==
  loadAlert(h, a, [alerts[a] EXCEPT !.status = "active"])

\* Every alert can be acknowledged, a resolved one too.
AcknowledgeAlert(h, a) ==
  loadAlert(h, a, [alerts[a] EXCEPT !.marked = TRUE])

\* The same for a snooze that ends in the future; any other is refused.
SnoozeAlert(h, a) ==
  loadAlert(h, a, [alerts[a] EXCEPT !.marked = TRUE])

\* An alert that is resolved already is returned as it is.
ResolveAlert(h, a) ==
  /\ alerts[a].status # "resolved"
  /\ loadAlert(h, a, Resolved(alerts[a], None))

-------------------------------------------------------------------------------
\* The request has answered; or one of its calls failed, the row it was to
\* write was refused, the caller went away or the process ended.
Return(h) ==
  /\ ~At(h, "idle")
  /\ Goto(h, Idle)
  /\ UNCHANGED <<unhealthy, recorded, alerts, events>>

\* The state the verifier looks at changes.
Change(k) ==
  /\ unhealthy' = IF k \in unhealthy THEN unhealthy \ {k} ELSE unhealthy \union {k}
  /\ UNCHANGED <<recorded, alerts, events, reqs, solo>>

Init ==
  /\ unhealthy \in SUBSET Keys
  /\ recorded = {}
  /\ alerts = [a \in AlertIds |-> NoAlert]
  /\ events = {}
  /\ reqs = [h \in Handlers |-> Idle]
  /\ solo = None

IntakeCandidate(h) ==
  \/ \E c \in Candidates : TryRecordCandidate(h, c)
  \/ VerifyCandidate(h)
  \/ GetActiveAlertByKey(h)
  \/ CreateAlert(h)

UserAction(h) ==
  \E a \in AlertIds : AcknowledgeAlert(h, a) \/ SnoozeAlert(h, a) \/ ResolveAlert(h, a)

Next ==
  \/ \E h \in Handlers : \/ IntakeCandidate(h)
                         \/ UserAction(h)
                         \/ SaveAlert(h)
                         \/ RecordAlertEvent(h)
                         \/ Return(h)
  \/ \E k \in Keys : Change(k)

Spec == Init /\ [][Next]_vars

-------------------------------------------------------------------------------
(***************************************************************************)
(* Properties.                                                             *)
(***************************************************************************)

\* The tables and the requests hold values of their types; a request that has
\* looked its alert up names one.
TypeOK ==
  /\ unhealthy \subseteq Keys
  /\ recorded \subseteq Candidates
  /\ alerts \in [AlertIds -> Rows]
  /\ events \subseteq Events
  /\ reqs \in [Handlers -> Requests]
  /\ \A h \in Handlers : reqs[h].pc \in {"save", "event"} => reqs[h].id \in AlertIds
  /\ solo \in Handlers \union {None}

\* "Disconnected candidate creates one active alert": a key never has two,
\* although the check for one and the insert are two calls and stale rows are
\* saved.
OneActivePerKey ==
  \A a, b \in AlertIds :
    alerts[a].status = "active" /\ alerts[b].status = "active"
      /\ alerts[a].key = alerts[b].key => a = b

Raised(k) == {c \in recorded : KeyOf[c] = k}

\* "Duplicate candidate idempotency": however often candidates are delivered and
\* wherever their intake fails, an alert counts no more occurrences than there
\* were candidates of its key, and the first and last it names are among them.
OccurrencesAreDistinct ==
  \A a \in AlertIds : alerts[a].status # "none" =>
    /\ alerts[a].count <= Cardinality(Raised(alerts[a].key))
    /\ {alerts[a].first, alerts[a].last} \subseteq Raised(alerts[a].key)

\* A candidate has at most one outcome, on one alert of its key.
OneOutcomePerCandidate ==
  \A e \in events :
    /\ alerts[e.alert].key = KeyOf[e.cand]
    /\ \A f \in events : f.cand = e.cand => f = e

\* "Recovery resolves alert": an intake that had no request beside it leaves its
\* key with an active alert if the state was verified bad and with none if it
\* was verified good, whatever earlier requests raced or left half done.
IntakeDecides ==
  \A h \in Handlers : (At(h, "done") /\ solo = h /\ reqs[h].cand # None) =>
    (ActiveOf(KeyOf[reqs[h].cand]) = {}) = reqs[h].healthy

\* What users and recoveries did to an alert is undone only by a request that
\* raced another: alone, no request opens a resolved alert again or drops its
\* acknowledgement or snooze.
UndoneOnlyByRace ==
  [][solo # None => \A a \in AlertIds :
       /\ alerts[a].status = "resolved" => alerts'[a].status = "resolved"
       /\ alerts[a].marked => alerts'[a].marked]_vars

-------------------------------------------------------------------------------
(***************************************************************************)
(* The inductive invariant.                                                *)
(***************************************************************************)

\* The candidates whose intake has not looked its alert up.
Pending == {reqs[h].cand : h \in {g \in Handlers : reqs[g].pc \in {"verify", "lookup"}}}

\* The candidates of a key that an alert may have counted.
Counted(k) == Raised(k) \ Pending

\* A row that names candidates of its key, and no more than there were.
RowIsBacked(row) ==
  /\ row.key \in Keys
  /\ {row.first, row.last} \subseteq Raised(row.key)
  /\ row.count <= Cardinality(Counted(row.key))

\* Every stored alert is one.
AlertsInv ==
  \A a \in AlertIds :
    \/ alerts[a] = NoAlert
    \/ alerts[a].status \in {"active", "resolved"} /\ RowIsBacked(alerts[a])

\* What a request in flight carries: a candidate on record that no other
\* request has and no event names yet, and a row for an alert of its key.
RequestInv(h) ==
  LET r == reqs[h] IN
  /\ r.pc = "idle" => r.cand = None
  /\ r.pc \in {"verify", "lookup", "create"} => r.cand # None
  /\ r.cand # None =>
       /\ r.cand \in recorded
       /\ \A g \in Others(h) : reqs[g].cand # r.cand
       /\ r.pc # "done" => \A e \in events : e.cand # r.cand
  /\ r.pc \in {"create", "save"} =>
       /\ r.row.status \in {"active", "resolved"}
       /\ RowIsBacked(r.row)
       /\ r.cand # None => r.row.key = KeyOf[r.cand]
  /\ r.pc = "save" => alerts[r.id].key = r.row.key
  /\ r.pc = "event" /\ r.cand # None => alerts[r.id].key = KeyOf[r.cand]

\* What a request knows that has had no other beside it.
SoloInv(h) ==
  LET r == reqs[h]
      active == ActiveOf(KeyOf[r.cand])
  IN
  /\ \A g \in Others(h) : reqs[g].pc = "idle"
  /\ r.pc = "save" =>
       /\ alerts[r.id].status = "resolved" => r.row.status = "resolved"
       /\ alerts[r.id].marked => r.row.marked
  /\ r.pc = "create" => ~r.healthy /\ r.row.status = "active"
  /\ r.pc = "save" /\ r.cand # None =>
       /\ active = {r.id}
       /\ (r.row.status = "resolved") = r.healthy
  /\ r.pc \in {"event", "done"} /\ r.cand # None => (active = {}) = r.healthy

\* The inductive invariant of the alert service.
AlertingInv ==
  /\ TypeOK
  /\ OneActivePerKey
  /\ OneOutcomePerCandidate
  /\ \A e \in events : e.cand \in recorded
  /\ AlertsInv
  /\ \A h \in Handlers : RequestInv(h)
  /\ solo # None => SoloInv(solo)
===============================================================================
