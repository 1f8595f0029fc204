--------------------------- MODULE TelemetryIngest ---------------------------
(***************************************************************************)
(* The telemetry ingest service: telemetry-ingest/internal/pipeline        *)
(* (Ingest, MemoryDedupeStore) and internal/storage/postgres (WriteLatest, *)
(* WriteLifecycle, ResolveDevice).                                         *)
(*                                                                         *)
(* Every HTTP request is a goroutine of its own.  The dedupe store is one  *)
(* map under a mutex in the process and is lost when it restarts; the      *)
(* tables are in Postgres.  A request takes one step per access to either, *)
(* and requests interleave between their steps.  Devices and AWS IoT       *)
(* deliver late, out of order and more than once.                          *)
(*                                                                         *)
(* telemetry_ingest_failures, to which errors are reported as far as       *)
(* possible and which nobody reads, is left out.                           *)
(***************************************************************************)
EXTENDS Integers

CONSTANTS
  Devices,
  Messages,         \* what devices post
  LifecycleEvents,  \* what AWS IoT posts
  Handlers,         \* requests that can be in flight at the same time
  MaxClock,         \* bound on the clock
  MaxRestarts,      \* bound: restarts of the process
  MaxUnknown        \* bound: commits that happen but are reported as failed

Kinds == {"telemetry", "event"}

\* A message: its id, the device of its certificate, the material its schema
\* handler projects, and the outcome of the checks that look at the message
\* alone.  A device uses an id for one message only.
MessageAssumption ==
  /\ \A m \in Messages :
       /\ m.device \in Devices
       /\ m.kind \in Kinds
       /\ m.material \in Nat \ {0}
       /\ m.verdict \in {"ok", "invalid", "drift"}
  /\ \A m, n \in Messages : (m.device = n.device /\ m.id = n.id) => m = n

\* A lifecycle event: the connection state its type stands for, its session and
\* the time AWS IoT observed it.
LifecycleAssumption ==
  \A e \in LifecycleEvents :
    /\ e.device \in Devices
    /\ e.state \in {"online", "disconnected", "unknown"}
    /\ e.session \in Nat \ {0}
    /\ e.at \in Nat \ {0}

ASSUME IngestAssumption ==
  /\ MessageAssumption
  /\ LifecycleAssumption
  /\ {MaxClock, MaxRestarts, MaxUnknown} \subseteq Nat
  /\ MaxClock > 0

VARIABLES
  clock,     \* the service's clock
  claimed,   \* devices table: claimed and not revoked
  seenAt,    \* devices.last_seen_at, 0 if NULL
  latest,    \* device_latest_state: the message each row was written from
  stored,    \* device_telemetry_events: the messages with a row
  presence,  \* device_presence
  applied,   \* device_lifecycle_events: the events with a row
  messages,  \* MemoryDedupeStore.messages
  hashes,    \* MemoryDedupeStore.materialHashes, 0 if absent
  crossed,   \* history: devices whose latest telemetry was committed between
             \* another request's commit and the recording of its material, or by
             \* a commit that was reported as failed
  acked,     \* history: messages answered with 202 Accepted
  reqs,      \* requests in flight
  budget     \* [restarts, unknown] used so far

tables == <<claimed, seenAt, latest, stored, presence, applied>>
dedupe == <<messages, hashes, crossed>>
vars == <<clock, tables, dedupe, acked, reqs, budget>>

None == [none |-> TRUE]

NoPresence == [state |-> "none", session |-> 0, seen |-> 0]

Idle == [pc |-> "idle", item |-> None, received |-> 0]

GREATEST(a, b) == IF a > b THEN a ELSE b

-------------------------------------------------------------------------------
(***************************************************************************)
(* Ingest.                                                                 *)
(***************************************************************************)
Goto(h, pc) == reqs' = [reqs EXCEPT ![h] = [@ EXCEPT !.pc = pc]]

Answer(h) == reqs' = [reqs EXCEPT ![h] = Idle]

At(h, pc) == reqs[h].pc = pc

\* Parse and Catalog.Validate: a message they refuse goes no further.
Receive(h, m) ==
  /\ At(h, "idle")
  /\ m.verdict # "invalid"
  /\ reqs' = [reqs EXCEPT ![h] = [pc |-> "resolve", item |-> m, received |-> clock]]
  /\ UNCHANGED <<clock, tables, dedupe, acked, budget>>

\* Mutant: any certificate on record will do.
ResolveAnyDevice(h) ==
  /\ At(h, "resolve")
  /\ reqs[h].item.verdict # "drift"
  /\ Goto(h, "seen")
  /\ UNCHANGED <<clock, tables, dedupe, acked, budget>>

\* resolveAuthority and ensurePayloadIdentityMatches.
ResolveDevice(h) ==
  /\ At(h, "resolve")
  /\ reqs[h].item.device \in claimed
  /\ reqs[h].item.verdict # "drift"
  /\ Goto(h, "seen")
  /\ UNCHANGED <<clock, tables, dedupe, acked, budget>>

\* Mutant: the message is marked when it is looked up.
SeenMessageMarks(h) ==
  LET m == reqs[h].item IN
  /\ At(h, "seen")
  /\ \/ /\ m \in messages
        /\ Answer(h)
        /\ acked' = acked \union {m}
     \/ /\ m \notin messages
        /\ Goto(h, IF m.kind = "telemetry" THEN "compare" ELSE "write")
        /\ UNCHANGED acked
  /\ messages' = messages \union {m}
  /\ UNCHANGED <<clock, tables, hashes, crossed, budget>>

\* A duplicate is accepted without any effect; only telemetry is compared with
\* the last material.
SeenMessage(h) ==
  LET m == reqs[h].item IN
  /\ At(h, "seen")
  /\ \/ /\ m \in messages
        /\ Answer(h)
        /\ acked' = acked \union {m}
     \/ /\ m \notin messages
        /\ Goto(h, IF m.kind = "telemetry" THEN "compare" ELSE "write")
        /\ UNCHANGED acked
  /\ UNCHANGED <<clock, tables, dedupe, budget>>

shouldSuppressUnchangedTelemetry(h) ==
  LET m == reqs[h].item IN
  /\ At(h, "compare")
  /\ Goto(h, IF hashes[m.device] = m.material THEN "record" ELSE "write")
  /\ UNCHANGED <<clock, tables, dedupe, acked, budget>>

\* The presence row after telemetry received at a time; it is made if missing.
PresenceSeen(row, receivedAt) ==
  [state |-> IF row.state = "none" THEN "unknown" ELSE row.state,
   session |-> row.session,
   seen |-> GREATEST(row.seen, receivedAt)]

\* The last part of the WriteLatest transaction.
recordTelemetrySeen(d, receivedAt) ==
  /\ seenAt' = [seenAt EXCEPT ![d] = GREATEST(@, receivedAt)]
  /\ presence' = [presence EXCEPT ![d] = PresenceSeen(@, receivedAt)]

\* The requests of the device that have committed telemetry and not yet recorded
\* its material.
AtHash(d) == {g \in Handlers : reqs[g].pc = "hash" /\ reqs[g].item.device = d}

\* History: a request has committed m, and the answer came or did not.
NoteCommit(m, answered) ==
  crossed' = IF m.kind # "telemetry" THEN crossed
             ELSE IF answered /\ AtHash(m.device) = {} THEN crossed \ {m.device}
             ELSE crossed \union {m.device}

\* The transaction: the latest state is replaced whatever it holds, a second
\* event row for the message is not inserted.
WriteLatest(h) ==
  LET m == reqs[h].item IN
  /\ At(h, "write")
  /\ latest' = [latest EXCEPT ![m.device] = [@ EXCEPT ![m.kind] = m]]
  /\ stored' = stored \union {m}
  /\ \/ m.kind = "telemetry" /\ recordTelemetrySeen(m.device, reqs[h].received)
     \/ m.kind = "event" /\ UNCHANGED <<seenAt, presence>>
  /\ \/ /\ Goto(h, IF m.kind = "telemetry" THEN "hash" ELSE "record")
        /\ NoteCommit(m, TRUE)
        /\ UNCHANGED budget
     \/ /\ budget.unknown < MaxUnknown
        /\ budget' = [budget EXCEPT !.unknown = @ + 1]
        /\ NoteCommit(m, FALSE)
        /\ Answer(h)
  /\ UNCHANGED <<clock, claimed, applied, messages, hashes, acked>>

\* Mutant: a material on record is not replaced.
RecordFirstMaterialHash(h) ==
  LET m == reqs[h].item IN
  /\ At(h, "hash")
  /\ hashes' = [hashes EXCEPT ![m.device] = IF @ = 0 THEN m.material ELSE @]
  /\ Goto(h, "record")
  /\ UNCHANGED <<clock, tables, messages, crossed, acked, budget>>

RecordMaterialHash(h) ==
  LET m == reqs[h].item IN
  /\ At(h, "hash")
  /\ hashes' = [hashes EXCEPT ![m.device] = m.material]
  /\ Goto(h, "record")
  /\ UNCHANGED <<clock, tables, messages, crossed, acked, budget>>

RecordMessage(h) ==
  LET m == reqs[h].item IN
  /\ At(h, "record")
  /\ messages' = messages \union {m}
  /\ acked' = acked \union {m}
  /\ Answer(h)
  /\ UNCHANGED <<clock, tables, hashes, crossed, budget>>

-------------------------------------------------------------------------------
(***************************************************************************)
(* WriteLifecycle.                                                         *)
(***************************************************************************)
ReceiveLifecycle(h, e) ==
  /\ At(h, "idle")
  /\ e.at <= clock
  /\ reqs' = [reqs EXCEPT ![h] = [pc |-> "lookup", item |-> e, received |-> clock]]
  /\ UNCHANGED <<clock, tables, dedupe, acked, budget>>

LookupDevice(h) ==
  /\ At(h, "lookup")
  /\ reqs[h].item.device \in claimed
  /\ Goto(h, "apply")
  /\ UNCHANGED <<clock, tables, dedupe, acked, budget>>

\* Mutant: the connection state follows every event.
PresenceAfterAny(row, e) ==
  [state |-> e.state, session |-> e.session, seen |-> GREATEST(row.seen, e.at)]

\* Mutant: an event of the second the device was last seen in is stale.
PresenceAfterLater(row, e) ==
  [state |-> IF row.seen < e.at THEN e.state ELSE row.state,
   session |-> e.session,
   seen |-> GREATEST(row.seen, e.at)]

\* The connection state follows an event only if nothing later was seen of the
\* device; the session follows every event.
PresenceAfter(row, e) ==
  [state |-> IF row.seen <= e.at THEN e.state ELSE row.state,
   session |-> e.session,
   seen |-> GREATEST(row.seen, e.at)]

\* The transaction; an event type that is not supported rolls it back.
WriteLifecycle(h) ==
  LET e == reqs[h].item IN
  /\ At(h, "apply")
  /\ e.state # "unknown"
  /\ applied' = applied \union {e}
  /\ presence' = [presence EXCEPT ![e.device] = PresenceAfter(@, e)]
  /\ Answer(h)
  /\ UNCHANGED <<clock, claimed, seenAt, latest, stored, dedupe, acked, budget>>

-------------------------------------------------------------------------------
(***************************************************************************)
(* Errors and the surroundings.                                            *)
(***************************************************************************)

\* The request ends with an error: the device is not claimed, the payload names
\* another device, the event type is not supported, or a database call failed.
Refuse(h) ==
  /\ reqs[h].pc \in {"resolve", "write", "lookup", "apply"}
  /\ Answer(h)
  /\ UNCHANGED <<clock, tables, dedupe, acked, budget>>

\* The process ends: its requests and its dedupe store are gone.
Restart ==
  /\ budget.restarts < MaxRestarts
  /\ budget' = [budget EXCEPT !.restarts = @ + 1]
  /\ reqs' = [h \in Handlers |-> Idle]
  /\ messages' = {}
  /\ hashes' = [d \in Devices |-> 0]
  /\ crossed' = {}
  /\ UNCHANGED <<clock, tables, acked>>

\* External: the control plane revokes a device.
Revoke(d) ==
  /\ d \in claimed
  /\ claimed' = claimed \ {d}
  /\ UNCHANGED <<clock, seenAt, latest, stored, presence, applied, dedupe, acked,
                 reqs, budget>>

Tick ==
  /\ clock < MaxClock
  /\ clock' = clock + 1
  /\ UNCHANGED <<tables, dedupe, acked, reqs, budget>>

-------------------------------------------------------------------------------
Init ==
  /\ clock = 1
  /\ claimed = Devices
  /\ seenAt = [d \in Devices |-> 0]
  /\ latest = [d \in Devices |-> [k \in Kinds |-> None]]
  /\ stored = {}
  /\ presence = [d \in Devices |-> NoPresence]
  /\ applied = {}
  /\ messages = {}
  /\ hashes = [d \in Devices |-> 0]
  /\ crossed = {}
  /\ acked = {}
  /\ reqs = [h \in Handlers |-> Idle]
  /\ budget = [restarts |-> 0, unknown |-> 0]

Ingest(h) ==
  \/ \E m \in Messages : Receive(h, m)
  \/ ResolveDevice(h)
  \/ SeenMessage(h)
  \/ shouldSuppressUnchangedTelemetry(h)
  \/ WriteLatest(h)
  \/ RecordMaterialHash(h)
  \/ RecordMessage(h)

Lifecycle(h) ==
  \/ \E e \in LifecycleEvents : ReceiveLifecycle(h, e)
  \/ LookupDevice(h)
  \/ WriteLifecycle(h)

Next ==
  \/ \E h \in Handlers : Ingest(h) \/ Lifecycle(h) \/ Refuse(h)
  \/ Restart
  \/ \E d \in Devices : Revoke(d)
  \/ Tick

Spec == Init /\ [][Next]_vars

-------------------------------------------------------------------------------
(***************************************************************************)
(* Properties.                                                             *)
(***************************************************************************)
MessagePCs == {"resolve", "seen", "compare", "write", "hash", "record"}

LifecyclePCs == {"lookup", "apply"}

Requests ==
  [pc : {"idle"} \union MessagePCs \union LifecyclePCs,
   item : {None} \union Messages \union LifecycleEvents,
   received : 0..MaxClock]

RequestOK(r) ==
  /\ r.pc \in MessagePCs => r.item \in Messages
  /\ r.pc \in LifecyclePCs => r.item \in LifecycleEvents

\* The tables, the dedupe store and the requests in flight hold values of their
\* types, and a request carries a message or an event, as its place demands.
TypeOK ==
  /\ clock \in 1..MaxClock
  /\ claimed \subseteq Devices
  /\ seenAt \in [Devices -> Nat]
  /\ latest \in [Devices -> [Kinds -> Messages \union {None}]]
  /\ stored \subseteq Messages
  /\ presence \in [Devices -> [state : {"none", "unknown", "online", "disconnected"},
                               session : Nat, seen : Nat]]
  /\ applied \subseteq LifecycleEvents
  /\ messages \subseteq Messages
  /\ hashes \in [Devices -> Nat]
  /\ crossed \subseteq Devices
  /\ acked \subseteq Messages
  /\ reqs \in [Handlers -> Requests]
  /\ \A h \in Handlers : RequestOK(reqs[h])
  /\ budget \in [restarts : 0..MaxRestarts, unknown : 0..MaxUnknown]

\* The message is in the tables, or it was suppressed because telemetry of the
\* same device with the same material is.
Persisted(m) ==
  \/ m \in stored
  \/ /\ m.kind = "telemetry"
     /\ \E n \in stored :
          n.device = m.device /\ n.kind = "telemetry" /\ n.material = m.material

\* "Do not ack input before required DB writes commit": a message answered with
\* 202 is persisted, whatever other requests, restarts and lost answers do.
AckedIsPersisted == \A m \in acked : Persisted(m)

\* "Never let cache state claim persistence before the DB commit succeeds": what
\* the dedupe store holds, messages and material, has been committed.
CacheFollowsCommit ==
  /\ \A m \in messages : Persisted(m)
  /\ \A d \in Devices : hashes[d] # 0 =>
       \E n \in stored : n.device = d /\ n.kind = "telemetry" /\ n.material = hashes[d]

\* A latest-state row shows a message of its own device and kind whose event
\* row is stored too: the two tables are written together.
LatestIsStored ==
  \A d \in Devices, k \in Kinds :
    LET m == latest[d][k] IN
    m # None => m \in stored /\ m.device = d /\ m.kind = k

\* A revoked device whose requests in flight have all ended.
Quiet(d) ==
  /\ d \notin claimed
  /\ \A h \in Handlers :
       reqs[h].pc \in {"idle", "resolve", "lookup"} \/ reqs[h].item.device # d

\* Once a device is revoked and the requests that had passed the authority check
\* before are over, nothing changes its rows any more, whatever is delivered.
RevokedIsSilent ==
  [][\A d \in Devices : Quiet(d) =>
       /\ Quiet(d)'
       /\ presence'[d] = presence[d]
       /\ \A k \in Kinds : latest'[d][k] = latest[d][k]
       /\ \A m \in stored' \ stored : m.device # d]_vars

\* What a request in flight knows: it is past the comparison only with
\* telemetry, and it records only what is persisted.
RequestKnows(r) ==
  /\ r.pc = "compare" => r.item.kind = "telemetry"
  /\ r.pc = "hash" => r.item \in stored /\ r.item.kind = "telemetry"
  /\ r.pc = "record" => Persisted(r.item)

\* The inductive invariant of the pipeline.
IngestInv ==
  /\ TypeOK
  /\ AckedIsPersisted
  /\ CacheFollowsCommit
  /\ LatestIsStored
  /\ \A h \in Handlers : RequestKnows(reqs[h])

\* Unchanged telemetry is suppressed only when the latest state shows its
\* material: the material the store knows is that of the table, except while a
\* request is about to record its own, and except for a device whose last commit
\* crossed another one or was reported as failed.  The next commit that is
\* answered, with no other on its way, mends it.
CacheMatchesLatest ==
  \A d \in Devices :
    \/ hashes[d] = 0
    \/ AtHash(d) # {}
    \/ d \in crossed
    \/ hashes[d] = latest[d]["telemetry"].material

\* The inductive form of CacheMatchesLatest: of a device that is not in crossed,
\* one request at most is about to record its material, and it wrote the latest
\* state.
CacheOf(d) ==
  \/ d \in crossed
  \/ \E h \in Handlers : AtHash(d) = {h} /\ latest[d]["telemetry"] = reqs[h].item
  \/ /\ AtHash(d) = {}
     /\ hashes[d] = 0 \/ hashes[d] = latest[d]["telemetry"].material

CacheInv == \A d \in Devices : CacheOf(d)

Newest(d) ==
  {e \in applied : e.device = d /\ \A f \in applied : f.device = d => f.at <= e.at}

\* "Stale disconnects cannot overwrite newer connected events": the connection
\* state of a device changes to that of an event than which neither an event nor
\* telemetry on record is newer, however they are delayed, reordered or repeated.
StaleEventsIgnored ==
  [][\A d \in Devices :
       presence'[d].state \notin {presence[d].state, "unknown"} =>
         \E e \in applied' :
           /\ e.device = d /\ e.state = presence'[d].state
           /\ seenAt[d] <= e.at
           /\ \A f \in applied : f.device = d => f.at <= e.at]_vars

\* "Apply connected quickly when newer than stored presence": a device whose
\* newest events are connects, none older than its last telemetry, is online.
ConnectedIsApplied ==
  \A d \in Devices :
    Newest(d) # {} /\ (\A e \in Newest(d) : e.state = "online" /\ seenAt[d] <= e.at)
      => presence[d].state = "online"

\* The inductive form: device_presence.last_seen_at is the time of the newest
\* event or of the last telemetry, whichever is later, and the connection state is
\* that of a newest event unless telemetry came after it.
PresenceInv ==
  \A d \in Devices :
    /\ seenAt[d] <= presence[d].seen
    /\ \A e \in applied : e.device = d => e.at <= presence[d].seen
    /\ \/ presence[d].seen \in {0, seenAt[d]}
       \/ \E e \in applied : e.device = d /\ e.at = presence[d].seen
    /\ Newest(d) # {} =>
         \E e \in Newest(d) : presence[d].state = e.state \/ e.at < seenAt[d]
===============================================================================
