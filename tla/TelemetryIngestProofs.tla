------------------------ MODULE TelemetryIngestProofs ------------------------
(***************************************************************************)
(* Proofs about TelemetryIngest, for any devices, messages, lifecycle      *)
(* events and number of concurrent requests.                               *)
(***************************************************************************)
EXTENDS TelemetryIngest, TLAPS

\* Rows are only added to device_telemetry_events, so what is persisted stays.
LEMMA PersistedStays ==
  ASSUME stored \subseteq stored', NEW m, Persisted(m)
  PROVE  Persisted(m)'
BY DEF Persisted

\* A step that changes one request leaves every other request as it was.
LEMMA RequestsStep ==
  ASSUME IngestInv, NEW h \in Handlers, NEW r \in Requests,
         reqs' = [reqs EXCEPT ![h] = r], stored \subseteq stored',
         RequestOK(r), RequestKnows(r)'
  PROVE  /\ reqs' \in [Handlers -> Requests]
         /\ \A g \in Handlers : RequestOK(reqs'[g]) /\ RequestKnows(reqs[g])'
<1>1. reqs \in [Handlers -> Requests]
  BY DEF IngestInv, TypeOK
<1>2. reqs' \in [Handlers -> Requests]
  BY <1>1
<1>3. ASSUME NEW g \in Handlers PROVE RequestOK(reqs'[g]) /\ RequestKnows(reqs[g])'
  <2>1. CASE g = h
    BY <1>1, <2>1 DEF RequestKnows, RequestOK, Persisted
  <2>2. CASE g # h
    <3>1. reqs'[g] = reqs[g]
      BY <1>1, <2>2
    <3>2. RequestOK(reqs[g]) /\ RequestKnows(reqs[g])
      BY DEF IngestInv, TypeOK
    <3> QED BY <3>1, <3>2 DEF RequestKnows, Persisted, RequestOK
  <2> QED BY <2>1, <2>2
<1> QED BY <1>2, <1>3

\* A step that changes no table and no dedupe entry keeps the invariant if the
\* request it moves knows what it must.
LEMMA QuietStep ==
  ASSUME IngestInv, NEW h \in Handlers, NEW r \in Requests,
         reqs' = [reqs EXCEPT ![h] = r], RequestOK(r), RequestKnows(r)',
         acked' \subseteq Messages, \A m \in acked' : Persisted(m),
         UNCHANGED <<clock, tables, dedupe, budget>>
  PROVE  IngestInv'
<1>1. /\ reqs' \in [Handlers -> Requests]
      /\ \A g \in Handlers : RequestOK(reqs'[g]) /\ RequestKnows(reqs[g])'
  BY RequestsStep DEF tables
<1> QED BY <1>1 DEF IngestInv, TypeOK, AckedIsPersisted, CacheFollowsCommit,
             LatestIsStored, Persisted, tables, dedupe

\* With empty tables, an empty dedupe store and no request the invariant
\* holds.
LEMMA InvInit == Init => IngestInv
<1> SUFFICES ASSUME Init PROVE IngestInv
  OBVIOUS
<1>1. Idle \in Requests /\ RequestOK(Idle) /\ RequestKnows(Idle)
  BY IngestAssumption DEF Idle, Requests, RequestOK, RequestKnows, MessagePCs,
       LifecyclePCs
<1>2. TypeOK
  BY <1>1, IngestAssumption DEF Init, TypeOK, NoPresence
<1> QED BY <1>1, <1>2 DEF Init, IngestInv, AckedIsPersisted, CacheFollowsCommit,
             LatestIsStored

\* The steps of a request before and between its writes.
LEMMA GotoStep ==
  ASSUME IngestInv, NEW h \in Handlers, NEW pc \in MessagePCs \union LifecyclePCs,
         Goto(h, pc), reqs[h].pc # "idle",
         pc \in MessagePCs <=> reqs[h].pc \in MessagePCs,
         RequestKnows([reqs[h] EXCEPT !.pc = pc]),
         UNCHANGED <<clock, tables, dedupe, acked, budget>>
  PROVE  IngestInv'
<1> DEFINE r == [reqs[h] EXCEPT !.pc = pc]
<1>1. reqs[h] \in Requests /\ RequestOK(reqs[h])
  BY DEF IngestInv, TypeOK
<1>2. r \in Requests /\ RequestOK(r)
  BY <1>1 DEF Requests, RequestOK, MessagePCs, LifecyclePCs
<1>3. reqs' = [reqs EXCEPT ![h] = r] /\ RequestKnows(r)
  BY DEF Goto
<1>4. PICK s \in Requests : s = r
  BY <1>2
<1>5. RequestKnows(s)'
  BY <1>3, <1>4 DEF RequestKnows, Persisted, tables
<1>6. /\ acked' \subseteq Messages
      /\ \A m \in acked' : Persisted(m)
  BY DEF IngestInv, TypeOK, AckedIsPersisted
<1> QED BY <1>2, <1>3, <1>4, <1>5, <1>6, QuietStep

\* A request that is answered without a write leaves the rest as it was.
LEMMA AnswerStep ==
  ASSUME IngestInv, NEW h \in Handlers, Answer(h),
         acked' \subseteq Messages, \A m \in acked' : Persisted(m),
         UNCHANGED <<clock, tables, dedupe, budget>>
  PROVE  IngestInv'
<1>1. Idle \in Requests /\ RequestOK(Idle) /\ RequestKnows(Idle)'
  BY IngestAssumption DEF Idle, Requests, RequestOK, RequestKnows, MessagePCs,
       LifecyclePCs
<1> QED BY <1>1, QuietStep DEF Answer

\* A new request knows nothing yet.
LEMMA ReceiveStep ==
  ASSUME IngestInv, NEW h \in Handlers,
         \/ \E m \in Messages : Receive(h, m)
         \/ \E e \in LifecycleEvents : ReceiveLifecycle(h, e)
  PROVE  IngestInv'
<1>0. clock \in 0..MaxClock
  BY IngestAssumption DEF IngestInv, TypeOK
<1>1. \E r \in Requests :
        reqs' = [reqs EXCEPT ![h] = r] /\ RequestOK(r) /\ r.pc \in {"resolve", "lookup"}
  <2>1. CASE \E m \in Messages : Receive(h, m)
    <3>1. PICK m \in Messages : Receive(h, m)
      BY <2>1
    <3> DEFINE r == [pc |-> "resolve", item |-> m, received |-> clock]
    <3>2. r \in Requests /\ RequestOK(r)
      BY <1>0 DEF Requests, RequestOK, MessagePCs, LifecyclePCs
    <3> QED BY <3>1, <3>2 DEF Receive
  <2>2. CASE \E e \in LifecycleEvents : ReceiveLifecycle(h, e)
    <3>1. PICK e \in LifecycleEvents : ReceiveLifecycle(h, e)
      BY <2>2
    <3> DEFINE r == [pc |-> "lookup", item |-> e, received |-> clock]
    <3>2. r \in Requests /\ RequestOK(r)
      BY <1>0 DEF Requests, RequestOK, MessagePCs, LifecyclePCs
    <3> QED BY <3>1, <3>2 DEF ReceiveLifecycle
  <2> QED BY <2>1, <2>2
<1>2. PICK r \in Requests :
        reqs' = [reqs EXCEPT ![h] = r] /\ RequestOK(r) /\ r.pc \in {"resolve", "lookup"}
  BY <1>1
<1>3. RequestKnows(r)'
  BY <1>2 DEF RequestKnows
<1>4. UNCHANGED <<clock, tables, dedupe, acked, budget>>
  BY DEF Receive, ReceiveLifecycle
<1>5. acked' \subseteq Messages /\ \A m \in acked' : Persisted(m)
  BY <1>4 DEF IngestInv, TypeOK, AckedIsPersisted
<1> QED BY <1>2, <1>3, <1>4, <1>5, QuietStep

\* The authority checks of messages and lifecycle events move one request.
LEMMA ResolveStep ==
  ASSUME IngestInv, NEW h \in Handlers, ResolveDevice(h) \/ LookupDevice(h)
  PROVE  IngestInv'
<1>1. reqs[h] \in Requests
  BY DEF IngestInv, TypeOK
<1>2. CASE ResolveDevice(h)
  BY <1>1, <1>2, GotoStep DEF ResolveDevice, At, MessagePCs, LifecyclePCs,
       RequestKnows, Requests
<1>3. CASE LookupDevice(h)
  BY <1>1, <1>3, GotoStep DEF LookupDevice, At, MessagePCs, LifecyclePCs,
       RequestKnows, Requests
<1> QED BY <1>2, <1>3

\* A duplicate is answered only if the store says it is persisted.
LEMMA SeenMessageStep ==
  ASSUME IngestInv, NEW h \in Handlers, SeenMessage(h)
  PROVE  IngestInv'
<1> DEFINE m == reqs[h].item
<1>1. reqs[h] \in Requests /\ m \in Messages /\ reqs[h].pc = "seen"
  BY DEF IngestInv, TypeOK, SeenMessage, At, RequestOK, MessagePCs
<1>2. CASE m \in messages /\ Answer(h) /\ acked' = acked \union {m}
  <2>1. acked' \subseteq Messages /\ \A n \in acked' : Persisted(n)
    BY <1>1, <1>2 DEF IngestInv, TypeOK, AckedIsPersisted, CacheFollowsCommit
  <2> QED BY <1>2, <2>1, AnswerStep DEF SeenMessage
<1>3. CASE /\ Goto(h, IF m.kind = "telemetry" THEN "compare" ELSE "write")
           /\ UNCHANGED acked
  <2>1. CASE m.kind = "telemetry"
    BY <1>1, <1>3, <2>1, GotoStep DEF SeenMessage, MessagePCs, LifecyclePCs,
         RequestKnows, Requests
  <2>2. CASE m.kind # "telemetry"
    BY <1>1, <1>3, <2>2, GotoStep DEF SeenMessage, MessagePCs, LifecyclePCs,
         RequestKnows, Requests
  <2> QED BY <2>1, <2>2
<1> QED BY <1>2, <1>3 DEF SeenMessage

\* Suppressed telemetry has the material of a stored message.
LEMMA CompareStep ==
  ASSUME IngestInv, NEW h \in Handlers, shouldSuppressUnchangedTelemetry(h)
  PROVE  IngestInv'
<1> DEFINE m == reqs[h].item
<1>1. reqs[h] \in Requests /\ m \in Messages /\ reqs[h].pc = "compare"
  BY DEF IngestInv, TypeOK, shouldSuppressUnchangedTelemetry, At, RequestOK, MessagePCs
<1>2. /\ m.kind = "telemetry"
      /\ m.device \in Devices
      /\ m.material # 0
  BY <1>1, IngestAssumption DEF IngestInv, RequestKnows, MessageAssumption
<1>3. CASE hashes[m.device] = m.material
  <2>1. Persisted(m)
    BY <1>2, <1>3 DEF IngestInv, CacheFollowsCommit, Persisted
  <2> QED BY <1>1, <1>3, <2>1, GotoStep DEF shouldSuppressUnchangedTelemetry,
           MessagePCs, LifecyclePCs, RequestKnows, Requests
<1>4. CASE hashes[m.device] # m.material
  BY <1>1, <1>4, GotoStep DEF shouldSuppressUnchangedTelemetry, MessagePCs,
       LifecyclePCs, RequestKnows, Requests
<1> QED BY <1>3, <1>4

\* The transaction adds the message to both tables at once.
LEMMA WriteLatestStep ==
  ASSUME IngestInv, NEW h \in Handlers, WriteLatest(h)
  PROVE  IngestInv'
<1> DEFINE m == reqs[h].item
<1>1. reqs[h] \in Requests /\ m \in Messages /\ reqs[h].pc = "write"
  BY DEF IngestInv, TypeOK, WriteLatest, At, RequestOK, MessagePCs
<1>2. m.device \in Devices /\ m.kind \in Kinds
  BY <1>1, IngestAssumption DEF MessageAssumption
<1>3. /\ stored' = stored \union {m}
      /\ latest' = [latest EXCEPT ![m.device] = [@ EXCEPT ![m.kind] = m]]
      /\ UNCHANGED <<clock, claimed, applied, messages, hashes, acked>>
  BY DEF WriteLatest, dedupe
<1>4. \E r \in Requests :
        reqs' = [reqs EXCEPT ![h] = r] /\ RequestOK(r) /\ RequestKnows(r)'
  <2>1. CASE Answer(h)
    <3>1. Idle \in Requests /\ RequestOK(Idle) /\ RequestKnows(Idle)'
      BY IngestAssumption DEF Idle, Requests, RequestOK, RequestKnows, MessagePCs,
           LifecyclePCs
    <3> QED BY <2>1, <3>1 DEF Answer
  <2>2. CASE Goto(h, IF m.kind = "telemetry" THEN "hash" ELSE "record")
    <3> DEFINE pc == IF m.kind = "telemetry" THEN "hash" ELSE "record"
               r == [pc |-> pc, item |-> m, received |-> reqs[h].received]
    <3>1. r \in Requests /\ RequestOK(r) /\ r = [reqs[h] EXCEPT !.pc = pc]
      BY <1>1 DEF Requests, RequestOK, MessagePCs, LifecyclePCs
    <3>2. PICK q \in Requests : q = r
      BY <3>1
    <3>3. q.pc = pc /\ q.item = m
      BY <3>2
    <3>4. RequestKnows(q)'
      BY <1>2, <1>3, <3>3 DEF RequestKnows, Persisted, Kinds
    <3>5. reqs' = [reqs EXCEPT ![h] = r]
      BY <2>2, <3>1 DEF Goto
    <3> QED BY <3>1, <3>2, <3>4, <3>5
  <2> QED BY <2>1, <2>2 DEF WriteLatest
<1>5. /\ reqs' \in [Handlers -> Requests]
      /\ \A g \in Handlers : RequestOK(reqs'[g]) /\ RequestKnows(reqs[g])'
  BY <1>3, <1>4, RequestsStep
<1>6. TypeOK'
  <2>1. latest' \in [Devices -> [Kinds -> Messages \union {None}]]
    BY <1>1, <1>2, <1>3 DEF IngestInv, TypeOK
  <2>2. /\ seenAt' \in [Devices -> Nat]
        /\ presence' \in [Devices -> [state : {"none", "unknown", "online", "disconnected"},
                                      session : Nat, seen : Nat]]
    <3>1. reqs[h].received \in Nat
      BY <1>1, IngestAssumption DEF Requests
    <3>2. /\ seenAt \in [Devices -> Nat]
          /\ presence \in [Devices -> [state : {"none", "unknown", "online",
                                               "disconnected"},
                                      session : Nat, seen : Nat]]
      BY DEF IngestInv, TypeOK
    <3>3. CASE UNCHANGED <<seenAt, presence>>
      BY <3>2, <3>3
    <3>4. CASE recordTelemetrySeen(m.device, reqs[h].received)
      <4>1. /\ seenAt' = [seenAt EXCEPT ![m.device] =
                            GREATEST(seenAt[m.device], reqs[h].received)]
            /\ presence' = [presence EXCEPT ![m.device] =
                              PresenceSeen(presence[m.device], reqs[h].received)]
        BY <3>4 DEF recordTelemetrySeen
      <4>2. \A a, b \in Nat : GREATEST(a, b) \in Nat
        BY DEF GREATEST
      <4>3. PresenceSeen(presence[m.device], reqs[h].received)
              \in [state : {"none", "unknown", "online", "disconnected"},
                   session : Nat, seen : Nat]
        BY <1>2, <3>1, <3>2, <4>2 DEF PresenceSeen
      <4>4. GREATEST(seenAt[m.device], reqs[h].received) \in Nat
        BY <1>2, <3>1, <3>2, <4>2
      <4> QED BY <1>2, <3>2, <4>1, <4>3, <4>4
    <3> QED BY <3>3, <3>4 DEF WriteLatest
  <2>3. budget' \in [restarts : 0..MaxRestarts, unknown : 0..MaxUnknown]
    <3>1. /\ budget \in [restarts : 0..MaxRestarts, unknown : 0..MaxUnknown]
          /\ \/ budget' = budget
             \/ /\ budget.unknown < MaxUnknown
                /\ budget' = [budget EXCEPT !.unknown = budget.unknown + 1]
      BY DEF WriteLatest, IngestInv, TypeOK
    <3> QED BY <3>1, IngestAssumption
  <2>4. crossed' \subseteq Devices
    BY <1>2 DEF WriteLatest, NoteCommit, IngestInv, TypeOK
  <2> QED BY <1>1, <1>3, <1>5, <2>1, <2>2, <2>3, <2>4 DEF IngestInv, TypeOK
<1>7. LatestIsStored'
  <2> SUFFICES ASSUME NEW d \in Devices, NEW k \in Kinds, latest'[d][k] # None
               PROVE  /\ latest'[d][k] \in stored'
                      /\ latest'[d][k].device = d
                      /\ latest'[d][k].kind = k
    BY DEF LatestIsStored
  <2>1. CASE d = m.device /\ k = m.kind
    BY <1>2, <1>3, <2>1 DEF IngestInv, TypeOK
  <2>2. CASE ~(d = m.device /\ k = m.kind)
    <3>1. latest'[d][k] = latest[d][k]
      BY <1>2, <1>3, <2>2 DEF IngestInv, TypeOK
    <3> QED BY <1>3, <3>1 DEF IngestInv, LatestIsStored
  <2> QED BY <2>1, <2>2
<1>8. AckedIsPersisted' /\ CacheFollowsCommit'
  BY <1>3 DEF IngestInv, AckedIsPersisted, CacheFollowsCommit, Persisted
<1> QED BY <1>5, <1>6, <1>7, <1>8 DEF IngestInv

\* The material that enters the store is of telemetry just committed.
LEMMA RecordMaterialHashStep ==
  ASSUME IngestInv, NEW h \in Handlers, RecordMaterialHash(h)
  PROVE  IngestInv'
<1> DEFINE m == reqs[h].item
           r == [reqs[h] EXCEPT !.pc = "record"]
<1>1. reqs[h] \in Requests /\ m \in Messages /\ reqs[h].pc = "hash"
  BY DEF IngestInv, TypeOK, RecordMaterialHash, At, RequestOK, MessagePCs
<1>2. m \in stored /\ m.kind = "telemetry"
  BY <1>1 DEF IngestInv, RequestKnows
<1>3. m.device \in Devices /\ m.material \in Nat
  BY <1>1, IngestAssumption DEF MessageAssumption
<1>4. /\ hashes' = [hashes EXCEPT ![m.device] = m.material]
      /\ reqs' = [reqs EXCEPT ![h] = r]
      /\ UNCHANGED <<clock, claimed, seenAt, latest, stored, presence, applied,
                     messages, crossed, acked, budget>>
  BY DEF RecordMaterialHash, Goto, tables
<1>5. r \in Requests /\ RequestOK(r) /\ r.pc = "record" /\ r.item = m
  BY <1>1 DEF Requests, RequestOK, MessagePCs, LifecyclePCs
<1>6. PICK q \in Requests : q = r
  BY <1>5
<1>7. RequestKnows(q)'
  BY <1>2, <1>4, <1>5, <1>6 DEF RequestKnows, Persisted
<1>8. /\ reqs' \in [Handlers -> Requests]
      /\ \A g \in Handlers : RequestOK(reqs'[g]) /\ RequestKnows(reqs[g])'
  BY <1>4, <1>5, <1>6, <1>7, RequestsStep
<1>9. hashes' \in [Devices -> Nat]
  BY <1>3, <1>4 DEF IngestInv, TypeOK
<1>10. CacheFollowsCommit'
  <2>1. \A n \in messages' : Persisted(n)'
    BY <1>4 DEF IngestInv, CacheFollowsCommit, Persisted
  <2>2. ASSUME NEW d \in Devices, hashes'[d] # 0
        PROVE  \E n \in stored' :
                 n.device = d /\ n.kind = "telemetry" /\ n.material = hashes'[d]
    <3>1. CASE d = m.device
      BY <1>2, <1>3, <1>4, <3>1 DEF IngestInv, TypeOK
    <3>2. CASE d # m.device
      BY <1>4, <2>2, <3>2 DEF IngestInv, TypeOK, CacheFollowsCommit
    <3> QED BY <3>1, <3>2
  <2> QED BY <2>1, <2>2 DEF CacheFollowsCommit
<1> QED BY <1>4, <1>8, <1>9, <1>10 DEF IngestInv, TypeOK, AckedIsPersisted,
             LatestIsStored, Persisted

\* The message that enters the store, and is answered, is persisted.
LEMMA RecordMessageStep ==
  ASSUME IngestInv, NEW h \in Handlers, RecordMessage(h)
  PROVE  IngestInv'
<1> DEFINE m == reqs[h].item
<1>1. reqs[h] \in Requests /\ m \in Messages /\ reqs[h].pc = "record"
  BY DEF IngestInv, TypeOK, RecordMessage, At, RequestOK, MessagePCs
<1>2. Persisted(m)
  BY <1>1 DEF IngestInv, RequestKnows
<1>3. /\ messages' = messages \union {m}
      /\ acked' = acked \union {m}
      /\ reqs' = [reqs EXCEPT ![h] = Idle]
      /\ UNCHANGED <<clock, claimed, seenAt, latest, stored, presence, applied,
                     hashes, crossed, budget>>
  BY DEF RecordMessage, Answer, tables
<1>4. Idle \in Requests /\ RequestOK(Idle) /\ RequestKnows(Idle)'
  BY IngestAssumption DEF Idle, Requests, RequestOK, RequestKnows, MessagePCs,
       LifecyclePCs
<1>5. /\ reqs' \in [Handlers -> Requests]
      /\ \A g \in Handlers : RequestOK(reqs'[g]) /\ RequestKnows(reqs[g])'
  BY <1>3, <1>4, RequestsStep
<1>6. AckedIsPersisted' /\ CacheFollowsCommit' /\ LatestIsStored'
  BY <1>2, <1>3 DEF IngestInv, AckedIsPersisted, CacheFollowsCommit, LatestIsStored,
       Persisted
<1>7. TypeOK'
  BY <1>1, <1>3, <1>5 DEF IngestInv, TypeOK
<1> QED BY <1>5, <1>6, <1>7 DEF IngestInv

\* A lifecycle event touches no telemetry table.
LEMMA WriteLifecycleStep ==
  ASSUME IngestInv, NEW h \in Handlers, WriteLifecycle(h)
  PROVE  IngestInv'
<1> DEFINE e == reqs[h].item
<1>1. e \in LifecycleEvents
  BY DEF IngestInv, TypeOK, WriteLifecycle, At, RequestOK, LifecyclePCs
<1>2. /\ e.device \in Devices /\ e.session \in Nat /\ e.at \in Nat
      /\ e.state \in {"online", "disconnected"}
  BY <1>1, IngestAssumption DEF LifecycleAssumption, WriteLifecycle
<1>3. /\ applied' = applied \union {e}
      /\ presence' = [presence EXCEPT ![e.device] = PresenceAfter(@, e)]
      /\ reqs' = [reqs EXCEPT ![h] = Idle]
      /\ UNCHANGED <<clock, claimed, seenAt, latest, stored, messages, hashes,
                     crossed, acked, budget>>
  BY DEF WriteLifecycle, Answer, dedupe
<1>4. Idle \in Requests /\ RequestOK(Idle) /\ RequestKnows(Idle)'
  BY IngestAssumption DEF Idle, Requests, RequestOK, RequestKnows, MessagePCs,
       LifecyclePCs
<1>5. /\ reqs' \in [Handlers -> Requests]
      /\ \A g \in Handlers : RequestOK(reqs'[g]) /\ RequestKnows(reqs[g])'
  BY <1>3, <1>4, RequestsStep
<1>6. presence' \in [Devices -> [state : {"none", "unknown", "online", "disconnected"},
                                 session : Nat, seen : Nat]]
  BY <1>2, <1>3 DEF IngestInv, TypeOK, PresenceAfter, GREATEST
<1> QED BY <1>1, <1>3, <1>5, <1>6 DEF IngestInv, TypeOK, AckedIsPersisted,
             CacheFollowsCommit, LatestIsStored, Persisted

\* A restart empties the dedupe store and keeps the tables.
LEMMA RestartStep ==
  ASSUME IngestInv, Restart
  PROVE  IngestInv'
<1>1. Idle \in Requests /\ RequestOK(Idle) /\ Idle.pc = "idle"
  BY IngestAssumption DEF Idle, Requests, RequestOK, MessagePCs, LifecyclePCs
<1>2. /\ reqs' = [h \in Handlers |-> Idle]
      /\ messages' = {}
      /\ hashes' = [d \in Devices |-> 0]
      /\ crossed' = {}
      /\ UNCHANGED <<clock, claimed, seenAt, latest, stored, presence, applied, acked>>
  BY DEF Restart, tables
<1>3. budget' \in [restarts : 0..MaxRestarts, unknown : 0..MaxUnknown]
  BY IngestAssumption DEF Restart, IngestInv, TypeOK
<1>4. TypeOK'
  BY <1>1, <1>2, <1>3 DEF IngestInv, TypeOK
<1> QED BY <1>1, <1>2, <1>4 DEF IngestInv, AckedIsPersisted, CacheFollowsCommit,
             LatestIsStored, RequestKnows, Persisted

\* Every step of the pipeline keeps the invariant.
LEMMA InvStep == IngestInv /\ [Next]_vars => IngestInv'
<1> SUFFICES ASSUME IngestInv, [Next]_vars PROVE IngestInv'
  OBVIOUS
<1>1. ASSUME NEW h \in Handlers, Ingest(h) PROVE IngestInv'
  BY <1>1, ReceiveStep, ResolveStep, SeenMessageStep, CompareStep, WriteLatestStep,
     RecordMaterialHashStep, RecordMessageStep DEF Ingest
<1>2. ASSUME NEW h \in Handlers, Lifecycle(h) PROVE IngestInv'
  BY <1>2, ReceiveStep, ResolveStep, WriteLifecycleStep DEF Lifecycle
<1>3. ASSUME NEW h \in Handlers, Refuse(h) PROVE IngestInv'
  <2>1. acked' \subseteq Messages /\ \A m \in acked' : Persisted(m)
    BY <1>3 DEF Refuse, IngestInv, TypeOK, AckedIsPersisted
  <2> QED BY <1>3, <2>1, AnswerStep DEF Refuse
<1>4. CASE Restart
  BY <1>4, RestartStep
<1>5. ASSUME NEW d \in Devices, Revoke(d) PROVE IngestInv'
  BY <1>5 DEF Revoke, dedupe, IngestInv, TypeOK, AckedIsPersisted, CacheFollowsCommit,
       LatestIsStored, RequestKnows, Persisted
<1>6. CASE Tick
  <2>1. clock' \in 1..MaxClock
    BY <1>6, IngestAssumption DEF Tick, IngestInv, TypeOK
  <2> QED BY <1>6, <2>1 DEF Tick, tables, dedupe, IngestInv, TypeOK, AckedIsPersisted,
               CacheFollowsCommit, LatestIsStored, RequestKnows, Persisted
<1>7. CASE UNCHANGED vars
  BY <1>7 DEF vars, tables, dedupe, IngestInv, TypeOK, AckedIsPersisted,
       CacheFollowsCommit, LatestIsStored, RequestKnows, Persisted
<1> QED BY <1>1, <1>2, <1>3, <1>4, <1>5, <1>6, <1>7 DEF Next

\* The inductive invariant of the pipeline holds for any number of devices,
\* messages and concurrent requests.
THEOREM Invariance == Spec => []IngestInv
<1> QED BY InvInit, InvStep, PTL DEF Spec

\* A message Ingest answered with 202 is in the tables, or was suppressed for one
\* with the same material that is, through restarts and lost answers.
THEOREM AcceptedIsKept == Spec => []AckedIsPersisted
<1>1. IngestInv => AckedIsPersisted
  BY DEF IngestInv
<1> QED BY <1>1, Invariance, PTL

\* MemoryDedupeStore never holds a message or a material that WriteLatest has not
\* committed.
THEOREM CacheAfterCommit == Spec => []CacheFollowsCommit
<1>1. IngestInv => CacheFollowsCommit
  BY DEF IngestInv
<1> QED BY <1>1, Invariance, PTL

\* Every device_latest_state row has its device_telemetry_events row.
THEOREM LatestHasItsEvent == Spec => []LatestIsStored
<1>1. IngestInv => LatestIsStored
  BY DEF IngestInv
<1> QED BY <1>1, Invariance, PTL

\* Types are kept by the pipeline, the dedupe store and the writers.
THEOREM TypeCorrect == Spec => []TypeOK
<1>1. IngestInv => TypeOK
  BY DEF IngestInv
<1> QED BY <1>1, Invariance, PTL

-------------------------------------------------------------------------------
(***************************************************************************)
(* A revoked device is silent.                                             *)
(***************************************************************************)

\* A device stays quiet if the request that moves is none of its own, or has not
\* passed the authority check (ResolveDevice, LookupDevice).
LEMMA QuietStays ==
  ASSUME IngestInv, NEW d \in Devices, Quiet(d), NEW h \in Handlers, NEW r,
         reqs' = [reqs EXCEPT ![h] = r], claimed' \subseteq claimed,
         r.pc \in {"idle", "resolve", "lookup"} \/ r.item.device # d
  PROVE  Quiet(d)'
<1>1. reqs \in [Handlers -> Requests]
  BY DEF IngestInv, TypeOK
<1>2. ASSUME NEW g \in Handlers
      PROVE  reqs'[g].pc \in {"idle", "resolve", "lookup"} \/ reqs'[g].item.device # d
  <2>1. CASE g = h
    BY <1>1, <2>1
  <2>2. CASE g # h
    <3>1. reqs'[g] = reqs[g]
      BY <1>1, <2>2
    <3> QED BY <3>1 DEF Quiet
  <2> QED BY <2>1, <2>2
<1> QED BY <1>2 DEF Quiet

\* What Ingest does to a quiet device: nothing.
LEMMA QuietIngest ==
  ASSUME IngestInv, NEW d \in Devices, Quiet(d), NEW h \in Handlers, Ingest(h)
  PROVE  /\ Quiet(d)'
         /\ presence'[d] = presence[d]
         /\ \A k \in Kinds : latest'[d][k] = latest[d][k]
         /\ \A m \in stored' \ stored : m.device # d
<1>0. reqs[h] \in Requests /\ RequestOK(reqs[h])
  BY DEF IngestInv, TypeOK
<1> DEFINE Item == reqs[h].item
<1>1. ASSUME NEW m \in Messages, Receive(h, m) PROVE Quiet(d)' /\ UNCHANGED tables
  <2> DEFINE r == [pc |-> "resolve", item |-> m, received |-> clock]
  <2>1. reqs' = [reqs EXCEPT ![h] = r] /\ UNCHANGED tables /\ r.pc = "resolve"
    BY <1>1 DEF Receive
  <2> QED BY <2>1, QuietStays DEF tables
<1>2. ASSUME NEW pc, Goto(h, pc), Item.device # d, UNCHANGED claimed PROVE Quiet(d)'
  <2> DEFINE r == [reqs[h] EXCEPT !.pc = pc]
  <2>1. reqs' = [reqs EXCEPT ![h] = r] /\ r.item = Item
    BY <1>0, <1>2 DEF Goto, Requests
  <2> QED BY <1>2, <2>1, QuietStays
<1>3. ASSUME Answer(h), UNCHANGED claimed PROVE Quiet(d)'
  BY <1>3, QuietStays DEF Answer, Idle
<1>4. ASSUME ResolveDevice(h) PROVE Quiet(d)' /\ UNCHANGED tables
  BY <1>2, <1>4 DEF ResolveDevice, Quiet, tables
<1>5. ASSUME reqs[h].pc \notin {"idle", "resolve", "lookup"} PROVE Item.device # d
  BY <1>5 DEF Quiet
<1>6. ASSUME SeenMessage(h) PROVE Quiet(d)' /\ UNCHANGED tables
  BY <1>2, <1>3, <1>5, <1>6 DEF SeenMessage, At, tables
<1>7. ASSUME shouldSuppressUnchangedTelemetry(h) PROVE Quiet(d)' /\ UNCHANGED tables
  BY <1>2, <1>5, <1>7 DEF shouldSuppressUnchangedTelemetry, At, tables
<1>8. ASSUME RecordMaterialHash(h) PROVE Quiet(d)' /\ UNCHANGED tables
  BY <1>2, <1>5, <1>8 DEF RecordMaterialHash, At, tables
<1>9. ASSUME RecordMessage(h) PROVE Quiet(d)' /\ UNCHANGED tables
  BY <1>3, <1>9 DEF RecordMessage, tables
<1>10. CASE WriteLatest(h)
  <2>1. Item.device # d /\ Item \in Messages
    BY <1>0, <1>5, <1>10 DEF WriteLatest, At, RequestOK, MessagePCs
  <2>2. Quiet(d)'
    BY <1>2, <1>3, <1>10, <2>1 DEF WriteLatest
  <2>3. presence'[d] = presence[d]
    BY <1>10, <2>1 DEF WriteLatest, recordTelemetrySeen, IngestInv, TypeOK
  <2>4. latest'[d] = latest[d] /\ stored' = stored \union {Item}
    BY <1>10, <2>1 DEF WriteLatest, IngestInv, TypeOK
  <2> QED BY <2>1, <2>2, <2>3, <2>4
<1> QED BY <1>1, <1>4, <1>6, <1>7, <1>8, <1>9, <1>10 DEF Ingest, tables

\* The same of a lifecycle event.
LEMMA QuietLifecycle ==
  ASSUME IngestInv, NEW d \in Devices, Quiet(d), NEW h \in Handlers,
         Lifecycle(h) \/ Refuse(h)
  PROVE  /\ Quiet(d)'
         /\ presence'[d] = presence[d]
         /\ UNCHANGED <<latest, stored>>
<1>0. reqs[h] \in Requests
  BY DEF IngestInv, TypeOK
<1>1. ASSUME NEW e \in LifecycleEvents, ReceiveLifecycle(h, e)
      PROVE  Quiet(d)' /\ UNCHANGED tables
  <2> DEFINE r == [pc |-> "lookup", item |-> e, received |-> clock]
  <2>1. reqs' = [reqs EXCEPT ![h] = r] /\ UNCHANGED tables /\ r.pc = "lookup"
    BY <1>1 DEF ReceiveLifecycle
  <2> QED BY <2>1, QuietStays DEF tables
<1>2. ASSUME LookupDevice(h) PROVE Quiet(d)' /\ UNCHANGED tables
  <2> DEFINE r == [reqs[h] EXCEPT !.pc = "apply"]
  <2>1. reqs' = [reqs EXCEPT ![h] = r] /\ r.item = reqs[h].item /\ UNCHANGED tables
    BY <1>0, <1>2 DEF LookupDevice, Goto, Requests
  <2>2. reqs[h].item.device # d
    BY <1>2 DEF LookupDevice, Quiet
  <2> QED BY <2>1, <2>2, QuietStays DEF tables
<1>3. ASSUME Answer(h), UNCHANGED claimed PROVE Quiet(d)'
  BY <1>3, QuietStays DEF Answer, Idle
<1>4. CASE WriteLifecycle(h)
  <2>1. reqs[h].item.device # d
    BY <1>4 DEF WriteLifecycle, At, Quiet
  <2> QED BY <1>3, <1>4, <2>1 DEF WriteLifecycle, IngestInv, TypeOK
<1>5. ASSUME Refuse(h) PROVE Quiet(d)' /\ UNCHANGED tables
  BY <1>3, <1>5 DEF Refuse, tables
<1> QED BY <1>1, <1>2, <1>4, <1>5 DEF Lifecycle, tables

\* A device that was revoked, and whose requests in flight are over, gets no new
\* row and no change of a row, whatever is delivered (resolveAuthority and the
\* lookup of WriteLifecycle come before every write).
THEOREM RevokedSilence == Spec => RevokedIsSilent
<1> DEFINE Silent(d) == /\ Quiet(d)'
                        /\ presence'[d] = presence[d]
                        /\ \A k \in Kinds : latest'[d][k] = latest[d][k]
                        /\ \A m \in stored' \ stored : m.device # d
<1>1. IngestInv /\ [Next]_vars => [\A d \in Devices : Quiet(d) => Silent(d)]_vars
  <2> SUFFICES ASSUME IngestInv, Next, NEW d \in Devices, Quiet(d)
               PROVE  Silent(d)
    OBVIOUS
  <2>1. ASSUME NEW h \in Handlers, Ingest(h) \/ Lifecycle(h) \/ Refuse(h)
        PROVE  Silent(d)
    BY <2>1, QuietIngest, QuietLifecycle
  <2>2. CASE Restart
    BY <2>2 DEF Restart, Idle, Quiet, tables
  <2>3. ASSUME NEW e \in Devices, Revoke(e) PROVE Silent(d)
    BY <2>3 DEF Revoke, Quiet
  <2>4. CASE Tick
    BY <2>4 DEF Tick, Quiet, tables
  <2> QED BY <2>1, <2>2, <2>3, <2>4 DEF Next
<1> QED BY <1>1, Invariance, PTL DEF Spec, RevokedIsSilent

-------------------------------------------------------------------------------
(***************************************************************************)
(* Suppression.                                                            *)
(***************************************************************************)

\* A step that leaves a device's latest telemetry, its material and its requests
\* about to record alone.
LEMMA CacheKept ==
  ASSUME NEW d \in Devices, CacheOf(d),
         hashes'[d] = hashes[d], latest'[d]["telemetry"] = latest[d]["telemetry"],
         d \in crossed => d \in crossed',
         AtHash(d)' = AtHash(d),
         \A g \in AtHash(d) : reqs'[g].item = reqs[g].item
  PROVE  CacheOf(d)'
<1>1. CASE d \in crossed
  BY <1>1 DEF CacheOf
<1>2. ASSUME NEW h \in Handlers, AtHash(d) = {h}, latest[d]["telemetry"] = reqs[h].item
      PROVE  CacheOf(d)'
  <2>1. AtHash(d)' = {h} /\ latest'[d]["telemetry"] = reqs'[h].item
    BY <1>2
  <2> QED BY <2>1 DEF CacheOf
<1>3. CASE /\ AtHash(d) = {}
           /\ hashes[d] = 0 \/ hashes[d] = latest[d]["telemetry"].material
  BY <1>3 DEF CacheOf
<1> QED BY <1>1, <1>2, <1>3 DEF CacheOf

\* The requests about to record are as they were for a device that is not the
\* moving request's, before or after.
LEMMA AtHashKept ==
  ASSUME IngestInv, NEW h \in Handlers, NEW r, NEW d,
         reqs' = [reqs EXCEPT ![h] = r],
         reqs[h].pc # "hash" \/ reqs[h].item.device # d,
         r.pc # "hash" \/ r.item.device # d
  PROVE  AtHash(d)' = AtHash(d) /\ \A g \in AtHash(d) : reqs'[g].item = reqs[g].item
<1>1. reqs'[h] = r /\ \A g \in Handlers \ {h} : reqs'[g] = reqs[g]
  BY DEF IngestInv, TypeOK
<1>2. ASSUME NEW g \in Handlers PROVE g \in AtHash(d)' <=> g \in AtHash(d)
  <2>1. CASE g = h
    BY <1>1, <2>1 DEF AtHash
  <2>2. CASE g # h
    BY <1>1, <2>2 DEF AtHash
  <2> QED BY <2>1, <2>2
<1>3. \A g \in AtHash(d) : g \in Handlers \ {h}
  BY DEF AtHash
<1>4. AtHash(d)' \subseteq Handlers /\ AtHash(d) \subseteq Handlers
  BY DEF AtHash
<1> QED BY <1>1, <1>2, <1>3, <1>4

\* A request that stands elsewhere than before the recording, and goes elsewhere.
LEMMA CacheGoto ==
  ASSUME IngestInv, CacheInv, NEW h \in Handlers, NEW r,
         reqs' = [reqs EXCEPT ![h] = r], reqs[h].pc # "hash", r.pc # "hash",
         UNCHANGED <<hashes, crossed>>,
         \A d \in Devices : latest'[d]["telemetry"] = latest[d]["telemetry"]
  PROVE  CacheInv'
<1> SUFFICES ASSUME NEW d \in Devices PROVE CacheOf(d)'
  BY DEF CacheInv
<1>1. AtHash(d)' = AtHash(d) /\ \A g \in AtHash(d) : reqs'[g].item = reqs[g].item
  BY AtHashKept
<1>2. CacheOf(d)
  BY DEF CacheInv
<1> QED BY <1>1, <1>2, CacheKept

\* The commit of telemetry puts the request before the recording, or its device
\* into crossed.
LEMMA CacheWrites ==
  ASSUME IngestInv, CacheInv, NEW h \in Handlers, WriteLatest(h),
         reqs[h].item.kind = "telemetry"
  PROVE  CacheInv'
<1>1. PICK m \in Messages : m = reqs[h].item
  BY DEF WriteLatest, At, IngestInv, TypeOK, RequestOK, MessagePCs
<1>2. reqs[h] \in Requests /\ reqs[h].pc = "write" /\ m.kind = "telemetry"
  BY <1>1 DEF WriteLatest, At, IngestInv, TypeOK
<1>3. PICK md \in Devices : md = m.device
  BY <1>1, IngestAssumption DEF MessageAssumption
<1>4. /\ latest' = [latest EXCEPT ![md] = [latest[md] EXCEPT !["telemetry"] = m]]
      /\ UNCHANGED hashes
  BY <1>1, <1>2, <1>3 DEF WriteLatest
<1>5. latest \in [Devices -> [Kinds -> Messages \union {None}]]
  BY DEF IngestInv, TypeOK
<1>6. ASSUME NEW r, reqs' = [reqs EXCEPT ![h] = r], r.pc # "hash" \/ r.item = m,
             \A d \in Devices \ {md} : d \in crossed => d \in crossed',
             CacheOf(md)'
      PROVE  CacheInv'
  <2> SUFFICES ASSUME NEW d \in Devices, d # md PROVE CacheOf(d)'
    BY <1>6 DEF CacheInv
  <2>0. reqs[h].pc # "hash" /\ (r.pc # "hash" \/ r.item.device # d)
    BY <1>2, <1>3, <1>6
  <2>1. AtHash(d)' = AtHash(d) /\ \A g \in AtHash(d) : reqs'[g].item = reqs[g].item
    BY <1>6, <2>0, AtHashKept
  <2>2. latest'[d]["telemetry"] = latest[d]["telemetry"] /\ hashes'[d] = hashes[d]
    BY <1>4, <1>5
  <2>3. CacheOf(d)
    BY DEF CacheInv
  <2> QED BY <1>6, <2>1, <2>2, <2>3, CacheKept
<1>7. PICK r \in Requests :
        /\ reqs' = [reqs EXCEPT ![h] = r]
        /\ \/ r.pc # "hash" /\ crossed' = crossed \union {md}
           \/ /\ r.pc = "hash" /\ r.item = m
              /\ crossed' = IF AtHash(md) = {} THEN crossed \ {md} ELSE crossed \union {md}
  <2>1. CASE Answer(h) /\ NoteCommit(m, FALSE)
    <3>1. Idle \in Requests /\ Idle.pc # "hash"
      BY IngestAssumption DEF Idle, Requests, MessagePCs, LifecyclePCs
    <3> QED BY <1>2, <1>3, <2>1, <3>1 DEF Answer, NoteCommit
  <2>2. CASE Goto(h, "hash") /\ NoteCommit(m, TRUE)
    <3> DEFINE q == [pc |-> "hash", item |-> m, received |-> reqs[h].received]
    <3>1. q \in Requests /\ q = [reqs[h] EXCEPT !.pc = "hash"]
      BY <1>1, <1>2 DEF Requests, MessagePCs, LifecyclePCs
    <3>2. reqs' = [reqs EXCEPT ![h] = q]
      BY <2>2, <3>1 DEF Goto
    <3> QED BY <1>2, <1>3, <2>2, <3>1, <3>2 DEF NoteCommit
  <2> QED BY <1>1, <1>2, <2>1, <2>2 DEF WriteLatest
<1>8. CASE crossed' = crossed \union {md}
  <2>1. CacheOf(md)'
    BY <1>8 DEF CacheOf
  <2> QED BY <1>6, <1>7, <1>8, <2>1
<1>9. CASE /\ r.pc = "hash" /\ r.item = m /\ AtHash(md) = {} /\ crossed' = crossed \ {md}
  <2>1. reqs'[h] = r /\ \A g \in Handlers \ {h} : reqs'[g] = reqs[g]
    BY <1>7 DEF IngestInv, TypeOK
  <2>2. AtHash(md)' = {h}
    BY <1>3, <1>9, <2>1 DEF AtHash
  <2>3. latest'[md]["telemetry"] = reqs'[h].item
    BY <1>4, <1>5, <1>9, <2>1 DEF Kinds
  <2>4. CacheOf(md)'
    BY <2>2, <2>3 DEF CacheOf
  <2> QED BY <1>6, <1>7, <1>9, <2>4
<1> QED BY <1>7, <1>8, <1>9

\* The recording of the material ends the request's exception for its device.
LEMMA CacheRecords ==
  ASSUME IngestInv, CacheInv, NEW h \in Handlers, RecordMaterialHash(h)
  PROVE  CacheInv'
<1>1. PICK m \in Messages : m = reqs[h].item
  BY DEF RecordMaterialHash, At, IngestInv, TypeOK, RequestOK, MessagePCs
<1>2. reqs[h] \in Requests /\ reqs[h].pc = "hash"
  BY DEF RecordMaterialHash, At, IngestInv, TypeOK
<1>3. PICK md \in Devices : md = m.device
  BY <1>1, IngestAssumption DEF MessageAssumption
<1>4. /\ hashes' = [hashes EXCEPT ![md] = m.material]
      /\ UNCHANGED <<latest, crossed>>
  BY <1>1, <1>3 DEF RecordMaterialHash, tables
<1>5. PICK r \in Requests : reqs' = [reqs EXCEPT ![h] = r] /\ r.pc = "record"
  <2> DEFINE q == [reqs[h] EXCEPT !.pc = "record"]
  <2>1. q \in Requests /\ q.pc = "record"
    BY <1>2 DEF Requests, MessagePCs, LifecyclePCs
  <2> QED BY <2>1 DEF RecordMaterialHash, Goto
<1>6. hashes \in [Devices -> Nat]
  BY DEF IngestInv, TypeOK
<1> SUFFICES ASSUME NEW d \in Devices PROVE CacheOf(d)'
  BY DEF CacheInv
<1>7. CacheOf(d)
  BY DEF CacheInv
<1>8. CASE d # md
  <2>1. AtHash(d)' = AtHash(d) /\ \A g \in AtHash(d) : reqs'[g].item = reqs[g].item
    BY <1>1, <1>3, <1>5, <1>8, AtHashKept
  <2>2. hashes'[d] = hashes[d] /\ latest'[d]["telemetry"] = latest[d]["telemetry"]
    BY <1>4, <1>6, <1>8
  <2> QED BY <1>4, <1>7, <2>1, <2>2, CacheKept
<1>9. CASE d = md /\ d \in crossed
  BY <1>4, <1>9 DEF CacheOf
<1>10. CASE d = md /\ d \notin crossed
  <2>1. h \in AtHash(d)
    BY <1>1, <1>2, <1>3, <1>10 DEF AtHash
  <2>2. AtHash(d) = {h} /\ latest[d]["telemetry"] = m
    BY <1>1, <1>7, <1>10, <2>1 DEF CacheOf
  <2>3. reqs'[h] = r /\ \A g \in Handlers \ {h} : reqs'[g] = reqs[g]
    BY <1>5 DEF IngestInv, TypeOK
  <2>4. ASSUME NEW g \in Handlers PROVE g \notin AtHash(d)'
    <3>1. CASE g = h
      BY <1>5, <2>3, <3>1 DEF AtHash
    <3>2. CASE g # h
      BY <2>2, <2>3, <3>2 DEF AtHash
    <3> QED BY <3>1, <3>2
  <2>5. AtHash(d)' = {}
    BY <2>4 DEF AtHash
  <2>6. hashes'[d] = latest'[d]["telemetry"].material
    BY <1>4, <1>6, <1>10, <2>2
  <2> QED BY <2>5, <2>6 DEF CacheOf
<1> QED BY <1>8, <1>9, <1>10

\* Every step keeps the invariant of the material hashes.
LEMMA CacheStep ==
  ASSUME IngestInv, CacheInv, [Next]_vars
  PROVE  CacheInv'
<1>1. ASSUME NEW h \in Handlers, NEW pc, Goto(h, pc), pc # "hash", reqs[h].pc # "hash",
             UNCHANGED <<tables, hashes, crossed>>
      PROVE  CacheInv'
  <2> DEFINE r == [reqs[h] EXCEPT !.pc = pc]
  <2>1. reqs[h] \in Requests
    BY DEF IngestInv, TypeOK
  <2>2. r.pc = pc /\ reqs' = [reqs EXCEPT ![h] = r]
    BY <1>1, <2>1 DEF Goto, Requests
  <2> QED BY <1>1, <2>2, CacheGoto DEF tables
<1>2. ASSUME NEW h \in Handlers, Answer(h), reqs[h].pc # "hash",
             UNCHANGED <<hashes, crossed, latest>>
      PROVE  CacheInv'
  <2>1. reqs' = [reqs EXCEPT ![h] = Idle] /\ Idle.pc # "hash"
    BY <1>2 DEF Answer, Idle
  <2> QED BY <1>2, <2>1, CacheGoto
<1>3. ASSUME NEW h \in Handlers, NEW m \in Messages, Receive(h, m) PROVE CacheInv'
  <2> DEFINE r == [pc |-> "resolve", item |-> m, received |-> clock]
  <2>1. r.pc = "resolve" /\ reqs' = [reqs EXCEPT ![h] = r]
    BY <1>3 DEF Receive
  <2> QED BY <1>3, <2>1, CacheGoto DEF Receive, At, tables, dedupe
<1>4. ASSUME NEW h \in Handlers, NEW e \in LifecycleEvents, ReceiveLifecycle(h, e)
      PROVE  CacheInv'
  <2> DEFINE r == [pc |-> "lookup", item |-> e, received |-> clock]
  <2>1. r.pc = "lookup" /\ reqs' = [reqs EXCEPT ![h] = r]
    BY <1>4 DEF ReceiveLifecycle
  <2> QED BY <1>4, <2>1, CacheGoto DEF ReceiveLifecycle, At, tables, dedupe
<1>5. ASSUME NEW h \in Handlers, ResolveDevice(h) \/ LookupDevice(h) PROVE CacheInv'
  BY <1>1, <1>5 DEF ResolveDevice, LookupDevice, At, dedupe
<1>6. ASSUME NEW h \in Handlers, SeenMessage(h) PROVE CacheInv'
  BY <1>1, <1>2, <1>6 DEF SeenMessage, At, dedupe, tables
<1>7. ASSUME NEW h \in Handlers, shouldSuppressUnchangedTelemetry(h) PROVE CacheInv'
  BY <1>1, <1>7 DEF shouldSuppressUnchangedTelemetry, At, dedupe
<1>8. ASSUME NEW h \in Handlers, RecordMessage(h) \/ WriteLifecycle(h) \/ Refuse(h)
      PROVE  CacheInv'
  BY <1>2, <1>8 DEF RecordMessage, WriteLifecycle, Refuse, At, dedupe, tables
<1>9. ASSUME NEW h \in Handlers, WriteLatest(h), reqs[h].item.kind # "telemetry"
      PROVE  CacheInv'
  <2>1. PICK m \in Messages : m = reqs[h].item
    BY <1>9 DEF WriteLatest, At, IngestInv, TypeOK, RequestOK, MessagePCs
  <2>2. m.device \in Devices /\ m.kind = "event" /\ reqs[h].pc = "write"
    BY <1>9, <2>1, IngestAssumption DEF MessageAssumption, Kinds, WriteLatest, At
  <2>3. \A d \in Devices : latest'[d]["telemetry"] = latest[d]["telemetry"]
    BY <1>9, <2>1, <2>2 DEF WriteLatest, IngestInv, TypeOK, Kinds
  <2>4. UNCHANGED <<hashes, crossed>>
    BY <1>9, <2>1 DEF WriteLatest, NoteCommit
  <2>5. CASE Answer(h)
    <3>1. reqs' = [reqs EXCEPT ![h] = Idle] /\ Idle.pc # "hash"
      BY <2>5 DEF Answer, Idle
    <3> QED BY <2>2, <2>3, <2>4, <3>1, CacheGoto
  <2>6. CASE Goto(h, "record")
    <3> DEFINE r == [reqs[h] EXCEPT !.pc = "record"]
    <3>1. reqs[h] \in Requests
      BY DEF IngestInv, TypeOK
    <3>2. r.pc = "record" /\ reqs' = [reqs EXCEPT ![h] = r]
      BY <2>6, <3>1 DEF Goto, Requests
    <3> QED BY <2>2, <2>3, <2>4, <3>2, CacheGoto
  <2> QED BY <1>9, <2>5, <2>6 DEF WriteLatest
<1>10. CASE Restart
  <2>1. \A d \in Devices : AtHash(d)' = {} /\ hashes'[d] = 0
    BY <1>10 DEF Restart, AtHash, Idle
  <2> QED BY <2>1 DEF CacheInv, CacheOf
<1>11. CASE Tick \/ UNCHANGED vars \/ \E d \in Devices : Revoke(d)
  <2>1. UNCHANGED <<reqs, latest, hashes, crossed>>
    BY <1>11 DEF Tick, Revoke, vars, tables, dedupe
  <2> QED BY <2>1 DEF CacheInv, CacheOf, AtHash
<1> QED BY <1>3, <1>4, <1>5, <1>6, <1>7, <1>8, <1>9, <1>10, <1>11, CacheWrites,
           CacheRecords
        DEF Next, Ingest, Lifecycle

\* Telemetry is suppressed only if the latest state shows its material
\* (shouldSuppressUnchangedTelemetry against WriteLatest), for any number of
\* requests, through restarts and commits reported as failed: the exceptions are a
\* device whose last commit crossed another one's recording or was reported as
\* failed, and they end with its next undisturbed commit.
THEOREM SuppressionIsSound == Spec => []CacheMatchesLatest
<1>1. Init => CacheInv
  <2> SUFFICES ASSUME Init, NEW d \in Devices
               PROVE  AtHash(d) = {} /\ hashes[d] = 0
    BY DEF CacheInv, CacheOf
  <2> QED BY DEF Init, AtHash, Idle
<1>2. IngestInv /\ CacheInv /\ [Next]_vars => CacheInv'
  BY CacheStep
<1>3. CacheInv => CacheMatchesLatest
  <2> SUFFICES ASSUME CacheInv, NEW d \in Devices
               PROVE  \/ hashes[d] = 0
                      \/ AtHash(d) # {}
                      \/ d \in crossed
                      \/ hashes[d] = latest[d]["telemetry"].material
    BY DEF CacheMatchesLatest
  <2>1. CacheOf(d)
    BY DEF CacheInv
  <2> QED BY <2>1 DEF CacheOf
<1> QED BY <1>1, <1>2, <1>3, Invariance, PTL DEF Spec

-------------------------------------------------------------------------------
(***************************************************************************)
(* Presence.                                                               *)
(***************************************************************************)

\* What PresenceInv says of one device.
PresenceOf(d) ==
  /\ seenAt[d] <= presence[d].seen
  /\ \A e \in applied : e.device = d => e.at <= presence[d].seen
  /\ \/ presence[d].seen \in {0, seenAt[d]}
     \/ \E e \in applied : e.device = d /\ e.at = presence[d].seen
  /\ Newest(d) # {} =>
       \E e \in Newest(d) : presence[d].state = e.state \/ e.at < seenAt[d]

\* A step that leaves a device's presence, its last telemetry and its events alone.
LEMMA PresenceKept ==
  ASSUME NEW d \in Devices, PresenceOf(d), presence'[d] = presence[d],
         seenAt'[d] = seenAt[d],
         \A e : e.device = d => (e \in applied' <=> e \in applied)
  PROVE  PresenceOf(d)'
<1>1. Newest(d)' = Newest(d)
  BY DEF Newest
<1>2. \A e \in Newest(d) : e \in applied /\ e.device = d
  BY DEF Newest
<1> QED BY <1>1, <1>2 DEF PresenceOf

\* The upsert of WriteLifecycle.
LEMMA PresenceApplies ==
  ASSUME IngestInv, NEW d \in Devices, PresenceOf(d), NEW e \in LifecycleEvents,
         e.device = d, applied' = applied \union {e}, seenAt'[d] = seenAt[d],
         presence'[d] = PresenceAfter(presence[d], e)
  PROVE  PresenceOf(d)'
<1>1. e.at \in Nat /\ \A f \in applied : f.at \in Nat
  BY IngestAssumption DEF LifecycleAssumption, IngestInv, TypeOK
<1>2. presence[d].seen \in Nat /\ seenAt[d] \in Nat
  BY DEF IngestInv, TypeOK
<1>3. /\ presence'[d].seen = GREATEST(presence[d].seen, e.at)
      /\ presence'[d].state = IF presence[d].seen <= e.at THEN e.state ELSE presence[d].state
  BY DEF PresenceAfter
<1>4. /\ presence[d].seen <= presence'[d].seen /\ e.at <= presence'[d].seen
      /\ presence'[d].seen \in {presence[d].seen, e.at} /\ presence'[d].seen \in Nat
  BY <1>1, <1>2, <1>3 DEF GREATEST
<1>5. seenAt'[d] <= presence'[d].seen
  BY <1>2, <1>4 DEF PresenceOf
<1>6. \A f \in applied' : f.device = d => f.at <= presence'[d].seen
  BY <1>1, <1>2, <1>4 DEF PresenceOf
<1>7. \/ presence'[d].seen \in {0, seenAt'[d]}
      \/ \E f \in applied' : f.device = d /\ f.at = presence'[d].seen
  BY <1>4 DEF PresenceOf
<1>8. ASSUME NEW n \in Newest(d)'
      PROVE  \E f \in Newest(d)' : presence'[d].state = f.state \/ f.at < seenAt'[d]
  <2>1. CASE presence[d].seen <= e.at
    <3>1. presence'[d].state = e.state
      BY <1>3, <2>1
    <3>2. \A f \in applied : f.device = d => f.at <= e.at
      BY <1>1, <1>2, <2>1 DEF PresenceOf
    <3>3. e \in Newest(d)'
      BY <1>1, <3>2 DEF Newest
    <3> QED BY <3>1, <3>3
  <2>2. CASE ~(presence[d].seen <= e.at)
    <3>1. presence'[d].state = presence[d].state /\ e.at < presence[d].seen
      BY <1>1, <1>2, <1>3, <2>2
    <3>2. CASE n = e
      <4>1. \A f \in applied : f.device = d => f.at <= e.at
        BY <1>8, <3>2 DEF Newest
      <4>2. presence[d].seen = seenAt[d]
        BY <1>1, <1>2, <3>1, <4>1 DEF PresenceOf
      <4> QED BY <1>8, <3>1, <3>2, <4>2
    <3>3. CASE n # e
      <4>1. /\ n \in applied /\ n.device = d /\ n.at \in Nat /\ e.at <= n.at
            /\ \A f \in applied : f.device = d => f.at <= n.at
        BY <1>1, <1>8, <3>3 DEF Newest
      <4>2. n \in Newest(d)
        BY <4>1 DEF Newest
      <4>3. PICK x \in Newest(d) : presence[d].state = x.state \/ x.at < seenAt[d]
        BY <4>2 DEF PresenceOf
      <4>4. /\ x \in applied /\ x.device = d /\ x.at \in Nat /\ n.at <= x.at
            /\ \A f \in applied : f.device = d => f.at <= x.at
        BY <1>1, <4>1 DEF Newest
      <4>5. e.at <= x.at
        BY <1>1, <4>1, <4>4
      <4>6. x \in Newest(d)'
        BY <4>4, <4>5 DEF Newest
      <4> QED BY <3>1, <4>3, <4>6
    <3> QED BY <3>2, <3>3
  <2> QED BY <2>1, <2>2
<1> QED BY <1>5, <1>6, <1>7, <1>8 DEF PresenceOf

\* The upsert of recordTelemetrySeen.
LEMMA PresenceSees ==
  ASSUME IngestInv, NEW d \in Devices, PresenceOf(d), NEW t \in Nat,
         applied' = applied, seenAt'[d] = GREATEST(seenAt[d], t),
         presence'[d] = PresenceSeen(presence[d], t)
  PROVE  PresenceOf(d)'
<1>1. \A f \in applied : f.at \in Nat /\ f.state # "none"
  BY IngestAssumption DEF LifecycleAssumption, IngestInv, TypeOK
<1>2. presence[d].seen \in Nat /\ seenAt[d] \in Nat
  BY DEF IngestInv, TypeOK
<1>3. /\ presence'[d].seen = GREATEST(presence[d].seen, t)
      /\ presence[d].state # "none" => presence'[d].state = presence[d].state
  BY DEF PresenceSeen
<1>4. /\ seenAt[d] <= seenAt'[d] /\ seenAt'[d] <= presence'[d].seen
      /\ presence[d].seen <= presence'[d].seen
      /\ presence'[d].seen \in Nat /\ seenAt'[d] \in Nat
      /\ presence'[d].seen \in {presence[d].seen, seenAt'[d]}
      /\ presence[d].seen = seenAt[d] => presence'[d].seen = seenAt'[d]
  BY <1>2, <1>3 DEF GREATEST, PresenceOf
<1>5. \A f \in applied' : f.device = d => f.at <= presence'[d].seen
  BY <1>1, <1>2, <1>4 DEF PresenceOf
<1>6. \/ presence'[d].seen \in {0, seenAt'[d]}
      \/ \E f \in applied' : f.device = d /\ f.at = presence'[d].seen
  BY <1>4 DEF PresenceOf
<1>7. Newest(d)' = Newest(d) /\ Newest(d) \subseteq applied
  BY DEF Newest
<1>8. ASSUME Newest(d) # {}
      PROVE  \E f \in Newest(d) : presence'[d].state = f.state \/ f.at < seenAt'[d]
  <2>1. PICK x \in Newest(d) : presence[d].state = x.state \/ x.at < seenAt[d]
    BY <1>8 DEF PresenceOf
  <2>2. x.at \in Nat /\ x.state # "none"
    BY <1>1, <1>7
  <2>3. presence'[d].state = x.state \/ x.at < seenAt'[d]
    BY <1>2, <1>3, <1>4, <2>1, <2>2
  <2> QED BY <2>3
<1> QED BY <1>4, <1>5, <1>6, <1>7, <1>8 DEF PresenceOf

\* The only steps that touch presence are the two upserts.
LEMMA PresenceMoves ==
  ASSUME IngestInv, Next, NEW d \in Devices
  PROVE  \/ /\ presence'[d] = presence[d] /\ seenAt'[d] = seenAt[d]
            /\ \A e : e.device = d => (e \in applied' <=> e \in applied)
         \/ \E e \in LifecycleEvents :
              /\ e.device = d /\ applied' = applied \union {e} /\ seenAt'[d] = seenAt[d]
              /\ presence'[d] = PresenceAfter(presence[d], e)
         \/ \E t \in Nat :
              /\ applied' = applied /\ seenAt'[d] = GREATEST(seenAt[d], t)
              /\ presence'[d] = PresenceSeen(presence[d], t)
<1> DEFINE Kept == UNCHANGED <<presence, seenAt, applied>>
<1>1. ASSUME NEW h \in Handlers, WriteLatest(h), ~Kept
      PROVE  \/ presence'[d] = presence[d] /\ seenAt'[d] = seenAt[d] /\ applied' = applied
             \/ \E t \in Nat :
                  /\ applied' = applied /\ seenAt'[d] = GREATEST(seenAt[d], t)
                  /\ presence'[d] = PresenceSeen(presence[d], t)
  <2>1. reqs[h] \in Requests
    BY DEF IngestInv, TypeOK
  <2>2. PICK t \in Nat : t = reqs[h].received
    BY <2>1, IngestAssumption DEF Requests
  <2>3. recordTelemetrySeen(reqs[h].item.device, t) /\ applied' = applied
    BY <1>1, <2>2 DEF WriteLatest
  <2>4. /\ presence \in [Devices -> [state : {"none", "unknown", "online", "disconnected"},
                                     session : Nat, seen : Nat]]
        /\ seenAt \in [Devices -> Nat]
    BY DEF IngestInv, TypeOK
  <2>5. CASE d = reqs[h].item.device
    BY <2>3, <2>4, <2>5 DEF recordTelemetrySeen
  <2>6. CASE d # reqs[h].item.device
    BY <2>3, <2>4, <2>6 DEF recordTelemetrySeen
  <2> QED BY <2>5, <2>6
<1>2. ASSUME NEW h \in Handlers, WriteLifecycle(h)
      PROVE  \/ /\ presence'[d] = presence[d] /\ seenAt'[d] = seenAt[d]
                /\ \A e : e.device = d => (e \in applied' <=> e \in applied)
             \/ \E e \in LifecycleEvents :
                  /\ e.device = d /\ applied' = applied \union {e}
                  /\ seenAt'[d] = seenAt[d]
                  /\ presence'[d] = PresenceAfter(presence[d], e)
  <2>1. PICK e \in LifecycleEvents : e = reqs[h].item
    BY <1>2 DEF IngestInv, TypeOK, WriteLifecycle, At, RequestOK, LifecyclePCs
  <2>2. /\ applied' = applied \union {e} /\ UNCHANGED seenAt
        /\ presence' = [presence EXCEPT ![e.device] = PresenceAfter(presence[e.device], e)]
    BY <1>2, <2>1 DEF WriteLifecycle
  <2>3. CASE d = e.device
    BY <2>2, <2>3 DEF IngestInv, TypeOK
  <2>4. CASE d # e.device
    BY <2>2, <2>4 DEF IngestInv, TypeOK
  <2> QED BY <2>3, <2>4
<1>3. ASSUME NEW h \in Handlers, Ingest(h), ~WriteLatest(h) PROVE Kept
  BY <1>3 DEF Ingest, Receive, ResolveDevice, SeenMessage,
       shouldSuppressUnchangedTelemetry, RecordMaterialHash, RecordMessage, tables
<1>4. ASSUME NEW h \in Handlers, Lifecycle(h), ~WriteLifecycle(h) PROVE Kept
  BY <1>4 DEF Lifecycle, ReceiveLifecycle, LookupDevice, tables
<1>5. ASSUME NEW h \in Handlers, Refuse(h) PROVE Kept
  BY <1>5 DEF Refuse, tables
<1>6. CASE Restart \/ Tick \/ \E x \in Devices : Revoke(x)
  BY <1>6 DEF Restart, Tick, Revoke, tables
<1>7. CASE Kept
  BY <1>7
<1> QED BY <1>1, <1>2, <1>3, <1>4, <1>5, <1>6, <1>7 DEF Next

\* Every step keeps the invariant of the presence rows.
LEMMA PresenceStep ==
  ASSUME IngestInv, PresenceInv, [Next]_vars
  PROVE  PresenceInv'
<1> SUFFICES ASSUME NEW d \in Devices PROVE PresenceOf(d)'
  BY DEF PresenceInv, PresenceOf
<1>1. PresenceOf(d)
  BY DEF PresenceInv, PresenceOf
<1>2. CASE UNCHANGED vars
  BY <1>1, <1>2, PresenceKept DEF vars, tables
<1>3. CASE Next
  BY <1>1, <1>3, PresenceMoves, PresenceKept, PresenceApplies, PresenceSees
<1> QED BY <1>2, <1>3

\* The inductive invariant of the presence rows holds.
LEMMA PresenceInvariance == Spec => []PresenceInv
<1>1. Init => PresenceInv
  <2> SUFFICES ASSUME Init, NEW d \in Devices
               PROVE  /\ seenAt[d] <= presence[d].seen /\ presence[d].seen = 0
                      /\ applied = {} /\ Newest(d) = {}
    BY DEF PresenceInv
  <2> QED BY DEF Init, NoPresence, Newest
<1>2. IngestInv /\ PresenceInv /\ [Next]_vars => PresenceInv'
  BY PresenceStep
<1> QED BY <1>1, <1>2, Invariance, PTL DEF Spec

\* However lifecycle events and telemetry are delayed, repeated and reordered, and
\* however many requests write at the same time, the upsert of WriteLifecycle
\* changes the connection state only to that of an event than which nothing on
\* record of the device is newer.
THEOREM StaleStaysIgnored == Spec => StaleEventsIgnored
<1> DEFINE Fresh(d) ==
      presence'[d].state \notin {presence[d].state, "unknown"} =>
        \E e \in applied' : /\ e.device = d /\ e.state = presence'[d].state
                            /\ seenAt[d] <= e.at
                            /\ \A f \in applied : f.device = d => f.at <= e.at
<1>1. IngestInv /\ PresenceInv /\ [Next]_vars => [\A d \in Devices : Fresh(d)]_vars
  <2> SUFFICES ASSUME IngestInv, PresenceInv, Next, NEW d \in Devices,
                      presence'[d].state \notin {presence[d].state, "unknown"}
               PROVE  \E e \in applied' :
                        /\ e.device = d /\ e.state = presence'[d].state
                        /\ seenAt[d] <= e.at
                        /\ \A f \in applied : f.device = d => f.at <= e.at
    OBVIOUS
  <2>1. ASSUME NEW t \in Nat, presence'[d] = PresenceSeen(presence[d], t)
        PROVE  FALSE
    <3>1. presence'[d].state \in {presence[d].state, "unknown"}
      BY <2>1 DEF PresenceSeen
    <3> QED BY <3>1
  <2>2. presence'[d] # presence[d]
    OBVIOUS
  <2>3. PICK e \in LifecycleEvents :
          /\ e.device = d /\ applied' = applied \union {e}
          /\ presence'[d] = PresenceAfter(presence[d], e)
    BY <2>1, <2>2, PresenceMoves
  <2>4. presence[d].seen <= e.at /\ presence'[d].state = e.state
    BY <2>3 DEF PresenceAfter
  <2>5. /\ e.at \in Nat /\ presence[d].seen \in Nat /\ seenAt[d] \in Nat
        /\ \A f \in applied : f.at \in Nat
    BY IngestAssumption DEF LifecycleAssumption, IngestInv, TypeOK
  <2>6. /\ seenAt[d] <= presence[d].seen
        /\ \A f \in applied : f.device = d => f.at <= presence[d].seen
    BY DEF PresenceInv
  <2>7. seenAt[d] <= e.at /\ \A f \in applied : f.device = d => f.at <= e.at
    BY <2>4, <2>5, <2>6
  <2> QED BY <2>3, <2>4, <2>7
<1> QED BY <1>1, Invariance, PresenceInvariance, PTL DEF Spec, StaleEventsIgnored

\* A device whose newest lifecycle events are connects, not older than its last
\* telemetry, is shown online, whatever was delivered in whatever order.
THEOREM ConnectionIsApplied == Spec => []ConnectedIsApplied
<1>1. IngestInv /\ PresenceInv => ConnectedIsApplied
  <2> SUFFICES ASSUME IngestInv, PresenceInv, NEW d \in Devices, Newest(d) # {},
                      \A e \in Newest(d) : e.state = "online" /\ seenAt[d] <= e.at
               PROVE  presence[d].state = "online"
    BY DEF ConnectedIsApplied
  <2>1. PICK e \in Newest(d) : presence[d].state = e.state \/ e.at < seenAt[d]
    BY DEF PresenceInv
  <2>2. e.at \in Nat /\ seenAt[d] \in Nat
    BY IngestAssumption DEF LifecycleAssumption, IngestInv, TypeOK, Newest
  <2> QED BY <2>1, <2>2
<1> QED BY <1>1, Invariance, PresenceInvariance, PTL
===============================================================================
