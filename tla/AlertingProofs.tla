---------------------------- MODULE AlertingProofs ----------------------------
(***************************************************************************)
(* Proofs about Alerting, for any candidates, keys, alerts and number of   *)
(* concurrent requests.                                                    *)
(***************************************************************************)
EXTENDS Alerting, FiniteSetTheorems, TLAPS

\* The empty request and the rows an intake builds are well typed.
LEMMA DataTypes ==
  /\ NoAlert \in Rows
  /\ Idle \in Requests
  /\ \A c \in Candidates : Created(c) \in Rows
  /\ \A row \in Rows, c \in Candidates :
       Updated(row, c) \in Rows /\ Resolved(row, c) \in Rows
  /\ \A row \in Rows : Resolved(row, None) \in Rows
<1>1. NoAlert \in Rows
  BY DEF NoAlert, Rows
<1>2. Idle \in Requests
  BY <1>1, AlertingAssumption DEF Idle, Requests
<1>3. \A c \in Candidates : Created(c) \in Rows
  BY AlertingAssumption DEF Created, NoAlert, Rows
<1>4. \A row \in Rows, c \in Candidates :
        Updated(row, c) \in Rows /\ Resolved(row, c) \in Rows
  <2> SUFFICES ASSUME NEW row \in Rows, NEW c \in Candidates
               PROVE  Updated(row, c) \in Rows /\ Resolved(row, c) \in Rows
    OBVIOUS
  <2>1. row.count + 1 \in Nat
    BY DEF Rows
  <2>2. Updated(row, c) \in Rows
    BY <2>1 DEF Updated, Rows
  <2>3. Resolved(row, c) \in Rows
    BY DEF Resolved, Rows
  <2> QED BY <2>2, <2>3
<1>5. \A row \in Rows : Resolved(row, None) \in Rows
  BY DEF Resolved, Rows
<1> QED BY <1>1, <1>2, <1>3, <1>4, <1>5

\* How each kind of step changes the requests: one of them, to a well-typed
\* request.
LEMMA TypeStep ==
  ASSUME AlertingInv, [Next]_vars
  PROVE  TypeOK'
<1> USE DEF AlertIds
<1>0. /\ TypeOK
      /\ \A h \in Handlers : reqs[h] \in Requests
      /\ \A a \in AlertIds : alerts[a] \in Rows
      /\ \A h \in Handlers : RequestInv(h)
      /\ 0 \in 0..MaxAlerts
  BY AlertingAssumption DEF AlertingInv, TypeOK
<1>1. ASSUME NEW h \in Handlers, NEW c \in Candidates, TryRecordCandidate(h, c)
      PROVE  TypeOK'
  <2>1. [Idle EXCEPT !.pc = "verify", !.cand = c] \in Requests
    BY DataTypes DEF Requests
  <2> QED BY <1>0, <1>1, <2>1 DEF TryRecordCandidate, Begin, TypeOK, Idle
<1>2. ASSUME NEW h \in Handlers, VerifyCandidate(h) PROVE TypeOK'
  <2>1. [reqs[h] EXCEPT !.pc = "lookup",
                        !.healthy = KeyOf[reqs[h].cand] \notin unhealthy] \in Requests
    BY <1>0 DEF Requests
  <2> QED BY <1>0, <1>2, <2>1 DEF VerifyCandidate, Goto, TypeOK, Requests
<1>3. ASSUME NEW h \in Handlers, GetActiveAlertByKey(h) PROVE TypeOK'
  <2> DEFINE r == reqs[h]
  <2>1. r \in Requests /\ r.cand \in Candidates /\ r.pc = "lookup"
    BY <1>0, <1>3 DEF GetActiveAlertByKey, At, RequestInv, TypeOK
  <2>2. UNCHANGED <<unhealthy, recorded, alerts, events, solo>>
    BY <1>3 DEF GetActiveAlertByKey, Goto
  <2>3. \E s \in Requests : /\ reqs' = [reqs EXCEPT ![h] = s]
                            /\ s.pc \in {"save", "event"} => s.id \in AlertIds
    <3>1. CASE Goto(h, [r EXCEPT !.pc = "done"])
      <4> DEFINE s == [r EXCEPT !.pc = "done"]
      <4>1. s \in Requests /\ s.pc = "done"
        BY <2>1 DEF Requests
      <4> QED BY <3>1, <4>1 DEF Goto
    <3>2. CASE Goto(h, [r EXCEPT !.pc = "create", !.row = Created(r.cand),
                                 !.type = "created"])
      <4> DEFINE s == [r EXCEPT !.pc = "create", !.row = Created(r.cand),
                                !.type = "created"]
      <4>1. s \in Requests /\ s.pc = "create"
        BY <2>1, DataTypes DEF Requests
      <4> QED BY <3>2, <4>1 DEF Goto
    <3>3. ASSUME NEW a \in AlertIds,
                 Goto(h, [r EXCEPT !.pc = "save", !.id = a,
                            !.row = IF r.healthy THEN Resolved(alerts[a], r.cand)
                                                 ELSE Updated(alerts[a], r.cand),
                            !.type = IF r.healthy THEN "resolved" ELSE "updated"])
          PROVE  \E s \in Requests : /\ reqs' = [reqs EXCEPT ![h] = s]
                                     /\ s.pc \in {"save", "event"} => s.id \in AlertIds
      <4>1. (IF r.healthy THEN Resolved(alerts[a], r.cand)
                          ELSE Updated(alerts[a], r.cand)) \in Rows
        BY <1>0, <2>1, DataTypes
      <4>2. a \in 0..MaxAlerts
        BY AlertingAssumption
      <4> DEFINE s == [r EXCEPT !.pc = "save", !.id = a,
                          !.row = IF r.healthy THEN Resolved(alerts[a], r.cand)
                                               ELSE Updated(alerts[a], r.cand),
                          !.type = IF r.healthy THEN "resolved" ELSE "updated"]
      <4>3. s \in Requests /\ s.id = a
        BY <2>1, <4>1, <4>2 DEF Requests
      <4> QED BY <3>3, <4>3 DEF Goto
    <3> QED BY <1>3, <3>1, <3>2, <3>3 DEF GetActiveAlertByKey, ActiveOf
  <2> QED BY <1>0, <2>2, <2>3 DEF TypeOK
<1>4. ASSUME NEW h \in Handlers, CreateAlert(h) PROVE TypeOK'
  <2>1. PICK a \in AlertIds :
          /\ alerts' = [alerts EXCEPT ![a] = reqs[h].row]
          /\ Goto(h, [reqs[h] EXCEPT !.pc = "event", !.id = a])
          /\ UNCHANGED <<unhealthy, recorded, events>>
    BY <1>4 DEF CreateAlert
  <2>2. a \in 0..MaxAlerts
    BY AlertingAssumption
  <2>3. [reqs[h] EXCEPT !.pc = "event", !.id = a] \in Requests /\ reqs[h].row \in Rows
    BY <1>0, <2>2 DEF Requests
  <2> QED BY <1>0, <2>1, <2>3 DEF Goto, TypeOK, Requests
<1>5. ASSUME NEW h \in Handlers, SaveAlert(h) PROVE TypeOK'
  <2>1. [reqs[h] EXCEPT !.pc = "event"] \in Requests /\ reqs[h].row \in Rows
    BY <1>0 DEF Requests
  <2> QED BY <1>0, <1>5, <2>1 DEF SaveAlert, At, Goto, TypeOK, Requests
<1>6. ASSUME NEW h \in Handlers, RecordAlertEvent(h) PROVE TypeOK'
  <2>1. [reqs[h] EXCEPT !.pc = "done"] \in Requests
    BY <1>0 DEF Requests
  <2>2. events' \subseteq Events
    BY <1>0, <1>6 DEF RecordAlertEvent, At, TypeOK, Events, Requests
  <2> QED BY <1>0, <1>6, <2>1, <2>2 DEF RecordAlertEvent, Goto, TypeOK, Requests
<1>7. ASSUME NEW h \in Handlers, NEW a \in AlertIds, NEW row \in Rows, loadAlert(h, a, row)
      PROVE  TypeOK'
  <2>1. a \in 0..MaxAlerts
    BY AlertingAssumption
  <2>2. [Idle EXCEPT !.pc = "save", !.id = a, !.row = row] \in Requests
    BY <2>1, DataTypes DEF Requests
  <2> QED BY <1>0, <1>7, <2>2, DataTypes DEF loadAlert, Begin, TypeOK, Requests
<1>8. ASSUME NEW h \in Handlers, UserAction(h) PROVE TypeOK'
  <2>1. PICK a \in AlertIds :
          AcknowledgeAlert(h, a) \/ SnoozeAlert(h, a) \/ ResolveAlert(h, a)
    BY <1>8 DEF UserAction
  <2>2. [alerts[a] EXCEPT !.marked = TRUE] \in Rows /\ Resolved(alerts[a], None) \in Rows
    BY <1>0, DataTypes DEF Rows
  <2> QED BY <1>7, <2>1, <2>2 DEF AcknowledgeAlert, SnoozeAlert, ResolveAlert
<1>9. ASSUME NEW h \in Handlers, Return(h) PROVE TypeOK'
  BY <1>0, <1>9, DataTypes DEF Return, Goto, TypeOK, Idle
<1>10. ASSUME NEW k \in Keys, Change(k) PROVE TypeOK'
  BY <1>0, <1>10 DEF Change, TypeOK
<1>11. CASE UNCHANGED vars
  BY <1>0, <1>11 DEF vars, TypeOK
<1> QED BY <1>1, <1>2, <1>3, <1>4, <1>5, <1>6, <1>8, <1>9, <1>10, <1>11
     DEF Next, IntakeCandidate

\* What any step of a request leaves in place: the other requests, the
\* candidates on record, the keys of alerts, and all events but its own.
Frame(h) ==
  /\ \A g \in Others(h) : reqs'[g] = reqs[g]
  /\ reqs'[h].cand \in {None, reqs[h].cand} \/ reqs'[h].cand \notin recorded
  /\ recorded \subseteq recorded' /\ recorded' \subseteq Candidates
  /\ \A k \in Keys : Counted(k) \subseteq Counted(k)'
  /\ \A a \in AlertIds : alerts[a] = NoAlert \/ alerts'[a].key = alerts[a].key
  /\ \A e \in events' : e \in events \/ e.cand = reqs[h].cand

\* Candidates are counted for good.
LEMMA CountingStep ==
  ASSUME NEW h \in Handlers, NEW r,
         reqs \in [Handlers -> Requests], reqs' = [reqs EXCEPT ![h] = r],
         recorded \subseteq recorded',
         r.pc \in {"verify", "lookup"} =>
           \/ r.cand \notin recorded
           \/ r.cand = reqs[h].cand /\ reqs[h].pc \in {"verify", "lookup"}
  PROVE  \A k \in Keys : Counted(k) \subseteq Counted(k)'
<1> SUFFICES ASSUME NEW k \in Keys, NEW c \in Counted(k) PROVE c \in Counted(k)'
  OBVIOUS
<1>1. c \in recorded /\ KeyOf[c] = k /\ c \notin Pending
  BY DEF Counted, Raised
<1>2. ASSUME NEW g \in Handlers, reqs'[g].pc \in {"verify", "lookup"}
      PROVE  reqs'[g].cand # c
  <2>1. CASE g = h
    BY <1>1, <1>2, <2>1 DEF Pending
  <2>2. CASE g # h
    BY <1>1, <1>2, <2>2 DEF Pending
  <2> QED BY <2>1, <2>2
<1> QED BY <1>1, <1>2 DEF Counted, Raised, Pending

\* A row that is backed stays so.
LEMMA BackedStays ==
  ASSUME NEW row, RowIsBacked(row), row \in Rows,
         recorded \subseteq recorded', recorded' \subseteq Candidates,
         \A k \in Keys : Counted(k) \subseteq Counted(k)'
  PROVE  RowIsBacked(row)'
<1>1. Counted(row.key) \subseteq Counted(row.key)'
  BY DEF RowIsBacked
<1>2. IsFiniteSet(Counted(row.key)') /\ IsFiniteSet(Counted(row.key))
  BY <1>1, FS_Subset, AlertingAssumption DEF Counted, Raised
<1>3. /\ Cardinality(Counted(row.key)) \in Nat
      /\ Cardinality(Counted(row.key)') \in Nat
      /\ Cardinality(Counted(row.key)) <= Cardinality(Counted(row.key)')
  BY <1>1, <1>2, FS_Subset, FS_CardinalityType
<1>4. row.count \in Nat
  BY DEF Rows
<1> QED BY <1>3, <1>4 DEF RowIsBacked, Raised

\* No two requests have the same candidate.
LEMMA CandidatesApart ==
  ASSUME AlertingInv, NEW h \in Handlers, Frame(h)
  PROVE  \A f \in Handlers : \A g \in Others(f) :
           reqs'[f].cand # None => reqs'[g].cand # reqs'[f].cand
<1>1. \A f \in Handlers : reqs[f].cand # None =>
        /\ reqs[f].cand \in recorded
        /\ \A g \in Others(f) : reqs[g].cand # reqs[f].cand
  BY DEF AlertingInv, RequestInv
<1> QED BY <1>1 DEF Frame, Others

\* The requests that do not move keep what they know.
LEMMA OthersKeep ==
  ASSUME AlertingInv, NEW h \in Handlers, Frame(h), NEW g \in Others(h)
  PROVE  RequestInv(g)'
<1> DEFINE r == reqs[g]
<1>1. g \in Handlers /\ reqs'[g] = r /\ RequestInv(g) /\ r \in Requests
  BY DEF Frame, Others, AlertingInv, TypeOK
<1>2. r.cand # None =>
        /\ r.cand \in recorded'
        /\ \A f \in Others(g) : reqs'[f].cand # r.cand
        /\ r.pc # "done" => \A e \in events' : e.cand # r.cand
  <2>1. r.cand # None => reqs[h].cand # r.cand
    BY <1>1 DEF RequestInv, Others
  <2> QED BY <1>1, <2>1, CandidatesApart DEF RequestInv, Frame
<1>3. r.pc \in {"create", "save"} => RowIsBacked(r.row)'
  <2> SUFFICES ASSUME r.pc \in {"create", "save"} PROVE RowIsBacked(r.row)'
    OBVIOUS
  <2>1. PICK row \in Rows : row = r.row
    BY <1>1 DEF Requests
  <2>2. RowIsBacked(row)
    BY <1>1, <2>1 DEF RequestInv
  <2>3. RowIsBacked(row)'
    BY <2>2, BackedStays DEF Frame
  <2> QED BY <1>1, <2>1, <2>3 DEF RowIsBacked
<1>4. /\ r.pc = "save" => alerts'[r.id].key = r.row.key
      /\ r.pc = "event" /\ r.cand # None => alerts'[r.id].key = KeyOf[r.cand]
  <2>1. r.pc \in {"save", "event"} => r.id \in AlertIds
    BY <1>1 DEF AlertingInv, TypeOK
  <2>2. r.pc = "save" => r.row.key \in Keys
    BY <1>1 DEF RequestInv, RowIsBacked
  <2>3. r.cand # None => KeyOf[r.cand] \in Keys
    BY <1>1, AlertingAssumption DEF Requests
  <2>4. NoAlert.key \notin Keys
    BY AlertingAssumption DEF NoAlert
  <2> QED BY <1>1, <2>1, <2>2, <2>3, <2>4 DEF RequestInv, Frame
<1> QED BY <1>1, <1>2, <1>3, <1>4 DEF RequestInv

\* The invariant without types and without what a lone request knows.
Tables ==
  /\ OneActivePerKey
  /\ OneOutcomePerCandidate
  /\ \A e \in events : e.cand \in recorded
  /\ AlertsInv

\* ... and with what every request carries.
Core == Tables /\ \A h \in Handlers : RequestInv(h)

\* A step of one request need only restore that request's part and the tables.
LEMMA RequestStep ==
  ASSUME AlertingInv, NEW h \in Handlers, Frame(h), RequestInv(h)', Tables'
  PROVE  Core'
BY OthersKeep DEF Others, Core

\* An event names an alert that is there, and it keeps its key.
LEMMA OutcomesStay ==
  ASSUME AlertingInv, NEW h \in Handlers, Frame(h), UNCHANGED events
  PROVE  OneOutcomePerCandidate' /\ \A e \in events' : e.cand \in recorded'
<1>1. ASSUME NEW e \in events PROVE alerts'[e.alert].key = KeyOf[e.cand]
  <2>1. e.alert \in AlertIds /\ e.cand \in Candidates
    BY DEF AlertingInv, TypeOK, Events
  <2>2. alerts[e.alert].key = KeyOf[e.cand] /\ KeyOf[e.cand] \in Keys
    BY <2>1, AlertingAssumption DEF AlertingInv, OneOutcomePerCandidate
  <2>3. NoAlert.key \notin Keys
    BY AlertingAssumption DEF NoAlert
  <2> QED BY <2>1, <2>2, <2>3 DEF Frame
<1> QED BY <1>1 DEF AlertingInv, OneOutcomePerCandidate, Frame

\* Steps that do not write alerts keep them backed.
LEMMA AlertsStay ==
  ASSUME AlertingInv, NEW h \in Handlers, Frame(h), UNCHANGED alerts
  PROVE  AlertsInv'
<1>1. ASSUME NEW a \in AlertIds
      PROVE  \/ alerts'[a] = NoAlert
             \/ alerts'[a].status \in {"active", "resolved"} /\ RowIsBacked(alerts[a])'
  <2>1. CASE alerts[a] = NoAlert
    BY <2>1
  <2>2. CASE alerts[a] # NoAlert
    <3>1. PICK row \in Rows : row = alerts[a]
      BY DEF AlertingInv, TypeOK
    <3>2. RowIsBacked(row) /\ row.status \in {"active", "resolved"}
      BY <2>2, <3>1 DEF AlertingInv, AlertsInv
    <3>3. RowIsBacked(row)'
      BY <3>2, BackedStays DEF Frame
    <3> QED BY <3>1, <3>2, <3>3 DEF RowIsBacked
  <2> QED BY <2>1, <2>2
<1> QED BY <1>1 DEF AlertsInv

\* Steps that write neither alerts nor events keep the tables in order.
LEMMA TablesStay ==
  ASSUME AlertingInv, NEW h \in Handlers, Frame(h), UNCHANGED <<alerts, events>>
  PROVE  Tables'
<1>1. OneActivePerKey'
  BY DEF AlertingInv, OneActivePerKey
<1> QED BY <1>1, AlertsStay, OutcomesStay DEF Tables

\* Storing a backed row that the partial unique index accepts keeps them too.
LEMMA TablesStore ==
  ASSUME AlertingInv, NEW h \in Handlers, Frame(h), UNCHANGED events,
         NEW a \in AlertIds, NEW row \in Rows, alerts' = [alerts EXCEPT ![a] = row],
         RowIsBacked(row), row.status \in {"active", "resolved"}, OneActiveKey(a, row)
  PROVE  Tables'
<1>0. alerts \in [AlertIds -> Rows]
  BY DEF AlertingInv, TypeOK
<1>1. RowIsBacked(row)'
  BY BackedStays DEF Frame
<1>2. ASSUME NEW b \in AlertIds
      PROVE  \/ alerts'[b] = NoAlert
             \/ alerts'[b].status \in {"active", "resolved"} /\ RowIsBacked(alerts[b])'
  <2>1. CASE b = a
    BY <1>0, <1>1, <2>1 DEF RowIsBacked
  <2>2. CASE b # a /\ alerts[b] = NoAlert
    BY <1>0, <2>2
  <2>3. CASE b # a /\ alerts[b] # NoAlert
    <3>1. PICK old \in Rows : old = alerts[b] /\ old = alerts'[b]
      BY <1>0, <2>3
    <3>2. RowIsBacked(old) /\ old.status \in {"active", "resolved"}
      BY <2>3, <3>1 DEF AlertingInv, AlertsInv
    <3>3. RowIsBacked(old)'
      BY <3>2, BackedStays DEF Frame
    <3> QED BY <3>1, <3>2, <3>3 DEF RowIsBacked
  <2> QED BY <2>1, <2>2, <2>3
<1>3. OneActivePerKey'
  BY <1>0 DEF AlertingInv, OneActivePerKey, OneActiveKey, ActiveOf
<1> QED BY <1>2, <1>3, OutcomesStay DEF Tables, AlertsInv

\* A candidate that was not on record goes on record with its request.
LEMMA TryRecordStep ==
  ASSUME AlertingInv, NEW h \in Handlers, NEW c \in Candidates, TryRecordCandidate(h, c)
  PROVE  Core'
<1> DEFINE r == [Idle EXCEPT !.pc = "verify", !.cand = c]
<1>1. reqs \in [Handlers -> Requests] /\ recorded \subseteq Candidates
  BY DEF AlertingInv, TypeOK
<1>2. /\ c \notin recorded /\ recorded' = recorded \union {c}
      /\ reqs' = [reqs EXCEPT ![h] = r]
      /\ UNCHANGED <<alerts, events>>
  BY DEF TryRecordCandidate, Begin
<1>3. r.pc = "verify" /\ r.cand = c /\ c # None
  BY AlertingAssumption DEF Idle
<1>4. \A k \in Keys : Counted(k) \subseteq Counted(k)'
  BY <1>1, <1>2, <1>3, CountingStep
<1>5. Frame(h)
  BY <1>1, <1>2, <1>3, <1>4 DEF Frame, Others
<1>6. RequestInv(h)'
  BY <1>1, <1>2, <1>3, <1>5, CandidatesApart DEF RequestInv, AlertingInv
<1> QED BY <1>2, <1>5, <1>6, TablesStay, RequestStep

\* A step of one request that touches neither tables nor the candidate.
LEMMA MoveFrame ==
  ASSUME AlertingInv, NEW h \in Handlers, NEW r, reqs' = [reqs EXCEPT ![h] = r],
         r.cand \in {None, reqs[h].cand},
         r.pc \in {"verify", "lookup"} =>
           r.cand = reqs[h].cand /\ reqs[h].pc \in {"verify", "lookup"},
         UNCHANGED recorded,
         \A e \in events' : e \in events \/ e.cand = reqs[h].cand,
         \A a \in AlertIds : alerts[a] = NoAlert \/ alerts'[a].key = alerts[a].key
  PROVE  Frame(h)
<1>1. reqs \in [Handlers -> Requests] /\ recorded \subseteq Candidates
  BY DEF AlertingInv, TypeOK
<1>2. \A k \in Keys : Counted(k) \subseteq Counted(k)'
  BY <1>1, CountingStep
<1> QED BY <1>1, <1>2 DEF Frame, Others

\* The verifier's answer changes nothing else.
LEMMA VerifyStep ==
  ASSUME AlertingInv, NEW h \in Handlers, VerifyCandidate(h)
  PROVE  Core'
<1> DEFINE r == [reqs[h] EXCEPT !.pc = "lookup",
                                !.healthy = KeyOf[reqs[h].cand] \notin unhealthy]
<1>1. reqs \in [Handlers -> Requests] /\ reqs[h] \in Requests /\ reqs[h].pc = "verify"
  BY DEF AlertingInv, TypeOK, VerifyCandidate, At
<1>2. reqs' = [reqs EXCEPT ![h] = r] /\ UNCHANGED <<recorded, alerts, events>>
  BY DEF VerifyCandidate, Goto
<1>3. r.pc = "lookup" /\ r.cand = reqs[h].cand
  BY <1>1 DEF Requests
<1>4. Frame(h)
  BY <1>1, <1>2, <1>3, MoveFrame
<1>5. RequestInv(h)'
  BY <1>1, <1>2, <1>3, <1>4, CandidatesApart DEF RequestInv, AlertingInv
<1> QED BY <1>2, <1>4, <1>5, TablesStay, RequestStep

\* A request that returns drops what it carried.
LEMMA ReturnStep ==
  ASSUME AlertingInv, NEW h \in Handlers, Return(h)
  PROVE  Core'
<1>1. /\ reqs \in [Handlers -> Requests] /\ reqs' = [reqs EXCEPT ![h] = Idle]
      /\ UNCHANGED <<recorded, alerts, events>>
  BY DEF AlertingInv, TypeOK, Return, Goto
<1>2. Idle.pc = "idle" /\ Idle.cand = None
  BY DEF Idle
<1>3. Frame(h)
  BY <1>1, <1>2, MoveFrame
<1>4. RequestInv(h)'
  BY <1>1, <1>2 DEF RequestInv
<1> QED BY <1>1, <1>3, <1>4, TablesStay, RequestStep

\* The event of a candidate is its first.
LEMMA RecordEventStep ==
  ASSUME AlertingInv, NEW h \in Handlers, RecordAlertEvent(h)
  PROVE  Core'
<1> DEFINE r == [reqs[h] EXCEPT !.pc = "done"]
           e == [alert |-> reqs[h].id, cand |-> reqs[h].cand, type |-> reqs[h].type]
<1>1. /\ reqs \in [Handlers -> Requests] /\ reqs[h] \in Requests
      /\ reqs[h].pc = "event" /\ RequestInv(h)
  BY DEF AlertingInv, TypeOK, RecordAlertEvent, At
<1>2. /\ reqs' = [reqs EXCEPT ![h] = r] /\ UNCHANGED <<recorded, alerts>>
      /\ events' = IF reqs[h].cand = None THEN events ELSE events \union {e}
  BY DEF RecordAlertEvent, Goto
<1>3. r.pc = "done" /\ r.cand = reqs[h].cand
  BY <1>1 DEF Requests
<1>4. Frame(h)
  <2>1. \A f \in events' : f \in events \/ f.cand = reqs[h].cand
    BY <1>2
  <2>2. \A a \in AlertIds : alerts[a] = NoAlert \/ alerts'[a].key = alerts[a].key
    BY <1>2
  <2>3. r.pc \notin {"verify", "lookup"} /\ r.cand \in {None, reqs[h].cand}
    BY <1>3
  <2>4. PICK s : s = r
    OBVIOUS
  <2> QED BY <1>2, <2>1, <2>2, <2>3, <2>4, MoveFrame
<1>5. RequestInv(h)'
  BY <1>1, <1>2, <1>3, <1>4, CandidatesApart DEF RequestInv
<1>6. Tables'
  <2>1. OneActivePerKey'
    BY <1>2 DEF AlertingInv, OneActivePerKey
  <2>2. AlertsInv'
    BY <1>2, <1>4, AlertsStay
  <2>3. reqs[h].cand # None =>
          /\ alerts[e.alert].key = KeyOf[e.cand]
          /\ \A f \in events : f.cand # e.cand
          /\ e.cand \in recorded
    BY <1>1 DEF RequestInv
  <2>4. OneOutcomePerCandidate' /\ \A f \in events' : f.cand \in recorded'
    BY <1>2, <2>3 DEF AlertingInv, OneOutcomePerCandidate
  <2> QED BY <2>1, <2>2, <2>4 DEF Tables
<1> QED BY <1>4, <1>5, <1>6, RequestStep

\* A candidate that has been looked up counts as one more occurrence.
LEMMA CountsOne ==
  ASSUME AlertingInv, NEW h \in Handlers, NEW r, reqs' = [reqs EXCEPT ![h] = r],
         reqs[h].pc = "lookup", r.pc \notin {"verify", "lookup"}, UNCHANGED recorded,
         NEW c, c = reqs[h].cand, NEW k, k = KeyOf[c]
  PROVE  /\ c \in Raised(k)' /\ k \in Keys
         /\ Cardinality(Counted(k)) \in Nat /\ Cardinality(Counted(k)') \in Nat
         /\ Cardinality(Counted(k)) + 1 <= Cardinality(Counted(k)')
<1>1. /\ reqs \in [Handlers -> Requests] /\ recorded \subseteq Candidates
      /\ c \in recorded /\ \A g \in Others(h) : reqs[g].cand # c
  BY DEF AlertingInv, TypeOK, RequestInv
<1>2. c \in Raised(k)' /\ k \in Keys
  BY <1>1, AlertingAssumption DEF Raised
<1>3. c \notin Counted(k)
  BY <1>1 DEF Counted, Pending
<1>4. Counted(k) \subseteq Counted(k)'
  BY <1>1, <1>2, CountingStep
<1>5. c \in Counted(k)'
  BY <1>1, <1>2 DEF Counted, Pending, Others
<1>6. IsFiniteSet(Counted(k)) /\ IsFiniteSet(Counted(k)')
  BY <1>1, FS_Subset, AlertingAssumption DEF Counted, Raised
<1>7. /\ Cardinality(Counted(k) \union {c}) = Cardinality(Counted(k)) + 1
      /\ IsFiniteSet(Counted(k) \union {c})
  BY <1>3, <1>6, FS_AddElement
<1>8. Cardinality(Counted(k) \union {c}) <= Cardinality(Counted(k)')
  <2>1. (Counted(k) \union {c}) \in SUBSET (Counted(k)')
    BY <1>4, <1>5
  <2> QED BY <1>6, <2>1, FS_Subset
<1>9. Cardinality(Counted(k)) \in Nat /\ Cardinality(Counted(k)') \in Nat
  BY <1>6, FS_CardinalityType
<1> QED BY <1>2, <1>7, <1>8, <1>9

\* The row an intake is about to write is backed, its own candidate included.
LEMMA LookupStep ==
  ASSUME AlertingInv, NEW h \in Handlers, GetActiveAlertByKey(h)
  PROVE  Core'
<1>1. PICK r \in Requests : r = reqs[h]
  BY DEF AlertingInv, TypeOK
<1>2. PICK c \in Candidates : c = r.cand
  BY <1>1 DEF AlertingInv, GetActiveAlertByKey, At, RequestInv, Requests
<1>3. PICK k \in Keys : k = KeyOf[c]
  BY <1>2, AlertingAssumption
<1>4. /\ reqs \in [Handlers -> Requests] /\ r.pc = "lookup" /\ RequestInv(h)
      /\ UNCHANGED <<recorded, alerts, events>> /\ c # None
  BY <1>1, AlertingAssumption DEF AlertingInv, TypeOK, GetActiveAlertByKey, At
<1>5. ASSUME NEW s \in Requests, reqs' = [reqs EXCEPT ![h] = s], s.cand = c,
             s.pc \in {"create", "save", "done"}, NEW row, row = s.row,
             s.pc # "done" =>
               row.status \in {"active", "resolved"} /\ RowIsBacked(row)' /\ row.key = k,
             s.pc = "save" => alerts[s.id].key = k
      PROVE  Core'
  <2>1. Frame(h)
    BY <1>1, <1>2, <1>4, <1>5, MoveFrame
  <2>2. reqs'[h] = s
    BY <1>4, <1>5
  <2>3. RequestInv(h)'
    BY <1>1, <1>2, <1>3, <1>4, <1>5, <2>1, <2>2, CandidatesApart
       DEF RequestInv, RowIsBacked
  <2> QED BY <1>4, <2>1, <2>3, TablesStay, RequestStep
<1>6. ASSUME NEW s \in Requests, reqs' = [reqs EXCEPT ![h] = s],
             s.pc \notin {"verify", "lookup"}
      PROVE  /\ c \in Raised(k)' /\ k \in Keys
             /\ Cardinality(Counted(k)) \in Nat /\ Cardinality(Counted(k)') \in Nat
             /\ Cardinality(Counted(k)) + 1 <= Cardinality(Counted(k)')
  BY <1>1, <1>2, <1>3, <1>4, <1>6, CountsOne
<1>7. CASE Goto(h, [r EXCEPT !.pc = "done"])
  <2>1. PICK s : s = [r EXCEPT !.pc = "done"]
    OBVIOUS
  <2>2. s \in Requests /\ s.pc = "done" /\ s.cand = c
    BY <1>2, <2>1 DEF Requests
  <2>3. reqs' = [reqs EXCEPT ![h] = s]
    BY <1>7, <2>1 DEF Goto
  <2> QED BY <1>5, <2>2, <2>3
<1>8. CASE Goto(h, [r EXCEPT !.pc = "create", !.row = Created(c), !.type = "created"])
  <2>1. PICK row \in Rows : row = Created(c)
    BY <1>2, DataTypes
  <2>2. PICK s : s = [r EXCEPT !.pc = "create", !.row = row, !.type = "created"]
    OBVIOUS
  <2>3. s \in Requests /\ s.pc = "create" /\ s.cand = c /\ s.row = row
    BY <1>2, <2>1, <2>2 DEF Requests
  <2>4. reqs' = [reqs EXCEPT ![h] = s]
    BY <1>8, <2>1, <2>2 DEF Goto
  <2>5. /\ row.key = k /\ row.first = c /\ row.last = c /\ row.count = 1
        /\ row.status = "active"
    BY <1>3, <2>1 DEF Created, NoAlert
  <2>6. RowIsBacked(row)'
    <3>1. /\ c \in Raised(k)' /\ Cardinality(Counted(k)) \in Nat
          /\ Cardinality(Counted(k)') \in Nat
          /\ Cardinality(Counted(k)) + 1 <= Cardinality(Counted(k)')
      BY <1>6, <2>3, <2>4
    <3>2. row.count <= Cardinality(Counted(k)')
      BY <2>5, <3>1
    <3> QED BY <2>5, <3>1, <3>2 DEF RowIsBacked
  <2> QED BY <1>5, <2>3, <2>4, <2>5, <2>6
<1>9. ASSUME NEW a \in ActiveOf(k),
             Goto(h, [r EXCEPT !.pc = "save", !.id = a,
                        !.row = IF r.healthy THEN Resolved(alerts[a], c)
                                             ELSE Updated(alerts[a], c),
                        !.type = IF r.healthy THEN "resolved" ELSE "updated"])
      PROVE  Core'
  <2>1. PICK old \in Rows : old = alerts[a]
    BY DEF ActiveOf, AlertingInv, TypeOK
  <2>2. PICK new : new = IF r.healthy THEN Resolved(old, c) ELSE Updated(old, c)
    OBVIOUS
  <2>3. PICK s : s = [r EXCEPT !.pc = "save", !.id = a, !.row = new,
                               !.type = IF r.healthy THEN "resolved" ELSE "updated"]
    OBVIOUS
  <2>4. /\ a \in AlertIds /\ a \in 0..MaxAlerts /\ old.key = k
        /\ old.status = "active" /\ RowIsBacked(old)
    BY <2>1, AlertingAssumption DEF ActiveOf, AlertIds, AlertingInv, AlertsInv, NoAlert
  <2>5. new \in Rows
    BY <1>2, <2>2, DataTypes
  <2>6. s \in Requests /\ s.pc = "save" /\ s.cand = c /\ s.row = new /\ s.id = a
    BY <1>2, <2>3, <2>4, <2>5 DEF Requests
  <2>7. reqs' = [reqs EXCEPT ![h] = s]
    BY <1>9, <2>1, <2>2, <2>3 DEF Goto
  <2>8. /\ new.status \in {"active", "resolved"} /\ new.key = k
        /\ new.first = old.first /\ new.last = c
        /\ new.count \in {old.count, old.count + 1}
    BY <1>4, <2>2, <2>4 DEF Resolved, Updated, Rows
  <2>9. RowIsBacked(new)'
    <3>1. old.first \in Raised(k)'
      BY <1>4, <2>4 DEF RowIsBacked, Raised
    <3>2. old.count <= Cardinality(Counted(k)) /\ old.count \in Nat
      BY <2>4 DEF RowIsBacked, Rows
    <3>3. /\ c \in Raised(k)' /\ Cardinality(Counted(k)) \in Nat
          /\ Cardinality(Counted(k)') \in Nat
          /\ Cardinality(Counted(k)) + 1 <= Cardinality(Counted(k)')
      BY <1>6, <2>6, <2>7
    <3>4. new.count <= Cardinality(Counted(k)')
      BY <2>8, <3>2, <3>3
    <3> QED BY <2>8, <3>1, <3>3, <3>4 DEF RowIsBacked
  <2> QED BY <1>5, <2>1, <2>4, <2>6, <2>7, <2>8, <2>9
<1> QED BY <1>1, <1>2, <1>3, <1>7, <1>8, <1>9 DEF GetActiveAlertByKey

\* A request that has stored its row goes on to its event.
LEMMA StoreStep ==
  ASSUME AlertingInv, NEW h \in Handlers, NEW a \in AlertIds, NEW row \in Rows,
         row = reqs[h].row, reqs[h].pc \in {"create", "save"},
         alerts[a] = NoAlert \/ alerts[a].key = row.key, OneActiveKey(a, row),
         alerts' = [alerts EXCEPT ![a] = row], NEW r \in Requests,
         r = [reqs[h] EXCEPT !.pc = "event", !.id = a],
         reqs' = [reqs EXCEPT ![h] = r], UNCHANGED <<recorded, events>>
  PROVE  Core'
<1>1. /\ reqs \in [Handlers -> Requests] /\ reqs[h] \in Requests /\ RequestInv(h)
      /\ alerts \in [AlertIds -> Rows]
  BY DEF AlertingInv, TypeOK
<1>2. r.pc = "event" /\ r.cand = reqs[h].cand /\ r.id = a
  BY <1>1 DEF Requests
<1>3. \A b \in AlertIds : alerts[b] = NoAlert \/ alerts'[b].key = alerts[b].key
  BY <1>1
<1>4. Frame(h)
  BY <1>2, <1>3, MoveFrame
<1>5. RowIsBacked(row) /\ row.status \in {"active", "resolved"}
  BY <1>1 DEF RequestInv
<1>6. Tables'
  BY <1>4, <1>5, TablesStore
<1>7. RequestInv(h)'
  <2>1. reqs'[h] = r /\ alerts'[a] = row
    BY <1>1
  <2>2. r.cand # None => row.key = KeyOf[r.cand]
    BY <1>1, <1>2 DEF RequestInv
  <2>3. r.cand # None => r.cand \in recorded /\ \A e \in events : e.cand # r.cand
    BY <1>1, <1>2 DEF RequestInv
  <2>4. r.cand # None => \A g \in Others(h) : reqs'[g].cand # r.cand
    BY <1>4, <2>1, CandidatesApart
  <2>5. PICK s : s = r /\ s.pc = "event"
    BY <1>2
  <2> QED BY ONLY <1>2, <2>1, <2>2, <2>3, <2>4, <2>5, UNCHANGED <<recorded, events>>
       DEF RequestInv
<1> QED BY <1>4, <1>6, <1>7, RequestStep

\* CreateAlert and SaveAlert store rows that way.
LEMMA CreateStep ==
  ASSUME AlertingInv, NEW h \in Handlers, CreateAlert(h)
  PROVE  Core'
<1>1. PICK a \in AlertIds :
        /\ At(h, "create")
        /\ alerts[a] = NoAlert
        /\ OneActiveKey(a, reqs[h].row)
        /\ alerts' = [alerts EXCEPT ![a] = reqs[h].row]
        /\ Goto(h, [reqs[h] EXCEPT !.pc = "event", !.id = a])
        /\ UNCHANGED <<unhealthy, recorded, events>>
  BY DEF CreateAlert
<1>2. reqs[h] \in Requests /\ a \in 0..MaxAlerts
  BY AlertingAssumption DEF AlertingInv, TypeOK, AlertIds
<1>3. PICK row \in Rows : row = reqs[h].row
  BY <1>2 DEF Requests
<1>4. PICK r \in Requests : r = [reqs[h] EXCEPT !.pc = "event", !.id = a]
  BY <1>2 DEF Requests
<1> QED BY <1>1, <1>3, <1>4, StoreStep DEF At, Goto

\* A saved row is backed whatever was stored since it was loaded.
LEMMA SaveStep ==
  ASSUME AlertingInv, NEW h \in Handlers, SaveAlert(h)
  PROVE  Core'
<1>1. /\ reqs[h] \in Requests /\ reqs[h].pc = "save" /\ reqs[h].id \in AlertIds
      /\ RequestInv(h)
  BY DEF AlertingInv, TypeOK, SaveAlert, At
<1>2. PICK row \in Rows : row = reqs[h].row
  BY <1>1 DEF Requests
<1>3. PICK a \in AlertIds : a = reqs[h].id
  BY <1>1
<1>4. [reqs[h] EXCEPT !.pc = "event"] = [reqs[h] EXCEPT !.pc = "event", !.id = a]
  BY <1>1, <1>3 DEF Requests
<1>5. PICK r \in Requests : r = [reqs[h] EXCEPT !.pc = "event", !.id = a]
  BY <1>1, <1>4 DEF Requests
<1>6. alerts[a].key = row.key
  BY <1>1, <1>2, <1>3 DEF RequestInv
<1> QED BY <1>1, <1>2, <1>3, <1>4, <1>5, <1>6, StoreStep DEF SaveAlert, Goto

\* A user's request carries a copy of a backed row.
LEMMA LoadStep ==
  ASSUME AlertingInv, NEW h \in Handlers, NEW a \in AlertIds, NEW row \in Rows,
         loadAlert(h, a, row), row.status \in {alerts[a].status, "resolved"},
         row.key = alerts[a].key, row.first = alerts[a].first,
         row.last = alerts[a].last, row.count = alerts[a].count
  PROVE  Core'
<1> DEFINE r == [Idle EXCEPT !.pc = "save", !.id = a, !.row = row]
<1>1. reqs \in [Handlers -> Requests] /\ reqs[h].pc = "idle" /\ RequestInv(h)
  BY DEF AlertingInv, TypeOK, loadAlert, Begin
<1>2. reqs' = [reqs EXCEPT ![h] = r] /\ UNCHANGED <<recorded, alerts, events>>
  BY DEF loadAlert, Begin
<1>3. r.pc = "save" /\ r.cand = None /\ r.id = a /\ r.row = row
  BY DEF Idle
<1>4. alerts[a].status \in {"active", "resolved"} /\ RowIsBacked(alerts[a])
  BY DEF loadAlert, AlertingInv, AlertsInv
<1>5. RowIsBacked(row)
  BY <1>4 DEF RowIsBacked
<1>6. Frame(h)
  <2>1. PICK s : s = r
    OBVIOUS
  <2> QED BY <1>2, <1>3, <2>1, MoveFrame
<1>7. RowIsBacked(row)'
  BY <1>5, <1>6, BackedStays DEF Frame
<1>8. RequestInv(h)'
  <2>1. reqs'[h] = r
    BY <1>1, <1>2
  <2> QED BY <1>2, <1>3, <1>4, <1>7, <2>1 DEF RequestInv, RowIsBacked
<1> QED BY <1>2, <1>6, <1>8, TablesStay, RequestStep

\* Acknowledging, snoozing and resolving change nothing a row is backed by.
LEMMA UserStep ==
  ASSUME AlertingInv, NEW h \in Handlers, UserAction(h)
  PROVE  Core'
<1>1. PICK a \in AlertIds :
        AcknowledgeAlert(h, a) \/ SnoozeAlert(h, a) \/ ResolveAlert(h, a)
  BY DEF UserAction
<1>2. alerts[a] \in Rows
  BY DEF AlertingInv, TypeOK
<1>3. CASE AcknowledgeAlert(h, a) \/ SnoozeAlert(h, a)
  <2>1. PICK row \in Rows : row = [alerts[a] EXCEPT !.marked = TRUE]
    BY <1>2 DEF Rows
  <2>2. /\ row.status = alerts[a].status /\ row.key = alerts[a].key
        /\ row.first = alerts[a].first /\ row.last = alerts[a].last
        /\ row.count = alerts[a].count
    BY <1>2, <2>1 DEF Rows
  <2> QED BY <1>3, <2>1, <2>2, LoadStep DEF AcknowledgeAlert, SnoozeAlert
<1>4. CASE ResolveAlert(h, a)
  <2>1. PICK row \in Rows : row = Resolved(alerts[a], None)
    BY <1>2, DataTypes
  <2>2. /\ row.status = "resolved" /\ row.key = alerts[a].key
        /\ row.first = alerts[a].first /\ row.last = alerts[a].last
        /\ row.count = alerts[a].count
    BY <1>2, <2>1 DEF Rows, Resolved
  <2> QED BY <1>4, <2>1, <2>2, LoadStep DEF ResolveAlert
<1> QED BY <1>1, <1>3, <1>4

\* A request that runs while another is alone is that one.
LEMMA Lone ==
  ASSUME AlertingInv, NEW h \in Handlers, reqs[h].pc # "idle", solo # None
  PROVE  solo = h /\ SoloInv(h)
BY DEF AlertingInv, SoloInv, Others

\* The first step of a request finds all others idle, or it is not alone.
LEMMA BeginSolo ==
  ASSUME AlertingInv, NEW h \in Handlers, NEW r \in Requests, Begin(h, r),
         r.pc \in {"verify", "save"}, UNCHANGED alerts,
         r.pc = "save" =>
           /\ r.cand = None
           /\ alerts[r.id].status = "resolved" => r.row.status = "resolved"
           /\ alerts[r.id].marked => r.row.marked
  PROVE  solo' # None => SoloInv(solo)'
<1> SUFFICES ASSUME solo' # None PROVE SoloInv(solo)'
  OBVIOUS
<1>1. reqs \in [Handlers -> Requests] /\ reqs' = [reqs EXCEPT ![h] = r]
  BY DEF AlertingInv, TypeOK, Begin
<1>2. solo' = h /\ \A g \in Others(h) : reqs[g].pc = "idle"
  BY DEF Begin
<1>3. reqs'[h] = r /\ \A g \in Others(h) : reqs'[g] = reqs[g]
  BY <1>1 DEF Others
<1> QED BY <1>2, <1>3 DEF SoloInv

\* A later step has to establish only what its own request then knows.
LEMMA GotoSolo ==
  ASSUME AlertingInv, NEW h \in Handlers, NEW r \in Requests, Goto(h, r),
         reqs[h].pc # "idle",
         solo = h => /\ r.pc = "save" =>
                          /\ alerts'[r.id].status = "resolved" => r.row.status = "resolved"
                          /\ alerts'[r.id].marked => r.row.marked
                     /\ r.pc = "create" => ~r.healthy /\ r.row.status = "active"
                     /\ r.pc = "save" /\ r.cand # None =>
                          /\ ActiveOf(KeyOf[r.cand])' = {r.id}
                          /\ (r.row.status = "resolved") = r.healthy
                     /\ r.pc \in {"event", "done"} /\ r.cand # None =>
                          (ActiveOf(KeyOf[r.cand])' = {}) = r.healthy
  PROVE  solo' # None => SoloInv(solo)'
<1> SUFFICES ASSUME solo' # None PROVE SoloInv(solo)'
  OBVIOUS
<1>1. /\ reqs \in [Handlers -> Requests] /\ reqs' = [reqs EXCEPT ![h] = r]
      /\ solo' = solo
  BY DEF AlertingInv, TypeOK, Goto
<1>2. solo = h /\ SoloInv(h)
  BY <1>1, Lone
<1>3. reqs'[h] = r /\ \A g \in Others(h) : reqs'[g] = reqs[g]
  BY <1>1 DEF Others
<1>4. \A g \in Others(h) : reqs'[g].pc = "idle"
  BY <1>2, <1>3 DEF SoloInv
<1> QED BY <1>1, <1>2, <1>3, <1>4 DEF SoloInv, ActiveOf

\* The lookup finds the only active alert of the key.
LEMMA LookupSolo ==
  ASSUME AlertingInv, NEW h \in Handlers, GetActiveAlertByKey(h)
  PROVE  solo' # None => SoloInv(solo)'
<1>1. PICK r \in Requests : r = reqs[h]
  BY DEF AlertingInv, TypeOK
<1>2. PICK c \in Candidates : c = r.cand
  BY <1>1 DEF AlertingInv, GetActiveAlertByKey, At, RequestInv, Requests
<1>3. PICK k \in Keys : k = KeyOf[c]
  BY <1>2, AlertingAssumption
<1>4. r.pc = "lookup" /\ UNCHANGED alerts /\ ActiveOf(k)' = ActiveOf(k)
  BY <1>1 DEF GetActiveAlertByKey, At, ActiveOf
<1>5. CASE ActiveOf(k) = {} /\ r.healthy /\ Goto(h, [r EXCEPT !.pc = "done"])
  <2>1. PICK s \in Requests : s = [r EXCEPT !.pc = "done"]
    BY DEF Requests
  <2>2. s.pc = "done" /\ s.cand = c /\ s.healthy
    BY <1>2, <1>5, <2>1 DEF Requests
  <2>3. (ActiveOf(KeyOf[s.cand])' = {}) = s.healthy
    BY <1>3, <1>4, <1>5, <2>2
  <2> QED BY <1>1, <1>4, <1>5, <2>1, <2>2, <2>3, GotoSolo
<1>6. CASE /\ ~r.healthy
           /\ Goto(h, [r EXCEPT !.pc = "create", !.row = Created(c), !.type = "created"])
  <2>1. PICK row \in Rows : row = Created(c)
    BY <1>2, DataTypes
  <2>2. PICK s \in Requests :
          s = [r EXCEPT !.pc = "create", !.row = row, !.type = "created"]
    BY DEF Requests
  <2>3. s.pc = "create" /\ ~s.healthy /\ s.row.status = "active"
    BY <1>6, <2>1, <2>2 DEF Requests, Created, NoAlert
  <2> QED BY <1>1, <1>4, <1>6, <2>1, <2>2, <2>3, GotoSolo
<1>7. ASSUME NEW a \in ActiveOf(k),
             Goto(h, [r EXCEPT !.pc = "save", !.id = a,
                        !.row = IF r.healthy THEN Resolved(alerts[a], c)
                                             ELSE Updated(alerts[a], c),
                        !.type = IF r.healthy THEN "resolved" ELSE "updated"])
      PROVE  solo' # None => SoloInv(solo)'
  <2>1. PICK old \in Rows : old = alerts[a] /\ old.status = "active" /\ old.key = k
    BY DEF ActiveOf, AlertingInv, TypeOK
  <2>2. PICK new \in Rows : new = IF r.healthy THEN Resolved(old, c) ELSE Updated(old, c)
    BY <1>2, DataTypes
  <2>3. a \in AlertIds /\ a \in 0..MaxAlerts
    BY AlertingAssumption DEF ActiveOf, AlertIds
  <2>4. PICK s \in Requests :
          s = [r EXCEPT !.pc = "save", !.id = a, !.row = new,
                        !.type = IF r.healthy THEN "resolved" ELSE "updated"]
    BY <2>3 DEF Requests
  <2>5. s.pc = "save" /\ s.id = a /\ s.row = new /\ s.cand = c /\ s.healthy = r.healthy
    BY <1>2, <2>4 DEF Requests
  <2>6. /\ new.marked = old.marked
        /\ new.status = IF r.healthy THEN "resolved" ELSE "active"
    BY <2>1, <2>2 DEF Resolved, Updated, Rows
  <2>7. ActiveOf(k) = {a}
    BY <2>1, <2>3 DEF AlertingInv, OneActivePerKey, ActiveOf
  <2>8. ActiveOf(KeyOf[s.cand])' = {s.id}
    BY <1>3, <1>4, <2>5, <2>7
  <2>9. (s.row.status = "resolved") = s.healthy
    <3>1. r.healthy \in BOOLEAN
      BY DEF Requests
    <3> QED BY <2>5, <2>6, <3>1
  <2>10. alerts'[s.id].status = "active" /\ alerts'[s.id].marked = s.row.marked
    BY <1>4, <2>1, <2>5, <2>6
  <2>11. Goto(h, s)
    BY <1>7, <2>1, <2>2, <2>4
  <2> QED BY <1>1, <1>4, <2>5, <2>8, <2>9, <2>10, <2>11, GotoSolo
<1> QED BY <1>1, <1>2, <1>3, <1>5, <1>6, <1>7 DEF GetActiveAlertByKey

\* Storing the row decides the key.
LEMMA CreateSolo ==
  ASSUME AlertingInv, NEW h \in Handlers, CreateAlert(h)
  PROVE  solo' # None => SoloInv(solo)'
<1>1. PICK a \in AlertIds :
        /\ At(h, "create")
        /\ alerts' = [alerts EXCEPT ![a] = reqs[h].row]
        /\ Goto(h, [reqs[h] EXCEPT !.pc = "event", !.id = a])
  BY DEF CreateAlert
<1>2. /\ reqs[h] \in Requests /\ a \in 0..MaxAlerts /\ alerts \in [AlertIds -> Rows]
      /\ RequestInv(h) /\ reqs[h].pc = "create"
  BY <1>1, AlertingAssumption DEF AlertingInv, TypeOK, AlertIds, At
<1>3. PICK r \in Requests : r = [reqs[h] EXCEPT !.pc = "event", !.id = a]
  BY <1>2 DEF Requests
<1>4. r.pc = "event" /\ r.cand = reqs[h].cand /\ r.healthy = reqs[h].healthy
  BY <1>2, <1>3 DEF Requests
<1>5. solo = h => (ActiveOf(KeyOf[r.cand])' = {}) = r.healthy
  <2> SUFFICES ASSUME solo = h PROVE (ActiveOf(KeyOf[r.cand])' = {}) = r.healthy
    OBVIOUS
  <2>1. h # None
    BY AlertingAssumption
  <2>2. ~r.healthy /\ reqs[h].row.status = "active" /\ reqs[h].row.key = KeyOf[r.cand]
    BY <1>2, <1>4, <2>1, Lone DEF SoloInv, RequestInv
  <2>3. a \in ActiveOf(KeyOf[r.cand])'
    BY <1>1, <1>2, <2>2 DEF ActiveOf
  <2>4. r.healthy \in BOOLEAN
    BY DEF Requests
  <2> QED BY <2>2, <2>3, <2>4
<1> QED BY <1>1, <1>2, <1>3, <1>4, <1>5, GotoSolo

\* Saving the row of the only active alert keeps or clears the key as verified.
LEMMA SaveSolo ==
  ASSUME AlertingInv, NEW h \in Handlers, SaveAlert(h)
  PROVE  solo' # None => SoloInv(solo)'
<1>1. /\ reqs[h] \in Requests /\ reqs[h].pc = "save" /\ RequestInv(h)
      /\ reqs[h].id \in AlertIds /\ alerts \in [AlertIds -> Rows]
      /\ alerts' = [alerts EXCEPT ![reqs[h].id] = reqs[h].row]
  BY DEF AlertingInv, TypeOK, SaveAlert, At
<1>2. PICK r \in Requests : r = [reqs[h] EXCEPT !.pc = "event"]
  BY <1>1 DEF Requests
<1>3. r.pc = "event" /\ r.cand = reqs[h].cand /\ r.healthy = reqs[h].healthy
  BY <1>1, <1>2 DEF Requests
<1>4. solo = h /\ r.cand # None => (ActiveOf(KeyOf[r.cand])' = {}) = r.healthy
  <2> SUFFICES ASSUME solo = h, r.cand # None
               PROVE  (ActiveOf(KeyOf[r.cand])' = {}) = r.healthy
    OBVIOUS
  <2>1. h # None
    BY AlertingAssumption
  <2>2. PICK a \in AlertIds : a = reqs[h].id
    BY <1>1
  <2>3. PICK row \in Rows : row = reqs[h].row
    BY <1>1 DEF Requests
  <2>4. PICK k : k = KeyOf[r.cand]
    OBVIOUS
  <2>5. /\ ActiveOf(k) = {a} /\ (row.status = "resolved") = r.healthy
    BY <1>1, <1>3, <2>1, <2>2, <2>3, <2>4, Lone DEF SoloInv
  <2>6. row.key = k /\ row.status \in {"active", "resolved"}
    BY <1>1, <1>3, <2>3, <2>4 DEF RequestInv
  <2>7. r.healthy \in BOOLEAN
    BY DEF Requests
  <2>8. alerts' = [alerts EXCEPT ![a] = row]
    BY <1>1, <2>2, <2>3
  <2>9. CASE row.status = "resolved"
    <3>1. ActiveOf(k)' = {}
      BY <1>1, <2>5, <2>8, <2>9 DEF ActiveOf
    <3> QED BY <2>4, <2>5, <2>7, <2>9, <3>1
  <2>10. CASE row.status = "active"
    <3>1. a \in ActiveOf(k)'
      BY <1>1, <2>6, <2>8, <2>10 DEF ActiveOf
    <3> QED BY <2>4, <2>5, <2>7, <2>10, <3>1
  <2> QED BY <2>6, <2>9, <2>10
<1>5. Goto(h, r)
  BY <1>2 DEF SaveAlert
<1> QED BY <1>1, <1>3, <1>4, <1>5, GotoSolo

\* Every step keeps what a lone request knows.
LEMMA SoloStep ==
  ASSUME AlertingInv, [Next]_vars
  PROVE  solo' # None => SoloInv(solo)'
<1>0. \A h \in Handlers : reqs[h] \in Requests
  BY DEF AlertingInv, TypeOK
<1>1. ASSUME NEW h \in Handlers, NEW c \in Candidates, TryRecordCandidate(h, c)
      PROVE  solo' # None => SoloInv(solo)'
  <2>1. PICK r \in Requests : r = [Idle EXCEPT !.pc = "verify", !.cand = c]
    BY DataTypes DEF Requests
  <2>2. r.pc = "verify"
    BY <2>1 DEF Idle
  <2> QED BY <1>1, <2>1, <2>2, BeginSolo DEF TryRecordCandidate
<1>2. ASSUME NEW h \in Handlers, VerifyCandidate(h)
      PROVE  solo' # None => SoloInv(solo)'
  <2>1. PICK r \in Requests :
          r = [reqs[h] EXCEPT !.pc = "lookup",
                              !.healthy = KeyOf[reqs[h].cand] \notin unhealthy]
    BY <1>0 DEF Requests
  <2>2. r.pc = "lookup" /\ reqs[h].pc = "verify"
    BY <1>0, <1>2, <2>1 DEF Requests, VerifyCandidate, At
  <2> QED BY <1>2, <2>1, <2>2, GotoSolo DEF VerifyCandidate
<1>3. ASSUME NEW h \in Handlers, RecordAlertEvent(h)
      PROVE  solo' # None => SoloInv(solo)'
  <2>1. PICK r \in Requests : r = [reqs[h] EXCEPT !.pc = "done"]
    BY <1>0 DEF Requests
  <2>2. /\ r.pc = "done" /\ reqs[h].pc = "event" /\ r.cand = reqs[h].cand
        /\ r.healthy = reqs[h].healthy
    BY <1>0, <1>3, <2>1 DEF Requests, RecordAlertEvent, At
  <2>3. h # None
    BY AlertingAssumption
  <2>4. solo = h /\ r.cand # None => (ActiveOf(KeyOf[r.cand]) = {}) = r.healthy
    BY <2>2, <2>3, Lone DEF SoloInv
  <2>5. solo = h /\ r.cand # None => (ActiveOf(KeyOf[r.cand])' = {}) = r.healthy
    BY <1>3, <2>4 DEF RecordAlertEvent, ActiveOf
  <2>6. Goto(h, r)
    BY <1>3, <2>1 DEF RecordAlertEvent
  <2> QED BY <2>2, <2>5, <2>6, GotoSolo
<1>4. ASSUME NEW h \in Handlers, Return(h)
      PROVE  solo' # None => SoloInv(solo)'
  <2>1. Idle.pc = "idle"
    BY DEF Idle
  <2> QED BY <1>4, <2>1, DataTypes, GotoSolo DEF Return, At
<1>5. ASSUME NEW h \in Handlers, NEW a \in AlertIds, NEW row \in Rows,
             loadAlert(h, a, row), alerts[a].status = "resolved" => row.status = "resolved",
             alerts[a].marked => row.marked
      PROVE  solo' # None => SoloInv(solo)'
  <2>1. a \in 0..MaxAlerts
    BY AlertingAssumption DEF AlertIds
  <2>2. PICK r \in Requests : r = [Idle EXCEPT !.pc = "save", !.id = a, !.row = row]
    BY <2>1, DataTypes DEF Requests
  <2>3. r.pc = "save" /\ r.cand = None /\ r.id = a /\ r.row = row
    BY <2>2 DEF Idle
  <2> QED BY <1>5, <2>2, <2>3, BeginSolo DEF loadAlert
<1>6. ASSUME NEW h \in Handlers, UserAction(h)
      PROVE  solo' # None => SoloInv(solo)'
  <2>1. PICK a \in AlertIds :
          AcknowledgeAlert(h, a) \/ SnoozeAlert(h, a) \/ ResolveAlert(h, a)
    BY <1>6 DEF UserAction
  <2>2. alerts[a] \in Rows
    BY DEF AlertingInv, TypeOK
  <2>3. /\ [alerts[a] EXCEPT !.marked = TRUE] \in Rows
        /\ [alerts[a] EXCEPT !.marked = TRUE].status = alerts[a].status
        /\ [alerts[a] EXCEPT !.marked = TRUE].marked
    BY <2>2 DEF Rows
  <2>4. /\ Resolved(alerts[a], None) \in Rows
        /\ Resolved(alerts[a], None).status = "resolved"
        /\ Resolved(alerts[a], None).marked = alerts[a].marked
    BY <2>2, DataTypes DEF Rows, Resolved
  <2> QED BY <1>5, <2>1, <2>3, <2>4 DEF AcknowledgeAlert, SnoozeAlert, ResolveAlert
<1>7. CASE UNCHANGED <<alerts, reqs, solo>>
  BY <1>7 DEF AlertingInv, SoloInv, ActiveOf
<1> QED BY <1>1, <1>2, <1>3, <1>4, <1>6, <1>7, LookupSolo, CreateSolo, SaveSolo
     DEF Next, IntakeCandidate, Change, vars

\* AlertingInv holds at the start.
LEMMA InvInit ==
  ASSUME Init PROVE AlertingInv
<1>1. TypeOK
  BY DataTypes, AlertingAssumption DEF Init, TypeOK, Idle
<1>2. \A h \in Handlers : RequestInv(h)
  BY DEF Init, RequestInv, Idle
<1>3. OneActivePerKey /\ OneOutcomePerCandidate /\ AlertsInv
  BY DEF Init, OneActivePerKey, OneOutcomePerCandidate, AlertsInv, NoAlert
<1> QED BY <1>1, <1>2, <1>3 DEF Init, AlertingInv

\* Every step preserves it.
LEMMA InvStep ==
  ASSUME AlertingInv, [Next]_vars PROVE AlertingInv'
<1>1. CASE UNCHANGED <<recorded, alerts, events, reqs>>
  <2>1. OneActivePerKey' /\ OneOutcomePerCandidate'
    BY <1>1 DEF AlertingInv, OneActivePerKey, OneOutcomePerCandidate
  <2>2. AlertsInv'
    BY <1>1 DEF AlertingInv, AlertsInv, RowIsBacked, Counted, Raised, Pending
  <2>3. ASSUME NEW h \in Handlers PROVE RequestInv(h)'
    <3>1. RequestInv(h)
      BY DEF AlertingInv
    <3>2. RowIsBacked(reqs[h].row) => RowIsBacked(reqs[h].row)'
      BY <1>1 DEF RowIsBacked, Counted, Raised, Pending
    <3> QED BY <1>1, <3>1, <3>2 DEF RequestInv
  <2>4. \A e \in events' : e.cand \in recorded'
    BY <1>1 DEF AlertingInv
  <2> QED BY <2>1, <2>2, <2>3, <2>4, TypeStep, SoloStep DEF AlertingInv
<1>2. CASE Core'
  BY <1>2, TypeStep, SoloStep DEF AlertingInv, Core, Tables
<1> QED BY <1>1, <1>2, TryRecordStep, VerifyStep, LookupStep, CreateStep, UserStep,
     SaveStep, RecordEventStep, ReturnStep DEF Next, IntakeCandidate, Change, vars

\* AlertingInv is an invariant of the service: every stored row and every row
\* in flight is backed by candidates on record, and a request without a rival
\* knows what the table holds.
THEOREM Invariance == Spec => []AlertingInv
<1>1. Init => AlertingInv
  BY InvInit
<1>2. AlertingInv /\ [Next]_vars => AlertingInv'
  BY InvStep
<1> QED BY <1>1, <1>2, PTL DEF Spec

\* The tables and the requests keep their types, and a request that writes
\* names the alert it writes.
THEOREM TypeCorrect == Spec => []TypeOK
<1>1. AlertingInv => TypeOK
  BY DEF AlertingInv
<1> QED BY <1>1, Invariance, PTL

\* No key ever has two active alerts, whatever requests interleave their
\* lookups, inserts and saves of stale rows.
THEOREM OneActive == Spec => []OneActivePerKey
<1>1. AlertingInv => OneActivePerKey
  BY DEF AlertingInv
<1> QED BY <1>1, Invariance, PTL

\* An alert counts no candidate twice, however often it is delivered and
\* wherever its intake fails.
THEOREM DistinctOccurrences == Spec => []OccurrencesAreDistinct
<1>1. AlertingInv => OccurrencesAreDistinct
  <2> SUFFICES ASSUME AlertingInv, NEW a \in AlertIds, alerts[a].status # "none"
               PROVE  /\ alerts[a].count <= Cardinality(Raised(alerts[a].key))
                      /\ {alerts[a].first, alerts[a].last} \subseteq Raised(alerts[a].key)
    BY DEF OccurrencesAreDistinct
  <2>1. PICK row \in Rows : row = alerts[a]
    BY DEF AlertingInv, TypeOK
  <2>2. RowIsBacked(row)
    BY <2>1 DEF AlertingInv, AlertsInv, NoAlert
  <2>3. Counted(row.key) \subseteq Raised(row.key) /\ Raised(row.key) \subseteq Candidates
    BY DEF Counted, Raised, AlertingInv, TypeOK
  <2>4. IsFiniteSet(Raised(row.key)) /\ IsFiniteSet(Counted(row.key))
    BY <2>3, FS_Subset, AlertingAssumption
  <2>5. /\ Cardinality(Counted(row.key)) \in Nat /\ Cardinality(Raised(row.key)) \in Nat
        /\ Cardinality(Counted(row.key)) <= Cardinality(Raised(row.key))
    BY <2>3, <2>4, FS_Subset, FS_CardinalityType
  <2>6. row.count \in Nat
    BY DEF Rows
  <2>7. row.count <= Cardinality(Raised(row.key))
    BY <2>2, <2>5, <2>6 DEF RowIsBacked
  <2> QED BY <2>1, <2>2, <2>7 DEF RowIsBacked
<1> QED BY <1>1, Invariance, PTL

\* A candidate leaves at most one event, on an alert of its own key.
THEOREM OneOutcome == Spec => []OneOutcomePerCandidate
<1>1. AlertingInv => OneOutcomePerCandidate
  BY DEF AlertingInv
<1> QED BY <1>1, Invariance, PTL

\* An intake with no request beside it leaves its key as the verifier found it,
\* whatever earlier requests left half done.
THEOREM LoneIntakeDecides == Spec => []IntakeDecides
<1>1. AlertingInv => IntakeDecides
  <2> SUFFICES ASSUME AlertingInv, NEW h \in Handlers, At(h, "done"), solo = h,
                      reqs[h].cand # None
               PROVE  (ActiveOf(KeyOf[reqs[h].cand]) = {}) = reqs[h].healthy
    BY DEF IntakeDecides
  <2>1. h # None /\ reqs[h].pc = "done"
    BY AlertingAssumption DEF At
  <2>2. SoloInv(h)
    BY <2>1 DEF AlertingInv
  <2> QED BY <2>1, <2>2 DEF SoloInv
<1> QED BY <1>1, Invariance, PTL

\* Only a request that raced another opens a resolved alert again or drops an
\* acknowledgement.
THEOREM NothingUndoneAlone == Spec => UndoneOnlyByRace
<1> DEFINE Kept == solo # None => \A a \in AlertIds :
                      /\ alerts[a].status = "resolved" => alerts'[a].status = "resolved"
                      /\ alerts[a].marked => alerts'[a].marked
<1>1. AlertingInv /\ [Next]_vars => [Kept]_vars
  <2> SUFFICES ASSUME AlertingInv, [Next]_vars, solo # None, NEW b \in AlertIds
               PROVE  /\ alerts[b].status = "resolved" => alerts'[b].status = "resolved"
                      /\ alerts[b].marked => alerts'[b].marked
    OBVIOUS
  <2>0. alerts \in [AlertIds -> Rows]
    BY DEF AlertingInv, TypeOK
  <2>1. CASE UNCHANGED alerts
    BY <2>1
  <2>2. ASSUME NEW h \in Handlers, CreateAlert(h)
        PROVE  /\ alerts[b].status = "resolved" => alerts'[b].status = "resolved"
               /\ alerts[b].marked => alerts'[b].marked
    BY <2>0, <2>2 DEF CreateAlert, NoAlert
  <2>3. ASSUME NEW h \in Handlers, SaveAlert(h)
        PROVE  /\ alerts[b].status = "resolved" => alerts'[b].status = "resolved"
               /\ alerts[b].marked => alerts'[b].marked
    <3>1. reqs[h].pc = "save" /\ alerts' = [alerts EXCEPT ![reqs[h].id] = reqs[h].row]
      BY <2>3 DEF SaveAlert, At
    <3>2. SoloInv(h)
      BY <3>1, Lone
    <3> QED BY <2>0, <3>1, <3>2 DEF SoloInv
  <2> QED BY <2>1, <2>2, <2>3 DEF Next, IntakeCandidate, TryRecordCandidate,
       VerifyCandidate, GetActiveAlertByKey, UserAction, AcknowledgeAlert, SnoozeAlert,
       ResolveAlert, loadAlert, RecordAlertEvent, Return, Change, vars
<1>2. Spec => [][Kept]_vars
  BY <1>1, Invariance, PTL DEF Spec
<1> QED BY <1>2 DEF UndoneOnlyByRace
===============================================================================
