------------------------- MODULE UpdateRolloutsProofs -------------------------
(***************************************************************************)
(* Proofs about rollouts, assignments and update reports, for any number   *)
(* of rollouts, devices, requests and reports, and, from "Releases" on,    *)
(* about release metadata and the catalogue of Home Assistant versions,    *)
(* for versions of any length.                                             *)
(*                                                                         *)
(* The argument for rollouts: the index lets a device have one assignment, *)
(* and nothing ever closes it.  A request that has created it is therefore *)
(* alone with the device until it has saved the outcome, and what it       *)
(* stores and publishes is never written over.                             *)
(*                                                                         *)
(* The argument for releases: two dotted versions are ordered like the     *)
(* numbers they stand for, because the first part that differs outweighs   *)
(* all that follow; the first window that holds a device is then the one   *)
(* the code stops at.  A refresh that no other overtook began after the    *)
(* catalogue was fetched, so it cannot bring an older answer.              *)
(***************************************************************************)
EXTENDS UpdateRollouts, Releases, SequenceTheorems, WellFoundedInduction, TLAPS

\* The places of a request of AssignDevice.
PCs == {"idle", "loaded", "assigned", "stored", "published", "unpublished", "audit"}

-------------------------------------------------------------------------------
(***************************************************************************)
(* Records.                                                                *)
(***************************************************************************)

\* The fields of a request of AssignDevice.
LEMMA CallFields ==
  ASSUME NEW c \in Calls
  PROVE  /\ c.pc \in PCs /\ c.r \in Rollouts \union {None} /\ c.d \in Devices \union {None}
         /\ c.result \in {"none", "projected", "projection_failed"} /\ c.lapsed \in BOOLEAN
BY DEF Calls, PCs

\* A request that advances.
LEMMA CallAdvances ==
  ASSUME NEW c \in Calls, NEW p \in PCs
  PROVE  LET n == [c EXCEPT !.pc = p] IN
         /\ n \in Calls /\ n.pc = p /\ n.r = c.r /\ n.d = c.d
         /\ n.result = c.result /\ n.lapsed = c.lapsed
BY Zenon DEF Calls, PCs

\* A request that has created its assignment.
LEMMA CallCreates ==
  ASSUME NEW c \in Calls
  PROVE  LET n == [c EXCEPT !.pc = "assigned", !.lapsed = FALSE] IN
         /\ n \in Calls /\ n.pc = "assigned" /\ n.r = c.r /\ n.d = c.d
BY Zenon DEF Calls, PCs

\* A request that has saved the outcome.
LEMMA CallDecides ==
  ASSUME NEW c \in Calls, NEW o \in {"projected", "projection_failed"}
  PROVE  LET n == [c EXCEPT !.pc = "audit", !.result = o] IN
         /\ n \in Calls /\ n.pc = "audit" /\ n.r = c.r /\ n.d = c.d /\ n.result = o
<1> o \in {"none", "projected", "projection_failed"}
  OBVIOUS
<1> QED  BY Zenon DEF Calls, PCs

\* A request whose rollout lapses (ChangeRolloutStatus).
LEMMA CallLapses ==
  ASSUME NEW c \in Calls
  PROVE  LET n == [c EXCEPT !.lapsed = TRUE] IN
         /\ n \in Calls /\ n.pc = c.pc /\ n.r = c.r /\ n.d = c.d
         /\ n.result = c.result /\ n.lapsed = TRUE
BY Zenon DEF Calls

\* A request that has read its rollout.
LEMMA CallLoads ==
  ASSUME NEW r \in Rollouts, NEW d \in Devices
  PROVE  LET n == [Idle EXCEPT !.pc = "loaded", !.r = r, !.d = d] IN
         n \in Calls /\ n.pc = "loaded" /\ n.r = r /\ n.d = d
BY DEF Calls, Idle

\* No request.
LEMMA CallEnds == Idle \in Calls /\ Idle.pc = "idle" /\ Idle.r = None /\ Idle.d = None
BY DEF Calls, Idle

\* The fields of a report being recorded.
LEMMA RecordingFields ==
  ASSUME NEW c \in Recordings
  PROVE  /\ c.d \in Devices \union {None} /\ c.rep \in SampleReports \union {NoReport}
         /\ c.started \in BOOLEAN /\ c.alone \in BOOLEAN
BY DEF Recordings

\* A report whose first row is written.
LEMMA RecordingStarts ==
  ASSUME NEW c \in Recordings
  PROVE  LET n == [c EXCEPT !.started = TRUE] IN
         /\ n \in Recordings /\ n.d = c.d /\ n.rep = c.rep /\ n.started = TRUE
         /\ n.alone = c.alone
BY Zenon DEF Recordings

\* A report beside which another one is written.
LEMMA RecordingMeets ==
  ASSUME NEW c \in Recordings
  PROVE  LET n == [c EXCEPT !.alone = FALSE] IN
         /\ n \in Recordings /\ n.d = c.d /\ n.rep = c.rep /\ n.started = c.started
         /\ n.alone = FALSE
BY Zenon DEF Recordings

\* A report that arrives.
LEMMA RecordingArrives ==
  ASSUME NEW d \in Devices, NEW rep \in SampleReports
  PROVE  LET n == [NoRecording EXCEPT !.d = d, !.rep = rep] IN
         n \in Recordings /\ n.d = d /\ n.rep = rep /\ n.started = FALSE
BY DEF Recordings, NoRecording

\* No report.
LEMMA RecordingEnds ==
  /\ NoRecording \in Recordings /\ NoRecording.d = None /\ NoRecording.started = FALSE
BY DEF Recordings, NoRecording

\* The convergence of a report is one of four statuses.
LEMMA ConvergenceType ==
  ASSUME NEW rep
  PROVE  ConvergenceStatusForUpdate(rep) \in {"converged", "pending", "failed", "unknown"}
BY DEF ConvergenceStatusForUpdate

-------------------------------------------------------------------------------
(***************************************************************************)
(* AssignDevice.                                                           *)
(***************************************************************************)

\* The conjuncts of the invariant that speak of reports alone depend on the
\* report side only.
LEMMA ReportsUntouched ==
  ASSUME RolloutsInv, UNCHANGED reportVars
  PROVE  ReportsAreTruthful' /\ RowsAgreeUnlessTorn'
BY DEF RolloutsInv, ReportsAreTruthful, RowsAgreeUnlessTorn, reportVars

\* A request that holds an assignment has the device to itself: no other
\* request, assignment or desired state of it (AssignDevice against the index).
LEMMA Exclusive ==
  ASSUME TypeOK, RolloutsInv, NEW h \in Handlers, call[h].pc \in Holding
  PROVE  /\ call[h].r \in Rollouts /\ call[h].d \in Devices
         /\ assignment[<<call[h].r, call[h].d>>] = "assigned"
         /\ \A q \in Rollouts : assignment[<<q, call[h].d>>] # "none" => q = call[h].r
         /\ \A g \in Handlers \ {h} :
              call[g].pc \in Holding \union {"audit"} => call[g].d # call[h].d
         /\ desired[call[h].d] \in {None, call[h].r}
         /\ shadow[call[h].d] \in {None, call[h].r}
<1>1. CallIsTruthful(call[h])
  BY DEF RolloutsInv, CallsAreTruthful
<1>2. /\ call[h].r \in Rollouts /\ call[h].d \in Devices
      /\ assignment[<<call[h].r, call[h].d>>] = "assigned"
  BY <1>1 DEF CallIsTruthful, Holding
<1>3. \A q \in Rollouts : assignment[<<q, call[h].d>>] # "none" => q = call[h].r
  BY <1>2 DEF RolloutsInv, OneAssignmentPerDevice
<1>4. ASSUME NEW g \in Handlers \ {h}, call[g].pc \in Holding
      PROVE  call[g].d # call[h].d
  BY <1>2, <1>4 DEF RolloutsInv, OneAssignmentPerDevice
<1>5. ASSUME NEW g \in Handlers \ {h}, call[g].pc = "audit"
      PROVE  call[g].d # call[h].d
  <2>1. CallIsTruthful(call[g])
    BY DEF RolloutsInv, CallsAreTruthful
  <2>2. call[g].result \in {"none", "projected", "projection_failed"}
    BY CallFields DEF TypeOK
  <2>3. /\ call[g].r \in Rollouts
        /\ assignment[<<call[g].r, call[g].d>>] \in {"projected", "projection_failed"}
    BY <1>5, <2>1, <2>2 DEF CallIsTruthful
  <2> QED  BY <1>2, <1>3, <2>3
<1>6. desired[call[h].d] \in {None, call[h].r}
  <2>1. desired[call[h].d] \in Rollouts \union {None}
    BY <1>2 DEF TypeOK
  <2>2. desired[call[h].d] # None => assignment[<<desired[call[h].d], call[h].d>>] # "none"
    BY <1>2 DEF RolloutsInv, DesiredIsAssigned
  <2> QED  BY <1>3, <2>1, <2>2
<1>7. shadow[call[h].d] \in {None, call[h].r}
  BY <1>2, <1>6 DEF RolloutsInv, DesiredIsAssigned
<1> QED  BY <1>2, <1>3, <1>4, <1>5, <1>6, <1>7

\* A request ends, leaving the tables; what it held is abandoned, and what it
\* records is what it saved (RecordRolloutAudit and the early returns).
LEMMA EndStep ==
  ASSUME TypeOK, RolloutsInv, NEW h \in Handlers, call' = [call EXCEPT ![h] = Idle],
         UNCHANGED <<rollout, assignment, desired, shadow, reportVars>>,
         abandoned \subseteq abandoned',
         call[h].pc \in Holding => <<call[h].r, call[h].d>> \in abandoned',
         \A e \in audit' : e \in audit \/ assignment[<<e.r, e.d>>] = e.result
  PROVE  RolloutsInv'
<1>1. \A g \in Handlers : call'[g] = IF g = h THEN Idle ELSE call[g]
  BY DEF TypeOK
<1>2. OneAssignmentPerDevice'
  BY <1>1, CallEnds DEF RolloutsInv, OneAssignmentPerDevice, Holding
<1>3. CallsAreTruthful'
  BY <1>1, CallEnds DEF RolloutsInv, CallsAreTruthful, CallIsTruthful, Holding
<1>4. DesiredIsAssigned' /\ ProjectedIsDesired'
  BY DEF RolloutsInv, DesiredIsAssigned, ProjectedIsDesired, reportVars
<1>5. AuditTellsTruth'
  BY DEF RolloutsInv, AuditTellsTruth
<1>6. OpenIsHeldOrAbandoned'
  <2> SUFFICES ASSUME NEW p \in Pairs, assignment'[p] = "assigned", p \notin abandoned'
               PROVE  \E g \in Handlers : <<call'[g].r, call'[g].d>> = p /\ call'[g].pc \in Holding
    BY DEF OpenIsHeldOrAbandoned
  <2>1. PICK g \in Handlers : <<call[g].r, call[g].d>> = p /\ call[g].pc \in Holding
    BY DEF RolloutsInv, OpenIsHeldOrAbandoned
  <2>2. g # h
    BY <2>1
  <2> QED  BY <1>1, <2>1, <2>2
<1> QED  BY <1>2, <1>3, <1>4, <1>5, <1>6, ReportsUntouched DEF RolloutsInv

\* A request reads an active rollout (GetRollout).
LEMMA LoadStep ==
  ASSUME TypeOK, RolloutsInv, NEW h \in Handlers, NEW r \in Rollouts, NEW d \in Devices,
         LoadRollout(h, r, d)
  PROVE  RolloutsInv'
<1> PICK n : n = [Idle EXCEPT !.pc = "loaded", !.r = r, !.d = d]
  OBVIOUS
<1>1. n.pc = "loaded" /\ n.r = r /\ n.d = d
  BY CallLoads
<1>2. \A g \in Handlers : call'[g] = IF g = h THEN n ELSE call[g]
  BY DEF TypeOK, LoadRollout
<1>3. UNCHANGED <<rollout, assignment, desired, shadow, audit, abandoned, reportVars>>
  BY DEF LoadRollout, rolloutVars, assignVars
<1>4. rollout[r] = "active" /\ call[h].pc = "idle"
  BY CallEnds DEF LoadRollout, Assignable
<1>5. OneAssignmentPerDevice'
  <2>1. \A g \in Handlers : call'[g].pc \in Holding => call'[g] = call[g]
    BY <1>1, <1>2 DEF Holding
  <2> QED  BY <1>3, <2>1 DEF RolloutsInv, OneAssignmentPerDevice
<1>6. CallsAreTruthful'
  <2>1. CallIsTruthful(call[h])'
    <3>1. call'[h].pc = "loaded" /\ call'[h].r = r /\ call'[h].d = d
      BY <1>1, <1>2
    <3> QED  BY <1>3, <1>4, <3>1 DEF CallIsTruthful, Holding
  <2>2. ASSUME NEW g \in Handlers \ {h} PROVE CallIsTruthful(call[g])'
    BY <1>2, <1>3 DEF RolloutsInv, CallsAreTruthful, CallIsTruthful
  <2> QED  BY <2>1, <2>2 DEF CallsAreTruthful
<1>7. DesiredIsAssigned' /\ ProjectedIsDesired' /\ AuditTellsTruth'
  BY <1>3 DEF RolloutsInv, DesiredIsAssigned, ProjectedIsDesired, AuditTellsTruth, reportVars
<1>8. OpenIsHeldOrAbandoned'
  <2>1. \A g \in Handlers : call[g].pc \in Holding => call'[g] = call[g]
    BY <1>2, <1>4 DEF Holding
  <2> QED  BY <1>3, <2>1 DEF RolloutsInv, OpenIsHeldOrAbandoned
<1> QED  BY <1>3, <1>5, <1>6, <1>7, <1>8, ReportsUntouched DEF RolloutsInv

\* An assignment is created for a device that has none (CreateDeviceAssignment).
LEMMA CreateStep ==
  ASSUME TypeOK, RolloutsInv, NEW h \in Handlers, call[h].pc = "loaded",
         ~HasOpenAssignment(call[h].d),
         assignment' = [assignment EXCEPT ![<<call[h].r, call[h].d>>] = "assigned"],
         call' = [call EXCEPT ![h] = [call[h] EXCEPT !.pc = "assigned", !.lapsed = FALSE]],
         UNCHANGED <<rollout, desired, shadow, audit, abandoned, reportVars>>
  PROVE  RolloutsInv'
<1> PICK r, d : r = call[h].r /\ d = call[h].d
  OBVIOUS
<1> PICK n : n = [call[h] EXCEPT !.pc = "assigned", !.lapsed = FALSE]
  OBVIOUS
<1>0. CallIsTruthful(call[h]) /\ call[h] \in Calls
  BY DEF RolloutsInv, CallsAreTruthful, TypeOK
<1>1. n.pc = "assigned" /\ n.r = r /\ n.d = d
  BY <1>0, CallCreates
<1>2. r \in Rollouts /\ d \in Devices /\ <<r, d>> \in Pairs
  BY <1>0 DEF CallIsTruthful, Pairs
<1>3. \A g \in Handlers : call'[g] = IF g = h THEN n ELSE call[g]
  BY DEF TypeOK
<1>4. \A q \in Rollouts : assignment[<<q, d>>] = "none"
  BY <1>2 DEF HasOpenAssignment, TypeOK, Pairs
<1>5. \A p \in Pairs : assignment'[p] = IF p = <<r, d>> THEN "assigned" ELSE assignment[p]
  BY DEF TypeOK
<1>6. \A q \in Rollouts, e \in Devices : <<q, e>> \in Pairs
  BY DEF Pairs
<1>7. ASSUME NEW g \in Handlers \ {h}, call[g].pc \in Holding \union {"audit"}
      PROVE  call[g].r \in Rollouts /\ call[g].d \in Devices \ {d}
  <2>1. CallIsTruthful(call[g]) /\ call[g].result \in {"none", "projected", "projection_failed"}
    BY CallFields DEF RolloutsInv, CallsAreTruthful, TypeOK
  <2>2. /\ call[g].r \in Rollouts /\ call[g].d \in Devices
        /\ assignment[<<call[g].r, call[g].d>>] # "none"
    BY <1>7, <2>1 DEF CallIsTruthful, Holding
  <2> QED  BY <1>4, <2>2
<1>8. OneAssignmentPerDevice'
  <2>1. ASSUME NEW e \in Devices, NEW q \in Rollouts, NEW s \in Rollouts,
               assignment'[<<q, e>>] # "none", assignment'[<<s, e>>] # "none"
        PROVE  q = s
    <3>1. CASE e = d
      BY <1>4, <1>5, <1>6, <2>1, <3>1
    <3>2. CASE e # d
      <4>1. assignment'[<<q, e>>] = assignment[<<q, e>>] /\ assignment'[<<s, e>>] = assignment[<<s, e>>]
        BY <1>5, <1>6, <3>2
      <4> QED  BY <2>1, <4>1 DEF RolloutsInv, OneAssignmentPerDevice
    <3> QED  BY <3>1, <3>2
  <2>2. ASSUME NEW e \in Devices, NEW f \in Handlers, NEW g \in Handlers,
               call'[f].pc \in Holding, call'[g].pc \in Holding, call'[f].d = e, call'[g].d = e
        PROVE  f = g
    BY <1>1, <1>3, <1>7, <2>2 DEF RolloutsInv, OneAssignmentPerDevice
  <2> QED  BY <2>1, <2>2 DEF OneAssignmentPerDevice
<1>9. CallsAreTruthful'
  <2>1. CallIsTruthful(call[h])'
    BY <1>1, <1>2, <1>3, <1>5 DEF CallIsTruthful, Holding
  <2>2. ASSUME NEW g \in Handlers \ {h} PROVE CallIsTruthful(call[g])'
    <3>1. CallIsTruthful(call[g]) /\ call'[g] = call[g]
      BY <1>3 DEF RolloutsInv, CallsAreTruthful
    <3>2. call[g].pc \in Holding \union {"audit"} =>
            assignment'[<<call[g].r, call[g].d>>] = assignment[<<call[g].r, call[g].d>>]
      BY <1>5, <1>6, <1>7
    <3> QED  BY <3>1, <3>2 DEF CallIsTruthful
  <2> QED  BY <2>1, <2>2 DEF CallsAreTruthful
<1>10. DesiredIsAssigned'
  <2>1. \A p \in Pairs : assignment[p] # "none" => assignment'[p] # "none"
    BY <1>5
  <2>2. ASSUME NEW e \in Devices, desired'[e] # None PROVE assignment'[<<desired'[e], e>>] # "none"
    <3>1. desired[e] \in Rollouts /\ assignment[<<desired[e], e>>] # "none"
      BY <2>2 DEF RolloutsInv, DesiredIsAssigned, TypeOK
    <3> QED  BY <1>6, <2>1, <3>1
  <2> QED  BY <2>2 DEF RolloutsInv, DesiredIsAssigned, reportVars
<1>11. ProjectedIsDesired'
  BY <1>5, <1>6 DEF RolloutsInv, ProjectedIsDesired
<1>12. AuditTellsTruth'
  <2> SUFFICES ASSUME NEW e \in audit PROVE assignment'[<<e.r, e.d>>] = e.result
    BY DEF AuditTellsTruth
  <2>1. /\ e.r \in Rollouts /\ e.d \in Devices /\ e.result # "none"
        /\ assignment[<<e.r, e.d>>] = e.result
    BY DEF TypeOK, Events, RolloutsInv, AuditTellsTruth
  <2>2. e.d # d
    BY <1>4, <2>1
  <2> QED  BY <1>5, <1>6, <2>1, <2>2
<1>13. OpenIsHeldOrAbandoned'
  <2>1. \A g \in Handlers : call[g].pc \in Holding => call'[g] = call[g]
    BY <1>3 DEF Holding
  <2>2. <<call'[h].r, call'[h].d>> = <<r, d>> /\ call'[h].pc \in Holding
    BY <1>1, <1>3 DEF Holding
  <2> QED  BY <1>5, <2>1, <2>2 DEF RolloutsInv, OpenIsHeldOrAbandoned
<1> QED  BY <1>8, <1>9, <1>10, <1>11, <1>12, <1>13, ReportsUntouched DEF RolloutsInv

\* A request that holds its assignment stores or publishes the desired state, or
\* fails to (PutDesired of the edge state service).
LEMMA PutStep ==
  ASSUME TypeOK, RolloutsInv, NEW h \in Handlers, NEW p \in Holding, call[h].pc \in Holding,
         call' = [call EXCEPT ![h].pc = p],
         desired' \in {desired, [desired EXCEPT ![call[h].d] = call[h].r]},
         shadow' \in {shadow, [shadow EXCEPT ![call[h].d] = call[h].r]},
         shadow' # shadow => desired'[call[h].d] = call[h].r,
         p \in {"stored", "published"} => desired'[call[h].d] = call[h].r,
         p = "published" /\ HasAdapter => shadow'[call[h].d] = call[h].r,
         UNCHANGED <<rollout, assignment, audit, abandoned, reportVars>>
  PROVE  RolloutsInv'
<1> PICK r, d : r = call[h].r /\ d = call[h].d
  OBVIOUS
<1> PICK n : n = [call[h] EXCEPT !.pc = p]
  OBVIOUS
<1>0. p \in PCs
  BY DEF PCs, Holding
<1>1. n.pc = p /\ n.r = r /\ n.d = d
  BY <1>0, CallAdvances DEF TypeOK
<1>2. \A g \in Handlers : call'[g] = IF g = h THEN n ELSE call[g]
  BY DEF TypeOK
<1>3. /\ r \in Rollouts /\ d \in Devices /\ assignment[<<r, d>>] = "assigned"
      /\ \A q \in Rollouts : assignment[<<q, d>>] # "none" => q = r
      /\ \A g \in Handlers \ {h} : call[g].pc \in Holding \union {"audit"} => call[g].d # d
      /\ desired[d] \in {None, r} /\ shadow[d] \in {None, r}
  BY Exclusive
<1>4. \A e \in Devices \ {d} : desired'[e] = desired[e] /\ shadow'[e] = shadow[e]
  BY DEF TypeOK
<1>5. desired'[d] \in {None, r} /\ (desired[d] = r => desired'[d] = r)
  BY <1>3 DEF TypeOK
<1>6. shadow'[d] \in {None, desired'[d]}
  <2>1. CASE shadow' = shadow
    BY <1>3, <1>5, <2>1 DEF RolloutsInv, DesiredIsAssigned
  <2>2. CASE shadow' # shadow
    BY <1>3, <2>2 DEF TypeOK
  <2> QED  BY <2>1, <2>2
<1>7. OneAssignmentPerDevice'
  BY <1>1, <1>2, <1>3 DEF RolloutsInv, OneAssignmentPerDevice
<1>8. CallsAreTruthful'
  <2>1. CallIsTruthful(call[h])'
    BY <1>1, <1>2, <1>3 DEF CallIsTruthful, Holding
  <2>2. ASSUME NEW g \in Handlers \ {h} PROVE CallIsTruthful(call[g])'
    <3>1. CallIsTruthful(call[g]) /\ call'[g] = call[g]
      BY <1>2 DEF RolloutsInv, CallsAreTruthful
    <3>2. call[g].pc \in Holding => call[g].d \in Devices \ {d}
      BY <1>3, <3>1 DEF CallIsTruthful, Holding
    <3> QED  BY <1>4, <3>1, <3>2 DEF CallIsTruthful, Holding
  <2> QED  BY <2>1, <2>2 DEF CallsAreTruthful
<1>9. DesiredIsAssigned'
  <2>1. ASSUME NEW e \in Devices \ {d}
        PROVE  /\ desired'[e] # None => assignment'[<<desired'[e], e>>] # "none"
               /\ shadow'[e] \in {None, desired'[e]}
    BY <1>4 DEF RolloutsInv, DesiredIsAssigned
  <2>2. desired'[d] # None => assignment'[<<desired'[d], d>>] # "none"
    BY <1>3, <1>5
  <2> QED  BY <1>6, <2>1, <2>2 DEF DesiredIsAssigned
<1>10. ProjectedIsDesired'
  <2> SUFFICES ASSUME NEW q \in Rollouts, NEW e \in Devices, assignment[<<q, e>>] = "projected"
               PROVE  desired'[e] = q /\ (HasAdapter => shadow'[e] = q)
    BY DEF ProjectedIsDesired
  <2>1. e # d
    BY <1>3
  <2> QED  BY <1>4, <2>1 DEF RolloutsInv, ProjectedIsDesired
<1>11. AuditTellsTruth'
  BY DEF RolloutsInv, AuditTellsTruth
<1>12. OpenIsHeldOrAbandoned'
  <2>1. \A g \in Handlers : call[g].pc \in Holding =>
          /\ <<call'[g].r, call'[g].d>> = <<call[g].r, call[g].d>>
          /\ call'[g].pc \in Holding
    BY <1>1, <1>2
  <2> QED  BY <2>1 DEF RolloutsInv, OpenIsHeldOrAbandoned
<1> QED  BY <1>7, <1>8, <1>9, <1>10, <1>11, <1>12, ReportsUntouched DEF RolloutsInv

\* The outcome is saved (SaveDeviceAssignmentProjection).
LEMMA DecideStep ==
  ASSUME TypeOK, RolloutsInv, NEW h \in Handlers, SaveDeviceAssignmentProjection(h)
  PROVE  RolloutsInv'
<1> PICK r, d, o : r = call[h].r /\ d = call[h].d /\ o = Outcome(h)
  OBVIOUS
<1> PICK n : n = [call[h] EXCEPT !.pc = "audit", !.result = o]
  OBVIOUS
<1>1. /\ call[h].pc \in Holding /\ o \in {"projected", "projection_failed"}
      /\ o = "projected" => call[h].pc = "published"
  BY DEF SaveDeviceAssignmentProjection, Holding, Outcome
<1>2. n.pc = "audit" /\ n.r = r /\ n.d = d /\ n.result = o
  <2>1. call[h] \in Calls /\ o \in {"projected", "projection_failed"}
    BY <1>1 DEF TypeOK
  <2> QED  BY <2>1, CallDecides
<1>3. \A g \in Handlers : call'[g] = IF g = h THEN n ELSE call[g]
  BY DEF TypeOK, SaveDeviceAssignmentProjection
<1>4. /\ r \in Rollouts /\ d \in Devices /\ assignment[<<r, d>>] = "assigned"
      /\ \A q \in Rollouts : assignment[<<q, d>>] # "none" => q = r
      /\ \A g \in Handlers \ {h} : call[g].pc \in Holding \union {"audit"} => call[g].d # d
  BY <1>1, Exclusive
<1>5. \A p \in Pairs : assignment'[p] = IF p = <<r, d>> THEN o ELSE assignment[p]
  BY DEF TypeOK, SaveDeviceAssignmentProjection
<1>6. \A q \in Rollouts, e \in Devices : <<q, e>> \in Pairs
  BY DEF Pairs
<1>7. \A p \in Pairs : assignment'[p] = "none" <=> assignment[p] = "none"
  BY <1>1, <1>4, <1>5
<1>8. UNCHANGED <<rollout, desired, shadow, audit, abandoned, reportVars>>
  BY DEF SaveDeviceAssignmentProjection, rolloutVars
<1>9. OneAssignmentPerDevice'
  <2>1. \A e \in Devices : \A q, s \in Rollouts :
          assignment'[<<q, e>>] # "none" /\ assignment'[<<s, e>>] # "none" => q = s
    BY <1>6, <1>7 DEF RolloutsInv, OneAssignmentPerDevice
  <2>2. \A g \in Handlers : call'[g].pc \in Holding => g # h /\ call'[g] = call[g]
    BY <1>2, <1>3 DEF Holding
  <2> QED  BY <2>1, <2>2 DEF RolloutsInv, OneAssignmentPerDevice
<1>10. CallsAreTruthful'
  <2>1. CallIsTruthful(call[h])'
    <3>1. call'[h].pc = "audit" /\ call'[h].r = r /\ call'[h].d = d /\ call'[h].result = o
      BY <1>2, <1>3
    <3>2. assignment'[<<r, d>>] = o
      BY <1>4, <1>5, <1>6
    <3> QED  BY <1>1, <1>4, <3>1, <3>2 DEF CallIsTruthful, Holding
  <2>2. ASSUME NEW g \in Handlers \ {h} PROVE CallIsTruthful(call[g])'
    <3>1. CallIsTruthful(call[g]) /\ call'[g] = call[g]
      BY <1>3 DEF RolloutsInv, CallsAreTruthful
    <3>2. call[g].pc \in Holding \union {"audit"} =>
            assignment'[<<call[g].r, call[g].d>>] = assignment[<<call[g].r, call[g].d>>]
      BY <1>4, <1>5, <1>6, <3>1 DEF CallIsTruthful, Holding
    <3> QED  BY <1>8, <3>1, <3>2 DEF CallIsTruthful
  <2> QED  BY <2>1, <2>2 DEF CallsAreTruthful
<1>11. DesiredIsAssigned'
  <2>1. ASSUME NEW e \in Devices, desired[e] # None PROVE assignment'[<<desired[e], e>>] # "none"
    <3>1. desired[e] \in Rollouts /\ assignment[<<desired[e], e>>] # "none"
      BY <2>1 DEF RolloutsInv, DesiredIsAssigned, TypeOK
    <3> QED  BY <1>6, <1>7, <3>1
  <2> QED  BY <1>8, <2>1 DEF RolloutsInv, DesiredIsAssigned, reportVars
<1>12. ProjectedIsDesired'
  <2>1. o = "projected" => desired[d] = r /\ (HasAdapter => shadow[d] = r)
    BY <1>1 DEF RolloutsInv, CallsAreTruthful, CallIsTruthful
  <2> QED  BY <1>5, <1>6, <1>8, <2>1 DEF RolloutsInv, ProjectedIsDesired
<1>13. AuditTellsTruth'
  <2> SUFFICES ASSUME NEW e \in audit PROVE assignment'[<<e.r, e.d>>] = e.result
    BY <1>8 DEF AuditTellsTruth
  <2>1. /\ e.r \in Rollouts /\ e.d \in Devices /\ e.result # "assigned"
        /\ assignment[<<e.r, e.d>>] = e.result
    BY DEF TypeOK, Events, RolloutsInv, AuditTellsTruth
  <2> QED  BY <1>4, <1>5, <1>6, <2>1
<1>14. OpenIsHeldOrAbandoned'
  <2> SUFFICES ASSUME NEW p \in Pairs, assignment'[p] = "assigned", p \notin abandoned
               PROVE  \E g \in Handlers : <<call'[g].r, call'[g].d>> = p /\ call'[g].pc \in Holding
    BY <1>8 DEF OpenIsHeldOrAbandoned
  <2>1. p # <<r, d>> /\ assignment[p] = "assigned"
    BY <1>1, <1>5
  <2>2. PICK g \in Handlers : <<call[g].r, call[g].d>> = p /\ call[g].pc \in Holding
    BY <2>1 DEF RolloutsInv, OpenIsHeldOrAbandoned
  <2> QED  BY <1>3, <2>1, <2>2
<1> QED  BY <1>8, <1>9, <1>10, <1>11, <1>12, <1>13, <1>14, ReportsUntouched DEF RolloutsInv

-------------------------------------------------------------------------------
(***************************************************************************)
(* Rollouts and reports.                                                   *)
(***************************************************************************)

\* A rollout is created, or changed under the eyes of requests that have read it
\* (ChangeRolloutStatus).
LEMMA RolloutStep ==
  ASSUME TypeOK, RolloutsInv, NEW r \in Rollouts, NEW s \in RequestedStatuses,
         CreateRollout(r, s) \/ ChangeRolloutStatus(r, s)
  PROVE  RolloutsInv'
<1>1. UNCHANGED <<assignVars, reportVars>>
  BY DEF CreateRollout, ChangeRolloutStatus
<1>2. ASSUME NEW g \in Handlers
      PROVE  /\ call'[g].pc = call[g].pc /\ call'[g].r = call[g].r /\ call'[g].d = call[g].d
             /\ call'[g].result = call[g].result
             /\ call[g].pc # "loaded" => call'[g] = call[g]
             /\ call[g].lapsed => call'[g].lapsed
  <2>0. call[g] \in Calls
    BY DEF TypeOK
  <2>1. CASE call'[g] = call[g]
    BY <2>1
  <2>2. CASE call'[g] = [call[g] EXCEPT !.lapsed = TRUE] /\ call[g].pc = "loaded"
    BY <2>0, <2>2, CallLapses
  <2> QED  BY <2>1, <2>2 DEF CreateRollout, ChangeRolloutStatus
<1>3. ASSUME NEW g \in Handlers, call[g].pc = "loaded"
      PROVE  call'[g].lapsed \/ rollout'[call[g].r] = "active"
  <2>1. call[g].lapsed \/ rollout[call[g].r] = "active"
    BY <1>3 DEF RolloutsInv, CallsAreTruthful, CallIsTruthful
  <2>2. CASE CreateRollout(r, s)
    <3>1. rollout[r] = "none" /\ rollout' = [rollout EXCEPT ![r] = s] /\ call' = call
      BY <2>2 DEF CreateRollout
    <3> QED  BY <2>1, <3>1 DEF TypeOK
  <2>3. CASE ChangeRolloutStatus(r, s) /\ (call[g].r # r \/ s = "active")
    <3>1. rollout' = [rollout EXCEPT ![r] = s]
      BY <2>3 DEF ChangeRolloutStatus
    <3> QED  BY <1>2, <2>1, <2>3, <3>1 DEF TypeOK
  <2>4. CASE ChangeRolloutStatus(r, s) /\ call[g].r = r /\ s # "active"
    <3>1. call'[g] = [call[g] EXCEPT !.lapsed = TRUE]
      BY <1>3, <2>4 DEF ChangeRolloutStatus
    <3> QED  BY <3>1, CallLapses DEF TypeOK
  <2> QED  BY <2>2, <2>3, <2>4
<1>4. OneAssignmentPerDevice'
  BY <1>1, <1>2 DEF RolloutsInv, OneAssignmentPerDevice, assignVars
<1>5. CallsAreTruthful'
  <2> SUFFICES ASSUME NEW g \in Handlers PROVE CallIsTruthful(call[g])'
    BY DEF CallsAreTruthful
  <2>1. CallIsTruthful(call[g])
    BY DEF RolloutsInv, CallsAreTruthful
  <2> QED  BY <1>1, <1>2, <1>3, <2>1 DEF CallIsTruthful, assignVars
<1>6. DesiredIsAssigned' /\ ProjectedIsDesired' /\ AuditTellsTruth'
  BY <1>1
  DEF RolloutsInv, DesiredIsAssigned, ProjectedIsDesired, AuditTellsTruth, reportVars, assignVars
<1>7. OpenIsHeldOrAbandoned'
  BY <1>1, <1>2 DEF RolloutsInv, OpenIsHeldOrAbandoned, assignVars
<1> QED  BY <1>1, <1>4, <1>5, <1>6, <1>7, ReportsUntouched DEF RolloutsInv

\* The conjuncts that speak of assignments alone depend on their side only.
LEMMA AssignmentsUntouched ==
  ASSUME RolloutsInv, UNCHANGED <<rolloutVars, assignVars, call>>
  PROVE  /\ OneAssignmentPerDevice' /\ CallsAreTruthful' /\ AuditTellsTruth'
         /\ ProjectedIsDesired' /\ OpenIsHeldOrAbandoned'
<1>1. OneAssignmentPerDevice' /\ AuditTellsTruth' /\ ProjectedIsDesired' /\ OpenIsHeldOrAbandoned'
  BY DEF RolloutsInv, OneAssignmentPerDevice, AuditTellsTruth, ProjectedIsDesired,
         OpenIsHeldOrAbandoned, assignVars
<1>2. CallsAreTruthful'
  BY DEF RolloutsInv, CallsAreTruthful, CallIsTruthful, rolloutVars, assignVars
<1> QED  BY <1>1, <1>2

\* A report arrives.
LEMMA ReceiveStep ==
  ASSUME TypeOK, RolloutsInv, NEW w \in Reporters, NEW d \in Devices, NEW rep \in SampleReports,
         ReceiveReport(w, d, rep)
  PROVE  RolloutsInv'
<1> PICK n : n = [NoRecording EXCEPT !.d = d, !.rep = rep]
  OBVIOUS
<1>1. n.d = d /\ n.rep = rep /\ n.started = FALSE
  BY RecordingArrives
<1>2. \A v \in Reporters : report'[v] = IF v = w THEN n ELSE report[v]
  BY DEF ReceiveReport, TypeOK
<1>3. /\ UNCHANGED <<rolloutVars, assignVars, call, statusRow, projection, torn>>
      /\ report[w].started = FALSE
  BY RecordingEnds DEF ReceiveReport
<1>4. DesiredIsAssigned'
  BY <1>3 DEF RolloutsInv, DesiredIsAssigned, assignVars
<1>5. \A v \in Reporters : report[v].started \/ report'[v].started => report'[v] = report[v]
  BY <1>1, <1>2, <1>3
<1>6. ReportsAreTruthful' /\ RowsAgreeUnlessTorn'
  BY <1>3, <1>5 DEF RolloutsInv, ReportsAreTruthful, RowsAgreeUnlessTorn
<1> QED  BY <1>3, <1>4, <1>6, AssignmentsUntouched DEF RolloutsInv

\* A report is done with and its projection left as it is; a report that had
\* written its first row leaves the device torn.
LEMMA DropStep ==
  ASSUME TypeOK, RolloutsInv, NEW w \in Reporters, report' = [report EXCEPT ![w] = NoRecording],
         UNCHANGED <<rolloutVars, assignVars, call, statusRow, projection>>,
         torn' = IF report[w].started THEN torn \union {report[w].d} ELSE torn
  PROVE  RolloutsInv'
<1>1. \A v \in Reporters : report'[v] = IF v = w THEN NoRecording ELSE report[v]
  BY DEF TypeOK
<1>2. DesiredIsAssigned'
  BY DEF RolloutsInv, DesiredIsAssigned, assignVars
<1>3. \A v \in Reporters : report'[v].started => report'[v] = report[v]
  BY <1>1, RecordingEnds
<1>4. ReportsAreTruthful'
  BY <1>3 DEF RolloutsInv, ReportsAreTruthful
<1>5. RowsAgreeUnlessTorn'
  <2> SUFFICES ASSUME NEW d \in Devices, projection[d].rep # statusRow[d], d \notin torn'
               PROVE  \E v \in Reporters : report'[v].d = d /\ report'[v].started
    BY DEF RowsAgreeUnlessTorn
  <2>1. PICK v \in Reporters : report[v].d = d /\ report[v].started
    BY DEF RolloutsInv, RowsAgreeUnlessTorn
  <2>2. v # w
    BY <2>1
  <2> QED  BY <1>1, <2>1, <2>2
<1> QED  BY <1>2, <1>4, <1>5, AssignmentsUntouched DEF RolloutsInv

\* The first row is written, which every other report of the device meets.
LEMMA FirstWrite ==
  ASSUME TypeOK, RolloutsInv, NEW w \in Reporters, report[w].rep \in ValidReports,
         UpsertDeviceUpdateStatus(w)
  PROVE  RolloutsInv'
<1> PICK d : d = report[w].d
  OBVIOUS
<1>1. /\ d # None /\ ~report[w].started
      /\ statusRow' = [statusRow EXCEPT ![d] = report[w].rep]
      /\ report' = [v \in Reporters |->
           IF v = w THEN [report[w] EXCEPT !.started = TRUE]
           ELSE IF report[v].d = d THEN [report[v] EXCEPT !.alone = FALSE]
           ELSE report[v]]
      /\ UNCHANGED <<rolloutVars, assignVars, call, projection, torn>>
  BY DEF UpsertDeviceUpdateStatus
<1>2. d \in Devices
  BY <1>1, RecordingFields DEF TypeOK
<1>3. report'[w].d = d /\ report'[w].rep = report[w].rep /\ report'[w].started
  BY <1>1, RecordingStarts DEF TypeOK
<1>4. ASSUME NEW v \in Reporters \ {w}
      PROVE  /\ report'[v].d = report[v].d /\ report'[v].rep = report[v].rep
             /\ report'[v].started = report[v].started
             /\ report[v].d = d => ~report'[v].alone
             /\ report[v].d # d => report'[v] = report[v]
  BY <1>1, RecordingMeets DEF TypeOK
<1>5. \A e \in Devices \ {d} : statusRow'[e] = statusRow[e]
  BY <1>1 DEF TypeOK
<1>6. statusRow'[d] = report[w].rep
  BY <1>1, <1>2 DEF TypeOK
<1>7. DesiredIsAssigned'
  BY <1>1 DEF RolloutsInv, DesiredIsAssigned, assignVars
<1>8. ReportsAreTruthful'
  <2>1. ASSUME NEW v \in Reporters, report'[v].started
        PROVE  /\ report'[v].rep \in ValidReports /\ report'[v].d # None
               /\ report'[v].alone => statusRow'[report'[v].d] = report'[v].rep
    <3>1. CASE v = w
      BY <1>1, <1>3, <1>6, <3>1
    <3>2. CASE v # w
      <4>1. /\ report[v].started /\ report[v].rep \in ValidReports /\ report[v].d # None
            /\ report[v].alone => statusRow[report[v].d] = report[v].rep
        BY <1>4, <2>1, <3>2 DEF RolloutsInv, ReportsAreTruthful
      <4>2. report[v].d \in Devices
        BY <4>1, RecordingFields DEF TypeOK
      <4> QED  BY <1>4, <1>5, <3>2, <4>1, <4>2
    <3> QED  BY <3>1, <3>2
  <2> QED  BY <1>1, <2>1 DEF RolloutsInv, ReportsAreTruthful
<1>9. RowsAgreeUnlessTorn'
  <2> SUFFICES ASSUME NEW e \in Devices, projection'[e].rep # statusRow'[e], e \notin torn'
               PROVE  \E v \in Reporters : report'[v].d = e /\ report'[v].started
    BY DEF RowsAgreeUnlessTorn
  <2>1. CASE e = d
    BY <1>3, <2>1
  <2>2. CASE e # d
    <3>1. PICK v \in Reporters : report[v].d = e /\ report[v].started
      BY <1>1, <1>5, <2>2 DEF RolloutsInv, RowsAgreeUnlessTorn
    <3> QED  BY <1>4, <2>2, <3>1
  <2> QED  BY <2>1, <2>2
<1> QED  BY <1>1, <1>7, <1>8, <1>9, AssignmentsUntouched DEF RolloutsInv

\* The second row is written: it is the first one's report if that was alone.
LEMMA SecondWrite ==
  ASSUME TypeOK, RolloutsInv, NEW w \in Reporters, UpsertUpdateProjection(w)
  PROVE  RolloutsInv'
<1> PICK d, rep : d = report[w].d /\ rep = report[w].rep
  OBVIOUS
<1> PICK n : n = [rep |-> rep, convergence |-> ConvergenceStatusForUpdate(rep)]
  OBVIOUS
<1>1. /\ report[w].started /\ projection' = [projection EXCEPT ![d] = n]
      /\ \/ report[w].alone /\ torn' = torn \ {d}
         \/ torn' = torn \union {d}
      /\ report' = [report EXCEPT ![w] = NoRecording]
      /\ UNCHANGED <<rolloutVars, assignVars, call, statusRow>>
  BY DEF UpsertUpdateProjection
<1>2. d \in Devices /\ rep \in ValidReports
  BY <1>1, RecordingFields DEF RolloutsInv, ReportsAreTruthful, TypeOK
<1>3. \A v \in Reporters : report'[v] = IF v = w THEN NoRecording ELSE report[v]
  BY <1>1 DEF TypeOK
<1>4. \A e \in Devices : projection'[e] = IF e = d THEN n ELSE projection[e]
  BY <1>1 DEF TypeOK
<1>5. n.rep = rep /\ n.convergence = ConvergenceStatusForUpdate(n.rep)
  OBVIOUS
<1>6. DesiredIsAssigned'
  BY <1>1 DEF RolloutsInv, DesiredIsAssigned, assignVars
<1>7. \A v \in Reporters : report'[v].started => report'[v] = report[v]
  BY <1>3, RecordingEnds
<1>8. ReportsAreTruthful'
  <2>1. \A e \in Devices : \/ projection'[e] = NoProjection
                           \/ projection'[e].convergence = ConvergenceStatusForUpdate(projection'[e].rep)
    BY <1>4, <1>5 DEF RolloutsInv, ReportsAreTruthful
  <2> QED  BY <1>1, <1>7, <2>1 DEF RolloutsInv, ReportsAreTruthful
<1>9. RowsAgreeUnlessTorn'
  <2> SUFFICES ASSUME NEW e \in Devices, projection'[e].rep # statusRow'[e], e \notin torn'
               PROVE  \E v \in Reporters : report'[v].d = e /\ report'[v].started
    BY DEF RowsAgreeUnlessTorn
  <2>1. e # d
    <3> SUFFICES ASSUME e = d PROVE FALSE
      OBVIOUS
    <3>1. report[w].alone
      BY <1>1
    <3>2. statusRow[d] = rep
      BY <1>1, <3>1 DEF RolloutsInv, ReportsAreTruthful
    <3> QED  BY <1>1, <1>2, <1>4, <1>5, <3>2
  <2>2. projection[e].rep # statusRow[e] /\ e \notin torn
    BY <1>1, <1>4, <2>1
  <2>3. PICK v \in Reporters : report[v].d = e /\ report[v].started
    BY <2>2 DEF RolloutsInv, RowsAgreeUnlessTorn
  <2> QED  BY <1>3, <2>1, <2>3
<1> QED  BY <1>1, <1>6, <1>8, <1>9, AssignmentsUntouched DEF RolloutsInv

-------------------------------------------------------------------------------
(***************************************************************************)
(* Every step.                                                             *)
(***************************************************************************)

\* Every step of a request keeps the invariant.
LEMMA AssignInv ==
  ASSUME TypeOK, RolloutsInv, NEW h \in Handlers, AssignStep(h)
  PROVE  RolloutsInv'
<1>1. CASE CreateDeviceAssignment(h)
  <2>1. CASE HasOpenAssignment(call[h].d)
    <3>1. /\ call[h].pc = "loaded" /\ call' = [call EXCEPT ![h] = Idle]
          /\ UNCHANGED <<rollout, assignment, desired, shadow, audit, abandoned, reportVars>>
      BY <1>1, <2>1 DEF CreateDeviceAssignment, rolloutVars
    <3>2. call[h].pc \notin Holding
      BY <3>1 DEF Holding
    <3> QED  BY <3>1, <3>2, EndStep
  <2>2. CASE ~HasOpenAssignment(call[h].d)
    <3>1. /\ call[h].pc = "loaded"
          /\ assignment' = [assignment EXCEPT ![<<call[h].r, call[h].d>>] = "assigned"]
          /\ call' = [call EXCEPT ![h] = [call[h] EXCEPT !.pc = "assigned", !.lapsed = FALSE]]
          /\ UNCHANGED <<rollout, desired, shadow, audit, abandoned, reportVars>>
      BY <1>1, <2>2 DEF CreateDeviceAssignment, rolloutVars
    <3> QED  BY <2>2, <3>1, CreateStep
  <2> QED  BY <2>1, <2>2
<1>2. CASE UpsertDesiredState(h)
  <2>1. /\ call[h].pc = "assigned" /\ call' = [call EXCEPT ![h].pc = "stored"]
        /\ desired' = [desired EXCEPT ![call[h].d] = call[h].r]
        /\ UNCHANGED <<rollout, assignment, shadow, audit, abandoned, reportVars>>
    BY <1>2 DEF UpsertDesiredState, rolloutVars
  <2>2. call[h].pc \in Holding /\ "stored" \in Holding
    BY <2>1 DEF Holding
  <2>3. desired'[call[h].d] = call[h].r
    BY <2>1, <2>2, Exclusive DEF TypeOK
  <2> QED  BY <2>1, <2>2, <2>3, PutStep
<1>3. CASE PutDesired(h)
  <2>1. /\ call[h].pc = "stored" /\ call' = [call EXCEPT ![h].pc = "published"]
        /\ shadow' = IF HasAdapter THEN [shadow EXCEPT ![call[h].d] = call[h].r] ELSE shadow
        /\ UNCHANGED <<rollout, assignment, desired, audit, abandoned, reportVars>>
    BY <1>3 DEF PutDesired, rolloutVars
  <2>2. call[h].pc \in Holding /\ "published" \in Holding
    BY <2>1 DEF Holding
  <2>3. desired'[call[h].d] = call[h].r
    BY <2>1 DEF RolloutsInv, CallsAreTruthful, CallIsTruthful
  <2>4. HasAdapter => shadow'[call[h].d] = call[h].r
    BY <2>1, <2>2, Exclusive DEF TypeOK
  <2>5. shadow' \in {shadow, [shadow EXCEPT ![call[h].d] = call[h].r]}
    BY <2>1
  <2> QED  BY <2>1, <2>2, <2>3, <2>4, <2>5, PutStep
<1>4. CASE PutDesiredFails(h)
  <2>1. /\ call' = [call EXCEPT ![h].pc = "unpublished"]
        /\ UNCHANGED <<rollout, assignment, desired, audit, abandoned, reportVars>>
        /\ \/ call[h].pc = "assigned" /\ shadow' = shadow
           \/ call[h].pc = "stored" /\ shadow' \in {shadow, [shadow EXCEPT ![call[h].d] = call[h].r]}
    BY <1>4 DEF PutDesiredFails, rolloutVars
  <2>2. call[h].pc \in Holding /\ "unpublished" \in Holding
    BY <2>1 DEF Holding
  <2>3. shadow' # shadow => desired'[call[h].d] = call[h].r
    BY <2>1 DEF RolloutsInv, CallsAreTruthful, CallIsTruthful
  <2>4. shadow' \in {shadow, [shadow EXCEPT ![call[h].d] = call[h].r]}
    BY <2>1
  <2> QED  BY <2>1, <2>2, <2>3, <2>4, PutStep
<1>5. CASE SaveDeviceAssignmentProjection(h)
  BY <1>5, DecideStep
<1>6. CASE RecordRolloutAudit(h)
  <2> PICK e : e = [r |-> call[h].r, d |-> call[h].d, result |-> call[h].result]
    OBVIOUS
  <2>1. /\ call[h].pc = "audit" /\ call' = [call EXCEPT ![h] = Idle] /\ audit' = audit \union {e}
        /\ UNCHANGED <<rollout, assignment, desired, shadow, abandoned, reportVars>>
    BY <1>6 DEF RecordRolloutAudit, rolloutVars
  <2>2. assignment[<<e.r, e.d>>] = e.result
    BY <2>1 DEF RolloutsInv, CallsAreTruthful, CallIsTruthful
  <2>3. call[h].pc \notin Holding
    BY <2>1 DEF Holding
  <2> QED  BY <2>1, <2>2, <2>3, EndStep
<1>7. CASE EndEarly(h)
  <2>1. /\ call' = [call EXCEPT ![h] = Idle]
        /\ UNCHANGED <<rollout, assignment, desired, shadow, audit, reportVars>>
        /\ abandoned \subseteq abandoned'
        /\ call[h].pc \in Holding => <<call[h].r, call[h].d>> \in abandoned'
    BY <1>7 DEF EndEarly, rolloutVars
  <2> QED  BY <2>1, EndStep
<1> QED  BY <1>1, <1>2, <1>3, <1>4, <1>5, <1>6, <1>7 DEF AssignStep

\* Every step keeps the invariant.
LEMMA InvStep ==
  ASSUME TypeOK, RolloutsInv, [Next]_vars
  PROVE  RolloutsInv'
<1>1. CASE UNCHANGED vars
  <2>1. UNCHANGED <<rolloutVars, assignVars, call, reportVars>>
    BY <1>1 DEF vars
  <2>2. DesiredIsAssigned'
    BY <2>1 DEF RolloutsInv, DesiredIsAssigned, assignVars, reportVars
  <2> QED  BY <2>1, <2>2, AssignmentsUntouched, ReportsUntouched DEF RolloutsInv
<1>2. ASSUME NEW w \in Reporters, ReportStep(w) PROVE RolloutsInv'
  <2>1. CASE UpsertDeviceUpdateStatus(w) /\ report[w].rep \notin ValidReports
    <3>1. /\ report' = [report EXCEPT ![w] = NoRecording] /\ report[w].started = FALSE
          /\ UNCHANGED <<rolloutVars, assignVars, call, statusRow, projection, torn>>
      <4>1. report[w].started \in BOOLEAN /\ ~report[w].started
        BY <2>1, RecordingFields DEF UpsertDeviceUpdateStatus, TypeOK
      <4>2. report[w].started = FALSE
        BY <4>1
      <4> QED  BY <2>1, <4>2 DEF UpsertDeviceUpdateStatus
    <3> QED  BY <3>1, DropStep
  <2>2. CASE ReportFails(w)
    BY <2>2, DropStep DEF ReportFails
  <2> QED  BY <1>2, <2>1, <2>2, FirstWrite, SecondWrite DEF ReportStep
<1> QED  BY <1>1, <1>2, RolloutStep, LoadStep, AssignInv, ReceiveStep DEF Next

\* Every step keeps the types.
LEMMA TypeStep ==
  ASSUME TypeOK, RolloutsInv, [Next]_vars
  PROVE  TypeOK'
<1>1. CASE UNCHANGED vars
  BY <1>1 DEF TypeOK, vars, rolloutVars, assignVars, reportVars
<1>2. ASSUME NEW r \in Rollouts, NEW s \in RequestedStatuses,
             CreateRollout(r, s) \/ ChangeRolloutStatus(r, s)
      PROVE  TypeOK'
  <2>1. rollout' \in [Rollouts -> RolloutStatuses \union {"none"}] /\ changes' \in Nat
    BY <1>2, RolloutsAssumption DEF CreateRollout, ChangeRolloutStatus, TypeOK
  <2>2. call' \in [Handlers -> Calls]
    BY <1>2, CallLapses DEF CreateRollout, ChangeRolloutStatus, TypeOK
  <2>3. UNCHANGED <<assignVars, reportVars>>
    BY <1>2 DEF CreateRollout, ChangeRolloutStatus
  <2> QED  BY <2>1, <2>2, <2>3 DEF TypeOK, assignVars, reportVars
<1>3. ASSUME NEW h \in Handlers, NEW r \in Rollouts, NEW d \in Devices, LoadRollout(h, r, d)
      PROVE  TypeOK'
  <2>1. call' \in [Handlers -> Calls]
    BY <1>3, CallLoads DEF LoadRollout, TypeOK
  <2> QED  BY <1>3, <2>1 DEF LoadRollout, TypeOK, rolloutVars, assignVars, reportVars
<1>4. ASSUME NEW h \in Handlers, AssignStep(h) PROVE TypeOK'
  <2>0. call[h] \in Calls
    BY DEF TypeOK
  <2>1. PICK n : call' = [call EXCEPT ![h] = n] /\ n \in Calls
    <3>1. \A p \in PCs : [call[h] EXCEPT !.pc = p] \in Calls
      BY <2>0, CallAdvances
    <3>2. [call[h] EXCEPT !.pc = "assigned", !.lapsed = FALSE] \in Calls
      BY <2>0, CallCreates
    <3>3. \A o \in {"projected", "projection_failed"} :
            [call[h] EXCEPT !.pc = "audit", !.result = o] \in Calls
      BY <2>0, CallDecides
    <3>4. Outcome(h) \in {"projected", "projection_failed"}
      BY DEF Outcome
    <3>5. CASE UpsertDesiredState(h) \/ PutDesired(h) \/ PutDesiredFails(h)
      BY <3>1, <3>5 DEF UpsertDesiredState, PutDesired, PutDesiredFails, PCs
    <3>6. CASE CreateDeviceAssignment(h)
      BY <3>2, <3>6, CallEnds DEF CreateDeviceAssignment
    <3>7. CASE SaveDeviceAssignmentProjection(h)
      BY <3>3, <3>4, <3>7 DEF SaveDeviceAssignmentProjection
    <3>8. CASE RecordRolloutAudit(h) \/ EndEarly(h)
      BY <3>8, CallEnds DEF RecordRolloutAudit, EndEarly
    <3> QED  BY <1>4, <3>5, <3>6, <3>7, <3>8 DEF AssignStep
  <2>2. call' \in [Handlers -> Calls]
    BY <2>1 DEF TypeOK
  <2>3. UNCHANGED <<rolloutVars, reportVars>>
    BY <1>4 DEF AssignStep, CreateDeviceAssignment, UpsertDesiredState, PutDesired,
       PutDesiredFails, SaveDeviceAssignmentProjection, RecordRolloutAudit, EndEarly
  <2>4. assignment' \in [Pairs -> AssignmentStatuses \union {"none"}]
    BY <1>4 DEF TypeOK, AssignStep, CreateDeviceAssignment, UpsertDesiredState, PutDesired,
       PutDesiredFails, SaveDeviceAssignmentProjection, RecordRolloutAudit, EndEarly, Outcome,
       AssignmentStatuses
  <2>5. CallIsTruthful(call[h])
    BY DEF RolloutsInv, CallsAreTruthful
  <2>6. /\ desired' \in [Devices -> Rollouts \union {None}]
        /\ shadow' \in [Devices -> Rollouts \union {None}]
    <3>1. CASE call[h].pc \in Holding
      <4>1. call[h].r \in Rollouts
        BY <3>1, Exclusive
      <4> QED  BY <1>4, <4>1 DEF TypeOK, AssignStep, CreateDeviceAssignment,
                UpsertDesiredState, PutDesired, PutDesiredFails,
                SaveDeviceAssignmentProjection, RecordRolloutAudit, EndEarly
    <3>2. CASE call[h].pc \notin Holding
      BY <1>4, <3>2 DEF TypeOK, AssignStep, CreateDeviceAssignment, UpsertDesiredState,
         PutDesired, PutDesiredFails, SaveDeviceAssignmentProjection, RecordRolloutAudit,
         EndEarly, Holding
    <3> QED  BY <3>1, <3>2
  <2>7. audit' \subseteq Events /\ abandoned' \subseteq Pairs
    <3>1. CASE RecordRolloutAudit(h)
      <4>1. /\ call[h].r \in Rollouts /\ call[h].d \in Devices
            /\ call[h].result \in {"projected", "projection_failed"}
        BY <2>0, <2>5, <3>1, CallFields DEF CallIsTruthful, RecordRolloutAudit
      <4> QED  BY <3>1, <4>1 DEF RecordRolloutAudit, TypeOK, Events
    <3>2. CASE EndEarly(h)
      BY <3>2, Exclusive DEF EndEarly, TypeOK, Pairs
    <3> QED  BY <1>4, <3>1, <3>2 DEF TypeOK, AssignStep, CreateDeviceAssignment,
              UpsertDesiredState, PutDesired, PutDesiredFails, SaveDeviceAssignmentProjection
  <2> QED  BY <2>2, <2>3, <2>4, <2>6, <2>7 DEF TypeOK, rolloutVars, reportVars
<1>5. ASSUME NEW w \in Reporters, NEW d \in Devices, NEW rep \in SampleReports,
             ReceiveReport(w, d, rep)
      PROVE  TypeOK'
  <2>1. /\ report' = [report EXCEPT ![w] = [NoRecording EXCEPT !.d = d, !.rep = rep]]
        /\ reports' \in Nat
    BY <1>5 DEF ReceiveReport, TypeOK
  <2>2. [NoRecording EXCEPT !.d = d, !.rep = rep] \in Recordings
    BY RecordingArrives
  <2>3. report' \in [Reporters -> Recordings]
    BY <2>1, <2>2 DEF TypeOK
  <2> QED  BY <1>5, <2>1, <2>3 DEF ReceiveReport, TypeOK, rolloutVars, assignVars
<1>6. ASSUME NEW w \in Reporters, ReportStep(w) PROVE TypeOK'
  <2>1. report' \in [Reporters -> Recordings]
    BY <1>6, RecordingEnds, RecordingStarts, RecordingMeets
    DEF ReportStep, UpsertDeviceUpdateStatus, UpsertUpdateProjection, ReportFails, TypeOK
  <2>2. report[w].started => report[w].d \in Devices /\ report[w].rep \in ValidReports
    BY RecordingFields DEF RolloutsInv, ReportsAreTruthful, TypeOK
  <2>3. torn' \subseteq Devices
    BY <1>6, <2>2
    DEF ReportStep, UpsertDeviceUpdateStatus, UpsertUpdateProjection, ReportFails, TypeOK
  <2>4. statusRow' \in [Devices -> ValidReports \union {NoReport}]
    BY <1>6
    DEF ReportStep, UpsertDeviceUpdateStatus, UpsertUpdateProjection, ReportFails, TypeOK
  <2>5. projection' \in [Devices -> Projections]
    <3>1. report[w].started =>
            [rep |-> report[w].rep, convergence |-> ConvergenceStatusForUpdate(report[w].rep)]
              \in Projections
      BY <2>2, ConvergenceType DEF Projections
    <3> QED  BY <1>6, <3>1
             DEF ReportStep, UpsertDeviceUpdateStatus, UpsertUpdateProjection, ReportFails, TypeOK
  <2>6. UNCHANGED <<rolloutVars, assignVars, call, reports>>
    BY <1>6 DEF ReportStep, UpsertDeviceUpdateStatus, UpsertUpdateProjection, ReportFails
  <2> QED  BY <2>1, <2>3, <2>4, <2>5, <2>6 DEF TypeOK, rolloutVars, assignVars
<1> QED  BY <1>1, <1>2, <1>3, <1>4, <1>5, <1>6 DEF Next

-------------------------------------------------------------------------------
(***************************************************************************)
(* Theorems.                                                               *)
(***************************************************************************)

\* There is nothing at first.
LEMMA InitInv == Init => TypeOK /\ RolloutsInv
<1> SUFFICES ASSUME Init PROVE TypeOK /\ RolloutsInv
  OBVIOUS
<1>1. TypeOK
  <2>1. NoProjection \in Projections
    BY DEF NoProjection, Projections
  <2> QED  BY <2>1, CallEnds, RecordingEnds DEF Init, TypeOK
<1>2. OneAssignmentPerDevice /\ ProjectedIsDesired /\ OpenIsHeldOrAbandoned /\ AuditTellsTruth
  BY CallEnds DEF Init, OneAssignmentPerDevice, ProjectedIsDesired, OpenIsHeldOrAbandoned,
     AuditTellsTruth, Pairs, Holding
<1>3. CallsAreTruthful
  BY CallEnds DEF Init, CallsAreTruthful, CallIsTruthful, Holding
<1>4. DesiredIsAssigned /\ ReportsAreTruthful /\ RowsAgreeUnlessTorn
  BY RecordingEnds, RolloutsAssumption
  DEF Init, DesiredIsAssigned, ReportsAreTruthful, RowsAgreeUnlessTorn, NoProjection, NoReport
<1> QED  BY <1>1, <1>2, <1>3, <1>4 DEF RolloutsInv

\* The invariant of assignments and reports, with the types, holds in every
\* state (AssignDevice and RecordReportedUpdateStatus).
THEOREM Invariance == Spec => [](TypeOK /\ RolloutsInv)
<1>1. TypeOK /\ RolloutsInv /\ [Next]_vars => TypeOK' /\ RolloutsInv'
  BY TypeStep, InvStep
<1> QED  BY <1>1, InitInv, PTL DEF Spec

\* Types are kept by every operation.
THEOREM TypeCorrect == Spec => []TypeOK
BY Invariance, PTL

\* An assignment saved as projected stays the desired state of its device
\* (AssignDevice).
THEOREM ProjectionHolds == Spec => []ProjectedIsDesired
<1>1. RolloutsInv => ProjectedIsDesired
  BY DEF RolloutsInv
<1> QED  BY <1>1, Invariance, PTL

\* The two rows of a device's report agree, unless reports overlapped or failed
\* halfway (RecordReportedUpdateStatus).
THEOREM RowsAgree == Spec => []RowsAgreeUnlessTorn
<1>1. RolloutsInv => RowsAgreeUnlessTorn
  BY DEF RolloutsInv
<1> QED  BY <1>1, Invariance, PTL

\* A device shown as converged on the version in its shadow runs the version that
\* was assigned to it (convergenceStatusForUpdate, and PutDesired, which stores
\* before it publishes), whatever versions its other reports name.
THEOREM ConvergenceIsEarned == Spec => []ConvergedIsAssigned
<1>1. TypeOK /\ RolloutsInv => ConvergedIsAssigned
  <2> SUFFICES ASSUME TypeOK, RolloutsInv, NEW d \in Devices,
                      projection[d].convergence = "converged",
                      projection[d].rep.desired = shadow[d], shadow[d] # None
               PROVE  /\ projection[d].rep.installed = desired[d]
                      /\ assignment[<<projection[d].rep.installed, d>>] # "none"
    BY DEF ConvergedIsAssigned
  <2>1. projection[d] # NoProjection
    BY DEF NoProjection
  <2>2. ConvergenceStatusForUpdate(projection[d].rep) = "converged"
    BY <2>1 DEF RolloutsInv, ReportsAreTruthful
  <2>3. projection[d].rep.installed = projection[d].rep.desired
    BY <2>2 DEF ConvergenceStatusForUpdate
  <2>4. shadow[d] = desired[d] /\ assignment[<<desired[d], d>>] # "none"
    BY DEF RolloutsInv, DesiredIsAssigned
  <2> QED  BY <2>3, <2>4
<1> QED  BY <1>1, Invariance, PTL

\* An assignment is created from an active rollout, or from one that lapsed after
\* it was read (AssignDevice).
THEOREM AssignmentNeedsActiveRollout == Spec => AssignedOnlyWhileActive
<1>1. TypeOK /\ RolloutsInv /\ [Next]_vars =>
        [\A r \in Rollouts, d \in Devices :
           assignment[<<r, d>>] = "none" /\ assignment'[<<r, d>>] # "none" =>
             \/ rollout[r] = "active"
             \/ \E h \in Handlers : call[h].r = r /\ call[h].d = d /\ call[h].lapsed]_vars
  <2> SUFFICES ASSUME TypeOK, RolloutsInv, [Next]_vars, NEW r \in Rollouts, NEW d \in Devices,
                      assignment[<<r, d>>] = "none", assignment'[<<r, d>>] # "none"
               PROVE  \/ rollout[r] = "active"
                      \/ \E h \in Handlers : call[h].r = r /\ call[h].d = d /\ call[h].lapsed
    OBVIOUS
  <2>0. <<r, d>> \in Pairs
    BY DEF Pairs
  <2>1. ASSUME NEW h \in Handlers, SaveDeviceAssignmentProjection(h) PROVE FALSE
    <3>1. call[h].pc \in Holding
      BY <2>1 DEF SaveDeviceAssignmentProjection, Holding
    <3>2. <<r, d>> # <<call[h].r, call[h].d>>
      BY <3>1, Exclusive
    <3> QED  BY <2>0, <2>1, <3>2 DEF SaveDeviceAssignmentProjection, TypeOK
  <2>2. ASSUME NEW h \in Handlers, CreateDeviceAssignment(h)
        PROVE  \/ rollout[r] = "active"
               \/ call[h].r = r /\ call[h].d = d /\ call[h].lapsed
    <3>1. <<r, d>> = <<call[h].r, call[h].d>> /\ call[h].pc = "loaded"
      BY <2>0, <2>2 DEF CreateDeviceAssignment, TypeOK
    <3> QED  BY <3>1 DEF RolloutsInv, CallsAreTruthful, CallIsTruthful
  <2>3. ASSUME NEW h \in Handlers, AssignStep(h), ~CreateDeviceAssignment(h),
               ~SaveDeviceAssignmentProjection(h)
        PROVE  assignment' = assignment
    BY <2>3 DEF AssignStep, UpsertDesiredState, PutDesired, PutDesiredFails,
       RecordRolloutAudit, EndEarly
  <2>4. ASSUME NEW w \in Reporters, ReportStep(w) PROVE assignment' = assignment
    BY <2>4 DEF ReportStep, UpsertDeviceUpdateStatus, UpsertUpdateProjection, ReportFails,
       assignVars
  <2> QED  BY <2>1, <2>2, <2>3, <2>4
           DEF Next, CreateRollout, ChangeRolloutStatus, LoadRollout, ReceiveReport, assignVars, vars
<1> QED  BY <1>1, Invariance, PTL DEF Spec, AssignedOnlyWhileActive

-------------------------------------------------------------------------------
(***************************************************************************)
(* Releases: versions and their order.                                     *)
(***************************************************************************)

\* Every set of natural numbers that is not empty has a least one: the form in
\* which the proofs below use induction.
LEMMA LeastNumber ==
  ASSUME NEW T \in SUBSET Nat, T # {}
  PROVE  \E n \in T : \A m \in T : n <= m
<1>1. PICK x \in T : \A y \in T : ~(<<y, x>> \in OpToRel(<, Nat))
  BY NatLessThanWellFounded, WFMin
<1>2. ASSUME NEW m \in T PROVE x <= m
  <2>1. ~(m < x)
    BY <1>1 DEF OpToRel
  <2> QED BY <2>1
<1> QED BY <1>2

\* The numbers of a version, and the zeros after them.
LEMMA PartsType ==
  ASSUME NEW v \in Dotted
  PROVE  /\ Parses(v) /\ v \notin {Absent, Malformed}
         /\ Len(v.parts) \in 1..MaxParts
         /\ \A i \in Nat \ {0} : PartAt(v.parts, i) \in 0..MaxPart
         /\ \A i \in Nat : i > Len(v.parts) => PartAt(v.parts, i) = 0
<1>0. PICK n \in 1..MaxParts :
        \E p \in [1..n -> 0..MaxPart], t \in BOOLEAN : v = Text("dotted", p, t)
  BY DEF Dotted
<1>1. PICK p \in [1..n -> 0..MaxPart], t \in BOOLEAN : v = Text("dotted", p, t)
  BY <1>0
<1>2. n \in Nat /\ MaxPart \in Nat /\ MaxParts \in Nat
  BY ReleasesAssumption
<1>3. p \in Seq(0..MaxPart)
  BY <1>2, SeqDef
<1>4. Len(p) = n
  BY <1>2, <1>3, LenProperties
<1>5. v.parts = p /\ v.kind = "dotted"
  BY <1>1 DEF Text
<1>6. Absent.kind = "absent" /\ Malformed.kind = "malformed"
  BY DEF Absent, Malformed, Text
<1>7. ASSUME NEW i \in Nat \ {0} PROVE PartAt(p, i) \in 0..MaxPart
  BY <1>2, <1>4 DEF PartAt
<1>8. ASSUME NEW i \in Nat, i > Len(p) PROVE PartAt(p, i) = 0
  BY <1>2, <1>4, <1>8 DEF PartAt
<1> QED BY <1>4, <1>5, <1>6, <1>7, <1>8 DEF Parses

\* A version that is there and is not malformed is dotted.
LEMMA ParsedIsDotted ==
  ASSUME NEW v \in Texts
  PROVE  /\ v \notin {Absent, Malformed} => v \in Dotted
         /\ Parses(v) => v \in Dotted
BY DEF Texts, Absent, Malformed, Text, Parses

\* f reads the first n numbers of p, one digit after the other.
Reads(f, p, n) ==
  /\ f \in [0..n -> Nat]
  /\ f[0] = 0
  /\ \A i \in 1..n : f[i] = f[i - 1] * (MaxPart + 1) + PartAt(p, i)

\* Every version can be read to any length.
LEMMA ReadsExist ==
  ASSUME NEW v \in Dotted, NEW n \in 0..MaxParts
  PROVE  \E f : Reads(f, v.parts, n)
<1> DEFINE T == {m \in 0..MaxParts : ~\E f : Reads(f, v.parts, m)}
<1>a. MaxPart \in Nat /\ MaxParts \in Nat
  BY ReleasesAssumption
<1> SUFFICES ASSUME T # {} PROVE FALSE
  OBVIOUS
<1>1. PICK m \in T : \A k \in T : m <= k
  <2>1. T \in SUBSET Nat /\ T # {}
    BY <1>a
  <2> HIDE DEF T
  <2> QED BY <2>1, LeastNumber
<1>2. m # 0
  <2>1. Reads([i \in 0..0 |-> 0], v.parts, 0)
    BY DEF Reads
  <2> QED BY <1>1, <2>1
<1>3. PICK f : Reads(f, v.parts, m - 1)
  <2>1. m - 1 \in 0..MaxParts /\ m - 1 \notin T
    BY <1>a, <1>1, <1>2
  <2> QED BY <2>1
<1> DEFINE last == f[m - 1] * (MaxPart + 1) + PartAt(v.parts, m)
           g == [i \in 0..m |-> IF i = m THEN last ELSE f[i]]
<1>4. last \in Nat
  <2>1. f[m - 1] \in Nat /\ PartAt(v.parts, m) \in Nat
    BY <1>a, <1>1, <1>2, <1>3, PartsType DEF Reads
  <2> QED BY <1>a, <2>1
<1>5. Reads(g, v.parts, m)
  <2>1. g \in [0..m -> Nat]
    BY <1>a, <1>1, <1>2, <1>3, <1>4 DEF Reads
  <2>2. g[0] = 0
    BY <1>a, <1>1, <1>2, <1>3 DEF Reads
  <2>3. ASSUME NEW i \in 1..m PROVE g[i] = g[i - 1] * (MaxPart + 1) + PartAt(v.parts, i)
    <3>1. g[i - 1] = f[i - 1]
      BY <1>a, <1>1, <1>2, <2>3
    <3>2. CASE i = m
      BY <1>a, <1>1, <3>1, <3>2
    <3>3. CASE i # m
      <4>1. i \in 1..(m - 1) /\ g[i] = f[i]
        BY <1>a, <1>1, <2>3, <3>3
      <4> QED BY <1>3, <3>1, <4>1 DEF Reads
    <3> QED BY <3>2, <3>3
  <2> HIDE DEF g, last
  <2> QED BY <2>1, <2>2, <2>3 DEF Reads
<1> QED BY <1>1, <1>5

\* Reading is the last number of such a function: the recursion has one solution.
LEMMA ReadingReads ==
  ASSUME NEW v \in Dotted
  PROVE  \E f : Reads(f, v.parts, MaxParts) /\ Reading(v) = f[MaxParts]
<1>a. MaxPart \in Nat /\ MaxParts \in Nat
  BY ReleasesAssumption
<1>1. PICK f : Reads(f, v.parts, MaxParts)
  BY <1>a, ReadsExist
<1>2. f = [i \in 0..MaxParts |->
             IF i = 0 THEN 0 ELSE f[i - 1] * (MaxPart + 1) + PartAt(v.parts, i)]
  BY <1>a, <1>1 DEF Reads
<1>3. PICK h : /\ h = [i \in 0..MaxParts |->
                         IF i = 0 THEN 0 ELSE h[i - 1] * (MaxPart + 1) + PartAt(v.parts, i)]
               /\ Reading(v) = h[MaxParts]
  BY <1>2 DEF Reading
<1>4. /\ h[0] = 0
      /\ \A i \in 1..MaxParts : h[i] = h[i - 1] * (MaxPart + 1) + PartAt(v.parts, i)
  BY <1>a, <1>3
<1> DEFINE T == {i \in 0..MaxParts : h[i] # f[i]}
<1>5. T = {}
  <2> SUFFICES ASSUME T # {} PROVE FALSE
    OBVIOUS
  <2>1. PICK m \in T : \A k \in T : m <= k
    <3>1. T \in SUBSET Nat /\ T # {}
      BY <1>a
    <3> HIDE DEF T
    <3> QED BY <3>1, LeastNumber
  <2>2. m # 0
    BY <1>1, <1>4, <2>1 DEF Reads
  <2>3. h[m - 1] = f[m - 1] /\ m \in 1..MaxParts
    BY <1>a, <2>1, <2>2
  <2> QED BY <1>1, <1>4, <2>1, <2>3 DEF Reads
<1>6. h[MaxParts] = f[MaxParts]
  BY <1>a, <1>5
<1> QED BY <1>1, <1>3, <1>6

\* A larger number stays larger, whatever digits follow.
LEMMA Carry ==
  ASSUME NEW a \in Nat, NEW b \in Nat, NEW base \in Nat, NEW p \in Nat, NEW q \in Nat,
         a < b, p < base
  PROVE  a * base + p < b * base + q
<1>1. PICK d \in Nat : b = a + 1 + d
  <2>1. b - a - 1 \in Nat /\ b = a + 1 + (b - a - 1)
    OBVIOUS
  <2> QED BY <2>1
<1>2. b * base = a * base + base + d * base
  BY <1>1
<1>3. d * base \in Nat /\ a * base \in Nat
  OBVIOUS
<1> QED BY <1>2, <1>3

\* Two versions that agree up to k read the same up to k.
LEMMA EqualPrefix ==
  ASSUME NEW p, NEW q, NEW f, NEW g, Reads(f, p, MaxParts), Reads(g, q, MaxParts),
         NEW k \in 0..MaxParts, \A i \in 1..k : PartAt(p, i) = PartAt(q, i)
  PROVE  f[k] = g[k]
<1>a. MaxPart \in Nat /\ MaxParts \in Nat
  BY ReleasesAssumption
<1> DEFINE T == {i \in 0..k : f[i] # g[i]}
<1> SUFFICES ASSUME T # {} PROVE FALSE
  BY <1>a
<1>1. PICK m \in T : \A j \in T : m <= j
  <2>1. T \in SUBSET Nat /\ T # {}
    BY <1>a
  <2> HIDE DEF T
  <2> QED BY <2>1, LeastNumber
<1>2. m # 0
  BY <1>1 DEF Reads
<1>3. f[m - 1] = g[m - 1] /\ m \in 1..MaxParts /\ m \in 1..k
  BY <1>a, <1>1, <1>2
<1> QED BY <1>1, <1>3 DEF Reads

\* The first number that differs decides.
LEMMA FirstDecides ==
  ASSUME NEW u \in Dotted, NEW v \in Dotted, NEW k \in 1..MaxParts,
         \A i \in 1..(k - 1) : PartAt(u.parts, i) = PartAt(v.parts, i),
         PartAt(u.parts, k) < PartAt(v.parts, k)
  PROVE  Reading(u) < Reading(v)
<1>a. MaxPart \in Nat /\ MaxParts \in Nat
  BY ReleasesAssumption
<1>1. PICK f : Reads(f, u.parts, MaxParts) /\ Reading(u) = f[MaxParts]
  BY ReadingReads
<1>2. PICK g : Reads(g, v.parts, MaxParts) /\ Reading(v) = g[MaxParts]
  BY ReadingReads
<1>3. \A i \in 1..MaxParts :
        /\ PartAt(u.parts, i) \in 0..MaxPart /\ PartAt(v.parts, i) \in 0..MaxPart
        /\ f[i - 1] \in Nat /\ g[i - 1] \in Nat
        /\ f[i] = f[i - 1] * (MaxPart + 1) + PartAt(u.parts, i)
        /\ g[i] = g[i - 1] * (MaxPart + 1) + PartAt(v.parts, i)
  <2> SUFFICES ASSUME NEW i \in 1..MaxParts
               PROVE  /\ PartAt(u.parts, i) \in 0..MaxPart /\ PartAt(v.parts, i) \in 0..MaxPart
                      /\ f[i - 1] \in Nat /\ g[i - 1] \in Nat
                      /\ f[i] = f[i - 1] * (MaxPart + 1) + PartAt(u.parts, i)
                      /\ g[i] = g[i - 1] * (MaxPart + 1) + PartAt(v.parts, i)
    OBVIOUS
  <2>1. i \in Nat \ {0} /\ i - 1 \in 0..MaxParts
    BY <1>a
  <2>2. PartAt(u.parts, i) \in 0..MaxPart /\ PartAt(v.parts, i) \in 0..MaxPart
    BY <2>1, PartsType
  <2>3. f[i - 1] \in Nat /\ g[i - 1] \in Nat
    BY <1>1, <1>2, <2>1 DEF Reads
  <2> QED BY <1>1, <1>2, <2>2, <2>3 DEF Reads
<1>4. f[k - 1] = g[k - 1]
  BY <1>a, <1>1, <1>2, EqualPrefix
<1>5. f[k] < g[k]
  <2>1. PICK c \in Nat : c = f[k - 1] * (MaxPart + 1)
    BY <1>a, <1>3
  <2>2. f[k] = c + PartAt(u.parts, k) /\ g[k] = c + PartAt(v.parts, k)
    BY <1>3, <1>4, <2>1
  <2> QED BY <1>3, <2>2
<1> DEFINE T == {i \in k..MaxParts : ~(f[i] < g[i])}
<1>6. T = {}
  <2> SUFFICES ASSUME T # {} PROVE FALSE
    OBVIOUS
  <2>1. PICK m \in T : \A j \in T : m <= j
    <3>1. T \in SUBSET Nat /\ T # {}
      BY <1>a
    <3> HIDE DEF T
    <3> QED BY <3>1, LeastNumber
  <2>2. m # k /\ m \in 1..MaxParts
    BY <1>a, <1>5, <2>1
  <2>3. m - 1 \in k..MaxParts /\ m - 1 \notin T
    BY <1>a, <2>1, <2>2
  <2>4. f[m - 1] < g[m - 1]
    BY <2>3
  <2>5. /\ f[m - 1] \in Nat /\ g[m - 1] \in Nat
        /\ PartAt(u.parts, m) \in 0..MaxPart /\ PartAt(v.parts, m) \in 0..MaxPart
        /\ f[m] = f[m - 1] * (MaxPart + 1) + PartAt(u.parts, m)
        /\ g[m] = g[m - 1] * (MaxPart + 1) + PartAt(v.parts, m)
    BY <1>3, <2>2
  <2>6. f[m] < g[m]
    BY <1>a, <2>4, <2>5, Carry
  <2> QED BY <2>1, <2>6
<1>7. f[MaxParts] < g[MaxParts]
  BY <1>a, <1>6
<1> QED BY <1>1, <1>2, <1>7

\* Two dotted versions compare as the numbers they stand for, whatever their lengths
\* and tags: the answer is the sign of the first part that differs
\* (CompareDottedVersion).
THEOREM CompareIsOrder ==
  ASSUME NEW u \in Dotted, NEW v \in Dotted
  PROVE  /\ Reading(u) \in Nat /\ Reading(v) \in Nat
         /\ CompareDottedVersion(u, v) \in {-1, 0, 1}
         /\ (CompareDottedVersion(u, v) < 0) <=> (Reading(u) < Reading(v))
         /\ (CompareDottedVersion(u, v) > 0) <=> (Reading(v) < Reading(u))
<1>a. MaxPart \in Nat /\ MaxParts \in Nat
  BY ReleasesAssumption
<1> DEFINE l == u.parts
           r == v.parts
           longer == IF Len(l) < Len(r) THEN Len(r) ELSE Len(l)
           differ == {i \in 1..longer : PartAt(l, i) # PartAt(r, i)}
           first == CHOOSE i \in differ : \A j \in differ : i <= j
           sign == IF differ = {} THEN 0
                   ELSE IF PartAt(l, first) < PartAt(r, first) THEN -1 ELSE 1
<1>0. CompareDottedVersion(u, v) = sign
  BY DEF CompareDottedVersion, ParseDottedVersion
<1>1. /\ Len(l) \in 1..MaxParts /\ Len(r) \in 1..MaxParts
      /\ \A i \in Nat \ {0} : PartAt(l, i) \in 0..MaxPart /\ PartAt(r, i) \in 0..MaxPart
      /\ \A i \in Nat : i > Len(l) => PartAt(l, i) = 0
      /\ \A i \in Nat : i > Len(r) => PartAt(r, i) = 0
  BY PartsType
<1>2. /\ longer \in 1..MaxParts /\ Len(l) <= longer /\ Len(r) <= longer
  BY <1>a, <1>1
<1>3. PICK f : Reads(f, u.parts, MaxParts) /\ Reading(u) = f[MaxParts]
  BY ReadingReads
<1>4. PICK g : Reads(g, v.parts, MaxParts) /\ Reading(v) = g[MaxParts]
  BY ReadingReads
<1>5. Reading(u) \in Nat /\ Reading(v) \in Nat
  BY <1>a, <1>3, <1>4 DEF Reads
<1>6. CASE differ = {}
  <2>1. ASSUME NEW i \in 1..MaxParts PROVE PartAt(l, i) = PartAt(r, i)
    <3>1. CASE i <= longer
      BY <1>a, <1>2, <1>6, <3>1
    <3>2. CASE i > longer
      <4>1. i \in Nat /\ i > Len(l) /\ i > Len(r)
        BY <1>a, <1>1, <1>2, <3>2
      <4> QED BY <1>1, <4>1
    <3> QED BY <1>a, <1>2, <3>1, <3>2
  <2>2. MaxParts \in 0..MaxParts
    BY <1>a
  <2>3. f[MaxParts] = g[MaxParts]
    BY <1>3, <1>4, <2>1, <2>2, EqualPrefix
  <2>4. sign = 0
    BY <1>6
  <2> HIDE DEF sign
  <2> QED BY <1>0, <1>3, <1>4, <1>5, <2>3, <2>4
<1>7. CASE differ # {}
  <2>1. PICK k \in differ : \A j \in differ : k <= j
    <3>1. differ \in SUBSET Nat /\ differ # {}
      BY <1>a, <1>2, <1>7
    <3> HIDE DEF differ
    <3> QED BY <3>1, LeastNumber
  <2>2. k = first
    <3>1. differ \in SUBSET Nat
      BY <1>a, <1>2
    <3>2. first \in differ /\ \A j \in differ : first <= j
      <4> HIDE DEF differ
      <4> QED BY <2>1
    <3> HIDE DEF differ, first
    <3>3. k <= first /\ first <= k /\ k \in Nat /\ first \in Nat
      BY <2>1, <3>1, <3>2
    <3> QED BY <3>3
  <2>3. /\ k \in 1..MaxParts /\ k <= longer /\ k \in Nat \ {0}
        /\ PartAt(l, k) # PartAt(r, k)
    BY <1>a, <1>2, <2>1
  <2>4. ASSUME NEW i \in 1..(k - 1) PROVE PartAt(l, i) = PartAt(r, i)
    <3>1. i \in 1..longer /\ i < k
      BY <1>a, <1>2, <2>3
    <3>2. i \notin differ
      <4> HIDE DEF differ
      <4>1. k \in Nat /\ i \in Nat
        BY <2>3
      <4> QED BY <2>1, <3>1, <4>1
    <3> QED BY <3>1, <3>2
  <2>5. PartAt(l, k) \in Nat /\ PartAt(r, k) \in Nat
    BY <1>a, <1>1, <2>3
  <2>6. sign = IF PartAt(l, k) < PartAt(r, k) THEN -1 ELSE 1
    <3> HIDE DEF differ, first
    <3> QED BY <1>7, <2>2
  <2> HIDE DEF sign, differ, first, longer
  <2>7. CASE PartAt(l, k) < PartAt(r, k)
    <3>1. Reading(u) < Reading(v)
      BY <2>3, <2>4, <2>7, FirstDecides
    <3> QED BY <1>0, <1>5, <2>6, <2>7, <3>1
  <2>8. CASE PartAt(r, k) < PartAt(l, k)
    <3>1. Reading(v) < Reading(u)
      BY <2>3, <2>4, <2>8, FirstDecides
    <3> QED BY <1>0, <1>5, <2>5, <2>6, <2>8, <3>1
  <2> QED BY <2>3, <2>5, <2>7, <2>8
<1> QED BY <1>6, <1>7

-------------------------------------------------------------------------------
(***************************************************************************)
(* Windows of compatibility.                                               *)
(***************************************************************************)

\* A bound that parses is respected as the number it stands for
\* (VersionWithin).
LEMMA WithinIsBetween ==
  ASSUME NEW v \in Texts \ {Malformed}, NEW min \in Texts \ {Malformed},
         NEW max \in Texts \ {Malformed}
  PROVE  /\ Between(v, min, max) => VersionWithin(v, min, max) = "in"
         /\ ~Between(v, min, max) => VersionWithin(v, min, max) = "out"
<1>1. ASSUME NEW t \in Texts \ {Malformed}, t # Absent PROVE t \in Dotted /\ Parses(t)
  BY <1>1, ParsedIsDotted, PartsType
<1>2. ASSUME v # Absent, min # Absent
      PROVE  /\ Parses(v) /\ Parses(min)
             /\ CompareDottedVersion(v, min) < 0 <=> ~(Reading(min) <= Reading(v))
  BY <1>1, <1>2, CompareIsOrder
<1>3. ASSUME v # Absent, max # Absent
      PROVE  /\ Parses(v) /\ Parses(max)
             /\ CompareDottedVersion(v, max) > 0 <=> ~(Reading(v) <= Reading(max))
  BY <1>1, <1>3, CompareIsOrder
<1>4. CASE v = Absent
  BY <1>4 DEF Between, VersionWithin
<1>5. CASE v # Absent
  <2>1. CASE min # Absent /\ ~(Reading(min) <= Reading(v))
    BY <1>2, <1>5, <2>1 DEF Between, VersionWithin
  <2>2. CASE min = Absent \/ Reading(min) <= Reading(v)
    <3>1. ~(min # Absent /\ ~(Parses(v) /\ Parses(min)))
      BY <1>2, <1>5
    <3>2. ~(min # Absent /\ CompareDottedVersion(v, min) < 0)
      BY <1>2, <1>5, <2>2
    <3>3. CASE max # Absent /\ ~(Reading(v) <= Reading(max))
      BY <1>3, <1>5, <3>1, <3>2, <3>3 DEF Between, VersionWithin
    <3>4. CASE max = Absent \/ Reading(v) <= Reading(max)
      BY <1>3, <1>5, <2>2, <3>1, <3>2, <3>4 DEF Between, VersionWithin
    <3> QED BY <3>3, <3>4
  <2> QED BY <2>1, <2>2
<1> QED BY <1>4, <1>5

\* So are the bounds of a window (MatchesCompatibilityWindow).
LEMMA MatchIsHold ==
  ASSUME NEW w \in Windows, WellFormed(w),
         NEW p \in Versions \ {Malformed}, NEW v \in Versions \ {Malformed}
  PROVE  /\ Holds(w, p, v) => MatchesCompatibilityWindow(w, p, v) = "in"
         /\ ~Holds(w, p, v) => MatchesCompatibilityWindow(w, p, v) = "out"
<1>1. /\ w.minP \in Texts \ {Malformed} /\ w.maxP \in Texts \ {Malformed}
      /\ w.minH \in Texts \ {Malformed} /\ w.maxH \in Texts \ {Malformed}
  BY ReleasesAssumption DEF WellFormed
<1>2. p \in Texts \ {Malformed} /\ v \in Texts \ {Malformed}
  BY ReleasesAssumption
<1>3. /\ Between(p, w.minP, w.maxP) => VersionWithin(p, w.minP, w.maxP) = "in"
      /\ ~Between(p, w.minP, w.maxP) => VersionWithin(p, w.minP, w.maxP) = "out"
  BY <1>1, <1>2, WithinIsBetween
<1>4. /\ Between(v, w.minH, w.maxH) => VersionWithin(v, w.minH, w.maxH) = "in"
      /\ ~Between(v, w.minH, w.maxH) => VersionWithin(v, w.minH, w.maxH) = "out"
  BY <1>1, <1>2, WithinIsBetween
<1> QED BY <1>3, <1>4 DEF Holds, MatchesCompatibilityWindow

\* The first window that holds the device decides, for any windows.
LEMMA FirstHitDecides ==
  ASSUME ReleasesTypeOK
  PROVE  SupportIsSound
<1> DEFINE ws == artifact.windows
<1> SUFFICES ASSUME \A i \in 1..Len(ws) : WellFormed(ws[i]),
                    NEW p \in Versions \ {Malformed}, NEW v \in Versions \ {Malformed}
             PROVE  (CompatibilityForVersion(p, v) = "supported") =
                      /\ artifact.status = "published"
                      /\ \E i \in 1..Len(ws) :
                           /\ ws[i].supported /\ Holds(ws[i], p, v)
                           /\ \A j \in 1..(i - 1) : ~Holds(ws[j], p, v)
  BY DEF SupportIsSound
<1> DEFINE Match(i) == MatchesCompatibilityWindow(ws[i], p, v)
           hits == {i \in 1..Len(ws) : Match(i) # "out"}
           first == CHOOSE i \in hits : \A j \in hits : i <= j
           answer == IF artifact.status = "none" THEN "unsupported_version"
                     ELSE IF artifact.status # "published" THEN "release_unavailable"
                     ELSE IF hits = {} THEN "outside_compatibility_window"
                     ELSE IF Match(first) = "error" THEN "error"
                     ELSE IF ws[first].supported THEN "supported" ELSE "unsupported_window"
           Good(i) == /\ ws[i].supported /\ Holds(ws[i], p, v)
                      /\ \A j \in 1..(i - 1) : ~Holds(ws[j], p, v)
<1>0. CompatibilityForVersion(p, v) = answer
  BY DEF CompatibilityForVersion
<1>1. ws \in Seq(Windows) /\ Len(ws) \in Nat
  BY DEF ReleasesTypeOK
<1>2. ASSUME NEW i \in 1..Len(ws)
      PROVE  /\ Holds(ws[i], p, v) => Match(i) = "in"
             /\ ~Holds(ws[i], p, v) => Match(i) = "out"
  <2>1. ws[i] \in Windows /\ WellFormed(ws[i])
    BY <1>1
  <2> QED BY <2>1, MatchIsHold
<1>3. \A i \in 1..Len(ws) : i \in hits <=> Holds(ws[i], p, v)
  BY <1>2
<1>4. CASE artifact.status # "published"
  <2>1. answer # "supported"
    BY <1>4
  <2> QED BY <1>0, <1>4, <2>1
<1>5. CASE artifact.status = "published" /\ hits = {}
  <2>1. answer # "supported"
    BY <1>5
  <2>2. ~\E i \in 1..Len(ws) : Good(i)
    <3> HIDE DEF hits
    <3> QED BY <1>3, <1>5
  <2> QED BY <1>0, <2>1, <2>2
<1>6. CASE artifact.status = "published" /\ hits # {}
  <2>1. hits \in SUBSET Nat /\ hits # {}
    BY <1>1, <1>6
  <2>2. first \in hits /\ \A j \in hits : first <= j
    <3> HIDE DEF hits
    <3>1. \E n \in hits : \A m \in hits : n <= m
      BY <2>1, LeastNumber
    <3> QED BY <3>1
  <2>3. first \in 1..Len(ws)
    <3> HIDE DEF first
    <3> QED BY <2>2
  <2> HIDE DEF hits, first
  <2>4. Holds(ws[first], p, v) /\ Match(first) = "in"
    BY <1>2, <1>3, <2>2, <2>3
  <2>5. answer = IF ws[first].supported THEN "supported" ELSE "unsupported_window"
    BY <1>6, <2>4
  <2>6. \A j \in 1..(first - 1) : ~Holds(ws[j], p, v)
    <3> SUFFICES ASSUME NEW j \in 1..(first - 1), Holds(ws[j], p, v) PROVE FALSE
      OBVIOUS
    <3>1. j \in 1..Len(ws) /\ j < first
      BY <1>1, <2>3
    <3>2. j \in hits
      BY <1>3, <3>1
    <3>3. first <= j /\ first \in Nat /\ j \in Nat
      BY <2>1, <2>2, <3>2
    <3> QED BY <3>1, <3>3
  <2>7. ASSUME NEW i \in 1..Len(ws), Good(i) PROVE i = first
    <3>1. i \in hits
      BY <1>3, <2>7
    <3>2. first <= i /\ first \in Nat \ {0} /\ i \in Nat
      BY <2>1, <2>2, <2>3, <3>1
    <3>3. ~(first < i)
      <4> SUFFICES ASSUME first < i PROVE FALSE
        OBVIOUS
      <4>1. first \in 1..(i - 1)
        BY <3>2
      <4> QED BY <2>4, <2>7, <4>1
    <3> QED BY <3>2, <3>3
  <2>8. (\E i \in 1..Len(ws) : Good(i)) <=> ws[first].supported
    BY <2>3, <2>4, <2>6, <2>7
  <2> HIDE DEF answer
  <2> QED BY <1>0, <1>6, <2>5, <2>8
<1> QED BY <1>4, <1>5, <1>6

-------------------------------------------------------------------------------
(***************************************************************************)
(* The catalogue and the advisory.                                         *)
(***************************************************************************)

\* The types of the constants and of the values built from them.
LEMMA RowTypes ==
  /\ TTL \in Nat /\ MaxClock \in Nat /\ MaxRegistrations \in Nat /\ MaxRefreshes \in Nat
  /\ Absent \in Texts /\ ~Parses(Absent)
  /\ NoCatalog \in Catalogs /\ ActiveParses(NoCatalog)
BY ReleasesAssumption DEF Texts, Absent, Text, Parses, NoCatalog, Catalogs,
       ActiveParses

\* What a refresh in flight may be.
Flights == [pc : {"idle", "fetch", "save"}, from : 0..MaxClock, row : Catalogs,
            raced : BOOLEAN]

\* No refresh in flight.
LEMMA FlightNone ==
  /\ NoRefresh \in Flights /\ NoRefresh.pc = "idle"
  /\ NoRefresh.row = NoCatalog /\ NoRefresh.raced = FALSE
<1>1. NoCatalog \in Catalogs /\ 0 \in 0..MaxClock
  BY RowTypes
<1> QED BY <1>1 DEF Flights, NoRefresh

\* A refresh that starts.
LEMMA FlightStarts ==
  ASSUME NEW t \in 0..MaxClock
  PROVE  LET n == [NoRefresh EXCEPT !.pc = "fetch", !.from = t] IN
         /\ n \in Flights /\ n.pc = "fetch" /\ n.from = t /\ n.row = NoCatalog
         /\ n.raced = FALSE
BY FlightNone DEF Flights

\* A refresh that has its answer.
LEMMA FlightAnswered ==
  ASSUME NEW r \in Flights, NEW row \in Catalogs
  PROVE  LET n == [r EXCEPT !.pc = "save", !.row = row] IN
         /\ n \in Flights /\ n.pc = "save" /\ n.from = r.from /\ n.row = row
         /\ n.raced = r.raced
BY DEF Flights

\* A refresh that another overtook.
LEMMA FlightRaced ==
  ASSUME NEW r \in Flights
  PROVE  LET n == [r EXCEPT !.raced = TRUE] IN
         /\ n \in Flights /\ n.pc = r.pc /\ n.from = r.from /\ n.row = r.row
         /\ n.raced = TRUE
BY DEF Flights

\* The inductive invariant.
ReleasesInv == ReleasesTypeOK /\ RowsInv /\ AdviceInv /\ RefreshInv

\* It holds at the start, when nothing is registered and nothing was fetched.
LEMMA ReleasesStart ==
  ASSUME ReleasesInit
  PROVE  ReleasesInv
<1>1. NoCatalog \in Catalogs /\ ActiveParses(NoCatalog) /\ Absent \in Texts
  BY RowTypes
<1>2. NoRefresh \in Flights /\ NoRefresh.pc = "idle" /\ NoRefresh.row = NoCatalog
  BY FlightNone
<1>3. ReleasesTypeOK
  <2>1. artifact \in [status : ArtifactStatuses \union {"none"}, windows : Seq(Windows)]
    <3>1. <<>> \in Seq(Windows)
      OBVIOUS
    <3> QED BY <3>1 DEF ReleasesInit, NoArtifact
  <2>2. refresh \in [Refreshers -> Flights]
    BY <1>2 DEF ReleasesInit
  <2>3. advisory \in [status : {"none", "hidden", "update_available", "current"},
                      installed : Texts, at : 0..MaxClock, on : Catalogs]
    BY <1>1, RowTypes DEF ReleasesInit, NoAdvisory
  <2>4. /\ channel \in BOOLEAN /\ catalog \in Catalogs /\ clock \in 0..MaxClock
        /\ registrations \in 0..MaxRegistrations /\ refreshes \in 0..MaxRefreshes
    <3>1. 0 \in 0..MaxClock /\ 0 \in 0..MaxRegistrations /\ 0 \in 0..MaxRefreshes
      BY RowTypes
    <3> QED BY <1>1, <3>1 DEF ReleasesInit
  <2> QED BY <2>1, <2>2, <2>3, <2>4 DEF ReleasesTypeOK, Flights
<1>4. RowsInv
  BY <1>1, <1>2 DEF ReleasesInit, RowsInv, NoAdvisory
<1>5. AdviceInv
  BY DEF ReleasesInit, AdviceInv, NoAdvisory
<1>6. RefreshInv
  BY <1>2 DEF ReleasesInit, RefreshInv, NoCatalog
<1> QED BY <1>3, <1>4, <1>5, <1>6 DEF ReleasesInv

\* The row of an advisory that is left alone stays sound.
LEMMA AdviceStays ==
  ASSUME advisory' = advisory, AdviceInv
  PROVE  AdviceInv'
BY DEF AdviceInv

\* A step on one refresh keeps the invariant if it leaves that refresh sound.
LEMMA FlightStep ==
  ASSUME ReleasesInv, NEW f \in Refreshers, NEW n \in Flights,
         refresh' = [refresh EXCEPT ![f] = n], refreshes' \in 0..MaxRefreshes,
         UNCHANGED <<releaseVars, catalog, advisory, clock>>,
         ActiveParses(n.row),
         n.pc # "idle" =>
           /\ n.from <= clock
           /\ ~n.raced => catalog.fetched <= n.from
           /\ n.pc = "save" => n.from <= n.row.fetched /\ n.row.fetched <= clock
  PROVE  ReleasesInv'
<1>1. /\ UNCHANGED <<channel, artifact, registrations, catalog, advisory, clock>>
      /\ refresh \in [Refreshers -> Flights]
  BY DEF ReleasesInv, ReleasesTypeOK, Flights, releaseVars
<1>2. /\ refresh' \in [Refreshers -> Flights] /\ refresh'[f] = n
      /\ \A g \in Refreshers \ {f} : refresh'[g] = refresh[g]
  BY <1>1
<1>3. ReleasesTypeOK'
  BY <1>1, <1>2 DEF ReleasesInv, ReleasesTypeOK, Flights
<1>4. RowsInv'
  <2>1. \A g \in Refreshers : ActiveParses(refresh'[g].row)
    BY <1>2 DEF ReleasesInv, RowsInv
  <2> QED BY <1>1, <2>1 DEF ReleasesInv, RowsInv, ActiveParses
<1>5. AdviceInv'
  <2>1. advisory' = advisory /\ AdviceInv
    BY <1>1 DEF ReleasesInv
  <2> QED BY <2>1, AdviceStays
<1>6. RefreshInv'
  BY <1>1, <1>2 DEF ReleasesInv, RefreshInv
<1> QED BY <1>3, <1>4, <1>5, <1>6 DEF ReleasesInv

\* RegisterChannel and RegisterArtifact leave the catalogue alone.
LEMMA RegisterStep ==
  ASSUME ReleasesInv,
         RegisterChannel \/ \E s \in ArtifactStatuses, u, w \in Windows :
           RegisterArtifact(s, <<u>>) \/ RegisterArtifact(s, <<u, w>>)
  PROVE  ReleasesInv'
<1>1. /\ UNCHANGED <<catalog, refresh, refreshes, advisory, clock>>
      /\ channel' \in BOOLEAN /\ registrations' \in 0..MaxRegistrations
      /\ artifact' \in [status : ArtifactStatuses \union {"none"}, windows : Seq(Windows)]
  <2>1. CASE RegisterChannel
    BY <2>1 DEF RegisterChannel, catalogVars, ReleasesInv, ReleasesTypeOK
  <2>2. ASSUME NEW s \in ArtifactStatuses, NEW ws \in Seq(Windows), RegisterArtifact(s, ws)
        PROVE  <1>1
    <3>1. registrations' \in 0..MaxRegistrations
      BY <2>2, RowTypes DEF RegisterArtifact, ReleasesInv, ReleasesTypeOK
    <3> QED BY <2>2, <3>1 DEF RegisterArtifact, catalogVars, ReleasesInv, ReleasesTypeOK
  <2>3. ASSUME NEW u \in Windows, NEW w \in Windows
        PROVE  <<u>> \in Seq(Windows) /\ <<u, w>> \in Seq(Windows)
    OBVIOUS
  <2> QED BY <2>1, <2>2, <2>3
<1>2. ReleasesTypeOK'
  BY <1>1 DEF ReleasesInv, ReleasesTypeOK
<1>3. RowsInv'
  BY <1>1 DEF ReleasesInv, RowsInv, ActiveParses
<1>4. AdviceInv'
  <2>1. advisory' = advisory /\ AdviceInv
    BY <1>1 DEF ReleasesInv
  <2> QED BY <2>1, AdviceStays
<1>5. RefreshInv'
  BY <1>1 DEF ReleasesInv, RefreshInv
<1> QED BY <1>2, <1>3, <1>4, <1>5 DEF ReleasesInv

\* A refresh starts, hears from the provider or gives up.
LEMMA RefreshKeeps ==
  ASSUME ReleasesInv, NEW f \in Refreshers,
         \/ StartRefresh(f)
         \/ \E v \in Published : FetchLatestStable(f, v)
         \/ FetchFails(f)
         \/ SaveHACoreCatalogFails(f)
  PROVE  ReleasesInv'
<1>1. /\ refresh[f] \in Flights /\ refresh \in [Refreshers -> Flights]
      /\ catalog \in Catalogs /\ clock \in 0..MaxClock /\ refreshes \in 0..MaxRefreshes
      /\ NoCatalog \in Catalogs
  BY RowTypes DEF ReleasesInv, ReleasesTypeOK, Flights
<1>2. /\ NoRefresh \in Flights /\ NoRefresh.pc = "idle" /\ ActiveParses(NoRefresh.row)
  BY FlightNone, RowTypes
<1>3. CASE StartRefresh(f)
  <2>1. PICK n : n = [NoRefresh EXCEPT !.pc = "fetch", !.from = clock]
    OBVIOUS
  <2>2. /\ n \in Flights /\ n.pc = "fetch" /\ n.from = clock /\ n.row = NoCatalog
        /\ n.raced = FALSE
    BY <1>1, <2>1, FlightStarts
  <2>3. refresh' = [refresh EXCEPT ![f] = n] /\ UNCHANGED <<releaseVars, catalog, advisory, clock>>
    BY <1>3, <2>1 DEF StartRefresh
  <2>4. refreshes' \in 0..MaxRefreshes
    BY <1>1, <1>3, RowTypes DEF StartRefresh
  <2>5. ActiveParses(n.row)
    BY <2>2, RowTypes
  <2>6. n.from <= clock /\ catalog.fetched <= n.from
    BY <1>1, <2>2 DEF ReleasesInv, RefreshInv
  <2> QED BY <2>2, <2>3, <2>4, <2>5, <2>6, FlightStep
<1>4. ASSUME NEW row \in Catalogs, ActiveParses(row), refresh[f].pc = "fetch",
             refresh[f].from <= row.fetched, row.fetched <= clock,
             refresh' = [refresh EXCEPT ![f] = [@ EXCEPT !.pc = "save", !.row = row]],
             UNCHANGED <<releaseVars, catalog, refreshes, advisory, clock>>
      PROVE  ReleasesInv'
  <2>1. PICK n : n = [refresh[f] EXCEPT !.pc = "save", !.row = row]
    OBVIOUS
  <2>2. /\ n \in Flights /\ n.pc = "save" /\ n.from = refresh[f].from /\ n.row = row
        /\ n.raced = refresh[f].raced
    BY <1>1, <2>1, FlightAnswered
  <2>3. refresh' = [refresh EXCEPT ![f] = n]
    BY <1>4, <2>1
  <2>4. n.from <= clock /\ (~n.raced => catalog.fetched <= n.from)
    BY <1>4, <2>2 DEF ReleasesInv, RefreshInv
  <2> QED BY <1>1, <1>4, <2>2, <2>3, <2>4, FlightStep
<1>5. ASSUME NEW v \in Published, FetchLatestStable(f, v)
      PROVE  ReleasesInv'
  <2>1. CASE Parses(v)
    <3>1. PICK row : row = [status |-> "active", version |-> v,
                            fetched |-> clock, expires |-> clock + TTL]
      OBVIOUS
    <3>2. row \in Catalogs
      <4>1. v \in Texts
        BY ReleasesAssumption
      <4>2. clock + TTL \in 0..(MaxClock + TTL)
        BY <1>1, RowTypes
      <4> QED BY <1>1, <3>1, <4>1, <4>2 DEF Catalogs
    <3>3. ActiveParses(row) /\ row.fetched = clock
      BY <2>1, <3>1 DEF ActiveParses
    <3>4. refresh[f].from <= clock /\ clock <= clock /\ refresh[f].pc = "fetch"
      <4>1. refresh[f].pc = "fetch"
        BY <1>5 DEF FetchLatestStable
      <4>2. refresh[f].from <= clock
        BY <4>1 DEF ReleasesInv, RefreshInv
      <4> QED BY <1>1, <4>1, <4>2
    <3>5. /\ refresh' = [refresh EXCEPT ![f] = [@ EXCEPT !.pc = "save", !.row = row]]
          /\ UNCHANGED <<releaseVars, catalog, refreshes, advisory, clock>>
      BY <1>5, <2>1, <3>1 DEF FetchLatestStable
    <3> QED BY <1>4, <3>2, <3>3, <3>4, <3>5
  <2>2. CASE ~Parses(v)
    <3>1. /\ refresh' = [refresh EXCEPT ![f] = NoRefresh]
          /\ UNCHANGED <<releaseVars, catalog, refreshes, advisory, clock>>
      BY <1>5, <2>2 DEF FetchLatestStable
    <3> QED BY <1>1, <1>2, <3>1, FlightStep
  <2> QED BY <2>1, <2>2
<1>6. CASE FetchFails(f)
  <2>1. PICK row : row = [status |-> "unavailable", version |-> Absent,
                          fetched |-> refresh[f].from, expires |-> refresh[f].from + TTL]
    OBVIOUS
  <2>2. refresh[f].from \in 0..MaxClock
    BY <1>1 DEF Flights
  <2>3. row \in Catalogs
    <3>1. refresh[f].from + TTL \in 0..(MaxClock + TTL)
      BY <2>2, RowTypes
    <3> QED BY <2>1, <2>2, <3>1, RowTypes DEF Catalogs
  <2>4. ActiveParses(row) /\ row.fetched = refresh[f].from
    BY <2>1 DEF ActiveParses
  <2>5. refresh[f].from <= row.fetched /\ row.fetched <= clock /\ refresh[f].pc = "fetch"
    BY <1>1, <1>6, <2>2, <2>4 DEF FetchFails, ReleasesInv, RefreshInv
  <2>6. /\ refresh' = [refresh EXCEPT ![f] = [@ EXCEPT !.pc = "save", !.row = row]]
        /\ UNCHANGED <<releaseVars, catalog, refreshes, advisory, clock>>
    BY <1>6, <2>1 DEF FetchFails
  <2> QED BY <1>4, <2>3, <2>4, <2>5, <2>6
<1>7. CASE SaveHACoreCatalogFails(f)
  <2>1. /\ refresh' = [refresh EXCEPT ![f] = NoRefresh]
        /\ UNCHANGED <<releaseVars, catalog, refreshes, advisory, clock>>
    BY <1>7 DEF SaveHACoreCatalogFails
  <2> QED BY <1>1, <1>2, <2>1, FlightStep
<1> QED BY <1>3, <1>5, <1>6, <1>7

\* A refresh saves its answer: every other one in flight has been overtaken.
LEMMA SaveKeeps ==
  ASSUME ReleasesInv, NEW f \in Refreshers, SaveHACoreCatalog(f)
  PROVE  ReleasesInv'
<1>1. /\ refresh \in [Refreshers -> Flights] /\ clock \in 0..MaxClock
      /\ refresh[f].row \in Catalogs
  BY DEF ReleasesInv, ReleasesTypeOK, Flights
<1>2. /\ UNCHANGED <<channel, artifact, registrations, refreshes, advisory, clock>>
      /\ catalog' = refresh[f].row
  BY DEF SaveHACoreCatalog, releaseVars
<1>3. ASSUME NEW g \in Refreshers
      PROVE  /\ refresh'[g] \in Flights
             /\ refresh'[g].row \in {NoCatalog, refresh[g].row}
             /\ refresh'[g].pc # "idle" =>
                  /\ refresh'[g].raced /\ refresh'[g].pc = refresh[g].pc
                  /\ refresh'[g].from = refresh[g].from /\ refresh'[g].row = refresh[g].row
  <2>1. refresh'[g] = IF g = f THEN NoRefresh
                      ELSE IF refresh[g].pc = "idle" THEN refresh[g]
                      ELSE [refresh[g] EXCEPT !.raced = TRUE]
    BY DEF SaveHACoreCatalog
  <2>2. CASE g = f
    BY <2>1, <2>2, FlightNone
  <2>3. CASE g # f /\ refresh[g].pc = "idle"
    BY <1>1, <2>1, <2>3
  <2>4. CASE g # f /\ refresh[g].pc # "idle"
    <3>1. PICK n : n = [refresh[g] EXCEPT !.raced = TRUE]
      OBVIOUS
    <3>2. /\ n \in Flights /\ n.pc = refresh[g].pc /\ n.from = refresh[g].from
          /\ n.row = refresh[g].row /\ n.raced = TRUE
      BY <1>1, <3>1, FlightRaced
    <3> QED BY <2>1, <2>4, <3>1, <3>2
  <2> QED BY <2>2, <2>3, <2>4
<1>4. ReleasesTypeOK'
  <2>1. refresh' \in [Refreshers -> Flights]
    BY <1>3 DEF SaveHACoreCatalog
  <2> QED BY <1>1, <1>2, <2>1 DEF ReleasesInv, ReleasesTypeOK, Flights
<1>5. RowsInv'
  <2>1. \A g \in Refreshers : ActiveParses(refresh'[g].row)
    BY <1>3, RowTypes DEF ReleasesInv, RowsInv
  <2>2. ActiveParses(catalog') /\ ActiveParses(advisory'.on)
    BY <1>2 DEF ReleasesInv, RowsInv
  <2> QED BY <2>1, <2>2 DEF RowsInv, ActiveParses
<1>6. AdviceInv'
  BY <1>2, AdviceStays DEF ReleasesInv
<1>7. RefreshInv'
  <2>1. catalog'.fetched <= clock'
    BY <1>2 DEF ReleasesInv, RefreshInv, SaveHACoreCatalog
  <2>2. ASSUME NEW g \in Refreshers, refresh'[g].pc # "idle"
        PROVE  /\ refresh'[g].from <= clock' /\ refresh'[g].raced
               /\ refresh'[g].pc = "save" =>
                    /\ refresh'[g].from <= refresh'[g].row.fetched
                    /\ refresh'[g].row.fetched <= clock'
    BY <1>2, <1>3, <2>2 DEF ReleasesInv, RefreshInv
  <2> QED BY <2>1, <2>2 DEF RefreshInv
<1> QED BY <1>4, <1>5, <1>6, <1>7 DEF ReleasesInv

\* An advisory is judged on the catalogue as it is.
LEMMA AdviseKeeps ==
  ASSUME ReleasesInv, NEW v \in Versions, AdvisoryForInstalled(v)
  PROVE  ReleasesInv'
<1>1. /\ UNCHANGED <<channel, artifact, registrations, catalog, refresh, refreshes, clock>>
      /\ advisory' = [status |-> AdviceStatus(catalog, v, clock), installed |-> v,
                      at |-> clock, on |-> catalog]
  BY DEF AdvisoryForInstalled, releaseVars, catalogVars
<1>2. AdviceStatus(catalog, v, clock) \in {"hidden", "update_available", "current"}
  BY DEF AdviceStatus
<1>3. v \in Texts
  BY ReleasesAssumption
<1>4. /\ advisory'.status = AdviceStatus(catalog, v, clock) /\ advisory'.installed = v
      /\ advisory'.at = clock /\ advisory'.on = catalog
  BY <1>1
<1>5. ReleasesTypeOK'
  BY <1>1, <1>2, <1>3 DEF ReleasesInv, ReleasesTypeOK
<1>6. RowsInv'
  BY <1>1, <1>4 DEF ReleasesInv, RowsInv, ActiveParses
<1>7. AdviceInv'
  BY <1>4 DEF AdviceInv
<1>8. RefreshInv'
  BY <1>1 DEF ReleasesInv, RefreshInv
<1> QED BY <1>5, <1>6, <1>7, <1>8 DEF ReleasesInv

\* Time passes.
LEMMA TickKeeps ==
  ASSUME ReleasesInv, Tick
  PROVE  ReleasesInv'
<1>1. /\ UNCHANGED <<channel, artifact, registrations, catalog, refresh, refreshes, advisory>>
      /\ clock < MaxClock /\ clock' = clock + 1 /\ clock \in 0..MaxClock
      /\ catalog \in Catalogs /\ refresh \in [Refreshers -> Flights]
  BY DEF Tick, releaseVars, catalogVars, ReleasesInv, ReleasesTypeOK, Flights
<1>2. clock' \in 0..MaxClock /\ clock <= clock' /\ MaxClock \in Nat
  BY <1>1, RowTypes
<1>3. ReleasesTypeOK'
  BY <1>1, <1>2 DEF ReleasesInv, ReleasesTypeOK
<1>4. RowsInv'
  BY <1>1 DEF ReleasesInv, RowsInv, ActiveParses
<1>5. AdviceInv'
  BY <1>1, AdviceStays DEF ReleasesInv
<1>6. RefreshInv'
  <2>1. catalog.fetched \in Nat /\ catalog.fetched <= clock'
    BY <1>1, <1>2 DEF Catalogs, ReleasesInv, RefreshInv
  <2>2. ASSUME NEW g \in Refreshers, refresh[g].pc # "idle"
        PROVE  /\ refresh[g].from <= clock'
               /\ refresh[g].pc = "save" => refresh[g].row.fetched <= clock'
    <3>1. refresh[g].from \in Nat /\ refresh[g].row.fetched \in Nat
      BY <1>1, <1>2 DEF Flights, Catalogs
    <3> QED BY <1>1, <1>2, <2>2, <3>1 DEF ReleasesInv, RefreshInv
  <2> QED BY <1>1, <2>1, <2>2 DEF ReleasesInv, RefreshInv
<1> QED BY <1>3, <1>4, <1>5, <1>6 DEF ReleasesInv

\* Every step keeps it.
LEMMA ReleasesStep ==
  ASSUME ReleasesInv, [ReleasesNext]_serviceVars
  PROVE  ReleasesInv'
<1>1. CASE ReleasesNext
  BY <1>1, RegisterStep, RefreshKeeps, SaveKeeps, AdviseKeeps, TickKeeps
     DEF ReleasesNext, RefreshStep
<1>2. CASE UNCHANGED serviceVars
  <2>1. UNCHANGED <<channel, artifact, registrations, catalog, refresh, refreshes, advisory, clock>>
    BY <1>2 DEF serviceVars, releaseVars, catalogVars
  <2>2. AdviceInv'
    BY <2>1, AdviceStays DEF ReleasesInv
  <2>3. ReleasesTypeOK' /\ RowsInv' /\ RefreshInv'
    BY <2>1 DEF ReleasesInv, ReleasesTypeOK, RowsInv, ActiveParses, RefreshInv
  <2> QED BY <2>2, <2>3 DEF ReleasesInv
<1> QED BY <1>1, <1>2

-------------------------------------------------------------------------------

\* In every reachable state the values have their types, active rows hold a version
\* that parses, the advisory on record is what its row gives, and a refresh that
\* was not overtaken is newer than the catalogue.
THEOREM ReleasesInvariance == ReleasesSpec => []ReleasesInv
<1>1. ReleasesInit => ReleasesInv
  BY ReleasesStart
<1>2. ReleasesInv /\ [ReleasesNext]_serviceVars => ReleasesInv'
  BY ReleasesStep
<1> QED BY <1>1, <1>2, PTL DEF ReleasesSpec

\* Whatever windows are registered, in whatever order, the device is supported
\* exactly if the artifact is published and the first window that holds its agent
\* protocol and its Home Assistant version says so, for versions of any length
\* (CompatibilityForVersion).
THEOREM SupportAgreesWithOrder == ReleasesSpec => []SupportIsSound
<1>1. ReleasesInv => SupportIsSound
  BY FirstHitDecides DEF ReleasesInv
<1> QED BY <1>1, ReleasesInvariance, PTL

\* An advisory that names an update, or none, was judged on an active row whose
\* version parses, and compares numbers.
LEMMA JudgedByOrder ==
  ASSUME ReleasesInv
  PROVE  AdviceIsSound
<1> SUFFICES ASSUME advisory.status \in {"update_available", "current"}
             PROVE  /\ advisory.on.status = "active" /\ advisory.at <= advisory.on.expires
                    /\ (advisory.status = "update_available") =
                         (Reading(advisory.installed) < Reading(advisory.on.version))
  BY DEF AdviceIsSound
<1>1. PICK row \in Catalogs, v \in Texts, at \in 0..MaxClock :
        /\ row = advisory.on /\ v = advisory.installed /\ at = advisory.at
  BY DEF ReleasesInv, ReleasesTypeOK
<1>2. advisory.status = AdviceStatus(row, v, at) /\ ActiveParses(row)
  BY <1>1 DEF ReleasesInv, AdviceInv, RowsInv
<1>3. /\ CatalogUsable(row, at) /\ Parses(v)
      /\ (advisory.status = "update_available") = (CompareDottedVersion(v, row.version) < 0)
  BY <1>2 DEF AdviceStatus
<1>4. row.status = "active" /\ at <= row.expires /\ Parses(row.version)
  BY <1>2, <1>3 DEF CatalogUsable, ActiveParses
<1>5. v \in Dotted /\ row.version \in Dotted
  <2>1. row.version \in Texts
    BY DEF Catalogs
  <2> QED BY <1>3, <1>4, <2>1, ParsedIsDotted
<1>6. (CompareDottedVersion(v, row.version) < 0) <=> (Reading(v) < Reading(row.version))
  BY <1>5, CompareIsOrder
<1> QED BY <1>1, <1>3, <1>4, <1>6

\* An advisory that names an update, or none, was judged on a catalogue that was
\* active and fresh, and says so exactly if the installed version is the smaller
\* one (AdvisoryForInstalled).
THEOREM AdviceAgreesWithOrder == ReleasesSpec => []AdviceIsSound
<1>1. ReleasesInv => AdviceIsSound
  BY JudgedByOrder
<1> QED BY <1>1, ReleasesInvariance, PTL

\* Only SaveHACoreCatalog writes the catalogue, and a refresh nobody overtook
\* has an answer that is not older than it.
LEMMA OnlyRacedMovesBack ==
  ASSUME ReleasesInv, ReleasesNext, catalog'.fetched < catalog.fetched
  PROVE  \E f \in Refreshers : refresh[f].raced /\ catalog' = refresh[f].row
<1>1. catalog.fetched \in Nat
  BY RowTypes DEF ReleasesInv, ReleasesTypeOK, Catalogs
<1>2. catalog' # catalog
  BY <1>1
<1>3. PICK f \in Refreshers : SaveHACoreCatalog(f)
  <2>1. CASE RegisterChannel
    BY <1>2, <2>1 DEF RegisterChannel, catalogVars
  <2>2. CASE \E s \in ArtifactStatuses, u, w \in Windows :
               RegisterArtifact(s, <<u>>) \/ RegisterArtifact(s, <<u, w>>)
    BY <1>2, <2>2 DEF RegisterArtifact, catalogVars
  <2>3. CASE \E f \in Refreshers : RefreshStep(f)
    BY <1>2, <2>3 DEF RefreshStep, StartRefresh, FetchLatestStable, FetchFails,
       SaveHACoreCatalogFails
  <2>4. CASE \E v \in Versions : AdvisoryForInstalled(v)
    BY <1>2, <2>4 DEF AdvisoryForInstalled, catalogVars
  <2>5. CASE Tick
    BY <1>2, <2>5 DEF Tick, catalogVars
  <2> QED BY <2>1, <2>2, <2>3, <2>4, <2>5 DEF ReleasesNext
<1>4. catalog' = refresh[f].row /\ refresh[f].pc = "save"
  BY <1>3 DEF SaveHACoreCatalog
<1>5. refresh[f].from \in Nat /\ refresh[f].row.fetched \in Nat
  BY RowTypes DEF ReleasesInv, ReleasesTypeOK, Catalogs
<1>6. refresh[f].raced
  <2> SUFFICES ASSUME ~refresh[f].raced PROVE FALSE
    OBVIOUS
  <2>1. catalog.fetched <= refresh[f].from /\ refresh[f].from <= refresh[f].row.fetched
    BY <1>4 DEF ReleasesInv, RefreshInv
  <2> QED BY <1>1, <1>4, <1>5, <2>1
<1> QED BY <1>4, <1>6

\* The catalogue is replaced by an older answer only by a refresh that another
\* overtook (RefreshLatestStable).
THEOREM CatalogNeedsRaceToMoveBack == ReleasesSpec => CatalogMovesBackOnlyByRace
<1>1. ReleasesInv /\ [ReleasesNext]_serviceVars =>
        [catalog'.fetched < catalog.fetched =>
           \E f \in Refreshers : refresh[f].raced /\ catalog' = refresh[f].row]_serviceVars
  BY OnlyRacedMovesBack
<1> QED BY <1>1, ReleasesInvariance, PTL DEF ReleasesSpec, CatalogMovesBackOnlyByRace
===============================================================================
