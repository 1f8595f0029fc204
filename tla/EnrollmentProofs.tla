--------------------------- MODULE EnrollmentProofs ---------------------------
(***************************************************************************)
(* Proofs about the enrolment of the agent: what a claimed record and the  *)
(* credential files stand for, whatever calls are lost, whatever the cloud *)
(* does and wherever the process dies between two durable changes.         *)
(***************************************************************************)
EXTENDS Enrollment, TLAPS

-------------------------------------------------------------------------------
(***************************************************************************)
(* The helpers of the actions.                                             *)
(***************************************************************************)

LEMMA Bounds ==
  /\ MaxSessions \in Nat /\ MaxCerts \in Nat /\ MaxKeys \in Nat
  /\ MaxCrashes \in Nat /\ MaxFaults \in Nat /\ MaxLosses \in Nat
BY EnrollmentAssumption

LEMMA FreshType == FreshRecord \in Records
BY Bounds DEF FreshRecord, Records, ClaimStates

\* The edits the actions make to a record.
LEMMA RecordEdits ==
  ASSUME NEW r \in Records
  PROVE  /\ clearPending(r) \in Records
         /\ clearPending(r).claim = r.claim /\ clearPending(r).pendingCert = 0
         /\ clearPending(r).device = r.device
         /\ Unclaimed(r) \in Records
         /\ Unclaimed(r).claim = "UNCLAIMED" /\ Unclaimed(r).pendingCert = 0
         /\ \A x \in ClaimStates : [r EXCEPT !.claim = x] \in Records
<1>1. /\ r.claim \in ClaimStates /\ r.session \in 0..MaxSessions
      /\ r.pendingCert \in 0..MaxCerts /\ r.device \in 0..MaxSessions
  BY DEF Records
<1>2. 0 \in 0..MaxSessions /\ 0 \in 0..MaxCerts /\ "UNCLAIMED" \in ClaimStates
  BY Bounds DEF ClaimStates
<1>3. /\ clearPending(r) \in Records
      /\ clearPending(r).claim = r.claim /\ clearPending(r).pendingCert = 0
      /\ clearPending(r).device = r.device
  BY <1>1, <1>2 DEF Records, clearPending
<1>4. /\ Unclaimed(r) \in Records
      /\ Unclaimed(r).claim = "UNCLAIMED" /\ Unclaimed(r).pendingCert = 0
  BY <1>2, <1>3 DEF Unclaimed, Records
<1>5. \A x \in ClaimStates : [r EXCEPT !.claim = x] \in Records
  BY <1>1 DEF Records
<1> QED BY <1>3, <1>4, <1>5

\* A failed file operation is counted.
LEMMA FaultEffect ==
  ASSUME TypeOK, Fault
  PROVE  /\ budget' \in [crashes : 0..MaxCrashes, faults : 0..MaxFaults, losses : 0..MaxLosses]
         /\ ~NoFault'
<1>1. /\ budget \in [crashes : 0..MaxCrashes, faults : 0..MaxFaults, losses : 0..MaxLosses]
      /\ budget.faults < MaxFaults
      /\ budget' = [budget EXCEPT !.faults = budget.faults + 1]
  BY DEF TypeOK, Fault
<1>2. budget.faults + 1 \in 0..MaxFaults /\ budget.faults + 1 # 0
  BY <1>1, Bounds
<1>3. budget'.faults = budget.faults + 1
  BY <1>1
<1> QED BY <1>1, <1>2, <1>3 DEF NoFault

\* A save leaves one of the two records, and the new one unless it failed.
LEMMA SaveEffect ==
  ASSUME TypeOK, NEW r \in Records, \E ok \in BOOLEAN : saveDeviceRecord(r, ok)
  PROVE  /\ disk' \in Disks
         /\ disk'.rec \in {disk.rec, r}
         /\ disk'.file \in {"missing", "legacy"} => disk' = disk
         /\ budget' \in [crashes : 0..MaxCrashes, faults : 0..MaxFaults, losses : 0..MaxLosses]
         /\ NoFault' => NoFault /\ disk'.rec = r
<1>1. PICK ok \in BOOLEAN : saveDeviceRecord(r, ok)
  OBVIOUS
<1>2. /\ disk' \in {disk, [disk EXCEPT !.file = "torn"], [file |-> "ok", rec |-> r]}
      /\ \/ disk' = [file |-> "ok", rec |-> r] /\ UNCHANGED budget
         \/ Fault
  BY <1>1 DEF saveDeviceRecord
<1>3. disk \in Disks
  BY DEF TypeOK
<1>4. /\ disk' \in Disks
      /\ disk'.rec \in {disk.rec, r}
      /\ disk'.file \in {"missing", "legacy"} => disk' = disk
  BY <1>2, <1>3 DEF Disks
<1>5. CASE Fault
  BY <1>4, <1>5, FaultEffect
<1>6. CASE disk' = [file |-> "ok", rec |-> r] /\ UNCHANGED budget
  BY <1>4, <1>6 DEF TypeOK, NoFault
<1> QED BY <1>2, <1>5, <1>6

\* A key file that is made sure of is a whole one, and is written only when there
\* was none.
LEMMA KeyEffect ==
  ASSUME TypeOK, ensureDevicePrivateKey
  PROVE  /\ key' \in 1..MaxKeys /\ keys' \in 0..MaxKeys
         /\ key # 0 => key' = key
<1>1. CASE key \notin {0, Torn} /\ UNCHANGED <<key, keys>>
  BY <1>1, Bounds DEF TypeOK, Torn
<1>2. CASE key = 0 /\ keys < MaxKeys /\ keys' = keys + 1 /\ key' = keys + 1
  BY <1>2, Bounds DEF TypeOK
<1> QED BY <1>1, <1>2 DEF ensureDevicePrivateKey

LEMMA KeyFailsEffect ==
  ASSUME TypeOK, ensureDevicePrivateKeyFails
  PROVE  /\ key' \in Torn..MaxKeys /\ keys' \in 0..MaxKeys
         /\ budget' \in [crashes : 0..MaxCrashes, faults : 0..MaxFaults, losses : 0..MaxLosses]
         /\ NoFault' => NoFault /\ key' = key
<1>1. CASE key = Torn /\ UNCHANGED <<key, keys, budget>>
  BY <1>1 DEF TypeOK, NoFault
<1>2. CASE /\ key = 0 /\ keys < MaxKeys
           /\ Fault
           /\ keys' = keys + 1
           /\ key' \in AfterFailedWrite(key, keys + 1)
  BY <1>2, FaultEffect, Bounds DEF TypeOK, AfterFailedWrite, Torn
<1> QED BY <1>1, <1>2 DEF ensureDevicePrivateKeyFails

\* The three ways a key is not used: it fails, it is there and the call fails, or
\* nothing came of it.
KeyUnused ==
  \/ ensureDevicePrivateKeyFails
  \/ ensureDevicePrivateKey /\ UNCHANGED budget
  \/ UNCHANGED <<key, keys, budget>>

LEMMA KeyUnusedEffect ==
  ASSUME TypeOK, KeyUnused
  PROVE  /\ key' \in Torn..MaxKeys /\ keys' \in 0..MaxKeys
         /\ budget' \in [crashes : 0..MaxCrashes, faults : 0..MaxFaults, losses : 0..MaxLosses]
         /\ NoFault' => NoFault /\ (key # 0 => key' = key)
<1>1. CASE ensureDevicePrivateKeyFails
  BY <1>1, KeyFailsEffect
<1>2. CASE ensureDevicePrivateKey /\ UNCHANGED budget
  BY <1>2, KeyEffect, Bounds DEF TypeOK, NoFault, Torn
<1>3. CASE UNCHANGED <<key, keys, budget>>
  BY <1>3 DEF TypeOK, NoFault
<1> QED BY <1>1, <1>2, <1>3 DEF KeyUnused

\* Where RunOnce may stand, with its local variables.
RunTypes ==
  [at : {"idle", "create", "token", "saveSession", "provision", "cert",
         "saveCert", "finalize", "dropToken", "saveClaim"},
   session : 0..MaxSessions, cert : 0..MaxCerts, deferred : BOOLEAN]

LEMMA IdleType == Idle \in RunTypes /\ Idle.at = "idle"
BY Bounds DEF Idle, RunTypes

LEMMA ReturnEffect ==
  ASSUME TypeOK, Return
  PROVE  run' = Idle /\ claimFiles' \in BOOLEAN
BY DEF Return, TypeOK

-------------------------------------------------------------------------------
(***************************************************************************)
(* Types.                                                                  *)
(***************************************************************************)

\* A claim is finalized for a session and a certificate.
LEMMA FinalizesPending ==
  ASSUME TypeOK, RecordsInv, RunInv, Finalizes
  PROVE  /\ mem.claim = "PAIRING_PENDING" /\ mem.pendingCert # 0
         /\ mem.pendingCert \in 0..MaxCerts
         /\ mem.session \in Sessions /\ mem.session \in 0..MaxSessions
         /\ up /\ run.at \in {"idle", "finalize"}
<1>1. mem \in Records
  BY DEF TypeOK
<1>2. mem.claim = "PAIRING_PENDING" /\ mem.pendingCert # 0 /\ up /\ run.at \in {"idle", "finalize"}
  BY DEF Finalizes, At, RunInv
<1>3. mem.session \in Sessions
  BY <1>2 DEF RecordsInv
<1> QED BY <1>1, <1>2, <1>3 DEF Records

LEMMA TypeStep ==
  ASSUME TypeOK, RecordsInv, RunInv, [Next]_vars
  PROVE  TypeOK'
<1> USE DEF files, outside
<1>b. /\ mem \in Records /\ run \in RunTypes /\ disk \in Disks
      /\ \A x \in ClaimStates : [mem EXCEPT !.claim = x] \in Records
      /\ Unclaimed(mem) \in Records /\ clearPending(mem) \in Records
  BY RecordEdits DEF TypeOK, RunTypes
<1>1. CASE UNCHANGED vars \/ runWithoutEffect
  BY <1>1 DEF runWithoutEffect, TypeOK, vars
<1>2. CASE credentialFilesMissing
  <2>1. mem' \in Records
    BY <1>2, <1>b DEF credentialFilesMissing, ClaimStates
  <2> QED BY <1>2, <2>1, SaveEffect DEF credentialFilesMissing, TypeOK
<1>3. CASE checkClaimedStatus
  <2>1. mem' \in Records
    BY <1>3, <1>b DEF checkClaimedStatus, ClaimStates
  <2> QED BY <1>3, <2>1, SaveEffect DEF checkClaimedStatus, TypeOK
<1>4. CASE pendingExpired
  <2>1. mem' \in Records /\ run' \in RunTypes
    BY <1>4, <1>b DEF pendingExpired, RunTypes
  <2> QED BY <1>4, <2>1, SaveEffect DEF pendingExpired, TypeOK, RunTypes
<1>5. ASSUME NEW s \in Sessions, createPairingSession(s) PROVE TypeOK'
  <2>1. run' \in RunTypes
    <3>1. s \in 0..MaxSessions
      BY <1>5, Bounds DEF Sessions
    <3> QED BY <1>5, <1>b, <3>1 DEF createPairingSession, RunTypes
  <2>2. cloud' \in [Sessions -> [status : SessionStates, cert : 0..MaxCerts]]
    BY <1>5 DEF createPairingSession, TypeOK, SessionStates
  <2>3. key' \in Torn..MaxKeys /\ keys' \in 0..MaxKeys
    BY <1>5, KeyEffect, Bounds DEF createPairingSession, Torn
  <2> QED BY <1>5, <2>1, <2>2, <2>3 DEF createPairingSession, TypeOK, RunTypes
<1>6. CASE createPairingSessionFails
  <2>1. KeyUnused
    BY <1>6 DEF createPairingSessionFails, KeyUnused
  <2> QED BY <1>6, <2>1, KeyUnusedEffect, IdleType
        DEF createPairingSessionFails, TypeOK, RunTypes
<1>7. CASE storeSession
  <2>1. token' \in Torn..MaxSessions
    BY <1>7, <1>b, Bounds DEF storeSession, AfterFailedWrite, TypeOK, RunTypes, Torn
  <2>2. mem' \in Records
    BY <1>7, <1>b DEF storeSession, Records, RunTypes, ClaimStates
  <2>3. run' \in RunTypes
    BY <1>7, <1>b, IdleType DEF storeSession, RunTypes
  <2>4. budget' \in [crashes : 0..MaxCrashes, faults : 0..MaxFaults, losses : 0..MaxLosses]
    BY <1>7, FaultEffect DEF storeSession, TypeOK
  <2> QED BY <1>7, <2>1, <2>2, <2>3, <2>4 DEF storeSession, TypeOK, RunTypes
<1>8. CASE saveSession
  BY <1>8, <1>b, SaveEffect, IdleType DEF saveSession, TypeOK, RunTypes
<1>9. CASE pollPending
  <2>1. mem' \in Records
    BY <1>9, <1>b DEF pollPending
  <2>2. expired' \subseteq Sessions
    BY <1>9 DEF pollPending, TypeOK, Polls, RecordsInv
  <2> QED BY <1>9, <2>1, <2>2, SaveEffect DEF pollPending, TypeOK
<1>10. CASE pollRevoked
  <2>1. mem' \in Records
    BY <1>10, <1>b DEF pollRevoked, ClaimStates
  <2> QED BY <1>10, <2>1, SaveEffect DEF pollRevoked, TypeOK
<1>11. CASE pollExpired
  BY <1>11, <1>b, SaveEffect DEF pollExpired, TypeOK
<1>12. CASE pollApproved
  <2>1. run' \in RunTypes /\ claimFiles' \in BOOLEAN
    BY <1>12, <1>b DEF pollApproved, RunTypes, TypeOK
  <2>2. budget' \in [crashes : 0..MaxCrashes, faults : 0..MaxFaults, losses : 0..MaxLosses]
    BY <1>12, FaultEffect DEF pollApproved, TypeOK
  <2> QED BY <1>12, <2>1, <2>2 DEF pollApproved, TypeOK, RunTypes
<1>13. CASE provision
  <2>1. key' \in 1..MaxKeys /\ keys' \in 0..MaxKeys /\ key' \in Torn..MaxKeys
    BY <1>13, KeyEffect, Bounds DEF provision, Torn
  <2>2. /\ certKey' = Append(certKey, key') /\ certKey \in Seq(1..MaxKeys)
        /\ certKey' \in Seq(1..MaxKeys) /\ Len(certKey') = Len(certKey) + 1
    BY <1>13, <2>1 DEF provision, TypeOK
  <2>3. Len(certKey') \in 0..MaxCerts
    BY <1>13, <2>2, Bounds DEF provision
  <2>4. run' \in RunTypes
    BY <1>13, <1>b, <2>3 DEF provision, RunTypes
  <2> QED BY <1>13, <2>1, <2>2, <2>4 DEF provision, TypeOK, RunTypes
<1>14. CASE provisionFails
  <2>1. KeyUnused
    BY <1>14 DEF provisionFails, KeyUnused
  <2> QED BY <1>14, <2>1, KeyUnusedEffect, ReturnEffect, IdleType
        DEF provisionFails, TypeOK, RunTypes
<1>15. CASE storeCertificate
  <2>1. cert' \in Torn..MaxCerts
    BY <1>15, <1>b, Bounds DEF storeCertificate, AfterFailedWrite, TypeOK, RunTypes, Torn
  <2>2. mem' \in Records
    BY <1>15, <1>b DEF storeCertificate, Records, RunTypes
  <2>3. run' \in RunTypes /\ claimFiles' \in BOOLEAN
    BY <1>15, <1>b, IdleType, ReturnEffect DEF storeCertificate, RunTypes, TypeOK
  <2>4. budget' \in [crashes : 0..MaxCrashes, faults : 0..MaxFaults, losses : 0..MaxLosses]
    BY <1>15, FaultEffect DEF storeCertificate, TypeOK
  <2> QED BY <1>15, <2>1, <2>2, <2>3, <2>4 DEF storeCertificate, TypeOK, RunTypes
<1>16. CASE saveCertificate
  <2>1. \E ok \in BOOLEAN : saveDeviceRecord(mem, ok)
    BY <1>16 DEF saveCertificate
  <2>2. run' \in RunTypes /\ claimFiles' \in BOOLEAN
    BY <1>16, <1>b, IdleType, ReturnEffect DEF saveCertificate, RunTypes, TypeOK
  <2> QED BY <1>16, <1>b, <2>1, <2>2, SaveEffect DEF saveCertificate, TypeOK, RunTypes
<1>17. CASE finalizeClaimed
  <2>1. mem.session \in Sessions /\ mem.session \in 0..MaxSessions /\ mem.pendingCert \in 0..MaxCerts
    BY <1>17, FinalizesPending DEF finalizeClaimed
  <2>2. mem' \in Records
    BY <1>17, <1>b, <2>1 DEF finalizeClaimed, Records, ClaimStates
  <2>3. cloud' \in [Sessions -> [status : SessionStates, cert : 0..MaxCerts]]
    BY <1>17, <2>1 DEF finalizeClaimed, TypeOK, SessionStates
  <2>4. run' \in RunTypes
    BY <1>17, <1>b DEF finalizeClaimed, RunTypes
  <2> QED BY <1>17, <2>2, <2>3, <2>4 DEF finalizeClaimed, TypeOK, RunTypes
<1>18. CASE finalizeUnanswered
  <2>1. mem.session \in Sessions /\ mem.pendingCert \in 0..MaxCerts
    BY <1>18, FinalizesPending DEF finalizeUnanswered
  <2>2. \/ UNCHANGED cloud
        \/ cloud' = [cloud EXCEPT ![mem.session] = [status |-> "claimed",
                                                   cert |-> mem.pendingCert]]
    BY <1>18 DEF finalizeUnanswered
  <2>3. cloud' \in [Sessions -> [status : SessionStates, cert : 0..MaxCerts]]
    <3>1. [status |-> "claimed", cert |-> mem.pendingCert] \in
            [status : SessionStates, cert : 0..MaxCerts]
      BY <2>1 DEF SessionStates
    <3> QED BY <2>1, <2>2, <3>1 DEF TypeOK
  <2> QED BY <1>18, <1>b, <2>3, SaveEffect, ReturnEffect, IdleType
        DEF finalizeUnanswered, TypeOK, RunTypes
<1>19. CASE finalizeRefused
  <2>1. mem' \in Records
    BY <1>19, <1>b DEF finalizeRefused, Records, ClaimStates
  <2>2. cloud' \in [Sessions -> [status : SessionStates, cert : 0..MaxCerts]]
    BY <1>19 DEF finalizeRefused, TypeOK, SessionStates
  <2> QED BY <1>19, <2>1, <2>2, SaveEffect, ReturnEffect, IdleType
      DEF finalizeRefused, TypeOK, RunTypes
<1>20. CASE dropPollToken
  <2>1. run' \in RunTypes /\ claimFiles' \in BOOLEAN
    BY <1>20, <1>b, IdleType, ReturnEffect DEF dropPollToken, RunTypes, TypeOK
  <2>2. token' \in Torn..MaxSessions
    BY <1>20, Bounds DEF dropPollToken, TypeOK, Torn
  <2>4. budget' \in [crashes : 0..MaxCrashes, faults : 0..MaxFaults, losses : 0..MaxLosses]
    BY <1>20, FaultEffect DEF dropPollToken, TypeOK
  <2> QED BY <1>20, <2>1, <2>2, <2>4 DEF dropPollToken, TypeOK, RunTypes
<1>21. CASE saveClaim
  BY <1>21, <1>b, SaveEffect, ReturnEffect, IdleType DEF saveClaim, TypeOK, RunTypes
<1>22. CASE loadDeviceRecord
  <2>1. mem' \in Records /\ disk' \in Disks
    BY <1>22, <1>b, FreshType DEF loadDeviceRecord, saveDeviceRecord, Disks
  <2>2. UNCHANGED budget
    BY <1>22 DEF loadDeviceRecord, saveDeviceRecord
  <2> QED BY <1>22, <2>1, <2>2 DEF loadDeviceRecord, TypeOK
<1>23. CASE Crash
  <2>1. budget' \in [crashes : 0..MaxCrashes, faults : 0..MaxFaults, losses : 0..MaxLosses]
    <3>1. /\ budget \in [crashes : 0..MaxCrashes, faults : 0..MaxFaults, losses : 0..MaxLosses]
          /\ budget.crashes < MaxCrashes
          /\ budget' = [budget EXCEPT !.crashes = budget.crashes + 1]
      BY <1>23 DEF Crash, TypeOK
    <3>2. budget.crashes + 1 \in 0..MaxCrashes
      BY <3>1, Bounds
    <3> QED BY <3>1, <3>2
  <2> QED BY <1>23, <2>1, FreshType, IdleType DEF Crash, TypeOK, RunTypes
<1>24. ASSUME NEW s \in Sessions, Approve(s) \/ Lapse(s) \/ Revoke(s) PROVE TypeOK'
  <2>1. cloud' \in [Sessions -> [status : SessionStates, cert : 0..MaxCerts]]
    <3>1. PICK x \in SessionStates : cloud' = [cloud EXCEPT ![s].status = x]
      BY <1>24 DEF Approve, Lapse, Revoke, SessionStates
    <3> QED BY <1>24, <3>1 DEF TypeOK
  <2> QED BY <1>24, <2>1 DEF Approve, Lapse, Revoke, TypeOK
<1>25. ASSUME NEW s \in Sessions, ClockPasses(s) PROVE TypeOK'
  BY <1>25 DEF ClockPasses, TypeOK
<1>26. CASE LoseCredentials
  <2>1. budget' \in [crashes : 0..MaxCrashes, faults : 0..MaxFaults, losses : 0..MaxLosses]
    <3>1. /\ budget \in [crashes : 0..MaxCrashes, faults : 0..MaxFaults, losses : 0..MaxLosses]
          /\ budget.losses < MaxLosses
          /\ budget' = [budget EXCEPT !.losses = budget.losses + 1]
      BY <1>26 DEF LoseCredentials, TypeOK
    <3>2. budget.losses + 1 \in 0..MaxLosses
      BY <3>1, Bounds
    <3> QED BY <3>1, <3>2
  <2>2. key' \in Torn..MaxKeys /\ cert' \in Torn..MaxCerts
    <3>1. 0 \in Torn..MaxKeys /\ 0 \in Torn..MaxCerts
      BY Bounds DEF Torn
    <3> QED BY <1>26, <3>1 DEF LoseCredentials, TypeOK
  <2> QED BY <1>26, <2>1, <2>2 DEF LoseCredentials, TypeOK
<1> QED
  BY <1>1, <1>2, <1>3, <1>4, <1>5, <1>6, <1>7, <1>8, <1>9, <1>10, <1>11, <1>12, <1>13,
     <1>14, <1>15, <1>16, <1>17, <1>18, <1>19, <1>20, <1>21, <1>22, <1>23, <1>24, <1>25,
     <1>26 DEF Next, RunOnce, Environment

-------------------------------------------------------------------------------
(***************************************************************************)
(* What every step does to device.json and to the confirmed sessions.      *)
(***************************************************************************)

\* Whatever is saved is the record in memory.
LEMMA DiskStep ==
  ASSUME TypeOK, RecordsInv, RunInv, [Next]_vars
  PROVE  /\ disk'.rec \in {disk.rec, mem'}
         /\ disk'.file \in {"missing", "legacy"} => disk' = disk
         /\ NoFault' => NoFault
<1> USE DEF files, outside
<1>t. mem' \in Records
  BY TypeStep DEF TypeOK
<1>1. CASE \E ok \in BOOLEAN : saveDeviceRecord(mem', ok)
  BY <1>1, <1>t, SaveEffect
<1>2. CASE UNCHANGED <<disk, budget>> \/ (UNCHANGED disk /\ Fault)
  BY <1>2, FaultEffect DEF NoFault
<1>3. CASE UNCHANGED disk /\ KeyUnused
  BY <1>3, KeyUnusedEffect
<1>4. CASE Crash \/ LoseCredentials
  BY <1>4 DEF Crash, LoseCredentials, NoFault, TypeOK
<1>5. CASE saveSession \/ saveCertificate \/ finalizeUnanswered \/ saveClaim
  <2>1. (\E ok \in BOOLEAN : saveDeviceRecord(mem, ok)) /\ mem' = mem
    BY <1>5 DEF saveSession, saveCertificate, finalizeUnanswered, saveClaim
  <2> QED BY <1>t, <2>1, SaveEffect
<1>6. CASE loadDeviceRecord
  BY <1>6 DEF loadDeviceRecord, saveDeviceRecord, NoFault
<1>7. CASE \/ credentialFilesMissing \/ checkClaimedStatus \/ pendingExpired
           \/ pollPending \/ pollRevoked \/ pollExpired \/ finalizeRefused
  BY <1>1, <1>7 DEF credentialFilesMissing, checkClaimedStatus, pendingExpired, pollPending,
     pollRevoked, pollExpired, finalizeRefused
<1>8. CASE createPairingSessionFails \/ provisionFails
  BY <1>3, <1>8 DEF createPairingSessionFails, provisionFails, KeyUnused
<1>9. CASE storeSession \/ pollApproved \/ storeCertificate \/ dropPollToken
  <2>1. UNCHANGED <<disk, budget>> \/ (UNCHANGED disk /\ Fault)
    BY <1>9 DEF storeSession, pollApproved, storeCertificate, dropPollToken
  <2> QED BY <1>2, <2>1
<1>10. CASE \/ UNCHANGED vars \/ runWithoutEffect \/ provision \/ finalizeClaimed
            \/ \E s \in Sessions : \/ createPairingSession(s)
                                   \/ Approve(s) \/ Lapse(s) \/ Revoke(s) \/ ClockPasses(s)
  <2>1. UNCHANGED <<disk, budget>>
    BY <1>10 DEF vars, runWithoutEffect, provision, finalizeClaimed,
       createPairingSession, Approve, Lapse, Revoke, ClockPasses
  <2> QED BY <1>2, <2>1
<1> QED
  BY <1>4, <1>5, <1>6, <1>7, <1>8, <1>9, <1>10 DEF Next, RunOnce, Environment

\* The cloud has confirmed the claim of session d.
Confirmed(d) ==
  /\ d \in Sessions
  /\ cloud[d].status \in {"claimed", "revoked"}
  /\ cloud[d].cert # 0

\* A confirmed session stays confirmed, for the same certificate.
LEMMA CloudStep ==
  ASSUME TypeOK, RecordsInv, RunInv, [Next]_vars, NEW d, Confirmed(d)
  PROVE  Confirmed(d)' /\ cloud'[d].cert = cloud[d].cert
<1> USE DEF files, outside
<1>1. CASE UNCHANGED cloud
  BY <1>1 DEF Confirmed
<1>2. ASSUME NEW s \in Sessions, NEW x \in {"pending", "approved", "expired", "revoked"},
             cloud[s].status \in {"none", "pending", "approved"} \/ x = "revoked",
             cloud' = [cloud EXCEPT ![s].status = x]
      PROVE  Confirmed(d)' /\ cloud'[d].cert = cloud[d].cert
  BY <1>2 DEF Confirmed, TypeOK
<1>3. ASSUME Finalizes, Confirmable(mem.session, mem.pendingCert),
             cloud' = [cloud EXCEPT ![mem.session] = [status |-> "claimed",
                                                      cert |-> mem.pendingCert]]
      PROVE  Confirmed(d)' /\ cloud'[d].cert = cloud[d].cert
  <2>1. mem.pendingCert # 0
    BY <1>3, FinalizesPending
  <2>2. CASE mem.session = d
    <3>1. cloud[d].status = "claimed" /\ cloud[d].cert = mem.pendingCert
      BY <1>3, <2>2 DEF Confirmed, Confirmable
    <3>2. cloud'[d] = [status |-> "claimed", cert |-> mem.pendingCert]
      BY <1>3, <2>2 DEF Confirmed, TypeOK
    <3> QED BY <2>1, <3>1, <3>2 DEF Confirmed
  <2>3. CASE mem.session # d
    <3>1. cloud'[d] = cloud[d]
      BY <1>3, <2>3 DEF Confirmed, TypeOK
    <3> QED BY <3>1 DEF Confirmed
  <2> QED BY <2>2, <2>3
<1>4. CASE finalizeClaimed \/ finalizeUnanswered
  BY <1>1, <1>3, <1>4 DEF finalizeClaimed, finalizeUnanswered
<1>5. ASSUME NEW s \in Sessions,
             createPairingSession(s) \/ Approve(s) \/ Lapse(s) \/ Revoke(s)
      PROVE  Confirmed(d)' /\ cloud'[d].cert = cloud[d].cert
  BY <1>2, <1>5 DEF createPairingSession, Approve, Lapse, Revoke
<1>6. CASE finalizeRefused
  <2>1. mem.session \in 0..MaxSessions /\ cloud' = [cloud EXCEPT ![mem.session].status = "revoked"]
    BY <1>6 DEF finalizeRefused, TypeOK, Records
  <2>2. CASE mem.session \in Sessions
    BY <1>2, <2>1, <2>2
  <2>3. CASE mem.session \notin Sessions
    <3>1. cloud' = cloud
      BY <2>1, <2>3 DEF TypeOK
    <3> QED BY <1>1, <3>1
  <2> QED BY <2>2, <2>3
<1> QED
  BY <1>1, <1>4, <1>5, <1>6 DEF Next, RunOnce, Environment, vars, runWithoutEffect,
     credentialFilesMissing, checkClaimedStatus, pendingExpired, createPairingSessionFails,
     storeSession, saveSession, pollPending, pollRevoked, pollExpired, pollApproved, provision,
     provisionFails, storeCertificate, saveCertificate, dropPollToken, saveClaim, Crash,
     loadDeviceRecord, ClockPasses, LoseCredentials

-------------------------------------------------------------------------------
(***************************************************************************)
(* The records.                                                            *)
(***************************************************************************)

\* RecordsInv for one record.
RecordOK(r) ==
  /\ r.claim = "CLAIMED" => Confirmed(r.device)
  /\ r.claim \in {"UNCLAIMED", "CLAIMED"} => r.pendingCert = 0
  /\ r.claim = "PAIRING_PENDING" => r.session \in Sessions

LEMMA RecordsInvParts == RecordsInv <=> RecordOK(mem) /\ RecordOK(disk.rec)
BY DEF RecordsInv, ClaimIsConfirmed, RecordOK, Confirmed

LEMMA RecordsInvPartsNext == RecordsInv' <=> RecordOK(mem)' /\ RecordOK(disk.rec)'
BY DEF RecordsInv, ClaimIsConfirmed, RecordOK, Confirmed

\* A record that is in order stays in order.
LEMMA RecordKept ==
  ASSUME TypeOK, RecordsInv, RunInv, [Next]_vars, NEW r, RecordOK(r)
  PROVE  RecordOK(r)'
BY CloudStep DEF RecordOK

LEMMA RecordsStep ==
  ASSUME TypeOK, RecordsInv, RunInv, [Next]_vars
  PROVE  RecordsInv'
<1> USE DEF files, outside
<1>a. mem \in Records /\ RecordOK(mem) /\ RecordOK(disk.rec)
  BY RecordsInvParts DEF TypeOK
<1>b. PICK m : m = mem'
  OBVIOUS
<1>c. PICK o \in Records : o = mem
  BY <1>a
<1>d. PICK k : k = disk.rec
  OBVIOUS
<1>e. RecordOK(o)' /\ RecordOK(k)'
  BY <1>a, <1>c, <1>d, RecordKept DEF RecordOK
<1>1. RecordOK(m)'
  <2>1. CASE mem' = mem \/ mem' = disk.rec
    BY <1>b, <1>c, <1>d, <1>e, <2>1
  <2>2. CASE mem'.claim \in {"UNCLAIMED", "REVOKED"} /\ (mem'.claim = "UNCLAIMED" => mem'.pendingCert = 0)
    BY <1>b, <2>2 DEF RecordOK
  <2>3. CASE mem' = [mem EXCEPT !.claim = "UNCLAIMED"] /\ mem.claim = "CLAIMED"
    <3>1. mem'.claim = "UNCLAIMED" /\ mem'.pendingCert = mem.pendingCert
      BY <1>a, <2>3 DEF Records
    <3> QED BY <1>a, <2>2, <2>3, <3>1 DEF RecordOK
  <2>4. CASE mem' = [mem EXCEPT !.claim = "REVOKED"] \/ mem' = [clearPending(mem) EXCEPT !.claim = "REVOKED"]
    <3>1. mem'.claim = "REVOKED"
      BY <1>a, <2>4, RecordEdits DEF Records
    <3> QED BY <2>2, <3>1
  <2>5. CASE mem' = Unclaimed(mem) \/ mem' = FreshRecord
    BY <1>a, <2>2, <2>5, RecordEdits DEF FreshRecord
  <2>6. CASE mem' = [mem EXCEPT !.claim = "PAIRING_PENDING", !.session = run.session] /\ run.at = "token"
    <3>1. mem'.claim = "PAIRING_PENDING" /\ mem'.session = run.session
      BY <1>a, <2>6 DEF Records
    <3> QED BY <1>b, <2>6, <3>1 DEF RunInv, RecordOK
  <2>7. CASE mem' = [mem EXCEPT !.pendingCert = run.cert] /\ run.at = "cert"
    <3>1. mem'.claim = "PAIRING_PENDING" /\ mem'.session = mem.session
      BY <1>a, <2>7 DEF Records, RunInv
    <3> QED BY <1>a, <1>b, <2>7, <3>1 DEF RunInv, RecordOK
  <2>8. CASE finalizeClaimed
    <3>1. mem.session \in Sessions /\ mem.pendingCert # 0
      BY <2>8, FinalizesPending DEF finalizeClaimed
    <3>2. mem'.claim = "CLAIMED" /\ mem'.device = mem.session /\ mem'.pendingCert = 0
      BY <1>a, <2>8, RecordEdits DEF finalizeClaimed, Records
    <3>3. cloud'[mem.session] = [status |-> "claimed", cert |-> mem.pendingCert]
      BY <2>8, <3>1 DEF finalizeClaimed, TypeOK
    <3> QED BY <1>b, <3>1, <3>2, <3>3 DEF RecordOK, Confirmed
  <2> QED
    BY <2>1, <2>3, <2>4, <2>5, <2>6, <2>7, <2>8 DEF Next, RunOnce, Environment, At, vars,
       runWithoutEffect, credentialFilesMissing, checkClaimedStatus, pendingExpired,
       createPairingSession, createPairingSessionFails, storeSession, saveSession, pollPending,
       pollRevoked, pollExpired, pollApproved, provision, provisionFails, storeCertificate,
       saveCertificate, finalizeUnanswered, finalizeRefused, dropPollToken, saveClaim, Crash,
       loadDeviceRecord, Approve, Lapse, Revoke, ClockPasses, LoseCredentials
<1>2. RecordOK(mem)' /\ RecordOK(disk.rec)'
  BY <1>b, <1>d, <1>e, <1>1, DiskStep DEF RecordOK
<1> QED BY <1>2, RecordsInvPartsNext

-------------------------------------------------------------------------------
(***************************************************************************)
(* Where a run stands.                                                     *)
(***************************************************************************)

\* RunInv for the run and the memory.
AtInv ==
  /\ run.at \in {"create", "token"} => mem.claim = "UNCLAIMED"
  /\ run.at \in {"saveSession", "provision", "cert"} =>
       mem.claim = "PAIRING_PENDING" /\ mem.pendingCert = 0
  /\ run.at \in {"saveCert", "finalize"} =>
       mem.claim = "PAIRING_PENDING" /\ mem.pendingCert # 0
  /\ run.at \in {"dropToken", "saveClaim"} => mem.claim = "CLAIMED"
  /\ run.at = "token" => run.session \in Sessions
  /\ run.at = "cert" => run.cert \in 1..Len(certKey)

LEMMA RunInvParts ==
  /\ RunInv <=> /\ ~up => run = Idle
                /\ disk.file \in {"missing", "legacy"} => disk.rec = FreshRecord
                /\ AtInv
  /\ RunInv' <=> /\ ~up' => run' = Idle
                 /\ disk'.file \in {"missing", "legacy"} => disk'.rec = FreshRecord
                 /\ AtInv'
BY DEF RunInv, AtInv

LEMMA RunStep ==
  ASSUME TypeOK, RecordsInv, RunInv, [Next]_vars
  PROVE  RunInv'
<1> USE DEF files, outside
<1>a. mem \in Records /\ run \in RunTypes /\ RecordOK(mem)
  BY RecordsInvParts DEF TypeOK, RunTypes
<1>b. AtInv
  BY RunInvParts
<1>1. disk'.file \in {"missing", "legacy"} => disk'.rec = FreshRecord
  BY DiskStep DEF RunInv
<1>2. ~up' => run' = Idle
  <2>1. CASE RunOnce
    <3>1. up /\ up' = up
      <4>1. CASE \/ runWithoutEffect \/ credentialFilesMissing \/ checkClaimedStatus
                 \/ pendingExpired \/ storeSession \/ saveSession \/ pollPending
                 \/ pollRevoked \/ pollExpired \/ pollApproved
        BY <4>1 DEF runWithoutEffect, credentialFilesMissing, checkClaimedStatus,
           pendingExpired, storeSession, saveSession, pollPending, pollRevoked, pollExpired,
           pollApproved, Polls, At, vars
      <4>2. CASE \/ \E s \in Sessions : createPairingSession(s)
                 \/ createPairingSessionFails \/ provision \/ provisionFails
                 \/ storeCertificate \/ saveCertificate \/ dropPollToken \/ saveClaim
        BY <4>2 DEF createPairingSession, createPairingSessionFails, provision,
           provisionFails, storeCertificate, saveCertificate, dropPollToken, saveClaim,
           Creates, At
      <4>3. CASE finalizeClaimed \/ finalizeUnanswered \/ finalizeRefused
        BY <4>3 DEF finalizeClaimed, finalizeUnanswered, finalizeRefused, Finalizes, At
      <4> QED BY <2>1, <4>1, <4>2, <4>3 DEF RunOnce
    <3> QED BY <3>1
  <2>2. CASE loadDeviceRecord \/ Crash
    BY <2>2 DEF loadDeviceRecord, Crash
  <2>3. CASE \/ UNCHANGED vars \/ LoseCredentials
             \/ \E s \in Sessions : Approve(s) \/ Lapse(s) \/ Revoke(s) \/ ClockPasses(s)
    <3>1. UNCHANGED <<up, run>>
      BY <2>3 DEF vars, LoseCredentials, Approve, Lapse, Revoke, ClockPasses
    <3> QED BY <3>1 DEF RunInv
  <2> QED BY <2>1, <2>2, <2>3 DEF Next, Environment
<1>3. AtInv'
  <2>1. CASE run'.at = "idle"
    BY <2>1 DEF AtInv
  <2>2. CASE UNCHANGED <<mem, run, certKey>>
    BY <1>b, <2>2 DEF AtInv
  <2>3. CASE run' = Idle
    BY <2>1, <2>3, IdleType
  <2>4. CASE /\ run.at = "idle" /\ UNCHANGED run
    BY <2>1, <2>4
  <2>5. CASE pendingExpired
    <3>1. run'.at = "create" /\ mem'.claim = "UNCLAIMED"
      BY <1>a, <2>5, RecordEdits DEF pendingExpired, RunTypes
    <3> QED BY <3>1 DEF AtInv
  <2>6. ASSUME NEW s \in Sessions, createPairingSession(s) PROVE AtInv'
    <3>1. run'.at = "token" /\ mem' = mem /\ run'.session = s
      BY <1>a, <2>6 DEF createPairingSession, RunTypes
    <3>2. mem.claim = "UNCLAIMED"
      BY <1>b, <2>6 DEF createPairingSession, Creates, At, AtInv
    <3> QED BY <3>1, <3>2 DEF AtInv
  <2>7. CASE storeSession
    <3>1. CASE run' = Idle
      BY <2>3, <3>1
    <3>2. CASE run' # Idle
      <4>1. /\ run' = [run EXCEPT !.at = "saveSession"]
            /\ mem' = [mem EXCEPT !.claim = "PAIRING_PENDING", !.session = run.session]
            /\ run.at = "token"
        BY <2>7, <3>2 DEF storeSession, At
      <4>2. run'.at = "saveSession" /\ mem'.claim = "PAIRING_PENDING" /\ mem'.pendingCert = mem.pendingCert
        BY <1>a, <4>1 DEF RunTypes, Records
      <4>3. mem.pendingCert = 0
        BY <1>a, <1>b, <4>1 DEF AtInv, RecordOK
      <4> QED BY <4>2, <4>3 DEF AtInv
    <3> QED BY <3>1, <3>2
  <2>8. CASE pollApproved
    <3>1. CASE UNCHANGED run
      BY <2>4, <2>8, <3>1 DEF pollApproved, Polls, At
    <3>2. CASE ~UNCHANGED run
      <4>1. run'.at = "provision" /\ mem' = mem
        BY <1>a, <2>8, <3>2 DEF pollApproved, RunTypes
      <4>2. mem.claim = "PAIRING_PENDING" /\ mem.pendingCert = 0
        BY <2>8 DEF pollApproved, Polls
      <4> QED BY <4>1, <4>2 DEF AtInv
    <3> QED BY <3>1, <3>2
  <2>9. CASE provision
    <3>1. run'.at = "cert" /\ mem' = mem /\ run'.cert = Len(certKey') /\ run.at = "provision"
      BY <1>a, <2>9 DEF provision, RunTypes, At
    <3>2. Len(certKey') \in 1..Len(certKey')
      BY <2>9, KeyEffect DEF provision, TypeOK
    <3> QED BY <1>b, <3>1, <3>2 DEF AtInv
  <2>10. CASE storeCertificate
    <3>1. CASE run' = Idle
      BY <2>3, <3>1
    <3>2. CASE run' # Idle
      <4>1. /\ run' = [run EXCEPT !.at = "saveCert"]
            /\ mem' = [mem EXCEPT !.pendingCert = run.cert]
            /\ run.at = "cert"
        BY <2>10, <3>2 DEF storeCertificate, At, Return
      <4>2. run'.at = "saveCert" /\ mem'.claim = mem.claim /\ mem'.pendingCert = run.cert
        BY <1>a, <4>1 DEF RunTypes, Records
      <4>3. mem.claim = "PAIRING_PENDING" /\ run.cert # 0
        BY <1>b, <4>1 DEF AtInv, TypeOK
      <4> QED BY <4>2, <4>3 DEF AtInv
    <3> QED BY <3>1, <3>2
  <2>11. CASE saveCertificate
    <3>1. CASE run' = Idle
      BY <2>3, <3>1
    <3>2. CASE run' # Idle
      <4>1. run'.at = "finalize" /\ run.at = "saveCert" /\ mem' = mem
        BY <1>a, <2>11, <3>2 DEF saveCertificate, At, Return, RunTypes
      <4> QED BY <1>b, <4>1 DEF AtInv
    <3> QED BY <3>1, <3>2
  <2>12. CASE finalizeClaimed
    <3>1. run'.at = "dropToken" /\ mem'.claim = "CLAIMED"
      BY <1>a, <2>12, RecordEdits DEF finalizeClaimed, RunTypes, Records
    <3> QED BY <3>1 DEF AtInv
  <2>13. CASE dropPollToken
    <3>1. CASE run' = Idle
      BY <2>3, <3>1
    <3>2. CASE run' # Idle
      <4>1. run'.at = "saveClaim" /\ run.at = "dropToken" /\ mem' = mem
        BY <1>a, <2>13, <3>2 DEF dropPollToken, At, Return, RunTypes
      <4> QED BY <1>b, <4>1 DEF AtInv
    <3> QED BY <3>1, <3>2
  <2>14. CASE \/ createPairingSessionFails \/ saveSession \/ provisionFails
              \/ finalizeUnanswered \/ finalizeRefused \/ saveClaim \/ Crash
    <3>1. run' = Idle
      BY <2>14 DEF createPairingSessionFails, saveSession, provisionFails, finalizeUnanswered,
         finalizeRefused, saveClaim, Crash, Return
    <3> QED BY <2>3, <3>1
  <2>15. CASE \/ credentialFilesMissing \/ checkClaimedStatus
              \/ pollPending \/ pollRevoked \/ pollExpired
    <3>1. run.at = "idle" /\ UNCHANGED run
      BY <2>15 DEF credentialFilesMissing, checkClaimedStatus, pollPending, pollRevoked,
         pollExpired, Polls, At
    <3> QED BY <2>4, <3>1
  <2>16. CASE loadDeviceRecord
    <3>1. run = Idle /\ UNCHANGED run
      BY <2>16 DEF loadDeviceRecord, RunInv
    <3> QED BY <2>3, <3>1
  <2>17. CASE \/ UNCHANGED vars \/ runWithoutEffect \/ LoseCredentials
              \/ \E s \in Sessions : Approve(s) \/ Lapse(s) \/ Revoke(s) \/ ClockPasses(s)
    <3>1. UNCHANGED <<mem, run, certKey>>
      BY <2>17 DEF vars, runWithoutEffect, LoseCredentials, Approve, Lapse, Revoke, ClockPasses
    <3> QED BY <2>2, <3>1
  <2> QED
    BY <2>5, <2>6, <2>7, <2>8, <2>9, <2>10, <2>11, <2>12, <2>13, <2>14, <2>15, <2>16, <2>17
       DEF Next, RunOnce, Environment
<1> QED BY <1>1, <1>2, <1>3, RunInvParts

-------------------------------------------------------------------------------
(***************************************************************************)
(* How far device.json is behind.                                          *)
(***************************************************************************)

\* The parts of SyncInv: the token file, and a process that is up.
TokenFits == disk.rec.claim = "PAIRING_PENDING" => token \in {0, disk.rec.session}

NotFarBehind ==
  up =>
    /\ run.at \in {"create", "token", "provision", "cert", "finalize"} => disk.rec = mem
    /\ run.at = "idle" =>
         \/ disk.rec = mem
         \/ /\ mem.claim = "PAIRING_PENDING" /\ mem.pendingCert = 0
            /\ mem.session \in expired /\ disk.rec.claim = "UNCLAIMED"
    /\ run.at = "saveSession" => token = mem.session /\ disk.rec.claim = "UNCLAIMED"
    /\ run.at = "saveCert" => disk.rec = [mem EXCEPT !.pendingCert = 0]
    /\ run.at \in {"dropToken", "saveClaim"} =>
         disk.rec.claim = "PAIRING_PENDING" /\ disk.rec.pendingCert # 0

LEMMA SyncInvParts ==
  /\ SyncInv <=> (NoFault => TokenFits /\ NotFarBehind)
  /\ SyncInv' <=> (NoFault' => TokenFits' /\ NotFarBehind')
BY DEF SyncInv, TokenFits, NotFarBehind

\* The places where device.json is up to date.
Level == {"idle", "create", "token", "provision", "cert", "finalize"}

LEMMA LevelNext ==
  ASSUME disk'.rec = mem', run'.at \in Level
  PROVE  NotFarBehind'
BY DEF NotFarBehind, Level

LEMMA SyncStep ==
  ASSUME TypeOK, RecordsInv, RunInv, SyncInv, [Next]_vars
  PROVE  SyncInv'
<1> USE DEF files, outside
<1> SUFFICES ASSUME NoFault'
             PROVE  TokenFits' /\ NotFarBehind'
  BY SyncInvParts
<1>a. /\ mem \in Records /\ run \in RunTypes /\ disk \in Disks /\ mem' \in Records
      /\ RecordOK(mem) /\ AtInv /\ NoFault /\ TokenFits /\ NotFarBehind
  BY RecordsInvParts, RunInvParts, SyncInvParts, DiskStep, TypeStep DEF TypeOK, RunTypes
<1>f. ~Fault
  BY FaultEffect
<1>s. (\E ok \in BOOLEAN : saveDeviceRecord(mem', ok)) => disk'.rec = mem'
  BY <1>a, SaveEffect
<1>1. CASE credentialFilesMissing
  <2>1. disk'.rec = mem' /\ mem'.claim = "UNCLAIMED" /\ run'.at = "idle"
    BY <1>1, <1>a, <1>s DEF credentialFilesMissing, Records, At
  <2> QED BY <2>1, LevelNext DEF Level, TokenFits
<1>2. CASE checkClaimedStatus
  <2>1. disk'.rec = mem' /\ mem'.claim = "REVOKED" /\ run'.at = "idle"
    BY <1>2, <1>a, <1>s DEF checkClaimedStatus, Records, At
  <2> QED BY <2>1, LevelNext DEF Level, TokenFits
<1>3. CASE pendingExpired
  <2>1. disk'.rec = mem' /\ mem'.claim = "UNCLAIMED" /\ run'.at = "create"
    BY <1>3, <1>a, <1>s, RecordEdits DEF pendingExpired, RunTypes
  <2> QED BY <2>1, LevelNext DEF Level, TokenFits
<1>4. Creates => disk.rec = mem
  BY <1>a DEF Creates, At, NotFarBehind
<1>5. ASSUME NEW s \in Sessions, createPairingSession(s) PROVE TokenFits' /\ NotFarBehind'
  <2>1. disk' = disk /\ mem' = mem /\ token' = token /\ run'.at = "token" /\ disk.rec = mem
    BY <1>4, <1>5, <1>a DEF createPairingSession, RunTypes
  <2> QED BY <1>a, <2>1, LevelNext DEF Level, TokenFits
<1>6. CASE createPairingSessionFails
  <2>1. disk' = disk /\ mem' = mem /\ token' = token /\ run'.at = "idle" /\ disk.rec = mem
    BY <1>4, <1>6, IdleType DEF createPairingSessionFails
  <2> QED BY <1>a, <2>1, LevelNext DEF Level, TokenFits
<1>7. CASE storeSession
  <2>1. /\ disk' = disk /\ token' = run.session
        /\ mem' = [mem EXCEPT !.claim = "PAIRING_PENDING", !.session = run.session]
        /\ run' = IF run.session \in expired THEN Idle ELSE [run EXCEPT !.at = "saveSession"]
        /\ run.at = "token" /\ up /\ expired' = expired
    BY <1>7, <1>f DEF storeSession, At
  <2>2. /\ mem'.claim = "PAIRING_PENDING" /\ mem'.session = run.session
        /\ mem'.pendingCert = mem.pendingCert
    BY <1>a, <2>1 DEF Records
  <2>3. disk.rec = mem /\ mem.claim = "UNCLAIMED" /\ mem.pendingCert = 0
    BY <1>a, <2>1 DEF NotFarBehind, AtInv, RecordOK
  <2>4. TokenFits'
    BY <2>1, <2>3 DEF TokenFits
  <2>5. CASE run.session \in expired
    <3>1. run'.at = "idle"
      BY <2>1, <2>5, IdleType
    <3> QED BY <2>1, <2>2, <2>3, <2>4, <2>5, <3>1 DEF NotFarBehind
  <2>6. CASE run.session \notin expired
    <3>1. run'.at = "saveSession"
      BY <1>a, <2>1, <2>6 DEF RunTypes
    <3> QED BY <2>1, <2>2, <2>3, <2>4, <3>1 DEF NotFarBehind
  <2> QED BY <2>5, <2>6
<1>8. CASE saveSession
  <2>1. disk'.rec = mem' /\ mem' = mem /\ token' = token /\ run'.at = "idle" /\ run.at = "saveSession" /\ up
    BY <1>8, <1>a, SaveEffect, IdleType DEF saveSession, At
  <2> QED BY <1>a, <2>1, LevelNext DEF Level, TokenFits, NotFarBehind
<1>9. CASE pollPending
  <2>1. disk'.rec = mem' /\ token' = token /\ run'.at = "idle" /\ token = mem.session
    BY <1>9, <1>a, <1>s DEF pollPending, Polls, At
  <2>2. mem' = mem \/ mem'.claim = "UNCLAIMED"
    BY <1>9, <1>a, RecordEdits DEF pollPending
  <2> QED BY <2>1, <2>2, LevelNext DEF Level, TokenFits
<1>10. CASE pollRevoked
  <2>1. disk'.rec = mem' /\ run'.at = "idle" /\ mem'.claim = "REVOKED"
    BY <1>10, <1>a, <1>s DEF pollRevoked, Polls, At, Records
  <2> QED BY <2>1, LevelNext DEF Level, TokenFits
<1>11. CASE pollExpired
  <2>1. disk'.rec = mem' /\ run'.at = "idle" /\ mem'.claim = "UNCLAIMED"
    BY <1>11, <1>a, <1>s, RecordEdits DEF pollExpired, Polls, At
  <2> QED BY <2>1, LevelNext DEF Level, TokenFits
<1>12. CASE pollApproved
  <2>1. disk' = disk /\ mem' = mem /\ token' = token /\ run'.at = "provision" /\ disk.rec = mem
    BY <1>12, <1>a, <1>f DEF pollApproved, Polls, At, RunTypes, NotFarBehind
  <2> QED BY <1>a, <2>1, LevelNext DEF Level, TokenFits
<1>13. CASE provision \/ provisionFails
  <2>1. /\ disk' = disk /\ mem' = mem /\ token' = token
        /\ run'.at \in {"cert", "idle"} /\ run.at = "provision" /\ up
    BY <1>13, <1>a, IdleType DEF provision, provisionFails, Return, At, RunTypes
  <2>2. disk.rec = mem
    BY <1>a, <2>1 DEF NotFarBehind
  <2> QED BY <1>a, <2>1, <2>2, LevelNext DEF Level, TokenFits
<1>14. CASE storeCertificate
  <2>1. /\ disk' = disk /\ token' = token /\ run'.at = "saveCert"
        /\ mem' = [mem EXCEPT !.pendingCert = run.cert] /\ run.at = "cert" /\ up
    BY <1>14, <1>a, <1>f DEF storeCertificate, At, RunTypes
  <2>2. disk.rec = mem /\ mem.pendingCert = 0
    BY <1>a, <2>1 DEF NotFarBehind, AtInv
  <2>3. [mem' EXCEPT !.pendingCert = 0] = mem
    BY <1>a, <2>1, <2>2 DEF Records
  <2> QED BY <1>a, <2>1, <2>2, <2>3 DEF NotFarBehind, TokenFits
<1>15. CASE saveCertificate
  <2>1. /\ disk'.rec = mem' /\ mem' = mem /\ token' = token
        /\ run'.at \in {"idle", "finalize"} /\ run.at = "saveCert" /\ up
    BY <1>15, <1>a, SaveEffect, IdleType DEF saveCertificate, Return, At, RunTypes
  <2>2. disk.rec.claim = mem.claim /\ disk.rec.session = mem.session
    BY <1>a, <2>1 DEF NotFarBehind, Records
  <2> QED BY <1>a, <2>1, <2>2, LevelNext DEF Level, TokenFits
<1>16. Finalizes => disk.rec = mem /\ mem.claim = "PAIRING_PENDING" /\ mem.pendingCert # 0
  BY <1>a, FinalizesPending DEF NotFarBehind
<1>17. CASE finalizeClaimed
  <2>1. disk' = disk /\ token' = token /\ run'.at = "dropToken"
    BY <1>17, <1>a DEF finalizeClaimed, RunTypes
  <2>2. disk.rec.claim = "PAIRING_PENDING" /\ disk.rec.pendingCert # 0
    BY <1>16, <1>17 DEF finalizeClaimed
  <2> QED BY <1>a, <2>1, <2>2 DEF NotFarBehind, TokenFits
<1>18. CASE finalizeUnanswered
  <2>1. disk'.rec = mem' /\ mem' = mem /\ token' = token /\ run'.at = "idle" /\ disk.rec = mem
    BY <1>16, <1>18, <1>a, SaveEffect, IdleType DEF finalizeUnanswered, Return
  <2> QED BY <1>a, <2>1, LevelNext DEF Level, TokenFits
<1>19. CASE finalizeRefused
  <2>1. disk'.rec = mem' /\ run'.at = "idle" /\ mem'.claim = "REVOKED"
    BY <1>19, <1>a, <1>s, RecordEdits, IdleType DEF finalizeRefused, Return, Records
  <2> QED BY <2>1, LevelNext DEF Level, TokenFits
<1>20. CASE dropPollToken
  <2>1. disk' = disk /\ token' = 0 /\ run'.at = "saveClaim" /\ run.at = "dropToken" /\ up
    BY <1>20, <1>a, <1>f DEF dropPollToken, RunTypes, At
  <2> QED BY <1>a, <2>1 DEF NotFarBehind, TokenFits
<1>21. CASE saveClaim
  <2>1. disk'.rec = mem' /\ mem' = mem /\ run'.at = "idle" /\ mem.claim = "CLAIMED"
    BY <1>21, <1>a, SaveEffect, IdleType DEF saveClaim, Return, At, AtInv
  <2> QED BY <2>1, LevelNext DEF Level, TokenFits
<1>22. CASE loadDeviceRecord
  <2>1. run'.at = "idle" /\ disk'.rec = mem' /\ token' = token
    BY <1>22, IdleType DEF loadDeviceRecord, saveDeviceRecord, RunInv
  <2>2. disk' = disk \/ mem'.claim = "UNCLAIMED"
    <3>1. FreshRecord.claim = "UNCLAIMED"
      BY DEF FreshRecord
    <3> QED BY <1>22, <3>1 DEF loadDeviceRecord
  <2> QED BY <1>a, <2>1, <2>2, LevelNext DEF Level, TokenFits
<1>23. CASE Crash
  BY <1>23, <1>a DEF Crash, TokenFits, NotFarBehind
<1>24. CASE \/ UNCHANGED vars \/ runWithoutEffect \/ LoseCredentials
            \/ \E s \in Sessions : Approve(s) \/ Lapse(s) \/ Revoke(s) \/ ClockPasses(s)
  <2>1. UNCHANGED <<up, mem, run, disk, token>> /\ expired \subseteq expired'
    BY <1>24 DEF vars, runWithoutEffect, LoseCredentials, Approve, Lapse, Revoke, ClockPasses
  <2> QED BY <1>a, <2>1 DEF TokenFits, NotFarBehind
<1> QED
  BY <1>1, <1>2, <1>3, <1>5, <1>6, <1>7, <1>8, <1>9, <1>10, <1>11, <1>12, <1>13, <1>14,
     <1>15, <1>17, <1>18, <1>19, <1>20, <1>21, <1>22, <1>23, <1>24
     DEF Next, RunOnce, Environment

-------------------------------------------------------------------------------
(***************************************************************************)
(* The credential files.                                                   *)
(***************************************************************************)

\* CredentialInv for one record, and for the certificate on its way.
Fits(r) ==
  /\ r.claim = "PAIRING_PENDING" /\ r.pendingCert # 0 => Holds(r.pendingCert)
  /\ r.claim = "CLAIMED" => Holds(cloud[r.device].cert)

KeyIsOfRun == run.at = "cert" => key \in {0, certKey[run.cert]}

\* A record that says nothing of the files.
Silent(r) ==
  \/ r.claim \in {"UNCLAIMED", "REVOKED"}
  \/ r.claim = "PAIRING_PENDING" /\ r.pendingCert = 0

LEMMA CredentialInvParts ==
  /\ CredentialInv <=> (NoFault => Fits(mem) /\ Fits(disk.rec) /\ KeyIsOfRun)
  /\ CredentialInv' <=> (NoFault' => Fits(mem)' /\ Fits(disk.rec)' /\ KeyIsOfRun')
BY DEF CredentialInv, Fits, KeyIsOfRun

LEMMA SilentFits ==
  ASSUME NEW r, Silent(r)
  PROVE  Fits(r)'
BY DEF Silent, Fits

\* The files are as they were, or lost.
FilesKept == certKey' = certKey /\ key' \in {0, key} /\ cert' \in {0, cert}

\* A record that fits the files fits them as long as they are not written.
LEMMA FitsKept ==
  ASSUME TypeOK, RecordsInv, RunInv, [Next]_vars, FilesKept,
         NEW r, RecordOK(r), Fits(r)
  PROVE  Fits(r)'
<1>1. \A c : Holds(c) => Holds(c)'
  BY DEF Holds, FilesKept
<1>2. CASE r.claim = "CLAIMED"
  <2>1. PICK c : c = cloud[r.device].cert
    OBVIOUS
  <2>2. cloud'[r.device].cert = c
    BY <1>2, <2>1, CloudStep DEF RecordOK
  <2>3. Holds(c)
    BY <1>2, <2>1 DEF Fits
  <2> QED BY <1>1, <1>2, <2>2, <2>3 DEF Fits
<1>3. CASE r.claim # "CLAIMED"
  BY <1>1, <1>3 DEF Fits
<1> QED BY <1>2, <1>3

\* Every step that does not write the files and does not begin to.
LEMMA CredentialKept ==
  ASSUME TypeOK, RecordsInv, RunInv, [Next]_vars, FilesKept,
         Fits(mem), Fits(disk.rec), KeyIsOfRun,
         run'.at = "cert" => run' = run,
         mem' = mem \/ mem' = disk.rec \/ Silent(mem')
  PROVE  Fits(mem)' /\ Fits(disk.rec)' /\ KeyIsOfRun'
<1>a. RecordOK(mem) /\ RecordOK(disk.rec)
  BY RecordsInvParts
<1>b. PICK o : o = mem
  OBVIOUS
<1>c. PICK k : k = disk.rec
  OBVIOUS
<1>d. PICK m : m = mem'
  OBVIOUS
<1>1. Fits(o)' /\ Fits(k)'
  BY <1>a, <1>b, <1>c, FitsKept DEF Fits, RecordOK
<1>2. Fits(m)'
  BY <1>1, <1>b, <1>c, <1>d, SilentFits DEF Silent
<1>3. KeyIsOfRun'
  BY DEF KeyIsOfRun, FilesKept
<1>4. Fits(mem)'
  BY <1>2, <1>d DEF Fits
<1>5. Fits(disk.rec)'
  BY <1>1, <1>2, <1>c, <1>d, DiskStep DEF Fits
<1> QED BY <1>3, <1>4, <1>5

\* A step that writes a file while neither record tells of them.
LEMMA CredentialSilent ==
  ASSUME TypeOK, RecordsInv, RunInv, [Next]_vars, Silent(mem'), Silent(disk.rec)
  PROVE  Fits(mem)' /\ Fits(disk.rec)'
<1>1. PICK m : m = mem'
  OBVIOUS
<1>2. PICK k : k = disk'.rec
  OBVIOUS
<1>3. Silent(m) /\ Silent(k)
  BY <1>1, <1>2, DiskStep DEF Silent
<1>4. Fits(m)' /\ Fits(k)'
  BY <1>3, SilentFits
<1> QED BY <1>1, <1>2, <1>4 DEF Fits

LEMMA CredentialStep ==
  ASSUME TypeOK, RecordsInv, RunInv, SyncInv, CredentialInv, [Next]_vars
  PROVE  CredentialInv'
<1> USE DEF files, outside
<1> SUFFICES ASSUME NoFault'
             PROVE  Fits(mem)' /\ Fits(disk.rec)' /\ KeyIsOfRun'
  BY CredentialInvParts
<1>a. /\ mem \in Records /\ run \in RunTypes /\ RecordOK(mem) /\ AtInv /\ NoFault
      /\ NotFarBehind /\ Fits(mem) /\ Fits(disk.rec) /\ KeyIsOfRun
  BY RecordsInvParts, RunInvParts, SyncInvParts, CredentialInvParts, DiskStep
     DEF TypeOK, RunTypes
<1>f. ~Fault
  BY FaultEffect
<1>1. CASE credentialFilesMissing \/ checkClaimedStatus \/ pollRevoked
  <2>1. mem'.claim \in {"UNCLAIMED", "REVOKED"} /\ run' = run /\ FilesKept
    BY <1>1, <1>a DEF credentialFilesMissing, checkClaimedStatus, pollRevoked, Records,
       FilesKept
  <2> QED BY <1>a, <2>1, CredentialKept DEF Silent
<1>2. CASE pendingExpired \/ pollExpired
  <2>1. mem'.claim = "UNCLAIMED" /\ run'.at # "cert" /\ FilesKept
    BY <1>2, <1>a, RecordEdits DEF pendingExpired, pollExpired, Polls, At, RunTypes, FilesKept
  <2> QED BY <1>a, <2>1, CredentialKept DEF Silent
<1>3. CASE pollPending
  <2>1. (mem' = mem \/ mem'.claim = "UNCLAIMED") /\ run' = run /\ FilesKept
    BY <1>3, <1>a, RecordEdits DEF pollPending, FilesKept
  <2> QED BY <1>a, <2>1, CredentialKept DEF Silent
<1>4. CASE createPairingSessionFails \/ \E s \in Sessions : createPairingSession(s)
  <2>1. mem' = mem /\ run'.at # "cert" /\ Creates
    BY <1>4, <1>a, IdleType DEF createPairingSession, createPairingSessionFails, RunTypes
  <2>2. mem.claim = "UNCLAIMED" /\ disk.rec = mem
    BY <1>a, <2>1 DEF Creates, At, AtInv, NotFarBehind
  <2> QED BY <2>1, <2>2, CredentialSilent DEF Silent, KeyIsOfRun
<1>5. CASE storeSession
  <2>1. /\ mem' = [mem EXCEPT !.claim = "PAIRING_PENDING", !.session = run.session]
        /\ run'.at # "cert" /\ run.at = "token" /\ FilesKept
    BY <1>5, <1>a, <1>f, IdleType DEF storeSession, At, RunTypes, FilesKept
  <2>2. mem'.claim = "PAIRING_PENDING" /\ mem'.pendingCert = mem.pendingCert
    BY <1>a, <2>1 DEF Records
  <2>3. mem.pendingCert = 0
    BY <1>a, <2>1 DEF AtInv, RecordOK
  <2> QED BY <1>a, <2>1, <2>2, <2>3, CredentialKept DEF Silent
<1>6. CASE saveSession \/ pollApproved \/ saveCertificate
  <2>1. mem' = mem /\ run'.at # "cert" /\ FilesKept
    BY <1>6, <1>a, <1>f, IdleType DEF saveSession, pollApproved, saveCertificate, Return,
       RunTypes, FilesKept
  <2> QED BY <1>a, <2>1, CredentialKept
<1>7. CASE finalizeUnanswered \/ dropPollToken \/ saveClaim
  <2>1. mem' = mem /\ run'.at # "cert" /\ FilesKept
    BY <1>7, <1>a, <1>f, IdleType DEF finalizeUnanswered, dropPollToken, saveClaim, Return,
       RunTypes, FilesKept
  <2> QED BY <1>a, <2>1, CredentialKept
<1>8. CASE provision \/ provisionFails
  <2>1. mem' = mem /\ run.at = "provision" /\ up
    BY <1>8 DEF provision, provisionFails, At
  <2>2. Silent(mem) /\ disk.rec = mem
    BY <1>a, <2>1 DEF AtInv, NotFarBehind, Silent
  <2>3. Fits(mem)' /\ Fits(disk.rec)'
    BY <2>1, <2>2, CredentialSilent DEF Silent
  <2>4. KeyIsOfRun'
    <3>1. CASE provision
      <4>1. certKey' = Append(certKey, key') /\ run'.cert = Len(certKey')
        BY <1>a, <3>1 DEF provision, RunTypes
      <4>2. certKey'[Len(certKey')] = key'
        BY <3>1, <4>1, KeyEffect DEF provision, TypeOK
      <4> QED BY <4>1, <4>2 DEF KeyIsOfRun
    <3>2. CASE provisionFails
      BY <3>2, IdleType DEF provisionFails, Return, KeyIsOfRun
    <3> QED BY <1>8, <3>1, <3>2
  <2> QED BY <2>3, <2>4
<1>9. CASE storeCertificate
  <2>1. /\ cert' = run.cert /\ UNCHANGED <<key, certKey, disk>> /\ run.at = "cert" /\ up
        /\ mem' = [mem EXCEPT !.pendingCert = run.cert] /\ run'.at = "saveCert"
    BY <1>9, <1>a, <1>f DEF storeCertificate, At, RunTypes
  <2>2. mem'.claim = "PAIRING_PENDING" /\ mem'.pendingCert = run.cert
    BY <1>a, <2>1 DEF Records, AtInv
  <2>3. PICK c : c = run.cert
    OBVIOUS
  <2>4. Holds(c)'
    BY <1>a, <2>1, <2>3 DEF Holds, AtInv, KeyIsOfRun
  <2>5. Fits(mem)'
    BY <2>2, <2>3, <2>4 DEF Fits
  <2>6. disk'.rec.claim = "PAIRING_PENDING" /\ disk'.rec.pendingCert = 0
    BY <1>a, <2>1 DEF NotFarBehind, AtInv
  <2> QED BY <2>1, <2>5, <2>6 DEF Fits, KeyIsOfRun
<1>10. CASE finalizeClaimed
  <2>1. FilesKept /\ disk' = disk /\ run'.at = "dropToken"
    BY <1>10, <1>a DEF finalizeClaimed, FilesKept, RunTypes
  <2>2. /\ mem.claim = "PAIRING_PENDING" /\ mem.pendingCert # 0 /\ mem.session \in Sessions
    BY <1>10, FinalizesPending DEF finalizeClaimed
  <2>3. PICK c : c = mem.pendingCert
    OBVIOUS
  <2>4. Holds(c)'
    BY <1>a, <2>1, <2>2, <2>3 DEF Fits, Holds, FilesKept
  <2>5. mem'.claim = "CLAIMED" /\ mem'.device = mem.session
    BY <1>10, <1>a, RecordEdits DEF finalizeClaimed, Records
  <2>6. cloud'[mem.session].cert = c
    BY <1>10, <2>2, <2>3 DEF finalizeClaimed, TypeOK
  <2>7. Fits(mem)'
    BY <2>4, <2>5, <2>6 DEF Fits
  <2>8. PICK k : k = disk.rec
    OBVIOUS
  <2>9. Fits(k)'
    BY <1>a, <2>1, <2>8, FitsKept, RecordsInvParts DEF Fits, RecordOK
  <2> QED BY <2>1, <2>7, <2>8, <2>9 DEF Fits, KeyIsOfRun
<1>11. CASE finalizeRefused
  <2>1. mem'.claim = "REVOKED" /\ run'.at # "cert" /\ FilesKept
    BY <1>11, <1>a, RecordEdits, IdleType DEF finalizeRefused, Return, Records, FilesKept
  <2> QED BY <1>a, <2>1, CredentialKept DEF Silent
<1>12. CASE loadDeviceRecord \/ Crash
  <2>1. FreshRecord.claim = "UNCLAIMED"
    BY DEF FreshRecord
  <2>2. /\ mem' = disk.rec \/ mem'.claim = "UNCLAIMED"
        /\ run'.at # "cert" /\ FilesKept
    BY <1>12, <2>1, IdleType DEF loadDeviceRecord, Crash, RunInv, FilesKept
  <2> QED BY <1>a, <2>2, CredentialKept DEF Silent
<1>13. CASE \/ UNCHANGED vars \/ runWithoutEffect \/ LoseCredentials
            \/ \E s \in Sessions : Approve(s) \/ Lapse(s) \/ Revoke(s) \/ ClockPasses(s)
  <2>1. UNCHANGED <<mem, run>> /\ FilesKept
    BY <1>13 DEF vars, runWithoutEffect, LoseCredentials, Approve, Lapse, Revoke, ClockPasses,
       FilesKept
  <2> QED BY <1>a, <2>1, CredentialKept
<1> QED
  BY <1>1, <1>2, <1>3, <1>4, <1>5, <1>6, <1>7, <1>8, <1>9, <1>10, <1>11, <1>12, <1>13
     DEF Next, RunOnce, Environment

-------------------------------------------------------------------------------
(***************************************************************************)
(* The theorems.                                                           *)
(***************************************************************************)

EnrollmentInv == TypeOK /\ RecordsInv /\ RunInv /\ SyncInv /\ CredentialInv

\* The inductive invariant of the module holds in every reachable state, wherever
\* RunOnce is cut off and whatever answers are lost or files fail to be written
\* (enrollment_manager.go, enrollment_storage.go).
THEOREM EnrollmentInvariance == Spec => []EnrollmentInv
<1>1. Init => EnrollmentInv
  <2> SUFFICES ASSUME Init PROVE EnrollmentInv
    OBVIOUS
  <2>1. disk \in Disks /\ disk.rec = FreshRecord
    BY FreshType DEF Init, Disks
  <2>2. FreshRecord.claim = "UNCLAIMED" /\ FreshRecord.pendingCert = 0
    BY DEF FreshRecord
  <2>3. TypeOK
    <3>1. cloud \in [Sessions -> [status : SessionStates, cert : 0..MaxCerts]]
      BY Bounds DEF Init, SessionStates
    <3>2. budget \in [crashes : 0..MaxCrashes, faults : 0..MaxFaults, losses : 0..MaxLosses]
      BY Bounds DEF Init
    <3>3. /\ 0 \in Torn..MaxSessions /\ 0 \in Torn..MaxKeys /\ 0 \in Torn..MaxCerts
          /\ 0 \in 0..MaxKeys
      BY Bounds DEF Torn
    <3>4. /\ token \in Torn..MaxSessions /\ key \in Torn..MaxKeys /\ cert \in Torn..MaxCerts
          /\ keys \in 0..MaxKeys
      BY <3>3 DEF Init
    <3>5. mem \in Records /\ run \in RunTypes /\ up \in BOOLEAN /\ claimFiles \in BOOLEAN
      BY FreshType, IdleType DEF Init
    <3>6. certKey \in Seq(1..MaxKeys) /\ expired \subseteq Sessions
      BY DEF Init
    <3> QED BY <2>1, <3>1, <3>2, <3>4, <3>5, <3>6 DEF TypeOK, RunTypes
  <2>4. RecordsInv
    BY <2>1, <2>2 DEF Init, RecordsInv, ClaimIsConfirmed
  <2>5. RunInv
    BY <2>1, IdleType DEF Init, RunInv
  <2>6. SyncInv
    BY <2>1, <2>2 DEF Init, SyncInv
  <2>7. CredentialInv
    BY <2>1, <2>2, IdleType DEF Init, CredentialInv
  <2> QED BY <2>3, <2>4, <2>5, <2>6, <2>7 DEF EnrollmentInv
<1>2. EnrollmentInv /\ [Next]_vars => EnrollmentInv'
  BY TypeStep, RecordsStep, RunStep, SyncStep, CredentialStep DEF EnrollmentInv
<1> QED BY <1>1, <1>2, PTL DEF Spec

\* The record in memory, device.json, the secret files and the cloud's sessions
\* always hold values of their types.
THEOREM TypeCorrect == Spec => []TypeOK
<1>1. EnrollmentInv => TypeOK
  BY DEF EnrollmentInv
<1> QED BY <1>1, EnrollmentInvariance, PTL

\* A record that says CLAIMED, in memory or on disk, names a device the cloud has
\* confirmed: files alone never make the agent boot as claimed (loadRuntimeState,
\* finalizeClaim).
THEOREM ClaimsAreConfirmed == Spec => []ClaimIsConfirmed
<1>1. EnrollmentInv => ClaimIsConfirmed
  BY DEF EnrollmentInv, RecordsInv
<1> QED BY <1>1, EnrollmentInvariance, PTL

\* As long as no file operation failed, the poll token on disk is the token of the
\* session device.json waits on, whichever of the two files the process wrote last
\* when it died (createPairingSession, finalizeClaim).
THEOREM TokensFit == Spec => []TokenIsOfSession
<1>1. EnrollmentInv => TokenIsOfSession
  BY Bounds DEF EnrollmentInv, SyncInv, TokenIsOfSession, Sessions
<1> QED BY <1>1, EnrollmentInvariance, PTL

\* As long as no file operation failed, a claimed agent that has its files has the
\* certificate the cloud confirmed and the key it was issued for, through crashes and
\* lost files (handleApprovedClaim, finalizeClaim, ensureDevicePrivateKey).
THEOREM CredentialsAreConfirmed == Spec => []CredentialIsTheConfirmedOne
<1>1. EnrollmentInv => CredentialIsTheConfirmedOne
  <2> SUFFICES ASSUME EnrollmentInv, NoFault, up, mem.claim = "CLAIMED", key # 0, cert # 0
               PROVE  cert = cloud[mem.device].cert /\ certKey[cert] = key
    BY DEF CredentialIsTheConfirmedOne
  <2>1. Holds(cloud[mem.device].cert)
    BY CredentialInvParts DEF EnrollmentInv, Fits
  <2> QED BY <2>1 DEF Holds
<1> QED BY <1>1, EnrollmentInvariance, PTL

\* As long as no file operation failed, no step takes a certificate that awaits
\* confirmation out of device.json unless the cloud decided: neither an expiry nor a
\* restart sends the agent back to UNCLAIMED with a live certificate on disk (RunOnce,
\* loadDeviceRecord).
THEOREM ProvisionedStays == Spec => ProvisionedIsKept
<1>1. ASSUME EnrollmentInv, [Next]_vars, NoFault, disk.rec.claim = "PAIRING_PENDING",
             disk.rec.pendingCert # 0
      PROVE  disk'.rec.claim \in {"CLAIMED", "REVOKED"} \/ disk'.rec = disk.rec
  <2> USE DEF files, outside
  <2>a. /\ mem \in Records /\ AtInv /\ NotFarBehind
        /\ TypeOK /\ RecordsInv /\ RunInv
    BY <1>1, RunInvParts, SyncInvParts DEF EnrollmentInv, TypeOK
  <2>b. disk'.rec \in {disk.rec, mem'}
    BY <1>1, <2>a, DiskStep
  <2>1. CASE ~up
    <3>1. disk.file \notin {"missing", "legacy"}
      BY <1>1, <2>a DEF RunInv, FreshRecord
    <3>2. CASE loadDeviceRecord
      BY <3>1, <3>2 DEF loadDeviceRecord
    <3>3. CASE RunOnce \/ Environment \/ UNCHANGED vars
      <4>1. disk' = disk
        BY <2>1, <3>3 DEF RunOnce, Environment, vars, At, Creates, Polls, Finalizes,
           runWithoutEffect, credentialFilesMissing, checkClaimedStatus, pendingExpired,
           createPairingSession, createPairingSessionFails, storeSession, saveSession,
           pollPending, pollRevoked, pollExpired, pollApproved, provision, provisionFails,
           storeCertificate, saveCertificate, finalizeClaimed, finalizeUnanswered,
           finalizeRefused, dropPollToken, saveClaim, Crash, Approve, Lapse, Revoke,
           ClockPasses, LoseCredentials
      <4> QED BY <4>1
    <3> QED BY <1>1, <3>2, <3>3 DEF Next
  <2>2. CASE up /\ run.at \in {"create", "token", "saveSession", "provision", "cert", "saveCert"}
    <3>1. disk.rec.claim = "UNCLAIMED" \/ disk.rec.pendingCert = 0
      <4>1. CASE run.at = "saveCert"
        BY <2>2, <2>a, <4>1 DEF NotFarBehind, Records
      <4>2. CASE run.at # "saveCert"
        BY <2>2, <2>a, <4>2 DEF NotFarBehind, AtInv
      <4> QED BY <4>1, <4>2
    <3> QED BY <1>1, <3>1
  <2>3. CASE up /\ run.at \in {"dropToken", "saveClaim"}
    <3>1. mem' = mem \/ disk' = disk
      BY <1>1, <2>3 DEF Next, RunOnce, Environment, vars, At, Creates, Polls, Finalizes,
         runWithoutEffect, credentialFilesMissing, checkClaimedStatus, pendingExpired,
         createPairingSession, createPairingSessionFails, storeSession, saveSession,
         pollPending, pollRevoked, pollExpired, pollApproved, provision, provisionFails,
         storeCertificate, saveCertificate, finalizeClaimed, finalizeUnanswered,
         finalizeRefused, dropPollToken, saveClaim, Crash, loadDeviceRecord, Approve, Lapse,
         Revoke, ClockPasses, LoseCredentials
    <3>2. mem.claim = "CLAIMED"
      BY <2>a, <2>3 DEF AtInv
    <3> QED BY <2>b, <3>1, <3>2
  <2>4. CASE up /\ run.at \in {"idle", "finalize"}
    <3>1. disk.rec = mem
      BY <1>1, <2>a, <2>4 DEF NotFarBehind
    <3>2. mem' = mem \/ disk' = disk \/ mem'.claim = "REVOKED"
      <4>1. CASE finalizeRefused
        BY <2>a, <4>1, RecordEdits DEF finalizeRefused, Records
      <4>2. CASE ~finalizeRefused
        BY <1>1, <2>4, <3>1, <4>2 DEF Next, RunOnce, Environment, vars, At, Creates, Polls,
           Finalizes, runWithoutEffect, credentialFilesMissing, checkClaimedStatus,
           pendingExpired, createPairingSession, createPairingSessionFails, storeSession,
           saveSession, pollPending, pollRevoked, pollExpired, pollApproved, provision,
           provisionFails, storeCertificate, saveCertificate, finalizeClaimed,
           finalizeUnanswered, dropPollToken, saveClaim, Crash, loadDeviceRecord, Approve,
           Lapse, Revoke, ClockPasses, LoseCredentials
      <4> QED BY <4>1, <4>2
    <3> QED BY <2>b, <3>1, <3>2
  <2> QED BY <2>a, <2>1, <2>2, <2>3, <2>4 DEF TypeOK
<1>2. EnrollmentInv /\ [Next]_vars =>
        [NoFault /\ disk.rec.claim = "PAIRING_PENDING" /\ disk.rec.pendingCert # 0 =>
           \/ disk'.rec.claim \in {"CLAIMED", "REVOKED"}
           \/ disk'.rec = disk.rec]_vars
  BY <1>1
<1> QED BY <1>2, EnrollmentInvariance, PTL DEF Spec, ProvisionedIsKept
===============================================================================
