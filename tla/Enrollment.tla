------------------------------ MODULE Enrollment ------------------------------
(***************************************************************************)
(* Enrolment of the Home Assistant agent:                                  *)
(* homesignal/cmd/agent/enrollment_manager.go (the reconcile loop RunOnce) *)
(* and enrollment_storage.go (device.json and the secret files).           *)
(*                                                                         *)
(* RunOnce runs under a mutex, so one run is in progress at a time; but it *)
(* makes several durable changes (files of its own, calls that change the  *)
(* cloud), and the process may die between any two of them.  Memory is     *)
(* then reloaded from device.json.  A call may take effect in the cloud    *)
(* while its answer is lost, and a file operation may fail.                *)
(***************************************************************************)
EXTENDS Integers, Sequences

CONSTANTS
  MaxSessions,  \* bound: pairing sessions the cloud creates
  MaxCerts,     \* bound: device certificates AWS IoT issues
  MaxKeys,      \* bound: device keys the agent generates
  MaxCrashes,   \* bound: deaths of the process
  MaxFaults,    \* bound: failed file operations
  MaxLosses     \* bound: credential files removed behind the agent's back

ASSUME EnrollmentAssumption ==
  {MaxSessions, MaxCerts, MaxKeys, MaxCrashes, MaxFaults, MaxLosses} \subseteq Nat

VARIABLES
  up,        \* the process runs
  mem,       \* EnrollmentManager.record
  run,       \* where RunOnce stands, and its local variables
  disk,      \* device.json: [file, rec]
  token,     \* secrets/poll_token: the session whose token it holds
  key,       \* iot/device.key: a key
  cert,      \* iot/device.crt: a certificate
  claimFiles,\* secrets/aws_claim.crt or .key is on disk
  cloud,     \* external: the cloud's pairing sessions
  certKey,   \* external: the key each certificate was issued for
  expired,   \* sessions whose expiry the agent's clock has passed
  keys,      \* number of keys generated so far
  budget     \* [crashes, faults, losses] used so far

files == <<token, key, cert, claimFiles>>
outside == <<cloud, certKey, expired>>
vars == <<up, mem, run, disk, files, outside, keys, budget>>

-------------------------------------------------------------------------------
(***************************************************************************)
(* Data.  A session stands for its id, its poll token and the device id    *)
(* the cloud reserves for it; 0 is an empty field or an absent file, Torn  *)
(* a file with half of its content.                                        *)
(***************************************************************************)
Torn == -1

Sessions == 1..MaxSessions

ClaimStates == {"UNCLAIMED", "PAIRING_PENDING", "CLAIMED", "REVOKED"}

Records == [claim : ClaimStates, session : 0..MaxSessions,
            pendingCert : 0..MaxCerts, device : 0..MaxSessions]

FreshRecord == [claim |-> "UNCLAIMED", session |-> 0, pendingCert |-> 0,
                device |-> 0]

\* "legacy" is a device.json of schema version 0, "torn" one that does not parse.
Disks == [file : {"missing", "legacy", "torn", "ok"}, rec : Records]

SessionStates == {"none", "pending", "approved", "claimed", "revoked", "expired"}

Idle == [at |-> "idle", session |-> 0, cert |-> 0, deferred |-> FALSE]

clearPending(rec) == [rec EXCEPT !.session = 0, !.pendingCert = 0]

Unclaimed(rec) == [clearPending(rec) EXCEPT !.claim = "UNCLAIMED"]

-------------------------------------------------------------------------------
(***************************************************************************)
(* File operations.                                                        *)
(***************************************************************************)
Fault ==
  /\ budget.faults < MaxFaults
  /\ budget' = [budget EXCEPT !.faults = @ + 1]

\* A failed save leaves the old file, a torn one (os.WriteFile truncates before
\* it writes) or the new one (os.Chmod failed).
saveDeviceRecord(rec, ok) ==
  LET new == [file |-> "ok", rec |-> rec] IN
  \/ /\ ok
     /\ disk' = new
     /\ UNCHANGED budget
  \/ /\ ~ok
     /\ Fault
     /\ disk' \in {disk, [disk EXCEPT !.file = "torn"], new}

\* The same for a secret file: what it may hold after a failed write.
AfterFailedWrite(old, new) == {old, Torn, new}

\* The key file is created when it is missing; a torn one is an error for good.
ensureDevicePrivateKey ==
  \/ key \notin {0, Torn} /\ UNCHANGED <<key, keys>>
  \/ key = 0 /\ keys < MaxKeys /\ keys' = keys + 1 /\ key' = keys + 1

ensureDevicePrivateKeyFails ==
  \/ key = Torn /\ UNCHANGED <<key, keys, budget>>
  \/ /\ key = 0 /\ keys < MaxKeys
     /\ Fault
     /\ keys' = keys + 1
     /\ key' \in AfterFailedWrite(key, keys + 1)

\* RunOnce returns; the deferred removal of the claim material runs if it was
\* registered, and its errors are ignored.
Return ==
  /\ run' = Idle
  /\ \/ claimFiles' = (claimFiles /\ ~run.deferred)
     \/ MaxFaults > 0 /\ UNCHANGED claimFiles

At(place) == up /\ run.at = place

-------------------------------------------------------------------------------
(***************************************************************************)
(* RunOnce on a claimed, revoked or expired record.                        *)
(***************************************************************************)

\* A run that changes nothing: a claimed device in order, a revoked one, an
\* agent that is not configured, a token that cannot be read, or a call to the
\* cloud that fails or has an answer the agent does not know.
runWithoutEffect ==
  /\ At("idle")
  /\ mem.claim = "CLAIMED" => key # 0 /\ cert # 0
  /\ (mem.claim = "PAIRING_PENDING" /\ mem.pendingCert = 0) =>
       mem.session \notin expired
  /\ UNCHANGED vars

\* The save error is ignored.
credentialFilesMissing ==
  /\ At("idle")
  /\ mem.claim = "CLAIMED"
  /\ key = 0 \/ cert = 0
  /\ mem' = [mem EXCEPT !.claim = "UNCLAIMED"]
  /\ \E ok \in BOOLEAN : saveDeviceRecord(mem', ok)
  /\ UNCHANGED <<up, run, files, outside, keys>>

checkClaimedStatus ==
  /\ At("idle")
  /\ mem.claim = "CLAIMED"
  /\ key # 0 /\ cert # 0
  /\ cloud[mem.device].status = "revoked"
  /\ mem' = [mem EXCEPT !.claim = "REVOKED"]
  /\ \E ok \in BOOLEAN : saveDeviceRecord(mem', ok)
  /\ UNCHANGED <<up, run, files, outside, keys>>

\* Mutant: the expired session is forgotten in memory only.
pendingExpiredUnsaved ==
  /\ At("idle")
  /\ mem.claim = "PAIRING_PENDING"
  /\ mem.pendingCert = 0
  /\ mem.session \in expired
  /\ mem' = Unclaimed(mem)
  /\ run' = [run EXCEPT !.at = "create"]
  /\ UNCHANGED <<up, disk, files, outside, keys, budget>>

\* Mutant: a provisioned certificate does not stop the expiry.
pendingExpiredAlways ==
  /\ At("idle")
  /\ mem.claim = "PAIRING_PENDING"
  /\ mem.session \in expired
  /\ mem' = Unclaimed(mem)
  /\ run' = [run EXCEPT !.at = "create"]
  /\ \E ok \in BOOLEAN : saveDeviceRecord(mem', ok)
  /\ UNCHANGED <<up, files, outside, keys>>

\* The save error is ignored, and the run goes on to a new session.
pendingExpired ==
  /\ At("idle")
  /\ mem.claim = "PAIRING_PENDING"
  /\ mem.pendingCert = 0
  /\ mem.session \in expired
  /\ mem' = Unclaimed(mem)
  /\ run' = [run EXCEPT !.at = "create"]
  /\ \E ok \in BOOLEAN : saveDeviceRecord(mem', ok)
  /\ UNCHANGED <<up, files, outside, keys>>

-------------------------------------------------------------------------------
(***************************************************************************)
(* createPairingSession.                                                   *)
(***************************************************************************)

Creates == At("create") \/ (At("idle") /\ mem.claim = "UNCLAIMED")

\* The cloud creates a session and its answer arrives.
createPairingSession(s) ==
  /\ Creates
  /\ ensureDevicePrivateKey
  /\ cloud[s].status = "none"
  /\ \A t \in Sessions : t < s => cloud[t].status # "none"
  /\ cloud' = [cloud EXCEPT ![s].status = "pending"]
  /\ run' = [run EXCEPT !.at = "token", !.session = s]
  /\ UNCHANGED <<up, mem, disk, token, cert, claimFiles, certKey, expired, budget>>

\* No key, or no answer, or an invalid one: a session the cloud may have
\* created is then known to nobody.
createPairingSessionFails ==
  /\ Creates
  /\ \/ ensureDevicePrivateKeyFails
     \/ ensureDevicePrivateKey /\ UNCHANGED budget
     \/ UNCHANGED <<key, keys, budget>>
  /\ run' = Idle
  /\ UNCHANGED <<up, mem, disk, token, cert, claimFiles, outside>>

\* Mutant: the poll token is not stored.
storeSessionWithoutToken ==
  /\ At("token")
  /\ mem' = [mem EXCEPT !.claim = "PAIRING_PENDING", !.session = run.session]
  /\ run' = IF run.session \in expired THEN Idle
                                       ELSE [run EXCEPT !.at = "saveSession"]
  /\ UNCHANGED <<up, disk, files, outside, keys, budget>>

\* The poll token goes to its file and the session into memory.  A session
\* that is already over is not saved.
storeSession ==
  /\ At("token")
  /\ \/ /\ token' = run.session
        /\ mem' = [mem EXCEPT !.claim = "PAIRING_PENDING",
                              !.session = run.session]
        /\ run' = IF run.session \in expired THEN Idle
                                             ELSE [run EXCEPT !.at = "saveSession"]
        /\ UNCHANGED budget
     \/ /\ Fault
        /\ token' \in AfterFailedWrite(token, run.session)
        /\ run' = Idle
        /\ UNCHANGED mem
  /\ UNCHANGED <<up, disk, key, cert, claimFiles, outside, keys>>

saveSession ==
  /\ At("saveSession")
  /\ \E ok \in BOOLEAN : saveDeviceRecord(mem, ok)
  /\ run' = Idle
  /\ UNCHANGED <<up, mem, files, outside, keys>>

-------------------------------------------------------------------------------
(***************************************************************************)
(* pollPairingSession and handleApprovedClaim.                             *)
(***************************************************************************)

\* A poll the cloud answers: the token file holds the session's own token.
Polls ==
  /\ At("idle")
  /\ mem.claim = "PAIRING_PENDING"
  /\ mem.pendingCert = 0
  /\ mem.session \notin expired
  /\ token = mem.session

\* Still pending: the record is saved again; the answer may bring an expiry
\* that is already over.
pollPending ==
  /\ Polls
  /\ cloud[mem.session].status = "pending"
  /\ \/ UNCHANGED <<mem, expired>>
     \/ expired' = expired \union {mem.session} /\ mem' = Unclaimed(mem)
  /\ \E ok \in BOOLEAN : saveDeviceRecord(mem', ok)
  /\ UNCHANGED <<up, run, files, cloud, certKey, keys>>

pollRevoked ==
  /\ Polls
  /\ cloud[mem.session].status = "revoked"
  /\ mem' = [mem EXCEPT !.claim = "REVOKED"]
  /\ \E ok \in BOOLEAN : saveDeviceRecord(mem', ok)
  /\ UNCHANGED <<up, run, files, outside, keys>>

pollExpired ==
  /\ Polls
  /\ cloud[mem.session].status = "expired"
  /\ mem' = Unclaimed(mem)
  /\ \E ok \in BOOLEAN : saveDeviceRecord(mem', ok)
  /\ UNCHANGED <<up, run, files, outside, keys>>

\* The claim material is written before its removal is deferred, so a failure
\* half way leaves the first file behind.
pollApproved ==
  /\ Polls
  /\ cloud[mem.session].status = "approved"
  /\ \/ /\ claimFiles' = TRUE
        /\ run' = [run EXCEPT !.at = "provision", !.deferred = TRUE]
        /\ UNCHANGED budget
     \/ /\ Fault
        /\ claimFiles' \in {claimFiles, TRUE}
        /\ UNCHANGED run
  /\ UNCHANGED <<up, mem, disk, token, key, cert, outside, keys>>

\* AWS IoT issues a certificate for the key and its answer arrives.
provision ==
  /\ At("provision")
  /\ ensureDevicePrivateKey
  /\ Len(certKey) < MaxCerts
  /\ certKey' = Append(certKey, key')
  /\ run' = [run EXCEPT !.at = "cert", !.cert = Len(certKey')]
  /\ UNCHANGED <<up, mem, disk, token, cert, claimFiles, cloud, expired, budget>>

\* No key, or no valid answer: a certificate AWS IoT may have issued is then
\* known to nobody.
provisionFails ==
  /\ At("provision")
  /\ \/ ensureDevicePrivateKeyFails
     \/ ensureDevicePrivateKey /\ UNCHANGED budget
     \/ UNCHANGED <<key, keys, budget>>
  /\ Return
  /\ UNCHANGED <<up, mem, disk, token, cert, outside>>

\* Mutant: a certificate file that exists is kept.
storeCertificateOnce ==
  /\ At("cert")
  /\ cert' = IF cert = 0 THEN run.cert ELSE cert
  /\ mem' = [mem EXCEPT !.pendingCert = run.cert]
  /\ run' = [run EXCEPT !.at = "saveCert"]
  /\ UNCHANGED <<up, disk, token, key, claimFiles, outside, keys, budget>>

storeCertificate ==
  /\ At("cert")
  /\ \/ /\ cert' = run.cert
        /\ mem' = [mem EXCEPT !.pendingCert = run.cert]
        /\ run' = [run EXCEPT !.at = "saveCert"]
        /\ UNCHANGED <<claimFiles, budget>>
     \/ /\ Fault
        /\ cert' \in AfterFailedWrite(cert, run.cert)
        /\ Return
        /\ UNCHANGED mem
  /\ UNCHANGED <<up, disk, token, key, outside, keys>>

saveCertificate ==
  /\ At("saveCert")
  /\ \/ /\ saveDeviceRecord(mem, TRUE)
        /\ run' = [run EXCEPT !.at = "finalize"]
        /\ UNCHANGED claimFiles
     \/ /\ saveDeviceRecord(mem, FALSE)
        /\ Return
  /\ UNCHANGED <<up, mem, token, key, cert, outside, keys>>

-------------------------------------------------------------------------------
(***************************************************************************)
(* finalizeClaim: right after provisioning, or by a later run.             *)
(***************************************************************************)
Finalizes ==
  /\ \/ At("finalize")
     \/ /\ At("idle")
        /\ mem.claim = "PAIRING_PENDING"
        /\ mem.pendingCert # 0
  /\ token # 0

\* External: the cloud confirms an approved session once, to the holder of its
\* token, and repeats the confirmation for the same certificate.
Confirmable(s, c) ==
  /\ token = s
  /\ \/ cloud[s].status = "approved"
     \/ cloud[s].status = "claimed" /\ cloud[s].cert = c

finalizeClaimed ==
  LET s == mem.session IN
  /\ Finalizes
  /\ Confirmable(s, mem.pendingCert)
  /\ cloud' = [cloud EXCEPT ![s] = [status |-> "claimed", cert |-> mem.pendingCert]]
  /\ mem' = [clearPending(mem) EXCEPT !.claim = "CLAIMED", !.device = s]
  /\ run' = [run EXCEPT !.at = "dropToken"]
  /\ UNCHANGED <<up, disk, files, certKey, expired, keys, budget>>

\* Mutant: the poll token is spent by the attempt.
finalizeUnansweredSpendsToken ==
  /\ Finalizes
  /\ token' = 0
  /\ \E ok \in BOOLEAN : saveDeviceRecord(mem, ok)
  /\ Return
  /\ UNCHANGED <<up, mem, key, cert, outside, keys>>

\* No answer, whether or not the cloud confirmed: the record is saved again.
finalizeUnanswered ==
  LET s == mem.session IN
  /\ Finalizes
  /\ \/ UNCHANGED cloud
     \/ /\ Confirmable(s, mem.pendingCert)
        /\ cloud' = [cloud EXCEPT ![s] = [status |-> "claimed",
                                          cert |-> mem.pendingCert]]
  /\ \E ok \in BOOLEAN : saveDeviceRecord(mem, ok)
  /\ Return
  /\ UNCHANGED <<up, mem, token, key, cert, certKey, expired, keys>>

\* The answer is "revoked", or "rejected" for an approved session, which the cloud
\* then counts among the revoked ones; the agent treats both alike.
finalizeRefused ==
  LET s == mem.session IN
  /\ Finalizes
  /\ token = s
  /\ cloud[s].status \in {"revoked", "approved"}
  /\ cloud' = [cloud EXCEPT ![s].status = "revoked"]
  /\ mem' = [clearPending(mem) EXCEPT !.claim = "REVOKED"]
  /\ \E ok \in BOOLEAN : saveDeviceRecord(mem', ok)
  /\ Return
  /\ UNCHANGED <<up, token, key, cert, certKey, expired, keys>>

\* The token file goes before the claimed record is saved.
dropPollToken ==
  /\ At("dropToken")
  /\ \/ /\ token' = 0
        /\ run' = [run EXCEPT !.at = "saveClaim"]
        /\ UNCHANGED <<claimFiles, budget>>
     \/ /\ Fault
        /\ Return
        /\ UNCHANGED token
  /\ UNCHANGED <<up, mem, disk, key, cert, outside, keys>>

saveClaim ==
  /\ At("saveClaim")
  /\ \E ok \in BOOLEAN : saveDeviceRecord(mem, ok)
  /\ Return
  /\ UNCHANGED <<up, mem, token, key, cert, outside, keys>>

-------------------------------------------------------------------------------
(***************************************************************************)
(* The process and its surroundings.                                       *)
(***************************************************************************)
Crash ==
  /\ up
  /\ budget.crashes < MaxCrashes
  /\ up' = FALSE
  /\ mem' = FreshRecord
  /\ run' = Idle
  /\ budget' = [budget EXCEPT !.crashes = @ + 1]
  /\ UNCHANGED <<disk, files, outside, keys>>

\* Mutant: key and certificate files are taken for a claim.
loadDeviceRecordByFiles ==
  /\ ~up
  /\ disk.file # "torn"
  /\ mem' = [disk.rec EXCEPT !.claim = IF key # 0 /\ cert # 0 THEN "CLAIMED" ELSE @]
  /\ disk' = [file |-> "ok", rec |-> mem']
  /\ up' = TRUE
  /\ UNCHANGED <<run, files, outside, keys, budget>>

\* loadRuntimeState.  A missing or legacy record is replaced by an unclaimed
\* one; a torn one keeps the agent from starting.
loadDeviceRecord ==
  /\ ~up
  /\ disk.file # "torn"
  /\ \/ /\ disk.file = "ok"
        /\ mem' = disk.rec
        /\ UNCHANGED <<disk, budget>>
     \/ /\ disk.file \in {"missing", "legacy"}
        /\ mem' = FreshRecord
        /\ saveDeviceRecord(FreshRecord, TRUE)
  /\ up' = TRUE
  /\ UNCHANGED <<run, files, outside, keys>>

\* External: the user approves, the cloud lets sessions lapse or revokes them.
Approve(s) ==
  /\ cloud[s].status = "pending"
  /\ cloud' = [cloud EXCEPT ![s].status = "approved"]
  /\ UNCHANGED <<up, mem, run, disk, files, certKey, expired, keys, budget>>

Lapse(s) ==
  /\ cloud[s].status \in {"pending", "approved"}
  /\ cloud' = [cloud EXCEPT ![s].status = "expired"]
  /\ UNCHANGED <<up, mem, run, disk, files, certKey, expired, keys, budget>>

Revoke(s) ==
  /\ cloud[s].status \in {"pending", "approved", "claimed"}
  /\ cloud' = [cloud EXCEPT ![s].status = "revoked"]
  /\ UNCHANGED <<up, mem, run, disk, files, certKey, expired, keys, budget>>

\* The agent's clock passes the session's expiry.
ClockPasses(s) ==
  /\ s \notin expired
  /\ cloud[s].status # "none"
  /\ expired' = expired \union {s}
  /\ UNCHANGED <<up, mem, run, disk, files, cloud, certKey, keys, budget>>

LoseCredentials ==
  /\ budget.losses < MaxLosses
  /\ budget' = [budget EXCEPT !.losses = @ + 1]
  /\ \/ key # 0 /\ key' = 0 /\ UNCHANGED cert
     \/ cert # 0 /\ cert' = 0 /\ UNCHANGED key
  /\ UNCHANGED <<up, mem, run, disk, token, claimFiles, outside, keys>>

-------------------------------------------------------------------------------
Init ==
  /\ up = FALSE
  /\ mem = FreshRecord
  /\ run = Idle
  /\ disk \in [file : {"missing", "legacy"}, rec : {FreshRecord}]
  /\ token = 0 /\ key = 0 /\ cert = 0 /\ claimFiles = FALSE
  /\ cloud = [s \in Sessions |-> [status |-> "none", cert |-> 0]]
  /\ certKey = <<>>
  /\ expired = {}
  /\ keys = 0
  /\ budget = [crashes |-> 0, faults |-> 0, losses |-> 0]

\* What RunOnce does next.
RunOnce ==
  \/ runWithoutEffect
  \/ credentialFilesMissing
  \/ checkClaimedStatus
  \/ pendingExpired
  \/ \E s \in Sessions : createPairingSession(s)
  \/ createPairingSessionFails
  \/ storeSession
  \/ saveSession
  \/ pollPending
  \/ pollRevoked
  \/ pollExpired
  \/ pollApproved
  \/ provision
  \/ provisionFails
  \/ storeCertificate
  \/ saveCertificate
  \/ finalizeClaimed
  \/ finalizeUnanswered
  \/ finalizeRefused
  \/ dropPollToken
  \/ saveClaim

Environment ==
  \/ Crash
  \/ \E s \in Sessions : Approve(s) \/ Lapse(s) \/ Revoke(s) \/ ClockPasses(s)
  \/ LoseCredentials

Next == RunOnce \/ loadDeviceRecord \/ Environment

Spec == Init /\ [][Next]_vars

(***************************************************************************)
(* Start calls RunOnce on every tick of its ticker and the supervisor      *)
(* restarts the add-on, so a run in progress, or one due, takes its steps. *)
(* The network is not down for ever: a call repeated for ever is answered. *)
(***************************************************************************)
FairSpec ==
  /\ Spec
  /\ WF_vars(RunOnce)
  /\ WF_vars(loadDeviceRecord)
  /\ SF_vars(pollApproved)
  /\ SF_vars(provision)
  /\ SF_vars(finalizeClaimed \/ finalizeRefused)

-------------------------------------------------------------------------------
(***************************************************************************)
(* Properties.                                                             *)
(***************************************************************************)

\* The record, the files, the cloud's sessions and the run in progress hold
\* values of their types; a certificate is always issued for a key that exists.
TypeOK ==
  /\ up \in BOOLEAN
  /\ mem \in Records
  /\ run \in [at : {"idle", "create", "token", "saveSession", "provision", "cert",
                    "saveCert", "finalize", "dropToken", "saveClaim"},
              session : 0..MaxSessions, cert : 0..MaxCerts, deferred : BOOLEAN]
  /\ disk \in Disks
  /\ token \in Torn..MaxSessions
  /\ key \in Torn..MaxKeys
  /\ cert \in Torn..MaxCerts
  /\ claimFiles \in BOOLEAN
  /\ cloud \in [Sessions -> [status : SessionStates, cert : 0..MaxCerts]]
  /\ certKey \in Seq(1..MaxKeys)
  /\ expired \subseteq Sessions
  /\ keys \in 0..MaxKeys
  /\ budget \in [crashes : 0..MaxCrashes, faults : 0..MaxFaults,
                 losses : 0..MaxLosses]

\* "The app must never boot as CLAIMED merely because local cert/key files
\* exist": a record that says CLAIMED, in memory or in device.json, names a
\* device whose claim the cloud has confirmed, through crashes, lost answers
\* and failed writes.
ClaimIsConfirmed ==
  \A rec \in {mem, disk.rec} :
    rec.claim = "CLAIMED" =>
      /\ rec.device \in Sessions
      /\ cloud[rec.device].status \in {"claimed", "revoked"}
      /\ cloud[rec.device].cert # 0

\* No file operation has failed so far.
NoFault == budget.faults = 0

\* A claimed agent that has its files holds the credential the cloud confirmed,
\* through crashes and lost files, as long as no write fails half way: its
\* certificate is the one finalized for its device and was issued for the key
\* in its key file.
CredentialIsTheConfirmedOne ==
  (NoFault /\ up /\ mem.claim = "CLAIMED" /\ key # 0 /\ cert # 0) =>
    /\ cert = cloud[mem.device].cert
    /\ certKey[cert] = key

\* Once device.json records a certificate that awaits confirmation, it keeps
\* it until the cloud confirms or refuses it: expiry and restarts do not send
\* the agent back to UNCLAIMED with a live certificate on disk, unless a write
\* has failed.
ProvisionedIsKept ==
  [][NoFault /\ disk.rec.claim = "PAIRING_PENDING" /\ disk.rec.pendingCert # 0 =>
       \/ disk'.rec.claim \in {"CLAIMED", "REVOKED"}
       \/ disk'.rec = disk.rec]_vars

\* A session the agent polls is one it holds the token of, whichever of the
\* two files was written last when the process died, unless a write has failed.
TokenIsOfSession ==
  (NoFault /\ disk.rec.claim = "PAIRING_PENDING" /\ token \in Sessions) => token = disk.rec.session

\* No file operation has failed and the process has not died so far.
Undisturbed == NoFault /\ budget.crashes = 0

\* An approved pairing ends: once the agent waits on a session the cloud has
\* approved, it becomes claimed or revoked, whatever calls fail in between,
\* unless the session runs out first or the agent is disturbed.
ApprovedIsDecided ==
  \A s \in Sessions :
    (up /\ mem.session = s /\ cloud[s].status = "approved") ~>
      \/ mem.claim \in {"CLAIMED", "REVOKED"}
      \/ cloud[s].status = "expired"
      \/ s \in expired
      \/ ~Undisturbed

\* A certificate on record is decided by the cloud, across restarts: "Pending
\* claim verification survives restart until expiry."
ProvisionedIsDecided ==
  \A c \in 1..MaxCerts :
    (disk.rec.claim = "PAIRING_PENDING" /\ disk.rec.pendingCert = c) ~>
      \/ disk.rec.claim \in {"CLAIMED", "REVOKED"}
      \/ \E s \in Sessions : cloud[s].status = "expired"

\* The same for an agent that is not disturbed: answers may be lost and calls
\* fail any number of times, the claim is retried until it is decided.
ProvisionedIsDecidedUndisturbed ==
  \A c \in 1..MaxCerts :
    (disk.rec.claim = "PAIRING_PENDING" /\ disk.rec.pendingCert = c) ~>
      \/ disk.rec.claim \in {"CLAIMED", "REVOKED"}
      \/ \E s \in Sessions : cloud[s].status = "expired"
      \/ ~Undisturbed

-------------------------------------------------------------------------------
(***************************************************************************)
(* Inductive invariants.                                                   *)
(***************************************************************************)

\* Both records: a certificate is pending only while the claim is, and that is the
\* claim of a session.
RecordsInv ==
  /\ ClaimIsConfirmed
  /\ \A rec \in {mem, disk.rec} :
       /\ rec.claim \in {"UNCLAIMED", "CLAIMED"} => rec.pendingCert = 0
       /\ rec.claim = "PAIRING_PENDING" => rec.session \in Sessions

\* What a run may rely on where it stands.
RunInv ==
  /\ ~up => run = Idle
  /\ disk.file \in {"missing", "legacy"} => disk.rec = FreshRecord
  /\ run.at \in {"create", "token"} => mem.claim = "UNCLAIMED"
  /\ run.at \in {"saveSession", "provision", "cert"} =>
       mem.claim = "PAIRING_PENDING" /\ mem.pendingCert = 0
  /\ run.at \in {"saveCert", "finalize"} =>
       mem.claim = "PAIRING_PENDING" /\ mem.pendingCert # 0
  /\ run.at \in {"dropToken", "saveClaim"} => mem.claim = "CLAIMED"
  /\ run.at = "token" => run.session \in Sessions
  /\ run.at = "cert" => run.cert \in 1..Len(certKey)

\* How far device.json may be behind the memory: not at all between runs, but for
\* a session that was over before it could be saved.
SyncInv ==
  NoFault =>
    /\ disk.rec.claim = "PAIRING_PENDING" => token \in {0, disk.rec.session}
    /\ up =>
         /\ run.at \in {"create", "token", "provision", "cert", "finalize"} => disk.rec = mem
         /\ run.at = "idle" =>
              \/ disk.rec = mem
              \/ /\ mem.claim = "PAIRING_PENDING" /\ mem.pendingCert = 0
                 /\ mem.session \in expired /\ disk.rec.claim = "UNCLAIMED"
         /\ run.at = "saveSession" => token = mem.session /\ disk.rec.claim = "UNCLAIMED"
         /\ run.at = "saveCert" => disk.rec = [mem EXCEPT !.pendingCert = 0]
         /\ run.at \in {"dropToken", "saveClaim"} =>
              disk.rec.claim = "PAIRING_PENDING" /\ disk.rec.pendingCert # 0

\* The files hold certificate c and the key it was issued for, or are lost.
Holds(c) ==
  /\ c \in 1..Len(certKey)
  /\ cert \in {0, c}
  /\ key \in {0, certKey[c]}

\* The files fit every certificate that is pending, confirmed or about to be
\* written.
CredentialInv ==
  NoFault =>
    /\ \A rec \in {mem, disk.rec} :
         /\ rec.claim = "PAIRING_PENDING" /\ rec.pendingCert # 0 => Holds(rec.pendingCert)
         /\ rec.claim = "CLAIMED" => Holds(cloud[rec.device].cert)
    /\ run.at = "cert" => key \in {0, certKey[run.cert]}
===============================================================================
