---------------------------- MODULE CommandDelivery ----------------------------
(***************************************************************************)
(* A command on its way to a device and back, and the artifact it uploads: *)
(*                                                                         *)
(*  - the command service, which is the module Commands, call by call;     *)
(*  - the notice, backend/internal/domain/commands/mqtt_notice.go, over an *)
(*    MQTT channel that loses, delays and repeats messages;                *)
(*  - the agent's receiver, homesignal/cmd/agent/command_receiver.go, and  *)
(*    its handler of artifacts, artifact_upload_handler.go, which keep no  *)
(*    record of what they have handled;                                    *)
(*  - the upload broker, backend/internal/domain/artifacts/service.go, and *)
(*    the object store behind its signed URLs.                             *)
(*                                                                         *)
(* Every call between the agent and the cloud may fail, with or without an *)
(* effect, and the agent may restart at any time.  A call that reaches the *)
(* command service becomes one of its requests, which goes on there        *)
(* whatever becomes of the agent.                                          *)
(***************************************************************************)
EXTENDS Commands, FiniteSets

CONSTANTS
  Kinds,         \* the commands that may be created: type, payload and limit
  AllowedTypes,  \* the local policy of the agent
  Threads,       \* notices the agent handles at the same time
  UploadIDs,
  Sizes,         \* sizes of generated artifacts
  MaxSizeBytes,  \* the limit of the artifact's purpose
  URLTTL,
  MaxNotices,    \* bound on the notices the broker holds
  None

\* The types the agent knows; only upload_artifact has a handler.
KnownTypes == {"upload_artifact", "check_update_status"}

\* A command as far as its delivery goes.  The payload is fit for the agent, is
\* refused by the agent, or does not fit in a notice (too large, or with a
\* forbidden key); limit is its max_bytes, 0 for none.
KindsOf(types) == [type : types, payload : {"good", "bad", "unsendable"}, limit : Nat]

NoKind == [type |-> "none", payload |-> "unsendable", limit |-> 0]

ASSUME DeliveryAssumption ==
  /\ Kinds \subseteq KindsOf(CommandTypes)
  /\ Sizes \subseteq Nat
  /\ MaxSizeBytes \in Nat \ {0}
  /\ URLTTL \in Nat \ {0}
  /\ None \notin Commands \union UploadIDs \union Sizes \union Threads
  /\ "none" \notin Commands
  /\ {"succeeded", "failed"} \subseteq Reports

VARIABLES
  kind,      \* what each command is
  notices,   \* external: notices the broker may deliver, again and again
  thread,    \* notices in the agent's hands
  origin,    \* the agent's call that a request of the service serves
  uploads,   \* artifact_uploads
  stored,    \* external: the size of the object at each signed URL
  runs       \* history: how often a command was handed to its handler

storeVars == <<uploads, stored>>
deliveryVars == <<kind, notices, thread, origin, storeVars, runs>>
allVars == <<vars, deliveryVars>>

-------------------------------------------------------------------------------
(***************************************************************************)
(* Data.                                                                   *)
(***************************************************************************)
Notices == [c : Commands, expires : Nat]

\* A notice in hand: how far it is, the artifact it generated and its upload.
ThreadStates == [pc : {"idle", "fetch", "accept", "reject", "waiting", "handle",
                       "request", "upload", "complete", "succeed", "fail"},
                 c : Commands \union {None},
                 size : Sizes \union {0},
                 upload : UploadIDs \union {None}]

NoNotice == [pc |-> "idle", c |-> None, size |-> 0, upload |-> None]

\* What a request does for the agent, and the thread that waits for its answer:
\* only the answer to an acceptance matters.
Origins == [op : {"none", "ack_accepted", "ack_rejected", "succeeded", "failed"},
            t : Threads \union {None}]

NoOrigin == [op |-> "none", t |-> None]

\* An upload slot.
Slots == [status : {"none", "pending_upload", "uploaded"}, c : Commands \union {None},
          expires : Nat]

NoSlot == [status |-> "none", c |-> None, expires |-> 0]

NewSlot(c) == [status |-> "pending_upload", c |-> c, expires |-> clock + URLTTL]

\* The purpose registry: an artifact fits if it is within its purpose's limit.
FitsPurpose(size) == size <= MaxSizeBytes

-------------------------------------------------------------------------------
(***************************************************************************)
(* The command service: its own requests, those of the agent, and how both *)
(* go on.                                                                  *)
(***************************************************************************)

CreateCommand(c, k) ==
  /\ Create(c, k.type)
  /\ kind' = [kind EXCEPT ![c] = k]
  /\ UNCHANGED <<notices, thread, origin, storeVars, runs>>

\* A request of the sender of notices, of the jobs that look for missed deadlines
\* or of an operator.  Their callers are not in the repository.
LoadForService(h, c) == load(h, c) /\ UNCHANGED deliveryVars

DecideForService(h) ==
  /\ origin[h] = NoOrigin
  /\ MarkSent(h) \/ ExpireMissingAck(h) \/ ExpireResult(h) \/ Cancel(h)
  /\ UNCHANGED deliveryVars

\* The operation of the service each call of the agent asks for: RecordCommandACK
\* with its verdict, RecordCommandResult with what HandleArtifactCommand or
\* failCommand reports.
CallOf == [accept |-> "ack_accepted", reject |-> "ack_rejected",
           succeed |-> "succeeded", fail |-> "failed"]

\* The agent's call reaches the service.  It waits for the answer to an acceptance;
\* the others end its work whatever the answer is.
CallService(t, h) ==
  LET w == thread[t] IN
  /\ w.pc \in DOMAIN CallOf
  /\ load(h, w.c)
  /\ IF w.pc = "accept"
       THEN /\ thread' = [thread EXCEPT ![t].pc = "waiting"]
            /\ origin' = [origin EXCEPT ![h] = [op |-> CallOf[w.pc], t |-> t]]
       ELSE /\ thread' = [thread EXCEPT ![t] = NoNotice]
            /\ origin' = [origin EXCEPT ![h] = [op |-> CallOf[w.pc], t |-> None]]
  /\ UNCHANGED <<kind, notices, storeVars, runs>>

\* A request of the agent does what it came for; the service has no progress to
\* record, because the agent sends none.
DecideForAgent(h) ==
  /\ \/ /\ origin[h].op \in {"ack_accepted", "ack_rejected"}
        /\ RecordAck(h, origin[h].op)
     \/ /\ origin[h].op \in {"succeeded", "failed"}
        /\ RecordResult(h, origin[h].op)
  /\ UNCHANGED deliveryVars

InsertForRequest(h) == InsertResult(h) /\ UNCHANGED deliveryVars

\* Mutant: the agent goes on although its acceptance was refused or came late.
EndRequestUnheeded(h) ==
  /\ Return(h)
  /\ origin' = [origin EXCEPT ![h] = NoOrigin]
  /\ IF origin[h].t = None
       THEN UNCHANGED <<thread, runs>>
       ELSE /\ thread' = [thread EXCEPT ![origin[h].t].pc = "handle"]
            /\ runs' = [runs EXCEPT ![hs[h].cmd] = @ + 1]
  /\ UNCHANGED <<kind, notices, storeVars>>

\* A request ends without saving: refused, or one of its calls failed.  Whoever
\* waits for it gets an error and drops the notice.
EndRequest(h) ==
  /\ Return(h)
  /\ origin' = [origin EXCEPT ![h] = NoOrigin]
  /\ IF origin[h].t = None
       THEN UNCHANGED thread
       ELSE thread' = [thread EXCEPT ![origin[h].t] = NoNotice]
  /\ UNCHANGED <<kind, notices, storeVars, runs>>

\* A request saves its copy of the row and answers.  The command is handed to its
\* handler if the agent still waits and the answer is that the acceptance was
\* recorded, an error if it came late; the caller that does so is not in the
\* repository.
SaveForRequest(h) ==
  LET r == hs[h]
      t == origin[h].t IN
  /\ SaveCommand(h)
  /\ origin' = [origin EXCEPT ![h] = NoOrigin]
  /\ \/ /\ t = None
        /\ UNCHANGED <<thread, runs>>
     \/ /\ t # None /\ r.row.status = "ack_accepted"
        /\ thread' = [thread EXCEPT ![t].pc = "handle"]
        /\ runs' = [runs EXCEPT ![r.cmd] = @ + 1]
     \/ /\ t # None /\ r.row.status # "ack_accepted"
        /\ thread' = [thread EXCEPT ![t] = NoNotice]
        /\ UNCHANGED runs
  /\ UNCHANGED <<kind, notices, storeVars>>

\* BuildCommandNotice and Publish: a notice names the command and expires when
\* its acknowledgement is due.  Who calls it is not in the repository: a caller
\* may do so as long as the command waits for its acknowledgement.
Publish(c) ==
  /\ db[c].status \in {"queued", "sent"}
  /\ kind[c].payload # "unsendable"
  /\ notices' = notices \union {[c |-> c, expires |-> db[c].ackDeadline]}
  /\ Cardinality(notices') <= MaxNotices
  /\ UNCHANGED <<vars, kind, thread, origin, storeVars, runs>>

-------------------------------------------------------------------------------
(***************************************************************************)
(* The agent: HandleMQTTCommandNotice.                                     *)
(***************************************************************************)

\* The agent goes on to pc with its work in hand.
Goto(t, pc) == thread' = [thread EXCEPT ![t].pc = pc]

\* A notice is delivered, for the first time or again; one that has expired is
\* dropped, one of a type that is unknown or not allowed is rejected.
DeliverNotice(t, n) ==
  /\ thread[t] = NoNotice
  /\ clock < n.expires
  /\ thread' = [thread EXCEPT ![t] = [NoNotice EXCEPT !.c = n.c, !.pc =
       IF kind[n.c].type \in KnownTypes \intersect AllowedTypes THEN "fetch" ELSE "reject"]]
  /\ UNCHANGED <<vars, kind, notices, origin, storeVars, runs>>

\* FetchCommandDetail; an answer that does not match the notice is rejected.
FetchCommandDetail(t) ==
  /\ thread[t].pc = "fetch"
  /\ Goto(t, "accept") \/ Goto(t, "reject")
  /\ UNCHANGED <<vars, kind, notices, origin, storeVars, runs>>

-------------------------------------------------------------------------------
(***************************************************************************)
(* The agent: HandleArtifactCommand.                                       *)
(***************************************************************************)

\* The command's own limit; the broker checks the limit of the purpose.
WithinCommandLimit(k, size) == k.limit = 0 \/ size <= k.limit

\* The payload is parsed and the artifact generated: either may fail, as may the
\* check of its content type, and an artifact may exceed the command's limit.
GenerateArtifact(t) ==
  LET k == kind[thread[t].c] IN
  /\ thread[t].pc = "handle"
  /\ k.type = "upload_artifact"
  /\ \/ Goto(t, "fail")
     \/ /\ k.payload = "good"
        /\ \E size \in Sizes :
             /\ WithinCommandLimit(k, size)
             /\ thread' = [thread EXCEPT ![t].pc = "request", ![t].size = size]
  /\ UNCHANGED <<vars, kind, notices, origin, storeVars, runs>>

\* The agent gives up with an error and without a result.
GiveUp(t) ==
  /\ thread' = [thread EXCEPT ![t] = NoNotice]
  /\ UNCHANGED runs

\* No other type has a handler.
Unsupported(t) ==
  /\ thread[t].pc = "handle"
  /\ kind[thread[t].c].type # "upload_artifact"
  /\ GiveUp(t)
  /\ UNCHANGED <<vars, kind, notices, origin, storeVars>>

\* CreateUpload of the broker: the size must be within the purpose's limit; the
\* slot is created and then the URL is issued, which may fail, as may the answer.
RequestArtifactUpload(t) ==
  /\ thread[t].pc = "request"
  /\ \/ /\ FitsPurpose(thread[t].size)
        /\ \E u \in UploadIDs :
             /\ uploads[u] = NoSlot
             /\ uploads' = [uploads EXCEPT ![u] = NewSlot(thread[t].c)]
             /\ \/ /\ thread' = [thread EXCEPT ![t].pc = "upload", ![t].upload = u]
                   /\ UNCHANGED runs
                \/ GiveUp(t)
     \/ GiveUp(t) /\ UNCHANGED uploads
  /\ UNCHANGED <<vars, kind, notices, origin, stored>>

\* The PUT reaches the object store, which honours the URL until it expires.
Put(t) ==
  /\ clock <= uploads[thread[t].upload].expires
  /\ stored' = [stored EXCEPT ![thread[t].upload] = thread[t].size]

\* Mutant: a failed upload is completed like any other.
UploadUnheeded(t) ==
  /\ thread[t].pc = "upload"
  /\ Put(t) \/ UNCHANGED stored
  /\ Goto(t, "complete")
  /\ UNCHANGED <<vars, kind, notices, origin, uploads, runs>>

\* validateUploadSession, then the upload.  A session that has expired fails the
\* command; so does an upload that fails, after an alarm, even if it took effect.
UploadArtifact(t) ==
  /\ thread[t].pc = "upload"
  /\ \/ /\ clock < uploads[thread[t].upload].expires
        /\ Put(t)
        /\ Goto(t, "complete") \/ Goto(t, "fail")
     \/ Goto(t, "fail") /\ UNCHANGED stored
  /\ UNCHANGED <<vars, kind, notices, origin, uploads, runs>>

\* CompleteArtifactUpload (the cloud's side is not in the repository): the slot is
\* marked; an error ends the work without a result, whatever became of the mark.
CompleteArtifactUpload(t) ==
  LET marked == [uploads EXCEPT ![thread[t].upload].status = "uploaded"] IN
  /\ thread[t].pc = "complete"
  /\ \/ uploads' = marked /\ Goto(t, "succeed") /\ UNCHANGED runs
     \/ uploads' \in {uploads, marked} /\ GiveUp(t)
  /\ UNCHANGED <<vars, kind, notices, origin, stored>>

-------------------------------------------------------------------------------
\* A call of the agent fails before it has an effect, or its answer is lost: the
\* notice is dropped and not tried again by the agent.  A request that serves the
\* call goes on.
NoticeDropped(t) ==
  /\ thread[t].pc \in {"fetch", "waiting"} \union DOMAIN CallOf
  /\ thread' = [thread EXCEPT ![t] = NoNotice]
  /\ origin' = [h \in Handlers |-> IF origin[h].t = t THEN [origin[h] EXCEPT !.t = None]
                                                    ELSE origin[h]]
  /\ UNCHANGED <<vars, kind, notices, storeVars, runs>>

\* The agent restarts and remembers nothing; the requests it has made go on.
Restart ==
  /\ \E t \in Threads : thread[t] # NoNotice
  /\ thread' = [t \in Threads |-> NoNotice]
  /\ origin' = [h \in Handlers |-> [origin[h] EXCEPT !.t = None]]
  /\ UNCHANGED <<vars, kind, notices, storeVars, runs>>

TimePasses == Tick /\ UNCHANGED deliveryVars

DeliveryInit ==
  /\ Init
  /\ kind = [c \in Commands |-> NoKind]
  /\ notices = {}
  /\ thread = [t \in Threads |-> NoNotice]
  /\ origin = [h \in Handlers |-> NoOrigin]
  /\ uploads = [u \in UploadIDs |-> NoSlot]
  /\ stored = [u \in UploadIDs |-> None]
  /\ runs = [c \in Commands |-> 0]

AgentStep(t) ==
  \/ FetchCommandDetail(t)
  \/ \E h \in Handlers : CallService(t, h)
  \/ GenerateArtifact(t)
  \/ Unsupported(t)
  \/ RequestArtifactUpload(t)
  \/ UploadArtifact(t)
  \/ CompleteArtifactUpload(t)
  \/ NoticeDropped(t)

RequestStep(h) ==
  \/ DecideForService(h)
  \/ DecideForAgent(h)
  \/ InsertForRequest(h)
  \/ SaveForRequest(h)
  \/ EndRequest(h)

DeliveryNext ==
  \/ \E c \in Commands, k \in Kinds : CreateCommand(c, k)
  \/ \E c \in Commands : Publish(c)
  \/ \E h \in Handlers, c \in Commands : LoadForService(h, c)
  \/ \E h \in Handlers : RequestStep(h)
  \/ \E t \in Threads : AgentStep(t) \/ \E n \in notices : DeliverNotice(t, n)
  \/ Restart
  \/ TimePasses

DeliverySpec == DeliveryInit /\ [][DeliveryNext]_allVars

-------------------------------------------------------------------------------
(***************************************************************************)
(* Properties.                                                             *)
(***************************************************************************)

\* Every variable of the delivery has its type.
DeliveryTypeOK ==
  /\ kind \in [Commands -> KindsOf(CommandTypes \union {"none"})]
  /\ notices \subseteq Notices
  /\ thread \in [Threads -> ThreadStates]
  /\ origin \in [Handlers -> Origins]
  /\ uploads \in [UploadIDs -> Slots]
  /\ stored \in [UploadIDs -> Sizes \union {None}]
  /\ runs \in [Commands -> Nat]

\* A command is handed to its handler at most once, however often its notice is
\* delivered, however requests cross in the service and however often the agent
\* restarts: the agent keeps no record of what it has handled, the status check
\* of RecordAck is what holds, and it fails only if a request has saved a copy of
\* the row that another save had outdated.
HandledOnce == \A c \in Commands : runs[c] <= 1 \/ c \in overwritten

\* A command that succeeded has an upload that is marked and an object in the
\* store, within the limit of the purpose, which the broker checks, and within
\* the command's own, which the agent checks: no step between them can fail
\* unnoticed (HandleArtifactCommand).
SucceededIsStored ==
  \A c \in Commands : results[c].status = "succeeded" =>
    \E u \in UploadIDs :
      /\ uploads[u].c = c /\ uploads[u].status = "uploaded"
      /\ stored[u] # None /\ stored[u] <= MaxSizeBytes
      /\ kind[c].limit # 0 => stored[u] <= kind[c].limit

\* A rejected or unanswered command is never worked on later, with the same
\* exception.
RefusedIsNotHandled ==
  [][\A c \in Commands : db[c].status \in {"ack_rejected", "ack_timed_out"} =>
       runs'[c] = runs[c] \/ c \in overwritten']_allVars

-------------------------------------------------------------------------------
(***************************************************************************)
(* Inductive invariants.                                                   *)
(***************************************************************************)

\* A command that was not created has no notice, is in nobody's hands and has no
\* upload; whoever works, works on a command.
KnownInv ==
  /\ \A c \in Commands : db[c].status = "none" =>
       /\ \A n \in notices : n.c # c
       /\ \A t \in Threads : thread[t].c # c
       /\ \A u \in UploadIDs : uploads[u].c # c
  /\ \A t \in Threads : thread[t].pc # "idle" => thread[t].c \in Commands

\* A request that serves the agent is in flight, and the thread that waits for its
\* answer waits for no other and has the same command in hand.
OriginInv ==
  \A h \in Handlers :
    /\ hs[h].pc = "idle" => origin[h] = NoOrigin
    /\ origin[h].t # None =>
         /\ thread[origin[h].t].pc = "waiting" /\ thread[origin[h].t].c = hs[h].cmd
         /\ \A g \in Handlers : origin[g].t = origin[h].t => g = h

\* As long as no outdated copy was saved, a command that is not past sent was not
\* handled.
AckInv ==
  \A c \in Commands \ overwritten :
    /\ db[c].status \in {"none", "queued", "sent"} => runs[c] = 0
    /\ runs[c] <= 1

\* The steps of the handler that have an artifact in hand, and those with a slot.
Generated == {"request", "upload", "complete", "succeed"}
WithSlot == {"upload", "complete", "succeed"}

\* What was checked of an artifact on its way, as the one who has it in hand relies
\* on it.
Checked(w) ==
  /\ w.pc \in Generated => w.size \in Sizes /\ WithinCommandLimit(kind[w.c], w.size)
  /\ w.pc \in WithSlot =>
       /\ FitsPurpose(w.size) /\ w.upload \in UploadIDs
       /\ uploads[w.upload].c = w.c /\ uploads[w.upload].status # "none"
  /\ w.pc \in {"complete", "succeed"} => stored[w.upload] # None
  /\ w.pc = "succeed" => uploads[w.upload].status = "uploaded"

\* What is in the store has a slot and is within both limits.
StoredFits(u) ==
  stored[u] # None =>
    /\ uploads[u].c \in Commands /\ uploads[u].status # "none"
    /\ FitsPurpose(stored[u]) /\ WithinCommandLimit(kind[uploads[u].c], stored[u])

HasUpload(c) ==
  \E u \in UploadIDs : uploads[u].c = c /\ uploads[u].status = "uploaded" /\ stored[u] # None

\* A request that reports a success.
ReportsSuccess(h) ==
  \/ origin[h].op = "succeeded"
  \/ hs[h].pc = "record" /\ hs[h].row.status = "succeeded"

UploadInv ==
  /\ \A t \in Threads : Checked(thread[t])
  /\ \A u \in UploadIDs : StoredFits(u)
  /\ \A h \in Handlers : ReportsSuccess(h) => HasUpload(hs[h].cmd)
  /\ \A c \in Commands : results[c].status = "succeeded" => HasUpload(c)
===============================================================================
