------------------------ MODULE CommandDeliveryProofs ------------------------
(***************************************************************************)
(* Proofs about a command on its way to a device and back: that the        *)
(* delivery only uses the command service, so that what is proved of it    *)
(* holds here, that a command is handled once, that a refused one is not   *)
(* handled, and that one that succeeded has its artifact in the store.     *)
(***************************************************************************)
EXTENDS CommandDelivery, CommandsProofs

-------------------------------------------------------------------------------
(***************************************************************************)
(* The delivery uses the service.                                          *)
(***************************************************************************)

\* Types, and who may have a command in hand.
BaseInv == DeliveryTypeOK /\ KnownInv

\* A command in hand is one that was created.
LEMMA InHand ==
  ASSUME BaseInv, NEW t \in Threads, thread[t].pc # "idle"
  PROVE  /\ thread[t].c \in Commands /\ db[thread[t].c].status # "none"
         /\ thread[t] \in ThreadStates
BY DEF BaseInv, DeliveryTypeOK, KnownInv

LEMMA RequestIsServiceStep ==
  ASSUME NEW h \in Handlers, RequestStep(h)
  PROVE  Next
<1>1. CASE DecideForService(h)
  BY <1>1 DEF DecideForService, Next, Decide
<1>2. CASE DecideForAgent(h)
  BY <1>2, DeliveryAssumption DEF DecideForAgent, Next, Decide
<1>3. CASE InsertForRequest(h)
  BY <1>3 DEF InsertForRequest, Next, RepositoryCall
<1>4. CASE SaveForRequest(h)
  BY <1>4 DEF SaveForRequest, Next, RepositoryCall
<1>5. CASE EndRequest(h)
  BY <1>5 DEF EndRequest, Next
<1> QED BY <1>1, <1>2, <1>3, <1>4, <1>5 DEF RequestStep

\* The steps of the agent on its own.
AgentAlone(t) ==
  \/ FetchCommandDetail(t) \/ GenerateArtifact(t) \/ Unsupported(t)
  \/ RequestArtifactUpload(t) \/ UploadArtifact(t) \/ CompleteArtifactUpload(t)

LEMMA AgentAloneFacts ==
  ASSUME BaseInv, NEW t \in Threads, AgentAlone(t)
  PROVE  /\ UNCHANGED <<vars, kind, notices, origin, runs>>
         /\ thread[t].pc \notin {"idle", "waiting"}
         /\ thread[t].c \in Commands /\ db[thread[t].c].status # "none"
<1>1. thread[t].pc \notin {"idle", "waiting"}
  BY DEF AgentAlone, FetchCommandDetail, GenerateArtifact, Unsupported,
     RequestArtifactUpload, UploadArtifact, CompleteArtifactUpload
<1>2. UNCHANGED <<vars, kind, notices, origin, runs>>
  BY DEF AgentAlone, FetchCommandDetail, GenerateArtifact, Unsupported,
     RequestArtifactUpload, UploadArtifact, CompleteArtifactUpload, GiveUp
<1> QED BY <1>1, <1>2, InHand

\* Every step of the delivery is a step of the service or leaves it alone.
LEMMA IsServiceStep ==
  ASSUME BaseInv, [DeliveryNext]_allVars
  PROVE  [Next]_vars
<1>1. ASSUME NEW c \in Commands, NEW k \in Kinds, CreateCommand(c, k) PROVE Next
  <2>1. k.type \in CommandTypes
    BY DeliveryAssumption DEF KindsOf
  <2> QED BY <1>1, <2>1 DEF CreateCommand, Next
<1>2. ASSUME NEW c \in Commands, Publish(c) PROVE UNCHANGED vars
  BY <1>2 DEF Publish
<1>3. ASSUME NEW h \in Handlers, NEW c \in Commands, LoadForService(h, c) PROVE Next
  BY <1>3 DEF LoadForService, Next
<1>4. ASSUME NEW t \in Threads, NEW h \in Handlers, CallService(t, h) PROVE Next
  <2>1. thread[t].pc # "idle" /\ load(h, thread[t].c)
    BY <1>4 DEF CallService, CallOf
  <2> QED BY <2>1, InHand DEF Next
<1>5. ASSUME NEW t \in Threads, AgentStep(t) PROVE Next \/ UNCHANGED vars
  <2>1. CASE AgentAlone(t)
    BY <2>1, AgentAloneFacts
  <2>2. CASE NoticeDropped(t)
    BY <2>2 DEF NoticeDropped
  <2> QED BY <1>4, <1>5, <2>1, <2>2 DEF AgentStep, AgentAlone
<1>6. ASSUME NEW t \in Threads, NEW n \in notices, DeliverNotice(t, n) PROVE UNCHANGED vars
  BY <1>6 DEF DeliverNotice
<1>7. CASE Restart
  BY <1>7 DEF Restart
<1>8. CASE TimePasses
  BY <1>8 DEF TimePasses, Next
<1>9. CASE UNCHANGED allVars
  BY <1>9 DEF allVars
<1> QED BY <1>1, <1>2, <1>3, <1>5, <1>6, <1>7, <1>8, <1>9, RequestIsServiceStep
        DEF DeliveryNext

\* A command that was created stays so.
LEMMA StaysCreated ==
  ASSUME CommandsInv, [Next]_vars, NEW c \in Commands, db[c].status # "none"
  PROVE  db'[c].status # "none"
<1>1. ASSUME NEW d \in Commands, NEW t \in CommandTypes, Create(d, t)
      PROVE  db'[c] = db[c]
  BY <1>1 DEF Create, CommandsInv, TypeOK
<1>2. ASSUME NEW h \in Handlers, SaveCommand(h) PROVE db'[c].status # "none"
  <2>1. hs[h].row.status # "none"
    BY <1>2 DEF SaveCommand, CommandsInv, RequestsInv, CopyIsOfStoredRow
  <2>2. db'[c] = db[c] \/ db'[c] = hs[h].row
    BY <1>2 DEF SaveCommand, CommandsInv, TypeOK
  <2> QED BY <2>1, <2>2
<1>3. CASE /\ ~ \E d \in Commands, t \in CommandTypes : Create(d, t)
           /\ ~ \E h \in Handlers : SaveCommand(h)
  BY <1>3 DEF Next, load, Decide, MarkSent, RecordAck, ExpireMissingAck, RecordProgress,
     RecordResult, ExpireResult, Cancel, Proceed, RepositoryCall, AppendProgressEvent,
     InsertResult, Return, Tick, vars
<1> QED BY <1>1, <1>2, <1>3

\* What a request of the service is after each of its calls.
LEMMA RequestFacts ==
  ASSUME CommandsInv, NEW h \in Handlers, RequestStep(h)
  PROVE  /\ hs[h].pc # "idle" /\ hs[h].cmd \in Commands
         /\ \A g \in Handlers : g # h => hs'[g] = hs[g]
         /\ DecideForService(h) \/ DecideForAgent(h) \/ InsertForRequest(h) =>
              /\ hs'[h].pc # "idle" /\ hs'[h].cmd = hs[h].cmd
              /\ UNCHANGED <<db, deliveryVars>>
         /\ SaveForRequest(h) \/ EndRequest(h) => hs'[h] = Idle
<1>0. hs \in [Handlers -> HandlerStates]
  BY DEF CommandsInv, TypeOK
<1>1. ASSUME NEW pc \in {"append", "record", "save"}, NEW row, NEW by, Proceed(h, pc, row, by)
      PROVE  /\ hs[h].pc # "idle" /\ UNCHANGED db
             /\ \A g \in Handlers : g # h => hs'[g] = hs[g]
             /\ hs'[h].pc # "idle" /\ hs'[h].cmd = hs[h].cmd
  BY <1>0, <1>1 DEF Proceed
<1>2. CASE DecideForService(h) \/ DecideForAgent(h)
  <2>1. \E pc \in {"append", "record", "save"} : \E row, by : Proceed(h, pc, row, by)
    BY <1>2 DEF DecideForService, DecideForAgent, MarkSent, RecordAck, ExpireMissingAck,
       RecordResult, ExpireResult, Cancel
  <2>2. UNCHANGED deliveryVars
    BY <1>2 DEF DecideForService, DecideForAgent
  <2>3. ~ (SaveForRequest(h) \/ EndRequest(h)) \/ hs'[h] = Idle
    BY <1>0 DEF SaveForRequest, EndRequest, SaveCommand, Return
  <2> QED BY <1>1, <2>1, <2>2, <2>3 DEF CommandsInv, RequestsInv, CopyIsOfStoredRow
<1>3. CASE InsertForRequest(h)
  <2>1. hs[h] \in HandlerStates /\ hs' = [hs EXCEPT ![h] = [hs[h] EXCEPT !.pc = "save"]]
    BY <1>0, <1>3 DEF InsertForRequest, InsertResult
  <2>2. hs'[h].pc = "save" /\ hs'[h].cmd = hs[h].cmd
    BY <1>0, <2>1 DEF HandlerStates
  <2>3. UNCHANGED <<db, deliveryVars>> /\ hs[h].pc = "record"
    BY <1>3 DEF InsertForRequest, InsertResult
  <2>4. ~ (SaveForRequest(h) \/ EndRequest(h)) \/ hs'[h] = Idle
    BY <1>0 DEF SaveForRequest, EndRequest, SaveCommand, Return
  <2> QED BY <1>0, <2>1, <2>2, <2>3, <2>4 DEF CommandsInv, RequestsInv, CopyIsOfStoredRow
<1>4. CASE SaveForRequest(h) \/ EndRequest(h)
  <2>1. hs[h].pc # "idle" /\ hs' = [hs EXCEPT ![h] = Idle]
    BY <1>4 DEF SaveForRequest, EndRequest, SaveCommand, Return
  <2>2. hs'[h] = Idle /\ hs'[h].pc = "idle"
    BY <1>0, <2>1 DEF Idle
  <2>3. ~ (DecideForService(h) \/ DecideForAgent(h) \/ InsertForRequest(h))
    <3>1. ASSUME DecideForService(h) \/ DecideForAgent(h) PROVE FALSE
      <4>1. \E pc \in {"append", "record", "save"} : \E row, by : Proceed(h, pc, row, by)
        BY <3>1 DEF DecideForService, DecideForAgent, MarkSent, RecordAck, ExpireMissingAck,
           RecordResult, ExpireResult, Cancel
      <4> QED BY <1>1, <2>2, <4>1
    <3>2. ASSUME InsertForRequest(h) PROVE FALSE
      <4>1. hs[h] \in HandlerStates /\ hs' = [hs EXCEPT ![h] = [hs[h] EXCEPT !.pc = "save"]]
        BY <1>0, <3>2 DEF InsertForRequest, InsertResult
      <4> QED BY <1>0, <2>2, <4>1 DEF HandlerStates
    <3> QED BY <3>1, <3>2
  <2> QED BY <1>0, <2>1, <2>2, <2>3 DEF CommandsInv, RequestsInv, CopyIsOfStoredRow
<1> QED BY <1>2, <1>3, <1>4 DEF RequestStep

-------------------------------------------------------------------------------
(***************************************************************************)
(* Types, and who may have a command in hand.                              *)
(***************************************************************************)

\* The thread a step of the agent leaves: the same command at another step, or
\* nothing.
Moves(t) ==
  \E w : /\ thread' = [thread EXCEPT ![t] = w]
         /\ w = NoNotice \/ (w.c = thread[t].c /\ thread[t].pc # "idle")

LEMMA NoNoticeType == NoNotice \in ThreadStates /\ NoNotice.c = None /\ NoNotice.pc = "idle"
BY DEF NoNotice, ThreadStates

LEMMA NoOriginType == NoOrigin \in Origins /\ NoOrigin.op = "none" /\ NoOrigin.t = None
BY DEF NoOrigin, Origins

\* A step to another pc.
LEMMA GotoType ==
  ASSUME DeliveryTypeOK, NEW t \in Threads, thread[t].pc # "idle",
         NEW pc \in {"idle", "fetch", "accept", "reject", "waiting", "handle", "request",
                     "upload", "complete", "succeed", "fail"},
         Goto(t, pc)
  PROVE  thread' \in [Threads -> ThreadStates] /\ Moves(t)
<1> DEFINE w == [thread[t] EXCEPT !.pc = pc]
<1>1. thread[t] \in ThreadStates
  BY DEF DeliveryTypeOK
<1>2. w \in ThreadStates /\ w.c = thread[t].c
  BY <1>1 DEF ThreadStates
<1>3. thread' = [thread EXCEPT ![t] = w]
  BY DEF Goto
<1>4. Moves(t)
  <2> HIDE DEF w
  <2> QED BY <1>2, <1>3 DEF Moves
<1> QED BY <1>2, <1>3, <1>4 DEF DeliveryTypeOK

LEMMA NoNoticeMoves ==
  ASSUME DeliveryTypeOK, NEW t \in Threads, thread' = [thread EXCEPT ![t] = NoNotice]
  PROVE  thread' \in [Threads -> ThreadStates] /\ Moves(t)
BY NoNoticeType DEF DeliveryTypeOK, Moves

\* A step of one thread, with whatever it does to the uploads, the requests and the
\* handlings.
LEMMA BaseMoves ==
  ASSUME BaseInv, NEW t \in Threads, Moves(t), thread' \in [Threads -> ThreadStates],
         \A c \in Commands : db'[c].status = "none" => db[c].status = "none",
         UNCHANGED <<kind, notices>>,
         origin' \in [Handlers -> Origins],
         uploads' \in [UploadIDs -> Slots],
         \A u \in UploadIDs : uploads'[u].c \in {uploads[u].c, thread[t].c},
         stored' \in [UploadIDs -> Sizes \union {None}],
         runs' \in [Commands -> Nat]
  PROVE  BaseInv'
<1>0. DeliveryTypeOK'
  BY DEF BaseInv, DeliveryTypeOK
<1>1. PICK w : /\ thread' = [thread EXCEPT ![t] = w]
               /\ w = NoNotice \/ (w.c = thread[t].c /\ thread[t].pc # "idle")
  BY DEF Moves
<1>2. \A u \in Threads : thread'[u] = IF u = t THEN w ELSE thread[u]
  BY <1>1 DEF BaseInv, DeliveryTypeOK
<1>3. ASSUME NEW u \in Threads, thread'[u].pc # "idle" PROVE thread'[u].c \in Commands
  BY <1>1, <1>2, <1>3, NoNoticeType DEF BaseInv, KnownInv
<1>4. ASSUME NEW c \in Commands, db'[c].status = "none"
      PROVE  /\ \A n \in notices' : n.c # c
             /\ \A u \in Threads : thread'[u].c # c
             /\ \A u \in UploadIDs : uploads'[u].c # c
  <2>1. /\ \A n \in notices : n.c # c
        /\ \A u \in Threads : thread[u].c # c
        /\ \A u \in UploadIDs : uploads[u].c # c
    BY <1>4 DEF BaseInv, KnownInv
  <2>2. NoNotice.c # c
    BY NoNoticeType, DeliveryAssumption
  <2> QED BY <1>1, <1>2, <1>4, <2>1, <2>2
<1>5. KnownInv'
  BY <1>3, <1>4 DEF KnownInv
<1> QED BY <1>0, <1>5 DEF BaseInv

\* A step of the service that leaves the agent, the notices and the uploads alone.
LEMMA BaseQuiet ==
  ASSUME BaseInv, \A c \in Commands : db'[c].status = "none" => db[c].status = "none",
         UNCHANGED <<notices, thread, storeVars, runs>>,
         kind' \in [Commands -> KindsOf(CommandTypes \union {"none"})],
         origin' \in [Handlers -> Origins]
  PROVE  BaseInv'
<1>1. UNCHANGED <<notices, thread, uploads, stored, runs>>
  BY DEF storeVars
<1>2. DeliveryTypeOK'
  BY <1>1 DEF BaseInv, DeliveryTypeOK
<1>3. KnownInv'
  BY <1>1 DEF BaseInv, KnownInv
<1> QED BY <1>2, <1>3 DEF BaseInv

LEMMA AgentAloneMoves ==
  ASSUME BaseInv, NEW t \in Threads, AgentAlone(t)
  PROVE  Moves(t) /\ thread' \in [Threads -> ThreadStates]
<1>0. /\ DeliveryTypeOK /\ thread[t] \in ThreadStates /\ thread[t].pc # "idle"
  BY AgentAloneFacts, InHand DEF BaseInv
<1>1. CASE FetchCommandDetail(t)
  BY <1>0, <1>1, GotoType DEF FetchCommandDetail
<1>2. CASE GenerateArtifact(t)
  <2>1. ASSUME NEW size \in Sizes,
               thread' = [thread EXCEPT ![t].pc = "request", ![t].size = size]
        PROVE  Moves(t) /\ thread' \in [Threads -> ThreadStates]
    <3> DEFINE w == [thread[t] EXCEPT !.pc = "request", !.size = size]
    <3>1. w \in ThreadStates /\ w.c = thread[t].c
      BY <1>0 DEF ThreadStates
    <3>2. thread' = [thread EXCEPT ![t] = w]
      BY <2>1
    <3> HIDE DEF w
    <3> QED BY <1>0, <3>1, <3>2 DEF Moves, DeliveryTypeOK
  <2> QED BY <1>0, <1>2, <2>1, GotoType DEF GenerateArtifact
<1>3. CASE Unsupported(t)
  BY <1>0, <1>3, NoNoticeMoves DEF Unsupported, GiveUp
<1>4. CASE RequestArtifactUpload(t)
  <2>1. ASSUME NEW u \in UploadIDs,
               thread' = [thread EXCEPT ![t].pc = "upload", ![t].upload = u]
        PROVE  Moves(t) /\ thread' \in [Threads -> ThreadStates]
    <3> DEFINE w == [thread[t] EXCEPT !.pc = "upload", !.upload = u]
    <3>1. w \in ThreadStates /\ w.c = thread[t].c
      BY <1>0 DEF ThreadStates
    <3>2. thread' = [thread EXCEPT ![t] = w]
      BY <2>1
    <3> HIDE DEF w
    <3> QED BY <1>0, <3>1, <3>2 DEF Moves, DeliveryTypeOK
  <2> QED BY <1>0, <1>4, <2>1, NoNoticeMoves DEF RequestArtifactUpload, GiveUp
<1>5. CASE UploadArtifact(t)
  BY <1>0, <1>5, GotoType DEF UploadArtifact
<1>6. CASE CompleteArtifactUpload(t)
  BY <1>0, <1>6, GotoType, NoNoticeMoves DEF CompleteArtifactUpload, GiveUp
<1> QED BY <1>1, <1>2, <1>3, <1>4, <1>5, <1>6 DEF AgentAlone

LEMMA AgentAloneBase ==
  ASSUME CommandsInv, BaseInv, UploadInv, NEW t \in Threads, AgentAlone(t)
  PROVE  BaseInv'
<1>0. /\ DeliveryTypeOK /\ clock \in Nat
      /\ UNCHANGED <<db, clock, kind, notices, origin, runs>>
      /\ Moves(t) /\ thread' \in [Threads -> ThreadStates]
  BY AgentAloneFacts, AgentAloneMoves DEF BaseInv, vars, CommandsInv, TypeOK
<1>1. PICK c \in Commands : c = thread[t].c
  BY AgentAloneFacts
<1>2. /\ uploads' \in [UploadIDs -> Slots]
      /\ \A u \in UploadIDs : uploads'[u].c \in {uploads[u].c, c}
  <2>1. CASE RequestArtifactUpload(t)
    <3>1. NewSlot(c) \in Slots /\ NewSlot(c).c = c
      BY <1>0, DeliveryAssumption DEF NewSlot, Slots
    <3>2. \/ UNCHANGED uploads
          \/ \E u \in UploadIDs : uploads' = [uploads EXCEPT ![u] = NewSlot(c)]
      BY <1>1, <2>1 DEF RequestArtifactUpload
    <3> QED BY <1>0, <3>1, <3>2 DEF DeliveryTypeOK
  <2>2. CASE CompleteArtifactUpload(t)
    <3>1. PICK u \in UploadIDs : u = thread[t].upload
      BY <2>2 DEF CompleteArtifactUpload, UploadInv, Checked, WithSlot
    <3>2. uploads' = uploads
          \/ uploads' = [uploads EXCEPT ![u] = [uploads[u] EXCEPT !.status = "uploaded"]]
      BY <2>2, <3>1 DEF CompleteArtifactUpload
    <3>3. PICK s : s = [uploads[u] EXCEPT !.status = "uploaded"]
      OBVIOUS
    <3>4. s \in Slots /\ s.c = uploads[u].c
      BY <1>0, <3>3 DEF DeliveryTypeOK, Slots
    <3> QED BY <1>0, <3>2, <3>3, <3>4 DEF DeliveryTypeOK
  <2>3. CASE ~ (RequestArtifactUpload(t) \/ CompleteArtifactUpload(t))
    <3>1. UNCHANGED uploads
      BY <2>3 DEF AgentAlone, FetchCommandDetail, GenerateArtifact, Unsupported, UploadArtifact,
         storeVars
    <3> QED BY <1>0, <3>1 DEF DeliveryTypeOK
  <2> QED BY <2>1, <2>2, <2>3
<1>3. stored' \in [UploadIDs -> Sizes \union {None}]
  <2>1. CASE UploadArtifact(t)
    BY <1>0, <2>1 DEF UploadArtifact, Put, DeliveryTypeOK, UploadInv, Checked, Generated
  <2>2. CASE ~ UploadArtifact(t)
    <3>1. UNCHANGED stored
      BY <2>2 DEF AgentAlone, FetchCommandDetail, GenerateArtifact, Unsupported,
         RequestArtifactUpload, CompleteArtifactUpload, storeVars
    <3> QED BY <1>0, <3>1 DEF DeliveryTypeOK
  <2> QED BY <2>1, <2>2
<1>4. origin' \in [Handlers -> Origins] /\ runs' \in [Commands -> Nat]
  BY <1>0 DEF DeliveryTypeOK
<1> QED BY <1>0, <1>1, <1>2, <1>3, <1>4, BaseMoves

\* A call of the agent reaches the service.
LEMMA CallFacts ==
  ASSUME CommandsInv, BaseInv, NEW t \in Threads, NEW h \in Handlers, CallService(t, h)
  PROVE  \E c \in Commands, op \in {"ack_accepted", "ack_rejected", "succeeded", "failed"} :
           /\ c = thread[t].c /\ thread[t].pc \in DOMAIN CallOf
           /\ op = "succeeded" <=> thread[t].pc = "succeed"
           /\ hs[h].pc = "idle"
           /\ hs' = [hs EXCEPT ![h] = [pc |-> "loaded", cmd |-> c, row |-> db[c], by |-> "none"]]
           /\ UNCHANGED <<db, results, kind, notices, storeVars, runs>>
           /\ \/ /\ thread' = [thread EXCEPT ![t] = [thread[t] EXCEPT !.pc = "waiting"]]
                 /\ origin' = [origin EXCEPT ![h] = [op |-> op, t |-> t]]
              \/ /\ thread' = [thread EXCEPT ![t] = NoNotice]
                 /\ origin' = [origin EXCEPT ![h] = [op |-> op, t |-> None]]
<1>1. thread[t].pc \in DOMAIN CallOf /\ thread[t].pc # "idle"
  BY DEF CallService, CallOf
<1>2. thread[t].c \in Commands
  BY <1>1, InHand
<1>3. /\ CallOf[thread[t].pc] \in {"ack_accepted", "ack_rejected", "succeeded", "failed"}
      /\ CallOf[thread[t].pc] = "succeeded" <=> thread[t].pc = "succeed"
  BY <1>1 DEF CallOf
<1>4. UNCHANGED <<db, results, kind, notices, storeVars, runs>>
  BY DEF CallService, load
<1> QED BY <1>1, <1>2, <1>3, <1>4 DEF CallService, load

LEMMA CallBase ==
  ASSUME CommandsInv, BaseInv, NEW t \in Threads, NEW h \in Handlers, CallService(t, h)
  PROVE  BaseInv'
<1>0. DeliveryTypeOK /\ thread[t] \in ThreadStates
  BY DEF BaseInv, DeliveryTypeOK
<1>1. PICK op \in {"ack_accepted", "ack_rejected", "succeeded", "failed"} :
           /\ thread[t].pc \in DOMAIN CallOf
           /\ UNCHANGED <<db, kind, notices, storeVars, runs>>
           /\ \/ /\ thread' = [thread EXCEPT ![t] = [thread[t] EXCEPT !.pc = "waiting"]]
                 /\ origin' = [origin EXCEPT ![h] = [op |-> op, t |-> t]]
              \/ /\ thread' = [thread EXCEPT ![t] = NoNotice]
                 /\ origin' = [origin EXCEPT ![h] = [op |-> op, t |-> None]]
  BY CallFacts
<1>2. origin' \in [Handlers -> Origins]
  BY <1>0, <1>1 DEF DeliveryTypeOK, Origins
<1>3. Moves(t) /\ thread' \in [Threads -> ThreadStates]
  <2>1. thread[t].pc # "idle"
    BY <1>1 DEF CallOf
  <2>2. CASE thread' = [thread EXCEPT ![t] = [thread[t] EXCEPT !.pc = "waiting"]]
    BY <1>0, <2>1, <2>2, GotoType DEF Goto
  <2> QED BY <1>0, <1>1, <2>2, NoNoticeMoves
<1>4. UNCHANGED <<uploads, stored, runs>>
  BY <1>1 DEF storeVars
<1> QED BY <1>0, <1>1, <1>2, <1>3, <1>4, BaseMoves DEF DeliveryTypeOK

\* A request whose answer nobody waits for any more.
Unheard(o) == [o EXCEPT !.t = None]

LEMMA UnheardType ==
  ASSUME NEW o \in Origins
  PROVE  /\ Unheard(o) \in Origins /\ Unheard(o).op = o.op /\ Unheard(o).t = None
         /\ o = NoOrigin => Unheard(o) = NoOrigin
BY DEF Unheard, Origins, NoOrigin

LEMMA DropFacts ==
  ASSUME BaseInv, NEW t \in Threads, NoticeDropped(t) \/ Restart
  PROVE  /\ UNCHANGED <<vars, kind, notices, storeVars, runs>>
         /\ origin' \in [Handlers -> Origins]
         /\ \A h \in Handlers : /\ origin'[h].op = origin[h].op
                                /\ origin'[h].t \in {origin[h].t, None}
                                /\ origin[h] = NoOrigin => origin'[h] = NoOrigin
         /\ \A u \in Threads : thread'[u] \in {thread[u], NoNotice}
         /\ \A h \in Handlers : origin'[h].t # None =>
              thread'[origin[h].t] = thread[origin[h].t]
         /\ thread' \in [Threads -> ThreadStates]
<1>0. /\ thread \in [Threads -> ThreadStates] /\ origin \in [Handlers -> Origins]
  BY DEF BaseInv, DeliveryTypeOK
<1>1. UNCHANGED <<vars, kind, notices, storeVars, runs>>
  BY DEF NoticeDropped, Restart
<1>3. CASE NoticeDropped(t)
  <2>1. /\ \A h \in Handlers : origin'[h] = IF origin[h].t = t THEN Unheard(origin[h])
                                                             ELSE origin[h]
        /\ origin' = [h \in Handlers |-> origin'[h]]
        /\ \A u \in Threads : thread'[u] = IF u = t THEN NoNotice ELSE thread[u]
        /\ thread' = [thread EXCEPT ![t] = NoNotice]
    BY <1>0, <1>3 DEF NoticeDropped, Unheard
  <2>2. \A h \in Handlers : origin'[h] \in Origins
    BY <1>0, <2>1, UnheardType
  <2>3. thread' \in [Threads -> ThreadStates]
    BY <1>0, <2>1, NoNoticeType
  <2>4. \A h \in Handlers : /\ origin'[h].op = origin[h].op
                            /\ origin'[h].t \in {origin[h].t, None}
                            /\ origin[h] = NoOrigin => origin'[h] = NoOrigin
                            /\ origin'[h].t # None => origin'[h] = origin[h] /\ origin[h].t # t
    BY <1>0, <2>1, UnheardType
  <2>5. \A h \in Handlers : origin'[h].t # None => thread'[origin[h].t] = thread[origin[h].t]
    BY <1>0, <2>1, <2>4
  <2> QED BY <1>1, <2>1, <2>2, <2>3, <2>4, <2>5
<1>4. CASE Restart
  <2>1. /\ \A h \in Handlers : origin'[h] = Unheard(origin[h])
        /\ origin' = [h \in Handlers |-> origin'[h]]
        /\ \A u \in Threads : thread'[u] = NoNotice
        /\ thread' = [u \in Threads |-> NoNotice]
    BY <1>4 DEF Restart, Unheard
  <2>2. \A h \in Handlers : /\ origin'[h] \in Origins /\ origin'[h].op = origin[h].op
                            /\ origin'[h].t = None
                            /\ origin[h] = NoOrigin => origin'[h] = NoOrigin
    BY <1>0, <2>1, UnheardType
  <2>3. thread' \in [Threads -> ThreadStates]
    BY <2>1, NoNoticeType
  <2> QED BY <1>1, <2>1, <2>2, <2>3
<1> QED BY <1>3, <1>4

LEMMA DropBase ==
  ASSUME BaseInv, NEW t \in Threads, NoticeDropped(t) \/ Restart
  PROVE  BaseInv'
<1>1. /\ UNCHANGED <<vars, kind, notices, storeVars, runs>>
      /\ origin' \in [Handlers -> Origins] /\ thread' \in [Threads -> ThreadStates]
      /\ \A u \in Threads : thread'[u] \in {thread[u], NoNotice}
  BY DropFacts
<1>2. UNCHANGED <<db, kind, notices, uploads, stored, runs>>
  BY <1>1 DEF vars, storeVars
<1>3. DeliveryTypeOK'
  BY <1>1, <1>2 DEF BaseInv, DeliveryTypeOK
<1>4. KnownInv'
  BY <1>1, <1>2, NoNoticeType, DeliveryAssumption DEF BaseInv, KnownInv
<1> QED BY <1>3, <1>4 DEF BaseInv

\* A notice in hand for the first time.
LEMMA DeliverFacts ==
  ASSUME BaseInv, NEW t \in Threads, NEW n \in notices, DeliverNotice(t, n)
  PROVE  /\ UNCHANGED <<vars, kind, notices, origin, storeVars, runs>>
         /\ thread[t] = NoNotice /\ thread' \in [Threads -> ThreadStates]
         /\ thread'[t].c = n.c /\ thread'[t].pc \in {"fetch", "reject"}
         /\ \A u \in Threads : u # t => thread'[u] = thread[u]
         /\ n.c \in Commands /\ db[n.c].status # "none"
<1>1. n.c \in Commands /\ db[n.c].status # "none"
  BY DEF BaseInv, DeliveryTypeOK, KnownInv, Notices
<1>2. PICK pc \in {"fetch", "reject"} :
        thread' = [thread EXCEPT ![t] = [NoNotice EXCEPT !.c = n.c, !.pc = pc]]
  BY DEF DeliverNotice
<1>3. PICK w : w = [NoNotice EXCEPT !.c = n.c, !.pc = pc]
  OBVIOUS
<1>4. w \in ThreadStates /\ w.c = n.c /\ w.pc = pc
  BY <1>1, <1>3 DEF NoNotice, ThreadStates
<1>5. thread' = [thread EXCEPT ![t] = w]
  BY <1>2, <1>3
<1> QED BY <1>1, <1>4, <1>5 DEF DeliverNotice, BaseInv, DeliveryTypeOK

LEMMA DeliverBase ==
  ASSUME BaseInv, NEW t \in Threads, NEW n \in notices, DeliverNotice(t, n)
  PROVE  BaseInv'
<1>1. UNCHANGED <<db, kind, notices, origin, uploads, stored, runs>>
  BY DeliverFacts DEF vars, storeVars
<1>2. DeliveryTypeOK'
  BY <1>1, DeliverFacts DEF BaseInv, DeliveryTypeOK
<1>3. KnownInv'
  BY <1>1, DeliverFacts DEF BaseInv, KnownInv
<1> QED BY <1>2, <1>3 DEF BaseInv

\* What becomes of the thread that waits for a request that ends.
LEMMA EndFacts ==
  ASSUME CommandsInv, BaseInv, OriginInv, NEW h \in Handlers, SaveForRequest(h) \/ EndRequest(h)
  PROVE  /\ UNCHANGED <<kind, notices, storeVars, results>>
         /\ origin' = [origin EXCEPT ![h] = NoOrigin]
         /\ origin[h].t = None => UNCHANGED <<thread, runs>>
         /\ origin[h].t # None =>
              /\ origin[h].t \in Threads /\ thread[origin[h].t].c = hs[h].cmd
              /\ \/ Goto(origin[h].t, "handle")
                 \/ thread' = [thread EXCEPT ![origin[h].t] = NoNotice]
         /\ runs' # runs =>
              /\ SaveForRequest(h) /\ hs[h].row.status = "ack_accepted"
              /\ runs' = [runs EXCEPT ![hs[h].cmd] = runs[hs[h].cmd] + 1]
<1>1. origin[h].t # None => origin[h].t \in Threads
  BY DEF BaseInv, DeliveryTypeOK, Origins
<1>2. origin[h].t # None => thread[origin[h].t].c = hs[h].cmd
  BY DEF OriginInv
<1>3. CASE SaveForRequest(h)
  BY <1>1, <1>2, <1>3 DEF SaveForRequest, SaveCommand, Goto
<1>4. CASE EndRequest(h)
  BY <1>1, <1>2, <1>4 DEF EndRequest, Return
<1> QED BY <1>3, <1>4

LEMMA RequestBase ==
  ASSUME CommandsInv, BaseInv, OriginInv, NEW h \in Handlers, RequestStep(h),
         \A c \in Commands : db'[c].status = "none" => db[c].status = "none"
  PROVE  BaseInv'
<1>0. DeliveryTypeOK
  BY DEF BaseInv
<1>1. CASE DecideForService(h) \/ DecideForAgent(h) \/ InsertForRequest(h)
  <2>1. UNCHANGED deliveryVars
    BY <1>1, RequestFacts
  <2> QED BY <1>0, <2>1, BaseQuiet DEF deliveryVars, DeliveryTypeOK
<1>2. CASE SaveForRequest(h) \/ EndRequest(h)
  <2>1. /\ UNCHANGED <<kind, notices, storeVars>>
        /\ origin' \in [Handlers -> Origins]
    BY <1>0, <1>2, EndFacts, NoOriginType DEF DeliveryTypeOK
  <2>2. runs' \in [Commands -> Nat]
    <3>1. CASE runs' = runs
      BY <1>0, <3>1 DEF DeliveryTypeOK
    <3>2. CASE runs' # runs
      BY <1>0, <1>2, <3>2, EndFacts, RequestFacts DEF DeliveryTypeOK
    <3> QED BY <3>1, <3>2
  <2>3. CASE origin[h].t = None
    BY <1>0, <1>2, <2>1, <2>3, EndFacts, BaseQuiet DEF DeliveryTypeOK
  <2>4. CASE origin[h].t # None
    <3>1. PICK t \in Threads : t = origin[h].t
      BY <1>2, <2>4, EndFacts
    <3>2. thread[t].pc # "idle"
      BY <2>4, <3>1 DEF OriginInv
    <3>3. Goto(t, "handle") \/ thread' = [thread EXCEPT ![t] = NoNotice]
      BY <1>2, <2>4, <3>1, EndFacts
    <3>4. Moves(t) /\ thread' \in [Threads -> ThreadStates]
      BY <1>0, <3>2, <3>3, GotoType, NoNoticeMoves
    <3>5. UNCHANGED <<uploads, stored>>
      BY <2>1 DEF storeVars
    <3> QED BY <1>0, <2>1, <2>2, <3>4, <3>5, BaseMoves DEF DeliveryTypeOK
  <2> QED BY <2>3, <2>4
<1> QED BY <1>1, <1>2 DEF RequestStep

LEMMA BaseStep ==
  ASSUME CommandsInv, BaseInv, OriginInv, UploadInv, [DeliveryNext]_allVars
  PROVE  BaseInv'
<1>0. DeliveryTypeOK
  BY DEF BaseInv
<1>a. \A c \in Commands : db'[c].status = "none" => db[c].status = "none"
  BY IsServiceStep, StaysCreated
<1>1. ASSUME NEW c \in Commands, NEW k \in Kinds, CreateCommand(c, k) PROVE BaseInv'
  <2>1. k \in KindsOf(CommandTypes \union {"none"})
    BY DeliveryAssumption DEF KindsOf
  <2>2. kind' \in [Commands -> KindsOf(CommandTypes \union {"none"})]
    BY <1>0, <1>1, <2>1 DEF CreateCommand, DeliveryTypeOK
  <2> QED BY <1>0, <1>1, <1>a, <2>2, BaseQuiet DEF CreateCommand, DeliveryTypeOK
<1>2. ASSUME NEW c \in Commands, Publish(c) PROVE BaseInv'
  <2>1. UNCHANGED <<db, kind, thread, origin, uploads, stored, runs>>
    BY <1>2 DEF Publish, vars, storeVars
  <2>2. db[c] \in Rows
    BY DEF CommandsInv, TypeOK
  <2>3. [c |-> c, expires |-> db[c].ackDeadline] \in Notices /\ db[c].status # "none"
    BY <1>2, <2>2 DEF Notices, Rows, Publish
  <2>4. notices' = notices \union {[c |-> c, expires |-> db[c].ackDeadline]}
    BY <1>2 DEF Publish
  <2>5. DeliveryTypeOK'
    BY <1>0, <2>1, <2>3, <2>4 DEF DeliveryTypeOK
  <2>6. KnownInv'
    BY <2>1, <2>3, <2>4 DEF BaseInv, KnownInv
  <2> QED BY <2>5, <2>6 DEF BaseInv
<1>3. ASSUME UNCHANGED deliveryVars PROVE BaseInv'
  BY <1>0, <1>3, <1>a, BaseQuiet DEF deliveryVars, DeliveryTypeOK
<1>4. ASSUME NEW h \in Handlers, NEW c \in Commands, LoadForService(h, c) PROVE BaseInv'
  BY <1>3, <1>4 DEF LoadForService
<1>5. ASSUME NEW h \in Handlers, RequestStep(h) PROVE BaseInv'
  BY <1>5, <1>a, RequestBase
<1>6. ASSUME NEW t \in Threads, AgentStep(t) PROVE BaseInv'
  BY <1>6, AgentAloneBase, CallBase, DropBase DEF AgentStep, AgentAlone
<1>7. CASE Restart
  <2>1. PICK t \in Threads : TRUE
    BY <1>7 DEF Restart
  <2> QED BY <1>7, <2>1, DropBase
<1>8. CASE TimePasses \/ UNCHANGED allVars
  BY <1>3, <1>8 DEF TimePasses, allVars
<1> QED BY <1>1, <1>2, <1>4, <1>5, <1>6, <1>7, <1>8, DeliverBase DEF DeliveryNext

-------------------------------------------------------------------------------
(***************************************************************************)
(* Requests and the threads that wait for them.                            *)
(***************************************************************************)

\* Nobody waits anew, and whoever waits, waits for the same.
LEMMA OriginStays ==
  ASSUME OriginInv, UNCHANGED origin,
         \A h \in Handlers : hs'[h].pc = "idle" => origin[h] = NoOrigin,
         \A h \in Handlers : origin[h].t # None =>
           hs'[h].cmd = hs[h].cmd /\ thread'[origin[h].t] = thread[origin[h].t]
  PROVE  OriginInv'
BY DEF OriginInv

LEMMA OriginStep ==
  ASSUME CommandsInv, BaseInv, OriginInv, [DeliveryNext]_allVars
  PROVE  OriginInv'
<1>0. /\ DeliveryTypeOK /\ hs \in [Handlers -> HandlerStates]
      /\ thread \in [Threads -> ThreadStates] /\ origin \in [Handlers -> Origins]
      /\ \A h \in Handlers : hs[h].pc = "idle" => origin[h] = NoOrigin
      /\ \A h \in Handlers : origin[h].t # None =>
           origin[h].t \in Threads /\ hs[h].pc # "idle" /\ thread[origin[h].t].pc = "waiting"
  BY NoOriginType DEF BaseInv, DeliveryTypeOK, CommandsInv, TypeOK, OriginInv, Origins
<1>1. ASSUME UNCHANGED <<hs, thread, origin>> PROVE OriginInv'
  BY <1>0, <1>1, OriginStays
<1>2. ASSUME NEW c \in Commands, NEW k \in Kinds, CreateCommand(c, k) PROVE OriginInv'
  BY <1>1, <1>2 DEF CreateCommand, Create
<1>3. ASSUME NEW c \in Commands, Publish(c) PROVE OriginInv'
  BY <1>1, <1>3 DEF Publish, vars
<1>4. ASSUME NEW h \in Handlers, NEW c \in Commands, LoadForService(h, c) PROVE OriginInv'
  <2>1. /\ hs' = [hs EXCEPT ![h] = [pc |-> "loaded", cmd |-> c, row |-> db[c], by |-> "none"]]
        /\ UNCHANGED <<thread, origin>> /\ hs[h].pc = "idle"
    BY <1>4 DEF LoadForService, load, deliveryVars
  <2>2. \A g \in Handlers : g # h => hs'[g] = hs[g]
    BY <1>0, <2>1
  <2>3. hs'[h].pc = "loaded"
    BY <1>0, <2>1
  <2> QED BY <1>0, <2>1, <2>2, <2>3, OriginStays
<1>5. ASSUME NEW h \in Handlers,
             DecideForService(h) \/ DecideForAgent(h) \/ InsertForRequest(h)
      PROVE  OriginInv'
  <2>1. /\ \A g \in Handlers : g # h => hs'[g] = hs[g]
        /\ hs'[h].pc # "idle" /\ hs'[h].cmd = hs[h].cmd
        /\ UNCHANGED <<thread, origin>>
    BY <1>5, RequestFacts DEF RequestStep, deliveryVars
  <2> QED BY <1>0, <2>1, OriginStays
<1>6. ASSUME NEW h \in Handlers, SaveForRequest(h) \/ EndRequest(h) PROVE OriginInv'
  <2>1. /\ \A g \in Handlers : g # h => hs'[g] = hs[g] /\ origin'[g] = origin[g]
        /\ origin'[h] = NoOrigin /\ NoOrigin.t = None
    BY <1>0, <1>6, RequestFacts, EndFacts, NoOriginType DEF RequestStep
  <2>2. ASSUME NEW g \in Handlers, g # h, origin[g].t # None
        PROVE  thread'[origin[g].t] = thread[origin[g].t]
    <3>1. CASE origin[h].t = None
      BY <1>6, <3>1, EndFacts
    <3>2. CASE origin[h].t # None
      <4>1. origin[g].t # origin[h].t
        BY <2>2, <3>2 DEF OriginInv
      <4>2. Goto(origin[h].t, "handle") \/ thread' = [thread EXCEPT ![origin[h].t] = NoNotice]
        BY <1>6, <3>2, EndFacts
      <4> QED BY <1>0, <2>2, <4>1, <4>2 DEF Goto
    <3> QED BY <3>1, <3>2
  <2> QED BY <2>1, <2>2 DEF OriginInv
<1>7. ASSUME NEW t \in Threads, AgentAlone(t) PROVE OriginInv'
  <2>1. UNCHANGED <<hs, origin>> /\ thread[t].pc # "waiting" /\ Moves(t)
    BY <1>7, AgentAloneFacts, AgentAloneMoves DEF vars
  <2>2. \A u \in Threads : u # t => thread'[u] = thread[u]
    BY <1>0, <2>1 DEF Moves
  <2> QED BY <1>0, <2>1, <2>2, OriginStays
<1>8. ASSUME NEW t \in Threads, NEW h \in Handlers, CallService(t, h) PROVE OriginInv'
  <2>1. PICK c \in Commands, op \in {"ack_accepted", "ack_rejected", "succeeded", "failed"} :
           /\ c = thread[t].c /\ thread[t].pc \in DOMAIN CallOf
           /\ hs[h].pc = "idle"
           /\ hs' = [hs EXCEPT ![h] = [pc |-> "loaded", cmd |-> c, row |-> db[c], by |-> "none"]]
           /\ \/ /\ thread' = [thread EXCEPT ![t] = [thread[t] EXCEPT !.pc = "waiting"]]
                 /\ origin' = [origin EXCEPT ![h] = [op |-> op, t |-> t]]
              \/ /\ thread' = [thread EXCEPT ![t] = NoNotice]
                 /\ origin' = [origin EXCEPT ![h] = [op |-> op, t |-> None]]
    BY <1>8, CallFacts
  <2>2. /\ thread[t].pc # "waiting" /\ t # None
        /\ hs'[h].pc = "loaded" /\ hs'[h].cmd = c
        /\ \A g \in Handlers : g # h => hs'[g] = hs[g] /\ origin'[g] = origin[g]
        /\ \A u \in Threads : u # t => thread'[u] = thread[u]
    BY <1>0, <2>1, DeliveryAssumption DEF CallOf
  <2>3. \A g \in Handlers : origin[g].t # t
    BY <1>0, <2>2
  <2>4. CASE origin' = [origin EXCEPT ![h] = [op |-> op, t |-> None]]
    <3>1. origin'[h].t = None
      BY <1>0, <2>4
    <3> QED BY <1>0, <2>2, <2>3, <3>1 DEF OriginInv
  <2>5. CASE /\ thread' = [thread EXCEPT ![t] = [thread[t] EXCEPT !.pc = "waiting"]]
             /\ origin' = [origin EXCEPT ![h] = [op |-> op, t |-> t]]
    <3>1. origin'[h].t = t /\ thread'[t].pc = "waiting" /\ thread'[t].c = c
      BY <1>0, <2>1, <2>5 DEF ThreadStates
    <3> QED BY <1>0, <2>2, <2>3, <3>1 DEF OriginInv
  <2> QED BY <2>1, <2>4, <2>5
<1>9. ASSUME NEW t \in Threads, NoticeDropped(t) \/ Restart PROVE OriginInv'
  <2>1. /\ UNCHANGED hs
        /\ \A h \in Handlers : /\ origin'[h].t \in {origin[h].t, None}
                               /\ origin[h] = NoOrigin => origin'[h] = NoOrigin
                               /\ origin'[h].t # None => thread'[origin[h].t] = thread[origin[h].t]
    BY <1>9, DropFacts DEF vars
  <2> QED BY <2>1 DEF OriginInv
<1>10. CASE Restart
  <2>1. PICK t \in Threads : TRUE
    BY <1>10 DEF Restart
  <2> QED BY <1>9, <1>10, <2>1
<1>11. ASSUME NEW t \in Threads, NEW n \in notices, DeliverNotice(t, n) PROVE OriginInv'
  <2>1. /\ UNCHANGED <<hs, origin>> /\ thread[t].pc # "waiting"
        /\ \A u \in Threads : u # t => thread'[u] = thread[u]
    BY <1>11, DeliverFacts, NoNoticeType DEF vars
  <2> QED BY <1>0, <2>1, OriginStays
<1>12. CASE TimePasses \/ UNCHANGED allVars
  BY <1>1, <1>12 DEF TimePasses, Tick, allVars, vars, deliveryVars
<1> QED BY <1>2, <1>3, <1>4, <1>5, <1>6, <1>7, <1>8, <1>9, <1>10, <1>11, <1>12
        DEF DeliveryNext, RequestStep, AgentStep, AgentAlone

-------------------------------------------------------------------------------
(***************************************************************************)
(* Acknowledgements.                                                       *)
(***************************************************************************)

\* A save that overwrites nothing makes a command sent only if it was queued, and
\* accepted only if it was sent.
LEMMA FreshSaves ==
  ASSUME CommandsInv, FreshInv, NEW h \in Handlers, SaveCommand(h), hs[h].cmd \notin overwritten'
  PROVE  /\ h \notin outdated
         /\ hs[h].row.status \in {"none", "queued", "sent"} =>
              db[hs[h].cmd].status \in {"none", "queued", "sent"}
         /\ hs[h].row.status = "ack_accepted" => db[hs[h].cmd].status = "sent"
<1>1. h \notin outdated
  BY DEF SaveCommand
<1>2. hs[h].pc = "save" /\ CopyIsFresh(hs[h])
  BY <1>1 DEF SaveCommand, FreshInv
<1>3. hs[h].row.status \notin Terminal \/ hs[h].row.status \notin {"none", "queued", "sent", "ack_accepted"}
  BY DEF Terminal
<1> QED BY <1>1, <1>2, <1>3 DEF CopyIsFresh, Lifecycle!Arrow

LEMMA OverwrittenGrows ==
  ASSUME [Next]_vars
  PROVE  overwritten \subseteq overwritten'
<1>1. ASSUME NEW h \in Handlers, SaveCommand(h) PROVE overwritten \subseteq overwritten'
  BY <1>1 DEF SaveCommand
<1>2. CASE ~ \E h \in Handlers : SaveCommand(h)
  BY <1>2 DEF Next, Create, load, Decide, MarkSent, RecordAck, ExpireMissingAck, RecordProgress,
     RecordResult, ExpireResult, Cancel, Proceed, RepositoryCall, AppendProgressEvent,
     InsertResult, Return, Tick, vars, history
<1> QED BY <1>1, <1>2

\* Only a request that saves an acceptance hands a command to its handler.
LEMMA RunsFacts ==
  ASSUME CommandsInv, BaseInv, OriginInv, [DeliveryNext]_allVars, runs' # runs
  PROVE  \E h \in Handlers :
           /\ SaveCommand(h) /\ hs[h].row.status = "ack_accepted" /\ hs[h].cmd \in Commands
           /\ runs' = [runs EXCEPT ![hs[h].cmd] = runs[hs[h].cmd] + 1]
<1>1. ASSUME NEW h \in Handlers, RequestStep(h)
      PROVE  \E g \in Handlers :
               /\ SaveCommand(g) /\ hs[g].row.status = "ack_accepted" /\ hs[g].cmd \in Commands
               /\ runs' = [runs EXCEPT ![hs[g].cmd] = runs[hs[g].cmd] + 1]
  <2>1. SaveForRequest(h) \/ EndRequest(h)
    BY <1>1, RequestFacts DEF RequestStep, deliveryVars
  <2> QED BY <1>1, <2>1, EndFacts, RequestFacts DEF SaveForRequest
<1>2. ASSUME NEW t \in Threads, AgentStep(t) PROVE FALSE
  BY <1>2, AgentAloneFacts DEF AgentStep, AgentAlone, CallService, NoticeDropped
<1> QED BY <1>1, <1>2 DEF DeliveryNext, CreateCommand, Publish, LoadForService, DeliverNotice,
        Restart, TimePasses, allVars, deliveryVars

\* The rows of commands that are not past sent come from such rows.
LEMMA NotPastSent ==
  ASSUME CommandsInv, FreshInv, [Next]_vars, NEW c \in Commands, c \notin overwritten',
         db'[c].status \in {"none", "queued", "sent"}
  PROVE  db[c].status \in {"none", "queued", "sent"}
<1>1. ASSUME NEW d \in Commands, NEW t \in CommandTypes, Create(d, t)
      PROVE  db[c].status \in {"none", "queued", "sent"}
  BY <1>1 DEF Create, CommandsInv, TypeOK
<1>2. ASSUME NEW h \in Handlers, SaveCommand(h)
      PROVE  db[c].status \in {"none", "queued", "sent"}
  BY <1>2, FreshSaves DEF SaveCommand, CommandsInv, TypeOK
<1>3. CASE /\ ~ \E d \in Commands, t \in CommandTypes : Create(d, t)
           /\ ~ \E h \in Handlers : SaveCommand(h)
  BY <1>3 DEF Next, load, Decide, MarkSent, RecordAck, ExpireMissingAck, RecordProgress,
     RecordResult, ExpireResult, Cancel, Proceed, RepositoryCall, AppendProgressEvent,
     InsertResult, Return, Tick, vars
<1> QED BY <1>1, <1>2, <1>3

LEMMA AckStep ==
  ASSUME CommandsInv, FreshInv, BaseInv, OriginInv, AckInv, [DeliveryNext]_allVars
  PROVE  AckInv'
<1>0. [Next]_vars /\ runs \in [Commands -> Nat]
  BY IsServiceStep DEF BaseInv, DeliveryTypeOK
<1> SUFFICES ASSUME NEW c \in Commands, c \notin overwritten'
             PROVE  /\ db'[c].status \in {"none", "queued", "sent"} => runs'[c] = 0
                    /\ runs'[c] <= 1
  BY DEF AckInv
<1>1. c \notin overwritten
  BY <1>0, OverwrittenGrows
<1>2. /\ db[c].status \in {"none", "queued", "sent"} => runs[c] = 0
      /\ runs[c] <= 1
  BY <1>1 DEF AckInv
<1>3. db'[c].status \in {"none", "queued", "sent"} => runs[c] = 0
  BY <1>0, <1>2, NotPastSent
<1>4. CASE runs'[c] = runs[c]
  BY <1>2, <1>3, <1>4
<1>5. CASE runs'[c] # runs[c]
  <2>1. PICK h \in Handlers :
           /\ SaveCommand(h) /\ hs[h].row.status = "ack_accepted" /\ hs[h].cmd \in Commands
           /\ runs' = [runs EXCEPT ![hs[h].cmd] = runs[hs[h].cmd] + 1]
    BY <1>5, RunsFacts
  <2>2. hs[h].cmd = c /\ runs'[c] = runs[c] + 1
    BY <1>0, <1>5, <2>1
  <2>3. db[c].status = "sent"
    BY <2>1, <2>2, FreshSaves
  <2>4. db'[c].status = "ack_accepted"
    BY <2>1, <2>2 DEF SaveCommand, CommandsInv, TypeOK
  <2> QED BY <1>2, <2>2, <2>3, <2>4
<1> QED BY <1>4, <1>5

-------------------------------------------------------------------------------
(***************************************************************************)
(* Uploads.                                                                *)
(***************************************************************************)

\* Commands that exist are not redefined, slots keep their command and their mark,
\* objects are not deleted.
Kept ==
  /\ \A c \in Commands : db[c].status # "none" => kind'[c] = kind[c]
  /\ \A u \in UploadIDs : uploads[u].status # "none" =>
       /\ uploads'[u].c = uploads[u].c /\ uploads'[u].status # "none"
       /\ uploads[u].status = "uploaded" => uploads'[u].status = "uploaded"
  /\ \A u \in UploadIDs : stored[u] # None => stored'[u] # None

\* No success is reported or recorded that was not.
NoNewSuccess ==
  /\ \A h \in Handlers : ReportsSuccess(h)' => ReportsSuccess(h) /\ hs'[h].cmd = hs[h].cmd
  /\ \A c \in Commands : results'[c].status = "succeeded" => results[c].status = "succeeded"

LEMMA KeptStays ==
  ASSUME UNCHANGED <<kind, uploads, stored>>
  PROVE  Kept
BY DEF Kept

LEMMA SuccessStays ==
  ASSUME UNCHANGED <<hs, origin, results>>
  PROVE  NoNewSuccess
BY DEF NoNewSuccess, ReportsSuccess

\* What was checked stays checked.
LEMMA CheckedStays ==
  ASSUME BaseInv, UploadInv, Kept, NEW t \in Threads, NEW w, w = thread[t]
  PROVE  Checked(w)'
<1>1. CASE w.pc \notin Generated
  BY <1>1 DEF Checked, Generated, WithSlot
<1>2. CASE w.pc \in Generated
  <2>1. w.c \in Commands /\ kind'[w.c] = kind[w.c]
    BY <1>2, InHand DEF Generated, Kept
  <2>2. Checked(w)
    BY DEF UploadInv
  <2> QED BY <2>1, <2>2 DEF Checked, WithSlot, Generated, Kept
<1> QED BY <1>1, <1>2

LEMMA StoredStays ==
  ASSUME BaseInv, UploadInv, Kept, NEW u \in UploadIDs, stored'[u] = stored[u]
  PROVE  StoredFits(u)'
<1>1. CASE stored[u] # None
  <2>1. StoredFits(u)
    BY DEF UploadInv
  <2>2. db[uploads[u].c].status # "none" /\ uploads[u].c \in Commands
    BY <1>1, <2>1 DEF BaseInv, KnownInv, StoredFits
  <2> QED BY <1>1, <2>1, <2>2 DEF StoredFits, Kept
<1> QED BY <1>1 DEF StoredFits

LEMMA HasUploadStays ==
  ASSUME Kept, NEW c, HasUpload(c)
  PROVE  HasUpload(c)'
BY DEF HasUpload, Kept

\* What a step that makes no new success has to show.
LEMMA UploadFrame ==
  ASSUME BaseInv, UploadInv, Kept, NoNewSuccess,
         \A t \in Threads : Checked(thread[t])', \A u \in UploadIDs : StoredFits(u)'
  PROVE  UploadInv'
<1>1. ASSUME NEW h \in Handlers, ReportsSuccess(h)' PROVE HasUpload(hs[h].cmd)'
  <2>1. PICK c : c = hs[h].cmd /\ hs'[h].cmd = c
    BY <1>1 DEF NoNewSuccess
  <2>2. HasUpload(c)
    BY <1>1, <2>1 DEF NoNewSuccess, UploadInv
  <2>3. HasUpload(c)'
    BY <2>2, HasUploadStays
  <2> QED BY <2>1, <2>3 DEF HasUpload
<1>2. ASSUME NEW c \in Commands, results'[c].status = "succeeded" PROVE HasUpload(c)'
  BY <1>2, HasUploadStays DEF NoNewSuccess, UploadInv
<1> QED BY <1>1, <1>2 DEF UploadInv

\* Threads that are as they were or have no artifact in hand.
LEMMA CheckedThreads ==
  ASSUME BaseInv, UploadInv, Kept,
         \A t \in Threads : thread'[t] = thread[t] \/ thread'[t].pc \notin Generated
  PROVE  \A t \in Threads : Checked(thread[t])'
<1> SUFFICES ASSUME NEW t \in Threads PROVE Checked(thread[t])'
  OBVIOUS
<1>1. CASE thread'[t] = thread[t]
  <2>1. PICK v : v = thread[t]
    OBVIOUS
  <2>2. Checked(v)'
    BY <2>1, CheckedStays
  <2> QED BY <1>1, <2>1, <2>2 DEF Checked
<1>2. CASE thread'[t].pc \notin Generated
  BY <1>2 DEF Checked, Generated, WithSlot
<1> QED BY <1>1, <1>2

\* A step of one thread that makes no new success.
LEMMA UploadMoves ==
  ASSUME BaseInv, UploadInv, Kept, NoNewSuccess, NEW t \in Threads, NEW w,
         thread' = [thread EXCEPT ![t] = w], Checked(w)',
         \A u \in UploadIDs : StoredFits(u)'
  PROVE  UploadInv'
<1>1. ASSUME NEW u \in Threads PROVE Checked(thread[u])'
  <2>1. thread'[u] = IF u = t THEN w ELSE thread[u]
    BY DEF BaseInv, DeliveryTypeOK
  <2>2. PICK v : v = thread[u]
    OBVIOUS
  <2>3. Checked(v)'
    BY <2>2, CheckedStays
  <2> QED BY <2>1, <2>2, <2>3 DEF Checked
<1> QED BY <1>1, UploadFrame

\* A step that leaves the store alone and no thread with a new artifact in hand.
LEMMA UploadQuiet ==
  ASSUME BaseInv, UploadInv, Kept, NoNewSuccess, UNCHANGED stored,
         \A t \in Threads : thread'[t] = thread[t] \/ thread'[t].pc \notin Generated
  PROVE  UploadInv'
BY CheckedThreads, StoredStays, UploadFrame

\* The threads of a step of one thread to another pc, or to none.
LEMMA GotoThreads ==
  ASSUME DeliveryTypeOK, NEW t \in Threads, NEW pc, pc \notin Generated, Goto(t, pc)
  PROVE  \A u \in Threads : thread'[u] = thread[u] \/ thread'[u].pc \notin Generated
<1>1. thread'[t].pc = pc /\ \A u \in Threads : u # t => thread'[u] = thread[u]
  BY DEF Goto, DeliveryTypeOK, ThreadStates
<1> QED BY <1>1

LEMMA NoNoticeThreads ==
  ASSUME DeliveryTypeOK, NEW t \in Threads, thread' = [thread EXCEPT ![t] = NoNotice]
  PROVE  \A u \in Threads : thread'[u] = thread[u] \/ thread'[u].pc \notin Generated
BY NoNoticeType DEF DeliveryTypeOK, Generated

LEMMA AgentAloneUpload ==
  ASSUME BaseInv, UploadInv, NEW t \in Threads, AgentAlone(t)
  PROVE  UploadInv'
<1>0. /\ DeliveryTypeOK /\ thread[t] \in ThreadStates /\ Checked(thread[t])
      /\ UNCHANGED kind /\ NoNewSuccess
  BY AgentAloneFacts, SuccessStays DEF BaseInv, DeliveryTypeOK, UploadInv, vars
<1>c. PICK c \in Commands : c = thread[t].c
  BY AgentAloneFacts
<1>1. ASSUME UNCHANGED <<uploads, stored>>, NEW pc, pc \notin Generated, Goto(t, pc)
      PROVE  UploadInv'
  BY <1>0, <1>1, KeptStays, GotoThreads, UploadQuiet
<1>2. ASSUME Kept, UNCHANGED stored, GiveUp(t) PROVE UploadInv'
  BY <1>0, <1>2, NoNoticeThreads, UploadQuiet DEF GiveUp
<1>3. CASE FetchCommandDetail(t)
  BY <1>1, <1>3 DEF FetchCommandDetail, storeVars, Generated
<1>4. CASE GenerateArtifact(t)
  <2>1. UNCHANGED <<uploads, stored>>
    BY <1>4 DEF GenerateArtifact, storeVars
  <2>2. CASE Goto(t, "fail")
    BY <1>1, <2>1, <2>2 DEF Generated
  <2>3. ASSUME NEW size \in Sizes, WithinCommandLimit(kind[thread[t].c], size),
               thread' = [thread EXCEPT ![t].pc = "request", ![t].size = size]
        PROVE  UploadInv'
    <3>1. PICK w : w = [thread[t] EXCEPT !.pc = "request", !.size = size]
      OBVIOUS
    <3>2. /\ thread' = [thread EXCEPT ![t] = w]
          /\ w.pc = "request" /\ w.size = size /\ w.c = thread[t].c
      BY <1>0, <2>3, <3>1 DEF ThreadStates
    <3>3. Checked(w)'
      BY <1>0, <2>3, <3>2 DEF Checked, WithSlot, Generated
    <3> QED BY <1>0, <2>1, <3>2, <3>3, KeptStays, StoredStays, UploadMoves
  <2> QED BY <1>4, <2>2, <2>3 DEF GenerateArtifact
<1>5. CASE Unsupported(t)
  BY <1>0, <1>2, <1>5, KeptStays DEF Unsupported, storeVars
<1>6. CASE RequestArtifactUpload(t)
  <2>1. UNCHANGED stored
    BY <1>6 DEF RequestArtifactUpload
  <2>3. ASSUME NEW u \in UploadIDs, uploads[u] = NoSlot,
               uploads' = [uploads EXCEPT ![u] = NewSlot(c)]
        PROVE  Kept /\ uploads'[u].c = c /\ uploads'[u].status # "none"
    <3>1. /\ uploads'[u].c = c /\ uploads'[u].status # "none"
          /\ \A v \in UploadIDs : v # u => uploads'[v] = uploads[v]
      BY <1>0, <2>3 DEF DeliveryTypeOK, NewSlot
    <3>2. uploads[u].status = "none"
      BY <2>3 DEF NoSlot
    <3> QED BY <1>0, <2>1, <3>1, <3>2 DEF Kept
  <2>4. ASSUME NEW u \in UploadIDs, uploads[u] = NoSlot, FitsPurpose(thread[t].size),
               uploads' = [uploads EXCEPT ![u] = NewSlot(c)],
               thread' = [thread EXCEPT ![t].pc = "upload", ![t].upload = u]
        PROVE  UploadInv'
    <3>1. PICK w : w = [thread[t] EXCEPT !.pc = "upload", !.upload = u]
      OBVIOUS
    <3>2. /\ thread' = [thread EXCEPT ![t] = w]
          /\ w.pc = "upload" /\ w.size = thread[t].size /\ w.c = c /\ w.upload = u
      BY <1>0, <1>c, <2>4, <3>1 DEF ThreadStates
    <3>3. thread[t].size \in Sizes /\ WithinCommandLimit(kind[c], thread[t].size)
      BY <1>0, <1>6, <1>c DEF Checked, Generated, RequestArtifactUpload
    <3>4. Kept /\ uploads'[u].c = c /\ uploads'[u].status # "none"
      BY <2>3, <2>4
    <3>5. Checked(w)'
      BY <1>0, <2>4, <3>2, <3>3, <3>4 DEF Checked, WithSlot, Generated
    <3> QED BY <1>0, <2>1, <3>2, <3>4, <3>5, StoredStays, UploadMoves
  <2>5. CASE \E u \in UploadIDs :
               uploads[u] = NoSlot /\ uploads' = [uploads EXCEPT ![u] = NewSlot(c)] /\ GiveUp(t)
    BY <1>2, <2>1, <2>3, <2>5
  <2>6. CASE GiveUp(t) /\ UNCHANGED uploads
    BY <1>0, <1>2, <2>1, <2>6, KeptStays
  <2> QED BY <1>6, <1>c, <2>4, <2>5, <2>6 DEF RequestArtifactUpload
<1>7. CASE UploadArtifact(t)
  <2>1. UNCHANGED uploads
    BY <1>7 DEF UploadArtifact
  <2>2. CASE Goto(t, "fail") /\ UNCHANGED stored
    BY <1>1, <2>1, <2>2 DEF Generated
  <2>3. CASE Put(t) /\ (Goto(t, "complete") \/ Goto(t, "fail"))
    <3>1. PICK u \in UploadIDs, size \in Sizes :
            /\ u = thread[t].upload /\ size = thread[t].size
            /\ FitsPurpose(size) /\ WithinCommandLimit(kind[c], size)
            /\ uploads[u].c = c /\ uploads[u].status # "none"
      BY <1>0, <1>7, <1>c DEF UploadArtifact, Checked, WithSlot, Generated
    <3>2. /\ stored'[u] = size /\ size # None
          /\ \A v \in UploadIDs : v # u => stored'[v] = stored[v]
      BY <1>0, <2>3, <3>1, DeliveryAssumption DEF Put, DeliveryTypeOK
    <3>3. Kept
      BY <1>0, <2>1, <3>2 DEF Kept
    <3>4. StoredFits(u)'
      BY <1>0, <2>1, <3>1, <3>2 DEF StoredFits
    <3>5. \A v \in UploadIDs : StoredFits(v)'
      BY <3>2, <3>3, <3>4, StoredStays
    <3>6. PICK pc \in {"complete", "fail"} : Goto(t, pc)
      BY <2>3
    <3>7. PICK w : w = [thread[t] EXCEPT !.pc = pc]
      OBVIOUS
    <3>8. /\ thread' = [thread EXCEPT ![t] = w]
          /\ w.pc = pc /\ w.size = size /\ w.c = c /\ w.upload = u
      BY <1>0, <1>c, <3>1, <3>6, <3>7 DEF Goto, ThreadStates
    <3>9. Checked(w)'
      BY <1>0, <2>1, <3>1, <3>2, <3>8 DEF Checked, WithSlot, Generated
    <3> QED BY <1>0, <3>3, <3>5, <3>8, <3>9, UploadMoves
  <2> QED BY <1>7, <2>2, <2>3 DEF UploadArtifact
<1>8. CASE CompleteArtifactUpload(t)
  <2>1. UNCHANGED stored
    BY <1>8 DEF CompleteArtifactUpload
  <2>2. PICK u \in UploadIDs :
          /\ u = thread[t].upload
          /\ FitsPurpose(thread[t].size) /\ WithinCommandLimit(kind[c], thread[t].size)
          /\ thread[t].size \in Sizes
          /\ uploads[u].c = c /\ stored[u] # None
    BY <1>0, <1>8, <1>c DEF CompleteArtifactUpload, Checked, WithSlot, Generated
  <2> DEFINE marked == [uploads EXCEPT ![u] = [uploads[u] EXCEPT !.status = "uploaded"]]
  <2>3. ASSUME uploads' = marked
        PROVE  Kept /\ uploads'[u].c = c /\ uploads'[u].status = "uploaded"
    <3>1. /\ uploads'[u].c = c /\ uploads'[u].status = "uploaded"
          /\ \A v \in UploadIDs : v # u => uploads'[v] = uploads[v]
      BY <1>0, <2>2, <2>3 DEF DeliveryTypeOK, Slots
    <3> QED BY <1>0, <2>1, <2>2, <3>1 DEF Kept
  <2>4. CASE uploads' = marked /\ Goto(t, "succeed")
    <3>1. PICK w : w = [thread[t] EXCEPT !.pc = "succeed"]
      OBVIOUS
    <3>2. /\ thread' = [thread EXCEPT ![t] = w]
          /\ w.pc = "succeed" /\ w.size = thread[t].size /\ w.c = c /\ w.upload = u
      BY <1>0, <1>c, <2>2, <2>4, <3>1 DEF Goto, ThreadStates
    <3>3. Checked(w)'
      BY <1>0, <2>1, <2>2, <2>3, <2>4, <3>2 DEF Checked, WithSlot, Generated
    <3> QED BY <1>0, <2>1, <2>3, <2>4, <3>2, <3>3, StoredStays, UploadMoves
  <2>5. CASE uploads' \in {uploads, marked} /\ GiveUp(t)
    BY <1>0, <1>2, <2>1, <2>3, <2>5, KeptStays
  <2> QED BY <1>8, <2>2, <2>4, <2>5 DEF CompleteArtifactUpload
<1> QED BY <1>3, <1>4, <1>5, <1>6, <1>7, <1>8 DEF AgentAlone

\* A success is reported only by a thread whose upload is marked and in the store.
LEMMA CallUpload ==
  ASSUME CommandsInv, BaseInv, UploadInv, NEW t \in Threads, NEW h \in Handlers, CallService(t, h)
  PROVE  UploadInv'
<1>0. /\ DeliveryTypeOK /\ hs \in [Handlers -> HandlerStates]
      /\ origin \in [Handlers -> Origins] /\ Checked(thread[t])
  BY DEF BaseInv, DeliveryTypeOK, CommandsInv, TypeOK, UploadInv
<1>1. PICK c \in Commands, op \in {"ack_accepted", "ack_rejected", "succeeded", "failed"} :
           /\ c = thread[t].c /\ thread[t].pc \in DOMAIN CallOf
           /\ op = "succeeded" <=> thread[t].pc = "succeed"
           /\ hs' = [hs EXCEPT ![h] = [pc |-> "loaded", cmd |-> c, row |-> db[c], by |-> "none"]]
           /\ UNCHANGED <<results, kind, storeVars>>
           /\ \/ /\ thread' = [thread EXCEPT ![t] = [thread[t] EXCEPT !.pc = "waiting"]]
                 /\ origin' = [origin EXCEPT ![h] = [op |-> op, t |-> t]]
              \/ /\ thread' = [thread EXCEPT ![t] = NoNotice]
                 /\ origin' = [origin EXCEPT ![h] = [op |-> op, t |-> None]]
  BY CallFacts
<1>2. UNCHANGED <<kind, uploads, stored>> /\ Kept
  BY <1>1, KeptStays DEF storeVars
<1>3. \A u \in Threads : thread'[u] = thread[u] \/ thread'[u].pc \notin Generated
  <2>1. CASE thread' = [thread EXCEPT ![t] = [thread[t] EXCEPT !.pc = "waiting"]]
    BY <1>0, <2>1, GotoThreads DEF Goto, Generated
  <2> QED BY <1>0, <1>1, <2>1, NoNoticeThreads
<1>4. /\ hs'[h].pc = "loaded" /\ hs'[h].cmd = c /\ origin'[h].op = op
      /\ \A g \in Handlers : g # h => hs'[g] = hs[g] /\ origin'[g] = origin[g]
  BY <1>0, <1>1
<1>5. ASSUME NEW g \in Handlers, ReportsSuccess(g)' PROVE HasUpload(hs[g].cmd)'
  <2>1. CASE g = h
    <3>1. thread[t].pc = "succeed"
      BY <1>1, <1>4, <1>5, <2>1 DEF ReportsSuccess
    <3>2. HasUpload(c)
      BY <1>0, <1>1, <3>1 DEF Checked, WithSlot, HasUpload
    <3>3. HasUpload(c)'
      BY <1>2, <3>2, HasUploadStays
    <3> QED BY <1>4, <2>1, <3>3 DEF HasUpload
  <2>2. CASE g # h
    <3>1. PICK d : d = hs[g].cmd /\ hs'[g].cmd = d
      BY <1>4, <2>2
    <3>2. HasUpload(d)
      BY <1>4, <1>5, <2>2, <3>1 DEF ReportsSuccess, UploadInv
    <3>3. HasUpload(d)'
      BY <1>2, <3>2, HasUploadStays
    <3> QED BY <3>1, <3>3 DEF HasUpload
  <2> QED BY <2>1, <2>2
<1>6. ASSUME NEW d \in Commands, results'[d].status = "succeeded" PROVE HasUpload(d)'
  BY <1>1, <1>2, <1>6, HasUploadStays DEF UploadInv
<1>7. \A u \in Threads : Checked(thread[u])'
  BY <1>2, <1>3, CheckedThreads
<1>8. \A u \in UploadIDs : StoredFits(u)'
  BY <1>2, StoredStays
<1> QED BY <1>5, <1>6, <1>7, <1>8 DEF UploadInv

\* A result is inserted only by a request that reports it.
LEMMA InsertUpload ==
  ASSUME CommandsInv, BaseInv, UploadInv, NEW h \in Handlers, InsertForRequest(h)
  PROVE  UploadInv'
<1>0. /\ hs \in [Handlers -> HandlerStates] /\ results \in [Commands -> Results]
  BY DEF CommandsInv, TypeOK
<1>1. /\ UNCHANGED <<thread, origin, kind, uploads, stored>> /\ hs[h].pc = "record"
      /\ results' = [results EXCEPT ![hs[h].cmd] = [status |-> hs[h].row.status, by |-> hs[h].by]]
      /\ hs' = [hs EXCEPT ![h] = [hs[h] EXCEPT !.pc = "save"]]
  BY DEF InsertForRequest, InsertResult, deliveryVars, storeVars
<1>2. PICK c \in Commands : c = hs[h].cmd
  BY <1>1 DEF CommandsInv, RequestsInv, CopyIsOfStoredRow
<1>3. Kept
  BY <1>1, KeptStays
<1>4. /\ hs'[h].pc = "save" /\ hs'[h].cmd = c
      /\ \A g \in Handlers : g # h => hs'[g] = hs[g]
  BY <1>0, <1>1, <1>2 DEF HandlerStates
<1>5. ASSUME NEW g \in Handlers, ReportsSuccess(g)' PROVE HasUpload(hs[g].cmd)'
  <2>1. PICK d : d = hs[g].cmd /\ hs'[g].cmd = d
    BY <1>2, <1>4
  <2>2. ReportsSuccess(g)
    BY <1>1, <1>4, <1>5 DEF ReportsSuccess
  <2>3. HasUpload(d)
    BY <2>1, <2>2 DEF UploadInv
  <2>4. HasUpload(d)'
    BY <1>3, <2>3, HasUploadStays
  <2> QED BY <2>1, <2>4 DEF HasUpload
<1>6. ASSUME NEW d \in Commands, results'[d].status = "succeeded" PROVE HasUpload(d)'
  <2>1. CASE d # c
    <3>1. HasUpload(d)
      BY <1>0, <1>1, <1>2, <1>6, <2>1 DEF UploadInv
    <3> QED BY <1>3, <3>1, HasUploadStays
  <2>2. CASE d = c
    <3>1. hs[h].row.status = "succeeded"
      BY <1>0, <1>1, <1>2, <1>6, <2>2
    <3>2. HasUpload(c)
      BY <1>1, <1>2, <3>1 DEF UploadInv, ReportsSuccess
    <3> QED BY <1>3, <2>2, <3>2, HasUploadStays
  <2> QED BY <2>1, <2>2
<1>7. \A u \in Threads : Checked(thread[u])'
  BY <1>1, <1>3, CheckedThreads
<1>8. \A u \in UploadIDs : StoredFits(u)'
  BY <1>1, <1>3, StoredStays
<1> QED BY <1>5, <1>6, <1>7, <1>8 DEF UploadInv

\* A request decides to record a success only for an agent that reports one.
LEMMA DecideSuccess ==
  ASSUME CommandsInv, NEW h \in Handlers, DecideForService(h) \/ DecideForAgent(h)
  PROVE  NoNewSuccess
<1>0. hs \in [Handlers -> HandlerStates] /\ hs[h].row \in Rows
  BY DEF CommandsInv, TypeOK, HandlerStates
<1>1. /\ hs'[h].cmd = hs[h].cmd /\ \A g \in Handlers : g # h => hs'[g] = hs[g]
      /\ UNCHANGED origin
  BY RequestFacts DEF RequestStep, deliveryVars
<1>2. ASSUME NEW pc, NEW row, NEW by, Proceed(h, pc, row, by)
      PROVE  /\ hs'[h].pc = pc /\ hs'[h].row = row /\ UNCHANGED results
  BY <1>0, <1>2 DEF Proceed
<1>3. ASSUME NEW s PROVE [hs[h].row EXCEPT !.status = s, !.ended = TRUE].status = s
  BY <1>0 DEF Rows
<1>4. UNCHANGED results /\ (hs'[h].pc = "record" /\ hs'[h].row.status = "succeeded" =>
                              origin[h].op = "succeeded")
  <2>1. CASE MarkSent(h) \/ ExpireMissingAck(h)
    BY <1>2, <2>1 DEF MarkSent, ExpireMissingAck
  <2>2. CASE ExpireResult(h)
    <3>1. UNCHANGED results /\ hs'[h].row.status = "timed_out"
      BY <1>2, <1>3, <2>2 DEF ExpireResult
    <3> QED BY <3>1
  <2>3. CASE Cancel(h)
    <3>1. UNCHANGED results /\ hs'[h].row.status = "canceled"
      BY <1>2, <1>3, <2>3 DEF Cancel
    <3> QED BY <3>1
  <2>4. CASE RecordAck(h, origin[h].op)
    BY <1>2, <2>4 DEF RecordAck
  <2>5. CASE RecordResult(h, origin[h].op)
    <3>1. UNCHANGED results /\ hs'[h].row.status = origin[h].op
      BY <1>2, <1>3, <2>5 DEF RecordResult
    <3> QED BY <3>1
  <2> QED BY <2>1, <2>2, <2>3, <2>4, <2>5 DEF DecideForService, DecideForAgent
<1>5. ASSUME NEW g \in Handlers, ReportsSuccess(g)'
      PROVE  ReportsSuccess(g) /\ hs'[g].cmd = hs[g].cmd
  BY <1>1, <1>4, <1>5 DEF ReportsSuccess
<1> QED BY <1>4, <1>5 DEF NoNewSuccess

LEMMA RequestUpload ==
  ASSUME CommandsInv, BaseInv, OriginInv, UploadInv, NEW h \in Handlers, RequestStep(h)
  PROVE  UploadInv'
<1>1. CASE DecideForService(h) \/ DecideForAgent(h)
  <2>1. UNCHANGED <<thread, kind, uploads, stored>>
    BY <1>1, RequestFacts DEF deliveryVars, storeVars
  <2>2. NoNewSuccess /\ Kept
    BY <1>1, <2>1, DecideSuccess, KeptStays
  <2> QED BY <2>1, <2>2, UploadQuiet
<1>2. CASE SaveForRequest(h) \/ EndRequest(h)
  <2>1. /\ UNCHANGED <<kind, uploads, stored, results>> /\ Kept
        /\ hs'[h] = Idle
        /\ \A g \in Handlers : g # h => hs'[g] = hs[g] /\ origin'[g] = origin[g]
        /\ origin'[h] = NoOrigin
    BY <1>2, EndFacts, RequestFacts, KeptStays DEF storeVars, BaseInv, DeliveryTypeOK
  <2>2. ~ ReportsSuccess(h)'
    BY <2>1, NoOriginType DEF ReportsSuccess, Idle
  <2>3. ASSUME NEW g \in Handlers, ReportsSuccess(g)'
        PROVE  ReportsSuccess(g) /\ hs'[g].cmd = hs[g].cmd
    BY <2>1, <2>2, <2>3 DEF ReportsSuccess
  <2>4. NoNewSuccess
    BY <2>1, <2>3 DEF NoNewSuccess
  <2>5. \A u \in Threads : thread'[u] = thread[u] \/ thread'[u].pc \notin Generated
    <3>1. DeliveryTypeOK
      BY DEF BaseInv
    <3>2. CASE origin[h].t = None
      BY <1>2, <3>2, EndFacts
    <3>3. CASE origin[h].t # None
      <4>1. PICK t \in Threads : t = origin[h].t
        BY <1>2, <3>3, EndFacts
      <4>2. Goto(t, "handle") \/ thread' = [thread EXCEPT ![t] = NoNotice]
        BY <1>2, <3>3, <4>1, EndFacts
      <4>3. "handle" \notin Generated
        BY DEF Generated
      <4> QED BY <3>1, <4>2, <4>3, GotoThreads, NoNoticeThreads
    <3> QED BY <3>2, <3>3
  <2> QED BY <2>1, <2>4, <2>5, UploadQuiet
<1> QED BY <1>1, <1>2, InsertUpload DEF RequestStep

LEMMA UploadStep ==
  ASSUME CommandsInv, BaseInv, OriginInv, UploadInv, [DeliveryNext]_allVars
  PROVE  UploadInv'
<1>0. DeliveryTypeOK /\ hs \in [Handlers -> HandlerStates] /\ origin \in [Handlers -> Origins]
  BY DEF BaseInv, DeliveryTypeOK, CommandsInv, TypeOK
<1>1. ASSUME NEW c \in Commands, NEW k \in Kinds, CreateCommand(c, k) PROVE UploadInv'
  <2>1. UNCHANGED <<thread, uploads, stored, hs, origin, results>> /\ db[c].status = "none"
    BY <1>1 DEF CreateCommand, Create, storeVars
  <2>2. Kept
    BY <1>0, <1>1, <2>1 DEF Kept, CreateCommand, DeliveryTypeOK
  <2> QED BY <2>1, <2>2, SuccessStays, UploadQuiet
<1>2. ASSUME UNCHANGED <<thread, kind, uploads, stored, hs, origin, results>> PROVE UploadInv'
  BY <1>2, KeptStays, SuccessStays, UploadQuiet
<1>3. ASSUME NEW c \in Commands, Publish(c) PROVE UploadInv'
  BY <1>2, <1>3 DEF Publish, vars, storeVars
<1>4. ASSUME NEW h \in Handlers, NEW c \in Commands, LoadForService(h, c) PROVE UploadInv'
  <2>1. /\ hs' = [hs EXCEPT ![h] = [pc |-> "loaded", cmd |-> c, row |-> db[c], by |-> "none"]]
        /\ UNCHANGED <<thread, kind, uploads, stored, origin, results>> /\ hs[h].pc = "idle"
    BY <1>4 DEF LoadForService, load, deliveryVars, storeVars
  <2>2. /\ hs'[h].pc = "loaded" /\ origin'[h] = NoOrigin
        /\ \A g \in Handlers : g # h => hs'[g] = hs[g]
    BY <1>0, <2>1 DEF OriginInv
  <2>3. ~ ReportsSuccess(h)'
    BY <2>2, NoOriginType DEF ReportsSuccess
  <2>4. ASSUME NEW g \in Handlers, ReportsSuccess(g)'
        PROVE  ReportsSuccess(g) /\ hs'[g].cmd = hs[g].cmd
    BY <2>1, <2>2, <2>3, <2>4 DEF ReportsSuccess
  <2>5. NoNewSuccess
    BY <2>1, <2>4 DEF NoNewSuccess
  <2> QED BY <2>1, <2>5, KeptStays, UploadQuiet
<1>5. ASSUME NEW t \in Threads, NoticeDropped(t) \/ Restart PROVE UploadInv'
  <2>1. /\ UNCHANGED <<kind, uploads, stored, hs, results>>
        /\ \A h \in Handlers : origin'[h].op = origin[h].op
        /\ \A u \in Threads : thread'[u] \in {thread[u], NoNotice}
    BY <1>5, DropFacts DEF vars, storeVars
  <2>2. NoNewSuccess
    BY <2>1 DEF NoNewSuccess, ReportsSuccess
  <2>3. \A u \in Threads : thread'[u] = thread[u] \/ thread'[u].pc \notin Generated
    BY <2>1, NoNoticeType DEF Generated
  <2> QED BY <2>1, <2>2, <2>3, KeptStays, UploadQuiet
<1>6. CASE Restart
  <2>1. PICK t \in Threads : TRUE
    BY <1>6 DEF Restart
  <2> QED BY <1>5, <1>6, <2>1
<1>7. ASSUME NEW t \in Threads, NEW n \in notices, DeliverNotice(t, n) PROVE UploadInv'
  <2>1. /\ UNCHANGED <<kind, uploads, stored, hs, origin, results>>
        /\ thread'[t].pc \in {"fetch", "reject"}
        /\ \A u \in Threads : u # t => thread'[u] = thread[u]
    BY <1>7, DeliverFacts DEF vars, storeVars
  <2>2. \A u \in Threads : thread'[u] = thread[u] \/ thread'[u].pc \notin Generated
    BY <2>1 DEF Generated
  <2> QED BY <2>1, <2>2, KeptStays, SuccessStays, UploadQuiet
<1>8. CASE TimePasses \/ UNCHANGED allVars
  BY <1>2, <1>8 DEF TimePasses, Tick, allVars, vars, deliveryVars, storeVars
<1>9. ASSUME NEW t \in Threads, AgentStep(t) PROVE UploadInv'
  BY <1>5, <1>9, AgentAloneUpload, CallUpload DEF AgentStep, AgentAlone
<1> QED BY <1>1, <1>3, <1>4, <1>6, <1>7, <1>8, <1>9, RequestUpload DEF DeliveryNext

-------------------------------------------------------------------------------
(***************************************************************************)
(* Theorems.                                                               *)
(***************************************************************************)
DeliveryInv == CopiesInv /\ BaseInv /\ OriginInv /\ UploadInv /\ AckInv

LEMMA DeliveryInvInit == DeliveryInit => DeliveryInv
<1> SUFFICES ASSUME DeliveryInit PROVE DeliveryInv
  OBVIOUS
<1>0. CopiesInv
  <2>1. Init => FreshInv /\ ForwardInv
    BY DEF Init, FreshInv, ForwardInv, Idle
  <2> QED BY <2>1, InvInit DEF DeliveryInit, CopiesInv
<1>1. DeliveryTypeOK
  <2>1. kind \in [Commands -> KindsOf(CommandTypes \union {"none"})]
    BY DEF DeliveryInit, KindsOf, NoKind
  <2>2. NoSlot \in Slots
    BY DEF NoSlot, Slots
  <2> QED BY <2>1, <2>2, NoNoticeType, NoOriginType DEF DeliveryInit, DeliveryTypeOK
<1>2. KnownInv
  BY NoNoticeType, DeliveryAssumption DEF DeliveryInit, KnownInv, NoSlot
<1>3. OriginInv
  BY NoOriginType DEF DeliveryInit, OriginInv
<1>4. UploadInv
  <2>1. \A h \in Handlers : ~ ReportsSuccess(h)
    BY NoOriginType DEF DeliveryInit, Init, Idle, ReportsSuccess
  <2>2. \A c \in Commands : results[c].status # "succeeded"
    BY DEF DeliveryInit, Init, NoResult
  <2>3. \A t \in Threads : Checked(thread[t])
    BY NoNoticeType DEF DeliveryInit, Checked, Generated, WithSlot
  <2>4. \A u \in UploadIDs : StoredFits(u)
    BY DEF DeliveryInit, StoredFits
  <2> QED BY <2>1, <2>2, <2>3, <2>4 DEF UploadInv
<1>5. AckInv
  <2>1. \A c \in Commands : runs[c] = 0
    BY DEF DeliveryInit
  <2>2. 0 <= 1
    OBVIOUS
  <2>3. \A c \in Commands : runs[c] <= 1
    BY <2>1, <2>2, Zenon
  <2> QED BY <2>1, <2>3 DEF AckInv
<1> QED BY <1>0, <1>1, <1>2, <1>3, <1>4, <1>5 DEF DeliveryInv, BaseInv

LEMMA DeliveryInvStep == DeliveryInv /\ [DeliveryNext]_allVars => DeliveryInv'
<1> SUFFICES ASSUME DeliveryInv, [DeliveryNext]_allVars PROVE DeliveryInv'
  OBVIOUS
<1>1. CommandsInv /\ FreshInv /\ ForwardInv /\ BaseInv /\ OriginInv /\ UploadInv /\ AckInv
  BY DEF DeliveryInv, CopiesInv
<1>2. [Next]_vars
  BY <1>1, IsServiceStep
<1>3. CopiesInv'
  BY <1>1, <1>2, InvStep, FreshStep, ForwardStep DEF CopiesInv
<1> QED BY <1>1, <1>3, BaseStep, OriginStep, UploadStep, AckStep DEF DeliveryInv

\* The inductive invariant of the delivery holds in every reachable state, through
\* crossing requests, restarts of the agent and calls that are lost
\* (HandleMQTTCommandNotice, HandleArtifactCommand and the command service).
THEOREM DeliveryInvariance == DeliverySpec => []DeliveryInv
BY DeliveryInvInit, DeliveryInvStep, PTL DEF DeliverySpec

\* The agent, the channel and the broker only use the command service: whatever
\* holds of every behaviour of Commands holds of the delivery as well.
THEOREM ServiceIsUsed == DeliverySpec => Spec
<1>1. DeliveryInit => Init
  BY DEF DeliveryInit
<1>2. DeliveryInv /\ [DeliveryNext]_allVars => [Next]_vars
  BY IsServiceStep DEF DeliveryInv
<1> QED BY <1>1, <1>2, DeliveryInvariance, PTL DEF DeliverySpec, Spec

\* A command is handed to its handler at most once, for any number of deliveries,
\* threads, requests and restarts, unless an outdated copy of its row was saved
\* (RecordAck).
THEOREM HandlingIsOnce == DeliverySpec => []HandledOnce
<1>1. DeliveryInv => HandledOnce
  BY DEF DeliveryInv, AckInv, HandledOnce
<1> QED BY <1>1, DeliveryInvariance, PTL

\* A command that succeeded has a marked upload and an object within both limits,
\* whatever requests crossed, whatever calls failed and whenever the agent
\* restarted (HandleArtifactCommand).
THEOREM SuccessIsStored == DeliverySpec => []SucceededIsStored
<1>1. DeliveryInv => SucceededIsStored
  <2> SUFFICES ASSUME DeliveryInv, NEW c \in Commands, results[c].status = "succeeded"
               PROVE  \E u \in UploadIDs :
                        /\ uploads[u].c = c /\ uploads[u].status = "uploaded"
                        /\ stored[u] # None /\ stored[u] <= MaxSizeBytes
                        /\ kind[c].limit # 0 => stored[u] <= kind[c].limit
    BY DEF SucceededIsStored
  <2>1. PICK u \in UploadIDs :
          uploads[u].c = c /\ uploads[u].status = "uploaded" /\ stored[u] # None
    BY DEF DeliveryInv, UploadInv, HasUpload
  <2>2. FitsPurpose(stored[u]) /\ WithinCommandLimit(kind[c], stored[u])
    BY <2>1 DEF DeliveryInv, UploadInv, StoredFits
  <2> QED BY <2>1, <2>2 DEF FitsPurpose, WithinCommandLimit
<1> QED BY <1>1, DeliveryInvariance, PTL

\* A command that was rejected or timed out is not handled later, with the same
\* exception as HandlingIsOnce (RecordAck).
THEOREM RefusedStaysRefused == DeliverySpec => RefusedIsNotHandled
<1>1. DeliveryInv /\ [DeliveryNext]_allVars =>
        [\A c \in Commands : db[c].status \in {"ack_rejected", "ack_timed_out"} =>
           runs'[c] = runs[c] \/ c \in overwritten']_allVars
  <2> SUFFICES ASSUME DeliveryInv, DeliveryNext, NEW c \in Commands,
                      db[c].status \in {"ack_rejected", "ack_timed_out"}, c \notin overwritten',
                      runs'[c] # runs[c]
               PROVE  FALSE
    OBVIOUS
  <2>0. CommandsInv /\ FreshInv /\ BaseInv /\ OriginInv /\ runs \in [Commands -> Nat]
    BY DEF DeliveryInv, CopiesInv, BaseInv, DeliveryTypeOK
  <2>1. PICK h \in Handlers :
           /\ SaveCommand(h) /\ hs[h].row.status = "ack_accepted" /\ hs[h].cmd \in Commands
           /\ runs' = [runs EXCEPT ![hs[h].cmd] = runs[hs[h].cmd] + 1]
    BY <2>0, RunsFacts
  <2>2. hs[h].cmd = c
    BY <2>0, <2>1
  <2> QED BY <2>0, <2>1, <2>2, FreshSaves
<1> QED BY <1>1, DeliveryInvariance, PTL DEF DeliverySpec, RefusedIsNotHandled

\* As long as no outdated copy is saved, the service with its deadlines, the
\* channel and the agent together implement CommandLifecycle, through crossing
\* requests, restarts, repeated notices and lost calls.
THEOREM DeliveryRefinement ==
  DeliverySpec /\ [](overwritten = {}) => ImplementsLifecycle
BY ServiceIsUsed, Refinement, PTL
===============================================================================
