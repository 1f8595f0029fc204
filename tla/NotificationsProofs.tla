-------------------------- MODULE NotificationsProofs --------------------------
(***************************************************************************)
(* Proofs about the recipients and the e-mail outbox, for any number of    *)
(* recipients, alerts, requests and workers.                               *)
(*                                                                         *)
(* The argument: a key is sent only by the worker that holds it in its     *)
(* batch, batches are disjoint sets of claimed attempts, and only a        *)
(* pending attempt is claimed.  An attempt that leaves a batch is decided, *)
(* or stranded and still claimed, and neither is ever pending again.       *)
(***************************************************************************)
EXTENDS Notifications, TLAPS

-------------------------------------------------------------------------------
(***************************************************************************)
(* Types.                                                                  *)
(***************************************************************************)

\* A row that is written is a row, whoever holds a copy of it (Write).
LEMMA WriteType ==
  ASSUME TypeOK, NEW r, NEW row \in Rows, NEW mgrs \in [Managers -> Changes],
         Write(r, row, mgrs)
  PROVE  TypeOK'
<1>1. recipients' \in [Recipients -> Rows]
  BY DEF TypeOK, Write
<1>2. managers' \in [Managers -> Changes]
  BY DEF Write, Changes
<1>3. dispatch' \in [Dispatchers -> Fanouts]
  <2> SUFFICES ASSUME NEW d \in Dispatchers,
                      r \in dispatch[d].listed
               PROVE  [dispatch[d] EXCEPT !.stale = @ \union {r}] \in Fanouts
    BY DEF TypeOK, Write
  <2> QED  BY DEF TypeOK, Fanouts
<1> QED  BY <1>1, <1>2, <1>3 DEF TypeOK, Write, workerVars

\* A request that loads a recipient holds a row (GetRecipient).
LEMMA LoadType ==
  ASSUME TypeOK, NEW m \in Managers, NEW r \in Recipients, NEW row \in Rows, Load(m, r, row)
  PROVE  TypeOK'
<1>1. managers' \in [Managers -> Changes]
  BY DEF TypeOK, Load, Changes
<1>2. changes' \in 0..MaxChanges
  BY NotificationsAssumption DEF TypeOK, Load
<1> QED  BY <1>1, <1>2 DEF TypeOK, Load, workerVars, dispatchVars

\* Subscriptions that were normalized are known families.
LEMMA NormalType ==
  ASSUME NEW f PROVE NormalizeSubscriptions(f) \in SUBSET Families
BY DEF NormalizeSubscriptions

\* A dispatcher that is done with a recipient keeps its type (EnqueueAlertEmail).
LEMMA NextListedType ==
  ASSUME TypeOK, NEW d \in Dispatchers, NextListed(d)
  PROVE  dispatch' \in [Dispatchers -> Fanouts]
<1>1. NoFanout \in Fanouts
  BY DEF NoFanout, Fanouts
<1>2. dispatch[d] \in Fanouts
  BY DEF TypeOK
<1>3. [dispatch[d] EXCEPT !.listed = dispatch[d].listed \ {dispatch[d].id}, !.id = None]
        \in Fanouts
  BY <1>2 DEF Fanouts
<1>4. PICK f : f = IF dispatch[d].listed = {dispatch[d].id} THEN NoFanout
                   ELSE [dispatch[d] EXCEPT !.listed = dispatch[d].listed \ {dispatch[d].id},
                                            !.id = None]
  OBVIOUS
<1>5. f \in Fanouts
  BY <1>1, <1>3, <1>4
<1>6. dispatch' = [dispatch EXCEPT ![d] = f]
  BY <1>4 DEF NextListed
<1> QED  BY <1>5, <1>6 DEF TypeOK

\* A row with a status and subscriptions of their types is a row (UpdateRecipient).
LEMMA UpdatedType ==
  ASSUME NEW row \in Rows, NEW s \in StatusRequests, NEW f
  PROVE  Updated(row, s, f) \in Rows
<1>1. PICK t : t = IF s = "" THEN row.status ELSE s
  OBVIOUS
<1>2. PICK u : u = IF f = {} THEN row.subs ELSE NormalizeSubscriptions(f)
  OBVIOUS
<1>3. Updated(row, s, f) = [row EXCEPT !.status = t, !.subs = u]
  BY <1>1, <1>2 DEF Updated
<1>4. t \in {"none", "pending_verification", "verified", "disabled", "deleted"}
  BY <1>1 DEF StatusRequests, Rows
<1>5. u \in SUBSET Families
  BY <1>2, NormalType DEF Rows
<1> QED  BY <1>3, <1>4, <1>5, Zenon DEF Rows

\* The row that marks a recipient deleted is a row (DeleteRecipient).
LEMMA DeletedType ==
  ASSUME NEW row \in Rows
  PROVE  [row EXCEPT !.status = "deleted", !.deleted = TRUE] \in Rows
BY Zenon DEF Rows

\* A dispatcher that takes a listed recipient in hand keeps its type.
LEMMA TakenType ==
  ASSUME NEW f \in Fanouts, NEW r \in Recipients, NEW t \in {"pending", "suppressed"}
  PROVE  [f EXCEPT !.id = r, !.status = t] \in Fanouts
BY DEF Fanouts

\* The loop over a batch keeps the workers' types (ProcessPending).
LEMMA NextClaimedType ==
  ASSUME TypeOK, NEW w \in Workers, NextClaimed(w),
         attempts' \in [Keys -> AttemptStatuses], stranded' \subseteq Keys
  PROVE  TypeOK'
BY DEF TypeOK, NextClaimed, recipientVars, dispatchVars

\* Every step keeps the types; an attempt that is saved or stranded is one of a
\* batch.
LEMMA TypeStep ==
  ASSUME TypeOK, InHand, [Next]_vars
  PROVE  TypeOK'
<1>1. CASE UNCHANGED vars
  BY <1>1 DEF TypeOK, vars, recipientVars, dispatchVars, workerVars
<1>2. ASSUME NEW r \in Recipients, NEW own \in BOOLEAN, NEW f \in FamilyRequests,
             CreateRecipient(r, own, f)
      PROVE  TypeOK'
  <2> PICK row : row = [status |-> IF own THEN "verified" ELSE "pending_verification",
                        deleted |-> FALSE, subs |-> NormalizeSubscriptions(f)]
    OBVIOUS
  <2>1. row \in Rows
    BY NormalType DEF Rows
  <2>2. Write(r, row, managers)
    BY <1>2 DEF CreateRecipient
  <2> QED  BY <2>1, <2>2, WriteType DEF TypeOK
<1>3. ASSUME NEW m \in Managers, NEW r \in Recipients, NEW s \in StatusRequests,
             NEW f \in FamilyRequests, UpdateRecipient(m, r, s, f)
      PROVE  TypeOK'
  <2>1. Updated(recipients[r], s, f) \in Rows
    BY UpdatedType DEF TypeOK
  <2> QED  BY <1>3, <2>1, LoadType DEF UpdateRecipient
<1>4. ASSUME NEW m \in Managers, NEW r \in Recipients, DeleteRecipient(m, r)
      PROVE  TypeOK'
  <2>1. [recipients[r] EXCEPT !.status = "deleted", !.deleted = TRUE] \in Rows
    BY DeletedType DEF TypeOK
  <2> QED  BY <1>4, <2>1, LoadType DEF DeleteRecipient
<1>no. NoChange \in Changes
  BY DEF NoChange, Changes, NoRow, Rows
<1>5. ASSUME NEW m \in Managers, SaveRecipient(m) PROVE TypeOK'
  <2>1. managers[m].row \in Rows
    BY DEF TypeOK, Changes
  <2>2. [managers EXCEPT ![m] = NoChange] \in [Managers -> Changes]
    BY <1>no DEF TypeOK
  <2> QED  BY <1>5, <2>1, <2>2, WriteType DEF SaveRecipient
<1>6. ASSUME NEW m \in Managers, SaveRecipientFails(m) PROVE TypeOK'
  BY <1>6, <1>no DEF TypeOK, SaveRecipientFails, dispatchVars, workerVars
<1>7. ASSUME NEW d \in Dispatchers, NEW a \in Alerts, EligibleRecipients(d, a)
      PROVE  TypeOK'
  <2>1. dispatch' \in [Dispatchers -> Fanouts]
    BY <1>7 DEF TypeOK, EligibleRecipients, Fanouts, NoFanout
  <2>2. lists' \in 0..MaxLists
    BY <1>7, NotificationsAssumption DEF TypeOK, EligibleRecipients
  <2> QED  BY <1>7, <2>1, <2>2 DEF TypeOK, EligibleRecipients, recipientVars, workerVars
<1>8. ASSUME NEW d \in Dispatchers, NEW r \in Recipients, NEW s \in BOOLEAN,
             IsSuppressed(d, r, s)
      PROVE  TypeOK'
  <2> PICK t : t = IF s THEN "suppressed" ELSE "pending"
    OBVIOUS
  <2>2. dispatch' = [dispatch EXCEPT ![d] = [dispatch[d] EXCEPT !.id = r, !.status = t]]
    BY <1>8 DEF IsSuppressed
  <2>3. t \in {"pending", "suppressed"}
    OBVIOUS
  <2>1. dispatch' \in [Dispatchers -> Fanouts]
    <3>1. [dispatch[d] EXCEPT !.id = r, !.status = t] \in Fanouts
      BY <2>3, TakenType DEF TypeOK
    <3> QED  BY <2>2, <3>1 DEF TypeOK
  <2> QED  BY <1>8, <2>1 DEF TypeOK, IsSuppressed, recipientVars, workerVars
<1>9. ASSUME NEW d \in Dispatchers, CreateAttempt(d) PROVE TypeOK'
  <2>1. dispatch' \in [Dispatchers -> Fanouts]
    BY <1>9, NextListedType DEF CreateAttempt
  <2>2. dispatch[d].status \in AttemptStatuses
    BY DEF TypeOK, Fanouts, AttemptStatuses
  <2>3. attempts' \in [Keys -> AttemptStatuses]
    BY <1>9, <2>2 DEF TypeOK, CreateAttempt
  <2> QED  BY <1>9, <2>1, <2>3 DEF TypeOK, CreateAttempt, recipientVars, workerVars
<1>10. ASSUME NEW d \in Dispatchers, CreateAttemptFails(d) PROVE TypeOK'
  BY <1>10, NextListedType DEF TypeOK, CreateAttemptFails, recipientVars, workerVars
<1>11. ASSUME NEW w \in Workers, ClaimPendingAttempts(w) PROVE TypeOK'
  <2>1. PICK S \in SUBSET Claimable :
          /\ attempts' = [k \in Keys |-> IF k \in S THEN "claimed" ELSE attempts[k]]
          /\ batch' = [batch EXCEPT ![w] = S]
    BY <1>11 DEF ClaimPendingAttempts
  <2>2. S \subseteq Keys
    BY DEF Claimable
  <2>3. attempts' \in [Keys -> AttemptStatuses] /\ batch' \in [Workers -> SUBSET Keys]
    BY <2>1, <2>2 DEF TypeOK, AttemptStatuses
  <2> QED  BY <1>11, <2>3 DEF TypeOK, ClaimPendingAttempts, recipientVars, dispatchVars
<1>12. ASSUME NEW w \in Workers, NEW k \in Keys, ProcessAttempt(w, k) PROVE TypeOK'
  <2>1. outcome' \in [Workers -> {"sent", "failed"}] /\ delivered' \in [Keys -> Nat]
    BY <1>12 DEF TypeOK, ProcessAttempt, RenderFails, SendEmail
  <2> QED  BY <1>12, <2>1 DEF TypeOK, ProcessAttempt, recipientVars, dispatchVars
<1>13. ASSUME NEW w \in Workers, SaveAttempt(w) PROVE TypeOK'
  <2>1. attempts' \in [Keys -> AttemptStatuses]
    BY <1>13 DEF TypeOK, SaveAttempt, AttemptStatuses
  <2>2. stranded' \subseteq Keys
    BY <1>13 DEF TypeOK, SaveAttempt
  <2> QED  BY <1>13, <2>1, <2>2, NextClaimedType DEF SaveAttempt
<1>14. ASSUME NEW w \in Workers, SaveAttemptFails(w), cur[w] \in Keys PROVE TypeOK'
  <2>1. attempts' \in [Keys -> AttemptStatuses] /\ stranded' \subseteq Keys
    BY <1>14 DEF TypeOK, SaveAttemptFails
  <2> QED  BY <1>14, <2>1, NextClaimedType DEF SaveAttemptFails
<1>15. ASSUME NEW w \in Workers, Crash(w) PROVE TypeOK'
  BY <1>15 DEF TypeOK, Crash, recipientVars, dispatchVars
<1>16. \A w \in Workers : SaveAttemptFails(w) => cur[w] \in Keys
  BY DEF InHand, TypeOK, SaveAttemptFails
<1> QED
  BY <1>1, <1>2, <1>3, <1>4, <1>5, <1>6, <1>7, <1>8, <1>9, <1>10, <1>11, <1>12, <1>13,
     <1>14, <1>15, <1>16
  DEF Next, RecipientStep, DispatchStep, WorkerStep

-------------------------------------------------------------------------------
(***************************************************************************)
(* The inductive invariant.                                                *)
(***************************************************************************)

\* A step of a manager or a dispatcher leaves the outbox's invariant alone: at
\* most it creates an attempt (CreateAttempt).
LEMMA QuietStep ==
  ASSUME TypeOK, NotificationsInv, UNCHANGED workerVars,
         \A k \in Keys : \/ attempts'[k] = attempts[k]
                         \/ attempts[k] = "none" /\ attempts'[k] \in {"pending", "suppressed"}
  PROVE  NotificationsInv'
<1>1. AtMostOneEmail'
  BY DEF NotificationsInv, AtMostOneEmail, workerVars
<1>2. OutboxAgreesWithProvider'
  BY DEF NotificationsInv, OutboxAgreesWithProvider, workerVars
<1>3. ClaimedIsHeldOrStranded'
  BY DEF NotificationsInv, ClaimedIsHeldOrStranded, workerVars
<1>4. BatchesAreClaimed'
  BY DEF NotificationsInv, BatchesAreClaimed, workerVars, TypeOK
<1>5. InHand'
  BY DEF NotificationsInv, InHand, workerVars
<1> QED  BY <1>1, <1>2, <1>3, <1>4, <1>5 DEF NotificationsInv

\* Claimed attempts were pending, so nobody holds them and nothing was sent for
\* them (ClaimPendingAttempts).
LEMMA ClaimStep ==
  ASSUME TypeOK, NotificationsInv, NEW w \in Workers, ClaimPendingAttempts(w)
  PROVE  NotificationsInv'
<1>1. PICK S \in SUBSET Claimable :
        /\ S # {}
        /\ attempts' = [k \in Keys |-> IF k \in S THEN "claimed" ELSE attempts[k]]
        /\ batch' = [batch EXCEPT ![w] = S]
  BY DEF ClaimPendingAttempts
<1>2. \A k \in S : k \in Keys /\ attempts[k] = "pending" /\ delivered[k] = 0
  BY DEF Claimable, NotificationsInv, OutboxAgreesWithProvider
<1>3. batch[w] = {}
  BY DEF NotificationsInv, InHand, ClaimPendingAttempts
<1>4. AtMostOneEmail'
  BY DEF NotificationsInv, AtMostOneEmail, ClaimPendingAttempts
<1>5. OutboxAgreesWithProvider'
  BY <1>1 DEF NotificationsInv, OutboxAgreesWithProvider, ClaimPendingAttempts
<1>6. \A v \in Workers : \A k \in S : k \notin batch[v]
  BY <1>2 DEF NotificationsInv, BatchesAreClaimed
<1>7. \A v \in Workers : batch'[v] = IF v = w THEN S ELSE batch[v]
  BY <1>1 DEF TypeOK
<1>8. ClaimedIsHeldOrStranded'
  BY <1>1, <1>3, <1>6, <1>7
  DEF NotificationsInv, ClaimedIsHeldOrStranded, ClaimPendingAttempts
<1>9. BatchesAreClaimed'
  <2>1. \A k \in stranded : k \notin S
    BY <1>2 DEF NotificationsInv, BatchesAreClaimed
  <2> QED  BY <1>1, <1>2, <1>3, <1>6, <1>7, <2>1
           DEF NotificationsInv, BatchesAreClaimed, ClaimPendingAttempts, TypeOK
<1>10. InHand'
  <2>1. \A v \in Workers : pc'[v] = IF v = w THEN "process" ELSE pc[v]
    BY DEF ClaimPendingAttempts, TypeOK
  <2> QED  BY <1>1, <1>2, <1>7, <2>1 DEF NotificationsInv, InHand, ClaimPendingAttempts
<1> QED  BY <1>4, <1>5, <1>8, <1>9, <1>10 DEF NotificationsInv

\* The attempt that is sent is claimed, in no other batch and had no e-mail
\* before (processAttempt).
LEMMA ProcessStep ==
  ASSUME TypeOK, NotificationsInv, NEW w \in Workers, NEW k \in Keys, ProcessAttempt(w, k)
  PROVE  NotificationsInv'
<1>1. PICK o \in {"sent", "failed"} :
        /\ outcome' = [outcome EXCEPT ![w] = o]
        /\ \/ o = "failed" /\ delivered' = delivered
           \/ delivered' = [delivered EXCEPT ![k] = @ + 1]
  BY DEF ProcessAttempt, RenderFails, SendEmail
<1>2. /\ pc[w] = "process" /\ k \in batch[w]
      /\ cur' = [cur EXCEPT ![w] = k]
      /\ pc' = [pc EXCEPT ![w] = "save"]
      /\ UNCHANGED <<attempts, batch, stranded>>
  BY DEF ProcessAttempt
<1>3. attempts[k] = "claimed" /\ delivered[k] = 0
  BY <1>2 DEF NotificationsInv, BatchesAreClaimed, InHand
<1>4. \A v \in Workers \ {w} : k \notin batch[v]
  BY <1>2 DEF NotificationsInv, BatchesAreClaimed
<1>5. \A j \in Keys : j # k => delivered'[j] = delivered[j]
  BY <1>1 DEF TypeOK
<1>6. delivered'[k] \in {0, 1} /\ (o = "sent" => delivered'[k] = 1)
  BY <1>1, <1>3 DEF TypeOK
<1>7. AtMostOneEmail'
  BY <1>5, <1>6 DEF NotificationsInv, AtMostOneEmail
<1>8. OutboxAgreesWithProvider'
  BY <1>2, <1>3, <1>5 DEF NotificationsInv, OutboxAgreesWithProvider
<1>9. ClaimedIsHeldOrStranded' /\ BatchesAreClaimed'
  BY <1>2 DEF NotificationsInv, ClaimedIsHeldOrStranded, BatchesAreClaimed
<1>10. InHand'
  <2> SUFFICES ASSUME NEW v \in Workers
      PROVE  /\ (pc'[v] = "idle") = (batch'[v] = {})
             /\ pc'[v] = "save" =>
                  /\ cur'[v] \in batch'[v]
                  /\ outcome'[v] = "sent" => delivered'[cur'[v]] = 1
             /\ \A j \in batch'[v] : (pc'[v] = "save" => j # cur'[v]) => delivered'[j] = 0
    BY DEF InHand
  <2>0. batch[v] \subseteq Keys
    BY DEF TypeOK
  <2>1. CASE v = w
    <3>1. pc'[v] = "save" /\ cur'[v] = k /\ outcome'[v] = o /\ batch'[v] = batch[w]
      BY <1>1, <1>2, <2>1 DEF TypeOK
    <3>2. \A j \in batch[w] : j # k => delivered[j] = 0
      BY <1>2 DEF NotificationsInv, InHand
    <3> QED  BY <1>2, <1>5, <1>6, <2>0, <2>1, <3>1, <3>2
  <2>2. CASE v # w
    <3>1. pc'[v] = pc[v] /\ cur'[v] = cur[v] /\ outcome'[v] = outcome[v] /\ batch'[v] = batch[v]
      BY <1>1, <1>2, <2>2 DEF TypeOK
    <3>2. k \notin batch[v]
      BY <1>4, <2>2
    <3> QED  BY <1>5, <2>0, <3>1, <3>2 DEF NotificationsInv, InHand
  <2> QED  BY <2>1, <2>2
<1> QED  BY <1>7, <1>8, <1>9, <1>10 DEF NotificationsInv

\* A worker that lets attempts go out of its batch, decided or stranded, leaves
\* the others theirs (the loop of ProcessPending, and a crash).
LEMMA ReleaseStep ==
  ASSUME TypeOK, NotificationsInv, NEW w \in Workers, NEW gone \in SUBSET batch[w],
         batch' = [batch EXCEPT ![w] = batch[w] \ gone],
         pc' = [pc EXCEPT ![w] = IF batch[w] \ gone = {} THEN "idle" ELSE "process"],
         cur' = [cur EXCEPT ![w] = NoKey],
         outcome' = [outcome EXCEPT ![w] = "failed"],
         UNCHANGED delivered,
         pc[w] = "save" => cur[w] \in gone,
         \A k \in Keys \ gone : attempts'[k] = attempts[k],
         stranded' \ stranded \subseteq gone, stranded \subseteq stranded',
         \A k \in gone : \/ k \in stranded' /\ attempts'[k] = "claimed"
                         \/ /\ k \notin stranded'
                            /\ attempts'[k] \in {"sent", "failed"}
                            /\ attempts'[k] = "sent" => delivered[k] = 1
  PROVE  NotificationsInv'
<1>1. \A v \in Workers \ {w} :
        /\ batch'[v] = batch[v] /\ pc'[v] = pc[v]
        /\ cur'[v] = cur[v] /\ outcome'[v] = outcome[v]
  BY DEF TypeOK
<1>2. /\ batch'[w] = batch[w] \ gone
      /\ pc'[w] = IF batch[w] \ gone = {} THEN "idle" ELSE "process"
  BY DEF TypeOK
<1>3. gone \subseteq Keys /\ \A v \in Workers : batch[v] \subseteq Keys
  BY DEF TypeOK
<1>4. \A v \in Workers \ {w} : batch[v] \intersect gone = {}
  BY DEF NotificationsInv, BatchesAreClaimed
<1>5. AtMostOneEmail'
  BY DEF NotificationsInv, AtMostOneEmail
<1>6. OutboxAgreesWithProvider'
  BY <1>3 DEF NotificationsInv, OutboxAgreesWithProvider
<1>7. ClaimedIsHeldOrStranded'
  <2> SUFFICES ASSUME NEW k \in Keys, attempts'[k] = "claimed", k \notin stranded'
               PROVE  \E u \in Workers : k \in batch'[u] /\ \A v \in Workers \ {u} : k \notin batch'[v]
    BY DEF ClaimedIsHeldOrStranded
  <2>1. k \notin gone
    OBVIOUS
  <2>2. attempts[k] = "claimed" /\ k \notin stranded
    BY <2>1
  <2>3. PICK u \in Workers : k \in batch[u] /\ \A v \in Workers \ {u} : k \notin batch[v]
    BY <2>2 DEF NotificationsInv, ClaimedIsHeldOrStranded
  <2>4. \A v \in Workers : k \in batch'[v] <=> k \in batch[v]
    BY <1>1, <1>2, <2>1
  <2> QED  BY <2>3, <2>4
<1>8. BatchesAreClaimed'
  <2>1. \A v \in Workers : batch'[v] \subseteq batch[v] /\ batch'[v] \intersect gone = {}
    BY <1>1, <1>2, <1>4
  <2>2. \A v \in Workers : \A k \in batch'[v] : attempts'[k] = "claimed" /\ k \notin stranded'
    BY <1>3, <2>1 DEF NotificationsInv, BatchesAreClaimed
  <2>3. \A v \in Workers : \A u \in Workers \ {v} : batch'[v] \intersect batch'[u] = {}
    BY <2>1 DEF NotificationsInv, BatchesAreClaimed
  <2>4. \A k \in stranded' : attempts'[k] = "claimed"
    <3> SUFFICES ASSUME NEW k \in stranded', k \notin gone PROVE attempts'[k] = "claimed"
      OBVIOUS
    <3>1. k \in stranded
      OBVIOUS
    <3> QED  BY <3>1 DEF NotificationsInv, BatchesAreClaimed, TypeOK
  <2> QED  BY <2>2, <2>3, <2>4 DEF BatchesAreClaimed
<1>9. InHand'
  <2>1. \A k \in batch[w] \ gone : delivered[k] = 0
    BY DEF NotificationsInv, InHand
  <2> QED  BY <1>1, <1>2, <2>1 DEF NotificationsInv, InHand
<1> QED  BY <1>5, <1>6, <1>7, <1>8, <1>9 DEF NotificationsInv

\* What a worker has in hand when it stands before its save.
LEMMA SaveKnows ==
  ASSUME TypeOK, NotificationsInv, NEW w \in Workers, pc[w] = "save"
  PROVE  /\ cur[w] \in batch[w] /\ cur[w] \in Keys
         /\ attempts[cur[w]] = "claimed" /\ cur[w] \notin stranded
         /\ outcome[w] \in {"sent", "failed"}
         /\ outcome[w] = "sent" => delivered[cur[w]] = 1
BY DEF TypeOK, NotificationsInv, InHand, BatchesAreClaimed

\* Every step keeps the invariant of the outbox.
LEMMA InvStep ==
  ASSUME TypeOK, NotificationsInv, [Next]_vars
  PROVE  NotificationsInv'
<1>1. CASE UNCHANGED vars
  BY <1>1, QuietStep DEF vars, workerVars
<1>2. CASE RecipientStep
  BY <1>2, QuietStep
  DEF RecipientStep, CreateRecipient, UpdateRecipient, DeleteRecipient, SaveRecipient,
      SaveRecipientFails, Load, Write
<1>3. CASE DispatchStep
  <2>1. ASSUME NEW d \in Dispatchers, CreateAttempt(d) PROVE NotificationsInv'
    <3>1. dispatch[d].status \in {"pending", "suppressed"}
      BY DEF TypeOK, Fanouts
    <3>2. \A k \in Keys : \/ attempts'[k] = attempts[k]
                          \/ attempts[k] = "none" /\ attempts'[k] \in {"pending", "suppressed"}
      BY <2>1, <3>1 DEF CreateAttempt, TypeOK
    <3> QED  BY <2>1, <3>2, QuietStep DEF CreateAttempt
  <2> QED  BY <1>3, <2>1, QuietStep
           DEF DispatchStep, EligibleRecipients, IsSuppressed, CreateAttemptFails
<1>4. ASSUME NEW w \in Workers, SaveAttempt(w) PROVE NotificationsInv'
  <2>1. {cur[w]} \in SUBSET batch[w]
    BY <1>4, SaveKnows DEF SaveAttempt
  <2>2. /\ batch' = [batch EXCEPT ![w] = batch[w] \ {cur[w]}]
        /\ pc' = [pc EXCEPT ![w] = IF batch[w] \ {cur[w]} = {} THEN "idle" ELSE "process"]
        /\ cur' = [cur EXCEPT ![w] = NoKey]
        /\ outcome' = [outcome EXCEPT ![w] = "failed"]
        /\ UNCHANGED <<delivered, stranded>>
    BY <1>4 DEF SaveAttempt, NextClaimed
  <2>3. \A k \in Keys \ {cur[w]} : attempts'[k] = attempts[k]
    BY <1>4 DEF SaveAttempt, TypeOK
  <2>4. attempts'[cur[w]] = outcome[w]
    BY <1>4, SaveKnows DEF SaveAttempt, TypeOK
  <2>5. pc[w] = "save" /\ cur[w] \notin stranded
    BY <1>4, SaveKnows DEF SaveAttempt
  <2>6. outcome[w] \in {"sent", "failed"} /\ (outcome[w] = "sent" => delivered[cur[w]] = 1)
    BY <2>5, SaveKnows
  <2>7. \A k \in {cur[w]} : /\ k \notin stranded'
                            /\ attempts'[k] \in {"sent", "failed"}
                            /\ attempts'[k] = "sent" => delivered[k] = 1
    BY <2>2, <2>4, <2>5, <2>6
  <2>8. stranded' \ stranded \subseteq {cur[w]} /\ stranded \subseteq stranded'
    BY <2>2
  <2> QED  BY <2>1, <2>2, <2>3, <2>7, <2>8, ReleaseStep
<1>5. ASSUME NEW w \in Workers, SaveAttemptFails(w) PROVE NotificationsInv'
  <2>1. {cur[w]} \in SUBSET batch[w]
    BY <1>5, SaveKnows DEF SaveAttemptFails
  <2>2. /\ batch' = [batch EXCEPT ![w] = batch[w] \ {cur[w]}]
        /\ pc' = [pc EXCEPT ![w] = IF batch[w] \ {cur[w]} = {} THEN "idle" ELSE "process"]
        /\ cur' = [cur EXCEPT ![w] = NoKey]
        /\ outcome' = [outcome EXCEPT ![w] = "failed"]
        /\ UNCHANGED <<delivered, attempts>>
        /\ stranded' = stranded \union {cur[w]}
    BY <1>5 DEF SaveAttemptFails, NextClaimed
  <2>3. \A k \in {cur[w]} : k \in stranded' /\ attempts'[k] = "claimed"
    BY <1>5, <2>2, SaveKnows DEF SaveAttemptFails
  <2>4. stranded' \ stranded \subseteq {cur[w]} /\ stranded \subseteq stranded'
    BY <2>2
  <2> QED  BY <2>1, <2>2, <2>3, <2>4, ReleaseStep
<1>6. ASSUME NEW w \in Workers, Crash(w) PROVE NotificationsInv'
  <2>1. /\ batch' = [batch EXCEPT ![w] = batch[w] \ batch[w]]
        /\ pc' = [pc EXCEPT ![w] = IF batch[w] \ batch[w] = {} THEN "idle" ELSE "process"]
        /\ cur' = [cur EXCEPT ![w] = NoKey]
        /\ outcome' = [outcome EXCEPT ![w] = "failed"]
        /\ UNCHANGED <<delivered, attempts>>
        /\ stranded' = stranded \union batch[w]
    <3>1. batch[w] \ batch[w] = {}
      OBVIOUS
    <3> QED  BY <1>6, <3>1 DEF Crash
  <2>2. \A k \in batch[w] : attempts[k] = "claimed"
    BY DEF NotificationsInv, BatchesAreClaimed
  <2>3. pc[w] = "save" => cur[w] \in batch[w]
    BY SaveKnows
  <2> QED  BY <2>1, <2>2, <2>3, ReleaseStep
<1> QED
  BY <1>1, <1>2, <1>3, <1>4, <1>5, <1>6, ClaimStep, ProcessStep DEF Next, WorkerStep

-------------------------------------------------------------------------------
(***************************************************************************)
(* Copies of recipients.                                                   *)
(***************************************************************************)

\* A row that is written replaces one recipient's row; every other copy of it is
\* marked (SaveRecipient, CreateRecipient).
LEMMA WriteFresh ==
  ASSUME TypeOK, CopiesAreFresh, NEW r \in Recipients, NEW row \in Rows, row.status # "none",
         NEW mgrs \in [Managers -> Changes],
         \A m \in Managers : mgrs[m] = managers[m] \/ mgrs[m] = NoChange,
         Write(r, row, mgrs)
  PROVE  CopiesAreFresh'
<1>1. recipients'[r] = row /\ \A o \in Recipients \ {r} : recipients'[o] = recipients[o]
  BY DEF Write, TypeOK
<1>2. \A o \in Recipients : recipients'[o].status = "none" => ~recipients'[o].deleted
  BY <1>1 DEF CopiesAreFresh
<1>3. ASSUME NEW m \in Managers, managers'[m] # NoChange
      PROVE  /\ managers'[m].id \in Recipients /\ managers'[m].row.status # "none"
             /\ \/ managers'[m].raced
                \/ recipients'[managers'[m].id].deleted => managers'[m].row.deleted
  <2>1. CASE mgrs[m] = NoChange
    <3>1. mgrs[m].id = None
      BY <2>1 DEF NoChange
    <3>2. mgrs[m].id # r
      BY <3>1, NotificationsAssumption
    <3> QED  BY <1>3, <2>1, <3>2 DEF Write
  <2>2. CASE mgrs[m] # NoChange /\ mgrs[m].id = r
    <3>1. managers[m] # NoChange /\ mgrs[m] = managers[m]
      BY <2>2
    <3>2. managers'[m] = [managers[m] EXCEPT !.raced = TRUE]
      BY <2>2, <3>1 DEF Write
    <3>3. managers[m] \in Changes
      BY DEF TypeOK
    <3>4. /\ managers'[m].raced = TRUE /\ managers'[m].id = managers[m].id
          /\ managers'[m].row = managers[m].row
      BY <3>2, <3>3, Zenon DEF Changes
    <3> QED  BY <3>1, <3>4 DEF CopiesAreFresh
  <2>3. CASE mgrs[m] # NoChange /\ mgrs[m].id # r
    <3>1. managers[m] # NoChange /\ managers'[m] = managers[m] /\ managers[m].id # r
      BY <2>3 DEF Write
    <3> QED  BY <1>1, <3>1 DEF CopiesAreFresh
  <2> QED  BY <2>1, <2>2, <2>3
<1>4. ASSUME NEW d \in Dispatchers
      PROVE  /\ dispatch'[d].id # None => dispatch'[d].id \in dispatch'[d].listed
             /\ \A o \in dispatch'[d].listed \ dispatch'[d].stale :
                  Eligible(dispatch[d].alert, o)'
  <2>1. /\ dispatch'[d].alert = dispatch[d].alert
        /\ dispatch'[d].id = dispatch[d].id
        /\ dispatch'[d].listed = dispatch[d].listed
        /\ dispatch'[d].stale = IF r \in dispatch[d].listed THEN dispatch[d].stale \union {r}
                                                            ELSE dispatch[d].stale
    BY DEF Write, TypeOK, Fanouts
  <2>2. dispatch[d].listed \subseteq Recipients
    BY DEF TypeOK, Fanouts
  <2>3. \A o \in dispatch'[d].listed \ dispatch'[d].stale :
          o \in dispatch[d].listed \ dispatch[d].stale /\ o \in Recipients \ {r}
    BY <2>1, <2>2
  <2> QED  BY <1>1, <2>1, <2>3 DEF CopiesAreFresh, Eligible
<1> QED  BY <1>2, <1>3, <1>4 DEF CopiesAreFresh

\* A request that loads a recipient will keep its deletion (UpdateRecipient,
\* DeleteRecipient).
LEMMA LoadFresh ==
  ASSUME TypeOK, CopiesAreFresh, NEW m \in Managers, NEW r \in Recipients, NEW row \in Rows,
         row.status # "none", recipients[r].deleted => row.deleted, Load(m, r, row)
  PROVE  CopiesAreFresh'
<1>1. \A n \in Managers : managers'[n] =
        IF n = m THEN [id |-> r, row |-> row, raced |-> FALSE] ELSE managers[n]
  BY DEF Load, TypeOK
<1>2. recipients' = recipients /\ dispatch' = dispatch
  BY DEF Load, dispatchVars
<1>3. ASSUME NEW n \in Managers, managers'[n] # NoChange
      PROVE  /\ managers'[n].id \in Recipients /\ managers'[n].row.status # "none"
             /\ \/ managers'[n].raced
                \/ recipients'[managers'[n].id].deleted => managers'[n].row.deleted
  BY <1>1, <1>2, <1>3 DEF CopiesAreFresh
<1> QED  BY <1>2, <1>3 DEF CopiesAreFresh, Eligible

\* What a dispatcher does to its fan-out keeps the listed recipients eligible or
\* stale.
LEMMA FanoutFresh ==
  ASSUME TypeOK, CopiesAreFresh, UNCHANGED <<recipients, managers>>, NEW d \in Dispatchers,
         NEW f \in Fanouts, dispatch' = [dispatch EXCEPT ![d] = f],
         f.id # None => f.id \in f.listed,
         \A r \in f.listed \ f.stale : Eligible(f.alert, r)
  PROVE  CopiesAreFresh'
<1>1. \A e \in Dispatchers : dispatch'[e] = IF e = d THEN f ELSE dispatch[e]
  BY DEF TypeOK
<1> QED  BY <1>1 DEF CopiesAreFresh, Eligible

\* A step of a worker does not touch recipients or their copies.
LEMMA WorkerFresh ==
  ASSUME CopiesAreFresh, UNCHANGED <<recipients, managers, dispatch>>
  PROVE  CopiesAreFresh'
BY DEF CopiesAreFresh, Eligible

\* The fan-out after the recipient in hand is still one of fresh copies.
LEMMA NextListedFresh ==
  ASSUME TypeOK, CopiesAreFresh, UNCHANGED <<recipients, managers>>, NEW d \in Dispatchers,
         NextListed(d)
  PROVE  CopiesAreFresh'
<1>1. CASE dispatch[d].listed = {dispatch[d].id}
  <2>1. dispatch' = [dispatch EXCEPT ![d] = NoFanout]
    BY <1>1 DEF NextListed
  <2>2. NoFanout \in Fanouts /\ NoFanout.id = None /\ NoFanout.listed = {}
    BY DEF NoFanout, Fanouts
  <2> QED  BY <2>1, <2>2, FanoutFresh
<1>2. CASE dispatch[d].listed # {dispatch[d].id}
  <2>1. PICK f : f = [dispatch[d] EXCEPT !.listed = dispatch[d].listed \ {dispatch[d].id},
                                         !.id = None]
    OBVIOUS
  <2>2. dispatch' = [dispatch EXCEPT ![d] = f]
    BY <1>2, <2>1 DEF NextListed
  <2>3. dispatch[d] \in Fanouts
    BY DEF TypeOK
  <2>4. /\ f \in Fanouts /\ f.id = None /\ f.alert = dispatch[d].alert
        /\ f.listed = dispatch[d].listed \ {dispatch[d].id} /\ f.stale = dispatch[d].stale
    BY <2>1, <2>3 DEF Fanouts
  <2>5. \A r \in f.listed \ f.stale : Eligible(f.alert, r)
    BY <2>4 DEF CopiesAreFresh
  <2> QED  BY <2>2, <2>4, <2>5, FanoutFresh
<1> QED  BY <1>1, <1>2

\* A created recipient has a status (CreateRecipient).
LEMMA CreatedRow ==
  ASSUME TypeOK, NEW r \in Recipients, NEW own \in BOOLEAN, NEW f, CreateRecipient(r, own, f)
  PROVE  \E row \in Rows : row.status # "none" /\ Write(r, row, managers)
<1> PICK row : row = [status |-> IF own THEN "verified" ELSE "pending_verification",
                      deleted |-> FALSE, subs |-> NormalizeSubscriptions(f)]
  OBVIOUS
<1>1. row \in Rows
  BY NormalType DEF Rows
<1>2. row.status # "none"
  OBVIOUS
<1>3. Write(r, row, managers)
  BY DEF CreateRecipient
<1> QED  BY <1>1, <1>2, <1>3

\* A row to be saved by a change is one of a recipient (SaveRecipient).
LEMMA SavedRow ==
  ASSUME TypeOK, CopiesAreFresh, NEW m \in Managers, SaveRecipient(m)
  PROVE  /\ managers[m].id \in Recipients /\ managers[m].row \in Rows
         /\ managers[m].row.status # "none"
         /\ Write(managers[m].id, managers[m].row, [managers EXCEPT ![m] = NoChange])
<1>1. managers[m].row \in Rows
  BY DEF TypeOK, Changes
<1> QED  BY <1>1 DEF SaveRecipient, CopiesAreFresh

\* Every step keeps the copies fresh or marked.
LEMMA FreshStep ==
  ASSUME TypeOK, CopiesAreFresh, [Next]_vars
  PROVE  CopiesAreFresh'
<1>1. CASE UNCHANGED vars
  BY <1>1, WorkerFresh DEF vars, recipientVars, dispatchVars
<1>2. ASSUME NEW r \in Recipients, NEW own \in BOOLEAN, NEW f \in FamilyRequests,
             CreateRecipient(r, own, f)
      PROVE  CopiesAreFresh'
  <2>1. PICK row \in Rows : row.status # "none" /\ Write(r, row, managers)
    BY <1>2, CreatedRow
  <2>2. managers \in [Managers -> Changes]
    BY DEF TypeOK
  <2> QED  BY <2>1, <2>2, WriteFresh
<1>3. ASSUME NEW m \in Managers, NEW r \in Recipients, NEW s \in StatusRequests,
             NEW f \in FamilyRequests, UpdateRecipient(m, r, s, f)
      PROVE  CopiesAreFresh'
  <2>0. recipients[r] \in Rows
    BY DEF TypeOK
  <2>1. Updated(recipients[r], s, f) \in Rows
    BY <2>0, UpdatedType
  <2>2. Load(m, r, Updated(recipients[r], s, f)) /\ recipients[r].status # "none"
    BY <1>3 DEF UpdateRecipient, Load
  <2>3. Updated(recipients[r], s, f).status # "none"
    BY <2>0, <2>2 DEF Updated, Rows, StatusRequests
  <2>4. Updated(recipients[r], s, f).deleted = recipients[r].deleted
    BY <2>0, Zenon DEF Updated, Rows
  <2> QED  BY <2>1, <2>2, <2>3, <2>4, LoadFresh
<1>4. ASSUME NEW m \in Managers, NEW r \in Recipients, DeleteRecipient(m, r)
      PROVE  CopiesAreFresh'
  <2>0. recipients[r] \in Rows
    BY DEF TypeOK
  <2> PICK row : row = [recipients[r] EXCEPT !.status = "deleted", !.deleted = TRUE]
    OBVIOUS
  <2>1. row \in Rows
    BY <2>0, DeletedType
  <2>2. row.status = "deleted" /\ row.deleted = TRUE
    BY <2>0, Zenon DEF Rows
  <2>3. Load(m, r, row)
    BY <1>4 DEF DeleteRecipient
  <2> QED  BY <2>1, <2>2, <2>3, LoadFresh
<1>no. NoChange \in Changes
  BY DEF NoChange, Changes, NoRow, Rows
<1>5. ASSUME NEW m \in Managers, SaveRecipient(m) PROVE CopiesAreFresh'
  <2>1. [managers EXCEPT ![m] = NoChange] \in [Managers -> Changes]
    BY <1>no DEF TypeOK
  <2>2. \A n \in Managers : \/ [managers EXCEPT ![m] = NoChange][n] = managers[n]
                            \/ [managers EXCEPT ![m] = NoChange][n] = NoChange
    BY DEF TypeOK
  <2> QED  BY <1>5, <2>1, <2>2, SavedRow, WriteFresh
<1>6. ASSUME NEW m \in Managers, SaveRecipientFails(m) PROVE CopiesAreFresh'
  <2>1. \A n \in Managers : managers'[n] = IF n = m THEN NoChange ELSE managers[n]
    BY <1>6 DEF SaveRecipientFails, TypeOK
  <2> QED  BY <1>6, <2>1 DEF CopiesAreFresh, Eligible, SaveRecipientFails, dispatchVars
<1>7. ASSUME NEW d \in Dispatchers, NEW a \in Alerts, EligibleRecipients(d, a)
      PROVE  CopiesAreFresh'
  <2> PICK f : f = [NoFanout EXCEPT !.alert = a, !.listed = {r \in Recipients : Eligible(a, r)}]
    OBVIOUS
  <2>1. /\ f \in Fanouts /\ f.id = None /\ f.alert = a
        /\ f.listed = {r \in Recipients : Eligible(a, r)}
    BY DEF Fanouts, NoFanout
  <2>2. dispatch' = [dispatch EXCEPT ![d] = f]
    BY <1>7 DEF EligibleRecipients
  <2> QED  BY <1>7, <2>1, <2>2, FanoutFresh DEF EligibleRecipients, recipientVars
<1>8. ASSUME NEW d \in Dispatchers, NEW r \in Recipients, NEW s \in BOOLEAN,
             IsSuppressed(d, r, s)
      PROVE  CopiesAreFresh'
  <2> PICK t \in {"pending", "suppressed"} :
        dispatch' = [dispatch EXCEPT ![d] = [dispatch[d] EXCEPT !.id = r, !.status = t]]
    BY <1>8 DEF IsSuppressed
  <2> PICK f : f = [dispatch[d] EXCEPT !.id = r, !.status = t]
    OBVIOUS
  <2>1. dispatch[d] \in Fanouts
    BY DEF TypeOK
  <2>2. /\ f \in Fanouts /\ f.id = r /\ f.alert = dispatch[d].alert
        /\ f.listed = dispatch[d].listed /\ f.stale = dispatch[d].stale
    BY <2>1 DEF Fanouts
  <2>3. f.id \in f.listed /\ \A o \in f.listed \ f.stale : Eligible(f.alert, o)
    BY <1>8, <2>2 DEF CopiesAreFresh, IsSuppressed
  <2> QED  BY <1>8, <2>2, <2>3, FanoutFresh DEF IsSuppressed, recipientVars
<1>9. ASSUME NEW d \in Dispatchers, CreateAttempt(d) \/ CreateAttemptFails(d)
      PROVE  CopiesAreFresh'
  BY <1>9, NextListedFresh DEF CreateAttempt, CreateAttemptFails, recipientVars
<1>10. ASSUME NEW w \in Workers, ClaimPendingAttempts(w) \/ WorkerStep(w) \/ Crash(w)
       PROVE  CopiesAreFresh'
  BY <1>10, WorkerFresh
  DEF ClaimPendingAttempts, WorkerStep, ProcessAttempt, SaveAttempt, SaveAttemptFails,
      NextClaimed, Crash, recipientVars, dispatchVars
<1> QED
  BY <1>1, <1>2, <1>3, <1>4, <1>5, <1>6, <1>7, <1>8, <1>9, <1>10
  DEF Next, RecipientStep, DispatchStep

-------------------------------------------------------------------------------
(***************************************************************************)
(* Theorems.                                                               *)
(***************************************************************************)

\* What is known of every state: types, outbox, copies of recipients.
Known == TypeOK /\ NotificationsInv /\ CopiesAreFresh

\* The tables start empty.
LEMMA InitInv == Init => Known
<1> SUFFICES ASSUME Init PROVE Known
  OBVIOUS
<1>1. NoRow \in Rows
  BY DEF NoRow, Rows
<1>2. NoChange \in Changes
  BY <1>1 DEF NoChange, Changes
<1>3. NoFanout \in Fanouts
  BY DEF NoFanout, Fanouts
<1>4. TypeOK
  BY <1>1, <1>2, <1>3, NotificationsAssumption DEF Init, TypeOK, AttemptStatuses
<1>5. NotificationsInv
  BY DEF Init, NotificationsInv, AtMostOneEmail, OutboxAgreesWithProvider,
         ClaimedIsHeldOrStranded, BatchesAreClaimed, InHand
<1>6. CopiesAreFresh
  BY DEF Init, CopiesAreFresh, NoRow, NoFanout
<1> QED  BY <1>4, <1>5, <1>6 DEF Known

\* What is known holds in every state (EnqueueAlertEmail, ProcessPending and the
\* recipient operations).
THEOREM Invariance == Spec => []Known
<1>1. Known /\ [Next]_vars => Known'
  BY TypeStep, InvStep, FreshStep DEF Known, NotificationsInv
<1> QED  BY <1>1, InitInv, PTL DEF Spec

\* Types are kept by every operation on recipients and attempts.
THEOREM TypeCorrect == Spec => []TypeOK
<1>1. Known => TypeOK
  BY DEF Known
<1> QED  BY <1>1, Invariance, PTL

\* A recipient gets at most one e-mail about an alert, whatever fails and
\* whoever crashes (ProcessPending).
THEOREM OneEmail == Spec => []AtMostOneEmail
<1>1. Known => AtMostOneEmail
  BY DEF Known, NotificationsInv
<1> QED  BY <1>1, Invariance, PTL

\* The outbox never contradicts the provider (processAttempt).
THEOREM ProviderAgreement == Spec => []OutboxAgreesWithProvider
<1>1. Known => OutboxAgreesWithProvider
  BY DEF Known, NotificationsInv
<1> QED  BY <1>1, Invariance, PTL

\* What a step may do to the attempts: create one from the fan-out in hand,
\* claim pending ones, or decide a claimed one.
LEMMA AttemptChanges ==
  ASSUME TypeOK, NotificationsInv, [Next]_vars, NEW k \in Keys, attempts'[k] # attempts[k]
  PROVE  \/ attempts[k] = "none" /\ \E d \in Dispatchers : CreateAttempt(d)
         \/ attempts[k] \in {"pending", "claimed"}
<1>1. CASE UNCHANGED vars \/ RecipientStep
  BY <1>1
  DEF vars, RecipientStep, CreateRecipient, UpdateRecipient, DeleteRecipient, SaveRecipient,
      SaveRecipientFails, Load, Write
<1>2. CASE DispatchStep
  <2>1. PICK d \in Dispatchers : CreateAttempt(d)
    BY <1>2 DEF DispatchStep, EligibleRecipients, IsSuppressed, CreateAttemptFails
  <2>2. k = <<dispatch[d].alert, dispatch[d].id>>
    BY <2>1 DEF CreateAttempt, TypeOK
  <2> QED  BY <2>1, <2>2 DEF CreateAttempt
<1>3. ASSUME NEW w \in Workers, ClaimPendingAttempts(w) \/ WorkerStep(w) \/ Crash(w)
      PROVE  attempts[k] \in {"pending", "claimed"}
  <2>1. CASE ClaimPendingAttempts(w)
    BY <2>1 DEF ClaimPendingAttempts, Claimable
  <2>2. CASE SaveAttempt(w)
    <3>1. k = cur[w]
      BY <2>2 DEF SaveAttempt, TypeOK
    <3> QED  BY <2>2, <3>1, SaveKnows DEF SaveAttempt
  <2> QED  BY <1>3, <2>1, <2>2 DEF WorkerStep, ProcessAttempt, SaveAttemptFails, Crash
<1> QED  BY <1>1, <1>2, <1>3 DEF Next

\* An attempt that was decided or suppressed is never reopened (ProcessPending
\* claims pending attempts only, and saves only what it has claimed).
THEOREM DecisionsAreFinal == Spec => DecidedIsFinal
<1>1. Known /\ [Next]_vars =>
        [\A k \in Keys : attempts[k] \in {"sent", "failed", "suppressed"} =>
           attempts'[k] = attempts[k]]_vars
  BY AttemptChanges DEF Known
<1> QED  BY <1>1, Invariance, PTL DEF Spec, DecidedIsFinal

\* E-mail is queued only for a recipient that is still eligible, or whose row was
\* saved after it was listed (EligibleRecipients, EnqueueAlertEmail).
THEOREM QueuedAreEligible == Spec => QueuedOnlyIfEligible
<1>1. Known /\ [Next]_vars =>
        [\A a \in Alerts, r \in Recipients :
           attempts[<<a, r>>] = "none" /\ attempts'[<<a, r>>] # "none" =>
             \/ /\ recipients[r].status = "verified" /\ FamilyOf[a] \in recipients[r].subs
                /\ SiteOf[r] \in {None, AlertSite[a]}
             \/ \E d \in Dispatchers : dispatch[d].alert = a /\ r \in dispatch[d].stale]_vars
  <2> SUFFICES ASSUME Known, [Next]_vars, NEW a \in Alerts, NEW r \in Recipients,
                      attempts[<<a, r>>] = "none", attempts'[<<a, r>>] # "none"
               PROVE  \/ /\ recipients[r].status = "verified"
                         /\ FamilyOf[a] \in recipients[r].subs
                         /\ SiteOf[r] \in {None, AlertSite[a]}
                      \/ \E d \in Dispatchers :
                           dispatch[d].alert = a /\ r \in dispatch[d].stale
    OBVIOUS
  <2>1. <<a, r>> \in Keys
    BY DEF Keys
  <2>2. PICK d \in Dispatchers : CreateAttempt(d)
    BY <2>1, AttemptChanges DEF Known
  <2>3. <<a, r>> = <<dispatch[d].alert, dispatch[d].id>>
    BY <2>1, <2>2 DEF CreateAttempt, Known, TypeOK
  <2>4. dispatch[d].alert = a /\ r \in dispatch[d].listed
    BY <2>2, <2>3 DEF CreateAttempt, Known, CopiesAreFresh
  <2> QED  BY <2>4 DEF Known, CopiesAreFresh, Eligible
<1> QED  BY <1>1, Invariance, PTL DEF Spec, QueuedOnlyIfEligible

\* A deletion is only ever lost to a change that loaded the recipient before it
\* (UpdateRecipient saves the whole row it loaded).
THEOREM DeletionSurvivesAlone == Spec => UndeletedOnlyByRace
<1>1. Known /\ [Next]_vars =>
        [\A r \in Recipients : recipients[r].deleted /\ ~recipients'[r].deleted =>
           \E m \in Managers : managers[m].id = r /\ managers[m].raced]_vars
  <2> SUFFICES ASSUME Known, [Next]_vars, NEW r \in Recipients,
                      recipients[r].deleted, ~recipients'[r].deleted
               PROVE  \E m \in Managers : managers[m].id = r /\ managers[m].raced
    OBVIOUS
  <2>1. recipients' # recipients
    OBVIOUS
  <2>2. ~UNCHANGED vars /\ ~DispatchStep
    BY <2>1 DEF vars, recipientVars, DispatchStep, EligibleRecipients, IsSuppressed,
                CreateAttempt, CreateAttemptFails
  <2>3. ~\E w \in Workers : ClaimPendingAttempts(w) \/ WorkerStep(w) \/ Crash(w)
    BY <2>1 DEF ClaimPendingAttempts, WorkerStep, ProcessAttempt, SaveAttempt,
                SaveAttemptFails, NextClaimed, Crash, recipientVars
  <2>4. RecipientStep
    BY <2>2, <2>3 DEF Next
  <2>5. ASSUME NEW o \in Recipients, NEW own \in BOOLEAN, NEW f \in FamilyRequests,
               CreateRecipient(o, own, f)
        PROVE  FALSE
    <3>1. recipients[o].status = "none" /\ ~recipients[o].deleted
      BY <2>5 DEF CreateRecipient, Known, CopiesAreFresh
    <3>2. \E row \in Rows : Write(o, row, managers)
      BY <2>5, CreatedRow DEF Known
    <3>3. r # o
      BY <3>1
    <3> QED  BY <3>2, <3>3 DEF Write, Known, TypeOK
  <2>6. PICK m \in Managers : SaveRecipient(m)
    BY <2>1, <2>4, <2>5
    DEF RecipientStep, UpdateRecipient, DeleteRecipient, SaveRecipientFails, Load
  <2>7. /\ managers[m].id \in Recipients
        /\ Write(managers[m].id, managers[m].row, [managers EXCEPT ![m] = NoChange])
    BY <2>6, SavedRow DEF Known
  <2>8. managers[m].id = r /\ ~managers[m].row.deleted
    BY <2>7 DEF Write, Known, TypeOK
  <2> QED  BY <2>6, <2>8 DEF SaveRecipient, Known, CopiesAreFresh
<1> QED  BY <1>1, Invariance, PTL DEF Spec, UndeletedOnlyByRace
===============================================================================
