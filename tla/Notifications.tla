----------------------------- MODULE Notifications -----------------------------
(***************************************************************************)
(* Alert recipients and the e-mail outbox:                                 *)
(* backend/internal/domain/alerting/recipients.go and                      *)
(* backend/internal/domain/notifications/service.go over their             *)
(* repositories, the tables of backend/migrations/000012 and 000013 and    *)
(* the e-mail provider (backend/internal/platform/email/resend.go).        *)
(*                                                                         *)
(* Managers create, change and delete recipients; a change loads the row   *)
(* and saves it whole later.  For an alert, a dispatcher lists the         *)
(* eligible recipients and queues one attempt for each; workers claim      *)
(* pending attempts, send them and save the outcome.  Nothing is in one    *)
(* transaction, every call can fail, and a worker can crash anywhere.      *)
(***************************************************************************)
EXTENDS Integers, FiniteSets

CONSTANTS
  Recipients,   \* alert recipient ids
  Alerts,       \* alert ids
  Families,     \* the subscription families
  FamilyRequests,  \* sets of families a request may ask for, unknown ones included
  EmailOf,      \* the normalized address of each recipient
  SiteOf,       \* the site of each recipient, None for the whole account
  FamilyOf,     \* the subscription family of each alert, None if it has none
  AlertSite,    \* the site of each alert
  Managers,     \* recipient requests in flight at the same time
  Dispatchers,  \* alerts being fanned out at the same time
  Workers,      \* runs of ProcessPending at the same time
  BatchLimit,   \* the limit ProcessPending is called with
  MaxChanges,   \* bound: recipients loaded to be changed
  MaxLists,     \* bound: alerts fanned out
  None

ASSUME NotificationsAssumption ==
  /\ FamilyRequests \subseteq SUBSET (Families \union {None})
  /\ FamilyOf \in [Alerts -> Families \union {None}]
  /\ BatchLimit \in Nat \ {0}
  /\ MaxChanges \in Nat /\ MaxLists \in Nat
  /\ IsFiniteSet(Recipients) /\ IsFiniteSet(Alerts)
  /\ None \notin Recipients \union Families

VARIABLES
  recipients,   \* alert_recipients with their subscriptions
  managers,     \* recipient changes between load and save
  dispatch,     \* alerts being fanned out
  attempts,     \* status of the notification attempt of each idempotency key
  pc, batch, cur, outcome,  \* workers: place in the loop, claimed and not yet
                            \* done, attempt in hand and what it came to
  delivered,    \* external: e-mails the provider accepted for each key
  stranded,     \* history: attempts a crash or a failed save left claimed
  changes, lists  \* bounded counters

recipientVars == <<recipients, managers, changes>>
dispatchVars == <<dispatch, lists>>
workerVars == <<pc, batch, cur, outcome, delivered, stranded>>
vars == <<recipientVars, dispatchVars, attempts, workerVars>>

-------------------------------------------------------------------------------
(***************************************************************************)
(* Data.                                                                   *)
(***************************************************************************)

\* The idempotency key "alert:A:recipient:R", which is unique in the table.
Keys == Alerts \X Recipients

NoKey == <<None, None>>

\* A recipient row: deleted tells whether deleted_at is set.  The channel is
\* always e-mail; labels and the other times are left out.
Rows == [status : {"none", "pending_verification", "verified", "disabled", "deleted"},
         deleted : BOOLEAN, subs : SUBSET Families]

NoRow == [status |-> "none", deleted |-> FALSE, subs |-> {}]

AttemptStatuses == {"none", "pending", "claimed", "sent", "failed", "suppressed"}

\* A change in flight: the row it will save; raced is history, it tells that
\* the row was saved by somebody else since it was loaded.
Changes == [id : Recipients \union {None}, row : Rows, raced : BOOLEAN]

NoChange == [id |-> None, row |-> NoRow, raced |-> FALSE]

\* An alert being fanned out: the recipients listed and not yet done, the one
\* in hand and the status its attempt will get; stale is history, it holds
\* the listed recipients whose rows were saved since.
Fanouts == [alert : Alerts \union {None}, listed : SUBSET Recipients,
            id : Recipients \union {None}, status : {"pending", "suppressed"},
            stale : SUBSET Recipients]

NoFanout == [alert |-> None, listed |-> {}, id |-> None, status |-> "pending",
             stale |-> {}]

-------------------------------------------------------------------------------
(***************************************************************************)
(* Recipients.                                                             *)
(***************************************************************************)

\* An empty request subscribes to every family; unknown families are dropped.
NormalizeSubscriptions(families) ==
  IF families = {} THEN Families ELSE families \intersect Families

\* A recipient without any subscription is refused.
ValidateRecipient(row) == row.subs # {}

\* The unique indexes on address and site, over rows without deleted_at.
UniqueEmail(r, row) ==
  row.deleted \/ \A o \in Recipients \ {r} :
    \/ recipients[o].status = "none" \/ recipients[o].deleted
    \/ EmailOf[o] # EmailOf[r] \/ SiteOf[o] # SiteOf[r]

\* The row is written; what others hold of it is out of date.
Write(r, row, mgrs) ==
  /\ UniqueEmail(r, row)
  /\ recipients' = [recipients EXCEPT ![r] = row]
  /\ managers' = [m \in Managers |->
       IF mgrs[m].id = r THEN [mgrs[m] EXCEPT !.raced = TRUE] ELSE mgrs[m]]
  /\ dispatch' = [d \in Dispatchers |->
       IF r \in dispatch[d].listed
         THEN [dispatch[d] EXCEPT !.stale = @ \union {r}] ELSE dispatch[d]]
  /\ UNCHANGED <<changes, lists, attempts, workerVars>>

\* A new recipient is verified only if its address is the verified address of
\* the one who creates it.
CreateRecipient(r, own, families) ==
  LET row == [status |-> IF own THEN "verified" ELSE "pending_verification",
              deleted |-> FALSE, subs |-> NormalizeSubscriptions(families)]
  IN
  /\ recipients[r].status = "none"
  /\ ValidateRecipient(row)
  /\ Write(r, row, managers)

\* GetRecipient, and the row the request will save.
Load(m, r, row) ==
  /\ managers[m] = NoChange
  /\ changes < MaxChanges
  /\ recipients[r].status # "none"
  /\ managers' = [managers EXCEPT ![m] = [id |-> r, row |-> row, raced |-> FALSE]]
  /\ changes' = changes + 1
  /\ UNCHANGED <<recipients, dispatchVars, attempts, workerVars>>

\* Mutant: a status change restores the recipient.
UpdateRestoring(row, status, families) ==
  [row EXCEPT !.status = IF status = "" THEN @ ELSE status, !.deleted = FALSE,
              !.subs = IF families = {} THEN @ ELSE NormalizeSubscriptions(families)]

\* A status or subscriptions that the request does not give stay as they are;
\* deleted_at is never touched, and a deleted recipient can be changed.
Updated(row, status, families) ==
  [row EXCEPT !.status = IF status = "" THEN @ ELSE status,
              !.subs = IF families = {} THEN @ ELSE NormalizeSubscriptions(families)]

UpdateRecipient(m, r, status, families) ==
  LET row == Updated(recipients[r], status, families) IN
  /\ ValidateRecipient(row)
  /\ Load(m, r, row)

DeleteRecipient(m, r) ==
  Load(m, r, [recipients[r] EXCEPT !.status = "deleted", !.deleted = TRUE])

SaveRecipient(m) ==
  /\ managers[m] # NoChange
  /\ Write(managers[m].id, managers[m].row, [managers EXCEPT ![m] = NoChange])

\* The save fails, or the unique index refuses it.
SaveRecipientFails(m) ==
  /\ managers[m] # NoChange
  /\ managers' = [managers EXCEPT ![m] = NoChange]
  /\ UNCHANGED <<recipients, changes, dispatchVars, attempts, workerVars>>

-------------------------------------------------------------------------------
(***************************************************************************)
(* Fan-out: EligibleRecipients and EnqueueAlertEmail.                      *)
(***************************************************************************)

\* Mutant: the subscriptions of the recipient are not looked at.
EligibleWhateverFamily(a, r) ==
  /\ FamilyOf[a] # None
  /\ recipients[r].status = "verified"
  /\ SiteOf[r] \in {None, AlertSite[a]}

Eligible(a, r) ==
  /\ FamilyOf[a] # None
  /\ recipients[r].status = "verified"
  /\ SiteOf[r] \in {None, AlertSite[a]}
  /\ FamilyOf[a] \in recipients[r].subs

EligibleRecipients(d, a) ==
  LET listed == {r \in Recipients : Eligible(a, r)} IN
  /\ dispatch[d] = NoFanout
  /\ lists < MaxLists
  /\ listed # {}
  /\ dispatch' = [dispatch EXCEPT ![d] = [NoFanout EXCEPT !.alert = a, !.listed = listed]]
  /\ lists' = lists + 1
  /\ UNCHANGED <<recipientVars, attempts, workerVars>>

\* The listed copy of the recipient is verified; only the suppression is read
\* afresh, from a table that nothing in the repository writes.
IsSuppressed(d, r, suppressed) ==
  /\ r \in dispatch[d].listed
  /\ dispatch[d].id = None
  /\ dispatch' = [dispatch EXCEPT ![d] =
       [dispatch[d] EXCEPT !.id = r,
                           !.status = IF suppressed THEN "suppressed" ELSE "pending"]]
  /\ UNCHANGED <<recipientVars, lists, attempts, workerVars>>

\* The recipient in hand is done with.
NextListed(d) ==
  LET f == dispatch[d] IN
  dispatch' = [dispatch EXCEPT ![d] =
    IF f.listed = {f.id} THEN NoFanout
                         ELSE [f EXCEPT !.listed = f.listed \ {f.id}, !.id = None]]

\* The unique idempotency key refuses a second row.
CreateAttempt(d) ==
  /\ dispatch[d].id # None
  /\ attempts[<<dispatch[d].alert, dispatch[d].id>>] = "none"
  /\ attempts' = [attempts EXCEPT ![<<dispatch[d].alert, dispatch[d].id>>] = dispatch[d].status]
  /\ NextListed(d)
  /\ UNCHANGED <<recipientVars, lists, workerVars>>

\* An attempt that cannot be created, for whatever reason, is given up.
CreateAttemptFails(d) ==
  /\ dispatch[d].id # None
  /\ NextListed(d)
  /\ UNCHANGED <<recipientVars, lists, attempts, workerVars>>

-------------------------------------------------------------------------------
(***************************************************************************)
(* Outbox: ProcessPending.                                                 *)
(***************************************************************************)

\* Mutant: an attempt that another worker has claimed is claimed again.
ClaimableAlsoClaimed == {k \in Keys : attempts[k] \in {"pending", "claimed"}}

Claimable == {k \in Keys : attempts[k] = "pending"}

\* External: pending rows are claimed in one statement, up to the limit.
ClaimPendingAttempts(w) ==
  /\ pc[w] = "idle"
  /\ \E S \in SUBSET Claimable :
       /\ S # {} /\ Cardinality(S) <= BatchLimit
       /\ attempts' = [k \in Keys |-> IF k \in S THEN "claimed" ELSE attempts[k]]
       /\ batch' = [batch EXCEPT ![w] = S]
  /\ pc' = [pc EXCEPT ![w] = "process"]
  /\ UNCHANGED <<recipientVars, dispatchVars, cur, outcome, delivered, stranded>>

\* The message cannot be rendered.
RenderFails(w, k) == outcome' = [outcome EXCEPT ![w] = "failed"] /\ UNCHANGED delivered

\* The provider takes the e-mail; or it does not answer, or not with success,
\* whether it has taken the e-mail or not.
SendEmail(w, k) ==
  \E accepted \in BOOLEAN, o \in {"sent", "failed"} :
    /\ o = "sent" => accepted
    /\ outcome' = [outcome EXCEPT ![w] = o]
    /\ delivered' = IF accepted THEN [delivered EXCEPT ![k] = @ + 1] ELSE delivered

\* processAttempt up to its save.
ProcessAttempt(w, k) ==
  /\ pc[w] = "process" /\ k \in batch[w]
  /\ cur' = [cur EXCEPT ![w] = k]
  /\ RenderFails(w, k) \/ SendEmail(w, k)
  /\ pc' = [pc EXCEPT ![w] = "save"]
  /\ UNCHANGED <<recipientVars, dispatchVars, attempts, batch, stranded>>

\* Mutant: the first failure ends the loop over the batch.
NextClaimedUnlessFailed(w) ==
  LET rest == IF outcome[w] = "failed" THEN {} ELSE batch[w] \ {cur[w]} IN
  /\ batch' = [batch EXCEPT ![w] = rest]
  /\ pc' = [pc EXCEPT ![w] = IF rest = {} THEN "idle" ELSE "process"]
  /\ cur' = [cur EXCEPT ![w] = NoKey]
  /\ outcome' = [outcome EXCEPT ![w] = "failed"]
  /\ UNCHANGED <<recipientVars, dispatchVars, delivered>>

\* The loop goes on with the next claimed attempt.
NextClaimed(w) ==
  LET rest == batch[w] \ {cur[w]} IN
  /\ batch' = [batch EXCEPT ![w] = rest]
  /\ pc' = [pc EXCEPT ![w] = IF rest = {} THEN "idle" ELSE "process"]
  /\ cur' = [cur EXCEPT ![w] = NoKey]
  /\ outcome' = [outcome EXCEPT ![w] = "failed"]
  /\ UNCHANGED <<recipientVars, dispatchVars, delivered>>

\* Mutant: an attempt is saved as sent before the provider was asked.
SaveAttemptAsSent(w) ==
  /\ pc[w] = "save"
  /\ attempts' = [attempts EXCEPT ![cur[w]] = "sent"]
  /\ NextClaimed(w)
  /\ UNCHANGED stranded

SaveAttempt(w) ==
  /\ pc[w] = "save"
  /\ attempts' = [attempts EXCEPT ![cur[w]] = outcome[w]]
  /\ NextClaimed(w)
  /\ UNCHANGED stranded

\* The error of the save is only put into the copy that is returned.
SaveAttemptFails(w) ==
  /\ pc[w] = "save"
  /\ stranded' = stranded \union {cur[w]}
  /\ NextClaimed(w)
  /\ UNCHANGED attempts

\* The process ends with attempts claimed, sent or not.
Crash(w) ==
  /\ pc[w] # "idle"
  /\ stranded' = stranded \union batch[w]
  /\ batch' = [batch EXCEPT ![w] = {}]
  /\ pc' = [pc EXCEPT ![w] = "idle"]
  /\ cur' = [cur EXCEPT ![w] = NoKey]
  /\ outcome' = [outcome EXCEPT ![w] = "failed"]
  /\ UNCHANGED <<recipientVars, dispatchVars, attempts, delivered>>

-------------------------------------------------------------------------------
Init ==
  /\ recipients = [r \in Recipients |-> NoRow]
  /\ managers = [m \in Managers |-> NoChange]
  /\ dispatch = [d \in Dispatchers |-> NoFanout]
  /\ attempts = [k \in Keys |-> "none"]
  /\ pc = [w \in Workers |-> "idle"]
  /\ batch = [w \in Workers |-> {}]
  /\ cur = [w \in Workers |-> NoKey]
  /\ outcome = [w \in Workers |-> "failed"]
  /\ delivered = [k \in Keys |-> 0]
  /\ stranded = {}
  /\ changes = 0
  /\ lists = 0

\* The statuses a change of a recipient may ask for; "" for none.
StatusRequests == {"", "pending_verification", "verified", "disabled"}

RecipientStep ==
  \/ \E r \in Recipients, own \in BOOLEAN, f \in FamilyRequests : CreateRecipient(r, own, f)
  \/ \E m \in Managers, r \in Recipients, s \in StatusRequests, f \in FamilyRequests :
       UpdateRecipient(m, r, s, f)
  \/ \E m \in Managers, r \in Recipients : DeleteRecipient(m, r)
  \/ \E m \in Managers : SaveRecipient(m) \/ SaveRecipientFails(m)

DispatchStep ==
  \/ \E d \in Dispatchers, a \in Alerts : EligibleRecipients(d, a)
  \/ \E d \in Dispatchers, r \in Recipients, s \in BOOLEAN : IsSuppressed(d, r, s)
  \/ \E d \in Dispatchers : CreateAttempt(d) \/ CreateAttemptFails(d)

WorkerStep(w) ==
  \/ \E k \in Keys : ProcessAttempt(w, k)
  \/ SaveAttempt(w)
  \/ SaveAttemptFails(w)

Next ==
  \/ RecipientStep
  \/ DispatchStep
  \/ \E w \in Workers : ClaimPendingAttempts(w) \/ WorkerStep(w) \/ Crash(w)

\* A run of ProcessPending goes on with its batch unless it crashes.
Fairness == \A w \in Workers : WF_vars(WorkerStep(w))

Spec == Init /\ [][Next]_vars /\ Fairness

-------------------------------------------------------------------------------
(***************************************************************************)
(* Properties.                                                             *)
(***************************************************************************)

\* The tables, the requests in flight and the workers hold values of their types.
TypeOK ==
  /\ recipients \in [Recipients -> Rows]
  /\ managers \in [Managers -> Changes]
  /\ dispatch \in [Dispatchers -> Fanouts]
  /\ attempts \in [Keys -> AttemptStatuses]
  /\ pc \in [Workers -> {"idle", "process", "save"}]
  /\ batch \in [Workers -> SUBSET Keys]
  /\ cur \in [Workers -> Keys \union {NoKey}]
  /\ outcome \in [Workers -> {"sent", "failed"}]
  /\ delivered \in [Keys -> Nat]
  /\ stranded \subseteq Keys
  /\ changes \in 0..MaxChanges /\ lists \in 0..MaxLists

\* However often an alert is fanned out, whatever fails and whoever crashes, a
\* recipient gets at most one e-mail about an alert (EnqueueAlertEmail's
\* idempotency key and the claim in ProcessPending).
AtMostOneEmail == \A k \in Keys : delivered[k] <= 1

\* The outbox and the provider agree as far as they can: a sent attempt has had
\* its e-mail, and one that waits or was suppressed has had none.  Only a
\* claimed or failed attempt leaves it open (processAttempt).
OutboxAgreesWithProvider ==
  \A k \in Keys :
    /\ attempts[k] = "sent" => delivered[k] = 1
    /\ attempts[k] \in {"none", "pending", "suppressed"} => delivered[k] = 0

\* An attempt is claimed only while one worker, and no other, is going to
\* decide it, unless a crash or a failed save stranded it (ProcessPending's loop
\* goes over the whole batch whatever happens to one attempt).
ClaimedIsHeldOrStranded ==
  \A k \in Keys : attempts[k] = "claimed" =>
    \/ k \in stranded
    \/ \E w \in Workers : k \in batch[w] /\ \A v \in Workers \ {w} : k \notin batch[v]

\* A decided attempt (sent, failed or suppressed) is never reopened: no
\* recipient hears of an alert after it was said that nothing will be sent.
DecidedIsFinal ==
  [][\A k \in Keys : attempts[k] \in {"sent", "failed", "suppressed"} =>
       attempts'[k] = attempts[k]]_vars

\* An attempt is queued only for a recipient that is verified, subscribed and
\* of the alert's site at that moment, unless its row was saved after
\* EligibleRecipients listed it.
QueuedOnlyIfEligible ==
  [][\A a \in Alerts, r \in Recipients :
       attempts[<<a, r>>] = "none" /\ attempts'[<<a, r>>] # "none" =>
         \/ /\ recipients[r].status = "verified" /\ FamilyOf[a] \in recipients[r].subs
            /\ SiteOf[r] \in {None, AlertSite[a]}
         \/ \E d \in Dispatchers : dispatch[d].alert = a /\ r \in dispatch[d].stale]_vars

\* deleted_at is only ever cleared by a change that loaded the recipient before
\* it was deleted (UpdateRecipient and DeleteRecipient save whole rows).
UndeletedOnlyByRace ==
  [][\A r \in Recipients : recipients[r].deleted /\ ~recipients'[r].deleted =>
       \E m \in Managers : managers[m].id = r /\ managers[m].raced]_vars

\* Every claimed attempt is decided in the end, or stranded by a crash or a
\* failed save.
ClaimedIsDecided ==
  \A k \in Keys : attempts[k] = "claimed" ~>
    attempts[k] \in {"sent", "failed"} \/ k \in stranded

-------------------------------------------------------------------------------
(***************************************************************************)
(* The inductive invariant.                                                *)
(***************************************************************************)

\* Workers hold disjoint batches of attempts that are claimed and not stranded,
\* and a stranded attempt stays claimed.
BatchesAreClaimed ==
  /\ \A w \in Workers :
       /\ \A k \in batch[w] : attempts[k] = "claimed" /\ k \notin stranded
       /\ \A v \in Workers \ {w} : batch[w] \intersect batch[v] = {}
  /\ \A k \in stranded : attempts[k] = "claimed"

\* The attempt in hand is of the batch; the ones still to come were not sent.
InHand ==
  \A w \in Workers :
    /\ (pc[w] = "idle") = (batch[w] = {})
    /\ pc[w] = "save" =>
         /\ cur[w] \in batch[w]
         /\ outcome[w] = "sent" => delivered[cur[w]] = 1
    /\ \A k \in batch[w] : (pc[w] = "save" => k # cur[w]) => delivered[k] = 0

\* The inductive invariant of the outbox: a key is sent only while one worker
\* holds it claimed, and leaves that worker decided or stranded.
NotificationsInv ==
  /\ AtMostOneEmail
  /\ OutboxAgreesWithProvider
  /\ ClaimedIsHeldOrStranded
  /\ BatchesAreClaimed
  /\ InHand

\* A change in flight that was not raced keeps a deletion, and every row that is
\* written is a recipient's; a recipient that was listed and not saved since is
\* still eligible.
CopiesAreFresh ==
  /\ \A r \in Recipients : recipients[r].status = "none" => ~recipients[r].deleted
  /\ \A m \in Managers : managers[m] # NoChange =>
       LET r == managers[m].id IN
       /\ r \in Recipients /\ managers[m].row.status # "none"
       /\ managers[m].raced \/ (recipients[r].deleted => managers[m].row.deleted)
  /\ \A d \in Dispatchers :
       /\ dispatch[d].id # None => dispatch[d].id \in dispatch[d].listed
       /\ \A r \in dispatch[d].listed \ dispatch[d].stale : Eligible(dispatch[d].alert, r)
===============================================================================
