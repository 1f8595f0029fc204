---------------------------- MODULE CommandsProofs ----------------------------
(***************************************************************************)
(* Proofs about Commands, for any number of commands and of concurrent     *)
(* requests, any command types and windows.                                *)
(***************************************************************************)
EXTENDS Commands, TLAPS

\* What a request in flight must satisfy.
Justified(r) ==
  r.pc # "idle" => /\ CopyIsOfStoredRow(r)
                   /\ CopyIsJustified(r)
                   /\ IntentIsJustified(r)

\* A step that changes one request only keeps the invariant when the request
\* is justified afterwards.
LEMMA OneRequestMoves ==
  ASSUME CommandsInv, NEW h \in Handlers, NEW r \in HandlerStates,
         hs' = [hs EXCEPT ![h] = r], Justified(r),
         UNCHANGED <<clock, db, results, progress, accepted>>,
         outdated' \subseteq Handlers, overwritten' \subseteq Commands,
         unsettled' \subseteq Commands
  PROVE  CommandsInv'
<1>1. TypeOK'
  BY DEF CommandsInv, TypeOK
<1>2. RequestsInv'
  <2> SUFFICES ASSUME NEW g \in Handlers PROVE Justified(hs[g])'
    BY DEF RequestsInv, Justified
  <2>1. CASE g = h
    <3>1. hs'[g] = r
      BY <2>1 DEF CommandsInv, TypeOK
    <3> QED BY <3>1 DEF Justified, CopyIsOfStoredRow, CopyIsJustified,
                        IntentIsJustified, Stamped
  <2>2. CASE g # h
    <3>1. hs'[g] = hs[g]
      BY <2>2 DEF CommandsInv, TypeOK
    <3> QED BY <3>1 DEF CommandsInv, RequestsInv, Justified, CopyIsOfStoredRow,
                        CopyIsJustified, IntentIsJustified, Stamped
  <2> QED BY <2>1, <2>2
<1> QED BY <1>1, <1>2 DEF CommandsInv, TablesInv, TerminalMatchesResult,
             AcceptedBeforeExecution, NoEarlyExpiry, StampsMatchStatus, Stamped

\* With empty tables and no request in flight the invariant holds.
LEMMA InvInit == Init => CommandsInv
<1> SUFFICES ASSUME Init PROVE CommandsInv
  OBVIOUS
<1>1. NoRow \in Rows /\ Stamped(NoRow)
  BY DEF NoRow, Rows, Stamped, Executing, Terminal
<1>2. NoResult \in Results /\ Idle \in HandlerStates
  BY <1>1 DEF NoResult, Results, Idle, HandlerStates
<1>3. TypeOK
  BY <1>1, <1>2 DEF Init, TypeOK
<1>4. /\ \A c \in Commands : db[c] = NoRow /\ results[c] = NoResult
      /\ \A h \in Handlers : hs[h].pc = "idle"
  BY DEF Init, Idle
<1>5. /\ NoRow.status = "none"
      /\ NoResult.status = "none" /\ NoResult.by = "none"
  BY DEF NoRow, NoResult
<1> QED BY <1>1, <1>3, <1>4, <1>5 DEF Init, CommandsInv, TablesInv, RequestsInv,
             TerminalMatchesResult, AcceptedBeforeExecution, NoEarlyExpiry,
             StampsMatchStatus, Terminal

\* Create inserts a queued row under an unused id, so no copy in flight is
\* of it and nothing is recorded for it.
LEMMA CreateStep ==
  ASSUME CommandsInv, NEW c \in Commands, NEW t \in CommandTypes, Create(c, t)
  PROVE  CommandsInv'
<1> DEFINE row == [NoRow EXCEPT !.status = "queued", !.type = t,
                     !.ackDeadline = clock + Definitions[t].ack,
                     !.resultDeadline = clock + Definitions[t].result]
<1>1. /\ clock + Definitions[t].ack \in Nat
      /\ clock + Definitions[t].result \in Nat
  BY DefinitionsAssumption DEF Create, definitionFor, Windows, CommandsInv, TypeOK
<1>2. row \in Rows /\ Stamped(row) /\ row.status = "queued"
  BY <1>1 DEF NoRow, Rows, Statuses, Stamped, Executing, Terminal
<1> HIDE DEF row
<1>3. /\ db' = [db EXCEPT ![c] = row]
      /\ UNCHANGED <<clock, results, progress, accepted, hs, outdated, overwritten, unsettled>>
      /\ db[c].status = "none"
  BY DEF Create, row, history
<1>4. TypeOK'
  BY <1>2, <1>3 DEF CommandsInv, TypeOK
<1>5. \A d \in Commands : db'[d] = IF d = c THEN row ELSE db[d]
  BY <1>3 DEF CommandsInv, TypeOK
<1>6. RequestsInv'
  <2> SUFFICES ASSUME NEW g \in Handlers, hs[g].pc # "idle"
               PROVE (/\ CopyIsOfStoredRow(hs[g])
                      /\ CopyIsJustified(hs[g])
                      /\ IntentIsJustified(hs[g]))'
    BY <1>3 DEF RequestsInv
  <2>1. hs[g].cmd # c /\ hs[g].cmd \in Commands
    BY <1>3 DEF CommandsInv, RequestsInv, CopyIsOfStoredRow
  <2> QED BY <1>3, <1>5, <2>1 DEF CommandsInv, RequestsInv, CopyIsOfStoredRow,
               CopyIsJustified, IntentIsJustified, Stamped
<1>7. results[c] = NoResult
  BY <1>3 DEF CommandsInv, TablesInv
<1>8. NoResult.status = "none" /\ NoResult.by = "none"
  BY DEF NoResult
<1> QED BY <1>2, <1>3, <1>4, <1>5, <1>6, <1>7, <1>8 DEF CommandsInv, TablesInv,
             TerminalMatchesResult, AcceptedBeforeExecution, NoEarlyExpiry,
             StampsMatchStatus, Stamped, Terminal

\* load takes a fresh copy of the row, about which the table invariants speak.
LEMMA LoadStep ==
  ASSUME CommandsInv, NEW h \in Handlers, NEW c \in Commands, load(h, c)
  PROVE  CommandsInv'
<1> DEFINE r == [pc |-> "loaded", cmd |-> c, row |-> db[c], by |-> "none"]
<1>1. r \in HandlerStates
  BY DEF CommandsInv, TypeOK, HandlerStates
<1>2. Justified(r)
  BY DEF load, CommandsInv, Justified, CopyIsOfStoredRow, CopyIsJustified,
         IntentIsJustified, StampsMatchStatus, TablesInv, NoEarlyExpiry,
         AcceptedBeforeExecution, TerminalMatchesResult
<1>3. /\ outdated' \subseteq Handlers /\ overwritten' \subseteq Commands
      /\ unsettled' \subseteq Commands
  BY DEF load, history, CommandsInv, TypeOK
<1> QED BY <1>1, <1>2, <1>3, OneRequestMoves DEF load

\* A decision keeps the invariant when what the request means to do next is
\* justified.
LEMMA ProceedStep ==
  ASSUME CommandsInv, NEW h \in Handlers, NEW pc \in {"append", "record", "save"},
         NEW row \in Rows, NEW by \in {"none", "device", "deadline", "cancel"},
         Proceed(h, pc, row, by),
         CopyIsOfStoredRow(hs[h]) =>
           Justified([pc |-> pc, cmd |-> hs[h].cmd, row |-> row, by |-> by])
  PROVE  CommandsInv'
<1> DEFINE r == [pc |-> pc, cmd |-> hs[h].cmd, row |-> row, by |-> by]
<1>1. r \in HandlerStates
  BY DEF CommandsInv, TypeOK, HandlerStates
<1>2. CopyIsOfStoredRow(hs[h])
  BY DEF Proceed, CommandsInv, RequestsInv
<1>3. /\ outdated' \subseteq Handlers /\ overwritten' \subseteq Commands
      /\ unsettled' \subseteq Commands
  BY DEF Proceed, history, CommandsInv, TypeOK
<1> QED BY <1>1, <1>2, <1>3, OneRequestMoves DEF Proceed

\* The checks of the seven operations justify the row each one carries on.
LEMMA DecideStep ==
  ASSUME CommandsInv, NEW h \in Handlers, Decide(h)
  PROVE  CommandsInv'
<1> DEFINE row == hs[h].row
<1>0. row \in Rows /\ clock \in Nat
  BY DEF CommandsInv, TypeOK, HandlerStates
<1>a. hs[h].pc = "loaded"
  BY DEF Decide, MarkSent, RecordAck, ExpireMissingAck, RecordProgress,
         RecordResult, ExpireResult, Cancel, Proceed
<1>b. CopyIsOfStoredRow(hs[h]) /\ CopyIsJustified(hs[h])
  BY <1>a DEF CommandsInv, RequestsInv
<1> USE DEF Justified, CopyIsOfStoredRow, CopyIsJustified, IntentIsJustified
<1>1. CASE MarkSent(h)
  <2> DEFINE new == [row EXCEPT !.status = "sent", !.sent = TRUE,
                        !.ackDeadline = clock + Definitions[row.type].ack]
  <2>0. Definitions[row.type] \in Windows
    BY <1>1, DefinitionsAssumption DEF MarkSent, definitionFor
  <2>1. clock + Definitions[row.type].ack \in Nat
    BY <1>0, <2>0 DEF Windows
  <2>2. new \in Rows
    BY <1>0, <2>1 DEF Rows, Statuses
  <2>3. /\ new.status = "sent" /\ Stamped(new)
        /\ new.resultDeadline = row.resultDeadline
    BY <1>0, <1>1, <1>b DEF MarkSent, Rows, Stamped, Executing, Terminal
  <2>4. Justified([pc |-> "save", cmd |-> hs[h].cmd, row |-> new, by |-> "none"])
    BY <1>b, <2>3 DEF Executing, Terminal
  <2> QED BY <1>1, <2>2, <2>4, ProceedStep DEF MarkSent
<1>2. ASSUME NEW verdict \in {"ack_accepted", "ack_rejected"},
             RecordAck(h, verdict)
      PROVE  CommandsInv'
  <2> DEFINE new == [row EXCEPT !.status = verdict, !.acked = TRUE]
  <2>1. CASE clock > row.ackDeadline
    <3> DEFINE late == [row EXCEPT !.status = "ack_timed_out"]
    <3>1. late \in Rows /\ Stamped(late) /\ late.status = "ack_timed_out"
          /\ late.resultDeadline = row.resultDeadline
          /\ late.ackDeadline = row.ackDeadline
      BY <1>0, <1>2, <1>b DEF RecordAck, Rows, Statuses, Stamped, Executing,
                              Terminal
    <3>2. Justified([pc |-> "save", cmd |-> hs[h].cmd, row |-> late,
                     by |-> "none"])
      BY <1>b, <2>1, <3>1 DEF Terminal
    <3>3. row.ackDeadline \in Nat
      BY <1>0 DEF Rows
    <3>4. Proceed(h, "save", late, "none")
      BY <1>0, <1>2, <2>1, <3>3 DEF RecordAck
    <3> QED BY <3>1, <3>2, <3>4, ProceedStep
  <2>2. CASE clock <= row.ackDeadline
    <3>1. new \in Rows /\ Stamped(new) /\ new.status = verdict
          /\ new.resultDeadline = row.resultDeadline
      BY <1>0, <1>2, <1>b DEF RecordAck, Rows, Statuses, Stamped, Executing,
                              Terminal
    <3>2. Justified([pc |-> "save", cmd |-> hs[h].cmd, row |-> new,
                     by |-> "none"])
      BY <1>b, <3>1 DEF Terminal
    <3>3. row.ackDeadline \in Nat
      BY <1>0 DEF Rows
    <3>4. Proceed(h, "save", new, "none")
      BY <1>0, <1>2, <2>2, <3>3 DEF RecordAck
    <3> QED BY <3>1, <3>2, <3>4, ProceedStep
  <2> QED BY <1>0, <2>1, <2>2 DEF Rows
<1>3. CASE ExpireMissingAck(h)
  <2> DEFINE late == [row EXCEPT !.status = "ack_timed_out"]
  <2>1. late \in Rows /\ Stamped(late) /\ late.status = "ack_timed_out"
        /\ late.resultDeadline = row.resultDeadline
        /\ late.ackDeadline = row.ackDeadline
    BY <1>0, <1>3, <1>b DEF ExpireMissingAck, Rows, Statuses, Stamped,
                            Executing, Terminal
  <2>2. Justified([pc |-> "save", cmd |-> hs[h].cmd, row |-> late,
                   by |-> "none"])
    BY <1>3, <1>b, <2>1 DEF ExpireMissingAck, Terminal
  <2> QED BY <1>3, <2>1, <2>2, ProceedStep DEF ExpireMissingAck
<1>4. CASE RecordProgress(h)
  <2> DEFINE new == [row EXCEPT !.status = "running"]
  <2>1. new \in Rows /\ Stamped(new) /\ new.status = "running"
        /\ new.resultDeadline = row.resultDeadline
    BY <1>0, <1>4, <1>b DEF RecordProgress, Rows, Statuses, Stamped, Executing,
                            Terminal
  <2>2. Justified([pc |-> "append", cmd |-> hs[h].cmd, row |-> new,
                   by |-> "none"])
    BY <1>4, <1>a, <1>b, <2>1 DEF RecordProgress, Executing, Terminal
  <2> QED BY <1>4, <2>1, <2>2, ProceedStep DEF RecordProgress
<1>5. ASSUME NEW s \in Terminal, row.status \notin Terminal
      PROVE  LET new == [row EXCEPT !.status = s, !.ended = TRUE]
             IN  /\ new \in Rows /\ Stamped(new) /\ new.status = s
                 /\ new.resultDeadline = row.resultDeadline
  BY <1>0, <1>5 DEF Rows, Statuses, Stamped, Executing, Terminal
<1>6. ASSUME NEW reported \in Reports, RecordResult(h, reported)
      PROVE  CommandsInv'
  <2> DEFINE new == [row EXCEPT !.status = reported, !.ended = TRUE]
  <2>1. new \in Rows /\ Stamped(new) /\ new.status \in Terminal
        /\ new.resultDeadline = row.resultDeadline
    BY <1>5, <1>6 DEF RecordResult, Executing, Terminal
  <2>2. Justified([pc |-> "record", cmd |-> hs[h].cmd, row |-> new,
                   by |-> "device"])
    BY <1>6, <1>a, <1>b, <2>1 DEF RecordResult, Executing, Terminal
  <2> QED BY <1>6, <2>1, <2>2, ProceedStep DEF RecordResult
<1>7. CASE ExpireResult(h)
  <2> DEFINE new == [row EXCEPT !.status = "timed_out", !.ended = TRUE]
  <2>1. new \in Rows /\ Stamped(new) /\ new.status \in Terminal
        /\ new.resultDeadline = row.resultDeadline
    BY <1>5, <1>7 DEF ExpireResult, Executing, Terminal
  <2>2. Justified([pc |-> "record", cmd |-> hs[h].cmd, row |-> new,
                   by |-> "deadline"])
    BY <1>7, <1>a, <1>b, <2>1 DEF ExpireResult, Executing, Terminal
  <2> QED BY <1>7, <2>1, <2>2, ProceedStep DEF ExpireResult
<1>8. CASE Cancel(h)
  <2> DEFINE new == [row EXCEPT !.status = "canceled", !.ended = TRUE]
  <2>1. new \in Rows /\ Stamped(new) /\ new.status \in Terminal
        /\ new.resultDeadline = row.resultDeadline
    BY <1>5, <1>8 DEF Cancel, Terminal
  <2>2. Justified([pc |-> "record", cmd |-> hs[h].cmd, row |-> new,
                   by |-> "cancel"])
    BY <1>b, <2>1 DEF Terminal
  <2> QED BY <1>8, <2>1, <2>2, ProceedStep DEF Cancel
<1> QED BY <1>1, <1>2, <1>3, <1>4, <1>6, <1>7, <1>8 DEF Decide

\* AppendProgressEvent adds an event for a command accepted before.
LEMMA AppendStep ==
  ASSUME CommandsInv, NEW h \in Handlers, AppendProgressEvent(h)
  PROVE  CommandsInv'
<1> DEFINE r == [hs[h] EXCEPT !.pc = "save"]
<1>1. /\ hs[h] \in HandlerStates /\ hs[h].pc = "append"
      /\ hs[h].cmd \in Commands /\ hs[h].cmd \in accepted
      /\ hs[h].row.status = "running"
  BY DEF AppendProgressEvent, CommandsInv, TypeOK, RequestsInv,
         CopyIsOfStoredRow, CopyIsJustified, IntentIsJustified
<1>2. r \in HandlerStates
  BY <1>1 DEF HandlerStates
<1>3. TypeOK'
  BY <1>1, <1>2 DEF AppendProgressEvent, history, CommandsInv, TypeOK
<1>4. RequestsInv'
  <2> SUFFICES ASSUME NEW g \in Handlers, hs'[g].pc # "idle"
               PROVE (/\ CopyIsOfStoredRow(hs[g])
                      /\ CopyIsJustified(hs[g])
                      /\ IntentIsJustified(hs[g]))'
    BY DEF RequestsInv
  <2>1. /\ hs'[g].cmd = hs[g].cmd /\ hs'[g].row = hs[g].row
        /\ hs[g].pc # "idle"
        /\ hs'[g].pc = hs[g].pc \/ (g = h /\ hs'[g].pc = "save")
        /\ hs'[g].by = hs[g].by
    BY <1>1 DEF AppendProgressEvent, CommandsInv, TypeOK, HandlerStates
  <2> QED BY <1>1, <2>1 DEF AppendProgressEvent, CommandsInv, RequestsInv,
               CopyIsOfStoredRow, CopyIsJustified, IntentIsJustified, Stamped,
               Terminal
<1> QED BY <1>1, <1>3, <1>4 DEF AppendProgressEvent, CommandsInv, TablesInv,
             TerminalMatchesResult, AcceptedBeforeExecution, NoEarlyExpiry,
             StampsMatchStatus, Stamped

\* InsertResult records the first result of a command; other requests' copies
\* were not terminal, for there was no result to agree with.
LEMMA InsertResultStep ==
  ASSUME CommandsInv, NEW h \in Handlers, InsertResult(h)
  PROVE  CommandsInv'
<1> DEFINE c == hs[h].cmd
           res == [status |-> hs[h].row.status, by |-> hs[h].by]
<1>1. /\ hs[h] \in HandlerStates /\ hs[h].pc = "record"
      /\ c \in Commands /\ db[c].status # "none"
      /\ hs[h].row.status \in Terminal
      /\ hs[h].by \in {"device", "deadline"} => c \in accepted
      /\ hs[h].by = "deadline" => clock > db[c].resultDeadline
      /\ results[c].status = "none"
  BY DEF InsertResult, CommandsInv, TypeOK, RequestsInv,
         CopyIsOfStoredRow, CopyIsJustified, IntentIsJustified, NoResult
<1>2. [hs[h] EXCEPT !.pc = "save"] \in HandlerStates /\ res \in Results
  BY <1>1 DEF HandlerStates, Results
<1>3. /\ results' = [results EXCEPT ![c] = res]
      /\ UNCHANGED <<clock, db, progress, accepted>>
  BY DEF InsertResult
<1>4. TypeOK'
  BY <1>1, <1>2 DEF InsertResult, history, CommandsInv, TypeOK
<1>5. \A d \in Commands : results'[d] = IF d = c THEN res ELSE results[d]
  BY <1>3 DEF CommandsInv, TypeOK
<1>6. /\ res.status = hs[h].row.status /\ res.by = hs[h].by
      /\ "none" \notin Terminal
  BY DEF Terminal
<1> HIDE DEF res
<1>7. RequestsInv'
  <2> SUFFICES ASSUME NEW g \in Handlers, hs'[g].pc # "idle"
               PROVE (/\ CopyIsOfStoredRow(hs[g])
                      /\ CopyIsJustified(hs[g])
                      /\ IntentIsJustified(hs[g]))'
    BY DEF RequestsInv
  <2>1. /\ hs'[g].cmd = hs[g].cmd /\ hs'[g].row = hs[g].row
        /\ hs[g].pc # "idle"
        /\ (g # h /\ hs'[g].pc = hs[g].pc) \/ (g = h /\ hs'[g].pc = "save")
        /\ hs'[g].by = hs[g].by
    BY <1>1 DEF InsertResult, CommandsInv, TypeOK, HandlerStates
  <2>2. /\ CopyIsOfStoredRow(hs[g])
        /\ CopyIsJustified(hs[g])
        /\ IntentIsJustified(hs[g])
    BY <2>1 DEF CommandsInv, RequestsInv
  <2>3. CopyIsOfStoredRow(hs[g])'
    BY <1>3, <2>1, <2>2 DEF CopyIsOfStoredRow, Stamped
  <2>4. IntentIsJustified(hs[g])'
    BY <1>3, <2>1, <2>2 DEF IntentIsJustified
  <2>5. CopyIsJustified(hs[g])'
    BY <1>1, <1>3, <1>5, <1>6, <2>1, <2>2, <2>3
       DEF CopyIsJustified, CopyIsOfStoredRow, Terminal
  <2> QED BY <2>3, <2>4, <2>5
<1> QED BY <1>1, <1>3, <1>4, <1>5, <1>6, <1>7 DEF CommandsInv, TablesInv,
             TerminalMatchesResult, AcceptedBeforeExecution, NoEarlyExpiry,
             StampsMatchStatus, Stamped

\* SaveCommand writes back a copy that may be stale but claims only what
\* happened.
LEMMA SaveStep ==
  ASSUME CommandsInv, NEW h \in Handlers, SaveCommand(h)
  PROVE  CommandsInv'
<1> DEFINE c == hs[h].cmd
           row == hs[h].row
<1>1. /\ hs[h] \in HandlerStates /\ hs[h].pc = "save"
      /\ CopyIsOfStoredRow(hs[h]) /\ CopyIsJustified(hs[h])
  BY DEF SaveCommand, CommandsInv, TypeOK, RequestsInv
<1>2. /\ c \in Commands /\ row \in Rows
      /\ db' = [db EXCEPT ![c] = row] /\ hs' = [hs EXCEPT ![h] = Idle]
      /\ accepted' = IF row.status = "ack_accepted" THEN accepted \union {c}
                                                    ELSE accepted
      /\ UNCHANGED <<clock, results, progress>>
  BY <1>1 DEF SaveCommand, CopyIsOfStoredRow, HandlerStates
<1>3. NoRow \in Rows /\ Idle \in HandlerStates /\ Idle.pc = "idle"
  BY DEF NoRow, Rows, Idle, HandlerStates
<1>4. TypeOK'
  <2>1. /\ outdated' \subseteq Handlers /\ overwritten' \subseteq Commands
        /\ unsettled' \subseteq Commands
    BY <1>2 DEF SaveCommand, CommandsInv, TypeOK
  <2> QED BY <1>2, <1>3, <2>1 DEF CommandsInv, TypeOK
<1>5. /\ \A d \in Commands : db'[d] = IF d = c THEN row ELSE db[d]
      /\ \A g \in Handlers : hs'[g] = IF g = h THEN Idle ELSE hs[g]
  BY <1>2 DEF CommandsInv, TypeOK
<1> HIDE DEF c, row
<1>6. /\ row.status # "none" /\ Stamped(row) /\ db[c].status # "none"
      /\ row.resultDeadline = db[c].resultDeadline
      /\ row.status = "ack_timed_out" => clock > row.ackDeadline
      /\ row.status = "running" => c \in accepted
      /\ row.status \in Terminal => results[c].status = row.status
      /\ accepted \subseteq accepted'
  BY <1>1, <1>2 DEF CopyIsOfStoredRow, CopyIsJustified, c, row
<1>7. RequestsInv'
  <2> SUFFICES ASSUME NEW g \in Handlers, hs'[g].pc # "idle"
               PROVE (/\ CopyIsOfStoredRow(hs[g])
                      /\ CopyIsJustified(hs[g])
                      /\ IntentIsJustified(hs[g]))'
    BY DEF RequestsInv
  <2>1. hs'[g] = hs[g]
    BY <1>3, <1>5
  <2>2. /\ CopyIsOfStoredRow(hs[g])
        /\ CopyIsJustified(hs[g])
        /\ IntentIsJustified(hs[g])
    BY <2>1 DEF CommandsInv, RequestsInv
  <2>3. CopyIsOfStoredRow(hs[g])'
    BY <1>5, <1>6, <2>1, <2>2 DEF CopyIsOfStoredRow, Stamped
  <2>4. IntentIsJustified(hs[g])'
    BY <1>2, <1>6, <2>1, <2>2 DEF IntentIsJustified
  <2>5. CopyIsJustified(hs[g])'
    BY <1>2, <1>6, <2>1, <2>2 DEF CopyIsJustified
  <2> QED BY <2>3, <2>4, <2>5
<1>8. TablesInv'
  BY <1>2, <1>5, <1>6 DEF CommandsInv, TablesInv
<1>9. TerminalMatchesResult' /\ NoEarlyExpiry' /\ StampsMatchStatus'
  BY <1>2, <1>5, <1>6 DEF CommandsInv, TerminalMatchesResult, NoEarlyExpiry,
                          StampsMatchStatus, Stamped
<1>10. AcceptedBeforeExecution'
  BY <1>2, <1>5, <1>6 DEF CommandsInv, AcceptedBeforeExecution
<1> QED BY <1>4, <1>7, <1>8, <1>9, <1>10 DEF CommandsInv

\* A request that fails leaves everything but itself as it was.
LEMMA ReturnStep ==
  ASSUME CommandsInv, NEW h \in Handlers, Return(h)
  PROVE  CommandsInv'
<1>1. NoRow \in Rows
  BY DEF NoRow, Rows
<1>2. Idle \in HandlerStates /\ Justified(Idle)
  BY <1>1 DEF Idle, HandlerStates, Justified
<1>3. /\ outdated' \subseteq Handlers /\ overwritten' \subseteq Commands
      /\ unsettled' \subseteq Commands
  BY DEF Return, CommandsInv, TypeOK, RequestsInv, CopyIsOfStoredRow
<1> QED BY <1>2, <1>3, OneRequestMoves DEF Return

\* A later clock keeps every deadline that has passed in the past.
LEMMA TickStep == CommandsInv /\ Tick => CommandsInv'
<1> SUFFICES ASSUME CommandsInv, Tick PROVE CommandsInv'
  OBVIOUS
<1>1. /\ clock \in Nat /\ clock' = clock + 1
      /\ UNCHANGED <<db, results, progress, accepted, hs, outdated, overwritten, unsettled>>
  BY DEF Tick, history, CommandsInv, TypeOK
<1>2. TypeOK'
  BY <1>1 DEF CommandsInv, TypeOK
<1>3. /\ \A c \in Commands : db[c].ackDeadline \in Nat
                             /\ db[c].resultDeadline \in Nat
      /\ \A h \in Handlers : hs[h].row.ackDeadline \in Nat
                             /\ hs[h].row.resultDeadline \in Nat
  BY DEF CommandsInv, TypeOK, Rows, HandlerStates
<1>4. NoEarlyExpiry'
  BY <1>1, <1>3 DEF CommandsInv, NoEarlyExpiry
<1>5. RequestsInv'
  BY <1>1, <1>3 DEF CommandsInv, RequestsInv, CopyIsOfStoredRow,
       CopyIsJustified, IntentIsJustified, Stamped
<1> QED BY <1>1, <1>2, <1>4, <1>5 DEF CommandsInv, TablesInv,
             TerminalMatchesResult, AcceptedBeforeExecution, StampsMatchStatus,
             Stamped

\* Every step of the service keeps the invariant.
LEMMA InvStep == CommandsInv /\ [Next]_vars => CommandsInv'
<1> SUFFICES ASSUME CommandsInv, [Next]_vars PROVE CommandsInv'
  OBVIOUS
<1>1. ASSUME NEW h \in Handlers, RepositoryCall(h)
      PROVE  CommandsInv'
  BY <1>1, AppendStep, InsertResultStep, SaveStep DEF RepositoryCall
<1>2. CASE UNCHANGED vars
  BY <1>2 DEF vars, history, CommandsInv, TypeOK, TablesInv, RequestsInv,
       CopyIsOfStoredRow, CopyIsJustified, IntentIsJustified, Stamped,
       TerminalMatchesResult, AcceptedBeforeExecution, NoEarlyExpiry,
       StampsMatchStatus
<1> QED BY <1>1, <1>2, CreateStep, LoadStep, DecideStep, ReturnStep, TickStep
           DEF Next

\* The inductive invariant of the service holds at all times, for any number
\* of commands, requests, types and deadlines.
THEOREM Invariance == Spec => []CommandsInv
BY InvInit, InvStep, PTL DEF Spec

\* The tables and the requests in flight are well typed at all times.
THEOREM TypeCorrect == Spec => []TypeOK
<1>1. CommandsInv => TypeOK
  BY DEF CommandsInv
<1> QED BY <1>1, Invariance, PTL

\* A terminal row agrees with the only result row, for any interleaving and any
\* failure.
THEOREM TerminalAgreement == Spec => []TerminalMatchesResult
<1>1. CommandsInv => TerminalMatchesResult
  BY DEF CommandsInv
<1> QED BY <1>1, Invariance, PTL

\* Progress, a running status or a device's result need a stored acceptance.
THEOREM AcceptanceFirst == Spec => []AcceptedBeforeExecution
<1>1. CommandsInv => AcceptedBeforeExecution
  BY DEF CommandsInv
<1> QED BY <1>1, Invariance, PTL

\* Neither deadline fires at or before its time.
THEOREM DeadlinesNeverEarly == Spec => []NoEarlyExpiry
<1>1. CommandsInv => NoEarlyExpiry
  BY DEF CommandsInv
<1> QED BY <1>1, Invariance, PTL

\* The timestamps of every stored row match its status.
THEOREM StampsAgree == Spec => []StampsMatchStatus
<1>1. CommandsInv => StampsMatchStatus
  BY DEF CommandsInv
<1> QED BY <1>1, Invariance, PTL

\* The result deadline of a command never changes once it is stored.
THEOREM ResultDeadlineStable == Spec => ResultDeadlineFixed
<1>1. CommandsInv /\ [Next]_vars =>
        [\A c \in Commands : db[c].status # "none" =>
           db'[c].resultDeadline = db[c].resultDeadline]_vars
  <2> SUFFICES ASSUME CommandsInv, [Next]_vars, NEW c \in Commands,
                      db[c].status # "none"
               PROVE  db'[c].resultDeadline = db[c].resultDeadline
    OBVIOUS
  <2>1. ASSUME NEW d \in Commands, NEW t \in CommandTypes, Create(d, t)
        PROVE  db'[c] = db[c]
    BY <2>1 DEF Create, CommandsInv, TypeOK
  <2>2. ASSUME NEW h \in Handlers, SaveCommand(h)
        PROVE  db'[c].resultDeadline = db[c].resultDeadline
    <3>1. /\ hs[h].cmd \in Commands
          /\ hs[h].row.resultDeadline = db[hs[h].cmd].resultDeadline
      BY <2>2 DEF SaveCommand, CommandsInv, RequestsInv, CopyIsOfStoredRow
    <3> QED BY <2>2, <3>1 DEF SaveCommand, CommandsInv, TypeOK
  <2>3. CASE /\ ~ \E h \in Handlers : SaveCommand(h)
             /\ ~ \E d \in Commands, t \in CommandTypes : Create(d, t)
    BY <2>3 DEF Next, load, Decide, MarkSent, RecordAck,
         ExpireMissingAck, RecordProgress, RecordResult, ExpireResult, Cancel,
         Proceed, RepositoryCall, AppendProgressEvent, InsertResult, Return,
         Tick, vars
  <2> QED BY <2>1, <2>2, <2>3
<1> QED BY <1>1, Invariance, PTL DEF Spec, ResultDeadlineFixed

-------------------------------------------------------------------------------
(***************************************************************************)
(* Requests that are not outdated.                                         *)
(***************************************************************************)

\* A request that is not outdated stays one arrow from the stored row.
LEMMA FreshStep ==
  ASSUME CommandsInv, FreshInv, [Next]_vars
  PROVE  FreshInv'
<1> USE DEF FreshInv, CopyIsFresh, history
<1>0. hs \in [Handlers -> HandlerStates]
  BY DEF CommandsInv, TypeOK
<1>1. ASSUME NEW c \in Commands, NEW t \in CommandTypes, Create(c, t)
      PROVE  FreshInv'
  <2> SUFFICES ASSUME NEW g \in Handlers \ outdated, hs[g].pc # "idle"
               PROVE  CopyIsFresh(hs[g])'
    BY <1>1 DEF Create
  <2>1. hs[g].cmd # c /\ hs[g].cmd \in Commands
    BY <1>1 DEF Create, CommandsInv, RequestsInv, CopyIsOfStoredRow
  <2>2. db'[hs[g].cmd] = db[hs[g].cmd] /\ hs' = hs
    BY <1>1, <2>1 DEF Create, CommandsInv, TypeOK
  <2> QED BY <2>2
<1>2. ASSUME NEW h \in Handlers, NEW c \in Commands, load(h, c)
      PROVE  FreshInv'
  BY <1>0, <1>2 DEF load
<1>3. ASSUME NEW h \in Handlers, Decide(h)
      PROVE  FreshInv'
  <2> DEFINE stored == db[hs[h].cmd].status
  <2>0. hs[h].pc = "loaded" /\ hs[h].row \in Rows
    BY <1>0, <1>3 DEF Decide, MarkSent, RecordAck, ExpireMissingAck, RecordProgress,
       RecordResult, ExpireResult, Cancel, Proceed, HandlerStates
  <2>1. h \notin outdated => hs[h].row = db[hs[h].cmd]
    BY <2>0
  <2>2. ASSUME NEW pc, NEW row, NEW by, Proceed(h, pc, row, by),
               h \notin outdated =>
                 /\ pc = "append" => stored \in Executing
                 /\ pc = "record" => /\ stored \notin Terminal
                                     /\ stored \in Executing \/ row.status = "canceled"
                 /\ pc = "save" => <<stored, row.status>> \in Lifecycle!Arrow,
               pc # "loaded"
        PROVE  FreshInv'
    <3>1. /\ db' = db /\ outdated' = outdated
          /\ hs'[h].pc = pc /\ hs'[h].cmd = hs[h].cmd /\ hs'[h].row = row
          /\ \A g \in Handlers : g # h => hs'[g] = hs[g]
      BY <1>0, <2>2 DEF Proceed
    <3> QED BY <2>2, <3>1
  <2>3. CASE MarkSent(h)
    BY <2>0, <2>1, <2>2, <2>3 DEF MarkSent, Lifecycle!Arrow, Rows
  <2>4. ASSUME NEW v \in {"ack_accepted", "ack_rejected"}, RecordAck(h, v)
        PROVE  FreshInv'
    BY <2>0, <2>1, <2>2, <2>4 DEF RecordAck, Lifecycle!Arrow, Rows
  <2>5. CASE ExpireMissingAck(h)
    BY <2>0, <2>1, <2>2, <2>5 DEF ExpireMissingAck, Lifecycle!Arrow, Rows
  <2>6. CASE RecordProgress(h)
    BY <2>0, <2>1, <2>2, <2>6 DEF RecordProgress
  <2>7. ASSUME NEW s \in Reports, RecordResult(h, s)
        PROVE  FreshInv'
    BY <2>0, <2>1, <2>2, <2>7 DEF RecordResult, Executing, Terminal
  <2>8. CASE ExpireResult(h)
    BY <2>0, <2>1, <2>2, <2>8 DEF ExpireResult, Executing, Terminal
  <2>9. CASE Cancel(h)
    BY <2>0, <2>1, <2>2, <2>9 DEF Cancel, Rows
  <2> QED BY <1>3, <2>3, <2>4, <2>5, <2>6, <2>7, <2>8, <2>9 DEF Decide
<1>4. ASSUME NEW h \in Handlers, AppendProgressEvent(h)
      PROVE  FreshInv'
  <2>1. /\ h \notin outdated => db[hs[h].cmd].status \in Executing
        /\ hs[h].row.status = "running"
    BY <1>4 DEF AppendProgressEvent, CommandsInv, RequestsInv, IntentIsJustified
  <2>2. /\ hs'[h].pc = "save" /\ hs'[h].cmd = hs[h].cmd
        /\ hs'[h].row = hs[h].row /\ db' = db /\ outdated' = outdated
        /\ \A g \in Handlers : g # h => hs'[g] = hs[g]
    BY <1>0, <1>4 DEF AppendProgressEvent, HandlerStates
  <2> QED BY <2>1, <2>2 DEF Executing, Lifecycle!Arrow
<1>5. ASSUME NEW h \in Handlers, InsertResult(h)
      PROVE  FreshInv'
  <2>1. /\ h \notin outdated => db[hs[h].cmd].status \notin Terminal
        /\ hs[h].row.status \in Terminal
    BY <1>5 DEF InsertResult, CommandsInv, RequestsInv, IntentIsJustified
  <2>2. /\ hs'[h].pc = "save" /\ hs'[h].cmd = hs[h].cmd
        /\ hs'[h].row = hs[h].row /\ db' = db /\ outdated' = outdated
        /\ \A g \in Handlers : g # h => hs'[g] = hs[g]
    BY <1>0, <1>5 DEF InsertResult, HandlerStates
  <2> QED BY <2>1, <2>2
<1>6. ASSUME NEW h \in Handlers, SaveCommand(h)
      PROVE  FreshInv'
  <2>1. /\ hs'[h].pc = "idle"
        /\ \A g \in Handlers : g # h => hs'[g] = hs[g]
    BY <1>0, <1>6 DEF SaveCommand, Idle
  <2>2. ASSUME NEW g \in Handlers, g \notin outdated', hs'[g].pc # "idle"
        PROVE  g # h /\ g \notin outdated /\ hs'[g] = hs[g] /\ hs[g].cmd # hs[h].cmd
    BY <1>6, <2>1, <2>2 DEF SaveCommand
  <2>3. ASSUME NEW d \in Commands, d # hs[h].cmd PROVE db'[d] = db[d]
    BY <1>6, <2>3 DEF SaveCommand, CommandsInv, TypeOK
  <2>4. \A g \in Handlers : hs[g].pc # "idle" => hs[g].cmd \in Commands
    BY DEF CommandsInv, RequestsInv, CopyIsOfStoredRow
  <2> SUFFICES ASSUME NEW g \in Handlers, g \notin outdated', hs'[g].pc # "idle"
               PROVE  CopyIsFresh(hs[g])'
    OBVIOUS
  <2>5. db'[hs[g].cmd] = db[hs[g].cmd] /\ hs'[g] = hs[g] /\ g \notin outdated
    BY <2>2, <2>3, <2>4
  <2> QED BY <2>5
<1>7. ASSUME NEW h \in Handlers, Return(h)
      PROVE  FreshInv'
  BY <1>0, <1>7 DEF Return, Idle
<1>8. CASE Tick \/ UNCHANGED vars
  BY <1>8 DEF Tick, vars
<1> QED BY <1>1, <1>2, <1>3, <1>4, <1>5, <1>6, <1>7, <1>8 DEF Next, RepositoryCall

\* The statuses a request that is not outdated may save over an executing or ended
\* command.
LEMMA FreshSave ==
  ASSUME CommandsInv, FreshInv, NEW h \in Handlers \ outdated, hs[h].pc = "save"
  PROVE  /\ db[hs[h].cmd].status \notin Terminal
         /\ db[hs[h].cmd].status \in Executing =>
              hs[h].row.status \in Executing \union Terminal
BY DEF FreshInv, CopyIsFresh, Lifecycle!Arrow, Executing, Terminal

\* What a request found executing goes forward only.
LEMMA ForwardStep ==
  ASSUME CommandsInv, FreshInv, ForwardInv, [Next]_vars
  PROVE  ForwardInv'
<1> USE DEF ForwardInv, history
<1>0. /\ hs \in [Handlers -> HandlerStates] /\ db \in [Commands -> Rows]
      /\ \A g \in Handlers : hs[g].pc # "idle" =>
           hs[g].cmd \in Commands /\ db[hs[g].cmd].status # "none"
  BY DEF CommandsInv, TypeOK, RequestsInv, CopyIsOfStoredRow
<1>1. ASSUME NEW c \in Commands, NEW t \in CommandTypes, Create(c, t)
      PROVE  ForwardInv'
  BY <1>0, <1>1 DEF Create
<1>2. ASSUME NEW h \in Handlers, NEW c \in Commands, load(h, c)
      PROVE  ForwardInv'
  BY <1>0, <1>2 DEF load
<1>3. ASSUME NEW h \in Handlers, Decide(h)
      PROVE  ForwardInv'
  <2>1. ASSUME NEW pc, NEW row, NEW by, Proceed(h, pc, row, by), pc # "loaded",
               pc = "record" => row.status = "canceled" \/ hs[h].row.status \in Executing
        PROVE  ForwardInv'
    <3>1. /\ db' = db /\ overwritten' = overwritten /\ hs[h].pc = "loaded"
          /\ hs'[h].pc = pc /\ hs'[h].cmd = hs[h].cmd /\ hs'[h].row = row
          /\ \A g \in Handlers : g # h => hs'[g] = hs[g]
      BY <1>0, <2>1 DEF Proceed
    <3> QED BY <2>1, <3>1
  <2>2. hs[h].row \in Rows
    BY <1>0 DEF HandlerStates
  <2>3. CASE Cancel(h)
    BY <2>1, <2>2, <2>3 DEF Cancel, Rows
  <2>4. ASSUME NEW s \in Reports, RecordResult(h, s)
        PROVE  ForwardInv'
    BY <2>1, <2>4 DEF RecordResult
  <2>5. CASE ExpireResult(h)
    BY <2>1, <2>5 DEF ExpireResult
  <2>6. CASE MarkSent(h)
    BY <2>1, <2>6 DEF MarkSent
  <2>7. ASSUME NEW v \in {"ack_accepted", "ack_rejected"}, RecordAck(h, v)
        PROVE  ForwardInv'
    BY <2>1, <2>7 DEF RecordAck
  <2>8. CASE ExpireMissingAck(h)
    BY <2>1, <2>8 DEF ExpireMissingAck
  <2>9. CASE RecordProgress(h)
    BY <2>1, <2>9 DEF RecordProgress
  <2> QED BY <1>3, <2>3, <2>4, <2>5, <2>6, <2>7, <2>8, <2>9 DEF Decide
<1>4. ASSUME NEW h \in Handlers, AppendProgressEvent(h) \/ InsertResult(h)
      PROVE  ForwardInv'
  <2>1. /\ hs'[h].pc = "save" /\ db' = db /\ overwritten' = overwritten
        /\ \A g \in Handlers : g # h => hs'[g] = hs[g]
    BY <1>0, <1>4 DEF AppendProgressEvent, InsertResult, HandlerStates
  <2> QED BY <2>1
<1>5. ASSUME NEW h \in Handlers, SaveCommand(h)
      PROVE  ForwardInv'
  <2> DEFINE c == hs[h].cmd
  <2>1. /\ hs[h].pc = "save" /\ hs'[h].pc = "idle"
        /\ \A g \in Handlers : g # h => hs'[g] = hs[g]
        /\ overwritten \subseteq overwritten'
        /\ h \in outdated => c \in overwritten'
        /\ c \in Commands /\ db'[c] = hs[h].row
        /\ \A d \in Commands : d # c => db'[d] = db[d]
    BY <1>0, <1>5 DEF SaveCommand, Idle
  <2> SUFFICES ASSUME NEW g \in Handlers, g # h, hs[g].pc # "idle",
                      hs[g].cmd \notin overwritten',
                      \/ hs[g].pc = "loaded" /\ hs[g].row.status \in Executing
                      \/ hs[g].pc = "record" /\ hs[g].row.status # "canceled"
               PROVE  db'[hs[g].cmd].status \in Executing \union Terminal
    BY <2>1
  <2>2. hs[g].cmd \notin overwritten /\ db[hs[g].cmd].status \in Executing \union Terminal
    BY <2>1
  <2>3. CASE hs[g].cmd # c
    BY <1>0, <2>1, <2>2, <2>3
  <2>4. CASE hs[g].cmd = c
    BY <2>1, <2>2, <2>4, FreshSave
  <2> QED BY <2>3, <2>4
<1>6. ASSUME NEW h \in Handlers, Return(h)
      PROVE  ForwardInv'
  BY <1>0, <1>6 DEF Return, Idle
<1>7. CASE Tick \/ UNCHANGED vars
  BY <1>7 DEF Tick, vars
<1> QED BY <1>1, <1>2, <1>3, <1>4, <1>5, <1>6, <1>7 DEF Next, RepositoryCall

\* A request that has inserted a result goes on, saves it or leaves it unsettled.
LEMMA ShownStep ==
  ASSUME CommandsInv, FreshInv, ResultIsShown, [Next]_vars
  PROVE  ResultIsShown'
<1> USE DEF history
<1>0. /\ hs \in [Handlers -> HandlerStates] /\ db \in [Commands -> Rows]
      /\ results \in [Commands -> Results]
      /\ \A g \in Handlers : hs[g].pc # "idle" => hs[g].cmd \in Commands
  BY DEF CommandsInv, TypeOK, RequestsInv, CopyIsOfStoredRow
<1>a. ASSUME UNCHANGED <<db, results, overwritten, unsettled>>,
             \A g \in Handlers : hs[g].pc = "save" => hs'[g] = hs[g]
      PROVE  ResultIsShown'
  BY <1>a DEF ResultIsShown, Settling
<1>1. ASSUME NEW c \in Commands, NEW t \in CommandTypes, Create(c, t)
      PROVE  ResultIsShown'
  <2>1. results[c].status = "none"
    BY <1>1 DEF Create, CommandsInv, TablesInv, NoResult
  <2>2. \A d \in Commands : d # c => db'[d] = db[d]
    BY <1>0, <1>1 DEF Create
  <2> QED BY <1>1, <2>1, <2>2 DEF Create, ResultIsShown, Settling
<1>2. ASSUME NEW h \in Handlers, NEW c \in Commands, load(h, c)
      PROVE  ResultIsShown'
  BY <1>0, <1>2, <1>a DEF load
<1>3. ASSUME NEW h \in Handlers, Decide(h)
      PROVE  ResultIsShown'
  BY <1>0, <1>3, <1>a DEF Decide, MarkSent, RecordAck, ExpireMissingAck, RecordProgress,
       RecordResult, ExpireResult, Cancel, Proceed
<1>4. ASSUME NEW h \in Handlers, AppendProgressEvent(h)
      PROVE  ResultIsShown'
  BY <1>0, <1>4, <1>a DEF AppendProgressEvent
<1>5. ASSUME NEW h \in Handlers, InsertResult(h)
      PROVE  ResultIsShown'
  <2>0. hs[h].cmd \in Commands
    BY <1>0, <1>5 DEF InsertResult
  <2> PICK c \in Commands : c = hs[h].cmd
    BY <2>0
  <2> DEFINE res == [status |-> hs[h].row.status, by |-> hs[h].by]
  <2>1. /\ c \in Commands /\ results'[c] = res
        /\ \A d \in Commands : d # c => results'[d] = results[d]
        /\ hs'[h].pc = "save" /\ hs'[h].cmd = c /\ hs'[h].row = hs[h].row
        /\ hs[h].pc = "record"
        /\ \A g \in Handlers : g # h => hs'[g] = hs[g]
        /\ UNCHANGED <<db, overwritten, unsettled>>
    BY <1>0, <1>5 DEF InsertResult, HandlerStates
  <2>2. Settling(h, c)'
    BY <2>1 DEF Settling
  <2>3. ASSUME NEW d \in Commands, d # c, results'[d].status # "none"
        PROVE  \/ db'[d].status = results'[d].status
               \/ \E g \in Handlers : Settling(g, d)'
               \/ d \in overwritten' \union unsettled'
    <3>1. \A g \in Handlers : Settling(g, d) => Settling(g, d)'
      BY <2>1, <2>3 DEF Settling
    <3> QED BY <2>1, <2>3, <3>1 DEF ResultIsShown
  <2>4. \E g \in Handlers : Settling(g, c)'
    BY <2>2
  <2>5. ASSUME NEW d \in Commands, results'[d].status # "none"
        PROVE  \/ db'[d].status = results'[d].status
               \/ \E g \in Handlers : Settling(g, d)'
               \/ d \in overwritten' \union unsettled'
    <3>1. CASE d = c
      BY <2>4, <3>1
    <3>2. CASE d # c
      BY <2>3, <2>5, <3>2
    <3> QED BY <3>1, <3>2
  <2> QED BY <2>5 DEF ResultIsShown
<1>6. ASSUME NEW h \in Handlers, SaveCommand(h)
      PROVE  ResultIsShown'
  <2> DEFINE c == hs[h].cmd
  <2>1. /\ hs[h].pc = "save" /\ c \in Commands
        /\ \A g \in Handlers : g # h => hs'[g] = hs[g]
        /\ overwritten \subseteq overwritten' /\ UNCHANGED <<results, unsettled>>
        /\ h \in outdated => c \in overwritten'
        /\ db'[c] = hs[h].row
        /\ \A d \in Commands : d # c => db'[d] = db[d]
    BY <1>0, <1>6 DEF SaveCommand
  <2> SUFFICES ASSUME NEW d \in Commands, results[d].status # "none", d \notin overwritten',
                      d \notin unsettled
               PROVE  \/ db'[d].status = results[d].status
                      \/ \E g \in Handlers : Settling(g, d)'
    BY <2>1 DEF ResultIsShown
  <2>2. \A g \in Handlers : Settling(g, d) /\ g # h => Settling(g, d)'
    BY <2>1 DEF Settling
  <2>3. db[d].status = results[d].status \/ \E g \in Handlers : Settling(g, d)
    BY <2>1 DEF ResultIsShown
  <2>4. CASE d # c
    <3>1. ~ Settling(h, d)
      BY <2>4 DEF Settling
    <3> QED BY <2>1, <2>2, <2>3, <2>4, <3>1
  <2>5. CASE d = c /\ hs[h].row.status \in Terminal
    BY <2>1, <2>5 DEF CommandsInv, RequestsInv, CopyIsJustified
  <2>6. CASE d = c /\ hs[h].row.status \notin Terminal
    <3>1. db[d].status \notin Terminal
      BY <2>1, <2>6, FreshSave
    <3>2. results[d].status \in Terminal
      BY <1>0 DEF Results
    <3> QED BY <2>2, <2>3, <2>6, <3>1, <3>2 DEF Settling
  <2> QED BY <2>4, <2>5, <2>6
<1>7. ASSUME NEW h \in Handlers, Return(h)
      PROVE  ResultIsShown'
  <2>1. /\ \A g \in Handlers : g # h => hs'[g] = hs[g]
        /\ UNCHANGED <<db, results, overwritten>> /\ unsettled \subseteq unsettled'
        /\ (hs[h].pc = "save" /\ hs[h].row.status \in Terminal) => hs[h].cmd \in unsettled'
    BY <1>0, <1>7 DEF Return
  <2>2. ASSUME NEW d \in Commands, NEW g \in Handlers, Settling(g, d), results[d].status # "none"
        PROVE  Settling(g, d)' \/ d \in unsettled'
    <3>1. CASE g # h
      BY <2>1, <2>2, <3>1 DEF Settling
    <3>2. CASE g = h
      <4>1. results[d].status \in Terminal
        BY <1>0, <2>2 DEF Results
      <4> QED BY <2>1, <2>2, <3>2, <4>1 DEF Settling
    <3> QED BY <3>1, <3>2
  <2> QED BY <2>1, <2>2 DEF ResultIsShown
<1>8. CASE Tick \/ UNCHANGED vars
  BY <1>8, <1>a DEF Tick, vars
<1> QED BY <1>1, <1>2, <1>3, <1>4, <1>5, <1>6, <1>7, <1>8 DEF Next, RepositoryCall

-------------------------------------------------------------------------------
(***************************************************************************)
(* As long as no outdated copy is saved, the service implements the        *)
(* lifecycle.                                                              *)
(***************************************************************************)

\* As long as no outdated copy was saved, every step is a step of the lifecycle or
\* leaves status and outcome alone.
LEMMA StepSimulation ==
  ASSUME CommandsInv, FreshInv, ForwardInv, [Next]_vars, overwritten' = {}
  PROVE  [Lifecycle!LifecycleNext]_(Lifecycle!lifecycleVars)
<1> USE DEF StoredStatus, RecordedOutcome
<1>0. /\ db \in [Commands -> Rows] /\ results \in [Commands -> Results]
      /\ Terminal = Lifecycle!Terminal /\ Executing = Lifecycle!Executing
  BY DEF CommandsInv, TypeOK, Terminal, Lifecycle!Terminal, Executing,
         Lifecycle!Executing
<1>a. ASSUME NEW c \in Commands,
             NEW s \in {"queued", "sent", "ack_accepted", "ack_rejected",
                        "ack_timed_out", "running"},
             Lifecycle!Advance(c, s)
      PROVE  Lifecycle!LifecycleNext
  BY <1>a DEF Lifecycle!LifecycleNext
<1>b. ASSUME NEW c \in Commands, NEW r \in Terminal, Lifecycle!Conclude(c, r)
      PROVE  Lifecycle!LifecycleNext
  BY <1>0, <1>b DEF Lifecycle!LifecycleNext
<1>c. ASSUME NEW c \in Commands, Lifecycle!Settle(c)
      PROVE  Lifecycle!LifecycleNext
  BY <1>c DEF Lifecycle!LifecycleNext
<1>1. ASSUME NEW c \in Commands, NEW t \in CommandTypes, Create(c, t)
      PROVE  Lifecycle!LifecycleNext
  <2>1. StoredStatus' = [StoredStatus EXCEPT ![c] = "queued"]
    BY <1>0, <1>1 DEF Create, NoRow
  <2>2. StoredStatus[c] = "none" /\ RecordedOutcome' = RecordedOutcome
    BY <1>1 DEF Create
  <2>3. Lifecycle!Advance(c, "queued")
    BY <2>1, <2>2 DEF Lifecycle!Advance, Lifecycle!Arrow
  <2> QED BY <1>a, <2>3
<1>2. ASSUME NEW h \in Handlers, InsertResult(h)
      PROVE  Lifecycle!LifecycleNext
  <2>0. hs[h].cmd \in Commands /\ hs[h].row.status \in Terminal
    BY <1>2 DEF InsertResult, CommandsInv, RequestsInv, CopyIsOfStoredRow,
                IntentIsJustified
  <2> PICK c \in Commands, r \in Terminal : c = hs[h].cmd /\ r = hs[h].row.status
    BY <2>0
  <2>a. overwritten = {}
    BY <1>2 DEF InsertResult, history
  <2>b. StoredStatus[c] \notin Terminal
    BY <1>2 DEF InsertResult, CommandsInv, TerminalMatchesResult, NoResult, Terminal
  <2>c. StoredStatus[c] \in Executing \/ r = "canceled"
    BY <1>2, <2>a, <2>b DEF InsertResult, ForwardInv
  <2>1. /\ StoredStatus[c] # "none" /\ StoredStatus[c] \notin Terminal
        /\ StoredStatus[c] \in Executing \/ r = "canceled"
        /\ StoredStatus' = StoredStatus
    BY <1>2, <2>b, <2>c DEF InsertResult, CommandsInv, RequestsInv, CopyIsOfStoredRow
  <2>2. /\ RecordedOutcome[c] = "none"
        /\ RecordedOutcome' = [RecordedOutcome EXCEPT ![c] = r]
    BY <1>0, <1>2 DEF InsertResult, NoResult
  <2>3. Lifecycle!Conclude(c, r)
    BY <1>0, <2>1, <2>2 DEF Lifecycle!Conclude
  <2> QED BY <1>b, <2>3
<1>3. ASSUME NEW h \in Handlers, SaveCommand(h)
      PROVE  Lifecycle!LifecycleNext \/ UNCHANGED Lifecycle!lifecycleVars
  <2>0. hs[h].cmd \in Commands /\ hs[h].row.status \in Statuses
    BY <1>3 DEF SaveCommand, CommandsInv, TypeOK, HandlerStates, Rows,
                RequestsInv, CopyIsOfStoredRow
  <2> PICK c \in Commands, s \in Statuses : c = hs[h].cmd /\ s = hs[h].row.status
    BY <2>0
  <2>1. /\ hs[h].pc = "save"
        /\ s \in Terminal => results[c].status = s
    BY <1>3 DEF SaveCommand, CommandsInv, RequestsInv, CopyIsJustified
  <2>2. /\ StoredStatus' = [StoredStatus EXCEPT ![c] = s]
        /\ RecordedOutcome' = RecordedOutcome
    BY <1>0, <1>3 DEF SaveCommand
  <2>3. CASE <<StoredStatus[c], s>> \in Lifecycle!Arrow
    <3>1. Lifecycle!Advance(c, s)
      BY <2>2, <2>3 DEF Lifecycle!Advance
    <3>2. s \in {"queued", "sent", "ack_accepted", "ack_rejected",
                 "ack_timed_out", "running"}
      BY <2>3 DEF Lifecycle!Arrow
    <3> QED BY <1>a, <3>1, <3>2
  <2>4. CASE StoredStatus[c] = "running" /\ s = "running"
    BY <2>2, <2>4 DEF Lifecycle!lifecycleVars
  <2>5. CASE StoredStatus[c] \notin Terminal /\ s \in Terminal
    <3>1. Lifecycle!Settle(c)
      BY <1>0, <2>1, <2>2, <2>5 DEF Lifecycle!Settle, Terminal
    <3> QED BY <1>c, <3>1
  <2>6. h \notin outdated
    BY <1>3 DEF SaveCommand
  <2> QED BY <1>3, <2>1, <2>3, <2>4, <2>5, <2>6 DEF FreshInv, CopyIsFresh
<1>4. CASE /\ ~ \E c \in Commands, t \in CommandTypes : Create(c, t)
           /\ ~ \E h \in Handlers : InsertResult(h) \/ SaveCommand(h)
  <2>1. UNCHANGED <<db, results>>
    BY <1>4 DEF Next, load, Decide, MarkSent, RecordAck, ExpireMissingAck,
         RecordProgress, RecordResult, ExpireResult, Cancel, Proceed,
         RepositoryCall, AppendProgressEvent, Return, Tick, vars
  <2> QED BY <2>1 DEF Lifecycle!lifecycleVars
<1> QED BY <1>1, <1>2, <1>3, <1>4

\* The copies that requests carry, in addition to CommandsInv.
CopiesInv == CommandsInv /\ FreshInv /\ ForwardInv

\* A request that is not outdated carries a fresh copy, and an outdated one a copy
\* the command has gone forward from, at all times.
THEOREM CopiesInvariance == Spec => []CopiesInv
<1>1. Init => FreshInv /\ ForwardInv
  BY DEF Init, FreshInv, ForwardInv, Idle
<1>2. CopiesInv /\ [Next]_vars => CopiesInv'
  BY InvStep, FreshStep, ForwardStep DEF CopiesInv
<1> QED BY <1>1, <1>2, InvInit, PTL DEF Spec, CopiesInv

\* A recorded result is shown as the status, or its request is about to save it,
\* or one of the two exceptions happened.
THEOREM ResultsAreShown == Spec => []ResultIsShown
<1>1. Init => ResultIsShown
  BY DEF Init, ResultIsShown, NoResult
<1>2. CopiesInv /\ ResultIsShown /\ [Next]_vars => ResultIsShown'
  BY ShownStep DEF CopiesInv
<1> QED BY <1>1, <1>2, CopiesInvariance, PTL DEF Spec

\* No step leaves the lifecycle unless an outdated copy is saved or was saved.
THEOREM DepartureNeedsOverwriting == Spec => DepartsOnlyByOverwriting
<1>1. CopiesInv /\ [Next]_vars =>
        [overwritten' # {} \/ Lifecycle!LifecycleNext
           \/ UNCHANGED <<StoredStatus, RecordedOutcome>>]_vars
  BY StepSimulation DEF CopiesInv, Lifecycle!lifecycleVars
<1> QED BY <1>1, CopiesInvariance, PTL DEF Spec, DepartsOnlyByOverwriting

\* As long as no outdated copy is saved, callers see the documented lifecycle,
\* however many requests cross and whatever fails on the way: the stored status
\* and the recorded result implement CommandLifecycle.
THEOREM Refinement == Spec /\ [](overwritten = {}) => ImplementsLifecycle
<1>1. Init => Lifecycle!LifecycleInit
  BY DEF Init, Lifecycle!LifecycleInit, StoredStatus, RecordedOutcome, NoRow,
         NoResult
<1>2. CopiesInv /\ [Next]_vars /\ (overwritten = {})'
        => [Lifecycle!LifecycleNext]_(Lifecycle!lifecycleVars)
  BY StepSimulation DEF CopiesInv
<1> QED BY <1>1, <1>2, CopiesInvariance, PTL
           DEF Spec, ImplementsLifecycle, Lifecycle!LifecycleSpec

OneRequestAtATime == \A g, h \in Handlers : g = h

\* Callers that run one request at a time never save an outdated copy, and see the
\* documented lifecycle whatever fails on the way.
THEOREM SequentialRefinement ==
  ASSUME OneRequestAtATime
  PROVE  Spec => ImplementsLifecycle
<1> DEFINE Q == outdated = {} /\ overwritten = {}
<1>1. Init => Q
  BY DEF Init
<1>2. Q /\ [Next]_vars => Q'
  <2> SUFFICES ASSUME Q, [Next]_vars PROVE Q'
    OBVIOUS
  <2>1. ASSUME NEW h \in Handlers, SaveCommand(h) PROVE Q'
    <3>1. Handlers \ {h} = {}
      BY DEF OneRequestAtATime
    <3> QED BY <2>1, <3>1 DEF SaveCommand
  <2>2. ASSUME NEW h \in Handlers, Return(h) PROVE Q'
    BY <2>2 DEF Return
  <2>3. CASE ~ \E h \in Handlers : SaveCommand(h) \/ Return(h)
    BY <2>3 DEF Next, Create, load, Decide, MarkSent, RecordAck, ExpireMissingAck,
       RecordProgress, RecordResult, ExpireResult, Cancel, Proceed, RepositoryCall,
       AppendProgressEvent, InsertResult, Tick, vars, history
  <2> QED BY <2>1, <2>2, <2>3
<1>3. Q => overwritten = {}
  OBVIOUS
<1> QED BY <1>1, <1>2, <1>3, Refinement, PTL DEF Spec
===============================================================================
