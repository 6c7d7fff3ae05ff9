-------------------------- MODULE GovernedAgentProofs --------------------------
(***************************************************************************)
(* Proofs about GovernedAgent, for any files, requests, proposals, bounds, *)
(* crashes and restarts.  What TransactionManagerProofs says of a step of  *)
(* the transaction manager is used here as TMP!...                         *)
(***************************************************************************)
EXTENDS GovernedAgent, FiniteSetTheorems, TLAPS

TMP == INSTANCE TransactionManagerProofs

-----------------------------------------------------------------------------
(***************************************************************************)
(* What holds of the transaction records and the rest of a RuntimeState,   *)
(* in memory and saved alike.                                              *)
(***************************************************************************)
RecordsType(recs) == DOMAIN recs \subseteq TM!TxId /\ recs \in [DOMAIN recs -> TM!Record]

Binding == [authority : Authority, action : Pending \cup {None}]

StateType(recs, st) ==
  /\ st = [governance |-> st.governance, action |-> st.action, useCount |-> st.useCount,
           gate |-> st.gate, active |-> st.active, evidence |-> st.evidence,
           binding |-> st.binding]
  /\ st.action \in Pending \cup {None}
  /\ st.active \in DOMAIN recs \cup {None}
  /\ IsFiniteSet(st.evidence)
  /\ st.binding \in [DOMAIN recs -> Binding]
  /\ st.action # None => st.useCount \in 0..st.action.limit

\* One transaction at most is unresolved.
Single(recs) == \A i, j \in UnresolvedIn(recs) : i = j

\* The transaction of the pending action is known, and bound to it or to none.
Bound(recs, st) ==
  st.action # None /\ st.action.tx # None =>
    /\ st.action.tx \in DOMAIN recs
    /\ ActionOf(st, st.action.tx) \in {None, st.action}

\* A gate that approves rests on enough evidence of its action and snapshot.
Sound(st) ==
  st.gate # None /\ st.gate.verdict \in {"APPROVE", "APPROVE_WITH_LIMITS"} =>
    /\ Cardinality(st.gate.evidence) >= RequiredArtifacts(st.gate.action.risk)
    /\ \A e \in st.gate.evidence : /\ e.artifact.action = st.gate.action
                                   /\ e.artifact.source = st.gate.action.source

Sane(recs, st) ==
  RecordsType(recs) /\ StateType(recs, st) /\ Single(recs) /\ Bound(recs, st) /\ Sound(st)

\* The active transaction is the unresolved one, or one that could not be filed, ...
Active(recs, st) ==
  st.active # None => st.active \in UnresolvedIn(recs) \/ ~recs[st.active].filed
\* ... except between the end of its rollback and the end of the call.
RolledBack ==
  /\ call # None /\ call.op = "rollback"
  /\ Status(call.tx) = "ROLLED_BACK" /\ records[call.tx].filed

\* What a call knows of its transaction and its action.
Calls ==
  /\ call \in Call \cup {None}
  /\ ~up => call = None /\ TM!Idle
  /\ call # None /\ call.op \in {"apply", "rollback"} => call.tx \in Known
  /\ call # None /\ call.op # "rollback" =>
       state.action # None /\ state.useCount < state.action.limit
  /\ call # None /\ call.op \in {"command", "recorded"} => TM!Idle
  /\ ~TM!Idle => call.tx = current
  /\ phase = "restore" => call.op = "rollback" /\ Status(current) # "ROLLED_BACK"
  /\ phase \in {"backup", "replace", "check", "undo"} =>
       call.op = "apply" /\ Status(current) = "PREPARED"

IInv ==
  /\ TM!TypeOK
  /\ up \in BOOLEAN /\ (up => authority \in Authority)
  /\ Sane(records, state)
  /\ Active(records, state) \/ RolledBack
  /\ saved = [records |-> saved.records, state |-> saved.state]
  /\ Sane(saved.records, saved.state)
  /\ Active(saved.records, saved.state)
  /\ Calls
  /\ ReviewedBeforeApplied

-----------------------------------------------------------------------------
\* The sets of TransactionManager and its states are those its proofs speak of.
LEMMA SameSets ==
  /\ TM!FileState = TMP!FileState /\ TM!Workspace = TMP!Workspace /\ TM!TxId = TMP!TxId
  /\ TM!Operation = TMP!Operation /\ TM!Candidate = TMP!Candidate
  BY DEF TM!FileState, TMP!FileState, TM!Workspace, TMP!Workspace, TM!TxId, TMP!TxId,
         TM!Operation, TMP!Operation, TM!Candidate, TMP!Candidate

LEMMA SameType == (TM!TypeOK <=> TMP!TypeOK) /\ (TM!TypeOK' <=> TMP!TypeOK')
  BY DEF TM!TypeOK, TMP!TypeOK, TM!Known, TMP!Known, TM!Workspace, TMP!Workspace, TM!FileState,
         TMP!FileState, TM!TxId, TMP!TxId, TM!Record, TMP!Record, TM!Phase, TMP!Phase, TM!Idle,
         TMP!Idle, TM!Remaining, TMP!Remaining, TM!Targets, TMP!Targets, TM!Operation,
         TMP!Operation, TM!Candidate, TMP!Candidate, TM!Status, TMP!Status

\* Every step of the transaction manager keeps its types.
LEMMA TransactionType ==
  ASSUME TM!TypeOK, [TMP!Next]_(TMP!txVars)
  PROVE  TM!TypeOK'
  BY SameSets, SameType, TMP!TypeStep, TransactionAssumption

\* The steps the agent takes are steps of the transaction manager.
LEMMA SameSteps ==
  /\ TM!CallStep \/ TM!FaultStep => TMP!Next
  /\ \A id \in Known :
       TM!StartApply(id) \/ TM!StartRollback(id) \/ TM!Finalize(id) \/ TM!Discard(id) => TMP!Next
  /\ \A p \in Path, c \in TM!FileState : TM!Edit(p, c) => TMP!Next
  /\ txUnchanged => [TMP!Next]_(TMP!txVars)
<1>1. TM!CallStep => TMP!CallStep
  <2>1. TM!BackupTarget => TMP!BackupTarget
    BY DEF TM!BackupTarget, TMP!BackupTarget, TM!Remaining, TMP!Remaining, TM!Targets,
           TMP!Targets, TM!Least, TMP!Least
  <2>2. TM!ReplaceTarget => TMP!ReplaceTarget
    BY DEF TM!ReplaceTarget, TMP!ReplaceTarget, TM!Remaining, TMP!Remaining, TM!Targets,
           TMP!Targets, TM!Least, TMP!Least
  <2>3. TM!CheckTarget => TMP!CheckTarget
    BY DEF TM!CheckTarget, TMP!CheckTarget, TM!Greatest, TMP!Greatest
  <2>4. TM!FinishApply => TMP!FinishApply
    BY DEF TM!FinishApply, TMP!FinishApply, TM!Remaining, TMP!Remaining, TM!Targets,
           TMP!Targets, TM!Return, TMP!Return, TM!File, TMP!File, TM!Fault, TMP!Fault
  <2>5. TM!RestoreTarget => TMP!RestoreTarget
    BY DEF TM!RestoreTarget, TMP!RestoreTarget, TM!Original, TMP!Original, TM!Greatest, TMP!Greatest
  <2>6. TM!FinishUndo => TMP!FinishUndo
    BY DEF TM!FinishUndo, TMP!FinishUndo, TM!Return, TMP!Return
  <2>7. TM!FinishRollback => TMP!FinishRollback
    BY DEF TM!FinishRollback, TMP!FinishRollback, TM!SetStatus, TMP!SetStatus, TM!Return,
           TMP!Return, TM!File, TMP!File, TM!Fault, TMP!Fault
  <2>. QED
    BY <2>1, <2>2, <2>3, <2>4, <2>5, <2>6, <2>7 DEF TM!CallStep, TMP!CallStep
<1>2. TM!FaultStep => TMP!FaultStep
  BY DEF TM!FaultStep, TMP!FaultStep, TM!WriteFault, TMP!WriteFault, TM!SnapshotFault,
         TMP!SnapshotFault, TM!RestoreFault, TMP!RestoreFault, TM!Applying, TMP!Applying,
         TM!Remaining, TMP!Remaining, TM!Targets, TMP!Targets, TM!Fault, TMP!Fault, TM!Return,
         TMP!Return
<1>3. ASSUME NEW id \in Known,
             TM!StartApply(id) \/ TM!StartRollback(id) \/ TM!Finalize(id) \/ TM!Discard(id)
      PROVE  TMP!NewCall
  <2>1. id \in TMP!Known
    BY DEF Known, TMP!Known
  <2>2. TMP!StartApply(id) \/ TMP!StartRollback(id) \/ TMP!Finalize(id) \/ TMP!Discard(id)
    BY <1>3 DEF TM!StartApply, TMP!StartApply, TM!StartRollback, TMP!StartRollback,
       TM!Finalize, TMP!Finalize, TM!Discard, TMP!Discard, TM!Idle, TMP!Idle, TM!CanApply,
       TMP!CanApply, TM!StatusOf, TMP!StatusOf, TM!VerifyCandidate, TMP!VerifyCandidate,
       TM!Targets, TMP!Targets, TM!SetStatus, TMP!SetStatus, TM!File, TMP!File, TM!Fault,
       TMP!Fault
  <2>. QED
    BY <2>1, <2>2 DEF TMP!NewCall
<1>4. ASSUME NEW p \in Path, NEW c \in TM!FileState, TM!Edit(p, c)
      PROVE  TMP!Environment
  BY <1>4 DEF TM!Edit, TMP!Edit, TM!Idle, TMP!Idle, TM!FileState, TMP!FileState,
     TMP!Environment
<1>5. txUnchanged => UNCHANGED TMP!txVars
  BY DEF txUnchanged, TMP!txVars
<1>. QED
  BY <1>1, <1>2, <1>3, <1>4, <1>5 DEF TMP!Next

\* What is prepared is a transaction with a fresh record.
LEMMA Prepared ==
  ASSUME TM!TypeOK, NEW request \in Requests, TM!Prepare(request),
         NEW id, id = [operation |-> request.operation, source |-> files,
                       candidate |-> request.candidate]
  PROVE  /\ id \in TM!TxId /\ id.source = files
         /\ Known' = Known \cup {id}
         /\ records'[id].status = "PREPARED"
         /\ \A i \in Known \ {id} : records'[i] = records[i]
         /\ TM!Idle /\ TM!Idle' /\ UNCHANGED <<files, phase, current, work, edits>>
         /\ TM!TypeOK'
<1>1. id \in TM!TxId
  BY TransactionAssumption DEF TM!TypeOK, TM!TxId
<1>2. PICK filed \in BOOLEAN :
        /\ records' = [i \in Known \cup {id} |->
                         IF i = id THEN [TM!FreshRecord EXCEPT !.filed = filed] ELSE records[i]]
        /\ TM!File(filed)
  BY DEF TM!Prepare, Known, TM!Known
<1>. DEFINE fresh == [TM!FreshRecord EXCEPT !.filed = filed]
<1>3. fresh \in TM!Record /\ fresh.status = "PREPARED"
  BY DEF TM!FreshRecord, TM!Record, TM!Status, TM!Workspace
<1>4. TM!Idle /\ UNCHANGED <<files, phase, current, work, edits>>
  BY DEF TM!Prepare
<1>. HIDE DEF fresh
<1>5. Known' = Known \cup {id} /\ records' \in [Known' -> TM!Record]
  BY <1>2, <1>3 DEF TM!TypeOK, TM!Known, Known, fresh
<1>6. /\ records'[id].status = "PREPARED"
      /\ \A i \in Known \ {id} : records'[i] = records[i]
  BY <1>2, <1>3 DEF fresh
<1>7. faults' \in 0..MaxFaults
  BY <1>2, TransactionAssumption DEF TM!File, TM!Fault, TM!TypeOK, TM!BoundAssumption
<1>8. TM!TypeOK'
  BY <1>1, <1>4, <1>5, <1>7 DEF TM!TypeOK, TM!Known, Known, TM!Idle, TM!Remaining
<1>. QED
  BY <1>1, <1>4, <1>5, <1>6, <1>8 DEF Known, TM!Idle

\* A status changes with the flag that says whether the record could be filed.
LEMMA StatusChange ==
  ASSUME TM!TypeOK, NEW id \in Known, NEW s, TM!SetStatus(id, s)
  PROVE  /\ Known' = Known
         /\ records'[id].status = s
         /\ records'[id].after = records[id].after
         /\ \A i \in Known \ {id} : records'[i] = records[i]
<1>1. PICK filed \in BOOLEAN :
        records' = [records EXCEPT ![id].status = s, ![id].filed = filed]
  BY DEF TM!SetStatus
<1>2. records \in [Known -> TM!Record]
  BY DEF TM!TypeOK, TM!Known, Known
<1>3. /\ Known' = Known
      /\ records'[id] = [records[id] EXCEPT !.status = s, !.filed = filed]
      /\ \A i \in Known \ {id} : records'[i] = records[i]
  BY <1>1, <1>2 DEF Known
<1>. QED
  BY <1>2, <1>3 DEF TM!Record

\* The end of an apply changes the status and the witness of its transaction.
LEMMA ApplyEnd ==
  ASSUME TM!TypeOK, TM!FinishApply
  PROVE  /\ current \in Known /\ phase = "backup" /\ TM!Remaining = {} /\ phase' = "idle"
         /\ Known' = Known
         /\ records'[current].status = "APPLIED" /\ records'[current].after = files
         /\ \A i \in Known \ {current} : records'[i] = records[i]
<1>1. PICK filed \in BOOLEAN :
        records' = [records EXCEPT ![current].status = "APPLIED",
                                   ![current].after = files, ![current].filed = filed]
  BY DEF TM!FinishApply
<1>2. records \in [Known -> TM!Record] /\ current \in Known
  BY DEF TM!TypeOK, TM!FinishApply, TM!Idle, TM!Known, Known
<1>3. /\ Known' = Known
      /\ records'[current] = [records[current] EXCEPT !.status = "APPLIED", !.after = files,
                                                      !.filed = filed]
      /\ \A i \in Known \ {current} : records'[i] = records[i]
  BY <1>1, <1>2 DEF Known
<1>. QED
  BY <1>2, <1>3 DEF TM!Record, TM!FinishApply, TM!Return

\* What a step of a call of the transaction manager does to its transaction.
Same(id) ==
  records'[id].status = records[id].status /\ records'[id].filed = records[id].filed
Moves ==
  \/ \A id \in Known : Same(id)
  \/ /\ call.op = "apply" /\ Status(call.tx) = "PREPARED" /\ TM!Idle'
     /\ records'[call.tx].status = "APPLIED"
     /\ \A id \in Known \ {call.tx} : Same(id)
  \/ /\ call.op = "rollback" /\ TM!Idle'
     /\ records'[call.tx].status = "ROLLED_BACK"
     /\ \A id \in Known \ {call.tx} : Same(id)
Ongoing == {"backup", "replace", "check", "undo"}
LEMMA CallMoves ==
  ASSUME TM!TypeOK, Calls, TM!CallStep \/ TM!FaultStep
  PROVE  /\ Known' = Known /\ call.tx \in Known /\ ~TM!Idle
         /\ Moves
         /\ ~TM!Idle' => /\ current' = current
                         /\ records'[current].status = records[current].status
         /\ phase' = "restore" => phase = "restore"
         /\ phase' \in Ongoing => phase \in Ongoing
<1>1. /\ ~TM!Idle
      /\ phase \in {"undo", "restore"} \/ TM!Applying
      /\ TM!BackupTarget \/ TM!ReplaceTarget \/ TM!CheckTarget \/ TM!FinishApply
           \/ TM!FinishUndo \/ TM!WriteFault \/ TM!SnapshotFault => phase \in Ongoing
  BY DEF TM!CallStep, TM!FaultStep, TM!BackupTarget, TM!ReplaceTarget, TM!CheckTarget,
         TM!FinishApply, TM!RestoreTarget, TM!FinishUndo, TM!FinishRollback, TM!WriteFault,
         TM!SnapshotFault, TM!RestoreFault, TM!Applying, TM!Idle, Ongoing
<1>2. /\ call.tx = current /\ current \in Known /\ records \in [Known -> TM!Record]
      /\ phase \in Ongoing => call.op = "apply" /\ Status(current) = "PREPARED"
      /\ phase = "restore" => call.op = "rollback"
  BY <1>1 DEF Calls, TM!TypeOK, TM!Known, Known, Ongoing
<1>. DEFINE Goal == /\ Known' = Known /\ Moves
                    /\ ~TM!Idle' => /\ current' = current
                                    /\ records'[current].status = records[current].status
                    /\ phase' = "restore" => phase = "restore"
                    /\ phase' \in Ongoing => phase \in Ongoing
<1>3. CASE TM!BackupTarget
  <2>1. /\ Known' = Known /\ \A id \in Known : Same(id)
        /\ phase' = "replace" /\ current' = current
    BY <1>2, <1>3 DEF TM!BackupTarget, TM!Record, Known, Same
  <2>. QED
    BY <1>1, <1>2, <1>3, <2>1 DEF Moves, Same
<1>4. CASE TM!FinishApply
  <2>1. /\ Known' = Known /\ TM!Idle' /\ phase' = "idle"
        /\ records'[current].status = "APPLIED"
        /\ \A id \in Known \ {current} : Same(id)
    BY <1>4, ApplyEnd DEF TM!Idle, Same
  <2>2. phase \in Ongoing
    BY <1>1, <1>4
  <2>. QED
    BY <1>1, <1>2, <2>1, <2>2 DEF Moves, Ongoing
<1>5. CASE TM!FinishRollback
  <2>1. /\ Known' = Known /\ TM!Idle' /\ phase' = "idle" /\ phase = "restore"
        /\ records'[current].status = "ROLLED_BACK"
        /\ \A id \in Known \ {current} : Same(id)
    BY <1>2, <1>5, StatusChange DEF TM!FinishRollback, TM!Return, TM!Idle, Same
  <2>. QED
    BY <1>1, <1>2, <2>1 DEF Moves, Ongoing
<1>6. CASE \/ TM!ReplaceTarget \/ TM!CheckTarget \/ TM!RestoreTarget \/ TM!FinishUndo
           \/ TM!WriteFault \/ TM!SnapshotFault \/ TM!RestoreFault
  <2>1. records' = records /\ (~TM!Idle' => current' = current)
        /\ (phase' = "restore" => phase = "restore") /\ (phase' \in Ongoing => phase \in Ongoing)
    BY <1>6, <1>1 DEF TM!ReplaceTarget, TM!CheckTarget, TM!RestoreTarget, TM!FinishUndo,
              TM!WriteFault, TM!SnapshotFault, TM!RestoreFault, TM!Return, TM!Idle, Ongoing,
              TM!Applying
  <2>. QED
    BY <1>1, <1>2, <2>1 DEF Moves, Same, Known
<1>. QED
  BY <1>1, <1>2, <1>3, <1>4, <1>5, <1>6 DEF TM!CallStep, TM!FaultStep

\* A process that runs has an authority, of a snapshot or of a transaction.
LEMMA AuthorityStep ==
  IInv /\ [Next]_agentVars => up' \in BOOLEAN /\ (up' => authority' \in Authority)
<1>. SUFFICES ASSUME IInv, [Next]_agentVars
              PROVE  up' \in BOOLEAN /\ (up' => authority' \in Authority)
  OBVIOUS
<1>1. CASE Crash
  BY <1>1 DEF Crash
<1>2. ASSUME NEW a \in {Manifest(files), read_only_authority(files)}
                  \cup {state.binding[id].authority : id \in Known},
             NEW recovery, Restart(a, recovery)
      PROVE  up' \in BOOLEAN /\ (up' => authority' \in Authority)
  <2>1. files \in TM!Workspace /\ state.binding \in [Known -> Binding]
    BY DEF IInv, TM!TypeOK, Sane, StateType, Known
  <2>2. a \in Authority
    <3>1. Manifest(files) \in Authority /\ read_only_authority(files) \in Authority
      BY <2>1 DEF Manifest, read_only_authority, Authority
    <3>2. \A id \in Known : state.binding[id].authority \in Authority
      BY <2>1 DEF Binding
    <3>. QED
      BY <3>1, <3>2
  <2>. QED
    BY <1>2, <2>2 DEF Restart
<1>3. CASE UNCHANGED <<up, authority>>
  BY <1>3 DEF IInv
<1>4. GovernanceTool \/ TransactionTool \/ EndOfCall \/ UNCHANGED agentVars
        \/ (\E p \in Path, c \in TM!FileState : Edit(p, c)) => UNCHANGED <<up, authority>>
  BY DEF GovernanceTool, EstablishGovernance, ProposeEonAction, RecordObservation,
         RunReadCommand, SubmitEvidenceGate, TransactionTool, PrepareTransaction, ApplyTransaction,
         FinalizeTransaction, DiscardTransaction, RollbackTransaction, RunCommand, EndOfCall,
         TransactionStep, EndApply, EndRollback, RecordCommand, CommandTimeout, EndCommand, Edit,
         procUnchanged, agentVars
<1>. QED
  BY <1>1, <1>2, <1>3, <1>4 DEF Next, Environment

-----------------------------------------------------------------------------
\* What a step of the agent is to the transaction manager.
LEMMA ManagerSteps ==
  ASSUME [Next]_agentVars
  PROVE  \/ Crash
         \/ \E request \in Requests : PrepareTransaction(request)
         \/ [TMP!Next]_(TMP!txVars)
<1>1. CASE txUnchanged
  BY <1>1, SameSteps
<1>2. CASE TransactionStep
  BY <1>2, SameSteps DEF TransactionStep
<1>3. ASSUME NEW id \in Known, \/ ApplyTransaction(id) \/ RollbackTransaction(id)
                               \/ FinalizeTransaction(id, state.evidence) \/ DiscardTransaction(id)
      PROVE  TMP!Next
  BY <1>3, SameSteps DEF ApplyTransaction, RollbackTransaction, FinalizeTransaction,
                         DiscardTransaction
<1>4. ASSUME NEW p \in Path, NEW c \in TM!FileState, Edit(p, c)
      PROVE  TMP!Next
  BY <1>4, SameSteps DEF Edit
<1>5. GovernanceTool \/ (\E command \in Command : RunCommand(command)) \/ UNCHANGED agentVars
        \/ (\E a, recovery : Restart(a, recovery)) => txUnchanged
  BY DEF GovernanceTool, EstablishGovernance, ProposeEonAction, RecordObservation,
         RunReadCommand, SubmitEvidenceGate, RunCommand, Restart, agentVars, txUnchanged
<1>6. EndApply \/ EndRollback \/ CommandTimeout \/ EndCommand
        \/ (\E success \in BOOLEAN : RecordCommand(success)) => txUnchanged
  BY DEF EndApply, EndRollback, RecordCommand, CommandTimeout, EndCommand
<1>. QED
  BY <1>1, <1>2, <1>3, <1>4, <1>5, <1>6 DEF Next, TransactionTool, EndOfCall, Environment

\* The files, records and the call of the transaction manager keep their types.
LEMMA FilesStep == IInv /\ [Next]_agentVars => TM!TypeOK'
<1>. SUFFICES ASSUME IInv, [Next]_agentVars PROVE TM!TypeOK'
  OBVIOUS
<1>a. TM!TypeOK
  BY DEF IInv
<1>1. CASE [TMP!Next]_(TMP!txVars)
  BY <1>a, <1>1, TransactionType
<1>2. ASSUME NEW request \in Requests, PrepareTransaction(request)
      PROVE  TM!TypeOK'
  BY <1>a, <1>2, Prepared DEF PrepareTransaction
<1>3. CASE Crash
  <2>1. RecordsType(records')
    BY <1>3 DEF Crash, IInv, Sane
  <2>2. /\ files' = files /\ edits' = edits /\ faults' = faults
        /\ phase' = "idle" /\ current' = None /\ work' = {}
    BY <1>3 DEF Crash
  <2>. QED
    BY <1>a, <2>1, <2>2 DEF TM!TypeOK, RecordsType, TM!Known, TM!Idle, TM!Phase, TM!Remaining
<1>. QED
  BY <1>1, <1>2, <1>3, ManagerSteps

\* The parts of a state that is sane.
LEMMA OfSane ==
  ASSUME NEW recs, NEW st, Sane(recs, st)
  PROVE  /\ RecordsType(recs) /\ StateType(recs, st) /\ Single(recs) /\ Bound(recs, st) /\ Sound(st)
         /\ st.action # None => st.action \in Pending
  BY DEF Sane, StateType

\* A state with the same transactions that drops its action, or keeps it with its
\* binding and its gate, stays sane.
LEMMA SaneDrops ==
  ASSUME NEW recs, NEW st, Sane(recs, st), NEW g, NEW ev, IsFiniteSet(ev),
         NEW st2, st2 = [governance |-> g, action |-> None, useCount |-> 0, gate |-> None,
                         active |-> st.active, evidence |-> ev, binding |-> st.binding]
  PROVE  Sane(recs, st2) /\ (Active(recs, st) => Active(recs, st2))
  BY DEF Sane, StateType, Bound, Sound, Active
LEMMA SaneKeeps ==
  ASSUME NEW recs, NEW st, Sane(recs, st), NEW n, NEW ev, IsFiniteSet(ev),
         st.action # None => n \in 0..st.action.limit, NEW ac, ac \in DOMAIN recs \cup {None},
         NEW st2, st2 = [governance |-> st.governance, action |-> st.action, useCount |-> n,
                         gate |-> st.gate, active |-> ac, evidence |-> ev,
                         binding |-> st.binding]
  PROVE  Sane(recs, st2)
  BY DEF Sane, StateType, Bound, Sound, ActionOf
\* The statuses of the transactions may change, as long as one is unresolved.
LEMMA SaneMoves ==
  ASSUME NEW recs, NEW st, Sane(recs, st), NEW recs2, RecordsType(recs2),
         DOMAIN recs2 = DOMAIN recs, Single(recs2)
  PROVE  Sane(recs2, st)
  BY DEF Sane, StateType, Bound

\* What a rollback releases is sane, and nothing is active.
LEMMA ReleasedSane ==
  ASSUME NEW recs, Sane(recs, state), NEW id
  PROVE  Sane(recs, Released(id)) /\ Active(recs, Released(id))
<1>. DEFINE bound == state.action # None /\ state.action.tx = id
<1>1. StateType(recs, state)
  BY DEF Sane
<1>2. Released(id) = [state EXCEPT !.active = None,
                                   !.action = IF bound THEN None ELSE state.action,
                                   !.useCount = IF bound THEN 0 ELSE state.useCount,
                                   !.gate = IF bound THEN None ELSE state.gate]
  BY DEF Released
<1>. HIDE DEF bound
<1>3. CASE bound
  <2>1. Released(id) = [governance |-> state.governance, action |-> None, useCount |-> 0,
                        gate |-> None, active |-> None, evidence |-> state.evidence,
                        binding |-> state.binding]
    BY <1>1, <1>2, <1>3 DEF StateType
  <2>. QED
    BY <2>1 DEF Sane, StateType, Bound, Sound, Active
<1>4. CASE ~bound
  <2>1. Released(id) = [governance |-> state.governance, action |-> state.action,
                        useCount |-> state.useCount,
                        gate |-> state.gate, active |-> None, evidence |-> state.evidence,
                        binding |-> state.binding]
    BY <1>1, <1>2, <1>4 DEF StateType
  <2>. QED
    BY <1>1, <2>1, SaneKeeps DEF StateType, Active
<1>. QED
  BY <1>3, <1>4

\* An artifact more is a finite set of artifacts still.
LEMMA RecordFinite ==
  ASSUME NEW recs, StateType(recs, state), NEW artifact
  PROVE  IsFiniteSet(Record(artifact))
  BY FS_AddElement DEF Record, StateType

-----------------------------------------------------------------------------
(***************************************************************************)
(* The tools that only govern.                                             *)
(***************************************************************************)
LEMMA GovernanceStep ==
  ASSUME IInv, GovernanceTool
  PROVE  Sane(records', state') /\ Active(records', state')
<1>a. /\ TM!TypeOK /\ Sane(records, state) /\ StateType(records, state)
      /\ records' = records /\ Ready /\ authority \in Authority /\ Active(records, state)
  <2>1. Ready /\ txUnchanged
    BY DEF GovernanceTool, EstablishGovernance, ProposeEonAction, RecordObservation,
           RunReadCommand, SubmitEvidenceGate
  <2>. QED
    BY <2>1 DEF IInv, Sane, Ready, RolledBack, txUnchanged
<1>1. ASSUME NEW scope \in Scopes, EstablishGovernance(scope)
      PROVE  Sane(records', state') /\ Active(records', state')
  <2>1. state' = [governance |-> [authority |-> authority, scope |-> scope], action |-> None,
                  useCount |-> 0,
                  gate |-> None, active |-> state.active, evidence |-> state.evidence,
                  binding |-> state.binding]
    BY <1>a, <1>1 DEF EstablishGovernance, StateType
  <2>. QED
    BY <1>a, <2>1, SaneDrops DEF StateType
<1>2. ASSUME NEW tx \in Known \cup {None}, NEW proposal \in Proposals,
             ProposeEonAction(tx, proposal)
      PROVE  Sane(records', state') /\ Active(records', state')
  <2>. DEFINE action == [tx |-> tx, source |-> files, authority |-> authority,
                         risk |-> proposal.risk, limit |-> proposal.limit,
                         commands |-> proposal.commands, tests |-> proposal.tests]
              binding == IF tx = None THEN state.binding
                         ELSE [state.binding EXCEPT ![tx].action = action]
  <2>1. action \in Pending /\ action.tx = tx /\ action.limit \in 1..20
    BY <1>a, AgentAssumption DEF Proposal, Pending, TM!TypeOK, TM!Known, Known
  <2>2. state' = [governance |-> state.governance, action |-> action, useCount |-> 0,
                  gate |-> None, active |-> state.active, evidence |-> state.evidence,
                  binding |-> binding]
    BY <1>a, <1>2 DEF ProposeEonAction, StateType
  <2>. HIDE DEF action
  <2>3. /\ binding \in [Known -> Binding]
        /\ tx # None => binding[tx].action = action
    BY <1>a, <2>1 DEF StateType, Binding, Known
  <2>. HIDE DEF binding
  <2>4. StateType(records, state')
    BY <1>a, <2>1, <2>2, <2>3 DEF StateType, Known
  <2>5. Bound(records, state') /\ Sound(state') /\ Active(records, state')
    BY <1>a, <2>1, <2>2, <2>3 DEF Bound, Sound, Active, ActionOf, Known
  <2>. QED
    BY <1>a, <2>4, <2>5 DEF Sane
<1>3. CASE RecordObservation
  <2>1. state' = [governance |-> state.governance, action |-> state.action,
                  useCount |-> state.useCount,
                  gate |-> state.gate, active |-> state.active,
                  evidence |-> Record(Artifact("observation", TRUE)),
                  binding |-> state.binding]
    BY <1>a, <1>3 DEF RecordObservation, StateType
  <2>2. IsFiniteSet(Record(Artifact("observation", TRUE)))
    BY <1>a, RecordFinite
  <2>3. Sane(records, state')
    BY <1>a, <2>1, <2>2, SaneKeeps DEF StateType
  <2>. QED
    BY <1>a, <2>1, <2>3 DEF Active
<1>4. ASSUME NEW items \in Citations, NEW approval \in Approvals,
             SubmitEvidenceGate(items, approval)
      PROVE  Sane(records', state') /\ Active(records', state')
  <2>. DEFINE verdict == IF Cardinality(items) < RequiredArtifacts(state.action.risk)
                         THEN "REQUEST_EVIDENCE" ELSE approval.verdict
              gate == [action |-> state.action, verdict |-> verdict, evidence |-> items,
                       maxUses |-> approval.maxUses]
  <2>1. state' = [governance |-> state.governance, action |-> state.action,
                  useCount |-> state.useCount,
                  gate |-> gate, active |-> state.active, evidence |-> state.evidence,
                  binding |-> state.binding]
    BY <1>a, <1>4 DEF SubmitEvidenceGate, StateType
  <2>2. items \subseteq state.evidence
    BY DEF Citations
  <2>3. Cardinality(items) \in Nat
    BY <1>a, <2>2, FS_Subset, FS_CardinalityType DEF StateType
  <2>4. state.action \in Pending
    BY <1>a, <1>4 DEF SubmitEvidenceGate, CurrentAction, StateType
  <2>5. RequiredArtifacts(state.action.risk) \in Nat
    BY <2>4 DEF Pending, Risk, RequiredArtifacts
  <2>6. \A e \in items : e.artifact.action = state.action /\ e.artifact.source = state.action.source
    BY <1>4 DEF SubmitEvidenceGate
  <2>7. Sound(state')
    BY <2>1, <2>3, <2>5, <2>6 DEF Sound
  <2>8. StateType(records, state') /\ Bound(records, state') /\ Active(records, state')
    BY <1>a, <2>1 DEF Sane, StateType, Bound, Active, ActionOf
  <2>. QED
    BY <1>a, <2>7, <2>8 DEF Sane
<1>5. ASSUME NEW command \in Command, NEW success \in BOOLEAN, RunReadCommand(command, success)
      PROVE  Sane(records', state') /\ Active(records', state')
  <2>1. state' = [governance |-> state.governance, action |-> state.action,
                  useCount |-> state.useCount,
                  gate |-> state.gate, active |-> state.active,
                  evidence |-> Record(Artifact(command, success)),
                  binding |-> state.binding]
    BY <1>a, <1>5 DEF RunReadCommand, StateType
  <2>2. IsFiniteSet(Record(Artifact(command, success)))
    BY <1>a, RecordFinite
  <2>3. Sane(records, state')
    BY <1>a, <2>1, <2>2, SaneKeeps DEF StateType
  <2>. QED
    BY <1>a, <2>1, <2>3 DEF Active
<1>. QED
  BY <1>1, <1>2, <1>3, <1>4, <1>5 DEF GovernanceTool

-----------------------------------------------------------------------------
\* A change of statuses that leaves nothing unresolved that was not.
LEMMA SingleStays ==
  ASSUME NEW recs, Single(recs), NEW recs2, DOMAIN recs2 = DOMAIN recs,
         \A id \in DOMAIN recs : recs2[id].status \in {"PREPARED", "APPLIED"}
                                  => recs[id].status \in {"PREPARED", "APPLIED"}
  PROVE  Single(recs2)
  BY DEF Single, UnresolvedIn

\* A record that could not be filed may stay the active one.
LEMMA ActiveMoves ==
  ASSUME NEW recs, NEW st, Active(recs, st), NEW recs2, DOMAIN recs2 = DOMAIN recs,
         NEW id, ~recs2[id].filed, \A i \in DOMAIN recs \ {id} : recs2[i] = recs[i],
         st.active \in DOMAIN recs \cup {None}
  PROVE  Active(recs2, st)
  BY DEF Active, UnresolvedIn

(***************************************************************************)
(* The tools that prepare, apply, finalize, discard and roll back.         *)
(***************************************************************************)
LEMMA TransactionToolStep ==
  ASSUME IInv, TransactionTool, TM!TypeOK'
  PROVE  Sane(records', state') /\ Active(records', state')
<1>a. /\ TM!TypeOK /\ Sane(records, state) /\ StateType(records, state) /\ Ready
      /\ authority \in Authority /\ Active(records, state) /\ Single(records)
  <2>1. Ready
    BY DEF TransactionTool, PrepareTransaction, ApplyTransaction, FinalizeTransaction,
           DiscardTransaction, RollbackTransaction, RunCommand
  <2>. QED
    BY <2>1 DEF IInv, Sane, Ready, RolledBack
<1>b. RecordsType(records') /\ records \in [Known -> TM!Record]
  BY <1>a DEF TM!TypeOK, RecordsType, TM!Known, Known
<1>1. ASSUME NEW request \in Requests, PrepareTransaction(request)
      PROVE  Sane(records', state') /\ Active(records', state')
  <2>. DEFINE id == [operation |-> request.operation, source |-> files,
                     candidate |-> request.candidate]
  <2>. HIDE DEF id
  <2>1. /\ TM!Prepare(request) /\ UnresolvedIn(records) = {}
        /\ state' = [state EXCEPT
             !.active = IF records'[id].filed THEN id ELSE @,
             !.binding = [i \in Known \cup {id} |->
                            IF i = id THEN [authority |-> authority, action |-> None] ELSE @[i]]]
    BY <1>1 DEF PrepareTransaction, RequireNoUnresolved, id
  <2>2. /\ id \in TM!TxId /\ Known' = Known \cup {id} /\ records'[id].status = "PREPARED"
        /\ \A i \in Known \ {id} : records'[i] = records[i]
    BY <1>a, <2>1, Prepared DEF id
  <2>3. UnresolvedIn(records') = {id}
    BY <2>1, <2>2 DEF UnresolvedIn, Known
  <2>. DEFINE active == IF records'[id].filed THEN id ELSE state.active
  <2>. DEFINE binding == [i \in Known \cup {id} |->
                            IF i = id THEN [authority |-> authority, action |-> None]
                                      ELSE state.binding[i]]
  <2>4. state' = [governance |-> state.governance, action |-> state.action,
                  useCount |-> state.useCount,
                  gate |-> state.gate, active |-> active, evidence |-> state.evidence,
                  binding |-> binding]
    BY <1>a, <2>1 DEF StateType
  <2>5. binding \in [Known' -> Binding]
    BY <1>a, <2>2 DEF StateType, Binding, Known
  <2>6. \A i \in Known' :
          binding[i].action \in {None} \cup {state.binding[j].action : j \in {i} \cap Known}
    BY <2>2
  <2>. HIDE DEF binding
  <2>a. /\ active \in Known' \cup {None}
        /\ active # None => active = id \/ ~records'[active].filed
    BY <1>a, <2>1, <2>2 DEF StateType, Active, Known
  <2>. HIDE DEF active
  <2>7. StateType(records', state')
    BY <1>a, <2>2, <2>4, <2>5, <2>a DEF StateType, Known
  <2>8. Bound(records', state')
    BY <1>a, <2>2, <2>4, <2>6 DEF Sane, Bound, ActionOf, Known
  <2>9. Single(records') /\ Sound(state') /\ Active(records', state')
    BY <1>a, <2>3, <2>4, <2>a DEF Sane, Single, Sound, Active
  <2>. QED
    BY <1>b, <2>7, <2>8, <2>9 DEF Sane
<1>2. ASSUME NEW id \in Known, FinalizeTransaction(id, state.evidence)
      PROVE  Sane(records', state') /\ Active(records', state')
  <2>1. /\ DOMAIN records' = Known /\ records'[id].status = "VERIFIED"
        /\ records[id].status = "APPLIED"
        /\ \A i \in Known \ {id} : records'[i] = records[i]
    BY <1>a, <1>2, StatusChange DEF FinalizeTransaction, TM!Finalize, TM!StatusOf, Known
  <2>2. Single(records')
    BY <1>a, <2>1, SingleStays DEF Known
  <2>3. Sane(records', state)
    BY <1>a, <1>b, <2>1, <2>2, SaneMoves DEF Known
  <2>4. CASE records'[id].filed
    <3>1. state' = [governance |-> state.governance, action |-> state.action,
                    useCount |-> state.useCount,
                    gate |-> state.gate, active |-> None, evidence |-> state.evidence,
                    binding |-> state.binding]
      BY <1>a, <1>2, <2>4 DEF FinalizeTransaction, StateType
    <3>. QED
      BY <1>a, <3>1, <2>3, SaneKeeps DEF StateType, Active
  <2>5. CASE ~records'[id].filed
    <3>1. state' = state
      BY <1>a, <1>2, <2>5 DEF FinalizeTransaction, StateType
    <3>. QED
      BY <1>a, <2>1, <2>3, <2>5, <3>1, ActiveMoves DEF StateType, Known
  <2>. QED
    BY <2>4, <2>5
<1>3. ASSUME NEW id \in Known, DiscardTransaction(id)
      PROVE  Sane(records', state') /\ Active(records', state')
  <2>1. /\ DOMAIN records' = Known /\ records'[id].status = "DISCARDED"
        /\ \A i \in Known \ {id} : records'[i] = records[i]
    BY <1>a, <1>3, StatusChange DEF DiscardTransaction, TM!Discard, Known
  <2>2. Single(records')
    BY <1>a, <2>1, SingleStays DEF Known
  <2>3. Sane(records', state)
    BY <1>a, <1>b, <2>1, <2>2, SaneMoves DEF Known
  <2>4. CASE records'[id].filed
    BY <1>3, <2>3, <2>4, ReleasedSane DEF DiscardTransaction
  <2>5. CASE ~records'[id].filed
    <3>1. state' = state
      BY <1>3, <2>5 DEF DiscardTransaction
    <3>. QED
      BY <1>a, <2>1, <2>3, <2>5, <3>1, ActiveMoves DEF StateType, Known
  <2>. QED
    BY <2>4, <2>5
<1>4. ASSUME \/ \E id \in Known : ApplyTransaction(id) \/ RollbackTransaction(id)
             \/ \E command \in Command : RunCommand(command)
      PROVE  Sane(records', state') /\ Active(records', state')
  <2>1. records' = records /\ state' = state
    BY <1>4 DEF ApplyTransaction, TM!StartApply, RollbackTransaction, TM!StartRollback,
       RunCommand,
              txUnchanged
  <2>. QED
    BY <1>a, <2>1
<1>. QED
  BY <1>1, <1>2, <1>3, <1>4 DEF TransactionTool

(***************************************************************************)
(* The rest of a call: the transaction manager, a command, the end.        *)
(***************************************************************************)
LEMMA TransactionStepSane ==
  ASSUME IInv, TransactionStep, TM!TypeOK'
  PROVE  Sane(records', state') /\ (Active(records', state') \/ RolledBack')
<1>1. /\ TM!TypeOK /\ Calls /\ Sane(records, state) /\ Single(records)
      /\ Active(records, state) \/ RolledBack
      /\ state' = state /\ call' = call /\ call # None /\ (TM!CallStep \/ TM!FaultStep)
  BY DEF IInv, Sane, TransactionStep
<1>2. Known' = Known /\ call.tx \in Known /\ Moves
  BY <1>1, CallMoves
<1>a. state.active \in DOMAIN records \cup {None}
  BY <1>1 DEF Sane, StateType
<1>3. RecordsType(records') /\ DOMAIN records' = DOMAIN records
  BY <1>2 DEF TM!TypeOK, RecordsType, TM!Known, Known
<1>4. CASE \A id \in Known : Same(id)
  <2>1. UnresolvedIn(records') = UnresolvedIn(records)
    BY <1>3, <1>4 DEF UnresolvedIn, Known, Same
  <2>2. Single(records')
    BY <1>1, <2>1 DEF Single
  <2>3. RolledBack => RolledBack'
    BY <1>1, <1>2, <1>4 DEF RolledBack, Status, Same
  <2>4. Active(records, state) => Active(records', state')
    BY <1>1, <1>a, <1>4, <2>1 DEF Active, Same, Known
  <2>. QED
    BY <1>1, <1>3, <2>2, <2>3, <2>4, SaneMoves
<1>5. CASE /\ call.op = "apply" /\ Status(call.tx) = "PREPARED"
           /\ records'[call.tx].status = "APPLIED"
           /\ \A id \in Known \ {call.tx} : Same(id)
  <2>1. UnresolvedIn(records') = UnresolvedIn(records)
    BY <1>2, <1>3, <1>5 DEF UnresolvedIn, Known, Status, Same
  <2>2. Single(records') /\ ~RolledBack
    BY <1>1, <1>5, <2>1 DEF Single, RolledBack
  <2>3. call.tx \in UnresolvedIn(records')
    BY <1>2, <1>5 DEF UnresolvedIn, Known
  <2>4. Active(records', state')
    BY <1>1, <1>a, <1>5, <2>1, <2>2, <2>3 DEF Active, Same, Known
  <2>. QED
    BY <1>1, <1>3, <2>2, <2>4, SaneMoves
<1>6. CASE /\ call.op = "rollback" /\ records'[call.tx].status = "ROLLED_BACK"
           /\ \A id \in Known \ {call.tx} : Same(id)
  <2>1. Single(records')
    BY <1>1, <1>2, <1>3, <1>6, SingleStays DEF Known, Same
  <2>2. records'[call.tx].filed => RolledBack'
    BY <1>1, <1>2, <1>6 DEF RolledBack, Status
  <2>3. ASSUME ~records'[call.tx].filed
        PROVE  Active(records', state')
    <3>1. ~RolledBack => Active(records', state')
      <4>1. ASSUME state.active # None, state.active # call.tx, Active(records, state)
            PROVE  state.active \in UnresolvedIn(records') \/ ~records'[state.active].filed
        BY <1>a, <1>3, <1>6, <4>1 DEF Active, UnresolvedIn, Same, Known
      <4>. QED
        BY <1>1, <2>3, <4>1 DEF Active
    <3>2. ~RolledBack
      <4>1. ~TM!Idle /\ call.tx = current
        BY <1>1, CallMoves DEF Calls
      <4>2. phase \notin Ongoing => phase = "restore"
        BY <1>1, <4>1 DEF TM!TypeOK, TM!Phase, TM!Idle, Ongoing
      <4>. QED
        BY <1>1, <1>6, <4>1, <4>2 DEF Calls, RolledBack, Ongoing
    <3>. QED
      BY <3>1, <3>2
  <2>. QED
    BY <1>1, <1>3, <2>1, <2>2, <2>3, SaneMoves
<1>. QED
  BY <1>2, <1>4, <1>5, <1>6 DEF Moves

LEMMA EndStep ==
  ASSUME IInv, \/ EndApply \/ EndRollback \/ CommandTimeout \/ EndCommand
               \/ \E success \in BOOLEAN : RecordCommand(success)
  PROVE  Sane(records', state') /\ Active(records', state')
<1>a. /\ Sane(records, state) /\ StateType(records, state) /\ records' = records /\ Calls
      /\ call # None /\ (Active(records, state) \/ RolledBack)
  <2>1. txUnchanged /\ call # None
    BY DEF EndApply, EndRollback, RecordCommand, CommandTimeout, EndCommand
  <2>. QED
    BY <2>1 DEF IInv, Sane, txUnchanged
<1>b. state.active \in DOMAIN records \cup {None} /\ IsFiniteSet(state.evidence)
      /\ (state.action # None => /\ state.action.limit \in Nat
                                /\ state.useCount \in 0..state.action.limit)
  BY <1>a DEF StateType, Pending
<1>1. CASE EndRollback
  <2>1. CASE Status(call.tx) = "ROLLED_BACK" /\ records[call.tx].filed
    BY <1>a, <1>1, <2>1, ReleasedSane DEF EndRollback
  <2>2. CASE ~(Status(call.tx) = "ROLLED_BACK" /\ records[call.tx].filed)
    BY <1>a, <1>1, <2>2 DEF EndRollback, RolledBack
  <2>. QED
    BY <2>1, <2>2
<1>2. CASE CommandTimeout
  BY <1>a, <1>2 DEF CommandTimeout, RolledBack
<1>3. CASE EndApply \/ EndCommand
  <2>1. /\ call.op # "rollback"
        /\ \/ state' = state
           \/ state' = [governance |-> state.governance, action |-> state.action,
                        useCount |-> state.useCount + 1,
                        gate |-> state.gate, active |-> state.active, evidence |-> state.evidence,
                        binding |-> state.binding]
    BY <1>a, <1>3 DEF EndApply, EndCommand, StateType
  <2>2. Active(records, state) /\ state.useCount + 1 \in 0..state.action.limit
    BY <1>a, <1>b, <2>1 DEF RolledBack, Calls
  <2>3. CASE state' = state
    BY <1>a, <2>2, <2>3
  <2>4. CASE state' = [governance |-> state.governance, action |-> state.action,
                       useCount |-> state.useCount + 1,
                       gate |-> state.gate, active |-> state.active, evidence |-> state.evidence,
                       binding |-> state.binding]
    <3>1. Sane(records, state')
      BY <1>a, <1>b, <2>2, <2>4, SaneKeeps
    <3>2. state'.active = state.active
      BY <2>4
    <3>. QED
      BY <1>a, <2>2, <3>1, <3>2 DEF Active
  <2>. QED
    BY <2>1, <2>3, <2>4
<1>4. ASSUME NEW success \in BOOLEAN, RecordCommand(success)
      PROVE  Sane(records', state') /\ Active(records', state')
  <2>1. /\ state' = [governance |-> state.governance, action |-> state.action,
                     useCount |-> state.useCount,
                     gate |-> state.gate, active |-> state.active,
                     evidence |-> Record(Artifact(call.command, success)),
                     binding |-> state.binding]
        /\ call.op # "rollback"
    BY <1>a, <1>4 DEF RecordCommand, StateType
  <2>2. IsFiniteSet(Record(Artifact(call.command, success)))
    BY <1>a, RecordFinite
  <2>3. Active(records, state)
    BY <1>a, <2>1 DEF RolledBack
  <2>. QED
    BY <1>a, <1>b, <2>1, <2>2, <2>3, SaneKeeps DEF Active
<1>. QED
  BY <1>1, <1>2, <1>3, <1>4

\* A process that ends goes back to what was saved; the next one starts from it.
LEMMA EnvironmentStep ==
  ASSUME IInv, Crash \/ \E a, recovery : Restart(a, recovery)
  PROVE  Sane(records', state') /\ Active(records', state')
<1>1. CASE Crash
  BY <1>1 DEF Crash, IInv
<1>2. ASSUME NEW a, NEW recovery, Restart(a, recovery)
      PROVE  Sane(records', state') /\ Active(records', state')
  <2>. DEFINE ac == IF UnresolvedIn(records) = {} THEN state.active
                    ELSE CHOOSE id \in UnresolvedIn(records) : TRUE
  <2>1. /\ Sane(records, state) /\ StateType(records, state) /\ records' = records
        /\ Active(records, state)
    BY <1>2 DEF IInv, Sane, Calls, RolledBack, Restart, txUnchanged
  <2>2. state' = [governance |-> state.governance, action |-> state.action,
                  useCount |-> state.useCount, gate |-> state.gate, active |-> ac,
                  evidence |-> state.evidence, binding |-> state.binding]
    BY <1>2, <2>1 DEF Restart, StateType
  <2>3. /\ ac # None => ac \in UnresolvedIn(records) \/ ~records[ac].filed
        /\ ac \in DOMAIN records \cup {None}
    BY <2>1 DEF Active, UnresolvedIn, StateType
  <2>. HIDE DEF ac
  <2>4. Sane(records, state')
    BY <2>1, <2>2, <2>3, SaneKeeps DEF StateType
  <2>. QED
    BY <2>1, <2>2, <2>3, <2>4 DEF Active
<1>. QED
  BY <1>1, <1>2

(***************************************************************************)
(* Every step leaves a sane state; its active transaction is unresolved    *)
(* whenever the state is saved.                                            *)
(***************************************************************************)
LEMMA SaneStep ==
  ASSUME IInv, [Next]_agentVars
  PROVE  /\ Sane(records', state')
         /\ Active(records', state') \/ (RolledBack' /\ saved' = saved)
         /\ saved' = saved \/ saved' = Snapshot(records', state')
<1>. DEFINE Goal == /\ Sane(records', state')
                    /\ Active(records', state') \/ (RolledBack' /\ saved' = saved)
                    /\ saved' = saved \/ saved' = Snapshot(records', state')
<1>a. TM!TypeOK'
  BY FilesStep
<1>1. CASE GovernanceTool
  <2>1. saved' = Snapshot(records', state')
    BY <1>1 DEF GovernanceTool, EstablishGovernance, ProposeEonAction, RecordObservation,
           RunReadCommand, SubmitEvidenceGate, Save
  <2>. QED
    BY <1>1, <2>1, GovernanceStep
<1>2. CASE TransactionTool
  <2>1. saved' = saved \/ saved' = Snapshot(records', state')
    BY <1>2 DEF TransactionTool, PrepareTransaction, ApplyTransaction, FinalizeTransaction,
           DiscardTransaction, RollbackTransaction, RunCommand, Save
  <2>. QED
    BY <1>a, <1>2, <2>1, TransactionToolStep
<1>3. CASE TransactionStep
  <2>1. saved' = saved
    BY <1>3 DEF TransactionStep
  <2>. QED
    BY <1>a, <1>3, <2>1, TransactionStepSane
<1>4. CASE \/ EndApply \/ EndRollback \/ CommandTimeout \/ EndCommand
           \/ \E success \in BOOLEAN : RecordCommand(success)
  <2>1. saved' = Snapshot(records', state')
    BY <1>4 DEF EndApply, EndRollback, RecordCommand, CommandTimeout, EndCommand, Save
  <2>. QED
    BY <1>4, <2>1, EndStep
<1>5. CASE Crash \/ \E a, recovery : Restart(a, recovery)
  <2>1. saved' = saved \/ saved' = Snapshot(records', state')
    BY <1>5 DEF Crash, Restart, Save
  <2>. QED
    BY <1>5, <2>1, EnvironmentStep
<1>6. CASE UNCHANGED <<records, state, saved, call>>
  BY <1>6 DEF IInv, RolledBack, Status
<1>7. UNCHANGED agentVars \/ (\E p \in Path, c \in TM!FileState : Edit(p, c))
        => UNCHANGED <<records, state, saved, call>>
  BY DEF Edit, TM!Edit, agentVars
<1>. QED
  BY <1>1, <1>2, <1>3, <1>4, <1>5, <1>6, <1>7 DEF Next, EndOfCall, Environment

\* What is saved is a sane state with its active transaction unresolved.
LEMMA SavedStep ==
  ASSUME IInv, [Next]_agentVars
  PROVE  /\ saved' = [records |-> saved'.records, state |-> saved'.state]
         /\ Sane(saved'.records, saved'.state) /\ Active(saved'.records, saved'.state)
<1>1. CASE saved' = saved
  BY <1>1 DEF IInv
<1>2. CASE saved' # saved
  BY <1>2, SaneStep DEF Snapshot
<1>. QED
  BY <1>1, <1>2

-----------------------------------------------------------------------------
\* Between two calls there is nothing to know of a call.
LEMMA NoCall == call' = None /\ TM!Idle' => Calls'
  BY DEF Calls, TM!Idle

\* A call goes on as it began, and its transaction stays what it was.
LEMMA CallsStep == IInv /\ [Next]_agentVars => Calls'
<1>. SUFFICES ASSUME IInv, [Next]_agentVars PROVE Calls'
  OBVIOUS
<1>a. /\ TM!TypeOK /\ Calls /\ StateType(records, state) /\ up \in BOOLEAN
      /\ Known \subseteq TM!TxId
      /\ state.action # None => state.action \in Pending
  BY DEF IInv, Sane, StateType, TM!TypeOK, TM!Known, Known
<1>1. CASE \/ GovernanceTool
           \/ \E request \in Requests : PrepareTransaction(request)
           \/ \E id \in Known : FinalizeTransaction(id, state.evidence) \/ DiscardTransaction(id)
  <2>1. call' = call /\ phase' = phase /\ Ready
    BY <1>1 DEF GovernanceTool, EstablishGovernance, ProposeEonAction, RecordObservation,
           RunReadCommand, SubmitEvidenceGate, PrepareTransaction, TM!Prepare, FinalizeTransaction, TM!Finalize,
           DiscardTransaction, TM!Discard, txUnchanged
  <2>. QED
    BY <2>1, NoCall DEF Ready, TM!Idle
<1>2. CASE EndApply \/ EndRollback \/ CommandTimeout \/ EndCommand \/ Crash
             \/ \E a, recovery : Restart(a, recovery)
  <2>1. CASE EndApply \/ EndRollback \/ CommandTimeout \/ EndCommand
    BY <1>a, <2>1, NoCall
       DEF EndApply, EndRollback, CommandTimeout, EndCommand, txUnchanged, Calls, TM!Idle
  <2>2. CASE Crash
    BY <2>2, NoCall DEF Crash, TM!Idle
  <2>3. CASE \E a, recovery : Restart(a, recovery)
    BY <1>a, <2>3, NoCall DEF Restart, txUnchanged, Calls, TM!Idle
  <2>. QED
    BY <1>2, <2>1, <2>2, <2>3
<1>3. ASSUME NEW id \in Known, ApplyTransaction(id)
      PROVE  Calls'
  <2>1. /\ call' = [op |-> "apply", tx |-> id, command |-> None] /\ up' = up /\ up
        /\ records' = records /\ state' = state /\ phase' = "backup" /\ current' = id
        /\ state.action # None /\ state.useCount < state.action.limit
        /\ records[id].status = "PREPARED"
    BY <1>3 DEF ApplyTransaction, Ready, CurrentAction, TM!StartApply, TM!CanApply,
       TM!StatusOf,
           procUnchanged
  <2>2. call' \in Call
    BY <1>a, <2>1 DEF Call
  <2>. QED
    BY <1>a, <2>1, <2>2 DEF Calls, Known, Status, TM!Idle
<1>4. ASSUME NEW id \in Known, RollbackTransaction(id)
      PROVE  Calls'
  <2>1. /\ call' = [op |-> "rollback", tx |-> id, command |-> None] /\ up' = up /\ up
        /\ records' = records /\ state' = state /\ phase' = "restore" /\ current' = id
        /\ records[id].status # "ROLLED_BACK"
    BY <1>4 DEF RollbackTransaction, Ready, TM!StartRollback, TM!StatusOf, procUnchanged
  <2>2. call' \in Call
    BY <1>a, <2>1 DEF Call
  <2>. QED
    BY <1>a, <2>1, <2>2 DEF Calls, Known, Status, TM!Idle
<1>5. ASSUME NEW command \in Command, RunCommand(command)
      PROVE  Calls'
  <2>1. /\ call' = [op |-> "command", tx |-> state.action.tx, command |-> command]
        /\ up' = up /\ up /\ TM!Idle /\ phase' = phase
        /\ records' = records /\ state' = state
        /\ state.action # None /\ state.useCount < state.action.limit
    BY <1>5 DEF RunCommand, RunsCommand, Ready, CurrentAction, txUnchanged, procUnchanged
  <2>2. call' \in Call
    BY <1>a, <2>1 DEF Call, Pending
  <2>. QED
    BY <1>a, <2>1, <2>2 DEF Calls, Known, TM!Idle
<1>6. CASE TransactionStep
  <2>1. /\ call' = call /\ call # None /\ up' = up /\ state' = state
        /\ TM!CallStep \/ TM!FaultStep
    BY <1>6 DEF TransactionStep, procUnchanged
  <2>2. /\ Known' = Known /\ call.tx \in Known /\ ~TM!Idle
        /\ ~TM!Idle' => /\ current' = current
                        /\ records'[current].status = records[current].status
        /\ phase' = "restore" => phase = "restore"
        /\ phase' \in Ongoing => phase \in Ongoing
    BY <1>a, <2>1, CallMoves
  <2>3. phase' \in Ongoing \cup {"restore"} => ~TM!Idle'
    BY DEF Ongoing, TM!Idle
  <2>4. /\ phase' \in Ongoing => call.op = "apply" /\ records'[current'].status = "PREPARED"
        /\ phase' = "restore" => /\ call.op = "rollback"
                                 /\ records'[current'].status # "ROLLED_BACK"
    BY <1>a, <2>2, <2>3 DEF Calls, Ongoing, Status
  <2>. QED
    BY <1>a, <2>1, <2>2, <2>4 DEF Calls, Ongoing, Status
<1>7. ASSUME NEW success \in BOOLEAN, RecordCommand(success)
      PROVE  Calls'
  <2>1. /\ call # None /\ call.op = "command" /\ call' = [call EXCEPT !.op = "recorded"]
        /\ state'.action = state.action /\ state'.useCount = state.useCount
        /\ up' = up /\ phase' = phase /\ records' = records
    BY <1>a, <1>7 DEF RecordCommand, StateType, txUnchanged, procUnchanged
  <2>2. call' \in Call /\ call'.op = "recorded"
    BY <1>a, <2>1 DEF Calls, Call
  <2>3. up /\ phase = "idle" /\ state.action # None /\ state.useCount < state.action.limit
    BY <1>a, <2>1 DEF Calls, TM!Idle
  <2>. QED
    BY <1>a, <2>1, <2>2, <2>3 DEF Calls, TM!Idle
<1>8. CASE UNCHANGED <<records, phase, current, up, state, call>>
  BY <1>a, <1>8 DEF Calls, Known, Status, TM!Idle
<1>9. UNCHANGED agentVars \/ (\E p \in Path, c \in TM!FileState : Edit(p, c))
        => UNCHANGED <<records, phase, current, up, state, call>>
  BY DEF Edit, TM!Edit, agentVars, procUnchanged
<1>. QED
  BY <1>1, <1>2, <1>3, <1>4, <1>5, <1>6, <1>7, <1>8, <1>9
     DEF Next, TransactionTool, EndOfCall, Environment

\* A call begins, goes on or ends.
LEMMA CallSteps ==
  ASSUME IInv, [Next]_agentVars
  PROVE  \/ call' = None
         \/ \E id \in Known : ApplyTransaction(id) \/ RollbackTransaction(id)
         \/ \E command \in Command : RunCommand(command)
         \/ \E success \in BOOLEAN : RecordCommand(success)
         \/ /\ UNCHANGED <<state, call>>
            /\ TransactionStep \/ UNCHANGED agentVars
                 \/ \E p \in Path, c \in TM!FileState : Edit(p, c)
<1>1. \/ GovernanceTool
      \/ \E request \in Requests : PrepareTransaction(request)
      \/ \E id \in Known : FinalizeTransaction(id, state.evidence) \/ DiscardTransaction(id)
      \/ \E a, recovery : Restart(a, recovery)
      => call' = None
  BY DEF GovernanceTool, EstablishGovernance, ProposeEonAction, RecordObservation,
         RunReadCommand, SubmitEvidenceGate, PrepareTransaction, FinalizeTransaction, DiscardTransaction, Ready,
         Restart, IInv, Calls
<1>2. EndApply \/ EndRollback \/ CommandTimeout \/ EndCommand \/ Crash => call' = None
  BY DEF EndApply, EndRollback, CommandTimeout, EndCommand, Crash
<1>3. TransactionStep \/ UNCHANGED agentVars \/ (\E p \in Path, c \in TM!FileState : Edit(p, c))
        => UNCHANGED <<state, call>>
  BY DEF TransactionStep, Edit, agentVars
<1>. QED
  BY <1>1, <1>2, <1>3 DEF Next, TransactionTool, EndOfCall, Environment

(***************************************************************************)
(* What starts to be applied has passed its gate, on the workspace it was  *)
(* prepared from; while it is applied, the action and the gate stay.       *)
(***************************************************************************)
LEMMA ReviewedStep == IInv /\ [Next]_agentVars => ReviewedBeforeApplied'
<1>. SUFFICES ASSUME IInv, [Next]_agentVars PROVE ReviewedBeforeApplied'
  OBVIOUS
<1>1. ASSUME NEW id \in Known, ApplyTransaction(id)
      PROVE  ReviewedBeforeApplied'
  <2>1. /\ call'.tx = id /\ state' = state /\ state.action.tx = id /\ Gated
        /\ state.action.source = id.source /\ Sound(state)
    BY <1>1 DEF ApplyTransaction, TM!StartApply, TM!CanApply, IInv, Sane
  <2>. SUFFICES ASSUME state.action.risk # "L0"
                PROVE  /\ state.gate.action = state.action
                       /\ Cardinality(state.gate.evidence) >= RequiredArtifacts(state.action.risk)
                       /\ \A e \in state.gate.evidence : /\ e.artifact.action = state.action
                                                         /\ e.artifact.source = id.source
    BY <2>1 DEF ReviewedBeforeApplied
  <2>2. /\ state.gate # None /\ state.gate.action = state.action
        /\ state.gate.verdict \in {"APPROVE", "APPROVE_WITH_LIMITS"}
    BY <2>1 DEF Gated
  <2>. QED
    BY <2>1, <2>2 DEF Sound
<1>2. CASE call' = None
  BY <1>2 DEF ReviewedBeforeApplied
<1>3. CASE UNCHANGED <<state, call>>
  BY <1>3 DEF IInv, ReviewedBeforeApplied
<1>4. CASE \/ \E id \in Known : RollbackTransaction(id)
           \/ \E command \in Command : RunCommand(command)
           \/ \E success \in BOOLEAN : RecordCommand(success)
  <2>1. CASE \/ \E id \in Known : RollbackTransaction(id)
             \/ \E command \in Command : RunCommand(command)
    <3>1. \A id \in Known : RollbackTransaction(id) => call'.op = "rollback"
      BY DEF RollbackTransaction
    <3>2. \A command \in Command : RunCommand(command) => call'.op = "command"
      BY DEF RunCommand, RunsCommand
    <3>. QED
      BY <2>1, <3>1, <3>2 DEF ReviewedBeforeApplied
  <2>2. CASE \E success \in BOOLEAN : RecordCommand(success)
    BY <2>2 DEF ReviewedBeforeApplied, RecordCommand, IInv, Calls, Call
  <2>. QED
    BY <1>4, <2>1, <2>2
<1>. QED
  BY <1>1, <1>2, <1>3, <1>4, CallSteps

-----------------------------------------------------------------------------
\* The first process finds no transaction.
LEMMA InvInit == Init => IInv
<1>. SUFFICES ASSUME Init PROVE IInv
  OBVIOUS
<1>1. /\ TM!Init /\ up = FALSE /\ state = Initial /\ call = None
      /\ saved = [records |-> records, state |-> Initial]
  BY DEF Init, Snapshot
<1>2. DOMAIN records = {} /\ phase = "idle"
  BY <1>1 DEF TM!Init
<1>3. TM!TypeOK
  BY <1>1, TransactionAssumption
     DEF TM!Init, TM!TypeOK, TM!Known, TM!Idle, TM!Phase, TM!Remaining, TM!InputAssumption,
         TM!BoundAssumption
<1>4. Sane(records, Initial) /\ Active(records, Initial)
  <2>1. RecordsType(records)
    BY <1>3, <1>2 DEF TM!TypeOK, TM!Known, RecordsType
  <2>2. StateType(records, Initial)
    BY <1>2, FS_EmptySet DEF StateType, Initial
  <2>. QED
    BY <1>2, <2>1, <2>2 DEF Sane, Initial, Single, UnresolvedIn, Bound, Sound, Active
<1>. QED
  BY <1>1, <1>2, <1>3, <1>4 DEF IInv, Calls, TM!Idle, ReviewedBeforeApplied

(***************************************************************************)
(* The inductive invariant: what is in memory and what is saved are both   *)
(* sane, also between the steps of a call that a crash may end.            *)
(***************************************************************************)
THEOREM Inductive == Spec => []IInv
<1>1. IInv /\ [Next]_agentVars => IInv'
  <2>. SUFFICES ASSUME IInv, [Next]_agentVars PROVE IInv'
    OBVIOUS
  <2>1. Active(records', state') \/ RolledBack'
    BY SaneStep
  <2>. QED
    BY <2>1, AuthorityStep, FilesStep, SaneStep, SavedStep, CallsStep, ReviewedStep DEF IInv
<1>. QED
  BY InvInit, <1>1, PTL DEF Spec

(***************************************************************************)
(* Type correctness of the agent; in particular no action is used more     *)
(* often than its limit, and every saved transaction has its binding.      *)
(***************************************************************************)
THEOREM Typed == Spec => []TypeOK
<1>1. IInv => TypeOK
  <2>. SUFFICES ASSUME IInv PROVE TypeOK
    OBVIOUS
  <2>1. StateType(records, state) /\ StateType(saved.records, saved.state)
    BY DEF IInv, Sane
  <2>2. /\ state.binding \in [Known -> Binding]
        /\ DOMAIN saved.state.binding = DOMAIN saved.records
    BY <2>1 DEF StateType, Known
  <2>3. /\ DOMAIN state.binding = Known
        /\ \A id \in Known : state.binding[id].action \in Pending \cup {None}
    BY <2>2 DEF Binding
  <2>. QED
    BY <2>1, <2>2, <2>3 DEF IInv, StateType, Calls, TypeOK, Known
<1>. QED
  BY Inductive, <1>1, PTL

\* A set without two elements has at most one.
LEMMA AtMostOne ==
  ASSUME NEW recs, Single(recs)
  PROVE  Cardinality(UnresolvedIn(recs)) <= 1
<1>1. CASE UnresolvedIn(recs) = {}
  BY <1>1, FS_EmptySet
<1>2. ASSUME NEW id \in UnresolvedIn(recs)
      PROVE  Cardinality(UnresolvedIn(recs)) <= 1
  <2>1. UnresolvedIn(recs) = {id}
    BY <1>2 DEF Single
  <2>2. Cardinality({id}) = 1
    BY FS_Singleton
  <2>. QED
    BY <2>1, <2>2
<1>. QED
  BY <1>1, <1>2

(***************************************************************************)
(* At most one transaction is unresolved, in memory and in what the next   *)
(* process loads: _require_no_unresolved_transaction over any sequence of  *)
(* calls, crashes and restarts.                                            *)
(***************************************************************************)
THEOREM OwnsItsTargets == Spec => []OneUnresolved
<1>1. IInv => OneUnresolved
  BY AtMostOne DEF IInv, Sane, OneUnresolved
<1>. QED
  BY Inductive, <1>1, PTL

(***************************************************************************)
(* Of what save_state wrote, wherever the process ended,                   *)
(* _validate_loaded_state refuses nothing but an active transaction whose  *)
(* resolution could not be written to transaction.json.                    *)
(***************************************************************************)
THEOREM RefusedOnlyForUnfiled == Spec => []RefusedOnlyUnfiled
<1>1. IInv => RefusedOnlyUnfiled
  <2>. DEFINE recs == saved.records
              st == saved.state
              inactive == [st EXCEPT !.active = None]
  <2>. SUFFICES ASSUME IInv
                PROVE  /\ Loadable(recs, inactive)
                       /\ ~Loadable(recs, st) => /\ st.active \in DOMAIN recs \ UnresolvedIn(recs)
                                                 /\ ~recs[st.active].filed
    BY DEF RefusedOnlyUnfiled
  <2>1. /\ Single(recs) /\ Bound(recs, st) /\ Active(recs, st)
        /\ st.active \in DOMAIN recs \cup {None}
    BY DEF IInv, Sane, StateType
  <2>2. /\ inactive.active = None /\ inactive.action = st.action
        /\ inactive.binding = st.binding
    BY DEF IInv, Sane, StateType
  <2>. HIDE DEF recs, st, inactive
  <2>3. Loadable(recs, inactive)
    BY <2>1, <2>2, AtMostOne DEF Loadable, Bound, ActionOf
  <2>4. st.active \in {None} \cup UnresolvedIn(recs) => Loadable(recs, st)
    BY <2>1, AtMostOne DEF Loadable, Single, Bound
  <2>. QED
    BY <2>1, <2>3, <2>4 DEF Active
<1>. QED
  BY Inductive, <1>1, PTL

(***************************************************************************)
(* A transaction of risk L1 or L2 is applied only after a gate approved    *)
(* this very action on enough evidence of its source snapshot.             *)
(***************************************************************************)
THEOREM NothingUnreviewed == Spec => []ReviewedBeforeApplied
<1>1. IInv => ReviewedBeforeApplied
  BY DEF IInv
<1>. QED
  BY Inductive, <1>1, PTL

-----------------------------------------------------------------------------
(***************************************************************************)
(* What the files have to do with the records, in memory and saved.        *)
(* Somebody else may edit the workspace between two calls; inside a call   *)
(* only if RacyEdits, and then TransactionManager promises nothing.        *)
(***************************************************************************)
Undisturbed == ~RacyEdits \/ edits = 0

Originals(recs) ==
  \A id \in DOMAIN recs : recs[id].status \in {"APPLIED", "VERIFIED"} =>
    \A p \in TM!Targets(id) :
      (IF recs[id].backup[p] = None THEN Absent ELSE recs[id].backup[p]) = id.source[p]

\* A rollback can restore the originals, in this process and in the next one.
Restorable == Undisturbed => TMP!SafetyInv /\ Originals(saved.records)

\* A rollback that has been reported is not forgotten.
RollbacksKept ==
  \A id \in Known \cap DOMAIN saved.records :
    saved.records[id].status = "ROLLED_BACK" => Status(id) = "ROLLED_BACK"

\* The workspace of an applied transaction is its candidate over its source, ...
Result(id) == [p \in Path |-> IF p \in TM!Targets(id) THEN id.candidate[p] ELSE id.source[p]]
Witnessed(recs) ==
  \A id \in DOMAIN recs : recs[id].status \in {"APPLIED", "VERIFIED"}
                            => recs[id].after = Result(id)
\* ... on which its commands have run, except those of risk L0.
RanOn(st) ==
  \A e \in st.evidence :
    e.artifact.kind \in Command \ ReadCommand /\ e.artifact.action.tx # None
    => e.artifact.source = Result(e.artifact.action.tx)

TestsFit ==
  edits = 0 =>
    /\ Witnessed(records) /\ Witnessed(saved.records)
    /\ RanOn(state) /\ RanOn(saved.state)
    /\ call # None /\ call.op = "command" /\ state.action.tx # None
         => files = Result(state.action.tx)

FilesInv == Restorable /\ RollbacksKept /\ TestsFit

\* The steps that change the records, and those that save.
LEMMA RecordsSteps ==
  ASSUME [Next]_agentVars
  PROVE  \/ UNCHANGED records
         \/ TransactionStep
         \/ Crash
         \/ \E request \in Requests : PrepareTransaction(request)
         \/ \E id \in Known : FinalizeTransaction(id, state.evidence) \/ DiscardTransaction(id)
<1>1. GovernanceTool \/ (\E command \in Command : RunCommand(command)) \/ UNCHANGED agentVars
        \/ (\E a, recovery : Restart(a, recovery)) => UNCHANGED records
  BY DEF GovernanceTool, EstablishGovernance, ProposeEonAction, RecordObservation,
         RunReadCommand, SubmitEvidenceGate, RunCommand, Restart, agentVars, txUnchanged
<1>2. EndApply \/ EndRollback \/ CommandTimeout \/ EndCommand
        \/ (\E success \in BOOLEAN : RecordCommand(success)) => UNCHANGED records
  BY DEF EndApply, EndRollback, RecordCommand, CommandTimeout, EndCommand, txUnchanged
<1>3. (\E id \in Known : ApplyTransaction(id) \/ RollbackTransaction(id))
        \/ (\E p \in Path, c \in TM!FileState : Edit(p, c)) => UNCHANGED records
  BY DEF ApplyTransaction, TM!StartApply, RollbackTransaction, TM!StartRollback, Edit, TM!Edit
<1>. QED
  BY <1>1, <1>2, <1>3 DEF Next, TransactionTool, EndOfCall, Environment

LEMMA SavesOrNot ==
  ASSUME [Next]_agentVars
  PROVE  \/ saved' = Snapshot(records', state')
         \/ saved' = saved /\ (UNCHANGED <<records, state>> \/ TransactionStep \/ Crash)
<1>1. GovernanceTool \/ (\E request \in Requests : PrepareTransaction(request))
        \/ (\E id \in Known : FinalizeTransaction(id, state.evidence) \/ DiscardTransaction(id))
        \/ (\E a, recovery : Restart(a, recovery)) => saved' = Snapshot(records', state')
  BY DEF GovernanceTool, EstablishGovernance, ProposeEonAction, RecordObservation,
         RunReadCommand, SubmitEvidenceGate, PrepareTransaction, FinalizeTransaction, DiscardTransaction,
         Restart, Save
<1>2. EndApply \/ EndRollback \/ CommandTimeout \/ EndCommand
        \/ (\E success \in BOOLEAN : RecordCommand(success)) => saved' = Snapshot(records', state')
  BY DEF EndApply, EndRollback, RecordCommand, CommandTimeout, EndCommand, Save
<1>3. (\E id \in Known : ApplyTransaction(id) \/ RollbackTransaction(id))
        \/ (\E command \in Command : RunCommand(command)) \/ UNCHANGED agentVars
        \/ (\E p \in Path, c \in TM!FileState : Edit(p, c)) => UNCHANGED <<records, state, saved>>
  BY DEF ApplyTransaction, TM!StartApply, RollbackTransaction, TM!StartRollback, RunCommand,
         Edit, TM!Edit, txUnchanged, agentVars
<1>4. Crash \/ TransactionStep => saved' = saved
  BY DEF Crash, TransactionStep
<1>. QED
  BY <1>1, <1>2, <1>3, <1>4 DEF Next, TransactionTool, EndOfCall, Environment

\* Edits are only counted up.
LEMMA EditsCount ==
  ASSUME IInv, [Next]_agentVars
  PROVE  edits \in Nat /\ edits' \in Nat /\ edits <= edits'
<1>1. edits \in Nat /\ TM!TypeOK /\ MaxEdits \in Nat
  BY TransactionAssumption DEF IInv, TM!TypeOK, TM!BoundAssumption
<1>2. CASE UNCHANGED edits \/ edits' = edits + 1
  BY <1>1, <1>2
<1>3. Crash => UNCHANGED edits
  BY DEF Crash
<1>4. ASSUME NEW request \in Requests, PrepareTransaction(request)
      PROVE  UNCHANGED edits
  BY <1>1, <1>4, Prepared DEF PrepareTransaction
<1>5. TMP!NewCall \/ TMP!CallStep => UNCHANGED edits
  BY DEF TMP!NewCall, TMP!Prepare, TMP!StartApply, TMP!StartRollback, TMP!Finalize, TMP!Discard,
         TMP!CallStep, TMP!BackupTarget, TMP!ReplaceTarget, TMP!CheckTarget, TMP!FinishApply,
         TMP!RestoreTarget, TMP!FinishUndo, TMP!FinishRollback
<1>6. TMP!FaultStep \/ UNCHANGED TMP!txVars => UNCHANGED edits
  BY DEF TMP!FaultStep, TMP!WriteFault, TMP!SnapshotFault, TMP!RestoreFault, TMP!txVars
<1>7. TMP!Environment => UNCHANGED edits \/ edits' = edits + 1
  BY DEF TMP!Environment, TMP!Edit, TMP!Tamper
<1>. QED
  BY <1>2, <1>3, <1>4, <1>5, <1>6, <1>7, ManagerSteps DEF TMP!Next

\* What can be restored stays so; a crash goes back to records that can.
LEMMA RestorableStep ==
  ASSUME IInv, Restorable, [Next]_agentVars
  PROVE  Restorable'
<1>. SUFFICES ASSUME Undisturbed'
              PROVE  TMP!SafetyInv' /\ Originals(saved'.records)
  BY DEF Restorable
<1>1. /\ Undisturbed /\ (~RacyEdits \/ edits' = 0)
      /\ TM!TypeOK /\ TMP!SafetyInv /\ Originals(saved.records)
  BY EditsCount DEF Undisturbed, Restorable, IInv
<1>2. TMP!SafetyInv => Originals(records)
  BY DEF TMP!SafetyInv, TMP!BackupIsOriginal, TMP!Known, TMP!StatusOf, TMP!Original, TMP!Targets,
         TM!Targets, Originals
<1>3. TMP!SafetyInv'
  <2>1. CASE [TMP!Next]_(TMP!txVars)
    BY <1>1, <2>1, SameSets, SameType, TMP!SafetyStep, TransactionAssumption
  <2>2. CASE Crash
    <3>1. records' = saved.records /\ phase' = "idle"
      BY <2>2 DEF Crash
    <3>2. TMP!BackupIsOriginal'
      BY <1>1, <3>1 DEF TMP!BackupIsOriginal, TMP!Known, TMP!StatusOf, TMP!Original,
         TMP!Targets,
         TM!Targets, Originals
    <3>. QED
      BY <3>1, <3>2 DEF TMP!SafetyInv, TMP!ApplyProgress, TMP!RestoreProgress, TMP!Applying
  <2>3. ASSUME NEW request \in Requests, PrepareTransaction(request)
        PROVE  TMP!SafetyInv'
    <3>. DEFINE id == [operation |-> request.operation, source |-> files,
                       candidate |-> request.candidate]
    <3>1. TM!Prepare(request)
      BY <2>3 DEF PrepareTransaction
    <3>. HIDE DEF id
    <3>2. /\ Known' = Known \cup {id} /\ records'[id].status = "PREPARED" /\ TM!Idle'
          /\ \A i \in Known \ {id} : records'[i] = records[i]
      BY <1>1, <3>1, Prepared DEF id
    <3>3. TMP!BackupIsOriginal'
      BY <1>1, <3>2 DEF TMP!SafetyInv, TMP!BackupIsOriginal, TMP!Known, Known, TMP!StatusOf,
                        TMP!Original
    <3>. QED
      BY <3>2, <3>3
         DEF TM!Idle, TMP!SafetyInv, TMP!ApplyProgress, TMP!RestoreProgress, TMP!Applying
  <2>. QED
    BY <2>1, <2>2, <2>3, ManagerSteps
<1>4. Originals(records')
  BY <1>3 DEF TMP!SafetyInv, TMP!BackupIsOriginal, TMP!Known, TMP!StatusOf, TMP!Original,
              TMP!Targets, TM!Targets, Originals
<1>5. Originals(saved'.records)
  <2>1. CASE saved' = saved
    BY <1>1, <2>1
  <2>2. CASE saved' = Snapshot(records', state')
    BY <1>4, <2>2 DEF Snapshot
  <2>. QED
    BY <2>1, <2>2, SaneStep
<1>. QED
  BY <1>3, <1>5

\* No transaction that was saved as rolled back is anything else in memory.
LEMMA RollbacksKeptStep ==
  ASSUME IInv, RollbacksKept, [Next]_agentVars
  PROVE  RollbacksKept'
<1>1. CASE saved' = Snapshot(records', state')
  BY <1>1 DEF RollbacksKept, Snapshot, Status
<1>2. CASE saved' = saved /\ UNCHANGED records
  BY <1>2 DEF RollbacksKept, Known, Status
<1>3. CASE saved' = saved /\ Crash
  BY <1>3 DEF RollbacksKept, Crash, Known, Status
<1>4. CASE saved' = saved /\ TransactionStep
  <2>1. Known' = Known /\ call.tx \in Known /\ Moves
    BY <1>4, CallMoves DEF TransactionStep, IInv
  <2>2. \A id \in Known : Status(id) = "ROLLED_BACK" => records'[id].status = "ROLLED_BACK"
    BY <2>1 DEF Moves, Status, Same
  <2>. QED
    BY <1>4, <2>1, <2>2 DEF RollbacksKept, Known, Status
<1>. QED
  BY <1>1, <1>2, <1>3, <1>4, SavesOrNot

\* An apply that finishes leaves its candidate over its source, and nothing else changed.
LEMMA WitnessedMoves ==
  ASSUME IInv, TMP!SafetyInv, Witnessed(records), TransactionStep
  PROVE  Witnessed(records')
<1>1. TM!CallStep \/ TM!FaultStep
  BY DEF TransactionStep
<1>2. /\ Known' = Known /\ ~TM!Idle /\ TM!TypeOK /\ current \in Known
      /\ records \in [Known -> TM!Record]
  BY <1>1, CallMoves DEF IInv, TM!TypeOK, TM!Known, Known, Calls
<1>3. CASE TM!FinishApply
  <2>1. phase = "backup" /\ TM!Remaining = {}
    BY <1>3 DEF TM!FinishApply
  <2>2. \A p \in Path : files[p] = Result(current)[p]
    BY <1>2, <2>1 DEF TMP!SafetyInv, TMP!ApplyProgress, TMP!Applying, TM!Remaining, Result,
                      TM!TypeOK, TM!Targets
  <2>3. files = Result(current)
    BY <1>2, <2>2 DEF TM!TypeOK, TM!Workspace, Result
  <2>4. /\ records'[current].after = files
        /\ \A id \in Known \ {current} : records'[id] = records[id]
    BY <1>2, <1>3, ApplyEnd
  <2>. QED
    BY <1>2, <2>3, <2>4 DEF Witnessed, Known
<1>4. CASE TM!BackupTarget \/ TM!FinishRollback
  <2>1. \A id \in Known : /\ records'[id].after = records[id].after
                          /\ records'[id].status \in {"APPLIED", "VERIFIED"}
                               => records[id].status \in {"APPLIED", "VERIFIED"}
    <3>1. CASE TM!BackupTarget
      BY <1>2, <3>1 DEF TM!BackupTarget, TM!Record
    <3>2. CASE TM!FinishRollback
      BY <1>2, <3>2, StatusChange DEF TM!FinishRollback
    <3>. QED
      BY <1>4, <3>1, <3>2
  <2>. QED
    BY <1>2, <2>1 DEF Witnessed, Known
<1>5. CASE \/ TM!ReplaceTarget \/ TM!CheckTarget \/ TM!RestoreTarget \/ TM!FinishUndo
           \/ TM!FaultStep
  <2>1. records' = records
    BY <1>5 DEF TM!ReplaceTarget, TM!CheckTarget, TM!RestoreTarget, TM!FinishUndo,
       TM!FaultStep,
                TM!WriteFault, TM!SnapshotFault, TM!RestoreFault
  <2>. QED
    BY <2>1
<1>. QED
  BY <1>1, <1>3, <1>4, <1>5 DEF TM!CallStep

\* Every other step keeps the statuses of what is applied, or its workspace.
LEMMA WitnessedStep ==
  ASSUME IInv, TMP!SafetyInv, Witnessed(records), Witnessed(saved.records), [Next]_agentVars
  PROVE  Witnessed(records')
<1>a. TM!TypeOK /\ records \in [Known -> TM!Record]
  BY DEF IInv, TM!TypeOK, TM!Known, Known
<1>1. CASE TransactionStep
  BY <1>1, WitnessedMoves
<1>2. CASE UNCHANGED records \/ Crash
  BY <1>2 DEF Witnessed, Crash
<1>3. ASSUME NEW request \in Requests, PrepareTransaction(request)
      PROVE  Witnessed(records')
  <2>. DEFINE id == [operation |-> request.operation, source |-> files,
                     candidate |-> request.candidate]
  <2>1. TM!Prepare(request)
    BY <1>3 DEF PrepareTransaction
  <2>. HIDE DEF id
  <2>2. /\ Known' = Known \cup {id} /\ records'[id].status = "PREPARED"
        /\ \A i \in Known \ {id} : records'[i] = records[i]
    BY <1>a, <2>1, Prepared DEF id
  <2>. QED
    BY <2>2 DEF Witnessed, Known
<1>4. ASSUME NEW id \in Known,
             FinalizeTransaction(id, state.evidence) \/ DiscardTransaction(id)
      PROVE  Witnessed(records')
  <2>1. PICK v \in {"VERIFIED", "DISCARDED"} :
          /\ TM!SetStatus(id, v)
          /\ v = "VERIFIED" => records[id].status = "APPLIED"
    BY <1>4 DEF FinalizeTransaction, TM!Finalize, DiscardTransaction, TM!Discard, TM!StatusOf
  <2>2. /\ Known' = Known /\ records'[id].status = v /\ records'[id].after = records[id].after
        /\ \A i \in Known \ {id} : records'[i] = records[i]
    BY <1>a, <2>1, StatusChange
  <2>. QED
    BY <2>1, <2>2 DEF Witnessed, Known
<1>. QED
  BY <1>1, <1>2, <1>3, <1>4, RecordsSteps

\* Evidence is recorded of what a read tool saw or of a command that ran.
LEMMA EvidenceSteps ==
  ASSUME IInv, [Next]_agentVars
  PROVE  \/ state'.evidence = state.evidence
         \/ state' = saved.state
         \/ state'.evidence = Record(Artifact("observation", TRUE))
         \/ \E command \in ReadCommand, success \in BOOLEAN :
              state'.evidence = Record(Artifact(command, success))
         \/ \E success \in BOOLEAN : /\ call # None /\ call.op = "command"
                                     /\ state.action # None
                                     /\ state'.evidence = Record(Artifact(call.command, success))
<1>a. StateType(records, state)
  BY DEF IInv, Sane
<1>1. CASE GovernanceTool
  <2>1. CASE \E scope \in Scopes : EstablishGovernance(scope)
    BY <1>a, <2>1 DEF EstablishGovernance, StateType
  <2>2. CASE \E tx \in Known \cup {None}, proposal \in Proposals : ProposeEonAction(tx, proposal)
    BY <1>a, <2>2 DEF ProposeEonAction, StateType
  <2>3. CASE RecordObservation
    BY <1>a, <2>3 DEF RecordObservation, StateType
  <2>4. CASE \E items \in Citations, approval \in Approvals : SubmitEvidenceGate(items, approval)
    BY <1>a, <2>4 DEF SubmitEvidenceGate, StateType
  <2>5. CASE \E command \in Command, success \in BOOLEAN : RunReadCommand(command, success)
    BY <1>a, <2>5 DEF RunReadCommand, StateType
  <2>. QED
    BY <1>1, <2>1, <2>2, <2>3, <2>4, <2>5 DEF GovernanceTool
<1>2. CASE TransactionTool
  <2>1. CASE \E request \in Requests : PrepareTransaction(request)
    BY <1>a, <2>1 DEF PrepareTransaction, StateType
  <2>2. CASE \E id \in Known : FinalizeTransaction(id, state.evidence)
    BY <1>a, <2>2 DEF FinalizeTransaction, StateType
  <2>3. CASE \E id \in Known : DiscardTransaction(id)
    BY <1>a, <2>3 DEF DiscardTransaction, Released, StateType
  <2>4. CASE \/ \E id \in Known : ApplyTransaction(id) \/ RollbackTransaction(id)
             \/ \E command \in Command : RunCommand(command)
    BY <2>4 DEF ApplyTransaction, RollbackTransaction, RunCommand
  <2>. QED
    BY <1>2, <2>1, <2>2, <2>3, <2>4 DEF TransactionTool
<1>3. CASE EndApply \/ EndCommand \/ CommandTimeout \/ TransactionStep
  BY <1>a, <1>3 DEF EndApply, EndCommand, CommandTimeout, TransactionStep, StateType
<1>4. CASE EndRollback
  BY <1>a, <1>4 DEF EndRollback, Released, StateType
<1>5. ASSUME NEW success \in BOOLEAN, RecordCommand(success)
      PROVE  /\ call # None /\ call.op = "command" /\ state.action # None
             /\ state'.evidence = Record(Artifact(call.command, success))
  BY <1>a, <1>5 DEF RecordCommand, StateType, IInv, Calls
<1>6. CASE Crash
  BY <1>6 DEF Crash
<1>7. CASE \E a, recovery : Restart(a, recovery)
  BY <1>a, <1>7 DEF Restart, StateType
<1>8. CASE UNCHANGED agentVars \/ \E p \in Path, c \in TM!FileState : Edit(p, c)
  BY <1>8 DEF agentVars, Edit
<1>. QED
  BY <1>1, <1>2, <1>3, <1>4, <1>5, <1>6, <1>7, <1>8 DEF Next, EndOfCall, Environment

LEMMA RecordAdds ==
  ASSUME NEW artifact
  PROVE  \A e \in Record(artifact) : e \in state.evidence \/ e.artifact = artifact
  BY DEF Record

\* A command of a transaction runs on its candidate, and so does its evidence say.
LEMMA RanOnStep ==
  ASSUME IInv, TestsFit, edits = 0, [Next]_agentVars
  PROVE  RanOn(state')
<1>1. /\ RanOn(state) /\ RanOn(saved.state)
      /\ call # None /\ call.op = "command" /\ state.action.tx # None
           => files = Result(state.action.tx)
  BY DEF TestsFit
<1>2. CASE state'.evidence = state.evidence \/ state' = saved.state
  BY <1>1, <1>2 DEF RanOn
<1>3. CASE state'.evidence = Record(Artifact("observation", TRUE))
  <2>1. Artifact("observation", TRUE).kind \notin Command
    BY AgentAssumption DEF Artifact
  <2>2. \A e \in state'.evidence : e \in state.evidence \/ e.artifact.kind \notin Command
    BY <1>3, <2>1, RecordAdds
  <2>. QED
    BY <1>1, <2>2 DEF RanOn
<1>4. ASSUME NEW success \in BOOLEAN, call # None, call.op = "command",
             state'.evidence = Record(Artifact(call.command, success))
      PROVE  RanOn(state')
  <2>1. /\ Artifact(call.command, success).action = state.action
        /\ Artifact(call.command, success).source = files
    BY DEF Artifact
  <2>. QED
    BY <1>1, <1>4, <2>1, RecordAdds DEF RanOn
<1>5. ASSUME NEW command \in ReadCommand, NEW success \in BOOLEAN,
             state'.evidence = Record(Artifact(command, success))
      PROVE  RanOn(state')
  <2>1. Artifact(command, success).kind \in ReadCommand
    BY DEF Artifact
  <2>2. \A e \in state'.evidence : e \in state.evidence \/ e.artifact.kind \in ReadCommand
    BY <1>5, <2>1, RecordAdds
  <2>. QED
    BY <1>1, <2>2 DEF RanOn
<1>. QED
  BY <1>2, <1>3, <1>4, <1>5, EvidenceSteps

\* Nothing changes the workspace while a command runs.
LEMMA TestsFitStep ==
  ASSUME IInv, Restorable, TestsFit, [Next]_agentVars
  PROVE  TestsFit'
<1>. SUFFICES ASSUME edits' = 0
              PROVE  /\ Witnessed(records') /\ Witnessed(saved'.records)
                     /\ RanOn(state') /\ RanOn(saved'.state)
                     /\ call' # None /\ call'.op = "command" /\ state'.action.tx # None
                          => files' = Result(state'.action.tx)
  BY DEF TestsFit
<1>1. edits = 0 /\ TMP!SafetyInv /\ TM!TypeOK
  BY EditsCount DEF Restorable, Undisturbed, IInv
<1>2. /\ Witnessed(records) /\ Witnessed(saved.records) /\ RanOn(saved.state)
      /\ call # None /\ call.op = "command" /\ state.action.tx # None
           => files = Result(state.action.tx)
  BY <1>1 DEF TestsFit
<1>3. Witnessed(records') /\ RanOn(state')
  BY <1>1, <1>2, WitnessedStep, RanOnStep
<1>4. Witnessed(saved'.records) /\ RanOn(saved'.state)
  <2>1. CASE saved' = saved
    BY <1>2, <2>1
  <2>2. CASE saved' = Snapshot(records', state')
    BY <1>3, <2>2 DEF Snapshot
  <2>. QED
    BY <2>1, <2>2, SaneStep
<1>5. call' # None /\ call'.op = "command" /\ state'.action.tx # None
        => files' = Result(state'.action.tx)
  <2>. SUFFICES ASSUME call' # None, call'.op = "command", state'.action.tx # None
                PROVE  files' = Result(state'.action.tx)
    OBVIOUS
  <2>1. ASSUME NEW command \in Command, RunCommand(command)
        PROVE  files' = Result(state'.action.tx)
    <3>1. /\ files' = files /\ state' = state /\ state.action # None
          /\ TM!VerifyApplied(state.action.tx)
      BY <2>1 DEF RunCommand, CurrentAction, txUnchanged
    <3>2. state.action.tx \in Known
      BY <3>1 DEF IInv, Sane, Bound, Known
    <3>. QED
      BY <1>2, <3>1, <3>2 DEF TM!VerifyApplied, TM!StatusOf, Witnessed, Known
  <2>2. CASE UNCHANGED <<state, call>> /\ TransactionStep
    <3>1. TM!Idle
      BY <2>2 DEF IInv, Calls
    <3>2. ~TM!Idle
      BY <2>2, CallMoves DEF TransactionStep, IInv
    <3>. QED
      BY <3>1, <3>2
  <2>3. CASE UNCHANGED <<state, call>> /\ UNCHANGED agentVars
    BY <1>2, <2>3 DEF agentVars
  <2>4. ASSUME NEW p \in Path, NEW c \in TM!FileState, Edit(p, c)
        PROVE  FALSE
    BY <1>1, <2>4 DEF Edit, TM!Edit
  <2>5. ASSUME NEW id \in Known, ApplyTransaction(id) \/ RollbackTransaction(id)
        PROVE  FALSE
    <3>1. ApplyTransaction(id) => call'.op = "apply"
      BY DEF ApplyTransaction
    <3>2. RollbackTransaction(id) => call'.op = "rollback"
      BY DEF RollbackTransaction
    <3>. QED
      BY <2>5, <3>1, <3>2
  <2>6. ASSUME NEW success \in BOOLEAN, RecordCommand(success)
        PROVE  FALSE
    BY <2>6 DEF RecordCommand, IInv, Calls, Call
  <2>. QED
    BY <2>1, <2>2, <2>3, <2>4, <2>5, <2>6, CallSteps
<1>. QED
  BY <1>3, <1>4, <1>5

-----------------------------------------------------------------------------
(***************************************************************************)
(* Files and records agree in this way in every reachable state.           *)
(***************************************************************************)
THEOREM FilesInductive == Spec => []FilesInv
<1>1. Init => FilesInv
  <2>. SUFFICES ASSUME Init PROVE FilesInv
    OBVIOUS
  <2>1. /\ records = [id \in {} |-> TM!FreshRecord] /\ phase = "idle" /\ call = None
        /\ state.evidence = {} /\ saved.records = records /\ saved.state = state
    BY DEF Init, TM!Init, Snapshot, Initial
  <2>2. DOMAIN records = {}
    BY <2>1
  <2>3. TMP!SafetyInv
    BY <2>1, <2>2 DEF TMP!SafetyInv, TMP!BackupIsOriginal, TMP!Known, TMP!ApplyProgress,
                      TMP!RestoreProgress, TMP!Applying
  <2>. QED
    BY <2>1, <2>2, <2>3 DEF FilesInv, Restorable, Originals, RollbacksKept, TestsFit,
       Witnessed,
                            RanOn, Known
<1>2. IInv /\ FilesInv /\ [Next]_agentVars => FilesInv'
  BY RestorableStep, RollbacksKeptStep, TestsFitStep DEF FilesInv
<1>. QED
  BY <1>1, <1>2, Inductive, PTL DEF Spec

(***************************************************************************)
(* What finalize_transaction verifies has its candidate in place; each     *)
(* required test has succeeded for this action, and unless it is of risk   *)
(* L0 on exactly this workspace, also when the evidence is of an earlier   *)
(* attempt or of an earlier process.                                       *)
(***************************************************************************)
THEOREM TestedBeforeVerified == Spec => VerifiedWasTested
<1>. DEFINE Step ==
       \A id \in Known : id \in Known' /\ edits = 0 /\ BecomesVerified(id) =>
         /\ \A p \in TM!Targets(id) : files[p] = id.candidate[p]
         /\ \A test \in state.action.tests :
              \E e \in state.evidence : /\ e.artifact.kind = test
                                        /\ e.artifact.success
                                        /\ e.artifact.action = state.action
                                        /\ test \notin ReadCommand
                                             => e.artifact.source = files
<1>1. IInv /\ FilesInv /\ [Next]_agentVars => Step
  <2>. SUFFICES ASSUME IInv, FilesInv, [Next]_agentVars,
                       NEW id \in Known, edits = 0, BecomesVerified(id)
                PROVE  /\ \A p \in TM!Targets(id) : files[p] = id.candidate[p]
                       /\ \A test \in state.action.tests :
                            \E e \in state.evidence : /\ e.artifact.kind = test
                                                      /\ e.artifact.success
                                                      /\ e.artifact.action = state.action
                                                      /\ test \notin ReadCommand
                                                           => e.artifact.source = files
    OBVIOUS
  <2>1. /\ TM!TypeOK /\ records \in [Known -> TM!Record] /\ id \in TM!TxId
        /\ Witnessed(records) /\ RanOn(state)
        /\ records[id].status # "VERIFIED" /\ records'[id].status = "VERIFIED" /\ up'
    BY DEF IInv, FilesInv, TestsFit, BecomesVerified, Status, TM!TypeOK, TM!Known, Known
  <2>2. records' # records /\ ~Crash
    BY <2>1 DEF Crash
  <2>3. ASSUME TransactionStep
        PROVE  FALSE
    <3>1. Moves
      BY <2>3, CallMoves DEF TransactionStep, IInv
    <3>. QED
      BY <2>1, <3>1 DEF Moves, Same
  <2>4. ASSUME NEW request \in Requests, PrepareTransaction(request)
        PROVE  FALSE
    <3>. DEFINE new == [operation |-> request.operation, source |-> files,
                        candidate |-> request.candidate]
    <3>1. TM!Prepare(request)
      BY <2>4 DEF PrepareTransaction
    <3>. HIDE DEF new
    <3>2. records'[new].status = "PREPARED" /\ \A i \in Known \ {new} : records'[i] = records[i]
      BY <2>1, <3>1, Prepared DEF new
    <3>. QED
      BY <2>1, <3>2
  <2>5. ASSUME NEW i \in Known, DiscardTransaction(i)
        PROVE  FALSE
    <3>1. records'[id].status \in {"DISCARDED", records[id].status}
      BY <2>1, <2>5, StatusChange DEF DiscardTransaction, TM!Discard
    <3>. QED
      BY <2>1, <3>1
  <2>6. FinalizeTransaction(id, state.evidence)
    <3>1. PICK i \in Known : FinalizeTransaction(i, state.evidence)
      BY <2>2, <2>3, <2>4, <2>5, RecordsSteps
    <3>2. i # id => records'[id] = records[id]
      BY <2>1, <3>1, StatusChange DEF FinalizeTransaction, TM!Finalize
    <3>. QED
      BY <2>1, <3>1, <3>2
  <2>7. /\ state.action.tx = id /\ state.action # None /\ TM!VerifyApplied(id)
        /\ Tested(state.action, state.evidence)
    BY <2>6 DEF FinalizeTransaction, CurrentAction
  <2>8. /\ files = Result(id) /\ \A p \in TM!Targets(id) : files[p] = id.candidate[p]
    BY <2>1, <2>7 DEF TM!VerifyApplied, TM!StatusOf, Witnessed, Known
  <2>9. state.action.tests \subseteq Command /\ id # None
    BY <2>1, <2>7, TransactionAssumption
       DEF IInv, Sane, StateType, Pending, TM!SentinelAssumption
  <2>10. ASSUME NEW test \in state.action.tests
         PROVE  \E e \in state.evidence : /\ e.artifact.kind = test
                                          /\ e.artifact.success
                                          /\ e.artifact.action = state.action
                                          /\ test \notin ReadCommand
                                               => e.artifact.source = files
    <3>1. PICK e \in state.evidence : /\ e.artifact.kind = test
                                      /\ e.artifact.success
                                      /\ e.artifact.action = state.action
      BY <2>7 DEF Tested
    <3>2. test \notin ReadCommand => e.artifact.source = Result(id)
      BY <2>1, <2>7, <2>9, <3>1 DEF RanOn
    <3>. QED
      BY <2>8, <3>1, <3>2
  <2>. QED
    BY <2>8, <2>10
<1>. QED
  BY <1>1, Inductive, FilesInductive, PTL DEF Spec, VerifiedWasTested

(***************************************************************************)
(* If nobody edits the workspace inside a call, a rollback that reports    *)
(* success has restored every target, although the manifest of originals   *)
(* may come from an earlier process, and the rollback itself too.          *)
(***************************************************************************)
THEOREM RollbackExact ==
  ASSUME ~RacyEdits
  PROVE  Spec => RollbackIsExact
<1>1. IInv /\ FilesInv /\ [Next]_agentVars => [TMP!ExactStep]_(TMP!txVars)
  <2>. SUFFICES ASSUME IInv, FilesInv, [Next]_agentVars PROVE [TMP!ExactStep]_(TMP!txVars)
    OBVIOUS
  <2>1. TM!TypeOK /\ TMP!SafetyInv /\ RollbacksKept
    BY DEF IInv, FilesInv, Restorable, Undisturbed
  <2>2. CASE [TMP!Next]_(TMP!txVars)
    BY <2>1, <2>2, SameSets, SameType, TMP!RollbackStep, TransactionAssumption
  <2>3. CASE Crash
    BY <2>1, <2>3 DEF RollbacksKept, Crash, TMP!ExactStep, TMP!Known, Known,
       TMP!StatusOf, Status
  <2>4. ASSUME NEW request \in Requests, PrepareTransaction(request)
        PROVE  TMP!ExactStep
    <3>. DEFINE id == [operation |-> request.operation, source |-> files,
                       candidate |-> request.candidate]
    <3>1. TM!Prepare(request)
      BY <2>4 DEF PrepareTransaction
    <3>. HIDE DEF id
    <3>2. /\ records'[id].status = "PREPARED"
          /\ \A i \in Known \ {id} : records'[i] = records[i]
      BY <2>1, <3>1, Prepared DEF id
    <3>. QED
      BY <3>2 DEF TMP!ExactStep, TMP!Known, Known, TMP!StatusOf
  <2>. QED
    BY <2>2, <2>3, <2>4, ManagerSteps
<1>2. [TMP!ExactStep]_(TMP!txVars) =>
        [\A id \in TM!Known :
           TM!StatusOf(id) # "ROLLED_BACK" /\ id \in TM!Known'
             /\ records'[id].status = "ROLLED_BACK"
             => \A p \in TM!Targets(id) : files'[p] = id.source[p]]_(TM!txVars)
  BY DEF TMP!ExactStep, TMP!txVars, TM!txVars, TMP!Known, TM!Known, TMP!StatusOf, TM!StatusOf,
         TMP!Targets, TM!Targets
<1>. QED
  BY <1>1, <1>2, Inductive, FilesInductive, PTL DEF Spec, RollbackIsExact,
     TM!RollbackIsExact


=============================================================================
