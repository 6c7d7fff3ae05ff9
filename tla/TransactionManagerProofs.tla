----------------------- MODULE TransactionManagerProofs -----------------------
(***************************************************************************)
(* Proofs about TransactionManager, for every set of files and contents    *)
(* and every bound.                                                        *)
(***************************************************************************)
EXTENDS TransactionManager, TLAPS

(***************************************************************************)
(* apply and _restore take their next target from the sorted order, so the *)
(* next target is one of those they still have to treat.                   *)
(***************************************************************************)
LEMMA NextTargetInSet ==
  ASSUME NEW S, S \subseteq Path, S # {}
  PROVE  Least(S) \in S /\ Greatest(S) \in S
<1>1. S \in (SUBSET Path) \ {{}}
  OBVIOUS
<1>2. /\ \E p \in S : \A q \in S : p <= q
      /\ \E p \in S : \A q \in S : q <= p
  BY <1>1, PathAssumption
<1>. QED
  BY <1>2 DEF Least, Greatest

\* The candidate of a transaction id is a function from paths to contents.
LEMMA CandidateType ==
  ASSUME NEW id \in TxId
  PROVE  /\ Targets(id) \subseteq Path
         /\ \A p \in Targets(id) : id.candidate[p] \in Content
         /\ id.source \in Workspace
<1>1. id.candidate \in Candidate
  BY DEF TxId
<1>2. PICK S \in (SUBSET Path) \ {{}} : id.candidate \in [S -> Content]
  BY <1>1 DEF Candidate
<1>. QED
  BY <1>2 DEF Targets, TxId

LEMMA FreshRecordType ==
  ASSUME NEW filed \in BOOLEAN
  PROVE  /\ [FreshRecord EXCEPT !.filed = filed] \in Record
         /\ [FreshRecord EXCEPT !.filed = filed].status = "PREPARED"
BY DEF FreshRecord, Record, Status, Workspace

\* A status changes with the flag that says whether the record could be filed.
LEMMA StatusChange ==
  ASSUME TypeOK, NEW id \in Known, NEW s \in Status, SetStatus(id, s)
  PROVE  /\ Known' = Known /\ records' \in [Known -> Record]
         /\ records'[id].status = s
         /\ \A i \in Known : /\ records'[i].backup = records[i].backup
                             /\ records'[i].after = records[i].after
                             /\ i # id => records'[i] = records[i]
         /\ faults' \in 0..MaxFaults
<1>1. PICK filed \in BOOLEAN :
        /\ records' = [records EXCEPT ![id].status = s, ![id].filed = filed]
        /\ File(filed)
  BY DEF SetStatus
<1>2. records \in [Known -> Record]
  BY DEF TypeOK
<1>3. /\ Known' = Known
      /\ records'[id] = [records[id] EXCEPT !.status = s, !.filed = filed]
      /\ \A i \in Known : i # id => records'[i] = records[i]
  BY <1>1, <1>2 DEF Known
<1>4. records'[id] \in Record
  BY <1>2, <1>3 DEF Record
<1>5. records' \in [Known -> Record]
  BY <1>1, <1>2, <1>3, <1>4
<1>6. faults' \in 0..MaxFaults
  BY <1>1, BoundAssumption DEF File, Fault, TypeOK
<1>7. ASSUME NEW r \in Record, NEW f \in BOOLEAN
      PROVE  LET q == [r EXCEPT !.status = s, !.filed = f]
             IN q.status = s /\ q.backup = r.backup /\ q.after = r.after
  BY DEF Record
<1>8. /\ records'[id].status = s
      /\ records'[id].backup = records[id].backup /\ records'[id].after = records[id].after
  BY <1>2, <1>3, <1>7
<1>. QED
  BY <1>3, <1>5, <1>6, <1>8

\* The end of an apply changes the status and the witness of its transaction.
LEMMA ApplyEnd ==
  ASSUME TypeOK, FinishApply
  PROVE  /\ current \in Known /\ phase = "backup" /\ Remaining = {} /\ Return
         /\ UNCHANGED <<files, edits>>
         /\ Known' = Known /\ records' \in [Known -> Record]
         /\ records'[current].status = "APPLIED" /\ records'[current].after = files
         /\ \A i \in Known : /\ records'[i].backup = records[i].backup
                             /\ i # current => records'[i] = records[i]
         /\ faults' \in 0..MaxFaults
<1>1. PICK filed \in BOOLEAN :
        /\ records' = [records EXCEPT ![current].status = "APPLIED",
                                      ![current].after = files, ![current].filed = filed]
        /\ File(filed)
  BY DEF FinishApply
<1>2. /\ records \in [Known -> Record] /\ current \in Known /\ files \in Workspace
  BY DEF TypeOK, FinishApply, Idle
<1>3. /\ Known' = Known
      /\ records'[current] = [records[current] EXCEPT !.status = "APPLIED", !.after = files,
                                                      !.filed = filed]
      /\ \A i \in Known : i # current => records'[i] = records[i]
  BY <1>1, <1>2 DEF Known
<1>4. records'[current] \in Record
  BY <1>2, <1>3 DEF Record, Status
<1>5. records' \in [Known -> Record]
  BY <1>1, <1>2, <1>3, <1>4
<1>6. faults' \in 0..MaxFaults
  BY <1>1, BoundAssumption DEF File, Fault, TypeOK
<1>. QED
  BY <1>2, <1>3, <1>5, <1>6 DEF Record, FinishApply

\* What is prepared has a fresh record.
LEMMA PrepareStep ==
  ASSUME TypeOK, NEW request \in Requests, Prepare(request),
         NEW id, id = [operation |-> request.operation, source |-> files,
                       candidate |-> request.candidate]
  PROVE  /\ id \in TxId /\ id.source = files /\ Idle
         /\ UNCHANGED <<files, phase, current, work, edits>>
         /\ Known' = Known \cup {id} /\ records' \in [Known' -> Record]
         /\ records'[id].status = "PREPARED"
         /\ \A i \in Known : i # id => records'[i] = records[i]
         /\ faults' \in 0..MaxFaults
<1>1. id \in TxId
  BY InputAssumption DEF TxId, TypeOK
<1>2. PICK filed \in BOOLEAN :
        /\ records' = [i \in Known \cup {id} |->
                         IF i = id THEN [FreshRecord EXCEPT !.filed = filed] ELSE records[i]]
        /\ File(filed)
  BY DEF Prepare
<1>3. Known' = Known \cup {id} /\ records' \in [Known' -> Record]
  BY <1>2, FreshRecordType DEF TypeOK, Known
<1>4. /\ records'[id].status = "PREPARED"
      /\ \A i \in Known : i # id => records'[i] = records[i]
  BY <1>2, FreshRecordType
<1>5. faults' \in 0..MaxFaults
  BY <1>2, BoundAssumption DEF File, Fault, TypeOK
<1>. QED
  BY <1>1, <1>3, <1>4, <1>5 DEF Prepare

(***************************************************************************)
(* TypeOK is inductive: one step for each action.                          *)
(***************************************************************************)
LEMMA TypeStep == TypeOK /\ [Next]_txVars => TypeOK'
<1> SUFFICES ASSUME TypeOK, [Next]_txVars PROVE TypeOK'
  OBVIOUS
<1>a. /\ ~Idle => current \in Known /\ current \in TxId
      /\ Idle => current = None
      /\ None \notin TxId /\ None \notin Known
  BY SentinelAssumption DEF TypeOK
<1>1. ASSUME NEW request \in Requests, Prepare(request)
      PROVE  TypeOK'
  <2>. DEFINE id == [operation |-> request.operation,
                     source    |-> files,
                     candidate |-> request.candidate]
  <2>. HIDE DEF id
  <2>1. /\ id \in TxId /\ Idle /\ UNCHANGED <<files, phase, current, work, edits>>
        /\ Known' = Known \cup {id} /\ records' \in [Known' -> Record]
        /\ faults' \in 0..MaxFaults
    BY <1>1, PrepareStep DEF id
  <2>2. current' = None /\ Idle' /\ phase' = "idle"
    BY <2>1, <1>a DEF Idle
  <2>. QED
    BY <2>1, <2>2 DEF TypeOK
<1>2. ASSUME NEW id \in Known, StartApply(id)
      PROVE  TypeOK'
  BY <1>2, <1>a DEF TypeOK, StartApply, Idle, Phase, Known
<1>3. CASE BackupTarget
  <2>1. current \in Known /\ current \in TxId
    BY <1>3, <1>a DEF BackupTarget, Idle
  <2>2. Least(Remaining) \in Path
    BY <1>3, <2>1, CandidateType, NextTargetInSet DEF BackupTarget, Remaining
  <2>3. files[Least(Remaining)] \in FileState
    BY <2>2 DEF TypeOK, Workspace
  <2>4. records' \in [Known -> Record] /\ Known' = Known
    BY <1>3, <2>1, <2>2, <2>3 DEF TypeOK, BackupTarget, Record, Known
  <2>. QED
    BY <1>3, <2>1, <2>4 DEF TypeOK, BackupTarget, Idle, Phase, Remaining
<1>4. CASE ReplaceTarget
  <2>1. current \in Known /\ current \in TxId
    BY <1>4, <1>a DEF ReplaceTarget, Idle
  <2>2. Least(Remaining) \in Targets(current) /\ Targets(current) \subseteq Path
    BY <1>4, <2>1, CandidateType, NextTargetInSet DEF TypeOK, ReplaceTarget, Remaining
  <2>3. files' \in Workspace
    BY <1>4, <2>1, <2>2, CandidateType DEF TypeOK, ReplaceTarget, Workspace, FileState
  <2>4. work' # {} /\ work' \subseteq Path
    BY <1>4, <2>2 DEF TypeOK, ReplaceTarget
  <2>5. work' \subseteq Targets(current')
    BY <1>4, <2>2 DEF TypeOK, ReplaceTarget, Idle
  <2>. QED
    BY <1>4, <2>1, <2>3, <2>4, <2>5 DEF TypeOK, ReplaceTarget, Idle, Phase, Known
<1>5. CASE CheckTarget
  BY <1>5, <1>a DEF TypeOK, CheckTarget, Idle, Phase, Known
<1>6. CASE FinishApply
  BY <1>6, ApplyEnd DEF TypeOK, Return, Idle, Phase
<1>7. CASE RestoreTarget
  <2>1. current \in Known /\ current \in TxId
    BY <1>7, <1>a DEF RestoreTarget, Idle
  <2>2. Greatest(work) \in Path
    BY <1>7, NextTargetInSet DEF TypeOK, RestoreTarget
  <2>3. Original(current, Greatest(work)) \in FileState
    BY <2>1, <2>2 DEF TypeOK, Original, Record, FileState
  <2>4. files' \in Workspace
    BY <1>7, <2>2, <2>3 DEF TypeOK, RestoreTarget, Workspace
  <2>. QED
    BY <1>7, <2>1, <2>4 DEF TypeOK, RestoreTarget, Idle, Phase, Known
<1>8. CASE FinishUndo
  BY <1>8 DEF TypeOK, FinishUndo, Return, Idle, Phase, Known
<1>9. CASE FinishRollback
  <2>1. current \in Known
    BY <1>9, <1>a DEF FinishRollback, Idle
  <2>2. records' \in [Known -> Record] /\ Known' = Known /\ faults' \in 0..MaxFaults
    BY <1>9, <2>1, StatusChange DEF FinishRollback, Status
  <2>. QED
    BY <1>9, <2>2 DEF TypeOK, FinishRollback, Return, Idle, Phase
<1>10. CASE WriteFault
  <2>1. current \in Known
    BY <1>10, <1>a DEF WriteFault, Applying, Idle
  <2>. QED
    BY <1>10, <1>a, <2>1, BoundAssumption
    DEF TypeOK, WriteFault, Applying, Fault, Idle, Phase, Known, Remaining
<1>11. CASE SnapshotFault
  BY <1>11, BoundAssumption DEF TypeOK, SnapshotFault, Fault, Return, Idle, Phase, Known
<1>12. CASE RestoreFault
  BY <1>12, BoundAssumption DEF TypeOK, RestoreFault, Fault, Return, Idle, Phase, Known
<1>13. ASSUME NEW id \in Known, StartRollback(id)
       PROVE  TypeOK'
  BY <1>13, <1>a, CandidateType DEF TypeOK, StartRollback, Idle, Phase, Known
<1>14. ASSUME NEW id \in Known, Finalize(id) \/ Discard(id)
       PROVE  TypeOK'
  <2>1. records' \in [Known -> Record] /\ Known' = Known /\ faults' \in 0..MaxFaults
    BY <1>14, StatusChange DEF Finalize, Discard, Status
  <2>. QED
    BY <1>14, <1>a, <2>1 DEF TypeOK, Finalize, Discard, Idle
<1>15. ASSUME NEW p \in Path, NEW c \in FileState, Edit(p, c)
       PROVE  TypeOK'
  <2>1. files' \in Workspace
    BY <1>15 DEF TypeOK, Edit, Workspace
  <2>. QED
    BY <1>15, <2>1, BoundAssumption DEF TypeOK, Edit, Idle, Known, Remaining
<1>16. ASSUME NEW id \in Known, Tamper(id)
       PROVE  TypeOK'
  <2>1. records' \in [Known -> Record] /\ Known' = Known
    BY <1>16 DEF TypeOK, Tamper, Record, Known
  <2>. QED
    BY <1>16, <1>a, <2>1, BoundAssumption DEF TypeOK, Tamper, Fault, Idle
<1>17. CASE UNCHANGED txVars
  BY <1>17 DEF TypeOK, txVars, Idle, Known, Remaining
<1>. QED
  BY <1>1, <1>2, <1>3, <1>4, <1>5, <1>6, <1>7, <1>8, <1>9, <1>10, <1>11, <1>12,
     <1>13, <1>14, <1>15, <1>16, <1>17
  DEF Next, NewCall, CallStep, FaultStep, Environment

(***************************************************************************)
(* Type correctness of the transaction manager: every record keeps its     *)
(* shape and a call in progress always names a known transaction.          *)
(***************************************************************************)
THEOREM TypeCorrect == Spec => []TypeOK
<1>1. Init => TypeOK
  BY InputAssumption, BoundAssumption, SentinelAssumption
  DEF Init, TypeOK, Known, Idle, Phase, Remaining
<1>. QED
  BY <1>1, TypeStep, PTL DEF Spec

-----------------------------------------------------------------------------
(***************************************************************************)
(* The inductive invariant behind rollback and refinement.  None of its    *)
(* parts is inductive alone: an undo starts from what ApplyProgress says   *)
(* of the targets written so far, a rollback from BackupIsOriginal, and    *)
(* BackupIsOriginal holds at the end of an apply because of ApplyProgress. *)
(***************************************************************************)
SafetyInv == BackupIsOriginal /\ ApplyProgress /\ RestoreProgress

\* A step that leaves workspace, records and call alone leaves SafetyInv alone.
LEMMA SafetyFrame ==
  ASSUME SafetyInv, UNCHANGED <<files, records, phase, current, work>>
  PROVE  SafetyInv'
BY DEF SafetyInv, BackupIsOriginal, ApplyProgress, RestoreProgress, Known, StatusOf,
       Original, Applying, Remaining

\* The invariant survives every step but an edit inside a call.
LEMMA SafetyStep ==
  ASSUME ~RacyEdits \/ edits' = 0, TypeOK, SafetyInv, [Next]_txVars
  PROVE  SafetyInv'
<1>a. /\ ~Idle => current \in Known /\ current \in TxId
      /\ None \notin Known
      /\ \A id \in Known : records[id] \in Record
  BY SentinelAssumption DEF TypeOK
<1>1. ASSUME NEW request \in Requests, Prepare(request)
      PROVE  SafetyInv'
  <2>1. ASSUME NEW id \in Known', records'[id].status \in {"APPLIED", "VERIFIED"}
        PROVE  id \in Known /\ records'[id] = records[id]
    BY <1>1, <2>1, PrepareStep
  <2>2. BackupIsOriginal'
    BY <2>1 DEF SafetyInv, BackupIsOriginal, StatusOf, Original
  <2>3. Idle'
    BY <1>1 DEF Prepare, Idle
  <2>. QED
    BY <2>2, <2>3 DEF SafetyInv, ApplyProgress, RestoreProgress, Applying, Idle
<1>2. ASSUME NEW id \in Known, StartApply(id)
      PROVE  SafetyInv'
  <2>1. BackupIsOriginal'
    BY <1>2 DEF StartApply, SafetyInv, BackupIsOriginal, Known, StatusOf, Original
  <2>2. ApplyProgress'
    BY <1>2 DEF StartApply, CanApply, ApplyProgress, Applying, StatusOf
  <2>. QED
    BY <1>2, <2>1, <2>2 DEF SafetyInv, StartApply, RestoreProgress
<1>3. CASE BackupTarget
  <2>. DEFINE t == Least(Remaining)
  <2>1. /\ current \in Known /\ current \in TxId
        /\ current' = current /\ Known' = Known /\ work' = work /\ files' = files
    BY <1>3, <1>a DEF BackupTarget, Idle, Known
  <2>2. t \in Remaining /\ t \in Path /\ t \in Path \ work
    BY <1>3, <2>1, CandidateType, NextTargetInSet DEF BackupTarget, Remaining
  <2>3. files[t] = current.source[t] /\ files[t] \in FileState
    BY <1>3, <2>2 DEF SafetyInv, ApplyProgress, Applying, BackupTarget, TypeOK, Workspace
  <2>4. \A id \in Known : /\ records'[id].status = records[id].status
                          /\ id # current => records'[id].backup = records[id].backup
    BY <1>3, <2>1 DEF BackupTarget, TypeOK, Record
  <2>5. \A p \in Path : records'[current].backup[p]
                          = IF p = t THEN files[t] ELSE records[current].backup[p]
    BY <1>3, <2>1, <1>a DEF BackupTarget, TypeOK, Record
  <2>6. Original(current, t)' = current.source[t]
    <3>1. t' = t
      BY <2>1 DEF Remaining, Least, Targets
    <3>. QED
      BY <3>1, <2>1, <2>2, <2>3, <2>5, SentinelAssumption DEF Original
  <2>7. \A p \in work : Original(current, p)' = Original(current, p)
    BY <2>1, <2>2, <2>5 DEF Original, TypeOK
  <2>8. StatusOf(current) = "PREPARED"
    BY <1>3 DEF SafetyInv, ApplyProgress, Applying, BackupTarget
  <2>9. BackupIsOriginal'
    BY <2>1, <2>4, <2>8 DEF SafetyInv, BackupIsOriginal, StatusOf, Original
  <2>10. ApplyProgress'
    BY <1>3, <2>1, <2>4, <2>6, <2>7, <2>8
    DEF SafetyInv, ApplyProgress, Applying, BackupTarget, StatusOf, Remaining
  <2>. QED
    BY <1>3, <2>9, <2>10 DEF SafetyInv, RestoreProgress, BackupTarget
<1>4. CASE ReplaceTarget
  <2>. DEFINE t == Least(Remaining)
  <2>1. /\ current \in Known /\ current \in TxId
        /\ current' = current /\ records' = records /\ work' = work \cup {t}
        /\ files' = [files EXCEPT ![t] = current.candidate[t]] /\ phase' = "check"
    BY <1>4, <1>a DEF ReplaceTarget, Idle
  <2>2. t \in Remaining /\ t \in Path /\ t \notin work
    BY <1>4, <2>1, CandidateType, NextTargetInSet DEF TypeOK, ReplaceTarget, Remaining
  <2>3. \A p \in Path : files'[p] = IF p = t THEN current.candidate[t] ELSE files[p]
    BY <2>1, <2>2 DEF TypeOK, Workspace
  <2>4. BackupIsOriginal'
    BY <2>1 DEF SafetyInv, BackupIsOriginal, Known, StatusOf, Original
  <2>5. ApplyProgress
    BY DEF SafetyInv
  <2>6. Applying /\ phase = "replace"
    BY <1>4 DEF ReplaceTarget, Applying
  <2>7. \A p \in Path \ work' : files'[p] = current.source[p]
    BY <2>1, <2>2, <2>3, <2>5, <2>6 DEF ApplyProgress
  <2>8. \A p \in work' : files'[p] = current.candidate[p]
    BY <2>1, <2>2, <2>3, <2>5, <2>6 DEF ApplyProgress, TypeOK
  <2>9. \A p \in work' : Original(current, p)' = current.source[p]
    BY <2>1, <2>2, <2>5, <2>6 DEF ApplyProgress, Original
  <2>10. StatusOf(current)' = "PREPARED"
    BY <2>1, <2>5, <2>6 DEF ApplyProgress, StatusOf
  <2>11. ApplyProgress'
    BY <2>1, <2>7, <2>8, <2>9, <2>10 DEF ApplyProgress
  <2>. QED
    BY <2>1, <2>4, <2>11 DEF SafetyInv, RestoreProgress
<1>5. CASE CheckTarget
  <2>1. UNCHANGED <<files, records, current, work>> /\ phase' \in {"backup", "undo"}
    BY <1>5 DEF CheckTarget
  <2>2. Applying /\ current \in Known /\ current \in TxId
    BY <1>5, <1>a DEF CheckTarget, Applying, Idle
  <2>3. Targets(current) \subseteq Path
    BY <2>2, CandidateType
  <2>. QED
    BY <2>1, <2>2, <2>3 DEF SafetyInv, BackupIsOriginal, ApplyProgress, RestoreProgress,
       Known, StatusOf, Original, Applying
<1>6. CASE FinishApply
  <2>1. current \in Known /\ current \in TxId /\ Applying /\ ~Idle
    BY <1>6, <1>a DEF FinishApply, Applying, Idle
  <2>2. work = Targets(current)
    BY <1>6, <2>1 DEF FinishApply, Remaining, TypeOK
  <2>3. /\ Known' = Known
        /\ \A id \in Known : records'[id].backup = records[id].backup
        /\ \A id \in Known : id # current => records'[id].status = records[id].status
    BY <1>6, ApplyEnd
  <2>4. \A p \in Targets(current) : Original(current, p) = current.source[p]
    BY <2>1, <2>2 DEF SafetyInv, ApplyProgress
  <2>5. BackupIsOriginal'
    BY <2>1, <2>3, <2>4 DEF SafetyInv, BackupIsOriginal, StatusOf, Original
  <2>. QED
    BY <1>6, <2>5 DEF FinishApply, Return, SafetyInv, ApplyProgress, RestoreProgress, Applying
<1>7. CASE RestoreTarget
  <2>. DEFINE t == Greatest(work)
  <2>1. /\ current \in Known /\ current \in TxId
        /\ UNCHANGED <<records, phase, current>> /\ work' = work \ {t}
        /\ files' = [files EXCEPT ![t] = Original(current, t)]
        /\ phase \in {"undo", "restore"}
    BY <1>7, <1>a DEF RestoreTarget, Idle
  <2>2. t \in work /\ t \in Path
    BY <1>7, NextTargetInSet DEF TypeOK, RestoreTarget
  <2>3. \A p \in Path : files'[p] = IF p = t THEN Original(current, t) ELSE files[p]
    BY <2>1, <2>2 DEF TypeOK, Workspace
  <2>4. RestoreProgress
    BY DEF SafetyInv
  <2>5. \A p \in Targets(current) \ work' : files'[p] = current.source[p]
    BY <2>1, <2>2, <2>3, <2>4, CandidateType DEF RestoreProgress
  <2>6. \A p \in work' : Original(current, p)' = current.source[p]
    BY <2>1, <2>2, <2>4 DEF RestoreProgress, Original
  <2>7. RestoreProgress'
    BY <2>1, <2>5, <2>6 DEF RestoreProgress
  <2>8. BackupIsOriginal'
    BY <2>1 DEF SafetyInv, BackupIsOriginal, Known, StatusOf, Original
  <2>. QED
    BY <2>1, <2>7, <2>8 DEF SafetyInv, ApplyProgress, Applying
<1>8. CASE FinishUndo \/ SnapshotFault \/ RestoreFault
  BY <1>8 DEF FinishUndo, SnapshotFault, RestoreFault, Return, SafetyInv, BackupIsOriginal,
     ApplyProgress, RestoreProgress, Applying, Known, StatusOf, Original
<1>9. CASE FinishRollback
  <2>1. current \in Known
    BY <1>9, <1>a DEF FinishRollback, Idle
  <2>2. /\ Known' = Known
        /\ \A id \in Known : records'[id].backup = records[id].backup
        /\ \A id \in Known : id # current => records'[id].status = records[id].status
        /\ records'[current].status = "ROLLED_BACK"
    BY <1>9, <2>1, StatusChange DEF FinishRollback, Status
  <2>3. BackupIsOriginal'
    BY <2>2 DEF SafetyInv, BackupIsOriginal, StatusOf, Original
  <2>. QED
    BY <1>9, <2>3 DEF FinishRollback, Return, SafetyInv, ApplyProgress, RestoreProgress, Applying
<1>10. CASE WriteFault
  <2>1. current \in TxId
    BY <1>10, <1>a DEF WriteFault, Applying, Idle
  <2>. QED
    BY <1>10, <2>1, CandidateType DEF WriteFault, SafetyInv, BackupIsOriginal, ApplyProgress,
       RestoreProgress, Applying, Known, StatusOf, Original
<1>11. ASSUME NEW id \in Known, StartRollback(id)
       PROVE  SafetyInv'
  <2>1. \A p \in Targets(id) : Original(id, p) = id.source[p]
    BY <1>11 DEF StartRollback, SafetyInv, BackupIsOriginal
  <2>. QED
    BY <1>11, <2>1 DEF StartRollback, SafetyInv, BackupIsOriginal, ApplyProgress,
       RestoreProgress, Applying, Known, StatusOf, Original
<1>12. ASSUME NEW id \in Known, Finalize(id) \/ Discard(id)
       PROVE  SafetyInv'
  <2>1. /\ Known' = Known
        /\ \A i \in Known : records'[i].backup = records[i].backup
        /\ \A i \in Known : i # id => records'[i].status = records[i].status
        /\ records'[id].status \in {"APPLIED", "VERIFIED"}
             => records[id].status \in {"APPLIED", "VERIFIED"}
    <3>1. PICK v \in Status : /\ SetStatus(id, v)
                              /\ v \in {"APPLIED", "VERIFIED"} => records[id].status = "APPLIED"
      BY <1>12 DEF Finalize, Discard, StatusOf, Status
    <3>. QED
      BY <3>1, StatusChange
  <2>2. BackupIsOriginal'
    BY <2>1 DEF SafetyInv, BackupIsOriginal, StatusOf, Original
  <2>. QED
    BY <1>12, <2>2 DEF Finalize, Discard, Idle, SafetyInv, ApplyProgress, RestoreProgress, Applying
<1>13. ASSUME NEW p \in Path, NEW c \in FileState, Edit(p, c)
       PROVE  SafetyInv'
  BY <1>13 DEF TypeOK, Edit, Idle, SafetyInv, BackupIsOriginal, ApplyProgress, RestoreProgress,
     Applying, Known, StatusOf, Original
<1>14. ASSUME NEW id \in Known, Tamper(id)
       PROVE  SafetyInv'
  <2>1. /\ Known' = Known
        /\ \A i \in Known : /\ records'[i].backup = records[i].backup
                            /\ records'[i].status = records[i].status
    BY <1>14 DEF Tamper, Known, TypeOK, Record
  <2>2. BackupIsOriginal'
    BY <2>1 DEF SafetyInv, BackupIsOriginal, StatusOf, Original
  <2>. QED
    BY <1>14, <2>2 DEF Tamper, Idle, SafetyInv, ApplyProgress, RestoreProgress, Applying
<1>15. CASE UNCHANGED txVars
  BY <1>15, SafetyFrame DEF txVars
<1>. QED
  BY <1>1, <1>2, <1>3, <1>4, <1>5, <1>6, <1>7, <1>8, <1>9, <1>10, <1>11, <1>12,
     <1>13, <1>14, <1>15
  DEF Next, NewCall, CallStep, FaultStep, Environment

\* The invariant holds throughout, as long as nobody edits the workspace inside a
\* call.
LEMMA SafetyHolds ==
  ASSUME ~RacyEdits
  PROVE  Spec => []SafetyInv
<1>1. Init => SafetyInv
  BY DEF Init, SafetyInv, BackupIsOriginal, ApplyProgress, RestoreProgress, Applying, Known
<1>2. TypeOK /\ SafetyInv /\ [Next]_txVars => SafetyInv'
  BY SafetyStep
<1>. QED
  BY <1>1, <1>2, TypeCorrect, PTL DEF Spec

(***************************************************************************)
(* If nobody edits the workspace inside a call, then whatever writes fail  *)
(* and whatever restorations are cut short, the manifests of applied       *)
(* transactions hold the originals.                                        *)
(***************************************************************************)
THEOREM Safety ==
  ASSUME ~RacyEdits
  PROVE  Spec => []BackupIsOriginal
<1>1. SafetyInv => BackupIsOriginal
  BY DEF SafetyInv
<1>. QED
  BY <1>1, SafetyHolds, PTL

(***************************************************************************)
(* Then, too, a call in progress knows what it has done: a partial apply   *)
(* has touched its targets only and can be undone from its record, and     *)
(* what _restore has treated is back to the source snapshot.               *)
(***************************************************************************)
THEOREM WorkIsKnown ==
  ASSUME ~RacyEdits
  PROVE  Spec => []WorkInProgress
<1>1. SafetyInv => WorkInProgress
  BY DEF SafetyInv, WorkInProgress
<1>. QED
  BY <1>1, SafetyHolds, PTL

\* What a step that reports a rollback has done to the targets.
ExactStep ==
  \A id \in Known :
    StatusOf(id) # "ROLLED_BACK" /\ id \in Known' /\ records'[id].status = "ROLLED_BACK"
      => \A p \in Targets(id) : files'[p] = id.source[p]

\* Only the last step of a rollback reports one, when every target is restored.
LEMMA RollbackStep ==
  ASSUME TypeOK, SafetyInv, [Next]_txVars
  PROVE  ExactStep
<1> SUFFICES ASSUME NEW id \in Known,
                    StatusOf(id) # "ROLLED_BACK",
                    records'[id].status = "ROLLED_BACK",
                    NEW p \in Targets(id)
             PROVE  files'[p] = id.source[p]
  BY DEF ExactStep
<1> USE DEF TypeOK, Record, StatusOf, Known
<1>1. CASE FinishRollback
  <2>1. current \in Known
    BY <1>1, SentinelAssumption DEF FinishRollback, Idle
  <2>2. id = current
    BY <1>1, <2>1, StatusChange DEF FinishRollback, Status
  <2>. QED
    BY <1>1, <2>2 DEF FinishRollback, SafetyInv, RestoreProgress
<1>2. ASSUME NEW request \in Requests, Prepare(request)
      PROVE  FALSE
  BY <1>2, PrepareStep
<1>3. ASSUME NEW i \in Known, StartApply(i) \/ StartRollback(i) \/ Finalize(i)
                              \/ Discard(i) \/ Tamper(i)
      PROVE  FALSE
  <2>1. CASE Finalize(i) \/ Discard(i)
    BY <2>1, StatusChange DEF Finalize, Discard, Status
  <2>. QED
    BY <1>3, <2>1 DEF StartApply, StartRollback, Tamper
<1>4. CASE BackupTarget
  <2>1. current \in Known
    BY <1>4, SentinelAssumption DEF BackupTarget, Idle
  <2>. QED
    BY <1>4, <2>1 DEF BackupTarget
<1>5. CASE FinishApply
  BY <1>5, ApplyEnd
<1>6. CASE \/ ReplaceTarget \/ CheckTarget \/ RestoreTarget \/ FinishUndo \/ FaultStep
           \/ UNCHANGED txVars
  BY <1>6 DEF ReplaceTarget, CheckTarget, RestoreTarget, FinishUndo, FaultStep,
     WriteFault, SnapshotFault, RestoreFault, txVars
<1>7. ASSUME NEW q \in Path, NEW c \in FileState, Edit(q, c)
      PROVE  FALSE
  BY <1>7 DEF Edit
<1>. QED
  BY <1>1, <1>2, <1>3, <1>4, <1>5, <1>6, <1>7
  DEF Next, NewCall, CallStep, FaultStep, Environment

(***************************************************************************)
(* A transaction becomes ROLLED_BACK only in a state where every target is *)
(* what it was when the candidate was prepared: a rollback cut short by an *)
(* error and repeated is as exact as one that succeeds at once.            *)
(***************************************************************************)
THEOREM RollbackExact ==
  ASSUME ~RacyEdits
  PROVE  Spec => RollbackIsExact
<1>1. TypeOK /\ SafetyInv /\ [Next]_txVars => [ExactStep]_txVars
  BY RollbackStep
<1>2. Spec => []SafetyInv
  BY SafetyHolds
<1>. QED
  BY <1>1, <1>2, TypeCorrect, PTL DEF Spec, RollbackIsExact, ExactStep

-----------------------------------------------------------------------------
(***************************************************************************)
(* Refinement.  A call's own steps are invisible until an apply finishes.  *)
(***************************************************************************)
LEMMA InvisibleStep ==
  ASSUME TypeOK, TypeOK', ~Idle, ~Idle', current' = current,
         Known' = Known, \A id \in Known : records'[id].status = records[id].status,
         (phase = "restore") <=> (phase' = "restore"),
         \A p \in Path \ Targets(current) : files'[p] = files[p]
  PROVE  VisibleFiles' = VisibleFiles /\ VisibleStatus' = VisibleStatus
<1>1. VisibleFiles' = VisibleFiles
  BY DEF VisibleFiles, Targets
<1>2. VisibleStatus' = VisibleStatus
  BY DEF VisibleStatus, StatusOf
<1>. QED
  BY <1>1, <1>2

LEMMA RefinementStep ==
  ASSUME ~RacyEdits, FaultPoints \cap {"restore", "snapshot"} = {},
         TypeOK, TypeOK', SafetyInv, [Next]_txVars
  PROVE  [Abstract!Next]_(Abstract!vars)
<1>a. /\ ~Idle => current \in Known /\ current \in TxId /\ Targets(current) \subseteq Path
      /\ None \notin Known /\ files \in [Path -> FileState]
      /\ \A id \in Known : id \in TxId /\ Targets(id) \subseteq Path /\ id.source \in Workspace
  BY SentinelAssumption, CandidateType DEF TypeOK, Workspace
<1>b. DOMAIN VisibleStatus = Known
  BY DEF VisibleStatus
<1>1. ASSUME NEW request \in Requests, Prepare(request)
      PROVE  Abstract!Next
  <2>. DEFINE id == [operation |-> request.operation,
                     source    |-> files,
                     candidate |-> request.candidate]
  <2>. HIDE DEF id
  <2>1. /\ id \in TxId /\ id.source = files /\ Idle /\ files' = files /\ phase' = phase
        /\ Known' = Known \cup {id} /\ records'[id].status = "PREPARED"
        /\ \A i \in Known : i # id => records'[i] = records[i]
    BY <1>1, PrepareStep DEF id
  <2>2. Idle /\ Idle' /\ phase = "idle" /\ phase' = "idle" /\ files' = files
    BY <2>1 DEF Idle
  <2>3. \A i \in Known' : records'[i].status = IF i = id THEN "PREPARED" ELSE records[i].status
    BY <2>1
  <2>4. VisibleFiles = files /\ VisibleFiles' = files
    BY <2>2 DEF VisibleFiles
  <2>5. VisibleStatus' = [i \in Known \cup {id} |->
                            IF i = id THEN "PREPARED" ELSE VisibleStatus[i]]
    BY <2>1, <2>2, <2>3 DEF VisibleStatus, StatusOf
  <2>6. Abstract!Prepare(id)
    BY <1>b, <2>1, <2>4, <2>5 DEF Abstract!Prepare, Abstract!Known
  <2>. QED
    BY <2>1, <2>6 DEF Abstract!Next
<1>2. ASSUME NEW id \in Known, StartApply(id)
      PROVE  UNCHANGED Abstract!vars
  <2>1. /\ Idle /\ ~Idle' /\ current' = id /\ files' = files /\ records' = records
        /\ files = id.source /\ phase = "idle" /\ phase' = "backup"
    BY <1>2 DEF StartApply, CanApply, Idle
  <2>2. VisibleFiles' = files
    BY <2>1, <1>a DEF VisibleFiles
  <2>3. VisibleStatus' = VisibleStatus
    BY <2>1 DEF VisibleStatus, StatusOf, Known
  <2>. QED
    BY <2>1, <2>2, <2>3 DEF VisibleFiles, Abstract!vars
<1>3. CASE BackupTarget
  <2>1. ~Idle /\ ~Idle' /\ current' = current /\ files' = files /\ phase # "restore"
        /\ phase' # "restore"
    BY <1>3 DEF BackupTarget, Idle
  <2>2. Known' = Known /\ \A id \in Known : records'[id].status = records[id].status
    BY <1>3, <2>1, <1>a DEF BackupTarget, Known, TypeOK, Record
  <2>. QED
    BY <2>1, <2>2, InvisibleStep DEF Abstract!vars
<1>4. CASE ReplaceTarget
  <2>1. /\ ~Idle /\ ~Idle' /\ current' = current /\ records' = records
        /\ phase # "restore" /\ phase' # "restore"
    BY <1>4 DEF ReplaceTarget, Idle
  <2>2. Least(Remaining) \in Targets(current)
    BY <1>4, <2>1, <1>a, NextTargetInSet DEF TypeOK, ReplaceTarget, Remaining
  <2>3. \A p \in Path \ Targets(current) : files'[p] = files[p]
    BY <1>4, <2>2, <1>a DEF ReplaceTarget
  <2>. QED
    BY <2>1, <2>3, InvisibleStep DEF Abstract!vars, Known
<1>5. CASE CheckTarget \/ WriteFault
  <2>1. /\ ~Idle /\ ~Idle' /\ current' = current /\ records' = records /\ files' = files
        /\ phase # "restore" /\ phase' # "restore"
    BY <1>5 DEF CheckTarget, WriteFault, Applying, Idle
  <2>. QED
    BY <2>1, InvisibleStep DEF Abstract!vars, Known
<1>6. CASE FinishApply
  <2>1. /\ ~Idle /\ Idle' /\ phase = "backup" /\ phase' = "idle" /\ Applying /\ files' = files
    BY <1>6 DEF FinishApply, Return, Idle, Applying
  <2>2. work = Targets(current)
    BY <1>6, <2>1 DEF FinishApply, Remaining, TypeOK
  <2>3. ApplyProgress
    BY DEF SafetyInv
  <2>4. VisibleFiles = current.source
    BY <2>1, <2>2, <2>3, <1>a DEF VisibleFiles, ApplyProgress, Workspace
  <2>5. VisibleFiles' = Abstract!Overlay(VisibleFiles, current.candidate)
    <3>1. VisibleFiles' = files
      BY <2>1 DEF VisibleFiles
    <3>2. \A p \in Path : files[p] = IF p \in DOMAIN current.candidate
                                     THEN current.candidate[p] ELSE current.source[p]
      BY <2>1, <2>2, <2>3 DEF ApplyProgress, Targets
    <3>3. DOMAIN current.source = Path
      BY <2>1, <1>a DEF Workspace
    <3>. QED
      BY <3>1, <3>2, <3>3, <2>4, <1>a DEF Abstract!Overlay
  <2>6. VisibleStatus[current] = "PREPARED"
    BY <2>1, <2>3, <1>a DEF VisibleStatus, ApplyProgress, StatusOf
  <2>7. VisibleStatus' = [VisibleStatus EXCEPT ![current] = "APPLIED"]
    <3>1. Known' = Known /\ \A id \in Known : records'[id].status =
             IF id = current THEN "APPLIED" ELSE records[id].status
      BY <1>6, ApplyEnd
    <3>. QED
      BY <3>1, <2>1 DEF VisibleStatus, StatusOf
  <2>8. Abstract!Apply(current)
    BY <2>4, <2>5, <2>6, <2>7 DEF Abstract!Apply
  <2>. QED
    BY <2>1, <2>8, <1>a, <1>b DEF Abstract!Next, Abstract!Known
<1>7. CASE RestoreTarget
  <2>1. ~Idle /\ ~Idle' /\ current' = current /\ records' = records /\ phase' = phase
    BY <1>7 DEF RestoreTarget, Idle
  <2>2. Greatest(work) \in Targets(current)
    BY <1>7, <2>1, <1>a, NextTargetInSet DEF TypeOK, RestoreTarget
  <2>3. \A p \in Path \ Targets(current) : files'[p] = files[p]
    BY <1>7, <2>2, <1>a DEF RestoreTarget
  <2>. QED
    BY <2>1, <2>3, InvisibleStep DEF Abstract!vars, Known
<1>8. CASE FinishUndo
  <2>1. /\ ~Idle /\ Idle' /\ phase = "undo" /\ phase' = "idle" /\ work = {}
        /\ files' = files /\ records' = records
    BY <1>8 DEF FinishUndo, Return, Idle
  <2>2. \A p \in Targets(current) : files[p] = current.source[p]
    BY <2>1 DEF SafetyInv, RestoreProgress
  <2>3. VisibleFiles = files
    BY <2>1, <2>2, <1>a DEF VisibleFiles
  <2>4. VisibleFiles' = files /\ VisibleStatus' = VisibleStatus
    BY <2>1 DEF VisibleFiles, VisibleStatus, StatusOf, Known
  <2>. QED
    BY <2>3, <2>4 DEF Abstract!vars
<1>9. CASE FinishRollback
  <2>1. /\ ~Idle /\ Idle' /\ phase = "restore" /\ phase' = "idle" /\ work = {} /\ files' = files
    BY <1>9 DEF FinishRollback, Return, Idle
  <2>2. \A p \in Targets(current) : files[p] = current.source[p]
    BY <2>1 DEF SafetyInv, RestoreProgress
  <2>3. VisibleFiles = files /\ VisibleFiles' = files
    BY <2>1, <2>2, <1>a DEF VisibleFiles
  <2>4. Known' = Known /\ \A id \in Known : records'[id].status =
             IF id = current THEN "ROLLED_BACK" ELSE records[id].status
    BY <1>9, <2>1, <1>a, StatusChange DEF FinishRollback, Status
  <2>5. VisibleStatus' = VisibleStatus
    BY <2>1, <2>4 DEF VisibleStatus, StatusOf
  <2>. QED
    BY <2>3, <2>5 DEF Abstract!vars
<1>10. CASE SnapshotFault \/ RestoreFault
  BY <1>10 DEF SnapshotFault, RestoreFault, Fault
<1>11. ASSUME NEW id \in Known, StartRollback(id)
       PROVE  Abstract!Next
  <2>1. /\ Idle /\ ~Idle' /\ phase = "idle" /\ phase' = "restore" /\ current' = id
        /\ files' = files /\ records' = records /\ StatusOf(id) \in {"APPLIED", "VERIFIED"}
    BY <1>11 DEF StartRollback, Idle
  <2>2. VisibleFiles = files
    BY <2>1 DEF VisibleFiles
  <2>3. VisibleFiles' = Abstract!Restore(VisibleFiles, id)
    BY <2>1, <2>2, <1>a DEF VisibleFiles, Abstract!Restore, Targets
  <2>4. VisibleStatus[id] = StatusOf(id)
    BY <2>1 DEF VisibleStatus
  <2>5. VisibleStatus' = [VisibleStatus EXCEPT ![id] = "ROLLED_BACK"]
    BY <2>1 DEF VisibleStatus, StatusOf, Known
  <2>6. Abstract!Rollback(id)
    BY <2>1, <2>3, <2>4, <2>5 DEF Abstract!Rollback
  <2>. QED
    BY <2>6, <1>b DEF Abstract!Next, Abstract!Known
<1>12. ASSUME NEW id \in Known, Finalize(id) \/ Discard(id)
       PROVE  Abstract!Next
  <2>1. Idle /\ Idle' /\ phase = "idle" /\ phase' = "idle" /\ files' = files
    BY <1>12 DEF Finalize, Discard, Idle
  <2>2. VisibleFiles' = VisibleFiles /\ VisibleStatus[id] = StatusOf(id)
    BY <2>1 DEF VisibleFiles, VisibleStatus
  <2>3. CASE Finalize(id)
    <3>1. Known' = Known /\ \A i \in Known : records'[i].status =
             IF i = id THEN "VERIFIED" ELSE records[i].status
      BY <2>3, StatusChange DEF Finalize, Status
    <3>2. VisibleStatus' = [VisibleStatus EXCEPT ![id] = "VERIFIED"]
      BY <2>1, <3>1 DEF VisibleStatus, StatusOf
    <3>3. Abstract!Finalize(id)
      BY <2>2, <2>3, <3>2 DEF Abstract!Finalize, Finalize
    <3>. QED
      BY <3>3, <1>b DEF Abstract!Next, Abstract!Known
  <2>4. CASE Discard(id)
    <3>1. Known' = Known /\ \A i \in Known : records'[i].status =
             IF i = id THEN "DISCARDED" ELSE records[i].status
      BY <2>4, StatusChange DEF Discard, Status
    <3>2. VisibleStatus' = [VisibleStatus EXCEPT ![id] = "DISCARDED"]
      BY <2>1, <3>1 DEF VisibleStatus, StatusOf
    <3>3. Abstract!Discard(id)
      BY <2>2, <2>4, <3>2 DEF Abstract!Discard, Discard
    <3>. QED
      BY <3>3, <1>b DEF Abstract!Next, Abstract!Known
  <2>. QED
    BY <1>12, <2>3, <2>4
<1>13. ASSUME NEW p \in Path, NEW c \in FileState, Edit(p, c)
       PROVE  Abstract!Next
  <2>1. /\ Idle /\ Idle' /\ phase = "idle" /\ phase' = "idle" /\ records' = records
        /\ files' = [files EXCEPT ![p] = c]
    BY <1>13 DEF Edit, Idle
  <2>2. VisibleFiles = files /\ VisibleFiles' = files'
    BY <2>1 DEF VisibleFiles
  <2>3. VisibleStatus' = VisibleStatus
    BY <2>1 DEF VisibleStatus, StatusOf, Known
  <2>4. Abstract!Edit(p, c)
    BY <2>1, <2>2, <2>3 DEF Abstract!Edit
  <2>. QED
    BY <2>4 DEF Abstract!Next
<1>14. ASSUME NEW id \in Known, Tamper(id)
       PROVE  UNCHANGED Abstract!vars
  <2>1. /\ Idle /\ Idle' /\ phase = "idle" /\ phase' = "idle" /\ files' = files
        /\ Known' = Known /\ \A i \in Known : records'[i].status = records[i].status
    BY <1>14 DEF Tamper, Idle, Known, TypeOK, Record
  <2>. QED
    BY <2>1 DEF VisibleFiles, VisibleStatus, StatusOf, Abstract!vars
<1>15. CASE UNCHANGED txVars
  BY <1>15 DEF txVars, VisibleFiles, VisibleStatus, StatusOf, Known, Idle, Targets, Abstract!vars
<1>. QED
  BY <1>1, <1>2, <1>3, <1>4, <1>5, <1>6, <1>7, <1>8, <1>9, <1>10, <1>11, <1>12,
     <1>13, <1>14, <1>15
  DEF Next, NewCall, CallStep, FaultStep, Environment

(***************************************************************************)
(* Where restorations do not fail and nobody edits the workspace inside a  *)
(* call, the file-by-file apply with its undo is all or nothing: every     *)
(* behaviour of TransactionManager is one of AtomicChange.                 *)
(***************************************************************************)
THEOREM Refinement ==
  ASSUME ~RacyEdits, FaultPoints \cap {"restore", "snapshot"} = {}
  PROVE  Spec => ImplementsAtomicChange
<1>1. Init => Abstract!Init
  <2> SUFFICES ASSUME Init PROVE Abstract!Init
    OBVIOUS
  <2>1. VisibleFiles \in [Path -> FileState]
    BY InputAssumption DEF Init, VisibleFiles, Idle, Workspace
  <2>2. VisibleStatus = [id \in {} |-> "PREPARED"]
    BY DEF Init, VisibleStatus, Known
  <2>. QED
    BY <2>1, <2>2 DEF Abstract!Init
<1>2. TypeOK /\ TypeOK' /\ SafetyInv /\ [Next]_txVars => [Abstract!Next]_(Abstract!vars)
  BY RefinementStep
<1>3. Spec => []SafetyInv
  BY SafetyHolds
<1>. QED
  BY <1>1, <1>2, <1>3, TypeCorrect, PTL DEF Spec, ImplementsAtomicChange, Abstract!Spec
=============================================================================
