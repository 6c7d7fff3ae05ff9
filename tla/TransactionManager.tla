-------------------------- MODULE TransactionManager --------------------------
(***************************************************************************)
(* ourd/transactions.py: TransactionManager prepares a candidate for a set *)
(* of files, writes it over the workspace one file at a time, and restores *)
(* the originals when a write fails or the caller asks for a rollback.     *)
(*                                                                         *)
(* A snapshot hash stands for the whole workspace and a file hash for the  *)
(* content of one file, so the model uses the workspace and the content    *)
(* themselves.  A transaction id is a hash of the operation, the source    *)
(* snapshot and the candidate, so it is those three.                       *)
(***************************************************************************)
EXTENDS Integers, FiniteSets

CONSTANTS
  Path,         \* files of the workspace, numbered in the order sorted() gives
  Content,      \* contents a file can have
  Absent,       \* what file_hash_or_none says of a file that does not exist
  None,         \* no transaction, no manifest entry, no snapshot
  InitialFiles, \* workspaces the run may start from
  Requests,     \* changes a caller may ask for: [operation, candidate]
  MaxTransactions, \* bound: transactions prepared in one behaviour
  MaxEdits,     \* bound: edits of the workspace by somebody else
  RacyEdits,    \* whether such an edit may fall inside a call
  MaxFaults,    \* bound: failures of the environment
  FaultPoints   \* where they strike: "write", "restore", "snapshot", "record", "tamper"

FileState == Content \cup {Absent}
Workspace == [Path -> FileState]
Candidate == UNION {[S -> Content] : S \in (SUBSET Path) \ {{}}}
Operation == {"write_file", "replace_text", "multi_file"}
TxId == [operation : Operation, source : Workspace, candidate : Candidate]

Status == {"PREPARED", "APPLIED", "VERIFIED", "ROLLED_BACK", "DISCARDED"}
Phase == {"idle", "backup", "replace", "check", "undo", "restore"}

\* Every nonempty set of paths can be sorted: it has a first and a last.
ASSUME PathAssumption ==
  /\ Path \subseteq Int
  /\ \A S \in (SUBSET Path) \ {{}} : /\ \E p \in S : \A q \in S : p <= q
                                   /\ \E p \in S : \A q \in S : q <= p
ASSUME SentinelAssumption ==
  /\ Absent \notin Content
  /\ None \notin FileState
  /\ None \notin TxId
  /\ None \notin Workspace
ASSUME InputAssumption ==
  /\ InitialFiles \subseteq Workspace
  /\ Requests \subseteq [operation : Operation, candidate : Candidate]
ASSUME BoundAssumption ==
  /\ MaxTransactions \in Nat /\ MaxEdits \in Nat /\ MaxFaults \in Nat
  /\ RacyEdits \in BOOLEAN
  /\ FaultPoints \subseteq {"write", "restore", "snapshot", "record", "tamper"}

VARIABLES
  files,    \* the workspace
  records,  \* RuntimeState.transactions, by transaction id
  phase,    \* where the call in progress is; "idle" between calls
  current,  \* the transaction of the call in progress
  work,     \* targets applied so far, or still to be restored
  edits,    \* edits by others so far
  faults    \* failures so far

txVars == <<files, records, phase, current, work, edits, faults>>

(***************************************************************************)
(* The part of TransactionRecord that changes: what the id does not say.   *)
(* backup is backup_manifest: the original state of each target written.   *)
(* filed says whether the call that last changed the status got as far as  *)
(* writing transaction.json: if not, it has changed the status and raised. *)
(***************************************************************************)
Record == [status : Status,
           filed  : BOOLEAN,
           intact : BOOLEAN,
           backup : [Path -> FileState \cup {None}],
           after  : Workspace \cup {None}]

FreshRecord == [status |-> "PREPARED",
                filed  |-> TRUE,
                intact |-> TRUE,
                backup |-> [p \in Path |-> None],
                after  |-> None]

Known == DOMAIN records
Targets(id) == DOMAIN id.candidate
StatusOf(id) == records[id].status
Least(S) == CHOOSE p \in S : \A q \in S : p <= q
Greatest(S) == CHOOSE p \in S : \A q \in S : q <= p

Idle == phase = "idle"
Remaining == Targets(current) \ work   \* targets apply has not written yet
Applying == phase \in {"backup", "replace", "check"}
Unresolved == {id \in Known : StatusOf(id) \in {"PREPARED", "APPLIED"}}

\* Types; in particular a call works on targets of its own transaction.
TypeOK ==
  /\ files \in Workspace
  /\ Known \subseteq TxId
  /\ records \in [Known -> Record]
  /\ phase \in Phase
  /\ current \in Known \cup {None}
  /\ (current = None) <=> Idle
  /\ work \subseteq Path
  /\ phase = "replace" => Remaining # {}
  /\ phase = "check" => work # {}
  /\ ~Idle => work \subseteq Targets(current)
  /\ edits \in 0..MaxEdits
  /\ faults \in 0..MaxFaults

Init ==
  /\ files \in InitialFiles
  /\ records = [id \in {} |-> FreshRecord]
  /\ phase = "idle"
  /\ current = None
  /\ work = {}
  /\ edits = 0
  /\ faults = 0

Return ==
  /\ phase' = "idle"
  /\ current' = None
  /\ work' = {}

Fault(point) ==
  /\ point \in FaultPoints
  /\ faults < MaxFaults
  /\ faults' = faults + 1

\* The write of transaction.json, which ends a call with its effect in the record.
File(filed) == IF filed THEN UNCHANGED faults ELSE Fault("record")

SetStatus(id, s) ==
  \E filed \in BOOLEAN :
    /\ records' = [records EXCEPT ![id].status = s, ![id].filed = filed]
    /\ File(filed)

-----------------------------------------------------------------------------
(***************************************************************************)
(* prepare_write, prepare_replace, prepare_changes: read the originals and *)
(* store the candidate.  Nothing but the record changes; a record of the   *)
(* same id is replaced by a fresh one, which stays when filing it fails.   *)
(***************************************************************************)
Prepare(request) ==
  LET id == [operation |-> request.operation,
             source    |-> files,
             candidate |-> request.candidate]
  IN
  /\ Idle
  /\ Cardinality(Known \cup {id}) <= MaxTransactions
  /\ request.operation = "replace_text" =>
       \A p \in DOMAIN request.candidate : files[p] # Absent
  /\ \E filed \in BOOLEAN :
       /\ records' = [i \in Known \cup {id} |->
                        IF i = id THEN [FreshRecord EXCEPT !.filed = filed] ELSE records[i]]
       /\ File(filed)
  /\ UNCHANGED <<files, phase, current, work, edits>>

\* The stored candidate is what was prepared.
VerifyCandidate(id) == records[id].intact

\* The checks apply() makes before its first write.
CanApply(id) ==
  /\ StatusOf(id) = "PREPARED"
  /\ files = id.source
  /\ VerifyCandidate(id)

StartApply(id) ==
  /\ Idle
  /\ CanApply(id)
  /\ phase' = "backup"
  /\ current' = id
  /\ work' = {}
  /\ UNCHANGED <<files, records, edits, faults>>

\* Mutant: the original is not recorded in the manifest.
BackupTargetUnrecorded ==
  /\ phase = "backup"
  /\ Remaining # {}
  /\ phase' = "replace"
  /\ UNCHANGED <<files, records, current, work, edits, faults>>

\* Record the state of the next target, in sorted order, and copy it aside.
BackupTarget ==
  /\ phase = "backup"
  /\ Remaining # {}
  /\ records' = [records EXCEPT ![current].backup =
                   [@ EXCEPT ![Least(Remaining)] = files[Least(Remaining)]]]
  /\ phase' = "replace"
  /\ UNCHANGED <<files, current, work, edits, faults>>

\* Mutant: the files are written in another order than they are backed up.
ReplaceTargetLast ==
  /\ phase = "replace"
  /\ files' = [files EXCEPT ![Greatest(Remaining)] = current.candidate[Greatest(Remaining)]]
  /\ work' = work \cup {Greatest(Remaining)}
  /\ phase' = "check"
  /\ UNCHANGED <<records, current, edits, faults>>

\* Write the candidate to a temporary file and rename it over the target.
ReplaceTarget ==
  /\ phase = "replace"
  /\ files' = [files EXCEPT ![Least(Remaining)] = current.candidate[Least(Remaining)]]
  /\ work' = work \cup {Least(Remaining)}
  /\ phase' = "check"
  /\ UNCHANGED <<records, current, edits, faults>>

\* Hash the target just written; a mismatch starts the restoration.
CheckTarget ==
  /\ phase = "check"
  /\ phase' = IF files[Greatest(work)] = current.candidate[Greatest(work)]
              THEN "backup" ELSE "undo"
  /\ UNCHANGED <<files, records, current, work, edits, faults>>

\* Mutant: the list of targets already applied is lost.
WriteFaultForgets ==
  /\ Applying
  /\ Remaining # {} \/ phase = "check"
  /\ Fault("write")
  /\ phase' = "undo"
  /\ work' = {}
  /\ UNCHANGED <<files, records, current, edits>>

\* Any exception while a target is being written.
WriteFault ==
  /\ Applying
  /\ Remaining # {} \/ phase = "check"
  /\ Fault("write")
  /\ phase' = "undo"
  /\ UNCHANGED <<files, records, current, work, edits>>

FinishApply ==
  /\ phase = "backup"
  /\ Remaining = {}
  /\ \E filed \in BOOLEAN :
       /\ records' = [records EXCEPT ![current].status = "APPLIED",
                                     ![current].after = files,
                                     ![current].filed = filed]
       /\ File(filed)
  /\ Return
  /\ UNCHANGED <<files, edits>>

\* The snapshot taken after the last write is outside the try block.
SnapshotFault ==
  /\ phase = "backup"
  /\ Remaining = {}
  /\ Fault("snapshot")
  /\ Return
  /\ UNCHANGED <<files, records, edits>>

(***************************************************************************)
(* _restore goes through the targets in reverse order.  A target without a *)
(* manifest entry, or that did not exist, is removed.                      *)
(***************************************************************************)
Original(id, p) == IF records[id].backup[p] = None THEN Absent ELSE records[id].backup[p]

\* Mutant: the target restored is not taken off the list.
RestoreTargetForever ==
  /\ phase \in {"undo", "restore"}
  /\ work # {}
  /\ files' = [files EXCEPT ![Greatest(work)] = Original(current, Greatest(work))]
  /\ UNCHANGED <<records, phase, current, work, edits, faults>>

RestoreTarget ==
  /\ phase \in {"undo", "restore"}
  /\ work # {}
  /\ files' = [files EXCEPT ![Greatest(work)] = Original(current, Greatest(work))]
  /\ work' = work \ {Greatest(work)}
  /\ UNCHANGED <<records, phase, current, edits, faults>>

\* Mutant: a target that cannot be restored is skipped.
RestoreFaultSkips ==
  /\ phase \in {"undo", "restore"}
  /\ work # {}
  /\ Fault("restore")
  /\ work' = work \ {Greatest(work)}
  /\ UNCHANGED <<files, records, phase, current, edits>>

\* A missing backup, a hash mismatch or an I/O error ends the restoration.
RestoreFault ==
  /\ phase \in {"undo", "restore"}
  /\ work # {}
  /\ Fault("restore")
  /\ Return
  /\ UNCHANGED <<files, records, edits>>

\* The failed apply reports its error; the record is still PREPARED.
FinishUndo ==
  /\ phase = "undo"
  /\ work = {}
  /\ Return
  /\ UNCHANGED <<files, records, edits, faults>>

StartRollback(id) ==
  /\ Idle
  /\ StatusOf(id) \in {"APPLIED", "VERIFIED"}
  /\ phase' = "restore"
  /\ current' = id
  /\ work' = Targets(id)
  /\ UNCHANGED <<files, records, edits, faults>>

FinishRollback ==
  /\ phase = "restore"
  /\ work = {}
  /\ SetStatus(current, "ROLLED_BACK")
  /\ Return
  /\ UNCHANGED <<files, edits>>

\* What verify_applied demands before a verification command or finalize.
VerifyApplied(id) ==
  /\ StatusOf(id) \in {"APPLIED", "VERIFIED"}
  /\ \A p \in Targets(id) : files[p] = id.candidate[p]
  /\ files = records[id].after

Finalize(id) ==
  /\ Idle
  /\ StatusOf(id) = "APPLIED"
  /\ SetStatus(id, "VERIFIED")
  /\ UNCHANGED <<files, phase, current, work, edits>>

Discard(id) ==
  /\ Idle
  /\ StatusOf(id) = "PREPARED"
  /\ SetStatus(id, "DISCARDED")
  /\ UNCHANGED <<files, phase, current, work, edits>>

\* Somebody else edits a file, with or without a call in progress.
Edit(p, c) ==
  /\ Idle \/ RacyEdits
  /\ edits < MaxEdits
  /\ files[p] # c
  /\ files' = [files EXCEPT ![p] = c]
  /\ edits' = edits + 1
  /\ UNCHANGED <<records, phase, current, work, faults>>

\* The stored candidate of a transaction is damaged between two calls.
Tamper(id) ==
  /\ Idle
  /\ records[id].intact
  /\ Fault("tamper")
  /\ records' = [records EXCEPT ![id].intact = FALSE]
  /\ UNCHANGED <<files, phase, current, work, edits>>

-----------------------------------------------------------------------------
\* The steps of the call in progress.
CallStep ==
  \/ BackupTarget
  \/ ReplaceTarget
  \/ CheckTarget
  \/ FinishApply
  \/ RestoreTarget
  \/ FinishUndo
  \/ FinishRollback

FaultStep == WriteFault \/ SnapshotFault \/ RestoreFault

Environment ==
  \/ \E p \in Path, c \in FileState : Edit(p, c)
  \/ \E id \in Known : Tamper(id)

NewCall ==
  \/ \E request \in Requests : Prepare(request)
  \/ \E id \in Known :
       StartApply(id) \/ StartRollback(id) \/ Finalize(id) \/ Discard(id)

Next == NewCall \/ CallStep \/ FaultStep \/ Environment

Spec == Init /\ [][Next]_txVars

\* The manager runs in the caller's thread: a call that has begun goes on.
FairSpec == Spec /\ WF_txVars(CallStep)

-----------------------------------------------------------------------------
(***************************************************************************)
(* The manifest of an applied transaction holds, for every target, the     *)
(* state the target had when the candidate was prepared: rollback has the  *)
(* exact originals to go back to, however many applies failed before.      *)
(***************************************************************************)
BackupIsOriginal ==
  \A id \in Known : StatusOf(id) \in {"APPLIED", "VERIFIED"} =>
    \A p \in Targets(id) : Original(id, p) = id.source[p]

(***************************************************************************)
(* While apply writes its targets in order, those written hold the         *)
(* candidate and have their original in the manifest, and the rest of the  *)
(* workspace is the snapshot the candidate was prepared from.              *)
(***************************************************************************)
ApplyProgress ==
  Applying =>
    /\ StatusOf(current) = "PREPARED"
    /\ \A p \in Path \ work : files[p] = current.source[p]
    /\ \A p \in work : /\ files[p] = current.candidate[p]
                        /\ Original(current, p) = current.source[p]
    /\ phase = "replace" =>
         Original(current, Least(Remaining)) = current.source[Least(Remaining)]

(***************************************************************************)
(* Whatever _restore has gone through, after a failed write or for a       *)
(* rollback, is back to the source snapshot; what is left can be restored. *)
(***************************************************************************)
RestoreProgress ==
  phase \in {"undo", "restore"} =>
    /\ \A p \in Targets(current) \ work : files[p] = current.source[p]
    /\ \A p \in work : Original(current, p) = current.source[p]

(***************************************************************************)
(* Between any two file operations a call knows what it has done: a later  *)
(* failure can still be undone from its own record.                        *)
(***************************************************************************)
WorkInProgress == ApplyProgress /\ RestoreProgress

(***************************************************************************)
(* A rollback that reports success has put every target back, byte for     *)
(* byte: Applied transactions use rollback "to restore their recorded      *)
(* originals".                                                             *)
(***************************************************************************)
RollbackIsExact ==
  [][\A id \in Known :
       StatusOf(id) # "ROLLED_BACK" /\ id \in Known' /\ records'[id].status = "ROLLED_BACK"
         => \A p \in Targets(id) : files'[p] = id.source[p]]_txVars

(***************************************************************************)
(* The promise of AtomicChange.  The caller sees an apply take effect when *)
(* it finishes and a rollback when it starts; a call whose record cannot   *)
(* be filed raises with its effect made.                                   *)
(***************************************************************************)
VisibleFiles ==
  IF Idle THEN files
  ELSE [p \in Path |-> IF p \in Targets(current) THEN current.source[p] ELSE files[p]]

VisibleStatus ==
  [id \in Known |-> IF phase = "restore" /\ id = current THEN "ROLLED_BACK" ELSE StatusOf(id)]

Abstract == INSTANCE AtomicChange WITH files <- VisibleFiles, status <- VisibleStatus

\* File by file, apply and rollback are to the caller one step or none.
ImplementsAtomicChange == Abstract!Spec

\* Every apply and every rollback returns to its caller.
EveryCallReturns == ~Idle ~> Idle

(***************************************************************************)
(* "Source drift blocks apply": a target is written over only if it still  *)
(* is what the candidate was prepared from.  The code compares snapshots   *)
(* once, before the first write.                                           *)
(***************************************************************************)
DriftBlocksApply ==
  [][ReplaceTarget => files[Least(Remaining)] = current.source[Least(Remaining)]]_txVars
=============================================================================
