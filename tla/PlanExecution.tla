---------------------------- MODULE PlanExecution ----------------------------
(***************************************************************************)
(* ourd/egcf: executing a compiled plan (engine.py) under the approvals of *)
(* a human (approval.py), with the execution records that the store keeps  *)
(* (store.py).  One plan; a process holds the store's lock, so executions  *)
(* follow one another.  Any of them may pause at a checkpoint, fail and    *)
(* compensate what it did, or end with its process; a later one may start  *)
(* from the beginning or resume.                                           *)
(***************************************************************************)
EXTENDS Integers, FiniteSets, FiniteSetsExt

CONSTANTS
  Length,      \* nodes of the plan, by their place in its order
  Mutates,     \* nodes of capability C3, which an execution may have to undo
  Eon,         \* those that apply a prepared transaction to the workspace
  Reverts,     \* those that roll an earlier transaction back: no compensation
  Checkpoint,  \* nodes at which an execution may pause
  Conditional, \* nodes with a condition on earlier outputs
  Human,       \* whether the approval policy asks for a human approval
  UseLimit,    \* use limits an approval is given
  MaxRuns,     \* bound: executions begun
  MaxEdits,    \* bound: changes of the workspace by others
  MaxFaults,   \* bound: faults
  FaultPoints  \* where they happen

Node == 1..Length

\* _compile_node and compile(): no checkpoint on a mutating node; use limits as
\* authorize() clamps them.
ASSUME PlanAssumption ==
  /\ Length \in Nat
  /\ Mutates \subseteq Node /\ Eon \subseteq Mutates /\ Reverts \subseteq Mutates \ Eon
  /\ Checkpoint \subseteq Node \ Mutates /\ Conditional \subseteq Node
  /\ Human \in BOOLEAN
  /\ UseLimit \subseteq 1..20 /\ IsFiniteSet(UseLimit)
  /\ MaxRuns \in Nat /\ MaxEdits \in Nat /\ MaxFaults \in Nat
  /\ FaultPoints \subseteq {"execute", "verify", "record", "compensate", "crash"}

VARIABLES
  \* The store: approvals, and the execution records of the plan.
  approval,    \* by use limit: none, valid or expired
  recorded,    \* nodes with a record COMPLETED, SIMULATED or SKIPPED
  unindexed,   \* of records written but not in the index, what they are of
  paused,      \* whether there is a record PAUSED
  asked,       \* whether there is a record PAUSE_REQUESTED
  uses,        \* records of the workflow itself
  report,      \* status of the last rollback record, None if it completed
  \* What the nodes did.
  standing,    \* by node, effects of earlier executions that are in force
  effects,     \* nodes of this or the last execution with an effect in force
  spent,       \* nodes whose transaction was applied, or rolled back, once
  edited,      \* whether others changed the workspace since the plan
  \* The execution in progress.
  pc, at,      \* its step, and the node it is at
  skipped,     \* nodes it does not execute because it resumes
  pausing,     \* pause_requested
  completed,   \* nodes it will undo if it fails
  results,     \* outcomes of undoing, TRUE for success
  untold,      \* history: effects lost to it by an exception
  runs, edits, faults

store == <<approval, recorded, unindexed, paused, asked, uses, report>>
world == <<standing, effects, spent, edited>>
execution == <<pc, at, skipped, pausing, completed, results, untold>>
bounds == <<runs, edits, faults>>
planVars == <<store, world, execution, bounds>>

Workflow == 0   \* node_id "__workflow__"
Idle == pc = "idle"

-----------------------------------------------------------------------------
\* The workspace has the snapshot of the plan.
Fresh == ~edited /\ \A n \in Eon \cup Reverts : standing[n] = 0 /\ n \notin effects

Fault(point) ==
  /\ point \in FaultPoints /\ faults < MaxFaults
  /\ faults' = faults + 1

\* ApprovalManager.authorize.
Authorize(limit) ==
  /\ Idle
  /\ Fresh
  /\ approval' = [approval EXCEPT ![limit] = "valid"]
  /\ UNCHANGED <<recorded, unindexed, paused, asked, uses, report, world, execution, bounds>>

Expire(limit) ==
  /\ approval[limit] = "valid"
  /\ approval' = [approval EXCEPT ![limit] = "expired"]
  /\ UNCHANGED <<recorded, unindexed, paused, asked, uses, report, world, execution, bounds>>

\* The command workflow.pause.
RequestPause ==
  /\ Idle
  /\ asked' = TRUE
  /\ UNCHANGED <<approval, recorded, unindexed, paused, uses, report, world, execution, bounds>>

\* Mutant: the use of a resumed workflow is not counted.
ValidateAnyPaused(limit) ==
  approval[limit] = "valid" /\ (uses < limit \/ paused)
\* ApprovalManager.validate: completed executions of the plan are its uses.
Validate(limit) ==
  approval[limit] = "valid" /\ uses < limit

\* execute_plan, up to its loop.
Begin(resume, pause) ==
  /\ Idle /\ runs < MaxRuns
  /\ Fresh
  /\ Human => \E limit \in UseLimit : Validate(limit)
  /\ resume => paused
  /\ runs' = runs + 1
  /\ pc' = "loop" /\ at' = 1
  /\ skipped' = IF resume THEN recorded ELSE {}
  /\ pausing' = (pause \/ (~resume /\ asked))
  /\ completed' = {} /\ results' = {} /\ untold' = {}
  /\ standing' = [n \in Node |-> standing[n] + IF n \in effects THEN 1 ELSE 0]
  /\ effects' = {}
  /\ report' = "None"
  /\ UNCHANGED <<approval, recorded, unindexed, paused, asked, uses, spent, edited, edits, faults>>

AtNode == pc = "loop" /\ at \in Node
Goto(step) == pc' = step /\ UNCHANGED <<at, skipped, pausing, untold>>

\* A node executed before the pause.
Pass ==
  /\ AtNode /\ at \in skipped
  /\ at' = at + 1
  /\ UNCHANGED <<store, world, pc, skipped, pausing, completed, results, untold, bounds>>

\* Its condition is not met.
Skip ==
  /\ AtNode /\ at \notin skipped /\ at \in Conditional
  /\ recorded' = recorded \cup {at}
  /\ at' = at + 1
  /\ UNCHANGED <<approval, unindexed, paused, asked, uses, report, world, pc, skipped, pausing,
                 completed, results, untold, bounds>>

\* EONAdapter.execute applies a transaction to its own snapshot, and once; it
\* rolls one back whatever the workspace is, and once.
Executable == at \notin spent /\ (at \in Eon => Fresh)

Execute ==
  /\ AtNode /\ at \notin skipped
  /\ Executable
  /\ effects' = effects \cup ({at} \cap Mutates)
  /\ spent' = spent \cup ({at} \cap (Eon \cup Reverts))
  /\ Goto("executed")
  /\ UNCHANGED <<store, standing, edited, completed, results, bounds>>

\* Mutant: a node that fails is left out.
ExecuteFailsOn ==
  /\ AtNode /\ at \notin skipped
  /\ IF Executable THEN Fault("execute") ELSE UNCHANGED faults
  /\ at' = at + 1
  /\ UNCHANGED <<store, world, pc, skipped, pausing, completed, results, untold, runs, edits>>
\* It raises.  The adapter has refused or undone it; but a transaction whose
\* record cannot be filed keeps its effect, which is lost to the execution.
ExecuteFails ==
  /\ AtNode /\ at \notin skipped
  /\ IF Executable THEN Fault("execute") ELSE UNCHANGED faults
  /\ pc' = "failing"
  /\ \/ spent' \in {spent, spent \cup ({at} \cap Eon)} /\ UNCHANGED <<effects, untold>>
     \/ /\ Executable /\ at \in Eon \cup Reverts
        /\ spent' = spent \cup {at} /\ effects' = effects \cup {at} /\ untold' = untold \cup {at}
  /\ UNCHANGED <<store, standing, edited, at, skipped, pausing, completed, results, runs, edits>>

Executed == pc = "executed"

\* The adapter does not verify the output; a mutating node is undone at once,
\* and if that raises or does nothing, what it did is lost to the execution.
VerifyFails ==
  /\ Executed
  /\ Fault("verify")
  /\ pc' = "failing"
  /\ \/ at \notin Reverts /\ effects' = effects \ {at} /\ UNCHANGED untold
     \/ /\ at \in Reverts \/ "compensate" \in FaultPoints
        /\ untold' = untold \cup ({at} \cap Mutates)
        /\ UNCHANGED effects
  /\ UNCHANGED <<store, standing, spent, edited, at, skipped, pausing, completed, results, runs, edits>>

\* The evidence or the record cannot be stored: the node is not yet among those
\* completed.
RecordFails ==
  /\ Executed
  /\ Fault("record")
  /\ pc' = "failing"
  /\ untold' = untold \cup ({at} \cap Mutates)
  /\ UNCHANGED <<store, world, at, skipped, pausing, completed, results, runs, edits>>

\* The record COMPLETED, and at a checkpoint PAUSED.
Record ==
  /\ Executed
  /\ recorded' = recorded \cup {at}
  /\ completed' = completed \cup {at}
  /\ pc' = IF at \in Checkpoint /\ pausing THEN "pausing" ELSE "loop"
  /\ at' = at + 1
  /\ UNCHANGED <<approval, unindexed, paused, asked, uses, report, world, skipped, pausing,
                 results, untold, bounds>>

Pause ==
  /\ pc = "pausing"
  /\ paused' = TRUE
  /\ Goto("idle")
  /\ UNCHANGED <<approval, recorded, unindexed, asked, uses, report, world, completed, results, bounds>>

\* The record of the workflow, COMPLETED.
Complete ==
  /\ pc = "loop" /\ at > Length
  /\ uses' = uses + 1
  /\ Goto("idle")
  /\ UNCHANGED <<approval, recorded, unindexed, paused, asked, report, world, completed, results, bounds>>

-----------------------------------------------------------------------------
\* The handler of an exception.
ToUndo == completed \cap Mutates

\* Mutant: in the order of the plan.
NextToUndoFirst == Min(ToUndo)
NextToUndo == Max(ToUndo)

\* An answer other than FAILED is a success to the handler, NOT_AVAILABLE too,
\* with which EONAdapter leaves a rolled back transaction as it is.
Undo ==
  /\ pc = "failing" /\ ToUndo # {}
  /\ completed' = completed \ {NextToUndo}
  /\ \/ /\ effects' = effects \ ({NextToUndo} \ Reverts)
        /\ results' = results \cup {TRUE} /\ UNCHANGED faults
     \/ /\ NextToUndo \notin Reverts
        /\ Fault("compensate") /\ results' = results \cup {FALSE} /\ UNCHANGED effects
  /\ UNCHANGED <<store, standing, spent, edited, pc, at, skipped, pausing, untold, runs, edits>>

\* Mutant: one success is enough.
StatusIfAny ==
  IF results = {} THEN "NOT_REQUIRED"
  ELSE IF TRUE \in results THEN "ROLLED_BACK" ELSE "PARTIALLY_COMPENSATED"
Status ==
  IF results = {} THEN "NOT_REQUIRED"
  ELSE IF FALSE \notin results THEN "ROLLED_BACK" ELSE "PARTIALLY_COMPENSATED"

\* RollbackRecord and FailureRecord.
ReportFailure ==
  /\ pc = "failing" /\ ToUndo = {}
  /\ report' = Status
  /\ Goto("idle")
  /\ UNCHANGED <<approval, recorded, unindexed, paused, asked, uses, world, completed, results, bounds>>

-----------------------------------------------------------------------------
\* The process ends.  EGCFStore.register writes the object and then the index:
\* between them, the record exists and is not found.
Unwritten == IF Executed THEN {at} ELSE IF pc = "loop" /\ at > Length THEN {Workflow} ELSE {}
Crash ==
  /\ ~Idle
  /\ Fault("crash")
  /\ unindexed' \in {unindexed, unindexed \cup Unwritten}
  /\ pc' = "idle"
  /\ UNCHANGED <<approval, recorded, paused, asked, uses, report, world, at, skipped, pausing,
                 completed, results, untold, runs, edits>>

\* Mutant: every execution record counts for a node.
RebuildAll ==
  /\ Idle /\ unindexed # {}
  /\ recorded' = recorded \cup unindexed
  /\ unindexed' = {}
  /\ UNCHANGED <<approval, paused, asked, uses, report, world, execution, bounds>>
\* rebuild_projection indexes every object there is.
Rebuild ==
  /\ Idle /\ unindexed # {}
  /\ recorded' = recorded \cup (unindexed \ {Workflow})
  /\ uses' = uses + IF Workflow \in unindexed THEN 1 ELSE 0
  /\ unindexed' = {}
  /\ UNCHANGED <<approval, paused, asked, report, world, execution, bounds>>

\* Others change the workspace and change it back, whoever holds the lock.
Edit ==
  /\ edits < MaxEdits
  /\ edits' = edits + 1
  /\ edited' = ~edited
  /\ UNCHANGED <<store, standing, effects, spent, execution, runs, faults>>

Init ==
  /\ approval = [limit \in UseLimit |-> "none"]
  /\ recorded = {} /\ unindexed = {} /\ paused = FALSE /\ asked = FALSE
  /\ uses = 0 /\ report = "None"
  /\ standing = [n \in Node |-> 0] /\ effects = {} /\ spent = {} /\ edited = FALSE
  /\ pc = "idle" /\ at = 1 /\ skipped = {} /\ pausing = FALSE
  /\ completed = {} /\ results = {} /\ untold = {}
  /\ runs = 0 /\ edits = 0 /\ faults = 0

Step ==
  \/ Pass \/ Skip \/ Execute \/ ExecuteFails \/ VerifyFails \/ RecordFails \/ Record
  \/ Pause \/ Complete \/ Undo \/ ReportFailure
Next ==
  \/ Step
  \/ \E limit \in UseLimit : Authorize(limit) \/ Expire(limit)
  \/ RequestPause
  \/ \E resume, pause \in BOOLEAN : Begin(resume, pause)
  \/ Crash \/ Rebuild \/ Edit

Spec == Init /\ [][Next]_planVars

-----------------------------------------------------------------------------
\* The records agree with the execution that writes them: what it has completed is
\* recorded, what it skips was recorded before it began.
TypeOK ==
  /\ approval \in [UseLimit -> {"none", "valid", "expired"}]
  /\ recorded \subseteq Node /\ unindexed \subseteq Node \cup {Workflow}
  /\ paused \in BOOLEAN /\ asked \in BOOLEAN /\ edited \in BOOLEAN /\ pausing \in BOOLEAN
  /\ report \in {"None", "ROLLED_BACK", "PARTIALLY_COMPENSATED", "NOT_REQUIRED"}
  /\ standing \in [Node -> 0..MaxRuns] /\ effects \subseteq Mutates
  /\ spent \subseteq Eon \cup Reverts /\ untold \subseteq effects
  /\ pc \in {"idle", "loop", "executed", "pausing", "failing"}
  /\ at \in 1..(Length + 1)
  /\ skipped \subseteq recorded /\ completed \subseteq recorded
  /\ completed \cap skipped = {}
  /\ results \subseteq BOOLEAN
  /\ uses \in Nat /\ runs \in 0..MaxRuns /\ edits \in 0..MaxEdits /\ faults \in 0..MaxFaults

\* However executions pause, resume, fail and end with their process, an approved
\* plan completes no more often than the largest limit it was ever given; a
\* process that ends between a record and its index costs one use.
UsesWithinLimit ==
  Human => \/ uses <= faults
           \/ \E limit \in UseLimit : approval[limit] # "none" /\ uses <= limit + faults

\* A node has an effect only after every node before it was executed or skipped,
\* by this execution or by those it resumes.
InOrder == \A n \in effects : \A m \in 1..(n - 1) : m \in recorded

\* What a failed execution did is undone from the last to the first, where a
\* compensation that failed is not waited for.
UndoneInReverse ==
  [][pc = "failing" => \A n \in effects \ effects' : \A m \in effects :
       m > n => m \notin completed]_planVars

(***************************************************************************)
(* What the report of a failure is worth.  NOT_REQUIRED: nothing that the  *)
(* execution recorded is in force.  ROLLED_BACK: nothing but what has no   *)
(* compensation, which the report passes over in silence: the code says    *)
(* ROLLED_BACK with the rollback of a transaction still in force.          *)
(***************************************************************************)
FailureIsUndone ==
  Idle => /\ report = "NOT_REQUIRED" => effects \subseteq untold
          /\ report = "ROLLED_BACK" => effects \subseteq untold \cup Reverts

\* A workflow completes only with the effect of each of its mutations in force.
CompletedIsApplied ==
  [][uses' > uses /\ ~Idle =>
       \A n \in Mutates \ Conditional : n \in effects \/ standing[n] > 0]_planVars
=============================================================================
