# A TLA+ development of the OIEC-STM agent

The repository is a coding agent and what stands around it. A language model
asks for tools; the agent decides which of them may run. Every change of a
workspace goes through a governed transaction: governance fixes a scope, a
candidate is prepared, an action is proposed and bound to it, evidence is
collected and gated, the candidate is applied, tested, and finalized or rolled
back. What the agent knows is one `RuntimeState`, saved to a chained event log
and to a projection of its last snapshot. A loop lets the model call tools until
it answers or gains nothing more; a plan engine (EGCF) executes compiled plans
under human approvals; a GUI runs both in worker threads, writes documents in a
third, and is itself the child of a supervisor. This directory holds models of
these parts, the TLC runs that check them on small instances and the proofs that
hold for every instance.

## The system

| component | state | operations | interacts with | module |
|---|---|---|---|---|
| transaction manager, `ourd/transactions.py` | transaction records (in `RuntimeState`), stored candidates, backups, the workspace | prepare, apply, verify, finalize, discard, rollback | called by the agent; writes the workspace | `TransactionManager` |
| state store, `ourd/persistence.py` | lock file, `events.jsonl`, `state.json`, in memory `EventStore.head` | open, load with migrations, save, trace, close | one per agent process | `StateStore` |
| governed agent, `ourd/agent.py` with `authority.py`, `policy.py` | `RuntimeState`: governance, pending action, gate, active transaction, evidence | the tools; startup and recovery | transaction manager, state store, policy, model loop | `GovernedAgent` |
| OIEC kernel and CFEL, `ourd/oiec.py`, `ourd/cfel.py`, and `dispatch` | attempt keys, collisions, failed attempts | allow or block a repeated attempt, project the evidence | every tool call of the agent | `RetryControl` |
| production agent and loop control, `ourd/production_agent.py`, `ourd/loop_control.py` | requests of a turn, past verified states, the streak of control-only steps | run a turn, stop a cycle, terminal synthesis | model provider, tools, `RuntimeState` | `AutonomousLoop` |
| EGCF engine, approvals and store, `ourd/egcf/` | approvals, execution records, their index, the workspace | approve, execute, pause, resume, compensate, rebuild | the transaction tools through the EON adapter | `PlanExecution` |
| supervisor, `ourd_gui/supervisor.py` | child process, `current.json`, incidents, events, restart count | launch, watch, restart, give up, stop | signals; readers of the status file | `Supervisor` |
| GUI controller and projection, `ourd_gui/controller.py`, `state.py`, `events.py`, `persistence.py` | turns, futures, event journal, bus, view, saved projection | ask, stop, clear, report, drain, close, restart | Tk thread, one worker thread, the agent | `GuiController` |
| formal writing, `ourd_gui/formal_writing_controller.py`, `ourd/writing_engine/service.py`, `ourd/formal_writing_governance.py` | active job, cancel events, event queue, stored results and drafts | submit, preview, cancel, poll, shut down; write, persist, prepare a governed write | Tk thread, one worker thread, an agent of its own | `WritingJobs` |
| reasoning kernel, `ourd/reasoning/` | search frontier, budget, certificate | bounded search | `propose_eon_action` | none |
| EGCF knowledge stores, interaction session, providers, command lines, views | text, configuration and I/O | | | none |

What is hard in it, and what makes each part correct:

- **Partial application.** A candidate of several files is written file by file.
  A failed write must put back exactly what was written, a rollback must be
  exact, also when an earlier apply of the same transaction failed, and other
  processes edit the same workspace.
- **Partial saving.** A save is an append, an fsync and a replacement of another
  file. Whatever happens between them, a restart must give a state that was
  being saved, and a state of an older schema must be migrated before use. The
  stores of EGCF and of formal writing make the same two writes without a log.
- **One process.** Only the holder of the lock reads and appends.
- **Saving at the end of a call.** The workspace changes before the state does:
  a process that ends inside a call leaves the two out of step.
- **Binding.** Action, gate, evidence, manifest and transaction name each other
  and the snapshot they are about; every one of them can become stale. So can
  the preview of a governed write and the records a plan resumes from.
- **Retries.** The same failed call, or a revision that does not change what
  failed, must not go on for ever, and a loop of calls must end; counts have to
  survive a restart, a second proposal and a second approval.
- **Threads.** Tk and its workers share a journal, a bus and a queue: events
  overtake the calls that caused them, an end races a request to stop, and a
  projection is saved while events are under way.
- **Children and time.** The supervisor runs the GUI in a process group: stops
  during a back-off, children that do not die, stale heartbeats.

`PROJECT.json` lists every hazard at its line, with the properties that are about it.

## Modules

| module | what it is |
|---|---|
| `AtomicChange` | what a transaction promises: a change takes effect in one step or not at all, and a rollback gives the originals back |
| `TransactionManager` | `ourd/transactions.py`, one file at a time |
| `TransactionManagerProofs` | type, manifests, work in progress, exact rollback, and that it implements `AtomicChange` |
| `DurableState` | what the store promises: an atomic save, a restart from what was saved, or no start |
| `StateStore` | `ourd/persistence.py`: lock, log, projection, migration, redaction |
| `StateStoreProofs` | type, chain, restart, projection, and that it implements `DurableState` |
| `GovernedAgent` | the tools of `ourd/agent.py` that govern a change, over an instance of `TransactionManager` |
| `GovernedAgentProofs` | type, one unresolved transaction, what a startup refuses, reviewed before applied, tested before verified, exact rollback |
| `RetryControl` | `dispatch` of `ourd/agent.py` with `cfel.py` and `oiec.py`: when a failed tool may be called again |
| `AutonomousLoop` | `run_task` of `ourd/production_agent.py` with `loop_control.py` |
| `AutonomousLoopProofs` | type, bounded idle steps, no return |
| `PlanExecution` | `execute_plan`, `authorize` and the execution records of `ourd/egcf` |
| `PlanExecutionProofs` | type, uses, order, compensation |
| `Supervisor` | `supervise_command` of `ourd_gui/supervisor.py`, with the clock |
| `RecoveryProofs` | of `Supervisor`: one child, restarts accounted for, true reports, prompt stop, one launch at most after a stop; of `RetryControl`: type, bounded failures of an action and of an attempt |
| `GuiController` | turns and tasks of `ourd_gui/controller.py`, journal, bus, view and projection |
| `GuiControllerProofs` | turns that do not overlap, the journal as a chain, a view that follows the journal, ends never lost, whole exchanges |
| `WritingJobs` | `ourd_gui/formal_writing_controller.py`, the service it runs and the governed write |
| `WritingJobsProofs` | true ends of jobs, a view that is right |
| `MC...` | the instances TLC checks |

`GovernedAgent` composes parts: `TM == INSTANCE TransactionManager` supplies the
steps of the manager on the same `files` and `records`, and `saved` is what
`StateStore` is proved to give back at a restart. The composition uses the
promise of the store (an atomic save), not its steps. `RetryControl`,
`AutonomousLoop`, `PlanExecution` and `WritingJobs` take a tool, a node or a
preparation of the agent as one step that succeeds or fails, which is what
`AtomicChange` promises of them. The GUI's journal is an `EventStore` of the same
code as the agent's; `GuiController` models its append under the thread lock, and
its failures are those of `StateStore`.

### TransactionManager

`files` is the workspace and `records` the transaction records. A snapshot hash
stands for a workspace and a file hash for a content, so the model uses the
workspace and the content themselves, and a transaction id, a hash of operation,
source snapshot and candidate, is the record of the three. Preparing the same
change of the same workspace again therefore names the same transaction and
replaces its record, as `prepare_changes` does.

`apply` is `StartApply` (its checks), then for every target in sorted order
`BackupTarget` (read the original, write it to the manifest), `ReplaceTarget`
(write and rename) and `CheckTarget` (hash what was written), and `FinishApply`
(the last snapshot, the status). An exception while a target is written
(`WriteFault`, or a mismatch in `CheckTarget`) leads to `undo`: `_restore` on the
targets written so far, `RestoreTarget` by `RestoreTarget`, then `FinishUndo`. A
rollback is `StartRollback`, `RestoreTarget`, `FinishRollback`. `SnapshotFault` is
the last snapshot of `apply`, which is outside its `try`. Prepare, apply, finalize,
rollback and discard all end with the write of `transaction.json`, after the status
is set: `File` is that write, and when it fails (fault point "record") the call has
its effect and raises, which the record keeps as `filed = FALSE`. `Tamper` damages a
stored candidate between calls, `Edit` is somebody else's change of a file:
between calls, or also inside one when `RacyEdits` holds.

### StateStore

`log` is `events.jsonl`: an event names the one before it, and carries the
redacted state if it is a snapshot. `AddLine` says what the file looks like after
an append, whether or not its last line was ended. A save is `StartSave`,
`WriteEvent` (write and flush), `SyncEvent` (fsync; `head` moves), `Project`
(replace `state.json`). Faults: `WritePart` (a part of the line, or all of it but
the newline, then an error), `SyncFault`, `ProjectFault`, `Corrupt`
(`state.json` lost or invalid). `Raise` is what becomes of the error: `dispatch`
reports it and goes on, or the constructor fails. `Stop` is `close` or a kill at
any moment. `Open` takes the event when `state.json` is missing or differs, and
an older schema is saved at once.

Of a state the model keeps what `redact` and the migrations do to it, two
functions given as constants with the assumptions the code satisfies: redacting
twice is redacting once, redaction keeps the schema, and a migration followed by
redaction does not depend on whether the state was redacted before.

### GovernedAgent

`state` holds the governance record, the pending action and its use count, the
gate, the active transaction, the evidence registry and the binding of each
transaction to an authority and an action. `authority` is the manifest of the
process that runs: like its hash it binds a snapshot, and it may be read-only.
`saved` is the state last saved and `call` the tool call under way. The tools are
actions with the checks of their handlers as guards (`RequireGovernance`,
`CurrentAction`, `Gated`, `RequireNoUnresolved` carry the names of the helper
methods). `apply_transaction`, `rollback_transaction` and `run_command` take
several steps: what happens inside them, crashes and edits included, is what the
properties are about. A call whose record could not be filed raises before it
clears `active` or drops the action (`FinalizeTransaction`, `Released`), and
`dispatch` saves that. `RunCommand` is an ordinary command, with gate and applied
candidate; `RunReadCommand` one of risk L0 (`git status`, `git diff`), which needs
neither and whose evidence is recorded for the pending action all the same. `Crash`
can strike at any step, `Restart` is the constructor with and without a recovery id.

### RetryControl

Three counts decide whether a tool runs: failures of exactly this call
(`failed_attempts` under the call's fingerprint), collisions of the pending
action at the boundary "tool dispatch", and failures of the prepared attempt (the
attempt key of the kernel: action, snapshot, cited evidence, boundary, budget).
`Blocked` and `Admits` are the two gates, `RecordCollision` the counting. A tool
fails before it has prepared an attempt (`FailEarly`) or after (`FailLate`,
`CommandFails`), and succeeds in `Succeed` and `Finalize`. `Propose`, `Govern`,
`Observe`, `SubmitGate`, `Rollback` and `Restart` are the calls that reset one or
another part of this state. `failures` and `late` count what has really been
executed in vain, which no reset touches; the properties are about them.

### AutonomousLoop

A turn (`Begin`) asks the model (`pc = "request"`), executes the tool calls of a
response (`Call`), and assesses the step (`Assess`): new evidence is a gain, a
change of governance, actions or hypotheses alone is allowed
`max_control_only_progress` times, and a return to a past verified state or a
periodic repetition of steps stops the loop (`StopForCycle`) and asks for a
terminal synthesis, once more if the first is rejected. `Answer` ends a turn, as
do `Synthesize` and the last step of the budget. `Interrupt` is an exception of
the provider, a cancellation or a crash at any step; what was saved by then
stays. The streak of control-only steps lives in `RuntimeState` and in the
controller, and the model has both.

### PlanExecution

One plan of any shape: which nodes mutate, which are checkpoints, which may be
skipped by their condition, which apply a prepared transaction to the workspace
(`Eon`), which roll an earlier one back (`Reverts`).
`Authorize`, `Validate` and `Expire` are the approvals; an execution goes node by
node through `Skip`, `Execute`, `Record` and `Complete`, may pause at a
checkpoint after a `RequestPause`, and after a failure compensates backwards
(`Undo`) and writes its report. A later execution begins anew or resumes from the
records. `Crash` ends the process anywhere, also between the object of a record
and its index entry; `Rebuild` restores such entries. The adapter of a rollback
answers a compensation with NOT_AVAILABLE and does nothing, which `Undo` and
`Status` take for a success as the engine does. `effects`, `standing` and
`untold` are what the nodes really did, to compare the records with.

### Supervisor

`pc` is what `supervise_command` does next. Its steps take no time; `Tick` lets a
second pass while it sleeps, waits for a child to die or backs off. Children end
by themselves, well or badly, or by the signals of `_terminate_process_group`, or
survive SIGKILL (`stuck`, a fault). A stop signal may come at any step. Writes of
the status file, of events and of incidents may fail and raise. `Classified` is
`classify_supervisor_status` on what a reader finds.

### GuiController

Each thread has a `script`: what is left of the function it is in, as events to
emit and calls to make. An event goes through `ReadHead` (take the journal lock,
open the store), `AppendEvent` and `PutEvent`, and reaches the view by `Deliver`
at a poll of the Tk thread. The worker of the executor is `Take` and `Finish`; a
future that is done before `Watch` adds its callback runs the callback in the Tk
thread. A future cancelled in the queue stays there until `Take` passes over it.
`SaveProjection` writes view and count; a restart takes the projection
only when its count is the journal's length.

### WritingJobs

The Tk thread submits, previews, asks to stop in the three steps of
`request_cancel`, polls and closes; the worker resolves the form, registers the
sources (`Register`, which writes them before the service looks again whether it is
to stop), runs the phases of the service with a look at the cancel event between
them, stores the result and then the draft, or compares draft, authority and sources
with the preview and prepares the governed write: governance, transaction and
action, of which `Prepare` may leave the first ones only. `tasks` holds what each
job was submitted for, `stored` every artifact with the job that left it and the
draft it was made from: nothing a job has written is taken back. `world` holds
versions of the three things the preview binds, which others may change at any step.

## Runs

Ten runs pass and two end in a counterexample.

| run | instance | what it shows |
|---|---|---|
| `tx_atomic` | two files, three changes (two files at once, a new file, a replacement), failing writes of targets and of `transaction.json`, damaged candidates | every behaviour of the manager is one of `AtomicChange`; every call returns |
| `tx_faults` | the same, also failures of the restoration and of the last snapshot | what apply and `_restore` have done so far is known at every step, manifests hold originals, a rollback that succeeds is exact |
| `store_faults` | two processes, four states, four events, two failures | the type, the chain, the projection, what a restart returns, and the refinement of `DurableState` |
| `agent_safety` | one file, two transactions, a required test of risk L0 and one of L1, crash and restart at any step, one failing write of a target, restoration, snapshot or write of `transaction.json`, or one edit by others, every verdict of a gate | one unresolved transaction, startup refuses what the agent saved only for a record that could not be filed, what is applied was gated on evidence of its source snapshot, verification rests on tests of this workspace (but for those of risk L0), rollback is exact across processes |
| `retry_bounds` | an action of each risk, three tools, one artifact, one crash inside a call | tools of an action fail a bounded number of times, once for L2, whatever is proposed, gated or governed anew; so does an attempt |
| `loop_progress` | two turns of five responses, one call each, a window of four states, two interruptions | steps without new evidence are bounded across turns, no turn goes on from a state it was in, every turn ends |
| `egcf_plan` | a plan of five nodes with three mutations, one without a compensation, and two checkpoints, three executions, three faults, one edit by others, approvals for one and for two uses | uses stay within the approvals, effects keep the order, a failure is undone backwards; what is reported as undone is, but for what has no compensation |
| `egcf_resume` | three nodes, one failed verification | counterexample: see below |
| `supervisor_lifecycle` | five restarts, times of the code, two faults, a stop at any step | one child at a time, every restart accounted for, no false report to a reader, a stop is heeded and in time |
| `gui_turns` | two turns; a turn beside an objective; a turn and a cleared context; a turn and a lost process | the journal stays a chain under two threads, what is shown is recorded, what a living process records is shown or on its way, turns do not overlap, the model is told whole exchanges, ends are reached and shown |
| `writing_jobs` | two jobs, one request to stop, one change by others, a window closed | a completed job has left exactly what it promises, a cancelled one nothing but registered sources; the view is busy with what is at work, every end is shown |
| `agent_crash` | two files, one transaction, a crash at any step | counterexample: see below |

Every property of a passing run has a mutant in `PROJECT.json`: a definition of
the model changed the way a bug would change the code, on which TLC finds the
property violated. The mutated forms are in the modules, marked `Mutant`.

### Disagreements between code and documents

Two runs show a disagreement with a line that `PROJECT.json` quotes:

| run | what the counterexample shows |
|---|---|
| `agent_crash` | a crash between two writes of an apply leaves a PREPARED record on a changed workspace: no process starts, with or without the recovery id (`README.md:54`) |
| `egcf_resume` | a resumed execution takes the record of a mutation that was compensated meanwhile for done, skips it and completes without its effect (`ourd/egcf/engine.py:615`) |

Others were met while modelling. Those stated as a formula in a module (named in
brackets) can be checked by adding it to the run's `.cfg`; the rest follow from
the lines given. No passing run claims the opposite of any of them.

- *Transactions.* An edit between apply's one snapshot comparison and a later
  write is written over (`transactions.py:181`) [`TransactionManager.DriftBlocksApply`,
  with `RacyEdits = TRUE`]; "Source drift blocks apply",
  `IMPLEMENTATION_PLAN.md:381`.
- The last snapshot of apply is outside its `try` (`transactions.py:233`): if it
  raises, every target holds the candidate, the record is PREPARED, and
  discarding it leaves them there [`GovernedAgent.DiscardedUntouched`].
- Finalize, rollback and discard set the status of the record and then write
  `transaction.json` (`transactions.py:258`, `:269`, `:279`). If that write fails the
  call raises before the agent clears `active_transaction_id` (`agent.py:1505`,
  `:1536`), `dispatch` saves a state whose active transaction is resolved, and
  `_validate_loaded_state` refuses it at every later start (`agent.py:234`).
  `RefusedOnlyUnfiled` says that this is the only reason for which it refuses what
  the agent saved, and that nothing else in that state is wrong.
- A required test of risk L0 (`git status`, `git diff`) runs without gate and without
  an applied candidate (`agent.py:2317`), and its evidence counts for the pending
  action: `finalize` accepts it although it was run before the apply.
  `VerifiedWasTested` excepts such tests.
- A crash inside the rollback of a VERIFIED transaction leaves no trace: the next
  process starts as if nothing had happened (`agent.py:1519`)
  [`GovernedAgent.InterruptionDetected`].
- The workspace differs while the test runs and is changed back: the transaction
  is verified on evidence of another snapshot (`agent.py:1489`, `:2343`). This is
  why `VerifiedWasTested` is about behaviours without edits by others.
- *Store.* After a failed append the process goes on appending: a save succeeds
  on a log that the next process refuses (`persistence.py:379`). A state with
  something `redact` replaces is restored without it, although `state.json` has
  it (`persistence.py:426`). "State is restored across processes", `README.md:52`.
  `RestartIsAcceptable` and `DurableState` say "up to redaction" and "or no start"
  for these two reasons.
- *Retries.* The fingerprint of a failed call includes the gate and the kernel
  counts per attempt (`cfel.py:50-54`, `agent.py:3043`, `oiec.py:752`): an
  unchanged call runs again until the limit, where `README.md:57` says "An
  unchanged failed tool call is blocked rather than blindly repeated". What the
  code keeps is `RetriesBounded`.
- *Loop.* The controller never stores the state a turn begins in, so the first
  return to it goes unnoticed, where `docs/PRODUCTION_EPISTEMIC_BOUNDARY.md:101`
  says that after "S0 -> S1 -> S2 -> S0" "the loop is stopped". `NoReturn` is
  about the states after a step. `max_control_only_progress` may be configured up
  to 16 and the window is 12: `NeverReturns` is proved for an allowance smaller
  than the window (the default is 2).
- *EGCF.* An execution that pauses, or whose process ends, is no use of its
  approval: the mutations before a checkpoint can be executed again and again
  under an approval for one use (`approval.py:82`); "Approval replay",
  `docs/EGCFV1_THREAT_MODEL.md:9`. A lost index forgets uses until it is rebuilt;
  `UsesWithinLimit` allows one more for each such fault. An exception between the
  effect of a node and its entry among the completed ones (`engine.py:548`) loses
  that effect to the compensation; `FailureIsUndone` excepts it (`untold`).
  A node that rolls an earlier transaction back (`eon.rollback@1`) has no
  compensation: its adapter answers NOT_AVAILABLE (`adapters/eon.py:240`), the engine
  counts every answer but FAILED as a success (`engine.py:604`), and the report says
  ROLLED_BACK with its effect in force. `FailureIsUndone` excepts these nodes too
  (`Reverts`).
- *Supervisor.* During the grace period of a stop no heartbeat is written
  (`supervisor.py:302`): a reader is told STALE although both processes run.
- *GUI.* The stop of a queued or just finished turn is reduced after its end and
  leaves the chat "stopping" (`controller.py:915-922`)
  [`GuiController.TerminalIsIdle`]; "After a terminal turn event, require
  `GuiState.chat_status == "idle"`", `ICPI_SUPERVISOR_HEAVY_TEST_PLAN.md:262-264`.
  `drain_events` saves the view with the journal's count of that moment
  (`controller.py:1110`): an event journaled but not delivered is counted without
  being in the view, and a later `load()` accepts that projection: what the window
  showed after that save is missing in the next process, and an end recorded between
  the last delivery of a closing window and its save is missing even without a crash.
  This is why `ShownIsRecorded` speaks of the living process only where it says that
  nothing is lost. `_chat_done` asks the gateway for a snapshot between the end it
  has recorded and the release (`controller.py:888`): if that raises, the chat stays
  locked; the model has no such failure. A process lost
  during a turn leaves `chat_status` "running" for the next one (`state.py:106`).
- *Formal writing.* `request_cancel` tells of its request after it has released the
  lock (`formal_writing_controller.py:246`): told after the end of the job, it
  leaves the view busy with its buttons disabled until the next job, and in the
  workbench the buttons are how one is submitted
  (`FORMAL_WRITING_GUI_IMPLEMENTATION_PLAN.md:671-675`). `ViewIsRight` names this
  exception (`ToldTooLate`). A window closed with a task not yet begun drops the
  task and leaves its job active. A job that is CANCELLED or FAILED keeps the
  sources it had registered (`service.py:99`), and a governed write whose action is
  refused leaves its transaction behind, prepared and unresolved, which blocks every
  other mutation until it is discarded (`formal_writing_governance.py:47`);
  `EndsAreTrue` allows the first with any end, the second only with FAILED. The
  agent that prepares a governed write reads the authority file again after its hash
  was compared.

### Bounds, and why they are enough

- Two files: one written, one not yet, is every intermediate state that differs;
  the order of the targets matters and shows with two. Two contents and `Absent`
  tell apart a new file, a changed one and a restored one.
- Two transactions (`MaxTransactions`) in `tx_atomic` and `tx_faults` let one
  change follow another and return to the same id; one edit between calls makes
  a workspace no transaction knows; two faults in `tx_atomic` let an apply fail
  twice, three in `tx_faults` reach a failure of the restoration after a failure
  of a write, and one before or after it.
- Four events of the store allow a migration, a save, a failed save and a further
  one; two failures a failure while another is being recovered from. The
  processes are symmetric and their permutations are used as a symmetry set (no
  liveness property is checked there).
- The agent has one file in `agent_safety`: partial application is the manager's,
  checked and proved there, and a call takes several steps all the same;
  `agent_crash` needs two. Two transactions leave an older verified one to roll back
  while another is unresolved. `MaxEvidence` bounds the registry. A behaviour has an
  edit by others or a failure, not both (`OneDisturbance`, a constraint, to keep the
  run within minutes); the proofs have any number of both.
- `retry_bounds`: one retry of an action and none of an attempt. The two limits
  must differ for both to show, and the retries of the kernel are its parameter
  (`max_retries`, one unless given); with one there and two for an action the
  verdicts are the same (5.3 million states). One action of each risk interferes
  with the other through `pending_action`. One artifact is enough to make two
  attempts of one action.
- `loop_progress`: five responses are two more than the allowance of two with the
  step that stops the loop; the window of four holds a repetition of period two
  twice. One call can change the control state in every way; what two calls of a
  response do together was checked once with four responses (1.9 million states).
  The proofs hold for every allowance, window, budget and number of calls.
- `egcf_plan`: a checkpoint before and one between the mutations, a mutation that
  may be skipped, a transaction at the end; three executions are begin, resume,
  resume. The proofs hold for every plan.
- `supervisor_lifecycle`: five restarts (the default is two) so that the back-off
  1, 2, 4, 8, 8 reaches its limit; times are those of the code. Two faults let a
  child that cannot be killed meet a failing write or a kill of the supervisor.
- `gui_turns`: a behaviour keeps to one of four bounds, so that what interferes
  is together (two turns and a stop; a turn beside another operation and a stop; a
  clear; a crash and a second process) and what does not is not multiplied.
- `writing_jobs`: the second job meets the late event, the late request to stop
  and the results of the first. Two phases after the sources are registered show the
  look at the cancel event before, between and after them. One change by others can
  fall before, between and after the comparisons. A job that comes to work on its
  sources has one given by its path (`SourcesGiven`, a constraint): one without has
  written less when it is cancelled. 1.8 million states.
- `CHECK_DEADLOCK FALSE` where a bound stops the behaviour (no transaction, event,
  job or turn is left to create), or the program ends (supervisor, closed window).

### Fairness

Always weak, and only of what the code's own threads and the clock do. Nothing is
assumed of users, models, faults or other processes.

- `tx_atomic`: `CallStep`, the steps of the call in progress. The manager runs in
  the caller's thread and has no wait or lock, so a call that has begun returns,
  raises or its process ends.
- `loop_progress`: `TurnStep`. A request to the model and each tool have a
  timeout, after which the loop goes on.
- `supervisor_lifecycle`: the supervisor's loop, the clock, and that a SIGKILL
  takes effect unless the child is stuck. That a child ends by itself or heeds
  SIGTERM is not assumed.
- `gui_turns`: `UiStep` (Tk polls on), `WorkerStep` (the executor's thread runs on
  and a model call ends by its timeout) and `Exit` (a closing window is left once
  the worker is done).
- `writing_jobs`: `TkStep` and `WorkerStep` likewise; no phase of the service
  waits for anything.
- The other specifications claim no liveness: which tool, plan or action comes
  next is the caller's choice.

## Proofs

Proved with TLAPS for all values of the constants that satisfy the modules'
assumptions.

**TransactionManagerProofs.**
`TypeCorrect` needs nothing else. `Safety`, `WorkIsKnown`, `RollbackExact` and
`Refinement` assume that no edit falls inside a call (`~RacyEdits`); with such
edits they are false. The invariant: an applied record's manifest is the originals
(`BackupIsOriginal`), while apply runs every file is known to be the source or
the candidate according to `work` (`ApplyProgress`), and while `_restore` runs
likewise (`RestoreProgress`). `BackupIsOriginal` alone is not inductive:
`FinishApply` needs to know what apply has recorded, and `RestoreProgress` starts
from `ApplyProgress` when a write fails. The step lemma (`SafetyStep`) asks for
less, that no edit was racy so far, which is the form `GovernedAgentProofs` uses.
`Refinement` maps a call in progress to the workspace the caller still sees and a
rollback to its first step; it assumes in addition that neither the restoration
nor the last snapshot fails, because then a call ends half done.

**StateStoreProofs.** No assumption beyond those of the module: all faults, any
number of processes and events. Three inductive invariants on top of the type:

- `OneWriter`: the lock names the process that runs, and only that one has a
  state. Without it another process could append behind the writer's back.
- `CleanChain`: as long as no append was left half done, the file is readable,
  its last line is ended, and `head` (or `minted`, before the fsync has returned)
  is its last event. It gives `ChainCorrect`.
- `Restorable`: what a restart would load is acceptable; what is being appended
  is acceptable; once appended it is the last snapshot. It gives
  `RestartCorrect`, and with `ProjectionStep` also `ProjectionCorrect`.

`Refinement` maps the owner's state to the abstract memory and what would be
loaded to the abstract saved state, both up to migration and redaction. The write
of the event is the abstract save, even when the error is raised after the line
has reached the file; a torn line, or one that does not follow its predecessor,
is abstract damage; everything else is a stutter, a start, a change or a stop.

**PlanExecutionProofs.** Every plan, any number of executions, faults and
approvals. On top of the type: `Running` (what an execution has completed lies
before the node it is at; while it runs nothing is lost and nothing reported),
`Accounted` (every effect is among those a failure would undo, or is the one just
made, or is lost and known to be), `Preceded` (the nodes before the present one
are recorded), `Standing` (an effect is counted once for each execution) and
`UsesCovered` (an execution that runs has its use left before it, counting the
one whose record is not in the index). `FailureIsUndone` needs `Accounted` at
every step of an execution and not only when it is idle; `InOrder` needs
`Preceded`, since resuming jumps; `UsesWithinLimit` needs that an execution was
validated when it began, however much later it completes.

**AutonomousLoopProofs.** Every allowance, window, budget, finite set of evidence
and number of turns. `IdleBounded` rests on `IdleInStreak`: while the loop may go
on, the steps without a gain are in the saved streak or were paid for by an
interruption; it needs that the controller's streak and the saved one agree.
`NeverReturns` assumes that the allowance is smaller than the window. Evidence,
collisions and what the turn has read only grow (`PastBelow`), so a state can come
back only from a step that has as much of all three as there was before this
response; the steps since are control-only, at most the allowance, and so the
state is still in the window (`PastRemembered`).

**GovernedAgentProofs.** Any files, requests, proposals, verdicts, commands, edits,
faults, crashes and restarts. The steps of the manager are not treated again:
`TMP == INSTANCE TransactionManagerProofs` gives its lemmas on the agent's
`files` and `records`. Two inductive invariants:

- `IInv` is about the records. What is in memory and what is saved are both
  `Sane`: at most one transaction is unresolved, the pending action is bound to
  a known transaction, or to none, and that one to it or to none, and an approving
  gate rests on enough evidence of its own action and snapshot. The
  active transaction is the unresolved one or one whose record could not be filed
  (`Active`), except after the last step of a rollback, whose call has still to end
  (`RolledBack`), and a call that runs
  has a use left and the transaction the manager works on (`Calls`). It gives
  `Typed`, `OwnsItsTargets`, `RefusedOnlyForUnfiled` and `NothingUnreviewed`.
  `OneUnresolved` is not inductive by itself: a preparation looks at
  `state.active` only, so `Active` must tie that to the records, and a restart
  takes `saved`, of which all must hold as well. `RefusedOnlyUnfiled` is `Sane` and
  `Active` of the saved state.
- `FilesInv` is about the workspace. `Restorable`: the invariant of
  `TransactionManagerProofs`, and manifests of originals in the saved records, as
  long as no edit fell inside a call. `RollbacksKept`: what is saved as rolled back
  is so in memory. `TestsFit`: until somebody edits the workspace, a test artifact
  of the snapshot an applied transaction left is about the files that are there, and
  every artifact of a command that is not of risk L0 is about the workspace its
  transaction left (`RanOn`). It gives `TestedBeforeVerified`, and with `~RacyEdits`
  `RollbackExact`.

It assumes what `TransactionManager` does (`TransactionAssumption`), and that no
command is called "observation": a command's artifact and an observation's are
told apart by their kind (`agent.py:2367`).

**RecoveryProofs, of RetryControl.** Any actions, calls, evidence, limits and
crashes, for evidence of a quality from 0 to 10000 (the basis points of the code).
`Accounted`: every execution that failed is in the count of its action and of the
attempt it had prepared, unless a crash took it. `Limited`: a count exceeds its
limit by one at most, since it was below or at the limit when the tool was admitted.
The bounds follow. The properties speak of what was executed and not of the
counters: proposals, gates, new governance and restarts reset much of the state, but
nothing that `Accounted` and `Limited` compare.

**RecoveryProofs, of Supervisor.** Any number of restarts and faults, any times of
polling, grace and kill. `Counted` ties `restartCount` to the number of launches at
each step; `OneAtATime` says that only the last child may run and that the exit of
one is in the events and, if it was a failure, in the incidents before another is
launched; `Told` what `current.json` says where a reader relies on it, with the age
of the heartbeat; `Budget` how long a stop has taken at most at each step.
`OneChild`, `EveryRestartAccounted`, `ReaderIsToldTruth`, `PromptStop` follow.
`OneMoreAtMost` is an action property that says that after a stop was requested at
most the launch already decided happens, for every number of launches.

One module holds both, since both are about what is tried again after a failure;
it extends the two components, which share no name (hence `RetryInit`, `RetryNext`
and `RetrySpec`) and no state, and their invariants are separate.

**GuiControllerProofs.** Any turns and operations, any number of stops, cleared
contexts, processes and losses. The first invariant gives `NoOverlap`, that is
`TurnsDoNotOverlap`:

- `Shape` and `Emits`: the scripts of the Tk thread are the few its functions
  write, possibly with reports of callbacks before what was left; the worker's
  only report; and what a thread emits is the next step of its script.
- `Once`: the end of a turn is in the journal or still in one script, at one
  place, and never at two.
- `Futures`: an end was said only of a future that is over and had its callback,
  was cancelled or is gone with its process. It is why a second callback does not
  say it again: `add_done_callback` and the end of the future each run it only if
  the other has not.
- `Releases`: before a turn is released its end is said, by the same thread, and
  `Settled`: so a turn that is not the active one has its end in the journal, or
  another process was opened since. The next turn begins only when none is active.

The second, `Locked`, gives `JournalIsChain`: the thread that has read the head
and not yet written holds the lock, so there is one of them and the head is still
the head; and what goes to the bus is in the journal. It assumes, as the module
does, that `None` is not a thread.

The third is about what is shown. `After` computes a view from a list of events by
recursion over their number, so what it contains is a fact by induction. The
provers take no induction theorem over an operator, but they take the
well-foundedness of the naturals: `Reaches` says that a set of numbers with the
first one, and with each number the next, has them all, since otherwise there is a
least one it lacks. `AfterExists` uses it to show that the recursive function is
one, `AfterShows` that a view after events has the messages it had and theirs and
no other, `AfterBusy` that it is not idle before a turn finishes, `AfterFollows`
that it keeps a question before its answer, and `HistoryIs` what `_chat_history`
keeps. With them `Shown`, that the view and the projection hold nothing the journal
lacks, is inductive. `Alive` is the converse for the process that runs: a message
recorded since it opened is shown, in the queue, or written by a thread that has
still to put it there. Both together are `ViewFollowsJournal`. `Alive` needs `Gone`
and the shape of the scripts: a process that is opening has recorded nothing yet.

The fourth, `XInv`, gives `ToldWholeExchanges` and `NoEndIsLost`. The property is
about four places that a message of a turn goes through: a script, the journal, the
queue and the view. `WholeExchanges` alone is far from inductive, since it says
nothing of a turn that has not ended. Its parts:

- `Unasked`, `Beginning`: nothing is recorded, shown or told of a turn before it is
  asked, and no end of it before it is submitted.
- `Endings`: the message that ends a turn says how its future ended, so there is
  one answer to be told.
- `Finishes`: in a script the message comes before the end and the end before the
  release; an end that is in the queue is in no script any more.
- `Holding`: a turn that is begun, runs or has its end left in a script has the
  controller. So the ends of two turns are never on their way at the same time.
- `EndNeverLost`: the end of a future that is over is said.
- `Ahead`: the start of the turn that has the controller comes in the queue after
  the ends of the turns before it, which may all still wait for the next poll.
- `Busy`: hence a view with a question and not its end is not idle, whatever the
  poll that showed it came after.
- `Answers`, `InOrder`: an end is delivered with or after its message, and a
  question before its answer; so a cleared context, `start`, that leaves a question
  to be told leaves its answer too.
- `Exchanges`: what is told at `_start_chat_operation`, which waits for an idle
  view, stays whole, since the history of a turn is not changed any more.

`StepKinds` says once what the steps of the module do to scripts, journal, queue,
view and futures; each part is then kept by its own lemma (`HoldingStep` and so on).
TLC checked the same parts on instances with two turns, a stop, a clear, two
processes and a lost one before they were proved.

**WritingJobsProofs.** Any number of jobs, stops, phases and changes by others.
`Owned`: the active job is the last one submitted, and it waits, or the worker has
it, or the window's end dropped it. `Untouched`: what a job has stored by each step
of the worker, its sources aside (`Rest`): nothing until its first write, the result
and then its draft, and before it is completed exactly what its operation owes
(`Owed`). `EndsTold`: an end is said once and is about what the job has left, and
the active job is over exactly when the worker is about to clear it. Only the
worker's job writes (`Others`), so what was said of a job stays so. `LatestIsRight`:
what was last said, shown or on its way, tells whether a job is at work, but for a
request to stop that is told too late. `TrueEnds` needs the first three, since an
end is shown long after it was put on the queue, when another job may be active;
`RightView` needs all four, and follows for the view once the queue is empty.

**Only model-checked.**

- Liveness: `EveryCallReturns`, `TurnEnds`, `StopIsObeyed`, `EndsAreReached`,
  `EveryEndIsShown`. It is out of the prover's reach.
- The two disagreements.

## Not modelled

- Time, outside the supervisor: the expiry of manifests and of actions. An
  expired manifest only refuses more. An approval of EGCF may expire at any step.
- Which commands are of which risk, and path canonicalisation: `Proposals`,
  `Command` and `Scopes` stand for what passes those checks.
- The limits on repeated attempts in `GovernedAgent`: it allows more calls than
  the code, so what it may never do the code may not either. `RetryControl` has
  them, over tools that succeed or fail.
- Two manifests of one snapshot that differ in scope or time are one manifest.
- Diffs, file modes, backup file names, formatting, logging.
- `LlamaCppProcessProvider` (`ourd/providers/`): a child process and a pipe.
  What it does wrong after a protocol error (lines left in its buffer, `select`
  on a buffered text stream) depends on the external program's output.
- Two supervisors or two GUI processes on one workspace, and a failing append
  inside a callback of the GUI: the code has no lock or handler for them.
- A second proposal of an action renews its uses, and new governance during an
  applied transaction drops the action its finalization needs: both are in
  `GovernedAgent` and `RetryControl` as the code has them, and no property
  forbids them.
- The limits of a batch (500 events a poll) and of a view (the last 500 messages) in
  the GUI, and an exception of a refresh inside the poll, which ends the polling.
- A job of formal writing that stores a result without a draft, or a proposal next to
  it: the model's service job stores a result and a draft.
- The texts: extraction, matching, planning and rendering of documents
  (`ourd/writing_engine/`), summaries and context budgets, prompts, views.
- The parts marked `not_modelled` in `PROJECT.json`, for the reason given there.
  Most of the repository's lines are of these kinds: views, tools, command lines,
  benchmarks, document models and text processing, whose state is one call's.

## Plan

Done: the core (transaction manager, state store, governed agent), retries, the
loop, plan execution, supervisor, GUI turns, formal writing, and proofs of every
safety property the passing runs check. What is left:

1. `OiecBounds` (`ourd/oiec.py`): the bounded integer arithmetic of the kernel
   against a reference definition.
2. The panels of the GUI other than the chat, if their events come to matter to
   what a restart shows.
