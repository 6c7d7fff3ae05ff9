----------------------------- MODULE GovernedAgent -----------------------------
(***************************************************************************)
(* ourd/agent.py: the tools of CleanOIECAgent that govern a change.  Every *)
(* write of the workspace goes through a transaction of TransactionManager *)
(* and needs a governed scope, an EON action bound to the transaction and  *)
(* an evidence gate that approves the action; a verified transaction needs *)
(* evidence of its tests.  The RuntimeState is saved at the end of a tool  *)
(* call: a process that ends inside a call leaves the workspace as it is   *)
(* and the state of the last save, from which the next process starts.     *)
(*                                                                         *)
(* An authority manifest, the read-only default included, is bound to one  *)
(* snapshot of the workspace and named by its hash: here it is what the    *)
(* hash binds.  An action id is a hash of all that was proposed, so it is  *)
(* the proposal itself.                                                    *)
(***************************************************************************)
EXTENDS Integers, FiniteSets

CONSTANTS
  Path, Content, Absent, None, InitialFiles, Requests,
  MaxTransactions, MaxEdits, RacyEdits, MaxFaults, FaultPoints,
                \* as in TransactionManager
  Scopes,       \* governed scopes the model may ask for
  Command,      \* commands an action may list
  ReadCommand,  \* those of risk L0: git status, git diff
  Proposals,    \* EON proposals: [risk, limit, commands, tests]
  Approvals,    \* verdicts a gate may ask for: [verdict, maxUses]
  MaxEvidence   \* bound: evidence artifacts in the registry

VARIABLES
  files, records, phase, current, work, edits, faults, \* of TransactionManager
  up,         \* a process runs
  authority,  \* its authority manifest; None while no process runs
  state,      \* the rest of its RuntimeState
  saved,      \* the RuntimeState last saved
  call,       \* the tool call under way: [op, tx, command], or None
  interrupted \* history: while no process runs, the call that was under way, or None

agentVars == <<files, records, phase, current, work, edits, faults,
               up, authority, state, saved, call, interrupted>>

TM == INSTANCE TransactionManager

Authority == [snapshot : TM!Workspace, readOnly : BOOLEAN]
Manifest(snapshot) == [snapshot |-> snapshot, readOnly |-> FALSE]
read_only_authority(snapshot) == [snapshot |-> snapshot, readOnly |-> TRUE]
Risk == {"L0", "L1", "L2"}
Verdict == {"APPROVE", "APPROVE_WITH_LIMITS", "REQUEST_EVIDENCE"}
Proposal == [risk : Risk, limit : 1..20, commands : SUBSET Command, tests : SUBSET Command]

\* What TransactionManager asks of its constants.
ASSUME TransactionAssumption ==
  TM!PathAssumption /\ TM!SentinelAssumption /\ TM!InputAssumption /\ TM!BoundAssumption
ASSUME AgentAssumption ==
  /\ Scopes \subseteq SUBSET Path
  /\ Proposals \subseteq Proposal
  /\ Approvals \subseteq [verdict : Verdict, maxUses : 1..20]
  /\ \A proposal \in Proposals : proposal.tests \subseteq proposal.commands
  /\ ReadCommand \subseteq Command
  /\ "observation" \notin Command   \* the kind of an artifact tells them apart
  /\ MaxEvidence \in Nat

(***************************************************************************)
(* RuntimeState without the transaction records:                           *)
(*   governance  the GovernanceRecord, or None before it is established    *)
(*   action      pending_action, without its use_count                     *)
(*   useCount    the use_count of the pending action                       *)
(*   gate        last_gate                                                 *)
(*   active      active_transaction_id                                     *)
(*   evidence    evidence_registry                                         *)
(*   binding     authority_hash and action_id of every transaction record  *)
(***************************************************************************)
Initial ==
  [governance |-> None, action |-> None, useCount |-> 0, gate |-> None,
   active |-> None, evidence |-> {}, binding |-> [id \in {} |-> None]]

ActionOf(st, id) == st.binding[id].action

\* Mutant: the manifest of originals is not part of what is saved.
SnapshotWithoutManifest(recs, st) ==
  [records |-> [id \in DOMAIN recs |-> [recs[id] EXCEPT !.backup = [p \in Path |-> None]]],
   state   |-> st]

\* What save_state() writes.
Snapshot(recs, st) == [records |-> recs, state |-> st]

Save == saved' = Snapshot(records', state')

Known == DOMAIN records
Status(id) == records[id].status
UnresolvedIn(recs) == {id \in DOMAIN recs : recs[id].status \in {"PREPARED", "APPLIED"}}
Ready == up /\ TM!Idle /\ call = None

Init ==
  /\ TM!Init
  /\ up = FALSE
  /\ authority = None
  /\ state = Initial
  /\ saved = Snapshot(records, Initial)
  /\ call = None
  /\ interrupted = None

-----------------------------------------------------------------------------
(***************************************************************************)
(* The checks the handlers share.                                          *)
(***************************************************************************)
RequireGovernance ==
  /\ state.governance # None
  /\ state.governance.authority = authority

InScope(targets) == targets \subseteq state.governance.scope

\* _require_no_unresolved_transaction: also the snapshot the authority is for.
RequireNoUnresolved ==
  /\ UnresolvedIn(records) = {}
  /\ files = authority.snapshot

\* _require_current_action
CurrentAction(needsUse) ==
  LET action == state.action IN
  /\ RequireGovernance
  /\ action # None
  /\ needsUse => state.useCount < action.limit
  /\ action.authority = authority
  /\ (IF action.tx = None THEN TRUE ELSE Status(action.tx) = "PREPARED")
       => files = action.source

\* _require_gate and _enforce_gate_limits: an L0 action needs no gate.
Gated ==
  \/ state.action.risk = "L0"
  \/ /\ state.gate # None
     /\ state.gate.action = state.action
     /\ state.gate.verdict \in {"APPROVE", "APPROVE_WITH_LIMITS"}
     /\ state.gate.verdict = "APPROVE_WITH_LIMITS" => state.useCount < state.gate.maxUses

txUnchanged == UNCHANGED <<files, records, phase, current, work, edits, faults>>
procUnchanged == UNCHANGED <<up, authority, interrupted>>

-----------------------------------------------------------------------------
(***************************************************************************)
(* The tools.                                                              *)
(***************************************************************************)
\* A new governance record drops the pending action and its gate.
EstablishGovernance(scope) ==
  /\ Ready
  /\ state' = [state EXCEPT !.governance = [authority |-> authority, scope |-> scope],
                            !.action = None, !.useCount = 0, !.gate = None]
  /\ txUnchanged /\ procUnchanged
  /\ Save
  /\ UNCHANGED call

\* Mutant: another transaction may be unresolved.
PrepareAnyway(request) ==
  LET id == [operation |-> request.operation, source |-> files,
             candidate |-> request.candidate]
  IN
  /\ Ready
  /\ RequireGovernance
  /\ ~authority.readOnly
  /\ files = authority.snapshot
  /\ InScope(DOMAIN request.candidate)
  /\ TM!Prepare(request)
  /\ state' = [state EXCEPT
       !.active = id,
       !.binding = [i \in Known \cup {id} |->
                      IF i = id THEN [authority |-> authority, action |-> None] ELSE @[i]]]
  /\ Save
  /\ procUnchanged
  /\ UNCHANGED call

\* prepare_write_file, prepare_replace_text, prepare_transaction.  A record that
\* could not be filed is kept, bound to the authority, but is not the active one.
PrepareTransaction(request) ==
  LET id == [operation |-> request.operation, source |-> files,
             candidate |-> request.candidate]
  IN
  /\ Ready
  /\ RequireGovernance
  /\ ~authority.readOnly
  /\ RequireNoUnresolved
  /\ InScope(DOMAIN request.candidate)
  /\ TM!Prepare(request)
  /\ state' = [state EXCEPT
       !.active = IF records'[id].filed THEN id ELSE @,
       !.binding = [i \in Known \cup {id} |->
                      IF i = id THEN [authority |-> authority, action |-> None] ELSE @[i]]]
  /\ Save
  /\ procUnchanged
  /\ UNCHANGED call

(***************************************************************************)
(* propose_eon_action, for a transaction (with its targets) or for its     *)
(* commands alone.  The same proposal of the same workspace has the same   *)
(* id, and its use count starts at zero.                                   *)
(***************************************************************************)
ProposeEonAction(tx, proposal) ==
  LET action == [tx |-> tx, source |-> files, authority |-> authority,
                 risk |-> proposal.risk, limit |-> proposal.limit,
                 commands |-> proposal.commands, tests |-> proposal.tests]
  IN
  /\ Ready
  /\ RequireGovernance
  /\ ~authority.readOnly \/ proposal.commands \subseteq ReadCommand
  /\ tx # None => /\ InScope(TM!Targets(tx))
                  /\ tx.source = files
  /\ state' = [state EXCEPT
       !.action = action, !.useCount = 0, !.gate = None,
       !.binding = IF tx = None THEN @ ELSE [@ EXCEPT ![tx].action = action]]
  /\ txUnchanged /\ procUnchanged
  /\ Save
  /\ UNCHANGED call

\* An evidence artifact; ordinals keep two observations of a state apart.
Artifact(kind, success) ==
  [kind |-> kind, success |-> success, action |-> state.action, source |-> files]

NextOrdinal(artifact) ==
  Cardinality({e \in state.evidence : e.artifact = artifact}) + 1

Record(artifact) ==
  state.evidence \cup {[artifact |-> artifact, ordinal |-> NextOrdinal(artifact)]}

\* A read tool records what it saw, bound to the pending action.
RecordObservation ==
  /\ Ready
  /\ state.action # None
  /\ Cardinality(state.evidence) < MaxEvidence
  /\ state' = [state EXCEPT !.evidence = Record(Artifact("observation", TRUE))]
  /\ txUnchanged /\ procUnchanged
  /\ Save
  /\ UNCHANGED call

\* One artifact each for invariant and boundary, and for counterexample in L2.
RequiredArtifacts(risk) == CASE risk = "L0" -> 0 [] risk = "L1" -> 2 [] risk = "L2" -> 3

\* Mutant: the snapshot the evidence was taken on does not matter.
SubmitStaleEvidence(items, approval) ==
  LET action == state.action IN
  /\ Ready
  /\ CurrentAction(TRUE)
  /\ \A e \in items : e.artifact.action = action
  /\ approval.verdict = "APPROVE_WITH_LIMITS" => approval.maxUses <= action.limit
  /\ state' = [state EXCEPT !.gate =
       [action   |-> action,
        verdict  |-> IF Cardinality(items) < RequiredArtifacts(action.risk)
                     THEN "REQUEST_EVIDENCE" ELSE approval.verdict,
        evidence |-> items,
        maxUses  |-> approval.maxUses]]
  /\ txUnchanged /\ procUnchanged
  /\ Save
  /\ UNCHANGED call

(***************************************************************************)
(* submit_evidence_gate: every item is bound to the pending action and to  *)
(* its snapshot; too few of them turn an approval into a request.          *)
(***************************************************************************)
SubmitEvidenceGate(items, approval) ==
  LET action == state.action IN
  /\ Ready
  /\ CurrentAction(TRUE)
  /\ \A e \in items : e.artifact.action = action /\ e.artifact.source = action.source
  /\ approval.verdict = "APPROVE_WITH_LIMITS" => approval.maxUses <= action.limit
  /\ state' = [state EXCEPT !.gate =
       [action   |-> action,
        verdict  |-> IF Cardinality(items) < RequiredArtifacts(action.risk)
                     THEN "REQUEST_EVIDENCE" ELSE approval.verdict,
        evidence |-> items,
        maxUses  |-> approval.maxUses]]
  /\ txUnchanged /\ procUnchanged
  /\ Save
  /\ UNCHANGED call

\* apply_transaction up to TransactionManager.apply; a human may also refuse.
ApplyTransaction(id) ==
  /\ Ready
  /\ CurrentAction(TRUE)
  /\ state.action.tx = id
  /\ Gated
  /\ files = state.action.source
  /\ InScope(TM!Targets(id))
  /\ TM!StartApply(id)
  /\ call' = [op |-> "apply", tx |-> id, command |-> None]
  /\ procUnchanged
  /\ UNCHANGED <<state, saved>>

\* The transaction manager at work: nothing is saved meanwhile.
TransactionStep ==
  /\ call # None
  /\ TM!CallStep \/ TM!FaultStep
  /\ procUnchanged
  /\ UNCHANGED <<state, saved, call>>

\* apply has returned or raised, which it may after the record is APPLIED;
\* dispatch() saves in either case.
EndApply ==
  /\ call # None
  /\ call.op = "apply"
  /\ TM!Idle
  /\ IF Status(call.tx) = "APPLIED" /\ records[call.tx].filed
     THEN state' = [state EXCEPT !.useCount = @ + 1]
     ELSE UNCHANGED state
  /\ call' = None
  /\ txUnchanged /\ procUnchanged
  /\ Save

RunsCommand(command) ==
  call' = [op |-> "command", tx |-> state.action.tx, command |-> command]

\* Mutant: the candidate need not be in place.
RunCommandAnytime(command) ==
  /\ Ready
  /\ CurrentAction(TRUE)
  /\ command \in state.action.commands
  /\ Gated
  /\ RunsCommand(command)
  /\ txUnchanged /\ procUnchanged
  /\ UNCHANGED <<state, saved>>

(***************************************************************************)
(* run_command up to the child process: a command of a transaction runs on *)
(* the applied candidate, another one on the snapshot of its action.       *)
(***************************************************************************)
RunCommand(command) ==
  LET tx == state.action.tx IN
  /\ command \notin ReadCommand
  /\ Ready
  /\ CurrentAction(TRUE)
  /\ command \in state.action.commands
  /\ Gated
  /\ IF tx # None THEN TM!VerifyApplied(tx) /\ InScope(TM!Targets(tx))
                  ELSE files = state.action.source
  /\ RunsCommand(command)
  /\ txUnchanged /\ procUnchanged
  /\ UNCHANGED <<state, saved>>

(***************************************************************************)
(* run_command of an L0 command asks for no action, gate or candidate in   *)
(* place and is no use of the action; yet its evidence is recorded for the *)
(* pending action, on whatever workspace there is.                         *)
(***************************************************************************)
RunReadCommand(command, success) ==
  /\ command \in ReadCommand
  /\ Ready
  /\ state.action # None
  /\ Cardinality(state.evidence) < MaxEvidence
  /\ state' = [state EXCEPT !.evidence = Record(Artifact(command, success))]
  /\ txUnchanged /\ procUnchanged
  /\ Save
  /\ UNCHANGED call

\* The evidence is bound to the workspace the child leaves, and saved.
RecordCommand(success) ==
  /\ call # None
  /\ call.op = "command"
  /\ Cardinality(state.evidence) < MaxEvidence
  /\ state' = [state EXCEPT !.evidence = Record(Artifact(call.command, success))]
  /\ call' = [call EXCEPT !.op = "recorded"]
  /\ txUnchanged /\ procUnchanged
  /\ Save

\* A child that runs out of time is no use of the action and no evidence.
CommandTimeout ==
  /\ call # None
  /\ call.op = "command"
  /\ call' = None
  /\ txUnchanged /\ procUnchanged
  /\ UNCHANGED state
  /\ Save

\* Mutant: the use is counted with the evidence and again at the end.
EndCommandTwice ==
  /\ call # None
  /\ call.op = "recorded"
  /\ state' = [state EXCEPT !.useCount = @ + 2]
  /\ call' = None
  /\ txUnchanged /\ procUnchanged
  /\ Save
EndCommand ==
  /\ call # None
  /\ call.op = "recorded"
  /\ state' = [state EXCEPT !.useCount = @ + 1]
  /\ call' = None
  /\ txUnchanged /\ procUnchanged
  /\ Save

\* Evidence of success of every required test, for the pending action.
Tested(action, items) ==
  \A test \in action.tests :
    \E e \in items : /\ e.artifact.kind = test
                     /\ e.artifact.success
                     /\ e.artifact.action = action

\* Mutant: the transaction stays the active one.
FinalizeStillActive(id, items) ==
  /\ Ready
  /\ CurrentAction(FALSE)
  /\ state.action.tx = id
  /\ TM!VerifyApplied(id)
  /\ Tested(state.action, items)
  /\ TM!Finalize(id)
  /\ UNCHANGED state
  /\ Save
  /\ procUnchanged
  /\ UNCHANGED call

\* The active transaction is cleared only if the record could be filed.
FinalizeTransaction(id, items) ==
  /\ Ready
  /\ CurrentAction(FALSE)
  /\ state.action.tx = id
  /\ TM!VerifyApplied(id)
  /\ Tested(state.action, items)
  /\ TM!Finalize(id)
  /\ state' = [state EXCEPT !.active = IF records'[id].filed THEN None ELSE @]
  /\ Save
  /\ procUnchanged
  /\ UNCHANGED call

\* No transaction is active any more, whichever it was; an action bound to
\* this one is dropped.
Released(id) ==
  LET bound == state.action # None /\ state.action.tx = id IN
  [state EXCEPT !.active = None,
                !.action = IF bound THEN None ELSE @,
                !.useCount = IF bound THEN 0 ELSE @,
                !.gate = IF bound THEN None ELSE @]

\* rollback_transaction discards what was only prepared, and releases nothing if
\* the record could not be filed.
DiscardTransaction(id) ==
  /\ Ready
  /\ TM!Discard(id)
  /\ state' = IF records'[id].filed THEN Released(id) ELSE state
  /\ Save
  /\ procUnchanged
  /\ UNCHANGED call

\* It needs no governance and no action, and takes a verified transaction too.
RollbackTransaction(id) ==
  /\ Ready
  /\ TM!StartRollback(id)
  /\ call' = [op |-> "rollback", tx |-> id, command |-> None]
  /\ procUnchanged
  /\ UNCHANGED <<state, saved>>

EndRollback ==
  /\ call # None
  /\ call.op = "rollback"
  /\ TM!Idle
  /\ state' = IF Status(call.tx) = "ROLLED_BACK" /\ records[call.tx].filed
              THEN Released(call.tx) ELSE state
  /\ call' = None
  /\ txUnchanged /\ procUnchanged
  /\ Save

-----------------------------------------------------------------------------
\* The process ends, inside a call or not: what was not saved is gone.
Crash ==
  /\ up
  /\ up' = FALSE
  /\ authority' = None
  /\ records' = saved.records
  /\ state' = saved.state
  /\ phase' = "idle" /\ current' = None /\ work' = {}
  /\ call' = None
  /\ interrupted' = call
  /\ UNCHANGED <<files, edits, faults, saved>>

\* _validate_loaded_state
Loadable(recs, st) ==
  LET unresolved == UnresolvedIn(recs) IN
  /\ Cardinality(unresolved) <= 1
  /\ unresolved = {} => st.active = None
  /\ \A id \in unresolved : st.active \in {None, id}
  /\ st.action # None /\ st.action.tx # None =>
       /\ st.action.tx \in DOMAIN recs
       /\ ActionOf(st, st.action.tx) \in {None, st.action}

\* The manifest is for the present snapshot, or recovers a change of it.
AuthorityFits(a, recovery) ==
  \/ a.snapshot = files
  \/ recovery # None /\ Status(recovery) \in {"APPLIED", "VERIFIED"}

\* What a new process asks of its arguments and of the state it loads.
CanRestart(a, recovery) ==
  /\ IF recovery = None
     THEN UnresolvedIn(records) = {}
     ELSE /\ recovery \in Known
          /\ Status(recovery) \in {"PREPARED", "APPLIED", "VERIFIED"}
          /\ state.binding[recovery].authority = a
  /\ AuthorityFits(a, recovery)
  /\ Loadable(records, state)

Restart(a, recovery) ==
  /\ ~up
  /\ CanRestart(a, recovery)
  /\ up' = TRUE
  /\ authority' = a
  /\ state' = [state EXCEPT !.active =
       IF UnresolvedIn(records) = {} THEN @ ELSE CHOOSE id \in UnresolvedIn(records) : TRUE]
  /\ txUnchanged
  /\ interrupted' = None
  /\ Save
  /\ UNCHANGED call

Edit(p, c) ==
  /\ TM!Edit(p, c)
  /\ procUnchanged
  /\ UNCHANGED <<state, saved, call>>

-----------------------------------------------------------------------------
\* What a caller cites: every artifact of an action, or those of one snapshot.
Citations ==
  LET ofAction == {e \in state.evidence : e.artifact.action = state.action}
  IN {ofAction} \cup {{e \in ofAction : e.artifact.source = files}}

GovernanceTool ==
  \/ \E scope \in Scopes : EstablishGovernance(scope)
  \/ \E tx \in Known \cup {None}, proposal \in Proposals : ProposeEonAction(tx, proposal)
  \/ RecordObservation
  \/ \E command \in Command, success \in BOOLEAN : RunReadCommand(command, success)
  \/ \E items \in Citations, approval \in Approvals : SubmitEvidenceGate(items, approval)

TransactionTool ==
  \/ \E request \in Requests : PrepareTransaction(request)
  \/ \E id \in Known :
       \/ ApplyTransaction(id)
       \/ FinalizeTransaction(id, state.evidence)
       \/ DiscardTransaction(id)
       \/ RollbackTransaction(id)
  \/ \E command \in Command : RunCommand(command)

EndOfCall ==
  \/ TransactionStep
  \/ EndApply
  \/ EndRollback
  \/ \E success \in BOOLEAN : RecordCommand(success)
  \/ CommandTimeout
  \/ EndCommand

Environment ==
  \/ Crash
  \/ \E a \in {Manifest(files), read_only_authority(files)}
              \cup {state.binding[id].authority : id \in Known},
        recovery \in Known \cup {None} : Restart(a, recovery)
  \/ \E p \in Path, c \in TM!FileState : Edit(p, c)

Next == GovernanceTool \/ TransactionTool \/ EndOfCall \/ Environment

Spec == Init /\ [][Next]_agentVars

-----------------------------------------------------------------------------
Pending == [tx : TM!TxId \cup {None}, source : TM!Workspace, authority : Authority, risk : Risk,
            limit : 1..20, commands : SUBSET Command, tests : SUBSET Command]

Call == [op : {"apply", "command", "recorded", "rollback"},
         tx : TM!TxId \cup {None}, command : Command \cup {None}]

\* Types; in particular an action is used no more often than it may be, and what
\* is saved has a binding for every transaction it knows.
TypeOK ==
  /\ TM!TypeOK
  /\ up \in BOOLEAN
  /\ up => authority \in Authority
  /\ state.action \in Pending \cup {None}
  /\ state.active \in Known \cup {None}
  /\ DOMAIN state.binding = Known
  /\ \A id \in Known : state.binding[id].action \in Pending \cup {None}
  /\ state.action # None => state.useCount \in 0..state.action.limit
  /\ DOMAIN saved.state.binding = DOMAIN saved.records
  /\ call \in Call \cup {None}
  /\ ~up => call = None /\ TM!Idle

(***************************************************************************)
(* "One transaction owns a target path set at a time": whatever is         *)
(* prepared, recovered or interrupted, at most one transaction is          *)
(* unresolved, in memory and in the state a new process would load.        *)
(***************************************************************************)
OneUnresolved ==
  /\ Cardinality(UnresolvedIn(records)) <= 1
  /\ Cardinality(UnresolvedIn(saved.records)) <= 1

(***************************************************************************)
(* What the agent itself has saved, _validate_loaded_state refuses for one *)
(* reason only: a call changed the status of the active transaction, could *)
(* not write transaction.json and raised before it cleared the active id.  *)
(* No sequence of calls, ended anywhere, leaves any other contradiction    *)
(* about unresolved transactions, the active one or the pending action.    *)
(***************************************************************************)
RefusedOnlyUnfiled ==
  LET recs == saved.records
      st   == saved.state
  IN
  /\ Loadable(recs, [st EXCEPT !.active = None])
  /\ ~Loadable(recs, st) => /\ st.active \in DOMAIN recs \ UnresolvedIn(recs)
                            /\ ~recs[st.active].filed

(***************************************************************************)
(* "Evidence and approval are bound to the exact candidate and source      *)
(* snapshot": while a transaction of risk L1 or L2 is being applied, the   *)
(* gate that let it through rests on enough artifacts, all of them taken   *)
(* for this action on the workspace its candidate was prepared from.       *)
(***************************************************************************)
ReviewedBeforeApplied ==
  call # None /\ call.op = "apply" /\ state.action.risk # "L0" =>
    /\ state.action.tx = call.tx
    /\ state.gate.action = state.action
    /\ Cardinality(state.gate.evidence) >= RequiredArtifacts(state.action.risk)
    /\ \A e \in state.gate.evidence : /\ e.artifact.action = state.action
                                      /\ e.artifact.source = call.tx.source

BecomesVerified(id) ==
  /\ up /\ up'
  /\ Status(id) # "VERIFIED"
  /\ records'[id].status = "VERIFIED"

(***************************************************************************)
(* "Finalize using successful command evidence": a transaction is verified *)
(* only with its candidate in place, and every required test that is not   *)
(* of risk L0 has succeeded on exactly this workspace, in this process or  *)
(* in an earlier one.  Of an L0 test the code only knows that it succeeded *)
(* for this action: it may have run before the candidate was applied.  An  *)
(* edit by others while the test runs is not noticed by the code: the      *)
(* evidence is kept for the workspace after the test, so such behaviours   *)
(* are left out.                                                           *)
(***************************************************************************)
VerifiedWasTested ==
  [][\A id \in Known : id \in Known' /\ edits = 0 /\ BecomesVerified(id) =>
       /\ \A p \in TM!Targets(id) : files[p] = id.candidate[p]
       /\ \A test \in state.action.tests :
            \E e \in state.evidence : /\ e.artifact.kind = test
                                      /\ e.artifact.success
                                      /\ e.artifact.action = state.action
                                      /\ test \notin ReadCommand
                                           => e.artifact.source = files]_agentVars

(***************************************************************************)
(* A rollback that reports success is exact, also in a process that got    *)
(* the transaction and its manifest of originals from an earlier one.      *)
(***************************************************************************)
RollbackIsExact == TM!RollbackIsExact

(***************************************************************************)
(* "Prepared or applied transactions are detected on restart and block     *)
(* unrelated mutation until finalized, discarded, or rolled back": for an  *)
(* unresolved transaction there is a process that can do so.  The code     *)
(* refuses to start on a PREPARED transaction whose apply was interrupted. *)
(***************************************************************************)
RecoveryPossible ==
  ~up /\ UnresolvedIn(records) # {} =>
    \E id \in UnresolvedIn(records) : CanRestart(state.binding[id].authority, id)

(***************************************************************************)
(* "Detect ... incomplete transactions, and unresolved rollback on         *)
(* startup": after a call that was interrupted while it changed the        *)
(* workspace, a process does not start as if nothing had happened.  The    *)
(* rollback of a VERIFIED transaction leaves no trace.                     *)
(***************************************************************************)
InterruptionDetected ==
  ~up /\ interrupted # None /\ interrupted.op \in {"apply", "rollback"}
    => ~CanRestart(Manifest(files), None)

(***************************************************************************)
(* "Prepared transactions may be discarded through rollback_transaction    *)
(* before application": what is discarded has not touched the workspace.   *)
(* An apply whose last snapshot fails leaves a PREPARED record behind.     *)
(***************************************************************************)
DiscardedUntouched ==
  [][\A id \in Known : DiscardTransaction(id) =>
       \A p \in TM!Targets(id) : files[p] = id.source[p]]_agentVars
=============================================================================
