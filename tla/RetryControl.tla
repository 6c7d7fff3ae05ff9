---------------------------- MODULE RetryControl ----------------------------
(***************************************************************************)
(* ourd/agent.py dispatch() with cfel.py and oiec.py: when a tool that     *)
(* failed may be called again.  Three counts decide: failures of exactly   *)
(* this call, failed tool calls of the pending action, and failures of the *)
(* prepared attempt, an action with its snapshot, evidence, boundary and   *)
(* budget.  Transactions are GovernedAgent's; here a tool succeeds or      *)
(* fails, before or after it has prepared an attempt.                      *)
(***************************************************************************)
EXTENDS Integers, FiniteSets

CONSTANTS
  Action,       \* EON actions, known by their content
  HighRisk,     \* those of effective risk L2; the others are L1
  None,
  Call,         \* calls of tools that may change the workspace: [tool, arg]
  Scope,        \* governance records
  Atom,         \* evidence atoms of the actions
  Artifact,     \* evidence artifacts: [id, atom, quality]
  MaxRetries,   \* authority.max_retries_per_action
  KernelRetries, \* max_retries of BoundedTransitionKernel
  UseLimit,     \* use_limit of an action
  MaxCrashes    \* bound: processes that end inside a call

\* pending_action.action_id, or "" as None.
Ids == Action \cup {None}
\* What the key of an attempt is made from.
Attempts == [action : Ids, applied : BOOLEAN, scope : Scope,
             evidence : [Atom -> Artifact \cup {None}]]

\* Qualities are _score's basis points.
ASSUME RetryAssumption ==
  /\ None \notin Action /\ None \notin Artifact /\ None \notin Attempts
  /\ HighRisk \subseteq Action
  /\ \A c \in Call : c.tool \in {"prepare", "apply", "command", "finalize"}
  /\ MaxRetries \in Nat /\ KernelRetries \in Nat /\ MaxCrashes \in Nat /\ UseLimit \in Nat
  /\ \A e \in Artifact : e.id \in Nat /\ e.quality \in Nat /\ e.quality <= 10000
  /\ \A e, f \in Artifact : e.id = f.id => e = f

VARIABLES
  pending,   \* state.pending_action
  gate,      \* state.last_gate: what it cites and whether it approves
  uses,      \* by action, its use_count
  applied,   \* whether the pending action's transaction is applied
  scope,     \* state.governance
  evidence,  \* by action, the artifacts recorded at its source snapshot
  prepared,  \* _last_oiec_prepared, in memory only: an attempt
  failed,    \* state.failed_attempts, by call or by attempt
  counted,   \* by action, its collisions at the boundary "tool dispatch"
  failures,  \* by action, executions of a tool that did not succeed
  late,      \* by attempt, those that came after the attempt was prepared
  crashes

records == <<pending, gate, uses, applied, scope, evidence, failed, counted>>
history == <<failures, late, crashes>>
retryVars == <<records, prepared, history>>

-----------------------------------------------------------------------------
\* A table of counts holds the keys seen so far.
Count(table, key) == IF key \in DOMAIN table THEN table[key] ELSE 0
Counting(table, key, n) ==
  [k \in DOMAIN table \cup {key} |-> IF k = key THEN Count(table, k) + n ELSE table[k]]

\* call_fingerprint.
Fingerprint(c) == [call |-> c, action |-> pending, gate |-> gate]

\* update_evidence keeps, for an atom, the best quality and then the first id;
\* an approving gate may count what it cites for any atom.
Best(S) == CHOOSE e \in S : \A f \in S :
  f.quality < e.quality \/ (f.quality = e.quality /\ e.id <= f.id)
Cited == IF gate = None THEN {} ELSE gate.cites
Projection ==
  [x \in Atom |-> LET S == {e \in evidence[pending] : e.atom = x} \cup Cited
                  IN IF S = {} THEN None ELSE Best(S)]

\* make_attempt_key: the command of an applied transaction runs on its result.
Attempt(c) ==
  [action |-> pending, applied |-> c.tool = "command" /\ applied, scope |-> scope,
   evidence |-> Projection]

\* L2 actions are not retried.
Limit(id) == IF id \in HighRisk THEN 0 ELSE MaxRetries
\* derive_dimension_budget: max_retries_per_attempt.
AttemptLimit == IF KernelRetries < MaxRetries THEN KernelRetries ELSE MaxRetries

\* Refused by dispatch() before anything is done.
Blocked(c) ==
  \/ Count(failed, Fingerprint(c)) >= 1
  \/ counted[pending] >= Limit(pending) + 1

\* Mutant: the kernel admits one attempt more.
AdmitsOneMore(c) == Count(failed, Attempt(c)) <= AttemptLimit + 1
\* BoundedTransitionKernel.prepare: the no-blind-retry gate.
Admits(c) == Count(failed, Attempt(c)) <= AttemptLimit

\* What apply_transaction and run_command ask before they prepare an attempt.
Prepares(c) ==
  /\ c.tool \in {"apply", "command"}
  /\ pending # None
  /\ gate # None /\ gate.approves
  /\ uses[pending] < UseLimit
  /\ c.tool = "apply" => ~applied
  /\ Admits(c)

\* Mutant: a failure counts for the pending action only if it has an attempt.
RecordCollisionOfAttempt(c, attempt, n) ==
  LET bound == attempt # None /\ attempt.action = pending IN
  /\ failed' = Counting(failed, IF bound THEN attempt ELSE Fingerprint(c), n)
  /\ counted' = IF bound THEN [counted EXCEPT ![pending] = @ + 1] ELSE counted
\* record_collision, with the attempt as retry identity when one is prepared
\* for the pending action.  A command that fails records a collision of its
\* own before dispatch() does, with the same attempt: n = 2.
RecordCollision(c, attempt, n) ==
  LET bound == attempt # None /\ attempt.action = pending IN
  /\ failed' = Counting(failed, IF bound THEN attempt ELSE Fingerprint(c), n)
  /\ counted' = [counted EXCEPT ![pending] = @ + 1]

Failed == failures' = [failures EXCEPT ![pending] = @ + 1]

-----------------------------------------------------------------------------
\* dispatch() of a tool that may change the workspace.

\* It fails before it has prepared an attempt; one prepared earlier stays.
FailEarly(c) ==
  /\ ~Blocked(c)
  /\ RecordCollision(c, prepared, 1)
  /\ Failed
  /\ UNCHANGED <<pending, gate, uses, applied, scope, evidence, prepared, late, crashes>>

\* A command leaves an artifact, at the source snapshot unless applied.
Artifacts(c) ==
  IF c.tool = "command" /\ ~applied
  THEN {[evidence EXCEPT ![pending] = @ \cup {e}] : e \in Artifact}
  ELSE {evidence}

\* It prepares an attempt and then fails: approval is denied, a write fails or
\* the command times out.
FailLate(c) ==
  /\ ~Blocked(c)
  /\ Prepares(c)
  /\ prepared' = Attempt(c)
  /\ RecordCollision(c, Attempt(c), 1)
  /\ Failed
  /\ late' = Counting(late, Attempt(c), 1)
  /\ UNCHANGED <<pending, gate, uses, applied, scope, evidence, crashes>>

\* The command runs and returns an error.
CommandFails(c) ==
  /\ ~Blocked(c)
  /\ c.tool = "command"
  /\ Prepares(c)
  /\ prepared' = Attempt(c)
  /\ RecordCollision(c, Attempt(c), 2)
  /\ Failed
  /\ late' = Counting(late, Attempt(c), 1)
  /\ uses' = [uses EXCEPT ![pending] = @ + 1]
  /\ evidence' \in Artifacts(c)
  /\ UNCHANGED <<pending, gate, applied, scope, crashes>>

\* apply_transaction or run_command succeeds.
Succeed(c) ==
  /\ ~Blocked(c)
  /\ Prepares(c)
  /\ prepared' = Attempt(c)
  /\ uses' = [uses EXCEPT ![pending] = @ + 1]
  /\ applied' = (applied \/ c.tool = "apply")
  /\ evidence' \in Artifacts(c)
  /\ UNCHANGED <<pending, gate, scope, failed, counted, failures, late, crashes>>

\* finalize_transaction succeeds.  A rollback of the finished change is left out:
\* the actions of its source may be proposed again at once.
Finalize(c) ==
  /\ ~Blocked(c)
  /\ c.tool = "finalize"
  /\ applied /\ pending # None
  /\ applied' = FALSE
  /\ UNCHANGED <<pending, gate, uses, scope, evidence, failed, counted, prepared, failures,
                 late, crashes>>

-----------------------------------------------------------------------------
\* Tools that are never blocked.
\* Mutant: the attempt prepared for the previous action stays.
NewActionKeepsAttempt(id) ==
  /\ pending' = id
  /\ gate' = None
  /\ UNCHANGED prepared
\* Another action, or none, without a gate or an attempt.
NewAction(id) ==
  /\ pending' = id
  /\ gate' = None
  /\ prepared' = None

\* propose_eon_action, of an action of the workspace before the change: the same
\* content is the same action, with its uses anew.
Propose(a) ==
  /\ ~applied
  /\ NewAction(a)
  /\ uses' = [uses EXCEPT ![a] = 0]
  /\ UNCHANGED <<applied, scope, evidence, failed, counted, history>>

\* establish_governance, during a change too: it can then only be rolled back.
Govern(s) ==
  /\ scope' = s
  /\ NewAction(None)
  /\ UNCHANGED <<uses, applied, evidence, failed, counted, history>>

\* A read, whose artifact is bound to the pending action.
Observe(e) ==
  /\ pending # None /\ ~applied
  /\ evidence' = [evidence EXCEPT ![pending] = @ \cup {e}]
  /\ UNCHANGED <<pending, gate, uses, applied, scope, failed, counted, prepared, history>>

\* submit_evidence_gate; a decision with the same content is the same decision.
\* What a rejecting one cites is left out.
SubmitGate(S) ==
  /\ pending # None
  /\ uses[pending] < UseLimit
  /\ S \subseteq evidence[pending]
  /\ gate' = [cites |-> S, approves |-> S # {}]
  /\ UNCHANGED <<pending, uses, applied, scope, evidence, failed, counted, prepared, history>>

\* rollback_transaction.
Rollback ==
  /\ applied
  /\ applied' = FALSE
  /\ NewAction(None)
  /\ UNCHANGED <<uses, scope, evidence, failed, counted, history>>

\* A process ends between two calls, and the next one loads the state saved.
Restart ==
  /\ prepared # None
  /\ prepared' = None
  /\ UNCHANGED <<records, history>>

\* A process ends inside a call, before the failure is recorded.
Crash(c) ==
  /\ crashes < MaxCrashes
  /\ ~Blocked(c)
  /\ crashes' = crashes + 1
  /\ prepared' = None
  /\ Failed
  /\ late' = IF Prepares(c) THEN Counting(late, Attempt(c), 1) ELSE late
  /\ UNCHANGED records

RetryInit ==
  /\ pending = None /\ gate = None
  /\ uses = [a \in Action |-> 0]
  /\ applied = FALSE
  /\ scope \in Scope
  /\ evidence = [a \in Action |-> {}]
  /\ prepared = None
  /\ failed = [k \in {} |-> 0]
  /\ counted = [id \in Ids |-> 0]
  /\ failures = [id \in Ids |-> 0]
  /\ late = [k \in {} |-> 0]
  /\ crashes = 0

Dispatch ==
  \E c \in Call : \/ FailEarly(c) \/ FailLate(c) \/ CommandFails(c)
                  \/ Succeed(c) \/ Finalize(c) \/ Crash(c)
RetryNext ==
  \/ Dispatch
  \/ \E a \in Action : Propose(a)
  \/ \E s \in Scope : Govern(s)
  \/ \E e \in Artifact : Observe(e)
  \/ \E S \in SUBSET Artifact : SubmitGate(S)
  \/ Rollback
  \/ Restart

RetrySpec == RetryInit /\ [][RetryNext]_retryVars

-----------------------------------------------------------------------------
\* The attempt a later failure would be charged to is one of the pending action,
\* and an action is not used beyond its limit.
TypeOK ==
  /\ pending \in Ids
  /\ gate = None \/ gate \in [cites : SUBSET Artifact, approves : BOOLEAN]
  /\ uses \in [Action -> 0..UseLimit]
  /\ applied \in BOOLEAN
  /\ scope \in Scope
  /\ evidence \in [Action -> SUBSET Artifact]
  /\ prepared # None => prepared.action = pending
  /\ \A k \in DOMAIN failed : failed[k] \in Nat \ {0}
  /\ counted \in [Ids -> Nat]
  /\ failures \in [Ids -> Nat]
  /\ \A k \in DOMAIN late : late[k] \in Nat \ {0}
  /\ crashes \in 0..MaxCrashes

\* However often an action is proposed again, its evidence revised or the process
\* restarted, its tools fail at most its limit and once more: once for an L2
\* action.  A process that ends inside a call costs one execution.
RetriesBounded ==
  \A id \in Ids :
    failures[id] <= (IF id \in HighRisk THEN 1 ELSE MaxRetries + 1) + crashes

\* One attempt fails at most its limit and once more, whatever else is tried
\* between.
AttemptsBounded == \A k \in DOMAIN late : late[k] <= AttemptLimit + 1 + crashes
=============================================================================
