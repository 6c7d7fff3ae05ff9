---------------------------- MODULE AutonomousLoop ----------------------------
(***************************************************************************)
(* ourd/production_agent.py run_task() with ourd/loop_control.py: the loop *)
(* in which a model calls tools, turn after turn.  After each response the *)
(* controller compares the verified state with the one before it and lets  *)
(* the loop go on only for new evidence, or for a bounded number of steps  *)
(* that change nothing but governance, actions and hypotheses.  What the   *)
(* tools do is GovernedAgent's; here a call leaves evidence, collides or   *)
(* changes such control state.                                             *)
(***************************************************************************)
EXTENDS Integers, Sequences, FiniteSets, SequencesExt

CONSTANTS
  Evidence,       \* evidence, by content
  Collision,      \* collisions, by content
  Stop,           \* another one, of disposition CYCLE_STOP
  Control,        \* control atoms: governance, action, gate, hypotheses
  Step,           \* semantic signatures of the calls of a response
  None,
  MaxControlOnly, \* max_control_only_progress
  StepBudget,     \* responses of a turn
  Window,         \* past states and steps the controller keeps
  MaxPeriod,      \* longest repetition it looks for
  MaxCalls,       \* bound: calls of a response
  MaxTurns,       \* bound: turns
  MaxInterrupts   \* bound: turns that end with an exception or their process

ASSUME LoopAssumption ==
  /\ Stop \notin Collision /\ None \notin Step
  /\ IsFiniteSet(Evidence) /\ IsFiniteSet(Collision)
  /\ MaxControlOnly \in 0..16
  /\ StepBudget \in Nat \ {0} /\ MaxCalls \in Nat \ {0}
  /\ Window \in Nat /\ Window >= 4
  /\ MaxPeriod \in 1..(Window \div 2)
  /\ MaxTurns \in Nat /\ MaxInterrupts \in Nat

VARIABLES
  \* RuntimeState, saved after every call.
  evidence,    \* evidence_registry
  collisions,
  control,
  streak,      \* control_only_progress_streak
  \* The turn.
  pc,
  step,        \* the response it is at
  calls,       \* calls of this response so far
  signature,   \* its semantic signature
  active,      \* active_evidence_ids
  before,      \* the verified state before it
  spent,       \* control_only_streak of the controller
  states,      \* verified states after the last steps
  steps,       \* those steps: [signature, gain]
  attempt,     \* attempt_index of the terminal synthesis
  \* History and bounds.
  visited,     \* verified states after the steps of the turn
  idle,        \* steps since the last new evidence or the last answer
  interrupts, turns

runtime == <<evidence, collisions, control, streak>>
controller == <<spent, states, steps>>
turn == <<pc, step, calls, signature, active, before, controller, attempt>>
history == <<visited, idle, interrupts, turns>>
loopVars == <<runtime, turn, history>>

Idle == pc = "idle"

-----------------------------------------------------------------------------
\* verified_projection.  The hash of the workspace, which tells more states apart
\* and counts for nothing else, is left out.
Projection ==
  [evidence |-> evidence, collisions |-> collisions, control |-> control, active |-> active]

\* What a step gained: evidence new to the registry or to this turn, and
\* collisions of new content.  (No code path changes the boundary's uncertainty.)
Gain ==
  Cardinality((evidence \ before.evidence) \cup (active \ before.active))
    + Cardinality(collisions \ before.collisions)
ControlOnly == Gain = 0 /\ control \ before.control # {}

\* Mutant: a step that changes nothing ends the streak.
StreakAfterReset == IF Gain = 0 /\ ControlOnly THEN spent + 1 ELSE 0
\* The streak after a step that is not the last of its turn.
StreakAfter == IF Gain > 0 THEN 0 ELSE IF ControlOnly THEN spent + 1 ELSE spent

\* certify_progress, and the allowance for steps of control only.
Accepted == Gain > 0 \/ (ControlOnly /\ StreakAfter <= MaxControlOnly)

\* VERIFIED_STATE_CYCLE.
Returns == Projection \in ToSet(states) /\ Projection # before

\* The last elements of a sequence, n of them if there are.
Recent(seq, n) == SubSeq(seq, (IF Len(seq) > n THEN Len(seq) - n ELSE 0) + 1, Len(seq))
ThisStep == [signature |-> signature, gain |-> Gain]

\* SEMANTIC_PERIODIC_CYCLE: the last p steps are the p before them, and none of
\* these 2p gained anything.
Repeats(p) ==
  LET all == Append(steps, ThisStep)
      n   == Len(all)
  IN /\ n >= 2 * p
     /\ \A i \in (n - p + 1)..n : all[i].signature = all[i - p].signature
     /\ \A i \in (n - 2 * p + 1)..n : all[i].gain = 0
Periodic == \E p \in 1..MaxPeriod : Repeats(p)

\* Mutant: a return to an earlier state is not looked for.
AllowedAnyState == Accepted /\ ~Periodic
Allowed == Accepted /\ ~Returns /\ ~Periodic

-----------------------------------------------------------------------------
\* Mutant: a new turn starts with the whole allowance.
BeginAnew ==
  /\ Idle /\ turns < MaxTurns
  /\ turns' = turns + 1
  /\ pc' = "request"
  /\ step' = 1
  /\ \E E \in {{e} : e \in Evidence} \cup {{}} : active' = E /\ evidence' = evidence \cup E
  /\ spent' = 0
  /\ UNCHANGED <<collisions, control, streak, calls, signature, before, states, steps, attempt,
                 visited, idle, interrupts>>
\* run_task, up to its loop: a controller with the streak that was saved, and for
\* a code review the evidence of its surface.
Begin ==
  /\ Idle /\ turns < MaxTurns
  /\ turns' = turns + 1
  /\ pc' = "request"
  /\ step' = 1
  /\ \E E \in {{e} : e \in Evidence} \cup {{}} : active' = E /\ evidence' = evidence \cup E
  /\ spent' = streak
  /\ UNCHANGED <<collisions, control, streak, calls, signature, before, states, steps, attempt,
                 visited, idle, interrupts>>

\* A turn is over, and what it kept in memory is gone.
Over ==
  /\ pc' = "idle" /\ step' = 0 /\ calls' = 0 /\ signature' = None /\ active' = {}
  /\ before' = None /\ spent' = 0 /\ states' = <<>> /\ steps' = <<>> /\ attempt' = 0
  /\ visited' = {}

\* The terminal step, and the streak with it.
Final ==
  /\ streak' = 0
  /\ idle' = 0
  /\ Over
  /\ UNCHANGED <<evidence, control, interrupts, turns>>

\* The model answers without a call.
Answer ==
  /\ pc = "request"
  /\ Final
  /\ UNCHANGED collisions

\* The request does not fit the context: a bounded answer.
ContextExceeded(c) ==
  /\ pc = "request"
  /\ collisions' = collisions \cup {c}
  /\ Final

\* The provider fails: an exception.
RequestFails(c) ==
  /\ pc = "request" /\ interrupts < MaxInterrupts
  /\ interrupts' = interrupts + 1
  /\ collisions' = collisions \cup {c}
  /\ Over
  /\ UNCHANGED <<evidence, control, streak, idle, turns>>

\* The model calls tools.
Respond(sig) ==
  /\ pc = "request"
  /\ pc' = "calls"
  /\ signature' = sig
  /\ before' = Projection
  /\ calls' = 0
  /\ UNCHANGED <<runtime, step, active, controller, attempt, history>>

Call ==
  /\ pc = "calls" /\ calls < MaxCalls
  /\ calls' = calls + 1
  /\ UNCHANGED <<streak, pc, step, signature, before, controller, attempt, history>>

\* A read or a command: an artifact, of new or known content.
Observe(e) ==
  /\ Call
  /\ evidence' = evidence \cup {e}
  /\ active' = active \cup {e}
  /\ UNCHANGED <<collisions, control>>

\* The call fails, or its arguments are invalid.
Collide(c) ==
  /\ Call
  /\ collisions' = collisions \cup {c}
  /\ UNCHANGED <<evidence, control, active>>

\* Governance, an action, a gate or hypotheses are set anew or dropped.
Organize(C) ==
  /\ Call
  /\ control' = C
  /\ UNCHANGED <<evidence, collisions, active>>

\* The calls are done: assess() and _persist_progress().
Assess ==
  /\ pc = "calls" /\ calls > 0
  /\ spent' = StreakAfter
  /\ streak' = StreakAfter
  /\ states' = Recent(Append(states, Projection), Window)
  /\ steps' = Recent(Append(steps, ThisStep), Window)
  /\ IF Allowed /\ step < StepBudget
     THEN pc' = "request" /\ step' = step + 1
     ELSE pc' = "stop" /\ UNCHANGED step
  /\ visited' = visited \cup {Projection}
  /\ idle' = IF Gain > 0 THEN 0 ELSE idle + 1
  /\ UNCHANGED <<evidence, collisions, control, calls, signature, active, before, attempt,
                 interrupts, turns>>

\* _stop_for_cycle; when the steps are used up, exhaust_budget() before it.
StopForCycle ==
  /\ pc = "stop"
  /\ collisions' = collisions \cup {Stop}
  /\ pc' = "synthesis"
  /\ UNCHANGED <<evidence, control, streak, step, calls, signature, active, before, controller,
                 attempt, history>>

\* Mutant: it asks as often as the model calls a tool.
SynthesisAsksOn ==
  /\ pc = "synthesis"
  /\ attempt' = 1 - attempt
  /\ UNCHANGED <<runtime, pc, step, calls, signature, active, before, controller, history>>
\* _terminal_cycle_synthesis asks a second time when the model calls a tool or
\* says nothing.
SynthesisRejected ==
  /\ pc = "synthesis" /\ attempt = 0
  /\ attempt' = 1
  /\ UNCHANGED <<runtime, pc, step, calls, signature, active, before, controller, history>>

\* What the model says, or after a failure or two rejections a fixed text.
Synthesize ==
  /\ pc = "synthesis"
  /\ Final
  /\ UNCHANGED collisions

\* The turn is cancelled between two of its steps, or its process ends.
Interrupt ==
  /\ ~Idle /\ interrupts < MaxInterrupts
  /\ interrupts' = interrupts + 1
  /\ idle' = IF pc # "calls" \/ calls = 0 THEN idle ELSE IF Gain > 0 THEN 0 ELSE idle + 1
  /\ Over
  /\ UNCHANGED <<runtime, turns>>

Init ==
  /\ evidence = {} /\ collisions = {} /\ control = {} /\ streak = 0
  /\ pc = "idle" /\ step = 0 /\ calls = 0 /\ signature = None /\ active = {}
  /\ before = None /\ spent = 0 /\ states = <<>> /\ steps = <<>> /\ attempt = 0
  /\ visited = {} /\ idle = 0 /\ interrupts = 0 /\ turns = 0

ToolStep ==
  \/ \E e \in Evidence : Observe(e)
  \/ \E c \in Collision : Collide(c)
  \/ \E C \in SUBSET Control : Organize(C)
TurnStep ==
  \/ Answer \/ ToolStep \/ Assess \/ StopForCycle \/ SynthesisRejected \/ Synthesize
  \/ \E c \in Collision : ContextExceeded(c) \/ RequestFails(c)
  \/ \E sig \in Step : Respond(sig)
Next == Begin \/ TurnStep \/ Interrupt

Spec == Init /\ [][Next]_loopVars

\* The model answers or its request times out, and so do the tools.
FairSpec == Spec /\ WF_loopVars(TurnStep)

-----------------------------------------------------------------------------
VerifiedState ==
  [evidence : SUBSET Evidence, collisions : SUBSET (Collision \cup {Stop}),
   control : SUBSET Control, active : SUBSET Evidence]

\* In a turn, what it read is in the registry and nothing recorded is lost, and
\* the controller's streak is the one saved.
TypeOK ==
  /\ evidence \subseteq Evidence /\ collisions \subseteq Collision \cup {Stop}
  /\ control \subseteq Control
  /\ pc \in {"idle", "request", "calls", "stop", "synthesis"}
  /\ step \in 0..StepBudget /\ calls \in 0..MaxCalls /\ attempt \in 0..1
  /\ signature \in Step \cup {None}
  /\ active \subseteq evidence
  /\ before # None => /\ before \in VerifiedState
                      /\ before.evidence \subseteq evidence /\ before.active \subseteq active
                      /\ before.collisions \subseteq collisions
  /\ streak \in Nat /\ spent = (IF Idle THEN 0 ELSE streak)
  /\ states \in Seq(VerifiedState) /\ Len(states) <= Window
  /\ steps \in Seq([signature : Step, gain : Nat]) /\ Len(steps) = Len(states)
  /\ ToSet(states) \subseteq visited
  /\ idle \in Nat /\ interrupts \in 0..MaxInterrupts /\ turns \in 0..MaxTurns

\* "The streak is stored ... so restarting the agent or starting another chat turn
\* does not reset the allowance": between two gains of evidence or answers there
\* are at most the allowed steps and the one that stops the loop, and one more for
\* a turn that ended with an exception or its process.
IdleStepsBounded == idle <= MaxControlOnly + 1 + interrupts

\* A turn does not go on from a verified state it was in after an earlier step,
\* however long ago.
NoReturn ==
  [][pc = "calls" /\ pc' = "request" => Projection \notin visited]_loopVars

\* Every turn comes to an end.
TurnEnds == ~Idle ~> Idle
=============================================================================
