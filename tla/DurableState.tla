----------------------------- MODULE DurableState -----------------------------
(***************************************************************************)
(* What the state store promises an agent: a save replaces the saved state *)
(* in one step, a process that starts gets exactly the saved state, and a  *)
(* store whose history is damaged gives no state at all.  StateStore does  *)
(* the same with an event log and a projection and is shown to implement   *)
(* this module.                                                            *)
(***************************************************************************)
CONSTANTS State, Down, Lost

VARIABLES memory,  \* the state of the agent that runs, or Down
          saved    \* the state the next agent starts from, or Lost

vars == <<memory, saved>>

Init ==
  /\ memory = Down
  /\ saved \in State

Open ==
  /\ memory = Down
  /\ saved # Lost
  /\ memory' = saved
  /\ UNCHANGED saved

Change(s) ==
  /\ memory # Down
  /\ memory' = s
  /\ UNCHANGED saved

Save ==
  /\ memory # Down
  /\ saved # Lost
  /\ saved' = memory
  /\ UNCHANGED memory

\* A process that ends, in whatever way, leaves only what it saved.
Stop ==
  /\ memory' = Down
  /\ UNCHANGED saved

Damage ==
  /\ saved' = Lost
  /\ UNCHANGED memory

Next ==
  \/ Open
  \/ \E s \in State : Change(s)
  \/ Save
  \/ Stop
  \/ Damage

Spec == Init /\ [][Next]_vars
=============================================================================
