------------------------- MODULE PlanExecutionProofs -------------------------
(***************************************************************************)
(* Proofs about PlanExecution, for every plan, every use limit and every   *)
(* bound on executions, faults and edits.                                  *)
(***************************************************************************)
EXTENDS PlanExecution, TLAPS, WellFoundedInduction

(***************************************************************************)
(* A set of nodes that is not empty has a last one, which is what Max      *)
(* chooses: the distances from the end of the plan have a least element.   *)
(***************************************************************************)
LEMMA LeastOf ==
  ASSUME NEW D \in SUBSET Nat, D # {}
  PROVE  \E d \in D : \A e \in D : d <= e
<1>1. PICK d \in D : \A e \in D : <<e, d>> \notin OpToRel(<, Nat)
  BY WFMin, NatLessThanWellFounded, Zenon
<1>2. \A e \in D : e \in Nat /\ d \in Nat
  OBVIOUS
<1>3. \A e \in D : ~ (e < d)
  BY <1>1, <1>2, Zenon DEF OpToRel
<1>. QED
  BY <1>2, <1>3

LEMMA LastOf ==
  ASSUME NEW S \in SUBSET Node, S # {}
  PROVE  Max(S) \in S /\ \A m \in S : m <= Max(S)
<1>. DEFINE D == {Length - n : n \in S}
<1>1. Length \in Nat /\ \A n \in S : n \in Nat /\ n <= Length
  BY PlanAssumption DEF Node
<1>2. \A d \in D : d \in Nat
  BY <1>1
<1>3. D # {}
  OBVIOUS
<1>4. PICK d \in D : \A e \in D : d <= e
  <2>. HIDE DEF D
  <2>. QED
    BY <1>2, <1>3, LeastOf
<1>5. PICK n \in S : d = Length - n
  OBVIOUS
<1>6. \A m \in S : Length - n <= Length - m
  BY <1>4, <1>5
<1>7. \A m \in S : n >= m
  BY <1>1, <1>6
<1>8. Max(S) \in S /\ \A m \in S : Max(S) >= m
  BY <1>7 DEF Max
<1>. QED
  BY <1>1, <1>8

-----------------------------------------------------------------------------
(***************************************************************************)
(* The invariant.  While an execution runs it has lost nothing and has no  *)
(* outcome to report; what it completed lies before the node it is at.     *)
(***************************************************************************)
Running ==
  /\ ~Idle => report = "None"
  /\ pc \in {"loop", "executed", "pausing"} => untold = {} /\ results = {}
  /\ pc \in {"loop", "executed"} => \A n \in completed : n < at
  /\ pc = "executed" => at \in Node \ skipped /\ {at} \cap Mutates \subseteq effects
  /\ untold \cap completed = {}

\* Every effect is among those that a failure would undo, is the one of the node
\* just executed, or has been lost; or an undoing has failed, or done nothing.
Accounted ==
  /\ pc \in {"loop", "pausing"} => effects \subseteq completed
  /\ pc = "executed" => effects \subseteq completed \cup {at}
  /\ pc = "failing" =>
       /\ results = {} => effects \subseteq completed \cup untold
       /\ FALSE \in results \/ effects \subseteq completed \cup untold \cup Reverts
  /\ FailureIsUndone

\* The nodes before the one it is at are in the records.
Preceded ==
  /\ pc \in {"loop", "executed"} => \A m \in Node : m < at => m \in recorded
  /\ InOrder

\* An effect is counted at most once for each execution.
Standing ==
  \A n \in Node : /\ standing[n] <= runs
                  /\ (~Idle \/ n \in effects) => standing[n] < runs

\* A use that is not in the index was paid for by a crash, and an execution that
\* runs has its use before it.
Forgotten == IF Workflow \in unindexed THEN 1 ELSE 0
Covered(n) ==
  \E limit \in UseLimit : approval[limit] # "none" /\ n <= limit + faults
UsesCovered ==
  /\ Forgotten <= faults
  /\ Human => /\ uses + Forgotten <= faults \/ Covered(uses + Forgotten)
              /\ ~Idle => Covered(uses + Forgotten + 1)

IInv == TypeOK /\ Running /\ Accounted /\ Preceded /\ Standing /\ UsesCovered

-----------------------------------------------------------------------------
\* TypeOK is preserved by every action.
LEMMA TypeStep == IInv /\ [Next]_planVars => TypeOK'
<1> SUFFICES ASSUME IInv, [Next]_planVars PROVE TypeOK'
  OBVIOUS
<1>. USE PlanAssumption DEF IInv, TypeOK, Node, Idle, AtNode, Workflow, store,
           world, execution, bounds
<1>1. CASE Pass
  BY <1>1 DEF Pass
<1>2. CASE Skip
  BY <1>2 DEF Skip
<1>3. CASE Execute
  BY <1>3 DEF Execute, Goto, Running
<1>4. CASE ExecuteFails
  <2>1. faults' \in 0..MaxFaults
    <3>1. faults' = faults \/ (faults < MaxFaults /\ faults' = faults + 1)
      BY <1>4 DEF ExecuteFails, Fault
    <3>. QED
      BY <3>1
  <2>2. spent' \subseteq Eon \cup Reverts /\ effects' \subseteq Mutates /\ untold' \subseteq effects'
    BY <1>4 DEF ExecuteFails
  <2>3. /\ pc' = "failing"
        /\ UNCHANGED <<store, standing, edited, completed, results, runs, edits>>
        /\ UNCHANGED <<at, skipped, pausing>>
    BY <1>4 DEF ExecuteFails
  <2>. QED
    BY <2>1, <2>2, <2>3
<1>5. CASE VerifyFails
  <2>1. untold = {} /\ {at} \cap Mutates \subseteq effects
    BY <1>5 DEF VerifyFails, Executed, Running
  <2>2. effects' \subseteq Mutates /\ untold' \subseteq effects'
    BY <1>5, <2>1 DEF VerifyFails
  <2>3. /\ pc' = "failing" /\ faults' \in 0..MaxFaults
        /\ UNCHANGED <<store, standing, spent, edited, at, skipped, completed, results, runs, edits>>
        /\ UNCHANGED pausing
    BY <1>5 DEF VerifyFails, Fault
  <2>. QED
    BY <2>2, <2>3
<1>6. CASE RecordFails
  <2>1. untold = {} /\ {at} \cap Mutates \subseteq effects
    BY <1>6 DEF RecordFails, Executed, Running
  <2>2. untold' \subseteq effects /\ faults' \in 0..MaxFaults /\ pc' = "failing"
    BY <1>6, <2>1 DEF RecordFails, Fault
  <2>3. UNCHANGED <<store, world, at, skipped, pausing, completed, results, runs, edits>>
    BY <1>6 DEF RecordFails
  <2>. QED
    BY <2>2, <2>3
<1>7. CASE Record
  BY <1>7 DEF Record, Executed, Running
<1>8. CASE Pause
  BY <1>8 DEF Pause, Goto
<1>9. CASE Complete
  BY SMTT(60), <1>9 DEF Complete, Goto
<1>10. CASE Undo
  <2>1. NextToUndo \in ToUndo
    BY <1>10, LastOf DEF Undo, ToUndo, NextToUndo
  <2>5. untold \subseteq effects \ {NextToUndo} /\ untold \subseteq effects
    BY <2>1 DEF Running, ToUndo
  <2>6. /\ effects' = effects \/ effects' = effects \ ({NextToUndo} \ Reverts)
        /\ results' = results \cup {TRUE} \/ results' = results \cup {FALSE}
    BY <1>10 DEF Undo
  <2>7. faults' \in 0..MaxFaults
    <3>1. faults' = faults \/ (faults < MaxFaults /\ faults' = faults + 1)
      BY <1>10 DEF Undo, Fault
    <3>. QED
      BY <3>1
  <2>2. /\ effects' \subseteq Mutates /\ untold \subseteq effects'
        /\ results' \subseteq BOOLEAN /\ faults' \in 0..MaxFaults
    BY <2>5, <2>6, <2>7
  <2>3. completed' \subseteq completed
    BY <1>10 DEF Undo
  <2>4. UNCHANGED <<store, standing, spent, edited, pc, at, skipped, pausing, untold, runs, edits>>
    BY <1>10 DEF Undo
  <2>. QED
    BY <2>2, <2>3, <2>4
<1>11. CASE ReportFailure
  BY <1>11 DEF ReportFailure, Status, ToUndo, Goto
<1>12. ASSUME NEW limit \in UseLimit, Authorize(limit) PROVE TypeOK'
  BY <1>12 DEF Authorize
<1>13. ASSUME NEW limit \in UseLimit, Expire(limit) PROVE TypeOK'
  BY <1>13 DEF Expire
<1>14. CASE RequestPause
  BY <1>14 DEF RequestPause
<1>15. ASSUME NEW resume \in BOOLEAN, NEW pause \in BOOLEAN, Begin(resume, pause) PROVE TypeOK'
  <2>1. ASSUME NEW n \in Node
        PROVE  standing[n] + (IF n \in effects THEN 1 ELSE 0) \in 0..MaxRuns
    <3>1. /\ standing[n] \in 0..MaxRuns /\ standing[n] <= runs /\ runs < MaxRuns
          /\ n \in effects => standing[n] < runs
      BY <1>15, <2>1 DEF Begin, Standing
    <3>. QED
      BY <3>1
  <2>2. standing' \in [Node -> 0..MaxRuns]
    BY <1>15, <2>1 DEF Begin
  <2>3. /\ runs' \in 0..MaxRuns /\ skipped' \subseteq recorded /\ pausing' \in BOOLEAN
        /\ pc' = "loop" /\ at' = 1 /\ completed' = {} /\ results' = {} /\ untold' = {}
        /\ effects' = {} /\ report' = "None"
    BY <1>15 DEF Begin
  <2>4. UNCHANGED <<approval, recorded, unindexed, paused, asked, uses, spent, edited, edits, faults>>
    BY <1>15 DEF Begin
  <2>5. 1 \in 1..(Length + 1)
    OBVIOUS
  <2>. QED
    BY <2>2, <2>3, <2>4, <2>5
<1>16. CASE Crash
  <2>1. Unwritten \subseteq Node \cup {Workflow}
    BY DEF Unwritten, Executed, Running
  <2>2. unindexed' \subseteq Node \cup {Workflow} /\ faults' \in 0..MaxFaults
    BY <1>16, <2>1 DEF Crash, Fault
  <2>. QED
    BY <1>16, <2>2 DEF Crash
<1>17. CASE Rebuild
  BY <1>17 DEF Rebuild
<1>18. CASE Edit
  BY <1>18 DEF Edit
<1>19. CASE UNCHANGED planVars
  BY <1>19 DEF planVars
<1>. QED
  BY <1>1, <1>2, <1>3, <1>4, <1>5, <1>6, <1>7, <1>8, <1>9, <1>10, <1>11, <1>12, <1>13, <1>14, <1>15, <1>16, <1>17, <1>18, <1>19 DEF Next, Step

\* So is what an execution knows of itself.
LEMMA RunningStep == IInv /\ [Next]_planVars => Running'
<1> SUFFICES ASSUME IInv, [Next]_planVars PROVE Running'
  OBVIOUS
<1>. USE PlanAssumption DEF IInv, TypeOK, Running, Node, Idle, AtNode, store,
           world, execution, bounds
<1>1. CASE Pass
  BY <1>1 DEF Pass
<1>2. CASE Skip
  BY <1>2 DEF Skip
<1>3. CASE Execute
  BY <1>3 DEF Execute, Goto
<1>4. CASE ExecuteFails
  <2>1. untold = {} /\ at \notin completed
    BY <1>4 DEF ExecuteFails
  <2>2. untold' \subseteq {at} /\ UNCHANGED <<completed, report>> /\ pc' = "failing"
    BY <1>4, <2>1 DEF ExecuteFails
  <2>. QED
    BY <1>4, <2>1, <2>2 DEF ExecuteFails
<1>5. CASE VerifyFails
  <2>1. untold = {} /\ at \notin completed
    BY <1>5 DEF VerifyFails, Executed
  <2>2. untold' \subseteq {at} /\ UNCHANGED <<completed, report>> /\ pc' = "failing"
    BY <1>5, <2>1 DEF VerifyFails
  <2>. QED
    BY <1>5, <2>1, <2>2 DEF VerifyFails, Executed
<1>6. CASE RecordFails
  BY <1>6 DEF RecordFails, Executed, Fault
<1>7. CASE Record
  BY <1>7 DEF Record, Executed
<1>8. CASE Pause
  BY <1>8 DEF Pause, Goto
<1>9. CASE Complete
  BY <1>9 DEF Complete, Goto
<1>10. CASE Undo
  BY <1>10 DEF Undo, Fault, ToUndo, NextToUndo
<1>11. CASE ReportFailure
  BY <1>11 DEF ReportFailure, Status, ToUndo, Goto
<1>12. ASSUME NEW limit \in UseLimit, Authorize(limit) PROVE Running'
  BY <1>12 DEF Authorize
<1>13. ASSUME NEW limit \in UseLimit, Expire(limit) PROVE Running'
  BY <1>13 DEF Expire
<1>14. CASE RequestPause
  BY <1>14 DEF RequestPause
<1>15. ASSUME NEW resume \in BOOLEAN, NEW pause \in BOOLEAN, Begin(resume, pause) PROVE Running'
  BY <1>15 DEF Begin
<1>16. CASE Crash
  BY <1>16 DEF Crash, Fault, Unwritten, Executed
<1>17. CASE Rebuild
  BY <1>17 DEF Rebuild
<1>18. CASE Edit
  BY <1>18 DEF Edit
<1>19. CASE UNCHANGED planVars
  BY <1>19 DEF planVars
<1>. QED
  BY <1>1, <1>2, <1>3, <1>4, <1>5, <1>6, <1>7, <1>8, <1>9, <1>10, <1>11, <1>12, <1>13, <1>14, <1>15, <1>16, <1>17, <1>18, <1>19 DEF Next, Step

\* So is the account of effects, by which a report is true.
LEMMA AccountedStep == IInv /\ [Next]_planVars => Accounted'
<1> SUFFICES ASSUME IInv, [Next]_planVars PROVE Accounted'
  OBVIOUS
<1>. USE PlanAssumption DEF IInv, TypeOK, Running, Accounted, FailureIsUndone,
           Node, Idle, AtNode, store, world, execution, bounds
<1>1. CASE Pass
  BY <1>1 DEF Pass
<1>2. CASE Skip
  BY <1>2 DEF Skip
<1>3. CASE Execute
  BY <1>3 DEF Execute, Goto
<1>4. CASE ExecuteFails
  BY <1>4 DEF ExecuteFails, Fault, Goto
<1>5. CASE VerifyFails
  BY <1>5 DEF VerifyFails, Executed, Fault
<1>6. CASE RecordFails
  BY <1>6 DEF RecordFails, Executed, Fault
<1>7. CASE Record
  BY <1>7 DEF Record, Executed
<1>8. CASE Pause
  BY <1>8 DEF Pause, Goto
<1>9. CASE Complete
  BY <1>9 DEF Complete, Goto
<1>10. CASE Undo
  BY <1>10 DEF Undo, Fault, ToUndo, NextToUndo
<1>11. CASE ReportFailure
  BY <1>11 DEF ReportFailure, Status, ToUndo, Goto
<1>12. ASSUME NEW limit \in UseLimit, Authorize(limit) PROVE Accounted'
  BY <1>12 DEF Authorize
<1>13. ASSUME NEW limit \in UseLimit, Expire(limit) PROVE Accounted'
  BY <1>13 DEF Expire
<1>14. CASE RequestPause
  BY <1>14 DEF RequestPause
<1>15. ASSUME NEW resume \in BOOLEAN, NEW pause \in BOOLEAN, Begin(resume, pause) PROVE Accounted'
  BY <1>15 DEF Begin
<1>16. CASE Crash
  BY <1>16 DEF Crash, Fault, Unwritten, Executed
<1>17. CASE Rebuild
  BY <1>17 DEF Rebuild
<1>18. CASE Edit
  BY <1>18 DEF Edit
<1>19. CASE UNCHANGED planVars
  BY <1>19 DEF planVars
<1>. QED
  BY <1>1, <1>2, <1>3, <1>4, <1>5, <1>6, <1>7, <1>8, <1>9, <1>10, <1>11, <1>12, <1>13, <1>14, <1>15, <1>16, <1>17, <1>18, <1>19 DEF Next, Step

\* So is the order of the nodes.
LEMMA PrecededStep == IInv /\ [Next]_planVars => Preceded'
<1> SUFFICES ASSUME IInv, [Next]_planVars PROVE Preceded'
  OBVIOUS
<1>. USE PlanAssumption DEF IInv, TypeOK, Running, Preceded, InOrder, Node, Idle,
           AtNode, store, world, execution, bounds
<1>1. CASE Pass
  BY <1>1 DEF Pass
<1>2. CASE Skip
  BY <1>2 DEF Skip
<1>3. CASE Execute
  BY <1>3 DEF Execute, Goto
<1>4. CASE ExecuteFails
  <2>1. \A m \in Node : m < at => m \in recorded
    BY <1>4 DEF ExecuteFails
  <2>2. effects' \subseteq effects \cup {at} /\ recorded' = recorded /\ pc' = "failing" /\ at \in Node
    BY <1>4 DEF ExecuteFails
  <2>3. \A m \in 1..(at - 1) : m \in Node /\ m < at
    BY <2>2
  <2>. QED
    BY <2>1, <2>2, <2>3
<1>5. CASE VerifyFails
  BY <1>5 DEF VerifyFails, Executed, Fault
<1>6. CASE RecordFails
  BY <1>6 DEF RecordFails, Executed, Fault
<1>7. CASE Record
  BY <1>7 DEF Record, Executed
<1>8. CASE Pause
  BY <1>8 DEF Pause, Goto
<1>9. CASE Complete
  BY <1>9 DEF Complete, Goto
<1>10. CASE Undo
  BY <1>10 DEF Undo, Fault, ToUndo, NextToUndo
<1>11. CASE ReportFailure
  BY <1>11 DEF ReportFailure, Status, ToUndo, Goto
<1>12. ASSUME NEW limit \in UseLimit, Authorize(limit) PROVE Preceded'
  BY <1>12 DEF Authorize
<1>13. ASSUME NEW limit \in UseLimit, Expire(limit) PROVE Preceded'
  BY <1>13 DEF Expire
<1>14. CASE RequestPause
  BY <1>14 DEF RequestPause
<1>15. ASSUME NEW resume \in BOOLEAN, NEW pause \in BOOLEAN, Begin(resume, pause) PROVE Preceded'
  BY <1>15 DEF Begin
<1>16. CASE Crash
  BY <1>16 DEF Crash, Fault, Unwritten, Executed
<1>17. CASE Rebuild
  BY <1>17 DEF Rebuild
<1>18. CASE Edit
  BY <1>18 DEF Edit
<1>19. CASE UNCHANGED planVars
  BY <1>19 DEF planVars
<1>. QED
  BY <1>1, <1>2, <1>3, <1>4, <1>5, <1>6, <1>7, <1>8, <1>9, <1>10, <1>11, <1>12, <1>13, <1>14, <1>15, <1>16, <1>17, <1>18, <1>19 DEF Next, Step

\* So is the count of effects.
LEMMA StandingStep == IInv /\ [Next]_planVars => Standing'
<1> SUFFICES ASSUME IInv, [Next]_planVars PROVE Standing'
  OBVIOUS
<1>. USE PlanAssumption DEF IInv, TypeOK, Standing, Node, Idle, AtNode, store,
           world, execution, bounds
<1>1. CASE Pass
  BY <1>1 DEF Pass
<1>2. CASE Skip
  BY <1>2 DEF Skip
<1>3. CASE Execute
  BY <1>3 DEF Execute, Goto
<1>4. CASE ExecuteFails
  BY <1>4 DEF ExecuteFails, Fault, Goto
<1>5. CASE VerifyFails
  BY <1>5 DEF VerifyFails, Executed, Fault
<1>6. CASE RecordFails
  BY <1>6 DEF RecordFails, Executed, Fault
<1>7. CASE Record
  BY <1>7 DEF Record, Executed
<1>8. CASE Pause
  BY <1>8 DEF Pause, Goto
<1>9. CASE Complete
  BY <1>9 DEF Complete, Goto
<1>10. CASE Undo
  BY <1>10 DEF Undo, Fault, ToUndo, NextToUndo
<1>11. CASE ReportFailure
  BY <1>11 DEF ReportFailure, Status, ToUndo, Goto
<1>12. ASSUME NEW limit \in UseLimit, Authorize(limit) PROVE Standing'
  BY <1>12 DEF Authorize
<1>13. ASSUME NEW limit \in UseLimit, Expire(limit) PROVE Standing'
  BY <1>13 DEF Expire
<1>14. CASE RequestPause
  BY <1>14 DEF RequestPause
<1>15. ASSUME NEW resume \in BOOLEAN, NEW pause \in BOOLEAN, Begin(resume, pause) PROVE Standing'
  <2>. SUFFICES ASSUME NEW n \in Node PROVE standing'[n] <= runs
    BY <1>15 DEF Begin
  <2>1. /\ standing[n] \in Nat /\ runs \in Nat /\ standing[n] <= runs
        /\ n \in effects => standing[n] < runs
    OBVIOUS
  <2>2. standing'[n] = standing[n] + IF n \in effects THEN 1 ELSE 0
    BY <1>15 DEF Begin
  <2>. QED
    BY <2>1, <2>2
<1>16. CASE Crash
  BY <1>16 DEF Crash, Fault, Unwritten, Executed
<1>17. CASE Rebuild
  BY <1>17 DEF Rebuild
<1>18. CASE Edit
  BY <1>18 DEF Edit
<1>19. CASE UNCHANGED planVars
  BY <1>19 DEF planVars
<1>. QED
  BY <1>1, <1>2, <1>3, <1>4, <1>5, <1>6, <1>7, <1>8, <1>9, <1>10, <1>11, <1>12, <1>13, <1>14, <1>15, <1>16, <1>17, <1>18, <1>19 DEF Next, Step

\* So is the cover of the uses.
LEMMA UsesStep == IInv /\ [Next]_planVars => UsesCovered'
<1> SUFFICES ASSUME IInv, [Next]_planVars PROVE UsesCovered'
  OBVIOUS
<1>. USE PlanAssumption DEF IInv, TypeOK, UsesCovered, Covered, Forgotten, Node,
           Idle, AtNode, Workflow, store, world, execution, bounds
<1>1. CASE Pass
  BY <1>1 DEF Pass
<1>2. CASE Skip
  BY <1>2 DEF Skip
<1>3. CASE Execute
  BY <1>3 DEF Execute, Goto
<1>4. CASE ExecuteFails
  BY SMTT(60), <1>4 DEF ExecuteFails, Fault, Goto
<1>5. CASE VerifyFails
  BY <1>5 DEF VerifyFails, Executed, Fault
<1>6. CASE RecordFails
  BY <1>6 DEF RecordFails, Executed, Fault
<1>7. CASE Record
  BY <1>7 DEF Record, Executed
<1>8. CASE Pause
  BY <1>8 DEF Pause, Goto
<1>9. CASE Complete
  BY <1>9 DEF Complete, Goto
<1>10. CASE Undo
  <2>1. faults' = faults \/ faults' = faults + 1
    BY <1>10 DEF Undo, Fault
  <2>2. UNCHANGED <<approval, unindexed, uses, pc>>
    BY <1>10 DEF Undo
  <2>3. ASSUME NEW n \in Nat, Covered(n) PROVE Covered(n)'
    BY <2>1, <2>2, <2>3
  <2>4. Forgotten \in 0..1 /\ Forgotten' = Forgotten /\ Forgotten <= faults
    BY <2>2
  <2>5. uses + Forgotten <= faults => uses' + Forgotten' <= faults'
    BY <2>1, <2>2, <2>4
  <2>. HIDE DEF Forgotten, Covered
  <2>. QED
    BY <2>1, <2>2, <2>3, <2>4, <2>5
<1>11. CASE ReportFailure
  BY <1>11 DEF ReportFailure, Status, ToUndo, Goto
<1>12. ASSUME NEW limit \in UseLimit, Authorize(limit) PROVE UsesCovered'
  BY <1>12 DEF Authorize
<1>13. ASSUME NEW limit \in UseLimit, Expire(limit) PROVE UsesCovered'
  BY <1>13 DEF Expire
<1>14. CASE RequestPause
  BY <1>14 DEF RequestPause
<1>15. ASSUME NEW resume \in BOOLEAN, NEW pause \in BOOLEAN, Begin(resume, pause) PROVE UsesCovered'
  <2>1. UNCHANGED <<approval, unindexed, uses, faults>> /\ pc' = "loop" /\ pc = "idle"
    BY <1>15 DEF Begin
  <2>2. Human => Covered(uses + Forgotten + 1)
    <3>1. ASSUME Human
          PROVE  \E limit \in UseLimit : approval[limit] = "valid" /\ uses < limit
      BY <1>15, <3>1 DEF Begin, Validate
    <3>2. ASSUME NEW limit \in UseLimit, approval[limit] = "valid", uses < limit
          PROVE  uses + Forgotten + 1 <= limit + faults
      BY <3>2
    <3>. QED
      BY <3>1, <3>2
  <2>. QED
    BY <2>1, <2>2
<1>16. CASE Crash
  BY <1>16 DEF Crash, Fault, Unwritten, Executed
<1>17. CASE Rebuild
  BY <1>17 DEF Rebuild
<1>18. CASE Edit
  BY <1>18 DEF Edit
<1>19. CASE UNCHANGED planVars
  BY <1>19 DEF planVars
<1>. QED
  BY <1>1, <1>2, <1>3, <1>4, <1>5, <1>6, <1>7, <1>8, <1>9, <1>10, <1>11, <1>12, <1>13, <1>14, <1>15, <1>16, <1>17, <1>18, <1>19 DEF Next, Step

-----------------------------------------------------------------------------
LEMMA InitInvariant == Init => IInv
<1> SUFFICES ASSUME Init PROVE IInv
  OBVIOUS
<1>. USE PlanAssumption DEF Init, Node, Idle
<1>1. TypeOK
  <2>1. 1 \in 1..(Length + 1) /\ 0 \in 0..MaxRuns /\ 0 \in 0..MaxEdits /\ 0 \in 0..MaxFaults
    OBVIOUS
  <2>2. standing \in [Node -> 0..MaxRuns] /\ approval \in [UseLimit -> {"none", "valid", "expired"}]
    BY <2>1
  <2>. QED
    BY <2>1, <2>2 DEF TypeOK
<1>2. Running /\ Accounted /\ Preceded
  BY DEF Running, Accounted, FailureIsUndone, Preceded, InOrder
<1>3. Standing /\ UsesCovered
  BY DEF Standing, UsesCovered, Forgotten, Workflow
<1>. QED
  BY <1>1, <1>2, <1>3 DEF IInv

(***************************************************************************)
(* execute_plan keeps its records and its memory in step, at any point an  *)
(* exception or the end of the process may strike.                         *)
(***************************************************************************)
THEOREM Invariant == Spec => []IInv
<1>1. Init => IInv
  BY InitInvariant
<1>2. IInv /\ [Next]_planVars => IInv'
  BY TypeStep, RunningStep, AccountedStep, PrecededStep, StandingStep, UsesStep DEF IInv
<1>. QED
  BY <1>1, <1>2, PTL DEF Spec

\* What an execution has completed is recorded, and what it skips was recorded
\* before it began.
THEOREM TypeCorrect == Spec => []TypeOK
<1>1. IInv => TypeOK
  BY DEF IInv
<1>. QED
  BY <1>1, Invariant, PTL

\* No node of a plan has an effect before the nodes that the plan puts first.
THEOREM OrderKept == Spec => []InOrder
<1>1. IInv => InOrder
  BY DEF IInv, Preceded
<1>. QED
  BY <1>1, Invariant, PTL

\* A failure reported as rolled back has left nothing that was recorded, except
\* what has no compensation.
THEOREM FailureReported == Spec => []FailureIsUndone
<1>1. IInv => FailureIsUndone
  BY DEF IInv, Accounted
<1>. QED
  BY <1>1, Invariant, PTL

\* ApprovalManager.validate keeps the uses of a plan within a limit it was given.
THEOREM UsesLimited == Spec => []UsesWithinLimit
<1>1. ASSUME IInv PROVE UsesWithinLimit
  <2>1. uses \in Nat /\ faults \in Nat /\ Forgotten \in 0..1 /\ UseLimit \subseteq Nat
    BY <1>1, PlanAssumption DEF IInv, TypeOK, Forgotten
  <2>2. Human => uses + Forgotten <= faults \/ Covered(uses + Forgotten)
    BY <1>1 DEF IInv, UsesCovered
  <2>3. uses + Forgotten <= faults => uses <= faults
    BY <2>1
  <2>4. ASSUME NEW limit \in UseLimit, uses + Forgotten <= limit + faults
        PROVE  uses <= limit + faults
    BY <2>1, <2>4
  <2>. QED
    BY <2>2, <2>3, <2>4 DEF UsesWithinLimit, Covered
<1>. QED
  BY <1>1, Invariant, PTL

\* The handler of an exception compensates from the last node to the first.
THEOREM ReverseOrder == Spec => UndoneInReverse
<1>. DEFINE Reversed == pc = "failing" =>
              \A n \in effects \ effects' : \A m \in effects : m > n => m \notin completed
<1>1. ASSUME IInv, [Next]_planVars PROVE Reversed
  <2>. SUFFICES ASSUME pc = "failing", effects' # effects PROVE Reversed
    OBVIOUS
  <2>1. Undo
    BY <1>1 DEF Next, Step, Idle, AtNode, Executed, Pass, Skip, Execute, ExecuteFails, VerifyFails,
       RecordFails, Record, Pause, Complete, ReportFailure, Authorize, Expire, RequestPause, Begin,
       Crash, Rebuild, Edit, planVars, store, world, execution, bounds
  <2>2. effects \ effects' \subseteq {NextToUndo}
    BY <2>1 DEF Undo
  <2>3. ToUndo \in SUBSET Node /\ ToUndo # {}
    BY <2>1, PlanAssumption DEF Undo, ToUndo
  <2>4. NextToUndo \in Node /\ \A m \in ToUndo : m <= NextToUndo
    BY <2>3, LastOf DEF NextToUndo
  <2>5. \A m \in effects : m > NextToUndo => m \notin completed
    <3>. SUFFICES ASSUME NEW m \in effects, m > NextToUndo, m \in completed PROVE FALSE
      OBVIOUS
    <3>1. m \in ToUndo
      BY <1>1 DEF IInv, TypeOK, ToUndo
    <3>2. m \in Int /\ NextToUndo \in Int
      BY <2>3, <2>4, <3>1, PlanAssumption DEF Node
    <3>. QED
      BY <2>4, <3>1, <3>2
  <2>. QED
    BY <2>2, <2>5
<1>2. IInv /\ [Next]_planVars => [Reversed]_planVars
  BY <1>1
<1>. QED
  BY <1>2, Invariant, PTL DEF Spec, UndoneInReverse
=============================================================================
