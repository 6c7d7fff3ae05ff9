------------------------ MODULE AutonomousLoopProofs ------------------------
(***************************************************************************)
(* Proofs about AutonomousLoop, for every allowance, window and budget,    *)
(* any finite evidence and collisions, and any number of turns.            *)
(***************************************************************************)
EXTENDS AutonomousLoop, FiniteSetTheorems, SequenceTheorems, TLAPS

(***************************************************************************)
(* The invariant.  A turn that is over has left nothing; a response that   *)
(* is under way has its signature and the verified state it started from.  *)
(***************************************************************************)
TurnShape ==
  /\ Idle => before = None /\ states = <<>> /\ steps = <<>> /\ visited = {} /\ active = {}
  /\ pc = "calls" =>
       /\ signature \in Step
       /\ before \in VerifiedState
       /\ before.evidence \subseteq evidence /\ before.active \subseteq active
       /\ before.collisions \subseteq collisions

\* While the loop may go on, the steps without a gain are in the streak or were
\* paid for by an interruption; the step that stops it may be one more.
IdleInStreak ==
  IF pc \in {"stop", "synthesis"}
  THEN idle <= streak + 1 + interrupts /\ idle <= MaxControlOnly + 1 + interrupts
  ELSE idle <= streak + interrupts /\ idle <= MaxControlOnly + interrupts

(***************************************************************************)
(* Evidence, collisions and what the turn has read only grow, so a state   *)
(* of the turn can come back only if it has as much of all three as there  *)
(* was before this response.  Such a state is still within the window.     *)
(***************************************************************************)
Within(v, e, c, a) == v.evidence \subseteq e /\ v.collisions \subseteq c /\ v.active \subseteq a
Level(v, e, c, a) == v.evidence = e /\ v.collisions = c /\ v.active = a
Remembered(v) == \E i \in 1..Len(states) : i >= Len(states) - spent /\ states[i] = v

PastBelow ==
  /\ visited \subseteq VerifiedState
  /\ \A v \in visited : Within(v, evidence, collisions, active)
  /\ pc = "calls" =>
       \A v \in visited : Within(v, before.evidence, before.collisions, before.active)
PastRemembered ==
  /\ pc = "request" =>
       \A v \in visited : Level(v, evidence, collisions, active) => Remembered(v)
  /\ pc = "calls" =>
       \A v \in visited :
         Level(v, before.evidence, before.collisions, before.active) => Remembered(v)

TInv == TypeOK /\ TurnShape
IInv == TInv /\ IdleInStreak
RInv == TInv /\ PastBelow /\ PastRemembered

-----------------------------------------------------------------------------
\* What the controller keeps of a sequence that grows by one element: the same
\* elements, in the same places counted from the end.
LEMMA RecentOf ==
  ASSUME NEW T, NEW seq \in Seq(T), NEW e \in T, NEW n \in Nat
  PROVE  LET all  == Append(seq, e)
             kept == Recent(all, n)
             gone == Len(all) - Len(kept)
         IN /\ kept \in Seq(T)
            /\ Len(kept) = IF Len(seq) + 1 > n THEN n ELSE Len(seq) + 1
            /\ \A i \in 1..Len(kept) : kept[i] = IF i + gone = Len(seq) + 1 THEN e ELSE seq[i + gone]
<1>. DEFINE all  == Append(seq, e)
            from == IF Len(all) > n THEN Len(all) - n ELSE 0
            kept == Recent(all, n)
<1>1. all \in Seq(T) /\ Len(seq) \in Nat /\ Len(all) = Len(seq) + 1
  OBVIOUS
<1>2. \A i \in 1..Len(all) : all[i] = IF i = Len(seq) + 1 THEN e ELSE seq[i]
  OBVIOUS
<1>3. kept = SubSeq(all, from + 1, Len(all))
  BY DEF Recent
<1>4. from = IF Len(seq) + 1 > n THEN Len(seq) + 1 - n ELSE 0
  BY <1>1
<1>. HIDE DEF all, from, kept
<1>5. from \in Nat /\ from <= Len(all)
  BY <1>1, <1>4
<1>6. \A i \in (from + 1)..Len(all) : all[i] \in T
  BY <1>1, <1>5
<1>7. /\ kept \in Seq(T)
      /\ Len(kept) = IF from + 1 <= Len(all) THEN Len(all) - (from + 1) + 1 ELSE 0
      /\ \A i \in 1..(Len(all) - (from + 1) + 1) : kept[i] = all[from + 1 + i - 1]
  <2>1. Len(all) \in Int /\ from + 1 \in Int
    BY <1>1, <1>5
  <2>. QED
    BY <1>3, <1>6, <2>1, SubSeqProperties
<1>8. Len(kept) = Len(all) - from
  BY <1>1, <1>5, <1>7
<1>9. Len(kept) = IF Len(seq) + 1 > n THEN n ELSE Len(seq) + 1
  BY <1>1, <1>4, <1>8
<1>10. ASSUME NEW i \in 1..Len(kept)
       PROVE  kept[i] = IF i + from = Len(seq) + 1 THEN e ELSE seq[i + from]
  <2>1. i \in 1..(Len(all) - (from + 1) + 1) /\ from + 1 + i - 1 = i + from
        /\ i + from \in 1..Len(all)
    BY <1>1, <1>5, <1>8
  <2>2. kept[i] = all[i + from]
    BY <1>7, <2>1
  <2>. QED
    BY <1>2, <2>1, <2>2
<1>11. from = Len(all) - Len(kept)
  BY <1>1, <1>5, <1>8
<1>. QED
  BY <1>7, <1>9, <1>10, <1>11 DEF all, kept

\* A step has no gain exactly when it added nothing of the three kinds.
LEMMA GainOf ==
  ASSUME TypeOK, TurnShape, pc = "calls"
  PROVE  /\ Gain \in Nat
         /\ Gain = 0 <=> /\ evidence \subseteq before.evidence /\ active \subseteq before.active
                         /\ collisions \subseteq before.collisions
<1>. DEFINE E == (evidence \ before.evidence) \cup (active \ before.active)
            C == collisions \ before.collisions
<1>1. E \in SUBSET Evidence /\ C \in SUBSET (Collision \cup {Stop})
  BY DEF TypeOK
<1>2. IsFiniteSet(Evidence) /\ IsFiniteSet(Collision \cup {Stop})
  BY LoopAssumption, FS_AddElement
<1>3. IsFiniteSet(E) /\ IsFiniteSet(C)
  <2>. HIDE DEF E, C
  <2>. QED
    BY <1>1, <1>2, FS_Subset
<1>4. Cardinality(E) \in Nat /\ Cardinality(C) \in Nat
  <2>. HIDE DEF E, C
  <2>. QED
    BY <1>3, FS_CardinalityType
<1>5. Cardinality(E) = 0 => E = {}
  <2>. HIDE DEF E
  <2>. QED
    BY <1>3, FS_EmptySet
<1>6. Cardinality(C) = 0 => C = {}
  <2>. HIDE DEF C
  <2>. QED
    BY <1>3, FS_EmptySet
<1>7. Gain = Cardinality(E) + Cardinality(C)
  BY DEF Gain
<1>8. Gain \in Nat /\ (Gain = 0 <=> E = {} /\ C = {})
  <2>. HIDE DEF E, C
  <2>. QED
    BY <1>4, <1>5, <1>6, <1>7, FS_EmptySet
<1>. QED
  BY <1>8

\* What the controller knows of the past after a step that was assessed.
LEMMA ControllerStep ==
  ASSUME TypeOK, TurnShape, Assess
  PROVE  /\ Projection \in VerifiedState
         /\ StreakAfter \in Nat
         /\ states' \in Seq(VerifiedState) /\ Len(states') <= Window
         /\ steps' \in Seq([signature : Step, gain : Nat]) /\ Len(steps') = Len(states')
         /\ Len(states') = IF Len(states) + 1 > Window THEN Window ELSE Len(states) + 1
         /\ \A i \in 1..Len(states') :
              states'[i] = LET j == i + (Len(states) + 1 - Len(states'))
                           IN IF j = Len(states) + 1 THEN Projection ELSE states[j]
         /\ ToSet(states') \subseteq ToSet(states) \cup {Projection}
<1>1. /\ states \in Seq(VerifiedState) /\ steps \in Seq([signature : Step, gain : Nat])
      /\ Len(steps) = Len(states) /\ Len(states) \in Nat /\ Window \in Nat
  BY LoopAssumption DEF TypeOK
<1>2. Projection \in VerifiedState
  BY DEF TypeOK, Projection, VerifiedState
<1>3. pc = "calls" /\ spent \in Nat
  BY DEF TypeOK, Assess, Idle
<1>4. ThisStep \in [signature : Step, gain : Nat]
  BY <1>3, GainOf DEF ThisStep, TurnShape
<1>5. StreakAfter \in Nat
  BY <1>3 DEF StreakAfter
<1>6. /\ states' = Recent(Append(states, Projection), Window)
      /\ steps' = Recent(Append(steps, ThisStep), Window)
  BY DEF Assess
<1>7. Len(Append(states, Projection)) = Len(states) + 1
  BY <1>1, <1>2
<1>8. /\ states' \in Seq(VerifiedState)
      /\ Len(states') = IF Len(states) + 1 > Window THEN Window ELSE Len(states) + 1
      /\ \A i \in 1..Len(states') :
           states'[i] = IF i + (Len(states) + 1 - Len(states')) = Len(states) + 1
                        THEN Projection ELSE states[i + (Len(states) + 1 - Len(states'))]
  <2>. DEFINE e    == Projection
              all  == Append(states, e)
              kept == Recent(all, Window)
              gone == Len(all) - Len(kept)
  <2>1. states \in Seq(VerifiedState) /\ e \in VerifiedState /\ Window \in Nat
    BY <1>1, <1>2
  <2>2. /\ kept \in Seq(VerifiedState)
        /\ Len(kept) = IF Len(states) + 1 > Window THEN Window ELSE Len(states) + 1
        /\ \A i \in 1..Len(kept) :
             kept[i] = IF i + gone = Len(states) + 1 THEN e ELSE states[i + gone]
    <3>. HIDE DEF e
    <3>. QED
      BY <2>1, RecentOf, ZenonT(60)
  <2>. QED
    BY <1>6, <1>7, <2>2
<1>9. /\ steps' \in Seq([signature : Step, gain : Nat])
      /\ Len(steps') = IF Len(steps) + 1 > Window THEN Window ELSE Len(steps) + 1
  <2>. DEFINE T    == [signature : Step, gain : Nat]
              kept == Recent(Append(steps, ThisStep), Window)
  <2>1. steps \in Seq(T) /\ ThisStep \in T
    BY <1>1, <1>4
  <2>2. /\ kept \in Seq(T)
        /\ Len(kept) = IF Len(steps) + 1 > Window THEN Window ELSE Len(steps) + 1
    <3>. HIDE DEF T
    <3>. QED
      BY <1>1, <2>1, RecentOf, ZenonT(60)
  <2>. QED
    BY <1>6, <2>2
<1>10. Len(states') <= Window /\ Len(steps') = Len(states')
  BY <1>1, <1>8, <1>9
<1>11. ToSet(states') \subseteq ToSet(states) \cup {Projection}
  <2>. SUFFICES ASSUME NEW i \in 1..Len(states')
                PROVE  states'[i] \in ToSet(states) \cup {Projection}
    <3>1. DOMAIN states' = 1..Len(states')
      BY <1>8
    <3>. QED
      BY <3>1 DEF ToSet
  <2>. DEFINE j == i + (Len(states) + 1 - Len(states'))
  <2>1. j \in 1..(Len(states) + 1)
    BY <1>1, <1>8
  <2>2. states'[i] = IF j = Len(states) + 1 THEN Projection ELSE states[j]
    BY <1>8
  <2>3. DOMAIN states = 1..Len(states)
    BY <1>1
  <2>. HIDE DEF j
  <2>4. j = Len(states) + 1 \/ j \in 1..Len(states)
    BY <1>1, <2>1
  <2>. QED
    BY <1>1, <2>2, <2>3, <2>4 DEF ToSet
<1>. QED
  BY <1>2, <1>5, <1>8, <1>9, <1>10, <1>11

\* Every step keeps the types, and the streak in memory the one saved.
LEMMA TypeStep == TInv /\ [Next]_loopVars => TypeOK'
<1>. SUFFICES ASSUME TInv, [Next]_loopVars PROVE TypeOK'
  OBVIOUS
<1>. USE LoopAssumption DEF TInv, TypeOK, Idle, VerifiedState, ToSet, runtime, turn,
                            controller, history, loopVars
<1>1. CASE Begin
  BY <1>1 DEF Begin, TurnShape
<1>2. CASE Answer
  BY <1>2 DEF Answer, Final, Over
<1>3. ASSUME NEW e \in Evidence, Observe(e) PROVE TypeOK'
  BY <1>3 DEF Observe, Call
<1>4. ASSUME NEW c \in Collision, Collide(c) PROVE TypeOK'
  BY <1>4 DEF Collide, Call
<1>5. ASSUME NEW C \in SUBSET Control, Organize(C) PROVE TypeOK'
  BY <1>5 DEF Organize, Call
<1>6. CASE Assess
  <2>1. /\ StreakAfter \in Nat
        /\ states' \in Seq(VerifiedState) /\ Len(states') <= Window
        /\ steps' \in Seq([signature : Step, gain : Nat]) /\ Len(steps') = Len(states')
        /\ ToSet(states') \subseteq ToSet(states) \cup {Projection}
    <3>. HIDE DEF ToSet, VerifiedState
    <3>. QED
      BY <1>6, ControllerStep
  <2>2. /\ pc = "calls" /\ pc' \in {"request", "stop"}
        /\ step' \in 0..StepBudget /\ idle' \in Nat
        /\ spent' = StreakAfter /\ streak' = StreakAfter /\ visited' = visited \cup {Projection}
        /\ UNCHANGED <<evidence, collisions, control, calls, signature, active, before,
                       attempt, interrupts, turns>>
    BY <1>6 DEF Assess
  <2>3. ToSet(states') \subseteq visited'
    BY <2>1, <2>2
  <2>. HIDE DEF ToSet, VerifiedState
  <2>. QED
    BY <2>1, <2>2, <2>3 DEF VerifiedState
<1>7. CASE StopForCycle
  BY <1>7 DEF StopForCycle
<1>8. CASE SynthesisRejected
  BY <1>8 DEF SynthesisRejected
<1>9. CASE Synthesize
  BY <1>9 DEF Synthesize, Final, Over
<1>10. ASSUME NEW c \in Collision, ContextExceeded(c) PROVE TypeOK'
  BY <1>10 DEF ContextExceeded, Final, Over
<1>11. ASSUME NEW c \in Collision, RequestFails(c) PROVE TypeOK'
  BY <1>11 DEF RequestFails, Over
<1>12. ASSUME NEW sig \in Step, Respond(sig) PROVE TypeOK'
  BY <1>12 DEF Respond, Projection
<1>13. CASE Interrupt
  BY <1>13 DEF Interrupt, Over
<1>14. CASE UNCHANGED loopVars
  BY <1>14 DEF loopVars
<1>. QED
  BY <1>1, <1>2, <1>3, <1>4, <1>5, <1>6, <1>7, <1>8, <1>9, <1>10, <1>11, <1>12, <1>13,
     <1>14 DEF Next, TurnStep, ToolStep

\* Every step keeps the shape of the turn.
LEMMA ShapeStep == TInv /\ [Next]_loopVars => TurnShape'
<1>. SUFFICES ASSUME TInv, [Next]_loopVars PROVE TurnShape'
  OBVIOUS
<1>. USE LoopAssumption DEF TInv, TypeOK, TurnShape, Idle, VerifiedState, ToSet, runtime,
                            turn, controller, history, loopVars
<1>1. CASE Begin
  BY <1>1 DEF Begin
<1>2. CASE Answer
  BY <1>2 DEF Answer, Final, Over
<1>3. ASSUME NEW e \in Evidence, Observe(e) PROVE TurnShape'
  BY <1>3 DEF Observe, Call
<1>4. ASSUME NEW c \in Collision, Collide(c) PROVE TurnShape'
  BY <1>4 DEF Collide, Call
<1>5. ASSUME NEW C \in SUBSET Control, Organize(C) PROVE TurnShape'
  BY <1>5 DEF Organize, Call
<1>6. CASE Assess
  BY <1>6 DEF Assess
<1>7. CASE StopForCycle
  BY <1>7 DEF StopForCycle
<1>8. CASE SynthesisRejected
  BY <1>8 DEF SynthesisRejected
<1>9. CASE Synthesize
  BY <1>9 DEF Synthesize, Final, Over
<1>10. ASSUME NEW c \in Collision, ContextExceeded(c) PROVE TurnShape'
  BY <1>10 DEF ContextExceeded, Final, Over
<1>11. ASSUME NEW c \in Collision, RequestFails(c) PROVE TurnShape'
  BY <1>11 DEF RequestFails, Over
<1>12. ASSUME NEW sig \in Step, Respond(sig) PROVE TurnShape'
  BY <1>12 DEF Respond, Projection
<1>13. CASE Interrupt
  BY <1>13 DEF Interrupt, Over
<1>14. CASE UNCHANGED loopVars
  BY <1>14 DEF loopVars
<1>. QED
  BY <1>1, <1>2, <1>3, <1>4, <1>5, <1>6, <1>7, <1>8, <1>9, <1>10, <1>11, <1>12, <1>13,
     <1>14 DEF Next, TurnStep, ToolStep

\* Every step that gains nothing is in the streak, ends the loop or was interrupted.
LEMMA IdleStep == IInv /\ [Next]_loopVars => IdleInStreak'
<1>. SUFFICES ASSUME IInv, [Next]_loopVars PROVE IdleInStreak'
  OBVIOUS
<1>. USE LoopAssumption DEF IInv, TInv, TypeOK, IdleInStreak, Idle, VerifiedState, ToSet,
                            runtime, turn, controller, history, loopVars
<1>1. CASE Begin
  BY <1>1 DEF Begin
<1>2. CASE Answer
  BY <1>2 DEF Answer, Final, Over
<1>3. ASSUME NEW e \in Evidence, Observe(e) PROVE IdleInStreak'
  BY <1>3 DEF Observe, Call
<1>4. ASSUME NEW c \in Collision, Collide(c) PROVE IdleInStreak'
  BY <1>4 DEF Collide, Call
<1>5. ASSUME NEW C \in SUBSET Control, Organize(C) PROVE IdleInStreak'
  BY <1>5 DEF Organize, Call
<1>6. CASE Assess
  <2>1. /\ spent = streak /\ streak \in Nat /\ idle \in Nat /\ interrupts \in Nat
        /\ idle <= streak + interrupts /\ idle <= MaxControlOnly + interrupts
    BY <1>6 DEF Assess
  <2>2. /\ streak' = StreakAfter /\ interrupts' = interrupts
        /\ idle' = IF Gain > 0 THEN 0 ELSE idle + 1
        /\ pc' = "stop" \/ (pc' = "request" /\ Accepted)
    BY <1>6 DEF Assess, Allowed
  <2>3. CASE Gain > 0
    BY <2>1, <2>2, <2>3 DEF StreakAfter
  <2>4. CASE ~(Gain > 0) /\ ControlOnly
    BY <2>1, <2>2, <2>4 DEF StreakAfter, Accepted
  <2>5. CASE ~(Gain > 0) /\ ~ControlOnly
    BY <2>1, <2>2, <2>5 DEF StreakAfter, Accepted
  <2>. QED
    BY <2>3, <2>4, <2>5
<1>7. CASE StopForCycle
  BY <1>7 DEF StopForCycle
<1>8. CASE SynthesisRejected
  BY <1>8 DEF SynthesisRejected
<1>9. CASE Synthesize
  BY <1>9 DEF Synthesize, Final, Over
<1>10. ASSUME NEW c \in Collision, ContextExceeded(c) PROVE IdleInStreak'
  BY <1>10 DEF ContextExceeded, Final, Over
<1>11. ASSUME NEW c \in Collision, RequestFails(c) PROVE IdleInStreak'
  BY <1>11 DEF RequestFails, Over
<1>12. ASSUME NEW sig \in Step, Respond(sig) PROVE IdleInStreak'
  BY <1>12 DEF Respond, Projection
<1>13. CASE Interrupt
  <2>1. idle' = idle \/ (pc = "calls" /\ idle' = idle + 1) \/ idle' = 0
    BY <1>13 DEF Interrupt
  <2>2. pc' = "idle" /\ interrupts' = interrupts + 1 /\ streak' = streak
    BY <1>13 DEF Interrupt, Over
  <2>. QED
    BY <2>1, <2>2
<1>14. CASE UNCHANGED loopVars
  BY <1>14 DEF loopVars
<1>. QED
  BY <1>1, <1>2, <1>3, <1>4, <1>5, <1>6, <1>7, <1>8, <1>9, <1>10, <1>11, <1>12, <1>13,
     <1>14 DEF Next, TurnStep, ToolStep

\* Nothing a past state of the turn has of the three is ever taken away.
LEMMA PastStep == RInv /\ [Next]_loopVars => PastBelow'
<1>. SUFFICES ASSUME RInv, [Next]_loopVars PROVE PastBelow'
  OBVIOUS
<1>. USE LoopAssumption DEF RInv, TInv, TypeOK, TurnShape, PastBelow, Within, Idle,
                            VerifiedState, ToSet, runtime, turn, controller, history,
                            loopVars
<1>1. CASE Begin
  BY <1>1 DEF Begin
<1>2. CASE Answer
  BY <1>2 DEF Answer, Final, Over
<1>3. ASSUME NEW e \in Evidence, Observe(e) PROVE PastBelow'
  BY <1>3 DEF Observe, Call
<1>4. ASSUME NEW c \in Collision, Collide(c) PROVE PastBelow'
  BY <1>4 DEF Collide, Call
<1>5. ASSUME NEW C \in SUBSET Control, Organize(C) PROVE PastBelow'
  BY <1>5 DEF Organize, Call
<1>6. CASE Assess
  <2>1. Projection \in VerifiedState /\ Within(Projection, evidence, collisions, active)
    BY DEF Projection
  <2>2. visited' = visited \cup {Projection} /\ UNCHANGED <<evidence, collisions, active>>
    BY <1>6 DEF Assess
  <2>3. pc' \in {"request", "stop"}
    BY <1>6 DEF Assess
  <2>. QED
    BY <2>1, <2>2, <2>3
<1>7. CASE StopForCycle
  BY <1>7 DEF StopForCycle
<1>8. CASE SynthesisRejected
  BY <1>8 DEF SynthesisRejected
<1>9. CASE Synthesize
  BY <1>9 DEF Synthesize, Final, Over
<1>10. ASSUME NEW c \in Collision, ContextExceeded(c) PROVE PastBelow'
  BY <1>10 DEF ContextExceeded, Final, Over
<1>11. ASSUME NEW c \in Collision, RequestFails(c) PROVE PastBelow'
  BY <1>11 DEF RequestFails, Over
<1>12. ASSUME NEW sig \in Step, Respond(sig) PROVE PastBelow'
  BY <1>12 DEF Respond, Projection
<1>13. CASE Interrupt
  BY <1>13 DEF Interrupt, Over
<1>14. CASE UNCHANGED loopVars
  BY <1>14 DEF loopVars
<1>. QED
  BY <1>1, <1>2, <1>3, <1>4, <1>5, <1>6, <1>7, <1>8, <1>9, <1>10, <1>11, <1>12, <1>13,
     <1>14 DEF Next, TurnStep, ToolStep

\* A past state with as much of all three as there is now: the response gained
\* nothing, and the state is one the controller remembers.
LEMMA LevelOf ==
  ASSUME RInv, pc = "calls", Accepted, NEW v \in visited, Level(v, evidence, collisions,
     active)
  PROVE  ControlOnly /\ Gain = 0 /\ Remembered(v)
<1>1. /\ Within(v, before.evidence, before.collisions, before.active)
      /\ before.evidence \subseteq evidence /\ before.active \subseteq active
      /\ before.collisions \subseteq collisions
  BY DEF RInv, TInv, PastBelow, TurnShape
<1>2. /\ evidence = before.evidence /\ active = before.active /\ collisions = before.collisions
  BY <1>1 DEF Within, Level
<1>3. Gain = 0
  BY <1>2, GainOf DEF RInv, TInv
<1>4. Remembered(v)
  BY <1>2 DEF RInv, PastRemembered, Level
<1>. QED
  BY <1>3, <1>4 DEF Accepted

\* The last of the past states kept, and where a state that was within the window
\* is after one more step of the streak.
LEMMA PlaceOfLast ==
  ASSUME NEW L \in Nat, NEW N \in Nat, NEW W \in Nat \ {0}, NEW s \in Nat,
         N = IF L + 1 > W THEN W ELSE L + 1
  PROVE  N \in 1..N /\ N + (L + 1 - N) = L + 1 /\ N >= N - s
OBVIOUS

LEMMA PlaceOfKept ==
  ASSUME NEW L \in Nat, NEW N \in Nat, NEW W \in Nat \ {0}, NEW s \in Nat, NEW M \in Nat,
         N = IF L + 1 > W THEN W ELSE L + 1, M < W, s + 1 <= M,
         NEW i \in 1..L, i >= L - s
  PROVE  LET k == i - (L + 1 - N)
         IN k \in 1..N /\ k >= N - (s + 1) /\ k + (L + 1 - N) = i /\ i # L + 1
<1>1. CASE L + 1 > W
  BY <1>1
<1>2. CASE ~(L + 1 > W)
  BY <1>2
<1>. QED
  BY <1>1, <1>2

\* An assessed step either moves the states of its level nearer to the edge of the
\* window, as far as the allowance goes, or leaves none of its level but its own.
LEMMA MemoryAssess ==
  ASSUME MaxControlOnly < Window, RInv, Assess
  PROVE  PastRemembered'
<1>1. /\ pc = "calls" /\ spent' = StreakAfter /\ visited' = visited \cup {Projection}
      /\ UNCHANGED <<evidence, collisions, active>> /\ pc' # "calls"
      /\ pc' = "request" => Accepted
  BY DEF Assess, Allowed
<1>. SUFFICES ASSUME pc' = "request", NEW v \in visited',
                     Level(v, evidence, collisions, active)
              PROVE  Remembered(v)'
  BY <1>1 DEF PastRemembered
<1>. DEFINE gone == Len(states) + 1 - Len(states')
<1>2. /\ Len(states) \in Nat /\ Len(states') \in Nat /\ spent \in Nat /\ spent' \in Nat
      /\ Len(states') = IF Len(states) + 1 > Window THEN Window ELSE Len(states) + 1
      /\ Window \in Nat \ {0} /\ MaxControlOnly \in Nat /\ MaxControlOnly < Window
  <2>1. states' \in Seq(VerifiedState) /\ StreakAfter \in Nat
        /\ Len(states') = IF Len(states) + 1 > Window THEN Window ELSE Len(states) + 1
    BY ControllerStep DEF RInv, TInv
  <2>2. spent \in Nat /\ states \in Seq(VerifiedState)
    BY <1>1 DEF RInv, TInv, TypeOK, Idle
  <2>. QED
    BY <1>1, <2>1, <2>2, LoopAssumption
<1>3. \A i \in 1..Len(states') :
        states'[i] = IF i + gone = Len(states) + 1 THEN Projection ELSE states[i + gone]
  BY ControllerStep DEF RInv, TInv
<1>4. CASE v = Projection
  <2>1. Len(states') \in 1..Len(states') /\ Len(states') + gone = Len(states) + 1
        /\ Len(states') >= Len(states') - spent'
    BY <1>2, PlaceOfLast
  <2>2. states'[Len(states')] = v
    BY <1>3, <1>4, <2>1
  <2>. QED
    BY <2>1, <2>2 DEF Remembered
<1>5. CASE v \in visited
  <2>1. /\ ControlOnly /\ Gain = 0 /\ Remembered(v)
    BY <1>1, <1>5, LevelOf
  <2>2. spent' = spent + 1 /\ spent + 1 <= MaxControlOnly
    BY <1>1, <2>1 DEF StreakAfter, Accepted
  <2>3. PICK i \in 1..Len(states) : i >= Len(states) - spent /\ states[i] = v
    BY <2>1 DEF Remembered
  <2>. DEFINE k == i - gone
  <2>4. /\ k \in 1..Len(states') /\ k >= Len(states') - spent'
        /\ k + gone = i /\ i # Len(states) + 1
    <3>. DEFINE P(L, N, W, s, M) ==
           LET j == i - (L + 1 - N)
           IN j \in 1..N /\ j >= N - (s + 1) /\ j + (L + 1 - N) = i /\ i # L + 1
    <3>1. \A L, N, s, M \in Nat, W \in Nat \ {0} :
            (/\ N = IF L + 1 > W THEN W ELSE L + 1
             /\ M < W /\ s + 1 <= M /\ i \in 1..L /\ i >= L - s) => P(L, N, W, s, M)
      BY PlaceOfKept
    <3>. HIDE DEF P
    <3>2. P(Len(states), Len(states'), Window, spent, MaxControlOnly)
      BY <1>2, <2>2, <2>3, <3>1
    <3>. QED
      BY <2>2, <3>2 DEF P
  <2>5. states'[k] = v
    BY <1>3, <2>3, <2>4
  <2>. QED
    BY <2>4, <2>5 DEF Remembered
<1>. QED
  BY <1>1, <1>4, <1>5

\* A past state of the present level stays within the window.
LEMMA MemoryStep == MaxControlOnly < Window /\ RInv /\ [Next]_loopVars => PastRemembered'
<1>. SUFFICES ASSUME MaxControlOnly < Window /\ RInv, [Next]_loopVars PROVE PastRemembered'
  OBVIOUS
<1>. USE DEF RInv, TInv, TypeOK, TurnShape, PastBelow, PastRemembered, Remembered, Level,
             Within, Idle, VerifiedState, ToSet, runtime, turn, controller, history, loopVars
<1>1. CASE Begin
  BY <1>1 DEF Begin
<1>2. CASE Answer
  BY <1>2 DEF Answer, Final, Over
<1>3. ASSUME NEW e \in Evidence, Observe(e) PROVE PastRemembered'
  BY <1>3 DEF Observe, Call
<1>4. ASSUME NEW c \in Collision, Collide(c) PROVE PastRemembered'
  BY <1>4 DEF Collide, Call
<1>5. ASSUME NEW C \in SUBSET Control, Organize(C) PROVE PastRemembered'
  BY <1>5 DEF Organize, Call
<1>6. CASE Assess
  BY <1>6, MemoryAssess
<1>7. CASE StopForCycle
  BY <1>7 DEF StopForCycle
<1>8. CASE SynthesisRejected
  BY <1>8 DEF SynthesisRejected
<1>9. CASE Synthesize
  BY <1>9 DEF Synthesize, Final, Over
<1>10. ASSUME NEW c \in Collision, ContextExceeded(c) PROVE PastRemembered'
  BY <1>10 DEF ContextExceeded, Final, Over
<1>11. ASSUME NEW c \in Collision, RequestFails(c) PROVE PastRemembered'
  BY <1>11 DEF RequestFails, Over
<1>12. ASSUME NEW sig \in Step, Respond(sig) PROVE PastRemembered'
  BY <1>12 DEF Respond, Projection
<1>13. CASE Interrupt
  BY <1>13 DEF Interrupt, Over
<1>14. CASE UNCHANGED loopVars
  BY <1>14
<1>. QED
  BY <1>1, <1>2, <1>3, <1>4, <1>5, <1>6, <1>7, <1>8, <1>9, <1>10, <1>11, <1>12, <1>13,
     <1>14 DEF Next, TurnStep, ToolStep

\* The invariants hold in the initial state.
LEMMA InitInvariant == Init => IInv /\ RInv
<1>. SUFFICES ASSUME Init PROVE IInv /\ RInv
  OBVIOUS
<1>1. TInv
  BY LoopAssumption DEF Init, TInv, TypeOK, TurnShape, Idle, ToSet, VerifiedState
<1>. QED
  BY <1>1, LoopAssumption DEF Init, IInv, RInv, IdleInStreak, PastBelow, PastRemembered

\* Types, and what a turn keeps: the streak of the controller is the one that was
\* saved, through every call, failure and interruption.
THEOREM TypeCorrect == Spec => []TypeOK
<1>1. Init => TInv
  BY InitInvariant DEF IInv
<1>2. TInv /\ [Next]_loopVars => TInv'
  BY TypeStep, ShapeStep DEF TInv
<1>3. TInv => TypeOK
  BY DEF TInv
<1>. QED
  BY <1>1, <1>2, <1>3, PTL DEF Spec

\* The allowance for steps that gain nothing holds over turns and restarts: only an
\* interruption adds to it.
THEOREM IdleBounded == Spec => []IdleStepsBounded
<1>1. Init => IInv
  BY InitInvariant
<1>2. IInv /\ [Next]_loopVars => IInv'
  BY TypeStep, ShapeStep, IdleStep DEF IInv, TInv
<1>3. IInv => IdleStepsBounded
  <2>. SUFFICES ASSUME IInv PROVE IdleStepsBounded
    OBVIOUS
  <2>1. idle \in Nat /\ interrupts \in Nat
    BY DEF IInv, TInv, TypeOK
  <2>2. idle <= MaxControlOnly + 1 + interrupts \/ idle <= MaxControlOnly + interrupts
    BY DEF IInv, IdleInStreak
  <2>3. MaxControlOnly \in Nat
    BY LoopAssumption
  <2>. QED
    BY <2>1, <2>2, <2>3 DEF IdleStepsBounded
<1>. QED
  BY <1>1, <1>2, <1>3, PTL DEF Spec

\* A turn does not go on from a verified state it was in before, as long as the
\* allowance is smaller than the window of states that are looked at.
THEOREM NeverReturns ==
  ASSUME MaxControlOnly < Window
  PROVE  Spec => NoReturn
<1>. DEFINE Onward == pc = "calls" /\ pc' = "request" => Projection \notin visited
<1>1. Init => RInv
  BY InitInvariant
<1>2. RInv /\ [Next]_loopVars => RInv'
  BY TypeStep, ShapeStep, PastStep, MemoryStep DEF RInv, TInv
<1>3. RInv /\ [Next]_loopVars => [Onward]_loopVars
  <2>. SUFFICES ASSUME RInv, Next, pc = "calls", pc' = "request", Projection \in visited
                PROVE  FALSE
    OBVIOUS
  <2>1. Assess
    <3>1. ~Begin /\ ~Interrupt
      BY DEF Begin, Interrupt, Over, Idle
    <3>2. ~ToolStep
      BY DEF ToolStep, Observe, Collide, Organize, Call
    <3>3. /\ ~Answer /\ ~StopForCycle /\ ~SynthesisRejected /\ ~Synthesize
          /\ \A c \in Collision : ~ContextExceeded(c) /\ ~RequestFails(c)
          /\ \A sig \in Step : ~Respond(sig)
      BY DEF Answer, StopForCycle, SynthesisRejected, Synthesize, ContextExceeded,
         RequestFails,
             Respond
    <3>. QED
      BY <3>1, <3>2, <3>3 DEF Next, TurnStep
  <2>2. Allowed
    BY <2>1 DEF Assess
  <2>3. Level(Projection, evidence, collisions, active) /\ Projection.control = control
    BY DEF Level, Projection
  <2>4. ControlOnly /\ Remembered(Projection)
    BY <2>2, <2>3, LevelOf DEF Allowed
  <2>5. Projection # before
    BY <2>3, <2>4 DEF ControlOnly
  <2>6. Projection \in ToSet(states)
    <3>1. DOMAIN states = 1..Len(states)
      BY DEF RInv, TInv, TypeOK
    <3>. QED
      BY <2>4, <3>1 DEF Remembered, ToSet
  <2>. QED
    BY <2>2, <2>5, <2>6 DEF Allowed, Returns
<1>. QED
  BY <1>1, <1>2, <1>3, PTL DEF Spec, NoReturn
=============================================================================
