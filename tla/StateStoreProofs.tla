--------------------------- MODULE StateStoreProofs ---------------------------
(***************************************************************************)
(* What StateStore guarantees for any number of processes, states, events  *)
(* and failures: the chain, the state a restart returns, the projection,   *)
(* and that it implements DurableState.                                    *)
(***************************************************************************)
EXTENDS StateStore, SequenceTheorems, WellFoundedInduction, TLAPS

(***************************************************************************)
(* A nonempty set of line numbers has a last one: the distances to the end *)
(* have a least one.                                                       *)
(***************************************************************************)
LEMMA LastExists ==
  ASSUME NEW n \in Nat, NEW S \in SUBSET (1..n), S # {}
  PROVE  \E i \in S : \A j \in S : j <= i
<1>. DEFINE T == {n - i : i \in S}
<1>1. T \subseteq Nat /\ T # {}
  <2>1. \A i \in S : n - i \in Nat
    OBVIOUS
  <2>2. PICK i \in S : TRUE
    OBVIOUS
  <2>3. n - i \in T
    OBVIOUS
  <2>. QED
    BY <2>1, <2>3
<1>2. PICK x \in T : \A y \in T : ~(<<y, x>> \in OpToRel(<, Nat))
  BY <1>1, NatLessThanWellFounded, WFMin
<1>3. \A y \in T : x <= y
  <2> SUFFICES ASSUME NEW y \in T PROVE x <= y
    OBVIOUS
  <2>1. x \in Nat /\ y \in Nat
    BY <1>1
  <2>2. y < x => <<y, x>> \in OpToRel(<, Nat)
    <3>1. <<y, x>> \in Nat \X Nat
      BY <2>1
    <3>2. <<y, x>>[1] = y /\ <<y, x>>[2] = x
      OBVIOUS
    <3>. QED
      BY <3>1, <3>2, Zenon DEF OpToRel
  <2>3. ~(y < x)
    BY <1>2, <2>2, Zenon
  <2>. QED
    BY <2>1, <2>3
<1>4. PICK i \in S : x = n - i
  OBVIOUS
<1>5. \A j \in S : j <= i
  <2> SUFFICES ASSUME NEW j \in S PROVE j <= i
    OBVIOUS
  <2>1. n - i <= n - j
    BY <1>3, <1>4
  <2>. QED
    BY <2>1
<1>. QED
  BY <1>5

LEMMA LastSnapshotType ==
  ASSUME NEW lines \in Seq(Line), Snapshots(lines) # {}
  PROVE  /\ LastSnapshot(lines) \in Snapshots(lines)
         /\ LastSnapshot(lines) \in 1..Len(lines)
         /\ \A j \in Snapshots(lines) : j <= LastSnapshot(lines)
         /\ lines[LastSnapshot(lines)].state \in State
<1>1. Len(lines) \in Nat /\ Snapshots(lines) \in SUBSET (1..Len(lines))
  BY DEF Snapshots
<1>2. \E i \in Snapshots(lines) : \A j \in Snapshots(lines) : j <= i
  BY <1>1, LastExists
<1>3. /\ LastSnapshot(lines) \in Snapshots(lines)
      /\ \A j \in Snapshots(lines) : j <= LastSnapshot(lines)
  BY <1>2 DEF LastSnapshot
<1>4. lines[LastSnapshot(lines)] \in Line
  BY <1>1, <1>3, ElementOfSeq
<1>. QED
  BY <1>1, <1>3, <1>4 DEF Snapshots, Line

LEMMA LoadedType ==
  ASSUME log \in Seq(Line), projection \in State \cup {None}
  PROVE  Loaded \in State
BY LastSnapshotType, StateAssumption DEF Loaded, CurrentState

\* Migrations lead to the current schema, and redaction is what a state shows.
LEMMA ViewFacts ==
  ASSUME NEW s \in State
  PROVE  /\ Migrated(s) \in CurrentState
         /\ View(s) \in State
         /\ View(Migrated(s)) = View(s)
         /\ View(Redact[s]) = View(s)
<1>1. Migrated(s) \in CurrentState /\ Migrated(s) \in State
  BY MigrateAssumption, StateAssumption DEF Migrated, CurrentState
<1>2. Redact[s] \in State /\ Redact[Migrated(s)] \in State
  BY <1>1, RedactAssumption
<1>3. View(Migrated(s)) = View(s)
  BY <1>1 DEF View, Migrated, CurrentState
<1>4. View(Redact[s]) = View(s)
  <2>1. CASE s \in OldState
    BY <2>1, <1>2, RedactAssumption, MigrateAssumption DEF View, Migrated
  <2>2. CASE s \notin OldState
    BY <2>2, <1>2, RedactAssumption DEF View, Migrated
  <2>. QED
    BY <2>1, <2>2
<1>. QED
  BY <1>1, <1>2, <1>3, <1>4 DEF View

(***************************************************************************)
(* A line either becomes the last one of a file whose lines are all ended, *)
(* or spoils the unfinished one it is added to.                            *)
(***************************************************************************)
LEMMA AddedLine ==
  ASSUME log \in Seq(Line), NEW line \in Line
  PROVE  /\ AddLine(line) \in Seq(Line)
         /\ Readable(AddLine(line)) => AddLine(line) = Append(log, line) /\ Readable(log)
<1>1. CASE log = <<>> \/ log[Len(log)].ended
  <2>1. AddLine(line) = Append(log, line)
    BY <1>1 DEF AddLine
  <2>2. /\ Append(log, line) \in Seq(Line)
        /\ Len(Append(log, line)) = Len(log) + 1
        /\ \A i \in 1..Len(log) : Append(log, line)[i] = log[i]
        /\ Len(log) \in Nat
    OBVIOUS
  <2>3. Readable(Append(log, line)) => Readable(log)
    BY <2>2 DEF Readable
  <2>. QED
    BY <2>1, <2>2, <2>3
<1>2. CASE ~(log = <<>> \/ log[Len(log)].ended)
  <2>. DEFINE last == Len(log)
              spoilt == [log[last] EXCEPT !.whole = FALSE, !.ended = line.ended]
  <2>1. last \in 1..Len(log) /\ log[last] \in Line
    <3>1. Len(log) \in Nat \ {0}
      BY <1>2, EmptySeq
    <3>. QED
      BY <3>1, ElementOfSeq
  <2>2. spoilt \in Line /\ spoilt.whole = FALSE
    BY <2>1 DEF Line
  <2>3. AddLine(line) = [log EXCEPT ![last] = spoilt]
    BY <1>2 DEF AddLine
  <2>4. /\ [log EXCEPT ![last] = spoilt] \in Seq(Line)
        /\ Len([log EXCEPT ![last] = spoilt]) = last
        /\ [log EXCEPT ![last] = spoilt][last] = spoilt
    <3> HIDE DEF spoilt
    <3>. QED
      BY <2>1, <2>2, ExceptSeq
  <2>5. ~Readable(AddLine(line))
    BY <2>1, <2>2, <2>3, <2>4 DEF Readable
  <2>. QED
    BY <2>3, <2>4, <2>5
<1>. QED
  BY <1>1, <1>2

\* The last snapshot of a log with one more event.
LEMMA SnapshotsOfAppend ==
  ASSUME NEW lines \in Seq(Line), NEW line \in Line
  PROVE  /\ line.state = None =>
              /\ Snapshots(Append(lines, line)) = Snapshots(lines)
              /\ LastSnapshot(Append(lines, line)) = LastSnapshot(lines)
              /\ Snapshots(lines) # {} =>
                   Append(lines, line)[LastSnapshot(lines)] = lines[LastSnapshot(lines)]
         /\ line.state # None =>
              /\ LastSnapshot(Append(lines, line)) \in Snapshots(Append(lines, line))
              /\ Append(lines, line)[LastSnapshot(Append(lines, line))] = line
         /\ \A i \in Snapshots(lines) :
              /\ i \in Snapshots(Append(lines, line))
              /\ Append(lines, line)[i] = lines[i]
<1>. DEFINE longer == Append(lines, line)
<1>1. /\ longer \in Seq(Line)
      /\ Len(longer) = Len(lines) + 1
      /\ \A i \in 1..Len(lines) : longer[i] = lines[i]
      /\ longer[Len(lines) + 1] = line
      /\ Len(lines) \in Nat
  OBVIOUS
<1>2. \A i \in Snapshots(lines) : i \in Snapshots(longer) /\ longer[i] = lines[i]
  BY <1>1 DEF Snapshots
<1>3. ASSUME line.state = None
      PROVE  /\ Snapshots(longer) = Snapshots(lines)
             /\ LastSnapshot(longer) = LastSnapshot(lines)
             /\ Snapshots(lines) # {} =>
                  longer[LastSnapshot(lines)] = lines[LastSnapshot(lines)]
  <2>1. Snapshots(longer) = Snapshots(lines)
    BY <1>1, <1>3 DEF Snapshots
  <2>2. LastSnapshot(longer) = LastSnapshot(lines)
    BY <2>1 DEF LastSnapshot
  <2>. QED
    BY <1>2, <2>1, <2>2, LastSnapshotType
<1>4. ASSUME line.state # None
      PROVE  /\ LastSnapshot(longer) \in Snapshots(longer)
             /\ longer[LastSnapshot(longer)] = line
  <2>1. Len(lines) + 1 \in Snapshots(longer)
    BY <1>1, <1>4 DEF Snapshots
  <2>2. /\ LastSnapshot(longer) \in Snapshots(longer)
        /\ LastSnapshot(longer) \in 1..Len(longer)
        /\ Len(lines) + 1 <= LastSnapshot(longer)
    BY <1>1, <2>1, LastSnapshotType
  <2>3. LastSnapshot(longer) = Len(lines) + 1
    BY <1>1, <2>2
  <2>. QED
    BY <1>1, <2>2, <2>3
<1>. QED
  BY <1>2, <1>3, <1>4

\* The event an append writes, whole or not, is a line.
LEMMA NextEventType ==
  ASSUME TypeOK, NEW p \in Proc, phase[p] = "append", minted < MaxEvents
  PROVE  /\ NextEvent(p) \in Line
         /\ [NextEvent(p) EXCEPT !.ended = FALSE] \in Line
         /\ [NextEvent(p) EXCEPT !.whole = FALSE, !.ended = FALSE] \in Line
<1>1. memory[p] \in State
  BY DEF TypeOK, CurrentState
<1>2. NextEvent(p).state \in State \cup {None}
  BY <1>1, RedactAssumption DEF NextEvent
<1>3. NextEvent(p) \in Line
  BY <1>2, BoundAssumption DEF TypeOK, NextEvent, Line
<1>. QED
  BY <1>3 DEF Line

LEMMA LastIdType ==
  ASSUME log \in Seq(Line)
  PROVE  LastId(log) \in 0..MaxEvents
<1>1. CASE log = <<>>
  BY <1>1, BoundAssumption DEF LastId
<1>2. CASE log # <<>>
  <2>1. Len(log) \in 1..Len(log)
    BY <1>2, EmptySeq
  <2>2. log[Len(log)] \in Line
    BY <2>1, ElementOfSeq
  <2>. QED
    BY <1>2, <2>2, BoundAssumption DEF LastId, Line
<1>. QED
  BY <1>1, <1>2

-----------------------------------------------------------------------------
(***************************************************************************)
(* TypeOK is inductive: one step for each action.                          *)
(***************************************************************************)
LEMMA GoDownType ==
  ASSUME TypeOK, NEW p \in Proc, GoDown(p)
  PROVE  /\ owner' \in Proc \cup {None}
         /\ head' \in [Proc -> 0..MaxEvents]
         /\ memory' \in [Proc -> State \cup {None}]
         /\ phase' \in [Proc -> Phase]
         /\ purpose' \in [Proc -> Purpose]
         /\ \A q \in Proc : phase'[q] \notin {"down", "opening"} => memory'[q] \in CurrentState
BY BoundAssumption DEF TypeOK, GoDown, Goto, Phase, Purpose

LEMMA RaiseType ==
  ASSUME TypeOK, NEW p \in Proc, phase[p] \in {"append", "sync", "broken", "project"}, Raise(p)
  PROVE  /\ owner' \in Proc \cup {None}
         /\ head' \in [Proc -> 0..MaxEvents]
         /\ memory' \in [Proc -> State \cup {None}]
         /\ phase' \in [Proc -> Phase]
         /\ purpose' \in [Proc -> Purpose]
         /\ \A q \in Proc : phase'[q] \notin {"down", "opening"} => memory'[q] \in CurrentState
<1>1. CASE purpose[p] = "migrate"
  BY <1>1, GoDownType DEF Raise
<1>2. CASE purpose[p] # "migrate"
  BY <1>2 DEF TypeOK, Raise, Goto, Phase
<1>. QED
  BY <1>1, <1>2

LEMMA FaultType ==
  ASSUME TypeOK, NEW point, Fault(point)
  PROVE  faults' \in 0..MaxFaults
BY BoundAssumption DEF TypeOK, Fault

LEMMA TypeStep == TypeOK /\ [Next]_storeVars => TypeOK'
<1> SUFFICES ASSUME TypeOK, [Next]_storeVars PROVE TypeOK'
  OBVIOUS
<1>1. CASE Corrupt
  BY <1>1, FaultType DEF TypeOK, Corrupt
<1>2. ASSUME NEW p \in Proc, Step(p) PROVE TypeOK'
  <2>1. CASE Acquire(p)
    BY <2>1 DEF TypeOK, Acquire, Goto, Phase
  <2>2. CASE Open(p)
    <3>1. Loaded \in State /\ Migrated(Loaded) \in CurrentState
      BY LoadedType, ViewFacts DEF TypeOK
    <3>2. LastId(log) \in 0..MaxEvents
      BY LastIdType DEF TypeOK
    <3>. QED
      BY <2>2, <3>1, <3>2, StateAssumption DEF TypeOK, Open, Goto, Phase, Purpose, CurrentState
  <2>3. CASE RefuseOpen(p)
    BY <2>3, GoDownType DEF TypeOK, RefuseOpen
  <2>4. ASSUME NEW s \in CurrentState, Change(p, s) PROVE TypeOK'
    BY <2>4 DEF TypeOK, Change, CurrentState
  <2>5. CASE StartSave(p)
    <3>1. View(memory[p]) \in State
      BY <2>5, ViewFacts DEF TypeOK, StartSave, CurrentState
    <3>. QED
      BY <2>5, <3>1 DEF TypeOK, StartSave, Goto, Phase, Purpose
  <2>6. CASE StartTrace(p)
    BY <2>6 DEF TypeOK, StartTrace, Goto, Phase, Purpose
  <2>7. CASE WriteEvent(p)
    <3>1. log' \in Seq(Line)
      BY <2>7, NextEventType, AddedLine DEF TypeOK, WriteEvent
    <3>. QED
      BY <2>7, <3>1, BoundAssumption DEF TypeOK, WriteEvent, Goto, Phase
  <2>8. CASE WritePart(p)
    <3>1. log' \in Seq(Line)
      BY <2>8, NextEventType, AddedLine DEF TypeOK, WritePart
    <3>2. faults' \in 0..MaxFaults
      BY <2>8, FaultType DEF WritePart
    <3>3. /\ minted < MaxEvents /\ minted' = minted + 1
          /\ phase[p] = "append" /\ phase' = [phase EXCEPT ![p] = "broken"]
          /\ cleanCut' = FALSE
          /\ UNCHANGED <<projection, owner, head, memory, purpose, acceptable>>
      BY <2>8 DEF WritePart, Goto
    <3>4. minted' \in 0..MaxEvents
      BY <3>3, BoundAssumption DEF TypeOK
    <3>5. /\ phase' \in [Proc -> Phase]
          /\ \A q \in Proc : phase'[q] \notin {"down", "opening"} => memory'[q] \in CurrentState
      BY <3>3 DEF TypeOK, Phase
    <3>. QED
      BY <3>1, <3>2, <3>3, <3>4, <3>5 DEF TypeOK
  <2>9. CASE SyncEvent(p)
    BY <2>9 DEF TypeOK, SyncEvent, Goto, Phase
  <2>10. CASE SyncFault(p)
    BY <2>10, RaiseType, FaultType DEF TypeOK, SyncFault
  <2>11. CASE RaiseBroken(p)
    BY <2>11, RaiseType DEF TypeOK, RaiseBroken
  <2>12. CASE Project(p)
    <3>1. memory[p] \in State /\ View(memory[p]) \in State
      BY <2>12, ViewFacts DEF TypeOK, Project, CurrentState
    <3>. QED
      BY <2>12, <3>1 DEF TypeOK, Project, Goto, Phase
  <2>13. CASE ProjectFault(p)
    BY <2>13, RaiseType, FaultType DEF TypeOK, ProjectFault
  <2>14. CASE Stop(p)
    BY <2>14, GoDownType DEF TypeOK, Stop
  <2>. QED
    BY <1>2, <2>1, <2>2, <2>3, <2>4, <2>5, <2>6, <2>7, <2>8, <2>9, <2>10, <2>11,
       <2>12, <2>13, <2>14
    DEF Step
<1>3. CASE UNCHANGED storeVars
  BY <1>3 DEF TypeOK, storeVars
<1>. QED
  BY <1>1, <1>2, <1>3 DEF Next

(***************************************************************************)
(* Every reachable state has its type; in particular a process that runs   *)
(* holds a state of the current schema, never one it has not migrated.     *)
(***************************************************************************)
THEOREM TypeCorrect == Spec => []TypeOK
<1>1. Init => TypeOK
  <2> SUFFICES ASSUME Init PROVE TypeOK
    OBVIOUS
  <2>1. log \in Seq(Line) /\ projection \in State \cup {None}
    BY StateAssumption DEF Init
  <2>2. Loaded \in State /\ View(Loaded) \in State
    BY <2>1, LoadedType, ViewFacts
  <2>. QED
    BY <2>1, <2>2, BoundAssumption DEF Init, TypeOK, Phase, Purpose
<1>. QED
  BY <1>1, TypeStep, PTL DEF Spec

-----------------------------------------------------------------------------
(***************************************************************************)
(* The inductive invariant.  OneWriter: the lock tells the process that    *)
(* runs, the only one with a state.  CleanChain: while no append has been  *)
(* left half done the file ends with the event the process knows of.       *)
(* Restorable: what a restart would load is acceptable, and so is what is  *)
(* about to be appended; once appended it is the last snapshot.            *)
(***************************************************************************)
OneWriter ==
  \A p \in Proc : /\ phase[p] # "down" <=> owner = p
                  /\ memory[p] = None <=> phase[p] \in {"down", "opening"}

CleanChain ==
  cleanCut =>
    /\ Readable(log)
    /\ log # <<>> => log[Len(log)].ended
    /\ \A p \in Proc :
         /\ phase[p] # "broken"
         /\ phase[p] \in {"idle", "append", "project"} => head[p] = LastId(log)
         /\ phase[p] = "sync" => LastId(log) = minted

Restorable ==
  /\ Readable(log) => View(Loaded) \in acceptable
  /\ \A p \in Proc :
       /\ phase[p] = "project" => purpose[p] # "trace"
       /\ phase[p] \in {"append", "sync", "project"} /\ purpose[p] # "trace" =>
            View(memory[p]) \in acceptable
       /\ phase[p] \in {"sync", "project"} /\ purpose[p] # "trace" /\ Readable(log) =>
            /\ Snapshots(log) # {}
            /\ log[LastSnapshot(log)].state = Redact[memory[p]]

LEMMA OneWriterStep == TypeOK /\ OneWriter /\ [Next]_storeVars => OneWriter'
<1> SUFFICES ASSUME TypeOK, OneWriter, [Next]_storeVars PROVE OneWriter'
  OBVIOUS
<1>1. CASE Corrupt
  BY <1>1 DEF OneWriter, Corrupt
<1>2. ASSUME NEW p \in Proc, Step(p) PROVE OneWriter'
  <2>a. phase[p] # "down" => \A q \in Proc : q # p => phase[q] = "down"
    BY DEF OneWriter
  <2>b. ASSUME GoDown(p), phase[p] # "down" PROVE OneWriter'
    BY <2>a, <2>b, StateAssumption DEF OneWriter, TypeOK, GoDown, Goto
  <2>c. ASSUME Raise(p), phase[p] \in {"sync", "broken", "project"} PROVE OneWriter'
    BY <2>b, <2>c DEF OneWriter, TypeOK, Raise, Goto
  <2>1. CASE Acquire(p)
    BY <2>1, StateAssumption DEF OneWriter, TypeOK, Acquire, Goto
  <2>2. CASE Open(p)
    <3>1. Migrated(Loaded) # None
      BY LoadedType, ViewFacts, StateAssumption DEF TypeOK, CurrentState
    <3>. QED
      BY <2>2, <3>1 DEF OneWriter, TypeOK, Open, Goto
  <2>3. CASE RefuseOpen(p)
    BY <2>3, <2>b DEF RefuseOpen
  <2>4. ASSUME NEW s \in CurrentState, Change(p, s) PROVE OneWriter'
    BY <2>4, StateAssumption DEF OneWriter, TypeOK, Change, CurrentState
  <2>5. CASE StartSave(p)
    BY <2>5 DEF OneWriter, TypeOK, StartSave, Goto
  <2>6. CASE StartTrace(p)
    BY <2>6 DEF OneWriter, TypeOK, StartTrace, Goto
  <2>7. CASE WriteEvent(p)
    BY <2>7 DEF OneWriter, TypeOK, WriteEvent, Goto
  <2>8. CASE WritePart(p)
    <3>1. /\ phase[p] = "append" /\ phase' = [phase EXCEPT ![p] = "broken"]
          /\ UNCHANGED <<owner, memory>>
      BY <2>8 DEF WritePart, Goto
    <3>. QED
      BY <3>1 DEF OneWriter, TypeOK
  <2>9. CASE SyncEvent(p)
    BY <2>9 DEF OneWriter, TypeOK, SyncEvent, Goto
  <2>10. CASE SyncFault(p)
    BY <2>10, <2>c DEF SyncFault
  <2>11. CASE RaiseBroken(p)
    BY <2>11, <2>c DEF RaiseBroken
  <2>12. CASE Project(p)
    BY <2>12 DEF OneWriter, TypeOK, Project, Goto
  <2>13. CASE ProjectFault(p)
    BY <2>13, <2>c DEF ProjectFault
  <2>14. CASE Stop(p)
    BY <2>14, <2>b DEF Stop
  <2>. QED
    BY <1>2, <2>1, <2>2, <2>3, <2>4, <2>5, <2>6, <2>7, <2>8, <2>9, <2>10, <2>11,
       <2>12, <2>13, <2>14
    DEF Step
<1>3. CASE UNCHANGED storeVars
  BY <1>3 DEF OneWriter, storeVars
<1>. QED
  BY <1>1, <1>2, <1>3 DEF Next

LEMMA OneWriterCorrect == Spec => []OneWriter
<1>1. Init => OneWriter
  BY StateAssumption DEF Init, OneWriter
<1>. QED
  BY <1>1, TypeCorrect, OneWriterStep, PTL DEF Spec

-----------------------------------------------------------------------------
(***************************************************************************)
(* The chain.                                                              *)
(***************************************************************************)
\* Steps that leave the log as it is: only the phases can disturb the chain.
LEMMA CleanFrame ==
  ASSUME TypeOK, OneWriter, CleanChain, NEW p \in Proc, phase[p] # "down", log' = log,
         phase' \in [Proc -> Phase],
         \A q \in Proc : q # p => phase'[q] = phase[q],
         cleanCut' => /\ cleanCut
                      /\ phase'[p] # "broken"
                      /\ phase'[p] \in {"idle", "append", "project"} => head'[p] = LastId(log)
                      /\ phase'[p] = "sync" => LastId(log) = minted'
  PROVE  CleanChain'
<1>1. \A q \in Proc : q # p => phase'[q] = "down"
  BY DEF OneWriter
<1>. QED
  BY <1>1 DEF CleanChain, Readable, LastId

LEMMA CleanStep == TypeOK /\ OneWriter /\ CleanChain /\ [Next]_storeVars => CleanChain'
<1> SUFFICES ASSUME TypeOK, OneWriter, CleanChain, [Next]_storeVars PROVE CleanChain'
  OBVIOUS
<1>1. CASE Corrupt
  BY <1>1 DEF CleanChain, Corrupt, Readable, LastId
<1>2. ASSUME NEW p \in Proc, Step(p) PROVE CleanChain'
  <2>b. ASSUME GoDown(p), phase[p] # "down", log' = log, cleanCut' => cleanCut
        PROVE  CleanChain'
    BY <2>b, CleanFrame DEF TypeOK, GoDown, Goto, Phase
  <2>c. ASSUME phase' = [phase EXCEPT ![p] = "idle"], head' = head, log' = log,
               phase[p] \in {"sync", "broken", "project"},
               cleanCut' => cleanCut /\ phase[p] = "project"
        PROVE  CleanChain'
    BY <2>c, CleanFrame DEF TypeOK, Phase, CleanChain
  <2>1. CASE Acquire(p)
    BY <2>1 DEF CleanChain, TypeOK, Acquire, Goto, Readable, LastId
  <2>2. CASE Open(p)
    BY <2>2, CleanFrame DEF TypeOK, Open, Goto, Phase
  <2>3. CASE RefuseOpen(p)
    BY <2>3, <2>b DEF RefuseOpen
  <2>4. ASSUME NEW s \in CurrentState, Change(p, s) PROVE CleanChain'
    BY <2>4 DEF CleanChain, Change, Readable, LastId
  <2>5. CASE StartSave(p)
    BY <2>5, CleanFrame DEF TypeOK, StartSave, Goto, Phase, CleanChain
  <2>6. CASE StartTrace(p)
    BY <2>6, CleanFrame DEF TypeOK, StartTrace, Goto, Phase, CleanChain
  <2>7. CASE WriteEvent(p)
    <3> SUFFICES ASSUME cleanCut PROVE CleanChain'
      BY <2>7 DEF WriteEvent, CleanChain
    <3>. DEFINE line == NextEvent(p)
    <3>1. line \in Line
      BY <2>7, NextEventType DEF WriteEvent
    <3>2. /\ Readable(log) /\ head[p] = LastId(log)
          /\ log = <<>> \/ log[Len(log)].ended
      BY <2>7 DEF CleanChain, WriteEvent
    <3>3. log' = Append(log, line)
      BY <2>7, <3>2 DEF WriteEvent, AddLine
    <3>4. line.id = minted + 1 /\ line.prev = LastId(log) /\ line.whole /\ line.ended
      BY <3>2 DEF NextEvent
    <3>5. /\ Len(log) \in Nat /\ Len(log') = Len(log) + 1
          /\ \A i \in 1..Len(log) : log'[i] = log[i]
          /\ log'[Len(log) + 1] = line
          /\ log' # <<>>
      <4> HIDE DEF line
      <4>. QED
        BY <3>1, <3>3 DEF TypeOK
    <3>6. Readable(log') /\ log'[Len(log')].ended /\ LastId(log') = minted + 1
      <4>1. line.prev = IF Len(log) = 0 THEN 0 ELSE log[Len(log)].id
        BY <3>4, EmptySeq DEF LastId, TypeOK
      <4> HIDE DEF line
      <4>2. ASSUME NEW i \in 1..Len(log')
            PROVE  /\ log'[i].whole
                   /\ log'[i].prev = IF i = 1 THEN 0 ELSE log'[i - 1].id
        <5>1. CASE i \in 1..Len(log)
          <6>1. /\ log[i].whole
                /\ log[i].prev = IF i = 1 THEN 0 ELSE log[i - 1].id
            BY <3>2, <5>1 DEF Readable
          <6>2. log'[i] = log[i] /\ (i # 1 => log'[i - 1] = log[i - 1])
            BY <3>5, <5>1
          <6>. QED
            BY <6>1, <6>2
        <5>2. CASE i = Len(log) + 1
          <6>1. log'[i] = line /\ (i # 1 => log'[i - 1] = log[Len(log)])
            BY <3>5, <5>2
          <6>. QED
            BY <3>4, <3>5, <4>1, <5>2, <6>1
        <5>. QED
          BY <3>5, <5>1, <5>2
      <4>3. Readable(log')
        BY <4>2 DEF Readable
      <4>. QED
        BY <3>4, <3>5, <4>3 DEF LastId
    <3>7. minted' = minted + 1 /\ phase' = [phase EXCEPT ![p] = "sync"] /\ phase[p] = "append"
      BY <2>7 DEF WriteEvent, Goto
    <3>8. \A q \in Proc : q # p => phase'[q] = "down"
      BY <3>7 DEF OneWriter, TypeOK
    <3>9. phase'[p] = "sync"
      BY <3>7 DEF TypeOK
    <3>. QED
      BY <3>6, <3>7, <3>8, <3>9 DEF CleanChain
  <2>8. CASE WritePart(p)
    BY <2>8 DEF CleanChain, WritePart
  <2>9. CASE SyncEvent(p)
    BY <2>9, CleanFrame DEF TypeOK, SyncEvent, Goto, Phase, CleanChain
  <2>10. CASE SyncFault(p)
    BY <2>10 DEF CleanChain, SyncFault
  <2>11. CASE RaiseBroken(p)
    BY <2>11, <2>b, <2>c DEF RaiseBroken, Raise, Goto, CleanChain
  <2>12. CASE Project(p)
    BY <2>12, <2>c DEF Project, Goto
  <2>13. CASE ProjectFault(p)
    BY <2>13, <2>b, <2>c DEF ProjectFault, Raise, Goto
  <2>14. CASE Stop(p)
    BY <2>14, <2>b DEF Stop
  <2>. QED
    BY <1>2, <2>1, <2>2, <2>3, <2>4, <2>5, <2>6, <2>7, <2>8, <2>9, <2>10, <2>11,
       <2>12, <2>13, <2>14
    DEF Step
<1>3. CASE UNCHANGED storeVars
  BY <1>3 DEF CleanChain, storeVars, Readable, LastId
<1>. QED
  BY <1>1, <1>2, <1>3 DEF Next

(***************************************************************************)
(* "Events are append-only and SHA-256 chained": whatever processes do and *)
(* wherever they are stopped, a log in which no append was left half done  *)
(* is a chain that validate_chain accepts, and it ends with the event its  *)
(* writer goes on from.                                                    *)
(***************************************************************************)
THEOREM ChainCorrect == Spec => []ChainIntact
<1>1. Init => CleanChain
  BY DEF Init, CleanChain, Readable
<1>2. CleanChain => ChainIntact
  BY DEF CleanChain, ChainIntact
<1>. QED
  BY <1>1, <1>2, TypeCorrect, OneWriterCorrect, CleanStep, PTL DEF Spec

-----------------------------------------------------------------------------
(***************************************************************************)
(* What is loaded.                                                         *)
(***************************************************************************)
\* What an append does to a log that can be read after it.
LEMMA AppendedEvent ==
  ASSUME TypeOK, NEW p \in Proc, phase[p] = "append",
         NEW line \in Line, line.state = NextEvent(p).state,
         log' = AddLine(line), UNCHANGED projection, Readable(log')
  PROVE  /\ Readable(log)
         /\ log' \in Seq(Line)
         /\ \A i \in Snapshots(log) : i \in Snapshots(log') /\ log'[i] = log[i]
         /\ purpose[p] = "trace" => Loaded' = Loaded
         /\ purpose[p] # "trace" => /\ Snapshots(log') # {}
                                    /\ log'[LastSnapshot(log')].state = Redact[memory[p]]
                                    /\ Loaded' = Redact[memory[p]]
<1>1. /\ log' = Append(log, line)
      /\ Readable(log)
      /\ log' \in Seq(Line)
      /\ log \in Seq(Line)
  BY AddedLine DEF TypeOK
<1>2. /\ line.state = None =>
           /\ Snapshots(log') = Snapshots(log)
           /\ LastSnapshot(log') = LastSnapshot(log)
           /\ Snapshots(log) # {} => log'[LastSnapshot(log)] = log[LastSnapshot(log)]
      /\ line.state # None =>
           /\ LastSnapshot(log') \in Snapshots(log')
           /\ log'[LastSnapshot(log')] = line
      /\ \A i \in Snapshots(log) : i \in Snapshots(log') /\ log'[i] = log[i]
  <2>1. /\ log' = Append(log, line)
        /\ log \in Seq(Line)
    BY <1>1
  <2>2. \A lines \in Seq(Line) :
          /\ line.state = None =>
               /\ Snapshots(Append(lines, line)) = Snapshots(lines)
               /\ LastSnapshot(Append(lines, line)) = LastSnapshot(lines)
               /\ Snapshots(lines) # {} =>
                    Append(lines, line)[LastSnapshot(lines)] = lines[LastSnapshot(lines)]
          /\ line.state # None =>
               /\ LastSnapshot(Append(lines, line)) \in Snapshots(Append(lines, line))
               /\ Append(lines, line)[LastSnapshot(Append(lines, line))] = line
          /\ \A i \in Snapshots(lines) :
               /\ i \in Snapshots(Append(lines, line))
               /\ Append(lines, line)[i] = lines[i]
    BY SnapshotsOfAppend
  <2>. QED
    BY <2>1, <2>2, Zenon
<1>3. Loaded' = IF Snapshots(log') # {} THEN log'[LastSnapshot(log')].state
                ELSE IF projection # None THEN projection
                ELSE FreshState
  BY DEF Loaded, Snapshots, LastSnapshot
<1>4. ASSUME purpose[p] = "trace" PROVE Loaded' = Loaded
  <2>1. line.state = None
    BY <1>4 DEF NextEvent
  <2>. QED
    BY <1>2, <1>3, <2>1 DEF Loaded
<1>5. ASSUME purpose[p] # "trace"
      PROVE  /\ Snapshots(log') # {}
             /\ log'[LastSnapshot(log')].state = Redact[memory[p]]
             /\ Loaded' = Redact[memory[p]]
  <2>1. memory[p] \in State
    BY DEF TypeOK, CurrentState
  <2>2. line.state = Redact[memory[p]]
    BY <1>5 DEF NextEvent
  <2>3. Redact[memory[p]] \in State
    BY <2>1, RedactAssumption
  <2>4. line.state # None
    BY <2>2, <2>3, StateAssumption
  <2>. QED
    BY <1>2, <1>3, <2>2, <2>4
<1>. QED
  BY <1>1, <1>2, <1>4, <1>5

\* Steps that leave the log, and what would be loaded, as they are.
LEMMA RestorableFrame ==
  ASSUME TypeOK, OneWriter, Restorable, NEW p \in Proc, phase[p] # "down",
         log' = log, Loaded' = Loaded, acceptable \subseteq acceptable',
         \A q \in Proc : q # p => phase'[q] = phase[q],
         phase'[p] \in {"down", "idle"} \/
           /\ phase'[p] \in {"append", "sync", "project"}
           /\ phase'[p] = "project" => purpose'[p] # "trace"
           /\ purpose'[p] # "trace" => View(memory'[p]) \in acceptable'
           /\ phase'[p] \in {"sync", "project"} =>
                /\ phase[p] \in {"sync", "project"}
                /\ purpose'[p] = purpose[p] /\ memory'[p] = memory[p]
  PROVE  Restorable'
<1>1. \A q \in Proc : q # p => phase'[q] = "down"
  BY DEF OneWriter
<1>2. Readable(log)' = Readable(log) /\ Snapshots(log)' = Snapshots(log)
      /\ LastSnapshot(log)' = LastSnapshot(log)
  BY DEF Readable, Snapshots, LastSnapshot
<1>3. Readable(log)' => View(Loaded)' \in acceptable'
  BY <1>2 DEF Restorable, View, Migrated
<1>4. ASSUME NEW q \in Proc
      PROVE  /\ phase'[q] = "project" => purpose'[q] # "trace"
             /\ phase'[q] \in {"append", "sync", "project"} /\ purpose'[q] # "trace" =>
                  View(memory[q])' \in acceptable'
             /\ phase'[q] \in {"sync", "project"} /\ purpose'[q] # "trace" /\ Readable(log)' =>
                  /\ Snapshots(log)' # {}
                  /\ log'[LastSnapshot(log)'].state = Redact[memory'[q]]
  <2>1. CASE q # p
    BY <1>1, <2>1
  <2>2. CASE q = p
    <3>1. View(memory[q])' = View(memory'[q])
      BY DEF View, Migrated
    <3>. QED
      BY <1>2, <2>2, <3>1 DEF Restorable
  <2>. QED
    BY <2>1, <2>2
<1>. QED
  BY <1>3, <1>4 DEF Restorable

LEMMA RestorableStep == TypeOK /\ OneWriter /\ Restorable /\ [Next]_storeVars => Restorable'
<1> SUFFICES ASSUME TypeOK, OneWriter, Restorable, [Next]_storeVars PROVE Restorable'
  OBVIOUS
<1>a. ASSUME log' = log, projection' = projection \/ Snapshots(log) # {} PROVE Loaded' = Loaded
  BY <1>a DEF Loaded, Snapshots, LastSnapshot
<1>b. ASSUME log' = log, Loaded' = Loaded, UNCHANGED <<acceptable, memory, purpose>>,
             \A q \in Proc : phase'[q] = phase[q] \/ phase'[q] = "opening"
      PROVE  Restorable'
  <2>1. Readable(log)' = Readable(log) /\ Snapshots(log)' = Snapshots(log)
        /\ LastSnapshot(log)' = LastSnapshot(log)
    BY <1>b DEF Readable, Snapshots, LastSnapshot
  <2>2. View(Loaded)' = View(Loaded) /\ \A q \in Proc : View(memory[q])' = View(memory[q])
    BY <1>b DEF View, Migrated
  <2>. QED
    BY <1>b, <2>1, <2>2 DEF Restorable
<1>1. CASE Corrupt
  BY <1>1, <1>a, <1>b DEF Corrupt
<1>2. ASSUME NEW p \in Proc, Step(p) PROVE Restorable'
  <2>a. phase[p] # "down" => \A q \in Proc : q # p => phase[q] = "down"
    BY DEF OneWriter
  <2>b. ASSUME phase[p] # "down", log' = log, projection' = projection, acceptable' = acceptable,
               phase' \in {[phase EXCEPT ![p] = "down"], [phase EXCEPT ![p] = "idle"]}
        PROVE  Restorable'
    BY <2>b, <1>a, RestorableFrame DEF TypeOK
  <2>c. ASSUME phase[p] = "append", NEW line \in Line, line.state = NextEvent(p).state,
               log' = AddLine(line),
               UNCHANGED <<projection, memory, purpose, acceptable>>,
               NEW place \in {"sync", "broken"}, phase' = [phase EXCEPT ![p] = place]
        PROVE  Restorable'
    <3>1. /\ \A q \in Proc : q # p => phase'[q] = "down"
          /\ phase'[p] = place
      BY <2>a, <2>c DEF TypeOK
    <3>2. \A q \in Proc : View(memory[q])' = View(memory[q])
      BY <2>c DEF View, Migrated
    <3>3. ASSUME Readable(log')
          PROVE  /\ View(Loaded)' \in acceptable
                 /\ purpose[p] # "trace" =>
                      /\ Snapshots(log') # {}
                      /\ log'[LastSnapshot(log')].state = Redact[memory[p]]
      <4>1. /\ Readable(log)
            /\ purpose[p] = "trace" => Loaded' = Loaded
            /\ purpose[p] # "trace" =>
                 /\ Snapshots(log') # {}
                 /\ log'[LastSnapshot(log')].state = Redact[memory[p]]
                 /\ Loaded' = Redact[memory[p]]
        BY <2>c, <3>3, AppendedEvent
      <4>2. memory[p] \in State /\ View(Redact[memory[p]]) = View(memory[p])
        BY <2>c, ViewFacts DEF TypeOK, CurrentState
      <4>3. View(Loaded)' = View(Loaded')
        BY DEF View, Migrated
      <4>. QED
        BY <2>c, <4>1, <4>2, <4>3 DEF Restorable
    <3>4. Readable(log)' = Readable(log') /\ Snapshots(log)' = Snapshots(log')
          /\ LastSnapshot(log)' = LastSnapshot(log')
      BY DEF Readable, Snapshots, LastSnapshot
    <3>. QED
      BY <2>c, <3>1, <3>2, <3>3, <3>4 DEF Restorable
  <2>1. CASE Acquire(p)
    <3>1. \A q \in Proc : phase'[q] = phase[q] \/ phase'[q] = "opening"
      BY <2>1 DEF TypeOK, Acquire, Goto
    <3>. QED
      BY <2>1, <3>1, <1>a, <1>b DEF Acquire
  <2>2. CASE Open(p)
    <3>1. Loaded \in State
      BY LoadedType DEF TypeOK
    <3>2. View(Migrated(Loaded)) \in acceptable
      BY <2>2, <3>1, ViewFacts DEF Restorable, Open
    <3>3. /\ memory'[p] = Migrated(Loaded)
          /\ phase'[p] \in {"idle", "append"}
          /\ \A q \in Proc : q # p => phase'[q] = phase[q]
      BY <2>2 DEF TypeOK, Open, Goto
    <3>4. View(memory'[p]) \in acceptable'
      BY <2>2, <3>2, <3>3 DEF Open
    <3>5. log' = log /\ Loaded' = Loaded /\ acceptable' = acceptable /\ phase[p] # "down"
      BY <2>2, <1>a DEF Open
    <3>. QED
      BY <3>3, <3>4, <3>5, RestorableFrame
  <2>3. CASE RefuseOpen(p)
    BY <2>3, <2>b DEF RefuseOpen, GoDown, Goto
  <2>4. ASSUME NEW s \in CurrentState, Change(p, s) PROVE Restorable'
    BY <2>4, <1>a, RestorableFrame DEF TypeOK, Change
  <2>5. CASE StartSave(p)
    <3>1. View(memory'[p]) \in acceptable'
      BY <2>5 DEF StartSave
    <3>2. /\ phase'[p] = "append"
          /\ \A q \in Proc : q # p => phase'[q] = phase[q]
      BY <2>5 DEF TypeOK, StartSave, Goto
    <3>3. log' = log /\ Loaded' = Loaded /\ acceptable \subseteq acceptable' /\ phase[p] # "down"
      BY <2>5, <1>a DEF StartSave
    <3>. QED
      BY <3>1, <3>2, <3>3, RestorableFrame
  <2>6. CASE StartTrace(p)
    BY <2>6, <1>a, RestorableFrame DEF TypeOK, StartTrace, Goto
  <2>7. CASE WriteEvent(p)
    BY <2>7, <2>c, NextEventType DEF WriteEvent, Goto
  <2>8. CASE WritePart(p)
    <3>1. /\ phase[p] = "append" /\ minted < MaxEvents
          /\ phase' = [phase EXCEPT ![p] = "broken"]
          /\ UNCHANGED <<projection, memory, purpose, acceptable>>
      BY <2>8 DEF WritePart, Goto
    <3>2. \/ log' = AddLine([NextEvent(p) EXCEPT !.whole = FALSE, !.ended = FALSE])
          \/ log' = AddLine([NextEvent(p) EXCEPT !.ended = FALSE])
      BY <2>8 DEF WritePart
    <3>3. /\ [NextEvent(p) EXCEPT !.ended = FALSE].state = NextEvent(p).state
          /\ [NextEvent(p) EXCEPT !.whole = FALSE, !.ended = FALSE].state = NextEvent(p).state
      BY DEF NextEvent
    <3>. QED
      BY <3>1, <3>2, <3>3, <2>c, NextEventType
  <2>9. CASE SyncEvent(p)
    <3>1. View(memory'[p]) = View(memory[p])
      BY <2>9 DEF SyncEvent
    <3>2. purpose[p] # "trace" => View(memory[p]) \in acceptable
      BY <2>9 DEF Restorable, SyncEvent
    <3>. QED
      BY <2>9, <3>1, <3>2, <1>a, RestorableFrame DEF TypeOK, SyncEvent, Goto
  <2>10. CASE SyncFault(p)
    BY <2>10, <2>b DEF SyncFault, Raise, GoDown, Goto
  <2>11. CASE RaiseBroken(p)
    BY <2>11, <2>b DEF RaiseBroken, Raise, GoDown, Goto
  <2>12. CASE Project(p)
    <3>1. /\ \A q \in Proc : q # p => phase'[q] = "down"
          /\ phase'[p] = "idle"
      BY <2>12, <2>a DEF TypeOK, Project, Goto
    <3>2. ASSUME Readable(log)' PROVE View(Loaded)' = View(memory[p])
      <4>1. Readable(log) /\ log' = log
        BY <2>12, <3>2 DEF Project, Readable
      <4>2. /\ Snapshots(log) # {}
            /\ log[LastSnapshot(log)].state = Redact[memory[p]]
        BY <2>12, <4>1 DEF Project, Restorable
      <4>3. Loaded' = Redact[memory[p]]
        BY <4>1, <4>2 DEF Loaded, Snapshots, LastSnapshot
      <4>4. memory[p] \in State /\ View(Redact[memory[p]]) = View(memory[p])
        BY <2>12, ViewFacts DEF TypeOK, CurrentState, Project
      <4>5. View(Loaded)' = View(Loaded')
        BY DEF View, Migrated
      <4>. QED
        BY <4>3, <4>4, <4>5
    <3>3. acceptable' = {View(memory[p])}
      BY <2>12 DEF Project
    <3>. QED
      BY <3>1, <3>2, <3>3 DEF Restorable
  <2>13. CASE ProjectFault(p)
    BY <2>13, <2>b DEF ProjectFault, Raise, GoDown, Goto
  <2>14. CASE Stop(p)
    BY <2>14, <2>b DEF Stop, GoDown, Goto
  <2>. QED
    BY <1>2, <2>1, <2>2, <2>3, <2>4, <2>5, <2>6, <2>7, <2>8, <2>9, <2>10, <2>11,
       <2>12, <2>13, <2>14
    DEF Step
<1>3. CASE UNCHANGED storeVars
  BY <1>3, <1>a, <1>b DEF storeVars
<1>. QED
  BY <1>1, <1>2, <1>3 DEF Next

LEMMA RestorableCorrect == Spec => []Restorable
<1>1. Init => Restorable
  BY DEF Init, Restorable
<1>. QED
  BY <1>1, TypeCorrect, OneWriterCorrect, RestorableStep, PTL DEF Spec

(***************************************************************************)
(* "State is restored across processes": a process that starts holds what  *)
(* was last saved, or a state whose save was begun after that and did not  *)
(* return, whatever appends, syncs and replacements failed before.         *)
(***************************************************************************)
THEOREM RestartCorrect == Spec => RestartIsAcceptable
<1>. DEFINE Restart == \A p \in Proc : memory[p] = None /\ memory'[p] # None =>
                         View(memory'[p]) \in acceptable
<1>1. TypeOK /\ OneWriter /\ Restorable /\ [Next]_storeVars => [Restart]_storeVars
  <2> SUFFICES ASSUME TypeOK, OneWriter, Restorable, Next,
                      NEW p \in Proc, memory[p] = None, memory'[p] # None
               PROVE  View(memory'[p]) \in acceptable
    BY DEF Restart
  <2>1. ASSUME memory' \in {memory} \cup {[memory EXCEPT ![q] = None] : q \in Proc}
        PROVE  FALSE
    BY <2>1 DEF TypeOK
  <2>2. PICK q \in Proc : Step(q)
    BY <2>1 DEF Next, Corrupt
  <2>3. CASE Open(q)
    <3>1. q = p /\ memory'[p] = Migrated(Loaded) /\ Readable(log)
      BY <2>3 DEF TypeOK, Open
    <3>2. Loaded \in State
      BY LoadedType DEF TypeOK
    <3>. QED
      BY <3>1, <3>2, ViewFacts DEF Restorable
  <2>4. ASSUME NEW s \in CurrentState, Change(q, s) PROVE FALSE
    BY <2>4 DEF TypeOK, OneWriter, Change
  <2>5. CASE ~Open(q) /\ ~\E s \in CurrentState : Change(q, s)
    BY <2>1, <2>2, <2>5 DEF Step, Acquire, RefuseOpen, GoDown, StartSave, StartTrace,
       WriteEvent, WritePart, SyncEvent, SyncFault, Raise, RaiseBroken, Project,
       ProjectFault, Stop
  <2>. QED
    BY <2>3, <2>4, <2>5
<1>. QED
  BY <1>1, TypeCorrect, OneWriterCorrect, RestorableCorrect, PTL
  DEF Spec, RestartIsAcceptable, Restart

-----------------------------------------------------------------------------
(***************************************************************************)
(* The projection.                                                         *)
(***************************************************************************)
LEMMA ProjectionStep ==
  TypeOK /\ Restorable /\ ProjectionBehindLog /\ [Next]_storeVars => ProjectionBehindLog'
<1> SUFFICES ASSUME TypeOK, Restorable, ProjectionBehindLog, [Next]_storeVars,
                    Readable(log)', projection' # None, projection' \notin OldState
             PROVE  \E i \in Snapshots(log') : log'[i].state = Redact[projection']
  BY DEF ProjectionBehindLog, Snapshots
<1>a. Readable(log)' = Readable(log')
  BY DEF Readable
<1>b. ASSUME UNCHANGED <<log, projection>>
      PROVE  \E i \in Snapshots(log') : log'[i].state = Redact[projection']
  BY <1>a, <1>b DEF ProjectionBehindLog
<1>c. ASSUME NEW p \in Proc, phase[p] = "append", NEW line \in Line,
             line.state = NextEvent(p).state, log' = AddLine(line), UNCHANGED projection
      PROVE  \E i \in Snapshots(log') : log'[i].state = Redact[projection']
  <2>1. /\ Readable(log)
        /\ \A i \in Snapshots(log) : i \in Snapshots(log') /\ log'[i] = log[i]
    BY <1>a, <1>c, AppendedEvent
  <2>. QED
    BY <1>c, <2>1 DEF ProjectionBehindLog
<1>1. ASSUME NEW p \in Proc, WriteEvent(p)
      PROVE  \E i \in Snapshots(log') : log'[i].state = Redact[projection']
  BY <1>1, <1>c, NextEventType DEF WriteEvent
<1>2. ASSUME NEW p \in Proc, WritePart(p)
      PROVE  \E i \in Snapshots(log') : log'[i].state = Redact[projection']
  <2>1. /\ [NextEvent(p) EXCEPT !.ended = FALSE].state = NextEvent(p).state
        /\ [NextEvent(p) EXCEPT !.whole = FALSE, !.ended = FALSE].state = NextEvent(p).state
    BY DEF NextEvent
  <2>. QED
    BY <1>2, <2>1, <1>c, NextEventType DEF WritePart
<1>3. ASSUME NEW p \in Proc, Project(p)
      PROVE  \E i \in Snapshots(log') : log'[i].state = Redact[projection']
  <2>1. Readable(log) /\ log' = log /\ projection' = memory[p] /\ phase[p] = "project"
    BY <1>3, <1>a DEF Project
  <2>2. Snapshots(log) # {} /\ log[LastSnapshot(log)].state = Redact[memory[p]]
    BY <2>1 DEF Restorable
  <2>3. LastSnapshot(log) \in Snapshots(log)
    BY <2>2, LastSnapshotType DEF TypeOK
  <2>. QED
    BY <2>1, <2>2, <2>3
<1>4. CASE UNCHANGED storeVars
  BY <1>4, <1>b DEF storeVars
<1>5. ASSUME NEW p \in Proc, Step(p), ~WriteEvent(p), ~WritePart(p), ~Project(p)
      PROVE  UNCHANGED <<log, projection>>
  BY <1>5 DEF Step, Acquire, Open, RefuseOpen, Change, StartSave, StartTrace, SyncEvent,
     SyncFault, RaiseBroken, ProjectFault, Stop
<1>. QED
  BY <1>b, <1>1, <1>2, <1>3, <1>4, <1>5 DEF Next, Corrupt

(***************************************************************************)
(* state.json never runs ahead of events.jsonl: save() replaces it only    *)
(* with a state whose event is in the log.                                 *)
(***************************************************************************)
THEOREM ProjectionCorrect == Spec => []ProjectionBehindLog
<1>1. Init => ProjectionBehindLog
  BY DEF Init, ProjectionBehindLog
<1>. QED
  BY <1>1, TypeCorrect, RestorableCorrect, ProjectionStep, PTL DEF Spec

-----------------------------------------------------------------------------
(***************************************************************************)
(* Refinement.                                                             *)
(***************************************************************************)
LEMMA RefinementStep ==
  TypeOK /\ OneWriter /\ Restorable /\ [Next]_storeVars => [Abstract!Next]_(Abstract!vars)
<1> SUFFICES ASSUME TypeOK, OneWriter, Restorable, [Next]_storeVars
             PROVE  Abstract!Next \/ UNCHANGED <<AgentMemory, SavedState>>
  BY DEF Abstract!vars
<1>a. ASSUME log' = log, projection' = projection \/ Snapshots(log) # {}
      PROVE  SavedState' = SavedState
  <2>1. Loaded' = Loaded
    BY <1>a DEF Loaded, Snapshots, LastSnapshot
  <2>. QED
    BY <1>a, <2>1 DEF SavedState, Readable, View, Migrated
<1>b. ASSUME UNCHANGED <<owner, memory>> PROVE AgentMemory' = AgentMemory
  BY <1>b DEF AgentMemory, View, Migrated
<1>c. View(Loaded) \in State /\ Loaded \in State
  BY LoadedType, ViewFacts DEF TypeOK
<1>d. ASSUME NEW p \in Proc, phase[p] \notin {"down", "opening"}
      PROVE  /\ AgentMemory = View(memory[p]) /\ AgentMemory # Down
             /\ memory[p] \in State /\ View(memory[p]) \in State
  <2>1. memory[p] \in State /\ View(memory[p]) \in State
    BY <1>d, ViewFacts DEF TypeOK, CurrentState
  <2>2. owner = p /\ p # None /\ memory[p] # None
    BY <1>d, StateAssumption DEF OneWriter
  <2>. QED
    BY <2>1, <2>2, StateAssumption DEF AgentMemory
<1>e. ASSUME NEW p \in Proc, GoDown(p), UNCHANGED <<log, projection>>
      PROVE  Abstract!Next
  <2>1. AgentMemory' = Down
    BY <1>e DEF AgentMemory, GoDown
  <2>. QED
    BY <1>a, <1>e, <2>1 DEF Abstract!Next, Abstract!Stop
<1>f. ASSUME NEW p \in Proc, Raise(p), UNCHANGED <<log, projection>>
      PROVE  Abstract!Next \/ UNCHANGED <<AgentMemory, SavedState>>
  BY <1>a, <1>b, <1>e, <1>f DEF Raise
<1>g. ASSUME NEW p \in Proc, phase[p] = "append", NEW line \in Line,
             line.state = NextEvent(p).state, log' = AddLine(line),
             UNCHANGED <<projection, owner, memory>>
      PROVE  Abstract!Next \/ UNCHANGED <<AgentMemory, SavedState>>
  <2>1. AgentMemory' = AgentMemory
    BY <1>b, <1>g
  <2>2. SavedState' = IF Readable(log') THEN View(Loaded') ELSE Lost
    BY DEF SavedState, Readable, View, Migrated
  <2>3. CASE ~Readable(log')
    BY <2>1, <2>2, <2>3 DEF Abstract!Next, Abstract!Damage
  <2>4. CASE Readable(log') /\ purpose[p] = "trace"
    <3>1. Readable(log) /\ Loaded' = Loaded
      BY <1>g, <2>4, AppendedEvent
    <3>. QED
      BY <2>1, <2>2, <2>4, <3>1 DEF SavedState
  <2>5. CASE Readable(log') /\ purpose[p] # "trace"
    <3>1. Readable(log) /\ Loaded' = Redact[memory[p]]
      BY <1>g, <2>5, AppendedEvent
    <3>2. AgentMemory = View(memory[p]) /\ AgentMemory # Down /\ memory[p] \in State
      BY <1>d, <1>g
    <3>3. SavedState' = AgentMemory
      BY <2>2, <2>5, <3>1, <3>2, ViewFacts
    <3>4. SavedState # Lost
      BY <1>c, <3>1, StateAssumption DEF SavedState
    <3>. QED
      BY <2>1, <3>2, <3>3, <3>4 DEF Abstract!Next, Abstract!Save
  <2>. QED
    BY <2>3, <2>4, <2>5
<1>1. CASE Corrupt
  BY <1>1, <1>a, <1>b DEF Corrupt
<1>2. ASSUME NEW p \in Proc, Step(p)
      PROVE  Abstract!Next \/ UNCHANGED <<AgentMemory, SavedState>>
  <2>1. CASE Acquire(p)
    <3>1. AgentMemory = Down
      BY <2>1 DEF AgentMemory, Acquire
    <3>2. memory'[owner'] = None
      BY <2>1 DEF OneWriter, Acquire
    <3>3. AgentMemory' = Down
      BY <3>2 DEF AgentMemory
    <3>. QED
      BY <2>1, <3>1, <3>3, <1>a DEF Acquire
  <2>2. CASE Open(p)
    <3>1. owner = p /\ memory[p] = None /\ Readable(log)
      BY <2>2 DEF OneWriter, Open
    <3>2. owner' = p /\ p # None /\ memory'[p] = Migrated(Loaded) /\ Migrated(Loaded) # None
      BY <2>2, <1>c, <3>1, ViewFacts, StateAssumption DEF Open, TypeOK, CurrentState
    <3>3. AgentMemory = Down
      BY <3>1 DEF AgentMemory
    <3>4. AgentMemory' = View(Migrated(Loaded))
      BY <3>2 DEF AgentMemory, View, Migrated
    <3>5. SavedState = View(Loaded) /\ SavedState # Lost
      BY <3>1, <1>c, StateAssumption DEF SavedState
    <3>6. AgentMemory' = SavedState
      BY <3>4, <3>5, <1>c, ViewFacts
    <3>7. SavedState' = SavedState
      BY <2>2, <1>a DEF Open
    <3>. QED
      BY <3>3, <3>5, <3>6, <3>7 DEF Abstract!Next, Abstract!Open
  <2>3. CASE RefuseOpen(p)
    BY <2>3, <1>e DEF RefuseOpen
  <2>4. ASSUME NEW s \in CurrentState, Change(p, s) PROVE Abstract!Next
    <3>1. AgentMemory # Down /\ owner = p /\ p # None
      BY <2>4, <1>d, StateAssumption DEF OneWriter, Change
    <3>2. memory'[p] = s /\ owner' = p /\ s # None /\ s \in State
      BY <2>4, <3>1, StateAssumption DEF TypeOK, Change, CurrentState
    <3>3. AgentMemory' = View(s)
      BY <3>1, <3>2 DEF AgentMemory, View, Migrated
    <3>4. View(s) \in State
      BY <3>2, ViewFacts
    <3>5. SavedState' = SavedState
      BY <2>4, <1>a DEF Change
    <3>. QED
      BY <3>1, <3>3, <3>4, <3>5 DEF Abstract!Next, Abstract!Change
  <2>5. CASE StartSave(p)
    BY <2>5, <1>a, <1>b DEF StartSave
  <2>6. CASE StartTrace(p)
    BY <2>6, <1>a, <1>b DEF StartTrace
  <2>7. CASE WriteEvent(p)
    BY <2>7, <1>g, NextEventType DEF WriteEvent
  <2>8. CASE WritePart(p)
    <3>1. /\ [NextEvent(p) EXCEPT !.ended = FALSE].state = NextEvent(p).state
          /\ [NextEvent(p) EXCEPT !.whole = FALSE, !.ended = FALSE].state = NextEvent(p).state
      BY DEF NextEvent
    <3>2. /\ phase[p] = "append" /\ minted < MaxEvents
          /\ UNCHANGED <<projection, owner, memory>>
      BY <2>8 DEF WritePart
    <3>3. \/ log' = AddLine([NextEvent(p) EXCEPT !.whole = FALSE, !.ended = FALSE])
          \/ log' = AddLine([NextEvent(p) EXCEPT !.ended = FALSE])
      BY <2>8 DEF WritePart
    <3>. QED
      BY <3>1, <3>2, <3>3, <1>g, NextEventType
  <2>9. CASE SyncEvent(p)
    BY <2>9, <1>a, <1>b DEF SyncEvent
  <2>10. CASE SyncFault(p)
    BY <2>10, <1>f DEF SyncFault
  <2>11. CASE RaiseBroken(p)
    BY <2>11, <1>f DEF RaiseBroken
  <2>12. CASE Project(p)
    <3>1. Readable(log) => Snapshots(log) # {}
      BY <2>12 DEF Project, Restorable
    <3>2. CASE Readable(log)
      BY <2>12, <3>1, <3>2, <1>a, <1>b DEF Project
    <3>3. CASE ~Readable(log)
      <4>1. SavedState = Lost /\ SavedState' = Lost
        BY <2>12, <3>3 DEF Project, SavedState, Readable
      <4>. QED
        BY <2>12, <4>1, <1>b DEF Project
    <3>. QED
      BY <3>2, <3>3
  <2>13. CASE ProjectFault(p)
    BY <2>13, <1>f DEF ProjectFault
  <2>14. CASE Stop(p)
    BY <2>14, <1>e DEF Stop
  <2>. QED
    BY <1>2, <2>1, <2>2, <2>3, <2>4, <2>5, <2>6, <2>7, <2>8, <2>9, <2>10, <2>11,
       <2>12, <2>13, <2>14
    DEF Step
<1>3. CASE UNCHANGED storeVars
  BY <1>3, <1>a, <1>b DEF storeVars
<1>. QED
  BY <1>1, <1>2, <1>3 DEF Next

(***************************************************************************)
(* The store of events.jsonl and state.json implements DurableState: a     *)
(* save is one atomic step, the write of its event, and what a process     *)
(* that starts holds is exactly what was saved, or it does not start.      *)
(***************************************************************************)
THEOREM Refinement == Spec => ImplementsDurableState
<1>1. Init => Abstract!Init
  <2> SUFFICES ASSUME Init PROVE AgentMemory = Down /\ SavedState \in State
    BY DEF Abstract!Init
  <2>1. log \in Seq(Line) /\ projection \in State \cup {None}
    BY StateAssumption DEF Init
  <2>2. View(Loaded) \in State
    BY <2>1, LoadedType, ViewFacts
  <2>3. Readable(log)
    BY DEF Init, Readable
  <2>. QED
    BY <2>2, <2>3 DEF Init, AgentMemory, SavedState
<1>. QED
  BY <1>1, RefinementStep, TypeCorrect, OneWriterCorrect, RestorableCorrect, PTL
  DEF Spec, ImplementsDurableState, Abstract!Spec
=============================================================================
