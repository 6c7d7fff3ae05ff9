------------------------------ MODULE StateStore ------------------------------
(***************************************************************************)
(* ourd/persistence.py: WorkspaceLock, EventStore and StateStore.  A state *)
(* is saved by appending a snapshot event to events.jsonl, each event      *)
(* naming the hash of the one before it, and then replacing state.json.    *)
(* A process that starts takes the lock, validates the whole chain and     *)
(* loads the last snapshot; a state of an older schema is migrated and     *)
(* saved at once.                                                          *)
(*                                                                         *)
(* The hash of an event is a number no other event has.  Of the contents   *)
(* of a state the model keeps what redact() and the migrations make of it. *)
(***************************************************************************)
EXTENDS Integers, Sequences

CONSTANTS
  Proc,        \* processes that use the workspace
  State,       \* runtime states
  OldState,    \* those of an older schema
  FreshState,  \* RuntimeState() of a workspace without any state
  Redact,      \* what an event keeps of a state
  Migrate,     \* the migration of a state of an older schema
  None,        \* no state
  Down, Lost,  \* no agent runs; no state can be loaded (DurableState)
  MaxEvents,   \* bound: events written in one behaviour
  MaxFaults,   \* bound: failures of the environment
  FaultPoints  \* "torn", "unended", "sync", "project", "corrupt"

CurrentState == State \ OldState

ASSUME StateAssumption ==
  /\ FreshState \in CurrentState
  /\ OldState \subseteq State
  /\ None \notin State /\ None \notin Proc
  /\ Down \notin State /\ Lost \notin State
ASSUME RedactAssumption ==
  /\ Redact \in [State -> State]
  /\ \A s \in State : Redact[Redact[s]] = Redact[s]
  /\ \A s \in State : s \in OldState <=> Redact[s] \in OldState
ASSUME MigrateAssumption ==
  /\ Migrate \in [OldState -> CurrentState]
  /\ \A s \in OldState : Redact[Migrate[s]] = Redact[Migrate[Redact[s]]]
ASSUME BoundAssumption ==
  /\ MaxEvents \in Nat /\ MaxFaults \in Nat
  /\ FaultPoints \subseteq {"torn", "unended", "sync", "project", "corrupt"}

VARIABLES
  log,        \* the lines of events.jsonl
  projection, \* the state of state.json; None if it is missing or invalid
  owner,      \* the process that holds the lock file, or None
  head,       \* EventStore.head of every process
  memory,     \* RuntimeState of every process, None when it has none
  phase,      \* where every process is
  purpose,    \* what the append in progress is for
  minted,     \* events created so far
  faults,     \* failures so far
  acceptable, \* states a restart may return: saved, or in a save that failed
  cleanCut    \* no append has been left half done

storeVars == <<log, projection, owner, head, memory, phase, purpose,
               minted, faults, acceptable, cleanCut>>

Phase == {"down", "opening", "idle", "append", "sync", "broken", "project"}
Purpose == {"save", "trace", "migrate"}
Line == [id : 1..MaxEvents, prev : 0..MaxEvents, state : State \cup {None},
         whole : BOOLEAN, ended : BOOLEAN]

\* Types; in particular a process that runs holds a state of the current schema.
TypeOK ==
  /\ log \in Seq(Line)
  /\ projection \in State \cup {None}
  /\ owner \in Proc \cup {None}
  /\ head \in [Proc -> 0..MaxEvents]
  /\ memory \in [Proc -> State \cup {None}]
  /\ phase \in [Proc -> Phase]
  /\ purpose \in [Proc -> Purpose]
  /\ \A p \in Proc : phase[p] \notin {"down", "opening"} => memory[p] \in CurrentState
  /\ minted \in 0..MaxEvents
  /\ faults \in 0..MaxFaults
  /\ acceptable \subseteq State
  /\ cleanCut \in BOOLEAN

-----------------------------------------------------------------------------
\* What a state is to an agent that loads it.
Migrated(s) == IF s \in OldState THEN Migrate[s] ELSE s
View(s) == Redact[Migrated(s)]

\* validate_chain: every line is JSON and names the event before it.
Readable(lines) ==
  \A i \in 1..Len(lines) :
    /\ lines[i].whole
    /\ lines[i].prev = IF i = 1 THEN 0 ELSE lines[i - 1].id

LastId(lines) == IF lines = <<>> THEN 0 ELSE lines[Len(lines)].id

Snapshots(lines) == {i \in 1..Len(lines) : lines[i].state # None}

\* Mutant: the scan keeps the first snapshot it meets.
FirstSnapshot(lines) == CHOOSE i \in Snapshots(lines) : \A j \in Snapshots(lines) : i <= j

LastSnapshot(lines) == CHOOSE i \in Snapshots(lines) : \A j \in Snapshots(lines) : j <= i

(***************************************************************************)
(* load() takes the event when state.json is missing, invalid or different *)
(* from it, and state.json when they are the same: the event, if there is  *)
(* one.                                                                    *)
(***************************************************************************)
Loaded ==
  IF Snapshots(log) # {} THEN log[LastSnapshot(log)].state
  ELSE IF projection # None THEN projection
  ELSE FreshState

Init ==
  /\ log = <<>>
  /\ projection \in OldState \cup {None}
  /\ owner = None
  /\ head = [p \in Proc |-> 0]
  /\ memory = [p \in Proc |-> None]
  /\ phase = [p \in Proc |-> "down"]
  /\ purpose = [p \in Proc |-> "save"]
  /\ minted = 0
  /\ faults = 0
  /\ acceptable = {View(Loaded)}
  /\ cleanCut = TRUE

Goto(p, place) == phase' = [phase EXCEPT ![p] = place]

Fault(point) ==
  /\ point \in FaultPoints
  /\ faults < MaxFaults
  /\ faults' = faults + 1

\* The process ends or its StateStore is closed: the lock goes with it.
GoDown(p) ==
  /\ owner' = None
  /\ head' = [head EXCEPT ![p] = 0]
  /\ memory' = [memory EXCEPT ![p] = None]
  /\ purpose' = [purpose EXCEPT ![p] = "save"]
  /\ Goto(p, "down")

-----------------------------------------------------------------------------
\* Mutant: the lock is opened but not taken exclusively.
AcquireShared(p) ==
  /\ phase[p] = "down"
  /\ owner' = p
  /\ Goto(p, "opening")
  /\ UNCHANGED <<log, projection, head, memory, purpose, minted, faults, acceptable, cleanCut>>

\* A second process gets StateError instead, and tries again or gives up.
Acquire(p) ==
  /\ phase[p] = "down"
  /\ owner = None
  /\ owner' = p
  /\ Goto(p, "opening")
  /\ UNCHANGED <<log, projection, head, memory, purpose, minted, faults, acceptable, cleanCut>>

\* Mutant: a state of an older schema is used as it is.
OpenUnmigrated(p) ==
  /\ phase[p] = "opening"
  /\ Readable(log)
  /\ head' = [head EXCEPT ![p] = LastId(log)]
  /\ memory' = [memory EXCEPT ![p] = Loaded]
  /\ Goto(p, IF Loaded \in OldState THEN "append" ELSE "idle")
  /\ purpose' = [purpose EXCEPT ![p] = "migrate"]
  /\ UNCHANGED <<log, projection, owner, minted, faults, acceptable, cleanCut>>

\* EventStore.__init__ and load(): a state of an older schema is saved first.
Open(p) ==
  /\ phase[p] = "opening"
  /\ Readable(log)
  /\ head' = [head EXCEPT ![p] = LastId(log)]
  /\ memory' = [memory EXCEPT ![p] = Migrated(Loaded)]
  /\ Goto(p, IF Loaded \in OldState THEN "append" ELSE "idle")
  /\ purpose' = [purpose EXCEPT ![p] = "migrate"]
  /\ UNCHANGED <<log, projection, owner, minted, faults, acceptable, cleanCut>>

RefuseOpen(p) ==
  /\ phase[p] = "opening"
  /\ ~Readable(log)
  /\ GoDown(p)
  /\ UNCHANGED <<log, projection, minted, faults, acceptable, cleanCut>>

\* A handler of the agent changes the state it holds.
Change(p, s) ==
  /\ phase[p] = "idle"
  /\ s # memory[p]
  /\ memory' = [memory EXCEPT ![p] = s]
  /\ UNCHANGED <<log, projection, owner, head, phase, purpose, minted, faults,
                 acceptable, cleanCut>>

\* Mutant: state.json is replaced before the event is appended.
StartSaveProjecting(p) ==
  /\ phase[p] = "idle"
  /\ Goto(p, "append")
  /\ purpose' = [purpose EXCEPT ![p] = "save"]
  /\ acceptable' = acceptable \cup {View(memory[p])}
  /\ projection' = memory[p]
  /\ UNCHANGED <<log, owner, head, memory, minted, faults, cleanCut>>

StartSave(p) ==
  /\ phase[p] = "idle"
  /\ Goto(p, "append")
  /\ purpose' = [purpose EXCEPT ![p] = "save"]
  /\ acceptable' = acceptable \cup {View(memory[p])}
  /\ UNCHANGED <<log, projection, owner, head, memory, minted, faults, cleanCut>>

StartTrace(p) ==
  /\ phase[p] = "idle"
  /\ Goto(p, "append")
  /\ purpose' = [purpose EXCEPT ![p] = "trace"]
  /\ UNCHANGED <<log, projection, owner, head, memory, minted, faults, acceptable, cleanCut>>

(***************************************************************************)
(* The line is added to the end of the file; a last line without its       *)
(* newline and the new one become one line, which is not JSON.             *)
(***************************************************************************)
AddLine(line) ==
  LET last == Len(log) IN
  IF log = <<>> \/ log[last].ended
  THEN Append(log, line)
  ELSE [log EXCEPT ![last] = [@ EXCEPT !.whole = FALSE, !.ended = line.ended]]

NextEvent(p) ==
  [id    |-> minted + 1,
   prev  |-> head[p],
   state |-> IF purpose[p] = "trace" THEN None ELSE Redact[memory[p]],
   whole |-> TRUE,
   ended |-> TRUE]

\* The write of append() and its flush.
WriteEvent(p) ==
  /\ phase[p] = "append"
  /\ minted < MaxEvents
  /\ minted' = minted + 1
  /\ log' = AddLine(NextEvent(p))
  /\ Goto(p, "sync")
  /\ UNCHANGED <<projection, owner, head, memory, purpose, faults, acceptable, cleanCut>>

\* Only a part of the line reaches the file, or all of it but the newline.
WritePart(p) ==
  /\ phase[p] = "append"
  /\ minted < MaxEvents
  /\ minted' = minted + 1
  /\ \/ /\ Fault("torn")
        /\ log' = AddLine([NextEvent(p) EXCEPT !.whole = FALSE, !.ended = FALSE])
     \/ /\ Fault("unended")
        /\ log' = AddLine([NextEvent(p) EXCEPT !.ended = FALSE])
  /\ Goto(p, "broken")
  /\ cleanCut' = FALSE
  /\ UNCHANGED <<projection, owner, head, memory, purpose, acceptable>>

\* Mutant: the head does not move.
SyncEventSameHead(p) ==
  /\ phase[p] = "sync"
  /\ Goto(p, IF purpose[p] = "trace" THEN "idle" ELSE "project")
  /\ UNCHANGED <<log, projection, owner, head, memory, purpose, minted, faults,
                 acceptable, cleanCut>>

\* fsync has returned: the head moves on, state.json follows a snapshot.
SyncEvent(p) ==
  /\ phase[p] = "sync"
  /\ head' = [head EXCEPT ![p] = minted]
  /\ Goto(p, IF purpose[p] = "trace" THEN "idle" ELSE "project")
  /\ UNCHANGED <<log, projection, owner, memory, purpose, minted, faults, acceptable, cleanCut>>

\* An I/O error reaches dispatch(), which reports it; while the agent is
\* being built it ends the process.
Raise(p) ==
  IF purpose[p] = "migrate"
  THEN GoDown(p)
  ELSE Goto(p, "idle") /\ UNCHANGED <<owner, head, memory, purpose>>

RaiseBroken(p) ==
  /\ phase[p] = "broken"
  /\ Raise(p)
  /\ UNCHANGED <<log, projection, minted, faults, acceptable, cleanCut>>

\* The line is in the file, but the head was not moved to it.
SyncFault(p) ==
  /\ phase[p] = "sync"
  /\ Fault("sync")
  /\ Raise(p)
  /\ cleanCut' = FALSE
  /\ UNCHANGED <<log, projection, minted, acceptable>>

\* state.json is replaced and save() or load() returns.
Project(p) ==
  /\ phase[p] = "project"
  /\ projection' = memory[p]
  /\ acceptable' = {View(memory[p])}
  /\ Goto(p, "idle")
  /\ UNCHANGED <<log, owner, head, memory, purpose, minted, faults, cleanCut>>

ProjectFault(p) ==
  /\ phase[p] = "project"
  /\ Fault("project")
  /\ Raise(p)
  /\ UNCHANGED <<log, projection, minted, acceptable, cleanCut>>

\* close(), or the process is killed at any moment.
Stop(p) ==
  /\ phase[p] # "down"
  /\ GoDown(p)
  /\ UNCHANGED <<log, projection, minted, faults, acceptable, cleanCut>>

(***************************************************************************)
(* state.json is lost or made invalid.  Before the first snapshot it is    *)
(* the only copy of a state of an older schema, which nothing can restore. *)
(***************************************************************************)
Corrupt ==
  /\ projection # None
  /\ Snapshots(log) # {}
  /\ Fault("corrupt")
  /\ projection' = None
  /\ UNCHANGED <<log, owner, head, memory, phase, purpose, minted, acceptable, cleanCut>>

-----------------------------------------------------------------------------
Step(p) ==
  \/ Acquire(p)
  \/ Open(p)
  \/ RefuseOpen(p)
  \/ \E s \in CurrentState : Change(p, s)
  \/ StartSave(p)
  \/ StartTrace(p)
  \/ WriteEvent(p)
  \/ WritePart(p)
  \/ SyncEvent(p)
  \/ SyncFault(p)
  \/ RaiseBroken(p)
  \/ Project(p)
  \/ ProjectFault(p)
  \/ Stop(p)

Next == Corrupt \/ \E p \in Proc : Step(p)

Spec == Init /\ [][Next]_storeVars

-----------------------------------------------------------------------------
(***************************************************************************)
(* "Events are append-only and SHA-256 chained": as long as no append was  *)
(* left half done, a process that starts finds a chain it accepts, and the *)
(* process that runs writes after the last event of the file.              *)
(***************************************************************************)
ChainIntact ==
  cleanCut =>
    /\ Readable(log)
    /\ \A p \in Proc : phase[p] \in {"idle", "append", "project"} => head[p] = LastId(log)

(***************************************************************************)
(* state.json is a projection of the log: as long as the log can be read,  *)
(* it shows the state of a snapshot in the log, or the one of the older    *)
(* schema it was found with, never a state the log has not reached.        *)
(***************************************************************************)
ProjectionBehindLog ==
  Readable(log) /\ projection # None =>
    \/ projection \in OldState
    \/ \E i \in Snapshots(log) : log[i].state = Redact[projection]

(***************************************************************************)
(* "State is restored across processes": what a process that starts holds  *)
(* is the state last saved, or one whose save was begun after that and     *)
(* did not return.  Nothing else, whatever failed before.                  *)
(***************************************************************************)
RestartIsAcceptable ==
  [][\A p \in Proc : memory[p] = None /\ memory'[p] # None =>
       View(memory'[p]) \in acceptable]_storeVars

(***************************************************************************)
(* The promise of DurableState.  A state is saved when its event is in the *)
(* file, up to what redact() removes from it.                              *)
(***************************************************************************)
AgentMemory ==
  IF owner # None /\ memory[owner] # None THEN View(memory[owner]) ELSE Down

SavedState == IF Readable(log) THEN View(Loaded) ELSE Lost

Abstract == INSTANCE DurableState WITH memory <- AgentMemory, saved <- SavedState

\* Append, fsync and replacement are to the agent one atomic save.
ImplementsDurableState == Abstract!Spec

(***************************************************************************)
(* A save that returns leaves a chain the next process accepts: "State is  *)
(* restored across processes".  The code goes on appending after an append *)
(* that failed, with the head and the end of the file it left.             *)
(***************************************************************************)
SavedIsReadable == [][(\E p \in Proc : Project(p)) => Readable(log')]_storeVars

(***************************************************************************)
(* A restart gives back the state that was saved and is in state.json.     *)
(* The code keeps the redacted event instead, whose keys that look like    *)
(* secrets have lost their values.                                         *)
(***************************************************************************)
RestoredExactly ==
  [][\A p \in Proc :
       Open(p) /\ projection # None /\ Redact[projection] = Loaded
         => memory'[p] = Migrated(projection)]_storeVars
=============================================================================
