---------------------------- MODULE GuiController ----------------------------
(***************************************************************************)
(* ourd_gui/controller.py with events.py, state.py and persistence.py: the *)
(* Tk thread starts, stops and closes, one executor worker runs the core,  *)
(* and both report through events.  An event is appended to the journal    *)
(* under _journal_lock and put on the bus queue, and the Tk thread reduces *)
(* it into the view at its next poll.  The view is saved as a projection,  *)
(* which a later process takes when its count of events is the length of   *)
(* the journal, and otherwise rebuilds.                                    *)
(*                                                                         *)
(* A thread's script is what is left of the function it is in: events to   *)
(* emit and calls to make, in the order of the code.                       *)
(***************************************************************************)
EXTENDS Integers, FiniteSets, Sequences, SequencesExt

CONSTANTS
  Turn,        \* agent chat turns, numbered in the order they are asked
  Operation,   \* objectives and commands, numbered in the same way
  None,        \* no turn, no event, no projection
  Limits       \* bounds, one of which a behaviour keeps to: turns and other
               \* operations asked, turns stopped, contexts cleared, processes
               \* started one after the other, and processes lost

Task == Turn \cup Operation
Thread == {"ui", "worker"}

\* The outcome of a turn is the role of the message that ends it.
Outcome == {"assistant", "system", "error"}

\* AgentEventType, less what leaves the part of the view modelled here alone:
\* activity, worker status, and the task records that go with a chat turn, which
\* the same thread emits next to the events kept.
EventKind == {"opened", "closed",     \* SESSION_OPENED, SESSION_CLOSED
              "begun", "done",        \* TASK_STARTED, TASK_FINISHED
              "user", "assistant", "system", "error", \* CHAT_MESSAGE_ADDED
              "started", "stop", "finished", \* CHAT_TURN_*
              "cleared"}              \* CHAT_CONTEXT_CLEARED

ASSUME GuiAssumption ==
  /\ Turn \subseteq Nat /\ Operation \subseteq Nat
  /\ Turn \cap Operation = {}
  /\ None \notin Task /\ None \notin Thread
  /\ Limits \subseteq [turns : SUBSET Turn, operations : SUBSET Operation,
                      stops : Nat, clears : Nat, sessions : Nat, crashes : Nat]

VARIABLES
  journal,    \* .ourd-agent/gui/events.jsonl
  projection, \* projection.sqlite3: a count of events and a view
  session,    \* "down", "up", "closing", "left": the window is gone
  view,       \* GuiState: chat_status, messages, chat_context_start, running tasks
  queue,      \* the bus
  script,     \* by thread, the events to emit and the calls "submit", "watch",
              \* "cancel" and "release" to make, each with its task
  emitting,   \* by thread, the event it is emitting, with the hash before it
  written,    \* by thread, whether that event is in the journal
  journalLock, \* the thread that holds _journal_lock
  drain,      \* "save" between the last delivery and the save of drain_events
  future,     \* by task: "none", "queued", "running", "returned", "cancelled"
  jobs,       \* the executor's work queue
  watched,    \* tasks whose future has its done callback
  outcome,    \* by task, how it ended
  active,     \* _active_chat_operation_id
  cancelled,  \* turns whose cancel event is set
  history,    \* by task asked, the messages it was started with
  limit,      \* the bounds of this behaviour
  sessions,   \* processes started so far
  crashes     \* processes lost so far

disk == <<journal, projection>>
work == <<future, jobs, watched, outcome>>
emit == <<emitting, written, journalLock>>
life == <<session, sessions, crashes, limit>>
guiVars == <<disk, life, view, queue, script, emit, drain, work, active, cancelled, history>>

Event == [kind : EventKind, task : Task \cup {None}, previous : Nat]

-----------------------------------------------------------------------------
\* What reduce_event does to the view.
Reduce(v, e) ==
  CASE e.kind = "begun" -> [v EXCEPT !.running = @ \cup {e.task}]
    [] e.kind = "done" -> [v EXCEPT !.running = @ \ {e.task}]
    [] e.kind \in Outcome \cup {"user"} ->
         [v EXCEPT !.messages = Append(@, [task |-> e.task, role |-> e.kind])]
    [] e.kind = "started" -> [v EXCEPT !.chat = "running"]
    [] e.kind = "stop" -> [v EXCEPT !.chat = "stopping"]
    [] e.kind = "finished" -> [v EXCEPT !.chat = "idle"]
    [] e.kind = "cleared" -> [v EXCEPT !.start = Len(v.messages)]
    [] OTHER -> v

EmptyView == [chat |-> "idle", messages |-> <<>>, start |-> 0, running |-> {}]
\* A view after events, reduced one after the other.
After(v, events) ==
  LET at[n \in 0..Len(events)] == IF n = 0 THEN v ELSE Reduce(at[n - 1], events[n])
  IN at[Len(events)]
Replay(events) == After(EmptyView, events)

\* load(expected_event_count): the view saved for as many events as there are.
Accepted == projection # None /\ projection.count = Len(journal)

\* What the model is told of the turns before: _chat_history().
Tell(told, m) == IF m.role \in {"user", "assistant"} THEN Append(told, m) ELSE told
Exchanged(said, start) ==
  LET told[n \in start..Len(said)] ==
        IF n = start THEN <<>> ELSE Tell(told[n - 1], said[n])
  IN told[Len(said)]
ChatHistory == Exchanged(view.messages, view.start)

Unused(k) == k \notin DOMAIN history
NextOf(k, S) == k \in S /\ Unused(k) /\ \A j \in S : j < k => ~Unused(j)

\* Mutant: the turn is released before its end is reported.
ChatDoneReleasesFirst(t, how) == <<<<"release", t>>, <<how, t>>, <<"finished", t>>>>
\* What _chat_done and _operation_done do once the future is over.
ChatDone(t, how) ==
  <<<<how, t>>, <<"finished", t>>, <<"release", t>>>>
OperationDone(o) == <<<<"done", o>>>>
Done(k, how) == IF k \in Turn THEN ChatDone(k, how) ELSE OperationDone(k)

-----------------------------------------------------------------------------
\* One event, step by step: _publish and GuiEventJournal.append.
NextStep(t) == Head(script[t])
Says(t) == script[t] # <<>> /\ NextStep(t)[1] \in EventKind
Skip(t) == script' = [script EXCEPT ![t] = Tail(@)]

\* Mutant: the head of the journal is read without the lock.
ReadHeadUnlocked(t) ==
  /\ Says(t)
  /\ emitting[t] = None
  /\ journalLock' = None
  /\ emitting' = [emitting EXCEPT ![t] =
       [kind |-> NextStep(t)[1], task |-> NextStep(t)[2], previous |-> Len(journal)]]
  /\ UNCHANGED <<disk, life, view, queue, script, written, drain, work, active,
                 cancelled, history>>

\* Take the lock and open the EventStore, which reads the journal's head.
ReadHead(t) ==
  /\ Says(t)
  /\ emitting[t] = None
  /\ journalLock = None
  /\ journalLock' = t
  /\ emitting' = [emitting EXCEPT ![t] =
       [kind |-> NextStep(t)[1], task |-> NextStep(t)[2], previous |-> Len(journal)]]
  /\ UNCHANGED <<disk, life, view, queue, script, written, drain, work, active,
                 cancelled, history>>

\* Append to the journal and count it; the lock is released.
AppendEvent(t) ==
  /\ emitting[t] # None /\ ~written[t]
  /\ journal' = Append(journal, emitting[t])
  /\ journalLock' = None
  /\ written' = [written EXCEPT ![t] = TRUE]
  /\ UNCHANGED <<projection, life, view, queue, emitting, script, drain, work, active,
                 cancelled, history>>

PutEvent(t) ==
  /\ written[t]
  /\ queue' = Append(queue, emitting[t])
  /\ emitting' = [emitting EXCEPT ![t] = None]
  /\ written' = [written EXCEPT ![t] = FALSE]
  /\ Skip(t)
  /\ UNCHANGED <<disk, life, view, journalLock, drain, work, active, cancelled, history>>

-----------------------------------------------------------------------------
\* The Tk thread: what a callback starts.
UiFree == session = "up" /\ script["ui"] = <<>> /\ drain = "no"
Run(t, steps) == script' = [script EXCEPT ![t] = steps]
Asked(k, what) ==
  history' = [j \in DOMAIN history \cup {k} |-> IF j = k THEN what ELSE history[j]]

\* Mutant: the conversation view does not wait for the chat to be idle.
SendChatAnytime(t) ==
  /\ UiFree
  /\ NextOf(t, limit.turns)
  /\ active = None
  /\ Asked(t, ChatHistory)
  /\ active' = t
  /\ Run("ui", <<<<"user", t>>, <<"started", t>>, <<"submit", t>>, <<"watch", t>>>>)
  /\ UNCHANGED <<disk, life, view, queue, emit, drain, work, cancelled>>

\* _send and _start_chat_operation: one turn at a time.
SendChat(t) ==
  /\ UiFree
  /\ NextOf(t, limit.turns)
  /\ view.chat = "idle"
  /\ active = None
  /\ Asked(t, ChatHistory)
  /\ active' = t
  /\ Run("ui", <<<<"user", t>>, <<"started", t>>, <<"submit", t>>, <<"watch", t>>>>)
  /\ UNCHANGED <<disk, life, view, queue, emit, drain, work, cancelled>>

\* submit_objective, submit_command.
StartOperation(o) ==
  /\ UiFree
  /\ NextOf(o, limit.operations)
  /\ Asked(o, <<>>)
  /\ Run("ui", <<<<"begun", o>>, <<"submit", o>>, <<"watch", o>>>>)
  /\ UNCHANGED <<disk, life, view, queue, emit, drain, work, active, cancelled>>

\* stop_chat, by the button or by /stop.  Bound: once for a turn, limit.stops.
StopChat ==
  /\ UiFree
  /\ active # None
  /\ active \notin cancelled
  /\ Cardinality(cancelled) < limit.stops
  /\ cancelled' = cancelled \cup {active}
  /\ Run("ui", <<<<"cancel", active>>, <<"stop", active>>>>)
  /\ UNCHANGED <<disk, life, view, queue, emit, drain, work, active, history>>

\* new_chat_context.  Bound: limit.clears.
NewChat ==
  /\ UiFree
  /\ view.chat = "idle"
  /\ active = None
  /\ Len(SelectSeq(journal, LAMBDA e : e.kind = "cleared")) < limit.clears
  /\ Run("ui", <<<<"system", None>>, <<"cleared", None>>>>)
  /\ UNCHANGED <<disk, life, view, queue, emit, drain, work, active, cancelled, history>>

\* close: the queued futures are cancelled one by one, then SESSION_CLOSED.
Close ==
  /\ UiFree
  /\ session' = "closing"
  /\ cancelled' = IF active = None THEN cancelled ELSE cancelled \cup {active}
  /\ Run("ui", [i \in DOMAIN jobs |-> <<"cancel", jobs[i]>>] \o <<<<"closed", None>>>>)
  /\ UNCHANGED <<disk, sessions, crashes, limit, view, queue, emit, drain, work, active, history>>

\* The calls in a script.
Calls(t, what, k) == script[t] # <<>> /\ NextStep(t) = <<what, k>>

Submit(k) ==
  /\ Calls("ui", "submit", k)
  /\ Skip("ui")
  /\ future' = [future EXCEPT ![k] = "queued"]
  /\ jobs' = Append(jobs, k)
  /\ UNCHANGED <<disk, life, view, queue, emit, drain, watched, outcome, active,
                 cancelled, history>>

\* Mutant: a future that is over already gets no callback.
WatchLate(k) ==
  /\ Calls("ui", "watch", k)
  /\ watched' = watched \cup {k}
  /\ Skip("ui")
  /\ UNCHANGED <<disk, life, view, queue, emit, drain, future, jobs, outcome, active,
                 cancelled, history>>

\* add_done_callback: of a future that is over, it runs the callback at once.
Watch(k) ==
  /\ Calls("ui", "watch", k)
  /\ watched' = watched \cup {k}
  /\ IF future[k] = "returned" THEN Run("ui", Done(k, outcome[k])) ELSE Skip("ui")
  /\ UNCHANGED <<disk, life, view, queue, emit, drain, future, jobs, outcome, active,
                 cancelled, history>>

\* Future.cancel: a queued one is cancelled, and its callback runs here.  It stays
\* in the work queue until the worker comes to it.
Cancel(k) ==
  /\ Calls("ui", "cancel", k)
  /\ IF future[k] = "queued"
     THEN /\ future' = [future EXCEPT ![k] = "cancelled"]
          /\ Run("ui", Done(k, "system") \o Tail(script["ui"]))
     ELSE Skip("ui") /\ UNCHANGED future
  /\ UNCHANGED <<disk, life, view, queue, emit, drain, jobs, watched, outcome, active,
                 cancelled, history>>

Release(t, k) ==
  /\ Calls(t, "release", k)
  /\ Skip(t)
  /\ active' = IF active = k THEN None ELSE active
  /\ UNCHANGED <<disk, life, view, queue, emit, drain, work, cancelled, history>>

-----------------------------------------------------------------------------
\* drain_events, from _poll while the window is open and once from _close.
Drains == session \in {"up", "closing"} /\ script["ui"] = <<>>

\* Events that come in during the batch belong to it, until the queue is empty.
\* (One batch takes at most 500 events; the view keeps the last 500 messages.)
Deliver ==
  /\ Drains
  /\ drain = "no"
  /\ queue # <<>>
  /\ drain' = "save"
  /\ view' = After(view, queue)
  /\ queue' = <<>>
  /\ UNCHANGED <<disk, life, script, emit, work, active, cancelled, history>>

\* The count saved is _journal_event_count at this moment.
SaveProjection ==
  /\ drain = "save"
  /\ drain' = "no"
  /\ projection' = [count |-> Len(journal), view |-> view]
  /\ session' = IF session = "closing" THEN "left" ELSE session
  /\ UNCHANGED <<journal, sessions, crashes, limit, view, queue, script, emit, work, active,
                 cancelled, history>>

-----------------------------------------------------------------------------
\* The executor's one worker.
WorkerFree == script["worker"] = <<>> /\ \A k \in Task : future[k] # "running"

\* _WorkItem.run: a future cancelled in the queue is passed over.
Take ==
  /\ WorkerFree
  /\ jobs # <<>>
  /\ jobs' = Tail(jobs)
  /\ future' = IF future[Head(jobs)] = "queued"
               THEN [future EXCEPT ![Head(jobs)] = "running"] ELSE future
  /\ UNCHANGED <<disk, life, view, queue, script, emit, drain, watched, outcome, active,
                 cancelled, history>>

\* A turn or an operation ends; only a turn told to stop ends as cancelled.
\* How an operation ends makes no difference to the view modelled here.
Finish(k, how) ==
  /\ future[k] = "running"
  /\ k \in Operation => how = "assistant"
  /\ how = "system" => k \in cancelled
  /\ future' = [future EXCEPT ![k] = "returned"]
  /\ outcome' = [outcome EXCEPT ![k] = how]
  /\ IF k \in watched THEN Run("worker", Done(k, how)) ELSE UNCHANGED script
  /\ UNCHANGED <<disk, life, view, queue, emit, drain, jobs, watched, active, cancelled,
                 history>>

-----------------------------------------------------------------------------
\* A process ends: what it had in memory is gone.
Forget ==
  /\ session' = "down"
  /\ view' = EmptyView
  /\ queue' = <<>>
  /\ script' = [t \in Thread |-> <<>>]
  /\ emitting' = [t \in Thread |-> None]
  /\ written' = [t \in Thread |-> FALSE]
  /\ journalLock' = None
  /\ drain' = "no"
  /\ future' = [k \in Task |-> "none"]
  /\ jobs' = <<>>
  /\ watched' = {}
  /\ outcome' = [k \in Task |-> None]
  /\ active' = None
  /\ cancelled' = {}

\* The interpreter waits for the worker before it exits.
Exit ==
  /\ session = "left"
  /\ WorkerFree
  /\ Forget
  /\ UNCHANGED <<disk, history, sessions, crashes, limit>>

Crash ==
  /\ session # "down"
  /\ crashes < limit.crashes
  /\ crashes' = crashes + 1
  /\ Forget
  /\ UNCHANGED <<disk, history, sessions, limit>>

\* __init__: the journal is read, the projection taken or rebuilt.
Start ==
  /\ session = "down"
  /\ sessions < limit.sessions
  /\ sessions' = sessions + 1
  /\ session' = "up"
  /\ view' = IF Accepted THEN projection.view ELSE Replay(journal)
  /\ projection' = IF Accepted THEN projection
                   ELSE [count |-> Len(journal), view |-> Replay(journal)]
  /\ Run("ui", <<<<"opened", None>>>>)
  /\ UNCHANGED <<journal, queue, emit, drain, work, active, cancelled,
                 history, crashes, limit>>

Init ==
  /\ journal = <<>>
  /\ projection = None
  /\ session = "down" /\ sessions = 0 /\ crashes = 0
  /\ limit \in Limits
  /\ view = EmptyView
  /\ queue = <<>>
  /\ script = [t \in Thread |-> <<>>]
  /\ emitting = [t \in Thread |-> None]
  /\ written = [t \in Thread |-> FALSE]
  /\ journalLock = None
  /\ drain = "no"
  /\ future = [k \in Task |-> "none"] /\ jobs = <<>> /\ watched = {}
  /\ outcome = [k \in Task |-> None]
  /\ active = None
  /\ cancelled = {}
  /\ history = [k \in {} |-> <<>>]

Emission(t) ==
  \/ ReadHead(t) \/ AppendEvent(t) \/ PutEvent(t)
  \/ \E k \in Task : Release(t, k)
UiStep ==
  \/ Emission("ui")
  \/ \E k \in Task : Submit(k) \/ Watch(k) \/ Cancel(k)
  \/ Deliver \/ SaveProjection
WorkerStep ==
  \/ Emission("worker")
  \/ Take
  \/ \E k \in Task, how \in Outcome : Finish(k, how)
User ==
  \/ \E t \in Turn : SendChat(t)
  \/ \E o \in Operation : StartOperation(o)
  \/ StopChat \/ NewChat \/ Close
Next == UiStep \/ WorkerStep \/ User \/ Start \/ Exit \/ Crash

Spec == Init /\ [][Next]_guiVars

\* Tk goes on polling and the worker running; a model call ends, by its timeout.
FairSpec == Spec /\ WF_guiVars(UiStep) /\ WF_guiVars(WorkerStep) /\ WF_guiVars(Exit)

-----------------------------------------------------------------------------
Recorded == ToSet(Replay(journal).messages)

\* The journal's hash chain holds although two threads append to it, so the next
\* process can read it; and what waits to be shown is in it (_publish).
ChainHolds ==
  /\ \A i \in DOMAIN journal : journal[i].previous = i - 1
  /\ \A i \in DOMAIN queue : queue[i] \in ToSet(journal)
\* A message this process has recorded is shown, waits to be shown or is about to.
\* (Of an earlier process a message may be missing: SaveProjection counts what is in
\* the journal and not yet in the view, and the next Start accepts it by its count.)
OpenedBetween(i, j) == \E n \in i..j : journal[n].kind = "opened"
UnderWay(e) == e \in ToSet(queue) \/ \E t \in Thread : written[t] /\ emitting[t] = e
NothingIsLost ==
  session # "down" /\ script["ui"] # <<<<"opened", None>>>> =>
    \A i \in DOMAIN journal :
      journal[i].kind \in Outcome \cup {"user"} /\ ~OpenedBetween(i, Len(journal)) =>
        \/ [task |-> journal[i].task, role |-> journal[i].kind] \in ToSet(view.messages)
        \/ UnderWay(journal[i])

\* Journal, view and projection keep together while two threads report: nothing is
\* shown, waits to be shown or is saved that the journal does not hold, and nothing
\* that a living process recorded is lost on its way to the view (_publish,
\* drain_events).
ShownIsRecorded ==
  /\ ChainHolds
  /\ NothingIsLost
  /\ ToSet(view.messages) \subseteq Recorded
  /\ projection # None =>
       ToSet(projection.view.messages) \subseteq
         ToSet(Replay(SubSeq(journal, 1, projection.count)).messages)

IndexOf(kind, t) == {i \in DOMAIN journal : journal[i].kind = kind /\ journal[i].task = t}

\* Turns do not overlap in the journal: unless its process ended, a turn has
\* its end recorded, once, before the next one is begun.
TurnsDoNotOverlap ==
  \A s, t \in Turn :
    /\ \A i, j \in IndexOf("finished", s) : i = j
    /\ s # t => \A i \in IndexOf("user", s), j \in IndexOf("user", t) :
         i < j => \/ \E n \in IndexOf("finished", s) : i < n /\ n < j
                 \/ OpenedBetween(i, j)

\* What a turn is told of an earlier turn of the same process is the whole
\* exchange: never a question without the answer the journal has.
WholeExchanges ==
  \A s, t \in Turn :
    future[s] # "none" /\ future[t] # "none" =>
      LET told == ToSet(history[t]) IN
      [task |-> s, role |-> "user"] \in told /\ [task |-> s, role |-> "assistant"] \in Recorded
        => [task |-> s, role |-> "assistant"] \in told

\* The controller is always free again for another turn, and no task of this
\* process is shown running for ever: each end is reached and shown.
EndsAreReached ==
  /\ []<>(active = None)
  /\ []<>(\A k \in view.running : future[k] = "none")

\* With no thread at work and every event delivered, the chat is shown idle.
TerminalIsIdle ==
  /\ session = "up" /\ drain = "no"
  /\ \A t \in Thread : script[t] = <<>>
  /\ queue = <<>> /\ jobs = <<>> /\ WorkerFree
  => view.chat = "idle"
=============================================================================
