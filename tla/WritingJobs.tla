----------------------------- MODULE WritingJobs -----------------------------
(***************************************************************************)
(* ourd_gui/formal_writing_controller.py: documents are written by one     *)
(* worker thread, a job at a time, while the Tk thread submits jobs, asks  *)
(* to stop them, shows their events and closes; with the service the       *)
(* worker runs (ourd/writing_engine/service.py) and the preparation of a   *)
(* governed write, bound to what the user was shown before.  Status, phase *)
(* and message of job_snapshot and the numbers of the events are left out: *)
(* nothing in the program reads them.  So is the limit of 1000 events: a   *)
(* job has some twenty, and only a thread that polls submits jobs.  What a *)
(* job leaves on the disk is kept by the job: the writes of one, done or   *)
(* failed, are never undone.                                               *)
(***************************************************************************)
EXTENDS Naturals, Sequences

CONSTANTS
  None,
  MaxJobs,    \* bound: jobs submitted
  MaxStops,   \* bound: requests to stop
  MaxPhases,  \* bound: phases of the service after its sources are registered
  MaxEdits    \* bound: changes of draft, authority or sources by others

End == {"JOB_COMPLETED", "JOB_FAILED", "JOB_CANCELLED"}
Kind == End \cup {"JOB_QUEUED", "JOB_STARTED", "JOB_PROGRESS", "JOB_CANCEL_REQUESTED"}

ASSUME WritingAssumption ==
  /\ None \notin Nat /\ None \notin [kind : Kind, job : Nat]
  /\ MaxJobs \in Nat /\ MaxStops \in Nat /\ MaxPhases \in Nat \ {0} /\ MaxEdits \in Nat

VARIABLES
  \* Shared by the threads.
  active,     \* _active_job_id
  stopped,    \* jobs whose cancel_event is set
  events,     \* queue of [kind, job]
  tasks,      \* by job: its operation and what the user was shown, [op, shown]
  pending,    \* the job whose task the executor has not begun
  \* The Tk thread.
  ui,         \* what it is at: [pc, job]
  busy,       \* _busy of the view
  last,       \* the last event the view was given
  preview,    \* the GovernedWritePreview the user confirms
  closed,
  \* The worker.
  worker,     \* [pc, job, phase, read]
  \* The disk.
  world,      \* versions of the draft, the authority manifest and the sources
  stored,     \* what jobs have left: [what, job, draft], the draft it was made from
  \* History and bounds.
  ended,      \* jobs whose end the view has shown
  asked,      \* jobs somebody asked to stop
  jobs, stops, edits

shared == <<active, stopped, events, tasks, pending>>
tk == <<ui, busy, last, preview, closed>>
disk == <<world, stored>>
history == <<ended, asked, jobs, stops, edits>>
writingVars == <<shared, tk, worker, disk, history>>

Item == {"draft", "authority", "sources"}
Operation == {"service", "audit", "write"}
Event(kind, job) == [kind |-> kind, job |-> job]
Free == [pc |-> "free", job |-> 0, phase |-> 0, read |-> None]

-----------------------------------------------------------------------------
\* _emit.
Emit(kind, job) == events' = Append(events, Event(kind, job))

(***************************************************************************)
(* submit and submit_governed_write.  Until the task is handed over there  *)
(* is no job to interfere with, so the call is one step.  A menu of the    *)
(* standalone window submits whatever the view shows.                      *)
(***************************************************************************)
Submit(op) ==
  /\ ui.pc = "idle" /\ ~closed
  /\ active = None /\ jobs < MaxJobs
  /\ op = "write" => preview # None
  /\ jobs' = jobs + 1
  /\ active' = jobs'
  /\ Emit("JOB_QUEUED", jobs')
  /\ pending' = jobs'
  /\ tasks' = [job \in 1..jobs' |->
                 IF job = jobs' THEN [op |-> op, shown |-> IF op = "write" THEN preview ELSE None]
                 ELSE tasks[job]]
  /\ preview' = IF op = "write" THEN None ELSE preview
  /\ busy' = TRUE
  /\ UNCHANGED <<stopped, ui, last, closed, worker, disk, ended, asked, stops, edits>>

\* preview_governed_write, from a button of a view that is not busy: draft and
\* authority as they are, the sources as they were when the draft was written.
Preview ==
  /\ ui.pc = "idle" /\ ~closed
  /\ preview = None /\ ~busy
  /\ preview' = [world EXCEPT !["sources"] = 0]
  /\ UNCHANGED <<shared, ui, busy, last, closed, worker, disk, history>>

\* The user does not confirm what the dialog shows.
Decline ==
  /\ ui.pc = "idle" /\ preview # None
  /\ preview' = None
  /\ UNCHANGED <<shared, ui, busy, last, closed, worker, disk, history>>

\* request_cancel finds out which job is active, ...
RequestCancel ==
  /\ ui.pc = "idle" /\ ~closed
  /\ active # None /\ stops < MaxStops
  /\ stops' = stops + 1
  /\ asked' = asked \cup {active}
  /\ ui' = [pc |-> "cancel", job |-> active]
  /\ UNCHANGED <<shared, busy, last, preview, closed, worker, disk, ended, jobs, edits>>

\* ... sets its event without the lock, ...
SetCancel ==
  /\ ui.pc = "cancel"
  /\ stopped' = stopped \cup {ui.job}
  /\ ui' = [ui EXCEPT !.pc = "tell"]
  /\ UNCHANGED <<active, events, tasks, pending, busy, last, preview, closed, worker, disk, history>>

\* ... and tells the view.
TellCancel ==
  /\ ui.pc = "tell"
  /\ Emit("JOB_CANCEL_REQUESTED", ui.job)
  /\ ui' = [pc |-> "idle", job |-> 0]
  /\ UNCHANGED <<active, stopped, tasks, pending, busy, last, preview, closed, worker, disk, history>>

\* Mutant: a job that was stopped is not over for the view.
PollOnly ==
  /\ ui.pc = "idle" /\ ~closed
  /\ events # <<>>
  /\ events' = Tail(events)
  /\ last' = Head(events)
  /\ busy' = (Head(events).kind \notin End \ {"JOB_CANCELLED"})
  /\ ended' = IF Head(events).kind \in End THEN ended \cup {Head(events).job} ELSE ended
  /\ UNCHANGED <<active, stopped, tasks, pending, ui, preview, closed, worker, disk, asked, jobs, stops, edits>>
\* _poll and apply_event: the view is free when a job is over, busy otherwise.
Poll ==
  /\ ui.pc = "idle" /\ ~closed
  /\ events # <<>>
  /\ events' = Tail(events)
  /\ last' = Head(events)
  /\ busy' = (Head(events).kind \notin End)
  /\ ended' = IF Head(events).kind \in End THEN ended \cup {Head(events).job} ELSE ended
  /\ UNCHANGED <<active, stopped, tasks, pending, ui, preview, closed, worker, disk, asked, jobs, stops, edits>>

\* shutdown: a dialog goes with the window, the active job is stopped, ...
Shutdown ==
  /\ ui.pc = "idle" /\ ~closed
  /\ closed' = TRUE
  /\ stopped' = IF active = None THEN stopped ELSE stopped \cup {active}
  /\ asked' = IF active = None THEN asked ELSE asked \cup {active}
  /\ preview' = None
  /\ ui' = [pc |-> "shutdown", job |-> 0]
  /\ UNCHANGED <<active, events, tasks, pending, busy, last, worker, disk, ended, jobs, stops, edits>>

\* ... and after a second at most a task that has not begun is dropped.
DropTask ==
  /\ ui.pc = "shutdown"
  /\ pending' = None
  /\ ui' = [pc |-> "closed", job |-> 0]
  /\ UNCHANGED <<active, stopped, events, tasks, busy, last, preview, closed, worker, disk, history>>

-----------------------------------------------------------------------------
At(pc) == worker.pc = pc
Task == tasks[worker.job]
To(pc) == worker' = [worker EXCEPT !.pc = pc]
\* The job goes on or raises something else than a cancellation.
OnOrFail(pc) == To(pc) \/ To("failed")
Raised == worker.job \in stopped

Take ==
  /\ At("free") /\ pending # None
  /\ worker' = [Free EXCEPT !.pc = "resolve", !.job = pending]
  /\ pending' = None
  /\ UNCHANGED <<active, stopped, events, tasks, tk, disk, history>>

\* _resolve_form and compile_request refuse forms and identifiers.
Refuse ==
  /\ At("resolve") /\ Task.op # "write"
  /\ To("failed")
  /\ UNCHANGED <<shared, tk, disk, history>>

Start ==
  /\ At("resolve")
  /\ Emit("JOB_STARTED", worker.job)
  /\ To(CASE Task.op = "service" -> "progress" [] Task.op = "audit" -> "policy" [] Task.op = "write" -> "check")
  /\ UNCHANGED <<active, stopped, tasks, pending, tk, disk, history>>

AfterCheck ==
  CASE At("complete") -> "result"
    [] At("recheck") -> "prepare"
    [] At("check") -> CASE Task.op = "write" -> "draft"
                        [] Task.op # "write" /\ worker.phase = 0 -> "register"
                        [] Task.op # "write" /\ worker.phase > 0 -> "work"

\* execute reports a phase, ...
Progress ==
  /\ At("progress")
  /\ Emit("JOB_PROGRESS", worker.job)
  /\ To("check")
  /\ UNCHANGED <<active, stopped, tasks, pending, tk, disk, history>>

\* ... and looks whether it is to stop, like _run_governed_write before it
\* reads and before it prepares.
Check ==
  /\ At("check") \/ At("complete") \/ At("recheck")
  /\ IF Raised THEN To("cancelled")
     ELSE To(AfterCheck)
  /\ UNCHANGED <<shared, tk, disk, history>>

Artifact(what) == [what |-> what, job |-> worker.job, draft |-> worker.read]
\* One write, with what follows it in the same step, may fail.
Store(what, pc) ==
  \/ stored' = stored \cup {Artifact(what)} /\ OnOrFail(pc)
  \/ UNCHANGED stored /\ To("failed")
NextPhase == worker' = [worker EXCEPT !.pc = "progress", !.phase = @ + 1]

\* _resolve_sources: each source given by its path, if any, is extracted, stored and
\* entered in the index; one that cannot be leaves those before it there.
Register ==
  /\ At("register")
  /\ stored' \in {stored, stored \cup {Artifact("sources")}}
  /\ NextPhase \/ To("failed")
  /\ UNCHANGED <<shared, tk, world, history>>

\* Sources are matched and explained, a document is planned and rendered; an
\* operation ends after some phase.
Work ==
  /\ At("work")
  /\ \/ worker.phase < MaxPhases /\ NextPhase
     \/ OnOrFail("complete")
  /\ UNCHANGED <<shared, tk, disk, history>>

\* _persist: the result, then the draft, if there is one, and with some a proposal,
\* each with one replacement of its own.
PersistResult ==
  /\ At("result")
  /\ Store("result", "text")
  /\ UNCHANGED <<shared, tk, world, history>>
PersistDraft ==
  /\ At("text")
  /\ Store("draft", "persisted")
  /\ UNCHANGED <<shared, tk, world, history>>
Persisted ==
  /\ At("persisted")
  /\ Emit("JOB_PROGRESS", worker.job)
  /\ To("policy")
  /\ UNCHANGED <<active, stopped, tasks, pending, tk, disk, history>>

\* _enforce_result_policy and find_result.
Qualify ==
  /\ At("policy")
  /\ OnOrFail("completed")
  /\ UNCHANGED <<shared, tk, disk, history>>

\* _run_governed_write reads the draft and compares it with what was shown, ...
ReadDraft ==
  /\ At("draft")
  /\ IF world["draft"] = Task.shown["draft"]
     THEN worker' = [worker EXCEPT !.pc = "authority", !.read = world["draft"]]
     ELSE To("failed")
  /\ UNCHANGED <<shared, tk, disk, history>>
\* ... then the authority and the sources.
Compare ==
  /\ At("authority") \/ At("sources")
  /\ LET item == worker.pc
     IN IF world[item] = Task.shown[item]
        THEN To(IF item = "authority" THEN "sources" ELSE "recheck")
        ELSE To("failed")
  /\ UNCHANGED <<shared, tk, disk, history>>

Written == {"governance", "transaction", "action"}
\* Mutant: what is prepared is the draft on the disk.
PrepareOnDisk ==
  /\ At("prepare")
  /\ \E done \in {{}, {"governance"}, Written \ {"action"}, Written} :
       /\ stored' = stored \cup {[Artifact(what) EXCEPT !.draft = world["draft"]] : what \in done}
       /\ IF done = Written THEN OnOrFail("completed") ELSE To("failed")
  /\ UNCHANGED <<shared, tk, world, history>>
\* prepare_governed_formal_write: governance, then a transaction, then an action for
\* the draft that was read, each saved by an agent of its own, which may refuse any.
Prepare ==
  /\ At("prepare")
  /\ \E done \in {{}, {"governance"}, Written \ {"action"}, Written} :
       /\ stored' = stored \cup {Artifact(what) : what \in done}
       /\ IF done = Written THEN OnOrFail("completed") ELSE To("failed")
  /\ UNCHANGED <<shared, tk, world, history>>

EndOf == [completed |-> "JOB_COMPLETED", failed |-> "JOB_FAILED", cancelled |-> "JOB_CANCELLED"]
\* Mutant: a job that was stopped just ends.
FinishQuietly ==
  /\ worker.pc \in DOMAIN EndOf
  /\ IF At("cancelled") THEN UNCHANGED events ELSE Emit(EndOf[worker.pc], worker.job)
  /\ To("clear")
  /\ UNCHANGED <<active, stopped, tasks, pending, tk, disk, history>>
\* The end is told, ...
Finish ==
  /\ worker.pc \in DOMAIN EndOf
  /\ Emit(EndOf[worker.pc], worker.job)
  /\ To("clear")
  /\ UNCHANGED <<active, stopped, tasks, pending, tk, disk, history>>
\* ... and then the job is not active any more.
Clear ==
  /\ At("clear")
  /\ active' = IF active = worker.job THEN None ELSE active
  /\ worker' = Free
  /\ UNCHANGED <<stopped, events, tasks, pending, tk, disk, history>>

\* Somebody else changes what the preview was made from.
Change(item) ==
  /\ edits < MaxEdits
  /\ edits' = edits + 1
  /\ world' = [world EXCEPT ![item] = edits']
  /\ UNCHANGED <<shared, tk, worker, stored, ended, asked, jobs, stops>>

-----------------------------------------------------------------------------
\* A draft of an earlier session is there.
Init ==
  /\ active = None /\ stopped = {} /\ events = <<>> /\ tasks = <<>> /\ pending = None
  /\ ui = [pc |-> "idle", job |-> 0] /\ busy = FALSE /\ last = None
  /\ preview = None /\ closed = FALSE
  /\ worker = Free
  /\ world = [item \in Item |-> 0] /\ stored = {}
  /\ ended = {} /\ asked = {} /\ jobs = 0 /\ stops = 0 /\ edits = 0

TkStep == SetCancel \/ TellCancel \/ Poll \/ DropTask
WorkerStep ==
  \/ Take \/ Refuse \/ Start \/ Progress \/ Check \/ Register \/ Work
  \/ PersistResult \/ PersistDraft \/ Persisted \/ Qualify
  \/ ReadDraft \/ Compare \/ Prepare \/ Finish \/ Clear
Environment ==
  \/ \E op \in Operation : Submit(op)
  \/ Preview \/ Decline \/ RequestCancel \/ Shutdown
  \/ \E item \in Item : Change(item)
Next == TkStep \/ WorkerStep \/ Environment

Spec == Init /\ [][Next]_writingVars

\* Both threads go on: Tk serves its callbacks, and no phase runs forever.
FairSpec == Spec /\ WF_writingVars(TkStep) /\ WF_writingVars(WorkerStep)

-----------------------------------------------------------------------------
Said == {events[i] : i \in DOMAIN events}

\* What a job has left on the disk, and what it promises to.
Left(job) == {s.what : s \in {t \in stored : t.job = job}}
Promised(job) ==
  CASE tasks[job].op = "service" -> {"result", "draft"}
    [] tasks[job].op = "write" -> Written
    [] tasks[job].op = "audit" -> {}

(***************************************************************************)
(* What the end of a job says is so.  "COMPLETED" has left all that its    *)
(* operation promises and nothing else: the result and its draft, or a     *)
(* transaction and its action, which are for the very draft the user was   *)
(* shown.  "CANCELLED" is only said of a job somebody asked to stop, and   *)
(* left neither: only the sources that a job registers before the service  *)
(* looks whether it is to stop (_resolve_sources) stay there, with any     *)
(* end.  "FAILED" promises nothing.  And a job is said to end once.        *)
(***************************************************************************)
EndsAreTrue ==
  /\ \A s \in stored : tasks[s.job].op = "write" => s.draft = tasks[s.job].shown["draft"]
  /\ \A e \in Said :
       /\ e.kind = "JOB_CANCELLED" => e.job \in asked /\ Left(e.job) \subseteq {"sources"}
       /\ e.kind = "JOB_COMPLETED" => Left(e.job) \ {"sources"} = Promised(e.job)
       /\ e.kind \in End => e.job \notin ended
  /\ \A i, j \in DOMAIN events :
       events[i].kind \in End /\ events[j].kind \in End /\ events[i].job = events[j].job => i = j

AllShown == events = <<>> /\ ui.pc = "idle" /\ ~closed
AtWork == active # None /\ active \notin ended
ToldTooLate == last # None /\ last.kind = "JOB_CANCEL_REQUESTED" /\ last.job \in ended

(***************************************************************************)
(* When everything was shown, the view is busy exactly while a job is at   *)
(* work.  There is one exception the code has: a request to stop a job     *)
(* that is told after the job has ended leaves the view busy with nothing. *)
(***************************************************************************)
ViewIsRight == AllShown => (busy <=> AtWork \/ ToldTooLate)

\* However many jobs were submitted, all of them come to an end that is shown,
\* unless the window is closed.
EveryEndIsShown == []<>(1..jobs \subseteq ended \/ closed)
=============================================================================
