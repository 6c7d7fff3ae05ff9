-------------------------- MODULE WritingJobsProofs --------------------------
(***************************************************************************)
(* Proofs about WritingJobs, for any number of jobs, requests to stop,     *)
(* phases and changes by others.                                           *)
(***************************************************************************)
EXTENDS WritingJobs, SequenceTheorems, TLAPS

Told == [kind : Kind, job : Nat]
Versions == [Item -> Nat]
Submitted == [op : Operation, shown : Versions \cup {None}]
What == {"sources", "result", "draft"} \cup Written
\* The job has left nothing but its sources at these steps, ...
Clean == {"resolve", "progress", "check", "register", "work", "complete", "result", "draft",
          "authority", "sources", "recheck", "prepare", "cancelled"}
Step == Clean \cup {"free", "text", "persisted", "policy", "completed", "failed", "clear"}
\* ... it is one of the service at these, ...
Served == {"progress", "register", "work", "complete", "result", "text", "persisted"}
\* ... and at these it has read the draft it was shown.
Read == {"authority", "sources", "recheck", "prepare"}

Worker == [pc : Step, job : Nat, phase : Nat, read : Nat \cup {None}]

Typed ==
  /\ jobs \in Nat
  /\ active \in {None} \cup (1..jobs)
  /\ stopped \subseteq asked /\ asked \subseteq 1..jobs
  /\ events \in Seq(Told)
  /\ tasks \in [1..jobs -> Submitted]
  /\ pending \in {None} \cup 1..jobs
  /\ ui \in [pc : {"idle", "cancel", "tell", "shutdown", "closed"}, job : Nat]
  /\ busy \in BOOLEAN
  /\ last \in Told \cup {None}
  /\ preview \in Versions \cup {None}
  /\ worker \in Worker
  /\ world \in Versions
  /\ stored \subseteq [what : What, job : 1..jobs, draft : Nat \cup {None}]
  /\ ended \subseteq 1..jobs
  /\ edits \in Nat
  /\ ui.pc \in {"cancel", "tell"} => ui.job \in asked

(***************************************************************************)
(* The active job is the last one submitted; it waits for the worker, the  *)
(* worker has it, or it was dropped when the window closed.                *)
(***************************************************************************)
Owned ==
  /\ active \in {None, jobs}
  /\ pending # None => active = pending /\ At("free")
  /\ IF At("free") THEN worker.job = 0 ELSE active = worker.job

\* What a job has left besides its sources, and what an operation promises to.
Rest(left, job) == {s.what : s \in {t \in left : t.job = job}} \ {"sources"}
Owed(op) ==
  CASE op = "service" -> {"result", "draft"} [] op = "write" -> Written [] op = "audit" -> {}

\* The job at work has left what its step says.
Untouched ==
  /\ active # None /\ (At("free") \/ worker.pc \in Clean) => Rest(stored, active) = {}
  /\ At("text") => Rest(stored, worker.job) = {"result"}
  /\ At("persisted") => Rest(stored, worker.job) = {"result", "draft"}
  /\ worker.pc \in {"policy", "completed"} => Rest(stored, worker.job) = Owed(Task.op)
  /\ worker.pc \in Served => Task.op = "service"
  /\ At("check") => Task.op # "audit"
  /\ worker.pc \in Read \cup {"draft"} => Task.op = "write"
  /\ worker.pc \in Read => worker.read = Task.shown["draft"]
  /\ \A s \in stored : tasks[s.job].op = "write" => s.draft = tasks[s.job].shown["draft"]
  /\ At("cancelled") => worker.job \in asked

\* A job is over when its end was shown or is on its way.
Over(job) == job \in ended \/ \E e \in Said : e.kind \in End /\ e.job = job
Once(seq) ==
  \A i, j \in DOMAIN seq :
    seq[i].kind \in End /\ seq[j].kind \in End /\ seq[i].job = seq[j].job => i = j
EndsTold ==
  /\ \A e \in Said : e.job \in 1..jobs
  /\ \A e \in Said : e.kind \in End => e.job \notin ended
  /\ \A e \in Said : e.kind = "JOB_CANCELLED" => e.job \in asked /\ Rest(stored, e.job) = {}
  /\ \A e \in Said : e.kind = "JOB_COMPLETED" => Rest(stored, e.job) = Owed(tasks[e.job].op)
  /\ Once(events)
  /\ active # None => (Over(active) <=> At("clear"))

(***************************************************************************)
(* What was last said, shown or on its way, tells whether a job is at      *)
(* work, except for a request to stop that is told too late.               *)
(***************************************************************************)
Latest == IF events = <<>> THEN last ELSE events[Len(events)]
LatestIsRight ==
  /\ Latest # None /\ Latest.kind \notin End
       <=> \/ active # None /\ ~Over(active)
           \/ Latest # None /\ Latest.kind = "JOB_CANCEL_REQUESTED" /\ Over(Latest.job)
  /\ ui.pc \in {"cancel", "tell"} => Over(ui.job) \/ ui.job = active
  /\ events = <<>> => (busy <=> last # None /\ last.kind \notin End)

IInv == Typed /\ Owned /\ Untouched /\ EndsTold /\ LatestIsRight

-----------------------------------------------------------------------------
\* An event is said after those before it.
LEMMA Appended ==
  ASSUME Typed, NEW kind \in Kind, NEW job \in Nat, Emit(kind, job)
  PROVE  /\ Event(kind, job) \in Told
         /\ events' \in Seq(Told) /\ events' # <<>>
         /\ Said' = Said \cup {Event(kind, job)}
         /\ Latest' = Event(kind, job)
         /\ Once(events) /\ (kind \in End => \A e \in Said : e.kind \in End => e.job # job)
              => Once(events')
<1>. DEFINE e == Event(kind, job)
<1>1. e \in Told /\ e.kind = kind /\ e.job = job
  BY DEF Event, Told
<1>2. events \in Seq(Told) /\ events' = Append(events, e)
  BY DEF Typed, Emit
<1>3. /\ events' \in Seq(Told) /\ Len(events') = Len(events) + 1 /\ DOMAIN events' = 1..Len(events')
      /\ \A i \in 1..Len(events) : events'[i] = events[i]
      /\ events'[Len(events')] = e /\ Len(events) \in Nat /\ DOMAIN events = 1..Len(events)
  BY <1>1, <1>2
<1>4. events' # <<>>
  BY <1>3
<1>. HIDE DEF e
<1>5. Said' = Said \cup {e}
  BY <1>3 DEF Said
<1>6. Latest' = e
  BY <1>3, <1>4 DEF Latest
<1>7. ASSUME Once(events), kind \in End => \A f \in Said : f.kind \in End => f.job # job
      PROVE  Once(events')
  <2>. SUFFICES ASSUME NEW i \in DOMAIN events', NEW j \in DOMAIN events',
                       events'[i].kind \in End, events'[j].kind \in End,
                       events'[i].job = events'[j].job
                PROVE  i = j
    BY DEF Once
  <2>1. CASE i \in DOMAIN events /\ j \in DOMAIN events
    BY <1>3, <1>7, <2>1 DEF Once
  <2>2. \A k \in DOMAIN events : events'[k] \in Said
    BY <1>3 DEF Said
  <2>3. ~(i \in DOMAIN events /\ j = Len(events'))
    BY <1>1, <1>3, <1>7, <2>2
  <2>4. ~(j \in DOMAIN events /\ i = Len(events'))
    BY <1>1, <1>3, <1>7, <2>2
  <2>. QED
    BY <1>3, <2>1, <2>3, <2>4
<1>. QED
  BY <1>1, <1>3, <1>4, <1>5, <1>6, <1>7 DEF e

\* The view is given what was said first.
LEMMA Given ==
  ASSUME Typed, Poll
  PROVE  /\ last' \in Told /\ events' \in Seq(Told)
         /\ Said = Said' \cup {last'}
         /\ Latest' = Latest
         /\ Once(events) => /\ Once(events')
                            /\ last'.kind \in End =>
                                 \A e \in Said' : e.kind \in End => e.job # last'.job
<1>1. events \in Seq(Told) /\ events # <<>> /\ events' = Tail(events) /\ last' = Head(events)
  BY DEF Typed, Poll
<1>2. /\ events' \in Seq(Told) /\ Len(events) \in Nat \ {0} /\ Len(events') = Len(events) - 1
      /\ \A i \in 1..Len(events') : events'[i] = events[i + 1]
      /\ last' = events[1] /\ last' \in Told
      /\ DOMAIN events = 1..Len(events) /\ DOMAIN events' = 1..Len(events')
  BY <1>1
<1>3. Said = Said' \cup {last'}
  <2>1. \A i \in 1..Len(events) : i = 1 \/ (i - 1 \in 1..Len(events') /\ events[i] = events'[i - 1])
    BY <1>2
  <2>2. Said \subseteq Said' \cup {last'}
    BY <1>2, <2>1 DEF Said
  <2>3. \A i \in 1..Len(events') : i + 1 \in 1..Len(events) /\ events'[i] = events[i + 1]
    BY <1>2
  <2>4. Said' \subseteq Said
    BY <1>2, <2>3 DEF Said
  <2>5. last' \in Said
    BY <1>2 DEF Said
  <2>. QED
    BY <2>2, <2>4, <2>5
<1>4. Latest' = Latest
  <2>1. CASE Len(events) = 1
    BY <1>1, <1>2, <2>1 DEF Latest
  <2>2. CASE Len(events) # 1
    <3>1. events' # <<>> /\ events'[Len(events')] = events[Len(events)]
      BY <1>2, <2>2
    <3>. QED
      BY <1>1, <3>1 DEF Latest
  <2>. QED
    BY <2>1, <2>2
<1>5. ASSUME Once(events)
      PROVE  /\ Once(events')
             /\ last'.kind \in End => \A e \in Said' : e.kind \in End => e.job # last'.job
  <2>1. ASSUME NEW i \in DOMAIN events', NEW j \in DOMAIN events',
               events'[i].kind \in End, events'[j].kind \in End,
               events'[i].job = events'[j].job
        PROVE  i = j
    BY SMTT(60), <1>2, <1>5, <2>1 DEF Once
  <2>2. ASSUME NEW i \in DOMAIN events', events'[i].kind \in End, last'.kind \in End,
               events'[i].job = last'.job
        PROVE  FALSE
    BY <1>2, <1>5, <2>2 DEF Once
  <2>. QED
    BY <2>1, <2>2 DEF Once, Said
<1>. QED
  BY <1>2, <1>3, <1>4, <1>5

\* What a job writes is added to what it has left, and to nothing else.
LEMMA Adds ==
  ASSUME NEW left, NEW more, NEW job, NEW done,
         left \subseteq more,
         \A s \in more \ left : s.job = job /\ s.what \in done,
         \A what \in done : \E s \in more : s.job = job /\ s.what = what
  PROVE  /\ Rest(more, job) = Rest(left, job) \cup (done \ {"sources"})
         /\ \A other : other # job => Rest(more, other) = Rest(left, other)
  BY DEF Rest

\* What there is to add.
Made(done) == {Artifact(what) : what \in done}
LEMMA Kept ==
  ASSUME NEW done \in SUBSET What, stored' = stored \cup Made(done)
  PROVE  /\ Rest(stored', worker.job) = Rest(stored, worker.job) \cup (done \ {"sources"})
         /\ \A other : other # worker.job => Rest(stored', other) = Rest(stored, other)
         /\ \A s \in stored' \ stored : /\ s.job = worker.job /\ s.draft = worker.read
                                      /\ s \in [what : What, job : {worker.job}, draft : {worker.read}]
<1>1. \A what \in done : /\ Artifact(what) \in stored' /\ Artifact(what).what = what
                         /\ Artifact(what).job = worker.job /\ Artifact(what).draft = worker.read
                         /\ Artifact(what) \in [what : What, job : {worker.job}, draft : {worker.read}]
  BY DEF Artifact, Made
<1>2. \A s \in stored' \ stored : \E what \in done : s = Artifact(what)
  BY DEF Made
<1>3. \A s \in stored' \ stored : s.job = worker.job /\ s.what \in done /\ s.draft = worker.read
  BY <1>1, <1>2
<1>4. \A s \in stored' \ stored : s \in [what : What, job : {worker.job}, draft : {worker.read}]
  BY <1>1, <1>2
<1>5. \A what \in done : \E s \in stored' : s.job = worker.job /\ s.what = what
  BY <1>1
<1>6. stored \subseteq stored' /\ \A s \in stored' \ stored : s.job = worker.job /\ s.what \in done
  BY <1>3
<1>7. /\ Rest(stored', worker.job) = Rest(stored, worker.job) \cup (done \ {"sources"})
      /\ \A other : other # worker.job => Rest(stored', other) = Rest(stored, other)
  <2>. DEFINE more == stored'
  <2>1. /\ stored \subseteq more
        /\ \A s \in more \ stored : s.job = worker.job /\ s.what \in done
        /\ \A what \in done : \E s \in more : s.job = worker.job /\ s.what = what
    BY <1>5, <1>6
  <2>. HIDE DEF more
  <2>2. /\ Rest(more, worker.job) = Rest(stored, worker.job) \cup (done \ {"sources"})
        /\ \A other : other # worker.job => Rest(more, other) = Rest(stored, other)
    BY <2>1, Adds
  <2>. QED
    BY <2>2 DEF more
<1>. QED
  BY <1>3, <1>4, <1>7

\* One write, done or not.
LEMMA Stores ==
  ASSUME NEW what \in What, NEW step, Store(what, step)
  PROVE  \/ stored' = stored /\ To("failed")
         \/ OnOrFail(step) /\ stored' = stored \cup Made({what})
  BY DEF Store, Made

\* A step of the worker that keeps its job.
LEMMA Moves ==
  ASSUME worker \in Worker, NEW step \in Step, To(step)
  PROVE  /\ worker' \in Worker /\ worker'.pc = step
         /\ worker'.job = worker.job
         /\ worker'.phase = worker.phase /\ worker'.read = worker.read
  BY DEF Worker, To

\* What the types say of a worker.
LEMMA OfWorker ==
  ASSUME worker \in Worker
  PROVE  /\ worker.pc \in Step /\ worker.job \in Nat
         /\ worker.phase \in Nat /\ worker.read \in Nat \cup {None}
  BY DEF Worker

\* What the types say of what the job at work was submitted with.
LEMMA OfTask ==
  ASSUME IInv, ~At("free")
  PROVE  /\ worker.job \in 1..jobs /\ active = worker.job /\ Task \in Submitted
         /\ Task.op \in Operation
<1>1. active = worker.job /\ active \in {None} \cup 1..jobs /\ worker \in Worker
  BY DEF IInv, Owned, Typed
<1>2. worker.job \in 1..jobs
  BY <1>1, OfWorker, WritingAssumption
<1>. QED
  BY <1>1, <1>2 DEF IInv, Typed, Task, Submitted

\* What it stores has its type.
LEMMA KeptTyped ==
  ASSUME IInv, ~At("free"), NEW done \in SUBSET What, stored' = stored \cup Made(done)
  PROVE  stored' \subseteq [what : What, job : 1..jobs, draft : Nat \cup {None}]
<1>1. worker.job \in 1..jobs /\ worker.read \in Nat \cup {None}
  BY OfTask, OfWorker DEF IInv, Typed
<1>2. [what : What, job : {worker.job}, draft : {worker.read}]
        \subseteq [what : What, job : 1..jobs, draft : Nat \cup {None}]
  BY <1>1
<1>3. stored \subseteq [what : What, job : 1..jobs, draft : Nat \cup {None}]
  BY DEF IInv, Typed
<1>4. \A s \in stored' \ stored : s \in [what : What, job : {worker.job}, draft : {worker.read}]
  BY Kept
<1>. QED
  BY <1>2, <1>3, <1>4

\* What a job starts with.
LEMMA Starts ==
  ASSUME IInv, Start
  PROVE  \/ To("progress") /\ Task.op = "service"
         \/ To("policy") /\ Task.op = "audit"
         \/ To("check") /\ Task.op = "write"
<1>1. Task.op \in {"service", "audit", "write"}
  BY OfTask DEF Start, At, Operation
<1>2. CASE Task.op = "service"
  BY <1>2 DEF Start
<1>3. CASE Task.op = "audit"
  BY <1>3 DEF Start
<1>4. CASE Task.op = "write"
  BY <1>4 DEF Start
<1>. QED
  BY <1>1, <1>2, <1>3, <1>4

\* Every step leaves a worker.
LEMMA Where ==
  ASSUME IInv, WorkerStep
  PROVE  worker' \in Worker
<1>a. worker \in Worker /\ pending \in {None} \cup 1..jobs /\ jobs \in Nat /\ world \in Versions
      /\ Untouched
  BY DEF IInv, Typed
<1>. USE <1>a DEF Step, Clean
<1>1. CASE Take
  <2>1. worker' = [pc |-> "resolve", job |-> pending, phase |-> 0, read |-> None]
    BY <1>1 DEF Take, Free
  <2>2. pending \in Nat
    BY <1>1 DEF Take
  <2>. QED
    BY <2>1, <2>2 DEF Worker
<1>2. CASE Refuse
  BY <1>2, Moves DEF Refuse
<1>3. CASE Start
  <2>1. PICK step \in {"progress", "policy", "check"} : To(step)
    BY <1>3, Starts
  <2>. QED
    BY <2>1, Moves
<1>4. CASE Progress
  BY <1>4, Moves DEF Progress
<1>5. CASE Check
  <2>1. PICK step \in {"cancelled", "result", "prepare", "draft", "register", "work"} : To(step)
    BY <1>5, OfWorker DEF Check, AfterCheck, At
  <2>. QED
    BY <2>1, Moves
<1>6. CASE NextPhase
  <2>1. worker.phase + 1 \in Nat
    BY OfWorker
  <2>. QED
    BY <1>6, <2>1 DEF Worker, NextPhase
<1>7. CASE Persisted \/ Qualify \/ Compare
  BY <1>7, Moves DEF Persisted, Qualify, Compare, OnOrFail
<1>8. CASE ReadDraft
  <2>1. CASE worker' = [worker EXCEPT !.pc = "authority", !.read = world["draft"]]
    BY <2>1 DEF Worker, Versions, Item
  <2>. QED
    BY <1>8, <2>1, Moves DEF ReadDraft
<1>9. CASE Finish
  BY <1>9, Moves DEF Finish
<1>10. CASE Clear
  <2>1. Free \in Worker
    BY DEF Free, Worker
  <2>. QED
    BY <1>10, <2>1 DEF Clear, Free
<1>11. CASE Register \/ Work
  BY <1>6, <1>11, Moves DEF Register, Work, OnOrFail
<1>12. CASE PersistResult \/ PersistDraft \/ Prepare
  BY <1>12, Moves DEF PersistResult, PersistDraft, Store, Prepare, OnOrFail
<1>. QED
  BY <1>1, <1>2, <1>3, <1>4, <1>5, <1>7, <1>8, <1>9, <1>10, <1>11, <1>12 DEF WorkerStep

\* Every step keeps the types.
LEMMA TypedStep == IInv /\ [Next]_writingVars => Typed'
<1>. SUFFICES ASSUME IInv, [Next]_writingVars PROVE Typed'
  OBVIOUS
<1>a. Typed /\ Owned /\ EndsTold /\ worker \in Worker
  BY DEF IInv, Typed
<1>. USE DEF shared, tk, disk, history
<1>1. ASSUME NEW op \in Operation, Submit(op)
       PROVE  Typed'
  <2>1. "JOB_QUEUED" \in Kind /\ jobs' \in Nat
    BY <1>1, <1>a, OfWorker DEF Submit, Kind, Typed
  <2>2. events' \in Seq(Told)
    BY <1>1, <1>a, <2>1, Appended DEF Submit
  <2>3. preview' \in Versions \cup {None} /\ jobs' = jobs + 1 /\ jobs \in Nat /\ pending' = jobs'
    BY <1>1, <1>a DEF Submit, Typed
  <2>4. \A shown \in Versions \cup {None} : [op |-> op, shown |-> shown] \in Submitted
    BY DEF Submitted
  <2>5. \A job \in 1..jobs' : job # jobs' => job \in 1..jobs /\ tasks[job] \in Submitted
    BY <1>a, <2>3 DEF Typed
  <2>6. tasks' \in [1..jobs' -> Submitted]
    BY <1>1, <1>a, <2>4, <2>5 DEF Submit, Typed
  <2>7. 1..jobs \subseteq 1..jobs' /\ jobs' \in 1..jobs'
    BY <2>1, <2>3
  <2>8. stored' \subseteq [what : What, job : 1..jobs', draft : Nat \cup {None}]
    BY <1>1, <1>a, <2>7 DEF Submit, Typed
  <2>. QED
    BY <1>1, <1>a, <2>2, <2>3, <2>6, <2>7, <2>8 DEF Submit, Typed
<1>2. CASE Preview
  <2>1. preview' \in Versions
    BY <1>2, <1>a DEF Preview, Typed, Versions, Item
  <2>. QED
    BY <1>2, <1>a, <2>1 DEF Preview, Typed
<1>3. CASE Decline
  BY <1>3, <1>a DEF Decline, Typed
<1>4. CASE RequestCancel
  <2>1. active \in 1..jobs /\ active \in Nat
    BY <1>4, <1>a DEF RequestCancel, Typed
  <2>2. ui' \in [pc : {"idle", "cancel", "tell", "shutdown", "closed"}, job : Nat]
        /\ ui'.job = active
    BY <1>4, <2>1 DEF RequestCancel
  <2>. QED
    BY <1>4, <1>a, <2>1, <2>2 DEF RequestCancel, Typed
<1>5. CASE SetCancel
  BY <1>5, <1>a DEF SetCancel, Typed
<1>6. CASE TellCancel
  <2>1. "JOB_CANCEL_REQUESTED" \in Kind /\ ui.job \in Nat
    BY <1>6, <1>a, OfWorker DEF TellCancel, Kind, Typed
  <2>2. events' \in Seq(Told)
    BY <1>6, <1>a, <2>1, Appended DEF TellCancel
  <2>. QED
    BY <1>6, <1>a, <2>2 DEF TellCancel, Typed
<1>7. CASE Poll
  <2>1. last' \in Told /\ events' \in Seq(Told) /\ last' \in Said
    BY <1>7, <1>a, Given
  <2>2. last'.job \in 1..jobs
    BY <1>a, <2>1 DEF EndsTold
  <2>. QED
    BY <1>7, <1>a, <2>1, <2>2 DEF Poll, Typed
<1>8. CASE Shutdown
  BY <1>8, <1>a DEF Shutdown, Typed
<1>9. CASE DropTask
  BY <1>9, <1>a DEF DropTask, Typed
<1>10. CASE Take
  <2>1. worker' \in Worker
    BY <1>10, <1>a, Where DEF WorkerStep
  <2>. QED
    BY <1>10, <1>a, <2>1 DEF Take, Typed
<1>11. CASE Refuse
  <2>1. worker' \in Worker
    BY <1>11, <1>a, Where DEF WorkerStep
  <2>. QED
    BY <1>11, <1>a, <2>1 DEF Refuse, Typed
<1>12. CASE Start
  <2>1. "JOB_STARTED" \in Kind /\ worker.job \in Nat
    BY <1>12, <1>a, OfWorker DEF Start, Kind, Typed
  <2>2. events' \in Seq(Told)
    BY <1>12, <1>a, <2>1, Appended DEF Start
  <2>3. worker' \in Worker
    BY <1>12, <1>a, Where DEF WorkerStep
  <2>. QED
    BY <1>12, <1>a, <2>2, <2>3 DEF Start, Typed
<1>13. CASE Progress
  <2>1. "JOB_PROGRESS" \in Kind /\ worker.job \in Nat
    BY <1>13, <1>a, OfWorker DEF Progress, Kind, Typed
  <2>2. events' \in Seq(Told)
    BY <1>13, <1>a, <2>1, Appended DEF Progress
  <2>3. worker' \in Worker
    BY <1>13, <1>a, Where DEF WorkerStep
  <2>. QED
    BY <1>13, <1>a, <2>2, <2>3 DEF Progress, Typed
<1>14. CASE Check
  <2>1. worker' \in Worker
    BY <1>14, <1>a, Where DEF WorkerStep
  <2>. QED
    BY <1>14, <1>a, <2>1 DEF Check, Typed
<1>15. CASE Work
  <2>1. worker' \in Worker
    BY <1>15, <1>a, Where DEF WorkerStep
  <2>. QED
    BY <1>15, <1>a, <2>1 DEF Work, Typed
<1>16. CASE PersistResult
  <2>1. worker' \in Worker
    BY <1>16, <1>a, Where DEF WorkerStep
  <2>2. "result" \in What
    BY DEF What
  <2>3. stored' = stored \/ stored' = stored \cup Made({"result"})
    BY <1>16, <2>2, Stores DEF PersistResult
  <2>4. stored' \subseteq [what : What, job : 1..jobs, draft : Nat \cup {None}]
    BY <1>16, <1>a, <2>2, <2>3, KeptTyped DEF PersistResult, At, Typed
  <2>. QED
    BY <1>16, <1>a, <2>1, <2>4 DEF PersistResult, Typed
<1>17. CASE PersistDraft
  <2>1. worker' \in Worker
    BY <1>17, <1>a, Where DEF WorkerStep
  <2>2. "draft" \in What
    BY DEF What
  <2>3. stored' = stored \/ stored' = stored \cup Made({"draft"})
    BY <1>17, <2>2, Stores DEF PersistDraft
  <2>4. stored' \subseteq [what : What, job : 1..jobs, draft : Nat \cup {None}]
    BY <1>17, <1>a, <2>2, <2>3, KeptTyped DEF PersistDraft, At, Typed
  <2>. QED
    BY <1>17, <1>a, <2>1, <2>4 DEF PersistDraft, Typed
<1>18. CASE Persisted
  <2>1. "JOB_PROGRESS" \in Kind /\ worker.job \in Nat
    BY <1>18, <1>a, OfWorker DEF Persisted, Kind, Typed
  <2>2. events' \in Seq(Told)
    BY <1>18, <1>a, <2>1, Appended DEF Persisted
  <2>3. worker' \in Worker
    BY <1>18, <1>a, Where DEF WorkerStep
  <2>. QED
    BY <1>18, <1>a, <2>2, <2>3 DEF Persisted, Typed
<1>19. CASE Qualify
  <2>1. worker' \in Worker
    BY <1>19, <1>a, Where DEF WorkerStep
  <2>. QED
    BY <1>19, <1>a, <2>1 DEF Qualify, Typed
<1>20. CASE ReadDraft
  <2>1. worker' \in Worker
    BY <1>20, <1>a, Where DEF WorkerStep
  <2>. QED
    BY <1>20, <1>a, <2>1 DEF ReadDraft, Typed
<1>21. CASE Compare
  <2>1. worker' \in Worker
    BY <1>21, <1>a, Where DEF WorkerStep
  <2>. QED
    BY <1>21, <1>a, <2>1 DEF Compare, Typed
<1>22. CASE Prepare
  <2>1. worker' \in Worker
    BY <1>22, <1>a, Where DEF WorkerStep
  <2>2. PICK done \in SUBSET What : stored' = stored \cup Made(done)
    BY <1>22 DEF Prepare, What, Written, Made
  <2>3. stored' \subseteq [what : What, job : 1..jobs, draft : Nat \cup {None}]
    BY <1>22, <2>2, KeptTyped DEF Prepare, At
  <2>. QED
    BY <1>22, <1>a, <2>1, <2>3 DEF Prepare, Typed
<1>23. CASE Finish
  <2>1. EndOf[worker.pc] \in Kind /\ worker.job \in Nat
    BY <1>23, <1>a, OfWorker DEF Finish, EndOf, Kind, End, Typed
  <2>2. events' \in Seq(Told)
    BY <1>23, <1>a, <2>1, Appended DEF Finish
  <2>3. worker' \in Worker
    BY <1>23, <1>a, Where DEF WorkerStep
  <2>. QED
    BY <1>23, <1>a, <2>2, <2>3 DEF Finish, Typed
<1>24. CASE Clear
  <2>1. worker' \in Worker
    BY <1>24, <1>a, Where DEF WorkerStep
  <2>. QED
    BY <1>24, <1>a, <2>1 DEF Clear, Typed
<1>25. ASSUME NEW item \in Item, Change(item)
       PROVE  Typed'
  <2>1. world' \in Versions
    BY <1>25, <1>a DEF Change, Typed, Versions, Item
  <2>. QED
    BY <1>25, <1>a, <2>1 DEF Change, Typed
<1>26. CASE UNCHANGED writingVars
  BY <1>26, <1>a DEF writingVars, shared, tk, disk, history, Typed
<1>27. CASE Register
  <2>1. worker' \in Worker
    BY <1>27, <1>a, Where DEF WorkerStep
  <2>2. "sources" \in What
    BY DEF What
  <2>3. stored' = stored \/ stored' = stored \cup Made({"sources"})
    BY <1>27 DEF Register, Made
  <2>4. stored' \subseteq [what : What, job : 1..jobs, draft : Nat \cup {None}]
    BY <1>27, <1>a, <2>2, <2>3, KeptTyped DEF Register, At, Typed
  <2>. QED
    BY <1>27, <1>a, <2>1, <2>4 DEF Register, Typed
<1>. QED
  BY <1>1, <1>2, <1>3, <1>4, <1>5, <1>6, <1>7, <1>8, <1>9, <1>10, <1>11, <1>12, <1>13,
     <1>14, <1>15, <1>16, <1>17, <1>18, <1>19, <1>20, <1>21, <1>22, <1>23, <1>24, <1>25,
     <1>26, <1>27 DEF Next, TkStep, WorkerStep, Environment

\* The active job stays the last one, with the worker or waiting for it.
LEMMA OwnedStep == IInv /\ [Next]_writingVars => Owned'
<1>. SUFFICES ASSUME IInv, [Next]_writingVars PROVE Owned'
  OBVIOUS
<1>. USE DEF IInv, Owned, To, At
<1>a. worker \in Worker /\ jobs \in Nat /\ pending \in {None} \cup 1..jobs
  BY DEF Typed
<1>. USE <1>a, OfWorker, WritingAssumption DEF Worker, shared, tk, disk, history
<1>1. ASSUME NEW op \in Operation, Submit(op)
       PROVE  Owned'
  BY <1>1 DEF Submit, Typed
<1>2. CASE Preview
  BY <1>2 DEF Preview
<1>3. CASE Decline
  BY <1>3 DEF Decline
<1>4. CASE RequestCancel
  BY <1>4 DEF RequestCancel
<1>5. CASE SetCancel
  BY <1>5 DEF SetCancel
<1>6. CASE TellCancel
  BY <1>6 DEF TellCancel
<1>7. CASE Poll
  BY <1>7 DEF Poll
<1>8. CASE Shutdown
  BY <1>8 DEF Shutdown
<1>9. CASE DropTask
  BY <1>9 DEF DropTask
<1>10. CASE Take
  BY <1>10 DEF Take, Free
<1>11. CASE Refuse
  BY <1>11 DEF Refuse
<1>12. CASE Start
  <2>1. PICK step \in {"progress", "policy", "check"} : To(step)
    BY <1>12, Starts
  <2>. QED
    BY <1>12, <2>1 DEF Start
<1>13. CASE Progress
  BY <1>13 DEF Progress
<1>14. CASE Check
  BY <1>14 DEF Check, AfterCheck, Raised
<1>15. CASE Work
  BY <1>15 DEF Work, NextPhase, OnOrFail
<1>16. CASE PersistResult
  BY <1>16 DEF PersistResult, Store, OnOrFail
<1>17. CASE PersistDraft
  BY <1>17 DEF PersistDraft, Store, OnOrFail
<1>18. CASE Persisted
  BY <1>18 DEF Persisted
<1>19. CASE Qualify
  BY <1>19 DEF Qualify, OnOrFail
<1>20. CASE ReadDraft
  BY <1>20 DEF ReadDraft
<1>21. CASE Compare
  BY <1>21 DEF Compare
<1>22. CASE Prepare
  BY <1>22 DEF Prepare, OnOrFail
<1>23. CASE Finish
  BY <1>23 DEF Finish, EndOf
<1>24. CASE Clear
  BY <1>24 DEF Clear, Free
<1>25. ASSUME NEW item \in Item, Change(item)
       PROVE  Owned'
  BY <1>25 DEF Change
<1>26. CASE UNCHANGED writingVars
  BY <1>26 DEF writingVars, shared, tk, disk, history
<1>27. CASE Register
  BY <1>27 DEF Register, NextPhase
<1>. QED
  BY <1>1, <1>2, <1>3, <1>4, <1>5, <1>6, <1>7, <1>8, <1>9, <1>10, <1>11, <1>12, <1>13,
     <1>14, <1>15, <1>16, <1>17, <1>18, <1>19, <1>20, <1>21, <1>22, <1>23, <1>24, <1>25,
     <1>26, <1>27
     DEF Next, TkStep, WorkerStep, Environment

\* What the active job has stored stays what its step says.
LEMMA UntouchedStep == IInv /\ [Next]_writingVars => Untouched'
<1>. SUFFICES ASSUME IInv, [Next]_writingVars PROVE Untouched'
  OBVIOUS
<1>. USE DEF Clean, Read, Served, At
<1>a. Typed /\ Owned /\ Untouched /\ worker \in Worker /\ jobs \in Nat
      /\ (pending # None => pending \in 1..jobs) /\ active \in {None} \cup 1..jobs
      /\ \A s \in stored : s.job \in 1..jobs
  BY DEF IInv, Typed
<1>b. ~At("free") => /\ worker.job \in 1..jobs /\ active = worker.job /\ active # None
                     /\ Task.op \in Operation
  BY <1>a, OfTask, WritingAssumption
<1>. USE <1>a DEF shared, tk, disk, history
\* A step that is not the worker's.
<1>c. ASSUME worker' = worker, stored' = stored, tasks' = tasks, active' = active,
             asked \subseteq asked'
      PROVE  Untouched'
  BY <1>c DEF Untouched, Task
\* A step of the worker that stores nothing.
<1>d. ASSUME NEW step, To(step), stored' = stored, tasks' = tasks, active' = active
      PROVE  /\ worker'.pc = step /\ worker'.job = worker.job /\ worker'.read = worker.read
             /\ Task' = Task
             /\ \A s \in stored' : tasks'[s.job].op = "write" => s.draft = tasks'[s.job].shown["draft"]
  BY <1>d DEF To, Worker, Task, Untouched
<1>g. ASSUME NextPhase, stored' = stored, tasks' = tasks, active' = active
      PROVE  /\ worker'.pc = "progress" /\ worker'.job = worker.job /\ worker'.read = worker.read
             /\ Task' = Task
             /\ \A s \in stored' : tasks'[s.job].op = "write" => s.draft = tasks'[s.job].shown["draft"]
  BY <1>g DEF NextPhase, Worker, Task, Untouched
\* One that fails.
<1>e. ASSUME To("failed"), tasks' = tasks,
             \A s \in stored' : tasks'[s.job].op = "write" => s.draft = tasks'[s.job].shown["draft"]
      PROVE  Untouched'
  <2>1. worker'.pc = "failed"
    BY <1>e DEF To, Worker
  <2>. QED
    BY <1>e, <2>1 DEF Untouched
\* What a step may store.
<1>f. ASSUME NEW done \in SUBSET What, stored' = stored \cup Made(done),
             tasks' = tasks, Task.op = "write" => worker.read = Task.shown["draft"]
      PROVE  /\ Rest(stored', worker.job) = Rest(stored, worker.job) \cup (done \ {"sources"})
             /\ \A s \in stored' : tasks'[s.job].op = "write" => s.draft = tasks'[s.job].shown["draft"]
  BY <1>f, Kept DEF Untouched, Task
<1>1. ASSUME NEW op \in Operation, Submit(op)
       PROVE  Untouched'
  <2>1. worker' = worker /\ stored' = stored /\ active' = jobs + 1 /\ At("free")
    BY <1>1, <1>b, WritingAssumption DEF Submit
  <2>2. \A job \in 1..jobs : tasks'[job] = tasks[job]
    BY <1>1 DEF Submit
  <2>3. Rest(stored', active') = {}
    BY <2>1 DEF Rest
  <2>. QED
    BY <2>1, <2>2, <2>3 DEF Untouched
<1>2. CASE Preview
  BY <1>2, <1>c DEF Preview
<1>3. CASE Decline
  BY <1>3, <1>c DEF Decline
<1>4. CASE RequestCancel
  BY <1>4, <1>c DEF RequestCancel
<1>5. CASE SetCancel
  BY <1>5, <1>c DEF SetCancel
<1>6. CASE TellCancel
  BY <1>6, <1>c DEF TellCancel
<1>7. CASE Poll
  BY <1>7, <1>c DEF Poll
<1>8. CASE Shutdown
  BY <1>8, <1>c DEF Shutdown
<1>9. CASE DropTask
  BY <1>9, <1>c DEF DropTask
<1>10. CASE Take
  <2>1. worker'.pc = "resolve" /\ At("free") /\ active' = active /\ active # None
        /\ stored' = stored /\ tasks' = tasks
    BY <1>10, WritingAssumption DEF Take, Free, Owned
  <2>. QED
    BY <2>1 DEF Untouched
<1>11. CASE Refuse
  BY <1>11, <1>d, <1>e DEF Refuse
<1>12. CASE Start
  <2>1. /\ At("resolve") /\ stored' = stored /\ tasks' = tasks /\ active' = active
        /\ \/ To("progress") /\ Task.op = "service"
           \/ To("policy") /\ Task.op = "audit"
           \/ To("check") /\ Task.op = "write"
    BY <1>12, Starts DEF Start
  <2>2. Rest(stored, worker.job) = {}
    BY <1>b, <2>1 DEF Untouched
  <2>3. CASE To("progress") /\ Task.op = "service"
    BY <1>b, <1>d, <2>1, <2>2, <2>3 DEF Untouched
  <2>4. CASE To("policy") /\ Task.op = "audit"
    <3>1. Rest(stored, worker.job) = Owed(Task.op)
      BY <2>2, <2>4 DEF Owed
    <3>. QED
      BY <1>b, <1>d, <2>1, <2>4, <3>1 DEF Untouched
  <2>5. CASE To("check") /\ Task.op = "write"
    BY <1>b, <1>d, <2>1, <2>2, <2>5 DEF Untouched
  <2>. QED
    BY <2>1, <2>3, <2>4, <2>5
<1>13. CASE Progress
  <2>1. /\ At("progress") /\ stored' = stored /\ tasks' = tasks /\ active' = active
        /\ To("check")
    BY <1>13 DEF Progress
  <2>2. Rest(stored, worker.job) = {} /\ Task.op = "service"
    BY <1>b, <2>1 DEF Untouched
  <2>. QED
    BY <1>b, <1>d, <2>1, <2>2 DEF Untouched
<1>14. CASE Check
  <2>1. stored' = stored /\ tasks' = tasks /\ active' = active /\ asked' = asked
    BY <1>14 DEF Check
  <2>2. \/ To("cancelled") /\ worker.job \in asked
        \/ To("result") /\ At("complete")
        \/ To("prepare") /\ At("recheck")
        \/ To("draft") /\ At("check") /\ Task.op = "write"
        \/ (To("register") \/ To("work")) /\ At("check") /\ Task.op # "write"
    BY <1>14, OfWorker DEF Check, AfterCheck, Raised, Typed
  <2>3. At("check") \/ At("complete") \/ At("recheck")
    BY <1>14 DEF Check
  <2>4. /\ Rest(stored, worker.job) = {} /\ (At("complete") => Task.op = "service")
        /\ At("check") /\ Task.op # "write" => Task.op = "service"
        /\ At("recheck") => Task.op = "write" /\ worker.read = Task.shown["draft"]
    BY <1>b, <2>3 DEF Untouched, Operation
  <2>5. CASE To("cancelled") /\ worker.job \in asked
    BY <1>b, <1>d, <2>1, <2>4, <2>5 DEF Untouched
  <2>6. CASE To("result") /\ At("complete")
    BY <1>b, <1>d, <2>1, <2>4, <2>6 DEF Untouched
  <2>7. CASE To("prepare") /\ At("recheck")
    BY <1>b, <1>d, <2>1, <2>4, <2>7 DEF Untouched
  <2>8. CASE To("draft") /\ At("check") /\ Task.op = "write"
    BY <1>b, <1>d, <2>1, <2>4, <2>8 DEF Untouched
  <2>9. CASE (To("register") \/ To("work")) /\ At("check") /\ Task.op # "write"
    <3>1. Task.op = "service"
      BY <2>4, <2>9
    <3>2. CASE To("register")
      BY <1>b, <1>d, <2>1, <2>4, <3>1, <3>2 DEF Untouched
    <3>3. CASE To("work")
      BY <1>b, <1>d, <2>1, <2>4, <3>1, <3>3 DEF Untouched
    <3>. QED
      BY <2>9, <3>2, <3>3
  <2>. QED
    BY <2>2, <2>5, <2>6, <2>7, <2>8, <2>9
<1>15. CASE Work
  <2>1. /\ At("work") /\ stored' = stored /\ tasks' = tasks /\ active' = active
        /\ NextPhase \/ To("complete") \/ To("failed")
    BY <1>15 DEF Work, OnOrFail
  <2>2. Rest(stored, worker.job) = {} /\ Task.op = "service"
    BY <1>b, <2>1 DEF Untouched
  <2>3. CASE NextPhase
    BY <1>b, <1>g, <2>1, <2>2, <2>3 DEF Untouched
  <2>4. CASE To("complete")
    BY <1>b, <1>d, <2>1, <2>2, <2>4 DEF Untouched
  <2>5. CASE To("failed")
    BY <1>d, <1>e, <2>1, <2>5
  <2>. QED
    BY <2>1, <2>3, <2>4, <2>5
<1>16. CASE PersistResult
  <2>1. At("result") /\ tasks' = tasks /\ active' = active /\ Store("result", "text")
    BY <1>16 DEF PersistResult
  <2>2. Rest(stored, worker.job) = {} /\ Task.op = "service"
    BY <1>b, <2>1 DEF Untouched
  <2>3. "result" \in What
    BY DEF What
  <2>4. CASE stored' = stored /\ To("failed")
    BY <1>e, <2>1, <2>4 DEF Untouched
  <2>5. CASE OnOrFail("text") /\ stored' = stored \cup Made({"result"})
    <3>1. /\ Rest(stored', worker.job) = {"result"}
          /\ \A s \in stored' : tasks'[s.job].op = "write" => s.draft = tasks'[s.job].shown["draft"]
      <4>1. {"result"} \in SUBSET What /\ {"result"} \ {"sources"} = {"result"}
        BY <2>3
      <4>2. Rest(stored', worker.job) = Rest(stored, worker.job) \cup {"result"}
        BY <1>f, <2>1, <2>2, <2>5, <4>1
      <4>3. Rest(stored', worker.job) = {"result"}
        BY <2>2, <4>2
      <4>. QED
        BY <1>f, <2>1, <2>2, <2>5, <4>1, <4>3
    <3>2. To("failed") \/ (worker'.pc = "text" /\ worker'.job = worker.job)
      BY <2>5 DEF OnOrFail, To, Worker
    <3>3. CASE worker'.pc = "text" /\ worker'.job = worker.job
      BY <2>1, <2>2, <3>1, <3>3 DEF Untouched, Task
    <3>. QED
      BY <1>e, <2>1, <3>1, <3>2, <3>3
  <2>. QED
    BY <2>1, <2>3, <2>4, <2>5, Stores
<1>17. CASE PersistDraft
  <2>1. At("text") /\ tasks' = tasks /\ active' = active /\ Store("draft", "persisted")
    BY <1>17 DEF PersistDraft
  <2>2. Rest(stored, worker.job) = {"result"} /\ Task.op = "service"
    BY <1>b, <2>1 DEF Untouched
  <2>3. "draft" \in What
    BY DEF What
  <2>4. CASE stored' = stored /\ To("failed")
    BY <1>e, <2>1, <2>4 DEF Untouched
  <2>5. CASE OnOrFail("persisted") /\ stored' = stored \cup Made({"draft"})
    <3>1. /\ Rest(stored', worker.job) = {"result", "draft"}
          /\ \A s \in stored' : tasks'[s.job].op = "write" => s.draft = tasks'[s.job].shown["draft"]
      <4>1. {"draft"} \in SUBSET What /\ {"draft"} \ {"sources"} = {"draft"}
        BY <2>3
      <4>2. Rest(stored', worker.job) = Rest(stored, worker.job) \cup {"draft"}
        BY <1>f, <2>1, <2>2, <2>5, <4>1
      <4>3. Rest(stored', worker.job) = {"result", "draft"}
        BY <2>2, <4>2
      <4>. QED
        BY <1>f, <2>1, <2>2, <2>5, <4>1, <4>3
    <3>2. To("failed") \/ (worker'.pc = "persisted" /\ worker'.job = worker.job)
      BY <2>5 DEF OnOrFail, To, Worker
    <3>3. CASE worker'.pc = "persisted" /\ worker'.job = worker.job
      BY <2>1, <2>2, <3>1, <3>3 DEF Untouched, Task
    <3>. QED
      BY <1>e, <2>1, <3>1, <3>2, <3>3
  <2>. QED
    BY <2>1, <2>3, <2>4, <2>5, Stores
<1>18. CASE Persisted
  <2>1. /\ At("persisted") /\ stored' = stored /\ tasks' = tasks /\ active' = active
        /\ To("policy")
    BY <1>18 DEF Persisted
  <2>2. Rest(stored, worker.job) = Owed(Task.op)
    BY <2>1 DEF Untouched, Owed
  <2>. QED
    BY <1>d, <2>1, <2>2 DEF Untouched
<1>19. CASE Qualify
  <2>1. /\ At("policy") /\ stored' = stored /\ tasks' = tasks /\ active' = active
        /\ To("completed") \/ To("failed")
    BY <1>19 DEF Qualify, OnOrFail
  <2>2. Rest(stored, worker.job) = Owed(Task.op)
    BY <2>1 DEF Untouched
  <2>. QED
    BY <1>d, <1>e, <2>1, <2>2 DEF Untouched
<1>20. CASE ReadDraft
  <2>1. /\ At("draft") /\ stored' = stored /\ tasks' = tasks /\ active' = active
        /\ \/ worker'.pc = "authority" /\ worker'.job = worker.job
              /\ worker'.read = Task.shown["draft"]
           \/ To("failed")
    BY ZenonT(60), <1>20 DEF ReadDraft, Worker
  <2>2. Rest(stored, worker.job) = {} /\ Task.op = "write"
    BY <1>b, <2>1 DEF Untouched
  <2>3. CASE worker'.pc = "authority" /\ worker'.job = worker.job
             /\ worker'.read = Task.shown["draft"]
    BY <1>b, <2>1, <2>2, <2>3 DEF Untouched, Task
  <2>4. CASE To("failed")
    BY <1>d, <1>e, <2>1, <2>4
  <2>. QED
    BY <2>1, <2>3, <2>4
<1>21. CASE Compare
  <2>1. /\ At("authority") \/ At("sources")
        /\ stored' = stored /\ tasks' = tasks /\ active' = active
        /\ To("sources") \/ To("recheck") \/ To("failed")
    BY <1>21 DEF Compare
  <2>2. Rest(stored, worker.job) = {} /\ Task.op = "write" /\ worker.read = Task.shown["draft"]
    BY <1>b, <2>1 DEF Untouched
  <2>3. CASE To("sources")
    BY <1>b, <1>d, <2>1, <2>2, <2>3 DEF Untouched
  <2>4. CASE To("recheck")
    BY <1>b, <1>d, <2>1, <2>2, <2>4 DEF Untouched
  <2>5. CASE To("failed")
    BY <1>d, <1>e, <2>1, <2>5
  <2>. QED
    BY <2>1, <2>3, <2>4, <2>5
<1>22. CASE Prepare
  <2>1. At("prepare") /\ tasks' = tasks /\ active' = active
    BY <1>22 DEF Prepare
  <2>2. Rest(stored, worker.job) = {} /\ Task.op = "write" /\ worker.read = Task.shown["draft"]
    BY <1>b, <2>1 DEF Untouched
  <2>3. PICK done \in SUBSET What :
          /\ "sources" \notin done /\ stored' = stored \cup Made(done)
          /\ To("failed") \/ (done = Written /\ To("completed"))
    BY <1>22 DEF Prepare, What, Written, OnOrFail, Made
  <2>4. /\ Rest(stored', worker.job) = done
        /\ \A s \in stored' : tasks'[s.job].op = "write" => s.draft = tasks'[s.job].shown["draft"]
    <3>1. done \ {"sources"} = done
      BY <2>3
    <3>2. Rest(stored', worker.job) = Rest(stored, worker.job) \cup done
      BY <1>f, <2>1, <2>2, <2>3, <3>1
    <3>. QED
      BY <1>f, <2>1, <2>2, <2>3, <3>2
  <2>5. CASE done = Written /\ To("completed")
    <3>1. worker'.pc = "completed" /\ worker'.job = worker.job
      BY <2>5 DEF To, Worker
    <3>. QED
      BY <2>1, <2>2, <2>4, <2>5, <3>1 DEF Untouched, Task, Owed
  <2>. QED
    BY <1>e, <2>1, <2>3, <2>4, <2>5
<1>23. CASE Finish
  <2>1. To("clear") /\ stored' = stored /\ tasks' = tasks /\ active' = active
    BY <1>23 DEF Finish
  <2>. QED
    BY <1>d, <2>1 DEF Untouched
<1>24. CASE Clear
  <2>1. worker'.pc = "free" /\ active' = None /\ stored' = stored /\ tasks' = tasks
    BY <1>24, <1>b DEF Clear, Free
  <2>. QED
    BY <2>1 DEF Untouched
<1>25. ASSUME NEW item \in Item, Change(item)
       PROVE  Untouched'
  BY <1>25, <1>c DEF Change
<1>26. CASE UNCHANGED writingVars
  BY <1>26, <1>c DEF writingVars
<1>27. CASE Register
  <2>1. At("register") /\ tasks' = tasks /\ active' = active
    BY <1>27 DEF Register
  <2>2. Rest(stored, worker.job) = {} /\ Task.op = "service"
    BY <1>b, <2>1 DEF Untouched
  <2>3. "sources" \in What
    BY DEF What
  <2>4. stored' = stored \/ stored' = stored \cup Made({"sources"})
    BY <1>27 DEF Register, Made
  <2>5. /\ Rest(stored', worker.job) = {}
        /\ \A s \in stored' : tasks'[s.job].op = "write" => s.draft = tasks'[s.job].shown["draft"]
    <3>1. CASE stored' = stored
      BY <2>1, <2>2, <3>1 DEF Untouched
    <3>2. CASE stored' = stored \cup Made({"sources"})
      BY <1>f, <2>1, <2>2, <2>3, <3>2
    <3>. QED
      BY <2>4, <3>1, <3>2
  <2>6. To("failed") \/ (worker'.pc = "progress" /\ worker'.job = worker.job)
    BY <1>27 DEF Register, NextPhase, Worker
  <2>7. CASE worker'.pc = "progress" /\ worker'.job = worker.job
    BY <1>b, <2>1, <2>2, <2>5, <2>7 DEF Untouched, Task
  <2>. QED
    BY <1>e, <2>1, <2>5, <2>6, <2>7
<1>. QED
  BY <1>1, <1>2, <1>3, <1>4, <1>5, <1>6, <1>7, <1>8, <1>9, <1>10, <1>11, <1>12, <1>13,
     <1>14, <1>15, <1>16, <1>17, <1>18, <1>19, <1>20, <1>21, <1>22, <1>23, <1>24, <1>25,
     <1>26, <1>27
     DEF Next, TkStep, WorkerStep, Environment

\* Nobody but the job at work leaves anything.
LEMMA Others ==
  ASSUME IInv, WorkerStep
  PROVE  \A job : job # worker.job => Rest(stored', job) = Rest(stored, job)
<1>1. CASE UNCHANGED stored
  BY <1>1
<1>2. ASSUME NEW done \in SUBSET What, stored' = stored \cup Made(done)
      PROVE  \A job : job # worker.job => Rest(stored', job) = Rest(stored, job)
  BY <1>2, Kept
<1>3. {"sources"} \in SUBSET What /\ {"result"} \in SUBSET What /\ {"draft"} \in SUBSET What
  BY DEF What
<1>4. CASE Register
  <2>1. stored' = stored \/ stored' = stored \cup Made({"sources"})
    BY <1>4 DEF Register, Made
  <2>. QED
    BY <1>1, <1>2, <1>3, <2>1
<1>5. CASE PersistResult
  <2>1. stored' = stored \/ stored' = stored \cup Made({"result"})
    BY <1>5 DEF PersistResult, Store, Made
  <2>. QED
    BY <1>1, <1>2, <1>3, <2>1
<1>6. CASE PersistDraft
  <2>1. stored' = stored \/ stored' = stored \cup Made({"draft"})
    BY <1>6 DEF PersistDraft, Store, Made
  <2>. QED
    BY <1>1, <1>2, <1>3, <2>1
<1>7. CASE Prepare
  <2>1. PICK done \in SUBSET What : stored' = stored \cup Made(done)
    BY <1>7 DEF Prepare, What, Written, Made
  <2>. QED
    BY <1>2, <2>1
<1>8. CASE \/ Take \/ Refuse \/ Start \/ Progress \/ Check \/ Work \/ Persisted \/ Qualify
           \/ ReadDraft \/ Compare \/ Finish \/ Clear
  BY <1>1, <1>8 DEF Take, Refuse, Start, Progress, Check, Work, Persisted, Qualify,
                    ReadDraft, Compare, Finish, Clear, disk
<1>. QED
  BY <1>4, <1>5, <1>6, <1>7, <1>8 DEF WorkerStep

\* The ends that are told stay true, each told once.
LEMMA EndsToldStep == IInv /\ [Next]_writingVars => EndsTold'
<1>. SUFFICES ASSUME IInv, [Next]_writingVars PROVE EndsTold'
  OBVIOUS
<1>. USE DEF EndsTold, Over
<1>a. Typed /\ Owned /\ EndsTold /\ Untouched /\ worker \in Worker
      /\ (active # None => active \in 1..jobs)
      /\ jobs \in Nat /\ asked \subseteq 1..jobs /\ ended \subseteq 1..jobs
  BY DEF IInv, Typed
<1>b. events' = events => Said' = Said
  BY DEF Said
\* The job at work is not over, whatever it stores.
<1>c. ASSUME active' = active, events' = events, ended' = ended, jobs' = jobs, asked' = asked,
             tasks' = tasks, ~At("clear"), ~At("clear")', ~At("free"),
             \A job : job # worker.job => Rest(stored', job) = Rest(stored, job)
      PROVE  EndsTold'
  <2>1. active = worker.job /\ active # None /\ ~Over(active)
    BY <1>a, <1>c, OfWorker, WritingAssumption DEF Owned
  <2>2. \A e \in Said : e.kind \in End => e.job # worker.job
    BY <2>1
  <2>. QED
    BY <1>a, <1>b, <1>c, <2>1, <2>2 DEF End
<1>. USE <1>a, <1>b, WritingAssumption DEF shared, tk, disk, history
<1>1. ASSUME NEW op \in Operation, Submit(op)
       PROVE  EndsTold'
  <2>1. /\ jobs' = jobs + 1 /\ jobs' \in Nat /\ active' = jobs' /\ active = None
        /\ ended' = ended /\ asked' = asked /\ stored' = stored /\ worker' = worker
        /\ \A job \in 1..jobs : tasks'[job] = tasks[job]
    BY <1>1 DEF Submit
  <2>2. /\ Said' = Said \cup {Event("JOB_QUEUED", jobs')}
        /\ Once(events) => Once(events')
    BY <1>1, <2>1, Appended DEF Submit, Kind, End
  <2>3. ~At("clear")'
    BY <2>1, OfWorker DEF Owned, At
  <2>4. jobs' \notin 1..jobs /\ 1..jobs \subseteq 1..jobs'
    BY <2>1
  <2>5. ~Over(jobs)'
    BY <2>1, <2>2, <2>4 DEF Event, End
  <2>. QED
    BY <2>1, <2>2, <2>3, <2>4, <2>5 DEF Event, End
<1>2. CASE Preview
  <2>1. active' = active /\ events' = events /\ ended' = ended /\ jobs' = jobs
        /\ asked \subseteq asked' /\ stored' = stored /\ tasks' = tasks
        /\ worker' = worker
    BY <1>2 DEF Preview
  <2>. QED
    BY <2>1 DEF At
<1>3. CASE Decline
  <2>1. active' = active /\ events' = events /\ ended' = ended /\ jobs' = jobs
        /\ asked \subseteq asked' /\ stored' = stored /\ tasks' = tasks
        /\ worker' = worker
    BY <1>3 DEF Decline
  <2>. QED
    BY <2>1 DEF At
<1>4. CASE RequestCancel
  <2>1. active' = active /\ events' = events /\ ended' = ended /\ jobs' = jobs
        /\ asked \subseteq asked' /\ stored' = stored /\ tasks' = tasks
        /\ worker' = worker
    BY <1>4 DEF RequestCancel
  <2>. QED
    BY <2>1 DEF At
<1>5. CASE SetCancel
  <2>1. active' = active /\ events' = events /\ ended' = ended /\ jobs' = jobs
        /\ asked \subseteq asked' /\ stored' = stored /\ tasks' = tasks
        /\ worker' = worker
    BY <1>5 DEF SetCancel
  <2>. QED
    BY <2>1 DEF At
<1>6. CASE TellCancel
  <2>1. ui.job \in 1..jobs
    BY <1>6 DEF TellCancel, Typed
  <2>2. /\ Said' = Said \cup {Event("JOB_CANCEL_REQUESTED", ui.job)}
        /\ Once(events) => Once(events')
    BY <1>6, <2>1, Appended DEF TellCancel, Kind, End
  <2>3. active' = active /\ ended' = ended /\ jobs' = jobs /\ asked' = asked /\ stored' = stored /\ tasks' = tasks /\ worker' = worker
    BY <1>6 DEF TellCancel
  <2>. QED
    BY <2>1, <2>2, <2>3 DEF Event, End, At
<1>7. CASE Poll
  <2>1. /\ Said = Said' \cup {last'} /\ last' \in Told
        /\ Once(events')
        /\ last'.kind \in End => \A e \in Said' : e.kind \in End => e.job # last'.job
    BY <1>7, Given
  <2>2. /\ active' = active /\ jobs' = jobs /\ asked' = asked /\ stored' = stored /\ tasks' = tasks /\ worker' = worker
        /\ ended' = IF last'.kind \in End THEN ended \cup {last'.job} ELSE ended
    BY <1>7 DEF Poll
  <2>. QED
    BY <2>1, <2>2 DEF At
<1>8. CASE Shutdown
  <2>1. active' = active /\ events' = events /\ ended' = ended /\ jobs' = jobs
        /\ asked \subseteq asked' /\ stored' = stored /\ tasks' = tasks
        /\ worker' = worker
    BY <1>8 DEF Shutdown
  <2>. QED
    BY <2>1 DEF At
<1>9. CASE DropTask
  <2>1. active' = active /\ events' = events /\ ended' = ended /\ jobs' = jobs
        /\ asked \subseteq asked' /\ stored' = stored /\ tasks' = tasks
        /\ worker' = worker
    BY <1>9 DEF DropTask
  <2>. QED
    BY <2>1 DEF At
<1>10. CASE Take
  <2>1. active' = active /\ events' = events /\ ended' = ended /\ jobs' = jobs
        /\ asked \subseteq asked' /\ stored' = stored /\ tasks' = tasks
    BY <1>10 DEF Take
  <2>2. ~At("clear") /\ ~At("clear")'
    BY <1>10 DEF Take, At, To, Worker, Free
  <2>. QED
    BY <2>1, <2>2
<1>11. CASE Refuse
  <2>1. active' = active /\ events' = events /\ ended' = ended /\ jobs' = jobs
        /\ asked \subseteq asked' /\ stored' = stored /\ tasks' = tasks
    BY <1>11 DEF Refuse
  <2>2. ~At("clear") /\ ~At("clear")'
    BY <1>11 DEF Refuse, At, To, Worker, Free
  <2>. QED
    BY <2>1, <2>2
<1>12. CASE Start
  <2>1. /\ Said' = Said \cup {Event("JOB_STARTED", worker.job)}
        /\ Once(events) => Once(events')
    BY <1>12, OfWorker, Appended DEF Start, Kind, End
  <2>2. active' = active /\ ended' = ended /\ jobs' = jobs /\ asked' = asked /\ stored' = stored /\ tasks' = tasks
    BY <1>12 DEF Start
  <2>3. ~At("clear") /\ ~At("clear")' /\ ~At("free")
    BY <1>12, Starts DEF Start, At, To, Worker
  <2>4. active = worker.job /\ active \in 1..jobs
    BY <2>3, OfWorker DEF Owned
  <2>. QED
    BY <2>1, <2>2, <2>3, <2>4 DEF Event, End
<1>13. CASE Progress
  <2>1. /\ Said' = Said \cup {Event("JOB_PROGRESS", worker.job)}
        /\ Once(events) => Once(events')
    BY <1>13, OfWorker, Appended DEF Progress, Kind, End
  <2>2. active' = active /\ ended' = ended /\ jobs' = jobs /\ asked' = asked /\ stored' = stored /\ tasks' = tasks
    BY <1>13 DEF Progress
  <2>3. ~At("clear") /\ ~At("clear")' /\ ~At("free")
    BY <1>13 DEF Progress, At, To, Worker
  <2>4. active = worker.job /\ active \in 1..jobs
    BY <2>3, OfWorker DEF Owned
  <2>. QED
    BY <2>1, <2>2, <2>3, <2>4 DEF Event, End
<1>14. CASE Check
  <2>1. active' = active /\ events' = events /\ ended' = ended /\ jobs' = jobs
        /\ asked \subseteq asked' /\ stored' = stored /\ tasks' = tasks
    BY <1>14 DEF Check, AfterCheck
  <2>2. ~At("clear") /\ ~At("clear")'
    BY <1>14 DEF Check, AfterCheck, At, To, Worker, Free
  <2>. QED
    BY <2>1, <2>2
<1>15. CASE Work
  <2>1. active' = active /\ events' = events /\ ended' = ended /\ jobs' = jobs
        /\ asked \subseteq asked' /\ stored' = stored /\ tasks' = tasks
    BY <1>15 DEF Work, OnOrFail
  <2>2. ~At("clear") /\ ~At("clear")'
    BY <1>15 DEF Work, NextPhase, OnOrFail, At, To, Worker, Free
  <2>. QED
    BY <2>1, <2>2
<1>16. CASE PersistResult
  <2>1. active' = active /\ events' = events /\ ended' = ended /\ jobs' = jobs
        /\ asked' = asked /\ tasks' = tasks
    BY <1>16 DEF PersistResult
  <2>2. ~At("clear") /\ ~At("clear")' /\ ~At("free")
    BY <1>16 DEF PersistResult, Store, OnOrFail, NextPhase, At, To, Worker
  <2>3. \A job : job # worker.job => Rest(stored', job) = Rest(stored, job)
    BY <1>16, Others DEF WorkerStep
  <2>. QED
    BY <1>c, <2>1, <2>2, <2>3
<1>17. CASE PersistDraft
  <2>1. active' = active /\ events' = events /\ ended' = ended /\ jobs' = jobs
        /\ asked' = asked /\ tasks' = tasks
    BY <1>17 DEF PersistDraft
  <2>2. ~At("clear") /\ ~At("clear")' /\ ~At("free")
    BY <1>17 DEF PersistDraft, Store, OnOrFail, NextPhase, At, To, Worker
  <2>3. \A job : job # worker.job => Rest(stored', job) = Rest(stored, job)
    BY <1>17, Others DEF WorkerStep
  <2>. QED
    BY <1>c, <2>1, <2>2, <2>3
<1>18. CASE Persisted
  <2>1. /\ Said' = Said \cup {Event("JOB_PROGRESS", worker.job)}
        /\ Once(events) => Once(events')
    BY <1>18, OfWorker, Appended DEF Persisted, Kind, End
  <2>2. active' = active /\ ended' = ended /\ jobs' = jobs /\ asked' = asked /\ stored' = stored /\ tasks' = tasks
    BY <1>18 DEF Persisted
  <2>3. ~At("clear") /\ ~At("clear")' /\ ~At("free")
    BY <1>18 DEF Persisted, At, To, Worker
  <2>4. active = worker.job /\ active \in 1..jobs
    BY <2>3, OfWorker DEF Owned
  <2>. QED
    BY <2>1, <2>2, <2>3, <2>4 DEF Event, End
<1>19. CASE Qualify
  <2>1. active' = active /\ events' = events /\ ended' = ended /\ jobs' = jobs
        /\ asked \subseteq asked' /\ stored' = stored /\ tasks' = tasks
    BY <1>19 DEF Qualify, OnOrFail
  <2>2. ~At("clear") /\ ~At("clear")'
    BY <1>19 DEF Qualify, OnOrFail, At, To, Worker, Free
  <2>. QED
    BY <2>1, <2>2
<1>20. CASE ReadDraft
  <2>1. active' = active /\ events' = events /\ ended' = ended /\ jobs' = jobs
        /\ asked \subseteq asked' /\ stored' = stored /\ tasks' = tasks
    BY <1>20 DEF ReadDraft
  <2>2. ~At("clear") /\ ~At("clear")'
    BY <1>20 DEF ReadDraft, At, To, Worker, Free
  <2>. QED
    BY <2>1, <2>2
<1>21. CASE Compare
  <2>1. active' = active /\ events' = events /\ ended' = ended /\ jobs' = jobs
        /\ asked \subseteq asked' /\ stored' = stored /\ tasks' = tasks
    BY <1>21 DEF Compare
  <2>2. ~At("clear") /\ ~At("clear")'
    BY <1>21 DEF Compare, At, To, Worker, Free
  <2>. QED
    BY <2>1, <2>2
<1>22. CASE Prepare
  <2>1. active' = active /\ events' = events /\ ended' = ended /\ jobs' = jobs
        /\ asked' = asked /\ tasks' = tasks
    BY <1>22 DEF Prepare
  <2>2. ~At("clear") /\ ~At("clear")' /\ ~At("free")
    BY <1>22 DEF Prepare, Store, OnOrFail, NextPhase, At, To, Worker
  <2>3. \A job : job # worker.job => Rest(stored', job) = Rest(stored, job)
    BY <1>22, Others DEF WorkerStep
  <2>. QED
    BY <1>c, <2>1, <2>2, <2>3
<1>23. CASE Finish
  <2>1. ~At("clear") /\ At("clear")' /\ ~At("free")
    BY <1>23 DEF Finish, At, To, Worker, EndOf
  <2>2. active = worker.job /\ active \in 1..jobs
    BY <2>1, OfWorker DEF Owned
  <2>3. EndOf[worker.pc] \in End
    BY <1>23 DEF Finish, EndOf, End
  <2>4. /\ Said' = Said \cup {Event(EndOf[worker.pc], worker.job)}
        /\ Once(events')
    BY <1>23, <2>1, <2>2, <2>3, OfWorker, Appended DEF Finish, Kind
  <2>5. active' = active /\ ended' = ended /\ jobs' = jobs /\ asked' = asked /\ stored' = stored /\ tasks' = tasks
    BY <1>23 DEF Finish
  <2>6. EndOf[worker.pc] = "JOB_CANCELLED" => /\ worker.job \in asked
                                               /\ Rest(stored, worker.job) = {}
    <3>. SUFFICES ASSUME EndOf[worker.pc] = "JOB_CANCELLED"
                  PROVE  worker.job \in asked /\ Rest(stored, worker.job) = {}
      OBVIOUS
    <3>1. At("cancelled") /\ worker.pc \in Clean
      BY <1>23 DEF Finish, EndOf, At, Clean
    <3>. QED
      BY <2>2, <3>1, WritingAssumption DEF Untouched
  <2>7. EndOf[worker.pc] = "JOB_COMPLETED" =>
          Rest(stored, worker.job) = Owed(tasks[worker.job].op)
    BY <1>23 DEF Finish, EndOf, Untouched, Task
  <2>8. Event(EndOf[worker.pc], worker.job).kind = EndOf[worker.pc]
        /\ Event(EndOf[worker.pc], worker.job).job = worker.job
    BY DEF Event
  <2>. QED
    BY <2>1, <2>2, <2>3, <2>4, <2>5, <2>6, <2>7, <2>8
<1>24. CASE Clear
  <2>1. active' = None /\ events' = events /\ ended' = ended /\ jobs' = jobs
        /\ asked' = asked /\ stored' = stored /\ tasks' = tasks
    BY <1>24 DEF Clear, Owned, At
  <2>. QED
    BY <2>1
<1>25. ASSUME NEW item \in Item, Change(item)
       PROVE  EndsTold'
  <2>1. active' = active /\ events' = events /\ ended' = ended /\ jobs' = jobs
        /\ asked \subseteq asked' /\ stored' = stored /\ tasks' = tasks
        /\ worker' = worker
    BY <1>25 DEF Change
  <2>. QED
    BY <2>1 DEF At
<1>26. CASE UNCHANGED writingVars
  <2>1. active' = active /\ events' = events /\ ended' = ended /\ jobs' = jobs
        /\ asked \subseteq asked' /\ stored' = stored /\ tasks' = tasks
        /\ worker' = worker
    BY <1>26 DEF writingVars
  <2>. QED
    BY <2>1 DEF At
<1>27. CASE Register
  <2>1. active' = active /\ events' = events /\ ended' = ended /\ jobs' = jobs
        /\ asked' = asked /\ tasks' = tasks
    BY <1>27 DEF Register
  <2>2. ~At("clear") /\ ~At("clear")' /\ ~At("free")
    BY <1>27 DEF Register, Store, OnOrFail, NextPhase, At, To, Worker
  <2>3. \A job : job # worker.job => Rest(stored', job) = Rest(stored, job)
    BY <1>27, Others DEF WorkerStep
  <2>. QED
    BY <1>c, <2>1, <2>2, <2>3
<1>. QED
  BY <1>1, <1>2, <1>3, <1>4, <1>5, <1>6, <1>7, <1>8, <1>9, <1>10, <1>11, <1>12, <1>13,
     <1>14, <1>15, <1>16, <1>17, <1>18, <1>19, <1>20, <1>21, <1>22, <1>23, <1>24, <1>25,
     <1>26, <1>27
     DEF Next, TkStep, WorkerStep, Environment

\* What was last said stays right.
LEMMA LatestIsRightStep == IInv /\ [Next]_writingVars => LatestIsRight'
<1>. SUFFICES ASSUME IInv, [Next]_writingVars PROVE LatestIsRight'
  OBVIOUS
<1>. USE DEF LatestIsRight, Over
<1>a. Typed /\ Owned /\ EndsTold /\ LatestIsRight /\ worker \in Worker
      /\ (active # None => active \in 1..jobs) /\ jobs \in Nat /\ ended \subseteq 1..jobs
  BY DEF IInv, Typed
<1>b. events' = events => Said' = Said
  BY DEF Said
<1>c. None \notin Told
  BY WritingAssumption DEF Told
<1>. USE <1>a, <1>b, WritingAssumption DEF shared, tk, disk, history
<1>1. ASSUME NEW op \in Operation, Submit(op)
       PROVE  LatestIsRight'
  <2>1. jobs' = jobs + 1 /\ jobs' \in Nat /\ active' = jobs' /\ ended' = ended /\ ui'.pc = "idle"
    BY <1>1 DEF Submit
  <2>2. /\ Said' = Said \cup {Event("JOB_QUEUED", jobs')} /\ Latest' = Event("JOB_QUEUED", jobs')
        /\ events' # <<>> /\ Event("JOB_QUEUED", jobs') \in Told
    BY <1>1, <2>1, Appended DEF Submit, Kind, End
  <2>3. jobs' \notin 1..jobs
    BY <2>1
  <2>4. active' # None /\ ~Over(active)'
    BY <2>1, <2>2, <2>3 DEF EndsTold, Event, End
  <2>5. Latest' # None
    BY <2>2, <1>c
  <2>. QED
    BY <2>1, <2>2, <2>4, <2>5 DEF Event, End
<1>2. CASE Preview
  <2>1. events' = events /\ Latest' = Latest /\ last' = last /\ busy' = busy
        /\ active' = active /\ ended' = ended
    BY <1>2 DEF Preview, Latest
  <2>2. ui'.pc \in {"cancel", "tell"} => \/ ui.pc \in {"cancel", "tell"} /\ ui'.job = ui.job
                                       \/ ui'.job = active
    BY <1>2 DEF Preview, Typed
  <2>. QED
    BY <2>1, <2>2
<1>3. CASE Decline
  <2>1. events' = events /\ Latest' = Latest /\ last' = last /\ busy' = busy
        /\ active' = active /\ ended' = ended
    BY <1>3 DEF Decline, Latest
  <2>2. ui'.pc \in {"cancel", "tell"} => \/ ui.pc \in {"cancel", "tell"} /\ ui'.job = ui.job
                                       \/ ui'.job = active
    BY <1>3 DEF Decline, Typed
  <2>. QED
    BY <2>1, <2>2
<1>4. CASE RequestCancel
  <2>1. events' = events /\ Latest' = Latest /\ last' = last /\ busy' = busy
        /\ active' = active /\ ended' = ended
    BY <1>4 DEF RequestCancel, Latest
  <2>2. ui'.pc \in {"cancel", "tell"} => \/ ui.pc \in {"cancel", "tell"} /\ ui'.job = ui.job
                                       \/ ui'.job = active
    BY <1>4 DEF RequestCancel, Typed
  <2>. QED
    BY <2>1, <2>2
<1>5. CASE SetCancel
  <2>1. events' = events /\ Latest' = Latest /\ last' = last /\ busy' = busy
        /\ active' = active /\ ended' = ended
    BY <1>5 DEF SetCancel, Latest
  <2>2. ui'.pc \in {"cancel", "tell"} => \/ ui.pc \in {"cancel", "tell"} /\ ui'.job = ui.job
                                       \/ ui'.job = active
    BY <1>5 DEF SetCancel, Typed
  <2>. QED
    BY <2>1, <2>2
<1>6. CASE TellCancel
  <2>1. ui.job \in Nat /\ (Over(ui.job) \/ ui.job = active)
    BY <1>6 DEF TellCancel, Typed
  <2>2. /\ Said' = Said \cup {Event("JOB_CANCEL_REQUESTED", ui.job)}
        /\ Latest' = Event("JOB_CANCEL_REQUESTED", ui.job) /\ events' # <<>>
        /\ Event("JOB_CANCEL_REQUESTED", ui.job) \in Told
    BY <1>6, <2>1, Appended DEF TellCancel, Kind, End
  <2>3. active' = active /\ ended' = ended /\ ui'.pc = "idle"
    BY <1>6 DEF TellCancel
  <2>4. Latest' # None
    BY <2>2, <1>c
  <2>5. ui.job # None
    BY <2>1
  <2>. QED
    BY <2>1, <2>2, <2>3, <2>4, <2>5 DEF Event, End
<1>7. CASE Poll
  <2>1. Said = Said' \cup {last'} /\ last' \in Told /\ Latest' = Latest
    BY <1>7, Given
  <2>2. active' = active /\ ui'.pc = "idle" /\ (busy' <=> last'.kind \notin End)
        /\ ended' = IF last'.kind \in End THEN ended \cup {last'.job} ELSE ended
    BY <1>7 DEF Poll
  <2>3. last' # None
    BY <2>1, <1>c
  <2>4. ASSUME NEW job
        PROVE  Over(job) <=> (job \in ended' \/ \E e \in Said' : e.kind \in End /\ e.job = job)
    BY <2>1, <2>2
  <2>. HIDE DEF Over
  <2>5. Over(active)' <=> Over(active)
    BY <2>2, <2>4 DEF Over
  <2>6. Over(Latest.job)' <=> Over(Latest.job)
    BY <2>1, <2>4 DEF Over
  <2>. QED
    BY <2>1, <2>2, <2>3, <2>5, <2>6
<1>8. CASE Shutdown
  <2>1. events' = events /\ Latest' = Latest /\ last' = last /\ busy' = busy
        /\ active' = active /\ ended' = ended
    BY <1>8 DEF Shutdown, Latest
  <2>2. ui'.pc \in {"cancel", "tell"} => \/ ui.pc \in {"cancel", "tell"} /\ ui'.job = ui.job
                                       \/ ui'.job = active
    BY <1>8 DEF Shutdown, Typed
  <2>. QED
    BY <2>1, <2>2
<1>9. CASE DropTask
  <2>1. events' = events /\ Latest' = Latest /\ last' = last /\ busy' = busy
        /\ active' = active /\ ended' = ended
    BY <1>9 DEF DropTask, Latest
  <2>2. ui'.pc \in {"cancel", "tell"} => \/ ui.pc \in {"cancel", "tell"} /\ ui'.job = ui.job
                                       \/ ui'.job = active
    BY <1>9 DEF DropTask, Typed
  <2>. QED
    BY <2>1, <2>2
<1>10. CASE Take
  <2>1. events' = events /\ Latest' = Latest /\ last' = last /\ busy' = busy
        /\ active' = active /\ ended' = ended
    BY <1>10 DEF Take, Latest
  <2>2. ui'.pc \in {"cancel", "tell"} => \/ ui.pc \in {"cancel", "tell"} /\ ui'.job = ui.job
                                       \/ ui'.job = active
    BY <1>10 DEF Take, Typed
  <2>. QED
    BY <2>1, <2>2
<1>11. CASE Refuse
  <2>1. events' = events /\ Latest' = Latest /\ last' = last /\ busy' = busy
        /\ active' = active /\ ended' = ended
    BY <1>11 DEF Refuse, Latest
  <2>2. ui'.pc \in {"cancel", "tell"} => \/ ui.pc \in {"cancel", "tell"} /\ ui'.job = ui.job
                                       \/ ui'.job = active
    BY <1>11 DEF Refuse, Typed
  <2>. QED
    BY <2>1, <2>2
<1>12. CASE Start
  <2>1. /\ Said' = Said \cup {Event("JOB_STARTED", worker.job)}
        /\ Latest' = Event("JOB_STARTED", worker.job)
        /\ events' # <<>> /\ Event("JOB_STARTED", worker.job) \in Told
    BY <1>12, OfWorker, Appended DEF Start, Kind, End
  <2>2. active' = active /\ ended' = ended /\ ui' = ui
    BY <1>12 DEF Start
  <2>3. ~At("clear") /\ ~At("free")
    BY <1>12 DEF Start, At
  <2>4. active = worker.job /\ active # None /\ ~Over(active)
    BY <2>3, OfWorker DEF Owned, EndsTold
  <2>5. Latest' # None
    BY <2>1, <1>c
  <2>. QED
    BY <2>1, <2>2, <2>4, <2>5 DEF Event, End
<1>13. CASE Progress
  <2>1. /\ Said' = Said \cup {Event("JOB_PROGRESS", worker.job)}
        /\ Latest' = Event("JOB_PROGRESS", worker.job)
        /\ events' # <<>> /\ Event("JOB_PROGRESS", worker.job) \in Told
    BY <1>13, OfWorker, Appended DEF Progress, Kind, End
  <2>2. active' = active /\ ended' = ended /\ ui' = ui
    BY <1>13 DEF Progress
  <2>3. ~At("clear") /\ ~At("free")
    BY <1>13 DEF Progress, At
  <2>4. active = worker.job /\ active # None /\ ~Over(active)
    BY <2>3, OfWorker DEF Owned, EndsTold
  <2>5. Latest' # None
    BY <2>1, <1>c
  <2>. QED
    BY <2>1, <2>2, <2>4, <2>5 DEF Event, End
<1>14. CASE Check
  <2>1. events' = events /\ Latest' = Latest /\ last' = last /\ busy' = busy
        /\ active' = active /\ ended' = ended
    BY <1>14 DEF Check, Latest
  <2>2. ui'.pc \in {"cancel", "tell"} => \/ ui.pc \in {"cancel", "tell"} /\ ui'.job = ui.job
                                       \/ ui'.job = active
    BY <1>14 DEF Check, Typed
  <2>. QED
    BY <2>1, <2>2
<1>27. CASE Register
  <2>1. events' = events /\ Latest' = Latest /\ last' = last /\ busy' = busy
        /\ active' = active /\ ended' = ended
    BY <1>27 DEF Register, Latest
  <2>2. ui'.pc \in {"cancel", "tell"} => \/ ui.pc \in {"cancel", "tell"} /\ ui'.job = ui.job
                                       \/ ui'.job = active
    BY <1>27 DEF Register, Typed
  <2>. QED
    BY <2>1, <2>2
<1>15. CASE Work
  <2>1. events' = events /\ Latest' = Latest /\ last' = last /\ busy' = busy
        /\ active' = active /\ ended' = ended
    BY <1>15 DEF Work, Latest
  <2>2. ui'.pc \in {"cancel", "tell"} => \/ ui.pc \in {"cancel", "tell"} /\ ui'.job = ui.job
                                       \/ ui'.job = active
    BY <1>15 DEF Work, Typed
  <2>. QED
    BY <2>1, <2>2
<1>16. CASE PersistResult
  <2>1. events' = events /\ Latest' = Latest /\ last' = last /\ busy' = busy
        /\ active' = active /\ ended' = ended
    BY <1>16 DEF PersistResult, Latest
  <2>2. ui'.pc \in {"cancel", "tell"} => \/ ui.pc \in {"cancel", "tell"} /\ ui'.job = ui.job
                                       \/ ui'.job = active
    BY <1>16 DEF PersistResult, Typed
  <2>. QED
    BY <2>1, <2>2
<1>17. CASE PersistDraft
  <2>1. events' = events /\ Latest' = Latest /\ last' = last /\ busy' = busy
        /\ active' = active /\ ended' = ended
    BY <1>17 DEF PersistDraft, Latest
  <2>2. ui'.pc \in {"cancel", "tell"} => \/ ui.pc \in {"cancel", "tell"} /\ ui'.job = ui.job
                                       \/ ui'.job = active
    BY <1>17 DEF PersistDraft, Typed
  <2>. QED
    BY <2>1, <2>2
<1>18. CASE Persisted
  <2>1. /\ Said' = Said \cup {Event("JOB_PROGRESS", worker.job)}
        /\ Latest' = Event("JOB_PROGRESS", worker.job)
        /\ events' # <<>> /\ Event("JOB_PROGRESS", worker.job) \in Told
    BY <1>18, OfWorker, Appended DEF Persisted, Kind, End
  <2>2. active' = active /\ ended' = ended /\ ui' = ui
    BY <1>18 DEF Persisted
  <2>3. ~At("clear") /\ ~At("free")
    BY <1>18 DEF Persisted, At
  <2>4. active = worker.job /\ active # None /\ ~Over(active)
    BY <2>3, OfWorker DEF Owned, EndsTold
  <2>5. Latest' # None
    BY <2>1, <1>c
  <2>. QED
    BY <2>1, <2>2, <2>4, <2>5 DEF Event, End
<1>19. CASE Qualify
  <2>1. events' = events /\ Latest' = Latest /\ last' = last /\ busy' = busy
        /\ active' = active /\ ended' = ended
    BY <1>19 DEF Qualify, Latest
  <2>2. ui'.pc \in {"cancel", "tell"} => \/ ui.pc \in {"cancel", "tell"} /\ ui'.job = ui.job
                                       \/ ui'.job = active
    BY <1>19 DEF Qualify, Typed
  <2>. QED
    BY <2>1, <2>2
<1>20. CASE ReadDraft
  <2>1. events' = events /\ Latest' = Latest /\ last' = last /\ busy' = busy
        /\ active' = active /\ ended' = ended
    BY <1>20 DEF ReadDraft, Latest
  <2>2. ui'.pc \in {"cancel", "tell"} => \/ ui.pc \in {"cancel", "tell"} /\ ui'.job = ui.job
                                       \/ ui'.job = active
    BY <1>20 DEF ReadDraft, Typed
  <2>. QED
    BY <2>1, <2>2
<1>21. CASE Compare
  <2>1. events' = events /\ Latest' = Latest /\ last' = last /\ busy' = busy
        /\ active' = active /\ ended' = ended
    BY <1>21 DEF Compare, Latest
  <2>2. ui'.pc \in {"cancel", "tell"} => \/ ui.pc \in {"cancel", "tell"} /\ ui'.job = ui.job
                                       \/ ui'.job = active
    BY <1>21 DEF Compare, Typed
  <2>. QED
    BY <2>1, <2>2
<1>22. CASE Prepare
  <2>1. events' = events /\ Latest' = Latest /\ last' = last /\ busy' = busy
        /\ active' = active /\ ended' = ended
    BY <1>22 DEF Prepare, Latest
  <2>2. ui'.pc \in {"cancel", "tell"} => \/ ui.pc \in {"cancel", "tell"} /\ ui'.job = ui.job
                                       \/ ui'.job = active
    BY <1>22 DEF Prepare, Typed
  <2>. QED
    BY <2>1, <2>2
<1>23. CASE Finish
  <2>1. ~At("clear") /\ ~At("free")
    BY <1>23 DEF Finish, At, EndOf
  <2>2. active = worker.job /\ active # None /\ worker.job \in Nat
    BY <2>1, OfWorker DEF Owned
  <2>3. EndOf[worker.pc] \in End
    BY <1>23 DEF Finish, EndOf, End
  <2>4. /\ Said' = Said \cup {Event(EndOf[worker.pc], worker.job)} /\ events' # <<>>
        /\ Latest' = Event(EndOf[worker.pc], worker.job)
    BY <1>23, <2>2, <2>3, Appended DEF Finish, Kind
  <2>5. active' = active /\ ended' = ended /\ ui' = ui
    BY <1>23 DEF Finish
  <2>6. Event(EndOf[worker.pc], worker.job).kind \in End
        /\ Event(EndOf[worker.pc], worker.job).job = worker.job
    BY <2>3 DEF Event
  <2>7. Over(active)' /\ "JOB_CANCEL_REQUESTED" \notin End
    BY <2>2, <2>4, <2>5, <2>6 DEF End
  <2>. QED
    BY <2>2, <2>4, <2>5, <2>6, <2>7
<1>24. CASE Clear
  <2>1. active' = None /\ events' = events /\ Latest' = Latest /\ last' = last
        /\ ended' = ended /\ ui' = ui /\ busy' = busy
    BY <1>24 DEF Clear, Latest, Owned, At
  <2>2. active # None => Over(active)
    BY <1>24 DEF Clear, EndsTold
  <2>. QED
    BY <2>1, <2>2, OfWorker
<1>25. ASSUME NEW item \in Item, Change(item)
       PROVE  LatestIsRight'
  <2>1. events' = events /\ Latest' = Latest /\ last' = last /\ busy' = busy
        /\ active' = active /\ ended' = ended
    BY <1>25 DEF Change, Latest
  <2>2. ui'.pc \in {"cancel", "tell"} => \/ ui.pc \in {"cancel", "tell"} /\ ui'.job = ui.job
                                       \/ ui'.job = active
    BY <1>25 DEF Change, Typed
  <2>. QED
    BY <2>1, <2>2
<1>26. CASE UNCHANGED writingVars
  <2>1. events' = events /\ Latest' = Latest /\ last' = last /\ busy' = busy
        /\ active' = active /\ ended' = ended
    BY <1>26 DEF writingVars, Latest
  <2>2. ui'.pc \in {"cancel", "tell"} => \/ ui.pc \in {"cancel", "tell"} /\ ui'.job = ui.job
                                       \/ ui'.job = active
    BY <1>26 DEF writingVars, Typed
  <2>. QED
    BY <2>1, <2>2
<1>. QED
  BY <1>1, <1>2, <1>3, <1>4, <1>5, <1>6, <1>7, <1>8, <1>9, <1>10, <1>11, <1>12, <1>13,
     <1>14, <1>15, <1>16, <1>17, <1>18, <1>19, <1>20, <1>21, <1>22, <1>23, <1>24, <1>25,
     <1>26, <1>27
     DEF Next, TkStep, WorkerStep, Environment

-----------------------------------------------------------------------------
\* The initial state has all of it.
LEMMA InvInit == Init => IInv
<1>. SUFFICES ASSUME Init PROVE IInv
  OBVIOUS
<1>1. Said = {} /\ DOMAIN events = {}
  BY DEF Init, Said
<1>2. worker \in Worker
  BY DEF Init, Free, Worker, Step, Clean
<1>3. Typed
  <2>1. world \in Versions
    BY DEF Init, Versions
  <2>2. events \in Seq(Told)
    BY DEF Init
  <2>3. stopped = {} /\ asked = {} /\ stored = {} /\ ended = {} /\ jobs = 0 /\ tasks = <<>>
    BY DEF Init
  <2>4. ui \in [pc : {"idle", "cancel", "tell", "shutdown", "closed"}, job : Nat] /\ ui.pc = "idle"
    BY DEF Init
  <2>5. 1..0 = {} /\ tasks \in [1..jobs -> Submitted]
    BY <2>3
  <2>. QED
    BY <1>2, <2>1, <2>2, <2>3, <2>4, <2>5 DEF Init, Typed
<1>4. Owned /\ Untouched
  BY <1>1 DEF Init, Owned, Untouched, Clean, Read, Served, At, Free
<1>5. EndsTold
  BY <1>1 DEF Init, EndsTold, Once
<1>6. LatestIsRight
  BY DEF Init, LatestIsRight, Latest
<1>. QED
  BY <1>3, <1>4, <1>5, <1>6 DEF IInv

THEOREM Inductive == Spec => []IInv
<1>1. IInv /\ [Next]_writingVars => IInv'
  BY TypedStep, OwnedStep, UntouchedStep, EndsToldStep, LatestIsRightStep DEF IInv
<1>. QED
  BY InvInit, <1>1, PTL DEF Spec

(***************************************************************************)
(* However the Tk thread and the worker interleave, whatever others change *)
(* and whichever write fails: a "COMPLETED" has left exactly what its      *)
(* operation promises, a write the action for the draft that was shown; a  *)
(* "CANCELLED" was asked for and has left nothing but registered sources;  *)
(* and each end is told once (_run_job, execute, _persist, _emit_completed,*)
(* _run_governed_write, prepare_governed_formal_write, request_cancel).    *)
(***************************************************************************)
THEOREM TrueEnds == Spec => []EndsAreTrue
<1>1. ASSUME NEW job
      PROVE  /\ Left(job) \ {"sources"} = Rest(stored, job)
             /\ Rest(stored, job) = {} => Left(job) \subseteq {"sources"}
             /\ Promised(job) = Owed(tasks[job].op)
  BY DEF Left, Rest, Promised, Owed
<1>2. ASSUME IInv PROVE EndsAreTrue
  <2>1. \A s \in stored : tasks[s.job].op = "write" => s.draft = tasks[s.job].shown["draft"]
    BY <1>2 DEF IInv, Untouched
  <2>2. ASSUME NEW e \in Said
        PROVE  /\ e.kind = "JOB_CANCELLED" => e.job \in asked /\ Left(e.job) \subseteq {"sources"}
               /\ e.kind = "JOB_COMPLETED" => Left(e.job) \ {"sources"} = Promised(e.job)
               /\ e.kind \in End => e.job \notin ended
    BY <1>1, <1>2 DEF IInv, EndsTold
  <2>3. Once(events)
    BY <1>2 DEF IInv, EndsTold
  <2>. QED
    BY <2>1, <2>2, <2>3 DEF EndsAreTrue, Once
<1>. QED
  BY Inductive, <1>2, PTL

(***************************************************************************)
(* When every event was shown, the view is busy exactly while a job is at  *)
(* work, but for the request to stop told too late (apply_event and the    *)
(* order in which _run_job and request_cancel emit).                       *)
(***************************************************************************)
THEOREM RightView == Spec => []ViewIsRight
<1>1. ASSUME IInv, AllShown
      PROVE  busy <=> AtWork \/ ToldTooLate
  <2>1. events = <<>> /\ Said = {} /\ Latest = last
    BY <1>1 DEF AllShown, Said, Latest
  <2>2. \A job : Over(job) <=> job \in ended
    BY <2>1 DEF Over
  <2>. QED
    BY <1>1, <2>1, <2>2 DEF IInv, LatestIsRight, AtWork, ToldTooLate
<1>2. IInv => ViewIsRight
  BY <1>1 DEF ViewIsRight
<1>. QED
  BY Inductive, <1>2, PTL

=============================================================================
