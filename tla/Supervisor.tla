----------------------------- MODULE Supervisor -----------------------------
(***************************************************************************)
(* ourd_gui/supervisor.py: supervise_command launches the GUI as a child   *)
(* in a process group of its own, writes a heartbeat while it runs,        *)
(* restarts it after a failure with a growing delay, and gives up after    *)
(* max_restarts; read_supervisor_status tells a reader what it finds.      *)
(*                                                                         *)
(* The control point of supervise_command is named for what it does next.  *)
(* Its steps take no time; a second passes only while it sleeps or waits.  *)
(* A child is known by the number of its launch.                           *)
(***************************************************************************)
EXTENDS Integers, FiniteSets

CONSTANTS
  MaxRestarts,  \* max_restarts
  Poll,         \* poll_seconds
  Grace,        \* _terminate_process_group: the wait after SIGTERM ...
  KillWait,     \* ... and after SIGKILL
  Stale,        \* DEFAULT_HEARTBEAT_STALE_SECONDS
  MaxFaults     \* bound: writes that fail, children that cannot be killed,
                \* and kills of the supervisor

Launch == 1..(MaxRestarts + 1)

ASSUME SupervisorAssumption ==
  /\ MaxRestarts \in Nat /\ MaxFaults \in Nat
  /\ Poll \in Nat \ {0} /\ Grace \in Nat \ {0} /\ KillWait \in Nat \ {0}
  /\ Stale \in Nat /\ Poll <= Stale

VARIABLES
  pc,            \* what supervise_command does next
  stopRequested,
  restartCount,
  launched,      \* children launched; the last one is `process`
  child,         \* by launch: "none", "running", "ok" or "failed"
  signalled,     \* by launch: "none", "term" or "kill"
  stuck,         \* children that outlive SIGKILL
  status,        \* current.json: a state and the child it names
  age,           \* seconds since it was written
  incidents,     \* launches with a file under incidents/
  events,        \* events.jsonl
  timer,         \* seconds left of a sleep or of a wait with a timeout
  waited,        \* seconds since the stop was requested
  faults

superVars == <<pc, stopRequested, restartCount, launched, child, signalled, stuck,
               status, age, incidents, events, timer, waited, faults>>
children == <<launched, child, signalled, stuck>>
files == <<status, age, incidents, events>>
outside == <<stopRequested, waited, faults>>

Ended == {"returned", "raised", "killed"}
Alive == pc \notin Ended
Running == launched # 0 /\ child[launched] = "running"

\* Mutant: no limit.
DelayUnlimited(n) == IF n = 0 THEN 1 ELSE 2^(n - 1)
\* min(2 ** (restart_count - 1), 8)
Delay(n) == CASE n <= 1 -> 1 [] n = 2 -> 2 [] n = 3 -> 4 [] OTHER -> 8

-----------------------------------------------------------------------------
\* SupervisorRuntime.
Event(type) == events' = events \cup {<<type, launched>>}
Status(state) ==
  /\ status' = [state |-> state, child |-> IF state = "STARTING" THEN 0 ELSE launched]
  /\ age' = 0
Goto(step) == pc' = step

\* A step that writes an event, or the status, and does nothing else.
WriteEvent(at, type, next) ==
  /\ pc = at
  /\ Event(type)
  /\ Goto(next)
  /\ UNCHANGED <<children, restartCount, status, age, incidents, timer, outside>>
WriteStatus(at, state, next) ==
  /\ pc = at
  /\ Status(state)
  /\ Goto(next)
  /\ UNCHANGED <<children, restartCount, incidents, events, timer, outside>>

\* A step that only decides.
Decide(at, next) ==
  /\ pc = at
  /\ Goto(next)
  /\ UNCHANGED <<children, restartCount, files, timer, outside>>

Begin ==
  \/ WriteEvent("begin", "SUPERVISOR_STARTED", "starting")
  \/ WriteStatus("starting", "STARTING", "launch")

\* Popen, with start_new_session: the child outlives the supervisor.
LaunchChild ==
  /\ pc = "launch"
  /\ launched' = launched + 1
  /\ child' = [child EXCEPT ![launched + 1] = "running"]
  /\ Goto("launched")
  /\ UNCHANGED <<signalled, stuck, restartCount, files, timer, outside>>

Announce ==
  \/ WriteEvent("launched", "CHILD_STARTED", "announce")
  \/ WriteStatus("announce", "RUNNING", "poll")

\* Mutant: the loop sleeps without writing a heartbeat.
PollSilently ==
  /\ pc = "poll"
  /\ Running /\ ~stopRequested
  /\ timer' = Poll
  /\ Goto("sleep")
  /\ UNCHANGED <<children, restartCount, files, outside>>
\* One turn of the loop: a heartbeat and a sleep.
PollChild ==
  /\ pc = "poll"
  /\ Running /\ ~stopRequested
  /\ Status("RUNNING")
  /\ timer' = Poll
  /\ Goto("sleep")
  /\ UNCHANGED <<children, restartCount, incidents, events, outside>>
Wake == timer = 0 /\ Decide("sleep", "poll")
LeaveLoop == (~Running \/ stopRequested) /\ Decide("poll", "polled")

\* After the loop.  The child may have ended since it was last looked at.
Polled ==
  \/ stopRequested /\ Running /\ WriteEvent("polled", "SHUTDOWN_REQUESTED", "stopping")
  \/ ~(stopRequested /\ Running) /\ Decide("polled", "wait")
Stopping == WriteStatus("stopping", "STOPPING", "terminate")

\* _terminate_process_group.
Signal(sig, wait, next) ==
  /\ Running
  /\ signalled' = [signalled EXCEPT ![launched] = sig]
  /\ timer' = wait
  /\ Goto(next)
  /\ UNCHANGED <<launched, child, stuck, restartCount, files, outside>>
Terminate == pc = "terminate" /\ Signal("term", Grace, "grace")
Kill == pc = "grace" /\ timer = 0 /\ Signal("kill", KillWait, "killing")
GroupEnded == \E step \in {"terminate", "grace", "killing"} : ~Running /\ Decide(step, "wait")
\* Mutant: the timeout of the last wait is taken for an exit.
KillTimeoutIgnored == Running /\ timer = 0 /\ Decide("killing", "exited")
\* process.wait(timeout=2.0) raises TimeoutExpired.
KillTimeout == Running /\ timer = 0 /\ Decide("killing", "raised")

Reap == ~Running /\ WriteEvent("wait", "CHILD_EXITED", "exited")

\* Mutant: a stop is forgotten when the child that ended had failed.
ReturnsForgettingStop == child[launched] = "ok"
\* Is this the end, or is the exit an incident?
Returns == stopRequested \/ child[launched] = "ok"
Exited ==
  \/ WriteStatus("exited", "STOPPED", "stopped") /\ Returns
  \/ Decide("exited", "incident") /\ ~Returns
Stopped == WriteEvent("stopped", "SUPERVISOR_STOPPED", "returned")

\* Mutant: only the exit that opens the circuit leaves an incident.
RecordLastIncident ==
  /\ pc = "incident"
  /\ incidents' = IF restartCount < MaxRestarts THEN incidents ELSE incidents \cup {launched}
  /\ Goto("recorded")
  /\ UNCHANGED <<children, restartCount, status, age, events, timer, outside>>
RecordIncident ==
  /\ pc = "incident"
  /\ incidents' = incidents \cup {launched}
  /\ Goto("recorded")
  /\ UNCHANGED <<children, restartCount, status, age, events, timer, outside>>
Recorded == WriteEvent("recorded", "INCIDENT_RECORDED", "judge")

\* The circuit breaker.
CircuitOpens == restartCount >= MaxRestarts
GiveUp ==
  \/ CircuitOpens /\ WriteStatus("judge", "FAILED", "open")
  \/ WriteEvent("open", "CIRCUIT_OPEN", "returned")

ScheduleRestart ==
  /\ pc = "judge"
  /\ ~CircuitOpens
  /\ restartCount' = restartCount + 1
  /\ Status("RESTARTING")
  /\ Goto("restarting")
  /\ UNCHANGED <<children, incidents, events, timer, outside>>
BackOff ==
  /\ pc = "restarting"
  /\ Event("RESTART_SCHEDULED")
  /\ timer' = Delay(restartCount)
  /\ Goto("backoff")
  /\ UNCHANGED <<children, restartCount, status, age, incidents, outside>>
Relaunch == timer = 0 /\ Decide("backoff", "launch")

-----------------------------------------------------------------------------
\* request_stop, by SIGINT or SIGTERM, between any two steps.
RequestStop ==
  /\ Alive
  /\ ~stopRequested
  /\ stopRequested' = TRUE
  /\ UNCHANGED <<pc, restartCount, children, files, timer, waited, faults>>

\* A child ends by itself or at SIGTERM, well or badly; at SIGKILL, badly.
ChildEnds(n, how) ==
  /\ child[n] = "running"
  /\ n \notin stuck
  /\ signalled[n] = "kill" => how = "failed"
  /\ child' = [child EXCEPT ![n] = how]
  /\ UNCHANGED <<pc, stopRequested, restartCount, launched, signalled, stuck, files, timer,
                 waited, faults>>

\* Faults.  A write that fails raises out of supervise_command, which leaves
\* the child running.
Writes ==
  CASE pc = "poll" -> Running /\ ~stopRequested
    [] pc = "polled" -> Running /\ stopRequested
    [] pc = "exited" -> Returns
    [] OTHER -> pc \in {"begin", "starting", "launch", "launched", "announce", "stopping", "wait",
                       "stopped", "incident", "recorded", "judge", "open", "restarting"}
Fault == faults < MaxFaults /\ faults' = faults + 1
WriteFails ==
  /\ Fault
  /\ Writes
  /\ Goto("raised")
  /\ UNCHANGED <<stopRequested, restartCount, children, files, timer, waited>>
SupervisorKilled ==
  /\ Fault
  /\ Alive
  /\ Goto("killed")
  /\ UNCHANGED <<stopRequested, restartCount, children, files, timer, waited>>
ChildSticks ==
  /\ Fault
  /\ Running
  /\ stuck' = stuck \cup {launched}
  /\ UNCHANGED <<pc, stopRequested, restartCount, launched, child, signalled, files, timer, waited>>

\* A second passes.  SIGKILL takes less.
Waiting == pc \in {"sleep", "backoff"} \/ (pc \in {"grace", "killing"} /\ Running)
Dying == \E n \in Launch : child[n] = "running" /\ signalled[n] = "kill" /\ n \notin stuck
Tick ==
  /\ (Waiting /\ timer > 0) \/ (~Alive /\ age <= Stale)
  /\ ~Dying
  /\ age' = IF age <= Stale THEN age + 1 ELSE age
  /\ timer' = IF Alive THEN timer - 1 ELSE timer
  /\ waited' = IF Alive /\ stopRequested THEN waited + 1 ELSE waited
  /\ UNCHANGED <<pc, stopRequested, restartCount, children, status, incidents, events, faults>>

-----------------------------------------------------------------------------
Init ==
  /\ pc = "begin"
  /\ stopRequested = FALSE
  /\ restartCount = 0
  /\ launched = 0
  /\ child = [n \in Launch |-> "none"]
  /\ signalled = [n \in Launch |-> "none"]
  /\ stuck = {}
  /\ status = [state |-> "INACTIVE", child |-> 0] /\ age = 0
  /\ incidents = {} /\ events = {}
  /\ timer = 0 /\ waited = 0 /\ faults = 0

Loop ==
  \/ Begin \/ LaunchChild \/ Announce
  \/ PollChild \/ Wake \/ LeaveLoop \/ Polled
  \/ Stopping \/ Terminate \/ Kill \/ GroupEnded \/ KillTimeout
  \/ Reap \/ Exited \/ Stopped
  \/ RecordIncident \/ Recorded \/ GiveUp
  \/ ScheduleRestart \/ BackOff \/ Relaunch
Environment ==
  \/ RequestStop
  \/ \E n \in Launch, how \in {"ok", "failed"} : ChildEnds(n, how)
  \/ WriteFails \/ SupervisorKilled \/ ChildSticks
Next == Loop \/ Environment \/ Tick

Spec == Init /\ [][Next]_superVars

\* The supervisor is scheduled, time passes, and a signal that kills does so.
KillTakesEffect == \E n \in Launch : signalled[n] = "kill" /\ ChildEnds(n, "failed")
FairSpec == Spec /\ WF_superVars(Loop) /\ WF_superVars(Tick) /\ WF_superVars(KillTakesEffect)

-----------------------------------------------------------------------------
\* classify_supervisor_status: what a reader of current.json is told.
ChildMatched == status.child # 0 /\ child[status.child] = "running"
Classified ==
  IF /\ status.state \in {"STARTING", "RUNNING", "RESTARTING", "STOPPING"}
     /\ \/ age > Stale
        \/ ~Alive
        \/ status.state \in {"RUNNING", "STOPPING"} /\ ~ChildMatched
  THEN "STALE" ELSE status.state

\* At most one child runs, whatever fails and whenever the stop comes, and when
\* supervise_command returns there is none and current.json says it is over.
RunsAlone ==
  /\ \A m, n \in Launch : child[m] = "running" /\ child[n] = "running" => m = n
  /\ pc = "returned" => /\ \A n \in Launch : child[n] # "running"
                        /\ status.state \in {"STOPPED", "FAILED"}

\* A child is replaced only after it failed and the failure was recorded; the
\* circuit opens only after max_restarts replacements have failed as well.
RestartsAccounted ==
  /\ \A n \in Launch : n < launched => child[n] = "failed" /\ n \in incidents
  /\ \A n \in incidents : child[n] = "failed" /\ <<"CHILD_EXITED", n>> \in events
  /\ status.state = "FAILED" => incidents = Launch

\* A child that runs, watched by a supervisor that runs, is not reported stale;
\* a child or supervisor that is gone is not reported running.
ReportIsTrue ==
  /\ pc \in {"sleep", "poll"} /\ Running => Classified = "RUNNING"
  /\ Classified \in {"RUNNING", "STOPPING"} => Alive /\ Running
  /\ Classified = "STOPPED" => ~Running

\* The back-offs are 1, 2, 4 and then 8 seconds.
LongestBackOff == IF MaxRestarts <= 2 THEN MaxRestarts ELSE IF MaxRestarts = 3 THEN 4 ELSE 8
LongestSleep == IF LongestBackOff < Poll THEN Poll ELSE LongestBackOff

\* A stop takes no longer than the longest sleep, of the loop or before the last
\* restart, and the two waits of the termination.
StopIsPrompt == Alive => waited <= LongestSleep + Grace + KillWait

\* A stop requested after n launches is followed by one more at most.
OneMoreLaunch(n) == [](stopRequested /\ launched = n => [](launched <= n + 1))

\* A requested stop ends the supervisor and, unless something failed, the child;
\* at most one more child is launched meanwhile, the one whose back-off was under
\* way.
StopIsObeyed ==
  /\ \A n \in 0..(MaxRestarts + 1) : OneMoreLaunch(n)
  /\ stopRequested ~> ~Alive /\ (Running => faults # 0)
=============================================================================
