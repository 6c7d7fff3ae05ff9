---------------------------- MODULE RecoveryProofs ----------------------------
(***************************************************************************)
(* Proofs about what is tried again after a failure.  Supervisor starts    *)
(* the child process again: for every number of restarts and faults and    *)
(* all times.  RetryControl lets a tool be called again: for any actions,  *)
(* calls, evidence, limits and number of crashes.  They share no state.    *)
(***************************************************************************)
EXTENDS Supervisor, RetryControl, WellFoundedInduction, TLAPS

-----------------------------------------------------------------------------
\* Supervisor.
Watching == {"launched", "announce", "poll", "sleep", "polled", "stopping", "terminate", "grace",
             "killing", "wait", "exited", "incident", "recorded", "judge", "open", "stopped",
             "returned"}
Beginning == {"begin", "starting"}
BackingOff == {"restarting", "backoff"}
PC == Beginning \cup {"launch"} \cup Watching \cup BackingOff \cup {"raised", "killed"}

(***************************************************************************)
(* The invariant.  Types; restartCount says how often a child was          *)
(* launched, up to the moment of the next launch.                          *)
(***************************************************************************)
Typed ==
  /\ pc \in PC
  /\ stopRequested \in BOOLEAN
  /\ restartCount \in 0..MaxRestarts
  /\ launched \in 0..(MaxRestarts + 1)
  /\ child \in [Launch -> {"none", "running", "ok", "failed"}]
  /\ signalled \in [Launch -> {"none", "term", "kill"}]
  /\ status.child \in 0..(MaxRestarts + 1)
  /\ age \in Nat /\ timer \in Nat /\ waited \in Nat
  /\ incidents \subseteq Launch

Counted ==
  /\ pc \in Beginning => launched = 0 /\ restartCount = 0
  /\ pc = "launch" => launched = restartCount
  /\ pc \in Watching => launched = restartCount + 1
  /\ pc \in BackingOff => launched = restartCount /\ launched # 0

\* Only the last child may be running; one is over when its exit is told, and in
\* the records before another is launched.
OneAtATime ==
  /\ \A n \in Launch : child[n] = "none" <=> n > launched
  /\ \A n \in Launch : n < launched => n \in incidents
  /\ \A n \in incidents : child[n] = "failed" /\ <<"CHILD_EXITED", n>> \in events
  /\ pc \in {"exited", "incident", "recorded", "judge", "open", "stopped", "returned"} =>
       ~Running /\ <<"CHILD_EXITED", launched>> \in events
  /\ pc = "incident" => child[launched] = "failed"
  /\ pc \in {"recorded", "judge", "open", "launch"} \cup BackingOff =>
       launched = 0 \/ launched \in incidents

\* What current.json says at the steps that rely on it.
Told ==
  /\ status.state = "FAILED" => incidents = Launch
  /\ status.state = "STOPPED" => pc \in {"stopped", "returned", "raised", "killed"} /\ ~Running
  /\ pc = "stopped" => status.state = "STOPPED"
  /\ pc = "open" => status.state = "FAILED"
  /\ pc = "returned" => status.state \in {"STOPPED", "FAILED"}
  /\ pc \in {"poll", "sleep"} => status.state = "RUNNING" /\ status.child = launched
  /\ pc = "poll" => age <= Poll
  /\ pc = "sleep" => age + timer <= Poll

\* How long a stop has taken at each step.
Budget ==
  /\ ~stopRequested => waited = 0
  /\ pc \in {"stopping", "terminate", "grace", "killing"} => stopRequested
  /\ pc \in Beginning \cup {"incident", "recorded", "judge", "open", "restarting"} => waited = 0
  /\ pc = "sleep" => waited + timer <= Poll
  /\ pc = "backoff" => waited + timer <= Delay(restartCount)
  /\ pc \in {"launch", "launched", "announce", "poll", "polled", "stopping", "terminate"} =>
       waited <= LongestSleep
  /\ pc = "grace" => waited + timer <= LongestSleep + Grace
  /\ pc = "killing" => waited + timer <= LongestSleep + Grace + KillWait
  /\ pc \in {"wait", "exited", "stopped"} => waited <= LongestSleep + Grace + KillWait

IInv == Typed /\ Counted /\ OneAtATime /\ Told /\ Budget

-----------------------------------------------------------------------------
\* Types, which need the number of the child that is launched.
LEMMA TypedStep == IInv /\ [Next]_superVars => Typed'
<1>. SUFFICES ASSUME IInv, [Next]_superVars PROVE Typed'
  OBVIOUS
<1>. USE SupervisorAssumption DEF IInv, Typed, Launch, PC, Beginning, Watching,
         BackingOff, children, files, outside
<1>1. CASE WriteEvent("begin", "SUPERVISOR_STARTED", "starting")
  BY <1>1 DEF WriteEvent, Event, Goto
<1>2. CASE WriteStatus("starting", "STARTING", "launch")
  BY <1>2 DEF WriteStatus, Status, Goto
<1>3. CASE LaunchChild
  BY <1>3 DEF LaunchChild, Goto, Counted
<1>4. CASE WriteEvent("launched", "CHILD_STARTED", "announce")
  BY <1>4 DEF WriteEvent, Event, Goto
<1>5. CASE WriteStatus("announce", "RUNNING", "poll")
  BY <1>5 DEF WriteStatus, Status, Goto
<1>6. CASE PollChild
  BY <1>6 DEF PollChild, Status, Goto
<1>7. CASE Wake
  BY <1>7 DEF Wake, Decide, Goto
<1>8. CASE LeaveLoop
  BY <1>8 DEF LeaveLoop, Decide, Goto
<1>9. CASE Polled
  BY <1>9 DEF Polled, WriteEvent, Event, Decide, Goto
<1>10. CASE Stopping
  BY <1>10 DEF Stopping, WriteStatus, Status, Goto
<1>11. CASE Terminate
  BY <1>11 DEF Terminate, Signal, Goto
<1>12. CASE Kill
  BY <1>12 DEF Kill, Signal, Goto
<1>13. CASE GroupEnded
  BY <1>13 DEF GroupEnded, Decide, Goto
<1>14. CASE KillTimeout
  BY <1>14 DEF KillTimeout, Decide, Goto
<1>15. CASE Reap
  BY <1>15 DEF Reap, WriteEvent, Event, Goto
<1>16. CASE WriteStatus("exited", "STOPPED", "stopped") /\ Returns
  BY <1>16 DEF WriteStatus, Status, Goto
<1>17. CASE Decide("exited", "incident") /\ ~Returns
  BY <1>17 DEF Decide, Goto, Returns
<1>18. CASE Stopped
  BY <1>18 DEF Stopped, WriteEvent, Event, Goto
<1>19. CASE RecordIncident
  BY <1>19 DEF RecordIncident, Goto, Counted
<1>20. CASE Recorded
  BY <1>20 DEF Recorded, WriteEvent, Event, Goto
<1>21. CASE CircuitOpens /\ WriteStatus("judge", "FAILED", "open")
  BY <1>21 DEF CircuitOpens, WriteStatus, Status, Goto
<1>22. CASE WriteEvent("open", "CIRCUIT_OPEN", "returned")
  BY <1>22 DEF WriteEvent, Event, Goto
<1>23. CASE ScheduleRestart
  BY <1>23 DEF ScheduleRestart, CircuitOpens, Status, Goto, Counted
<1>24. CASE BackOff
  BY <1>24 DEF BackOff, Event, Goto, Delay
<1>25. CASE Relaunch
  BY <1>25 DEF Relaunch, Decide, Goto
<1>26. CASE RequestStop
  BY <1>26 DEF RequestStop
<1>27. ASSUME NEW n \in Launch, NEW how \in {"ok", "failed"}, ChildEnds(n, how)
       PROVE  Typed'
  BY <1>27 DEF ChildEnds
<1>28. CASE WriteFails
  BY <1>28 DEF WriteFails, Fault, Goto
<1>29. CASE SupervisorKilled
  BY <1>29 DEF SupervisorKilled, Fault, Goto
<1>30. CASE ChildSticks
  BY <1>30 DEF ChildSticks, Fault
<1>31. CASE Tick
  BY <1>31 DEF Tick, Waiting, Alive, Ended
<1>32. CASE UNCHANGED superVars
  BY <1>32 DEF superVars
<1>. QED
  BY <1>1, <1>2, <1>3, <1>4, <1>5, <1>6, <1>7, <1>8, <1>9, <1>10, <1>11, <1>12, <1>13,
     <1>14, <1>15, <1>16, <1>17, <1>18, <1>19, <1>20, <1>21, <1>22, <1>23, <1>24, <1>25,
     <1>26, <1>27, <1>28, <1>29, <1>30, <1>31, <1>32
     DEF Next, Loop, Environment, Begin, Announce, Exited, GiveUp

\* Launches and restarts go together.
LEMMA CountedStep == IInv /\ [Next]_superVars => Counted'
<1>. SUFFICES ASSUME IInv, [Next]_superVars PROVE Counted'
  OBVIOUS
<1>. USE SupervisorAssumption DEF IInv, Typed, Launch, PC, Beginning, Watching,
         BackingOff, children, files, outside, Counted
<1>1. CASE WriteEvent("begin", "SUPERVISOR_STARTED", "starting")
  BY <1>1 DEF WriteEvent, Event, Goto
<1>2. CASE WriteStatus("starting", "STARTING", "launch")
  BY <1>2 DEF WriteStatus, Status, Goto
<1>3. CASE LaunchChild
  BY <1>3 DEF LaunchChild, Goto
<1>4. CASE WriteEvent("launched", "CHILD_STARTED", "announce")
  BY <1>4 DEF WriteEvent, Event, Goto
<1>5. CASE WriteStatus("announce", "RUNNING", "poll")
  BY <1>5 DEF WriteStatus, Status, Goto
<1>6. CASE PollChild
  BY <1>6 DEF PollChild, Status, Goto
<1>7. CASE Wake
  BY <1>7 DEF Wake, Decide, Goto
<1>8. CASE LeaveLoop
  BY <1>8 DEF LeaveLoop, Decide, Goto
<1>9. CASE Polled
  BY <1>9 DEF Polled, WriteEvent, Event, Decide, Goto
<1>10. CASE Stopping
  BY <1>10 DEF Stopping, WriteStatus, Status, Goto
<1>11. CASE Terminate
  BY <1>11 DEF Terminate, Signal, Goto
<1>12. CASE Kill
  BY <1>12 DEF Kill, Signal, Goto
<1>13. CASE GroupEnded
  BY <1>13 DEF GroupEnded, Decide, Goto
<1>14. CASE KillTimeout
  BY <1>14 DEF KillTimeout, Decide, Goto
<1>15. CASE Reap
  BY <1>15 DEF Reap, WriteEvent, Event, Goto
<1>16. CASE WriteStatus("exited", "STOPPED", "stopped") /\ Returns
  BY <1>16 DEF WriteStatus, Status, Goto
<1>17. CASE Decide("exited", "incident") /\ ~Returns
  BY <1>17 DEF Decide, Goto, Returns
<1>18. CASE Stopped
  BY <1>18 DEF Stopped, WriteEvent, Event, Goto
<1>19. CASE RecordIncident
  BY <1>19 DEF RecordIncident, Goto
<1>20. CASE Recorded
  BY <1>20 DEF Recorded, WriteEvent, Event, Goto
<1>21. CASE CircuitOpens /\ WriteStatus("judge", "FAILED", "open")
  BY <1>21 DEF CircuitOpens, WriteStatus, Status, Goto
<1>22. CASE WriteEvent("open", "CIRCUIT_OPEN", "returned")
  BY <1>22 DEF WriteEvent, Event, Goto
<1>23. CASE ScheduleRestart
  BY <1>23 DEF ScheduleRestart, CircuitOpens, Status, Goto
<1>24. CASE BackOff
  BY <1>24 DEF BackOff, Event, Goto
<1>25. CASE Relaunch
  BY <1>25 DEF Relaunch, Decide, Goto
<1>26. CASE RequestStop
  BY <1>26 DEF RequestStop
<1>27. ASSUME NEW n \in Launch, NEW how \in {"ok", "failed"}, ChildEnds(n, how)
       PROVE  Counted'
  BY <1>27 DEF ChildEnds
<1>28. CASE WriteFails
  BY <1>28 DEF WriteFails, Fault, Goto
<1>29. CASE SupervisorKilled
  BY <1>29 DEF SupervisorKilled, Fault, Goto
<1>30. CASE ChildSticks
  BY <1>30 DEF ChildSticks, Fault
<1>31. CASE Tick
  BY <1>31 DEF Tick, Waiting, Alive, Ended
<1>32. CASE UNCHANGED superVars
  BY <1>32 DEF superVars
<1>. QED
  BY <1>1, <1>2, <1>3, <1>4, <1>5, <1>6, <1>7, <1>8, <1>9, <1>10, <1>11, <1>12, <1>13,
     <1>14, <1>15, <1>16, <1>17, <1>18, <1>19, <1>20, <1>21, <1>22, <1>23, <1>24, <1>25,
     <1>26, <1>27, <1>28, <1>29, <1>30, <1>31, <1>32
     DEF Next, Loop, Environment, Begin, Announce, Exited, GiveUp

\* No child is launched beside another, and no exit is forgotten.
LEMMA OneAtATimeStep == IInv /\ [Next]_superVars => OneAtATime'
<1>. SUFFICES ASSUME IInv, [Next]_superVars PROVE OneAtATime'
  OBVIOUS
<1>. USE SupervisorAssumption DEF IInv, Typed, Launch, PC, Beginning, Watching,
         BackingOff, children, files, outside, Counted, OneAtATime, Running
<1>1. CASE WriteEvent("begin", "SUPERVISOR_STARTED", "starting")
  BY <1>1 DEF WriteEvent, Event, Goto
<1>2. CASE WriteStatus("starting", "STARTING", "launch")
  BY <1>2 DEF WriteStatus, Status, Goto
<1>3. CASE LaunchChild
  BY <1>3 DEF LaunchChild, Goto
<1>4. CASE WriteEvent("launched", "CHILD_STARTED", "announce")
  BY <1>4 DEF WriteEvent, Event, Goto
<1>5. CASE WriteStatus("announce", "RUNNING", "poll")
  BY <1>5 DEF WriteStatus, Status, Goto
<1>6. CASE PollChild
  BY <1>6 DEF PollChild, Status, Goto
<1>7. CASE Wake
  BY <1>7 DEF Wake, Decide, Goto
<1>8. CASE LeaveLoop
  BY <1>8 DEF LeaveLoop, Decide, Goto
<1>9. CASE Polled
  BY <1>9 DEF Polled, WriteEvent, Event, Decide, Goto
<1>10. CASE Stopping
  BY <1>10 DEF Stopping, WriteStatus, Status, Goto
<1>11. CASE Terminate
  BY <1>11 DEF Terminate, Signal, Goto
<1>12. CASE Kill
  BY <1>12 DEF Kill, Signal, Goto
<1>13. CASE GroupEnded
  BY <1>13 DEF GroupEnded, Decide, Goto
<1>14. CASE KillTimeout
  BY <1>14 DEF KillTimeout, Decide, Goto
<1>15. CASE Reap
  BY <1>15 DEF Reap, WriteEvent, Event, Goto
<1>16. CASE WriteStatus("exited", "STOPPED", "stopped") /\ Returns
  BY <1>16 DEF WriteStatus, Status, Goto
<1>17. CASE Decide("exited", "incident") /\ ~Returns
  BY <1>17 DEF Decide, Goto, Returns
<1>18. CASE Stopped
  BY <1>18 DEF Stopped, WriteEvent, Event, Goto
<1>19. CASE RecordIncident
  BY <1>19 DEF RecordIncident, Goto
<1>20. CASE Recorded
  BY <1>20 DEF Recorded, WriteEvent, Event, Goto
<1>21. CASE CircuitOpens /\ WriteStatus("judge", "FAILED", "open")
  BY <1>21 DEF CircuitOpens, WriteStatus, Status, Goto
<1>22. CASE WriteEvent("open", "CIRCUIT_OPEN", "returned")
  BY <1>22 DEF WriteEvent, Event, Goto
<1>23. CASE ScheduleRestart
  BY <1>23 DEF ScheduleRestart, CircuitOpens, Status, Goto
<1>24. CASE BackOff
  BY <1>24 DEF BackOff, Event, Goto
<1>25. CASE Relaunch
  BY <1>25 DEF Relaunch, Decide, Goto
<1>26. CASE RequestStop
  BY <1>26 DEF RequestStop
<1>27. ASSUME NEW n \in Launch, NEW how \in {"ok", "failed"}, ChildEnds(n, how)
       PROVE  OneAtATime'
  BY <1>27 DEF ChildEnds
<1>28. CASE WriteFails
  BY <1>28 DEF WriteFails, Fault, Goto
<1>29. CASE SupervisorKilled
  BY <1>29 DEF SupervisorKilled, Fault, Goto
<1>30. CASE ChildSticks
  BY <1>30 DEF ChildSticks, Fault
<1>31. CASE Tick
  BY <1>31 DEF Tick, Waiting, Alive, Ended
<1>32. CASE UNCHANGED superVars
  BY <1>32 DEF superVars
<1>. QED
  BY <1>1, <1>2, <1>3, <1>4, <1>5, <1>6, <1>7, <1>8, <1>9, <1>10, <1>11, <1>12, <1>13,
     <1>14, <1>15, <1>16, <1>17, <1>18, <1>19, <1>20, <1>21, <1>22, <1>23, <1>24, <1>25,
     <1>26, <1>27, <1>28, <1>29, <1>30, <1>31, <1>32
     DEF Next, Loop, Environment, Begin, Announce, Exited, GiveUp

\* current.json follows the steps that rely on it.
LEMMA ToldStep == IInv /\ [Next]_superVars => Told'
<1>. SUFFICES ASSUME IInv, [Next]_superVars PROVE Told'
  OBVIOUS
<1>. USE SupervisorAssumption DEF IInv, Typed, Launch, PC, Beginning, Watching,
         BackingOff, children, files, outside, Counted, OneAtATime, Told, Running
<1>1. CASE WriteEvent("begin", "SUPERVISOR_STARTED", "starting")
  BY <1>1 DEF WriteEvent, Event, Goto
<1>2. CASE WriteStatus("starting", "STARTING", "launch")
  BY <1>2 DEF WriteStatus, Status, Goto
<1>3. CASE LaunchChild
  BY <1>3 DEF LaunchChild, Goto
<1>4. CASE WriteEvent("launched", "CHILD_STARTED", "announce")
  BY <1>4 DEF WriteEvent, Event, Goto
<1>5. CASE WriteStatus("announce", "RUNNING", "poll")
  BY <1>5 DEF WriteStatus, Status, Goto
<1>6. CASE PollChild
  BY <1>6 DEF PollChild, Status, Goto
<1>7. CASE Wake
  BY <1>7 DEF Wake, Decide, Goto
<1>8. CASE LeaveLoop
  BY <1>8 DEF LeaveLoop, Decide, Goto
<1>9. CASE Polled
  BY <1>9 DEF Polled, WriteEvent, Event, Decide, Goto
<1>10. CASE Stopping
  BY <1>10 DEF Stopping, WriteStatus, Status, Goto
<1>11. CASE Terminate
  BY <1>11 DEF Terminate, Signal, Goto
<1>12. CASE Kill
  BY <1>12 DEF Kill, Signal, Goto
<1>13. CASE GroupEnded
  BY <1>13 DEF GroupEnded, Decide, Goto
<1>14. CASE KillTimeout
  BY <1>14 DEF KillTimeout, Decide, Goto
<1>15. CASE Reap
  BY <1>15 DEF Reap, WriteEvent, Event, Goto
<1>16. CASE WriteStatus("exited", "STOPPED", "stopped") /\ Returns
  BY <1>16 DEF WriteStatus, Status, Goto
<1>17. CASE Decide("exited", "incident") /\ ~Returns
  BY <1>17 DEF Decide, Goto, Returns
<1>18. CASE Stopped
  BY <1>18 DEF Stopped, WriteEvent, Event, Goto
<1>19. CASE RecordIncident
  BY <1>19 DEF RecordIncident, Goto
<1>20. CASE Recorded
  BY <1>20 DEF Recorded, WriteEvent, Event, Goto
<1>21. CASE CircuitOpens /\ WriteStatus("judge", "FAILED", "open")
  <2>1. launched = MaxRestarts + 1 /\ launched \in incidents
    BY <1>21 DEF CircuitOpens, WriteStatus
  <2>2. incidents = Launch
    <3>1. \A n \in Launch : n < launched \/ n = launched
      BY <2>1
    <3>2. \A n \in Launch : n \in incidents
      BY <2>1, <3>1
    <3>. QED
      BY <3>2
  <2>3. /\ status' = [state |-> "FAILED", child |-> launched]
        /\ pc' = "open" /\ incidents' = incidents
    BY <1>21 DEF WriteStatus, Status, Goto
  <2>. QED
    BY <2>2, <2>3
<1>22. CASE WriteEvent("open", "CIRCUIT_OPEN", "returned")
  BY <1>22 DEF WriteEvent, Event, Goto
<1>23. CASE ScheduleRestart
  BY <1>23 DEF ScheduleRestart, CircuitOpens, Status, Goto
<1>24. CASE BackOff
  BY <1>24 DEF BackOff, Event, Goto
<1>25. CASE Relaunch
  BY <1>25 DEF Relaunch, Decide, Goto
<1>26. CASE RequestStop
  BY <1>26 DEF RequestStop
<1>27. ASSUME NEW n \in Launch, NEW how \in {"ok", "failed"}, ChildEnds(n, how)
       PROVE  Told'
  BY <1>27 DEF ChildEnds
<1>28. CASE WriteFails
  BY <1>28 DEF WriteFails, Fault, Goto
<1>29. CASE SupervisorKilled
  BY <1>29 DEF SupervisorKilled, Fault, Goto
<1>30. CASE ChildSticks
  BY <1>30 DEF ChildSticks, Fault
<1>31. CASE Tick
  BY <1>31 DEF Tick, Waiting, Alive, Ended
<1>32. CASE UNCHANGED superVars
  BY <1>32 DEF superVars
<1>. QED
  BY <1>1, <1>2, <1>3, <1>4, <1>5, <1>6, <1>7, <1>8, <1>9, <1>10, <1>11, <1>12, <1>13,
     <1>14, <1>15, <1>16, <1>17, <1>18, <1>19, <1>20, <1>21, <1>22, <1>23, <1>24, <1>25,
     <1>26, <1>27, <1>28, <1>29, <1>30, <1>31, <1>32
     DEF Next, Loop, Environment, Begin, Announce, Exited, GiveUp

\* A back-off is no longer than the longest there is.
LEMMA DelayBound ==
  /\ LongestSleep \in Nat /\ Poll <= LongestSleep
  /\ \A n \in 1..MaxRestarts : Delay(n) \in Nat /\ Delay(n) <= LongestSleep
  BY SupervisorAssumption DEF Delay, LongestSleep, LongestBackOff

\* No step takes more of the time of a stop than it may.
LEMMA BudgetStep == IInv /\ [Next]_superVars => Budget'
<1>. SUFFICES ASSUME IInv, [Next]_superVars PROVE Budget'
  OBVIOUS
<1>. USE SupervisorAssumption DEF IInv, Typed, Launch, PC, Beginning, Watching,
         BackingOff, children, files, outside, Counted, Budget
<1>0. LongestSleep \in Nat /\ Poll <= LongestSleep
  BY DelayBound
<1>. USE <1>0
<1>1. CASE WriteEvent("begin", "SUPERVISOR_STARTED", "starting")
  BY <1>1 DEF WriteEvent, Event, Goto
<1>2. CASE WriteStatus("starting", "STARTING", "launch")
  BY <1>2 DEF WriteStatus, Status, Goto
<1>3. CASE LaunchChild
  BY <1>3 DEF LaunchChild, Goto
<1>4. CASE WriteEvent("launched", "CHILD_STARTED", "announce")
  BY <1>4 DEF WriteEvent, Event, Goto
<1>5. CASE WriteStatus("announce", "RUNNING", "poll")
  BY <1>5 DEF WriteStatus, Status, Goto
<1>6. CASE PollChild
  BY <1>6 DEF PollChild, Status, Goto
<1>7. CASE Wake
  BY <1>7 DEF Wake, Decide, Goto
<1>8. CASE LeaveLoop
  BY <1>8 DEF LeaveLoop, Decide, Goto
<1>9. CASE Polled
  BY <1>9 DEF Polled, WriteEvent, Event, Decide, Goto
<1>10. CASE Stopping
  BY <1>10 DEF Stopping, WriteStatus, Status, Goto
<1>11. CASE Terminate
  BY <1>11 DEF Terminate, Signal, Goto
<1>12. CASE Kill
  BY <1>12 DEF Kill, Signal, Goto
<1>13. CASE GroupEnded
  BY <1>13 DEF GroupEnded, Decide, Goto
<1>14. CASE KillTimeout
  BY <1>14 DEF KillTimeout, Decide, Goto
<1>15. CASE Reap
  BY <1>15 DEF Reap, WriteEvent, Event, Goto
<1>16. CASE WriteStatus("exited", "STOPPED", "stopped") /\ Returns
  BY <1>16 DEF WriteStatus, Status, Goto
<1>17. CASE Decide("exited", "incident") /\ ~Returns
  BY <1>17 DEF Decide, Goto, Returns
<1>18. CASE Stopped
  BY <1>18 DEF Stopped, WriteEvent, Event, Goto
<1>19. CASE RecordIncident
  BY <1>19 DEF RecordIncident, Goto
<1>20. CASE Recorded
  BY <1>20 DEF Recorded, WriteEvent, Event, Goto
<1>21. CASE CircuitOpens /\ WriteStatus("judge", "FAILED", "open")
  BY <1>21 DEF CircuitOpens, WriteStatus, Status, Goto
<1>22. CASE WriteEvent("open", "CIRCUIT_OPEN", "returned")
  BY <1>22 DEF WriteEvent, Event, Goto
<1>23. CASE ScheduleRestart
  BY <1>23 DEF ScheduleRestart, CircuitOpens, Status, Goto
<1>24. CASE BackOff
  <2>1. Delay(restartCount) \in Nat
    BY <1>24, DelayBound DEF BackOff
  <2>2. /\ waited' = 0 /\ timer' = Delay(restartCount) /\ pc' = "backoff"
        /\ UNCHANGED <<stopRequested, restartCount>>
    BY <1>24 DEF BackOff, Goto
  <2>3. Delay(restartCount)' = Delay(restartCount)
    BY <2>2
  <2>. QED
    BY <2>1, <2>2, <2>3
<1>25. CASE Relaunch
  <2>1. waited <= LongestSleep
    BY <1>25, DelayBound DEF Relaunch, Decide
  <2>2. pc' = "launch" /\ UNCHANGED <<stopRequested, waited, timer>>
    BY <1>25 DEF Relaunch, Decide, Goto
  <2>. QED
    BY <2>1, <2>2
<1>26. CASE RequestStop
  BY <1>26 DEF RequestStop
<1>27. ASSUME NEW n \in Launch, NEW how \in {"ok", "failed"}, ChildEnds(n, how)
       PROVE  Budget'
  BY <1>27 DEF ChildEnds
<1>28. CASE WriteFails
  BY <1>28 DEF WriteFails, Fault, Goto
<1>29. CASE SupervisorKilled
  BY <1>29 DEF SupervisorKilled, Fault, Goto
<1>30. CASE ChildSticks
  BY <1>30 DEF ChildSticks, Fault
<1>31. CASE Tick
  <2>1. CASE ~Alive
    BY <1>31, <2>1 DEF Tick, Alive, Ended
  <2>2. CASE Alive
    <3>1. /\ pc \in {"sleep", "backoff", "grace", "killing"}
          /\ timer' = timer - 1
          /\ waited' = IF stopRequested THEN waited + 1 ELSE waited
          /\ UNCHANGED <<pc, stopRequested, restartCount>>
      BY <1>31, <2>2 DEF Tick, Waiting
    <3>2. waited' + timer' <= waited + timer
      BY <3>1
    <3>3. waited' \in Nat /\ timer' \in Nat
      BY <1>31, <2>2 DEF Tick
    <3>4. CASE pc = "backoff"
      <4>1. Delay(restartCount) \in Nat /\ Delay(restartCount)' = Delay(restartCount)
        BY <3>1, <3>4, DelayBound
      <4>. QED
        BY <3>1, <3>2, <3>3, <3>4, <4>1
    <3>5. CASE pc # "backoff"
      BY <3>1, <3>2, <3>3, <3>5
    <3>. QED
      BY <3>4, <3>5
  <2>. QED
    BY <2>1, <2>2
<1>32. CASE UNCHANGED superVars
  BY <1>32 DEF superVars
<1>. QED
  BY <1>1, <1>2, <1>3, <1>4, <1>5, <1>6, <1>7, <1>8, <1>9, <1>10, <1>11, <1>12, <1>13,
     <1>14, <1>15, <1>16, <1>17, <1>18, <1>19, <1>20, <1>21, <1>22, <1>23, <1>24, <1>25,
     <1>26, <1>27, <1>28, <1>29, <1>30, <1>31, <1>32
     DEF Next, Loop, Environment, Begin, Announce, Exited, GiveUp

\* The invariant holds throughout.
LEMMA Inductive == Spec => []IInv
<1>1. Init => IInv
  <2>. SUFFICES ASSUME Init PROVE IInv
    OBVIOUS
  <2>1. Typed
    <3>1. pc \in PC /\ status.child = 0 /\ incidents \subseteq Launch
      BY DEF Init, PC, Beginning
    <3>2. /\ child \in [Launch -> {"none", "running", "ok", "failed"}]
          /\ signalled \in [Launch -> {"none", "term", "kill"}]
      BY DEF Init
    <3>3. restartCount \in 0..MaxRestarts /\ launched \in 0..(MaxRestarts + 1)
      BY SupervisorAssumption DEF Init
    <3>. QED
      BY <3>1, <3>2, <3>3, SupervisorAssumption DEF Init, Typed
  <2>2. OneAtATime
    BY SupervisorAssumption DEF Init, OneAtATime, Launch, BackingOff
  <2>3. Counted /\ Told /\ Budget
    BY DEF Init, Counted, Told, Budget, Beginning, Watching, BackingOff
  <2>. QED
    BY <2>1, <2>2, <2>3 DEF IInv
<1>2. IInv /\ [Next]_superVars => IInv'
  BY TypedStep, CountedStep, OneAtATimeStep, ToldStep, BudgetStep DEF IInv
<1>. QED
  BY <1>1, <1>2, PTL DEF Spec

-----------------------------------------------------------------------------
\* A child that runs is the last one.
LEMMA LastRuns == IInv => \A n \in Launch : child[n] = "running" => n = launched
<1>. SUFFICES ASSUME IInv, NEW n \in Launch, child[n] = "running" PROVE n = launched
  OBVIOUS
<1>1. ~(n > launched) /\ n \notin incidents
  BY DEF IInv, OneAtATime
<1>2. ~(n < launched)
  BY <1>1 DEF IInv, OneAtATime
<1>3. n \in Nat /\ launched \in Nat
  BY SupervisorAssumption DEF IInv, Typed, Launch
<1>. QED
  BY <1>1, <1>2, <1>3

\* For any number of restarts and faults, at most one child runs, and none when
\* supervise_command has returned.
THEOREM OneChild == Spec => []RunsAlone
<1>1. IInv => RunsAlone
  <2>. SUFFICES ASSUME IInv PROVE RunsAlone
    OBVIOUS
  <2>1. \A n \in Launch : child[n] = "running" => n = launched
    BY LastRuns
  <2>2. pc = "returned" => ~Running /\ launched # 0
    BY DEF IInv, Typed, Counted, OneAtATime, Watching
  <2>. QED
    BY <2>1, <2>2 DEF RunsAlone, IInv, Told, Running
<1>. QED
  BY <1>1, Inductive, PTL

\* Every child but the last has failed and is among the incidents; FAILED is
\* written only after max_restarts replacements have failed as well.
THEOREM EveryRestartAccounted == Spec => []RestartsAccounted
<1>1. IInv => RestartsAccounted
  BY DEF IInv, OneAtATime, Told, RestartsAccounted
<1>. QED
  BY <1>1, Inductive, PTL

\* What classify_supervisor_status makes of current.json is so, if a poll is no
\* longer than what counts as stale.
THEOREM ReaderIsToldTruth == Spec => []ReportIsTrue
<1>1. IInv => ReportIsTrue
  <2>. SUFFICES ASSUME IInv PROVE ReportIsTrue
    OBVIOUS
  <2>1. \A n \in Launch : child[n] = "running" => n = launched
    BY LastRuns
  <2>2. launched \in 0..(MaxRestarts + 1) /\ status.child \in 0..(MaxRestarts + 1)
    BY DEF IInv, Typed
  <2>3. ChildMatched => Running /\ status.child = launched
    BY <2>1, <2>2, SupervisorAssumption DEF ChildMatched, Running, Launch
  <2>4. pc \in {"sleep", "poll"} /\ Running => Classified = "RUNNING"
    <3>. SUFFICES ASSUME pc \in {"sleep", "poll"}, Running PROVE Classified = "RUNNING"
      OBVIOUS
    <3>1. status.state = "RUNNING" /\ status.child = launched
      BY DEF IInv, Told
    <3>2. age <= Stale
      BY SupervisorAssumption DEF IInv, Typed, Told
    <3>3. ChildMatched /\ Alive
      BY <3>1 DEF ChildMatched, Running, Alive, Ended
    <3>. QED
      BY <3>1, <3>2, <3>3, SupervisorAssumption DEF Classified, IInv, Typed
  <2>5. Classified \in {"RUNNING", "STOPPING"} => Alive /\ Running
    BY <2>3 DEF Classified
  <2>6. Classified = "STOPPED" => ~Running
    BY DEF Classified, IInv, Told
  <2>. QED
    BY <2>4, <2>5, <2>6 DEF ReportIsTrue
<1>. QED
  BY <1>1, Inductive, PTL

\* For all times, a stop takes no longer than one sleep and the two waits of the
\* termination.
THEOREM PromptStop == Spec => []StopIsPrompt
<1>1. IInv => StopIsPrompt
  <2>. SUFFICES ASSUME IInv, Alive PROVE waited <= LongestSleep + Grace + KillWait
    BY DEF StopIsPrompt
  <2>1. waited \in Nat /\ timer \in Nat /\ LongestSleep \in Nat /\ Poll <= LongestSleep
    BY DelayBound DEF IInv, Typed
  <2>2. CASE pc = "backoff"
    <3>1. restartCount \in 1..MaxRestarts
      BY <2>2 DEF IInv, Typed, Counted, BackingOff
    <3>2. waited + timer <= Delay(restartCount)
      BY <2>2 DEF IInv, Budget
    <3>. QED
      BY <2>1, <3>1, <3>2, DelayBound, SupervisorAssumption
  <2>3. CASE pc # "backoff"
    BY <2>1, <2>3, SupervisorAssumption
       DEF IInv, Typed, Budget, Alive, Ended, PC, Beginning, Watching, BackingOff
  <2>. QED
    BY <2>2, <2>3
<1>. QED
  BY <1>1, Inductive, PTL

\* After a stop was requested at most one more child is launched, whatever the
\* children and the disk do.
Committed(n) ==
  /\ stopRequested
  /\ launched <= n + 1
  /\ launched = n + 1 => pc \notin Beginning \cup BackingOff
                                 \cup {"launch", "incident", "recorded", "judge", "open"}
THEOREM OneMoreAtMost ==
  ASSUME NEW n \in 0..(MaxRestarts + 1)
  PROVE  Spec => OneMoreLaunch(n)
<1>. USE DEF IInv, Typed, Committed
<1>1. IInv /\ stopRequested /\ launched = n => Committed(n)
  BY SupervisorAssumption
<1>2. Committed(n) => launched <= n + 1
  OBVIOUS
<1>3. IInv /\ Committed(n) /\ [Next]_superVars => Committed(n)'
  <2>. SUFFICES ASSUME IInv, Committed(n), [Next]_superVars PROVE Committed(n)'
    OBVIOUS
  <2>. USE DEF Beginning, BackingOff, children, files, outside
  <2>1. CASE WriteEvent("begin", "SUPERVISOR_STARTED", "starting")
    BY <2>1 DEF WriteEvent, Event, Goto
  <2>2. CASE WriteStatus("starting", "STARTING", "launch")
    BY <2>2 DEF WriteStatus, Status, Goto
  <2>3. CASE LaunchChild
    BY <2>3 DEF LaunchChild, Goto
  <2>4. CASE WriteEvent("launched", "CHILD_STARTED", "announce")
    BY <2>4 DEF WriteEvent, Event, Goto
  <2>5. CASE WriteStatus("announce", "RUNNING", "poll")
    BY <2>5 DEF WriteStatus, Status, Goto
  <2>6. CASE PollChild
    BY <2>6 DEF PollChild, Status, Goto
  <2>7. CASE Wake
    BY <2>7 DEF Wake, Decide, Goto
  <2>8. CASE LeaveLoop
    BY <2>8 DEF LeaveLoop, Decide, Goto
  <2>9. CASE Polled
    BY <2>9 DEF Polled, WriteEvent, Event, Decide, Goto
  <2>10. CASE Stopping
    BY <2>10 DEF Stopping, WriteStatus, Status, Goto
  <2>11. CASE Terminate
    BY <2>11 DEF Terminate, Signal, Goto
  <2>12. CASE Kill
    BY <2>12 DEF Kill, Signal, Goto
  <2>13. CASE GroupEnded
    BY <2>13 DEF GroupEnded, Decide, Goto
  <2>14. CASE KillTimeout
    BY <2>14 DEF KillTimeout, Decide, Goto
  <2>15. CASE Reap
    BY <2>15 DEF Reap, WriteEvent, Event, Goto
  <2>16. CASE WriteStatus("exited", "STOPPED", "stopped") /\ Returns
    BY <2>16 DEF WriteStatus, Status, Goto
  <2>17. CASE Decide("exited", "incident") /\ ~Returns
    BY <2>17 DEF Decide, Goto, Returns
  <2>18. CASE Stopped
    BY <2>18 DEF Stopped, WriteEvent, Event, Goto
  <2>19. CASE RecordIncident
    BY <2>19 DEF RecordIncident, Goto
  <2>20. CASE Recorded
    BY <2>20 DEF Recorded, WriteEvent, Event, Goto
  <2>21. CASE CircuitOpens /\ WriteStatus("judge", "FAILED", "open")
    BY <2>21 DEF CircuitOpens, WriteStatus, Status, Goto
  <2>22. CASE WriteEvent("open", "CIRCUIT_OPEN", "returned")
    BY <2>22 DEF WriteEvent, Event, Goto
  <2>23. CASE ScheduleRestart
    BY <2>23 DEF ScheduleRestart, CircuitOpens, Status, Goto
  <2>24. CASE BackOff
    BY <2>24 DEF BackOff, Event, Goto
  <2>25. CASE Relaunch
    BY <2>25 DEF Relaunch, Decide, Goto
  <2>26. CASE RequestStop
    BY <2>26 DEF RequestStop
  <2>27. ASSUME NEW m \in Launch, NEW how \in {"ok", "failed"}, ChildEnds(m, how)
        PROVE  Committed(n)'
    BY <2>27 DEF ChildEnds
  <2>28. CASE WriteFails
    BY <2>28 DEF WriteFails, Fault, Goto
  <2>29. CASE SupervisorKilled
    BY <2>29 DEF SupervisorKilled, Fault, Goto
  <2>30. CASE ChildSticks
    BY <2>30 DEF ChildSticks, Fault
  <2>31. CASE Tick
    BY <2>31 DEF Tick, Waiting, Alive, Ended
  <2>32. CASE UNCHANGED superVars
    BY <2>32 DEF superVars
  <2>. QED
    BY <2>1, <2>2, <2>3, <2>4, <2>5, <2>6, <2>7, <2>8, <2>9, <2>10, <2>11, <2>12, <2>13,
       <2>14, <2>15, <2>16, <2>17, <2>18, <2>19, <2>20, <2>21, <2>22, <2>23, <2>24, <2>25,
       <2>26, <2>27, <2>28, <2>29, <2>30, <2>31, <2>32
     DEF Next, Loop, Environment, Begin, Announce, Exited, GiveUp
<1>. QED
  BY <1>1, <1>2, <1>3, Inductive, PTL DEF Spec, OneMoreLaunch

-----------------------------------------------------------------------------
\* RetryControl.
(***************************************************************************)
(* Every execution that failed was counted, for the pending action and for *)
(* the attempt it had prepared, or its process was lost; and no count goes *)
(* more than one beyond its limit.                                         *)
(***************************************************************************)
Accounted ==
  /\ \A id \in Ids : failures[id] <= counted[id] + crashes
  /\ \A k \in DOMAIN late : late[k] <= Count(failed, k) + crashes
Limited == \A id \in Ids : counted[id] <= Limit(id) + 1

RetryInv == TypeOK /\ Accounted /\ Limited /\ AttemptsBounded

Table(t) == \A k \in DOMAIN t : t[k] \in Nat \ {0}

-----------------------------------------------------------------------------
\* A key not seen yet counts nothing.
LEMMA CountType ==
  ASSUME NEW t, Table(t), NEW k
  PROVE  Count(t, k) \in Nat
  BY DEF Count, Table

\* Counting adds to one key and leaves the others.
LEMMA CountingTable ==
  ASSUME NEW t, Table(t), NEW key, NEW n \in Nat \ {0}
  PROVE  Table(Counting(t, key, n))
  BY CountType DEF Counting, Table
LEMMA CountingAdds ==
  ASSUME NEW t, Table(t), NEW key, NEW n \in Nat \ {0}, NEW k
  PROVE  Count(Counting(t, key, n), k) = Count(t, k) + IF k = key THEN n ELSE 0
  BY CountType DEF Counting, Count, Table

\* Limits are natural numbers, and one of an action is MaxRetries unless it is L2.
LEMMA Limits ==
  /\ AttemptLimit \in Nat
  /\ \A id : Limit(id) \in Nat /\ Limit(id) = IF id \in HighRisk THEN 0 ELSE MaxRetries
  BY RetryAssumption DEF AttemptLimit, Limit

\* A set of natural numbers that is not empty has a least one.
LEMMA LeastNat ==
  ASSUME NEW T \in SUBSET Nat, T # {}
  PROVE  \E n \in T : \A m \in T : n <= m
<1>1. PICK n \in T : \A m \in T : ~(<<m, n>> \in OpToRel(<, Nat))
  BY NatLessThanWellFounded, WFMin
<1>2. \A m \in T : ~(m < n)
  BY <1>1 DEF OpToRel
<1>. QED
  BY <1>2

\* Of the artifacts for an atom there is a best one.
LEMMA BestExists ==
  ASSUME NEW S \in SUBSET Artifact, S # {}
  PROVE  Best(S) \in S
<1>. DEFINE Poor(e) == 10000 - e.quality
<1>1. \A e \in S : e.id \in Nat /\ e.quality \in Nat /\ Poor(e) \in Nat
  BY RetryAssumption
<1>. HIDE DEF Poor
<1>2. PICK q \in {Poor(e) : e \in S} : \A p \in {Poor(e) : e \in S} : q <= p
  <2>. DEFINE T == {Poor(e) : e \in S}
  <2>1. T \in SUBSET Nat /\ T # {}
    BY <1>1
  <2>. HIDE DEF T
  <2>2. \E q \in T : \A p \in T : q <= p
    BY ONLY <2>1, LeastNat
  <2>. QED
    BY <2>2 DEF T
<1>. DEFINE Good == {e \in S : Poor(e) = q}
<1>3. Good # {} /\ \A e \in Good : e \in S /\ e.id \in Nat /\ Poor(e) = q
  BY <1>1, <1>2
<1>. HIDE DEF Good
<1>4. PICK i \in {e.id : e \in Good} : \A j \in {e.id : e \in Good} : i <= j
  <2>1. {e.id : e \in Good} \in SUBSET Nat /\ {e.id : e \in Good} # {}
    BY <1>3
  <2>. QED
    BY <2>1, LeastNat
<1>5. PICK b \in Good : b.id = i
  BY <1>4
<1>6. ASSUME NEW f \in S
      PROVE  f.quality < b.quality \/ (f.quality = b.quality /\ b.id <= f.id)
  <2>1. b \in S /\ Poor(b) = q /\ q <= Poor(f)
    BY <1>2, <1>3, <1>5
  <2>2. f.quality <= b.quality
    BY <1>1, <2>1 DEF Poor
  <2>3. ASSUME f.quality = b.quality
        PROVE  b.id <= f.id
    <3>1. f \in Good
      BY <2>1, <2>3 DEF Good, Poor
    <3>. QED
      BY <1>4, <1>5, <3>1
  <2>. QED
    BY <1>1, <2>1, <2>2, <2>3
<1>. QED
  BY <1>3, <1>5, <1>6 DEF Best

\* What is prepared is an attempt of the pending action.
LEMMA AttemptOfAction ==
  ASSUME TypeOK, NEW c, Prepares(c)
  PROVE  Attempt(c) \in Attempts /\ Attempt(c) # None /\ Attempt(c).action = pending
<1>1. pending \in Action /\ Cited \subseteq Artifact /\ evidence[pending] \subseteq Artifact
  BY DEF TypeOK, Prepares, Ids, Cited
<1>2. ASSUME NEW x \in Atom, NEW S, S = {e \in evidence[pending] : e.atom = x} \cup Cited
      PROVE  (IF S = {} THEN None ELSE Best(S)) \in Artifact \cup {None}
  BY <1>1, <1>2, BestExists
<1>3. Projection \in [Atom -> Artifact \cup {None}]
  BY <1>2 DEF Projection
<1>4. Attempt(c) \in Attempts
  BY <1>1, <1>3 DEF Attempt, Attempts, TypeOK, Ids
<1>. QED
  BY <1>4, RetryAssumption DEF Attempt

\* A failure of a call adds to one key, never takes away, and counts for the
\* pending action.
LEMMA CollisionRecorded ==
  ASSUME TypeOK, NEW c, NEW attempt, NEW n \in Nat \ {0}, RecordCollision(c, attempt, n)
  PROVE  /\ Table(failed')
         /\ \A k : Count(failed', k) \in Nat /\ Count(failed', k) >= Count(failed, k)
         /\ attempt # None /\ attempt.action = pending
              => Count(failed', attempt) = Count(failed, attempt) + n
         /\ counted' = [counted EXCEPT ![pending] = @ + 1]
<1>1. Table(failed)
  BY DEF TypeOK, Table
<1>2. PICK key : /\ failed' = Counting(failed, key, n)
                 /\ attempt # None /\ attempt.action = pending => key = attempt
  BY DEF RecordCollision
<1>. QED
  <2>1. Table(failed')
    BY <1>1, <1>2, CountingTable
  <2>2. \A k : Count(failed', k) = Count(failed, k) + IF k = key THEN n ELSE 0
    BY <1>1, <1>2, CountingAdds
  <2>. QED
    BY <1>1, <1>2, <2>1, <2>2, CountType DEF RecordCollision

\* A call that is not blocked has a count within its limit; with the failure it is
\* at most one beyond.
LEMMA Room ==
  ASSUME TypeOK, NEW c, ~Blocked(c)
  PROVE  counted[pending] \in Nat /\ counted[pending] <= Limit(pending)
  BY Limits DEF TypeOK, Blocked

-----------------------------------------------------------------------------
\* Every step keeps the types.
LEMMA RetryTypedStep == RetryInv /\ [RetryNext]_retryVars => TypeOK'
<1>. SUFFICES ASSUME RetryInv, [RetryNext]_retryVars PROVE TypeOK'
  OBVIOUS
<1>a. TypeOK
  BY DEF RetryInv
<1>b. Table(failed) /\ Table(late)
  BY <1>a DEF TypeOK, Table
<1>. USE <1>a, RetryAssumption DEF Ids
<1>c. ASSUME NEW c, Attempt(c) # None
      PROVE  Attempt(c).action = pending
  BY DEF Attempt
<1>d. ASSUME NEW c, Prepares(c), evidence' \in Artifacts(c)
      PROVE  evidence' \in [Action -> SUBSET Artifact]
  BY <1>d DEF TypeOK, Prepares, Artifacts
<1>1. ASSUME NEW c \in Call, FailEarly(c)
      PROVE  TypeOK'
  <2>1. Table(failed') /\ counted' \in [Ids -> Nat] /\ failures' \in [Ids -> Nat]
    BY <1>1, CollisionRecorded DEF FailEarly, Failed, TypeOK
  <2>. QED
    BY <1>1, <2>1 DEF FailEarly, TypeOK, Table
<1>2. ASSUME NEW c \in Call, FailLate(c)
      PROVE  TypeOK'
  <2>1. Table(failed') /\ counted' \in [Ids -> Nat] /\ failures' \in [Ids -> Nat]
    BY <1>2, CollisionRecorded DEF FailLate, Failed, TypeOK
  <2>2. Table(late')
    BY <1>2, <1>b, CountingTable DEF FailLate
  <2>. QED
    BY <1>2, <1>c, <2>1, <2>2 DEF FailLate, TypeOK, Table
<1>3. ASSUME NEW c \in Call, CommandFails(c)
      PROVE  TypeOK'
  <2>1. Table(failed') /\ counted' \in [Ids -> Nat] /\ failures' \in [Ids -> Nat]
    BY <1>3, CollisionRecorded DEF CommandFails, Failed, TypeOK
  <2>2. Table(late')
    BY <1>3, <1>b, CountingTable DEF CommandFails
  <2>3. uses' \in [Action -> 0..UseLimit]
    BY <1>3 DEF CommandFails, Prepares, TypeOK
  <2>. QED
    BY <1>3, <1>c, <1>d, <2>1, <2>2, <2>3 DEF CommandFails, TypeOK, Table
<1>4. ASSUME NEW c \in Call, Succeed(c)
      PROVE  TypeOK'
  <2>1. uses' \in [Action -> 0..UseLimit]
    BY <1>4 DEF Succeed, Prepares, TypeOK
  <2>. QED
    BY <1>4, <1>c, <1>d, <2>1 DEF Succeed, TypeOK
<1>5. ASSUME NEW c \in Call, Finalize(c)
      PROVE  TypeOK'
  <2>1. applied' \in BOOLEAN
    <3>1. applied' = FALSE
      BY <1>5 DEF Finalize
    <3>. QED
      BY ONLY <3>1
  <2>. QED
    BY <1>5, <2>1 DEF Finalize, TypeOK
<1>6. ASSUME NEW c \in Call, Crash(c)
      PROVE  TypeOK'
  <2>1. Table(late')
    BY <1>6, <1>b, CountingTable DEF Crash
  <2>2. failures' \in [Ids -> Nat] /\ crashes' \in 0..MaxCrashes
    BY <1>6 DEF Crash, Failed, TypeOK
  <2>. QED
    BY <1>6, <2>1, <2>2 DEF Crash, TypeOK, Table, records
<1>7. ASSUME NEW a \in Action, Propose(a)
      PROVE  TypeOK'
  BY <1>7 DEF Propose, NewAction, TypeOK, history
<1>8. ASSUME NEW s \in Scope, Govern(s)
      PROVE  TypeOK'
  BY <1>8 DEF Govern, NewAction, TypeOK, history
<1>9. ASSUME NEW e \in Artifact, Observe(e)
      PROVE  TypeOK'
  BY <1>9 DEF Observe, TypeOK, history
<1>10. ASSUME NEW S \in SUBSET Artifact, SubmitGate(S)
       PROVE  TypeOK'
  BY <1>10 DEF SubmitGate, TypeOK, history
<1>11. CASE Rollback
  <2>1. applied' \in BOOLEAN
    <3>1. applied' = FALSE
      BY <1>11 DEF Rollback
    <3>. QED
      BY ONLY <3>1
  <2>. QED
    BY <1>11, <2>1 DEF Rollback, NewAction, TypeOK, history
<1>12. CASE Restart
  BY <1>12 DEF Restart, TypeOK, records, history
<1>13. CASE UNCHANGED retryVars
  BY <1>13 DEF TypeOK, retryVars, records, history
<1>. QED
  BY <1>1, <1>2, <1>3, <1>4, <1>5, <1>6, <1>7, <1>8, <1>9, <1>10, <1>11, <1>12, <1>13
     DEF RetryNext, Dispatch

(***************************************************************************)
(* Every step keeps the accounts.  A step either leaves the counts alone,  *)
(* or is an execution that failed: recorded, or lost with its process.     *)
(***************************************************************************)
LEMMA AccountsStep ==
  RetryInv /\ [RetryNext]_retryVars => Accounted' /\ Limited' /\ AttemptsBounded'
<1>. DEFINE Fails == \A id \in Ids : failures[id] <= counted[id] + crashes
            Lates == \A k \in DOMAIN late : late[k] <= Count(failed, k) + crashes
<1>. SUFFICES ASSUME RetryInv, [RetryNext]_retryVars
              PROVE  Fails' /\ Lates' /\ Limited' /\ AttemptsBounded'
  BY DEF Accounted
<1>a. /\ TypeOK /\ Fails /\ Lates /\ Limited /\ AttemptsBounded
      /\ Table(failed) /\ Table(late)
  BY DEF RetryInv, Accounted, TypeOK, Table
<1>b. /\ pending \in Ids /\ crashes \in Nat
      /\ counted \in [Ids -> Nat] /\ failures \in [Ids -> Nat]
      /\ \A k \in DOMAIN late : late[k] \in Nat /\ Count(failed, k) \in Nat
  BY <1>a, CountType DEF TypeOK
\* An execution that failed is counted within the limit, ...
<1>c. ASSUME NEW c, ~Blocked(c), counted' = [counted EXCEPT ![pending] = @ + 1], Failed,
             crashes' = crashes
      PROVE  Limited' /\ Fails'
  <2>1. counted[pending] <= Limit(pending)
    BY <1>a, <1>c, Room
  <2>2. /\ \A id \in Ids : counted'[id] = counted[id] + IF id = pending THEN 1 ELSE 0
        /\ \A id \in Ids : failures'[id] = failures[id] + IF id = pending THEN 1 ELSE 0
    BY <1>b, <1>c DEF Failed
  <2>3. Limited'
    BY <1>a, <1>b, <2>1, <2>2, Limits DEF Limited
  <2>4. Fails'
    BY <1>a, <1>b, <1>c, <2>2
  <2>. QED
    BY <2>3, <2>4
\* ... and so is what it is charged to the attempt it had prepared, ...
<1>d. ASSUME NEW c, Prepares(c), NEW n \in Nat \ {0}, RecordCollision(c, Attempt(c), n),
             late' = Counting(late, Attempt(c), 1), crashes' = crashes
      PROVE  Lates' /\ AttemptsBounded'
  <2>. DEFINE a == Attempt(c)
  <2>1. /\ \A k : Count(failed', k) \in Nat /\ Count(failed', k) >= Count(failed, k)
        /\ Count(failed', a) = Count(failed, a) + n
        /\ Count(failed, a) \in Nat /\ Count(failed, a) <= AttemptLimit
    BY <1>a, <1>d, AttemptOfAction, CollisionRecorded, CountType DEF Prepares, Admits
  <2>2. Count(late, a) <= Count(failed, a) + crashes /\ Count(late, a) \in Nat
    BY <1>a, <1>b, <2>1 DEF Count
  <2>. HIDE DEF a
  <2>3. /\ DOMAIN late' = DOMAIN late \cup {a} /\ late'[a] = Count(late, a) + 1
        /\ \A k \in DOMAIN late : k # a => late'[k] = late[k]
    BY <1>d DEF Counting, a
  <2>4. Lates'
    BY <1>a, <1>b, <1>d, <2>1, <2>2, <2>3
  <2>5. AttemptsBounded'
    BY <1>a, <1>b, <1>d, <2>1, <2>2, <2>3, Limits DEF AttemptsBounded, AttemptLimit
  <2>. QED
    BY <2>4, <2>5
\* ... while other steps leave the counts alone.
<1>e. ASSUME UNCHANGED <<failed, counted, failures, late, crashes>>
      PROVE  Fails' /\ Lates' /\ Limited' /\ AttemptsBounded'
  BY <1>a, <1>e DEF Limited, AttemptsBounded
<1>1. ASSUME NEW c \in Call, FailEarly(c)
      PROVE  Fails' /\ Lates' /\ Limited' /\ AttemptsBounded'
  <2>1. /\ \A k : Count(failed', k) \in Nat /\ Count(failed', k) >= Count(failed, k)
        /\ counted' = [counted EXCEPT ![pending] = @ + 1]
    BY <1>a, <1>1, CollisionRecorded DEF FailEarly
  <2>2. Limited' /\ Fails'
    BY <1>1, <1>c, <2>1 DEF FailEarly
  <2>3. late' = late /\ crashes' = crashes
    BY <1>1 DEF FailEarly
  <2>4. Lates' /\ AttemptsBounded'
    BY <1>a, <1>b, <2>1, <2>3 DEF AttemptsBounded
  <2>. QED
    BY <2>2, <2>4
<1>2. ASSUME NEW c \in Call, FailLate(c)
      PROVE  Fails' /\ Lates' /\ Limited' /\ AttemptsBounded'
  <2>1. counted' = [counted EXCEPT ![pending] = @ + 1]
    BY <1>a, <1>2, CollisionRecorded DEF FailLate
  <2>. QED
    BY <1>2, <1>c, <1>d, <2>1 DEF FailLate
<1>3. ASSUME NEW c \in Call, CommandFails(c)
      PROVE  Fails' /\ Lates' /\ Limited' /\ AttemptsBounded'
  <2>1. counted' = [counted EXCEPT ![pending] = @ + 1]
    BY <1>a, <1>3, CollisionRecorded DEF CommandFails
  <2>. QED
    BY <1>3, <1>c, <1>d, <2>1 DEF CommandFails
<1>4. ASSUME NEW c \in Call, Crash(c)
      PROVE  Fails' /\ Lates' /\ Limited' /\ AttemptsBounded'
  <2>1. crashes' = crashes + 1 /\ failed' = failed /\ counted' = counted
    BY <1>4 DEF Crash, records
  <2>2. \A id \in Ids : failures'[id] = failures[id] + IF id = pending THEN 1 ELSE 0
    BY <1>4, <1>b DEF Crash, Failed
  <2>3. Limited' /\ Fails'
    BY <1>a, <1>b, <2>1, <2>2 DEF Limited
  <2>4. CASE late' = late
    <3>1. Lates'
      BY <1>a, <1>b, <2>1, <2>4
    <3>2. AttemptsBounded'
      BY <1>a, <1>b, <2>1, <2>4, Limits DEF AttemptsBounded, AttemptLimit
    <3>. QED
      BY <2>3, <3>1, <3>2
  <2>5. CASE Prepares(c) /\ late' = Counting(late, Attempt(c), 1)
    <3>. DEFINE a == Attempt(c)
    <3>1. Count(late, a) <= Count(failed, a) + crashes /\ Count(late, a) \in Nat
          /\ Count(failed, a) \in Nat /\ Count(failed, a) <= AttemptLimit
      BY <1>a, <1>b, <2>5, CountType DEF Count, Prepares, Admits
    <3>. HIDE DEF a
    <3>2. /\ DOMAIN late' = DOMAIN late \cup {a} /\ late'[a] = Count(late, a) + 1
          /\ \A k \in DOMAIN late : k # a => late'[k] = late[k]
      BY <2>5 DEF Counting, a
    <3>3. Lates'
      BY <1>a, <1>b, <2>1, <3>1, <3>2
    <3>4. AttemptsBounded'
      BY <1>a, <1>b, <2>1, <3>1, <3>2, Limits DEF AttemptsBounded, AttemptLimit
    <3>. QED
      BY <2>3, <3>3, <3>4
  <2>. QED
    BY <1>4, <2>3, <2>4, <2>5 DEF Crash
<1>5. ASSUME NEW c \in Call, Succeed(c) \/ Finalize(c)
      PROVE  UNCHANGED <<failed, counted, failures, late, crashes>>
  BY <1>5 DEF Succeed, Finalize
<1>6. ASSUME \/ \E a \in Action : Propose(a)
             \/ \E s \in Scope : Govern(s)
             \/ \E e \in Artifact : Observe(e)
             \/ \E S \in SUBSET Artifact : SubmitGate(S)
             \/ Rollback \/ Restart \/ UNCHANGED retryVars
      PROVE  UNCHANGED <<failed, counted, failures, late, crashes>>
  BY <1>6 DEF Propose, Govern, Observe, SubmitGate, Rollback, Restart, retryVars, records, history
<1>. QED
  BY <1>1, <1>2, <1>3, <1>4, <1>5, <1>6, <1>e DEF RetryNext, Dispatch

-----------------------------------------------------------------------------
LEMMA RetryInvInit == RetryInit => RetryInv
<1>. SUFFICES ASSUME RetryInit PROVE RetryInv
  OBVIOUS
<1>1. TypeOK
  <2>1. uses \in [Action -> 0..UseLimit] /\ evidence \in [Action -> SUBSET Artifact]
    BY RetryAssumption DEF RetryInit
  <2>2. counted \in [Ids -> Nat] /\ failures \in [Ids -> Nat] /\ crashes \in 0..MaxCrashes
    BY RetryAssumption DEF RetryInit
  <2>. QED
    BY <2>1, <2>2 DEF RetryInit, TypeOK, Ids
<1>2. Accounted /\ AttemptsBounded
  BY DEF RetryInit, Accounted, AttemptsBounded
<1>3. Limited
  BY Limits DEF RetryInit, Limited
<1>. QED
  BY <1>1, <1>2, <1>3 DEF RetryInv

THEOREM RetryInductive == RetrySpec => []RetryInv
<1>1. RetryInv /\ [RetryNext]_retryVars => RetryInv'
  BY RetryTypedStep, AccountsStep DEF RetryInv
<1>. QED
  BY RetryInvInit, <1>1, PTL DEF RetrySpec

\* An action with a prepared attempt is the pending one, and an action is not used
\* beyond its limit, for any actions and evidence (dispatch, propose_eon_action,
\* establish_governance, rollback_transaction).
THEOREM RetryTyped == RetrySpec => []TypeOK
<1>1. RetryInv => TypeOK
  BY DEF RetryInv
<1>. QED
  BY RetryInductive, <1>1, PTL

(***************************************************************************)
(* However often an action is proposed again, its gate and evidence are    *)
(* changed or the process is restarted, what dispatch and record_collision *)
(* count bounds the executions that fail: by the retries the authority     *)
(* allows and one more, by one for an L2 action.                           *)
(***************************************************************************)
THEOREM BoundedRetries == RetrySpec => []RetriesBounded
<1>1. ASSUME RetryInv, NEW id \in Ids
      PROVE  failures[id] <= (IF id \in HighRisk THEN 1 ELSE MaxRetries + 1) + crashes
  <2>1. failures[id] \in Nat /\ counted[id] \in Nat /\ crashes \in Nat
    BY <1>1 DEF RetryInv, TypeOK
  <2>2. failures[id] <= counted[id] + crashes /\ counted[id] <= Limit(id) + 1
    BY <1>1 DEF RetryInv, Accounted, Limited
  <2>. QED
    BY <2>1, <2>2, Limits, RetryAssumption
<1>2. RetryInv => RetriesBounded
  BY <1>1 DEF RetriesBounded
<1>. QED
  BY RetryInductive, <1>2, PTL

\* One attempt fails no more often than BoundedTransitionKernel.prepare admits and
\* once more, whatever was tried between and however its evidence was revised.
THEOREM BoundedAttempts == RetrySpec => []AttemptsBounded
<1>1. RetryInv => AttemptsBounded
  BY DEF RetryInv
<1>. QED
  BY RetryInductive, <1>1, PTL
=============================================================================
