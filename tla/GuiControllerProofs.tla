------------------------- MODULE GuiControllerProofs -------------------------
(***************************************************************************)
(* Proofs about GuiController, for any turns and other operations and any  *)
(* number of stops, processes and losses.                                  *)
(***************************************************************************)
EXTENDS GuiController, SequenceTheorems, NaturalsInduction, WellFoundedInduction, TLAPS

(***************************************************************************)
(* The invariant.  A script is one of a few, so that what is said last is  *)
(* known from what is left of it; the end of a turn is told once, by the   *)
(* callback of a future that is over; a release comes after the end; and   *)
(* so a turn that is not the active one has ended.                         *)
(***************************************************************************)
\* What a thread says or does when it begins nothing.
Reports == Outcome \cup {"cancel", "stop", "finished", "release", "done", "cleared", "closed"}
Step == (EventKind \cup {"submit", "watch", "cancel", "release"}) \X (Task \cup {None})

\* The part of the types the steps rely on.
Typed ==
  /\ journal \in Seq(Event)
  /\ queue \in Seq(Event)
  /\ script \in [Thread -> Seq(Step)]
  /\ emitting \in [Thread -> Event \cup {None}]
  /\ written \in [Thread -> BOOLEAN]
  /\ future \in [Task -> {"none", "queued", "running", "returned", "cancelled"}]
  /\ jobs \in Seq(Task)
  /\ watched \subseteq Task
  /\ outcome \in [Task -> Outcome \cup {None}]
  /\ active \in Turn \cup {None}
  /\ \A k \in Task : future[k] = "returned" => outcome[k] \in Outcome

(***************************************************************************)
(* What a thread is in: it begins a task, opens the session, or reports.   *)
(***************************************************************************)
Begun(k) ==
  {<<<<"user", k>>, <<"started", k>>, <<"submit", k>>, <<"watch", k>>>>,
   <<<<"started", k>>, <<"submit", k>>, <<"watch", k>>>>,
   <<<<"begun", k>>, <<"submit", k>>, <<"watch", k>>>>,
   <<<<"submit", k>>, <<"watch", k>>>>}
Reporting(s) == \A i \in DOMAIN s : s[i][1] \in Reports
Opens == script["ui"] = <<<<"opened", None>>>>
Watches(k) == script["ui"] = <<<<"watch", k>>>>
UiShape ==
  Opens \/ Reporting(script["ui"]) \/ \E k \in Task : Watches(k) \/ script["ui"] \in Begun(k)
Shape == Reporting(script["worker"]) /\ UiShape

\* What a thread emits is its next step.
Emits ==
  \A t \in Thread :
    /\ emitting[t] # None =>
         Says(t) /\ emitting[t].kind = NextStep(t)[1] /\ emitting[t].task = NextStep(t)[2]
    /\ written[t] => emitting[t] # None

\* A process that is down has nothing in memory.
Gone ==
  session = "down" =>
    /\ script = [t \in Thread |-> <<>>]
    /\ emitting = [t \in Thread |-> None]
    /\ written = [t \in Thread |-> FALSE]
    /\ future = [k \in Task |-> "none"]
    /\ watched = {} /\ active = None

\* The worker runs one task, and reports when it is over.
OneRunning ==
  /\ \A j, k \in Task : future[j] = "running" /\ future[k] = "running" => j = k
  /\ \A k \in Task : future[k] = "running" => script["worker"] = <<>>

\* Ends on their way to the journal, or in it.
Open(t) == {i \in DOMAIN script[t] : i > 1 \/ ~written[t]}
Pending(t, k) == {i \in Open(t) : script[t][i] = <<"finished", k>>}
Said(k) == IndexOf("finished", k) # {} \/ \E t \in Thread : Pending(t, k) # {}
Once ==
  /\ \A k \in Turn : \A i, j \in IndexOf("finished", k) : i = j
  /\ \A k \in Turn, t \in Thread : Pending(t, k) # {} => IndexOf("finished", k) = {}
  /\ \A k \in Turn, t, u \in Thread : \A i \in Pending(t, k), j \in Pending(u, k) :
       t = u /\ i = j

\* An end was said only of a future that is over and had its callback, or is gone.
Futures ==
  /\ \A k \in Turn : Said(k) => \/ future[k] \in {"none", "cancelled"}
                                \/ future[k] = "returned" /\ k \in watched
  /\ \A k \in Task : Unused(k) =>
       future[k] = "none" /\ k \notin watched /\ (k \in Turn => ~Said(k))
  /\ \A k \in Task : script["ui"] \in Begun(k) =>
       ~Unused(k) /\ future[k] = "none" /\ k \notin watched /\ (k \in Turn => ~Said(k))
  /\ \A k \in Task : Watches(k) =>
       future[k] \in {"queued", "running", "returned"} /\ k \notin watched
  /\ \A k \in Turn : script["ui"] # <<>> /\ NextStep("ui") = <<"user", k>> => active = k

\* A turn is released after its end.
Closed(k) == \E n \in IndexOf("finished", k) : \A u \in IndexOf("user", k) : u < n
Releases ==
  \A t \in Thread, k \in Turn : \A i \in DOMAIN script[t] :
    script[t][i] = <<"release", k>> => Closed(k) \/ \E j \in Pending(t, k) : j < i

\* A turn that is not active has ended, or another process was opened since.
Opening == session = "down" \/ (Opens /\ ~written["ui"])
EndedAfter(k, i) == \E n \in IndexOf("finished", k) : i < n
Settled ==
  \A k \in Turn : \A i \in IndexOf("user", k) :
    k = active \/ EndedAfter(k, i) \/ OpenedBetween(i, Len(journal)) \/ Opening

\* An event is appended by the thread that has the lock, after the head it read;
\* once written it is in the journal.
Locked ==
  \A t \in Thread :
    /\ emitting[t] # None /\ ~written[t] =>
         journalLock = t /\ emitting[t].previous = Len(journal)
    /\ written[t] => emitting[t] \in ToSet(journal)

IInv ==
  /\ Typed /\ Shape /\ Emits /\ Gone /\ OneRunning
  /\ Once /\ Futures /\ Releases /\ Settled /\ TurnsDoNotOverlap
CInv == Typed /\ Emits /\ Locked /\ ChainHolds

-----------------------------------------------------------------------------
\* Sequences: what a step takes from a script or puts into it.
LEMMA Tuples ==
  ASSUME NEW S
  PROVE  /\ <<>> \in Seq(S)
         /\ \A a \in S : <<a>> \in Seq(S)
         /\ \A a, b \in S : <<a, b>> \in Seq(S)
         /\ \A a, b, c \in S : <<a, b, c>> \in Seq(S)
         /\ \A a, b, c, d \in S : <<a, b, c, d>> \in Seq(S)
  OBVIOUS

\* What is left of a sequence after its first element.
LEMMA TailIs ==
  ASSUME NEW S, NEW s \in Seq(S), s # <<>>
  PROVE  /\ Tail(s) \in Seq(S)
         /\ Head(s) = s[1] /\ 1 \in DOMAIN s /\ s[1] \in S
         /\ \A i : i \in DOMAIN Tail(s) <=> i \in Nat \ {0} /\ i + 1 \in DOMAIN s
         /\ \A i \in DOMAIN Tail(s) : Tail(s)[i] = s[i + 1]
<1>1. s \in Seq(S) /\ Len(s) \in Nat /\ DOMAIN s = 1..Len(s) /\ Len(s) > 0
  OBVIOUS
<1>2. Tail(s) \in Seq(S) /\ Len(Tail(s)) = Len(s) - 1 /\ DOMAIN Tail(s) = 1..(Len(s) - 1)
  BY <1>1, HeadTailProperties
<1>3. \A i \in DOMAIN Tail(s) : Tail(s)[i] = s[i + 1]
  BY <1>1, <1>2, HeadTailProperties
<1>. QED
  BY <1>1, <1>2, <1>3

\* Where the elements of two sequences are in their concatenation.
LEMMA ConcatIs ==
  ASSUME NEW S, NEW s \in Seq(S), NEW r \in Seq(S)
  PROVE  /\ s \o r \in Seq(S)
         /\ \A i : i \in DOMAIN (s \o r) <=>
               i \in DOMAIN s \/ (i \in Int /\ i - Len(s) \in DOMAIN r)
         /\ \A i \in DOMAIN s : (s \o r)[i] = s[i]
         /\ \A i \in Int : i - Len(s) \in DOMAIN r => (s \o r)[i] = r[i - Len(s)]
  OBVIOUS

\* A sequence that grows by one element.
LEMMA AppendIs ==
  ASSUME NEW S, NEW s \in Seq(S), NEW e \in S
  PROVE  /\ Append(s, e) \in Seq(S)
         /\ Len(Append(s, e)) = Len(s) + 1
         /\ DOMAIN s = 1..Len(s) /\ Len(s) \in Nat
         /\ DOMAIN Append(s, e) = 1..(Len(s) + 1)
         /\ \A i \in DOMAIN s : Append(s, e)[i] = s[i]
         /\ Append(s, e)[Len(s) + 1] = e
  OBVIOUS

\* A script that is not empty, its next step, and what is left of it.
LEMMA NextStepType ==
  ASSUME Typed, NEW t \in Thread, script[t] # <<>>
  PROVE  /\ script[t] \in Seq(Step) /\ Tail(script[t]) \in Seq(Step)
         /\ NextStep(t) = script[t][1] /\ NextStep(t) \in Step /\ 1 \in DOMAIN script[t]
  BY TailIs DEF Typed, NextStep

\* The script that tells of the end of a task is one.
LEMMA DoneType ==
  ASSUME NEW k \in Task, NEW how \in Outcome
  PROVE  Done(k, how) \in Seq(Step)
<1>1. \A kind \in {"system", "assistant", "error", "finished", "release", "done"} :
        <<kind, k>> \in Step
  BY DEF Step, EventKind
<1>. QED
  BY <1>1, Tuples DEF Done, ChatDone, OperationDone, Outcome

\* It begins with a message or a task record, never with what begins a task.
LEMMA DoneHead ==
  ASSUME NEW k \in Task, NEW how \in Outcome
  PROVE  /\ 1 \in DOMAIN Done(k, how)
         /\ Done(k, how)[1][1] \notin {"user", "started", "begun", "submit", "watch"}
  BY DEF Done, ChatDone, OperationDone, Outcome

\* A script that begins a task is one.
LEMMA BegunType ==
  ASSUME NEW k \in Task
  PROVE  Begun(k) \subseteq Seq(Step) /\ <<<<"watch", k>>>> \in Seq(Step)
<1>1. \A kind \in {"user", "started", "submit", "watch", "begun"} : <<kind, k>> \in Step
  BY DEF Step, EventKind
<1>. QED
  BY <1>1, Tuples DEF Begun

\* close cancels what is queued, and tells of its end.
ClosingSteps == [i \in DOMAIN jobs |-> <<"cancel", jobs[i]>>] \o <<<<"closed", None>>>>

\* The script of a close: the cancels of the queued futures, then SESSION_CLOSED.
LEMMA CloseType ==
  ASSUME Typed
  PROVE  /\ ClosingSteps \in Seq(Step) /\ 1 \in DOMAIN ClosingSteps
         /\ \A i \in DOMAIN ClosingSteps : ClosingSteps[i][1] \in {"cancel", "closed"}
<1>. DEFINE cancels == [i \in DOMAIN jobs |-> <<"cancel", jobs[i]>>]
            last == <<<<"closed", None>>>>
<1>1. DOMAIN jobs = 1..Len(jobs) /\ Len(jobs) \in Nat /\ \A i \in DOMAIN jobs : jobs[i] \in Task
  BY DEF Typed
<1>2. cancels \in Seq(Step) /\ DOMAIN cancels = DOMAIN jobs
  BY <1>1 DEF Step
<1>3. last \in Seq(Step) /\ DOMAIN last = {1} /\ last[1] = <<"closed", None>>
  BY Tuples DEF Step, EventKind
<1>. HIDE DEF last
<1>4. /\ cancels \o last \in Seq(Step)
      /\ \A i \in DOMAIN (cancels \o last) :
           i \in DOMAIN cancels \/ (i \in Int /\ i - Len(cancels) \in DOMAIN last)
      /\ \A i \in DOMAIN cancels : (cancels \o last)[i] = cancels[i]
      /\ \A i \in Int : i - Len(cancels) \in DOMAIN last =>
            (cancels \o last)[i] = last[i - Len(cancels)]
  BY ZenonT(60), <1>2, <1>3, ConcatIs
<1>5. \A i \in DOMAIN cancels : cancels[i][1] = "cancel"
  BY <1>2
<1>. HIDE DEF cancels
<1>6. \A i \in DOMAIN (cancels \o last) : (cancels \o last)[i][1] \in {"cancel", "closed"}
  BY <1>3, <1>4, <1>5
<1>. QED
  BY <1>4, <1>6 DEF ClosingSteps, last, cancels

\* Every step keeps the types.
LEMMA TypedStep == Typed /\ Emits /\ [Next]_guiVars => Typed'
<1>. SUFFICES ASSUME Typed, Emits, [Next]_guiVars PROVE Typed'
  OBVIOUS
<1>. USE DEF disk, work, emit, life
<1>s. ASSUME NEW t \in Thread, script[t] # <<>>, Skip(t)
      PROVE  script' \in [Thread -> Seq(Step)]
  BY <1>s, NextStepType DEF Typed, Skip
<1>r. ASSUME NEW t \in Thread, NEW s \in Seq(Step), Run(t, s)
      PROVE  script' \in [Thread -> Seq(Step)]
  BY <1>r DEF Typed, Run
<1>1. ASSUME NEW t \in Thread, ReadHead(t) PROVE Typed'
  <2>1. NextStep(t) \in Step /\ NextStep(t)[1] \in EventKind
    BY <1>1, NextStepType DEF ReadHead, Says
  <2>2. Len(journal) \in Nat
    BY DEF Typed
  <2>3. emitting' \in [Thread -> Event \cup {None}]
    BY <1>1, <2>1, <2>2 DEF ReadHead, Typed, Event, Step
  <2>. QED
    BY <1>1, <2>3 DEF ReadHead, Typed
<1>2. ASSUME NEW t \in Thread, AppendEvent(t) PROVE Typed'
  <2>1. emitting[t] \in Event
    BY <1>2 DEF AppendEvent, Typed
  <2>2. journal' \in Seq(Event)
    BY <1>2, <2>1, AppendIs DEF AppendEvent, Typed
  <2>. QED
    BY <1>2, <2>2 DEF AppendEvent, Typed
<1>3. ASSUME NEW t \in Thread, PutEvent(t) PROVE Typed'
  <2>1. script[t] # <<>>
    BY <1>3 DEF PutEvent, Emits, Says
  <2>2. emitting[t] \in Event
    BY <1>3 DEF PutEvent, Emits, Typed
  <2>3. queue' \in Seq(Event)
    BY <1>3, <2>2, AppendIs DEF PutEvent, Typed
  <2>. QED
    BY <1>3, <1>s, <2>1, <2>3 DEF PutEvent, Typed
<1>4. ASSUME NEW t \in Thread, NEW k \in Task, Release(t, k) PROVE Typed'
  BY <1>4, <1>s DEF Release, Calls, Typed
<1>5. ASSUME NEW k \in Task, Submit(k) PROVE Typed'
  <2>1. jobs' \in Seq(Task)
    BY <1>5 DEF Submit, Typed
  <2>. QED
    BY <1>5, <1>s, <2>1 DEF Submit, Calls, Typed, Thread
<1>6. ASSUME NEW k \in Task, Watch(k) PROVE Typed'
  <2>1. script' \in [Thread -> Seq(Step)]
    BY <1>6, <1>s, <1>r, DoneType DEF Watch, Calls, Typed, Thread
  <2>. QED
    BY <1>6, <2>1 DEF Watch, Typed
<1>7. ASSUME NEW k \in Task, Cancel(k) PROVE Typed'
  <2>1. "ui" \in Thread /\ script["ui"] # <<>> /\ "system" \in Outcome
    BY <1>7 DEF Cancel, Calls, Thread, Outcome
  <2>2. Done(k, "system") \o Tail(script["ui"]) \in Seq(Step)
    BY <2>1, DoneType, NextStepType, ConcatIs
  <2>3. script' \in [Thread -> Seq(Step)]
    BY <1>7, <1>s, <1>r, <2>1, <2>2 DEF Cancel
  <2>. QED
    BY <1>7, <2>3 DEF Cancel, Typed
<1>8. CASE Deliver
  BY <1>8 DEF Deliver, Typed
<1>9. CASE SaveProjection
  BY <1>9 DEF SaveProjection, Typed
<1>10. CASE Take
  <2>1. jobs' \in Seq(Task)
    BY <1>10, TailIs DEF Take, Typed
  <2>. QED
    BY <1>10, <2>1 DEF Take, Typed
<1>11. ASSUME NEW k \in Task, NEW how \in Outcome, Finish(k, how) PROVE Typed'
  <2>1. script' \in [Thread -> Seq(Step)]
    BY <1>11, <1>r, DoneType DEF Finish, Typed, Thread
  <2>. QED
    BY <1>11, <2>1 DEF Finish, Typed
<1>12. ASSUME NEW t \in Turn, SendChat(t) PROVE Typed'
  <2>1. script' \in [Thread -> Seq(Step)]
    BY <1>12, <1>r, BegunType DEF SendChat, Task, Thread, Begun
  <2>. QED
    BY <1>12, <2>1 DEF SendChat, Typed
<1>13. ASSUME NEW o \in Operation, StartOperation(o) PROVE Typed'
  <2>1. script' \in [Thread -> Seq(Step)]
    BY <1>13, <1>r, BegunType DEF StartOperation, Task, Thread, Begun
  <2>. QED
    BY <1>13, <2>1 DEF StartOperation, Typed
<1>14. CASE StopChat
  <2>1. active \in Turn /\ \A kind \in {"cancel", "stop"} : <<kind, active>> \in Step
    BY <1>14 DEF StopChat, Typed, Step, EventKind, Task
  <2>2. script' \in [Thread -> Seq(Step)]
    BY <1>14, <1>r, <2>1, Tuples DEF StopChat, Thread
  <2>. QED
    BY <1>14, <2>2 DEF StopChat, Typed
<1>15. CASE NewChat
  <2>1. \A kind \in {"system", "cleared"} : <<kind, None>> \in Step
    BY DEF Step, EventKind
  <2>2. script' \in [Thread -> Seq(Step)]
    BY <1>15, <1>r, <2>1, Tuples DEF NewChat, Thread
  <2>. QED
    BY <1>15, <2>2 DEF NewChat, Typed
<1>16. CASE Close
  <2>1. script' \in [Thread -> Seq(Step)]
    BY <1>16, <1>r, CloseType DEF Close, ClosingSteps, Thread
  <2>. QED
    BY <1>16, <2>1 DEF Close, Typed
<1>17. CASE Start
  <2>1. <<"opened", None>> \in Step
    BY DEF Step, EventKind
  <2>2. script' \in [Thread -> Seq(Step)]
    BY <1>17, <1>r, <2>1, Tuples DEF Start, Thread
  <2>. QED
    BY <1>17, <2>2 DEF Start, Typed
<1>18. CASE Exit \/ Crash
  <2>1. Forget /\ journal' = journal
    BY <1>18 DEF Exit, Crash
  <2>2. /\ script' \in [Thread -> Seq(Step)] /\ jobs' \in Seq(Task)
        /\ emitting' \in [Thread -> Event \cup {None}] /\ written' \in [Thread -> BOOLEAN]
    BY <2>1, Tuples DEF Forget
  <2>3. /\ outcome' \in [Task -> Outcome \cup {None}] /\ \A k \in Task : future'[k] = "none"
        /\ future' \in [Task -> {"none", "queued", "running", "returned", "cancelled"}]
    BY <2>1 DEF Forget
  <2>. QED
    BY <2>1, <2>2, <2>3 DEF Forget, Typed
<1>19. CASE UNCHANGED guiVars
  BY <1>19 DEF guiVars, Typed
<1>. QED
  BY <1>1, <1>2, <1>3, <1>4, <1>5, <1>6, <1>7, <1>8, <1>9, <1>10, <1>11, <1>12, <1>13, <1>14,
     <1>15, <1>16, <1>17, <1>18, <1>19
  DEF Next, UiStep, WorkerStep, User, Emission, Thread

-----------------------------------------------------------------------------
\* A thread that tells of the end of a task reports.
LEMMA DoneReports ==
  ASSUME NEW k \in Task, NEW how \in Outcome
  PROVE  Reporting(Done(k, how))
  BY DEF Reporting, Done, ChatDone, OperationDone, Reports

\* A script that reports goes on reporting.
LEMMA TailReports ==
  ASSUME NEW s \in Seq(Step), s # <<>>, Reporting(s)
  PROVE  Reporting(Tail(s)) /\ s[1][1] \in Reports
  BY TailIs DEF Reporting

\* A script of two reports.
LEMMA TwoReports ==
  ASSUME NEW a \in Reports, NEW b \in Reports, NEW x, NEW y
  PROVE  Reporting(<<<<a, x>>, <<b, y>>>>)
  BY DEF Reporting

\* One script of reports after another.
LEMMA JoinReports ==
  ASSUME NEW s \in Seq(Step), NEW r \in Seq(Step), Reporting(s), Reporting(r)
  PROVE  s \o r \in Seq(Step) /\ Reporting(s \o r)
  BY ConcatIs DEF Reporting

\* What is left of a script when its first step is done.
LEMMA BegunNext ==
  ASSUME NEW k, NEW s \in Begun(k)
  PROVE  \/ s[1] = <<"submit", k>> /\ Tail(s) = <<<<"watch", k>>>>
         \/ /\ s[1][1] \in EventKind /\ Tail(s) \in Begun(k)
            /\ Tail(s)[1] \in {<<"started", k>>, <<"submit", k>>}
<1>1. CASE s = <<<<"user", k>>, <<"started", k>>, <<"submit", k>>, <<"watch", k>>>>
  <2>. Tail(s) = <<<<"started", k>>, <<"submit", k>>, <<"watch", k>>>>
    BY <1>1
  <2>. QED
    BY <1>1 DEF Begun, EventKind
<1>2. CASE s = <<<<"started", k>>, <<"submit", k>>, <<"watch", k>>>>
  <2>. Tail(s) = <<<<"submit", k>>, <<"watch", k>>>>
    BY <1>2
  <2>. QED
    BY <1>2 DEF Begun, EventKind
<1>3. CASE s = <<<<"begun", k>>, <<"submit", k>>, <<"watch", k>>>>
  <2>. Tail(s) = <<<<"submit", k>>, <<"watch", k>>>>
    BY <1>3
  <2>. QED
    BY <1>3 DEF Begun, EventKind
<1>4. CASE s = <<<<"submit", k>>, <<"watch", k>>>>
  BY <1>4
<1>. QED
  BY <1>1, <1>2, <1>3, <1>4 DEF Begun

\* The Tk thread, a step further, is in one of the shapes again.
LEMMA NextShape ==
  ASSUME Typed, UiShape, script["ui"] # <<>>, Skip("ui")
  PROVE  UiShape'
<1>1. script'["ui"] = Tail(script["ui"]) /\ script["ui"] \in Seq(Step)
  BY DEF Skip, Typed, Thread
<1>2. CASE Opens
  BY <1>1, <1>2 DEF Opens, Reporting, UiShape
<1>3. CASE Reporting(script["ui"])
  BY <1>1, <1>3, TailReports DEF UiShape
<1>4. ASSUME NEW k \in Task, Watches(k) PROVE UiShape'
  BY <1>1, <1>4 DEF Watches, Reporting, UiShape
<1>5. ASSUME NEW k \in Task, script["ui"] \in Begun(k) PROVE UiShape'
  BY <1>1, <1>5, BegunNext DEF Watches, UiShape
<1>. QED
  BY <1>2, <1>3, <1>4, <1>5 DEF UiShape

\* The steps that change no script.
Silent ==
  \/ \E t \in Thread : ReadHead(t) \/ AppendEvent(t)
  \/ Deliver \/ SaveProjection \/ Take \/ UNCHANGED guiVars

\* Every step keeps the shape of the scripts: a thread is given a new one only
\* when it has none, and what goes before the rest of one only reports.
LEMMA ShapeStep == Typed /\ Shape /\ Emits /\ [Next]_guiVars => Shape'
<1>. SUFFICES ASSUME Typed, Shape, Emits, [Next]_guiVars PROVE Shape'
  OBVIOUS
<1>. USE DEF Shape
<1>s. ASSUME NEW t \in Thread, script[t] # <<>>, Skip(t) PROVE Shape'
  <2>1. CASE t = "ui"
    <3>1. script'["worker"] = script["worker"]
      BY <1>s, <2>1 DEF Skip, Typed, Thread
    <3>. QED
      BY <1>s, <2>1, <3>1, NextShape
  <2>2. CASE t = "worker"
    <3>1. script'["worker"] = Tail(script["worker"]) /\ script'["ui"] = script["ui"]
          /\ script["worker"] \in Seq(Step)
      BY <1>s, <2>2 DEF Skip, Typed, Thread
    <3>. QED
      BY <1>s, <2>2, <3>1, TailReports DEF UiShape, Opens, Watches
  <2>. QED
    BY <2>1, <2>2 DEF Thread
<1>r. ASSUME NEW s \in Seq(Step), Run("ui", s),
             \/ Reporting(s) \/ s = <<<<"opened", None>>>> \/ \E k \in Task : s \in Begun(k)
      PROVE  Shape'
  BY <1>r DEF Run, Typed, Thread, UiShape, Opens, Watches
<1>1. CASE Silent
  BY <1>1
  DEF Silent, ReadHead, AppendEvent, Deliver, SaveProjection, Take, guiVars, UiShape, Opens,
      Watches
<1>3. ASSUME NEW t \in Thread, PutEvent(t) PROVE Shape'
  BY <1>3, <1>s DEF PutEvent, Emits, Says
<1>4. ASSUME NEW t \in Thread, NEW k \in Task, Release(t, k) PROVE Shape'
  BY <1>4, <1>s DEF Release, Calls
<1>5. ASSUME NEW k \in Task, Submit(k) PROVE Shape'
  BY <1>5, <1>s DEF Submit, Calls, Thread
<1>6. ASSUME NEW k \in Task, Watch(k) PROVE Shape'
  <2>1. CASE future[k] = "returned"
    <3>1. outcome[k] \in Outcome
      BY <2>1 DEF Typed
    <3>. QED
      BY <1>6, <1>r, <2>1, <3>1, DoneType, DoneReports DEF Watch
  <2>. QED
    BY <1>6, <1>s, <2>1 DEF Watch, Calls, Thread
<1>7. ASSUME NEW k \in Task, Cancel(k) PROVE Shape'
  <2>1. CASE future[k] = "queued"
    <3>1. script["ui"] # <<>> /\ script["ui"] \in Seq(Step) /\ script["ui"][1] = <<"cancel", k>>
      BY <1>7 DEF Cancel, Calls, NextStep, Typed, Thread
    <3>2. Reporting(script["ui"])
      BY <3>1 DEF UiShape, Opens, Watches, Begun
    <3>3. Reporting(Tail(script["ui"])) /\ Tail(script["ui"]) \in Seq(Step)
      BY <3>1, <3>2, TailReports, TailIs
    <3>4. Done(k, "system") \in Seq(Step) /\ Reporting(Done(k, "system"))
      BY DoneType, DoneReports DEF Outcome
    <3>5. /\ Done(k, "system") \o Tail(script["ui"]) \in Seq(Step)
          /\ Reporting(Done(k, "system") \o Tail(script["ui"]))
      BY <3>3, <3>4, JoinReports
    <3>. QED
      BY <1>7, <1>r, <2>1, <3>5 DEF Cancel
  <2>. QED
    BY <1>7, <1>s, <2>1 DEF Cancel, Calls, Thread
<1>11. ASSUME NEW k \in Task, NEW how \in Outcome, Finish(k, how) PROVE Shape'
  <2>1. script'["ui"] = script["ui"]
    BY <1>11 DEF Finish, Run, Typed, Thread
  <2>2. Reporting(script'["worker"])
    BY <1>11, DoneReports DEF Finish, Run, Typed, Thread
  <2>. QED
    BY <2>1, <2>2 DEF UiShape, Opens, Watches
<1>12. ASSUME NEW t \in Turn, SendChat(t) PROVE Shape'
  BY <1>12, <1>r, BegunType DEF SendChat, Task, Begun
<1>13. ASSUME NEW o \in Operation, StartOperation(o) PROVE Shape'
  BY <1>13, <1>r, BegunType DEF StartOperation, Task, Begun
<1>14. CASE StopChat
  <2>1. active \in Turn /\ \A kind \in {"cancel", "stop"} : <<kind, active>> \in Step
    BY <1>14 DEF StopChat, Typed, Step, EventKind, Task
  <2>2. <<<<"cancel", active>>, <<"stop", active>>>> \in Seq(Step)
    BY <2>1, Tuples
  <2>. QED
    BY <1>14, <1>r, <2>2, TwoReports DEF StopChat, Reports
<1>15. CASE NewChat
  <2>1. <<<<"system", None>>, <<"cleared", None>>>> \in Seq(Step)
    BY Tuples DEF Step, EventKind
  <2>. QED
    BY <1>15, <1>r, <2>1, TwoReports DEF NewChat, Reports, Outcome
<1>16. CASE Close
  <2>1. Run("ui", ClosingSteps)
    BY <1>16 DEF Close, ClosingSteps
  <2>. QED
    BY <1>r, <2>1, CloseType DEF Reporting, Reports
<1>17. CASE Start
  <2>1. <<<<"opened", None>>>> \in Seq(Step)
    BY Tuples DEF Step, EventKind
  <2>. QED
    BY <1>17, <1>r, <2>1 DEF Start
<1>18. CASE Exit \/ Crash
  BY <1>18 DEF Exit, Crash, Forget, Reporting, UiShape, Thread
<1>. QED
  BY <1>1, <1>3, <1>4, <1>5, <1>6, <1>7, <1>11, <1>12, <1>13, <1>14, <1>15, <1>16, <1>17, <1>18
  DEF Next, UiStep, WorkerStep, User, Emission, Thread, Silent

\* Every step keeps it that what a thread emits is its next step.
LEMMA EmitsStep == Typed /\ Emits /\ Gone /\ OneRunning /\ [Next]_guiVars => Emits'
<1>. SUFFICES ASSUME Typed, Emits, Gone, OneRunning, [Next]_guiVars PROVE Emits'
  OBVIOUS
<1>. USE DEF emit, work
<1>1. ASSUME NEW t \in Thread, ReadHead(t) PROVE Emits'
  <2>1. Says(t) /\ script' = script /\ written' = written
    BY <1>1 DEF ReadHead
  <2>2. /\ \A u \in Thread : u # t => emitting'[u] = emitting[u]
        /\ emitting'[t].kind = NextStep(t)[1] /\ emitting'[t].task = NextStep(t)[2]
    BY <1>1 DEF ReadHead, Typed
  <2>3. ~written[t]
    BY <1>1 DEF ReadHead, Emits
  <2>. QED
    BY <2>1, <2>2, <2>3 DEF Emits, Says, NextStep
<1>2. ASSUME NEW t \in Thread, AppendEvent(t) PROVE Emits'
  BY <1>2 DEF AppendEvent, Emits, Typed, Says, NextStep
<1>3. ASSUME NEW t \in Thread, PutEvent(t) PROVE Emits'
  <2>1. emitting'[t] = None /\ ~written'[t]
    BY <1>3 DEF PutEvent, Typed
  <2>2. \A u \in Thread : u # t => emitting'[u] = emitting[u] /\ written'[u] = written[u]
                                   /\ script'[u] = script[u]
    BY <1>3 DEF PutEvent, Skip, Typed
  <2>. QED
    BY <2>1, <2>2 DEF Emits, Says, NextStep
\* Another script begins only with nothing to emit.
<1>s. ASSUME NEW t \in Thread, emitting[t] = None, UNCHANGED <<emitting, written>>,
             \A u \in Thread : u # t => script'[u] = script[u]
      PROVE  Emits'
  BY <1>s DEF Emits, Says, NextStep
<1>n. ASSUME NEW t \in Thread, script[t] = <<>> \/ NextStep(t)[1] \notin EventKind
      PROVE  emitting[t] = None
  BY <1>n DEF Emits, Says
<1>4. ASSUME NEW t \in Thread, NEW k \in Task, Release(t, k) PROVE Emits'
  <2>1. emitting[t] = None
    BY <1>4, <1>n DEF Release, Calls, EventKind
  <2>. QED
    BY <1>4, <1>s, <2>1 DEF Release, Skip, Typed
<1>5. ASSUME NEW k \in Task, Submit(k) \/ Watch(k) \/ Cancel(k) PROVE Emits'
  <2>1. emitting["ui"] = None
    BY <1>5, <1>n DEF Submit, Watch, Cancel, Calls, EventKind, Thread
  <2>. QED
    BY <1>5, <1>s, <2>1 DEF Submit, Watch, Cancel, Skip, Run, Typed, Thread
<1>6. CASE Deliver \/ SaveProjection \/ Take \/ UNCHANGED guiVars
  BY <1>6 DEF Deliver, SaveProjection, Take, guiVars, Emits, Says, NextStep
<1>7. ASSUME NEW k \in Task, NEW how \in Outcome, Finish(k, how) PROVE Emits'
  <2>1. CASE k \in watched
    <3>1. emitting["worker"] = None
      BY <1>7, <1>n DEF Finish, OneRunning, Thread
    <3>. QED
      BY <1>7, <1>s, <2>1, <3>1 DEF Finish, Run, Typed, Thread
  <2>. QED
    BY <1>7, <2>1 DEF Finish, Emits, Says, NextStep
<1>8. CASE User
  <2>1. emitting["ui"] = None
    BY <1>8, <1>n DEF User, SendChat, StartOperation, StopChat, NewChat, Close, UiFree, Thread
  <2>2. UNCHANGED <<emitting, written>> /\ \A u \in Thread : u # "ui" => script'[u] = script[u]
    BY <1>8 DEF User, SendChat, StartOperation, StopChat, NewChat, Close, Run, Typed
  <2>. QED
    BY <1>s, <2>1, <2>2 DEF Thread
<1>9. CASE Start
  <2>1. emitting["ui"] = None
    BY <1>9 DEF Start, Gone, Thread
  <2>. QED
    BY <1>9, <1>s, <2>1 DEF Start, Run, Typed, Thread
<1>10. CASE Exit \/ Crash
  BY <1>10 DEF Exit, Crash, Forget, Emits
<1>. QED
  BY <1>1, <1>2, <1>3, <1>4, <1>5, <1>6, <1>7, <1>8, <1>9, <1>10
  DEF Next, UiStep, WorkerStep, Emission, Thread

\* Take comes to a task only when the worker has nothing to report.
LEMMA OneRunningStep == Typed /\ Emits /\ OneRunning /\ [Next]_guiVars => OneRunning'
<1>. SUFFICES ASSUME Typed, Emits, OneRunning, [Next]_guiVars PROVE OneRunning'
  OBVIOUS
<1>. USE DEF work
\* A thread with a step to take has no running task.
<1>s. ASSUME NEW t \in Thread, script[t] # <<>>,
             \A u \in Thread : u # t => script'[u] = script[u],
             \A k \in Task : future'[k] = "running" => future[k] = "running"
      PROVE  OneRunning'
  BY <1>s DEF OneRunning, Thread
<1>1. ASSUME NEW t \in Thread, PutEvent(t) PROVE OneRunning'
  <2>1. script[t] # <<>>
    BY <1>1 DEF PutEvent, Emits, Says
  <2>. QED
    BY <1>1, <1>s, <2>1 DEF PutEvent, Skip, Typed
<1>2. ASSUME NEW t \in Thread, NEW k \in Task, Release(t, k) PROVE OneRunning'
  BY <1>2, <1>s DEF Release, Calls, Skip, Typed
<1>3. ASSUME NEW k \in Task, Submit(k) \/ Watch(k) \/ Cancel(k) PROVE OneRunning'
  BY <1>3, <1>s DEF Submit, Watch, Cancel, Calls, Skip, Run, Typed, Thread
<1>4. ASSUME NEW t \in Thread, ReadHead(t) \/ AppendEvent(t) PROVE OneRunning'
  BY <1>4 DEF ReadHead, AppendEvent, OneRunning
<1>5. CASE Deliver \/ SaveProjection \/ UNCHANGED guiVars
  BY <1>5 DEF Deliver, SaveProjection, guiVars, OneRunning
<1>6. CASE Take
  BY <1>6 DEF Take, WorkerFree, OneRunning, Typed
<1>7. ASSUME NEW k \in Task, NEW how \in Outcome, Finish(k, how) PROVE OneRunning'
  <2>1. \A j \in Task : future'[j] # "running"
    BY <1>7 DEF Finish, OneRunning, Typed
  <2>. QED
    BY <2>1 DEF OneRunning
<1>8. CASE User \/ Start
  BY <1>8 DEF User, SendChat, StartOperation, StopChat, NewChat, Close, Start, Run, OneRunning,
              Typed, Thread
<1>9. CASE Exit \/ Crash
  BY <1>9 DEF Exit, Crash, Forget, OneRunning
<1>. QED
  BY <1>1, <1>2, <1>3, <1>4, <1>5, <1>6, <1>7, <1>8, <1>9
  DEF Next, UiStep, WorkerStep, Emission, Thread

\* A process that is not there has nothing left in memory.
LEMMA GoneStep == Typed /\ Shape /\ Emits /\ Gone /\ [Next]_guiVars => Gone'
<1>. SUFFICES ASSUME Typed, Shape, Emits, Gone, [Next]_guiVars PROVE Gone'
  OBVIOUS
<1>1. CASE Exit \/ Crash
  BY <1>1 DEF Exit, Crash, Forget, Gone
<1>2. CASE User \/ Start
  BY <1>2 DEF User, SendChat, StartOperation, StopChat, NewChat, Close, Start, UiFree, life, Gone
<1>3. ASSUME NEW t \in Thread, session = "down"
      PROVE  script[t] = <<>> /\ emitting[t] = None /\ ~written[t]
  BY <1>3 DEF Gone
<1>4. ASSUME NEW t \in Thread, ReadHead(t) \/ AppendEvent(t) \/ PutEvent(t) PROVE Gone'
  BY <1>3, <1>4 DEF ReadHead, AppendEvent, PutEvent, Says, life, Gone
<1>5. ASSUME NEW t \in Thread, NEW k \in Task, Release(t, k) PROVE Gone'
  BY <1>3, <1>5 DEF Release, Calls, life, Gone
<1>6. ASSUME NEW k \in Task, Submit(k) \/ Watch(k) \/ Cancel(k) PROVE Gone'
  BY <1>3, <1>6 DEF Submit, Watch, Cancel, Calls, life, Gone, Thread
<1>7. CASE Deliver \/ SaveProjection \/ UNCHANGED guiVars
  BY <1>7 DEF Deliver, SaveProjection, guiVars, life, emit, work, Gone
<1>8. CASE Take
  <2>. SUFFICES ASSUME session' = "down" PROVE Gone'
    BY DEF Gone
  <2>1. session = "down" /\ \A k \in Task : future[k] # "queued"
    BY <1>8 DEF Take, life, Gone
  <2>2. Head(jobs) \in Task
    BY <1>8, TailIs DEF Take, Typed
  <2>3. future' = future
    BY <1>8, <2>1, <2>2 DEF Take
  <2>. QED
    BY <1>8, <2>3 DEF Take, life, emit, Gone
<1>9. ASSUME NEW k \in Task, NEW how \in Outcome, Finish(k, how) PROVE Gone'
  BY <1>9 DEF Finish, life, Gone
<1>. QED
  BY <1>1, <1>2, <1>4, <1>5, <1>6, <1>7, <1>8, <1>9
  DEF Next, UiStep, WorkerStep, Emission, Thread

-----------------------------------------------------------------------------
(***************************************************************************)
(* A step of a script moves the ends and releases that are left by d, and  *)
(* adds those of a task in K.                                              *)
(***************************************************************************)
LEMMA Shifted ==
  ASSUME Typed, Typed', Once, Releases, journal' = journal,
         NEW t \in Thread, NEW d \in Int, NEW K \in SUBSET Turn,
         \A u \in Thread : u # t => script'[u] = script[u] /\ written'[u] = written[u],
         \A k \in K : ~Said(k),
         \A k \in Turn, i \in Int :
           i \in Pending(t, k)' <=> i - d \in Pending(t, k) \/ (k \in K /\ i = 2),
         \A k \in Turn, i \in DOMAIN script'[t] : script'[t][i] = <<"release", k>> =>
           \/ i - d \in DOMAIN script[t] /\ script[t][i - d] = <<"release", k>>
           \/ k \in K /\ i = 3
  PROVE  Once' /\ Releases' /\ \A k \in Turn : Said(k)' <=> Said(k) \/ k \in K
<1>1. \A u \in Thread : \A k : u # t => Pending(u, k)' = Pending(u, k)
  BY DEF Pending, Open
<1>2. \A what, k : IndexOf(what, k)' = IndexOf(what, k)
  BY DEF IndexOf
<1>3. \A u \in Thread : \A k : Pending(u, k) \subseteq Int
  BY DEF Pending, Open, Typed
<1>4. \A u \in Thread : \A k : Pending(u, k)' \subseteq Int
  BY DEF Pending, Open, Typed
<1>5. \A k \in K : IndexOf("finished", k) = {} /\ \A u \in Thread : Pending(u, k) = {}
  BY DEF Said
<1>6. ASSUME NEW k \in Turn
      PROVE  Pending(t, k)' # {} <=> Pending(t, k) # {} \/ k \in K
  <2>1. ASSUME NEW i \in Pending(t, k) PROVE i + d \in Pending(t, k)'
    <3>. i \in Int /\ i + d \in Int /\ (i + d) - d = i
      BY <1>3
    <3>. QED
      OBVIOUS
  <2>2. ASSUME NEW i \in Pending(t, k)' PROVE Pending(t, k) # {} \/ k \in K
    BY <1>4
  <2>3. k \in K => 2 \in Pending(t, k)'
    OBVIOUS
  <2>. QED
    BY <2>1, <2>2, <2>3
<1>7. \A k \in Turn : Said(k)' <=> Said(k) \/ k \in K
  BY <1>1, <1>2, <1>6 DEF Said
<1>8. Once'
  <2>1. \A k \in Turn : \A i, j \in IndexOf("finished", k)' : i = j
    BY <1>2 DEF Once
  <2>2. \A k \in Turn, u \in Thread : Pending(u, k)' # {} => IndexOf("finished", k)' = {}
    BY <1>1, <1>2, <1>5, <1>6 DEF Once
  <2>3. ASSUME NEW k \in Turn, NEW u \in Thread, NEW w \in Thread,
               NEW i \in Pending(u, k)', NEW j \in Pending(w, k)'
        PROVE  u = w /\ i = j
    <3>. i \in Int /\ j \in Int
      BY <1>4
    <3>1. CASE k \in K
      BY <1>1, <1>5, <3>1
    <3>2. CASE k \notin K
      <4>1. i - d \in Pending(t, k) \/ (u # t /\ i \in Pending(u, k))
        BY <1>1, <3>2
      <4>2. j - d \in Pending(t, k) \/ (w # t /\ j \in Pending(w, k))
        BY <1>1, <3>2
      <4>. QED
        BY <1>1, <3>2, <4>1, <4>2 DEF Once
    <3>. QED
      BY <3>1, <3>2
  <2>. QED
    BY <2>1, <2>2, <2>3 DEF Once
<1>9. Releases'
  <2>. SUFFICES ASSUME NEW u \in Thread, NEW k \in Turn, NEW i \in DOMAIN script'[u],
                       script'[u][i] = <<"release", k>>
                PROVE  Closed(k)' \/ \E j \in Pending(u, k)' : j < i
    BY DEF Releases
  <2>1. Closed(k)' <=> Closed(k)
    BY <1>2 DEF Closed
  <2>2. i \in Int
    BY DEF Typed
  <2>3. CASE u # t
    BY <1>1, <2>1, <2>3 DEF Releases
  <2>4. CASE u = t /\ i - d \in DOMAIN script[t] /\ script[t][i - d] = <<"release", k>>
    <3>1. CASE Closed(k)
      BY <2>1, <3>1
    <3>2. ASSUME NEW j \in Pending(t, k), j < i - d
          PROVE  j + d \in Pending(t, k)' /\ j + d < i
      <4>. j \in Int /\ j + d \in Int /\ (j + d) - d = j /\ j + d < i
        BY <1>3, <2>2, <3>2
      <4>. QED
        OBVIOUS
    <3>. QED
      BY <2>4, <3>1, <3>2 DEF Releases
  <2>5. CASE u = t /\ k \in K /\ i = 3
    BY <2>5
  <2>. QED
    BY <2>3, <2>4, <2>5
<1>. QED
  BY <1>7, <1>8, <1>9

\* What becomes of the ends and releases of all tasks when no end is added.
Kept == Once' /\ Releases' /\ \A k \in Turn : Said(k)' <=> Said(k)

\* A step that is done, or whose event is in the journal, adds no end.
LEMMA SkipKeeps ==
  ASSUME Typed, Typed', Once, Releases, journal' = journal, NEW t \in Thread,
         script[t] # <<>>, Skip(t), written' = [written EXCEPT ![t] = FALSE],
         written[t] \/ NextStep(t)[1] # "finished"
  PROVE  Kept
<1>1. /\ script[t] \in Seq(Step) /\ script'[t] = Tail(script[t]) /\ ~written'[t]
      /\ NextStep(t) = script[t][1]
  BY NextStepType DEF Skip, Typed
<1>2. /\ \A i : i \in DOMAIN script'[t] <=> i \in Nat \ {0} /\ i + 1 \in DOMAIN script[t]
      /\ \A i \in DOMAIN script'[t] : script'[t][i] = script[t][i + 1]
  BY <1>1, TailIs
<1>3. \A u \in Thread : u # t => script'[u] = script[u] /\ written'[u] = written[u]
  BY DEF Skip, Typed
<1>4. DOMAIN script[t] \subseteq Nat \ {0}
  BY DEF Typed
<1>5. ASSUME NEW k \in Turn, NEW i \in Int
      PROVE  i \in Pending(t, k)' <=> i + 1 \in Pending(t, k)
  <2>1. i \in Pending(t, k)' <=> i \in DOMAIN script'[t] /\ script'[t][i] = <<"finished", k>>
    BY <1>1 DEF Pending, Open
  <2>2. i + 1 \in Pending(t, k) <=>
          /\ i + 1 \in DOMAIN script[t] /\ (i + 1 > 1 \/ ~written[t])
          /\ script[t][i + 1] = <<"finished", k>>
    BY DEF Pending, Open
  <2>3. CASE i > 0
    BY <1>2, <2>1, <2>2, <2>3
  <2>4. CASE i = 0
    BY <1>1, <1>2, <2>1, <2>2, <2>4
  <2>5. CASE i < 0
    BY <1>2, <1>4, <2>1, <2>2, <2>5
  <2>. QED
    BY <2>3, <2>4, <2>5
<1>6. \A k \in Turn, i \in Int :
        i \in Pending(t, k)' <=> i - (-1) \in Pending(t, k) \/ (k \in {} /\ i = 2)
  BY <1>5
<1>7. \A k \in Turn, i \in DOMAIN script'[t] : script'[t][i] = <<"release", k>> =>
           \/ i - (-1) \in DOMAIN script[t] /\ script[t][i - (-1)] = <<"release", k>>
           \/ k \in {} /\ i = 3
  BY <1>2, <1>4
<1>. QED
  <2>1. -1 \in Int /\ {} \in SUBSET Turn /\ \A k \in {} : ~Said(k)
    OBVIOUS
  <2>2. Once' /\ Releases' /\ \A k \in Turn : Said(k)' <=> Said(k) \/ k \in {}
    BY ZenonT(60), <1>3, <1>6, <1>7, <2>1, Shifted
  <2>. QED
    BY <2>2 DEF Kept

\* A script without ends or releases, in place of an empty one.
LEMMA RunKeeps ==
  ASSUME Typed, Typed', Once, Releases, journal' = journal, NEW t \in Thread, NEW s,
         script[t] = <<>>, Run(t, s), written' = written,
         \A i \in DOMAIN s : s[i][1] \notin {"finished", "release"}
  PROVE  Kept
<1>1. /\ script'[t] = s
      /\ \A u \in Thread : u # t => script'[u] = script[u] /\ written'[u] = written[u]
  BY DEF Run, Typed
<1>2. \A k \in Turn : Pending(t, k)' = {} /\ Pending(t, k) = {}
  BY <1>1 DEF Pending, Open
<1>3. \A k \in Turn, i \in Int :
        i \in Pending(t, k)' <=> i - 0 \in Pending(t, k) \/ (k \in {} /\ i = 2)
  BY <1>2
<1>4. \A k \in Turn, i \in DOMAIN script'[t] : script'[t][i] # <<"release", k>>
  BY <1>1
<1>. QED
  <2>1. 0 \in Int /\ {} \in SUBSET Turn /\ \A k \in {} : ~Said(k)
    OBVIOUS
  <2>2. Once' /\ Releases' /\ \A k \in Turn : Said(k)' <=> Said(k) \/ k \in {}
    BY ZenonT(60), <1>1, <1>3, <1>4, <2>1, Shifted
  <2>. QED
    BY <2>2 DEF Kept

\* The end of task k, put before a rest of the script.
Told(k) == Once' /\ Releases' /\ \A j \in Turn : Said(j)' <=> Said(j) \/ j = k

\* Where the script that tells of the end of task k has its end and its release.
LEMMA DoneIs ==
  ASSUME NEW k \in Task, NEW how \in Outcome
  PROVE  /\ Done(k, how) \in Seq(Step)
         /\ k \in Turn => Len(Done(k, how)) = 3
         /\ k \notin Turn => Len(Done(k, how)) = 1
         /\ \A i, j : i \in DOMAIN Done(k, how) /\ Done(k, how)[i] = <<"finished", j>>
                      <=> k \in Turn /\ j = k /\ i = 2
         /\ \A i, j : i \in DOMAIN Done(k, how) /\ Done(k, how)[i] = <<"release", j>>
                      <=> k \in Turn /\ j = k /\ i = 3
<1>1. Done(k, how) \in Seq(Step)
  BY DoneType
<1>2. CASE k \in Turn
  <2>1. Done(k, how) = <<<<how, k>>, <<"finished", k>>, <<"release", k>>>>
    BY <1>2 DEF Done, ChatDone
  <2>2. how \notin {"finished", "release"}
    BY DEF Outcome
  <2>. QED
    BY <1>1, <1>2, <2>1, <2>2
<1>3. CASE k \notin Turn
  <2>1. Done(k, how) = <<<<"done", k>>>>
    BY <1>3 DEF Done, OperationDone
  <2>. QED
    BY <1>1, <1>3, <2>1
<1>. QED
  BY <1>2, <1>3

\* The end of a task, told by a thread that has nothing else to do: Finish.
LEMMA EndTells ==
  ASSUME Typed, Typed', Once, Releases, journal' = journal, NEW t \in Thread,
         NEW k \in Task, NEW how \in Outcome, Run(t, Done(k, how)),
         written' = written, ~written[t],
         k \in Turn => ~Said(k),
         \A i \in DOMAIN script[t] : script[t][i][1] \notin {"finished", "release"}
  PROVE  Told(k)
<1>1. script'[t] = Done(k, how)
      /\ \A u \in Thread : u # t => script'[u] = script[u] /\ written'[u] = written[u]
  BY DEF Run, Typed
<1>2. \A j \in Turn : Pending(t, j) = {}
  BY DEF Pending, Open
<1>0. \A x, y : x \in DOMAIN Done(k, how) /\ Done(k, how)[x] = <<"finished", y>>
                 <=> k \in Turn /\ y = k /\ x = 2
  BY DoneIs
<1>3. \A j \in Turn, i \in Int :
        i \in Pending(t, j)' <=> i - 0 \in Pending(t, j) \/ (j \in {k} \cap Turn /\ i = 2)
  <2>. TAKE j \in Turn, i \in Int
  <2>1. i \in Pending(t, j)' <=> i \in DOMAIN Done(k, how) /\ Done(k, how)[i] = <<"finished", j>>
    BY <1>1 DEF Pending, Open
  <2>2. i \in Pending(t, j)' <=> k \in Turn /\ j = k /\ i = 2
    <3>1. i \in DOMAIN Done(k, how) /\ Done(k, how)[i] = <<"finished", j>>
            <=> k \in Turn /\ j = k /\ i = 2
      BY <1>0
    <3>. QED
      BY <2>1, <3>1
  <2>. QED
    BY <1>2, <2>2
<1>4. \A j \in Turn, i \in DOMAIN script'[t] : script'[t][i] = <<"release", j>> =>
        \/ i - 0 \in DOMAIN script[t] /\ script[t][i - 0] = <<"release", j>>
        \/ j \in {k} \cap Turn /\ i = 3
  <2>. TAKE j \in Turn, i \in DOMAIN script'[t]
  <2>1. i \in DOMAIN Done(k, how) /\ Done(k, how)[i] = <<"release", j>>
          <=> k \in Turn /\ j = k /\ i = 3
    BY DoneIs
  <2>. QED
    BY <1>1, <2>1
<1>5. 0 \in Int /\ {k} \cap Turn \in SUBSET Turn /\ \A j \in {k} \cap Turn : ~Said(j)
  OBVIOUS
<1>6. Once' /\ Releases' /\ \A j \in Turn : Said(j)' <=> Said(j) \/ j \in {k} \cap Turn
  BY ZenonT(60), <1>1, <1>3, <1>4, <1>5, Shifted
<1>. QED
  BY <1>6 DEF Told

\* The end of a task, told before what is left of the script: a done callback that
\* runs at once, as add_done_callback and Future.cancel have it.
LEMMA EndBeforeTells ==
  ASSUME Typed, Typed', Once, Releases, journal' = journal, NEW t \in Thread,
         NEW k \in Task, NEW how \in Outcome, script[t] # <<>>, ~written[t], written' = written,
         Run(t, Done(k, how) \o Tail(script[t])), k \in Turn => ~Said(k),
         NextStep(t)[1] \notin {"finished", "release"}
  PROVE  Told(k)
<1>. DEFINE done == Done(k, how)
            rest == Tail(script[t])
            d == Len(done) - 1
<1>1. /\ script'[t] = done \o rest
      /\ \A u \in Thread : u # t => script'[u] = script[u] /\ written'[u] = written[u]
  BY DEF Run, Typed
<1>2. /\ script[t] \in Seq(Step) /\ rest \in Seq(Step) /\ NextStep(t) = script[t][1]
      /\ \A i : i \in DOMAIN rest <=> i \in Nat \ {0} /\ i + 1 \in DOMAIN script[t]
      /\ \A i \in DOMAIN rest : rest[i] = script[t][i + 1]
  <2>1. script[t] \in Seq(Step) /\ NextStep(t) = script[t][1]
    BY NextStepType
  <2>. QED
    BY <2>1, TailIs
<1>3. /\ done \in Seq(Step) /\ Len(done) \in {1, 3} /\ DOMAIN done = 1..Len(done)
      /\ \A i, j : i \in DOMAIN done /\ done[i] = <<"finished", j>>
            <=> k \in Turn /\ j = k /\ i = 2
      /\ \A i, j : i \in DOMAIN done /\ done[i] = <<"release", j>>
            <=> k \in Turn /\ j = k /\ i = 3
  <2>1. done \in Seq(Step) /\ (k \in Turn => Len(done) = 3) /\ (k \notin Turn => Len(done) = 1)
    BY DoneIs
  <2>2. \A i, j : i \in DOMAIN done /\ done[i] = <<"finished", j>>
          <=> k \in Turn /\ j = k /\ i = 2
    BY DoneIs
  <2>3. \A i, j : i \in DOMAIN done /\ done[i] = <<"release", j>> <=> k \in Turn /\ j = k /\ i = 3
    BY DoneIs
  <2>. HIDE DEF done
  <2>4. DOMAIN done = 1..Len(done)
    BY <2>1
  <2>5. Len(done) \in {1, 3}
    BY <2>1
  <2>. QED
    BY <2>1, <2>2, <2>3, <2>4, <2>5
<1>4. DOMAIN script[t] \subseteq Nat \ {0}
  BY <1>2
<1>. HIDE DEF done, rest
<1>5. /\ \A i : i \in DOMAIN (done \o rest) <=>
             i \in DOMAIN done \/ (i \in Int /\ i - Len(done) \in DOMAIN rest)
      /\ \A i \in DOMAIN done : (done \o rest)[i] = done[i]
      /\ \A i \in Int : i - Len(done) \in DOMAIN rest => (done \o rest)[i] = rest[i - Len(done)]
  <2>. done \in Seq(Step) /\ rest \in Seq(Step)
    BY <1>2, <1>3
  <2>. QED
    BY ConcatIs
<1>6. ASSUME NEW x \in Step, x[1] # script[t][1][1], NEW i \in Int
      PROVE  i \in DOMAIN script'[t] /\ script'[t][i] = x <=>
               \/ i \in DOMAIN done /\ done[i] = x
               \/ i - d \in DOMAIN script[t] /\ script[t][i - d] = x
  <2>1. CASE i \in DOMAIN done
    <3>1. i <= Len(done)
      BY <1>3, <2>1
    <3>2. i - d <= 1
      BY <1>3, <3>1
    <3>3. i - d \in DOMAIN script[t] => i - d = 1
      BY <1>3, <1>4, <3>2
    <3>. QED
      BY <1>1, <1>5, <1>6, <2>1, <3>3
  <2>2. CASE i \notin DOMAIN done
    <3>1. i - Len(done) \in Int /\ (i - Len(done)) + 1 = i - d
      BY <1>3
    <3>2. i \in DOMAIN script'[t] <=> i - Len(done) \in DOMAIN rest
      BY <1>1, <1>5, <2>2
    <3>3. i - Len(done) \in DOMAIN rest =>
            script'[t][i] = script[t][i - d] /\ i - d \in DOMAIN script[t]
      BY <1>1, <1>2, <1>5, <3>1
    <3>4. ASSUME i - d \in DOMAIN script[t], script[t][i - d] = x
          PROVE  i - Len(done) \in DOMAIN rest
      <4>1. i - d # 1
        BY <1>6, <3>4
      <4>2. i - Len(done) \in Nat \ {0}
        <5>1. i - d \in Nat \ {0}
          BY <1>4, <3>4
        <5>. QED
          BY <3>1, <4>1, <5>1
      <4>. QED
        BY <1>2, <3>1, <3>4, <4>2
    <3>. QED
      BY <2>2, <3>2, <3>3, <3>4
  <2>. QED
    BY <2>1, <2>2
<1>7. \A j \in Turn : <<"finished", j>> \in Step /\ <<"release", j>> \in Step
  BY DEF Step, EventKind, Task
<1>8. \A j \in Turn, i \in Int :
        i \in Pending(t, j)' <=> i - d \in Pending(t, j) \/ (j \in {k} \cap Turn /\ i = 2)
  <2>. TAKE j \in Turn, i \in Int
  <2>1. i \in Pending(t, j)' <=> i \in DOMAIN script'[t] /\ script'[t][i] = <<"finished", j>>
    BY DEF Pending, Open
  <2>2. i - d \in Pending(t, j)
          <=> i - d \in DOMAIN script[t] /\ script[t][i - d] = <<"finished", j>>
    BY DEF Pending, Open
  <2>3. <<"finished", j>>[1] # script[t][1][1]
    BY <1>2
  <2>4. i \in DOMAIN done /\ done[i] = <<"finished", j>> <=> j \in {k} \cap Turn /\ i = 2
    BY <1>3
  <2>5. <<"finished", j>> \in Step
    BY <1>7
  <2>. QED
    BY <1>6, <2>1, <2>2, <2>3, <2>4, <2>5
<1>9. \A j \in Turn, i \in DOMAIN script'[t] : script'[t][i] = <<"release", j>> =>
        \/ i - d \in DOMAIN script[t] /\ script[t][i - d] = <<"release", j>>
        \/ j \in {k} \cap Turn /\ i = 3
  <2>. TAKE j \in Turn, i \in DOMAIN script'[t]
  <2>1. i \in Int
    BY DEF Typed
  <2>2. <<"release", j>>[1] # script[t][1][1]
    BY <1>2
  <2>3. i \in DOMAIN done /\ done[i] = <<"release", j>> <=> j \in {k} \cap Turn /\ i = 3
    BY <1>3
  <2>4. <<"release", j>> \in Step
    BY <1>7
  <2>. QED
    BY <1>6, <2>1, <2>2, <2>3, <2>4
<1>10. d \in Int /\ {k} \cap Turn \in SUBSET Turn /\ \A j \in {k} \cap Turn : ~Said(j)
  BY <1>3
<1>. DEFINE K == {k} \cap Turn
<1>11. /\ \A j \in Turn, i \in Int :
             i \in Pending(t, j)' <=> i - d \in Pending(t, j) \/ (j \in K /\ i = 2)
       /\ \A j \in Turn, i \in DOMAIN script'[t] : script'[t][i] = <<"release", j>> =>
             \/ i - d \in DOMAIN script[t] /\ script[t][i - d] = <<"release", j>>
             \/ j \in K /\ i = 3
  BY <1>8, <1>9
<1>12. \A u \in Thread : u # t => script'[u] = script[u] /\ written'[u] = written[u]
  BY <1>1
<1>13. d \in Int /\ K \in SUBSET Turn /\ \A j \in K : ~Said(j)
  BY <1>10
<1>. HIDE DEF d, K
<1>14. Once' /\ Releases' /\ \A j \in Turn : Said(j)' <=> Said(j) \/ j \in K
  BY ZenonT(60), <1>11, <1>12, <1>13, Shifted
<1>. QED
  BY <1>14 DEF Told, K

-----------------------------------------------------------------------------
\* What an append adds to the journal is the next step of the thread.
LEMMA AppendIndex ==
  ASSUME Typed, Emits, NEW t \in Thread, AppendEvent(t)
  PROVE  /\ Len(journal) \in Nat /\ Len(journal') = Len(journal) + 1
         /\ \A i \in 1..Len(journal) : journal'[i] = journal[i]
         /\ \A what, k : IndexOf(what, k) \subseteq 1..Len(journal)
         /\ \A what, k : IndexOf(what, k)' =
              IndexOf(what, k) \cup (IF NextStep(t) = <<what, k>> THEN {Len(journal) + 1} ELSE {})
         /\ journal'[Len(journal) + 1].kind = NextStep(t)[1]
         /\ script[t] # <<>> /\ 1 \in Open(t)
<1>1. emitting[t] \in Event /\ script[t] # <<>>
  BY DEF AppendEvent, Typed, Emits, Says
<1>2. NextStep(t) \in Step /\ 1 \in DOMAIN script[t]
  BY <1>1, NextStepType
<1>3. /\ journal' = Append(journal, emitting[t]) /\ ~written[t]
      /\ NextStep(t) = <<emitting[t].kind, emitting[t].task>>
  BY <1>2 DEF AppendEvent, Emits, Step
<1>4. /\ journal \in Seq(Event) /\ Len(journal') = Len(journal) + 1
      /\ DOMAIN journal = 1..Len(journal) /\ Len(journal) \in Nat
      /\ DOMAIN journal' = 1..(Len(journal) + 1)
      /\ \A i \in DOMAIN journal : journal'[i] = journal[i]
      /\ journal'[Len(journal) + 1] = emitting[t]
  BY <1>1, <1>3, AppendIs DEF Typed
<1>5. ASSUME NEW what, NEW k
      PROVE  IndexOf(what, k)' =
              IndexOf(what, k) \cup (IF NextStep(t) = <<what, k>> THEN {Len(journal) + 1} ELSE {})
  <2>1. NextStep(t) = <<what, k>> <=> emitting[t].kind = what /\ emitting[t].task = k
    BY <1>3
  <2>2. ASSUME NEW i
        PROVE  i \in IndexOf(what, k)' <=>
                 \/ i \in IndexOf(what, k)
                 \/ i = Len(journal) + 1 /\ emitting[t].kind = what /\ emitting[t].task = k
    BY <1>4 DEF IndexOf
  <2>. QED
    BY <2>1, <2>2
<1>6. \A what, k : IndexOf(what, k) \subseteq 1..Len(journal)
  BY <1>4 DEF IndexOf
<1>. QED
  BY <1>1, <1>2, <1>3, <1>4, <1>5, <1>6 DEF Open

\* A turn whose end was said is not begun any more.
LEMMA NoUserAfter ==
  ASSUME Typed, Shape, Futures, NEW t \in Thread, script[t] # <<>>, NEW k \in Turn, Said(k)
  PROVE  NextStep(t) # <<"user", k>>
<1>. SUFFICES ASSUME NextStep(t) = <<"user", k>> PROVE FALSE
  OBVIOUS
<1>1. script[t][1] = <<"user", k>> /\ 1 \in DOMAIN script[t]
  BY NextStepType
<1>2. ~Reporting(script[t])
  BY <1>1 DEF Reporting, Reports, Outcome
<1>3. t = "ui" /\ ~Opens
  BY <1>1, <1>2 DEF Shape, Thread, Opens
<1>4. PICK j \in Task : Watches(j) \/ script["ui"] \in Begun(j)
  BY <1>2, <1>3 DEF Shape, UiShape
<1>5. j = k /\ script["ui"] \in Begun(j)
  BY <1>1, <1>3, <1>4 DEF Watches, Begun
<1>. QED
  BY <1>5 DEF Futures

\* An append moves an end from the script to the journal, and nothing else.
LEMMA AppendKeeps ==
  ASSUME Typed, Shape, Emits, Once, Futures, Releases, NEW t \in Thread, AppendEvent(t)
  PROVE  Kept
<1>. DEFINE n == Len(journal) + 1
<1>1. /\ n \in Nat /\ n \notin 1..Len(journal) /\ 1 \in Open(t)
      /\ \A what, k : IndexOf(what, k) \subseteq 1..Len(journal)
      /\ \A what, k : IndexOf(what, k)' =
           IndexOf(what, k) \cup (IF NextStep(t) = <<what, k>> THEN {n} ELSE {})
  BY AppendIndex
<1>. HIDE DEF n
<1>2. script' = script /\ written'[t] /\ ~written[t]
      /\ \A u \in Thread : u # t => written'[u] = written[u]
  BY DEF AppendEvent, Typed
<1>3. \A u \in Thread : \A k : Pending(u, k)' = Pending(u, k) \ (IF u = t THEN {1} ELSE {})
  BY <1>2 DEF Pending, Open, Typed
<1>4. \A k : 1 \in Pending(t, k) <=> NextStep(t) = <<"finished", k>>
  <2>1. NextStep(t) = script[t][1]
    BY AppendIndex, NextStepType
  <2>. QED
    BY <1>1, <2>1 DEF Pending
<1>5. \A k \in Turn : Said(k)' <=> Said(k)
  <2>. TAKE k \in Turn
  <2>1. CASE NextStep(t) = <<"finished", k>>
    BY <1>1, <1>4, <2>1 DEF Said
  <2>2. CASE NextStep(t) # <<"finished", k>>
    <3>1. \A u \in Thread : Pending(u, k)' = Pending(u, k)
      <4>1. 1 \notin Pending(t, k)
        BY <1>4, <2>2
      <4>. QED
        <5>. TAKE u \in Thread
        <5>1. Pending(u, k)' = Pending(u, k) \ (IF u = t THEN {1} ELSE {})
          BY <1>3
        <5>2. CASE u = t
          BY <4>1, <5>1, <5>2
        <5>3. CASE u # t
          BY <5>1, <5>3
        <5>. QED
          BY <5>2, <5>3
    <3>2. IndexOf("finished", k)' = IndexOf("finished", k)
      BY <1>1, <2>2
    <3>. QED
      BY <3>1, <3>2 DEF Said
  <2>. QED
    BY <2>1, <2>2
<1>6. Once'
  <2>1. ASSUME NEW k \in Turn, NextStep(t) = <<"finished", k>>
        PROVE  IndexOf("finished", k) = {} /\ \A u \in Thread : Pending(u, k)' = {}
    <3>1. IndexOf("finished", k) = {} /\ \A u \in Thread : \A i \in Pending(u, k) : u = t /\ i = 1
      BY <1>4, <2>1 DEF Once
    <3>. QED
      BY <1>3, <3>1
  <2>2. \A k \in Turn : \A i, j \in IndexOf("finished", k)' : i = j
    BY <1>1, <2>1 DEF Once
  <2>3. \A k \in Turn, u \in Thread : Pending(u, k)' # {} => IndexOf("finished", k)' = {}
    BY <1>1, <1>3, <2>1 DEF Once
  <2>4. \A k \in Turn, u, w \in Thread : \A i \in Pending(u, k)', j \in Pending(w, k)' :
          u = w /\ i = j
    BY <1>3 DEF Once
  <2>. QED
    BY <2>2, <2>3, <2>4 DEF Once
<1>7. Releases'
  <2>. SUFFICES ASSUME NEW u \in Thread, NEW k \in Turn, NEW i \in DOMAIN script[u],
                       script[u][i] = <<"release", k>>
                PROVE  Closed(k)' \/ \E j \in Pending(u, k)' : j < i
    BY <1>2 DEF Releases
  <2>1. ASSUME Closed(k), NextStep(t) # <<"user", k>> PROVE Closed(k)'
    BY <1>1, <2>1 DEF Closed
  <2>2. ASSUME NextStep(t) = <<"finished", k>> PROVE Closed(k)'
    <3>1. n \in IndexOf("finished", k)' /\ IndexOf("user", k)' = IndexOf("user", k)
      <4>1. <<"user", k>> # <<"finished", k>>
        OBVIOUS
      <4>. QED
        BY <1>1, <2>2, <4>1
    <3>2. \A m \in IndexOf("user", k)' : m < n
      BY <1>1, <3>1 DEF n
    <3>. QED
      BY <3>1, <3>2 DEF Closed
  <2>3. CASE Closed(k)
    <3>1. Said(k) /\ script[t] # <<>>
      BY <2>3, AppendIndex DEF Closed, Said
    <3>. QED
      BY <2>1, <2>3, <3>1, NoUserAfter
  <2>4. ASSUME NEW j \in Pending(u, k), j < i PROVE Closed(k)' \/ j \in Pending(u, k)'
    BY <1>3, <1>4, <2>2, <2>4
  <2>. QED
    BY <2>3, <2>4 DEF Releases
<1>. QED
  BY <1>5, <1>6, <1>7 DEF Kept

\* Only the function that began a task comes to its "watch" and its "submit".
LEMMA WatchesNext ==
  ASSUME Typed, UiShape, NEW k \in Task, 1 \in DOMAIN script["ui"]
  PROVE  /\ script["ui"][1] = <<"watch", k>> => Watches(k)
         /\ script["ui"][1] = <<"submit", k>> =>
               script["ui"] = <<<<"submit", k>>, <<"watch", k>>>>
<1>. SUFFICES ASSUME script["ui"][1] \in {<<"watch", k>>, <<"submit", k>>}
              PROVE  /\ script["ui"][1] = <<"watch", k>> => Watches(k)
                     /\ script["ui"][1] = <<"submit", k>> =>
                          script["ui"] = <<<<"submit", k>>, <<"watch", k>>>>
  OBVIOUS
<1>1. ~Reporting(script["ui"]) /\ ~Opens
  BY DEF Reporting, Reports, Outcome, Opens
<1>2. PICK j \in Task : Watches(j) \/ script["ui"] \in Begun(j)
  BY <1>1 DEF UiShape
<1>. QED
  BY <1>2 DEF Watches, Begun

\* An end is said when its future is over and has its callback.
Over(k) == future[k] = "cancelled" \/ (future[k] = "returned" /\ k \in watched)

\* Every step keeps the ends single and the releases after them.  The hard steps
\* are the callbacks: that none tells of an end that was told before is Futures.
LEMMA EndsStep ==
  ASSUME IInv, Typed', [Next]_guiVars
  PROVE  Once' /\ Releases' /\ \A k \in Turn : Said(k)' => Said(k) \/ Over(k)'
<1>. DEFINE Goal == Once' /\ Releases' /\ \A k \in Turn : Said(k)' => Said(k) \/ Over(k)'
<1>. USE DEF IInv, disk, emit, work
<1>k. ASSUME Kept PROVE Goal
  BY <1>k DEF Kept
<1>t. ASSUME NEW k \in Task, Told(k), k \in Turn => Over(k)' PROVE Goal
  BY <1>t DEF Told
\* A thread at a call, or with an empty script, emits nothing.
<1>w. ASSUME NEW t \in Thread, script[t] = <<>> \/ NextStep(t)[1] \notin EventKind
      PROVE  ~written[t] /\ written = [written EXCEPT ![t] = FALSE]
  <2>1. ~written[t]
    BY <1>w DEF Emits, Says
  <2>. QED
    BY <2>1 DEF Typed
<1>s. ASSUME NEW t \in Thread, script[t] # <<>>, Skip(t), UNCHANGED <<journal, written>>,
             NextStep(t)[1] \in {"submit", "watch", "cancel", "release"}
      PROVE  Goal
  <2>1. NextStep(t)[1] \notin EventKind
    BY <1>s DEF EventKind
  <2>2. written' = [written EXCEPT ![t] = FALSE]
    BY <1>s, <1>w, <2>1
  <2>. QED
    BY <1>s, <1>k, <2>2, SkipKeeps
<1>r. ASSUME NEW s, script["ui"] = <<>>, Run("ui", s), UNCHANGED <<journal, written>>,
             \A i \in DOMAIN s : s[i][1] \notin {"finished", "release"}
      PROVE  Goal
  BY <1>r, <1>k, RunKeeps DEF Thread
<1>1. ASSUME NEW t \in Thread, AppendEvent(t) PROVE Goal
  BY <1>1, <1>k, AppendKeeps
<1>2. ASSUME NEW t \in Thread, PutEvent(t) PROVE Goal
  <2>1. script[t] # <<>>
    BY <1>2 DEF PutEvent, Emits, Says
  <2>. QED
    BY <1>2, <1>k, <2>1, SkipKeeps DEF PutEvent
<1>3. CASE UNCHANGED <<journal, script, written>>
  <2>1. \A k : (Said(k)' <=> Said(k)) /\ (Closed(k)' <=> Closed(k))
    BY <1>3 DEF Said, Closed, Pending, Open, IndexOf
  <2>2. Once' /\ Releases'
    BY <1>3, <2>1 DEF Once, Releases, Pending, Open, IndexOf
  <2>. QED
    BY <2>1, <2>2
<1>4. ASSUME NEW t \in Thread, NEW k \in Task, Release(t, k) PROVE Goal
  BY <1>4, <1>s DEF Release, Calls
<1>5. ASSUME NEW k \in Task, Submit(k) PROVE Goal
  BY <1>5, <1>s DEF Submit, Calls, Thread
<1>6. ASSUME NEW k \in Task, Watch(k) PROVE Goal
  <2>1. CASE future[k] = "returned"
    <3>1. script["ui"] # <<>> /\ NextStep("ui") = <<"watch", k>> /\ "ui" \in Thread
      BY <1>6 DEF Watch, Calls, Thread
    <3>2. script["ui"][1] = <<"watch", k>> /\ 1 \in DOMAIN script["ui"]
      BY <3>1, NextStepType
    <3>3. Watches(k)
      BY <3>2, WatchesNext DEF Shape
    <3>4. k \in Turn => ~Said(k)
      BY <2>1, <3>3 DEF Futures
    <3>5. ~written["ui"]
      BY <1>w, <3>1 DEF EventKind
    <3>6. /\ outcome[k] \in Outcome /\ Run("ui", Done(k, outcome[k]))
          /\ UNCHANGED <<journal, written>>
      BY <1>6, <2>1 DEF Watch, Typed
    <3>7. \A i \in DOMAIN script["ui"] : script["ui"][i][1] \notin {"finished", "release"}
      BY <3>3 DEF Watches
    <3>8. Told(k)
      BY <3>1, <3>4, <3>5, <3>6, <3>7, EndTells
    <3>9. Over(k)'
      BY <1>6, <2>1 DEF Watch, Over
    <3>. QED
      BY <1>t, <3>8, <3>9
  <2>. QED
    BY <1>6, <1>s, <2>1 DEF Watch, Calls, Thread
<1>7. ASSUME NEW k \in Task, Cancel(k) PROVE Goal
  <2>1. CASE future[k] = "queued"
    <3>1. script["ui"] # <<>> /\ NextStep("ui") = <<"cancel", k>> /\ "ui" \in Thread
          /\ "system" \in Outcome
      BY <1>7 DEF Cancel, Calls, Thread, Outcome
    <3>2. ~written["ui"]
      BY <1>w, <3>1 DEF EventKind
    <3>3. k \in Turn => ~Said(k)
      BY <2>1 DEF Futures
    <3>4. Run("ui", Done(k, "system") \o Tail(script["ui"])) /\ UNCHANGED <<journal, written>>
      BY <1>7, <2>1 DEF Cancel
    <3>5. NextStep("ui")[1] \notin {"finished", "release"}
      BY <3>1
    <3>6. Told(k)
      BY <3>1, <3>2, <3>3, <3>4, <3>5, EndBeforeTells
    <3>7. Over(k)'
      BY <1>7, <2>1 DEF Cancel, Over, Typed
    <3>. QED
      BY <1>t, <3>6, <3>7
  <2>. QED
    BY <1>7, <1>s, <2>1 DEF Cancel, Calls, Thread
<1>8. ASSUME NEW k \in Task, NEW how \in Outcome, Finish(k, how) PROVE Goal
  <2>1. CASE k \in watched
    <3>1. script["worker"] = <<>> /\ "worker" \in Thread
      BY <1>8 DEF Finish, OneRunning, Thread
    <3>2. ~written["worker"]
      BY <1>w, <3>1
    <3>3. k \in Turn => ~Said(k)
      BY <1>8 DEF Futures, Finish
    <3>4. Run("worker", Done(k, how)) /\ UNCHANGED <<journal, written>>
      BY <1>8, <2>1 DEF Finish
    <3>5. Told(k)
      BY <3>1, <3>2, <3>3, <3>4, EndTells
    <3>6. Over(k)'
      BY <1>8, <2>1 DEF Finish, Over, Typed
    <3>. QED
      BY <1>t, <3>5, <3>6
  <2>. QED
    BY <1>3, <1>8, <2>1 DEF Finish
<1>9. ASSUME NEW t \in Turn, SendChat(t) PROVE Goal
  BY <1>9, <1>r DEF SendChat, UiFree
<1>10. ASSUME NEW o \in Operation, StartOperation(o) PROVE Goal
  BY <1>10, <1>r DEF StartOperation, UiFree
<1>11. CASE StopChat
  BY <1>11, <1>r DEF StopChat, UiFree
<1>12. CASE NewChat
  BY <1>12, <1>r DEF NewChat, UiFree
<1>13. CASE Close
  <2>1. Run("ui", ClosingSteps) /\ script["ui"] = <<>> /\ UNCHANGED <<journal, written>>
    BY <1>13 DEF Close, ClosingSteps, UiFree
  <2>2. \A i \in DOMAIN ClosingSteps : ClosingSteps[i][1] \notin {"finished", "release"}
    BY CloseType
  <2>. QED
    BY <1>r, <2>1, <2>2
<1>14. CASE Start
  <2>1. script["ui"] = <<>>
    BY <1>14 DEF Start, Gone, Thread
  <2>. QED
    BY <1>14, <1>r, <2>1 DEF Start
<1>15. CASE Exit \/ Crash
  <2>1. journal' = journal /\ \A t \in Thread : script'[t] = <<>>
    BY <1>15 DEF Exit, Crash, Forget
  <2>2. \A t \in Thread : \A k : Pending(t, k)' = {}
    BY <2>1 DEF Pending, Open
  <2>3. \A what, k : IndexOf(what, k)' = IndexOf(what, k)
    BY <2>1 DEF IndexOf
  <2>4. Once' /\ Releases'
    BY <2>1, <2>2, <2>3 DEF Once, Releases
  <2>. QED
    BY <2>2, <2>3, <2>4 DEF Said
<1>16. CASE \/ \E t \in Thread : ReadHead(t)
            \/ Deliver \/ SaveProjection \/ Take \/ UNCHANGED guiVars
  BY <1>3, <1>16 DEF ReadHead, Deliver, SaveProjection, Take, guiVars
<1>. QED
  BY <1>1, <1>2, <1>4, <1>5, <1>6, <1>7, <1>8, <1>9, <1>10, <1>11, <1>12, <1>13,
     <1>14, <1>15, <1>16
  DEF Next, UiStep, WorkerStep, User, Emission, Thread

-----------------------------------------------------------------------------
\* What the Tk thread is in after the next step of its script.
LEMMA UiNext ==
  ASSUME Typed, UiShape, script["ui"] # <<>>, Skip("ui"), NEW k \in Task
  PROVE  /\ script'["ui"] \in Begun(k) =>
              script["ui"] \in Begun(k) /\ NextStep("ui")[1] \in EventKind
         /\ Watches(k)' => NextStep("ui") = <<"submit", k>>
         /\ script'["ui"] # <<>> => script'["ui"][1] # <<"user", k>>
<1>1. /\ script'["ui"] = Tail(script["ui"]) /\ script["ui"] \in Seq(Step)
      /\ NextStep("ui") = script["ui"][1]
  BY NextStepType DEF Skip, Typed, Thread
<1>2. CASE Opens
  <2>. script'["ui"] = <<>>
    BY <1>1, <1>2 DEF Opens
  <2>. QED
    BY DEF Begun, Watches
<1>3. CASE Reporting(script["ui"])
  <2>1. Reporting(script'["ui"]) /\ script'["ui"] \in Seq(Step)
    BY <1>1, <1>3, TailReports, TailIs
  <2>2. script'["ui"] # <<>> => script'["ui"][1][1] \in Reports
    BY <2>1, TailReports
  <2>3. {"user", "started", "begun", "submit", "watch"} \cap Reports = {}
    BY DEF Reports, Outcome
  <2>. QED
    BY <2>2, <2>3 DEF Begun, Watches
<1>4. ASSUME NEW j \in Task, Watches(j) PROVE script'["ui"] = <<>>
  BY <1>1, <1>4 DEF Watches
<1>5. ASSUME NEW j \in Task, script["ui"] \in Begun(j)
      PROVE  \/ NextStep("ui") = <<"submit", j>> /\ Watches(j)'
             \/ /\ NextStep("ui")[1] \in EventKind /\ script'["ui"] \in Begun(j)
                /\ script'["ui"][1] \in {<<"started", j>>, <<"submit", j>>}
  BY <1>1, <1>5, BegunNext DEF Watches
<1>6. \A j, i \in Task : \A s \in Begun(j) \cap Begun(i) : i = j
  BY DEF Begun
<1>7. ASSUME NEW j \in Task, Watches(j)'
      PROVE  /\ script'["ui"] # <<>> /\ script'["ui"][1] = <<"watch", j>>
             /\ script'["ui"] \notin Begun(k)
  BY <1>7 DEF Watches, Begun
<1>. QED
  BY <1>2, <1>3, <1>4, <1>5, <1>6, <1>7 DEF UiShape, Begun, Watches

\* Every step keeps what is known of a future whose end was told.
LEMMA FuturesStep ==
  ASSUME IInv, Typed', [Next]_guiVars
  PROVE  Futures'
<1>. DEFINE Rests(k) == \/ future[k] \in {"none", "cancelled"}
                        \/ (future[k] = "returned" /\ k \in watched)
            Fresh(k) == future[k] = "none" /\ k \notin watched /\ (k \in Turn => ~Said(k))
<1>. USE DEF disk, emit, work, life
<1>1. \A k \in Turn : Said(k)' => Said(k) \/ Over(k)'
  BY EndsStep
\* It is enough to look at each part of the state by itself.
<1>2. ASSUME \A k \in Turn : Said(k) /\ Rests(k) => Rests(k)',
             \A k \in Task : Unused(k)' =>
               Unused(k) /\ (Fresh(k) => future'[k] = "none" /\ k \notin watched'),
             \A k \in Task : script'["ui"] \in Begun(k) =>
               ~Unused(k)' /\ Fresh(k) /\ future'[k] = "none" /\ k \notin watched',
             \A k \in Task : Watches(k)' =>
               future'[k] \in {"queued", "running", "returned"} /\ k \notin watched',
             \A k \in Turn : script'["ui"] # <<>> /\ script'["ui"][1] = <<"user", k>> =>
               active' = k
      PROVE  Futures'
  <2>1. \A k \in Turn : Said(k)' => Rests(k)'
    BY <1>1, <1>2 DEF IInv, Futures, Over
  <2>2. \A k \in Turn : ~Said(k) /\ future'[k] = "none" => ~Said(k)'
    BY <1>1 DEF Over
  <2>3. \A k \in Task : Unused(k)' => Fresh(k)'
    BY <1>2, <2>2 DEF IInv, Futures
  <2>4. \A k \in Task : script'["ui"] \in Begun(k) => ~Unused(k)' /\ Fresh(k)'
    BY <1>2, <2>2
  <2>5. script'["ui"] # <<>> => NextStep("ui")' = script'["ui"][1]
    BY DEF NextStep, Typed, Thread
  <2>. QED
    BY <1>2, <2>1, <2>3, <2>4, <2>5 DEF Futures
<1>3. script["ui"] # <<>> => NextStep("ui") = script["ui"][1]
  BY DEF IInv, NextStep, Typed, Thread
<1>4. \A k \in Task : script["ui"] \in Begun(k) => ~Unused(k) /\ Fresh(k)
  BY DEF IInv, Futures
<1>5. \A k \in Task : Watches(k) =>
        future[k] \in {"queued", "running", "returned"} /\ k \notin watched
  BY DEF IInv, Futures
<1>6. \A k \in Turn : script["ui"] # <<>> /\ script["ui"][1] = <<"user", k>> => active = k
  BY <1>3 DEF IInv, Futures
\* Steps that leave the futures alone, ...
<1>q. ASSUME UNCHANGED <<future, watched, history>>, script'["ui"] = script["ui"],
             \A k \in Turn : script["ui"] # <<>> /\ script["ui"][1] = <<"user", k>> /\ active = k
               => active' = k
      PROVE  Futures'
  BY <1>q, <1>2, <1>4, <1>5, <1>6 DEF Unused, Watches
\* ... and scripts that begin nothing.
<1>r. ASSUME UNCHANGED <<future, watched, history>>,
             \A k \in Task : script'["ui"] \notin Begun(k) /\ ~Watches(k)',
             \A k \in Turn : script'["ui"] # <<>> => script'["ui"][1] # <<"user", k>>
      PROVE  Futures'
  BY <1>r, <1>2 DEF Unused
<1>o. ASSUME script'["ui"] # <<>>,
             script'["ui"][1][1] \notin {"user", "started", "begun", "submit", "watch"}
      PROVE  /\ \A k \in Task : script'["ui"] \notin Begun(k) /\ ~Watches(k)'
             /\ \A k \in Turn : script'["ui"] # <<>> => script'["ui"][1] # <<"user", k>>
  BY <1>o DEF Begun, Watches
<1>e. ASSUME script'["ui"] = <<>>
      PROVE  \A k \in Task : script'["ui"] \notin Begun(k) /\ ~Watches(k)'
  BY <1>e DEF Begun, Watches
<1>7. ASSUME NEW t \in Thread, ReadHead(t) \/ AppendEvent(t) PROVE Futures'
  BY <1>7, <1>q DEF ReadHead, AppendEvent
<1>8. CASE Deliver \/ SaveProjection \/ UNCHANGED guiVars
  BY <1>8, <1>q DEF Deliver, SaveProjection, guiVars
<1>9. ASSUME NEW t \in Thread, PutEvent(t) PROVE Futures'
  <2>1. script[t] # <<>> /\ NextStep(t)[1] \in EventKind
    BY <1>9 DEF IInv, PutEvent, Emits, Says
  <2>2. CASE t = "worker"
    <3>1. script'["ui"] = script["ui"]
      BY <1>9, <2>2 DEF PutEvent, Skip, IInv, Typed, Thread
    <3>. QED
      BY <1>9, <1>q, <3>1 DEF PutEvent
  <2>3. CASE t = "ui"
    <3>1. Skip("ui") /\ UNCHANGED <<future, watched, history>>
      BY <1>9, <2>3 DEF PutEvent
    <3>2. ASSUME NEW k \in Task
          PROVE  /\ script'["ui"] \in Begun(k) => script["ui"] \in Begun(k)
                 /\ ~Watches(k)'
                 /\ script'["ui"] # <<>> => script'["ui"][1] # <<"user", k>>
      BY <2>1, <2>3, <3>1, UiNext DEF IInv, Shape, EventKind
    <3>. QED
      BY <1>2, <1>4, <3>1, <3>2 DEF Unused, Task
  <2>. QED
    BY <2>2, <2>3 DEF Thread
<1>10. ASSUME NEW t \in Thread, NEW j \in Task, Release(t, j) PROVE Futures'
  <2>1. script[t] # <<>> /\ NextStep(t) = <<"release", j>> /\ Skip(t)
        /\ UNCHANGED <<future, watched, history>>
    BY <1>10 DEF Release, Calls
  <2>2. CASE t = "ui"
    <3>1. \A k \in Task : script'["ui"] \notin Begun(k) /\ ~Watches(k)'
            /\ (script'["ui"] # <<>> => script'["ui"][1] # <<"user", k>>)
      BY <2>1, <2>2, UiNext DEF IInv, Shape, EventKind
    <3>. QED
      BY <1>r, <2>1, <3>1 DEF Task
  <2>3. CASE t = "worker"
    <3>1. script'["ui"] = script["ui"]
      BY <2>1, <2>3 DEF Skip, IInv, Typed, Thread
    <3>2. ASSUME NEW k \in Turn, script["ui"] # <<>>, script["ui"][1] = <<"user", k>>, active = k
          PROVE  active' = k
      <4>1. NextStep("ui") = <<"user", k>> /\ "ui" \in Thread
        BY <1>3, <3>2 DEF Thread
      <4>2. ~Said(k)
        BY <3>2, <4>1, NoUserAfter DEF IInv
      <4>3. j \in Turn => Said(j)
        <5>1. 1 \in DOMAIN script[t] /\ script[t][1] = <<"release", j>>
          BY <2>1, NextStepType DEF IInv
        <5>. QED
          BY <5>1 DEF IInv, Releases, Closed, Said
      <4>. QED
        BY <1>10, <3>2, <4>2, <4>3 DEF Release
    <3>. QED
      BY <1>q, <2>1, <3>1, <3>2
  <2>. QED
    BY <2>2, <2>3 DEF Thread
<1>11. ASSUME NEW j \in Task, Submit(j) PROVE Futures'
  <2>1. script["ui"] # <<>> /\ NextStep("ui") = <<"submit", j>> /\ Skip("ui") /\ "ui" \in Thread
    BY <1>11 DEF Submit, Calls, Thread
  <2>2. script["ui"] = <<<<"submit", j>>, <<"watch", j>>>>
    BY <2>1, NextStepType, WatchesNext DEF IInv, Shape
  <2>3. script["ui"] \in Begun(j) /\ script'["ui"] = <<<<"watch", j>>>>
    BY <2>1, <2>2 DEF Begun, Skip, IInv, Typed
  <2>4. ~Unused(j) /\ Fresh(j)
    BY <1>4, <2>3
  <2>5. future' = [future EXCEPT ![j] = "queued"] /\ watched' = watched /\ history' = history
    BY <1>11 DEF Submit
  <2>6. /\ future'[j] = "queued" /\ j \notin watched'
        /\ \A k \in Task : k # j => future'[k] = future[k]
    BY <2>4, <2>5 DEF IInv, Typed
  <2>7. \A k \in Task : script'["ui"] \notin Begun(k) /\ (Watches(k)' => k = j)
    BY <2>3 DEF Begun, Watches
  <2>8. \A k \in Turn : script'["ui"][1] # <<"user", k>>
    BY <2>3
  <2>9. \A k \in Turn : Said(k) /\ Rests(k) => Rests(k)'
    BY <2>4, <2>5, <2>6 DEF Task
  <2>10. \A k \in Task : Unused(k)' =>
          Unused(k) /\ (Fresh(k) => future'[k] = "none" /\ k \notin watched')
    BY <2>4, <2>5, <2>6 DEF Unused
  <2>. QED
    BY <1>2, <2>6, <2>7, <2>8, <2>9, <2>10
<1>12. ASSUME NEW j \in Task, Watch(j) PROVE Futures'
  <2>1. script["ui"] # <<>> /\ NextStep("ui") = <<"watch", j>> /\ "ui" \in Thread
    BY <1>12 DEF Watch, Calls, Thread
  <2>2. Watches(j)
    BY <2>1, NextStepType, WatchesNext DEF IInv, Shape
  <2>3. future[j] # "none" /\ ~Unused(j)
    BY <1>5, <2>2 DEF IInv, Futures
  <2>4. future' = future /\ watched' = watched \cup {j} /\ history' = history
    BY <1>12 DEF Watch
  <2>5. script'["ui"] = <<>> \/ script'["ui"] = Done(j, outcome[j])
    BY <1>12, <2>1, <2>2 DEF Watch, Run, Skip, Watches, IInv, Typed
  <2>6. /\ \A k \in Task : script'["ui"] \notin Begun(k) /\ ~Watches(k)'
        /\ \A k \in Turn : script'["ui"] # <<>> => script'["ui"][1] # <<"user", k>>
    <3>1. CASE script'["ui"] = <<>>
      BY <1>e, <3>1
    <3>2. CASE script'["ui"] # <<>>
      <4>1. future[j] = "returned"
        BY <1>12, <2>1, <2>2, <3>2 DEF Watch, Run, Skip, Watches, IInv, Typed
      <4>2. outcome[j] \in Outcome
        BY <4>1 DEF IInv, Typed
      <4>3. script'["ui"][1][1] \notin {"user", "started", "begun", "submit", "watch"}
        BY <2>5, <3>2, <4>2, DoneHead
      <4>. QED
        BY <1>o, <3>2, <4>3
    <3>. QED
      BY <3>1, <3>2
  <2>. QED
    BY <1>2, <2>3, <2>4, <2>6 DEF Unused
<1>13. ASSUME NEW j \in Task, Cancel(j) PROVE Futures'
  <2>1. script["ui"] # <<>> /\ NextStep("ui") = <<"cancel", j>> /\ "ui" \in Thread
    BY <1>13 DEF Cancel, Calls, Thread
  <2>2. CASE future[j] = "queued"
    <3>1. script'["ui"] = Done(j, "system") \o Tail(script["ui"]) /\ "system" \in Outcome
      BY <1>13, <2>1, <2>2 DEF Cancel, Run, IInv, Typed, Outcome
    <3>2. script'["ui"] # <<>> /\ script'["ui"][1] = Done(j, "system")[1]
      <4>1. /\ Done(j, "system") \in Seq(Step) /\ Tail(script["ui"]) \in Seq(Step)
            /\ 1 \in DOMAIN Done(j, "system")
        BY <2>1, <3>1, DoneType, DoneHead, NextStepType DEF IInv
      <4>2. /\ 1 \in DOMAIN (Done(j, "system") \o Tail(script["ui"]))
            /\ (Done(j, "system") \o Tail(script["ui"]))[1] = Done(j, "system")[1]
        BY <4>1, ConcatIs
      <4>. QED
        BY <3>1, <4>2
    <3>3. script'["ui"][1][1] \notin {"user", "started", "begun", "submit", "watch"}
      BY <3>1, <3>2, DoneHead
    <3>4. /\ future' = [future EXCEPT ![j] = "cancelled"]
          /\ watched' = watched /\ history' = history
      BY <1>13, <2>2 DEF Cancel
    <3>5. /\ future'[j] = "cancelled" /\ ~Unused(j)
          /\ \A k \in Task : k # j => future'[k] = future[k]
      BY <2>2, <3>4 DEF IInv, Typed, Futures
    <3>6. \A k \in Turn : Rests(k) => Rests(k)'
      BY <3>4, <3>5 DEF Task
    <3>7. \A k \in Task : Unused(k)' =>
          Unused(k) /\ (Fresh(k) => future'[k] = "none" /\ k \notin watched')
      BY <3>4, <3>5 DEF Unused
    <3>. QED
      BY <1>2, <1>o, <3>2, <3>3, <3>6, <3>7
  <2>3. CASE future[j] # "queued"
    <3>1. Skip("ui") /\ UNCHANGED <<future, watched, history>>
      BY <1>13, <2>3 DEF Cancel
    <3>2. \A k \in Task : script'["ui"] \notin Begun(k) /\ ~Watches(k)'
            /\ (script'["ui"] # <<>> => script'["ui"][1] # <<"user", k>>)
      BY <2>1, <3>1, UiNext DEF IInv, Shape, EventKind
    <3>. QED
      BY <1>r, <3>1, <3>2 DEF Task
  <2>. QED
    BY <2>2, <2>3
<1>14. CASE Take
  <2>1. UNCHANGED <<watched, history, script, active>>
    BY <1>14 DEF Take
  <2>2. \A k \in Task :
          future'[k] = future[k] \/ (future[k] = "queued" /\ future'[k] = "running")
    BY <1>14 DEF Take, IInv, Typed
  <2>. QED
    BY <1>2, <1>4, <1>5, <1>6, <2>1, <2>2 DEF Unused, Watches, Task
<1>15. ASSUME NEW j \in Task, NEW how \in Outcome, Finish(j, how) PROVE Futures'
  <2>1. UNCHANGED <<watched, history, active>> /\ script'["ui"] = script["ui"]
    BY <1>15 DEF Finish, Run, IInv, Typed, Thread
  <2>2. \A k \in Task :
          future'[k] = future[k] \/ (future[k] = "running" /\ future'[k] = "returned")
    BY <1>15 DEF Finish, IInv, Typed
  <2>. QED
    BY <1>2, <1>4, <1>5, <1>6, <2>1, <2>2 DEF Unused, Watches, Task
<1>16. ASSUME NEW t \in Turn, SendChat(t) PROVE Futures'
  <2>1. script'["ui"] = <<<<"user", t>>, <<"started", t>>, <<"submit", t>>, <<"watch", t>>>>
    BY <1>16 DEF SendChat, Run, IInv, Typed, Thread
  <2>2. /\ UNCHANGED <<future, watched>> /\ active' = t /\ Unused(t)
        /\ DOMAIN history' = DOMAIN history \cup {t}
    BY <1>16 DEF SendChat, Asked, NextOf
  <2>3. Fresh(t)
    BY <2>2 DEF IInv, Futures, Task
  <2>4. \A k \in Task : (script'["ui"] \in Begun(k) => k = t) /\ ~Watches(k)'
    BY <2>1 DEF Begun, Watches
  <2>5. \A k : script'["ui"][1] = <<"user", k>> => k = t
    BY <2>1
  <2>. QED
    BY <1>2, <2>2, <2>3, <2>4, <2>5 DEF Unused
<1>17. ASSUME NEW o \in Operation, StartOperation(o) PROVE Futures'
  <2>1. script'["ui"] = <<<<"begun", o>>, <<"submit", o>>, <<"watch", o>>>>
    BY <1>17 DEF StartOperation, Run, IInv, Typed, Thread
  <2>2. UNCHANGED <<future, watched>> /\ Unused(o) /\ DOMAIN history' = DOMAIN history \cup {o}
    BY <1>17 DEF StartOperation, Asked, NextOf
  <2>3. Fresh(o)
    BY <2>2 DEF IInv, Futures, Task
  <2>4. \A k \in Task : (script'["ui"] \in Begun(k) => k = o) /\ ~Watches(k)'
    BY <2>1 DEF Begun, Watches
  <2>5. \A k : script'["ui"][1] # <<"user", k>>
    BY <2>1
  <2>. QED
    BY <1>2, <2>2, <2>3, <2>4, <2>5 DEF Unused
<1>18. CASE StopChat \/ NewChat \/ Close \/ Start
  <2>1. /\ script'["ui"] # <<>>
        /\ script'["ui"][1][1] \notin {"user", "started", "begun", "submit", "watch"}
    <3>1. CASE StopChat
      BY <3>1 DEF StopChat, Run, IInv, Typed, Thread
    <3>2. CASE NewChat
      BY <3>2 DEF NewChat, Run, IInv, Typed, Thread
    <3>3. CASE Close
      <4>1. script'["ui"] = ClosingSteps
        BY <3>3 DEF Close, ClosingSteps, Run, IInv, Typed, Thread
      <4>2. 1 \in DOMAIN ClosingSteps
        BY CloseType DEF IInv
      <4>. QED
        BY <4>1, <4>2, CloseType DEF IInv
    <3>4. CASE Start
      BY <3>4 DEF Start, Run, IInv, Typed, Thread
    <3>. QED
      BY <1>18, <3>1, <3>2, <3>3, <3>4
  <2>2. UNCHANGED <<future, watched, history>>
    BY <1>18 DEF StopChat, NewChat, Close, Start
  <2>. QED
    BY <1>o, <1>r, <2>1, <2>2
<1>19. CASE Exit \/ Crash
  <2>1. /\ watched' = {} /\ history' = history /\ script'["ui"] = <<>>
        /\ \A k \in Task : future'[k] = "none"
    BY <1>19 DEF Exit, Crash, Forget, Thread
  <2>. QED
    BY <1>2, <1>e, <2>1 DEF Unused, Task
<1>. QED
  BY <1>7, <1>8, <1>9, <1>10, <1>11, <1>12, <1>13, <1>14, <1>15, <1>16, <1>17, <1>18, <1>19
  DEF Next, UiStep, WorkerStep, User, Emission, Thread

-----------------------------------------------------------------------------
\* A turn that is begun is the active one.
LEMMA UserIsActive ==
  ASSUME IInv, NEW t \in Thread, AppendEvent(t), NEW k \in Turn, NextStep(t) = <<"user", k>>
  PROVE  active = k /\ ~Opening
<1>1. /\ script[t] # <<>> /\ script[t][1] = <<"user", k>> /\ 1 \in DOMAIN script[t]
      /\ emitting[t] # None
  <2>1. script[t] # <<>>
    BY AppendIndex DEF IInv
  <2>. QED
    BY <2>1, NextStepType DEF IInv, AppendEvent
<1>2. t = "ui"
  BY <1>1 DEF IInv, Shape, Reporting, Reports, Outcome, Thread
<1>3. session # "down" /\ ~Opens
  BY <1>1, <1>2 DEF IInv, Gone, Opens, Thread
<1>. QED
  BY <1>1, <1>2, <1>3 DEF IInv, Futures, Opening

\* Every step keeps it that a turn which is not active has ended, or that its
\* process is gone: what releases a turn comes after its end (Releases).
LEMMA SettledStep ==
  ASSUME IInv, [Next]_guiVars
  PROVE  Settled'
<1>. USE DEF IInv, disk, emit, work, life
\* The journal, the active turn and the opening of the session stay.
<1>q. ASSUME journal' = journal, active = None \/ active' = active, Opening => Opening'
      PROVE  Settled'
  BY <1>q, GuiAssumption DEF Settled, EndedAfter, IndexOf, OpenedBetween, Task
<1>n. ASSUME script["ui"] # <<>> => NextStep("ui")[1] # "opened"
      PROVE  ~Opens
  BY <1>n, NextStepType DEF Opens, Thread
<1>1. ASSUME NEW t \in Thread, AppendEvent(t) PROVE Settled'
  <2>. DEFINE n == Len(journal) + 1
  <2>1. /\ Len(journal) \in Nat /\ Len(journal') = n
        /\ \A i \in 1..Len(journal) : journal'[i] = journal[i]
        /\ \A what, k : IndexOf(what, k) \subseteq 1..Len(journal)
        /\ \A what, k : IndexOf(what, k)' =
             IndexOf(what, k) \cup (IF NextStep(t) = <<what, k>> THEN {n} ELSE {})
        /\ journal'[n].kind = NextStep(t)[1] /\ script[t] # <<>>
    BY <1>1, AppendIndex
  <2>2. /\ active' = active /\ script' = script /\ session' = session
        /\ \A u \in Thread : u # t => written'[u] = written[u]
    BY <1>1 DEF AppendEvent, Typed
  <2>. SUFFICES ASSUME NEW k \in Turn, NEW i \in IndexOf("user", k)'
                PROVE  \/ k = active \/ EndedAfter(k, i)' \/ Opening'
                       \/ \E m \in i..n : journal'[m].kind = "opened"
    <3>. HIDE DEF n
    <3>. QED
      BY <2>1, <2>2 DEF Settled, OpenedBetween
  <2>3. CASE i \notin IndexOf("user", k)
    <3>1. NextStep(t) = <<"user", k>>
      BY <2>1, <2>3
    <3>. QED
      BY <1>1, <3>1, UserIsActive
  <2>4. CASE i \in IndexOf("user", k) /\ EndedAfter(k, i)
    BY <2>1, <2>4 DEF EndedAfter
  <2>5. CASE i \in IndexOf("user", k) /\ OpenedBetween(i, Len(journal))
    <3>1. PICK m \in i..Len(journal) : journal[m].kind = "opened"
      BY <2>5 DEF OpenedBetween
    <3>2. i \in 1..Len(journal)
      BY <2>1, <2>5
    <3>3. m \in 1..Len(journal) /\ m \in i..n
      BY <2>1, <3>1, <3>2
    <3>4. journal'[m].kind = "opened"
      BY <2>1, <3>1, <3>3
    <3>. QED
      BY <3>3, <3>4
  <2>6. CASE i \in IndexOf("user", k) /\ Opening
    <3>1. CASE t = "ui"
      <4>1. session # "down"
        BY <1>1, <3>1 DEF Gone, AppendEvent
      <4>2. NextStep(t) = <<"opened", None>>
        BY <2>6, <3>1, <4>1 DEF Opening, Opens, NextStep
      <4>3. i \in 1..Len(journal) /\ n \in i..n
        BY <2>1, <2>6
      <4>. QED
        BY <2>1, <4>2, <4>3
    <3>2. CASE t # "ui"
      BY <2>2, <2>6, <3>2 DEF Opening, Opens, Thread
    <3>. QED
      BY <3>1, <3>2
  <2>. QED
    BY <2>3, <2>4, <2>5, <2>6 DEF Settled
<1>2. ASSUME NEW t \in Thread, PutEvent(t) PROVE Settled'
  <2>1. Opening => Opening'
    BY <1>2 DEF PutEvent, Opening, Opens, Skip, Typed, Thread
  <2>. QED
    BY <1>2, <1>q, <2>1 DEF PutEvent
<1>3. ASSUME NEW t \in Thread, NEW j \in Task, Release(t, j) PROVE Settled'
  <2>1. /\ script[t] # <<>> /\ NextStep(t) = <<"release", j>> /\ Skip(t)
        /\ UNCHANGED <<journal, session, written>>
        /\ active' = IF active = j THEN None ELSE active
    BY <1>3 DEF Release, Calls
  <2>2. Opening => Opening'
    <3>1. CASE t = "ui"
      <4>1. ~Opens
        BY <2>1, <3>1, <1>n
      <4>. QED
        BY <2>1, <4>1 DEF Opening
    <3>2. CASE t = "worker"
      BY <2>1, <3>2 DEF Opening, Opens, Skip, Typed, Thread
    <3>. QED
      BY <3>1, <3>2 DEF Thread
  <2>3. CASE active # j
    BY <1>q, <2>1, <2>2, <2>3
  <2>4. CASE active = j
    <3>1. j \in Turn
      BY <2>4, GuiAssumption DEF Typed
    <3>2. 1 \in DOMAIN script[t] /\ script[t][1] = <<"release", j>>
      BY <2>1, NextStepType
    <3>3. \A i \in Pending(t, j) : ~(i < 1)
      BY DEF Pending, Open, Typed
    <3>4. Closed(j)
      BY <3>1, <3>2, <3>3 DEF Releases
    <3>5. \A i \in IndexOf("user", j) : EndedAfter(j, i)
      BY <3>4 DEF Closed, EndedAfter
    <3>6. \A k \in Turn : \A i \in IndexOf("user", k) :
            EndedAfter(k, i) \/ OpenedBetween(i, Len(journal)) \/ Opening
      BY <2>4, <3>5 DEF Settled
    <3>. QED
      BY <2>1, <2>2, <3>6 DEF Settled, EndedAfter, IndexOf, OpenedBetween
  <2>. QED
    BY <2>3, <2>4
<1>4. ASSUME NEW j \in Task, Submit(j) \/ Watch(j) \/ Cancel(j) PROVE Settled'
  <2>1. ~Opens
    BY <1>4, <1>n DEF Submit, Watch, Cancel, Calls
  <2>. QED
    BY <1>4, <1>q, <2>1 DEF Submit, Watch, Cancel, Opening
<1>5. ASSUME NEW j \in Task, NEW how \in Outcome, Finish(j, how) PROVE Settled'
  <2>1. Opening => Opening'
    BY <1>5 DEF Finish, Run, Opening, Opens, Typed, Thread
  <2>. QED
    BY <1>5, <1>q, <2>1 DEF Finish
<1>6. CASE User
  <2>1. ~Opening
    <3>1. UiFree
      BY <1>6 DEF User, SendChat, StartOperation, StopChat, NewChat, Close
    <3>. QED
      BY <3>1 DEF UiFree, Opening, Opens
  <2>. QED
    BY <1>6, <1>q, <2>1 DEF User, SendChat, StartOperation, StopChat, NewChat, Close
<1>7. CASE Start
  <2>1. Opening'
    BY <1>7 DEF Start, Run, Opening, Opens, Gone, Typed, Thread
  <2>. QED
    BY <1>7, <1>q, <2>1 DEF Start
<1>8. CASE Exit \/ Crash
  <2>1. Opening' /\ journal' = journal
    BY <1>8 DEF Exit, Crash, Forget, Opening
  <2>. QED
    BY <2>1 DEF Settled
<1>9. CASE \/ \E t \in Thread : ReadHead(t)
           \/ Deliver \/ SaveProjection \/ Take \/ UNCHANGED guiVars
  <2>1. UNCHANGED <<journal, active>> /\ (Opening => Opening')
    BY <1>9 DEF ReadHead, Deliver, SaveProjection, Take, guiVars, Opening, Opens
  <2>. QED
    BY <1>q, <2>1
<1>. QED
  BY <1>1, <1>2, <1>3, <1>4, <1>5, <1>6, <1>7, <1>8, <1>9
  DEF Next, UiStep, WorkerStep, Emission, Thread

\* Turns that did not overlap, and the one that is begun, do not.
LEMMA PairsStep ==
  ASSUME IInv, Once', [Next]_guiVars
  PROVE  TurnsDoNotOverlap'
<1>. DEFINE Apart(s, t, i, j) ==
              \/ \E n \in IndexOf("finished", s) : i < n /\ n < j
              \/ OpenedBetween(i, j)
<1>1. SUFFICES ASSUME NEW s \in Turn, NEW t \in Turn, s # t,
                      NEW i \in IndexOf("user", s)', NEW j \in IndexOf("user", t)', i < j
               PROVE  Apart(s, t, i, j)'
  BY DEF Once, TurnsDoNotOverlap
<1>2. ASSUME i \in IndexOf("user", s), j \in IndexOf("user", t) PROVE Apart(s, t, i, j)
  BY <1>1, <1>2 DEF IInv, TurnsDoNotOverlap
<1>3. CASE journal' = journal
  BY <1>2, <1>3 DEF IndexOf, OpenedBetween
<1>4. ASSUME NEW u \in Thread, AppendEvent(u) PROVE Apart(s, t, i, j)'
  <2>. DEFINE n == Len(journal) + 1
  <2>1. /\ Len(journal) \in Nat /\ Len(journal') = n
        /\ \A m \in 1..Len(journal) : journal'[m] = journal[m]
        /\ \A what, k : IndexOf(what, k) \subseteq 1..Len(journal)
        /\ \A what, k : IndexOf(what, k)' =
             IndexOf(what, k) \cup (IF NextStep(u) = <<what, k>> THEN {n} ELSE {})
    BY <1>4, AppendIndex DEF IInv
  <2>2. i \in 1..n /\ j \in 1..n /\ i \in 1..Len(journal)
    BY <1>1, <2>1
  <2>3. i \in IndexOf("user", s)
    BY <2>1, <2>2
  <2>4. ASSUME j <= Len(journal), OpenedBetween(i, j) PROVE OpenedBetween(i, j)'
    <3>1. PICK m \in i..j : journal[m].kind = "opened"
      BY <2>4 DEF OpenedBetween
    <3>2. m \in 1..Len(journal)
      BY <2>1, <2>2, <2>4, <3>1
    <3>. QED
      BY <2>1, <3>1, <3>2 DEF OpenedBetween
  <2>5. CASE j \in IndexOf("user", t)
    <3>1. j <= Len(journal)
      BY <2>1, <2>5
    <3>. QED
      BY <1>2, <2>1, <2>3, <2>4, <2>5, <3>1
  <2>6. CASE j \notin IndexOf("user", t)
    <3>1. NextStep(u) = <<"user", t>> /\ j = n
      BY <2>1, <2>6
    <3>2. active = t /\ ~Opening
      BY <1>4, <3>1, UserIsActive
    <3>3. EndedAfter(s, i) \/ OpenedBetween(i, Len(journal))
      BY <1>1, <2>3, <3>2 DEF IInv, Settled
    <3>4. ASSUME EndedAfter(s, i) PROVE \E m \in IndexOf("finished", s)' : i < m /\ m < j
      <4>1. PICK m \in IndexOf("finished", s) : i < m
        BY <3>4 DEF EndedAfter
      <4>2. m \in IndexOf("finished", s)' /\ m < j
        BY <2>1, <3>1
      <4>. QED
        BY <4>1, <4>2
    <3>5. ASSUME OpenedBetween(i, Len(journal)) PROVE OpenedBetween(i, j)'
      <4>1. PICK m \in i..Len(journal) : journal[m].kind = "opened"
        BY <3>5 DEF OpenedBetween
      <4>2. m \in 1..Len(journal) /\ m \in i..j
        BY <2>1, <2>2, <3>1, <4>1
      <4>. QED
        BY <2>1, <4>1, <4>2 DEF OpenedBetween
    <3>. QED
      BY <3>3, <3>4, <3>5
  <2>. QED
    BY <2>5, <2>6
<1>5. CASE \A u \in Thread : ~AppendEvent(u)
  <2>1. journal' = journal
    BY <1>5 DEF Next, UiStep, WorkerStep, User, Emission, ReadHead, PutEvent, Release, Submit,
                Watch, Cancel, Deliver, SaveProjection, Take, Finish, SendChat,
                StartOperation, StopChat, NewChat, Close, Start, Exit, Crash, guiVars, disk, Thread
  <2>. QED
    BY <1>3, <2>1
<1>. QED
  BY <1>4, <1>5

(***************************************************************************)
(* Every step keeps the chain.  Two threads that both have read the head   *)
(* and not yet written would both hold the lock.                           *)
(***************************************************************************)
LEMMA ChainStep == Typed' /\ CInv /\ [Next]_guiVars => Locked' /\ ChainHolds'
<1>. SUFFICES ASSUME Typed', CInv, [Next]_guiVars PROVE Locked' /\ ChainHolds'
  OBVIOUS
<1>. USE GuiAssumption DEF CInv, Thread
<1>a. journal \in Seq(Event) /\ Len(journal) \in Nat /\ DOMAIN journal = 1..Len(journal)
  BY DEF Typed
<1>q. ASSUME UNCHANGED <<journal, emitting, written, journalLock>>, queue' = queue \/ queue' = <<>>
      PROVE  Locked' /\ ChainHolds'
  BY <1>q DEF Locked, ChainHolds, ToSet
<1>1. ASSUME NEW t \in Thread, ReadHead(t) PROVE Locked' /\ ChainHolds'
  <2>1. /\ journal' = journal /\ queue' = queue /\ written' = written
        /\ journalLock = None /\ journalLock' = t
        /\ \A u \in Thread : u # t => emitting'[u] = emitting[u]
        /\ emitting'[t].previous = Len(journal)
    BY <1>1 DEF ReadHead, disk, Typed
  <2>2. ASSUME NEW u \in Thread PROVE emitting[u] = None \/ written[u]
    BY <2>1 DEF Locked
  <2>3. ~written[t]
    BY <1>1 DEF ReadHead, Emits
  <2>4. Locked'
    BY <2>1, <2>2, <2>3 DEF Locked, ToSet
  <2>5. ChainHolds'
    BY <2>1 DEF ChainHolds, ToSet
  <2>. QED
    BY <2>4, <2>5
<1>2. ASSUME NEW t \in Thread, AppendEvent(t) PROVE Locked' /\ ChainHolds'
  <2>1. /\ journal' = Append(journal, emitting[t]) /\ queue' = queue /\ emitting' = emitting
        /\ emitting[t] # None /\ ~written[t] /\ written'[t]
        /\ \A u \in Thread : u # t => written'[u] = written[u]
    BY <1>2 DEF AppendEvent, Typed
  <2>2. journalLock = t /\ emitting[t].previous = Len(journal) /\ emitting[t] \in Event
    BY <2>1 DEF Locked, Typed
  <2>3. /\ DOMAIN journal' = 1..(Len(journal) + 1)
        /\ \A i \in DOMAIN journal : journal'[i] = journal[i]
        /\ journal'[Len(journal) + 1] = emitting[t]
    BY <2>1, <2>2, AppendIs DEF Typed
  <2>4. ToSet(journal) \subseteq ToSet(journal)' /\ emitting[t] \in ToSet(journal)'
    BY <1>a, <2>3 DEF ToSet
  <2>5. \A u \in Thread : u # t => emitting[u] = None \/ written[u]
    BY <2>2 DEF Locked
  <2>6. Locked'
    BY <2>1, <2>4, <2>5 DEF Locked
  <2>7. \A i \in DOMAIN journal' : journal'[i].previous = i - 1
    BY <1>a, <2>2, <2>3 DEF ChainHolds
  <2>8. \A i \in DOMAIN queue' : queue'[i] \in ToSet(journal)'
    BY <2>1, <2>4 DEF ChainHolds
  <2>. QED
    BY <2>6, <2>7, <2>8 DEF ChainHolds
<1>3. ASSUME NEW t \in Thread, PutEvent(t) PROVE Locked' /\ ChainHolds'
  <2>1. /\ journal' = journal /\ journalLock' = journalLock /\ queue' = Append(queue, emitting[t])
        /\ written[t] /\ ~written'[t] /\ emitting'[t] = None
        /\ \A u \in Thread : u # t => written'[u] = written[u] /\ emitting'[u] = emitting[u]
    BY <1>3 DEF PutEvent, disk, Typed
  <2>2. ToSet(journal)' = ToSet(journal)
    BY <2>1
  <2>3. Locked'
    BY <2>1, <2>2 DEF Locked
  <2>4. emitting[t] \in ToSet(journal)
    BY <2>1 DEF Locked
  <2>5. \A i \in DOMAIN queue' : queue'[i] \in ToSet(journal)'
    <3>1. ToSet(journal) \subseteq Event
      BY <1>a DEF ToSet
    <3>2. queue \in Seq(Event) /\ emitting[t] \in Event
      BY <2>4, <3>1 DEF Typed
    <3>3. \A i \in DOMAIN queue' :
            (i \in DOMAIN queue /\ queue'[i] = queue[i]) \/ queue'[i] = emitting[t]
      BY <2>1, <3>2, AppendIs
    <3>. QED
      BY <2>2, <2>4, <3>3 DEF ChainHolds
  <2>6. \A i \in DOMAIN journal' : journal'[i].previous = i - 1
    BY <2>1 DEF ChainHolds
  <2>. QED
    BY <2>3, <2>5, <2>6 DEF ChainHolds
<1>4. ASSUME \/ \E t \in Thread, k \in Task : Release(t, k)
             \/ \E k \in Task : Submit(k) \/ Watch(k) \/ Cancel(k)
             \/ Deliver \/ SaveProjection
             \/ Take \/ \E k \in Task, how \in Outcome : Finish(k, how)
             \/ User \/ Start \/ UNCHANGED guiVars
      PROVE  Locked' /\ ChainHolds'
  <2>1. UNCHANGED <<journal, emitting, written, journalLock>>
    BY <1>4 DEF Release, Submit, Watch, Cancel, Deliver, SaveProjection, Take, Finish, User,
       SendChat, StartOperation, StopChat, NewChat, Close, Start, guiVars, disk, emit
  <2>2. queue' = queue \/ queue' = <<>>
    BY <1>4 DEF Release, Submit, Watch, Cancel, Deliver, SaveProjection, Take, Finish, User,
       SendChat, StartOperation, StopChat, NewChat, Close, Start, guiVars
  <2>. QED
    BY <1>q, <2>1, <2>2
<1>5. CASE Exit \/ Crash
  <2>1. journal' = journal /\ queue' = <<>>
    BY <1>5 DEF Exit, Crash, Forget, disk
  <2>2. \A t \in Thread : emitting'[t] = None /\ ~written'[t]
    BY <1>5 DEF Exit, Crash, Forget
  <2>3. Locked'
    BY <2>2 DEF Locked
  <2>4. ChainHolds'
    BY <2>1 DEF ChainHolds
  <2>. QED
    BY <2>3, <2>4
<1>. QED
  BY <1>1, <1>2, <1>3, <1>4, <1>5 DEF Next, UiStep, WorkerStep, Emission

\* What a new workspace has: no journal, no task.
LEMMA InvInit == Init => IInv
<1>. SUFFICES ASSUME Init PROVE IInv
  OBVIOUS
<1>1. Typed
  BY Tuples DEF Init, Typed
<1>2. /\ \A t \in Thread : script[t] = <<>> /\ emitting[t] = None /\ ~written[t]
      /\ journal = <<>> /\ \A k \in Task : future[k] = "none" /\ Unused(k)
      /\ watched = {} /\ active = None
  BY DEF Init, Unused
<1>3. \A what, k : IndexOf(what, k) = {}
  BY <1>2 DEF IndexOf
<1>4. \A t \in Thread : \A k : Pending(t, k) = {}
  BY <1>2 DEF Pending, Open
<1>5. Shape /\ Emits /\ Gone /\ OneRunning
  BY <1>2 DEF Init, Shape, UiShape, Reporting, Emits, Gone, OneRunning, Thread
<1>6. Once /\ Futures /\ Releases
  BY <1>2, <1>3, <1>4 DEF Once, Futures, Releases, Said, Begun, Watches, Thread, Task
<1>7. Settled /\ TurnsDoNotOverlap
  BY <1>3 DEF Settled, TurnsDoNotOverlap
<1>. QED
  BY <1>1, <1>5, <1>6, <1>7 DEF IInv

\* The invariant, for every behaviour of the threads (controller.py).
THEOREM Inductive == Spec => []IInv
<1>1. IInv /\ [Next]_guiVars => IInv'
  <2>. SUFFICES ASSUME IInv, [Next]_guiVars PROVE IInv'
    OBVIOUS
  <2>1. Typed' /\ Shape' /\ Emits' /\ Gone' /\ OneRunning'
    BY TypedStep, ShapeStep, EmitsStep, GoneStep, OneRunningStep DEF IInv
  <2>2. Once' /\ Releases'
    BY <2>1, EndsStep
  <2>. QED
    BY <2>1, <2>2, FuturesStep, SettledStep, PairsStep DEF IInv
<1>. QED
  BY InvInit, <1>1, PTL DEF Spec

(***************************************************************************)
(* However the Tk thread and the worker interleave, whatever is stopped or *)
(* closed and whenever a process is lost, each turn has its end recorded   *)
(* once, and before the next one is begun unless the session was opened    *)
(* anew (_start_chat_operation, _chat_done, stop_chat, close).             *)
(***************************************************************************)
THEOREM NoOverlap == Spec => []TurnsDoNotOverlap
<1>1. IInv => TurnsDoNotOverlap
  BY DEF IInv
<1>. QED
  BY Inductive, <1>1, PTL

\* Whatever the two threads emit at the same time, the journal stays a chain that
\* the next process can read, and holds every event before it can be shown
\* (_publish, GuiEventJournal.append, AgentEventBus).
THEOREM JournalIsChain == Spec => []ChainHolds
<1>1. Init => Locked /\ ChainHolds
  BY DEF Init, Locked, ChainHolds
<1>2. IInv /\ IInv' /\ Locked /\ ChainHolds /\ [Next]_guiVars => Locked' /\ ChainHolds'
  BY ChainStep DEF IInv, CInv
<1>. QED
  BY Inductive, <1>1, <1>2, PTL DEF Spec

(***************************************************************************)
(* What the window shows.  A view after events is computed by recursion    *)
(* over their number; what holds of it is shown from the least number at   *)
(* which it would fail (Reaches).                                          *)
(***************************************************************************)
\* The messages of a chat, and the views that have them.
Role == Outcome \cup {"user"}
Message == [task : Task \cup {None}, role : Role]
View ==
  {v \in [chat : {"idle", "running", "stopping"}, messages : Seq(Message), start : Nat,
          running : SUBSET (Task \cup {None})] : v.start <= Len(v.messages)}

\* The message of task k in role r, those of the first n events, and the question of
\* k before every message that ends it.
Line(k, r) == [task |-> k, role |-> r]
Lines(s, n) == {Line(s[i].task, s[i].kind) : i \in {j \in 1..n : s[j].kind \in Role}}
Follows(s, k, r) ==
  \A i, j \in DOMAIN s : s[i] = Line(k, "user") /\ s[j] = Line(k, r) => i < j

-----------------------------------------------------------------------------
\* A set of numbers from m to n that has m, and with a number the next one, has n:
\* otherwise there would be a least number that it lacks.
LEMMA Reaches ==
  ASSUME NEW m \in Nat, NEW n \in Nat, m <= n, NEW G, m \in G,
         \A i \in (m + 1)..n : i - 1 \in G => i \in G
  PROVE  \A i \in m..n : i \in G
<1>. DEFINE Bad == {i \in m..n : i \notin G}
<1>. SUFFICES ASSUME Bad # {} PROVE FALSE
  OBVIOUS
<1>1. Bad \in SUBSET Nat
  OBVIOUS
<1>2. PICK i \in Bad : \A j \in Bad : ~(<<j, i>> \in OpToRel(<, Nat))
  BY <1>1, NatLessThanWellFounded, WFMin
<1>3. \A j \in Bad : ~(j < i)
  BY <1>1, <1>2 DEF OpToRel
<1>4. i \in m..n /\ i \notin G /\ i # m
  BY <1>2
<1>5. i - 1 \in m..n /\ i - 1 \notin G /\ i - 1 < i
  BY <1>4
<1>. QED
  BY <1>3, <1>5

\* The view after the first n events is a function of n.
LEMMA AfterExists ==
  ASSUME NEW v, NEW s, Len(s) \in Nat
  PROVE  \E g : g = [n \in 0..Len(s) |-> IF n = 0 THEN v ELSE Reduce(g[n - 1], s[n])]
<1>. DEFINE Steps(g, k) == g = [n \in 0..k |-> IF n = 0 THEN v ELSE Reduce(g[n - 1], s[n])]
            G == {k \in 0..Len(s) : \E g : Steps(g, k)}
<1>1. 0 \in G
  <2>. DEFINE g == [n \in 0..0 |-> v]
  <2>1. Steps(g, 0)
    OBVIOUS
  <2>. HIDE DEF g, Steps
  <2>. QED
    BY <2>1
<1>2. ASSUME NEW k \in (0 + 1)..Len(s), k - 1 \in G PROVE k \in G
  <2>1. PICK g : Steps(g, k - 1)
    BY <1>2
  <2>. DEFINE h == [n \in 0..k |-> IF n = k THEN Reduce(g[k - 1], s[k]) ELSE g[n]]
              Next_h == [n \in 0..k |-> IF n = 0 THEN v ELSE Reduce(h[n - 1], s[n])]
  <2>2. \A n \in 0..(k - 1) : h[n] = g[n]
    OBVIOUS
  <2>3. \A n \in 0..(k - 1) : g[n] = IF n = 0 THEN v ELSE Reduce(g[n - 1], s[n])
    BY <2>1
  <2>4. ASSUME NEW n \in 0..k PROVE h[n] = IF n = 0 THEN v ELSE Reduce(h[n - 1], s[n])
    <3>1. CASE n = k
      <4>1. h[n] = Reduce(g[k - 1], s[k]) /\ h[k - 1] = g[k - 1] /\ n # 0
        BY <2>2, <3>1
      <4>. HIDE DEF h
      <4>. QED
        BY <3>1, <4>1
    <3>2. CASE n # k
      <4>1. n \in 0..(k - 1) /\ (n # 0 => n - 1 \in 0..(k - 1))
        BY <3>2
      <4>. HIDE DEF h
      <4>. QED
        BY <2>2, <2>3, <4>1
    <3>. QED
      BY <3>1, <3>2
  <2>5. h = Next_h
    <3>1. DOMAIN h = DOMAIN Next_h /\ \A n \in 0..k : h[n] = Next_h[n]
      BY <2>4
    <3>. QED
      BY <3>1
  <2>. HIDE DEF h
  <2>6. Steps(h, k)
    BY <2>5
  <2>. QED
    BY <2>6
<1>. HIDE DEF G
<1>3. \A k \in 0..Len(s) : k \in G
  <2>1. \A i \in (0 + 1)..Len(s) : i - 1 \in G => i \in G
    BY <1>2
  <2>2. 0 \in Nat /\ 0 <= Len(s)
    OBVIOUS
  <2>. QED
    BY <1>1, <2>1, <2>2, Reaches
<1>. QED
  BY <1>3 DEF G

\* After is the last of the views, each the reduction of the one before it.
LEMMA AfterIs ==
  ASSUME NEW v, NEW s, Len(s) \in Nat
  PROVE  \E g : /\ g[0] = v /\ g[Len(s)] = After(v, s)
                /\ \A n \in 1..Len(s) : g[n] = Reduce(g[n - 1], s[n])
<1>. DEFINE g == CHOOSE f : f = [n \in 0..Len(s) |->
                          IF n = 0 THEN v ELSE Reduce(f[n - 1], s[n])]
<1>1. g = [n \in 0..Len(s) |-> IF n = 0 THEN v ELSE Reduce(g[n - 1], s[n])]
  BY AfterExists
<1>2. After(v, s) = g[Len(s)]
  BY DEF After
<1>. HIDE DEF g
<1>3. g[0] = v /\ \A n \in 1..Len(s) : g[n] = Reduce(g[n - 1], s[n])
  BY <1>1
<1>. QED
  BY <1>2, <1>3

\* An event adds its message to the view, and only a turn that finishes makes it idle.
LEMMA ReduceIs ==
  ASSUME NEW v \in View, NEW e \in Event
  PROVE  /\ Reduce(v, e) \in View
         /\ e.kind \in Role =>
              Reduce(v, e).messages = Append(v.messages, Line(e.task, e.kind))
         /\ e.kind \notin Role => Reduce(v, e).messages = v.messages
         /\ Reduce(v, e).chat = "idle" =>
              e.kind = "finished" \/ (v.chat = "idle" /\ e.kind # "started")
<1>1. /\ e.kind \in EventKind /\ e.task \in Task \cup {None}
      /\ v.messages \in Seq(Message) /\ v.start \in Nat /\ v.start <= Len(v.messages)
      /\ v.running \subseteq Task \cup {None} /\ v.chat \in {"idle", "running", "stopping"}
      /\ v = [chat |-> v.chat, messages |-> v.messages, start |-> v.start,
              running |-> v.running]
  BY DEF View, Event
<1>2. CASE e.kind \in Role
  <2>1. Line(e.task, e.kind) \in Message
    BY <1>1, <1>2 DEF Line, Message, Role
  <2>. DEFINE q == Append(v.messages, Line(e.task, e.kind))
  <2>2. q \in Seq(Message) /\ Len(q) = Len(v.messages) + 1 /\ Len(v.messages) \in Nat
    BY <1>1, <2>1
  <2>3. Reduce(v, e) = [v EXCEPT !.messages = q]
    BY <1>2 DEF Reduce, Line, Role, Outcome
  <2>. HIDE DEF q
  <2>4. /\ Reduce(v, e) = [chat |-> v.chat, messages |-> q, start |-> v.start,
                            running |-> v.running]
    BY <1>1, <2>3
  <2>5. Reduce(v, e) \in View
    BY <1>1, <2>2, <2>4 DEF View
  <2>. QED
    BY <1>2, <2>4, <2>5 DEF q, Role, Outcome
<1>3. CASE e.kind \in {"begun", "done"}
  <2>1. PICK S \in SUBSET (Task \cup {None}) : Reduce(v, e) = [v EXCEPT !.running = S]
    <3>1. CASE e.kind = "begun"
      <4>1. v.running \cup {e.task} \in SUBSET (Task \cup {None})
        BY <1>1
      <4>2. Reduce(v, e) = [v EXCEPT !.running = v.running \cup {e.task}]
        BY <3>1 DEF Reduce, Outcome
      <4>. QED
        BY <4>1, <4>2
    <3>2. CASE e.kind = "done"
      <4>1. v.running \ {e.task} \in SUBSET (Task \cup {None})
        BY <1>1
      <4>2. Reduce(v, e) = [v EXCEPT !.running = v.running \ {e.task}]
        BY <3>2 DEF Reduce, Outcome
      <4>. QED
        BY <4>1, <4>2
    <3>. QED
      BY <1>3, <3>1, <3>2
  <2>2. Reduce(v, e) = [chat |-> v.chat, messages |-> v.messages, start |-> v.start,
                        running |-> S]
    BY <1>1, <2>1
  <2>3. Reduce(v, e) \in View
    BY <1>1, <2>2 DEF View
  <2>. QED
    BY <1>3, <2>2, <2>3 DEF Role, Outcome
<1>4. CASE e.kind \in {"started", "stop", "finished"}
  <2>1. PICK c \in {"idle", "running", "stopping"} :
          Reduce(v, e) = [v EXCEPT !.chat = c] /\ (c = "idle" => e.kind = "finished")
    BY <1>4 DEF Reduce, Outcome
  <2>2. Reduce(v, e) = [chat |-> c, messages |-> v.messages, start |-> v.start,
                        running |-> v.running]
    BY <1>1, <2>1
  <2>3. Reduce(v, e) \in View
    BY <1>1, <2>2 DEF View
  <2>. QED
    BY <1>4, <2>1, <2>2, <2>3 DEF Role, Outcome
<1>5. CASE e.kind = "cleared"
  <2>1. Reduce(v, e) = [v EXCEPT !.start = Len(v.messages)]
    BY <1>5 DEF Reduce, Outcome
  <2>2. Len(v.messages) \in Nat
    BY <1>1
  <2>3. Reduce(v, e) = [chat |-> v.chat, messages |-> v.messages, start |-> Len(v.messages),
                        running |-> v.running]
    BY <1>1, <2>1
  <2>4. Reduce(v, e) \in View
    BY <1>1, <2>2, <2>3 DEF View
  <2>. QED
    BY <1>5, <2>3, <2>4 DEF Role, Outcome
<1>6. CASE e.kind \in {"opened", "closed"}
  <2>1. Reduce(v, e) = v
    BY <1>6 DEF Reduce, Outcome
  <2>. QED
    BY <1>6, <2>1 DEF Role, Outcome
<1>. QED
  BY <1>1, <1>2, <1>3, <1>4, <1>5, <1>6 DEF EventKind, Role, Outcome

\* What a view has after the first n events.
LEMMA LinesNext ==
  ASSUME NEW s \in Seq(Event), NEW n \in 1..Len(s)
  PROVE  Lines(s, n) = Lines(s, n - 1) \cup
           (IF s[n].kind \in Role THEN {Line(s[n].task, s[n].kind)} ELSE {})
<1>1. \A j : j \in 1..n <=> j \in 1..(n - 1) \/ j = n
  OBVIOUS
<1>. QED
  BY <1>1 DEF Lines

\* A view after events: its messages are those it had and those of the events.
LEMMA AfterShows ==
  ASSUME NEW v \in View, NEW s \in Seq(Event)
  PROVE  \E g :
         /\ g[0] = v /\ g[Len(s)] = After(v, s)
         /\ \A n \in 1..Len(s) : s[n] \in Event /\ g[n] = Reduce(g[n - 1], s[n])
         /\ \A n \in 0..Len(s) :
              g[n] \in View /\ ToSet(g[n].messages) = ToSet(v.messages) \cup Lines(s, n)
<1>1. Len(s) \in Nat /\ \A n \in 1..Len(s) : s[n] \in Event
  OBVIOUS
<1>2. PICK g : /\ g[0] = v /\ g[Len(s)] = After(v, s)
               /\ \A n \in 1..Len(s) : g[n] = Reduce(g[n - 1], s[n])
  BY <1>1, AfterIs
<1>. DEFINE G == {n \in 0..Len(s) : /\ g[n] \in View
                 /\ ToSet(g[n].messages) = ToSet(v.messages) \cup Lines(s, n)}
<1>3. 0 \in G
  <2>1. Lines(s, 0) = {}
    BY DEF Lines
  <2>. QED
    BY <1>1, <1>2, <2>1
<1>4. ASSUME NEW n \in (0 + 1)..Len(s), n - 1 \in G PROVE n \in G
  <2>1. /\ n \in 1..Len(s) /\ s[n] \in Event /\ g[n - 1] \in View
        /\ g[n] = Reduce(g[n - 1], s[n])
        /\ ToSet(g[n - 1].messages) = ToSet(v.messages) \cup Lines(s, n - 1)
    BY <1>1, <1>2, <1>4
  <2>2. g[n - 1].messages \in Seq(Message)
    BY <2>1 DEF View
  <2>3. ASSUME s[n].kind \in Role
        PROVE  ToSet(g[n].messages) =
                 ToSet(g[n - 1].messages) \cup {Line(s[n].task, s[n].kind)}
    <3>. DEFINE q == g[n - 1].messages
                e == Line(s[n].task, s[n].kind)
    <3>1. e \in Message
      BY <2>1, <2>3 DEF Line, Message, Role, Event
    <3>2. g[n].messages = Append(q, e)
      <4>1. Reduce(g[n - 1], s[n]).messages = Append(q, e)
        BY <2>1, <2>3, ReduceIs
      <4>. QED
        BY <2>1, <4>1
    <3>. HIDE DEF q, e
    <3>3. /\ DOMAIN q = 1..Len(q) /\ Len(q) \in Nat
          /\ DOMAIN Append(q, e) = 1..(Len(q) + 1)
          /\ \A i \in DOMAIN q : Append(q, e)[i] = q[i]
          /\ Append(q, e)[Len(q) + 1] = e
      BY <2>2, <3>1 DEF q
    <3>4. ToSet(Append(q, e)) = ToSet(q) \cup {e}
      BY <3>3 DEF ToSet
    <3>. QED
      BY <3>2, <3>4 DEF q, e
  <2>4. s[n].kind \notin Role => g[n].messages = g[n - 1].messages
    <3>1. s[n].kind \notin Role => Reduce(g[n - 1], s[n]).messages = g[n - 1].messages
      BY <2>1, ReduceIs
    <3>. QED
      BY <2>1, <3>1
  <2>5. g[n] \in View
    BY <2>1, ReduceIs
  <2>6. ToSet(g[n].messages) = ToSet(v.messages) \cup Lines(s, n)
    BY <2>1, <2>3, <2>4, LinesNext
  <2>. QED
    BY <2>1, <2>5, <2>6
<1>. HIDE DEF G
<1>5. \A n \in 0..Len(s) : n \in G
  <2>1. \A n \in (0 + 1)..Len(s) : n - 1 \in G => n \in G
    BY <1>4
  <2>2. 0 \in Nat /\ 0 <= Len(s)
    BY <1>1
  <2>. QED
    BY <1>1, <1>3, <2>1, <2>2, Reaches
<1>. QED
  BY <1>1, <1>2, <1>5 DEF G

\* A chat that was started, or was not idle, is not idle before a turn finishes.
LEMMA AfterBusy ==
  ASSUME NEW v \in View, NEW s \in Seq(Event),
         \/ \E i \in DOMAIN s : /\ s[i].kind = "started"
                               /\ \A j \in DOMAIN s : s[j].kind = "finished" => j < i
         \/ v.chat # "idle" /\ \A j \in DOMAIN s : s[j].kind # "finished"
  PROVE  After(v, s).chat # "idle"
<1>1. PICK g : /\ g[0] = v /\ g[Len(s)] = After(v, s)
               /\ \A n \in 1..Len(s) : s[n] \in Event /\ g[n] = Reduce(g[n - 1], s[n])
               /\ \A n \in 0..Len(s) : g[n] \in View
  BY AfterShows
<1>2. Len(s) \in Nat /\ DOMAIN s = 1..Len(s)
  OBVIOUS
<1>3. PICK m \in 0..Len(s) : /\ g[m].chat # "idle"
                             /\ \A j \in (m + 1)..Len(s) : s[j].kind # "finished"
  <2>1. CASE v.chat # "idle" /\ \A j \in DOMAIN s : s[j].kind # "finished"
    BY <1>1, <1>2, <2>1
  <2>2. ASSUME NEW i \in DOMAIN s, s[i].kind = "started",
               \A j \in DOMAIN s : s[j].kind = "finished" => j < i
        PROVE  i \in 0..Len(s) /\ g[i].chat # "idle"
               /\ \A j \in (i + 1)..Len(s) : s[j].kind # "finished"
    <3>1. i \in 1..Len(s) /\ i - 1 \in 0..Len(s)
      BY <1>2, <2>2
    <3>2. Reduce(g[i - 1], s[i]).chat # "idle"
      BY <1>1, <2>2, <3>1, ReduceIs
    <3>3. \A j \in (i + 1)..Len(s) : s[j].kind # "finished"
      <4>. SUFFICES ASSUME NEW j \in (i + 1)..Len(s), s[j].kind = "finished" PROVE FALSE
        OBVIOUS
      <4>1. j \in DOMAIN s /\ ~(j < i)
        BY <1>2, <3>1
      <4>. QED
        BY <2>2, <4>1
    <3>. QED
      BY <1>1, <3>1, <3>2, <3>3
  <2>. QED
    BY <2>1, <2>2
<1>. DEFINE G == {n \in m..Len(s) : g[n].chat # "idle"}
<1>4. m \in G
  BY <1>2, <1>3
<1>5. ASSUME NEW n \in (m + 1)..Len(s), n - 1 \in G PROVE n \in G
  <2>1. n \in 1..Len(s) /\ n - 1 \in 0..Len(s) /\ n \in m..Len(s)
    BY <1>2
  <2>2. g[n - 1].chat # "idle" /\ s[n].kind # "finished"
    BY <1>3, <1>5
  <2>3. Reduce(g[n - 1], s[n]).chat # "idle"
    BY <1>1, <2>1, <2>2, ReduceIs
  <2>. QED
    BY <1>1, <2>1, <2>3
<1>. HIDE DEF G
<1>6. \A n \in m..Len(s) : n \in G
  BY <1>2, <1>4, <1>5, Reaches
<1>. QED
  BY <1>1, <1>2, <1>6 DEF G

\* A view keeps the order of a question and its end, when the events have them in it.
LEMMA AfterFollows ==
  ASSUME NEW v \in View, NEW s \in Seq(Event), NEW k, NEW r \in Outcome,
         Follows(v.messages, k, r),
         \A i \in DOMAIN s : s[i].kind = "user" /\ s[i].task = k =>
           /\ Line(k, r) \notin ToSet(v.messages)
           /\ \A j \in DOMAIN s : s[j].kind = r /\ s[j].task = k => i < j
  PROVE  Follows(After(v, s).messages, k, r)
<1>1. PICK g : /\ g[0] = v /\ g[Len(s)] = After(v, s)
               /\ \A n \in 1..Len(s) : s[n] \in Event /\ g[n] = Reduce(g[n - 1], s[n])
               /\ \A n \in 0..Len(s) :
                    g[n] \in View /\ ToSet(g[n].messages) = ToSet(v.messages) \cup Lines(s, n)
  BY AfterShows
<1>2. Len(s) \in Nat /\ DOMAIN s = 1..Len(s)
  OBVIOUS
<1>. DEFINE G == {n \in 0..Len(s) : Follows(g[n].messages, k, r)}
<1>3. 0 \in G
  BY <1>1, <1>2
<1>4. ASSUME NEW n \in (0 + 1)..Len(s), n - 1 \in G PROVE n \in G
  <2>1. /\ n \in 1..Len(s) /\ n - 1 \in 0..Len(s) /\ n \in 0..Len(s)
        /\ g[n - 1] \in View /\ s[n] \in Event /\ g[n] = Reduce(g[n - 1], s[n])
        /\ Follows(g[n - 1].messages, k, r)
    BY <1>1, <1>2, <1>4
  <2>. DEFINE q == g[n - 1].messages
              e == Line(s[n].task, s[n].kind)
  <2>2. CASE s[n].kind \notin Role
    <3>1. Reduce(g[n - 1], s[n]).messages = g[n - 1].messages
      BY <2>1, <2>2, ReduceIs
    <3>. QED
      BY <2>1, <3>1
  <2>3. CASE s[n].kind \in Role
    <3>1. Reduce(g[n - 1], s[n]).messages = Append(q, e)
      BY <2>1, <2>3, ReduceIs
    <3>2. e \in Message
      BY <2>1, <2>3 DEF Line, Message, Role, Event
    <3>3. q \in Seq(Message)
      BY <2>1 DEF View
    <3>4. e = Line(k, "user") => Line(k, r) \notin ToSet(q)
      <4>. SUFFICES ASSUME e = Line(k, "user"), Line(k, r) \in ToSet(q) PROVE FALSE
        OBVIOUS
      <4>1. s[n].kind = "user" /\ s[n].task = k /\ n \in DOMAIN s
        BY <1>2, <2>1 DEF Line
      <4>2. Line(k, r) \in Lines(s, n - 1)
        BY <1>1, <2>1, <4>1
      <4>3. PICK j \in 1..(n - 1) : Line(s[j].task, s[j].kind) = Line(k, r)
        BY <4>2 DEF Lines
      <4>4. s[j].kind = r /\ s[j].task = k /\ j \in DOMAIN s /\ ~(n < j)
        BY <1>2, <2>1, <4>3 DEF Line
      <4>. QED
        BY <4>1, <4>4
    <3>. HIDE DEF q, e
    <3>5. /\ DOMAIN q = 1..Len(q) /\ Len(q) \in Nat
          /\ DOMAIN Append(q, e) = 1..(Len(q) + 1)
          /\ \A i \in DOMAIN q : Append(q, e)[i] = q[i]
          /\ Append(q, e)[Len(q) + 1] = e
      BY <3>2, <3>3
    <3>6. Follows(q, k, r)
      BY <2>1 DEF q
    <3>7. ASSUME NEW i \in 1..(Len(q) + 1), NEW j \in 1..(Len(q) + 1),
                 Append(q, e)[i] = Line(k, "user"), Append(q, e)[j] = Line(k, r)
          PROVE  i < j
      <4>1. CASE i \in 1..Len(q) /\ j \in 1..Len(q)
        BY <3>5, <3>6, <3>7, <4>1 DEF Follows
      <4>2. CASE i = Len(q) + 1
        <5>1. e = Line(k, "user")
          BY <3>5, <3>7, <4>2
        <5>2. e # Line(k, r)
          BY <5>1 DEF Line, Outcome
        <5>3. j \in DOMAIN q /\ q[j] = Line(k, r)
          BY <3>5, <3>7, <5>2
        <5>. QED
          BY <3>4, <5>1, <5>3 DEF ToSet
      <4>3. CASE i \in 1..Len(q) /\ j = Len(q) + 1
        BY <3>5, <4>3
      <4>. QED
        BY <3>5, <4>1, <4>2, <4>3
    <3>8. Follows(Append(q, e), k, r)
      BY <3>5, <3>7 DEF Follows
    <3>. QED
      BY <2>1, <3>1, <3>8 DEF q, e
  <2>. QED
    BY <2>2, <2>3
<1>. HIDE DEF G
<1>5. \A n \in 0..Len(s) : n \in G
  <2>1. \A n \in (0 + 1)..Len(s) : n - 1 \in G => n \in G
    BY <1>4
  <2>2. 0 \in Nat /\ 0 <= Len(s)
    BY <1>2
  <2>. QED
    BY <1>2, <1>3, <2>1, <2>2, Reaches
<1>. QED
  BY <1>1, <1>2, <1>5 DEF G

\* What is told of the first n messages is a function of n.
LEMMA ToldExists ==
  ASSUME NEW q, NEW b, b \in Nat, Len(q) \in Nat, b <= Len(q)
  PROVE  \E g : g = [n \in b..Len(q) |->
           IF n = b THEN <<>> ELSE Tell(g[n - 1], q[n])]
<1>. DEFINE Steps(g, k) == g = [n \in b..k |-> IF n = b THEN <<>> ELSE Tell(g[n - 1], q[n])]
            G == {k \in b..Len(q) : \E g : Steps(g, k)}
<1>1. b \in G
  <2>. DEFINE g == [n \in b..b |-> <<>>]
  <2>1. Steps(g, b)
    OBVIOUS
  <2>. HIDE DEF g, Steps
  <2>. QED
    BY <2>1
<1>2. ASSUME NEW k \in (b + 1)..Len(q), k - 1 \in G PROVE k \in G
  <2>1. PICK g : Steps(g, k - 1)
    BY <1>2
  <2>. DEFINE h == [n \in b..k |-> IF n = k THEN Tell(g[k - 1], q[k]) ELSE g[n]]
              Next_h == [n \in b..k |-> IF n = b THEN <<>> ELSE Tell(h[n - 1], q[n])]
  <2>2. \A n \in b..(k - 1) : h[n] = g[n]
    OBVIOUS
  <2>3. \A n \in b..(k - 1) : g[n] = IF n = b THEN <<>> ELSE Tell(g[n - 1], q[n])
    BY <2>1
  <2>4. ASSUME NEW n \in b..k PROVE h[n] = IF n = b THEN <<>> ELSE Tell(h[n - 1], q[n])
    <3>1. CASE n = k
      <4>1. h[n] = Tell(g[k - 1], q[k]) /\ h[k - 1] = g[k - 1] /\ n # b
        BY <2>2, <3>1
      <4>. HIDE DEF h
      <4>. QED
        BY <3>1, <4>1
    <3>2. CASE n # k
      <4>1. n \in b..(k - 1) /\ (n # b => n - 1 \in b..(k - 1))
        BY <3>2
      <4>. HIDE DEF h
      <4>. QED
        BY <2>2, <2>3, <4>1
    <3>. QED
      BY <3>1, <3>2
  <2>5. h = Next_h
    <3>1. DOMAIN h = DOMAIN Next_h /\ \A n \in b..k : h[n] = Next_h[n]
      BY <2>4
    <3>. QED
      BY <3>1
  <2>. HIDE DEF h
  <2>6. Steps(h, k)
    BY <2>5
  <2>. QED
    BY <2>6
<1>. HIDE DEF G
<1>3. Len(q) \in G
  <2>1. \A i \in (b + 1)..Len(q) : i - 1 \in G => i \in G
    BY <1>2
  <2>2. \A i \in b..Len(q) : i \in G
    BY <1>1, <2>1, Reaches
  <2>. QED
    BY <2>2
<1>. QED
  BY <1>3 DEF G

\* The last of them is what is told, each after the one before it.
LEMMA ToldIs ==
  ASSUME NEW q, NEW b, b \in Nat, Len(q) \in Nat, b <= Len(q)
  PROVE  \E g : /\ g[b] = <<>> /\ g[Len(q)] = Exchanged(q, b)
               /\ \A n \in (b + 1)..Len(q) :
                    g[n] = Tell(g[n - 1], q[n])
<1>. DEFINE g == CHOOSE f : f = [n \in b..Len(q) |->
                   IF n = b THEN <<>> ELSE Tell(f[n - 1], q[n])]
<1>1. g = [n \in b..Len(q) |->
             IF n = b THEN <<>> ELSE Tell(g[n - 1], q[n])]
  <2>1. \E f : f = [n \in b..Len(q) |->
                   IF n = b THEN <<>> ELSE Tell(f[n - 1], q[n])]
    BY ToldExists
  <2>. QED
    BY <2>1
<1>2. Exchanged(q, b) = g[Len(q)]
  BY DEF Exchanged
<1>. HIDE DEF g
<1>3. g[b] = <<>>
  BY <1>1
<1>4. ASSUME NEW n \in (b + 1)..Len(q)
      PROVE  g[n] = Tell(g[n - 1], q[n])
  <2>1. n \in b..Len(q) /\ n # b
    OBVIOUS
  <2>. QED
    BY <1>1, <2>1
<1>. QED
  BY <1>2, <1>3, <1>4

\* A turn is told the questions and answers shown since the context was cleared.
LEMMA HistoryIs ==
  ASSUME view \in View
  PROVE  ToSet(ChatHistory) =
           {view.messages[i] : i \in {j \in (view.start + 1)..Len(view.messages) :
              view.messages[j].role \in {"user", "assistant"}}}
<1>. DEFINE q == view.messages
            b == view.start
            c == Len(q)
            Heard(n) == {q[i] : i \in {j \in (b + 1)..n : q[j].role \in {"user", "assistant"}}}
<1>1. q \in Seq(Message) /\ b \in Nat /\ c \in Nat /\ b <= c
  BY DEF View
<1>2. PICK g : /\ g[b] = <<>> /\ g[c] = Exchanged(q, b)
               /\ \A n \in (b + 1)..c :
                    g[n] = Tell(g[n - 1], q[n])
  <2>. HIDE DEF q, b
  <2>. QED
    BY <1>1, ToldIs
<1>3. ChatHistory = g[c]
  BY <1>2 DEF ChatHistory
<1>. HIDE DEF q, b, c
<1>. DEFINE G == {n \in b..c : g[n] \in Seq(Message) /\ ToSet(g[n]) = Heard(n)}
<1>5. b \in G
  <2>1. Heard(b) = {} /\ ToSet(g[b]) = {} /\ g[b] \in Seq(Message)
    BY <1>1, <1>2 DEF ToSet
  <2>. QED
    BY <1>1, <2>1
<1>6. ASSUME NEW n \in (b + 1)..c, n - 1 \in G PROVE n \in G
  <2>1. /\ n \in 1..c /\ n \in b..c /\ q[n] \in Message /\ g[n - 1] \in Seq(Message)
        /\ ToSet(g[n - 1]) = Heard(n - 1)
        /\ g[n] = Tell(g[n - 1], q[n])
    BY <1>1, <1>2, <1>6 DEF c
  <2>2. Heard(n) = Heard(n - 1) \cup
          (IF q[n].role \in {"user", "assistant"} THEN {q[n]} ELSE {})
    <3>1. \A j : j \in (b + 1)..n <=> j \in (b + 1)..(n - 1) \/ j = n
      BY <1>1
    <3>. QED
      BY <3>1
  <2>. HIDE DEF Heard
  <2>3. CASE q[n].role \in {"user", "assistant"}
    <3>. DEFINE p == g[n - 1]
                e == q[n]
    <3>1. g[n] = Append(p, e)
      BY <2>1, <2>3 DEF Tell
    <3>2. p \in Seq(Message) /\ e \in Message
      BY <2>1
    <3>. HIDE DEF p, e
    <3>3. /\ DOMAIN p = 1..Len(p) /\ Len(p) \in Nat
          /\ DOMAIN Append(p, e) = 1..(Len(p) + 1)
          /\ \A i \in DOMAIN p : Append(p, e)[i] = p[i]
          /\ Append(p, e)[Len(p) + 1] = e
          /\ Append(p, e) \in Seq(Message)
      BY <3>2
    <3>4. ToSet(Append(p, e)) = ToSet(p) \cup {e}
      BY <3>3 DEF ToSet
    <3>. QED
      BY <2>1, <2>2, <2>3, <3>1, <3>3, <3>4 DEF p, e
  <2>4. CASE q[n].role \notin {"user", "assistant"}
    BY <2>1, <2>2, <2>4 DEF Tell
  <2>. QED
    BY <2>3, <2>4
<1>. HIDE DEF G
<1>7. c \in G
  BY SMTT(60), <1>1, <1>5, <1>6, Reaches
<1>. QED
  BY <1>3, <1>7 DEF G, Heard, q, b, c

\* What is shown or saved is in the journal.
Shown ==
  /\ view \in View
  /\ ToSet(view.messages) \subseteq Recorded
  /\ projection # None =>
       /\ projection.view \in View /\ projection.count \in 0..Len(journal)
       /\ ToSet(projection.view.messages) \subseteq
            ToSet(Replay(SubSeq(journal, 1, projection.count)).messages)

\* A view after events has the messages of both.
LEMMA AfterHas ==
  ASSUME NEW v \in View, NEW s \in Seq(Event)
  PROVE  /\ After(v, s) \in View
         /\ ToSet(After(v, s).messages) = ToSet(v.messages) \cup Lines(s, Len(s))
<1>1. PICK g : /\ g[Len(s)] = After(v, s)
               /\ \A n \in 0..Len(s) :
                    g[n] \in View /\ ToSet(g[n].messages) = ToSet(v.messages) \cup Lines(s, n)
  BY AfterShows
<1>2. Len(s) \in 0..Len(s)
  OBVIOUS
<1>. QED
  BY <1>1, <1>2

\* A view replayed has the messages of the events, and no other.
LEMMA ReplayIs ==
  ASSUME NEW s \in Seq(Event)
  PROVE  Replay(s) \in View /\ ToSet(Replay(s).messages) = Lines(s, Len(s))
<1>1. EmptyView \in View /\ ToSet(EmptyView.messages) = {}
  BY DEF EmptyView, View, ToSet
<1>2. Len(s) \in Nat
  OBVIOUS
<1>. HIDE DEF EmptyView
<1>. QED
  BY <1>1, <1>2, AfterHas DEF Replay

\* A message is recorded when its event is in the journal.
LEMMA RecordedIs ==
  ASSUME journal \in Seq(Event)
  PROVE  /\ Replay(journal) \in View
         /\ Recorded = Lines(journal, Len(journal))
         /\ \A k, r : r \in Role => (Line(k, r) \in Recorded <=> IndexOf(r, k) # {})
         /\ \A e \in ToSet(journal) : e.kind \in Role => Line(e.task, e.kind) \in Recorded
<1>1. DOMAIN journal = 1..Len(journal)
  OBVIOUS
<1>2. Replay(journal) \in View /\ Recorded = Lines(journal, Len(journal))
  BY ReplayIs DEF Recorded
<1>3. \A k, r : r \in Role => (Line(k, r) \in Recorded <=> IndexOf(r, k) # {})
  BY <1>1, <1>2 DEF Lines, IndexOf, Line
<1>4. \A e \in ToSet(journal) : e.kind \in Role => Line(e.task, e.kind) \in Recorded
  BY <1>1, <1>2 DEF Lines, ToSet
<1>. QED
  BY <1>2, <1>3, <1>4

\* What the queue adds to the view is recorded.
LEMMA DeliverShows ==
  ASSUME Typed, ChainHolds, view \in View
  PROVE  /\ After(view, queue) \in View
         /\ ToSet(After(view, queue).messages) =
              ToSet(view.messages) \cup Lines(queue, Len(queue))
         /\ Lines(queue, Len(queue)) \subseteq Recorded
<1>1. /\ queue \in Seq(Event) /\ journal \in Seq(Event)
      /\ DOMAIN queue = 1..Len(queue) /\ Len(queue) \in Nat
  BY DEF Typed
<1>2. /\ After(view, queue) \in View
      /\ ToSet(After(view, queue).messages) = ToSet(view.messages) \cup Lines(queue, Len(queue))
  BY <1>1, AfterHas
<1>3. Lines(queue, Len(queue)) \subseteq Recorded
  BY <1>1, RecordedIs DEF Lines, ChainHolds
<1>. QED
  BY <1>2, <1>3

\* Every step keeps what is shown or saved in the journal.
LEMMA ShownStep ==
  ASSUME Typed, Typed', Emits, ChainHolds, Shown, [Next]_guiVars
  PROVE  Shown'
<1>. USE DEF disk, life, emit, work
<1>0. /\ journal \in Seq(Event) /\ journal' \in Seq(Event)
      /\ DOMAIN journal = 1..Len(journal) /\ Len(journal) \in Nat
  BY DEF Typed
<1>1. ASSUME UNCHANGED <<journal, projection, view>> PROVE Shown'
  BY <1>1 DEF Shown, Recorded
<1>2. ASSUME NEW t \in Thread, AppendEvent(t) PROVE Shown'
  <2>1. /\ journal' = Append(journal, emitting[t]) /\ projection' = projection /\ view' = view
        /\ emitting[t] \in Event
    BY <1>2 DEF AppendEvent, Typed
  <2>2. /\ Len(journal') = Len(journal) + 1
        /\ \A i \in 1..Len(journal) : journal'[i] = journal[i]
    BY <1>0, <2>1, AppendIs
  <2>3. Lines(journal, Len(journal)) \subseteq Lines(journal', Len(journal'))
    BY <1>0, <2>2 DEF Lines
  <2>4. Recorded \subseteq Recorded'
    <3>1. Recorded = Lines(journal, Len(journal))
      BY <1>0, RecordedIs
    <3>2. ToSet(Replay(journal').messages) = Lines(journal', Len(journal'))
      BY <1>0, ReplayIs
    <3>. QED
      BY <2>3, <3>1, <3>2 DEF Recorded
  <2>5. ASSUME NEW n \in 0..Len(journal)
        PROVE  n \in 0..Len(journal') /\ SubSeq(journal', 1, n) = SubSeq(journal, 1, n)
    <3>1. \A i \in 1..n : journal'[i] = journal[i]
      BY <1>0, <2>2
    <3>2. n \in 0..Len(journal')
      BY <1>0, <2>2
    <3>. QED
      BY <1>0, <3>1, <3>2, SubSeqProperties
  <2>. QED
    BY <2>1, <2>4, <2>5 DEF Shown
<1>3. CASE Deliver
  <2>1. /\ view' = After(view, queue) /\ journal' = journal /\ projection' = projection
    BY <1>3 DEF Deliver
  <2>2. Recorded' = Recorded
    BY <2>1 DEF Recorded
  <2>. QED
    BY <2>1, <2>2, DeliverShows DEF Shown
<1>4. CASE SaveProjection
  <2>1. /\ view' = view /\ journal' = journal
        /\ projection' = [count |-> Len(journal), view |-> view]
    BY <1>4 DEF SaveProjection
  <2>2. SubSeq(journal, 1, Len(journal)) = journal
    BY <1>0
  <2>3. /\ Recorded' = Recorded /\ view \in View
        /\ ToSet(view.messages) \subseteq Recorded
        /\ ToSet(view.messages) \subseteq ToSet(Replay(journal).messages)
    BY <2>1 DEF Recorded, Shown
  <2>4. projection'.view = view /\ projection'.count = Len(journal)
    BY <2>1
  <2>5. Len(journal) \in 0..Len(journal)
    BY <1>0
  <2>. QED
    BY <2>1, <2>2, <2>3, <2>4, <2>5 DEF Shown
<1>5. CASE Start
  <2>1. SubSeq(journal, 1, Len(journal)) = journal
    BY <1>0
  <2>2. journal' = journal /\ Recorded' = Recorded
    BY <1>5 DEF Start, Recorded
  <2>3. CASE Accepted
    <3>1. view' = projection.view /\ projection' = projection
      BY <1>5, <2>3 DEF Start
    <3>2. /\ projection.view \in View
          /\ ToSet(projection.view.messages) \subseteq Recorded
      BY <2>1, <2>3 DEF Accepted, Shown, Recorded
    <3>. QED
      BY <2>2, <3>1, <3>2 DEF Shown
  <2>4. CASE ~Accepted
    <3>1. /\ view' = Replay(journal)
          /\ projection' = [count |-> Len(journal), view |-> Replay(journal)]
      BY <1>5, <2>4 DEF Start
    <3>2. Replay(journal) \in View /\ ToSet(Replay(journal).messages) = Recorded
      BY <1>0, RecordedIs DEF Recorded
    <3>3. projection'.view = Replay(journal) /\ projection'.count = Len(journal)
      BY <3>1
    <3>4. Len(journal) \in 0..Len(journal)
      BY <1>0
    <3>. QED
      BY <2>1, <2>2, <3>1, <3>2, <3>3, <3>4 DEF Shown
  <2>. QED
    BY <2>3, <2>4
<1>6. CASE Exit \/ Crash
  <2>1. view' = EmptyView /\ journal' = journal /\ projection' = projection
    BY <1>6 DEF Exit, Crash, Forget
  <2>2. EmptyView \in View /\ ToSet(EmptyView.messages) = {}
    BY DEF EmptyView, View, ToSet
  <2>3. Recorded' = Recorded
    BY <2>1 DEF Recorded
  <2>. QED
    BY <2>1, <2>2, <2>3 DEF Shown
<1>7. ASSUME \/ \E t \in Thread : ReadHead(t) \/ PutEvent(t) \/ \E k \in Task : Release(t, k)
             \/ \E k \in Task : Submit(k) \/ Watch(k) \/ Cancel(k)
             \/ Take \/ \E k \in Task, how \in Outcome : Finish(k, how)
             \/ User \/ UNCHANGED guiVars
      PROVE  Shown'
  <2>1. UNCHANGED <<journal, projection, view>>
    BY <1>7 DEF ReadHead, PutEvent, Release, Submit, Watch, Cancel, Take, Finish, User,
       SendChat, StartOperation, StopChat, NewChat, Close, guiVars
  <2>. QED
    BY <1>1, <2>1
<1>. QED
  BY <1>2, <1>3, <1>4, <1>5, <1>6, <1>7 DEF Next, UiStep, WorkerStep, Emission, Thread

-----------------------------------------------------------------------------
\* What a living process recorded is shown, in the queue or about to be put there;
\* while it is still opening it has recorded nothing.
Reaching(e) == Line(e.task, e.kind) \in ToSet(view.messages) \/ UnderWay(e)
Current(i) == journal[i].kind \in Role /\ ~OpenedBetween(i, Len(journal))
Alive == Opening \/ \A i \in DOMAIN journal : Current(i) => Reaching(journal[i])

\* Every step keeps it: an event goes from the journal to the queue and from there to
\* the view, and a new process begins with its opening.
LEMMA AliveStep ==
  ASSUME Typed, Typed', Shape, Emits, Gone, ChainHolds, Shown, Alive, [Next]_guiVars
  PROVE  Alive'
<1>. USE DEF disk, life, emit, work
<1>0. /\ journal \in Seq(Event) /\ DOMAIN journal = 1..Len(journal) /\ Len(journal) \in Nat
      /\ "ui" \in Thread /\ queue \in Seq(Event)
      /\ \A t \in Thread : written[t] => emitting[t] # None
      /\ written \in [Thread -> BOOLEAN] /\ emitting \in [Thread -> Event \cup {None}]
  BY DEF Typed, Thread, Emits
<1>o. Opens => script["ui"] # <<>> /\ NextStep("ui") = <<"opened", None>>
  BY DEF Opens, NextStep
<1>1. ASSUME journal' = journal, Opening' \/ ~Opening,
             \A i \in DOMAIN journal : Reaching(journal[i]) => Reaching(journal[i])'
      PROVE  Alive'
  BY <1>1 DEF Alive, Current, OpenedBetween
<1>2. ASSUME view' = view, ToSet(queue) \subseteq ToSet(queue'),
             \A u \in Thread : written[u] =>
               \/ written'[u] /\ emitting'[u] = emitting[u]
               \/ emitting[u] \in ToSet(queue')
      PROVE  \A e : Reaching(e) => Reaching(e)'
  BY <1>2 DEF Reaching, UnderWay
<1>3. ASSUME NEW t \in Thread, AppendEvent(t) PROVE Alive'
  <2>. DEFINE e == emitting[t]
  <2>1. /\ journal' = Append(journal, e) /\ e \in Event /\ written' = [written EXCEPT ![t] = TRUE]
        /\ UNCHANGED <<view, queue, emitting, script, session>>
        /\ emitting[t] # None /\ ~written[t]
    BY <1>3 DEF AppendEvent, Typed
  <2>2. /\ Len(journal') = Len(journal) + 1 /\ DOMAIN journal' = 1..(Len(journal) + 1)
        /\ \A i \in 1..Len(journal) : journal'[i] = journal[i]
        /\ journal'[Len(journal) + 1] = e
    BY <1>0, <2>1, AppendIs
  <2>3. \A u \in Thread : written[u] => written'[u]
    BY <1>0, <2>1
  <2>4. \A x : Reaching(x) => Reaching(x)'
    BY <1>2, <2>1, <2>3
  <2>5. CASE Opening /\ ~Opening'
    <3>1. Opens /\ t = "ui"
      BY <1>0, <2>1, <2>5 DEF Opening, Opens
    <3>2. e.kind = "opened"
      BY <1>0, <1>o, <2>1, <3>1 DEF Emits
    <3>3. ASSUME NEW i \in DOMAIN journal' PROVE OpenedBetween(i, Len(journal))'
      <4>1. Len(journal) + 1 \in i..Len(journal') /\ journal'[Len(journal) + 1].kind = "opened"
        BY <1>0, <2>2, <3>2
      <4>. QED
        BY <4>1 DEF OpenedBetween
    <3>. QED
      BY <3>3 DEF Alive, Current
  <2>6. CASE ~Opening
    <3>. SUFFICES ASSUME NEW i \in DOMAIN journal', Current(i)' PROVE Reaching(journal[i])'
      BY DEF Alive
    <3>1. CASE i = Len(journal) + 1
      <4>1. written'[t] /\ emitting'[t] = journal'[i]
        BY <1>0, <2>1, <2>2, <3>1
      <4>. QED
        BY <4>1 DEF Reaching, UnderWay
    <3>2. CASE i \in 1..Len(journal)
      <4>1. Current(i)
        BY <1>0, <2>2, <3>2 DEF Current, OpenedBetween
      <4>2. Reaching(journal[i])
        BY <1>0, <2>6, <3>2, <4>1 DEF Alive
      <4>3. journal'[i] = journal[i]
        BY <2>2, <3>2
      <4>4. ASSUME NEW x, Reaching(x), journal'[i] = x PROVE Reaching(journal[i])'
        BY <2>4, <4>4 DEF Reaching, UnderWay
      <4>. QED
        BY <4>2, <4>3, <4>4
    <3>. QED
      BY <1>0, <2>2, <3>1, <3>2
  <2>7. CASE Opening'
    BY <2>7 DEF Alive
  <2>. QED
    BY <2>5, <2>6, <2>7
<1>4. ASSUME NEW t \in Thread, PutEvent(t) PROVE Alive'
  <2>1. /\ UNCHANGED <<journal, view, session>> /\ queue' = Append(queue, emitting[t])
        /\ emitting' = [emitting EXCEPT ![t] = None]
        /\ written' = [written EXCEPT ![t] = FALSE] /\ written[t]
        /\ script' = [script EXCEPT ![t] = Tail(@)]
    BY <1>4 DEF PutEvent, Skip
  <2>2. emitting[t] \in Event
    BY <1>0, <2>1
  <2>3. ToSet(queue) \subseteq ToSet(queue') /\ emitting[t] \in ToSet(queue')
    <3>1. /\ DOMAIN queue' = 1..(Len(queue) + 1) /\ DOMAIN queue = 1..Len(queue)
          /\ Len(queue) \in Nat /\ queue'[Len(queue) + 1] = emitting[t]
          /\ \A i \in DOMAIN queue : queue'[i] = queue[i]
      BY <1>0, <2>1, <2>2, AppendIs
    <3>2. Len(queue) + 1 \in DOMAIN queue' /\ DOMAIN queue \subseteq DOMAIN queue'
      BY <3>1
    <3>. QED
      BY <3>1, <3>2 DEF ToSet
  <2>4. \A x : Reaching(x) => Reaching(x)'
    BY <1>0, <1>2, <2>1, <2>3
  <2>5. Opening' \/ ~Opening
    <3>1. session # "down"
      BY <2>1 DEF Gone
    <3>2. CASE t = "ui"
      BY <2>1, <3>1, <3>2 DEF Opening
    <3>3. CASE t # "ui"
      BY <1>0, <2>1, <3>1, <3>3 DEF Opening, Opens, Typed
    <3>. QED
      BY <3>2, <3>3
  <2>. QED
    BY <1>1, <2>1, <2>4, <2>5
<1>5. CASE Deliver
  <2>1. /\ view' = After(view, queue) /\ queue' = <<>>
        /\ UNCHANGED <<journal, script, session, written, emitting>>
    BY <1>5 DEF Deliver
  <2>2. ToSet(view'.messages) = ToSet(view.messages) \cup Lines(queue, Len(queue))
    BY <2>1, DeliverShows DEF Shown
  <2>3. \A x \in ToSet(queue) : x.kind \in Role => Line(x.task, x.kind) \in Lines(queue, Len(queue))
    BY <1>0 DEF Lines, ToSet
  <2>4. \A x : x.kind \in Role /\ Reaching(x) => Reaching(x)'
    BY <2>1, <2>2, <2>3 DEF Reaching, UnderWay
  <2>5. Opening' <=> Opening
    BY <2>1 DEF Opening, Opens
  <2>. QED
    BY <2>1, <2>4, <2>5 DEF Alive, Current, OpenedBetween
<1>6. CASE Start
  <2>1. /\ script' = [script EXCEPT !["ui"] = <<<<"opened", None>>>>]
        /\ written' = written /\ session = "down"
    BY <1>6 DEF Start, Run
  <2>2. Opens' /\ ~written'["ui"]
    BY <1>0, <2>1 DEF Opens, Gone, Typed
  <2>. QED
    BY <2>2 DEF Alive, Opening
<1>7. CASE Exit \/ Crash
  BY <1>7 DEF Exit, Crash, Forget, Alive, Opening
<1>8. ASSUME UNCHANGED <<journal, view, queue, written>>,
             \A u \in Thread : written[u] => emitting'[u] = emitting[u],
             Opening' \/ ~Opening
      PROVE  Alive'
  BY <1>1, <1>2, <1>8
<1>9. ASSUME NEW t \in Thread, ReadHead(t) PROVE Alive'
  <2>1. UNCHANGED <<journal, view, queue, written, script, session>>
    BY <1>9 DEF ReadHead
  <2>2. \A u \in Thread : written[u] => emitting'[u] = emitting[u]
    BY <1>0, <1>9 DEF ReadHead
  <2>. QED
    BY <1>8, <2>1, <2>2 DEF Opening, Opens
<1>10. ASSUME \/ SaveProjection
              \/ \E t \in Thread, k \in Task : Release(t, k)
              \/ \E k \in Task : Submit(k) \/ Watch(k) \/ Cancel(k)
              \/ Take \/ \E k \in Task, how \in Outcome : Finish(k, how)
              \/ User \/ UNCHANGED guiVars
       PROVE  Alive'
  <2>1. UNCHANGED <<journal, view, queue, written, emitting>>
    BY <1>10 DEF SaveProjection, Release, Submit, Watch, Cancel, Take, Finish, User,
       SendChat, StartOperation, StopChat, NewChat, Close, guiVars
  <2>2. Opening' \/ ~Opening
    <3>1. CASE \/ SaveProjection \/ Take \/ UNCHANGED guiVars
      <4>1. script' = script
        BY <3>1 DEF SaveProjection, Take, guiVars
      <4>2. session = "down" => session' = "down"
        BY <3>1 DEF SaveProjection, Take, guiVars
      <4>. QED
        BY <2>1, <4>1, <4>2 DEF Opening, Opens
    <3>2. ASSUME NEW k \in Task, NEW how \in Outcome, Finish(k, how) PROVE Opening' \/ ~Opening
      <4>1. script'["ui"] = script["ui"] /\ session' = session
        BY <1>0, <3>2 DEF Finish, Run, Typed, Thread
      <4>. QED
        BY <2>1, <4>1 DEF Opening, Opens
    <3>3. ASSUME NEW t \in Thread, NEW k \in Task, Release(t, k) PROVE Opening' \/ ~Opening
      <4>1. session' = session /\ (t # "ui" => script'["ui"] = script["ui"])
        BY <1>0, <3>3 DEF Release, Skip, Typed
      <4>2. t = "ui" => ~Opens
        BY <1>0, <1>o, <3>3 DEF Release, Calls
      <4>. QED
        BY <2>1, <4>1, <4>2 DEF Opening, Opens
    <3>4. ASSUME NEW k \in Task, Submit(k) \/ Watch(k) \/ Cancel(k) PROVE Opening' \/ ~Opening
      <4>1. session' = session /\ ~Opens
        BY <1>0, <1>o, <3>4 DEF Submit, Watch, Cancel, Calls
      <4>. QED
        BY <4>1 DEF Opening
    <3>5. CASE User
      <4>1. UiFree
        BY <3>5 DEF User, SendChat, StartOperation, StopChat, NewChat, Close
      <4>2. ~Opening
        BY <1>0, <1>o, <4>1 DEF UiFree, Opening
      <4>. QED
        BY <4>2
    <3>. QED
      BY <1>10, <3>1, <3>2, <3>3, <3>4, <3>5
  <2>. QED
    BY <1>8, <2>1, <2>2
<1>. QED
  BY <1>3, <1>4, <1>5, <1>6, <1>7, <1>9, <1>10 DEF Next, UiStep, WorkerStep, Emission, Thread

-----------------------------------------------------------------------------
(***************************************************************************)
(* A turn is told whole exchanges.  While a turn has the controller, only  *)
(* its own end can come after its start in the queue, so the view that has *)
(* its question and not its end is not idle; what ends a turn is put in    *)
(* the queue before it is released; and so, when the next turn is asked,   *)
(* the view has the end of every question it shows.                        *)
(***************************************************************************)
\* Events of a task in the queue, and steps about it in a script.
Waiting(what, k) == {i \in DOMAIN queue : queue[i].kind = what /\ queue[i].task = k}
Left(t, what, k) == {i \in DOMAIN script[t] : script[t][i] = <<what, k>>}
InScript(what, k) == \E t \in Thread : Left(t, what, k) # {}

Here(k) == future[k] # "none"
Ended(k, r) == \/ future[k] = "cancelled" /\ r = "system"
               \/ future[k] = "returned" /\ k \in watched /\ r = outcome[k]
Delivered(k) ==
  IndexOf("finished", k) # {} /\ Waiting("finished", k) = {} /\ ~InScript("finished", k)
Shows(k, r) == Line(k, r) \in ToSet(view.messages)
Heard(t, k, r) == Line(k, r) \in ToSet(history[t])

\* A process that is down has no queue.
Empty == session = "down" => queue = <<>>

\* Nothing is said of a turn before it is asked, and it was not heard of.
Unasked ==
  \A k \in Turn : Unused(k) =>
    /\ \A r \in Role : IndexOf(r, k) = {} /\ ~InScript(r, k)
    /\ \A t \in DOMAIN history : ~Heard(t, k, "user")
    /\ k # active

\* While it is begun, its question is not shown and it has no end.
Beginning ==
  \A k \in Turn : script["ui"] \in Begun(k) =>
    /\ \A r \in Outcome : IndexOf(r, k) = {} /\ ~InScript(r, k)
    /\ ~Shows(k, "user")
    /\ \A t \in DOMAIN history : ~Heard(t, k, "user")

\* The message that ends a turn says how its future ended.
Endings ==
  \A k \in Turn, r \in Outcome :
    /\ InScript(r, k) => Ended(k, r)
    /\ IndexOf(r, k) # {} /\ Here(k) => Ended(k, r)

\* The end is left in one script, after its message and before the release, and not
\* in the queue any more.
Finishes ==
  \A k \in Turn :
    /\ \A t, u \in Thread : \A i \in Left(t, "finished", k), j \in Left(u, "finished", k) :
         t = u /\ i = j
    /\ \A t, u \in Thread : \A i \in Left(t, "finished", k), j \in Left(u, "release", k) :
         t = u /\ i < j
    /\ Waiting("finished", k) # {} => ~InScript("finished", k)
    /\ \A t \in Thread, r \in Outcome : \A i \in Left(t, r, k) :
         \E j \in Left(t, "finished", k) : i < j

\* A turn holds the controller until its end is in the queue.
Holding ==
  /\ \A k \in Turn : Here(k) /\ ~Over(k) => active = k
  /\ \A k \in Turn : script["ui"] \in Begun(k) => active = k
  /\ \A k : InScript("finished", k) => k \in Turn /\ active = k

\* The end of a future that is over and has its callback is said, and not lost.
EndNeverLost == \A k \in Turn : Over(k) => Said(k)

\* No other turn's end comes after the start of the turn that holds the controller.
Afresh(k) ==
  \E i \in Waiting("started", k) :
    \A j \in DOMAIN queue : queue[j].kind = "finished" /\ queue[j].task # k => j < i
Ahead ==
  \A k \in Turn :
    /\ script["ui"] # <<<<"begun", k>>, <<"submit", k>>, <<"watch", k>>>>
    /\ script["ui"] = <<<<"submit", k>>, <<"watch", k>>>> => Afresh(k)
    /\ active = k /\ Here(k) =>
         \/ Afresh(k)
         \/ /\ Waiting("user", k) = {}
            /\ \A j \in DOMAIN queue : queue[j].kind = "finished" => queue[j].task = k

\* A view with a question of this process and not its end is not idle.
Busy ==
  \A k \in Turn : Here(k) /\ Shows(k, "user") /\ ~Delivered(k) => view.chat # "idle"

\* What ended a turn is shown before its end is delivered.
Answers ==
  \A k \in Turn : Here(k) =>
    /\ Said(k) => \E r \in Outcome :
         Ended(k, r) /\ (Shows(k, r) \/ Waiting(r, k) # {} \/ InScript(r, k))
    /\ Delivered(k) => \E r \in Outcome : Ended(k, r) /\ Shows(k, r)

\* A question is shown before its answer.
InOrder ==
  \A k \in Turn, r \in Outcome :
    /\ \A i \in Waiting("user", k) : ~Shows(k, r) /\ \A j \in Waiting(r, k) : i < j
    /\ Here(k) => Follows(view.messages, k, r)

\* A turn that was told a question of this process was told the answer it had.
Exchanges ==
  \A k \in Turn : \A t \in DOMAIN history :
    Here(k) /\ Heard(t, k, "user") =>
      \E r \in Outcome : Ended(k, r) /\ (r = "assistant" => Heard(t, k, r))

\* The invariant: each part rests on others, and all on IInv.
XInv ==
  /\ Empty /\ Unasked /\ Beginning /\ Endings /\ Finishes /\ Holding /\ EndNeverLost
  /\ Ahead /\ Busy /\ Answers /\ InOrder /\ Exchanges

\* What is left in the scripts when a thread has done its first step.
LEMMA LeftSkip ==
  ASSUME Typed, NEW t \in Thread, script[t] # <<>>, Skip(t)
  PROVE  /\ \A u \in Thread : \A what, k : \A i \in Int :
              i \in Left(u, what, k)' <=>
                IF u = t THEN i > 0 /\ i + 1 \in Left(t, what, k) ELSE i \in Left(u, what, k)
         /\ \A u \in Thread : \A what, k : Left(u, what, k) \subseteq Int
         /\ \A what, k : InScript(what, k)' => InScript(what, k)
         /\ \A what, k : InScript(what, k) =>
              InScript(what, k)' \/ NextStep(t) = <<what, k>>
         /\ \A what, k : 1 \in Left(t, what, k) <=> NextStep(t) = <<what, k>>
<1>1. /\ script[t] \in Seq(Step) /\ script'[t] = Tail(script[t])
      /\ NextStep(t) = script[t][1] /\ 1 \in DOMAIN script[t]
      /\ \A u \in Thread : u # t => script'[u] = script[u]
  BY NextStepType DEF Skip, Typed
<1>2. /\ \A i : i \in DOMAIN script'[t] <=> i \in Nat \ {0} /\ i + 1 \in DOMAIN script[t]
      /\ \A i \in DOMAIN script'[t] : script'[t][i] = script[t][i + 1]
  BY <1>1, TailIs
<1>3. \A u \in Thread : DOMAIN script[u] \subseteq Int /\ DOMAIN script'[u] \subseteq Int
  <2>1. \A u \in Thread : script[u] \in Seq(Step)
    BY DEF Typed
  <2>2. \A u \in Thread : DOMAIN script[u] \subseteq Int
    BY <2>1
  <2>3. \A i \in DOMAIN script'[t] : i \in Int
    BY <1>2
  <2>. QED
    BY <1>1, <2>2, <2>3
<1>4. ASSUME NEW u \in Thread, NEW what, NEW k, NEW i \in Int
      PROVE  i \in Left(u, what, k)' <=>
               IF u = t THEN i > 0 /\ i + 1 \in Left(t, what, k) ELSE i \in Left(u, what, k)
  <2>1. CASE u = t
    <3>1. i \in Left(u, what, k)' <=> i \in DOMAIN script'[t] /\ script'[t][i] = <<what, k>>
      BY <2>1 DEF Left
    <3>2. i + 1 \in Left(t, what, k) <=>
            i + 1 \in DOMAIN script[t] /\ script[t][i + 1] = <<what, k>>
      BY DEF Left
    <3>3. i > 0 <=> i \in Nat \ {0}
      OBVIOUS
    <3>. QED
      BY <1>2, <2>1, <3>1, <3>2, <3>3
  <2>2. CASE u # t
    BY <1>1, <2>2 DEF Left
  <2>. QED
    BY <2>1, <2>2
<1>5. \A u \in Thread : \A what, k :
        Left(u, what, k) \subseteq Int /\ Left(u, what, k)' \subseteq Int
  BY <1>3 DEF Left
<1>6. ASSUME NEW what, NEW k, InScript(what, k)' PROVE InScript(what, k)
  <2>1. PICK u \in Thread, i \in Int : i \in Left(u, what, k)'
    BY <1>5, <1>6 DEF InScript
  <2>2. Left(u, what, k) # {}
    BY <1>4, <2>1
  <2>. QED
    BY <2>2 DEF InScript
<1>7. \A what, k : 1 \in Left(t, what, k) <=> NextStep(t) = <<what, k>>
  BY <1>1 DEF Left
<1>8. ASSUME NEW what, NEW k, InScript(what, k), NextStep(t) # <<what, k>>
      PROVE  InScript(what, k)'
  <2>1. PICK u \in Thread, i \in Int : i \in Left(u, what, k)
    BY <1>5, <1>8 DEF InScript
  <2>2. CASE u = t
    <3>1. i # 1 /\ i \in Nat \ {0}
      <4>1. i # 1
        BY <1>7, <1>8, <2>1, <2>2
      <4>2. i \in DOMAIN script[t]
        BY <2>1, <2>2 DEF Left
      <4>. QED
        BY <1>1, <4>1, <4>2
    <3>2. i - 1 \in Int /\ i - 1 > 0 /\ (i - 1) + 1 = i
      BY <3>1
    <3>3. i - 1 \in Left(t, what, k)'
      BY <1>4, <2>1, <2>2, <3>2
    <3>. QED
      BY <3>3 DEF InScript
  <2>3. CASE u # t
    <3>1. i \in Left(u, what, k)'
      BY <1>4, <2>1, <2>3
    <3>. QED
      BY <3>1 DEF InScript
  <2>. QED
    BY <2>2, <2>3
<1>. QED
  BY <1>4, <1>5, <1>6, <1>7, <1>8

\* A new script of the Tk thread, in place of an empty one.
LEMMA LeftRun ==
  ASSUME Typed, script["ui"] = <<>>, NEW s, Run("ui", s), NEW what, NEW k,
         \A i \in DOMAIN s : s[i] # <<what, k>>
  PROVE  /\ \A u \in Thread : Left(u, what, k)' = Left(u, what, k)
         /\ InScript(what, k)' <=> InScript(what, k)
<1>1. script'["ui"] = s /\ \A u \in Thread : u # "ui" => script'[u] = script[u]
  BY DEF Run, Typed, Thread
<1>2. Left("ui", what, k) = {}
  <2>1. DOMAIN script["ui"] = {}
    OBVIOUS
  <2>. QED
    BY <2>1 DEF Left
<1>3. Left("ui", what, k)' = {}
  <2>1. Left("ui", what, k)' = {i \in DOMAIN s : s[i] = <<what, k>>}
    BY <1>1 DEF Left
  <2>. QED
    BY <2>1
<1>4. \A u \in Thread : Left(u, what, k)' = Left(u, what, k)
  <2>1. ASSUME NEW u \in Thread, u # "ui"
        PROVE  Left(u, what, k)' = Left(u, what, k)
    <3>1. script'[u] = script[u]
      BY <1>1, <2>1
    <3>. QED
      BY <3>1 DEF Left
  <2>. QED
    BY <1>2, <1>3, <2>1
<1>. QED
  BY <1>4 DEF InScript

\* Scripts that are left as they are.
LEMMA LeftSame ==
  ASSUME script' = script
  PROVE  /\ \A u \in Thread : \A what, k : Left(u, what, k)' = Left(u, what, k)
         /\ \A what, k : InScript(what, k)' <=> InScript(what, k)
  BY DEF Left, InScript

\* An end on its way, in the queue, or to be released, was said.
LEMMA SaidOf ==
  ASSUME Typed, Emits, Locked, ChainHolds, Releases, NEW k \in Turn, ~Said(k)
  PROVE  /\ IndexOf("finished", k) = {} /\ Waiting("finished", k) = {}
         /\ \A t \in Thread : Left(t, "finished", k) = {} /\ Left(t, "release", k) = {}
<1>0. IndexOf("finished", k) = {} /\ \A t \in Thread : Pending(t, k) = {}
  BY DEF Said
<1>1. \A e \in ToSet(journal) : ~(e.kind = "finished" /\ e.task = k)
  BY <1>0 DEF IndexOf, ToSet
<1>2. Waiting("finished", k) = {}
  BY <1>1 DEF Waiting, ChainHolds
<1>3. ASSUME NEW t \in Thread, NEW i \in Left(t, "finished", k) PROVE FALSE
  <2>1. i \in DOMAIN script[t] /\ script[t][i] = <<"finished", k>> /\ i \notin Open(t)
    BY <1>0, <1>3 DEF Left, Pending
  <2>2. i = 1 /\ written[t]
    BY <2>1 DEF Open, Typed
  <2>3. emitting[t] # None /\ emitting[t] \in ToSet(journal)
    BY <2>2 DEF Emits, Locked
  <2>4. script[t] # <<>> /\ NextStep(t) = <<"finished", k>>
    <3>1. script[t] # <<>>
      BY <2>1
    <3>. QED
      BY <2>1, <2>2, <3>1, NextStepType
  <2>5. emitting[t].kind = "finished" /\ emitting[t].task = k
    BY <2>3, <2>4 DEF Emits
  <2>. QED
    BY <1>1, <2>3, <2>5
<1>4. ASSUME NEW t \in Thread, NEW i \in Left(t, "release", k) PROVE FALSE
  <2>1. i \in DOMAIN script[t] /\ script[t][i] = <<"release", k>>
    BY <1>4 DEF Left
  <2>2. ~Closed(k)
    BY <1>0 DEF Closed
  <2>. QED
    BY <1>0, <2>1, <2>2 DEF Releases
<1>. QED
  BY <1>0, <1>2, <1>3, <1>4

-----------------------------------------------------------------------------
\* Messages, ends and releases.
Marks == Role \cup {"finished", "release"}

\* Where the script that tells of the end of a turn has them.
At(i, what, how) == \/ i = 1 /\ what = how
                    \/ i = 2 /\ what = "finished"
                    \/ i = 3 /\ what = "release"

\* The script of an end has the message, the end and the release, in this order.
LEMMA DoneAt ==
  ASSUME NEW k \in Task, NEW how \in Outcome, NEW i, NEW what \in Marks, NEW j
  PROVE  i \in DOMAIN Done(k, how) /\ Done(k, how)[i] = <<what, j>>
           <=> k \in Turn /\ j = k /\ At(i, what, how)
<1>1. how \notin {"finished", "release"}
  BY DEF Outcome
<1>2. CASE k \in Turn
  <2>1. Done(k, how) = <<<<how, k>>, <<"finished", k>>, <<"release", k>>>>
    BY <1>2 DEF Done, ChatDone
  <2>. QED
    BY <1>1, <1>2, <2>1 DEF At
<1>3. CASE k \notin Turn
  <2>1. Done(k, how) = <<<<"done", k>>>>
    BY <1>3 DEF Done, OperationDone
  <2>2. what # "done"
    BY DEF Marks, Role, Outcome
  <2>. QED
    BY <1>3, <2>1, <2>2
<1>. QED
  BY <1>2, <1>3

\* The end of task k is told: its future is over, and thread t goes on with the
\* message, the end and the release, before what was left of its script.
Ends(t, k, how, d) ==
  /\ Here(k) /\ ~Over(k) /\ (k \in Turn => ~Said(k)) /\ Ended(k, how)'
  /\ \A j \in Task : j # k =>
       future'[j] = future[j] /\ outcome'[j] = outcome[j] /\ (j \in watched' <=> j \in watched)
  /\ UNCHANGED <<journal, queue, view, history, active, session>>
  /\ script'["ui"] = script["ui"] \/ \A j \in Task : script'["ui"] \notin Begun(j)
  /\ \A u \in Thread, what \in Marks : \A j : \A i \in Int :
       i \in Left(u, what, j)' <=>
         \/ u # t /\ i \in Left(u, what, j)
         \/ u = t /\ i - d \in Left(t, what, j)
         \/ u = t /\ k \in Turn /\ j = k /\ At(i, what, how)

\* The callback runs at once in add_done_callback.
LEMMA WatchEnds ==
  ASSUME Typed, Shape, Futures, NEW k \in Task, Watch(k), future[k] = "returned"
  PROVE  outcome[k] \in Outcome /\ Ends("ui", k, outcome[k], 0)
<1>1. script["ui"] # <<>> /\ NextStep("ui") = <<"watch", k>> /\ "ui" \in Thread
  BY DEF Watch, Calls, Thread
<1>2. script["ui"][1] = <<"watch", k>> /\ 1 \in DOMAIN script["ui"]
  BY <1>1, NextStepType
<1>3. Watches(k)
  BY <1>2, WatchesNext DEF Shape
<1>4. k \notin watched
  BY <1>3 DEF Futures
<1>5. /\ outcome[k] \in Outcome /\ script'["ui"] = Done(k, outcome[k])
      /\ \A u \in Thread : u # "ui" => script'[u] = script[u]
      /\ future' = future /\ outcome' = outcome /\ watched' = watched \cup {k}
      /\ UNCHANGED <<journal, queue, view, history, active, session>>
  BY <1>1 DEF Watch, Typed, Run, disk, life
<1>6. \A i \in DOMAIN script["ui"] : script["ui"][i][1] \notin Marks
  BY <1>3 DEF Watches, Marks, Role, Outcome
<1>7. \A what \in Marks : \A j : Left("ui", what, j) = {}
  BY <1>6 DEF Left
<1>8. \A j \in Task : script'["ui"] \notin Begun(j)
  BY <1>5, DoneHead DEF Begun
<1>9. ASSUME NEW u \in Thread, NEW what \in Marks, NEW j, NEW i \in Int
      PROVE  i \in Left(u, what, j)' <=>
               \/ u # "ui" /\ i \in Left(u, what, j)
               \/ u = "ui" /\ i - 0 \in Left("ui", what, j)
               \/ u = "ui" /\ k \in Turn /\ j = k /\ At(i, what, outcome[k])
  <2>1. u # "ui" => (i \in Left(u, what, j)' <=> i \in Left(u, what, j))
    BY <1>5 DEF Left
  <2>2. i \in Left("ui", what, j)' <=> k \in Turn /\ j = k /\ At(i, what, outcome[k])
    <3>1. i \in Left("ui", what, j)' <=>
            i \in DOMAIN Done(k, outcome[k]) /\ Done(k, outcome[k])[i] = <<what, j>>
      BY <1>5 DEF Left
    <3>2. i \in DOMAIN Done(k, outcome[k]) /\ Done(k, outcome[k])[i] = <<what, j>>
            <=> k \in Turn /\ j = k /\ At(i, what, outcome[k])
      BY <1>5, DoneAt
    <3>. QED
      BY <3>1, <3>2
  <2>. QED
    BY <1>7, <2>1, <2>2
<1>10. Here(k) /\ ~Over(k) /\ (k \in Turn => ~Said(k)) /\ Ended(k, outcome[k])'
  BY <1>4, <1>5 DEF Here, Over, Ended, Futures
<1>. QED
  BY <1>5, <1>8, <1>9, <1>10 DEF Ends

\* Future.cancel runs the callback before it returns to close or stop_chat.
LEMMA CancelEnds ==
  ASSUME Typed, Shape, Futures, NEW k \in Task, Cancel(k), future[k] = "queued"
  PROVE  \E d \in Int : Ends("ui", k, "system", d)
<1>. DEFINE done == Done(k, "system")
            rest == Tail(script["ui"])
            d == Len(done) - 1
<1>1. script["ui"] # <<>> /\ NextStep("ui") = <<"cancel", k>> /\ "ui" \in Thread
      /\ "system" \in Outcome
  BY DEF Cancel, Calls, Thread, Outcome
<1>2. /\ script["ui"] \in Seq(Step) /\ script["ui"][1] = <<"cancel", k>>
      /\ \A i : i \in DOMAIN rest <=> i \in Nat \ {0} /\ i + 1 \in DOMAIN script["ui"]
      /\ \A i \in DOMAIN rest : rest[i] = script["ui"][i + 1]
      /\ rest \in Seq(Step) /\ done \in Seq(Step) /\ Len(done) \in Nat
      /\ DOMAIN script["ui"] \subseteq Nat \ {0}
  <2>1. script["ui"] \in Seq(Step) /\ script["ui"][1] = <<"cancel", k>>
    BY <1>1, NextStepType
  <2>2. done \in Seq(Step)
    BY <1>1, DoneIs
  <2>. QED
    BY <1>1, <2>1, <2>2, TailIs
<1>3. /\ script'["ui"] = done \o rest
      /\ \A u \in Thread : u # "ui" => script'[u] = script[u]
      /\ future' = [future EXCEPT ![k] = "cancelled"] /\ outcome' = outcome /\ watched' = watched
      /\ UNCHANGED <<journal, queue, view, history, active, session>>
  BY <1>1 DEF Cancel, Typed, Run, disk, life
<1>4. ASSUME NEW i \in Int, NEW what \in Marks, NEW j
      PROVE  i \in Left("ui", what, j)' <=>
               i - d \in Left("ui", what, j) \/ (k \in Turn /\ j = k /\ At(i, what, "system"))
  <2>0. done \in Seq(Step) /\ rest \in Seq(Step)
    BY <1>2
  <2>. HIDE DEF done, rest
  <2>1. /\ \A x : x \in DOMAIN (done \o rest) <=>
             x \in DOMAIN done \/ (x \in Int /\ x - Len(done) \in DOMAIN rest)
        /\ \A x \in DOMAIN done : (done \o rest)[x] = done[x]
        /\ \A x \in Int : x - Len(done) \in DOMAIN rest =>
              (done \o rest)[x] = rest[x - Len(done)]
    BY <2>0, ConcatIs
  <2>2. i \in Left("ui", what, j)' <=>
          \/ i \in DOMAIN done /\ done[i] = <<what, j>>
          \/ i - Len(done) \in DOMAIN rest /\ rest[i - Len(done)] = <<what, j>>
    BY <1>3, <2>1 DEF Left
  <2>3. i \in DOMAIN done /\ done[i] = <<what, j>>
          <=> k \in Turn /\ j = k /\ At(i, what, "system")
    BY <1>1, DoneAt DEF done
  <2>4. (i - Len(done)) + 1 = i - d /\ i - d \in Int
    BY <1>2
  <2>5. i - Len(done) \in DOMAIN rest /\ rest[i - Len(done)] = <<what, j>>
          <=> i - d \in Left("ui", what, j)
    <3>1. what # "cancel"
      BY DEF Marks, Role, Outcome
    <3>2. i - d \in DOMAIN script["ui"] /\ script["ui"][i - d] = <<what, j>> =>
            i - d # 1 /\ i - Len(done) \in Nat \ {0}
      BY <1>2, <2>4, <3>1
    <3>. QED
      BY <1>2, <2>4, <3>2 DEF Left
  <2>. QED
    BY <2>2, <2>3, <2>5
<1>5. ASSUME NEW u \in Thread, NEW what \in Marks, NEW j, NEW i \in Int
      PROVE  i \in Left(u, what, j)' <=>
               \/ u # "ui" /\ i \in Left(u, what, j)
               \/ u = "ui" /\ i - d \in Left("ui", what, j)
               \/ u = "ui" /\ k \in Turn /\ j = k /\ At(i, what, "system")
  <2>1. u # "ui" => (i \in Left(u, what, j)' <=> i \in Left(u, what, j))
    BY <1>3 DEF Left
  <2>. HIDE DEF d
  <2>2. CASE u = "ui"
    BY <1>4, <2>2
  <2>3. CASE u # "ui"
    BY <2>1, <2>3
  <2>. QED
    BY <2>2, <2>3
<1>6. \A j \in Task : script'["ui"] \notin Begun(j)
  <2>1. 1 \in DOMAIN done /\ done[1][1] \notin {"user", "started", "begun", "submit", "watch"}
    BY <1>1, DoneHead
  <2>. HIDE DEF done, rest
  <2>2. (done \o rest)[1] = done[1]
    BY <1>2, <2>1, ConcatIs
  <2>3. script'["ui"][1][1] \notin {"user", "started", "begun", "submit", "watch"}
    BY <1>3, <2>1, <2>2
  <2>4. \A j : \A s \in Begun(j) : s[1][1] \in {"user", "started", "begun", "submit", "watch"}
    BY DEF Begun
  <2>. QED
    BY <2>3, <2>4
<1>7. Here(k) /\ ~Over(k) /\ (k \in Turn => ~Said(k)) /\ Ended(k, "system")'
  BY <1>3 DEF Here, Over, Ended, Futures, Typed
<1>8. \A j \in Task : j # k => future'[j] = future[j]
  BY <1>3 DEF Typed
<1>9. d \in Int
  BY <1>2
<1>. HIDE DEF d, done, rest
<1>. QED
  BY <1>3, <1>5, <1>6, <1>7, <1>8, <1>9 DEF Ends

\* The worker runs the callback of the future it ends.
LEMMA FinishEnds ==
  ASSUME Typed, OneRunning, Futures, NEW k \in Task, NEW how \in Outcome, Finish(k, how),
         k \in watched
  PROVE  Ends("worker", k, how, 0)
<1>1. /\ script["worker"] = <<>> /\ future[k] = "running"
      /\ script'["worker"] = Done(k, how) /\ script'["ui"] = script["ui"]
      /\ future' = [future EXCEPT ![k] = "returned"] /\ watched' = watched
      /\ outcome' = [outcome EXCEPT ![k] = how]
      /\ UNCHANGED <<journal, queue, view, history, active, session>>
  BY DEF Finish, OneRunning, Typed, Run, Thread, disk, life
<1>2. \A what, j : Left("worker", what, j) = {}
  BY <1>1 DEF Left
<1>3. ASSUME NEW u \in Thread, NEW what \in Marks, NEW j, NEW i \in Int
      PROVE  i \in Left(u, what, j)' <=>
               \/ u # "worker" /\ i \in Left(u, what, j)
               \/ u = "worker" /\ i - 0 \in Left("worker", what, j)
               \/ u = "worker" /\ k \in Turn /\ j = k /\ At(i, what, how)
  <2>1. u # "worker" => (i \in Left(u, what, j)' <=> i \in Left(u, what, j))
    BY <1>1 DEF Left, Thread
  <2>2. i \in Left("worker", what, j)' <=> k \in Turn /\ j = k /\ At(i, what, how)
    <3>1. i \in Left("worker", what, j)' <=>
            i \in DOMAIN Done(k, how) /\ Done(k, how)[i] = <<what, j>>
      BY <1>1 DEF Left
    <3>. QED
      BY <3>1, DoneAt
  <2>. QED
    BY <1>2, <2>1, <2>2
<1>4. Here(k) /\ ~Over(k) /\ (k \in Turn => ~Said(k)) /\ Ended(k, how)'
  BY <1>1 DEF Here, Over, Ended, Futures, Typed
<1>5. \A j \in Task : j # k => future'[j] = future[j] /\ outcome'[j] = outcome[j]
  BY <1>1 DEF Typed
<1>. QED
  BY <1>1, <1>3, <1>4, <1>5 DEF Ends

\* What a step leaves as it is of the futures, as far as their ends go.
Rests ==
  \A k \in Task : /\ (Here(k)' <=> Here(k)) /\ (Over(k)' <=> Over(k))
                  /\ \A r : Ended(k, r)' <=> Ended(k, r)

\* The steps, by what they do to scripts, queue and view.
Still ==
  /\ Rests
  /\ UNCHANGED <<script, journal, queue, view, history, active>>
  /\ session' = "down" => session = "down"
Passes(t) ==
  /\ Rests
  /\ script[t] # <<>> /\ Skip(t) /\ NextStep(t)[1] \in {"watch", "cancel"}
  /\ UNCHANGED <<journal, queue, view, history, active, session>>
Sets(s) ==
  /\ Rests
  /\ session' # "down"
  /\ script["ui"] = <<>> /\ Run("ui", s)
  /\ \A k \in Turn : s \notin Begun(k)
  /\ \A i \in DOMAIN s, k \in Turn, r \in Role : s[i] # <<r, k>>
  /\ \A i \in DOMAIN s : s[i][1] \notin {"finished", "release"}
  /\ UNCHANGED <<journal, queue, active>>
  /\ DOMAIN history \subseteq DOMAIN history'
  /\ \A k \in DOMAIN history' :
       ToSet(history'[k]) = {} \/ (k \in DOMAIN history /\ history'[k] = history[k])
  /\ view' = view \/ Start

\* With the futures as they were, nothing of their ends is changed.
LEMMA SameRests ==
  ASSUME UNCHANGED <<future, watched, outcome>>
  PROVE  Rests
  BY DEF Rests, Here, Over, Ended

\* The calls of a script.
LEMMA CallKinds ==
  ASSUME Typed, Shape, OneRunning, Futures, NEW k \in Task, Watch(k) \/ Cancel(k)
  PROVE  \/ Passes("ui")
         \/ \E how \in Outcome, d \in Int : Ends("ui", k, how, d)
<1>1. "ui" \in Thread /\ "system" \in Outcome
  BY DEF Thread, Outcome
<1>2. CASE Watch(k)
  <2>1. CASE future[k] = "returned"
    <3>1. outcome[k] \in Outcome /\ Ends("ui", k, outcome[k], 0)
      BY <1>2, <2>1, WatchEnds
    <3>2. 0 \in Int
      OBVIOUS
    <3>. QED
      BY <3>1, <3>2
  <2>2. CASE future[k] # "returned"
    <3>1. /\ script["ui"] # <<>> /\ Skip("ui") /\ NextStep("ui") = <<"watch", k>>
          /\ future' = future /\ outcome' = outcome /\ watched' = watched \cup {k}
          /\ UNCHANGED <<journal, queue, view, history, active, session>>
      BY <1>2, <2>2 DEF Watch, Calls, disk, life
    <3>2. Rests
      BY <2>2, <3>1 DEF Rests, Here, Over, Ended
    <3>. QED
      BY <3>1, <3>2 DEF Passes
  <2>. QED
    BY <2>1, <2>2
<1>3. CASE Cancel(k)
  <2>1. CASE future[k] = "queued"
    BY <1>1, <1>3, <2>1, CancelEnds
  <2>2. CASE future[k] # "queued"
    <3>1. /\ script["ui"] # <<>> /\ Skip("ui") /\ NextStep("ui") = <<"cancel", k>>
          /\ future' = future /\ outcome' = outcome /\ watched' = watched
          /\ UNCHANGED <<journal, queue, view, history, active, session>>
      BY <1>3, <2>2 DEF Cancel, Calls, disk, life
    <3>. QED
      BY <3>1, SameRests DEF Passes
  <2>. QED
    BY <2>1, <2>2
<1>. QED
  BY <1>2, <1>3

\* What the Tk thread starts, but for a turn.
LEMMA SetKinds ==
  ASSUME IInv,
         (\E o \in Operation : StartOperation(o)) \/ StopChat \/ NewChat \/ Close \/ Start
  PROVE  \E s : Sets(s)
<1>. USE DEF disk, life, work, IInv
<1>d. UNCHANGED <<future, watched, outcome>> => Rests
  BY SameRests
<1>1. ASSUME NEW o \in Operation, StartOperation(o) PROVE \E s : Sets(s)
  <2>. DEFINE s == <<<<"begun", o>>, <<"submit", o>>, <<"watch", o>>>>
  <2>1. \A k \in Turn : s \notin Begun(k)
    <3>1. \A k \in Turn : k # o
      BY GuiAssumption
    <3>. QED
      BY <3>1 DEF Begun
  <2>2. /\ \A i \in DOMAIN s, k \in Turn, r \in Role : s[i] # <<r, k>>
        /\ \A i \in DOMAIN s : s[i][1] \notin {"finished", "release"}
    BY DEF Role, Outcome
  <2>3. /\ DOMAIN history \subseteq DOMAIN history'
        /\ \A k \in DOMAIN history' :
             ToSet(history'[k]) = {} \/ (k \in DOMAIN history /\ history'[k] = history[k])
    <3>1. ToSet(<<>>) = {}
      BY DEF ToSet
    <3>2. history' = [j \in DOMAIN history \cup {o} |-> IF j = o THEN <<>> ELSE history[j]]
      BY <1>1 DEF StartOperation, Asked
    <3>. QED
      BY <3>1, <3>2
  <2>4. /\ script["ui"] = <<>> /\ Run("ui", s) /\ Rests /\ session' # "down"
        /\ UNCHANGED <<journal, queue, active, view>>
    BY <1>1, <1>d DEF StartOperation, UiFree
  <2>. HIDE DEF s
  <2>. QED
    BY <2>1, <2>2, <2>3, <2>4 DEF Sets
<1>2. ASSUME NEW s, script["ui"] = <<>>, Run("ui", s), session' # "down",
             UNCHANGED <<future, watched, outcome, journal, queue, active, history>>,
             view' = view \/ Start,
             \A i \in DOMAIN s : \/ s[i][1] \notin Marks
                                 \/ s[i][1] = "system" /\ s[i][2] = None,
             \A k \in Turn : s \notin Begun(k)
      PROVE  Sets(s)
  <2>1. \A i \in DOMAIN s, k \in Turn, r \in Role : s[i] # <<r, k>>
    <3>. SUFFICES ASSUME NEW i \in DOMAIN s, NEW k \in Turn, NEW r \in Role, s[i] = <<r, k>>
                  PROVE  FALSE
      OBVIOUS
    <3>1. s[i][1] \in Marks /\ s[i][2] # None
      BY GuiAssumption DEF Marks, Task
    <3>. QED
      BY <1>2, <3>1
  <2>2. \A i \in DOMAIN s : s[i][1] \notin {"finished", "release"}
    BY <1>2 DEF Marks
  <2>. QED
    BY <1>2, <1>d, <2>1, <2>2 DEF Sets
<1>3. CASE StopChat
  <2>. DEFINE s == <<<<"cancel", active>>, <<"stop", active>>>>
  <2>1. \A i \in DOMAIN s : s[i][1] \notin Marks
    BY DEF Marks, Role, Outcome
  <2>2. \A k \in Turn : s \notin Begun(k)
    BY DEF Begun
  <2>3. /\ script["ui"] = <<>> /\ Run("ui", s) /\ session' # "down" /\ view' = view
        /\ UNCHANGED <<future, watched, outcome, journal, queue, active, history>>
    BY <1>3 DEF StopChat, UiFree
  <2>. HIDE DEF s
  <2>. QED
    BY <1>2, <2>1, <2>2, <2>3
<1>4. CASE NewChat
  <2>. DEFINE s == <<<<"system", None>>, <<"cleared", None>>>>
  <2>1. \A i \in DOMAIN s : s[i][1] \notin Marks \/ (s[i][1] = "system" /\ s[i][2] = None)
    BY DEF Marks, Role, Outcome
  <2>2. \A k \in Turn : s \notin Begun(k)
    BY DEF Begun
  <2>3. /\ script["ui"] = <<>> /\ Run("ui", s) /\ session' # "down" /\ view' = view
        /\ UNCHANGED <<future, watched, outcome, journal, queue, active, history>>
    BY <1>4 DEF NewChat, UiFree
  <2>. HIDE DEF s
  <2>. QED
    BY <1>2, <2>1, <2>2, <2>3
<1>5. CASE Close
  <2>1. /\ 1 \in DOMAIN ClosingSteps
        /\ \A i \in DOMAIN ClosingSteps : ClosingSteps[i][1] \in {"cancel", "closed"}
    BY CloseType
  <2>2. \A i \in DOMAIN ClosingSteps : ClosingSteps[i][1] \notin Marks
    BY <2>1 DEF Marks, Role, Outcome
  <2>3. \A k \in Turn : ClosingSteps \notin Begun(k)
    <3>1. \A k \in Turn : \A s \in Begun(k) : s[1][1] \notin {"cancel", "closed"}
      BY DEF Begun
    <3>. QED
      BY <2>1, <3>1
  <2>4. /\ script["ui"] = <<>> /\ Run("ui", ClosingSteps) /\ session' # "down" /\ view' = view
        /\ UNCHANGED <<future, watched, outcome, journal, queue, active, history>>
    BY <1>5 DEF Close, UiFree, ClosingSteps
  <2>. QED
    BY <1>2, <2>2, <2>3, <2>4
<1>6. CASE Start
  <2>. DEFINE s == <<<<"opened", None>>>>
  <2>1. \A i \in DOMAIN s : s[i][1] \notin Marks
    BY DEF Marks, Role, Outcome
  <2>2. \A k \in Turn : s \notin Begun(k)
    BY DEF Begun
  <2>3. /\ script["ui"] = <<>> /\ Run("ui", s) /\ session' # "down"
        /\ UNCHANGED <<future, watched, outcome, journal, queue, active, history>>
    BY <1>6 DEF Start, Gone, Thread
  <2>. HIDE DEF s
  <2>. QED
    BY <1>2, <1>6, <2>1, <2>2, <2>3
<1>. QED
  BY <1>1, <1>3, <1>4, <1>5, <1>6

\* Every step is one of these.
LEMMA StepKinds ==
  ASSUME IInv, [Next]_guiVars
  PROVE  \/ \E t \in Thread : AppendEvent(t) \/ PutEvent(t) \/ Passes(t)
         \/ \E t \in Thread, k \in Task : Release(t, k)
         \/ \E k \in Task : Submit(k)
         \/ \E t \in Thread, k \in Task, how \in Outcome, d \in Int : Ends(t, k, how, d)
         \/ \E t \in Turn : SendChat(t)
         \/ \E s : Sets(s)
         \/ Still \/ Deliver \/ Exit \/ Crash
<1>. USE DEF IInv, disk, life, work
<1>1. ASSUME (\E t \in Thread : ReadHead(t)) \/ SaveProjection \/ UNCHANGED guiVars
      PROVE  Still
  <2>1. /\ UNCHANGED <<future, watched, outcome>>
        /\ UNCHANGED <<script, journal, queue, view, history, active>>
        /\ session' = "down" => session = "down"
    BY <1>1 DEF ReadHead, SaveProjection, guiVars
  <2>. QED
    BY <2>1, SameRests DEF Still
<1>2. CASE Take
  <2>1. /\ watched' = watched /\ outcome' = outcome
        /\ \A k \in Task : \/ future'[k] = future[k]
                           \/ future[k] = "queued" /\ future'[k] = "running"
        /\ UNCHANGED <<script, journal, queue, view, history, active, session>>
    BY <1>2 DEF Take, Typed
  <2>2. Rests
    BY <2>1 DEF Rests, Here, Over, Ended
  <2>. QED
    BY <2>1, <2>2 DEF Still
<1>3. ASSUME NEW k \in Task, NEW how \in Outcome, Finish(k, how)
      PROVE  Still \/ \E t \in Thread, d \in Int : Ends(t, k, how, d)
  <2>1. CASE k \in watched
    <3>1. Ends("worker", k, how, 0)
      BY <1>3, <2>1, FinishEnds
    <3>2. "worker" \in Thread /\ 0 \in Int
      BY DEF Thread
    <3>. QED
      BY <3>1, <3>2
  <2>2. CASE k \notin watched
    <3>1. /\ watched' = watched
          /\ \A j \in Task : j # k => future'[j] = future[j] /\ outcome'[j] = outcome[j]
          /\ future[k] = "running" /\ future'[k] = "returned"
          /\ UNCHANGED <<script, journal, queue, view, history, active, session>>
      BY <1>3, <2>2 DEF Finish, Typed
    <3>2. Rests
      BY <2>2, <3>1 DEF Rests, Here, Over, Ended
    <3>. QED
      BY <3>1, <3>2 DEF Still
  <2>. QED
    BY <2>1, <2>2
<1>4. \A k \in Task : Watch(k) \/ Cancel(k) =>
        Passes("ui") \/ \E how \in Outcome, d \in Int : Ends("ui", k, how, d)
  BY CallKinds
<1>5. (\E o \in Operation : StartOperation(o)) \/ StopChat \/ NewChat \/ Close \/ Start
        => \E s : Sets(s)
  BY SetKinds
<1>6. "ui" \in Thread /\ "worker" \in Thread
  BY DEF Thread
<1>. QED
  BY <1>1, <1>2, <1>3, <1>4, <1>5, <1>6 DEF Next, UiStep, WorkerStep, User, Emission

\* An event that is put in the journal, or from there in the queue.
LEMMA AppendKind ==
  ASSUME Typed, Emits, NEW t \in Thread, AppendEvent(t)
  PROVE  /\ Rests /\ UNCHANGED <<script, queue, view, history, active, session>>
         /\ \A what, k : IndexOf(what, k)' # {} =>
              IndexOf(what, k) # {} \/ (NextStep(t) = <<what, k>> /\ InScript(what, k))
         /\ \A what, k : IndexOf(what, k) \subseteq IndexOf(what, k)'
<1>1. /\ script[t] # <<>>
      /\ \A what, k : IndexOf(what, k)' =
           IndexOf(what, k) \cup (IF NextStep(t) = <<what, k>> THEN {Len(journal) + 1} ELSE {})
  BY AppendIndex
<1>2. NextStep(t) = script[t][1] /\ 1 \in DOMAIN script[t]
  BY <1>1, NextStepType
<1>3. \A what, k : NextStep(t) = <<what, k>> => InScript(what, k)
  BY <1>2 DEF InScript, Left
<1>4. /\ UNCHANGED <<future, watched, outcome>>
      /\ UNCHANGED <<script, queue, view, history, active, session>>
  BY DEF AppendEvent, work, life
<1>. QED
  BY <1>1, <1>3, <1>4, SameRests

\* An event that is put in the queue, at its end, was the next step of a script.
LEMMA PutKind ==
  ASSUME Typed, Emits, NEW t \in Thread, PutEvent(t)
  PROVE  /\ Rests /\ UNCHANGED <<journal, view, history, active>>
         /\ session' = session /\ script[t] # <<>> /\ Skip(t)
         /\ Len(queue) \in Nat /\ DOMAIN queue = 1..Len(queue)
         /\ DOMAIN queue' = 1..(Len(queue) + 1)
         /\ \A i \in DOMAIN queue : queue'[i] = queue[i]
         /\ NextStep(t) = <<queue'[Len(queue) + 1].kind, queue'[Len(queue) + 1].task>>
         /\ \A what, k : Waiting(what, k) \subseteq 1..Len(queue)
         /\ \A what, k : Waiting(what, k)' =
              Waiting(what, k) \cup (IF NextStep(t) = <<what, k>> THEN {Len(queue) + 1} ELSE {})
         /\ \A what, k : NextStep(t) = <<what, k>> => InScript(what, k)
<1>1. /\ script[t] # <<>> /\ Skip(t) /\ queue' = Append(queue, emitting[t])
      /\ emitting[t] \in Event /\ emitting[t].kind = NextStep(t)[1]
      /\ emitting[t].task = NextStep(t)[2]
  BY DEF PutEvent, Emits, Says, Typed
<1>2. NextStep(t) \in Step /\ NextStep(t) = script[t][1] /\ 1 \in DOMAIN script[t]
  BY <1>1, NextStepType
<1>3. NextStep(t) = <<emitting[t].kind, emitting[t].task>>
  BY <1>1, <1>2 DEF Step
<1>4. /\ Len(queue) \in Nat /\ DOMAIN queue = 1..Len(queue)
      /\ DOMAIN queue' = 1..(Len(queue) + 1)
      /\ \A i \in DOMAIN queue : queue'[i] = queue[i]
      /\ queue'[Len(queue) + 1] = emitting[t]
  BY <1>1, AppendIs DEF Typed
<1>5. \A what, k : Waiting(what, k) \subseteq 1..Len(queue)
  BY <1>4 DEF Waiting
<1>6. ASSUME NEW what, NEW k
      PROVE  Waiting(what, k)' =
              Waiting(what, k) \cup (IF NextStep(t) = <<what, k>> THEN {Len(queue) + 1} ELSE {})
  <2>1. NextStep(t) = <<what, k>> <=> emitting[t].kind = what /\ emitting[t].task = k
    BY <1>3
  <2>2. ASSUME NEW i
        PROVE  i \in Waiting(what, k)' <=>
                 \/ i \in Waiting(what, k)
                 \/ i = Len(queue) + 1 /\ emitting[t].kind = what /\ emitting[t].task = k
    BY <1>4 DEF Waiting
  <2>. QED
    BY <2>1, <2>2
<1>7. \A what, k : NextStep(t) = <<what, k>> => InScript(what, k)
  BY <1>2 DEF InScript, Left
<1>8. /\ UNCHANGED <<future, watched, outcome>>
      /\ UNCHANGED <<journal, view, history, active, session>>
  BY DEF PutEvent, work, life, disk
<1>. QED
  BY <1>1, <1>3, <1>4, <1>5, <1>6, <1>7, <1>8, SameRests

\* A delivery reduces the queue into the view, while the Tk thread has nothing to do.
LEMMA DeliverKind ==
  ASSUME Deliver
  PROVE  /\ Rests /\ UNCHANGED <<script, journal, history, active, session>>
         /\ script["ui"] = <<>> /\ view' = After(view, queue) /\ queue' = <<>>
<1>1. UNCHANGED <<future, watched, outcome, script, journal, history, active, session>>
  BY DEF Deliver, work, life, disk
<1>. QED
  BY <1>1, SameRests DEF Deliver, Drains

\* A release frees the controller of the turn that has it.
LEMMA ReleaseKind ==
  ASSUME Typed, NEW t \in Thread, NEW k \in Task, Release(t, k)
  PROVE  /\ Rests /\ UNCHANGED <<journal, queue, view, history, session>>
         /\ script[t] # <<>> /\ Skip(t) /\ NextStep(t) = <<"release", k>>
         /\ active' = IF active = k THEN None ELSE active
<1>1. UNCHANGED <<future, watched, outcome, journal, queue, view, history, session>>
  BY DEF Release, work, life, disk
<1>. QED
  BY <1>1, SameRests DEF Release, Calls

\* A task that is submitted has a future from then on, and no end.
LEMMA SubmitKind ==
  ASSUME Typed, Shape, Futures, NEW k \in Task, Submit(k)
  PROVE  /\ UNCHANGED <<journal, queue, view, history, active, session>>
         /\ "ui" \in Thread /\ script["ui"] # <<>> /\ Skip("ui")
         /\ NextStep("ui") = <<"submit", k>>
         /\ script["ui"] = <<<<"submit", k>>, <<"watch", k>>>> /\ script["ui"] \in Begun(k)
         /\ script'["ui"] = <<<<"watch", k>>>>
         /\ ~Here(k) /\ Here(k)' /\ ~Over(k)' /\ \A r : ~Ended(k, r)'
         /\ \A j \in Task : j # k =>
              /\ (Here(j)' <=> Here(j)) /\ (Over(j)' <=> Over(j))
              /\ \A r : Ended(j, r)' <=> Ended(j, r)
<1>1. /\ UNCHANGED <<journal, queue, view, history, active, session>>
      /\ "ui" \in Thread /\ script["ui"] # <<>> /\ Skip("ui")
      /\ NextStep("ui") = <<"submit", k>>
      /\ future' = [future EXCEPT ![k] = "queued"] /\ watched' = watched /\ outcome' = outcome
  BY DEF Submit, Calls, Thread, disk, life
<1>2. script["ui"][1] = <<"submit", k>> /\ 1 \in DOMAIN script["ui"]
  BY <1>1, NextStepType
<1>3. script["ui"] = <<<<"submit", k>>, <<"watch", k>>>>
  BY <1>2, WatchesNext DEF Shape
<1>4. script["ui"] \in Begun(k)
  BY <1>3 DEF Begun
<1>5. script'["ui"] = <<<<"watch", k>>>>
  BY <1>1, <1>3 DEF Skip, Typed
<1>6. ~Here(k)
  BY <1>4 DEF Futures, Here
<1>7. /\ Here(k)' /\ ~Over(k)' /\ \A r : ~Ended(k, r)'
      /\ \A j \in Task : j # k =>
              /\ (Here(j)' <=> Here(j)) /\ (Over(j)' <=> Over(j))
              /\ \A r : Ended(j, r)' <=> Ended(j, r)
  BY <1>1 DEF Here, Over, Ended, Typed
<1>. QED
  BY <1>1, <1>3, <1>4, <1>5, <1>6, <1>7

\* The script of a turn that is asked.
SendSteps(k) == <<<<"user", k>>, <<"started", k>>, <<"submit", k>>, <<"watch", k>>>>

\* A turn that is asked is told the questions and answers shown since the last clear.
LEMMA SendKind ==
  ASSUME Typed, view \in View, NEW t \in Turn, SendChat(t)
  PROVE  /\ Rests /\ UNCHANGED <<journal, queue, view, session>>
         /\ session = "up" /\ script["ui"] = <<>> /\ Run("ui", SendSteps(t))
         /\ script'["ui"] = SendSteps(t)
         /\ Unused(t) /\ active = None /\ active' = t /\ view.chat = "idle"
         /\ DOMAIN history' = DOMAIN history \cup {t}
         /\ \A k \in DOMAIN history : k # t => history'[k] = history[k]
         /\ \A k, r : Heard(t, k, r)' <=>
              /\ r \in {"user", "assistant"}
              /\ \E i \in DOMAIN view.messages :
                   i > view.start /\ view.messages[i] = Line(k, r)
<1>1. /\ UNCHANGED <<future, watched, outcome, journal, queue, view, session>>
      /\ session = "up" /\ script["ui"] = <<>> /\ Run("ui", SendSteps(t))
      /\ Unused(t) /\ active = None /\ active' = t /\ view.chat = "idle"
      /\ history' = [j \in DOMAIN history \cup {t} |->
                       IF j = t THEN ChatHistory ELSE history[j]]
  BY DEF SendChat, UiFree, NextOf, Asked, SendSteps, work, life, disk
<1>2. /\ DOMAIN history' = DOMAIN history \cup {t} /\ history'[t] = ChatHistory
      /\ \A k \in DOMAIN history : k # t => history'[k] = history[k]
  BY <1>1
<1>3. ASSUME NEW k, NEW r
      PROVE  Heard(t, k, r)' <=>
              /\ r \in {"user", "assistant"}
              /\ \E i \in DOMAIN view.messages :
                   i > view.start /\ view.messages[i] = Line(k, r)
  <2>1. Heard(t, k, r)' <=> Line(k, r) \in ToSet(ChatHistory)
    BY <1>2 DEF Heard
  <2>2. /\ DOMAIN view.messages = 1..Len(view.messages) /\ Len(view.messages) \in Nat
        /\ view.start \in Nat
    BY DEF View
  <2>3. \A i : i \in (view.start + 1)..Len(view.messages) <=>
               i \in DOMAIN view.messages /\ i > view.start
    BY <2>2
  <2>4. \A m : m = Line(k, r) => m.role = r
    BY DEF Line
  <2>5. Line(k, r) \in ToSet(ChatHistory) <=>
          \E i \in (view.start + 1)..Len(view.messages) :
            view.messages[i].role \in {"user", "assistant"} /\ view.messages[i] = Line(k, r)
    BY HistoryIs
  <2>. QED
    BY <2>1, <2>3, <2>4, <2>5
<1>4. script'["ui"] = SendSteps(t)
  BY <1>1 DEF Run, Typed, Thread
<1>. QED
  BY <1>1, <1>2, <1>3, <1>4, SameRests

\* A process that ends.
LEMMA GoneKind ==
  ASSUME Typed', Exit \/ Crash
  PROVE  /\ journal' = journal /\ history' = history /\ queue' = <<>> /\ active' = None
         /\ view' = EmptyView /\ ToSet(view'.messages) = {}
         /\ \A t \in Thread : script'[t] = <<>>
         /\ \A what, k : ~InScript(what, k)'
         /\ \A t \in Thread : \A what, k : Left(t, what, k)' = {}
         /\ \A k \in Task : ~Here(k)' /\ ~Over(k)' /\ \A r : ~Ended(k, r)'
<1>1. /\ journal' = journal /\ history' = history /\ queue' = <<>> /\ active' = None
      /\ view' = EmptyView /\ \A t \in Thread : script'[t] = <<>>
      /\ \A k \in Task : future'[k] = "none"
  BY DEF Exit, Crash, Forget, disk
<1>2. \A t \in Thread : \A what, k : Left(t, what, k)' = {}
  BY <1>1 DEF Left
<1>3. ToSet(EmptyView.messages) = {}
  BY DEF EmptyView, ToSet
<1>. QED
  BY <1>1, <1>2, <1>3 DEF InScript, Here, Over, Ended

\* The ends of a task, told: what is in the scripts then.
LEMMA EndsKind ==
  ASSUME Typed, Typed', NEW t \in Thread, NEW k \in Task, NEW how \in Outcome, NEW d \in Int,
         Ends(t, k, how, d)
  PROVE  /\ UNCHANGED <<journal, queue, view, history, active, session>>
         /\ \A what \in Marks : \A j : InScript(what, j) => InScript(what, j)'
         /\ \A what \in Marks : \A j : InScript(what, j)' =>
              InScript(what, j) \/ (k \in Turn /\ j = k /\ what \in {how, "finished", "release"})
         /\ k \in Turn => \A what \in {how, "finished", "release"} : InScript(what, k)'
         /\ Here(k) /\ ~Over(k) /\ Here(k)' /\ Over(k)' /\ Ended(k, how)'
         /\ \A r : ~Ended(k, r) /\ (Ended(k, r)' => r = how)
         /\ \A j \in Task : j # k =>
              /\ (Here(j)' <=> Here(j)) /\ (Over(j)' <=> Over(j))
              /\ \A r : Ended(j, r)' <=> Ended(j, r)
<1>1. \A u \in Thread, what \in Marks : \A j : \A i \in Int :
       i \in Left(u, what, j)' <=>
         \/ u # t /\ i \in Left(u, what, j)
         \/ u = t /\ i - d \in Left(t, what, j)
         \/ u = t /\ k \in Turn /\ j = k /\ At(i, what, how)
  BY DEF Ends
<1>2. \A u \in Thread : \A what, j :
        Left(u, what, j) \subseteq Int /\ Left(u, what, j)' \subseteq Int
  <2>1. \A u \in Thread : DOMAIN script[u] \subseteq Int /\ DOMAIN script'[u] \subseteq Int
    <3>1. \A u \in Thread : script[u] \in Seq(Step) /\ script'[u] \in Seq(Step)
      BY DEF Typed
    <3>. QED
      BY <3>1
  <2>. QED
    BY <2>1 DEF Left
<1>3. ASSUME NEW what \in Marks, NEW j, InScript(what, j) PROVE InScript(what, j)'
  <2>1. PICK u \in Thread, i \in Int : i \in Left(u, what, j)
    BY <1>2, <1>3 DEF InScript
  <2>2. CASE u # t
    <3>1. i \in Left(u, what, j)'
      BY <1>1, <2>1, <2>2
    <3>. QED
      BY <3>1 DEF InScript
  <2>3. CASE u = t
    <3>1. i + d \in Int /\ (i + d) - d = i
      OBVIOUS
    <3>2. i + d \in Left(t, what, j)'
      BY <1>1, <2>1, <2>3, <3>1
    <3>. QED
      BY <3>2 DEF InScript
  <2>. QED
    BY <2>2, <2>3
<1>4. ASSUME NEW what \in Marks, NEW j, InScript(what, j)'
      PROVE  InScript(what, j) \/ (k \in Turn /\ j = k /\ what \in {how, "finished", "release"})
  <2>1. PICK u \in Thread, i \in Int : i \in Left(u, what, j)'
    BY <1>2, <1>4 DEF InScript
  <2>. QED
    BY <1>1, <2>1 DEF InScript, At
<1>5. ASSUME k \in Turn, NEW what \in {how, "finished", "release"} PROVE InScript(what, k)'
  <2>1. PICK i \in Int : At(i, what, how)
    BY DEF At
  <2>2. i \in Left(t, what, k)'
    BY <1>1, <1>5, <2>1 DEF Marks, Role
  <2>. QED
    BY <2>2 DEF InScript
<1>6. /\ Here(k) /\ ~Over(k) /\ Ended(k, how)'
      /\ \A j \in Task : j # k =>
           future'[j] = future[j] /\ outcome'[j] = outcome[j] /\ (j \in watched' <=> j \in watched)
      /\ UNCHANGED <<journal, queue, view, history, active, session>>
  BY DEF Ends
<1>7. /\ Here(k)' /\ Over(k)' /\ \A r : ~Ended(k, r) /\ (Ended(k, r)' => r = how)
  BY <1>6 DEF Here, Over, Ended
<1>8. \A j \in Task : j # k =>
              /\ (Here(j)' <=> Here(j)) /\ (Over(j)' <=> Over(j))
              /\ \A r : Ended(j, r)' <=> Ended(j, r)
  BY <1>6 DEF Here, Over, Ended
<1>. QED
  BY <1>3, <1>4, <1>5, <1>6, <1>7, <1>8

-----------------------------------------------------------------------------
\* What becomes of a future: it is submitted, its end is told, or its process ends.
LEMMA FutureStep ==
  ASSUME IInv, IInv', [Next]_guiVars, NEW k \in Task
  PROVE  /\ Here(k)' => Here(k) \/ Submit(k)
         /\ Here(k) => Here(k)' \/ Exit \/ Crash
         /\ Over(k) => Over(k)' \/ Exit \/ Crash
         /\ Over(k)' => \/ Over(k)
                        \/ \E t \in Thread, how \in Outcome, d \in Int : Ends(t, k, how, d)
         /\ \A r : Ended(k, r) => Ended(k, r)' \/ Exit \/ Crash
<1>. USE DEF IInv
<1>1. ASSUME Rests
      PROVE  /\ (Here(k)' <=> Here(k)) /\ (Over(k)' <=> Over(k))
             /\ \A r : Ended(k, r)' <=> Ended(k, r)
  BY <1>1 DEF Rests
<1>2. ASSUME NEW t \in Thread, AppendEvent(t) \/ PutEvent(t) \/ Passes(t) PROVE Rests
  BY <1>2, AppendKind, PutKind DEF Passes
<1>3. ASSUME NEW t \in Thread, NEW j \in Task, Release(t, j) PROVE Rests
  BY <1>3, ReleaseKind
<1>4. ASSUME NEW t \in Turn, SendChat(t) PROVE Rests
  BY <1>4 DEF SendChat, work, Rests, Here, Over, Ended
<1>5. (\E s : Sets(s)) \/ Still \/ Deliver => Rests
  BY DeliverKind DEF Sets, Still
<1>6. ASSUME NEW j \in Task, Submit(j)
      PROVE  IF j = k THEN ~Here(k) /\ ~Over(k)' /\ \A r : ~Ended(k, r)
             ELSE /\ (Here(k)' <=> Here(k)) /\ (Over(k)' <=> Over(k))
                  /\ \A r : Ended(k, r)' <=> Ended(k, r)
  <2>1. CASE j = k
    <3>1. ~Here(k) /\ ~Over(k)'
      BY <1>6, <2>1, SubmitKind
    <3>2. \A r : ~Ended(k, r)
      BY <3>1 DEF Here, Ended
    <3>. QED
      BY <2>1, <3>1, <3>2
  <2>2. CASE j # k
    BY <1>6, <2>2, SubmitKind
  <2>. QED
    BY <2>1, <2>2
<1>7. ASSUME NEW t \in Thread, NEW j \in Task, NEW how \in Outcome, NEW d \in Int,
             Ends(t, j, how, d)
      PROVE  IF j = k THEN Here(k) /\ Here(k)' /\ Over(k)' /\ \A r : ~Ended(k, r)
             ELSE /\ (Here(k)' <=> Here(k)) /\ (Over(k)' <=> Over(k))
                  /\ \A r : Ended(k, r)' <=> Ended(k, r)
  BY <1>7, EndsKind
<1>8. Over(k) => Here(k)
  BY DEF Over, Here
<1>. DEFINE Goal ==
       /\ Here(k)' => Here(k) \/ Submit(k)
       /\ Here(k) => Here(k)' \/ Exit \/ Crash
       /\ Over(k) => Over(k)' \/ Exit \/ Crash
       /\ Over(k)' => \/ Over(k)
                      \/ \E t \in Thread, how \in Outcome, d \in Int : Ends(t, k, how, d)
       /\ \A r : Ended(k, r) => Ended(k, r)' \/ Exit \/ Crash
<1>9. ASSUME Rests PROVE Goal
  BY <1>1, <1>9
<1>10. ASSUME NEW j \in Task, Submit(j) PROVE Goal
  BY <1>6, <1>8, <1>10
<1>11. ASSUME NEW t \in Thread, NEW j \in Task, NEW how \in Outcome, NEW d \in Int,
              Ends(t, j, how, d)
       PROVE  Goal
  BY <1>7, <1>11
<1>12. ASSUME Exit \/ Crash PROVE Goal
  BY <1>12, GoneKind
<1>. HIDE DEF Goal
<1>13. Goal
  BY StepKinds, <1>2, <1>3, <1>4, <1>5, <1>9, <1>10, <1>11, <1>12
<1>. QED
  BY <1>13 DEF Goal

\* What a turn was told stays, and is told only when it is asked.
LEMMA HistoryStep ==
  ASSUME IInv, IInv', [Next]_guiVars
  PROVE  /\ DOMAIN history \subseteq DOMAIN history'
         /\ \A t \in DOMAIN history' :
              \/ ToSet(history'[t]) = {}
              \/ t \in DOMAIN history /\ history'[t] = history[t]
              \/ t \in Turn /\ SendChat(t)
<1>. USE DEF IInv
<1>1. ASSUME history' = history
      PROVE  /\ DOMAIN history \subseteq DOMAIN history'
             /\ \A t \in DOMAIN history' : t \in DOMAIN history /\ history'[t] = history[t]
  BY <1>1
<1>2. ASSUME NEW t \in Thread, AppendEvent(t) \/ PutEvent(t) \/ Passes(t)
      PROVE  history' = history
  BY <1>2, AppendKind, PutKind DEF Passes
<1>3. ASSUME NEW t \in Thread, NEW j \in Task, Release(t, j) PROVE history' = history
  BY <1>3, ReleaseKind
<1>4. ASSUME NEW j \in Task, Submit(j) PROVE history' = history
  BY <1>4, SubmitKind
<1>5. ASSUME NEW t \in Thread, NEW j \in Task, NEW how \in Outcome, NEW d \in Int,
             Ends(t, j, how, d)
      PROVE  history' = history
  BY <1>5 DEF Ends
<1>6. Still \/ Deliver \/ Exit \/ Crash => history' = history
  BY DeliverKind, GoneKind DEF Still
<1>7. ASSUME NEW s, Sets(s)
      PROVE  /\ DOMAIN history \subseteq DOMAIN history'
             /\ \A t \in DOMAIN history' : \/ ToSet(history'[t]) = {}
                                           \/ t \in DOMAIN history /\ history'[t] = history[t]
  BY <1>7 DEF Sets
<1>8. ASSUME NEW t \in Turn, SendChat(t)
      PROVE  /\ DOMAIN history \subseteq DOMAIN history'
             /\ \A j \in DOMAIN history' : j # t => j \in DOMAIN history /\ history'[j] = history[j]
  BY <1>8 DEF SendChat, Asked
<1>. QED
  BY StepKinds, <1>1, <1>2, <1>3, <1>4, <1>5, <1>6, <1>7, <1>8

\* Nothing is taken from the journal, and what comes to it was in a script.
LEMMA JournalStep ==
  ASSUME IInv, IInv', [Next]_guiVars, NEW what, NEW k
  PROVE  /\ IndexOf(what, k) # {} => IndexOf(what, k)' # {}
         /\ IndexOf(what, k)' # {} => \/ IndexOf(what, k) # {}
                                      \/ InScript(what, k) /\ script' = script
<1>. USE DEF IInv
<1>1. ASSUME journal' = journal PROVE IndexOf(what, k)' = IndexOf(what, k)
  BY <1>1 DEF IndexOf
<1>2. ASSUME NEW t \in Thread, PutEvent(t) \/ Passes(t) PROVE journal' = journal
  BY <1>2, PutKind DEF Passes
<1>3. ASSUME NEW t \in Thread, NEW j \in Task, Release(t, j) PROVE journal' = journal
  BY <1>3, ReleaseKind
<1>4. ASSUME NEW j \in Task, Submit(j) PROVE journal' = journal
  BY <1>4, SubmitKind
<1>5. ASSUME NEW t \in Thread, NEW j \in Task, NEW how \in Outcome, NEW d \in Int,
             Ends(t, j, how, d)
      PROVE  journal' = journal
  BY <1>5 DEF Ends
<1>6. Still \/ Deliver \/ Exit \/ Crash \/ (\E s : Sets(s)) => journal' = journal
  BY DeliverKind, GoneKind DEF Still, Sets
<1>7. ASSUME NEW t \in Turn, SendChat(t) PROVE journal' = journal
  BY <1>7 DEF SendChat, disk
<1>8. ASSUME NEW t \in Thread, AppendEvent(t)
      PROVE  /\ IndexOf(what, k) \subseteq IndexOf(what, k)' /\ script' = script
             /\ IndexOf(what, k)' # {} => IndexOf(what, k) # {} \/ InScript(what, k)
  BY <1>8, AppendKind
<1>. QED
  BY StepKinds, <1>1, <1>2, <1>3, <1>4, <1>5, <1>6, <1>7, <1>8

\* What comes to a script: a turn is asked, or its end is told.
LEMMA ScriptStep ==
  ASSUME IInv, IInv', [Next]_guiVars, NEW what \in Marks, NEW k,
         what \in Role => k \in Turn, InScript(what, k)'
  PROVE  \/ InScript(what, k)
         \/ k \in Turn /\ SendChat(k) /\ what = "user"
         \/ /\ k \in Turn /\ what # "user"
            /\ \E t \in Thread, how \in Outcome, d \in Int :
                 Ends(t, k, how, d) /\ what \in {how, "finished", "release"}
<1>. USE DEF IInv
<1>1. ASSUME script' = script PROVE InScript(what, k)
  BY <1>1, LeftSame
<1>2. ASSUME NEW t \in Thread, script[t] # <<>>, Skip(t) PROVE InScript(what, k)
  BY <1>2, LeftSkip
<1>3. ASSUME NEW t \in Thread, AppendEvent(t) \/ PutEvent(t) \/ Passes(t)
      PROVE  InScript(what, k)
  BY <1>1, <1>2, <1>3, AppendKind, PutKind DEF Passes
<1>4. ASSUME NEW t \in Thread, NEW j \in Task, Release(t, j) PROVE InScript(what, k)
  BY <1>2, <1>4, ReleaseKind
<1>5. ASSUME NEW j \in Task, Submit(j) PROVE InScript(what, k)
  BY <1>2, <1>5, SubmitKind
<1>6. Still \/ Deliver => InScript(what, k)
  BY <1>1, DeliverKind DEF Still
<1>7. ~(Exit \/ Crash)
  BY GoneKind
<1>8. ASSUME NEW s, Sets(s) PROVE InScript(what, k)
  <2>1. \A i \in DOMAIN s : s[i] # <<what, k>>
    <3>1. CASE what \in Role
      BY <1>8, <3>1 DEF Sets
    <3>2. CASE what \in {"finished", "release"}
      BY <1>8, <3>2 DEF Sets
    <3>. QED
      BY <3>1, <3>2 DEF Marks
  <2>. QED
    BY <1>8, <2>1, LeftRun DEF Sets
<1>9. ASSUME NEW t \in Turn, SendChat(t), ~(t = k /\ what = "user") PROVE InScript(what, k)
  <2>1. script["ui"] = <<>> /\ Run("ui", SendSteps(t))
    BY <1>9 DEF SendChat, UiFree, SendSteps
  <2>2. \A i \in DOMAIN SendSteps(t) : SendSteps(t)[i] # <<what, k>>
    BY <1>9 DEF SendSteps, Marks, Role, Outcome
  <2>. QED
    BY <2>1, <2>2, LeftRun
<1>10. ASSUME NEW t \in Thread, NEW j \in Task, NEW how \in Outcome, NEW d \in Int,
             Ends(t, j, how, d)
      PROVE  \/ InScript(what, k)
             \/ j = k /\ k \in Turn /\ what # "user" /\ what \in {how, "finished", "release"}
  BY <1>10, EndsKind DEF Outcome
<1>. QED
  BY StepKinds, <1>3, <1>4, <1>5, <1>6, <1>7, <1>8, <1>9, <1>10

\* What is left of a script is put in the queue, or its process ends.
LEMMA ScriptKeeps ==
  ASSUME IInv, IInv', [Next]_guiVars, NEW what \in Role \cup {"finished"}, NEW k, InScript(what, k)
  PROVE  \/ InScript(what, k)' \/ Exit \/ Crash
         \/ \E t \in Thread : PutEvent(t) /\ NextStep(t) = <<what, k>>
<1>. USE DEF IInv
<1>0. what \notin {"watch", "cancel", "release", "submit"} /\ what \in Marks
  BY DEF Role, Outcome, Marks
<1>1. ASSUME script' = script PROVE InScript(what, k)'
  BY <1>1, LeftSame
<1>2. ASSUME NEW t \in Thread, script[t] # <<>>, Skip(t), NextStep(t) # <<what, k>>
      PROVE  InScript(what, k)'
  BY <1>2, LeftSkip
<1>3. ASSUME NEW t \in Thread, AppendEvent(t) \/ Passes(t) PROVE InScript(what, k)'
  BY <1>0, <1>1, <1>2, <1>3, AppendKind DEF Passes
<1>p. ASSUME NEW t \in Thread, PutEvent(t), NextStep(t) # <<what, k>> PROVE InScript(what, k)'
  BY <1>2, <1>p, PutKind
<1>4. ASSUME NEW t \in Thread, NEW j \in Task, Release(t, j) PROVE InScript(what, k)'
  BY <1>0, <1>2, <1>4, ReleaseKind
<1>5. ASSUME NEW j \in Task, Submit(j) PROVE InScript(what, k)'
  BY <1>0, <1>2, <1>5, SubmitKind
<1>6. Still \/ Deliver => InScript(what, k)'
  BY <1>1, DeliverKind DEF Still
<1>7. ASSUME NEW s, script["ui"] = <<>>, Run("ui", s) PROVE InScript(what, k)'
  <2>1. PICK u \in Thread : Left(u, what, k) # {}
    BY DEF InScript
  <2>2. u # "ui"
    BY <1>7, <2>1 DEF Left
  <2>3. script'[u] = script[u]
    BY <1>7, <2>2 DEF Run, Typed
  <2>. QED
    BY <2>1, <2>3 DEF InScript, Left
<1>8. (\E s : Sets(s)) \/ (\E t \in Turn : SendChat(t)) => InScript(what, k)'
  BY <1>7 DEF Sets, SendChat, UiFree
<1>9. ASSUME NEW t \in Thread, NEW j \in Task, NEW how \in Outcome, NEW d \in Int,
             Ends(t, j, how, d)
      PROVE  InScript(what, k)'
  BY <1>0, <1>9, EndsKind
<1>. QED
  BY StepKinds, <1>3, <1>p, <1>4, <1>5, <1>6, <1>8, <1>9

-----------------------------------------------------------------------------
\* The base of what follows: the threads, the journal and what is shown.
Base == IInv /\ Locked /\ ChainHolds /\ Shown

\* The queue: an event is put at its end, or all are delivered.
LEMMA QueueStep ==
  ASSUME IInv, IInv', [Next]_guiVars
  PROVE  \/ queue' = queue /\ \A what, k : Waiting(what, k)' = Waiting(what, k)
         \/ \E t \in Thread : PutEvent(t)
         \/ queue' = <<>> /\ (Deliver \/ Exit \/ Crash) /\ \A what, k : Waiting(what, k)' = {}
<1>. USE DEF IInv
<1>1. ASSUME queue' = queue PROVE \A what, k : Waiting(what, k)' = Waiting(what, k)
  BY <1>1 DEF Waiting
<1>2. ASSUME NEW t \in Thread, AppendEvent(t) \/ Passes(t) PROVE queue' = queue
  BY <1>2, AppendKind DEF Passes
<1>3. ASSUME NEW t \in Thread, NEW j \in Task, Release(t, j) PROVE queue' = queue
  BY <1>3, ReleaseKind
<1>4. ASSUME NEW j \in Task, Submit(j) PROVE queue' = queue
  BY <1>4, SubmitKind
<1>5. ASSUME NEW t \in Thread, NEW j \in Task, NEW how \in Outcome, NEW d \in Int,
             Ends(t, j, how, d)
      PROVE  queue' = queue
  BY <1>5 DEF Ends
<1>6. Still \/ (\E s : Sets(s)) \/ (\E t \in Turn : SendChat(t)) => queue' = queue
  BY DEF Still, Sets, SendChat
<1>7. Deliver \/ Exit \/ Crash => queue' = <<>>
  BY DeliverKind, GoneKind
<1>8. ASSUME queue' = <<>> PROVE \A what, k : Waiting(what, k)' = {}
  BY <1>8 DEF Waiting
<1>. QED
  BY StepKinds, <1>1, <1>2, <1>3, <1>4, <1>5, <1>6, <1>7, <1>8

\* The view is changed by a delivery and by the ends of a process.
LEMMA ViewStep ==
  ASSUME IInv, IInv', [Next]_guiVars
  PROVE  view' = view \/ Deliver \/ Start \/ Exit \/ Crash
<1>. USE DEF IInv
<1>2. ASSUME NEW t \in Thread, AppendEvent(t) \/ PutEvent(t) \/ Passes(t) PROVE view' = view
  BY <1>2, AppendKind, PutKind DEF Passes
<1>3. ASSUME NEW t \in Thread, NEW j \in Task, Release(t, j) PROVE view' = view
  BY <1>3, ReleaseKind
<1>4. ASSUME NEW j \in Task, Submit(j) PROVE view' = view
  BY <1>4, SubmitKind
<1>5. ASSUME NEW t \in Thread, NEW j \in Task, NEW how \in Outcome, NEW d \in Int,
             Ends(t, j, how, d)
      PROVE  view' = view
  BY <1>5 DEF Ends
<1>6. Still \/ (\E t \in Turn : SendChat(t)) => view' = view
  BY DEF Still, SendChat
<1>7. (\E s : Sets(s)) => view' = view \/ Start
  BY DEF Sets
<1>. QED
  BY StepKinds, <1>2, <1>3, <1>4, <1>5, <1>6, <1>7

\* A process that is started, or has ended, has no task.
LEMMA NoneHere ==
  ASSUME IInv, IInv', Start \/ Exit \/ Crash, NEW k \in Task
  PROVE  ~Here(k)' /\ (Start => ~Here(k) /\ queue' = queue /\ session = "down"
                                /\ script["ui"] = <<>>)
<1>1. CASE Exit \/ Crash
  <2>1. ~Here(k)'
    BY <1>1, GoneKind DEF IInv
  <2>2. Start => session = "down" /\ session' = "up"
    BY DEF Start
  <2>3. Exit \/ Crash => session' = "down"
    BY DEF Exit, Crash, Forget
  <2>. QED
    BY <1>1, <2>1, <2>2, <2>3
<1>2. CASE Start
  <2>1. session = "down" /\ future' = future /\ queue' = queue
    BY <1>2 DEF Start, work
  <2>2. future[k] = "none" /\ script["ui"] = <<>>
    BY <2>1 DEF IInv, Gone, Thread
  <2>. QED
    BY <2>1, <2>2, <1>1 DEF Here
<1>. QED
  BY <1>1, <1>2

\* What is shown after a delivery.
LEMMA DeliverStep ==
  ASSUME Base, Deliver, NEW k, NEW r \in Role
  PROVE  Shows(k, r)' <=> Shows(k, r) \/ Waiting(r, k) # {}
<1>1. /\ view' = After(view, queue)
      /\ ToSet(After(view, queue).messages) = ToSet(view.messages) \cup Lines(queue, Len(queue))
  BY DeliverKind, DeliverShows DEF Base, Shown, IInv
<1>2. Line(k, r) \in Lines(queue, Len(queue)) <=> Waiting(r, k) # {}
  <2>1. DOMAIN queue = 1..Len(queue)
    BY DEF Base, IInv, Typed
  <2>. QED
    BY <2>1 DEF Lines, Line, Waiting
<1>3. Shows(k, r)' <=> Line(k, r) \in ToSet(After(view, queue).messages)
  BY <1>1 DEF Shows
<1>. QED
  BY <1>1, <1>2, <1>3 DEF Shows

\* What is shown or waits to be shown is recorded.
LEMMA ShowsIs ==
  ASSUME Base, NEW k, NEW r \in Role, IndexOf(r, k) = {}
  PROVE  ~Shows(k, r) /\ Waiting(r, k) = {}
<1>1. Line(k, r) \notin Recorded
  BY RecordedIs DEF Base, IInv, Typed
<1>2. ~Shows(k, r)
  BY <1>1 DEF Shows, Base, Shown
<1>3. ASSUME NEW i \in Waiting(r, k) PROVE FALSE
  <2>1. queue[i] \in ToSet(journal) /\ queue[i].kind = r /\ queue[i].task = k
    BY <1>3 DEF Waiting, Base, ChainHolds
  <2>. QED
    BY <2>1 DEF IndexOf, ToSet
<1>. QED
  BY <1>2, <1>3

\* The end of a turn is said when it is in the journal or left in a script.
LEMMA SaidIs == Base => \A k \in Turn : Said(k) <=> IndexOf("finished", k) # {}
                                                   \/ InScript("finished", k)
<1>. SUFFICES ASSUME Base, NEW k \in Turn
              PROVE  Said(k) <=> IndexOf("finished", k) # {} \/ InScript("finished", k)
  OBVIOUS
<1>1. ASSUME ~Said(k) PROVE IndexOf("finished", k) = {} /\ ~InScript("finished", k)
  BY <1>1, SaidOf DEF Base, IInv, InScript
<1>2. \A t \in Thread : Pending(t, k) \subseteq Left(t, "finished", k)
  BY DEF Pending, Left, Open
<1>. QED
  BY <1>1, <1>2 DEF Said, InScript
\* The same, of the state after a step.
LEMMA SaidIsNext == Base' => \A k \in Turn : Said(k)' <=> IndexOf("finished", k)' # {}
                                                         \/ InScript("finished", k)'
<1>1. (Base => \A k \in Turn : Said(k) <=> IndexOf("finished", k) # {}
                                                   \/ InScript("finished", k))'
  BY SaidIs, PTL
<1>. QED
  BY <1>1

\* The question of a turn is emitted when the turn is begun.
LEMMA UserBegun ==
  ASSUME IInv, NEW k \in Task, InScript("user", k)
  PROVE  script["ui"] \in Begun(k) /\ ~Here(k)
<1>0. PICK t \in Thread : Left(t, "user", k) # {}
  BY DEF InScript
<1>1. PICK i \in DOMAIN script[t] : script[t][i] = <<"user", k>>
  BY <1>0 DEF Left
<1>2. "user" \notin Reports
  BY DEF Reports, Outcome
<1>3. t = "ui" /\ ~Reporting(script["ui"])
  BY <1>1, <1>2 DEF IInv, Shape, Reporting, Thread
<1>4. ~Opens
  BY <1>1, <1>3 DEF Opens
<1>5. \A j \in Task : ~Watches(j)
  BY <1>1, <1>3 DEF Watches
<1>6. PICK j \in Task : script["ui"] \in Begun(j)
  BY <1>3, <1>4, <1>5 DEF IInv, Shape, UiShape
<1>7. j = k
  BY <1>1, <1>3, <1>6 DEF Begun
<1>. QED
  BY <1>6, <1>7 DEF IInv, Futures, Here

\* How a turn is begun.
LEMMA BegunStep ==
  ASSUME IInv, IInv', [Next]_guiVars, NEW k \in Turn, script'["ui"] \in Begun(k)
  PROVE  \/ SendChat(k) /\ script'["ui"] = SendSteps(k)
         \/ script'["ui"] = script["ui"]
         \/ /\ PutEvent("ui") /\ script["ui"] \in Begun(k)
            /\ script'["ui"][1] \in {<<"started", k>>, <<"submit", k>>}
            /\ script'["ui"] = Tail(script["ui"])
<1>. USE DEF IInv
<1>0. k \in Task /\ "ui" \in Thread
  BY DEF Task, Thread
<1>1. ASSUME NEW t \in Thread, script[t] # <<>>, Skip(t), ~PutEvent(t),
             NextStep(t)[1] \notin EventKind
      PROVE  script'["ui"] = script["ui"]
  <2>1. CASE t = "ui"
    BY <1>0, <1>1, <2>1, UiNext DEF Shape
  <2>2. CASE t # "ui"
    BY <1>1, <2>2 DEF Skip, Typed, Thread
  <2>. QED
    BY <2>1, <2>2
<1>2. ASSUME NEW t \in Thread, PutEvent(t), script'["ui"] # script["ui"]
      PROVE  /\ t = "ui" /\ script["ui"] \in Begun(k)
             /\ script'["ui"][1] \in {<<"started", k>>, <<"submit", k>>}
             /\ script'["ui"] = Tail(script["ui"])
  <2>1. script[t] # <<>> /\ Skip(t)
    BY <1>2, PutKind
  <2>2. t = "ui"
    BY <1>2, <2>1 DEF Skip, Typed, Thread
  <2>3. script["ui"] \in Begun(k) /\ script'["ui"] = Tail(script["ui"])
    BY <1>0, <2>1, <2>2, UiNext DEF Shape, Skip, Typed
  <2>4. \/ Tail(script["ui"]) = <<<<"watch", k>>>>
        \/ Tail(script["ui"])[1] \in {<<"started", k>>, <<"submit", k>>}
    BY <2>3, BegunNext
  <2>5. <<<<"watch", k>>>> \notin Begun(k)
    BY DEF Begun
  <2>. QED
    BY <2>2, <2>3, <2>4, <2>5
<1>3. ASSUME NEW t \in Thread, AppendEvent(t) \/ Passes(t) PROVE script'["ui"] = script["ui"]
  <2>1. CASE AppendEvent(t)
    BY <2>1 DEF AppendEvent
  <2>2. CASE Passes(t) /\ ~PutEvent(t)
    BY <1>1, <2>2 DEF Passes, EventKind
  <2>3. ~(Passes(t) /\ PutEvent(t))
    <3>. SUFFICES ASSUME Passes(t), PutEvent(t) PROVE FALSE
      OBVIOUS
    <3>1. NextStep(t)[1] \in EventKind
      BY DEF PutEvent, Emits, Says
    <3>. QED
      BY <3>1 DEF Passes, EventKind
  <2>. QED
    BY <1>3, <2>1, <2>2, <2>3
<1>4. ASSUME NEW t \in Thread, NEW j \in Task, Release(t, j) PROVE script'["ui"] = script["ui"]
  <2>1. script[t] # <<>> /\ Skip(t) /\ NextStep(t) = <<"release", j>>
    BY <1>4, ReleaseKind
  <2>2. ~PutEvent(t)
    BY <2>1 DEF PutEvent, Emits, Says, EventKind
  <2>. QED
    BY <1>1, <2>1, <2>2 DEF EventKind
<1>5. ASSUME NEW j \in Task, Submit(j) PROVE FALSE
  <2>1. script'["ui"] = <<<<"watch", j>>>>
    BY <1>5, SubmitKind
  <2>. QED
    BY <2>1 DEF Begun
<1>6. Still \/ Deliver => script'["ui"] = script["ui"]
  BY DeliverKind DEF Still
<1>7. ASSUME NEW s, Sets(s) PROVE FALSE
  BY <1>0, <1>7 DEF Sets, Run, Typed
<1>8. ASSUME NEW t \in Turn, SendChat(t) PROVE t = k /\ script'["ui"] = SendSteps(k)
  <2>1. script'["ui"] = SendSteps(t)
    BY <1>0, <1>8 DEF SendChat, Run, Typed, SendSteps
  <2>2. t = k
    BY <2>1 DEF SendSteps, Begun
  <2>. QED
    BY <2>1, <2>2
<1>9. ASSUME NEW t \in Thread, NEW j \in Task, NEW how \in Outcome, NEW d \in Int,
             Ends(t, j, how, d)
      PROVE  script'["ui"] = script["ui"]
  BY <1>0, <1>9 DEF Ends
<1>10. ~(Exit \/ Crash)
  <2>. SUFFICES ASSUME Exit \/ Crash PROVE FALSE
    OBVIOUS
  <2>1. script'["ui"] = <<>>
    BY <1>0, GoneKind
  <2>. QED
    BY <2>1 DEF Begun
<1>. QED
  BY StepKinds, <1>2, <1>3, <1>4, <1>5, <1>6, <1>7, <1>8, <1>9, <1>10

-----------------------------------------------------------------------------
\* What is asked while the session is up: the view has what was recorded of a turn.
LEMMA SendHears ==
  ASSUME Base, NEW t \in Turn, SendChat(t), NEW k, NEW r, Heard(t, k, r)'
  PROVE  Shows(k, r) /\ r \in Role
<1>1. /\ r \in {"user", "assistant"}
      /\ \E i \in DOMAIN view.messages : view.messages[i] = Line(k, r)
  BY ZenonT(60), SendKind DEF Base, IInv, Shown
<1>. QED
  BY <1>1 DEF Shows, ToSet, Role, Outcome

\* A process that is down puts nothing in the queue, and one that goes down clears it.
LEMMA EmptyStep ==
  ASSUME Base, Base', Empty, [Next]_guiVars
  PROVE  Empty'
<1>. USE DEF Base, IInv
<1>1. ASSUME NEW t \in Thread, PutEvent(t) PROVE session' # "down"
  BY <1>1, PutKind DEF PutEvent, Gone
<1>2. CASE session' = "down" /\ session # "down"
  <2>1. Exit \/ Crash
    BY <1>2 DEF Next, UiStep, WorkerStep, User, Emission, ReadHead, AppendEvent, PutEvent, Release,
       Submit, Watch, Cancel, Deliver, SaveProjection, Take, Finish, SendChat, StartOperation,
       StopChat, NewChat, Close, Start, guiVars, life
  <2>. QED
    BY <2>1, GoneKind DEF Empty
<1>. QED
  BY <1>1, <1>2, QueueStep DEF Empty

\* Nothing is said of a turn before it is asked: its number is used only by asking it.
LEMMA UnaskedStep ==
  ASSUME Base, Base', Unasked, [Next]_guiVars
  PROVE  Unasked'
<1>. SUFFICES ASSUME NEW k \in Turn, Unused(k)'
              PROVE  /\ \A r \in Role : IndexOf(r, k)' = {} /\ ~InScript(r, k)'
                     /\ \A t \in DOMAIN history' : ~Heard(t, k, "user")'
                     /\ k # active'
  BY DEF Unasked
<1>. USE DEF Base
<1>0. k \in Task /\ k # None /\ k \in Turn
  BY GuiAssumption DEF Task
<1>1. Unused(k)
  BY HistoryStep DEF Unused
<1>2. /\ \A r \in Role : IndexOf(r, k) = {} /\ ~InScript(r, k)
      /\ \A t \in DOMAIN history : ~Heard(t, k, "user")
      /\ k # active
  BY <1>1 DEF Unasked
<1>3. ~Here(k)
  BY <1>0, <1>1 DEF IInv, Futures, Here
<1>4. \A t \in Turn : SendChat(t) => t # k
  BY DEF SendChat, Asked, Unused
<1>5. ASSUME NEW r \in Role PROVE IndexOf(r, k)' = {} /\ ~InScript(r, k)'
  <2>1. r \in Marks
    BY DEF Marks
  <2>2. IndexOf(r, k)' = {}
    BY <1>2, JournalStep
  <2>3. ~InScript(r, k)'
    BY <1>0, <1>2, <1>3, <1>4, <2>1, ScriptStep DEF Ends
  <2>. QED
    BY <2>2, <2>3
<1>6. ASSUME NEW t \in DOMAIN history', Heard(t, k, "user")' PROVE FALSE
  <2>1. ToSet(history'[t]) # {}
    BY <1>6 DEF Heard
  <2>2. CASE t \in DOMAIN history /\ history'[t] = history[t]
    BY <1>2, <1>6, <2>2 DEF Heard
  <2>3. CASE t \in Turn /\ SendChat(t)
    <3>1. "user" \in Role
      BY DEF Role
    <3>2. Shows(k, "user")
      BY <1>6, <2>3, SendHears
    <3>. QED
      BY <1>2, <3>1, <3>2, ShowsIs
  <2>. QED
    BY <2>1, <2>2, <2>3, HistoryStep
<1>7. k # active'
  <2>1. \A t \in Thread, j \in Task : Release(t, j) => active' = None \/ active' = active
    BY DEF Release
  <2>2. \A t \in Turn : SendChat(t) => active' = t
    BY DEF SendChat
  <2>3. \A t \in Thread : AppendEvent(t) \/ PutEvent(t) \/ Passes(t) => active' = active
    BY DEF AppendEvent, PutEvent, Passes
  <2>4. \A j \in Task : Submit(j) => active' = active
    BY DEF Submit
  <2>5. Still \/ Deliver \/ (\E s : Sets(s)) => active' = active
    BY DEF Still, Deliver, Sets
  <2>6. Exit \/ Crash => active' = None
    BY GoneKind DEF IInv
  <2>7. \A t \in Thread, j \in Task, how \in Outcome, d \in Int :
          Ends(t, j, how, d) => active' = active
    BY DEF Ends
  <2>. QED
    BY <1>0, <1>2, <1>4, <2>1, <2>2, <2>3, <2>4, <2>5, <2>6, <2>7, StepKinds
<1>. QED
  BY <1>5, <1>6, <1>7

\* A turn that is begun has no future, so nothing tells of its end; and nothing is
\* delivered while the Tk thread begins it.
LEMMA BeginningStep ==
  ASSUME Base, Base', Unasked, Beginning, [Next]_guiVars
  PROVE  Beginning'
<1>. SUFFICES ASSUME NEW k \in Turn, script'["ui"] \in Begun(k)
              PROVE  /\ \A r \in Outcome : IndexOf(r, k)' = {} /\ ~InScript(r, k)'
                     /\ ~Shows(k, "user")'
                     /\ \A t \in DOMAIN history' : ~Heard(t, k, "user")'
  BY DEF Beginning
<1>. USE DEF Base
<1>0. k \in Task /\ "user" \in Role
  BY DEF Task, Role
<1>1. /\ \A r \in Outcome : IndexOf(r, k) = {} /\ ~InScript(r, k)
      /\ ~Shows(k, "user") /\ ~Here(k)
      /\ \A t \in DOMAIN history : ~Heard(t, k, "user")
      /\ SendChat(k) \/ script["ui"] \in Begun(k)
  <2>1. CASE SendChat(k)
    <3>1. Unused(k)
      BY <2>1 DEF SendChat, NextOf
    <3>2. ~Here(k)
      BY <1>0, <3>1 DEF IInv, Futures, Here
    <3>3. IndexOf("user", k) = {}
      BY <1>0, <3>1 DEF Unasked
    <3>4. ~Shows(k, "user")
      BY <1>0, <3>3, ShowsIs
    <3>. QED
      BY <2>1, <3>1, <3>2, <3>4 DEF Unasked, Role
  <2>2. CASE script["ui"] \in Begun(k)
    <3>1. ~Here(k)
      BY <1>0, <2>2 DEF IInv, Futures, Here
    <3>. QED
      BY <2>2, <3>1 DEF Beginning
  <2>. QED
    BY <2>1, <2>2, BegunStep
<1>2. ASSUME NEW r \in Outcome PROVE IndexOf(r, k)' = {} /\ ~InScript(r, k)'
  <2>1. r \in Marks /\ r # "user"
    BY DEF Marks, Role, Outcome
  <2>2. IndexOf(r, k)' = {}
    BY <1>1, JournalStep
  <2>3. ~InScript(r, k)'
    BY <1>1, <2>1, ScriptStep DEF Ends
  <2>. QED
    BY <2>2, <2>3
<1>3. ~Shows(k, "user")'
  <2>1. CASE view' = view
    BY <1>1, <2>1 DEF Shows
  <2>2. ~Deliver
    BY <1>1 DEF Deliver, Drains, SendChat, UiFree, Begun
  <2>3. ~(Exit \/ Crash)
    <3>. SUFFICES ASSUME Exit \/ Crash PROVE FALSE
      OBVIOUS
    <3>1. script'["ui"] = <<>>
      BY GoneKind DEF IInv, Thread
    <3>. QED
      BY <3>1 DEF Begun
  <2>4. ~Start
    <3>. SUFFICES ASSUME Start PROVE FALSE
      OBVIOUS
    <3>1. session = "down" /\ script["ui"] = <<>>
      BY <1>0, NoneHere
    <3>. QED
      BY <1>1, <3>1 DEF SendChat, UiFree, Begun
  <2>. QED
    BY <2>1, <2>2, <2>3, <2>4, ViewStep
<1>4. ASSUME NEW t \in DOMAIN history', Heard(t, k, "user")' PROVE FALSE
  <2>1. ToSet(history'[t]) # {}
    BY <1>4 DEF Heard
  <2>2. CASE t \in DOMAIN history /\ history'[t] = history[t]
    BY <1>1, <1>4, <2>2 DEF Heard
  <2>3. CASE t \in Turn /\ SendChat(t)
    BY <1>1, <1>4, <2>3, SendHears
  <2>. QED
    BY <2>1, <2>2, <2>3, HistoryStep
<1>. QED
  BY <1>2, <1>3, <1>4

\* A message that ends a turn comes from the callback of its future.
LEMMA EndingsStep ==
  ASSUME Base, Base', Beginning, Endings, [Next]_guiVars
  PROVE  Endings'
<1>. SUFFICES ASSUME NEW k \in Turn, NEW r \in Outcome
              PROVE  /\ InScript(r, k)' => Ended(k, r)'
                     /\ IndexOf(r, k)' # {} /\ Here(k)' => Ended(k, r)'
  BY DEF Endings
<1>. USE DEF Base
<1>0. k \in Task /\ r \in Marks /\ r # "user" /\ r \notin {"finished", "release"}
  BY DEF Task, Marks, Role, Outcome
<1>1. ASSUME Exit \/ Crash PROVE ~InScript(r, k)' /\ ~Here(k)'
  BY <1>0, <1>1, GoneKind DEF IInv
<1>2. ASSUME InScript(r, k) \/ (IndexOf(r, k) # {} /\ Here(k)), ~(Exit \/ Crash)
      PROVE  Ended(k, r)'
  <2>1. Ended(k, r)
    BY <1>2 DEF Endings
  <2>. QED
    BY <1>0, <1>2, <2>1, FutureStep
<1>3. ASSUME InScript(r, k)', ~(Exit \/ Crash) PROVE Ended(k, r)'
  <2>1. ASSUME NEW t \in Thread, NEW how \in Outcome, NEW d \in Int, Ends(t, k, how, d),
               r \in {how, "finished", "release"}
        PROVE  Ended(k, r)'
    BY <1>0, <2>1 DEF Ends
  <2>. QED
    BY <1>0, <1>2, <1>3, <2>1, ScriptStep
<1>4. ASSUME IndexOf(r, k)' # {}, Here(k)', ~(Exit \/ Crash) PROVE Ended(k, r)'
  <2>1. CASE Submit(k)
    <3>1. script["ui"] \in Begun(k)
      BY <1>0, <2>1, SubmitKind DEF IInv
    <3>. QED
      BY <1>4, <3>1, JournalStep DEF Beginning
  <2>2. CASE Here(k)
    BY <1>2, <1>4, <2>2, JournalStep
  <2>. QED
    BY <1>0, <1>4, <2>1, <2>2, FutureStep
<1>. QED
  BY <1>1, <1>3, <1>4

-----------------------------------------------------------------------------
\* What is left of the scripts of a turn moves on together, or its end is told.
Later == Outcome \cup {"finished", "release"}
MovesOn(k) ==
  \A u \in Thread : \E c \in Int :
    /\ \A what \in Later : \A i \in Int : i \in Left(u, what, k)' => i + c \in Left(u, what, k)
    /\ \A what, other \in Later : \A i, j \in Int :
         i \in Left(u, what, k)' /\ i < j /\ j + c \in Left(u, other, k) =>
           j \in Left(u, other, k)'
\* Every step moves what is left of a turn on, but the one that tells of its end.
LEMMA LeftStep ==
  ASSUME IInv, IInv', [Next]_guiVars, NEW k \in Turn
  PROVE  \/ MovesOn(k)
         \/ \E t \in Thread, how \in Outcome, d \in Int : Ends(t, k, how, d)
<1>. USE DEF IInv
<1>0. k \in Task /\ k \in Turn /\ Later \subseteq Marks /\ 0 \in Int /\ 1 \in Int
  BY DEF Task, Later, Marks, Role
<1>1. ASSUME \A u \in Thread, what \in Later : Left(u, what, k)' = Left(u, what, k)
      PROVE  MovesOn(k)
  <2>1. \A i \in Int : i + 0 = i
    OBVIOUS
  <2>. QED
    BY <1>0, <1>1, <2>1 DEF MovesOn
<1>2. ASSUME script' = script PROVE MovesOn(k)
  BY <1>1, <1>2, LeftSame
<1>3. ASSUME NEW t \in Thread, script[t] # <<>>, Skip(t) PROVE MovesOn(k)
  <2>1. \A u \in Thread : \A what : \A i \in Int :
          i \in Left(u, what, k)' <=>
            IF u = t THEN i > 0 /\ i + 1 \in Left(t, what, k) ELSE i \in Left(u, what, k)
    BY <1>3, LeftSkip
  <2>2. ASSUME NEW u \in Thread
        PROVE  \E c \in Int :
          /\ \A what \in Later : \A i \in Int :
               i \in Left(u, what, k)' => i + c \in Left(u, what, k)
          /\ \A what, other \in Later : \A i, j \in Int :
               i \in Left(u, what, k)' /\ i < j /\ j + c \in Left(u, other, k) =>
                 j \in Left(u, other, k)'
    <3>1. CASE u = t
      <4>1. \A what \in Later : \A i \in Int :
              i \in Left(u, what, k)' => i > 0 /\ i + 1 \in Left(u, what, k)
        BY <2>1, <3>1
      <4>2. \A other \in Later : \A i, j \in Int :
              i > 0 /\ i < j /\ j + 1 \in Left(u, other, k) => j \in Left(u, other, k)'
        BY <2>1, <3>1
      <4>. QED
        BY <1>0, <4>1, <4>2
    <3>2. CASE u # t
      <4>1. \A what \in Later : \A i \in Int :
              i + 0 = i /\ (i \in Left(u, what, k)' <=> i \in Left(u, what, k))
        BY <2>1, <3>2
      <4>. QED
        BY <1>0, <4>1
    <3>. QED
      BY <3>1, <3>2
  <2>. QED
    BY <2>2 DEF MovesOn
<1>4. ASSUME NEW t \in Thread, AppendEvent(t) \/ PutEvent(t) \/ Passes(t) PROVE MovesOn(k)
  BY <1>2, <1>3, <1>4, AppendKind, PutKind DEF Passes
<1>5. ASSUME NEW t \in Thread, NEW j \in Task, Release(t, j) PROVE MovesOn(k)
  BY <1>3, <1>5, ReleaseKind
<1>6. ASSUME NEW j \in Task, Submit(j) PROVE MovesOn(k)
  BY <1>3, <1>6, SubmitKind
<1>7. Still \/ Deliver => MovesOn(k)
  BY <1>2, DeliverKind DEF Still
<1>8. ASSUME Exit \/ Crash PROVE MovesOn(k)
  <2>1. \A u \in Thread : \A what : Left(u, what, k)' = {}
    BY <1>8, GoneKind
  <2>. QED
    BY <1>0, <2>1 DEF MovesOn
<1>9. ASSUME NEW s, script["ui"] = <<>>, Run("ui", s),
             \A what \in Later, i \in DOMAIN s : s[i] # <<what, k>>
      PROVE  MovesOn(k)
  <2>1. \A what \in Later : \A u \in Thread : Left(u, what, k)' = Left(u, what, k)
    BY <1>9, LeftRun
  <2>. QED
    BY <1>1, <2>1
<1>10. ASSUME NEW s, Sets(s) PROVE MovesOn(k)
  <2>1. \A what \in Later, i \in DOMAIN s : s[i] # <<what, k>>
    BY <1>10 DEF Sets, Later, Role
  <2>. QED
    BY <1>9, <1>10, <2>1 DEF Sets
<1>11. ASSUME NEW t \in Turn, SendChat(t) PROVE MovesOn(k)
  <2>1. \A what \in Later, i \in DOMAIN SendSteps(t) : SendSteps(t)[i] # <<what, k>>
    BY DEF SendSteps, Later, Outcome
  <2>2. script["ui"] = <<>> /\ Run("ui", SendSteps(t))
    BY <1>11 DEF SendChat, UiFree, SendSteps
  <2>. QED
    BY <1>9, <2>1, <2>2
<1>12. ASSUME NEW t \in Thread, NEW j \in Task, NEW how \in Outcome, NEW d \in Int,
              Ends(t, j, how, d), j # k
       PROVE  MovesOn(k)
  <2>1. \A u \in Thread, what \in Later : \A i \in Int :
          i \in Left(u, what, k)' <=> IF u = t THEN i - d \in Left(t, what, k)
                                               ELSE i \in Left(u, what, k)
    BY <1>0, <1>12 DEF Ends
  <2>2. ASSUME NEW u \in Thread
        PROVE  \E c \in Int :
          \A what \in Later : \A i \in Int : i \in Left(u, what, k)' <=> i + c \in Left(u, what, k)
    <3>1. CASE u = t
      <4>1. -d \in Int /\ \A i \in Int : i + (-d) = i - d
        OBVIOUS
      <4>. QED
        BY <2>1, <3>1, <4>1
    <3>2. CASE u # t
      <4>1. \A i \in Int : i + 0 = i
        OBVIOUS
      <4>. QED
        BY <1>0, <2>1, <3>2, <4>1
    <3>. QED
      BY <3>1, <3>2
  <2>. QED
    BY <2>2 DEF MovesOn
<1>. QED
  BY StepKinds, <1>4, <1>5, <1>6, <1>7, <1>8, <1>10, <1>11, <1>12

\* The scripts of a turn whose end is told.
LEMMA EndsLeft ==
  ASSUME Base, Finishes, NEW k \in Turn, NEW t \in Thread, NEW how \in Outcome, NEW d \in Int,
         Ends(t, k, how, d)
  PROVE  /\ Waiting("finished", k) = {} /\ queue' = queue
         /\ \A u \in Thread, what \in Later : \A i \in Int :
              i \in Left(u, what, k)' <=> u = t /\ At(i, what, how)
<1>. USE DEF Base
<1>1. ~Said(k) /\ queue' = queue
  BY DEF Ends
<1>2. /\ Waiting("finished", k) = {}
      /\ \A u \in Thread : Left(u, "finished", k) = {} /\ Left(u, "release", k) = {}
  BY <1>1, SaidOf DEF IInv
<1>3. \A u \in Thread, r \in Outcome : Left(u, r, k) = {}
  BY <1>2 DEF Finishes
<1>4. \A u \in Thread, what \in Later : Left(u, what, k) = {} /\ what \in Marks
  BY <1>2, <1>3 DEF Later, Marks, Role
<1>. QED
  BY <1>1, <1>2, <1>4 DEF Ends

\* The end of a turn stays after its message and before the release.
LEMMA FinishesStep ==
  ASSUME Base, Base', Finishes, [Next]_guiVars
  PROVE  Finishes'
<1>. USE DEF Base
<1>0. \A k \in Turn : k \in Task
  BY DEF Task
<1>t. /\ \A u \in Thread : \A what, k :
           Left(u, what, k) \subseteq Int /\ Left(u, what, k)' \subseteq Int
      /\ Outcome \subseteq Later /\ "finished" \in Later /\ "release" \in Later
  <2>1. \A u \in Thread : DOMAIN script[u] \subseteq Int /\ DOMAIN script'[u] \subseteq Int
    <3>1. \A u \in Thread : script[u] \in Seq(Step) /\ script'[u] \in Seq(Step)
      BY DEF IInv, Typed
    <3>. QED
      BY <3>1
  <2>. QED
    BY <2>1 DEF Left, Later
<1>1. ASSUME NEW k \in Turn, MovesOn(k)
      PROVE  /\ \A t, u \in Thread :
                  \A i \in Left(t, "finished", k)', j \in Left(u, "finished", k)' :
                    t = u /\ i = j
             /\ \A t, u \in Thread :
                  \A i \in Left(t, "finished", k)', j \in Left(u, "release", k)' :
                    t = u /\ i < j
             /\ \A t \in Thread, r \in Outcome : \A i \in Left(t, r, k)' :
                  \E j \in Left(t, "finished", k)' : i < j
  <2>1. ASSUME NEW t \in Thread, NEW u \in Thread, NEW i \in Left(t, "finished", k)',
               NEW j \in Left(u, "finished", k)'
        PROVE  t = u /\ i = j
    <3>0. i \in Int /\ j \in Int
      BY <1>t
    <3>1. PICK c \in Int : i + c \in Left(t, "finished", k)
                           /\ (t = u => j + c \in Left(t, "finished", k))
      BY <1>1, <1>t, <3>0 DEF MovesOn
    <3>2. PICK d \in Int : j + d \in Left(u, "finished", k)
      BY <1>1, <1>t, <3>0 DEF MovesOn
    <3>3. t = u
      BY <3>1, <3>2 DEF Finishes
    <3>4. i + c = j + c
      BY <3>1, <3>3 DEF Finishes
    <3>. QED
      BY <3>0, <3>3, <3>4
  <2>2. ASSUME NEW t \in Thread, NEW u \in Thread, NEW i \in Left(t, "finished", k)',
               NEW j \in Left(u, "release", k)'
        PROVE  t = u /\ i < j
    <3>0. i \in Int /\ j \in Int
      BY <1>t
    <3>1. PICK c \in Int : i + c \in Left(t, "finished", k)
                           /\ (t = u => j + c \in Left(t, "release", k))
      BY <1>1, <1>t, <3>0 DEF MovesOn
    <3>2. PICK d \in Int : j + d \in Left(u, "release", k)
      BY <1>1, <1>t, <3>0 DEF MovesOn
    <3>3. t = u
      BY <3>1, <3>2 DEF Finishes
    <3>4. i + c < j + c
      BY <3>1, <3>3 DEF Finishes
    <3>. QED
      BY <3>0, <3>3, <3>4
  <2>3. ASSUME NEW t \in Thread, NEW r \in Outcome, NEW i \in Left(t, r, k)'
        PROVE  \E j \in Left(t, "finished", k)' : i < j
    <3>0. i \in Int
      BY <1>t
    <3>1. PICK c \in Int :
            /\ i + c \in Left(t, r, k)
            /\ \A j \in Int : i < j /\ j + c \in Left(t, "finished", k) =>
                 j \in Left(t, "finished", k)'
      BY <1>1, <1>t, <3>0 DEF MovesOn
    <3>2. PICK m \in Left(t, "finished", k) : i + c < m
      BY <3>1 DEF Finishes
    <3>3. m \in Int /\ m - c \in Int /\ (m - c) + c = m /\ i < m - c
      BY <1>t, <3>0, <3>2
    <3>. QED
      BY <3>1, <3>3
  <2>. QED
    BY <2>1, <2>2, <2>3
<1>2. ASSUME NEW k \in Turn, NEW t \in Thread, NEW how \in Outcome, NEW d \in Int,
             Ends(t, k, how, d)
      PROVE  /\ \A v, u \in Thread :
                  \A i \in Left(v, "finished", k)', j \in Left(u, "finished", k)' :
                    v = u /\ i = j
             /\ \A v, u \in Thread :
                  \A i \in Left(v, "finished", k)', j \in Left(u, "release", k)' :
                    v = u /\ i < j
             /\ Waiting("finished", k)' = {}
             /\ \A v \in Thread, r \in Outcome : \A i \in Left(v, r, k)' :
                  \E j \in Left(v, "finished", k)' : i < j
  <2>1. /\ Waiting("finished", k)' = {}
        /\ \A u \in Thread, what \in Later : \A i \in Int :
              i \in Left(u, what, k)' <=> u = t /\ At(i, what, how)
    BY <1>2, EndsLeft DEF Waiting
  <2>2. \A u \in Thread : \A i \in Left(u, "finished", k)' : u = t /\ i = 2
    BY <1>t, <2>1 DEF At, Outcome
  <2>3. \A u \in Thread : \A i \in Left(u, "release", k)' : u = t /\ i = 3
    BY <1>t, <2>1 DEF At, Outcome
  <2>4. \A u \in Thread, r \in Outcome : \A i \in Left(u, r, k)' : u = t /\ i = 1
    BY <1>t, <2>1 DEF At, Outcome
  <2>5. 2 \in Left(t, "finished", k)'
    BY <1>t, <2>1 DEF At
  <2>. QED
    BY <2>1, <2>2, <2>3, <2>4, <2>5
<1>3. ASSUME NEW k \in Turn, MovesOn(k), Waiting("finished", k)' # {}
      PROVE  ~InScript("finished", k)'
  <2>1. InScript("finished", k)' => InScript("finished", k)
    <3>. SUFFICES ASSUME NEW u \in Thread, NEW i \in Left(u, "finished", k)'
                  PROVE  Left(u, "finished", k) # {}
      BY DEF InScript
    <3>1. i \in Int
      BY <1>t
    <3>. QED
      BY <1>3, <1>t, <3>1 DEF MovesOn
  <2>2. CASE Waiting("finished", k) # {}
    BY <2>1, <2>2 DEF Finishes
  <2>3. ASSUME NEW t \in Thread, PutEvent(t), Waiting("finished", k) = {}
        PROVE  ~InScript("finished", k)'
    <3>1. NextStep(t) = <<"finished", k>>
      BY <1>3, <2>3, PutKind DEF IInv
    <3>2. script[t] # <<>> /\ Skip(t)
      BY <2>3, PutKind DEF IInv
    <3>3. 1 \in Left(t, "finished", k)
      BY <3>1, <3>2, LeftSkip DEF IInv
    <3>4. ASSUME NEW u \in Thread, NEW i \in Left(u, "finished", k)' PROVE FALSE
      <4>1. i \in Int
        BY <1>t
      <4>2. IF u = t THEN i > 0 /\ i + 1 \in Left(t, "finished", k)
                     ELSE i \in Left(u, "finished", k)
        BY <3>2, <4>1, LeftSkip DEF IInv
      <4>3. u = t
        BY <3>3, <4>2 DEF Finishes
      <4>4. i + 1 = 1 /\ i > 0
        BY <3>3, <4>2, <4>3 DEF Finishes
      <4>. QED
        BY <4>1, <4>4
    <3>. QED
      BY <3>4 DEF InScript
  <2>. QED
    BY <1>3, <2>2, <2>3, QueueStep
<1>. QED
  BY <1>1, <1>2, <1>3, LeftStep DEF Finishes

-----------------------------------------------------------------------------
\* The turn that has the controller: it is given to a turn that is asked, taken by
\* the release of that turn, and lost with the process.
LEMMA ActiveStep ==
  ASSUME IInv, IInv', [Next]_guiVars
  PROVE  \/ active' = active
         \/ active = None /\ \E t \in Turn : SendChat(t) /\ active' = t
         \/ \E t \in Thread, k \in Task : Release(t, k) /\ active = k /\ active' = None
         \/ Exit \/ Crash
<1>. USE DEF IInv
<1>1. \A t \in Thread, j \in Task :
        Release(t, j) => (active = j /\ active' = None) \/ active' = active
  BY DEF Release
<1>2. \A t \in Turn : SendChat(t) => active = None /\ active' = t
  BY DEF SendChat
<1>3. \A t \in Thread : AppendEvent(t) \/ PutEvent(t) \/ Passes(t) => active' = active
  BY DEF AppendEvent, PutEvent, Passes
<1>4. \A j \in Task : Submit(j) => active' = active
  BY DEF Submit
<1>5. Still \/ Deliver \/ (\E s : Sets(s)) => active' = active
  BY DEF Still, Deliver, Sets
<1>6. \A t \in Thread, j \in Task, how \in Outcome, d \in Int :
          Ends(t, j, how, d) => active' = active
  BY DEF Ends
<1>. QED
  BY <1>1, <1>2, <1>3, <1>4, <1>5, <1>6, StepKinds

\* A release is the last of a turn: its end was said, and is left in no script.
LEMMA ReleaseIsLast ==
  ASSUME Base, Finishes, NEW t \in Thread, NEW k \in Turn, Release(t, k)
  PROVE  Said(k) /\ ~InScript("finished", k)
<1>. USE DEF Base
<1>1. script[t] # <<>> /\ NextStep(t) = <<"release", k>>
  BY DEF Release, Calls
<1>2. 1 \in DOMAIN script[t] /\ script[t][1] = <<"release", k>>
  BY <1>1, NextStepType DEF IInv
<1>3. 1 \in Left(t, "release", k)
  BY <1>2 DEF Left
<1>4. Said(k)
  BY <1>2 DEF IInv, Releases, Closed, Said
<1>5. ASSUME NEW u \in Thread, NEW i \in Left(u, "finished", k) PROVE FALSE
  <2>1. u = t /\ i < 1
    BY <1>3, <1>5 DEF Finishes
  <2>2. i \in DOMAIN script[u] /\ script[u] \in Seq(Step)
    BY <1>5 DEF Left, IInv, Typed
  <2>3. i \in Nat \ {0}
    BY <2>2
  <2>. QED
    BY <2>1, <2>3
<1>. QED
  BY <1>4, <1>5 DEF InScript

\* The turn that has the controller keeps it until its release, which comes after its
\* end: so it is not released while its future runs or its end is left in a script.
LEMMA HoldingStep ==
  ASSUME Base, Base', Finishes, Holding, [Next]_guiVars
  PROVE  Holding'
<1>. USE DEF Base
<1>0. \A k \in Turn : k \in Task /\ k # None
  BY GuiAssumption DEF Task
<1>g. ASSUME Exit \/ Crash
      PROVE  /\ \A k \in Turn : ~Here(k)' /\ script'["ui"] \notin Begun(k)
             /\ \A k : ~InScript("finished", k)'
  <2>1. script'["ui"] = <<>>
    BY <1>g, GoneKind DEF IInv, Thread
  <2>2. \A k \in Turn : ~Here(k)'
    BY <1>0, <1>g, GoneKind DEF IInv
  <2>3. \A k : ~InScript("finished", k)'
    BY <1>g, GoneKind DEF IInv
  <2>. QED
    BY <2>1, <2>2, <2>3 DEF Begun
\* A turn that is not released and not yet gone keeps the controller.
<1>k. ASSUME NEW k \in Turn, active = k, ~Said(k) \/ InScript("finished", k), ~(Exit \/ Crash)
      PROVE  active' = k
  BY <1>0, <1>k, ActiveStep, ReleaseIsLast
<1>1. ASSUME NEW k \in Turn, Here(k)', ~Over(k)', ~(Exit \/ Crash) PROVE active' = k
  <2>1. CASE Submit(k)
    <3>1. script["ui"] \in Begun(k)
      BY <1>0, <2>1, SubmitKind DEF IInv
    <3>2. active = k
      BY <3>1 DEF Holding
    <3>3. ~Said(k)
      BY <1>0, <3>1 DEF IInv, Futures
    <3>. QED
      BY <1>1, <1>k, <3>2, <3>3
  <2>2. CASE Here(k)
    <3>1. ~Over(k)
      BY <1>0, <1>1, FutureStep
    <3>2. active = k
      BY <2>2, <3>1 DEF Holding
    <3>3. ~Said(k)
      BY <2>2, <3>1 DEF IInv, Futures, Here, Over
    <3>. QED
      BY <1>1, <1>k, <3>2, <3>3
  <2>. QED
    BY <1>0, <1>1, <2>1, <2>2, FutureStep
<1>2. ASSUME NEW k \in Turn, script'["ui"] \in Begun(k), ~(Exit \/ Crash) PROVE active' = k
  <2>1. CASE SendChat(k)
    BY <2>1 DEF SendChat
  <2>2. CASE script["ui"] \in Begun(k)
    <3>1. ~Said(k)
      BY <1>0, <2>2 DEF IInv, Futures
    <3>2. active = k
      BY <2>2 DEF Holding
    <3>. QED
      BY <1>2, <1>k, <3>1, <3>2
  <2>. QED
    BY <1>2, <2>1, <2>2, BegunStep
<1>3. ASSUME NEW k, InScript("finished", k)', ~(Exit \/ Crash) PROVE k \in Turn /\ active' = k
  <2>0. "finished" \in Marks /\ "finished" \notin Role
    BY DEF Marks, Role, Outcome
  <2>1. CASE InScript("finished", k)
    <3>1. k \in Turn /\ active = k
      BY <2>1 DEF Holding
    <3>. QED
      BY <1>3, <1>k, <2>1, <3>1
  <2>2. ASSUME k \in Turn, NEW t \in Thread, NEW how \in Outcome, NEW d \in Int, Ends(t, k, how, d)
        PROVE  active' = k
    <3>1. Here(k) /\ ~Over(k) /\ ~Said(k)
      BY <2>2 DEF Ends
    <3>2. active = k
      BY <2>2, <3>1 DEF Holding
    <3>. QED
      BY <1>3, <1>k, <2>2, <3>1, <3>2
  <2>. QED
    BY <1>3, <2>0, <2>1, <2>2, ScriptStep
<1>. QED
  BY <1>g, <1>1, <1>2, <1>3 DEF Holding

\* An end that is put in the queue is in the journal.
LEMMA PutIsWritten ==
  ASSUME Base, NEW t \in Thread, PutEvent(t), NEW what, NEW k, NextStep(t) = <<what, k>>
  PROVE  IndexOf(what, k) # {}
<1>1. emitting[t] # None /\ written[t]
  BY DEF Base, IInv, PutEvent, Emits
<1>2. emitting[t].kind = what /\ emitting[t].task = k /\ emitting[t] \in ToSet(journal)
  BY <1>1 DEF Base, IInv, Emits, Locked
<1>. QED
  BY <1>2 DEF IndexOf, ToSet

\* An end leaves a script only for the journal.
LEMMA EndNeverLostStep ==
  ASSUME Base, Base', EndNeverLost, [Next]_guiVars
  PROVE  EndNeverLost'
<1>. SUFFICES ASSUME NEW k \in Turn, Over(k)' PROVE Said(k)'
  BY DEF EndNeverLost
<1>. USE DEF Base
<1>0. k \in Task /\ "finished" \in Role \cup {"finished"} /\ "finished" \in Marks
  BY DEF Task, Marks
<1>1. ~(Exit \/ Crash)
  BY <1>0, GoneKind DEF IInv
<1>2. CASE Over(k)
  <2>1. Said(k)
    BY <1>2 DEF EndNeverLost
  <2>2. IndexOf("finished", k) # {} \/ InScript("finished", k)
    BY <2>1, SaidIs
  <2>3. IndexOf("finished", k)' # {} \/ InScript("finished", k)'
    <3>1. CASE IndexOf("finished", k) # {}
      BY <3>1, JournalStep
    <3>2. CASE InScript("finished", k)
      BY <1>0, <1>1, <3>1, <3>2, ScriptKeeps, PutIsWritten
    <3>. QED
      BY <2>2, <3>1, <3>2
  <2>. QED
    BY <2>3, SaidIsNext
<1>3. ASSUME NEW t \in Thread, NEW how \in Outcome, NEW d \in Int, Ends(t, k, how, d)
      PROVE  Said(k)'
  <2>1. InScript("finished", k)'
    BY <1>0, <1>3, EndsKind DEF IInv
  <2>. QED
    BY <2>1, SaidIsNext
<1>. QED
  BY <1>0, <1>2, <1>3, FutureStep

\* The start of the turn that holds the controller stays ahead in the queue.
LEMMA AfreshStep ==
  ASSUME Base, Base', Holding, [Next]_guiVars, NEW k \in Turn, active = k, Afresh(k),
         ~(Deliver \/ Exit \/ Crash)
  PROVE  Afresh(k)'
<1>. USE DEF Base
<1>1. CASE queue' = queue
  BY <1>1 DEF Afresh, Waiting
<1>2. ASSUME NEW t \in Thread, PutEvent(t) PROVE Afresh(k)'
  <2>1. /\ Len(queue) \in Nat /\ DOMAIN queue = 1..Len(queue)
        /\ DOMAIN queue' = 1..(Len(queue) + 1)
        /\ \A i \in DOMAIN queue : queue'[i] = queue[i]
        /\ NextStep(t) = <<queue'[Len(queue) + 1].kind, queue'[Len(queue) + 1].task>>
        /\ \A what, j : NextStep(t) = <<what, j>> => InScript(what, j)
    BY <1>2, PutKind DEF IInv
  <2>2. PICK i \in Waiting("started", k) :
          \A j \in DOMAIN queue : queue[j].kind = "finished" /\ queue[j].task # k => j < i
    BY DEF Afresh
  <2>3. i \in Waiting("started", k)'
    BY <2>1, <2>2 DEF Waiting
  <2>4. ASSUME NEW j \in DOMAIN queue', queue'[j].kind = "finished", queue'[j].task # k
        PROVE  j < i
    <3>1. CASE j = Len(queue) + 1
      <4>1. InScript("finished", queue'[j].task)
        BY <2>1, <2>4, <3>1
      <4>. QED
        BY <2>4, <4>1 DEF Holding
    <3>2. CASE j # Len(queue) + 1
      BY <2>1, <2>2, <2>4, <3>2
    <3>. QED
      BY <3>1, <3>2
  <2>. QED
    BY <2>3, <2>4 DEF Afresh
<1>. QED
  BY <1>1, <1>2, QueueStep

\* The start of a turn comes after the ends of the turns before, since none of them is
\* left in a script while it has the controller.
LEMMA AheadStep ==
  ASSUME Base, Base', Unasked, Holding, Ahead, [Next]_guiVars
  PROVE  Ahead'
<1>. USE DEF Base
<1>. SUFFICES ASSUME NEW k \in Turn
              PROVE  /\ script'["ui"] # <<<<"begun", k>>, <<"submit", k>>, <<"watch", k>>>>
                     /\ script'["ui"] = <<<<"submit", k>>, <<"watch", k>>>> => Afresh(k)'
                     /\ active' = k /\ Here(k)' =>
                          \/ Afresh(k)'
                          \/ /\ Waiting("user", k)' = {}
                             /\ \A j \in DOMAIN queue' : queue'[j].kind = "finished" =>
                                  queue'[j].task = k
  BY DEF Ahead
<1>0. k \in Task /\ k # None
  BY GuiAssumption DEF Task
<1>1. script'["ui"] # <<<<"begun", k>>, <<"submit", k>>, <<"watch", k>>>>
  <2>. SUFFICES ASSUME script'["ui"] = <<<<"begun", k>>, <<"submit", k>>, <<"watch", k>>>>
                PROVE  FALSE
    OBVIOUS
  <2>1. script'["ui"] \in Begun(k) /\ script'["ui"][1] = <<"begun", k>>
    BY DEF Begun
  <2>2. script'["ui"] = script["ui"]
    BY <2>1, BegunStep DEF SendSteps
  <2>. QED
    BY <2>2 DEF Ahead
<1>2. ASSUME script'["ui"] = <<<<"submit", k>>, <<"watch", k>>>> PROVE Afresh(k)'
  <2>1. script'["ui"] \in Begun(k)
    BY <1>2 DEF Begun
  <2>2. CASE script'["ui"] = script["ui"]
    <3>1. Afresh(k) /\ active = k /\ ~Deliver
      BY <1>2, <2>1, <2>2 DEF Ahead, Holding, Deliver, Drains
    <3>2. ~(Exit \/ Crash)
      BY <1>2, GoneKind DEF IInv, Thread
    <3>. QED
      BY <3>1, <3>2, AfreshStep
  <2>3. CASE /\ PutEvent("ui") /\ script["ui"] \in Begun(k)
             /\ script'["ui"] = Tail(script["ui"])
    <3>1. script["ui"] = <<<<"started", k>>, <<"submit", k>>, <<"watch", k>>>>
      <4>1. script["ui"] # <<<<"begun", k>>, <<"submit", k>>, <<"watch", k>>>>
        BY DEF Ahead
      <4>2. /\ Tail(<<<<"user", k>>, <<"started", k>>, <<"submit", k>>, <<"watch", k>>>>)
                 = <<<<"started", k>>, <<"submit", k>>, <<"watch", k>>>>
            /\ Tail(<<<<"submit", k>>, <<"watch", k>>>>) = <<<<"watch", k>>>>
        OBVIOUS
      <4>3. /\ <<<<"submit", k>>, <<"watch", k>>>> #
                  <<<<"started", k>>, <<"submit", k>>, <<"watch", k>>>>
            /\ <<<<"submit", k>>, <<"watch", k>>>> # <<<<"watch", k>>>>
        OBVIOUS
      <4>4. script["ui"] # <<<<"user", k>>, <<"started", k>>, <<"submit", k>>, <<"watch", k>>>>
        BY <1>2, <2>3, <4>2, <4>3, Zenon
      <4>5. script["ui"] # <<<<"submit", k>>, <<"watch", k>>>>
        BY <1>2, <2>3, <4>2, <4>3, Zenon
      <4>. QED
        BY <2>3, <4>1, <4>4, <4>5 DEF Begun
    <3>2. NextStep("ui") = <<"started", k>>
      BY <3>1 DEF NextStep
    <3>3. /\ Len(queue) \in Nat /\ DOMAIN queue = 1..Len(queue)
          /\ DOMAIN queue' = 1..(Len(queue) + 1)
          /\ NextStep("ui") = <<queue'[Len(queue) + 1].kind, queue'[Len(queue) + 1].task>>
      BY <2>3, PutKind DEF IInv, Thread
    <3>4. queue'[Len(queue) + 1].kind = "started" /\ queue'[Len(queue) + 1].task = k
      BY <3>2, <3>3
    <3>5. Len(queue) + 1 \in Waiting("started", k)'
      BY <3>3, <3>4 DEF Waiting
    <3>6. \A j \in DOMAIN queue' : queue'[j].kind = "finished" => j < Len(queue) + 1
      BY <3>3, <3>4
    <3>. QED
      BY <3>5, <3>6 DEF Afresh
  <2>4. script'["ui"] # SendSteps(k)
    BY <1>2 DEF SendSteps
  <2>. QED
    BY <2>1, <2>2, <2>3, <2>4, BegunStep
<1>3. ASSUME active' = k, Here(k)'
      PROVE  \/ Afresh(k)'
             \/ /\ Waiting("user", k)' = {}
                /\ \A j \in DOMAIN queue' : queue'[j].kind = "finished" => queue'[j].task = k
  <2>g. ~(Exit \/ Crash)
    BY <1>0, <1>3, GoneKind DEF IInv
  <2>1. CASE Submit(k)
    <3>1. script["ui"] = <<<<"submit", k>>, <<"watch", k>>>> /\ script["ui"] \in Begun(k)
      BY <1>0, <2>1, SubmitKind DEF IInv
    <3>2. Afresh(k) /\ active = k
      BY <3>1 DEF Ahead, Holding
    <3>3. ~Deliver
      BY <3>1 DEF Deliver, Drains
    <3>. QED
      BY <2>g, <3>2, <3>3, AfreshStep
  <2>2. CASE Here(k)
    <3>1. active = k
      <4>1. ~SendChat(k)
        BY <1>0, <2>2 DEF SendChat, NextOf, IInv, Futures, Here
      <4>. QED
        BY <1>0, <1>3, <2>g, <4>1, ActiveStep
    <3>2. CASE Deliver
      <4>1. queue' = <<>>
        BY <3>2 DEF Deliver
      <4>. QED
        BY <4>1 DEF Waiting
    <3>3. CASE Afresh(k) /\ ~Deliver
      BY <2>g, <3>1, <3>3, AfreshStep
    <3>4. ASSUME ~Afresh(k), ~Deliver
          PROVE  /\ Waiting("user", k)' = {}
                 /\ \A j \in DOMAIN queue' : queue'[j].kind = "finished" => queue'[j].task = k
      <4>1. /\ Waiting("user", k) = {}
            /\ \A j \in DOMAIN queue : queue[j].kind = "finished" => queue[j].task = k
        BY <2>2, <3>1, <3>4 DEF Ahead
      <4>2. CASE queue' = queue
        BY <4>1, <4>2 DEF Waiting
      <4>3. ASSUME NEW t \in Thread, PutEvent(t)
            PROVE  /\ Waiting("user", k)' = {}
                   /\ \A j \in DOMAIN queue' : queue'[j].kind = "finished" => queue'[j].task = k
        <5>1. /\ Len(queue) \in Nat /\ DOMAIN queue = 1..Len(queue)
              /\ DOMAIN queue' = 1..(Len(queue) + 1)
              /\ \A i \in DOMAIN queue : queue'[i] = queue[i]
              /\ NextStep(t) = <<queue'[Len(queue) + 1].kind, queue'[Len(queue) + 1].task>>
              /\ \A what, j : NextStep(t) = <<what, j>> => InScript(what, j)
          BY <4>3, PutKind DEF IInv
        <5>2. Waiting("user", k)' = Waiting("user", k) \cup
                (IF NextStep(t) = <<"user", k>> THEN {Len(queue) + 1} ELSE {})
          BY <4>3, PutKind DEF IInv
        <5>3. NextStep(t) # <<"user", k>>
          BY <1>0, <2>2, <5>1, UserBegun
        <5>4. ASSUME NEW j \in DOMAIN queue', queue'[j].kind = "finished" PROVE queue'[j].task = k
          <6>1. CASE j = Len(queue) + 1
            <7>1. InScript("finished", queue'[j].task)
              BY <5>1, <5>4, <6>1
            <7>. QED
              BY <3>1, <7>1 DEF Holding
          <6>2. CASE j # Len(queue) + 1
            BY <4>1, <5>1, <5>4, <6>2
          <6>. QED
            BY <6>1, <6>2
        <5>. QED
          BY <4>1, <5>2, <5>3, <5>4
      <4>. QED
        BY <2>g, <3>4, <4>2, <4>3, QueueStep
    <3>. QED
      BY <3>2, <3>3, <3>4
  <2>. QED
    BY <1>0, <1>3, <2>1, <2>2, FutureStep
<1>. QED
  BY <1>1, <1>2, <1>3

-----------------------------------------------------------------------------
\* The end of a turn was delivered when no step can still put it in the queue.
LEMMA DeliveredStep ==
  ASSUME Base, Base', [Next]_guiVars, NEW k \in Turn, ~(Exit \/ Crash)
  PROVE  /\ Delivered(k) => Delivered(k)'
         /\ Delivered(k)' => Delivered(k) \/ Deliver
<1>. USE DEF Base
<1>0. "finished" \in Role \cup {"finished"} /\ "finished" \in Marks /\ "finished" \notin Role
  BY DEF Marks, Role, Outcome
<1>1. ASSUME Delivered(k) PROVE Delivered(k)'
  <2>1. IndexOf("finished", k) # {} /\ Waiting("finished", k) = {} /\ ~InScript("finished", k)
    BY <1>1 DEF Delivered
  <2>2. IndexOf("finished", k)' # {}
    BY <2>1, JournalStep
  <2>3. \A t \in Thread, how \in Outcome, d \in Int : ~Ends(t, k, how, d)
    BY <2>1, SaidIs DEF Ends
  <2>4. ~InScript("finished", k)'
    BY <1>0, <2>1, <2>3, ScriptStep
  <2>5. Waiting("finished", k)' = {}
    <3>1. ASSUME NEW t \in Thread, PutEvent(t) PROVE Waiting("finished", k)' = {}
      <4>1. /\ NextStep(t) = <<"finished", k>> => InScript("finished", k)
            /\ Waiting("finished", k)' = Waiting("finished", k) \cup
                 (IF NextStep(t) = <<"finished", k>> THEN {Len(queue) + 1} ELSE {})
        BY <3>1, PutKind DEF IInv
      <4>. QED
        BY <2>1, <4>1
    <3>. QED
      BY <2>1, <3>1, QueueStep
  <2>. QED
    BY <2>2, <2>4, <2>5 DEF Delivered
<1>2. ASSUME Delivered(k)', ~Deliver PROVE Delivered(k)
  <2>1. IndexOf("finished", k)' # {} /\ Waiting("finished", k)' = {} /\ ~InScript("finished", k)'
    BY <1>2 DEF Delivered
  <2>2. /\ Waiting("finished", k) = {}
        /\ ~(\E t \in Thread : PutEvent(t) /\ NextStep(t) = <<"finished", k>>)
    <3>1. ASSUME NEW t \in Thread, PutEvent(t)
          PROVE  Waiting("finished", k) = {} /\ NextStep(t) # <<"finished", k>>
      <4>1. Waiting("finished", k)' = Waiting("finished", k) \cup
                 (IF NextStep(t) = <<"finished", k>> THEN {Len(queue) + 1} ELSE {})
        BY <3>1, PutKind DEF IInv
      <4>. QED
        BY <2>1, <4>1
    <3>. QED
      BY <1>2, <2>1, <3>1, QueueStep
  <2>3. ~InScript("finished", k)
    BY <1>0, <2>1, <2>2, ScriptKeeps
  <2>4. IndexOf("finished", k) # {}
    BY <2>1, <2>3, JournalStep
  <2>. QED
    BY <2>2, <2>3, <2>4 DEF Delivered
<1>. QED
  BY <1>1, <1>2

\* A delivery that shows a question and not its end leaves the chat running.
LEMMA BusyStep ==
  ASSUME Base, Base', Beginning, Finishes, Holding, EndNeverLost, Ahead, Busy, [Next]_guiVars
  PROVE  Busy'
<1>. USE DEF Base
<1>. SUFFICES ASSUME NEW k \in Turn, Here(k)', Shows(k, "user")', ~Delivered(k)'
              PROVE  view'.chat # "idle"
  BY DEF Busy
<1>0. k \in Task /\ "user" \in Role
  BY DEF Task, Role
<1>1. ~(Start \/ Exit \/ Crash)
  BY <1>0, NoneHere
<1>2. CASE Submit(k)
  <2>1. view' = view /\ script["ui"] \in Begun(k)
    BY <1>0, <1>2, SubmitKind DEF IInv
  <2>. QED
    BY <2>1 DEF Beginning, Shows
<1>3. CASE Here(k) /\ view' = view
  <2>1. ~Delivered(k) /\ Shows(k, "user")
    BY <1>1, <1>3, DeliveredStep DEF Shows
  <2>. QED
    BY <1>3, <2>1 DEF Busy
<1>4. CASE Here(k) /\ Deliver
  <2>1. /\ view' = After(view, queue) /\ script' = script /\ journal' = journal
        /\ queue \in Seq(Event) /\ view \in View /\ queue' = <<>>
    BY <1>4, DeliverKind DEF IInv, Typed, Shown
  <2>2. IndexOf("finished", k) = {} \/ InScript("finished", k)
    <3>1. Waiting("finished", k)' = {}
      BY <2>1 DEF Waiting
    <3>2. InScript("finished", k)' <=> InScript("finished", k)
      BY <2>1, LeftSame
    <3>3. IndexOf("finished", k)' = IndexOf("finished", k)
      BY <2>1 DEF IndexOf
    <3>. QED
      BY <3>1, <3>2, <3>3 DEF Delivered
  <2>3. active = k /\ Waiting("finished", k) = {}
    <3>1. CASE InScript("finished", k)
      BY <3>1 DEF Holding, Finishes
    <3>2. CASE ~InScript("finished", k)
      <4>1. ~Said(k)
        BY <2>2, <3>2, SaidIs
      <4>2. Waiting("finished", k) = {} /\ ~Over(k)
        BY <4>1, SaidOf DEF IInv, EndNeverLost
      <4>. QED
        BY <1>4, <4>2 DEF Holding
    <3>. QED
      BY <3>1, <3>2
  <2>4. CASE Afresh(k)
    <3>1. PICK i \in Waiting("started", k) :
            \A j \in DOMAIN queue : queue[j].kind = "finished" /\ queue[j].task # k => j < i
      BY <2>4 DEF Afresh
    <3>2. i \in DOMAIN queue /\ queue[i].kind = "started"
      BY <3>1 DEF Waiting
    <3>3. \A j \in DOMAIN queue : queue[j].kind = "finished" => j < i
      BY <2>3, <3>1 DEF Waiting
    <3>. QED
      BY <2>1, <3>2, <3>3, AfterBusy
  <2>5. CASE ~Afresh(k)
    <3>1. /\ Waiting("user", k) = {}
          /\ \A j \in DOMAIN queue : queue[j].kind = "finished" => queue[j].task = k
      BY <1>4, <2>3, <2>5 DEF Ahead
    <3>2. \A j \in DOMAIN queue : queue[j].kind # "finished"
      BY <2>3, <3>1 DEF Waiting
    <3>3. Shows(k, "user")
      BY <1>0, <1>4, <3>1, DeliverStep
    <3>4. ~Delivered(k)
      BY <2>2 DEF Delivered
    <3>5. view.chat # "idle"
      BY <1>4, <3>3, <3>4 DEF Busy
    <3>. QED
      BY <2>1, <3>2, <3>5, AfterBusy
  <2>. QED
    BY <2>4, <2>5
<1>. QED
  BY <1>0, <1>1, <1>2, <1>3, <1>4, FutureStep, ViewStep

\* What a turn said goes from a script to the queue, and from there to the view.
LEMMA AnswerStep ==
  ASSUME Base, Base', [Next]_guiVars, NEW k \in Turn, NEW r \in Role, Here(k)',
         Shows(k, r) \/ Waiting(r, k) # {} \/ InScript(r, k)
  PROVE  Shows(k, r)' \/ Waiting(r, k)' # {} \/ InScript(r, k)'
<1>. USE DEF Base
<1>0. k \in Task /\ r \in Role \cup {"finished"}
  BY DEF Task
<1>1. ~(Start \/ Exit \/ Crash)
  BY <1>0, NoneHere
<1>2. CASE Shows(k, r)
  <2>1. view' = view => Shows(k, r)'
    BY <1>2 DEF Shows
  <2>. QED
    BY <1>1, <1>2, <2>1, DeliverStep, ViewStep
<1>3. CASE Waiting(r, k) # {}
  <2>1. ASSUME NEW t \in Thread, PutEvent(t) PROVE Waiting(r, k)' # {}
    <3>1. Waiting(r, k) \subseteq Waiting(r, k)'
      BY <2>1, PutKind DEF IInv
    <3>. QED
      BY <1>3, <3>1
  <2>. QED
    BY <1>1, <1>3, <2>1, DeliverStep, QueueStep
<1>4. CASE InScript(r, k)
  <2>1. ASSUME NEW t \in Thread, PutEvent(t), NextStep(t) = <<r, k>> PROVE Waiting(r, k)' # {}
    <3>1. Len(queue) + 1 \in Waiting(r, k)'
      BY <2>1, PutKind DEF IInv
    <3>. QED
      BY <3>1
  <2>. QED
    BY <1>0, <1>1, <1>4, <2>1, ScriptKeeps
<1>. QED
  BY <1>2, <1>3, <1>4

\* How a future ended is one of the outcomes, and only one.
LEMMA EndedIs ==
  ASSUME Typed, NEW k \in Task, NEW r, Ended(k, r)
  PROVE  r \in Outcome /\ Here(k) /\ Over(k) /\ \A q : Ended(k, q) => q = r
BY DEF Typed, Ended, Here, Over, Outcome

\* The message that ends a turn is delivered with its end, or before.
LEMMA AnswersStep ==
  ASSUME Base, Base', Finishes, EndNeverLost, Answers, [Next]_guiVars
  PROVE  Answers'
<1>. USE DEF Base
<1>. SUFFICES ASSUME NEW k \in Turn, Here(k)'
              PROVE  /\ Said(k)' => \E r \in Outcome : Ended(k, r)' /\
                          (Shows(k, r)' \/ Waiting(r, k)' # {} \/ InScript(r, k)')
                     /\ Delivered(k)' => \E r \in Outcome : Ended(k, r)' /\ Shows(k, r)'
  BY DEF Answers
<1>0. k \in Task /\ Outcome \subseteq Role
  BY DEF Task, Role
<1>1. ~(Start \/ Exit \/ Crash)
  BY <1>0, NoneHere
<1>2. Said(k)' => Over(k)'
  BY DEF IInv, Futures, Here, Over
<1>3. ASSUME Over(k) PROVE Here(k) /\ Said(k)
  BY <1>3 DEF EndNeverLost, Over, Here
<1>4. ASSUME Said(k)'
      PROVE  \E r \in Outcome : Ended(k, r)' /\
               (Shows(k, r)' \/ Waiting(r, k)' # {} \/ InScript(r, k)')
  <2>1. CASE Over(k)
    <3>1. PICK r \in Outcome :
            Ended(k, r) /\ (Shows(k, r) \/ Waiting(r, k) # {} \/ InScript(r, k))
      BY <1>3, <2>1 DEF Answers
    <3>2. Ended(k, r)'
      BY <1>0, <1>1, <3>1, FutureStep
    <3>3. Shows(k, r)' \/ Waiting(r, k)' # {} \/ InScript(r, k)'
      BY <1>0, <3>1, AnswerStep
    <3>. QED
      BY <3>2, <3>3
  <2>2. ASSUME NEW t \in Thread, NEW how \in Outcome, NEW d \in Int, Ends(t, k, how, d)
        PROVE  Ended(k, how)' /\ InScript(how, k)'
    BY <1>0, <2>2, EndsKind DEF IInv
  <2>. QED
    BY <1>0, <1>2, <1>4, <2>1, <2>2, FutureStep
<1>5. ASSUME Delivered(k)' PROVE \E r \in Outcome : Ended(k, r)' /\ Shows(k, r)'
  <2>1. IndexOf("finished", k)' # {} /\ ~InScript("finished", k)'
    BY <1>5 DEF Delivered
  <2>2. Said(k)'
    BY <2>1, SaidIsNext
  <2>3. Over(k)'
    BY <1>2, <2>2
  <2>4. CASE Delivered(k)
    <3>1. Said(k)
      BY <2>4, SaidIs DEF Delivered
    <3>2. \A t \in Thread, how \in Outcome, d \in Int : ~Ends(t, k, how, d)
      BY <3>1 DEF Ends
    <3>3. Here(k)
      BY <1>0, <1>3, <2>3, <3>2, FutureStep
    <3>4. PICK r \in Outcome : Ended(k, r) /\ Shows(k, r)
      BY <2>4, <3>3 DEF Answers
    <3>5. Ended(k, r)'
      BY <1>0, <1>1, <3>4, FutureStep
    <3>6. view' = view => Shows(k, r)'
      BY <3>4 DEF Shows
    <3>7. Shows(k, r)'
      BY <1>0, <1>1, <3>4, <3>6, DeliverStep, ViewStep
    <3>. QED
      BY <3>5, <3>7
  <2>5. CASE Deliver
    <3>1. /\ Here(k) /\ script' = script /\ journal' = journal
          /\ \A r : Ended(k, r)' <=> Ended(k, r)
      BY <1>0, <2>5, DeliverKind DEF Rests
    <3>2. ~InScript("finished", k) /\ IndexOf("finished", k) # {}
      BY <2>1, <3>1, LeftSame DEF IndexOf
    <3>3. Said(k)
      BY <3>2, SaidIs
    <3>4. PICK r \in Outcome :
            Ended(k, r) /\ (Shows(k, r) \/ Waiting(r, k) # {} \/ InScript(r, k))
      BY <3>1, <3>3 DEF Answers
    <3>5. ~InScript(r, k)
      BY <3>2 DEF Finishes, InScript
    <3>6. Shows(k, r)'
      BY <1>0, <2>5, <3>4, <3>5, DeliverStep
    <3>. QED
      BY <3>1, <3>4, <3>6
  <2>. QED
    BY <1>1, <1>5, <2>4, <2>5, DeliveredStep
<1>. QED
  BY <1>4, <1>5

\* A question is recorded, put and delivered before its answer is recorded.
LEMMA InOrderStep ==
  ASSUME Base, Base', Empty, Beginning, InOrder, [Next]_guiVars
  PROVE  InOrder'
<1>. USE DEF Base
<1>. SUFFICES ASSUME NEW k \in Turn, NEW r \in Outcome
              PROVE  /\ \A i \in Waiting("user", k)' :
                          ~Shows(k, r)' /\ \A j \in Waiting(r, k)' : i < j
                     /\ Here(k)' => Follows(view'.messages, k, r)
  BY DEF InOrder
<1>0. k \in Task /\ r \in Role /\ "user" \in Role /\ r # "user"
  BY DEF Task, Role, Outcome
<1>1. ASSUME NEW i \in Waiting("user", k)' PROVE ~Shows(k, r)' /\ \A j \in Waiting(r, k)' : i < j
  <2>1. ~(Deliver \/ Exit \/ Crash)
    <3>. SUFFICES ASSUME Deliver \/ Exit \/ Crash PROVE FALSE
      OBVIOUS
    <3>1. queue' = <<>>
      BY GoneKind, DeliverKind DEF IInv
    <3>. QED
      BY <1>1, <3>1 DEF Waiting
  <2>2. ~Start
    <3>. SUFFICES ASSUME Start PROVE FALSE
      OBVIOUS
    <3>1. queue' = queue /\ session = "down"
      BY <1>0, NoneHere
    <3>2. queue' = <<>>
      BY <3>1 DEF Empty
    <3>. QED
      BY <1>1, <3>2 DEF Waiting
  <2>3. view' = view /\ (Shows(k, r)' <=> Shows(k, r))
    BY <2>1, <2>2, ViewStep DEF Shows
  <2>4. CASE \A what, j : Waiting(what, j)' = Waiting(what, j)
    BY <1>1, <2>3, <2>4 DEF InOrder
  <2>5. ASSUME NEW t \in Thread, PutEvent(t)
        PROVE  ~Shows(k, r)' /\ \A j \in Waiting(r, k)' : i < j
    <3>1. /\ Len(queue) \in Nat
          /\ \A what, j : Waiting(what, j) \subseteq 1..Len(queue)
          /\ \A what, j : Waiting(what, j)' =
               Waiting(what, j) \cup (IF NextStep(t) = <<what, j>> THEN {Len(queue) + 1} ELSE {})
          /\ \A what, j : NextStep(t) = <<what, j>> => InScript(what, j)
      BY <2>5, PutKind DEF IInv
    <3>2. CASE NextStep(t) = <<"user", k>>
      <4>1. script["ui"] \in Begun(k)
        BY <1>0, <3>1, <3>2, UserBegun
      <4>2. ~Shows(k, r) /\ Waiting(r, k) = {}
        BY <1>0, <4>1, ShowsIs DEF Beginning
      <4>3. NextStep(t) # <<r, k>>
        BY <1>0, <3>2
      <4>. QED
        BY <2>3, <3>1, <4>2, <4>3
    <3>3. CASE NextStep(t) # <<"user", k>>
      <4>1. i \in Waiting("user", k) /\ i \in 1..Len(queue)
        BY <1>1, <3>1, <3>3
      <4>2. ~Shows(k, r) /\ \A j \in Waiting(r, k) : i < j
        BY <4>1 DEF InOrder
      <4>3. \A j \in Waiting(r, k)' : j \in Waiting(r, k) \/ j = Len(queue) + 1
        BY <3>1
      <4>. QED
        BY <2>3, <3>1, <4>1, <4>2, <4>3
    <3>. QED
      BY <3>2, <3>3
  <2>. QED
    BY <2>1, <2>4, <2>5, QueueStep
<1>2. ASSUME Here(k)' PROVE Follows(view'.messages, k, r)
  <2>1. ~(Start \/ Exit \/ Crash)
    BY <1>0, <1>2, NoneHere
  <2>2. CASE Submit(k)
    <3>1. view' = view /\ script["ui"] \in Begun(k)
      BY <1>0, <2>2, SubmitKind DEF IInv
    <3>2. ~Shows(k, "user")
      BY <3>1 DEF Beginning
    <3>. QED
      BY <3>1, <3>2 DEF Shows, Follows, ToSet
  <2>3. CASE Here(k) /\ view' = view
    BY <2>3 DEF InOrder
  <2>4. CASE Here(k) /\ Deliver
    <3>1. view' = After(view, queue) /\ view \in View /\ queue \in Seq(Event)
      BY <2>4, DeliverKind DEF IInv, Typed, Shown
    <3>2. Follows(view.messages, k, r)
      BY <2>4 DEF InOrder
    <3>3. \A i \in DOMAIN queue : queue[i].kind = "user" /\ queue[i].task = k =>
            /\ Line(k, r) \notin ToSet(view.messages)
            /\ \A j \in DOMAIN queue : queue[j].kind = r /\ queue[j].task = k => i < j
      BY DEF InOrder, Waiting, Shows
    <3>. QED
      BY <3>1, <3>2, <3>3, AfterFollows
  <2>. QED
    BY <1>0, <1>2, <2>1, <2>2, <2>3, <2>4, FutureStep, ViewStep
<1>. QED
  BY <1>1, <1>2

\* The step that matters is SendChat: the view is idle, so every question it shows was
\* finished, its answer is shown after it, and the context was not cleared in between.
LEMMA ExchangesStep ==
  ASSUME Base, Base', Beginning, Busy, Answers, InOrder, Exchanges,
         [Next]_guiVars
  PROVE  Exchanges'
<1>. USE DEF Base
<1>. SUFFICES ASSUME NEW k \in Turn, NEW t \in DOMAIN history', Here(k)', Heard(t, k, "user")'
              PROVE  \E r \in Outcome : Ended(k, r)' /\ (r = "assistant" => Heard(t, k, r)')
  BY DEF Exchanges
<1>0. k \in Task /\ k # None /\ "user" \in Role /\ Outcome \subseteq Role
  BY GuiAssumption DEF Task, Role
<1>1. ~(Exit \/ Crash)
  BY <1>0, NoneHere
<1>2. ToSet(history'[t]) # {}
  BY DEF Heard
<1>3. CASE t \in DOMAIN history /\ history'[t] = history[t]
  <2>1. \A r : Heard(t, k, r)' <=> Heard(t, k, r)
    BY <1>3 DEF Heard
  <2>2. CASE Submit(k)
    <3>1. script["ui"] \in Begun(k)
      BY <1>0, <2>2, SubmitKind DEF IInv
    <3>. QED
      BY <1>3, <2>1, <3>1 DEF Beginning
  <2>3. CASE Here(k)
    <3>1. PICK r \in Outcome : Ended(k, r) /\ (r = "assistant" => Heard(t, k, r))
      BY <1>3, <2>1, <2>3 DEF Exchanges
    <3>2. Ended(k, r)'
      BY <1>0, <1>1, <3>1, FutureStep
    <3>. QED
      BY <2>1, <3>1, <3>2
  <2>. QED
    BY <1>0, <2>2, <2>3, FutureStep
<1>4. CASE t \in Turn /\ SendChat(t)
  <2>1. /\ Rests /\ active = None /\ view.chat = "idle"
        /\ \A j, r : Heard(t, j, r)' <=>
              /\ r \in {"user", "assistant"}
              /\ \E i \in DOMAIN view.messages :
                   i > view.start /\ view.messages[i] = Line(j, r)
    BY <1>4, SendKind DEF IInv, Shown
  <2>2. Here(k) /\ \A r : Ended(k, r)' <=> Ended(k, r)
    BY <1>0, <2>1 DEF Rests
  <2>3. PICK i \in DOMAIN view.messages : i > view.start /\ view.messages[i] = Line(k, "user")
    BY <2>1
  <2>4. Shows(k, "user")
    BY <2>3 DEF Shows, ToSet
  <2>5. Delivered(k)
    BY <2>1, <2>2, <2>4 DEF Busy
  <2>6. PICK r \in Outcome : Ended(k, r) /\ Shows(k, r)
    BY <2>2, <2>5 DEF Answers
  <2>7. ASSUME r = "assistant" PROVE Heard(t, k, r)'
    <3>1. PICK j \in DOMAIN view.messages : view.messages[j] = Line(k, r)
      BY <2>6 DEF Shows, ToSet
    <3>2. i < j
      BY <2>2, <2>3, <3>1 DEF InOrder, Follows
    <3>3. /\ DOMAIN view.messages = 1..Len(view.messages) /\ Len(view.messages) \in Nat
          /\ view.start \in Nat
      BY DEF Shown, View
    <3>4. j > view.start
      BY <2>3, <3>1, <3>2, <3>3
    <3>. QED
      BY <2>1, <2>7, <3>1, <3>4
  <2>. QED
    BY <2>2, <2>6, <2>7
<1>. QED
  BY <1>2, <1>3, <1>4, HistoryStep

-----------------------------------------------------------------------------
\* What a new workspace shows and was told: nothing.
LEMMA ExchangesInit == Init => Locked /\ ChainHolds /\ Shown /\ Alive /\ XInv
<1>. SUFFICES ASSUME Init PROVE Locked /\ ChainHolds /\ Shown /\ Alive /\ XInv
  OBVIOUS
<1>1. /\ \A t \in Thread : script[t] = <<>> /\ emitting[t] = None /\ ~written[t]
      /\ journal = <<>> /\ queue = <<>> /\ view = EmptyView /\ projection = None
      /\ \A k \in Task : ~Here(k) /\ ~Over(k) /\ \A r : ~Ended(k, r)
      /\ DOMAIN history = {} /\ active = None /\ session = "down"
  BY DEF Init, Here, Over, Ended
<1>2. /\ \A what, k : IndexOf(what, k) = {} /\ Waiting(what, k) = {} /\ ~InScript(what, k)
      /\ \A t \in Thread : \A what, k : Left(t, what, k) = {}
  BY <1>1 DEF IndexOf, Waiting, Left, InScript
<1>3. view \in View /\ \A k, r : ~Shows(k, r)
  BY <1>1 DEF EmptyView, View, Shows, ToSet
<1>4. \A k : script["ui"] \notin Begun(k)
  BY <1>1 DEF Begun, Thread
<1>5. Locked /\ ChainHolds
  BY <1>1 DEF Locked, ChainHolds
<1>6. Shown
  <2>1. ToSet(view.messages) = {}
    BY <1>1 DEF EmptyView, ToSet
  <2>. QED
    BY <1>1, <1>3, <2>1 DEF Shown
<1>7. \A k \in Turn : k \in Task /\ k # None
  BY GuiAssumption DEF Task
<1>8. Empty /\ Unasked /\ Beginning /\ Endings
  BY <1>1, <1>2, <1>4, <1>7 DEF Empty, Unasked, Beginning, Endings
<1>9. Finishes /\ Holding /\ EndNeverLost
  BY <1>1, <1>2, <1>4, <1>7 DEF Finishes, Holding, EndNeverLost
<1>10. Ahead
  BY <1>1, <1>7 DEF Ahead, Thread
<1>11. Busy /\ Answers /\ InOrder /\ Exchanges
  BY <1>1, <1>2, <1>7 DEF Busy, Answers, InOrder, Exchanges
<1>12. Alive
  BY <1>1 DEF Alive, Opening
<1>. QED
  BY <1>5, <1>6, <1>8, <1>9, <1>10, <1>11, <1>12 DEF XInv

\* Every step keeps it: the parts rest on each other, and on the ends and releases.
LEMMA ExchangesStays ==
  ASSUME IInv, IInv', Locked, ChainHolds, Shown, Alive, XInv, [Next]_guiVars
  PROVE  Locked' /\ ChainHolds' /\ Shown' /\ Alive' /\ XInv'
<1>1. Locked' /\ ChainHolds'
  BY ChainStep DEF IInv, CInv
<1>2. Shown'
  BY ShownStep DEF IInv
<1>3. Base /\ Base'
  BY <1>1, <1>2 DEF Base
<1>4. /\ Empty /\ Unasked /\ Beginning /\ Endings /\ Finishes /\ Holding /\ EndNeverLost
      /\ Ahead /\ Busy /\ Answers /\ InOrder /\ Exchanges
  BY DEF XInv
<1>5. Empty' /\ Unasked' /\ Beginning' /\ Endings'
  BY <1>3, <1>4, EmptyStep, UnaskedStep, BeginningStep, EndingsStep
<1>6. Finishes' /\ Holding' /\ EndNeverLost' /\ Ahead'
  BY <1>3, <1>4, FinishesStep, HoldingStep, EndNeverLostStep, AheadStep
<1>7. Busy' /\ Answers' /\ InOrder' /\ Exchanges'
  BY <1>3, <1>4, BusyStep, AnswersStep, InOrderStep, ExchangesStep
<1>8. Alive'
  BY AliveStep DEF IInv
<1>. QED
  BY <1>1, <1>2, <1>5, <1>6, <1>7, <1>8 DEF XInv

\* The invariant, for every behaviour.
LEMMA ExchangesHold == Spec => [](IInv /\ ChainHolds /\ Shown /\ Alive /\ XInv)
<1>1. IInv /\ IInv' /\ Locked /\ ChainHolds /\ Shown /\ Alive /\ XInv /\ [Next]_guiVars
        => Locked' /\ ChainHolds' /\ Shown' /\ Alive' /\ XInv'
  BY ExchangesStays
<1>. QED
  BY Inductive, ExchangesInit, <1>1, PTL DEF Spec

\* Whatever the two threads report at the same time, and whatever process is lost,
\* nothing is shown, waits to be shown or is saved that the journal does not hold, and
\* nothing a living process recorded is lost on its way to the view (_publish,
\* drain_events, GuiProjectionStore.load).
THEOREM ViewFollowsJournal == Spec => []ShownIsRecorded
<1>1. Alive => NothingIsLost
  <2>. SUFFICES ASSUME Alive, session # "down", ~Opens PROVE NothingIsLost
    BY DEF NothingIsLost, Opens
  <2>1. ~Opening
    BY DEF Opening
  <2>. QED
    BY <2>1 DEF Alive, NothingIsLost, Current, Reaching, Line, Role
<1>2. ChainHolds /\ Shown /\ NothingIsLost => ShownIsRecorded
  BY DEF Shown, ShownIsRecorded
<1>. QED
  BY ExchangesHold, <1>1, <1>2, PTL

\* However a turn ends, by its callback on the worker or at once on the Tk thread, by
\* a stop or at the close, its end is in a script or in the journal as soon as its
\* future is over: no turn of a living process is left without its end
\* (_chat_done, stop_chat, close).
THEOREM NoEndIsLost == Spec => []EndNeverLost
<1>1. XInv => EndNeverLost
  BY DEF XInv
<1>. QED
  BY ExchangesHold, <1>1, PTL

\* Whatever is stopped, cleared, drained late or lost with a process, the model is
\* never told a question of this process without the answer the journal has for it
\* (_start_chat_operation, _chat_history, _chat_done, drain_events).
THEOREM ToldWholeExchanges == Spec => []WholeExchanges
<1>1. IInv /\ XInv => WholeExchanges
  <2>. SUFFICES ASSUME IInv, XInv, NEW s \in Turn, NEW t \in Turn, Here(s), Here(t),
                       Heard(t, s, "user"), Line(s, "assistant") \in Recorded
                PROVE  Heard(t, s, "assistant")
    BY DEF WholeExchanges, Here, Heard, Line
  <2>1. s \in Task /\ t \in Task /\ "assistant" \in Role /\ "assistant" \in Outcome
    BY DEF Task, Role, Outcome
  <2>2. t \in DOMAIN history
    BY <2>1 DEF IInv, Futures, Unused, Here
  <2>3. Ended(s, "assistant")
    BY <2>1, RecordedIs DEF IInv, Typed, XInv, Endings
  <2>4. PICK r \in Outcome : Ended(s, r) /\ (r = "assistant" => Heard(t, s, r))
    BY <2>2 DEF XInv, Exchanges
  <2>5. r = "assistant"
    BY <2>1, <2>3, <2>4, EndedIs DEF IInv
  <2>. QED
    BY <2>4, <2>5
<1>. QED
  BY ExchangesHold, <1>1, PTL
=============================================================================
