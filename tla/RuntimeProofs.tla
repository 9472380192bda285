---------------------------- MODULE RuntimeProofs ----------------------------
(***************************************************************************)
(* What Runtime guarantees for every set of ids and of outcomes, every     *)
(* limit and every number of attempts and mishaps: the invariants of       *)
(* module Runtime, the settling of traced attempts, and the refinement of  *)
(* TaskLifecycle.                                                          *)
(***************************************************************************)
EXTENDS Runtime, TLAPS

(***************************************************************************)
(* The inductive invariant.  The checked invariants say what the log       *)
(* holds; they are preserved only because of where the call in progress    *)
(* stands (CallInv) and what its attempt has left in the log so far        *)
(* (AttemptInv).  What a call does follows its memory: of the log, nothing *)
(* is claimed for a task that is astray or doubtful.                       *)
(***************************************************************************)
CallInv ==
  /\ pc \in Busy =>
       /\ frame.id \in Ids
       /\ tasks[frame.id].state = "running"
       /\ \A other \in Ids \ astray : tasks[other].state = "running" => other = frame.id
  /\ pc = "enqueued" => frame.id \in Ids
  /\ pc \in {"idle", "enqueued"} => \A id \in Ids \ astray : tasks[id].state # "running"

\* What has to be in the log and in the history for id's state line to be t.
Covers(id, t) ==
  /\ log[id].trace.attempt <= t.attempts
  /\ lostTool[id] <= t.attempts
  /\ \A n \in runs[id] : n <= t.attempts
  /\ t.state = "succeeded" =>
      \/ /\ log[id].trace.attempt = t.attempts
         /\ trace_state(log[id].trace) = "succeeded"
      \/ agentOk[id] = t.attempts /\ lostTool[id] # t.attempts

DataInv == \A id \in Ids \ doubtful : Covers(id, log[id].task)

AttemptInv ==
  pc \in Busy /\ frame.id \notin doubtful =>
    LET n == tasks[frame.id].attempts
        tr == log[frame.id].trace
    IN /\ pc # "recorded" => tr.attempt # n
       /\ pc = "recorded" => tr = TraceOf(n, frame.exec)
       /\ pc = "started" => n \notin runs[frame.id]
       /\ pc \in {"agent", "returned"} /\ ~frame.fault => lostTool[frame.id] # n
       /\ pc = "returned" /\ frame.result = "verified" => agentOk[frame.id] = n

IInv == TypeOK /\ MemoryIsReplay /\ CallInv /\ DataInv /\ AttemptInv

USE IdsAssumption, OutcomesAssumption, LimitsAssumption, BoundsAssumption
    DEF Remember, MayRetry, NextAttempt, AfterError, Busy, PC, file, memory, history,
        doubts, Mishap, Drop, TracePart, StatePart

-----------------------------------------------------------------------------
(***************************************************************************)
(* Lemmas.                                                                 *)
(***************************************************************************)

\* The empty memory and the empty frame are of their types.
LEMMA EmptyTypes ==
  /\ NoTasks \in [Ids -> Task \cup {NoTask}]
  /\ NoTraces \in [Ids -> Trace]
  /\ NoFrame \in Frame /\ NoFrame.id = 0
  BY DEF NoTasks, NoTraces, NoFrame, Frame, Result, Trace, NoTrace, Execution

\* A state line is a task, with the fields it was written with.
LEMMA TaskFields ==
  /\ NoTask.state = "absent" /\ NoTask.attempts = 0
  /\ \A t \in Task : t.state \in State /\ t.attempts \in Nat
  /\ \A s \in State, n \in Nat :
        TaskOf(s, n) \in Task /\ TaskOf(s, n).state = s /\ TaskOf(s, n).attempts = n
  BY DEF Task, NoTask, TaskOf

\* A trace line is a trace, with the fields it was written with.
LEMMA TraceFields ==
  /\ NoTrace.attempt = 0
  /\ \A tr \in Trace : tr.attempt \in Nat /\ tr.exec \in Execution
  /\ \A n \in Nat, e \in Execution :
        TraceOf(n, e) \in Trace /\ TraceOf(n, e).attempt = n /\ TraceOf(n, e).exec = e
  BY DEF Trace, NoTrace, TraceOf, Execution

\* What a replay yields for a task, and with another state or trace line.
LEMMA ReadingFields ==
  ASSUME NEW r \in Reading
  PROVE  /\ r.task \in Task \cup {NoTask} /\ r.trace \in Trace /\ r.trace.attempt \in Nat
         /\ \A t \in Task : /\ [r EXCEPT !.task = t] \in Reading
                            /\ [r EXCEPT !.task = t].task = t
                            /\ [r EXCEPT !.task = t].trace = r.trace
         /\ \A tr \in Trace : /\ [r EXCEPT !.trace = tr] \in Reading
                              /\ [r EXCEPT !.trace = tr].trace = tr
                              /\ [r EXCEPT !.trace = tr].task = r.task
  BY TraceFields DEF Reading

\* The frame of a call, when it is entered and when one local changes.
LEMMA FrameFields ==
  /\ \A id \in Ids : /\ FrameOf(id) \in Frame /\ FrameOf(id).id = id
                     /\ FrameOf(id).fault = FALSE /\ FrameOf(id).result = "none"
  /\ \A f \in Frame :
        /\ f.id \in Ids \cup {0} /\ f.exec \in Execution
        /\ f.result \in Result /\ f.fault \in BOOLEAN
        /\ \A e \in Execution : [f EXCEPT !.exec = e] \in Frame
        /\ \A r \in Result : [f EXCEPT !.result = r] \in Frame
        /\ [f EXCEPT !.fault = TRUE] \in Frame
  BY EmptyTypes DEF Frame, FrameOf, NoFrame

\* The two rules that choose a terminal state choose among states.
LEMMA VerdictsAreStates ==
  /\ \A tr \in Trace : trace_state(tr) \in {"succeeded", "failed", "cancelled"}
  /\ \A e \in Execution : run_verdict(e) \in {"succeeded", "failed", "cancelled"}
  /\ \A f \in Frame : agent_verdict(f) \in {"succeeded", "failed", "cancelled"}
  BY DEF trace_state, run_verdict, agent_verdict

\* The verdict of run_next on an execution is the one recovery would reach
\* from the trace of that execution.
LEMMA VerdictsAgree ==
  \A n \in Nat, e \in Execution : trace_state(TraceOf(n, e)) = run_verdict(e)
  BY TraceFields DEF trace_state, run_verdict

\* Without an append to an unfinished line nothing is spoilt, and a line that
\* is read is read in its place.
LEMMA AppendFacts ==
  ASSUME TypeOK, NEW id \in Ids, NEW reading \in Reading, NEW part \in StatePart,
         append(id, reading, part)
  PROVE  /\ log' \in [Ids -> Reading] /\ tail' \in Tail
         /\ Spoilt(id, part) \subseteq Ids
         /\ \/ log' = log
            \/ log' = [log EXCEPT ![id] = reading]
            \/ /\ id \in Spoilt(id, part)
               /\ \A other \in Ids \ Spoilt(id, part) : log'[other] = log[other]
         /\ part = "whole" /\ Spoilt(id, part) = {} => log' = [log EXCEPT ![id] = reading]
         /\ id \notin Spoilt(id, part) => Spoilt(id, part) = {}
<1>1. Unread \in Reading /\ NoTail \in Tail
  BY EmptyTypes DEF Unread, Reading, NoTraces, NoTail, Tail, NoTrace, Trace, Execution
<1>2. \A torn \in BOOLEAN : [NoTail EXCEPT !.torn = torn] \in Tail
  BY <1>1 DEF NoTail, Tail
<1>3. log \in [Ids -> Reading] /\ tail.torn \in BOOLEAN /\ tail.id \in Ids \cup {0}
      /\ tail.was \in Reading
  BY DEF TypeOK, Tail
<1>4. Spoilt(id, part) \subseteq Ids /\ id # 0
  BY <1>3 DEF Spoilt
<1>5. CASE part = "none"
  BY <1>3, <1>4, <1>5 DEF append, TypeOK, Spoilt
<1>6. CASE part # "none" /\ tail.torn
  <2>1. log' = [other \in Ids |-> IF other = tail.id THEN tail.was ELSE log[other]]
    BY <1>6 DEF append
  <2>2. tail' = [NoTail EXCEPT !.torn = part # "whole"]
    BY <1>6 DEF append
  <2>3. Spoilt(id, part) = {id, tail.id} \ {0}
    BY <1>6 DEF Spoilt
  <2>4. log' \in [Ids -> Reading]
    BY <1>3, <2>1
  <2>5. \A other \in Ids \ Spoilt(id, part) : log'[other] = log[other]
    BY <1>3, <2>1, <2>3
  <2> QED
    BY <1>2, <1>4, <2>2, <2>3, <2>4, <2>5
<1>7. CASE part # "none" /\ ~tail.torn
  <2>1. Spoilt(id, part) = {}
    BY <1>7 DEF Spoilt
  <2>2. CASE part = "scrap"
    BY <1>2, <1>3, <1>7, <2>1, <2>2 DEF append
  <2>3. CASE part \in {"loose", "firm", "whole"}
    <3>1. log' = [log EXCEPT ![id] = reading]
      BY <1>7, <2>3 DEF append
    <3>2. tail' = IF part = "loose" THEN [torn |-> TRUE, id |-> id, was |-> log[id]]
                                    ELSE [NoTail EXCEPT !.torn = part # "whole"]
      BY <1>7, <2>3 DEF append
    <3>3. [torn |-> TRUE, id |-> id, was |-> log[id]] \in Tail
      BY <1>3 DEF Tail
    <3>4. tail' \in Tail
      BY <1>2, <3>2, <3>3
    <3> QED
      BY <1>3, <2>1, <3>1, <3>4
  <2> QED
    BY <1>7, <2>2, <2>3
<1> QED
  BY <1>5, <1>6, <1>7

\* A line that was written is read, in a log in which every other task is as it
\* was, save for the tasks that have gone astray.
LEMMA WrittenFacts ==
  ASSUME TypeOK, NEW id \in Ids, NEW reading \in Reading, written(id, reading)
  PROVE  /\ log' \in [Ids -> Reading] /\ tail' \in Tail
         /\ astray' \subseteq doubtful' /\ doubtful' \subseteq Ids
         /\ astray \subseteq astray' /\ doubtful \subseteq doubtful'
         /\ \A other \in Ids \ astray' :
              log'[other] = IF other = id THEN reading ELSE log[other]
         /\ \/ doubtful' = doubtful /\ log' = [log EXCEPT ![id] = reading]
            \/ \A other \in Ids \ doubtful' : log'[other] = log[other]
<1> DEFINE spoilt == Spoilt(id, "whole")
<1>1. append(id, reading, "whole")
      /\ astray' = astray \cup spoilt /\ doubtful' = doubtful \cup spoilt
  BY DEF written, Doubt
<1>2. "whole" \in StatePart
  OBVIOUS
<1>3. /\ log' \in [Ids -> Reading] /\ tail' \in Tail /\ spoilt \subseteq Ids
      /\ \/ log' = [log EXCEPT ![id] = reading] /\ spoilt = {}
         \/ id \in spoilt /\ \A other \in Ids \ spoilt : log'[other] = log[other]
  <2>1. CASE id \in spoilt
    BY <1>1, <1>2, <2>1, AppendFacts DEF TypeOK
  <2>2. CASE id \notin spoilt
    BY <1>1, <1>2, <2>2, AppendFacts
  <2> QED
    BY <2>1, <2>2
<1> HIDE DEF spoilt
<1>4. log \in [Ids -> Reading] /\ astray \subseteq doubtful /\ doubtful \subseteq Ids
  BY DEF TypeOK
<1> QED
  BY <1>1, <1>3, <1>4

\* A line that could not be written may be read or not; its handle is dropped,
\* or goes on with the memory it had and the task astray.
LEMMA FailedFacts ==
  ASSUME TypeOK, NEW id \in Ids, NEW reading \in Reading,
         NEW parts \in SUBSET StatePart, failed(id, reading, parts)
  PROVE  /\ log' \in [Ids -> Reading] /\ tail' \in Tail
         /\ mishaps' \in 0..MishapBound
         /\ astray' \subseteq doubtful' /\ doubtful' \subseteq Ids
         /\ doubtful \subseteq doubtful'
         /\ \/ doubtful' = doubtful /\ log' \in {log, [log EXCEPT ![id] = reading]}
            \/ \A other \in Ids \ doubtful' : log'[other] = log[other]
         /\ \/ Drop
            \/ /\ pc # "recovering" /\ pc' \in {"inspected", "idle"}
               /\ pc' = "idle" <=> pc # "inspected"
               /\ frame' = NoFrame /\ UNCHANGED memory
               /\ astray \subseteq astray' /\ id \in astray'
               /\ \A other \in Ids \ astray' : log'[other] = log[other]
<1>1. mishaps' \in 0..MishapBound
  BY DEF failed, TypeOK
<1>2. PICK part \in parts :
        /\ append(id, reading, part)
        /\ \/ Drop /\ doubtful' = doubtful \cup Spoilt(id, part)
           \/ /\ pc # "recovering"
              /\ pc' = (IF pc = "inspected" THEN pc ELSE "idle") /\ frame' = NoFrame
              /\ Doubt({id} \cup Spoilt(id, part))
              /\ UNCHANGED memory
  BY DEF failed
<1> DEFINE spoilt == Spoilt(id, part)
<1>3. part \in StatePart
  BY <1>2
<1>4. /\ log' \in [Ids -> Reading] /\ tail' \in Tail /\ spoilt \subseteq Ids
      /\ \/ log' \in {log, [log EXCEPT ![id] = reading]} /\ spoilt = {}
         \/ id \in spoilt /\ \A other \in Ids \ spoilt : log'[other] = log[other]
  <2>1. CASE id \in spoilt
    BY <1>2, <1>3, <2>1, AppendFacts DEF TypeOK
  <2>2. CASE id \notin spoilt
    BY <1>2, <1>3, <2>2, AppendFacts
  <2> QED
    BY <2>1, <2>2
<1>5. log \in [Ids -> Reading] /\ astray \subseteq doubtful /\ doubtful \subseteq Ids
  BY DEF TypeOK
<1>6. CASE Drop /\ doubtful' = doubtful \cup spoilt
  <2> HIDE DEF spoilt
  <2> QED
    BY <1>1, <1>4, <1>5, <1>6
<1>7. CASE /\ pc # "recovering"
           /\ pc' = (IF pc = "inspected" THEN pc ELSE "idle") /\ frame' = NoFrame
           /\ Doubt({id} \cup spoilt)
           /\ UNCHANGED memory
  <2>1. astray' = astray \cup {id} \cup spoilt /\ doubtful' = doubtful \cup {id} \cup spoilt
    BY <1>7 DEF Doubt
  <2>2. \A other \in Ids \ ({id} \cup spoilt) : log'[other] = log[other]
    BY <1>4, <1>5
  <2> HIDE DEF spoilt
  <2> QED
    BY <1>1, <1>4, <1>5, <1>7, <2>1, <2>2
<1> QED
  BY <1>2, <1>6, <1>7

\* A state line keeps the types, the agreement of memory and log, and the
\* coverage of every id, provided the line itself is covered.
LEMMA RecordKeeps ==
  ASSUME TypeOK, MemoryIsReplay, DataInv, pc # "closed",
         NEW id \in Ids, NEW t \in Task, id \notin doubtful => Covers(id, t),
         NEW next \in PC, NEW locals \in Frame,
         record(id, t, next, locals),
         UNCHANGED history
  PROVE  TypeOK' /\ MemoryIsReplay' /\ DataInv'
<1> DEFINE reading == [log[id] EXCEPT !.task = t]
<1>1. log \in [Ids -> Reading] /\ tasks \in [Ids -> Task \cup {NoTask}]
      /\ traces \in [Ids -> Trace] /\ astray \subseteq doubtful
  BY DEF TypeOK
<1>2. reading \in Reading /\ reading.task = t /\ reading.trace = log[id].trace
  BY <1>1 DEF Reading
<1>3. \/ /\ written(id, reading)
         /\ tasks' = [tasks EXCEPT ![id] = t] /\ traces' = traces
         /\ pc' = next /\ frame' = locals /\ mishaps' = mishaps
      \/ failed(id, reading, StatePart)
  BY DEF record
<1> HIDE DEF reading
<1>4. CASE /\ written(id, reading)
           /\ tasks' = [tasks EXCEPT ![id] = t] /\ traces' = traces
           /\ pc' = next /\ frame' = locals /\ mishaps' = mishaps
  <2>1. /\ log' \in [Ids -> Reading] /\ tail' \in Tail
        /\ astray' \subseteq doubtful' /\ doubtful' \subseteq Ids
        /\ astray \subseteq astray' /\ doubtful \subseteq doubtful'
        /\ \A other \in Ids \ astray' :
             log'[other] = IF other = id THEN reading ELSE log[other]
    BY <1>2, <1>4, WrittenFacts
  <2>2. TypeOK'
    BY <1>1, <1>4, <2>1 DEF TypeOK
  <2>3. MemoryIsReplay'
    BY <1>1, <1>2, <1>4, <2>1 DEF MemoryIsReplay
  <2>4. DataInv'
    BY <1>2, <2>1 DEF DataInv, Covers
  <2> QED
    BY <2>2, <2>3, <2>4
<1>5. CASE failed(id, reading, StatePart)
  <2>1. /\ log' \in [Ids -> Reading] /\ tail' \in Tail
        /\ mishaps' \in 0..MishapBound
        /\ astray' \subseteq doubtful' /\ doubtful' \subseteq Ids
        /\ doubtful \subseteq doubtful'
        /\ \/ doubtful' = doubtful /\ log' \in {log, [log EXCEPT ![id] = reading]}
           \/ \A other \in Ids \ doubtful' : log'[other] = log[other]
        /\ \/ Drop
           \/ /\ pc' \in {"inspected", "idle"}
              /\ frame' = NoFrame /\ UNCHANGED memory
              /\ astray \subseteq astray'
              /\ \A other \in Ids \ astray' : log'[other] = log[other]
    BY <1>2, <1>5, FailedFacts
  <2>2. /\ tasks' \in [Ids -> Task \cup {NoTask}] /\ traces' \in [Ids -> Trace]
        /\ pc' \in PC /\ frame' \in Frame
    BY <1>1, <2>1, EmptyTypes
  <2>3. TypeOK'
    BY <2>1, <2>2 DEF TypeOK
  <2>4. MemoryIsReplay'
    BY <2>1 DEF MemoryIsReplay
  <2>5. DataInv'
    <3>1. \A other \in Ids \ doubtful' :
            log'[other] = log[other] \/ (other = id /\ log'[other] = reading)
      BY <1>1, <2>1
    <3> QED
      BY <1>2, <2>1, <3>1 DEF DataInv, Covers
  <2> QED
    BY <2>3, <2>4, <2>5
<1> QED
  BY <1>3, <1>4, <1>5

\* After a failed append the handle is dropped or between two calls, with no
\* task running in its memory but the one that went astray.
LEMMA FailedCalls ==
  ASSUME TypeOK, CallInv, NEW id \in Ids, NEW reading \in Reading,
         NEW parts \in SUBSET StatePart, failed(id, reading, parts),
         pc # "closed", pc \in Busy => id = frame.id
  PROVE  CallInv' /\ AttemptInv'
<1>1. \/ pc' = "closed"
      \/ /\ pc # "recovering" /\ pc' \in {"inspected", "idle"}
         /\ pc' = "idle" => pc # "inspected"
         /\ UNCHANGED memory
         /\ astray \subseteq astray' /\ id \in astray'
  BY FailedFacts
<1>2. AttemptInv'
  BY <1>1 DEF AttemptInv
<1>3. pc' = "idle" => \A other \in Ids \ astray' : tasks'[other].state # "running"
  <2>1. pc = "closed" \/ pc \in {"idle", "enqueued", "inspected", "recovering"} \/ pc \in Busy
    BY DEF TypeOK
  <2> QED
    BY <1>1, <2>1 DEF CallInv
<1> QED
  BY <1>1, <1>2, <1>3 DEF CallInv

\* A call in progress holds a running task in its memory.
LEMMA CallFacts ==
  ASSUME IInv, pc \in Busy
  PROVE  /\ frame \in Frame /\ frame.id \in Ids
         /\ tasks[frame.id] \in Task /\ tasks[frame.id].state = "running"
         /\ tasks[frame.id].attempts \in Nat
<1>1. frame \in Frame /\ frame.id \in Ids /\ tasks[frame.id].state = "running"
  BY DEF IInv, TypeOK, CallInv
<1>2. tasks[frame.id] # NoTask
  BY <1>1, TaskFields
<1>3. tasks[frame.id] \in Task
  BY <1>1, <1>2 DEF IInv, TypeOK
<1> QED
  BY <1>1, <1>3, TaskFields

\* What an open handle remembers of a task that is not doubtful is in the log.
LEMMA NotDoubtful ==
  ASSUME IInv, pc # "closed", NEW id \in Ids, id \notin doubtful
  PROVE  tasks[id] = log[id].task /\ traces[id] = log[id].trace
  BY DEF IInv, TypeOK, MemoryIsReplay

\* Opening, closing and crashing keep the types.
LEMMA HandleTypes ==
  ASSUME TypeOK, open \/ inspect \/ Close \/ Crash \/ recovery_done
  PROVE  TypeOK'
<1>1. CASE open \/ inspect
  BY <1>1, ReadingFields DEF TypeOK, open, inspect, load
<1>2. CASE Close \/ Crash
  <2>1. mishaps' \in 0..MishapBound
    BY <1>2 DEF TypeOK, Close, Crash
  <2> QED
    BY <1>2, <2>1, EmptyTypes DEF TypeOK, Close, Crash
<1>3. CASE recovery_done
  BY <1>3 DEF TypeOK, recovery_done
<1> QED
  BY <1>1, <1>2, <1>3

-----------------------------------------------------------------------------
(***************************************************************************)
(* One lemma per group of actions.                                         *)
(***************************************************************************)
USE DEF State, Task, NoTask, TaskOf, Execution, Trace, NoTrace, TraceOf,
        NoTasks, NoTraces, Result, Frame, NoFrame, FrameOf

\* Opening, closing and crashing.
LEMMA HandleStep ==
  ASSUME IInv, open \/ inspect \/ Close \/ Crash \/ recovery_done
  PROVE  IInv'
<1>1. TypeOK'
  BY HandleTypes DEF IInv
<1>2. MemoryIsReplay'
  BY DEF IInv, MemoryIsReplay, open, inspect, load, Close, Crash, recovery_done
<1>3. CallInv'
  BY DEF IInv, CallInv, open, inspect, load, Close, Crash, recovery_done
<1>4. DataInv'
  BY DEF IInv, DataInv, Covers, open, inspect, load, Close, Crash, recovery_done
<1>5. AttemptInv'
  BY DEF AttemptInv, open, inspect, load, Close, Crash, recovery_done
<1> QED
  BY <1>1, <1>2, <1>3, <1>4, <1>5 DEF IInv

\* How a state line is written in a call or between two: the line is covered,
\* and what is claimed of the call holds once it is in the memory.
LEMMA LineStep ==
  ASSUME IInv, pc # "closed", NEW id \in Ids, NEW t \in Task,
         id \notin doubtful => Covers(id, t),
         pc \in Busy => id = frame.id,
         NEW next \in PC, NEW locals \in Frame,
         record(id, t, next, locals), UNCHANGED history,
         written(id, [log[id] EXCEPT !.task = t])
           /\ tasks' = [tasks EXCEPT ![id] = t] /\ traces' = traces
           /\ pc' = next /\ frame' = locals /\ astray \subseteq astray'
           => CallInv' /\ AttemptInv'
  PROVE  IInv'
<1> DEFINE reading == [log[id] EXCEPT !.task = t]
<1>1. reading \in Reading
  BY ReadingFields DEF IInv, TypeOK
<1>2. TypeOK' /\ MemoryIsReplay' /\ DataInv'
  BY RecordKeeps DEF IInv
<1>3. CallInv' /\ AttemptInv'
  <2>1. CASE failed(id, reading, StatePart)
    <3> HIDE DEF reading
    <3> QED
      BY <1>1, <2>1, FailedCalls DEF IInv
  <2>2. CASE written(id, reading) /\ tasks' = [tasks EXCEPT ![id] = t] /\ traces' = traces
              /\ pc' = next /\ frame' = locals
    <3>1. astray \subseteq astray'
      BY <2>2 DEF written, Doubt
    <3> QED
      BY <2>2, <3>1
  <2> QED
    BY <2>1, <2>2 DEF record
<1> QED
  BY <1>2, <1>3 DEF IInv

\* Recovery settles or requeues a running task.
LEMMA RecoverStep ==
  ASSUME IInv, NEW id \in Ids, recover(id)
  PROVE  IInv'
<1> DEFINE t == recovered(tasks[id], traces[id])
<1>1. tasks[id] \in Task /\ traces[id] \in Trace /\ pc = "recovering"
  BY DEF IInv, TypeOK, recover
<1>2. /\ t \in Task /\ t.attempts = tasks[id].attempts
      /\ t.state = "succeeded" => /\ traces[id].attempt = t.attempts
                                  /\ trace_state(traces[id]) = "succeeded"
  BY <1>1, VerdictsAreStates DEF recovered
<1>3. id \notin doubtful => Covers(id, t)
  <2> SUFFICES ASSUME id \notin doubtful PROVE Covers(id, t)
    OBVIOUS
  <2>1. tasks[id] = log[id].task /\ traces[id] = log[id].trace
    BY <1>1, NotDoubtful
  <2>2. Covers(id, tasks[id])
    BY <2>1 DEF IInv, DataInv
  <2> HIDE DEF t
  <2> QED
    BY <1>2, <2>1, <2>2 DEF Covers
<1>4. record(id, t, "recovering", NoFrame) /\ UNCHANGED history
  BY DEF recover
<1>5. NoFrame \in Frame /\ "recovering" \in PC /\ pc \notin Busy /\ pc # "closed"
  BY <1>1, EmptyTypes
<1>6. pc' = "recovering" => CallInv' /\ AttemptInv'
  BY DEF CallInv, AttemptInv
<1>7. t \in Task
  BY <1>2
<1> HIDE DEF t
<1> QED
  BY <1>7, <1>3, <1>4, <1>5, <1>6, LineStep

\* The operations between two runs.
LEMMA OperationStep ==
  ASSUME IInv, NEW id \in Ids,
         enqueue(id) \/ cancel(id) \/ \E limit \in RetryLimits : retry(id, limit)
  PROVE  IInv'
<1>1. pc \in {"idle", "inspected"} /\ tasks[id] \in Task \cup {NoTask}
  BY DEF IInv, TypeOK, enqueue, cancel, retry
<1>2. PICK s \in {"queued", "cancelled"} :
        record(id, TaskOf(s, tasks[id].attempts), pc, NoFrame) /\ UNCHANGED history
  BY DEF enqueue, cancel, retry, transition
<1> DEFINE t == TaskOf(s, tasks[id].attempts)
<1>3. t \in Task /\ t.state = s /\ t.attempts = tasks[id].attempts
  BY <1>1
<1>4. id \notin doubtful => Covers(id, t)
  BY <1>1, <1>3, NotDoubtful DEF IInv, DataInv, Covers
<1>5. NoFrame \in Frame /\ pc \in PC /\ pc \notin Busy /\ pc # "closed"
  BY <1>1, EmptyTypes
<1>6. tasks' = [tasks EXCEPT ![id] = t] /\ pc' = pc /\ astray \subseteq astray'
        => CallInv' /\ AttemptInv'
  BY <1>1, <1>3 DEF IInv, TypeOK, CallInv, AttemptInv
<1>7. record(id, t, pc, NoFrame) /\ UNCHANGED history
  BY <1>2
<1> HIDE DEF t
<1> QED
  BY <1>3, <1>4, <1>5, <1>6, <1>7, LineStep

\* Starting a task for either kind of run.
LEMMA StartStep ==
  ASSUME IInv, NEW id \in Ids, NEW next \in {"started", "agent"},
         pc \in {"idle", "enqueued"}, start(id, next)
  PROVE  IInv'
<1> DEFINE t == TaskOf("running", tasks[id].attempts + 1)
           reading == [log[id] EXCEPT !.task = t]
<1>1. tasks[id] \in Task
  BY DEF IInv, TypeOK, start
<1>2. t \in Task /\ t.attempts = tasks[id].attempts + 1 /\ t.state = "running"
      /\ tasks[id].attempts \in Nat
  BY <1>1
<1>3. id \notin doubtful =>
        /\ log[id].trace.attempt \in Nat /\ log[id].trace.attempt < t.attempts
        /\ lostTool[id] \in Nat /\ lostTool[id] < t.attempts
        /\ runs[id] \subseteq Nat /\ \A n \in runs[id] : n < t.attempts
  <2>1. log[id].trace.attempt \in Nat /\ lostTool[id] \in Nat /\ runs[id] \subseteq Nat
    BY DEF IInv, TypeOK, Reading
  <2>2. id \notin doubtful => Covers(id, tasks[id])
    BY NotDoubtful DEF IInv, DataInv
  <2> QED
    BY <1>2, <2>1, <2>2 DEF Covers
<1>4. id \notin doubtful => Covers(id, t)
  BY <1>2, <1>3 DEF Covers
<1>5. record(id, t, next, FrameOf(id)) /\ UNCHANGED history
  BY DEF start
<1>6. FrameOf(id) \in Frame /\ FrameOf(id).id = id /\ FrameOf(id).result = "none"
      /\ next \in PC /\ next \in Busy \ {"recorded", "returned"}
      /\ pc \notin Busy /\ pc # "closed"
  BY FrameFields
<1>7. ASSUME written(id, reading), tasks' = [tasks EXCEPT ![id] = t],
             pc' = next, frame' = FrameOf(id), astray \subseteq astray'
      PROVE  CallInv' /\ AttemptInv'
  <2>1. tasks'[id] = t /\ \A other \in Ids : other # id => tasks'[other] = tasks[other]
    BY <1>7 DEF IInv, TypeOK
  <2>2. CallInv'
    <3>1. pc' \in Busy /\ frame'.id = id /\ tasks'[id].state = "running"
      BY <1>2, <1>6, <1>7, <2>1
    <3>2. \A other \in Ids \ astray' : tasks'[other].state = "running" => other = id
      BY <1>7, <2>1 DEF IInv, CallInv
    <3> QED
      BY <3>1, <3>2 DEF CallInv
  <2>3. id \notin doubtful' => id \notin doubtful /\ log'[id] = reading
    <3>1. reading \in Reading
      BY <1>2, ReadingFields DEF IInv, TypeOK
    <3> HIDE DEF reading
    <3> QED
      BY <1>7, <3>1, WrittenFacts DEF IInv
  <2>4. reading.trace = log[id].trace
    OBVIOUS
  <2>5. runs' = runs /\ lostTool' = lostTool
    BY <1>5
  <2>6. frame'.id = id /\ tasks'[id].attempts = t.attempts /\ pc' \in {"started", "agent"}
    BY <1>6, <1>7, <2>1
  <2> HIDE DEF reading, t
  <2>7. AttemptInv'
    BY <1>3, <2>3, <2>4, <2>5, <2>6 DEF AttemptInv
  <2> QED
    BY <2>2, <2>7
<1> HIDE DEF t
<1> QED
  BY <1>2, <1>4, <1>5, <1>6, <1>7, LineStep

\* run_agent_task enqueues a task the log does not know.
LEMMA AgentEnqueueStep ==
  ASSUME IInv, NEW id \in Ids, agent_enqueue(id)
  PROVE  IInv'
<1> DEFINE t == TaskOf("queued", 0)
<1>1. tasks[id] = NoTask /\ pc = "idle" /\ pc \notin Busy /\ pc # "closed"
  BY DEF agent_enqueue
<1>2. t \in Task /\ t.state = "queued"
  OBVIOUS
<1>3. id \notin doubtful => Covers(id, t)
  BY <1>1, NotDoubtful DEF IInv, DataInv, Covers
<1>4. record(id, t, "enqueued", FrameOf(id)) /\ UNCHANGED history
  BY DEF agent_enqueue
<1>5. FrameOf(id) \in Frame /\ FrameOf(id).id = id /\ "enqueued" \in PC
  BY FrameFields
<1> HIDE DEF t
<1>6. tasks' = [tasks EXCEPT ![id] = t] /\ pc' = "enqueued" /\ frame' = FrameOf(id)
        /\ astray \subseteq astray' => CallInv' /\ AttemptInv'
  BY <1>1, <1>2, <1>5 DEF IInv, TypeOK, CallInv, AttemptInv
<1> QED
  BY <1>1, <1>2, <1>3, <1>4, <1>5, <1>6, LineStep

\* The command is executed, or refused.
LEMMA ExecuteStep ==
  ASSUME IInv, execute \/ execute_error
  PROVE  IInv'
<1>1. frame \in Frame /\ frame.id \in Ids /\ tasks[frame.id].attempts \in Nat
      /\ tasks[frame.id].state = "running" /\ pc = "started"
  BY CallFacts DEF execute, execute_error
<1>2. \/ frame' = frame
      \/ \E e \in Execution : frame' = [frame EXCEPT !.exec = e]
  BY DEF execute, execute_error
<1>3. frame' \in Frame /\ frame'.id = frame.id
  BY <1>1, <1>2, FrameFields DEF Frame
<1>4. /\ \A id \in Ids \ {frame.id} : runs'[id] = runs[id]
      /\ runs'[frame.id] \subseteq runs[frame.id] \cup {tasks[frame.id].attempts}
      /\ runs' \in [Ids -> SUBSET Nat]
  BY <1>1 DEF IInv, TypeOK, execute, execute_error
<1>5. TypeOK'
  BY <1>3, <1>4 DEF IInv, TypeOK, execute, execute_error
<1>6. MemoryIsReplay' /\ CallInv'
  BY <1>1, <1>3 DEF IInv, MemoryIsReplay, CallInv, execute, execute_error
<1>7. DataInv'
  <2> SUFFICES ASSUME NEW id \in Ids \ doubtful PROVE Covers(id, log[id].task)'
    BY DEF DataInv, execute, execute_error
  <2>1. tasks[id] = log[id].task
    BY <1>1, NotDoubtful
  <2>2. \A n \in runs'[id] : n <= tasks[id].attempts
    BY <1>1, <1>4, <2>1 DEF IInv, DataInv, Covers
  <2>3. UNCHANGED <<log, lostTool, agentOk>>
    BY DEF execute, execute_error
  <2> QED
    BY <2>1, <2>2, <2>3 DEF IInv, DataInv, Covers
<1>8. AttemptInv'
  BY <1>1, <1>3 DEF IInv, AttemptInv, execute, execute_error
<1> QED
  BY <1>5, <1>6, <1>7, <1>8 DEF IInv

\* The trace of the command is written, before any terminal state.
LEMMA TraceStep ==
  ASSUME IInv, record_execution
  PROVE  IInv'
<1> DEFINE id == frame.id
           tr == TraceOf(tasks[id].attempts, frame.exec)
           reading == [log[id] EXCEPT !.trace = tr]
<1>1. frame \in Frame /\ id \in Ids /\ tasks[id].attempts \in Nat
      /\ tasks[id].state = "running" /\ pc = "executed"
  BY CallFacts DEF record_execution
<1>2. tr \in Trace /\ tr.attempt = tasks[id].attempts
  BY <1>1, TraceFields, FrameFields
<1>3. log[id] \in Reading /\ log \in [Ids -> Reading] /\ traces \in [Ids -> Trace]
      /\ astray \subseteq doubtful
  BY <1>1 DEF IInv, TypeOK
<1> HIDE DEF tr
<1>4. reading \in Reading /\ reading.trace = tr /\ reading.task = log[id].task
  BY <1>2, <1>3, ReadingFields
<1>5. history' = history
  BY DEF record_execution
<1> HIDE DEF reading
<1>6. \/ /\ written(id, reading)
         /\ traces' = [traces EXCEPT ![id] = tr]
         /\ pc' = "recorded"
         /\ UNCHANGED <<tasks, frame, mishaps>>
      \/ failed(id, reading, TracePart)
  BY DEF record_execution, reading, tr
<1> HIDE DEF id
\* Whichever way, a task that is not doubtful has this line or the one it had.
<1>7. ASSUME doubtful \subseteq doubtful', doubtful' \subseteq Ids,
             \A other \in Ids \ doubtful' :
               log'[other] = log[other] \/ (other = id /\ log'[other] = reading)
      PROVE  DataInv'
  <2> SUFFICES ASSUME NEW other \in Ids \ doubtful' PROVE Covers(other, log[other].task)'
    BY DEF DataInv
  <2>1. Covers(other, log[other].task)
    BY <1>7 DEF IInv, DataInv
  <2>2. CASE log'[other] = log[other]
    BY <1>5, <2>1, <2>2 DEF Covers
  <2>3. CASE other = id /\ log'[other] = reading
    <3>1. tasks[id] = log[id].task
      BY <1>1, <1>7, <2>3, NotDoubtful DEF id
    <3>2. tr.attempt # log[id].trace.attempt
      BY <1>1, <1>2, <1>7, <2>3 DEF IInv, AttemptInv, id
    <3>3. log'[other].trace.attempt = log'[other].task.attempts
      BY <1>2, <1>4, <2>3, <3>1
    <3>4. log'[other].task = log[other].task
      BY <1>4, <2>3
    <3>5. tasks[id].state = "running" /\ tasks[id].attempts \in Nat
      BY <1>1
    <3> QED
      BY <1>5, <2>1, <2>3, <3>1, <3>3, <3>4, <3>5 DEF Covers
  <2> QED
    BY <1>7, <2>2, <2>3
<1>8. CASE /\ written(id, reading)
           /\ traces' = [traces EXCEPT ![id] = tr]
           /\ pc' = "recorded"
           /\ UNCHANGED <<tasks, frame, mishaps>>
  <2>1. /\ log' \in [Ids -> Reading] /\ tail' \in Tail
        /\ astray' \subseteq doubtful' /\ doubtful' \subseteq Ids
        /\ astray \subseteq astray' /\ doubtful \subseteq doubtful'
        /\ \A other \in Ids \ astray' :
             log'[other] = IF other = id THEN reading ELSE log[other]
    <3>1. TypeOK /\ id \in Ids
      BY <1>1 DEF IInv
    <3> QED
      BY <1>4, <1>8, <3>1, WrittenFacts
  <2>2. TypeOK'
    BY <1>2, <1>3, <1>5, <1>8, <2>1 DEF IInv, TypeOK
  <2>3. MemoryIsReplay'
    BY <1>1, <1>3, <1>4, <1>8, <2>1 DEF IInv, MemoryIsReplay
  <2>4. CallInv'
    BY <1>1, <1>8, <2>1 DEF IInv, CallInv
  <2>5. DataInv'
    BY <1>7, <2>1
  <2>6. AttemptInv'
    BY <1>1, <1>4, <1>8, <2>1 DEF AttemptInv, id, tr
  <2> QED
    BY <2>2, <2>3, <2>4, <2>5, <2>6 DEF IInv
<1>9. CASE failed(id, reading, TracePart)
  <2>1. /\ log' \in [Ids -> Reading] /\ tail' \in Tail
        /\ mishaps' \in 0..MishapBound
        /\ astray' \subseteq doubtful' /\ doubtful' \subseteq Ids
        /\ doubtful \subseteq doubtful'
        /\ \/ doubtful' = doubtful /\ log' \in {log, [log EXCEPT ![id] = reading]}
           \/ \A other \in Ids \ doubtful' : log'[other] = log[other]
        /\ \/ Drop
           \/ /\ pc' \in {"inspected", "idle"}
              /\ frame' = NoFrame /\ UNCHANGED memory
              /\ astray \subseteq astray'
              /\ \A other \in Ids \ astray' : log'[other] = log[other]
    BY <1>1, <1>4, <1>9, FailedFacts DEF IInv, id
  <2>2. /\ tasks' \in [Ids -> Task \cup {NoTask}] /\ traces' \in [Ids -> Trace]
        /\ pc' \in PC /\ frame' \in Frame
    BY <2>1, EmptyTypes DEF IInv, TypeOK
  <2>3. TypeOK'
    BY <1>5, <2>1, <2>2 DEF IInv, TypeOK
  <2>4. MemoryIsReplay'
    BY <1>1, <2>1 DEF IInv, MemoryIsReplay
  <2>5. CallInv' /\ AttemptInv'
    BY <1>1, <1>4, <1>9, FailedCalls DEF IInv, id
  <2>6. DataInv'
    <3>1. \A other \in Ids \ doubtful' :
            log'[other] = log[other] \/ (other = id /\ log'[other] = reading)
      BY <1>1, <1>3, <2>1
    <3> QED
      BY <1>7, <2>1, <3>1
  <2> QED
    BY <2>3, <2>4, <2>5, <2>6 DEF IInv
<1> QED
  BY <1>6, <1>8, <1>9

\* A tool trace: written, or not, or not any more.
LEMMA ToolStep ==
  ASSUME IInv, tool_trace
  PROVE  IInv'
<1> DEFINE id == frame.id
<1>1. frame \in Frame /\ id \in Ids /\ tasks[id].attempts \in Nat
      /\ tasks[id].state = "running" /\ pc = "agent"
  BY CallFacts DEF tool_trace
<1>2. UNCHANGED <<memory, pc, runs, agentOk>>
  BY DEF tool_trace
<1>3. log[id] \in Reading /\ log \in [Ids -> Reading] /\ astray \subseteq doubtful
      /\ doubtful \subseteq Ids /\ TypeOK
  BY <1>1 DEF IInv, TypeOK
<1>4. /\ frame' = frame \/ frame' = [frame EXCEPT !.fault = TRUE]
      /\ lostTool' \in {lostTool, [lostTool EXCEPT ![id] = tasks[id].attempts]}
      /\ mishaps' \in 0..MishapBound
  BY DEF tool_trace, IInv, TypeOK
<1>5. frame' \in Frame /\ frame'.id = id /\ frame'.result = frame.result
  <2>1. CASE frame' = frame
    BY <1>1, <2>1
  <2>2. CASE frame' = [frame EXCEPT !.fault = TRUE]
    <3>1. frame' \in Frame
      BY <1>1, <2>2 DEF Frame
    <3>2. frame'.id = id /\ frame'.result = frame.result
      BY <1>1, <2>2 DEF Frame
    <3> QED
      BY <3>1, <3>2
  <2> QED
    BY <1>4, <2>1, <2>2
<1>6. \/ \E part \in StatePart : append(id, log[id], part) /\ Doubt(Spoilt(id, part))
      \/ UNCHANGED <<file, doubts>>
  BY DEF tool_trace, written
<1>7. lostTool' = lostTool \/ frame'.fault \/ id \in doubtful'
  <2>1. CASE lostTool' = lostTool
    BY <2>1
  <2>2. CASE frame.fault
    BY <1>1, <2>2 DEF tool_trace, Mishap
  <2>3. CASE ~frame.fault /\ frame' = [frame EXCEPT !.fault = TRUE]
    BY <1>1, <2>3 DEF Frame
  <2>4. CASE written(id, log[id]) /\ tail.torn
    BY <1>1, <2>4 DEF written, Doubt, Spoilt
  <2> QED
    BY <2>1, <2>2, <2>3, <2>4 DEF tool_trace
<1>8. /\ log' \in [Ids -> Reading] /\ tail' \in Tail
      /\ astray' \subseteq doubtful' /\ doubtful' \subseteq Ids
      /\ astray \subseteq astray' /\ doubtful \subseteq doubtful'
      /\ \A other \in Ids \ astray' : log'[other] = log[other]
  <2>1. CASE UNCHANGED <<file, doubts>>
    BY <1>3, <2>1 DEF TypeOK
  <2>2. CASE \E part \in StatePart : append(id, log[id], part) /\ Doubt(Spoilt(id, part))
    <3>1. PICK part \in StatePart : append(id, log[id], part) /\ Doubt(Spoilt(id, part))
      BY <2>2
    <3> DEFINE spoilt == Spoilt(id, part)
    <3>2. /\ log' \in [Ids -> Reading] /\ tail' \in Tail /\ spoilt \subseteq Ids
          /\ \/ log' = log
             \/ log' = [log EXCEPT ![id] = log[id]]
             \/ \A other \in Ids \ spoilt : log'[other] = log[other]
      <4>1. TypeOK /\ id \in Ids /\ log[id] \in Reading
        BY <1>1, <1>3
      <4> HIDE DEF id
      <4> QED
        BY <3>1, <4>1, AppendFacts
    <3>3. astray' = astray \cup spoilt /\ doubtful' = doubtful \cup spoilt
      BY <3>1 DEF Doubt
    <3> HIDE DEF spoilt
    <3> QED
      BY <1>3, <3>2, <3>3
  <2> QED
    BY <1>6, <2>1, <2>2
<1> HIDE DEF id
<1>9. TypeOK'
  <2>1. lostTool' \in [Ids -> Nat]
    BY <1>1, <1>3, <1>4 DEF TypeOK
  <2> QED
    BY <1>2, <1>3, <1>4, <1>5, <1>8, <2>1 DEF TypeOK
<1>10. MemoryIsReplay' /\ CallInv'
  <2>1. MemoryIsReplay'
    BY <1>1, <1>2, <1>8 DEF IInv, MemoryIsReplay
  <2>2. CallInv'
    <3>1. tasks' = tasks /\ pc' = "agent" /\ frame'.id = id
      BY <1>1, <1>2, <1>5
    <3>2. \A other \in Ids \ astray : tasks[other].state = "running" => other = id
      BY <1>1 DEF IInv, CallInv, id
    <3> QED
      BY <1>1, <1>8, <3>1, <3>2 DEF CallInv
  <2> QED
    BY <2>1, <2>2
<1>11. \A other \in Ids \ doubtful' :
         /\ other \notin doubtful /\ log'[other] = log[other]
         /\ tasks[other] = log[other].task
  BY <1>1, <1>8, NotDoubtful
<1>12. DataInv'
  <2> SUFFICES ASSUME NEW other \in Ids \ doubtful' PROVE Covers(other, log[other].task)'
    BY DEF DataInv
  <2>1. Covers(other, log[other].task)
    BY <1>11 DEF IInv, DataInv
  <2>2. lostTool'[other] = lostTool[other]
          \/ (other = id /\ lostTool'[other] = tasks[other].attempts)
    BY <1>1, <1>3, <1>4 DEF TypeOK
  <2>3. other = id => log[other].task.state = "running" /\ log[other].task.attempts \in Nat
    BY <1>1, <1>11
  <2>4. log'[other] = log[other] /\ runs' = runs /\ agentOk' = agentOk
    BY <1>2, <1>11
  <2>5. CASE lostTool'[other] = lostTool[other]
    BY <2>1, <2>4, <2>5 DEF Covers
  <2>6. CASE other = id /\ lostTool'[other] = tasks[other].attempts
    <3>1. lostTool'[other] = log[other].task.attempts
      BY <1>11, <2>6
    <3> QED
      BY <2>1, <2>3, <2>4, <2>6, <3>1 DEF Covers
  <2> QED
    BY <2>2, <2>5, <2>6
<1>13. AttemptInv'
  <2>1. frame.fault => frame'.fault
    BY <1>1, <1>4 DEF Frame
  <2> QED
    BY <1>1, <1>2, <1>5, <1>7, <1>8, <1>11, <2>1 DEF IInv, AttemptInv, id
<1> QED
  BY <1>9, <1>10, <1>12, <1>13 DEF IInv

\* The agent loop returns.
LEMMA ReturnStep ==
  ASSUME IInv, agent_return
  PROVE  IInv'
<1>1. frame \in Frame /\ frame.id \in Ids /\ tasks[frame.id].attempts \in Nat
      /\ tasks[frame.id].state = "running" /\ pc = "agent"
  BY CallFacts DEF agent_return
<1>2. PICK r \in Result \ {"none"} :
        /\ frame' = [frame EXCEPT !.result = r]
        /\ agentOk' = IF r = "verified"
                        THEN [agentOk EXCEPT ![frame.id] = tasks[frame.id].attempts]
                        ELSE agentOk
  BY DEF agent_return
<1>3. frame' \in Frame /\ frame'.id = frame.id /\ frame'.fault = frame.fault
      /\ frame'.result = r
  BY <1>1, <1>2, FrameFields DEF Frame
<1>4. agentOk' \in [Ids -> Nat] /\ \A id \in Ids \ {frame.id} : agentOk'[id] = agentOk[id]
  BY <1>1, <1>2 DEF IInv, TypeOK
<1>5. TypeOK'
  BY <1>3, <1>4 DEF IInv, TypeOK, agent_return
<1>6. MemoryIsReplay' /\ CallInv'
  BY <1>1, <1>3 DEF IInv, MemoryIsReplay, CallInv, agent_return
<1>7. DataInv'
  <2> SUFFICES ASSUME NEW id \in Ids \ doubtful PROVE Covers(id, log[id].task)'
    BY DEF DataInv, agent_return
  <2>1. UNCHANGED <<log, lostTool, runs>>
    BY DEF agent_return
  <2>2. Covers(id, log[id].task)
    BY DEF IInv, DataInv
  <2>3. id = frame.id => log[id].task.state = "running"
    BY <1>1, NotDoubtful
  <2> QED
    BY <1>4, <2>1, <2>2, <2>3 DEF Covers
<1>8. AttemptInv'
  <2>1. r = "verified" => agentOk'[frame.id] = tasks[frame.id].attempts
    BY <1>1, <1>2 DEF IInv, TypeOK
  <2> QED
    BY <1>1, <1>3, <2>1 DEF IInv, AttemptInv, agent_return
<1> QED
  BY <1>5, <1>6, <1>7, <1>8 DEF IInv

\* The terminal state of a command or of an agent task.
LEMMA SettleStep ==
  ASSUME IInv, settle_run \/ settle_agent
  PROVE  IInv'
<1> DEFINE id == frame.id
<1>1. id \in Ids /\ tasks[id] \in Task /\ frame \in Frame /\ tasks[id].attempts \in Nat
      /\ pc \in {"recorded", "refused", "returned"}
  BY CallFacts DEF settle_run, settle_agent
<1>2. PICK s \in {"succeeded", "failed", "cancelled"} :
        /\ record(id, TaskOf(s, tasks[id].attempts), "idle", NoFrame) /\ UNCHANGED history
        /\ s = "succeeded" => \/ pc = "recorded" /\ run_verdict(frame.exec) = "succeeded"
                              \/ /\ pc = "returned" /\ ~frame.fault
                                 /\ frame.result = "verified"
  BY <1>1, VerdictsAreStates DEF settle_run, settle_agent, transition, agent_verdict
<1> DEFINE t == TaskOf(s, tasks[id].attempts)
<1>3. t \in Task /\ t.state = s /\ t.attempts = tasks[id].attempts
  BY <1>1
<1>4. record(id, t, "idle", NoFrame) /\ UNCHANGED history
  BY <1>2
<1> HIDE DEF t
<1>5. ASSUME id \notin doubtful PROVE Covers(id, t)
  <2>1. tasks[id] = log[id].task
    BY <1>1, <1>5, NotDoubtful
  <2>2. Covers(id, tasks[id])
    BY <1>1, <1>5, <2>1 DEF IInv, DataInv
  <2>3. CASE s # "succeeded"
    BY <1>3, <2>2, <2>3 DEF Covers
  <2>4. CASE pc = "recorded" /\ run_verdict(frame.exec) = "succeeded"
    <3>1. trace_state(log[id].trace) = "succeeded" /\ log[id].trace.attempt = t.attempts
      BY <1>1, <1>3, <1>5, <2>4, VerdictsAgree DEF IInv, AttemptInv
    <3> QED
      BY <1>3, <2>2, <3>1 DEF Covers
  <2>5. CASE pc = "returned" /\ ~frame.fault /\ frame.result = "verified"
    <3>1. agentOk[id] = t.attempts /\ lostTool[id] # t.attempts
      BY <1>3, <1>5, <2>5 DEF IInv, AttemptInv
    <3> QED
      BY <1>3, <2>2, <3>1 DEF Covers
  <2> QED
    BY <1>2, <2>3, <2>4, <2>5
<1>6. tasks' = [tasks EXCEPT ![id] = t] /\ pc' = "idle" /\ frame' = NoFrame
        /\ astray \subseteq astray' => CallInv' /\ AttemptInv'
  BY <1>1, <1>2, <1>3 DEF IInv, TypeOK, CallInv, AttemptInv
<1>7. NoFrame \in Frame /\ "idle" \in PC /\ pc # "closed"
  BY <1>1, EmptyTypes
<1> QED
  BY <1>1, <1>3, <1>4, <1>5, <1>6, <1>7, LineStep

-----------------------------------------------------------------------------
\* Every step keeps the inductive invariant.
LEMMA NextStep ==
  ASSUME IInv, [Next]_vars
  PROVE  IInv'
<1>1. CASE open \/ inspect \/ Close \/ Crash \/ recovery_done
  BY <1>1, HandleStep
<1>2. CASE \E id \in Ids : recover(id)
  BY <1>2, RecoverStep
<1>3. CASE \E id \in Ids : \/ enqueue(id) \/ cancel(id)
                           \/ \E limit \in RetryLimits : retry(id, limit)
  BY <1>3, OperationStep
<1>4. CASE \E id \in Ids : run_next(id)
  BY <1>4, StartStep DEF run_next
<1>5. CASE \E id \in Ids : agent_enqueue(id)
  BY <1>5, AgentEnqueueStep
<1>6. CASE \E id \in Ids : agent_start(id)
  BY <1>6, StartStep DEF agent_start
<1>7. CASE execute \/ execute_error
  BY <1>7, ExecuteStep
<1>8. CASE record_execution
  BY <1>8, TraceStep
<1>9. CASE tool_trace
  BY <1>9, ToolStep
<1>10. CASE agent_return
  BY <1>10, ReturnStep
<1>11. CASE settle_run \/ settle_agent
  BY <1>11, SettleStep
<1>12. CASE UNCHANGED vars
  BY <1>12 DEF IInv, TypeOK, MemoryIsReplay, CallInv, DataInv, Covers, AttemptInv, vars
<1> QED
  BY <1>1, <1>2, <1>3, <1>4, <1>5, <1>6, <1>7, <1>8, <1>9, <1>10, <1>11, <1>12 DEF Next

\* The inductive invariant holds of every behaviour.
THEOREM Inductive == Spec => []IInv
<1>1. Init => IInv
  <2> SUFFICES ASSUME Init PROVE IInv
    OBVIOUS
  <2>1. Unread \in Reading /\ Unread.task = NoTask /\ Unread.trace = NoTrace
        /\ NoTail \in Tail
    BY EmptyTypes DEF Unread, Reading, NoTail, Tail
  <2>2. TypeOK
    BY <2>1, EmptyTypes DEF Init, TypeOK
  <2>3. DataInv
    BY <2>1 DEF Init, DataInv, Covers
  <2> QED
    BY <2>2, <2>3 DEF Init, IInv, MemoryIsReplay, CallInv, AttemptInv
<1>2. IInv /\ [Next]_vars => IInv'
  BY NextStep
<1> QED
  BY <1>1, <1>2, PTL DEF Spec

\* Every variable keeps its type.
THEOREM TypeCorrect == Spec => []TypeOK
  BY Inductive, PTL DEF IInv

\* An open handle holds what a replay of the log yields, but for the tasks of
\* which its own append failed or was glued to an unfinished line.
THEOREM MemoryIsAlwaysReplay == Spec => []MemoryIsReplay
  BY Inductive, PTL DEF IInv

\* No attempt number of a task whose lines were all read is executed twice.
THEOREM NoAttemptEverRunsTwice == Spec => []NoAttemptRunsTwice
<1>1. IInv => NoAttemptRunsTwice
  BY DEF IInv, AttemptInv, NoAttemptRunsTwice
<1> QED
  BY <1>1, Inductive, PTL

\* No durable success without a passed trace or a fully traced verified report.
THEOREM SuccessAlwaysBacked == Spec => []SucceededIsBacked
<1>1. IInv => SucceededIsBacked
  BY DEF IInv, DataInv, Covers, SucceededIsBacked
<1> QED
  BY <1>1, Inductive, PTL

\* A handle at rest leaves no task running in the log, but one of which its own
\* append failed or was glued to an unfinished line.
THEOREM RestLeavesNothingRunning == Spec => []CallLeavesNothingRunning
<1>1. IInv => CallLeavesNothingRunning
  BY DEF IInv, MemoryIsReplay, CallInv, CallLeavesNothingRunning
<1> QED
  BY <1>1, Inductive, PTL

-----------------------------------------------------------------------------
\* What a reader of the log sees of a task.
Seen(id) == log[id].task

\* How the state line of a task may move: entering, starting, recovery, an
\* explicit cancellation, a retry, the end of the call in progress.
Moves(id, t) ==
  \/ Seen(id) = NoTask /\ t = TaskOf("queued", 0)
  \/ Seen(id).state = "queued" /\ t = TaskOf("running", Seen(id).attempts + 1)
  \/ Seen(id).state = "running" /\ t = recovered(Seen(id), log[id].trace)
  \/ /\ Seen(id).state \in {"queued", "running"}
     /\ t = TaskOf("cancelled", Seen(id).attempts)
  \/ /\ Seen(id).state = "failed"
     /\ \E limit \in RetryLimits : Seen(id).attempts < limit
     /\ t = TaskOf("queued", Seen(id).attempts)
  \/ /\ Seen(id).state = "running"
     /\ id = frame.id /\ pc \in {"recorded", "refused", "returned"}
     /\ \E s \in {"succeeded", "failed", "cancelled"} :
          /\ t = TaskOf(s, Seen(id).attempts)
          /\ pc = "recorded" => s = run_verdict(frame.exec)

\* A step either moves the state line of one task, which is not doubtful, and
\* nothing else that is seen; or it moves no task but those then doubtful.
OneLine ==
  \/ /\ doubtful' = doubtful
     /\ \E id \in Ids \ doubtful, t \in Task :
          /\ Moves(id, t) /\ Seen(id)' = t
          /\ \A other \in Ids : other # id => Seen(other)' = Seen(other)
  \/ /\ doubtful \subseteq doubtful'
     /\ \A id \in Ids \ doubtful' : Seen(id)' = Seen(id)

LEMMA RecordMoves ==
  ASSUME IInv, pc # "closed", NEW id \in Ids, NEW t \in Task, NEW next, NEW locals,
         record(id, t, next, locals),
         id \notin doubtful => Moves(id, t)
  PROVE  OneLine
<1> DEFINE reading == [log[id] EXCEPT !.task = t]
<1>1. log \in [Ids -> Reading] /\ TypeOK
  BY DEF IInv, TypeOK
<1>2. reading \in Reading /\ reading.task = t
  BY <1>1, ReadingFields
<1>3. written(id, reading) \/ failed(id, reading, StatePart)
  BY DEF record
<1> HIDE DEF reading
<1>4. /\ doubtful \subseteq doubtful' /\ log' \in [Ids -> Reading]
      /\ \/ doubtful' = doubtful /\ log' \in {log, [log EXCEPT ![id] = reading]}
         \/ \A other \in Ids \ doubtful' : log'[other] = log[other]
  <2>1. CASE written(id, reading)
    BY <1>1, <1>2, <2>1, WrittenFacts
  <2>2. CASE failed(id, reading, StatePart)
    BY <1>1, <1>2, <2>2, FailedFacts
  <2> QED
    BY <1>3, <2>1, <2>2
<1>5. CASE \A other \in Ids \ doubtful' : log'[other] = log[other]
  BY <1>4, <1>5 DEF OneLine, Seen
<1>6. CASE doubtful' = doubtful /\ log' = [log EXCEPT ![id] = reading]
  <2>1. Seen(id)' = t /\ \A other \in Ids : other # id => Seen(other)' = Seen(other)
    BY <1>1, <1>2, <1>6 DEF Seen
  <2>2. CASE id \in doubtful
    BY <1>6, <2>1, <2>2 DEF OneLine
  <2>3. CASE id \notin doubtful
    BY <1>6, <2>1, <2>3 DEF OneLine
  <2> QED
    BY <2>2, <2>3
<1> QED
  BY <1>4, <1>5, <1>6

\* Every step is of that kind.
LEMMA StateLineStep ==
  ASSUME IInv, Next
  PROVE  OneLine
<1>1. \A id \in Ids : tasks[id].state # "absent" => tasks[id] \in Task
  BY DEF IInv, TypeOK
<1>2. CASE \E id \in Ids : recover(id)
  <2>1. PICK id \in Ids : recover(id)
    BY <1>2
  <2>2. tasks[id] \in Task /\ traces[id] \in Trace /\ tasks[id].state = "running"
        /\ pc # "closed"
    BY <2>1 DEF IInv, TypeOK, recover
  <2>3. recovered(tasks[id], traces[id]) \in Task
    BY <2>2, VerdictsAreStates DEF recovered
  <2>4. id \notin doubtful => Moves(id, recovered(tasks[id], traces[id]))
    BY <2>2, NotDoubtful DEF Moves, Seen
  <2>5. record(id, recovered(tasks[id], traces[id]), "recovering", NoFrame)
    BY <2>1 DEF recover
  <2> QED
    BY <2>2, <2>3, <2>4, <2>5, RecordMoves
<1>3. CASE \E id \in Ids : enqueue(id) \/ agent_enqueue(id)
  <2>1. PICK id \in Ids : enqueue(id) \/ agent_enqueue(id)
    BY <1>3
  <2>2. tasks[id] = NoTask /\ pc # "closed" /\ TaskOf("queued", 0) \in Task
    BY <2>1 DEF enqueue, agent_enqueue
  <2>3. PICK next \in PC, locals \in Frame : record(id, TaskOf("queued", 0), next, locals)
    BY <2>1, FrameFields, EmptyTypes DEF enqueue, agent_enqueue
  <2>4. id \notin doubtful => Moves(id, TaskOf("queued", 0))
    BY <2>2, NotDoubtful DEF Moves, Seen
  <2> QED
    BY <2>2, <2>3, <2>4, RecordMoves
<1>4. CASE \E id \in Ids : cancel(id)
  <2>1. PICK id \in Ids : cancel(id)
    BY <1>4
  <2>2. tasks[id] \in Task /\ tasks[id].state \in {"queued", "running"} /\ pc # "closed"
    BY <1>1, <2>1 DEF cancel
  <2>3. TaskOf("cancelled", tasks[id].attempts) \in Task
    BY <2>2
  <2>4. record(id, TaskOf("cancelled", tasks[id].attempts), pc, NoFrame)
    BY <2>1 DEF cancel, transition
  <2>5. id \notin doubtful => Moves(id, TaskOf("cancelled", tasks[id].attempts))
    BY <2>2, NotDoubtful DEF Moves, Seen
  <2> QED
    BY <2>2, <2>3, <2>4, <2>5, RecordMoves
<1>5. CASE \E id \in Ids, limit \in RetryLimits : retry(id, limit)
  <2>1. PICK id \in Ids, limit \in RetryLimits : retry(id, limit)
    BY <1>5
  <2>2. tasks[id] \in Task /\ tasks[id].state = "failed" /\ tasks[id].attempts < limit
        /\ pc # "closed"
    BY <1>1, <2>1 DEF retry
  <2>3. TaskOf("queued", tasks[id].attempts) \in Task
    BY <2>2
  <2>4. record(id, TaskOf("queued", tasks[id].attempts), "idle", NoFrame)
    BY <2>1 DEF retry, transition
  <2>5. id \notin doubtful => Moves(id, TaskOf("queued", tasks[id].attempts))
    BY <2>2, NotDoubtful DEF Moves, Seen
  <2> QED
    BY <2>2, <2>3, <2>4, <2>5, RecordMoves
<1>6. CASE \E id \in Ids : run_next(id) \/ agent_start(id)
  <2>1. PICK id \in Ids, next \in {"started", "agent"} :
          start(id, next) /\ pc \in {"idle", "enqueued"}
    BY <1>6 DEF run_next, agent_start
  <2>2. tasks[id] \in Task /\ tasks[id].state = "queued" /\ pc # "closed"
    BY <1>1, <2>1 DEF start
  <2>3. TaskOf("running", tasks[id].attempts + 1) \in Task
    BY <2>2
  <2>4. record(id, TaskOf("running", tasks[id].attempts + 1), next, FrameOf(id))
    BY <2>1 DEF start
  <2>5. id \notin doubtful => Moves(id, TaskOf("running", tasks[id].attempts + 1))
    BY <2>2, NotDoubtful DEF Moves, Seen
  <2> QED
    BY <2>2, <2>3, <2>4, <2>5, RecordMoves
<1>7. CASE settle_run \/ settle_agent
  <2>1. /\ frame.id \in Ids /\ tasks[frame.id].state = "running"
        /\ tasks[frame.id] \in Task /\ frame \in Frame
        /\ pc \in {"recorded", "refused", "returned"}
    BY <1>7, CallFacts DEF settle_run, settle_agent
  <2>2. PICK s \in {"succeeded", "failed", "cancelled"} :
          /\ transition(frame.id, s, "idle", NoFrame)
          /\ pc = "recorded" => s = run_verdict(frame.exec)
    BY <1>7, <2>1, VerdictsAreStates DEF settle_run, settle_agent
  <2> DEFINE t == TaskOf(s, tasks[frame.id].attempts)
  <2>3. t \in Task
    BY <2>1
  <2>4. record(frame.id, t, "idle", NoFrame)
    BY <2>2 DEF transition
  <2>5. frame.id \notin doubtful => Moves(frame.id, t)
    BY <2>1, <2>2, NotDoubtful DEF Moves, Seen
  <2> HIDE DEF t
  <2> QED
    BY <2>1, <2>3, <2>4, <2>5, RecordMoves
<1>8. CASE record_execution
  <2> DEFINE tr == TraceOf(tasks[frame.id].attempts, frame.exec)
             reading == [log[frame.id] EXCEPT !.trace = tr]
  <2>1. frame.id \in Ids /\ tr \in Trace /\ TypeOK
    BY <1>8, CallFacts, TraceFields, FrameFields DEF record_execution, IInv
  <2> HIDE DEF tr
  <2>2. log \in [Ids -> Reading] /\ reading \in Reading /\ reading.task = log[frame.id].task
    BY <2>1, ReadingFields DEF TypeOK
  <2>3. written(frame.id, reading) \/ failed(frame.id, reading, TracePart)
    BY <1>8 DEF record_execution, tr
  <2> HIDE DEF reading
  <2>4. /\ doubtful \subseteq doubtful'
        /\ \/ log' \in {log, [log EXCEPT ![frame.id] = reading]}
           \/ \A other \in Ids \ doubtful' : log'[other] = log[other]
    <3>1. CASE written(frame.id, reading)
      BY <2>1, <2>2, <3>1, WrittenFacts
    <3>2. CASE failed(frame.id, reading, TracePart)
      BY <2>1, <2>2, <3>2, FailedFacts
    <3> QED
      BY <2>3, <3>1, <3>2
  <2> QED
    BY <2>1, <2>2, <2>4 DEF OneLine, Seen
<1>9. CASE tool_trace
  <2>1. frame.id \in Ids /\ TypeOK
    BY <1>9, CallFacts DEF tool_trace, IInv
  <2>2. \/ \E part \in StatePart :
             append(frame.id, log[frame.id], part) /\ Doubt(Spoilt(frame.id, part))
        \/ UNCHANGED <<file, doubts>>
    BY <1>9 DEF tool_trace, written
  <2>3. CASE \E part \in StatePart :
               append(frame.id, log[frame.id], part) /\ Doubt(Spoilt(frame.id, part))
    <3>1. PICK part \in StatePart :
            append(frame.id, log[frame.id], part) /\ Doubt(Spoilt(frame.id, part))
      BY <2>3
    <3>2. log \in [Ids -> Reading] /\ log[frame.id] \in Reading
      BY <2>1 DEF TypeOK
    <3>3. \/ log' = log \/ log' = [log EXCEPT ![frame.id] = log[frame.id]]
          \/ \A other \in Ids \ Spoilt(frame.id, part) : log'[other] = log[other]
      <4> DEFINE id == frame.id
      <4>1. id \in Ids /\ log[id] \in Reading /\ append(id, log[id], part)
        BY <2>1, <3>1, <3>2
      <4> HIDE DEF id
      <4>2. \/ log' = log \/ log' = [log EXCEPT ![id] = log[id]]
            \/ \A other \in Ids \ Spoilt(id, part) : log'[other] = log[other]
        BY <2>1, <4>1, AppendFacts
      <4> QED
        BY <4>2 DEF id
    <3>4. doubtful' = doubtful \cup Spoilt(frame.id, part)
      BY <3>1 DEF Doubt
    <3> QED
      BY <3>2, <3>3, <3>4 DEF OneLine, Seen
  <2> QED
    BY <2>2, <2>3 DEF OneLine, Seen
<1>10. CASE \/ open \/ inspect \/ Close \/ Crash \/ recovery_done \/ execute
            \/ execute_error \/ agent_return
  BY <1>10 DEF OneLine, Seen, open, inspect, load, Close, Crash, recovery_done, execute,
               execute_error, agent_return
<1> QED
  BY <1>2, <1>3, <1>4, <1>5, <1>6, <1>7, <1>8, <1>9, <1>10 DEF Next

\* A traced attempt ends as its trace says, unless somebody cancels it.
THEOREM TracedAttemptsSettle == Spec => TracedAttemptSettles
<1> DEFINE Settles(id) ==
      LET t == log[id].task
          tr == log[id].trace
      IN t.state = "running" /\ tr.attempt = t.attempts
           => /\ log'[id].task.state \in {"running", "cancelled", trace_state(tr)}
              /\ log'[id].task.attempts = t.attempts
<1>1. IInv /\ [Next]_vars => \A id \in Ids \ doubtful' : Settles(id)
  <2> SUFFICES ASSUME IInv, [Next]_vars, NEW id \in Ids \ doubtful',
                      Seen(id).state = "running", log[id].trace.attempt = Seen(id).attempts
               PROVE  /\ Seen(id)'.state \in {"running", "cancelled", trace_state(log[id].trace)}
                      /\ Seen(id)'.attempts = Seen(id).attempts
    BY DEF Seen
  <2>1. CASE Seen(id)' = Seen(id)
    BY <2>1
  <2>2. CASE Next /\ Seen(id)' # Seen(id)
    <3>1. PICK moved \in Ids \ doubtful, t \in Task :
            /\ Moves(moved, t) /\ Seen(moved)' = t
            /\ \A other \in Ids : other # moved => Seen(other)' = Seen(other)
      BY <2>2, StateLineStep DEF OneLine
    <3>2. moved = id /\ Seen(id)' = t /\ Moves(id, t)
      BY <2>2, <3>1
    <3>3. CASE t = recovered(Seen(id), log[id].trace)
      BY <3>2, <3>3 DEF recovered
    <3>4. CASE t = TaskOf("cancelled", Seen(id).attempts)
      BY <3>2, <3>4
    <3>5. CASE /\ id = frame.id /\ pc \in {"recorded", "refused", "returned"}
               /\ \E s \in {"succeeded", "failed", "cancelled"} :
                    /\ t = TaskOf(s, Seen(id).attempts)
                    /\ pc = "recorded" => s = run_verdict(frame.exec)
      <4>1. id \notin doubtful /\ tasks[id] = Seen(id)
        BY <3>1, <3>2, <3>5, NotDoubtful DEF Seen
      <4>2. pc = "recorded"
        BY <3>5, <4>1 DEF IInv, AttemptInv
      <4>3. log[id].trace = TraceOf(Seen(id).attempts, frame.exec)
        BY <3>5, <4>1, <4>2 DEF IInv, AttemptInv
      <4>4. trace_state(log[id].trace) = run_verdict(frame.exec)
        BY <4>3 DEF trace_state, run_verdict
      <4> QED
        BY <3>2, <3>5, <4>2, <4>4
    <3> QED
      BY <3>2, <3>3, <3>4, <3>5 DEF Moves
  <2>3. CASE UNCHANGED vars
    BY <2>1, <2>3 DEF vars, Seen
  <2> QED
    BY <2>1, <2>2, <2>3
<1>2. [][\A id \in Ids \ doubtful' : Settles(id)]_vars <=> TracedAttemptSettles
  BY DEF TracedAttemptSettles
<1> QED
  BY <1>1, <1>2, Inductive, PTL DEF Spec

\* Runtime implements the task lifecycle.
THEOREM ImplementsLifecycle == Spec => LifecycleSpec
<1> DEFINE seen == [id \in Ids |-> log[id].task]
<1>1. Init => Lifecycle!Init
  BY DEF Init, Lifecycle!Init, Lifecycle!NoTask, Unread
<1>2. IInv /\ [Next]_vars => [Lifecycle!Next]_<<seen, doubtful>>
  <2> SUFFICES ASSUME IInv, [Next]_vars PROVE [Lifecycle!Next]_<<seen, doubtful>>
    OBVIOUS
  <2>1. /\ log \in [Ids -> Reading] /\ log' \in [Ids -> Reading]
        /\ doubtful' \subseteq Ids
        /\ \A id \in Ids : Seen(id) \in Task \cup {NoTask} /\ Seen(id)' \in Task \cup {NoTask}
    <3>1. TypeOK /\ TypeOK'
      BY NextStep DEF IInv
    <3> QED
      BY <3>1, ReadingFields DEF TypeOK, Seen
  <2>2. CASE UNCHANGED vars
    BY <2>2 DEF vars
  <2>3. CASE /\ doubtful \subseteq doubtful'
             /\ \A id \in Ids \ doubtful' : Seen(id)' = Seen(id)
    <3>1. Lifecycle!Lose
      BY <2>1, <2>3 DEF Lifecycle!Lose, Lifecycle!NoTask, Lifecycle!Task, Lifecycle!State, Seen
    <3> QED
      BY <3>1 DEF Lifecycle!Next
  <2>4. CASE /\ doubtful' = doubtful
             /\ \E id \in Ids \ doubtful, t \in Task :
                  /\ Moves(id, t) /\ Seen(id)' = t
                  /\ \A other \in Ids : other # id => Seen(other)' = Seen(other)
    <3>1. PICK id \in Ids \ doubtful, t \in Task :
            /\ Moves(id, t) /\ Seen(id)' = t
            /\ \A other \in Ids : other # id => Seen(other)' = Seen(other)
      BY <2>4
    <3>2. seen[id] = Seen(id) /\ seen' = [seen EXCEPT ![id] = t] /\ doubtful' = doubtful
      BY <2>4, <3>1 DEF Seen
    <3> USE DEF Lifecycle!Next, Lifecycle!Move, Lifecycle!TaskOf, Lifecycle!NoTask
    <3>0. ASSUME Seen(id).state = "running",
                 \E s \in {"succeeded", "failed", "cancelled"} : t = TaskOf(s, Seen(id).attempts)
          PROVE  Lifecycle!Next
      <4>1. PICK s \in {"succeeded", "failed", "cancelled"} : t = TaskOf(s, Seen(id).attempts)
        BY <3>0
      <4>2. seen[id].state = "running"
            /\ seen' = [seen EXCEPT ![id] = Lifecycle!TaskOf(s, seen[id].attempts)]
        BY <3>0, <3>2, <4>1
      <4>3. Lifecycle!Settle(id)
        BY <4>2, <4>1 DEF Lifecycle!Settle
      <4> QED
        BY <3>2, <4>3
    <3>3. CASE Seen(id) = NoTask /\ t = TaskOf("queued", 0)
      BY <3>2, <3>3 DEF Lifecycle!Enqueue
    <3>4. CASE Seen(id).state = "queued" /\ t = TaskOf("running", Seen(id).attempts + 1)
      BY <3>2, <3>4 DEF Lifecycle!Start
    <3>5. CASE Seen(id).state = "running" /\ t = recovered(Seen(id), log[id].trace)
      <4>1. \/ t = TaskOf("queued", Seen(id).attempts)
            \/ \E s \in {"succeeded", "failed", "cancelled"} : t = TaskOf(s, Seen(id).attempts)
        BY <2>1, <3>5, ReadingFields, VerdictsAreStates DEF recovered
      <4> QED
        <5>1. CASE t = TaskOf("queued", Seen(id).attempts)
          <6>1. seen[id].state = "running"
                /\ seen' = [seen EXCEPT ![id] = Lifecycle!TaskOf("queued", seen[id].attempts)]
            BY <3>2, <3>5, <5>1
          <6>2. Lifecycle!Requeue(id)
            BY <6>1 DEF Lifecycle!Requeue
          <6> QED
            BY <3>2, <6>2
        <5> QED
          BY <3>0, <3>2, <3>5, <4>1, <5>1
    <3>6. CASE /\ Seen(id).state \in {"queued", "running"}
               /\ t = TaskOf("cancelled", Seen(id).attempts)
      BY <3>2, <3>6 DEF Lifecycle!CancelQueued, Lifecycle!Settle
    <3>7. CASE /\ Seen(id).state = "failed"
               /\ \E limit \in RetryLimits : Seen(id).attempts < limit
               /\ t = TaskOf("queued", Seen(id).attempts)
      BY <3>2, <3>7 DEF Lifecycle!Retry
    <3>8. CASE /\ Seen(id).state = "running"
               /\ \E s \in {"succeeded", "failed", "cancelled"} :
                    t = TaskOf(s, Seen(id).attempts)
      BY <3>0, <3>2, <3>8
    <3> QED
      BY <3>1, <3>3, <3>4, <3>5, <3>6, <3>7, <3>8 DEF Moves
  <2> QED
    BY <2>2, <2>3, <2>4, StateLineStep DEF OneLine
<1> QED
  BY <1>1, <1>2, Inductive, PTL DEF Spec, LifecycleSpec, Lifecycle!Spec, Lifecycle!vars
=============================================================================
