------------------------------- MODULE Runtime -------------------------------
(***************************************************************************)
(* One `Runtime' handle at a time over one events.log: opening it, restart *)
(* recovery, the task operations, one supervised command (run_next) and    *)
(* one agent task (run_agent_task), with crashes between any two durable   *)
(* steps and appends that fail (src/src/lib.rs, src/src/worker.rs).        *)
(*                                                                         *)
(* The log is held as what a replay of it yields for a decision: the last  *)
(* state line and the last task trace of every id; and its tail: whether   *)
(* its last line is finished, as an append that follows an unfinished line *)
(* is glued to it and never read.  Tool traces are read back apart, and by *)
(* no decision: of them the module keeps whether one is missing.  Module   *)
(* EventBytes takes the lines apart into the pieces they are written in.   *)
(* Handles that overlap are module SharedLog.                              *)
(***************************************************************************)
EXTENDS EventLog

CONSTANTS Ids,           \* the task ids; their order is the order of `id.cmp'
          Outcomes,      \* what the executor may return for a command
          RetryLimits,   \* the values callers pass as `max_attempts'
          AttemptBound,  \* bound on the attempts the model explores per task
          MishapBound    \* bound on crashes and failed appends

ASSUME IdsAssumption == Ids \subseteq Nat \ {0}
ASSUME OutcomesAssumption == Outcomes \subseteq Execution
ASSUME LimitsAssumption == RetryLimits \subseteq Nat
ASSUME BoundsAssumption == AttemptBound \in Nat /\ MishapBound \in Nat

VARIABLES
  log,       \* durable: what a replay yields for every id
  tail,      \* durable: the unfinished line the log ends in, if any
  tasks,     \* Runtime.tasks of the open handle
  traces,    \* Runtime.traces of the open handle, the last one per id
  pc,        \* where the call on the handle stands
  frame,     \* the locals of that call
  mishaps,   \* crashes and failed appends so far
  runs,      \* history: the attempts under which run_next executed a command
  agentOk,   \* history: the attempt an agent last reported as verified
  lostTool,  \* history: the attempt of which a tool trace was last lost
  astray,    \* history: the ids of which this handle, still open, could not
             \* write a line, or spoilt one by gluing its own to it
  doubtful   \* history: the ids that ever were astray

file == <<log, tail>>
memory == <<tasks, traces>>
history == <<runs, agentOk, lostTool>>
doubts == <<astray, doubtful>>
vars == <<file, memory, pc, frame, mishaps, history, doubts>>

-----------------------------------------------------------------------------
Result == {"none", "verified", "unverified", "interrupted", "error"}

Frame == [id : Ids \cup {0}, exec : Execution, result : Result, fault : BOOLEAN]

NoFrame == [id |-> 0, exec |-> NoTrace.exec, result |-> "none", fault |-> FALSE]

FrameOf(id) == [NoFrame EXCEPT !.id = id]

\* The last state line of an id and its last "trace" line.
Reading == [task : Task \cup {NoTask}, trace : Trace]

Unread == [task |-> NoTask, trace |-> NoTrace]

\* If the unfinished line can be read as it is but not once another is glued
\* to it, `id' is its task and `was' what the replay then yields again.
Tail == [torn : BOOLEAN, id : Ids \cup {0}, was : Reading]

NoTail == [torn |-> FALSE, id |-> 0, was |-> Unread]

NoTasks == [id \in Ids |-> NoTask]
NoTraces == [id \in Ids |-> NoTrace]

Init ==
  /\ log = [id \in Ids |-> Unread] /\ tail = NoTail
  /\ tasks = NoTasks /\ traces = NoTraces
  /\ pc = "closed" /\ frame = NoFrame /\ mishaps = 0
  /\ runs = [id \in Ids |-> {}]
  /\ agentOk = [id \in Ids |-> 0]
  /\ lostTool = [id \in Ids |-> 0]
  /\ astray = {} /\ doubtful = {}

-----------------------------------------------------------------------------
(***************************************************************************)
(* How a line reaches the file, and the ways a handle ends.  `writeln!'    *)
(* issues one write per piece, so a failed one leaves a part of the line:  *)
(*   "none"   nothing of it;                                               *)
(*   "scrap"  too little to be read;                                       *)
(*   "loose"  all that is read of it, the last field still open;           *)
(*   "firm"   all that is read of it, and the tab that ends its last field;*)
(*   "whole"  the line with its newline (the sync failed).                 *)
(***************************************************************************)
append(id, reading, part) ==
  \/ /\ part = "none"
     /\ UNCHANGED file
  \/ /\ part # "none" /\ tail.torn
     /\ log' = [other \in Ids |-> IF other = tail.id THEN tail.was ELSE log[other]]
     /\ tail' = [NoTail EXCEPT !.torn = part # "whole"]
  \/ /\ part = "scrap" /\ ~tail.torn
     /\ tail' = [NoTail EXCEPT !.torn = TRUE]
     /\ UNCHANGED log
  \/ /\ part \in {"loose", "firm", "whole"} /\ ~tail.torn
     /\ log' = [log EXCEPT ![id] = reading]
     /\ tail' = IF part = "loose" THEN [torn |-> TRUE, id |-> id, was |-> log[id]]
                                  ELSE [NoTail EXCEPT !.torn = part # "whole"]

\* The tasks whose lines are spoilt by an append to an unfinished line.
Spoilt(id, part) == IF tail.torn /\ part # "none" THEN {id, tail.id} \ {0} ELSE {}

Doubt(ids) == astray' = astray \cup ids /\ doubtful' = doubtful \cup ids

Drop ==
  /\ tasks' = NoTasks /\ traces' = NoTraces
  /\ pc' = "closed" /\ frame' = NoFrame
  /\ astray' = {}

Mishap == mishaps < MishapBound /\ mishaps' = mishaps + 1

\* All of the line is written and synchronized.
written(id, reading) ==
  /\ append(id, reading, "whole")
  /\ Doubt(Spoilt(id, "whole"))

\* A write or the sync fails, or the process is killed.  The error leaves the
\* call at once; every caller in the repository then drops the handle, a caller
\* of the library may go on with it.  A handle that is being opened is dropped.
failed(id, reading, parts) ==
  /\ Mishap
  /\ \E part \in parts :
       /\ append(id, reading, part)
       /\ \/ Drop /\ doubtful' = doubtful \cup Spoilt(id, part)
          \/ /\ pc # "recovering"
             /\ pc' = (IF pc = "inspected" THEN pc ELSE "idle") /\ frame' = NoFrame
             /\ Doubt({id} \cup Spoilt(id, part))
             /\ UNCHANGED memory

\* A trace line ends in the last field that is read.
TracePart == {"none", "scrap", "loose", "whole"}
StatePart == TracePart \cup {"firm"}

\* (A slip: the memory is left as it was.)
Remember_nothing(id, t) == tasks

Remember(id, t) == [tasks EXCEPT ![id] = t]

\* Append and sync the line, then update the memory.
record(id, t, next, locals) ==
  LET reading == [log[id] EXCEPT !.task = t]
  IN \/ /\ written(id, reading)
        /\ tasks' = Remember(id, t)
        /\ pc' = next /\ frame' = locals
        /\ UNCHANGED <<traces, mishaps>>
     \/ failed(id, reading, StatePart)

\* The state changes, the attempt count stays.
transition(id, s, next, locals) ==
  record(id, TaskOf(s, tasks[id].attempts), next, locals)

Crash ==
  /\ pc # "closed"
  /\ Mishap /\ Drop
  /\ UNCHANGED <<file, history, doubtful>>

Close ==
  /\ pc \in {"idle", "inspected"}
  /\ Drop
  /\ UNCHANGED <<file, mishaps, history, doubtful>>

-----------------------------------------------------------------------------
(***************************************************************************)
(* Opening: replay, then reconcile what was running (open) or not          *)
(* (inspect).  Each reconciliation is an append of its own.                *)
(***************************************************************************)
load(next) ==
  /\ pc = "closed"
  /\ tasks' = [id \in Ids |-> log[id].task]
  /\ traces' = [id \in Ids |-> log[id].trace]
  /\ pc' = next
  /\ UNCHANGED <<file, frame, mishaps, history, doubts>>

\* (A slip: `running' tasks are left for later.)
open_without_recovery == load("idle")
open == load("recovering")
inspect == load("inspected")

recover(id) ==
  /\ pc = "recovering"
  /\ tasks[id].state = "running"
  /\ record(id, recovered(tasks[id], traces[id]), "recovering", NoFrame)
  /\ UNCHANGED history

recovery_done ==
  /\ pc = "recovering"
  /\ \A id \in Ids : tasks[id].state # "running"
  /\ pc' = "idle"
  /\ UNCHANGED <<file, memory, frame, mishaps, history, doubts>>

-----------------------------------------------------------------------------
(***************************************************************************)
(* The operations between two runs.  A refused call changes nothing.       *)
(***************************************************************************)
enqueue(id) ==
  /\ pc = "idle"
  /\ tasks[id] = NoTask
  /\ record(id, TaskOf("queued", 0), "idle", NoFrame)
  /\ UNCHANGED history

cancel(id) ==
  /\ pc \in {"idle", "inspected"}
  /\ tasks[id].state \in {"queued", "running"}
  /\ transition(id, "cancelled", pc, NoFrame)
  /\ UNCHANGED history

\* (A slip: the limit is not looked at.)
MayRetry_unbounded(id, max_attempts) == tasks[id].state = "failed"

MayRetry(id, max_attempts) == tasks[id].state = "failed" /\ tasks[id].attempts < max_attempts

retry(id, max_attempts) ==
  /\ pc = "idle"
  /\ MayRetry(id, max_attempts)
  /\ transition(id, "queued", "idle", NoFrame)
  /\ UNCHANGED history

\* (A slip: a new attempt is not counted.)
NextAttempt_uncounted(id) == tasks[id].attempts

NextAttempt(id) == tasks[id].attempts + 1

start(id, next) ==
  /\ tasks[id].state = "queued"
  /\ tasks[id].attempts < AttemptBound
  /\ record(id, TaskOf("running", NextAttempt(id)), next, FrameOf(id))
  /\ UNCHANGED history

-----------------------------------------------------------------------------
(***************************************************************************)
(* run_next_cancellable: the least queued id is started, its command runs, *)
(* the trace is written before the terminal state.                         *)
(***************************************************************************)
next_queued(id) ==
  /\ tasks[id].state = "queued"
  /\ \A other \in Ids : tasks[other].state = "queued" => id <= other

run_next(id) ==
  /\ pc = "idle"
  /\ next_queued(id)
  /\ start(id, "started")

\* The executor ran the command to its end, its timeout or its cancellation.
execute ==
  /\ pc = "started"
  /\ \E e \in Outcomes : frame' = [frame EXCEPT !.exec = e]
  /\ runs' = [runs EXCEPT ![frame.id] = @ \cup {tasks[frame.id].attempts}]
  /\ pc' = "executed"
  /\ UNCHANGED <<file, memory, mishaps, agentOk, lostTool, doubts>>

\* (A slip: the error is returned at once.)
AfterError_unsettled == "idle"

AfterError == "refused"

\* The executor refused or lost the command; the attempt fails.
execute_error ==
  /\ pc = "started"
  /\ pc' = AfterError
  /\ UNCHANGED <<file, memory, frame, mishaps, history, doubts>>

record_execution ==
  /\ pc = "executed"
  /\ LET id == frame.id
         tr == TraceOf(tasks[id].attempts, frame.exec)
         reading == [log[id] EXCEPT !.trace = tr]
     IN \/ /\ written(id, reading)
           /\ traces' = [traces EXCEPT ![id] = tr]
           /\ pc' = "recorded"
           /\ UNCHANGED <<tasks, frame, mishaps>>
        \/ failed(id, reading, TracePart)
  /\ UNCHANGED history

settle_run ==
  /\ \/ /\ pc = "recorded"
        /\ transition(frame.id, run_verdict(frame.exec), "idle", NoFrame)
     \/ /\ pc = "refused"
        /\ transition(frame.id, "failed", "idle", NoFrame)
  /\ UNCHANGED history

-----------------------------------------------------------------------------
(***************************************************************************)
(* run_agent_task: enqueue if absent, start, the agent loop with its tool  *)
(* traces, one terminal state chosen from how the loop ended.              *)
(***************************************************************************)
agent_enqueue(id) ==
  /\ pc = "idle"
  /\ tasks[id] = NoTask
  /\ record(id, TaskOf("queued", 0), "enqueued", FrameOf(id))
  /\ UNCHANGED history

agent_start(id) ==
  /\ pc = "idle" \/ (pc = "enqueued" /\ frame.id = id)
  /\ start(id, "agent")

\* The loop's callback: the first failure to write a tool trace is kept, and
\* no later tool run is written.  The handle survives the failed append, and
\* what it appends next is glued to what that one has left.
tool_trace ==
  /\ pc = "agent"
  /\ LET id == frame.id
         lost == [lostTool EXCEPT ![id] = tasks[id].attempts]
     IN \/ /\ ~frame.fault
           /\ written(id, log[id])
           /\ lostTool' = IF tail.torn THEN lost ELSE lostTool
           /\ UNCHANGED <<frame, mishaps>>
        \/ /\ ~frame.fault
           /\ Mishap
           /\ \E part \in TracePart :
                append(id, log[id], part) /\ Doubt(Spoilt(id, part))
           /\ frame' = [frame EXCEPT !.fault = TRUE]
           /\ lostTool' = lost
        \/ /\ frame.fault
           /\ lostTool' = lost
           /\ UNCHANGED <<file, frame, mishaps, doubts>>
  /\ UNCHANGED <<memory, pc, runs, agentOk>>

\* The loop ends: a verified report, another report, cancellation, any error.
agent_return ==
  /\ pc = "agent"
  /\ \E r \in Result \ {"none"} :
       /\ frame' = [frame EXCEPT !.result = r]
       /\ agentOk' = IF r = "verified"
                       THEN [agentOk EXCEPT ![frame.id] = tasks[frame.id].attempts]
                       ELSE agentOk
  /\ pc' = "returned"
  /\ UNCHANGED <<file, memory, mishaps, runs, lostTool, doubts>>

\* (A slip: a lost tool trace is ignored.)
agent_verdict_ignoring_fault(f) ==
  IF f.result = "verified" THEN "succeeded"
  ELSE IF f.result = "interrupted" THEN "cancelled" ELSE "failed"

agent_verdict(f) ==
  IF f.fault THEN "failed"
  ELSE IF f.result = "verified" THEN "succeeded"
  ELSE IF f.result = "interrupted" THEN "cancelled" ELSE "failed"

settle_agent ==
  /\ pc = "returned"
  /\ transition(frame.id, agent_verdict(frame), "idle", NoFrame)
  /\ UNCHANGED history

-----------------------------------------------------------------------------
CallStep ==
  \/ \E id \in Ids : recover(id)
  \/ recovery_done
  \/ execute \/ execute_error \/ record_execution \/ settle_run
  \/ \E id \in Ids : pc = "enqueued" /\ agent_start(id)
  \/ agent_return \/ settle_agent

Next ==
  \/ open \/ inspect \/ Close \/ Crash
  \/ recovery_done
  \/ \E id \in Ids :
       \/ recover(id) \/ enqueue(id) \/ cancel(id)
       \/ \E limit \in RetryLimits : retry(id, limit)
       \/ run_next(id) \/ agent_enqueue(id) \/ agent_start(id)
  \/ execute \/ execute_error \/ record_execution \/ settle_run
  \/ tool_trace \/ agent_return \/ settle_agent

Spec == Init /\ [][Next]_vars

(***************************************************************************)
(* A call in progress goes on (the executor and the provider have          *)
(* timeouts, the agent loop a step limit), a process that is not in a call *)
(* comes to its end, and somebody opens the log for work again and again.  *)
(***************************************************************************)
FairSpec ==
  /\ Spec
  /\ WF_vars(CallStep)
  /\ WF_vars(Close)
  /\ SF_vars(open)

-----------------------------------------------------------------------------
Busy == {"started", "executed", "recorded", "refused", "agent", "returned"}
PC == Busy \cup {"closed", "recovering", "inspected", "idle", "enqueued"}

TypeOK ==
  /\ log \in [Ids -> Reading] /\ tail \in Tail
  /\ tasks \in [Ids -> Task \cup {NoTask}]
  /\ traces \in [Ids -> Trace]
  /\ pc \in PC
  /\ frame \in Frame
  /\ mishaps \in 0..MishapBound
  /\ runs \in [Ids -> SUBSET Nat]
  /\ agentOk \in [Ids -> Nat]
  /\ lostTool \in [Ids -> Nat]
  /\ astray \subseteq doubtful /\ doubtful \subseteq Ids

\* An open handle holds what a second process replaying the log would hold: no
\* operation, crash or recovery parts them but an append of this handle that
\* failed, or was glued to an unfinished line; and then for the tasks of the
\* two lines only.
MemoryIsReplay ==
  pc # "closed" =>
    \A id \in Ids \ astray : tasks[id] = log[id].task /\ traces[id] = log[id].trace

\* When run_next is about to execute a command, none was executed under this
\* attempt number before, over crashes, recoveries and retries: `attempts'
\* bounds the repetitions of its effects.  (Unless a line of the task was lost.)
NoAttemptRunsTwice ==
  pc = "started" /\ frame.id \notin doubtful =>
    tasks[frame.id].attempts \notin runs[frame.id]

\* A task is durably succeeded only when its current attempt has a trace of a
\* command that passed, or an agent reported that attempt verified and none of
\* the attempt's tool traces was lost.
SucceededIsBacked ==
  \A id \in Ids \ doubtful :
    LET t == log[id].task
        tr == log[id].trace
    IN t.state = "succeeded" =>
         \/ tr.attempt = t.attempts /\ trace_state(tr) = "succeeded"
         \/ agentOk[id] = t.attempts /\ lostTool[id] # t.attempts

\* Whatever way a call ends, the handle it returns to leaves no task running in
\* the log, but one of which a line could not be written, or was glued.
CallLeavesNothingRunning ==
  pc = "idle" => \A id \in Ids \ astray : log[id].task.state # "running"

\* Once the trace of the attempt in progress is in the log, the attempt ends
\* in the state the trace stands for or in an explicit cancellation: no crash
\* or recovery requeues it or turns its outcome over.
TracedAttemptSettles ==
  [][\A id \in Ids \ doubtful' :
       LET t == log[id].task
           tr == log[id].trace
       IN t.state = "running" /\ tr.attempt = t.attempts
            => /\ log'[id].task.state \in {"running", "cancelled", trace_state(tr)}
               /\ log'[id].task.attempts = t.attempts]_vars

\* What a reader of the log sees of one task is the task lifecycle.
Lifecycle == INSTANCE TaskLifecycle WITH task <- [id \in Ids |-> log[id].task]
LifecycleSpec == Lifecycle!Spec

\* An attempt that was interrupted does not stay running for ever, not even
\* one whose terminal state was glued to an unfinished line.
InterruptedIsResolved ==
  \A id \in Ids : log[id].task.state = "running" ~> log[id].task.state # "running"
=============================================================================
