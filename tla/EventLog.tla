------------------------------ MODULE EventLog ------------------------------
(***************************************************************************)
(* What one line of events.log says, and the decisions the runtime takes   *)
(* from it (src/src/event_log.rs and the rules at the head of              *)
(* src/src/lib.rs).  Every operator here is constant-level: the state      *)
(* machines that read and append lines are Runtime, EventBytes and         *)
(* SharedLog.                                                              *)
(*                                                                         *)
(* A state line carries a task's state and attempt count; a trace line     *)
(* carries the attempt it ran under and three facts about the execution.   *)
(* Byte counts, durations, program names and the free-text reason are      *)
(* never read back by a decision and are left out.                         *)
(*                                                                         *)
(* In every module, a definition introduced as `(A slip: ...)' is a        *)
(* plausible wrong version of the one below it.  No action uses it; it is  *)
(* there to be put in place of the right one, to see a property fail.      *)
(***************************************************************************)
EXTENDS Integers

State == {"queued", "running", "succeeded", "failed", "cancelled"}

Task == [state : State, attempts : Nat]

\* A task id with no state line in the log (a missing key of `tasks').
NoTask == [state |-> "absent", attempts |-> 0]

TaskOf(s, n) == [state |-> s, attempts |-> n]

(***************************************************************************)
(* The facts of a finished command: did it exit with status 0, was it      *)
(* killed by the timeout, was it killed by the cancellation token.  The    *)
(* supervisor leaves its loop on the first of the two, so never both.      *)
(***************************************************************************)
Execution ==
  {e \in [zero : BOOLEAN, timed_out : BOOLEAN, cancelled : BOOLEAN] :
      ~(e.timed_out /\ e.cancelled)}

Trace == [attempt : Nat, exec : Execution]

\* No trace line yet.  Attempts are counted from 1, so 0 matches no attempt.
NoTrace ==
  [attempt |-> 0,
   exec |-> [zero |-> FALSE, timed_out |-> FALSE, cancelled |-> FALSE]]

TraceOf(n, e) == [attempt |-> n, exec |-> e]

\* The terminal state a completed trace stands for.
trace_state(tr) ==
  IF tr.exec.cancelled THEN "cancelled"
  ELSE IF tr.exec.zero /\ ~tr.exec.timed_out THEN "succeeded" ELSE "failed"

(***************************************************************************)
(* Restart recovery of one interrupted task: the last task-level trace     *)
(* settles it if it belongs to the attempt in progress, otherwise the task *)
(* goes back to the queue with its attempt count.                          *)
(***************************************************************************)
\* (A slip: the trace is not looked at.)
recovered_always_requeue(task, tr) == TaskOf("queued", task.attempts)

recovered(task, tr) ==
  TaskOf(IF tr.attempt = task.attempts THEN trace_state(tr) ELSE "queued",
         task.attempts)

\* (A slip: the timeout is recorded as a state of its own.)
run_verdict_timed_out(e) ==
  IF e.timed_out THEN "timed_out"
  ELSE IF e.cancelled THEN "cancelled"
  ELSE IF e.zero THEN "succeeded" ELSE "failed"

\* The state run_next_cancellable records for an execution it has traced.
run_verdict(e) ==
  IF e.cancelled THEN "cancelled"
  ELSE IF e.zero /\ ~e.timed_out THEN "succeeded" ELSE "failed"
=============================================================================
