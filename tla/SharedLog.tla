------------------------------ MODULE SharedLog ------------------------------
(***************************************************************************)
(* One task in a log that several processes share: `run' workers with      *)
(* their monitor threads, `cancel' commands and `enqueue' commands         *)
(* (src/src/main.rs, src/src/worker.rs).  There is no lock: each process   *)
(* replays the log once into a memory of its own and appends what that     *)
(* memory allows.  An append is one step here; EventBytes splits it.       *)
(*                                                                         *)
(* The agent path writes no task-level trace, so recovery requeues.        *)
(***************************************************************************)
EXTENDS EventLog, FiniteSets

CONSTANTS Workers,     \* `run' processes
          Cancellers,  \* `cancel' processes
          Enqueuers,   \* `enqueue' processes, of this task or of another
          RunBound     \* bound on the processes started, restarts included

ASSUME ProcessesAssumption ==
  /\ Workers \cap Cancellers = {} /\ Workers \cap Enqueuers = {}
  /\ Cancellers \cap Enqueuers = {}
  /\ RunBound \in Nat

Processes == Workers \cup Cancellers \cup Enqueuers

VARIABLES
  log,      \* the task's last state line
  memory,   \* memory[p]: the task as p's handle knows it
  pc,       \* pc[p]
  polling,  \* polling[w]: w's monitor thread is in its loop
  token,    \* token[w]: w's cancellation token
  result,   \* result[w]: how w's agent loop ended
  started,  \* processes started so far
  struck    \* history: struck[w]: `cancelled' was written since w loaded

worker == <<polling, token, result>>
history == <<started, struck>>
vars == <<log, memory, pc, worker, history>>

Init ==
  /\ log = NoTask
  /\ memory = [p \in Processes |-> NoTask]
  /\ pc = [p \in Processes |-> "off"]
  /\ polling = [w \in Workers |-> FALSE]
  /\ token = [w \in Workers |-> FALSE]
  /\ result = [w \in Workers |-> "none"]
  /\ started = 0
  /\ struck = [w \in Workers |-> FALSE]

-----------------------------------------------------------------------------
Goto(p, label) == pc' = [pc EXCEPT ![p] = label]

\* The process has loaded the log and knows nothing that is appended later.
load(p, label) ==
  /\ pc[p] = "off"
  /\ started < RunBound /\ started' = started + 1
  /\ memory' = [memory EXCEPT ![p] = log]
  /\ Goto(p, label)

\* Append from memory, whatever the log holds by now.
record(p, t) == log' = t /\ memory' = [memory EXCEPT ![p] = t]

transition(p, s) == record(p, TaskOf(s, memory[p].attempts))

\* History only.
strike(s) == struck' = [w \in Workers |-> struck[w] \/ s = "cancelled"]

\* The process exits: its memory, its token and its monitor go with it.
exit(p) ==
  /\ Goto(p, "off")
  /\ IF p \in Workers
       THEN /\ polling' = [polling EXCEPT ![p] = FALSE]
            /\ token' = [token EXCEPT ![p] = FALSE]
            /\ result' = [result EXCEPT ![p] = "none"]
       ELSE UNCHANGED worker

-----------------------------------------------------------------------------
(***************************************************************************)
(* `run': Runtime::open, the monitor thread, run_agent_task.               *)
(***************************************************************************)
run(w) ==
  /\ load(w, "recovering")
  /\ struck' = [struck EXCEPT ![w] = FALSE]
  /\ UNCHANGED <<log, worker>>

recover(p) ==
  /\ pc[p] = "recovering"
  /\ IF memory[p].state = "running"
       THEN transition(p, "queued")
       ELSE UNCHANGED <<log, memory>>
  /\ Goto(p, "opened")
  /\ UNCHANGED <<worker, history>>

spawn_monitor(w) ==
  /\ pc[w] = "opened"
  /\ polling' = [polling EXCEPT ![w] = TRUE]
  /\ Goto(w, "monitored")
  /\ UNCHANGED <<log, memory, token, result, history>>

\* (A slip: the monitor asks the worker's own memory.)
CancelSeen_in_memory(w) == memory[w].state = "cancelled"

\* (A slip: the monitor gives up on any task that does not run.)
CancelSeen_not_running(w) == log.state # "running"

\* The monitor inspects the log.
CancelSeen(w) == log.state = "cancelled"

\* It signals the token and returns.
poll(w) ==
  /\ polling[w] /\ CancelSeen(w)
  /\ token' = [token EXCEPT ![w] = TRUE]
  /\ polling' = [polling EXCEPT ![w] = FALSE]
  /\ UNCHANGED <<log, memory, pc, result, history>>

enqueue_absent(w) ==
  /\ pc[w] = "monitored" /\ memory[w] = NoTask
  /\ record(w, TaskOf("queued", 0))
  /\ UNCHANGED <<pc, worker, history>>

not_queued(w) ==
  /\ pc[w] = "monitored" /\ memory[w].state \notin {"absent", "queued"}
  /\ exit(w)
  /\ UNCHANGED <<log, memory, history>>

start(w) ==
  /\ pc[w] = "monitored" /\ memory[w].state = "queued"
  /\ record(w, TaskOf("running", memory[w].attempts + 1))
  /\ Goto(w, "working")
  /\ UNCHANGED <<worker, history>>

\* A set token interrupts the loop at its next look, unless the loop gets to
\* its end first: with a report, with its step limit, with another error.
agent_return(w) ==
  /\ pc[w] = "working"
  /\ \E r \in {"verified", "error"} \cup (IF token[w] THEN {"interrupted"} ELSE {}) :
       result' = [result EXCEPT ![w] = r]
  /\ Goto(w, "returned")
  /\ UNCHANGED <<log, memory, polling, token, history>>

\* (A slip: the error's kind is written as the state.)
verdict_interrupted(r) ==
  CASE r = "verified" -> "succeeded"
    [] r = "interrupted" -> "interrupted"
    [] r = "error" -> "failed"

verdict(r) ==
  CASE r = "verified" -> "succeeded"
    [] r = "interrupted" -> "cancelled"
    [] r = "error" -> "failed"

settle(w) ==
  /\ pc[w] = "returned"
  /\ transition(w, verdict(result[w]))
  /\ strike(verdict(result[w]))
  /\ exit(w)
  /\ UNCHANGED started

\* kill -9 at any point.
kill(w) ==
  /\ pc[w] # "off"
  /\ exit(w)
  /\ UNCHANGED <<log, memory, history>>

-----------------------------------------------------------------------------
(***************************************************************************)
(* `cancel': Runtime::inspect, then cancel.                                *)
(***************************************************************************)
inspect(c) ==
  /\ load(c, "inspected")
  /\ UNCHANGED <<log, worker, struck>>

\* (A slip: the state the task is in is not looked at.)
MayCancel_any(c) == memory[c] # NoTask

MayCancel(c) == memory[c].state \in {"queued", "running"}

cancel(c) ==
  /\ pc[c] = "inspected" /\ MayCancel(c)
  /\ transition(c, "cancelled")
  /\ strike("cancelled")
  /\ exit(c)
  /\ UNCHANGED started

cancel_refused(c) ==
  /\ pc[c] = "inspected" /\ ~MayCancel(c)
  /\ exit(c)
  /\ UNCHANGED <<log, memory, history>>

(***************************************************************************)
(* `enqueue': Runtime::open with its recovery, then enqueue.  The id is    *)
(* this task's or another's; another's changes nothing here.               *)
(***************************************************************************)
open(e) ==
  /\ load(e, "recovering")
  /\ UNCHANGED <<log, worker, struck>>

enqueue(e) ==
  /\ pc[e] = "opened"
  /\ \/ memory[e] = NoTask /\ record(e, TaskOf("queued", 0))
     \/ UNCHANGED <<log, memory>>
  /\ exit(e)
  /\ UNCHANGED history

-----------------------------------------------------------------------------
Next ==
  \/ \E w \in Workers :
       \/ run(w) \/ recover(w) \/ spawn_monitor(w) \/ poll(w)
       \/ enqueue_absent(w) \/ not_queued(w) \/ start(w)
       \/ agent_return(w) \/ settle(w) \/ kill(w)
  \/ \E c \in Cancellers : inspect(c) \/ cancel(c) \/ cancel_refused(c)
  \/ \E e \in Enqueuers : open(e) \/ recover(e) \/ enqueue(e)

Spec == Init /\ [][Next]_vars

\* The monitor thread looks every 100 ms for as long as the worker lives.
\* Nothing else is assumed: the agent may take as long as it likes.
FairSpec == Spec /\ \A w \in Workers : WF_vars(poll(w))

-----------------------------------------------------------------------------
Terminal == {"succeeded", "failed", "cancelled"}

TypeOK ==
  /\ log \in Task \cup {NoTask}
  /\ memory \in [Processes -> Task \cup {NoTask}]
  /\ pc \in [Processes -> {"off", "recovering", "opened", "monitored", "working",
                           "returned", "inspected"}]
  /\ polling \in [Workers -> BOOLEAN] /\ token \in [Workers -> BOOLEAN]
  /\ result \in [Workers -> {"none", "verified", "interrupted", "error"}]
  /\ started \in 0..RunBound /\ struck \in [Workers -> BOOLEAN]

\* An agent is stopped only by a cancellation written after its worker had read
\* the log: never by the outcome of an earlier run.
TokenIsFresh ==
  \A w \in Workers : token[w] /\ pc[w] = "working" => struck[w]

\* Once every open handle has read the terminal state, it is final: only a
\* handle with an older memory can still overwrite it.
SeenTerminalIsFinal ==
  [][log.state \in Terminal
       /\ (\A p \in Processes : pc[p] # "off" => memory[p].state \in Terminal)
       => log' = log]_vars

\* A cancellation in the log reaches the token of a worker at work, unless the
\* worker comes to its end or another process writes over the cancellation.
CancelReachesWorker ==
  \A w \in Workers :
    log.state = "cancelled" /\ pc[w] = "working"
      ~> token[w] \/ pc[w] # "working" \/ log.state # "cancelled"

\* "Terminal states cannot be cancelled or completed again through the public
\* transition methods": whoever writes the line.
TerminalIsFinal ==
  [][log.state \in Terminal /\ log' # log => log'.state \notin Terminal]_vars

\* "Only a worker opening the runtime through Runtime::open reconciles an
\* interrupted task."
OnlyWorkersReconcile ==
  [][\A e \in Enqueuers : recover(e) => log' = log]_vars
=============================================================================
