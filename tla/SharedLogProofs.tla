--------------------------- MODULE SharedLogProofs ---------------------------
(***************************************************************************)
(* One log and any number of workers, cancel and enqueue commands: what    *)
(* still holds although nobody takes a lock.                               *)
(***************************************************************************)
EXTENDS SharedLog, TLAPS

\* A worker inside run_agent_task has itself written `running' and has read
\* nothing since; a returned agent has a result.
AtWork ==
  \A w \in Workers :
    /\ pc[w] \in {"working", "returned"} => memory[w].state = "running"
    /\ pc[w] = "returned" => result[w] # "none"

\* A token and a monitor thread die with their process.
OffIsClean == \A w \in Workers : pc[w] = "off" => ~token[w] /\ ~polling[w]

\* A cancellation that is in the log, or has set the token, was either there
\* when the worker loaded the log or was written after that.
Heard ==
  \A w \in Workers :
    pc[w] # "off" /\ memory[w].state # "cancelled"
      /\ (token[w] \/ log.state = "cancelled") => struck[w]

IInv == TypeOK /\ AtWork /\ OffIsClean /\ Heard

USE ProcessesAssumption DEF worker, history

-----------------------------------------------------------------------------
\* Appending a task keeps the log and the memory well typed.
LEMMA RecordType ==
  ASSUME TypeOK, NEW p \in Processes, NEW t \in Task, record(p, t)
  PROVE  /\ log' = t /\ memory' \in [Processes -> Task \cup {NoTask}]
         /\ memory'[p] = t
         /\ \A q \in Processes \ {p} : memory'[q] = memory[q]
BY DEF TypeOK, record

\* The task a process appends from its own memory.
LEMMA TaskOfType ==
  ASSUME NEW s \in State, NEW n \in Nat
  PROVE  TaskOf(s, n) \in Task /\ TaskOf(s, n).state = s
BY DEF TaskOf, Task

LEMMA AttemptsType ==
  ASSUME TypeOK, NEW p \in Processes
  PROVE  memory[p].attempts \in Nat
BY DEF TypeOK, Task, NoTask

\* An exit resets the process's part of the state.
LEMMA ExitType ==
  ASSUME TypeOK, NEW p \in Processes, exit(p)
  PROVE  /\ pc' \in [Processes -> {"off", "recovering", "opened", "monitored", "working",
                                   "returned", "inspected"}]
         /\ polling' \in [Workers -> BOOLEAN] /\ token' \in [Workers -> BOOLEAN]
         /\ result' \in [Workers -> {"none", "verified", "interrupted", "error"}]
<1>1. CASE p \in Workers
  BY <1>1 DEF TypeOK, exit, Goto
<1>2. CASE p \notin Workers
  BY <1>2 DEF TypeOK, exit, Goto
<1> QED
  BY <1>1, <1>2

\* Loading: the memory is the log, and nothing has been struck since.
LEMMA LoadStep ==
  ASSUME IInv,
         \/ \E w \in Workers : run(w)
         \/ \E c \in Cancellers : inspect(c)
         \/ \E e \in Enqueuers : open(e)
  PROVE  IInv' /\ log' = log
<1>1. started' \in 0..RunBound
  BY DEF IInv, TypeOK, run, inspect, open, load
<1>2. TypeOK'
  <2>1. CASE \E w \in Workers : run(w)
    <3>1. struck' \in [Workers -> BOOLEAN]
      BY <2>1 DEF IInv, TypeOK, run
    <3> QED
      BY <1>1, <2>1, <3>1 DEF IInv, TypeOK, run, load, Goto, Processes
  <2>2. CASE \E c \in Cancellers : inspect(c)
    BY <1>1, <2>2 DEF IInv, TypeOK, inspect, load, Goto, Processes
  <2>3. CASE \E e \in Enqueuers : open(e)
    BY <1>1, <2>3 DEF IInv, TypeOK, open, load, Goto, Processes
  <2> QED
    BY <2>1, <2>2, <2>3
<1>3. AtWork' /\ OffIsClean'
  BY DEF IInv, TypeOK, AtWork, OffIsClean, run, inspect, open, load, Goto, Processes
<1>4. Heard'
  BY DEF IInv, TypeOK, Heard, OffIsClean, run, inspect, open, load, Goto, Processes
<1>5. log' = log
  BY DEF run, inspect, open
<1> QED
  BY <1>2, <1>3, <1>4, <1>5 DEF IInv

\* The steps that neither load nor append.
LEMMA QuietStep ==
  ASSUME IInv,
         \/ \E w \in Workers : spawn_monitor(w) \/ poll(w) \/ not_queued(w)
                               \/ agent_return(w) \/ kill(w)
         \/ \E c \in Cancellers : cancel_refused(c)
  PROVE  IInv' /\ log' = log
<1>1. TypeOK'
  <2>1. CASE \E w \in Workers : agent_return(w)
    <3>1. PICK w \in Workers : agent_return(w)
      BY <2>1
    <3>2. result' \in [Workers -> {"none", "verified", "interrupted", "error"}]
      BY <3>1 DEF IInv, TypeOK, agent_return
    <3> QED
      BY <3>1, <3>2 DEF IInv, TypeOK, agent_return, Goto, Processes
  <2>2. CASE \E w \in Workers : spawn_monitor(w) \/ poll(w)
    BY <2>2 DEF IInv, TypeOK, spawn_monitor, poll, CancelSeen, Goto, Processes
  <2>3. CASE \/ \E w \in Workers : not_queued(w) \/ kill(w)
             \/ \E c \in Cancellers : cancel_refused(c)
    <3>1. PICK p \in Processes : exit(p)
      BY <2>3 DEF not_queued, kill, cancel_refused, MayCancel, Processes
    <3>2. UNCHANGED <<log, memory, started, struck>>
      BY <2>3 DEF not_queued, kill, cancel_refused, MayCancel
    <3> QED
      BY <3>1, <3>2, ExitType DEF IInv, TypeOK
  <2> QED
    BY <2>1, <2>2, <2>3
<1>2. AtWork'
  BY DEF IInv, TypeOK, AtWork, spawn_monitor, poll, CancelSeen, not_queued, agent_return, kill,
         cancel_refused, MayCancel, exit, Goto, Processes
<1>3. OffIsClean'
  BY DEF IInv, TypeOK, OffIsClean, spawn_monitor, poll, CancelSeen, not_queued, agent_return, kill,
         cancel_refused, MayCancel, exit, Goto, Processes
<1>4. Heard'
  BY DEF IInv, TypeOK, Heard, spawn_monitor, poll, CancelSeen, not_queued, agent_return, kill,
         cancel_refused, MayCancel, exit, Goto, Processes
<1>5. log' = log
  BY DEF spawn_monitor, poll, CancelSeen, not_queued, agent_return, kill, cancel_refused, MayCancel
<1> QED
  BY <1>1, <1>2, <1>3, <1>4, <1>5 DEF IInv

\* Recovery at open appends only over a memory that says `running'.
LEMMA RecoverStep ==
  ASSUME IInv, NEW p \in Processes, recover(p)
  PROVE  IInv' /\ (log' = log \/ memory[p].state = "running")
<1>1. CASE memory[p].state # "running"
  <2>1. /\ log' = log /\ memory' = memory /\ pc' = [pc EXCEPT ![p] = "opened"]
        /\ pc[p] = "recovering"
        /\ UNCHANGED <<polling, token, result, started, struck>>
    BY <1>1 DEF recover, Goto
  <2> QED
    BY <2>1 DEF IInv, TypeOK, AtWork, OffIsClean, Heard, Processes
<1>2. CASE memory[p].state = "running"
  <2> DEFINE t == TaskOf("queued", memory[p].attempts)
  <2>1. t \in Task /\ t.state = "queued"
    BY AttemptsType, TaskOfType DEF IInv, State
  <2>2. record(p, t) /\ pc' = [pc EXCEPT ![p] = "opened"] /\ pc[p] = "recovering"
        /\ UNCHANGED <<polling, token, result, started, struck>>
    BY <1>2 DEF recover, transition, Goto
  <2> HIDE DEF t
  <2>3. /\ log' = t /\ memory' \in [Processes -> Task \cup {NoTask}]
        /\ memory'[p] = t
        /\ \A q \in Processes \ {p} : memory'[q] = memory[q]
    BY <2>1, <2>2, RecordType DEF IInv
  <2>4. TypeOK'
    BY <2>1, <2>2, <2>3 DEF IInv, TypeOK
  <2>5. AtWork' /\ OffIsClean'
    BY <2>2, <2>3 DEF IInv, TypeOK, AtWork, OffIsClean, Processes
  <2>6. Heard'
    BY <1>2, <2>1, <2>2, <2>3 DEF IInv, TypeOK, Heard, Processes
  <2> QED
    BY <1>2, <2>6, <2>4, <2>5 DEF IInv
<1> QED
  BY <1>1, <1>2

\* run_agent_task appends `queued' for an unknown task and `running' for a
\* queued one.
LEMMA BeginStep ==
  ASSUME IInv, NEW w \in Workers, enqueue_absent(w) \/ start(w)
  PROVE  IInv' /\ memory[w].state \notin Terminal
<1> DEFINE t == IF start(w) THEN TaskOf("running", memory[w].attempts + 1)
                            ELSE TaskOf("queued", 0)
<1>1. t \in Task /\ t.state \in {"queued", "running"} /\ (start(w) => t.state = "running")
  <2>1. memory[w].attempts + 1 \in Nat
    BY AttemptsType DEF IInv, Processes
  <2>2. /\ TaskOf("running", memory[w].attempts + 1) \in Task
        /\ TaskOf("running", memory[w].attempts + 1).state = "running"
        /\ TaskOf("queued", 0) \in Task /\ TaskOf("queued", 0).state = "queued"
    BY <2>1, TaskOfType DEF State
  <2> QED
    BY <2>2
<1>2. /\ record(w, t)
      /\ pc[w] = "monitored" /\ memory[w].state \in {"absent", "queued"}
      /\ \/ pc' = pc
         \/ start(w) /\ pc' = [pc EXCEPT ![w] = "working"]
      /\ UNCHANGED <<polling, token, result, started, struck>>
  <2>1. CASE start(w)
    BY <2>1 DEF start, Goto
  <2>2. CASE ~start(w)
    BY <2>2 DEF enqueue_absent, NoTask
  <2> QED
    BY <2>1, <2>2
<1> HIDE DEF t
<1>3. /\ log' = t /\ memory' \in [Processes -> Task \cup {NoTask}]
      /\ memory'[w] = t
      /\ \A q \in Processes \ {w} : memory'[q] = memory[q]
  BY <1>1, <1>2, RecordType DEF IInv, Processes
<1>4. TypeOK'
  BY <1>1, <1>2, <1>3 DEF IInv, TypeOK, Processes
<1>5. AtWork' /\ OffIsClean' /\ Heard'
  BY <1>1, <1>2, <1>3 DEF IInv, TypeOK, AtWork, OffIsClean, Heard, Processes
<1> QED
  BY <1>2, <1>4, <1>5 DEF IInv, Terminal

\* A process appends its last line and exits.
LEMMA LastLine ==
  ASSUME IInv, NEW p \in Processes, NEW s \in State,
         transition(p, s), strike(s), exit(p), UNCHANGED started
  PROVE  IInv'
<1> DEFINE t == TaskOf(s, memory[p].attempts)
<1>1. t \in Task /\ t.state = s
  BY AttemptsType, TaskOfType DEF IInv
<1>2. record(p, t)
  BY DEF transition
<1> HIDE DEF t
<1>3. /\ log' = t /\ memory' \in [Processes -> Task \cup {NoTask}]
      /\ memory'[p] = t
      /\ \A q \in Processes \ {p} : memory'[q] = memory[q]
  BY <1>1, <1>2, RecordType DEF IInv
<1>4. TypeOK'
  BY <1>1, <1>3 DEF IInv, TypeOK, exit, strike, Goto, Processes
<1>5. AtWork' /\ OffIsClean'
  BY <1>3 DEF IInv, TypeOK, AtWork, OffIsClean, exit, Goto, Processes
<1>6. Heard'
  BY <1>1, <1>3 DEF IInv, TypeOK, Heard, exit, strike, Goto, Processes
<1> QED
  BY <1>4, <1>5, <1>6 DEF IInv

\* The worker's outcome, and a cancel command's, are appended over a memory
\* that is not terminal.
LEMMA SettleStep ==
  ASSUME IInv,
         NEW p \in Processes,
         (p \in Workers /\ settle(p)) \/ (p \in Cancellers /\ cancel(p))
  PROVE  IInv' /\ pc[p] # "off" /\ memory[p].state \notin Terminal
<1>1. CASE p \in Workers /\ settle(p)
  <2>1. result[p] \in {"verified", "interrupted", "error"} /\ memory[p].state = "running"
    BY <1>1 DEF IInv, TypeOK, AtWork, settle
  <2>2. verdict(result[p]) \in State
    BY <2>1 DEF verdict, State
  <2>3. IInv'
    BY <1>1, <2>2, LastLine DEF settle
  <2> QED
    BY <1>1, <2>1, <2>3 DEF settle, Terminal
<1>2. CASE p \in Cancellers /\ cancel(p)
  <2>1. IInv'
    BY <1>2, LastLine DEF cancel, MayCancel, State
  <2> QED
    BY <1>2, <2>1 DEF cancel, MayCancel, Terminal
<1> QED
  BY <1>1, <1>2

\* The enqueue command appends only if its memory knows no such task.
LEMMA EnqueueStep ==
  ASSUME IInv, NEW e \in Enqueuers, enqueue(e)
  PROVE  IInv' /\ (log' = log \/ memory[e].state \notin Terminal)
<1>1. e \in Processes /\ e \notin Workers
  BY DEF Processes
<1>2. CASE log' = log /\ memory' = memory
  BY <1>1, <1>2 DEF IInv, TypeOK, AtWork, OffIsClean, Heard, enqueue, exit, Goto, Processes
<1>3. CASE memory[e] = NoTask /\ record(e, TaskOf("queued", 0))
  <2>1. TaskOf("queued", 0) \in Task /\ TaskOf("queued", 0).state = "queued"
    BY TaskOfType DEF State
  <2>2. /\ log' = TaskOf("queued", 0) /\ memory' \in [Processes -> Task \cup {NoTask}]
        /\ \A q \in Processes \ {e} : memory'[q] = memory[q]
    BY <1>1, <1>3, <2>1, RecordType DEF IInv
  <2>3. IInv'
    BY <1>1, <2>1, <2>2 DEF IInv, TypeOK, AtWork, OffIsClean, Heard, enqueue, exit, Goto,
                            Processes
  <2> QED
    BY <1>3, <2>3 DEF NoTask, Terminal
<1> QED
  BY <1>2, <1>3 DEF enqueue

-----------------------------------------------------------------------------
\* Every step keeps the invariant, and a step that appends is one of a live
\* process whose memory is not terminal.
LEMMA Step ==
  ASSUME IInv, [Next]_vars
  PROVE  /\ IInv'
         /\ \/ log' = log
            \/ \E p \in Processes : pc[p] # "off" /\ memory[p].state \notin Terminal
<1>1. CASE \/ \E w \in Workers : run(w)
           \/ \E c \in Cancellers : inspect(c)
           \/ \E e \in Enqueuers : open(e)
  BY <1>1, LoadStep
<1>2. CASE \/ \E w \in Workers : spawn_monitor(w) \/ poll(w) \/ not_queued(w)
                                 \/ agent_return(w) \/ kill(w)
           \/ \E c \in Cancellers : cancel_refused(c)
  BY <1>2, QuietStep
<1>3. CASE \E p \in Workers \cup Enqueuers : recover(p)
  <2>1. PICK p \in Workers \cup Enqueuers : recover(p)
    BY <1>3
  <2>2. p \in Processes /\ pc[p] = "recovering"
    BY <2>1 DEF Processes, recover
  <2> QED
    BY <2>1, <2>2, RecoverStep DEF Terminal
<1>4. CASE \E w \in Workers : enqueue_absent(w) \/ start(w)
  <2>1. PICK w \in Workers : enqueue_absent(w) \/ start(w)
    BY <1>4
  <2>2. w \in Processes /\ pc[w] = "monitored"
    BY <2>1 DEF Processes, enqueue_absent, start
  <2> QED
    BY <2>1, <2>2, BeginStep
<1>5. CASE (\E w \in Workers : settle(w)) \/ (\E c \in Cancellers : cancel(c))
  <2>1. PICK p \in Processes :
          (p \in Workers /\ settle(p)) \/ (p \in Cancellers /\ cancel(p))
    BY <1>5 DEF Processes
  <2> QED
    BY <2>1, SettleStep
<1>6. CASE \E e \in Enqueuers : enqueue(e)
  <2>1. PICK e \in Enqueuers : enqueue(e)
    BY <1>6
  <2>2. e \in Processes /\ pc[e] = "opened"
    BY <2>1 DEF Processes, enqueue
  <2> QED
    BY <2>1, <2>2, EnqueueStep
<1>7. CASE UNCHANGED vars
  BY <1>7 DEF IInv, TypeOK, AtWork, OffIsClean, Heard, vars
<1> QED
  BY <1>1, <1>2, <1>3, <1>4, <1>5, <1>6, <1>7 DEF Next

\* The inductive invariant holds of every behaviour.
THEOREM Inductive == Spec => []IInv
<1>1. Init => IInv
  <2> SUFFICES ASSUME Init PROVE IInv
    OBVIOUS
  <2>1. started \in 0..RunBound
    BY DEF Init
  <2>2. TypeOK
    BY <2>1 DEF Init, TypeOK
  <2>3. AtWork /\ OffIsClean /\ Heard
    BY DEF Init, AtWork, OffIsClean, Heard, Processes
  <2> QED
    BY <2>2, <2>3 DEF IInv
<1>2. IInv /\ [Next]_vars => IInv'
  BY Step
<1> QED
  BY <1>1, <1>2, PTL DEF Spec

\* Every variable keeps its type.
THEOREM TypeCorrect == Spec => []TypeOK
  BY Inductive, PTL DEF IInv

\* However many processes share the log, an agent is stopped only by a
\* cancellation written after its worker had read the log.
THEOREM TokenAlwaysFresh == Spec => []TokenIsFresh
<1>1. IInv => TokenIsFresh
  BY DEF IInv, AtWork, Heard, TokenIsFresh
<1> QED
  BY <1>1, Inductive, PTL

\* However many processes share the log, a terminal state that every open
\* handle has read is never overwritten.
THEOREM SeenTerminalStaysFinal == Spec => SeenTerminalIsFinal
<1>1. IInv /\ [Next]_vars =>
        [log.state \in Terminal
           /\ (\A p \in Processes : pc[p] # "off" => memory[p].state \in Terminal)
           => log' = log]_vars
  BY Step
<1> QED
  BY <1>1, Inductive, PTL DEF Spec, SeenTerminalIsFinal
=============================================================================
