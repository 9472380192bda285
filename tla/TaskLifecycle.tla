--------------------------- MODULE TaskLifecycle ----------------------------
(***************************************************************************)
(* What the runtime promises about one durable task (src/README.md,        *)
(* "Durability", and src/docs/architecture.md): the abstract specification *)
(* that Runtime implements.  `task' is what a reader of the event log      *)
(* sees, `doubtful' the tasks of which a line was lost: nothing is         *)
(* promised of these.                                                      *)
(***************************************************************************)
EXTENDS EventLog

CONSTANTS Ids,         \* the task ids
          RetryLimits  \* the attempt limits callers of retry pass

VARIABLES task, doubtful

vars == <<task, doubtful>>

TypeOK == task \in [Ids -> Task \cup {NoTask}] /\ doubtful \subseteq Ids

Init == task = [id \in Ids |-> NoTask] /\ doubtful = {}

Move(id, t) == task' = [task EXCEPT ![id] = t]

\* A task enters the log once, queued and never attempted.
Enqueue(id) ==
  /\ task[id] = NoTask
  /\ Move(id, TaskOf("queued", 0))

\* Only a queued task starts, and starting is the only thing that counts.
Start(id) ==
  /\ task[id].state = "queued"
  /\ Move(id, TaskOf("running", task[id].attempts + 1))

\* A running attempt ends in one terminal state.
Settle(id) ==
  /\ task[id].state = "running"
  /\ \E s \in {"succeeded", "failed", "cancelled"} :
        Move(id, TaskOf(s, task[id].attempts))

\* An interrupted attempt goes back to the queue, its attempt still counted.
Requeue(id) ==
  /\ task[id].state = "running"
  /\ Move(id, TaskOf("queued", task[id].attempts))

CancelQueued(id) ==
  /\ task[id].state = "queued"
  /\ Move(id, TaskOf("cancelled", task[id].attempts))

\* A failed task is repeated only below a limit some caller passed.
Retry(id) ==
  /\ task[id].state = "failed"
  /\ \E limit \in RetryLimits : task[id].attempts < limit
  /\ Move(id, TaskOf("queued", task[id].attempts))

\* The lines of some tasks are lost; those of the others are as they were.
Lose ==
  /\ doubtful \subseteq doubtful' /\ doubtful' \subseteq Ids
  /\ task' \in [Ids -> Task \cup {NoTask}]
  /\ \A id \in Ids \ doubtful' : task'[id] = task[id]

Next ==
  \/ /\ \E id \in Ids : \/ Enqueue(id) \/ Start(id) \/ Settle(id) \/ Requeue(id)
                         \/ CancelQueued(id) \/ Retry(id)
     /\ UNCHANGED doubtful
  \/ Lose

Spec == Init /\ [][Next]_vars
=============================================================================
