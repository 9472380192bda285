--------------------------- MODULE SupervisedCall ---------------------------
(***************************************************************************)
(* What a supervised call promises the agent loop and the runtime: the     *)
(* abstract specification that Executor implements for both of its         *)
(* callers.  The loop asks for a command's execution (executor.rs) or for  *)
(* the provider's decision (provider/agy.rs); in between, another program  *)
(* runs under a timeout and a cancellation token.                          *)
(***************************************************************************)
EXTENDS EventLog

VARIABLES
  program,         \* "none", "running", how it ended ("passed", "failed"), or "killed"
  token, expired,  \* the cancellation token; the timeout has elapsed
  phase,           \* "calling", "answered" or "refused"
  execution,       \* the answer
  reply            \* and what the provider makes of it for the loop

vars == <<program, token, expired, phase, execution, reply>>

Nothing == [zero |-> FALSE, timed_out |-> FALSE, cancelled |-> FALSE]

Init ==
  /\ program = "none" /\ token \in BOOLEAN /\ expired = FALSE
  /\ phase = "calling" /\ execution = Nothing /\ reply = "none"

Cancel == token' = TRUE /\ UNCHANGED <<program, expired, phase, execution, reply>>

Expire == expired' = TRUE /\ UNCHANGED <<program, token, phase, execution, reply>>

\* The program starts, ends by itself, or is killed for one of two reasons.
Run ==
  /\ \/ program = "none" /\ program' = "running"
     \/ program = "running" /\ program' \in {"passed", "failed"}
     \/ program = "running" /\ (token \/ expired) /\ program' = "killed"
  /\ phase = "calling"
  /\ UNCHANGED <<token, expired, phase, execution, reply>>

\* An error leaves no program behind that still runs.
Refuse ==
  /\ phase = "calling" /\ program # "running"
  /\ phase' = "refused"
  /\ UNCHANGED <<program, token, expired, execution, reply>>

\* The answer is about a program that has ended, flagged only for a reason
\* that exists, and always flagged if the program was killed.
Answer(e, r) ==
  /\ phase = "calling" /\ program \in {"passed", "failed", "killed"}
  /\ e.zero = (program = "passed")
  /\ e.cancelled \/ r = "interrupted" => token
  /\ e.timed_out \/ r = "timed_out" => expired
  /\ program = "killed" => (e.cancelled \/ e.timed_out) /\ r # "failed"
  /\ r = "decision" => program = "passed" /\ ~e.cancelled /\ ~e.timed_out
  /\ phase' = "answered" /\ execution' = e /\ reply' = r
  /\ UNCHANGED <<program, token, expired>>

Next ==
  \/ Cancel \/ Expire \/ Run \/ Refuse
  \/ \E e \in Execution, r \in {"none", "decision", "interrupted", "timed_out", "failed"} :
        Answer(e, r)

Spec == Init /\ [][Next]_vars

\* And the call always comes back.
Promise == Spec /\ <>(phase # "calling")
=============================================================================
