------------------------------ MODULE AgentLoop ------------------------------
(***************************************************************************)
(* The step-bounded agent loop, its verification debt and the terminal     *)
(* state a worker gives the task for the way the loop ended                *)
(* (src/src/agent/mod.rs, src/src/agent/verification.rs,                   *)
(* src/src/worker.rs), for every attempt of one task, over retries and     *)
(* over workers that are killed and restarted.  The model behind the       *)
(* provider may answer with any action at any step; a command may exit     *)
(* with any status; the token may be signalled at any moment.              *)
(*                                                                         *)
(* A file's content is one of a few versions.  Observations only feed the  *)
(* next request and are left out: the provider's answers are arbitrary.    *)
(***************************************************************************)
EXTENDS Integers, FiniteSets, EventLog

CONSTANTS Files,       \* the editable files of the workspace
          Versions,    \* the contents a file can have; 0 is the initial one
          MaxSteps,    \* max_steps
          Commands,    \* how many verification commands are configured
          RequireEdit, \* require_edit
          RetryLimit,  \* the attempt limit the caller of retry passes
          AttemptBound \* bound on the attempts, restarts included

ASSUME LoopAssumption ==
  /\ 0 \in Versions
  /\ MaxSteps \in Nat \ {0} /\ Commands \in Nat
  /\ RequireEdit \in BOOLEAN
  /\ RetryLimit \in Nat /\ AttemptBound \in Nat \ {0}

VARIABLES
  pc,       \* where the loop stands
  attempt,  \* the attempt of the task it is
  step,     \* iterations begun
  token,    \* the cancellation token
  content,  \* the workspace: a version for every file
  orphan,   \* a command of a killed worker still runs in it
  changed,  \* changed_files
  debt,     \* VerificationDebt.open
  passed,   \* run_verification's verdict so far
  command,  \* the verification command to run next
  outcome,  \* how the loop ended: a report or the kind of its error
  final,    \* the state the worker recorded
  good,     \* history: the commands that passed since the last edit
  vouched,  \* history: the workspace the last passing verification left
  tampered, \* history: a command has changed a file since that verification
  killed    \* history: some command of the attempt was killed by the token

workspace == <<content, orphan, changed>>
gate == <<debt, passed, command>>
ending == <<attempt, outcome, final>>
history == <<good, vouched, tampered, killed>>
vars == <<pc, step, token, workspace, gate, ending, history>>

Workspace == [Files -> Versions]
Original == [f \in Files |-> 0]

Init ==
  /\ pc = "head" /\ attempt = 1 /\ step = 0 /\ token = FALSE
  /\ content = Original /\ orphan = FALSE /\ changed = {} /\ debt = FALSE
  /\ passed = TRUE /\ command = 1
  /\ outcome = "none" /\ final = "running"
  /\ good = {} /\ vouched = Original /\ tampered = FALSE /\ killed = FALSE

-----------------------------------------------------------------------------
\* The monitor thread signals the token at any time while the loop runs.
cancel ==
  /\ pc \notin {"ended", "settled"} /\ ~token
  /\ token' = TRUE
  /\ UNCHANGED <<pc, step, workspace, gate, ending, history>>

end(kind) == pc' = "ended" /\ outcome' = kind /\ UNCHANGED <<attempt, final>>

NextStep == pc' = "head" /\ UNCHANGED ending

\* (A slip: iterations are not counted.)
NextIteration_uncounted == step

NextIteration == step + 1

\* (A slip: the token is left to the provider and the executor.)
Interrupted_elsewhere == FALSE

Interrupted == token

\* (A slip: one iteration too many.)
AtLimit_one_more == step > MaxSteps

AtLimit == step >= MaxSteps

\* The head of the loop: the step limit, then the token.
head ==
  /\ pc = "head"
  /\ IF AtLimit
       THEN end("step_limit") /\ UNCHANGED step
     ELSE /\ step' = NextIteration
          /\ IF Interrupted THEN end("interrupted") ELSE pc' = "decide" /\ UNCHANGED ending
  /\ UNCHANGED <<token, workspace, gate, history>>

\* The provider failed, timed out or saw the token; the error ends the loop.
provider_error ==
  /\ pc = "decide"
  /\ end("error") \/ (token /\ end("interrupted"))
  /\ UNCHANGED <<step, token, workspace, gate, history>>

Rejected == (RequireEdit /\ changed = {}) \/ debt

finish ==
  /\ pc = "decide"
  /\ IF Rejected THEN NextStep ELSE end("report")
  /\ UNCHANGED <<step, token, workspace, gate, history>>

\* A read, or an edit the workspace editor refused: an observation only.
observe ==
  /\ pc = "decide"
  /\ NextStep
  /\ UNCHANGED <<step, token, workspace, gate, history>>

\* (A slip: only a file's first edit opens the debt.)
DebtAfter_first_edit(f) == debt \/ f \notin changed

DebtAfter(f) == TRUE

\* An edit that was applied; the replacement may equal the text it replaces.
replace_text(f, v) ==
  /\ pc = "decide"
  /\ content' = [content EXCEPT ![f] = v]
  /\ changed' = changed \cup {f}
  /\ debt' = DebtAfter(f)
  /\ good' = {}
  /\ NextStep
  /\ UNCHANGED <<step, token, orphan, passed, command, vouched, tampered, killed>>

request_tool ==
  /\ pc = "decide"
  /\ pc' = "tool"
  /\ UNCHANGED <<step, token, workspace, gate, ending, history>>

request_verify ==
  /\ pc = "decide"
  /\ pc' = IF Commands = 0 THEN "head" ELSE "verify"
  /\ passed' = TRUE /\ command' = 1
  /\ UNCHANGED <<step, token, workspace, debt, ending, history>>

\* A command that ran to an end; the token kills only what is still running.
\* A command is a program of its own and may write to the workspace.
Runs(e) ==
  /\ e \in Execution /\ (e.cancelled => token)
  /\ killed' = (killed \/ e.cancelled)
  /\ content' \in Workspace /\ UNCHANGED orphan

\* The executor refused the command (not on the allowlist) or failed.
executor_error ==
  /\ pc \in {"tool", "verify"}
  /\ end("error")
  /\ UNCHANGED <<step, token, workspace, gate, history>>

run_tool(e) ==
  /\ pc = "tool"
  /\ Runs(e)
  /\ tampered' = (tampered \/ content' # content)
  /\ NextStep
  /\ UNCHANGED <<step, token, changed, gate, good, vouched>>

command_passed(e) == e.zero /\ ~e.timed_out /\ ~e.cancelled

\* (A slip: the last command decides alone.)
Verdict_of_last(e) == command_passed(e)

Verdict(e) == passed /\ command_passed(e)

\* One configured command; after the last one the debt is cleared if all of
\* them passed.  A failed verification does not reopen a cleared debt.
verify(e) ==
  /\ pc = "verify"
  /\ Runs(e)
  /\ passed' = Verdict(e)
  /\ good' = IF e.zero /\ ~e.timed_out /\ ~e.cancelled THEN good \cup {command} ELSE good
  /\ IF command < Commands
       THEN /\ command' = command + 1
            /\ tampered' = (tampered \/ content' # content)
            /\ UNCHANGED <<pc, debt, vouched>>
       ELSE /\ pc' = "head"
            /\ debt' = (debt /\ ~passed')
            /\ vouched' = IF passed' THEN content' ELSE vouched
            /\ tampered' = (~passed' /\ (tampered \/ content' # content))
            /\ UNCHANGED command
  /\ UNCHANGED <<step, token, changed, ending>>

\* run_agent_task: the report or the error decides the task's terminal state.
settle ==
  /\ pc = "ended"
  /\ final' = CASE outcome = "report" /\ changed # {} -> "succeeded"
                [] outcome = "interrupted" -> "cancelled"
                [] OTHER -> "failed"
  /\ pc' = "settled"
  /\ UNCHANGED <<step, token, workspace, gate, attempt, outcome, history>>

\* A new loop starts on the workspace as it is, and knows of no edit, verified
\* or not, of an earlier attempt.
begin_again ==
  /\ attempt < AttemptBound /\ attempt' = attempt + 1
  /\ pc' = "head" /\ step' = 0 /\ changed' = {} /\ debt' = FALSE
  /\ outcome' = "none" /\ final' = "running" /\ killed' = FALSE
  /\ UNCHANGED <<content, passed, command, good, vouched, tampered>>

\* Runtime::retry, then run_agent_task with the caller's token or a new one.
retry ==
  /\ pc = "settled" /\ final = "failed" /\ attempt < RetryLimit
  /\ begin_again
  /\ token' \in {token, FALSE} /\ UNCHANGED orphan

\* The worker is killed, the next one recovers the task and runs it.  A command
\* is in a process group of its own and outlives the worker that waits for it.
restart ==
  /\ pc # "settled"
  /\ begin_again
  /\ token' = FALSE /\ orphan' = (orphan \/ pc \in {"tool", "verify"})

orphan_write ==
  /\ orphan /\ content' \in Workspace
  /\ tampered' = (tampered \/ content' # content)
  /\ UNCHANGED <<pc, step, token, orphan, changed, gate, ending, good, vouched, killed>>

orphan_exit ==
  /\ orphan /\ orphan' = FALSE
  /\ UNCHANGED <<pc, step, token, content, changed, gate, ending, history>>

-----------------------------------------------------------------------------
LoopStep ==
  \/ head \/ provider_error \/ finish \/ observe
  \/ \E f \in Files, v \in Versions : replace_text(f, v)
  \/ request_tool \/ request_verify \/ executor_error
  \/ \E e \in Execution : run_tool(e) \/ verify(e)
  \/ settle

Next == cancel \/ LoopStep \/ retry \/ restart \/ orphan_write \/ orphan_exit

Spec == Init /\ [][Next]_vars

\* The provider and the executor answer within their timeouts.
FairSpec == Spec /\ WF_vars(LoopStep)

-----------------------------------------------------------------------------
TypeOK ==
  /\ attempt \in 1..AttemptBound
  /\ pc \in {"head", "decide", "tool", "verify", "ended", "settled"}
  /\ step \in 0..MaxSteps
  /\ token \in BOOLEAN /\ debt \in BOOLEAN /\ passed \in BOOLEAN
  /\ orphan \in BOOLEAN /\ tampered \in BOOLEAN /\ killed \in BOOLEAN
  /\ content \in Workspace /\ vouched \in Workspace
  /\ changed \subseteq Files
  /\ command \in 1..(Commands + 1)
  /\ outcome \in {"none", "report", "step_limit", "interrupted", "error"}
  /\ final \in State
  /\ good \subseteq 1..Commands

\* A worker never marks an edited task succeeded unless a verification command
\* is configured and every one of them exited with status 0, in time, after
\* the last edit.
SuccessIsVerified ==
  final = "succeeded" => Commands > 0 /\ good = 1..Commands

\* Unless a command wrote to them in between, the files of a succeeded task
\* are as its last passing verification left them.
SuccessWasSeenPassing == final = "succeeded" /\ ~tampered => content = vouched

\* "Requires passing a verification test command after any workspace file
\* edit": no task succeeds with files that changed after the verification.
VerifiedAfterAnyChange == final = "succeeded" => content = vouched

\* Whatever the model answers, in every attempt the loop ends and the task
\* gets its state.
Settles == pc # "settled" ~> pc = "settled"

\* A task one of whose commands was killed by the token is never recorded as
\* succeeded: it ends cancelled or, in its last step, failed.
KilledNeverSucceeds == killed => final # "succeeded"
=============================================================================
