------------------------------ MODULE Executor ------------------------------
(***************************************************************************)
(* One supervised call: the polling loop with its timeout and its          *)
(* cancellation token, the two threads that read the pipes, and the        *)
(* command with a descendant that inherits them.  The loop is in the code  *)
(* twice: the executor runs commands with it (src/src/executor.rs,         *)
(* run_cancellable) and the AGY provider asks for a decision with it       *)
(* (src/src/provider/agy.rs, run_bounded), then classifies what came back. *)
(* Both implement SupervisedCall.                                          *)
(*                                                                         *)
(* Output is counted in bytes, its text left out.  The deadline passes at  *)
(* any moment.  The command is arbitrary: it writes, forks and exits as it *)
(* likes.  A write to a pipe nobody reads any more kills it or fails;      *)
(* either is one of the ways it may exit.  SIGKILL reaches every process   *)
(* of the group at once; a descendant that leaves the group is left out.   *)
(* Waiting for the child does not fail: it could only if somebody else     *)
(* reaped it, and nobody does.                                             *)
(***************************************************************************)
EXTENDS EventLog, FiniteSetsExt

CONSTANTS MaxOutput,     \* max_output_bytes
          PipeCapacity,  \* bytes a pipe holds
          WriteBound,    \* bound on the bytes written to a pipe
          PromptReaders  \* a reader that can go on does so within the grace

ASSUME SizesAssumption ==
  /\ MaxOutput \in Nat /\ PipeCapacity \in Nat \ {0} /\ WriteBound \in Nat
  /\ PromptReaders \in BOOLEAN

Streams == {"stdout", "stderr"}

VARIABLES
  caller,     \* "executor" or "provider"
  pc,         \* where the supervisor stands
  timed_out, cancelled,
  execution,  \* what the call returned: how the command ended,
  output,     \* per stream its bytes and whether they were truncated,
  reply,      \* and the provider's classification of it
  child,      \* the direct child: "none", "running", "zombie" or "reaped"
  status,     \* how it ended: "passed", "failed" or "killed"
  helper,     \* a descendant of it is alive and holds the pipes
  outlived,   \* history: it was alive when the child was reaped
  token,      \* the cancellation token
  expired,    \* the timeout has elapsed
  written,    \* written[s]: bytes written to the pipe so far
  pipe,       \* pipe[s]: bytes in it
  reader,     \* reader[s]: its thread is "reading", "probing" or "done"
  captured,   \* captured[s]: PipeData.bytes
  truncated,  \* truncated[s]: PipeData.truncated
  unread      \* history: unread[s]: the reader gave up on an error

flags == <<timed_out, cancelled>>
returned == <<caller, execution, output, reply>>
supervisor == <<pc, flags, returned>>
command == <<child, status, helper, outlived>>
outside == <<token, expired>>
pipes == <<written, pipe>>
readers == <<reader, captured, truncated, unread>>
vars == <<supervisor, command, outside, pipes, readers>>

Nothing == [zero |-> FALSE, timed_out |-> FALSE, cancelled |-> FALSE]

Init ==
  /\ caller \in {"executor", "provider"}
  /\ pc = "authorize" /\ timed_out = FALSE /\ cancelled = FALSE
  /\ execution = Nothing /\ reply = "none"
  /\ output = [s \in Streams |-> [bytes |-> 0, truncated |-> FALSE]]
  /\ child = "none" /\ status = "none" /\ helper = FALSE /\ outlived = FALSE
  /\ token \in BOOLEAN /\ expired = FALSE
  /\ written = [s \in Streams |-> 0] /\ pipe = [s \in Streams |-> 0]
  /\ reader = [s \in Streams |-> "done"]
  /\ captured = [s \in Streams |-> 0] /\ truncated = [s \in Streams |-> FALSE]
  /\ unread = [s \in Streams |-> FALSE]

-----------------------------------------------------------------------------
(***************************************************************************)
(* The command and its descendant.                                         *)
(***************************************************************************)
WriteEndOpen == child = "running" \/ helper

write(s) ==
  /\ WriteEndOpen /\ reader[s] # "done"
  /\ pipe[s] < PipeCapacity /\ written[s] < WriteBound
  /\ pipe' = [pipe EXCEPT ![s] = @ + 1]
  /\ written' = [written EXCEPT ![s] = @ + 1]
  /\ UNCHANGED <<supervisor, command, outside, readers>>

fork ==
  /\ child = "running" /\ ~helper
  /\ helper' = TRUE
  /\ UNCHANGED <<supervisor, child, status, outlived, outside, pipes, readers>>

exit ==
  /\ child = "running"
  /\ child' = "zombie" /\ status' \in {"passed", "failed"}
  /\ UNCHANGED <<supervisor, helper, outlived, outside, pipes, readers>>

helper_exit ==
  /\ helper
  /\ helper' = FALSE
  /\ UNCHANGED <<supervisor, child, status, outlived, outside, pipes, readers>>

-----------------------------------------------------------------------------
(***************************************************************************)
(* A reader thread: up to max_bytes into the buffer, then one more byte to *)
(* learn whether there was more.  Its end closes the pipe.                 *)
(***************************************************************************)
AfterRead(total) == IF total < MaxOutput THEN "reading" ELSE "probing"

\* (A slip: the chunk is filled whatever room is left.)
Room_whole_chunk(s) == pipe[s]

Room(s) == Min({pipe[s], MaxOutput - captured[s]})

\* (A slip: one thread reads the two pipes, stdout first.)
CanRead_in_turn(s) ==
  reader[s] = "reading" /\ pipe[s] > 0 /\ (s = "stderr" => reader["stdout"] = "done")

CanRead(s) == reader[s] = "reading" /\ pipe[s] > 0

read(s) ==
  /\ CanRead(s)
  /\ \E n \in 1..Room(s) :
       /\ pipe' = [pipe EXCEPT ![s] = @ - n]
       /\ captured' = [captured EXCEPT ![s] = @ + n]
       /\ reader' = [reader EXCEPT ![s] = AfterRead(captured[s] + n)]
  /\ UNCHANGED <<supervisor, command, outside, written, truncated, unread>>

probe(s) ==
  /\ reader[s] = "probing" /\ pipe[s] > 0
  /\ truncated' = [truncated EXCEPT ![s] = TRUE]
  /\ pipe' = [pipe EXCEPT ![s] = @ - 1]
  /\ reader' = [reader EXCEPT ![s] = "done"]
  /\ UNCHANGED <<supervisor, command, outside, written, captured, unread>>

end_of_file(s) ==
  /\ reader[s] # "done" /\ pipe[s] = 0 /\ ~WriteEndOpen
  /\ reader' = [reader EXCEPT ![s] = "done"]
  /\ UNCHANGED <<supervisor, command, outside, pipes, captured, truncated, unread>>

\* A read fails: the reader ends as it would at the end of the output.
read_error(s) ==
  /\ reader[s] # "done"
  /\ reader' = [reader EXCEPT ![s] = "done"]
  /\ unread' = [unread EXCEPT ![s] = TRUE]
  /\ UNCHANGED <<supervisor, command, outside, pipes, captured, truncated>>

-----------------------------------------------------------------------------
(***************************************************************************)
(* The supervisor.                                                         *)
(***************************************************************************)
\* Not on the allowlist, outside the workspace, or spawn failed.
refuse ==
  /\ pc = "authorize"
  /\ pc' = "refused"
  /\ UNCHANGED <<flags, returned, command, outside, pipes, readers>>

spawn ==
  /\ pc = "authorize"
  /\ child' = "running"
  /\ reader' = [s \in Streams |-> AfterRead(0)]
  /\ pc' = "try_wait"
  /\ UNCHANGED <<flags, returned, status, helper, outlived, outside, pipes, captured,
                 truncated, unread>>

reap == child' = "reaped" /\ outlived' = helper

try_wait ==
  /\ pc = "try_wait"
  /\ IF child = "zombie"
       THEN reap /\ pc' = "drain_stdout"
       ELSE UNCHANGED <<child, outlived>> /\ pc' = "look_at_token"
  /\ UNCHANGED <<flags, returned, status, helper, outside, pipes, readers>>

\* (A slip: the loop is not left.)
AfterToken_goes_on == "look_at_clock"

AfterToken == IF token THEN "terminate" ELSE "look_at_clock"

look_at_token ==
  /\ pc = "look_at_token"
  /\ cancelled' = token
  /\ pc' = AfterToken
  /\ UNCHANGED <<timed_out, returned, command, outside, pipes, readers>>

look_at_clock ==
  /\ pc = "look_at_clock"
  /\ timed_out' = expired
  /\ pc' = IF expired THEN "terminate" ELSE "try_wait"
  /\ UNCHANGED <<cancelled, returned, command, outside, pipes, readers>>

KillChild ==
  IF child = "running"
    THEN child' = "zombie" /\ status' = "killed"
    ELSE UNCHANGED <<child, status>>

\* (A slip: the signal goes to the direct child.)
KillGroup_child_only == KillChild /\ UNCHANGED helper

\* SIGKILL to the group.  A child that has just exited keeps its status.
KillGroup == KillChild /\ helper' = FALSE

terminate_child ==
  /\ pc = "terminate"
  /\ KillGroup
  /\ pc' = "wait"
  /\ UNCHANGED <<flags, returned, outlived, outside, pipes, readers>>

\* Nobody of the group is left but the child that has just exited: Linux takes
\* the signal, macOS refuses it, and the error leaves the child unreaped.
terminate_refused ==
  /\ pc = "terminate" /\ child = "zombie" /\ ~helper
  /\ pc' = "error"
  /\ UNCHANGED <<flags, returned, command, outside, pipes, readers>>

wait ==
  /\ pc = "wait" /\ child = "zombie"
  /\ reap
  /\ pc' = "drain_stdout"
  /\ UNCHANGED <<flags, returned, status, helper, outside, pipes, readers>>

\* recv_timeout: the reader is done, or the grace is over.  The grace is long
\* for a reader that has something to read, short for one that waits.
GraceOver(s) == ~PromptReaders \/ (pipe[s] = 0 /\ WriteEndOpen)

drain(s) ==
  /\ pc = IF s = "stdout" THEN "drain_stdout" ELSE "drain_stderr"
  /\ reader[s] = "done" \/ GraceOver(s)
  /\ pc' = IF s = "stdout" THEN "drain_stderr" ELSE "collect"
  /\ UNCHANGED <<flags, returned, command, outside, pipes, readers>>

\* The provider's classification; a call that ended with status 0 has still
\* to hold an envelope that says SUCCESS, with a decision in it.
decide(e) ==
  IF e.cancelled THEN {"interrupted"}
  ELSE IF e.timed_out THEN {"timed_out"}
  ELSE IF e.zero THEN {"decision", "failed"} ELSE {"failed"}

collect ==
  /\ pc = "collect"
  /\ execution' = [zero |-> status = "passed", timed_out |-> timed_out,
                   cancelled |-> cancelled]
  /\ output' = [s \in Streams |-> [bytes |-> captured[s], truncated |-> truncated[s]]]
  /\ reply' \in IF caller = "provider" THEN decide(execution') ELSE {"none"}
  /\ pc' = "returned"
  /\ UNCHANGED <<flags, caller, command, outside, pipes, readers>>

-----------------------------------------------------------------------------
cancel ==
  /\ ~token /\ token' = TRUE
  /\ UNCHANGED <<supervisor, command, expired, pipes, readers>>

\* started.elapsed() has reached the timeout.
time_passes ==
  /\ ~expired /\ expired' = TRUE
  /\ UNCHANGED <<supervisor, command, token, pipes, readers>>

Command == (\E s \in Streams : write(s)) \/ fork \/ exit \/ helper_exit
Reader(s) == read(s) \/ probe(s) \/ end_of_file(s)
Supervisor ==
  \/ refuse \/ spawn \/ try_wait \/ look_at_token \/ look_at_clock
  \/ terminate_child \/ terminate_refused \/ wait
  \/ (\E s \in Streams : drain(s)) \/ collect

Next ==
  \/ Command \/ Supervisor \/ cancel \/ time_passes
  \/ \E s \in Streams : Reader(s) \/ read_error(s)

Spec == Init /\ [][Next]_vars

\* Threads of the runtime run, and time passes.  The command owes nothing.
FairSpec ==
  /\ Spec
  /\ WF_vars(Supervisor) /\ WF_vars(time_passes)
  /\ \A s \in Streams : WF_vars(Reader(s))

-----------------------------------------------------------------------------
TypeOK ==
  /\ caller \in {"executor", "provider"}
  /\ pc \in {"authorize", "refused", "try_wait", "look_at_token", "look_at_clock",
             "terminate", "error", "wait", "drain_stdout", "drain_stderr", "collect",
             "returned"}
  /\ child \in {"none", "running", "zombie", "reaped"}
  /\ status \in {"none", "passed", "failed", "killed"}
  /\ {helper, token, expired, timed_out, cancelled, outlived} \subseteq BOOLEAN
  /\ written \in [Streams -> 0..WriteBound]
  /\ pipe \in [Streams -> 0..PipeCapacity]
  /\ reader \in [Streams -> {"reading", "probing", "done"}]
  /\ captured \in [Streams -> 0..MaxOutput]
  /\ truncated \in [Streams -> BOOLEAN] /\ unread \in [Streams -> BOOLEAN]
  /\ execution \in [zero : BOOLEAN, timed_out : BOOLEAN, cancelled : BOOLEAN]
  /\ reply \in {"none", "decision", "interrupted", "timed_out", "failed"}
  /\ output \in [Streams -> [bytes : 0..MaxOutput, truncated : BOOLEAN]]

Call == INSTANCE SupervisedCall WITH
  program <- IF status = "none" THEN child ELSE status,
  phase <- CASE pc = "returned" -> "answered"
             [] pc \in {"refused", "error"} -> "refused"
             [] OTHER -> "calling"

\* The supervisor keeps its promise to the loop, for a command and for a
\* decision: nothing is killed without a reason, what was killed is flagged as
\* killed, the two flags exclude each other, a decision is only taken from a
\* provider that ended well by itself, and the call comes back whatever the
\* command and its descendants do.
CallSpec == Call!Promise

\* A command that had to be ended leaves no process of its group behind, even
\* if its group could not be signalled any more.
KillLeavesNobody ==
  /\ pc = "returned" /\ (timed_out \/ cancelled) => child = "reaped" /\ ~helper
  /\ pc = "error" => child = "zombie" /\ ~helper

\* Unless a descendant outlived the child or a read failed, the output returned
\* is all that was written, or it is full and marked truncated because there
\* was more.
OutputIsWholeOrMarked ==
  pc = "returned" /\ ~outlived =>
    \A s \in {t \in Streams : ~unread[t]} :
      IF output[s].truncated
        THEN output[s].bytes = MaxOutput /\ written[s] > MaxOutput
        ELSE output[s].bytes = written[s]

\* A command never stays blocked on a full pipe: it is read, or its reader
\* goes away, or the command is ended.
NeverStuckOnOutput ==
  \A s \in Streams :
    pipe[s] = PipeCapacity ~> pipe[s] < PipeCapacity \/ reader[s] = "done"
=============================================================================
