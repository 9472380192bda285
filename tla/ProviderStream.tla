---------------------------- MODULE ProviderStream ----------------------------
(***************************************************************************)
(* One streaming call of the AGY provider (src/src/provider/agy.rs,        *)
(* stream_text_cancellable): the thread that reads the child's events line *)
(* by line, the watchdog thread that kills the child's process group on    *)
(* timeout or cancellation, and the child with a descendant in its group.  *)
(*                                                                         *)
(* A line is an event: a text delta of some bytes, a result, or no JSON.   *)
(* The child writes what it likes, may leave its last line unfinished, may *)
(* close its output and go on, and exits or never does.  A write nobody    *)
(* reads any more fails or kills it; both are ways it may exit.            *)
(***************************************************************************)
EXTENDS Integers, Sequences

CONSTANTS MaxOutput,     \* max_output_bytes
          DeltaSizes,    \* bytes a text delta may have
          PipeCapacity,  \* lines the pipe holds
          WriteBound     \* bound on the lines written

ASSUME StreamAssumption ==
  /\ MaxOutput \in Nat \ {0} /\ DeltaSizes \subseteq Nat
  /\ PipeCapacity \in Nat /\ WriteBound \in Nat

VARIABLES
  pc,         \* where the reading thread stands
  failure,    \* why it left the stream early
  emitted,    \* bytes of the deltas read
  delivered,  \* bytes handed to on_delta
  succeeded,  \* the last result event said SUCCESS
  outcome,    \* what the call returned
  watchdog,   \* where the watchdog thread stands
  finished,   \* the flag it looks at
  token, expired,
  child,      \* "running", "silent" (output closed), "zombie", "reaped"
  helper,     \* a descendant: "none", "holding" the output, or "silent"
  status,     \* how the child exited
  pipe,       \* whole lines in the pipe
  half,       \* an unfinished line follows them
  lines,      \* lines written so far
  produced    \* history: bytes of the deltas written

progress == <<emitted, delivered, succeeded>>
reading == <<pc, failure, progress, outcome>>
watching == <<watchdog, finished>>
outside == <<token, expired>>
group == <<child, helper, status>>
stream == <<pipe, half, lines, produced>>
vars == <<reading, watching, outside, group, stream>>

Line == [kind : {"delta"}, bytes : DeltaSizes]
          \cup [kind : {"success", "error", "malformed"}, bytes : {0}]

Init ==
  /\ pc = "read" /\ failure = "none" /\ emitted = 0 /\ delivered = 0
  /\ succeeded = FALSE /\ outcome = "none"
  /\ watchdog = "watch" /\ finished = FALSE
  /\ token \in BOOLEAN /\ expired = FALSE
  /\ child = "running" /\ helper = "none" /\ status = "none"
  /\ pipe = <<>> /\ half = FALSE /\ lines = 0 /\ produced = 0

-----------------------------------------------------------------------------
(***************************************************************************)
(* The child and its descendant.                                           *)
(***************************************************************************)
WriteEndOpen == child = "running" \/ helper = "holding"

write(line) ==
  /\ WriteEndOpen /\ pc = "read"
  /\ Len(pipe) < PipeCapacity /\ lines < WriteBound
  /\ pipe' = Append(pipe, line) /\ half' = FALSE
  /\ lines' = lines + 1 /\ produced' = produced + line.bytes
  /\ UNCHANGED <<reading, watching, outside, group>>

write_half ==
  /\ WriteEndOpen /\ pc = "read"
  /\ ~half /\ lines < WriteBound
  /\ half' = TRUE
  /\ UNCHANGED <<reading, watching, outside, group, pipe, lines, produced>>

fork ==
  /\ helper = "none"
  /\ \/ child = "running" /\ helper' = "holding"
     \/ child = "silent" /\ helper' = "silent"
  /\ UNCHANGED <<reading, watching, outside, child, status, stream>>

close_output ==
  /\ \/ child = "running" /\ child' = "silent" /\ UNCHANGED helper
     \/ helper = "holding" /\ helper' = "silent" /\ UNCHANGED child
  /\ UNCHANGED <<reading, watching, outside, status, stream>>

exit ==
  /\ child \in {"running", "silent"}
  /\ child' = "zombie" /\ status' \in {"zero", "other"}
  /\ UNCHANGED <<reading, watching, outside, helper, stream>>

helper_exit ==
  /\ helper # "none"
  /\ helper' = "none"
  /\ UNCHANGED <<reading, watching, outside, child, status, stream>>

KillChild ==
  IF child \in {"running", "silent"}
    THEN child' = "zombie" /\ status' = "other"
    ELSE UNCHANGED <<child, status>>

\* (A slip: only the child is killed.)
KillGroup_child_only == KillChild /\ UNCHANGED helper

\* SIGKILL to every process of the group.
KillGroup == KillChild /\ helper' = "none"

-----------------------------------------------------------------------------
(***************************************************************************)
(* The reading thread.                                                     *)
(***************************************************************************)
\* (A slip: the delta is delivered before the limit is looked at.)
Delivered_first(total) == total

\* on_delta is called while the limit is kept.
Delivered(total) == IF total > MaxOutput THEN delivered ELSE total

\* (A slip: the result event ends the stream.)
AfterResult_ends == "wait"

AfterResult == "read"

give_up(reason) == failure' = reason /\ pc' = "terminate"

\* What one line does.
take(line) ==
  \/ /\ line.kind = "delta"
     /\ emitted' = emitted + line.bytes /\ delivered' = Delivered(emitted')
     /\ IF emitted' > MaxOutput THEN give_up("exceeded") ELSE UNCHANGED <<failure, pc>>
     /\ UNCHANGED succeeded
  \/ line.kind = "malformed" /\ give_up("malformed") /\ UNCHANGED progress
  \/ /\ line.kind \in {"success", "error"}
     /\ succeeded' = (line.kind = "success") /\ pc' = AfterResult
     /\ UNCHANGED <<failure, emitted, delivered>>

read ==
  /\ pc = "read" /\ pipe # <<>>
  /\ take(Head(pipe))
  /\ pipe' = Tail(pipe)
  /\ UNCHANGED <<outcome, watching, outside, group, half, lines, produced>>

\* At the end of the output an unfinished line is read as a line.
read_half ==
  /\ pc = "read" /\ pipe = <<>> /\ half /\ ~WriteEndOpen
  /\ \E line \in Line : take(line) /\ produced' = produced + line.bytes
  /\ half' = FALSE
  /\ UNCHANGED <<outcome, watching, outside, group, pipe, lines>>

end_of_file ==
  /\ pc = "read" /\ pipe = <<>> /\ ~half /\ ~WriteEndOpen
  /\ pc' = "wait"
  /\ UNCHANGED <<failure, progress, outcome, watching, outside, group, stream>>

terminate_child ==
  /\ pc = "terminate"
  /\ KillGroup
  /\ pc' = "wait"
  /\ UNCHANGED <<failure, progress, outcome, watching, outside, stream>>

\* macOS refuses the signal if nobody of the group is left but the child that
\* has exited.  A malformed stream ignores that and waits; an exceeded limit
\* returns the error at once, past the wait, the flag and the join.
terminate_refused ==
  /\ pc = "terminate" /\ child = "zombie" /\ helper = "none"
  /\ IF failure = "malformed" THEN pc' = "wait" /\ UNCHANGED outcome
                              ELSE pc' = "returned" /\ outcome' = "refused"
  /\ UNCHANGED <<failure, progress, watching, outside, group, stream>>

wait ==
  /\ pc = "wait"
  /\ child = "zombie" /\ child' = "reaped"
  /\ pc' = "finish"
  /\ UNCHANGED <<failure, progress, outcome, watching, outside, helper, status, stream>>

finish ==
  /\ pc = "finish"
  /\ finished' = TRUE
  /\ pc' = "join"
  /\ UNCHANGED <<failure, progress, outcome, watchdog, outside, group, stream>>

\* (A slip: the watchdog is left to itself.)
Joined_not == TRUE

Joined == watchdog = "done"

Verdict ==
  IF failure # "none" THEN failure
  ELSE IF token THEN "interrupted"
  ELSE IF expired THEN "timed_out"
  ELSE IF status = "zero" /\ succeeded THEN "ok" ELSE "failed"

\* The watchdog is joined, then the reasons to fail are looked at in order.
join ==
  /\ pc = "join" /\ Joined
  /\ outcome' = Verdict
  /\ pc' = "returned"
  /\ UNCHANGED <<failure, progress, watching, outside, group, stream>>

-----------------------------------------------------------------------------
(***************************************************************************)
(* The watchdog.                                                           *)
(***************************************************************************)
\* Is the stream finished?  Asked in every round and again before the kill.
look_at_finished ==
  /\ \/ watchdog = "watch" /\ watchdog' = IF finished THEN "done" ELSE "look"
     \/ watchdog = "recheck" /\ watchdog' = IF finished THEN "done" ELSE "kill"
  /\ UNCHANGED <<reading, finished, outside, group, stream>>

\* (A slip: the clock is not looked at.)
TimeToKill_token_only == token

TimeToKill == token \/ expired

look_at_token_and_clock ==
  /\ watchdog = "look"
  /\ watchdog' = IF TimeToKill THEN "recheck" ELSE "watch"
  /\ UNCHANGED <<reading, finished, outside, group, stream>>

kill ==
  /\ watchdog = "kill"
  /\ KillGroup
  /\ watchdog' = "done"
  /\ UNCHANGED <<reading, finished, outside, stream>>

-----------------------------------------------------------------------------
cancel ==
  /\ ~token
  /\ token' = TRUE
  /\ UNCHANGED <<reading, watching, expired, group, stream>>

time_passes ==
  /\ ~expired
  /\ expired' = TRUE
  /\ UNCHANGED <<reading, watching, token, group, stream>>

Child ==
  \/ \E line \in Line : write(line)
  \/ write_half \/ fork \/ close_output \/ exit \/ helper_exit
Reader ==
  \/ read \/ read_half \/ end_of_file \/ terminate_child \/ terminate_refused
  \/ wait \/ finish \/ join
Watchdog == look_at_finished \/ look_at_token_and_clock \/ kill

Next == Child \/ Reader \/ Watchdog \/ cancel \/ time_passes

Spec == Init /\ [][Next]_vars

\* The two threads run.  Nothing is assumed of the child, nor that anybody
\* cancels or that the time is ever over.
FairSpec == Spec /\ WF_vars(Reader) /\ WF_vars(Watchdog)

-----------------------------------------------------------------------------
TypeOK ==
  /\ pc \in {"read", "terminate", "wait", "finish", "join", "returned"}
  /\ failure \in {"none", "exceeded", "malformed"}
  /\ emitted \in Nat /\ delivered \in 0..MaxOutput
  /\ outcome \in {"none", "ok", "failed", "exceeded", "malformed", "interrupted",
                  "timed_out", "refused"}
  /\ watchdog \in {"watch", "look", "recheck", "kill", "done"}
  /\ {succeeded, finished, token, expired, half} \subseteq BOOLEAN
  /\ child \in {"running", "silent", "zombie", "reaped"}
  /\ helper \in {"none", "holding", "silent"}
  /\ status \in {"none", "zero", "other"}
  /\ pipe \in Seq(Line) /\ lines \in 0..WriteBound /\ produced \in Nat

\* A stream that is returned as complete was delivered to the last byte, and
\* the child itself ended it with a success and status 0.
OkIsWholeStream ==
  outcome = "ok" => delivered = produced /\ succeeded /\ status = "zero"

\* A stream the reader gave up on leaves no process of the provider behind
\* that still runs, even if its group could not be signalled any more.
AbortLeavesNobody ==
  /\ outcome \in {"exceeded", "malformed"} => child = "reaped" /\ helper = "none"
  /\ outcome = "refused" => child = "zombie" /\ helper = "none"

\* Once the call has returned, the watchdog may signal the child's group only
\* while the child, not yet reaped, keeps its number: never a process that was
\* given the number later.
NoStraySignal == [][pc = "returned" /\ child = "reaped" => ~kill]_vars

\* Cancelled or timed out, the call comes to its end: whatever the provider
\* does, whether it writes, hangs, or leaves a descendant with its output.
EndsWhenTold == token \/ expired ~> pc = "returned"
=============================================================================
