--------------------------- MODULE ExecutorProofs ---------------------------
(***************************************************************************)
(* The supervised call for every output limit, pipe capacity and command:  *)
(* no process is left behind, no byte is lost without a mark, and the      *)
(* safety half of the promise SupervisedCall makes to the agent loop.      *)
(***************************************************************************)
EXTENDS Executor, TLAPS

Loop == {"try_wait", "look_at_token", "look_at_clock", "terminate"}
Over == {"drain_stdout", "drain_stderr", "collect", "returned"}

\* Where the supervisor stands says how far the child has come.
ChildInv ==
  /\ child = "none" <=> pc \in {"authorize", "refused"}
  /\ child = "none" => ~helper
  /\ child = "running" => pc \in Loop
  /\ child = "reaped" <=> pc \in Over
  /\ status = "none" <=> child \in {"none", "running"}

\* A flag is only set for a reason that exists, only one of them, and only by
\* a look that leads out of the loop; only then is anybody killed.
FlagInv ==
  /\ cancelled => token
  /\ timed_out => expired
  /\ ~(cancelled /\ timed_out)
  /\ pc \in {"authorize", "refused", "try_wait", "look_at_token", "look_at_clock"} =>
       ~cancelled /\ ~timed_out
  /\ pc \in {"terminate", "wait", "error"} => cancelled \/ timed_out
  /\ status = "killed" => cancelled \/ timed_out

\* Once the child has ended nobody forks: a group that was signalled, or gone
\* when the child was reaped, stays gone.
GroupInv ==
  /\ pc \in {"wait", "error"} => ~helper
  /\ pc \in Over /\ (cancelled \/ timed_out \/ ~outlived) => ~helper

\* A byte written is captured, in the pipe, or the one that proved there was
\* more; and the reader stands where the bytes it has put it, unless it gave up.
StreamInv(s) ==
  /\ written[s] = captured[s] + pipe[s] + (IF truncated[s] THEN 1 ELSE 0)
  /\ reader[s] = "reading" => captured[s] < MaxOutput /\ ~truncated[s]
  /\ reader[s] = "probing" => captured[s] = MaxOutput /\ ~truncated[s]
  /\ truncated[s] => captured[s] = MaxOutput /\ reader[s] = "done"
  /\ reader[s] = "done" /\ ~truncated[s] /\ ~unread[s] => pipe[s] = 0
  /\ child = "none" => captured[s] = 0 /\ ~truncated[s] /\ reader[s] = "done"

\* With prompt readers, the end of a drain of a child nobody outlived means
\* the end of the reader, and what was collected is what it had.
DrainInv ==
  PromptReaders /\ ~outlived =>
    /\ pc \in {"drain_stderr", "collect", "returned"} => reader["stdout"] = "done"
    /\ pc \in {"collect", "returned"} => reader["stderr"] = "done"
    /\ pc = "returned" =>
         output = [s \in Streams |-> [bytes |-> captured[s], truncated |-> truncated[s]]]

\* Nothing is answered before the call returns.
AnswerInv == pc # "returned" => execution = Nothing /\ reply = "none"

IInv ==
  /\ TypeOK /\ ChildInv /\ FlagInv /\ GroupInv
  /\ \A s \in Streams : StreamInv(s)
  /\ DrainInv /\ AnswerInv

USE SizesAssumption DEF flags, returned, supervisor, command, outside, pipes, readers, Loop, Over

-----------------------------------------------------------------------------
\* A read takes no more than the pipe holds, and no more than the buffer may.
LEMMA RoomBound ==
  ASSUME TypeOK, NEW s \in Streams, NEW n \in 1..Room(s)
  PROVE  n \in Nat /\ n > 0 /\ n <= pipe[s] /\ n <= MaxOutput - captured[s]
<1>1. pipe[s] \in Nat /\ captured[s] \in Nat
  BY DEF TypeOK
<1>2. PICK m \in {pipe[s], MaxOutput - captured[s]} :
        \A k \in {pipe[s], MaxOutput - captured[s]} : m <= k
  BY <1>1
<1>3. Room(s) = m
  BY <1>1, <1>2 DEF Room, Min
<1> QED
  BY <1>1, <1>2, <1>3

\* The command writes, forks and exits as it likes.
LEMMA CommandStep ==
  ASSUME IInv, Command
  PROVE  IInv'
<1>1. CASE \E s \in Streams : write(s)
  <2>1. PICK s \in Streams : write(s)
    BY <1>1
  <2>2. TypeOK'
    BY <2>1 DEF IInv, TypeOK, write
  <2>3. ChildInv' /\ FlagInv' /\ GroupInv' /\ DrainInv' /\ AnswerInv'
    BY <2>1 DEF IInv, ChildInv, FlagInv, GroupInv, DrainInv, AnswerInv, write
  <2>4. ASSUME NEW t \in Streams PROVE StreamInv(t)'
    BY <2>1 DEF IInv, TypeOK, ChildInv, StreamInv, write, WriteEndOpen
  <2> QED
    BY <2>2, <2>3, <2>4 DEF IInv
<1>2. CASE fork \/ exit \/ helper_exit
  <2>1. TypeOK'
    <3>1. CASE fork
      BY <3>1 DEF IInv, TypeOK, fork
    <3>2. CASE exit
      BY <3>2 DEF IInv, TypeOK, exit
    <3>3. CASE helper_exit
      <4>1. helper' = FALSE /\ UNCHANGED <<token, expired, timed_out, cancelled, outlived>>
        BY <3>3 DEF helper_exit
      <4>2. {helper', token', expired', timed_out', cancelled', outlived'} \subseteq BOOLEAN
        BY <4>1 DEF IInv, TypeOK
      <4> QED
        BY <3>3, <4>2 DEF IInv, TypeOK, helper_exit
    <3> QED
      BY <1>2, <3>1, <3>2, <3>3
  <2>2. ChildInv' /\ FlagInv' /\ GroupInv' /\ DrainInv' /\ AnswerInv'
    BY <1>2 DEF IInv, ChildInv, FlagInv, GroupInv, DrainInv, AnswerInv, fork, exit, helper_exit
  <2>3. ASSUME NEW t \in Streams PROVE StreamInv(t)'
    BY <1>2 DEF IInv, StreamInv, fork, exit, helper_exit
  <2> QED
    BY <2>1, <2>2, <2>3 DEF IInv
<1> QED
  BY <1>1, <1>2 DEF Command

\* A reader moves bytes from the pipe to the buffer, loses at most the one it
\* probes with, and that one only with the buffer full.  One that gives up on an
\* error says so in the history only.
LEMMA ReaderStep ==
  ASSUME IInv, NEW s \in Streams, Reader(s) \/ read_error(s)
  PROVE  IInv'
<1>1. CASE read(s)
  <2>1. PICK n \in 1..Room(s) :
          /\ pipe' = [pipe EXCEPT ![s] = @ - n]
          /\ captured' = [captured EXCEPT ![s] = @ + n]
          /\ reader' = [reader EXCEPT ![s] = AfterRead(captured[s] + n)]
    BY <1>1 DEF read
  <2>2. n \in Nat /\ n > 0 /\ n <= pipe[s] /\ n <= MaxOutput - captured[s]
    BY RoomBound DEF IInv
  <2>3. TypeOK'
    BY <1>1, <2>1, <2>2 DEF IInv, TypeOK, read, AfterRead
  <2>4. ASSUME NEW t \in Streams PROVE StreamInv(t)'
    <3>1. /\ reader[s] = "reading" /\ ~truncated[s] /\ captured[s] < MaxOutput
          /\ child # "none" /\ StreamInv(t)
      BY <1>1 DEF IInv, StreamInv, ChildInv, read, CanRead
    <3>2. CASE t = s
      <4>1. /\ pipe'[s] = pipe[s] - n /\ captured'[s] = captured[s] + n
            /\ reader'[s] = AfterRead(captured[s] + n)
        BY <2>1 DEF IInv, TypeOK
      <4> QED
        BY <1>1, <2>2, <3>1, <3>2, <4>1 DEF IInv, TypeOK, StreamInv, read, AfterRead
    <3>3. CASE t # s
      BY <1>1, <2>1, <3>1, <3>3 DEF IInv, TypeOK, StreamInv, read
    <3> QED
      BY <3>2, <3>3
  <2>5. DrainInv'
    BY <1>1, <2>1 DEF IInv, DrainInv, read, CanRead, Streams
  <2>6. ChildInv' /\ FlagInv' /\ GroupInv' /\ AnswerInv'
    BY <1>1 DEF IInv, ChildInv, FlagInv, GroupInv, AnswerInv, read
  <2> QED
    BY <2>3, <2>4, <2>5, <2>6 DEF IInv
<1>2. CASE probe(s)
  <2>1. TypeOK'
    BY <1>2 DEF IInv, TypeOK, probe
  <2>2. ASSUME NEW t \in Streams PROVE StreamInv(t)'
    BY <1>2 DEF IInv, TypeOK, StreamInv, probe
  <2>3. DrainInv'
    BY <1>2 DEF IInv, TypeOK, DrainInv, probe, Streams
  <2>4. ChildInv' /\ FlagInv' /\ GroupInv' /\ AnswerInv'
    BY <1>2 DEF IInv, ChildInv, FlagInv, GroupInv, AnswerInv, probe
  <2> QED
    BY <2>1, <2>2, <2>3, <2>4 DEF IInv
<1>3. CASE end_of_file(s)
  <2>1. TypeOK'
    BY <1>3 DEF IInv, TypeOK, end_of_file
  <2>2. ASSUME NEW t \in Streams PROVE StreamInv(t)'
    BY <1>3 DEF IInv, TypeOK, StreamInv, end_of_file
  <2>3. DrainInv'
    BY <1>3 DEF IInv, TypeOK, DrainInv, end_of_file, Streams
  <2>4. ChildInv' /\ FlagInv' /\ GroupInv' /\ AnswerInv'
    BY <1>3 DEF IInv, ChildInv, FlagInv, GroupInv, AnswerInv, end_of_file
  <2> QED
    BY <2>1, <2>2, <2>3, <2>4 DEF IInv
<1>4. CASE read_error(s)
  <2>1. TypeOK'
    BY <1>4 DEF IInv, TypeOK, read_error
  <2>2. ASSUME NEW t \in Streams PROVE StreamInv(t)'
    BY <1>4 DEF IInv, TypeOK, StreamInv, read_error
  <2>3. DrainInv'
    BY <1>4 DEF IInv, TypeOK, DrainInv, read_error, Streams
  <2>4. ChildInv' /\ FlagInv' /\ GroupInv' /\ AnswerInv'
    BY <1>4 DEF IInv, ChildInv, FlagInv, GroupInv, AnswerInv, read_error
  <2> QED
    BY <2>1, <2>2, <2>3, <2>4 DEF IInv
<1> QED
  BY <1>1, <1>2, <1>3, <1>4 DEF Reader

\* The call until its child is reaped: spawned, polled, killed, waited for.
LEMMA LoopStep ==
  ASSUME IInv,
         \/ refuse \/ spawn \/ try_wait \/ look_at_token \/ look_at_clock
         \/ terminate_child \/ terminate_refused \/ wait
  PROVE  IInv'
<1>1. TypeOK'
  <2>1. CASE refuse \/ spawn \/ try_wait
    BY <2>1 DEF IInv, TypeOK, refuse, spawn, try_wait, reap, AfterRead
  <2>2. CASE look_at_token
    BY <2>2 DEF IInv, TypeOK, look_at_token, AfterToken
  <2>3. CASE look_at_clock
    BY <2>3 DEF IInv, TypeOK, look_at_clock
  <2>4. CASE terminate_child \/ terminate_refused
    BY <2>4 DEF IInv, TypeOK, terminate_child, terminate_refused, KillGroup, KillChild
  <2>5. CASE wait
    BY <2>5 DEF IInv, TypeOK, wait, reap
  <2> QED
    BY <2>1, <2>2, <2>3, <2>4, <2>5
<1>2. ChildInv'
  BY DEF IInv, TypeOK, ChildInv, refuse, spawn, try_wait, look_at_token, look_at_clock,
         terminate_child, terminate_refused, wait, reap, AfterToken, KillGroup, KillChild
<1>3. FlagInv'
  BY DEF IInv, TypeOK, ChildInv, FlagInv, refuse, spawn, try_wait, look_at_token, look_at_clock,
         terminate_child, terminate_refused, wait, reap, AfterToken, KillGroup, KillChild
<1>4. GroupInv'
  BY DEF IInv, TypeOK, FlagInv, GroupInv, refuse, spawn, try_wait, look_at_token, look_at_clock,
         terminate_child, terminate_refused, wait, reap, AfterToken, KillGroup, KillChild
<1>5. ASSUME NEW s \in Streams PROVE StreamInv(s)'
  <2>1. CASE spawn
    BY <2>1 DEF IInv, TypeOK, ChildInv, StreamInv, spawn, AfterRead
  <2>2. CASE \/ refuse \/ try_wait \/ look_at_token \/ look_at_clock
             \/ terminate_child \/ terminate_refused \/ wait
    BY <2>2 DEF IInv, ChildInv, StreamInv, refuse, try_wait, look_at_token, look_at_clock,
         terminate_child, terminate_refused, wait, reap, KillGroup, KillChild
  <2> QED
    BY <2>1, <2>2
<1>6. DrainInv' /\ AnswerInv'
  BY DEF IInv, DrainInv, AnswerInv, refuse, spawn, try_wait, look_at_token, look_at_clock,
         terminate_child, terminate_refused, wait, AfterToken
<1> QED
  BY <1>1, <1>2, <1>3, <1>4, <1>5, <1>6 DEF IInv

\* The call after its child was reaped: the drains and the answer.
LEMMA EndStep ==
  ASSUME IInv, (\E s \in Streams : drain(s)) \/ collect
  PROVE  IInv'
<1>1. CASE \E s \in Streams : drain(s)
  <2>1. PICK s \in Streams : drain(s)
    BY <1>1
  <2>2. TypeOK'
    BY <2>1 DEF IInv, TypeOK, drain
  <2>3. ChildInv' /\ FlagInv' /\ GroupInv' /\ AnswerInv'
    BY <2>1 DEF IInv, ChildInv, FlagInv, GroupInv, AnswerInv, drain
  <2>4. ASSUME NEW t \in Streams PROVE StreamInv(t)'
    BY <2>1 DEF IInv, StreamInv, drain
  <2>5. PromptReaders /\ ~outlived => reader[s] = "done"
    BY <2>1 DEF IInv, ChildInv, GroupInv, drain, GraceOver, WriteEndOpen
  <2>6. DrainInv'
    BY <2>1, <2>5 DEF IInv, DrainInv, drain, Streams
  <2> QED
    BY <2>2, <2>3, <2>4, <2>6 DEF IInv
<1>2. CASE collect
  <2>1. execution' \in [zero : BOOLEAN, timed_out : BOOLEAN, cancelled : BOOLEAN]
    BY <1>2 DEF IInv, TypeOK, collect
  <2>2. output' \in [Streams -> [bytes : 0..MaxOutput, truncated : BOOLEAN]]
    BY <1>2 DEF IInv, TypeOK, collect
  <2>3. TypeOK'
    BY <1>2, <2>1, <2>2 DEF IInv, TypeOK, collect, decide
  <2>4. ChildInv' /\ FlagInv' /\ GroupInv' /\ DrainInv' /\ AnswerInv'
    BY <1>2 DEF IInv, ChildInv, FlagInv, GroupInv, DrainInv, AnswerInv, collect
  <2>5. ASSUME NEW t \in Streams PROVE StreamInv(t)'
    BY <1>2 DEF IInv, StreamInv, collect
  <2> QED
    BY <2>3, <2>4, <2>5 DEF IInv
<1> QED
  BY <1>1, <1>2

\* A cancellation and the clock only give the loop a reason.
LEMMA OutsideStep ==
  ASSUME IInv, cancel \/ time_passes
  PROVE  IInv'
<1>1. TypeOK'
  <2>1. ({helper, token, expired, timed_out, cancelled, outlived} \subseteq BOOLEAN)'
    BY DEF IInv, TypeOK, cancel, time_passes
  <2> QED
    BY <2>1 DEF IInv, TypeOK, cancel, time_passes
<1>2. ChildInv' /\ FlagInv' /\ GroupInv' /\ DrainInv' /\ AnswerInv'
  BY DEF IInv, ChildInv, FlagInv, GroupInv, DrainInv, AnswerInv, cancel, time_passes
<1>3. ASSUME NEW t \in Streams PROVE StreamInv(t)'
  BY DEF IInv, StreamInv, cancel, time_passes
<1> QED
  BY <1>1, <1>2, <1>3 DEF IInv

\* The inductive invariant of a supervised call.
THEOREM Inductive == Spec => []IInv
<1>1. Init => IInv
  <2> SUFFICES ASSUME Init PROVE IInv
    OBVIOUS
  <2>1. TypeOK
    <3>1. {helper, token, expired, timed_out, cancelled, outlived} \subseteq BOOLEAN
      BY DEF Init
    <3> QED
      BY <3>1 DEF Init, TypeOK, Nothing
  <2>2. ChildInv /\ FlagInv /\ GroupInv /\ DrainInv /\ AnswerInv
    BY DEF Init, ChildInv, FlagInv, GroupInv, DrainInv, AnswerInv
  <2>3. ASSUME NEW s \in Streams PROVE StreamInv(s)
    BY DEF Init, StreamInv
  <2> QED
    BY <2>1, <2>2, <2>3 DEF IInv
<1>2. IInv /\ [Next]_vars => IInv'
  <2> SUFFICES ASSUME IInv, [Next]_vars PROVE IInv'
    OBVIOUS
  <2>1. CASE UNCHANGED vars
    BY <2>1 DEF vars, IInv, TypeOK, ChildInv, FlagInv, GroupInv, StreamInv, DrainInv, AnswerInv
  <2>2. CASE Next
    BY <2>2, CommandStep, ReaderStep, LoopStep, EndStep, OutsideStep DEF Next, Supervisor
  <2> QED
    BY <2>1, <2>2
<1> QED
  BY <1>1, <1>2, PTL DEF Spec

-----------------------------------------------------------------------------
\* Every variable of a supervised call has its type: no captured output
\* outgrows its limit, and no pipe its capacity.
THEOREM TypeCorrect == Spec => []TypeOK
<1>1. IInv => TypeOK
  BY DEF IInv
<1> QED
  BY <1>1, Inductive, PTL

\* A command ended by its timeout or by the token leaves no process of its
\* group behind, nor does one whose group could not be signalled any more.
THEOREM NobodyIsLeft == Spec => []KillLeavesNobody
<1>1. IInv => KillLeavesNobody
  BY DEF IInv, ChildInv, FlagInv, GroupInv, TypeOK, KillLeavesNobody
<1> QED
  BY <1>1, Inductive, PTL

\* If the readers are prompt, no read failed and no descendant outlived the
\* child, no byte of the output is missing from the answer unless it says so.
THEOREM OutputIsHonest ==
  ASSUME PromptReaders
  PROVE  Spec => []OutputIsWholeOrMarked
<1>1. IInv => OutputIsWholeOrMarked
  <2> SUFFICES ASSUME IInv, pc = "returned", ~outlived, NEW s \in Streams, ~unread[s]
               PROVE  IF output[s].truncated
                        THEN output[s].bytes = MaxOutput /\ written[s] > MaxOutput
                        ELSE output[s].bytes = written[s]
    BY DEF OutputIsWholeOrMarked
  <2>1. /\ reader[s] = "done"
        /\ output[s] = [bytes |-> captured[s], truncated |-> truncated[s]]
    BY PromptReaders DEF IInv, DrainInv, Streams
  <2>2. /\ written[s] = captured[s] + pipe[s] + (IF truncated[s] THEN 1 ELSE 0)
        /\ truncated[s] => captured[s] = MaxOutput
        /\ ~truncated[s] => pipe[s] = 0
    BY <2>1 DEF IInv, StreamInv
  <2> QED
    BY <2>1, <2>2 DEF IInv, TypeOK
<1> QED
  BY <1>1, Inductive, PTL

-----------------------------------------------------------------------------
(***************************************************************************)
(* The refinement, action by action.                                       *)
(***************************************************************************)
\* The program starts, ends by itself, or is killed for a reason that exists;
\* a signal to one that has just ended changes nothing the caller can see.
LEMMA RunRefines ==
  ASSUME IInv, spawn \/ exit \/ terminate_child
  PROVE  [Call!Next]_(Call!vars)
<1>1. CASE spawn
  BY <1>1 DEF IInv, ChildInv, spawn, Call!Next, Call!Run
<1>2. CASE exit
  BY <1>2 DEF IInv, ChildInv, exit, Call!Next, Call!Run
<1>3. CASE terminate_child /\ child = "running"
  BY <1>3 DEF IInv, ChildInv, FlagInv, terminate_child, KillGroup, KillChild,
              Call!Next, Call!Run
<1>4. CASE terminate_child /\ child # "running"
  BY <1>4 DEF terminate_child, KillGroup, KillChild, Call!vars
<1> QED
  BY <1>1, <1>2, <1>3, <1>4

\* A call that is refused leaves no program behind that still runs.
LEMMA RefuseRefines ==
  ASSUME IInv, refuse \/ terminate_refused
  PROVE  Call!Refuse
BY DEF IInv, TypeOK, ChildInv, refuse, terminate_refused, Call!Refuse

\* The answer is about a program that has ended, and its flags and the
\* provider's classification agree with how it ended and why.
LEMMA AnswerRefines ==
  ASSUME IInv, collect
  PROVE  Call!Next
<1>1. execution' = [zero |-> status = "passed", timed_out |-> timed_out, cancelled |-> cancelled]
  BY DEF collect
<1>2. reply' \in {"none", "decision", "interrupted", "timed_out", "failed"}
  BY DEF collect, decide
<1>3. execution' \in Execution
  BY <1>1 DEF IInv, TypeOK, FlagInv, Execution
<1>4. child = "reaped" /\ status \in {"passed", "failed", "killed"}
  BY DEF IInv, TypeOK, ChildInv, collect
<1>5. PICK e \in Execution, r \in {"none", "decision", "interrupted", "timed_out", "failed"} :
        e = execution' /\ r = reply'
  BY <1>2, <1>3
<1>6. Call!Answer(e, r)
  <2>1. /\ e.zero = (status = "passed") /\ e.timed_out = timed_out
        /\ e.cancelled = cancelled
    BY <1>1, <1>5
  <2>2. r # "none" => r \in decide(e)
    BY <1>5 DEF collect
  <2>3. /\ r = "interrupted" => cancelled
        /\ r = "timed_out" => timed_out
        /\ r = "failed" => ~cancelled /\ ~timed_out
        /\ r = "decision" => status = "passed" /\ ~cancelled /\ ~timed_out
    BY <2>1, <2>2 DEF decide
  <2>4. /\ e.cancelled \/ r = "interrupted" => token
        /\ e.timed_out \/ r = "timed_out" => expired
        /\ status = "killed" => (e.cancelled \/ e.timed_out) /\ r # "failed"
    BY <2>1, <2>3 DEF IInv, FlagInv
  <2>5. /\ pc = "collect" /\ pc' = "returned"
        /\ UNCHANGED <<child, status, token, expired>>
    BY DEF collect
  <2> QED
    BY <1>4, <1>5, <2>1, <2>3, <2>4, <2>5 DEF Call!Answer
<1> QED
  BY <1>5, <1>6 DEF Call!Next, Call!Execution, Execution

\* What the caller cannot see: output, readers, looks, drains, descendants.
LEMMA HiddenStep ==
  ASSUME IInv,
         \/ (\E s \in Streams : write(s) \/ Reader(s) \/ read_error(s) \/ drain(s))
         \/ fork \/ helper_exit
         \/ try_wait \/ look_at_token \/ look_at_clock \/ wait
  PROVE  UNCHANGED Call!vars
BY DEF IInv, ChildInv, write, Reader, read, probe, end_of_file, read_error, drain, fork,
       helper_exit, try_wait, look_at_token, look_at_clock, wait, reap, AfterToken, Call!vars

\* The polling loop, with its readers, its signals and its drains, implements
\* the call it promises to the loop and to the runtime: nothing is killed but
\* for a reason that exists, what was killed is flagged, only one flag is set,
\* and a decision is only taken from a provider that ended well by itself.
THEOREM CallIsSafe == Spec => Call!Spec
<1>1. Init => Call!Init
  BY DEF Init, Nothing, Call!Init, Call!Nothing
<1>2. IInv /\ [Next]_vars => [Call!Next]_(Call!vars)
  <2> SUFFICES ASSUME IInv, [Next]_vars PROVE [Call!Next]_(Call!vars)
    OBVIOUS
  <2>1. CASE UNCHANGED vars
    BY <2>1 DEF vars, Call!vars
  <2>2. CASE cancel \/ time_passes
    BY <2>2 DEF cancel, time_passes, Call!Next, Call!Cancel, Call!Expire
  <2>3. CASE spawn \/ exit \/ terminate_child
    BY <2>3, RunRefines
  <2>4. CASE refuse \/ terminate_refused
    BY <2>4, RefuseRefines DEF Call!Next
  <2>5. CASE collect
    BY <2>5, AnswerRefines
  <2>6. CASE \/ (\E s \in Streams : write(s) \/ Reader(s) \/ read_error(s) \/ drain(s))
             \/ fork \/ helper_exit
             \/ try_wait \/ look_at_token \/ look_at_clock \/ wait
    BY <2>6, HiddenStep
  <2> QED
    BY <2>1, <2>2, <2>3, <2>4, <2>5, <2>6 DEF Next, Command, Supervisor
<1> QED
  BY <1>1, <1>2, Inductive, PTL DEF Spec, Call!Spec
=============================================================================
