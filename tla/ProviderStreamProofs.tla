------------------------ MODULE ProviderStreamProofs ------------------------
(***************************************************************************)
(* The streaming call for every output limit, delta size and pipe          *)
(* capacity: a stream is complete or it fails, an aborted one leaves       *)
(* nobody, and no signal goes astray.                                      *)
(***************************************************************************)
EXTENDS ProviderStream, TLAPS

Ended == {"wait", "finish", "join", "returned"}

\* What was read was delivered, but for the delta that broke the limit; the
\* loop is left with a reason, or at the end of the stream.
LimitInv ==
  /\ emitted <= MaxOutput => delivered = emitted
  /\ emitted > MaxOutput => failure = "exceeded"
  /\ pc = "read" => failure = "none"
  /\ pc = "terminate" => failure # "none"

\* From the bytes read, the lines still in the pipe lead to the bytes written,
\* one partial sum each: no byte between the child and the reader is lost.
Sums(lines_left, from, to) ==
  \E sum \in [0..Len(lines_left) -> 0..to] :
    /\ sum[0] = from /\ sum[Len(lines_left)] = to
    /\ \A i \in 1..Len(lines_left) : sum[i] = sum[i - 1] + lines_left[i].bytes

BytesInv == Sums(pipe, emitted, produced)

\* The loop was left at the end of the stream, which stays its end.
EndInv ==
  pc \in Ended /\ failure = "none" => pipe = <<>> /\ ~half /\ ~WriteEndOpen

\* The loop was left with a reason: the group was killed, or there was no
\* group any more, and nobody can bring one back.
GroupInv ==
  pc \in Ended /\ failure # "none" => child \in {"zombie", "reaped"} /\ helper = "none"

\* The call returns after the child was reaped and the watchdog joined, or
\* with the refusal of its signal.
ReturnInv ==
  /\ pc \in {"finish", "join"} => child = "reaped"
  /\ pc = "returned" => \/ outcome = "refused" /\ child = "zombie" /\ failure # "none"
                        \/ outcome # "refused" /\ child = "reaped" /\ watchdog = "done"
  /\ pc # "returned" => outcome = "none"

\* The answer is the verdict on what had happened when it was given.
VerdictInv ==
  /\ outcome \in {"exceeded", "malformed"} => failure = outcome
  /\ outcome = "ok" => failure = "none" /\ succeeded /\ status = "zero"

IInv ==
  /\ TypeOK /\ LimitInv /\ BytesInv /\ EndInv /\ GroupInv
  /\ ReturnInv /\ VerdictInv

USE StreamAssumption DEF progress, reading, watching, outside, group, stream, Ended

-----------------------------------------------------------------------------
(***************************************************************************)
(* Lines and partial sums.                                                 *)
(***************************************************************************)
\* A line has some bytes, and only a delta has more than none.
LEMMA LineBytes ==
  ASSUME NEW line \in Line
  PROVE  /\ line.bytes \in Nat
         /\ line.kind \in {"delta", "success", "error", "malformed"}
         /\ line.kind # "delta" => line.bytes = 0
<1>1. CASE line \in [kind : {"delta"}, bytes : DeltaSizes]
  <2>1. line.kind = "delta" /\ line.bytes \in DeltaSizes
    BY <1>1
  <2> QED
    BY <2>1
<1>2. CASE line \in [kind : {"success", "error", "malformed"}, bytes : {0}]
  <2>1. line.kind \in {"success", "error", "malformed"} /\ line.bytes = 0
    BY <1>2
  <2> QED
    BY <2>1
<1> QED
  BY <1>1, <1>2 DEF Line

\* What a line that is taken does to the reading thread, whatever it says.
LEMMA Taken ==
  ASSUME TypeOK, LimitInv, pc = "read", NEW line \in Line, take(line)
  PROVE  /\ emitted' = emitted + line.bytes /\ emitted' \in Nat
         /\ delivered' \in 0..MaxOutput /\ succeeded' \in BOOLEAN
         /\ LimitInv'
         /\ \/ pc' = "read" /\ failure' = "none"
            \/ pc' = "terminate" /\ failure' \in {"exceeded", "malformed"}
<1>1. /\ emitted \in Nat /\ delivered \in 0..MaxOutput /\ emitted <= MaxOutput
      /\ delivered = emitted /\ failure = "none"
  BY DEF TypeOK, LimitInv
<1>2. CASE line.kind = "delta"
  <2>1. /\ emitted' = emitted + line.bytes /\ delivered' = Delivered(emitted')
        /\ IF emitted' > MaxOutput THEN give_up("exceeded") ELSE UNCHANGED <<failure, pc>>
        /\ succeeded' = succeeded
    BY <1>2 DEF take
  <2> QED
    BY <1>1, <2>1, LineBytes DEF TypeOK, LimitInv, Delivered, give_up
<1>3. CASE line.kind = "malformed"
  BY <1>1, <1>3, LineBytes DEF take, TypeOK, LimitInv, give_up
<1>4. CASE line.kind \in {"success", "error"}
  <2>1. succeeded' \in BOOLEAN /\ UNCHANGED <<failure, emitted, delivered>> /\ pc' = "read"
    BY <1>4 DEF take, AfterResult
  <2> QED
    BY <1>1, <1>4, <2>1, LineBytes DEF LimitInv
<1> QED
  BY <1>2, <1>3, <1>4, LineBytes

\* A line that is written makes the sums one longer.
LEMMA SumWritten ==
  ASSUME NEW p \in Seq(Line), NEW from \in Nat, NEW to \in Nat, NEW line \in Line,
         Sums(p, from, to)
  PROVE  Sums(Append(p, line), from, to + line.bytes)
<1>1. PICK sum \in [0..Len(p) -> 0..to] :
        /\ sum[0] = from /\ sum[Len(p)] = to
        /\ \A i \in 1..Len(p) : sum[i] = sum[i - 1] + p[i].bytes
  BY DEF Sums
<1> DEFINE q == Append(p, line)
           total == to + line.bytes
           longer == [i \in 0..(Len(p) + 1) |-> IF i <= Len(p) THEN sum[i] ELSE total]
<1>2. /\ line.bytes \in Nat /\ Len(p) \in Nat
      /\ Len(q) = Len(p) + 1 /\ q[Len(p) + 1] = line
      /\ \A i \in 1..Len(p) : q[i] = p[i]
  BY LineBytes
<1> HIDE DEF q
<1>3. longer \in [0..Len(q) -> 0..total]
  BY <1>2
<1>4. longer[0] = from /\ longer[Len(q)] = total
  BY <1>1, <1>2
<1>5. ASSUME NEW i \in 1..Len(q) PROVE longer[i] = longer[i - 1] + q[i].bytes
  <2>1. CASE i <= Len(p)
    <3>1. i \in 1..Len(p) /\ i \in 0..(Len(p) + 1) /\ i - 1 \in 0..(Len(p) + 1)
      BY <1>2, <2>1
    <3>2. longer[i] = sum[i] /\ longer[i - 1] = sum[i - 1]
      BY <1>2, <2>1, <3>1
    <3> QED
      BY <1>1, <1>2, <3>1, <3>2
  <2>2. CASE i = Len(p) + 1
    BY <1>1, <1>2, <2>2
  <2> QED
    BY <1>2, <2>1, <2>2
<1> HIDE DEF longer, total
<1>6. Sums(q, from, total)
  BY <1>3, <1>4, <1>5 DEF Sums
<1> QED
  BY <1>6 DEF q, total

\* A line that is read takes the first of the sums away.
LEMMA SumRead ==
  ASSUME NEW p \in Seq(Line), NEW from \in Nat, NEW to \in Nat, p # <<>>,
         Sums(p, from, to)
  PROVE  Sums(Tail(p), from + Head(p).bytes, to)
<1>1. PICK sum \in [0..Len(p) -> 0..to] :
        /\ sum[0] = from /\ sum[Len(p)] = to
        /\ \A i \in 1..Len(p) : sum[i] = sum[i - 1] + p[i].bytes
  BY DEF Sums
<1> DEFINE q == Tail(p)
           start == from + Head(p).bytes
           shorter == [i \in 0..(Len(p) - 1) |-> sum[i + 1]]
<1>2. /\ Len(p) \in Nat /\ Len(p) > 0 /\ Len(q) = Len(p) - 1
      /\ \A i \in 1..Len(q) : q[i] = p[i + 1]
      /\ Head(p) = p[1]
  OBVIOUS
<1> HIDE DEF q
<1>3. shorter \in [0..Len(q) -> 0..to]
  BY <1>2
<1>4. shorter[0] = start /\ shorter[Len(q)] = to
  <2>1. sum[1] = sum[0] + p[1].bytes
    BY <1>1, <1>2
  <2> QED
    BY <1>1, <1>2, <2>1
<1>5. ASSUME NEW i \in 1..Len(q) PROVE shorter[i] = shorter[i - 1] + q[i].bytes
  <2>1. i + 1 \in 1..Len(p) /\ q[i] = p[i + 1]
    BY <1>2
  <2>2. shorter[i] = sum[i + 1] /\ shorter[i - 1] = sum[i]
    BY <1>2
  <2>3. sum[i + 1] = sum[(i + 1) - 1] + p[i + 1].bytes
    BY <1>1, <2>1
  <2> QED
    BY <1>2, <2>1, <2>2, <2>3
<1> HIDE DEF shorter, start
<1>6. Sums(q, start, to)
  BY <1>3, <1>4, <1>5 DEF Sums
<1> QED
  BY <1>6 DEF q, start

\* With no line left, everything written has been read.
LEMMA SumEmpty ==
  ASSUME NEW from \in Nat, NEW to \in Nat
  PROVE  Sums(<<>>, from, to) <=> from = to
<1>1. Len(<<>>) = 0 /\ 0..Len(<<>>) = {0} /\ 1..Len(<<>>) = {}
  OBVIOUS
<1>2. Sums(<<>>, from, to) => from = to
  BY <1>1 DEF Sums
<1>3. ASSUME from = to PROVE Sums(<<>>, from, to)
  <2> DEFINE sum == [i \in 0..Len(<<>>) |-> to]
  <2>1. sum \in [0..Len(<<>>) -> 0..to] /\ sum[0] = from /\ sum[Len(<<>>)] = to
    BY <1>1, <1>3
  <2>2. \A i \in 1..Len(<<>>) : sum[i] = sum[i - 1] + <<>>[i].bytes
    BY <1>1
  <2> HIDE DEF sum
  <2> QED
    BY <2>1, <2>2 DEF Sums
<1> QED
  BY <1>2, <1>3

-----------------------------------------------------------------------------
(***************************************************************************)
(* The inductive invariant, one lemma for each group of actions.           *)
(***************************************************************************)
\* The child and its descendant do what they like, but write only while the
\* stream is read and they hold its output.
LEMMA ChildStep ==
  ASSUME IInv, Child
  PROVE  IInv'
<1>1. CASE \E line \in Line : write(line)
  <2>1. PICK line \in Line : write(line)
    BY <1>1
  <2>2. TypeOK'
    <3>1. pipe' \in Seq(Line) /\ produced' \in Nat /\ lines' \in 0..WriteBound
      BY <2>1, LineBytes DEF IInv, TypeOK, write
    <3>2. ({succeeded, finished, token, expired, half} \subseteq BOOLEAN)'
      BY <2>1 DEF IInv, TypeOK, write
    <3> QED
      BY <2>1, <3>1, <3>2 DEF IInv, TypeOK, write
  <2>3. BytesInv'
    BY <2>1, SumWritten DEF IInv, TypeOK, BytesInv, write
  <2>4. LimitInv' /\ EndInv' /\ GroupInv' /\ ReturnInv' /\ VerdictInv'
    BY <2>1 DEF IInv, LimitInv, EndInv, GroupInv, ReturnInv, VerdictInv, write
  <2> QED
    BY <2>2, <2>3, <2>4 DEF IInv
<1>2. CASE write_half \/ fork \/ close_output \/ exit \/ helper_exit
  <2>1. TypeOK'
    <3>1. ({succeeded, finished, token, expired, half} \subseteq BOOLEAN)'
      BY <1>2 DEF IInv, TypeOK, write_half, fork, close_output, exit, helper_exit
    <3> QED
      BY <1>2, <3>1 DEF IInv, TypeOK, write_half, fork, close_output, exit, helper_exit
  <2>2. LimitInv' /\ BytesInv'
    BY <1>2 DEF IInv, LimitInv, BytesInv, write_half, fork, close_output, exit, helper_exit
  <2>3. EndInv' /\ GroupInv' /\ ReturnInv' /\ VerdictInv'
    BY <1>2 DEF IInv, TypeOK, EndInv, GroupInv, ReturnInv, VerdictInv, WriteEndOpen,
                write_half, fork, close_output, exit, helper_exit
  <2> QED
    BY <2>1, <2>2, <2>3 DEF IInv
<1> QED
  BY <1>1, <1>2 DEF Child

\* The reading thread takes one line after the other, whole or unfinished.
LEMMA ReadStep ==
  ASSUME IInv, read \/ read_half
  PROVE  IInv'
<1>1. PICK line \in Line :
        /\ take(line)
        /\ \/ read /\ line = Head(pipe)
           \/ read_half /\ produced' = produced + line.bytes
  BY DEF IInv, TypeOK, read, read_half
<1>2. /\ pc = "read" /\ UNCHANGED <<outcome, watching, outside, group, lines>>
      /\ failure = "none" /\ outcome = "none"
  BY DEF IInv, LimitInv, ReturnInv, read, read_half
<1>3. /\ emitted' = emitted + line.bytes /\ emitted' \in Nat
      /\ delivered' \in 0..MaxOutput /\ succeeded' \in BOOLEAN
      /\ LimitInv'
      /\ \/ pc' = "read" /\ failure' = "none"
         \/ pc' = "terminate" /\ failure' \in {"exceeded", "malformed"}
  BY <1>1, <1>2, Taken DEF IInv
<1>4. pipe' \in Seq(Line) /\ half' \in BOOLEAN /\ produced' \in Nat
  <2>1. CASE read
    BY <2>1 DEF IInv, TypeOK, read
  <2>2. CASE read_half /\ produced' = produced + line.bytes
    <3>1. pipe' = pipe /\ half' = FALSE
      BY <2>2 DEF read_half
    <3>2. produced' \in Nat
      BY <2>2, LineBytes DEF IInv, TypeOK
    <3> QED
      BY <3>1, <3>2 DEF IInv, TypeOK
  <2> QED
    BY <1>1, <2>1, <2>2
<1>5. TypeOK'
  <2>1. ({succeeded, finished, token, expired, half} \subseteq BOOLEAN)'
    BY <1>2, <1>3, <1>4 DEF IInv, TypeOK
  <2> QED
    BY <1>2, <1>3, <1>4, <2>1 DEF IInv, TypeOK
<1>6. BytesInv'
  <2>1. CASE read
    <3>1. line = Head(pipe) /\ pipe' = Tail(pipe) /\ pipe # <<>> /\ produced' = produced
      BY <1>1, <2>1 DEF read, read_half
    <3> QED
      BY <1>3, <3>1, SumRead DEF IInv, TypeOK, BytesInv
  <2>2. CASE read_half
    <3>1. pipe = <<>> /\ pipe' = <<>> /\ produced' = produced + line.bytes
      BY <1>1, <2>2 DEF read, read_half
    <3>2. emitted = produced
      BY <3>1, SumEmpty DEF IInv, TypeOK, BytesInv
    <3>3. emitted' = produced' /\ emitted' \in Nat
      BY <1>3, <3>1, <3>2
    <3> QED
      BY <3>1, <3>3, SumEmpty DEF BytesInv
  <2> QED
    BY <1>1, <2>1, <2>2
<1>7. EndInv' /\ GroupInv' /\ ReturnInv' /\ VerdictInv'
  BY <1>2, <1>3 DEF IInv, EndInv, GroupInv, ReturnInv, VerdictInv
<1> QED
  BY <1>3, <1>5, <1>6, <1>7 DEF IInv

\* The reading thread after the stream: at its end, or giving up on it.
LEMMA LeaveStep ==
  ASSUME IInv, end_of_file \/ terminate_child \/ terminate_refused \/ wait \/ finish \/ join
  PROVE  IInv'
<1>1. TypeOK'
  <2>1. ({succeeded, finished, token, expired, half} \subseteq BOOLEAN)'
    BY DEF IInv, TypeOK, end_of_file, terminate_child, terminate_refused, wait, finish, join
  <2>2. outcome' \in {"none", "ok", "failed", "exceeded", "malformed", "interrupted",
                      "timed_out", "refused"}
    BY DEF IInv, TypeOK, end_of_file, terminate_child, terminate_refused, wait, finish, join,
           Verdict
  <2> QED
    BY <2>1, <2>2 DEF IInv, TypeOK, end_of_file, terminate_child, terminate_refused, wait,
                      finish, join, KillGroup, KillChild
<1>2. LimitInv' /\ BytesInv'
  BY DEF IInv, TypeOK, LimitInv, BytesInv, end_of_file, terminate_child, terminate_refused, wait,
         finish, join
<1>3. EndInv' /\ GroupInv'
  BY DEF IInv, TypeOK, LimitInv, EndInv, GroupInv, WriteEndOpen, end_of_file, terminate_child,
         terminate_refused, wait, finish, join, KillGroup, KillChild
<1>4. ReturnInv'
  BY DEF IInv, TypeOK, LimitInv, ReturnInv, end_of_file, terminate_child,
         terminate_refused, wait, finish, join, Joined, Verdict
<1>5. VerdictInv'
  BY DEF IInv, TypeOK, ReturnInv, VerdictInv, end_of_file, terminate_child,
         terminate_refused, wait, finish, join, Verdict, KillGroup, KillChild
<1> QED
  BY <1>1, <1>2, <1>3, <1>4, <1>5 DEF IInv

\* The watchdog, the token and the clock.  Past the wait a kill changes nothing
\* but the descendant.
LEMMA WatchStep ==
  ASSUME IInv, Watchdog \/ cancel \/ time_passes
  PROVE  IInv'
<1>1. TypeOK'
  <2>1. ({succeeded, finished, token, expired, half} \subseteq BOOLEAN)'
    BY DEF IInv, TypeOK, Watchdog, look_at_finished, look_at_token_and_clock, kill, cancel,
           time_passes
  <2> QED
    BY <2>1 DEF IInv, TypeOK, Watchdog, look_at_finished, look_at_token_and_clock, kill, cancel,
                time_passes, KillGroup, KillChild
<1>2. LimitInv' /\ BytesInv'
  BY DEF IInv, LimitInv, BytesInv, Watchdog, look_at_finished, look_at_token_and_clock, kill,
         cancel, time_passes
<1>3. EndInv' /\ GroupInv'
  BY DEF IInv, TypeOK, EndInv, GroupInv, WriteEndOpen, Watchdog, look_at_finished,
         look_at_token_and_clock, kill, cancel, time_passes, KillGroup, KillChild
<1>4. ReturnInv' /\ VerdictInv'
  BY DEF IInv, TypeOK, ReturnInv, VerdictInv, Watchdog, look_at_finished,
         look_at_token_and_clock, kill, cancel, time_passes, KillGroup, KillChild
<1> QED
  BY <1>1, <1>2, <1>3, <1>4 DEF IInv

-----------------------------------------------------------------------------
\* The inductive invariant of a streaming call.
THEOREM Inductive == Spec => []IInv
<1>1. Init => IInv
  <2> SUFFICES ASSUME Init PROVE IInv
    OBVIOUS
  <2>1. TypeOK
    <3>1. {succeeded, finished, token, expired, half} \subseteq BOOLEAN
      BY DEF Init
    <3> QED
      BY <3>1 DEF Init, TypeOK
  <2>2. BytesInv
    BY SumEmpty DEF Init, BytesInv
  <2>3. LimitInv /\ EndInv /\ GroupInv /\ ReturnInv /\ VerdictInv
    BY DEF Init, LimitInv, EndInv, GroupInv, ReturnInv, VerdictInv
  <2> QED
    BY <2>1, <2>2, <2>3 DEF IInv
<1>2. IInv /\ [Next]_vars => IInv'
  <2> SUFFICES ASSUME IInv, [Next]_vars PROVE IInv'
    OBVIOUS
  <2>1. CASE UNCHANGED vars
    BY <2>1 DEF vars, IInv, TypeOK, LimitInv, BytesInv, EndInv, GroupInv, ReturnInv, VerdictInv,
                WriteEndOpen
  <2>2. CASE Next
    BY <2>2, ChildStep, ReadStep, LeaveStep, WatchStep DEF Next, Reader
  <2> QED
    BY <2>1, <2>2
<1> QED
  BY <1>1, <1>2, PTL DEF Spec

\* Every variable of a streaming call has its type: nothing past the limit is
\* ever delivered.
THEOREM TypeCorrect == Spec => []TypeOK
<1>1. IInv => TypeOK
  BY DEF IInv
<1> QED
  BY <1>1, Inductive, PTL

\* A call that returns the text returns all of it: every byte of every delta
\* the child wrote was delivered, and the child ended well by itself.
THEOREM OkIsWhole == Spec => []OkIsWholeStream
<1>1. IInv => OkIsWholeStream
  <2> SUFFICES ASSUME IInv, outcome = "ok"
               PROVE  delivered = produced /\ succeeded /\ status = "zero"
    BY DEF OkIsWholeStream
  <2>1. pc = "returned" /\ failure = "none" /\ succeeded /\ status = "zero"
    BY DEF IInv, ReturnInv, VerdictInv
  <2>2. pipe = <<>> /\ Sums(<<>>, emitted, produced) /\ emitted \in Nat /\ produced \in Nat
    BY <2>1 DEF IInv, TypeOK, EndInv, BytesInv
  <2>3. delivered = emitted
    BY <2>1 DEF IInv, TypeOK, LimitInv
  <2>4. emitted = produced
    BY <2>2, SumEmpty
  <2> QED
    BY <2>1, <2>3, <2>4
<1> QED
  BY <1>1, Inductive, PTL

\* A stream the reader gave up on leaves no process of the provider behind
\* that still runs, even if its group could not be signalled any more.
THEOREM AbortIsClean == Spec => []AbortLeavesNobody
<1>1. IInv => AbortLeavesNobody
  BY DEF IInv, TypeOK, GroupInv, ReturnInv, VerdictInv, AbortLeavesNobody
<1> QED
  BY <1>1, Inductive, PTL

\* The watchdog never signals a group whose number the system may have given
\* to somebody else: it was joined before the call returned.
THEOREM SignalsHitTheirGroup == Spec => NoStraySignal
<1>1. IInv => (pc = "returned" /\ child = "reaped" => ~kill)
  BY DEF IInv, ReturnInv, kill
<1> QED
  BY <1>1, Inductive, PTL DEF Spec, NoStraySignal
=============================================================================
