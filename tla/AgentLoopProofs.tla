--------------------------- MODULE AgentLoopProofs ---------------------------
(***************************************************************************)
(* The verification gate for every workspace, step limit and number of     *)
(* configured commands: no task succeeds on an edit that the configured    *)
(* commands have not passed since.  And the demo, which is a client of the *)
(* loop: the story it tells has happened.                                  *)
(***************************************************************************)
EXTENDS Demo, TLAPS

\* While commands run, those before the current one have passed if the
\* verdict so far is a pass.
VerifyInv ==
  pc = "verify" => /\ command \in 1..Commands
                   /\ passed => 1..(command - 1) \subseteq good

\* A closed debt after an edit means every configured command has passed.
GateInv == changed # {} /\ ~debt => Commands > 0 /\ good = 1..Commands

\* A report is only made, and a success only recorded, with the debt closed.
EndInv ==
  /\ outcome = "report" => ~debt /\ pc \in {"ended", "settled"}
  /\ final = "succeeded" => pc = "settled" /\ outcome = "report" /\ changed # {}
  /\ pc \notin {"ended", "settled"} => outcome = "none"

\* A closed debt after an edit means that the files are as the last passing
\* verification left them, but for what a command has written since.  Without
\* an edit it means nothing: a retry starts on whatever was left to it.
SeenInv == changed # {} /\ ~tampered /\ ~debt => content = vouched

\* Once a command was killed the token stays signalled, so that the loop comes
\* to its end at the next head, whichever of its two checks ends it.
KilledInv ==
  killed => token /\ pc \notin {"decide", "tool"} /\ outcome # "report"

IInv == TypeOK /\ VerifyInv /\ GateInv /\ EndInv /\ SeenInv /\ KilledInv

USE LoopAssumption DEF Workspace, workspace, gate, ending, history, end, NextStep

-----------------------------------------------------------------------------
\* The history and the debt after one verification command.
LEMMA VerifyStep ==
  ASSUME IInv, NEW e \in Execution, verify(e)
  PROVE  IInv'
<1>1. command \in 1..Commands /\ Commands \in Nat /\ good \subseteq 1..Commands
  BY DEF IInv, TypeOK, VerifyInv, verify
<1>2. CASE command < Commands
  <2>1. /\ command' = command + 1 /\ pc' = pc /\ debt' = debt /\ vouched' = vouched
        /\ good \subseteq good' /\ good' \subseteq 1..Commands
        /\ passed' => passed /\ command \in good'
    BY <1>1, <1>2 DEF verify, Verdict, command_passed
  <2>2. 1..(command' - 1) = 1..(command - 1) \cup {command}
    BY <1>1, <2>1
  <2>3. VerifyInv'
    BY <1>1, <1>2, <2>1, <2>2 DEF IInv, VerifyInv, verify
  <2>4. GateInv'
    BY <1>1, <2>1 DEF IInv, GateInv, verify
  <2>5. EndInv' /\ SeenInv' /\ KilledInv'
    BY <2>1 DEF IInv, EndInv, SeenInv, KilledInv, verify, Runs
  <2>6. TypeOK'
    BY <1>1, <1>2, <2>1 DEF IInv, TypeOK, verify, Verdict, Runs, command_passed, Execution
  <2> QED
    BY <2>3, <2>4, <2>5, <2>6 DEF IInv
<1>3. CASE ~(command < Commands)
  <2>1. /\ command = Commands /\ command' = command /\ pc' = "head"
        /\ debt' = (debt /\ ~passed')
        /\ good \subseteq good' /\ good' \subseteq 1..Commands
        /\ passed' => passed /\ command \in good'
    <3>1. debt' = (debt /\ ~passed') /\ command' = command /\ pc' = "head"
      BY <1>3 DEF verify
    <3>2. /\ good \subseteq good' /\ good' \subseteq 1..Commands
          /\ passed' => passed /\ command \in good'
      BY <1>1, <1>3 DEF verify, Verdict, command_passed
    <3> QED
      BY <1>1, <1>3, <3>1, <3>2
  <2>2. passed' => good' = 1..Commands
    <3>1. 1..Commands = 1..(command - 1) \cup {command}
      BY <1>1, <2>1
    <3> QED
      BY <2>1, <3>1 DEF IInv, VerifyInv, verify
  <2>3. GateInv'
    <3>1. CASE ~debt
      BY <1>1, <2>1, <3>1 DEF IInv, GateInv, verify
    <3>2. CASE debt
      <4>1. ~debt' => good' = 1..Commands
        BY <2>1, <2>2, <3>2
      <4> QED
        BY <1>1, <4>1 DEF GateInv
    <3> QED
      BY <3>1, <3>2
  <2>4. VerifyInv' /\ EndInv'
    BY <2>1 DEF IInv, VerifyInv, EndInv, verify
  <2>5. SeenInv'
    BY <2>1 DEF IInv, SeenInv, verify, Runs
  <2>6. KilledInv'
    BY <2>1 DEF IInv, EndInv, KilledInv, verify, Runs
  <2>7. TypeOK'
    BY <1>1, <2>1 DEF IInv, TypeOK, verify, Verdict, Runs, command_passed, Execution
  <2> QED
    BY <2>3, <2>4, <2>5, <2>6, <2>7 DEF IInv
<1> QED
  BY <1>2, <1>3

\* The steps that leave the workspace, the debt and the history alone.
LEMMA QuietStep ==
  ASSUME IInv,
         \/ cancel \/ head \/ provider_error \/ finish \/ observe \/ request_tool \/ request_verify \/ executor_error
  PROVE  IInv'
<1>1. TypeOK'
  <2>1. CASE head
    <3>1. step' \in 0..MaxSteps
      BY <2>1 DEF IInv, TypeOK, head, AtLimit, NextIteration
    <3> QED
      BY <2>1, <3>1 DEF IInv, TypeOK, head
  <2>2. CASE request_verify
    <3>1. command' \in 1..(Commands + 1) /\ passed' = TRUE
      BY <2>2 DEF request_verify
    <3> QED
      BY <2>2, <3>1 DEF IInv, TypeOK, request_verify
  <2>3. CASE cancel \/ provider_error \/ executor_error
    <3>1. CASE cancel
      BY <3>1 DEF IInv, TypeOK, cancel
    <3>2. CASE provider_error
      BY <3>2 DEF IInv, TypeOK, provider_error
    <3>3. CASE executor_error
      BY <3>3 DEF IInv, TypeOK, executor_error
    <3> QED
      BY <2>3, <3>1, <3>2, <3>3
  <2>4. CASE finish
    BY <2>4 DEF IInv, TypeOK, finish
  <2>5. CASE observe \/ request_tool
    BY <2>5 DEF IInv, TypeOK, observe, request_tool
  <2> QED
    BY <2>1, <2>2, <2>3, <2>4, <2>5
<1>2. VerifyInv'
  BY DEF IInv, TypeOK, VerifyInv, cancel, head, provider_error, finish, Rejected,
         AtLimit, NextIteration, Interrupted, observe, request_tool, request_verify, executor_error
<1>3. GateInv' /\ SeenInv'
  BY DEF IInv, GateInv, SeenInv, cancel, head, provider_error, finish, Rejected,
         AtLimit, NextIteration, Interrupted, observe, request_tool, request_verify, executor_error
<1>4. EndInv' /\ KilledInv'
  BY DEF IInv, EndInv, KilledInv, cancel, head, provider_error, finish, Rejected,
         AtLimit, NextIteration, Interrupted, observe, request_tool, request_verify, executor_error
<1> QED
  BY <1>1, <1>2, <1>3, <1>4 DEF IInv

\* An edit opens the debt; a tool run may write but never touches the debt.
LEMMA WriteStep ==
  ASSUME IInv, (\E e \in Execution : run_tool(e)) \/ \E f \in Files, v \in Versions : replace_text(f, v)
  PROVE  IInv'
<1>1. TypeOK'
  <2>1. CASE \E e \in Execution : run_tool(e)
    BY <2>1 DEF IInv, TypeOK, run_tool, Runs, Execution
  <2>2. CASE \E f \in Files, v \in Versions : replace_text(f, v)
    BY <2>2 DEF IInv, TypeOK, replace_text, DebtAfter
  <2> QED
    BY <2>1, <2>2
<1>2. VerifyInv' /\ GateInv' /\ EndInv' /\ SeenInv'
  BY DEF IInv, VerifyInv, GateInv, EndInv, SeenInv, run_tool, Runs, replace_text, DebtAfter
<1>3. KilledInv'
  <2>1. CASE \E e \in Execution : run_tool(e)
    <3>1. PICK e \in Execution : run_tool(e)
      BY <2>1
    <3>2. killed' => token' /\ pc' = "head"
      BY <3>1 DEF IInv, KilledInv, run_tool, Runs
    <3>3. outcome' = "none"
      BY <3>1 DEF IInv, EndInv, run_tool
    <3> QED
      BY <3>2, <3>3 DEF KilledInv
  <2>2. CASE \E f \in Files, v \in Versions : replace_text(f, v)
    BY <2>2 DEF IInv, KilledInv, replace_text, DebtAfter
  <2> QED
    BY <2>1, <2>2
<1> QED
  BY <1>1, <1>2, <1>3 DEF IInv

\* The worker records a success only for a report with an edit.
LEMMA SettleStep ==
  ASSUME IInv, settle
  PROVE  IInv'
<1>1. TypeOK'
  BY DEF IInv, TypeOK, settle, State
<1>2. VerifyInv' /\ GateInv' /\ EndInv' /\ SeenInv' /\ KilledInv'
  BY DEF IInv, VerifyInv, GateInv, EndInv, SeenInv, KilledInv, settle
<1> QED
  BY <1>1, <1>2 DEF IInv

\* A new attempt forgets the edits, and with them what an open debt stood for.
LEMMA AttemptStep ==
  ASSUME IInv, retry \/ restart
  PROVE  IInv'
<1>1. begin_again
  BY DEF retry, restart
<1>2. attempt' \in 1..AttemptBound /\ step' \in 0..MaxSteps
  BY <1>1 DEF IInv, TypeOK, begin_again
<1>3. token' \in BOOLEAN /\ orphan' \in BOOLEAN
  BY DEF IInv, TypeOK, retry, restart
<1>4. TypeOK'
  BY <1>1, <1>2, <1>3 DEF IInv, TypeOK, begin_again, State
<1>5. VerifyInv' /\ GateInv' /\ EndInv' /\ SeenInv' /\ KilledInv'
  BY <1>1 DEF VerifyInv, GateInv, EndInv, SeenInv, KilledInv, begin_again
<1> QED
  BY <1>4, <1>5 DEF IInv

\* A write of an orphaned command shows in tampered; nothing else changes.
LEMMA OrphanStep ==
  ASSUME IInv, orphan_write \/ orphan_exit
  PROVE  IInv'
<1>1. TypeOK'
  <2>1. CASE orphan_write
    BY <2>1 DEF IInv, TypeOK, orphan_write
  <2>2. CASE orphan_exit
    BY <2>2 DEF IInv, TypeOK, orphan_exit
  <2> QED
    BY <2>1, <2>2
<1>2. SeenInv'
  BY DEF IInv, TypeOK, SeenInv, orphan_write, orphan_exit
<1>3. VerifyInv' /\ GateInv' /\ EndInv' /\ KilledInv'
  BY DEF IInv, VerifyInv, GateInv, EndInv, KilledInv, orphan_write, orphan_exit
<1> QED
  BY <1>1, <1>2, <1>3 DEF IInv

-----------------------------------------------------------------------------
\* The inductive invariant holds of every behaviour.
THEOREM Inductive == Spec => []IInv
<1>1. Init => IInv
  <2> SUFFICES ASSUME Init PROVE IInv
    OBVIOUS
  <2>1. Original \in Workspace
    BY DEF Original
  <2>2. content \in Workspace /\ vouched \in Workspace
    BY <2>1 DEF Init
  <2>3. /\ step \in 0..MaxSteps /\ command \in 1..(Commands + 1)
        /\ attempt \in 1..AttemptBound
    <3>1. MaxSteps \in Nat /\ Commands \in Nat /\ AttemptBound \in Nat \ {0} /\ step = 0 /\ command = 1 /\ attempt = 1
      BY DEF Init
    <3> QED
      BY <3>1
  <2>4. /\ pc \in {"head", "decide", "tool", "verify", "ended", "settled"}
        /\ token \in BOOLEAN /\ debt \in BOOLEAN /\ passed \in BOOLEAN
        /\ killed \in BOOLEAN /\ tampered \in BOOLEAN /\ orphan \in BOOLEAN
        /\ changed \subseteq Files
        /\ outcome \in {"none", "report", "step_limit", "interrupted", "error"}
        /\ final \in State /\ good \subseteq 1..Commands
    BY DEF Init, State
  <2>5. TypeOK
    BY <2>2, <2>3, <2>4 DEF TypeOK
  <2>6. VerifyInv /\ GateInv /\ EndInv /\ SeenInv /\ KilledInv
    BY DEF Init, VerifyInv, GateInv, EndInv, SeenInv, KilledInv
  <2> QED
    BY <2>5, <2>6 DEF IInv
<1>2. IInv /\ [Next]_vars => IInv'
  <2> SUFFICES ASSUME IInv, [Next]_vars PROVE IInv'
    OBVIOUS
  <2>1. CASE \E e \in Execution : verify(e)
    BY <2>1, VerifyStep
  <2>2. CASE \/ cancel \/ head \/ provider_error \/ finish \/ observe
             \/ request_tool \/ request_verify \/ executor_error
    BY <2>2, QuietStep
  <2>3. CASE (\E e \in Execution : run_tool(e)) \/ \E f \in Files, v \in Versions : replace_text(f, v)
    BY <2>3, WriteStep
  <2>4. CASE settle
    BY <2>4, SettleStep
  <2>5. CASE retry \/ restart
    BY <2>5, AttemptStep
  <2>6. CASE orphan_write \/ orphan_exit
    BY <2>6, OrphanStep
  <2>7. CASE UNCHANGED vars
    BY <2>7 DEF IInv, TypeOK, VerifyInv, GateInv, EndInv, SeenInv, KilledInv, vars
  <2> QED
    BY <2>1, <2>2, <2>3, <2>4, <2>5, <2>6, <2>7 DEF Next, LoopStep
<1> QED
  BY <1>1, <1>2, PTL DEF Spec

\* Every variable keeps its type.
THEOREM TypeCorrect == Spec => []TypeOK
  BY Inductive, PTL DEF IInv

\* A success is an edit that every configured command has passed since.
THEOREM SuccessAlwaysVerified == Spec => []SuccessIsVerified
<1>1. IInv => SuccessIsVerified
  BY DEF IInv, EndInv, GateInv, SuccessIsVerified
<1> QED
  BY <1>1, Inductive, PTL

\* Unless a command wrote to them in between, the files of a success are as
\* the last passing verification left them.
THEOREM SuccessAlwaysSeenPassing == Spec => []SuccessWasSeenPassing
<1>1. IInv => SuccessWasSeenPassing
  BY DEF IInv, EndInv, SeenInv, SuccessWasSeenPassing
<1> QED
  BY <1>1, Inductive, PTL

\* Once the token has killed a command, the task is not recorded as succeeded.
THEOREM KilledNeverSucceeded == Spec => []KilledNeverSucceeds
<1>1. IInv => KilledNeverSucceeds
  BY DEF IInv, EndInv, KilledInv, KilledNeverSucceeds
<1> QED
  BY <1>1, Inductive, PTL

-----------------------------------------------------------------------------
(***************************************************************************)
(* The demo, for every number of verification commands, files and steps.   *)
(***************************************************************************)
HIDE DEF Workspace, workspace, gate, ending, history, end, NextStep

Seen == {"none", "replaced", "failed", "output", "rejected"}

DemoTypeOK ==
  /\ story \in {"none", "untold", "told", "broken"}
  /\ seen \in Seen /\ requests \in Seq(Seen)
  /\ traces \in Seq([attempt : Nat, passed : BOOLEAN])
  /\ asked \in {"none", "test", "curl", "edit", "finish", "verify"}

\* In the first attempt the second request is only made once the test has been
\* run and traced; the answer to it is never run.
FirstInv ==
  attempt = 1 =>
    /\ pc # "verify"
    /\ \/ script = FirstScript /\ Len(requests) = 0 /\ traces = <<>> /\ pc # "tool"
       \/ /\ script = <<"curl">> /\ Len(requests) = 1
          /\ pc = "tool" => asked = "test" /\ traces = <<>>
          /\ pc \in {"head", "decide"} => Len(traces) = 1 /\ traces[1].attempt = 1
       \/ /\ script = <<>> /\ Len(requests) = 2
          /\ pc = "tool" => asked = "curl"
          /\ pc \in {"tool", "ended", "settled"}
          /\ Len(traces) = 1 /\ traces[1].attempt = 1

\* In the second attempt the trace of the first is the failed one, and nothing
\* of the first is taken for an answer: the requests begin anew, and the last
\* finish is only asked for after an output of a verification command.
SecondInv ==
  attempt = 2 =>
    /\ Len(traces) > 0 /\ traces[1] = [attempt |-> 1, passed |-> FALSE]
    /\ \A i \in 2..Len(traces) : traces[i].attempt = 2
    /\ pc # "tool"
    /\ Len(requests) = 0 => seen = "none"
    /\ Len(requests) > 0 => requests[1] = "none"
    /\ \/ script = SecondScript /\ Len(requests) = 0 /\ pc # "verify"
       \/ script = <<"finish", "verify", "finish">> /\ Len(requests) = 1 /\ pc # "verify"
       \/ script = <<"verify", "finish">> /\ Len(requests) = 2 /\ pc # "verify"
       \/ /\ script = <<"finish">> /\ Len(requests) = 3
          /\ pc \in {"head", "decide"} /\ Commands > 0 => seen = "output"
       \/ /\ script = <<>> /\ Len(requests) >= 4 /\ pc # "verify"
          /\ Commands > 0 => requests[4] = "output"

DemoInv ==
  /\ DemoTypeOK /\ StoryIsTrue
  /\ story # "none" => attempt \in {1, 2} /\ FirstInv /\ SecondInv

USE EditAssumption
    DEF Workspace, workspace, gate, ending, history, end, NextStep, demo

-----------------------------------------------------------------------------
(***************************************************************************)
(* A client of the loop.                                                   *)
(***************************************************************************)
\* Every step of a script is a step of the loop.
LEMMA ScriptIsLoop ==
  ASSUME ScriptStep
  PROVE  LoopStep
<1>1. CASE edit
  <2>1. (\E f \in Files : replace_text(f, 1)) \/ observe
    BY <1>1 DEF edit
  <2> QED
    BY <2>1 DEF LoopStep
<1>2. CASE \/ \E action \in {"test", "curl"} : decide(action) /\ request_tool /\ UNCHANGED seen
           \/ decide("finish") /\ finish /\ seen' = IF pc' = "head" THEN "rejected" ELSE seen
           \/ decide("verify") /\ request_verify /\ UNCHANGED seen
           \/ head /\ UNCHANGED demo
           \/ executor_error /\ UNCHANGED demo
           \/ settle /\ UNCHANGED demo
  BY <1>2 DEF LoopStep
<1>3. CASE exhausted
  BY <1>3 DEF LoopStep, exhausted
<1>4. CASE \E e \in Execution : ((asked = "test" /\ run_tool(e)) \/ verify(e)) /\ trace(e)
  BY <1>4 DEF LoopStep
<1> QED
  BY <1>1, <1>2, <1>3, <1>4 DEF ScriptStep

\* The demo only ever does what a client of the worker may do.
THEOREM DemoIsAClient == DemoSpec => Spec
<1>1. DemoInit => Init
  BY DEF DemoInit
<1>2. [DemoNext]_demoVars => [Next]_vars
  <2> SUFFICES ASSUME [DemoNext]_demoVars PROVE [Next]_vars
    OBVIOUS
  <2>1. CASE UNCHANGED demoVars
    BY <2>1 DEF demoVars
  <2>2. CASE story = "none" /\ Next /\ UNCHANGED demo
    BY <2>2
  <2>3. CASE ScriptStep
    BY <2>3, ScriptIsLoop DEF Next
  <2>4. CASE check_first
    BY <2>4 DEF check_first, Next
  <2>5. CASE check_second \/ give_up
    BY <2>5 DEF check_second, give_up
  <2> QED
    BY <2>1, <2>2, <2>3, <2>4, <2>5 DEF DemoNext, Walkthrough
<1> QED
  BY <1>1, <1>2, PTL DEF DemoSpec, Spec

-----------------------------------------------------------------------------
(***************************************************************************)
(* The two scripts.                                                        *)
(***************************************************************************)
\* What taking an action off a script leaves.
LEMMA Scripts ==
  /\ FirstScript = <<"test", "curl">> /\ Head(FirstScript) = "test"
  /\ Tail(FirstScript) = <<"curl">>
  /\ Head(<<"curl">>) = "curl" /\ Tail(<<"curl">>) = <<>>
  /\ SecondScript = <<"edit", "finish", "verify", "finish">> /\ Head(SecondScript) = "edit"
  /\ Tail(SecondScript) = <<"finish", "verify", "finish">>
  /\ Head(<<"finish", "verify", "finish">>) = "finish"
  /\ Tail(<<"finish", "verify", "finish">>) = <<"verify", "finish">>
  /\ Head(<<"verify", "finish">>) = "verify" /\ Tail(<<"verify", "finish">>) = <<"finish">>
  /\ Head(<<"finish">>) = "finish" /\ Tail(<<"finish">>) = <<>>
BY DEF FirstScript, SecondScript

\* No two of the scripts and what is left of them are the same.
LEMMA ScriptsDiffer ==
  /\ Len(FirstScript) = 2 /\ Len(<<"curl">>) = 1 /\ Len(<<>>) = 0
  /\ Len(SecondScript) = 4 /\ Len(<<"finish", "verify", "finish">>) = 3
  /\ Len(<<"verify", "finish">>) = 2 /\ Len(<<"finish">>) = 1
  /\ FirstScript # <<"verify", "finish">> /\ <<"curl">> # <<"finish">>
<1>1. FirstScript[1] = "test" /\ <<"verify", "finish">>[1] = "verify"
  BY DEF FirstScript
<1>2. <<"curl">>[1] = "curl" /\ <<"finish">>[1] = "finish"
  OBVIOUS
<1> QED
  BY <1>1, <1>2 DEF FirstScript, SecondScript

\* A request is kept with the last observation, after those before it.
LEMMA Requested ==
  ASSUME DemoTypeOK, requests' = Append(requests, seen)
  PROVE  /\ requests' \in Seq(Seen) /\ Len(requests) \in Nat
         /\ Len(requests') = Len(requests) + 1
         /\ requests'[Len(requests) + 1] = seen
         /\ \A i \in 1..Len(requests) : requests'[i] = requests[i]
BY DEF DemoTypeOK

\* The first script: a test, then a program that is refused.
LEMMA FirstToolStep ==
  ASSUME IInv, DemoInv, story = "untold", NEW action \in {"test", "curl"},
         decide(action), request_tool, UNCHANGED seen
  PROVE  DemoInv'
<1>1. /\ script # <<>> /\ Head(script) = action /\ script' = Tail(script)
      /\ requests' = Append(requests, seen) /\ asked' = action
      /\ UNCHANGED <<story, traces, seen, attempt>>
      /\ pc = "decide" /\ pc' = "tool"
  BY DEF decide, request_tool
<1>2. /\ requests' \in Seq(Seen) /\ Len(requests) \in Nat
      /\ Len(requests') = Len(requests) + 1
  BY <1>1, Requested DEF DemoInv
<1>3. DemoTypeOK'
  BY <1>1, <1>2 DEF DemoInv, DemoTypeOK
<1>4. attempt = 1
  BY <1>1, Scripts DEF DemoInv, SecondInv
<1>5. FirstInv'
  <2>1. CASE script = FirstScript
    BY <1>1, <1>2, <1>4, <2>1, Scripts DEF DemoInv, FirstInv
  <2>2. CASE script = <<"curl">>
    <3>1. Len(requests) = 1 /\ Len(traces) = 1 /\ traces[1].attempt = 1
      BY <1>1, <1>4, <2>2, ScriptsDiffer DEF DemoInv, FirstInv
    <3>2. script' = <<>> /\ asked' = "curl" /\ Len(requests') = 2
      BY <1>1, <1>2, <2>2, <3>1, Scripts
    <3> QED
      BY <1>1, <3>1, <3>2 DEF FirstInv
  <2> QED
    BY <1>1, <1>4, <2>1, <2>2 DEF DemoInv, FirstInv
<1> QED
  BY <1>1, <1>3, <1>4, <1>5 DEF DemoInv, SecondInv, StoryIsTrue

\* The second script: an edit, a finish too early, the verification, a finish.
LEMMA SecondStep ==
  ASSUME IInv, DemoInv, story = "untold", NEW action \in {"edit", "finish", "verify"},
         decide(action), seen' \in Seen, attempt' = attempt,
         pc = "decide", pc' \in {"head", "ended", "verify"},
         pc' = "verify" => action = "verify",
         action = "verify" /\ pc' = "head" => Commands = 0
  PROVE  DemoInv'
<1>1. /\ script # <<>> /\ Head(script) = action /\ script' = Tail(script)
      /\ requests' = Append(requests, seen) /\ asked' = action
      /\ UNCHANGED <<story, traces>>
  BY DEF decide
<1>2. /\ requests' \in Seq(Seen) /\ Len(requests) \in Nat
      /\ Len(requests') = Len(requests) + 1
      /\ requests'[Len(requests) + 1] = seen
      /\ \A i \in 1..Len(requests) : requests'[i] = requests[i]
  BY <1>1, Requested DEF DemoInv
<1>3. DemoTypeOK'
  BY <1>1, <1>2 DEF DemoInv, DemoTypeOK
<1>4. attempt = 2
  BY <1>1, Scripts DEF DemoInv, FirstInv
<1>5. \/ script = SecondScript
      \/ script = <<"finish", "verify", "finish">> /\ Len(requests) = 1
      \/ script = <<"verify", "finish">> /\ Len(requests) = 2
      \/ script = <<"finish">>
  BY <1>1, <1>4 DEF DemoInv, SecondInv
<1>6. /\ Len(requests') > 0 /\ requests'[1] = "none"
      /\ Len(traces) > 0 /\ traces[1] = [attempt |-> 1, passed |-> FALSE]
      /\ \A i \in 2..Len(traces) : traces[i].attempt = 2
  <2>1. requests'[1] = "none" /\ Len(requests') > 0
    BY <1>2, <1>4 DEF DemoInv, SecondInv
  <2>2. /\ Len(traces) > 0 /\ traces[1] = [attempt |-> 1, passed |-> FALSE]
        /\ \A i \in 2..Len(traces) : traces[i].attempt = 2
    BY <1>4 DEF DemoInv, SecondInv
  <2> QED
    BY <2>1, <2>2
<1>7. \/ script' = <<"finish", "verify", "finish">> /\ Len(requests') = 1 /\ pc' # "verify"
      \/ script' = <<"verify", "finish">> /\ Len(requests') = 2 /\ pc' # "verify"
      \/ /\ script' = <<"finish">> /\ Len(requests') = 3
         /\ pc' \in {"head", "decide"} /\ Commands > 0 => seen' = "output"
      \/ /\ script' = <<>> /\ Len(requests') >= 4 /\ pc' # "verify"
         /\ Commands > 0 => requests'[4] = "output"
  <2>1. CASE script = SecondScript
    BY <1>1, <1>2, <1>4, <2>1, Scripts DEF DemoInv, SecondInv
  <2>2. CASE script = <<"finish", "verify", "finish">>
    <3>1. Len(requests) = 1
      BY <1>5, <2>2, ScriptsDiffer
    <3>2. script' = <<"verify", "finish">> /\ action = "finish"
      BY <1>1, <2>2, Scripts
    <3> QED
      BY <1>2, <3>1, <3>2
  <2>3. CASE script = <<"verify", "finish">>
    <3>1. Len(requests) = 2
      BY <1>5, <2>3, ScriptsDiffer
    <3>2. script' = <<"finish">> /\ action = "verify"
      BY <1>1, <2>3, Scripts
    <3> QED
      BY <1>2, <3>1, <3>2
  <2>4. CASE script = <<"finish">>
    <3>1. Len(requests) = 3 /\ (Commands > 0 => seen = "output")
      BY <1>4, <2>4, ScriptsDiffer DEF DemoInv, SecondInv
    <3>2. script' = <<>> /\ action = "finish"
      BY <1>1, <2>4, Scripts
    <3> QED
      BY <1>2, <3>1, <3>2
  <2> QED
    BY <1>5, <2>1, <2>2, <2>3, <2>4
<1>8. SecondInv'
  BY <1>1, <1>6, <1>7 DEF SecondInv
<1> QED
  BY <1>1, <1>3, <1>4, <1>8 DEF DemoInv, FirstInv, StoryIsTrue

\* A script that is exhausted ends the attempt.
LEMMA ExhaustedStep ==
  ASSUME IInv, DemoInv, story = "untold", exhausted
  PROVE  DemoInv'
<1>1. /\ requests' = Append(requests, seen) /\ script = <<>>
      /\ UNCHANGED <<story, script, asked, seen, traces, attempt>>
      /\ pc = "decide" /\ pc' = "ended"
  BY DEF exhausted, provider_error
<1>2. /\ requests' \in Seq(Seen) /\ Len(requests) \in Nat
      /\ Len(requests') = Len(requests) + 1
      /\ \A i \in 1..Len(requests) : requests'[i] = requests[i]
  BY <1>1, Requested DEF DemoInv
<1>3. DemoTypeOK'
  BY <1>1, <1>2 DEF DemoInv, DemoTypeOK
<1>4. attempt = 2
  BY <1>1, ScriptsDiffer DEF DemoInv, FirstInv
<1>5. Len(requests) >= 4 /\ (Commands > 0 => requests[4] = "output") /\ requests[1] = "none"
  BY <1>1, <1>4, ScriptsDiffer DEF DemoInv, SecondInv
<1>6. Len(requests') >= 4 /\ (Commands > 0 => requests'[4] = "output") /\ requests'[1] = "none"
  BY <1>2, <1>5
<1>7. SecondInv'
  BY <1>1, <1>2, <1>4, <1>5, <1>6 DEF DemoInv, SecondInv
<1> QED
  BY <1>1, <1>3, <1>4, <1>7 DEF DemoInv, FirstInv, StoryIsTrue

\* The steps of the loop that the client does not see.
LEMMA UnseenStep ==
  ASSUME DemoInv, story = "untold", UNCHANGED demo, head \/ executor_error \/ settle
  PROVE  DemoInv'
<1>1. /\ UNCHANGED <<story, script, asked, seen, requests, traces, attempt>>
      /\ \/ pc = "head" /\ pc' \in {"decide", "ended"}
         \/ pc \in {"tool", "verify"} /\ pc' = "ended"
         \/ pc = "ended" /\ pc' = "settled"
  BY DEF head, executor_error, settle
<1>2. DemoTypeOK' /\ StoryIsTrue'
  BY <1>1 DEF DemoInv, DemoTypeOK, StoryIsTrue
<1>3. FirstInv'
  BY <1>1 DEF DemoInv, FirstInv
<1>4. SecondInv'
  BY <1>1 DEF DemoInv, SecondInv
<1> QED
  BY <1>1, <1>2, <1>3, <1>4 DEF DemoInv

\* The test of the first attempt, or one verification command of the second.
LEMMA TraceStep ==
  ASSUME IInv, DemoInv, story = "untold", NEW e \in Execution, trace(e),
         (asked = "test" /\ run_tool(e)) \/ verify(e)
  PROVE  DemoInv'
<1> DEFINE entry == [attempt |-> attempt, passed |-> command_passed(e)]
<1>1. /\ traces' = Append(traces, entry) /\ seen' = "output"
      /\ UNCHANGED <<story, script, asked, requests, attempt>>
  BY DEF trace, run_tool, verify
<1>2. entry \in [attempt : Nat, passed : BOOLEAN] /\ entry.attempt = attempt
  BY DEF IInv, TypeOK, Execution, command_passed
<1> HIDE DEF entry
<1>3. traces \in Seq([attempt : Nat, passed : BOOLEAN])
  BY DEF DemoInv, DemoTypeOK
<1>4. /\ Len(traces) \in Nat /\ Len(traces') = Len(traces) + 1
      /\ traces' \in Seq([attempt : Nat, passed : BOOLEAN])
      /\ traces'[Len(traces) + 1] = entry
      /\ \A i \in 1..Len(traces) : traces'[i] = traces[i]
  BY <1>1, <1>2, <1>3
<1>5. DemoTypeOK'
  BY <1>1, <1>4 DEF DemoInv, DemoTypeOK, Seen
<1>6. CASE asked = "test" /\ run_tool(e)
  <2>1. pc = "tool" /\ pc' = "head" /\ attempt = 1
    BY <1>6 DEF DemoInv, SecondInv, run_tool
  <2>2. script = <<"curl">> /\ Len(requests) = 1 /\ traces = <<>>
    BY <1>6, <2>1 DEF DemoInv, FirstInv
  <2>3. Len(traces') = 1 /\ traces'[1].attempt = 1
    BY <1>2, <1>4, <2>1, <2>2
  <2>4. FirstInv'
    BY <1>1, <2>1, <2>2, <2>3 DEF FirstInv
  <2> QED
    BY <1>1, <1>5, <2>1, <2>4 DEF DemoInv, SecondInv, StoryIsTrue
<1>7. CASE verify(e)
  <2>1. pc = "verify" /\ pc' \in {"verify", "head"} /\ attempt = 2
    BY <1>7 DEF DemoInv, FirstInv, verify
  <2>2. script = <<"finish">> /\ Len(requests) = 3 /\ requests[1] = "none"
    <3>1. script = <<"finish">> /\ Len(requests) = 3
      BY <2>1 DEF DemoInv, SecondInv
    <3> QED
      BY <2>1, <3>1 DEF DemoInv, SecondInv
  <2>3. /\ Len(traces) > 0 /\ traces[1] = [attempt |-> 1, passed |-> FALSE]
        /\ \A i \in 2..Len(traces) : traces[i].attempt = 2
    BY <2>1 DEF DemoInv, SecondInv
  <2>4. /\ Len(traces') > 0 /\ traces'[1] = [attempt |-> 1, passed |-> FALSE]
        /\ \A i \in 2..Len(traces') : traces'[i].attempt = 2
    BY <1>2, <1>4, <2>1, <2>3
  <2>5. SecondInv'
    BY <1>1, <2>1, <2>2, <2>4 DEF SecondInv
  <2> QED
    BY <1>1, <1>5, <2>1, <2>5 DEF DemoInv, FirstInv, StoryIsTrue
<1> QED
  BY <1>6, <1>7

\* Every step of a script, action by action.
LEMMA ScriptStepKeeps ==
  ASSUME IInv, DemoInv, story = "untold", ScriptStep
  PROVE  DemoInv'
<1>1. ASSUME NEW action \in {"test", "curl"}, decide(action), request_tool, UNCHANGED seen
      PROVE  DemoInv'
  BY <1>1, FirstToolStep
<1>2. CASE edit
  <2>1. decide("edit")
    BY <1>2 DEF edit
  <2>2. seen' \in Seen /\ attempt' = attempt /\ pc = "decide" /\ pc' = "head"
    BY <1>2 DEF edit, replace_text, observe, Seen
  <2> QED
    BY <2>1, <2>2, SecondStep
<1>3. CASE decide("finish") /\ finish /\ seen' = IF pc' = "head" THEN "rejected" ELSE seen
  <2>1. seen' \in Seen /\ attempt' = attempt /\ pc = "decide" /\ pc' \in {"head", "ended"}
    BY <1>3 DEF finish, Seen, DemoInv, DemoTypeOK
  <2> QED
    BY <1>3, <2>1, SecondStep
<1>4. CASE decide("verify") /\ request_verify /\ UNCHANGED seen
  <2>1. /\ seen' \in Seen /\ attempt' = attempt /\ pc = "decide" /\ pc' \in {"head", "verify"}
        /\ pc' = "head" => Commands = 0
    BY <1>4 DEF request_verify, DemoInv, DemoTypeOK
  <2> QED
    BY <1>4, <2>1, SecondStep
<1>5. CASE exhausted
  BY <1>5, ExhaustedStep
<1>6. CASE (head \/ executor_error \/ settle) /\ UNCHANGED demo
  BY <1>6, UnseenStep
<1>7. ASSUME NEW e \in Execution, (asked = "test" /\ run_tool(e)) \/ verify(e), trace(e)
      PROVE  DemoInv'
  BY <1>7, TraceStep
<1> QED
  BY <1>1, <1>2, <1>3, <1>4, <1>5, <1>6, <1>7 DEF ScriptStep

\* The retry: the first attempt left one trace, of a test that failed.
LEMMA CheckFirstStep ==
  ASSUME DemoInv, story = "untold", check_first
  PROVE  DemoInv'
<1>1. /\ pc = "settled" /\ attempt = 1 /\ Len(requests) = 2 /\ ~traces[1].passed
      /\ attempt' = 2 /\ pc' = "head" /\ script' = SecondScript
      /\ asked' = "none" /\ seen' = "none" /\ requests' = <<>>
      /\ UNCHANGED <<story, traces>>
  BY DEF check_first, FirstAsExpected, retry, begin_again
<1>2. Len(traces) = 1 /\ traces[1].attempt = 1
  BY <1>1 DEF DemoInv, FirstInv
<1>3. traces[1] \in [attempt : Nat, passed : BOOLEAN]
  <2> DEFINE Entry == [attempt : Nat, passed : BOOLEAN]
  <2>1. traces \in Seq(Entry)
    BY DEF DemoInv, DemoTypeOK
  <2> HIDE DEF Entry
  <2>2. traces[1] \in Entry
    BY <1>2, <2>1
  <2> QED
    BY <2>2 DEF Entry
<1>4. traces[1] = [attempt |-> 1, passed |-> FALSE]
  BY <1>1, <1>2, <1>3
<1>5. DemoTypeOK'
  BY <1>1 DEF DemoInv, DemoTypeOK, Seen
<1>6. SecondInv'
  BY <1>1, <1>2, <1>4 DEF SecondInv
<1> QED
  BY <1>1, <1>5, <1>6 DEF DemoInv, FirstInv, StoryIsTrue

\* The story is told of a success, whose edit the loop has seen verified.
LEMMA CheckSecondStep ==
  ASSUME IInv, DemoInv, story = "untold", check_second
  PROVE  DemoInv'
<1>1. /\ pc = "settled" /\ attempt = 2 /\ final = "succeeded" /\ Len(requests) = 4
      /\ requests[2] = "replaced" /\ requests[3] = "rejected"
      /\ Len(traces) = 1 + Commands /\ \A i \in 2..Len(traces) : traces[i].passed
      /\ story' = "told" /\ UNCHANGED <<pc, attempt, final, changed, good>>
      /\ UNCHANGED <<script, asked, seen, requests, traces>>
  BY DEF check_second, SecondAsExpected, vars
<1>2. changed # {} /\ Commands > 0 /\ good = 1..Commands
  BY <1>1 DEF IInv, EndInv, GateInv
<1>3. /\ traces[1] = [attempt |-> 1, passed |-> FALSE]
      /\ \A i \in 2..Len(traces) : traces[i].attempt = 2
      /\ requests[1] = "none" /\ requests[4] = "output"
  BY <1>1, <1>2 DEF DemoInv, SecondInv
<1>4. requests = <<"none", "replaced", "rejected", "output">>
  <2>1. requests \in Seq(Seen)
    BY DEF DemoInv, DemoTypeOK
  <2> QED
    BY <1>1, <1>3, <2>1
<1>5. traces = [i \in 1..(1 + Commands) |->
                  [attempt |-> IF i = 1 THEN 1 ELSE 2, passed |-> i # 1]]
  <2>1. traces \in [1..(1 + Commands) -> [attempt : Nat, passed : BOOLEAN]]
    <3> DEFINE Entry == [attempt : Nat, passed : BOOLEAN]
    <3>1. traces \in Seq(Entry)
      BY DEF DemoInv, DemoTypeOK
    <3> HIDE DEF Entry
    <3>2. traces \in [1..(1 + Commands) -> Entry]
      BY <1>1, <3>1
    <3> QED
      BY <3>2 DEF Entry
  <2>2. ASSUME NEW i \in 1..(1 + Commands)
        PROVE  traces[i] = [attempt |-> IF i = 1 THEN 1 ELSE 2, passed |-> i # 1]
    <3>1. CASE i = 1
      BY <1>3, <3>1
    <3>2. CASE i # 1
      <4>1. traces[i].attempt = 2 /\ traces[i].passed
        BY <1>1, <1>3, <3>2
      <4>2. traces[i] \in [attempt : Nat, passed : BOOLEAN]
        BY <2>1
      <4>3. traces[i] = [attempt |-> 2, passed |-> TRUE]
        BY <4>1, <4>2
      <4> QED
        BY <3>2, <4>3
    <3> QED
      BY <3>1, <3>2
  <2> QED
    BY <2>1, <2>2
<1>6. StoryIsTrue'
  BY <1>1, <1>2, <1>4, <1>5 DEF StoryIsTrue
<1>7. DemoTypeOK' /\ FirstInv' /\ SecondInv'
  BY <1>1 DEF DemoInv, DemoTypeOK, FirstInv, SecondInv
<1> QED
  BY <1>1, <1>6, <1>7 DEF DemoInv

-----------------------------------------------------------------------------
(***************************************************************************)
(* The theorems.                                                           *)
(***************************************************************************)
\* The invariant of the demo holds beside the one of the loop.
THEOREM DemoInductive == DemoSpec => [](IInv /\ DemoInv)
<1>1. DemoInit => DemoInv
  BY DEF DemoInit, Init, DemoInv, DemoTypeOK, Seen, StoryIsTrue, FirstInv, SecondInv
<1>2. IInv /\ DemoInv /\ [DemoNext]_demoVars => DemoInv'
  <2> SUFFICES ASSUME IInv, DemoInv, [DemoNext]_demoVars PROVE DemoInv'
    OBVIOUS
  <2>1. CASE UNCHANGED demoVars
    BY <2>1 DEF demoVars, vars, DemoInv, DemoTypeOK, StoryIsTrue, FirstInv, SecondInv
  <2>2. CASE story = "none" /\ UNCHANGED demo
    BY <2>2 DEF DemoInv, DemoTypeOK, StoryIsTrue
  <2>3. CASE story = "untold" /\ ScriptStep
    BY <2>3, ScriptStepKeeps
  <2>4. CASE story = "untold" /\ check_first
    BY <2>4, CheckFirstStep
  <2>5. CASE story = "untold" /\ check_second
    BY <2>5, CheckSecondStep
  <2>6. CASE story = "untold" /\ give_up
    BY <2>6 DEF give_up, vars, DemoInv, DemoTypeOK, StoryIsTrue, FirstInv, SecondInv
  <2> QED
    BY <2>1, <2>2, <2>3, <2>4, <2>5, <2>6 DEF DemoNext, Walkthrough
<1> QED
  BY <1>1, <1>2, DemoIsAClient, Inductive, PTL DEF DemoSpec

\* The story is only told of an edit that was verified after it was made, and
\* after the failed test that the demo shows.
THEOREM StoryAlwaysTrue == DemoSpec => []StoryIsTrue
  BY DemoInductive, PTL DEF DemoInv
=============================================================================
