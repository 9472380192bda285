-------------------------------- MODULE Demo --------------------------------
(***************************************************************************)
(* The demo (src/src/demo.rs, walkthrough): a client of the worker that    *)
(* plays two scripts through the scripted provider                         *)
(* (src/src/provider/mock.rs), one attempt each with a retry in between,   *)
(* and tells a story of six steps from what the provider was asked and     *)
(* from the traces of the task.  Every step of it is a step of AgentLoop.  *)
(*                                                                         *)
(* The client is chosen at the start: the demo, or any client with any     *)
(* provider.  Commands are what AgentLoop lets them be, so the demo may    *)
(* also break: no cargo, tests that pass at once, an edit that is refused. *)
(* A failing append and the layout of the screen are left out.             *)
(***************************************************************************)
EXTENDS AgentLoop, Sequences

\* The replacement is not the text it replaces.
ASSUME EditAssumption == 1 \in Versions

VARIABLES
  story,     \* "none" for any other client, "untold", "told" or "broken"
  script,    \* MockProvider.script
  asked,     \* the action it handed out last
  seen,      \* the last observation
  requests,  \* requests[i]: the last observation in the i-th request
  traces     \* the task's tool traces, each with its attempt

demo == <<story, script, asked, seen, requests, traces>>
demoVars == <<vars, demo>>

\* A test, then a program that is not on the allowlist.
FirstScript == <<"test", "curl">>

SecondScript == <<"edit", "finish", "verify", "finish">>

DemoInit ==
  /\ Init
  /\ story \in {"none", "untold"}
  /\ script = FirstScript /\ asked = "none" /\ seen = "none"
  /\ requests = <<>> /\ traces = <<>>

-----------------------------------------------------------------------------
\* MockProvider::decide: the request is kept, the script's next action taken.
decide(action) ==
  /\ script # <<>> /\ Head(script) = action
  /\ requests' = Append(requests, seen) /\ asked' = action /\ script' = Tail(script)
  /\ UNCHANGED <<story, traces>>

exhausted ==
  /\ script = <<>> /\ requests' = Append(requests, seen)
  /\ provider_error /\ outcome' = "error"
  /\ UNCHANGED <<story, script, asked, seen, traces>>

\* The expected text occurs in the original file only.
edit ==
  /\ decide("edit")
  /\ \/ \E f \in Files : content[f] = 0 /\ replace_text(f, 1) /\ seen' = "replaced"
     \/ observe /\ seen' = "failed"

\* record_tool_trace and the observation of one command.
trace(e) ==
  /\ traces' = Append(traces, [attempt |-> attempt, passed |-> command_passed(e)])
  /\ seen' = "output"
  /\ UNCHANGED <<story, script, asked, requests>>

ScriptStep ==
  \/ \E action \in {"test", "curl"} : decide(action) /\ request_tool /\ UNCHANGED seen
  \/ edit
  \/ decide("finish") /\ finish /\ seen' = IF pc' = "head" THEN "rejected" ELSE seen
  \/ decide("verify") /\ request_verify /\ UNCHANGED seen
  \/ exhausted
  \/ head /\ UNCHANGED demo
  \/ \E e \in Execution : ((asked = "test" /\ run_tool(e)) \/ verify(e)) /\ trace(e)
  \/ executor_error /\ UNCHANGED demo
  \/ settle /\ UNCHANGED demo

-----------------------------------------------------------------------------
\* (A slip: the trace of the first attempt is not looked at.)
FirstAsExpected_untraced == final = "failed" /\ outcome = "error" /\ Len(requests) = 2

\* The test ran and failed, and the second program was refused.
FirstAsExpected ==
  /\ final = "failed" /\ outcome = "error" /\ Len(requests) = 2
  /\ ~traces[1].passed

SecondAsExpected ==
  /\ final = "succeeded" /\ Len(requests) = 4
  /\ requests[2] = "replaced" /\ requests[3] = "rejected"
  /\ Len(traces) = 1 + Commands /\ \A i \in 2..Len(traces) : traces[i].passed

\* What the first attempt left is checked before the task is repeated.
check_first ==
  /\ pc = "settled" /\ attempt = 1 /\ FirstAsExpected
  /\ retry
  /\ script' = SecondScript /\ asked' = "none" /\ seen' = "none" /\ requests' = <<>>
  /\ UNCHANGED <<story, traces>>

check_second ==
  /\ pc = "settled" /\ attempt = 2 /\ SecondAsExpected
  /\ story' = "told"
  /\ UNCHANGED <<vars, script, asked, seen, requests, traces>>

\* A condition does not hold; the first one may also be that the test ended
\* with an exit status, and was not killed by a signal.
give_up ==
  /\ pc = "settled" /\ (attempt = 2 => ~SecondAsExpected)
  /\ story' = "broken"
  /\ UNCHANGED <<vars, script, asked, seen, requests, traces>>

Walkthrough == story = "untold" /\ (ScriptStep \/ check_first \/ check_second \/ give_up)

DemoNext == (story = "none" /\ Next /\ UNCHANGED demo) \/ Walkthrough

DemoSpec ==
  DemoInit /\ [][DemoNext]_demoVars /\ WF_vars(LoopStep) /\ WF_demoVars(Walkthrough)

-----------------------------------------------------------------------------
\* "Outcomes taken from real worker runs and observations": the demo tells its
\* story only if the tests failed before the edit, the refused program never
\* ran, the finish before the verification was rejected, and the success was
\* recorded in the second attempt, every verification command having passed
\* since the edit.  No trace of one attempt is taken for one of the other.
StoryIsTrue ==
  story = "told" =>
    /\ final = "succeeded" /\ attempt = 2 /\ changed # {} /\ good = 1..Commands
    /\ traces = [i \in 1..(1 + Commands) |->
                   [attempt |-> IF i = 1 THEN 1 ELSE 2, passed |-> i # 1]]
    /\ requests = <<"none", "replaced", "rejected", "output">>
=============================================================================
