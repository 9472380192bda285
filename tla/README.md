# A formal model of rust-agent-runtime

`rust-agent-runtime` runs coding tasks: an agent loop asks a model what to do,
runs allowlisted commands and edits files in a workspace, and keeps the state of
every task in an append-only `events.log`. This directory holds TLA+ models of
its logic, the TLC configurations that check them, and theorems with proofs that
TLAPS checks. Paths are relative to the root of the repository, `src/` in the map
of `PROJECT.json`; line numbers are in `PROJECT.json` too.

    tlc -config MCRuntime.cfg MCRuntime.tla      # any run of the table below
    tlapm RuntimeProofs.tla                      # any module of proofs

## 1. The system

| Part | Code | State it keeps | Operations |
|---|---|---|---|
| Event log format | `src/event_log.rs` | none: lines of `events.log` | write and parse a state line, a trace line, a tool line |
| Task runtime | `src/lib.rs` | `tasks`, `traces`, `tool_traces` of a handle; the file | `open`, `inspect`, `enqueue`, `start`, `complete`, `cancel`, `retry`, `run_next(_cancellable)`, `record_execution`, `record_tool_trace` |
| Agent worker | `src/worker.rs` | none of its own | `run_agent_task`: enqueue, start, loop with tool traces, one terminal state |
| Command line | `src/main.rs` | one token and one monitor thread per `run` | `enqueue`, `cancel`, `run`, `status`, `watch`, `demo` |
| Agent loop | `src/agent/mod.rs` | steps, observations, changed files | read, replace text, run tool, verify, finish |
| Verification debt | `src/agent/verification.rs` | one flag | open on an edit, clear on a passing verification |
| Executor | `src/executor.rs` | a child, two pipes, two reader threads, a token | `run_cancellable` |
| Workspace editor | `src/workspace.rs` | the files and their temporary files | read, `replace_once` |
| Providers | `src/provider/*.rs` | a child process per decision (AGY) | `decide_cancellable`, streaming with a watchdog |
| Observations | `src/agent/observation.rs` | none | truncate at a character boundary |
| Evaluation harness | `evaluation/run_fresh_evaluation.sh` | a row per attempt and per family, three flags | baseline, attempts with a wall limit, acceptance test, exit status |
| Demo | `src/demo.rs`, `src/provider/mock.rs` | a scripted provider, the steps of its story | two worker runs with a retry in between |
| Controls, installers | `evaluation/run_controls.sh`, `install.*` | files | sequential scripts |

How they interact. A `run` process opens one handle, starts a monitor thread
that replays the log every 100 ms and signals the token when it reads
`cancelled`, and calls `run_agent_task`. That drives the agent loop, which calls
the provider, the executor and the workspace editor; a callback writes one tool
line per command. The report or the error of the loop decides the terminal
state, appended last. `enqueue` and `cancel` are other processes over the same
file. Nobody takes a lock: what a handle knows is what it loaded. The evaluation
harness is outside of all this: it starts `run`, waits for its exit status, and
reads the state of the task back from the log.

What is hard to test there, each at its line in `hazards` of `PROJECT.json`:

* crashes between two durable steps, or between two writes of one line;
* handles that have become stale, and two processes that append at once;
* an append that fails after part or all of the line was written, under a handle that
  goes on;
* a cancellation that races with the end of a command, of the loop, of the steps;
* a verification made stale by a later edit or command;
* pipes that fill, readers that wait for a descendant, output at its cap;
* a deadline or a cancellation that meets a provider stream at its last line;
* an edit that stops half-way, or meets another writer of the same file;
* a signal that is refused, or sent to a group that is gone;
* an attempt that starts on what an earlier one, or a command it left running, has
  made of the workspace;
* a worker that outlives the wall limit of its evaluation, and a process that outlives
  the worker.

What makes each part correct:

* *runtime*: memory is a replay of the log; terminal states stay; an attempt is
  counted once and its command runs at most once; what a trace decided is not
  undone; nothing stays running; and a line that could not be written costs no other
  task any of this;
* *append path*: what was synchronized is read back; a kill costs one line;
* *worker*: a success has something behind it, and no tool trace missing;
* *several processes*: a cancellation reaches the worker; an agent is stopped by
  nothing else; only a stale handle writes over an outcome;
* *agent loop*: in whatever attempt, no success without every verification command
  passed since the last edit; the loop ends;
* *executor*: the answer says how the program ended and why it was killed; it
  returns; a kill reaches the whole group; output is whole or marked truncated;
* *demo*: the story it tells is what the task's log and the provider's requests say;
* *provider*: a decision is taken from a whole stream only; an aborted call leaves
  nobody behind and signals nobody afterwards;
* *workspace*: a reader sees a whole file; a failed edit costs no later one;
* *evaluation*: what is reported of a family is one attempt, and what was tested is
  what its worker left, as far as nobody has written there since.

## 2. The modules

| Module | Models | Built on |
|---|---|---|
| `EventLog` | tasks, traces, executions, and the rules that choose a state from a trace or an execution; constant-level | |
| `TaskLifecycle` | what the runtime promises about one task: the abstract specification | `EventLog` |
| `Runtime` | one handle at a time over one log: opening, recovery, every operation, `run_next`, `run_agent_task`, crashes, failed appends | `EventLog`; implements `TaskLifecycle` |
| `EventBytes` | the log as the writes it is made of, the replay that parses them, kills between two writes, several writers | `EventLog` |
| `SharedLog` | one task, several processes without a lock: workers with monitors, cancel and enqueue commands | `EventLog` |
| `AgentLoop` | the loop, the debt, the verification commands, the final state the worker gives, over retries and killed workers | `EventLog` |
| `Demo` | the demo as a client of the worker, with the scripted provider | `AgentLoop`, every step of which it restricts |
| `SupervisedCall` | what a supervised call promises its caller: the abstract specification | `EventLog` |
| `Executor` | one supervised call, of a command or of the planning provider: supervisor, two readers, child, descendant | `EventLog`; implements `SupervisedCall` |
| `ProviderStream` | one streaming AGY call: reader thread, watchdog, the child and its group | |
| `WorkspaceEditor` | `replace_once` and `read` as file-system steps, by several editors, with failing writes and kills | |
| `Evaluation` | the harness, one worker at a time and the subshell around it | |
| `RuntimeProofs`, `EventBytesProofs`, `SharedLogProofs`, `AgentLoopProofs` (with the demo), `ExecutorProofs`, `ProviderStreamProofs`, `WorkspaceEditorProofs`, `EvaluationProofs` | theorems | the module named |
| `MC...` | the modules TLC is run on; the values of the constants are in the `.cfg` files | the module named |

The modules meet at two interfaces, both defined in `EventLog`. A *task* is what
`Runtime`, `EventBytes` and `SharedLog` append and replay. An *execution* (did it
exit with 0, did it time out, was it cancelled, never both) is what `Executor`
returns (`Answer` of `SupervisedCall` takes only a member of that set, so `CallSpec`
checks it) and what `Runtime` and `AgentLoop` take as an arbitrary input; that a
cancelled one needs a set token is `Answer` there and `Runs` here. `AgentLoop` shows what a report means; `Runtime` takes the
report as an arbitrary result and asks what is recorded.

An action keeps the name of the function it models. A definition introduced by
`(A slip: ...)` is a plausible wrong version of the one after it. No action uses
it. It can be put in the place of the right one to see the property fail that
guards against it; `mutants` in `PROJECT.json` pairs them up, one for every
property of a passing run.

### Runtime

`tasks` and `traces` are the maps of the open handle; `pc` and `frame` are the
position and the locals of the call in progress. The log is held as what a replay
of it yields for a decision: `log[id]` is the last state line and the last trace line
(`apply_line` overwrites, and recovery looks at the last trace only). One action is
one durable step: `record` appends, synchronizes and updates the memory.

An append may fail at any of its writes, or at the sync. `append(id, reading, part)`
says what each part of a line does to the file. The file then ends in an unfinished
line, `tail`: too little to be read ("scrap"), read already but not if anything
is glued to it ("loose": `running<tab>1` becomes `running<tab>1x`), or read whatever
follows ("firm": a state line up to its third tab). The next append is glued to it
and is not read, and a loose line is not read any more either; `tail.was` is what the
replay yields again. `Spoilt` are the tasks of these two lines.

A failed append leaves the call at once, and every caller in the repository then drops
the handle (`Drop`); `failed` also lets it live on, since the library does not close
it: the memory is as before, the call is over. In one place the code itself
goes on: a tool trace that fails leaves the handle open and the agent loop running,
`frame.fault` is the `trace_error` of `run_agent_task`, and the terminal line of the task is
glued to whatever the trace has left. `run_agent_task` then returns with the memory
at `failed` and the log at `running`, until the next `open` recovers the task.

Two history variables say where that bites. `astray`: the tasks of which the open handle
could not write a line, or glued one to an unfinished line. `doubtful`: those that were ever
astray, or of which a killed or reopened process's line was spoilt. The properties
exclude these tasks, by name and no others, as follows. `MemoryIsReplay` and
`CallLeavesNothingRunning`, which speak of the handle, exclude `astray` ones;
`NoAttemptRunsTwice`, `SucceededIsBacked`, `TracedAttemptSettles` and the refinement, which
speak of the log over many handles, exclude `doubtful` ones;
`InterruptedIsResolved` excludes none. What is excluded does go wrong in the code: of a start
line that was glued to a torn one nothing is read, so after a crash the same attempt
number is used for a second command.

`start`, `complete` and `record_execution` are public, but only `run_next` and
`run_agent_task` call them outside tests, and they are modelled as parts of those
calls. Tool lines are read back apart and by no decision, so they only appear as what
others are glued to. `runs`, `agentOk` and `lostTool` are history variables too: no
action reads them.

### EventBytes

`writeln!` on an unbuffered `File` issues one write per piece of its format
string. A piece is an element of `file`; `append` writes one; `acknowledge` is the
return of `sync_data`. A kill may come between any two writes. What
a power failure may do to unsynchronized data is left out. So is a failed write
inside a line: the text it leaves is that of a kill at the same place, and the
handle that goes on after it, with a memory no replay would give it, is part of
`Runtime`. The nine last fields of a trace line are two, since only their presence and form matter.

The code splits the text into lines and fields and applies one line after the
other, a fold. `EventBytes` says of a text at which places a line begins that parses
(`parse_state`, `parse_trace`) and that of the lines of a task the last one counts
(`TaskIn`, `TraceIn`): a statement about places, which proofs can use.
`MCEventBytes` keeps the fold (`Split`, `apply_line`, `ReplayOfLines`), and
`ReplayAssumption` has TLC compare the two on every text of two lines torn anywhere and
a whole one. A line whose id is glued to a torn piece, which the code takes for a task
nobody asked for, counts as torn here.

Ids are words that are no numbers. A task called `7` could end a torn line: after
`x<tab>running<tab>`, the next line begins with `7` and `x` reads as running in its
seventh attempt. A task called `trace` is left out too: the trace line of a task
called `running`, torn after its attempt, is a state line of that task.

### SharedLog

One task id and whole-line appends. `memory[p]` is what the handle of process `p`
holds; `record` appends from it whatever the log has become. `result` abstracts
`AgentLoop`: a worker with a set token may be interrupted or may come to another
end first. `struck` is history.

### AgentLoop and Demo

A file's content is one of a few versions. The provider answers with any action
at any step; a command exits with any execution and may write to the workspace,
since it is a program of its own. `final` is the state the worker records.
`good`, `vouched`, `tampered` and `killed` are history.

A task has several attempts. `retry` is `Runtime::retry` and the next
`run_agent_task`, with the same token or a new one. `restart` is a worker killed at
any point: recovery requeues an agent's task, since tool traces do not settle it,
and the next worker runs it. Both call `begin_again`: the new loop has no
changed files and no debt, but the workspace is what it was. A command
of the killed worker is in a process group of its own and may go on writing:
`orphan`, `orphan_write`, `orphan_exit`.

`Demo` restricts `AgentLoop` by a script: `decide` takes the next action as
`MockProvider` does, and the observations and traces its conditions look at are
kept. `story` is chosen at the start: the demo, or any other client, which may
do all that `AgentLoop` allows; the properties of `AgentLoop` are checked under
both. Commands are not scripted, so the demo may break instead of telling
its story: no `cargo`, tests that pass at once, a verification that fails.

### SupervisedCall and Executor

The loop that supervises a child is in the code twice, line for line: in
`run_cancellable`, and in `run_bounded` of the AGY provider, which then
classifies the output (`decide`). `caller` tells them apart. `SupervisedCall` says what
both promise: an answer about a program that has ended, flagged as killed if
and only for a reason that exists, a decision only from a program that ended well by
itself, and that the call comes back. `CallSpec` is the refinement, with the
program mapped to the child and its status.

Output is counted in bytes. The command writes, forks and exits as it likes, or
never. Time is a flag that is raised at any moment. `GraceOver` is the 500 ms
`recv_timeout` on a reader: with `PromptReaders` a reader that has something to
read, or end of file to see, is assumed to get there within the grace.
`terminate_refused` is macOS, which refuses to signal a group whose only process
is the zombie of the child: the error is returned and the child left unreaped.
A reader whose `read` fails ends as it would at the end of the output (`read_error`):
nothing marks what it has not read, so `OutputIsWholeOrMarked` excludes that stream.
Descendants that leave the process group are left out, and so are errors of
`try_wait` and `wait`, which a child nobody else reaps does not give. The provider drops the
readers' truncation flags; an envelope that was cut does not parse, which is
the failed branch of `decide`.

### ProviderStream

A line is a text delta of some bytes, a result that says success or error, or no
JSON at all; it may also be left half written. Deltas count against the output
cap before they are delivered (`Delivered`). A line that does not parse and a
delta that exceeds the cap end the reading (`give_up`), terminate the group and
are what is reported; otherwise the token, the clock and the status of the
child are looked at in this order (`Verdict`). The watchdog polls token
and clock in parallel and kills the group. So a deadline that passes after a complete
stream is reported as a timeout, and a provider killed inside a line as malformed;
neither is a success, which is what `OkIsWholeStream` asks.

If macOS refuses the signal after an exceeded cap (`terminate_refused`), the call
returns at once, past the wait, the flag and the join. The watchdog then outlives
the call, but the child it would signal is unreaped, so the number is still its
own. `NoStraySignal` says so: once the call has returned, no signal is sent to a
group whose child has been reaped. Inside the call one window is left open by the
code, and by the property: between the reaping and the store to `finished`.

### WorkspaceEditor

A file's content is the set of edits applied to it, which tells a lost edit from
a kept one. A temporary name is the stem of the file and the process id, so two
files `a.rs` and `a.toml` share it, and so does a later process that is given
the same id. An edit reads, checks, creates the temporary file exclusively, writes,
synchronizes, copies the permissions and renames; any of these may fail, and a kill
may come between two. Somebody else may write the file in one step. The check of
the size and the read are one step, nobody else touches permissions or temporary
files, and power failures are left out.

### Evaluation

`src/` is a function from files to contents; those in `Repaired` pass the canonical
test. A worker edits, records its terminal state and exits, or does any
of it never; the subshell writes its status in two steps (the file appears, then its
content). `give_up` is the wall limit, which may be over after any look at the file:
`kill -9` goes to the subshell, so the worker lives on. Beside it, a process that a
command left behind writes in the workspace whenever it likes, also when the worker
has ended (`edit`; `rewritten` is the history of these writes). `copy` takes one file after the
other, so a copy may be of no state the workspace ever had; `compare` looks at
`lib.rs` only, as the script's `cmp` does. A difference there is counted as a
failure of the harness; one in another file goes unnoticed, and
`PassIsOneAttempt` promises what is left: a file that was tested is the one the worker
left unless it was written after the worker had ended. One file is written, and
copied, at once. The next attempt has new directories, so the model
forgets the earlier worker, and its descendants, there.

## 3. What is checked

| Run | Bounds | Distinct states | Shows |
|---|---|---|---|
| `runtime` | 2 ids, retry limit 2, 2 attempts, 2 crashes or failed appends, 3 outcomes of a command | 1,645,195 | `MemoryIsReplay`, `NoAttemptRunsTwice`, `SucceededIsBacked`, `CallLeavesNothingRunning`, `TracedAttemptSettles`, `InterruptedIsResolved`, and that `Runtime` implements `TaskLifecycle` |
| `event_bytes` | 2 ids, 1 writer, 4 lines, 2 kills | 313,170 | `ReadersSeeOldOrNew`, `DamageIsOneLinePerKill` |
| `torn_line` | 1 writer, 3 lines, 1 kill | | `SynchronizedIsReplayed` is violated |
| `shared` | 2 workers, 1 canceller, 1 enqueuer, 5 processes started in all | 1,467,590 | `TokenIsFresh`, `SeenTerminalIsFinal`, `CancelReachesWorker` |
| `stale_handle` | 1 worker, 1 canceller | | `TerminalIsFinal` is violated |
| `enqueue_reconciles` | 1 worker, 1 enqueuer | | `OnlyWorkersReconcile` is violated |
| `agent_loop` | 2 files of 2 versions, 5 steps, 2 verification commands, retry limit 2, 3 attempts | 377,860 | `SuccessIsVerified`, `SuccessWasSeenPassing`, `KilledNeverSucceeds`, `StoryIsTrue`, `Settles` |
| `tool_writes` | 1 file, 4 steps, 1 command, 1 attempt | | `VerifiedAfterAnyChange` is violated |
| `executor` | output cap 2, pipe 2, 4 bytes written to each stream | 290,048 | `KillLeavesNobody`, `OutputIsWholeOrMarked`, `NeverStuckOnOutput`, and that `Executor` implements `SupervisedCall` (`CallSpec`) |
| `provider_stream` | output cap 2, deltas of 1 or 2, pipe of 2 lines, 3 lines | 75,398 | `OkIsWholeStream`, `AbortLeavesNobody`, `NoStraySignal`, `EndsWhenTold` |
| `workspace_editor` | 2 files with one stem, 2 editors, 2 process ids, size cap 2, 4 edits, 2 mishaps | 1,811,664 | `FilesAreWhole`, `ExactUnlessRaced`, `RefusedOnlyAfterMishap` |
| `evaluation` | 2 families, 2 attempts, 2 files of 2 contents | 3,707,394 | `PassIsOneAttempt`, `RowIsOneAttempt`, `ExitStatusIsSummary`, `Ends` |

Every passing run checks the type invariant of its module too.

Why these bounds. *Runtime*: two ids, because recovery and `next_queued` treat
several; two attempts, because a stale trace needs an earlier attempt; two
mishaps, because the second may come while recovery repairs the first, or glue its own
part to the one the first has left; the outcomes are those with status 0 (passed, timed out,
cancelled), since `trace_state` and `run_verdict` could only disagree there.
*EventBytes*: four lines are enqueue, start, a trace or outcome and one line more
after a kill; with two kills the second line may be torn as well. *SharedLog*:
two workers, so that one can requeue what the other runs, and one
more process to restart. *AgentLoop*: five steps are edit, verify, edit again,
verify, finish, and one more than the demo's retry needs; two commands distinguish
all from the last; three attempts are one that fails, one that is killed and one
that succeeds, in any order. *Executor*: a pipe
that fills before the cap is reached, and two bytes more than the cap.
*ProviderStream*: the cap is met exactly, passed by one delta, and passed by two;
three lines allow a line after the result. *WorkspaceEditor*: two editors share a
file or only a temporary name; two mishaps leave a temporary file and then meet a
process that was given the same id again. *Evaluation*: two attempts can be
opposite, two families can differ; `lib.rs` and one other file, so that a change the comparison
does not see is there; one `src/` passes the test, one hangs it, two fail it.
The theorems of section 5 do not depend on these bounds.

`CHECK_DEADLOCK FALSE` appears where the system stops: the loop has settled, the
command has returned, a bound is exhausted. `Runtime` never stops and deadlock is
checked.

### Fairness

* `Runtime`: weak fairness of the steps inside a call (the executor and the
  provider have timeouts and the loop a step limit; tool traces are not required to
  happen), of `Close` (a process that is not in a call comes to its end), and strong
  fairness of `open`:
  somebody opens the log again. Without the last an interrupted task stays as it
  is, which is what the code does: there is no daemon. None of the safety
  properties uses fairness.
* `SharedLog`: weak fairness of `poll` only, the 100 ms loop of the monitor.
* `AgentLoop`: weak fairness of the loop, since provider and executor answer
  within their timeouts (`CallSpec` is that promise). Kills are bounded: a worker
  killed in every attempt for ever would never settle its task. `DemoSpec` adds
  the demo's own steps, which are those of one thread.
* `Executor`: the supervisor's thread and the two readers run, and time passes.
  Nothing is assumed of the command.
* `ProviderStream`: the two threads of the call run. Nothing is assumed of the
  child or of the clock: `EndsWhenTold` speaks of calls whose token is set or whose
  deadline has passed.
* `Evaluation`: the shells run, and a loop that keeps polling meets the wall limit;
  nothing is assumed of the worker or of what it leaves behind. The canonical test ends, except on the sources named in `Hanging`.
* `WorkspaceEditor` has no liveness property.

## 4. Disagreements between code and documents

Four runs refute a sentence of the repository; `findings` quotes it and gives the line.

* `torn_line`: a line is torn by a kill, the next record is glued to it, and a
  transition that was synchronized and acknowledged is lost to every reader. Two
  writers that interleave their pieces (set `Writers` to two processes and
  `CrashBound` to 0) have the same effect with no crash.
* `stale_handle`: a terminal state is overwritten by a process that loaded the
  log before it was written.
* `enqueue_reconciles`: `enqueue` of any id opens with recovery and
  requeues the task a live worker is running.
* `tool_writes`: a command that changes a file after the verification passed
  does not reopen the debt.

Where a property fails in general, the neighbouring one that does hold is checked
and proved: `SeenTerminalIsFinal` next to
`TerminalIsFinal`, `ReadersSeeOldOrNew` next to `SynchronizedIsReplayed`,
`SuccessWasSeenPassing` next to `VerifiedAfterAnyChange`.

Observations that are checked as what does hold, or not at all. A cancellation
that kills the command of the last step ends in the step limit, and the task is
recorded as failed; what holds is that it is never recorded as succeeded
(`KilledNeverSucceeds`). A task whose tool trace fails part-way is `failed` to the process that ran it and
`running` to every other one until somebody opens the log (`CallLeavesNothingRunning`,
`InterruptedIsResolved`). Two editors of one file can lose an edit, since nothing
is locked between the read and the rename; `ExactUnlessRaced` says that it takes
another writer in that window. A temporary file left by a killed process refuses the
edits of that stem by a later process with the same id, until somebody removes it
(`RefusedOnlyAfterMishap`). A replacement of a text by itself counts as a change, so a
task may succeed with its sources as they were. The evaluation's canonical test
has no time limit, its wall limit leaves the worker alive, its comparison sees only
`lib.rs`, and a row it cannot write
goes unnoticed although its header promises exit status 2.

## 5. What is proved

For every value of the constants that satisfies the assumptions named in the
modules (ids are positive numbers, bounds are natural numbers, process sets are
disjoint):

* **`RuntimeProofs`**: all safety properties of run `runtime`, and the refinement
  `Spec => LifecycleSpec`. The invariants the run checks are not inductive: they
  say what is in the log, and are kept only because of where the call stands. The
  strengthening `IInv` adds `CallInv` (between two calls nothing runs; inside
  one, exactly the task of the frame runs), `DataInv` (for every id: no trace, lost
  trace or execution beyond its attempt count, and a success is covered) and
  `AttemptInv` (what the attempt of the frame has in the log at each position of
  the call), each for the tasks that are not astray (`CallInv`) or not doubtful (`DataInv`, `AttemptInv`). `AppendFacts` says once what an append, whole
  or in part, does to the reading of every id outside the two lines it meets; `WrittenFacts`
  and `FailedFacts` are the two ways a handle comes out of it; `RecordKeeps` shows that writing
  a covered line keeps the rest, and every action is then one lemma. `VerdictsAgree` is
  the fact that makes recovery sound: the state recovery reads from a trace is the state
  `run_next` would have recorded. In the refinement, an append that spoils a line is the
  lifecycle's `Lose`, and any other step moves at most one task, as the lifecycle does.
* **`SharedLogProofs`**: `TokenIsFresh` and `SeenTerminalIsFinal` for any number
  of processes. `AtWork`: a worker inside `run_agent_task` has a memory that says
  `running`; `Heard`: a cancellation the worker can see was in its memory at the
  start or was written after it loaded; `OffIsClean`: token and monitor die with the
  process. Every append is then by a live process whose memory is not terminal.
* **`EventBytesProofs`**: the types of everything that is read, for any number of
  writers; `ReadersSeeOldOrNew` and `DamageIsOneLinePerKill` under `[]OneAtATime`: no
  two lines are being written at once, however many handles there are. Both fail
  without it (two writers, no kill: TLC finds a state that is not seen, and a
  line that is lost). `OneWriterIsSafe`: with one writer, as in the run, there is
  nothing to assume. `WrittenAs`: how many pieces of the line in progress
  are in the file, and whether it began a line there. `SeenInv`: with the last
  line of the file or without it, an old or a new state is read. `DamageInv` counts
  the torn lines and the one that the next newline will end. `LineCompleted` is the
  delicate fact: the only piece that can make a line read as a state line is the third
  field of a line that was not glued to anything. A torn line is one that is not
  read, so the count is not of the bytes that are lost.
* **`AgentLoopProofs`**: `SuccessIsVerified`, `SuccessWasSeenPassing` (as long as
  nobody tampered with a file after the verification) and `KilledNeverSucceeds`
  for any files, step limit, number of commands and of attempts, with retries,
  killed workers and orphaned commands. `GateInv`: a closed debt after
  an edit means all commands are in `good`; `VerifyInv` carries the verdict through
  a verification in progress; `EndInv` ties the recorded state to the report;
  `KilledInv` says that a killed command leaves the token set and, from then on,
  only ends that are not a success. For the demo, `DemoIsAClient` maps every step
  to one of the loop, so that all of this holds of it, and `StoryAlwaysTrue` follows
  from `FirstInv` and `SecondInv`, which tie the script, the requests made and
  the traces kept to the attempt. `EditAssumption` says that the demo's replacement
  is not the text it replaces.
* **`ExecutorProofs`**: bytes are conserved per stream, written = captured + in the
  pipe + the one that proved there was more (`StreamInv`). `FlagInv`: a flag is only
  set for a reason that exists; `GroupInv`: once a killed or abandoned group is gone, it stays
  gone; `DrainInv`: what was collected is what the reader had. From them
  `KillLeavesNobody` for every output limit, pipe and command, and
  `OutputIsWholeOrMarked` under the hypothesis `PromptReaders`, with which it is
  also checked. `CallIsSafe` is `Spec => Call!Spec`, the safety part of the refinement
  `CallSpec`, step by step.
* **`ProviderStreamProofs`**: `OkIsWholeStream`, `AbortLeavesNobody` and the action
  property `NoStraySignal`, for any cap, any number of lines and any deltas. `BytesInv`:
  from the bytes read, the lines in the pipe lead to the bytes written, one partial sum
  each; the sums are quantified existentially, since a recursive sum would need induction.
  `LimitInv`, `EndInv`, `GroupInv` and `ReturnInv` say what is true of limit, pipe, child
  and watchdog once the loop is left, and `VerdictInv` that the answer goes by it.
* **`WorkspaceEditorProofs`**: `FilesAreWhole`, `RefusedOnlyAfterMishap` and the action
  property `ExactUnlessRaced`, for any files, stems, editors and process ids. `PidInv`:
  running editors differ in their ids, so `TempInv` can say what each has in its own temporary
  file at each step; `OwnerInv`: without a mishap every temporary file has an owner at
  work; `ExactInv`: what is about to be renamed is the file plus one edit, unless raced.
* **`EvaluationProofs`**: `PassIsOneAttempt`, `RowIsOneAttempt`, `ExitStatusIsSummary`,
  for any number of families and attempts and any files. `WorkerInv`: what a status of 0 and
  its file mean; `RecordInv`: a clean record is still true of the worker, so the files
  copied are the ones it left, but for the rewritten ones; `PlaceInv`, `AttemptsInv` and `ResultInv` count the rows and carry
  the last attempt into the result of the family; `FlagsInv` ties the two flags of
  the exit status to the rows.

Only model-checked: liveness (`InterruptedIsResolved`, `CancelReachesWorker`,
`Settles`, the return of a call in `CallSpec`, `NeverStuckOnOutput`, `EndsWhenTold`,
`Ends`), which is outside what the prover does; and that the reading of a text in
`EventBytes` is the code's fold (`ReplayAssumption`), which would need induction over data.

## 6. What is not modelled

* Observation truncation, JSON decoding and prompts: pure conversions; no control
  of the loop depends on them, and a decision is arbitrary in `AgentLoop`.
* Reading the environment, `status` and `watch`, which only print, and the rendering
  of the demo. The macOS sandbox profile is text for another program.
* The naming of the evaluation's run directory: two harnesses started with one run
  id at once may share it (`mkdir -p`); `Evaluation` models one harness.
* The evaluation's controls are fixed scenarios of the harness. Installers are
  sequential and keep no state of the runtime. Examples and tests are callers.
* A power failure that loses unsynchronized data.

## 7. Plan

Done: the core (`EventLog`, `TaskLifecycle`, `Runtime`), the append path
(`EventBytes`), several processes (`SharedLog`), the loop over several attempts
(`AgentLoop`) and the demo on it (`Demo`), the supervisor for both of its callers with
its contract (`SupervisedCall`, `Executor`), the provider's stream
(`ProviderStream`), the edits (`WorkspaceEditor`), the harness (`Evaluation`); and for each
of them the theorems that state its safety properties.

Next, in this order:

1. `EventBytesProofs`: what still holds when two processes do write at once. A
   newline ends every line that was begun, so the torn lines could be bounded by the kills
   and the overlaps together.
2. The steps from `Runtime` to `EventBytes`: that `log` and `tail` of the one are what a
   replay of the other yields.
3. The fairness arguments behind the liveness properties, as far as they are
   safety: each loop's variant, stated as an action property.
