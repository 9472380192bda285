----------------------------- MODULE EventBytes -----------------------------
(***************************************************************************)
(* events.log as the writes it is made of.  `writeln!' on an unbuffered    *)
(* File issues one append per piece of its format string, so a line is     *)
(* not one write: a process killed between two of them leaves a torn line, *)
(* and two processes can put their pieces between each other's.  A reader  *)
(* replays whatever is there (src/src/lib.rs, load, record, record_trace,  *)
(* apply_line; src/src/event_log.rs).                                      *)
(*                                                                         *)
(* A piece is a pair <<kind, value>>: a separator, a word, a number or the *)
(* facts of an execution.  Pieces with no separator between them are one   *)
(* text, so that a field of two pieces is neither a state nor a number nor *)
(* the id of a task.  The ids here are words that are not numbers.         *)
(***************************************************************************)
EXTENDS EventLog, Sequences, FiniteSets, FiniteSetsExt

CONSTANTS Ids,         \* task ids
          Writers,     \* processes that hold a handle that may append
          CrashBound,  \* bound on kills
          LineBound    \* bound on the lines begun

\* A task that is called like a kind of line is left out.
ASSUME BytesAssumption ==
  /\ "trace" \notin Ids
  /\ CrashBound \in Nat /\ LineBound \in Nat

VARIABLES
  file,     \* the pieces appended so far
  memory,   \* memory[w]: the tasks and traces of w's handle
  stage,    \* stage[w]: "closed", "recovering", "idle" or "writing"
  job,      \* job[w]: the line w is writing, and what it still has to append
  acked,    \* history: the last state line of each id that was synchronized
  tried,    \* history: the state lines begun for the id since then
  glued,    \* history: whether that line was appended to a torn one
  crashes, lines

history == <<acked, tried, glued>>
counters == <<crashes, lines>>
vars == <<file, memory, stage, job, history, counters>>

-----------------------------------------------------------------------------
(***************************************************************************)
(* The lines, as they are written.                                         *)
(***************************************************************************)
Tab == <<"separator", "tab">>
NewLine == <<"separator", "newline">>
Word(w) == <<"word", w>>
Number(n) == <<"number", n>>

\* (A slip: the attempt count comes before the state.)
state_line_swapped(id, t) ==
  <<Word(id), Tab, Number(t.attempts), Tab, Word(t.state), Tab, Word("reason"), NewLine>>

state_line(id, t) ==
  <<Word(id), Tab, Word(t.state), Tab, Number(t.attempts), Tab, Word("reason"), NewLine>>

\* (A slip: the last field is left out.)
trace_line_short(id, tr) ==
  <<Word("trace"), Tab, Word(id), Tab, Number(tr.attempt), Tab, <<"facts", tr.exec>>, NewLine>>

\* The nine fields from the program on are two here: the facts, the duration.
trace_line(id, tr) ==
  <<Word("trace"), Tab, Word(id), Tab, Number(tr.attempt), Tab,
    <<"facts", tr.exec>>, Tab, Number(0), NewLine>>

(***************************************************************************)
(* The lines, as they are read.  A line begins at the front of the text    *)
(* and after every newline; a field of one piece ends at a separator or at *)
(* the end of the text.                                                    *)
(***************************************************************************)
Begins(s, i) == i = 1 \/ s[i - 1] = NewLine

FieldEnds(s, i) == i = Len(s) \/ s[i + 1] \in {Tab, NewLine}

\* The line that begins at i: the kind, the id, the attempt, and the rest.
parse_trace(s, i) ==
  /\ i + 8 <= Len(s) /\ FieldEnds(s, i + 8)
  /\ s[i] = Word("trace")
  /\ \A k \in {1, 3, 5, 7} : s[i + k] = Tab
  /\ s[i + 2][1] = "word" /\ s[i + 4][1] = "number"
  /\ s[i + 6][1] = "facts" /\ s[i + 8][1] = "number"

\* An id, a state and a number of attempts, whatever follows.
parse_state(s, i) ==
  /\ i + 4 <= Len(s) /\ FieldEnds(s, i + 4)
  /\ s[i][1] = "word" /\ s[i + 1] = Tab
  /\ s[i + 2] \in {Word(state) : state \in State} /\ s[i + 3] = Tab
  /\ s[i + 4][1] = "number"

\* A line that does not parse is skipped without an error.
task_lines(s, id) ==
  {i \in 1..Len(s) : Begins(s, i) /\ parse_state(s, i) /\ s[i] = Word(id)}

trace_lines(s, id) ==
  {i \in 1..Len(s) : Begins(s, i) /\ parse_trace(s, i) /\ s[i + 2] = Word(id)}

TaskAt(s, i) == TaskOf(s[i + 2][2], s[i + 4][2])

TraceAt(s, i) == TraceOf(s[i + 4][2], s[i + 6][2])

\* Of a task's lines the last one counts, as each replaces the one before.
TaskIn(s, id) ==
  LET at == task_lines(s, id) IN IF at = {} THEN NoTask ELSE TaskAt(s, Max(at))

TraceIn(s, id) ==
  LET at == trace_lines(s, id) IN IF at = {} THEN NoTrace ELSE TraceAt(s, Max(at))

Replay(s) == [task |-> [id \in Ids |-> TaskIn(s, id)], trace |-> [id \in Ids |-> TraceIn(s, id)]]

Nothing == Replay(<<>>)

-----------------------------------------------------------------------------
NoJob == [rest |-> <<>>, id |-> "", task |-> NoTask, trace |-> NoTrace,
          glued |-> FALSE, next |-> "idle"]

Init ==
  /\ file = <<>>
  /\ memory = [w \in Writers |-> Nothing]
  /\ stage = [w \in Writers |-> "closed"]
  /\ job = [w \in Writers |-> NoJob]
  /\ acked = [id \in Ids |-> NoTask]
  /\ tried = [id \in Ids |-> {}]
  /\ glued = [id \in Ids |-> FALSE]
  /\ crashes = 0 /\ lines = 0

Running(w) ==
  {id \in Ids : memory[w].task[id].state = "running"}

\* The log is read; only a worker's handle goes on to recover it.
load(w, next) ==
  /\ stage[w] = "closed"
  /\ memory' = [memory EXCEPT ![w] = Replay(file)]
  /\ stage' = [stage EXCEPT ![w] = next]
  /\ UNCHANGED <<file, job, history, counters>>

open(w) == load(w, "recovering")

inspect(w) == load(w, "idle")

Torn == ~Begins(file, Len(file) + 1)

begin(w, pieces, id, t, tr) ==
  /\ lines < LineBound /\ lines' = lines + 1
  /\ job' = [job EXCEPT ![w] = [rest |-> pieces, id |-> id, task |-> t,
                                trace |-> tr, glued |-> Torn, next |-> stage[w]]]
  /\ stage' = [stage EXCEPT ![w] = "writing"]
  /\ UNCHANGED <<file, memory, acked, glued, crashes>>

record(w, id, t) ==
  /\ begin(w, state_line(id, t), id, t, NoTrace)
  /\ tried' = [tried EXCEPT ![id] = @ \cup {t}]

recover(w) ==
  /\ stage[w] = "recovering"
  /\ IF Running(w) = {}
       THEN /\ stage' = [stage EXCEPT ![w] = "idle"]
            /\ UNCHANGED <<file, memory, job, history, counters>>
       ELSE \E id \in Running(w) :
              record(w, id, recovered(memory[w].task[id], memory[w].trace[id]))

\* The public transitions, from the handle's own memory.
operation(w) ==
  /\ stage[w] = "idle"
  /\ \E id \in Ids :
       LET t == memory[w].task[id]
       IN \/ t = NoTask /\ record(w, id, TaskOf("queued", 0))
          \/ t.state = "queued" /\ record(w, id, TaskOf("running", t.attempts + 1))
          \/ /\ t.state = "running"
             /\ \E s \in {"succeeded", "failed"} : record(w, id, TaskOf(s, t.attempts))
          \/ /\ t.state \in {"queued", "running"}
             /\ record(w, id, TaskOf("cancelled", t.attempts))
          \/ t.state = "failed" /\ record(w, id, TaskOf("queued", t.attempts))

record_trace(w) ==
  /\ stage[w] = "idle"
  /\ \E id \in Running(w) :
       LET tr == TraceOf(memory[w].task[id].attempts, [NoTrace.exec EXCEPT !.zero = TRUE])
       IN begin(w, trace_line(id, tr), id, NoTask, tr)
  /\ UNCHANGED tried

\* One write: the next piece of the line goes to the end of the file.
append(w) ==
  /\ stage[w] = "writing"
  /\ job[w].rest # <<>>
  /\ file' = Append(file, Head(job[w].rest))
  /\ job' = [job EXCEPT ![w].rest = Tail(@)]
  /\ UNCHANGED <<memory, stage, history, counters>>

\* The states other writers are writing for the id.
InFlight(id, w) ==
  {job[v].task : v \in {v \in Writers \ {w} : job[v].id = id /\ job[v].task # NoTask}}

\* sync_data has returned; the memory is updated and the call succeeds.
acknowledge(w) ==
  /\ stage[w] = "writing"
  /\ job[w].rest = <<>>
  /\ LET j == job[w]
     IN IF j.task # NoTask
          THEN /\ memory' = [memory EXCEPT ![w].task[j.id] = j.task]
               /\ acked' = [acked EXCEPT ![j.id] = j.task]
               /\ tried' = [tried EXCEPT ![j.id] = InFlight(j.id, w)]
               /\ glued' = [glued EXCEPT ![j.id] = j.glued]
          ELSE /\ memory' = [memory EXCEPT ![w].trace[j.id] = j.trace]
               /\ UNCHANGED <<acked, tried, glued>>
  /\ stage' = [stage EXCEPT ![w] = job[w].next]
  /\ job' = [job EXCEPT ![w] = NoJob]
  /\ UNCHANGED <<file, counters>>

\* (A slip: the line the handle was writing is not given up with it.)
drop_handle_only(w) ==
  /\ memory' = [memory EXCEPT ![w] = Nothing]
  /\ stage' = [stage EXCEPT ![w] = "closed"]
  /\ UNCHANGED <<file, job, history, lines>>

\* The handle and whatever line it was writing are gone.
drop(w) ==
  /\ memory' = [memory EXCEPT ![w] = Nothing]
  /\ stage' = [stage EXCEPT ![w] = "closed"]
  /\ job' = [job EXCEPT ![w] = NoJob]
  /\ UNCHANGED <<file, history, lines>>

crash(w) == stage[w] # "closed" /\ crashes < CrashBound /\ crashes' = crashes + 1 /\ drop(w)

close(w) == stage[w] = "idle" /\ drop(w) /\ UNCHANGED crashes

Next ==
  \E w \in Writers :
    \/ open(w) \/ inspect(w) \/ recover(w) \/ operation(w) \/ record_trace(w)
    \/ append(w) \/ acknowledge(w) \/ crash(w) \/ close(w)

Spec == Init /\ [][Next]_vars

-----------------------------------------------------------------------------
Piece ==
  ({"separator"} \X {"tab", "newline"})
    \cup ({"word"} \X (Ids \cup State \cup {"trace", "reason"}))
    \cup ({"number"} \X Nat) \cup ({"facts"} \X Execution)

Job == [rest : Seq(Piece), id : Ids, task : Task \cup {NoTask}, trace : Trace,
        glued : BOOLEAN, next : {"recovering", "idle"}]

TypeOK ==
  /\ file \in Seq(Piece)
  /\ memory \in [Writers -> [task : [Ids -> Task \cup {NoTask}], trace : [Ids -> Trace]]]
  /\ stage \in [Writers -> {"closed", "recovering", "idle", "writing"}]
  /\ DOMAIN job = Writers
  /\ \A w \in Writers : IF stage[w] = "writing" THEN job[w] \in Job ELSE job[w] = NoJob
  /\ acked \in [Ids -> Task \cup {NoTask}] /\ tried \in [Ids -> SUBSET Task]
  /\ glued \in [Ids -> BOOLEAN]
  /\ crashes \in 0..CrashBound /\ lines \in 0..LineBound

\* Whoever replays the log, at any moment of a write and after any kill, sees
\* for a task its last synchronized state or one that was being written since;
\* except for a task whose last line was appended to a torn one.
ReadersSeeOldOrNew ==
  \A id \in Ids : ~glued[id] => TaskIn(file, id) \in {acked[id]} \cup tried[id]

\* A kill can tear at most the last line: the damage is one line per kill.
\* (Every line but those appended to a torn one reads back.)
Ended(s, i) == \E j \in i..Len(s) : s[j] = NewLine

TornLines(s) ==
  {i \in 1..Len(s) :
     Begins(s, i) /\ Ended(s, i) /\ ~parse_trace(s, i) /\ ~parse_state(s, i)}

DamageIsOneLinePerKill == Cardinality(TornLines(file)) <= crashes

\* "Reconstructs task state from an append-only event log": a transition that
\* was appended and synchronized is there for the next reader.
SynchronizedIsReplayed ==
  \A id \in Ids : TaskIn(file, id) \in {acked[id]} \cup tried[id]
=============================================================================
