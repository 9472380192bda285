-------------------------- MODULE EventBytesProofs --------------------------
(***************************************************************************)
(* The log as a text, for any tasks, number of handles, lines and kills:   *)
(* as long as no two processes write at once, whoever reads it sees a      *)
(* state that was synchronized or was being written since, and a kill      *)
(* costs one line.                                                         *)
(***************************************************************************)
EXTENDS EventBytes, FiniteSetTheorems, WellFoundedInduction, TLAPS

\* Two lines are never written at the same time.
OneAtATime ==
  \A v, w \in Writers : stage[v] = "writing" /\ stage[w] = "writing" => v = w

\* The line of a job, and how much of it is in the file.
Line(j) == IF j.task # NoTask THEN state_line(j.id, j.task) ELSE trace_line(j.id, j.trace)

\* The last line of a text: nothing ends it, and maybe nothing is in it.
LastLine(s, p) ==
  /\ p \in 1..(Len(s) + 1) /\ Begins(s, p)
  /\ \A i \in p..Len(s) : s[i] # NewLine

\* The first n pieces of the line of j are what the text ends with.  If the
\* line is not glued they are a line of their own, else one that began before.
WrittenAs(s, j, n) ==
  LET first == Len(s) - n + 1
  IN /\ n <= Len(s)
     /\ Len(j.rest) = Len(Line(j)) - n
     /\ \A i \in 1..Len(j.rest) : j.rest[i] = Line(j)[n + i]
     /\ \A i \in 1..n : s[first + i - 1] = Line(j)[i]
     /\ Begins(s, first) <=> ~j.glued

JobInv ==
  \A w \in Writers : stage[w] = "writing" =>
    /\ \E n \in 0..Len(Line(job[w])) : WrittenAs(file, job[w], n)
    /\ job[w].task # NoTask => job[w].task \in tried[job[w].id]

\* What the lines at some places say of a task.
Says(s, at) == IF at = {} THEN NoTask ELSE TaskAt(s, Max(at))

\* What is left of a task if the last line turns out to be lost, and what the
\* last line says of it, are both old or new.
OldOrNew(id) == {acked[id]} \cup tried[id]

SeenInv ==
  \A id \in Ids, p \in 1..(Len(file) + 1) : ~glued[id] /\ LastLine(file, p) =>
    /\ Says(file, task_lines(file, id) \ {p}) \in OldOrNew(id)
    /\ p \in task_lines(file, id) => TaskAt(file, p) \in OldOrNew(id)

\* The last line is torn, and no line of its own is being written.
Broken == Torn /\ ~\E w \in Writers : stage[w] = "writing" /\ ~job[w].glued

DamageInv == Cardinality(TornLines(file)) + (IF Broken THEN 1 ELSE 0) <= crashes

TailInv == \E p \in 1..(Len(file) + 1) : LastLine(file, p)

IInv == TypeOK /\ TailInv /\ JobInv /\ SeenInv /\ DamageInv

USE BytesAssumption

-----------------------------------------------------------------------------
(***************************************************************************)
(* Pieces and lines.                                                       *)
(***************************************************************************)
\* The kinds of pieces and what they carry.
LEMMA Pieces ==
  /\ NewLine \in Piece /\ Tab \in Piece /\ NewLine # Tab
  /\ NewLine[1] = "separator" /\ Tab[1] = "separator"
  /\ \A w : Word(w)[1] = "word" /\ Word(w)[2] = w
  /\ \A n : Number(n)[1] = "number" /\ Number(n)[2] = n
  /\ \A w \in Ids \cup State \cup {"trace", "reason"} : Word(w) \in Piece
  /\ \A n \in Nat : Number(n) \in Piece
  /\ \A e \in Execution : <<"facts", e>> \in Piece
  /\ \A x \in Piece : x[1] = "number" => x[2] \in Nat
  /\ \A x \in Piece : x[1] = "facts" => x[2] \in Execution
BY DEF NewLine, Tab, Word, Number, Piece

\* The lines, piece by piece.
LEMMA StateLine ==
  ASSUME NEW id \in Ids, NEW t \in Task
  PROVE  LET l == state_line(id, t)
         IN /\ l \in Seq(Piece) /\ Len(l) = 8
            /\ l[1] = Word(id) /\ l[2] = Tab /\ l[3] = Word(t.state) /\ l[4] = Tab
            /\ l[5] = Number(t.attempts) /\ l[6] = Tab /\ l[7] = Word("reason")
            /\ l[8] = NewLine
BY Pieces DEF state_line, Task

LEMMA TraceLine ==
  ASSUME NEW id \in Ids, NEW tr \in Trace
  PROVE  LET l == trace_line(id, tr)
         IN /\ l \in Seq(Piece) /\ Len(l) = 10
            /\ l[1] = Word("trace") /\ l[2] = Tab /\ l[3] = Word(id) /\ l[4] = Tab
            /\ l[5] = Number(tr.attempt) /\ l[6] = Tab /\ l[7] = <<"facts", tr.exec>>
            /\ l[8] = Tab /\ l[9] = Number(0) /\ l[10] = NewLine
BY Pieces DEF trace_line, Trace

\* What the proofs need to know of either.
LEMMA LineOfJob ==
  ASSUME NEW j \in Job
  PROVE  /\ Line(j) \in Seq(Piece) /\ Len(Line(j)) \in {8, 10}
         /\ \A i \in 1..Len(Line(j)) : Line(j)[i] = NewLine <=> i = Len(Line(j))
         /\ Line(j)[1][1] = "word"
         /\ \A i \in 1..Len(Line(j)) : Line(j)[i][1] = "number" => i \in {5, 9}
<1>1. j.id \in Ids /\ j.trace \in Trace /\ (j.task # NoTask => j.task \in Task)
  BY DEF Job
<1>2. CASE j.task # NoTask
  <2> DEFINE l == state_line(j.id, j.task)
  <2>1. Line(j) = l
    BY <1>2 DEF Line
  <2>2. /\ l \in Seq(Piece) /\ Len(l) = 8
        /\ l[1] = Word(j.id) /\ l[2] = Tab /\ l[3] = Word(j.task.state) /\ l[4] = Tab
        /\ l[6] = Tab /\ l[7] = Word("reason") /\ l[5] = Number(j.task.attempts)
        /\ l[8] = NewLine
    BY <1>1, <1>2, StateLine
  <2> HIDE DEF l
  <2> QED
    BY <2>1, <2>2, Pieces
<1>3. CASE j.task = NoTask
  <2> DEFINE l == trace_line(j.id, j.trace)
  <2>1. Line(j) = l
    BY <1>3 DEF Line
  <2>2. /\ l \in Seq(Piece) /\ Len(l) = 10
        /\ l[1] = Word("trace") /\ l[2] = Tab /\ l[3] = Word(j.id) /\ l[4] = Tab
        /\ l[5] = Number(j.trace.attempt) /\ l[6] = Tab /\ l[7] = <<"facts", j.trace.exec>>
        /\ l[8] = Tab /\ l[9] = Number(0) /\ l[10] = NewLine
    BY <1>1, TraceLine
  <2> HIDE DEF l
  <2> QED
    BY <2>1, <2>2, Pieces
<1> QED
  BY <1>2, <1>3

-----------------------------------------------------------------------------
(***************************************************************************)
(* Reading a text that has grown by one piece.                             *)
(***************************************************************************)
\* What is read of a line has no newline in it.
LEMMA Spans ==
  ASSUME NEW s \in Seq(Piece), NEW i \in 1..Len(s)
  PROVE  /\ parse_state(s, i) => i + 4 <= Len(s) /\ \A k \in 0..4 : s[i + k] # NewLine
         /\ parse_trace(s, i) => i + 8 <= Len(s) /\ \A k \in 0..8 : s[i + k] # NewLine
<1>1. ASSUME parse_state(s, i)
      PROVE  i + 4 <= Len(s) /\ \A k \in 0..4 : s[i + k] # NewLine
  <2>1. s[i] # NewLine /\ s[i + 2] # NewLine /\ s[i + 4] # NewLine
    BY <1>1, Pieces DEF parse_state
  <2>2. s[i + 1] # NewLine /\ s[i + 3] # NewLine
    BY <1>1, Pieces DEF parse_state
  <2> QED
    BY <1>1, <2>1, <2>2 DEF parse_state
<1>2. ASSUME parse_trace(s, i)
      PROVE  i + 8 <= Len(s) /\ \A k \in 0..8 : s[i + k] # NewLine
  <2>1. s[i] # NewLine /\ s[i + 2] # NewLine /\ s[i + 4] # NewLine
    BY <1>2, Pieces DEF parse_trace
  <2>2. s[i + 6] # NewLine /\ s[i + 8] # NewLine
    BY <1>2, Pieces DEF parse_trace
  <2>3. \A k \in {1, 3, 5, 7} : s[i + k] # NewLine
    BY <1>2, Pieces DEF parse_trace
  <2> QED
    BY <1>2, <2>1, <2>2, <2>3 DEF parse_trace
<1> QED
  BY <1>1, <1>2

\* Two texts that agree on the span of a line and the piece after it read the
\* same of it.
LEMMA SameSpan ==
  ASSUME NEW s \in Seq(Piece), NEW t \in Seq(Piece), NEW i \in Nat \ {0}, NEW m \in Nat,
         m <= Len(s), m <= Len(t), \A k \in 1..m : t[k] = s[k]
  PROVE  /\ i + 5 <= m => (parse_state(t, i) <=> parse_state(s, i))
         /\ i + 9 <= m => (parse_trace(t, i) <=> parse_trace(s, i))
<1>1. ASSUME i + 5 <= m PROVE parse_state(t, i) <=> parse_state(s, i)
  <2>1. \A k \in 0..5 : t[i + k] = s[i + k]
    BY <1>1
  <2>2. /\ t[i] = s[i] /\ t[i + 1] = s[i + 1] /\ t[i + 2] = s[i + 2]
        /\ t[i + 3] = s[i + 3] /\ t[i + 4] = s[i + 4] /\ t[i + 4 + 1] = s[i + 4 + 1]
    BY <2>1
  <2>3. /\ FieldEnds(t, i + 4) <=> FieldEnds(s, i + 4)
        /\ i + 4 <= Len(s) /\ i + 4 <= Len(t)
    BY <1>1, <2>2 DEF FieldEnds
  <2> QED
    BY <2>2, <2>3 DEF parse_state
<1>2. ASSUME i + 9 <= m PROVE parse_trace(t, i) <=> parse_trace(s, i)
  <2>1. \A k \in 0..9 : t[i + k] = s[i + k]
    BY <1>2
  <2>2. /\ t[i] = s[i] /\ t[i + 2] = s[i + 2] /\ t[i + 4] = s[i + 4] /\ t[i + 6] = s[i + 6]
        /\ t[i + 8] = s[i + 8] /\ t[i + 8 + 1] = s[i + 8 + 1]
        /\ \A k \in {1, 3, 5, 7} : t[i + k] = s[i + k]
    <3>1. \A k \in {0, 1, 2, 3, 4, 5, 6, 7, 8, 9} : k \in 0..9
      OBVIOUS
    <3>2. i + 0 = i /\ i + 8 + 1 = i + 9
      OBVIOUS
    <3>3. \A k \in {0, 1, 2, 3, 4, 5, 6, 7, 8, 9} : t[i + k] = s[i + k]
      BY <2>1, <3>1
    <3> QED
      BY <3>2, <3>3
  <2>3. /\ FieldEnds(t, i + 8) <=> FieldEnds(s, i + 8)
        /\ i + 8 <= Len(s) /\ i + 8 <= Len(t)
    BY <1>2, <2>2 DEF FieldEnds
  <2> QED
    BY <2>2, <2>3 DEF parse_trace
<1> QED
  BY <1>1, <1>2

\* A line that has ended reads as before.
LEMMA EndedLine ==
  ASSUME NEW s \in Seq(Piece), NEW x \in Piece, NEW i \in 1..Len(s), NEW q \in i..Len(s),
         s[q] = NewLine
  PROVE  LET t == Append(s, x)
         IN /\ t[i] = s[i] /\ (Begins(t, i) <=> Begins(s, i))
            /\ parse_state(t, i) <=> parse_state(s, i)
            /\ parse_trace(t, i) <=> parse_trace(s, i)
            /\ parse_state(s, i) => TaskAt(t, i) = TaskAt(s, i)
<1> DEFINE t == Append(s, x)
<1>1. Len(s) \in Nat /\ Len(t) = Len(s) + 1 /\ \A k \in 1..Len(s) : t[k] = s[k]
  OBVIOUS
<1> HIDE DEF t
<1>2. t[i] = s[i] /\ (Begins(t, i) <=> Begins(s, i))
  BY <1>1 DEF Begins
<1>3. t \in Seq(Piece) /\ t[q] = NewLine /\ i \in 1..Len(t)
  BY <1>1 DEF t
<1>4. parse_state(t, i) <=> parse_state(s, i)
  <2>1. parse_state(s, i) \/ parse_state(t, i) => i + 5 <= Len(s)
    <3>1. CASE parse_state(s, i)
      <4>1. \A k \in 0..4 : q # i + k
        BY <3>1, Spans
      <4> QED
        BY <1>1, <4>1
    <3>2. CASE parse_state(t, i)
      <4>1. \A k \in 0..4 : q # i + k
        BY <1>3, <3>2, Spans
      <4> QED
        BY <1>1, <4>1
    <3> QED
      BY <3>1, <3>2
  <2> QED
    BY <1>1, <1>3, <2>1, SameSpan
<1>5. parse_trace(t, i) <=> parse_trace(s, i)
  <2>1. parse_trace(s, i) \/ parse_trace(t, i) => i + 9 <= Len(s)
    <3>1. CASE parse_trace(s, i)
      <4>1. \A k \in 0..8 : q # i + k
        BY <3>1, Spans
      <4> QED
        BY <1>1, <4>1
    <3>2. CASE parse_trace(t, i)
      <4>1. \A k \in 0..8 : q # i + k
        BY <1>3, <3>2, Spans
      <4> QED
        BY <1>1, <4>1
    <3> QED
      BY <3>1, <3>2
  <2> QED
    BY <1>1, <1>3, <2>1, SameSpan
<1>7. parse_state(s, i) => TaskAt(t, i) = TaskAt(s, i)
  BY <1>1 DEF parse_state, TaskAt
<1> QED
  BY <1>2, <1>4, <1>5, <1>7 DEF t

\* A newline changes nothing of what is read.
LEMMA NewLineAdded ==
  ASSUME NEW s \in Seq(Piece)
  PROVE  LET t == Append(s, NewLine)
         IN /\ \A i \in 1..Len(s) :
                 /\ t[i] = s[i] /\ (Begins(t, i) <=> Begins(s, i))
                 /\ parse_state(t, i) <=> parse_state(s, i)
                 /\ parse_trace(t, i) <=> parse_trace(s, i)
                 /\ parse_state(s, i) => TaskAt(t, i) = TaskAt(s, i)
            /\ ~parse_state(t, Len(t))
            /\ \A id \in Ids : task_lines(t, id) = task_lines(s, id)
<1> DEFINE t == Append(s, NewLine)
<1>1. /\ t \in Seq(Piece) /\ Len(s) \in Nat /\ Len(t) = Len(s) + 1 /\ t[Len(s) + 1] = NewLine
      /\ \A k \in 1..Len(s) : t[k] = s[k]
  BY Pieces
<1> HIDE DEF t
<1>2. ASSUME NEW i \in 1..Len(s)
      PROVE  /\ t[i] = s[i] /\ (Begins(t, i) <=> Begins(s, i))
             /\ parse_state(t, i) <=> parse_state(s, i)
             /\ parse_trace(t, i) <=> parse_trace(s, i)
             /\ parse_state(s, i) => TaskAt(t, i) = TaskAt(s, i)
  <2>1. t[i] = s[i] /\ (Begins(t, i) <=> Begins(s, i))
    BY <1>1 DEF Begins
  <2>2. parse_state(t, i) <=> parse_state(s, i)
    <3>1. parse_state(t, i) => i + 4 <= Len(s)
      BY <1>1, Pieces DEF parse_state
    <3>2. CASE i + 4 = Len(s)
      BY <1>1, <3>2 DEF parse_state, FieldEnds
    <3>3. CASE i + 4 < Len(s)
      <4>1. i \in Nat \ {0} /\ i + 5 <= Len(s) /\ Len(s) <= Len(t) /\ Len(s) <= Len(s)
        BY <1>1, <3>3
      <4> QED
        BY <1>1, <4>1, SameSpan
    <3> QED
      BY <1>1, <3>1, <3>2, <3>3 DEF parse_state
  <2>3. parse_trace(t, i) <=> parse_trace(s, i)
    <3>1. parse_trace(t, i) => i + 8 <= Len(s)
      BY <1>1, Pieces DEF parse_trace
    <3>2. CASE i + 8 = Len(s)
      <4>1. FieldEnds(t, i + 8) /\ FieldEnds(s, i + 8)
        BY <1>1, <3>2 DEF FieldEnds
      <4>2. /\ t[i] = s[i] /\ t[i + 2] = s[i + 2] /\ t[i + 4] = s[i + 4]
            /\ t[i + 6] = s[i + 6] /\ t[i + 8] = s[i + 8]
            /\ \A k \in {1, 3, 5, 7} : t[i + k] = s[i + k]
        BY <1>1, <3>2
      <4> QED
        BY <1>1, <3>2, <4>1, <4>2 DEF parse_trace
    <3>3. CASE i + 8 < Len(s)
      <4>1. i \in Nat \ {0} /\ i + 9 <= Len(s) /\ Len(s) <= Len(t) /\ Len(s) <= Len(s)
        BY <1>1, <3>3
      <4> QED
        BY <1>1, <4>1, SameSpan
    <3> QED
      BY <1>1, <3>1, <3>2, <3>3 DEF parse_trace
  <2>6. parse_state(s, i) => TaskAt(t, i) = TaskAt(s, i)
    BY <1>1 DEF parse_state, TaskAt
  <2> QED
    BY <2>1, <2>2, <2>3, <2>6
<1>3. ~parse_state(t, Len(t))
  BY <1>1, Pieces DEF parse_state
<1>4. ASSUME NEW id \in Ids PROVE task_lines(t, id) = task_lines(s, id)
  BY <1>1, <1>2, <1>3 DEF task_lines
<1> QED
  BY <1>2, <1>3, <1>4 DEF t

\* Any other piece changes what is read of the last line only.
LEMMA PieceAdded ==
  ASSUME NEW s \in Seq(Piece), NEW x \in Piece, x # NewLine,
         NEW p \in 1..(Len(s) + 1), LastLine(s, p)
  PROVE  LET t == Append(s, x)
         IN /\ LastLine(t, p)
            /\ TornLines(t) = TornLines(s)
            /\ \A id \in Ids : task_lines(t, id) \ {p} = task_lines(s, id) \ {p}
            /\ \A id \in Ids : \A i \in task_lines(s, id) : TaskAt(t, i) = TaskAt(s, i)
<1> DEFINE t == Append(s, x)
<1>1. /\ Len(s) \in Nat /\ Len(t) = Len(s) + 1 /\ t[Len(s) + 1] = x
      /\ \A k \in 1..Len(s) : t[k] = s[k]
  OBVIOUS
<1>2. ASSUME NEW i \in 1..Len(s), i < p
      PROVE  /\ t[i] = s[i] /\ (Begins(t, i) <=> Begins(s, i))
             /\ parse_state(t, i) <=> parse_state(s, i)
             /\ parse_trace(t, i) <=> parse_trace(s, i)
  <2>1. s[p - 1] = NewLine /\ p - 1 \in i..Len(s)
    BY <1>1, <1>2 DEF LastLine, Begins
  <2> QED
    BY <2>1, EndedLine
<1> HIDE DEF t
<1>3. \A i \in p..Len(t) : t[i] # NewLine
  BY <1>1 DEF LastLine
<1>4. LastLine(t, p)
  BY <1>1, <1>3 DEF LastLine, Begins
<1>5. ASSUME NEW i \in 1..Len(t), i > p PROVE ~Begins(t, i) /\ ~Begins(s, i)
  BY <1>1, <1>3, <1>5 DEF Begins, LastLine
<1>6. ASSUME NEW id \in Ids PROVE task_lines(t, id) \ {p} = task_lines(s, id) \ {p}
  BY <1>1, <1>2, <1>5 DEF task_lines
<1>7. ASSUME NEW id \in Ids, NEW i \in task_lines(s, id) PROVE TaskAt(t, i) = TaskAt(s, i)
  BY <1>1 DEF task_lines, parse_state, TaskAt
<1>8. TornLines(t) = TornLines(s)
  <2>1. ASSUME NEW i \in 1..Len(t), i >= p PROVE ~Ended(t, i) /\ (i <= Len(s) => ~Ended(s, i))
    BY <1>1, <1>3, <2>1 DEF Ended, LastLine
  <2>2. ASSUME NEW i \in 1..Len(s), i < p PROVE Ended(t, i) /\ Ended(s, i)
    <3>1. s[p - 1] = NewLine /\ t[p - 1] = NewLine /\ p - 1 \in i..Len(s)
      BY <1>1, <2>2 DEF LastLine, Begins
    <3> QED
      BY <1>1, <3>1 DEF Ended
  <2> QED
    BY <1>1, <1>2, <2>1, <2>2 DEF TornLines
<1> QED
  BY <1>4, <1>6, <1>7, <1>8 DEF t

-----------------------------------------------------------------------------
(***************************************************************************)
(* Types.                                                                  *)
(***************************************************************************)
\* A set of places in a text has a last one.
LEMMA LastPlace ==
  ASSUME NEW n \in Nat, NEW S \in SUBSET (1..n), S # {}
  PROVE  Max(S) \in S /\ \A i \in S : i <= Max(S)
<1> DEFINE R == OpToRel(<, Nat)
           T == {n - i : i \in S}
<1>1. T \in SUBSET Nat /\ T # {}
  <2>1. \A i \in S : n - i \in Nat
    OBVIOUS
  <2> QED
    BY <2>1
<1>2. IsWellFoundedOn(R, Nat)
  BY NatLessThanWellFounded
<1>3. \A x \in Nat, y \in Nat : <<y, x>> \in R <=> y < x
  BY DEF OpToRel
<1> HIDE DEF R, T
<1>4. PICK x \in T : \A y \in T : <<y, x>> \notin R
  BY <1>1, <1>2, WFMin
<1>5. PICK m \in S : x = n - m
  BY DEF T
<1>6. ASSUME NEW i \in S PROVE m >= i
  <2>1. n - i \in T /\ n - i \in Nat /\ n - m \in Nat
    BY <1>1 DEF T
  <2>2. ~(n - i < n - m)
    BY <1>3, <1>4, <1>5, <2>1
  <2> QED
    BY <2>2
<1>7. \E k \in S : \A i \in S : k >= i
  BY <1>6
<1> QED
  BY <1>7 DEF Max

\* What is read of a text are tasks and traces.
LEMMA ReadTypes ==
  ASSUME NEW s \in Seq(Piece), NEW id \in Ids
  PROVE  TaskIn(s, id) \in Task \cup {NoTask} /\ TraceIn(s, id) \in Trace
<1>1. Len(s) \in Nat
  OBVIOUS
<1>2. ASSUME NEW i \in task_lines(s, id) PROVE TaskAt(s, i) \in Task
  <2>1. parse_state(s, i) /\ i \in 1..Len(s) /\ i + 4 \in 1..Len(s)
    BY <1>1 DEF task_lines, parse_state
  <2>2. s[i + 4] \in Piece /\ s[i + 4][1] = "number"
    BY <2>1 DEF parse_state
  <2>3. s[i + 2][2] \in State
    BY <2>1, Pieces DEF parse_state
  <2> QED
    BY <2>2, <2>3, Pieces DEF TaskAt, TaskOf, Task
<1>3. ASSUME NEW i \in trace_lines(s, id) PROVE TraceAt(s, i) \in Trace
  <2>0. parse_trace(s, i) /\ i \in 1..Len(s)
    BY DEF trace_lines
  <2>1. parse_trace(s, i) /\ i + 4 \in 1..Len(s) /\ i + 6 \in 1..Len(s)
    <3>1. i + 8 <= Len(s)
      BY <2>0 DEF parse_trace
    <3> QED
      BY <1>1, <2>0, <3>1
  <2>2. s[i + 4] \in Piece /\ s[i + 6] \in Piece /\ s[i + 4][1] = "number" /\ s[i + 6][1] = "facts"
    BY <2>1 DEF parse_trace
  <2> QED
    BY <2>2, Pieces DEF TraceAt, TraceOf, Trace
<1>4. NoTrace \in Trace
  BY DEF NoTrace, Trace, Execution
<1>5. TaskIn(s, id) \in Task \cup {NoTask}
  <2>1. task_lines(s, id) \in SUBSET (1..Len(s))
    BY DEF task_lines
  <2>2. CASE task_lines(s, id) = {}
    BY <2>2 DEF TaskIn
  <2>3. CASE task_lines(s, id) # {}
    BY <1>1, <1>2, <2>1, <2>3, LastPlace DEF TaskIn
  <2> QED
    BY <2>2, <2>3
<1>6. TraceIn(s, id) \in Trace
  <2>1. trace_lines(s, id) \in SUBSET (1..Len(s))
    BY DEF trace_lines
  <2>2. CASE trace_lines(s, id) = {}
    BY <1>4, <2>2 DEF TraceIn
  <2>3. CASE trace_lines(s, id) # {}
    BY <1>1, <1>3, <2>1, <2>3, LastPlace DEF TraceIn
  <2> QED
    BY <2>2, <2>3
<1> QED
  BY <1>5, <1>6

Memory == [task : [Ids -> Task \cup {NoTask}], trace : [Ids -> Trace]]

LEMMA ReplayType ==
  ASSUME NEW s \in Seq(Piece)
  PROVE  Replay(s) \in Memory
BY ReadTypes DEF Replay, Memory

LEMMA NothingType == Nothing \in Memory
<1>1. <<>> \in Seq(Piece)
  OBVIOUS
<1> QED
  BY <1>1, ReplayType DEF Nothing

\* A line is begun for a task of the handle's memory.
LEMMA BeginTypes ==
  ASSUME TypeOK, NEW w \in Writers, NEW id \in Ids, stage[w] \in {"recovering", "idle"},
         \/ \E t \in Task : record(w, id, t)
         \/ \E tr \in Trace : begin(w, trace_line(id, tr), id, NoTask, tr) /\ UNCHANGED tried
  PROVE  TypeOK'
<1>1. PICK pieces \in Seq(Piece), t \in Task \cup {NoTask}, tr \in Trace :
        begin(w, pieces, id, t, tr)
  <2>1. CASE \E t \in Task : record(w, id, t)
    BY <2>1, StateLine DEF record, NoTrace, Trace, Execution
  <2>2. CASE \E tr \in Trace : begin(w, trace_line(id, tr), id, NoTask, tr)
    BY <2>2, TraceLine
  <2> QED
    BY <2>1, <2>2
<1>2. tried' \in [Ids -> SUBSET Task]
  BY DEF TypeOK, record
<1>3. job'[w] \in Job /\ stage'[w] = "writing"
  BY <1>1 DEF TypeOK, begin, Job, Torn
<1>4. \A v \in Writers \ {w} : job'[v] = job[v] /\ stage'[v] = stage[v]
  BY <1>1 DEF TypeOK, begin
<1>5. \A v \in Writers : IF stage'[v] = "writing" THEN job'[v] \in Job ELSE job'[v] = NoJob
  BY <1>3, <1>4 DEF TypeOK
<1>6. lines' \in 0..LineBound
  BY <1>1 DEF TypeOK, begin
<1>7. /\ stage' \in [Writers -> {"closed", "recovering", "idle", "writing"}]
      /\ DOMAIN job' = Writers
      /\ UNCHANGED <<file, memory, acked, glued, crashes>>
  BY <1>1 DEF TypeOK, begin
<1> QED
  BY <1>2, <1>5, <1>6, <1>7 DEF TypeOK

\* Which lines a handle begins.
LEMMA Begun ==
  ASSUME TypeOK, NEW w \in Writers,
         (recover(w) /\ Running(w) # {}) \/ operation(w) \/ record_trace(w)
  PROVE  /\ stage[w] \in {"recovering", "idle"}
         /\ \E id \in Ids :
              \/ \E t \in Task : record(w, id, t)
              \/ \E tr \in Trace : begin(w, trace_line(id, tr), id, NoTask, tr) /\ UNCHANGED tried
<1> DEFINE task(id) == memory[w].task[id]
           trace(id) == memory[w].trace[id]
<1>1. \A id \in Ids : task(id) \in Task \cup {NoTask} /\ trace(id) \in Trace
  BY DEF TypeOK
<1>2. \A id \in Ids : task(id).state \in State => task(id) \in Task /\ task(id).attempts \in Nat
  BY <1>1 DEF NoTask, State, Task
<1>3. \A id \in Running(w) : id \in Ids /\ task(id) \in Task /\ task(id).attempts \in Nat
  BY <1>2 DEF Running, State
<1>4. CASE recover(w) /\ Running(w) # {}
  <2>1. PICK id \in Running(w) : record(w, id, recovered(task(id), trace(id)))
    BY <1>4 DEF recover
  <2>2. recovered(task(id), trace(id)) \in Task
    BY <1>3 DEF recovered, trace_state, TaskOf, Task, State
  <2> QED
    BY <1>3, <1>4, <2>1, <2>2 DEF recover
<1>5. CASE operation(w)
  <2>1. PICK id \in Ids :
          \/ record(w, id, TaskOf("queued", 0))
          \/ task(id).state = "queued" /\ record(w, id, TaskOf("running", task(id).attempts + 1))
          \/ /\ task(id).state = "running"
             /\ \E s \in {"succeeded", "failed"} : record(w, id, TaskOf(s, task(id).attempts))
          \/ /\ task(id).state \in {"queued", "running"}
             /\ record(w, id, TaskOf("cancelled", task(id).attempts))
          \/ task(id).state = "failed" /\ record(w, id, TaskOf("queued", task(id).attempts))
    BY <1>5 DEF operation
  <2>2. \E t \in Task : record(w, id, t)
    BY <1>2, <2>1 DEF TaskOf, Task, State
  <2> QED
    BY <1>5, <2>2 DEF operation
<1>6. CASE record_trace(w)
  <2>1. PICK id \in Running(w) :
          LET tr == TraceOf(task(id).attempts, [NoTrace.exec EXCEPT !.zero = TRUE])
          IN begin(w, trace_line(id, tr), id, NoTask, tr)
    BY <1>6 DEF record_trace
  <2>2. TraceOf(task(id).attempts, [NoTrace.exec EXCEPT !.zero = TRUE]) \in Trace
    BY <1>3 DEF TraceOf, Trace, NoTrace, Execution
  <2> QED
    BY <1>3, <1>6, <2>1, <2>2 DEF record_trace
<1> QED
  BY <1>4, <1>5, <1>6

\* Every step keeps the types.
LEMMA StepTypes ==
  ASSUME TypeOK, [Next]_vars
  PROVE  TypeOK'
<1>1. ASSUME NEW w \in Writers, open(w) \/ inspect(w) PROVE TypeOK'
  <2>1. PICK next \in {"recovering", "idle"} : load(w, next)
    BY <1>1 DEF open, inspect
  <2>2. memory' \in [Writers -> Memory]
    BY <2>1, ReplayType DEF TypeOK, Memory, load
  <2>3. \A v \in Writers : IF stage'[v] = "writing" THEN job'[v] \in Job ELSE job'[v] = NoJob
    BY <2>1 DEF TypeOK, load
  <2>4. stage' \in [Writers -> {"closed", "recovering", "idle", "writing"}]
    BY <2>1 DEF TypeOK, load
  <2> QED
    BY <2>1, <2>2, <2>3, <2>4 DEF TypeOK, Memory, load, history, counters
<1>2. ASSUME NEW w \in Writers, recover(w), Running(w) = {} PROVE TypeOK'
  <2>1. /\ stage[w] = "recovering" /\ stage' = [stage EXCEPT ![w] = "idle"]
        /\ UNCHANGED <<file, memory, job, history, counters>>
    BY <1>2 DEF recover
  <2> QED
    BY <2>1 DEF TypeOK, history, counters
<1>3. ASSUME NEW w \in Writers,
             (recover(w) /\ Running(w) # {}) \/ operation(w) \/ record_trace(w)
      PROVE  TypeOK'
  BY <1>3, Begun, BeginTypes
<1>4. ASSUME NEW w \in Writers, append(w) PROVE TypeOK'
  <2>1. job[w] \in Job /\ job[w].rest \in Seq(Piece) /\ job[w].rest # <<>>
    BY <1>4 DEF TypeOK, append, Job
  <2>2. Head(job[w].rest) \in Piece /\ Tail(job[w].rest) \in Seq(Piece)
    BY <2>1
  <2>3. file' \in Seq(Piece)
    BY <1>4, <2>2 DEF TypeOK, append
  <2>4. job'[w] \in Job /\ DOMAIN job' = Writers /\ \A v \in Writers \ {w} : job'[v] = job[v]
    BY <1>4, <2>1, <2>2 DEF TypeOK, append, Job
  <2> QED
    BY <1>4, <2>3, <2>4 DEF TypeOK, append, history, counters
<1>5. ASSUME NEW w \in Writers, acknowledge(w) PROVE TypeOK'
  <2>1. /\ job[w] \in Job /\ job[w].id \in Ids /\ job[w].trace \in Trace
        /\ job[w].glued \in BOOLEAN /\ job[w].next \in {"recovering", "idle"}
        /\ job[w].task # NoTask => job[w].task \in Task
    BY <1>5 DEF TypeOK, acknowledge, Job
  <2>2. memory' \in [Writers -> Memory]
    <3>1. /\ memory \in [Writers -> Memory]
          /\ memory[w].task \in [Ids -> Task \cup {NoTask}] /\ memory[w].trace \in [Ids -> Trace]
      BY DEF TypeOK, Memory
    <3>2. CASE job[w].task # NoTask
      <4>1. memory' = [memory EXCEPT ![w].task[job[w].id] = job[w].task]
        BY <1>5, <3>2 DEF acknowledge
      <4>2. [memory[w] EXCEPT !.task[job[w].id] = job[w].task] \in Memory
        BY <2>1, <3>1, <3>2 DEF Memory
      <4> QED
        BY <3>1, <4>1, <4>2
    <3>3. CASE job[w].task = NoTask
      <4>1. memory' = [memory EXCEPT ![w].trace[job[w].id] = job[w].trace]
        BY <1>5, <3>3 DEF acknowledge
      <4>2. [memory[w] EXCEPT !.trace[job[w].id] = job[w].trace] \in Memory
        BY <2>1, <3>1 DEF Memory
      <4> QED
        BY <3>1, <4>1, <4>2
    <3> QED
      BY <3>2, <3>3
  <2>3. acked' \in [Ids -> Task \cup {NoTask}] /\ glued' \in [Ids -> BOOLEAN]
    BY <1>5, <2>1 DEF TypeOK, acknowledge
  <2>4. tried' \in [Ids -> SUBSET Task]
    <3>1. \A v \in Writers : job[v].task # NoTask => job[v].task \in Task
      <4>1. NoJob.task = NoTask /\ \A j \in Job : j.task \in Task \cup {NoTask}
        BY DEF Job, NoJob
      <4>2. \A v \in Writers : job[v] \in Job \/ job[v] = NoJob
        BY DEF TypeOK
      <4> QED
        BY <4>1, <4>2
    <3>2. InFlight(job[w].id, w) \in SUBSET Task
      BY <3>1 DEF InFlight
    <3> QED
      BY <1>5, <2>1, <3>2 DEF TypeOK, acknowledge
  <2>5. /\ stage' \in [Writers -> {"closed", "recovering", "idle", "writing"}]
        /\ DOMAIN job' = Writers
        /\ \A v \in Writers : IF stage'[v] = "writing" THEN job'[v] \in Job ELSE job'[v] = NoJob
    BY <1>5, <2>1 DEF TypeOK, acknowledge
  <2> QED
    BY <1>5, <2>2, <2>3, <2>4, <2>5 DEF TypeOK, Memory, acknowledge, counters
<1>6. ASSUME NEW w \in Writers, crash(w) \/ close(w) PROVE TypeOK'
  <2>1. /\ drop(w) /\ crashes' \in 0..CrashBound
    BY <1>6 DEF crash, close, TypeOK
  <2>2. memory' \in [Writers -> Memory]
    BY <2>1, NothingType DEF TypeOK, Memory, drop
  <2> QED
    BY <2>1, <2>2 DEF TypeOK, Memory, drop, history
<1>7. ASSUME UNCHANGED vars PROVE TypeOK'
  BY <1>7 DEF TypeOK, vars, history, counters
<1> QED
  BY <1>1, <1>2, <1>3, <1>4, <1>5, <1>6, <1>7 DEF Next

\* Nothing was written, opened or acknowledged.
LEMMA InitTypes == Init => TypeOK
BY NothingType DEF Init, TypeOK, Memory

-----------------------------------------------------------------------------
\* Every variable has its type, whatever is torn or glued: in particular, what
\* a handle loads from any text are tasks and traces.
THEOREM TypeCorrect == Spec => []TypeOK
<1>1. Init => TypeOK
  BY InitTypes
<1>2. TypeOK /\ [Next]_vars => TypeOK'
  BY StepTypes
<1> QED
  BY <1>1, <1>2, PTL DEF Spec

-----------------------------------------------------------------------------
(***************************************************************************)
(* The last line, and what the lines before it say.                        *)
(***************************************************************************)
\* There is one last line, and nothing that parses begins after it.
LEMMA OneLastLine ==
  ASSUME NEW s \in Seq(Piece), NEW p \in 1..(Len(s) + 1), LastLine(s, p)
  PROVE  /\ \A q \in 1..(Len(s) + 1) : LastLine(s, q) => q = p
         /\ \A id \in Ids : \A i \in task_lines(s, id) : i <= p
<1>1. ASSUME NEW q \in 1..(Len(s) + 1), q > p PROVE ~Begins(s, q)
  <2>1. q - 1 \in p..Len(s) /\ q # 1
    BY <1>1
  <2> QED
    BY <2>1 DEF LastLine, Begins
<1>2. ASSUME NEW q \in 1..(Len(s) + 1), LastLine(s, q) PROVE ~(p > q)
  <2>1. ASSUME p > q PROVE FALSE
    <3>1. p - 1 \in q..Len(s) /\ p # 1
      BY <2>1
    <3> QED
      BY <1>2, <3>1 DEF LastLine, Begins
  <2> QED
    BY <2>1
<1>3. \A q \in 1..(Len(s) + 1) : LastLine(s, q) => q = p
  BY <1>1, <1>2 DEF LastLine
<1>4. \A id \in Ids : \A i \in task_lines(s, id) : i <= p
  BY <1>1 DEF task_lines
<1> QED
  BY <1>3, <1>4

\* Lines that read the same say the same.
LEMMA SameLines ==
  ASSUME NEW s \in Seq(Piece), NEW t \in Seq(Piece), NEW id \in Ids,
         NEW S \in SUBSET task_lines(s, id),
         \A i \in task_lines(s, id) : TaskAt(t, i) = TaskAt(s, i)
  PROVE  Says(t, S) = Says(s, S)
<1>1. S \in SUBSET (1..Len(s)) /\ Len(s) \in Nat
  BY DEF task_lines
<1>2. CASE S = {}
  BY <1>2 DEF Says
<1>3. CASE S # {}
  <2>1. Max(S) \in S
    BY <1>1, <1>3, LastPlace
  <2> QED
    BY <1>3, <2>1 DEF Says
<1> QED
  BY <1>2, <1>3

\* The last of a task's lines is what is read of it.
LEMMA LastSays ==
  ASSUME NEW s \in Seq(Piece), NEW id \in Ids, NEW p \in task_lines(s, id),
         \A i \in task_lines(s, id) : i <= p
  PROVE  Says(s, task_lines(s, id)) = TaskAt(s, p)
<1> DEFINE S == task_lines(s, id)
<1>1. S \in SUBSET (1..Len(s)) /\ Len(s) \in Nat /\ S # {}
  BY DEF task_lines
<1>2. Max(S) \in S /\ \A i \in S : i <= Max(S)
  BY <1>1, LastPlace
<1>3. Max(S) = p
  BY <1>1, <1>2
<1> QED
  BY <1>1, <1>3 DEF Says

\* Of the whole text, too, an old or a new state is read.
LEMMA WholeText ==
  ASSUME TypeOK, TailInv, SeenInv, NEW id \in Ids, ~glued[id]
  PROVE  Says(file, task_lines(file, id)) \in OldOrNew(id)
<1>1. file \in Seq(Piece)
  BY DEF TypeOK
<1>2. PICK p \in 1..(Len(file) + 1) : LastLine(file, p)
  BY DEF TailInv
<1>3. CASE p \in task_lines(file, id)
  <2>1. \A i \in task_lines(file, id) : i <= p
    BY <1>1, <1>2, OneLastLine
  <2>2. Says(file, task_lines(file, id)) = TaskAt(file, p)
    BY <1>1, <1>3, <2>1, LastSays
  <2> QED
    BY <1>2, <1>3, <2>2 DEF SeenInv
<1>4. CASE p \notin task_lines(file, id)
  <2>1. task_lines(file, id) \ {p} = task_lines(file, id)
    BY <1>4
  <2> QED
    BY <1>2, <2>1 DEF SeenInv
<1> QED
  BY <1>3, <1>4

\* Torn lines can be counted.
LEMMA TornCount ==
  ASSUME NEW s \in Seq(Piece)
  PROVE  IsFiniteSet(TornLines(s)) /\ Cardinality(TornLines(s)) \in Nat
<1>1. TornLines(s) \in SUBSET (1..Len(s)) /\ Len(s) \in Int /\ 1 \in Int
  BY DEF TornLines
<1>2. IsFiniteSet(1..Len(s))
  BY <1>1, FS_Interval
<1>3. IsFiniteSet(TornLines(s))
  BY <1>1, <1>2, FS_Subset
<1> QED
  BY <1>3, FS_CardinalityType

-----------------------------------------------------------------------------
(***************************************************************************)
(* A line is written.                                                      *)
(***************************************************************************)
\* Nothing is being written but by w.
Only(w) == \A v \in Writers : stage[v] = "writing" => v = w

\* How a line begins.
LEMMA LineBegun ==
  ASSUME IInv, NEW w \in Writers, NEW id \in Ids, stage[w] # "writing", Only(w)', Only(w),
         \/ \E t \in Task : record(w, id, t)
         \/ \E tr \in Trace : begin(w, trace_line(id, tr), id, NoTask, tr) /\ UNCHANGED tried
  PROVE  JobInv' /\ SeenInv' /\ DamageInv' /\ TailInv'
<1>1. PICK t \in Task \cup {NoTask}, tr \in Trace :
        /\ begin(w, IF t # NoTask THEN state_line(id, t) ELSE trace_line(id, tr), id, t, tr)
        /\ tried' = IF t # NoTask THEN [tried EXCEPT ![id] = @ \cup {t}] ELSE tried
  <2>1. CASE \E t \in Task : record(w, id, t)
    <3>1. NoTask \notin Task /\ NoTrace \in Trace
      BY DEF NoTask, Task, State, NoTrace, Trace, Execution
    <3> QED
      BY <2>1, <3>1 DEF record
  <2>2. CASE \E tr \in Trace : begin(w, trace_line(id, tr), id, NoTask, tr) /\ UNCHANGED tried
    BY <2>2
  <2> QED
    BY <2>1, <2>2
<1> DEFINE j == job'[w]
<1>2. /\ j = [rest |-> IF t # NoTask THEN state_line(id, t) ELSE trace_line(id, tr), id |-> id,
              task |-> t, trace |-> tr, glued |-> Torn, next |-> stage[w]]
      /\ UNCHANGED <<file, acked, glued, crashes>> /\ stage' = [stage EXCEPT ![w] = "writing"]
  BY <1>1 DEF begin, IInv, TypeOK
<1>3. j.rest = Line(j) /\ j.task = t /\ j.id = id /\ j.glued = Torn
  BY <1>2 DEF Line
<1>4. Line(j) \in Seq(Piece)
  <2>1. t # NoTask => t \in Task
    OBVIOUS
  <2> QED
    BY <1>2, <2>1, StateLine, TraceLine DEF Line
<1>5. tried \in [Ids -> SUBSET Task] /\ Len(file) \in Nat
  BY DEF IInv, TypeOK
<1>6. JobInv'
  <2>1. WrittenAs(file, job[w], 0)'
    <3>1. Begins(file, Len(file) + 1) <=> ~j.glued
      BY <1>3 DEF Torn
    <3>2. Len(file) - 0 + 1 = Len(file) + 1 /\ \A i \in 1..Len(j.rest) : 0 + i = i
      BY <1>4, <1>3
    <3> QED
      BY <1>2, <1>3, <1>4, <1>5, <3>1, <3>2 DEF WrittenAs
  <2>2. j.task # NoTask => j.task \in tried'[j.id]
    BY <1>1, <1>3, <1>5
  <2>3. 0 \in 0..Len(Line(j))
    BY <1>4
  <2>4. ASSUME NEW v \in Writers, stage'[v] = "writing" PROVE v = w
    BY <2>4 DEF Only
  <2> QED
    BY <2>1, <2>2, <2>3, <2>4 DEF JobInv
<1>7. SeenInv'
  <2>1. \A k \in Ids : OldOrNew(k) \subseteq OldOrNew(k)'
    BY <1>1, <1>2, <1>5 DEF OldOrNew
  <2>2. SeenInv /\ file' = file /\ glued' = glued
    BY <1>2 DEF IInv
  <2> QED
    BY <2>1, <2>2 DEF SeenInv
<1>8. DamageInv'
  <2>1. Broken' => Broken
    BY <1>2, <1>3 DEF Broken, Torn, Only
  <2>2. UNCHANGED <<file, crashes>> /\ DamageInv
    BY <1>2 DEF IInv
  <2>3. Cardinality(TornLines(file)) \in Nat /\ crashes \in Nat
    BY TornCount DEF IInv, TypeOK
  <2> QED
    BY <2>1, <2>2, <2>3 DEF DamageInv
<1>9. TailInv'
  BY <1>2 DEF IInv, TailInv
<1> QED
  BY <1>6, <1>7, <1>8, <1>9

\* A line that is half written is the last one, or part of the last one.
LEMMA HalfWritten ==
  ASSUME NEW s \in Seq(Piece), NEW j \in Job, NEW n \in Nat, n < Len(Line(j)),
         WrittenAs(s, j, n)
  PROVE  /\ j.glued => ~Begins(s, Len(s) + 1)
         /\ ~j.glued => Len(s) - n + 1 \in 1..(Len(s) + 1) /\ LastLine(s, Len(s) - n + 1)
<1> DEFINE first == Len(s) - n + 1
<1>1. Len(s) \in Nat /\ n <= Len(s) /\ first \in 1..(Len(s) + 1)
  BY DEF WrittenAs
<1>2. ASSUME NEW i \in first..Len(s) PROVE s[i] # NewLine
  <2>1. i - first + 1 \in 1..n /\ first + (i - first + 1) - 1 = i
    BY <1>1
  <2>2. s[i] = Line(j)[i - first + 1]
    BY <2>1 DEF WrittenAs
  <2>3. Line(j)[i - first + 1] = NewLine <=> i - first + 1 = Len(Line(j))
    BY <2>1, LineOfJob
  <2> QED
    BY <2>1, <2>2, <2>3
<1>3. ASSUME j.glued PROVE ~Begins(s, Len(s) + 1)
  <2>1. ~Begins(s, first)
    BY <1>3 DEF WrittenAs
  <2>2. CASE n = 0
    BY <1>1, <2>1, <2>2
  <2>3. CASE n > 0
    <3>1. Len(s) \in first..Len(s) /\ Len(s) + 1 # 1 /\ Len(s) + 1 - 1 = Len(s)
      BY <1>1, <2>3
    <3> QED
      BY <1>2, <3>1 DEF Begins
  <2> QED
    BY <2>2, <2>3
<1>4. ASSUME ~j.glued PROVE LastLine(s, first)
  BY <1>1, <1>2, <1>4 DEF WrittenAs, LastLine
<1> QED
  BY <1>1, <1>3, <1>4

\* A line that is wholly written ends the text, and reads as what it is
\* unless it is glued.
LEMMA WholeWritten ==
  ASSUME NEW s \in Seq(Piece), NEW j \in Job, NEW n \in Nat, n = Len(Line(j)),
         WrittenAs(s, j, n)
  PROVE  LET first == Len(s) - n + 1
         IN /\ Begins(s, Len(s) + 1) /\ LastLine(s, Len(s) + 1)
            /\ first \in 1..Len(s)
            /\ ~j.glued => Begins(s, first) /\ (parse_state(s, first) \/ parse_trace(s, first))
            /\ ~j.glued /\ j.task # NoTask =>
                 /\ first \in task_lines(s, j.id) /\ TaskAt(s, first) = j.task
                 /\ \A i \in task_lines(s, j.id) : i <= first
<1> DEFINE first == Len(s) - n + 1
<1>1. Len(s) \in Nat /\ n <= Len(s) /\ first \in 1..Len(s) /\ n \in {8, 10}
  <2>1. n \in {8, 10}
    BY LineOfJob
  <2>2. Len(s) \in Nat /\ n <= Len(s)
    BY DEF WrittenAs
  <2> QED
    BY <2>1, <2>2
<1>2. \A i \in 1..n : s[first + i - 1] = Line(j)[i] /\ (s[first + i - 1] = NewLine <=> i = n)
  BY LineOfJob DEF WrittenAs
<1>3. s[Len(s)] = NewLine
  <2>1. n \in 1..n /\ first + n - 1 = Len(s)
    BY <1>1
  <2> QED
    BY <1>2, <2>1
<1>4. Begins(s, Len(s) + 1) /\ LastLine(s, Len(s) + 1)
  BY <1>1, <1>3 DEF Begins, LastLine
<1>5. /\ s[first] = Line(j)[1] /\ s[first + 1] = Line(j)[2] /\ s[first + 2] = Line(j)[3]
      /\ s[first + 3] = Line(j)[4] /\ s[first + 4] = Line(j)[5] /\ s[first + 5] = Line(j)[6]
      /\ s[first + 6] = Line(j)[7] /\ s[first + 7] = Line(j)[8]
  BY <1>1, <1>2
<1>6. j.id \in Ids /\ j.trace \in Trace /\ (j.task # NoTask => j.task \in Task)
  BY DEF Job
<1>7. ASSUME ~j.glued PROVE Begins(s, first)
  BY <1>7 DEF WrittenAs
<1>8. ASSUME ~j.glued, j.task # NoTask
      PROVE  /\ parse_state(s, first) /\ s[first] = Word(j.id) /\ TaskAt(s, first) = j.task
             /\ \A i \in task_lines(s, j.id) : i <= first
  <2> DEFINE l == state_line(j.id, j.task)
  <2>1. Line(j) = l
    BY <1>8 DEF Line
  <2>2. /\ Len(l) = 8
        /\ l[1] = Word(j.id) /\ l[2] = Tab /\ l[3] = Word(j.task.state) /\ l[4] = Tab
        /\ l[6] = Tab /\ l[5] = Number(j.task.attempts)
    BY <1>6, <1>8, StateLine
  <2> HIDE DEF l
  <2>3. /\ s[first] = Word(j.id) /\ s[first + 1] = Tab /\ s[first + 2] = Word(j.task.state)
        /\ s[first + 3] = Tab /\ s[first + 4] = Number(j.task.attempts) /\ s[first + 5] = Tab
    BY <1>5, <2>1, <2>2
  <2>4. j.task.state \in State /\ j.task = TaskOf(j.task.state, j.task.attempts)
    BY <1>6, <1>8 DEF Task, TaskOf
  <2>5. first + 4 <= Len(s) /\ FieldEnds(s, first + 4)
    <3>1. first + 4 + 1 = first + 5 /\ first + 4 <= Len(s)
      BY <1>1
    <3> QED
      BY <2>3, <3>1 DEF FieldEnds
  <2>6. parse_state(s, first)
    BY <2>3, <2>4, <2>5, Pieces DEF parse_state
  <2>7. TaskAt(s, first) = j.task
    BY <2>3, <2>4, Pieces DEF TaskAt
  <2>8. ASSUME NEW i \in task_lines(s, j.id), i > first PROVE FALSE
    <3>1. i \in 1..Len(s) /\ Begins(s, i) /\ i # 1
      BY <1>1, <2>8 DEF task_lines
    <3>2. i - first \in 1..n /\ first + (i - first) - 1 = i - 1 /\ i - first # n
      BY <1>1, <2>8, <3>1
    <3>3. s[i - 1] # NewLine
      BY <1>2, <3>2
    <3> QED
      BY <3>1, <3>3 DEF Begins
  <2>9. \A i \in task_lines(s, j.id) : i <= first
    BY <1>1, <2>8 DEF task_lines
  <2> QED
    BY <2>3, <2>6, <2>7, <2>9
<1>9. ASSUME ~j.glued, j.task = NoTask PROVE parse_trace(s, first)
  <2> DEFINE l == trace_line(j.id, j.trace)
  <2>1. Line(j) = l
    BY <1>9 DEF Line
  <2>2. /\ Len(l) = 10
        /\ l[1] = Word("trace") /\ l[2] = Tab /\ l[3] = Word(j.id) /\ l[4] = Tab
        /\ l[5] = Number(j.trace.attempt) /\ l[6] = Tab /\ l[7] = <<"facts", j.trace.exec>>
        /\ l[8] = Tab /\ l[9] = Number(0) /\ l[10] = NewLine
    BY <1>6, TraceLine
  <2> HIDE DEF l
  <2>3. n = 10 /\ s[first + 8] = Line(j)[9] /\ s[first + 9] = Line(j)[10]
    <3>1. n = 10
      BY <2>1, <2>2
    <3>2. 9 \in 1..n /\ 10 \in 1..n /\ first + 9 - 1 = first + 8 /\ first + 10 - 1 = first + 9
      BY <1>1, <3>1
    <3> QED
      BY <1>2, <3>1, <3>2
  <2>4. /\ s[first] = Word("trace") /\ s[first + 1] = Tab /\ s[first + 2] = Word(j.id)
        /\ s[first + 3] = Tab /\ s[first + 4] = Number(j.trace.attempt) /\ s[first + 5] = Tab
        /\ s[first + 6][1] = "facts" /\ s[first + 7] = Tab /\ s[first + 8] = Number(0)
        /\ s[first + 9] = NewLine
    BY <1>5, <2>1, <2>2, <2>3
  <2>5. first + 8 <= Len(s) /\ FieldEnds(s, first + 8)
    <3>1. first + 8 + 1 = first + 9 /\ first + 8 <= Len(s)
      BY <1>1, <2>3
    <3> QED
      BY <2>4, <3>1 DEF FieldEnds
  <2>6. \A k \in {1, 3, 5, 7} : s[first + k] = Tab
    BY <2>4
  <2> QED
    BY <2>4, <2>5, <2>6, Pieces DEF parse_trace
<1>10. ~j.glued /\ j.task # NoTask => first \in task_lines(s, j.id)
  BY <1>1, <1>7, <1>8 DEF task_lines
<1> QED
  BY <1>1, <1>4, <1>7, <1>8, <1>9, <1>10

\* One more piece of a line.
LEMMA OneMore ==
  ASSUME NEW s \in Seq(Piece), NEW j \in Job, NEW n \in Nat, WrittenAs(s, j, n),
         j.rest # <<>>
  PROVE  LET t == Append(s, Head(j.rest))
             k == [j EXCEPT !.rest = Tail(@)]
         IN /\ n < Len(Line(j)) /\ Head(j.rest) = Line(j)[n + 1] /\ Head(j.rest) \in Piece
            /\ k \in Job /\ Line(k) = Line(j) /\ WrittenAs(t, k, n + 1)
<1> DEFINE t == Append(s, Head(j.rest))
           k == [j EXCEPT !.rest = Tail(@)]
           first == Len(s) - n + 1
<1>1. j.rest \in Seq(Piece) /\ Line(j) \in Seq(Piece) /\ Len(Line(j)) \in Nat
  BY LineOfJob DEF Job
<1>2. /\ Len(j.rest) \in Nat \ {0} /\ Head(j.rest) = j.rest[1] /\ Head(j.rest) \in Piece
      /\ Tail(j.rest) \in Seq(Piece) /\ Len(Tail(j.rest)) = Len(j.rest) - 1
      /\ \A i \in 1..(Len(j.rest) - 1) : Tail(j.rest)[i] = j.rest[i + 1]
  BY <1>1
<1>3. /\ n <= Len(s) /\ Len(j.rest) = Len(Line(j)) - n
      /\ \A i \in 1..Len(j.rest) : j.rest[i] = Line(j)[n + i]
      /\ \A i \in 1..n : s[first + i - 1] = Line(j)[i]
      /\ Begins(s, first) <=> ~j.glued
  BY DEF WrittenAs
<1>4. n < Len(Line(j)) /\ Head(j.rest) = Line(j)[n + 1]
  BY <1>1, <1>2, <1>3
<1>5. k \in Job /\ k.rest = Tail(j.rest) /\ k.glued = j.glued /\ Line(k) = Line(j)
  BY <1>2 DEF Job, Line
<1>6. /\ Len(s) \in Nat /\ Len(t) = Len(s) + 1 /\ t[Len(s) + 1] = Line(j)[n + 1]
      /\ \A i \in 1..Len(s) : t[i] = s[i]
  BY <1>2, <1>4
<1> HIDE DEF t, k
<1>7. Len(t) - (n + 1) + 1 = first /\ first \in 1..Len(t)
  BY <1>3, <1>6
<1>8. Begins(t, first) <=> Begins(s, first)
  BY <1>6, <1>7 DEF Begins
<1>9. ASSUME NEW i \in 1..(n + 1) PROVE t[first + i - 1] = Line(j)[i]
  <2>1. CASE i = n + 1
    BY <1>6, <2>1
  <2>2. CASE i <= n
    <3>1. i \in 1..n /\ first + i - 1 \in 1..Len(s)
      BY <1>3, <1>6, <1>9, <2>2
    <3> QED
      BY <1>3, <1>6, <3>1
  <2> QED
    BY <2>1, <2>2
<1>10. ASSUME NEW i \in 1..Len(k.rest) PROVE k.rest[i] = Line(j)[n + 1 + i]
  <2>1. i + 1 \in 1..Len(j.rest) /\ n + (i + 1) = n + 1 + i
    BY <1>2, <1>5, <1>10
  <2> QED
    BY <1>2, <1>3, <1>5, <2>1
<1>11. n + 1 <= Len(t) /\ Len(k.rest) = Len(Line(k)) - (n + 1)
  BY <1>1, <1>2, <1>3, <1>5, <1>6
<1>12. WrittenAs(t, k, n + 1)
  BY <1>5, <1>7, <1>8, <1>9, <1>10, <1>11, <1>3 DEF WrittenAs
<1> QED
  BY <1>2, <1>4, <1>5, <1>12 DEF t, k

\* The line that is being written reads as a state line of a task as soon as
\* its third field is there, and then it says what is being written.
LEMMA LineCompleted ==
  ASSUME NEW s \in Seq(Piece), NEW j \in Job, NEW n \in Nat, n < Len(Line(j)),
         WrittenAs(s, j, n), NEW k \in Job, Line(k) = Line(j),
         NEW x \in Piece, WrittenAs(Append(s, x), k, n + 1),
         NEW p \in 1..(Len(s) + 1), LastLine(s, p), NEW id \in Ids,
         p \in task_lines(Append(s, x), id), p \notin task_lines(s, id)
  PROVE  j.task # NoTask /\ id = j.id /\ TaskAt(Append(s, x), p) = j.task
<1> DEFINE t == Append(s, x)
           first == Len(s) - n + 1
<1>1. /\ t \in Seq(Piece) /\ Len(s) \in Nat /\ Len(t) = Len(s) + 1 /\ t[Len(s) + 1] = x
      /\ \A i \in 1..Len(s) : t[i] = s[i]
  OBVIOUS
<1>2. /\ \A i \in 1..(n + 1) : t[first + i - 1] = Line(j)[i]
      /\ n <= Len(s) /\ first \in 1..Len(t)
  <2>1. Len(t) - (n + 1) + 1 = first
    BY <1>1
  <2>2. \A i \in 1..(n + 1) : t[first + i - 1] = Line(j)[i]
    BY <2>1 DEF WrittenAs
  <2>3. n <= Len(s)
    BY DEF WrittenAs
  <2>4. first \in 1..Len(t)
    BY <1>1, <2>3
  <2> QED
    BY <2>2, <2>3, <2>4
<1>3. parse_state(t, p) /\ t[p] = Word(id) /\ p \in 1..Len(t)
  BY DEF task_lines
<1> HIDE DEF t
<1>4. p + 4 = Len(t)
  <2>1. p + 4 <= Len(t)
    BY <1>3 DEF parse_state
  <2>2. ASSUME p + 4 <= Len(s) PROVE FALSE
    <3>1. p \in 1..Len(s) /\ s[p] = t[p] /\ Begins(s, p)
      BY <1>1, <2>2 DEF LastLine
    <3>2. parse_state(s, p)
      <4>1. CASE p + 5 <= Len(s)
        <5>1. p \in Nat \ {0} /\ Len(s) <= Len(t) /\ Len(s) <= Len(s)
          BY <1>1
        <5>2. parse_state(t, p) <=> parse_state(s, p)
          BY <1>1, <4>1, <5>1, SameSpan
        <5> QED
          BY <1>3, <5>2
      <4>2. CASE p + 4 = Len(s)
        BY <1>1, <1>3, <4>2 DEF parse_state, FieldEnds
      <4> QED
        BY <1>1, <2>2, <4>1, <4>2
    <3> QED
      BY <1>3, <3>1, <3>2 DEF task_lines
  <2> QED
    BY <1>1, <2>1, <2>2
<1>5. n + 1 \in {5, 9}
  <2>1. first + (n + 1) - 1 = p + 4 /\ n + 1 \in 1..(n + 1) /\ n + 1 \in 1..Len(Line(j))
    BY <1>1, <1>4, LineOfJob
  <2>2. Line(j)[n + 1][1] = "number"
    BY <1>2, <1>3, <2>1 DEF parse_state
  <2> QED
    BY <2>1, <2>2, LineOfJob
<1>6. n = 4
  <2>1. ASSUME n = 8 PROVE FALSE
    <3>1. first + 5 - 1 = p /\ 5 \in 1..(n + 1)
      BY <1>1, <1>4, <2>1
    <3>2. Line(j)[5] = Word(id)
      BY <1>2, <1>3, <3>1
    <3>3. Line(j)[5][1] = "number"
      <4>1. j.id \in Ids /\ j.trace \in Trace /\ (j.task # NoTask => j.task \in Task)
        BY DEF Job
      <4>2. CASE j.task # NoTask
        <5>1. Line(j)[5] = Number(j.task.attempts)
          BY <4>1, <4>2, StateLine DEF Line
        <5> QED
          BY <5>1, Pieces
      <4>3. CASE j.task = NoTask
        <5>1. Line(j)[5] = Number(j.trace.attempt)
          BY <4>1, <4>3, TraceLine DEF Line
        <5> QED
          BY <5>1, Pieces
      <4> QED
        BY <4>2, <4>3
    <3> QED
      BY <3>2, <3>3, Pieces
  <2> QED
    BY <1>5, <2>1
<1>7. first = p /\ t[p] = Line(j)[1] /\ t[p + 2] = Line(j)[3] /\ t[p + 4] = Line(j)[5]
  BY <1>1, <1>2, <1>4, <1>6
<1>8. j.id \in Ids /\ j.trace \in Trace /\ (j.task # NoTask => j.task \in Task)
  BY DEF Job
<1>9. j.task # NoTask
  <2>1. ASSUME j.task = NoTask PROVE FALSE
    <3>1. Line(j)[1] = Word("trace")
      BY <1>8, <2>1, TraceLine DEF Line
    <3>2. Word("trace") # Word(id)
      BY Pieces
    <3> QED
      BY <1>3, <1>7, <3>1, <3>2
  <2> QED
    BY <2>1
<1>10. /\ Line(j)[1] = Word(j.id) /\ Line(j)[3] = Word(j.task.state)
       /\ Line(j)[5] = Number(j.task.attempts)
  BY <1>8, <1>9, StateLine DEF Line
<1>11. id = j.id
  <2>1. Word(id) = Word(j.id)
    BY <1>3, <1>7, <1>10
  <2> QED
    BY <2>1 DEF Word
<1>12. TaskAt(t, p) = j.task
  <2>1. TaskAt(t, p) = TaskOf(j.task.state, j.task.attempts)
    BY <1>7, <1>10, Pieces DEF TaskAt
  <2> QED
    BY <1>8, <1>9, <2>1 DEF TaskOf, Task
<1> QED
  BY <1>9, <1>11, <1>12 DEF t

\* Piece by piece, the line stays where it began.
LEMMA AppendStep ==
  ASSUME IInv, NEW w \in Writers, append(w), Only(w)
  PROVE  JobInv' /\ SeenInv' /\ DamageInv' /\ TailInv'
<1> DEFINE j == job[w]
           x == Head(j.rest)
           t == Append(file, x)
           k == [j EXCEPT !.rest = Tail(@)]
<1>1. /\ file \in Seq(Piece) /\ j \in Job /\ Len(file) \in Nat
      /\ stage[w] = "writing" /\ j.rest # <<>>
      /\ file' = t /\ job' = [job EXCEPT ![w] = k]
      /\ UNCHANGED <<stage, acked, tried, glued, crashes>>
  BY DEF IInv, TypeOK, append, history, counters
<1>2. PICK n \in 0..Len(Line(j)) : WrittenAs(file, j, n)
  BY <1>1 DEF IInv, JobInv
<1>3. n \in Nat /\ job'[w] = k
  BY <1>1, <1>2, LineOfJob DEF IInv, TypeOK
<1>4. /\ n < Len(Line(j)) /\ x = Line(j)[n + 1] /\ x \in Piece
      /\ k \in Job /\ Line(k) = Line(j) /\ WrittenAs(t, k, n + 1)
  BY <1>1, <1>2, <1>3, OneMore
<1>5. k.task = j.task /\ k.id = j.id /\ k.glued = j.glued
  OBVIOUS
<1>6. /\ t \in Seq(Piece) /\ Len(t) = Len(file) + 1 /\ t[Len(file) + 1] = x
      /\ \A i \in 1..Len(file) : t[i] = file[i]
  BY <1>1, <1>4
<1>7. PICK p \in 1..(Len(file) + 1) : LastLine(file, p)
  BY DEF IInv, TailInv
<1>8. /\ \A q \in 1..(Len(file) + 1) : LastLine(file, q) => q = p
      /\ \A id \in Ids : \A i \in task_lines(file, id) : i <= p
  BY <1>1, <1>7, OneLastLine
<1>9. \A id \in Ids : OldOrNew(id)' = OldOrNew(id)
  BY <1>1 DEF OldOrNew
<1>10. (j.glued => Torn) /\ (~j.glued => p = Len(file) - n + 1)
  BY <1>1, <1>2, <1>3, <1>4, <1>8, HalfWritten DEF Torn
<1>11. j.task # NoTask => j.task \in tried[j.id]
  BY <1>1 DEF IInv, JobInv
<1>12. IsFiniteSet(TornLines(file)) /\ Cardinality(TornLines(file)) \in Nat /\ crashes \in Nat
  BY <1>1, TornCount DEF IInv, TypeOK
<1> HIDE DEF j, x, t, k
<1>13. JobInv'
  <2>1. n + 1 \in 0..Len(Line(k))
    BY <1>3, <1>4, LineOfJob
  <2>2. k.task # NoTask => k.task \in tried[k.id]
    BY <1>5, <1>11
  <2>3. ASSUME NEW v \in Writers, stage'[v] = "writing" PROVE v = w
    BY <1>1, <2>3 DEF Only
  <2> QED
    BY <1>1, <1>3, <1>4, <2>1, <2>2, <2>3 DEF JobInv
<1>14. CASE x # NewLine
  <2>1. /\ LastLine(t, p) /\ TornLines(t) = TornLines(file)
        /\ \A id \in Ids : task_lines(t, id) \ {p} = task_lines(file, id) \ {p}
        /\ \A id \in Ids : \A i \in task_lines(file, id) : TaskAt(t, i) = TaskAt(file, i)
    BY <1>1, <1>4, <1>7, <1>14, PieceAdded DEF t
  <2>2. p \in 1..(Len(t) + 1)
    BY <1>1, <1>6
  <2>3. TailInv'
    BY <1>1, <2>1, <2>2 DEF TailInv
  <2>4. SeenInv'
    <3>1. ASSUME NEW id \in Ids, ~glued[id]
          PROVE  Says(t, task_lines(t, id) \ {p}) \in OldOrNew(id)
      <4>1. Says(t, task_lines(file, id) \ {p}) = Says(file, task_lines(file, id) \ {p})
        BY <1>1, <1>6, <2>1, SameLines
      <4> QED
        BY <1>7, <2>1, <3>1, <4>1 DEF IInv, SeenInv
    <3>2. ASSUME NEW id \in Ids, ~glued[id], p \in task_lines(t, id)
          PROVE  TaskAt(t, p) \in OldOrNew(id)
      <4>1. CASE p \in task_lines(file, id)
        BY <1>7, <2>1, <3>2, <4>1 DEF IInv, SeenInv
      <4>2. CASE p \notin task_lines(file, id)
        <5>1. j.task # NoTask /\ id = j.id /\ TaskAt(t, p) = j.task
          BY <1>1, <1>2, <1>3, <1>4, <1>7, <3>2, <4>2, LineCompleted DEF t
        <5> QED
          BY <1>11, <5>1 DEF OldOrNew
      <4> QED
        BY <4>1, <4>2
    <3>3. \A q \in 1..(Len(t) + 1) : LastLine(t, q) => q = p
      BY <1>6, <2>1, <2>2, OneLastLine
    <3> QED
      BY <1>1, <1>9, <3>1, <3>2, <3>3 DEF SeenInv
  <2>5. DamageInv'
    <3>1. Broken' => j.glued
      BY <1>1, <1>3, <1>5 DEF Broken
    <3>2. j.glued => Broken
      <4>1. \A v \in Writers : stage[v] = "writing" => v = w
        BY DEF Only
      <4> QED
        BY <1>10, <4>1 DEF Broken, j
    <3> QED
      BY <1>1, <1>12, <2>1, <3>1, <3>2 DEF DamageInv, IInv
  <2> QED
    BY <1>13, <2>3, <2>4, <2>5
<1>15. CASE x = NewLine
  <2>1. /\ \A i \in 1..Len(file) :
             /\ t[i] = file[i] /\ (Begins(t, i) <=> Begins(file, i))
             /\ parse_state(t, i) <=> parse_state(file, i)
             /\ parse_trace(t, i) <=> parse_trace(file, i)
             /\ parse_state(file, i) => TaskAt(t, i) = TaskAt(file, i)
        /\ \A id \in Ids : task_lines(t, id) = task_lines(file, id)
    BY <1>1, <1>15, NewLineAdded DEF t
  <2>2. n + 1 = Len(Line(k)) /\ n + 1 \in Nat
    <3>1. n + 1 \in 1..Len(Line(j))
      BY <1>3, <1>4, LineOfJob
    <3>2. Line(j)[n + 1] = NewLine <=> n + 1 = Len(Line(j))
      BY <1>1, <3>1, LineOfJob
    <3> QED
      BY <1>3, <1>4, <1>15, <3>2
  <2>3. LET first == Len(t) - (n + 1) + 1
        IN /\ Begins(t, Len(t) + 1) /\ LastLine(t, Len(t) + 1)
           /\ ~k.glued => (parse_state(t, first) \/ parse_trace(t, first))
    BY <1>4, <1>6, <2>2, WholeWritten
  <2>4. Len(t) + 1 \in 1..(Len(t) + 1)
    BY <1>1, <1>6
  <2>5. TailInv'
    BY <1>1, <2>3, <2>4 DEF TailInv
  <2>6. SeenInv'
    <3>1. ASSUME NEW id \in Ids, ~glued[id] PROVE Says(t, task_lines(t, id)) \in OldOrNew(id)
      <4>1. \A i \in task_lines(file, id) : TaskAt(t, i) = TaskAt(file, i)
        BY <2>1 DEF task_lines
      <4>2. Says(t, task_lines(file, id)) = Says(file, task_lines(file, id))
        BY <1>1, <1>6, <4>1, SameLines
      <4> QED
        BY <2>1, <3>1, <4>2, WholeText DEF IInv
    <3>2. \A id \in Ids : Len(t) + 1 \notin task_lines(t, id)
      BY <1>1, <1>6 DEF task_lines
    <3>3. \A id \in Ids : task_lines(t, id) \ {Len(t) + 1} = task_lines(t, id)
      BY <3>2
    <3>4. \A q \in 1..(Len(t) + 1) : LastLine(t, q) => q = Len(t) + 1
      BY <1>6, <2>3, <2>4, OneLastLine
    <3> QED
      BY <1>1, <1>9, <3>1, <3>2, <3>3, <3>4 DEF SeenInv
  <2>7. DamageInv'
    <3>1. ~Broken'
      BY <1>1, <2>3 DEF Broken, Torn
    <3>2. TornLines(t) \subseteq TornLines(file) \cup {p}
      <4>1. ASSUME NEW i \in TornLines(t), i # p PROVE i \in TornLines(file)
        <5>1. i \in 1..Len(t) /\ Begins(t, i) /\ ~parse_trace(t, i) /\ ~parse_state(t, i)
          BY DEF TornLines
        <5>2. i < p
          <6>1. ASSUME i > p PROVE FALSE
            <7>1. i - 1 \in p..Len(file) /\ i # 1
              BY <1>1, <1>6, <5>1, <6>1
            <7>2. t[i - 1] # NewLine
              BY <1>1, <1>6, <1>7, <7>1 DEF LastLine
            <7> QED
              BY <5>1, <7>1, <7>2 DEF Begins
          <6> QED
            BY <4>1, <5>1, <6>1
        <5>3. i \in 1..Len(file) /\ p - 1 \in i..Len(file) /\ file[p - 1] = NewLine
          BY <1>1, <1>7, <5>1, <5>2 DEF LastLine, Begins
        <5>4. Ended(file, i)
          BY <5>3 DEF Ended
        <5>5. Begins(file, i) /\ ~parse_trace(file, i) /\ ~parse_state(file, i)
          BY <2>1, <5>1, <5>3
        <5> QED
          BY <5>3, <5>4, <5>5 DEF TornLines
      <4> QED
        BY <4>1
    <3>3. Cardinality(TornLines(t)) <= crashes
      <4>1. CASE j.glued
        <5>1. Broken
          <6>1. \A v \in Writers : stage[v] = "writing" => v = w
            BY DEF Only
          <6> QED
            BY <1>10, <4>1, <6>1 DEF Broken, j
        <5>2. Cardinality(TornLines(file)) + 1 <= crashes
          BY <5>1 DEF IInv, DamageInv
        <5>3. /\ IsFiniteSet(TornLines(file) \cup {p})
              /\ Cardinality(TornLines(file) \cup {p}) <= Cardinality(TornLines(file)) + 1
          <6>1. /\ IsFiniteSet(TornLines(file) \cup {p})
                /\ Cardinality(TornLines(file) \cup {p}) =
                     IF p \in TornLines(file) THEN Cardinality(TornLines(file))
                                              ELSE Cardinality(TornLines(file)) + 1
            BY <1>12, FS_AddElement
          <6> QED
            BY <1>12, <6>1
        <5>4. Cardinality(TornLines(t)) <= Cardinality(TornLines(file) \cup {p})
          BY <3>2, <5>3, FS_Subset
        <5>5. Cardinality(TornLines(t)) \in Nat
          BY <1>6, TornCount
        <5>6. Cardinality(TornLines(file) \cup {p}) \in Nat
          BY <5>3, FS_CardinalityType
        <5> QED
          BY <1>12, <5>2, <5>3, <5>4, <5>5, <5>6
      <4>2. CASE ~j.glued
        <5>1. p \notin TornLines(t)
          <6>1. Len(t) - (n + 1) + 1 = p
            BY <1>1, <1>3, <1>6, <1>10, <4>2
          <6> QED
            BY <1>5, <2>3, <4>2, <6>1 DEF TornLines
        <5>2. TornLines(t) \subseteq TornLines(file)
          BY <3>2, <5>1
        <5>3. Cardinality(TornLines(t)) <= Cardinality(TornLines(file))
          BY <1>12, <5>2, FS_Subset
        <5>4. Cardinality(TornLines(file)) <= crashes
          BY <1>12 DEF IInv, DamageInv
        <5>5. Cardinality(TornLines(t)) \in Nat
          BY <1>6, TornCount
        <5> QED
          BY <1>12, <5>3, <5>4, <5>5
      <4> QED
        BY <4>1, <4>2
    <3>4. Cardinality(TornLines(t)) \in Nat
      BY <1>6, TornCount
    <3> QED
      BY <1>1, <3>1, <3>3, <3>4 DEF DamageInv
  <2> QED
    BY <1>13, <2>5, <2>6, <2>7
<1> QED
  BY <1>14, <1>15

\* A line that was synchronized is the last that names its task.
LEMMA AcknowledgeStep ==
  ASSUME IInv, NEW w \in Writers, acknowledge(w), Only(w)
  PROVE  JobInv' /\ SeenInv' /\ DamageInv' /\ TailInv'
<1> DEFINE j == job[w]
<1>1. /\ file \in Seq(Piece) /\ Len(file) \in Nat /\ j \in Job /\ j.id \in Ids
      /\ stage[w] = "writing" /\ j.rest = <<>> /\ stage' = [stage EXCEPT ![w] = j.next]
      /\ job' = [job EXCEPT ![w] = NoJob] /\ UNCHANGED <<file, crashes>>
  BY DEF IInv, TypeOK, acknowledge, counters, Job
<1>2. stage'[w] # "writing" /\ \A v \in Writers \ {w} : stage'[v] = stage[v]
  BY <1>1 DEF IInv, TypeOK, Job
<1>3. \A v \in Writers : stage'[v] # "writing"
  BY <1>2 DEF Only
<1>4. PICK n \in 0..Len(Line(j)) : WrittenAs(file, j, n)
  BY <1>1 DEF IInv, JobInv
<1>5. n = Len(Line(j)) /\ n \in Nat
  BY <1>1, <1>4, LineOfJob DEF WrittenAs
<1> DEFINE first == Len(file) - n + 1
<1>6. /\ Begins(file, Len(file) + 1) /\ LastLine(file, Len(file) + 1) /\ first \in 1..Len(file)
      /\ ~j.glued /\ j.task # NoTask =>
           /\ first \in task_lines(file, j.id) /\ TaskAt(file, first) = j.task
           /\ \A i \in task_lines(file, j.id) : i <= first
  BY <1>1, <1>4, <1>5, WholeWritten
<1> HIDE DEF j, first
<1>7. JobInv'
  BY <1>3 DEF JobInv
<1>8. TailInv'
  BY <1>1 DEF TailInv, IInv
<1>9. DamageInv'
  <2>1. ~Broken'
    BY <1>1, <1>6 DEF Broken, Torn
  <2>2. Cardinality(TornLines(file)) \in Nat /\ crashes \in Nat
    BY <1>1, TornCount DEF IInv, TypeOK
  <2> QED
    BY <1>1, <2>1, <2>2 DEF DamageInv, IInv
<1>10. SeenInv'
  <2>1. CASE j.task = NoTask
    <3>1. UNCHANGED <<file, acked, tried, glued>>
      BY <1>1, <2>1 DEF acknowledge, j
    <3> QED
      BY <3>1 DEF SeenInv, OldOrNew, IInv
  <2>2. CASE j.task # NoTask
    <3>1. /\ acked' = [acked EXCEPT ![j.id] = j.task] /\ glued' = [glued EXCEPT ![j.id] = j.glued]
          /\ \A id \in Ids \ {j.id} : tried'[id] = tried[id]
      BY <1>1, <2>2 DEF acknowledge, j, IInv, TypeOK
    <3>2. \A id \in Ids \ {j.id} : OldOrNew(id)' = OldOrNew(id) /\ glued'[id] = glued[id]
      BY <3>1 DEF OldOrNew, IInv, TypeOK
    <3>3. acked'[j.id] = j.task /\ glued'[j.id] = j.glued
      BY <1>1, <3>1 DEF IInv, TypeOK
    <3>4. ASSUME NEW id \in Ids, NEW p \in 1..(Len(file) + 1), ~glued'[id], LastLine(file, p)
          PROVE  /\ Says(file, task_lines(file, id) \ {p}) \in OldOrNew(id)'
                 /\ p \in task_lines(file, id) => TaskAt(file, p) \in OldOrNew(id)'
      <4>1. CASE id # j.id
        BY <3>2, <3>4, <4>1 DEF SeenInv, IInv
      <4>2. CASE id = j.id
        <5>1. p = Len(file) + 1
          <6>1. Len(file) + 1 \in 1..(Len(file) + 1)
            BY <1>1
          <6> QED
            BY <1>1, <1>6, <3>4, <6>1, OneLastLine
        <5>2. p \notin task_lines(file, id)
          BY <1>1, <5>1 DEF task_lines
        <5>3. task_lines(file, id) \ {p} = task_lines(file, id)
          BY <5>2
        <5>4. ~j.glued
          BY <3>3, <3>4, <4>2
        <5>5. Says(file, task_lines(file, id)) = j.task
          BY <1>1, <1>6, <2>2, <4>2, <5>4, LastSays
        <5> QED
          BY <3>3, <4>2, <5>2, <5>3, <5>5 DEF OldOrNew
      <4> QED
        BY <4>1, <4>2
    <3> QED
      BY <1>1, <3>4 DEF SeenInv
  <2> QED
    BY <2>1, <2>2
<1> QED
  BY <1>7, <1>8, <1>9, <1>10

\* A handle that is opened, closed or killed writes nothing.
LEMMA QuietStep ==
  ASSUME IInv, NEW w \in Writers, UNCHANGED <<file, history>>,
         \A v \in Writers \ {w} : stage'[v] = stage[v] /\ job'[v] = job[v],
         stage'[w] # "writing",
         \/ crashes' = crashes /\ stage[w] # "writing"
         \/ crashes' = crashes + 1
  PROVE  JobInv' /\ SeenInv' /\ DamageInv' /\ TailInv'
<1>1. TailInv' /\ SeenInv'
  BY DEF IInv, TailInv, SeenInv, OldOrNew, history
<1>2. JobInv'
  <2>1. ASSUME NEW v \in Writers, stage'[v] = "writing"
        PROVE  v # w /\ stage[v] = "writing" /\ job'[v] = job[v]
    BY <2>1
  <2>2. UNCHANGED <<file, tried>>
    BY DEF history
  <2> QED
    BY <2>1, <2>2 DEF IInv, JobInv
<1>3. DamageInv'
  <2>1. Cardinality(TornLines(file)) \in Nat /\ crashes \in Nat
    BY TornCount DEF IInv, TypeOK
  <2>2. CASE crashes' = crashes + 1
    BY <2>1, <2>2 DEF DamageInv, IInv
  <2>3. CASE crashes' = crashes /\ stage[w] # "writing"
    <3>1. Broken' => Broken
      BY <2>3 DEF Broken, Torn
    <3> QED
      BY <2>1, <2>3, <3>1 DEF DamageInv, IInv
  <2> QED
    BY <2>2, <2>3
<1> QED
  BY <1>1, <1>2, <1>3

\* The empty log.
LEMMA InitHolds == Init => IInv
<1> SUFFICES ASSUME Init PROVE IInv
  OBVIOUS
<1>1. TypeOK
  BY InitTypes
<1>2. file = <<>> /\ Len(file) = 0 /\ file \in Seq(Piece)
  BY <1>1 DEF Init, TypeOK
<1>3. TailInv
  BY <1>2 DEF TailInv, LastLine, Begins
<1>4. JobInv
  BY DEF Init, JobInv
<1>5. SeenInv
  <2>1. \A id \in Ids : task_lines(file, id) = {}
    BY <1>2 DEF task_lines
  <2>2. \A id \in Ids : acked[id] = NoTask
    BY DEF Init
  <2> QED
    BY <2>1, <2>2 DEF SeenInv, Says, OldOrNew
<1>6. DamageInv
  <2>1. TornLines(file) = {}
    BY <1>2 DEF TornLines
  <2>2. ~Broken
    BY <1>2 DEF Broken, Torn, Begins
  <2>3. Cardinality(TornLines(file)) = 0
    BY <2>1, FS_EmptySet
  <2> QED
    BY <2>2, <2>3 DEF DamageInv, Init
<1> QED
  BY <1>1, <1>3, <1>4, <1>5, <1>6 DEF IInv

\* Every step, as long as one line is written at a time.
LEMMA StepHolds ==
  ASSUME IInv, [Next]_vars, OneAtATime, OneAtATime'
  PROVE  IInv'
<1>1. TypeOK'
  BY StepTypes DEF IInv
<1>2. ASSUME NEW w \in Writers, stage[w] = "writing" PROVE Only(w)
  BY <1>2 DEF OneAtATime, Only
<1>3. ASSUME NEW w \in Writers, open(w) \/ inspect(w)
      PROVE  JobInv' /\ SeenInv' /\ DamageInv' /\ TailInv'
  <2>1. PICK next \in {"recovering", "idle"} : load(w, next)
    BY <1>3 DEF open, inspect
  <2>2. /\ stage' = [stage EXCEPT ![w] = next] /\ stage[w] = "closed"
        /\ UNCHANGED <<file, job, history, crashes>>
    BY <2>1 DEF load, counters
  <2>3. \A v \in Writers \ {w} : stage'[v] = stage[v] /\ job'[v] = job[v]
    BY <2>2 DEF IInv, TypeOK
  <2>4. stage'[w] # "writing" /\ stage[w] # "writing"
    BY <2>2 DEF IInv, TypeOK
  <2> QED
    BY <2>2, <2>3, <2>4, QuietStep
<1>4. ASSUME NEW w \in Writers, recover(w), Running(w) = {}
      PROVE  JobInv' /\ SeenInv' /\ DamageInv' /\ TailInv'
  <2>1. /\ stage' = [stage EXCEPT ![w] = "idle"] /\ stage[w] = "recovering"
        /\ UNCHANGED <<file, job, history, crashes>>
    BY <1>4 DEF recover, counters
  <2>2. \A v \in Writers \ {w} : stage'[v] = stage[v] /\ job'[v] = job[v]
    BY <2>1 DEF IInv, TypeOK
  <2>3. stage'[w] # "writing" /\ stage[w] # "writing"
    BY <2>1 DEF IInv, TypeOK
  <2> QED
    BY <2>1, <2>2, <2>3, QuietStep
<1>5. ASSUME NEW w \in Writers,
             (recover(w) /\ Running(w) # {}) \/ operation(w) \/ record_trace(w)
      PROVE  JobInv' /\ SeenInv' /\ DamageInv' /\ TailInv'
  <2>1. PICK id \in Ids :
          \/ \E t \in Task : record(w, id, t)
          \/ \E tr \in Trace : begin(w, trace_line(id, tr), id, NoTask, tr) /\ UNCHANGED tried
    BY <1>5, Begun DEF IInv
  <2>2. stage[w] # "writing"
    BY <1>5, Begun DEF IInv
  <2>3. stage' = [stage EXCEPT ![w] = "writing"]
    BY <2>1 DEF record, begin
  <2>4. stage'[w] = "writing" /\ \A v \in Writers \ {w} : stage'[v] = stage[v]
    BY <2>3 DEF IInv, TypeOK
  <2>5. Only(w)'
    BY <2>4 DEF OneAtATime, Only
  <2>6. Only(w)
    BY <2>4, <2>5 DEF Only
  <2> QED
    BY <2>1, <2>2, <2>5, <2>6, LineBegun
<1>6. ASSUME NEW w \in Writers, append(w)
      PROVE  JobInv' /\ SeenInv' /\ DamageInv' /\ TailInv'
  <2>1. Only(w)
    BY <1>2, <1>6 DEF append
  <2> QED
    BY <1>6, <2>1, AppendStep
<1>7. ASSUME NEW w \in Writers, acknowledge(w)
      PROVE  JobInv' /\ SeenInv' /\ DamageInv' /\ TailInv'
  <2>1. Only(w)
    BY <1>2, <1>7 DEF acknowledge
  <2> QED
    BY <1>7, <2>1, AcknowledgeStep
<1>8. ASSUME NEW w \in Writers, crash(w) \/ close(w)
      PROVE  JobInv' /\ SeenInv' /\ DamageInv' /\ TailInv'
  <2>1. /\ stage' = [stage EXCEPT ![w] = "closed"] /\ job' = [job EXCEPT ![w] = NoJob]
        /\ UNCHANGED <<file, history>>
    BY <1>8 DEF crash, close, drop
  <2>2. \A v \in Writers \ {w} : stage'[v] = stage[v] /\ job'[v] = job[v]
    BY <2>1 DEF IInv, TypeOK
  <2>3. stage'[w] # "writing"
    BY <2>1 DEF IInv, TypeOK
  <2>4. (crashes' = crashes /\ stage[w] # "writing") \/ crashes' = crashes + 1
    BY <1>8 DEF crash, close
  <2> QED
    BY <2>1, <2>2, <2>3, <2>4, QuietStep
<1>9. ASSUME UNCHANGED vars PROVE JobInv' /\ SeenInv' /\ DamageInv' /\ TailInv'
  <2>1. UNCHANGED <<file, stage, job, acked, tried, glued, crashes>>
    BY <1>9 DEF vars, history, counters
  <2>2. JobInv' /\ TailInv'
    BY <2>1 DEF IInv, JobInv, TailInv
  <2>3. SeenInv'
    BY <2>1 DEF IInv, SeenInv, OldOrNew
  <2>4. DamageInv'
    BY <2>1 DEF IInv, DamageInv, Broken, Torn
  <2> QED
    BY <2>2, <2>3, <2>4
<1>10. JobInv' /\ SeenInv' /\ DamageInv' /\ TailInv'
  BY <1>3, <1>4, <1>5, <1>6, <1>7, <1>8, <1>9 DEF Next
<1> QED
  BY <1>1, <1>10 DEF IInv

-----------------------------------------------------------------------------
(***************************************************************************)
(* The theorems.                                                           *)
(***************************************************************************)
\* The inductive invariant of a log that is written one line at a time.
THEOREM Inductive == Spec /\ []OneAtATime => []IInv
<1>1. Init => IInv
  BY InitHolds
<1>2. IInv /\ [Next]_vars /\ OneAtATime /\ OneAtATime' => IInv'
  BY StepHolds
<1> QED
  BY <1>1, <1>2, PTL DEF Spec

\* Whoever replays the log sees for a task its last synchronized state or one
\* that was being written since, unless its last line was glued to a torn one.
THEOREM OldOrNewIsSeen == Spec /\ []OneAtATime => []ReadersSeeOldOrNew
<1>1. IInv => ReadersSeeOldOrNew
  BY WholeText DEF IInv, ReadersSeeOldOrNew, TaskIn, Says, OldOrNew
<1> QED
  BY <1>1, Inductive, PTL

\* A kill costs at most one line.
THEOREM OneLinePerKill == Spec /\ []OneAtATime => []DamageIsOneLinePerKill
<1>1. IInv => DamageIsOneLinePerKill
  <2> SUFFICES ASSUME IInv PROVE DamageIsOneLinePerKill
    OBVIOUS
  <2>1. Cardinality(TornLines(file)) \in Nat /\ crashes \in Nat
    BY TornCount DEF IInv, TypeOK
  <2> QED
    BY <2>1 DEF IInv, DamageInv, DamageIsOneLinePerKill
<1> QED
  BY <1>1, Inductive, PTL

\* One worker with its handle, as the log is meant to be used, never writes two
\* lines at once.
THEOREM OneWriterIsSafe ==
  ASSUME \A v, w \in Writers : v = w
  PROVE  Spec => [](ReadersSeeOldOrNew /\ DamageIsOneLinePerKill)
<1>1. OneAtATime
  BY DEF OneAtATime
<1> QED
  BY <1>1, OldOrNewIsSeen, OneLinePerKill, PTL
=============================================================================
