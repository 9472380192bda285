---------------------------- MODULE MCEventBytes ----------------------------
(***************************************************************************)
(* Small instances of EventBytes for TLC, and the replay as the code does  *)
(* it: the text is split into lines, every line into fields, and the lines *)
(* are applied one after the other.  EventBytes reads the same of a text   *)
(* without splitting it, and the assumption below says that it does.       *)
(***************************************************************************)
EXTENDS EventBytes, SequencesExt

Split(s, separator) ==
  LET cut(acc, x) == IF x = separator
                       THEN [done |-> Append(acc.done, acc.text), text |-> <<>>]
                       ELSE [acc EXCEPT !.text = Append(@, x)]
      all == FoldLeft(cut, [done |-> <<>>, text |-> <<>>], s)
  IN Append(all.done, all.text)

\* A field that is one piece of a kind; glued pieces parse as none.
IsA(field, kind) == Len(field) = 1 /\ field[1][1] = kind

IsTrace(fields) ==
  /\ Len(fields) >= 5 /\ fields[1] = <<Word("trace")>>
  /\ IsA(fields[3], "number") /\ IsA(fields[4], "facts") /\ IsA(fields[5], "number")

IsTask(fields) ==
  /\ Len(fields) >= 3
  /\ IsA(fields[2], "word") /\ fields[2][1][2] \in State /\ IsA(fields[3], "number")

\* A line that does not parse is skipped without an error.
apply_line(replay, fields) ==
  IF IsTrace(fields)
    THEN [replay EXCEPT !.trace =
            (fields[2] :> TraceOf(fields[3][1][2], fields[4][1][2])) @@ @]
  ELSE IF IsTask(fields)
    THEN [replay EXCEPT !.task =
            (fields[1] :> TaskOf(fields[2][1][2], fields[3][1][2])) @@ @]
  ELSE replay

\* The keys are texts, of which only some are the id of a task.
ReplayOfLines(s) ==
  LET empty == [task |-> [text \in {} |-> NoTask], trace |-> [text \in {} |-> NoTrace]]
      apply(replay, line) == apply_line(replay, Split(line, Tab))
      all == FoldLeft(apply, empty, Split(s, NewLine))
      get(map, id, none) == IF <<Word(id)>> \in DOMAIN map THEN map[<<Word(id)>>] ELSE none
  IN [task  |-> [id \in Ids |-> get(all.task, id, NoTask)],
      trace |-> [id \in Ids |-> get(all.trace, id, NoTrace)]]

SampleLines ==
  UNION {{state_line(id, TaskOf("queued", 0)), state_line(id, TaskOf("running", 1)),
          trace_line(id, TraceOf(1, NoTrace.exec))} : id \in Ids}

Cuts(s) == {SubSeq(s, 1, n) : n \in 0..Len(s)}

\* Two lines torn at any place, and a whole one.
Texts ==
  {torn \o again \o whole : torn \in UNION {Cuts(l) : l \in SampleLines},
                           again \in UNION {Cuts(l) : l \in SampleLines},
                           whole \in SampleLines}

ASSUME ReplayAssumption == \A s \in Texts : Replay(s) = ReplayOfLines(s)
=============================================================================
