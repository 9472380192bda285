--------------------------- MODULE WorkspaceEditor ----------------------------
(***************************************************************************)
(* replace_once (src/src/workspace.rs) as its steps on the file system:    *)
(* read, temporary file, write, permissions, rename.  Several workers may  *)
(* edit one workspace, and a process that a command left behind may write  *)
(* to its files at any moment.  A step may fail, and a worker may be       *)
(* killed between two of them; nothing is cleaned up then.  Nobody else    *)
(* changes permissions or touches the temporary files.                     *)
(*                                                                         *)
(* A file is the set of the edits that are in it; an edit adds itself.     *)
(* The temporary name is made from the file's stem and the process id:     *)
(* with_extension drops the extension the file had.                        *)
(***************************************************************************)
EXTENDS Integers, FiniteSets

CONSTANTS Files,       \* the editable files
          Stem,        \* Stem[f]: f's path without its extension
          Editors,     \* worker processes
          Pids,        \* process ids; one may be used again
          MaxFile,     \* max_file_bytes, in edits
          EditBound,   \* bound on edits and outside writes
          MishapBound  \* bound on failed steps and kills

ASSUME EditorAssumption ==
  MaxFile \in Nat /\ EditBound \in Nat /\ MishapBound \in Nat

Temps == {Stem[f] : f \in Files} \X Pids

VARIABLES
  file,    \* file[f]: its edits, whether it is whole, its permissions
  temp,    \* temp[t]: the same, or NoTemp
  pc,      \* pc[e]
  pid,     \* pid[e]
  target,  \* target[e]: the file e edits
  updated, \* updated[e]: the new content and the permissions, from what e read
  edits, mishaps,
  raced,   \* history: raced[e]: the file has changed since e read it
  refused  \* history: an edit was refused because of its temporary file

locals == <<pid, target, updated>>
counters == <<edits, mishaps>>
history == <<raced, refused>>
vars == <<file, temp, pc, locals, counters, history>>

Edits == 1..EditBound
Empty == [edits |-> {}, whole |-> FALSE, executable |-> FALSE]
Content == [edits : SUBSET Edits, whole : BOOLEAN, executable : BOOLEAN]
NoTemp == [edits |-> {}, whole |-> FALSE, executable |-> FALSE, absent |-> TRUE]

\* The files that are executable to begin with: the permissions to preserve.
Original == [f \in Files |-> [edits |-> {}, whole |-> TRUE, executable |-> TRUE]]

Init ==
  /\ file = Original
  /\ temp = [t \in Temps |-> NoTemp]
  /\ pc = [e \in Editors |-> "off"]
  /\ pid \in [Editors -> Pids]
  /\ target \in [Editors -> Files]
  /\ updated = [e \in Editors |-> Empty]
  /\ edits = 0 /\ mishaps = 0
  /\ raced = [e \in Editors |-> FALSE] /\ refused = FALSE

-----------------------------------------------------------------------------
Goto(e, label) == pc' = [pc EXCEPT ![e] = label]

\* (A slip: the process id is left out.)
temp_of_stem(e) == <<Stem[target[e]], CHOOSE p \in Pids : TRUE>>

temp_of(e) == <<Stem[target[e]], pid[e]>>

Mishap == mishaps < MishapBound /\ mishaps' = mishaps + 1

\* A worker starts under a process id no other has now.
start(e) ==
  /\ pc[e] = "off"
  /\ \E p \in Pids :
       /\ \A other \in Editors : pc[other] # "off" => pid[other] # p
       /\ pid' = [pid EXCEPT ![e] = p]
  /\ Goto(e, "idle")
  /\ UNCHANGED <<file, temp, target, updated, counters, history>>

\* (A slip: the file before the edit is measured.)
Fits_before(f) == Cardinality(file[f].edits) <= MaxFile

\* The file after the edit is measured.
Fits(f) == Cardinality(file[f].edits) + 1 <= MaxFile

\* The file is read and the replacement made in memory.  A path, a text or a
\* size that is refused leaves everything as it is.
read(e, f) ==
  /\ pc[e] = "idle"
  /\ edits < EditBound /\ edits' = edits + 1
  /\ Fits(f)
  /\ target' = [target EXCEPT ![e] = f]
  /\ updated' = [updated EXCEPT ![e] = [file[f] EXCEPT !.edits = @ \cup {edits + 1}]]
  /\ raced' = [raced EXCEPT ![e] = FALSE]
  /\ Goto(e, "read")
  /\ UNCHANGED <<file, temp, pid, mishaps, refused>>

\* (A slip: create instead of create_new.)
MayOpen_existing(t) == TRUE

\* create_new: an existing file is an error, whoever left it.
MayOpen(t) == temp[t] = NoTemp

create(e) ==
  /\ pc[e] = "read"
  /\ IF MayOpen(temp_of(e))
       THEN /\ temp' = [temp EXCEPT ![temp_of(e)] = IF @ = NoTemp THEN Empty ELSE @]
            /\ Goto(e, "created") /\ UNCHANGED refused
       ELSE /\ refused' = TRUE
            /\ Goto(e, "idle") /\ UNCHANGED temp
  /\ UNCHANGED <<file, locals, counters, raced>>

\* (A slip: write instead of write_all.)
Written_short == {FALSE, TRUE}

\* write_all and sync_all return once the content is whole, or fail.
Written == {TRUE}

write(e) ==
  /\ pc[e] = "created"
  /\ \E whole \in Written :
       temp' = [temp EXCEPT ![temp_of(e)].edits = @ \cup updated[e].edits,
                            ![temp_of(e)].whole = whole]
  /\ Goto(e, "written")
  /\ UNCHANGED <<file, locals, counters, history>>

set_permissions(e) ==
  /\ pc[e] = "written"
  /\ temp' = [temp EXCEPT ![temp_of(e)].executable = updated[e].executable]
  /\ Goto(e, "permitted")
  /\ UNCHANGED <<file, locals, counters, history>>

\* Everybody else who has read f has read an old file now.
Race(f, others) ==
  raced' = [o \in Editors |-> raced[o] \/ (/\ o \in others /\ target[o] = f
                                          /\ pc[o] \notin {"off", "idle"})]

rename(e) ==
  /\ pc[e] = "permitted"
  /\ file' = [file EXCEPT ![target[e]] = temp[temp_of(e)]]
  /\ temp' = [temp EXCEPT ![temp_of(e)] = NoTemp]
  /\ Race(target[e], Editors \ {e})
  /\ Goto(e, "idle")
  /\ UNCHANGED <<locals, counters, refused>>

\* Any step fails: the error is returned and the temporary file stays.
fail(e) ==
  /\ pc[e] \in {"read", "created", "written", "permitted"}
  /\ Mishap
  /\ Goto(e, "idle")
  /\ UNCHANGED <<file, temp, locals, edits, history>>

exit(e) ==
  /\ pc[e] = "idle"
  /\ Goto(e, "off")
  /\ UNCHANGED <<file, temp, locals, counters, history>>

kill(e) ==
  /\ pc[e] \notin {"off", "idle"}
  /\ Mishap
  /\ Goto(e, "off")
  /\ UNCHANGED <<file, temp, locals, edits, history>>

\* A process that is not an editor writes to a file, in one step.
outside_write(f) ==
  /\ edits < EditBound /\ edits' = edits + 1
  /\ file' = [file EXCEPT ![f].edits = @ \cup {edits + 1}]
  /\ Race(f, Editors)
  /\ UNCHANGED <<temp, pc, locals, mishaps, refused>>

Next ==
  \/ \E e \in Editors :
       \/ start(e) \/ (\E f \in Files : read(e, f)) \/ create(e) \/ write(e)
       \/ set_permissions(e) \/ rename(e) \/ fail(e) \/ exit(e) \/ kill(e)
  \/ \E f \in Files : outside_write(f)

Spec == Init /\ [][Next]_vars

-----------------------------------------------------------------------------
TypeOK ==
  /\ file \in [Files -> Content]
  /\ temp \in [Temps -> Content \cup {NoTemp}]
  /\ pc \in [Editors -> {"off", "idle", "read", "created", "written", "permitted"}]
  /\ pid \in [Editors -> Pids] /\ target \in [Editors -> Files]
  /\ updated \in [Editors -> {c \in Content : Cardinality(c.edits) <= MaxFile}]
  /\ edits \in 0..EditBound /\ mishaps \in 0..MishapBound
  /\ raced \in [Editors -> BOOLEAN] /\ refused \in BOOLEAN

\* Whoever reads a file, after whatever failure or kill, reads a whole one with
\* the permissions it always had.
FilesAreWhole == \A f \in Files : file[f].whole /\ file[f].executable

\* An edit is the replacement of one text: it adds itself to what the file
\* held, unless the file has changed under the editor since it was read.
ExactUnlessRaced ==
  [][\A e \in Editors :
       rename(e) /\ ~raced[e]
         => \E k \in Edits : file'[target[e]].edits = file[target[e]].edits \cup {k}]_vars

\* Two editors, or two files with one stem, never get in each other's way: an
\* edit is refused for its temporary file only if a failure has left one.
RefusedOnlyAfterMishap == refused => mishaps > 0
=============================================================================
