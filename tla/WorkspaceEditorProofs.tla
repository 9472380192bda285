------------------------ MODULE WorkspaceEditorProofs -----------------------
(***************************************************************************)
(* The atomic replacement for every set of files, stems, editors and       *)
(* process ids: whoever reads a file reads a whole one, whatever fails and *)
(* whoever is killed.                                                      *)
(***************************************************************************)
EXTENDS WorkspaceEditor, FiniteSetTheorems, TLAPS

Owning == {"created", "written", "permitted"}
Editing == Owning \cup {"read"}

\* Two workers that run have different process ids.
PidInv ==
  \A d, e \in Editors : d # e /\ pc[d] # "off" /\ pc[e] # "off" => pid[d] # pid[e]

\* An editor finds in its temporary file exactly what its own steps have put
\* there, and the permissions it puts back are those of the original.
TempInv ==
  \A e \in Editors :
    /\ pc[e] \in Editing => updated[e].executable
    /\ pc[e] \in Owning =>
         temp[temp_of(e)] = [edits |-> IF pc[e] = "created" THEN {} ELSE updated[e].edits,
                             whole |-> pc[e] # "created",
                             executable |-> pc[e] = "permitted"]

\* A temporary file belongs to an editor at work, or a failure has left it.
OwnerInv ==
  \A t \in Temps : temp[t] # NoTemp /\ mishaps = 0 =>
    \E e \in Editors : pc[e] \in Owning /\ temp_of(e) = t

\* What an editor is about to put in place is the file as it still is and one
\* edit, unless the file has changed since the editor read it.
ExactInv ==
  \A e \in Editors : pc[e] \in Editing /\ ~raced[e] =>
    \E k \in Edits : updated[e].edits = file[target[e]].edits \cup {k}

IInv ==
  /\ TypeOK /\ FilesAreWhole /\ PidInv /\ TempInv /\ OwnerInv /\ ExactInv
  /\ RefusedOnlyAfterMishap

USE EditorAssumption DEF locals, counters, history, Owning, Editing

-----------------------------------------------------------------------------
(***************************************************************************)
(* Names and contents.                                                     *)
(***************************************************************************)
\* A temporary name is one of Temps, whoever makes it.
LEMMA TempName ==
  ASSUME TypeOK, NEW e \in Editors
  PROVE  temp_of(e) \in Temps
BY DEF TypeOK, Temps, temp_of

\* A file with a content is not a missing file.
LEMMA ContentIsThere ==
  ASSUME NEW c \in Content
  PROVE  c # NoTemp
<1>1. DOMAIN c = {"edits", "whole", "executable"}
  BY DEF Content
<1>2. "absent" \in DOMAIN NoTemp
  BY DEF NoTemp
<1> QED
  BY <1>1, <1>2

\* A record with one field changed is the record with that field.
LEMMA FieldChanged ==
  ASSUME NEW x, NEW w, NEW y, NEW z, NEW r, r = [edits |-> x, whole |-> w, executable |-> y]
  PROVE  /\ [r EXCEPT !.edits = z] = [edits |-> z, whole |-> w, executable |-> y]
         /\ [r EXCEPT !.executable = z] = [edits |-> x, whole |-> w, executable |-> z]
OBVIOUS

\* Two editors at work have different temporary files.
LEMMA OwnNames ==
  ASSUME PidInv, NEW d \in Editors, NEW e \in Editors,
         pc[d] # "off", pc[e] # "off", temp_of(d) = temp_of(e)
  PROVE  d = e
BY DEF PidInv, temp_of

\* One edit more than a file has is within the limit if the file fits.
LEMMA OneMore ==
  ASSUME TypeOK, NEW f \in Files, Fits(f), NEW k \in Edits
  PROVE  /\ Cardinality(file[f].edits \cup {k}) <= MaxFile
         /\ file[f].edits \cup {k} \in SUBSET Edits
<1>1. IsFiniteSet(Edits)
  BY FS_Interval DEF Edits
<1>2. file[f].edits \in SUBSET Edits
  BY DEF TypeOK, Content
<1>3. IsFiniteSet(file[f].edits)
  BY <1>1, <1>2, FS_Subset
<1>4. /\ Cardinality(file[f].edits) \in Nat
      /\ Cardinality(file[f].edits \cup {k}) =
           IF k \in file[f].edits THEN Cardinality(file[f].edits)
                                  ELSE Cardinality(file[f].edits) + 1
  BY <1>3, FS_CardinalityType, FS_AddElement
<1> QED
  BY <1>2, <1>4 DEF Fits

-----------------------------------------------------------------------------
(***************************************************************************)
(* The inductive invariant, one lemma for each action.                     *)
(***************************************************************************)
\* A worker starts under a process id that no other has now.
LEMMA StartStep ==
  ASSUME IInv, NEW e \in Editors, start(e)
  PROVE  IInv'
<1>1. TypeOK'
  BY DEF IInv, TypeOK, start, Goto
<1>2. PidInv'
  BY DEF IInv, TypeOK, PidInv, start, Goto
<1>3. \A d \in Editors : pc'[d] \in Editing <=> pc[d] \in Editing
  BY DEF IInv, TypeOK, start, Goto
<1>4. \A d \in Editors : pc[d] \in Editing => pc'[d] = pc[d] /\ temp_of(d)' = temp_of(d)
  BY DEF IInv, TypeOK, temp_of, start, Goto
<1>5. TempInv' /\ OwnerInv' /\ ExactInv'
  BY <1>3, <1>4 DEF IInv, TempInv, OwnerInv, ExactInv, start
<1>6. FilesAreWhole' /\ RefusedOnlyAfterMishap'
  BY DEF IInv, FilesAreWhole, RefusedOnlyAfterMishap, start
<1> QED
  BY <1>1, <1>2, <1>5, <1>6 DEF IInv

\* What is read, with the edit, is what the editor will put in place.
LEMMA ReadStep ==
  ASSUME IInv, NEW e \in Editors, NEW f \in Files, read(e, f)
  PROVE  IInv'
<1> DEFINE k == edits + 1
           c == [file[f] EXCEPT !.edits = @ \cup {k}]
<1>1. k \in Edits /\ edits' \in 0..EditBound
  BY DEF IInv, TypeOK, Edits, read
<1>2. /\ c \in Content /\ Cardinality(c.edits) <= MaxFile
      /\ c.edits = file[f].edits \cup {k} /\ c.executable
  <2>1. file[f] \in Content /\ file[f].executable
    BY DEF IInv, TypeOK, FilesAreWhole
  <2>2. c = [edits |-> file[f].edits \cup {k}, whole |-> file[f].whole,
             executable |-> file[f].executable]
    <3>1. PICK x \in SUBSET Edits, w \in BOOLEAN, y \in BOOLEAN :
            file[f] = [edits |-> x, whole |-> w, executable |-> y]
      BY <2>1 DEF Content
    <3> QED
      BY <3>1
  <2>3. Fits(f)
    BY DEF read
  <2>4. Cardinality(file[f].edits \cup {k}) <= MaxFile /\ file[f].edits \cup {k} \in SUBSET Edits
    BY <1>1, <2>3, OneMore DEF IInv
  <2> QED
    BY <2>1, <2>2, <2>4 DEF Content
<1>3. /\ pc[e] = "idle" /\ pc' = [pc EXCEPT ![e] = "read"]
      /\ updated' = [updated EXCEPT ![e] = c]
      /\ target' = [target EXCEPT ![e] = f] /\ raced' = [raced EXCEPT ![e] = FALSE]
      /\ UNCHANGED <<file, temp, pid, mishaps, refused>>
  BY DEF read, Goto
<1> HIDE DEF c, k
<1>4. TypeOK'
  BY <1>1, <1>2, <1>3 DEF IInv, TypeOK
<1>5. PidInv' /\ FilesAreWhole' /\ RefusedOnlyAfterMishap'
  BY <1>3 DEF IInv, TypeOK, PidInv, FilesAreWhole, RefusedOnlyAfterMishap
<1>6. /\ pc'[e] = "read" /\ updated'[e] = c /\ target'[e] = f
      /\ \A d \in Editors : d # e => /\ pc'[d] = pc[d] /\ updated'[d] = updated[d]
                                     /\ target'[d] = target[d] /\ raced'[d] = raced[d]
                                     /\ temp_of(d)' = temp_of(d)
  BY <1>3 DEF IInv, TypeOK, temp_of
<1>7. TempInv'
  BY <1>2, <1>3, <1>6 DEF IInv, TempInv
<1>8. OwnerInv'
  BY <1>3, <1>6 DEF IInv, OwnerInv
<1>9. ExactInv'
  BY <1>1, <1>2, <1>3, <1>6 DEF IInv, ExactInv
<1> QED
  BY <1>4, <1>5, <1>7, <1>8, <1>9 DEF IInv

\* A temporary file that cannot be created was left by a failure: no editor
\* at work has its name.
LEMMA CreateStep ==
  ASSUME IInv, NEW e \in Editors, create(e)
  PROVE  IInv'
<1>1. temp_of(e) \in Temps /\ pc[e] = "read"
  BY TempName DEF IInv, create
<1>2. CASE MayOpen(temp_of(e))
  <2>1. /\ temp' = [temp EXCEPT ![temp_of(e)] = Empty]
        /\ pc' = [pc EXCEPT ![e] = "created"]
        /\ UNCHANGED <<file, locals, counters, raced, refused>>
    BY <1>2 DEF create, Goto, MayOpen
  <2>2. /\ Empty \in Content /\ temp'[temp_of(e)] = Empty
        /\ \A t \in Temps : t # temp_of(e) => temp'[t] = temp[t]
        /\ pc'[e] = "created"
        /\ \A d \in Editors : temp_of(d)' = temp_of(d) /\ (d # e => pc'[d] = pc[d])
    BY <1>1, <2>1 DEF IInv, TypeOK, Empty, Content, temp_of
  <2>3. TypeOK'
    BY <1>1, <2>1, <2>2 DEF IInv, TypeOK
  <2>4. PidInv' /\ ExactInv' /\ FilesAreWhole' /\ RefusedOnlyAfterMishap'
    BY <1>1, <2>1, <2>2 DEF IInv, PidInv, ExactInv, FilesAreWhole, RefusedOnlyAfterMishap
  <2>5. TempInv'
    <3> SUFFICES ASSUME NEW d \in Editors, pc'[d] \in Editing
                 PROVE  /\ updated'[d].executable
                        /\ pc'[d] \in Owning =>
                             temp'[temp_of(d)'] =
                               [edits |-> IF pc'[d] = "created" THEN {} ELSE updated'[d].edits,
                                whole |-> pc'[d] # "created",
                                executable |-> pc'[d] = "permitted"]
      BY DEF TempInv
    <3>1. CASE d = e
      BY <1>1, <2>1, <2>2, <3>1 DEF IInv, TempInv, Empty
    <3>2. CASE d # e
      <4>1. pc'[d] = pc[d] /\ temp_of(d)' = temp_of(d) /\ temp_of(d) \in Temps
        BY <2>2, <3>2, TempName DEF IInv
      <4>2. temp_of(d) # temp_of(e)
        BY <1>1, <3>2, <4>1, OwnNames DEF IInv
      <4> QED
        BY <2>1, <2>2, <4>1, <4>2 DEF IInv, TempInv
    <3> QED
      BY <3>1, <3>2
  <2>6. OwnerInv'
    <3> SUFFICES ASSUME NEW t \in Temps, temp'[t] # NoTemp, mishaps' = 0
                 PROVE  \E d \in Editors : pc'[d] \in Owning /\ temp_of(d)' = t
      BY DEF OwnerInv
    <3>1. CASE t = temp_of(e)
      BY <2>2, <3>1
    <3>2. CASE t # temp_of(e)
      <4>1. PICK d \in Editors : pc[d] \in Owning /\ temp_of(d) = t
        BY <2>1, <2>2, <3>2 DEF IInv, OwnerInv
      <4>2. d # e
        BY <1>1, <4>1
      <4> QED
        BY <2>2, <4>1, <4>2
    <3> QED
      BY <3>1, <3>2
  <2> QED
    BY <2>3, <2>4, <2>5, <2>6 DEF IInv
<1>3. CASE ~MayOpen(temp_of(e))
  <2>1. /\ refused' = TRUE /\ pc' = [pc EXCEPT ![e] = "idle"]
        /\ UNCHANGED <<file, temp, locals, counters, raced>>
    BY <1>3 DEF create, Goto
  <2>2. /\ pc'[e] = "idle"
        /\ \A d \in Editors : temp_of(d)' = temp_of(d) /\ (d # e => pc'[d] = pc[d])
    BY <2>1 DEF IInv, TypeOK, temp_of
  <2>3. mishaps > 0
    <3> SUFFICES ASSUME mishaps = 0 PROVE FALSE
      BY DEF IInv, TypeOK
    <3>1. PICK d \in Editors : pc[d] \in Owning /\ temp_of(d) = temp_of(e)
      BY <1>1, <1>3 DEF IInv, OwnerInv, MayOpen
    <3>2. d = e
      BY <1>1, <3>1, OwnNames DEF IInv
    <3> QED
      BY <1>1, <3>1, <3>2
  <2>4. TypeOK' /\ RefusedOnlyAfterMishap'
    BY <2>1, <2>3 DEF IInv, TypeOK, RefusedOnlyAfterMishap
  <2>5. PidInv' /\ ExactInv' /\ FilesAreWhole' /\ TempInv'
    BY <1>1, <2>1, <2>2 DEF IInv, PidInv, ExactInv, FilesAreWhole, TempInv
  <2>6. OwnerInv'
    BY <2>1, <2>3 DEF IInv, TypeOK, OwnerInv
  <2> QED
    BY <2>4, <2>5, <2>6 DEF IInv
<1> QED
  BY <1>2, <1>3

\* An editor at work fills its own temporary file, and nobody else's.
LEMMA FillStep ==
  ASSUME IInv, NEW e \in Editors, write(e) \/ set_permissions(e)
  PROVE  IInv'
<1> DEFINE filled == [edits |-> updated[e].edits, whole |-> TRUE, executable |-> pc[e] = "written"]
<1>1. /\ pc[e] \in {"created", "written"} /\ temp_of(e) \in Temps
      /\ updated[e] \in Content /\ updated[e].executable
  BY TempName DEF IInv, TypeOK, TempInv, write, set_permissions
<1>2. temp[temp_of(e)] = [edits |-> IF pc[e] = "created" THEN {} ELSE updated[e].edits,
                          whole |-> pc[e] # "created", executable |-> FALSE]
  BY <1>1 DEF IInv, TempInv
<1>3. temp' = [temp EXCEPT ![temp_of(e)] = filled]
  <2>1. CASE write(e)
    <3>1. /\ pc[e] = "created"
          /\ temp' = [temp EXCEPT ![temp_of(e)].edits = @ \cup updated[e].edits,
                                  ![temp_of(e)].whole = TRUE]
      BY <2>1 DEF write, Written
    <3>2. temp[temp_of(e)] = [edits |-> {}, whole |-> FALSE, executable |-> FALSE]
      BY <1>2, <3>1
    <3>3. filled = [edits |-> updated[e].edits, whole |-> TRUE, executable |-> FALSE]
      BY <3>1
    <3> HIDE DEF filled
    <3> QED
      BY <1>1, <3>1, <3>2, <3>3 DEF IInv, TypeOK
  <2>2. CASE set_permissions(e)
    <3>1. /\ pc[e] = "written"
          /\ temp' = [temp EXCEPT ![temp_of(e)].executable = updated[e].executable]
      BY <2>2 DEF set_permissions
    <3>2. PICK yes \in BOOLEAN, no \in BOOLEAN : yes = TRUE /\ no = FALSE
      OBVIOUS
    <3>3. temp[temp_of(e)] = [edits |-> updated[e].edits, whole |-> yes, executable |-> no]
      BY <1>2, <3>1, <3>2
    <3>4. filled = [edits |-> updated[e].edits, whole |-> yes, executable |-> yes]
      BY <3>1, <3>2
    <3>5. updated[e].executable = yes
      BY <1>1, <3>2 DEF Content
    <3> HIDE DEF filled
    <3>6. filled = [temp[temp_of(e)] EXCEPT !.executable = yes]
      BY <3>3, <3>4, FieldChanged
    <3> QED
      BY <1>1, <3>1, <3>5, <3>6 DEF IInv, TypeOK
  <2> QED
    BY <2>1, <2>2
<1>4. /\ pc' = [pc EXCEPT ![e] = IF pc[e] = "created" THEN "written" ELSE "permitted"]
      /\ UNCHANGED <<file, locals, counters, history>>
  BY DEF write, set_permissions, Goto
<1>5. filled \in Content
  BY <1>1 DEF Content
<1>6. /\ temp'[temp_of(e)] = filled
      /\ \A t \in Temps : t # temp_of(e) => temp'[t] = temp[t]
      /\ pc'[e] = IF pc[e] = "created" THEN "written" ELSE "permitted"
      /\ \A d \in Editors : temp_of(d)' = temp_of(d) /\ (d # e => pc'[d] = pc[d])
  BY <1>1, <1>3, <1>4 DEF IInv, TypeOK, temp_of
<1>7. TypeOK'
  BY <1>1, <1>3, <1>4, <1>5 DEF IInv, TypeOK
<1>8. PidInv' /\ ExactInv' /\ FilesAreWhole' /\ RefusedOnlyAfterMishap'
  BY <1>1, <1>4, <1>6 DEF IInv, PidInv, ExactInv, FilesAreWhole, RefusedOnlyAfterMishap
<1>9. TempInv'
  <2> SUFFICES ASSUME NEW d \in Editors, pc'[d] \in Editing
               PROVE  /\ updated'[d].executable
                      /\ pc'[d] \in Owning =>
                           temp'[temp_of(d)'] =
                             [edits |-> IF pc'[d] = "created" THEN {} ELSE updated'[d].edits,
                              whole |-> pc'[d] # "created",
                              executable |-> pc'[d] = "permitted"]
    BY DEF TempInv
  <2>1. CASE d = e
    <3>1. /\ updated'[d] = updated[e] /\ temp'[temp_of(d)'] = filled
          /\ pc'[d] = IF pc[e] = "created" THEN "written" ELSE "permitted"
      BY <1>4, <1>6, <2>1
    <3>2. (pc[e] = "written") = (pc'[d] = "permitted")
      BY <1>1, <3>1
    <3> QED
      BY <1>1, <3>1, <3>2
  <2>2. CASE d # e
    <3>1. pc'[d] = pc[d] /\ temp_of(d)' = temp_of(d) /\ temp_of(d) \in Temps
      BY <1>6, <2>2, TempName DEF IInv
    <3>2. temp_of(d) # temp_of(e)
      BY <1>1, <2>2, <3>1, OwnNames DEF IInv
    <3> QED
      BY <1>4, <1>6, <3>1, <3>2 DEF IInv, TempInv
  <2> QED
    BY <2>1, <2>2
<1>10. OwnerInv'
  <2> SUFFICES ASSUME NEW t \in Temps, temp'[t] # NoTemp, mishaps' = 0
               PROVE  \E d \in Editors : pc'[d] \in Owning /\ temp_of(d)' = t
    BY DEF OwnerInv
  <2>1. CASE t = temp_of(e)
    BY <1>1, <1>6, <2>1
  <2>2. CASE t # temp_of(e)
    <3>1. PICK d \in Editors : pc[d] \in Owning /\ temp_of(d) = t
      BY <1>4, <1>6, <2>2 DEF IInv, OwnerInv
    <3> QED
      BY <1>6, <2>2, <3>1
  <2> QED
    BY <2>1, <2>2
<1> QED
  BY <1>7, <1>8, <1>9, <1>10 DEF IInv

\* What a rename puts in place: the whole new content, with the permissions.
LEMMA Renamed ==
  ASSUME IInv, NEW e \in Editors, rename(e)
  PROVE  /\ temp_of(e) \in Temps /\ pc[e] = "permitted" /\ updated[e] \in Content
         /\ temp[temp_of(e)] = [edits |-> updated[e].edits, whole |-> TRUE, executable |-> TRUE]
         /\ file'[target[e]] = temp[temp_of(e)]
         /\ \A f \in Files : f # target[e] => file'[f] = file[f]
<1>1. temp_of(e) \in Temps /\ pc[e] = "permitted" /\ updated[e] \in Content
  BY TempName DEF IInv, TypeOK, rename
<1>2. temp[temp_of(e)] = [edits |-> updated[e].edits, whole |-> TRUE, executable |-> TRUE]
  BY <1>1 DEF IInv, TempInv
<1> QED
  BY <1>1, <1>2 DEF IInv, TypeOK, rename

\* The rename puts a whole file in place, gives the name up, and tells
\* everybody who has read the file that it has changed.
LEMMA RenameStep ==
  ASSUME IInv, NEW e \in Editors, rename(e)
  PROVE  IInv'
<1>1. /\ temp_of(e) \in Temps /\ pc[e] = "permitted" /\ updated[e] \in Content
      /\ temp[temp_of(e)] = [edits |-> updated[e].edits, whole |-> TRUE, executable |-> TRUE]
      /\ file'[target[e]] = temp[temp_of(e)]
      /\ \A f \in Files : f # target[e] => file'[f] = file[f]
  BY Renamed
<1>2. /\ file' = [file EXCEPT ![target[e]] = temp[temp_of(e)]]
      /\ temp' = [temp EXCEPT ![temp_of(e)] = NoTemp]
      /\ pc' = [pc EXCEPT ![e] = "idle"]
      /\ raced' = [o \in Editors |-> raced[o] \/ (/\ o \in Editors \ {e} /\ target[o] = target[e]
                                                  /\ pc[o] \notin {"off", "idle"})]
      /\ UNCHANGED <<locals, counters, refused>>
  BY DEF rename, Race, Goto
<1>3. /\ temp'[temp_of(e)] = NoTemp
      /\ \A t \in Temps : t # temp_of(e) => temp'[t] = temp[t]
      /\ pc'[e] = "idle"
      /\ \A d \in Editors : temp_of(d)' = temp_of(d) /\ (d # e => pc'[d] = pc[d])
  BY <1>1, <1>2 DEF IInv, TypeOK, temp_of
<1>4. TypeOK'
  <2>1. temp[temp_of(e)] \in Content
    BY <1>1 DEF Content
  <2>2. file' \in [Files -> Content] /\ temp' \in [Temps -> Content \cup {NoTemp}]
    BY <1>2, <2>1 DEF IInv, TypeOK
  <2>3. raced' \in [Editors -> BOOLEAN]
    BY <1>2 DEF IInv, TypeOK
  <2> QED
    BY <1>2, <2>2, <2>3 DEF IInv, TypeOK
<1>5. FilesAreWhole'
  BY <1>1 DEF IInv, TypeOK, FilesAreWhole
<1>6. PidInv' /\ RefusedOnlyAfterMishap'
  BY <1>1, <1>2, <1>3 DEF IInv, PidInv, RefusedOnlyAfterMishap
<1>7. \A d \in Editors : pc'[d] \in Editing =>
        /\ d # e /\ pc'[d] = pc[d] /\ temp_of(d)' = temp_of(d)
        /\ temp_of(d) \in Temps /\ temp_of(d) # temp_of(e)
  BY <1>1, <1>3, TempName, OwnNames DEF IInv
<1>8. TempInv'
  BY <1>2, <1>3, <1>7 DEF IInv, TempInv
<1>9. OwnerInv'
  <2> SUFFICES ASSUME NEW t \in Temps, temp'[t] # NoTemp, mishaps' = 0
               PROVE  \E d \in Editors : pc'[d] \in Owning /\ temp_of(d)' = t
    BY DEF OwnerInv
  <2>1. t # temp_of(e) /\ temp[t] # NoTemp
    BY <1>3
  <2>2. PICK d \in Editors : pc[d] \in Owning /\ temp_of(d) = t
    BY <1>2, <2>1 DEF IInv, OwnerInv
  <2> QED
    BY <1>3, <2>1, <2>2
<1>10. ExactInv'
  <2> SUFFICES ASSUME NEW d \in Editors, pc'[d] \in Editing, ~raced'[d]
               PROVE  \E k \in Edits : updated'[d].edits = file'[target'[d]].edits \cup {k}
    BY DEF ExactInv
  <2>1. /\ d # e /\ pc[d] \in Editing /\ ~raced[d] /\ target[d] # target[e]
        /\ target[d] \in Files
    BY <1>2, <1>7 DEF IInv, TypeOK
  <2>2. file'[target'[d]] = file[target[d]] /\ updated'[d] = updated[d]
    BY <1>1, <1>2, <2>1
  <2> QED
    BY <2>1, <2>2 DEF IInv, ExactInv
<1> QED
  BY <1>4, <1>5, <1>6, <1>8, <1>9, <1>10 DEF IInv

\* A worker that fails or is killed leaves its temporary file and a mishap.
LEMMA LeaveStep ==
  ASSUME IInv, NEW e \in Editors, fail(e) \/ exit(e) \/ kill(e)
  PROVE  IInv'
<1>1. /\ \E label \in {"idle", "off"} : pc' = [pc EXCEPT ![e] = label]
      /\ UNCHANGED <<file, temp, locals, edits, history>>
      /\ \/ pc[e] = "idle" /\ mishaps' = mishaps
         \/ pc[e] # "off" /\ mishaps' = mishaps + 1 /\ mishaps < MishapBound
  BY DEF fail, exit, kill, Goto, Mishap
<1>2. /\ pc'[e] \in {"idle", "off"} /\ pc[e] # "off"
      /\ \A d \in Editors : temp_of(d)' = temp_of(d) /\ (d # e => pc'[d] = pc[d])
  BY <1>1 DEF IInv, TypeOK, temp_of
<1>3. TypeOK' /\ RefusedOnlyAfterMishap'
  BY <1>1 DEF IInv, TypeOK, RefusedOnlyAfterMishap
<1>4. FilesAreWhole' /\ PidInv' /\ TempInv' /\ ExactInv'
  BY <1>1, <1>2 DEF IInv, FilesAreWhole, PidInv, TempInv, ExactInv
<1>5. OwnerInv'
  <2> SUFFICES ASSUME NEW t \in Temps, temp'[t] # NoTemp, mishaps' = 0
               PROVE  \E d \in Editors : pc'[d] \in Owning /\ temp_of(d)' = t
    BY DEF OwnerInv
  <2>1. pc[e] = "idle" /\ mishaps = 0
    BY <1>1 DEF IInv, TypeOK
  <2>2. PICK d \in Editors : pc[d] \in Owning /\ temp_of(d) = t
    BY <1>1, <2>1 DEF IInv, OwnerInv
  <2> QED
    BY <1>2, <2>1, <2>2
<1> QED
  BY <1>3, <1>4, <1>5 DEF IInv

\* A process that is no editor writes to a file and everybody who has read it
\* has read an old one.
LEMMA OutsideStep ==
  ASSUME IInv, NEW f \in Files, outside_write(f)
  PROVE  IInv'
<1> DEFINE k == edits + 1
           c == [edits |-> file[f].edits \cup {k}, whole |-> TRUE, executable |-> TRUE]
<1>1. k \in Edits /\ edits' \in 0..EditBound
  BY DEF IInv, TypeOK, Edits, outside_write
<1>2. file' = [file EXCEPT ![f] = c] /\ c \in Content
  <2>1. PICK x \in SUBSET Edits, w \in BOOLEAN, y \in BOOLEAN :
          file[f] = [edits |-> x, whole |-> w, executable |-> y]
    BY DEF IInv, TypeOK, Content
  <2>2. w = TRUE /\ y = TRUE
    BY <2>1 DEF IInv, FilesAreWhole
  <2>3. c = [edits |-> x \cup {k}, whole |-> w, executable |-> y]
    BY <2>1, <2>2
  <2>4. file' = [file EXCEPT ![f] = c]
    <3>1. file' = [file EXCEPT ![f].edits = @ \cup {k}]
      BY DEF outside_write
    <3> HIDE DEF c, k
    <3>2. c = [file[f] EXCEPT !.edits = file[f].edits \cup {k}]
      <4>1. file[f].edits = x
        BY <2>1
      <4>2. [file[f] EXCEPT !.edits = x \cup {k}] = [edits |-> x \cup {k}, whole |-> w, executable |-> y]
        BY <2>1, FieldChanged
      <4> QED
        BY <2>3, <4>1, <4>2
    <3> QED
      BY <3>1, <3>2 DEF IInv, TypeOK
  <2>5. c \in Content
    BY <1>1, <2>1, <2>3 DEF Content
  <2> QED
    BY <2>4, <2>5
<1>3. /\ raced' = [o \in Editors |-> raced[o] \/ (/\ o \in Editors /\ target[o] = f
                                                  /\ pc[o] \notin {"off", "idle"})]
      /\ UNCHANGED <<temp, pc, locals, mishaps, refused>>
  BY DEF outside_write, Race
<1>4. c.whole /\ c.executable
  OBVIOUS
<1> HIDE DEF c, k
<1>5. TypeOK'
  <2>1. raced' \in [Editors -> BOOLEAN]
    BY <1>3 DEF IInv, TypeOK
  <2> QED
    BY <1>1, <1>2, <1>3, <2>1 DEF IInv, TypeOK
<1>6. FilesAreWhole'
  BY <1>2, <1>4 DEF IInv, TypeOK, FilesAreWhole
<1>7. PidInv' /\ TempInv' /\ OwnerInv' /\ RefusedOnlyAfterMishap'
  BY <1>3 DEF IInv, PidInv, TempInv, OwnerInv, RefusedOnlyAfterMishap, temp_of
<1>8. ExactInv'
  <2> SUFFICES ASSUME NEW d \in Editors, pc'[d] \in Editing, ~raced'[d]
               PROVE  \E j \in Edits : updated'[d].edits = file'[target'[d]].edits \cup {j}
    BY DEF ExactInv
  <2>1. pc[d] \in Editing /\ ~raced[d] /\ target[d] # f /\ target[d] \in Files
    BY <1>3 DEF IInv, TypeOK
  <2>2. file'[target'[d]] = file[target[d]] /\ updated'[d] = updated[d]
    BY <1>2, <1>3, <2>1 DEF IInv, TypeOK
  <2> QED
    BY <2>1, <2>2 DEF IInv, ExactInv
<1> QED
  BY <1>5, <1>6, <1>7, <1>8 DEF IInv

-----------------------------------------------------------------------------
\* The inductive invariant of the workspace and its editors.
THEOREM Inductive == Spec => []IInv
<1>1. Init => IInv
  <2> SUFFICES ASSUME Init PROVE IInv
    OBVIOUS
  <2>1. Empty \in Content /\ Cardinality(Empty.edits) <= MaxFile
    BY FS_EmptySet DEF Empty, Content
  <2>2. Original \in [Files -> Content] /\ FilesAreWhole
    BY DEF Init, Original, Content, FilesAreWhole
  <2>3. TypeOK
    <3>1. updated \in [Editors -> {c \in Content : Cardinality(c.edits) <= MaxFile}]
      BY <2>1 DEF Init
    <3>2. temp \in [Temps -> Content \cup {NoTemp}]
      BY DEF Init
    <3>3. file \in [Files -> Content]
      BY <2>2 DEF Init
    <3>4. /\ edits \in 0..EditBound /\ mishaps \in 0..MishapBound
          /\ pc \in [Editors -> {"off", "idle", "read", "created", "written", "permitted"}]
          /\ pid \in [Editors -> Pids] /\ target \in [Editors -> Files]
      BY DEF Init
    <3>5. raced \in [Editors -> BOOLEAN] /\ refused \in BOOLEAN
      BY DEF Init
    <3> QED
      BY <3>1, <3>2, <3>3, <3>4, <3>5 DEF TypeOK
  <2>4. PidInv /\ TempInv /\ OwnerInv /\ ExactInv /\ RefusedOnlyAfterMishap
    BY DEF Init, PidInv, TempInv, OwnerInv, ExactInv, RefusedOnlyAfterMishap
  <2> QED
    BY <2>2, <2>3, <2>4 DEF IInv
<1>2. IInv /\ [Next]_vars => IInv'
  <2> SUFFICES ASSUME IInv, [Next]_vars PROVE IInv'
    OBVIOUS
  <2>1. CASE UNCHANGED vars
    BY <2>1 DEF vars, IInv, TypeOK, FilesAreWhole, PidInv, TempInv, OwnerInv, ExactInv,
                RefusedOnlyAfterMishap, temp_of
  <2>2. CASE Next
    BY <2>2, StartStep, ReadStep, CreateStep, FillStep, RenameStep, LeaveStep, OutsideStep
    DEF Next
  <2> QED
    BY <2>1, <2>2
<1> QED
  BY <1>1, <1>2, PTL DEF Spec

\* Every variable of the workspace has its type, and no editor ever holds a
\* content past the limit.
THEOREM TypeCorrect == Spec => []TypeOK
<1>1. IInv => TypeOK
  BY DEF IInv
<1> QED
  BY <1>1, Inductive, PTL

\* Whoever reads a file reads a whole one with the permissions it always had,
\* whatever step has failed and whoever was killed.
THEOREM ReadersSeeWholeFiles == Spec => []FilesAreWhole
<1>1. IInv => FilesAreWhole
  BY DEF IInv
<1> QED
  BY <1>1, Inductive, PTL

\* Editors never get in each other's way: an edit is refused for its temporary
\* file only after a failure or a kill has left one.
THEOREM RefusalsHaveACause == Spec => []RefusedOnlyAfterMishap
<1>1. IInv => RefusedOnlyAfterMishap
  BY DEF IInv
<1> QED
  BY <1>1, Inductive, PTL

\* An edit adds exactly itself to the file, unless the file has changed under
\* the editor since it was read.
THEOREM EditsAreExact == Spec => ExactUnlessRaced
<1>1. ASSUME IInv
      PROVE  \A e \in Editors : rename(e) /\ ~raced[e]
               => \E k \in Edits : file'[target[e]].edits = file[target[e]].edits \cup {k}
  <2> SUFFICES ASSUME NEW e \in Editors, rename(e), ~raced[e]
               PROVE  \E k \in Edits : file'[target[e]].edits = file[target[e]].edits \cup {k}
    OBVIOUS
  <2>1. /\ pc[e] = "permitted"
        /\ temp[temp_of(e)] = [edits |-> updated[e].edits, whole |-> TRUE, executable |-> TRUE]
        /\ file'[target[e]] = temp[temp_of(e)]
    BY <1>1, Renamed
  <2> QED
    BY <1>1, <2>1 DEF IInv, ExactInv
<1> QED
  BY <1>1, Inductive, PTL DEF Spec, ExactUnlessRaced
=============================================================================
