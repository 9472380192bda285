-------------------------- MODULE EvaluationProofs --------------------------
(***************************************************************************)
(* The harness for every number of families and attempts and every set of  *)
(* source contents: a pass is one attempt's, a row of the summary is one   *)
(* attempt's, and the exit status is what the summary calls for.           *)
(***************************************************************************)
EXTENDS Evaluation, TLAPS

Full == [acceptance |-> TRUE, clean |-> TRUE, kind |-> "none"]

Between == {"build", "family", "exited"}
Trying == {"poll", "wait", "copy", "compare", "test", "record"}
Judged == {"copy", "compare", "test", "record"}

\* Status 0, and a file that says so, are only there for a worker that ended
\* after it recorded a success.
WorkerInv ==
  /\ worker_exit # "none" => worker = "ended"
  /\ worker = "ended" => worker_exit # "none"
  /\ worker_exit = "zero" => state = "succeeded"
  /\ state # "unknown" => worker \in {"settled", "ended"}
  /\ subshell = "writing" => worker = "ended"
  /\ status_file = "zero" => worker = "ended" /\ worker_exit = "zero"

\* What a clean record says is still true of the worker, so that the files that
\* were copied are the ones it left, but for those that were written since.
RecordInv ==
  pc \in Judged =>
    /\ record.clean => worker = "ended" /\ worker_exit = "zero" /\ state = "succeeded"
    /\ record.clean => \A f \in Files \ (uncopied \cup rewritten) : copied[f] = src[f]
    /\ pc # "copy" => uncopied = {}
    /\ record.acceptance => pc = "record" /\ copied \in Repaired
    /\ pc = "record" /\ ~harness_ok => record.kind = "other"

\* Attempts are made on a sound baseline by a sound harness, until one passes.
TryingInv ==
  /\ pc \in Trying => attempt > 0 /\ ~family_pass /\ baseline = "failed_as_expected"
  /\ pc \in Trying \ {"record"} => harness_ok

\* Where the harness stands in the families, and the rows it has written.
PlaceInv ==
  /\ pc = "build" => family = 0
  /\ pc \in Between => Len(summary) = family
  /\ pc \notin Between => family > 0 /\ Len(summary) = family - 1
  /\ exit_status # -1 => pc = "exited"
  /\ pc = "exited" /\ family > 0 => family = FamilyCount

\* The rows of the family at hand: one for each attempt that is over, and none
\* of them passed but, at most, the last.
AttemptsInv ==
  /\ DOMAIN attempts = 1..FamilyCount
  /\ \A f \in 1..FamilyCount : f > family => attempts[f] = <<>>
  /\ pc \in Trying => Len(attempts[family]) = attempt - 1
  /\ pc \in {"attempt", "result"} /\ harness_ok => Len(attempts[family]) = attempt
  /\ pc \notin Between =>
       \A i \in 1..Len(attempts[family]) : attempts[family][i] = Full =>
         pc \notin Trying /\ i = Len(attempts[family]) /\ family_pass

\* Between two attempts the result of the family is the last of its rows, and
\* the family passes if that row does.
ResultInv ==
  pc \in {"attempt", "result"} /\ Sound =>
    /\ family_pass <=> result = Full
    /\ attempt > 0 => result = attempts[family][attempt]

\* The two flags the exit status is made of, as the rows have them.
FlagsInv ==
  /\ harness_failed <=>
       \/ \E f \in 1..Len(summary) : ~summary[f].baseline_ok \/ ~summary[f].harness_ok
       \/ pc \notin Between /\ ~Sound
  /\ all_pass <=> \A f \in 1..Len(summary) : summary[f].record = Full
  /\ pc = "exited" /\ family > 0 =>
       exit_status = IF harness_failed THEN 2 ELSE IF all_pass THEN 0 ELSE 1

IInv ==
  /\ TypeOK /\ WorkerInv /\ RecordInv /\ TryingInv /\ PlaceInv /\ AttemptsInv
  /\ ResultInv /\ FlagsInv /\ PassIsOneAttempt /\ RowIsOneAttempt

USE EvaluationAssumption
    DEF place, verdict, overall, crate, evidence, harness, process, shell, outside,
        Between, Trying, Judged

-----------------------------------------------------------------------------
(***************************************************************************)
(* Records.                                                                *)
(***************************************************************************)
\* The full record is the one that passes.
LEMMA FullRecord ==
  ASSUME NEW r \in Record
  PROVE  r = Full <=> r.acceptance /\ r.clean /\ r.kind = "none"
<1>1. PICK a \in BOOLEAN, c \in BOOLEAN, k \in {"none", "wall_timeout", "other"} :
        r = [acceptance |-> a, clean |-> c, kind |-> k]
  BY DEF Record
<1>2. PICK yes \in BOOLEAN : yes = TRUE
  OBVIOUS
<1>3. Full = [acceptance |-> yes, clean |-> yes, kind |-> "none"]
  BY <1>2 DEF Full
<1>4. r = Full <=> a = yes /\ c = yes /\ k = "none"
  BY <1>1, <1>3
<1>5. r.acceptance = a /\ r.clean = c /\ r.kind = k
  BY <1>1
<1> QED
  BY <1>2, <1>4, <1>5

\* A record with its kind set keeps the rest.
LEMMA KindChanged ==
  ASSUME NEW r \in Record, NEW k \in {"none", "wall_timeout", "other"}
  PROVE  /\ [r EXCEPT !.kind = k] \in Record
         /\ [r EXCEPT !.kind = k].kind = k
         /\ [r EXCEPT !.kind = k].clean = r.clean
         /\ [r EXCEPT !.kind = k].acceptance = r.acceptance
<1>1. PICK x \in BOOLEAN, y \in BOOLEAN, z \in {"none", "wall_timeout", "other"} :
        r = [acceptance |-> x, clean |-> y, kind |-> z]
  BY DEF Record
<1>2. [r EXCEPT !.kind = k] = [acceptance |-> x, clean |-> y, kind |-> k]
  BY <1>1
<1> QED
  BY <1>1, <1>2 DEF Record

\* So does a record with its acceptance set.
LEMMA AcceptanceChanged ==
  ASSUME NEW r \in Record, NEW b \in BOOLEAN
  PROVE  /\ [r EXCEPT !.acceptance = b] \in Record
         /\ [r EXCEPT !.acceptance = b].acceptance = b
         /\ [r EXCEPT !.acceptance = b].clean = r.clean
         /\ [r EXCEPT !.acceptance = b].kind = r.kind
<1>1. PICK x \in BOOLEAN, y \in BOOLEAN, z \in {"none", "wall_timeout", "other"} :
        r = [acceptance |-> x, clean |-> y, kind |-> z]
  BY DEF Record
<1>2. [r EXCEPT !.acceptance = b] = [acceptance |-> b, clean |-> y, kind |-> z]
  BY <1>1
<1> QED
  BY <1>1, <1>2 DEF Record

\* The two records a family starts with, and neither is full.
LEMMA FirstRecords ==
  /\ Blank \in Record /\ Failed \in Record
  /\ ~Blank.acceptance /\ ~Failed.acceptance
  /\ Blank # Full /\ Failed # Full
<1>1. /\ Blank \in Record /\ Failed \in Record
  BY DEF Blank, Failed, Record
<1>2. ~Blank.acceptance /\ ~Failed.acceptance
  BY DEF Blank, Failed
<1> QED
  BY <1>1, <1>2, FullRecord

\* The pristine sources are sources.
LEMMA FixtureIsSource == Fixture \in [Files -> Contents]
BY DEF Fixture

-----------------------------------------------------------------------------
(***************************************************************************)
(* The inductive invariant, one lemma for each group of actions.           *)
(***************************************************************************)
\* The worker, the shell around it and whoever writes its sources: the harness
\* stays where it is, a worker that has ended stays as it is, and a file that
\* is written after that counts as rewritten.
LEMMA WorkerStep ==
  ASSUME IInv, Worker \/ Subshell
  PROVE  IInv'
<1>1. UNCHANGED <<pc, place, verdict, overall, timed_out, crate, evidence>>
  BY DEF Worker, Subshell, edit, settle, exit, create_status, write_status
<1>2. /\ worker' \in {"none", "running", "settled", "ended"}
      /\ worker_exit' \in {"none", "zero", "other"}
      /\ state' \in {"unknown", "succeeded", "failed"} /\ src' \in [Files -> Contents]
      /\ rewritten' \subseteq Files
      /\ subshell' \in {"none", "waiting", "writing"}
      /\ status_file' \in {"absent", "empty", "zero", "other"}
      /\ WorkerInv'
  BY DEF IInv, TypeOK, WorkerInv, Worker, Subshell, edit, settle, exit, create_status,
         write_status
<1>3. worker = "ended" =>
        /\ UNCHANGED <<worker, worker_exit, state>> /\ rewritten \subseteq rewritten'
        /\ \A f \in Files \ rewritten' : src'[f] = src[f]
  BY DEF IInv, TypeOK, Worker, Subshell, edit, settle, exit, create_status, write_status
<1>4. TypeOK'
  <2>1. ({harness_ok, family_pass, timed_out, harness_failed, all_pass} \subseteq BOOLEAN)'
    BY <1>1 DEF IInv, TypeOK
  <2> QED
    BY <1>1, <1>2, <2>1 DEF IInv, TypeOK
<1>5. RecordInv' /\ PassIsOneAttempt'
  BY <1>1, <1>3 DEF IInv, RecordInv, PassIsOneAttempt
<1>6. TryingInv' /\ PlaceInv' /\ AttemptsInv' /\ ResultInv' /\ FlagsInv' /\ RowIsOneAttempt'
  BY <1>1 DEF IInv, TryingInv, PlaceInv, AttemptsInv, ResultInv, FlagsInv, RowIsOneAttempt, Sound
<1> QED
  BY <1>2, <1>4, <1>5, <1>6 DEF IInv

\* A build that fails ends the run with no family begun.
LEMMA BuildStep ==
  ASSUME IInv, build
  PROVE  IInv'
<1>1. TypeOK'
  <2>1. exit_status' \in -1..2 /\ pc' \in {"family", "exited"}
    BY DEF IInv, TypeOK, build
  <2>2. ({harness_ok, family_pass, timed_out, harness_failed, all_pass} \subseteq BOOLEAN)'
    BY DEF IInv, TypeOK, build
  <2>3. UNCHANGED <<place, verdict, evidence, crate, outside>>
    BY DEF build
  <2> QED
    BY <2>1, <2>2, <2>3 DEF IInv, TypeOK
<1>2. WorkerInv' /\ RecordInv' /\ TryingInv' /\ PassIsOneAttempt' /\ RowIsOneAttempt'
  BY DEF IInv, WorkerInv, RecordInv, TryingInv, PassIsOneAttempt, RowIsOneAttempt, build
<1>3. PlaceInv' /\ AttemptsInv' /\ ResultInv' /\ FlagsInv'
  BY DEF IInv, TypeOK, PlaceInv, AttemptsInv, ResultInv, FlagsInv, Sound, build
<1> QED
  BY <1>1, <1>2, <1>3 DEF IInv

\* A family begins with no attempt, and fails the harness unless its baseline
\* is the one it has to have.
LEMMA FamilyStep ==
  ASSUME IInv, begin_family
  PROVE  IInv'
<1>1. /\ pc = "family" /\ pc' = "attempt" /\ family < FamilyCount /\ family' = family + 1
      /\ attempt' = 0 /\ family_pass' = FALSE
      /\ baseline' \in Baseline
      /\ UNCHANGED <<record, all_pass, exit_status, timed_out, crate, evidence, outside>>
  BY DEF begin_family
<1>2. /\ result' \in Record /\ result' # Full
      /\ harness_ok' \in BOOLEAN /\ harness_failed' \in BOOLEAN
      /\ Sound' <=> baseline' = "failed_as_expected"
      /\ harness_failed' <=> harness_failed \/ ~Sound'
  <2>1. harness_ok' = (baseline' \in {"unexpected_pass", "failed_as_expected"})
    BY DEF begin_family
  <2>2. harness_failed' = (harness_failed \/ baseline' # "failed_as_expected")
    BY DEF begin_family
  <2>3. result' = IF baseline' = "failed_as_expected" THEN Blank ELSE Failed
    BY DEF begin_family
  <2>4. harness_failed \in BOOLEAN
    BY DEF IInv, TypeOK
  <2>5. result' \in Record /\ result' # Full
    BY <2>3, FirstRecords
  <2>6. harness_ok' \in BOOLEAN /\ harness_failed' \in BOOLEAN
    BY <2>1, <2>2, <2>4
  <2>7. Sound' <=> baseline' = "failed_as_expected"
    BY <2>1 DEF Sound
  <2>8. harness_failed' <=> harness_failed \/ ~Sound'
    BY <2>2, <2>7
  <2> QED
    BY <2>5, <2>6, <2>7, <2>8
<1>3. family \in Nat /\ family' \in 0..FamilyCount /\ attempt' \in 0..MaxAttempts
  BY <1>1 DEF IInv, TypeOK
<1>4. TypeOK'
  <2>1. ({harness_ok, family_pass, timed_out, harness_failed, all_pass} \subseteq BOOLEAN)'
    BY <1>1, <1>2 DEF IInv, TypeOK
  <2> QED
    BY <1>1, <1>2, <1>3, <2>1 DEF IInv, TypeOK
<1>5. WorkerInv' /\ RecordInv' /\ TryingInv' /\ PassIsOneAttempt' /\ RowIsOneAttempt'
  BY <1>1 DEF IInv, WorkerInv, RecordInv, TryingInv, PassIsOneAttempt, RowIsOneAttempt
<1>6. PlaceInv'
  BY <1>1, <1>3 DEF IInv, PlaceInv
<1>7. AttemptsInv'
  <2>1. attempts[family'] = <<>> /\ Len(attempts[family']) = 0
    BY <1>1, <1>3 DEF IInv, AttemptsInv
  <2> QED
    BY <1>1, <1>3, <2>1 DEF IInv, AttemptsInv
<1>8. ResultInv'
  BY <1>1, <1>2 DEF ResultInv
<1>9. FlagsInv'
  BY <1>1, <1>2 DEF IInv, FlagsInv
<1> QED
  BY <1>4, <1>5, <1>6, <1>7, <1>8, <1>9 DEF IInv

\* An attempt is launched by a sound harness in a family that has not passed:
\* none of its rows is full.
LEMMA LaunchStep ==
  ASSUME IInv, launch
  PROVE  IInv'
<1>1. /\ pc = "attempt" /\ Sound /\ attempt < MaxAttempts /\ ~family_pass
      /\ attempt' = attempt + 1
      /\ UNCHANGED <<family, baseline, family_pass, record, all_pass, exit_status, crate, evidence>>
  BY DEF launch, MoreAttempts
<1>2. /\ attempt \in Nat /\ attempt' \in 0..MaxAttempts /\ attempt' > 0
      /\ family > 0 /\ family \in 1..FamilyCount /\ Len(summary) = family - 1
      /\ harness_ok /\ baseline = "failed_as_expected"
  BY <1>1 DEF IInv, TypeOK, PlaceInv, Sound
<1>3. /\ Len(attempts[family]) = attempt
      /\ \A i \in 1..Len(attempts[family]) : attempts[family][i] # Full
  BY <1>1, <1>2 DEF IInv, AttemptsInv
<1>4. CASE pc' = "poll"
  <2>1. /\ timed_out' = FALSE
        /\ worker' = "running" /\ worker_exit' = "none" /\ state' = "unknown"
        /\ src' = Fixture /\ rewritten' = {}
        /\ subshell' = "waiting" /\ status_file' = "absent"
        /\ UNCHANGED <<harness_ok, harness_failed, result>>
    BY <1>4 DEF launch
  <2>2. TypeOK'
    <3>1. ({harness_ok, family_pass, timed_out, harness_failed, all_pass} \subseteq BOOLEAN)'
      BY <1>1, <2>1 DEF IInv, TypeOK
    <3>2. (src \in [Files -> Contents] /\ rewritten \subseteq Files)'
      BY <2>1, FixtureIsSource
    <3> QED
      BY <1>1, <1>2, <1>4, <2>1, <3>1, <3>2 DEF IInv, TypeOK
  <2>3. WorkerInv' /\ RecordInv' /\ PassIsOneAttempt'
    BY <1>1, <1>4, <2>1 DEF WorkerInv, RecordInv, PassIsOneAttempt
  <2>4. TryingInv' /\ PlaceInv' /\ ResultInv' /\ RowIsOneAttempt'
    BY <1>1, <1>2, <1>4, <2>1 DEF IInv, TryingInv, PlaceInv, ResultInv, RowIsOneAttempt
  <2>5. AttemptsInv'
    BY <1>1, <1>2, <1>3, <1>4 DEF IInv, AttemptsInv
  <2>6. FlagsInv'
    BY <1>1, <1>4, <2>1 DEF IInv, FlagsInv, Sound
  <2> QED
    BY <2>2, <2>3, <2>4, <2>5, <2>6 DEF IInv
<1>5. CASE pc' = "result"
  <2>1. /\ harness_ok' = FALSE /\ harness_failed' = TRUE
        /\ result' = [result EXCEPT !.kind = "other"]
        /\ UNCHANGED <<timed_out, outside>>
    BY <1>5 DEF launch
  <2>2. TypeOK'
    <3>1. ({harness_ok, family_pass, timed_out, harness_failed, all_pass} \subseteq BOOLEAN)'
      BY <1>1, <2>1 DEF IInv, TypeOK
    <3>2. result' \in Record
      BY <2>1, KindChanged DEF IInv, TypeOK
    <3> QED
      BY <1>1, <1>2, <1>5, <2>1, <3>1, <3>2 DEF IInv, TypeOK
  <2>3. WorkerInv' /\ RecordInv' /\ PassIsOneAttempt'
    BY <1>1, <1>5, <2>1 DEF IInv, WorkerInv, RecordInv, PassIsOneAttempt
  <2>4. TryingInv' /\ PlaceInv' /\ ResultInv' /\ RowIsOneAttempt'
    BY <1>1, <1>2, <1>5, <2>1 DEF IInv, TryingInv, PlaceInv, ResultInv, RowIsOneAttempt, Sound
  <2>5. AttemptsInv'
    BY <1>1, <1>2, <1>3, <1>5, <2>1 DEF IInv, AttemptsInv
  <2>6. FlagsInv'
    BY <1>1, <1>5, <2>1 DEF IInv, FlagsInv, Sound
  <2> QED
    BY <2>2, <2>3, <2>4, <2>5, <2>6 DEF IInv
<1>6. pc' \in {"poll", "result"}
  BY DEF launch
<1> QED
  BY <1>4, <1>5, <1>6

\* The status file is seen or the wall limit is over, and the worker is judged
\* by what the file and the log say.
LEMMA JudgeStep ==
  ASSUME IInv, see_status \/ give_up \/ judge
  PROVE  IInv'
<1>1. /\ pc \in {"poll", "wait"} /\ pc' \in {"wait", "copy"}
      /\ UNCHANGED <<place, harness_ok, family_pass, result, overall, copied, evidence,
                     process, status_file>>
  BY DEF see_status, give_up, judge
<1>2. /\ record' \in Record /\ timed_out' \in BOOLEAN /\ subshell' \in {subshell, "none"}
      /\ pc' = "copy" => record'.acceptance = FALSE /\ record'.clean = worker_clean
      /\ uncopied' \subseteq Files
      /\ pc' = "copy" => uncopied' = Files
  <2>1. CASE see_status
    BY <2>1 DEF IInv, TypeOK, see_status
  <2>2. CASE give_up
    BY <2>2 DEF IInv, TypeOK, give_up, AfterKill
  <2>3. CASE judge
    <3>1. PICK kind \in FailureKind :
            record' = [acceptance |-> FALSE, clean |-> worker_clean, kind |-> kind]
      BY <2>3 DEF judge
    <3>2. kind \in {"none", "wall_timeout", "other"} /\ worker_clean \in BOOLEAN
      BY DEF FailureKind, worker_clean
    <3> QED
      BY <2>3, <3>1, <3>2 DEF IInv, TypeOK, judge, Record
  <2> QED
    BY <2>1, <2>2, <2>3
<1>3. TypeOK'
  <2>1. ({harness_ok, family_pass, timed_out, harness_failed, all_pass} \subseteq BOOLEAN)'
    BY <1>1, <1>2 DEF IInv, TypeOK
  <2> QED
    BY <1>1, <1>2, <2>1 DEF IInv, TypeOK
<1>4. WorkerInv' /\ TryingInv' /\ PassIsOneAttempt' /\ RowIsOneAttempt'
  BY <1>1, <1>2 DEF IInv, WorkerInv, TryingInv, PassIsOneAttempt, RowIsOneAttempt
<1>5. RecordInv'
  BY <1>1, <1>2 DEF IInv, WorkerInv, RecordInv, worker_clean
<1>6. PlaceInv' /\ AttemptsInv' /\ ResultInv' /\ FlagsInv'
  BY <1>1 DEF IInv, PlaceInv, AttemptsInv, ResultInv, FlagsInv, Sound
<1> QED
  BY <1>3, <1>4, <1>5, <1>6 DEF IInv

\* The test only decides the acceptance of the record.
LEMMA Tested ==
  ASSUME TypeOK, test
  PROVE  /\ record' \in Record /\ record'.clean = record.clean
         /\ record'.acceptance = (copied \in Repaired)
<1>1. PICK b \in BOOLEAN : b = (copied \in Repaired)
  <2>1. CASE copied \in Repaired
    <3>1. (copied \in Repaired) = TRUE
      BY <2>1
    <3> QED
      BY <3>1, Zenon
  <2>2. CASE copied \notin Repaired
    <3>1. (copied \in Repaired) = FALSE
      BY <2>2
    <3> QED
      BY <3>1, Zenon
  <2> QED
    BY <2>1, <2>2
<1>2. record' = [record EXCEPT !.acceptance = b]
  BY <1>1 DEF test
<1> QED
  BY <1>1, <1>2, AcceptanceChanged DEF TypeOK

\* The sources are copied, compared with the workspace, and tested.
LEMMA TestStep ==
  ASSUME IInv, copy \/ compare \/ test
  PROVE  IInv'
<1>1. /\ pc \in {"copy", "compare", "test"} /\ pc' \in {"copy", "compare", "test", "record"}
      /\ UNCHANGED <<place, family_pass, result, all_pass, exit_status, timed_out, evidence, outside>>
  BY DEF copy, compare, test
<1>2. /\ record' \in Record /\ copied' \in [Files -> Contents] /\ uncopied' \subseteq Files
      /\ harness_ok' \in BOOLEAN /\ harness_failed' \in BOOLEAN
      /\ record'.clean = record.clean
  <2>1. CASE copy
    BY <2>1 DEF IInv, TypeOK, copy
  <2>2. CASE compare
    <3>1. [record EXCEPT !.kind = "other"] \in Record
      BY KindChanged DEF IInv, TypeOK
    <3>2. [record EXCEPT !.kind = "other"].clean = record.clean
      BY KindChanged DEF IInv, TypeOK
    <3> QED
      BY <2>2, <3>1, <3>2 DEF IInv, TypeOK, compare
  <2>3. CASE test
    BY <2>3, Tested DEF IInv, TypeOK, test
  <2> QED
    BY <2>1, <2>2, <2>3
<1>3. TypeOK'
  <2>1. ({harness_ok, family_pass, timed_out, harness_failed, all_pass} \subseteq BOOLEAN)'
    BY <1>1, <1>2 DEF IInv, TypeOK
  <2> QED
    BY <1>1, <1>2, <2>1 DEF IInv, TypeOK
<1>4. RecordInv'
  <2>1. CASE copy
    <3>1. PICK f \in uncopied : /\ copied' = [copied EXCEPT ![f] = src[f]]
                                /\ uncopied' = uncopied \ {f}
      BY <2>1 DEF copy
    <3>2. /\ pc = "copy" /\ (pc' # "copy" => uncopied' = {}) /\ pc' # "record"
          /\ UNCHANGED <<record, outside>>
      BY <2>1 DEF copy
    <3>3. ASSUME record.clean, NEW g \in Files \ (uncopied' \cup rewritten)
          PROVE  copied'[g] = src[g]
      <4>1. copied'[g] = IF g = f THEN src[f] ELSE copied[g]
        BY <3>1 DEF IInv, TypeOK
      <4>2. g # f => copied[g] = src[g]
        BY <3>1, <3>2, <3>3 DEF IInv, RecordInv
      <4> QED
        BY <4>1, <4>2
    <3>4. /\ record.clean => worker = "ended" /\ worker_exit = "zero" /\ state = "succeeded"
          /\ ~record.acceptance
      BY <3>2 DEF IInv, RecordInv
    <3> QED
      BY <3>2, <3>3, <3>4 DEF RecordInv
  <2>2. CASE compare
    <3>1. CASE pc' = "test"
      BY <2>2, <3>1 DEF IInv, RecordInv, TryingInv, compare
    <3>2. CASE pc' = "record"
      <4>1. /\ pc = "compare" /\ record' = [record EXCEPT !.kind = "other"]
            /\ UNCHANGED <<crate, outside>>
        BY <2>2, <3>2 DEF compare
      <4>2. record'.kind = "other" /\ record'.acceptance = record.acceptance
        BY <4>1, KindChanged DEF IInv, TypeOK
      <4> QED
        BY <1>2, <3>2, <4>1, <4>2 DEF IInv, RecordInv
    <3> QED
      BY <2>2, <3>1, <3>2 DEF compare
  <2>3. CASE test
    <3>1. /\ pc = "test" /\ pc' = "record" /\ harness_ok' /\ UNCHANGED <<crate, outside>>
      BY <2>3 DEF IInv, TryingInv, test
    <3>2. record'.acceptance = (copied \in Repaired)
      BY <2>3, Tested DEF IInv
    <3> QED
      BY <1>2, <3>1, <3>2 DEF IInv, RecordInv
  <2> QED
    BY <2>1, <2>2, <2>3
<1>5. /\ pc' # "record" => UNCHANGED <<harness_ok, harness_failed>>
      /\ \/ UNCHANGED <<harness_ok, harness_failed>>
         \/ harness_ok' = FALSE /\ harness_failed' = TRUE
  BY DEF copy, compare, test
<1>6. WorkerInv' /\ TryingInv' /\ PassIsOneAttempt' /\ RowIsOneAttempt'
  BY <1>1, <1>5 DEF IInv, WorkerInv, TryingInv, PassIsOneAttempt, RowIsOneAttempt
<1>7. PlaceInv' /\ AttemptsInv' /\ ResultInv'
  BY <1>1 DEF IInv, PlaceInv, AttemptsInv, ResultInv
<1>8. FlagsInv'
  BY <1>1, <1>5 DEF IInv, FlagsInv, Sound
<1> QED
  BY <1>3, <1>4, <1>6, <1>7, <1>8 DEF IInv

\* The attempt's record becomes a row and the result of the family, which
\* passes if, and only if, that one record is full.
LEMMA RecordStep ==
  ASSUME IInv, record_attempt
  PROVE  IInv'
<1>1. /\ pc = "record" /\ pc' = "attempt" /\ result' = record /\ family_pass' = Passes(record)
      /\ attempts' = [attempts EXCEPT ![family] = Append(@, record)]
      /\ UNCHANGED <<place, harness_ok, record, overall, timed_out, crate, summary, outside>>
  BY DEF record_attempt, FamilyResult
<1> DEFINE tried == attempts[family]
<1>2. /\ family \in 1..FamilyCount /\ Len(summary) = family - 1
      /\ attempt \in Nat /\ attempt > 0 /\ attempt <= MaxAttempts
      /\ record \in Record /\ tried \in Seq(Record) /\ Len(tried) = attempt - 1
      /\ \A i \in 1..Len(tried) : tried[i] # Full
  BY <1>1 DEF IInv, TypeOK, PlaceInv, TryingInv, AttemptsInv
<1>3. /\ attempts'[family] \in Seq(Record) /\ Len(attempts'[family]) = attempt
      /\ attempts'[family][attempt] = record
      /\ \A i \in 1..(attempt - 1) : attempts'[family][i] # Full
      /\ \A f \in 1..FamilyCount : f # family => attempts'[f] = attempts[f]
      /\ DOMAIN attempts' = 1..FamilyCount
  <2>1. attempts'[family] = Append(tried, record)
    BY <1>1, <1>2 DEF IInv, AttemptsInv
  <2>2. /\ Append(tried, record) \in Seq(Record) /\ Len(Append(tried, record)) = attempt
        /\ Append(tried, record)[attempt] = record
        /\ \A i \in 1..(attempt - 1) : Append(tried, record)[i] = tried[i]
    BY <1>2
  <2>3. /\ \A f \in 1..FamilyCount : f # family => attempts'[f] = attempts[f]
        /\ DOMAIN attempts' = 1..FamilyCount
    BY <1>1, <1>2 DEF IInv, AttemptsInv
  <2> HIDE DEF tried
  <2> QED
    BY <1>2, <2>1, <2>2, <2>3
<1>4. /\ family_pass' \in BOOLEAN
      /\ family_pass' <=> record = Full
      /\ family_pass' => record.acceptance /\ record.clean
  <2>1. record = Full => harness_ok
    BY <1>1, <1>2, FullRecord DEF IInv, RecordInv
  <2>2. family_pass' = (harness_ok /\ record.acceptance /\ record.clean /\ record.kind = "none")
    BY <1>1 DEF Passes
  <2> QED
    BY <1>2, <2>1, <2>2, FullRecord
<1> HIDE DEF tried
<1>5. TypeOK'
  <2>1. ({harness_ok, family_pass, timed_out, harness_failed, all_pass} \subseteq BOOLEAN)'
    BY <1>1, <1>4 DEF IInv, TypeOK
  <2>2. \A f \in 1..FamilyCount : attempts'[f] \in Seq(Record) /\ Len(attempts'[f]) <= MaxAttempts
    BY <1>2, <1>3 DEF IInv, TypeOK
  <2> QED
    BY <1>1, <1>2, <2>1, <2>2 DEF IInv, TypeOK
<1>6. WorkerInv' /\ RecordInv' /\ TryingInv' /\ PlaceInv'
  BY <1>1 DEF IInv, WorkerInv, RecordInv, TryingInv, PlaceInv
<1>7. PassIsOneAttempt'
  BY <1>1, <1>4 DEF IInv, RecordInv, PassIsOneAttempt
<1>8. AttemptsInv'
  BY <1>1, <1>2, <1>3, <1>4 DEF IInv, AttemptsInv
<1>9. ResultInv'
  BY <1>1, <1>3, <1>4 DEF ResultInv
<1>10. FlagsInv'
  BY <1>1 DEF IInv, FlagsInv, Sound
<1>11. RowIsOneAttempt'
  <2>1. summary' = summary /\ \A f \in 1..Len(summary) : attempts'[f] = attempts[f]
    BY <1>1, <1>2, <1>3
  <2> SUFFICES ASSUME NEW f \in 1..Len(summary'),
                      summary'[f].baseline_ok, summary'[f].harness_ok, summary'[f].attempts > 0
               PROVE  /\ Len(attempts'[f]) = summary'[f].attempts
                      /\ summary'[f].record = attempts'[f][summary'[f].attempts]
                      /\ \A i \in 1..(summary'[f].attempts - 1) : attempts'[f][i] # Full
    BY DEF RowIsOneAttempt, Full
  <2> QED
    BY <2>1 DEF IInv, RowIsOneAttempt, Full
<1> QED
  BY <1>5, <1>6, <1>7, <1>8, <1>9, <1>10, <1>11 DEF IInv

\* No attempt is left to make.
LEMMA OverStep ==
  ASSUME IInv, attempts_over
  PROVE  IInv'
<1>1. /\ pc = "attempt" /\ pc' = "result"
      /\ UNCHANGED <<place, verdict, overall, timed_out, crate, evidence, outside>>
  BY DEF attempts_over
<1>2. TypeOK'
  BY <1>1 DEF IInv, TypeOK
<1>3. WorkerInv' /\ RecordInv' /\ TryingInv' /\ PlaceInv' /\ PassIsOneAttempt' /\ RowIsOneAttempt'
  BY <1>1 DEF IInv, WorkerInv, RecordInv, TryingInv, PlaceInv, PassIsOneAttempt, RowIsOneAttempt
<1>4. AttemptsInv' /\ ResultInv' /\ FlagsInv'
  BY <1>1 DEF IInv, AttemptsInv, ResultInv, FlagsInv, Sound
<1> QED
  BY <1>2, <1>3, <1>4 DEF IInv

\* The row of a family tells whether its harness was sound, and is full only
\* for a sound family that passed.
LEMMA RowOfFamily ==
  ASSUME TypeOK, ResultInv, pc = "result"
  PROVE  /\ FamilyRow \in Row /\ FamilyRow.record \in Record
         /\ FamilyRow.attempts = attempt
         /\ FamilyRow.baseline_ok /\ FamilyRow.harness_ok <=> Sound
         /\ Sound => FamilyRow.record = result
         /\ FamilyRow.record = Full <=> Sound /\ family_pass
<1> DEFINE r == IF Sound THEN result ELSE [Failed EXCEPT !.kind = result.kind]
<1>1. result \in Record /\ result.kind \in {"none", "wall_timeout", "other"}
  BY DEF TypeOK, Record
<1>2. /\ [Failed EXCEPT !.kind = result.kind] \in Record
      /\ ~[Failed EXCEPT !.kind = result.kind].acceptance
  <2>1. Failed \in Record /\ ~Failed.acceptance
    BY FirstRecords
  <2>2. \A k \in {"none", "wall_timeout", "other"} :
          /\ [Failed EXCEPT !.kind = k] \in Record
          /\ [Failed EXCEPT !.kind = k].acceptance = Failed.acceptance
    BY <2>1, KindChanged
  <2> QED
    BY <1>1, <2>1, <2>2
<1>3. [Failed EXCEPT !.kind = result.kind] # Full
  BY <1>2, FullRecord
<1>4. /\ r \in Record /\ (Sound => r = result) /\ (~Sound => r # Full)
      /\ r = Full <=> Sound /\ family_pass
  BY <1>1, <1>2, <1>3 DEF ResultInv
<1> HIDE DEF r
<1>5. FamilyRow = [baseline_ok |-> baseline = "failed_as_expected", harness_ok |-> harness_ok,
                   attempts |-> attempt, record |-> r]
  BY DEF FamilyRow, r
<1>6. /\ (baseline = "failed_as_expected") \in BOOLEAN /\ harness_ok \in BOOLEAN
      /\ attempt \in 0..MaxAttempts
  BY DEF TypeOK
<1>7. FamilyRow \in Row
  BY <1>4, <1>5, <1>6 DEF Row
<1>8. FamilyRow.baseline_ok /\ FamilyRow.harness_ok <=> Sound
  BY <1>5 DEF Sound
<1>9. FamilyRow.record = r /\ FamilyRow.attempts = attempt
  BY <1>5
<1> QED
  BY <1>4, <1>7, <1>8, <1>9

\* A family's row is written, and counts in the two flags.
LEMMA ResultStep ==
  ASSUME IInv, write_result
  PROVE  IInv'
<1>1. /\ pc = "result" /\ pc' = "family" /\ summary' = Append(summary, FamilyRow)
      /\ result' = FamilyRow.record /\ family_pass' = (Sound /\ family_pass)
      /\ all_pass' = (all_pass /\ family_pass')
      /\ UNCHANGED <<place, harness_ok, record, harness_failed, exit_status, timed_out, crate,
                     attempts, outside>>
  BY DEF write_result, AllPass
<1>2. /\ family \in 1..FamilyCount /\ Len(summary) = family - 1 /\ summary \in Seq(Row)
  BY <1>1 DEF IInv, TypeOK, PlaceInv
<1> DEFINE row == FamilyRow
<1>3. /\ row \in Row /\ row.record \in Record /\ row.attempts = attempt
      /\ row.baseline_ok /\ row.harness_ok <=> Sound
      /\ Sound => row.record = result
      /\ row.record = Full <=> Sound /\ family_pass
  BY <1>1, RowOfFamily DEF IInv
<1> HIDE DEF row
<1>4. /\ summary' \in Seq(Row) /\ Len(summary') = family /\ summary'[family] = row
      /\ \A f \in 1..(family - 1) : summary'[f] = summary[f]
  <2>1. summary' = Append(summary, row)
    BY <1>1 DEF row
  <2> QED
    BY <1>2, <1>3, <2>1
<1>5. TypeOK'
  <2>1. family_pass' \in BOOLEAN /\ all_pass' \in BOOLEAN
    <3>1. family_pass \in BOOLEAN /\ all_pass \in BOOLEAN /\ Sound \in BOOLEAN
      BY DEF IInv, TypeOK, Sound
    <3> QED
      BY <1>1, <3>1
  <2>2. ({harness_ok, family_pass, timed_out, harness_failed, all_pass} \subseteq BOOLEAN)'
    BY <1>1, <2>1 DEF IInv, TypeOK
  <2>3. result' \in Record
    BY <1>1, <1>3 DEF row
  <2> QED
    BY <1>1, <1>2, <1>4, <2>2, <2>3 DEF IInv, TypeOK
<1>6. WorkerInv' /\ RecordInv' /\ TryingInv' /\ PassIsOneAttempt'
  BY <1>1 DEF IInv, WorkerInv, RecordInv, TryingInv, PassIsOneAttempt
<1>7. PlaceInv' /\ AttemptsInv' /\ ResultInv'
  BY <1>1, <1>2, <1>4 DEF IInv, PlaceInv, AttemptsInv, ResultInv
<1>8. FlagsInv'
  <2>1. 1..Len(summary') = 1..Len(summary) \cup {family}
    BY <1>2, <1>4
  <2>2. (\E f \in 1..Len(summary') : ~summary'[f].baseline_ok \/ ~summary'[f].harness_ok)
          <=> \/ \E f \in 1..Len(summary) : ~summary[f].baseline_ok \/ ~summary[f].harness_ok
              \/ ~Sound
    BY <1>2, <1>3, <1>4, <2>1
  <2>3. (\A f \in 1..Len(summary') : summary'[f].record = Full)
          <=> (\A f \in 1..Len(summary) : summary[f].record = Full) /\ Sound /\ family_pass
    BY <1>2, <1>3, <1>4, <2>1
  <2> QED
    BY <1>1, <2>2, <2>3 DEF IInv, FlagsInv
<1>9. RowIsOneAttempt'
  <2> SUFFICES ASSUME NEW f \in 1..Len(summary'),
                      summary'[f].baseline_ok, summary'[f].harness_ok, summary'[f].attempts > 0
               PROVE  /\ Len(attempts'[f]) = summary'[f].attempts
                      /\ summary'[f].record = attempts'[f][summary'[f].attempts]
                      /\ \A i \in 1..(summary'[f].attempts - 1) : attempts'[f][i] # Full
    BY DEF RowIsOneAttempt, Full
  <2>1. CASE f = family
    <3>1. summary'[f] = row /\ attempts' = attempts /\ Sound /\ harness_ok
      BY <1>1, <1>3, <1>4, <2>1 DEF Sound
    <3>2. attempt > 0 /\ Len(attempts[family]) = attempt /\ attempt \in Nat
      BY <1>1, <1>3, <3>1 DEF IInv, TypeOK, AttemptsInv
    <3>3. row.record = attempts[family][attempt]
      BY <1>1, <1>3, <3>1, <3>2 DEF IInv, ResultInv
    <3>4. \A i \in 1..(attempt - 1) : attempts[family][i] # Full
      BY <1>1, <3>2 DEF IInv, AttemptsInv
    <3> QED
      BY <1>3, <2>1, <3>1, <3>2, <3>3, <3>4
  <2>2. CASE f # family
    <3>1. f \in 1..Len(summary) /\ summary'[f] = summary[f] /\ attempts' = attempts
      BY <1>1, <1>2, <1>4, <2>2
    <3> QED
      BY <3>1 DEF IInv, RowIsOneAttempt, Full
  <2> QED
    BY <2>1, <2>2
<1> QED
  BY <1>5, <1>6, <1>7, <1>8, <1>9 DEF IInv

\* The harness exits with the status its two flags call for.
LEMMA FinishStep ==
  ASSUME IInv, finish
  PROVE  IInv'
<1>1. /\ pc = "family" /\ pc' = "exited" /\ family = FamilyCount
      /\ exit_status' = IF harness_failed THEN 2 ELSE IF all_pass THEN 0 ELSE 1
      /\ UNCHANGED <<place, verdict, harness_failed, all_pass, timed_out, crate, evidence, outside>>
  BY DEF finish
<1>2. exit_status' \in -1..2
  BY <1>1
<1>3. TypeOK'
  BY <1>1, <1>2 DEF IInv, TypeOK
<1>4. WorkerInv' /\ RecordInv' /\ TryingInv' /\ PassIsOneAttempt' /\ RowIsOneAttempt'
  BY <1>1 DEF IInv, WorkerInv, RecordInv, TryingInv, PassIsOneAttempt, RowIsOneAttempt
<1>5. PlaceInv' /\ AttemptsInv' /\ ResultInv' /\ FlagsInv'
  BY <1>1 DEF IInv, PlaceInv, AttemptsInv, ResultInv, FlagsInv
<1> QED
  BY <1>3, <1>4, <1>5 DEF IInv

-----------------------------------------------------------------------------
\* The inductive invariant of an evaluation.
THEOREM Inductive == Spec => []IInv
<1>1. Init => IInv
  <2> SUFFICES ASSUME Init PROVE IInv
    OBVIOUS
  <2>1. TypeOK
    <3>1. {harness_ok, family_pass, timed_out, harness_failed, all_pass} \subseteq BOOLEAN
      BY DEF Init
    <3>2. \A f \in 1..FamilyCount : attempts[f] = <<>>
      BY DEF Init
    <3>3. baseline \in Baseline /\ exit_status \in -1..2
      BY DEF Init, Baseline
    <3> QED
      BY <3>1, <3>2, <3>3, FirstRecords, FixtureIsSource DEF Init, TypeOK
  <2>2. WorkerInv /\ RecordInv /\ TryingInv /\ PassIsOneAttempt /\ RowIsOneAttempt
    BY DEF Init, WorkerInv, RecordInv, TryingInv, PassIsOneAttempt, RowIsOneAttempt
  <2>3. PlaceInv /\ AttemptsInv /\ ResultInv /\ FlagsInv
    BY DEF Init, PlaceInv, AttemptsInv, ResultInv, FlagsInv
  <2> QED
    BY <2>1, <2>2, <2>3 DEF IInv
<1>2. IInv /\ [Next]_vars => IInv'
  <2> SUFFICES ASSUME IInv, [Next]_vars PROVE IInv'
    OBVIOUS
  <2>1. CASE UNCHANGED vars
    BY <2>1 DEF vars, IInv, TypeOK, WorkerInv, RecordInv, TryingInv, PlaceInv, AttemptsInv,
                ResultInv, FlagsInv, PassIsOneAttempt, RowIsOneAttempt, Sound
  <2>2. CASE Next
    BY <2>2, WorkerStep, BuildStep, FamilyStep, LaunchStep, JudgeStep, TestStep, RecordStep,
       OverStep, ResultStep, FinishStep DEF Next, Harness
  <2> QED
    BY <2>1, <2>2
<1> QED
  BY <1>1, <1>2, PTL DEF Spec

\* Every variable of the harness has its type: no family has more attempts, or
\* rows, than it may have.
THEOREM TypeCorrect == Spec => []TypeOK
<1>1. IInv => TypeOK
  BY DEF IInv
<1> QED
  BY <1>1, Inductive, PTL

\* A family passes on one attempt: a worker that ended by itself with status 0
\* after it recorded its success; the files tested are those it left, but for
\* the ones that were written since.
THEOREM PassIsReal == Spec => []PassIsOneAttempt
<1>1. IInv => PassIsOneAttempt
  BY DEF IInv
<1> QED
  BY <1>1, Inductive, PTL

\* A row of the summary repeats the last row of the family's attempts, and no
\* attempt was made after one that passed.
THEOREM RowIsReal == Spec => []RowIsOneAttempt
<1>1. IInv => RowIsOneAttempt
  BY DEF IInv
<1> QED
  BY <1>1, Inductive, PTL

\* The exit status is the one a reader of summary.tsv would work out.
THEOREM ExitStatusIsReal == Spec => []ExitStatusIsSummary
<1>1. IInv => ExitStatusIsSummary
  <2> SUFFICES ASSUME IInv, exit_status # -1, family > 0
               PROVE  LET broken == {f \in 1..FamilyCount :
                                       ~summary[f].baseline_ok \/ ~summary[f].harness_ok}
                          passed == {f \in 1..FamilyCount : summary[f].record = Full}
                      IN  exit_status = IF broken # {} THEN 2
                                        ELSE IF passed = 1..FamilyCount THEN 0 ELSE 1
    BY DEF ExitStatusIsSummary, Full
  <2>1. pc = "exited" /\ Len(summary) = FamilyCount
    BY DEF IInv, PlaceInv
  <2>2. exit_status = IF harness_failed THEN 2 ELSE IF all_pass THEN 0 ELSE 1
    BY <2>1 DEF IInv, FlagsInv
  <2>3. harness_failed <=>
          \E f \in 1..FamilyCount : ~summary[f].baseline_ok \/ ~summary[f].harness_ok
    BY <2>1 DEF IInv, FlagsInv
  <2>4. all_pass <=> \A f \in 1..FamilyCount : summary[f].record = Full
    BY <2>1 DEF IInv, FlagsInv
  <2> QED
    BY <2>2, <2>3, <2>4
<1> QED
  BY <1>1, Inductive, PTL
=============================================================================
