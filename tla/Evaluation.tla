------------------------------ MODULE Evaluation ------------------------------
(***************************************************************************)
(* The evaluation harness (src/evaluation/run_fresh_evaluation.sh): for    *)
(* every family of defects a baseline, then attempts.  An attempt starts a *)
(* worker in a subshell, waits for its status file or for the wall limit,  *)
(* judges the worker by its exit status and by the task's state in the     *)
(* log, and tests a copy of the sources the worker left.                   *)
(*                                                                         *)
(* The wall limit kills the subshell, not the worker, which goes on        *)
(* editing its workspace while the harness copies and compares it; and a   *)
(* process that a command of the worker left behind may write there after  *)
(* the worker has ended.  The copy is made file by file and only lib.rs is *)
(* compared; a file is written, and copied, at once.  Every attempt has a  *)
(* workspace and a log of its own, so whoever outlived an attempt meets no *)
(* later one.  Tokens, seconds and the wording of the failure kinds are    *)
(* left out; so is a failing write of the evidence, which the script does  *)
(* not look at.                                                            *)
(***************************************************************************)
EXTENDS Integers, Sequences

CONSTANTS FamilyCount,  \* families to evaluate, in order
          MaxAttempts,  \* MAX_ATTEMPTS
          Files, Lib,   \* the files of src/; lib.rs among them
          Contents,     \* what a file may hold; 0 is the fixture's
          Repaired,     \* the src/ that pass the canonical test
          Hanging       \* those on which it never ends

ASSUME EvaluationAssumption ==
  /\ FamilyCount \in Nat /\ MaxAttempts \in Nat
  /\ Lib \in Files /\ 0 \in Contents
  /\ Repaired \subseteq [Files -> Contents] /\ [f \in Files |-> 0] \notin Repaired
  /\ Hanging \subseteq [Files -> Contents] \ Repaired

VARIABLES
  pc,           \* where the harness stands
  family,       \* families begun
  attempt,      \* attempts begun in this family
  baseline,
  harness_ok,   \* no harness failure in this family
  family_pass,
  result,       \* family_acceptance, family_clean and family_failure_kind
  record,       \* the same three of the attempt at hand
  timed_out,    \* worker_timed_out: the wall limit was over
  harness_failed, all_pass, exit_status,
  worker,       \* the worker of the attempt: "none", "running", "settled", "ended"
  worker_exit,  \* its exit status
  state,        \* its task's state in the log
  src,          \* the src/ of its workspace
  rewritten,    \* history: the files of it written after the worker had ended
  subshell,     \* the shell around it: "none", "waiting", "writing" its status
  status_file,
  copied,       \* the src/ of the acceptance crate
  uncopied,     \* the files that cp has not come to
  attempts,     \* attempts[f]: the rows of <family>-attempts.tsv
  summary       \* the rows of summary.tsv

place == <<family, attempt, baseline>>
verdict == <<harness_ok, family_pass, result, record>>
overall == <<harness_failed, all_pass, exit_status>>
evidence == <<attempts, summary>>
crate == <<copied, uncopied>>
harness == <<pc, place, verdict, overall, timed_out, crate, evidence>>
process == <<worker, worker_exit, state, src, rewritten>>
shell == <<subshell, status_file>>
outside == <<process, shell>>
vars == <<harness, outside>>

Record == [acceptance : BOOLEAN, clean : BOOLEAN,
           kind : {"none", "wall_timeout", "other"}]
\* "not_run" is a missing_fixture, a copy_error or a build_error.
Baseline == {"not_run", "unexpected_pass", "failed_as_expected"}
Fixture == [f \in Files |-> 0]
Sound == harness_ok /\ baseline = "failed_as_expected"
Blank == [acceptance |-> FALSE, clean |-> FALSE, kind |-> "none"]
Failed == [acceptance |-> FALSE, clean |-> FALSE, kind |-> "other"]

Init ==
  /\ pc = "build" /\ family = 0 /\ attempt = 0 /\ baseline = "not_run"
  /\ harness_ok = TRUE /\ family_pass = FALSE /\ result = Blank /\ record = Blank
  /\ timed_out = FALSE
  /\ harness_failed = FALSE /\ all_pass = TRUE /\ exit_status = -1
  /\ worker = "none" /\ worker_exit = "none" /\ state = "unknown"
  /\ src = Fixture /\ rewritten = {}
  /\ subshell = "none" /\ status_file = "absent"
  /\ copied = Fixture /\ uncopied = {}
  /\ attempts = [f \in 1..FamilyCount |-> <<>>] /\ summary = <<>>

-----------------------------------------------------------------------------
(***************************************************************************)
(* The worker and the subshell around it.                                  *)
(***************************************************************************)
\* A file of src/ is written, by a step of the agent, by one of its commands
\* or by a process that a command left behind, which may outlive the worker.
edit ==
  /\ worker # "none"
  /\ \E f \in Files, c \in Contents :
       /\ src' = [src EXCEPT ![f] = c]
       /\ rewritten' = rewritten \cup IF worker = "ended" THEN {f} ELSE {}
  /\ UNCHANGED <<harness, worker, worker_exit, state, shell>>

\* The last thing a worker writes is the terminal state, if it gets there.
settle ==
  /\ worker = "running"
  /\ worker' = "settled" /\ state' \in {"succeeded", "failed"}
  /\ UNCHANGED <<harness, worker_exit, src, rewritten, shell>>

\* Status 0 is only returned after a success was recorded; a worker that is
\* killed, or cannot write to the log, ends with another.
exit ==
  /\ worker \in {"running", "settled"}
  /\ worker' = "ended"
  /\ worker_exit' \in IF state = "succeeded" THEN {"zero", "other"} ELSE {"other"}
  /\ UNCHANGED <<harness, state, src, rewritten, shell>>

\* `echo $? > file' creates the file and then writes to it.
create_status ==
  /\ subshell = "waiting" /\ worker = "ended"
  /\ subshell' = "writing" /\ status_file' = "empty"
  /\ UNCHANGED <<harness, process>>

write_status ==
  /\ subshell = "writing"
  /\ subshell' = "none" /\ status_file' = worker_exit
  /\ UNCHANGED <<harness, process>>

-----------------------------------------------------------------------------
(***************************************************************************)
(* The harness.                                                            *)
(***************************************************************************)
\* A failed build ends the run before any family.
build ==
  /\ pc = "build"
  /\ \/ pc' = "family" /\ UNCHANGED exit_status
     \/ pc' = "exited" /\ exit_status' = 2
  /\ UNCHANGED <<place, verdict, harness_failed, all_pass, timed_out, crate, evidence, outside>>

\* The next family: its pristine copy and the baseline, which has to fail.
begin_family ==
  /\ pc = "family" /\ family < FamilyCount
  /\ family' = family + 1 /\ attempt' = 0
  /\ baseline' \in Baseline
  /\ harness_ok' = (baseline' \in {"unexpected_pass", "failed_as_expected"})
  /\ harness_failed' = (harness_failed \/ baseline' # "failed_as_expected")
  /\ result' = IF baseline' = "failed_as_expected" THEN Blank ELSE Failed
  /\ family_pass' = FALSE
  /\ pc' = "attempt"
  /\ UNCHANGED <<record, all_pass, exit_status, timed_out, crate, evidence, outside>>

\* (A slip: one attempt more.)
MoreAttempts_one_more == Sound /\ attempt <= MaxAttempts /\ ~family_pass

MoreAttempts == Sound /\ attempt < MaxAttempts /\ ~family_pass

\* A fresh workspace and a worker in it, or a failed copy of the workspace.
launch ==
  /\ pc = "attempt" /\ MoreAttempts
  /\ attempt' = attempt + 1
  /\ \/ /\ pc' = "poll" /\ timed_out' = FALSE
        /\ worker' = "running" /\ worker_exit' = "none" /\ state' = "unknown"
        /\ src' = Fixture /\ rewritten' = {}
        /\ subshell' = "waiting" /\ status_file' = "absent"
        /\ UNCHANGED <<harness_ok, harness_failed, result>>
     \/ /\ pc' = "result" /\ harness_ok' = FALSE /\ harness_failed' = TRUE
        /\ result' = [result EXCEPT !.kind = "other"]
        /\ UNCHANGED <<timed_out, outside>>
  /\ UNCHANGED <<family, baseline, family_pass, record, all_pass, exit_status, crate,
                 evidence>>

\* The status file is there.
see_status ==
  /\ pc = "poll" /\ status_file # "absent"
  /\ pc' = "wait"
  /\ UNCHANGED <<place, verdict, overall, timed_out, crate, evidence, outside>>

\* (A slip: the subshell is left running.)
AfterKill_none_sent == subshell

AfterKill == "none"

\* The wall limit is over, as it may be after any sleep: the subshell is killed,
\* whatever it has written.  The loop looked for the file before it slept, so it
\* may exist by now.
give_up ==
  /\ pc = "poll"
  /\ timed_out' = TRUE
  /\ subshell' = AfterKill
  /\ pc' = "wait"
  /\ UNCHANGED <<place, verdict, overall, crate, evidence, process, status_file>>

\* (A slip: the state in the log is enough.)
worker_clean_by_state == state = "succeeded"

\* worker_status and the state read from the log.
worker_clean == status_file = "zero" /\ state = "succeeded"

\* What the worker's log says of its failure, its provider's timeout included.
FailureKind ==
  IF worker_clean THEN {"none"}
  ELSE IF timed_out THEN {"wall_timeout"} ELSE {"wall_timeout", "other"}

\* The subshell is gone: the worker is judged.
judge ==
  /\ pc = "wait" /\ subshell = "none"
  /\ \E kind \in FailureKind :
       record' = [acceptance |-> FALSE, clean |-> worker_clean, kind |-> kind]
  /\ pc' = "copy" /\ uncopied' = Files
  /\ UNCHANGED <<place, harness_ok, family_pass, result, overall, timed_out, copied, evidence,
                 outside>>

\* src/ is copied over a pristine crate, one file after the other.
copy ==
  /\ pc = "copy"
  /\ \E f \in uncopied :
       /\ copied' = [copied EXCEPT ![f] = src[f]]
       /\ uncopied' = uncopied \ {f}
  /\ pc' = IF uncopied' = {} THEN "compare" ELSE "copy"
  /\ UNCHANGED <<place, verdict, overall, timed_out, evidence, outside>>

\* lib.rs is compared with the one in the workspace, and no other file is: a
\* failed copy and a lib.rs that changed meanwhile are failures of the harness.
compare ==
  /\ pc = "compare"
  /\ \/ /\ copied[Lib] = src[Lib] /\ pc' = "test"
        /\ UNCHANGED <<harness_ok, harness_failed, record>>
     \/ /\ pc' = "record" /\ harness_ok' = FALSE /\ harness_failed' = TRUE
        /\ record' = [record EXCEPT !.kind = "other"]
  /\ UNCHANGED <<place, family_pass, result, all_pass, exit_status, timed_out, crate,
                 evidence, outside>>

\* The canonical test has no time limit.
test ==
  /\ pc = "test" /\ copied \notin Hanging
  /\ record' = [record EXCEPT !.acceptance = copied \in Repaired]
  /\ pc' = "record"
  /\ UNCHANGED <<place, harness_ok, family_pass, result, overall, timed_out, crate, evidence,
                 outside>>

Passes(r) == harness_ok /\ r.acceptance /\ r.clean /\ r.kind = "none"

\* (A slip: what an earlier attempt reached is kept.)
FamilyResult_latched ==
  [record EXCEPT !.acceptance = @ \/ result.acceptance, !.clean = @ \/ result.clean]

\* One attempt is one record.
FamilyResult == record

record_attempt ==
  /\ pc = "record"
  /\ result' = FamilyResult
  /\ family_pass' = Passes(FamilyResult)
  /\ attempts' = [attempts EXCEPT ![family] = Append(@, record)]
  /\ pc' = "attempt"
  /\ UNCHANGED <<place, harness_ok, record, overall, timed_out, crate, summary, outside>>

attempts_over ==
  /\ pc = "attempt" /\ ~MoreAttempts
  /\ pc' = "result"
  /\ UNCHANGED <<place, verdict, overall, timed_out, crate, evidence, outside>>

\* Without a sound baseline and harness nothing counts but the failure.
FamilyRow ==
  [baseline_ok |-> baseline = "failed_as_expected", harness_ok |-> harness_ok,
   attempts |-> attempt,
   record |-> IF Sound THEN result ELSE [Failed EXCEPT !.kind = result.kind]]

\* (A slip: the last family decides.)
AllPass_last(pass) == pass

AllPass(pass) == all_pass /\ pass

\* The family is over.
write_result ==
  /\ pc = "result"
  /\ summary' = Append(summary, FamilyRow)
  /\ result' = FamilyRow.record
  /\ family_pass' = (Sound /\ family_pass)
  /\ all_pass' = AllPass(family_pass')
  /\ pc' = "family"
  /\ UNCHANGED <<place, harness_ok, record, harness_failed, exit_status, timed_out, crate,
                 attempts, outside>>

finish ==
  /\ pc = "family" /\ family = FamilyCount
  /\ exit_status' = IF harness_failed THEN 2 ELSE IF all_pass THEN 0 ELSE 1
  /\ pc' = "exited"
  /\ UNCHANGED <<place, verdict, harness_failed, all_pass, timed_out, crate, evidence, outside>>

-----------------------------------------------------------------------------
Worker == edit \/ settle \/ exit
Subshell == create_status \/ write_status
Harness ==
  \/ build \/ begin_family \/ launch \/ see_status \/ give_up \/ judge \/ copy \/ compare
  \/ test \/ record_attempt \/ attempts_over \/ write_result \/ finish

Next == Worker \/ Subshell \/ Harness

Spec == Init /\ [][Next]_vars

\* The shells run, and a loop that polls long enough meets the wall limit.
\* Nothing is assumed of the worker.
FairSpec == Spec /\ WF_vars(Harness) /\ WF_vars(Subshell)

-----------------------------------------------------------------------------
Row == [baseline_ok : BOOLEAN, harness_ok : BOOLEAN, attempts : 0..MaxAttempts,
        record : Record]

TypeOK ==
  /\ pc \in {"build", "family", "attempt", "poll", "wait", "copy", "compare", "test",
             "record", "result", "exited"}
  /\ family \in 0..FamilyCount /\ attempt \in 0..MaxAttempts
  /\ baseline \in Baseline
  /\ {harness_ok, family_pass, timed_out, harness_failed, all_pass} \subseteq BOOLEAN
  /\ result \in Record /\ record \in Record
  /\ exit_status \in -1..2
  /\ worker \in {"none", "running", "settled", "ended"}
  /\ worker_exit \in {"none", "zero", "other"}
  /\ state \in {"unknown", "succeeded", "failed"}
  /\ src \in [Files -> Contents] /\ rewritten \subseteq Files
  /\ copied \in [Files -> Contents] /\ uncopied \subseteq Files
  /\ subshell \in {"none", "waiting", "writing"}
  /\ status_file \in {"absent", "empty", "zero", "other"}
  /\ \A f \in 1..FamilyCount : attempts[f] \in Seq(Record) /\ Len(attempts[f]) <= MaxAttempts
  /\ summary \in Seq(Row) /\ Len(summary) <= FamilyCount

\* A family passes on one attempt: its worker came to its end by itself with
\* status 0 and a succeeded task, the sources that were tested pass the test,
\* and every file of them is the one it left, unless a process it left behind
\* has written that file since.
PassIsOneAttempt ==
  family_pass =>
    /\ worker = "ended" /\ worker_exit = "zero" /\ state = "succeeded"
    /\ copied \in Repaired
    /\ \A f \in Files \ rewritten : copied[f] = src[f]

\* "Those fields always describe one single attempt, never a combination across
\* attempts": a row of the summary repeats the last row of the attempts, and no
\* earlier attempt had passed.
RowIsOneAttempt ==
  \A f \in 1..Len(summary) :
    LET row == summary[f]
        tried == attempts[f]
        full == [acceptance |-> TRUE, clean |-> TRUE, kind |-> "none"]
    IN  row.baseline_ok /\ row.harness_ok /\ row.attempts > 0 =>
          /\ Len(tried) = row.attempts
          /\ row.record = tried[row.attempts]
          /\ \A i \in 1..(row.attempts - 1) : tried[i] # full

\* The exit status is the one the summary calls for: 2 if the harness failed
\* in any family, else 0 if every family passed, else 1.
ExitStatusIsSummary ==
  exit_status # -1 /\ family > 0 =>
    LET broken == {f \in 1..FamilyCount :
                     ~summary[f].baseline_ok \/ ~summary[f].harness_ok}
        passed == {f \in 1..FamilyCount :
                     summary[f].record = [acceptance |-> TRUE, clean |-> TRUE, kind |-> "none"]}
    IN  exit_status = IF broken # {} THEN 2 ELSE IF passed = 1..FamilyCount THEN 0 ELSE 1

\* Whatever the workers do, the harness comes to its end, unless the sources
\* they leave hang the test it runs on them.
Ends == <>(pc = "exited" \/ (pc = "test" /\ copied \in Hanging))
=============================================================================
