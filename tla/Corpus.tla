------------------------------- MODULE Corpus -------------------------------
(***************************************************************************)
(* What a corpus command promises whoever reads its output: every test     *)
(* file gets exactly one verdict, whatever happens to the process that     *)
(* runs it, then the command ends, and its exit status tells whether a     *)
(* test failed.  The drivers of the runners implement this module.         *)
(***************************************************************************)
CONSTANT Tests

VARIABLES report,   \* the verdict printed for each test, "none" before that
          status    \* the exit status of the command

Verdict == {"passed", "failed", "known", "skipped"}

Init == report = [t \in Tests |-> "none"] /\ status = "running"

Judge(t, v) == /\ status = "running" /\ report[t] = "none"
               /\ report' = [report EXCEPT ![t] = v]
               /\ UNCHANGED status

\* A command that found no test file has failed as well.
End == /\ status = "running" /\ \A t \in Tests : report[t] # "none"
       /\ status' = IF Tests = {} \/ \E t \in Tests : report[t] = "failed"
                    THEN "failure" ELSE "success"
       /\ UNCHANGED report

\* The command may be given again after it has ended.
Again == status # "running" /\ report' = [t \in Tests |-> "none"] /\ status' = "running"

Progress == End \/ \E t \in Tests, v \in Verdict : Judge(t, v)
Next == Progress \/ Again
vars == <<report, status>>

Safety == Init /\ [][Next]_vars
Spec == Safety /\ WF_vars(Progress)
=============================================================================
