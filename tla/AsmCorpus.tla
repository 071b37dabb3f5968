----------------------------- MODULE AsmCorpus -----------------------------
(***************************************************************************)
(* A corpus of asm tests: the driver scripts/run_asm_dynarmic.py starts    *)
(* one runner process per test file, and the runner (RunAsmTest and main   *)
(* of runners/asm/a64_asmtest.cpp, a32_asmtest.cpp alike) assembles the    *)
(* file through temporary files beside it, runs it in the JIT and prints   *)
(* the verdict.  The process may throw, abort or hang; the driver kills it *)
(* when its time is up, and may be started again on what that left behind. *)
(***************************************************************************)
EXTENDS Integers, Sequences, FiniteSets

CONSTANTS Tests,         \* the test files below the path given
          TestSeq,       \* the same, sorted
          KnownFailure,  \* those whose CONFIG has a KnownFailure
          MaxSessions    \* how often the driver is started

ASSUME TestSeqOK ==
  /\ IsFiniteSet(Tests)
  /\ TestSeq \in Seq(Tests)
  /\ \A t \in Tests : \E i \in 1..Len(TestSeq) : TestSeq[i] = t
  /\ \A i, j \in 1..Len(TestSeq) : TestSeq[i] = TestSeq[j] => i = j
ASSUME CorpusOK == KnownFailure \subseteq Tests /\ MaxSessions \in Nat \ {0}

VARIABLES
  session,   \* the driver is running for the session-th time
  next,      \* index of the test the driver is at
  count,     \* [passed, failed, known]
  report,    \* the verdict the driver printed for each test
  status,    \* exit status of the driver
  stage,     \* what the runner process is doing, "none" when there is none
  known,     \* result.is_known_failure
  exited,    \* what the process printed, and its return code
  files,     \* temporary files by test and suffix: the session that assembled
             \* what they hold, 0 when there is no such file
  loaded,    \* the session that assembled the code the JIT runs
  killed     \* tests whose process was ever killed (ghost)

driver == <<session, next, count, report, status>>
vars == <<driver, stage, known, exited, files, loaded, killed>>

Suffix == {".o", ".elf", ".bin"}
Verdict == {"passed", "failed", "known"}
NoFiles == [s \in Suffix |-> 0]
test == TestSeq[next]

\* The stages of RunAsmTest, in order.
Stages == {"parse", "as", "ld", "objcopy", "load", "setup", "run", "check"}

Init ==
  /\ session = 1 /\ next = 1
  /\ count = [v \in Verdict |-> 0]
  /\ report = [t \in Tests |-> "none"]
  /\ status = "running"
  /\ stage = "none" /\ known = FALSE
  /\ exited = [out |-> "", code |-> 0]
  /\ files = [t \in Tests |-> NoFiles]
  /\ loaded = 0 /\ killed = {}

-----------------------------------------------------------------------------
\* The runner process.

\* Mutant of Return: the shell sees -1 as 255.
ReturnMinusOne(passed, isKnown) ==
  /\ stage' = "exited"
  /\ exited' = IF passed THEN [out |-> "PASSED", code |-> 0]
               ELSE [out |-> "FAILED", code |-> 255]

\* main prints the result of the one test file and returns failed > 0.
Return(passed, isKnown) ==
  /\ stage' = "exited"
  /\ exited' = IF passed THEN [out |-> "PASSED", code |-> 0]
               ELSE IF isKnown THEN [out |-> "KNOWN FAILURE", code |-> 0]
               ELSE [out |-> "FAILED", code |-> 1]

Fail == Return(FALSE, known)

\* An exception out of RunAsmTest: main's result is still a fresh TestResult,
\* so a known failure is forgotten.
Throw == Return(FALSE, FALSE)

\* std::abort, std::terminate, a host fault: nothing is printed, and the driver
\* sees the signal as a negative return code (-6 stands for any).
Abort == stage' = "exited" /\ exited' = [out |-> "", code |-> -6]

Goto(s) == stage' = s /\ UNCHANGED exited

Place(s, n) == files' = [files EXCEPT ![test][s] = n]

\* ParseAsmTestFile and ParseTestConfig.
Parse ==
  /\ stage = "parse"
  /\ \/ known' = (test \in KnownFailure) /\ Goto("as")
     \/ (Fail \/ Throw) /\ UNCHANGED known
  /\ UNCHANGED <<driver, files, loaded, killed>>

\* CompileAsmToBinary.  A tool that fails, or cannot be started, leaves what
\* was at its output or nothing; the input of ld and objcopy is unlinked after
\* the tool, whether it succeeded or not.
Assemble ==
  /\ stage = "as"
  /\ \/ Place(".o", session) /\ Goto("ld")
     \/ \E n \in {0, files[test][".o"]} : Place(".o", n) /\ Fail
  /\ UNCHANGED <<driver, known, loaded, killed>>

\* Mutant of Convert: pclose's result is not looked at.
ConvertUnchecked(s, input, output, then) ==
  /\ stage = s
  /\ \E n \in {0, files[test][output], files[test][input]} :
       files' = [files EXCEPT ![test][output] = n, ![test][input] = 0]
  /\ Goto(then)
  /\ UNCHANGED <<driver, known, loaded, killed>>

Convert(s, input, output, then) ==
  /\ stage = s
  /\ LET place(n) == files' = [files EXCEPT ![test][output] = n, ![test][input] = 0]
     IN  \/ place(files[test][input]) /\ Goto(then)
         \/ \E n \in {0, files[test][output]} : place(n) /\ Fail
  /\ UNCHANGED <<driver, known, loaded, killed>>

Link == Convert("ld", ".o", ".elf", "objcopy")
Objcopy == Convert("objcopy", ".elf", ".bin", "load")

\* Mutant of Load: the .bin is not unlinked.
LoadKeepingBin ==
  /\ stage = "load"
  /\ loaded' = files[test][".bin"]
  /\ Goto("setup") \/ Fail
  /\ UNCHANGED <<driver, known, files, killed>>

\* LoadBinary, the unlink after it, and the check for an empty program.
Load ==
  /\ stage = "load"
  /\ loaded' = files[test][".bin"]
  /\ Place(".bin", 0)
  /\ Goto("setup") \/ Fail
  /\ UNCHANGED <<driver, known, killed>>

\* The JIT and its registers: std::stoul throws on a malformed name.
Setup ==
  /\ stage = "setup"
  /\ Goto("run") \/ Throw \/ Abort
  /\ UNCHANGED <<driver, known, files, loaded, killed>>

\* jit.Run() inside its own try block.  Anything but a BRK ends the test.
Run ==
  /\ stage = "run"
  /\ Goto("check") \/ Fail \/ Abort
  /\ UNCHANGED <<driver, known, files, loaded, killed>>

Check ==
  /\ stage = "check"
  /\ Return(TRUE, known) \/ Fail \/ Throw
  /\ UNCHANGED <<driver, known, files, loaded, killed>>

Runner == Parse \/ Assemble \/ Link \/ Objcopy \/ Load \/ Setup \/ Run \/ Check

-----------------------------------------------------------------------------
\* The driver.

status_from_output(out, code) ==
  IF code = 0 /\ out = "KNOWN FAILURE" THEN "known"
  ELSE IF code = 0 /\ out = "PASSED" THEN "passed"
  ELSE "failed"

Judge(v) ==
  /\ report' = [report EXCEPT ![test] = v]
  /\ count' = [count EXCEPT ![v] = @ + 1]
  /\ next' = next + 1
  /\ stage' = "none"
  /\ UNCHANGED <<session, status, known, exited, loaded>>

\* subprocess.run starts the runner.
Spawn ==
  /\ status = "running" /\ next <= Len(TestSeq) /\ stage = "none"
  /\ stage' = "parse" /\ known' = FALSE /\ loaded' = 0
  /\ UNCHANGED <<driver, exited, files, killed>>

Collect ==
  /\ stage = "exited"
  /\ Judge(status_from_output(exited.out, exited.code))
  /\ UNCHANGED <<files, killed>>

\* Only the runner is killed: a tool it was waiting for may still write its
\* output.  It does so before anything else happens to that test's files.
Orphan ==
  LET write(s, n) == \E m \in {n, files[test][s]} : Place(s, m)
  IN  \/ stage = "as" /\ write(".o", session)
      \/ stage = "ld" /\ write(".elf", files[test][".o"])
      \/ stage = "objcopy" /\ write(".bin", files[test][".elf"])
      \/ stage \notin {"as", "ld", "objcopy"} /\ UNCHANGED files

\* Mutants of TimeoutExpired: no continue after the handler, so that the test
\* is judged twice; and a timer that does not cover the JIT.
TimeoutWithoutContinue ==
  /\ stage \in Stages
  /\ Orphan
  /\ report' = [report EXCEPT ![test] = "failed"]
  /\ count' = [count EXCEPT !["failed"] = @ + 2]
  /\ next' = next + 1
  /\ stage' = "none"
  /\ killed' = killed \cup {test}
  /\ UNCHANGED <<session, status, known, exited, loaded>>
TimeoutNotInRun ==
  /\ stage \in Stages \ {"run"}
  /\ Orphan
  /\ Judge("failed")
  /\ killed' = killed \cup {test}

TimeoutExpired ==
  /\ stage \in Stages
  /\ Orphan
  /\ Judge("failed")
  /\ killed' = killed \cup {test}

\* The summary; without any test file the driver returns 1 at once.
End ==
  /\ status = "running" /\ next > Len(TestSeq)
  /\ status' = IF Len(TestSeq) = 0 \/ count["failed"] > 0 THEN "failure" ELSE "success"
  /\ UNCHANGED <<session, next, count, report, stage, known, exited, files, loaded, killed>>

\* The driver is started again, on the files the last session left.
Restart ==
  /\ status # "running" /\ session < MaxSessions
  /\ session' = session + 1 /\ next' = 1
  /\ count' = [v \in Verdict |-> 0]
  /\ report' = [t \in Tests |-> "none"]
  /\ status' = "running"
  /\ UNCHANGED <<stage, known, exited, files, loaded, killed>>

Driver == Spawn \/ Collect \/ TimeoutExpired \/ End

Next == Runner \/ Driver \/ Restart

\* The driver's own steps and its timer run; the runner may hang anywhere.
Safety == Init /\ [][Next]_vars
Spec == Safety /\ WF_vars(Driver)

-----------------------------------------------------------------------------
\* Properties.

\* The driver is at one of its tests or at the end, the process at one of the
\* stages of RunAsmTest.
TypeOK ==
  /\ session \in 1..MaxSessions
  /\ next \in 1..(Len(TestSeq) + 1)
  /\ count \in [Verdict -> Nat]
  /\ report \in [Tests -> Verdict \cup {"none"}]
  /\ status \in {"running", "success", "failure"}
  /\ stage \in Stages \cup {"none", "exited"}
  /\ known \in BOOLEAN
  /\ exited \in [out : {"", "PASSED", "FAILED", "KNOWN FAILURE"}, code : {0, 1, -6}]
  /\ files \in [Tests -> [Suffix -> 0..MaxSessions]]
  /\ loaded \in 0..MaxSessions
  /\ killed \subseteq Tests

\* The code the JIT runs was assembled by this very process: never the .o,
\* .elf or .bin that a killed process of an earlier session left beside the
\* test, however the tools of this one fail.
FreshCode == stage \in {"setup", "run", "check"} => loaded = session

\* Every temporary file in the source tree belongs to the test being run or to
\* one whose process was killed at some time: no error path of the runner, and
\* no exception, leaves one behind.
LitterIsFromKills ==
  \A t \in Tests :
    files[t] # NoFiles => t \in killed \/ (stage # "none" /\ t = test)

\* The totals of the summary are the totals of the verdicts above it.
SummaryAddsUp ==
  \A v \in Verdict : count[v] = Cardinality({t \in Tests : report[t] = v})

\* "If set, test is expected to fail with this reason": once the runner has read
\* KnownFailure in the CONFIG, the verdict it prints itself is never FAILED.
KnownFailureHolds == known /\ stage = "exited" => exited.out # "FAILED"

Abstract == INSTANCE Corpus

\* Whatever a runner process does, every test gets one verdict, the driver
\* ends, and its exit status says whether a test failed.
CorpusSpec == Abstract!Spec
=============================================================================
