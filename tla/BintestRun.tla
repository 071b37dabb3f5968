----------------------------- MODULE BintestRun -----------------------------
(***************************************************************************)
(* One test of the A64 binary test runner (RunTest and TestEnv of          *)
(* runners/a64_bintest_runner.cpp; a32_bintest_runner.cpp has the same     *)
(* loop and callbacks): the loop around jit->Run(), the guest's system     *)
(* calls, exceptions and ticks, and the verdict.                           *)
(*                                                                         *)
(* The JIT is external: between two callbacks it runs guest code, charges  *)
(* ticks, and leaves Run when it was halted, when no ticks are left, or    *)
(* for a reason of its own.                                                *)
(***************************************************************************)
EXTENDS Integers

CONSTANTS MaxTicks,     \* ticks_left at the start (10000000000 in the code)
          MaxCharge,    \* the most ticks one block of guest code is charged
          StuckLimit,   \* iterations before no progress is an error (10)
          TotalMem,     \* TOTAL_MEM
          IntRange,     \* 2^32: what a cast to int keeps of a register
          Statuses,     \* values of X0 the guest exits or asserts with
          Lines,        \* line numbers it passes
          Writes        \* its writes: [fd, buf, count]

ASSUME LimitsOK ==
  /\ MaxTicks \in Nat \ {0} /\ MaxCharge \in Nat \ {0}
  /\ StuckLimit \in Nat /\ TotalMem \in Nat \ {0} /\ IntRange \in Nat \ {0}
ASSUME GuestOK ==
  /\ Statuses \subseteq Nat /\ Lines \subseteq Nat
  /\ Writes \subseteq [fd : Nat, buf : Nat, count : Nat]

VARIABLES
  mode,            \* "loop": in RunTest; "jit": in jit->Run(); "done"
  ticks_left,
  last_ticks,
  iterations,      \* counted up to StuckLimit + 1, the last value that matters
  halt,            \* HaltExecution was called during this Run
  test_complete,
  passed,          \* result->passed
  exit_code,       \* result->exit_code
  assert_line,     \* result->assert_line
  x0,              \* what the last system call returned
  written,         \* bytes the last SYS_WRITE gave to the host (ghost)
  told             \* the guest's first report: "none", "pass" or "fail" (ghost)

result == <<passed, exit_code, assert_line>>
progress == <<ticks_left, last_ticks, iterations>>
vars == <<mode, progress, halt, test_complete, result, x0, written, told>>

Smaller(a, b) == IF a < b THEN a ELSE b
int(x) == x % IntRange
IsValidAddress(vaddr) == vaddr < TotalMem

\* A file that LoadElf refuses is a failed test at once.
Init ==
  /\ mode \in {"loop", "done"}
  /\ ticks_left = MaxTicks /\ last_ticks = MaxTicks /\ iterations = 0
  /\ halt = FALSE /\ test_complete = FALSE
  /\ passed = FALSE /\ exit_code = -1 /\ assert_line = -1
  /\ x0 = 0 /\ written = 0 /\ told = "none"

-----------------------------------------------------------------------------
\* The loop of RunTest.

Enter ==
  /\ mode = "loop" /\ ~test_complete /\ ticks_left > 0
  /\ mode' = "jit"
  /\ UNCHANGED <<progress, halt, test_complete, result, x0, written, told>>

\* The tick limit is looked at after the loop, however the loop ended.
Leave ==
  /\ mode = "loop" /\ (test_complete \/ ticks_left = 0)
  /\ mode' = "done"
  /\ passed' = (passed /\ ticks_left # 0)
  /\ UNCHANGED <<progress, halt, test_complete, exit_code, assert_line, x0, written, told>>

\* Mutant of Charge: ticks_left is not kept above zero.
ChargeUnbounded(ticks) == ticks_left' = ticks_left - ticks

\* AddTicks never takes ticks_left below zero.
Charge(ticks) == ticks_left' = IF ticks > ticks_left THEN 0 ELSE ticks_left - ticks

\* Mutant of Stuck: a loop without the check for progress.
NeverStuck == FALSE

Stuck == ticks_left' = last_ticks /\ iterations' > StuckLimit

\* Run returns: the block it was in is charged, and the loop looks whether
\* anything happened at all.
Return ==
  /\ mode = "jit"
  /\ \E ticks \in 0..MaxCharge : Charge(ticks)
  /\ halt' = FALSE
  /\ iterations' = Smaller(iterations + 1, StuckLimit + 1)
  /\ last_ticks' = IF Stuck THEN last_ticks ELSE ticks_left'
  /\ mode' = IF Stuck THEN "done" ELSE "loop"
  /\ UNCHANGED <<test_complete, result, x0, written, told>>

\* Run throws: the handler ends the test, whatever it reported before.
Catch ==
  /\ mode = "jit"
  /\ mode' = "done" /\ passed' = FALSE /\ halt' = FALSE
  /\ UNCHANGED <<progress, test_complete, exit_code, assert_line, x0, written, told>>

-----------------------------------------------------------------------------
\* The guest, while Run runs.

Running == mode = "jit" /\ ~halt /\ ticks_left > 0

Compute ==
  /\ Running
  /\ \E ticks \in 1..MaxCharge : Charge(ticks)
  /\ UNCHANGED <<mode, last_ticks, iterations, halt, test_complete, result, x0, written, told>>

\* Mutant of Report: HaltExecution forgotten.
ReportWithoutHalt(pass) ==
  /\ passed' = pass
  /\ test_complete' = TRUE /\ halt' = halt
  /\ told' = IF told # "none" THEN told ELSE IF pass THEN "pass" ELSE "fail"

\* A system call that ends the test halts the JIT.
Report(pass) ==
  /\ passed' = pass
  /\ test_complete' = TRUE /\ halt' = TRUE
  /\ told' = IF told # "none" THEN told ELSE IF pass THEN "pass" ELSE "fail"

\* Any other only returns a value.
Reply(value) == x0' = value /\ UNCHANGED <<halt, test_complete, result, told>>

SYS_WRITE ==
  \E w \in Writes :
    /\ Running
    /\ IF IsValidAddress(w.buf) /\ w.count > 0
       THEN /\ written' = IF int(w.fd) \in {1, 2} THEN Smaller(w.count, TotalMem - w.buf) ELSE 0
            /\ Reply(w.count)
       ELSE written' = 0 /\ Reply(-1)
    /\ UNCHANGED <<mode, progress>>

\* SYS_READ, SYS_GETPID, and -ENOSYS for a number the runner does not know.
SYS_OTHER ==
  /\ Running
  /\ \E value \in {0, 1, -38} : Reply(value)
  /\ UNCHANGED <<mode, progress, written>>

SYS_EXIT ==
  \E status \in Statuses :
    /\ Running
    /\ exit_code' = int(status)
    /\ Report(int(status) = 0)
    /\ UNCHANGED <<mode, progress, assert_line, x0, written>>

SYS_TEST_ASSERT ==
  \E cond \in Statuses, line \in Lines :
    /\ Running
    /\ \/ int(cond) # 0 /\ UNCHANGED <<halt, test_complete, passed, assert_line, told>>
       \/ int(cond) = 0 /\ Report(FALSE) /\ assert_line' = int(line)
    /\ UNCHANGED <<mode, progress, exit_code, x0, written>>

SYS_TEST_PASS ==
  /\ Running
  /\ Report(TRUE)
  /\ UNCHANGED <<mode, progress, exit_code, assert_line, x0, written>>

SYS_TEST_FAIL ==
  \E line \in Lines :
    /\ Running
    /\ Report(FALSE) /\ assert_line' = int(line)
    /\ UNCHANGED <<mode, progress, exit_code, x0, written>>

CallSVC == SYS_WRITE \/ SYS_OTHER \/ SYS_EXIT \/ SYS_TEST_ASSERT \/ SYS_TEST_PASS \/ SYS_TEST_FAIL

\* BRK or any other exception: the loop will not run again, but the JIT is not
\* halted and the guest runs on.
ExceptionRaised ==
  /\ Running
  /\ test_complete' = TRUE
  /\ UNCHANGED <<mode, progress, halt, result, x0, written, told>>

Guest == Compute \/ CallSVC \/ ExceptionRaised

\* Run has to return when it was halted or the ticks are used up.
MustReturn == (halt \/ ticks_left = 0) /\ Return

Next == Enter \/ Leave \/ Return \/ Catch \/ Guest

\* The host runs the loop.  Guest code uses up ticks, whatever it does, and Run
\* returns when it has to.
Safety == Init /\ [][Next]_vars
Spec == Safety /\ WF_vars(Enter \/ Leave) /\ WF_vars(MustReturn) /\ WF_vars(Compute \/ Return)

-----------------------------------------------------------------------------
\* Properties.

\* The loop, the JIT and the result have the values RunTest gives them, and a
\* write never takes more from the guest than its memory holds.
TypeOK ==
  /\ mode \in {"loop", "jit", "done"}
  /\ ticks_left \in 0..MaxTicks /\ last_ticks \in 0..MaxTicks
  /\ iterations \in 0..(StuckLimit + 1)
  /\ halt \in BOOLEAN /\ test_complete \in BOOLEAN /\ passed \in BOOLEAN
  /\ exit_code \in {-1} \cup 0..(IntRange - 1)
  /\ assert_line \in {-1} \cup 0..(IntRange - 1)
  /\ x0 \in Int /\ written \in 0..TotalMem /\ told \in {"none", "pass", "fail"}

\* A test passes only if the first thing the guest reported was a pass: a
\* failed assertion, a non-zero exit or a SYS_TEST_FAIL is final, whatever the
\* guest would go on to do, and a timeout is never a pass.
PassIsFirstReport ==
  mode = "done" /\ passed => told = "pass" /\ ticks_left > 0

\* The loop enters Run no more than MaxTicks + StuckLimit + 1 times, whatever the
\* guest does and however often Run comes back for nothing: with every return to
\* the loop fewer ticks are left, or fewer of the tries that may use none, and
\* nothing gives either back.
RunsLeft == last_ticks + (StuckLimit + 1 - iterations)
RunsAreBounded ==
  [][RunsLeft' <= RunsLeft /\ (mode = "jit" /\ mode' = "loop" => RunsLeft' < RunsLeft)]_vars

\* "BRK instruction - test end marker": once the test is complete the guest can
\* no longer turn it into a pass.
EndMarkerEnds == [][test_complete /\ passed' => passed]_vars

\* The loop ends for every guest: one that computes for ever, one that never
\* stops calling the system, and a JIT that comes back without progress.
Terminates == <>(mode = "done")
=============================================================================
