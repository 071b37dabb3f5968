---------------------------- MODULE BintestProof ----------------------------
(***************************************************************************)
(* A binary test passes only on the guest's first report, for every tick   *)
(* limit, memory size and guest: an inductive invariant of BintestRun.     *)
(***************************************************************************)
EXTENDS BintestRun, TLAPS

\* A report halts the JIT, and a loop that has one does not enter it again.
ReportsHalt ==
  /\ told # "none" => test_complete
  /\ told # "none" /\ mode = "jit" => halt
  /\ passed => told = "pass"

\* last_ticks is what the loop last saw, and it entered Run only with ticks.
TicksSeen ==
  /\ ticks_left <= last_ticks
  /\ mode = "loop" => last_ticks = ticks_left
  /\ mode = "jit" => last_ticks > 0
  /\ mode = "done" /\ passed => ticks_left > 0

IInv == TypeOK /\ ReportsHalt /\ TicksSeen

LEMMA InitIInv == Init => IInv
<1> SUFFICES ASSUME Init PROVE IInv
  OBVIOUS
<1>1. TypeOK
  <2>1. MaxTicks \in 0..MaxTicks /\ 0 \in 0..(StuckLimit + 1)
    BY LimitsOK
  <2>2. /\ mode \in {"loop", "jit", "done"} /\ told \in {"none", "pass", "fail"}
        /\ halt \in BOOLEAN /\ test_complete \in BOOLEAN /\ passed \in BOOLEAN
    BY DEF Init
  <2>3. ticks_left \in 0..MaxTicks /\ last_ticks \in 0..MaxTicks /\ iterations \in 0..(StuckLimit + 1)
    BY <2>1 DEF Init
  <2>4. x0 \in Int /\ written \in 0..TotalMem
    BY LimitsOK DEF Init
  <2>5. /\ exit_code \in {-1} \cup 0..(IntRange - 1)
        /\ assert_line \in {-1} \cup 0..(IntRange - 1)
    BY DEF Init
  <2> QED BY <2>2, <2>3, <2>4, <2>5 DEF TypeOK
<1>2. ReportsHalt
  BY DEF Init, ReportsHalt
<1>3. TicksSeen
  BY LimitsOK DEF Init, TicksSeen
<1> QED BY <1>1, <1>2, <1>3 DEF IInv

\* Charging a block keeps ticks_left within its bounds.
LEMMA ChargeType ==
  ASSUME ticks_left \in 0..MaxTicks, NEW ticks \in 0..MaxCharge, Charge(ticks)
  PROVE  ticks_left' \in 0..MaxTicks /\ ticks_left' <= ticks_left
  BY LimitsOK DEF Charge

\* A register cast to int is a status or a line of the result.
LEMMA IntType == ASSUME NEW x \in Nat PROVE int(x) \in 0..(IntRange - 1)
  BY LimitsOK DEF int

LEMMA NextIInv == IInv /\ [Next]_vars => IInv'
<1> SUFFICES ASSUME IInv, [Next]_vars PROVE IInv'
  OBVIOUS
<1> USE DEF IInv
<1>1. CASE Enter
  <2>1. TypeOK'
    BY <1>1 DEF Enter, TypeOK, progress, result
  <2>2. ReportsHalt'
    BY <1>1 DEF Enter, ReportsHalt, result
  <2>3. TicksSeen'
    BY <1>1 DEF Enter, TicksSeen, progress
  <2> QED BY <2>1, <2>2, <2>3
<1>2. CASE Leave
  <2>1. passed' \in BOOLEAN /\ (passed' => passed /\ ticks_left # 0)
    BY <1>2, Zenon DEF Leave
  <2>2. /\ mode' = "done"
        /\ UNCHANGED <<progress, halt, test_complete, exit_code, assert_line, x0, written, told>>
    BY <1>2 DEF Leave
  <2>3. TypeOK'
    BY <2>1, <2>2 DEF TypeOK, progress
  <2>4. ReportsHalt'
    BY <2>1, <2>2 DEF ReportsHalt
  <2>5. TicksSeen'
    BY <2>1, <2>2 DEF TicksSeen, TypeOK, progress
  <2> QED BY <2>3, <2>4, <2>5
<1>3. CASE Return
  <2>1. ticks_left' \in 0..MaxTicks
    BY <1>3, ChargeType DEF Return, TypeOK
  <2>2. /\ mode = "jit" /\ halt' = FALSE
        /\ iterations' = Smaller(iterations + 1, StuckLimit + 1)
        /\ last_ticks' = IF Stuck THEN last_ticks ELSE ticks_left'
        /\ mode' = IF Stuck THEN "done" ELSE "loop"
        /\ UNCHANGED <<test_complete, result, x0, written, told>>
    BY <1>3 DEF Return
  <2>3. iterations' \in 0..(StuckLimit + 1)
    BY <2>2, LimitsOK DEF Smaller, TypeOK
  <2>4. TypeOK'
    BY <2>1, <2>2, <2>3 DEF TypeOK, result
  <2>5. ReportsHalt'
    BY <2>2 DEF ReportsHalt, result
  <2>6. TicksSeen'
    BY <2>1, <2>2 DEF TicksSeen, Stuck, TypeOK
  <2> QED BY <2>4, <2>5, <2>6
<1>4. CASE Compute
  <2>1. ticks_left' \in 0..MaxTicks /\ ticks_left' <= ticks_left
    <3>1. PICK ticks \in 1..MaxCharge : Charge(ticks)
      BY <1>4 DEF Compute
    <3> QED BY <3>1, ChargeType, LimitsOK DEF TypeOK
  <2>2. /\ mode = "jit"
        /\ UNCHANGED <<mode, last_ticks, iterations, halt, test_complete, result, x0, written, told>>
    BY <1>4 DEF Compute, Running
  <2>3. TicksSeen'
    BY <2>1, <2>2 DEF TypeOK, TicksSeen
  <2> QED BY <2>1, <2>2, <2>3 DEF TypeOK, ReportsHalt, result
\* The guest can report only as long as nothing has been reported.
<1>5. Running => mode = "jit" /\ ~halt /\ told = "none"
  BY DEF Running, ReportsHalt
<1>6. CASE SYS_WRITE
  <2>1. PICK w \in Writes :
          /\ Running
          /\ IF IsValidAddress(w.buf) /\ w.count > 0
             THEN /\ written' = IF int(w.fd) \in {1, 2} THEN Smaller(w.count, TotalMem - w.buf) ELSE 0
                  /\ Reply(w.count)
             ELSE written' = 0 /\ Reply(-1)
          /\ UNCHANGED <<mode, progress>>
    BY <1>6 DEF SYS_WRITE
  <2>2. w.fd \in Nat /\ w.buf \in Nat /\ w.count \in Nat
    BY GuestOK
  <2>3. written' \in 0..TotalMem /\ x0' \in Int
    BY <2>1, <2>2, LimitsOK DEF IsValidAddress, Smaller, Reply
  <2> QED BY <2>1, <2>3 DEF Reply, TypeOK, ReportsHalt, TicksSeen, progress, result
<1>7. CASE SYS_OTHER
  BY <1>7 DEF SYS_OTHER, Reply, TypeOK, ReportsHalt, TicksSeen, progress, result
<1>8. CASE SYS_EXIT
  <2>1. PICK status \in Statuses :
          Running /\ exit_code' = int(status) /\ Report(int(status) = 0)
          /\ UNCHANGED <<mode, progress, assert_line, x0, written>>
    BY <1>8 DEF SYS_EXIT
  <2>2. int(status) \in 0..(IntRange - 1)
    BY IntType, GuestOK
  <2> DEFINE pass == int(status) = 0
  <2>3. pass \in BOOLEAN /\ Report(pass)
    BY <2>1
  <2> HIDE DEF pass
  <2> QED BY <1>5, <2>1, <2>2, <2>3 DEF Report, TypeOK, ReportsHalt, TicksSeen, progress
<1>9. CASE SYS_TEST_ASSERT
  <2>1. PICK cond \in Statuses, line \in Lines :
          /\ Running
          /\ \/ int(cond) # 0 /\ UNCHANGED <<halt, test_complete, passed, assert_line, told>>
             \/ int(cond) = 0 /\ Report(FALSE) /\ assert_line' = int(line)
          /\ UNCHANGED <<mode, progress, exit_code, x0, written>>
    BY <1>9 DEF SYS_TEST_ASSERT
  <2>2. int(line) \in 0..(IntRange - 1)
    BY IntType, GuestOK
  <2>3. CASE Report(FALSE) /\ assert_line' = int(line)
    BY <1>5, <2>1, <2>2, <2>3 DEF Report, TypeOK, ReportsHalt, TicksSeen, progress
  <2>4. CASE UNCHANGED <<halt, test_complete, passed, assert_line, told>>
    BY <2>1, <2>4 DEF TypeOK, ReportsHalt, TicksSeen, progress
  <2> QED BY <2>1, <2>3, <2>4
<1>10. CASE SYS_TEST_PASS
  BY <1>5, <1>10 DEF SYS_TEST_PASS, Report, TypeOK, ReportsHalt, TicksSeen, progress
<1>11. CASE SYS_TEST_FAIL
  <2>1. PICK line \in Lines :
          Running /\ Report(FALSE) /\ assert_line' = int(line)
          /\ UNCHANGED <<mode, progress, exit_code, x0, written>>
    BY <1>11 DEF SYS_TEST_FAIL
  <2>2. int(line) \in 0..(IntRange - 1)
    BY IntType, GuestOK
  <2> QED BY <1>5, <2>1, <2>2 DEF Report, TypeOK, ReportsHalt, TicksSeen, progress
<1>12. CASE ExceptionRaised
  BY <1>5, <1>12 DEF ExceptionRaised, TypeOK, ReportsHalt, TicksSeen, progress, result
<1>13. CASE Catch
  BY <1>13 DEF Catch, TypeOK, ReportsHalt, TicksSeen, progress
<1>14. CASE UNCHANGED vars
  BY <1>14 DEF vars, TypeOK, ReportsHalt, TicksSeen, progress, result
<1> QED
  BY <1>1, <1>2, <1>3, <1>4, <1>6, <1>7, <1>8, <1>9, <1>10, <1>11, <1>12, <1>13, <1>14
  DEF Next, Guest, CallSVC

LEMMA Falls ==
  ASSUME NEW a \in Int, NEW b \in Int, NEW i \in Int, NEW j \in Int, NEW limit \in Int,
         b <= a, i <= j
  PROVE  /\ b + (limit + 1 - j) <= a + (limit + 1 - i)
         /\ b < a \/ i < j => b + (limit + 1 - j) < a + (limit + 1 - i)
OBVIOUS

\* A step that stays in the loop or in Run changes neither count of RunsLeft.
LEMMA RunsStep ==
  ASSUME IInv, Next
  PROVE  /\ RunsLeft \in Nat
         /\ RunsLeft' <= RunsLeft
         /\ mode = "jit" /\ mode' = "loop" => RunsLeft' < RunsLeft
<1> DEFINE now == last_ticks + (StuckLimit + 1 - iterations)
           later == last_ticks' + (StuckLimit + 1 - iterations')
           Goal == /\ now \in Nat /\ later <= now
                   /\ mode = "jit" /\ mode' = "loop" => later < now
<1>0. /\ ticks_left \in 0..MaxTicks /\ last_ticks \in 0..MaxTicks
      /\ iterations \in 0..(StuckLimit + 1)
      /\ MaxTicks \in Nat /\ StuckLimit \in Nat
  BY LimitsOK DEF IInv, TypeOK
<1>1. /\ last_ticks \in Int /\ iterations \in Int /\ StuckLimit \in Int
      /\ 0 <= last_ticks /\ 0 <= iterations /\ iterations <= StuckLimit + 1
  BY <1>0
<1>2. ASSUME Return PROVE Goal
  <2>1. /\ iterations' = Smaller(iterations + 1, StuckLimit + 1)
        /\ last_ticks' = IF Stuck THEN last_ticks ELSE ticks_left'
        /\ mode' = IF Stuck THEN "done" ELSE "loop"
    BY <1>2 DEF Return
  <2>2. ticks_left' \in 0..MaxTicks /\ ticks_left' <= ticks_left
    BY <1>0, <1>2, ChargeType DEF Return
  <2>3. ticks_left <= last_ticks
    BY DEF IInv, TicksSeen
  <2>4. /\ iterations' \in Int /\ iterations <= iterations'
        /\ iterations = iterations' => iterations' = StuckLimit + 1
    BY <1>1, <2>1 DEF Smaller
  <2>5. /\ last_ticks' \in Int /\ last_ticks' <= last_ticks
        /\ mode' = "loop" => last_ticks' < last_ticks \/ iterations < iterations'
    <3>1. CASE Stuck
      BY <1>1, <2>1, <3>1
    <3>2. CASE ~Stuck
      <4>1. last_ticks' = ticks_left'
        BY <2>1, <3>2
      <4>2. ticks_left' \in Int /\ ticks_left' <= last_ticks
        BY <1>0, <2>2, <2>3
      <4>3. ticks_left' # last_ticks \/ ~(iterations' > StuckLimit)
        BY <3>2 DEF Stuck
      <4> QED BY <1>1, <2>4, <4>1, <4>2, <4>3
    <3> QED BY <3>1, <3>2
  <2>6. later <= now /\ (mode' = "loop" => later < now)
    BY <1>1, <2>4, <2>5, Falls
  <2> QED BY <1>0, <2>6
<1>3. ASSUME Enter \/ Leave \/ Catch \/ Guest PROVE Goal
  <2>1. UNCHANGED <<last_ticks, iterations>>
    BY <1>3 DEF Enter, Leave, Catch, Guest, Compute, CallSVC, SYS_WRITE, SYS_OTHER, SYS_EXIT,
       SYS_TEST_ASSERT, SYS_TEST_PASS, SYS_TEST_FAIL, ExceptionRaised, progress
  <2>2. mode = "jit" => mode' # "loop"
    BY <1>3 DEF Enter, Leave, Catch, Guest, Compute, CallSVC, SYS_WRITE, SYS_OTHER, SYS_EXIT,
       SYS_TEST_ASSERT, SYS_TEST_PASS, SYS_TEST_FAIL, ExceptionRaised
  <2> QED BY <1>0, <2>1, <2>2
<1> HIDE DEF Goal
<1>4. Goal
  BY <1>2, <1>3 DEF Next
<1> QED BY <1>4 DEF Goal, RunsLeft

\* The loop, the JIT and the result keep their types, for any guest.
THEOREM TypeCorrect == Spec => []TypeOK
<1>1. IInv => TypeOK
  BY DEF IInv
<1> QED BY InitIInv, NextIInv, <1>1, PTL DEF Spec, Safety

\* No guest gets a pass after it has reported a failure, nor by a timeout.
THEOREM FirstReportCounts == Spec => []PassIsFirstReport
<1>1. IInv => PassIsFirstReport
  BY DEF IInv, ReportsHalt, TicksSeen, PassIsFirstReport, TypeOK
<1> QED BY InitIInv, NextIInv, <1>1, PTL DEF Spec, Safety

\* The loop of RunTest enters Run a bounded number of times, for any limits, any
\* guest and any JIT: the number that is left is a natural number, and falls.
THEOREM LoopEnds == Spec => RunsAreBounded /\ [](RunsLeft \in Nat)
<1>1. IInv => RunsLeft \in Nat
  BY LimitsOK DEF IInv, TypeOK, RunsLeft
<1>2. IInv /\ [Next]_vars =>
        [RunsLeft' <= RunsLeft /\ (mode = "jit" /\ mode' = "loop" => RunsLeft' < RunsLeft)]_vars
  BY RunsStep
<1> QED BY InitIInv, NextIInv, <1>1, <1>2, PTL DEF Spec, Safety, RunsAreBounded
=============================================================================
