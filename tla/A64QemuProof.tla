---------------------------- MODULE A64QemuProof ----------------------------
(***************************************************************************)
(* For any corpus and whatever the guests do: the summary of               *)
(* arm64_runner.py adds up, a test it passed left what Dynarmic's harness  *)
(* asks for, and the program it generates enters a test in the state and   *)
(* over the memory in which Dynarmic starts it.  As long as no literal of  *)
(* a CONFIG ends it with a traceback the runner keeps the promise of       *)
(* Corpus.                                                                 *)
(***************************************************************************)
EXTENDS A64Qemu, A64HarnessProof, FiniteSetTheorems, TLAPS

\* run_test is at a test whose CONFIG could be read.
AtTest ==
  /\ stage # "idle" => next \in 1..Len(TestSeq) /\ "config" \in DOMAIN test
  /\ stage \in {"as", "start", "prepare", "run"} => status = "running"

\* The tests before next have their verdict, the others have none.
Reported ==
  \A i \in 1..Len(TestSeq) : report[TestSeq[i]] = "none" <=> i >= next

\* Control without the bound on the totals, which follows from their meaning.
Shape ==
  /\ next \in 1..(Len(TestSeq) + 1)
  /\ count \in [Verdict -> Nat]
  /\ report \in [Tests -> Verdict \cup {"none"}]
  /\ status \in {"running", "success", "failure", "traceback"}
  /\ stage \in {"idle", "build", "as", "start", "prepare", "run", "compare"}
  /\ ended \in {"none", "brk", "signal"}

CInv == Shape /\ AtTest /\ Reported /\ SummaryAddsUp

\* A test of the corpus whose literals are all words, and arrays vectors.
WellFormed(t) ==
  "config" \in DOMAIN File[t] =>
    LET c == File[t].config
    IN  /\ ~Raises(c)
        /\ \A name \in DOMAIN QemuExpected(c) \cap DOMAIN Gprs :
             QemuExpected(c)[name] # Malformed
        /\ \A name \in DOMAIN QemuExpectedVecs(c) : IsVector(QemuExpectedVecs(c)[name])

-----------------------------------------------------------------------------
LEMMA Bounds ==
  /\ Len(TestSeq) \in Nat
  /\ Tests = {TestSeq[i] : i \in 1..Len(TestSeq)}
  /\ 1 \in 1..(Len(TestSeq) + 1)
<1>1. Len(TestSeq) \in Nat /\ DOMAIN TestSeq = 1..Len(TestSeq)
  BY TestSeqOK
<1> QED BY <1>1 DEF Tests

\* There are no more tests than names in the sequence.
LEMMA TestsFinite == IsFiniteSet(Tests) /\ Cardinality(Tests) <= Len(TestSeq)
<1> DEFINE Indices == 1..Len(TestSeq)
<1>1. IsFiniteSet(Indices) /\ Cardinality(Indices) = Len(TestSeq)
  <2>1. 1 \in Int /\ Len(TestSeq) \in Int
    BY Bounds
  <2>2. /\ IsFiniteSet(Indices)
        /\ Cardinality(Indices) = IF 1 > Len(TestSeq) THEN 0 ELSE Len(TestSeq) - 1 + 1
    BY <2>1, FS_Interval
  <2> HIDE DEF Indices
  <2> QED BY <2>2, Bounds
<1>2. TestSeq \in Surjection(Indices, Tests)
  <2>1. TestSeq \in [Indices -> Tests]
    BY TestSeqOK, Bounds
  <2> QED BY <2>1, Bounds DEF Surjection
<1>3. IsFiniteSet(Tests) /\ Cardinality(Tests) <= Cardinality(Indices)
  <2> HIDE DEF Indices
  <2> QED BY <1>1, <1>2, FS_Surjection
<1> QED BY <1>1, <1>3

LEMMA InitInv == Init => CInv
<1> SUFFICES ASSUME Init PROVE CInv
  OBVIOUS
<1>1. \A i \in 1..Len(TestSeq) : report[TestSeq[i]] = "none" /\ i >= next
  <2> TAKE i \in 1..Len(TestSeq)
  <2>1. TestSeq[i] \in Tests /\ i >= 1
    BY Bounds
  <2> QED BY <2>1 DEF Init
<1>2. ASSUME NEW v \in Verdict PROVE count[v] = Cardinality({t \in Tests : report[t] = v})
  <2>1. {t \in Tests : report[t] = v} = {}
    BY DEF Init, Verdict
  <2> QED BY <2>1, FS_EmptySet DEF Init
<1>3. count \in [Verdict -> Nat] /\ report \in [Tests -> Verdict \cup {"none"}]
  BY DEF Init
<1> QED BY <1>1, <1>2, <1>3, Bounds DEF Init, CInv, Shape, AtTest, Reported, SummaryAddsUp

\* A verdict is the first for its test, and ends run_test.
LEMMA VerdictStep ==
  ASSUME CInv, next \in 1..Len(TestSeq), status = "running",
         NEW v \in Verdict, Judge(v), ended' \in {"none", "brk", "signal"}
  PROVE  /\ TestSeq[next] \in Tests /\ report[TestSeq[next]] = "none"
         /\ CInv'
<1> DEFINE this == TestSeq[next]
<1>1. /\ this \in Tests /\ next' = next + 1 /\ status' = status /\ stage' = "idle"
      /\ report' = [report EXCEPT ![this] = v]
      /\ count' = [count EXCEPT ![v] = @ + 1]
  BY Bounds DEF Judge
<1>2. report \in [Tests -> Verdict \cup {"none"}] /\ count \in [Verdict -> Nat]
  BY DEF CInv, Shape
<1>3. report[this] = "none"
  BY Bounds DEF CInv, Reported
<1>4. Shape' /\ AtTest'
  <2>1. next' \in 1..(Len(TestSeq) + 1)
    BY <1>1, Bounds
  <2>2. count' \in [Verdict -> Nat] /\ report' \in [Tests -> Verdict \cup {"none"}]
    BY <1>1, <1>2
  <2> QED BY <1>1, <2>1, <2>2 DEF CInv, Shape, AtTest
<1>5. Reported'
  <2> SUFFICES ASSUME NEW i \in 1..Len(TestSeq)
               PROVE  report'[TestSeq[i]] = "none" <=> i >= next'
    BY DEF Reported
  <2>1. TestSeq[i] \in Tests
    BY Bounds
  <2>2. CASE i = next
    BY <1>1, <1>2, <2>2, Bounds DEF Verdict
  <2>3. CASE i # next
    <3>1. TestSeq[i] # this
      BY <2>3, TestSeqOK
    <3>2. report'[TestSeq[i]] = report[TestSeq[i]]
      BY <1>1, <1>2, <2>1, <3>1
    <3>3. i >= next <=> i >= next'
      BY <1>1, <2>3, Bounds
    <3> QED BY <3>2, <3>3 DEF CInv, Reported
  <2> QED BY <2>2, <2>3
<1>6. SummaryAddsUp'
  <2> SUFFICES ASSUME NEW w \in Verdict
               PROVE  count'[w] = Cardinality({t \in Tests : report'[t] = w})
    BY DEF SummaryAddsUp
  <2> DEFINE Same == {t \in Tests : report[t] = w}
  <2>1. IsFiniteSet(Same) /\ count[w] = Cardinality(Same)
    BY TestsFinite, FS_Subset DEF CInv, SummaryAddsUp
  <2>2. this \notin Same
    BY <1>3 DEF Verdict
  <2>3. CASE w = v
    <3>1. {t \in Tests : report'[t] = w} = Same \cup {this}
      BY <1>1, <1>2, <2>3
    <3>2. Cardinality(Same \cup {this}) = Cardinality(Same) + 1
      <4> HIDE DEF Same, this
      <4> QED BY <2>1, <2>2, FS_AddElement
    <3> QED BY <1>1, <1>2, <2>1, <2>3, <3>1, <3>2
  <2>4. CASE w # v
    <3>1. {t \in Tests : report'[t] = w} = Same
      BY <1>1, <1>2, <1>3, <2>4 DEF Verdict
    <3> QED BY <1>1, <1>2, <2>1, <2>4, <3>1
  <2> QED BY <2>3, <2>4
<1> QED BY <1>1, <1>3, <1>4, <1>5, <1>6 DEF CInv

\* The steps that give a verdict.
Verdicts ==
  /\ next \in 1..Len(TestSeq) /\ status = "running"
  /\ ended' \in {"none", "brk", "signal"}
  /\ \E v \in Verdict : Judge(v)

\* The steps within one call of run_test.
Within ==
  /\ UNCHANGED corpus
  /\ ended' \in {"none", "brk", "signal"}
  /\ stage' \in {"idle", "build", "as", "start", "prepare", "run", "compare"}
  /\ stage' # "idle" => next \in 1..Len(TestSeq) /\ "config" \in DOMAIN test
  /\ stage' \in {"as", "start", "prepare", "run"} => status = "running"

\* Every step is one of those, the traceback, or the last.
LEMMA StepKinds ==
  ASSUME CInv, [Next]_vars
  PROVE  \/ Verdicts
         \/ Within
         \/ /\ Traceback /\ UNCHANGED ended
            /\ stage \in {"build", "compare"}
            /\ Raises(config) \/ CompareRaises(config, actual)
         \/ End
<1> USE DEF CInv, Shape, AtTest
<1>1. CASE Open
  <2>1. next \in 1..Len(TestSeq) /\ status = "running" /\ ended' = "none"
    BY <1>1, Bounds DEF Open
  <2>2. Judge("failed") \/ Judge("skipped") \/ (Goto("build") /\ "config" \in DOMAIN test)
    BY <1>1 DEF Open
  <2> QED BY <2>1, <2>2 DEF Verdicts, Within, Verdict, Goto
<1>2. CASE Build
  BY <1>2 DEF Build, Within, Goto
<1>3. CASE Assemble
  BY <1>3 DEF Assemble, Verdicts, Within, Verdict, Goto
<1>4. CASE Start
  BY <1>4 DEF Start, Within, Goto
<1>5. CASE Prepare
  BY <1>5 DEF Prepare, Within
<1>6. CASE Begin
  BY <1>6 DEF Begin, Within, Goto
<1>7. CASE Execute
  BY <1>7 DEF Execute, Within
<1>8. CASE Fault
  BY <1>8 DEF Fault, Within, Goto
<1>9. CASE Exit
  BY <1>9 DEF Exit, Within, Goto
<1>10. CASE Timeout
  BY <1>10 DEF Timeout, Verdicts, Verdict
<1>11. CASE Compare
  BY <1>11 DEF Compare, Verdicts, Verdict
<1>12. CASE UNCHANGED vars
  BY <1>12 DEF vars, Within, corpus
<1> QED BY <1>1, <1>2, <1>3, <1>4, <1>5, <1>6, <1>7, <1>8, <1>9, <1>10, <1>11, <1>12
        DEF Next, Runner, Guest

LEMMA InvStep == CInv /\ [Next]_vars => CInv'
<1> SUFFICES ASSUME CInv, [Next]_vars PROVE CInv'
  OBVIOUS
<1>1. CASE Verdicts
  BY <1>1, VerdictStep DEF Verdicts
<1>2. CASE Within
  BY <1>2 DEF Within, corpus, CInv, Shape, AtTest, Reported, SummaryAddsUp, test
<1>3. CASE Traceback /\ UNCHANGED ended /\ stage \in {"build", "compare"}
  BY <1>3 DEF Traceback, CInv, Shape, AtTest, Reported, SummaryAddsUp, test
<1>4. CASE End
  BY <1>4 DEF End, CInv, Shape, AtTest, Reported, SummaryAddsUp
<1> QED BY <1>1, <1>2, <1>3, <1>4, StepKinds

\* What the last step finds.
LEMMA EndStep ==
  ASSUME CInv, End
  PROVE  /\ \A t \in Tests : report[t] # "none"
         /\ status' = IF \E t \in Tests : report[t] = "failed" THEN "failure" ELSE "success"
<1>1. next = Len(TestSeq) + 1
  BY Bounds DEF CInv, Shape, End
<1>2. \A t \in Tests : report[t] # "none"
  <2> TAKE t \in Tests
  <2>1. PICK i \in 1..Len(TestSeq) : TestSeq[i] = t
    BY Bounds
  <2>2. ~ (i >= next)
    BY <1>1, Bounds
  <2> QED BY <2>1, <2>2 DEF CInv, Reported
<1>3. count["failed"] = 0 <=> ~ \E t \in Tests : report[t] = "failed"
  <2> DEFINE Same == {t \in Tests : report[t] = "failed"}
  <2>1. IsFiniteSet(Same) /\ count["failed"] = Cardinality(Same)
    BY TestsFinite, FS_Subset DEF CInv, SummaryAddsUp, Verdict
  <2>2. Cardinality(Same) = 0 <=> Same = {}
    <3> HIDE DEF Same
    <3> QED BY <2>1, FS_EmptySet
  <2> QED BY <2>1, <2>2
<1> QED BY <1>2, <1>3 DEF End

-----------------------------------------------------------------------------
LEMMA Invariance == Safety => []CInv
<1> QED BY InitInv, InvStep, PTL DEF Safety

\* Whatever the guests do and whenever the timer fires, main is at one of its
\* tests or at their end, and no total exceeds the number of tests.
THEOREM ControlCorrect == Safety => []Control
<1>1. CInv => Control
  <2> SUFFICES ASSUME CInv PROVE Control
    OBVIOUS
  <2>1. ASSUME NEW v \in Verdict PROVE count[v] \in 0..Len(TestSeq)
    <3> DEFINE Same == {t \in Tests : report[t] = v}
    <3>1. IsFiniteSet(Same) /\ Cardinality(Same) <= Cardinality(Tests)
      BY TestsFinite, FS_Subset
    <3>2. Cardinality(Same) \in Nat /\ Cardinality(Tests) \in Nat
      BY <3>1, TestsFinite, FS_CardinalityType
    <3>3. count[v] = Cardinality(Same)
      BY DEF CInv, SummaryAddsUp
    <3> HIDE DEF Same
    <3> QED BY <3>1, <3>2, <3>3, TestsFinite, Bounds
  <2>2. count \in [Verdict -> 0..Len(TestSeq)]
    BY <2>1 DEF CInv, Shape
  <2> QED BY <2>2 DEF CInv, Shape, Control
<1> QED BY <1>1, Invariance, PTL

\* A test that faults, hangs or prints nothing is counted once, as what was
\* printed for it.
THEOREM Summary == Safety => []SummaryAddsUp
<1>1. CInv => SummaryAddsUp
  BY DEF CInv
<1> QED BY <1>1, Invariance, PTL

\* On a corpus that is not empty, with no literal that raises a ValueError, the
\* runner implements the safety part of Corpus, as the JIT's driver does: one
\* verdict for each test, and an exit status that agrees with them.
THEOREM Implementation ==
  ASSUME Tests # {}, \A t \in Tests : WellFormed(t)
  PROVE  Safety => Abstract!Safety
<1>1. Init => Abstract!Init
  BY DEF Init, Abstract!Init
<1>2. CInv /\ [Next]_vars => [Abstract!Next]_Abstract!vars
  <2> SUFFICES ASSUME CInv, [Next]_vars PROVE [Abstract!Next]_Abstract!vars
    OBVIOUS
  <2>1. CASE Verdicts
    <3>1. PICK v \in Verdict : Judge(v)
      BY <2>1 DEF Verdicts
    <3>2. /\ TestSeq[next] \in Tests /\ report[TestSeq[next]] = "none"
          /\ status = "running" /\ UNCHANGED status
          /\ report' = [report EXCEPT ![TestSeq[next]] = v]
      BY <2>1, <3>1, VerdictStep DEF Verdicts, Judge
    <3>3. Abstract!Judge(TestSeq[next], v)
      BY <3>2 DEF Abstract!Judge
    <3> QED BY <3>2, <3>3 DEF Abstract!Next, Abstract!Progress, Abstract!Verdict, Verdict
  <2>2. CASE Within
    BY <2>2 DEF Within, corpus, Abstract!vars
  <2>3. CASE /\ stage \in {"build", "compare"}
             /\ Raises(config) \/ CompareRaises(config, actual)
    <3>1. test \in {File[t] : t \in Tests} /\ "config" \in DOMAIN test
      BY <2>3, Bounds DEF CInv, AtTest, test
    <3>2. /\ ~Raises(config)
          /\ \A name \in DOMAIN QemuExpected(config) \cap DOMAIN Gprs :
               QemuExpected(config)[name] # Malformed
          /\ \A name \in DOMAIN QemuExpectedVecs(config) :
               IsVector(QemuExpectedVecs(config)[name])
      BY <3>1 DEF WellFormed, config
    <3>3. ~CompareRaises(config, actual)
      BY <3>2, Zenon DEF CompareRaises
    <3> QED BY <2>3, <3>2, <3>3
  <2>4. CASE End
    <3>1. status = "running" /\ UNCHANGED report
      BY <2>4 DEF End
    <3> QED BY <2>4, <3>1, EndStep DEF Abstract!Next, Abstract!Progress, Abstract!End
  <2> QED BY <2>1, <2>2, <2>3, <2>4, StepKinds
<1> QED BY <1>1, <1>2, Invariance, PTL DEF Safety, Abstract!Safety

-----------------------------------------------------------------------------
(* What a verdict says of the guest. *)

\* A guest has come to its brk only where run_test compares, and what it compares
\* is what that guest printed.
Output ==
  /\ stage \in {"build", "as", "start", "prepare", "run"} => ended = "none"
  /\ stage = "compare" /\ ended = "brk" => actual = Actual(Lines(config, m))
  /\ \A name \in DOMAIN actual : actual[name] \subseteq 0..127

VInv == CInv /\ Output /\ PassedMeansExpected

\* A test that passes has been compared, and no error found.
LEMMA ComparedStep ==
  ASSUME CInv, Output, Compare, stage' = "idle", ended = "brk", report'[TestSeq[next' - 1]] = "passed"
  PROVE  PassedMeansExpected'
<1>1. /\ stage = "compare" /\ status = "running" /\ UNCHANGED <<m, ended, actual>>
      /\ actual = Actual(Lines(config, m))
  BY DEF Compare, Output
<1>2. /\ ~CompareRaises(config, actual)
      /\ Judge(IF Errors(config, actual) = {} THEN "passed" ELSE "failed")
  BY <1>1 DEF Compare, Traceback
<1>3. next \in 1..Len(TestSeq) /\ next' - 1 = next /\ TestSeq[next] \in Tests
  BY <1>1, <1>2, Bounds DEF CInv, AtTest, Judge
<1>4. Errors(config, actual) = {}
  <2>1. report' = [report EXCEPT ![TestSeq[next]] =
                     IF Errors(config, actual) = {} THEN "passed" ELSE "failed"]
    BY <1>2 DEF Judge
  <2>2. report'[TestSeq[next]] = IF Errors(config, actual) = {} THEN "passed" ELSE "failed"
    BY <1>3, <2>1 DEF CInv, Shape
  <2> QED BY <1>3, <2>2
<1> DEFINE c == config
<1>5. File[TestSeq[next' - 1]].config = c
  BY <1>3 DEF config, test
<1> HIDE DEF c
<1>6. Errors(c, Actual(Lines(c, m))) = {} /\ ~CompareRaises(c, Actual(Lines(c, m)))
  BY <1>1, <1>2, <1>4 DEF c
<1>7. /\ \A name \in DOMAIN QemuExpected(c) \ DOMAIN Vectors :
           LET literal == QemuExpected(c)[name]
           IN  Hexadecimal(literal) \/ (name \in DOMAIN Gprs /\ BitsOf(name) = 32) =>
                 Read(m, Register[name]) = literal \cap Mask(BitsOf(name))
      /\ \A name \in DOMAIN QemuExpected(c) \cap DOMAIN Vectors :
           LET v == m.v[Register[name].n]
               literal == QemuExpected(c)[name]
           IN  Pair(Low(v), High(v)) = Pair(literal[1], literal[2])
      /\ \A name \in DOMAIN QemuExpectedVecs(c) \cap DOMAIN Vectors :
           LET v == m.v[Register[name].n]
               literals == QemuExpectedVecs(c)[name]
           IN  Low(v) = ParseUint64(literals[1]) /\ High(v) = ParseUint64(literals[2])
  BY <1>6, NoErrors
<1> QED BY <1>1, <1>5, <1>7, Zenon DEF PassedMeansExpected

LEMMA VInvInit == Init => Output /\ PassedMeansExpected
BY DEF Init, Output, PassedMeansExpected

LEMMA VInvStep == VInv /\ [Next]_vars => Output' /\ PassedMeansExpected'
<1> SUFFICES ASSUME VInv, [Next]_vars PROVE Output' /\ PassedMeansExpected'
  OBVIOUS
<1> USE DEF VInv
<1>1. CASE Open
  <2>1. ended' = "none" /\ actual' = <<>> /\ stage' \in {"idle", "build"}
    BY <1>1 DEF Open, Judge, Goto
  <2>2. DOMAIN actual' = {}
    BY <2>1
  <2>3. Output'
    BY <2>1, <2>2 DEF Output
  <2> QED BY <2>1, <2>3 DEF PassedMeansExpected
<1>2. CASE Build
  BY <1>2 DEF Build, Traceback, Goto, Output, PassedMeansExpected, corpus, config, test
<1>3. CASE Assemble
  BY <1>3 DEF Assemble, Judge, Goto, Output, PassedMeansExpected
<1>4. CASE Start
  BY <1>4 DEF Start, Goto, Output, PassedMeansExpected
<1>5. CASE Prepare
  BY <1>5 DEF Prepare, Output, PassedMeansExpected
<1>6. CASE Begin
  BY <1>6 DEF Begin, Goto, Output, PassedMeansExpected
<1>7. CASE Execute
  BY <1>7 DEF Execute, Output, PassedMeansExpected
<1>8. CASE Fault
  BY <1>8 DEF Fault, Goto, Output, PassedMeansExpected
<1>9. CASE Exit
  <2>1. /\ actual' = Actual(Lines(config, m)) /\ stage' = "compare" /\ UNCHANGED <<corpus, m>>
    BY <1>9 DEF Exit, Goto
  <2>2. \A name \in DOMAIN Actual(Lines(config, m)) :
          Actual(Lines(config, m))[name] \subseteq 0..127
    BY ActualWords
  <2>3. config' = config
    BY <2>1 DEF config, test, corpus
  <2> QED BY <2>1, <2>2, <2>3 DEF Output, PassedMeansExpected
<1>10. CASE Timeout
  BY <1>10 DEF Timeout, Judge, Output, PassedMeansExpected
<1>11. CASE Compare
  <2>1. UNCHANGED <<m, ended, actual>>
    BY <1>11 DEF Compare
  <2>2. CASE Traceback
    BY <2>1, <2>2 DEF Traceback, Output, PassedMeansExpected, config, test
  <2>3. CASE \E v \in Verdict : Judge(v)
    <3>1. stage' = "idle"
      BY <2>3 DEF Judge
    <3> QED BY <1>11, <2>1, <3>1, ComparedStep DEF Output, PassedMeansExpected
  <2> QED BY <1>11, <2>2, <2>3 DEF Compare, Verdict
<1>12. CASE End
  BY <1>12 DEF End, Output, PassedMeansExpected
<1>13. CASE UNCHANGED vars
  BY <1>13 DEF vars, corpus, Output, PassedMeansExpected, config, test
<1> QED BY <1>1, <1>2, <1>3, <1>4, <1>5, <1>6, <1>7, <1>8, <1>9, <1>10, <1>11, <1>12, <1>13
        DEF Next, Runner, Guest

LEMMA VerdictInvariance == Safety => []VInv
<1>1. Init => VInv
  BY InitInv, VInvInit DEF VInv
<1>2. VInv /\ [Next]_vars => VInv'
  BY InvStep, VInvStep DEF VInv
<1> QED BY <1>1, <1>2, PTL DEF Safety

\* Whatever the test does, PASSED for a guest that came to its brk is never a
\* mistake of the printing, the parsing or the comparison: the guest has in its
\* registers what the CONFIG expects there in hexadecimal numbers.
THEOREM PassedIsExpected == Safety => []PassedMeansExpected
<1>1. VInv => PassedMeansExpected
  BY DEF VInv
<1> QED BY <1>1, VerdictInvariance, PTL

-----------------------------------------------------------------------------
(* The registers of the program, by their slots. *)

Content(g, slot) ==
  IF slot = <<"sp">> THEN g.sp ELSE IF slot[1] = "x" THEN g.x[slot[2]] ELSE g.v[slot[2]]

LEMMA SlotOf ==
  ASSUME NEW name \in DOMAIN Register
  PROVE  \/ name = "SP" /\ Slot(name) = <<"sp">>
         \/ \E n \in 0..30 :
              name \in {Numbered("X", n), Numbered("W", n)} /\ Slot(name) = <<"x", n>>
         \/ \E n \in 0..31 :
              /\ name \in {Numbered("S", n), Numbered("D", n), Numbered("V", n), Numbered("Q", n)}
              /\ Slot(name) = <<"v", n>>
<1>1. ASSUME NEW n \in 0..30, name \in {Numbered("X", n), Numbered("W", n)}
      PROVE  Slot(name) = <<"x", n>>
  <2>1. name \in DOMAIN Gprs /\ name # "SP"
    BY <1>1, NameSets, NamesApart
  <2>2. Register[name].n = n
    BY <1>1, NamesOK DEF X, R
  <2> QED BY <2>1, <2>2 DEF Slot
<1>2. ASSUME NEW n \in 0..31,
             name \in {Numbered("S", n), Numbered("D", n), Numbered("V", n), Numbered("Q", n)}
      PROVE  Slot(name) = <<"v", n>>
  <2>1. name \notin DOMAIN Gprs /\ name # "SP"
    BY <1>2, NameSets, NamesApart
  <2>2. Register[name] \in {S(n), D(n), V(n, 64)}
    BY <1>2, NamesOK
  <2>3. Register[name].n = n
    BY <2>2 DEF S, D, V
  <2> QED BY <2>1, <2>3 DEF Slot
<1>3. \/ name = "SP"
      \/ \E n \in 0..30 : name \in {Numbered("X", n), Numbered("W", n)}
      \/ \E n \in 0..31 :
           name \in {Numbered("S", n), Numbered("D", n), Numbered("V", n), Numbered("Q", n)}
  BY NamesOK
<1>4. Slot("SP") = <<"sp">>
  BY DEF Slot
<1> QED BY <1>1, <1>2, <1>3, <1>4

\* What is read by a name is in its slot.
LEMMA ReadContent ==
  ASSUME NEW g, NEW h, NEW name \in DOMAIN Register,
         Content(g, Slot(name)) = Content(h, Slot(name))
  PROVE  Read(g, Register[name]) = Read(h, Register[name])
<1>1. CASE name = "SP" /\ Slot(name) = <<"sp">>
  <2>1. g.sp = h.sp
    BY <1>1 DEF Content
  <2>2. Read(g, SP) = g.sp /\ Read(h, SP) = h.sp
    BY ReadAny
  <2> QED BY <1>1, <2>1, <2>2, NamesOK
<1>2. ASSUME NEW n \in 0..30, name \in {Numbered("X", n), Numbered("W", n)}, Slot(name) = <<"x", n>>
      PROVE  Read(g, Register[name]) = Read(h, Register[name])
  <2>1. g.x[n] = h.x[n]
    BY <1>2 DEF Content
  <2>2. /\ Read(g, X(n)) = g.x[n] \cap Mask(64) /\ Read(h, X(n)) = h.x[n] \cap Mask(64)
        /\ Read(g, R(n)) = g.x[n] \cap Mask(32) /\ Read(h, R(n)) = h.x[n] \cap Mask(32)
    BY ReadAny
  <2>3. Register[name] \in {X(n), R(n)}
    BY <1>2, NamesOK
  <2> QED BY <2>1, <2>2, <2>3
<1>3. ASSUME NEW n \in 0..31, Slot(name) = <<"v", n>>,
             name \in {Numbered("S", n), Numbered("D", n), Numbered("V", n), Numbered("Q", n)}
      PROVE  Read(g, Register[name]) = Read(h, Register[name])
  <2>1. g.v[n] = h.v[n]
    BY <1>3 DEF Content
  <2>2. /\ Read(g, S(n)) = g.v[n] \cap Mask(32) /\ Read(h, S(n)) = h.v[n] \cap Mask(32)
        /\ Read(g, D(n)) = Low(g.v[n]) /\ Read(h, D(n)) = Low(h.v[n])
        /\ Read(g, V(n, 64)) = g.v[n] /\ Read(h, V(n, 64)) = h.v[n]
    BY ReadAny
  <2>3. Register[name] \in {S(n), D(n), V(n, 64)}
    BY <1>3, NamesOK
  <2> QED BY <2>1, <2>2, <2>3
<1> QED BY <1>1, <1>2, <1>3, SlotOf

-----------------------------------------------------------------------------
(* What the program has done before the first instruction of the test, when *)
(* some of its items are left.                                               *)

\* The names the program sets, the item of each, and the value it gives it.
Asked(c) == SetRegs(c) \cup SetVecs(c)
ItemOf(name) == <<IF name \in DOMAIN Vectors THEN "vec" ELSE "reg", name>>
Given(c, name) ==
  IF name \in DOMAIN Vectors
  THEN Pair(Low(QemuInitVecs(c)[name][1]), Low(QemuInitVecs(c)[name][2]))
  ELSE Low(QemuInit(c)[name]) \cap Mask(Register[name].w)

\* The item that copies a word.
PairOf(w) == <<w[2], w[3], IF w[4] % 2 = 1 THEN w[4] ELSE w[4] - 1>>

Typed(c, left, g) == IsMachine(g) /\ left \subseteq Items(c)

\* No register is set before the last word is copied.
DataFirst(c, left) ==
  (\E item \in left : item[1] \in {"mem", "tls"}) =>
    \A item \in Items(c) : item[1] \in {"reg", "vec"} => item \in left

\* The words that were copied are in the memory.
Copies(c, left, g) ==
  \A w \in WordsOf(c) :
    Alone(c, w) /\ PairOf(w) \notin left => Load(g, At64(w), 8) = Value(c, w)

\* The registers that were set have the value they were given.
Sets(c, left, g) ==
  \A name \in Asked(c) :
    ItemOf(name) \notin left /\ NamesOf(c, Slot(name)) = {name} /\ Slot(name) \notin Between(c) =>
      Read(g, Register[name]) = Given(c, name)

\* The others are as QEMU gave them to _start.
Leaves(c, g) ==
  /\ \A n \in 0..30 :
       NamesOf(c, <<"x", n>>) = {} /\ <<"x", n>> \notin Between(c) \cup Before(c) => g.x[n] = {}
  /\ \A n \in 0..31 : NamesOf(c, <<"v", n>>) = {} => g.v[n] = {}

Prepared(c, left, g) ==
  Typed(c, left, g) /\ DataFirst(c, left) /\ Copies(c, left, g) /\ Sets(c, left, g) /\ Leaves(c, g)

\* The data are words at addresses.
DataOK(c) ==
  \A data \in {MemData(c), TlsData(c)} :
    /\ IsFiniteSet(DOMAIN data)
    /\ \A a \in DOMAIN data : a \in Nat /\ data[a] \in Seq(SUBSET (0..63))

\* What an entry of SetRegData or SetVecData sets, and what it leaves alone.
LEMMA EntrySet ==
  ASSUME NEW c, NEW g, IsMachine(g), NEW name \in Asked(c)
  PROVE  LET done == Do(c, ItemOf(name), g)
         IN  /\ IsMachine(done) /\ done.mem = g.mem
             /\ Read(done, Register[name]) = Given(c, name)
             /\ \A slot \in {<<"x", n>> : n \in 0..30} \cup {<<"v", n>> : n \in 0..31} \cup {<<"sp">>} :
                  slot # Slot(name) /\ slot \notin Between(c) => Content(done, slot) = Content(g, slot)
<1> DEFINE done == Do(c, ItemOf(name), g)
           Kept(xs, vs) == /\ \A n \in 0..30 : n \notin xs => done.x[n] = g.x[n]
                           /\ \A n \in 0..31 : n \notin vs => done.v[n] = g.v[n]
           slots == {<<"x", n>> : n \in 0..30} \cup {<<"v", n>> : n \in 0..31} \cup {<<"sp">>}
           Rest == \A slot \in slots :
                     slot # Slot(name) /\ slot \notin Between(c) => Content(done, slot) = Content(g, slot)
           Own(xs, vs) ==
             /\ \A n \in 0..30 : n \in xs => <<"x", n>> = Slot(name) \/ <<"x", n>> \in Between(c)
             /\ \A n \in 0..31 : n \in vs => <<"v", n>> = Slot(name)
<1>1. /\ \A n \in 0..30 : Content(done, <<"x", n>>) = done.x[n] /\ Content(g, <<"x", n>>) = g.x[n]
      /\ \A n \in 0..31 : Content(done, <<"v", n>>) = done.v[n] /\ Content(g, <<"v", n>>) = g.v[n]
      /\ Content(done, <<"sp">>) = done.sp /\ Content(g, <<"sp">>) = g.sp
  <2> HIDE DEF done
  <2> QED BY DEF Content
<1>2. ASSUME NEW xs, NEW vs, Kept(xs, vs), Own(xs, vs), done.sp = g.sp \/ Slot(name) = <<"sp">>
      PROVE  Rest
  <2> SUFFICES ASSUME NEW slot \in slots, slot # Slot(name), slot \notin Between(c)
               PROVE  Content(done, slot) = Content(g, slot)
    OBVIOUS
  <2> HIDE DEF done
  <2>1. CASE slot \in {<<"x", n>> : n \in 0..30}
    <3>1. PICK n \in 0..30 : slot = <<"x", n>>
      BY <2>1
    <3> QED BY <1>1, <1>2, <3>1
  <2>2. CASE slot \in {<<"v", n>> : n \in 0..31}
    <3>1. PICK n \in 0..31 : slot = <<"v", n>>
      BY <2>2
    <3> QED BY <1>1, <1>2, <3>1
  <2>3. CASE slot = <<"sp">>
    BY <1>1, <1>2, <2>3
  <2> QED BY <2>1, <2>2, <2>3
<1> HIDE DEF Own, Kept, Rest
<1>3. CASE name \in DOMAIN Vectors
  <2>1. done = SetVector(g, name, QemuInitVecs(c)[name])
    BY <1>3 DEF Do, ItemOf
  <2>2. PICK n \in 0..31 : Slot(name) = <<"v", n>> /\ Register[name].n = n
    BY <1>3, NamesApart DEF Slot
  <2>3. <<"x", 9>> \in Between(c)
    BY <1>3, NamesApart DEF Asked, SetRegs, SetVecs, RegisterNames, Between
  <2> HIDE DEF done
  <2>4. /\ Writes(g, done, {9}, {n}) /\ done.sp = g.sp /\ done.mem = g.mem
        /\ Read(done, Register[name]) = Given(c, name)
    BY <1>3, <2>1, <2>2, VectorSet DEF Given
  <2>5. IsMachine(done) /\ Kept({9}, {n})
    BY <2>4 DEF Writes, Kept
  <2>6. Own({9}, {n})
    BY <2>2, <2>3 DEF Own
  <2>7. Rest
    BY <1>2, <2>4, <2>5, <2>6
  <2> QED BY <2>4, <2>5, <2>7 DEF done, Rest
<1>4. CASE name \notin DOMAIN Vectors
  <2> DEFINE a == QemuInit(c)[name]
  <2>1. done = SetRegister(g, name, a) /\ name \in RegisterNames /\ name \in SetRegs(c)
    BY <1>4 DEF Do, ItemOf, Asked, SetRegs, SetVecs
  <2> HIDE DEF done, a
  <2>2. /\ done.mem = g.mem
        /\ name \in DOMAIN Gprs => Writes(g, done, {Register[name].n}, {}) /\ done.sp = g.sp
        /\ name \in DOMAIN Scalars => Writes(g, done, {9}, {Register[name].n}) /\ done.sp = g.sp
        /\ name = "SP" => Writes(g, done, 0..5 \cup {8, 20}, {})
        /\ Read(done, Register[name]) = Low(a) \cap Mask(Register[name].w)
    BY <2>1, RegisterSet
  <2>3. Read(done, Register[name]) = Given(c, name)
    BY <1>4, <2>2 DEF Given, a
  <2>4. CASE name \in DOMAIN Gprs
    <3>1. PICK n \in 0..30 : Slot(name) = <<"x", n>> /\ Register[name].n = n
      BY <2>4, NamesApart DEF Slot
    <3>2. IsMachine(done) /\ Kept({n}, {}) /\ done.sp = g.sp
      BY <2>2, <2>4, <3>1 DEF Writes, Kept
    <3>3. Own({n}, {})
      BY <3>1 DEF Own
    <3>4. Rest
      BY <1>2, <3>2, <3>3
    <3> QED BY <2>2, <2>3, <3>2, <3>4 DEF done, Rest
  <2>5. CASE name \in DOMAIN Scalars
    <3>1. PICK n \in 0..31 : Slot(name) = <<"v", n>> /\ Register[name].n = n
      BY <2>5, NamesApart DEF Slot
    <3>2. IsMachine(done) /\ Kept({9}, {n}) /\ done.sp = g.sp
      BY <2>2, <2>5, <3>1 DEF Writes, Kept
    <3>3. <<"x", 9>> \in Between(c)
      BY <2>1, <2>5 DEF Between
    <3>4. Own({9}, {n})
      BY <3>1, <3>3 DEF Own
    <3>5. Rest
      BY <1>2, <3>2, <3>4
    <3> QED BY <2>2, <2>3, <3>2, <3>5 DEF done, Rest
  <2>6. CASE name = "SP"
    <3>1. Slot(name) = <<"sp">>
      BY <2>6 DEF Slot
    <3>2. IsMachine(done) /\ Kept(0..5 \cup {8, 20}, {})
      BY <2>2, <2>6 DEF Writes, Kept
    <3>3. \A n \in 0..5 \cup {8, 20} : <<"x", n>> \in Between(c)
      BY <2>1, <2>6 DEF Between
    <3>4. Own(0..5 \cup {8, 20}, {})
      BY <3>3 DEF Own
    <3>5. Rest
      BY <1>2, <3>1, <3>2, <3>4
    <3> QED BY <2>2, <2>3, <3>2, <3>5 DEF done, Rest
  <2> QED BY <2>1, <2>4, <2>5, <2>6, NameKinds, NameSets
<1> QED BY <1>3, <1>4

\* Both kinds of data, and where an entry is.
EntriesOf(c, kind) == IF kind = "mem" THEN MemData(c) ELSE TlsData(c)
BaseOf(kind, a) == IF kind = "mem" THEN a ELSE tls_area + a

LEMMA WordsAre ==
  ASSUME NEW c, DataOK(c), NEW kind \in {"mem", "tls"}, NEW a \in DOMAIN EntriesOf(c, kind)
  PROVE  /\ EntriesOf(c, kind)[a] \in Seq(SUBSET (0..63))
         /\ a \in Nat /\ BaseOf(kind, a) \in Int
         /\ \A i \in 1..Len(EntriesOf(c, kind)[a]) : <<BaseOf(kind, a), kind, a, i>> \in WordsOf(c)
<1>1. EntriesOf(c, kind)[a] \in Seq(SUBSET (0..63)) /\ a \in Nat
  BY DEF DataOK, EntriesOf
<1>2. BaseOf(kind, a) \in Int
  <2>1. tls_area \in Int
    BY DEF tls_area
  <2> QED BY <1>1, <2>1 DEF BaseOf
<1>3. ASSUME NEW i \in 1..Len(EntriesOf(c, kind)[a])
      PROVE  <<BaseOf(kind, a), kind, a, i>> \in WordsOf(c)
  <2>1. i \in DOMAIN EntriesOf(c, kind)[a]
    BY <1>1
  <2>2. CASE kind = "mem"
    BY <2>1, <2>2 DEF EntriesOf, BaseOf, WordsOf
  <2>3. CASE kind = "tls"
    BY <2>1, <2>3 DEF EntriesOf, BaseOf, WordsOf
  <2> QED BY <2>2, <2>3
<1> QED BY <1>1, <1>2, <1>3

\* w is the i-th word of the entry at a.
IsWord(c, w, kind, a, i) ==
  /\ w = <<BaseOf(kind, a), kind, a, i>>
  /\ At64(w) = BaseOf(kind, a) + 8 * (i - 1) /\ At64(w) \in Int
  /\ Value(c, w) = EntriesOf(c, kind)[a][i]
  /\ PairOf(w) = <<kind, a, IF i % 2 = 1 THEN i ELSE i - 1>>

LEMMA AreWords ==
  ASSUME NEW c, DataOK(c), NEW w \in WordsOf(c)
  PROVE  \E kind \in {"mem", "tls"} : \E a \in DOMAIN EntriesOf(c, kind) :
           \E i \in 1..Len(EntriesOf(c, kind)[a]) : IsWord(c, w, kind, a, i)
<1>1. \/ \E a \in DOMAIN MemData(c) : \E i \in DOMAIN MemData(c)[a] : w = <<a, "mem", a, i>>
      \/ \E a \in DOMAIN TlsData(c) : \E i \in DOMAIN TlsData(c)[a] :
           w = <<tls_area + a, "tls", a, i>>
  BY DEF WordsOf
<1>2. \E kind \in {"mem", "tls"} : \E a \in DOMAIN EntriesOf(c, kind) :
        \E i \in DOMAIN EntriesOf(c, kind)[a] : w = <<BaseOf(kind, a), kind, a, i>>
  <2>1. CASE \E a \in DOMAIN MemData(c) : \E i \in DOMAIN MemData(c)[a] : w = <<a, "mem", a, i>>
    BY <2>1 DEF EntriesOf, BaseOf
  <2>2. CASE \E a \in DOMAIN TlsData(c) : \E i \in DOMAIN TlsData(c)[a] :
               w = <<tls_area + a, "tls", a, i>>
    BY <2>2 DEF EntriesOf, BaseOf
  <2> QED BY <1>1, <2>1, <2>2
<1> PICK kind \in {"mem", "tls"} : \E a \in DOMAIN EntriesOf(c, kind) :
       \E i \in DOMAIN EntriesOf(c, kind)[a] : w = <<BaseOf(kind, a), kind, a, i>>
  BY <1>2
<1> PICK a \in DOMAIN EntriesOf(c, kind) :
       \E i \in DOMAIN EntriesOf(c, kind)[a] : w = <<BaseOf(kind, a), kind, a, i>>
  OBVIOUS
<1> PICK i \in DOMAIN EntriesOf(c, kind)[a] : w = <<BaseOf(kind, a), kind, a, i>>
  OBVIOUS
<1>3. i \in 1..Len(EntriesOf(c, kind)[a]) /\ BaseOf(kind, a) \in Int
  BY WordsAre
<1>4. /\ At64(w) = BaseOf(kind, a) + 8 * (i - 1) /\ At64(w) \in Int
      /\ PairOf(w) = <<kind, a, IF i % 2 = 1 THEN i ELSE i - 1>>
  BY <1>3 DEF At64, PairOf
<1>5. Value(c, w) = EntriesOf(c, kind)[a][i]
  BY DEF Value, EntriesOf
<1>6. IsWord(c, w, kind, a, i)
  BY <1>4, <1>5 DEF IsWord
<1> QED BY <1>3, <1>6

\* A pair is copied to where its words are, and moves no word that overlaps
\* neither.
LEMMA PairCopied ==
  ASSUME NEW c, DataOK(c), NEW g, IsMachine(g), NEW item \in Items(c), item[1] \in {"mem", "tls"}
  PROVE  LET done == Do(c, item, g)
         IN  /\ Writes(g, done, {9, 10, 11}, {})
             /\ \A n \in {9, 10, 11} : <<"x", n>> \in Before(c)
             /\ \A w \in WordsOf(c) : PairOf(w) = item => Load(done, At64(w), 8) = Value(c, w)
             /\ \A w \in WordsOf(c) :
                  Alone(c, w) /\ PairOf(w) # item => Load(done, At64(w), 8) = Load(g, At64(w), 8)
<1>1. \/ \E a \in DOMAIN MemData(c) : \E i \in Pairs(MemData(c)[a]) : item = <<"mem", a, i>>
      \/ \E a \in DOMAIN TlsData(c) : \E i \in Pairs(TlsData(c)[a]) : item = <<"tls", a, i>>
  <2>1. ASSUME NEW name, item = <<"reg", name>> \/ item = <<"vec", name>> PROVE FALSE
    BY <2>1
  <2> QED BY <2>1 DEF Items
<1>2. \E kind \in {"mem", "tls"} : \E a \in DOMAIN EntriesOf(c, kind) :
        \E i \in Pairs(EntriesOf(c, kind)[a]) : item = <<kind, a, i>>
  <2>1. CASE \E a \in DOMAIN MemData(c) : \E i \in Pairs(MemData(c)[a]) : item = <<"mem", a, i>>
    BY <2>1 DEF EntriesOf
  <2>2. CASE \E a \in DOMAIN TlsData(c) : \E i \in Pairs(TlsData(c)[a]) : item = <<"tls", a, i>>
    BY <2>2 DEF EntriesOf
  <2> QED BY <1>1, <2>1, <2>2
<1> PICK kind \in {"mem", "tls"} : \E a \in DOMAIN EntriesOf(c, kind) :
       \E i \in Pairs(EntriesOf(c, kind)[a]) : item = <<kind, a, i>>
  BY <1>2
<1> PICK a \in DOMAIN EntriesOf(c, kind) :
       \E i \in Pairs(EntriesOf(c, kind)[a]) : item = <<kind, a, i>>
  OBVIOUS
<1>a. PICK i \in Pairs(EntriesOf(c, kind)[a]) : item = <<kind, a, i>>
  OBVIOUS
<1> DEFINE words == EntriesOf(c, kind)[a]
           base == BaseOf(kind, a)
           at == base + 8 * (i - 1)
           done == Do(c, item, g)
<1>3. /\ words \in Seq(SUBSET (0..63)) /\ a \in Nat /\ base \in Int
      /\ \A j \in 1..Len(words) : <<base, kind, a, j>> \in WordsOf(c)
  BY WordsAre
<1>4. i \in 1..Len(words) /\ i % 2 = 1 /\ at \in Int /\ Len(words) \in Nat
  BY <1>3 DEF Pairs
<1>5. done = Copy(g, words, i, at, IF kind = "mem" THEN W(at) ELSE W(tls_area))
  <2>1. item[1] = kind /\ item[2] = a /\ item[3] = i
    BY <1>a
  <2>2. CASE kind = "mem"
    <3>1. done = CopyMem(c, a, i, g)
      BY <2>1, <2>2 DEF Do
    <3> QED BY <2>2, <3>1 DEF CopyMem, EntriesOf, BaseOf
  <2>3. CASE kind = "tls"
    <3>1. done = CopyTls(c, a, i, g)
      BY <2>1, <2>3 DEF Do
    <3>2. base = tls_area + a /\ words = TlsData(c)[a]
      BY <2>3 DEF EntriesOf, BaseOf
    <3>3. at = tls_area + a + 8 * (i - 1)
      BY <3>2
    <3> HIDE DEF at, words, base, done
    <3> QED BY <2>3, <3>1, <3>2, <3>3 DEF CopyTls
  <2> QED BY <2>2, <2>3
<1> HIDE DEF done, at
<1>6. /\ Writes(g, done, {9, 10, 11}, {})
      /\ Load(done, at, 8) = words[i]
      /\ i + 1 \in 1..Len(words) => Load(done, at + 8, 8) = words[i + 1]
      /\ \A to \in Int :
           /\ to \notin (at - 7)..(at + 7)
           /\ i + 1 \in 1..Len(words) => to \notin (at + 1)..(at + 15)
           => Load(done, to, 8) = Load(g, to, 8)
  <2> HIDE DEF words
  <2>1. i \in Pairs(words)
    BY DEF words
  <2> QED BY <1>3, <1>4, <1>5, <2>1, Copied
<1>7. \A n \in {9, 10, 11} : <<"x", n>> \in Before(c)
  <2>1. EntriesOf(c, kind) # None
    BY DEF None
  <2>2. MemData(c) # None \/ TlsData(c) # None
    BY <2>1 DEF EntriesOf
  <2> QED BY <2>2 DEF Before
<1>8. ASSUME NEW w \in WordsOf(c), PairOf(w) = item
      PROVE  Load(done, At64(w), 8) = Value(c, w)
  <2>0. \E other \in {"mem", "tls"} : \E b \in DOMAIN EntriesOf(c, other) :
          \E j \in 1..Len(EntriesOf(c, other)[b]) : IsWord(c, w, other, b, j)
    BY AreWords
  <2> PICK other \in {"mem", "tls"} : \E b \in DOMAIN EntriesOf(c, other) :
         \E j \in 1..Len(EntriesOf(c, other)[b]) : IsWord(c, w, other, b, j)
    BY <2>0
  <2> PICK b \in DOMAIN EntriesOf(c, other) : \E j \in 1..Len(EntriesOf(c, other)[b]) : IsWord(c, w, other, b, j)
    OBVIOUS
  <2>1. PICK j \in 1..Len(EntriesOf(c, other)[b]) : IsWord(c, w, other, b, j)
    OBVIOUS
  <2>2. other = kind /\ b = a /\ i = IF j % 2 = 1 THEN j ELSE j - 1
    <3> DEFINE first == IF j % 2 = 1 THEN j ELSE j - 1
    <3>1. <<other, b, first>> = <<kind, a, i>>
      BY <1>a, <1>8, <2>1 DEF IsWord
    <3> HIDE DEF first
    <3>2. other = kind /\ b = a /\ i = first
      BY <3>1
    <3> QED BY <3>2 DEF first
  <2>3. At64(w) = base + 8 * (j - 1) /\ Value(c, w) = words[j] /\ j \in 1..Len(words)
    BY <2>1, <2>2 DEF IsWord
  <2> HIDE DEF words, base
  <2>4. CASE j = i
    BY <1>6, <2>3, <2>4 DEF at
  <2>5. CASE j = i + 1
    <3> DEFINE k == i - 1
    <3>1. k \in Int /\ base \in Int /\ j - 1 = k + 1
      BY <1>3, <1>4, <2>5
    <3>2. At64(w) = base + 8 * (k + 1) /\ at = base + 8 * k
      BY <2>3, <3>1 DEF at
    <3> HIDE DEF k
    <3>3. At64(w) = at + 8
      BY <3>1, <3>2
    <3> QED BY <1>6, <2>3, <2>5, <3>3
  <2>6. j = i \/ j = i + 1
    BY <1>4, <2>2, <2>3
  <2> QED BY <2>4, <2>5, <2>6
<1>9. ASSUME NEW w \in WordsOf(c), Alone(c, w), PairOf(w) # item
      PROVE  Load(done, At64(w), 8) = Load(g, At64(w), 8)
  <2> DEFINE to == At64(w)
             word(j) == <<base, kind, a, j>>
  <2>1. to \in Int
    BY AreWords DEF IsWord
  <2>2. ASSUME NEW j \in 1..Len(words), j = i \/ j = i + 1
        PROVE  base + 8 * (j - 1) \notin (to - 7)..(to + 7)
    <3>1. word(j) \in WordsOf(c) /\ At64(word(j)) = base + 8 * (j - 1)
      BY <1>3 DEF At64
    <3>2. PairOf(word(j)) = item
      <4>1. PairOf(word(j)) = <<kind, a, IF j % 2 = 1 THEN j ELSE j - 1>>
        BY DEF PairOf
      <4>2. i = IF j % 2 = 1 THEN j ELSE j - 1
        BY <1>4, <2>2
      <4> QED BY <1>a, <4>1, <4>2
    <3>3. word(j) # w
      BY <1>9, <3>2
    <3> QED BY <1>9, <3>1, <3>3 DEF Alone
  <2> HIDE DEF to, words, base
  <2>3. at \notin (to - 7)..(to + 7)
    BY <1>4, <2>2 DEF at
  <2>4. to \notin (at - 7)..(at + 7)
    BY <1>4, <2>1, <2>3
  <2>5. ASSUME i + 1 \in 1..Len(words) PROVE to \notin (at + 1)..(at + 15)
    <3>1. base + 8 * ((i + 1) - 1) \notin (to - 7)..(to + 7)
      BY <2>2, <2>5
    <3>2. base + 8 * ((i + 1) - 1) = at + 8
      BY <1>3, <1>4 DEF at
    <3> QED BY <1>4, <2>1, <3>1, <3>2
  <2>6. Load(done, to, 8) = Load(g, to, 8)
    BY <1>6, <2>1, <2>4, <2>5
  <2> QED BY <2>6 DEF to
<1> QED BY <1>6, <1>7, <1>8, <1>9 DEF done

LEMMA AskedNamed ==
  ASSUME NEW c, ~Raises(c), NEW name \in Asked(c)
  PROVE  /\ name \in DOMAIN Register /\ name \in NamesOf(c, Slot(name))
         /\ ItemOf(name) \in Items(c)
         /\ Slot(name) \in {<<"x", n>> : n \in 0..30} \cup {<<"v", n>> : n \in 0..31} \cup {<<"sp">>}
<1>1. CASE name \in DOMAIN Vectors
  <2>1. name \in SetVecs(c)
    BY <1>1 DEF Asked, SetRegs, SetVecs, RegisterNames
  <2>2. Len(QemuInitVecs(c)[name]) >= 2
    BY <2>1 DEF Raises, IsVector
  <2>3. name \in DOMAIN init_vecs(c)
    BY <2>1, <2>2, InitVecs
  <2>4. name \in DOMAIN Register
    BY <1>1, NamesOK
  <2>5. ItemOf(name) \in Items(c)
    BY <1>1, <2>1 DEF ItemOf, Items
  <2> QED BY <2>3, <2>4, <2>5, SlotOf DEF NamesOf
<1>2. CASE name \notin DOMAIN Vectors
  <2>1. name \in SetRegs(c) /\ name \in DOMAIN Register
    BY <1>2 DEF Asked, SetRegs, SetVecs, RegisterNames
  <2>2. name \in DOMAIN init_regs(c)
    BY <2>1, InitRegs
  <2>3. ItemOf(name) \in Items(c)
    BY <1>2, <2>1 DEF ItemOf, Items
  <2> QED BY <2>1, <2>2, <2>3, SlotOf DEF NamesOf
<1> QED BY <1>1, <1>2

\* Before the first item.
LEMMA PreparedFirst ==
  ASSUME NEW c, DataOK(c), ~Raises(c)
  PROVE  Prepared(c, Items(c), MemAlloc(c, QemuEntry))
<1> DEFINE g == MemAlloc(c, QemuEntry)
           left == Items(c)
<1>1. /\ IsMachine(QemuEntry)
      /\ \A n \in 0..30 : n # 0 => QemuEntry.x[n] = {}
      /\ \A n \in 0..31 : QemuEntry.v[n] = {}
  BY EntryState
<1>2. /\ Writes(QemuEntry, g, 0..5 \cup {8, 19}, {})
      /\ MemData(c) = None => g = QemuEntry
  BY <1>1, Allocated
<1> HIDE DEF g
<1>3. Typed(c, left, g)
  BY <1>2 DEF Typed, Writes
<1>4. DataFirst(c, left)
  BY DEF DataFirst
<1>5. ASSUME NEW w \in WordsOf(c) PROVE PairOf(w) \in left
  <2>0. \E kind \in {"mem", "tls"} : \E a \in DOMAIN EntriesOf(c, kind) :
          \E i \in 1..Len(EntriesOf(c, kind)[a]) : IsWord(c, w, kind, a, i)
    BY AreWords
  <2> PICK kind \in {"mem", "tls"} : \E a \in DOMAIN EntriesOf(c, kind) :
         \E i \in 1..Len(EntriesOf(c, kind)[a]) : IsWord(c, w, kind, a, i)
    BY <2>0
  <2> PICK a \in DOMAIN EntriesOf(c, kind) : \E i \in 1..Len(EntriesOf(c, kind)[a]) : IsWord(c, w, kind, a, i)
    OBVIOUS
  <2>1. PICK i \in 1..Len(EntriesOf(c, kind)[a]) : IsWord(c, w, kind, a, i)
    OBVIOUS
  <2> DEFINE first == IF i % 2 = 1 THEN i ELSE i - 1
             words == EntriesOf(c, kind)[a]
  <2>2. Len(words) \in Nat
    <3>1. words \in Seq(SUBSET (0..63))
      BY WordsAre
    <3> HIDE DEF words
    <3> QED BY <3>1
  <2>3. first \in Pairs(words)
    <3> HIDE DEF words
    <3>1. i \in 1..Len(words)
      BY DEF words
    <3>2. first \in 1..Len(words) /\ first % 2 = 1
      BY <2>2, <3>1
    <3> QED BY <3>2 DEF Pairs
  <2>4. PairOf(w) = <<kind, a, first>>
    BY <2>1 DEF IsWord
  <2> HIDE DEF first
  <2>5. CASE kind = "mem"
    BY <2>3, <2>4, <2>5 DEF EntriesOf, Items
  <2>6. CASE kind = "tls"
    BY <2>3, <2>4, <2>6 DEF EntriesOf, Items
  <2> QED BY <2>5, <2>6
<1>6. Copies(c, left, g)
  BY <1>5 DEF Copies
<1>7. Sets(c, left, g)
  BY AskedNamed DEF Sets
<1>8. ASSUME NEW n \in 0..30, <<"x", n>> \notin Before(c) PROVE g.x[n] = {}
  <2>1. n # 0
    BY <1>8 DEF Before
  <2>2. CASE MemData(c) = None
    BY <1>1, <1>2, <2>1, <2>2
  <2>3. CASE MemData(c) # None
    <3>1. n \notin 0..5 \cup {8, 19}
      BY <1>8, <2>3 DEF Before
    <3> QED BY <1>1, <1>2, <2>1, <3>1 DEF Writes
  <2> QED BY <2>2, <2>3
<1>9. \A n \in 0..31 : g.v[n] = {}
  BY <1>1, <1>2 DEF Writes
<1>10. Leaves(c, g)
  BY <1>8, <1>9 DEF Leaves
<1> QED BY <1>3, <1>4, <1>6, <1>7, <1>10 DEF Prepared, g

\* A pair of words: no register was set yet.
LEMMA DataStep ==
  ASSUME NEW c, DataOK(c), ~Raises(c), NEW left, NEW g, Prepared(c, left, g),
         NEW item \in left, item[1] \in {"mem", "tls"}
  PROVE  Prepared(c, left \ {item}, Do(c, item, g))
<1> DEFINE done == Do(c, item, g)
           rest == left \ {item}
<1>1. IsMachine(g) /\ left \subseteq Items(c) /\ item \in Items(c)
  BY DEF Prepared, Typed
<1>2. /\ Writes(g, done, {9, 10, 11}, {})
      /\ \A n \in {9, 10, 11} : <<"x", n>> \in Before(c)
      /\ \A w \in WordsOf(c) : PairOf(w) = item => Load(done, At64(w), 8) = Value(c, w)
      /\ \A w \in WordsOf(c) :
           Alone(c, w) /\ PairOf(w) # item => Load(done, At64(w), 8) = Load(g, At64(w), 8)
  BY <1>1, PairCopied
<1> HIDE DEF done
<1>3. Typed(c, rest, done)
  BY <1>1, <1>2 DEF Typed, Writes
<1>4. \A other \in Items(c) : other[1] \in {"reg", "vec"} => other \in rest
  BY DEF Prepared, DataFirst
<1>5. DataFirst(c, rest)
  BY <1>4 DEF DataFirst
<1>6. Copies(c, rest, done)
  <2> SUFFICES ASSUME NEW w \in WordsOf(c), Alone(c, w), PairOf(w) \notin rest
               PROVE  Load(done, At64(w), 8) = Value(c, w)
    BY DEF Copies
  <2>1. CASE PairOf(w) = item
    BY <1>2, <2>1
  <2>2. CASE PairOf(w) # item
    <3>1. Load(g, At64(w), 8) = Value(c, w)
      BY <2>2 DEF Prepared, Copies
    <3> QED BY <1>2, <2>2, <3>1
  <2> QED BY <2>1, <2>2
<1>7. Sets(c, rest, done)
  <2> SUFFICES ASSUME NEW name \in Asked(c) PROVE ItemOf(name) \in rest
    BY DEF Sets
  <2>1. ItemOf(name) \in Items(c)
    BY AskedNamed
  <2> QED BY <1>4, <2>1 DEF ItemOf
<1>8. Leaves(c, done)
  <2>1. \A n \in 0..30 : <<"x", n>> \notin Before(c) => done.x[n] = g.x[n]
    BY <1>2 DEF Writes
  <2>2. \A n \in 0..31 : done.v[n] = g.v[n]
    BY <1>2 DEF Writes
  <2> QED BY <2>1, <2>2 DEF Prepared, Leaves
<1> QED BY <1>3, <1>5, <1>6, <1>7, <1>8 DEF Prepared, done

\* An entry of the registers: the words are all copied.
LEMMA EntryStep ==
  ASSUME NEW c, DataOK(c), ~Raises(c), NEW left, NEW g, Prepared(c, left, g),
         NEW item \in Ready(left), item[1] \notin {"mem", "tls"}
  PROVE  Prepared(c, left \ {item}, Do(c, item, g))
<1> DEFINE rest == left \ {item}
<1>1. IsMachine(g) /\ left \subseteq Items(c) /\ item \in Items(c) /\ item \in left
  BY DEF Prepared, Typed, Ready
<1>2. PICK name \in Asked(c) : item = ItemOf(name)
  <2>1. CASE \E name \in SetRegs(c) : item = <<"reg", name>>
    BY <2>1, NamesApart DEF Asked, ItemOf, SetRegs, RegisterNames
  <2>2. CASE \E name \in SetVecs(c) : item = <<"vec", name>>
    BY <2>2 DEF Asked, ItemOf, SetVecs
  <2>3. \/ \E name \in SetRegs(c) : item = <<"reg", name>>
        \/ \E name \in SetVecs(c) : item = <<"vec", name>>
    <3>1. \A a, i : <<"mem", a, i>>[1] = "mem" /\ <<"tls", a, i>>[1] = "tls"
      OBVIOUS
    <3> QED BY <1>1, <3>1 DEF Items
  <2> QED BY <2>1, <2>2, <2>3
<1> DEFINE done == Do(c, ItemOf(name), g)
           slots == {<<"x", n>> : n \in 0..30} \cup {<<"v", n>> : n \in 0..31} \cup {<<"sp">>}
<1>3. /\ IsMachine(done) /\ done.mem = g.mem
      /\ Read(done, Register[name]) = Given(c, name)
      /\ \A slot \in slots :
           slot # Slot(name) /\ slot \notin Between(c) => Content(done, slot) = Content(g, slot)
  BY <1>1, EntrySet
<1> HIDE DEF done
<1>4. name \in NamesOf(c, Slot(name))
  BY AskedNamed
<1>5. Typed(c, rest, done)
  BY <1>1, <1>3 DEF Typed
<1>6. \A other \in left : other[1] \notin {"mem", "tls"}
  <2> SUFFICES ASSUME NEW other \in left, other[1] \in {"mem", "tls"} PROVE FALSE
    OBVIOUS
  <2>1. Follows(other, item, left)
    BY DEF Ready
  <2>2. item[1] \in {"reg", "vec"}
    BY <1>2 DEF ItemOf
  <2>3. Place[item[1]] \in {3, 4} /\ Place[other[1]] \in {1, 2}
    BY <2>2 DEF Place
  <2> QED BY <2>1, <2>2, <2>3 DEF Follows
<1>7. DataFirst(c, rest)
  BY <1>6 DEF DataFirst
<1>8. Copies(c, rest, done)
  <2> SUFFICES ASSUME NEW w \in WordsOf(c), Alone(c, w), PairOf(w) \notin rest
               PROVE  Load(done, At64(w), 8) = Value(c, w)
    BY DEF Copies
  <2>1. PairOf(w) # item
    <3>1. PICK kind \in {"mem", "tls"} : PairOf(w)[1] = kind
      BY AreWords DEF IsWord
    <3> QED BY <3>1
  <2>2. Load(g, At64(w), 8) = Value(c, w)
    BY <2>1 DEF Prepared, Copies
  <2> QED BY <1>3, <2>2, LoadSame
<1>9. Sets(c, rest, done)
  <2> SUFFICES ASSUME NEW other \in Asked(c), ItemOf(other) \notin rest,
                      NamesOf(c, Slot(other)) = {other}, Slot(other) \notin Between(c)
               PROVE  Read(done, Register[other]) = Given(c, other)
    BY DEF Sets
  <2>1. CASE other = name
    BY <1>3, <2>1
  <2>2. CASE other # name
    <3>1. Slot(other) # Slot(name)
      BY <1>4, <2>2
    <3>2. Slot(other) \in slots /\ other \in DOMAIN Register
      BY AskedNamed
    <3>3. Content(done, Slot(other)) = Content(g, Slot(other))
      BY <1>3, <3>1, <3>2
    <3>4. Read(done, Register[other]) = Read(g, Register[other])
      BY <3>2, <3>3, ReadContent
    <3>5. ItemOf(other) \notin left
      BY <1>2, <2>2 DEF ItemOf
    <3>6. Read(g, Register[other]) = Given(c, other)
      BY <3>5 DEF Prepared, Sets
    <3> QED BY <3>4, <3>6
  <2> QED BY <2>1, <2>2
<1>10. Leaves(c, done)
  <2>1. ASSUME NEW slot \in slots, NamesOf(c, slot) = {}, slot \notin Between(c)
        PROVE  Content(done, slot) = Content(g, slot)
    BY <1>3, <1>4, <2>1
  <2>2. \A n \in 0..31 : <<"v", n>> \notin Between(c)
    BY DEF Between
  <2>3. ASSUME NEW n \in 0..30, NamesOf(c, <<"x", n>>) = {}, <<"x", n>> \notin Between(c) \cup Before(c)
        PROVE  done.x[n] = {}
    <3>1. Content(done, <<"x", n>>) = Content(g, <<"x", n>>)
      BY <2>1, <2>3
    <3>2. g.x[n] = {}
      BY <2>3 DEF Prepared, Leaves
    <3> QED BY <3>1, <3>2 DEF Content
  <2>4. ASSUME NEW n \in 0..31, NamesOf(c, <<"v", n>>) = {}
        PROVE  done.v[n] = {}
    <3>1. Content(done, <<"v", n>>) = Content(g, <<"v", n>>)
      BY <2>1, <2>2, <2>4
    <3>2. g.v[n] = {}
      BY <2>4 DEF Prepared, Leaves
    <3> QED BY <3>1, <3>2 DEF Content
  <2> QED BY <2>3, <2>4 DEF Leaves
<1> QED BY <1>2, <1>5, <1>7, <1>8, <1>9, <1>10 DEF Prepared, done

-----------------------------------------------------------------------------
(* The registers the JIT's runner gives the same test. *)

LEMMA Unnamed ==
  ASSUME NEW c, NEW name \in DOMAIN Register, name \notin NamesOf(c, Slot(name))
  PROVE  name \notin DOMAIN init_regs(c) /\ name \notin DOMAIN init_vecs(c)
BY DEF NamesOf

\* A register with one name has the value of that name.
LEMMA OnDynarmic ==
  ASSUME NEW c, ~Raises(c), NEW name \in Asked(c), NamesOf(c, Slot(name)) = {name}
  PROVE  Read(DynarmicStart(c), Register[name]) = Given(c, name)
<1> DEFINE d == DynarmicStart(c)
           regs == init_regs(c)
           vecs == init_vecs(c)
<1>1. /\ \A n \in 0..30 :
           d.x[n] = IF Numbered("X", n) \in DOMAIN regs THEN regs[Numbered("X", n)]
                    ELSE FirstOf(<<Numbered("W", n)>>, regs) \cap Mask(32)
      /\ \A n \in 0..31 :
           d.v[n] = IF {Numbered("V", n), Numbered("Q", n)} \cap DOMAIN vecs # {}
                    THEN FirstOf(<<Numbered("V", n), Numbered("Q", n)>>, vecs)
                    ELSE FirstOf(<<Numbered("S", n), Numbered("D", n)>>, regs)
      /\ d.sp = IF "SP" \in DOMAIN regs THEN regs["SP"] ELSE DynarmicStack
  BY StartFields
<1>2. name \in DOMAIN Register
  BY AskedNamed
<1>3. ASSUME NEW other \in DOMAIN Register, Slot(other) = Slot(name), other # name
      PROVE  other \notin DOMAIN regs /\ other \notin DOMAIN vecs
  BY <1>3, Unnamed
<1>4. ASSUME name \in DOMAIN Vectors
      PROVE  /\ name \in DOMAIN vecs
             /\ vecs[name] = Given(c, name)
  <2> DEFINE literals == QemuInitVecs(c)[name]
  <2>1. name \in SetVecs(c)
    BY <1>4 DEF Asked, SetRegs, SetVecs, RegisterNames
  <2>2. IsVector(literals)
    BY <2>1 DEF Raises
  <2>3. name \in DOMAIN vecs /\ vecs[name] = ParseVecPair(literals)
    BY <2>1, <2>2, InitVecs DEF IsVector
  <2> HIDE DEF literals, vecs
  <2>4. literals[1] # Malformed /\ literals[2] # Malformed
    BY <2>2 DEF IsVector
  <2>5. ParseVecPair(literals) = Pair(Low(literals[1]), Low(literals[2]))
    BY <2>4 DEF ParseVecPair, ParseUint64
  <2> QED BY <1>4, <2>3, <2>5 DEF Given, literals, vecs
<1>5. ASSUME name \notin DOMAIN Vectors
      PROVE  /\ name \in DOMAIN regs
             /\ regs[name] = Low(QemuInit(c)[name])
             /\ Given(c, name) = Low(QemuInit(c)[name]) \cap Mask(Register[name].w)
  <2>1. name \in SetRegs(c)
    BY <1>5 DEF Asked, SetRegs, SetVecs
  <2>2. QemuInit(c)[name] # Malformed
    BY <2>1 DEF Raises
  <2>3. name \in DOMAIN regs /\ regs[name] = ParseUint64(QemuInit(c)[name])
    BY <2>1, InitRegs
  <2> QED BY <1>5, <2>2, <2>3 DEF ParseUint64, Given
<1> DEFINE a == Low(QemuInit(c)[name])
<1>6. a = a \cap Mask(64) /\ a \cap Mask(32) = (a \cap Mask(32)) \cap Mask(32)
  BY DEF Low
<1> HIDE DEF d, regs, vecs, a
<1>7. CASE name = "SP"
  <2>1. d.sp = a /\ Given(c, name) = a \cap Mask(Register[name].w)
    BY <1>1, <1>5, <1>7, NamesApart DEF a
  <2>2. Register[name] = SP /\ Register[name].w = 64
    BY <1>7, NamesOK DEF SP
  <2>3. Read(d, SP) = d.sp
    BY ReadAny
  <2> QED BY <1>6, <2>1, <2>2, <2>3 DEF d
<1>8. ASSUME NEW n \in 0..30, name = Numbered("X", n)
      PROVE  Read(d, Register[name]) = Given(c, name)
  <2>1. name \notin DOMAIN Vectors
    BY <1>8, NameSets, NamesApart
  <2>2. d.x[n] = a /\ Given(c, name) = a \cap Mask(Register[name].w)
    BY <1>1, <1>5, <1>8, <2>1 DEF a
  <2>3. Register[name] = X(n) /\ Register[name].w = 64
    BY <1>8, NamesOK DEF X
  <2>4. Read(d, X(n)) = d.x[n] \cap Mask(64)
    BY ReadAny
  <2> QED BY <2>2, <2>3, <2>4
<1>9. ASSUME NEW n \in 0..30, name = Numbered("W", n)
      PROVE  Read(d, Register[name]) = Given(c, name)
  <2> DEFINE other == Numbered("X", n)
  <2>1. name \notin DOMAIN Vectors /\ other \in DOMAIN Gprs /\ name \in DOMAIN Gprs
    BY <1>9, NameSets, NamesApart
  <2>2. /\ Register[name] = R(n) /\ Register[name].w = 32 /\ Register[name].n = n
        /\ Register[other].w = 64 /\ Register[other].n = n
    BY <1>9, NamesOK DEF R, X
  <2>3. Slot(other) = Slot(name) /\ other # name /\ other \in DOMAIN Register
    BY <2>1, <2>2, NamesApart, NamesOK DEF Slot
  <2>4. other \notin DOMAIN regs
    BY <1>3, <2>3
  <2>5. d.x[n] = a \cap Mask(32) /\ Given(c, name) = a \cap Mask(32)
    <3>1. name \in DOMAIN regs /\ regs[name] = a /\ Given(c, name) = a \cap Mask(32)
      BY <1>5, <2>1, <2>2 DEF a
    <3>2. FirstOf(<<name>>, regs) = a
      BY <3>1, First
    <3> QED BY <1>1, <1>9, <2>4, <3>1, <3>2
  <2>6. Read(d, R(n)) = d.x[n] \cap Mask(32)
    BY ReadAny
  <2> QED BY <1>6, <2>2, <2>5, <2>6
<1>10. ASSUME NEW n \in 0..31, name = Numbered("S", n) \/ name = Numbered("D", n)
       PROVE  Read(d, Register[name]) = Given(c, name)
  <2> DEFINE s == Numbered("S", n)
             e == Numbered("D", n)
  <2>1. name \in DOMAIN Scalars /\ name \notin DOMAIN Vectors
    BY <1>10, NameSets, NamesApart
  <2>2. /\ Register[s] = S(n) /\ Register[s].w = 32 /\ Register[s].n = n
        /\ Register[e] = D(n) /\ Register[e].w = 64 /\ Register[e].n = n
    BY NamesOK DEF S, D
  <2>3. ASSUME NEW other \in {s, e, Numbered("V", n), Numbered("Q", n)}
        PROVE  other \in DOMAIN Register /\ Slot(other) = <<"v", n>>
    <3>1. other \in DOMAIN Scalars \cup DOMAIN Vectors
      BY NameSets
    <3>2. Register[other].n = n
      BY <2>2, NamesOK DEF V
    <3> QED BY <3>1, <3>2, NamesApart, NamesOK DEF Slot
  <2>4. \A other \in {s, e, Numbered("V", n), Numbered("Q", n)} :
          other # name => other \notin DOMAIN regs /\ other \notin DOMAIN vecs
    BY <1>3, <1>10, <2>3
  <2>5. {Numbered("V", n), Numbered("Q", n)} \cap DOMAIN vecs = {}
    BY <2>1, <2>4, NameSets
  <2>6. name \in DOMAIN regs /\ regs[name] = a /\ Given(c, name) = a \cap Mask(Register[name].w)
    BY <1>5, <2>1 DEF a
  <2>7. s # e
    BY <2>2
  <2>8. FirstOf(<<s, e>>, regs) = a
    <3> HIDE DEF s, e
    <3>1. CASE name = s
      BY <2>4, <2>6, <2>7, <3>1, First
    <3>2. CASE name = e
      BY <2>4, <2>6, <2>7, <3>2, Second
    <3> QED BY <1>10, <3>1, <3>2 DEF s, e
  <2>9. d.v[n] = a
    BY <1>1, <2>5, <2>8
  <2>10. Read(d, S(n)) = d.v[n] \cap Mask(32) /\ Read(d, D(n)) = d.v[n] \cap Mask(64)
    BY ReadAny DEF Low
  <2> QED BY <1>10, <2>2, <2>6, <2>9, <2>10
<1>11. ASSUME NEW n \in 0..31, name = Numbered("V", n) \/ name = Numbered("Q", n)
       PROVE  Read(d, Register[name]) = Given(c, name)
  <2> DEFINE v == Numbered("V", n)
             q == Numbered("Q", n)
  <2>0. v # q
    BY NamesOK
  <2>1. v \in DOMAIN Vectors /\ q \in DOMAIN Vectors
    BY NameSets
  <2>2. /\ Register[v] = V(n, 64) /\ Register[v].n = n
        /\ Register[q] = V(n, 64) /\ Register[q].n = n
    BY NamesOK DEF V
  <2>3. \A other \in {v, q} : other \in DOMAIN Register /\ Slot(other) = <<"v", n>>
    BY <2>1, <2>2, NamesApart, NamesOK DEF Slot
  <2>4. \A other \in {v, q} : other # name => other \notin DOMAIN vecs
    BY <1>3, <1>11, <2>3
  <2>5. name \in DOMAIN vecs /\ vecs[name] = Given(c, name)
    BY <1>4, <1>11, <2>1
  <2>6. {v, q} \cap DOMAIN vecs # {}
    BY <1>11, <2>5
  <2>7. FirstOf(<<v, q>>, vecs) = Given(c, name)
    <3> HIDE DEF v, q
    <3>1. CASE name = v
      <4>1. v \in DOMAIN vecs /\ q \notin DOMAIN vecs
        BY <2>0, <2>4, <2>5, <3>1
      <4>2. FirstOf(<<v, q>>, vecs) = vecs[v]
        BY <4>1, First
      <4> QED BY <2>5, <3>1, <4>2
    <3>2. CASE name = q
      <4>1. v \notin DOMAIN vecs /\ q \in DOMAIN vecs
        BY <2>0, <2>4, <2>5, <3>2
      <4>2. FirstOf(<<v, q>>, vecs) = vecs[q]
        BY <4>1, Second
      <4> QED BY <2>5, <3>2, <4>2
    <3> QED BY <1>11, <3>1, <3>2 DEF v, q
  <2>8. d.v[n] = Given(c, name)
    BY <1>1, <2>6, <2>7
  <2>9. Read(d, V(n, 64)) = d.v[n]
    BY ReadAny
  <2> QED BY <1>11, <2>2, <2>8, <2>9
<1> QED BY <1>2, <1>7, <1>8, <1>9, <1>10, <1>11, NamesOK DEF d

\* A register without a name is zero.
LEMMA ZeroOnDynarmic ==
  ASSUME NEW c
  PROVE  /\ \A n \in 0..30 : NamesOf(c, <<"x", n>>) = {} => DynarmicStart(c).x[n] = {}
         /\ \A n \in 0..31 : NamesOf(c, <<"v", n>>) = {} => DynarmicStart(c).v[n] = {}
<1> DEFINE d == DynarmicStart(c)
           regs == init_regs(c)
           vecs == init_vecs(c)
<1>1. /\ \A n \in 0..30 :
           d.x[n] = IF Numbered("X", n) \in DOMAIN regs THEN regs[Numbered("X", n)]
                    ELSE FirstOf(<<Numbered("W", n)>>, regs) \cap Mask(32)
      /\ \A n \in 0..31 :
           d.v[n] = IF {Numbered("V", n), Numbered("Q", n)} \cap DOMAIN vecs # {}
                    THEN FirstOf(<<Numbered("V", n), Numbered("Q", n)>>, vecs)
                    ELSE FirstOf(<<Numbered("S", n), Numbered("D", n)>>, regs)
  BY StartFields
<1>2. ASSUME NEW name \in DOMAIN Register, NamesOf(c, Slot(name)) = {}
      PROVE  name \notin DOMAIN regs /\ name \notin DOMAIN vecs
  BY <1>2, Unnamed
<1> HIDE DEF d, regs, vecs
<1>3. ASSUME NEW n \in 0..30, NamesOf(c, <<"x", n>>) = {}
      PROVE  d.x[n] = {}
  <2>1. \A name \in {Numbered("X", n), Numbered("W", n)} :
          name \in DOMAIN Gprs /\ name \in DOMAIN Register /\ Register[name].n = n
    <3>1. Numbered("X", n) \in DOMAIN Gprs /\ Numbered("W", n) \in DOMAIN Gprs
      BY NameSets
    <3>2. Register[Numbered("X", n)].n = n /\ Register[Numbered("W", n)].n = n
      BY NamesOK DEF X, R
    <3> QED BY <3>1, <3>2, NamesOK
  <2>2. \A name \in {Numbered("X", n), Numbered("W", n)} : Slot(name) = <<"x", n>>
    BY <2>1, NamesApart DEF Slot
  <2>3. Numbered("X", n) \notin DOMAIN regs /\ Numbered("W", n) \notin DOMAIN regs
    BY <1>2, <1>3, <2>1, <2>2
  <2>4. FirstOf(<<Numbered("W", n)>>, regs) = {}
    BY <2>3, First
  <2>5. d.x[n] = FirstOf(<<Numbered("W", n)>>, regs) \cap Mask(32)
    BY <1>1, <2>3
  <2>6. {} \cap Mask(32) = {}
    OBVIOUS
  <2> QED BY <2>4, <2>5, <2>6
<1>4. ASSUME NEW n \in 0..31, NamesOf(c, <<"v", n>>) = {}
      PROVE  d.v[n] = {}
  <2> DEFINE names == {Numbered("S", n), Numbered("D", n), Numbered("V", n), Numbered("Q", n)}
  <2>1. \A name \in names :
          /\ name \in DOMAIN Scalars \cup DOMAIN Vectors /\ name \in DOMAIN Register
          /\ Register[name].n = n
    <3>1. /\ {Numbered("S", n), Numbered("D", n)} \subseteq DOMAIN Scalars
          /\ {Numbered("V", n), Numbered("Q", n)} \subseteq DOMAIN Vectors
      BY NameSets
    <3>2. Register[Numbered("S", n)].n = n /\ Register[Numbered("D", n)].n = n
      BY NamesOK DEF S, D
    <3>3. Register[Numbered("V", n)].n = n /\ Register[Numbered("Q", n)].n = n
      BY NamesOK DEF V
    <3>4. DOMAIN Scalars \cup DOMAIN Vectors \subseteq DOMAIN Register
      BY NamesOK
    <3> QED BY <3>1, <3>2, <3>3, <3>4
  <2>2. \A name \in names : Slot(name) = <<"v", n>>
    BY <2>1, NamesApart DEF Slot
  <2>3. \A name \in names : name \notin DOMAIN regs /\ name \notin DOMAIN vecs
    BY <1>2, <1>4, <2>1, <2>2
  <2>4. FirstOf(<<Numbered("S", n), Numbered("D", n)>>, regs) = {}
    BY <2>3, First
  <2> QED BY <1>1, <2>3, <2>4
<1> QED BY <1>3, <1>4 DEF d

-----------------------------------------------------------------------------
\* The literals of the test raised nothing, and what its program has done is done.
Preparation ==
  /\ stage \in {"as", "start", "prepare"} => ~Raises(config)
  /\ stage = "prepare" => Prepared(config, todo, m)

RInv == CInv /\ Preparation

\* The CONFIG of a test that is judged could be read, so its data are words.
LEMMA ConfigOfTest == CInv /\ stage # "idle" => DataOK(config)
<1> SUFFICES ASSUME CInv, stage # "idle" PROVE DataOK(config)
  OBVIOUS
<1>1. next \in 1..Len(TestSeq) /\ "config" \in DOMAIN test
  BY DEF CInv, AtTest
<1>2. TestSeq[next] \in DOMAIN File
  BY <1>1, TestSeqOK
<1>3. config = File[TestSeq[next]].config /\ "config" \in DOMAIN File[TestSeq[next]]
  BY <1>1 DEF config, test
<1> QED BY <1>2, <1>3, FilesOK DEF DataOK

LEMMA PreparationStep == RInv /\ [Next]_vars => Preparation'
<1> SUFFICES ASSUME RInv, [Next]_vars PROVE Preparation'
  OBVIOUS
<1> USE DEF RInv
<1>1. ASSUME stage \in {"start", "prepare"} PROVE DataOK(config) /\ ~Raises(config)
  BY <1>1, ConfigOfTest DEF Preparation
<1>2. CASE Open
  BY <1>2 DEF Open, Judge, Goto, Preparation
<1>3. CASE Build
  <2>1. CASE Raises(config)
    BY <1>3, <2>1 DEF Build, Traceback, Preparation, CInv
  <2>2. CASE ~Raises(config)
    <3>1. config' = config /\ stage' = "as"
      BY <1>3, <2>2 DEF Build, Goto, corpus, config, test
    <3> QED BY <2>2, <3>1 DEF Preparation
  <2> QED BY <2>1, <2>2
<1>4. CASE Assemble
  <2>1. stage' = "idle" \/ (stage' = "start" /\ config' = config)
    BY <1>4 DEF Assemble, Judge, Goto, corpus, config, test
  <2> QED BY <1>4, <2>1 DEF Assemble, Preparation
<1>5. CASE Start
  <2>1. /\ stage = "start" /\ config' = config /\ stage' = "prepare"
        /\ m' = MemAlloc(config, QemuEntry) /\ todo' = Items(config)
    BY <1>5 DEF Start, Goto, corpus, config, test
  <2> DEFINE c == config
  <2>2. DataOK(c) /\ ~Raises(c)
    BY <1>1, <2>1
  <2> HIDE DEF c
  <2>3. Prepared(c, Items(c), MemAlloc(c, QemuEntry))
    BY <2>2, PreparedFirst
  <2> QED BY <2>1, <2>2, <2>3 DEF Preparation, c
<1>6. CASE Prepare
  <2>1. PICK item \in Ready(todo) : m' = Do(config, item, m) /\ todo' = todo \ {item}
    BY <1>6 DEF Prepare
  <2>2. stage = "prepare" /\ stage' = "prepare" /\ config' = config
    BY <1>6 DEF Prepare, corpus, config, test
  <2> DEFINE c == config
  <2>3. DataOK(c) /\ ~Raises(c) /\ Prepared(c, todo, m)
    BY <1>1, <2>2 DEF Preparation
  <2> HIDE DEF c
  <2>4. Prepared(c, todo \ {item}, Do(c, item, m))
    <3>1. item \in todo
      BY DEF Ready
    <3>2. CASE item[1] \in {"mem", "tls"}
      BY <2>3, <3>1, <3>2, DataStep
    <3>3. CASE item[1] \notin {"mem", "tls"}
      BY <2>3, <3>3, EntryStep
    <3> QED BY <3>2, <3>3
  <2> QED BY <2>1, <2>2, <2>3, <2>4 DEF Preparation, c
<1>7. CASE Begin
  BY <1>7 DEF Begin, Goto, Preparation
<1>8. CASE Execute
  BY <1>8 DEF Execute, Preparation
<1>9. CASE Fault
  BY <1>9 DEF Fault, Goto, Preparation
<1>10. CASE Exit
  BY <1>10 DEF Exit, Goto, Preparation
<1>11. CASE Timeout
  BY <1>11 DEF Timeout, Judge, Preparation
<1>12. CASE Compare
  BY <1>12 DEF Compare, Traceback, Judge, Preparation
<1>13. CASE End
  BY <1>13 DEF End, Preparation
<1>14. CASE UNCHANGED vars
  BY <1>14 DEF vars, corpus, Preparation, config, test
<1> QED BY <1>2, <1>3, <1>4, <1>5, <1>6, <1>7, <1>8, <1>9, <1>10, <1>11, <1>12, <1>13, <1>14
        DEF Next, Runner, Guest

LEMMA PreparationInvariance == Safety => []RInv
<1>1. Init => RInv
  BY InitInv DEF Init, RInv, Preparation
<1>2. RInv /\ [Next]_vars => RInv'
  BY InvStep, PreparationStep DEF RInv
<1> QED BY <1>1, <1>2, PTL DEF Safety

\* In whatever order the entries of the CONFIG come, and whatever else the
\* program copies and loads, a word that no other overlaps is at its address
\* when the test begins.
THEOREM MemoryIsConfigured == Safety => []MemoryAsConfigured
<1>1. RInv => MemoryAsConfigured
  <2> SUFFICES ASSUME RInv, stage = "prepare", todo = {},
                      NEW w \in WordsOf(config), Alone(config, w)
               PROVE  Load(m, At64(w), 8) = Value(config, w)
    BY DEF MemoryAsConfigured
  <2>1. Copies(config, todo, m)
    BY DEF RInv, Preparation, Prepared
  <2> QED BY <2>1 DEF Copies
<1> QED BY <1>1, PreparationInvariance, PTL

\* Wherever the data of a CONFIG lie, and however long its entries are, the pages
\* the program has mapped hold every byte of them: while it copies, and while the
\* test runs.
THEOREM DataIsMapped == Safety => []DataMapped
<1>1. CInv => DataMapped
  <2> SUFFICES ASSUME CInv, stage \in {"prepare", "run"},
                      NEW w \in WordsOf(config), w[2] = "mem", NEW b \in At64(w)..(At64(w) + 7)
               PROVE  Mapped(config, b)
    BY DEF DataMapped
  <2> DEFINE c == config
  <2>1. DataOK(c)
    BY ConfigOfTest
  <2> HIDE DEF c
  <2>2. PICK kind \in {"mem", "tls"} : \E a \in DOMAIN EntriesOf(c, kind) :
               \E i \in 1..Len(EntriesOf(c, kind)[a]) : IsWord(c, w, kind, a, i)
    BY <2>1, AreWords DEF c
  <2>3. PICK a \in DOMAIN EntriesOf(c, kind) :
               \E i \in 1..Len(EntriesOf(c, kind)[a]) : IsWord(c, w, kind, a, i)
    BY <2>2
  <2>4. PICK i \in 1..Len(EntriesOf(c, kind)[a]) : IsWord(c, w, kind, a, i)
    BY <2>3
  <2>5. kind = "mem"
    BY <2>4 DEF IsWord
  <2>6. a \in DOMAIN MemData(c) /\ i \in 1..Len(MemData(c)[a]) /\ At64(w) = a + 8 * (i - 1)
    BY <2>4, <2>5 DEF IsWord, EntriesOf, BaseOf
  <2>7. /\ IsFiniteSet(DOMAIN MemData(c))
        /\ \A x \in DOMAIN MemData(c) : x \in Nat /\ Len(MemData(c)[x]) \in Nat
    BY <2>1 DEF DataOK
  <2>8. b \in a..(a + 8 * Len(MemData(c)[a]) - 1)
    BY <2>6, <2>7
  <2> QED BY <2>6, <2>7, <2>8, InPages DEF c
<1> QED BY <1>1, Invariance, PTL

\* For any corpus, a test begins on QEMU with the registers it begins with on the
\* JIT, but for those the program needs for itself.
THEOREM SameStart == Safety => []StartsAsOnDynarmic
<1>1. RInv => StartsAsOnDynarmic
  <2> SUFFICES ASSUME RInv, stage = "prepare", todo = {} PROVE StartsAsOnDynarmic
    BY DEF StartsAsOnDynarmic
  <2> DEFINE c == config
             d == DynarmicStart(c)
  <2>1. ~Raises(c) /\ Sets(c, {}, m) /\ Leaves(c, m)
    BY DEF RInv, Preparation, Prepared
  <2> HIDE DEF c
  <2>2. ASSUME NEW name \in Asked(c), NamesOf(c, Slot(name)) = {name}, Slot(name) \notin Between(c)
        PROVE  Read(m, Register[name]) = Read(d, Register[name])
    <3>1. Read(m, Register[name]) = Given(c, name)
      BY <2>1, <2>2 DEF Sets
    <3>2. Read(d, Register[name]) = Given(c, name)
      BY <2>1, <2>2, OnDynarmic
    <3> QED BY <3>1, <3>2
  <2>3. /\ \A n \in 0..30 : NamesOf(c, <<"x", n>>) = {} => d.x[n] = {}
        /\ \A n \in 0..31 : NamesOf(c, <<"v", n>>) = {} => d.v[n] = {}
    BY ZeroOnDynarmic
  <2> HIDE DEF d
  <2>4. /\ \A n \in 0..30 :
             NamesOf(c, <<"x", n>>) = {} /\ <<"x", n>> \notin Between(c) \cup Before(c) =>
               m.x[n] = d.x[n]
        /\ \A n \in 0..31 : NamesOf(c, <<"v", n>>) = {} => m.v[n] = d.v[n]
    BY <2>1, <2>3 DEF Leaves
  <2>5. \A name \in SetRegs(c) \cup SetVecs(c) :
          NamesOf(c, Slot(name)) = {name} /\ Slot(name) \notin Between(c) =>
            Read(m, Register[name]) = Read(d, Register[name])
    BY <2>2 DEF Asked
  <2> QED BY <2>4, <2>5 DEF StartsAsOnDynarmic, c, d
<1> QED BY <1>1, PreparationInvariance, PTL
-----------------------------------------------------------------------------
(* The guest. *)

\* The code of the test was assembled, so it is a program, and it is run from its
\* first instruction.
Running ==
  /\ stage \in {"start", "prepare", "run"} => Program(test.code, {brk, hang})
  /\ stage = "prepare" => m.pc = 1
  /\ stage = "run" => IsMachine(m) /\ m.pc \in DOMAIN test.code
  /\ stage = "compare" /\ ended = "brk" => IsMachine(m)

GInv == VInv /\ RInv /\ Running /\ JudgedAsOnDynarmic

LEMMA RunningStep == GInv /\ [Next]_vars => Running'
<1> SUFFICES ASSUME GInv, [Next]_vars PROVE Running'
  OBVIOUS
<1> USE DEF GInv
<1>1. CASE Open
  BY <1>1 DEF Open, Judge, Goto, Running
<1>2. CASE Build
  BY <1>2 DEF Build, Traceback, Goto, Running, VInv, Output
<1>3. CASE Assemble
  <2>1. CASE Assembles(test.code) /\ WrapperAssembles(config)
    <3>1. stage' = "start" /\ test' = test
      BY <1>3, <2>1 DEF Assemble, Goto, corpus, test
    <3>2. next \in 1..Len(TestSeq)
      BY <1>3 DEF Assemble, VInv, CInv, AtTest
    <3>3. TestSeq[next] \in DOMAIN File
      BY <3>2, TestSeqOK
    <3>4. Program(test.code, {brk, hang})
      BY <2>1, <3>3, CodeOK DEF test
    <3> QED BY <3>1, <3>4 DEF Running
  <2>2. CASE ~(Assembles(test.code) /\ WrapperAssembles(config))
    BY <1>3, <2>2 DEF Assemble, Judge, Running
  <2> QED BY <2>1, <2>2
<1>4. CASE Start
  <2>1. stage = "start" /\ stage' = "prepare" /\ test' = test /\ m' = MemAlloc(config, QemuEntry)
    BY <1>4 DEF Start, Goto, corpus, test
  <2>2. MemAlloc(config, QemuEntry).pc = 1
    BY DEF MemAlloc, Load64, Mmap, QemuEntry, Machine
  <2> QED BY <2>1, <2>2 DEF Running
<1>5. CASE Prepare
  <2>1. PICK item \in Ready(todo) : m' = Do(config, item, m)
    BY <1>5 DEF Prepare
  <2>2. stage = "prepare" /\ stage' = "prepare" /\ test' = test
    BY <1>5 DEF Prepare, corpus, test
  <2>3. IsMachine(m) /\ todo \subseteq Items(config)
    BY <2>2 DEF RInv, Preparation, Prepared, Typed
  <2>4. item \in Items(config)
    BY <2>3 DEF Ready
  <2>5. m'.pc = m.pc
    BY <2>1, <2>3, <2>4, PcKept
  <2> QED BY <2>2, <2>5 DEF Running
<1>6. CASE Begin
  <2>1. stage = "prepare" /\ stage' = "run" /\ test' = test /\ m' = m
    BY <1>6 DEF Begin, Goto, corpus, test
  <2>2. IsMachine(m)
    BY <2>1 DEF RInv, Preparation, Prepared, Typed
  <2>3. 1 \in DOMAIN test.code
    BY <2>1 DEF Running, Program
  <2> QED BY <2>1, <2>2, <2>3 DEF Running
<1>7. CASE Execute
  <2>1. /\ stage = "run" /\ stage' = "run" /\ test' = test /\ m' = Step(m, test.code)
        /\ test.code[m.pc] \notin {brk, hang}
    BY <1>7 DEF Execute, corpus, test
  <2> DEFINE code == test.code
  <2>2. Program(code, {brk, hang}) /\ IsMachine(m) /\ m.pc \in DOMAIN code
    BY <2>1 DEF Running
  <2>3. code[m.pc] \notin {brk, hang}
    BY <2>1
  <2> HIDE DEF code
  <2>4. IsMachine(Step(m, code)) /\ Step(m, code).pc \in DOMAIN code
    BY <2>2, <2>3, Stepped
  <2> QED BY <2>1, <2>2, <2>4 DEF Running, code
<1>8. CASE Fault
  BY <1>8 DEF Fault, Goto, Running
<1>9. CASE Exit
  BY <1>9 DEF Exit, Goto, Running
<1>10. CASE Timeout
  BY <1>10 DEF Timeout, Judge, Running
<1>11. CASE Compare
  BY <1>11 DEF Compare, Traceback, Judge, Running
<1>12. CASE End
  BY <1>12 DEF End, Running
<1>13. CASE UNCHANGED vars
  BY <1>13 DEF vars, corpus, Running, test
<1> QED BY <1>1, <1>2, <1>3, <1>4, <1>5, <1>6, <1>7, <1>8, <1>9, <1>10, <1>11, <1>12, <1>13
        DEF Next, Runner, Guest

\* The verdict on a guest that came to its brk.
LEMMA JudgedStep ==
  ASSUME GInv, Compare, stage' = "idle", ended = "brk"
  PROVE  JudgedAsOnDynarmic'
<1>1. /\ stage = "compare" /\ status = "running" /\ UNCHANGED <<m, ended, actual>>
      /\ actual = Actual(Lines(config, m)) /\ IsMachine(m)
  BY DEF Compare, GInv, VInv, Output, Running
<1>2. Judge(IF Errors(config, actual) = {} THEN "passed" ELSE "failed")
  BY <1>1 DEF Compare, Traceback
<1>3. next \in 1..Len(TestSeq) /\ next' - 1 = next /\ TestSeq[next] \in Tests
  BY <1>1, <1>2, Bounds DEF GInv, VInv, CInv, AtTest, Judge
<1> DEFINE c == config
<1>4. File[TestSeq[next' - 1]].config = c
  BY <1>3 DEF config, test
<1>5. report'[TestSeq[next' - 1]] = IF Errors(c, actual) = {} THEN "passed" ELSE "failed"
  <2>1. report' = [report EXCEPT ![TestSeq[next]] = IF Errors(config, actual) = {} THEN "passed" ELSE "failed"]
    BY <1>2 DEF Judge
  <2>2. report'[TestSeq[next]] = IF Errors(config, actual) = {} THEN "passed" ELSE "failed"
    BY <1>3, <2>1 DEF GInv, VInv, CInv, Shape
  <2> QED BY <1>3, <2>2
<1>6. actual = Actual(Lines(c, m))
  BY <1>1
<1> HIDE DEF c
<1> DEFINE passes == DynarmicPasses(c, m)
           unread == StatusAsExpected(c, m) /\ MemoryAsExpected(c, m)
<1>7. Comparable(c) =>
        /\ passes <=> Errors(c, Actual(Lines(c, m))) = {} /\ unread
        /\ Unread \cap DOMAIN c = {} => (Errors(c, Actual(Lines(c, m))) = {} <=> passes)
  BY <1>1, SameVerdict
<1>8. Comparable(c) =>
        /\ passes <=> report'[TestSeq[next' - 1]] = "passed" /\ unread
        /\ Unread \cap DOMAIN c = {} => (report'[TestSeq[next' - 1]] = "passed" <=> passes)
  BY <1>5, <1>6, <1>7
<1>9. m' = m
  BY <1>1
<1> QED BY <1>4, <1>8, <1>9, Zenon DEF JudgedAsOnDynarmic

LEMMA JudgementStep == GInv /\ [Next]_vars => JudgedAsOnDynarmic'
<1> SUFFICES ASSUME GInv, [Next]_vars PROVE JudgedAsOnDynarmic'
  OBVIOUS
<1> USE DEF GInv
<1>1. ASSUME stage' # "idle" \/ ended' # "brk" PROVE JudgedAsOnDynarmic'
  BY <1>1 DEF JudgedAsOnDynarmic
<1>2. ASSUME UNCHANGED <<next, report, stage, ended, m>> PROVE JudgedAsOnDynarmic'
  BY <1>2 DEF JudgedAsOnDynarmic
<1>3. CASE Open
  BY <1>1, <1>3 DEF Open
<1>4. CASE Build
  BY <1>1, <1>4 DEF Build, Traceback, Goto
<1>5. CASE Assemble \/ Timeout
  <2>1. ended = "none" /\ ended' = ended
    BY <1>5 DEF Assemble, Timeout, VInv, Output
  <2> QED BY <1>1, <2>1
<1>6. CASE Start \/ Begin \/ Fault \/ Exit
  BY <1>1, <1>6 DEF Start, Begin, Fault, Exit, Goto
<1>7. CASE Prepare \/ Execute
  BY <1>1, <1>7 DEF Prepare, Execute
<1>8. CASE Compare
  <2>1. ended' = ended
    BY <1>8 DEF Compare
  <2> QED BY <1>1, <1>8, <2>1, JudgedStep
<1>9. CASE End \/ UNCHANGED vars
  BY <1>2, <1>9 DEF End, vars, corpus
<1> QED BY <1>3, <1>4, <1>5, <1>6, <1>7, <1>8, <1>9 DEF Next, Runner, Guest

LEMMA GuestInvariance == Safety => []GInv
<1>1. Init => GInv
  BY InitInv, VInvInit DEF Init, GInv, VInv, RInv, Preparation, Running, JudgedAsOnDynarmic
<1>2. VInv /\ RInv /\ [Next]_vars => VInv' /\ RInv'
  BY InvStep, VInvStep, PreparationStep DEF VInv, RInv
<1>3. GInv /\ [Next]_vars => GInv'
  BY <1>2, RunningStep, JudgementStep DEF GInv
<1> QED BY <1>1, <1>3, PTL DEF Safety

\* Whatever the corpus and the guests, main is at one of its tests or at their
\* end; a guest is at an instruction of its test, with words in its registers;
\* and what was read of the output of the last guest are words.
THEOREM TypeCorrect == Safety => []TypeOK
<1>1. VInv => \A name \in DOMAIN actual : actual[name] \subseteq 0..127
  BY DEF VInv, Output
<1>2. GInv => (stage = "run" => AtInstruction(m, test.code))
  BY DEF GInv, Running, AtInstruction, IsMachine
<1> QED BY <1>1, <1>2, ControlCorrect, VerdictInvariance, GuestInvariance, PTL DEF TypeOK

\* For any corpus and whatever a test computes, RunAsmTest passes a guest that came
\* to its brk if and only if the oracle did and its flags, FPCR, FPSR and memory
\* are what the CONFIG states of them, the oracle reading none of that; if both
\* can compare what it states.  Neither a pass nor a failure is an artefact of the
\* oracle's own printing and comparing.
THEOREM JudgedAlike == Safety => []JudgedAsOnDynarmic
<1>1. GInv => JudgedAsOnDynarmic
  BY DEF GInv
<1> QED BY <1>1, GuestInvariance, PTL

=============================================================================
