--------------------------- MODULE AsmCorpusProof ---------------------------
(***************************************************************************)
(* For any corpus and any number of sessions: the JIT runs only freshly    *)
(* assembled code, only killed processes leave temporary files, the        *)
(* summary adds up, and the driver keeps the promise of Corpus.            *)
(***************************************************************************)
EXTENDS AsmCorpus, FiniteSetTheorems, TLAPS

\* A process runs for one of the tests of a driver that is not done.
AtTest == stage # "none" => next \in 1..Len(TestSeq) /\ status = "running"

\* What each tool reads was written by the tool before it, in this session.
Fresh ==
  /\ stage = "ld" => files[test][".o"] = session
  /\ stage = "objcopy" => files[test][".elf"] = session
  /\ stage = "load" => files[test][".bin"] = session
  /\ FreshCode

\* A test never killed has at most the file that the next tool reads.
Held == {<<"ld", ".o">>, <<"objcopy", ".elf">>, <<"load", ".bin">>}
Litter ==
  \A t \in Tests \ killed : \A s \in Suffix :
    files[t][s] # 0 => t = test /\ <<stage, s>> \in Held

\* The tests before next have their verdict, the others have none.
Reported ==
  \A i \in 1..Len(TestSeq) : report[TestSeq[i]] = "none" <=> i >= next

\* The status of a driver that is done.
Judged ==
  status # "running" =>
    /\ next = Len(TestSeq) + 1
    /\ status = "failure" <=> Tests = {} \/ \E t \in Tests : report[t] = "failed"

-----------------------------------------------------------------------------
\* The bounds of the constants.
LEMMA Bounds ==
  /\ Len(TestSeq) \in Nat /\ MaxSessions \in Nat /\ MaxSessions >= 1
  /\ 0 \in 0..MaxSessions /\ 1 \in 1..MaxSessions /\ 1 \in 1..(Len(TestSeq) + 1)
  /\ 1..MaxSessions \subseteq 0..MaxSessions
<1>1. Len(TestSeq) \in Nat
  BY TestSeqOK
<1>2. MaxSessions \in Nat /\ MaxSessions >= 1
  BY CorpusOK
<1> QED BY <1>1, <1>2

\* The test the driver is at.
LEMMA TestType == ASSUME next \in 1..Len(TestSeq) PROVE test \in Tests
  BY TestSeqOK DEF test

\* The exits of the process leave stage "exited" and a printable result.
LEMMA ExitType ==
  ASSUME Fail \/ Throw \/ Abort \/ Return(TRUE, known)
  PROVE  /\ stage' = "exited"
         /\ exited' \in [out : {"", "PASSED", "FAILED", "KNOWN FAILURE"}, code : {0, 1, -6}]
<1> DEFINE Exited == [out : {"", "PASSED", "FAILED", "KNOWN FAILURE"}, code : {0, 1, -6}]
<1>1. /\ [out |-> "PASSED", code |-> 0] \in Exited
      /\ [out |-> "KNOWN FAILURE", code |-> 0] \in Exited
      /\ [out |-> "FAILED", code |-> 1] \in Exited
      /\ [out |-> "", code |-> -6] \in Exited
  OBVIOUS
<1> HIDE DEF Exited
<1>2. stage' = "exited" /\ exited' \in Exited
  BY <1>1, Zenon DEF Fail, Throw, Abort, Return
<1> QED BY <1>2 DEF Exited

\* A file of the current test changes, and no other.
LEMMA PlaceType ==
  ASSUME files \in [Tests -> [Suffix -> 0..MaxSessions]], test \in Tests,
         NEW s \in Suffix, NEW n \in 0..MaxSessions, Place(s, n)
  PROVE  /\ files' \in [Tests -> [Suffix -> 0..MaxSessions]]
         /\ files'[test] = [files[test] EXCEPT ![s] = n]
         /\ \A t \in Tests \ {test} : files'[t] = files[t]
  BY DEF Place

LEMMA InitType == Init => TypeOK /\ AtTest
<1> SUFFICES ASSUME Init PROVE TypeOK /\ AtTest
  OBVIOUS
<1>1. 1 \in 1..MaxSessions /\ 0 \in 0..MaxSessions /\ 1 \in 1..(Len(TestSeq) + 1)
  BY Bounds
<1>2. files \in [Tests -> [Suffix -> 0..MaxSessions]]
  BY <1>1 DEF Init, NoFiles
<1>3. count \in [Verdict -> Nat] /\ report \in [Tests -> Verdict \cup {"none"}]
  BY DEF Init
<1> QED BY <1>1, <1>2, <1>3 DEF Init, TypeOK, AtTest

\* The stages of one step of the runner, with what it does to the files.
RunnerStep ==
  /\ UNCHANGED <<driver, killed>>
  /\ stage \in Stages /\ stage' \in Stages \cup {"exited"}
  /\ known' \in BOOLEAN
  /\ exited' \in [out : {"", "PASSED", "FAILED", "KNOWN FAILURE"}, code : {0, 1, -6}]
  /\ files' \in [Tests -> [Suffix -> 0..MaxSessions]]
  /\ loaded' \in 0..MaxSessions

LEMMA RunnerType == ASSUME TypeOK, AtTest, Runner PROVE RunnerStep
<1>1. stage # "none" => test \in Tests
  BY TestType DEF AtTest
<1>2. 0 \in 0..MaxSessions /\ session \in 0..MaxSessions
  BY Bounds DEF TypeOK
<1>3. files \in [Tests -> [Suffix -> 0..MaxSessions]] /\ loaded \in 0..MaxSessions
  BY DEF TypeOK
<1>4. known \in BOOLEAN /\ exited \in [out : {"", "PASSED", "FAILED", "KNOWN FAILURE"}, code : {0, 1, -6}]
  BY DEF TypeOK
<1>5. CASE Parse
  <2>1. UNCHANGED <<driver, files, loaded, killed>> /\ stage = "parse"
    BY <1>5 DEF Parse
  <2>2. known' \in BOOLEAN
    <3>1. (test \in KnownFailure) \in BOOLEAN
      OBVIOUS
    <3>2. known' = (test \in KnownFailure) \/ known' = known
      BY <1>5, Zenon DEF Parse
    <3> QED BY <1>4, <3>1, <3>2, Zenon
  <2>3. Goto("as") \/ Fail \/ Throw
    BY <1>5, Zenon DEF Parse
  <2> QED BY <1>3, <1>4, <2>1, <2>2, <2>3, ExitType DEF Goto, RunnerStep, Stages
<1>6. CASE Assemble
  <2>1. PICK n \in 0..MaxSessions : Place(".o", n)
    BY <1>1, <1>2, <1>3, <1>6 DEF Assemble, Suffix
  <2>2. files' \in [Tests -> [Suffix -> 0..MaxSessions]]
    BY <1>1, <1>3, <1>6, <2>1, PlaceType DEF Assemble, Suffix
  <2> QED BY <1>3, <1>4, <1>6, <2>2, ExitType DEF Assemble, Goto, RunnerStep, Stages
<1>7. ASSUME NEW s \in {"ld", "objcopy"}, NEW input \in Suffix, NEW output \in Suffix,
             NEW then \in Stages, Convert(s, input, output, then)
      PROVE  RunnerStep
  <2>1. files[test][input] \in 0..MaxSessions /\ files[test][output] \in 0..MaxSessions
    BY <1>1, <1>3, <1>7 DEF Convert
  <2>2. PICK n : /\ n \in {0, files[test][input], files[test][output]}
                 /\ files' = [files EXCEPT ![test][output] = n, ![test][input] = 0]
    BY <1>7, Zenon DEF Convert
  <2>3. n \in 0..MaxSessions
    BY <1>2, <2>1, <2>2
  <2>4. files' \in [Tests -> [Suffix -> 0..MaxSessions]]
    BY <1>1, <1>2, <1>3, <2>2, <2>3
  <2> QED BY <1>3, <1>4, <1>7, <2>4, ExitType DEF Convert, Goto, RunnerStep, Stages
<1>8. CASE Link \/ Objcopy
  BY <1>7, <1>8 DEF Link, Objcopy, Suffix, Stages
<1>9. CASE Load
  <2>1. files' \in [Tests -> [Suffix -> 0..MaxSessions]]
    BY <1>1, <1>2, <1>3, <1>9, PlaceType DEF Load, Suffix
  <2>2. loaded' \in 0..MaxSessions
    BY <1>1, <1>3, <1>9 DEF Load, Suffix
  <2> QED BY <1>4, <1>9, <2>1, <2>2, ExitType DEF Load, Goto, RunnerStep, Stages
<1>10. CASE Setup \/ Run \/ Check
  BY <1>3, <1>4, <1>10, ExitType DEF Setup, Run, Check, Goto, RunnerStep, Stages
<1> QED BY <1>5, <1>6, <1>8, <1>9, <1>10 DEF Runner

\* What a verdict does to the driver.
LEMMA JudgeType ==
  ASSUME TypeOK, AtTest, stage # "none", NEW v \in Verdict, Judge(v)
  PROVE  /\ next' = next + 1 /\ next' \in 1..(Len(TestSeq) + 1)
         /\ stage' = "none" /\ UNCHANGED <<session, status, known, exited, loaded>>
         /\ report' = [report EXCEPT ![test] = v]
         /\ report' \in [Tests -> Verdict \cup {"none"}]
         /\ count' = [count EXCEPT ![v] = @ + 1] /\ count' \in [Verdict -> Nat]
<1>1. next \in 1..Len(TestSeq) /\ Len(TestSeq) \in Nat
  BY Bounds DEF AtTest
<1>2. next + 1 \in 1..(Len(TestSeq) + 1)
  BY <1>1
<1>3. report \in [Tests -> Verdict \cup {"none"}] /\ count \in [Verdict -> Nat]
  BY DEF TypeOK
<1>4. [report EXCEPT ![test] = v] \in [Tests -> Verdict \cup {"none"}]
  BY <1>3
<1>5. [count EXCEPT ![v] = @ + 1] \in [Verdict -> Nat]
  BY <1>3
<1> QED BY <1>2, <1>4, <1>5 DEF Judge

LEMMA VerdictType ==
  ASSUME NEW out, NEW code PROVE status_from_output(out, code) \in Verdict
  BY DEF status_from_output, Verdict

LEMMA TypeStep == TypeOK /\ AtTest /\ [Next]_vars => TypeOK' /\ AtTest'
<1> SUFFICES ASSUME TypeOK, AtTest, [Next]_vars PROVE TypeOK' /\ AtTest'
  OBVIOUS
<1>1. CASE Runner
  <2>1. RunnerStep
    BY <1>1, RunnerType
  <2> QED BY <2>1 DEF RunnerStep, TypeOK, AtTest, driver, Stages
<1>2. CASE Spawn
  <2>1. next \in 1..Len(TestSeq)
    <3>1. next \in 1..(Len(TestSeq) + 1) /\ next <= Len(TestSeq)
      BY <1>2 DEF Spawn, TypeOK
    <3> QED BY <3>1, Bounds
  <2>2. 0 \in 0..MaxSessions
    BY Bounds
  <2> QED BY <1>2, <2>1, <2>2 DEF Spawn, TypeOK, AtTest, driver, Stages
<1>3. CASE Collect
  BY <1>3, JudgeType, VerdictType DEF Collect, TypeOK, AtTest
<1>4. CASE TimeoutExpired
  <2>1. test \in Tests
    BY <1>4, TestType DEF TimeoutExpired, AtTest, Stages
  <2>2. files \in [Tests -> [Suffix -> 0..MaxSessions]] /\ session \in 0..MaxSessions
    BY Bounds DEF TypeOK
  <2>3. files' \in [Tests -> [Suffix -> 0..MaxSessions]]
    <3>1. ASSUME NEW s \in Suffix, NEW n \in 0..MaxSessions,
                 \E m \in {n, files[test][s]} : Place(s, m)
          PROVE  files' \in [Tests -> [Suffix -> 0..MaxSessions]]
      <4>1. PICK m \in {n, files[test][s]} : Place(s, m)
        BY <3>1
      <4>2. m \in 0..MaxSessions
        BY <2>1, <2>2, <4>1
      <4> QED BY <2>1, <2>2, <4>1, <4>2, PlaceType
    <3>2. files[test][".o"] \in 0..MaxSessions /\ files[test][".elf"] \in 0..MaxSessions
      BY <2>1, <2>2 DEF Suffix
    <3>3. \/ UNCHANGED files
          \/ \E s \in Suffix, n \in 0..MaxSessions : \E m \in {n, files[test][s]} : Place(s, m)
      BY <1>4, <2>2, <3>2 DEF TimeoutExpired, Orphan, Suffix
    <3> QED BY <2>2, <3>1, <3>3, Zenon
  <2>4. Judge("failed") /\ "failed" \in Verdict /\ stage # "none" /\ killed' = killed \cup {test}
    BY <1>4, Zenon DEF TimeoutExpired, Verdict, Stages
  <2>5. killed' \subseteq Tests
    <3>1. killed \subseteq Tests
      BY DEF TypeOK
    <3> QED BY <2>1, <2>4, <3>1
  <2> HIDE DEF Judge
  <2> QED BY <2>3, <2>4, <2>5, JudgeType, Zenon DEF TypeOK, AtTest
<1>5. CASE End
  <2>1. stage = "none"
    BY <1>5, Bounds DEF End, AtTest
  <2>2. status' \in {"running", "success", "failure"}
    BY <1>5 DEF End
  <2> QED BY <1>5, <2>1, <2>2 DEF End, TypeOK, AtTest
<1>6. CASE Restart
  <2>1. session' \in 1..MaxSessions /\ 1 \in 1..(Len(TestSeq) + 1)
    <3>1. session \in 1..MaxSessions /\ session < MaxSessions /\ session' = session + 1
      BY <1>6 DEF Restart, TypeOK
    <3> QED BY <3>1, Bounds
  <2>2. count' \in [Verdict -> Nat] /\ report' \in [Tests -> Verdict \cup {"none"}]
    BY <1>6 DEF Restart
  <2>3. stage = "none"
    BY <1>6 DEF Restart, AtTest
  <2> QED BY <1>6, <2>1, <2>2, <2>3 DEF Restart, TypeOK, AtTest
<1>7. CASE UNCHANGED vars
  BY <1>7 DEF vars, driver, TypeOK, AtTest
<1> QED BY <1>1, <1>2, <1>3, <1>4, <1>5, <1>6, <1>7 DEF Next, Driver

-----------------------------------------------------------------------------
\* What the runner reads was assembled in this session.
LEMMA FreshInit == Init => Fresh
  BY DEF Init, Fresh, FreshCode

LEMMA FreshStep == TypeOK /\ AtTest /\ Fresh /\ [Next]_vars => Fresh'
<1> SUFFICES ASSUME TypeOK, AtTest, Fresh, [Next]_vars PROVE Fresh'
  OBVIOUS
<1>1. /\ stage # "none" => test \in Tests
      /\ files \in [Tests -> [Suffix -> 0..MaxSessions]]
  BY TestType DEF AtTest, TypeOK
<1>2. UNCHANGED driver => test' = test /\ session' = session
  BY DEF driver, test
<1>3. ASSUME stage' \notin {"ld", "objcopy", "load", "setup", "run", "check"} PROVE Fresh'
  BY <1>3 DEF Fresh, FreshCode
<1>4. CASE Parse
  BY <1>3, <1>4, ExitType, Zenon DEF Parse, Goto
<1>5. CASE Assemble
  <2>1. CASE Place(".o", session) /\ Goto("ld")
    BY <1>1, <1>2, <1>5, <2>1 DEF Assemble, Goto, Place, Fresh, FreshCode, Suffix
  <2>2. CASE Fail
    BY <1>3, <2>2, ExitType
  <2> QED BY <1>5, <2>1, <2>2 DEF Assemble
<1>6. ASSUME NEW s, NEW input \in Suffix, NEW output \in Suffix, input # output,
             NEW then, Convert(s, input, output, then), stage # "none"
      PROVE  \/ stage' = "exited"
             \/ stage' = then /\ files'[test][output] = files[test][input]
  <2>1. CASE /\ files' = [files EXCEPT ![test][output] = files[test][input], ![test][input] = 0]
             /\ Goto(then)
    BY <1>1, <1>6, <2>1 DEF Goto
  <2>2. CASE Fail
    BY <2>2, ExitType
  <2> QED BY <1>6, <2>1, <2>2, Zenon DEF Convert
<1>7. CASE Link
  <2>1. files[test][".o"] = session /\ stage = "ld" /\ UNCHANGED driver
    BY <1>7 DEF Link, Convert, Fresh
  <2>2. stage' = "exited" \/ (stage' = "objcopy" /\ files'[test][".elf"] = session)
    BY <1>6, <1>7, <2>1 DEF Link, Suffix
  <2> QED BY <1>2, <1>3, <2>1, <2>2 DEF Fresh, FreshCode
<1>8. CASE Objcopy
  <2>1. files[test][".elf"] = session /\ stage = "objcopy" /\ UNCHANGED driver
    BY <1>8 DEF Objcopy, Convert, Fresh
  <2>2. stage' = "exited" \/ (stage' = "load" /\ files'[test][".bin"] = session)
    BY <1>6, <1>8, <2>1 DEF Objcopy, Suffix
  <2> QED BY <1>2, <1>3, <2>1, <2>2 DEF Fresh, FreshCode
<1>9. CASE Load
  <2>1. loaded' = session /\ UNCHANGED driver
    BY <1>9 DEF Load, Fresh
  <2>2. stage' = "setup" \/ stage' = "exited"
    BY <1>9, ExitType DEF Load, Goto
  <2> QED BY <1>2, <1>3, <2>1, <2>2 DEF Fresh, FreshCode
<1>10. CASE Setup \/ Run \/ Check
  <2>1. loaded = session /\ UNCHANGED <<driver, loaded>>
    BY <1>10 DEF Setup, Run, Check, Fresh, FreshCode
  <2>2. stage' \in {"run", "check", "exited"}
    BY <1>10, ExitType DEF Setup, Run, Check, Goto, Throw, Return
  <2> QED BY <1>2, <2>1, <2>2 DEF Fresh, FreshCode
<1>11. CASE Driver \/ Restart
  <2>1. stage' \in {"parse", "none"}
    BY <1>11, Bounds DEF Driver, Spawn, Collect, TimeoutExpired, Judge, End, Restart, AtTest
  <2> QED BY <1>3, <2>1
<1>12. CASE UNCHANGED vars
  BY <1>2, <1>12 DEF vars, Fresh, FreshCode
<1> QED BY <1>4, <1>5, <1>7, <1>8, <1>9, <1>10, <1>11, <1>12 DEF Next, Runner

-----------------------------------------------------------------------------
\* Where the temporary files are.
LEMMA LitterInit == Init => Litter
<1> SUFFICES ASSUME Init, NEW t \in Tests, NEW s \in Suffix PROVE files[t][s] = 0
  BY DEF Litter
<1>1. files[t] = NoFiles
  BY DEF Init
<1> QED BY <1>1 DEF NoFiles

\* A step that stays at its test, with the files of that test as given.
LEMMA LitterAtTest ==
  ASSUME TypeOK, AtTest, Litter, stage # "none", UNCHANGED <<next, killed>>,
         \A t \in Tests \ {test} : files'[t] = files[t],
         test \notin killed =>
           \A s \in Suffix : files'[test][s] # 0 => <<stage', s>> \in Held
  PROVE  Litter'
<1>1. test' = test
  BY DEF test
<1>2. ASSUME NEW t \in Tests \ killed, NEW s \in Suffix, files'[t][s] # 0
      PROVE  t = test /\ <<stage', s>> \in Held
  <2>1. CASE t = test
    BY <1>2, <2>1
  <2>2. CASE t # test
    BY <1>2, <2>2 DEF Litter
  <2> QED BY <2>1, <2>2
<1> QED BY <1>1, <1>2 DEF Litter, Held

LEMMA LitterRunner == ASSUME TypeOK, AtTest, Litter, Runner PROVE Litter'
<1>1. /\ stage # "none" /\ test \in Tests /\ UNCHANGED <<next, killed>>
      /\ files \in [Tests -> [Suffix -> 0..MaxSessions]]
  <2>1. RunnerStep
    BY RunnerType
  <2> QED BY <2>1, TestType DEF RunnerStep, AtTest, TypeOK, driver, Stages
<1>2. test \notin killed => \A s \in Suffix : files[test][s] # 0 => <<stage, s>> \in Held
  BY <1>1 DEF Litter
<1>3. ASSUME UNCHANGED files, test \notin killed => \A s \in Suffix : files[test][s] = 0
      PROVE  Litter'
  BY <1>1, <1>3, LitterAtTest
<1>4. CASE Parse \/ Setup \/ Run \/ Check
  <2>1. UNCHANGED files /\ stage \in {"parse", "setup", "run", "check"}
    BY <1>4 DEF Parse, Setup, Run, Check
  <2> QED BY <1>2, <1>3, <2>1 DEF Held
<1>5. CASE Assemble
  <2>1. stage = "as" /\ (test \notin killed => \A s \in Suffix : files[test][s] = 0)
    BY <1>2, <1>5 DEF Assemble, Held
  <2>2. CASE Place(".o", session) /\ Goto("ld")
    BY <1>1, <2>1, <2>2, LitterAtTest DEF Place, Goto, Held, Suffix
  <2>3. CASE \E n \in {0, files[test][".o"]} : Place(".o", n) /\ Fail
    BY <1>1, <2>1, <2>3, LitterAtTest DEF Place, Suffix
  <2> QED BY <1>5, <2>2, <2>3 DEF Assemble
<1>6. ASSUME NEW s, NEW input \in Suffix, NEW output \in Suffix, input # output, NEW then,
             Convert(s, input, output, then),
             test \notin killed => \A x \in Suffix \ {input} : files[test][x] = 0,
             <<then, output>> \in Held
      PROVE  Litter'
  <2>1. CASE /\ files' = [files EXCEPT ![test][output] = files[test][input], ![test][input] = 0]
             /\ Goto(then)
    BY <1>1, <1>6, <2>1, LitterAtTest DEF Goto
  <2>2. CASE \E n \in {0, files[test][output]} :
               /\ files' = [files EXCEPT ![test][output] = n, ![test][input] = 0]
               /\ Fail
    BY <1>1, <1>6, <2>2, LitterAtTest
  <2> QED BY <1>6, <2>1, <2>2, Zenon DEF Convert
<1>7. CASE Link
  <2>1. stage = "ld" /\ Convert("ld", ".o", ".elf", "objcopy")
    BY <1>7 DEF Link, Convert
  <2> QED BY <1>2, <1>6, <2>1 DEF Held, Suffix
<1>8. CASE Objcopy
  <2>1. stage = "objcopy" /\ Convert("objcopy", ".elf", ".bin", "load")
    BY <1>8 DEF Objcopy, Convert
  <2> QED BY <1>2, <1>6, <2>1 DEF Held, Suffix
<1>9. CASE Load
  <2>1. test \notin killed => \A s \in Suffix : files'[test][s] = 0
    BY <1>1, <1>2, <1>9 DEF Load, Place, Held, Suffix
  <2>2. \A t \in Tests \ {test} : files'[t] = files[t]
    BY <1>1, <1>9 DEF Load, Place
  <2> QED BY <1>1, <2>1, <2>2, LitterAtTest
<1> QED BY <1>4, <1>5, <1>7, <1>8, <1>9 DEF Runner

\* A test whose process has ended by itself has no file.
LEMMA LitterStep == TypeOK /\ AtTest /\ Litter /\ [Next]_vars => Litter'
<1> SUFFICES ASSUME TypeOK, AtTest, Litter, [Next]_vars PROVE Litter'
  OBVIOUS
<1>1. ASSUME stage \in {"none", "exited"}, UNCHANGED <<files, killed>> PROVE Litter'
  BY <1>1 DEF Litter, Held
<1>2. CASE Spawn \/ Collect \/ End \/ Restart
  <2>1. UNCHANGED <<files, killed>>
    BY <1>2 DEF Spawn, Collect, End, Restart
  <2>2. stage \in {"none", "exited"}
    BY <1>2, Bounds DEF Spawn, Collect, End, Restart, AtTest
  <2> QED BY <1>1, <2>1, <2>2
<1>3. CASE TimeoutExpired
  <2>1. /\ test \in Tests /\ killed' = killed \cup {test}
        /\ files \in [Tests -> [Suffix -> 0..MaxSessions]]
    BY <1>3, TestType DEF TimeoutExpired, Stages, AtTest, TypeOK
  <2>2. \A t \in Tests \ {test} : files'[t] = files[t]
    BY <1>3, <2>1 DEF TimeoutExpired, Orphan, Place
  <2>3. ASSUME NEW t \in Tests \ killed', NEW s \in Suffix PROVE files'[t][s] = 0
    BY <2>1, <2>2, <2>3 DEF Litter
  <2> QED BY <2>3 DEF Litter
<1>4. CASE UNCHANGED vars
  BY <1>4 DEF vars, driver, test, Litter, Held
<1> QED BY <1>2, <1>3, <1>4, LitterRunner DEF Next, Driver

-----------------------------------------------------------------------------
\* The verdicts and their totals.
LEMMA ReportInit == Init => Reported /\ SummaryAddsUp /\ Judged
<1> SUFFICES ASSUME Init PROVE Reported /\ SummaryAddsUp /\ Judged
  OBVIOUS
<1>1. \A i \in 1..Len(TestSeq) : report[TestSeq[i]] = "none" /\ i >= next
  <2> TAKE i \in 1..Len(TestSeq)
  <2>1. TestSeq[i] \in Tests /\ i >= 1
    BY TestSeqOK, Bounds
  <2> QED BY <2>1 DEF Init
<1>2. ASSUME NEW v \in Verdict PROVE count[v] = Cardinality({t \in Tests : report[t] = v})
  <2>1. {t \in Tests : report[t] = v} = {}
    BY DEF Init, Verdict
  <2> QED BY <2>1, FS_EmptySet DEF Init
<1> QED BY <1>1, <1>2 DEF Init, Reported, SummaryAddsUp, Judged

\* A verdict is the first for its test.
LEMMA VerdictStep ==
  ASSUME TypeOK, AtTest, Reported, SummaryAddsUp, Judged,
         stage # "none", NEW v \in Verdict, Judge(v)
  PROVE  /\ report[test] = "none"
         /\ Reported' /\ SummaryAddsUp' /\ Judged'
<1>1. /\ next \in 1..Len(TestSeq) /\ test \in Tests /\ status = "running"
      /\ next' = next + 1 /\ status' = status
      /\ report' = [report EXCEPT ![test] = v]
      /\ count' = [count EXCEPT ![v] = @ + 1]
  BY TestType DEF AtTest, Judge
<1>2. report \in [Tests -> Verdict \cup {"none"}] /\ count \in [Verdict -> Nat]
  BY DEF TypeOK
<1>3. report[test] = "none"
  BY <1>1, Bounds DEF Reported, test
<1>4. Reported'
  <2> SUFFICES ASSUME NEW i \in 1..Len(TestSeq)
               PROVE  report'[TestSeq[i]] = "none" <=> i >= next'
    BY DEF Reported
  <2>1. TestSeq[i] \in Tests
    BY TestSeqOK
  <2>2. CASE i = next
    BY <1>1, <1>2, <2>2, Bounds DEF test, Verdict
  <2>3. CASE i # next
    <3>1. TestSeq[i] # test
      BY <1>1, <2>3, TestSeqOK DEF test
    <3>2. report'[TestSeq[i]] = report[TestSeq[i]]
      BY <1>1, <1>2, <2>1, <3>1
    <3>3. i >= next <=> i >= next'
      BY <1>1, <2>3, Bounds
    <3> QED BY <3>2, <3>3 DEF Reported
  <2> QED BY <2>2, <2>3
<1>5. SummaryAddsUp'
  <2> SUFFICES ASSUME NEW w \in Verdict
               PROVE  count'[w] = Cardinality({t \in Tests : report'[t] = w})
    BY DEF SummaryAddsUp
  <2> DEFINE S == {t \in Tests : report[t] = w}
  <2>1. IsFiniteSet(S) /\ count[w] = Cardinality(S)
    BY TestSeqOK, FS_Subset DEF SummaryAddsUp
  <2>2. test \notin S
    BY <1>3 DEF Verdict
  <2>3. CASE w = v
    <3>1. {t \in Tests : report'[t] = w} = S \cup {test}
      BY <1>1, <1>2, <2>3
    <3>2. Cardinality(S \cup {test}) = Cardinality(S) + 1
      <4> HIDE DEF S
      <4> QED BY <2>1, <2>2, FS_AddElement
    <3> QED BY <1>1, <1>2, <2>1, <2>3, <3>1, <3>2
  <2>4. CASE w # v
    <3>1. {t \in Tests : report'[t] = w} = S
      BY <1>1, <1>2, <1>3, <2>4 DEF Verdict
    <3> QED BY <1>1, <1>2, <2>1, <2>4, <3>1
  <2> QED BY <2>3, <2>4
<1>6. Judged'
  BY <1>1 DEF Judged
<1> QED BY <1>3, <1>4, <1>5, <1>6

\* What the driver's last step finds.
LEMMA EndStep ==
  ASSUME TypeOK, Reported, SummaryAddsUp, End
  PROVE  /\ next = Len(TestSeq) + 1
         /\ \A t \in Tests : report[t] # "none"
         /\ status' = IF Tests = {} \/ \E t \in Tests : report[t] = "failed"
                      THEN "failure" ELSE "success"
<1>1. next = Len(TestSeq) + 1
  <2>1. next \in 1..(Len(TestSeq) + 1) /\ next > Len(TestSeq)
    BY DEF TypeOK, End
  <2> QED BY <2>1, Bounds
<1>2. \A t \in Tests : report[t] # "none"
  <2> TAKE t \in Tests
  <2>1. PICK i \in 1..Len(TestSeq) : TestSeq[i] = t
    BY TestSeqOK
  <2>2. ~ (i >= next)
    BY <1>1, Bounds
  <2> QED BY <2>1, <2>2 DEF Reported
<1>3. Len(TestSeq) = 0 <=> Tests = {}
  <2>1. ASSUME Len(TestSeq) = 0 PROVE Tests = {}
    BY <2>1, TestSeqOK
  <2>2. ASSUME Tests = {} PROVE Len(TestSeq) = 0
    BY <2>2, TestSeqOK, Bounds
  <2> QED BY <2>1, <2>2
<1>4. count["failed"] > 0 <=> \E t \in Tests : report[t] = "failed"
  <2> DEFINE S == {t \in Tests : report[t] = "failed"}
  <2>1. IsFiniteSet(S) /\ count["failed"] = Cardinality(S)
    BY TestSeqOK, FS_Subset DEF SummaryAddsUp, Verdict
  <2>2. Cardinality(S) > 0 <=> S # {}
    <3> HIDE DEF S
    <3> QED BY <2>1, FS_EmptySet, FS_CardinalityType
  <2> QED BY <2>1, <2>2
<1> QED BY <1>1, <1>2, <1>3, <1>4 DEF End

RInv == TypeOK /\ AtTest /\ Reported /\ SummaryAddsUp /\ Judged

LEMMA ReportStep ==
  ASSUME RInv, [Next]_vars PROVE Reported' /\ SummaryAddsUp' /\ Judged'
<1> USE DEF RInv
<1>1. ASSUME UNCHANGED driver PROVE Reported' /\ SummaryAddsUp' /\ Judged'
  BY <1>1 DEF driver, Reported, SummaryAddsUp, Judged
<1>2. CASE Runner \/ Spawn \/ UNCHANGED vars
  <2>1. UNCHANGED driver
    BY <1>2, RunnerType DEF RunnerStep, Spawn, vars
  <2> QED BY <1>1, <2>1
<1>3. CASE Collect \/ TimeoutExpired
  <2>1. stage # "none" /\ \E v \in Verdict : Judge(v)
    BY <1>3, VerdictType DEF Collect, TimeoutExpired, Stages, Verdict
  <2> QED BY <2>1, VerdictStep
<1>4. CASE End
  <2>1. UNCHANGED <<next, report, count>>
    BY <1>4 DEF End
  <2> QED BY <1>4, <2>1, EndStep DEF Reported, SummaryAddsUp, Judged
<1>5. CASE Restart
  <2>1. /\ next' = 1 /\ count' = [v \in Verdict |-> 0]
        /\ report' = [t \in Tests |-> "none"] /\ status' = "running"
    BY <1>5 DEF Restart
  <2>2. \A i \in 1..Len(TestSeq) : report'[TestSeq[i]] = "none" /\ i >= next'
    BY <2>1, TestSeqOK, Bounds
  <2>3. ASSUME NEW v \in Verdict PROVE count'[v] = Cardinality({t \in Tests : report'[t] = v})
    <3>1. {t \in Tests : report'[t] = v} = {}
      BY <2>1 DEF Verdict
    <3> QED BY <2>1, <3>1, FS_EmptySet
  <2> QED BY <2>1, <2>2, <2>3 DEF Reported, SummaryAddsUp, Judged
<1> QED BY <1>2, <1>3, <1>4, <1>5 DEF Next, Driver

-----------------------------------------------------------------------------
\* The driver is always at one of its tests or at the end of them, and its
\* process at a stage of RunAsmTest, with its files from sessions so far.
THEOREM TypeCorrect == Safety => []TypeOK
<1>1. TypeOK /\ AtTest /\ [Next]_vars => (TypeOK /\ AtTest)'
  BY TypeStep
<1> QED BY InitType, <1>1, PTL DEF Safety

\* Whatever the killed processes of earlier sessions left beside the tests,
\* the JIT only runs code that this process assembled.
THEOREM Freshness == Safety => []FreshCode
<1>1. Init => TypeOK /\ AtTest /\ Fresh
  BY InitType, FreshInit
<1>2. TypeOK /\ AtTest /\ Fresh /\ [Next]_vars => (TypeOK /\ AtTest /\ Fresh)'
  BY TypeStep, FreshStep
<1>3. Fresh => FreshCode
  BY DEF Fresh
<1> QED BY <1>1, <1>2, <1>3, PTL DEF Safety

\* A process that ends by itself, on whatever path, leaves no temporary file.
THEOREM OnlyKillsLitter == Safety => []LitterIsFromKills
<1>1. Init => TypeOK /\ AtTest /\ Litter
  BY InitType, LitterInit
<1>2. TypeOK /\ AtTest /\ Litter /\ [Next]_vars => (TypeOK /\ AtTest /\ Litter)'
  BY TypeStep, LitterStep
<1>3. TypeOK /\ Litter => LitterIsFromKills
  <2> SUFFICES ASSUME TypeOK, Litter, NEW t \in Tests, t \notin killed, files[t] # NoFiles
               PROVE  stage # "none" /\ t = test
    BY DEF LitterIsFromKills
  <2>1. files[t] \in [Suffix -> 0..MaxSessions]
    BY DEF TypeOK
  <2>2. PICK s \in Suffix : files[t][s] # 0
    BY <2>1 DEF NoFiles
  <2> QED BY <2>2 DEF Litter, Held
<1> QED BY <1>1, <1>2, <1>3, PTL DEF Safety

LEMMA Reports == Safety => []RInv
<1>1. Init => RInv
  BY InitType, ReportInit DEF RInv
<1>2. RInv /\ [Next]_vars => RInv'
  BY TypeStep, ReportStep DEF RInv
<1> QED BY <1>1, <1>2, PTL DEF Safety

\* The totals of the summary are those of the verdicts, and no test that timed
\* out is counted twice.
THEOREM Summary == Safety => []SummaryAddsUp
<1>1. RInv => SummaryAddsUp
  BY DEF RInv
<1> QED BY <1>1, Reports, PTL

\* The driver implements the safety part of Corpus: one verdict for each test,
\* whatever its process does, and an exit status that agrees with them.
THEOREM Implementation == Safety => Abstract!Safety
<1>1. Init => Abstract!Init
  BY DEF Init, Abstract!Init
<1>2. RInv /\ [Next]_vars => [Abstract!Next]_Abstract!vars
  <2> SUFFICES ASSUME RInv, [Next]_vars PROVE [Abstract!Next]_Abstract!vars
    OBVIOUS
  <2> USE DEF RInv
  <2>1. CASE Runner \/ Spawn \/ UNCHANGED vars
    BY <2>1, RunnerType DEF RunnerStep, Spawn, vars, driver, Abstract!vars
  <2>2. CASE Collect \/ TimeoutExpired
    <3>1. stage # "none" /\ \E v \in Verdict : Judge(v)
      BY <2>2, VerdictType DEF Collect, TimeoutExpired, Stages, Verdict
    <3>2. PICK v \in Verdict : Judge(v)
      BY <3>1
    <3>3. /\ test \in Tests /\ status = "running" /\ UNCHANGED status
          /\ report[test] = "none" /\ report' = [report EXCEPT ![test] = v]
      BY <3>1, <3>2, TestType, VerdictStep DEF AtTest, Judge
    <3>4. Abstract!Judge(test, v)
      BY <3>3 DEF Abstract!Judge
    <3> QED BY <3>3, <3>4 DEF Abstract!Next, Abstract!Progress, Abstract!Verdict, Verdict
  <2>3. CASE End
    <3>1. status = "running" /\ UNCHANGED report
      BY <2>3 DEF End
    <3> QED BY <2>3, <3>1, EndStep DEF Abstract!Next, Abstract!Progress, Abstract!End
  <2>4. CASE Restart
    BY <2>4 DEF Restart, Abstract!Next, Abstract!Again
  <2> QED BY <2>1, <2>2, <2>3, <2>4 DEF Next, Driver
<1> QED BY <1>1, <1>2, Reports, PTL DEF Safety, Abstract!Safety
=============================================================================
