------------------------------ MODULE A64Qemu ------------------------------
(***************************************************************************)
(* asm/arm64_runner.py on a corpus: main takes the test files in order,    *)
(* run_test reads the CONFIG, wraps the code, has it assembled and run by  *)
(* QEMU, and compares what it printed.  A guest may fault, and one that    *)
(* does not come to its brk is killed after five seconds.                  *)
(***************************************************************************)
EXTENDS A64Harness

CONSTANTS TestSeq,   \* the names of the test files, sorted
          File       \* what each holds: code, and config if json.loads reads it

\* The files of a directory, each once.
ASSUME TestSeqOK ==
  /\ TestSeq \in Seq(DOMAIN File)
  /\ \A i, j \in 1..Len(TestSeq) : TestSeq[i] = TestSeq[j] => i = j

\* The data of a CONFIG are words at addresses.
ASSUME FilesOK ==
  \A t \in DOMAIN File : "config" \in DOMAIN File[t] =>
    \A data \in {MemData(File[t].config), TlsData(File[t].config)} :
      /\ IsFiniteSet(DOMAIN data)
      /\ \A a \in DOMAIN data : a \in Nat /\ data[a] \in Seq(SUBSET (0..63))

\* An instruction that branches to itself.
hang == <<"hang">>

\* What the assembler takes is a program that comes to an end or hangs.
Assembles(code) == \A i \in DOMAIN code : Accepts(QemuExtensions, code[i])
ASSUME CodeOK ==
  \A t \in DOMAIN File : Assembles(File[t].code) => Program(File[t].code, {brk, hang})

VARIABLES
  next,      \* index of the test main is at
  count,     \* [passed, failed, skipped]
  report,    \* the verdict printed for each test
  status,    \* "running", or how the runner ended
  stage,     \* what run_test is doing
  todo,      \* what the program still does before the test
  m,         \* the guest
  ended,     \* how the last guest ended: "brk" or "signal", "none" without one
  actual     \* the registers read from its output

corpus == <<next, count, report, status>>
vars == <<corpus, stage, todo, m, ended, actual>>

Verdict == {"passed", "failed", "skipped"}
Tests == {TestSeq[i] : i \in DOMAIN TestSeq}
test == File[TestSeq[next]]
config == test.config

Init ==
  /\ next = 1 /\ status = "running" /\ stage = "idle"
  /\ count = [v \in Verdict |-> 0]
  /\ report = [t \in Tests |-> "none"]
  /\ todo = {} /\ m = QemuEntry /\ ended = "none" /\ actual = <<>>

-----------------------------------------------------------------------------
\* run_test and run_qemu.

Judge(v) ==
  /\ report' = [report EXCEPT ![TestSeq[next]] = v]
  /\ count' = [count EXCEPT ![v] = @ + 1]
  /\ next' = next + 1
  /\ stage' = "idle"
  /\ UNCHANGED status

\* A ValueError nobody catches ends main with a traceback.
Traceback == status' = "traceback" /\ UNCHANGED <<next, count, report, stage>>

Goto(s) == stage' = s /\ UNCHANGED corpus

\* parse_config, and the keys that keep a test from QEMU.
Open ==
  /\ status = "running" /\ stage = "idle" /\ next <= Len(TestSeq)
  /\ ended' = "none" /\ actual' = <<>>
  /\ IF "config" \notin DOMAIN test THEN Judge("failed")
     ELSE IF {"QemuSkip", "SvcTest"} \cap DOMAIN config # {} THEN Judge("skipped")
     ELSE Goto("build")
  /\ UNCHANGED <<todo, m>>

\* parse_memdata, parse_tlsdata, build_set_init and build_print_code.
Build ==
  /\ status = "running" /\ stage = "build"
  /\ IF Raises(config) THEN Traceback ELSE Goto("as")
  /\ UNCHANGED <<todo, m, ended, actual>>

\* as and ld, of the code and the program around it.
Assemble ==
  /\ stage = "as"
  /\ IF Assembles(test.code) /\ WrapperAssembles(config) THEN Goto("start") ELSE Judge("failed")
  /\ UNCHANGED <<todo, m, ended, actual>>

\* _start, and the pages of MemData.
Start ==
  /\ stage = "start"
  /\ m' = MemAlloc(config, QemuEntry) /\ todo' = Items(config)
  /\ Goto("prepare")
  /\ UNCHANGED <<ended, actual>>

\* The wrapper's own instructions before the test.
Prepare ==
  /\ stage = "prepare"
  /\ \E item \in Ready(todo) : m' = Do(config, item, m) /\ todo' = todo \ {item}
  /\ UNCHANGED <<corpus, stage, ended, actual>>

\* The code of the test follows.
Begin ==
  /\ stage = "prepare" /\ todo = {}
  /\ Goto("run")
  /\ UNCHANGED <<todo, m, ended, actual>>

\* An instruction of the test.
Execute ==
  /\ stage = "run" /\ test.code[m.pc] \notin {brk, hang}
  /\ ~Faults(config, m, test.code[m.pc])
  /\ m' = Step(m, test.code)
  /\ UNCHANGED <<corpus, stage, todo, ended, actual>>

\* The guest is killed by a signal: it prints nothing, and its return code is
\* not looked at.
Fault ==
  /\ stage = "run"
  /\ \/ Faults(config, m, test.code[m.pc])
     \/ test.code[m.pc] = brk /\ ~Mapped(config, Int31(m.sp) - 16)
  /\ ended' = "signal" /\ actual' = <<>>
  /\ Goto("compare")
  /\ UNCHANGED <<todo, m>>

\* brk: __test_exit saves the registers, on the stack x9, and prints.
Exit ==
  /\ stage = "run" /\ test.code[m.pc] = brk /\ Mapped(config, Int31(m.sp) - 16)
  /\ ended' = "brk" /\ actual' = Actual(Lines(config, m))
  /\ Goto("compare")
  /\ UNCHANGED <<todo, m>>

\* Mutant of Timeout: the test is tried again, and each try counts.
TimeoutTriesAgain ==
  /\ stage \in {"start", "prepare", "run"}
  /\ report' = [report EXCEPT ![TestSeq[next]] = "failed"]
  /\ count' = [count EXCEPT !["failed"] = @ + 1]
  /\ stage' = "start"
  /\ UNCHANGED <<next, status, todo, m, ended, actual>>

\* subprocess.run's timeout.
Timeout ==
  /\ stage \in {"start", "prepare", "run"}
  /\ Judge("failed")
  /\ UNCHANGED <<todo, m, ended, actual>>

Compare ==
  /\ status = "running" /\ stage = "compare"
  /\ IF CompareRaises(config, actual) THEN Traceback
     ELSE Judge(IF Errors(config, actual) = {} THEN "passed" ELSE "failed")
  /\ UNCHANGED <<todo, m, ended, actual>>

\* Mutant of End: the last test decides the exit status.
EndByLast ==
  /\ status = "running" /\ stage = "idle" /\ next > Len(TestSeq)
  /\ status' = IF report[Last(TestSeq)] = "failed" THEN "failure" ELSE "success"
  /\ UNCHANGED <<next, count, report, stage, todo, m, ended, actual>>

\* The summary, and sys.exit.
End ==
  /\ status = "running" /\ stage = "idle" /\ next > Len(TestSeq)
  /\ status' = IF count["failed"] = 0 THEN "success" ELSE "failure"
  /\ UNCHANGED <<next, count, report, stage, todo, m, ended, actual>>

Guest == Start \/ Prepare \/ Begin \/ Execute \/ Fault \/ Exit
Runner == Open \/ Build \/ Assemble \/ Timeout \/ Compare \/ End
Next == Runner \/ Guest

\* The runner takes its steps and its timer fires; the guest may stop anywhere.
Safety == Init /\ [][Next]_vars
Spec == Safety /\ WF_vars(Runner)

-----------------------------------------------------------------------------
\* Properties.

\* A register of the guest, and the names a CONFIG has for it on the JIT.
Slot(name) ==
  IF name = "SP" THEN <<"sp">>
  ELSE <<IF name \in DOMAIN Gprs THEN "x" ELSE "v", Register[name].n>>
NamesOf(c, slot) ==
  {name \in (DOMAIN init_regs(c) \cup DOMAIN init_vecs(c)) \cap DOMAIN Register : Slot(name) = slot}

\* The registers the program writes until the first entry of SetRegData, and
\* between two of them.
Before(c) ==
  {<<"x", n>> : n \in {0} \cup (IF MemData(c) = None THEN {} ELSE 0..5 \cup {8, 9, 10, 11, 19})
                         \cup (IF TlsData(c) = None THEN {} ELSE {9, 10, 11})}
Between(c) ==
  {<<"x", n>> : n \in (IF "SP" \in SetRegs(c) THEN 0..5 \cup {8, 20} ELSE {})
                  \cup (IF (SetRegs(c) \cap DOMAIN Scalars) \cup SetVecs(c) # {} THEN {9} ELSE {})}

\* The words of MemData and TlsData, where they are, and what they are.
WordsOf(c) ==
  (UNION {{<<a, "mem", a, i>> : i \in DOMAIN MemData(c)[a]} : a \in DOMAIN MemData(c)})
    \cup (UNION {{<<tls_area + a, "tls", a, i>> : i \in DOMAIN TlsData(c)[a]} : a \in DOMAIN TlsData(c)})
At64(w) == w[1] + 8 * (w[4] - 1)
Value(c, w) == (IF w[2] = "mem" THEN MemData(c) ELSE TlsData(c))[w[3]][w[4]]
Alone(c, w) == \A u \in WordsOf(c) \ {w} : At64(u) \notin (At64(w) - 7)..(At64(w) + 7)

\* The runner is at one of its tests or at the end, and run_test at one of its
\* stages.
Control ==
  /\ next \in 1..(Len(TestSeq) + 1)
  /\ count \in [Verdict -> 0..Len(TestSeq)]
  /\ report \in [Tests -> Verdict \cup {"none"}]
  /\ status \in {"running", "success", "failure", "traceback"}
  /\ stage \in {"idle", "build", "as", "start", "prepare", "run", "compare"}
  /\ ended \in {"none", "brk", "signal"}

\* The same; a guest is at one of the instructions of its test, with words in
\* its registers, and what is read of its output are words.
TypeOK ==
  /\ Control
  /\ stage = "run" => AtInstruction(m, test.code)
  /\ \A name \in DOMAIN actual : actual[name] \subseteq 0..127

\* QEMU runs a test from the same X, SP, S, D and V registers as the JIT, if the
\* JIT's runner can read the CONFIG.  At the first instruction
\* a register the program has set, and that has one name in the CONFIG, has the
\* value the JIT's runner gives it, unless the program needs it between two
\* entries: the parameters of mmap if SP is set, and x9 if a literal is loaded
\* through it.  A register without a name is the same too, but for those the
\* program has used until then.
StartsAsOnDynarmic ==
  stage = "prepare" /\ todo = {} /\ ~OutOfRange(config) =>
    LET d == DynarmicStart(config)
    IN  /\ \A name \in SetRegs(config) \cup SetVecs(config) :
             NamesOf(config, Slot(name)) = {name} /\ Slot(name) \notin Between(config) =>
               Read(m, Register[name]) = Read(d, Register[name])
        /\ \A n \in 0..30 :
             NamesOf(config, <<"x", n>>) = {} /\ <<"x", n>> \notin Between(config) \cup Before(config) =>
               m.x[n] = d.x[n]
        /\ \A n \in 0..31 : NamesOf(config, <<"v", n>>) = {} => m.v[n] = d.v[n]

\* At the first instruction every word of MemData and TlsData that no other word
\* overlaps is in the memory at its address: none is lost in the copying, by the
\* pairs of its entry, or overwritten by that of another or by the registers.
MemoryAsConfigured ==
  stage = "prepare" /\ todo = {} =>
    \A w \in WordsOf(config) : Alone(config, w) => Load(m, At64(w), 8) = Value(config, w)

\* The pages the program asks for hold every byte of every word of MemData, that
\* of the highest entry, and of the longest, included: no copy faults, and none of
\* these words is out of reach of the test.
DataMapped ==
  stage \in {"prepare", "run"} =>
    \A w \in WordsOf(config) : w[2] = "mem" =>
      \A b \in At64(w)..(At64(w) + 7) : Mapped(config, b)

\* PASSED is printed for a guest that came to its brk only with the expected
\* values in its registers, through print, parse and compare: a W register with
\* the low half of the literal, any other with the literal, if it is written in
\* hexadecimal.
PassedMeansExpected ==
  stage = "idle" /\ next > 1 /\ ended = "brk" /\ report[TestSeq[next - 1]] = "passed" =>
    LET c == File[TestSeq[next - 1]].config
    IN  /\ \A name \in DOMAIN QemuExpected(c) \ DOMAIN Vectors :
             LET literal == QemuExpected(c)[name]
             IN  Hexadecimal(literal) \/ (name \in DOMAIN Gprs /\ BitsOf(name) = 32) =>
                   Read(m, Register[name]) = literal \cap Mask(BitsOf(name))
        /\ \A name \in DOMAIN QemuExpected(c) \cap DOMAIN Vectors :
             LET v == m.v[Register[name].n]
                 literal == QemuExpected(c)[name]
             IN  Pair(Low(v), High(v)) = Pair(literal[1], literal[2])
        /\ \A name \in DOMAIN QemuExpectedVecs(c) \cap DOMAIN Vectors :
             LET v == m.v[Register[name].n]
                 literals == QemuExpectedVecs(c)[name]
             IN  Low(v) = ParseUint64(literals[1]) /\ High(v) = ParseUint64(literals[2])

\* On whatever registers the guest comes to its brk, what is printed of them, read
\* and compared has the verdict RunAsmTest gives on those registers, be it passed
\* or failed, if both can compare what the CONFIG expects: but that RunAsmTest
\* fails a test the oracle passes for its flags, FPCR, FPSR or memory, if the
\* CONFIG states them; the oracle never fails what RunAsmTest passes.
JudgedAsOnDynarmic ==
  stage = "idle" /\ next > 1 /\ ended = "brk" =>
    LET c == File[TestSeq[next - 1]].config
        passed == report[TestSeq[next - 1]] = "passed"
    IN  Comparable(c) =>
          /\ DynarmicPasses(c, m) <=> passed /\ StatusAsExpected(c, m) /\ MemoryAsExpected(c, m)
          /\ Unread \cap DOMAIN c = {} => (passed <=> DynarmicPasses(c, m))

\* The totals of the summary are the totals of the verdicts above it.
SummaryAddsUp ==
  \A v \in Verdict : count[v] = Cardinality({t \in Tests : report[t] = v})

Abstract == INSTANCE Corpus

\* As the JIT's driver does, the runner gives every test one verdict and ends,
\* with an exit status that says whether a test failed.
CorpusSpec == Abstract!Spec

\* A test is reported as passed only if its guest came to its brk, and with the
\* value in each register that the test states for it, wherever in the CONFIG.
PassedMeansStated ==
  stage = "idle" /\ next > 1 =>
    LET t == File[TestSeq[next - 1]]
    IN  report[TestSeq[next - 1]] = "passed" =>
          /\ ended = "brk"
          /\ \A name \in DOMAIN t.config \cap DOMAIN Gprs :
               Read(m, Register[name]) = t.config[name]
=============================================================================
