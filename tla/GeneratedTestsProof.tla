------------------------ MODULE GeneratedTestsProof ------------------------
(***************************************************************************)
(* For any suites of generated tests: whoever plays a test, the guest      *)
(* stays on its instructions with words in its registers, from whatever    *)
(* literals its CONFIG has.                                                *)
(***************************************************************************)
EXTENDS GeneratedTests, A64HarnessProof

\* A test of the suites that is played by one of the hosts, whose assembler has
\* made a program of it once it runs.
Played ==
  /\ suite \in DOMAIN Suites /\ test \in Suites[suite]
  /\ host \in HostSet \cup {"none"} /\ stage \in {"start", "prepare", "run"}
  /\ verdict \in [HostSet -> {"none", "passed", "failed", "rejected", "raised"}]
  /\ stage # "start" => host \in HostSet /\ Program(test.code, {brk})

\* The guest has words in its registers, and leaves its first instruction only
\* when it runs.
OnTest ==
  /\ todo \subseteq Items(test.config)
  /\ IsMachine(m) /\ m.pc \in DOMAIN test.code
  /\ stage # "run" => m.pc = 1

IInv == Played /\ OnTest

-----------------------------------------------------------------------------
\* Where the hosts start.
LEMMA Started ==
  ASSUME NEW h \in HostSet, NEW c
  PROVE  IsMachine(StartOn(h, c)) /\ StartOn(h, c).pc = 1
<1>1. IsMachine(Blank) /\ Blank.pc = 1
  <2> DEFINE x == [n \in 0..30 |-> {}]
             v == [n \in 0..31 |-> {}]
  <2>1. x \in [0..30 -> SUBSET (0..63)] /\ v \in [0..31 -> SUBSET (0..127)]
    OBVIOUS
  <2>2. DynarmicStack \in SUBSET (0..63)
    BY Words64 DEF DynarmicStack
  <2>3. Blank = Machine(x, DynarmicStack, v, {})
    BY DEF Blank
  <2> HIDE DEF x, v
  <2> QED BY <2>1, <2>2, <2>3 DEF Machine, IsMachine
<1>2. IsMachine(DynarmicStart(c)) /\ DynarmicStart(c).pc = 1
  BY DynarmicTyped
<1>3. IsMachine(QemuEntry) /\ QemuEntry.pc = 1
  BY EntryState
<1> QED BY <1>1, <1>2, <1>3 DEF StartOn, HostSet

\* The registers are all the data a test of the suites has.
LEMMA OnlyRegisters ==
  ASSUME NEW s \in DOMAIN Suites, NEW t \in Suites[s], NEW item \in Items(t.config)
  PROVE  item[1] \in {"reg", "vec"}
<1> DEFINE c == t.config
<1>1. DOMAIN c \subseteq {"RegData", "VecData"}
  BY SuitesOK
<1> HIDE DEF c
<1>2. DOMAIN MemData(c) = {} /\ DOMAIN TlsData(c) = {}
  BY <1>1 DEF MemData, TlsData, Get, None
<1>3. item \in {<<"reg", name>> : name \in SetRegs(c)} \cup {<<"vec", name>> : name \in SetVecs(c)}
  BY <1>2 DEF Items, c
<1> QED BY <1>3

LEMMA InitInv == Init => IInv
<1> SUFFICES ASSUME Init PROVE IInv
  OBVIOUS
<1>1. IsMachine(Blank) /\ Blank.pc = 1
  BY Started DEF StartOn, HostSet
<1>2. 1 \in DOMAIN test.code
  BY SuitesOK DEF Init
<1>3. verdict \in [HostSet -> {"none", "passed", "failed", "rejected", "raised"}]
  BY DEF Init
<1> QED BY <1>1, <1>2, <1>3 DEF Init, IInv, Played, OnTest, HostSet

\* A verdict hands the test over to the next host.
LEMMA JudgeStep ==
  ASSUME IInv, host \in HostSet, NEW v \in {"passed", "failed", "rejected", "raised"},
         Judge(v), UNCHANGED <<suite, test, todo>>
  PROVE  IInv'
<1>1. IsMachine(Blank) /\ Blank.pc = 1
  BY Started DEF StartOn, HostSet
<1>2. 1 \in DOMAIN test.code
  BY SuitesOK DEF IInv, Played
<1>3. host' \in HostSet \cup {"none"}
  BY DEF Judge, After, HostSet
<1>4. verdict' \in [HostSet -> {"none", "passed", "failed", "rejected", "raised"}]
  BY DEF Judge, IInv, Played
<1> QED BY <1>1, <1>2, <1>3, <1>4 DEF Judge, IInv, Played, OnTest

LEMMA InvStep == IInv /\ [Next]_vars => IInv'
<1> SUFFICES ASSUME IInv, [Next]_vars PROVE IInv'
  OBVIOUS
<1> USE DEF IInv
<1>1. CASE Start
  <2>1. host \in HostSet /\ stage = "start" /\ UNCHANGED <<suite, test>>
    BY <1>1 DEF Start, Played
  <2>2. CASE \E v \in {"rejected", "raised"} : Judge(v) /\ UNCHANGED todo
    BY <2>1, <2>2, JudgeStep
  <2>3. CASE /\ ~Rejected(host, test)
             /\ m' = StartOn(host, test.config) /\ stage' = "prepare"
             /\ todo' = IF host = "qemu" THEN Items(test.config) ELSE {}
             /\ UNCHANGED <<host, verdict>>
    <3>1. IsMachine(m') /\ m'.pc = 1
      BY <2>1, <2>3, Started
    <3>2. Program(test.code, {brk}) /\ 1 \in DOMAIN test.code
      BY <2>1, <2>3, SuitesOK DEF Played
    <3>3. todo' \subseteq Items(test.config)
      BY <2>3
    <3> QED BY <2>1, <2>3, <3>1, <3>2, <3>3 DEF Played, OnTest
  <2> QED BY <1>1, <2>2, <2>3 DEF Start
<1>2. CASE Prepare
  <2>1. PICK item \in Ready(todo) : m' = Do(test.config, item, m) /\ todo' = todo \ {item}
    BY <1>2 DEF Prepare
  <2>2. stage = "prepare" /\ UNCHANGED <<suite, test, host, stage, verdict>>
    BY <1>2 DEF Prepare
  <2>3. item \in Items(test.config)
    BY DEF Ready, OnTest
  <2>4. item[1] \in {"reg", "vec"}
    BY <2>3, OnlyRegisters DEF Played
  <2> DEFINE c == test.config
  <2>5. IsMachine(m) /\ m.pc = 1 /\ m.pc \in DOMAIN test.code
    BY <2>2 DEF OnTest
  <2>6. item \in Items(c)
    BY <2>3
  <2> HIDE DEF c
  <2>7. IsMachine(Do(c, item, m)) /\ Do(c, item, m).pc = m.pc
    BY <2>4, <2>5, <2>6, EntryTyped, PcKept
  <2>8. IsMachine(m') /\ m'.pc = 1
    BY <2>1, <2>5, <2>7 DEF c
  <2> QED BY <2>1, <2>2, <2>5, <2>8 DEF Played, OnTest
<1>3. CASE Begin
  BY <1>3 DEF Begin, Played, OnTest
<1>4. CASE Execute
  <2>1. /\ stage = "run" /\ UNCHANGED <<suite, test, host, stage, todo, verdict>>
        /\ m' = Step(m, test.code) /\ test.code[m.pc] \notin {brk}
    BY <1>4 DEF Execute, Stopped
  <2> DEFINE code == test.code
  <2>2. Program(code, {brk}) /\ IsMachine(m) /\ m.pc \in DOMAIN code /\ code[m.pc] \notin {brk}
    BY <2>1 DEF Played, OnTest
  <2> HIDE DEF code
  <2>3. IsMachine(Step(m, code)) /\ Step(m, code).pc \in DOMAIN code
    BY <2>2, Stepped
  <2>4. IsMachine(m') /\ m'.pc \in DOMAIN test.code
    BY <2>1, <2>3 DEF code
  <2> QED BY <2>1, <2>4 DEF Played, OnTest
<1>5. CASE Finish
  <2>1. host \in HostSet /\ UNCHANGED <<suite, test, todo>>
    BY <1>5 DEF Finish, Played
  <2>2. \E v \in {"passed", "failed"} : Judge(v)
    BY <1>5 DEF Finish
  <2> QED BY <2>1, <2>2, JudgeStep
<1>6. CASE UNCHANGED vars
  BY <1>6 DEF vars, Played, OnTest
<1> QED BY <1>1, <1>2, <1>3, <1>4, <1>5, <1>6 DEF Next

LEMMA Invariance == Spec => []IInv
BY InitInv, InvStep, PTL DEF Spec

\* Whatever the tests and the literals of their CONFIGs, and on every host, the
\* guest is at one of the instructions of its test with words in its registers:
\* it never runs past the end of the code, and no value outgrows its register.
THEOREM TypeCorrect == Spec => []TypeOK
<1>1. IInv => TypeOK
  BY DEF IInv, Played, OnTest, TypeOK, AtInstruction, IsMachine
<1> QED BY <1>1, Invariance, PTL
=============================================================================
