--------------------------- MODULE GeneratedTests ---------------------------
(***************************************************************************)
(* The tests the generators write, played by both runners: every test is   *)
(* assembled and run by the JIT's runner, then by the QEMU oracle, and at  *)
(* last on a processor whose registers nobody has set.  The instructions   *)
(* do what the architecture says, so a verdict is a verdict on the test.   *)
(***************************************************************************)
EXTENDS A64Harness

CONSTANTS Suites,      \* the tests each generator writes
          Corrected,   \* for each, the names whose file in the repository is
                       \* another one: corrected by hand, by a later
                       \* generator, or taken out
          Wrong        \* the names whose file is as it was generated, and
                       \* expects what no processor computes

HostSet == {"dynarmic", "qemu", "blank"}
After == [dynarmic |-> "qemu", qemu |-> "blank", blank |-> "none"]

ExtensionsOf(h) == IF h = "qemu" THEN QemuExtensions ELSE DynarmicExtensions
Rejected(h, t) == \E i \in DOMAIN t.code : ~Accepts(ExtensionsOf(h), t.code[i])

\* The data are registers, and what a host assembles is a program.
ASSUME SuitesOK ==
  \A s \in DOMAIN Suites : \A t \in Suites[s] :
    /\ DOMAIN t.config \subseteq {"RegData", "VecData"} /\ 1 \in DOMAIN t.code
    /\ \A h \in HostSet : Rejected(h, t) \/ Program(t.code, {brk})

VARIABLES
  suite,     \* whose test it is
  test,
  host,      \* who plays it, "none" when all have
  stage,     \* "start", "prepare" or "run"
  todo,      \* what the oracle's program still does before the test
  m,         \* the guest
  verdict    \* of each host

vars == <<suite, test, host, stage, todo, m, verdict>>

Blank == Machine([n \in 0..30 |-> {}], DynarmicStack, [n \in 0..31 |-> {}], {})
StartOn(h, config) ==
  CASE h = "dynarmic" -> DynarmicStart(config)
    [] h = "qemu" -> QemuEntry
    [] h = "blank" -> Blank
PassesOn(h, config, guest) ==
  IF h = "qemu" THEN Errors(config, Actual(Lines(config, guest))) = {}
  ELSE DynarmicPasses(config, guest)

-----------------------------------------------------------------------------

Init ==
  /\ suite \in DOMAIN Suites /\ test \in Suites[suite]
  /\ host = "dynarmic" /\ stage = "start" /\ todo = {} /\ m = Blank
  /\ verdict = [h \in HostSet |-> "none"]

Judge(v) ==
  /\ verdict' = [verdict EXCEPT ![host] = v]
  /\ host' = After[host] /\ stage' = "start" /\ m' = Blank

\* The oracle reads the literals before it has the code assembled.
Start ==
  /\ host # "none" /\ stage = "start"
  /\ IF host = "qemu" /\ Raises(test.config) THEN Judge("raised") /\ UNCHANGED todo
     ELSE IF Rejected(host, test) THEN Judge("rejected") /\ UNCHANGED todo
     ELSE /\ m' = StartOn(host, test.config) /\ stage' = "prepare"
          /\ todo' = IF host = "qemu" THEN Items(test.config) ELSE {}
          /\ UNCHANGED <<host, verdict>>
  /\ UNCHANGED <<suite, test>>

\* The pieces of the oracle's program that set registers: these tests have no
\* other data.
Prepare ==
  /\ stage = "prepare"
  /\ \E item \in Ready(todo) : m' = Do(test.config, item, m) /\ todo' = todo \ {item}
  /\ UNCHANGED <<suite, test, host, stage, verdict>>

Begin ==
  /\ stage = "prepare" /\ todo = {}
  /\ stage' = "run"
  /\ UNCHANGED <<suite, test, host, todo, m, verdict>>

Execute ==
  /\ stage = "run" /\ ~Stopped(m, test.code)
  /\ m' = Step(m, test.code)
  /\ UNCHANGED <<suite, test, host, stage, todo, verdict>>

Finish ==
  /\ stage = "run" /\ Stopped(m, test.code)
  /\ Judge(IF PassesOn(host, test.config, m) THEN "passed" ELSE "failed")
  /\ UNCHANGED <<suite, test, todo>>

Next == Start \/ Prepare \/ Begin \/ Execute \/ Finish
Spec == Init /\ [][Next]_vars

-----------------------------------------------------------------------------
\* Properties.

\* The guest is at one of the instructions of the test, with words in its
\* registers.
TypeOK ==
  /\ host \in HostSet \cup {"none"} /\ stage \in {"start", "prepare", "run"}
  /\ verdict \in [HostSet -> {"none", "passed", "failed", "rejected", "raised"}]
  /\ todo \subseteq Items(test.config)
  /\ AtInstruction(m, test.code)

\* A test that does not pass on a correct JIT is not in the repository as the
\* generator wrote it, or it is one of those known to be wrong, none of which
\* passes: the expected values of all others are what the code computes.
WrongTestsAreKnown ==
  /\ verdict["dynarmic"] \in {"failed", "rejected"} => test.name \in Corrected[suite] \cup Wrong[suite]
  /\ verdict["dynarmic"] = "passed" => test.name \notin Wrong[suite]

\* The oracle and the runner are of one mind about every test that needs no
\* extension and whose literals are numbers and vectors pairs, although the one
\* starts with the Z flag set and the other with an address in x0.  Otherwise
\* the oracle rejects it, raises an exception or finds fault: it never passes
\* what the runner does not.
HostsAgree ==
  LET regs == Get(test.config, "RegData", None)
      vecs == Get(test.config, "VecData", None)
      wellFormed == /\ Rejected("qemu", test) = Rejected("dynarmic", test)
                    /\ Malformed \notin {regs[r] : r \in DOMAIN regs}
                    /\ \A v \in DOMAIN vecs : IsVector(vecs[v])
  IN  /\ wellFormed /\ verdict["qemu"] # "none" => verdict["qemu"] = verdict["dynarmic"]
      /\ verdict["qemu"] = "passed" => verdict["dynarmic"] = "passed"

\* RegData sets the registers a test is about to compute to what they should be
\* in the end: no test of the generators takes that value for an input.
RegDataIsNoInput ==
  verdict["blank"] # "none" => verdict["blank"] = verdict["dynarmic"]

\* "asm and binary test cases still describe the intended ARM behavior": a
\* test that assembles expects what the architecture computes.
TestsDescribeTheArchitecture == verdict["dynarmic"] # "failed"
=============================================================================
