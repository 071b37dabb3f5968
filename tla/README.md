# Verification project for dynarmic_tests

TLA+ models of the regression-test system for the Dynarmic JIT: the test
environments its runners put around the JIT, the life of a test process and its
corpus driver, the loop of the binary test runner, the QEMU oracle that checks the
tests themselves, and the tests the generators write. TLC checks every module on
small instances; TLAPS proves the main results for every value of the constants.
Dynarmic and QEMU are not in the repository: they appear as what they may do
between two callbacks, or as a processor that does what the A64 architecture says.

## 1. The system

| Part | State it keeps | Operations | Talks to |
| --- | --- | --- | --- |
| `runners/asm/a64_asmtest.cpp`: `AsmTestEnv` | `code_mem`, `data_mem` (data and stack), `tls_mem`, `extra_mem`, the fastmem arena, SVC script index, `brk_hit`, `unexpected_exception`, ticks | `MemoryRead*`, `MemoryWrite*`, `MemoryWriteExclusive*`, `CallSVC`, `ExceptionRaised`, `AddTicks`, the three `Sync...` copies | called back by the JIT; its arena is accessed by compiled code directly |
| the same: `RunAsmTest`, `main` | temporary `.o`, `.elf`, `.bin` beside the test, `TestConfig`, `TestResult` | parse the CONFIG block, assemble, link, objcopy, load, set registers and memory, run, compare | binutils through `popen`; the driver through text and exit status |
| `runners/asm/a32_asmtest.cpp` | as above without an arena, with CP15 registers | the same, and the coprocessor callbacks | the same |
| `scripts/run_asm_dynarmic.py` | index, counters, one child process | one process per test with a timeout, judge, summarise | the asm runners |
| `runners/a64_bintest_runner.cpp`, `a32_bintest_runner.cpp` | flat memory, ticks, `test_complete`, `TestResult` | `LoadElf`, the loop around `jit->Run()`, system calls, exceptions | guest programs through SVC (`bintest/include/test_syscall.h`) |
| `asm/arm64_runner.py` (`arm32_runner.py`) | index, counters, the harness program it generates, one QEMU process | `parse_config`, `build_set_init`, `parse_memdata`, `parse_tlsdata`, `build_print_code`, `run_qemu`, `compare_results` | binutils, QEMU; the guest through printed text |
| `asm/gen_*.py`, `asm/generate_expected.py` | none | write the `.s` files of `asm/a64_*` and `asm/a32` | the test files, which both runners read |
| `runners/fastmem_fault.cpp` | an mmapped arena with protected pages, callback counters | hit, read fault, write fault | host signals |
| `scripts/oracle_bintest.py` | counters | the binary tests under QEMU | qemu |
| `bintest/scripts/*.sh`, `scripts/dynarmic-tests`, `CMakeLists.txt` | output trees, fixed files in `/tmp` | build, run, verify | compilers, the runners |
| `bintest/scripts/simde_lib.c` | a bump-allocated heap in the guest | `malloc`, `calloc`, `realloc` | SIMDe tests |

What is hard in it, and what makes each part correct:

* **Three copies of a cell.** The JIT's compiled code stores to the fastmem
  arena, the callbacks to the buffers and the arena, the supervisor to the
  buffers alone. The copies are kept in step by hand-placed `memcpy` calls.
  Correct: the guest sees one memory; a copy is stale only where the guest
  stored directly and nobody has looked since.
* **Processes that die.** A runner may throw, abort or hang in any stage; it is
  killed by a timer, its tools are not; files with fixed names stay behind. A guest
  of the oracle may fault or never come to its end. Correct: one verdict per test,
  the corpus ends, its exit status tells the truth, no code of another session is
  ever tested, only kills leave files.
* **Guests that misbehave.** A binary test may report twice, never report, loop
  with and without ticks, or raise exceptions. Correct: the first report
  decides, a timeout is never a pass, the loop ends.
* **A harness in the registers of its guest.** The oracle sets up memory, stack and
  registers with code that needs registers itself, and reads the results back from
  lines of text. Correct: the guest starts as on the JIT's runner, memory holds what
  the CONFIG says, and a pass means the expected values.
* **Two runners, one format.** The C++ and the Python runner read the same CONFIG by
  different rules (which keys, which widths, which order of the halves). Correct:
  they judge alike.
* **Expected values worked out by hand** and tests in which the expected value is also
  the initial one. Correct: a test that fails on a correct processor is known to be
  wrong, and no test takes its result for an input.
* **Boundaries.** Words that straddle regions, buffers, pages or the arena, odd
  last words of a copy loop, and addresses that wrap.

`PROJECT.json` lists the hazards at their lines, with the properties that cover them.

## 2. The modules

### The JIT's runners

`Words` has the two operators for words of several cells.

**`A64AsmEnv`** is `AsmTestEnv` with the parts of `RunAsmTest` that fill and read
it. `mem.buf` is `data_mem` and `tls_mem` by guest address, `mem.extra` is
`extra_mem` (an absent byte reads as zero, so the map is total), `mem.arena` the
fastmem arena, `hasArena` whether its allocation succeeded. A cell stands for 32
bits: a `u64` is two cells and a `Vector` four, which keeps every case of the code
that depends on a size; 8- and 16-bit accesses behave as a 32-bit one that fits.
Addresses count cells; `RegionSize` stands for 0x1000 bytes. `Load*` and
`StartRun` are the loading in the order of `RunAsmTest`; `Fast*` are accesses the
compiled code makes to the arena, `Callback*` the callbacks; since backends
differ in what they can do directly, either may serve any access inside the
arena. `CallSVC` is the whole handler: the first sync, the scan of the script,
the default, the last sync. `ExceptionRaised`, `OutOfTicks` and
`SyncForVerification` end the run.

**`FlatMemory`** is the abstract specification: a single function from addresses
to cells, where reads return what was last written and an exclusive store is one
step. **`A64AsmFlat`** restricts the guest to well-placed words (inside one
buffer, or beyond the arena) and gives the refinement mapping `FlatView`: the
arena for backed cells once the run has started, the buffers before that or
without an arena, `extra_mem` beyond. `FlatMemory` allows a stutter, and any word of TLS
to be stored; what must not be left to it is said by two action properties:
`NoStoreLost` (every store of the guest and of the TLS-writing calls has its effect at
once, and on nothing else) and `LoadedInOrder` (the run starts on the last word the
configuration has for each cell, TlsData after MemData).

**`A32AsmEnv`** is `A32AsmTestEnv` with the parts of `RunAsmTest` that fill and judge
it. There is no arena and a cell is a byte, so all four access sizes and every
alignment are told apart. `mem.data` and `mem.tls` are indexed by offset, as in the
code, so that `DataOffset` (two regions in one vector) is part of the model. A word
a buffer does not hold whole reads as zero and is dropped when written; 32- and
64-bit reads of code addresses answer with words of the code. `Scripted` and
`SvcAction` are the scan of the script, which consumes what it passes; an exhausted
script aborts. `Verify` is the checks after `Run` in their order, with what the
registers hold as a choice. **`A32AsmFlat`** maps it to `FlatMemory`, without any
restriction on the guest: what lies outside the buffers must be a stutter. Its
`NoStoreLost` is about callbacks and the scripted `write_tls`, with the register or the
value the action names.

**`Corpus`** is the abstract promise of a corpus command: one verdict per test,
then an end whose status agrees. **`AsmCorpus`** is the driver, one runner
process and the temporary files. `stage` is where `RunAsmTest` is; every stage
may succeed, fail, throw or abort as the code allows; `files[t][suffix]` is the
session that assembled what the file holds, which is all that matters about its
content; `TimeoutExpired` kills the process in any stage and `Orphan` lets the
tool it left behind finish. `Restart` starts the driver again on what is there.

**`BintestRun`** is `RunTest` and the callbacks of the binary runner. `mode` says
who runs; `Return` is `jit->Run()` coming back, with the check for progress after
it; the guest may make any system call, compute, or raise an exception while it
is not halted and has ticks. `written` is what a `SYS_WRITE` gave to the host.

### The guest

**`GuestWord`** has machine words as the sets of their one bits, so that 64-bit and
128-bit registers, their carries, shifts and products need no integer the checker
cannot hold; floating-point values are multiples of a quarter, which is all the tests
use. **`GuestA64`** is the external processor: the instructions the generated tests
use, each as the architecture defines it, over registers, flags, FPCR and FPSR, bytes of
memory and the exclusive monitor. `Accepts` is the assembler's verdict on an immediate or a
missing extension. `Step` executes one instruction of a program that ends in `brk`.
`Program` says what a program is: every instruction is one of these with operands of
the right kind, writes a register, and either ends the program, has the next one after
it, or branches to a label further down; so it cannot run past its end.

### Both runners on one CONFIG

**`A64Test`** is the shape of a test: name, code, CONFIG. A CONFIG is a function of its
keys; a literal is a word, `Malformed` for strings like `0x000000000000000xAA`, or a word
and the digits it is written with where it is decimal (`Decimal`, `Negative`).
**`A64Config`** is what `ParseTestConfig` and `RunAsmTest` make of one: `init_regs`,
`init_vecs` and the expected ones with `Set*` and `Expected*` laid over the legacy
keys, `DynarmicStart` the registers, flags, FPCR and FPSR the guest starts with,
`DynarmicPasses` the comparisons after the run in the code's order: `StatusAsExpected`
(flags, FPCR, FPSR), `MemoryAsExpected`, `RegistersAsExpected`. `ParseUint64` reads up to
the first character that is no digit, so a malformed literal is zero; one of more than 64
bits throws, which ends the test as failed (`OutOfRange`). Names of registers are made by `Numbered`;
`NamesOK` says what names there are, which register each stands for, and that no
register has two names of one kind. It concerns no constant: TLC evaluates it, and
the proofs use it so that none of them has to look into strings.

**`A64Harness`** is the program `arm64_runner.py` generates. What it does before the
first instruction of the test is cut into `Items`: a pair of words of MemData or
TlsData that is copied, an entry of SetRegData or SetVecData that is set. `Do` is
what the instructions of one item leave in registers and memory; `Ready` says which
item may be next: the kinds follow each other, pairs of an entry are in order,
entries of a kind are in the order of the file, which is any order. `Lines` is what
the program prints for the expected registers, `Actual` what the runner reads in
those lines, `Errors` and `CompareRaises` its comparison, which is of digits.
`WrapperAssembles` says for which CONFIGs the assembler takes the program: an offset of a
copy may be too large for its instruction, and a vector named twice defines a label twice.
`Unread` are the keys the comparison never looks at. `Areas` is the memory a
guest may touch without a fault.

**`A64Qemu`** is `main` and `run_test` over a corpus: `Open` (CONFIG missing, skipped
or not), `Build` (which may end `main` with a traceback), `Assemble`, `Start`, one
`Prepare` for each item that is left in `todo`, `Begin` when none is, the guest's
`Execute`, `Fault` and `Exit`, `Timeout`, `Compare`, `End`. Its `CorpusSpec` is the same
promise that the JIT's driver keeps. `FilesOK` says that the data of a CONFIG are finitely
many words at addresses, `CodeOK` that what the assembler takes is a `Program` that ends
in `brk` or hangs. `Prepare` never faults in the model; `DataMapped` is what entitles it
to that for MemData.

### The tests

**`GenAllA64v3`, `GenAllA64v2`, `GenAllA64`, `GenFullA64`, `GenTestV2`,
`GenA64Extended`, `GenComprehensiveA64`** are the tests seven generators write, section by
section: about 900 programs with their expected values. `Revise` and `Without` say
how a later generator of the same directory differs from an earlier one.
**`GeneratedTests`** plays each test three times: on the JIT's runner, on the oracle, and on
a blank processor without the values of RegData. The oracle reads the literals before
the assembler sees the code (`Start`), and its program sets the registers item by item
in every order a file can have (`Prepare`), as in `A64Qemu`. `SuitesOK` says that these
tests have no data but registers and that what a host assembles is a `Program`. The names in `Corrected` (in
`MCGeneratedTests`) are those whose file in the repository is not what the generator
wrote; those in `Wrong` are in the repository as written, and expect what no processor
computes.

The `MC...` modules give the constants their values. Operators named as mutants
stand before the definition they alter; they are what a plausible bug there would
look like, and each property is known to fail for one.

## 3. What TLC checks

| Run | Distinct states | Shows |
| --- | --- | --- |
| `a64_flat` | 31,382 | `FlatSpec` (refinement of `FlatMemory`), `LoadedInOrder`, `NoStoreLost`, `Coherent`, `TypeOK` for well-placed accesses: words over the data/stack border, Vectors in TLS, words beyond the arena, overlapping MemData and TlsData, scripts of two actions and all default supervisor calls |
| `a64_env` | 265,682 | `Coherent` for accesses that straddle a buffer, a region, the code or the end of the arena |
| `a64_memdata` | violation | MemData inside the arena but outside the buffers is never seen |
| `a32_flat` | 4,988 | `FlatSpec` (refinement of `FlatMemory`), `NoStoreLost`, `PassMatchesMemory`, `TypeOK`: words of 1 to 8 bytes over the data/stack border, over the end of the stack and of TLS, in code and nowhere; scripts with every action, an unknown one, missing registers |
| `asm_corpus` | 6,502 | `FreshCode`, `LitterIsFromKills`, `SummaryAddsUp`, `CorpusSpec` with its liveness |
| `asm_known` | violation | a known failure that throws an exception is reported as failed |
| `bintest_run` | 13,153 | `PassIsFirstReport`, `RunsAreBounded`, `Terminates`, `TypeOK` with what a `SYS_WRITE` may hand to the host |
| `bintest_marker` | violation | after a BRK the guest runs on and can turn the test into a pass |
| `a64_qemu` | 69,643 | `StartsAsOnDynarmic`, `MemoryAsConfigured`, `DataMapped`, `PassedMeansExpected`, `JudgedAsOnDynarmic`, `SummaryAddsUp`, `TypeOK`, `CorpusSpec` with its liveness: nineteen tests with every kind of data, flags, FPCR and memory that only the JIT's runner compares, literals that are decimal or too long, an offset that no `str` has, entries that overlap, registers with two names, guests that fault, hang or lose their stack |
| `a64_qemu_stated` | violation | a result stated beside RegData is compared with nothing: `mul_imm.s` states 20 for 7 * 4 and passes; a guest that was killed passes as well if nothing is expected of it (`stllr.s`) |
| `generated_tests` | 17,099 | `WrongTestsAreKnown`, `HostsAgree`, `RegDataIsNoInput`, `TypeOK` for every generated test |
| `generated_extended` | violation | `asm/a64_extended` has tests that expect what no A64 processor computes |

**Bounds.** `a64_*`: regions of 9 cells (the smallest in which the IPC response
and a straddling Vector have room), an arena two cells longer than the regions
and four cells beyond it, so that each boundary of the code has an access that
ends at, starts at and straddles it; four cell values (zero and the two constants
the supervisor writes, and one more). The copies act on each cell alike, so more
cells add no case; the proofs do without these bounds. `a32_flat`: regions of 8 bytes (a
`u64` fits exactly), two byte values, two configurations. `asm_corpus`: two tests
(one before, one after whatever goes wrong) and two sessions (one leaves litter,
one meets it). `bintest_run`: four ticks, blocks of up to two, three fruitless
iterations instead of ten, memory of 8 bytes, registers up to one over an `int`.
`iterations` stops at the last value that is told apart. `a64_qemu`: one test for each
way through `run_test` and each kind of CONFIG data, every order of the entries of each
kind (up to six of SetRegData), MemData on two pages with odd and even lengths, words
that lie on others whole or in part; real widths and addresses throughout. `generated_tests`: no bound, the whole of seven generators but
for `adr_basic`, whose result is an address the linker chooses.

**Fairness.** `AsmCorpus`: weak fairness of the driver's own steps, among them the
timer; none of the runner, which may hang in any stage. `A64Qemu`: the same, weak
fairness of `Runner`, whose `Timeout` is `subprocess.run`'s; none of the guest, which
may stop anywhere. `BintestRun`: the host loop runs (`Enter`, `Leave`); `Run` returns
once it was halted or has no ticks, which is Dynarmic's contract; guest code that
runs is charged ticks or comes back (`Compute \/ Return`), and system calls alone do
not count as progress. `A64AsmEnv` and `A32AsmEnv` have no liveness property: whether
a test reaches its end marker is the guest's affair.

Deadlock is off everywhere because each system may stop: a run that is verified
or aborted, a driver after its last session, a test that is done.

**What the tests of the generators turned out to be.** Some of what the seven generators
wrote has been corrected by hand since (`csel`, `rev16`, `umulh`, ... in
`asm/a64_all` and `a64_full`), and the run has those names as `Corrected`. Not corrected:
15 tests of `asm/a64_extended` (12 fail on a correct processor, 3 do not assemble) and 95 of
`asm/a64_comprehensive` (51 fail, 44 do not assemble, among them the forty
`add_ext_*`, which shift after an extension by `lsl`). They are `Wrong`, by name, in
`MCGeneratedTests`, and the property says that none of them passes and that there are
no others.

**Divergences without a run of their own.** Met while modelling, and visible in the
definitions named:

* A malformed literal (`bcond_cc.s:4`, 28 files of `asm/a64_comprehensive`) is zero to
  the JIT's runner and ends the oracle with a traceback, so that no test after it is run
  (`Traceback`).
* `SetPstate`, `SetFpcr`, `SetFpsr`, `ExpectedPstate`, `ExpectedFpcr`, `ExpectedFpsr` and
  `ExpectedMemData` are read by the JIT's runner only (`a64_asmtest.cpp:361-388`,
  `:1488-1524`; four files of `asm/` state them, `fuzz_generated/vector/clean_seed_57344_movi_v21_4s_imm16.s`
  is one). Without `SetPstate` a guest starts with Z set there, and with no flag under
  QEMU (`DynarmicStart`, `QemuEntry`). What follows for the verdicts is
  `JudgedAsOnDynarmic`: the oracle may pass what the JIT's runner fails, never the other
  way round.
* A literal of more than 64 bits throws in the JIT's runner (`OutOfRange`) and loses its
  high bits in what the oracle sets (`Load64`).
* `compare_results` compares the digits of an X, S or D register: `"10"` is expected as
  0x10 and set as ten (`RegisterError`, `arm64_runner.py:645`).
* The oracle's program does not assemble if a copy needs an offset beyond the
  instruction's range, or if SetVecData names a vector as V and as Q (`WrapperAssembles`,
  `arm64_runner.py:400`, `:481`, `:554`): the test fails.
* The oracle does not read the return code of QEMU (`Fault`): a guest killed by a
  signal passes if its CONFIG expects nothing.
* An `SP` entry of SetRegData clobbers x0 to x5, x8 and x20, a literal for an S, D or V
  register x9, whatever an earlier entry put there (`StartsAsOnDynarmic` excludes just
  these).
* `SP` and `NZCV` are never printed, so that a test that expects one of them always
  fails under the oracle (`RegisterLines`); a vector named both in RegData and in
  VecData prints four lines and is lost (`Actual`).
* A directory without tests is a success for `arm64_runner.py` and a failure for
  `run_asm_dynarmic.py`.
* `cnt_basic` needs the CSSC extension, which the JIT's runner assembles and the oracle
  does not (`QemuExtensions`).
* A `VecData` array of one element is passed over by the JIT's runner and always an
  error for the oracle (`Vecs`, `IsVector`).
* `ExpectedRegData` is laid over `RegData` by the JIT's runner, key by key, and takes its
  place for the oracle, so that with both the oracle compares less (`expected_regs`,
  `QemuExpected`). `ExpectedVecData` is read by the JIT's runner if it holds arrays
  only (`a64_asmtest.cpp:467`), while the other vector data may be strings too.
* Where words of MemData lie on each other the one that is written last stays: on the
  JIT's runner in the order of the addresses, under the oracle in that of the file
  (`MemoryAsConfigured` speaks of words that lie alone).
* `SYS_WRITE` answers with the full count although it stops at the end of memory
  (`a64_bintest_runner.cpp:230-245`).
* `gen_test_v2.py:3` speaks of values verified with QEMU; the function that would ask
  QEMU is never called.
* `gen_all_a64.py`, `gen_all_a64_v2.py` and `gen_all_a64_v3.py` write the same directory,
  and the number they print counts the files of the others.

## 4. What is proved

All proofs are for arbitrary constants, from the named assumptions in the modules
(`SizesOK`, `ValuesOK`, `AccessesOK`, `ConfigsOK`, `SvcOK`, `PlacedOK`;
`TestSeqOK`, `CorpusOK`, `FilesOK`, `CodeOK`, `NamesOK`, `SuitesOK`; `LimitsOK`,
`GuestOK`). There are twenty-five theorems in eight modules.

* `A64AsmProof!TypeCorrect`, `Coherence`. `Coherent` is not inductive by itself:
  in the loading phase nothing is coherent yet, and the step that starts the run
  has to know that nothing is left to load. The invariant adds `TypeOK` and the
  relation between `phase` and the two lists still to load; each copy has a lemma
  saying which cells it changes in which store.
* `A64AsmFlatProof!Implementation`: `Spec => FlatSpec`. Every callback, direct
  access and supervisor call maps to one step of `FlatMemory`; the six stores of
  the IPC response are shown to compose to the two runs of cells of `Respond`.
* `A32AsmFlatProof!TypeCorrect`, `Implementation`, `PassMatches`. The lemmas say
  what a read, `PutTls` and `PutData` do to the view of a byte, at either side of
  the border of the two regions in `data_mem`; `TodoOK` carries that what is still
  to be loaded comes from the configuration, and `PInv` that there is no pass
  before the checks.
* `BintestProof!TypeCorrect`, `FirstReportCounts`. The invariant says that a
  report halts the JIT (so no guest step follows it) and that the loop enters
  `Run` only with ticks left.
* `BintestProof!LoopEnds`: the measure `RunsLeft` (the ticks when `Run` last came back,
  and the iterations that may still be fruitless) never grows, is smaller at each return
  to the loop, and is a natural number. So the loop enters `Run` no more than
  `MaxTicks + StuckLimit + 1` times, with no fairness assumed; `Terminates` adds that
  time does not stand still in between. With the program's limits that number is more
  than ten billion, above the range of `int iterations` (`a64_bintest_runner.cpp:472`,
  `:476`): that the counter does not overflow rests on how many ticks a run of the JIT is
  charged, not on the loop.
* `AsmCorpusProof!TypeCorrect`, `Freshness`, `OnlyKillsLitter`, `Summary`,
  `Implementation`. `Fresh` says that what each tool reads was written by the
  tool before it in this session; `Litter` that a test never killed has at most
  the file the next tool reads; `Reported` that exactly the tests before `next`
  have a verdict, which makes every verdict the first for its test; `Judged`
  relates the status to the verdicts.
* `A64QemuProof!ControlCorrect`, `Summary`, `Implementation`. `CInv` says that
  `run_test` is at a test whose CONFIG could be read, that exactly the tests before
  `next` have a verdict, and that the totals count them; every step is a verdict, a step
  within `run_test`, the traceback or the end (`StepKinds`), so nothing about the
  guest's instructions is needed. `Implementation` has two hypotheses, which are the
  two ways in which this runner does not keep the promise: the corpus is not empty,
  and every CONFIG's literals are well formed (`WellFormed`).
* `A64QemuProof!TypeCorrect`. A guest is at an instruction of its program with words in
  its registers. `GInv` adds to `CInv` and `Preparation` that the code which runs is a
  `Program`; the step of the guest is `A64HarnessProof!Stepped`: whatever instruction of
  whatever program, executing it leaves a machine at an instruction. It goes by the
  kinds of instruction: `Computed` for those that write a register (`Written` says that
  each width masks what it is given), `Accessed` for loads and stores, and a branch,
  whose target `Least` shows to be the first label of that name, further down.
  `DynarmicTyped`, `EntryTyped` and `Typed` say the same of where the guest begins.
* `A64QemuProof!JudgedAlike`: `SameVerdict` (below) as an invariant of the corpus. It needs
  `Output` (see `PassedIsExpected`), to know that what is compared are the lines of the machine
  as it stopped, and the strengthened `TypeCorrect`, which makes that machine one that
  `SameVerdict` speaks of, after any number of instructions of any program.
* `GeneratedTestsProof!TypeCorrect`: the same for the three hosts of a generated test, from
  `Stepped` and `EntryTyped`. The invariant adds that a test which is prepared or runs is
  a `Program`, and that the guest has not left its first instruction before it runs.
* `A64QemuProof!PassedIsExpected`. `PassedMeansExpected` looks back at a
  comparison when the next test may be about to begin, so it is not inductive: `VInv`
  adds `Output`, which says that until the comparison `actual` is what is read in the
  lines printed for the machine as it stopped. The rest is a lemma without time,
  `NoErrors`: if the comparison of those lines finds nothing and raises nothing, the
  machine has what was expected. It rests on `LineKinds` (which lines there are for a
  name), `ActualAt` and `Printed` (what is read in them: that a vector is read at all
  means it has just two lines) and `Halves` (two words make one vector and no other).
* `A64QemuProof!MemoryIsConfigured`, `SameStart`. Both speak of the moment before the
  test begins, and are reached item by item. The invariant `Prepared` holds with
  items left: the machine is one (`Typed`); no register is set before the last word is
  copied (`DataFirst`, needed because the copying goes through x9 to x11 and would
  undo an entry); every copied word that lies alone is in memory (`Copies`); every
  register that is set, has one name and is not needed by a later entry has its value
  (`Sets`); one without a name is as it was (`Leaves`). `DataStep` and `EntryStep`
  keep it for one item. `PairCopied` is the copying of a pair with an odd last word;
  `Stored`, `LoadStored` and `LoadElsewhere` are memory by the byte; `EntrySet` says which
  registers an entry may write, `OnDynarmic` and `ZeroOnDynarmic` what the same
  entries come to on the JIT's runner. That the program was built at all (`~Raises`) is
  part of the invariant, not a hypothesis. TLC checked `Prepared` on the corpus of `a64_qemu`
  before it was proved.
* `A64QemuProof!DataIsMapped`: from the lowest address (`Least`), the greatest end
  (`Greatest`) and `PageAround`, for any finite set of entries in any arrangement
  (`InPages`). That `MemSize` is the whole page when it would be zero is not needed for it:
  an entry with a word never makes it zero. `Least` and `Greatest` are had from a well-founded ordering
  (`WFMin` of the library), because its induction theorems take an operator as a
  parameter, which the provers cannot instantiate.
* `A64HarnessProof` has the lemmas on words, memory, names, instructions, harness and
  comparison that these theorems rest on. Names are told apart by `NamesOK` alone.
* `A64HarnessProof!SameVerdict`: whatever a guest stops with, `RunAsmTest` passes it
  exactly if `compare_results` on the printed lines finds no error and `StatusAsExpected`
  and `MemoryAsExpected` hold, which the oracle never looks at; with no key of `Unread` in
  the CONFIG the verdicts are the same; and `compare_results` raises nothing. It is a
  statement about operators, not a state property, and has a hypothesis, `Comparable`, for
  the other ways in which the two differ: `RegData` or `VecData` beside the `Expected` form
  of the same (RunAsmTest lays one over the other, the oracle reads one); a name that is no
  X, W, S or D register, nor a Q register of `RegData` (the oracle prints nothing for `SP`,
  and RunAsmTest reads no Q register of `ExpectedRegData`); an expected literal that is no
  number, is decimal or, of an S register, too wide (the oracle compares all its digits);
  any literal that `std::stoull` throws on (`OutOfRange`); and a vector stated twice (four
  lines, of which the oracle makes no vector). The generated tests fall outside it only where a literal is
  malformed (TLC evaluated `Comparable` on all of them and the equivalence with it, and on
  the corpus of `a64_qemu`). `ExpectedRegs` and `ExpectedVecs` say what RunAsmTest expects
  in terms of what the oracle reads, `OracleRegister` and `OracleVector` that every name
  has a line, `RegisterJudged` and `VectorJudged` compare one entry.

Only model-checked:

* `LoadedInOrder` and both `NoStoreLost`: what `FlatSpec`, which is proved, leaves open;
* liveness (`Terminates`, the fair parts of both `CorpusSpec`), which is out of reach of
  the provers;
* `WrongTestsAreKnown`, `HostsAgree`, `RegDataIsNoInput` of `GeneratedTests`, which are
  about what nine hundred concrete programs compute: TLC plays them all, and there is
  nothing to generalise;
* that what the assembler takes is a `Program` (`CodeOK`, `SuitesOK`): TLC evaluates both on
  the tests of the runs. They leave out a branch backwards, which no modelled test has
  but for the one instruction that branches to itself;
* that `Begin` is reached, i.e. that `Ready` never blocks with items left (liveness
  of the program's straight line);
* the violations, which are behaviours that TLC exhibits.

## 5. Assumptions

* A tool that fails leaves its old output or none, as binutils do; a tool whose
  runner was killed finishes before that test is run again.
* Between two callbacks the JIT runs the guest's instructions and nothing else;
  a halt requested in a callback takes effect before the next guest instruction
  that can call back.
* Guest addresses of `A64AsmEnv` stay below the bound `AddrLimit`; the wrap near 2^64
  (`a64_asmtest.cpp:804`, `a64_bintest_runner.cpp:154`) is not in these models.
* `GuestA64` is the architecture as far as the generated tests use it; QEMU and Dynarmic
  are taken to implement it, for the question is whether the tests are right.
* The literals of a CONFIG are JSON strings, those of vector data arrays of them (a JSON
  integer would be passed over by the JIT's runner); a register's name is one of
  `RegisterNames` or one that neither runner takes for a register. No `MaxTicks`,
  `TpidrInit` or `TpidrroInit` is too long a literal.
* The JIT keeps FPCR and FPSR as it was given them but for IXC, which an inexact rounding
  sets (`Rounded`): on values and results that are multiples of a quarter no other bit is.
* `JudgedAsOnDynarmic` and `SameVerdict` are about one machine judged by both, so that
  `ExpectedMemData` is compared with the memory the guest left.
* A CONFIG that `A64Qemu` reads has numbers for MemData and TlsData (`FilesOK`); a malformed
  one would end the oracle with the same traceback as a malformed register.

## 6. Not modelled

* **Other generators**: `gen_comprehensive.py`, the edge and A32 generators, the six
  `a64/gen_comprehensive_tests*.py`, `fix_a32_tests.py`, `generate_expected.py`. Those of
  A64 are of the same kind as the seven that are modelled, with vector and floating-point
  instructions `GuestA64` does not have; the A32 ones would need the A32 instruction set, and
  `generate_expected.py` is a draft whose output (one line, digits over its prefix)
  nothing reads.
* **`arm32_runner.py`**: the loop of `arm64_runner.py` around a harness that only sets
  general registers; it compares text, and all 998 tests of `asm/a32` state full-width
  literals, so that the two comparisons cannot differ.
* **`oracle_bintest.py`**: one QEMU process per test and its return code. Its timeout
  handler adds text to bytes and throws exactly if one of the two captured streams is
  not empty; what a killed process had printed decides.
* **The JSON text**: both parsers work by the character. The C++ one does not terminate on
  `null` or on a word that begins with `t` or `f` in an array; no test has one.
* **A32 binary runner, `LoadElf`, the memory callbacks of the binary runners**: flat memory
  with one address check; the loop and the system calls are those of `BintestRun`.
* **CP15 and register configuration of the A32 asm runner**: registers by another name.
* **`fastmem_fault.cpp`**: three accesses in a fixed order, decided by the host's signals
  and by Dynarmic.
* **`simde_lib.c`, `bintest/tests/**`, hand-written `asm/**`**: inputs of the system. A few
  files of `asm/a64` are in the corpora of `MCA64Qemu`.
* **Shell scripts, CMake**: fixed sequences of commands. Known weak points: `run_tests.sh`
  stops at the first group with a failing test, `build_tests.sh` leaves the old `.elf` of
  a test that no longer builds, `build_simde_tests.sh` uses fixed names in `/tmp`.
* **Output formatting**, but for the lines `arm64_runner.py` prints in order to read them
  again.
* **Word-level corner cases of the A64 environment**: a `.bin` whose size is no multiple of
  four (`a64_asmtest.cpp:1228`), guest stores to code in the arena (`:664`), and the
  success of an exclusive store that runs over the end of its buffer (`:890`).
