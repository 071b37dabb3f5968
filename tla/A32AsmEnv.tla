----------------------------- MODULE A32AsmEnv -----------------------------
(***************************************************************************)
(* A32AsmTestEnv of the A32 asm runner (runners/asm/a32_asmtest.cpp): its  *)
(* data/stack and TLS buffers, the callbacks, the scripted supervisor      *)
(* calls, and the parts of RunAsmTest that fill and judge them.            *)
(*                                                                         *)
(* A cell is a byte.  There is no arena: every access is a callback, and   *)
(* an address that no buffer backs reads as zero and ignores writes.       *)
(***************************************************************************)
EXTENDS Words

CONSTANTS RegionSize,   \* bytes of each of the four regions (4096 in the code)
          Value, Zero,  \* contents of a byte
          CodeLen, CodeMem,  \* the assembled test program, as u32 words
          Configs,      \* test configurations, see ConfigsOK
          Loads,        \* guest reads: <<address, bytes>>
          Stores,       \* guest writes: [addr, val]
          Swis,         \* supervisor calls the guest makes
          RegWords      \* what it has in the register an action names

Word(w) == [1..w -> Value]
Sizes == {1, 2, 4, 8}

DATA_MEM_BASE == RegionSize
STACK_BASE    == 2 * RegionSize
TLS_MEM_BASE  == 3 * RegionSize

DataBytes == DATA_MEM_BASE..(TLS_MEM_BASE - 1)      \* data, then stack
TlsBytes  == TLS_MEM_BASE..(TLS_MEM_BASE + RegionSize - 1)
Backed    == DataBytes \cup TlsBytes

Actions == {"read_tls", "write_tls", "halt"}
NoReg == -1         \* GetRegIndex of a name it does not know

Entries == [addr : Nat, val : Seq(Value)]

ASSUME SizesOK == RegionSize \in Nat /\ RegionSize >= 8 /\ CodeLen \in Nat
ASSUME ValuesOK == Zero \in Value /\ CodeMem \in [0..(CodeLen - 1) -> Word(4)]
ASSUME AccessesOK ==
  /\ Loads \subseteq Nat \X Sizes
  /\ \A s \in Stores : s.addr \in Nat /\ \E w \in Sizes : s.val \in Word(w)
  /\ Swis \subseteq Nat /\ RegWords \subseteq Word(4)
\* The entries come from a std::map: in ascending order of address.
ASSUME ConfigsOK ==
  \A c \in Configs :
    /\ c.data \in Seq(Entries) /\ c.tls \in Seq(Entries)
    /\ \A i, j \in 1..Len(c.data) : i < j => c.data[i].addr < c.data[j].addr
    /\ \A i, j \in 1..Len(c.tls) : i < j => c.tls[i].addr < c.tls[j].addr
    /\ c.svc \in Seq([svc_num : Nat, action : STRING, offset : Nat, value : Word(4),
                      reg : 0..15 \cup {NoReg}])
    /\ c.expected \subseteq [addr : Nat, byte : Value]

VARIABLES
  mem,         \* [data, tls]: data_mem and tls_mem by offset
  phase,       \* "load", "running", "halted", "done" or "aborted"
  config,      \* the test's configuration
  todoData,    \* entries of data_mem_init not written yet
  todoTls,     \* entries of tls_mem_init not written yet
  svcIndex,    \* svc_action_index, counted from 1
  bkptHit,     \* bkpt_hit
  unexpected,  \* unexpected_exception
  passed,      \* the verdict
  got          \* the last answer the environment gave: [addr, len, val, ok]

vars == <<mem, phase, config, todoData, todoTls, svcIndex, bkptHit, unexpected, passed, got>>
control == <<config, todoData, todoTls, passed>>

Mem == [data : [0..(2 * RegionSize - 1) -> Value], tls : [0..(RegionSize - 1) -> Value]]

-----------------------------------------------------------------------------
\* The buffers.

Blank(w) == [i \in 1..w |-> Zero]

\* Mutant of DataOffset: the stack's offset in data_mem forgotten.
DataOffsetOfRegion(a) == IF a < STACK_BASE THEN a - DATA_MEM_BASE ELSE a - STACK_BASE

\* data_mem holds the data region and behind it the stack region.
DataOffset(a) ==
  IF a < STACK_BASE THEN a - DATA_MEM_BASE ELSE RegionSize + (a - STACK_BASE)

InData(a, w) == a \in DataBytes /\ DataOffset(a) + w <= 2 * RegionSize
InTls(offset, w) == offset + w <= RegionSize
InBuffer(a, w) == InData(a, w) \/ (a \in TlsBytes /\ InTls(a - TLS_MEM_BASE, w))

\* ReadMemory<T>: a word that runs over the end of its buffer reads as zero.
ReadMemory(m, a, w) ==
  IF a \in TlsBytes /\ InTls(a - TLS_MEM_BASE, w) THEN Take(m.tls, a - TLS_MEM_BASE, w)
  ELSE IF InData(a, w) THEN Take(m.data, DataOffset(a), w)
  ELSE Blank(w)

\* Mutant of PutTls: the bounds looked at for the first byte only.
PutTlsCut(m, offset, v) ==
  IF InTls(offset, 1) THEN [m EXCEPT !.tls = Put(@, offset, v)] ELSE m

PutTls(m, offset, v) ==
  IF InTls(offset, Len(v)) THEN [m EXCEPT !.tls = Put(@, offset, v)] ELSE m
PutData(m, a, v) ==
  IF InData(a, Len(v)) THEN [m EXCEPT !.data = Put(@, DataOffset(a), v)] ELSE m

\* WriteMemory<T>: a word that runs over the end of its buffer is dropped.
WriteMemory(m, a, v) ==
  IF a \in TlsBytes THEN PutTls(m, a - TLS_MEM_BASE, v) ELSE PutData(m, a, v)

\* MemoryRead8 to MemoryRead64: a u32 or u64 read at a code address answers
\* with whole words of the code, whatever the address's low bits.
MemoryRead(m, a, w) ==
  LET i == a \div 4
  IN  IF w = 4 /\ a < RegionSize /\ i < CodeLen THEN CodeMem[i]
      ELSE IF w = 8 /\ a < RegionSize /\ i + 1 < CodeLen THEN CodeMem[i] \o CodeMem[i + 1]
      ELSE ReadMemory(m, a, w)

-----------------------------------------------------------------------------
\* Before the run.

Answer(a, w, v, ok) == [addr |-> a, len |-> w, val |-> v, ok |-> ok]
Nothing == Answer(0, 0, << >>, TRUE)

Init ==
  /\ config \in Configs
  /\ mem = [data |-> [x \in 0..(2 * RegionSize - 1) |-> Zero],
            tls |-> [x \in 0..(RegionSize - 1) |-> Zero]]
  /\ phase = "load"
  /\ todoData = config.data /\ todoTls = config.tls
  /\ svcIndex = 1
  /\ bkptHit = FALSE /\ unexpected = FALSE /\ passed = FALSE
  /\ got = Nothing

\* DataMem cannot reach the TLS region: entries there are skipped.
LoadDataMem ==
  /\ phase = "load" /\ todoData # << >>
  /\ mem' = PutData(mem, Head(todoData).addr, Head(todoData).val)
  /\ todoData' = Tail(todoData)
  /\ UNCHANGED <<phase, config, todoTls, svcIndex, bkptHit, unexpected, passed, got>>

LoadTlsData ==
  /\ phase = "load" /\ todoData = << >> /\ todoTls # << >>
  /\ mem' = PutTls(mem, Head(todoTls).addr, Head(todoTls).val)
  /\ todoTls' = Tail(todoTls)
  /\ UNCHANGED <<phase, config, todoData, svcIndex, bkptHit, unexpected, passed, got>>

StartRun ==
  /\ phase = "load" /\ todoData = << >> /\ todoTls = << >>
  /\ phase' = "running"
  /\ UNCHANGED <<mem, control, svcIndex, bkptHit, unexpected, got>>

-----------------------------------------------------------------------------
\* The run.

CallbackRead(a, w) ==
  /\ phase = "running"
  /\ got' = Answer(a, w, MemoryRead(mem, a, w), TRUE)
  /\ UNCHANGED <<mem, phase, control, svcIndex, bkptHit, unexpected>>

CallbackWrite(a, v) ==
  /\ phase = "running"
  /\ mem' = WriteMemory(mem, a, v)
  /\ UNCHANGED <<phase, control, svcIndex, bkptHit, unexpected, got>>

\* WriteMemoryExclusive<T>: a match counts as success, also when the store is
\* then dropped.
CallbackExclusive(a, v, expected) ==
  /\ phase = "running"
  /\ LET match == ReadMemory(mem, a, Len(v)) = expected
     IN  /\ got' = Answer(a, Len(v), << >>, match)
         /\ mem' = IF match THEN WriteMemory(mem, a, v) ELSE mem
  /\ UNCHANGED <<phase, control, svcIndex, bkptHit, unexpected>>

\* The scripted actions for swi that the scan has not passed yet.  An action
\* the runner does not know is passed like one for another number.
Scripted(swi) ==
  {i \in svcIndex..Len(config.svc) :
     config.svc[i].svc_num = swi /\ config.svc[i].action \in Actions}

\* Mutant of SvcAction: the index also advanced where the action is handled.
SvcActionSkipsNext(i, regWord) ==
  /\ svcIndex' = i + 2
  /\ UNCHANGED <<mem, got, phase>>

ReadTls32(m, offset) == IF InTls(offset, 4) THEN Take(m.tls, offset, 4) ELSE Blank(4)

\* A TLS read answers in the register the action names; a TLS write takes its
\* value from that register, and from the action only without one.
SvcAction(i, regWord) ==
  LET act == config.svc[i]
  IN  /\ svcIndex' = i + 1
      /\ mem' = IF act.action = "write_tls"
                THEN PutTls(mem, act.offset, IF act.reg = NoReg THEN act.value ELSE regWord)
                ELSE mem
      /\ got' = IF act.action = "read_tls" /\ act.reg # NoReg
                THEN Answer(TLS_MEM_BASE + act.offset, 4, ReadTls32(mem, act.offset), TRUE)
                ELSE got
      /\ phase' = IF act.action = "halt" THEN "halted" ELSE phase

\* A call without a scripted action aborts the process.
SvcAbort ==
  /\ svcIndex' = Len(config.svc) + 1
  /\ phase' = "aborted"
  /\ UNCHANGED <<mem, got>>

CallSVC(swi, regWord) ==
  /\ phase = "running"
  /\ LET scripted == Scripted(swi)
     IN  \/ \E i \in scripted : (\A j \in scripted : i <= j) /\ SvcAction(i, regWord)
         \/ scripted = {} /\ SvcAbort
  /\ UNCHANGED <<control, bkptHit, unexpected>>

Exceptions == {"Breakpoint", "Hint", "Other"}

\* BKPT is the end marker, hints are ignored, anything else fails the test.
ExceptionRaised(exception) ==
  /\ phase = "running"
  /\ bkptHit' = (bkptHit \/ exception = "Breakpoint")
  /\ unexpected' = (unexpected \/ exception = "Other")
  /\ phase' = IF exception = "Hint" THEN phase ELSE "halted"
  /\ UNCHANGED <<mem, control, svcIndex, got>>

\* AddTicks leaves no ticks: Run returns with nothing to tell why.
OutOfTicks ==
  /\ phase = "running"
  /\ phase' = "halted"
  /\ UNCHANGED <<mem, control, svcIndex, bkptHit, unexpected, got>>

\* Run throws: the test has failed without a check.
Throw ==
  /\ phase = "running"
  /\ phase' = "done"
  /\ UNCHANGED <<mem, control, svcIndex, bkptHit, unexpected, got>>

ExpectedMemory ==
  \A e \in config.expected : MemoryRead(mem, e.addr, 1) = <<e.byte>>

\* Mutant of Verify: a run that did not reach its end marker may pass.
VerifyWithoutMarker ==
  /\ phase = "halted"
  /\ phase' = "done"
  /\ \E registers \in BOOLEAN : passed' = (~unexpected /\ registers /\ ExpectedMemory)
  /\ UNCHANGED <<mem, config, todoData, todoTls, svcIndex, bkptHit, unexpected, got>>

\* The checks after the run; what the registers hold is the JIT's affair.
Verify ==
  /\ phase = "halted"
  /\ phase' = "done"
  /\ \E registers \in BOOLEAN :
       passed' = (~unexpected /\ bkptHit /\ registers /\ ExpectedMemory)
  /\ UNCHANGED <<mem, config, todoData, todoTls, svcIndex, bkptHit, unexpected, got>>

Load == LoadDataMem \/ LoadTlsData \/ StartRun
\* What the guest can have loaded before a store-exclusive of w bytes.
Expected(w) ==
  {Blank(w)} \cup {s.val : s \in {t \in Stores : InBuffer(t.addr, w) /\ Len(t.val) = w}}
GuestAccess ==
  \/ \E l \in Loads : CallbackRead(l[1], l[2])
  \/ \E s \in Stores :
       \/ CallbackWrite(s.addr, s.val)
       \/ \E e \in Expected(Len(s.val)) : CallbackExclusive(s.addr, s.val, e)
GuestSVC == \E swi \in Swis, regWord \in RegWords : CallSVC(swi, regWord)
Stop == (\E e \in Exceptions : ExceptionRaised(e)) \/ OutOfTicks \/ Throw \/ Verify

Next == Load \/ GuestAccess \/ GuestSVC \/ Stop

Spec == Init /\ [][Next]_vars

-----------------------------------------------------------------------------
\* Properties.

\* The buffers have a value for each byte, and the control state is what
\* A32AsmTestEnv and RunAsmTest give it.
TypeOK ==
  /\ mem \in Mem
  /\ phase \in {"load", "running", "halted", "done", "aborted"}
  /\ config \in Configs
  /\ todoData \in Seq(Entries) /\ todoTls \in Seq(Entries)
  /\ svcIndex \in 1..(Len(config.svc) + 1)
  /\ bkptHit \in BOOLEAN /\ unexpected \in BOOLEAN /\ passed \in BOOLEAN
=============================================================================
