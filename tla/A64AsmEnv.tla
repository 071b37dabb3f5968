----------------------------- MODULE A64AsmEnv -----------------------------
(***************************************************************************)
(* AsmTestEnv of the A64 asm runner (runners/asm/a64_asmtest.cpp): the     *)
(* memory a guest test program sees, and the callbacks the JIT makes.      *)
(*                                                                         *)
(* The environment keeps up to three copies of a cell: the data/stack and  *)
(* TLS buffers, the fastmem arena the compiled code accesses directly, and *)
(* a sparse map for any other address.  A cell is 32 bits: a u64 is two    *)
(* cells and a Vector four; narrower accesses are not told apart.          *)
(* Addresses count cells, so the 4 KiB regions become RegionSize cells.    *)
(***************************************************************************)
EXTENDS Words

CONSTANTS RegionSize,   \* cells of each of the four regions (1024 in the code)
          ArenaSize,    \* cells of the fastmem arena (16384 in the code)
          AddrLimit,    \* addresses modelled are below this bound
          Value,        \* contents of a cell
          Zero, HipcHigh, Magic,       \* 0, 0x0E and "SFCO" as cell contents
          CodeLen, CodeMem,            \* the assembled test program
          Configs,      \* test configurations: [mem, tls, svc], see ConfigsOK
          Loads,        \* guest reads: <<address, cells>>
          Stores,       \* guest writes: [addr, val]
          Swis,         \* supervisor calls the guest makes
          SvcOffsets,   \* offsets it passes in X1, in cells
          SvcWords      \* u64 values it passes in X0

Word(w) == [1..w -> Value]
Addr == 0..(AddrLimit - 1)

DATA_MEM_BASE == RegionSize
STACK_BASE    == 2 * RegionSize
TLS_MEM_BASE  == 3 * RegionSize

DataCells  == DATA_MEM_BASE..(TLS_MEM_BASE - 1)     \* data, then stack
TlsCells   == TLS_MEM_BASE..(TLS_MEM_BASE + RegionSize - 1)
ArenaCells == 0..(ArenaSize - 1)
Backed     == DataCells \cup TlsCells

\* Reads and writes of the sizes the JIT uses, inside the modelled addresses.
ASSUME SizesOK ==
  /\ RegionSize \in Nat /\ RegionSize >= 9
  /\ ArenaSize \in Nat /\ ArenaSize >= 4 * RegionSize
  /\ AddrLimit \in Nat /\ AddrLimit >= ArenaSize
  /\ CodeLen \in Nat
ASSUME ValuesOK ==
  /\ {Zero, HipcHigh, Magic} \subseteq Value
  /\ CodeMem \in [0..(CodeLen - 1) -> Value]
ASSUME AccessesOK ==
  /\ Loads \subseteq {l \in Addr \X {1, 2, 4} : l[1] + l[2] <= AddrLimit}
  /\ \A s \in Stores : /\ s.addr \in Addr
                       /\ \E w \in {1, 2, 4} : /\ s.val \in Word(w)
                                               /\ s.addr + w <= AddrLimit
ASSUME ConfigsOK ==
  \A c \in Configs :
    /\ c.mem \in Seq([addr : 0..(AddrLimit - 2), val : Word(2)])
    /\ c.tls \in Seq([offset : Nat, val : Word(2)])
    /\ c.svc \in Seq([svc_num : Nat, action : STRING, offset : Nat, value : Word(2)])
ASSUME SvcOK ==
  Swis \subseteq Nat /\ SvcOffsets \subseteq Nat /\ SvcWords \subseteq Word(2)

VARIABLES
  mem,         \* [buf, extra, arena]: the buffers data_mem and tls_mem,
               \* extra_mem and the fastmem arena, by guest address
  hasArena,    \* fastmem_arena is not null: the allocation succeeded
  phase,       \* "load", "running", "halted", "verified" or "aborted"
  config,      \* the test's configuration
  todoMem,     \* MemData entries not written yet
  todoTls,     \* TlsData entries not written yet
  svcIndex,    \* svc_action_index, counted from 1
  brkHit,      \* brk_hit
  unexpected,  \* unexpected_exception
  got,         \* the last answer the environment gave the guest
  dirty        \* cells the guest stored directly since the last sync (ghost)

vars == <<mem, hasArena, phase, config, todoMem, todoTls, svcIndex, brkHit,
          unexpected, got, dirty>>
setup == <<hasArena, config>>

Mem == [buf : [Backed -> Value], extra : [Addr -> Value], arena : [ArenaCells -> Value]]

-----------------------------------------------------------------------------
\* Copies between the stores, and the accesses built from them.

Blank(w) == [i \in 1..w |-> Zero]

\* The word lies in one buffer; data and stack share data_mem.
InBuffer(a, w) == Within(a, w, DataCells) \/ Within(a, w, TlsCells)
InArena(a, w) == hasArena /\ a + w <= ArenaSize

SyncCodeToFastmem(m) ==
  IF hasArena
  THEN [m EXCEPT !.arena = [x \in ArenaCells |->
          IF x < RegionSize /\ x < CodeLen THEN CodeMem[x] ELSE m.arena[x]]]
  ELSE m

SyncDataToFastmem(m) ==
  IF hasArena
  THEN [m EXCEPT !.arena = [x \in ArenaCells |->
          IF x \in Backed THEN m.buf[x] ELSE m.arena[x]]]
  ELSE m

\* Mutant of SyncFastmemToData: a memcpy of the whole arena over the buffers.
SyncFastmemToDataWhole(m) == IF hasArena THEN [m EXCEPT !.buf = m.arena] ELSE m

SyncFastmemToData(m) ==
  IF hasArena THEN [m EXCEPT !.buf = [x \in Backed |-> m.arena[x]]] ELSE m

\* ReadMemory<T>: the arena answers whenever the word lies in it; without an
\* arena a word that runs over the end of its buffer reads as zero.
ReadMemory(m, a, w) ==
  IF InArena(a, w) THEN Take(m.arena, a, w)
  ELSE IF a \notin Backed THEN Take(m.extra, a, w)
  ELSE IF InBuffer(a, w) THEN Take(m.buf, a, w)
  ELSE Blank(w)

\* Mutant of WriteMemory: the copy to the arena forgotten.
WriteMemoryBufferOnly(m, a, v) ==
  IF a \notin Backed THEN [m EXCEPT !.extra = Put(m.extra, a, v)]
  ELSE IF ~InBuffer(a, Len(v)) THEN m
  ELSE [m EXCEPT !.buf = Put(m.buf, a, v)]

\* WriteMemory<T>: a backed word goes to its buffer and the arena, a word that
\* runs over the end of its buffer is dropped, any other goes to extra_mem.
WriteMemory(m, a, v) ==
  IF a \notin Backed THEN [m EXCEPT !.extra = Put(m.extra, a, v)]
  ELSE IF ~InBuffer(a, Len(v)) THEN m
  ELSE [m EXCEPT !.buf = Put(m.buf, a, v),
                 !.arena = IF InArena(a, Len(v)) THEN Put(m.arena, a, v) ELSE @]

\* A Vector lies in one region, the stack being a region of its own.
InOneRegion(a) ==
  \E base \in {DATA_MEM_BASE, STACK_BASE, TLS_MEM_BASE} :
    a >= base /\ a + 4 <= base + RegionSize

TryWriteFastmem128(m, a, v) ==
  IF hasArena /\ InOneRegion(a) THEN [m EXCEPT !.arena = Put(m.arena, a, v)] ELSE m

\* MemoryRead32, MemoryRead64 and MemoryRead128, by the number of cells.
MemoryRead(m, a, w) ==
  IF a < RegionSize /\ a + w <= CodeLen THEN Take(CodeMem, a, w)
  ELSE IF w < 4 THEN ReadMemory(m, a, w)
  ELSE IF hasArena /\ InOneRegion(a) THEN Take(m.arena, a, 4)
  ELSE ReadMemory(m, a, 2) \o ReadMemory(m, a + 2, 2)

\* MemoryWrite32, MemoryWrite64 and MemoryWrite128.
MemoryWrite(m, a, v) ==
  IF Len(v) < 4 THEN WriteMemory(m, a, v)
  ELSE WriteMemory(WriteMemory(TryWriteFastmem128(m, a, v), a, <<v[1], v[2]>>),
                   a + 2, <<v[3], v[4]>>)

\* The word MemoryWriteExclusive compares with what the guest loaded before:
\* only the Vector form looks at code memory first.
ExclusiveRead(m, a, w) == IF w < 4 THEN ReadMemory(m, a, w) ELSE MemoryRead(m, a, w)

\* ReadTlsMemory and WriteTlsMemory: the supervisor works on the buffer.
InTls(offset) == offset + 2 <= RegionSize
ReadTlsMemory(m, offset) ==
  IF InTls(offset) THEN Take(m.buf, TLS_MEM_BASE + offset, 2) ELSE Blank(2)
WriteTlsMemory(m, offset, v) ==
  IF InTls(offset) THEN [m EXCEPT !.buf = Put(m.buf, TLS_MEM_BASE + offset, v)] ELSE m

-----------------------------------------------------------------------------
\* Before the run: RunAsmTest fills the stores from the configuration.

Answer(a, v, ok) == [addr |-> a, val |-> v, ok |-> ok]
Nothing == Answer(0, << >>, TRUE)

Init ==
  /\ hasArena \in BOOLEAN
  /\ config \in Configs
  /\ mem = [buf |-> [x \in Backed |-> Zero], extra |-> [x \in Addr |-> Zero],
            arena |-> [x \in ArenaCells |-> Zero]]
  /\ phase = "load"
  /\ todoMem = config.mem /\ todoTls = config.tls
  /\ svcIndex = 1
  /\ brkHit = FALSE /\ unexpected = FALSE
  /\ got = Nothing
  /\ dirty = {}

LoadMemData ==
  /\ phase = "load" /\ todoMem # << >>
  /\ mem' = WriteMemory(mem, Head(todoMem).addr, Head(todoMem).val)
  /\ todoMem' = Tail(todoMem)
  /\ UNCHANGED <<setup, phase, todoTls, svcIndex, brkHit, unexpected, got, dirty>>

\* Mutant of LoadTlsData: not kept behind MemData.
LoadTlsDataAnyTime ==
  /\ phase = "load" /\ todoTls # << >>
  /\ mem' = WriteTlsMemory(mem, Head(todoTls).offset, Head(todoTls).val)
  /\ todoTls' = Tail(todoTls)
  /\ UNCHANGED <<setup, phase, todoMem, svcIndex, brkHit, unexpected, got, dirty>>

\* TlsData is copied to the buffer only: the sync before the run publishes it.
LoadTlsData ==
  /\ phase = "load" /\ todoMem = << >> /\ todoTls # << >>
  /\ mem' = WriteTlsMemory(mem, Head(todoTls).offset, Head(todoTls).val)
  /\ todoTls' = Tail(todoTls)
  /\ UNCHANGED <<setup, phase, todoMem, svcIndex, brkHit, unexpected, got, dirty>>

StartRun ==
  /\ phase = "load" /\ todoMem = << >> /\ todoTls = << >>
  /\ mem' = SyncDataToFastmem(SyncCodeToFastmem(mem))
  /\ phase' = "running"
  /\ UNCHANGED <<setup, todoMem, todoTls, svcIndex, brkHit, unexpected, got, dirty>>

-----------------------------------------------------------------------------
\* The guest's own accesses.  Compiled code reaches the arena directly where
\* the backend supports fastmem, and calls back otherwise: either may happen
\* to any access inside the arena, and only the callback outside it.

control == <<setup, todoMem, todoTls, svcIndex>>

FastLoad(a, w) ==
  /\ phase = "running" /\ InArena(a, w)
  /\ got' = Answer(a, Take(mem.arena, a, w), TRUE)
  /\ UNCHANGED <<mem, control, phase, brkHit, unexpected, dirty>>

FastStore(a, v) ==
  /\ phase = "running" /\ InArena(a, Len(v))
  /\ mem' = [mem EXCEPT !.arena = Put(@, a, v)]
  /\ dirty' = dirty \cup (Backed \cap (a..(a + Len(v) - 1)))
  /\ UNCHANGED <<control, phase, brkHit, unexpected, got>>

\* fastmem_exclusive_access: compare and swap on the arena itself.
FastExclusive(a, v, expected) ==
  /\ phase = "running" /\ InArena(a, Len(v))
  /\ LET match == Take(mem.arena, a, Len(v)) = expected
     IN  /\ got' = Answer(a, << >>, match)
         /\ mem' = IF match THEN [mem EXCEPT !.arena = Put(@, a, v)] ELSE mem
         /\ dirty' = IF match THEN dirty \cup (Backed \cap (a..(a + Len(v) - 1)))
                     ELSE dirty
  /\ UNCHANGED <<control, phase, brkHit, unexpected>>

CallbackRead(a, w) ==
  /\ phase = "running"
  /\ got' = Answer(a, MemoryRead(mem, a, w), TRUE)
  /\ UNCHANGED <<mem, control, phase, brkHit, unexpected, dirty>>

CallbackWrite(a, v) ==
  /\ phase = "running"
  /\ mem' = MemoryWrite(mem, a, v)
  /\ UNCHANGED <<control, phase, brkHit, unexpected, got, dirty>>

CallbackExclusive(a, v, expected) ==
  /\ phase = "running"
  /\ LET match == ExclusiveRead(mem, a, Len(v)) = expected
     IN  /\ got' = Answer(a, << >>, match)
         /\ mem' = IF match THEN MemoryWrite(mem, a, v) ELSE mem
  /\ UNCHANGED <<control, phase, brkHit, unexpected, dirty>>

-----------------------------------------------------------------------------
\* Supervisor calls.  The handler works on the buffers, so it first takes the
\* guest's direct stores over and, when it is done, publishes its own.

READ_TLS == {16, 20, 21}        \* 0x10, 0x14, 0x15
WRITE_TLS == {17, 22, 23}       \* 0x11, 0x16, 0x17
NO_MEMORY == {18, 19, 48}       \* TPIDR_EL0 moves and the fence
VERIFY_IPC == 32
RESPOND_IPC == 33
FORCE_HALT == 255
Known == READ_TLS \cup WRITE_TLS \cup NO_MEMORY \cup {VERIFY_IPC, RESPOND_IPC, FORCE_HALT}

\* A read beyond the region answers zero, which is not a cell of memory.
TlsAnswer(m, offset) ==
  IF InTls(offset) THEN Answer(TLS_MEM_BASE + offset, ReadTlsMemory(m, offset), TRUE)
  ELSE Nothing

\* Mutant of IpcResponse: the header's high word first.
IpcResponseHighFirst(m) ==
  LET Store(n, offset, low) == WriteTlsMemory(n, offset, <<low, Zero>>)
      header  == Store(Store(m, 1, HipcHigh), 0, Zero)
      magic   == Store(header, 4, Magic)
  IN  Store(Store(Store(magic, 5, Zero), 6, Zero), 7, Zero)

\* Six u64 stores, some at u32 strides: each clears the cell after its own.
IpcResponse(m) ==
  LET Store(n, offset, low) == WriteTlsMemory(n, offset, <<low, Zero>>)
      header  == Store(Store(m, 0, Zero), 1, HipcHigh)
      magic   == Store(header, 4, Magic)
  IN  Store(Store(Store(magic, 5, Zero), 6, Zero), 7, Zero)

\* The scripted actions for swi that the scan has not passed yet.
Scripted(swi) == {i \in svcIndex..Len(config.svc) : config.svc[i].svc_num = swi}

SvcEnd(m) ==
  /\ mem' = m
  /\ brkHit' = TRUE /\ phase' = "halted"
  /\ UNCHANGED <<svcIndex, got>>

\* The scan passes the actions for other numbers: they are lost.
SvcAction(m, i) ==
  LET act == config.svc[i]
  IN  /\ svcIndex' = i + 1
      /\ mem' = SyncDataToFastmem(IF act.action = "write_tls"
                                  THEN WriteTlsMemory(m, act.offset, act.value) ELSE m)
      /\ got' = IF act.action \in {"read_tls", "verify_layout"}
                THEN TlsAnswer(m, act.offset) ELSE got
      /\ phase' = IF act.action = "halt" THEN "halted" ELSE phase
      /\ UNCHANGED brkHit

SvcDefault(m, swi, x0, offset) ==
  /\ swi \in Known
  /\ svcIndex' = Len(config.svc) + 1
  /\ mem' = SyncDataToFastmem(
              IF swi \in WRITE_TLS THEN WriteTlsMemory(m, offset, x0)
              ELSE IF swi = RESPOND_IPC THEN IpcResponse(m) ELSE m)
  /\ got' = IF swi \in READ_TLS THEN TlsAnswer(m, offset)
            ELSE IF swi = VERIFY_IPC THEN TlsAnswer(m, 4) ELSE got
  /\ phase' = IF swi = FORCE_HALT THEN "halted" ELSE phase
  /\ UNCHANGED brkHit

\* An unknown number aborts the process.
SvcAbort(m, swi) ==
  /\ swi \notin Known
  /\ svcIndex' = Len(config.svc) + 1
  /\ mem' = m
  /\ phase' = "aborted"
  /\ UNCHANGED <<brkHit, got>>

CallSVC(swi, x0, offset) ==
  /\ phase = "running"
  /\ LET m == SyncFastmemToData(mem)
         scripted == Scripted(swi)
     IN  \/ swi = 0 /\ SvcEnd(m)
         \/ /\ swi # 0
            /\ \E i \in scripted : (\A j \in scripted : i <= j) /\ SvcAction(m, i)
         \/ swi # 0 /\ scripted = {} /\ SvcDefault(m, swi, x0, offset)
         \/ swi # 0 /\ scripted = {} /\ SvcAbort(m, swi)
  /\ dirty' = {}
  /\ UNCHANGED <<setup, todoMem, todoTls, unexpected>>

-----------------------------------------------------------------------------
\* The end of the run.

Exceptions == {"Breakpoint", "Hint", "Other"}

\* BRK is the end marker, hints are ignored, anything else fails the test.
ExceptionRaised(exception) ==
  /\ phase = "running"
  /\ brkHit' = (brkHit \/ exception = "Breakpoint")
  /\ unexpected' = (unexpected \/ exception = "Other")
  /\ phase' = IF exception = "Hint" THEN phase ELSE "halted"
  /\ UNCHANGED <<mem, control, got, dirty>>

\* AddTicks leaves no ticks: Run returns with nothing to tell why.
OutOfTicks ==
  /\ phase = "running"
  /\ phase' = "halted"
  /\ UNCHANGED <<mem, control, brkHit, unexpected, got, dirty>>

\* RunAsmTest brings the buffers up to date before it looks at the results.
SyncForVerification ==
  /\ phase = "halted"
  /\ mem' = SyncFastmemToData(mem)
  /\ dirty' = {}
  /\ phase' = "verified"
  /\ UNCHANGED <<control, brkHit, unexpected, got>>

Load == LoadMemData \/ LoadTlsData \/ StartRun
GuestAccess ==
  \/ \E l \in Loads : FastLoad(l[1], l[2]) \/ CallbackRead(l[1], l[2])
  \/ \E s \in Stores : FastStore(s.addr, s.val) \/ CallbackWrite(s.addr, s.val)
Expected(w) == {Blank(w)} \cup {s.val : s \in {t \in Stores : Len(t.val) = w}}
GuestExclusive ==
  \E s \in Stores : \E e \in Expected(Len(s.val)) :
    FastExclusive(s.addr, s.val, e) \/ CallbackExclusive(s.addr, s.val, e)
GuestSVC ==
  \E swi \in Swis, x0 \in SvcWords, offset \in SvcOffsets : CallSVC(swi, x0, offset)
Stop == (\E e \in Exceptions : ExceptionRaised(e)) \/ OutOfTicks \/ SyncForVerification

Next == Load \/ GuestAccess \/ GuestExclusive \/ GuestSVC \/ Stop

Spec == Init /\ [][Next]_vars

-----------------------------------------------------------------------------
\* Properties.

\* Every store has a value for each of its cells, and the control state is
\* what AsmTestEnv and RunAsmTest give it.
TypeOK ==
  /\ mem \in Mem
  /\ hasArena \in BOOLEAN
  /\ config \in Configs
  /\ phase \in {"load", "running", "halted", "verified", "aborted"}
  /\ todoMem \in Seq([addr : 0..(AddrLimit - 2), val : Word(2)])
  /\ todoTls \in Seq([offset : Nat, val : Word(2)])
  /\ svcIndex \in Nat \ {0}
  /\ brkHit \in BOOLEAN /\ unexpected \in BOOLEAN
  /\ dirty \subseteq Backed

\* CallSVC's "keep them coherent": once the run has started, a buffer differs
\* from the arena only in cells the guest stored directly since the last
\* sync.  No callback write, supervisor call or final sync leaves a buffer
\* and the arena disagreeing about anything else.
Coherent ==
  hasArena /\ phase # "load" =>
    \A x \in Backed \ dirty : mem.buf[x] = mem.arena[x]

\* "Extra memory for arbitrary addresses (MemData)": when the run starts, a
\* callback reads at an address of MemData the word the configuration put
\* there, unless a later entry, TlsData or the code itself overwrote it.
MemDataVisible ==
  phase = "load" /\ todoMem = << >> /\ todoTls = << >> =>
    \A i \in 1..Len(config.mem) :
      LET e == config.mem[i]
          overwritten ==
            \/ \E j \in (i + 1)..Len(config.mem) :
                 config.mem[j].addr \in (e.addr - 1)..(e.addr + 1)
            \/ e.addr + 1 \in TlsCells /\ config.tls # << >>
            \/ e.addr < RegionSize
      IN  overwritten \/
          ReadMemory(SyncDataToFastmem(SyncCodeToFastmem(mem)), e.addr, 2) = e.val
=============================================================================
