---------------------------- MODULE A64AsmProof ----------------------------
(***************************************************************************)
(* TypeOK and Coherent hold of A64AsmEnv for every region size, arena size,*)
(* program, configuration and set of guest accesses.  The two together are *)
(* inductive: a callback write preserves the agreement of the buffers and  *)
(* the arena cell by cell, a direct store disturbs it only in cells it     *)
(* adds to dirty, and every sync restores it everywhere.                   *)
(***************************************************************************)
EXTENDS A64AsmEnv, SequenceTheorems, TLAPS

\* A function on 1..w is a sequence of length w.
LEMMA WordIsSeq ==
  ASSUME NEW w \in Nat, NEW v \in Word(w)
  PROVE  v \in Seq(Value) /\ Len(v) = w
<1>1. v \in Seq(Value)
  BY DEF Word
<1>2. DOMAIN v = 1..w
  BY DEF Word
<1>3. DOMAIN v = 1..Len(v) /\ Len(v) \in Nat
  BY <1>1, LenProperties
<1> QED BY <1>1, <1>2, <1>3

\* A store keeps the domain and the range of the memory it changes, and two
\* memories that agree on a cell agree on it after the same store.
LEMMA PutType ==
  ASSUME NEW D, NEW f \in [D -> Value], NEW a \in Int, D \subseteq Int,
         NEW w \in Nat, NEW v \in Word(w)
  PROVE  Put(f, a, v) \in [D -> Value]
<1>1. Len(v) = w
  BY WordIsSeq
<1>2. \A x \in a..(a + w - 1) : x - a + 1 \in 1..w
  OBVIOUS
<1>3. \A x \in a..(a + w - 1) : v[x - a + 1] \in Value
  BY <1>2 DEF Word
<1>4. Put(f, a, v) = [x \in D |-> IF x \in a..(a + w - 1) THEN v[x - a + 1] ELSE f[x]]
  BY <1>1 DEF Put
<1> QED BY <1>3, <1>4

LEMMA PutAgrees ==
  ASSUME NEW f, NEW g, NEW a, NEW v, NEW x \in DOMAIN f \cap DOMAIN g, f[x] = g[x]
  PROVE  Put(f, a, v)[x] = Put(g, a, v)[x]
BY DEF Put

\* The regions of the memory map lie inside the arena.
LEMMA Layout ==
  /\ DataCells = RegionSize..(3 * RegionSize - 1)
  /\ TlsCells = (3 * RegionSize)..(4 * RegionSize - 1)
  /\ Backed = RegionSize..(4 * RegionSize - 1)
  /\ Backed \subseteq ArenaCells /\ ArenaCells \subseteq Addr
  /\ Addr \subseteq Int
<1>1. RegionSize \in Nat /\ ArenaSize \in Nat /\ AddrLimit \in Nat
  BY SizesOK
<1>2. DataCells = RegionSize..(3 * RegionSize - 1)
  BY <1>1 DEF DataCells, DATA_MEM_BASE, TLS_MEM_BASE
<1>3. TlsCells = (3 * RegionSize)..(4 * RegionSize - 1)
  BY <1>1 DEF TlsCells, TLS_MEM_BASE
<1>4. Backed = RegionSize..(4 * RegionSize - 1)
  BY <1>1, <1>2, <1>3 DEF Backed
<1> QED BY <1>1, <1>2, <1>3, <1>4, SizesOK DEF ArenaCells, Addr

Agree(m, S) == \A x \in S : m.buf[x] = m.arena[x]

\* A word that lies in a buffer lies in the arena, and is written to both.
LEMMA WriteMemoryInBuffer ==
  ASSUME NEW m \in Mem, NEW a \in Nat, NEW w \in Nat \ {0}, NEW v \in Word(w),
         InBuffer(a, w), hasArena \in BOOLEAN
  PROVE  /\ WriteMemory(m, a, v).buf = Put(m.buf, a, v)
         /\ WriteMemory(m, a, v).arena = IF hasArena THEN Put(m.arena, a, v) ELSE m.arena
         /\ WriteMemory(m, a, v).extra = m.extra
         /\ WriteMemory(m, a, v) \in Mem
<1>1. Len(v) = w
  BY WordIsSeq
<1>2. a \in Backed /\ a + w <= ArenaSize
  BY Layout, SizesOK DEF InBuffer, Within
<1>3. WriteMemory(m, a, v) =
        [m EXCEPT !.buf = Put(m.buf, a, v),
                  !.arena = IF hasArena THEN Put(m.arena, a, v) ELSE m.arena]
  BY <1>1, <1>2 DEF WriteMemory, InArena, Mem
<1>4. a \in Int /\ w \in Nat /\ Backed \subseteq Int /\ ArenaCells \subseteq Int
  BY Layout
<1>5. m.buf \in [Backed -> Value] /\ m.arena \in [ArenaCells -> Value]
  BY DEF Mem
<1>6. Put(m.buf, a, v) \in [Backed -> Value]
  BY <1>4, <1>5, PutType, Zenon
<1>7. Put(m.arena, a, v) \in [ArenaCells -> Value]
  BY <1>4, <1>5, PutType, Zenon
<1> QED BY <1>3, <1>6, <1>7 DEF Mem

\* WriteMemory writes a cell of a buffer and of the arena together.
LEMMA WriteMemoryAgrees ==
  ASSUME NEW m \in Mem, NEW a \in Nat, NEW w \in Nat \ {0}, NEW v \in Word(w),
         NEW S \in SUBSET Backed, hasArena \in BOOLEAN
  PROVE  /\ WriteMemory(m, a, v) \in Mem
         /\ hasArena /\ Agree(m, S) => Agree(WriteMemory(m, a, v), S)
<1>1. Len(v) = w
  BY WordIsSeq
<1>2. /\ m.extra \in [Addr -> Value] /\ m.buf \in [Backed -> Value]
      /\ m.arena \in [ArenaCells -> Value]
  BY DEF Mem
<1>6. Put(m.extra, a, v) \in [Addr -> Value]
  <2>1. a \in Int /\ w \in Nat /\ Addr \subseteq Int
    BY Layout
  <2> QED BY <1>2, <2>1, PutType, Zenon
<1>3. CASE a \notin Backed
  <2>1. WriteMemory(m, a, v) = [m EXCEPT !.extra = Put(m.extra, a, v)]
    BY <1>3 DEF WriteMemory
  <2> QED BY <2>1, <1>6 DEF Mem, Agree
<1>4. CASE a \in Backed /\ ~InBuffer(a, Len(v))
  BY <1>4 DEF WriteMemory
<1>5. CASE InBuffer(a, Len(v))
  <2>1. /\ WriteMemory(m, a, v).buf = Put(m.buf, a, v)
        /\ hasArena => WriteMemory(m, a, v).arena = Put(m.arena, a, v)
        /\ WriteMemory(m, a, v) \in Mem
    BY <1>1, <1>5, WriteMemoryInBuffer
  <2>2. \A x \in S : x \in Backed /\ x \in ArenaCells
    BY Layout
  <2>3. ASSUME NEW x \in S, m.buf[x] = m.arena[x]
        PROVE  Put(m.buf, a, v)[x] = Put(m.arena, a, v)[x]
    BY <2>2, <2>3, <1>2, PutAgrees
  <2> QED BY <2>1, <2>3 DEF Agree
<1> QED BY <1>3, <1>4, <1>5

\* MemoryWrite writes a Vector as two words, after the arena has it whole.
LEMMA MemoryWriteAgrees ==
  ASSUME NEW m \in Mem, NEW a \in Nat, NEW w \in {1, 2, 4}, NEW v \in Word(w),
         NEW S \in SUBSET Backed, hasArena \in BOOLEAN
  PROVE  /\ MemoryWrite(m, a, v) \in Mem
         /\ hasArena /\ Agree(m, S) => Agree(MemoryWrite(m, a, v), S)
<1>1. Len(v) = w
  BY WordIsSeq
<1>2. CASE w < 4
  BY <1>1, <1>2, WriteMemoryAgrees DEF MemoryWrite
<1>3. CASE w = 4
  <2> DEFINE n == TryWriteFastmem128(m, a, v)
             low == <<v[1], v[2]>>
             high == <<v[3], v[4]>>
             half == WriteMemory(n, a, low)
             out == WriteMemory(half, a + 2, high)
  <2>1. low \in Word(2) /\ high \in Word(2)
    BY <1>3 DEF Word
  <2>2. MemoryWrite(m, a, v) = out
    BY <1>1, <1>3 DEF MemoryWrite
  <2>3. n \in Mem
    <3>1. m.arena \in [ArenaCells -> Value] /\ ArenaCells \subseteq Int
      BY Layout DEF Mem
    <3>2. a \in Int /\ w \in Nat
      OBVIOUS
    <3>3. Put(m.arena, a, v) \in [ArenaCells -> Value]
      BY <3>1, <3>2, PutType, Zenon
    <3> QED BY <3>3 DEF TryWriteFastmem128, Mem
  <2>4. half \in Mem
    BY <2>1, <2>3, WriteMemoryAgrees
  <2>5. out \in Mem
    BY <2>1, <2>4, WriteMemoryAgrees
  <2>6. ASSUME hasArena, Agree(m, S)
        PROVE  Agree(out, S)
    <3>1. CASE ~InOneRegion(a)
      <4>1. n = m
        BY <3>1 DEF TryWriteFastmem128
      <4>2. Agree(half, S)
        BY <2>1, <2>6, <4>1, WriteMemoryAgrees
      <4> HIDE DEF half, low, high
      <4> a + 2 \in Nat /\ 2 \in Nat \ {0}
        OBVIOUS
      <4> QED BY <2>1, <2>4, <2>6, <4>2, WriteMemoryAgrees
    <3>2. CASE InOneRegion(a)
      \* The early copy puts the arena ahead in the four cells only, and the
      \* two halves, which lie in the same buffer, catch up with it.
      <4>1. /\ a \in RegionSize..(4 * RegionSize - 1)
            /\ InBuffer(a, 2) /\ InBuffer(a + 2, 2)
        BY <3>2, Layout, SizesOK
           DEF InOneRegion, InBuffer, Within, DATA_MEM_BASE, STACK_BASE, TLS_MEM_BASE
      <4>2. n.buf = m.buf /\ n.arena = Put(m.arena, a, v)
        BY <2>6, <3>2 DEF TryWriteFastmem128, Mem
      <4>3. half.buf = Put(n.buf, a, low) /\ half.arena = Put(n.arena, a, low)
        BY <2>1, <2>3, <2>6, <4>1, WriteMemoryInBuffer
      <4> HIDE DEF n, half, low, high
      <4> a + 2 \in Nat /\ 2 \in Nat \ {0}
        OBVIOUS
      <4>4. /\ out.buf = Put(half.buf, a + 2, high)
            /\ out.arena = Put(half.arena, a + 2, high)
        BY <2>1, <2>4, <2>6, <4>1, WriteMemoryInBuffer
      <4>5. /\ out.buf = Put(Put(m.buf, a, low), a + 2, high)
            /\ out.arena = Put(Put(Put(m.arena, a, v), a, low), a + 2, high)
        BY <4>2, <4>3, <4>4
      <4> HIDE DEF out
      <4>6. /\ Len(low) = 2 /\ low[1] = v[1] /\ low[2] = v[2]
            /\ Len(high) = 2 /\ high[1] = v[3] /\ high[2] = v[4]
            /\ Len(v) = 4
        BY <1>1, <1>3 DEF low, high
      <4>7. ASSUME NEW x \in S
            PROVE  Put(Put(m.buf, a, low), a + 2, high)[x] =
                     Put(Put(Put(m.arena, a, v), a, low), a + 2, high)[x]
        <5>1. /\ x \in Backed /\ x \in ArenaCells /\ x \in Int
              /\ DOMAIN m.buf = Backed /\ DOMAIN m.arena = ArenaCells
              /\ m.buf[x] = m.arena[x]
          BY <2>6, Layout DEF Mem, Agree
        <5>2. x \in a..(a + 3) <=> x \in a..(a + 1) \/ x \in (a + 2)..(a + 3)
          BY <5>1
        <5> QED BY <4>6, <5>1, <5>2 DEF Put
      <4> QED BY <4>5, <4>7 DEF Agree
    <3> QED BY <3>1, <3>2
  <2> QED BY <2>2, <2>5, <2>6
<1> QED BY <1>2, <1>3

-----------------------------------------------------------------------------
\* The copies between the stores, and the supervisor's own writes.

LEMMA SyncInAgrees ==
  ASSUME NEW m \in Mem, hasArena \in BOOLEAN
  PROVE  /\ SyncFastmemToData(m) \in Mem
         /\ hasArena => Agree(SyncFastmemToData(m), Backed)
<1>1. Backed \subseteq ArenaCells
  BY Layout
<1>2. [x \in Backed |-> m.arena[x]] \in [Backed -> Value]
  BY <1>1 DEF Mem
<1> QED BY <1>2 DEF SyncFastmemToData, Mem, Agree

LEMMA SyncOutAgrees ==
  ASSUME NEW m \in Mem, hasArena \in BOOLEAN
  PROVE  /\ SyncDataToFastmem(m) \in Mem
         /\ hasArena => Agree(SyncDataToFastmem(m), Backed)
<1>1. Backed \subseteq ArenaCells
  BY Layout
<1>2. [x \in ArenaCells |-> IF x \in Backed THEN m.buf[x] ELSE m.arena[x]]
        \in [ArenaCells -> Value]
  BY DEF Mem
<1> QED BY <1>1, <1>2 DEF SyncDataToFastmem, Mem, Agree

LEMMA SyncCodeType ==
  ASSUME NEW m \in Mem, hasArena \in BOOLEAN
  PROVE  SyncCodeToFastmem(m) \in Mem
<1>1. [x \in ArenaCells |-> IF x < RegionSize /\ x < CodeLen THEN CodeMem[x] ELSE m.arena[x]]
        \in [ArenaCells -> Value]
  BY SizesOK, ValuesOK DEF Mem, ArenaCells
<1> QED BY <1>1 DEF SyncCodeToFastmem, Mem

LEMMA WriteTlsType ==
  ASSUME NEW m \in Mem, NEW offset \in Nat, NEW v \in Word(2)
  PROVE  WriteTlsMemory(m, offset, v) \in Mem
<1>1. TLS_MEM_BASE + offset \in Int /\ 2 \in Nat /\ Backed \subseteq Int
  BY SizesOK, Layout DEF TLS_MEM_BASE
<1>2. m.buf \in [Backed -> Value]
  BY DEF Mem
<1>3. Put(m.buf, TLS_MEM_BASE + offset, v) \in [Backed -> Value]
  BY <1>1, <1>2, PutType, Zenon
<1> QED BY <1>3 DEF WriteTlsMemory, Mem

LEMMA IpcResponseType ==
  ASSUME NEW m \in Mem
  PROVE  IpcResponse(m) \in Mem
<1>1. \A x \in {Zero, HipcHigh, Magic} : <<x, Zero>> \in Word(2)
  BY ValuesOK DEF Word
<1> DEFINE Store(n, offset, low) == WriteTlsMemory(n, offset, <<low, Zero>>)
<1>2. \A n \in Mem, offset \in Nat, x \in {Zero, HipcHigh, Magic} : Store(n, offset, x) \in Mem
  BY <1>1, WriteTlsType
<1>3. IpcResponse(m) =
        Store(Store(Store(Store(Store(Store(m, 0, Zero), 1, HipcHigh), 4, Magic),
                          5, Zero), 6, Zero), 7, Zero)
  BY DEF IpcResponse
<1> HIDE DEF Store
<1> QED BY <1>2, <1>3

-----------------------------------------------------------------------------
\* TypeOK and Coherent, together, are inductive.

IInv == TypeOK /\ Coherent

LEMMA InitIInv == Init => IInv
<1> SUFFICES ASSUME Init PROVE IInv
  OBVIOUS
<1>1. Zero \in Value /\ config \in Configs
  BY ValuesOK DEF Init
<1>2. mem \in Mem
  BY <1>1 DEF Init, Mem
<1>3. /\ config.mem \in Seq([addr : 0..(AddrLimit - 2), val : Word(2)])
      /\ config.tls \in Seq([offset : Nat, val : Word(2)])
  BY <1>1, ConfigsOK
<1>4. /\ hasArena \in BOOLEAN /\ phase = "load" /\ brkHit = FALSE /\ unexpected = FALSE
      /\ todoMem = config.mem /\ todoTls = config.tls /\ svcIndex = 1 /\ dirty = {}
  BY DEF Init
<1>5. brkHit \in BOOLEAN /\ unexpected \in BOOLEAN
  BY <1>4, Zenon
<1>8. svcIndex \in Nat \ {0} /\ dirty \subseteq Backed
  BY <1>4
<1>6. /\ todoMem \in Seq([addr : 0..(AddrLimit - 2), val : Word(2)])
      /\ todoTls \in Seq([offset : Nat, val : Word(2)])
  BY <1>3, <1>4, Zenon
<1>7. TypeOK
  BY <1>1, <1>2, <1>4, <1>5, <1>6, <1>8 DEF TypeOK
<1> QED BY <1>4, <1>7 DEF IInv, Coherent

LEMMA LoadIInv == IInv /\ Load => IInv'
<1> SUFFICES ASSUME IInv, Load PROVE IInv'
  OBVIOUS
<1> USE DEF IInv
<1>1. mem \in Mem /\ hasArena \in BOOLEAN
  BY DEF TypeOK
<1>2. CASE LoadMemData
  <2> DEFINE e == Head(todoMem)
  <2>1. /\ e \in [addr : 0..(AddrLimit - 2), val : Word(2)]
        /\ Tail(todoMem) \in Seq([addr : 0..(AddrLimit - 2), val : Word(2)])
    BY <1>2, HeadTailProperties DEF LoadMemData, TypeOK
  <2>2. e.addr \in Nat /\ e.val \in Word(2)
    BY <2>1, SizesOK
  <2>3. WriteMemory(mem, e.addr, e.val) \in Mem
    BY <1>1, <2>2, WriteMemoryAgrees
  <2>4. TypeOK'
    BY <1>2, <2>1, <2>3 DEF LoadMemData, TypeOK, setup
  <2> QED BY <1>2, <2>4 DEF LoadMemData, Coherent
<1>3. CASE LoadTlsData
  <2> DEFINE e == Head(todoTls)
  <2>1. /\ e \in [offset : Nat, val : Word(2)]
        /\ Tail(todoTls) \in Seq([offset : Nat, val : Word(2)])
    BY <1>3, HeadTailProperties DEF LoadTlsData, TypeOK
  <2>2. WriteTlsMemory(mem, e.offset, e.val) \in Mem
    BY <1>1, <2>1, WriteTlsType
  <2>3. TypeOK'
    BY <1>3, <2>1, <2>2 DEF LoadTlsData, TypeOK, setup
  <2> QED BY <1>3, <2>3 DEF LoadTlsData, Coherent
<1>4. CASE StartRun
  <2>1. SyncCodeToFastmem(mem) \in Mem
    BY <1>1, SyncCodeType
  <2>2. /\ mem' \in Mem
        /\ hasArena => Agree(mem', Backed)
    BY <1>1, <1>4, <2>1, SyncOutAgrees DEF StartRun
  <2> QED BY <1>4, <2>2 DEF StartRun, TypeOK, Coherent, Agree, setup
<1> QED BY <1>2, <1>3, <1>4 DEF Load

\* A direct store disturbs only cells it adds to dirty.
LEMMA DirectStore ==
  ASSUME IInv, phase = "running", NEW a \in Nat, NEW w \in {1, 2, 4}, NEW v \in Word(w),
         mem' = [mem EXCEPT !.arena = Put(@, a, v)],
         dirty' = dirty \cup (Backed \cap (a..(a + Len(v) - 1)))
  PROVE  /\ mem' \in Mem /\ dirty' \subseteq Backed
         /\ hasArena => Agree(mem', Backed \ dirty')
<1>1. mem \in Mem /\ dirty \subseteq Backed
  BY DEF IInv, TypeOK
<1>2. /\ mem.arena \in [ArenaCells -> Value] /\ a \in Int /\ w \in Nat
      /\ ArenaCells \subseteq Int /\ Backed \subseteq ArenaCells
  BY <1>1, Layout DEF Mem
<1>3. Put(mem.arena, a, v) \in [ArenaCells -> Value]
  BY <1>2, PutType, Zenon
<1>4. mem' \in Mem /\ mem'.buf = mem.buf /\ mem'.arena = Put(mem.arena, a, v)
  BY <1>1, <1>3 DEF Mem
<1>5. ASSUME hasArena, NEW x \in Backed \ dirty'
      PROVE  mem.buf[x] = Put(mem.arena, a, v)[x]
  <2>1. x \notin a..(a + Len(v) - 1) /\ x \notin dirty /\ x \in DOMAIN mem.arena
    BY <1>2, <1>5
  <2>2. mem.buf[x] = mem.arena[x]
    BY <1>5, <2>1 DEF IInv, Coherent
  <2> QED BY <2>1, <2>2 DEF Put
<1> QED BY <1>1, <1>4, <1>5 DEF Agree

LEMMA GuestIInv == IInv /\ (GuestAccess \/ GuestExclusive) => IInv'
<1> SUFFICES ASSUME IInv, GuestAccess \/ GuestExclusive PROVE IInv'
  OBVIOUS
<1> USE DEF IInv
<1>1. /\ mem \in Mem /\ hasArena \in BOOLEAN /\ dirty \subseteq Backed
      /\ Backed \ dirty \in SUBSET Backed
  BY DEF TypeOK
<1>2. ASSUME NEW s \in Stores
      PROVE  s.addr \in Nat /\ \E w \in {1, 2, 4} : s.val \in Word(w)
  BY AccessesOK, SizesOK DEF Addr
<1>3. ASSUME phase = "running", hasArena => Agree(mem, Backed \ dirty), NEW s \in Stores
      PROVE  /\ MemoryWrite(mem, s.addr, s.val) \in Mem
             /\ hasArena => Agree(MemoryWrite(mem, s.addr, s.val), Backed \ dirty)
  <2> PICK w \in {1, 2, 4} : s.val \in Word(w)
    BY <1>2
  <2> QED BY <1>1, <1>2, <1>3, MemoryWriteAgrees
<1>4. ASSUME NEW l \in Loads, FastLoad(l[1], l[2]) \/ CallbackRead(l[1], l[2])
      PROVE  IInv'
  <2>1. UNCHANGED <<mem, hasArena, config, todoMem, todoTls, svcIndex, phase, brkHit,
                    unexpected, dirty>>
    BY <1>4, Zenon DEF FastLoad, CallbackRead, control, setup
  <2> QED BY <2>1 DEF TypeOK, Coherent
<1>5. ASSUME NEW s \in Stores, FastStore(s.addr, s.val)
      PROVE  IInv'
  <2>1. /\ mem' \in Mem /\ dirty' \subseteq Backed
        /\ hasArena => Agree(mem', Backed \ dirty')
    BY <1>2, <1>5, DirectStore DEF FastStore
  <2> QED BY <1>5, <2>1 DEF FastStore, TypeOK, Coherent, Agree, control, setup
<1>6. ASSUME NEW s \in Stores, CallbackWrite(s.addr, s.val)
      PROVE  IInv'
  <2>1. phase = "running" /\ (hasArena => Agree(mem, Backed \ dirty))
    BY <1>6 DEF CallbackWrite, Coherent, Agree
  <2>2. mem' \in Mem /\ (hasArena => Agree(mem', Backed \ dirty))
    BY <1>3, <1>6, <2>1 DEF CallbackWrite
  <2> QED BY <1>6, <2>2 DEF CallbackWrite, TypeOK, Coherent, Agree, control, setup
<1>7. ASSUME NEW s \in Stores, NEW e, FastExclusive(s.addr, s.val, e)
      PROVE  IInv'
  <2>1. CASE mem' = mem /\ dirty' = dirty
    BY <1>7, <2>1 DEF FastExclusive, TypeOK, Coherent, control, setup
  <2>2. CASE /\ mem' = [mem EXCEPT !.arena = Put(@, s.addr, s.val)]
             /\ dirty' = dirty \cup (Backed \cap (s.addr..(s.addr + Len(s.val) - 1)))
    <3>1. /\ mem' \in Mem /\ dirty' \subseteq Backed
          /\ hasArena => Agree(mem', Backed \ dirty')
      BY <1>2, <1>7, <2>2, DirectStore DEF FastExclusive
    <3> QED BY <1>7, <3>1 DEF FastExclusive, TypeOK, Coherent, Agree, control, setup
  <2> QED BY <1>7, <2>1, <2>2 DEF FastExclusive
<1>8. ASSUME NEW s \in Stores, NEW e, CallbackExclusive(s.addr, s.val, e)
      PROVE  IInv'
  <2>1. phase = "running" /\ (hasArena => Agree(mem, Backed \ dirty))
    BY <1>8 DEF CallbackExclusive, Coherent, Agree
  <2>2. mem' \in Mem /\ (hasArena => Agree(mem', Backed \ dirty))
    BY <1>1, <1>3, <1>8, <2>1 DEF CallbackExclusive
  <2> QED BY <1>8, <2>2 DEF CallbackExclusive, TypeOK, Coherent, Agree, control, setup
<1>9. CASE GuestAccess
  BY <1>4, <1>5, <1>6, <1>9, Zenon DEF GuestAccess
<1>10. CASE GuestExclusive
  BY <1>7, <1>8, <1>10, Zenon DEF GuestExclusive
<1> QED BY <1>9, <1>10

\* Whatever a handler does to memory in sync with the arena ends in sync.
LEMMA SvcIInv == IInv /\ GuestSVC => IInv'
<1> SUFFICES ASSUME IInv,
                    NEW swi \in Swis, NEW x0 \in SvcWords, NEW offset \in SvcOffsets,
                    CallSVC(swi, x0, offset)
             PROVE  IInv'
  BY Zenon DEF GuestSVC
<1> DEFINE m == SyncFastmemToData(mem)
           Settled == /\ mem' \in Mem /\ (hasArena => Agree(mem', Backed))
                      /\ svcIndex' \in Nat \ {0} /\ brkHit' \in BOOLEAN
                      /\ phase' \in {"running", "halted", "aborted"}
<1>1. /\ mem \in Mem /\ hasArena \in BOOLEAN /\ svcIndex \in Nat \ {0}
      /\ config \in Configs /\ phase = "running" /\ brkHit \in BOOLEAN
  BY DEF IInv, TypeOK, CallSVC
<1>2. m \in Mem /\ (hasArena => Agree(m, Backed))
  BY <1>1, SyncInAgrees
<1>3. swi \in Nat /\ x0 \in Word(2) /\ offset \in Nat
  BY SvcOK
<1>4. config.svc \in Seq([svc_num : Nat, action : STRING, offset : Nat, value : Word(2)])
  BY <1>1, ConfigsOK
<1>5. Len(config.svc) \in Nat
  BY <1>4, LenProperties
<1>6. ASSUME SvcEnd(m) PROVE Settled
  <2>1. mem' = m /\ svcIndex' = svcIndex /\ brkHit' = TRUE /\ phase' = "halted"
    BY <1>6 DEF SvcEnd
  <2> QED BY <1>1, <1>2, <2>1
<1>7. ASSUME NEW i \in Scripted(swi), SvcAction(m, i)
      PROVE  Settled
  <2> DEFINE act == config.svc[i]
             n == IF act.action = "write_tls" THEN WriteTlsMemory(m, act.offset, act.value)
                  ELSE m
  <2>1. i \in 1..Len(config.svc) /\ i \in Nat
    BY <1>1, <1>5 DEF Scripted
  <2>2. act \in [svc_num : Nat, action : STRING, offset : Nat, value : Word(2)]
    BY <1>4, <2>1, ElementOfSeq
  <2>3. n \in Mem
    BY <1>2, <2>2, WriteTlsType
  <2>4. mem' = SyncDataToFastmem(n)
    BY <1>7 DEF SvcAction
  <2>5. mem' \in Mem /\ (hasArena => Agree(mem', Backed))
    BY <1>1, <2>3, <2>4, SyncOutAgrees
  <2>6. svcIndex' = i + 1 /\ brkHit' = brkHit /\ phase' \in {phase, "halted"}
    BY <1>7 DEF SvcAction
  <2> QED BY <1>1, <2>1, <2>5, <2>6
<1>8. ASSUME SvcDefault(m, swi, x0, offset) PROVE Settled
  <2> DEFINE n == IF swi \in WRITE_TLS THEN WriteTlsMemory(m, offset, x0)
                  ELSE IF swi = RESPOND_IPC THEN IpcResponse(m) ELSE m
  <2>1. n \in Mem
    BY <1>2, <1>3, WriteTlsType, IpcResponseType
  <2>2. mem' = SyncDataToFastmem(n)
    BY <1>8 DEF SvcDefault
  <2>3. mem' \in Mem /\ (hasArena => Agree(mem', Backed))
    BY <1>1, <2>1, <2>2, SyncOutAgrees
  <2>4. svcIndex' \in Nat \ {0} /\ brkHit' = brkHit /\ phase' \in {phase, "halted"}
    BY <1>5, <1>8 DEF SvcDefault
  <2> QED BY <1>1, <2>3, <2>4
<1>9. ASSUME SvcAbort(m, swi) PROVE Settled
  <2>1. /\ mem' = m /\ svcIndex' = Len(config.svc) + 1 /\ brkHit' = brkHit
        /\ phase' = "aborted"
    BY <1>9 DEF SvcAbort
  <2> QED BY <1>1, <1>2, <1>5, <2>1
<1>10. Settled
  <2> HIDE DEF Settled
  <2> QED BY <1>6, <1>7, <1>8, <1>9, Zenon DEF CallSVC
<1>11. dirty' = {} /\ UNCHANGED <<hasArena, config, todoMem, todoTls, unexpected>>
  BY Zenon DEF CallSVC, setup
<1> QED BY <1>10, <1>11 DEF IInv, TypeOK, Coherent, Agree

LEMMA StopIInv == IInv /\ Stop => IInv'
<1> SUFFICES ASSUME IInv, Stop PROVE IInv'
  OBVIOUS
<1>1. mem \in Mem /\ hasArena \in BOOLEAN /\ brkHit \in BOOLEAN /\ unexpected \in BOOLEAN
  BY DEF IInv, TypeOK
<1>2. ASSUME NEW e \in Exceptions, ExceptionRaised(e)
      PROVE  IInv'
  <2>1. /\ phase' \in {"running", "halted"} /\ phase = "running"
        /\ brkHit' \in BOOLEAN /\ unexpected' \in BOOLEAN
        /\ UNCHANGED <<mem, hasArena, config, todoMem, todoTls, svcIndex, dirty>>
    BY <1>1, <1>2 DEF ExceptionRaised, control, setup
  <2> QED BY <2>1 DEF IInv, TypeOK, Coherent
<1>3. CASE OutOfTicks
  BY <1>3 DEF OutOfTicks, IInv, TypeOK, Coherent, control, setup
<1>4. CASE SyncForVerification
  <2>1. mem' \in Mem /\ (hasArena => Agree(mem', Backed))
    BY <1>1, <1>4, SyncInAgrees DEF SyncForVerification
  <2> QED BY <1>4, <2>1 DEF SyncForVerification, IInv, TypeOK, Coherent, Agree, control, setup
<1> QED BY <1>2, <1>3, <1>4 DEF Stop

LEMMA NextIInv == IInv /\ [Next]_vars => IInv'
<1>1. IInv /\ UNCHANGED vars => IInv'
  BY DEF IInv, TypeOK, Coherent, vars
<1> QED BY <1>1, LoadIInv, GuestIInv, SvcIInv, StopIInv DEF Next

\* Every store keeps a value for each of its cells, whatever is accessed.
THEOREM TypeCorrect == Spec => []TypeOK
<1>1. IInv => TypeOK
  BY DEF IInv
<1> QED BY <1>1, InitIInv, NextIInv, PTL DEF Spec

\* The buffers and the arena differ only where the guest has stored directly
\* since the last sync, for every mix of direct accesses, callbacks and SVCs.
THEOREM Coherence == Spec => []Coherent
<1>1. IInv => Coherent
  BY DEF IInv
<1> QED BY <1>1, InitIInv, NextIInv, PTL DEF Spec
=============================================================================
