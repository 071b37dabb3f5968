-------------------------- MODULE A32AsmFlatProof --------------------------
(***************************************************************************)
(* A32AsmEnv implements FlatMemory for every region size, configuration    *)
(* and guest.  The lemmas say what each access does to the view; the       *)
(* theorems map each step, and carry the verdict's relation to the view.   *)
(***************************************************************************)
EXTENDS A32AsmFlat, SequenceTheorems, TLAPS

LEMMA WordIsSeq ==
  ASSUME NEW w \in Nat, NEW v \in Word(w)
  PROVE  v \in Seq(Value) /\ Len(v) = w
<1>1. v \in Seq(Value) /\ DOMAIN v = 1..w
  BY DEF Word
<1>2. DOMAIN v = 1..Len(v) /\ Len(v) \in Nat
  BY <1>1, LenProperties
<1> QED BY <1>1, <1>2

LEMMA PutType ==
  ASSUME NEW D, D \subseteq Int, NEW f \in [D -> Value], NEW a \in Int, NEW v \in Seq(Value)
  PROVE  Put(f, a, v) \in [D -> Value]
<1>1. Len(v) \in Nat /\ \A i \in 1..Len(v) : v[i] \in Value
  BY LenProperties, ElementOfSeq
<1>2. \A x \in a..(a + Len(v) - 1) : x - a + 1 \in 1..Len(v)
  BY <1>1
<1> QED BY <1>1, <1>2 DEF Put

\* The four regions lie side by side, and data_mem holds two of them in order.
LEMMA Layout ==
  /\ DataBytes = RegionSize..(3 * RegionSize - 1)
  /\ TlsBytes = (3 * RegionSize)..(4 * RegionSize - 1)
  /\ Backed = RegionSize..(4 * RegionSize - 1)
  /\ \A a \in DataBytes : DataOffset(a) = a - RegionSize
<1>1. RegionSize \in Nat /\ RegionSize >= 8
  BY SizesOK
<1>2. /\ DataBytes = RegionSize..(3 * RegionSize - 1)
      /\ TlsBytes = (3 * RegionSize)..(4 * RegionSize - 1)
  BY <1>1 DEF DataBytes, TlsBytes, DATA_MEM_BASE, TLS_MEM_BASE
<1>3. Backed = RegionSize..(4 * RegionSize - 1)
  BY <1>1, <1>2 DEF Backed
<1>4. \A a \in DataBytes : DataOffset(a) = a - RegionSize
  BY <1>1, <1>2 DEF DataOffset, DATA_MEM_BASE, STACK_BASE
<1> QED BY <1>2, <1>3, <1>4

LEMMA ViewCells ==
  ASSUME NEW m
  PROVE  /\ DOMAIN View(m) = Backed
         /\ \A x \in TlsBytes : View(m)[x] = m.tls[x - 3 * RegionSize]
         /\ \A x \in DataBytes : View(m)[x] = m.data[x - RegionSize]
<1>1. \A x \in DataBytes : x \in Backed /\ x \notin TlsBytes
  BY Layout, SizesOK
<1>2. \A x \in TlsBytes : x \in Backed
  BY DEF Backed
<1> QED BY <1>1, <1>2, Layout DEF View, TLS_MEM_BASE

-----------------------------------------------------------------------------
\* What the accesses do to the view.

LEMMA ReadView ==
  ASSUME NEW m \in Mem, NEW a \in Nat, NEW w \in Nat, InBuffer(a, w)
  PROVE  /\ ReadMemory(m, a, w) = Take(View(m), a, w)
         /\ MemoryRead(m, a, w) = Take(View(m), a, w)
<1>1. RegionSize \in Nat /\ RegionSize >= 8
  BY SizesOK
<1>2. CASE a \in TlsBytes
  <2>1. a - TLS_MEM_BASE = a - 3 * RegionSize /\ InTls(a - TLS_MEM_BASE, w)
    BY <1>1, <1>2, Layout DEF InBuffer, InData, TLS_MEM_BASE
  <2>2. \A i \in 1..w : a + i - 1 \in TlsBytes
    BY <1>1, <1>2, <2>1, Layout DEF InTls
  <2>3. ReadMemory(m, a, w) = Take(m.tls, a - 3 * RegionSize, w)
    BY <1>2, <2>1 DEF ReadMemory
  <2>4. ASSUME NEW i \in 1..w
        PROVE  View(m)[a + i - 1] = m.tls[(a - 3 * RegionSize) + i - 1]
    <3>1. (a + i - 1) - 3 * RegionSize = (a - 3 * RegionSize) + i - 1
      BY <1>1
    <3>2. View(m)[a + i - 1] = m.tls[(a + i - 1) - 3 * RegionSize]
      BY <2>2, ViewCells
    <3> QED BY <3>1, <3>2
  <2>5. ReadMemory(m, a, w) = Take(View(m), a, w)
    BY <2>3, <2>4 DEF Take
  <2>6. ~(a < RegionSize)
    BY <1>1, <1>2, Layout
  <2> QED BY <2>5, <2>6 DEF MemoryRead
<1>3. CASE a \notin TlsBytes
  <2>1. a \in DataBytes /\ DataOffset(a) = a - RegionSize /\ InData(a, w)
    BY <1>3, Layout DEF InBuffer, InData
  <2>2. \A i \in 1..w : a + i - 1 \in DataBytes
    BY <1>1, <2>1, Layout DEF InData
  <2>3. ReadMemory(m, a, w) = Take(m.data, a - RegionSize, w)
    BY <1>3, <2>1 DEF ReadMemory
  <2>4. ASSUME NEW i \in 1..w
        PROVE  View(m)[a + i - 1] = m.data[(a - RegionSize) + i - 1]
    <3>1. (a + i - 1) - RegionSize = (a - RegionSize) + i - 1
      BY <1>1
    <3>2. View(m)[a + i - 1] = m.data[(a + i - 1) - RegionSize]
      BY <2>2, ViewCells
    <3> QED BY <3>1, <3>2
  <2>5. ReadMemory(m, a, w) = Take(View(m), a, w)
    BY <2>3, <2>4 DEF Take
  <2>6. ~(a < RegionSize)
    BY <1>1, <2>1, Layout
  <2> QED BY <2>5, <2>6 DEF MemoryRead
<1> QED BY <1>2, <1>3

\* A store to the TLS buffer that fits is a store to the view.
LEMMA PutTlsView ==
  ASSUME NEW m \in Mem, NEW offset \in Nat, NEW v \in Seq(Value)
  PROVE  /\ PutTls(m, offset, v) \in Mem
         /\ View(PutTls(m, offset, v)) =
              IF InBuffer(TLS_MEM_BASE + offset, Len(v))
              THEN Put(View(m), TLS_MEM_BASE + offset, v) ELSE View(m)
<1> DEFINE a == TLS_MEM_BASE + offset
           out == PutTls(m, offset, v)
<1>1. RegionSize \in Nat /\ RegionSize >= 8 /\ a = 3 * RegionSize + offset /\ Len(v) \in Nat
  BY SizesOK, LenProperties DEF TLS_MEM_BASE
<1>2. InBuffer(a, Len(v)) <=> InTls(offset, Len(v)) /\ offset < RegionSize
  BY <1>1, Layout DEF InBuffer, InTls, InData, TLS_MEM_BASE
<1>3. CASE ~InTls(offset, Len(v))
  BY <1>2, <1>3 DEF PutTls
<1>4. CASE InTls(offset, Len(v))
  <2>1. m.tls \in [0..(RegionSize - 1) -> Value] /\ m.data \in [0..(2 * RegionSize - 1) -> Value]
    BY DEF Mem
  <2>2. Put(m.tls, offset, v) \in [0..(RegionSize - 1) -> Value]
    <3>1. offset \in Int /\ 0..(RegionSize - 1) \subseteq Int
      BY <1>1
    <3> QED BY <2>1, <3>1, PutType, Zenon
  <2>3. out = [m EXCEPT !.tls = Put(m.tls, offset, v)]
    BY <1>4 DEF PutTls
  <2>4. out \in Mem /\ out.tls = Put(m.tls, offset, v) /\ out.data = m.data
    BY <2>2, <2>3 DEF Mem
  <2> HIDE DEF out
  <2>5. ASSUME NEW x \in Backed
        PROVE  View(out)[x] = Put(View(m), a, v)[x]
    <3>1. Put(View(m), a, v)[x] = IF x \in a..(a + Len(v) - 1) THEN v[x - a + 1] ELSE View(m)[x]
      BY ViewCells DEF Put
    <3>2. CASE x \in TlsBytes
      <4>1. x - 3 * RegionSize \in 0..(RegionSize - 1) /\ x \in Int
        BY <1>1, <3>2, Layout
      <4>2. Put(m.tls, offset, v)[x - 3 * RegionSize] =
              IF x - 3 * RegionSize \in offset..(offset + Len(v) - 1)
              THEN v[(x - 3 * RegionSize) - offset + 1] ELSE m.tls[x - 3 * RegionSize]
        BY <2>1, <4>1 DEF Put
      <4>3. /\ x - 3 * RegionSize \in offset..(offset + Len(v) - 1) <=> x \in a..(a + Len(v) - 1)
            /\ (x - 3 * RegionSize) - offset + 1 = x - a + 1
        BY <1>1, <4>1
      <4> QED BY <2>4, <3>1, <3>2, <4>2, <4>3, ViewCells
    <3>3. CASE x \in DataBytes
      <4>1. x \notin a..(a + Len(v) - 1)
        BY <1>1, <3>3, Layout
      <4> QED BY <2>4, <3>1, <3>3, <4>1, ViewCells
    <3> QED BY <3>2, <3>3 DEF Backed
  <2>6. View(out) = Put(View(m), a, v)
    <3>1. View(out) = [x \in Backed |-> View(out)[x]]
      BY ViewCells DEF View
    <3>2. Put(View(m), a, v) = [x \in Backed |-> Put(View(m), a, v)[x]]
      BY ViewCells DEF Put
    <3> QED BY <2>5, <3>1, <3>2
  <2>7. CASE offset < RegionSize
    BY <1>2, <1>4, <2>4, <2>6, <2>7 DEF out
  <2>8. CASE ~(offset < RegionSize)
    <3>1. Len(v) = 0
      BY <1>1, <1>4, <2>8 DEF InTls
    <3>2. \A x \in Backed : x \notin a..(a + Len(v) - 1)
      BY <1>1, <3>1
    <3>3. View(m) = [x \in Backed |-> View(m)[x]]
      BY ViewCells DEF View
    <3>4. Put(View(m), a, v) = [x \in Backed |-> View(m)[x]]
      BY <3>2, ViewCells DEF Put
    <3> QED BY <1>2, <2>4, <2>6, <2>8, <3>3, <3>4 DEF out
  <2> QED BY <2>7, <2>8
<1> QED BY <1>3, <1>4

\* So is a store to the data and stack buffer, over the border of the two too.
LEMMA PutDataView ==
  ASSUME NEW m \in Mem, NEW a \in Nat, NEW v \in Seq(Value)
  PROVE  /\ PutData(m, a, v) \in Mem
         /\ View(PutData(m, a, v)) =
              IF InData(a, Len(v)) THEN Put(View(m), a, v) ELSE View(m)
<1> DEFINE out == PutData(m, a, v)
<1>1. RegionSize \in Nat /\ RegionSize >= 8 /\ Len(v) \in Nat
  BY SizesOK, LenProperties
<1>2. CASE ~InData(a, Len(v))
  BY <1>2 DEF PutData
<1>3. CASE InData(a, Len(v))
  <2>1. m.tls \in [0..(RegionSize - 1) -> Value] /\ m.data \in [0..(2 * RegionSize - 1) -> Value]
    BY DEF Mem
  <2>2. /\ DataOffset(a) = a - RegionSize /\ a - RegionSize \in Nat
        /\ a + Len(v) <= 3 * RegionSize
    BY <1>1, <1>3, Layout DEF InData
  <2>3. Put(m.data, a - RegionSize, v) \in [0..(2 * RegionSize - 1) -> Value]
    <3>1. a - RegionSize \in Int /\ 0..(2 * RegionSize - 1) \subseteq Int
      BY <1>1, <2>2
    <3> QED BY <2>1, <3>1, PutType, Zenon
  <2>4. out = [m EXCEPT !.data = Put(m.data, a - RegionSize, v)]
    BY <1>3, <2>2 DEF PutData
  <2>5. out \in Mem /\ out.data = Put(m.data, a - RegionSize, v) /\ out.tls = m.tls
    BY <2>3, <2>4 DEF Mem
  <2> HIDE DEF out
  <2>6. ASSUME NEW x \in Backed
        PROVE  View(out)[x] = Put(View(m), a, v)[x]
    <3>1. Put(View(m), a, v)[x] = IF x \in a..(a + Len(v) - 1) THEN v[x - a + 1] ELSE View(m)[x]
      BY ViewCells DEF Put
    <3>2. CASE x \in DataBytes
      <4>1. x - RegionSize \in 0..(2 * RegionSize - 1) /\ x \in Int
        BY <1>1, <3>2, Layout
      <4>2. Put(m.data, a - RegionSize, v)[x - RegionSize] =
              IF x - RegionSize \in (a - RegionSize)..((a - RegionSize) + Len(v) - 1)
              THEN v[(x - RegionSize) - (a - RegionSize) + 1] ELSE m.data[x - RegionSize]
        BY <2>1, <4>1 DEF Put
      <4>3. /\ x - RegionSize \in (a - RegionSize)..((a - RegionSize) + Len(v) - 1)
                 <=> x \in a..(a + Len(v) - 1)
            /\ (x - RegionSize) - (a - RegionSize) + 1 = x - a + 1
        BY <1>1, <4>1
      <4> QED BY <2>5, <3>1, <3>2, <4>2, <4>3, ViewCells
    <3>3. CASE x \in TlsBytes
      <4>1. x \notin a..(a + Len(v) - 1)
        BY <1>1, <2>2, <3>3, Layout
      <4> QED BY <2>5, <3>1, <3>3, <4>1, ViewCells
    <3> QED BY <3>2, <3>3 DEF Backed
  <2>7. View(out) = Put(View(m), a, v)
    <3>1. View(out) = [x \in Backed |-> View(out)[x]]
      BY ViewCells DEF View
    <3>2. Put(View(m), a, v) = [x \in Backed |-> Put(View(m), a, v)[x]]
      BY ViewCells DEF Put
    <3> QED BY <2>6, <3>1, <3>2
  <2> QED BY <1>3, <2>5, <2>7 DEF out
<1> QED BY <1>2, <1>3

LEMMA WriteView ==
  ASSUME NEW m \in Mem, NEW a \in Nat, NEW v \in Seq(Value)
  PROVE  /\ WriteMemory(m, a, v) \in Mem
         /\ View(WriteMemory(m, a, v)) =
              IF InBuffer(a, Len(v)) THEN Put(View(m), a, v) ELSE View(m)
<1>1. RegionSize \in Nat /\ RegionSize >= 8
  BY SizesOK
<1>2. CASE a \in TlsBytes
  <2>1. a - TLS_MEM_BASE \in Nat /\ TLS_MEM_BASE + (a - TLS_MEM_BASE) = a
    BY <1>1, <1>2, Layout DEF TLS_MEM_BASE
  <2>2. WriteMemory(m, a, v) = PutTls(m, a - TLS_MEM_BASE, v)
    BY <1>2 DEF WriteMemory
  <2> QED BY <2>1, <2>2, PutTlsView
<1>3. CASE a \notin TlsBytes
  <2>1. WriteMemory(m, a, v) = PutData(m, a, v) /\ (InBuffer(a, Len(v)) <=> InData(a, Len(v)))
    BY <1>3 DEF WriteMemory, InBuffer
  <2> QED BY <2>1, PutDataView
<1> QED BY <1>2, <1>3

-----------------------------------------------------------------------------
\* The inductive invariant: types, and the entries still to be loaded are
\* entries of a configuration.

TodoOK ==
  /\ \A i \in 1..Len(todoData) : todoData[i] \in DataEntries
  /\ \A i \in 1..Len(todoTls) : At(TLS_MEM_BASE, todoTls[i]) \in TlsEntries

IInv == TypeOK /\ TodoOK

LEMMA InitIInv == Init => IInv
<1> SUFFICES ASSUME Init PROVE IInv
  OBVIOUS
<1>1. /\ config \in Configs /\ config.data \in Seq(Entries) /\ config.tls \in Seq(Entries)
      /\ todoData = config.data /\ todoTls = config.tls
  BY ConfigsOK DEF Init
<1>2. TodoOK
  BY <1>1 DEF TodoOK, DataEntries, TlsEntries
<1>3. mem \in Mem
  BY ValuesOK DEF Init, Mem
<1>4. Len(config.svc) \in Nat
  BY <1>1, ConfigsOK, LenProperties
<1>5. /\ svcIndex \in 1..(Len(config.svc) + 1) /\ phase = "load"
      /\ bkptHit = FALSE /\ unexpected = FALSE /\ passed = FALSE
  BY <1>4 DEF Init
<1> QED BY <1>1, <1>2, <1>3, <1>5 DEF IInv, TypeOK

LEMMA TailOK ==
  ASSUME NEW S, NEW s \in Seq(S), s # << >>
  PROVE  /\ Head(s) \in S /\ Head(s) = s[1] /\ 1 \in 1..Len(s)
         /\ Tail(s) \in Seq(S)
         /\ \A i \in 1..Len(Tail(s)) : i + 1 \in 1..Len(s) /\ Tail(s)[i] = s[i + 1]
<1>1. Len(s) \in Nat /\ Len(s) > 0
  BY LenProperties, EmptySeq
<1> QED BY <1>1, HeadTailProperties, ElementOfSeq

LEMMA LoadIInv == IInv /\ Load => IInv'
<1> SUFFICES ASSUME IInv, Load PROVE IInv'
  OBVIOUS
<1>1. /\ mem \in Mem /\ todoData \in Seq(Entries) /\ todoTls \in Seq(Entries) /\ TodoOK
  BY DEF IInv, TypeOK
<1>2. CASE LoadDataMem
  <2>1. todoData # << >>
    BY <1>2 DEF LoadDataMem
  <2>2. /\ Head(todoData) \in Entries /\ Tail(todoData) \in Seq(Entries)
        /\ \A i \in 1..Len(Tail(todoData)) :
             i + 1 \in 1..Len(todoData) /\ Tail(todoData)[i] = todoData[i + 1]
    BY <1>1, <2>1, TailOK
  <2>3. mem' \in Mem
    BY <1>1, <1>2, <2>2, PutDataView DEF LoadDataMem, Entries
  <2>4. TodoOK'
    BY <1>1, <1>2, <2>2 DEF LoadDataMem, TodoOK
  <2> QED BY <1>2, <2>2, <2>3, <2>4 DEF LoadDataMem, IInv, TypeOK
<1>3. CASE LoadTlsData
  <2>1. todoTls # << >>
    BY <1>3 DEF LoadTlsData
  <2>2. /\ Head(todoTls) \in Entries /\ Tail(todoTls) \in Seq(Entries)
        /\ \A i \in 1..Len(Tail(todoTls)) :
             i + 1 \in 1..Len(todoTls) /\ Tail(todoTls)[i] = todoTls[i + 1]
    BY <1>1, <2>1, TailOK
  <2>3. mem' \in Mem
    BY <1>1, <1>3, <2>2, PutTlsView DEF LoadTlsData, Entries
  <2>4. TodoOK'
    BY <1>1, <1>3, <2>2 DEF LoadTlsData, TodoOK
  <2> QED BY <1>3, <2>2, <2>3, <2>4 DEF LoadTlsData, IInv, TypeOK
<1>4. CASE StartRun
  BY <1>4 DEF StartRun, control, IInv, TypeOK, TodoOK
<1> QED BY <1>2, <1>3, <1>4 DEF Load

\* The stores of the guest are sequences of bytes of the sizes it can store.
LEMMA GuestStores ==
  ASSUME NEW s \in Stores
  PROVE  s.addr \in Nat /\ s.val \in Seq(Value) /\ Len(s.val) \in Nat
<1>1. PICK w \in Sizes : s.val \in Word(w)
  BY AccessesOK
<1>2. w \in Nat
  BY DEF Sizes
<1> QED BY <1>1, <1>2, WordIsSeq, AccessesOK

LEMMA GuestIInv == IInv /\ GuestAccess => IInv'
<1> SUFFICES ASSUME IInv, GuestAccess PROVE IInv'
  OBVIOUS
<1>1. mem \in Mem
  BY DEF IInv, TypeOK
<1>2. /\ mem' \in Mem
      /\ UNCHANGED <<phase, config, todoData, todoTls, passed, svcIndex, bkptHit, unexpected>>
  <2>1. ASSUME NEW l \in Loads, CallbackRead(l[1], l[2])
        PROVE  <1>2!:
    BY <1>1, <2>1 DEF CallbackRead, control
  <2>2. ASSUME NEW s \in Stores, CallbackWrite(s.addr, s.val)
        PROVE  <1>2!:
    BY <1>1, <2>2, GuestStores, WriteView DEF CallbackWrite, control
  <2>3. ASSUME NEW s \in Stores, NEW e, CallbackExclusive(s.addr, s.val, e)
        PROVE  <1>2!:
    <3>1. WriteMemory(mem, s.addr, s.val) \in Mem
      BY <1>1, GuestStores, WriteView
    <3> QED BY <1>1, <2>3, <3>1 DEF CallbackExclusive, control
  <2> QED BY <2>1, <2>2, <2>3, Zenon DEF GuestAccess
<1> QED BY <1>2 DEF IInv, TypeOK, TodoOK

\* What a scripted action is, and where the scan stands after it.
LEMMA ScriptedOK ==
  ASSUME TypeOK, NEW swi, NEW i \in Scripted(swi)
  PROVE  /\ config.svc[i].offset \in Nat /\ config.svc[i].value \in Word(4)
         /\ i + 1 \in 1..(Len(config.svc) + 1)
<1> DEFINE A == [svc_num : Nat, action : STRING, offset : Nat, value : Word(4),
                 reg : 0..15 \cup {NoReg}]
<1>1. config.svc \in Seq(A) /\ svcIndex \in 1..(Len(config.svc) + 1)
  BY ConfigsOK DEF TypeOK
<1>2. Len(config.svc) \in Nat /\ i \in svcIndex..Len(config.svc)
  BY <1>1, LenProperties DEF Scripted
<1>3. i \in 1..Len(config.svc)
  BY <1>1, <1>2
<1>4. config.svc[i] \in A
  <2> HIDE DEF A
  <2> QED BY <1>1, <1>3, ElementOfSeq
<1> QED BY <1>2, <1>3, <1>4

\* The word a TLS write stores.
Stored(i, regWord) == IF config.svc[i].reg = NoReg THEN config.svc[i].value ELSE regWord

LEMMA StoredOK ==
  ASSUME TypeOK, NEW swi, NEW i \in Scripted(swi), NEW regWord \in RegWords
  PROVE  /\ Stored(i, regWord) \in Word(4)
         /\ Stored(i, regWord) \in Seq(Value) /\ Len(Stored(i, regWord)) = 4
<1>1. Stored(i, regWord) \in Word(4)
  BY ScriptedOK, AccessesOK DEF Stored
<1> QED BY <1>1, WordIsSeq

LEMMA SvcIInv == IInv /\ GuestSVC => IInv'
<1> SUFFICES ASSUME IInv, NEW swi \in Swis, NEW regWord \in RegWords, CallSVC(swi, regWord)
             PROVE  IInv'
  BY Zenon DEF GuestSVC
<1>1. TypeOK /\ TodoOK
  BY DEF IInv
<1>2. mem \in Mem /\ config \in Configs /\ phase = "running"
  BY <1>1 DEF TypeOK, CallSVC
<1>3. Len(config.svc) \in Nat
  BY <1>2, ConfigsOK, LenProperties
<1>4. UNCHANGED <<config, todoData, todoTls, passed, bkptHit, unexpected>>
  BY Zenon DEF CallSVC, control
<1>5. /\ mem' \in Mem /\ svcIndex' \in 1..(Len(config.svc) + 1)
      /\ phase' \in {"running", "halted", "aborted"}
  <2>1. ASSUME NEW i \in Scripted(swi), SvcAction(i, regWord)
        PROVE  <1>5!:
    <3>1. PutTls(mem, config.svc[i].offset, Stored(i, regWord)) \in Mem
      BY <1>1, <1>2, ScriptedOK, StoredOK, PutTlsView
    <3>2. i + 1 \in 1..(Len(config.svc) + 1)
      BY <1>1, ScriptedOK
    <3> QED BY <1>2, <2>1, <3>1, <3>2 DEF SvcAction, Stored
  <2>2. CASE SvcAbort
    BY <1>2, <1>3, <2>2 DEF SvcAbort
  <2> QED BY <2>1, <2>2, Zenon DEF CallSVC
<1> QED BY <1>1, <1>4, <1>5 DEF IInv, TypeOK, TodoOK

LEMMA StopIInv == IInv /\ Stop => IInv'
<1> SUFFICES ASSUME IInv, Stop PROVE IInv'
  OBVIOUS
<1>1. ASSUME NEW e \in Exceptions, ExceptionRaised(e)
      PROVE  IInv'
  BY <1>1 DEF ExceptionRaised, control, IInv, TypeOK, TodoOK
<1>2. CASE OutOfTicks
  BY <1>2 DEF OutOfTicks, control, IInv, TypeOK, TodoOK
<1>3. CASE Throw
  BY <1>3 DEF Throw, control, IInv, TypeOK, TodoOK
<1>4. CASE Verify
  <2>1. passed' \in BOOLEAN
    BY <1>4 DEF Verify
  <2> QED BY <1>4, <2>1 DEF Verify, IInv, TypeOK, TodoOK
<1> QED BY <1>1, <1>2, <1>3, <1>4 DEF Stop

LEMMA NextIInv == IInv /\ [Next]_vars => IInv'
<1>1. IInv /\ UNCHANGED vars => IInv'
  BY DEF IInv, TypeOK, TodoOK, vars
<1> QED BY <1>1, LoadIInv, GuestIInv, SvcIInv, StopIInv DEF Next

\* The buffers keep a value for each byte and the scan of the script its place,
\* whatever the guest accesses and whatever the configuration holds.
THEOREM TypeCorrect == Spec => []TypeOK
<1>1. IInv => TypeOK
  BY DEF IInv
<1> QED BY <1>1, InitIInv, NextIInv, PTL DEF Spec

-----------------------------------------------------------------------------
\* Every step maps to a step of FlatMemory or to a stutter.

LEMMA SameOperators ==
  ASSUME NEW f, NEW a, NEW w, NEW v
  PROVE  Flat!Take(f, a, w) = Take(f, a, w) /\ Flat!Put(f, a, v) = Put(f, a, v)
BY DEF Flat!Take, Flat!Put, Take, Put

\* A store whose word a buffer holds is a step, any other store a stutter.
LEMMA StoreStep ==
  ASSUME NEW s \in Stores \cup DataEntries \cup TlsEntries \cup TlsWords,
         FlatGot' = FlatGot,
         InBuffer(s.addr, Len(s.val)),
         FlatView' = Put(FlatView, s.addr, s.val)
  PROVE  Flat!Next
<1>1. s \in InBuffers(Stores \cup DataEntries \cup TlsEntries) \cup TlsWords
  BY DEF InBuffers
<1>2. Flat!Write(s.addr, s.val)
  BY SameOperators DEF Flat!Write
<1> QED BY <1>1, <1>2 DEF Flat!Next

\* An answer for a word that no buffer holds is not one of the flat memory.
LEMMA OtherAnswer ==
  ASSUME ~InBuffer(got'.addr, got'.len), FlatView' = FlatView
  PROVE  Flat!Next
BY DEF FlatGot, Flat!Next, Flat!ReadNothing, Flat!Nothing

LEMMA InitFlat == Init => Flat!Init
<1> SUFFICES ASSUME Init PROVE Flat!Init
  OBVIOUS
<1>1. RegionSize \in Nat /\ RegionSize >= 8
  BY SizesOK
<1>2. FlatGot = Flat!Nothing
  BY DEF Init, FlatGot, Nothing, Answer, Flat!Nothing
<1>3. /\ \A x \in TlsBytes : mem.tls[x - TLS_MEM_BASE] = Zero
      /\ \A x \in DataBytes : mem.data[DataOffset(x)] = Zero
  <2>1. /\ \A x \in TlsBytes : x - TLS_MEM_BASE \in 0..(RegionSize - 1)
        /\ \A x \in DataBytes : DataOffset(x) \in 0..(2 * RegionSize - 1)
    BY <1>1, Layout DEF TLS_MEM_BASE
  <2> QED BY <2>1 DEF Init
<1>4. FlatView = [x \in Backed |-> Zero]
  BY <1>3 DEF FlatView, View, Backed
<1> QED BY <1>2, <1>4 DEF Flat!Init

LEMMA LoadFlat == IInv /\ Load => [Flat!Next]_<<FlatView, FlatGot>>
<1> SUFFICES ASSUME IInv, Load PROVE Flat!Next \/ UNCHANGED <<FlatView, FlatGot>>
  OBVIOUS
<1>1. /\ mem \in Mem /\ todoData \in Seq(Entries) /\ todoTls \in Seq(Entries) /\ TodoOK
  BY DEF IInv, TypeOK
<1>2. got' = got
  BY DEF Load, LoadDataMem, LoadTlsData, StartRun
<1>3. FlatGot' = FlatGot
  BY <1>2 DEF FlatGot
<1>4. CASE LoadDataMem
  <2> DEFINE e == Head(todoData)
  <2>1. todoData # << >> /\ mem' = PutData(mem, e.addr, e.val)
    BY <1>4 DEF LoadDataMem
  <2>2. e \in DataEntries /\ e.addr \in Nat /\ e.val \in Seq(Value)
    <3>1. e \in Entries /\ e = todoData[1] /\ 1 \in 1..Len(todoData)
      BY <1>1, <2>1, TailOK
    <3> HIDE DEF e
    <3> QED BY <1>1, <3>1 DEF TodoOK, Entries
  <2>3. FlatView' = IF InData(e.addr, Len(e.val)) THEN Put(FlatView, e.addr, e.val)
                    ELSE FlatView
    <3> HIDE DEF e
    <3> QED BY <1>1, <2>1, <2>2, PutDataView DEF FlatView
  <2> HIDE DEF e
  <2> QED BY <1>3, <2>2, <2>3, StoreStep DEF InBuffer
<1>5. CASE LoadTlsData
  <2> DEFINE e == Head(todoTls)
             s == At(TLS_MEM_BASE, e)
  <2>1. todoTls # << >> /\ mem' = PutTls(mem, e.addr, e.val)
    BY <1>5 DEF LoadTlsData
  <2>2. s \in TlsEntries /\ e.addr \in Nat /\ e.val \in Seq(Value)
    <3>1. e \in Entries /\ e = todoTls[1] /\ 1 \in 1..Len(todoTls)
      BY <1>1, <2>1, TailOK
    <3> HIDE DEF e
    <3> QED BY <1>1, <3>1 DEF TodoOK, Entries
  <2>3. s.addr = TLS_MEM_BASE + e.addr /\ s.val = e.val
    BY DEF At
  <2> HIDE DEF e, s
  <2>4. FlatView' = IF InBuffer(s.addr, Len(s.val)) THEN Put(FlatView, s.addr, s.val)
                    ELSE FlatView
    BY <1>1, <2>1, <2>2, <2>3, PutTlsView DEF FlatView
  <2> QED BY <1>3, <2>2, <2>4, StoreStep
<1>6. CASE StartRun
  BY <1>3, <1>6 DEF StartRun, FlatView, View
<1> QED BY <1>4, <1>5, <1>6 DEF Load

LEMMA GuestFlat == IInv /\ GuestAccess => [Flat!Next]_<<FlatView, FlatGot>>
<1> SUFFICES ASSUME IInv, GuestAccess PROVE Flat!Next \/ UNCHANGED <<FlatView, FlatGot>>
  OBVIOUS
<1>1. mem \in Mem
  BY DEF IInv, TypeOK
<1>2. ASSUME NEW l \in Loads, CallbackRead(l[1], l[2])
      PROVE  Flat!Next
  <2>1. l[1] \in Nat /\ l[2] \in Nat
    BY AccessesOK DEF Sizes
  <2>2. mem' = mem /\ got' = Answer(l[1], l[2], MemoryRead(mem, l[1], l[2]), TRUE)
    BY <1>2 DEF CallbackRead
  <2>3. FlatView' = FlatView
    BY <2>2 DEF FlatView, View
  <2>4. CASE ~InBuffer(l[1], l[2])
    BY <2>2, <2>3, <2>4, OtherAnswer DEF Answer
  <2>5. CASE InBuffer(l[1], l[2])
    <3>1. MemoryRead(mem, l[1], l[2]) = Take(FlatView, l[1], l[2])
      BY <1>1, <2>1, <2>5, ReadView DEF FlatView
    <3>2. FlatGot' = [addr |-> l[1], val |-> Take(FlatView, l[1], l[2]), ok |-> TRUE]
      BY <2>2, <2>5, <3>1 DEF FlatGot, Answer
    <3>3. Flat!Read(l[1], l[2])
      BY <2>3, <3>2, SameOperators DEF Flat!Read
    <3> QED BY <2>5, <3>3 DEF Flat!Next
  <2> QED BY <2>4, <2>5
<1>3. ASSUME NEW s \in Stores, CallbackWrite(s.addr, s.val)
      PROVE  Flat!Next \/ UNCHANGED <<FlatView, FlatGot>>
  <2>1. mem' = WriteMemory(mem, s.addr, s.val) /\ got' = got
    BY <1>3 DEF CallbackWrite
  <2>2. FlatGot' = FlatGot
    BY <2>1 DEF FlatGot
  <2>3. FlatView' = IF InBuffer(s.addr, Len(s.val)) THEN Put(FlatView, s.addr, s.val)
                    ELSE FlatView
    BY <1>1, <2>1, GuestStores, WriteView DEF FlatView
  <2> QED BY <2>2, <2>3, StoreStep
<1>4. ASSUME NEW s \in Stores, NEW e \in Expected(Len(s.val)),
             CallbackExclusive(s.addr, s.val, e)
      PROVE  Flat!Next
  <2> DEFINE match == ReadMemory(mem, s.addr, Len(s.val)) = e
  <2>1. /\ got' = Answer(s.addr, Len(s.val), << >>, match)
        /\ mem' = IF match THEN WriteMemory(mem, s.addr, s.val) ELSE mem
    BY <1>4 DEF CallbackExclusive
  <2>2. FlatView' = IF match /\ InBuffer(s.addr, Len(s.val))
                    THEN Put(FlatView, s.addr, s.val) ELSE FlatView
    <3> HIDE DEF match
    <3> QED BY <1>1, <2>1, GuestStores, WriteView DEF FlatView
  <2>3. CASE ~InBuffer(s.addr, Len(s.val))
    BY <2>1, <2>2, <2>3, OtherAnswer DEF Answer
  <2>4. CASE InBuffer(s.addr, Len(s.val))
    <3>1. match <=> Take(FlatView, s.addr, Len(s.val)) = e
      BY <1>1, <2>4, GuestStores, ReadView DEF FlatView
    <3>2. FlatGot' = [addr |-> s.addr, val |-> << >>, ok |-> match]
      BY <2>1, <2>4 DEF FlatGot, Answer
    <3>3. FlatView' = IF match THEN Put(FlatView, s.addr, s.val) ELSE FlatView
      BY <2>2, <2>4
    <3>4. Flat!CompareAndWrite(s.addr, s.val, e)
      <4> HIDE DEF match
      <4> QED BY <3>1, <3>2, <3>3, SameOperators DEF Flat!CompareAndWrite
    <3>5. s \in InBuffers(Stores)
      BY <2>4 DEF InBuffers
    <3>6. e \in Flat!Expected(Len(s.val))
      <4>1. CASE e = Blank(Len(s.val))
        BY <4>1 DEF Flat!Expected, Blank, Flat!Blank
      <4>2. CASE e # Blank(Len(s.val))
        <5>1. PICK t \in Stores : InBuffer(t.addr, Len(s.val)) /\ Len(t.val) = Len(s.val) /\ e = t.val
          BY <1>4, <4>2 DEF Expected
        <5>2. t \in InBuffers(Stores)
          BY <5>1 DEF InBuffers
        <5> QED BY <5>1, <5>2 DEF Flat!Expected
      <4> QED BY <4>1, <4>2
    <3> QED BY <3>4, <3>5, <3>6 DEF Flat!Next
  <2> QED BY <2>3, <2>4
<1> QED BY <1>2, <1>3, <1>4, Zenon DEF GuestAccess

LEMMA SvcFlat == IInv /\ GuestSVC => [Flat!Next]_<<FlatView, FlatGot>>
<1> SUFFICES ASSUME IInv, NEW swi \in Swis, NEW regWord \in RegWords, CallSVC(swi, regWord)
             PROVE  Flat!Next \/ UNCHANGED <<FlatView, FlatGot>>
  BY Zenon DEF GuestSVC
<1>1. TypeOK /\ mem \in Mem /\ RegionSize \in Nat /\ RegionSize >= 8
  BY SizesOK DEF IInv, TypeOK
<1>2. ASSUME NEW i \in Scripted(swi), SvcAction(i, regWord)
      PROVE  Flat!Next \/ UNCHANGED <<FlatView, FlatGot>>
  <2> DEFINE act == config.svc[i]
             o == config.svc[i].offset
             v == Stored(i, regWord)
             s == [addr |-> TLS_MEM_BASE + o, val |-> v]
  <2>1. /\ o \in Nat /\ v \in Word(4) /\ v \in Seq(Value) /\ Len(v) = 4
    BY <1>1, ScriptedOK, StoredOK
  <2>2. InBuffer(TLS_MEM_BASE + o, 4) <=> o \in TlsOffsets
    BY <1>1, <2>1, Layout DEF InBuffer, InData, InTls, TLS_MEM_BASE, TlsOffsets
  <2>3. CASE act.action = "write_tls"
    <3>1. got' = got /\ mem' = PutTls(mem, o, v)
      BY <1>2, <2>3 DEF SvcAction, Stored
    <3>2. FlatGot' = FlatGot
      BY <3>1 DEF FlatGot
    <3>3. s.addr = TLS_MEM_BASE + o /\ s.val = v /\ (o \in TlsOffsets => s \in TlsWords)
      BY <2>1 DEF TlsWords
    <3> HIDE DEF o, v, s
    <3>4. FlatView' = IF InBuffer(s.addr, Len(s.val)) THEN Put(FlatView, s.addr, s.val)
                      ELSE FlatView
      BY <1>1, <2>1, <3>1, <3>3, PutTlsView DEF FlatView
    <3>5. CASE InBuffer(s.addr, Len(s.val))
      <4>1. s \in TlsWords
        BY <2>1, <2>2, <3>3, <3>5
      <4> QED BY <3>2, <3>4, <3>5, <4>1, StoreStep
    <3>6. CASE ~InBuffer(s.addr, Len(s.val))
      BY <3>2, <3>4, <3>6
    <3> QED BY <3>5, <3>6
  <2>4. CASE act.action # "write_tls"
    <3>1. mem' = mem
      BY <1>2, <2>4 DEF SvcAction
    <3>2. FlatView' = FlatView
      BY <3>1 DEF FlatView, View
    <3>3. CASE got' = got
      BY <3>2, <3>3 DEF FlatGot
    <3>4. CASE got' = Answer(TLS_MEM_BASE + o, 4, ReadTls32(mem, o), TRUE)
      <4>1. CASE o \notin TlsOffsets
        BY <2>2, <3>2, <3>4, <4>1, OtherAnswer DEF Answer
      <4>2. CASE o \in TlsOffsets
        <5>1. /\ TLS_MEM_BASE + o \in Nat /\ TLS_MEM_BASE + o \in TlsBytes
              /\ (TLS_MEM_BASE + o) - TLS_MEM_BASE = o /\ InTls(o, 4)
          BY <1>1, <2>1, <4>2, Layout DEF TLS_MEM_BASE, TlsOffsets, InTls
        <5>2. ReadTls32(mem, o) = ReadMemory(mem, TLS_MEM_BASE + o, 4)
          BY <5>1 DEF ReadTls32, ReadMemory
        <5>3. ReadTls32(mem, o) = Take(FlatView, TLS_MEM_BASE + o, 4)
          BY <1>1, <2>2, <4>2, <5>1, <5>2, ReadView DEF FlatView
        <5>4. FlatGot' = [addr |-> TLS_MEM_BASE + o,
                          val |-> Take(FlatView, TLS_MEM_BASE + o, 4), ok |-> TRUE]
          BY <2>2, <3>4, <4>2, <5>3 DEF FlatGot, Answer
        <5>5. Flat!Read(TLS_MEM_BASE + o, 4)
          BY <3>2, <5>4, SameOperators DEF Flat!Read
        <5> HIDE DEF o
        <5> DEFINE l == <<TLS_MEM_BASE + o, 4>>
        <5>6. l \in {<<TLS_MEM_BASE + p, 4>> : p \in TlsOffsets}
          BY <4>2
        <5>7. Flat!Read(l[1], l[2])
          BY <5>5
        <5> HIDE DEF l
        <5> QED BY <5>6, <5>7 DEF Flat!Next
      <4> QED BY <4>1, <4>2
    <3>5. got' = got \/ got' = Answer(TLS_MEM_BASE + o, 4, ReadTls32(mem, o), TRUE)
      BY <1>2 DEF SvcAction
    <3> HIDE DEF o
    <3> QED BY <3>3, <3>4, <3>5
  <2> QED BY <2>3, <2>4
<1>3. ASSUME SvcAbort
      PROVE  UNCHANGED <<FlatView, FlatGot>>
  BY <1>3 DEF SvcAbort, FlatView, View, FlatGot
<1> QED BY <1>2, <1>3, Zenon DEF CallSVC

LEMMA StopFlat == Stop => UNCHANGED <<FlatView, FlatGot>>
<1>1. Stop => UNCHANGED <<mem, got>>
  BY DEF Stop, ExceptionRaised, OutOfTicks, Throw, Verify
<1> QED BY <1>1 DEF FlatView, View, FlatGot

\* For every region size, configuration and guest, the buffers behave as one
\* flat memory for the words they hold, and other words leave it alone.
THEOREM Implementation == Spec => FlatSpec
<1>1. IInv /\ [Next]_vars => [Flat!Next]_<<FlatView, FlatGot>>
  <2>1. UNCHANGED vars => UNCHANGED <<FlatView, FlatGot>>
    BY DEF vars, FlatView, View, FlatGot
  <2> QED BY <2>1, LoadFlat, GuestFlat, SvcFlat, StopFlat DEF Next
<1> QED BY <1>1, InitIInv, NextIInv, InitFlat, PTL DEF Spec, FlatSpec, Flat!Spec

-----------------------------------------------------------------------------
\* The verdict.

LEMMA ByteView ==
  ASSUME NEW m \in Mem, NEW a \in Nat
  PROVE  MemoryRead(m, a, 1) = <<IF a \in Backed THEN View(m)[a] ELSE Zero>>
<1>1. RegionSize \in Nat /\ RegionSize >= 8
  BY SizesOK
<1>2. CASE a \in Backed
  <2>1. InBuffer(a, 1)
    BY <1>1, <1>2, Layout DEF Backed, InBuffer, InData, InTls, TLS_MEM_BASE
  <2>2. MemoryRead(m, a, 1) = Take(View(m), a, 1)
    BY <2>1, ReadView
  <2>3. a + 1 - 1 = a
    OBVIOUS
  <2> QED BY <1>2, <2>2, <2>3 DEF Take
<1>3. CASE a \notin Backed
  BY <1>3 DEF MemoryRead, ReadMemory, Backed, InData, Blank
<1> QED BY <1>2, <1>3

\* Until the verdict there is no pass, and after it nothing moves.
PInv == PassMatchesMemory /\ (phase # "done" => ~passed)

LEMMA NextPInv == IInv /\ PInv /\ [Next]_vars => PInv'
<1> SUFFICES ASSUME IInv, PInv, [Next]_vars PROVE PInv'
  OBVIOUS
<1>1. CASE UNCHANGED vars
  BY <1>1 DEF vars, PInv, PassMatchesMemory, FlatView, View
<1>2. CASE Verify
  <2>1. mem \in Mem /\ config \in Configs
    BY DEF IInv, TypeOK
  <2>2. UNCHANGED <<mem, config, bkptHit, unexpected>> /\ phase' = "done"
    BY <1>2 DEF Verify
  <2>3. passed' => bkptHit /\ ~unexpected /\ ExpectedMemory
    BY <1>2 DEF Verify
  <2>4. ASSUME ExpectedMemory, NEW e \in config.expected
        PROVE  e.byte = IF e.addr \in Backed THEN FlatView[e.addr] ELSE Zero
    <3>1. e.addr \in Nat
      BY <2>1, ConfigsOK
    <3>2. <<e.byte>> = <<IF e.addr \in Backed THEN View(mem)[e.addr] ELSE Zero>>
      BY <2>1, <2>4, <3>1, ByteView DEF ExpectedMemory
    <3> QED BY <3>2 DEF FlatView
  <2>5. FlatView' = FlatView
    BY <2>2 DEF FlatView, View
  <2> QED BY <2>2, <2>3, <2>4, <2>5 DEF PInv, PassMatchesMemory
<1>3. CASE Load \/ GuestAccess \/ GuestSVC \/ (Stop /\ ~Verify)
  <2>1. phase # "done" /\ passed' = passed
    BY <1>3 DEF Load, LoadDataMem, LoadTlsData, StartRun, GuestAccess, CallbackRead,
       CallbackWrite, CallbackExclusive, GuestSVC, CallSVC, Stop, ExceptionRaised,
       OutOfTicks, Throw, control
  <2> QED BY <2>1 DEF PInv, PassMatchesMemory
<1> QED BY <1>1, <1>2, <1>3 DEF Next, Stop

\* For every configuration and guest, a pass means the end marker was reached
\* without an exception and the memory holds what the test expects.
THEOREM PassMatches == Spec => []PassMatchesMemory
<1>1. Init => PInv
  BY DEF Init, PInv, PassMatchesMemory
<1>2. PInv => PassMatchesMemory
  BY DEF PInv
<1> QED BY <1>1, <1>2, InitIInv, NextIInv, NextPInv, PTL DEF Spec
=============================================================================
