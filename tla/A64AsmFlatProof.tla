-------------------------- MODULE A64AsmFlatProof --------------------------
(***************************************************************************)
(* A64AsmEnv implements FlatMemory when every access is placed.  The       *)
(* lemmas follow the view of a cell through the accesses and the copies;   *)
(* the theorem maps each step to a step of FlatMemory or to a stutter.     *)
(***************************************************************************)
EXTENDS A64AsmFlat, A64AsmProof

-----------------------------------------------------------------------------
\* Reads of the view.

LEMMA PlacedCells ==
  ASSUME NEW a \in Nat, NEW w \in {1, 2, 4}, Placed(a, w)
  PROVE  \/ /\ InBuffer(a, w) /\ a \in Backed /\ a + w <= ArenaSize
            /\ \A i \in 1..w : a + i - 1 \in Backed /\ a + i - 1 \in Covered
         \/ /\ a \notin Backed /\ a + w > ArenaSize
            /\ \A i \in 1..w : /\ a + i - 1 \notin Backed
                               /\ a + i - 1 \in Covered /\ a + i - 1 \in Addr
<1>1. CASE InBuffer(a, w)
  BY <1>1, Layout, SizesOK DEF InBuffer, Within, Covered
<1>2. CASE a >= ArenaSize /\ a + w <= AddrLimit
  BY <1>2, Layout, SizesOK DEF Covered, Addr
<1> QED BY <1>1, <1>2 DEF Placed

\* The view of a placed word is the word in the store that holds it.
LEMMA TakeView ==
  ASSUME NEW m \in Mem, NEW a \in Nat, NEW w \in {1, 2, 4}, Placed(a, w), NEW p \in BOOLEAN
  PROVE  Take(View(m, p), a, w) =
           IF a \notin Backed THEN Take(m.extra, a, w)
           ELSE IF p THEN Take(m.arena, a, w) ELSE Take(m.buf, a, w)
BY PlacedCells DEF Take, View

\* A callback reads the view, the Vector form too.
LEMMA ReadView ==
  ASSUME NEW m \in Mem, NEW a \in Nat, NEW w \in {1, 2, 4}, Placed(a, w), hasArena \in BOOLEAN
  PROVE  /\ MemoryRead(m, a, w) = Take(View(m, hasArena), a, w)
         /\ ExclusiveRead(m, a, w) = Take(View(m, hasArena), a, w)
<1>1. ASSUME NEW b \in Nat, NEW n \in {1, 2, 4}, Placed(b, n)
      PROVE  ReadMemory(m, b, n) = Take(View(m, hasArena), b, n)
  <2>1. Take(View(m, hasArena), b, n) =
           IF b \notin Backed THEN Take(m.extra, b, n)
           ELSE IF hasArena THEN Take(m.arena, b, n) ELSE Take(m.buf, b, n)
    BY <1>1, TakeView
  <2>2. \/ InBuffer(b, n) /\ b \in Backed /\ b + n <= ArenaSize
        \/ b \notin Backed /\ ~(b + n <= ArenaSize)
    BY <1>1, PlacedCells, SizesOK
  <2>3. CASE hasArena
    BY <2>1, <2>2, <2>3 DEF ReadMemory, InArena
  <2>4. CASE ~hasArena
    BY <2>1, <2>2, <2>4 DEF ReadMemory, InArena
  <2> QED BY <2>3, <2>4
<1>2. a >= RegionSize
  BY PlacedCells, Layout, SizesOK DEF Placed
<1>3. CASE w < 4
  BY <1>1, <1>2, <1>3, SizesOK DEF MemoryRead, ExclusiveRead
<1>4. CASE w = 4 /\ hasArena /\ InOneRegion(a)
  <2>1. a \in Backed
    BY <1>4, Layout, SizesOK DEF InOneRegion, DATA_MEM_BASE, STACK_BASE, TLS_MEM_BASE
  <2>2. Take(View(m, hasArena), a, w) = Take(m.arena, a, 4)
    BY <1>4, <2>1, TakeView
  <2>3. ~(a < RegionSize) /\ ~(w < 4)
    BY <1>2, <1>4, SizesOK
  <2>4. MemoryRead(m, a, w) = Take(m.arena, a, 4)
    BY <1>4, <2>3 DEF MemoryRead
  <2> QED BY <2>2, <2>3, <2>4 DEF ExclusiveRead
<1>5. CASE w = 4 /\ ~(hasArena /\ InOneRegion(a))
  <2>1. Placed(a, 2) /\ Placed(a + 2, 2)
    BY <1>5, Layout, SizesOK DEF Placed, InBuffer, Within
  <2>2. /\ ReadMemory(m, a, 2) = Take(View(m, hasArena), a, 2)
        /\ ReadMemory(m, a + 2, 2) = Take(View(m, hasArena), a + 2, 2)
    BY <1>1, <2>1
  <2>3. MemoryRead(m, a, w) = Take(View(m, hasArena), a, 2) \o Take(View(m, hasArena), a + 2, 2)
    BY <1>2, <1>5, <2>2, SizesOK DEF MemoryRead
  <2> DEFINE f == View(m, hasArena)
  <2> HIDE DEF f
  <2>4. Take(f, a, 2) \o Take(f, a + 2, 2) = Take(f, a, 4)
    BY DEF Take
  <2> QED BY <1>5, <2>3, <2>4 DEF ExclusiveRead, f
<1> QED BY <1>3, <1>4, <1>5

-----------------------------------------------------------------------------
\* Writes to the view.

\* A placed word written with WriteMemory is written to the view, whether the
\* view is the buffers (p false) or the arena.
LEMMA WriteView ==
  ASSUME NEW m \in Mem, NEW a \in Nat, NEW w \in {1, 2, 4}, NEW v \in Word(w),
         Placed(a, w), NEW p \in BOOLEAN, p => hasArena, hasArena \in BOOLEAN
  PROVE  View(WriteMemory(m, a, v), p) = Put(View(m, p), a, v)
<1> DEFINE out == WriteMemory(m, a, v)
<1>1. Len(v) = w
  BY WordIsSeq
<1>2. \A x \in Covered : x \in Int /\ (x \in Backed => x \in ArenaCells)
                        /\ (x \notin Backed => x \in Addr)
  BY Layout, SizesOK DEF Covered, Addr
<1>3. CASE a \notin Backed
  <2>1. out = [m EXCEPT !.extra = Put(m.extra, a, v)]
    BY <1>3 DEF WriteMemory
  <2>2. out.extra = Put(m.extra, a, v) /\ out.buf = m.buf /\ out.arena = m.arena
    BY <2>1 DEF Mem
  <2>3. \A x \in Backed : x \notin a..(a + w - 1)
    BY <1>3, Layout, SizesOK, PlacedCells
  <2>4. DOMAIN m.extra = Addr
    BY DEF Mem
  <2>5. View(out, p) = Put(View(m, p), a, v)
    <3> HIDE DEF out
    <3> QED BY <1>1, <1>2, <2>2, <2>3, <2>4 DEF View, Put
  <2> QED BY <2>5
<1>4. CASE a \in Backed
  <2>1. InBuffer(a, w)
    BY <1>4, PlacedCells
  <2>2. /\ out.buf = Put(m.buf, a, v) /\ out.extra = m.extra
        /\ hasArena => out.arena = Put(m.arena, a, v)
    BY <2>1, WriteMemoryInBuffer
  <2>3. \A x \in Covered : x \in a..(a + w - 1) => x \in Backed
    BY <1>2, <2>1, Layout, SizesOK DEF InBuffer, Within
  <2>4. DOMAIN m.buf = Backed /\ DOMAIN m.arena = ArenaCells
    BY DEF Mem
  <2>5. View(out, p) = Put(View(m, p), a, v)
    <3> HIDE DEF out
    <3> QED BY <1>1, <1>2, <2>2, <2>3, <2>4 DEF View, Put
  <2> QED BY <2>5
<1> QED BY <1>3, <1>4

\* A Vector reaches the view whole, although it is written in three steps.
LEMMA VectorView ==
  ASSUME NEW m \in Mem, NEW a \in Nat, NEW w \in {1, 2, 4}, NEW v \in Word(w),
         Placed(a, w), hasArena \in BOOLEAN
  PROVE  View(MemoryWrite(m, a, v), hasArena) = Put(View(m, hasArena), a, v)
<1>1. Len(v) = w
  BY WordIsSeq
<1>2. CASE w < 4
  BY <1>1, <1>2, WriteView DEF MemoryWrite
<1>3. CASE w = 4
  <2> DEFINE n == TryWriteFastmem128(m, a, v)
             low == <<v[1], v[2]>>
             high == <<v[3], v[4]>>
             half == WriteMemory(n, a, low)
             f == View(m, hasArena)
             g == View(n, hasArena)
  <2>1. low \in Word(2) /\ high \in Word(2)
    BY <1>3 DEF Word
  <2>2. MemoryWrite(m, a, v) = WriteMemory(half, a + 2, high)
    BY <1>1, <1>3 DEF MemoryWrite
  <2>3. n \in Mem /\ n.buf = m.buf /\ n.extra = m.extra
        /\ (n.arena = m.arena \/ n.arena = Put(m.arena, a, v))
    <3>1. /\ m.arena \in [ArenaCells -> Value] /\ ArenaCells \subseteq Int
          /\ a \in Int /\ w \in Nat
      BY Layout DEF Mem
    <3>2. Put(m.arena, a, v) \in [ArenaCells -> Value]
      BY <3>1, PutType, Zenon
    <3> QED BY <3>2 DEF TryWriteFastmem128, Mem
  <2>4. Placed(a, 2) /\ Placed(a + 2, 2)
    BY <1>3, Layout, SizesOK DEF Placed, InBuffer, Within
  <2>5. half \in Mem
    <3> HIDE DEF n, low
    <3> QED BY <2>1, <2>3, WriteMemoryAgrees
  <2>6. View(half, hasArena) = Put(g, a, low)
    <3> HIDE DEF n, low
    <3> QED BY <2>1, <2>3, <2>4, WriteView
  <2>7. View(WriteMemory(half, a + 2, high), hasArena) = Put(View(half, hasArena), a + 2, high)
    <3> a + 2 \in Nat
      OBVIOUS
    <3> HIDE DEF half, high
    <3> QED BY <2>1, <2>4, <2>5, WriteView
  <2>8. /\ DOMAIN f = Covered /\ DOMAIN g = Covered
        /\ \A x \in Covered : g[x] = f[x] \/ (x \in a..(a + 3) /\ g[x] = v[x - a + 1])
    <3>1. \A x \in Backed : x \in DOMAIN m.arena
      BY Layout DEF Mem
    <3> HIDE DEF n
    <3> QED BY <1>1, <1>3, <2>3, <3>1 DEF View, Put
  <2>9. /\ Len(low) = 2 /\ low[1] = v[1] /\ low[2] = v[2]
        /\ Len(high) = 2 /\ high[1] = v[3] /\ high[2] = v[4]
    OBVIOUS
  <2>10. Put(Put(g, a, low), a + 2, high) = Put(f, a, v)
    <3>1. \A x \in Covered : x \in Int
      BY Layout, SizesOK DEF Covered
    <3> HIDE DEF f, g, low, high
    <3>2. ASSUME NEW x \in Covered
          PROVE  Put(Put(g, a, low), a + 2, high)[x] = Put(f, a, v)[x]
      <4>1. x \in a..(a + 3) <=> x \in a..(a + 1) \/ x \in (a + 2)..(a + 3)
        BY <3>1
      <4> QED BY <1>1, <1>3, <2>8, <2>9, <3>1, <4>1 DEF Put
    <3>3. /\ Put(Put(g, a, low), a + 2, high) =
               [x \in Covered |-> Put(Put(g, a, low), a + 2, high)[x]]
          /\ Put(f, a, v) = [x \in Covered |-> Put(f, a, v)[x]]
      BY <2>8 DEF Put
    <3> QED BY <3>2, <3>3
  <2> QED BY <2>2, <2>6, <2>7, <2>10
<1> QED BY <1>2, <1>3

-----------------------------------------------------------------------------
\* The copies move the view from one store to the other and leave it as it is.

LEMMA SyncView ==
  ASSUME NEW m \in Mem, hasArena \in BOOLEAN
  PROVE  /\ View(SyncFastmemToData(m), FALSE) = View(m, hasArena)
         /\ View(SyncFastmemToData(m), hasArena) = View(m, hasArena)
         /\ View(SyncDataToFastmem(m), hasArena) = View(m, FALSE)
         /\ View(SyncCodeToFastmem(m), FALSE) = View(m, FALSE)
<1>1. \A x \in Backed : x \in ArenaCells
  BY Layout
<1>2. CASE hasArena
  <2>1. /\ SyncFastmemToData(m).buf = [x \in Backed |-> m.arena[x]]
        /\ SyncFastmemToData(m).arena = m.arena /\ SyncFastmemToData(m).extra = m.extra
    BY <1>2 DEF SyncFastmemToData, Mem
  <2>2. /\ SyncDataToFastmem(m).arena =
             [x \in ArenaCells |-> IF x \in Backed THEN m.buf[x] ELSE m.arena[x]]
        /\ SyncDataToFastmem(m).extra = m.extra
    BY <1>2 DEF SyncDataToFastmem, Mem
  <2>3. SyncCodeToFastmem(m).buf = m.buf /\ SyncCodeToFastmem(m).extra = m.extra
    BY <1>2 DEF SyncCodeToFastmem, Mem
  <2> QED BY <1>1, <1>2, <2>1, <2>2, <2>3 DEF View
<1>3. CASE ~hasArena
  BY <1>3 DEF SyncFastmemToData, SyncDataToFastmem, SyncCodeToFastmem, View
<1> QED BY <1>2, <1>3

\* The supervisor's stores go to the buffer, which is the view while it works.
LEMMA WriteTlsView ==
  ASSUME NEW m \in Mem, NEW offset \in Nat, NEW v \in Word(2)
  PROVE  View(WriteTlsMemory(m, offset, v), FALSE) =
           IF InTls(offset) THEN Put(View(m, FALSE), TLS_MEM_BASE + offset, v)
           ELSE View(m, FALSE)
<1>1. CASE ~InTls(offset)
  BY <1>1 DEF WriteTlsMemory
<1>2. CASE InTls(offset)
  <2> DEFINE out == WriteTlsMemory(m, offset, v)
             a == TLS_MEM_BASE + offset
  <2>1. out.buf = Put(m.buf, a, v) /\ out.extra = m.extra
    BY <1>2 DEF WriteTlsMemory, Mem
  <2>2. Len(v) = 2 /\ DOMAIN m.buf = Backed
    BY WordIsSeq DEF Mem
  <2>3. \A x \in Covered : x \in a..(a + 1) => x \in Backed
    BY <1>2, Layout, SizesOK DEF InTls, TLS_MEM_BASE
  <2>4. View(out, FALSE) = Put(View(m, FALSE), a, v)
    <3> HIDE DEF out, a
    <3> QED BY <2>1, <2>2, <2>3 DEF View, Put
  <2> QED BY <1>2, <2>4
<1> QED BY <1>1, <1>2

LEMMA ReadTlsView ==
  ASSUME NEW m \in Mem, NEW offset \in Nat, InTls(offset)
  PROVE  ReadTlsMemory(m, offset) = Take(View(m, FALSE), TLS_MEM_BASE + offset, 2)
<1> DEFINE a == TLS_MEM_BASE + offset
<1>1. a \in Nat /\ Placed(a, 2) /\ a \in Backed
  BY Layout, SizesOK DEF InTls, Placed, InBuffer, Within, TLS_MEM_BASE
<1>2. Take(View(m, FALSE), a, 2) = Take(m.buf, a, 2)
  <2> HIDE DEF a
  <2> QED BY <1>1, TakeView
<1> QED BY <1>2 DEF ReadTlsMemory

LEMMA PutPair ==
  ASSUME NEW g, NEW c \in Int, NEW y, NEW z, NEW x \in DOMAIN g, x \in Int
  PROVE  Put(g, c, <<y, z>>)[x] = IF x = c THEN y ELSE IF x = c + 1 THEN z ELSE g[x]
BY DEF Put

\* Six pairs stored at these strides leave two runs of cells.
LEMMA ResponseCells ==
  ASSUME NEW f, DOMAIN f \subseteq Int, NEW b \in Int, NEW z, NEW h, NEW k
  PROVE  Put(Put(Put(Put(Put(Put(f, b + 0, <<z, z>>), b + 1, <<h, z>>), b + 4, <<k, z>>),
                     b + 5, <<z, z>>), b + 6, <<z, z>>), b + 7, <<z, z>>) =
           Put(Put(f, b, <<z, h, z>>), b + 4, <<k, z, z, z, z>>)
<1> DEFINE g0 == Put(f, b + 0, <<z, z>>)
           g1 == Put(g0, b + 1, <<h, z>>)
           g4 == Put(g1, b + 4, <<k, z>>)
           g5 == Put(g4, b + 5, <<z, z>>)
           g6 == Put(g5, b + 6, <<z, z>>)
           g7 == Put(g6, b + 7, <<z, z>>)
           whole == Put(Put(f, b, <<z, h, z>>), b + 4, <<k, z, z, z, z>>)
<1>1. /\ DOMAIN whole = DOMAIN f /\ DOMAIN g0 = DOMAIN f /\ DOMAIN g1 = DOMAIN f
      /\ DOMAIN g4 = DOMAIN f /\ DOMAIN g5 = DOMAIN f /\ DOMAIN g6 = DOMAIN f
      /\ DOMAIN g7 = DOMAIN f
  BY DEF Put
<1>2. ASSUME NEW x \in DOMAIN f
      PROVE  g7[x] = whole[x]
  <2>1. x \in Int
    OBVIOUS
  <2>2. whole[x] = IF x = b + 1 THEN h ELSE IF x = b + 4 THEN k
                   ELSE IF x \in {b, b + 2, b + 5, b + 6, b + 7, b + 8} THEN z ELSE f[x]
    BY <2>1 DEF Put
  <2>3. g0[x] = IF x = b + 0 THEN z ELSE IF x = b + 1 THEN z ELSE f[x]
    BY <1>1, <2>1, PutPair
  <2>4. g1[x] = IF x = b + 1 THEN h ELSE IF x = b + 2 THEN z ELSE g0[x]
    <3> HIDE DEF g0
    <3> QED BY <1>1, <2>1, PutPair
  <2>5. g4[x] = IF x = b + 4 THEN k ELSE IF x = b + 5 THEN z ELSE g1[x]
    <3> HIDE DEF g1
    <3> QED BY <1>1, <2>1, PutPair
  <2>6. g5[x] = IF x = b + 5 THEN z ELSE IF x = b + 6 THEN z ELSE g4[x]
    <3> HIDE DEF g4
    <3> QED BY <1>1, <2>1, PutPair
  <2>7. g6[x] = IF x = b + 6 THEN z ELSE IF x = b + 7 THEN z ELSE g5[x]
    <3> HIDE DEF g5
    <3> QED BY <1>1, <2>1, PutPair
  <2>8. g7[x] = IF x = b + 7 THEN z ELSE IF x = b + 8 THEN z ELSE g6[x]
    <3> HIDE DEF g6
    <3> QED BY <1>1, <2>1, PutPair
  <2> HIDE DEF g0, g1, g4, g5, g6, g7, whole
  <2> QED BY <2>1, <2>2, <2>3, <2>4, <2>5, <2>6, <2>7, <2>8
<1>3. whole = [x \in DOMAIN f |-> whole[x]] /\ g7 = [x \in DOMAIN f |-> g7[x]]
  BY <1>1 DEF Put
<1>4. g7 = whole
  <2> HIDE DEF g7, whole
  <2> QED BY <1>2, <1>3
<1> QED BY <1>4

\* The six overlapping stores of the IPC response amount to two runs of cells.
LEMMA IpcResponseView ==
  ASSUME NEW m \in Mem
  PROVE  View(IpcResponse(m), FALSE) =
           Put(Put(View(m, FALSE), TLS_MEM_BASE, <<Zero, HipcHigh, Zero>>),
               TLS_MEM_BASE + 4, <<Magic, Zero, Zero, Zero, Zero>>)
<1> DEFINE Store(n, offset, low) == WriteTlsMemory(n, offset, <<low, Zero>>)
           m0 == Store(m, 0, Zero)
           m1 == Store(m0, 1, HipcHigh)
           m4 == Store(m1, 4, Magic)
           m5 == Store(m4, 5, Zero)
           m6 == Store(m5, 6, Zero)
           m7 == Store(m6, 7, Zero)
           f == View(m, FALSE)
           b == TLS_MEM_BASE
<1>1. IpcResponse(m) = m7
  BY DEF IpcResponse
<1>2. \A x \in {Zero, HipcHigh, Magic} : <<x, Zero>> \in Word(2)
  BY ValuesOK DEF Word
<1>3. ASSUME NEW n \in Mem, NEW o \in 0..7, NEW x \in {Zero, HipcHigh, Magic}
      PROVE  /\ Store(n, o, x) \in Mem
             /\ View(Store(n, o, x), FALSE) = Put(View(n, FALSE), b + o, <<x, Zero>>)
  <2>1. o \in Nat /\ InTls(o) /\ <<x, Zero>> \in Word(2)
    BY <1>2, SizesOK DEF InTls
  <2> QED BY <2>1, WriteTlsType, WriteTlsView
<1> HIDE DEF Store, b, f
<1>0. /\ 0 \in 0..7 /\ 1 \in 0..7 /\ 4 \in 0..7 /\ 5 \in 0..7 /\ 6 \in 0..7 /\ 7 \in 0..7
      /\ Zero \in {Zero, HipcHigh, Magic} /\ HipcHigh \in {Zero, HipcHigh, Magic}
      /\ Magic \in {Zero, HipcHigh, Magic}
  OBVIOUS
<1>4. m0 \in Mem /\ View(m0, FALSE) = Put(View(m, FALSE), b + 0, <<Zero, Zero>>)
  BY <1>0, <1>3, Zenon
<1> HIDE DEF m0
<1>5. m1 \in Mem /\ View(m1, FALSE) = Put(View(m0, FALSE), b + 1, <<HipcHigh, Zero>>)
  BY <1>0, <1>3, <1>4, Zenon
<1> HIDE DEF m1
<1>6. m4 \in Mem /\ View(m4, FALSE) = Put(View(m1, FALSE), b + 4, <<Magic, Zero>>)
  BY <1>0, <1>3, <1>5, Zenon
<1> HIDE DEF m4
<1>7. m5 \in Mem /\ View(m5, FALSE) = Put(View(m4, FALSE), b + 5, <<Zero, Zero>>)
  BY <1>0, <1>3, <1>6, Zenon
<1> HIDE DEF m5
<1>8. m6 \in Mem /\ View(m6, FALSE) = Put(View(m5, FALSE), b + 6, <<Zero, Zero>>)
  BY <1>0, <1>3, <1>7, Zenon
<1> HIDE DEF m6
<1>9. View(m7, FALSE) = Put(View(m6, FALSE), b + 7, <<Zero, Zero>>)
  BY <1>0, <1>3, <1>8, Zenon
<1> HIDE DEF m7
<1>10. b \in Int /\ DOMAIN f \subseteq Int
  BY Layout, SizesOK DEF TLS_MEM_BASE, Covered, View, b, f
<1> DEFINE g0 == Put(f, b + 0, <<Zero, Zero>>)
           g1 == Put(g0, b + 1, <<HipcHigh, Zero>>)
           g4 == Put(g1, b + 4, <<Magic, Zero>>)
           g5 == Put(g4, b + 5, <<Zero, Zero>>)
           g6 == Put(g5, b + 6, <<Zero, Zero>>)
           g7 == Put(g6, b + 7, <<Zero, Zero>>)
<1>11. View(m7, FALSE) = g7
  <2>1. View(m0, FALSE) = g0
    BY <1>4 DEF f
  <2> HIDE DEF g0
  <2>2. View(m1, FALSE) = g1
    BY <1>5, <2>1
  <2> HIDE DEF g1
  <2>3. View(m4, FALSE) = g4
    BY <1>6, <2>2
  <2> HIDE DEF g4
  <2>4. View(m5, FALSE) = g5
    BY <1>7, <2>3
  <2> HIDE DEF g5
  <2>5. View(m6, FALSE) = g6
    BY <1>8, <2>4
  <2> HIDE DEF g6
  <2> QED BY <1>9, <2>5
<1>12. g7 = Put(Put(f, b, <<Zero, HipcHigh, Zero>>),
                b + 4, <<Magic, Zero, Zero, Zero, Zero>>)
  BY <1>10, ResponseCells
<1> QED BY <1>1, <1>11, <1>12 DEF f, b

-----------------------------------------------------------------------------
\* Every step maps to a step of FlatMemory or to a stutter.

LEMMA SameOperators ==
  ASSUME NEW f, NEW a, NEW w, NEW v
  PROVE  Flat!Take(f, a, w) = Take(f, a, w) /\ Flat!Put(f, a, v) = Put(f, a, v)
BY DEF Flat!Take, Flat!Put, Take, Put

LEMMA ViewNow ==
  /\ phase = "load" => FlatView = View(mem, FALSE)
  /\ phase # "load" => FlatView = View(mem, hasArena)
BY DEF FlatView, View

LEMMA ViewNext ==
  /\ phase' = "load" => FlatView' = View(mem', FALSE)
  /\ phase' # "load" /\ hasArena' = hasArena => FlatView' = View(mem', hasArena)
BY DEF FlatView, View

\* The entries still to be written are entries of the configuration.
TodoOK == /\ todoMem \in Seq([addr : 0..(AddrLimit - 2), val : Word(2)])
          /\ \A i \in 1..Len(todoMem) : todoMem[i] \in MemDataStores

FInv == IInv /\ TodoOK

LEMMA InitFInv == Init => FInv
<1> SUFFICES ASSUME Init PROVE TodoOK
  BY InitIInv DEF FInv
<1>1. todoMem = config.mem /\ config \in Configs
  BY DEF Init
<1>2. todoMem \in Seq([addr : 0..(AddrLimit - 2), val : Word(2)])
  BY <1>1, InitIInv DEF IInv, TypeOK
<1> QED BY <1>1, <1>2 DEF TodoOK, MemDataStores

LEMMA NextFInv == FInv /\ [Next]_vars => FInv'
<1> SUFFICES ASSUME FInv, [Next]_vars PROVE TodoOK'
  BY NextIInv DEF FInv
<1>1. CASE todoMem' = todoMem
  BY <1>1 DEF FInv, TodoOK
<1>2. CASE LoadMemData
  <2>1. /\ todoMem # << >> /\ todoMem' = Tail(todoMem)
        /\ todoMem \in Seq([addr : 0..(AddrLimit - 2), val : Word(2)])
        /\ \A i \in 1..Len(todoMem) : todoMem[i] \in MemDataStores
    BY <1>2 DEF LoadMemData, FInv, TodoOK
  <2>2. /\ todoMem' \in Seq([addr : 0..(AddrLimit - 2), val : Word(2)])
        /\ Len(todoMem') = Len(todoMem) - 1 /\ Len(todoMem) \in Nat
        /\ \A i \in 1..Len(todoMem') : todoMem'[i] = todoMem[i + 1]
    BY <2>1, HeadTailProperties, LenProperties
  <2> QED BY <2>1, <2>2 DEF TodoOK
<1>3. [Next]_vars => LoadMemData \/ todoMem' = todoMem
  BY DEF Next, Load, LoadTlsData, StartRun, GuestAccess, FastLoad, FastStore, CallbackRead,
         CallbackWrite, GuestExclusive, FastExclusive, CallbackExclusive, GuestSVC, CallSVC,
         Stop, ExceptionRaised, OutOfTicks, SyncForVerification, control, vars
<1> QED BY <1>1, <1>2, <1>3

LEMMA LoadFlat == FInv /\ Load => [Flat!Next]_<<FlatView, got>>
<1> SUFFICES ASSUME FInv, Load PROVE Flat!Next \/ UNCHANGED <<FlatView, got>>
  OBVIOUS
<1>1. /\ mem \in Mem /\ hasArena \in BOOLEAN /\ phase = "load"
      /\ hasArena' = hasArena /\ got' = got
  BY DEF FInv, IInv, TypeOK, Load, LoadMemData, LoadTlsData, StartRun, setup
<1>2. FlatView = View(mem, FALSE)
  BY <1>1, ViewNow
<1>3. CASE LoadMemData
  <2> DEFINE e == Head(todoMem)
  <2>1. e \in MemDataStores /\ e \in [addr : 0..(AddrLimit - 2), val : Word(2)]
    <3>1. /\ todoMem # << >>
          /\ todoMem \in Seq([addr : 0..(AddrLimit - 2), val : Word(2)])
          /\ \A i \in 1..Len(todoMem) : todoMem[i] \in MemDataStores
      BY <1>3 DEF LoadMemData, FInv, TodoOK
    <3>2. 1 \in 1..Len(todoMem) /\ e = todoMem[1]
      BY <3>1, EmptySeq
    <3> HIDE DEF e
    <3> QED BY <3>1, <3>2, ElementOfSeq
  <2>2. Placed(e.addr, 2) /\ e.addr \in Nat /\ e.val \in Word(2)
    BY <2>1, PlacedOK, SizesOK DEF MemDataStores
  <2>3. FlatView' = View(mem', FALSE)
    BY <1>1, <1>3, ViewNext DEF LoadMemData
  <2>4. View(WriteMemory(mem, e.addr, e.val), FALSE) = Put(View(mem, FALSE), e.addr, e.val)
    BY <1>1, <2>2, WriteView
  <2>5. FlatView' = Put(FlatView, e.addr, e.val)
    BY <1>2, <1>3, <2>3, <2>4 DEF LoadMemData
  <2>6. Flat!Write(e.addr, e.val)
    BY <1>1, <2>5, SameOperators DEF Flat!Write
  <2> QED BY <2>1, <2>6 DEF Flat!Next
<1>4. CASE LoadTlsData
  <2> DEFINE e == Head(todoTls)
             s == [addr |-> TLS_MEM_BASE + e.offset, val |-> e.val]
  <2>1. e \in [offset : Nat, val : Word(2)]
    BY <1>4, HeadTailProperties DEF LoadTlsData, FInv, IInv, TypeOK
  <2>2. FlatView' = View(WriteTlsMemory(mem, e.offset, e.val), FALSE)
    BY <1>1, <1>4, ViewNext DEF LoadTlsData
  <2>3. CASE ~InTls(e.offset)
    BY <1>1, <1>2, <2>1, <2>2, <2>3, WriteTlsView
  <2>4. CASE InTls(e.offset)
    <3>1. FlatView' = Put(FlatView, s.addr, s.val)
      BY <1>1, <1>2, <2>1, <2>2, <2>4, WriteTlsView
    <3>2. s \in TlsStores
      BY <2>1, <2>4, SizesOK DEF TlsStores, InTls
    <3>3. Flat!Write(s.addr, s.val)
      BY <1>1, <3>1, SameOperators DEF Flat!Write
    <3> QED BY <3>2, <3>3 DEF Flat!Next
  <2> QED BY <2>3, <2>4
<1>5. CASE StartRun
  <2>1. SyncCodeToFastmem(mem) \in Mem
    BY <1>1, SyncCodeType
  <2>2. FlatView' = View(SyncDataToFastmem(SyncCodeToFastmem(mem)), hasArena)
    BY <1>1, <1>5, ViewNext DEF StartRun
  <2>3. FlatView' = FlatView
    BY <1>1, <1>2, <2>1, <2>2, SyncView
  <2> QED BY <1>1, <2>3
<1> QED BY <1>3, <1>4, <1>5 DEF Load

LEMMA GuestFlat == FInv /\ (GuestAccess \/ GuestExclusive) => [Flat!Next]_<<FlatView, got>>
<1> SUFFICES ASSUME FInv, GuestAccess \/ GuestExclusive
             PROVE  Flat!Next \/ UNCHANGED <<FlatView, got>>
  OBVIOUS
<1>1. mem \in Mem /\ hasArena \in BOOLEAN
  BY DEF FInv, IInv, TypeOK
<1>2. phase = "running" /\ phase' = "running" /\ hasArena' = hasArena
  BY DEF GuestAccess, GuestExclusive, FastLoad, CallbackRead, FastStore, CallbackWrite,
         FastExclusive, CallbackExclusive, control, setup
<1>3. FlatView = View(mem, hasArena) /\ FlatView' = View(mem', hasArena)
  BY <1>2, ViewNow, ViewNext
<1>4. ASSUME NEW l \in Loads
      PROVE  l[1] \in Nat /\ l[2] \in {1, 2, 4} /\ Placed(l[1], l[2])
  BY AccessesOK, PlacedOK, SizesOK DEF Addr
<1>5. ASSUME NEW s \in Stores
      PROVE  /\ s.addr \in Nat /\ Len(s.val) \in {1, 2, 4} /\ s.val \in Word(Len(s.val))
             /\ Placed(s.addr, Len(s.val))
  <2>1. PICK w \in {1, 2, 4} : s.val \in Word(w)
    BY AccessesOK
  <2>2. Len(s.val) = w
    BY <2>1, WordIsSeq
  <2> QED BY <2>1, <2>2, AccessesOK, PlacedOK, SizesOK DEF Addr
\* What the arena holds of a placed word is the view of it, and a direct store
\* of a placed word is a store to the view.
<1>6. ASSUME NEW a \in Nat, NEW w \in {1, 2, 4}, Placed(a, w), InArena(a, w)
      PROVE  hasArena /\ a \in Backed /\ Take(mem.arena, a, w) = Take(FlatView, a, w)
  <2>1. hasArena /\ a \in Backed
    BY <1>6, PlacedCells, SizesOK DEF InArena
  <2> QED BY <1>1, <1>3, <1>6, <2>1, TakeView
<1>7. ASSUME NEW s \in Stores, InArena(s.addr, Len(s.val)),
             mem' = [mem EXCEPT !.arena = Put(@, s.addr, s.val)]
      PROVE  FlatView' = Put(FlatView, s.addr, s.val)
  <2> DEFINE a == s.addr
             w == Len(s.val)
             v == s.val
  <2>1. a \in Nat /\ w \in {1, 2, 4} /\ Placed(a, w) /\ InArena(a, w)
    BY <1>5, <1>7
  <2>2. /\ mem'.arena = Put(mem.arena, a, v) /\ mem'.extra = mem.extra
        /\ DOMAIN mem.arena = ArenaCells
    BY <1>1, <1>7 DEF Mem
  <2> HIDE DEF a
  <2>3. hasArena /\ InBuffer(a, w)
    <3> HIDE DEF w
    <3> QED BY <2>1, PlacedCells, SizesOK DEF InArena
  <2>4. \A x \in Covered : /\ x \in a..(a + w - 1) => x \in Backed
                           /\ x \in Backed => x \in ArenaCells
    <3> HIDE DEF w
    <3> QED BY <2>1, <2>3, Layout, SizesOK DEF InBuffer, Within
  <2>5. /\ FlatView' = [x \in Covered |-> IF x \notin Backed THEN mem'.extra[x] ELSE mem'.arena[x]]
        /\ FlatView = [x \in Covered |-> IF x \notin Backed THEN mem.extra[x] ELSE mem.arena[x]]
    BY <1>2, <2>3 DEF FlatView, View
  <2>6. FlatView' = Put(FlatView, a, v)
    <3> DEFINE left == [x \in Covered |-> IF x \notin Backed THEN mem.extra[x]
                                         ELSE Put(mem.arena, a, v)[x]]
               right == [x \in Covered |-> IF x \in a..(a + w - 1) THEN v[x - a + 1]
                                          ELSE FlatView[x]]
    <3>1. FlatView' = left
      BY <2>2, <2>5
    <3>2. Put(FlatView, a, v) = right
      BY <2>5 DEF Put
    <3>3. ASSUME NEW x \in Covered
          PROVE  left[x] = right[x]
      <4>1. CASE x \notin Backed
        <5>1. x \notin a..(a + w - 1)
          BY <2>4, <4>1
        <5>2. FlatView[x] = mem.extra[x]
          BY <2>5, <4>1, Zenon
        <5>3. left[x] = mem.extra[x]
          BY <4>1
        <5> HIDE DEF w
        <5>4. right[x] = FlatView[x]
          BY <5>1
        <5> QED BY <5>2, <5>3, <5>4, Zenon
      <4>2. CASE x \in Backed
        <5>1. Put(mem.arena, a, v)[x] = IF x \in a..(a + w - 1) THEN v[x - a + 1]
                                        ELSE mem.arena[x]
          BY <2>2, <2>4, <4>2 DEF Put
        <5>2. FlatView[x] = mem.arena[x]
          BY <2>5, <4>2
        <5> QED BY <4>2, <5>1, <5>2
      <4> QED BY <4>1, <4>2
    <3> QED BY <3>1, <3>2, <3>3
  <2> QED BY <2>6 DEF a
<1>8. ASSUME NEW l \in Loads, FastLoad(l[1], l[2]) \/ CallbackRead(l[1], l[2])
      PROVE  Flat!Next
  <2>1. mem' = mem /\ got' = Answer(l[1], Take(FlatView, l[1], l[2]), TRUE)
    <3>1. CASE FastLoad(l[1], l[2])
      BY <1>4, <1>6, <3>1 DEF FastLoad
    <3>2. CASE CallbackRead(l[1], l[2])
      BY <1>1, <1>3, <1>4, <3>2, ReadView DEF CallbackRead
    <3> QED BY <1>8, <3>1, <3>2
  <2>2. Flat!Read(l[1], l[2])
    BY <1>3, <2>1, SameOperators DEF Flat!Read, Answer
  <2> QED BY <2>2 DEF Flat!Next
<1>9. ASSUME NEW s \in Stores, FastStore(s.addr, s.val) \/ CallbackWrite(s.addr, s.val)
      PROVE  Flat!Next
  <2>1. got' = got /\ FlatView' = Put(FlatView, s.addr, s.val)
    <3>1. CASE FastStore(s.addr, s.val)
      BY <1>7, <3>1 DEF FastStore
    <3>2. CASE CallbackWrite(s.addr, s.val)
      BY <1>1, <1>3, <1>5, <3>2, VectorView DEF CallbackWrite
    <3> QED BY <1>9, <3>1, <3>2
  <2>2. Flat!Write(s.addr, s.val)
    BY <2>1, SameOperators DEF Flat!Write
  <2> QED BY <2>2 DEF Flat!Next
<1>10. ASSUME NEW s \in Stores, NEW e \in Expected(Len(s.val)),
              FastExclusive(s.addr, s.val, e) \/ CallbackExclusive(s.addr, s.val, e)
       PROVE  Flat!Next
  <2> DEFINE match == Take(FlatView, s.addr, Len(s.val)) = e
  <2>1. /\ got' = Answer(s.addr, << >>, match)
        /\ FlatView' = IF match THEN Put(FlatView, s.addr, s.val) ELSE FlatView
    <3>1. CASE FastExclusive(s.addr, s.val, e)
      BY <1>3, <1>5, <1>6, <1>7, <3>1 DEF FastExclusive
    <3>2. CASE CallbackExclusive(s.addr, s.val, e)
      BY <1>1, <1>3, <1>5, <3>2, ReadView, VectorView DEF CallbackExclusive
    <3> QED BY <1>10, <3>1, <3>2
  <2>2. Flat!CompareAndWrite(s.addr, s.val, e)
    BY <2>1, SameOperators DEF Flat!CompareAndWrite, Answer
  <2>3. e \in Flat!Expected(Len(s.val))
    BY DEF Expected, Flat!Expected, Blank, Flat!Blank
  <2> QED BY <2>2, <2>3 DEF Flat!Next
<1>11. CASE GuestAccess
  BY <1>8, <1>9, <1>11, Zenon DEF GuestAccess
<1>12. CASE GuestExclusive
  BY <1>10, <1>12, Zenon DEF GuestExclusive
<1> QED BY <1>11, <1>12

LEMMA SvcFlat == FInv /\ GuestSVC => [Flat!Next]_<<FlatView, got>>
<1> SUFFICES ASSUME FInv,
                    NEW swi \in Swis, NEW x0 \in SvcWords, NEW offset \in SvcOffsets,
                    CallSVC(swi, x0, offset)
             PROVE  Flat!Next \/ UNCHANGED <<FlatView, got>>
  BY Zenon DEF GuestSVC
<1> DEFINE m == SyncFastmemToData(mem)
<1>1. /\ mem \in Mem /\ hasArena \in BOOLEAN /\ phase = "running" /\ hasArena' = hasArena
      /\ config \in Configs /\ svcIndex \in Nat \ {0}
  BY DEF FInv, IInv, TypeOK, CallSVC, setup
<1>2. m \in Mem
  BY <1>1, SyncInAgrees
<1>3. swi \in Nat /\ x0 \in Word(2) /\ offset \in Nat
  BY SvcOK
<1>4. FlatView = View(m, FALSE) /\ FlatView = View(m, hasArena)
  BY <1>1, ViewNow, SyncView
<1>5. ASSUME phase' # "load"
      PROVE  FlatView' = View(mem', hasArena)
  BY <1>1, <1>5, ViewNext
<1> HIDE DEF m
\* A handler that reads TLS reads the view, and one that reads beyond the
\* region reads nothing.
<1>6. ASSUME NEW o \in Nat, FlatView' = FlatView, got' = TlsAnswer(m, o)
      PROVE  Flat!Next
  <2>1. CASE InTls(o)
    <3>1. got' = Answer(TLS_MEM_BASE + o, Take(FlatView, TLS_MEM_BASE + o, 2), TRUE)
      BY <1>2, <1>4, <1>6, <2>1, ReadTlsView DEF TlsAnswer
    <3>2. <<TLS_MEM_BASE + o, 2>> \in TlsLoads
      BY <2>1, SizesOK DEF TlsLoads, InTls
    <3>3. Flat!Read(TLS_MEM_BASE + o, 2)
      BY <1>6, <3>1, SameOperators DEF Flat!Read, Answer
    <3> QED BY <3>2, <3>3 DEF Flat!Next
  <2>2. CASE ~InTls(o)
    BY <1>6, <2>2 DEF TlsAnswer, Nothing, Answer, Flat!Next, Flat!ReadNothing, Flat!Nothing
  <2> QED BY <2>1, <2>2
\* A handler that stores one word in TLS stores it in the view.
<1>7. ASSUME NEW o \in Nat, NEW v \in Word(2), got' = got,
             mem' = SyncDataToFastmem(WriteTlsMemory(m, o, v)), phase' # "load"
      PROVE  Flat!Next \/ UNCHANGED <<FlatView, got>>
  <2>1. WriteTlsMemory(m, o, v) \in Mem
    BY <1>2, WriteTlsType
  <2>2. FlatView' = View(WriteTlsMemory(m, o, v), FALSE)
    BY <1>1, <1>5, <1>7, <2>1, SyncView
  <2>3. CASE ~InTls(o)
    BY <1>2, <1>4, <1>7, <2>2, <2>3, WriteTlsView
  <2>4. CASE InTls(o)
    <3> DEFINE s == [addr |-> TLS_MEM_BASE + o, val |-> v]
    <3>1. FlatView' = Put(FlatView, s.addr, s.val)
      BY <1>2, <1>4, <2>2, <2>4, WriteTlsView
    <3>2. s \in TlsStores
      BY <2>4, SizesOK DEF TlsStores, InTls
    <3>3. Flat!Write(s.addr, s.val)
      BY <1>7, <3>1, SameOperators DEF Flat!Write
    <3> QED BY <3>2, <3>3 DEF Flat!Next
  <2> QED BY <2>3, <2>4
<1>8. ASSUME mem' = SyncDataToFastmem(m), phase' # "load"
      PROVE  FlatView' = FlatView
  BY <1>1, <1>2, <1>4, <1>5, <1>8, SyncView
<1>9. ASSUME SvcEnd(m) \/ SvcAbort(m, swi)
      PROVE  UNCHANGED <<FlatView, got>>
  <2>1. mem' = m /\ got' = got /\ phase' # "load"
    BY <1>9 DEF SvcEnd, SvcAbort
  <2> QED BY <1>4, <1>5, <2>1
<1>10. ASSUME NEW i \in Scripted(swi), SvcAction(m, i)
       PROVE  Flat!Next \/ UNCHANGED <<FlatView, got>>
  <2> DEFINE act == config.svc[i]
  <2>1. act \in [svc_num : Nat, action : STRING, offset : Nat, value : Word(2)]
    <3>1. config.svc \in Seq([svc_num : Nat, action : STRING, offset : Nat, value : Word(2)])
      BY <1>1, ConfigsOK
    <3>2. i \in 1..Len(config.svc)
      BY <1>1, <3>1, LenProperties DEF Scripted
    <3> QED BY <3>1, <3>2, ElementOfSeq
  <2>2. phase' # "load"
    BY <1>1, <1>10 DEF SvcAction
  <2>3. CASE act.action = "write_tls"
    <3>1. got' = got /\ mem' = SyncDataToFastmem(WriteTlsMemory(m, act.offset, act.value))
      BY <1>10, <2>3 DEF SvcAction
    <3> QED BY <1>7, <2>1, <2>2, <3>1
  <2>4. CASE act.action # "write_tls"
    <3>1. mem' = SyncDataToFastmem(m) /\ (got' = got \/ got' = TlsAnswer(m, act.offset))
      BY <1>10, <2>4 DEF SvcAction
    <3> QED BY <1>6, <1>8, <2>1, <2>2, <3>1
  <2> QED BY <2>3, <2>4
<1>11. ASSUME SvcDefault(m, swi, x0, offset)
       PROVE  Flat!Next \/ UNCHANGED <<FlatView, got>>
  <2>1. phase' # "load"
    BY <1>1, <1>11 DEF SvcDefault
  <2>2. CASE swi \in WRITE_TLS
    <3>1. got' = got /\ mem' = SyncDataToFastmem(WriteTlsMemory(m, offset, x0))
      BY <1>11, <2>2 DEF SvcDefault, READ_TLS, WRITE_TLS, VERIFY_IPC
    <3> QED BY <1>3, <1>7, <2>1, <3>1
  <2>3. CASE swi = RESPOND_IPC
    <3>1. got' = got /\ mem' = SyncDataToFastmem(IpcResponse(m))
      BY <1>11, <2>3 DEF SvcDefault, READ_TLS, WRITE_TLS, VERIFY_IPC, RESPOND_IPC
    <3>2. IpcResponse(m) \in Mem
      BY <1>2, IpcResponseType
    <3>3. FlatView' = View(IpcResponse(m), FALSE)
      BY <1>1, <1>5, <2>1, <3>1, <3>2, SyncView
    <3>4. FlatView' = Put(Put(FlatView, TLS_MEM_BASE, <<Zero, HipcHigh, Zero>>),
                          TLS_MEM_BASE + 4, <<Magic, Zero, Zero, Zero, Zero>>)
      BY <1>2, <1>4, <3>3, IpcResponseView
    <3>5. Flat!Respond
      BY <3>1, <3>4, SameOperators DEF Flat!Respond
    <3> QED BY <3>5 DEF Flat!Next
  <2>4. CASE swi \notin WRITE_TLS /\ swi # RESPOND_IPC
    <3>1. /\ mem' = SyncDataToFastmem(m)
          /\ got' = got \/ got' = TlsAnswer(m, offset) \/ got' = TlsAnswer(m, 4)
      BY <1>11, <2>4 DEF SvcDefault
    <3> QED BY <1>3, <1>6, <1>8, <2>1, <3>1
  <2> QED BY <2>2, <2>3, <2>4
<1> QED BY <1>9, <1>10, <1>11, Zenon DEF CallSVC, m

LEMMA StopFlat == FInv /\ Stop => UNCHANGED <<FlatView, got>>
<1> SUFFICES ASSUME FInv, Stop PROVE UNCHANGED <<FlatView, got>>
  OBVIOUS
<1>1. /\ mem \in Mem /\ hasArena \in BOOLEAN /\ hasArena' = hasArena /\ got' = got
      /\ phase # "load" /\ phase' # "load"
      /\ mem' = mem \/ mem' = SyncFastmemToData(mem)
  BY DEF FInv, IInv, TypeOK, Stop, ExceptionRaised, OutOfTicks, SyncForVerification,
         control, setup
<1> QED BY <1>1, ViewNow, ViewNext, SyncView

LEMMA InitFlat == Init => Flat!Init
<1> SUFFICES ASSUME Init PROVE Flat!Init
  OBVIOUS
<1>1. /\ phase = "load" /\ got = Nothing
      /\ mem.buf = [x \in Backed |-> Zero] /\ mem.extra = [x \in Addr |-> Zero]
  BY DEF Init
<1>2. FlatView = [x \in Covered |-> Zero]
  <2>1. \A x \in Covered : x \notin Backed => x \in Addr
    BY Layout, SizesOK DEF Covered, Addr
  <2> QED BY <1>1, <2>1 DEF FlatView, View
<1> QED BY <1>1, <1>2 DEF Flat!Init, Flat!Nothing, Nothing, Answer

\* For every region and arena size, program, configuration and set of placed
\* accesses, the environment behaves as one flat memory: no store is lost on
\* the way between the buffers, the arena and the extra memory, and no read
\* is answered from a stale copy.
THEOREM Implementation == Spec => FlatSpec
<1>1. FInv /\ [Next]_vars => [Flat!Next]_<<FlatView, got>>
  <2>1. UNCHANGED vars => UNCHANGED <<FlatView, got>>
    BY DEF vars, FlatView, View
  <2> QED BY <2>1, LoadFlat, GuestFlat, SvcFlat, StopFlat DEF Next
<1> QED BY <1>1, InitFInv, NextFInv, InitFlat, PTL DEF Spec, FlatSpec, Flat!Spec
=============================================================================
