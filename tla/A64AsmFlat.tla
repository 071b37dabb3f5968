---------------------------- MODULE A64AsmFlat ----------------------------
(***************************************************************************)
(* AsmTestEnv keeps the promise of FlatMemory for well-placed accesses:    *)
(* words that lie in one buffer (data and stack together, or TLS) or       *)
(* beyond the fastmem arena.  Elsewhere it does not: see the findings.     *)
(***************************************************************************)
EXTENDS A64AsmEnv

Covered == Backed \cup (ArenaSize..(AddrLimit - 1))
Placed(a, w) == InBuffer(a, w) \/ (a >= ArenaSize /\ a + w <= AddrLimit)

ASSUME PlacedOK ==
  /\ \A l \in Loads : Placed(l[1], l[2])
  /\ \A s \in Stores : Placed(s.addr, Len(s.val))
  /\ \A c \in Configs : \A i \in 1..Len(c.mem) : Placed(c.mem[i].addr, 2)

\* Where the current content of a cell is: the arena once the run has started,
\* the buffers before that or when there is no arena.
View(m, published) ==
  [x \in Covered |-> IF x \notin Backed THEN m.extra[x]
                     ELSE IF published THEN m.arena[x] ELSE m.buf[x]]
FlatView == View(mem, hasArena /\ phase # "load")

\* The reads and writes of the guest, of the supervisor and of the loading.
TlsLoads == {<<TLS_MEM_BASE + o, 2>> : o \in 0..(RegionSize - 2)}
TlsStores == {[addr |-> TLS_MEM_BASE + o, val |-> v] : o \in 0..(RegionSize - 2), v \in Word(2)}
MemDataStores == UNION {{c.mem[i] : i \in 1..Len(c.mem)} : c \in Configs}

Flat == INSTANCE FlatMemory WITH
  Cell    <- Covered,
  Loads   <- Loads \cup TlsLoads,
  Stores  <- Stores \cup TlsStores \cup MemDataStores,
  Exclusives <- Stores,
  Header  <- [addr |-> TLS_MEM_BASE, val |-> <<Zero, HipcHigh, Zero>>],
  Payload <- [addr |-> TLS_MEM_BASE + 4, val |-> <<Magic, Zero, Zero, Zero, Zero>>],
  flat    <- FlatView

\* No store of the guest, the loader or the supervisor is lost, reordered or
\* seen only through some of the access paths.
FlatSpec == Flat!Spec

\* What the configuration loads, in the order in which a later entry wins: all
\* of MemData before all of TlsData.  A TLS word over the end is not loaded.
TlsEntries ==
  LET inside == SelectSeq(config.tls, LAMBDA e : InTls(e.offset))
  IN  [i \in 1..Len(inside) |-> [addr |-> TLS_MEM_BASE + inside[i].offset, val |-> inside[i].val]]
Loaded == config.mem \o TlsEntries
Over(x) == {i \in 1..Len(Loaded) : x \in Loaded[i].addr..(Loaded[i].addr + 1)}

\* The run starts on the memory the configuration describes: in each cell, the
\* last word that covers it, TlsData after MemData, although one is written to
\* all stores, the other to a buffer, and both are copied once more.
LoadedInOrder ==
  [][phase = "load" /\ phase' = "running" =>
       \A x \in Covered :
         \/ Over(x) = {} /\ FlatView'[x] = Zero
         \/ \E i \in Over(x) : /\ \A j \in Over(x) : j <= i
                               /\ FlatView'[x] = Loaded[i].val[x - Loaded[i].addr + 1]]_vars

\* Every store of the run takes effect at once and on nothing else, whichever
\* path it takes: compiled code to the arena, a callback to its stores, a
\* supervisor call to the TLS buffer with copies before and after.
NoStoreLost ==
  [][/\ \A s \in Stores :
          FastStore(s.addr, s.val) \/ CallbackWrite(s.addr, s.val) =>
            FlatView' = Put(FlatView, s.addr, s.val)
     /\ \A swi \in Swis \cap WRITE_TLS, x0 \in SvcWords, offset \in SvcOffsets :
          Scripted(swi) = {} /\ InTls(offset) /\ CallSVC(swi, x0, offset) =>
            FlatView' = Put(FlatView, TLS_MEM_BASE + offset, x0)]_vars
=============================================================================
