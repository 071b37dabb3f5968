---------------------------- MODULE A32AsmFlat ----------------------------
(***************************************************************************)
(* A32AsmTestEnv keeps the promise of FlatMemory for words that lie in one *)
(* of its buffers, and any other access leaves that memory alone.          *)
(***************************************************************************)
EXTENDS A32AsmEnv

\* The memory the guest sees: where each address is kept.
View(m) ==
  [x \in Backed |-> IF x \in TlsBytes THEN m.tls[x - TLS_MEM_BASE] ELSE m.data[DataOffset(x)]]
FlatView == View(mem)

\* The answer as FlatMemory gives it: only words of the buffers come from it.
FlatGot ==
  IF InBuffer(got.addr, got.len)
  THEN [addr |-> got.addr, val |-> got.val, ok |-> got.ok]
  ELSE [addr |-> 0, val |-> << >>, ok |-> TRUE]

InBuffers(S) == {s \in S : InBuffer(s.addr, Len(s.val))}
At(base, entry) == [addr |-> base + entry.addr, val |-> entry.val]

\* The reads and writes of the guest, of its supervisor calls and of loading.
TlsOffsets == 0..(RegionSize - 4)
TlsWords == {[addr |-> TLS_MEM_BASE + o, val |-> v] : o \in TlsOffsets, v \in Word(4)}
DataEntries == UNION {{c.data[i] : i \in 1..Len(c.data)} : c \in Configs}
TlsEntries == UNION {{At(TLS_MEM_BASE, c.tls[i]) : i \in 1..Len(c.tls)} : c \in Configs}
EmptyWord == [addr |-> 0, val |-> << >>]

Flat == INSTANCE FlatMemory WITH
  Cell       <- Backed,
  Loads      <- {l \in Loads : InBuffer(l[1], l[2])} \cup {<<TLS_MEM_BASE + o, 4>> : o \in TlsOffsets},
  Stores     <- InBuffers(Stores \cup DataEntries \cup TlsEntries) \cup TlsWords,
  Exclusives <- InBuffers(Stores),
  Header     <- EmptyWord,
  Payload    <- EmptyWord,
  flat       <- FlatView,
  got        <- FlatGot

\* Data, stack and TLS behave as one memory whoever accesses them, at any
\* size and alignment, the supervisor calls and the loading among them; a word
\* that no buffer holds whole is dropped whole.
FlatSpec == Flat!Spec

\* The view after a store: of a word that data and stack, or TLS, hold whole.
After(a, v) ==
  IF Within(a, Len(v), DataBytes) \/ Within(a, Len(v), TlsBytes)
  THEN Put(FlatView, a, v) ELSE FlatView

\* Every store of the run takes effect at once and on nothing else, or is dropped
\* whole: the guest's, and the write_tls the script has next for its call, which
\* takes the value of the register it names or, without one, its own.
NoStoreLost ==
  [][/\ \A s \in Stores : CallbackWrite(s.addr, s.val) => FlatView' = After(s.addr, s.val)
     /\ \A i \in svcIndex..Len(config.svc) :
          LET act == config.svc[i]
          IN  svcIndex' = i + 1 /\ phase' # "aborted" /\ act.action = "write_tls" =>
                \E v \in IF act.reg = NoReg THEN {act.value} ELSE RegWords :
                  FlatView' = After(TLS_MEM_BASE + act.offset, v)]_vars

\* A test passes only on its end marker, without an unexpected exception, and
\* only if the memory the guest left holds every expected byte.
PassMatchesMemory ==
  passed => /\ phase = "done" /\ bkptHit /\ ~unexpected
            /\ \A e \in config.expected :
                 e.byte = IF e.addr \in Backed THEN FlatView[e.addr] ELSE Zero
=============================================================================
