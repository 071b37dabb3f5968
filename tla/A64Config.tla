----------------------------- MODULE A64Config -----------------------------
(***************************************************************************)
(* What the JIT's runner makes of the CONFIG of an A64 test                *)
(* (runners/asm/a64_asmtest.cpp): the registers the guest starts with, and *)
(* what is compared when it has stopped.  A CONFIG is a function of its    *)
(* keys; RegData and its kin are functions of register names to literals   *)
(* (of Q and V registers, the halves of 32 digits), VecData and its kin to *)
(* sequences of literals, the low half first, and ExpectedMemData of       *)
(* addresses to sequences of literals.                                     *)
(***************************************************************************)
EXTENDS A64Test

None == <<>>                               \* the object without keys
Get(config, key, default) == IF key \in DOMAIN config THEN config[key] ELSE default

-----------------------------------------------------------------------------
(* Names of registers. *)

Numbered(letter, n) == letter \o ToString(n)
Named(letter, registers) ==
  [name \in {Numbered(letter, n) : n \in DOMAIN registers} |->
     registers[CHOOSE n \in DOMAIN registers : name = Numbered(letter, n)]]
Gprs == Named("X", [n \in 0..30 |-> X(n)]) @@ Named("W", [n \in 0..30 |-> R(n)])
Scalars == Named("S", [n \in 0..31 |-> S(n)]) @@ Named("D", [n \in 0..31 |-> D(n)])
Vectors == LET v == [n \in 0..31 |-> V(n, 64)] IN Named("V", v) @@ Named("Q", v)
Register == Gprs @@ Scalars @@ Vectors @@ [SP |-> SP]
RegisterNames == DOMAIN Register \ DOMAIN Vectors

\* What the names are: every register has one of each kind, and no other has it.
ASSUME NamesOK ==
  /\ DOMAIN Register = DOMAIN Gprs \cup DOMAIN Scalars \cup DOMAIN Vectors \cup {"SP"}
  /\ DOMAIN Gprs = UNION {{Numbered("X", n), Numbered("W", n)} : n \in 0..30}
  /\ DOMAIN Scalars = UNION {{Numbered("S", n), Numbered("D", n)} : n \in 0..31}
  /\ DOMAIN Vectors = UNION {{Numbered("V", n), Numbered("Q", n)} : n \in 0..31}
  /\ \A n \in 0..30 : Register[Numbered("X", n)] = X(n) /\ Register[Numbered("W", n)] = R(n)
  /\ \A n \in 0..31 :
       /\ Register[Numbered("S", n)] = S(n) /\ Register[Numbered("D", n)] = D(n)
       /\ Register[Numbered("V", n)] = V(n, 64) /\ Register[Numbered("Q", n)] = V(n, 64)
       /\ Numbered("V", n) # Numbered("Q", n)
  /\ Register["SP"] = SP

\* A name says how many bits of the register it stands for.
BitsOf(name) == IF name \in DOMAIN Vectors THEN 128 ELSE Register[name].w

Pair(low, high) == low \cup Shl(high, 64, 128)
Low(a) == a \cap Mask(64)
High(a) == Field(a, 64, 64)

\* The entries of one object laid over those of another.
Over(above, below) ==
  [key \in DOMAIN above \cup DOMAIN below |->
     IF key \in DOMAIN above THEN above[key] ELSE below[key]]

-----------------------------------------------------------------------------
(* ParseTestConfig. *)

\* Mutants of ParseUint64: as a 32-bit value, and without the width of its type.
ParseUint64Narrow(literal) == IF literal = Malformed THEN {} ELSE literal \cap Mask(32)
ParseUint64Unbounded(literal) == literal

\* std::stoull reads up to the first character that is no digit: "0x000x1" is 0.
\* Of more than 64 bits it throws: see OutOfRange.
ParseUint64(literal) == IF literal = Malformed THEN {} ELSE Low(literal)

\* Mutant of ParseVecPair: the halves in the order they are printed.
ParseVecPairHighFirst(literals) == Pair(ParseUint64(literals[2]), ParseUint64(literals[1]))
ParseVecPair(literals) == Pair(ParseUint64(literals[1]), ParseUint64(literals[2]))

\* An array of one element is no vector: the key is passed over.
Vecs(data) ==
  LET vectors == {name \in DOMAIN data : Len(data[name]) >= 2}
  IN  [name \in vectors |-> ParseVecPair(data[name])]
Words(data) ==
  LET words == DOMAIN data \ DOMAIN Vectors
  IN  [name \in words |-> ParseUint64(data[name])]
\* A Q register of RegData is a vector by the name of V.
Quads(data) ==
  LET v(n) == Numbered("V", n)
      q(n) == Numbered("Q", n)
      given == {n \in 0..31 : q(n) \in DOMAIN data}
  IN  [name \in {v(n) : n \in given} |->
         ParseVecPair(data[q(CHOOSE n \in given : name = v(n))])]

\* Set* is laid over the data of the legacy keys, and so is Expected*.
init_regs(config) ==
  Over(Words(Get(config, "SetRegData", None)), Words(Get(config, "RegData", None)))
expected_regs(config) ==
  Over(Words(Get(config, "ExpectedRegData", None)), Words(Get(config, "RegData", None)))
init_vecs(config) ==
  Over(Vecs(Get(config, "SetVecData", None)),
       Over(Vecs(Get(config, "VecData", None)), Quads(Get(config, "RegData", None))))
expected_vecs(config) ==
  Over(Vecs(Get(config, "ExpectedVecData", None)),
       Over(Vecs(Get(config, "VecData", None)), Quads(Get(config, "RegData", None))))

\* PSTATE, FPCR or FPSR, cast to 32 bits.
StatusKeys == {"SetPstate", "ExpectedPstate", "SetFpcr", "ExpectedFpcr", "SetFpsr", "ExpectedFpsr"}
Status(config, key, default) ==
  IF key \in DOMAIN config THEN ParseUint64(config[key]) \cap Mask(32) ELSE default

\* A literal std::stoull throws out_of_range on.  32 digits are more than 64 bits
\* if the high half is not zero; only those of a Q register in RegData are halved.
IsQuadName(name) == \E n \in 0..31 : name = Numbered("Q", n)
WordThrows(key, name, literal) ==
  IF name \in DOMAIN Vectors THEN literal[2] # {} /\ ~(key = "RegData" /\ IsQuadName(name))
  ELSE Overlong(literal)
OutOfRange(config) ==
  LET data(key) == Get(config, key, None)
  IN  \/ \E key \in StatusKeys \cap DOMAIN config : Overlong(config[key])
      \/ \E key \in {"RegData", "SetRegData", "ExpectedRegData"} :
           \E name \in DOMAIN data(key) : WordThrows(key, name, data(key)[name])
      \/ \E key \in {"VecData", "SetVecData", "ExpectedVecData"} :
           \E name \in DOMAIN data(key) :
             /\ Len(data(key)[name]) >= 2
             /\ Overlong(data(key)[name][1]) \/ Overlong(data(key)[name][2])
      \/ \E a \in DOMAIN data("ExpectedMemData") : \E i \in DOMAIN data("ExpectedMemData")[a] :
           Overlong(data("ExpectedMemData")[a][i])

-----------------------------------------------------------------------------
(* RunAsmTest. *)

\* The first of the names that is a key of data, as a word; zero without any.
FirstOf(names, data) ==
  LET given == {i \in DOMAIN names : names[i] \in DOMAIN data}
  IN  IF given = {} THEN {} ELSE data[names[Min(given)]]

\* STACK_BASE + STACK_SIZE / 2
DynarmicStack == W(\h2800)

\* The names are sorted: W before X, D before S, V after them all.  A D or S
\* register is the low half of the vector, whole.
DynarmicStart(config) ==
  LET regs == init_regs(config)
      vecs == init_vecs(config)
      gpr(n) == IF Numbered("X", n) \in DOMAIN regs THEN regs[Numbered("X", n)]
                ELSE FirstOf(<<Numbered("W", n)>>, regs) \cap Mask(32)
      vector(n) == IF {Numbered("V", n), Numbered("Q", n)} \cap DOMAIN vecs # {}
                   THEN FirstOf(<<Numbered("V", n), Numbered("Q", n)>>, vecs)
                   ELSE FirstOf(<<Numbered("S", n), Numbered("D", n)>>, regs)
  IN  [Machine([n \in 0..30 |-> gpr(n)],
               IF "SP" \in DOMAIN regs THEN regs["SP"] ELSE DynarmicStack,
               [n \in 0..31 |-> vector(n)], FlagsOf(Status(config, "SetPstate", {30})))
         EXCEPT !.fpcr = Status(config, "SetFpcr", {}), !.fpsr = Status(config, "SetFpsr", {})]

\* The first comparisons: the flags, FPCR and FPSR, if they are stated at all.
StatusAsExpected(config, m) ==
  LET actual == [ExpectedPstate |-> FlagWord(m.flags), ExpectedFpcr |-> m.fpcr,
                 ExpectedFpsr |-> m.fpsr]
  IN  \A key \in DOMAIN actual : actual[key] = Status(config, key, actual[key])

\* The words of ExpectedMemData.
MemoryAsExpected(config, m) ==
  LET data == Get(config, "ExpectedMemData", None)
  IN  \A a \in DOMAIN data : \A i \in DOMAIN data[a] :
        Load(m, a + 8 * (i - 1), 8) = ParseUint64(data[a][i])

\* A W or S register is compared by its 32 bits, on both sides; a name that is
\* no register is passed over.
RegistersAsExpected(config, m) ==
  LET regs == expected_regs(config)
      vecs == expected_vecs(config)
  IN  /\ \A name \in DOMAIN regs \cap DOMAIN Register :
           Read(m, Register[name]) = regs[name] \cap Mask(BitsOf(name))
      /\ \A name \in DOMAIN vecs : m.v[Register[name].n] = vecs[name]

\* An exception of ParseTestConfig makes main print FAILED; all that differs from
\* what is expected is an error.
DynarmicPasses(config, m) ==
  /\ ~OutOfRange(config)
  /\ StatusAsExpected(config, m) /\ MemoryAsExpected(config, m) /\ RegistersAsExpected(config, m)

\* What dynarmic's runner assembles with.
DynarmicExtensions == {"cssc"}
=============================================================================
