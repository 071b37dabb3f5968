----------------------------- MODULE A64Harness -----------------------------
(***************************************************************************)
(* The program arm64_runner.py wraps around the code of a test for QEMU:   *)
(* what it does to the processor before the first instruction of the test, *)
(* what it prints after the last, and what the runner reads in that.       *)
(***************************************************************************)
EXTENDS A64Config

\* Where the program's own data is, and its stack.
tls_area == \h420000
label == W(\h410000)                       \* of any datum of the program
QemuStack == W(\h2000000)
PageSize == 4096
PageOf(a) == PageSize * (a \div PageSize)

\* Keys that are looked up with a second key in place of the first.
QemuInit(config) == Get(config, "SetRegData", Get(config, "RegData", None))
QemuInitVecs(config) == Get(config, "SetVecData", Get(config, "VecData", None))
QemuExpected(config) == Get(config, "ExpectedRegData", Get(config, "RegData", None))
QemuExpectedVecs(config) == Get(config, "ExpectedVecData", Get(config, "VecData", None))

-----------------------------------------------------------------------------
(* Before the test: the program copies the entries of MemData and TlsData,  *)
(* then sets the registers.  Every one of these pieces is an item:          *)
(*   <<"mem", a, i>>   words i and i + 1 of the entry of MemData at a       *)
(*   <<"tls", a, i>>   the same, of the entry of TlsData at offset a        *)
(*   <<"reg", name>>   an entry of SetRegData                               *)
(*   <<"vec", name>>   an entry of SetVecData                               *)

Load64(m, n, a) == [m EXCEPT !.x[n] = Low(a)]

\* _start: x0 is left with the address of the TLS area.
QemuEntry ==
  Machine([n \in 0..30 |-> IF n = 0 THEN W(tls_area) ELSE {}],
          QemuStack, [n \in 0..31 |-> {}], {})

\* The pages of MemData: from the page of the lowest word to that of the last.
MemData(config) == Get(config, "MemData", None)
TlsData(config) == Get(config, "TlsData", None)
MemEnd(config) == Max({a + 8 * Len(MemData(config)[a]) : a \in DOMAIN MemData(config)})
MemBase(config) == PageOf(Min(DOMAIN MemData(config)))
\* Mutant of MemSize: the last page only if it is full.
MemSizeFullPages(config) ==
  LET size == PageOf(MemEnd(config)) - MemBase(config)
  IN  IF size = 0 THEN PageSize ELSE size
MemSize(config) ==
  LET size == PageOf(MemEnd(config) + PageSize - 1) - MemBase(config)
  IN  IF size = 0 THEN PageSize ELSE size

\* mmap of size bytes at base, whose parameters stay in the registers.
Mmap(m, base, size) ==
  [m EXCEPT !.x[0] = W(base), !.x[1] = W(size), !.x[2] = W(3), !.x[3] = W(50),
            !.x[4] = W(-1), !.x[5] = W(0), !.x[8] = W(222)]

MemAlloc(config, m) ==
  IF MemData(config) = None THEN m
  ELSE Load64(Mmap(m, MemBase(config), MemSize(config)), 19, W(MemBase(config)))

\* Mutant of Copy: an odd last word is no pair.
CopyPairsOnly(m, words, i, at, base) ==
  IF i = Len(words) THEN m
  ELSE Load64(Store(Store(m, at, words[i], 8), at + 8, words[i + 1], 8), 9, base)

\* The words are copied in pairs, through x10 and x11, to an address
\* that x9 holds, or that is counted from what it holds.
Copy(m, words, i, at, base) ==
  LET one == Load64(Load64(Store(m, at, words[i], 8), 10, words[i]), 9, base)
  IN  IF i = Len(words) THEN one
      ELSE Load64(Store(one, at + 8, words[i + 1], 8), 11, words[i + 1])

CopyMem(config, a, i, m) ==
  LET at == a + 8 * (i - 1) IN Copy(m, MemData(config)[a], i, at, W(at))
CopyTls(config, a, i, m) ==
  Copy(m, TlsData(config)[a], i, tls_area + a + 8 * (i - 1), W(tls_area))

\* The stack the test asks for is mapped around its address first.
StackPages(sp) == PageOf(IF sp > \h4000 THEN sp - \h4000 ELSE 0)
SetStack(m, sp) ==
  [Load64(Mmap(m, StackPages(Int31(sp)), \h8000), 20, sp) EXCEPT !.sp = sp]

\* One entry of SetRegData: S and D registers are loaded through x9.
SetRegister(m, name, a) ==
  LET r == Register[name]
  IN  CASE r.k = "r" -> Load64(m, r.n, a \cap Mask(r.w))
        [] r.k = "sp" -> SetStack(m, Low(a))
        [] r.k = "f" -> Load64([m EXCEPT !.v[r.n] = a \cap Mask(r.w)], 9, label)

\* Mutant of SetVector: the high half first, as it is printed.
SetVectorHighFirst(m, name, literals) ==
  Load64([m EXCEPT !.v[Register[name].n] = Pair(Low(literals[2]), Low(literals[1]))], 9, label)
SetVector(m, name, literals) ==
  Load64([m EXCEPT !.v[Register[name].n] = Pair(Low(literals[1]), Low(literals[2]))], 9, label)

SetRegs(config) == DOMAIN QemuInit(config) \cap RegisterNames
SetVecs(config) == DOMAIN QemuInitVecs(config) \cap DOMAIN Vectors

\* Where a word of each pair is.
Pairs(words) == {i \in 1..Len(words) : i % 2 = 1}
Items(config) ==
  (UNION {{<<"mem", a, i>> : i \in Pairs(MemData(config)[a])} : a \in DOMAIN MemData(config)})
    \cup (UNION {{<<"tls", a, i>> : i \in Pairs(TlsData(config)[a])} : a \in DOMAIN TlsData(config)})
    \cup {<<"reg", name>> : name \in SetRegs(config)}
    \cup {<<"vec", name>> : name \in SetVecs(config)}

\* What may be next of what is left to do: the parts of the program follow each
\* other, their entries are in the order of the file, which may be any, and an
\* entry is copied from its first pair to its last.
Place == [mem |-> 1, tls |-> 2, reg |-> 3, vec |-> 4]
Follows(other, item, todo) ==
  \/ Place[item[1]] < Place[other[1]]
  \/ /\ item[1] = other[1]
     /\ item[1] \in {"mem", "tls"} =>
          IF item[2] = other[2] THEN item[3] <= other[3] ELSE <<other[1], other[2], 1>> \in todo
Ready(todo) == {item \in todo : \A other \in todo : Follows(other, item, todo)}

Do(config, item, m) ==
  CASE item[1] = "mem" -> CopyMem(config, item[2], item[3], m)
    [] item[1] = "tls" -> CopyTls(config, item[2], item[3], m)
    [] item[1] = "reg" -> SetRegister(m, item[2], QemuInit(config)[item[2]])
    [] item[1] = "vec" -> SetVector(m, item[2], QemuInitVecs(config)[item[2]])

\* What int(value, 0) and parse_vec128 raise a ValueError on.
IsVector(literals) == Len(literals) >= 2 /\ Malformed \notin {literals[1], literals[2]}
Raises(config) ==
  \/ \E name \in SetRegs(config) :
       QemuInit(config)[name] = Malformed
  \/ \E name \in SetVecs(config) :
       ~IsVector(QemuInitVecs(config)[name])

\* What the assembler makes of this program: ldr and str, and ldp and stp of a
\* pair, take an offset of so many bits, and no label is defined twice.
OffsetFits(n, pair) ==
  (n % 8 = 0 /\ n <= (IF pair THEN 504 ELSE 32760)) \/ (~pair /\ n <= 255)
WrapperAssembles(config) ==
  LET fits(words, from) == \A i \in Pairs(words) : OffsetFits(from + 8 * (i - 1), i < Len(words))
      mem == MemData(config)
      tls == TlsData(config)
  IN  /\ \A a \in DOMAIN mem : fits(mem[a], 0)
      /\ \A a \in DOMAIN tls : fits(tls[a], 0) /\ fits(tls[a], a)
      /\ \A n \in 0..31 : ~({Numbered("V", n), Numbered("Q", n)} \subseteq SetVecs(config))

-----------------------------------------------------------------------------
(* The memory the guest may touch: the stack, the TLS area, the pages of    *)
(* MemData and of an SP of its own.                                         *)

Areas(config) ==
  {<<Int31(QemuStack) - \h800000, \h801000>>, <<tls_area, \h1000>>}
    \cup (IF MemData(config) = None THEN {} ELSE {<<MemBase(config), MemSize(config)>>})
    \cup (IF "SP" \in DOMAIN QemuInit(config)
          THEN {<<StackPages(Int31(Low(QemuInit(config)["SP"]))), \h8000>>} ELSE {})
Mapped(config, a) == \E area \in Areas(config) : a \in area[1]..(area[1] + area[2] - 1)
Accesses(i) == Len(i) > 1 /\ "base" \in DOMAIN i[Len(i)]
Faults(config, m, i) == Accesses(i) /\ ~Mapped(config, Address(m, i[Len(i)]))

-----------------------------------------------------------------------------
(* After the test. *)

Name(letter, name) == Numbered(letter, Register[name].n)

\* The line of an entry, or its part-th line.
Line(entry, part, name, value) == [entry |-> entry, part |-> part, name |-> name, value |-> value]

\* Mutant of QuadLines: the halves in the order of the memory.
QuadLinesLowFirst(m, entry, name) ==
  LET v == m.v[Register[name].n]
  IN  {Line(entry, 1, Name("Q", name), Low(v)), Line(entry, 2, Name("Q", name), High(v))}

\* A vector takes two lines, the high half first.
QuadLines(m, entry, name) ==
  LET v == m.v[Register[name].n]
  IN  {Line(entry, 1, Name("Q", name), High(v)), Line(entry, 2, Name("Q", name), Low(v))}

\* Mutant of RegisterLines: nothing for a W register.
RegisterLinesWholeOnly(m, entry, name) ==
  IF name \in DOMAIN Vectors
  THEN IF name = Name("Q", name) THEN QuadLines(m, entry, name) ELSE {}
  ELSE IF name \in DOMAIN Gprs /\ Register[name].w = 64
       THEN {Line(entry, 1, name, Read(m, Register[name]))}
  ELSE IF name \in DOMAIN Scalars THEN {Line(entry, 1, name, Read(m, Register[name]))}
  ELSE {}

\* What is printed for an entry of the expected registers: a W register in
\* full, by the name of the X register; SP, NZCV and V registers not at all.
RegisterLines(m, entry, name) ==
  IF name \in DOMAIN Vectors
  THEN IF name = Name("Q", name) THEN QuadLines(m, entry, name) ELSE {}
  ELSE IF name \in DOMAIN Gprs
       THEN {Line(entry, 1, Name("X", name), Low(m.x[Register[name].n]))}
  ELSE IF name \in DOMAIN Scalars THEN {Line(entry, 1, name, Read(m, Register[name]))}
  ELSE {}

\* build_print_code: the lines the program prints when it has stopped.
Lines(config, m) ==
  (UNION {RegisterLines(m, <<"reg", name>>, name) : name \in DOMAIN QemuExpected(config)})
    \cup (UNION {QuadLines(m, <<"vec", name>>, name) :
                   name \in DOMAIN QemuExpectedVecs(config) \cap DOMAIN Vectors})

\* run_qemu's reading of them.  Two lines make a Q register, and four, which
\* a register of both kinds of data prints, make none.  Of other registers
\* the last line counts, and all are the same.
Actual(lines) ==
  LET of(name) == {l \in lines : l.name = name}
      isQuad(name) == name \in DOMAIN Vectors
      read(name, part) == (CHOOSE l \in of(name) : l.part = part).value
      value(name) == IF isQuad(name) THEN Pair(read(name, 2), read(name, 1)) ELSE read(name, 1)
  IN  [name \in {n \in {l.name : l \in lines} : isQuad(n) => Cardinality(of(n)) = 2} |-> value(name)]

\* compare_results: is this entry an error?  A W register is compared by its
\* low half, any other by the digits, and a name nothing was printed for is
\* always one.
RegisterError(actual, name, literal) ==
  IF name \in DOMAIN Gprs /\ Register[name].w = 32
  THEN \/ Name("X", name) \notin DOMAIN actual
       \/ actual[Name("X", name)] \cap Mask(32) # literal \cap Mask(32)
  ELSE \/ name \notin DOMAIN actual
       \/ actual[name] # IF name \in DOMAIN Vectors THEN Pair(literal[1], literal[2]) ELSE Digits(literal)
VectorKey(name) == IF name \in DOMAIN Vectors THEN Name("Q", name) ELSE name
VectorError(actual, name, literals) ==
  \/ VectorKey(name) \notin DOMAIN actual
  \/ actual[VectorKey(name)] # Pair(Low(literals[1]), Low(literals[2]))

Errors(config, actual) ==
  {name \in DOMAIN QemuExpected(config) :
     RegisterError(actual, name, QemuExpected(config)[name])}
    \cup {name \in DOMAIN QemuExpectedVecs(config) :
            VectorError(actual, name, QemuExpectedVecs(config)[name])}

\* A malformed W register, or an array that is no vector, that was printed.
CompareRaises(config, actual) ==
  \/ \E name \in DOMAIN QemuExpected(config) \cap DOMAIN Gprs :
       /\ Register[name].w = 32 /\ Name("X", name) \in DOMAIN actual
       /\ QemuExpected(config)[name] = Malformed
  \/ \E name \in DOMAIN QemuExpectedVecs(config) :
       /\ VectorKey(name) \in DOMAIN actual
       /\ ~IsVector(QemuExpectedVecs(config)[name])

\* -march=armv8.4-a: no cssc.
QemuExtensions == {}

-----------------------------------------------------------------------------
(* What both compare_results and RunAsmTest can compare, and what only the    *)
(* latter looks at.                                                         *)

IsLiteral(a) == a \in SUBSET (0..63)
IsPair(literals) == Len(literals) >= 2 /\ IsLiteral(literals[1]) /\ IsLiteral(literals[2])

\* The entries of a CONFIG that state vector n, and what they state.
VectorEntries(c, n) ==
  {<<"reg", name>> : name \in {Numbered("Q", n)} \cap DOMAIN QemuExpected(c)}
    \cup {<<"vec", name>> : name \in {Numbered("V", n), Numbered("Q", n)} \cap DOMAIN QemuExpectedVecs(c)}
Stated(c, e) == IF e[1] = "reg" THEN QemuExpected(c)[e[2]] ELSE QemuExpectedVecs(c)[e[2]]

\* The expected values are of one style, are hexadecimal numbers of the width of
\* what they are compared with, and no vector is stated twice; and RunAsmTest can
\* read all other literals too.
Comparable(c) ==
  /\ ~OutOfRange(c)
  /\ ~({"RegData", "ExpectedRegData"} \subseteq DOMAIN c)
  /\ ~({"VecData", "ExpectedVecData"} \subseteq DOMAIN c)
  /\ \A name \in DOMAIN QemuExpected(c) :
       LET literal == QemuExpected(c)[name]
       IN  \/ name \in DOMAIN Gprs /\ IsLiteral(literal)
           \/ name \in DOMAIN Scalars /\ IsLiteral(literal) /\ literal \subseteq Mask(Register[name].w)
           \/ /\ "RegData" \in DOMAIN c
              /\ \E n \in 0..31 : name = Numbered("Q", n) /\ IsPair(literal)
  /\ \A name \in DOMAIN QemuExpectedVecs(c) :
       name \in DOMAIN Vectors /\ IsPair(QemuExpectedVecs(c)[name])
  /\ \A n \in 0..31 : \A e, f \in VectorEntries(c, n) : e = f

\* compare_results never reads these keys.
Unread == {"ExpectedPstate", "ExpectedFpcr", "ExpectedFpsr", "ExpectedMemData"}
=============================================================================
