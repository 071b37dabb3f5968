------------------------------ MODULE GuestA64 ------------------------------
(***************************************************************************)
(* The A64 instructions the generated tests use, as the architecture       *)
(* defines them: what a test of the corpus does on a processor, whoever    *)
(* plays it.  An instruction is a tuple of its mnemonic and its operands,  *)
(* and a program a sequence of instructions and labels that ends in "brk". *)
(***************************************************************************)
EXTENDS GuestWord

-----------------------------------------------------------------------------
(* Operands. *)

X(n) == [k |-> "r", n |-> n, w |-> 64]
R(n) == [k |-> "r", n |-> n, w |-> 32]          \* the w registers
D(n) == [k |-> "f", n |-> n, w |-> 64]
S(n) == [k |-> "f", n |-> n, w |-> 32]
V(n, e) == [k |-> "v", n |-> n, e |-> e]        \* lanes of e bits
SP == [k |-> "sp", w |-> 64]
XZR == X(31)
I(i) == [k |-> "i", v |-> W(i), n |-> i]
K(word) == [k |-> "i", v |-> word, n |-> 0]
C(cond) == [k |-> "c", c |-> cond]
L(number) == [k |-> "l", n |-> number]
F(quarters) == [k |-> "q", q |-> quarters]      \* a floating-point literal
Inexact == [k |-> "syntax"]                     \* "#2.9": no 8-bit float

Shifted(by, r, n) == [k |-> "sh", by |-> by, r |-> r, n |-> n, w |-> r.w]
LSL(r, n) == Shifted("lsl", r, n)
LSR(r, n) == Shifted("lsr", r, n)
ASR(r, n) == Shifted("asr", r, n)
Extended(r, bits, signed, n) ==
  [k |-> "ext", r |-> r, bits |-> bits, signed |-> signed, n |-> n, w |-> 64]
\* "x1, uxtb, lsl #2": no assembler takes a shift after an extension.
ExtendedLSL(r, n) == [k |-> "syntax", r |-> r, n |-> n, w |-> 64]

\* Memory operands: base register, offset, and when the base is written.
At(base, n) == [k |-> "m", w |-> 64, base |-> base, n |-> n, mode |-> "offset"]
Pre(base, n) == [k |-> "m", w |-> 64, base |-> base, n |-> n, mode |-> "pre"]
Post(base, n) == [k |-> "m", w |-> 64, base |-> base, n |-> n, mode |-> "post"]

X0 == X(0)
X1 == X(1)
X2 == X(2)
X3 == X(3)
W0 == R(0)
W1 == R(1)
W2 == R(2)
D0 == D(0)
D1 == D(1)
D2 == D(2)
brk == <<"brk">>

-----------------------------------------------------------------------------
(* The machine: general registers, stack pointer, vector registers, the     *)
(* condition flags as a subset of {"N", "Z", "C", "V"}, FPCR and FPSR, the  *)
(* bytes stored, the exclusive monitor, and the index of the next           *)
(* instruction.                                                             *)

Machine(x, sp, v, flags) ==
  [x |-> x, sp |-> sp, v |-> v, flags |-> flags, fpcr |-> {}, fpsr |-> {},
   mem |-> <<>>, monitor |-> FALSE, pc |-> 1]

ShiftBy(by, a, n, w) ==
  CASE by = "lsl" -> Shl(a, n, w) [] by = "lsr" -> Shr(a, n)
    [] by = "asr" -> Sra(a, n, w) [] by = "ror" -> Ror(a, n, w)

Read(m, o) ==
  LET gpr(r) == IF r.n = 31 THEN {} ELSE m.x[r.n] \cap Mask(r.w)
  IN  CASE o.k = "r" -> gpr(o)
        [] o.k = "sp" -> m.sp
        [] o.k = "i" -> o.v
        [] o.k = "f" -> m.v[o.n] \cap Mask(o.w)
        [] o.k = "v" -> m.v[o.n]
        [] o.k = "sh" -> ShiftBy(o.by, gpr(o.r), o.n, o.w)
        [] o.k = "ext" -> Shl(IF o.signed THEN Sx(gpr(o.r), o.bits, 64)
                              ELSE gpr(o.r) \cap Mask(o.bits), o.n, 64)

\* Writing a w register or a scalar clears the rest of the register; no
\* register keeps more bits than it has.
RegisterKinds == {"r", "sp", "f", "v"}
Write(m, o, a) ==
  CASE o.k = "r" -> IF o.n = 31 THEN m
                    ELSE [m EXCEPT !.x[o.n] = a \cap Mask(o.w)]
    [] o.k = "sp" -> [m EXCEPT !.sp = a \cap Mask(64)]
    [] o.k = "f" -> [m EXCEPT !.v[o.n] = a \cap Mask(o.w)]
    [] o.k = "v" -> [m EXCEPT !.v[o.n] = a \cap Mask(128)]

NextPC(m) == [m EXCEPT !.pc = @ + 1]

FlagBit == [N |-> 31, Z |-> 30, C |-> 29, V |-> 28]
FlagWord(flags) == {FlagBit[f] : f \in flags}
FlagsOf(word) == {f \in DOMAIN FlagBit : FlagBit[f] \in word}

ZeroOrNegative(a, n) == {f \in {"N", "Z"} : IF f = "N" THEN n - 1 \in a ELSE a = {}}
AddFlags(a, b, c, n) ==
  ZeroOrNegative(Sum(a, b, c, n), n)
    \cup (IF Carry(a, b, c, n) THEN {"C"} ELSE {})
    \cup (IF Overflow(a, b, c, n) THEN {"V"} ELSE {})
SubFlags(a, b, n) == AddFlags(a, Inv(b, n), TRUE, n)

Holds(cond, flags) ==
  LET z == "Z" \in flags
      c == "C" \in flags
      nv == ("N" \in flags) = ("V" \in flags)
  IN  CASE cond = "eq" -> z [] cond = "ne" -> ~z
        [] cond = "cs" -> c [] cond = "cc" -> ~c
        [] cond = "mi" -> "N" \in flags [] cond = "pl" -> "N" \notin flags
        [] cond = "vs" -> "V" \in flags [] cond = "vc" -> "V" \notin flags
        [] cond = "hi" -> c /\ ~z [] cond = "ls" -> ~c \/ z
        [] cond = "ge" -> nv [] cond = "lt" -> ~nv
        [] cond = "gt" -> nv /\ ~z [] cond = "le" -> ~nv \/ z
        [] cond = "al" -> TRUE

-----------------------------------------------------------------------------
(* What an instruction computes from its source values.  n is the width.    *)

Logic(op, a, b, n) ==
  CASE op \in {"and", "ands", "tst"} -> a \cap b [] op = "orr" -> a \cup b
    [] op = "eor" -> Xor(a, b) [] op = "bic" -> a \ b
    [] op = "orn" -> a \cup Inv(b, n) [] op = "eon" -> Xor(a, Inv(b, n))

LogicOps == {"and", "ands", "tst", "orr", "eor", "bic", "orn", "eon"}
AddOps == {"add", "adds", "cmn", "adc", "adcs"}
SubOps == {"sub", "subs", "cmp", "sbc", "neg", "negs", "ngc"}
SetsFlags == {"adds", "cmn", "adcs", "subs", "cmp", "negs", "ands", "tst"}

\* Sums and differences: the carry in, and the operand that is added.
CarryIn(op, m) == IF op \in {"adc", "adcs", "sbc", "ngc"} THEN "C" \in m.flags
                  ELSE op \in SubOps
Arithmetic(op, m, d, a, b) ==
  LET n == d.w
      addend == IF op \in SubOps THEN Inv(b, n) ELSE b \cap Mask(n)
      c == CarryIn(op, m)
      done == Write(m, d, Sum(a, addend, c, n))
  IN  IF op \in SetsFlags
      THEN [done EXCEPT !.flags = AddFlags(a, addend, c, n)] ELSE done

Logical(op, m, d, a, b) ==
  LET r == Logic(op, a, b, d.w)
      done == Write(m, d, r)
  IN  IF op \in SetsFlags
      THEN [done EXCEPT !.flags = ZeroOrNegative(r, d.w)] ELSE done

\* One source.
Unary(op, a, n) ==
  CASE op = "mov" -> a \cap Mask(n)
    [] op = "mvn" -> Inv(a, n)
    [] op = "clz" -> Bits(LeadingZeros(a, n))
    [] op = "cls" -> Bits(LeadingZeros(Xor(Sra(a, 1, n), a) , n) - 1)
    [] op = "rbit" -> {n - 1 - i : i \in a}
    [] op = "rev16" -> SwapBytes(a, 16)
    [] op = "rev32" -> SwapBytes(a, 32)
    [] op = "rev64" -> SwapBytes(a, 64)
    [] op = "cnt" -> Bits(Cardinality(a))

UnaryOps == {"mvn", "clz", "cls", "rbit", "rev16", "rev32", "rev64", "cnt"}

HighHalf(a, b) == Shr(Mul(a, b, 128), 64)

\* Two sources.
Binary(op, a, b, n) ==
  CASE op = "mul" -> Mul(a, b, n)
    [] op = "mneg" -> Neg(Mul(a, b, n), n)
    [] op = "umull" -> Mul(a, b, n)
    [] op = "smull" -> Mul(Sx(a, 32, n), Sx(b, 32, n), n)
    [] op = "umulh" -> HighHalf(a, b)
    [] op = "smulh" ->
         Sub(HighHalf(a, b), Add(IF 63 \in a THEN b ELSE {},
                                 IF 63 \in b THEN a ELSE {}, 64), 64)
    [] op = "udiv" -> Div(a, b)
    [] op = "sdiv" -> SDiv(a, b, n)
    [] op \in {"lsl", "lsr", "asr", "ror"} ->
         ShiftBy(op, a, Nat31(b \cap Mask(IF n = 64 THEN 6 ELSE 5)), n)

BinaryOps == {"mul", "mneg", "umull", "smull", "umulh", "smulh",
              "udiv", "sdiv", "lsl", "lsr", "asr", "ror"}

\* A field of w bits at bit lsb, placed or taken.
FieldOps == {"bfi", "bfxil", "ubfx", "sbfx", "ubfiz", "sbfiz"}
FieldMove(op, old, a, lsb, w, n) ==
  CASE op = "bfi" -> (old \ (lsb..(lsb + w - 1))) \cup Shl(a \cap Mask(w), lsb, n)
    [] op = "bfxil" -> (old \ Mask(w)) \cup Field(a, lsb, w)
    [] op = "ubfx" -> Field(a, lsb, w)
    [] op = "sbfx" -> Sx(Field(a, lsb, w), w, n)
    [] op = "ubfiz" -> Shl(a \cap Mask(w), lsb, n)
    [] op = "sbfiz" -> Shl(Sx(a, w, n), lsb, n)

Conditional(op, holds, a, b, n) ==
  IF holds THEN a
  ELSE CASE op = "csel" -> b [] op = "csinc" -> Add(b, {0}, n)
         [] op = "csinv" -> Inv(b, n) [] op = "csneg" -> Neg(b, n)
ConditionalOps == {"csel", "csinc", "csinv", "csneg", "cset", "csetm", "cinc", "cinv"}

-----------------------------------------------------------------------------
(* Floating point on the values that are multiples of a quarter. *)

ValueOf(a, w) == IF w = 64 THEN OfDouble(a) ELSE OfSingle(a)
Scalar(q, w) == IF w = 64 THEN Double(q) ELSE Single(q)

FBinary(op, p, q) ==
  CASE op = "fadd" -> p + q [] op = "fsub" -> p - q
    [] op = "fmul" -> (p * q) \div 4 [] op = "fnmul" -> -((p * q) \div 4)
    [] op = "fdiv" -> IF q > 0 THEN (4 * p) \div q ELSE (-4 * p) \div (-q)
    [] op \in {"fmax", "fmaxnm"} -> IF p > q THEN p ELSE q
    [] op \in {"fmin", "fminnm"} -> IF p < q THEN p ELSE q
FUnary(op, q) ==
  CASE op = "fabs" -> IF q < 0 THEN -q ELSE q
    [] op = "fneg" -> -q
    [] op = "fsqrt" -> CHOOSE r \in 0..127 : r * r = 4 * q
    [] op = "frintm" -> 4 * Round("m", q) [] op = "frintp" -> 4 * Round("p", q)
    [] op = "frintz" -> 4 * Round("z", q)
    [] op \in {"frintn", "frintx"} -> 4 * Round("n", q)
FBinaryOps == {"fadd", "fsub", "fmul", "fnmul", "fdiv",
               "fmax", "fmaxnm", "fmin", "fminnm"}
FUnaryOps == {"fabs", "fneg", "fsqrt",
              "frintm", "frintp", "frintz", "frintn", "frintx"}
RoundingOf == [fcvtas |-> "a", fcvtns |-> "n", fcvtnu |-> "n", fcvtps |-> "p",
               fcvtms |-> "m", fcvtzs |-> "z", fcvtzu |-> "z"]
\* Rounding what is no integer sets the cumulative flag of FPSR, IXC.
Rounded(m, q) == IF q % 4 = 0 THEN m ELSE [m EXCEPT !.fpsr = @ \cup {4}]
FCompare(p, q) ==
  IF p = q THEN {"Z", "C"} ELSE IF p < q THEN {"N"} ELSE {"C"}

-----------------------------------------------------------------------------
(* Vectors. *)

LaneOp(op, d, a, b, e) ==
  CASE op = "add" -> Add(a, b, e) [] op = "sub" -> Sub(a, b, e)
    [] op = "mul" -> Mul(a, b, e) [] op = "mla" -> Add(d, Mul(a, b, e), e)
    [] op = "mls" -> Sub(d, Mul(a, b, e), e)
    [] op = "sshl" -> Shl(a, Nat31(b), e)
    [] op \in {"and", "orr", "eor"} -> Logic(op, a, b, e)
Splat(a, e) == Lanes([j \in LaneSet(e) |-> a \cap Mask(e)], e)
Vector(op, d, a, b, e) ==
  Lanes([j \in LaneSet(e) |-> LaneOp(op, Lane(d, j, e), Lane(a, j, e), Lane(b, j, e), e)], e)

-----------------------------------------------------------------------------
(* Loads and stores, by the byte.  An address is its offset from the stack  *)
(* pointer the test starts with; a byte nobody stored is zero.              *)

Address(m, o) ==
  Int31(Read(m, o.base)) + (IF o.mode = "post" THEN 0 ELSE o.n)
Writeback(m, o) ==
  IF o.mode = "offset" THEN m
  ELSE Write(m, o.base, Add(Read(m, o.base), W(o.n), 64))

Store(m, at, a, bytes) ==
  [m EXCEPT !.mem =
     [b \in DOMAIN m.mem \cup at..(at + bytes - 1) |->
        IF b \in at..(at + bytes - 1) THEN Field(a, 8 * (b - at), 8) ELSE m.mem[b]],
            !.monitor = FALSE]
Load(m, at, bytes) ==
  UNION {Shl(m.mem[b], 8 * (b - at), 64)
           : b \in DOMAIN m.mem \cap at..(at + bytes - 1)}

Bytes(op, o) ==
  CASE op \in {"strb", "ldrb"} -> 1 [] op \in {"strh", "ldrh"} -> 2
    [] op = "ldrsw" -> 4 [] OTHER -> o.w \div 8
Loads == {"ldr", "ldur", "ldrb", "ldrh", "ldrsw", "ldxr", "ldaxr"}
Stores == {"str", "stur", "strb", "strh"}

LoadInto(m, o, at, op) ==
  LET bytes == Bytes(op, o)
      a == Load(m, at, bytes)
  IN  [Write(m, o, IF op = "ldrsw" THEN Sx(a, 32, 64) ELSE a)
         EXCEPT !.monitor = @ \/ op \in {"ldxr", "ldaxr"}]

StoreExclusive(m, status, a, at, bytes) ==
  IF m.monitor THEN Write(Store(m, at, a, bytes), status, {})
  ELSE Write(m, status, {0})

\* The reversed bits of a word, and the checksum of crc32 over them.
CrcPolynomial == {j \in 0..31 : 31 - j \in Hex(0, 0, \h04C1, \h1DB7)}
CrcStep(a) == Xor(Shr(a, 1), IF 0 \in a THEN CrcPolynomial ELSE {})
Crc(a, b, bytes) ==
  FoldLeft(LAMBDA c, i : CrcStep(c), Xor(a, b \cap Mask(8 * bytes)),
           [i \in 1..(8 * bytes) |-> i])

-----------------------------------------------------------------------------
(* What the assembler accepts. *)

\* A run of ones, rotated, in every element of 2, 4, .. or 64 bits.
Bitmask(a, n) ==
  \E e \in {2, 4, 8, 16, 32, 64} \cap 0..n :
    /\ \A i \in Mask(n) : (i \in a) = (i % e \in a)
    /\ Cardinality({i \in Mask(e) : (i \in a) # ((i + 1) % e \in a)}) = 2
Wide(a, n) == \E k \in {0, 16, 32, 48} : a \subseteq k..(k + 15) /\ k < n
Imm12(a) == a \subseteq 0..11 \/ a \subseteq 12..23
\* An 8-bit float: up to 31 quarters and a few above.
Imm8Float(q) == LET a == Bits(IF q < 0 THEN -q ELSE q)
                IN  a # {} /\ Max(a) - Min(a) <= 4

ImmediateOk(op, d, o) ==
  CASE op = "mov" -> LET a == o.v \cap Mask(d.w)
                     IN  \/ Wide(a, d.w) \/ Wide(Inv(a, d.w), d.w)
                         \/ Bitmask(a, d.w)
    [] op \in LogicOps -> Bitmask(o.v \cap Mask(d.w), d.w)
    [] op \in AddOps \cup SubOps -> Imm12(o.v) \/ Imm12(Neg(o.v, d.w))
    [] op = "movi" -> d.e # 64 \/ \A i \in o.v : 8 * (i \div 8)..(8 * (i \div 8) + 7) \subseteq o.v
    [] OTHER -> TRUE

Accepts(extensions, i) ==
  /\ i[1] = "cnt" => "cssc" \in extensions
  /\ i[1] \notin {"sqadd", "uqadd", "sqsub"}
  /\ \A j \in 3..Len(i) :
       /\ i[j].k = "i" => ImmediateOk(i[1], i[2], i[j])
       /\ i[j].k = "q" => Imm8Float(i[j].q)
       /\ i[j].k # "syntax"

-----------------------------------------------------------------------------
(* One instruction. *)

\* A numeric label is the next one of its number: "b 1f".
Target(m, program, l) ==
  Min({j \in m.pc..Len(program) : program[j] = <<"label", l>>})
JumpIf(cond, m, program, l) ==
  IF cond THEN [m EXCEPT !.pc = Target(m, program, l)] ELSE NextPC(m)

Zeroed == {"cmp", "cmn", "tst"}            \* the result goes to the zero register
Negated == {"neg", "negs", "ngc"}          \* from the zero register

ConditionalCompare(m, op, i) ==
  LET b == IF op = "ccmp" THEN Inv(Read(m, i[3]), 64) ELSE Read(m, i[3])
  IN  [m EXCEPT !.flags =
        IF Holds(i[5].c, m.flags) THEN AddFlags(Read(m, i[2]), b, op = "ccmp", 64)
        ELSE FlagsOf(Shl(i[4].v, 28, 32))]

Chosen(m, op, i) ==
  LET short == op \in {"cset", "csetm", "cinc", "cinv"}
      a == IF Len(i) = 3 THEN {} ELSE Read(m, i[3])
      long == CASE op \in {"cset", "cinc"} -> "csinc" [] op \in {"csetm", "cinv"} -> "csinv"
                [] OTHER -> op
      holds == Holds(i[Len(i)].c, m.flags)
  IN  IF short THEN Conditional(long, ~holds, a, a, i[2].w)
      ELSE Conditional(op, holds, a, Read(m, i[4]), i[2].w)

Compute(m, i) ==
  LET op == i[1]
      d == i[2]
      arg(j) == Read(m, i[j])
      put(a) == Write(m, d, a)
  IN
  CASE d.k = "v" /\ op = "movi" -> put(Splat(arg(3), d.e))
    [] d.k = "v" /\ op # "movi" -> put(Vector(op, arg(2), arg(3), arg(4), d.e))
    [] d.k # "v" /\ op \in Zeroed ->
         LET z == [XZR EXCEPT !.w = d.w]
         IN  IF op = "tst" THEN Logical(op, m, z, arg(2), arg(3))
             ELSE Arithmetic(op, m, z, arg(2), arg(3))
    [] d.k # "v" /\ op \in Negated -> Arithmetic(op, m, d, {}, arg(3))
    [] d.k # "v" /\ op \in LogicOps \ Zeroed -> Logical(op, m, d, arg(3), arg(4))
    [] d.k # "v" /\ op \in (AddOps \cup SubOps) \ (Zeroed \cup Negated) ->
         Arithmetic(op, m, d, arg(3), arg(4))
    [] op \in UnaryOps ->
         put(Unary(op, arg(3), d.w))
    [] op \in {"mov", "umov"} -> put(arg(3) \cap Mask(d.w))
    [] op = "movz" -> put(Shl(arg(3), i[4].n, d.w))
    [] op = "movn" -> put(Inv(arg(3), d.w))
    [] op = "movk" -> put((arg(2) \ i[4].n..(i[4].n + 15)) \cup Shl(arg(3), i[4].n, d.w))
    [] op = "extr" -> put(Shr(arg(4), i[5].n) \cup Shl(arg(3), 64 - i[5].n, 64))
    [] d.k # "v" /\ op \in BinaryOps ->
         put(Binary(op, arg(3), arg(4), d.w))
    [] op = "madd" -> put(Add(arg(5), Mul(arg(3), arg(4), d.w), d.w))
    [] op = "msub" -> put(Sub(arg(5), Mul(arg(3), arg(4), d.w), d.w))
    [] op \in FieldOps -> put(FieldMove(op, arg(2), arg(3), i[4].n, i[5].n, d.w))
    [] op \in ConditionalOps ->
         put(Chosen(m, op, i))
    [] op \in {"crc32b", "crc32h"} -> put(Crc(arg(3), arg(4), IF op = "crc32b" THEN 1 ELSE 2))
    [] op \in FBinaryOps ->
         put(Scalar(FBinary(op, ValueOf(arg(3), d.w), ValueOf(arg(4), d.w)), d.w))
    [] op \in FUnaryOps \ {"frintx"} -> put(Scalar(FUnary(op, ValueOf(arg(3), d.w)), d.w))
    [] op = "frintx" ->
         Rounded(put(Scalar(FUnary(op, ValueOf(arg(3), d.w)), d.w)), ValueOf(arg(3), d.w))
    [] op = "fmov" -> put(IF i[3].k = "q" THEN Scalar(i[3].q, d.w) ELSE arg(3))
    [] op = "fcvt" -> put(Scalar(ValueOf(arg(3), i[3].w), d.w))
    [] op \in DOMAIN RoundingOf ->
         Rounded(put(W(Round(RoundingOf[op], ValueOf(arg(3), 64)))), ValueOf(arg(3), 64))
    [] op \in {"scvtf", "ucvtf"} -> put(Double(4 * Int31(arg(3))))
    [] op = "fcmp" -> [m EXCEPT !.flags = FCompare(ValueOf(arg(2), 64), ValueOf(arg(3), 64))]
    [] op \in {"ccmp", "ccmn"} -> ConditionalCompare(m, op, i)
    [] op = "mrs" -> put(FlagWord(m.flags))
    [] op = "msr" -> [m EXCEPT !.flags = FlagsOf(arg(2))]

Access(m, i) ==
  LET op == i[1]
      o == i[Len(i)]
      at == Address(m, o)
      size == i[2].w \div 8
      done == CASE op \in Loads -> LoadInto(m, i[2], at, op)
                [] op \in Stores -> Store(m, at, Read(m, i[2]), Bytes(op, i[2]))
                [] op = "stp" -> Store(Store(m, at, Read(m, i[2]), size),
                                       at + size, Read(m, i[3]), size)
                [] op = "ldp" -> LoadInto(LoadInto(m, i[2], at, "ldr"),
                                          i[3], at + size, "ldr")
                [] op \in {"stxr", "stlxr"} ->
                     StoreExclusive(m, i[2], Read(m, i[3]), at, i[3].w \div 8)
  IN  Writeback(done, o)

Hints == {"nop", "label", "barrier"}
Branches == {"b", "b.cond", "cbz", "cbnz", "tbz", "tbnz"}
VectorOps == {"movi", "add", "sub", "mul", "mla", "mls", "sshl", "and", "orr", "eor"}
AccessOps == Loads \cup Stores \cup {"stp", "ldp", "stxr", "stlxr"}
DataOps ==
  Zeroed \cup Negated \cup LogicOps \cup AddOps \cup SubOps \cup UnaryOps \cup BinaryOps
    \cup FieldOps \cup ConditionalOps \cup FBinaryOps \cup FUnaryOps \cup DOMAIN RoundingOf
    \cup {"mov", "umov", "movz", "movn", "movk", "extr", "madd", "msub", "crc32b", "crc32h",
          "fmov", "fcvt", "scvtf", "ucvtf", "fcmp", "ccmp", "ccmn", "mrs", "msr"}

Step(m, program) ==
  LET i == program[m.pc]
      op == i[1]
  IN  CASE op \in Hints -> NextPC(m)
        [] op = "b" -> JumpIf(TRUE, m, program, i[2])
        [] op = "b.cond" -> JumpIf(Holds(i[2].c, m.flags), m, program, i[3])
        [] op = "cbz" -> JumpIf(Read(m, i[2]) = {}, m, program, i[3])
        [] op = "cbnz" -> JumpIf(Read(m, i[2]) # {}, m, program, i[3])
        [] op = "tbz" -> JumpIf(i[3].n \notin Read(m, i[2]), m, program, i[4])
        [] op = "tbnz" -> JumpIf(i[3].n \in Read(m, i[2]), m, program, i[4])
        [] op \in AccessOps -> NextPC(Access(m, i))
        [] OTHER -> NextPC(Compute(m, i))
Stopped(m, program) == program[m.pc] = brk

-----------------------------------------------------------------------------
\* A program the assembler makes: its instructions are those of this module,
\* what they write are registers, every branch is to a label that follows, and
\* it ends with an instruction the guest stops at.
Label(i) == i[CASE i[1] = "b" -> 2 [] i[1] \in {"b.cond", "cbz", "cbnz"} -> 3
                [] i[1] \in {"tbz", "tbnz"} -> 4]
IsRegister(o) == o.k \in RegisterKinds /\ (o.k # "v" => o.w \in {32, 64})
IsAccess(i) ==
  /\ i[1] \in AccessOps
  /\ IsRegister(i[2]) /\ IsRegister(i[Len(i)].base)
  /\ i[1] = "ldp" => IsRegister(i[3])
IsData(i) == IsRegister(i[2]) /\ i[1] \in (IF i[2].k = "v" THEN VectorOps ELSE DataOps)
Program(code, stops) ==
  /\ DOMAIN code = 1..Len(code) /\ Len(code) > 0 /\ code[Len(code)] \in stops
  /\ \A p \in DOMAIN code :
       \/ code[p] \in stops
       \/ code[p][1] \in Branches /\ \E j \in p..Len(code) : code[j] = <<"label", Label(code[p])>>
       \/ code[p][1] \in Hints \/ IsAccess(code[p]) \/ IsData(code[p])

\* A guest at one of the instructions of its code, with words in its registers.
AtInstruction(m, code) ==
  /\ m.pc \in DOMAIN code
  /\ m.sp \subseteq 0..63 /\ \A n \in 0..30 : m.x[n] \subseteq 0..63
  /\ \A n \in 0..31 : m.v[n] \subseteq 0..127
=============================================================================
