-------------------------- MODULE A64HarnessProof --------------------------
(***************************************************************************)
(* Facts about the operators of A64Config and A64Harness that hold of any  *)
(* CONFIG and any guest: words in registers and in memory, the names of    *)
(* registers, what each piece of the oracle's program changes, what is     *)
(* read back of the lines it prints, and how the oracle's comparison with  *)
(* the expected values agrees with that of RunAsmTest.                     *)
(***************************************************************************)
EXTENDS A64Harness, FiniteSetTheorems, FunctionTheorems, TLAPS

\* The guest as the pieces of the program find it and leave it.
IsMachine(m) ==
  m \in [x : [0..30 -> SUBSET (0..63)], sp : SUBSET (0..63), v : [0..31 -> SUBSET (0..127)],
         flags : {m.flags}, fpcr : {m.fpcr}, fpsr : {m.fpsr}, mem : {m.mem}, monitor : {m.monitor}, pc : {m.pc}]

-----------------------------------------------------------------------------
(* Words. *)

LEMMA Words64 ==
  ASSUME NEW a, NEW k
  PROVE  /\ Low(a) \in SUBSET (0..63) /\ High(a) \in SUBSET (0..63)
         /\ a \cap Mask(32) \in SUBSET (0..63)
         /\ W(k) \in SUBSET (0..63)
<1>1. Mask(64) = 0..63 /\ Mask(32) \subseteq 0..63
  BY DEF Mask
<1>2. \A j : Bits(j) \subseteq 0..63 /\ Inv(Bits(j), 64) \subseteq 0..63
  BY <1>1 DEF Bits, Inv
<1> QED BY <1>1, <1>2 DEF Low, High, Field, W

LEMMA ShlWord ==
  ASSUME NEW a, NEW k PROVE Shl(a, k, 128) \in SUBSET (0..127)
BY DEF Shl, Mask

\* A vector is made of its halves, and its halves are those it was made of.
LEMMA Halves ==
  ASSUME NEW a \in SUBSET (0..63), NEW b \in SUBSET (0..63),
         NEW c \in SUBSET (0..63), NEW d \in SUBSET (0..63)
  PROVE  /\ Pair(a, b) \in SUBSET (0..127)
         /\ Pair(a, b) = Pair(c, d) => a = c /\ b = d
<1>1. ASSUME NEW p \in SUBSET (0..63)
      PROVE  Shl(p, 64, 128) = {i + 64 : i \in p}
  BY DEF Shl, Mask
<1>2. ASSUME NEW p \in SUBSET (0..63), NEW q \in SUBSET (0..63)
      PROVE  /\ p = Pair(p, q) \cap (0..63)
             /\ q = {i \in 0..63 : i + 64 \in Pair(p, q)}
             /\ Pair(p, q) \subseteq 0..127
  <2>1. Pair(p, q) = p \cup {i + 64 : i \in q}
    BY <1>1 DEF Pair
  <2>2. p \subseteq 0..63 /\ q \subseteq 0..63
    OBVIOUS
  <2>3. \A i : i \in Pair(p, q) <=> i \in p \/ \E j \in q : i = j + 64
    BY <2>1
  <2>4. \A i \in 0..63 : i \in Pair(p, q) <=> i \in p
    BY <2>2, <2>3
  <2>5. \A i \in 0..63 : i + 64 \in Pair(p, q) <=> i \in q
    <3> TAKE i \in 0..63
    <3>1. i + 64 \notin p /\ \A j \in q : i + 64 = j + 64 => i = j
      BY <2>2
    <3> QED BY <2>3, <3>1
  <2>6. \A i \in Pair(p, q) : i \in 0..127
    <3>1. \A j \in q : j + 64 \in 0..127
      BY <2>2
    <3>2. \A j \in p : j \in 0..127
      BY <2>2
    <3> QED BY <2>3, <3>1, <3>2
  <2>7. p = Pair(p, q) \cap (0..63)
    BY <2>2, <2>4
  <2>8. q = {i \in 0..63 : i + 64 \in Pair(p, q)}
    BY <2>2, <2>5
  <2> QED BY <2>6, <2>7, <2>8
<1>3. Pair(a, b) \in SUBSET (0..127)
  BY <1>2
<1>4. ASSUME Pair(a, b) = Pair(c, d) PROVE a = c /\ b = d
  <2>1. a = Pair(a, b) \cap (0..63) /\ b = {i \in 0..63 : i + 64 \in Pair(a, b)}
    BY <1>2
  <2>2. c = Pair(a, b) \cap (0..63) /\ d = {i \in 0..63 : i + 64 \in Pair(a, b)}
    BY <1>2, <1>4
  <2> QED BY <2>1, <2>2
<1> QED BY <1>3, <1>4

-----------------------------------------------------------------------------
(* Memory. *)

LEMMA Stored ==
  ASSUME NEW m, IsMachine(m), NEW at \in Int, NEW a
  PROVE  /\ IsMachine(Store(m, at, a, 8))
         /\ Store(m, at, a, 8).x = m.x /\ Store(m, at, a, 8).v = m.v
         /\ Store(m, at, a, 8).sp = m.sp
         /\ DOMAIN Store(m, at, a, 8).mem = DOMAIN m.mem \cup at..(at + 7)
         /\ \A b \in at..(at + 7) : Store(m, at, a, 8).mem[b] = Field(a, 8 * (b - at), 8)
         /\ \A b \in DOMAIN m.mem \ at..(at + 7) : Store(m, at, a, 8).mem[b] = m.mem[b]
<1> DEFINE mem == [b \in DOMAIN m.mem \cup at..(at + 7) |->
                     IF b \in at..(at + 7) THEN Field(a, 8 * (b - at), 8) ELSE m.mem[b]]
<1>1. at + 8 - 1 = at + 7
  OBVIOUS
<1>2. /\ DOMAIN mem = DOMAIN m.mem \cup at..(at + 7)
      /\ \A b \in at..(at + 7) : mem[b] = Field(a, 8 * (b - at), 8)
      /\ \A b \in DOMAIN m.mem \ at..(at + 7) : mem[b] = m.mem[b]
  OBVIOUS
<1>3. Store(m, at, a, 8) = [m EXCEPT !.mem = mem, !.monitor = FALSE]
  BY <1>1 DEF Store
<1> HIDE DEF mem
<1>4. ASSUME NEW y
      PROVE  LET set == [m EXCEPT !.mem = y, !.monitor = FALSE]
             IN  /\ IsMachine(set) /\ set.mem = y
                 /\ set.x = m.x /\ set.v = m.v /\ set.sp = m.sp
  BY DEF IsMachine
<1>5. /\ IsMachine(Store(m, at, a, 8)) /\ Store(m, at, a, 8).mem = mem
      /\ Store(m, at, a, 8).x = m.x /\ Store(m, at, a, 8).v = m.v
      /\ Store(m, at, a, 8).sp = m.sp
  BY <1>3, <1>4
<1> QED BY <1>2, <1>5

\* A word that was stored is what a load from there finds.
LEMMA LoadStored ==
  ASSUME NEW m, IsMachine(m), NEW at \in Int, NEW a \in SUBSET (0..63)
  PROVE  Load(Store(m, at, a, 8), at, 8) = a
<1> DEFINE mem == Store(m, at, a, 8).mem
           Byte(b) == Shl(Field(a, 8 * (b - at), 8), 8 * (b - at), 64)
<1>1. Load(Store(m, at, a, 8), at, 8) = UNION {Byte(b) : b \in at..(at + 7)}
  <2>1. at + 8 - 1 = at + 7
    OBVIOUS
  <2>2. /\ DOMAIN mem \cap at..(at + 7) = at..(at + 7)
        /\ \A b \in at..(at + 7) : mem[b] = Field(a, 8 * (b - at), 8)
    BY Stored
  <2> HIDE DEF mem
  <2>3. {Shl(mem[b], 8 * (b - at), 64) : b \in at..(at + 7)} = {Byte(b) : b \in at..(at + 7)}
    BY <2>2
  <2> HIDE DEF Byte
  <2> QED BY <2>1, <2>2, <2>3 DEF Load, mem
<1>2. ASSUME NEW b \in at..(at + 7), NEW i \in Byte(b) PROVE i \in a
  BY <1>2 DEF Shl, Field, Shr, Mask
<1>3. ASSUME NEW i \in a PROVE \E b \in at..(at + 7) : i \in Byte(b)
  <2> DEFINE b == at + i \div 8
  <2>1. b \in at..(at + 7) /\ b - at = i \div 8 /\ i - 8 * (i \div 8) \in 0..7
    OBVIOUS
  <2>2. i - 8 * (b - at) \in Field(a, 8 * (b - at), 8)
    BY <2>1 DEF Field, Shr, Mask
  <2>3. i = (i - 8 * (b - at)) + 8 * (b - at) /\ i \in 0..63
    BY <2>1
  <2>4. i \in Byte(b)
    <3> DEFINE part == Field(a, 8 * (b - at), 8)
               shift == 8 * (b - at)
    <3>1. i - shift \in part /\ i = (i - shift) + shift /\ i \in Mask(64)
      BY <2>2, <2>3 DEF Mask
    <3> HIDE DEF part, shift
    <3>2. i \in Shl(part, shift, 64)
      BY <3>1 DEF Shl
    <3> QED BY <3>2 DEF part, shift
  <2> QED BY <2>1, <2>4
<1> HIDE DEF Byte
<1> QED BY <1>1, <1>2, <1>3

\* A load finds nothing of a store that does not reach it.
LEMMA LoadElsewhere ==
  ASSUME NEW m, IsMachine(m), NEW at \in Int, NEW to \in Int, NEW a,
         to \notin (at - 7)..(at + 7)
  PROVE  Load(Store(m, to, a, 8), at, 8) = Load(m, at, 8)
<1> DEFINE mem == Store(m, to, a, 8).mem
<1>1. at + 8 - 1 = at + 7
  OBVIOUS
<1>2. /\ DOMAIN mem = DOMAIN m.mem \cup to..(to + 7)
      /\ \A b \in DOMAIN m.mem \ to..(to + 7) : mem[b] = m.mem[b]
  BY Stored
<1>3. at..(at + 7) \cap to..(to + 7) = {}
  OBVIOUS
<1> HIDE DEF mem
<1>4. /\ DOMAIN mem \cap at..(at + 7) = DOMAIN m.mem \cap at..(at + 7)
      /\ \A b \in DOMAIN m.mem \cap at..(at + 7) : mem[b] = m.mem[b]
  BY <1>2, <1>3
<1>5. {Shl(mem[b], 8 * (b - at), 64) : b \in DOMAIN mem \cap at..(at + 7)}
        = {Shl(m.mem[b], 8 * (b - at), 64) : b \in DOMAIN m.mem \cap at..(at + 7)}
  BY <1>4
<1> QED BY <1>1, <1>5 DEF Load, mem

LEMMA LoadSame ==
  ASSUME NEW m, NEW other, m.mem = other.mem, NEW at
  PROVE  Load(m, at, 8) = Load(other, at, 8)
BY DEF Load

-----------------------------------------------------------------------------
(* Names. *)

LEMMA NameKinds ==
  /\ \A name \in RegisterNames :
       \/ name = "SP"
       \/ \E n \in 0..30 : name = Numbered("X", n) \/ name = Numbered("W", n)
       \/ \E n \in 0..31 : name = Numbered("S", n) \/ name = Numbered("D", n)
  /\ \A name \in DOMAIN Vectors :
       \E n \in 0..31 : name = Numbered("V", n) \/ name = Numbered("Q", n)
BY NamesOK DEF RegisterNames

LEMMA NameSets ==
  /\ \A n \in 0..30 : Numbered("X", n) \in DOMAIN Gprs /\ Numbered("W", n) \in DOMAIN Gprs
  /\ \A n \in 0..31 : Numbered("S", n) \in DOMAIN Scalars /\ Numbered("D", n) \in DOMAIN Scalars
  /\ \A n \in 0..31 : Numbered("V", n) \in DOMAIN Vectors /\ Numbered("Q", n) \in DOMAIN Vectors
BY NamesOK

\* The kind of a register tells which of the sets its name is in.
LEMMA NamesApart ==
  /\ \A name \in DOMAIN Gprs : Register[name].k = "r" /\ Register[name].n \in 0..30
  /\ \A name \in DOMAIN Scalars : Register[name].k = "f" /\ Register[name].n \in 0..31
  /\ \A name \in DOMAIN Vectors : Register[name].k = "v" /\ Register[name].n \in 0..31
  /\ Register["SP"].k = "sp"
  /\ DOMAIN Gprs \cap DOMAIN Scalars = {} /\ DOMAIN Gprs \cap DOMAIN Vectors = {}
  /\ DOMAIN Scalars \cap DOMAIN Vectors = {}
  /\ "SP" \notin DOMAIN Gprs \cup DOMAIN Scalars \cup DOMAIN Vectors
<1>1. \A name \in DOMAIN Gprs : Register[name].k = "r" /\ Register[name].n \in 0..30
  <2> TAKE name \in DOMAIN Gprs
  <2>1. PICK n \in 0..30 : name = Numbered("X", n) \/ name = Numbered("W", n)
    BY NamesOK
  <2>2. Register[name] = X(n) \/ Register[name] = R(n)
    BY <2>1, NamesOK
  <2> QED BY <2>2 DEF X, R
<1>2. \A name \in DOMAIN Scalars : Register[name].k = "f" /\ Register[name].n \in 0..31
  <2> TAKE name \in DOMAIN Scalars
  <2>1. PICK n \in 0..31 : name = Numbered("S", n) \/ name = Numbered("D", n)
    BY NamesOK
  <2>2. Register[name] = S(n) \/ Register[name] = D(n)
    BY <2>1, NamesOK
  <2> QED BY <2>2 DEF S, D
<1>3. \A name \in DOMAIN Vectors : Register[name].k = "v" /\ Register[name].n \in 0..31
  <2> TAKE name \in DOMAIN Vectors
  <2>1. PICK n \in 0..31 : name = Numbered("V", n) \/ name = Numbered("Q", n)
    BY NamesOK
  <2>2. Register[name] = V(n, 64)
    BY <2>1, NamesOK
  <2> QED BY <2>2 DEF V
<1>4. Register["SP"].k = "sp"
  BY NamesOK DEF SP
<1> QED BY <1>1, <1>2, <1>3, <1>4

\* What is read of a register, by each of its names.
LEMMA ReadAny ==
  ASSUME NEW m
  PROVE  /\ \A n \in 0..30 : /\ Read(m, X(n)) = m.x[n] \cap Mask(64)
                             /\ Read(m, R(n)) = m.x[n] \cap Mask(32)
         /\ \A n \in 0..31 : /\ Read(m, S(n)) = m.v[n] \cap Mask(32)
                             /\ Read(m, D(n)) = Low(m.v[n])
                             /\ Read(m, V(n, 64)) = m.v[n]
         /\ Read(m, SP) = m.sp
<1>1. ASSUME NEW n \in 0..30
      PROVE  Read(m, X(n)) = m.x[n] \cap Mask(64) /\ Read(m, R(n)) = m.x[n] \cap Mask(32)
  <2>1. n # 31
    OBVIOUS
  <2>2. Read(m, X(n)) = m.x[n] \cap Mask(64)
    BY <2>1 DEF Read, X
  <2>3. Read(m, R(n)) = m.x[n] \cap Mask(32)
    BY <2>1 DEF Read, R
  <2> QED BY <2>2, <2>3
<1>2. ASSUME NEW n \in 0..31
      PROVE  /\ Read(m, S(n)) = m.v[n] \cap Mask(32) /\ Read(m, D(n)) = Low(m.v[n])
             /\ Read(m, V(n, 64)) = m.v[n]
  <2>1. Read(m, S(n)) = m.v[n] \cap Mask(32)
    BY DEF Read, S
  <2>2. Read(m, D(n)) = Low(m.v[n])
    BY DEF Read, D, Low
  <2>3. Read(m, V(n, 64)) = m.v[n]
    BY DEF Read, V
  <2> QED BY <2>1, <2>2, <2>3
<1>3. Read(m, SP) = m.sp
  BY DEF Read, SP
<1> QED BY <1>1, <1>2, <1>3

LEMMA ReadNames ==
  ASSUME NEW m, IsMachine(m), NEW n \in 0..30
  PROVE  Read(m, X(n)) = m.x[n]
<1>1. m.x[n] \in SUBSET (0..63) /\ Mask(64) = 0..63
  BY DEF IsMachine, Mask
<1>2. Read(m, X(n)) = m.x[n] \cap Mask(64)
  BY ReadAny
<1> QED BY <1>1, <1>2

-----------------------------------------------------------------------------
(* The guest's instructions. *)

\* A set of natural numbers has a least one.
LEMMA Least ==
  ASSUME NEW nats, nats \subseteq Nat, nats # {}
  PROVE  Min(nats) \in nats /\ \A y \in nats : Min(nats) <= y
<1> DEFINE below(n) == 0..n
           Rel == StrictSubsetOrdering(Nat)
           sets == {below(n) : n \in nats}
<1>1. ASSUME NEW n \in nats PROVE IsFiniteSet(below(n)) /\ below(n) \in SUBSET Nat
  <2>1. n \in Int /\ 0 \in Int /\ below(n) \in SUBSET Nat
    OBVIOUS
  <2> QED BY <2>1, FS_Interval
<1>2. IsWellFoundedOn(Rel, FiniteSubsetsOf(Nat))
  BY FS_StrictSubsetOrderingWellFounded
<1>3. sets \subseteq FiniteSubsetsOf(Nat) /\ sets # {}
  BY <1>1 DEF FiniteSubsetsOf
<1>4. ASSUME NEW x \in nats, NEW y \in nats, y < x PROVE <<below(y), below(x)>> \in Rel
  <2>1. below(y) \in SUBSET Nat /\ below(x) \in SUBSET Nat
    BY <1>1
  <2>2. below(y) \subseteq below(x) /\ x \in below(x) /\ x \notin below(y)
    BY <1>4
  <2> QED BY <2>1, <2>2 DEF StrictSubsetOrdering
<1> HIDE DEF Rel
<1>5. PICK s \in sets : \A r \in sets : ~(<<r, s>> \in Rel)
  BY <1>2, <1>3, WFMin
<1>6. PICK x \in nats : s = below(x)
  OBVIOUS
<1>7. ASSUME NEW y \in nats PROVE x <= y
  <2>1. below(y) \in sets
    OBVIOUS
  <2>2. ~(y < x)
    BY <1>4, <1>5, <1>6, <2>1
  <2> QED BY <2>2
<1> QED BY <1>6, <1>7 DEF Min

\* So a finite set of naturals has its greatest element.
LEMMA Greatest ==
  ASSUME NEW nats, nats \subseteq Nat, nats # {}, IsFiniteSet(nats)
  PROVE  Max(nats) \in nats /\ \A y \in nats : y <= Max(nats)
<1> DEFINE above(n) == {y \in nats : n < y}
           Rel == StrictSubsetOrdering(Nat)
           sets == {above(n) : n \in nats}
<1>1. ASSUME NEW n \in nats PROVE IsFiniteSet(above(n)) /\ above(n) \in SUBSET Nat
  BY FS_Subset
<1>2. IsWellFoundedOn(Rel, FiniteSubsetsOf(Nat))
  BY FS_StrictSubsetOrderingWellFounded
<1>3. sets \subseteq FiniteSubsetsOf(Nat) /\ sets # {}
  BY <1>1 DEF FiniteSubsetsOf
<1>4. ASSUME NEW x \in nats, NEW y \in nats, x < y PROVE <<above(y), above(x)>> \in Rel
  <2>1. above(y) \in SUBSET Nat /\ above(x) \in SUBSET Nat
    BY <1>1
  <2>2. x \in Int /\ y \in Int /\ y \in above(x) /\ y \notin above(y)
    BY <1>4
  <2>3. \A z \in above(y) : z \in Int /\ z \in above(x)
    BY <1>4
  <2> QED BY <2>1, <2>2, <2>3 DEF StrictSubsetOrdering
<1> HIDE DEF Rel
<1>5. PICK s \in sets : \A r \in sets : ~(<<r, s>> \in Rel)
  BY <1>2, <1>3, WFMin
<1>6. PICK x \in nats : s = above(x)
  OBVIOUS
<1>7. ASSUME NEW y \in nats PROVE x >= y
  <2>1. above(y) \in sets
    OBVIOUS
  <2>2. ~(x < y)
    BY <1>4, <1>5, <1>6, <2>1
  <2> QED BY <2>2
<1>8. \E z \in nats : \A y \in nats : z >= y
  BY <1>6, <1>7
<1>9. Max(nats) \in nats /\ \A y \in nats : Max(nats) >= y
  BY <1>8 DEF Max
<1> QED BY <1>9

\* A page begins at or below the addresses it holds, and holds PageSize of them.
LEMMA PageAround ==
  ASSUME NEW a \in Nat
  PROVE  PageOf(a) \in Nat /\ PageOf(a) <= a /\ a < PageOf(a) + PageSize
BY DEF PageOf, PageSize

\* The pages that are mapped for MemData, from that of its lowest address to that
\* of the last byte of any of its entries, hold every byte of each.
LEMMA InPages ==
  ASSUME NEW c, IsFiniteSet(DOMAIN MemData(c)),
         \A a \in DOMAIN MemData(c) : a \in Nat /\ Len(MemData(c)[a]) \in Nat,
         NEW a \in DOMAIN MemData(c), NEW b \in a..(a + 8 * Len(MemData(c)[a]) - 1)
  PROVE  /\ b \in MemBase(c)..(MemBase(c) + MemSize(c) - 1)
         /\ Mapped(c, b)
<1> DEFINE addresses == DOMAIN MemData(c)
           end == [x \in addresses |-> x + 8 * Len(MemData(c)[x])]
           ends == {x + 8 * Len(MemData(c)[x]) : x \in addresses}
           lowest == Min(addresses)
           highest == Max(ends)
           size == PageOf(highest + PageSize - 1) - PageOf(lowest)
<1>1. lowest \in Nat /\ lowest <= a
  BY Least
<1>2. highest \in Nat /\ a + 8 * Len(MemData(c)[a]) <= highest
  <2>1. end \in [addresses -> ends] /\ \A t \in ends : \E x \in addresses : end[x] = t
    OBVIOUS
  <2>2. IsFiniteSet(ends)
    <3> HIDE DEF end, ends
    <3> QED BY <2>1, Fun_IsSurj, FS_Surjection
  <2>3. ends \subseteq Nat
    OBVIOUS
  <2>4. a + 8 * Len(MemData(c)[a]) \in ends
    OBVIOUS
  <2> HIDE DEF ends
  <2> QED BY <2>2, <2>3, <2>4, Greatest
<1>3. MemBase(c) = PageOf(lowest) /\ MemSize(c) = IF size = 0 THEN PageSize ELSE size
  BY DEF MemBase, MemSize, MemEnd
<1> HIDE DEF lowest, highest
<1>4. a \in Nat /\ Len(MemData(c)[a]) \in Nat /\ PageSize = 4096
  BY DEF PageSize
<1>5. PageOf(lowest) \in Nat /\ PageOf(lowest) <= lowest
  BY <1>1, PageAround
<1>6. highest + PageSize - 1 \in Nat
  BY <1>2, <1>4
<1>7. /\ PageOf(highest + PageSize - 1) \in Nat
      /\ highest + PageSize - 1 < PageOf(highest + PageSize - 1) + PageSize
  BY <1>6, PageAround
<1>8. b \in Nat /\ a <= b /\ b < a + 8 * Len(MemData(c)[a])
  BY <1>4
<1>9. PageOf(lowest) <= b /\ b < PageOf(highest + PageSize - 1)
  BY <1>1, <1>2, <1>4, <1>5, <1>7, <1>8
<1>10. b \in PageOf(lowest)..(PageOf(lowest) + size - 1) /\ size # 0
  BY <1>5, <1>7, <1>8, <1>9
<1>11. b \in MemBase(c)..(MemBase(c) + MemSize(c) - 1)
  BY <1>3, <1>10
<1>12. MemData(c) # None
  BY DEF None
<1>13. <<MemBase(c), MemSize(c)>> \in Areas(c)
  BY <1>12 DEF Areas
<1> QED BY <1>11, <1>13 DEF Mapped

\* A guest after the effect of an instruction, and before it goes on to the next.
Effect(m, done) == IsMachine(done) /\ done.pc = m.pc

LEMMA Changed ==
  ASSUME NEW m, IsMachine(m), NEW a
  PROVE  /\ Effect(m, [m EXCEPT !.flags = a])
         /\ Effect(m, [m EXCEPT !.fpsr = a])
         /\ Effect(m, [m EXCEPT !.monitor = a])
         /\ \A b : Effect(m, [m EXCEPT !.mem = a, !.monitor = b])
         /\ IsMachine([m EXCEPT !.pc = a]) /\ [m EXCEPT !.pc = a].pc = a
BY DEF IsMachine, Effect

LEMMA Written ==
  ASSUME NEW m, IsMachine(m), NEW o, IsRegister(o), NEW a
  PROVE  Effect(m, Write(m, o, a))
<1>1. /\ Mask(32) \subseteq 0..63 /\ Mask(64) = 0..63 /\ Mask(128) = 0..127
      /\ 0..63 \subseteq 0..127
  BY DEF Mask
<1>2. CASE o.k = "r"
  <2>1. a \cap Mask(o.w) \in SUBSET (0..63)
    BY <1>1, <1>2 DEF IsRegister
  <2>2. ASSUME NEW y \in SUBSET (0..63), NEW n
        PROVE  Effect(m, [m EXCEPT !.x[n] = y])
    BY DEF IsMachine, Effect
  <2>3. Effect(m, m)
    BY DEF Effect
  <2>4. Write(m, o, a) = IF o.n = 31 THEN m ELSE [m EXCEPT !.x[o.n] = a \cap Mask(o.w)]
    BY <1>2 DEF Write
  <2> QED BY <2>1, <2>2, <2>3, <2>4
<1>3. CASE o.k = "sp"
  <2>1. Write(m, o, a) = [m EXCEPT !.sp = a \cap Mask(64)]
    BY <1>3 DEF Write
  <2>2. ASSUME NEW y \in SUBSET (0..63) PROVE Effect(m, [m EXCEPT !.sp = y])
    BY DEF IsMachine, Effect
  <2>3. a \cap Mask(64) \in SUBSET (0..63)
    BY <1>1
  <2> QED BY <2>1, <2>2, <2>3
<1>4. CASE o.k \in {"f", "v"}
  <2>1. ASSUME NEW y \in SUBSET (0..127), NEW n
        PROVE  Effect(m, [m EXCEPT !.v[n] = y])
    BY DEF IsMachine, Effect
  <2> DEFINE y == IF o.k = "f" THEN a \cap Mask(o.w) ELSE a \cap Mask(128)
  <2>2. Write(m, o, a) = [m EXCEPT !.v[o.n] = y]
    BY <1>4 DEF Write
  <2>3. y \in SUBSET (0..127)
    BY <1>1, <1>4 DEF IsRegister
  <2> HIDE DEF y
  <2> QED BY <2>1, <2>2, <2>3
<1> QED BY <1>2, <1>3, <1>4 DEF IsRegister, RegisterKinds

LEMMA Summed ==
  ASSUME NEW m, IsMachine(m), NEW o, IsRegister(o), NEW op, NEW a, NEW b
  PROVE  Effect(m, Arithmetic(op, m, o, a, b)) /\ Effect(m, Logical(op, m, o, a, b))
<1> DEFINE done(y) == Write(m, o, y)
<1>1. \A y : Effect(m, done(y))
  BY Written
<1>2. \A y, f : Effect(m, [done(y) EXCEPT !.flags = f])
  <2> TAKE y, f
  <2> DEFINE d == done(y)
  <2>1. IsMachine(d) /\ d.pc = m.pc
    BY <1>1 DEF Effect
  <2> HIDE DEF d
  <2>2. Effect(d, [d EXCEPT !.flags = f])
    BY <2>1, Changed
  <2> QED BY <2>1, <2>2 DEF Effect, d
<1> QED BY <1>1, <1>2 DEF Arithmetic, Logical

LEMMA Computed ==
  ASSUME NEW m, IsMachine(m), NEW i, IsData(i)
  PROVE  Effect(m, Compute(m, i))
<1> DEFINE z == [XZR EXCEPT !.w = i[2].w]
<1>1. IsRegister(i[2]) /\ (i[1] \in DataOps \/ i[2].k = "v")
  BY Zenon DEF IsData
<1>2. \A a : Effect(m, Write(m, i[2], a))
  BY <1>1, Written
<1>3. \A op, a, b : Effect(m, Arithmetic(op, m, i[2], a, b)) /\ Effect(m, Logical(op, m, i[2], a, b))
  BY <1>1, Summed
<1>4. i[2].k # "v" =>
        \A op, a, b : Effect(m, Arithmetic(op, m, z, a, b)) /\ Effect(m, Logical(op, m, z, a, b))
  <2>1. i[2].k # "v" => IsRegister(z)
    BY <1>1 DEF IsRegister, RegisterKinds, XZR, X
  <2> HIDE DEF z
  <2> QED BY <2>1, Summed
<1>5. \A f : Effect(m, [m EXCEPT !.flags = f])
  BY Changed
<1>6. \A op : Effect(m, ConditionalCompare(m, op, i))
  BY <1>5 DEF ConditionalCompare
<1>7. \A a, q : Effect(m, Rounded(Write(m, i[2], a), q))
  <2> TAKE a, q
  <2> DEFINE done == Write(m, i[2], a)
  <2>1. Effect(m, done)
    BY <1>2
  <2> HIDE DEF done
  <2>2. \A f : Effect(done, [done EXCEPT !.fpsr = f])
    BY <2>1, Changed DEF Effect
  <2>3. Effect(m, Rounded(done, q))
    BY <2>1, <2>2 DEF Rounded, Effect
  <2> QED BY <2>3 DEF done
<1> QED BY <1>1, <1>2, <1>3, <1>4, <1>5, <1>6, <1>7 DEF Compute, DataOps

LEMMA Accessed ==
  ASSUME NEW m, IsMachine(m), NEW i, IsAccess(i)
  PROVE  Effect(m, Access(m, i))
<1>1. /\ i[1] \in AccessOps /\ IsRegister(i[2]) /\ IsRegister(i[Len(i)].base)
      /\ i[1] = "ldp" => IsRegister(i[3])
  BY DEF IsAccess
<1>2. ASSUME NEW d, Effect(m, d), NEW o, IsRegister(o), NEW a PROVE Effect(m, Write(d, o, a))
  BY <1>2, Written DEF Effect
<1>3. ASSUME NEW d, Effect(m, d), NEW at, NEW a, NEW n PROVE Effect(m, Store(d, at, a, n))
  <2>0. IsMachine(d)
    BY <1>3 DEF Effect
  <2>1. \A y, b : Effect(d, [d EXCEPT !.mem = y, !.monitor = b])
    BY <2>0, Changed, Zenon
  <2> QED BY <1>3, <2>1 DEF Store, Effect
<1>4. ASSUME NEW d, Effect(m, d), NEW o, IsRegister(o), NEW at, NEW op
      PROVE  Effect(m, LoadInto(d, o, at, op))
  <2> DEFINE e(a) == Write(d, o, a)
  <2>1. \A a, b : Effect(m, [e(a) EXCEPT !.monitor = b])
    <3> TAKE a, b
    <3>1. Effect(m, e(a))
      BY <1>2, <1>4
    <3> HIDE DEF e
    <3>2. Effect(e(a), [e(a) EXCEPT !.monitor = b])
      BY <3>1, Changed DEF Effect
    <3> QED BY <3>1, <3>2 DEF Effect
  <2> QED BY <2>1 DEF LoadInto
<1>5. Effect(m, m)
  BY DEF Effect
<1>6. ASSUME NEW d, Effect(m, d) PROVE Effect(m, Writeback(d, i[Len(i)]))
  <2>1. \A a : Effect(m, Write(d, i[Len(i)].base, a))
    BY <1>1, <1>2, <1>6
  <2> QED BY <1>6, <2>1 DEF Writeback
<1>7. \A o, a, at, n : IsRegister(o) => Effect(m, StoreExclusive(m, o, a, at, n))
  BY <1>2, <1>3, <1>5 DEF StoreExclusive
<1>8. \A a, at, n, b, bt, l : Effect(m, Store(m, at, a, n)) /\ Effect(m, Store(Store(m, at, a, n), bt, b, l))
  BY <1>3, <1>5
<1>9. \A at, op : Effect(m, LoadInto(m, i[2], at, op))
  BY <1>1, <1>4, <1>5
<1>10. i[1] = "ldp" => \A at, op, bt, oq : Effect(m, LoadInto(LoadInto(m, i[2], at, op), i[3], bt, oq))
  BY <1>1, <1>4, <1>9
<1> QED BY <1>1, <1>6, <1>7, <1>8, <1>9, <1>10 DEF Access, AccessOps

\* In a program the guest stays on its instructions, with words in its registers,
\* until it comes to one of the last ones.
LEMMA Stepped ==
  ASSUME NEW stops, NEW code, Program(code, stops),
         NEW m, IsMachine(m), m.pc \in DOMAIN code, code[m.pc] \notin stops
  PROVE  IsMachine(Step(m, code)) /\ Step(m, code).pc \in DOMAIN code
<1> DEFINE i == code[m.pc]
<1>1. /\ Len(code) \in Nat /\ DOMAIN code = 1..Len(code) /\ m.pc \in 1..Len(code)
      /\ code[Len(code)] \in stops
  BY DEF Program
<1>2. m.pc + 1 \in DOMAIN code
  BY <1>1
<1>3. ASSUME NEW d, Effect(m, d) PROVE IsMachine(NextPC(d)) /\ NextPC(d).pc \in DOMAIN code
  <2>1. IsMachine(d) /\ d.pc = m.pc
    BY <1>3 DEF Effect
  <2>2. NextPC(d) = [d EXCEPT !.pc = m.pc + 1]
    BY <2>1 DEF NextPC
  <2>3. IsMachine([d EXCEPT !.pc = m.pc + 1]) /\ [d EXCEPT !.pc = m.pc + 1].pc = m.pc + 1
    BY <2>1, Changed
  <2> QED BY <1>2, <2>2, <2>3
<1>4. Effect(m, m)
  BY DEF Effect
<1>5. ASSUME NEW l, \E j \in m.pc..Len(code) : code[j] = <<"label", l>>, NEW cond
      PROVE  IsMachine(JumpIf(cond, m, code, l)) /\ JumpIf(cond, m, code, l).pc \in DOMAIN code
  <2> DEFINE targets == {j \in m.pc..Len(code) : code[j] = <<"label", l>>}
  <2>1. targets \subseteq Nat /\ targets # {} /\ targets \subseteq DOMAIN code
    BY <1>1, <1>5
  <2>2. Target(m, code, l) = Min(targets)
    BY DEF Target
  <2> HIDE DEF targets
  <2>3. Target(m, code, l) \in DOMAIN code
    BY <2>1, <2>2, Least
  <2> DEFINE done == [m EXCEPT !.pc = Target(m, code, l)]
  <2>4. IsMachine(done) /\ done.pc = Target(m, code, l)
    BY Changed
  <2>5. JumpIf(cond, m, code, l) = IF cond THEN done ELSE NextPC(m)
    BY DEF JumpIf
  <2> HIDE DEF done
  <2>6. CASE cond
    BY <2>3, <2>4, <2>5, <2>6
  <2>7. CASE ~cond
    BY <1>3, <1>4, <2>5, <2>7
  <2> QED BY <2>6, <2>7
<1>6. \/ i[1] \in Branches /\ \E j \in m.pc..Len(code) : code[j] = <<"label", Label(i)>>
      \/ i[1] \in Hints \/ IsAccess(i) \/ IsData(i)
  BY DEF Program
<1> HIDE DEF i
<1>7. CASE i[1] \in Branches /\ \E j \in m.pc..Len(code) : code[j] = <<"label", Label(i)>>
  <2>1. \A cond : IsMachine(JumpIf(cond, m, code, Label(i))) /\ JumpIf(cond, m, code, Label(i)).pc \in DOMAIN code
    BY <1>5, <1>7
  <2>2. i[1] \in Branches /\ i[1] \notin Hints \cup AccessOps
    BY <1>7 DEF Branches, Hints, AccessOps, Loads, Stores
  <2>3. \E cond : Step(m, code) = JumpIf(cond, m, code, Label(i))
    <3>1. CASE i[1] = "b"
      <4>1. Label(i) = i[2] /\ Step(m, code) = JumpIf(TRUE, m, code, i[2])
        BY <2>2, <3>1 DEF Step, Label, i
      <4> QED BY <4>1
    <3>2. CASE i[1] = "b.cond"
      <4>1. Label(i) = i[3] /\ Step(m, code) = JumpIf(Holds(i[2].c, m.flags), m, code, i[3])
        BY <2>2, <3>2 DEF Step, Label, i
      <4> QED BY <4>1
    <3>3. CASE i[1] = "cbz"
      <4>1. Label(i) = i[3] /\ Step(m, code) = JumpIf(Read(m, i[2]) = {}, m, code, i[3])
        BY <2>2, <3>3 DEF Step, Label, i
      <4> QED BY <4>1
    <3>4. CASE i[1] = "cbnz"
      <4>1. Label(i) = i[3] /\ Step(m, code) = JumpIf(Read(m, i[2]) # {}, m, code, i[3])
        BY <2>2, <3>4 DEF Step, Label, i
      <4> QED BY <4>1
    <3>5. CASE i[1] = "tbz"
      <4>1. Label(i) = i[4] /\ Step(m, code) = JumpIf(i[3].n \notin Read(m, i[2]), m, code, i[4])
        BY <2>2, <3>5 DEF Step, Label, i
      <4> QED BY <4>1
    <3>6. CASE i[1] = "tbnz"
      <4>1. Label(i) = i[4] /\ Step(m, code) = JumpIf(i[3].n \in Read(m, i[2]), m, code, i[4])
        BY <2>2, <3>6 DEF Step, Label, i
      <4> QED BY <4>1
    <3> QED BY <2>2, <3>1, <3>2, <3>3, <3>4, <3>5, <3>6 DEF Branches
  <2> QED BY <2>1, <2>3
<1>8. CASE i[1] \in Hints
  <2>1. i[1] \notin Branches \cup AccessOps
    BY <1>8 DEF Branches, Hints, AccessOps, Loads, Stores
  <2>2. Step(m, code) = NextPC(m)
    BY <1>8, <2>1 DEF Step, Branches, i
  <2> QED BY <1>3, <1>4, <2>2
<1>9. CASE IsAccess(i)
  <2>1. i[1] \in AccessOps /\ Effect(m, Access(m, i))
    BY <1>9, Accessed DEF IsAccess
  <2>2. IsMachine(NextPC(Access(m, i))) /\ NextPC(Access(m, i)).pc \in DOMAIN code
    BY <1>3, <2>1
  <2>3. i[1] \notin Hints \cup Branches
    BY <2>1 DEF AccessOps, Loads, Stores, Hints, Branches
  <2> QED BY <2>1, <2>2, <2>3 DEF Step, Branches, i
<1>10. CASE IsData(i)
  <2>0. i[1] \notin Hints \cup Branches \cup AccessOps
    <3>1. i[1] \in VectorOps \cup DataOps
      BY <1>10, Zenon DEF IsData
    <3>2. \A op \in Hints \cup Branches \cup AccessOps : op \notin VectorOps /\ op \notin DataOps
      BY DEF VectorOps, DataOps, Hints, Branches, AccessOps, Loads, Stores, Zeroed, Negated, LogicOps,
             AddOps, SubOps, UnaryOps, BinaryOps, FieldOps, ConditionalOps, FBinaryOps, FUnaryOps, RoundingOf
    <3> QED BY <3>1, <3>2
  <2>1. Effect(m, Compute(m, i))
    BY <1>10, Computed
  <2>2. IsMachine(NextPC(Compute(m, i))) /\ NextPC(Compute(m, i)).pc \in DOMAIN code
    BY <1>3, <2>1
  <2>3. Step(m, code) = NextPC(Compute(m, i))
    BY <2>0 DEF Step, Branches, i
  <2> QED BY <2>2, <2>3
<1> QED BY <1>6, <1>7, <1>8, <1>9, <1>10

-----------------------------------------------------------------------------
(* What the pieces of the program change. *)

\* A piece that writes no general register but xs and no vector but vs.
Writes(m, done, xs, vs) ==
  /\ IsMachine(done)
  /\ \A n \in 0..30 : n \notin xs => done.x[n] = m.x[n]
  /\ \A n \in 0..31 : n \notin vs => done.v[n] = m.v[n]

LEMMA Loaded64 ==
  ASSUME NEW m, IsMachine(m), NEW n \in 0..30, NEW a
  PROVE  /\ Writes(m, Load64(m, n, a), {n}, {})
         /\ Load64(m, n, a).x[n] = Low(a)
         /\ Load64(m, n, a).sp = m.sp /\ Load64(m, n, a).mem = m.mem
<1>1. Low(a) \in SUBSET (0..63)
  BY Words64
<1> HIDE DEF Low
<1>2. IsMachine(Load64(m, n, a))
  BY <1>1 DEF IsMachine, Load64
<1> QED BY <1>2 DEF IsMachine, Load64, Writes

LEMMA Mmapped ==
  ASSUME NEW m, IsMachine(m), NEW base, NEW size
  PROVE  /\ Writes(m, Mmap(m, base, size), 0..5 \cup {8}, {})
         /\ Mmap(m, base, size).sp = m.sp /\ Mmap(m, base, size).mem = m.mem
<1>1. \A k : W(k) \in SUBSET (0..63)
  BY Words64
<1> DEFINE x == [m.x EXCEPT ![0] = W(base), ![1] = W(size), ![2] = W(3), ![3] = W(50),
                            ![4] = W(-1), ![5] = W(0), ![8] = W(222)]
<1>2. m.x \in [0..30 -> SUBSET (0..63)]
  BY DEF IsMachine
<1>3. x \in [0..30 -> SUBSET (0..63)] /\ \A n \in 0..30 : n \notin 0..5 \cup {8} => x[n] = m.x[n]
  BY <1>1, <1>2
<1>4. Mmap(m, base, size) = [m EXCEPT !.x = x]
  BY DEF Mmap, IsMachine
<1> HIDE DEF x
<1>5. /\ Mmap(m, base, size).x = x /\ Mmap(m, base, size).v = m.v
      /\ Mmap(m, base, size).sp = m.sp /\ Mmap(m, base, size).mem = m.mem
  BY <1>4 DEF IsMachine
<1>6. IsMachine(Mmap(m, base, size))
  <2>1. ASSUME NEW y \in [0..30 -> SUBSET (0..63)]
        PROVE  IsMachine([m EXCEPT !.x = y])
    BY DEF IsMachine
  <2> QED BY <1>3, <1>4, <2>1
<1> QED BY <1>3, <1>5, <1>6 DEF Writes

LEMMA Allocated ==
  ASSUME NEW config, NEW m, IsMachine(m)
  PROVE  /\ Writes(m, MemAlloc(config, m), 0..5 \cup {8, 19}, {})
         /\ MemData(config) = None => MemAlloc(config, m) = m
<1> DEFINE mapped == Mmap(m, MemBase(config), MemSize(config))
<1>1. CASE MemData(config) = None
  BY <1>1 DEF MemAlloc, Writes
<1>2. CASE MemData(config) # None
  <2>1. Writes(m, mapped, 0..5 \cup {8}, {})
    BY Mmapped
  <2>2. MemAlloc(config, m) = Load64(mapped, 19, W(MemBase(config)))
    BY <1>2 DEF MemAlloc
  <2> HIDE DEF mapped
  <2>3. IsMachine(mapped)
    BY <2>1 DEF Writes
  <2>4. Writes(mapped, MemAlloc(config, m), {19}, {})
    BY <2>2, <2>3, Loaded64
  <2> QED BY <1>2, <2>1, <2>4 DEF Writes
<1> QED BY <1>1, <1>2

LEMMA StackSet ==
  ASSUME NEW m, IsMachine(m), NEW sp \in SUBSET (0..63)
  PROVE  /\ Writes(m, SetStack(m, sp), 0..5 \cup {8, 20}, {})
         /\ SetStack(m, sp).sp = sp /\ SetStack(m, sp).mem = m.mem
<1> DEFINE mapped == Mmap(m, StackPages(Int31(sp)), \h8000)
           loaded == Load64(mapped, 20, sp)
<1>1. Writes(m, mapped, 0..5 \cup {8}, {}) /\ mapped.mem = m.mem
  BY Mmapped
<1>2. SetStack(m, sp) = [loaded EXCEPT !.sp = sp]
  BY DEF SetStack
<1> HIDE DEF mapped
<1>3. IsMachine(mapped)
  BY <1>1 DEF Writes
<1>4. Writes(mapped, loaded, {20}, {}) /\ loaded.mem = mapped.mem
  BY <1>3, Loaded64
<1> HIDE DEF loaded
<1>5. IsMachine(loaded)
  BY <1>4 DEF Writes
<1>6. /\ SetStack(m, sp).sp = sp /\ SetStack(m, sp).x = loaded.x
      /\ SetStack(m, sp).v = loaded.v /\ SetStack(m, sp).mem = loaded.mem
  BY <1>2, <1>5 DEF IsMachine
<1>7. IsMachine(SetStack(m, sp))
  BY <1>2, <1>5 DEF IsMachine
<1> QED BY <1>1, <1>4, <1>6, <1>7 DEF Writes

\* One vector register, by a literal that x9 holds the address of.
LEMMA LoadedVector ==
  ASSUME NEW m, IsMachine(m), NEW n \in 0..31, NEW a \in SUBSET (0..127)
  PROVE  LET done == Load64([m EXCEPT !.v[n] = a], 9, label)
         IN  /\ Writes(m, done, {9}, {n}) /\ done.v[n] = a
             /\ done.sp = m.sp /\ done.mem = m.mem
<1> DEFINE set == [m EXCEPT !.v[n] = a]
<1>1. Writes(m, set, {}, {n}) /\ set.v[n] = a /\ set.sp = m.sp /\ set.mem = m.mem
  BY DEF IsMachine, Writes
<1> HIDE DEF set
<1>2. IsMachine(set)
  BY <1>1 DEF Writes
<1>3. /\ Writes(set, Load64(set, 9, label), {9}, {})
      /\ Load64(set, 9, label).sp = set.sp /\ Load64(set, 9, label).mem = set.mem
  BY <1>2, Loaded64
<1> QED BY <1>1, <1>3 DEF Writes, set

\* An entry of SetRegData sets the register it names, and no other but those
\* the harness needs for it.
LEMMA RegisterSet ==
  ASSUME NEW m, IsMachine(m), NEW name \in RegisterNames, NEW a
  PROVE  LET done == SetRegister(m, name, a)
             n == Register[name].n
         IN  /\ done.mem = m.mem
             /\ name \in DOMAIN Gprs => Writes(m, done, {n}, {}) /\ done.sp = m.sp
             /\ name \in DOMAIN Scalars => Writes(m, done, {9}, {n}) /\ done.sp = m.sp
             /\ name = "SP" => Writes(m, done, 0..5 \cup {8, 20}, {})
             /\ Read(done, Register[name]) = Low(a) \cap Mask(Register[name].w)
<1> DEFINE done == SetRegister(m, name, a)
<1>0. Mask(64) = 0..63 /\ Mask(32) \subseteq 0..63 /\ Low(a) = a \cap (0..63)
  BY DEF Low, Mask
<1>1. CASE name = "SP"
  <2>1. done = SetStack(m, Low(a))
    BY <1>1, NamesOK DEF SetRegister, SP
  <2>2. Writes(m, done, 0..5 \cup {8, 20}, {}) /\ done.sp = Low(a) /\ done.mem = m.mem
    <3> HIDE DEF done
    <3>1. Low(a) \in SUBSET (0..63)
      BY Words64
    <3> QED BY <2>1, <3>1, StackSet
  <2>3. Read(done, Register[name]) = Low(a)
    BY <1>1, <2>2, ReadAny, NamesOK
  <2>4. Register[name].w = 64
    BY <1>1, NamesOK DEF SP
  <2> QED BY <1>0, <1>1, <2>2, <2>3, <2>4, NamesApart
<1>2. ASSUME NEW n \in 0..30, name = Numbered("X", n) \/ name = Numbered("W", n)
      PROVE  /\ Writes(m, done, {n}, {}) /\ done.sp = m.sp /\ done.mem = m.mem
             /\ Register[name].n = n
             /\ Read(done, Register[name]) = Low(a) \cap Mask(Register[name].w)
  <2>1. /\ Register[name] \in {X(n), R(n)} /\ Register[name].k = "r" /\ Register[name].n = n
        /\ Register[name].w \in {32, 64}
    BY <1>2, NamesOK DEF X, R
  <2>2. done = Load64(m, n, a \cap Mask(Register[name].w))
    BY <2>1 DEF SetRegister
  <2>3. /\ Writes(m, done, {n}, {}) /\ done.sp = m.sp /\ done.mem = m.mem
        /\ done.x[n] = Low(a \cap Mask(Register[name].w))
    <3> DEFINE b == a \cap Mask(Register[name].w)
    <3> HIDE DEF done, b
    <3>1. done = Load64(m, n, b)
      BY <2>2 DEF b
    <3>2. /\ Writes(m, Load64(m, n, b), {n}, {}) /\ Load64(m, n, b).x[n] = Low(b)
          /\ Load64(m, n, b).sp = m.sp /\ Load64(m, n, b).mem = m.mem
      BY Loaded64
    <3> QED BY <3>1, <3>2 DEF b
  <2>4. Read(done, X(n)) = done.x[n] /\ Read(done, R(n)) = done.x[n] \cap Mask(32)
    <3>1. IsMachine(done)
      BY <2>3 DEF Writes
    <3> HIDE DEF done
    <3> QED BY <3>1, ReadNames, ReadAny
  <2>5. Read(done, Register[name]) = Low(a) \cap Mask(Register[name].w)
    <3>1. CASE Register[name] = X(n)
      BY <1>0, <2>3, <2>4, <3>1 DEF Low, X
    <3>2. CASE Register[name] = R(n)
      BY <1>0, <2>3, <2>4, <3>2 DEF Low, R
    <3> QED BY <2>1, <3>1, <3>2
  <2> QED BY <2>1, <2>3, <2>5
<1>3. ASSUME NEW n \in 0..31, name = Numbered("S", n) \/ name = Numbered("D", n)
      PROVE  /\ Writes(m, done, {9}, {n}) /\ done.sp = m.sp /\ done.mem = m.mem
             /\ Register[name].n = n
             /\ Read(done, Register[name]) = Low(a) \cap Mask(Register[name].w)
  <2>1. /\ Register[name] \in {S(n), D(n)} /\ Register[name].k = "f" /\ Register[name].n = n
        /\ Register[name].w \in {32, 64}
    BY <1>3, NamesOK DEF S, D
  <2> DEFINE b == a \cap Mask(Register[name].w)
  <2>2. b \in SUBSET (0..63) /\ b \in SUBSET (0..127)
    BY <1>0, <2>1
  <2>3. done = Load64([m EXCEPT !.v[n] = b], 9, label)
    BY <2>1 DEF SetRegister
  <2>4. /\ Writes(m, done, {9}, {n}) /\ done.sp = m.sp /\ done.mem = m.mem
        /\ done.v[n] = b
    <3> HIDE DEF b, done
    <3> QED BY <2>2, <2>3, LoadedVector
  <2>5. Read(done, S(n)) = done.v[n] \cap Mask(32) /\ Read(done, D(n)) = Low(done.v[n])
    BY ReadAny
  <2>6. Read(done, Register[name]) = Low(a) \cap Mask(Register[name].w)
    <3>1. CASE Register[name] = S(n)
      BY <1>0, <2>4, <2>5, <3>1 DEF Low, S
    <3>2. CASE Register[name] = D(n)
      BY <1>0, <2>4, <2>5, <3>2 DEF Low, D
    <3> QED BY <2>1, <3>1, <3>2
  <2> QED BY <2>1, <2>4, <2>6
<1> HIDE DEF done
<1>4. CASE \E n \in 0..30 : name = Numbered("X", n) \/ name = Numbered("W", n)
  <2>1. name \in DOMAIN Gprs /\ name \notin DOMAIN Scalars /\ name # "SP"
    BY <1>4, NameSets, NamesApart
  <2> QED BY <1>2, <1>4, <2>1 DEF done
<1>5. CASE \E n \in 0..31 : name = Numbered("S", n) \/ name = Numbered("D", n)
  <2>1. name \in DOMAIN Scalars /\ name \notin DOMAIN Gprs /\ name # "SP"
    BY <1>5, NameSets, NamesApart
  <2> QED BY <1>3, <1>5, <2>1 DEF done
<1> QED BY <1>1, <1>4, <1>5, NameKinds

\* An entry of SetVecData sets the vector it names.
LEMMA VectorSet ==
  ASSUME NEW m, IsMachine(m), NEW name \in DOMAIN Vectors, NEW literals
  PROVE  LET done == SetVector(m, name, literals)
         IN  /\ Writes(m, done, {9}, {Register[name].n})
             /\ done.sp = m.sp /\ done.mem = m.mem
             /\ Read(done, Register[name]) = Pair(Low(literals[1]), Low(literals[2]))
<1> DEFINE done == SetVector(m, name, literals)
           a == Pair(Low(literals[1]), Low(literals[2]))
<1>1. PICK n \in 0..31 : name = Numbered("V", n) \/ name = Numbered("Q", n)
  BY NameKinds
<1>2. Register[name] = V(n, 64) /\ Register[name].n = n
  BY <1>1, NamesOK DEF V
<1>3. a \in SUBSET (0..127)
  BY Words64, Halves
<1>4. done = Load64([m EXCEPT !.v[n] = a], 9, label)
  BY <1>2 DEF SetVector
<1> HIDE DEF a
<1>5. Writes(m, done, {9}, {n}) /\ done.v[n] = a /\ done.sp = m.sp /\ done.mem = m.mem
  <2> HIDE DEF done
  <2> QED BY <1>3, <1>4, LoadedVector
<1>6. Read(done, V(n, 64)) = done.v[n]
  BY ReadAny
<1> QED BY <1>2, <1>5, <1>6 DEF a

LEMMA ElementOf ==
  ASSUME NEW set, NEW s \in Seq(set), NEW i \in 1..Len(s)
  PROVE  s[i] \in set /\ Len(s) \in Nat
OBVIOUS

\* A pair of words is in the memory when it was copied, an odd last one too, and
\* nothing else of the memory is changed.
LEMMA Copied ==
  ASSUME NEW m, IsMachine(m), NEW words \in Seq(SUBSET (0..63)), NEW i \in Pairs(words),
         NEW at \in Int, NEW base
  PROVE  LET done == Copy(m, words, i, at, base)
         IN  /\ Writes(m, done, {9, 10, 11}, {}) /\ done.sp = m.sp
             /\ Load(done, at, 8) = words[i]
             /\ i + 1 \in 1..Len(words) => Load(done, at + 8, 8) = words[i + 1]
             /\ \A to \in Int :
                  /\ to \notin (at - 7)..(at + 7)
                  /\ i + 1 \in 1..Len(words) => to \notin (at + 1)..(at + 15)
                  => Load(done, to, 8) = Load(m, to, 8)
<1> DEFINE done == Copy(m, words, i, at, base)
           stored == Store(m, at, words[i], 8)
           loaded == Load64(stored, 10, words[i])
           one == Load64(loaded, 9, base)
           next == at + 8
           second == Store(one, next, words[i + 1], 8)
<1>1. i \in 1..Len(words) /\ words[i] \in SUBSET (0..63) /\ next \in Int
  <2>1. i \in 1..Len(words) /\ next \in Int
    BY DEF Pairs
  <2> QED BY <2>1, ElementOf
<1>2. /\ IsMachine(stored) /\ stored.x = m.x /\ stored.v = m.v /\ stored.sp = m.sp
      /\ Load(stored, at, 8) = words[i]
      /\ \A to \in Int : to \notin (at - 7)..(at + 7) => Load(stored, to, 8) = Load(m, to, 8)
  <2>1. /\ IsMachine(stored) /\ stored.x = m.x /\ stored.v = m.v /\ stored.sp = m.sp
    BY Stored, Zenon
  <2>2. Load(stored, at, 8) = words[i]
    BY <1>1, LoadStored
  <2>3. ASSUME NEW to \in Int, to \notin (at - 7)..(at + 7)
        PROVE  at \notin (to - 7)..(to + 7)
    BY <2>3
  <2>4. ASSUME NEW to \in Int, to \notin (at - 7)..(at + 7)
        PROVE  Load(stored, to, 8) = Load(m, to, 8)
    BY <2>3, <2>4, LoadElsewhere, Zenon
  <2> QED BY <2>1, <2>2, <2>4
<1> HIDE DEF stored
<1>3. Writes(stored, loaded, {10}, {}) /\ loaded.sp = stored.sp /\ loaded.mem = stored.mem
  BY <1>2, Loaded64
<1> HIDE DEF loaded
<1>4. Writes(loaded, one, {9}, {}) /\ one.sp = loaded.sp /\ one.mem = loaded.mem
  <2>1. IsMachine(loaded)
    BY <1>3 DEF Writes
  <2> QED BY <2>1, Loaded64
<1>5. Writes(m, one, {9, 10}, {}) /\ one.sp = m.sp
  BY <1>2, <1>3, <1>4 DEF Writes
<1>6. \A to : Load(one, to, 8) = Load(stored, to, 8)
  BY <1>3, <1>4, LoadSame
<1> HIDE DEF one
<1>7. IsMachine(one)
  BY <1>5 DEF Writes
<1>8. CASE i = Len(words)
  <2>1. done = one
    BY <1>8 DEF Copy, one, loaded, stored
  <2>2. i + 1 \notin 1..Len(words)
    BY <1>1, <1>8
  <2> HIDE DEF done
  <2>3. Writes(m, done, {9, 10, 11}, {}) /\ done.sp = m.sp
    BY <1>5, <2>1 DEF Writes
  <2> QED BY <1>2, <1>6, <2>1, <2>2, <2>3 DEF done
<1>9. CASE i # Len(words)
  <2>1. i + 1 \in 1..Len(words) /\ words[i + 1] \in SUBSET (0..63)
    <3>1. i + 1 \in 1..Len(words)
      BY <1>1, <1>9, ElementOf
    <3> QED BY <3>1, ElementOf
  <2>2. /\ IsMachine(second) /\ second.x = one.x /\ second.v = one.v /\ second.sp = one.sp
    BY <1>1, <1>7, Stored, Zenon
  <2>3. Load(second, next, 8) = words[i + 1]
    BY <1>1, <1>7, <2>1, LoadStored
  <2>4. ASSUME NEW to \in Int, to \notin (at + 1)..(at + 15)
        PROVE  Load(second, to, 8) = Load(one, to, 8)
    <3>1. next \notin (to - 7)..(to + 7)
      BY <2>4
    <3> HIDE DEF next, second
    <3> QED BY <1>1, <1>7, <3>1, LoadElsewhere DEF second
  <2>5. at \in Int /\ at \notin (at + 1)..(at + 15)
    OBVIOUS
  <2>6. done = Load64(second, 11, words[i + 1])
    BY <1>9 DEF Copy, one, loaded, stored
  <2> HIDE DEF second, done
  <2>7. Writes(second, done, {11}, {}) /\ done.sp = second.sp /\ done.mem = second.mem
    BY <2>2, <2>6, Loaded64
  <2>8. \A to : Load(done, to, 8) = Load(second, to, 8)
    BY <2>7, LoadSame
  <2>9. Writes(m, done, {9, 10, 11}, {}) /\ done.sp = m.sp
    BY <1>5, <2>2, <2>7 DEF Writes
  <2>10. Load(done, at, 8) = words[i]
    BY <1>2, <1>6, <2>4, <2>5, <2>8
  <2>11. Load(done, next, 8) = words[i + 1]
    BY <2>3, <2>8
  <2>12. ASSUME NEW to \in Int, to \notin (at - 7)..(at + 7), to \notin (at + 1)..(at + 15)
         PROVE  Load(done, to, 8) = Load(m, to, 8)
    BY <1>2, <1>6, <2>4, <2>8, <2>12
  <2> QED BY <2>1, <2>9, <2>10, <2>11, <2>12 DEF done
<1> QED BY <1>8, <1>9

-----------------------------------------------------------------------------
(* The registers on the JIT. *)

LEMMA Overlaid ==
  ASSUME NEW f, NEW g, NEW key
  PROVE  /\ key \in DOMAIN Over(f, g) <=> key \in DOMAIN f \cup DOMAIN g
         /\ key \in DOMAIN f => Over(f, g)[key] = f[key]
         /\ key \in DOMAIN g /\ key \notin DOMAIN f => Over(f, g)[key] = g[key]
BY DEF Over

LEMMA WordsAt ==
  ASSUME NEW data, NEW key
  PROVE  /\ key \in DOMAIN Words(data) <=> key \in DOMAIN data /\ key \notin DOMAIN Vectors
         /\ key \in DOMAIN Words(data) => Words(data)[key] = ParseUint64(data[key])
BY DEF Words

LEMMA VecsAt ==
  ASSUME NEW data, NEW key
  PROVE  /\ key \in DOMAIN Vecs(data) <=> key \in DOMAIN data /\ Len(data[key]) >= 2
         /\ key \in DOMAIN Vecs(data) => Vecs(data)[key] = ParseVecPair(data[key])
BY DEF Vecs

\* What is the first name that is given, of one or two.
LEMMA Second ==
  ASSUME NEW a, NEW b, NEW data, a \notin DOMAIN data, b \in DOMAIN data
  PROVE  FirstOf(<<a, b>>, data) = data[b]
<1>1. Min({2}) = 2
  BY DEF Min
<1> DEFINE names == <<a, b>>
           given == {i \in DOMAIN names : names[i] \in DOMAIN data}
<1>2. DOMAIN names = {1, 2} /\ names[1] = a /\ names[2] = b
  OBVIOUS
<1>3. given = {2}
  BY <1>2
<1> QED BY <1>1, <1>2, <1>3 DEF FirstOf

LEMMA First ==
  ASSUME NEW a, NEW b, NEW data
  PROVE  /\ a \in DOMAIN data => FirstOf(<<a>>, data) = data[a]
         /\ a \notin DOMAIN data => FirstOf(<<a>>, data) = {}
         /\ a \in DOMAIN data /\ b \notin DOMAIN data => FirstOf(<<a, b>>, data) = data[a]
         /\ a \notin DOMAIN data /\ b \notin DOMAIN data => FirstOf(<<a, b>>, data) = {}
<1>1. Min({1}) = 1
  BY DEF Min
<1> DEFINE given(names) == {i \in DOMAIN names : names[i] \in DOMAIN data}
<1>2. DOMAIN <<a>> = {1} /\ DOMAIN <<a, b>> = {1, 2}
  OBVIOUS
<1>3. /\ <<a>>[1] = a /\ <<a, b>>[1] = a /\ <<a, b>>[2] = b
  OBVIOUS
<1>4. CASE a \in DOMAIN data /\ b \notin DOMAIN data
  <2>1. given(<<a>>) = {1} /\ given(<<a, b>>) = {1}
    BY <1>2, <1>3, <1>4
  <2> QED BY <1>1, <1>3, <1>4, <2>1 DEF FirstOf
<1>5. CASE a \in DOMAIN data /\ b \in DOMAIN data
  <2>1. given(<<a>>) = {1}
    BY <1>2, <1>3, <1>5
  <2> QED BY <1>1, <1>3, <1>5, <2>1 DEF FirstOf
<1>6. CASE a \notin DOMAIN data /\ b \in DOMAIN data
  <2>1. given(<<a>>) = {}
    BY <1>2, <1>3, <1>6
  <2> QED BY <1>6, <2>1 DEF FirstOf
<1>7. CASE a \notin DOMAIN data /\ b \notin DOMAIN data
  <2>1. given(<<a>>) = {} /\ given(<<a, b>>) = {}
    BY <1>2, <1>3, <1>7
  <2> QED BY <1>7, <2>1 DEF FirstOf
<1> QED BY <1>4, <1>5, <1>6, <1>7

\* What the oracle sets is among what the JIT's runner sets, with that value.
LEMMA InitRegs ==
  ASSUME NEW config, NEW name \in SetRegs(config)
  PROVE  /\ name \in DOMAIN init_regs(config)
         /\ init_regs(config)[name] = ParseUint64(QemuInit(config)[name])
<1> DEFINE set == Get(config, "SetRegData", None)
           legacy == Get(config, "RegData", None)
<1>1. name \in DOMAIN QemuInit(config) /\ name \notin DOMAIN Vectors
  BY DEF SetRegs, RegisterNames
<1>2. init_regs(config) = Over(Words(set), Words(legacy))
  BY DEF init_regs
<1>3. CASE "SetRegData" \in DOMAIN config
  <2>1. QemuInit(config) = set
    BY <1>3 DEF QemuInit, Get
  <2> HIDE DEF set, legacy
  <2>2. name \in DOMAIN Words(set) /\ Words(set)[name] = ParseUint64(set[name])
    BY <1>1, <2>1, WordsAt
  <2> QED BY <1>2, <2>1, <2>2, Overlaid
<1>4. CASE "SetRegData" \notin DOMAIN config
  <2>1. QemuInit(config) = legacy /\ DOMAIN set = {}
    BY <1>4 DEF QemuInit, Get, None
  <2> HIDE DEF set, legacy
  <2>2. /\ name \in DOMAIN Words(legacy) /\ Words(legacy)[name] = ParseUint64(legacy[name])
        /\ name \notin DOMAIN Words(set)
    BY <1>1, <2>1, WordsAt
  <2> QED BY <1>2, <2>1, <2>2, Overlaid
<1> QED BY <1>3, <1>4

LEMMA InitVecs ==
  ASSUME NEW config, NEW name \in SetVecs(config), Len(QemuInitVecs(config)[name]) >= 2
  PROVE  /\ name \in DOMAIN init_vecs(config)
         /\ init_vecs(config)[name] = ParseVecPair(QemuInitVecs(config)[name])
<1> DEFINE set == Get(config, "SetVecData", None)
           legacy == Get(config, "VecData", None)
           quads == Quads(Get(config, "RegData", None))
<1>1. name \in DOMAIN QemuInitVecs(config)
  BY DEF SetVecs
<1>2. init_vecs(config) = Over(Vecs(set), Over(Vecs(legacy), quads))
  BY DEF init_vecs
<1>3. CASE "SetVecData" \in DOMAIN config
  <2>1. QemuInitVecs(config) = set
    BY <1>3 DEF QemuInitVecs, Get
  <2> HIDE DEF set, legacy, quads
  <2>2. name \in DOMAIN Vecs(set) /\ Vecs(set)[name] = ParseVecPair(set[name])
    BY <1>1, <2>1, VecsAt
  <2> QED BY <1>2, <2>1, <2>2, Overlaid
<1>4. CASE "SetVecData" \notin DOMAIN config
  <2>1. QemuInitVecs(config) = legacy /\ DOMAIN set = {}
    BY <1>4 DEF QemuInitVecs, Get, None
  <2> HIDE DEF set, legacy, quads
  <2>2. /\ name \in DOMAIN Vecs(legacy) /\ Vecs(legacy)[name] = ParseVecPair(legacy[name])
        /\ name \notin DOMAIN Vecs(set)
    BY <1>1, <2>1, VecsAt
  <2>3. /\ name \in DOMAIN Over(Vecs(legacy), quads)
        /\ Over(Vecs(legacy), quads)[name] = Vecs(legacy)[name]
    BY <2>2, Overlaid
  <2> QED BY <1>2, <2>1, <2>2, <2>3, Overlaid
<1> QED BY <1>3, <1>4

-----------------------------------------------------------------------------
(* Where a test begins. *)

LEMMA StartFields ==
  ASSUME NEW c
  PROVE  LET d == DynarmicStart(c)
             regs == init_regs(c)
             vecs == init_vecs(c)
         IN  /\ \A n \in 0..30 :
                  d.x[n] = IF Numbered("X", n) \in DOMAIN regs THEN regs[Numbered("X", n)]
                           ELSE FirstOf(<<Numbered("W", n)>>, regs) \cap Mask(32)
             /\ \A n \in 0..31 :
                  d.v[n] = IF {Numbered("V", n), Numbered("Q", n)} \cap DOMAIN vecs # {}
                           THEN FirstOf(<<Numbered("V", n), Numbered("Q", n)>>, vecs)
                           ELSE FirstOf(<<Numbered("S", n), Numbered("D", n)>>, regs)
             /\ d.sp = IF "SP" \in DOMAIN regs THEN regs["SP"] ELSE DynarmicStack
BY DEF DynarmicStart, Machine

\* The first of some names is none of them or one of them.
LEMMA FirstIn ==
  ASSUME NEW names, DOMAIN names \subseteq Nat, NEW data
  PROVE  FirstOf(names, data) = {} \/ \E key \in DOMAIN data : FirstOf(names, data) = data[key]
<1> DEFINE given == {i \in DOMAIN names : names[i] \in DOMAIN data}
<1>1. FirstOf(names, data) = IF given = {} THEN {} ELSE data[names[Min(given)]]
  BY DEF FirstOf
<1>2. given \subseteq Nat /\ \A i \in given : names[i] \in DOMAIN data
  OBVIOUS
<1> HIDE DEF given
<1>3. CASE given = {}
  BY <1>1, <1>3
<1>4. CASE given # {}
  <2>1. Min(given) \in given
    BY <1>2, <1>4, Least
  <2> QED BY <1>1, <1>2, <1>4, <2>1
<1> QED BY <1>3, <1>4

\* Whatever the literals of a CONFIG, Dynarmic starts with words in its registers.
LEMMA DynarmicTyped ==
  ASSUME NEW c
  PROVE  IsMachine(DynarmicStart(c)) /\ DynarmicStart(c).pc = 1
<1> DEFINE regs == init_regs(c)
           vecs == init_vecs(c)
           d == DynarmicStart(c)
<1>1. \A a : ParseUint64(a) \in SUBSET (0..63)
  <2> TAKE a
  <2>1. Low(a) \in SUBSET (0..63)
    BY Words64
  <2> QED BY <2>1 DEF ParseUint64
<1>2. \A l : ParseVecPair(l) \in SUBSET (0..127)
  BY <1>1, Halves DEF ParseVecPair
<1>3. \A name \in DOMAIN regs : regs[name] \in SUBSET (0..63)
  <2>1. \A data : \A name \in DOMAIN Words(data) : Words(data)[name] \in SUBSET (0..63)
    BY <1>1, WordsAt
  <2> DEFINE set == Words(Get(c, "SetRegData", None))
             legacy == Words(Get(c, "RegData", None))
  <2>2. /\ \A name \in DOMAIN set : set[name] \in SUBSET (0..63)
        /\ \A name \in DOMAIN legacy : legacy[name] \in SUBSET (0..63)
    BY <2>1
  <2>3. regs = Over(set, legacy)
    BY DEF init_regs
  <2> HIDE DEF set, legacy, regs
  <2> QED BY <2>2, <2>3, Overlaid
<1>4. \A name \in DOMAIN vecs : vecs[name] \in SUBSET (0..127)
  <2>1. \A data : \A name \in DOMAIN Vecs(data) : Vecs(data)[name] \in SUBSET (0..127)
    BY <1>2, VecsAt
  <2>2. \A data : \A name \in DOMAIN Quads(data) : Quads(data)[name] \in SUBSET (0..127)
    BY <1>2 DEF Quads
  <2> DEFINE set == Vecs(Get(c, "SetVecData", None))
             legacy == Vecs(Get(c, "VecData", None))
             quads == Quads(Get(c, "RegData", None))
  <2>3. /\ \A name \in DOMAIN set : set[name] \in SUBSET (0..127)
        /\ \A name \in DOMAIN legacy : legacy[name] \in SUBSET (0..127)
        /\ \A name \in DOMAIN quads : quads[name] \in SUBSET (0..127)
    BY <2>1, <2>2
  <2>4. vecs = Over(set, Over(legacy, quads))
    BY DEF init_vecs
  <2> HIDE DEF set, legacy, quads, vecs
  <2>5. \A name \in DOMAIN Over(legacy, quads) : Over(legacy, quads)[name] \in SUBSET (0..127)
    BY <2>3, Overlaid
  <2> QED BY <2>3, <2>4, <2>5, Overlaid
<1> HIDE DEF regs, vecs
<1>5. \A a, b : /\ FirstOf(<<a>>, regs) \in SUBSET (0..63) /\ FirstOf(<<a, b>>, regs) \in SUBSET (0..63)
                /\ FirstOf(<<a, b>>, vecs) \in SUBSET (0..127)
  <2> TAKE a, b
  <2>1. DOMAIN <<a>> \subseteq Nat /\ DOMAIN <<a, b>> \subseteq Nat
    OBVIOUS
  <2> QED BY <1>3, <1>4, <2>1, FirstIn
<1> DEFINE x == [n \in 0..30 |-> IF Numbered("X", n) \in DOMAIN regs THEN regs[Numbered("X", n)]
                                ELSE FirstOf(<<Numbered("W", n)>>, regs) \cap Mask(32)]
           v == [n \in 0..31 |-> IF {Numbered("V", n), Numbered("Q", n)} \cap DOMAIN vecs # {}
                                THEN FirstOf(<<Numbered("V", n), Numbered("Q", n)>>, vecs)
                                ELSE FirstOf(<<Numbered("S", n), Numbered("D", n)>>, regs)]
           sp == IF "SP" \in DOMAIN regs THEN regs["SP"] ELSE DynarmicStack
           fpcr == Status(c, "SetFpcr", {})
           fpsr == Status(c, "SetFpsr", {})
           flags == FlagsOf(Status(c, "SetPstate", {30}))
<1>6. d = [Machine(x, sp, v, flags) EXCEPT !.fpcr = fpcr, !.fpsr = fpsr]
  BY DEF DynarmicStart, regs, vecs
<1>7. x \in [0..30 -> SUBSET (0..63)]
  <2>1. \A a, b : FirstOf(<<a>>, regs) \cap b \in SUBSET (0..63)
    BY <1>5
  <2> QED BY <1>3, <2>1
<1>8. v \in [0..31 -> SUBSET (0..127)]
  <2>1. \A a, b : FirstOf(<<a, b>>, regs) \in SUBSET (0..127)
    <3>1. 0..63 \subseteq 0..127
      OBVIOUS
    <3> QED BY <1>5, <3>1
  <2> QED BY <1>5, <2>1
<1>9. sp \in SUBSET (0..63)
  BY <1>3, Words64 DEF DynarmicStack
<1> HIDE DEF x, v, sp, d, fpcr, fpsr, flags
<1>10. IsMachine(d) /\ d.pc = 1
  BY <1>6, <1>7, <1>8, <1>9 DEF Machine, IsMachine
<1> QED BY <1>10 DEF d

\* The oracle's program starts with words in its registers, and an entry of
\* SetRegData or SetVecData leaves words.
LEMMA EntryTyped ==
  ASSUME NEW c, NEW item \in Items(c), item[1] \in {"reg", "vec"}, NEW g, IsMachine(g)
  PROVE  IsMachine(Do(c, item, g))
<1>1. CASE item[1] = "reg"
  <2>1. item[2] \in RegisterNames
    BY <1>1 DEF Items, SetRegs
  <2>2. item[2] \in DOMAIN Gprs \cup DOMAIN Scalars \cup {"SP"}
    BY <2>1, NamesOK DEF RegisterNames
  <2> DEFINE done == SetRegister(g, item[2], QemuInit(c)[item[2]])
  <2>3. \E xs, vs : Writes(g, done, xs, vs)
    BY <2>1, <2>2, RegisterSet
  <2>4. Do(c, item, g) = done
    BY <1>1 DEF Do
  <2> HIDE DEF done
  <2> QED BY <2>3, <2>4 DEF Writes
<1>2. CASE item[1] = "vec"
  <2>1. item[2] \in DOMAIN Vectors
    BY <1>2 DEF Items, SetVecs
  <2> DEFINE done == SetVector(g, item[2], QemuInitVecs(c)[item[2]])
  <2>2. Writes(g, done, {9}, {Register[item[2]].n})
    BY <2>1, VectorSet
  <2>3. Do(c, item, g) = done
    BY <1>2 DEF Do
  <2> HIDE DEF done
  <2> QED BY <2>2, <2>3 DEF Writes
<1> QED BY <1>1, <1>2

LEMMA EntryState ==
  /\ IsMachine(QemuEntry) /\ QemuEntry.pc = 1
  /\ \A n \in 0..30 : n # 0 => QemuEntry.x[n] = {}
  /\ \A n \in 0..31 : QemuEntry.v[n] = {}
<1>1. W(tls_area) \in SUBSET (0..63) /\ QemuStack \in SUBSET (0..63)
  BY Words64 DEF QemuStack
<1> DEFINE x == [n \in 0..30 |-> IF n = 0 THEN W(tls_area) ELSE {}]
           v == [n \in 0..31 |-> {}]
<1>2. x \in [0..30 -> SUBSET (0..63)] /\ v \in [0..31 -> SUBSET (0..127)]
  BY <1>1
<1>3. (\A n \in 0..30 : n # 0 => x[n] = {}) /\ (\A n \in 0..31 : v[n] = {})
  OBVIOUS
<1>4. QemuEntry = Machine(x, QemuStack, v, {})
  BY DEF QemuEntry
<1> HIDE DEF x, v
<1>5. /\ QemuEntry.x = x /\ QemuEntry.v = v /\ QemuEntry.pc = 1
      /\ IsMachine(QemuEntry)
  BY <1>1, <1>2, <1>4 DEF Machine, IsMachine
<1> QED BY <1>3, <1>5

\* No piece of the program moves the guest to an instruction of the test.
LEMMA PcKept ==
  ASSUME NEW c, NEW item \in Items(c), NEW g, IsMachine(g)
  PROVE  Do(c, item, g).pc = g.pc
<1> DEFINE Pc(done) == "pc" \in DOMAIN done /\ done.pc = g.pc
<1>1. Pc(g)
  BY DEF IsMachine
<1>2. ASSUME NEW d, Pc(d), NEW y, NEW z
      PROVE  /\ Pc([d EXCEPT !.x = y]) /\ Pc([d EXCEPT !.sp = y])
             /\ Pc([d EXCEPT !.v = y]) /\ Pc([d EXCEPT !.mem = y, !.monitor = z])
  BY <1>2
<1> HIDE DEF Pc
<1>3. ASSUME NEW d, Pc(d), NEW n, NEW a PROVE Pc(Load64(d, n, a))
  <2>1. Load64(d, n, a) = [d EXCEPT !.x = [d.x EXCEPT ![n] = Low(a)]]
    BY DEF Load64
  <2>2. Pc([d EXCEPT !.x = [d.x EXCEPT ![n] = Low(a)]])
    BY <1>2, <1>3
  <2> QED BY <2>1, <2>2, Zenon
<1>4. ASSUME NEW d, Pc(d), NEW at, NEW a, NEW n PROVE Pc(Store(d, at, a, n))
  BY <1>2, <1>4 DEF Store
<1>5. ASSUME NEW d, Pc(d), NEW base, NEW size PROVE Pc(Mmap(d, base, size))
  <2> DEFINE x == [d.x EXCEPT ![0] = W(base), ![1] = W(size), ![2] = W(3), ![3] = W(50),
                              ![4] = W(-1), ![5] = W(0), ![8] = W(222)]
  <2>1. Mmap(d, base, size) = [d EXCEPT !.x = x]
    BY DEF Mmap
  <2> HIDE DEF x
  <2>2. Pc([d EXCEPT !.x = x])
    BY <1>2, <1>5
  <2> QED BY <2>1, <2>2, Zenon
<1>6. ASSUME NEW n, NEW a, NEW at, NEW b PROVE Pc(Load64([g EXCEPT !.v[n] = a], at, b))
  <2>1. [g EXCEPT !.v[n] = a] = [g EXCEPT !.v = [g.v EXCEPT ![n] = a]]
    OBVIOUS
  <2>2. Pc([g EXCEPT !.v[n] = a])
    BY <1>1, <1>2, <2>1
  <2> QED BY <1>3, <2>2
<1>7. ASSUME NEW words, NEW i, NEW at, NEW base PROVE Pc(Copy(g, words, i, at, base))
  <2> DEFINE one == Load64(Load64(Store(g, at, words[i], 8), 10, words[i]), 9, base)
  <2>1. Pc(one)
    BY <1>1, <1>3, <1>4
  <2> HIDE DEF one
  <2>2. Pc(Load64(Store(one, at + 8, words[i + 1], 8), 11, words[i + 1]))
    BY <1>3, <1>4, <2>1
  <2> QED BY <2>1, <2>2 DEF Copy, one
<1>8. ASSUME NEW sp PROVE Pc(SetStack(g, sp))
  <2> DEFINE loaded == Load64(Mmap(g, StackPages(Int31(sp)), \h8000), 20, sp)
  <2>1. Pc(loaded)
    BY <1>1, <1>3, <1>5
  <2> HIDE DEF loaded
  <2>2. Pc([loaded EXCEPT !.sp = sp])
    BY <1>2, <2>1
  <2> QED BY <2>2 DEF SetStack, loaded
<1>9. ASSUME NEW name \in RegisterNames, NEW a PROVE Pc(SetRegister(g, name, a))
  <2>1. Register[name].k \in {"r", "sp", "f"}
    <3>1. name \in DOMAIN Gprs \cup DOMAIN Scalars \cup {"SP"}
      BY NamesOK DEF RegisterNames
    <3> QED BY <3>1, NamesApart
  <2>2. CASE Register[name].k = "r"
    BY <1>1, <1>3, <2>2 DEF SetRegister
  <2>3. CASE Register[name].k = "sp"
    BY <1>8, <2>3 DEF SetRegister
  <2>4. CASE Register[name].k = "f"
    BY <1>6, <2>4 DEF SetRegister
  <2> QED BY <2>1, <2>2, <2>3, <2>4
<1>10. CASE item[1] \in {"mem", "tls"}
  BY <1>7, <1>10 DEF Do, CopyMem, CopyTls, Pc
<1>11. CASE item[1] = "reg"
  <2>1. item[2] \in RegisterNames
    BY <1>11 DEF Items, SetRegs
  <2> QED BY <1>9, <1>11, <2>1 DEF Do, Pc
<1>12. CASE item[1] = "vec"
  BY <1>6, <1>12 DEF Do, SetVector, Pc
<1>13. item[1] \in {"mem", "tls", "reg", "vec"}
  BY DEF Items
<1> QED BY <1>10, <1>11, <1>12, <1>13

-----------------------------------------------------------------------------
(* What is printed, and what is read of it. *)

\* A line gives the value of the register it names, or a half of it; of a
\* vector both halves are printed.
LEMMA LineKinds ==
  ASSUME NEW config, NEW m, NEW l \in Lines(config, m)
  PROVE  \/ \E n \in 0..30 :
              l.name = Numbered("X", n) /\ l.part = 1 /\ l.value = Low(m.x[n])
         \/ l.name \in DOMAIN Scalars /\ l.part = 1 /\ l.value = Read(m, Register[l.name])
         \/ \E n \in 0..31 :
              /\ l.name = Numbered("Q", n)
              /\ l.part = 1 => l.value = High(m.v[n])
              /\ l.part = 2 => l.value = Low(m.v[n])
              /\ \E k \in Lines(config, m) : k.name = l.name /\ k.part = 1
              /\ \E k \in Lines(config, m) : k.name = l.name /\ k.part = 2
<1>1. ASSUME NEW entry, NEW name \in DOMAIN Vectors, QuadLines(m, entry, name) \subseteq Lines(config, m),
             l \in QuadLines(m, entry, name)
      PROVE  \E n \in 0..31 :
               /\ l.name = Numbered("Q", n)
               /\ l.part = 1 => l.value = High(m.v[n])
               /\ l.part = 2 => l.value = Low(m.v[n])
               /\ \E k \in Lines(config, m) : k.name = l.name /\ k.part = 1
               /\ \E k \in Lines(config, m) : k.name = l.name /\ k.part = 2
  <2> DEFINE n == Register[name].n
             high == Line(entry, 1, Numbered("Q", n), High(m.v[n]))
             low == Line(entry, 2, Numbered("Q", n), Low(m.v[n]))
  <2>1. n \in 0..31
    BY NamesApart
  <2>2. QuadLines(m, entry, name) = {high, low}
    BY DEF QuadLines, Name
  <2>3. /\ high.name = Numbered("Q", n) /\ high.part = 1 /\ high.value = High(m.v[n])
        /\ low.name = Numbered("Q", n) /\ low.part = 2 /\ low.value = Low(m.v[n])
    BY DEF Line
  <2> HIDE DEF high, low
  <2>4. high \in Lines(config, m) /\ low \in Lines(config, m) /\ l \in {high, low}
    BY <1>1, <2>2
  <2> HIDE DEF n
  <2>5. l.part = 1 => l.value = High(m.v[n])
    BY <2>3, <2>4
  <2>6. l.part = 2 => l.value = Low(m.v[n])
    BY <2>3, <2>4
  <2>7. l.name = Numbered("Q", n)
    BY <2>3, <2>4
  <2> QED BY <2>1, <2>3, <2>4, <2>5, <2>6, <2>7, Zenon
<1>2. CASE \E name \in DOMAIN QemuExpectedVecs(config) \cap DOMAIN Vectors :
             l \in QuadLines(m, <<"vec", name>>, name)
  <2>1. PICK name \in DOMAIN QemuExpectedVecs(config) \cap DOMAIN Vectors :
               l \in QuadLines(m, <<"vec", name>>, name)
    BY <1>2
  <2>2. QuadLines(m, <<"vec", name>>, name) \subseteq Lines(config, m)
    BY DEF Lines
  <2> QED BY <1>1, <2>1, <2>2
<1>3. CASE \E name \in DOMAIN QemuExpected(config) :
             l \in RegisterLines(m, <<"reg", name>>, name)
  <2>1. PICK name \in DOMAIN QemuExpected(config) :
               l \in RegisterLines(m, <<"reg", name>>, name)
    BY <1>3
  <2>2. RegisterLines(m, <<"reg", name>>, name) \subseteq Lines(config, m)
    BY DEF Lines
  <2>3. CASE name \in DOMAIN Vectors
    <3>1. /\ l \in QuadLines(m, <<"reg", name>>, name)
          /\ RegisterLines(m, <<"reg", name>>, name) = QuadLines(m, <<"reg", name>>, name)
      BY <2>1, <2>3 DEF RegisterLines
    <3> QED BY <1>1, <2>2, <2>3, <3>1
  <2>4. CASE name \in DOMAIN Gprs
    <3>1. l = Line(<<"reg", name>>, 1, Name("X", name), Low(m.x[Register[name].n]))
      BY <2>1, <2>4, NamesApart DEF RegisterLines
    <3>2. Register[name].n \in 0..30
      BY <2>4, NamesApart
    <3>3. l.name = Numbered("X", Register[name].n) /\ l.part = 1 /\ l.value = Low(m.x[Register[name].n])
      BY <3>1 DEF Line, Name
    <3> QED BY <3>2, <3>3
  <2>5. CASE name \in DOMAIN Scalars
    <3>1. l = Line(<<"reg", name>>, 1, name, Read(m, Register[name]))
      BY <2>1, <2>5, NamesApart DEF RegisterLines
    <3>2. l.name = name /\ l.part = 1 /\ l.value = Read(m, Register[name])
      BY <3>1 DEF Line
    <3> QED BY <2>5, <3>2
  <2>6. name \in DOMAIN Vectors \cup DOMAIN Gprs \cup DOMAIN Scalars
    BY <2>1 DEF RegisterLines
  <2> QED BY <2>3, <2>4, <2>5, <2>6
<1>4. \/ \E name \in DOMAIN QemuExpected(config) : l \in RegisterLines(m, <<"reg", name>>, name)
      \/ \E name \in DOMAIN QemuExpectedVecs(config) \cap DOMAIN Vectors :
           l \in QuadLines(m, <<"vec", name>>, name)
  BY DEF Lines
<1> QED BY <1>2, <1>3, <1>4, Zenon

\* The line that is read for a part of a register.
LineOf(lines, name, part) == CHOOSE l \in {k \in lines : k.name = name} : l.part = part

\* What is read for a name are the values of lines of that name.
LEMMA ActualAt ==
  ASSUME NEW lines, NEW name \in DOMAIN Actual(lines)
  PROVE  /\ \E l \in lines : l.name = name
         /\ name \in DOMAIN Vectors =>
              Actual(lines)[name] = Pair(LineOf(lines, name, 2).value, LineOf(lines, name, 1).value)
         /\ name \notin DOMAIN Vectors => Actual(lines)[name] = LineOf(lines, name, 1).value
BY DEF Actual, LineOf

\* A register that was read has the value that was read, and no other is read.
LEMMA Printed ==
  ASSUME NEW config, NEW m, NEW name \in DOMAIN Actual(Lines(config, m))
  PROVE  LET value == Actual(Lines(config, m))[name]
         IN  \/ \E n \in 0..30 : name = Numbered("X", n) /\ value = Low(m.x[n])
             \/ name \in DOMAIN Scalars /\ value = Read(m, Register[name])
             \/ \E n \in 0..31 : /\ name = Numbered("Q", n)
                                 /\ value = Pair(Low(m.v[n]), High(m.v[n]))
<1> DEFINE lines == Lines(config, m)
           value == Actual(lines)[name]
           read(part) == LineOf(lines, name, part)
           IsX(l) == \E n \in 0..30 :
                       l.name = Numbered("X", n) /\ l.part = 1 /\ l.value = Low(m.x[n])
           IsScalar(l) == l.name \in DOMAIN Scalars /\ l.part = 1 /\ l.value = Read(m, Register[l.name])
           IsQuad(l) == \E n \in 0..31 :
                          /\ l.name = Numbered("Q", n)
                          /\ l.part = 1 => l.value = High(m.v[n])
                          /\ l.part = 2 => l.value = Low(m.v[n])
                          /\ \E k \in lines : k.name = l.name /\ k.part = 1
                          /\ \E k \in lines : k.name = l.name /\ k.part = 2
<1>1. \A l \in lines : IsX(l) \/ IsScalar(l) \/ IsQuad(l)
  BY LineKinds, Zenon
<1>2. /\ \E l \in lines : l.name = name
      /\ name \in DOMAIN Vectors => value = Pair(read(2).value, read(1).value)
      /\ name \notin DOMAIN Vectors => value = read(1).value
  <2>1. name \in DOMAIN Actual(lines)
    OBVIOUS
  <2> HIDE DEF lines
  <2> QED BY <2>1, ActualAt
<1>3. ASSUME NEW part, \E l \in lines : l.name = name /\ l.part = part
      PROVE  read(part) \in lines /\ read(part).name = name /\ read(part).part = part
  <2> HIDE DEF lines
  <2> QED BY <1>3 DEF LineOf
<1> HIDE DEF lines, value, read
<1>4. PICK l \in lines : l.name = name
  BY <1>2
<1>5. CASE IsX(l) \/ IsScalar(l)
  <2>1. l.part = 1 /\ name \in DOMAIN Gprs \cup DOMAIN Scalars
    BY <1>4, <1>5, NameSets
  <2>2. name \notin DOMAIN Vectors
    BY <2>1, NamesApart
  <2>3. read(1) \in lines /\ read(1).name = name /\ value = read(1).value
    BY <1>2, <1>3, <1>4, <2>1, <2>2
  <2>4. ~IsQuad(read(1))
    BY <2>2, <2>3, NameSets
  <2> QED BY <1>1, <2>3, <2>4 DEF value, lines
<1>6. CASE IsQuad(l)
  <2>1. name \in DOMAIN Vectors
    BY <1>4, <1>6, NameSets
  <2>2. /\ read(1) \in lines /\ read(1).name = name /\ read(1).part = 1
        /\ read(2) \in lines /\ read(2).name = name /\ read(2).part = 2
    BY <1>3, <1>4, <1>6
  <2>3. ASSUME NEW k \in lines, k.name = name PROVE IsQuad(k)
    <3>1. ~IsX(k) /\ ~IsScalar(k)
      BY <2>1, <2>3, NameSets, NamesApart
    <3> HIDE DEF IsX, IsScalar, IsQuad
    <3> QED BY <1>1, <2>3, <3>1 DEF lines
  <2>4. PICK n \in 0..31 : name = Numbered("Q", n) /\ read(1).value = High(m.v[n])
    <3>1. IsQuad(read(1))
      BY <2>2, <2>3
    <3> QED BY <2>2, <3>1
  <2>5. PICK k \in 0..31 : name = Numbered("Q", k) /\ read(2).value = Low(m.v[k])
    <3>1. IsQuad(read(2))
      BY <2>2, <2>3
    <3> QED BY <2>2, <3>1
  <2>6. n = k
    BY <2>4, <2>5, NamesOK DEF V
  <2> QED BY <1>2, <2>1, <2>4, <2>5, <2>6 DEF value, lines
<1> QED BY <1>1, <1>4, <1>5, <1>6

\* The same, by the register: what is found under its name is its value.
LEMMA ReadBack ==
  ASSUME NEW config, NEW m
  PROVE  LET actual == Actual(Lines(config, m))
         IN  /\ \A n \in 0..30 : Numbered("X", n) \in DOMAIN actual =>
                  actual[Numbered("X", n)] = Low(m.x[n])
             /\ \A name \in DOMAIN Scalars : name \in DOMAIN actual =>
                  actual[name] = Read(m, Register[name])
             /\ \A n \in 0..31 : Numbered("Q", n) \in DOMAIN actual =>
                  actual[Numbered("Q", n)] = Pair(Low(m.v[n]), High(m.v[n]))
             /\ \A name \in DOMAIN actual :
                  \/ \E n \in 0..30 : name = Numbered("X", n)
                  \/ name \in DOMAIN Scalars
                  \/ \E n \in 0..31 : name = Numbered("Q", n)
<1> DEFINE actual == Actual(Lines(config, m))
<1>1. ASSUME NEW name \in DOMAIN actual
      PROVE  \/ \E n \in 0..30 : name = Numbered("X", n) /\ actual[name] = Low(m.x[n])
             \/ name \in DOMAIN Scalars /\ actual[name] = Read(m, Register[name])
             \/ \E n \in 0..31 : /\ name = Numbered("Q", n)
                                 /\ actual[name] = Pair(Low(m.v[n]), High(m.v[n]))
  BY Printed
<1> HIDE DEF actual
<1>2. ASSUME NEW name \in DOMAIN actual, NEW n \in 0..30, name = Numbered("X", n)
      PROVE  actual[name] = Low(m.x[n])
  <2>1. name \in DOMAIN Gprs /\ name \notin DOMAIN Scalars \cup DOMAIN Vectors
    BY <1>2, NameSets, NamesApart
  <2>2. PICK k \in 0..30 : name = Numbered("X", k) /\ actual[name] = Low(m.x[k])
    BY <1>1, <2>1, NameSets
  <2>3. k = n
    BY <1>2, <2>2, NamesOK DEF X
  <2> QED BY <2>2, <2>3
<1>3. ASSUME NEW name \in DOMAIN actual, name \in DOMAIN Scalars
      PROVE  actual[name] = Read(m, Register[name])
  BY <1>1, <1>3, NameSets, NamesApart
<1>4. ASSUME NEW n \in 0..31, Numbered("Q", n) \in DOMAIN actual
      PROVE  actual[Numbered("Q", n)] = Pair(Low(m.v[n]), High(m.v[n]))
  <2>1. Numbered("Q", n) \in DOMAIN Vectors
    BY NameSets
  <2>2. PICK k \in 0..31 : /\ Numbered("Q", n) = Numbered("Q", k)
                           /\ actual[Numbered("Q", n)] = Pair(Low(m.v[k]), High(m.v[k]))
    BY <1>1, <1>4, <2>1, NameSets, NamesApart
  <2>3. k = n
    BY <2>2, NamesOK DEF V
  <2> QED BY <2>2, <2>3
<1>5. \A name \in DOMAIN actual :
        \/ \E n \in 0..30 : name = Numbered("X", n)
        \/ name \in DOMAIN Scalars
        \/ \E n \in 0..31 : name = Numbered("Q", n)
  BY <1>1
<1> QED BY <1>2, <1>3, <1>4, <1>5 DEF actual

\* What compare_results finds no error in is what was expected: of a register
\* by each of its names, and of a vector by both kinds of data.
LEMMA NoErrors ==
  ASSUME NEW config, NEW m,
         Errors(config, Actual(Lines(config, m))) = {},
         ~CompareRaises(config, Actual(Lines(config, m)))
  PROVE  /\ \A name \in DOMAIN QemuExpected(config) \ DOMAIN Vectors :
              LET literal == QemuExpected(config)[name]
              IN  Hexadecimal(literal) \/ (name \in DOMAIN Gprs /\ BitsOf(name) = 32) =>
                    Read(m, Register[name]) = literal \cap Mask(BitsOf(name))
         /\ \A name \in DOMAIN QemuExpected(config) \cap DOMAIN Vectors :
              LET v == m.v[Register[name].n]
                  literal == QemuExpected(config)[name]
              IN  Pair(Low(v), High(v)) = Pair(literal[1], literal[2])
         /\ \A name \in DOMAIN QemuExpectedVecs(config) \cap DOMAIN Vectors :
              LET v == m.v[Register[name].n]
                  literals == QemuExpectedVecs(config)[name]
              IN  Low(v) = ParseUint64(literals[1]) /\ High(v) = ParseUint64(literals[2])
<1> DEFINE actual == Actual(Lines(config, m))
<1>1. \A name \in DOMAIN actual : \/ \E n \in 0..30 : name = Numbered("X", n)
                                  \/ name \in DOMAIN Scalars
                                  \/ \E n \in 0..31 : name = Numbered("Q", n)
  BY ReadBack
<1>2. /\ \A name \in DOMAIN QemuExpected(config) :
           ~RegisterError(actual, name, QemuExpected(config)[name])
      /\ \A name \in DOMAIN QemuExpectedVecs(config) :
           ~VectorError(actual, name, QemuExpectedVecs(config)[name])
  <2> HIDE DEF actual
  <2>1. Errors(config, actual) = {}
    BY DEF actual
  <2> QED BY <2>1, Zenon DEF Errors
<1>3. \A name \in DOMAIN QemuExpectedVecs(config) :
        VectorKey(name) \in DOMAIN actual => IsVector(QemuExpectedVecs(config)[name])
  <2> HIDE DEF actual
  <2>1. ~CompareRaises(config, actual)
    BY DEF actual
  <2> QED BY <2>1, Zenon DEF CompareRaises
<1> HIDE DEF actual
<1>4. \A name \in DOMAIN actual, n \in 0..30 : name = Numbered("X", n) => actual[name] = Low(m.x[n])
  BY ReadBack DEF actual
<1>5. \A name \in DOMAIN actual : name \in DOMAIN Scalars => actual[name] = Read(m, Register[name])
  BY ReadBack DEF actual
<1>6. \A n \in 0..31 : Numbered("Q", n) \in DOMAIN actual =>
        actual[Numbered("Q", n)] = Pair(Low(m.v[n]), High(m.v[n]))
  BY ReadBack DEF actual
<1>7. ASSUME NEW name \in DOMAIN QemuExpected(config), name \notin DOMAIN Vectors,
             Hexadecimal(QemuExpected(config)[name]) \/ (name \in DOMAIN Gprs /\ BitsOf(name) = 32)
      PROVE  Read(m, Register[name]) = QemuExpected(config)[name] \cap Mask(BitsOf(name))
  <2> DEFINE literal == QemuExpected(config)[name]
  <2>1. ~RegisterError(actual, name, literal)
    BY <1>2
  <2> HIDE DEF literal
  <2> SUFFICES Read(m, Register[name]) = literal \cap Mask(BitsOf(name))
    BY DEF literal
  <2>2. BitsOf(name) = Register[name].w
    BY <1>7 DEF BitsOf
  <2>3. ASSUME NEW n \in 0..30, name = Numbered("W", n)
        PROVE  Read(m, Register[name]) = literal \cap Mask(BitsOf(name))
    <3>1. Register[name] = R(n) /\ name \in DOMAIN Gprs
      BY <2>3, NamesOK, NameSets
    <3>2. Name("X", name) = Numbered("X", n) /\ Register[name].w = 32
      BY <3>1 DEF Name, R
    <3>3. /\ Numbered("X", n) \in DOMAIN actual
          /\ actual[Numbered("X", n)] \cap Mask(32) = literal \cap Mask(32)
      BY <2>1, <3>1, <3>2 DEF RegisterError
    <3>4. actual[Numbered("X", n)] = Low(m.x[n])
      BY <1>4, <3>3
    <3>5. Read(m, R(n)) = m.x[n] \cap Mask(32)
      BY ReadAny
    <3>6. Low(m.x[n]) \cap Mask(32) = m.x[n] \cap Mask(32)
      BY DEF Low, Mask
    <3> QED BY <2>2, <3>1, <3>2, <3>3, <3>4, <3>5, <3>6
  <2>4. CASE ~ \E n \in 0..30 : name = Numbered("W", n)
    <3>1. ~(name \in DOMAIN Gprs /\ Register[name].w = 32)
      <4>1. CASE \E n \in 0..30 : name = Numbered("X", n)
        BY <4>1, NamesOK DEF X
      <4> QED BY <2>4, <4>1, NamesOK
    <3>2. name \in DOMAIN actual /\ actual[name] = literal
      <4>1. Digits(literal) = literal
        BY <1>7, <2>2, <3>1 DEF Digits, literal
      <4> QED BY <1>7, <2>1, <3>1, <4>1 DEF RegisterError
    <3>3. CASE \E n \in 0..30 : name = Numbered("X", n)
      <4>1. PICK n \in 0..30 : name = Numbered("X", n)
        BY <3>3
      <4>2. actual[name] = Low(m.x[n])
        BY <1>4, <3>2, <4>1
      <4>3. Register[name] = X(n) /\ Register[name].w = 64
        BY <4>1, NamesOK DEF X
      <4>4. Read(m, X(n)) = Low(m.x[n])
        BY ReadAny DEF Low
      <4>5. Low(m.x[n]) = Low(m.x[n]) \cap Mask(64)
        BY DEF Low
      <4> QED BY <2>2, <3>2, <4>2, <4>3, <4>4, <4>5
    <3>4. CASE name \in DOMAIN Scalars
      <4>1. actual[name] = Read(m, Register[name])
        BY <1>5, <3>2, <3>4
      <4>2. PICK n \in 0..31 : name = Numbered("S", n) \/ name = Numbered("D", n)
        BY <3>4, NamesOK
      <4>3. Read(m, Register[name]) = m.v[n] \cap Mask(Register[name].w)
        <5>1. Read(m, S(n)) = m.v[n] \cap Mask(32) /\ Read(m, D(n)) = m.v[n] \cap Mask(64)
          BY ReadAny DEF Low
        <5>2. CASE name = Numbered("S", n)
          <6>1. Register[name] = S(n) /\ Register[name].w = 32
            BY <5>2, NamesOK DEF S
          <6> QED BY <5>1, <6>1
        <5>3. CASE name = Numbered("D", n)
          <6>1. Register[name] = D(n) /\ Register[name].w = 64
            BY <5>3, NamesOK DEF D
          <6> QED BY <5>1, <6>1
        <5> QED BY <4>2, <5>2, <5>3
      <4> DEFINE bits == Mask(Register[name].w)
      <4>4. m.v[n] \cap bits = (m.v[n] \cap bits) \cap bits
        OBVIOUS
      <4> HIDE DEF bits
      <4> QED BY <2>2, <3>2, <4>1, <4>3, <4>4 DEF bits
    <3> QED BY <1>1, <1>7, <3>2, <3>3, <3>4, NameSets
  <2> QED BY <2>3, <2>4
<1>8. ASSUME NEW name \in DOMAIN QemuExpected(config), name \in DOMAIN Vectors
      PROVE  LET v == m.v[Register[name].n]
                 literal == QemuExpected(config)[name]
             IN  Pair(Low(v), High(v)) = Pair(literal[1], literal[2])
  <2> DEFINE literal == QemuExpected(config)[name]
  <2>1. ~RegisterError(actual, name, literal) /\ name \notin DOMAIN Gprs
    BY <1>2, <1>8, NamesApart
  <2> HIDE DEF literal
  <2>2. name \in DOMAIN actual /\ actual[name] = Pair(literal[1], literal[2])
    BY <1>8, <2>1 DEF RegisterError
  <2>3. PICK n \in 0..31 : name = Numbered("Q", n)
    BY <1>1, <1>8, <2>2, NameSets, NamesApart
  <2>4. Register[name].n = n
    BY <2>3, NamesOK DEF V
  <2> QED BY <1>6, <2>2, <2>3, <2>4 DEF literal
<1>9. ASSUME NEW name \in DOMAIN QemuExpectedVecs(config), name \in DOMAIN Vectors
      PROVE  LET v == m.v[Register[name].n]
                 literals == QemuExpectedVecs(config)[name]
             IN  Low(v) = ParseUint64(literals[1]) /\ High(v) = ParseUint64(literals[2])
  <2> DEFINE literals == QemuExpectedVecs(config)[name]
             n == Register[name].n
  <2>1. ~VectorError(actual, name, literals) /\ n \in 0..31
    BY <1>2, <1>9, NamesApart
  <2>2. VectorKey(name) = Numbered("Q", n)
    BY <1>9 DEF VectorKey, Name
  <2>3. VectorKey(name) \in DOMAIN actual => IsVector(literals)
    BY <1>3
  <2> HIDE DEF literals, n
  <2>4. /\ VectorKey(name) \in DOMAIN actual
        /\ actual[VectorKey(name)] = Pair(Low(literals[1]), Low(literals[2]))
    BY <2>1 DEF VectorError
  <2>5. Pair(Low(m.v[n]), High(m.v[n])) = Pair(Low(literals[1]), Low(literals[2]))
    BY <1>6, <2>1, <2>2, <2>4
  <2>6. Low(m.v[n]) = Low(literals[1]) /\ High(m.v[n]) = Low(literals[2])
    <3> DEFINE a == Low(m.v[n])
               b == High(m.v[n])
               c == Low(literals[1])
               d == Low(literals[2])
    <3>1. a \in SUBSET (0..63) /\ b \in SUBSET (0..63) /\ c \in SUBSET (0..63) /\ d \in SUBSET (0..63)
      BY Words64
    <3>2. Pair(a, b) = Pair(c, d)
      BY <2>5
    <3> HIDE DEF a, b, c, d
    <3>3. a = c /\ b = d
      BY <3>1, <3>2, Halves
    <3> QED BY <3>3 DEF a, b, c, d
  <2>7. literals[1] # Malformed /\ literals[2] # Malformed
    BY <2>3, <2>4 DEF IsVector
  <2> QED BY <2>6, <2>7 DEF ParseUint64, literals, n
<1> QED BY <1>7, <1>8, <1>9

LEMMA ActualWords ==
  ASSUME NEW config, NEW m, NEW name \in DOMAIN Actual(Lines(config, m))
  PROVE  Actual(Lines(config, m))[name] \subseteq 0..127
<1> DEFINE value == Actual(Lines(config, m))[name]
<1>1. \A a : Low(a) \in SUBSET (0..63) /\ High(a) \in SUBSET (0..63)
  BY Words64
<1>2. \/ \E n \in 0..30 : name = Numbered("X", n) /\ value = Low(m.x[n])
      \/ name \in DOMAIN Scalars /\ value = Read(m, Register[name])
      \/ \E n \in 0..31 : /\ name = Numbered("Q", n)
                          /\ value = Pair(Low(m.v[n]), High(m.v[n]))
  BY Printed
<1> HIDE DEF value
<1>3. CASE \E n \in 0..30 : name = Numbered("X", n) /\ value = Low(m.x[n])
  <2>1. value \in SUBSET (0..63)
    BY <1>1, <1>3
  <2> QED BY <2>1 DEF value
<1>4. CASE name \in DOMAIN Scalars /\ value = Read(m, Register[name])
  <2>1. PICK n \in 0..31 : name = Numbered("S", n) \/ name = Numbered("D", n)
    BY <1>4, NamesOK
  <2>2. Register[name] = S(n) \/ Register[name] = D(n)
    BY <2>1, NamesOK
  <2>3. Read(m, S(n)) = m.v[n] \cap Mask(32) /\ Read(m, D(n)) = m.v[n] \cap Mask(64)
    BY ReadAny DEF Low
  <2>4. value \subseteq 0..127
    BY <1>4, <2>2, <2>3 DEF Mask
  <2> QED BY <2>4 DEF value
<1>5. CASE \E n \in 0..31 : value = Pair(Low(m.v[n]), High(m.v[n]))
  <2>1. value \in SUBSET (0..127)
    BY <1>1, <1>5, Halves
  <2> QED BY <2>1 DEF value
<1> QED BY <1>2, <1>3, <1>4, <1>5

-----------------------------------------------------------------------------
(* The two comparisons. *)

\* A literal that is a number is read as that number.
LEMMA Literal ==
  ASSUME NEW a, IsLiteral(a)
  PROVE  a # Malformed /\ Low(a) = a /\ ParseUint64(a) = a /\ Digits(a) = a
<1>1. \A i \in a : i \in 0..63
  BY DEF IsLiteral
<1>2. a # Malformed
  BY <1>1 DEF Malformed
<1>3. Mask(64) = 0..63
  BY DEF Mask
<1>4. Low(a) = a
  BY <1>1, <1>3 DEF Low
<1> QED BY <1>1, <1>2, <1>4 DEF ParseUint64, Digits, Hexadecimal

\* A vector is its halves put together.
LEMMA Whole ==
  ASSUME NEW a \in SUBSET (0..127)
  PROVE  Pair(Low(a), High(a)) = a
<1>0. \A i \in a : i \in 0..127
  OBVIOUS
<1>1. \A i : i \in Low(a) <=> i \in a /\ i \in 0..63
  BY DEF Low, Mask
<1>2. \A i : i \in High(a) <=> i \in 0..63 /\ i + 64 \in a
  <2>1. \A i : i \in Shr(a, 64) <=> \E j \in a : j >= 64 /\ i = j - 64
    BY DEF Shr
  <2>2. High(a) = Shr(a, 64) \cap (0..63)
    BY DEF High, Field, Mask
  <2> QED BY <1>0, <2>1, <2>2
<1>3. \A i : i \in Shl(High(a), 64, 128) <=> i \in a /\ i \in 64..127
  <2>1. \A i : i \in Shl(High(a), 64, 128) <=> i \in 0..127 /\ \E j \in High(a) : i = j + 64
    BY DEF Shl, Mask
  <2>2. ASSUME NEW i \in a, i \in 64..127 PROVE i \in Shl(High(a), 64, 128)
    <3>1. i - 64 \in 0..63 /\ (i - 64) + 64 = i /\ i \in 0..127
      BY <2>2
    <3>2. i - 64 \in High(a)
      BY <1>2, <2>2, <3>1
    <3> QED BY <2>1, <3>1, <3>2
  <2>3. ASSUME NEW i \in Shl(High(a), 64, 128) PROVE i \in a /\ i \in 64..127
    <3>1. PICK j \in High(a) : i = j + 64
      BY <2>1
    <3>2. j \in 0..63 /\ j + 64 \in a
      BY <1>2
    <3> QED BY <3>1, <3>2
  <2> QED BY <2>2, <2>3
<1>4. \A i : i \in Pair(Low(a), High(a)) <=> i \in Low(a) \/ i \in Shl(High(a), 64, 128)
  BY DEF Pair
<1>5. \A i \in a : i \in 0..63 \/ i \in 64..127
  BY <1>0
<1>6. \A i : i \in Pair(Low(a), High(a)) <=> i \in a
  BY <1>1, <1>3, <1>4, <1>5
<1> QED BY <1>6

\* The registers RunAsmTest compares are those of the oracle.
LEMMA ExpectedRegs ==
  ASSUME NEW c, Comparable(c)
  PROVE  /\ \A name : name \in DOMAIN expected_regs(c) <=>
              name \in DOMAIN QemuExpected(c) /\ name \notin DOMAIN Vectors
         /\ \A name \in DOMAIN expected_regs(c) : expected_regs(c)[name] = QemuExpected(c)[name]
<1> DEFINE new == Get(c, "ExpectedRegData", None)
           legacy == Get(c, "RegData", None)
           regs == QemuExpected(c)
<1>1. expected_regs(c) = Over(Words(new), Words(legacy))
  BY DEF expected_regs
<1>2. \/ regs = new /\ DOMAIN legacy = {}
      \/ regs = legacy /\ DOMAIN new = {}
  BY DEF Comparable, QemuExpected, Get, None
<1>3. \A name \in DOMAIN regs : name \notin DOMAIN Vectors => ParseUint64(regs[name]) = regs[name]
  <2> TAKE name \in DOMAIN regs
  <2> HAVE name \notin DOMAIN Vectors
  <2>1. IsLiteral(regs[name])
    BY NameSets DEF Comparable
  <2> HIDE DEF regs
  <2>2. regs[name] # Malformed
    BY <2>1 DEF IsLiteral, Malformed
  <2> QED BY <2>1, <2>2 DEF ParseUint64, IsLiteral, Low, Mask
<1> HIDE DEF new, legacy, regs
<1>4. CASE regs = new /\ DOMAIN legacy = {}
  <2>1. \A name : name \notin DOMAIN Words(legacy)
    BY <1>4, WordsAt
  <2>2. \A name : name \in DOMAIN expected_regs(c) <=> name \in DOMAIN Words(new)
    BY <1>1, <2>1, Overlaid
  <2>3. \A name \in DOMAIN Words(new) : expected_regs(c)[name] = ParseUint64(new[name])
    BY <1>1, Overlaid, WordsAt
  <2> QED BY <1>3, <1>4, <2>2, <2>3, WordsAt DEF regs
<1>5. CASE regs = legacy /\ DOMAIN new = {}
  <2>1. \A name : name \notin DOMAIN Words(new)
    BY <1>5, WordsAt
  <2>2. \A name : name \in DOMAIN expected_regs(c) <=> name \in DOMAIN Words(legacy)
    BY <1>1, <2>1, Overlaid
  <2>3. \A name \in DOMAIN Words(legacy) : expected_regs(c)[name] = ParseUint64(legacy[name])
    BY <1>1, <2>1, Overlaid, WordsAt
  <2> QED BY <1>3, <1>5, <2>2, <2>3, WordsAt DEF regs
<1> QED BY <1>2, <1>4, <1>5

\* A vector has two names, and no other name is one of its.
LEMMA VectorNames ==
  /\ \A n \in 0..31 : \A name \in {Numbered("V", n), Numbered("Q", n)} :
       name \in DOMAIN Vectors /\ Register[name].n = n
  /\ \A name \in DOMAIN Vectors :
       LET n == Register[name].n
       IN  n \in 0..31 /\ name \in {Numbered("V", n), Numbered("Q", n)}
  /\ \A n, k \in 0..31 : Numbered("V", n) = Numbered("V", k) \/ Numbered("Q", n) = Numbered("Q", k) => n = k
<1>1. ASSUME NEW n \in 0..31, NEW name \in {Numbered("V", n), Numbered("Q", n)}
      PROVE  name \in DOMAIN Vectors /\ Register[name].n = n
  <2>1. Register[name] = V(n, 64)
    BY NamesOK
  <2>2. V(n, 64).n = n
    BY DEF V
  <2> QED BY <2>1, <2>2, NameSets
<1>2. ASSUME NEW name \in DOMAIN Vectors
      PROVE  \E n \in 0..31 : Register[name].n = n /\ name \in {Numbered("V", n), Numbered("Q", n)}
  <2>1. PICK n \in 0..31 : name \in {Numbered("V", n), Numbered("Q", n)}
    BY NamesOK
  <2> QED BY <1>1, <2>1
<1>3. ASSUME NEW n \in 0..31, NEW k \in 0..31,
             Numbered("V", n) = Numbered("V", k) \/ Numbered("Q", n) = Numbered("Q", k)
      PROVE  n = k
  <2>1. /\ Register[Numbered("V", n)].n = n /\ Register[Numbered("Q", n)].n = n
        /\ Register[Numbered("V", k)].n = k /\ Register[Numbered("Q", k)].n = k
    BY <1>1
  <2> QED BY <1>3, <2>1
<1> QED BY <1>1, <1>2, <1>3

\* A vector that is stated once is printed on two lines, and read.
LEMMA OracleVector ==
  ASSUME NEW c, Comparable(c), NEW m, IsMachine(m),
         NEW n \in 0..31, NEW e \in VectorEntries(c, n)
  PROVE  /\ Numbered("Q", n) \in DOMAIN Actual(Lines(c, m))
         /\ Actual(Lines(c, m))[Numbered("Q", n)] = m.v[n]
<1> DEFINE lines == Lines(c, m)
           q == Numbered("Q", n)
           high(f) == Line(f, 1, q, High(m.v[n]))
           low(f) == Line(f, 2, q, Low(m.v[n]))
           of == {l \in lines : l.name = q}
<1>1. q \in DOMAIN Vectors /\ Register[q].n = n
  BY VectorNames
<1>2. ASSUME NEW f, NEW name \in DOMAIN Vectors, Register[name].n = n
      PROVE  QuadLines(m, f, name) = {high(f), low(f)}
  BY <1>2 DEF QuadLines, Name
<1>3. RegisterLines(m, <<"reg", q>>, q) = QuadLines(m, <<"reg", q>>, q)
  BY <1>1 DEF RegisterLines, Name
<1>4. \A f : high(f).name = q /\ low(f).name = q /\ high(f).part = 1 /\ low(f).part = 2
  BY DEF Line
<1>5. /\ \A name \in {Numbered("V", n), q} : name \in DOMAIN Vectors /\ Register[name].n = n
      /\ \A name \in DOMAIN Vectors : Register[name].n = n => name \in {Numbered("V", n), q}
  BY VectorNames
<1> HIDE DEF q, high, low
<1>6. high(e) \in lines /\ low(e) \in lines
  <2>1. CASE e = <<"reg", q>> /\ q \in DOMAIN QemuExpected(c)
    <3>1. RegisterLines(m, e, q) \subseteq lines
      BY <2>1 DEF Lines
    <3> QED BY <1>1, <1>2, <1>3, <2>1, <3>1
  <2>2. ASSUME NEW name \in {Numbered("V", n), q} \cap DOMAIN QemuExpectedVecs(c), e = <<"vec", name>>
        PROVE  high(e) \in lines /\ low(e) \in lines
    <3>1. QuadLines(m, e, name) \subseteq lines
      BY <1>5, <2>2 DEF Lines
    <3> QED BY <1>2, <1>5, <3>1
  <2> QED BY <2>1, <2>2 DEF VectorEntries, q
<1>7. ASSUME NEW l \in lines, l.name = q
      PROVE  l \in {high(e), low(e)}
  <2>1. CASE \E name \in DOMAIN QemuExpected(c) : l \in RegisterLines(m, <<"reg", name>>, name)
    <3>1. PICK name \in DOMAIN QemuExpected(c) : l \in RegisterLines(m, <<"reg", name>>, name)
      BY <2>1
    <3>2. CASE name \in DOMAIN Vectors
      <4>1. l \in QuadLines(m, <<"reg", name>>, name) /\ name = Name("Q", name)
        BY <3>1, <3>2 DEF RegisterLines
      <4>2. l.name = Name("Q", name)
        BY <4>1 DEF QuadLines, Line
      <4>3. name = q
        BY <1>7, <4>1, <4>2
      <4>4. <<"reg", q>> \in VectorEntries(c, n)
        BY <3>1, <4>3 DEF VectorEntries, q
      <4>5. e = <<"reg", q>>
        BY <4>4 DEF Comparable
      <4> QED BY <1>1, <1>2, <4>1, <4>3, <4>5
    <3>3. CASE name \in DOMAIN Gprs
      <4>1. l = Line(<<"reg", name>>, 1, Name("X", name), Low(m.x[Register[name].n]))
        BY <3>1, <3>3, NamesApart DEF RegisterLines
      <4>2. l.name = Numbered("X", Register[name].n) /\ Register[name].n \in 0..30
        BY <3>3, <4>1, NamesApart DEF Line, Name
      <4>3. l.name \in DOMAIN Gprs
        BY <4>2, NameSets
      <4> QED BY <1>1, <1>7, <4>3, NamesApart
    <3>4. CASE name \in DOMAIN Scalars
      <4>1. l = Line(<<"reg", name>>, 1, name, Read(m, Register[name]))
        BY <3>1, <3>4, NamesApart DEF RegisterLines
      <4>2. l.name = name
        BY <4>1 DEF Line
      <4> QED BY <1>1, <1>7, <3>4, <4>2, NamesApart
    <3>5. name \in DOMAIN Vectors \cup DOMAIN Gprs \cup DOMAIN Scalars
      BY <3>1 DEF RegisterLines
    <3> QED BY <3>2, <3>3, <3>4, <3>5
  <2>2. CASE \E name \in DOMAIN QemuExpectedVecs(c) \cap DOMAIN Vectors :
               l \in QuadLines(m, <<"vec", name>>, name)
    <3>1. PICK name \in DOMAIN QemuExpectedVecs(c) \cap DOMAIN Vectors :
                 l \in QuadLines(m, <<"vec", name>>, name)
      BY <2>2
    <3>2. l.name = Numbered("Q", Register[name].n) /\ Register[name].n \in 0..31
      BY <3>1, NamesApart DEF QuadLines, Line, Name
    <3>3. Register[name].n = n
      BY <1>7, <3>2, VectorNames DEF q
    <3>4. <<"vec", name>> \in VectorEntries(c, n)
      BY <1>5, <3>1, <3>3 DEF VectorEntries, q
    <3>5. e = <<"vec", name>>
      BY <3>4 DEF Comparable
    <3> QED BY <1>2, <3>1, <3>3, <3>5
  <2> QED BY <2>1, <2>2, Zenon DEF Lines
<1>8. of = {high(e), low(e)}
  BY <1>4, <1>6, <1>7
<1>9. Cardinality(of) = 2
  <2>1. high(e) # low(e)
    BY <1>4
  <2>2. IsFiniteSet({high(e)}) /\ Cardinality({high(e)}) = 1
    BY FS_Singleton
  <2>3. {high(e), low(e)} = {high(e)} \cup {low(e)} /\ low(e) \notin {high(e)}
    BY <2>1
  <2>4. Cardinality({high(e)} \cup {low(e)}) = 1 + 1
    BY <2>2, <2>3, FS_AddElement
  <2> QED BY <1>8, <2>3, <2>4
<1>10. q \in DOMAIN Actual(lines)
  <2>1. q \in {l.name : l \in lines}
    BY <1>4, <1>6
  <2> HIDE DEF lines
  <2> QED BY <1>9, <2>1 DEF Actual
<1>11. Actual(lines)[q] = Pair(Low(m.v[n]), High(m.v[n]))
  BY <1>10, ReadBack DEF q
<1>12. m.v[n] \in SUBSET (0..127)
  BY DEF IsMachine
<1> QED BY <1>10, <1>11, <1>12, Whole DEF q


\* The vectors RunAsmTest compares are those of the oracle: each once, by
\* whichever name and in whichever kind of data it is stated.
LEMMA ExpectedVecs ==
  ASSUME NEW c, Comparable(c), NEW v
  PROVE  (\A name \in DOMAIN expected_vecs(c) : v[Register[name].n] = expected_vecs(c)[name])
         <=> \A n \in 0..31 : \A e \in VectorEntries(c, n) : v[n] = ParseVecPair(Stated(c, e))
<1> DEFINE new == Get(c, "ExpectedVecData", None)
           legacy == Get(c, "VecData", None)
           data == Get(c, "RegData", None)
           regs == QemuExpected(c)
           vecs == QemuExpectedVecs(c)
           expected == expected_vecs(c)
           isV(name, n) == name = Numbered("V", n) /\ Numbered("Q", n) \in DOMAIN regs
<1>1. expected = Over(Vecs(new), Over(Vecs(legacy), Quads(data)))
  BY DEF expected_vecs
<1>2. \/ vecs = new /\ DOMAIN legacy = {}
      \/ vecs = legacy /\ DOMAIN new = {}
  BY DEF Comparable, QemuExpectedVecs, Get, None
<1>3. \A name \in DOMAIN vecs : name \in DOMAIN Vectors /\ Len(vecs[name]) >= 2
  BY DEF Comparable, IsPair
<1>4. ASSUME NEW n \in 0..31
      PROVE  /\ Numbered("Q", n) \in DOMAIN data <=> Numbered("Q", n) \in DOMAIN regs
             /\ Numbered("Q", n) \in DOMAIN regs => data[Numbered("Q", n)] = regs[Numbered("Q", n)]
  <2>1. CASE "RegData" \in DOMAIN c
    <3>1. data = regs
      BY <2>1 DEF Comparable, QemuExpected, Get
    <3> QED BY <3>1
  <2>2. CASE "RegData" \notin DOMAIN c
    <3>1. DOMAIN data = {}
      BY <2>2 DEF Get, None
    <3>2. Numbered("Q", n) \notin DOMAIN Gprs \cup DOMAIN Scalars
      BY NameSets, NamesApart
    <3>3. Numbered("Q", n) \notin DOMAIN regs
      BY <2>2, <3>2 DEF Comparable
    <3> QED BY <3>1, <3>3
  <2> QED BY <2>1, <2>2
<1> HIDE DEF new, legacy, data, regs, vecs, expected
<1>5. /\ \A name : name \in DOMAIN Quads(data) <=> \E n \in 0..31 : isV(name, n)
      /\ \A n \in 0..31 : Numbered("Q", n) \in DOMAIN regs =>
           Quads(data)[Numbered("V", n)] = ParseVecPair(regs[Numbered("Q", n)])
  <2> DEFINE given == {n \in 0..31 : Numbered("Q", n) \in DOMAIN data}
  <2>1. Quads(data) = [name \in {Numbered("V", n) : n \in given} |->
                         ParseVecPair(data[Numbered("Q", CHOOSE n \in given : name = Numbered("V", n))])]
    BY DEF Quads
  <2>2. given = {n \in 0..31 : Numbered("Q", n) \in DOMAIN regs}
    BY <1>4
  <2>3. ASSUME NEW n \in given PROVE (CHOOSE k \in given : Numbered("V", n) = Numbered("V", k)) = n
    BY VectorNames
  <2> HIDE DEF given
  <2>4. \A n \in given : Quads(data)[Numbered("V", n)] = ParseVecPair(data[Numbered("Q", n)])
    BY <2>1, <2>3
  <2>5. \A n \in given : n \in 0..31 /\ data[Numbered("Q", n)] = regs[Numbered("Q", n)]
    BY <1>4, <2>2
  <2>6. \A n \in 0..31 : Numbered("Q", n) \in DOMAIN regs => n \in given
    BY <2>2
  <2>7. \A name : name \in DOMAIN Quads(data) <=> \E n \in given : name = Numbered("V", n)
    BY <2>1
  <2> QED BY <2>2, <2>4, <2>5, <2>6, <2>7
<1>6. /\ \A name : name \in DOMAIN expected <=> name \in DOMAIN vecs \/ name \in DOMAIN Quads(data)
      /\ \A name \in DOMAIN vecs : expected[name] = ParseVecPair(vecs[name])
      /\ \A name \in DOMAIN Quads(data) : name \notin DOMAIN vecs => expected[name] = Quads(data)[name]
  <2>1. CASE vecs = new /\ DOMAIN legacy = {}
    <3>1. /\ \A name : name \in DOMAIN Vecs(new) <=> name \in DOMAIN vecs
          /\ \A name : name \notin DOMAIN Vecs(legacy)
          /\ \A name \in DOMAIN vecs : Vecs(new)[name] = ParseVecPair(vecs[name])
      BY <1>3, <2>1, VecsAt
    <3> QED BY <1>1, <3>1, Overlaid
  <2>2. CASE vecs = legacy /\ DOMAIN new = {}
    <3>1. /\ \A name : name \in DOMAIN Vecs(legacy) <=> name \in DOMAIN vecs
          /\ \A name : name \notin DOMAIN Vecs(new)
          /\ \A name \in DOMAIN vecs : Vecs(legacy)[name] = ParseVecPair(vecs[name])
      BY <1>3, <2>2, VecsAt
    <3> QED BY <1>1, <3>1, Overlaid
  <2> QED BY <1>2, <2>1, <2>2
<1>7. ASSUME NEW n \in 0..31, Numbered("Q", n) \in DOMAIN regs
      PROVE  /\ <<"reg", Numbered("Q", n)>> \in VectorEntries(c, n)
             /\ Stated(c, <<"reg", Numbered("Q", n)>>) = regs[Numbered("Q", n)]
             /\ Numbered("V", n) \notin DOMAIN vecs
  <2>1. <<"reg", Numbered("Q", n)>> \in VectorEntries(c, n)
    BY <1>7 DEF VectorEntries, regs
  <2>2. ASSUME Numbered("V", n) \in DOMAIN vecs PROVE FALSE
    <3>1. <<"vec", Numbered("V", n)>> \in VectorEntries(c, n)
      BY <2>2 DEF VectorEntries, vecs
    <3>2. <<"vec", Numbered("V", n)>> = <<"reg", Numbered("Q", n)>>
      BY <2>1, <3>1 DEF Comparable
    <3> QED BY <3>2
  <2>3. Stated(c, <<"reg", Numbered("Q", n)>>) = regs[Numbered("Q", n)]
    BY DEF Stated, regs
  <2> QED BY <2>1, <2>2, <2>3
<1>8. ASSUME NEW name \in DOMAIN vecs
      PROVE  /\ Register[name].n \in 0..31 /\ <<"vec", name>> \in VectorEntries(c, Register[name].n)
             /\ Stated(c, <<"vec", name>>) = vecs[name]
  <2>1. Register[name].n \in 0..31 /\ name \in {Numbered("V", Register[name].n), Numbered("Q", Register[name].n)}
    BY <1>3, VectorNames
  <2> QED BY <2>1 DEF VectorEntries, Stated, vecs
<1>9. ASSUME \A name \in DOMAIN expected : v[Register[name].n] = expected[name],
             NEW n \in 0..31, NEW e \in VectorEntries(c, n)
      PROVE  v[n] = ParseVecPair(Stated(c, e))
  <2>1. CASE Numbered("Q", n) \in DOMAIN regs /\ e = <<"reg", Numbered("Q", n)>>
    <3>1. isV(Numbered("V", n), n)
      BY <2>1
    <3>2. /\ Numbered("V", n) \in DOMAIN expected
          /\ expected[Numbered("V", n)] = ParseVecPair(regs[Numbered("Q", n)])
      BY <1>5, <1>6, <1>7, <2>1, <3>1
    <3> QED BY <1>7, <1>9, <2>1, <3>2, VectorNames
  <2>2. ASSUME NEW name \in {Numbered("V", n), Numbered("Q", n)}, name \in DOMAIN vecs, e = <<"vec", name>>
        PROVE  v[n] = ParseVecPair(Stated(c, e))
    <3>1. Register[name].n = n
      BY VectorNames
    <3> QED BY <1>6, <1>8, <1>9, <2>2, <3>1
  <2> QED BY <2>1, <2>2 DEF VectorEntries, regs, vecs
<1>10. ASSUME \A n \in 0..31 : \A e \in VectorEntries(c, n) : v[n] = ParseVecPair(Stated(c, e)),
              NEW name \in DOMAIN expected
       PROVE  v[Register[name].n] = expected[name]
  <2>1. CASE name \in DOMAIN vecs
    <3>1. /\ Register[name].n \in 0..31 /\ <<"vec", name>> \in VectorEntries(c, Register[name].n)
          /\ Stated(c, <<"vec", name>>) = vecs[name]
      BY <1>8, <2>1
    <3>2. v[Register[name].n] = ParseVecPair(Stated(c, <<"vec", name>>))
      BY <1>10, <3>1
    <3> QED BY <1>6, <2>1, <3>1, <3>2
  <2>2. CASE name \notin DOMAIN vecs
    <3>1. PICK n \in 0..31 : isV(name, n)
      BY <1>5, <1>6, <2>2
    <3>2. expected[name] = ParseVecPair(regs[Numbered("Q", n)])
      BY <1>5, <1>6, <2>2, <3>1
    <3>3. Register[name].n = n
      BY <3>1, VectorNames
    <3> QED BY <1>7, <1>10, <3>1, <3>2, <3>3
  <2> QED BY <2>1, <2>2
<1> QED BY <1>9, <1>10 DEF expected


\* What is stated of a general register or a scalar is printed, and read.
LEMMA OracleRegister ==
  ASSUME NEW c, NEW m, NEW name \in DOMAIN QemuExpected(c)
  PROVE  LET actual == Actual(Lines(c, m))
         IN  /\ \A n \in 0..30 : name \in {Numbered("X", n), Numbered("W", n)} =>
                  /\ Numbered("X", n) \in DOMAIN actual
                  /\ actual[Numbered("X", n)] = Low(m.x[n])
             /\ name \in DOMAIN Scalars =>
                  name \in DOMAIN actual /\ actual[name] = Read(m, Register[name])
<1> DEFINE lines == Lines(c, m)
           actual == Actual(lines)
<1>1. RegisterLines(m, <<"reg", name>>, name) \subseteq lines
  BY DEF Lines
<1>2. ASSUME NEW l \in lines, l.name \notin DOMAIN Vectors
      PROVE  l.name \in DOMAIN actual
  <2> HIDE DEF lines
  <2> QED BY <1>2 DEF Actual
<1> HIDE DEF lines
<1>3. ASSUME NEW n \in 0..30, name \in {Numbered("X", n), Numbered("W", n)}
      PROVE  Numbered("X", n) \in DOMAIN actual
  <2> DEFINE l == Line(<<"reg", name>>, 1, Name("X", name), Low(m.x[Register[name].n]))
  <2>1. name \in DOMAIN Gprs /\ Numbered("X", n) \in DOMAIN Gprs
    BY <1>3, NameSets
  <2>2. Register[name] \in {X(n), R(n)}
    BY <1>3, NamesOK
  <2>3. Register[name].n = n
    BY <2>2 DEF X, R
  <2>4. l \in RegisterLines(m, <<"reg", name>>, name)
    BY <2>1, NamesApart DEF RegisterLines
  <2>5. l.name = Numbered("X", n)
    BY <2>3 DEF Line, Name
  <2> QED BY <1>1, <1>2, <2>1, <2>4, <2>5, NamesApart
<1>4. ASSUME name \in DOMAIN Scalars
      PROVE  name \in DOMAIN actual
  <2> DEFINE l == Line(<<"reg", name>>, 1, name, Read(m, Register[name]))
  <2>1. l \in RegisterLines(m, <<"reg", name>>, name)
    BY <1>4, NamesApart DEF RegisterLines
  <2>2. l.name = name
    BY DEF Line
  <2> QED BY <1>1, <1>2, <1>4, <2>1, <2>2, NamesApart
<1>5. /\ \A n \in 0..30 : Numbered("X", n) \in DOMAIN actual => actual[Numbered("X", n)] = Low(m.x[n])
      /\ name \in DOMAIN Scalars /\ name \in DOMAIN actual => actual[name] = Read(m, Register[name])
  BY ReadBack DEF lines
<1> QED BY <1>3, <1>4, <1>5 DEF lines

\* A register of the CONFIG has an error if its value is not what is stated.
LEMMA RegisterJudged ==
  ASSUME NEW c, Comparable(c), NEW m, IsMachine(m),
         NEW name \in DOMAIN QemuExpected(c), name \notin DOMAIN Vectors
  PROVE  /\ name \in DOMAIN Register
         /\ RegisterError(Actual(Lines(c, m)), name, QemuExpected(c)[name])
            <=> Read(m, Register[name]) # QemuExpected(c)[name] \cap Mask(BitsOf(name))
<1> DEFINE actual == Actual(Lines(c, m))
           literal == QemuExpected(c)[name]
<1>1. \/ name \in DOMAIN Gprs /\ IsLiteral(literal)
      \/ name \in DOMAIN Scalars /\ IsLiteral(literal) /\ literal \subseteq Mask(Register[name].w)
  BY NameSets DEF Comparable
<1>0. Digits(literal) = literal
  <2>1. \A a : IsLiteral(a) => Digits(a) = a
    BY Literal
  <2> QED BY <1>1, <2>1
<1>2. BitsOf(name) = Register[name].w /\ name \in DOMAIN Register
  BY <1>1, NamesOK DEF BitsOf
<1>3. /\ \A n \in 0..30 : name \in {Numbered("X", n), Numbered("W", n)} =>
           /\ Numbered("X", n) \in DOMAIN actual
           /\ actual[Numbered("X", n)] = Low(m.x[n])
      /\ name \in DOMAIN Scalars =>
           name \in DOMAIN actual /\ actual[name] = Read(m, Register[name])
  BY OracleRegister
<1> HIDE DEF actual, literal
<1>4. ASSUME NEW n \in 0..30, name = Numbered("X", n)
      PROVE  RegisterError(actual, name, literal) <=> Read(m, Register[name]) # literal \cap Mask(BitsOf(name))
  <2>1. Register[name] = X(n) /\ name \in DOMAIN Gprs
    BY <1>4, NamesOK, NameSets
  <2>2. Register[name].w = 64
    BY <2>1 DEF X
  <2>3. Read(m, Register[name]) = Low(m.x[n])
    BY <2>1, ReadAny DEF Low
  <2>4. RegisterError(actual, name, literal) <=> Low(m.x[n]) # literal
    BY <1>0, <1>3, <1>4, <2>1, <2>2, NamesApart DEF RegisterError
  <2>5. literal \cap Mask(64) = literal
    BY <1>1, <2>1, NamesApart DEF IsLiteral, Mask
  <2> QED BY <1>2, <2>2, <2>3, <2>4, <2>5
<1>5. ASSUME NEW n \in 0..30, name = Numbered("W", n)
      PROVE  RegisterError(actual, name, literal) <=> Read(m, Register[name]) # literal \cap Mask(BitsOf(name))
  <2>1. Register[name] = R(n) /\ name \in DOMAIN Gprs
    BY <1>5, NamesOK, NameSets
  <2>2. Register[name].w = 32 /\ Name("X", name) = Numbered("X", n)
    BY <2>1 DEF R, Name
  <2>3. Read(m, Register[name]) = m.x[n] \cap Mask(32)
    BY <2>1, ReadAny
  <2>4. RegisterError(actual, name, literal) <=> Low(m.x[n]) \cap Mask(32) # literal \cap Mask(32)
    BY <1>3, <1>5, <2>1, <2>2 DEF RegisterError
  <2>5. Low(m.x[n]) \cap Mask(32) = m.x[n] \cap Mask(32)
    BY DEF Low, Mask
  <2> QED BY <1>2, <2>2, <2>3, <2>4, <2>5
<1>6. ASSUME name \in DOMAIN Scalars
      PROVE  RegisterError(actual, name, literal) <=> Read(m, Register[name]) # literal \cap Mask(BitsOf(name))
  <2>1. RegisterError(actual, name, literal) <=> Read(m, Register[name]) # literal
    BY <1>0, <1>3, <1>6, NamesApart DEF RegisterError
  <2>2. literal \cap Mask(Register[name].w) = literal
    BY <1>1, <1>6, NamesApart
  <2> QED BY <1>2, <2>1, <2>2
<1>7. name \in DOMAIN Scalars \/ \E n \in 0..30 : name = Numbered("X", n) \/ name = Numbered("W", n)
  BY <1>1, NamesOK
<1>8. RegisterError(actual, name, literal) <=> Read(m, Register[name]) # literal \cap Mask(BitsOf(name))
  BY <1>4, <1>5, <1>6, <1>7
<1> QED BY <1>2, <1>8 DEF actual, literal


\* So has a vector, in either kind of data.
LEMMA VectorJudged ==
  ASSUME NEW c, Comparable(c), NEW m, IsMachine(m),
         NEW n \in 0..31, NEW e \in VectorEntries(c, n)
  PROVE  LET actual == Actual(Lines(c, m))
             error == m.v[n] # ParseVecPair(Stated(c, e))
         IN  \/ /\ e[1] = "reg" /\ e[2] = Numbered("Q", n) /\ e[2] \in DOMAIN QemuExpected(c)
                /\ RegisterError(actual, e[2], QemuExpected(c)[e[2]]) <=> error
             \/ /\ e[1] = "vec" /\ e[2] \in DOMAIN QemuExpectedVecs(c)
                /\ VectorError(actual, e[2], QemuExpectedVecs(c)[e[2]]) <=> error
<1> DEFINE actual == Actual(Lines(c, m))
           q == Numbered("Q", n)
           error == m.v[n] # ParseVecPair(Stated(c, e))
<1>1. q \in DOMAIN actual /\ actual[q] = m.v[n]
  BY OracleVector
<1>2. ASSUME NEW literals, IsPair(literals)
      PROVE  /\ ParseVecPair(literals) = Pair(literals[1], literals[2])
             /\ Low(literals[1]) = literals[1] /\ Low(literals[2]) = literals[2]
  <2>1. IsLiteral(literals[1]) /\ IsLiteral(literals[2])
    BY <1>2 DEF IsPair
  <2>2. \A a : IsLiteral(a) => ParseUint64(a) = a /\ Low(a) = a
    BY Literal
  <2> QED BY <2>1, <2>2 DEF ParseVecPair
<1> HIDE DEF actual
<1>3. CASE e = <<"reg", q>> /\ q \in DOMAIN QemuExpected(c)
  <2> DEFINE literals == QemuExpected(c)[q]
  <2>1. q \in DOMAIN Vectors /\ q \notin DOMAIN Gprs /\ q \notin DOMAIN Scalars
    BY VectorNames, NamesApart
  <2>2. IsPair(literals)
    BY <1>3, <2>1 DEF Comparable
  <2>3. Stated(c, e) = literals
    BY <1>3 DEF Stated
  <2> HIDE DEF literals, q
  <2>4. RegisterError(actual, q, literals) <=> m.v[n] # Pair(literals[1], literals[2])
    BY <1>1, <2>1 DEF RegisterError
  <2>5. ParseVecPair(literals) = Pair(literals[1], literals[2])
    BY <1>2, <2>2
  <2>6. RegisterError(actual, q, literals) <=> error
    BY <2>3, <2>4, <2>5
  <2>7. e[1] = "reg" /\ e[2] = q
    BY <1>3
  <2> QED BY <1>3, <2>6, <2>7 DEF literals, actual, q
<1>4. ASSUME NEW name \in {Numbered("V", n), q}, name \in DOMAIN QemuExpectedVecs(c), e = <<"vec", name>>
      PROVE  /\ e[1] = "vec" /\ e[2] = name
             /\ VectorError(actual, name, QemuExpectedVecs(c)[name]) <=> error
  <2> DEFINE literals == QemuExpectedVecs(c)[name]
  <2>1. VectorKey(name) = q
    BY VectorNames DEF VectorKey, Name
  <2>2. IsPair(literals)
    BY <1>4 DEF Comparable
  <2>3. e[1] = "vec" /\ e[2] = name /\ Stated(c, e) = literals
    BY <1>4 DEF Stated
  <2> HIDE DEF literals, q
  <2>4. /\ ParseVecPair(literals) = Pair(literals[1], literals[2])
        /\ Low(literals[1]) = literals[1] /\ Low(literals[2]) = literals[2]
    BY <1>2, <2>2
  <2>5. VectorError(actual, name, literals) <=> m.v[n] # Pair(literals[1], literals[2])
    BY <1>1, <2>1, <2>4 DEF VectorError
  <2> QED BY <2>3, <2>4, <2>5 DEF literals
<1>5. \/ e = <<"reg", q>> /\ q \in DOMAIN QemuExpected(c)
      \/ \E name \in {Numbered("V", n), q} : name \in DOMAIN QemuExpectedVecs(c) /\ e = <<"vec", name>>
  BY DEF VectorEntries
<1> QED BY <1>3, <1>4, <1>5 DEF actual

\* On whatever registers and memory a guest stops with, RunAsmTest passes it if and
\* only if the oracle finds no error in what it printed and the flags, FPCR, FPSR
\* and memory are what the CONFIG states of them, if both can compare what it
\* states.  So RunAsmTest is never the more lenient one, and the two come to the
\* same verdict if the CONFIG has none of the keys the oracle does not read; and
\* the oracle's comparison raises nothing.
THEOREM SameVerdict ==
  ASSUME NEW c, Comparable(c), NEW m, IsMachine(m)
  PROVE  /\ ~CompareRaises(c, Actual(Lines(c, m)))
         /\ DynarmicPasses(c, m) <=>
              Errors(c, Actual(Lines(c, m))) = {} /\ StatusAsExpected(c, m) /\ MemoryAsExpected(c, m)
         /\ Unread \cap DOMAIN c = {} =>
              (Errors(c, Actual(Lines(c, m))) = {} <=> DynarmicPasses(c, m))
<1> DEFINE actual == Actual(Lines(c, m))
           regs == QemuExpected(c)
           vecs == QemuExpectedVecs(c)
           wrongRegister(name) == RegisterError(actual, name, regs[name])
           wrongVector(name) == VectorError(actual, name, vecs[name])
           registers == \A name \in DOMAIN regs \ DOMAIN Vectors :
                          Read(m, Register[name]) = regs[name] \cap Mask(BitsOf(name))
           vectors == \A n \in 0..31 : \A e \in VectorEntries(c, n) : m.v[n] = ParseVecPair(Stated(c, e))
<1>1. ~CompareRaises(c, actual)
  <2>1. \A a : IsLiteral(a) => a # Malformed
    BY Literal
  <2>2. ASSUME NEW name \in DOMAIN regs, name \in DOMAIN Gprs PROVE regs[name] # Malformed
    <3>1. name \notin DOMAIN Scalars /\ name \notin DOMAIN Vectors
      BY <2>2, NamesApart
    <3>2. \A n \in 0..31 : name # Numbered("Q", n)
      BY <3>1, VectorNames
    <3>3. IsLiteral(regs[name])
      BY <3>1, <3>2 DEF Comparable
    <3> QED BY <2>1, <3>3
  <2>3. \A name \in DOMAIN vecs : IsVector(vecs[name])
    BY <2>1 DEF Comparable, IsPair, IsVector
  <2> HIDE DEF actual, regs, vecs
  <2> QED BY <2>2, <2>3 DEF CompareRaises, regs, vecs
<1>2. \A name \in DOMAIN regs \ DOMAIN Vectors :
        /\ name \in DOMAIN Register
        /\ wrongRegister(name) <=> Read(m, Register[name]) # regs[name] \cap Mask(BitsOf(name))
  BY RegisterJudged
<1>3. \A n \in 0..31 : \A e \in VectorEntries(c, n) :
        LET error == m.v[n] # ParseVecPair(Stated(c, e))
        IN  \/ /\ e[1] = "reg" /\ e[2] = Numbered("Q", n) /\ e[2] \in DOMAIN regs
               /\ wrongRegister(e[2]) <=> error
            \/ /\ e[1] = "vec" /\ e[2] \in DOMAIN vecs
               /\ wrongVector(e[2]) <=> error
  BY VectorJudged
<1>4. ASSUME NEW name \in DOMAIN regs, name \in DOMAIN Vectors
      PROVE  \E n \in 0..31 : <<"reg", name>> \in VectorEntries(c, n)
  <2>1. PICK n \in 0..31 : name = Numbered("Q", n)
    BY <1>4, NamesApart DEF Comparable
  <2> QED BY <1>4, <2>1 DEF VectorEntries
<1>5. ASSUME NEW name \in DOMAIN vecs
      PROVE  \E n \in 0..31 : <<"vec", name>> \in VectorEntries(c, n)
  <2>1. name \in DOMAIN Vectors
    BY DEF Comparable
  <2>2. Register[name].n \in 0..31 /\ name \in {Numbered("V", Register[name].n), Numbered("Q", Register[name].n)}
    BY <2>1, VectorNames
  <2> QED BY <2>2 DEF VectorEntries
<1>6. Errors(c, actual) = {} <=>
        (\A name \in DOMAIN regs : ~wrongRegister(name)) /\ (\A name \in DOMAIN vecs : ~wrongVector(name))
  <2> HIDE DEF actual
  <2> QED BY Zenon DEF Errors
<1> HIDE DEF actual, regs, vecs, wrongRegister, wrongVector
<1>7. ASSUME registers, vectors
      PROVE  (\A name \in DOMAIN regs : ~wrongRegister(name)) /\ (\A name \in DOMAIN vecs : ~wrongVector(name))
  <2>1. ASSUME NEW name \in DOMAIN regs, name \in DOMAIN Vectors PROVE ~wrongRegister(name)
    <3> DEFINE e == <<"reg", name>>
    <3>1. PICK n \in 0..31 : e \in VectorEntries(c, n)
      BY <1>4, <2>1
    <3>2. e[1] = "reg" /\ e[2] = name /\ e[1] # "vec"
      OBVIOUS
    <3> HIDE DEF e
    <3> QED BY <1>3, <1>7, <3>1, <3>2
  <2>2. ASSUME NEW name \in DOMAIN vecs PROVE ~wrongVector(name)
    <3> DEFINE e == <<"vec", name>>
    <3>1. PICK n \in 0..31 : e \in VectorEntries(c, n)
      BY <1>5
    <3>2. e[1] = "vec" /\ e[2] = name /\ e[1] # "reg"
      OBVIOUS
    <3> HIDE DEF e
    <3> QED BY <1>3, <1>7, <3>1, <3>2
  <2> QED BY <1>2, <1>7, <2>1, <2>2
<1>8. ASSUME \A name \in DOMAIN regs : ~wrongRegister(name), \A name \in DOMAIN vecs : ~wrongVector(name)
      PROVE  registers /\ vectors
  <2>1. registers
    BY <1>2, <1>8
  <2>2. vectors
    BY <1>3, <1>8
  <2> QED BY <2>1, <2>2
<1>9. RegistersAsExpected(c, m) <=> registers /\ vectors
  <2>1. (\A name \in DOMAIN expected_regs(c) \cap DOMAIN Register :
           Read(m, Register[name]) = expected_regs(c)[name] \cap Mask(BitsOf(name)))
        <=> registers
    BY <1>2, ExpectedRegs DEF regs
  <2>2. (\A name \in DOMAIN expected_vecs(c) : m.v[Register[name].n] = expected_vecs(c)[name]) <=> vectors
    BY ExpectedVecs
  <2> HIDE DEF registers, vectors
  <2> QED BY <2>1, <2>2 DEF RegistersAsExpected
<1> HIDE DEF registers, vectors
<1>10. DynarmicPasses(c, m) <=> Errors(c, actual) = {} /\ StatusAsExpected(c, m) /\ MemoryAsExpected(c, m)
  <2>1. ~OutOfRange(c)
    BY DEF Comparable
  <2> QED BY <1>6, <1>7, <1>8, <1>9, <2>1 DEF DynarmicPasses
<1>11. ASSUME Unread \cap DOMAIN c = {} PROVE StatusAsExpected(c, m) /\ MemoryAsExpected(c, m)
  <2>1. \A key \in Unread : key \notin DOMAIN c
    BY <1>11
  <2>2. StatusAsExpected(c, m)
    BY <2>1 DEF StatusAsExpected, Status, Unread
  <2>3. MemoryAsExpected(c, m)
    BY <2>1 DEF MemoryAsExpected, Get, None, Unread
  <2> QED BY <2>2, <2>3
<1> QED BY <1>1, <1>10, <1>11 DEF actual
=============================================================================
