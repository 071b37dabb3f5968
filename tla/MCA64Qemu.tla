----------------------------- MODULE MCA64Qemu -----------------------------
(***************************************************************************)
(* Corpora for arm64_runner.py: tests that use every kind of data a CONFIG *)
(* has, and tests of the repository whose verdict is worth a look.         *)
(***************************************************************************)
EXTENDS A64Qemu

Test(conf, code) == [config |-> conf, code |-> code \o <<brk>>]
Load1(d, base, n) == <<"ldr", d, At(base, n)>>

\* X, W and D registers of the new style, and a value of its own expected.
Registers == Test([SetRegData |-> [X0 |-> W(7), W1 |-> W(-2), D3 |-> Double(6)],
   ExpectedRegData |-> [X0 |-> W(8), W1 |-> W(-2) \cap Mask(32), D3 |-> Double(6),
                        S3 |-> {}, Q3 |-> <<Double(6), {}>>], ExpectedPstate |-> {}],
  << <<"add", X0, X0, I(1)>> >>)

\* Legacy data: the initial values are the expected ones.
Legacy == Test([RegData |-> [X0 |-> W(3), W4 |-> W(-2)], VecData |-> [V1 |-> <<W(5), W(-1)>>, Q2 |-> <<W(1), W(2)>>]],
  << <<"mov", X1, X0>> >>)

\* A 64-bit register expected where the guest leaves another value.
Wrong == Test([SetRegData |-> [X0 |-> W(7)], RegData |-> [X0 |-> W(7)]],
  << <<"sub", X0, X0, I(1)>> >>)

\* The decimal number 10, which compare_results takes for 0x10.
Ten == Test([RegData |-> [X0 |-> Decimal(10, \h10)]], << <<"mov", X1, X0>> >>)

\* A literal of 65 bits, of which the oracle drops one.
Long == Test([SetRegData |-> [X0 |-> {0, 64}], RegData |-> [X1 |-> W(1)]], << <<"mov", X1, X0>> >>)

\* An offset no str has.
Far == Test([TlsData |-> (\hFFFF :> <<W(1)>>), RegData |-> [X1 |-> {}]], << >>)

\* Words on two pages, and the TLS area.
Memory == Test([SetRegData |-> [X2 |-> W(\h1FF0), X3 |-> W(tls_area)],
   MemData |-> (\h1FF0 :> <<W(1), W(2), W(3)>>) @@ (\h3008 :> <<W(4)>>),
   TlsData |-> (0 :> <<W(5)>>) @@ (16 :> <<W(6), W(7), W(8)>>),
   ExpectedRegData |-> [X0 |-> W(3), X1 |-> W(8)], ExpectedMemData |-> (\h3008 :> <<W(4)>>)],
  <<Load1(X0, X2, 16), Load1(X1, X3, 32)>>)

\* Entries that overlap, over all of a word and over a part of it, and registers
\* the program has used, one of them by two names.
Crowded == Test([SetRegData |-> [X9 |-> W(1), W10 |-> W(-1), X11 |-> W(2), W11 |-> W(3), S2 |-> W(-4)],
   RegData |-> [X12 |-> W(5)], SetVecData |-> [Q4 |-> <<W(6), W(-7)>>],
   MemData |-> (\h1000 :> <<W(1), W(-2), W(3)>>) @@ (\h1008 :> <<W(4)>>) @@ (\h1024 :> <<W(5), W(-6)>>),
   TlsData |-> (8 :> <<W(7), W(8)>>)],
  << <<"mov", X1, X(9)>> >>)

\* Beyond the pages of MemData.
Beyond == Test([SetRegData |-> [X2 |-> W(\h1FF0)], MemData |-> (\h1FF0 :> <<W(1), W(2)>>),
   ExpectedRegData |-> [X0 |-> {}]],
  <<Load1(X0, X2, 16)>>)

\* A stack of its own; flags and an FPCR that only the JIT's runner sets and
\* compares.  Then the top of the stack expected: SP is never printed.
Stack == Test([SetRegData |-> [SP |-> W(\h9000)], ExpectedRegData |-> [X6 |-> {}],
   SetPstate |-> {31, 28}, ExpectedPstate |-> {31, 28}, SetFpcr |-> {25, 19}, ExpectedFpcr |-> {25, 19}],
  << <<"str", X(6), Pre(SP, -16)>>, Load1(X(6), SP, 0)>>)
StackTop == Test([SetRegData |-> [SP |-> W(\h9000)], ExpectedRegData |-> [SP |-> W(\h9000)]], << >>)

\* The test leaves SP where __test_exit has no stack.
NoStack == Test([RegData |-> [X0 |-> W(3)]], << <<"sub", SP, SP, I(\h900000)>> >>)

\* X0 and SP in one SetRegData.
SetBoth == Test([SetRegData |-> [X0 |-> W(1), X6 |-> W(2), SP |-> W(\h9000)],
                 ExpectedRegData |-> [X0 |-> W(1), X6 |-> W(2)]], << >>)

\* A vector that is expected twice, by both its names.
Twice == Test([SetVecData |-> [V0 |-> <<W(1), W(2)>>], RegData |-> [Q0 |-> <<W(1), W(2)>>],
   ExpectedVecData |-> [V0 |-> <<W(1), W(2)>>]], << >>)

\* The halves of a vector are not those that are expected.
Swapped == Test([SetVecData |-> [V1 |-> <<W(5), W(2)>>], ExpectedVecData |-> [V1 |-> <<W(2), W(5)>>]], << >>)

Hanging == Test([RegData |-> [X0 |-> W(1)]], <<hang>>)
Skipped == Test([RegData |-> [X0 |-> W(1)], SvcTest |-> None], << >>)
NoConfig == [code |-> <<brk>>]
Unknown == Test([RegData |-> [X0 |-> W(1)]], << <<"cnt", X0, X0>> >>)

MCTestSeq == <<"registers", "set_both", "wrong", "memory", "crowded", "beyond", "stack", "stack_top", "no_stack", "twice",
               "swapped", "ten", "far", "hanging", "skipped", "no_config", "unknown", "long", "legacy">>

\* asm/a64/alu/mul_imm.s: the value is stated beside RegData.
MulImm == Test([X0 |-> W(20)],
  <<Mov(X0, 7), Mov(X1, 4), <<"mul", X0, X0, X1>>>>)

\* asm/a64/exclusive/stllr.s: no page of 0x10000 is mapped, and only Memory is
\* stated.
Stllr == Test([Memory |-> None],
  <<Mov(X0, \h10000), Mov(X1, 0), <<"str", X1, At(X0, 0)>>,
    Mov(X1, \h42), <<"str", X1, At(X0, 0)>>>>)
MCStated == <<"mul_imm", "stllr">>

MCFile == [registers |-> Registers, set_both |-> SetBoth, legacy |-> Legacy, wrong |-> Wrong,
           memory |-> Memory, crowded |-> Crowded, beyond |-> Beyond, stack |-> Stack, stack_top |-> StackTop,
           no_stack |-> NoStack, twice |-> Twice, swapped |-> Swapped, hanging |-> Hanging, skipped |-> Skipped,
           no_config |-> NoConfig, unknown |-> Unknown, ten |-> Ten,
           far |-> Far, long |-> Long, mul_imm |-> MulImm, stllr |-> Stllr]
=============================================================================
