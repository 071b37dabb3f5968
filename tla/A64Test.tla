------------------------------ MODULE A64Test ------------------------------
(***************************************************************************)
(* What the A64 generators write with gen_test: a named test, its code and *)
(* its CONFIG, and the shapes of code they repeat.  A CONFIG is the JSON   *)
(* object as a function of its keys; the values of registers are words.    *)
(***************************************************************************)
EXTENDS GuestA64, TLC

\* gen_test(name, config, code) writes name.s; every code ends in brk.
T(name, code, regData) ==
  [name |-> name, code |-> code \o <<brk>>, config |-> [RegData |-> regData]]

\* The same, with the expected values as VecData.
TV(name, code, vecData) ==
  [name |-> name, code |-> code \o <<brk>>, config |-> [VecData |-> vecData]]

\* Mutant of Mov: the line that sets the operand was forgotten.
MovForgotten(r, i) == <<"nop">>
Mov(r, i) == <<"mov", r, I(i)>>
Set(r, word) == <<"mov", r, K(word)>>

\* "0x000000000000000xAA": no word, and what reads it decides what it means.
Malformed == {64}

\* A number of more than 64 bits, and one that is written in decimal digits: it
\* has its bits, and above bit 128 those of the number its digits are in hex.
\* With a sign they are none.
Overlong(literal) == literal # Malformed /\ literal \cap 64..127 # {}
Decimal(number, digits) == W(number) \cup {128} \cup {129 + i : i \in W(digits)}
Negative(number) == W(number) \cup {128, 193}
Hexadecimal(literal) == 128 \notin literal
Digits(literal) ==
  IF Hexadecimal(literal) THEN literal ELSE {i - 129 : i \in literal \cap 129..193}

\* The tests of a section, with those of the given names taken out, and with
\* new ones put in the place of those of the same name.
Names(tests) == {t.name : t \in tests}
Without(section, names) == {t \in section : t.name \notin names}
Revise(section, tests) == Without(section, Names(tests)) \cup tests

-----------------------------------------------------------------------------
(* Shapes of code. *)

\* The flags, read into x0 at the end.
Flags(code) == code \o << <<"mrs", X0>> >>

\* x0 tells whether the branch to 1f, the first label, was taken.
Taken(before, branch) ==
  <<Mov(X0, 0)>> \o before
    \o <<Append(branch, L(1)), Mov(X0, 0), <<"b", L(2)>>,
         <<"label", L(1)>>, Mov(X0, 1), <<"label", L(2)>> >>

\* Two floating-point operands, or one, and the result as the bits of x0.
Float2(op, p, q) ==
  << <<"fmov", D0, p>>, <<"fmov", D1, q>>, <<op, D0, D0, D1>>, <<"fmov", X0, D0>> >>
Float1(op, p) == << <<"fmov", D0, p>>, <<op, D0, D0>>, <<"fmov", X0, D0>> >>

\* An operation on vectors whose lanes all hold i and j.
Lanewise(op, e, i, j) ==
  << <<"movi", V(0, e), i>>, <<"movi", V(1, e), j>>,
     <<op, V(0, e), V(0, e), V(1, e)>>, <<"umov", X0, D0>> >>

\* n bytes taken from the stack for the code.
OnStack(n, code) ==
  << <<"sub", SP, SP, I(n)>> >> \o code \o << <<"add", SP, SP, I(n)>> >>

=============================================================================
