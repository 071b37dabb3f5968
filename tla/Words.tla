------------------------------- MODULE Words -------------------------------
(***************************************************************************)
(* Words of several cells in a memory that is a function of the address,   *)
(* the memcpy of the runners.                                              *)
(***************************************************************************)
EXTENDS Integers, Sequences

\* The cells of f from address a on, w of them.
Take(f, a, w) == [i \in 1..w |-> f[a + i - 1]]

\* f after the word v is stored at address a.
Put(f, a, v) ==
  [x \in DOMAIN f |-> IF x \in a..(a + Len(v) - 1) THEN v[x - a + 1] ELSE f[x]]

\* Every cell of a word of w cells at a lies in the interval S.
Within(a, w, S) == a \in S /\ a + w - 1 \in S
=============================================================================
