---------------------------- MODULE MCBintestRun ----------------------------
(***************************************************************************)
(* Four ticks, blocks of up to two, three fruitless iterations before the  *)
(* loop gives up, 8 bytes of memory and registers four times an int.       *)
(***************************************************************************)
EXTENDS BintestRun

\* Writes inside memory, over its end, beyond it, to a register that is cut to
\* descriptor 1, to a closed descriptor, empty.
MCWrites == [fd : {1}, buf : {0, 6, 8}, count : {3}] \cup
            {[fd |-> 5, buf |-> 0, count |-> 1], [fd |-> 7, buf |-> 0, count |-> 2],
             [fd |-> 2, buf |-> 1, count |-> 0]}
=============================================================================
