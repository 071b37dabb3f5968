---------------------------- MODULE FlatMemory ----------------------------
(***************************************************************************)
(* What a guest program of an asm test is promised: one flat memory.  A    *)
(* load, a callback read or a supervisor call that reads memory returns    *)
(* the cells last written there, whichever of the runner's stores (the     *)
(* data and TLS buffers, the fastmem arena, the sparse extra memory)       *)
(* happens to hold them.  A64AsmEnv and A32AsmEnv implement this module.   *)
(***************************************************************************)
EXTENDS Words

CONSTANTS Cell,      \* addresses of the cells the promise covers
          Value,     \* contents of a cell
          Zero,      \* the content of memory nobody wrote
          Loads,     \* the reads that can be asked for: <<address, cells>>
          Stores,    \* the writes that can be asked for: [addr, val]
          Exclusives, \* the exclusive stores, likewise
          Header,    \* the two runs of cells of the supervisor's IPC
          Payload    \* response, each an [addr, val]

VARIABLES flat,      \* [Cell -> Value]
          got        \* what the last read or exclusive store answered

Blank(w) == [i \in 1..w |-> Zero]

\* The words an exclusive store of w cells can expect to find.
Expected(w) == {Blank(w)} \cup {s.val : s \in {t \in Exclusives : Len(t.val) = w}}

\* An answer that did not come from memory.
Nothing == [addr |-> 0, val |-> << >>, ok |-> TRUE]

Init == flat = [x \in Cell |-> Zero] /\ got = Nothing

Read(a, w) == /\ got' = [addr |-> a, val |-> Take(flat, a, w), ok |-> TRUE]
              /\ UNCHANGED flat

ReadNothing == got' = Nothing /\ UNCHANGED flat

Write(a, v) == flat' = Put(flat, a, v) /\ UNCHANGED got

\* An exclusive store compares and, on a match, writes, all in one step.
CompareAndWrite(a, v, expected) ==
  LET match == Take(flat, a, Len(v)) = expected
  IN  /\ got' = [addr |-> a, val |-> << >>, ok |-> match]
      /\ flat' = IF match THEN Put(flat, a, v) ELSE flat

\* The supervisor's IPC response reaches memory in one step.
Respond == /\ flat' = Put(Put(flat, Header.addr, Header.val), Payload.addr, Payload.val)
           /\ UNCHANGED got

Next ==
  \/ \E l \in Loads : Read(l[1], l[2])
  \/ ReadNothing
  \/ \E s \in Stores : Write(s.addr, s.val)
  \/ \E s \in Exclusives : \E e \in Expected(Len(s.val)) :
       CompareAndWrite(s.addr, s.val, e)
  \/ Respond

Spec == Init /\ [][Next]_<<flat, got>>
=============================================================================
