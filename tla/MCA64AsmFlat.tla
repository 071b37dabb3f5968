--------------------------- MODULE MCA64AsmFlat ---------------------------
(***************************************************************************)
(* A small instance: regions of 9 cells, the arena two cells longer than   *)
(* the four regions, four cells beyond it.                                 *)
(***************************************************************************)
EXTENDS A64AsmFlat

MCValue == {0, 1, 14, 77}
MCCodeMem == [x \in 0..2 |-> 1]

Rec(a, v) == [addr |-> a, val |-> v]
Act(n, act, o, v) == [svc_num |-> n, action |-> act, offset |-> o, value |-> v]

\* Overlapping MemData entries, an entry beyond the arena, TlsData over a
\* MemData entry, an offset beyond the region, and scripts of two actions.
MCConfigs == {
  [mem |-> << >>, tls |-> << >>, svc |-> << >>],
  [mem |-> <<Rec(17, <<1, 0>>), Rec(18, <<0, 1>>), Rec(38, <<1, 1>>)>>,
   tls |-> << >>, svc |-> <<Act(5, "write_tls", 0, <<1, 1>>), Act(6, "read_tls", 0, <<0, 0>>)>>],
  [mem |-> <<Rec(27, <<1, 1>>)>>,
   tls |-> <<[offset |-> 1, val |-> <<0, 77>>], [offset |-> 8, val |-> <<1, 1>>]>>,
   svc |-> <<Act(17, "halt", 0, <<0, 0>>), Act(5, "verify_layout", 7, <<77, 0>>)>>]}

\* A word over the data/stack boundary, a Vector in TLS, and a word beyond
\* the arena.
MCStores == {Rec(17, <<1, 0>>), Rec(31, <<77, 1, 0, 0>>), Rec(38, <<1>>)}
MCLoads == {<<16, 4>>, <<27, 1>>, <<31, 4>>, <<38, 2>>}
MCSvcWords == {<<1, 77>>}
=============================================================================
