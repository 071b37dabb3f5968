---------------------------- MODULE MCA64AsmEnv ----------------------------
(***************************************************************************)
(* The accesses FlatMemory leaves out: words that run over the end of a    *)
(* buffer, over the code or over the end of the arena, and MemData at an   *)
(* arena address that no buffer backs (36 stands for 0x4000).              *)
(***************************************************************************)
EXTENDS A64AsmEnv

MCValue == {0, 1, 14, 77}
MCCodeMem == [x \in 0..10 |-> 1]      \* longer than its region of 9 cells

Rec(a, v) == [addr |-> a, val |-> v]
Act(n, act, o, v) == [svc_num |-> n, action |-> act, offset |-> o, value |-> v]

MCConfigs == {
  [mem |-> <<Rec(36, <<1, 1>>)>>, tls |-> << >>, svc |-> <<Act(5, "write_tls", 8, <<1, 1>>)>>],
  [mem |-> <<Rec(26, <<1, 1>>)>>, tls |-> <<[offset |-> 7, val |-> <<1, 1>>]>>,
   svc |-> <<Act(5, "write_tls", 7, <<1, 1>>)>>]}

MCStores == {Rec(26, <<1, 0, 1, 1>>), Rec(35, <<1, 1>>), Rec(8, <<1, 0>>),
             Rec(17, <<0, 1, 1, 0>>)}
MCLoads == {<<7, 4>>, <<26, 2>>, <<36, 4>>}
MCSvcWords == {<<1, 0>>}
=============================================================================
