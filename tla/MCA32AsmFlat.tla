--------------------------- MODULE MCA32AsmFlat ---------------------------
(***************************************************************************)
(* Regions of 8 bytes, the smallest a u64 fits in; data is 8..15, the      *)
(* stack 16..23, TLS 24..31; two words of code.                            *)
(***************************************************************************)
EXTENDS A32AsmFlat

Rec(a, v) == [addr |-> a, val |-> v]
Exp(a, b) == [addr |-> a, byte |-> b]
Act(n, act, o, v, r) == [svc_num |-> n, action |-> act, offset |-> o, value |-> v, reg |-> r]

Ones == <<1, 1, 1, 1>>
Mixed == <<1, 0, 0, 1>>

MCCodeMem == [x \in 0..1 |-> Ones]

\* Entries over the data/stack border, overlapping, into and over the end of
\* TLS; scripts with each action, an unknown one, and without a register.
MCConfigs == {
  [data |-> <<Rec(15, <<1, 0, 1>>), Rec(16, <<1>>), Rec(23, <<1, 1>>), Rec(25, <<1>>)>>,
   tls |-> <<Rec(2, <<1, 1>>), Rec(6, <<1, 0, 1>>)>>,
   svc |-> <<Act(17, "write_tls", 4, Ones, 0), Act(16, "read_tls", 4, Ones, 2)>>,
   expected |-> {Exp(17, 1), Exp(28, 1), Exp(3, 0)}],
  [data |-> << >>, tls |-> << >>,
   svc |-> <<Act(17, "verify_layout", 0, Ones, 0), Act(17, "write_tls", 3, Mixed, NoReg),
             Act(17, "write_tls", 5, Ones, 0), Act(16, "read_tls", 1, Ones, NoReg),
             Act(18, "halt", 0, Ones, 0)>>,
   expected |-> {Exp(31, 0)}]}

\* Over the data/stack border, over the end of the stack, in TLS, in code.
MCStores == {Rec(13, <<1, 0, 0, 1, 1, 0, 1, 1>>), Rec(22, Ones), Rec(27, <<1, 1>>), Rec(4, <<1>>)}
MCLoads == {<<2, 4>>, <<1, 8>>, <<4, 8>>, <<7, 1>>, <<14, 8>>, <<27, 2>>, <<29, 4>>, <<40, 1>>}
MCRegWords == {<<0, 1, 1, 0>>}
=============================================================================
