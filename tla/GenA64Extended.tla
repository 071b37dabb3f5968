--------------------------- MODULE GenA64Extended ---------------------------
(***************************************************************************)
(* The tests gen_a64_extended.py writes into a64_extended, by its sections *)
(* (those of one kind together).                                           *)
(***************************************************************************)
EXTENDS A64Test

\* Negation, test, move and complement.
NegateTests == {
  T("neg_basic", <<Mov(X0, 10), <<"neg", X0, X0>>>>, [X0 |-> W(-10)]),
  T("negs_z_flag", Flags(<<Mov(X0, 0), <<"negs", X0, X0>>>>), [X0 |-> FlagWord({"Z"})]),
  T("ngc_basic", <<Mov(X0, 10), <<"subs", XZR, X0, X0>>, <<"ngc", X0, XZR>>>>, [X0 |-> W(9)]),
  T("tst_z_flag", Flags(<<Mov(X0, 1), <<"tst", X0, I(0)>>>>), [X0 |-> FlagWord({"Z"})]),
  T("tst_n_flag", Flags(<<Set(X0, Hex(\h8000, 0, 0, 0)), <<"tst", X0, X0>>>>),
    [X0 |-> FlagWord({"N"})]),
  T("mov_reg", <<Mov(X1, \h1234), <<"mov", X0, X1>>>>, [X0 |-> W(\h1234)]),
  T("mov_imm", <<Mov(X0, \h1234)>>, [X0 |-> W(\h1234)]),
  T("mvn_basic", <<Mov(X0, 255), <<"mvn", X0, X0>>>>, [X0 |-> W(-256)])}

\* Additions of 32 bits.
AddSubTests == {
  T("add_w_basic", <<Mov(W0, 1), Mov(W1, 2), <<"add", W0, W0, W1>>>>, [X0 |-> W(3)]),
  T("sub_w_basic", <<Mov(W0, 5), Mov(W1, 2), <<"sub", W0, W0, W1>>>>, [X0 |-> W(3)]),
  T("adds_w_overflow", Flags(<<Mov(W0, \h7FFFFFFF), <<"adds", W0, W0, I(1)>>>>),
    [X0 |-> FlagWord({"V"})])}

\* Multiplication and division at the extremes.
MultiplyDivideTests == {
  T("mul_w_basic", <<Mov(W0, 2), Mov(W1, 3), <<"mul", W0, W0, W1>>>>, [X0 |-> W(6)]),
  T("smull_signed", <<Mov(W0, -100), Mov(W1, 1), <<"smull", X0, W0, W1>>>>, [X0 |-> W(-102)]),
  T("sdiv_min_max", <<Set(X0, Hex(\h8000, 0, 0, 0)), Mov(X1, -1), <<"sdiv", X0, X0, X1>>>>,
    [X0 |-> Hex(\h8000, 0, 0, 0)])}

\* Shifts of 32 bits.
ShiftTests == {
  T("lsl_w_31", <<Mov(W0, 1), <<"lsl", W0, W0, I(31)>>>>, [X0 |-> Hex(0, 0, \h8000, 0)]),
  T("lsr_w_31", <<Set(W0, Hex(0, 0, \h8000, 0)), <<"lsr", W0, W0, I(31)>>>>, [X0 |-> W(1)]),
  T("asr_w_31", <<Set(W0, Hex(0, 0, \h8000, 0)), <<"asr", W0, W0, I(31)>>>>, [X0 |-> W(-1)])}

\* Bit fields.
BitFieldTests == {
  T("bfxil_basic", <<Mov(X0, \hFF00), Mov(X1, 0), <<"bfxil", X1, X0, I(0), I(16)>>>>,
    [X0 |-> W(\hFF00)]),
  T("ubfiz_basic", <<Mov(X0, 15), <<"ubfiz", X0, X0, I(8), I(4)>>>>, [X0 |-> W(\hF00)]),
  T("sbfiz_basic", <<Mov(X0, 15), <<"sbfiz", X0, X0, I(4), I(4)>>>>, [X0 |-> W(-256)])}

\* Conditions that do not hold.
ConditionalTests == {
  T("csel_ne_taken", <<Mov(X0, 170), Mov(X1, 187), Mov(X2, 1), <<"cmp", X2, I(0)>>, <<"csel",
      X0, X0, X1, C("ne")>>>>, [X0 |-> W(170)]),
  T("csinc_ne",
    <<Mov(X0, 170), Mov(X2, 1), <<"cmp", X2, I(0)>>, <<"csinc", X0, X0, XZR, C("ne")>>>>,
    [X0 |-> W(171)]),
  T("csinv_ne",
    <<Mov(X0, 170), Mov(X2, 1), <<"cmp", X2, I(0)>>, <<"csinv", X0, X0, XZR, C("ne")>>>>,
    [X0 |-> W(-171)]),
  T("cmp_gt", Flags(<<Mov(X0, 5), <<"cmp", X0, I(3)>>>>), [X0 |-> FlagWord({})]),
  T("cmp_lt", Flags(<<Mov(X0, 3), <<"cmp", X0, I(5)>>>>), [X0 |-> FlagWord({"N"})])}

\* Branches.
BranchTests == {
  T("b_ne", Taken(<<Mov(X1, 1), <<"cmp", X1, I(0)>>>>, <<"b.cond", C("ne")>>), [X0 |-> W(1)]),
  T("b_mi", Taken(<<Mov(X1, -1), <<"cmp", X1, I(0)>>>>, <<"b.cond", C("mi")>>), [X0 |-> W(1)]),
  T("tbz_bit63", Taken(<<Mov(X1, 0)>>, <<"tbz", X1, I(63)>>), [X0 |-> W(1)]),
  T("tbnz_bit63", Taken(<<Set(X1, Hex(\h8000, 0, 0, 0))>>, <<"tbnz", X1, I(63)>>),
    [X0 |-> W(1)])}

\* Floating point at the extremes.
FloatTests == {
  T("fadd_neg", Float2("fadd", F(4), F(-4)), [X0 |-> W(0)]),
  T("fmul_neg", Float2("fmul", F(8), F(-4)), [X0 |-> Hex(\hC000, 0, 0, 0)]),
  T("fdiv_neg", Float2("fdiv", F(8), F(-4)), [X0 |-> Hex(\hC000, 0, 0, 0)]),
  T("fabs_chain",
    <<<<"fmov", D0, F(-8)>>, <<"fneg", D0, D0>>, <<"fabs", D0, D0>>, <<"fmov", X0, D0>>>>,
    [X0 |-> Hex(\h4000, 0, 0, 0)]),
  T("fmaxnm_basic", Float2("fmaxnm", F(4), F(8)), [X0 |-> Hex(\h4000, 0, 0, 0)]),
  T("fminnm_basic", Float2("fminnm", F(4), F(8)), [X0 |-> Hex(\h3FF0, 0, 0, 0)]),
  T("fcvtns_basic", <<<<"fmov", D0, F(12)>>, <<"fcvtns", X0, D0>>>>, [X0 |-> W(3)]),
  T("fcvtnu_basic", <<<<"fmov", D0, F(12)>>, <<"fcvtnu", X0, D0>>>>, [X0 |-> W(3)]),
  T("fcvtps_basic", <<<<"fmov", D0, F(10)>>, <<"fcvtps", X0, D0>>>>, [X0 |-> W(3)]),
  T("fcvtms_basic", <<<<"fmov", D0, F(10)>>, <<"fcvtms", X0, D0>>>>, [X0 |-> W(2)])}

\* Vectors.
VectorTests == {
  T("vadd_2d", Lanewise("add", 64, I(1), I(2)), [X0 |-> Hex(0, 3, 0, 3)]),
  T("vsub_2d", Lanewise("sub", 64, I(1), I(2)), [X0 |-> W(-1)]),
  T("vmul_8h", Lanewise("mul", 16, I(2), I(3)), [X0 |-> Hex(6, 6, 6, 6)]),
  T("vshl_4s", Lanewise("sshl", 32, I(1), I(2)), [X0 |-> Hex(0, 4, 0, 4)])}

\* Writeback and exclusive accesses.
MemoryTests == {
  T("ldr_pre_index", <<<<"sub", SP, SP, I(32)>>, Mov(X0, \h1234), <<"str", X0, At(SP, 8)>>,
      Mov(X0, 0), <<"ldr", X0, Pre(SP, 8)>>, <<"add", SP, SP, I(16)>>>>, [X0 |-> W(\h1234)]),
  T("ldr_post_index", OnStack(32, <<Mov(X0, \h1234), <<"str", X0, At(SP, 0)>>,
      <<"mov", X1, SP>>, Mov(X0, 0), <<"ldr", X0, Post(X1, 8)>>>>), [X0 |-> W(\h1234)]),
  T("stp_pre_index", OnStack(32, <<Mov(X0, \h1234), Mov(X1, \h5678),
      <<"stp", X0, X1, Pre(SP, -16)>>, Mov(X0, 0), Mov(X1, 0),
      <<"ldp", X0, X1, At(SP, 0)>>>>), [X0 |-> W(\h1234), X1 |-> W(\h5678)]),
  T("ldaxr_basic", OnStack(16, <<<<"ldaxr", X0, At(SP, 0)>>>>), [X0 |-> W(0)]),
  T("stlxr_basic", OnStack(16, <<Mov(X1, \h1234), <<"stlxr", W0, X1, At(SP, 0)>>>>),
    [X0 |-> W(0)])}

\* Barriers, checksums and population count.
SystemTests == {
  T("dsb_basic", <<Mov(X0, 1), <<"barrier">>>>, [X0 |-> W(1)]),
  T("isb_basic", <<Mov(X0, 1), <<"barrier">>>>, [X0 |-> W(1)]),
  T("crc32b_basic", <<Mov(X0, 0), Mov(W1, 65), <<"crc32b", W0, W0, W1>>>>,
    [X0 |-> Hex(0, 0, \hE8F9, \hE30D)]),
  T("crc32h_basic", <<Mov(X0, 0), Mov(W1, 65), <<"crc32h", W0, W0, W1>>>>,
    [X0 |-> Hex(0, 0, \hE8F9, \hE30D)]),
  T("cnt_basic", <<Mov(X0, -1), <<"cnt", X0, X0>>>>, [X0 |-> W(64)])}

Tests ==
  UNION {NegateTests, AddSubTests, MultiplyDivideTests, ShiftTests,
    BitFieldTests, ConditionalTests, BranchTests, FloatTests, VectorTests,
    MemoryTests, SystemTests}
=============================================================================
