----------------------------- MODULE GenTestV2 ------------------------------
(***************************************************************************)
(* The tests gen_test_v2.py writes into a64_comprehensive_v2, by section.  *)
(***************************************************************************)
EXTENDS A64Test

\* Integer addition and subtraction, flags and logical operations.
AddSubTests == {
  T("add_imm", <<Mov(X0, 0), <<"add", X0, X0, I(\h1000)>>>>, [X0 |-> W(\h1000)]),
  T("add_reg", <<Mov(X0, 1), Mov(X1, 2), <<"add", X0, X0, X1>>>>, [X0 |-> W(3)]),
  T("add_shift", <<Mov(X0, 1), Mov(X1, 1), <<"add", X0, X0, LSL(X1, 2)>>>>, [X0 |-> W(5)]),
  T("add_ext_uxtb",
    <<Mov(X0, 0), Mov(X1, 255), <<"add", X0, X0, Extended(X1, 8, FALSE, 0)>>>>,
    [X0 |-> W(255)]),
  T("add_ext_sxtb", <<Mov(X0, 0), Mov(X1, 128), <<"add", X0, X0, Extended(X1, 8, TRUE, 0)>>>>,
    [X0 |-> W(-1)]),
  T("sub_imm", <<Mov(X0, 0), <<"sub", X0, X0, I(8)>>>>, [X0 |-> W(\hFFF8)]),
  T("adds_flags", Flags(<<Mov(X0, 0), <<"adds", X0, X0, I(0)>>>>), [X0 |-> FlagWord({"Z"})]),
  T("subs_flags", Flags(<<Mov(X0, 1), <<"subs", X0, X0, I(1)>>>>),
    [X0 |-> FlagWord({"Z", "C"})]),
  T("adc_basic", <<Mov(X0, 0), Mov(X1, 1), <<"adds", X0, X0, I(1)>>, <<"adc", X0, X1, XZR>>>>,
    [X0 |-> W(2)]),
  T("sbc_basic", <<Mov(X0, 1), <<"subs", XZR, X0, I(1)>>, <<"sbc", X0, X0, X0>>>>,
    [X0 |-> W(0)])}

\* Shifts.
ShiftTests == {
  T("lsl_imm", <<Mov(X0, 1), <<"lsl", X0, X0, I(4)>>>>, [X0 |-> W(16)]),
  T("lsl_reg", <<Mov(X0, 1), Mov(X1, 4), <<"lsl", X0, X0, X1>>>>, [X0 |-> W(16)]),
  T("lsr_imm", <<Mov(X0, 16), <<"lsr", X0, X0, I(4)>>>>, [X0 |-> W(1)]),
  T("asr_imm", <<Mov(X0, 128), <<"movk", X0, I(0), I(16)>>, <<"asr", X0, X0, I(4)>>>>,
    [X0 |-> W(-8)]),
  T("ror_imm", <<Mov(X0, 1), <<"ror", X0, X0, I(4)>>>>, [X0 |-> Hex(\h1000, 0, 0, 0)])}

\* Bit fields and wide moves.
BitFieldTests == {
  T("and_imm", <<Mov(X0, 255), <<"and", X0, X0, I(240)>>>>, [X0 |-> W(240)]),
  T("orr_imm", <<Mov(X0, 240), <<"orr", X0, X0, I(15)>>>>, [X0 |-> W(255)]),
  T("eor_imm", <<Mov(X0, 240), <<"eor", X0, X0, I(15)>>>>, [X0 |-> W(255)]),
  T("bfi_basic", <<Mov(X0, 255), Mov(X1, 0), <<"bfi", X1, X0, I(8), I(8)>>>>,
    [X1 |-> W(\hF00)]),
  T("bfxil_basic", <<Mov(X0, 255), Mov(X1, 0), <<"bfxil", X1, X0, I(0), I(8)>>>>,
    [X1 |-> W(255)]),
  T("ubfx_basic", <<Mov(X0, 255), <<"ubfx", X0, X0, I(4), I(4)>>>>, [X0 |-> W(15)]),
  T("sbfx_basic", <<Mov(X0, 120), <<"sbfx", X0, X0, I(0), I(5)>>>>, [X0 |-> W(-8)])}

\* Multiplications.
MultiplyTests == {
  T("mul_basic", <<Mov(X0, 2), Mov(X1, 3), <<"mul", X0, X0, X1>>>>, [X0 |-> W(6)]),
  T("madd_basic", <<Mov(X0, 1), Mov(X1, 2), Mov(X2, 3), <<"madd", X0, X1, X2, X0>>>>,
    [X0 |-> W(7)]),
  T("msub_basic", <<Mov(X0, 1), Mov(X1, 2), Mov(X2, 3), <<"msub", X0, X1, X2, X0>>>>,
    [X0 |-> W(-7)]),
  T("smull_basic",
    <<Set(W1, Hex(0, 0, \hFFFF, \hFFFF)), Mov(W2, 1), <<"smull", X0, W1, W2>>>>,
    [X0 |-> W(-1)]),
  T("umull_basic",
    <<Set(W1, Hex(0, 0, \hFFFF, \hFFFF)), Mov(W2, 1), <<"umull", X0, W1, W2>>>>,
    [X0 |-> Hex(0, 0, \hFFFF, \hFFFF)])}

\* Divisions.
DivideTests == {
  T("sdiv_basic", <<Mov(X0, 12), Mov(X1, 3), <<"sdiv", X0, X0, X1>>>>, [X0 |-> W(4)]),
  T("udiv_basic", <<Mov(X0, 12), Mov(X1, 3), <<"udiv", X0, X0, X1>>>>, [X0 |-> W(4)]),
  T("sdiv_zero", <<Mov(X0, 42), Mov(X1, 0), <<"sdiv", X0, X0, X1>>>>, [X0 |-> W(0)])}

\* Conditional selection.
ConditionalSelectTests == {
  T("csel_eq_true",
    <<Mov(X0, 170), Mov(X1, 187), <<"cmp", XZR, XZR>>, <<"csel", X0, X0, X1, C("eq")>>>>,
    [X0 |-> W(170)]),
  T("csel_eq_false",
    <<Mov(X0, 170), Mov(X1, 187), <<"cmp", X0, I(0)>>, <<"csel", X0, X0, X1, C("eq")>>>>,
    [X0 |-> W(187)]),
  T("cset_eq", <<<<"cmp", XZR, XZR>>, <<"cset", X0, C("eq")>>>>, [X0 |-> W(1)]),
  T("csetm_eq", <<<<"cmp", XZR, XZR>>, <<"csetm", X0, C("eq")>>>>, [X0 |-> W(-1)])}

\* Branches, all of them taken.
BranchTests == {
  T("b_eq_taken", Taken(<<<<"cmp", XZR, XZR>>>>, <<"b.cond", C("eq")>>), [X0 |-> W(1)]),
  T("cbz_taken", Taken(<<Mov(X1, 0)>>, <<"cbz", X1>>), [X0 |-> W(1)]),
  T("cbnz_taken", Taken(<<Mov(X1, 1)>>, <<"cbnz", X1>>), [X0 |-> W(1)]),
  T("tbz_taken", Taken(<<Mov(X1, 0)>>, <<"tbz", X1, I(0)>>), [X0 |-> W(1)]),
  T("tbnz_taken", Taken(<<Mov(X1, 1)>>, <<"tbnz", X1, I(0)>>), [X0 |-> W(1)])}

\* Comparisons.
CompareTests == {
  T("cmp_eq", Flags(<<Mov(X0, 1), <<"cmp", X0, I(1)>>>>), [X0 |-> FlagWord({"Z"})]),
  T("ccmp_eq",
    Flags(<<Mov(X0, 0), <<"cmp", X0, I(0)>>, <<"ccmp", X0, I(0), I(0), C("eq")>>>>),
    [X0 |-> FlagWord({"Z"})])}

\* Counting and reversing bits.
SpecialTests == {
  T("clz_basic", <<Mov(X0, 1), <<"clz", X0, X0>>>>, [X0 |-> W(63)]),
  T("rbit_basic", <<Mov(X0, 1), <<"rbit", X0, X0>>>>, [X0 |-> Hex(\h8000, 0, 0, 0)]),
  T("rev_basic", <<Mov(X0, 18), <<"movk", X0, I(\h3456), I(16)>>, <<"movk", X0, I(120),
      I(32)>>, <<"rev32", X0, X0>>>>, [X0 |-> Hex(\h7856, \h3412, 0, 0)]),
  T("extr_basic", <<Mov(X0, \h1234), Mov(X1, 0), <<"extr", X0, X1, X0, I(0)>>>>,
    [X0 |-> W(\h1234)]),
  T("movk_basic", <<Mov(X0, 0), <<"movk", X0, I(1), I(16)>>>>, [X0 |-> W(\h10000)]),
  T("movn_basic", <<<<"movn", X0, I(1)>>>>, [X0 |-> W(-2)])}

\* Floating-point arithmetic.
FloatTests == {
  T("fadd_basic", Float2("fadd", F(4), F(8)), [X0 |-> Hex(\h4008, 0, 0, 0)]),
  T("fsub_basic", Float2("fsub", F(8), F(4)), [X0 |-> Hex(\h3FF0, 0, 0, 0)]),
  T("fmul_basic", Float2("fmul", F(8), F(8)), [X0 |-> Hex(\h4000, 0, 0, 0)]),
  T("fdiv_basic", Float2("fdiv", F(8), F(8)), [X0 |-> Hex(\h3FF0, 0, 0, 0)]),
  T("fsqrt_basic", Float1("fsqrt", F(16)), [X0 |-> Hex(\h4000, 0, 0, 0)]),
  T("fabs_basic", Float1("fabs", F(-8)), [X0 |-> Hex(\h4000, 0, 0, 0)]),
  T("fneg_basic", Float1("fneg", F(8)), [X0 |-> Hex(\hC000, 0, 0, 0)]),
  T("fmax_basic", Float2("fmax", F(4), F(8)), [X0 |-> Hex(\h4000, 0, 0, 0)]),
  T("fmin_basic", Float2("fmin", F(4), F(8)), [X0 |-> Hex(\h3FF0, 0, 0, 0)]),
  T("fcmp_eq", Flags(<<<<"fmov", D0, F(4)>>, <<"fmov", D1, F(4)>>, <<"fcmp", D0, D1>>>>),
    [X0 |-> FlagWord({"Z"})])}

\* Floating-point conversions.
FloatConversionTests == {
  T("scvtf_basic", <<Mov(X0, 2), <<"scvtf", D0, X0>>, <<"fmov", X0, D0>>>>,
    [X0 |-> Hex(\h4000, 0, 0, 0)]),
  T("ucvtf_basic", <<Mov(X0, 2), <<"ucvtf", D0, X0>>, <<"fmov", X0, D0>>>>,
    [X0 |-> Hex(\h4000, 0, 0, 0)]),
  T("fcvtzs_basic", <<<<"fmov", D0, F(10)>>, <<"fcvtzs", X0, D0>>>>, [X0 |-> W(2)]),
  T("fcvtzu_basic", <<<<"fmov", D0, F(10)>>, <<"fcvtzu", X0, D0>>>>, [X0 |-> W(2)])}

\* Loads and stores.
MemoryTests == {
  T("ldr_str_basic", OnStack(16, <<Mov(X0, \h1234), <<"str", X0, At(SP, 0)>>, Mov(X0, 0),
      <<"ldr", X0, At(SP, 0)>>>>), [X0 |-> W(\h1234)]),
  T("ldp_stp_basic", OnStack(16, <<Mov(X0, \h1234), Mov(X1, \h5678),
      <<"stp", X0, X1, At(SP, 0)>>, Mov(X0, 0), Mov(X1, 0), <<"ldp", X0, X1, At(SP, 0)>>>>),
    [X0 |-> W(\h1234), X1 |-> W(\h5678)])}

\* Vectors.
VectorTests == {
  T("vadd_4s", Lanewise("add", 32, I(1), I(2)), [X0 |-> Hex(0, 3, 0, 3)]),
  T("vmul_4s", Lanewise("mul", 32, I(2), I(3)), [X0 |-> Hex(0, 6, 0, 6)])}

\* Saturating additions, of general registers.
SaturationTests == {
  T("sqadd_basic", <<Mov(X0, \h7FFF), <<"movk", X0, I(\h7FFF), I(16)>>, <<"movk", X0,
      I(\h7FFF), I(32)>>, <<"movk", X0, I(\h7FFF), I(48)>>, Mov(X1, 1), <<"sqadd", X0, X0,
      X1>>>>, [X0 |-> Hex(\h7FFF, \hFFFF, \hFFFF, \hFFFF)]),
  T("uqadd_basic", <<Mov(X0, \hFFFF), <<"movk", X0, I(\hFFFF), I(16)>>, <<"movk", X0,
      I(\hFFFF), I(32)>>, <<"movk", X0, I(\hFFFF), I(48)>>, Mov(X1, 1), <<"uqadd", X0, X0,
      X1>>>>, [X0 |-> W(-1)])}

Tests ==
  UNION {AddSubTests, ShiftTests, BitFieldTests, MultiplyTests, DivideTests,
    ConditionalSelectTests, BranchTests, CompareTests, SpecialTests,
    FloatTests, FloatConversionTests, MemoryTests, VectorTests,
    SaturationTests}
=============================================================================
