----------------------------- MODULE GenFullA64 -----------------------------
(***************************************************************************)
(* The tests gen_full_a64.py writes into a64_full, by its sections.        *)
(***************************************************************************)
EXTENDS A64Test

\* Extended and shifted operands, and chains of carries.
AddSubTests == {T("add_ext_" \o e[1], <<Mov(X0, 0), Mov(X1, e[3]), <<"add", X0, X0, Extended(X1, e[2], FALSE, 0)>>>>,
     [X0 |-> W(e[3])]) : e \in {<<"uxtb", 8, 255>>, <<"uxth", 16, 255>>, <<"uxtw", 32, 255>>}}
  \cup {T("add_ext_" \o e[1], <<Mov(X0, 0), Mov(X1, 128), <<"add", X0, X0, Extended(X1, e[2], TRUE, 0)>>>>,
       [X0 |-> W(-128)]) : e \in {<<"sxtb", 8>>, <<"sxth", 16>>, <<"sxtw", 32>>}}
  \cup {T("add_lsl_" \o ToString(n), <<Mov(X0, 1), Mov(X1, 1), <<"add", X0, X0, LSL(X1, n)>>>>,
       [X0 |-> IF n < 31 THEN W(1 + 2^n) ELSE {}]) : n \in {0, 4, 31}}
  \cup {T("add_lsr_" \o ToString(n), <<Mov(X0, 1), Mov(X1, 16), <<"add", X0, X0, LSR(X1, 4)>>>>,
       [X0 |-> W(1)]) : n \in {0, 4, 31}} \cup {
  T("sub_ext_uxtb",
    <<Mov(X0, \h100), Mov(X1, 255), <<"sub", X0, X0, Extended(X1, 8, FALSE, 0)>>>>,
    [X0 |-> W(1)]),
  T("adc_chain", <<Mov(X0, 1), Mov(X1, 1), <<"subs", XZR, X1, I(0)>>, <<"adc", X0, X0, X1>>,
      <<"adcs", XZR, XZR, XZR>>, <<"adc", X1, XZR, XZR>>>>, [X0 |-> W(3), X1 |-> W(0)]),
  T("sbc_chain", <<Mov(X0, 5), Mov(X1, 3), <<"subs", XZR, X0, X0>>, <<"sbc", X0, X0, X1>>,
      <<"subs", XZR, XZR, X1>>, <<"sbc", X1, XZR, XZR>>, <<"add", X1, X1, I(3)>>>>,
    [X0 |-> W(0), X1 |-> W(2)])}

\* Multiplications.
MultiplyTests == {
  T("mul_32bit", <<Mov(W0, 2), Mov(W1, 3), <<"mul", W0, W0, W1>>>>, [W0 |-> W(6)]),
  T("madd_32bit", <<Mov(W0, 1), Mov(W1, 2), Mov(W2, 3), <<"madd", W0, W1, W2, W0>>>>,
    [W0 |-> W(7)]),
  T("smull_neg", <<Set(W1, Hex(0, 0, \hFFFF, \hFFF0)), Mov(W2, 1), <<"smull", X0, W1, W2>>>>,
    [X0 |-> W(-16)]),
  T("umull_max", <<Set(W1, Hex(0, 0, \hFFFF, \hFFFF)), Set(W2, Hex(0, 0, \hFFFF, \hFFFF)),
      <<"umull", X0, W1, W2>>>>, [X0 |-> Hex(\hFFFF, \hFFFE, 0, 1)]),
  T("smulh_basic",
    <<Set(X1, Hex(\h7FFF, \hFFFF, \hFFFF, \hFFFF)), Mov(X2, 1), <<"smulh", X0, X1, X2>>>>,
    [X0 |-> W(-1)]),
  T("umulh_basic", <<Set(X1, Hex(0, 0, \hFFFF, \hFFFF)), Set(X2, Hex(0, 0, \hFFFF, \hFFFF)),
      <<"umulh", X0, X1, X2>>>>, [X0 |-> W(0)])}

\* Divisions.
DivideTests == {
  T("sdiv_neg", <<Mov(X0, -12), Mov(X1, 3), <<"sdiv", X0, X0, X1>>>>, [X0 |-> W(-4)]),
  T("sdiv_zero", <<Mov(X0, 42), Mov(X1, 0), <<"sdiv", X0, X0, X1>>>>, [X0 |-> W(0)]),
  T("udiv_zero", <<Mov(X0, 42), Mov(X1, 0), <<"udiv", X0, X0, X1>>>>, [X0 |-> W(0)])}

\* Shifts by the extreme amounts.
ShiftTests == {
  T("lsl_63", <<Mov(X0, 1), <<"lsl", X0, X0, I(63)>>>>, [X0 |-> Hex(\h8000, 0, 0, 0)]),
  T("lsl_reg_63", <<Mov(X0, 1), Mov(X1, 63), <<"lsl", X0, X0, X1>>>>,
    [X0 |-> Hex(\h8000, 0, 0, 0)]),
  T("lsr_63", <<Set(X0, Hex(\h8000, 0, 0, 0)), <<"lsr", X0, X0, I(63)>>>>, [X0 |-> W(1)]),
  T("asr_63", <<Set(X0, Hex(\h8000, 0, 0, 0)), <<"asr", X0, X0, I(63)>>>>, [X0 |-> W(-1)]),
  T("ror_32", <<Mov(X0, 1), <<"ror", X0, X0, I(32)>>>>, [X0 |-> Hex(0, 1, 0, 0)])}

\* Bit fields.
BitFieldTests == {
  T("bfi_lsb0_w8", <<Mov(X0, 255), Mov(X1, 0), <<"bfi", X1, X0, I(0), I(8)>>>>,
    [X1 |-> W(255)]),
  T("bfi_lsb16_w8", <<Mov(X0, 255), Mov(X1, 0), <<"bfi", X1, X0, I(16), I(8)>>>>,
    [X1 |-> W(\hFF0000)]),
  T("bfi_lsb56_w8", <<Mov(X0, 255), Mov(X1, 0), <<"bfi", X1, X0, I(56), I(8)>>>>,
    [X1 |-> Hex(\hFF00, 0, 0, 0)]),
  T("bfxil_basic", <<Mov(X0, 255), Mov(X1, 0), <<"bfxil", X1, X0, I(0), I(8)>>>>,
    [X1 |-> W(255)]),
  T("ubfx_lsb8_w8", <<Mov(X0, \hFF00), <<"ubfx", X0, X0, I(8), I(8)>>>>, [X0 |-> W(15)]),
  T("sbfx_sign_extend", <<Mov(X0, 120), <<"sbfx", X0, X0, I(0), I(4)>>>>, [X0 |-> W(-16)])}

\* Conditional selection after a comparison of equals.
ConditionalSelectTests == {T("csel_" \o cond, <<Mov(X0, 170), Mov(X1, 187), <<"cmp", XZR, XZR>>,
                        <<"csel", X0, X0, X1, C(cond)>>>>, [X0 |-> Malformed])
     : cond \in {"eq", "ne", "cs", "cc", "mi", "pl", "vs", "vc", "hi", "ls", "ge", "lt", "gt", "le"}} \cup {
  T("csinc_eq", <<Mov(X0, 170), <<"cmp", XZR, XZR>>, <<"csinc", X0, X0, XZR, C("eq")>>>>,
    [X0 |-> W(170)]),
  T("csinc_ne", <<Mov(X0, 0), <<"cmp", XZR, XZR>>, <<"csinc", X0, X0, XZR, C("ne")>>>>,
    [X0 |-> W(1)]),
  T("csinv_eq", <<Mov(X0, 170), <<"cmp", XZR, XZR>>, <<"csinv", X0, X0, XZR, C("eq")>>>>,
    [X0 |-> W(170)]),
  T("csneg_eq", <<Mov(X0, 170), <<"cmp", XZR, XZR>>, <<"csneg", X0, X0, XZR, C("eq")>>>>,
    [X0 |-> W(170)]),
  T("cset_eq", <<<<"cmp", XZR, XZR>>, <<"cset", X0, C("eq")>>>>, [X0 |-> W(1)]),
  T("csetm_eq", <<<<"cmp", XZR, XZR>>, <<"csetm", X0, C("eq")>>>>, [X0 |-> W(-1)])}

\* Conditional comparisons.
ConditionalCompareTests == {
  T("ccmp_eq_taken",
    Flags(<<Mov(X0, 0), <<"cmp", X0, I(0)>>, <<"ccmp", X0, I(0), I(0), C("eq")>>>>),
    [X0 |-> FlagWord({"Z", "C"})]),
  T("ccmp_eq_not_taken",
    Flags(<<Mov(X0, 0), <<"cmp", X0, I(1)>>, <<"ccmp", X0, I(0), I(15), C("eq")>>>>),
    [X0 |-> W(15)])}

\* Branches, taken and not taken.
BranchTests == {
  T("b_eq_taken", Taken(<<<<"cmp", XZR, XZR>>>>, <<"b.cond", C("eq")>>), [X0 |-> W(1)]),
  T("b_ne_not_taken", Taken(<<<<"cmp", XZR, XZR>>>>, <<"b.cond", C("ne")>>), [X0 |-> W(0)]),
  T("cbz_taken", Taken(<<Mov(X1, 0)>>, <<"cbz", X1>>), [X0 |-> W(1)]),
  T("cbnz_taken", Taken(<<Mov(X1, 1)>>, <<"cbnz", X1>>), [X0 |-> W(1)]),
  T("tbz_bit0", Taken(<<Mov(X1, 0)>>, <<"tbz", X1, I(0)>>), [X0 |-> W(1)]),
  T("tbnz_bit0", Taken(<<Mov(X1, 1)>>, <<"tbnz", X1, I(0)>>), [X0 |-> W(1)]),
  T("tbz_bit63", Taken(<<Mov(X1, 0), <<"movk", X1, I(0), I(48)>>>>, <<"tbz", X1, I(63)>>),
    [X0 |-> W(1)])}

\* Floating-point arithmetic.
FloatTests == {
  T("fadd_basic", Float2("fadd", F(4), F(8)), [X0 |-> Hex(\h4008, 0, 0, 0)]),
  T("fsub_basic", Float2("fsub", F(8), F(4)), [X0 |-> Hex(\h3FF0, 0, 0, 0)]),
  T("fmul_basic", Float2("fmul", F(8), F(8)), [X0 |-> Hex(\h4010, 0, 0, 0)]),
  T("fdiv_basic", Float2("fdiv", F(8), F(8)), [X0 |-> Hex(\h3FF0, 0, 0, 0)]),
  T("fmax_basic", Float2("fmax", F(4), F(8)), [X0 |-> Hex(\h4000, 0, 0, 0)]),
  T("fmin_basic", Float2("fmin", F(4), F(8)), [X0 |-> Hex(\h3FF0, 0, 0, 0)]),
  T("fnmul_basic", Float2("fnmul", F(4), F(8)), [X0 |-> Hex(\hC000, 0, 0, 0)]),
  T("fsqrt_basic", Float1("fsqrt", F(16)), [X0 |-> Hex(\h4000, 0, 0, 0)]),
  T("fabs_basic", Float1("fabs", F(-8)), [X0 |-> Hex(\h4000, 0, 0, 0)]),
  T("fneg_basic", Float1("fneg", F(8)), [X0 |-> Hex(\hC000, 0, 0, 0)])}

\* Floating-point comparison, conversion and rounding.
FloatConversionTests == {
  T("fcmp_eq", Flags(<<<<"fmov", D0, F(4)>>, <<"fmov", D1, F(4)>>, <<"fcmp", D0, D1>>>>),
    [X0 |-> FlagWord({"Z", "C"})]),
  T("fcmp_lt", Flags(<<<<"fmov", D0, F(4)>>, <<"fmov", D1, F(8)>>, <<"fcmp", D0, D1>>>>),
    [X0 |-> FlagWord({"N"})]),
  T("fcvt_s_d", <<<<"fmov", D0, F(8)>>, <<"fcvt", S(0), D0>>, <<"fmov", W0, S(0)>>>>,
    [X0 |-> W(\h40000000)]),
  T("fcvt_d_s", <<<<"fmov", S(0), F(8)>>, <<"fcvt", D0, S(0)>>, <<"fmov", X0, D0>>>>,
    [X0 |-> Hex(\h4000, 0, 0, 0)]),
  T("scvtf_basic", <<Mov(X0, 2), <<"scvtf", D0, X0>>, <<"fmov", X0, D0>>>>,
    [X0 |-> Hex(\h4000, 0, 0, 0)]),
  T("ucvtf_basic", <<Mov(X0, 2), <<"ucvtf", D0, X0>>, <<"fmov", X0, D0>>>>,
    [X0 |-> Hex(\h4000, 0, 0, 0)]),
  T("fcvtzs_basic", <<<<"fmov", D0, F(10)>>, <<"fcvtzs", X0, D0>>>>, [X0 |-> W(2)]),
  T("fcvtzu_basic", <<<<"fmov", D0, F(10)>>, <<"fcvtzu", X0, D0>>>>, [X0 |-> W(2)]),
  T("frintm_basic", Float1("frintm", F(10)), [X0 |-> Hex(\h4000, 0, 0, 0)]),
  T("frintp_basic", Float1("frintp", F(10)), [X0 |-> Hex(\h4008, 0, 0, 0)]),
  T("frintz_basic", Float1("frintz", F(10)), [X0 |-> Hex(\h4000, 0, 0, 0)]),
  T("frintn_basic", Float1("frintn", F(10)), [X0 |-> Hex(\h4000, 0, 0, 0)])}

\* Vectors.
VectorTests == {
  T("vadd_4s", Lanewise("add", 32, I(1), I(2)), [X0 |-> Hex(0, 3, 0, 3)]),
  T("vsub_4s", Lanewise("sub", 32, I(1), I(2)), [X0 |-> W(-1)]),
  T("vmul_4s", Lanewise("mul", 32, I(2), I(3)), [X0 |-> Hex(0, 6, 0, 6)]),
  T("vand_16b", Lanewise("and", 8, I(255), I(240)), [X0 |-> W(240)]),
  T("vorr_16b", Lanewise("orr", 8, I(15), I(240)), [X0 |-> W(-1)]),
  T("veor_16b", Lanewise("eor", 8, I(255), I(255)), [X0 |-> W(0)])}

\* Loads and stores.
MemoryTests == {
  T("ldr_str_basic", OnStack(16, <<Mov(X0, \h1234), <<"str", X0, At(SP, 0)>>, Mov(X0, 0),
      <<"ldr", X0, At(SP, 0)>>>>), [X0 |-> W(\h1234)]),
  T("ldp_stp_basic", OnStack(16, <<Mov(X0, \h1234), Mov(X1, \h5678),
      <<"stp", X0, X1, At(SP, 0)>>, Mov(X0, 0), Mov(X1, 0), <<"ldp", X0, X1, At(SP, 0)>>>>),
    [X0 |-> W(\h1234), X1 |-> W(\h5678)]),
  T("ldur_stur_basic", OnStack(32, <<Mov(X0, \h1234), <<"stur", X0, At(SP, -8)>>, Mov(X0, 0),
      <<"ldur", X0, At(SP, -8)>>>>), [X0 |-> W(\h1234)]),
  T("ldr_pre_index", OnStack(32, <<Mov(X0, \h1234), <<"str", X0, At(SP, 8)>>, Mov(X0, 0),
      <<"mov", X1, SP>>, <<"ldr", X0, Pre(X1, 8)>>>>), [X0 |-> W(\h1234), X1 |-> W(\h1008)])}

\* Counting and reversing bits.
SpecialTests == {
  T("clz_basic", <<Mov(X0, 1), <<"clz", X0, X0>>>>, [X0 |-> W(63)]),
  T("clz_zero", <<Mov(X0, 0), <<"clz", X0, X0>>>>, [X0 |-> W(64)]),
  T("rbit_basic", <<Mov(X0, 1), <<"rbit", X0, X0>>>>, [X0 |-> Hex(\h8000, 0, 0, 0)]),
  T("rev16_basic", <<Mov(X0, 18), <<"movk", X0, I(\h3456), I(16)>>, <<"movk", X0, I(120),
      I(32)>>, <<"rev16", X0, X0>>>>, [X0 |-> Hex(\h3412, \h7856, 0, 0)]),
  T("rev32_basic", <<Mov(X0, 18), <<"movk", X0, I(\h3456), I(16)>>, <<"movk", X0, I(120),
      I(32)>>, <<"rev32", X0, X0>>>>, [X0 |-> Hex(\h7800, 0, \h1200, \h5634)]),
  T("rev64_basic", <<Mov(X0, 120), <<"movk", X0, I(\h1234), I(16)>>, <<"movk", X0, I(86),
      I(32)>>, <<"rev64", X0, X0>>>>, [X0 |-> Hex(\h56, \h3412, 0, \h78)]),
  T("extr_basic", <<Mov(X0, \h1234), Mov(X1, 0), <<"extr", X0, X1, X0, I(0)>>>>,
    [X0 |-> W(\h1234)]),
  T("movk_basic", <<Mov(X0, 0), <<"movk", X0, I(1), I(16)>>>>, [X0 |-> W(\h10000)]),
  T("movz_basic", <<<<"movz", X0, I(1), I(16)>>>>, [X0 |-> W(\h10000)]),
  T("movn_basic", <<<<"movn", X0, I(1)>>>>, [X0 |-> W(-2)])}

\* Flags at the extremes.
FlagTests == {
  T("adds_overflow",
    Flags(<<Set(X0, Hex(\h7FFF, \hFFFF, \hFFFF, \hFFFF)), <<"adds", X0, X0, I(1)>>>>),
    [X0 |-> FlagWord({"C", "V"})]),
  T("subs_borrow", Flags(<<Mov(X0, 0), <<"subs", X0, X0, I(1)>>>>), [X0 |-> FlagWord({"C"})])}

\* One register as source and destination.
OverlapTests == {
  T("reg_overlap_add", <<Mov(X0, 1), <<"add", X0, X0, X0>>, <<"add", X0, X0, X0>>>>,
    [X0 |-> W(4)]),
  T("reg_overlap_mul", <<Mov(X0, 2), <<"mul", X0, X0, X0>>, <<"mul", X0, X0, X0>>>>,
    [X0 |-> W(16)])}

Tests ==
  UNION {AddSubTests, MultiplyTests, DivideTests, ShiftTests, BitFieldTests,
    ConditionalSelectTests, ConditionalCompareTests, BranchTests, FloatTests,
    FloatConversionTests, VectorTests, MemoryTests, SpecialTests, FlagTests,
    OverlapTests}
=============================================================================
