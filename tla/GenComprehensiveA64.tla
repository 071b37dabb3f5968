------------------------ MODULE GenComprehensiveA64 -------------------------
(***************************************************************************)
(* The tests gen_comprehensive_a64.py writes into a64_comprehensive, by    *)
(* its sections, but for adr_basic: its result is the address the test is  *)
(* loaded at.                                                              *)
(***************************************************************************)
EXTENDS A64Test

Conditions == {"eq", "ne", "cs", "cc", "mi", "pl", "vs", "vc",
               "hi", "ls", "ge", "lt", "gt", "le"}

\* Extended operands and chains of carries.
AddSubTests == {T("add_ext_" \o e \o "_lsl" \o ToString(n),
     <<Mov(X1, \h8000), <<"movk", X1, I(\h8000), I(16)>>,
       <<"movk", X1, I(\h8000), I(32)>>, <<"movk", X1, I(\h8000), I(48)>>, Mov(X0, \h1000),
       <<"add", X0, X0, ExtendedLSL(X1, n)>>>>, [X0 |-> W(\h1234)])
     : n \in 0..4, e \in {"uxtb", "uxth", "uxtw", "uxtx", "sxtb", "sxth", "sxtw", "sxtx"}}
  \cup {T("sub_ext_" \o e[1],
          <<Mov(X1, 255), <<"movk", X1, I(\hFF00), I(16)>>, Mov(X0, \h8000),
            <<"sub", X0, X0, Extended(X1, e[2], e[3], 0)>>>>, [X0 |-> W(\h7FFF)])
       : e \in {<<"uxtb", 8, FALSE>>, <<"uxth", 16, FALSE>>, <<"uxtw", 32, FALSE>>, <<"uxtx", 64, FALSE>>,
                <<"sxtb", 8, TRUE>>, <<"sxth", 16, TRUE>>, <<"sxtw", 32, TRUE>>, <<"sxtx", 64, TRUE>>}} \cup {
  T("adc_long_chain", <<Mov(X0, 0), Mov(X1, 0), <<"adds", X0, X0, I(1)>>, <<"adcs", X1, X1,
      XZR>>, <<"adcs", X1, X1, XZR>>, <<"adc", X0, XZR, XZR>>>>, [X0 |-> W(0), X1 |-> W(-1)]),
  T("sbc_chain", <<Mov(X0, 0), Mov(X1, 1), <<"subs", X2, X0, I(1)>>, <<"sbc", X0, X0, XZR>>,
      <<"sbc", X1, XZR, XZR>>>>, [X0 |-> W(0), X1 |-> W(1)])}

\* Rotations.
ShiftTests == {
  T("ror_edge", <<Mov(X0, 15), <<"movk", X0, I(\hF000), I(48)>>, <<"ror", X0, X0, I(4)>>>>,
    [X0 |-> Hex(\hF000, 0, 0, \hF)]),
  T("ror_reg",
    <<Mov(X0, 15), <<"movk", X0, I(\hF000), I(48)>>, Mov(X1, 8), <<"ror", X0, X0, X1>>>>,
    [X0 |-> Hex(\hF00, 0, 0, \hF0)])}

\* Bit fields, inserted and taken.
BitFieldTests == {T("bfi_lsb" \o ToString(lsb) \o "_w" \o ToString(w),
     <<Mov(X0, 255), <<"movk", X0, I(\hFFFF), I(16)>>, <<"movk", X0, I(\hFFFF), I(32)>>, Mov(X1, 0),
       <<"bfi", X1, X0, I(lsb), I(w)>>>>, [X1 |-> Hex(0, 0, \hFFFF, \hFFFF)])
     : lsb \in {0, 8, 16, 24}, w \in {1, 8, 16}} \cup {
  T("bfxil_basic", <<Mov(X0, 255), Mov(X1, \h5678), <<"movk", X1, I(\h1234), I(16)>>,
      <<"bfxil", X1, X0, I(0), I(8)>>>>, [X1 |-> W(\hFF78)]),
  T("sbfx_negative",
    <<Mov(X0, 248), <<"movk", X0, I(0), I(16)>>, <<"sbfx", X0, X0, I(3), I(5)>>>>,
    [X0 |-> W(-8)]),
  T("ubfx_basic", <<Mov(X0, 248), <<"ubfx", X0, X0, I(2), I(5)>>>>, [X0 |-> W(30)])}

\* Comparisons on a condition, with the flags expected in x0.
ConditionalCompareTests == {T("ccmp_" \o cond,
     <<Mov(X0, 0), <<"cmp", X0, I(0)>>, <<"ccmp", X0, I(1), I(8), C(cond)>>>>,
     [X0 |-> W(2^28)]) : cond \in Conditions \cup {"al"}} \cup {
  T("ccmn_basic", <<Mov(X0, 0), <<"cmp", X0, I(0)>>, <<"ccmn", X0, I(1), I(0), C("eq")>>>>,
    [X0 |-> W(\h20000000)])}

\* Conditional selection after a comparison of equals.
ConditionalSelectTests == {T("csel_" \o cond, <<Mov(X0, 170), Mov(X1, 187), <<"cmp", XZR, XZR>>,
                        <<"csel", X0, X0, X1, C(cond)>>>>, [X0 |-> W(170)]) : cond \in Conditions} \cup {
  T("csinc_basic", <<Mov(X0, 169), <<"cmp", XZR, XZR>>, <<"csinc", X0, X0, XZR, C("eq")>>>>,
    [X0 |-> W(170)]),
  T("csinv_basic", <<Mov(X0, 170), <<"cmp", XZR, XZR>>, <<"csinv", X0, X0, XZR, C("eq")>>>>,
    [X0 |-> W(-171)]),
  T("csneg_basic", <<Mov(X0, 170), <<"cmp", XZR, XZR>>, <<"csneg", X0, X0, XZR, C("eq")>>>>,
    [X0 |-> W(-170)]),
  T("cset_basic", <<<<"cmp", XZR, XZR>>, <<"cset", X0, C("eq")>>, <<"cset", X1, C("ne")>>>>,
    [X0 |-> W(1), X1 |-> W(0)]),
  T("csetm_basic",
    <<<<"cmp", XZR, XZR>>, <<"csetm", X0, C("eq")>>, <<"csetm", X1, C("ne")>>>>,
    [X0 |-> W(-1), X1 |-> W(0)])}

\* Branches, every condition after a comparison of equals.
BranchTests == {T("bcond_" \o cond, Taken(<< <<"cmp", XZR, XZR>> >>, <<"b.cond", C(cond)>>), [X0 |-> W(1)])
     : cond \in Conditions} \cup {
  T("cbz_basic", Taken(<<>>, <<"cbz", X0>>), [X0 |-> W(1)]),
  T("cbnz_basic", <<Mov(X0, 1), <<"cbnz", X0, L(1)>>, Mov(X0, 0), <<"b", L(2)>>, <<"label",
      L(1)>>, Mov(X0, 1), <<"label", L(2)>>>>, [X0 |-> W(1)]),
  T("tbz_basic", Taken(<<Mov(X1, 0)>>, <<"tbz", X1, I(0)>>), [X0 |-> W(1)]),
  T("tbnz_basic", Taken(<<Mov(X1, 1)>>, <<"tbnz", X1, I(0)>>), [X0 |-> W(1)])}

\* Multiplications.
MultiplyTests == {
  T("mul_overflow", <<Mov(X0, \h8000), <<"movk", X0, I(0), I(16)>>, <<"mul", X0, X0, X0>>,
      <<"cmp", X0, I(\h40000000)>>, <<"cset", X0, C("eq")>>>>, [X0 |-> W(1)]),
  T("smull_basic", <<Mov(W1, \hFFFF), Mov(W2, 1), <<"smull", X0, W1, W2>>>>,
    [X0 |-> W(-131071)]),
  T("umull_basic", <<Mov(W1, \hFFFF), Mov(W2, 1), <<"umull", X0, W1, W2>>>>,
    [X0 |-> Hex(0, 0, \hFFFE, 1)]),
  T("smulh_basic",
    <<Mov(X1, \h8000), <<"movk", X1, I(0), I(16)>>, Mov(X2, 2), <<"smulh", X0, X1, X2>>>>,
    [X0 |-> W(-1)]),
  T("madd_basic", <<Mov(X0, 1), Mov(X1, 2), Mov(X2, 3), <<"madd", X0, X1, X2, X0>>>>,
    [X0 |-> W(7)]),
  T("msub_basic", <<Mov(X0, 1), Mov(X1, 2), Mov(X2, 3), <<"msub", X0, X1, X2, X0>>>>,
    [X0 |-> W(-7)])}

\* Divisions.
DivideTests == {
  T("sdiv_zero", <<Mov(X0, 42), Mov(X1, 0), <<"sdiv", X0, X0, X1>>>>, [X0 |-> W(0)]),
  T("udiv_zero", <<Mov(X0, 42), Mov(X1, 0), <<"udiv", X0, X0, X1>>>>, [X0 |-> W(0)]),
  T("sdiv_negative", <<Mov(X0, -12), Mov(X1, 3), <<"sdiv", X0, X0, X1>>>>, [X0 |-> W(-4)])}

\* Saturating operations, of general registers.
SaturationTests == {
  T("sqadd_basic", <<Mov(X0, \h7FFF), <<"movk", X0, I(\h7FFF), I(16)>>, <<"movk", X0,
      I(\h7FFF), I(32)>>, <<"movk", X0, I(\h7FFF), I(48)>>, Mov(X1, \h1000), <<"sqadd", X0,
      X0, X1>>>>, [X0 |-> Hex(\h7FFF, \hFFFF, \hFFFF, \hFFFF)]),
  T("uqadd_basic", <<Mov(X0, \hFFFF), <<"movk", X0, I(\hFFFF), I(16)>>, <<"movk", X0,
      I(\hFFFF), I(32)>>, <<"movk", X0, I(\hFFFF), I(48)>>, Mov(X1, 1), <<"uqadd", X0, X0,
      X1>>>>, [X0 |-> W(-1)]),
  T("sqsub_basic", <<Mov(X0, 0), Mov(X1, 1), <<"sqsub", X0, X0, X1>>>>,
    [X0 |-> Hex(\h8000, 0, 0, 0)])}

\* Counting and reversing bits.
SpecialTests == {
  T("clz_basic", <<Mov(X0, 1), <<"clz", X0, X0>>>>, [X0 |-> W(32)]),
  T("clz_zero", <<Mov(X0, 0), <<"clz", X0, X0>>>>, [X0 |-> W(64)]),
  T("rbit_basic", <<Mov(X0, 1), <<"rbit", X0, X0>>>>, [X0 |-> Hex(\h8000, 0, 0, 0)]),
  T("rev_basic", <<Mov(X0, 18), <<"movk", X0, I(\h3456), I(16)>>, <<"movk", X0, I(120),
      I(32)>>, <<"rev32", X0, X0>>>>, [X0 |-> Hex(\h7856, \h3412, 0, 0)])}

\* Floating-point arithmetic: the result is stated as a vector of one element.
FloatTests == {
  T("fadd_inf", <<<<"fmov", D0, F(4)>>, <<"fmov", D1, F(8)>>, <<"fadd", D0, D0, D1>>>>,
    [D0 |-> Hex(\h7FF0, 0, 0, 0)]),
  TV("fmul_zero", <<<<"fmov", D0, F(4)>>, <<"fmov", D1, F(0)>>, <<"fmul", D0, D0, D1>>>>,
    [D0 |-> <<Double(0)>>]),
  TV("fmax_basic", <<<<"fmov", D0, F(4)>>, <<"fmov", D1, F(8)>>, <<"fmax", D0, D0, D1>>>>,
    [D0 |-> <<Double(8)>>]),
  TV("fmin_basic", <<<<"fmov", D0, F(4)>>, <<"fmov", D1, F(8)>>, <<"fmin", D0, D0, D1>>>>,
    [D0 |-> <<Double(4)>>]),
  TV("fnmul_basic", <<<<"fmov", D0, F(4)>>, <<"fmov", D1, F(8)>>, <<"fnmul", D0, D0, D1>>>>,
    [D0 |-> <<Double(-8)>>]),
  TV("fsqrt_basic", <<<<"fmov", D0, F(16)>>, <<"fsqrt", D0, D0>>>>, [D0 |-> <<Double(8)>>]),
  TV("fabs_basic", <<<<"fmov", D0, F(-8)>>, <<"fabs", D0, D0>>>>, [D0 |-> <<Double(8)>>]),
  TV("fneg_basic", <<<<"fmov", D0, F(8)>>, <<"fneg", D0, D0>>>>, [D0 |-> <<Double(-8)>>])}

\* Floating-point comparison, conversion and rounding.
FloatConversionTests == {
  T("fcmp_eq", <<<<"fmov", D0, F(4)>>, <<"fmov", D1, F(4)>>, <<"fcmp", D0, D1>>, <<"cset", X0,
      C("eq")>>>>, [X0 |-> W(1)]),
  T("fcmp_lt", <<<<"fmov", D0, F(4)>>, <<"fmov", D1, F(8)>>, <<"fcmp", D0, D1>>, <<"cset", X0,
      C("mi")>>>>, [X0 |-> W(1)]),
  TV("fcvt_s_f", <<<<"fmov", D0, F(8)>>, <<"fcvt", S(0), D0>>>>, [S0 |-> <<Single(8)>>]),
  TV("fcvt_d_s", <<<<"fmov", S(0), F(8)>>, <<"fcvt", D0, S(0)>>>>, [D0 |-> <<Double(8)>>]),
  TV("scvtf_basic", <<Mov(X0, 2), <<"scvtf", D0, X0>>>>, [D0 |-> <<Double(8)>>]),
  TV("ucvtf_basic", <<Mov(X0, 2), <<"ucvtf", D0, X0>>>>, [D0 |-> <<Double(8)>>]),
  T("fcvtzs_basic", <<<<"fmov", D0, Inexact>>, <<"fcvtzs", X0, D0>>>>, [X0 |-> W(2)]),
  T("fcvtzu_basic", <<<<"fmov", D0, Inexact>>, <<"fcvtzu", X0, D0>>>>, [X0 |-> W(2)]),
  T("fmov_gpr_fpr", <<Mov(X0, 66), <<"fmov", D0, X0>>, <<"fmov", X0, D0>>>>, [X0 |-> W(66)]),
  TV("frintm_basic", <<<<"fmov", D0, Inexact>>, <<"frintm", D0, D0>>>>,
    [D0 |-> <<Double(8)>>]),
  TV("frintp_basic", <<<<"fmov", D0, Inexact>>, <<"frintp", D0, D0>>>>,
    [D0 |-> <<Double(12)>>]),
  TV("frintz_basic", <<<<"fmov", D0, Inexact>>, <<"frintz", D0, D0>>>>,
    [D0 |-> <<Double(8)>>])}

\* Vectors.
VectorTests == {
  TV("vadd_4s", <<<<"movi", V(0, 32), I(1)>>, <<"movi", V(1, 32), I(2)>>, <<"add", V(0, 32),
      V(0, 32), V(1, 32)>>>>, [V0 |-> <<Hex(0, 3, 0, 3), W(0)>>]),
  TV("vsub_4s", <<<<"movi", V(0, 32), I(1)>>, <<"movi", V(1, 32), I(2)>>, <<"sub", V(0, 32),
      V(0, 32), V(1, 32)>>>>, [V0 |-> <<W(-1), W(-1)>>]),
  TV("vmul_4s", <<<<"movi", V(0, 32), I(2)>>, <<"movi", V(1, 32), I(3)>>, <<"mul", V(0, 32),
      V(0, 32), V(1, 32)>>>>, [V0 |-> <<Hex(0, 6, 0, 6), Hex(0, 6, 0, 6)>>]),
  TV("vand_16b", <<<<"movi", V(0, 8), I(255)>>, <<"movi", V(1, 8), I(240)>>, <<"and", V(0, 8),
      V(0, 8), V(1, 8)>>>>, [V0 |-> <<W(240), W(0)>>]),
  TV("vorr_16b", <<<<"movi", V(0, 8), I(15)>>, <<"movi", V(1, 8), I(240)>>, <<"orr", V(0, 8),
      V(0, 8), V(1, 8)>>>>, [V0 |-> <<W(-1), W(-1)>>]),
  TV("veor_16b", <<<<"movi", V(0, 8), I(255)>>, <<"movi", V(1, 8), I(255)>>, <<"eor", V(0, 8),
      V(0, 8), V(1, 8)>>>>, [V0 |-> <<W(-1), W(-1)>>])}

\* Loads and stores.
MemoryTests == {
  T("ldr_str_pre", <<<<"sub", SP, SP, I(32)>>, Mov(X0, \h1234), <<"str", X0, Pre(SP, 8)>>,
      Mov(X0, 0), <<"ldr", X0, Post(SP, 8)>>, <<"add", SP, SP, I(8)>>>>, [X0 |-> W(\h1234)]),
  T("ldr_str_post", <<<<"sub", SP, SP, I(32)>>, Mov(X0, \h1234), <<"str", X0, Post(SP, 8)>>,
      Mov(X0, 0), <<"ldr", X0, Pre(SP, -8)>>, <<"add", SP, SP, I(16)>>>>, [X0 |-> W(\h1234)]),
  T("ldp_stp_basic", OnStack(32, <<Mov(X0, \h1234), Mov(X1, \h5678),
      <<"stp", X0, X1, At(SP, 0)>>, Mov(X0, 0), Mov(X1, 0), <<"ldp", X0, X1, At(SP, 0)>>>>),
    [X0 |-> W(\h1234), X1 |-> W(\h5678)]),
  T("ldur_stur_basic", OnStack(32, <<Mov(X0, \h1234), <<"stur", X0, At(SP, -8)>>, Mov(X0, 0),
      <<"ldur", X0, At(SP, -8)>>>>), [X0 |-> W(\h1234)]),
  T("ldxr_stxr_basic", OnStack(32, <<Mov(X1, \h1234), <<"stxr", W0, X1, At(SP, 0)>>>>),
    [X0 |-> W(0), X1 |-> W(\h1234)])}

\* Flags and barriers.
SystemTests == {
  T("msr_nzcv", Flags(<<Set(X0, Hex(0, 0, \hF000, 0)), <<"msr", X0>>>>),
    [X0 |-> FlagWord({"N", "Z", "C", "V"})]),
  T("dmb_basic", <<Mov(X0, 1), <<"barrier">>>>, [X0 |-> W(1)]),
  T("dsb_basic", <<Mov(X0, 1), <<"barrier">>>>, [X0 |-> W(1)])}

\* Moves and extraction.
MoveTests == {
  T("mov_alias", <<Mov(X1, \h1234), <<"mov", X0, X1>>>>, [X0 |-> W(\h1234)]),
  T("movk_basic", <<Mov(X0, \hDEF0), <<"movk", X0, I(\h9ABC), I(16)>>, <<"movk", X0,
      I(\h5678), I(32)>>, <<"movk", X0, I(\h1234), I(48)>>>>,
    [X0 |-> Hex(\h1234, \h5678, \h9ABC, \hDEF0)]),
  T("movn_basic", <<<<"movn", X0, I(\hF00)>>>>, [X0 |-> W(-3841)]),
  T("extr_basic", <<Mov(X0, \h1234), Mov(X1, 0), <<"extr", X0, X1, X0, I(0)>>>>,
    [X0 |-> W(\h1234)])}

\* Flags, copied through x1.
FlagTests == {
  T("adds_all_flags",
    <<Mov(X0, 0), <<"adds", X0, X0, I(0)>>, <<"mrs", X1>>, <<"mov", X0, X1>>>>,
    [X0 |-> W(\h30000000)]),
  T("subs_all_flags",
    <<Mov(X0, 1), <<"subs", X0, X0, I(1)>>, <<"mrs", X1>>, <<"mov", X0, X1>>>>,
    [X0 |-> W(\h30000000)])}

\* The same register as source and destination.
OverlapTests == {
  T("reg_overlap_add", <<Mov(X0, 1), <<"add", X0, X0, X0>>, <<"add", X0, X0, X0>>>>,
    [X0 |-> W(4)]),
  T("reg_overlap_mul", <<Mov(X0, 2), <<"mul", X0, X0, X0>>, <<"mul", X0, X0, X0>>>>,
    [X0 |-> W(16)])}

Tests ==
  UNION {AddSubTests, ShiftTests, BitFieldTests, ConditionalCompareTests,
    ConditionalSelectTests, BranchTests, MultiplyTests, DivideTests,
    SaturationTests, SpecialTests, FloatTests, FloatConversionTests,
    VectorTests, MemoryTests, SystemTests, MoveTests, FlagTests, OverlapTests}
=============================================================================
