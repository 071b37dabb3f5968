---------------------------- MODULE GenAllA64v3 -----------------------------
(***************************************************************************)
(* The tests gen_all_a64_v3.py writes into a64_all, by its sections.  Its  *)
(* print and its directory are in GeneratedTests.                          *)
(***************************************************************************)
EXTENDS A64Test

\* Integer addition and subtraction, with shifted and extended operands.
AddSubTests == {
  T("add_imm", <<Mov(X0, 0), <<"add", X0, X0, I(\h1000)>>>>, [X0 |-> W(\h1000)]),
  T("add_reg", <<Mov(X0, 1), Mov(X1, 2), <<"add", X0, X0, X1>>>>, [X0 |-> W(3)]),
  T("add_lsl", <<Mov(X0, 1), Mov(X1, 1), <<"add", X0, X0, LSL(X1, 2)>>>>, [X0 |-> W(5)]),
  T("add_lsr", <<Mov(X0, 1), Mov(X1, 16), <<"add", X0, X0, LSR(X1, 2)>>>>, [X0 |-> W(5)]),
  T("add_ext_sxtb", <<Mov(X0, 0), Mov(W1, 128), <<"add", X0, X0, Extended(W1, 8, TRUE, 0)>>>>,
    [X0 |-> W(-128)]),
  T("add_ext_sxth",
    <<Mov(X0, 0), Mov(W1, 128), <<"add", X0, X0, Extended(W1, 16, TRUE, 0)>>>>,
    [X0 |-> W(128)]),
  T("add_ext_sxtw",
    <<Mov(X0, 0), Mov(W1, 128), <<"add", X0, X0, Extended(W1, 32, TRUE, 0)>>>>,
    [X0 |-> W(128)]),
  T("add_ext_uxtw",
    <<Mov(X0, 0), Mov(W1, 128), <<"add", X0, X0, Extended(W1, 32, FALSE, 0)>>>>,
    [X0 |-> W(128)]),
  T("sub_imm", <<Mov(X0, 0), <<"sub", X0, X0, I(8)>>>>, [X0 |-> W(-8)]),
  T("sub_reg", <<Mov(X0, 5), Mov(X1, 2), <<"sub", X0, X0, X1>>>>, [X0 |-> W(3)])}

\* The flags of additions and subtractions, and the carry.
AddSubFlagsTests == {
  T("adds_z_flag", Flags(<<Mov(X0, 0), <<"adds", X0, X0, I(0)>>>>), [X0 |-> FlagWord({"Z"})]),
  T("adds_n_flag", Flags(<<Mov(X0, -1), <<"adds", X0, X0, I(0)>>>>), [X0 |-> FlagWord({"N"})]),
  T("adds_c_flag", Flags(<<Mov(X0, -1), <<"adds", X0, X0, I(1)>>>>),
    [X0 |-> FlagWord({"Z", "C"})]),
  T("adds_v_flag",
    Flags(<<Set(X0, Hex(\h7FFF, \hFFFF, \hFFFF, \hFFFF)), <<"adds", X0, X0, I(1)>>>>),
    [X0 |-> FlagWord({"N", "V"})]),
  T("subs_zc_flags", Flags(<<Mov(X0, 1), <<"subs", X0, X0, I(1)>>>>),
    [X0 |-> FlagWord({"Z", "C"})]),
  T("adc_basic",
    <<Mov(X0, 1), Mov(X1, 1), <<"subs", XZR, X1, I(0)>>, <<"adc", X0, X0, XZR>>>>,
    [X0 |-> W(2)]),
  T("sbc_basic", <<Mov(X0, 5), Mov(X1, 3), <<"subs", XZR, X0, X0>>, <<"sbc", X0, X0, X1>>>>,
    [X0 |-> W(2)])}

\* Logical operations.
LogicalTests == {T(r[1] \o "_reg", <<Mov(X0, r[3]), Mov(X1, r[4]), <<r[1], X0, X0, X1>>>>, [X0 |-> W(r[2])])
     : r \in {<<"and", 240, 255, 240>>, <<"orr", 255, 240, 15>>, <<"eor", 255, 240, 15>>,
              <<"bic", 15, 255, 240>>, <<"orn", -16, 0, 15>>}} \cup {
  T("eon_reg", <<Mov(X0, 240), Mov(X1, 15), <<"eon", X0, X0, X1>>>>, [X0 |-> W(-256)]),
  T("ands_z_flag", Flags(<<Mov(X0, 1), <<"ands", X0, X0, XZR>>>>), [X0 |-> FlagWord({"Z"})]),
  T("ands_n_flag", Flags(<<Set(X0, Hex(\h8000, 0, 0, 0)), <<"ands", X0, X0, X0>>>>),
    [X0 |-> FlagWord({"N"})])}

\* Shifts by a constant and by a register.
ShiftTests == {
  T("lsl_imm", <<Mov(X0, 1), <<"lsl", X0, X0, I(4)>>>>, [X0 |-> W(16)]),
  T("lsr_imm", <<Mov(X0, 240), <<"lsr", X0, X0, I(4)>>>>, [X0 |-> W(15)]),
  T("asr_imm", <<Set(X0, Hex(\h8000, 0, 0, 0)), <<"asr", X0, X0, I(60)>>>>, [X0 |-> W(-8)]),
  T("ror_imm", <<Mov(X0, 15), <<"ror", X0, X0, I(4)>>>>, [X0 |-> Hex(\hF000, 0, 0, 0)]),
  T("lsl_reg", <<Mov(X0, 1), Mov(X1, 4), <<"lsl", X0, X0, X1>>>>, [X0 |-> W(16)]),
  T("lsr_reg", <<Mov(X0, 240), Mov(X1, 4), <<"lsr", X0, X0, X1>>>>, [X0 |-> W(15)]),
  T("asr_reg", <<Set(X0, Hex(\h8000, 0, 0, 0)), Mov(X1, 60), <<"asr", X0, X0, X1>>>>,
    [X0 |-> W(-8)]),
  T("ror_reg", <<Mov(X0, 15), Mov(X1, 60), <<"ror", X0, X0, X1>>>>, [X0 |-> W(240)]),
  T("lsl_63", <<Mov(X0, 1), <<"lsl", X0, X0, I(63)>>>>, [X0 |-> Hex(\h8000, 0, 0, 0)]),
  T("lsr_63", <<Set(X0, Hex(\h8000, 0, 0, 0)), <<"lsr", X0, X0, I(63)>>>>, [X0 |-> W(1)])}

\* Bit fields and wide moves.
BitFieldTests == {T("bfi_lsb" \o ToString(lsb), <<Mov(X0, 255), Mov(X1, 0), <<"bfi", X1, X0, I(lsb), I(8)>>>>,
     [X1 |-> Shl(Bits(255), lsb, 64)]) : lsb \in {0, 8, 16, 24, 32, 48, 56}} \cup {
  T("ubfx_basic", <<Mov(X0, \hFF00), <<"ubfx", X0, X0, I(8), I(8)>>>>, [X0 |-> W(255)]),
  T("sbfx_sign", <<Mov(X0, 120), <<"sbfx", X0, X0, I(3), I(4)>>>>, [X0 |-> W(8)]),
  T("movk_basic", <<Mov(X0, 0), <<"movk", X0, I(1), I(16)>>>>, [X0 |-> W(\h10000)]),
  T("movz_basic", <<<<"movz", X0, I(1), I(16)>>>>, [X0 |-> W(\h10000)]),
  T("movn_basic", <<<<"movn", X0, I(1)>>>>, [X0 |-> W(-2)])}

\* Multiplications.
MultiplyTests == {
  T("mul_basic", <<Mov(X0, 2), Mov(X1, 3), <<"mul", X0, X0, X1>>>>, [X0 |-> W(6)]),
  T("madd_basic", <<Mov(X0, 1), Mov(X1, 2), Mov(X2, 3), <<"madd", X0, X1, X2, X0>>>>,
    [X0 |-> W(7)]),
  T("msub_basic", <<Mov(X0, 1), Mov(X1, 2), Mov(X2, 3), <<"msub", X0, X1, X2, X0>>>>,
    [X0 |-> W(-5)]),
  T("smull_basic", <<Mov(W1, \hFFFF), <<"movk", W1, I(\hFFFF), I(16)>>, Mov(W2, 1), <<"smull",
      X0, W1, W2>>>>, [X0 |-> W(-1)]),
  T("umull_basic", <<Set(W1, Hex(0, 0, \hFFFF, \hFFFE)), <<"movk", W1, I(\hFFFF), I(16)>>,
      Mov(W2, 1), <<"umull", X0, W1, W2>>>>, [X0 |-> Hex(0, 0, \hFFFF, \hFFFE)]),
  T("umulh_basic", <<Set(X1, Hex(0, 0, \hFFFF, \hFFFF)), <<"movk", X1, I(\hFFFF), I(16)>>,
      Set(X2, Hex(0, 0, \hFFFF, \hFFFF)), <<"movk", X2, I(\hFFFF), I(16)>>, <<"umulh", X0, X1,
      X2>>>>, [X0 |-> Hex(0, 0, \hFFFF, \hFFFE)]),
  T("mneg_basic", <<Mov(X1, 2), Mov(X2, 3), <<"mneg", X0, X1, X2>>>>, [X0 |-> W(-6)])}

\* Divisions.
DivideTests == {
  T("sdiv_basic", <<Mov(X0, 12), Mov(X1, 3), <<"sdiv", X0, X0, X1>>>>, [X0 |-> W(4)]),
  T("sdiv_neg", <<Mov(X0, -12), Mov(X1, 3), <<"sdiv", X0, X0, X1>>>>, [X0 |-> W(-4)]),
  T("udiv_basic", <<Mov(X0, 12), Mov(X1, 3), <<"udiv", X0, X0, X1>>>>, [X0 |-> W(4)]),
  T("sdiv_zero", <<Mov(X0, 42), Mov(X1, 0), <<"sdiv", X0, X0, X1>>>>, [X0 |-> W(0)]),
  T("udiv_zero", <<Mov(X0, 42), Mov(X1, 0), <<"udiv", X0, X0, X1>>>>, [X0 |-> W(0)])}

\* Conditional selection after a comparison of equals.
ConditionalSelectTests == {T("csel_" \o cond, <<Mov(X0, 170), Mov(X1, 187), <<"cmp", XZR, XZR>>,
                        <<"csel", X0, X0, X1, C(cond)>>>>, [X0 |-> Malformed])
     : cond \in {"eq", "ne", "cs", "cc", "mi", "pl", "vs", "vc", "hi", "ls", "ge", "lt", "gt", "le"}} \cup {
  T("csinc_eq", <<Mov(X0, 170), <<"cmp", XZR, XZR>>, <<"csinc", X0, X0, XZR, C("eq")>>>>,
    [X0 |-> W(170)]),
  T("csinv_eq", <<Mov(X0, 170), <<"cmp", XZR, XZR>>, <<"csinv", X0, X0, XZR, C("eq")>>>>,
    [X0 |-> W(170)]),
  T("csneg_eq", <<Mov(X0, 170), <<"cmp", XZR, XZR>>, <<"csneg", X0, X0, XZR, C("eq")>>>>,
    [X0 |-> W(170)]),
  T("cset_eq", <<<<"cmp", XZR, XZR>>, <<"cset", X0, C("eq")>>>>, [X0 |-> W(1)]),
  T("csetm_eq", <<<<"cmp", XZR, XZR>>, <<"csetm", X0, C("eq")>>>>, [X0 |-> W(-1)]),
  T("cinc_eq", <<Mov(X0, 1), <<"cmp", XZR, XZR>>, <<"cinc", X0, X0, C("eq")>>>>,
    [X0 |-> W(2)]),
  T("cinv_eq", <<Mov(X0, 1), <<"cmp", XZR, XZR>>, <<"cinv", X0, X0, C("eq")>>>>,
    [X0 |-> W(-2)])}

\* Comparisons.
CompareTests == {
  T("cmp_eq", Flags(<<Mov(X0, 1), <<"cmp", X0, I(1)>>>>), [X0 |-> FlagWord({"Z", "C"})]),
  T("cmn_basic", Flags(<<Mov(X0, 0), <<"cmn", X0, I(0)>>>>), [X0 |-> FlagWord({"Z"})]),
  T("ccmp_taken",
    Flags(<<Mov(X0, 0), <<"cmp", X0, I(0)>>, <<"ccmp", X0, I(0), I(0), C("eq")>>>>),
    [X0 |-> FlagWord({"Z", "C"})]),
  T("ccmp_not_taken",
    Flags(<<Mov(X0, 0), <<"cmp", X0, I(1)>>, <<"ccmp", X0, I(0), I(15), C("eq")>>>>),
    [X0 |-> FlagWord({"N", "Z", "C", "V"})]),
  T("ccmn_basic",
    Flags(<<Mov(X0, 0), <<"cmp", X0, I(0)>>, <<"ccmn", X0, I(0), I(0), C("eq")>>>>),
    [X0 |-> FlagWord({"Z"})])}

\* Branches, all of them taken.
BranchTests == {
  T("b_eq", Taken(<<<<"cmp", XZR, XZR>>>>, <<"b.cond", C("eq")>>), [X0 |-> W(1)]),
  T("cbz_taken", Taken(<<Mov(X1, 0)>>, <<"cbz", X1>>), [X0 |-> W(1)]),
  T("cbnz_taken", Taken(<<Mov(X1, 1)>>, <<"cbnz", X1>>), [X0 |-> W(1)]),
  T("tbz_taken", Taken(<<Mov(X1, 0)>>, <<"tbz", X1, I(0)>>), [X0 |-> W(1)]),
  T("tbnz_taken", Taken(<<Mov(X1, 1)>>, <<"tbnz", X1, I(0)>>), [X0 |-> W(1)])}

\* Counting and reversing bits.
SpecialTests == {
  T("clz_basic", <<Mov(X0, 1), <<"clz", X0, X0>>>>, [X0 |-> W(63)]),
  T("clz_zero", <<Mov(X0, 0), <<"clz", X0, X0>>>>, [X0 |-> W(64)]),
  T("cls_basic", <<Mov(X0, 2), <<"cls", X0, X0>>>>, [X0 |-> W(61)]),
  T("rbit_basic", <<Mov(X0, 1), <<"rbit", X0, X0>>>>, [X0 |-> Hex(\h8000, 0, 0, 0)]),
  T("rev16_basic", <<Mov(X0, 18), <<"movk", X0, I(\h5634), I(16)>>, <<"movk", X0, I(120),
      I(32)>>, <<"rev16", X0, X0>>>>, [X0 |-> Hex(\h78, \h3412, \h56, \h7800)]),
  T("rev32_basic", <<Mov(X0, 18), <<"movk", X0, I(\h5634), I(16)>>, <<"movk", X0, I(120),
      I(32)>>, <<"rev32", X0, X0>>>>, [X0 |-> Hex(\h7800, 0, \h1200, \h5634)]),
  T("rev64_basic", <<Mov(X0, 0), <<"movk", X0, I(\h5600), I(16)>>, <<"movk", X0, I(\h3412),
      I(32)>>, <<"movk", X0, I(\h7800), I(48)>>, <<"rev64", X0, X0>>>>,
    [X0 |-> Hex(\h7800, \h3412, \h5600, 0)]),
  T("extr_basic", <<Mov(X0, \h1234), Mov(X1, 0), <<"extr", X0, X1, X0, I(0)>>>>,
    [X0 |-> W(\h1234)])}

\* Floating-point arithmetic.
FloatTests == {
  T("fadd_basic", Float2("fadd", F(4), F(8)), [X0 |-> Hex(\h4008, 0, 0, 0)]),
  T("fsub_basic", Float2("fsub", F(8), F(4)), [X0 |-> Hex(\h3FF0, 0, 0, 0)]),
  T("fmul_basic", Float2("fmul", F(8), F(8)), [X0 |-> Hex(\h4010, 0, 0, 0)]),
  T("fdiv_basic", Float2("fdiv", F(8), F(8)), [X0 |-> Hex(\h3FF0, 0, 0, 0)]),
  T("fmax_basic", Float2("fmax", F(4), F(8)), [X0 |-> Hex(\h4000, 0, 0, 0)]),
  T("fmin_basic", Float2("fmin", F(4), F(8)), [X0 |-> Hex(\h3FF0, 0, 0, 0)]),
  T("fnmul_basic", Float2("fnmul", F(4), F(8)), [X0 |-> Hex(\hC000, 0, 0, 0)]),
  T("fsqrt_basic", Float1("fsqrt", F(16)), [X0 |-> Hex(\h4000, 0, 0, 0)]),
  T("fabs_basic", Float1("fabs", F(-8)), [X0 |-> Hex(\h4000, 0, 0, 0)]),
  T("fneg_basic", Float1("fneg", F(8)), [X0 |-> Hex(\hC000, 0, 0, 0)])}

\* Floating-point comparison, conversion and rounding.
FloatConversionTests == {T("frint" \o r[1] \o "_basic", Float1("frint" \o r[1], F(10)), [X0 |-> Double(r[2])])
     : r \in {<<"m", 8>>, <<"p", 12>>, <<"z", 8>>, <<"n", 8>>, <<"x", 8>>}} \cup {
  T("fcmp_eq", Flags(<<<<"fmov", D0, F(4)>>, <<"fmov", D1, F(4)>>, <<"fcmp", D0, D1>>>>),
    [X0 |-> FlagWord({"Z", "C"})]),
  T("fcmp_lt", Flags(<<<<"fmov", D0, F(4)>>, <<"fmov", D1, F(8)>>, <<"fcmp", D0, D1>>>>),
    [X0 |-> FlagWord({"N"})]),
  T("fcmp_gt", Flags(<<<<"fmov", D0, F(8)>>, <<"fmov", D1, F(4)>>, <<"fcmp", D0, D1>>>>),
    [X0 |-> FlagWord({"C"})]),
  T("fcvt_s_d", <<<<"fmov", D0, F(8)>>, <<"fcvt", S(0), D0>>, <<"fmov", W0, S(0)>>>>,
    [X0 |-> W(\h40000000)]),
  T("fcvt_d_s", <<<<"fmov", S(0), F(8)>>, <<"fcvt", D0, S(0)>>, <<"fmov", X0, D0>>>>,
    [X0 |-> Hex(\h4000, 0, 0, 0)]),
  T("fcvtas_basic", <<<<"fmov", D0, F(10)>>, <<"fcvtas", X0, D0>>>>, [X0 |-> W(3)]),
  T("scvtf_basic", <<Mov(X0, 2), <<"scvtf", D0, X0>>, <<"fmov", X0, D0>>>>,
    [X0 |-> Hex(\h4000, 0, 0, 0)]),
  T("ucvtf_basic", <<Mov(X0, 2), <<"ucvtf", D0, X0>>, <<"fmov", X0, D0>>>>,
    [X0 |-> Hex(\h4000, 0, 0, 0)]),
  T("fcvtzs_basic", <<<<"fmov", D0, F(10)>>, <<"fcvtzs", X0, D0>>>>, [X0 |-> W(2)]),
  T("fcvtzu_basic", <<<<"fmov", D0, F(10)>>, <<"fcvtzu", X0, D0>>>>, [X0 |-> W(2)]),
  T("fmov_imm", <<<<"fmov", D0, F(4)>>, <<"fmov", X0, D0>>>>, [X0 |-> Hex(\h3FF0, 0, 0, 0)])}

\* Vectors.
VectorTests == {
  T("vadd_4s", Lanewise("add", 32, I(1), I(2)), [X0 |-> Hex(0, 3, 0, 3)]),
  T("vsub_4s", Lanewise("sub", 32, I(1), I(2)), [X0 |-> W(-1)]),
  T("vmul_4s", Lanewise("mul", 32, I(2), I(3)), [X0 |-> Hex(0, 6, 0, 6)]),
  T("vand_16b", Lanewise("and", 8, I(255), I(240)),
    [X0 |-> Hex(\hF0F0, \hF0F0, \hF0F0, \hF0F0)]),
  T("vorr_16b", Lanewise("orr", 8, I(15), I(240)), [X0 |-> W(-1)]),
  T("veor_16b", Lanewise("eor", 8, I(255), I(255)), [X0 |-> W(0)]),
  T("vmla_4s", <<<<"movi", V(0, 32), I(1)>>, <<"movi", V(1, 32), I(2)>>, <<"movi", V(2, 32),
      I(3)>>, <<"mla", V(0, 32), V(1, 32), V(2, 32)>>, <<"umov", X0, D0>>>>,
    [X0 |-> Hex(0, 7, 0, 7)]),
  T("vmls_4s", <<<<"movi", V(0, 32), I(1)>>, <<"movi", V(1, 32), I(2)>>, <<"movi", V(2, 32),
      I(3)>>, <<"mls", V(0, 32), V(1, 32), V(2, 32)>>, <<"umov", X0, D0>>>>,
    [X0 |-> Hex(\hFFFF, \hFFFB, \hFFFF, \hFFFB)])}

\* Loads and stores on the stack.
MemoryTests == {
  T("ldr_str_basic", OnStack(16, <<Mov(X0, \h1234), <<"str", X0, At(SP, 0)>>, Mov(X0, 0),
      <<"ldr", X0, At(SP, 0)>>>>), [X0 |-> W(\h1234)]),
  T("ldp_stp_basic", OnStack(16, <<Mov(X0, \h1234), Mov(X1, \h5678),
      <<"stp", X0, X1, At(SP, 0)>>, Mov(X0, 0), Mov(X1, 0), <<"ldp", X0, X1, At(SP, 0)>>>>),
    [X0 |-> W(\h1234), X1 |-> W(\h5678)]),
  T("ldur_stur_basic", OnStack(32, <<Mov(X0, \h1234), <<"stur", X0, At(SP, -8)>>, Mov(X0, 0),
      <<"ldur", X0, At(SP, -8)>>>>), [X0 |-> W(\h1234)]),
  T("ldrb_strb_basic", OnStack(16, <<Mov(X0, \h1234), <<"strb", W0, At(SP, 0)>>, Mov(X0, 0),
      <<"ldrb", W0, At(SP, 0)>>>>), [X0 |-> W(52)]),
  T("ldrh_strh_basic", OnStack(16, <<Mov(X0, \h1234), <<"strh", W0, At(SP, 0)>>, Mov(X0, 0),
      <<"ldrh", W0, At(SP, 0)>>>>), [X0 |-> W(\h1234)]),
  T("ldrsw_basic", OnStack(16, <<Set(X0, Hex(0, 0, \hFFFF, \hFFFF)), <<"str", W0, At(SP, 0)>>,
      Mov(X0, 0), <<"ldrsw", X0, At(SP, 0)>>>>), [X0 |-> W(-1)]),
  T("stxr_basic", OnStack(16, <<Mov(X1, \h1234), <<"ldxr", X2, At(SP, 0)>>,
      <<"stxr", W0, X1, At(SP, 0)>>>>), [X0 |-> W(0)])}

\* Flags, barriers and nop.
SystemTests == {
  T("msr_nzcv", Flags(<<Set(X0, Hex(0, 0, \hF000, 0)), <<"msr", X0>>>>),
    [X0 |-> FlagWord({"N", "Z", "C", "V"})]),
  T("nop_basic", <<Mov(X0, 1), <<"nop">>>>, [X0 |-> W(1)]),
  T("dmb_basic", <<Mov(X0, 1), <<"barrier">>>>, [X0 |-> W(1)])}

\* The same register as source and destination.
OverlapTests == {
  T("reg_overlap_add", <<Mov(X0, 1), <<"add", X0, X0, X0>>, <<"add", X0, X0, X0>>>>,
    [X0 |-> W(4)]),
  T("reg_overlap_mul", <<Mov(X0, 2), <<"mul", X0, X0, X0>>, <<"mul", X0, X0, X0>>>>,
    [X0 |-> W(16)]),
  T("reg_overlap_sub", <<Mov(X0, 5), <<"sub", X0, X0, X0>>>>, [X0 |-> W(0)])}

Tests ==
  UNION {AddSubTests, AddSubFlagsTests, LogicalTests, ShiftTests,
    BitFieldTests, MultiplyTests, DivideTests, ConditionalSelectTests,
    CompareTests, BranchTests, SpecialTests, FloatTests, FloatConversionTests,
    VectorTests, MemoryTests, SystemTests, OverlapTests}
=============================================================================
