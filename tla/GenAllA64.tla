----------------------------- MODULE GenAllA64 ------------------------------
(***************************************************************************)
(* The tests gen_all_a64.py writes into a64_all, by its sections: as far   *)
(* as the third version writes the same ones, by reference to that.        *)
(***************************************************************************)
EXTENDS A64Test

V3 == INSTANCE GenAllA64v3

\* Integer addition, in every width, shift and extension.
AddSubTests == Revise(Without(V3!AddSubTests,
           {"add_ext_sxtb", "add_ext_sxth", "add_ext_sxtw", "add_ext_uxtw", "add_imm", "add_lsl", "add_lsr", "add_reg"}),
  UNION {{
    T("add_" \o s[1] \o "_imm", <<Mov(s[2], 0), <<"add", s[2], s[2], I(\h1000)>>>>, [X0 |-> W(\h1000)]),
    T("add_" \o s[1] \o "_reg", <<Mov(s[2], 1), Mov(s[3], 2), <<"add", s[2], s[2], s[3]>>>>, [X0 |-> W(3)])}
    \cup {T("add_" \o s[1] \o "_" \o by,
            <<Mov(s[2], 1), Mov(s[3], 1), <<"add", s[2], s[2], Shifted(by, s[3], 2)>>>>,
            [X0 |-> W(IF by = "lsl" THEN 5 ELSE 3)]) : by \in {"lsl", "lsr", "asr"}}
    : s \in {<<"w", W0, W1>>, <<"x", X0, X1>>}}
  \cup {T("add_ext_" \o e[1] \o "_s" \o ToString(n),
          <<Mov(X0, 0), Mov(X1, 128), <<"add", X0, X0, ExtendedLSL(X1, n)>>>>,
          [X0 |-> Shl(IF e[3] THEN Sx(W(128), e[2], 64) ELSE W(128), n, 64)])
       : n \in 0..4,
         e \in {<<"uxtb", 8, FALSE>>, <<"uxth", 16, FALSE>>, <<"uxtw", 32, FALSE>>, <<"uxtx", 64, FALSE>>,
                <<"sxtb", 8, TRUE>>, <<"sxth", 16, TRUE>>, <<"sxtw", 32, TRUE>>, <<"sxtx", 64, TRUE>>}})

\* The flags of additions and subtractions, and the carry.
AddSubFlagsTests == Revise(Without(V3!AddSubFlagsTests, {"subs_zc_flags"}),
 {
  T("adds_c_flag", Flags(<<Mov(X0, -1), <<"adds", X0, X0, I(1)>>>>), [X0 |-> FlagWord({"C"})]),
  T("adds_v_flag",
    Flags(<<Set(X0, Hex(\h7FFF, \hFFFF, \hFFFF, \hFFFF)), <<"adds", X0, X0, I(1)>>>>),
    [X0 |-> FlagWord({"V"})]),
  T("subs_c_flag", Flags(<<Mov(X0, 1), <<"subs", X0, X0, I(1)>>>>),
    [X0 |-> FlagWord({"Z", "C"})]),
  T("adcs_basic", <<Mov(X0, -1), Mov(X1, 1), <<"subs", XZR, X1, I(0)>>, <<"adcs", X0, X0,
      X1>>, Mov(X0, 0)>>, [X0 |-> W(0)])})

\* Logical operations.
LogicalTests == Revise(V3!LogicalTests,
  {T(r[1] \o "_reg", <<Mov(X0, r[3]), Mov(X1, r[4]), <<r[1], X0, X0, X1>>>>, [X0 |-> W(r[2])])
     : r \in {<<"and", 240, 255, 240>>, <<"orr", 255, 240, 15>>, <<"eor", 255, 240, 15>>,
              <<"bic", 15, 255, 240>>, <<"orn", -16, 0, 15>>, <<"eon", -241, 240, 15>>}} \cup {
  T("ands_z_flag", Flags(<<Mov(X0, 255), <<"ands", X0, X0, I(0)>>>>),
    [X0 |-> FlagWord({"Z"})])})

\* Shifts.
ShiftTests == Revise(V3!ShiftTests,
  UNION {{T(r[1] \o "_imm", <<Mov(X0, 240), <<r[1], X0, X0, I(4)>>>>, [X0 |-> r[2]]),
          T(r[1] \o "_reg", <<Mov(X0, 240), Mov(X1, 4), <<r[1], X0, X0, X1>>>>, [X0 |-> r[2]])}
    : r \in {<<"lsl", W(16)>>, <<"lsr", W(15)>>, <<"asr", W(-1)>>, <<"ror", Hex(\hF000, 0, 0, 0)>>}} \cup {
  T("asr_63", <<Set(X0, Hex(\h8000, 0, 0, 0)), <<"asr", X0, X0, I(63)>>>>, [X0 |-> W(-1)])})

\* Bit fields and wide moves.
BitFieldTests == Revise(V3!BitFieldTests,
 {
  T("sbfx_sign", <<Mov(X0, 120), <<"sbfx", X0, X0, I(3), I(4)>>>>, [X0 |-> W(-8)]),
  T("bic_basic", <<Mov(X0, 255), Mov(X1, 240), <<"bic", X0, X0, X1>>>>, [X0 |-> W(15)])})

\* Multiplications.
MultiplyTests == Revise(V3!MultiplyTests,
 {
  T("smull_basic", <<Mov(W1, \hFFFF), Mov(W2, 1), <<"smull", X0, W1, W2>>>>, [X0 |-> W(-1)]),
  T("umull_basic",
    <<Set(W1, Hex(0, 0, \hFFFF, \hFFFE)), Mov(W2, 1), <<"umull", X0, W1, W2>>>>,
    [X0 |-> Hex(0, 0, \hFFFF, \hFFFE)]),
  T("smulh_basic", <<Set(X1, Hex(0, 0, \hFFFF, \hFFFF)), Set(X2, Hex(0, 0, \hFFFF, \hFFFF)),
      <<"smulh", X0, X1, X2>>>>, [X0 |-> W(0)]),
  T("umulh_basic", <<Set(X1, Hex(0, 0, \hFFFF, \hFFFF)), Set(X2, Hex(0, 0, \hFFFF, \hFFFF)),
      <<"umulh", X0, X1, X2>>>>, [X0 |-> Hex(0, 0, \hFFFF, \hFFFE)])})

\* Divisions.
DivideTests == V3!DivideTests

\* Conditional selection.
ConditionalSelectTests == V3!ConditionalSelectTests

\* Comparisons.
CompareTests == Revise(V3!CompareTests,
 {
  T("cmn_basic", Flags(<<Mov(X0, 0), <<"cmn", X0, I(0)>>>>), [X0 |-> FlagWord({"Z", "C"})]),
  T("ccmn_basic",
    Flags(<<Mov(X0, 0), <<"cmp", X0, I(0)>>, <<"ccmn", X0, I(0), I(0), C("eq")>>>>),
    [X0 |-> FlagWord({"Z", "C"})])})

\* Branches.
BranchTests == V3!BranchTests

\* Counting and reversing bits.
SpecialTests == Revise(V3!SpecialTests,
 {
  T("cls_basic", <<Mov(X0, 2), <<"cls", X0, X0>>>>, [X0 |-> W(62)]),
  T("rev16_basic", <<Mov(X0, 18), <<"movk", X0, I(\h3456), I(16)>>, <<"movk", X0, I(120),
      I(32)>>, <<"rev16", X0, X0>>>>, [X0 |-> Hex(0, \h3412, \h78, \h5600)]),
  T("rev32_basic", <<Mov(X0, 18), <<"movk", X0, I(\h3456), I(16)>>, <<"movk", X0, I(120),
      I(32)>>, <<"rev32", X0, X0>>>>, [X0 |-> Hex(\h7800, 0, \h1200, \h5634)]),
  T("rev64_basic", <<Mov(X0, 120), <<"movk", X0, I(\h1234), I(16)>>, <<"movk", X0, I(86),
      I(32)>>, <<"rev64", X0, X0>>>>, [X0 |-> Hex(\h56, \h3412, 0, \h78)])})

\* Floating-point arithmetic.
FloatTests == V3!FloatTests

\* Floating-point comparison, conversion and rounding.
FloatConversionTests == Revise(V3!FloatConversionTests,
 {
  T("fcmp_gt", Flags(<<<<"fmov", D0, F(8)>>, <<"fmov", D1, F(4)>>, <<"fcmp", D0, D1>>>>),
    [X0 |-> FlagWord({})]),
  T("fmov_reg", <<Mov(X0, \h1234), <<"fmov", D0, X0>>, <<"fmov", X0, D0>>>>,
    [X0 |-> W(\h1234)])})

\* Vectors.
VectorTests == Revise(V3!VectorTests,
 {
  T("vmls_4s", <<<<"movi", V(0, 32), I(1)>>, <<"movi", V(1, 32), I(2)>>, <<"movi", V(2, 32),
      I(3)>>, <<"mls", V(0, 32), V(1, 32), V(2, 32)>>, <<"umov", X0, D0>>>>, [X0 |-> W(-7)])})

\* Loads and stores.
MemoryTests == Revise(V3!MemoryTests,
 {
  T("stxr_basic", OnStack(16, <<Mov(X1, \h1234), <<"ldxr", X2, At(SP, 0)>>,
      <<"stxr", W0, X1, At(SP, 0)>>>>), [W0 |-> W(0)])})

\* Flags, barriers and nop.
SystemTests == Revise(V3!SystemTests,
 {
  T("dsb_basic", <<Mov(X0, 1), <<"barrier">>>>, [X0 |-> W(1)])})

\* One register as source and destination.
OverlapTests == V3!OverlapTests

\* Extreme values.
EdgeTests == {
  T("add_min", <<Set(X0, Hex(\h8000, 0, 0, 0))>>, [X0 |-> Hex(\h8000, 0, 0, 0)]),
  T("add_max",
    <<Set(X0, Hex(\h7FFF, \hFFFF, \hFFFF, \hFFFF)), <<"movk", X0, I(\h7FFF), I(48)>>>>,
    [X0 |-> Hex(\h7FFF, \hFFFF, \hFFFF, \hFFFF)]),
  T("add_zero", <<Mov(X0, 0), <<"add", X0, X0, I(0)>>>>, [X0 |-> W(0)]),
  T("and_ones", <<Mov(X0, -1), <<"movk", X0, I(\hFFFF), I(16)>>, <<"movk", X0, I(\hFFFF),
      I(32)>>, <<"movk", X0, I(\hFFFF), I(48)>>>>, [X0 |-> W(-1)])}

Tests ==
  UNION {AddSubTests, AddSubFlagsTests, LogicalTests, ShiftTests,
    BitFieldTests, MultiplyTests, DivideTests, ConditionalSelectTests,
    CompareTests, BranchTests, SpecialTests, FloatTests, FloatConversionTests,
    VectorTests, MemoryTests, SystemTests, OverlapTests, EdgeTests}
=============================================================================
