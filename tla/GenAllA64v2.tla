---------------------------- MODULE GenAllA64v2 -----------------------------
(***************************************************************************)
(* The tests gen_all_a64_v2.py writes into a64_all: those of the third     *)
(* version, except for the rows given here, which that version corrected.  *)
(***************************************************************************)
EXTENDS A64Test

V3 == INSTANCE GenAllA64v3

\* Integer addition and subtraction: sxth and sxtw of 0x80, and an lsr.
AddSubTests == Revise(V3!AddSubTests,
 {
  T("add_lsr", <<Mov(X0, 1), Mov(X1, 16), <<"add", X0, X0, LSR(X1, 2)>>>>, [X0 |-> W(3)]),
  T("add_ext_sxtw",
    <<Mov(X0, 0), Mov(W1, 128), <<"add", X0, X0, Extended(W1, 32, TRUE, 0)>>>>,
    [X0 |-> W(-128)]),
  T("add_ext_sxth",
    <<Mov(X0, 0), Mov(W1, 128), <<"add", X0, X0, Extended(W1, 16, TRUE, 0)>>>>,
    [X0 |-> W(-128)])})

\* The flags of additions and subtractions: Z is forgotten, and N.
AddSubFlagsTests == Revise(V3!AddSubFlagsTests,
 {
  T("adds_c_flag", Flags(<<Mov(X0, -1), <<"adds", X0, X0, I(1)>>>>), [X0 |-> FlagWord({"C"})]),
  T("adds_v_flag",
    Flags(<<Set(X0, Hex(\h7FFF, \hFFFF, \hFFFF, \hFFFF)), <<"adds", X0, X0, I(1)>>>>),
    [X0 |-> FlagWord({"V"})])})

\* Logical operations: a mask of zero bits, and the complement of an xor.
LogicalTests == Revise(V3!LogicalTests,
 {
  T("eon_reg", <<Mov(X0, 240), Mov(X1, 15), <<"eon", X0, X0, X1>>>>, [X0 |-> W(-241)]),
  T("ands_z_flag", Flags(<<Mov(X0, 255), <<"ands", X0, X0, I(0)>>>>),
    [X0 |-> FlagWord({"Z"})])})

\* Shifts.
ShiftTests == V3!ShiftTests

\* Bit fields: the wrong sign.
BitFieldTests == Revise(V3!BitFieldTests,
 {
  T("sbfx_sign", <<Mov(X0, 120), <<"sbfx", X0, X0, I(3), I(4)>>>>, [X0 |-> W(-8)])})

\* Multiplications: registers loaded with one move.
MultiplyTests == Revise(V3!MultiplyTests,
 {
  T("smull_basic", <<Mov(W1, \hFFFF), Mov(W2, 1), <<"smull", X0, W1, W2>>>>, [X0 |-> W(-1)]),
  T("umull_basic",
    <<Set(W1, Hex(0, 0, \hFFFF, \hFFFE)), Mov(W2, 1), <<"umull", X0, W1, W2>>>>,
    [X0 |-> Hex(0, 0, \hFFFF, \hFFFE)]),
  T("umulh_basic", <<Set(X1, Hex(0, 0, \hFFFF, \hFFFF)), Set(X2, Hex(0, 0, \hFFFF, \hFFFF)),
      <<"umulh", X0, X1, X2>>>>, [X0 |-> Hex(0, 0, \hFFFF, \hFFFE)])})

\* Divisions.
DivideTests == V3!DivideTests

\* Conditional selection.
ConditionalSelectTests == V3!ConditionalSelectTests

\* Comparisons: a carry where nothing carries.
CompareTests == Revise(V3!CompareTests,
 {
  T("cmn_basic", Flags(<<Mov(X0, 0), <<"cmn", X0, I(0)>>>>), [X0 |-> FlagWord({"Z", "C"})]),
  T("ccmn_basic",
    Flags(<<Mov(X0, 0), <<"cmp", X0, I(0)>>, <<"ccmn", X0, I(0), I(0), C("eq")>>>>),
    [X0 |-> FlagWord({"Z", "C"})])})

\* Branches.
BranchTests == V3!BranchTests

\* Counting and reversing bits.
SpecialTests == Revise(V3!SpecialTests,
 {
  T("cls_basic", <<Mov(X0, 2), <<"cls", X0, X0>>>>, [X0 |-> W(62)]),
  T("rev16_basic", <<Mov(X0, 18), <<"movk", X0, I(\h3456), I(16)>>, <<"movk", X0, I(120),
      I(32)>>, <<"rev16", X0, X0>>>>, [X0 |-> Hex(0, \h3412, \h78, \h5600)]),
  T("rev32_basic", <<Mov(X0, 18), <<"movk", X0, I(\h3456), I(16)>>, <<"movk", X0, I(120),
      I(32)>>, <<"rev32", X0, X0>>>>, [X0 |-> Hex(\h7800, 0, \h1200, \h5634)]),
  T("rev64_basic", <<Mov(X0, 120), <<"movk", X0, I(\h1234), I(16)>>, <<"movk", X0, I(86),
      I(32)>>, <<"rev64", X0, X0>>>>, [X0 |-> Hex(\h56, \h3412, 0, \h78)])})

\* Floating-point arithmetic.
FloatTests == V3!FloatTests

\* Floating-point conversions: a comparison that clears C.
FloatConversionTests == Revise(V3!FloatConversionTests,
 {
  T("fcmp_gt", Flags(<<<<"fmov", D0, F(8)>>, <<"fmov", D1, F(4)>>, <<"fcmp", D0, D1>>>>),
    [X0 |-> FlagWord({})])})

\* Vectors: a lane that does not borrow.
VectorTests == Revise(V3!VectorTests,
 {
  T("vmls_4s", <<<<"movi", V(0, 32), I(1)>>, <<"movi", V(1, 32), I(2)>>, <<"movi", V(2, 32),
      I(3)>>, <<"mls", V(0, 32), V(1, 32), V(2, 32)>>, <<"umov", X0, D0>>>>, [X0 |-> W(-7)])})

\* Loads and stores.
MemoryTests == V3!MemoryTests

\* Flags, barriers and nop.
SystemTests == V3!SystemTests

\* One register as source and destination.
OverlapTests == V3!OverlapTests

Tests ==
  UNION {AddSubTests, AddSubFlagsTests, LogicalTests, ShiftTests,
    BitFieldTests, MultiplyTests, DivideTests, ConditionalSelectTests,
    CompareTests, BranchTests, SpecialTests, FloatTests, FloatConversionTests,
    VectorTests, MemoryTests, SystemTests, OverlapTests}
=============================================================================
