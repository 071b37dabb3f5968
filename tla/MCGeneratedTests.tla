-------------------------- MODULE MCGeneratedTests --------------------------
(***************************************************************************)
(* The suites of the generators, and the differences between what they     *)
(* write and the files of the repository.                                  *)
(***************************************************************************)
EXTENDS GeneratedTests

V1 == INSTANCE GenAllA64
V2 == INSTANCE GenAllA64v2
V3 == INSTANCE GenAllA64v3
Full == INSTANCE GenFullA64
TestV2 == INSTANCE GenTestV2
Ext == INSTANCE GenA64Extended
Comp == INSTANCE GenComprehensiveA64

MCSuites == [v1 |-> V1!Tests, v2 |-> V2!Tests, v3 |-> V3!Tests,
             full |-> Full!Tests, test_v2 |-> TestV2!Tests,
             comprehensive |-> Comp!Tests, extended |-> Ext!Tests]

Csel == {"csel_" \o c : c \in Comp!Conditions}

\* asm/a64_all, asm/a64_full and asm/a64_comprehensive_v2.
AllByHand == Csel \cup {"sbfx_sign", "umulh_basic", "rev16_basic", "rev32_basic",
                        "rev64_basic", "fcvtas_basic"}
FullByHand == Csel \cup
  {"add_ext_sxth", "add_ext_sxtw", "add_lsl_31", "add_lsr_0", "add_lsr_4", "add_lsr_31",
   "sbc_chain", "mul_32bit", "madd_32bit", "smulh_basic", "ubfx_lsb8_w8",
   "sbfx_sign_extend", "ccmp_eq_not_taken", "vand_16b", "ldr_pre_index", "rev16_basic",
   "rev64_basic", "adds_overflow", "subs_borrow"}
TestV2ByHand ==
  {"add_ext_sxtb", "sub_imm", "adc_basic", "asr_imm", "bfi_basic", "msub_basic", "cmp_eq",
   "ccmp_eq", "rev_basic", "fmul_basic", "fcmp_eq", "sqadd_basic", "uqadd_basic"}

ComprehensiveByHand == Csel \cup {"bcond_" \o c : c \in Comp!Conditions} \cup
  {"csinc_basic", "csinv_basic", "csneg_basic", "cset_basic", "fcvtzs_basic", "fcvtzu_basic"}
    \cup Names(Comp!FloatTests \cup Comp!VectorTests)
    \cup {"fcvt_s_f", "fcvt_d_s", "scvtf_basic", "ucvtf_basic",
          "frintm_basic", "frintp_basic", "frintz_basic"}

\* The three that write a64_all: gen_all_a64_v3.py wrote last.
Overwritten(tests) == AllByHand \cup {t.name : t \in tests \ V3!Tests}
MCCorrected == [v1 |-> Overwritten(V1!Tests), v2 |-> Overwritten(V2!Tests),
                v3 |-> AllByHand, full |-> FullByHand, test_v2 |-> TestV2ByHand,
                comprehensive |-> ComprehensiveByHand, extended |-> {}]

\* What has not been corrected, in asm/a64_comprehensive and a64_extended.
ComprehensiveWrong ==
  Names(Comp!AddSubTests \cup Comp!ShiftTests \cup Comp!SaturationTests
        \cup Comp!ConditionalCompareTests \cup Comp!FlagTests)
    \cup (Names(Comp!BitFieldTests) \ {"ubfx_basic"})
    \cup {"mul_overflow", "smull_basic", "umull_basic", "smulh_basic", "msub_basic",
          "clz_basic", "rev_basic", "ldxr_stxr_basic"}
ExtendedWrong ==
  {"negs_z_flag", "ngc_basic", "tst_z_flag", "adds_w_overflow", "smull_signed",
   "asr_w_31", "sbfiz_basic", "csinc_ne", "csinv_ne", "cmp_gt", "vadd_2d",
   "vsub_2d", "stlxr_basic", "crc32b_basic", "crc32h_basic"}
MCWrong == [v1 |-> {}, v2 |-> {}, v3 |-> {}, full |-> {}, test_v2 |-> {},
            comprehensive |-> ComprehensiveWrong, extended |-> ExtendedWrong]

\* asm/a64_extended, as it was generated.
MCExtended == [extended |-> Ext!Tests]
MCNone == [extended |-> {}]
=============================================================================
