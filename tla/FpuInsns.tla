------------------------------ MODULE FpuInsns ------------------------------
(***************************************************************************)
(* The handlers of interpreter_fpu.h as sequences of steps.  Each returns  *)
(* the set of sequences its conditions choose from.                        *)
(***************************************************************************)
EXTENDS FpuSteps

LOCAL INSTANCE Steps

\* QLOCKED, CR0.EM and CR0.TS; most handlers then look at pending exceptions.
Available == Access
Ready == Available ** Pending

NoPop == Nop
\* The same access n times.
Repeated(n, access) == {[k \in 1..n |-> s[1]] : s \in access}

\* The operand of FADD and the like is memory or a general register: both may
\* only be read.
Operand32 == Ready ** Read
Operand64 == Ready ** Repeated(2, Read)
Operand80 == Ready ** Repeated(3, Read)

\* The operand is a denormal; it is one or a NaN.
Denormal == Raise("DE")
Invalid == Raise("IE")
\* FPU_FCOM_CHECK_INVALID_OPERAND: one or the other.
Special == Raise("DE") \cup Raise("IE")
Inexact == Raise("PE")
OverUnder == Raise("OE") ** Raise("UE")

-----------------------------------------------------------------------------
\* Addition and its relatives: the result is stored before it is checked.
fadd_common(i) == Set(i) ** OverUnder ** Invalid ** Inexact
fmul_common(i) == fadd_common(i)
fsub_common(i) == fadd_common(i)
fsubr_common(i) == fadd_common(i)
fdiv_common(i) == Raise("ZE") ** fadd_common(i)
fdivr_common(i) == Raise("ZE") ** fadd_common(i)

float(common) == Operand32 ** Under(0) ** Denormal ** common
double(common) == Operand64 ** Under(0) ** Denormal ** common
\* op ST(i),ST(0) and op ST(0),ST(i)
i_0(i, common, pop) == Ready ** Under(0) ** Under(i) ** Use(0) ** common ** pop
zero_i(i, common) == Ready ** Under(0) ** Under(i) ** Use(i) ** common

fadd_float == float(fadd_common(0))
fadd_double == double(fadd_common(0))
fadd80_i_0(i, pop) == i_0(i, fadd_common(i), pop)
fadd_0_i(i) == zero_i(i, fadd_common(0))
faddp_i_0(i) == fadd80_i_0(i, Pop)

fmul_float == float(fmul_common(0))
fmul_double == double(fmul_common(0))
fmul80_i_0(i, pop) == i_0(i, fmul_common(i), pop)
fmul_0_i(i) == zero_i(i, fmul_common(0))
fmul_i_0(i) == fmul80_i_0(i, NoPop)
fmulp_i_0(i) == fmul80_i_0(i, Pop)
fmul_int32 == Operand32 ** Under(0) ** fmul_common(0)

fsub_float == float(fsub_common(0))
fsub_double == double(fsub_common(0))
fsub80_i_0(i, pop) == i_0(i, fsub_common(i), pop)
fsub_0_i(i) == zero_i(i, fsub_common(0))
fsub_i_0(i) == fsub80_i_0(i, NoPop)
fsubp_i_0(i) == fsub80_i_0(i, Pop)

fsubr_float == float(fsubr_common(0))
fsubr_double == double(fsubr_common(0))
fsubr_0_i(i) == zero_i(i, fsubr_common(0))
fsubr80_i_0(i, pop) == i_0(i, fsubr_common(i), pop)
fsubrp_i_0(i) == fsubr80_i_0(i, Pop)

fdiv_float == float(fdiv_common(0))
fdiv_double == double(fdiv_common(0))
fdiv80_i_0(i, pop) == i_0(i, fdiv_common(i), pop)
fdiv_0_i(i) == zero_i(i, fdiv_common(0))
fdivp_i_0(i) == fdiv80_i_0(i, Pop)

fdivr_float == float(Invalid ** fdivr_common(0))
fdivr_double == double(Invalid ** fdivr_common(0))
fdivr80_i_0(i, pop) == i_0(i, fdivr_common(i), pop)
fdivr_0_i(i) == zero_i(i, fdivr_common(0))
fdivr_i_0(i) == fdivr80_i_0(i, NoPop)
fdivrp_i_0(i) == fdivr80_i_0(i, Pop)

-----------------------------------------------------------------------------
\* Comparison
fcom_float(pop) == Operand32 ** Under(0) ** Special ** Special ** Use(0) ** pop
fcom_double(pop) == Operand64 ** Under(0) ** Special ** Special ** Use(0) ** pop
fcom80(i, pop) ==
  Ready ** Under(0) ** Under(i) ** Special ** Special ** Use(0) ** Use(i) ** pop
fcom(i) == fcom80(i, NoPop)
fcomp(i) == fcom80(i, Pop)
fcompp == fcom80(1, Pop ** Pop)
ftst == Ready ** Under(0) ** Special ** Use(0)
fxam == Ready

-----------------------------------------------------------------------------
\* Functions of ST(0), and of ST(0) and ST(1)
Unary == Ready ** Under(0)
Binary == Ready ** Under(0) ** Under(1)

fabs_reg0 == Unary ** Use(0)
fchs == Available ** Under(0) ** Use(0)
f2xm1 == Unary ** Special ** Set(0) ** Raise("UE") ** Inexact
\* Nothing happens when the angle is out of range.
fcos == Unary ** Invalid ** (Nop \cup Set(0) ** Inexact)
fsin == Unary ** Invalid ** (Nop \cup Set(0) ** Inexact)
fptan ==
  Unary ** Invalid ** (Nop \cup Over ** Set(0) ** Inexact ** Raise("UE") ** Push)
fpatan ==
  Binary ** Invalid ** Invalid ** Use(0) ** Set(1) ** Inexact ** Raise("UE") ** Pop
fprem == Binary ** Invalid ** Invalid ** Use(1) ** Set(0) ** Invalid ** Raise("UE")
frndint == Unary ** Denormal ** Set(0) ** Inexact
fscale == Binary ** Special ** Special ** Use(1) ** Set(0) ** OverUnder ** Inexact
fsqrt == Unary ** Special ** Set(0) ** Inexact ** Invalid
fyl2x ==
  Binary ** Special ** Special ** Use(0) ** Set(1)
    ** OverUnder ** Invalid ** Inexact ** Raise("ZE") ** Pop

-----------------------------------------------------------------------------
\* Loads
fild_int16 == Operand32 ** Over ** Push
fild_int32 == Operand32 ** Over ** Push
fild_int64 == Operand64 ** Over ** Push
fld_float == Operand32 ** Over ** Invalid ** Denormal ** Push
fld_double == Operand64 ** Over ** Invalid ** Denormal ** Push
fld_ldouble == Operand80 ** Over ** Invalid ** Push
fld_reg(i) == Ready ** Over ** Under(i) ** PushCopy(i)
fld_val == Ready ** Over ** Push
fld1 == fld_val
fldl2e == fld_val
fldln2 == fld_val
fldz == fld_val

-----------------------------------------------------------------------------
\* Stores: an inexact result is reported after it was stored.
Address == Access

fist_int16(pop) == Ready ** Address ** Under(0) ** Use(0) ** Write ** Inexact ** pop
fist_int32(pop) == Ready ** Address ** Under(0) ** Use(0) ** Write ** Inexact ** pop
fist_int64 ==
  Ready ** Address ** Under(0) ** Use(0) ** Write ** Write ** Inexact ** Pop
\* It is not reported together with an overflow or underflow.
fst_float(pop) ==
  Ready ** Address ** Under(0) ** Use(0)
    ** (OverUnder ** Write \cup Write ** Inexact) ** pop
fst_double(pop) ==
  Ready ** Address ** Under(0) ** Use(0)
    ** (OverUnder ** Write ** Write \cup Write ** Write ** Inexact) ** pop
fstp_ldouble == Ready ** Address ** Under(0) ** Use(0) ** Repeated(3, Write) ** Pop
\* Ten bytes, one after another.
fbstp ==
  Ready ** Address ** Under(0) ** Use(0) ** Invalid ** Inexact ** Invalid
    ** Repeated(10, Write) ** Pop
fst(i, pop) == Ready ** Under(0) ** At("copy", i) ** pop

fxch(i) == Ready ** Under(0) ** Under(i) ** At("exchange", i)
ffree(i) == Ready ** At("free", i)

-----------------------------------------------------------------------------
\* Control
fclex == Available ** Plainly("clear")
finit == Available ** Plainly("initialise")
fldcw == Available ** Read ** Plainly("load cw")
fstcw == Ready ** Address ** Write
fstsw == Ready ** Address ** Write
fnstsw_AX == Available
fwait == Available ** Pending

\* The environment and then the registers, in memory; the 16-bit forms exit.
fsave_common == Repeated(3 * NRegs, Write) ** Plainly("initialise")
fsave32 == Available ** Address ** Repeated(7, Write) ** fsave_common
fsave == fsave32
frstor_common == Repeated(3 * NRegs, Read)
frstor32 ==
  Ready ** Address ** Read ** Plainly("load control") ** Read ** Plainly("load status")
    ** Read ** Plainly("load tags") ** Repeated(4, Read) ** frstor_common
frstor == frstor32

-----------------------------------------------------------------------------
\* What the groups D8 to DF select, with the i of ST(i).
inst_d8(i) ==
  UNION {fadd_float, fmul_float, fcom_float(NoPop), fcom_float(Pop),
         fsub_float, fsubr_float, fdiv_float, fdivr_float,
         fadd_0_i(i), fmul_0_i(i), fcom(i), fcomp(i),
         fsub_0_i(i), fsubr_0_i(i), fdiv_0_i(i), fdivr_0_i(i)}
inst_d9(i) ==
  UNION {fld_float, fst_float(NoPop), fst_float(Pop), fldcw, fstcw, fld_reg(i), fxch(i),
         fchs, fabs_reg0, ftst, fxam, fld1, fldl2e, fldln2, fldz,
         f2xm1, fyl2x, fptan, fpatan, fprem, fsqrt, frndint, fscale, fsin, fcos}
inst_da == fmul_int32
inst_db ==
  UNION {fild_int32, fist_int32(NoPop), fist_int32(Pop), fld_ldouble, fstp_ldouble,
         fclex, finit}
inst_dc(i) ==
  UNION {fadd_double, fmul_double, fcom_double(NoPop), fcom_double(Pop),
         fsub_double, fsubr_double, fdiv_double, fdivr_double,
         fmul_i_0(i), fsub_i_0(i), fdivr_i_0(i)}
inst_dd(i) ==
  UNION {fld_double, fst_double(NoPop), fst_double(Pop), frstor, fsave, fstsw,
         ffree(i), fst(i, NoPop), fst(i, Pop)}
inst_de(i) ==
  UNION {faddp_i_0(i), fmulp_i_0(i), fcompp, fsubrp_i_0(i), fsubp_i_0(i),
         fdivrp_i_0(i), fdivp_i_0(i)}
inst_df ==
  UNION {fild_int16, fist_int16(Pop), fild_int64, fbstp, fist_int64, fnstsw_AX}

FpuInsnSet ==
  UNION {UNION {inst_d8(i), inst_d9(i), inst_dc(i), inst_dd(i), inst_de(i)} : i \in Regs}
    \cup inst_da \cup inst_db \cup inst_df \cup fwait

=============================================================================
