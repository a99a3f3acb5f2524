------------------------------- MODULE JitFpu -------------------------------
(***************************************************************************)
(* The instructions of the x87 unit as compile (jit_compile.h) emits them  *)
(* and exec_inst (jit_exec.h) runs them.  An instruction is several words. *)
(* Where a check of the interpreter returns, a word of the JIT sets fpu_ok *)
(* to false, and the words that follow do nothing; but the words that read *)
(* memory, and those shared with the integer instructions, do not look at  *)
(* fpu_ok, and BC_FPU_SELECT_ST0 does not either.  Operands whose segment  *)
(* the compiler does not know, FCOM ST(i) and FSUBR ST,ST(i) end the       *)
(* program and are left out.                                               *)
(***************************************************************************)
EXTENDS FpuSteps

LOCAL INSTANCE Steps

\* The same word n times.
Times(n, word) == {[k \in 1..n |-> s[1]] : s \in word}

---------------------------------------------------------------------------
\* The checks, and the values an operand is checked for.
CheckDenormal == Raise("DE")
CheckSnan == Raise("IE")
CheckOperand == Raise("DE") \cup Raise("IE")
CheckInexact == Raise("PE")
CheckRange == Raise("OE") ** Raise("UE")
CheckZeroDivide == Raise("ZE")
CheckOperation == Raise("IE")

---------------------------------------------------------------------------
\* Words that begin an instruction and words that select its registers.
fpu_begin_op(check) == Access ** (IF check THEN Pending ELSE Nop)
BEGIN_OP == fpu_begin_op(TRUE)
BEGIN_OP_NOCHECK == fpu_begin_op(FALSE)
SELECT_ST0 == Plainly("select")
SELECT_ST(i) == Under(i)

\* An underflow that is not masked has recorded no exception to deliver, at
\* which the program ends.
fpu_chs == Access ** Under(0) ** Use(0)
fpu_clear_excp == Access ** Plainly("clear")
fpu_init == Access ** Plainly("initialise")
\* ES is not computed again.
fpu_load_control_word == Access ** Plainly("load control") ** Pending
fpu_wait == Access ** Pending
fpu_xam == Nop

\* The other operand is checked and then read.
REG2(i) == CheckOperand ** Use(i)

---------------------------------------------------------------------------
\* Words that push.
fpu_push(check) == Over ** check ** Push
fpu_push_float_u32 == fpu_push(CheckSnan ** CheckDenormal)
fpu_push_double_u64 == fpu_push(CheckSnan ** CheckDenormal)
fpu_push_ldouble_u80 == fpu_push(CheckSnan)
fpu_push_double_u64_as_int64 == fpu_push(Nop)
fpu_push_res16 == fpu_push(Nop)
fpu_push_res32 == fpu_push(Nop)
fpu_push_val == fpu_push(Nop)
fpu_push_reg(i) == Over ** PushCopy(i)
POP == Pop

\* Words that convert ST(0).  An inexact result is not reported with an
\* overflow or an underflow.
fpu_reg2float == Use(0) ** (CheckRange \cup CheckInexact)
fpu_reg2double == Use(0) ** (CheckRange \cup CheckInexact)
fpu_reg2int16 == Use(0) ** CheckInexact
fpu_reg2int32 == Use(0) ** CheckInexact
fpu_reg2int64 == Use(0) ** CheckInexact
fpu_bstp ==
  Use(0) ** CheckOperation ** CheckInexact ** CheckOperation ** Times(10, Write)

---------------------------------------------------------------------------
\* Words that compute; the register is stored before the result is checked.
CheckResult == CheckRange ** CheckOperation ** CheckInexact
fpu_add(i) == Set(i) ** CheckResult
fpu_mul(i) == Set(i) ** CheckResult
fpu_sub(i) == Set(i) ** CheckResult
fpu_subr(i) == Set(i) ** CheckResult
fpu_div(i) == CheckZeroDivide ** Set(i) ** CheckResult
fpu_divr(i) == CheckZeroDivide ** Set(i) ** CheckResult
fpu_com == CheckOperand ** Use(0)
fpu_tst == CheckOperand ** Use(0)
fpu_abs == Use(0)

fpu_2xm1 == CheckOperand ** Set(0) ** Raise("UE") ** CheckInexact
\* Nothing happens when the angle is out of range.
fpu_cos == CheckOperand ** (Nop \cup Set(0) ** CheckInexact)
fpu_sin == CheckOperand ** (Nop \cup Set(0) ** CheckInexact)
fpu_ptan ==
  CheckOperand ** (Nop \cup Over ** Set(0) ** CheckInexact ** Raise("UE") ** Push)
fpu_rndint == CheckDenormal ** Set(0) ** CheckInexact
fpu_sqrt == CheckOperand ** Set(0) ** CheckInexact ** CheckOperation
CheckBoth == CheckOperand ** CheckOperand
fpu_patan == CheckBoth ** Use(0) ** Set(1) ** CheckInexact ** Raise("UE")
fpu_prem == CheckBoth ** Use(1) ** Set(0) ** CheckOperation ** Raise("UE")
fpu_scale == CheckBoth ** Use(1) ** Set(0) ** CheckRange ** CheckInexact
fpu_yl2x == CheckBoth ** Use(0) ** Set(1) ** CheckResult ** CheckZeroDivide

\* A failing access is not delivered, the instruction is over all the same.
fsave_common == Times(3 * NRegs, Write) ** Plainly("initialise")
fpu_save32 == Times(7, Write) ** fsave_common
frstor_common == Times(3 * NRegs, Read)
fpu_rstor32 ==
  Read ** Plainly("load control") ** Read ** Plainly("load status")
    ** Read ** Plainly("load tags") ** Times(4, Read) ** frstor_common

---------------------------------------------------------------------------
\* The words of an instruction.
NoPop == Nop
compile_fpu_read_float == Read
compile_fpu_read_double == Times(2, Read)
compile_fpu_read_ldouble == Times(3, Read)
compile_fpu_write_float == Write
compile_fpu_write_double == Times(2, Write)
compile_fpu_write_ldouble == Times(3, Write)

\* The words of the integer instructions store the word.
compile_fpu_store_reg16(begin) == begin ** Access
compile_fpu_addr(begin, op) == begin ** op

compile_fpu_op_st0(op) == BEGIN_OP ** SELECT_ST0 ** op
compile_fpu_op_st0_st1(op, pop) == BEGIN_OP ** SELECT_ST0 ** SELECT_ST(1) ** op ** pop
compile_fpu_op_float(check, op, pop) ==
  BEGIN_OP ** compile_fpu_read_float ** check ** SELECT_ST0 ** op ** pop
compile_fpu_op_double(check, op, pop) ==
  BEGIN_OP ** compile_fpu_read_double ** check ** SELECT_ST0 ** op ** pop
compile_fpu_op_int32(op) == BEGIN_OP ** Read ** SELECT_ST0 ** op
\* Two operands, or one besides ST(0).
compile_fpu_op_reg(i, j, op, pop) ==
  BEGIN_OP ** SELECT_ST(i) ** SELECT_ST(j) ** REG2(j) ** op ** pop
compile_fpu_op_one_reg(j, op, pop) ==
  BEGIN_OP ** SELECT_ST0 ** SELECT_ST(j) ** REG2(j) ** op ** pop

compile_fld_float == BEGIN_OP ** compile_fpu_read_float ** fpu_push_float_u32
compile_fld_double == BEGIN_OP ** compile_fpu_read_double ** fpu_push_double_u64
compile_fld_ldouble(i) ==
  BEGIN_OP ** (SELECT_ST(i) ** fpu_push_reg(i)
                 \cup compile_fpu_read_ldouble ** fpu_push_ldouble_u80)
compile_fild_int16 == BEGIN_OP ** Read ** fpu_push_res16
compile_fild_int32 == BEGIN_OP ** Read ** fpu_push_res32
compile_fild_int64 == BEGIN_OP ** compile_fpu_read_double ** fpu_push_double_u64_as_int64
compile_fldcw == Read ** fpu_load_control_word

\* The store is a word of the integer instructions and happens whatever the
\* words before it have found.
compile_fist_int16(pop) == BEGIN_OP ** SELECT_ST0 ** fpu_reg2int16 ** Access ** pop
compile_fist_int32(pop) ==
  BEGIN_OP ** SELECT_ST0 ** fpu_reg2int32 ** compile_fpu_write_float ** pop
compile_fist_int64(pop) ==
  BEGIN_OP ** SELECT_ST0 ** fpu_reg2int64 ** compile_fpu_write_double ** pop
compile_fst_float(pop) ==
  BEGIN_OP ** SELECT_ST0 ** fpu_reg2float ** compile_fpu_write_float ** pop
compile_fst_double(pop) ==
  BEGIN_OP ** SELECT_ST0 ** fpu_reg2double ** compile_fpu_write_double ** pop
compile_fst_ldouble(i, pop) ==
  BEGIN_OP ** SELECT_ST0
    ** (Use(0) ** compile_fpu_write_ldouble \cup At("copy", i)) ** pop
compile_fbstp == BEGIN_OP ** SELECT_ST0 ** fpu_bstp ** POP
compile_fxch(i) == BEGIN_OP ** SELECT_ST0 ** SELECT_ST(i) ** At("exchange", i)
compile_ffree(i) == BEGIN_OP ** At("free", i)

---------------------------------------------------------------------------
\* The cases of compile, with the i of ST(i).
OfMemory(check, op, pop) ==
  compile_fpu_op_float(check, op, pop) \cup compile_fpu_op_double(check, op, pop)

Arithmetic(i) ==
  UNION {OfMemory(CheckOperand, UNION {fpu_add(0), fpu_mul(0), fpu_sub(0), fpu_subr(0),
                                       fpu_div(0)}, NoPop),
         OfMemory(CheckDenormal ** CheckSnan, fpu_divr(0), NoPop),
         compile_fpu_op_int32(fpu_mul(0)),
         compile_fpu_op_reg(0, i, UNION {fpu_add(0), fpu_mul(0), fpu_sub(0), fpu_div(0),
                                         fpu_divr(0)}, NoPop),
         compile_fpu_op_reg(i, 0, UNION {fpu_mul(i), fpu_sub(i), fpu_divr(i)}, NoPop),
         compile_fpu_op_reg(i, 0, UNION {fpu_add(i), fpu_mul(i), fpu_sub(i), fpu_subr(i),
                                         fpu_div(i), fpu_divr(i)}, POP)}

Comparisons(i) ==
  UNION {OfMemory(CheckOperand, fpu_com, NoPop \cup POP),
         compile_fpu_op_one_reg(i, fpu_com, POP),
         compile_fpu_op_one_reg(1, fpu_com, POP ** POP),
         compile_fpu_op_st0(fpu_tst), BEGIN_OP ** fpu_xam}

FunctionsOfST ==
  compile_fpu_op_st0(UNION {fpu_2xm1, fpu_abs, fpu_cos, fpu_sin, fpu_ptan, fpu_rndint,
                            fpu_sqrt})
    \cup UNION {compile_fpu_op_st0_st1(fpu_patan, POP), compile_fpu_op_st0_st1(fpu_prem, NoPop),
                compile_fpu_op_st0_st1(fpu_scale, NoPop), compile_fpu_op_st0_st1(fpu_yl2x, POP),
                fpu_chs}

LoadsAndStores(i) ==
  UNION {compile_fld_float, compile_fld_double, compile_fld_ldouble(i),
         compile_fild_int16, compile_fild_int32, compile_fild_int64,
         BEGIN_OP ** fpu_push_val,
         compile_fist_int32(NoPop \cup POP), compile_fist_int64(POP),
         compile_fst_float(NoPop \cup POP), compile_fst_double(NoPop \cup POP),
         compile_fst_ldouble(i, NoPop \cup POP), compile_fbstp,
         compile_fxch(i), compile_ffree(i)}

ControlInsns ==
  UNION {fpu_clear_excp, fpu_init, fpu_wait, compile_fldcw,
         compile_fpu_store_reg16(BEGIN_OP), compile_fpu_store_reg16(BEGIN_OP_NOCHECK),
         compile_fpu_addr(BEGIN_OP_NOCHECK, fpu_save32),
         compile_fpu_addr(BEGIN_OP, fpu_rstor32)}

\* All of them but FISTP to 16 bits.  FSETPM does nothing.
JitFpuInsnSet ==
  UNION {UNION {Arithmetic(i), Comparisons(i), LoadsAndStores(i)} : i \in Regs}
    \cup FunctionsOfST \cup ControlInsns \cup Nop

=============================================================================
