------------------------------ MODULE JitInsns ------------------------------
(***************************************************************************)
(* The bytecode the JIT compiles each integer and system instruction to,   *)
(* step by step: the words compile() emits, in their order, and what each  *)
(* word of IA32_jit_exec_next_inst reads, writes and may fault on.         *)
(*                                                                         *)
(* A register named by the instruction is any of Gprs; the flag words are  *)
(* all there (which of them are left out, and why nobody notices, is       *)
(* FlagTemplates' and JitFlags' subject).  Instructions have the           *)
(* interpreter's names after "jit", and one form, "compiled".              *)
(***************************************************************************)
EXTENDS JitTransfers

\* The last word: EIP moves to the next instruction.
IncEip == Alu({"EIP"}, {"EIP"})

\* Instructions that end in that word, and those that set EIP themselves.
Compiled(name, paths) == Insn(<<name, "compiled">>, goto_eip_body ** paths ** IncEip)
Transfers(name, paths) == Insn(<<name, "compiled">>, goto_eip_body ** paths)

---------------------------------------------------------------------------
\* Words that move operands.
Address == Alu(Gprs, {})
Immediate == Nop
READ32 == Load
READ16 == Load
READ8 == Load
READ_OFFSET_SELECTOR == Load ** Load
RES_WRITE == Store
FromReg32 == Alu(Gprs, {})
FromReg16 == Alu(Gprs, {})
FromReg8 == Alu(Gprs, {})
ToReg32 == Alu({}, Gprs)
ToReg16 == Alu({}, Gprs)
ToReg8 == Alu({}, Gprs)
FromSreg == Alu(Sregs, {})
ToSreg32 == UNION {set_sreg(seg) : seg \in Sregs \ {"CS"}}
ToSreg16 == UNION {set_sreg(seg) : seg \in Sregs \ {"CS"}}
FromControl == check_seg_level0 ** (UNION {Alu({r}, {}) : r \in {"CR0", "CR2", "CR3", "DR"}})
ToControl ==
  check_seg_level0 **
  (Alu({}, {"DR"}) \cup Check({}) ** Alu({}, {"CR0"}) \cup Alu({}, {"CR2"})
   \cup Alu({}, {"CR3"}) ** Alu({}, {"TLB"}))
SET32_EFLAGS(w) == Alu({}, w)
SET16_EFLAGS(w) == Alu({}, w)
SET8_EFLAGS(w) == Alu({}, w)
Count == Nop \cup Alu({"ECX"}, {})

\* Operands: memory at an address just computed, or a register; a result goes
\* back to where the operand was, or to an address computed only then.
Forms == {"mem", "reg"}
compile_get_rm32_op == [mem |-> Address ** READ32, reg |-> FromReg32]
compile_get_rm16_op == [mem |-> Address ** READ16, reg |-> FromReg16]
compile_get_rm8_op == [mem |-> Address ** READ8, reg |-> FromReg8]
write_res32 == [mem |-> RES_WRITE, reg |-> ToReg32]
write_res16 == [mem |-> RES_WRITE, reg |-> ToReg16]
write_res8 == [mem |-> RES_WRITE, reg |-> ToReg8]
write_rm32_op == [mem |-> Address ** RES_WRITE, reg |-> ToReg32]
write_rm16_op == [mem |-> Address ** RES_WRITE, reg |-> ToReg16]
write_rm8_op == [mem |-> Address ** RES_WRITE, reg |-> ToReg8]
Either(operand) == operand["mem"] \cup operand["reg"]

---------------------------------------------------------------------------
\* Generic shapes: a word that reads, writes, or reads and writes an operand.
compile_inst_rm32_imm32_noflags_read(word) ==
  (Immediate \cup Either(compile_get_rm32_op) \cup FromSreg) ** word
compile_inst_rm16_imm16_noflags_read(word) ==
  (Immediate \cup Either(compile_get_rm16_op) \cup FromSreg) ** word
compile_inst_imm16_imm8(word) == Immediate ** word
compile_inst_rm32_noflags_write(word, to) == word ** (Either(write_rm32_op) \cup to)
compile_inst_rm16_noflags_write(word, to) == word ** (Either(write_rm16_op) \cup to)
compile_inst_rm32_noflags_read(word) == Either(compile_get_rm32_op) ** word
compile_inst_rm16_noflags_read(word) == Either(compile_get_rm16_op) ** word
compile_inst_rm8_noflags_read(word) == Either(compile_get_rm8_op) ** word
compile_inst_rm32_noflags_read_write(word) ==
  UNION {compile_get_rm32_op[f] ** word ** write_res32[f] : f \in Forms}
compile_inst_rm16_noflags_read_write(word) ==
  UNION {compile_get_rm16_op[f] ** word ** write_res16[f] : f \in Forms}
compile_inst_rm8_noflags_read_write(word) ==
  UNION {compile_get_rm8_op[f] ** word ** write_res8[f] : f \in Forms}

\* A second operand is an immediate, a register or, when the first is none,
\* memory.
Second(rm, form) == Immediate \cup rm["reg"] \cup (IF form = "reg" THEN rm["mem"] ELSE {})

\* Both operands, the operation, the result, and then the flag words.
TwoOperands(rm, op, res, flags) ==
  UNION {rm[f] ** Second(rm, f) ** Alu(op.r, {}) ** res[f] ** flags : f \in Forms}
OneOperand(rm, op, res, flags) ==
  UNION {rm[f] ** Alu(op.r, {}) ** res[f] ** flags : f \in Forms}
NoResult == [f \in Forms |-> Nop]

Op(r, w) == [r |-> r, w |-> w]
AllButAF == Flags \ {"AF"}
AllButCF == Flags \ {"CF"}
AllButOF == Flags \ {"OF"}

compile_lop32(op, write) ==
  TwoOperands(compile_get_rm32_op, op, IF write THEN write_res32 ELSE NoResult, SET32_EFLAGS(op.w))
compile_lop16(op, write) ==
  TwoOperands(compile_get_rm16_op, op, IF write THEN write_res16 ELSE NoResult, SET16_EFLAGS(op.w))
compile_lop8(op, write) ==
  TwoOperands(compile_get_rm8_op, op, IF write THEN write_res8 ELSE NoResult, SET8_EFLAGS(op.w))
Logic(name, write) ==
  Compiled(name, compile_lop32(Op({}, AllButAF), write) \cup compile_lop16(Op({}, AllButAF), write)
                 \cup compile_lop8(Op({}, AllButAF), write))

\* Additions and subtractions; INC, DEC and NEG have one operand.
Arith(one, rm, op, res, flags) ==
  IF one THEN OneOperand(rm, op, res, flags) ELSE TwoOperands(rm, op, res, flags)

compile_add32_like(one, op) ==
  Arith(one, compile_get_rm32_op, op, write_res32, SET32_EFLAGS(op.w))
compile_add16_like(one, op) ==
  Arith(one, compile_get_rm16_op, op, write_res16, SET16_EFLAGS(op.w))
compile_add8_like(one, op) ==
  Arith(one, compile_get_rm8_op, op, write_res8, SET8_EFLAGS(op.w))
Sum(name, one, op) ==
  Compiled(name, compile_add32_like(one, op) \cup compile_add16_like(one, op)
                 \cup compile_add8_like(one, op))

compile_sub32_like(write, one, op) ==
  Arith(one, compile_get_rm32_op, op, IF write THEN write_res32 ELSE NoResult, SET32_EFLAGS(op.w))
compile_sub16_like(write, one, op) ==
  Arith(one, compile_get_rm16_op, op, IF write THEN write_res16 ELSE NoResult, SET16_EFLAGS(op.w))
compile_sub8_like(write, one, op) ==
  Arith(one, compile_get_rm8_op, op, IF write THEN write_res8 ELSE NoResult, SET8_EFLAGS(op.w))
Difference(name, write, one, op) ==
  Compiled(name, compile_sub32_like(write, one, op) \cup compile_sub16_like(write, one, op)
                 \cup compile_sub8_like(write, one, op))

Sums ==
  Sum("jit adc", FALSE, Op({"CF"}, Flags)) \cup Sum("jit add", FALSE, Op({}, Flags))
  \cup Sum("jit inc", TRUE, Op({}, AllButCF))
  \cup Difference("jit cmp", FALSE, FALSE, Op({}, Flags))
  \cup Difference("jit sub", TRUE, FALSE, Op({}, Flags))
  \cup Difference("jit sbb", TRUE, FALSE, Op({"CF"}, Flags))
  \cup Difference("jit dec", TRUE, TRUE, Op({}, AllButCF))
  \cup Difference("jit neg", TRUE, TRUE, Op({}, Flags))
Logics ==
  Logic("jit and", TRUE) \cup Logic("jit or", TRUE) \cup Logic("jit xor", TRUE)
  \cup Logic("jit test", FALSE)

\* One-operand products use the accumulator and write its other half too;
\* the others write a register.  The flags come after the result.
MUL_CFOF == {"SF", "CF", "OF"}
compile_mul_like(rm, result) ==
  Either(rm) ** Alu({"EAX"}, {}) ** Alu({}, {"EAX", "EDX"}) ** result
  \cup (Nop \cup FromReg32) ** Either(rm) ** ToReg32 ** result
compile_mul32_like == compile_mul_like(compile_get_rm32_op, SET32_EFLAGS(MUL_CFOF))
compile_mul16_like == compile_mul_like(compile_get_rm16_op, SET16_EFLAGS(MUL_CFOF))
compile_mul8_like ==
  Either(compile_get_rm8_op) ** Alu({"EAX"}, {}) ** Alu({}, {"EAX"}) ** SET8_EFLAGS({"CF", "OF"})
Products ==
  UNION {Compiled(name, compile_mul32_like \cup compile_mul16_like \cup compile_mul8_like)
         : name \in {"jit mul", "jit imul"}}

\* #DE comes after the operand has been read and before anything is written.
DIV_EDX_EAX == Check({"EAX", "EDX"}) ** Alu({"EAX", "EDX"}, {"EAX", "EDX"})
Divide ==
  compile_inst_rm32_noflags_read(DIV_EDX_EAX) \cup compile_inst_rm16_noflags_read(DIV_EDX_EAX)
  \cup compile_inst_rm8_noflags_read(Check({"EAX"}) ** Alu({"EAX"}, {"EAX"}))
Quotients == UNION {Compiled(name, Divide) : name \in {"jit div", "jit idiv"}}

\* The bit is selected by the other operand, which is read first; the word of
\* the operation sets CF before the result is written.
BtLike(rm, res) ==
  UNION {(Immediate \cup rm["reg"]) ** rm[f] ** Alu({}, {"CF"}) ** res[f] : f \in Forms}
compile_bt32_like(write) == BtLike(compile_get_rm32_op, IF write THEN write_res32 ELSE NoResult)
compile_bt16_like(write) == BtLike(compile_get_rm16_op, IF write THEN write_res16 ELSE NoResult)
Bits ==
  Compiled("jit bt", compile_bt32_like(FALSE) \cup compile_bt16_like(FALSE))
  \cup UNION {Compiled(name, compile_bt32_like(TRUE) \cup compile_bt16_like(TRUE))
              : name \in {"jit btc", "jit btr", "jit bts"}}

\* BSF and BSR set ZF; a register receives the result.
BSF_BSR == Alu({}, {"ZF"})
BitScans ==
  UNION {Compiled(name, Either(compile_get_rm32_op) ** BSF_BSR ** ToReg32
                        \cup Either(compile_get_rm16_op) ** BSF_BSR ** ToReg16)
         : name \in {"jit bsf", "jit bsr"}}
Complements ==
  Compiled("jit not", compile_inst_rm32_noflags_read_write(Nop)
                      \cup compile_inst_rm16_noflags_read_write(Nop)
                      \cup compile_inst_rm8_noflags_read_write(Nop))
  \cup Compiled("jit bswap", FromReg32 ** ToReg32)


---------------------------------------------------------------------------
\* Shifts and rotates.  OF and CF come before the operation when they are
\* computed from the operand, CF of a rotate after it; the result is stored
\* next, and SF, ZF and PF are those of the result.
SHIFT_EFLAGS == Alu({}, {"SF", "ZF", "PF"})
Rotated(rm, res, cf, of) ==
  UNION {rm[f] ** Count ** Alu(of, {"OF"}) ** Alu(cf, {}) ** Alu(cf, {"CF"}) ** res[f] : f \in Forms}
Shifted(rm, res) ==
  UNION {rm[f] ** Count ** Alu({}, {"OF"}) ** Alu({}, {"CF"}) ** res[f] ** SHIFT_EFLAGS : f \in Forms}
DoubleShifted(rm, res) ==
  UNION {rm[f] ** rm["reg"] ** Count ** Alu({}, {"CF"}) ** res[f] ** Alu({}, {"OF"}) ** SHIFT_EFLAGS
         : f \in Forms}

compile_rcl32 == Rotated(compile_get_rm32_op, write_res32, {"CF"}, {})
compile_rcl16 == Rotated(compile_get_rm16_op, write_res16, {"CF"}, {})
compile_rcl8 == Rotated(compile_get_rm8_op, write_res8, {"CF"}, {})
compile_rcr32 == Rotated(compile_get_rm32_op, write_res32, {"CF"}, {"CF"})
compile_rcr16 == Rotated(compile_get_rm16_op, write_res16, {"CF"}, {"CF"})
compile_rcr8 == Rotated(compile_get_rm8_op, write_res8, {"CF"}, {"CF"})
compile_rol32 == Rotated(compile_get_rm32_op, write_res32, {}, {})
compile_rol16 == Rotated(compile_get_rm16_op, write_res16, {}, {})
compile_rol8 == Rotated(compile_get_rm8_op, write_res8, {}, {})
compile_ror32 == Rotated(compile_get_rm32_op, write_res32, {}, {})
compile_ror16 == Rotated(compile_get_rm16_op, write_res16, {}, {})
compile_ror8 == Rotated(compile_get_rm8_op, write_res8, {}, {})
compile_sar32 == Shifted(compile_get_rm32_op, write_res32)
compile_sar16 == Shifted(compile_get_rm16_op, write_res16)
compile_sar8 == Shifted(compile_get_rm8_op, write_res8)
compile_shl32 == Shifted(compile_get_rm32_op, write_res32)
compile_shl16 == Shifted(compile_get_rm16_op, write_res16)
compile_shl8 == Shifted(compile_get_rm8_op, write_res8)
compile_shr32 == Shifted(compile_get_rm32_op, write_res32)
compile_shr16 == Shifted(compile_get_rm16_op, write_res16)
compile_shr8 == Shifted(compile_get_rm8_op, write_res8)
compile_shld32 == DoubleShifted(compile_get_rm32_op, write_res32)
compile_shld16 == DoubleShifted(compile_get_rm16_op, write_res16)
compile_shrd32 == DoubleShifted(compile_get_rm32_op, write_res32)
compile_shrd16 == DoubleShifted(compile_get_rm16_op, write_res16)
Shifts ==
  Compiled("jit rcl", compile_rcl32 \cup compile_rcl16 \cup compile_rcl8)
  \cup Compiled("jit rcr", compile_rcr32 \cup compile_rcr16 \cup compile_rcr8)
  \cup Compiled("jit rol", compile_rol32 \cup compile_rol16 \cup compile_rol8)
  \cup Compiled("jit ror", compile_ror32 \cup compile_ror16 \cup compile_ror8)
  \cup Compiled("jit sar", compile_sar32 \cup compile_sar16 \cup compile_sar8)
  \cup Compiled("jit shl", compile_shl32 \cup compile_shl16 \cup compile_shl8)
  \cup Compiled("jit shr", compile_shr32 \cup compile_shr16 \cup compile_shr8)
  \cup Compiled("jit shld", compile_shld32 \cup compile_shld16)
  \cup Compiled("jit shrd", compile_shrd32 \cup compile_shrd16)

---------------------------------------------------------------------------
\* Moves.  The operand that may be memory is the second of an exchange, and
\* the register is written before it.
compile_xchg32 ==
  UNION {FromReg32 ** compile_get_rm32_op[f] ** ToReg32 ** write_res32[f] : f \in Forms}
compile_xchg16 ==
  UNION {FromReg16 ** compile_get_rm16_op[f] ** ToReg16 ** write_res16[f] : f \in Forms}
compile_xchg8 ==
  UNION {FromReg8 ** compile_get_rm8_op[f] ** ToReg8 ** write_res8[f] : f \in Forms}

compile_mov32 ==
  (Immediate \cup FromReg32 \cup FromSreg) ** Either(write_rm32_op)
  \cup FromReg32 ** (ToSreg32 \cup ToControl)
  \cup compile_get_rm32_op["mem"] ** (ToReg32 \cup ToSreg32)
  \cup FromControl ** ToReg32
compile_mov16 ==
  (Immediate \cup FromReg16 \cup FromSreg) ** Either(write_rm16_op)
  \cup FromReg16 ** ToSreg16
  \cup compile_get_rm16_op["mem"] ** (ToReg16 \cup ToSreg16)
compile_mov8 ==
  (Immediate \cup FromReg8) ** Either(write_rm8_op) \cup compile_get_rm8_op["mem"] ** ToReg8
compile_movszx32 == (Either(compile_get_rm8_op) \cup Either(compile_get_rm16_op)) ** ToReg32
compile_movszx == Either(compile_get_rm8_op) ** ToReg16

compile_lea == Address ** (ToReg32 \cup ToReg16)
compile_setcc == Alu(Flags, {}) ** Either(write_rm8_op)
compile_xlatb == Alu({"EBX", "EAX"}, {}) ** READ8 ** Alu({}, {"EAX"})

\* The segment register is loaded before the offset reaches its register.
compile_lsreg(seg) == Address ** READ_OFFSET_SELECTOR ** set_sreg(seg) ** (ToReg32 \cup ToReg16)

Moves ==
  Compiled("jit xchg", compile_xchg32 \cup compile_xchg16 \cup compile_xchg8)
  \cup Compiled("jit mov", compile_mov32 \cup compile_mov16 \cup compile_mov8)
  \cup Compiled("jit movsx", compile_movszx32 \cup compile_movszx)
  \cup Compiled("jit movzx", compile_movszx32 \cup compile_movszx)
  \cup Compiled("jit lea", compile_lea)
  \cup Compiled("jit setcc", compile_setcc)
  \cup Compiled("jit xlatb", compile_xlatb)
  \cup Compiled("jit lds", compile_lsreg("DS")) \cup Compiled("jit les", compile_lsreg("ES"))
  \cup Compiled("jit lfs", compile_lsreg("FS")) \cup Compiled("jit lgs", compile_lsreg("GS"))
  \cup Compiled("jit lss", compile_lsreg("SS"))

---------------------------------------------------------------------------
\* Transfers of control set EIP themselves.
BRANCH == Alu({"EIP"}, {}) ** jmp_near \cup IncEip
compile_jcc(cond) == cond ** BRANCH
LOOP_COND(r) == Alu({"ECX"} \cup r, {"ECX"})
Branches ==
  Transfers("jit jcc", compile_jcc(Alu(Flags, {})) \cup compile_jcc(Alu({"ECX"}, {})))
  \cup Transfers("jit loop", compile_jcc(LOOP_COND({})))
  \cup Transfers("jit loope", compile_jcc(LOOP_COND({"ZF"})))
  \cup Transfers("jit loopne", compile_jcc(LOOP_COND({"ZF"})))

compile_jmp_far_like(is_call) ==
  (Immediate \cup Address ** READ_OFFSET_SELECTOR)
  ** (IF is_call THEN Alu({"EIP"}, {}) ** call_far ELSE jmp_far)

\* CALL moves EIP to the target before it pushes the address to return to.
NearTarget ==
  Alu({"EIP"}, {}) \cup Either(compile_get_rm32_op) \cup Either(compile_get_rm16_op)
JMP_NEAR == NearTarget ** jmp_near
CALL_NEAR == NearTarget ** Alu({"EIP"}, {}) ** jmp_near ** (push32 \cup push16)
compile_jmp_near_like(is_call) == IF is_call THEN CALL_NEAR ELSE JMP_NEAR

\* Only a 16-bit target is compared with the limits of the code segment.
IncEsp == Alu({"ESP"}, {"ESP"})
compile_ret_near == (pop32 \cup pop16 ** Check({"CS"})) ** SetEIP ** (Nop \cup IncEsp)
compile_ret_far == ret_far ** (Nop \cup IncEsp)

compile_int == interruption({"EIP"})
compile_into == Alu({"OF"}, {}) ** (interruption({"EIP"}) \cup IncEip)

\* HLT advances EIP first and takes it back when it is refused.
HALT == IncEip ** check_seg_level0 ** Alu({}, {"halted"})

Jumps ==
  Transfers("jit jmp", compile_jmp_far_like(FALSE) \cup compile_jmp_near_like(FALSE))
  \cup Transfers("jit call", compile_jmp_far_like(TRUE) \cup compile_jmp_near_like(TRUE))
  \cup Transfers("jit ret", compile_ret_near \cup compile_ret_far)
  \cup Transfers("jit int", compile_int)
  \cup Transfers("jit into", compile_into)
  \cup Transfers("jit iret", iret(switch_task(FALSE)))
  \cup Transfers("jit hlt", HALT)


---------------------------------------------------------------------------
\* The stack.  A value is popped before the operand's address is computed, and
\* every register of POPA is written before the next value is popped.
PUSH32 == push32
PUSH16 == push16
POP32 == pop32
POP16 == pop16
PushAll(push) ==
  Alu({"CR0", "ESP"}, {}) ** Alu({"ESP"}, {})
  ** Alu({"EAX"}, {}) ** push ** Alu({"ECX"}, {}) ** push
  ** Alu({"EDX"}, {}) ** push ** Alu({"EBX"}, {}) ** push ** push
  ** Alu({"EBP"}, {}) ** push ** Alu({"ESI"}, {}) ** push ** Alu({"EDI"}, {}) ** push
PopAll(pop) ==
  pop ** Alu({}, {"EDI"}) ** pop ** Alu({}, {"ESI"}) ** pop ** Alu({}, {"EBP"}) ** pop
  ** pop ** Alu({}, {"EBX"}) ** pop ** Alu({}, {"EDX"})
  ** pop ** Alu({}, {"ECX"}) ** pop ** Alu({}, {"EAX"})
LEAVE(pop) == Alu({"EBP", "SS"}, {"ESP"}) ** pop ** Alu({}, {"EBP"})

Stack ==
  Compiled("jit push", compile_inst_rm32_imm32_noflags_read(PUSH32)
                       \cup compile_inst_rm16_imm16_noflags_read(PUSH16))
  \cup Compiled("jit pop", compile_inst_rm32_noflags_write(POP32, ToSreg32)
                           \cup compile_inst_rm16_noflags_write(POP16, ToSreg16))
  \cup Compiled("jit pusha", PushAll(PUSH32) \cup PushAll(PUSH16))
  \cup Compiled("jit popa", PopAll(PopWord))
  \cup Compiled("jit pushf", Alu(EFLAGS, {}) ** (PUSH32 \cup PUSH16))
  \cup Compiled("jit popf", pop32_eflags \cup pop16_eflags)
  \cup Compiled("jit enter", compile_inst_imm16_imm8(enter16) \cup compile_inst_imm16_imm8(enter32))
  \cup Compiled("jit leave", LEAVE(POP32) \cup LEAVE(POP16))

---------------------------------------------------------------------------
\* Decimal adjustment, conversions and single flags.
SET8_RESULT_EFLAGS == Alu({}, {"SF", "ZF", "PF"})
DAA_DAS == Alu({"EAX", "CF", "AF"}, {"EAX", "CF", "AF"}) ** SET8_RESULT_EFLAGS
AAD == Alu({"EAX"}, {"EAX"})
AAM == Check({}) ** Alu({"EAX"}, {"EAX"})
compile_aam_like(word) == word ** SET8_RESULT_EFLAGS
CBW == Alu({"EAX"}, {}) ** Alu({}, {"EAX"})
CDQ == Alu({"EAX"}, {"EDX"})
CWDE == Alu({"EAX"}, {"EAX"})
LAHF == Alu(AllButOF, {"EAX"})
SAHF == Alu({"EAX"}, AllButOF)
CPUID == Alu({"EAX"}, {"EAX", "EBX", "ECX", "EDX"})
Adjustments ==
  UNION {Compiled(name, DAA_DAS) : name \in {"jit daa", "jit das"}}
  \cup Compiled("jit aad", compile_aam_like(AAD)) \cup Compiled("jit aam", compile_aam_like(AAM))
  \cup Compiled("jit cbw", CBW \cup CWDE) \cup Compiled("jit cwd", CDQ)
  \cup Compiled("jit lahf", LAHF) \cup Compiled("jit sahf", SAHF)
  \cup UNION {Compiled(name, Alu({}, {"CF"})) : name \in {"jit clc", "jit stc"}}
  \cup UNION {Compiled(name, Alu({}, {"DF"})) : name \in {"jit cld", "jit std"}}
  \cup Compiled("jit cmc", Alu({"CF"}, {"CF"}))
  \cup Compiled("jit cpuid", CPUID) \cup Compiled("jit nop", Nop)

\* System registers.  LAR and LSL read their destination, which they write
\* back unchanged when they accept nothing, and ignore a descriptor that
\* cannot be read.
CLEAR_TS_CR0 == check_seg_level0_novm ** Alu({"CR0"}, {"CR0"})
LMSW == check_seg_level0_novm ** Alu({"CR0"}, {"CR0"})
compile_inst_m1632_read(word) == Address ** Load ** Load ** word
LGDT_LIDT(table) == check_seg_level0 ** Alu({}, {table})
compile_sgdt_like(table) == Address ** Alu({table}, {}) ** write_res16["mem"] ** write_res32["mem"]
compile_invlpg_like == Address ** check_seg_level0_novm
WBINVD == check_seg_level0

Selector == Either(compile_get_rm16_op) \cup FromReg32
AcceptsSegment(check) ==
  LET Word == Succeeding("load", {"GDTR", "LDTR", "descriptor"})
      Lost == Failing("load", {"GDTR", "LDTR", "descriptor"})
  IN Check({"CR0", "VM"}) ** Alu({"GDTR", "LDTR"}, {})
     ** (Nop \cup Lost \cup Word ** Lost \cup Word ** Word ** check) ** Alu({}, {"ZF"})
compile_lar ==
  Selector ** (FromReg32 \cup FromReg16) ** AcceptsSegment(lar_check_segment_descriptor) ** ToReg32
compile_lsl ==
  Selector ** (FromReg32 \cup FromReg16) ** AcceptsSegment(lsl_check_segment_descriptor) ** ToReg32

System ==
  Compiled("jit cli", cli) \cup Compiled("jit sti", sti)
  \cup Compiled("jit clts", CLEAR_TS_CR0) \cup Compiled("jit wbinvd", WBINVD)
  \cup Compiled("jit lmsw", Either(compile_get_rm16_op) ** LMSW)
  \cup Compiled("jit smsw", compile_inst_rm16_noflags_write(Alu({"CR0"}, {}), {})
                            \cup compile_inst_rm32_noflags_write(Alu({"CR0"}, {}), {}))
  \cup Compiled("jit sldt", compile_inst_rm16_noflags_write(Alu({"LDTR"}, {}), {}))
  \cup Compiled("jit str", compile_inst_rm16_noflags_write(Alu({"TR"}, {}), {}))
  \cup Compiled("jit lldt", Either(compile_get_rm16_op) ** lldt)
  \cup Compiled("jit ltr", Either(compile_get_rm16_op) ** ltr)
  \cup UNION {Compiled(name, Either(compile_get_rm16_op) ** verr_verw)
              : name \in {"jit verr", "jit verw"}}
  \cup Compiled("jit lgdt", compile_inst_m1632_read(LGDT_LIDT("GDTR")))
  \cup Compiled("jit lidt", compile_inst_m1632_read(LGDT_LIDT("IDTR")))
  \cup Compiled("jit sgdt", compile_sgdt_like("GDTR"))
  \cup Compiled("jit sidt", compile_sgdt_like("IDTR"))
  \cup Compiled("jit invlpg", compile_invlpg_like)
  \cup Compiled("jit lar", compile_lar) \cup Compiled("jit lsl", compile_lsl)

---------------------------------------------------------------------------
\* Ports: what follows an access is done only when it is permitted.
Port == Immediate \cup Alu({"EDX"}, {})
PORT_READ(rest) == io_check_permission(Alu({"io"}, {"io"}) ** rest)
PORT_WRITE(rest) == io_check_permission(Alu({}, {"io"}) ** rest)
compile_in == Port ** PORT_READ(Alu({}, {"EAX"}) ** IncEip)
compile_out == Port ** Alu({"EAX"}, {}) ** PORT_WRITE(IncEip)

\* String instructions: the word of each and what follows it.  The element at
\* ESI is read by one before it.
ReadSI == Alu({"ESI"}, {}) ** Load
Advance(indices) == Alu({"DF"} \cup indices, indices)
CMPS(rest) == ReadSI ** Alu({"EDI"}, {}) ** Load ** Advance({"ESI", "EDI"}) ** Alu({}, Flags) ** rest
INS(rest) ==
  Alu({"EDX"}, {}) ** PORT_READ(Alu({"EDI"}, {}) ** Store ** Advance({"EDI"}) ** rest)
LODS(rest) == ReadSI ** Alu({}, {"EAX"}) ** Advance({"ESI"}) ** rest
MOVS(rest) == ReadSI ** Alu({"EDI"}, {}) ** Store ** Advance({"ESI", "EDI"}) ** rest
OUTS(rest) == ReadSI ** Alu({"EDX"}, {}) ** PORT_WRITE(Advance({"ESI"}) ** rest)
SCAS(rest) ==
  Alu({"EDI"}, {}) ** Load ** Alu({"EAX"}, {}) ** Advance({"EDI"}) ** Alu({}, Flags) ** rest
STOS(rest) == Alu({"EAX", "EDI"}, {}) ** Store ** Advance({"EDI"}) ** rest

\* An iteration, alone or in a loop: the counter is tested before it and
\* decremented after it, and the next iteration begins at the same EIP.
Again(ends) == Alu({"ECX"} \cup ends, {"ECX"}) ** (Nop \cup IncEip)
Repeated(alone, iteration) == alone \cup Alu({"ECX"}, {}) ** (IncEip \cup iteration)
compile_cmps == Repeated(CMPS(IncEip), CMPS(Again({"ZF"})))
compile_ins == Repeated(INS(IncEip), INS(Again({})))
compile_lods == Repeated(LODS(IncEip), LODS(Again({})))
compile_movs == Repeated(MOVS(IncEip), MOVS(Again({})))
compile_outs == Repeated(OUTS(IncEip), OUTS(Again({})))
compile_scas == Repeated(SCAS(IncEip), SCAS(Again({"ZF"})))
compile_stos == Repeated(STOS(IncEip), STOS(Again({})))
Strings ==
  Transfers("jit in", compile_in) \cup Transfers("jit out", compile_out)
  \cup Transfers("jit cmps", compile_cmps) \cup Transfers("jit ins", compile_ins)
  \cup Transfers("jit lods", compile_lods) \cup Transfers("jit movs", compile_movs)
  \cup Transfers("jit outs", compile_outs) \cup Transfers("jit scas", compile_scas)
  \cup Transfers("jit stos", compile_stos)

\* Instructions of the FPU that transfer its whole state.
compile_fpu_addr(check, word) == fpu_begin_op(check) ** Address ** word
FpuImages ==
  Compiled("jit fsave", compile_fpu_addr(FALSE, fpu_save32))
  \cup Compiled("jit frstor", compile_fpu_addr(TRUE, fpu_rstor32))

---------------------------------------------------------------------------
JitInsnSet ==
  UNION {Sums, Logics, Products, Quotients, Bits, BitScans, Complements, Shifts, Moves, Branches,
         Jumps, Stack, Adjustments, System, Strings, FpuImages}

=============================================================================
