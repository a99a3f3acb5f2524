----------------------------- MODULE InterpFlow -----------------------------
(***************************************************************************)
(* The handlers of CALL, JMP, Jcc, LOOP and RET, near and far.  What the   *)
(* source leaves to be implemented stops the program and has no path: call *)
(* gates of 16 bits, at the same level or with parameters, task gates and  *)
(* JMP through a gate.                                                     *)
(***************************************************************************)
EXTENDS Operands

\* An offset is compared with the limits of the code segment.
InCS == Check({"CS"})
InSS == Check({"SS", "ESP"})
SetEIP == Alu({}, {"EIP"})

---------------------------------------------------------------------------
\* Far transfers in protected mode.  The two pushes move ESP one by one.
call_jmp_far_protected_code(is_call) ==
  Check({"CS"}) **
  (IF is_call
     THEN InSS ** Check({}) ** OpSize(Alu({"CS", "EIP"}, {}) ** push32 ** push32,
                                      Alu({"CS", "EIP"}, {}) ** push16 ** push16)
     ELSE Check({}))
  ** set_segment_descriptor_access_bit ** Alu({}, {"CS"}) ** SetEIP

\* A gate to a more privileged level: the stack comes from the TSS, and SS and
\* ESP are switched before the four pushes.
call_far_protected_gate_more_pl ==
  Check({"TR"}) ** SysLoad({"TR", "mem"}) ** SysLoad({"TR", "mem"})
  ** Check({}) ** read_segment_descriptor ** Check({}) ** Check({})
  ** set_segment_descriptor_access_bit ** set_segment_descriptor_access_bit
  ** Alu({"SS", "ESP"}, {"SS", "ESP"})
  ** push32 ** push32 ** Alu({"CS", "EIP"}, {}) ** push32 ** push32
  ** Alu({}, {"CS"}) ** SetEIP

call_far_protected_gate ==
  Check({"CS"}) ** Check({}) ** read_segment_descriptor ** Check({"CS"})
  ** call_far_protected_gate_more_pl

call_jmp_far_protected(is_call) ==
  Check({}) ** read_segment_descriptor **
  ( Check({})
    \cup call_jmp_far_protected_code(is_call)
    \cup IF is_call THEN call_far_protected_gate ELSE {} )

call_far_nonprotected ==
  InSS ** OpSize(Check({}) ** Alu({"CS", "EIP"}, {}) ** push16 ** push32,
                 Alu({"CS", "EIP"}, {}) ** push16 ** push16)
       ** Alu({}, {"CS"}) ** SetEIP

jmp_far_nonprotected == Check({}) ** Alu({}, {"CS"}) ** SetEIP

CALL_FAR == Alu({"CR0", "VM"}, {}) ** (call_jmp_far_protected(TRUE) \cup call_far_nonprotected)
JMP_FAR == Alu({"CR0", "VM"}, {}) ** (call_jmp_far_protected(FALSE) \cup jmp_far_nonprotected)

\* Near transfers: the target is checked, the return address pushed, EIP moves.
CALL_NEAR(push) == InCS ** Alu({"EIP"}, {}) ** push ** SetEIP
JMP_NEAR == InCS ** SetEIP

---------------------------------------------------------------------------
\* The encodings of CALL and JMP.
Rel(name, near16, near32) == Insn(<<name, "rel">>, OpSize(IW ** near16, ID ** near32))

Rm(name, near16, near32) ==
  Insn(<<name, "rm">>,
       OpSize(get_addr_mode_r16(Load ** near16, Alu(Gprs, {}) ** near16),
              get_addr_mode_r32(Load ** near32, Alu(Gprs, {}) ** near32)))

Ptr(name, far) == Insn(<<name, "ptr16_16_32">>, OpSize(IW ** IW ** far, ID ** IW ** far))

\* A register is no far pointer: #UD.
M16(name, far) == Insn(<<name, "m16_off">>, get_addr_mode_r(Load ** Load ** far, Check({})))

call_rel == Rel("call", CALL_NEAR(push16), CALL_NEAR(push32))
call_rm == Rm("call", CALL_NEAR(push16), CALL_NEAR(push32))
call_ptr16_16_32 == Ptr("call", CALL_FAR)
call_m16_off == M16("call", CALL_FAR)

jmp_rel8 == Insn(<<"jmp", "rel8">>, IB ** JMP_NEAR)
jmp_rel == Rel("jmp", JMP_NEAR, JMP_NEAR)
jmp_rm == Rm("jmp", JMP_NEAR, JMP_NEAR)
jmp_ptr16_16_32 == Ptr("jmp", JMP_FAR)
jmp_m16_off == M16("jmp", JMP_FAR)

---------------------------------------------------------------------------
\* Conditional jumps evaluate their condition before they fetch the offset.
MayJump == Nop \cup JMP_NEAR

jcc_rel8(name, cond) == Insn(<<name, "rel8">>, Alu(cond, {}) ** IB ** MayJump)
jcc_rel(name, cond) ==
  Insn(<<name, "rel">>, Alu(cond, {}) ** OpSize(IW ** MayJump, ID ** MayJump))

jcc(name, cond) == jcc_rel8(name, cond) \cup jcc_rel(name, cond)

ja == jcc("ja", {"ZF", "CF"})
jae == jcc("jae", {"CF"})
jb == jcc("jb", {"CF"})
jcxz_rel8 == jcc_rel8("jcxz", {"ECX"})
jg == jcc("jg", {"ZF", "SF", "OF"})
je == jcc("je", {"ZF"})
jge == jcc("jge", {"SF", "OF"})
jl == jcc("jl", {"SF", "OF"})
jna == jcc("jna", {"ZF", "CF"})
jne == jcc("jne", {"ZF"})
jng == jcc("jng", {"ZF", "SF", "OF"})
jno_rel8 == jcc_rel8("jno", {"OF"})
jns == jcc("jns", {"SF"})
jo == jcc("jo", {"OF"})
jp_rel8 == jcc_rel8("jp", {"PF"})
jpo_rel8 == jcc_rel8("jpo", {"PF"})
js == jcc("js", {"SF"})

\* The counter moves before the target is known to lie inside the segment.
loopcc_rel8(name, cond) ==
  Insn(<<name, "rel8">>, Alu(cond, {}) ** IB ** Alu({"ECX"}, {"ECX"}) ** MayJump)

loop_rel8 == loopcc_rel8("loop", {})
loope_rel8 == loopcc_rel8("loope", {"ZF"})
loopne_rel8 == loopcc_rel8("loopne", {"ZF"})

---------------------------------------------------------------------------
\* The return address is popped; only the 16-bit form compares it with the
\* limits, when ESP has already moved.
ret_near16 == pop16 ** InCS ** SetEIP
ret_near32 == pop32 ** SetEIP
ret_near == Insn(<<"ret", "near">>, OpSize(ret_near16, ret_near32))

\* The words on the stack are read where they are; ESP moves once at the end.
StackRead == SysLoad({"SS", "ESP", "stack"})

ret_far_protected_same_pl ==
  StackRead ** Check({}) ** Alu({"ESP"}, {"ESP"}) ** SetEIP
  ** set_segment_descriptor_access_bit ** Alu({}, {"CS"})

ret_far_protected_outer_pl ==
  InSS ** StackRead ** StackRead ** StackRead ** Check({})
  ** read_segment_descriptor ** Check({}) ** Check({}) ** Check({})
  ** Alu({"ESP"}, {"ESP"}) ** SetEIP
  ** set_segment_descriptor_access_bit ** Alu({}, {"CS"}) ** Alu({}, {"ESP"})
  ** set_segment_descriptor_access_bit ** Alu({}, {"SS"})
  ** Alu({"ES", "FS", "GS", "DS"}, {"ES", "FS", "GS", "DS"})

ret_far_protected ==
  InSS ** StackRead ** Check({}) ** read_segment_descriptor ** Check({"CS"}) ** Check({})
  ** (ret_far_protected_outer_pl \cup ret_far_protected_same_pl)

ret_far_nonprotected ==
  InSS ** OpSize(pop32 ** SetEIP ** pop32, pop16 ** pop16 ** SetEIP) ** Alu({}, {"CS"})

FarReturn == Alu({"CR0", "VM"}, {}) ** (ret_far_protected \cup ret_far_nonprotected)

ret_far == Insn(<<"ret", "far">>, FarReturn)
ret_near_imm16 ==
  Insn(<<"ret", "near_imm16">>, IW ** OpSize(ret_near16, ret_near32) ** Alu({"ESP"}, {"ESP"}))
ret_far_imm16 == Insn(<<"ret", "far_imm16">>, IW ** FarReturn ** Alu({"ESP"}, {"ESP"}))

FlowInsns ==
  UNION {call_rel, call_rm, call_ptr16_16_32, call_m16_off, jmp_rel8, jmp_rel,
         jmp_rm, jmp_ptr16_16_32, jmp_m16_off, ja, jae, jb, jcxz_rel8, jg, je,
         jge, jl, jna, jne, jng, jno_rel8, jns, jo, jp_rel8, jpo_rel8, js,
         loop_rel8, loope_rel8, loopne_rel8, ret_near, ret_far,
         ret_near_imm16, ret_far_imm16}

=============================================================================
