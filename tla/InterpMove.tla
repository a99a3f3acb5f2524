----------------------------- MODULE InterpMove -----------------------------
(***************************************************************************)
(* The handlers of MOV in all its forms, MOVSX, MOVZX and MOVS, of IN, OUT,*)
(* INS and OUTS, and of INVLPG.                                            *)
(***************************************************************************)
EXTENDS Operands

\* Only privilege level 0 may go on: #GP otherwise.
OnlyLevel0 == Check({"CR0", "VM", "CS"})

\* A byte form and the two word forms of an instruction with a reg field.
ByteAndWords(name, form8, form, mem, reg) ==
  Insn(<<name, form8>>, IB ** get_addr_mode_r8(mem, reg))
  \cup Insn(<<name, form>>, OpSize(IB ** get_addr_mode_r16(mem, reg),
                                   IB ** get_addr_mode_r32(mem, reg)))

mov_rm_r == ByteAndWords("mov", "rm8_r8", "rm_r", Alu(Gprs, {}) ** Store, Alu(Gprs, Gprs))
mov_r_rm == ByteAndWords("mov", "r8_rm8", "r_rm", Load ** Alu({}, Gprs), Alu(Gprs, Gprs))

\* A register takes the selector; its upper half is cleared.
mov_rm_sreg ==
  Insn(<<"mov", "rm_sreg">>,
       OpSize(IB ** get_addr_mode_sreg16(Alu(Sregs, {}) ** Store, Alu(Sregs, Gprs)),
              IB ** get_addr_mode_sreg32(Alu(Sregs, {}) ** Store, Alu(Sregs, Gprs))))

mov_sreg_rm16 ==
  LET any_sreg == UNION {set_sreg(s) : s \in Sregs}
  IN Insn(<<"mov", "sreg_rm16">>,
          IB ** get_addr_mode_sreg16(Load ** any_sreg, Alu(Gprs, {}) ** any_sreg))

\* The offset is part of the instruction.
mov_A_moffs ==
  Insn(<<"mov", "AL_moffs8">>, get_addr_moffs ** Load ** Alu({}, {"EAX"}))
  \cup Insn(<<"mov", "A_moffs">>, get_addr_moffs ** OpSize(Load, Load) ** Alu({}, {"EAX"}))

mov_moffs_A ==
  Insn(<<"mov", "moffs8_AL">>, get_addr_moffs ** Alu({"EAX"}, {}) ** Store)
  \cup Insn(<<"mov", "moffs_A">>, get_addr_moffs ** Alu({"EAX"}, {}) ** OpSize(Store, Store))

mov_r8_imm8 == Insn(<<"mov", "r8_imm8">>, IB ** Alu({}, Gprs))
mov_r_imm == Insn(<<"mov", "r_imm">>, OpSize(IW ** Alu({}, Gprs), ID ** Alu({}, Gprs)))

mov_rm_imm ==
  LET from(imm) == [mem |-> imm ** Store, reg |-> imm ** Alu({}, Gprs)]
  IN Insn(<<"mov", "rm8_imm8">>, get_addr_mode_rm8_r16(from(IB).mem, from(IB).reg))
     \cup Insn(<<"mov", "rm_imm">>,
               OpSize(get_addr_mode_r16(from(IW).mem, from(IW).reg),
                      get_addr_mode_r32(from(ID).mem, from(ID).reg)))

\* Control and debug registers.  Paging without protection is #GP; a new CR0
\* selects the functions that access memory.
mov_r32_cr ==
  Insn(<<"mov", "r32_cr">>,
       IB ** get_addr_mode_cr ** OnlyLevel0 ** Alu({"CR0", "CR2", "CR3"}, Gprs))

mov_cr_r32 ==
  Insn(<<"mov", "cr_r32">>,
       IB ** get_addr_mode_cr ** OnlyLevel0 **
       (Check(Gprs) ** Alu(Gprs, {"CR0"}) \cup Alu(Gprs, {"CR2"}) \cup Alu(Gprs, {"CR3"})))

\* DR4 and DR5 are no registers when CR4.DE is set; the rest but DR7 stop the
\* program.
mov_r32_dr ==
  Insn(<<"mov", "r32_dr">>,
       IB ** get_addr_mode_cr ** OnlyLevel0 ** (Check({"CR4"}) \cup Alu({"DR"}, Gprs)))

mov_dr_r32 ==
  Insn(<<"mov", "dr_r32">>,
       IB ** get_addr_mode_cr ** OnlyLevel0 ** (Check({"CR4"}) \cup Alu(Gprs, {"DR"})))

MovsBody ==
  get_addrs_dsesi_esedi ** Load ** Store
  ** Alu({"ESI", "EDI", "DF"}, {"ESI", "EDI"}) ** TRY_REP

movs == Insn(<<"movs", "b">>, RepCounterIsNot0(MovsBody))
        \cup Insn(<<"movs", "wd">>, OpSize(RepCounterIsNot0(MovsBody),
                                           RepCounterIsNot0(MovsBody)))

\* A narrow operand is extended to a register.
Extend(name) ==
  LET mem == Load ** Alu({}, Gprs)
      reg == Alu(Gprs, Gprs)
  IN Insn(<<name, "r_rm8">>, OpSize(IB ** get_addr_mode_rm8_r16(mem, reg),
                                    IB ** get_addr_mode_rm8_r32(mem, reg)))
     \cup Insn(<<name, "r32_rm16">>, IB ** get_addr_mode_rm16_r32(mem, reg))

movsx == Extend("movsx")
movzx == Extend("movzx")

---------------------------------------------------------------------------
\* Ports.  In protected mode the level is compared with IOPL; when it is too
\* low, and in virtual-8086 mode, the bitmap of the TSS decides.
IoPermission ==
  Alu({"CR0", "VM", "CS", "IOPL"}, {}) ** (Nop \cup check_io_permission_bit_map)

\* A device sees every read of a port of its own.
PORT_READ(w) == Alu({"io"}, {"io"} \cup w)
PORT_WRITE(r) == Alu(r, {"io"})

in_A == IoPermission ** PORT_READ({"EAX"})
in_AL_imm8 == Insn(<<"in", "AL_imm8">>, IB ** in_A)
in_DX == Insn(<<"in", "AL_DX">>, Alu({"EDX"}, {}) ** in_A)
         \cup Insn(<<"in", "A_DX">>, Alu({"EDX"}, {}) ** OpSize(in_A, in_A))

\* Writing 32 bits where the bitmap should decide stops the program.
out_A == IoPermission ** PORT_WRITE({"EAX"})
out_EAX == Alu({"CR0", "VM", "CS", "IOPL"}, {}) ** PORT_WRITE({"EAX"})
out_imm8 == Insn(<<"out", "imm8_AL">>, IB ** out_A)
            \cup Insn(<<"out", "imm8_A">>, IB ** OpSize(out_A, out_EAX))
out_DX == Insn(<<"out", "DX_AL">>, Alu({"EDX"}, {}) ** out_A)
          \cup Insn(<<"out", "DX_A">>, Alu({"EDX"}, {}) ** OpSize(out_A, out_EAX))

\* INS and OUTS ask for permission before they look at the counter.  INS reads
\* its port before the byte is stored.
InsBody ==
  Alu({"EDX"}, {}) ** PORT_READ({}) ** Alu({"EDI"}, {}) ** Store
  ** Alu({"EDI", "DF"}, {"EDI"}) ** TRY_REP
OutsBody ==
  get_addr_dsesi ** Load ** PORT_WRITE({"EDX"})
  ** Alu({"ESI", "DF"}, {"ESI"}) ** TRY_REP

ins_outs(name, body) ==
  Insn(<<name, "b">>, IoPermission ** RepCounterIsNot0(body))
  \cup Insn(<<name, "wd">>, OpSize(IoPermission ** RepCounterIsNot0(body),
                                   IoPermission ** RepCounterIsNot0(body)))

ins == ins_outs("ins", InsBody)
outs == ins_outs("outs", OutsBody)

---------------------------------------------------------------------------
\* Nothing is cached in the interpreter: INVLPG only checks its operand and
\* the privilege level.
invlpg ==
  Insn(<<"invlpg", "m">>,
       get_addr_mode_r(OnlyLevel0, Check({})))

MoveInsns ==
  UNION {mov_rm_r, mov_r_rm, mov_rm_sreg, mov_sreg_rm16, mov_A_moffs, mov_moffs_A,
         mov_r8_imm8, mov_r_imm, mov_rm_imm, mov_r32_cr, mov_cr_r32, mov_r32_dr,
         mov_dr_r32, movs, movsx, movzx, in_AL_imm8, in_DX, out_imm8, out_DX,
         ins, outs, invlpg}

=============================================================================
