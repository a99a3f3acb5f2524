---------------------------- MODULE InterpArith ----------------------------
(***************************************************************************)
(* The handlers of ADD, ADC, SUB, SBB, CMP, AND, OR, XOR, TEST, INC, DEC,  *)
(* NEG and NOT, and of the string comparisons; then those of shifts and    *)
(* rotates, multiplications and divisions, bit tests, bit scans, BSWAP and *)
(* SETcc.  An operation is the pair of flags it reads and flags it writes; *)
(* the encodings are the same for all of them.  An instruction is named by *)
(* its operation and the form of its operands, as its handler is.          *)
(***************************************************************************)
EXTENDS Operands

AllButAF == Flags \ {"AF"}
AllButCF == Flags \ {"CF"}

\* The macros <OP>8/16/32: flags from the operands, result in the destination.
Adc == [r |-> {"CF"}, w |-> Flags]
Add == [r |-> {}, w |-> Flags]
Inc == [r |-> {}, w |-> AllButCF]
Cmp == [r |-> {}, w |-> Flags]
Dec == [r |-> {}, w |-> AllButCF]
Neg == [r |-> {}, w |-> Flags]
Sbb == [r |-> {"CF"}, w |-> Flags]
Sub == [r |-> {}, w |-> Flags]
Lop == [r |-> {}, w |-> AllButAF]
TestFlags == [r |-> {}, w |-> AllButAF]
Not == [r |-> {}, w |-> {}]

\* The value computed goes to a register of the instruction, or nowhere yet.
OnReg(op, src, dst) == Alu(op.r \cup src \cup dst, op.w \cup dst)
OnValue(op, src) == Alu(op.r \cup src, op.w)

\* <OP>_RM8_VAL8 and its kin: an operand in memory is read, the flags are set,
\* the result is written back; a register is changed in place.
RmVal(op, src) ==
  [mem |-> Load ** OnValue(op, src) ** Store, reg |-> OnReg(op, src, Gprs)]

\* The same for operations that only set flags.
RmTest(op, src) ==
  [mem |-> Load ** OnValue(op, src), reg |-> OnValue(op, src \cup Gprs)]

\* Encodings.
AccImm(name, op, dst) ==
  LET Acc == Alu(op.r \cup {"EAX"}, op.w \cup dst)
  IN Insn(<<name, "AL_imm8">>, IB ** Acc)
     \cup Insn(<<name, "A_imm">>, OpSize(IW ** Acc, ID ** Acc))

RmImm(name, rm) ==
  Insn(<<name, "rm8_imm8">>, get_addr_mode_r8(IB ** rm.mem, IB ** rm.reg))
  \cup Insn(<<name, "rm_imm">>,
            OpSize(get_addr_mode_r16(IW ** rm.mem, IW ** rm.reg),
                   get_addr_mode_r32(ID ** rm.mem, ID ** rm.reg)))

RmImm8(name, rm) ==
  Insn(<<name, "rm_imm8">>, get_addr_mode_r(IB ** rm.mem, IB ** rm.reg))

RmReg(name, rm) ==
  Insn(<<name, "rm8_r8">>, IB ** get_addr_mode_r8(rm.mem, rm.reg))
  \cup Insn(<<name, "rm_r">>, OpSize(IB ** get_addr_mode_r16(rm.mem, rm.reg),
                                     IB ** get_addr_mode_r32(rm.mem, rm.reg)))

RegRm(name, op, dst) ==
  LET body == [mem |-> Load ** OnReg(op, Gprs, dst), reg |-> OnReg(op, Gprs, dst)]
  IN Insn(<<name, "r8_rm8">>, IB ** get_addr_mode_r8(body.mem, body.reg))
     \cup Insn(<<name, "r_rm">>, OpSize(IB ** get_addr_mode_r16(body.mem, body.reg),
                                        IB ** get_addr_mode_r32(body.mem, body.reg)))

OneRm(name, op) ==
  LET rm == RmVal(op, {})
  IN Insn(<<name, "rm8">>, get_addr_mode_r8(rm.mem, rm.reg))
     \cup Insn(<<name, "rm">>, get_addr_mode_r(rm.mem, rm.reg))

\* INC and DEC of the register the opcode names.
OneReg(name, op) == Insn(<<name, "r">>, OpSize(OnReg(op, Gprs, Gprs), OnReg(op, Gprs, Gprs)))

---------------------------------------------------------------------------
adc_A == AccImm("adc", Adc, {"EAX"})
adc_rm_imm == RmImm("adc", RmVal(Adc, {})) \cup RmImm8("adc", RmVal(Adc, {}))
adc_rm_r == RmReg("adc", RmVal(Adc, Gprs))
adc_r_rm == RegRm("adc", Adc, Gprs)

add_A == AccImm("add", Add, {"EAX"})
add_rm_imm == RmImm("add", RmVal(Add, {})) \cup RmImm8("add", RmVal(Add, {}))
add_rm_r == RmReg("add", RmVal(Add, Gprs))
add_r_rm == RegRm("add", Add, Gprs)

inc_rm == OneRm("inc", Inc)
inc_r == OneReg("inc", Inc)

cmp_A == AccImm("cmp", Cmp, {})
cmp_rm_imm == RmImm("cmp", RmTest(Cmp, {})) \cup RmImm8("cmp", RmTest(Cmp, {}))
cmp_rm_r == RmReg("cmp", RmTest(Cmp, Gprs))
cmp_r_rm == RegRm("cmp", Cmp, {})

dec_rm == OneRm("dec", Dec)
dec_r == OneReg("dec", Dec)

neg_rm == OneRm("neg", Neg)

sbb_A == AccImm("sbb", Sbb, {"EAX"})
sbb_rm_imm == RmImm("sbb", RmVal(Sbb, {})) \cup RmImm8("sbb", RmVal(Sbb, {}))
sbb_rm_r == RmReg("sbb", RmVal(Sbb, Gprs))
sbb_r_rm == RegRm("sbb", Sbb, Gprs)

sub_A == AccImm("sub", Sub, {"EAX"})
sub_rm_imm == RmImm("sub", RmVal(Sub, {})) \cup RmImm8("sub", RmVal(Sub, {}))
sub_rm_r == RmReg("sub", RmVal(Sub, Gprs))
sub_r_rm == RegRm("sub", Sub, Gprs)

and_A == AccImm("and", Lop, {"EAX"})
and_rm_imm == RmImm("and", RmVal(Lop, {})) \cup RmImm8("and", RmVal(Lop, {}))
and_rm_r == RmReg("and", RmVal(Lop, Gprs))
and_r_rm == RegRm("and", Lop, Gprs)

not_rm == OneRm("not", Not)

or_A == AccImm("or", Lop, {"EAX"})
or_rm_imm == RmImm("or", RmVal(Lop, {})) \cup RmImm8("or", RmVal(Lop, {}))
or_rm_r == RmReg("or", RmVal(Lop, Gprs))
or_r_rm == RegRm("or", Lop, Gprs)

test_A == AccImm("test", TestFlags, {})
test_rm_imm == RmImm("test", RmTest(TestFlags, {}))
test_rm_r == RmReg("test", RmTest(TestFlags, Gprs))

xor_A == AccImm("xor", Lop, {"EAX"})
xor_rm_imm == RmImm("xor", RmVal(Lop, {})) \cup RmImm8("xor", RmVal(Lop, {}))
xor_rm_r == RmReg("xor", RmVal(Lop, Gprs))
xor_r_rm == RegRm("xor", Lop, Gprs)

---------------------------------------------------------------------------
\* CMPS reads both operands, sets the flags and moves both index registers;
\* SCAS compares the accumulator.  REP counts after the pointers have moved.
CmpsBody ==
  get_addrs_dsesi_esedi ** Load ** Load ** Alu({}, Flags)
  ** Alu({"ESI", "EDI", "DF"}, {"ESI", "EDI"}) ** TRY_REPE_REPNE

cmps == Insn(<<"cmps", "b">>, RepCounterIsNot0(CmpsBody))
        \cup Insn(<<"cmps", "wd">>, OpSize(RepCounterIsNot0(CmpsBody),
                                           RepCounterIsNot0(CmpsBody)))

ScasBody ==
  Alu({"EDI"}, {}) ** Load ** Alu({"EAX"}, Flags)
  ** Alu({"EDI", "DF"}, {"EDI"}) ** TRY_REPE_REPNE

scas == Insn(<<"scas", "b">>, RepCounterIsNot0(ScasBody))
        \cup Insn(<<"scas", "wd">>, OpSize(RepCounterIsNot0(ScasBody),
                                           RepCounterIsNot0(ScasBody)))

ArithInsns ==
  UNION {adc_A, adc_rm_imm, adc_rm_r, adc_r_rm, add_A, add_rm_imm, add_rm_r,
         add_r_rm, inc_rm, inc_r, cmp_A, cmp_rm_imm, cmp_rm_r, cmp_r_rm, cmps,
         dec_rm, dec_r, neg_rm, sbb_A, sbb_rm_imm, sbb_rm_r, sbb_r_rm, scas,
         sub_A, sub_rm_imm, sub_rm_r, sub_r_rm, and_A, and_rm_imm, and_rm_r,
         and_r_rm, not_rm, or_A, or_rm_imm, or_rm_r, or_r_rm, test_A,
         test_rm_imm, test_rm_r, xor_A, xor_rm_imm, xor_rm_r, xor_r_rm}

-----------------------------------------------------------------------------
(* Shifts and rotates, products and quotients, single bits. *)

\* What a shift does to the flags: nothing when the count is zero, and the
\* overflow flag only when it is one.
Shift(r, w, counts) ==
  {[r |-> r \cup count, w |-> out] : count \in counts, out \in w}

ShiftFlags == {{}, {"CF", "SF", "ZF", "PF"}, {"CF", "SF", "ZF", "PF", "OF"}}
RotateFlags == {{"CF"}, {"CF", "OF"}}
CarryRotateFlags == {{}, {"CF"}, {"CF", "OF"}}

By1 == {{}}
ByCL == {{"ECX"}}

\* <OP>_RM8/16/32: a memory operand is read, shifted and written back.
ShiftRm(r, w, count) ==
  LET s == Shift(r, w, count)
  IN  [mem |-> Load ** (UNION {Alu(f.r, f.w) : f \in s}) ** Store,
       reg |-> UNION {Alu(f.r \cup Gprs, f.w \cup Gprs) : f \in s}]

\* The encodings of each operation: by one, by CL, by an immediate byte.
ShiftForms(name, suffix, decode(_, _), r, w, byImm) ==
  LET one == ShiftRm(r, w, By1)
      cl  == ShiftRm(r, w, ByCL)
  IN  Insn(<<name, suffix \o "_1">>, decode(one.mem, one.reg))
      \cup Insn(<<name, suffix \o "_CL">>, decode(cl.mem, cl.reg))
      \cup IF byImm THEN Insn(<<name, suffix \o "_imm8">>, decode(IB ** one.mem, IB ** one.reg))
           ELSE {}

Shift8(name, r, w, byImm) == ShiftForms(name, "rm8", get_addr_mode_r8, r, w, byImm)
ShiftWord(name, r, w) == ShiftForms(name, "rm", get_addr_mode_r, r, w, TRUE)

shl_rm8 == Shift8("shl", {}, ShiftFlags, TRUE)
shl_rm == ShiftWord("shl", {}, ShiftFlags)
shr_rm8 == Shift8("shr", {}, ShiftFlags, TRUE)
shr_rm == ShiftWord("shr", {}, ShiftFlags)
sar_rm8 == Shift8("sar", {}, ShiftFlags, TRUE)
sar_rm == ShiftWord("sar", {}, ShiftFlags)
\* Bytes are not rotated through the carry by an immediate.
rcl_rm8 == Shift8("rcl", {"CF"}, CarryRotateFlags, FALSE)
rcl_rm == ShiftWord("rcl", {"CF"}, CarryRotateFlags)
rcr_rm8 == Shift8("rcr", {"CF"}, CarryRotateFlags, FALSE)
rcr_rm == ShiftWord("rcr", {"CF"}, CarryRotateFlags)
rol_rm8 == Shift8("rol", {}, RotateFlags, TRUE)
rol_rm == ShiftWord("rol", {}, RotateFlags)
ror_rm8 == Shift8("ror", {}, RotateFlags, TRUE)
ror_rm == ShiftWord("ror", {}, RotateFlags)

\* Double shifts take the bits shifted in from a register.
DoubleShift(name) ==
  LET imm == ShiftRm(Gprs, ShiftFlags, By1)
      cl  == ShiftRm(Gprs, ShiftFlags, ByCL)
  IN  Insn(<<name, "rm_r_imm8">>,
           OpSize(IB ** get_addr_mode_r16(IB ** imm.mem, IB ** imm.reg),
                  IB ** get_addr_mode_r32(IB ** imm.mem, IB ** imm.reg)))
      \cup Insn(<<name, "rm_r_CL">>,
                OpSize(IB ** get_addr_mode_r16(cl.mem, cl.reg),
                       IB ** get_addr_mode_r32(cl.mem, cl.reg)))

shld == DoubleShift("shld")
shrd == DoubleShift("shrd")

---------------------------------------------------------------------------
\* One operand against the accumulator; the byte forms use AX alone.
OnAcc(name, op8, op) ==
  Insn(<<name, "rm8">>, get_addr_mode_r8(Load ** op8, Alu(Gprs, {}) ** op8))
  \cup Insn(<<name, "rm">>, get_addr_mode_r(Load ** op, Alu(Gprs, {}) ** op))

\* #DE when the divisor is zero, and when the quotient does not fit.
Divide(r, w) == Check({}) ** Check(r) ** Alu(r, w)

div_rm == OnAcc("div", Divide({"EAX"}, {"EAX"}), Divide({"EAX", "EDX"}, {"EAX", "EDX"}))
idiv_rm == OnAcc("idiv", Divide({"EAX"}, {"EAX"}), Divide({"EAX", "EDX"}, {"EAX", "EDX"}))

ImulFlags == {"OF", "SF", "CF"}
MulFlags == {"OF", "CF"}

imul_rm == OnAcc("imul", Alu({"EAX"}, {"EAX"} \cup ImulFlags),
                         Alu({"EAX"}, {"EAX", "EDX"} \cup ImulFlags))
mul_rm == OnAcc("mul", Alu({"EAX"}, {"EAX"} \cup MulFlags),
                       Alu({"EAX"}, {"EAX", "EDX"} \cup MulFlags))

imul_r_rm ==
  LET op == Alu(Gprs, Gprs \cup ImulFlags)
  IN Insn(<<"imul", "r_rm">>, OpSize(IB ** get_addr_mode_r16(Load ** op, op),
                                     IB ** get_addr_mode_r32(Load ** op, op)))

imul_r_rm_imm ==
  LET op == Alu(Gprs, Gprs \cup ImulFlags)
      imm(i) == [mem |-> i ** Load ** op, reg |-> i ** op]
  IN Insn(<<"imul", "r_rm_imm8">>,
          OpSize(IB ** get_addr_mode_r16(imm(IB).mem, imm(IB).reg),
                 IB ** get_addr_mode_r32(imm(IB).mem, imm(IB).reg)))
     \cup Insn(<<"imul", "r_rm_imm">>,
               OpSize(IB ** get_addr_mode_r16(imm(IW).mem, imm(IW).reg),
                      IB ** get_addr_mode_r32(imm(ID).mem, imm(ID).reg)))

---------------------------------------------------------------------------
\* Bit scans: zero leaves the destination alone and only sets ZF.
Scan(name) ==
  LET op == Alu({}, {"ZF"}) \cup Alu({}, Gprs \cup {"ZF"})
  IN Insn(<<name, "r_rm">>,
          OpSize(IB ** get_addr_mode_r16(Load ** op, Alu(Gprs, {}) ** op),
                 IB ** get_addr_mode_r32(Load ** op, Alu(Gprs, {}) ** op)))

bsf_r_rm == Scan("bsf")
bsr_r_rm == Scan("bsr")

bswap_r == Insn(<<"bswap", "r">>, Alu(Gprs, Gprs))

\* Bit tests clear CF before the operand is read and set it from the bit; the
\* bit number moves the address of a memory operand.
TestBit ==
  [mem |-> Alu({}, {"CF"}) ** Alu(Gprs, {}) ** Load ** Alu({}, {"CF"}),
   reg |-> Alu({}, {"CF"}) ** Alu(Gprs, {"CF"})]
ChangeBit ==
  [mem |-> TestBit.mem ** Store, reg |-> TestBit.reg ** Alu(Gprs, Gprs)]

BitReg(name, op) ==
  Insn(<<name, "rm_r">>, OpSize(IB ** get_addr_mode_r16(op.mem, op.reg),
                                IB ** get_addr_mode_r32(op.mem, op.reg)))
BitImm(name, op) ==
  Insn(<<name, "rm_imm8">>, get_addr_mode_r(IB ** op.mem, IB ** op.reg))

bt == BitReg("bt", TestBit) \cup BitImm("bt", TestBit)
btc == BitImm("btc", ChangeBit)
btr == BitReg("btr", ChangeBit) \cup BitImm("btr", ChangeBit)
bts == BitReg("bts", ChangeBit) \cup BitImm("bts", ChangeBit)

---------------------------------------------------------------------------
\* SETcc evaluates its condition, then fetches its operand and writes a byte.
setcc_rm8(cond) == Alu(cond, {}) ** IB ** get_addr_mode_r8(Store, Alu({}, Gprs))

setcc ==
  LET cc == {<<"a", {"ZF", "CF"}>>, <<"ae", {"CF"}>>, <<"b", {"CF"}>>,
             <<"e", {"ZF"}>>, <<"g", {"ZF", "SF", "OF"}>>, <<"ge", {"SF", "OF"}>>,
             <<"l", {"SF", "OF"}>>, <<"na", {"ZF", "CF"}>>, <<"ne", {"ZF"}>>,
             <<"ng", {"ZF", "SF", "OF"}>>, <<"s", {"SF"}>>}
  IN UNION {Insn(<<"set" \o c[1], "rm8">>, setcc_rm8(c[2])) : c \in cc}

BitsInsns ==
  UNION {shl_rm8, shl_rm, shr_rm8, shr_rm, sar_rm8, sar_rm, rcl_rm8, rcl_rm,
         rcr_rm8, rcr_rm, rol_rm8, rol_rm, ror_rm8, ror_rm, shld, shrd, div_rm, idiv_rm, imul_rm,
         mul_rm, imul_r_rm, imul_r_rm_imm, bsf_r_rm, bsr_r_rm, bswap_r, bt, btc,
         btr, bts, setcc}

=============================================================================
