---------------------------- MODULE Disassembler ----------------------------
(***************************************************************************)
(* IA32_dis: what the JIT takes an instruction to be before it compiles    *)
(* it.  The prefix handlers, the encoders that read the operands, the      *)
(* addresses, and the bytes read and kept on the way.                      *)
(*                                                                         *)
(* An instruction is a record of its fields: is32 (the size of its code    *)
(* segment), pre (the prefix bytes), esc (0F follows), code, and the       *)
(* fields of ModR/M and SIB, which count only where they are read.         *)
(***************************************************************************)
EXTENDS DisTables, SequencesExt

---------------------------------------------------------------------------
\* IA32_dis begins: one byte read and kept, no prefix seen.
IA32_dis ==
  [groups |-> {}, seg |-> "none", op |-> FALSE, ad |-> FALSE, repe |-> FALSE,
   repne |-> FALSE, nbytes |-> 1, real_nbytes |-> 1]

\* As ByteAfter, with every byte kept.
EveryByteKept(st, group) ==
  [st EXCEPT !.real_nbytes = @ + 1, !.nbytes = @ + 1, !.groups = @ \cup {group}]

\* A prefix handler reads the byte after the prefix.  When a prefix of its
\* group was seen before, that byte takes the place of the last one kept.
ByteAfter(st, group) ==
  [st EXCEPT !.real_nbytes = @ + 1,
             !.nbytes = IF group \in st.groups THEN @ ELSE @ + 1,
             !.groups = @ \cup {group}]

\* Of the prefixes of a group the first one counts.
First(st, group, marked) == IF group \in st.groups THEN ByteAfter(st, group) ELSE marked

repne_repnz_and_other(st) == First(st, 1, [ByteAfter(st, 1) EXCEPT !.repne = TRUE])
repe_repz_and_other(st) == First(st, 1, [ByteAfter(st, 1) EXCEPT !.repe = TRUE])
override_seg(st, seg) == First(st, 2, [ByteAfter(st, 2) EXCEPT !.seg = seg])
switch_op_size_and_other(st) == First(st, 3, [ByteAfter(st, 3) EXCEPT !.op = TRUE])
switch_addr_size(st) == First(st, 4, [ByteAfter(st, 4) EXCEPT !.ad = TRUE])

Prefixed(st, row) ==
  CASE row[1] = "repne_repnz_and_other" -> repne_repnz_and_other(st)
    [] row[1] = "repe_repz_and_other" -> repe_repz_and_other(st)
    [] row[1] = "override_seg" -> override_seg(st, row[2])
    [] row[1] = "switch_op_size_and_other" -> switch_op_size_and_other(st)
    [] row[1] = "switch_addr_size" -> switch_addr_size(st)

OPERAND_SIZE_IS_32(x, st) == x.is32 # st.op
ADDRESS_SIZE_IS_32(x, st) == x.is32 # st.ad

---------------------------------------------------------------------------
\* The row of an instruction, and whether its byte selects a group, whose own
\* ModR/M byte is read before the encoder is called.
OneByte == [c \in 0 .. 255 |-> RowsAt(exec_inst_00_7f \cup exec_inst_80_ff, c)]
TwoByte == [c \in 0 .. 255 |-> RowsAt(inst_0f, c)]
OpcodeRow(x) == IF x.esc THEN TwoByte[x.code] ELSE OneByte[x.code]

Coprocessor == {"inst_d8", "inst_d9", "inst_da", "inst_db", "inst_dc", "inst_dd",
                "inst_de", "inst_df"}
GroupOf(x) ==
  {r[1] : r \in {r \in OpcodeRow(x) : r[1] \in DOMAIN Groups \cup {"inst_0f_01"}}}
GroupRows(g, x) ==
  IF g = "inst_0f_01" THEN RowsAt(inst_0f_01(x.mod), x.reg)
  ELSE RowsAt(Groups[g], IF g \in Coprocessor /\ x.mod = 3 THEN 192 + 8 * x.reg + x.rm
                         ELSE x.reg)
Rows(x) ==
  IF GroupOf(x) = {} THEN OpcodeRow(x) ELSE UNION {GroupRows(g, x) : g \in GroupOf(x)}

---------------------------------------------------------------------------
\* What each encoder reads, in order: its own ModR/M byte, the operand rm
\* names, an immediate of 8 or 16 bits or of the operand size, an offset of
\* the address size.  In the order of the source.
Encode(forms, reads) == [f \in forms |-> reads]
ModRM == <<"modrm", "rm">>

Encoders_rm_r == Encode({"rm8_r8", "rm_r", "r8_rm8"}, ModRM)
Encoders_sreg == Encode({"rm_sreg", "sreg_rm16", "r_rm"}, ModRM)
Encoders_r_rm_imm ==
  Encode({"r_rm_imm8"}, Append(ModRM, "imm8")) @@ Encode({"r_rm_imm"}, Append(ModRM, "imm"))
Encoders_rm_r_imm ==
  Encode({"rm_r_imm8"}, Append(ModRM, "imm8")) @@ Encode({"rm_r_CL"}, ModRM)
Encoders_cr == Encode({"r_rm8", "r32_rm16"}, ModRM)
               @@ Encode({"r32_cr", "r32_dr", "cr_r32", "dr_r32"}, <<"modrm">>)
Encoders_A == Encode({"AL_imm8", "imm8_AL", "imm8_A"}, <<"imm8">>)
              @@ Encode({"A_imm"}, <<"imm">>)
              @@ Encode({"AX", "DX_AL", "DX_A", "AL_DX", "A_DX"}, <<>>)
Encoders_no_op ==
  Encode({"CS", "SS", "DS", "ES", "FS", "GS", "xlatb", "no_op", "no_op_nosize"}, <<>>)
Encoders_rm_imm == Encode({"rm8_imm8"}, <<"rm", "imm8">>) @@ Encode({"rm_imm"}, <<"rm", "imm">>)
                   @@ Encode({"rm8_1", "rm_1"}, <<"rm">>)
Encoders_imm ==
  Encode({"3"}, <<>>) @@ Encode({"imm8"}, <<"imm8">>) @@ Encode({"imm16"}, <<"imm16">>)
  @@ Encode({"imm16_imm8"}, <<"imm16", "imm8">>) @@ Encode({"imm"}, <<"imm">>)
  @@ Encode({"rm_imm8"}, <<"rm", "imm8">>)
Encoders_CL == Encode({"rm_CL", "rm8_CL"}, <<"rm">>) @@ Encode({"r_m"}, <<"modrm", "mem">>)
Encoders_r == Encode({"r32", "r", "r_A"}, <<>>) @@ Encode({"rel8_opsize"}, <<"imm8">>)
Encoders_rel == Encode({"rel"}, <<"imm">>) @@ Encode({"loop_like"}, <<"imm8">>)
                @@ Encode({"rm8_nomodrmbyte"}, ModRM) @@ Encode({"rm8"}, <<"rm">>)
Encoders_rm == Encode({"rm16", "rm32", "rm", "rm__m16"}, <<"rm">>)
               @@ Encode({"ptr16_off"}, <<"imm", "imm16">>)
Encoders_m == Encode({"m"}, <<"mem">>) @@ Encode({"none"}, <<>>)
              @@ Encode({"AL_moffs8", "A_moffs", "moffs8_AL", "moffs_A"}, <<"moffs">>)
Encoders_fpu == Encode({"stack_pos", "st0_stack_pos", "stack_pos_st0"}, <<>>)
                @@ Encode({"r8_imm8"}, <<"imm8">>) @@ Encode({"r_imm"}, <<"imm">>)
Encoders_movs == Encode({"movs", "cmps", "scas", "lodsb", "lods"}, <<>>)
Encoders_outs ==
  Encode({"outsb", "outs", "movs_opsize", "stosb", "stos", "insb", "ins"}, <<>>)

Encoders ==
  Encoders_rm_r @@ Encoders_sreg @@ Encoders_r_rm_imm @@ Encoders_rm_r_imm @@ Encoders_cr
  @@ Encoders_A @@ Encoders_no_op @@ Encoders_rm_imm @@ Encoders_imm @@ Encoders_CL
  @@ Encoders_r @@ Encoders_rel @@ Encoders_rm @@ Encoders_m @@ Encoders_fpu
  @@ Encoders_movs @@ Encoders_outs

\* The row of an instruction its byte has one for, and what its encoder reads.
Row(x) == CHOOSE r \in Rows(x) : TRUE
Reads(x) == IF Rows(x) = {} THEN <<>> ELSE Encoders[Last(Row(x))]

\* No row, or an encoder whose operand must be in memory and is a register.
unk_inst(x) == Rows(x) = {} \/ ("mem" \in ToSet(Reads(x)) /\ x.mod = 3)

\* The repetition an encoder of string instructions takes from the prefixes.
Prefix(form, st) ==
  IF form \in {"cmps", "scas"}
  THEN IF st.repe THEN "repe" ELSE IF st.repne THEN "repne" ELSE "none"
  ELSE IF form \in DOMAIN Encoders_movs \cup DOMAIN Encoders_outs /\ (st.repe \/ st.repne)
  THEN "rep" ELSE "none"

---------------------------------------------------------------------------
\* Operands in memory: the form of the address, the default segment and the
\* bytes read besides ModR/M.
Disp(mod, wide) == CASE mod = 0 -> "none" [] mod = 1 -> "disp8" [] OTHER -> wide
DispBytes == [none |-> 0, disp8 |-> 1, disp16 |-> 2, disp32 |-> 4]
Regs32 == <<"EAX", "ECX", "EDX", "EBX", "ESP", "EBP", "ESI", "EDI">>

get_addr_16bit(x) ==
  LET forms == <<"BX_SI", "BX_DI", "BP_SI", "BP_DI", "SI", "DI", "BP", "BX">>
      direct == x.mod = 0 /\ x.rm = 6
      disp == IF direct THEN "disp16" ELSE Disp(x.mod, "disp16")
  IN [type |-> "ADDR16", base |-> IF direct THEN "none" ELSE forms[x.rm + 1],
      scale |-> <<>>, disp |-> disp, bytes |-> DispBytes[disp],
      data_seg |-> IF x.rm \in {2, 3, 6} /\ ~direct THEN "SS" ELSE "DS"]

\* As get_addr_sib, with the displacement of the instruction alone read.
SibWithoutBase(x, disp) ==
  LET direct == x.base = 5 /\ x.mod = 0
  IN [type |-> "ADDR32", base |-> IF direct THEN "sib_u32" ELSE Regs32[x.base + 1],
      scale |-> IF x.index = 4 THEN <<>> ELSE <<Regs32[x.index + 1], 2 ^ x.scale>>,
      disp |-> disp, bytes |-> 1 + DispBytes[disp],
      data_seg |-> IF x.base \in {4, 5} /\ ~direct THEN "SS" ELSE "DS"]

\* Base and scaled index; an index of 4 is none, a base of 5 with mod 0 is a
\* displacement read after the SIB byte.
get_addr_sib(x, disp) ==
  LET direct == x.base = 5 /\ x.mod = 0
  IN [type |-> "ADDR32", base |-> IF direct THEN "sib_u32" ELSE Regs32[x.base + 1],
      scale |-> IF x.index = 4 THEN <<>> ELSE <<Regs32[x.index + 1], 2 ^ x.scale>>,
      disp |-> disp, bytes |-> 1 + (IF direct THEN 4 ELSE 0) + DispBytes[disp],
      data_seg |-> IF x.base \in {4, 5} /\ ~direct THEN "SS" ELSE "DS"]

get_addr_32bit(x) ==
  LET direct == x.mod = 0 /\ x.rm = 5
      disp == IF direct THEN "disp32" ELSE Disp(x.mod, "disp32")
  IN IF x.rm = 4 THEN get_addr_sib(x, disp)
     ELSE [type |-> "ADDR32", base |-> IF direct THEN "none" ELSE Regs32[x.rm + 1],
           scale |-> <<>>, disp |-> disp, bytes |-> DispBytes[disp],
           data_seg |-> IF x.rm = 5 /\ ~direct THEN "SS" ELSE "DS"]

get_addr_moffs(ad32) ==
  [type |-> IF ad32 THEN "ADDR32" ELSE "ADDR16", base |-> "none", scale |-> <<>>,
   disp |-> IF ad32 THEN "disp32" ELSE "disp16", bytes |-> IF ad32 THEN 4 ELSE 2,
   data_seg |-> "DS"]

Register == [type |-> "register", base |-> "none", scale |-> <<>>, disp |-> "none",
             bytes |-> 0, data_seg |-> "none"]

OVERRIDE_SEG(addr, st) ==
  IF st.seg = "none" \/ addr.type = "register" THEN addr ELSE [addr EXCEPT !.data_seg = st.seg]

\* get_addr_mode_*: the operand of ModR/M is a register or an address.
get_addr_mode(x, st) ==
  IF x.mod = 3 THEN Register
  ELSE OVERRIDE_SEG(IF ADDRESS_SIZE_IS_32(x, st) THEN get_addr_32bit(x) ELSE get_addr_16bit(x), st)

\* The operand in memory of an instruction, if it has one.
Operand(x, st) ==
  IF ToSet(Reads(x)) \cap {"rm", "mem"} # {} THEN get_addr_mode(x, st)
  ELSE IF "moffs" \in ToSet(Reads(x))
  THEN OVERRIDE_SEG(get_addr_moffs(ADDRESS_SIZE_IS_32(x, st)), st)
  ELSE Register

\* read_op_*: the bytes of one read, the address apart.
ReadBytes(read, op32) ==
  CASE read \in {"modrm", "imm8"} -> 1
    [] read = "imm16" -> 2
    [] read = "imm" -> IF op32 THEN 4 ELSE 2
    [] OTHER -> 0

---------------------------------------------------------------------------
\* exec_inst, once the prefixes have been read: what the instruction is, and
\* the bytes it reads after the first one.
Decoded(x, st) ==
  IF unk_inst(x) THEN [known |-> FALSE]
  ELSE [known |-> TRUE, op |-> Row(x)[1], form |-> Last(Row(x)),
        width |-> IF Len(Row(x)) = 3 THEN Row(x)[2] ELSE 0,
        op32 |-> OPERAND_SIZE_IS_32(x, st), ad32 |-> ADDRESS_SIZE_IS_32(x, st),
        prefix |-> Prefix(Last(Row(x)), st), addr |-> Operand(x, st)]

BytesRead(x, st) ==
  (IF x.esc THEN 1 ELSE 0) + Cardinality(GroupOf(x)) + Operand(x, st).bytes
  + FoldSeq(LAMBDA read, n : n + ReadBytes(read, OPERAND_SIZE_IS_32(x, st)), 0, Reads(x))

=============================================================================
