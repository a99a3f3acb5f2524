------------------------------ MODULE DisTables ------------------------------
(***************************************************************************)
(* The opcode tables of the disassembler: what the switches of exec_inst   *)
(* and inst_* in dis.c make of each byte.  A row is the byte, the mnemonic *)
(* without its size, and the encoder that reads the operands; a row of the *)
(* coprocessor also has the size of the mnemonic, 0 without.               *)
(***************************************************************************)
EXTENDS OpcodeRows

\* The one-byte opcodes.
exec_inst_00_7f ==
  Six(\h00, "add") \cup Six(\h08, "or") \cup Six(\h10, "adc") \cup Six(\h18, "sbb")
    \cup Six(\h20, "and") \cup Six(\h28, "sub") \cup Six(\h30, "xor")
    \cup Six(\h38, "cmp")
  \cup {<<\h06, "push", "ES">>, <<\h07, "pop", "ES">>, <<\h0e, "push", "CS">>,
        <<\h0f, "inst_0f", "">>, <<\h16, "push", "SS">>, <<\h17, "pop", "SS">>,
        <<\h1e, "push", "DS">>, <<\h1f, "pop", "DS">>, <<\h26, "override_seg", "ES">>,
        <<\h27, "daa", "no_op">>, <<\h2e, "override_seg", "CS">>,
        <<\h2f, "das", "no_op">>, <<\h36, "override_seg", "SS">>,
        <<\h3e, "override_seg", "DS">>, <<\h3f, "aas", "no_op_nosize">>,
        <<\h60, "pusha", "no_op">>, <<\h61, "popa", "no_op">>, <<\h62, "bound", "r_m">>,
        <<\h64, "override_seg", "FS">>, <<\h65, "override_seg", "GS">>,
        <<\h66, "switch_op_size_and_other", "">>, <<\h67, "switch_addr_size", "">>,
        <<\h68, "push", "imm">>, <<\h69, "imul", "r_rm_imm">>, <<\h6a, "push", "imm8">>,
        <<\h6b, "imul", "r_rm_imm8">>, <<\h6c, "insb", "insb">>, <<\h6d, "ins", "ins">>,
        <<\h6e, "outsb", "outsb">>, <<\h6f, "outs", "outs">>,
        <<\h70, "jo", "rel8_opsize">>, <<\h71, "jno", "rel8_opsize">>,
        <<\h72, "jb", "rel8_opsize">>, <<\h73, "jae", "rel8_opsize">>,
        <<\h74, "je", "rel8_opsize">>, <<\h75, "jne", "rel8_opsize">>,
        <<\h76, "jna", "rel8_opsize">>, <<\h77, "ja", "rel8_opsize">>,
        <<\h78, "js", "rel8_opsize">>, <<\h79, "jns", "rel8_opsize">>,
        <<\h7a, "jp", "rel8_opsize">>, <<\h7b, "jpo", "rel8_opsize">>,
        <<\h7c, "jl", "rel8_opsize">>, <<\h7d, "jge", "rel8_opsize">>,
        <<\h7e, "jng", "rel8_opsize">>, <<\h7f, "jg", "rel8_opsize">>}
  \cup Eight(\h40, <<"inc", "r">>)
  \cup Eight(\h48, <<"dec", "r">>)
  \cup Eight(\h50, <<"push", "r">>)
  \cup Eight(\h58, <<"pop", "r">>)

exec_inst_80_ff ==
  {<<\h80, "inst_80", "">>, <<\h81, "inst_81", "">>, <<\h83, "inst_83", "">>,
   <<\h84, "test", "rm8_r8">>, <<\h85, "test", "rm_r">>, <<\h86, "xchg", "r8_rm8">>,
   <<\h87, "xchg", "r_rm">>, <<\h88, "mov", "rm8_r8">>, <<\h89, "mov", "rm_r">>,
   <<\h8a, "mov", "r8_rm8">>, <<\h8b, "mov", "r_rm">>, <<\h8c, "mov", "rm_sreg">>,
   <<\h8d, "lea", "r_m">>, <<\h8e, "mov", "sreg_rm16">>, <<\h8f, "inst_8f", "">>,
   <<\h90, "nop", "none">>, <<\h98, "cbw_cwde", "no_op">>,
   <<\h99, "cwd_cdq", "no_op">>, <<\h9a, "call_far", "ptr16_off">>,
   <<\h9b, "fwait", "no_op">>, <<\h9c, "pushf", "no_op">>,
   <<\h9d, "popf", "no_op">>, <<\h9e, "sahf", "none">>, <<\h9f, "lahf", "none">>,
   <<\ha0, "mov", "AL_moffs8">>, <<\ha1, "mov", "A_moffs">>,
   <<\ha2, "mov", "moffs8_AL">>, <<\ha3, "mov", "moffs_A">>,
   <<\ha4, "movsb", "movs">>, <<\ha5, "movs", "movs_opsize">>,
   <<\ha6, "cmpsb", "cmps">>, <<\ha7, "cmps", "cmps">>, <<\ha8, "test", "AL_imm8">>,
   <<\ha9, "test", "A_imm">>, <<\haa, "stosb", "stosb">>, <<\hab, "stos", "stos">>,
   <<\hac, "lodsb", "lodsb">>, <<\had, "lods", "lods">>, <<\hae, "scasb", "scas">>,
   <<\haf, "scas", "scas">>, <<\hc0, "inst_c0", "">>, <<\hc1, "inst_c1", "">>,
   <<\hc2, "ret_near", "imm16">>, <<\hc3, "ret_near", "no_op">>,
   <<\hc4, "les", "r_m">>, <<\hc5, "lds", "r_m">>, <<\hc6, "inst_c6", "">>,
   <<\hc7, "inst_c7", "">>, <<\hc8, "enter", "imm16_imm8">>,
   <<\hc9, "leave", "no_op">>, <<\hca, "ret_far", "imm16">>,
   <<\hcb, "ret_far", "no_op">>, <<\hcc, "int", "3">>, <<\hcd, "int", "imm8">>,
   <<\hce, "into", "no_op">>, <<\hcf, "iret", "no_op">>, <<\hd0, "inst_d0", "">>,
   <<\hd1, "inst_d1", "">>, <<\hd2, "inst_d2", "">>, <<\hd3, "inst_d3", "">>,
   <<\hd4, "aam", "imm8">>, <<\hd5, "aad", "imm8">>, <<\hd7, "xlatb", "xlatb">>,
   <<\hd8, "inst_d8", "">>, <<\hd9, "inst_d9", "">>, <<\hda, "inst_da", "">>,
   <<\hdb, "inst_db", "">>, <<\hdc, "inst_dc", "">>, <<\hdd, "inst_dd", "">>,
   <<\hde, "inst_de", "">>, <<\hdf, "inst_df", "">>,
   <<\he0, "loopne", "loop_like">>, <<\he1, "loope", "loop_like">>,
   <<\he2, "loop", "loop_like">>, <<\he3, "jcxz", "rel8_opsize">>,
   <<\he4, "in", "AL_imm8">>, <<\he6, "out", "imm8_AL">>, <<\he7, "out", "imm8_A">>,
   <<\he8, "call_near", "rel">>, <<\he9, "jmp_near", "rel">>,
   <<\hea, "jmp_far", "ptr16_off">>, <<\heb, "jmp_near", "rel8_opsize">>,
   <<\hec, "in", "AL_DX">>, <<\hed, "in", "A_DX">>, <<\hee, "out", "DX_AL">>,
   <<\hef, "out", "DX_A">>, <<\hf2, "repne_repnz_and_other", "">>,
   <<\hf3, "repe_repz_and_other", "">>, <<\hf4, "hlt", "none">>,
   <<\hf5, "cmc", "none">>, <<\hf6, "inst_f6", "">>, <<\hf7, "inst_f7", "">>,
   <<\hf8, "clc", "none">>, <<\hf9, "stc", "none">>, <<\hfa, "cli", "none">>,
   <<\hfb, "sti", "none">>, <<\hfc, "cld", "none">>, <<\hfd, "std", "none">>,
   <<\hfe, "inst_fe", "">>, <<\hff, "inst_ff", "">>}
  \cup {<<c, "xchg", "r_A">> : c \in \h91 .. \h97}
  \cup Eight(\hb0, <<"mov", "r8_imm8">>)
  \cup Eight(\hb8, <<"mov", "r_imm">>)

\* The opcodes after 0F.
inst_0f ==
  {<<\h00, "inst_0f_00", "">>, <<\h01, "inst_0f_01", "">>, <<\h02, "lar", "r_rm">>,
   <<\h03, "lsl", "r_rm">>, <<\h06, "clts", "no_op_nosize">>,
   <<\h09, "wbinvd", "no_op_nosize">>, <<\h20, "mov", "r32_cr">>,
   <<\h21, "mov", "r32_dr">>, <<\h22, "mov", "cr_r32">>, <<\h23, "mov", "dr_r32">>,
   <<\h80, "jo", "rel">>, <<\h82, "jb", "rel">>, <<\h83, "jae", "rel">>,
   <<\h84, "je", "rel">>, <<\h85, "jne", "rel">>, <<\h86, "jna", "rel">>,
   <<\h87, "ja", "rel">>, <<\h88, "js", "rel">>, <<\h89, "jns", "rel">>,
   <<\h8c, "jl", "rel">>, <<\h8d, "jge", "rel">>, <<\h8e, "jng", "rel">>,
   <<\h8f, "jg", "rel">>, <<\h92, "setb", "rm8_nomodrmbyte">>,
   <<\h93, "setae", "rm8_nomodrmbyte">>, <<\h94, "sete", "rm8_nomodrmbyte">>,
   <<\h95, "setne", "rm8_nomodrmbyte">>, <<\h96, "setna", "rm8_nomodrmbyte">>,
   <<\h97, "seta", "rm8_nomodrmbyte">>, <<\h98, "sets", "rm8_nomodrmbyte">>,
   <<\h9c, "setl", "rm8_nomodrmbyte">>, <<\h9d, "setge", "rm8_nomodrmbyte">>,
   <<\h9e, "setng", "rm8_nomodrmbyte">>, <<\h9f, "setg", "rm8_nomodrmbyte">>,
   <<\ha0, "push", "FS">>, <<\ha1, "pop", "FS">>, <<\ha2, "cpuid", "no_op_nosize">>,
   <<\ha3, "bt", "rm_r">>, <<\ha4, "shld", "rm_r_imm8">>,
   <<\ha5, "shld", "rm_r_CL">>, <<\ha8, "push", "GS">>, <<\ha9, "pop", "GS">>,
   <<\hab, "bts", "rm_r">>, <<\hac, "shrd", "rm_r_imm8">>,
   <<\had, "shrd", "rm_r_CL">>, <<\haf, "imul", "r_rm">>, <<\hb2, "lss", "r_m">>,
   <<\hb3, "btr", "rm_r">>, <<\hb4, "lfs", "r_m">>, <<\hb5, "lgs", "r_m">>,
   <<\hb6, "movzx", "r_rm8">>, <<\hb7, "movzx", "r32_rm16">>,
   <<\hba, "inst_0f_ba", "">>, <<\hbc, "bsf", "r_rm">>, <<\hbd, "bsr", "r_rm">>,
   <<\hbe, "movsx", "r_rm8">>, <<\hbf, "movsx", "r32_rm16">>}
  \cup Eight(\hc8, <<"bswap", "r32">>)

---------------------------------------------------------------------------
\* The groups, by the reg field of ModR/M.
inst_0f_ba ==
  Numbered(<<"", "", "", "", "bt", "bts", "btr", "btc">>, <<"rm_imm8">>)

inst_0f_00 ==
  Numbered(<<"sldt", "str", "lldt", "ltr", "verr", "verw">>, <<"rm16">>)

inst_0f_01(mod) ==
  {<<4, "smsw", "rm__m16">>, <<6, "lmsw", "rm16">>}
  \cup IF mod = 3 THEN {} ELSE {<<0, "sgdt", "m">>, <<1, "sidt", "m">>, <<2, "lgdt", "m">>,
                               <<3, "lidt", "m">>, <<7, "invlpg", "m">>}

inst_80 ==
  Numbered(<<"add", "or", "adc", "sbb", "and", "sub", "xor", "cmp">>, <<"rm8_imm8">>)

inst_81 ==
  Numbered(<<"add", "or", "adc", "sbb", "and", "sub", "xor", "cmp">>, <<"rm_imm">>)

inst_83 ==
  Numbered(<<"add", "or", "adc", "sbb", "and", "sub", "xor", "cmp">>, <<"rm_imm8">>)

inst_8f ==
  {<<0, "pop", "rm">>}

inst_c0 ==
  Numbered(<<"rol", "ror", "", "", "shl", "shr", "", "sar">>, <<"rm8_imm8">>)

inst_c1 ==
  Numbered(<<"rol", "ror", "rcl", "rcr", "shl", "shr", "", "sar">>, <<"rm_imm8">>)

inst_c6 ==
  {<<0, "mov", "rm8_imm8">>}

inst_c7 ==
  {<<0, "mov", "rm_imm">>}

inst_d0 ==
  Numbered(<<"rol", "ror", "rcl", "rcr", "shl", "shr", "", "sar">>, <<"rm8_1">>)

inst_d1 ==
  Numbered(<<"rol", "ror", "rcl", "rcr", "shl", "shr", "", "sar">>, <<"rm_1">>)

inst_d2 ==
  Numbered(<<"rol", "ror", "rcl", "rcr", "shl", "shr", "", "sar">>, <<"rm8_CL">>)

inst_d3 ==
  Numbered(<<"rol", "ror", "rcl", "rcr", "shl", "shr", "", "sar">>, <<"rm_CL">>)

inst_f6 ==
  {<<0, "test", "rm8_imm8">>, <<2, "not", "rm8">>, <<3, "neg", "rm8">>,
   <<4, "mul", "rm8">>, <<5, "imul", "rm8">>, <<6, "div", "rm8">>,
   <<7, "idiv", "rm8">>}

inst_f7 ==
  {<<0, "test", "rm_imm">>, <<2, "not", "rm">>, <<3, "neg", "rm">>,
   <<4, "mul", "rm">>, <<5, "imul", "rm">>, <<6, "div", "rm">>, <<7, "idiv", "rm">>}

inst_fe ==
  {<<0, "inc", "rm8">>, <<1, "dec", "rm8">>}

inst_ff ==
  {<<0, "inc", "rm">>, <<1, "dec", "rm">>, <<2, "call_near", "rm">>,
   <<3, "call_far", "m">>, <<4, "jmp_near", "rm">>, <<5, "jmp_far", "m">>,
   <<6, "push", "rm">>}

---------------------------------------------------------------------------
\* The coprocessor, by the reg field when the operand is in memory and by
\* the whole byte otherwise.
inst_d8 ==
  {<<0, "fadd", 32, "rm32">>, <<1, "fmul", 32, "rm32">>, <<2, "fcom", 32, "rm32">>,
   <<3, "fcomp", 32, "rm32">>, <<4, "fsub", 32, "rm32">>,
   <<5, "fsubr", 32, "rm32">>, <<6, "fdiv", 32, "rm32">>,
   <<7, "fdivr", 32, "rm32">>}
  \cup Eight(\hc0, <<"fadd", 80, "st0_stack_pos">>)
  \cup Eight(\hc8, <<"fmul", 80, "st0_stack_pos">>)
  \cup Eight(\hd0, <<"fcom", 80, "stack_pos">>)
  \cup Eight(\hd8, <<"fcomp", 80, "stack_pos">>)
  \cup Eight(\he0, <<"fsub", 80, "st0_stack_pos">>)
  \cup Eight(\he8, <<"fsubr", 80, "st0_stack_pos">>)
  \cup Eight(\hf0, <<"fdiv", 80, "st0_stack_pos">>)
  \cup Eight(\hf8, <<"fdivr", 80, "st0_stack_pos">>)

inst_d9 ==
  {<<0, "fld", 32, "rm32">>, <<2, "fst", 32, "rm32">>, <<3, "fstp", 32, "rm32">>,
   <<5, "fldcw", 0, "rm16">>, <<7, "fstcw", 0, "rm16">>,
   <<\he0, "fchs", 0, "none">>, <<\he1, "fabs", 0, "none">>,
   <<\he4, "ftst", 0, "none">>, <<\he5, "fxam", 0, "none">>,
   <<\he8, "fld1", 0, "none">>, <<\hea, "fldl2e", 0, "none">>,
   <<\hed, "fldln2", 0, "none">>, <<\hee, "fldz", 0, "none">>,
   <<\hf0, "f2xm1", 0, "none">>, <<\hf1, "fyl2x", 0, "none">>,
   <<\hf2, "fptan", 0, "none">>, <<\hf3, "fpatan", 0, "none">>,
   <<\hf8, "fprem", 0, "none">>, <<\hfa, "fsqrt", 0, "none">>,
   <<\hfc, "frndint", 0, "none">>, <<\hfd, "fscale", 0, "none">>,
   <<\hfe, "fsin", 0, "none">>, <<\hff, "fcos", 0, "none">>}
  \cup Eight(\hc0, <<"fld", 80, "stack_pos">>)
  \cup Eight(\hc8, <<"fxch", 0, "stack_pos">>)

inst_da ==
  {<<1, "fimul", 32, "rm32">>}

inst_db ==
  {<<0, "fild", 32, "rm32">>, <<2, "fist", 32, "rm32">>, <<3, "fistp", 32, "rm32">>,
   <<5, "fld", 80, "rm32">>, <<7, "fstp", 80, "rm32">>,
   <<\he2, "fclex", 0, "no_op">>, <<\he3, "finit", 0, "no_op">>,
   <<\he4, "fsetpm", 0, "no_op">>}

inst_dc ==
  {<<0, "fadd", 64, "rm32">>, <<1, "fmul", 64, "rm32">>, <<2, "fcom", 64, "rm32">>,
   <<3, "fcomp", 64, "rm32">>, <<4, "fsub", 64, "rm32">>,
   <<5, "fsubr", 64, "rm32">>, <<6, "fdiv", 64, "rm32">>,
   <<7, "fdivr", 64, "rm32">>}
  \cup Eight(\hc8, <<"fmul", 80, "stack_pos_st0">>)
  \cup Eight(\he8, <<"fsub", 80, "stack_pos_st0">>)
  \cup Eight(\hf0, <<"fdivr", 80, "stack_pos_st0">>)

inst_dd ==
  {<<0, "fld", 64, "rm32">>, <<2, "fst", 64, "rm32">>, <<3, "fstp", 64, "rm32">>,
   <<4, "frstor", 0, "rm">>, <<6, "fsave", 0, "rm">>, <<7, "fstsw", 0, "rm16">>}
  \cup Eight(\hc0, <<"ffree", 0, "stack_pos">>)
  \cup Eight(\hd0, <<"fst", 80, "stack_pos">>)
  \cup Eight(\hd8, <<"fstp", 80, "stack_pos">>)

inst_de ==
  {<<\hd9, "fcompp", 0, "none">>}
  \cup Eight(\hc0, <<"faddp", 80, "stack_pos_st0">>)
  \cup Eight(\hc8, <<"fmulp", 80, "stack_pos_st0">>)
  \cup Eight(\he0, <<"fsubrp", 80, "stack_pos_st0">>)
  \cup Eight(\he8, <<"fsubp", 80, "stack_pos_st0">>)
  \cup Eight(\hf0, <<"fdivrp", 80, "stack_pos_st0">>)
  \cup Eight(\hf8, <<"fdivp", 80, "stack_pos_st0">>)

inst_df ==
  {<<0, "fild", 16, "rm16">>, <<3, "fistp", 16, "rm32">>, <<5, "fild", 64, "rm32">>,
   <<6, "fbstp", 0, "rm32">>, <<7, "fistp", 64, "rm32">>,
   <<\he0, "fnstsw", 0, "AX">>}

---------------------------------------------------------------------------
\* Each group by the name its row gives; that of 0F 01 depends on mod too.
Groups ==
  [inst_0f_ba |-> inst_0f_ba, inst_0f_00 |-> inst_0f_00, inst_80 |-> inst_80,
   inst_81 |-> inst_81, inst_83 |-> inst_83, inst_8f |-> inst_8f,
   inst_c0 |-> inst_c0, inst_c1 |-> inst_c1, inst_c6 |-> inst_c6,
   inst_c7 |-> inst_c7, inst_d0 |-> inst_d0, inst_d1 |-> inst_d1,
   inst_d2 |-> inst_d2, inst_d3 |-> inst_d3, inst_d8 |-> inst_d8,
   inst_d9 |-> inst_d9, inst_da |-> inst_da, inst_db |-> inst_db,
   inst_dc |-> inst_dc, inst_dd |-> inst_dd, inst_de |-> inst_de,
   inst_df |-> inst_df, inst_f6 |-> inst_f6, inst_f7 |-> inst_f7,
   inst_fe |-> inst_fe, inst_ff |-> inst_ff]

=============================================================================
