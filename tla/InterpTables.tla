------------------------------ MODULE InterpTables ------------------------------
(***************************************************************************)
(* The opcode tables of the interpreter: what the switches of exec_inst    *)
(* and inst_* in interpreter.c make of each byte.  A row is the byte and   *)
(* the name of the handler it calls, split into operation and operands.    *)
(***************************************************************************)
EXTENDS OpcodeRows

\* The one-byte opcodes.
exec_inst_00_7f ==
  Six(\h00, "add") \cup Six(\h08, "or") \cup Six(\h10, "adc") \cup Six(\h18, "sbb")
    \cup Six(\h20, "and") \cup Six(\h28, "sub") \cup Six(\h30, "xor")
    \cup Six(\h38, "cmp")
  \cup {<<\h06, "push", "ES">>, <<\h07, "pop", "ES">>, <<\h0e, "push", "CS">>,
        <<\h0f, "inst_0f", "">>, <<\h16, "push", "SS">>, <<\h17, "pop", "SS">>,
        <<\h1e, "push", "DS">>, <<\h1f, "pop", "DS">>, <<\h26, "override_seg", "ES">>,
        <<\h27, "daa", "">>, <<\h2e, "override_seg", "CS">>, <<\h2f, "das", "">>,
        <<\h36, "override_seg", "SS">>, <<\h3e, "override_seg", "DS">>,
        <<\h3f, "aas", "">>, <<\h60, "pusha", "">>, <<\h61, "popa", "">>,
        <<\h62, "bound", "">>, <<\h64, "override_seg", "FS">>,
        <<\h65, "override_seg", "GS">>, <<\h66, "switch_op_size_and_other", "">>,
        <<\h67, "switch_addr_size", "">>, <<\h68, "push", "imm">>,
        <<\h69, "imul", "r_rm_imm">>, <<\h6a, "push", "imm8">>,
        <<\h6b, "imul", "r_rm_imm8">>, <<\h6c, "insb", "">>, <<\h6d, "ins", "">>,
        <<\h6e, "outsb", "">>, <<\h6f, "outs", "">>, <<\h70, "jo", "rel8">>,
        <<\h71, "jno", "rel8">>, <<\h72, "jb", "rel8">>, <<\h73, "jae", "rel8">>,
        <<\h74, "je", "rel8">>, <<\h75, "jne", "rel8">>, <<\h76, "jna", "rel8">>,
        <<\h77, "ja", "rel8">>, <<\h78, "js", "rel8">>, <<\h79, "jns", "rel8">>,
        <<\h7a, "jp", "rel8">>, <<\h7b, "jpo", "rel8">>, <<\h7c, "jl", "rel8">>,
        <<\h7d, "jge", "rel8">>, <<\h7e, "jng", "rel8">>, <<\h7f, "jg", "rel8">>}
  \cup Eight(\h40, <<"inc", "r">>)
  \cup Eight(\h48, <<"dec", "r">>)
  \cup Eight(\h50, <<"push", "r">>)
  \cup Eight(\h58, <<"pop", "r">>)

exec_inst_80_ff ==
  {<<\h80, "inst_80", "">>, <<\h81, "inst_81", "">>, <<\h83, "inst_83", "">>,
   <<\h84, "test", "rm8_r8">>, <<\h85, "test", "rm_r">>, <<\h86, "xchg", "r8_rm8">>,
   <<\h87, "xchg", "r_rm">>, <<\h88, "mov", "rm8_r8">>, <<\h89, "mov", "rm_r">>,
   <<\h8a, "mov", "r8_rm8">>, <<\h8b, "mov", "r_rm">>, <<\h8c, "mov", "rm_sreg">>,
   <<\h8d, "lea", "r_m">>, <<\h8e, "mov", "sreg_rm16">>, <<\h8f, "inst_8f", "">>,
   <<\h90, "nop", "">>, <<\h98, "cbw_cwde", "">>, <<\h99, "cwd_cdq", "">>,
   <<\h9a, "call", "ptr16_16_32">>, <<\h9b, "fwait", "">>, <<\h9c, "pushf", "">>,
   <<\h9d, "popf", "">>, <<\h9e, "sahf", "">>, <<\h9f, "lahf", "">>,
   <<\ha0, "mov", "AL_moffs8">>, <<\ha1, "mov", "A_moffs">>,
   <<\ha2, "mov", "moffs8_AL">>, <<\ha3, "mov", "moffs_A">>, <<\ha4, "movsb", "">>,
   <<\ha5, "movs", "">>, <<\ha6, "cmpsb", "">>, <<\ha7, "cmps", "">>,
   <<\ha8, "test", "AL_imm8">>, <<\ha9, "test", "A_imm">>, <<\haa, "stosb", "">>,
   <<\hab, "stos", "">>, <<\hac, "lodsb", "">>, <<\had, "lods", "">>,
   <<\hae, "scasb", "">>, <<\haf, "scas", "">>, <<\hc0, "inst_c0", "">>,
   <<\hc1, "inst_c1", "">>, <<\hc2, "ret_near", "imm16">>, <<\hc3, "ret_near", "">>,
   <<\hc4, "les", "r_m16_off">>, <<\hc5, "lds", "r_m16_off">>,
   <<\hc6, "inst_c6", "">>, <<\hc7, "inst_c7", "">>, <<\hc8, "enter", "">>,
   <<\hc9, "leave", "">>, <<\hca, "ret_far", "imm16">>, <<\hcb, "ret_far", "">>,
   <<\hcc, "int", "3">>, <<\hcd, "int", "imm8">>, <<\hce, "into", "">>,
   <<\hcf, "iret", "">>, <<\hd0, "inst_d0", "">>, <<\hd1, "inst_d1", "">>,
   <<\hd2, "inst_d2", "">>, <<\hd3, "inst_d3", "">>, <<\hd4, "aam", "">>,
   <<\hd5, "aad", "">>, <<\hd7, "xlatb", "">>, <<\hd8, "inst_d8", "">>,
   <<\hd9, "inst_d9", "">>, <<\hda, "inst_da", "">>, <<\hdb, "inst_db", "">>,
   <<\hdc, "inst_dc", "">>, <<\hdd, "inst_dd", "">>, <<\hde, "inst_de", "">>,
   <<\hdf, "inst_df", "">>, <<\he0, "loopne", "rel8">>, <<\he1, "loope", "rel8">>,
   <<\he2, "loop", "rel8">>, <<\he3, "jcxz", "rel8">>, <<\he4, "in", "AL_imm8">>,
   <<\he6, "out", "imm8_AL">>, <<\he7, "out", "imm8_A">>, <<\he8, "call", "rel">>,
   <<\he9, "jmp", "rel">>, <<\hea, "jmp", "ptr16_16_32">>, <<\heb, "jmp", "rel8">>,
   <<\hec, "in", "AL_DX">>, <<\hed, "in", "A_DX">>, <<\hee, "out", "DX_AL">>,
   <<\hef, "out", "DX_A">>, <<\hf2, "repne_repnz_and_other", "">>,
   <<\hf3, "repe_repz_and_other", "">>, <<\hf4, "hlt", "">>, <<\hf5, "cmc", "">>,
   <<\hf6, "inst_f6", "">>, <<\hf7, "inst_f7", "">>, <<\hf8, "clc", "">>,
   <<\hf9, "stc", "">>, <<\hfa, "cli", "">>, <<\hfb, "sti", "">>,
   <<\hfc, "cld", "">>, <<\hfd, "std", "">>, <<\hfe, "inst_fe", "">>,
   <<\hff, "inst_ff", "">>}
  \cup {<<c, "xchg", "A_r">> : c \in \h91 .. \h97}
  \cup Eight(\hb0, <<"mov", "r8_imm8">>)
  \cup Eight(\hb8, <<"mov", "r_imm">>)

\* The opcodes after 0F.
inst_0f ==
  {<<\h00, "inst_0f_00", "">>, <<\h01, "inst_0f_01", "">>, <<\h02, "lar", "">>,
   <<\h03, "lsl", "">>, <<\h06, "clts", "">>, <<\h09, "wbinvd", "">>,
   <<\h20, "mov", "r32_cr">>, <<\h21, "mov", "r32_dr">>, <<\h22, "mov", "cr_r32">>,
   <<\h23, "mov", "dr_r32">>, <<\h80, "jo", "rel">>, <<\h82, "jb", "rel">>,
   <<\h83, "jae", "rel">>, <<\h84, "je", "rel">>, <<\h85, "jne", "rel">>,
   <<\h86, "jna", "rel">>, <<\h87, "ja", "rel">>, <<\h88, "js", "rel">>,
   <<\h89, "jns", "rel">>, <<\h8c, "jl", "rel">>, <<\h8d, "jge", "rel">>,
   <<\h8e, "jng", "rel">>, <<\h8f, "jg", "rel">>, <<\h92, "setb", "rm8">>,
   <<\h93, "setae", "rm8">>, <<\h94, "sete", "rm8">>, <<\h95, "setne", "rm8">>,
   <<\h96, "setna", "rm8">>, <<\h97, "seta", "rm8">>, <<\h98, "sets", "rm8">>,
   <<\h9c, "setl", "rm8">>, <<\h9d, "setge", "rm8">>, <<\h9e, "setng", "rm8">>,
   <<\h9f, "setg", "rm8">>, <<\ha0, "push", "FS">>, <<\ha1, "pop", "FS">>,
   <<\ha2, "cpuid", "">>, <<\ha3, "bt", "rm_r">>, <<\ha4, "shld", "rm_r_imm8">>,
   <<\ha5, "shld", "rm_r_CL">>, <<\ha8, "push", "GS">>, <<\ha9, "pop", "GS">>,
   <<\hab, "bts", "rm_r">>, <<\hac, "shrd", "rm_r_imm8">>,
   <<\had, "shrd", "rm_r_CL">>, <<\haf, "imul", "r_rm">>,
   <<\hb2, "lss", "r_m16_off">>, <<\hb3, "btr", "rm_r">>,
   <<\hb4, "lfs", "r_m16_off">>, <<\hb5, "lgs", "r_m16_off">>,
   <<\hb6, "movzx", "r_rm8">>, <<\hb7, "movzx", "r32_rm16">>,
   <<\hba, "inst_0f_ba", "">>, <<\hbc, "bsf", "r_rm">>, <<\hbd, "bsr", "r_rm">>,
   <<\hbe, "movsx", "r_rm8">>, <<\hbf, "movsx", "r32_rm16">>}
  \cup Eight(\hc8, <<"bswap", "r">>)

---------------------------------------------------------------------------
\* The groups, by the reg field of ModR/M.
inst_0f_ba ==
  Numbered(<<"", "", "", "", "bt", "bts", "btr", "btc">>, <<"rm_imm8">>)

inst_0f_00 ==
  Numbered(<<"sldt", "str", "lldt", "ltr", "verr", "verw">>, <<"">>)

inst_0f_01(mod) ==
  {<<4, "smsw", "">>, <<6, "lmsw", "">>}
  \cup IF mod = 3 THEN {} ELSE {<<0, "sgdt", "">>, <<1, "sidt", "">>, <<2, "lgdt", "">>,
                               <<3, "lidt", "">>, <<7, "invlpg", "">>}

inst_80 ==
  Numbered(<<"add", "or", "adc", "sbb", "and", "sub", "xor", "cmp">>, <<"rm8_imm8">>)

inst_81 ==
  Numbered(<<"add", "or", "adc", "sbb", "and", "sub", "xor", "cmp">>, <<"rm_imm">>)

inst_83 ==
  Numbered(<<"add", "or", "adc", "sbb", "and", "sub", "xor", "cmp">>, <<"rm_imm8">>)

inst_8f ==
  {<<0, "pop", "rm">>}

inst_c0 ==
  Numbered(<<"rol", "ror", "", "", "shl", "shr", "", "sar">>, <<"rm8_imm8">>)

inst_c1 ==
  Numbered(<<"rol", "ror", "rcl", "rcr", "shl", "shr", "", "sar">>, <<"rm_imm8">>)

inst_c6 ==
  {<<0, "mov", "rm8_imm8">>}

inst_c7 ==
  {<<0, "mov", "rm_imm">>}

inst_d0 ==
  Numbered(<<"rol", "ror", "rcl", "rcr", "shl", "shr", "", "sar">>, <<"rm8_1">>)

inst_d1 ==
  Numbered(<<"rol", "ror", "rcl", "rcr", "shl", "shr", "", "sar">>, <<"rm_1">>)

inst_d2 ==
  Numbered(<<"rol", "ror", "rcl", "rcr", "shl", "shr", "", "sar">>, <<"rm8_CL">>)

inst_d3 ==
  Numbered(<<"rol", "ror", "rcl", "rcr", "shl", "shr", "", "sar">>, <<"rm_CL">>)

inst_f6 ==
  {<<0, "test", "rm8_imm8">>, <<2, "not", "rm8">>, <<3, "neg", "rm8">>,
   <<4, "mul", "rm8">>, <<5, "imul", "rm8">>, <<6, "div", "rm8">>,
   <<7, "idiv", "rm8">>}

inst_f7 ==
  {<<0, "test", "rm_imm">>, <<2, "not", "rm">>, <<3, "neg", "rm">>,
   <<4, "mul", "rm">>, <<5, "imul", "rm">>, <<6, "div", "rm">>, <<7, "idiv", "rm">>}

inst_fe ==
  {<<0, "inc", "rm8">>, <<1, "dec", "rm8">>}

inst_ff ==
  {<<0, "inc", "rm">>, <<1, "dec", "rm">>, <<2, "call", "rm">>,
   <<3, "call", "m16_off">>, <<4, "jmp", "rm">>, <<5, "jmp", "m16_off">>,
   <<6, "push", "rm">>}

---------------------------------------------------------------------------
\* The coprocessor, by the reg field when the operand is in memory and by
\* the whole byte otherwise.
inst_d8 ==
  {<<0, "fadd", "float">>, <<1, "fmul", "float">>, <<2, "fcom", "float">>,
   <<3, "fcomp", "float">>, <<4, "fsub", "float">>, <<5, "fsubr", "float">>,
   <<6, "fdiv", "float">>, <<7, "fdivr", "float">>}
  \cup Eight(\hc0, <<"fadd", "0_i">>)
  \cup Eight(\hc8, <<"fmul", "0_i">>)
  \cup Eight(\hd0, <<"fcom", "">>)
  \cup Eight(\hd8, <<"fcomp", "">>)
  \cup Eight(\he0, <<"fsub", "0_i">>)
  \cup Eight(\he8, <<"fsubr", "0_i">>)
  \cup Eight(\hf0, <<"fdiv", "0_i">>)
  \cup Eight(\hf8, <<"fdivr", "0_i">>)

inst_d9 ==
  {<<0, "fld", "float">>, <<2, "fst", "float">>, <<3, "fstp", "float">>,
   <<5, "fldcw", "">>, <<7, "fstcw", "">>, <<\he0, "fchs", "">>,
   <<\he1, "fabs", "reg0">>, <<\he4, "ftst", "">>, <<\he5, "fxam", "">>,
   <<\he8, "fld1", "">>, <<\hea, "fldl2e", "">>, <<\hed, "fldln2", "">>,
   <<\hee, "fldz", "">>, <<\hf0, "f2xm1", "">>, <<\hf1, "fyl2x", "">>,
   <<\hf2, "fptan", "">>, <<\hf3, "fpatan", "">>, <<\hf8, "fprem", "">>,
   <<\hfa, "fsqrt", "">>, <<\hfc, "frndint", "">>, <<\hfd, "fscale", "">>,
   <<\hfe, "fsin", "">>, <<\hff, "fcos", "">>}
  \cup Eight(\hc0, <<"fld", "reg">>)
  \cup Eight(\hc8, <<"fxch", "">>)

inst_da ==
  {<<1, "fmul", "int32">>}

inst_db ==
  {<<0, "fild", "int32">>, <<2, "fist", "int32">>, <<3, "fistp", "int32">>,
   <<5, "fld", "ldouble">>, <<7, "fstp", "ldouble">>, <<\he2, "fclex", "">>,
   <<\he3, "finit", "">>, <<\he4, "fsetpm", "">>}

inst_dc ==
  {<<0, "fadd", "double">>, <<1, "fmul", "double">>, <<2, "fcom", "double">>,
   <<3, "fcomp", "double">>, <<4, "fsub", "double">>, <<5, "fsubr", "double">>,
   <<6, "fdiv", "double">>, <<7, "fdivr", "double">>}
  \cup Eight(\hc8, <<"fmul", "i_0">>)
  \cup Eight(\he8, <<"fsub", "i_0">>)
  \cup Eight(\hf0, <<"fdivr", "i_0">>)

inst_dd ==
  {<<0, "fld", "double">>, <<2, "fst", "double">>, <<3, "fstp", "double">>,
   <<4, "frstor", "">>, <<6, "fsave", "">>, <<7, "fstsw", "">>}
  \cup Eight(\hc0, <<"ffree", "">>)
  \cup Eight(\hd0, <<"fst", "">>)
  \cup Eight(\hd8, <<"fstp", "">>)

inst_de ==
  {<<\hd9, "fcompp", "">>}
  \cup Eight(\hc0, <<"faddp", "i_0">>)
  \cup Eight(\hc8, <<"fmulp", "i_0">>)
  \cup Eight(\he0, <<"fsubrp", "i_0">>)
  \cup Eight(\he8, <<"fsubp", "i_0">>)
  \cup Eight(\hf0, <<"fdivrp", "i_0">>)
  \cup Eight(\hf8, <<"fdivp", "i_0">>)

inst_df ==
  {<<0, "fild", "int16">>, <<3, "fistp", "int16">>, <<5, "fild", "int64">>,
   <<6, "fbstp", "">>, <<7, "fistp", "int64">>, <<\he0, "fnstsw", "AX">>}

---------------------------------------------------------------------------
\* Each group by the name its row gives; that of 0F 01 depends on mod too.
Groups ==
  [inst_0f_ba |-> inst_0f_ba, inst_0f_00 |-> inst_0f_00, inst_80 |-> inst_80,
   inst_81 |-> inst_81, inst_83 |-> inst_83, inst_8f |-> inst_8f,
   inst_c0 |-> inst_c0, inst_c1 |-> inst_c1, inst_c6 |-> inst_c6,
   inst_c7 |-> inst_c7, inst_d0 |-> inst_d0, inst_d1 |-> inst_d1,
   inst_d2 |-> inst_d2, inst_d3 |-> inst_d3, inst_d8 |-> inst_d8,
   inst_d9 |-> inst_d9, inst_da |-> inst_da, inst_db |-> inst_db,
   inst_dc |-> inst_dc, inst_dd |-> inst_dd, inst_de |-> inst_de,
   inst_df |-> inst_df, inst_f6 |-> inst_f6, inst_f7 |-> inst_f7,
   inst_fe |-> inst_fe, inst_ff |-> inst_ff]

=============================================================================
