--------------------------- MODULE FlagTemplates ---------------------------
(***************************************************************************)
(* What jit.c and jit_compile.h know about the arithmetic flags: the table *)
(* INSTS_METADATA, which the decoder's pass over a block consults, and the *)
(* bytecode that compile emits for each instruction, reduced to the order  *)
(* in which it reads flags, writes flags and touches memory.               *)
(*                                                                         *)
(* Instructions of one compile_* function that treat flags alike share a   *)
(* name: "ADD" is ADD32, ADD16 and ADD8, "SHL" also SHR and SAR.           *)
(***************************************************************************)
EXTENDS Naturals, Sequences

Flags == {"OF", "SF", "ZF", "AF", "CF", "PF"}   \* OSZACP_FLAGS

\* Bytecode, one constructor per kind of word.
Access == [op |-> "access", groups |-> {}]           \* may raise an exception
Use(F) == [op |-> "use", groups |-> {F}]             \* reads the flags F
\* One conditional word per group: emitted when e->flags holds a flag of it.
Set(G) == [op |-> "set", groups |-> G]
Counted(G) == [op |-> "counted", groups |-> G]  \* as Set, idle on some counts
Always(F) == [op |-> "always", groups |-> {F}]       \* writes F unconditionally
IfEcxIs0 == [op |-> "ifecx", groups |-> {}]          \* past the end if ECX is 0
Again(F) == [op |-> "again", groups |-> {F}]         \* back to after IfEcxIs0

Each(F) == {{f} : f \in F}

-----------------------------------------------------------------------------
(* The templates.  Access stands for all the operands read, or written, at *)
(* that point: a register operand raises nothing.                          *)

compile_lop == <<Access, Access,
                 Set({{"OF", "CF"}} \cup Each({"SF", "ZF", "PF"}))>>
\* As compile_add_like, with the flags set before the result is written.
add_like_flags_first(adc, inc) ==
  <<Access, Use(IF adc THEN {"CF"} ELSE {}),
    Set(Each(IF inc THEN Flags \ {"CF"} ELSE Flags)), Access>>
compile_add_like(adc, inc) ==
  LET last == Set(Each(IF inc THEN Flags \ {"CF"} ELSE Flags)) IN
  IF adc THEN <<Access, Use({"CF"}), Access, last>> ELSE <<Access, Access, last>>
compile_sub_like(sbb, dec) ==
  LET last == Set(Each(IF dec THEN Flags \ {"CF"} ELSE Flags)) IN
  IF sbb THEN <<Access, Use({"CF"}), Access, last>> ELSE <<Access, Access, last>>
compile_mul_like(is_imul, numops) ==
  <<Access, Access,
    Set({{"CF", "OF"}} \cup IF is_imul /\ numops > 1 THEN {{"SF"}} ELSE {})>>
compile_bt_like == <<Access, Always({"CF"}), Access>>
compile_shl == <<Access, Counted({{"OF"}, {"CF"}}), Access,
                 Counted(Each({"SF", "ZF", "PF"}))>>
compile_shld == <<Access, Counted({{"CF"}}), Access,
                  Counted(Each({"OF", "SF", "ZF", "PF"}))>>
compile_rcl == <<Access, Counted({{"OF"}}), Use({"CF"}), Counted({{"CF"}}),
                 Access>>
compile_rcr == <<Access, Use({"CF"}), Counted({{"OF"}}), Counted({{"CF"}}),
                 Access>>
compile_rol == <<Access, Counted({{"OF"}}), Set({{"CF"}}), Access>>
compile_aam_like == <<Access, Set(Each({"SF", "ZF", "PF"}))>>
compile_daa == <<Use({"CF", "AF"}), Always({"CF", "AF"}),
                 Set(Each({"SF", "ZF", "PF"}))>>
compile_setcc(cond) == <<Use(cond), Access>>
compile_jcc(cond) == <<Use(cond), Access>>
compile_bsf == <<Access, Always({"ZF"}), Access>>
compile_pushf == <<Use(Flags), Access>>
compile_popf == <<Access, Always(Flags)>>
compile_cmc == <<Use({"CF"}), Always({"CF"})>>
compile_sahf == <<Always(Flags \ {"OF"})>>
compile_lahf == <<Use(Flags \ {"OF"})>>
compile_mov == <<Access, Access>>
compile_cmps(rep) ==
  LET others == Set(Each(Flags \ {"ZF"})) IN
  IF rep THEN <<IfEcxIs0, Access, others, Always({"ZF"}), Again({"ZF"})>>
         ELSE <<Access, others, Always({"ZF"})>>

\* compile: the template of each instruction.
Template == [
  AND |-> compile_lop,
  ADD |-> compile_add_like(FALSE, FALSE), ADC |-> compile_add_like(TRUE, FALSE),
  INC |-> compile_add_like(FALSE, TRUE),
  SUB |-> compile_sub_like(FALSE, FALSE), SBB |-> compile_sub_like(TRUE, FALSE),
  DEC |-> compile_sub_like(FALSE, TRUE), NEG |-> compile_sub_like(FALSE, FALSE),
  MUL |-> compile_mul_like(FALSE, 1), IMUL |-> compile_mul_like(TRUE, 2),
  IMUL1 |-> compile_mul_like(TRUE, 1),
  BT |-> compile_bt_like, SHL |-> compile_shl, SHLD |-> compile_shld,
  RCL |-> compile_rcl, RCR |-> compile_rcr, ROL |-> compile_rol,
  AAM |-> compile_aam_like, DAA |-> compile_daa,
  SETA |-> compile_setcc({"CF", "ZF"}), SETG |-> compile_setcc({"SF", "OF", "ZF"}),
  JS |-> compile_jcc({"SF"}), JP |-> compile_jcc({"PF"}),
  JE |-> compile_jcc({"ZF"}), INTO |-> compile_jcc({"OF"}),
  RET |-> compile_jcc({}), BSF |-> compile_bsf,
  PUSHF |-> compile_pushf, POPF |-> compile_popf, CMC |-> compile_cmc,
  SAHF |-> compile_sahf, LAHF |-> compile_lahf, MOV |-> compile_mov,
  CMPS |-> compile_cmps(FALSE), REPE_CMPS |-> compile_cmps(TRUE)]

Inst == DOMAIN Template

\* INSTS_METADATA: the flags an instruction needs, those it surely modifies,
\* and whether it ends a block.  The flags outside Flags are never lazy.
Row(req, chg) == [req_flags |-> req, chg_flags |-> chg, branch |-> FALSE]
Branch(req) == [req_flags |-> req, chg_flags |-> {}, branch |-> TRUE]
INSTS_METADATA == [
  AND |-> Row({}, Flags \ {"AF"}), ADD |-> Row({}, Flags),
  ADC |-> Row({"CF"}, Flags), INC |-> Row({}, Flags \ {"CF"}),
  SUB |-> Row({}, Flags), SBB |-> Row({"CF"}, Flags),
  DEC |-> Row({}, Flags \ {"CF"}), NEG |-> Row({}, {"CF"}),
  MUL |-> Row({}, {"OF", "CF"}), IMUL |-> Row({}, {"SF", "CF", "OF"}),
  IMUL1 |-> Row({}, {"SF", "CF", "OF"}), BT |-> Row({}, {"CF"}),
  SHL |-> Row({}, {}), SHLD |-> Row({}, {}), RCL |-> Row({"CF"}, {"CF"}),
  RCR |-> Row({"CF"}, {"CF"}), ROL |-> Row({}, {"CF"}),
  AAM |-> Row({}, {"SF", "ZF", "PF"}),
  DAA |-> Row({"CF", "AF"}, Flags \ {"OF"}), SETA |-> Row({"CF", "ZF"}, {}),
  SETG |-> Row({"SF", "OF", "ZF"}, {}), JS |-> Branch({"SF"}),
  JP |-> Branch({"PF"}), JE |-> Branch({"ZF"}), INTO |-> Branch({}),
  RET |-> Branch({}), BSF |-> Row({}, {"ZF"}), PUSHF |-> Row(Flags, {}),
  POPF |-> Row({}, Flags), CMC |-> Row({"CF"}, {"CF"}),
  SAHF |-> Row({}, Flags \ {"OF"}), LAHF |-> Row(Flags \ {"OF"}, {}),
  MOV |-> Row({}, {}), CMPS |-> Row({}, Flags), REPE_CMPS |-> Row({}, Flags)]

req_flags(i) == INSTS_METADATA[i].req_flags
chg_flags(i) == INSTS_METADATA[i].chg_flags
branch(i) == INSTS_METADATA[i].branch
repe(i) == i = "REPE_CMPS"          \* inst.prefix is REPE or REPNE
=============================================================================
