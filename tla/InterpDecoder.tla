---------------------------- MODULE InterpDecoder ----------------------------
(***************************************************************************)
(* How the interpreter finds out what an instruction is: the handler its   *)
(* tables name, the address that handler computes and the bytes it         *)
(* fetches.  The immediate bytes are those of the handler's own paths in   *)
(* the Interp* modules.                                                    *)
(*                                                                         *)
(* Instructions are records as in Disassembler.  st holds the switches the *)
(* prefix handlers have set: seg, op, ad, repe and repne.                  *)
(***************************************************************************)
EXTENDS InterpTables, Steps

CONSTANT Shapes   \* the shapes of every handler of the Interp* modules (Steps)

OneByte == [c \in 0 .. 255 |-> RowsAt(exec_inst_00_7f \cup exec_inst_80_ff, c)]
TwoByte == [c \in 0 .. 255 |-> RowsAt(inst_0f, c)]
OpcodeRow(x) == IF x.esc THEN TwoByte[x.code] ELSE OneByte[x.code]

Coprocessor == {"inst_d8", "inst_d9", "inst_da", "inst_db", "inst_dc", "inst_dd",
                "inst_de", "inst_df"}
GroupOf(x) ==
  {r[1] : r \in {r \in OpcodeRow(x) : r[1] \in DOMAIN Groups \cup {"inst_0f_01"}}}
GroupRows(g, x) ==
  IF g = "inst_0f_01" THEN RowsAt(inst_0f_01(x.mod), x.reg)
  ELSE RowsAt(Groups[g], IF g \in Coprocessor /\ x.mod = 3 THEN 192 + 8 * x.reg + x.rm
                         ELSE x.reg)
Rows(x) ==
  IF GroupOf(x) = {} THEN OpcodeRow(x) ELSE UNION {GroupRows(g, x) : g \in GroupOf(x)}

OPERAND_SIZE_IS_32(x, st) == x.is32 # st.op
ADDRESS_SIZE_IS_32(x, st) == x.is32 # st.ad

---------------------------------------------------------------------------
\* The handler of a row under the name the Interp* modules give it.
ByteStrings == [movsb |-> "movs", cmpsb |-> "cmps", scasb |-> "scas", lodsb |-> "lods",
            stosb |-> "stos", insb |-> "ins", outsb |-> "outs"]
HandlerNames(row) ==
  CASE row[1] \in DOMAIN ByteStrings -> {<<ByteStrings[row[1]], "b">>}
    [] row[1] \in {ByteStrings[s] : s \in DOMAIN ByteStrings} -> {<<row[1], "wd">>}
    [] row[2] \in Sregs -> {<<row[1], "sreg", row[2]>>}
    [] row = <<"int", "3">> -> {<<"int3", "">>}
    [] row[1] = "ret_near" -> {<<"ret", IF row[2] = "" THEN "near" ELSE "near_imm16">>}
    [] row[1] = "ret_far" -> {<<"ret", IF row[2] = "" THEN "far" ELSE "far_imm16">>}
    [] OTHER -> {n \in DOMAIN Shapes : n[1] = row[1] /\ row[2] \in {"", n[2]}}

\* The shapes of a handler that the sizes and the mode of x allow.
Agrees(shape, x, st) ==
  shape.tests \subseteq {IF OPERAND_SIZE_IS_32(x, st) THEN "op32" ELSE "op16",
                         IF ADDRESS_SIZE_IS_32(x, st) THEN "ad32" ELSE "ad16",
                         IF x.mod = 3 THEN "register" ELSE "memory"}
ShapesOf(x, st) ==
  {s \in UNION {Shapes[n] : n \in UNION {HandlerNames(row) : row \in Rows(x)}} : Agrees(s, x, st)}

---------------------------------------------------------------------------
\* Addresses: a segment, the width sums wrap at, the registers and constants
\* added, each with its factor, and the bytes fetched for them.
Regs32 == <<"EAX", "ECX", "EDX", "EBX", "ESP", "EBP", "ESI", "EDI">>
Displacement(mod, wide) ==
  CASE mod = 0 -> {} [] mod = 1 -> {<<"disp8", 1>>} [] OTHER -> {<<wide, 1>>}
FetchedFor(terms) ==
  IF <<"disp8", 1>> \in terms THEN 1 ELSE IF <<"disp16", 1>> \in terms THEN 2
  ELSE IF <<"disp32", 1>> \in terms THEN 4 ELSE 0

terms_16bit(x) ==
  LET pairs == <<{"BX", "SI"}, {"BX", "DI"}, {"BP", "SI"}, {"BP", "DI"}, {"SI"}, {"DI"}, {"BP"}, {"BX"}>>
  IN IF x.mod = 0 /\ x.rm = 6 THEN {<<"disp16", 1>>}
     ELSE {<<r, 1>> : r \in pairs[x.rm + 1]} \cup Displacement(x.mod, "disp16")
address_16bit(x) ==
  [seg |-> IF <<"BP", 1>> \in terms_16bit(x) THEN "SS" ELSE "DS", wrap |-> 16,
   terms |-> terms_16bit(x), bytes |-> FetchedFor(terms_16bit(x))]

\* The register of the base may be that of the index: the factors add up.
Plus(terms, r, n) ==
  LET old == {t \in terms : t[1] = r}
  IN (terms \ old) \cup {<<r, n + (IF old = {} THEN 0 ELSE (CHOOSE t \in old : TRUE)[2])>>}

address_sib(x) ==
  LET direct == x.base = 5 /\ x.mod = 0
      base == {<<IF direct THEN "sib_u32" ELSE Regs32[x.base + 1], 1>>}
  IN [seg |-> IF x.base = 4 \/ (x.base = 5 /\ x.mod # 0) THEN "SS" ELSE "DS", wrap |-> 32,
      terms |-> IF x.index = 4 THEN base ELSE Plus(base, Regs32[x.index + 1], 2 ^ x.scale),
      bytes |-> IF direct THEN 5 ELSE 1]

address_32bit(x) ==
  LET direct == x.mod = 0 /\ x.rm = 5
      disp == IF direct THEN {<<"disp32", 1>>} ELSE Displacement(x.mod, "disp32")
      sib == address_sib(x)
  IN IF x.rm = 4
     THEN [sib EXCEPT !.terms = @ \cup disp, !.bytes = @ + FetchedFor(disp)]
     ELSE [seg |-> IF x.rm = 5 /\ ~direct THEN "SS" ELSE "DS", wrap |-> 32,
           terms |-> disp \cup (IF direct THEN {} ELSE {<<Regs32[x.rm + 1], 1>>}),
           bytes |-> FetchedFor(disp)]

address_moffs(ad32) ==
  [seg |-> "DS", wrap |-> IF ad32 THEN 32 ELSE 16,
   terms |-> {<<IF ad32 THEN "disp32" ELSE "disp16", 1>>}, bytes |-> 0]

OVERRIDE_SEG(addr, st) == IF st.seg = "none" THEN addr ELSE [addr EXCEPT !.seg = st.seg]

\* The address the handler computes, if its operand is in memory: handlers
\* that test for it, the coprocessor's with a memory row, and the moffs forms.
NoAddress == [seg |-> "none", wrap |-> 0, terms |-> {}, bytes |-> 0]
Address(x, st) ==
  IF \E row \in Rows(x) : row[2] \in {"AL_moffs8", "A_moffs", "moffs8_AL", "moffs_A"}
  THEN OVERRIDE_SEG(address_moffs(ADDRESS_SIZE_IS_32(x, st)), st)
  ELSE IF (\E s \in ShapesOf(x, st) : "memory" \in s.tests)
          \/ (GroupOf(x) \cap Coprocessor # {} /\ x.mod # 3)
  THEN OVERRIDE_SEG(IF ADDRESS_SIZE_IS_32(x, st) THEN address_32bit(x) ELSE address_16bit(x), st)
  ELSE NoAddress

---------------------------------------------------------------------------
\* The repetition a string instruction makes of the prefixes.
Repetition(row, st) ==
  LET op == IF row[1] \in DOMAIN ByteStrings THEN ByteStrings[row[1]] ELSE row[1]
  IN IF op \in {"cmps", "scas"}
     THEN IF st.repe THEN "repe" ELSE IF st.repne THEN "repne" ELSE "none"
     ELSE IF op \in {"movs", "lods", "stos", "ins", "outs"} /\ (st.repe \/ st.repne)
     THEN "rep" ELSE "none"

\* Bytes no table has a row for: the program ends.
unk_inst(x) == Rows(x) = {}

\* The #UD of a handler whose operand must be in memory.
Rejected(x, st) == \E s \in ShapesOf(x, st) : s.rejects

\* The numbers of bytes after the opcode byte: the second one, the ModR/M of a
\* group, what some path of the handler fetches, the address.  (The handlers
\* of the coprocessor fetch nothing else.)
BytesFetched(x, st) ==
  LET own == (IF x.esc THEN 1 ELSE 0) + Cardinality(GroupOf(x)) + Address(x, st).bytes
  IN IF ShapesOf(x, st) = {} THEN {own} ELSE {own + s.bytes : s \in ShapesOf(x, st)}

Executed(x, st) ==
  IF unk_inst(x) \/ Rejected(x, st) THEN [known |-> FALSE]
  ELSE [known |-> TRUE, row |-> CHOOSE r \in Rows(x) : TRUE,
        op32 |-> OPERAND_SIZE_IS_32(x, st), ad32 |-> ADDRESS_SIZE_IS_32(x, st),
        prefix |-> Repetition(CHOOSE r \in Rows(x) : TRUE, st), addr |-> Address(x, st)]

=============================================================================
