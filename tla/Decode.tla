------------------------------- MODULE Decode -------------------------------
(***************************************************************************)
(* One instruction seen by both engines.  The disassembler reads its       *)
(* prefixes and its opcode, the JIT executes the words of its address; the *)
(* interpreter nests a call of exec_inst in the handler of every prefix,   *)
(* which undoes its switch when the call returns, by a fault too.          *)
(*                                                                         *)
(* The switches of the interpreter outlive an instruction and those of the *)
(* disassembler do not, so a second instruction may follow.                *)
(***************************************************************************)
EXTENDS Naturals, Sequences, FiniteSets

CONSTANTS
  HandlerShapes,   \* what the handlers of the interpreter fetch, by their names
  Insns,           \* the instructions one of which comes first
  Followers        \* those one of which comes after it

D == INSTANCE Disassembler
I == INSTANCE InterpDecoder WITH Shapes <- HandlerShapes

---------------------------------------------------------------------------
\* The words the JIT computes an address with: compile_get_addr turns the form
\* of an address into words, IA32_jit executes them on its variable offset.  A
\* word is its name, with the register it is about and a factor, or an
\* immediate that follows it in the stream: 16 bits of a constant of the
\* instruction.
Word(name) == <<name>>
Imm(constant, half) == <<"imm", constant, half>>
Imm16(constant) == <<Imm(constant, "all")>>
Imm32(constant) == <<Imm(constant, "low"), Imm(constant, "high")>>

\* Base and index of a SIB byte; a displacement in place of the base.
compile_get_sib(addr) ==
  (IF addr.base = "sib_u32" THEN <<Word("SET32_IMM_OFFSET")>> \o Imm32("sib_u32")
   ELSE <<<<"SET32_OFFSET", addr.base>>>>)
  \o (IF addr.scale = <<>> THEN <<>> ELSE <<<<"ADD32_OFFSET", addr.scale[1], addr.scale[2]>>>>)

\* As compile_displacement, with the word of 32-bit addresses for all.
UncutDisplacement(addr) ==
  CASE addr.disp = "none" -> <<>>
    [] addr.disp = "disp32" -> <<Word("ADD32_IMM_OFFSET")>> \o Imm32("disp32")
    [] OTHER -> <<Word("ADD16_IMM_OFFSET")>> \o Imm16(addr.disp)

\* A displacement of 8 bits is one word, extended with its sign; only the one
\* added to a 16-bit address is cut to 16 bits.
compile_displacement(addr) ==
  CASE addr.disp = "none" -> <<>>
    [] addr.disp = "disp32" -> <<Word("ADD32_IMM_OFFSET")>> \o Imm32("disp32")
    [] addr.type = "ADDR16" -> <<Word("ADD16_IMM_OFFSET16")>> \o Imm16(addr.disp)
    [] OTHER -> <<Word("ADD16_IMM_OFFSET")>> \o Imm16(addr.disp)

compile_get_addr(addr) ==
  CASE addr.type = "register" -> <<>>
    [] addr.base = "none" /\ addr.type = "ADDR16" -> <<Word("SET16_IMM_OFFSET")>> \o Imm16(addr.disp)
    [] addr.base = "none" -> <<Word("SET32_IMM_OFFSET")>> \o Imm32(addr.disp)
    [] addr.type = "ADDR16" -> <<<<"SET16_OFFSET", addr.base>>>> \o compile_displacement(addr)
    [] OTHER -> compile_get_sib(addr) \o compile_displacement(addr)

---------------------------------------------------------------------------
\* The variable offset: the width its value was last cut to and what has been
\* added, a set of registers and constants with their factors.
Offset(wrap, terms) == [wrap |-> wrap, terms |-> terms]

Added(offset, r, n) ==
  LET old == {t \in offset.terms : t[1] = r}
      f == IF old = {} THEN n ELSE n + (CHOOSE t \in old : TRUE)[2]
  IN [offset EXCEPT !.terms = (@ \ old) \cup {<<r, f>>}]

\* Two words as one constant, and one word.
Pair(p, pos) ==
  IF p[pos + 1][2] = p[pos + 2][2] /\ p[pos + 1][3] = "low" /\ p[pos + 2][3] = "high"
  THEN p[pos + 1][2] ELSE "garbage"
Single(p, pos) == IF p[pos + 1][3] = "all" THEN p[pos + 1][2] ELSE "garbage"

Registers16 == [BX_SI |-> {"BX", "SI"}, BX_DI |-> {"BX", "DI"}, BP_SI |-> {"BP", "SI"},
                BP_DI |-> {"BP", "DI"}, SI |-> {"SI"}, DI |-> {"DI"}, BP |-> {"BP"}, BX |-> {"BX"}]

\* IA32_jit: the word at pos of p.
SetWords(p, pos, offset) ==
  LET w == p[pos]
  IN CASE w[1] = "SET32_IMM_OFFSET" -> Offset(32, {<<Pair(p, pos), 1>>})
       [] w[1] = "SET16_IMM_OFFSET" -> Offset(16, {<<Single(p, pos), 1>>})
       [] w[1] = "SET32_OFFSET" -> Offset(32, {<<w[2], 1>>})
       [] w[1] = "SET16_OFFSET" -> Offset(16, {<<r, 1>> : r \in Registers16[w[2]]})

AddWords(p, pos, offset) ==
  LET w == p[pos]
  IN CASE w[1] = "ADD32_IMM_OFFSET" -> [Added(offset, Pair(p, pos), 1) EXCEPT !.wrap = 32]
       [] w[1] = "ADD32_OFFSET" -> [Added(offset, w[2], w[3]) EXCEPT !.wrap = 32]
       [] w[1] = "ADD16_IMM_OFFSET" -> [Added(offset, Single(p, pos), 1) EXCEPT !.wrap = 32]
       [] w[1] = "ADD16_IMM_OFFSET16" -> [Added(offset, Single(p, pos), 1) EXCEPT !.wrap = 16]

Executed(p, pos, offset) ==
  IF p[pos][1] \in {"SET32_IMM_OFFSET", "SET16_IMM_OFFSET", "SET32_OFFSET", "SET16_OFFSET"}
  THEN SetWords(p, pos, offset) ELSE AddWords(p, pos, offset)

\* The immediates a word takes from the stream.
Immediates(w) ==
  CASE w[1] \in {"SET32_IMM_OFFSET", "ADD32_IMM_OFFSET"} -> 2
    [] w[1] \in {"SET16_IMM_OFFSET", "ADD16_IMM_OFFSET", "ADD16_IMM_OFFSET16"} -> 1
    [] OTHER -> 0

---------------------------------------------------------------------------
VARIABLES
  insn,    \* the instruction
  last,    \* no other follows
  turn,    \* whose move it is: "dis", "words", "interp", "unwind", "done"
           \* or "ended"
  dis,     \* the disassembler: prefixes read, their state, the instruction
  jit,     \* the JIT: its words, the next one, the offset
  itp,     \* the interpreter: EIP past the start, the switches set, the
           \* handlers entered, the instruction
  faults   \* attempts of the interpreter that were cut short

vars == <<insn, last, turn, dis, jit, itp, faults>>

Nothing == [known |-> FALSE]
NoSwitches == [groups |-> {}, seg |-> "none", op |-> FALSE, ad |-> FALSE, repe |-> FALSE, repne |-> FALSE]

Fresh == [at |-> 0, st |-> D!IA32_dis, inst |-> Nothing]
NoWords == [p |-> <<>>, pos |-> 1, offset |-> Offset(0, {})]

Init ==
  /\ insn \in Insns
  /\ last = FALSE
  /\ turn = "dis"
  /\ dis = Fresh
  /\ jit = NoWords
  /\ itp = [eip |-> 0, at |-> 0, st |-> NoSwitches, entered |-> <<>>, inst |-> Nothing]
  /\ faults = 0

---------------------------------------------------------------------------
\* The row of a prefix byte.
DisPrefixRow(n) == CHOOSE r \in D!OneByte[insn.pre[n]] : TRUE
InterpPrefixRow(n) == CHOOSE r \in I!OneByte[insn.pre[n]] : TRUE

\* exec_inst of the disassembler meets a prefix, whose handler reads on.
DisPrefix ==
  /\ turn = "dis" /\ dis.at < Len(insn.pre)
  /\ dis' = [dis EXCEPT !.at = @ + 1, !.st = D!Prefixed(@, DisPrefixRow(dis.at + 1))]
  /\ UNCHANGED <<insn, last, turn, jit, itp, faults>>

\* It meets the opcode; the JIT compiles the address.
DisOpcode ==
  /\ turn = "dis" /\ dis.at = Len(insn.pre)
  /\ LET n == D!BytesRead(insn, dis.st)
         inst == D!Decoded(insn, dis.st)
     IN /\ dis' = [dis EXCEPT !.inst = inst, !.st.nbytes = @ + n, !.st.real_nbytes = @ + n]
        /\ jit' = [jit EXCEPT !.p = IF inst.known THEN compile_get_addr(inst.addr) ELSE <<>>]
  /\ turn' = "words"
  /\ UNCHANGED <<insn, last, itp, faults>>

\* IA32_jit executes a word of the address.
ExecuteWord ==
  /\ turn = "words" /\ jit.pos <= Len(jit.p)
  /\ jit' = [jit EXCEPT !.offset = Executed(jit.p, jit.pos, @),
                        !.pos = @ + 1 + Immediates(jit.p[jit.pos])]
  /\ UNCHANGED <<insn, last, turn, dis, itp, faults>>

\* IA32_exec_next_inst reads the first byte.
IA32_exec_next_inst ==
  /\ \/ turn = "words" /\ jit.pos > Len(jit.p)
     \/ turn = "interp" /\ itp.eip = 0
  /\ turn' = "interp"
  /\ itp' = [itp EXCEPT !.eip = 1, !.at = 0, !.inst = Nothing]
  /\ UNCHANGED <<insn, last, dis, jit, faults>>

---------------------------------------------------------------------------
\* The prefix handlers of the interpreter: group and switch.  The handler of
\* the first prefix of its group sets the switch and is the one to unset it.
GroupOfPrefix ==
  [repne_repnz_and_other |-> 1, repe_repz_and_other |-> 1, override_seg |-> 2,
   switch_op_size_and_other |-> 3, switch_addr_size |-> 4]

repne_repnz_and_other(st, on) == [st EXCEPT !.repne = on]
repe_repz_and_other(st, on) == [st EXCEPT !.repe = on]
override_seg(st, seg) == [st EXCEPT !.seg = seg]
switch_op_size_and_other(st, on) == [st EXCEPT !.op = on]

\* As switch_addr_size, with a return that leaves the switch set.
KeepsAddrSize(st, on) == [st EXCEPT !.ad = @ \/ on]
switch_addr_size(st, on) == [st EXCEPT !.ad = on]

Switched(st, row, on) ==
  CASE row[1] = "repne_repnz_and_other" -> repne_repnz_and_other(st, on)
    [] row[1] = "repe_repz_and_other" -> repe_repz_and_other(st, on)
    [] row[1] = "override_seg" -> override_seg(st, IF on THEN row[2] ELSE "none")
    [] row[1] = "switch_op_size_and_other" -> switch_op_size_and_other(st, on)
    [] row[1] = "switch_addr_size" -> switch_addr_size(st, on)

Entering(st, row) == [Switched(st, row, TRUE) EXCEPT !.groups = @ \cup {GroupOfPrefix[row[1]]}]
Leaving(st, row) == [Switched(st, row, FALSE) EXCEPT !.groups = @ \ {GroupOfPrefix[row[1]]}]

InterpPrefix ==
  /\ turn = "interp" /\ itp.eip > 0 /\ itp.at < Len(insn.pre)
  /\ LET row == InterpPrefixRow(itp.at + 1)
         seen == GroupOfPrefix[row[1]] \in itp.st.groups
     IN itp' = [itp EXCEPT !.eip = @ + 1, !.at = @ + 1,
                           !.st = IF seen THEN @ ELSE Entering(@, row),
                           !.entered = IF seen THEN @ ELSE Append(@, row)]
  /\ UNCHANGED <<insn, last, turn, dis, jit, faults>>

\* The handler of the instruction, by any path its operands allow; without one
\* the program ends.
InterpOpcode ==
  /\ turn = "interp" /\ itp.eip > 0 /\ itp.at = Len(insn.pre)
  /\ \E n \in I!BytesFetched(insn, itp.st) :
       itp' = [itp EXCEPT !.eip = @ + n, !.inst = I!Executed(insn, itp.st)]
  /\ turn' = IF I!unk_inst(insn) THEN "ended" ELSE "unwind"
  /\ UNCHANGED <<insn, last, dis, jit, faults>>

\* The next byte of code cannot be fetched, or the handler faults: the
\* exception reports the start of the instruction, which is tried again.
InterpFault ==
  /\ turn = "interp" /\ itp.eip > 0 /\ faults = 0
  /\ faults' = 1
  /\ itp' = [itp EXCEPT !.eip = 0]
  /\ turn' = "unwind"
  /\ UNCHANGED <<insn, last, dis, jit>>

\* A call of exec_inst returns to the prefix handler that made it.
InterpUnwind ==
  /\ turn = "unwind" /\ itp.entered # <<>>
  /\ LET n == Len(itp.entered)
     IN itp' = [itp EXCEPT !.st = Leaving(@, itp.entered[n]),
                           !.entered = SubSeq(@, 1, n - 1)]
  /\ UNCHANGED <<insn, last, turn, dis, jit, faults>>

\* IA32_exec_next_inst returns.
InterpReturn ==
  /\ turn = "unwind" /\ itp.entered = <<>>
  /\ turn' = IF itp.eip = 0 THEN "interp" ELSE "done"
  /\ UNCHANGED <<insn, last, dis, jit, itp, faults>>

\* Another instruction follows.
NextInstruction ==
  /\ turn = "done" /\ ~last
  /\ insn' \in Followers
  /\ last' = TRUE
  /\ turn' = "dis"
  /\ dis' = Fresh /\ jit' = NoWords
  /\ itp' = [itp EXCEPT !.eip = 0, !.inst = Nothing]
  /\ faults' = 1

Next ==
  \/ DisPrefix \/ DisOpcode \/ ExecuteWord
  \/ IA32_exec_next_inst \/ InterpPrefix \/ InterpOpcode
  \/ InterpFault \/ InterpUnwind \/ InterpReturn
  \/ NextInstruction

Spec == Init /\ [][Next]_vars

---------------------------------------------------------------------------
\* The two tables name the same operation: mnemonics that differ, and the
\* spelling of operands that differ.  A handler whose name gives no operands
\* has only one form.
Mnemonic ==
  [call_near |-> "call", call_far |-> "call", jmp_near |-> "jmp", jmp_far |-> "jmp",
   fimul |-> "fmul"]
Spelling ==
  [rel8_opsize |-> "rel8", loop_like |-> "rel8", r_A |-> "A_r", r32 |-> "r",
   rm8_nomodrmbyte |-> "rm8", ptr16_off |-> "ptr16_16_32", m |-> "m16_off", r_m |-> "r_m16_off",
   st0_stack_pos |-> "0_i", stack_pos_st0 |-> "i_0", stack_pos |-> "reg", none |-> "reg0"]

\* The coprocessor's operands in memory: integers or numbers of a width.
Integers == {"fild", "fist", "fistp", "fimul"}
InMemory(inst) ==
  CASE inst.width = 16 -> "int16"
    [] inst.width = 32 -> IF inst.op \in Integers THEN "int32" ELSE "float"
    [] inst.width = 64 -> IF inst.op \in Integers THEN "int64" ELSE "double"
    [] OTHER -> "ldouble"

SameRow(inst, row) ==
  /\ row[1] = IF inst.op \in DOMAIN Mnemonic THEN Mnemonic[inst.op] ELSE inst.op
  /\ \/ row[2] \in {"", inst.form}
     \/ inst.form \in DOMAIN Spelling /\ row[2] = Spelling[inst.form]
     \/ inst.width > 0 /\ inst.addr.type # "register" /\ row[2] = InMemory(inst)

\* Both engines take a sequence of bytes for the same instruction: the same
\* operation on operands of the same form and size with the same repetition,
\* or unknown to both.  No prefix of an earlier instruction counts, whether
\* that one was executed or cut short.
SameOperation ==
  turn \in {"done", "ended"} =>
    /\ dis.inst.known = itp.inst.known
    /\ dis.inst.known => /\ SameRow(dis.inst, itp.inst.row)
                         /\ dis.inst.op32 = itp.inst.op32
                         /\ dis.inst.ad32 = itp.inst.ad32
                         /\ dis.inst.prefix = itp.inst.prefix

\* The words leave in offset what the interpreter computes, at the same width,
\* and both take the same segment.
SameAddress ==
  turn = "done" /\ dis.inst.known =>
    LET addr == itp.inst.addr
    IN IF dis.inst.addr.type = "register" THEN addr = I!NoAddress
       ELSE /\ jit.offset = Offset(addr.wrap, addr.terms)
            /\ dis.inst.addr.data_seg = addr.seg

\* The JIT advances EIP by real_nbytes: as many bytes as the interpreter has
\* fetched, whatever path its handler took.
SameBytes ==
  turn = "done" /\ dis.inst.known => dis.st.real_nbytes = itp.eip

\* What is kept of an instruction fits in IA32_Inst.bytes, however many
\* prefixes it has.
BytesFit == dis.st.nbytes <= 15

=============================================================================
