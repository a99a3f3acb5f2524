------------------------------ MODULE MCDecode ------------------------------
(***************************************************************************)
(* Instructions for both engines: every opcode in both sizes of code under *)
(* the prefixes that change it, every form of address.                     *)
(***************************************************************************)
EXTENDS Decode

Arith == INSTANCE InterpArith
Move == INSTANCE InterpMove
Flow == INSTANCE InterpFlow
System == INSTANCE InterpSystem
Seen == INSTANCE Steps

\* The handlers of the run interp, seen from outside.
AllShapes ==
  Seen!ShapesIn(UNION {Arith!ArithInsns, Arith!BitsInsns, Move!MoveInsns, Flow!FlowInsns,
                    System!SystemInsns})
MCShapes == AllShapes

Insn(is32, pre, esc, code, mod, reg, rm, sib) ==
  [is32 |-> is32, pre |-> pre, esc |-> esc, code |-> code, mod |-> mod, reg |-> reg,
   rm |-> rm, scale |-> sib[1], index |-> sib[2], base |-> sib[3]]

Prefixes == {\h26, \h2e, \h36, \h3e, \h64, \h65, \h66, \h67, \hf2, \hf3}
NoSib == <<0, 4, 0>>

\* One sequence per kind of prefix; both orders of two of a group; all groups.
Some == {<<>>, <<\h66>>, <<\h67>>, <<\hf3>>, <<\hf2, \hf3>>}
Many == Some \cup {<<\h66, \h67>>, <<\h65, \h66, \h36, \h66>>, <<\hf2, \h67, \h26, \h66>>,
                   <<\hf3, \h67, \hf2, \h26, \h66, \h67>>}

Opcodes == {<<esc, code>> \in BOOLEAN \X (0 .. 255) :
              ~esc => code \notin Prefixes \cup {\h0f}}
Group(o) == D!GroupOf(Insn(TRUE, <<>>, o[1], o[2], 0, 0, 0, NoSib)) # {}

\* Rows of the tables: register fields and modes matter to groups only.
MCOpcodes ==
  UNION {{Insn(is32, pre, o[1], o[2], mod, reg, 3, NoSib) :
            is32 \in BOOLEAN, pre \in Some, mod \in {0, 3},
            reg \in IF Group(o) THEN 0 .. 7 ELSE {0}} : o \in Opcodes}

\* The stack registers of the coprocessor.
MCStack ==
  {Insn(TRUE, <<>>, FALSE, code, 3, reg, rm, NoSib) :
     code \in \hd8 .. \hdf, reg \in 0 .. 7, rm \in 0 .. 7}

\* Every address: ADD of a register, with all SIB bytes.
Add(is32, pre, mod, rm, sib) == Insn(is32, pre, FALSE, \h01, mod, 1, rm, sib)
MCAddresses ==
  {Add(is32, pre, mod, rm, NoSib) :
     is32 \in BOOLEAN, pre \in {<<>>, <<\h67>>, <<\h3e>>, <<\h36, \h67, \h3e>>}, mod \in 0 .. 2, rm \in 0 .. 7}
  \cup {Add(TRUE, <<>>, mod, 4, <<scale, index, base>>) :
     mod \in 0 .. 2, scale \in 0 .. 3, index \in 0 .. 7, base \in 0 .. 7}

\* All groups of prefixes, some twice, before the longest operands.
MCLong ==
  {Insn(is32, pre, FALSE, code, mod, 0, 4, <<0, 0, 5>>) :
     is32 \in BOOLEAN, pre \in Many, code \in {\h81, \ha5, \ha7, \h8b, \hc8}, mod \in {0, 2, 3}}

MCInsns == MCOpcodes \cup MCStack \cup MCAddresses \cup MCLong
MCFollowers == {Insn(FALSE, <<>>, FALSE, \ha5, 0, 0, 0, NoSib), Insn(TRUE, <<>>, FALSE, \h8b, 0, 0, 5, NoSib)}

=============================================================================
