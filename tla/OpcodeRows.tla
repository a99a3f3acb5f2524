----------------------------- MODULE OpcodeRows -----------------------------
(***************************************************************************)
(* How the opcode tables of both engines are written: sets of rows, tuples *)
(* that begin with the byte the row is for.                                *)
(***************************************************************************)
EXTENDS Naturals, Sequences

\* A register in the low bits of the byte: eight rows.
Eight(lo, row) == {<<lo + r>> \o row : r \in 0 .. 7}

\* The forms an arithmetic operation has at six consecutive bytes.
Six(lo, op) ==
  LET forms == <<"rm8_r8", "rm_r", "r8_rm8", "r_rm", "AL_imm8", "A_imm">>
  IN {<<lo + k - 1, op, forms[k]>> : k \in 1 .. 6}

\* The operations of a group whose operands have one form; "" where it has none.
Numbered(ops, form) == {<<k - 1, ops[k]>> \o form : k \in {j \in 1 .. Len(ops) : ops[j] # ""}}

\* The rows of a byte without the byte: none or one.
RowsAt(rows, byte) == {Tail(r) : r \in {r \in rows : r[1] = byte}}

=============================================================================
