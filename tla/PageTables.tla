----------------------------- MODULE PageTables -----------------------------
(***************************************************************************)
(* 32-bit paging as the guest sees it: two levels of tables in memory, a   *)
(* linear address made of an index into each of them and an offset, and    *)
(* the rights of an access.                                                *)
(*                                                                         *)
(* Memory is counted in aligned words, the size of an entry, and every     *)
(* word reads as an entry.  A frame holds TableSize words.  Dirty and      *)
(* accessed bits are not modelled (the code never writes them), nor is     *)
(* PSE (the code exits when it is on).                                     *)
(***************************************************************************)
EXTENDS Integers, Sequences

CONSTANTS
  MaxFrame,     \* the last frame of physical memory
  TableSize,    \* entries of a table, words of a frame: 1024 in the code
  Directories,  \* frames the guest loads in CR3
  Contexts,     \* the contexts control registers are written in
  Operands,     \* the operands the guest reads, writes and fetches
  Stored,       \* pairs <<physical word, entry>> the guest may store
  InitMem       \* memory when the JIT is created

Frame == 0 .. MaxFrame
Index == 0 .. (TableSize - 1)
Phys == Frame \X Index
Linear == Index \X Index \X Index
Entry == [p : BOOLEAN, rw : BOOLEAN, us : BOOLEAN, frame : Frame]

\* CPL, CR0.WP, CR4.SMEP, CR4.SMAP and EFLAGS.AC at the time of an access;
\* implicit: an access of the processor to a system structure.
Context == [cpl : 0 .. 3, implicit : BOOLEAN, wp : BOOLEAN, smep : BOOLEAN,
            smap : BOOLEAN, ac : BOOLEAN]
AccessKind == {"read", "write", "fetch"}

\* An operand: where it is, whether its address is odd, and whether it takes
\* part of two words.
Operand == [l : Linear, kind : AccessKind, ctx : Context,
            odd : BOOLEAN, straddles : BOOLEAN]

ASSUME PagingAssumption ==
  /\ MaxFrame \in Nat
  /\ TableSize \in Nat \ {0}
  /\ Directories \subseteq Frame
  /\ Contexts \subseteq Context
  /\ Operands \subseteq Operand
  /\ Stored \subseteq Phys \X Entry
  /\ InitMem \in [Phys -> Entry]
  /\ 0 \in Frame

\* The word after l, from page to page and around the end of the space.
WithinPage(l) == <<l[1], l[2], l[3] + 1>>
Following(l) ==
  IF l[3] + 1 \in Index THEN <<l[1], l[2], l[3] + 1>>
  ELSE IF l[2] + 1 \in Index THEN <<l[1], l[2] + 1, 0>>
  ELSE IF l[1] + 1 \in Index THEN <<l[1] + 1, 0, 0>>
  ELSE <<0, 0, 0>>

\* The physical word of l when paging is off.
Flat(l) == <<l[1] * TableSize + l[2], l[3]>>

Supervisor(ctx) == ctx.cpl < 3 \/ ctx.implicit

Part == [l : Linear, kind : AccessKind, ctx : Context]

\* The accesses an operand takes: stores are never implicit, and odd operands
\* are read byte by byte, which drops implicit.
Parts(op) ==
  LET c == [op.ctx EXCEPT !.implicit = @ /\ ~op.odd /\ op.kind # "write"]
      first == [l |-> op.l, kind |-> op.kind, ctx |-> c]
  IN  IF op.straddles THEN <<first, [first EXCEPT !.l = Following(op.l)]>>
      ELSE <<first>>

\* What an access answers.
Done == [fault |-> "none"]
Reached(w) == [fault |-> "none", at |-> w]
GeneralProtection == [fault |-> "GP"]
PageFault(part, present) ==
  [fault |-> "PF", P |-> present, WR |-> part.kind = "write",
   ID |-> part.kind = "fetch", US |-> ~Supervisor(part.ctx)]

\* What a store to word w may leave in it, memory being m.
Storable(m, w) == {m[w]} \cup {s[2] : s \in {t \in Stored : t[1] = w}}

=============================================================================
