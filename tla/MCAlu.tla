------------------------------- MODULE MCAlu -------------------------------
(* Instructions for the model checker: words at the corners and in between, *)
(* every count, no flag and every flag.                                     *)
EXTENDS Alu

\* Words of each width: none, all, the top bit, all but it, and mixed ones.
Samples(w) ==
  {{}, Positions(w), {w - 1}, Positions(w - 1), {0}, {w - 2, 3}, {w - 1, w - 2, 0},
   {i \in Positions(w) : i % 3 = 0}}

Widths == {8, 16, 32}
Carries == {{}, Arithmetic}

Insn(op, w, d, s, same, n, imm, f) ==
  [op |-> op, w |-> w, dst |-> d, src |-> s, same |-> same, n |-> n, imm |-> imm, f |-> f]

MCShifts ==
  UNION {{Insn(op, w, d, {}, FALSE, n, FALSE, f) :
            op \in Shifts \cup Rotations, d \in Samples(w), n \in 0 .. 32, f \in Carries} : w \in Widths}

MCDoubles ==
  UNION {{Insn(op, w, d, s, FALSE, n, imm, {}) :
            op \in DoubleShifts, d \in Samples(w), s \in Samples(w),
            n \in {0, 1, 2, 15, 16, 17, 30, 31, 32, 33, 255}, imm \in BOOLEAN} : w \in {16, 32}}

MCSums ==
  UNION {{Insn(op, w, d, s, FALSE, 0, FALSE, f) :
            op \in Additions \cup Subtractions, d \in Samples(w), s \in Samples(w), f \in Carries}
         \cup {Insn(op, w, d, d, TRUE, 0, FALSE, f) :
            op \in {"ADD", "ADC", "SUB", "SBB", "CMP"}, d \in Samples(w), f \in Carries} : w \in Widths}

\* Products and quotients on words of 4 bits, all of them.
MCProducts ==
  {Insn(op, 4, d, s, FALSE, 0, FALSE, {}) :
     op \in Products, d \in SUBSET Positions(4), s \in SUBSET Positions(4)}

MCDivisions ==
  {Insn(op, 4, d, s, FALSE, 0, FALSE, {}) :
     op \in Divisions, d \in SUBSET Positions(8), s \in SUBSET Positions(4)}

MCInsns == MCShifts \cup MCDoubles \cup MCSums \cup MCProducts \cup MCDivisions

\* Everything is read, only CF, only what is not CF.
MCNeeds == {Arithmetic, {"CF"}, Arithmetic \ {"CF"}}

=============================================================================
