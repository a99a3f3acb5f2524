-------------------------------- MODULE Alu --------------------------------
(***************************************************************************)
(* The integer arithmetic of both engines on the same instruction: first   *)
(* the macros of the interpreter, then the bytecode words compile_* makes, *)
(* one word at a time, without the flag words nobody needs.                *)
(*                                                                         *)
(* An instruction x has op, w (its width), dst and src (words), same (both *)
(* operands are one register), n (the count, as encoded), imm (the count   *)
(* is an immediate) and f, the flags it finds.                             *)
(***************************************************************************)
EXTENDS AluRef, Sequences

CONSTANTS
  Insns,   \* the instructions tried
  Needs    \* the sets of flags the instructions after them need

\* The operands have the width of the instruction, the dividend twice it; AF is
\* the carry of a bit every width has; there is no double shift of bytes.
WellFormed(x) ==
  /\ x.op \in Shifts \cup Rotations \cup DoubleShifts \cup Additions \cup Subtractions
              \cup Products \cup Divisions
  /\ x.w \in Nat /\ x.w > 1
  /\ x.op \in Additions \cup Subtractions => x.w > 4
  /\ x.op \in DoubleShifts => x.w \in {16, 32}
  /\ x.dst \subseteq Positions(IF x.op \in Divisions THEN 2 * x.w ELSE x.w)
  /\ x.src \subseteq Positions(x.w)
  /\ x.same \in BOOLEAN /\ x.imm \in BOOLEAN /\ x.n \in Nat
  /\ x.same => x.src = x.dst
  /\ x.f \subseteq Arithmetic

ASSUME AluInputs ==
  /\ Needs \subseteq SUBSET Arithmetic
  /\ \A x \in Insns : WellFormed(x)

\* EFLAGS|= or EFLAGS&= ~ of one flag.
With(f, g, b) == IF b THEN f \cup {g} ELSE f \ {g}
WithAll(f, s, g) == Replaced(f, s, g)

---------------------------------------------------------------------------
(* The interpreter.                                                        *)

SAHLR_FLAGS(f, r, w) == WithAll(f, {"SF", "ZF", "PF"}, ResultFlags(r, w))

SHR(x) ==
  LET n == x.n % 32
      f1 == IF n = 1 THEN With(x.f, "OF", x.w - 1 \in x.dst) ELSE x.f
      f2 == IF n > x.w THEN f1 \ {"CF"}
            ELSE IF n > 0 THEN With(f1, "CF", n - 1 \in x.dst) ELSE f1
      r == IF n >= x.w THEN {} ELSE Shr(x.dst, n)
  IN Outcome(r, IF n # 0 THEN SAHLR_FLAGS(f2, r, x.w) ELSE f2)

SAR(x) ==
  LET n == x.n % 32
      sign == x.w - 1 \in x.dst
      f1 == IF n = 1 THEN x.f \ {"OF"} ELSE x.f
      f2 == IF n >= x.w THEN With(f1, "CF", sign)
            ELSE IF n > 0 THEN With(f1, "CF", n - 1 \in x.dst) ELSE f1
      r == IF n >= x.w THEN (IF sign THEN Positions(x.w) ELSE {}) ELSE Sar(x.dst, n, x.w)
  IN Outcome(r, IF n # 0 THEN SAHLR_FLAGS(f2, r, x.w) ELSE f2)

SHL(x) ==
  LET n == x.n % 32
      f1 == IF n = 1 THEN With(x.f, "OF", (x.w - 1 \in x.dst) # (x.w - 2 \in x.dst)) ELSE x.f
      f2 == IF n > x.w THEN f1 \ {"CF"}
            ELSE IF n > 0 THEN With(f1, "CF", x.w - n \in x.dst) ELSE f1
      r == IF n >= x.w THEN {} ELSE Shl(x.dst, n, x.w)
  IN Outcome(r, IF n # 0 THEN SAHLR_FLAGS(f2, r, x.w) ELSE f2)

\* CL is masked, an immediate is not.
DoubleCount(x) == IF x.imm THEN x.n ELSE x.n % 32

\* What SHLD and SHRD do with the result and the bit shifted out.
Doubled(x, r, out) ==
  LET n == DoubleCount(x)
      f1 == With(x.f, "CF", out)
      f2 == IF n = 1 THEN With(f1, "OF", x.w - 1 \in Xor(r, x.dst)) ELSE f1
  IN IF n > 0 /\ n <= x.w THEN Outcome(r, SAHLR_FLAGS(f2, r, x.w)) ELSE Outcome(x.dst, x.f)

SHLD(x) ==
  LET n == DoubleCount(x)
  IN Doubled(x, IF n = x.w THEN x.src ELSE Shl(x.dst, n, x.w) \cup Shr(x.src, x.w - n),
             x.w - n \in x.dst)

SHRD(x) ==
  LET n == DoubleCount(x)
  IN Doubled(x, IF n = x.w THEN x.src ELSE Shr(x.dst, n) \cup Shl(x.src, x.w - n, x.w),
             n - 1 \in x.dst)

\* The 32-bit variant does not reduce the count: 31 is less than 33.
RCL(x) ==
  LET n == (x.n % 32) % (x.w + 1)
      tmp == "CF" \in x.f
      f1 == IF x.n % 32 = 1 THEN With(x.f, "OF", (x.w - 1 \in x.dst) # (x.w - 2 \in x.dst)) ELSE x.f
      r == Shl(x.dst, n, x.w) \cup Bit(tmp, n - 1) \cup Shr(x.dst, x.w + 1 - n)
  IN IF n = 0 THEN Outcome(x.dst, f1) ELSE Outcome(r, With(f1, "CF", x.w - n \in x.dst))

RCR(x) ==
  LET n == (x.n % 32) % (x.w + 1)
      tmp == "CF" \in x.f
      f1 == IF x.n % 32 = 1 THEN With(x.f, "OF", (x.w - 1 \in x.dst) # tmp) ELSE x.f
      r == Shr(x.dst, n) \cup Bit(tmp, x.w - n) \cup Shl(x.dst, x.w + 1 - n, x.w)
  IN IF n = 0 THEN Outcome(x.dst, f1) ELSE Outcome(r, With(f1, "CF", n - 1 \in x.dst))

\* CF is set from the result whatever the count.
ROL(x) ==
  LET n == (x.n % 32) % x.w
      f1 == IF x.n % 32 = 1 THEN With(x.f, "OF", (x.w - 1 \in x.dst) # (x.w - 2 \in x.dst)) ELSE x.f
      r == IF n > 0 THEN Shl(x.dst, n, x.w) \cup Shr(x.dst, x.w - n) ELSE x.dst
  IN Outcome(r, With(f1, "CF", 0 \in r))

ROR(x) ==
  LET n == (x.n % 32) % x.w
      f1 == IF x.n % 32 = 1 THEN With(x.f, "OF", (x.w - 1 \in x.dst) # (0 \in x.dst)) ELSE x.f
      r == IF n > 0 THEN Shl(x.dst, x.w - n, x.w) \cup Shr(x.dst, n) ELSE x.dst
  IN Outcome(r, With(f1, "CF", x.w - 1 \in r))

\* SET_AD_FLAGS and SET_SB_FLAGS, from the result and both operands.
AD_Bits(r, a, b, w) ==
  LET carry == (a \cap b) \cup ((a \cup b) \cap Not(r, w))
  IN (IF w - 1 \in Not(Xor(a, b), w) \cap Xor(a, r) THEN {"OF"} ELSE {})
     \cup (IF 4 \in Xor(Xor(a, b), r) THEN {"AF"} ELSE {})
     \cup (IF w - 1 \in carry THEN {"CF"} ELSE {})

SB_Bits(r, a, b, w) ==
  LET nb == Not(b, w)
      carry == (a \cap nb) \cup ((a \cup nb) \cap Not(r, w))
  IN (IF w - 1 \in Xor(a, b) \cap Xor(a, r) THEN {"OF"} ELSE {})
     \cup (IF 4 \in Xor(Xor(a, nb), r) THEN {} ELSE {"AF"})
     \cup (IF w - 1 \in carry THEN {} ELSE {"CF"})

AD_FLAGS(f, s, r, a, b, w) == WithAll(f, s, AD_Bits(r, a, b, w) \cup ResultFlags(r, w))
SB_FLAGS(f, s, r, a, b, w) == WithAll(f, s, SB_Bits(r, a, b, w) \cup ResultFlags(r, w))

\* The macros name their source again after they have written the
\* destination: with the same register twice the flags see the result.
Reread(x, r) == IF x.same THEN r ELSE x.src

ADD(x) ==
  LET r == Plus(x.dst, x.src, FALSE, x.w)
  IN Outcome(r, AD_FLAGS(x.f, Arithmetic, r, x.dst, Reread(x, r), x.w))

ADC(x) ==
  LET r == Plus(x.dst, x.src, "CF" \in x.f, x.w)
  IN Outcome(r, AD_FLAGS(x.f, Arithmetic, r, x.dst, Reread(x, r), x.w))

SUB(x) ==
  LET r == Minus(x.dst, x.src, x.w)
  IN Outcome(r, SB_FLAGS(x.f, Arithmetic, r, x.dst, Reread(x, r), x.w))

\* As SBB, with the carry added to the complement as ADC adds it.
SBB_adds_carry(x) ==
  LET r == Plus(x.dst, Not(x.src, x.w), "CF" \in x.f, x.w)
  IN Outcome(r, SB_FLAGS(x.f, Arithmetic, r, x.dst, Reread(x, r), x.w))

SBB(x) ==
  LET r == Plus(x.dst, Not(x.src, x.w), "CF" \notin x.f, x.w)
  IN Outcome(r, SB_FLAGS(x.f, Arithmetic, r, x.dst, Reread(x, r), x.w))

CMP(x) ==
  LET r == Minus(x.dst, x.src, x.w)
  IN Outcome(x.dst, SB_FLAGS(x.f, Arithmetic, r, x.dst, x.src, x.w))

INC(x) ==
  LET r == Plus(x.dst, {0}, FALSE, x.w)
  IN Outcome(r, AD_FLAGS(x.f, Arithmetic \ {"CF"}, r, x.dst, {0}, x.w))

DEC(x) ==
  LET r == Minus(x.dst, {0}, x.w)
  IN Outcome(r, SB_FLAGS(x.f, Arithmetic \ {"CF"}, r, x.dst, {0}, x.w))

NEG(x) ==
  LET r == Minus({}, x.dst, x.w)
  IN Outcome(r, With(SB_FLAGS(x.f, Arithmetic, r, {}, x.dst, x.w), "CF", x.dst # {}))

\* imul_rm8, imul_rm16, imul_rm32 (IMUL1) and mul_rm*: the double word goes to
\* the accumulator.
IMUL1(x) ==
  LET p == Signed(x.dst, x.w) * Signed(x.src, x.w)
      low == Word(p % 2 ^ x.w, x.w)
      more == Signed(low, x.w) # p
  IN Outcome(Word(p % 2 ^ (2 * x.w), 2 * x.w),
             With(With(With(x.f, "SF", x.w - 1 \in low), "CF", more), "OF", more))

\* IMUL16, IMUL32 and the OP2 variants: the signs of the low half and of the
\* whole product are compared, not the high half.
IMUL2(x) ==
  LET p == Signed(x.dst, x.w) * Signed(x.src, x.w)
      r == Word(p % 2 ^ x.w, x.w)
      differ == (x.w - 1 \in r) # (p < 0)
  IN Outcome(r, With(With(With(x.f, "SF", x.w - 1 \in r), "CF", differ), "OF", differ))

MUL(x) ==
  LET p == Unsigned(x.dst) * Unsigned(x.src)
      high == p \div 2 ^ x.w # 0
  IN Outcome(Word(p, 2 * x.w), With(With(x.f, "CF", high), "OF", high))

\* The division of C truncates.
Truncated(n, d) ==
  LET Abs(k) == IF k < 0 THEN -k ELSE k
      q == Abs(n) \div Abs(d)
  IN IF (n < 0) = (d < 0) THEN q ELSE -q

\* A quotient and a remainder in their halves of the accumulator.
Halves(q, r, x) == Outcome(Word(q % 2 ^ x.w, x.w) \cup {i + x.w : i \in Word(r % 2 ^ x.w, x.w)}, x.f)

\* div_rm8, div_rm16 and div_rm32.
DIV(x) ==
  LET n == Unsigned(x.dst)
      d == Unsigned(x.src)
  IN IF d = 0 THEN Faults(x)
     ELSE IF n \div d > 2 ^ x.w - 1 THEN Faults(x)
     ELSE Halves(n \div d, n % d, x)

SignedDivision(n, d, x) ==
  IF d = 0 THEN Faults(x)
  ELSE LET q == Truncated(n, d)
       IN IF q > 2 ^ (x.w - 1) - 1 \/ q < -(2 ^ (x.w - 1)) THEN Faults(x)
          ELSE Halves(q, n - q * d, x)

\* idiv_rm16 and idiv_rm32.  The most negative dividend divided by -1
\* overflows the C type: undefined, a trap of the host where it is compiled to
\* a division instruction.
Undefined(x) == x.op = "IDIV" /\ x.dst = {2 * x.w - 1} /\ x.src = Positions(x.w)
IDIV(x) == SignedDivision(Signed(x.dst, 2 * x.w), Signed(x.src, x.w), x)

\* idiv_rm8 takes (int8_t) AX for its dividend: AL, not AX.
IDIV8(x) ==
  SignedDivision(Signed(x.dst \cap Positions(x.w), x.w), Signed(x.src, x.w), x)

\* The dispatch of an instruction to its macro.
Interpreted(x) ==
  CASE x.op = "SHR" -> SHR(x) [] x.op = "SAR" -> SAR(x) [] x.op = "SHL" -> SHL(x)
    [] x.op = "SHLD" -> SHLD(x) [] x.op = "SHRD" -> SHRD(x)
    [] x.op = "RCL" -> RCL(x) [] x.op = "RCR" -> RCR(x)
    [] x.op = "ROL" -> ROL(x) [] x.op = "ROR" -> ROR(x)
    [] x.op = "ADD" -> ADD(x) [] x.op = "ADC" -> ADC(x) [] x.op = "INC" -> INC(x)
    [] x.op = "SUB" -> SUB(x) [] x.op = "SBB" -> SBB(x) [] x.op = "CMP" -> CMP(x)
    [] x.op = "DEC" -> DEC(x) [] x.op = "NEG" -> NEG(x)
    [] x.op = "MUL" -> MUL(x) [] x.op = "IMUL1" -> IMUL1(x) [] x.op = "IMUL2" -> IMUL2(x)
    [] x.op = "DIV" -> DIV(x) [] x.op = "IDIV" -> IDIV(x) [] x.op = "IDIV8" -> IDIV8(x)

---------------------------------------------------------------------------
(* The words of the translator.                                            *)

\* A flag word, left out when nobody needs its flags.
Flag(g, word, need) == IF g \cap need # {} THEN <<word>> ELSE <<>>

\* SF, ZF and PF words of a shift and of anything else.
ShiftFlags(need) ==
  Flag({"SF"}, "SHIFT_SF", need) \o Flag({"ZF"}, "SHIFT_ZF", need) \o Flag({"PF"}, "SHIFT_PF", need)

compile_shift(op, of, cf, need) ==
  <<"SET_COUNT">> \o Flag({"OF"}, of, need) \o Flag({"CF"}, cf, need)
  \o <<op, "WRITE_RES">> \o ShiftFlags(need)

\* As compile_rcr, with the carry word before the word of OF.
compile_rcr_carry_first(need) ==
  <<"SET_COUNT">> \o <<"RCR">> \o Flag({"CF"}, "RCR_CF", need)
  \o Flag({"OF"}, "RCR_OF", need) \o <<"WRITE_RES">>

compile_rcr(need) ==
  <<"SET_COUNT">> \o Flag({"OF"}, "RCR_OF", need) \o <<"RCR">>
  \o Flag({"CF"}, "RCR_CF", need) \o <<"WRITE_RES">>

compile_rcl(need) ==
  <<"SET_COUNT">> \o Flag({"OF"}, "RCL_OF", need) \o <<"RCL">>
  \o Flag({"CF"}, "RCL_CF", need) \o <<"WRITE_RES">>

compile_rol(need) ==
  <<"SET_COUNT">> \o Flag({"OF"}, "SHL_OF", need) \o <<"ROL">>
  \o Flag({"CF"}, "ROL_CF", need) \o <<"WRITE_RES">>

compile_ror(need) ==
  <<"SET_COUNT">> \o Flag({"OF"}, "ROR_OF", need) \o <<"ROR">>
  \o Flag({"CF"}, "ROR_CF", need) \o <<"WRITE_RES">>

\* SHLD and SHRD compute OF from the result.
compile_double(op, cf, of, need) ==
  <<"SET_COUNT">> \o Flag({"CF"}, cf, need) \o <<op, "WRITE_RES">>
  \o Flag({"OF"}, of, need) \o ShiftFlags(need)

compile_add_like(op1, use_carry, update_cflag, need) ==
  op1 \o <<IF use_carry THEN "ADC" ELSE "ADD", "WRITE_RES">>
  \o Flag({"OF"}, "AD_OF", need) \o Flag({"SF"}, "SF", need) \o Flag({"ZF"}, "ZF", need)
  \o Flag({"AF"}, "AD_AF", need)
  \o (IF update_cflag THEN Flag({"CF"}, "AD_CF", need) ELSE <<>>)
  \o Flag({"PF"}, "PF", need)

compile_sub_like(op1, write_result, use_carry, cf, need) ==
  op1 \o <<IF use_carry THEN "SBB" ELSE "SUB">>
  \o (IF write_result THEN <<"WRITE_RES">> ELSE <<>>)
  \o Flag({"OF"}, "SB_OF", need) \o Flag({"SF"}, "SF", need) \o Flag({"ZF"}, "ZF", need)
  \o Flag({"AF"}, "SB_AF", need)
  \o (IF cf = "none" THEN <<>> ELSE Flag({"CF"}, cf, need))
  \o Flag({"PF"}, "PF", need)

\* With one operand the accumulator takes both halves and SF is not written.
compile_mul_like(op, one_operand, need) ==
  IF one_operand
  THEN <<op, "RES2_ACC">> \o Flag({"CF", "OF"}, IF op = "MUL" THEN "MUL1_CFOF" ELSE "IMUL1_CFOF", need)
  ELSE <<op, "RES2_RES", "WRITE_RES">> \o Flag({"SF"}, "SF", need)
       \o Flag({"CF", "OF"}, "MUL_CFOF", need)

\* The bytecode of an instruction.
Compiled(x, need) ==
  CASE x.op = "SHR" -> compile_shift("SHR", "SHR_OF", "SHR_CF", need)
    [] x.op = "SHL" -> compile_shift("SHL", "SHL_OF", "SHL_CF", need)
    [] x.op = "SAR" -> compile_shift("SAR", "SAR_OF", "SAR_CF", need)
    [] x.op = "SHLD" -> compile_double("SHLD", "SHLD_CF", "SHXD_OF", need)
    [] x.op = "SHRD" -> compile_double("SHRD", "SHRD_CF", "SHXD_OF", need)
    [] x.op = "RCL" -> compile_rcl(need) [] x.op = "RCR" -> compile_rcr(need)
    [] x.op = "ROL" -> compile_rol(need) [] x.op = "ROR" -> compile_ror(need)
    [] x.op = "ADD" -> compile_add_like(<<>>, FALSE, TRUE, need)
    [] x.op = "ADC" -> compile_add_like(<<>>, TRUE, TRUE, need)
    [] x.op = "INC" -> compile_add_like(<<"SET_1_OP1">>, FALSE, FALSE, need)
    [] x.op = "SUB" -> compile_sub_like(<<>>, TRUE, FALSE, "SB_CF", need)
    [] x.op = "SBB" -> compile_sub_like(<<>>, TRUE, TRUE, "SB_CF", need)
    [] x.op = "CMP" -> compile_sub_like(<<>>, FALSE, FALSE, "SB_CF", need)
    [] x.op = "DEC" -> compile_sub_like(<<"SET_1_OP1">>, TRUE, FALSE, "none", need)
    [] x.op = "NEG" -> compile_sub_like(<<"OP0_OP1_0_OP0">>, TRUE, FALSE, "NEG_CF", need)
    [] x.op \in {"MUL", "IMUL1"} -> compile_mul_like(IF x.op = "MUL" THEN "MUL" ELSE "IMUL", TRUE, need)
    [] x.op = "IMUL2" -> compile_mul_like("IMUL", FALSE, need)
    [] x.op \in Divisions -> <<x.op>>

\* The registers of the machine of IA32_jit: operands, count, results.
Loaded(x) ==
  [op0 |-> IF x.op \in Divisions THEN x.src ELSE x.dst,
   op1 |-> x.src, count |-> 0, res |-> {}, res2 |-> {},
   dst |-> x.dst, f |-> x.f, fault |-> "none"]

SetF(c, g, b) == [c EXCEPT !.f = With(@, g, b)]
SetWhen(c, cond, g, b) == IF cond THEN SetF(c, g, b) ELSE c

\* BC_SET_1_COUNT, BC_SET_CL_COUNT and BC_SET_IMM_COUNT with what
\* compile_set_count puts behind it.
SET_COUNT(c, x) ==
  [c EXCEPT !.count = IF x.op \in DoubleShifts THEN DoubleCount(x) ELSE x.n % 32]

\* The words that shift; those of 16 and 8 bits reduce the count of a rotation
\* and leave it reduced for the flag words behind them.
ShiftWord(word, c, w) ==
  LET n == c.count
      k == n % (w + 1)
      m == n % w
      tmp == "CF" \in c.f
  IN CASE word = "SHR" -> [c EXCEPT !.res = IF n >= w THEN {} ELSE Shr(c.op0, n)]
       [] word = "SHL" -> [c EXCEPT !.res = IF n >= w THEN {} ELSE Shl(c.op0, n, w)]
       [] word = "SAR" ->
            [c EXCEPT !.res = IF n < w THEN Sar(c.op0, n, w)
                              ELSE IF w - 1 \in c.op0 THEN Positions(w) ELSE {}]
       [] word = "SHLD" ->
            [c EXCEPT !.res = IF n = 0 \/ n > w THEN c.op0
                              ELSE IF n = w THEN c.op1
                              ELSE Shl(c.op0, n, w) \cup Shr(c.op1, w - n)]
       [] word = "SHRD" ->
            [c EXCEPT !.res = IF n = 0 \/ n > w THEN c.op0
                              ELSE IF n = w THEN c.op1
                              ELSE Shr(c.op0, n) \cup Shl(c.op1, w - n, w)]
       [] word = "RCL" ->
            [c EXCEPT !.count = k,
                      !.res = IF k = 0 THEN c.op0
                              ELSE Shl(c.op0, k, w) \cup Bit(tmp, k - 1) \cup Shr(c.op0, w + 1 - k)]
       [] word = "RCR" ->
            [c EXCEPT !.count = k,
                      !.res = IF k = 0 THEN c.op0
                              ELSE Shr(c.op0, k) \cup Bit(tmp, w - k) \cup Shl(c.op0, w + 1 - k, w)]
       [] word = "ROL" ->
            [c EXCEPT !.count = m, !.res = Shl(c.op0, m, w) \cup Shr(c.op0, w - m)]
       [] word = "ROR" ->
            [c EXCEPT !.count = m, !.res = Shl(c.op0, w - m, w) \cup Shr(c.op0, m)]

\* Their flag words.
ShiftFlagWord(word, c, w) ==
  LET n == c.count
      top == w - 1 \in c.op0
      next == w - 2 \in c.op0
      touched == n # 0 /\ (w = 32 => n <= 32)
  IN CASE word \in {"SHL_OF", "RCL_OF"} -> SetWhen(c, n = 1, "OF", top # next)
       [] word = "SHR_OF" -> SetWhen(c, n = 1, "OF", top)
       [] word = "SAR_OF" -> SetWhen(c, n = 1, "OF", FALSE)
       [] word = "RCR_OF" -> SetWhen(c, n = 1, "OF", top # ("CF" \in c.f))
       [] word = "ROR_OF" -> SetWhen(c, n = 1, "OF", top # (0 \in c.op0))
       [] word = "SHXD_OF" -> SetWhen(c, n = 1, "OF", w - 1 \in Xor(c.res, c.op0))
       [] word = "SHL_CF" -> SetWhen(c, n > 0, "CF", n <= w /\ w - n \in c.op0)
       [] word = "SHR_CF" -> SetWhen(c, n > 0, "CF", n <= w /\ n - 1 \in c.op0)
       [] word = "SAR_CF" -> SetWhen(c, n > 0, "CF", IF n >= w THEN top ELSE n - 1 \in c.op0)
       [] word = "SHLD_CF" -> SetWhen(c, n > 0 /\ n <= w, "CF", w - n \in c.op0)
       [] word = "SHRD_CF" -> SetWhen(c, n > 0 /\ n <= w, "CF", n - 1 \in c.op0)
       [] word = "RCL_CF" -> SetWhen(c, n > 0, "CF", w - n \in c.op0)
       [] word = "RCR_CF" -> SetWhen(c, n > 0, "CF", n - 1 \in c.op0)
       [] word = "ROL_CF" -> SetF(c, "CF", 0 \in c.res)
       [] word = "ROR_CF" -> SetF(c, "CF", w - 1 \in c.res)
       [] word = "SHIFT_SF" -> SetWhen(c, touched, "SF", w - 1 \in c.res)
       [] word = "SHIFT_ZF" -> SetWhen(c, touched, "ZF", c.res = {})
       [] word = "SHIFT_PF" -> SetWhen(c, touched, "PF", Parity(c.res))

\* A division leaves both halves of the accumulator or stops the engine.
Divided(c, o) == [c EXCEPT !.dst = o.dst, !.f = o.f, !.fault = o.fault]

\* Sums, differences, products and quotients.
ArithmeticWord(word, c, w, x) ==
  CASE word = "SET_1_OP1" -> [c EXCEPT !.op1 = {0}]
    [] word = "OP0_OP1_0_OP0" -> [c EXCEPT !.op1 = c.op0, !.op0 = {}]
    [] word = "ADD" -> [c EXCEPT !.res = Plus(c.op0, c.op1, FALSE, w)]
    [] word = "ADC" -> [c EXCEPT !.res = Plus(c.op0, c.op1, "CF" \in c.f, w)]
    [] word = "SUB" -> [c EXCEPT !.res = Minus(c.op0, c.op1, w)]
    [] word = "SBB" -> [c EXCEPT !.res = Plus(c.op0, Not(c.op1, w), "CF" \notin c.f, w)]
    [] word = "MUL" -> [c EXCEPT !.res2 = Word(Unsigned(c.op0) * Unsigned(c.op1), 2 * w)]
    [] word = "IMUL" ->
         [c EXCEPT !.res2 = Word((Signed(c.op0, w) * Signed(c.op1, w)) % 2 ^ (2 * w), 2 * w)]
    [] word = "RES2_RES" -> [c EXCEPT !.res = c.res2 \cap Positions(w)]
    [] word = "RES2_ACC" -> [c EXCEPT !.dst = c.res2]
    [] word = "WRITE_RES" -> [c EXCEPT !.dst = c.res]
    [] word = "DIV" -> Divided(c, DIV(x))
    [] word = "IDIV" -> Divided(c, IDIV(x))
    [] word = "IDIV8" -> Divided(c, IDIV8(x))

\* Flag words of sums, differences and products.
ArithmeticFlagWord(word, c, w) ==
  LET ad == AD_Bits(c.res, c.op0, c.op1, w)
      sb == SB_Bits(c.res, c.op0, c.op1, w)
      Both(b) == SetF(SetF(c, "CF", b), "OF", b)
      low == c.res2 \cap Positions(w)
  IN CASE word = "SF" -> SetF(c, "SF", w - 1 \in c.res)
       [] word = "ZF" -> SetF(c, "ZF", c.res = {})
       [] word = "PF" -> SetF(c, "PF", Parity(c.res))
       [] word = "AD_OF" -> SetF(c, "OF", "OF" \in ad)
       [] word = "AD_AF" -> SetF(c, "AF", "AF" \in ad)
       [] word = "AD_CF" -> SetF(c, "CF", "CF" \in ad)
       [] word = "SB_OF" -> SetF(c, "OF", "OF" \in sb)
       [] word = "SB_AF" -> SetF(c, "AF", "AF" \in sb)
       [] word = "SB_CF" -> SetF(c, "CF", "CF" \in sb)
       [] word = "NEG_CF" -> SetF(c, "CF", c.op1 # {})
       [] word = "MUL_CFOF" -> Both((w - 1 \in c.res) # (2 * w - 1 \in c.res2))
       [] word = "MUL1_CFOF" -> Both(c.res2 \ low # {})
       [] word = "IMUL1_CFOF" -> Both(Signed(low, w) # Signed(c.res2, 2 * w))

ShiftWords == Shifts \cup Rotations \cup DoubleShifts
ShiftFlagWords ==
  {"SHL_OF", "RCL_OF", "SHR_OF", "SAR_OF", "RCR_OF", "ROR_OF", "SHXD_OF", "SHL_CF", "SHR_CF",
   "SAR_CF", "SHLD_CF", "SHRD_CF", "RCL_CF", "RCR_CF", "ROL_CF", "ROR_CF",
   "SHIFT_SF", "SHIFT_ZF", "SHIFT_PF"}
ArithmeticFlagWords ==
  {"SF", "ZF", "PF", "AD_OF", "AD_AF", "AD_CF", "SB_OF", "SB_AF", "SB_CF", "NEG_CF",
   "MUL_CFOF", "MUL1_CFOF", "IMUL1_CFOF"}

Performed(word, c, x) ==
  IF word = "SET_COUNT" THEN SET_COUNT(c, x)
  ELSE IF word \in ShiftWords THEN ShiftWord(word, c, x.w)
  ELSE IF word \in ShiftFlagWords THEN ShiftFlagWord(word, c, x.w)
  ELSE IF word \in ArithmeticFlagWords THEN ArithmeticFlagWord(word, c, x.w)
  ELSE ArithmeticWord(word, c, x.w, x)

---------------------------------------------------------------------------
VARIABLES
  insn,   \* the instruction
  need,   \* the flags read after it
  out,    \* what the interpreter leaves
  pc,     \* the next word, 0 before the interpreter has run
  cpu     \* the machine that executes the words

vars == <<insn, need, out, pc, cpu>>

Init ==
  /\ insn \in Insns /\ ~Undefined(insn)
  /\ need \in Needs
  /\ out = Outcome(insn.dst, insn.f)
  /\ pc = 0
  /\ cpu = Loaded(insn)

\* The interpreter executes the instruction.
Interpret ==
  /\ pc = 0
  /\ out' = Interpreted(insn)
  /\ pc' = 1
  /\ UNCHANGED <<insn, need, cpu>>

\* IA32_jit executes a word; a division fault stops it.
ExecuteWord ==
  /\ pc \in 1 .. Len(Compiled(insn, need)) /\ cpu.fault = "none"
  /\ cpu' = Performed(Compiled(insn, need)[pc], cpu, insn)
  /\ pc' = pc + 1
  /\ UNCHANGED <<insn, need, out>>

Next == Interpret \/ ExecuteWord

Spec == Init /\ [][Next]_vars

---------------------------------------------------------------------------
\* Where the code is known not to do what the instruction promises, and in
\* which flags: a rotation by 0 sets CF; the flags of a sum of a register with
\* itself are computed from the result; CF and OF of a truncated product
\* compare signs only and miss some products that do not fit; a double shift by
\* an immediate does not mask it, and by more than the width does nothing (the
\* result is undefined then); an 8-bit signed division forgets AH.
DeviantFlags(x) ==
  CASE x.op \in {"ROL", "ROR"} /\ x.n % 32 = 0 -> {"CF"}
    [] x.op \in {"ADD", "ADC", "SUB", "SBB"} /\ x.same -> {"OF", "AF", "CF"}
    [] x.op = "IMUL2" /\ "CF" \in Reference(x).f -> {"CF", "OF"}
    [] OTHER -> {}

DeviantResult(x) ==
  \/ x.op \in DoubleShifts /\ (DoubleCount(x) > x.w \/ (x.imm /\ x.n = 32))
  \/ x.op = "IDIV8" /\ x.dst # Word(Signed(x.dst \cap Positions(x.w), x.w) % 2 ^ (2 * x.w), 2 * x.w)

\* The macros of the interpreter leave what the instructions promise: a shift
\* by n what n shifts by one bit leave, sums the flags of their carries,
\* quotients that multiply back, whatever the count, the width and the flags
\* found; the deviations named above excepted.
MatchesArithmetic ==
  pc > 0 /\ ~DeviantResult(insn) =>
    LET ref == Reference(insn)
    IN /\ out.dst = ref.dst /\ out.fault = ref.fault
       /\ Xor(out.f, ref.f) \subseteq DeviantFlags(insn)

\* Flags the words compute unlike the macros: those of the aliased sums, which
\* the words get right; SF of the one-operand IMUL, which they never write; SF,
\* ZF and PF of a 16-bit double shift by more than 16, which they do write.
TranslatedUnlike(x) ==
  CASE x.op \in {"ADD", "ADC", "SUB", "SBB"} /\ x.same -> {"OF", "AF", "CF"}
    [] x.op = "IMUL1" -> {"SF"}
    [] x.op \in DoubleShifts /\ x.w = 16 /\ DoubleCount(x) > 16 -> {"SF", "ZF", "PF"}
    [] OTHER -> {}

\* Once its words have run, the translation has left the same word, the same
\* fault and the same flags, of those somebody reads, as the interpreter:
\* whichever flag words were left out.
JitAgrees ==
  pc > Len(Compiled(insn, need)) \/ cpu.fault # "none" =>
    /\ cpu.dst = out.dst /\ cpu.fault = out.fault
    /\ Xor(cpu.f, out.f) \cap need \subseteq TranslatedUnlike(insn)

=============================================================================
