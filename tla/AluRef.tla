------------------------------- MODULE AluRef -------------------------------
(***************************************************************************)
(* What the integer instructions promise: shifts and rotations as one bit  *)
(* at a time, sums by their chain of carries, differences by their chain   *)
(* of borrows, products and quotients as numbers.                          *)
(*                                                                         *)
(* A machine word is the set of its bit positions: {0, 7} is 0x81.  The C  *)
(* operators & | ^ ~ << >> become set operations, so that words keep their *)
(* 8, 16 and 32 bits, which the integers of a model checker do not have.   *)
(***************************************************************************)
EXTENDS Integers, FiniteSets, FiniteSetsExt

Positions(w) == 0 .. w - 1

\* DST<<N and DST>>N of an unsigned word, and the shift of a signed one.
Shl(x, n, w) == {i \in Positions(w) : i - n \in x}
Shr(x, n) == {i - n : i \in {j \in x : j >= n}}
Sar(x, n, w) ==
  Shr(x, n) \cup (IF w - 1 \in x THEN {i \in Positions(w) : i >= w - n} ELSE {})

Not(x, w) == Positions(w) \ x
Xor(x, y) == (x \ y) \cup (y \ x)

\* A bit on its own, to be shifted into place.
Bit(b, i) == IF b THEN {i} ELSE {}

\* PFLAG: an even number of bits in the low byte.
Parity(x) == Cardinality(x \cap Positions(8)) % 2 = 0

\* Ripple[i]: the carry into bit i of x + y + c.
Ripple(x, y, c, w) ==
  LET carry[i \in 0 .. w] ==
        IF i = 0 THEN c
        ELSE Cardinality({s \in {1, 2} : i - 1 \in <<x, y>>[s]}) + (IF carry[i - 1] THEN 1 ELSE 0) >= 2
  IN carry

\* The C additions and subtractions of unsigned words.
Plus(x, y, c, w) ==
  LET carry == Ripple(x, y, c, w)
  IN Xor(Xor(x, y), {i \in Positions(w) : carry[i]})
Minus(x, y, w) == Plus(x, Not(y, w), TRUE, w)

\* A word as a number, unsigned and signed, and a number as a word.
Unsigned(x) == MapThenSumSet(LAMBDA i : 2 ^ i, x)
Signed(x, w) == Unsigned(x) - (IF w - 1 \in x THEN 2 ^ w ELSE 0)
Word(n, w) == {i \in Positions(w) : (n \div 2 ^ i) % 2 = 1}

\* One bit of shift or rotation of a word v with carry c.
OneBit(op, v, c, w) ==
  LET top == w - 1 \in v
      low == 0 \in v
  IN CASE op = "SHL" -> [v |-> Shl(v, 1, w), c |-> top]
       [] op = "ROL" -> [v |-> Shl(v, 1, w) \cup Bit(top, 0), c |-> top]
       [] op = "RCL" -> [v |-> Shl(v, 1, w) \cup Bit(c, 0), c |-> top]
       [] op = "SHR" -> [v |-> Shr(v, 1), c |-> low]
       [] op = "SAR" -> [v |-> Shr(v, 1) \cup Bit(top, w - 1), c |-> low]
       [] op = "ROR" -> [v |-> Shr(v, 1) \cup Bit(low, w - 1), c |-> low]
       [] op = "RCR" -> [v |-> Shr(v, 1) \cup Bit(c, w - 1), c |-> low]

\* n bits of it.
ManyBits(op, v, c, n, w) ==
  LET after[k \in 0 .. n] ==
        IF k = 0 THEN [v |-> v, c |-> c]
        ELSE LET before == after[k - 1] IN OneBit(op, before.v, before.c, w)
  IN after[n]

\* The chain of borrows of x - y - c: Borrow[i] is borrowed from bit i.
Borrow(x, y, c, w) ==
  LET borrow[i \in 0 .. w] ==
        IF i = 0 THEN c
        ELSE \/ i - 1 \notin x /\ i - 1 \in y
             \/ (i - 1 \notin x \/ i - 1 \in y) /\ borrow[i - 1]
  IN borrow

\* SF, ZF and PF of a result.
ResultFlags(r, w) ==
  {g \in {"SF", "ZF", "PF"} :
     \/ g = "SF" /\ w - 1 \in r
     \/ g = "ZF" /\ r = {}
     \/ g = "PF" /\ Parity(r)}

\* CF, OF and AF from the carries or the borrows of a sum or a difference.
ChainFlags(chain, w) ==
  {g \in {"CF", "OF", "AF"} :
     \/ g = "CF" /\ chain[w]
     \/ g = "OF" /\ chain[w] # chain[w - 1]
     \/ g = "AF" /\ chain[4]}

\* Flags f with those of s replaced by the ones g has.
Replaced(f, s, g) == (f \ s) \cup (g \cap s)

Arithmetic == {"CF", "OF", "AF", "SF", "ZF", "PF"}
Shifts == {"SHL", "SHR", "SAR"}
Rotations == {"ROL", "ROR", "RCL", "RCR"}
DoubleShifts == {"SHLD", "SHRD"}

\* What x has to leave: word, flags and fault.
Outcome(v, f) == [dst |-> v, f |-> f, fault |-> "none"]
Faults(x) == [dst |-> x.dst, f |-> x.f, fault |-> "DE"]

RefShift(x) ==
  LET n == x.n % 32
      r == ManyBits(x.op, x.dst, "CF" \in x.f, n, x.w)
      top == x.w - 1 \in r.v
      over == CASE x.op \in {"SHL", "ROL", "RCL"} -> top # r.c
                [] x.op = "SHR" -> x.w - 1 \in x.dst
                [] x.op = "SAR" -> FALSE
                [] x.op \in {"ROR", "RCR"} -> top # (x.w - 2 \in r.v)
      set == (IF n = 0 THEN {} ELSE {"CF"} \cup (IF x.op \in Shifts THEN {"SF", "ZF", "PF"} ELSE {}))
             \cup (IF n = 1 THEN {"OF"} ELSE {})
      got == (IF r.c THEN {"CF"} ELSE {}) \cup (IF over THEN {"OF"} ELSE {}) \cup ResultFlags(r.v, x.w)
  IN Outcome(r.v, Replaced(x.f, set, got))

\* A double shift moves the concatenation of both words.
RefDouble(x) ==
  LET n == x.n % 32
      w == x.w
      high == {i + w : i \in x.dst} \cup x.src
      low == x.dst \cup {i + w : i \in x.src}
      r == IF x.op = "SHLD" THEN ManyBits("SHL", high, FALSE, n, 2 * w)
           ELSE ManyBits("SHR", low, FALSE, n, 2 * w)
      v == IF x.op = "SHLD" THEN Shr(r.v, w) ELSE r.v \cap Positions(w)
      got == (IF r.c THEN {"CF"} ELSE {})
             \cup (IF (w - 1 \in v) # (w - 1 \in x.dst) THEN {"OF"} ELSE {})
             \cup ResultFlags(v, w)
      set == (IF n = 0 THEN {} ELSE {"CF", "SF", "ZF", "PF"}) \cup (IF n = 1 THEN {"OF"} ELSE {})
  IN Outcome(v, Replaced(x.f, set, got))

Additions == {"ADD", "ADC", "INC"}
Subtractions == {"SUB", "SBB", "CMP", "DEC", "NEG"}

\* INC and DEC have an operand 1 and keep CF; NEG subtracts from 0; only ADC
\* and SBB take the carry; CMP keeps its operand.
RefSum(x) ==
  LET a == IF x.op = "NEG" THEN {} ELSE x.dst
      b == CASE x.op \in {"INC", "DEC"} -> {0} [] x.op = "NEG" -> x.dst [] OTHER -> x.src
      c == x.op \in {"ADC", "SBB"} /\ "CF" \in x.f
      chain == IF x.op \in Additions THEN Ripple(a, b, c, x.w) ELSE Borrow(a, b, c, x.w)
      r == Xor(Xor(a, b), {i \in Positions(x.w) : chain[i]})
      set == IF x.op \in {"INC", "DEC"} THEN Arithmetic \ {"CF"} ELSE Arithmetic
  IN Outcome(IF x.op = "CMP" THEN x.dst ELSE r,
             Replaced(x.f, set, ChainFlags(chain, x.w) \cup ResultFlags(r, x.w)))

Products == {"MUL", "IMUL1", "IMUL2"}

\* The double-width product (IMUL2 keeps its low half); CF and OF say that
\* the high half is more than the extension of the low one.
RefProduct(x) ==
  LET w == x.w
      p == IF x.op = "MUL" THEN Unsigned(x.dst) * Unsigned(x.src)
           ELSE Signed(x.dst, w) * Signed(x.src, w)
      low == Word(p % 2 ^ w, w)
      fits == p = IF x.op = "MUL" THEN Unsigned(low) ELSE Signed(low, w)
      set == {"CF", "OF"} \cup (IF x.op = "MUL" THEN {} ELSE {"SF"})
      got == (IF fits THEN {} ELSE {"CF", "OF"}) \cup (ResultFlags(low, w) \cap {"SF"})
  IN Outcome(IF x.op = "IMUL2" THEN low ELSE Word(p % 2 ^ (2 * w), 2 * w), Replaced(x.f, set, got))

Divisions == {"DIV", "IDIV", "IDIV8"}

\* x.dst is the double-width dividend; the quotient replaces its low half and
\* the remainder, which has the sign of the dividend, its high half.
RefDivision(x) ==
  LET w == x.w
      signed == x.op # "DIV"
      n == IF signed THEN Signed(x.dst, 2 * w) ELSE Unsigned(x.dst)
      d == IF signed THEN Signed(x.src, w) ELSE Unsigned(x.src)
      range == IF signed THEN -(2 ^ (w - 1)) .. 2 ^ (w - 1) - 1 ELSE 0 .. 2 ^ w - 1
      Exact(q, r) ==
        /\ n = q * d + r
        /\ \/ r = 0
           \/ n > 0 /\ r \in 1 .. (IF d > 0 THEN d ELSE -d) - 1
           \/ n < 0 /\ -r \in 1 .. (IF d > 0 THEN d ELSE -d) - 1
      pairs == {q \in range : Exact(q, n - q * d)}
  IN IF d = 0 \/ pairs = {} THEN Faults(x)
     ELSE LET q == CHOOSE p \in pairs : TRUE
              r == n - q * d
          IN Outcome(Word(q % 2 ^ w, w) \cup {i + w : i \in Word(r % 2 ^ w, w)}, x.f)

Reference(x) ==
  CASE x.op \in Shifts \cup Rotations -> RefShift(x)
    [] x.op \in DoubleShifts -> RefDouble(x)
    [] x.op \in Additions \cup Subtractions -> RefSum(x)
    [] x.op \in Products -> RefProduct(x)
    [] x.op \in Divisions -> RefDivision(x)

=============================================================================
