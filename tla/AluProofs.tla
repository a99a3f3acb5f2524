----------------------------- MODULE AluProofs -----------------------------
(***************************************************************************)
(* The arithmetic of both engines, for words of every width and every      *)
(* count.  First the macros against the reference: carries and borrows as  *)
(* chains of bits (sums and differences), a closed form of "n times by one *)
(* bit" (shifts and rotations), then MacrosMatchArithmetic.  Then the      *)
(* words of the translator against the macros: what each word does to the  *)
(* registers and to one flag, what a list with some flag words left out    *)
(* reaches, one lemma for the list of each instruction, the invariant that *)
(* says how far a list has run, and TranslationAgrees.                     *)
(***************************************************************************)
EXTENDS Alu, FiniteSetTheorems, SequenceTheorems, WellFoundedInduction, TLAPS

\* A set of numbers has a least element.
LEMMA LeastNumber ==
  ASSUME NEW T, T \subseteq Nat, T # {}
  PROVE  \E m \in T : \A n \in T : m <= n
<1> DEFINE R == OpToRel(<, Nat)
<1>1. IsWellFoundedOn(R, Nat) BY NatLessThanWellFounded
<1>2. \A x, y \in Nat : y < x => <<y, x>> \in R BY DEF OpToRel
<1> HIDE DEF R
<1>3. PICK m \in T : \A n \in T : ~(<<n, m>> \in R) BY <1>1, WFMin
<1>4. ASSUME NEW n \in T PROVE m <= n
  <2>1. m \in Nat /\ n \in Nat OBVIOUS
  <2>2. ~(n < m) BY <1>2, <1>3, <2>1
  <2> QED BY <2>1, <2>2
<1> QED BY <1>4

---------------------------------------------------------------------------
(* Carries and borrows.                                                    *)

\* A chain g begins with c; bit i of G begins it again, a bit that is not in P
\* ends it.
IsChain(g, G, P, c, w) ==
  g = [i \in 0 .. w |-> IF i = 0 THEN c ELSE i - 1 \in G \/ (i - 1 \in P /\ g[i - 1])]

\* Such a chain exists: at bit i it is the last beginning that nothing has ended.
LEMMA ChainExists ==
  ASSUME NEW G, NEW P, NEW c \in BOOLEAN, NEW w \in Nat
  PROVE  \E g : IsChain(g, G, P, c, w)
<1> DEFINE At(i) == \/ \E j \in 0 .. i - 1 : j \in G /\ \A k \in j + 1 .. i - 1 : k \in P
                    \/ c /\ \A k \in 0 .. i - 1 : k \in P
           g == [i \in 0 .. w |-> At(i)]
<1>1. At(0) = c
  <2>1. 0 .. 0 - 1 = {} OBVIOUS
  <2> QED BY <2>1
<1>2. ASSUME NEW i \in 1 .. w
      PROVE  At(i) <=> (i - 1 \in G \/ (i - 1 \in P /\ At(i - 1)))
  <2>1. i - 1 \in Nat /\ i \in Nat OBVIOUS
  <2>2. \A k \in 0 .. i - 1 : k = i - 1 \/ k \in 0 .. i - 1 - 1 BY <2>1
  <2>3. \A k \in 0 .. i - 1 - 1 : k \in 0 .. i - 1 BY <2>1
  <2>4. \A j \in 0 .. i - 1 : \A k \in j + 1 .. i - 1 : k = i - 1 \/ k \in j + 1 .. i - 1 - 1
    BY <2>1
  <2>5. \A j \in 0 .. i - 1 - 1 : i - 1 \in j + 1 .. i - 1 BY <2>1
  <2>6. \A j \in 0 .. i - 1 - 1 : \A k \in j + 1 .. i - 1 - 1 : k \in j + 1 .. i - 1 BY <2>1
  <2>7. i - 1 + 1 .. i - 1 = {} BY <2>1
  <2>8. i - 1 \in 0 .. i - 1 BY <2>1
  <2>9. ASSUME At(i) PROVE i - 1 \in G \/ (i - 1 \in P /\ At(i - 1))
    <3>1. CASE c /\ \A k \in 0 .. i - 1 : k \in P BY <3>1, <2>3, <2>8
    <3>2. CASE \E j \in 0 .. i - 1 : j \in G /\ \A k \in j + 1 .. i - 1 : k \in P
      <4>1. PICK j \in 0 .. i - 1 : j \in G /\ \A k \in j + 1 .. i - 1 : k \in P BY <3>2
      <4>2. CASE j = i - 1 BY <4>1, <4>2
      <4>3. CASE j \in 0 .. i - 1 - 1 BY <4>1, <4>3, <2>5, <2>6
      <4> QED BY <4>2, <4>3, <2>2
    <3> QED BY <2>9, <3>1, <3>2
  <2>10. ASSUME i - 1 \in G \/ (i - 1 \in P /\ At(i - 1)) PROVE At(i)
    <3>1. CASE i - 1 \in G BY <3>1, <2>7, <2>8
    <3>2. CASE i - 1 \in P /\ At(i - 1)
      <4>1. CASE c /\ \A k \in 0 .. i - 1 - 1 : k \in P BY <4>1, <3>2, <2>2
      <4>2. CASE \E j \in 0 .. i - 1 - 1 : j \in G /\ \A k \in j + 1 .. i - 1 - 1 : k \in P
        BY <4>2, <3>2, <2>3, <2>4
      <4> QED BY <3>2, <4>1, <4>2
    <3> QED BY <2>10, <3>1, <3>2
  <2> QED BY <2>9, <2>10
<1> HIDE DEF At
<1>3. \A i \in 1 .. w : i - 1 \in 0 .. w /\ i # 0 OBVIOUS
<1>4. \A i \in 0 .. w : i # 0 => i \in 1 .. w OBVIOUS
<1>5. \A i \in 0 .. w : At(i) \in BOOLEAN BY DEF At
<1>6. \A i \in 0 .. w : g[i] = IF i = 0 THEN c ELSE i - 1 \in G \/ (i - 1 \in P /\ g[i - 1])
  BY <1>1, <1>2, <1>3, <1>4, <1>5
<1>7. g = [i \in 0 .. w |-> IF i = 0 THEN c ELSE i - 1 \in G \/ (i - 1 \in P /\ g[i - 1])]
  BY <1>6
<1> QED BY <1>7 DEF IsChain

\* What bit i adds to the carry into it.
LEMMA Carried ==
  ASSUME NEW x, NEW y, NEW i, NEW b \in BOOLEAN
  PROVE  (Cardinality({s \in {1, 2} : i \in <<x, y>>[s]}) + (IF b THEN 1 ELSE 0) >= 2)
           <=> (i \in x \cap y \/ (i \in x \cup y /\ b))
<1>1. CASE i \in x /\ i \in y
  <2>1. {s \in {1, 2} : i \in <<x, y>>[s]} = {1} \cup {2} BY <1>1
  <2>2. IsFiniteSet({1}) /\ Cardinality({1}) = 1 BY FS_Singleton
  <2>3. Cardinality({1} \cup {2}) = 2 BY <2>2, FS_AddElement
  <2> QED BY <2>1, <2>3, <1>1
<1>2. CASE i \in x /\ i \notin y
  <2>1. {s \in {1, 2} : i \in <<x, y>>[s]} = {1} BY <1>2
  <2>2. Cardinality({1}) = 1 BY FS_Singleton
  <2> QED BY <2>1, <2>2, <1>2
<1>3. CASE i \notin x /\ i \in y
  <2>1. {s \in {1, 2} : i \in <<x, y>>[s]} = {2} BY <1>3
  <2>2. Cardinality({2}) = 1 BY FS_Singleton
  <2> QED BY <2>1, <2>2, <1>3
<1>4. CASE i \notin x /\ i \notin y
  <2>1. {s \in {1, 2} : i \in <<x, y>>[s]} = {} BY <1>4
  <2>2. Cardinality({}) = 0 BY FS_EmptySet
  <2> QED BY <2>1, <2>2, <1>4
<1> QED BY <1>1, <1>2, <1>3, <1>4

\* The recursive definitions of the carries and of the borrows have a solution.
LEMMA RippleIsChain ==
  ASSUME NEW x, NEW y, NEW c \in BOOLEAN, NEW w \in Nat
  PROVE  IsChain(Ripple(x, y, c, w), x \cap y, x \cup y, c, w)
<1> DEFINE Sum(g, i) == Cardinality({s \in {1, 2} : i - 1 \in <<x, y>>[s]})
                          + (IF g[i - 1] THEN 1 ELSE 0) >= 2
           Carries(g) == g = [i \in 0 .. w |-> IF i = 0 THEN c ELSE Sum(g, i)]
           r == Ripple(x, y, c, w)
<1>1. ASSUME NEW g, Carries(g) PROVE Carries(r)
  BY <1>1 DEF Ripple
<1>2. ASSUME NEW g, \A i \in 0 .. w : g[i] \in BOOLEAN, NEW i \in 0 .. w, i # 0
      PROVE  Sum(g, i) <=> (i - 1 \in x \cap y \/ (i - 1 \in x \cup y /\ g[i - 1]))
  <2>1. i - 1 \in 0 .. w BY <1>2
  <2>2. g[i - 1] \in BOOLEAN BY <2>1, <1>2
  <2> QED BY <2>2, Carried
<1> HIDE DEF r
<1>3. ASSUME NEW g, \A i \in 0 .. w : g[i] \in BOOLEAN
      PROVE  [i \in 0 .. w |-> IF i = 0 THEN c ELSE Sum(g, i)]
               = [i \in 0 .. w |-> IF i = 0 THEN c
                   ELSE i - 1 \in x \cap y \/ (i - 1 \in x \cup y /\ g[i - 1])]
  <2> DEFINE Next1(i) == i - 1 \in x \cap y \/ (i - 1 \in x \cup y /\ g[i - 1])
             S1(i) == Sum(g, i)
  <2>1. \A i \in 0 .. w : i # 0 => (S1(i) <=> Next1(i)) BY <1>3, <1>2
  <2>2. \A i \in 0 .. w : S1(i) \in BOOLEAN /\ Next1(i) \in BOOLEAN OBVIOUS
  <2> HIDE DEF S1, Next1
  <2>3. [i \in 0 .. w |-> IF i = 0 THEN c ELSE S1(i)] = [i \in 0 .. w |-> IF i = 0 THEN c ELSE Next1(i)]
    BY <2>1, <2>2
  <2> QED BY <2>3 DEF S1, Next1
<1>4. PICK g : IsChain(g, x \cap y, x \cup y, c, w) BY ChainExists
<1>5. \A i \in 0 .. w : g[i] \in BOOLEAN BY <1>4 DEF IsChain
<1>6. Carries(g) BY <1>3, <1>4, <1>5 DEF IsChain
<1>7. Carries(r) BY <1>1, <1>6
<1>8. \A i \in 0 .. w : r[i] \in BOOLEAN
  <2>1. \A i \in 0 .. w : r[i] = IF i = 0 THEN c ELSE Sum(r, i) BY <1>7
  <2>2. \A i \in 0 .. w : Sum(r, i) \in BOOLEAN OBVIOUS
  <2> HIDE DEF Sum
  <2> QED BY <2>1, <2>2
<1>9. r = [i \in 0 .. w |-> IF i = 0 THEN c
                   ELSE i - 1 \in x \cap y \/ (i - 1 \in x \cup y /\ r[i - 1])]
  BY <1>3, <1>7, <1>8
<1> QED BY <1>9 DEF IsChain, r

\* So is the borrow of a difference.
LEMMA BorrowIsChain ==
  ASSUME NEW x, NEW y, NEW c \in BOOLEAN, NEW w \in Nat
  PROVE  IsChain(Borrow(x, y, c, w), y \ x, (0 .. w) \ (x \ y), c, w)
<1> DEFINE Lent(g, i) == \/ i - 1 \notin x /\ i - 1 \in y
                         \/ (i - 1 \notin x \/ i - 1 \in y) /\ g[i - 1]
           Borrows(g) == g = [i \in 0 .. w |-> IF i = 0 THEN c ELSE Lent(g, i)]
           b == Borrow(x, y, c, w)
           P == (0 .. w) \ (x \ y)
<1>1. ASSUME NEW g, Borrows(g) PROVE Borrows(b)
  BY <1>1 DEF Borrow
<1> HIDE DEF b
<1>2. ASSUME NEW g
      PROVE  [i \in 0 .. w |-> IF i = 0 THEN c ELSE Lent(g, i)]
               = [i \in 0 .. w |-> IF i = 0 THEN c ELSE i - 1 \in y \ x \/ (i - 1 \in P /\ g[i - 1])]
  <2>1. \A i \in 0 .. w : i # 0 => i - 1 \in 0 .. w OBVIOUS
  <2>2. \A i \in 0 .. w : i # 0 => Lent(g, i) = (i - 1 \in y \ x \/ (i - 1 \in P /\ g[i - 1]))
    BY <2>1
  <2> DEFINE L(i) == Lent(g, i)
             N(i) == i - 1 \in y \ x \/ (i - 1 \in P /\ g[i - 1])
  <2>3. \A i \in 0 .. w : i # 0 => L(i) = N(i) BY <2>2
  <2> HIDE DEF L, N
  <2>4. [i \in 0 .. w |-> IF i = 0 THEN c ELSE L(i)] = [i \in 0 .. w |-> IF i = 0 THEN c ELSE N(i)]
    BY <2>3
  <2> QED BY <2>4 DEF L, N
<1>3. PICK g : IsChain(g, y \ x, P, c, w) BY ChainExists
<1>4. Borrows(g) BY <1>2, <1>3 DEF IsChain
<1>5. Borrows(b) BY <1>1, <1>4
<1> QED BY <1>2, <1>5 DEF IsChain, b

\* A chain, a chain of carries and a chain of borrows, bit by bit.
ChainRule(g, G, P, c, w) ==
  /\ g[0] = c
  /\ \A i \in 0 .. w : g[i] \in BOOLEAN
  /\ \A i \in 0 .. w - 1 : g[i + 1] = (i \in G \/ (i \in P /\ g[i]))

CarryRule(g, x, y, c, w) ==
  /\ g[0] = c
  /\ \A i \in 0 .. w : g[i] \in BOOLEAN
  /\ \A i \in 0 .. w - 1 : g[i + 1] = ((i \in x /\ i \in y) \/ ((i \in x \/ i \in y) /\ g[i]))

BorrowRule(g, x, y, c, w) ==
  /\ g[0] = c
  /\ \A i \in 0 .. w : g[i] \in BOOLEAN
  /\ \A i \in 0 .. w - 1 : g[i + 1] = ((i \notin x /\ i \in y) \/ ((i \notin x \/ i \in y) /\ g[i]))

\* What the bits of such a chain are, one position at a time.
LEMMA ChainBits ==
  ASSUME NEW G, NEW P, NEW c \in BOOLEAN, NEW w \in Nat, NEW g, IsChain(g, G, P, c, w)
  PROVE  ChainRule(g, G, P, c, w)
<1>1. \A i \in 0 .. w : g[i] = IF i = 0 THEN c ELSE i - 1 \in G \/ (i - 1 \in P /\ g[i - 1])
  BY DEF IsChain
<1>2. g[0] = c BY <1>1
<1>3. \A i \in 0 .. w : g[i] \in BOOLEAN BY <1>1
<1>4. ASSUME NEW i \in 0 .. w - 1 PROVE g[i + 1] = (i \in G \/ (i \in P /\ g[i]))
  <2>1. i + 1 \in 0 .. w /\ i + 1 # 0 /\ i + 1 - 1 = i OBVIOUS
  <2> QED BY <2>1, <1>1
<1> QED BY <1>2, <1>3, <1>4 DEF ChainRule

\* The carry into every position.
LEMMA RippleBits ==
  ASSUME NEW w \in Nat, NEW x, NEW y, NEW c \in BOOLEAN
  PROVE  CarryRule(Ripple(x, y, c, w), x, y, c, w)
<1>1. PICK g : g = Ripple(x, y, c, w) OBVIOUS
<1>2. ChainRule(g, x \cap y, x \cup y, c, w) BY <1>1, RippleIsChain, ChainBits
<1>3. CarryRule(g, x, y, c, w) BY <1>2 DEF ChainRule, CarryRule
<1> QED BY <1>1, <1>3

\* The borrow of every position.
LEMMA BorrowBits ==
  ASSUME NEW w \in Nat, NEW x, NEW y, NEW c \in BOOLEAN
  PROVE  BorrowRule(Borrow(x, y, c, w), x, y, c, w)
<1>1. PICK g : g = Borrow(x, y, c, w) OBVIOUS
<1>2. ChainRule(g, y \ x, (0 .. w) \ (x \ y), c, w) BY <1>1, BorrowIsChain, ChainBits
<1>3. \A i \in 0 .. w - 1 : i \in 0 .. w OBVIOUS
<1>4. BorrowRule(g, x, y, c, w) BY <1>2, <1>3 DEF ChainRule, BorrowRule
<1> QED BY <1>1, <1>4

\* x - y - c borrows where x + ~y + ~c does not carry.
LEMMA BorrowIsNoCarry ==
  ASSUME NEW w \in Nat, NEW x, NEW y, NEW c \in BOOLEAN, NEW i \in 0 .. w
  PROVE  Borrow(x, y, c, w)[i] = ~ Ripple(x, Not(y, w), ~c, w)[i]
<1>1. PICK b : b = Borrow(x, y, c, w) OBVIOUS
<1>2. PICK r : r = Ripple(x, Not(y, w), ~c, w) OBVIOUS
<1> DEFINE T == {k \in 0 .. w : b[k] # ~ r[k]}
<1>3. BorrowRule(b, x, y, c, w) BY <1>1, BorrowBits
<1>4. CarryRule(r, x, Not(y, w), ~c, w)
  <2>1. (~c) \in BOOLEAN OBVIOUS
  <2> QED BY <2>1, <1>2, RippleBits
<1>5. \A k \in 0 .. w - 1 : k \in Not(y, w) <=> k \notin y BY DEF Not, Positions
<1> SUFFICES ASSUME T # {} PROVE FALSE
  BY <1>1, <1>2
<1>6. T \subseteq Nat OBVIOUS
<1> HIDE DEF T
<1>7. PICK m \in T : \A k \in T : m <= k BY <1>6, LeastNumber
<1>8. m \in 0 .. w /\ b[m] # ~ r[m] BY DEF T
<1>9. b[0] = ~ r[0] BY <1>3, <1>4 DEF BorrowRule, CarryRule
<1>10. m # 0 BY <1>8, <1>9
<1>11. m - 1 \in 0 .. w /\ m - 1 \in 0 .. w - 1 /\ m - 1 + 1 = m /\ ~(m <= m - 1) BY <1>8, <1>10
<1>12. b[m - 1] = ~ r[m - 1] BY <1>7, <1>11 DEF T
<1>13. b[m - 1] \in BOOLEAN /\ r[m - 1] \in BOOLEAN BY <1>3, <1>4, <1>11 DEF BorrowRule, CarryRule
<1>14. b[m] = ((m - 1 \notin x /\ m - 1 \in y) \/ ((m - 1 \notin x \/ m - 1 \in y) /\ b[m - 1]))
  BY <1>3, <1>11 DEF BorrowRule
<1>15. r[m] = ((m - 1 \in x /\ m - 1 \notin y) \/ ((m - 1 \in x \/ m - 1 \notin y) /\ r[m - 1]))
  BY <1>4, <1>5, <1>11 DEF CarryRule
<1> QED BY <1>8, <1>12, <1>13, <1>14, <1>15

---------------------------------------------------------------------------
(* Sums and differences.                                                   *)

\* A sum or a difference bit by bit: that of both bits and of the chain.
Digits(r, g, x, y, w) ==
  /\ r \subseteq Positions(w)
  /\ \A i \in Positions(w) : i \in r <=> ((i \in x) # (i \in y)) # g[i]

\* Every bit of a sum, from its carry.
LEMMA PlusBits ==
  ASSUME NEW w \in Nat, NEW x \in SUBSET Positions(w), NEW y \in SUBSET Positions(w), NEW c \in BOOLEAN
  PROVE  Digits(Plus(x, y, c, w), Ripple(x, y, c, w), x, y, w)
<1>1. PICK g : g = Ripple(x, y, c, w) OBVIOUS
<1>2. CarryRule(g, x, y, c, w) BY <1>1, RippleBits
<1>3. Plus(x, y, c, w) = Xor(Xor(x, y), {i \in Positions(w) : g[i]}) BY <1>1 DEF Plus
<1>4. \A i \in Positions(w) : g[i] \in BOOLEAN BY <1>2 DEF CarryRule, Positions
<1>5. Digits(Xor(Xor(x, y), {i \in Positions(w) : g[i]}), g, x, y, w) BY <1>4 DEF Xor, Digits
<1> QED BY <1>1, <1>3, <1>5

\* The C difference is the one of the borrows, with x + ~y + 1 for x - y.
LEMMA MinusBits ==
  ASSUME NEW w \in Nat, NEW x \in SUBSET Positions(w), NEW y \in SUBSET Positions(w), NEW c \in BOOLEAN
  PROVE  Digits(Plus(x, Not(y, w), ~c, w), Borrow(x, y, c, w), x, y, w)
<1>1. PICK g : g = Ripple(x, Not(y, w), ~c, w) OBVIOUS
<1>2. PICK b : b = Borrow(x, y, c, w) OBVIOUS
<1>3. PICK r : r = Plus(x, Not(y, w), ~c, w) OBVIOUS
<1>4. (~c) \in BOOLEAN /\ Not(y, w) \in SUBSET Positions(w) BY DEF Not
<1>5. Digits(r, g, x, Not(y, w), w) BY <1>1, <1>3, <1>4, PlusBits
<1>6. \A i \in Positions(w) : b[i] = ~ g[i] BY <1>1, <1>2, BorrowIsNoCarry DEF Positions
<1>7. \A i \in Positions(w) : g[i] \in BOOLEAN
  <2>1. CarryRule(g, x, Not(y, w), ~c, w) BY <1>1, <1>4, RippleBits
  <2> QED BY <2>1 DEF CarryRule, Positions
<1>8. Digits(r, b, x, y, w) BY <1>5, <1>6, <1>7 DEF Digits, Not
<1> QED BY <1>2, <1>3, <1>8

\* Digits determine the word.
LEMMA DigitsAreXor ==
  ASSUME NEW w \in Nat, NEW x \in SUBSET Positions(w), NEW y \in SUBSET Positions(w), NEW r, NEW g,
         \A i \in Positions(w) : g[i] \in BOOLEAN, Digits(r, g, x, y, w)
  PROVE  r = Xor(Xor(x, y), {i \in Positions(w) : g[i]})
BY DEF Digits, Xor

\* SET_AD_FLAGS finds in the result and the operands the carries of the sum.
LEMMA SumFlags ==
  ASSUME NEW w \in Nat, w > 4, NEW x \in SUBSET Positions(w), NEW y \in SUBSET Positions(w),
         NEW c \in BOOLEAN
  PROVE  AD_Bits(Plus(x, y, c, w), x, y, w) = ChainFlags(Ripple(x, y, c, w), w)
<1>1. PICK g : g = Ripple(x, y, c, w) OBVIOUS
<1>2. PICK r : r = Plus(x, y, c, w) OBVIOUS
<1>3. CarryRule(g, x, y, c, w) BY <1>1, RippleBits
<1>4. Digits(r, g, x, y, w) BY <1>1, <1>2, PlusBits
<1>5. w - 1 \in Positions(w) /\ 4 \in Positions(w) /\ w - 1 + 1 = w BY DEF Positions
<1>6. g[w - 1] \in BOOLEAN /\ g[w] \in BOOLEAN /\ g[4] \in BOOLEAN
  BY <1>3 DEF CarryRule
<1>7. g[w] = ((w - 1 \in x /\ w - 1 \in y) \/ ((w - 1 \in x \/ w - 1 \in y) /\ g[w - 1]))
  BY <1>3, <1>5 DEF CarryRule, Positions
<1>8. w - 1 \in r <=> ((w - 1 \in x) # (w - 1 \in y)) # g[w - 1] BY <1>4, <1>5 DEF Digits
<1>9. 4 \in r <=> ((4 \in x) # (4 \in y)) # g[4] BY <1>4, <1>5 DEF Digits
<1>10. w - 1 \in (x \cap y) \cup ((x \cup y) \cap Not(r, w)) <=> g[w]
  BY <1>5, <1>6, <1>7, <1>8 DEF Not
<1>11. w - 1 \in Not(Xor(x, y), w) \cap Xor(x, r) <=> g[w] # g[w - 1]
  BY <1>5, <1>6, <1>7, <1>8 DEF Not, Xor
<1>12. 4 \in Xor(Xor(x, y), r) <=> g[4]
  BY <1>5, <1>6, <1>9 DEF Xor
<1>13. AD_Bits(r, x, y, w) = (IF g[w] # g[w - 1] THEN {"OF"} ELSE {})
                             \cup (IF g[4] THEN {"AF"} ELSE {}) \cup (IF g[w] THEN {"CF"} ELSE {})
  BY <1>10, <1>11, <1>12 DEF AD_Bits
<1>14. ChainFlags(g, w) = (IF g[w] # g[w - 1] THEN {"OF"} ELSE {})
                          \cup (IF g[4] THEN {"AF"} ELSE {}) \cup (IF g[w] THEN {"CF"} ELSE {})
  BY <1>6 DEF ChainFlags
<1> QED BY <1>1, <1>2, <1>13, <1>14

\* SET_SB_FLAGS finds in them the borrows of the difference.
LEMMA DifferenceFlags ==
  ASSUME NEW w \in Nat, w > 4, NEW x \in SUBSET Positions(w), NEW y \in SUBSET Positions(w),
         NEW c \in BOOLEAN
  PROVE  SB_Bits(Plus(x, Not(y, w), ~c, w), x, y, w) = ChainFlags(Borrow(x, y, c, w), w)
<1>1. PICK g : g = Borrow(x, y, c, w) OBVIOUS
<1>2. PICK r : r = Plus(x, Not(y, w), ~c, w) OBVIOUS
<1>3. BorrowRule(g, x, y, c, w) BY <1>1, BorrowBits
<1>4. Digits(r, g, x, y, w) BY <1>1, <1>2, MinusBits
<1>5. w - 1 \in Positions(w) /\ 4 \in Positions(w) /\ w - 1 + 1 = w BY DEF Positions
<1>6. g[w - 1] \in BOOLEAN /\ g[w] \in BOOLEAN /\ g[4] \in BOOLEAN
  BY <1>3 DEF BorrowRule
<1>7. g[w] = ((w - 1 \notin x /\ w - 1 \in y) \/ ((w - 1 \notin x \/ w - 1 \in y) /\ g[w - 1]))
  BY <1>3, <1>5 DEF BorrowRule, Positions
<1>8. w - 1 \in r <=> ((w - 1 \in x) # (w - 1 \in y)) # g[w - 1] BY <1>4, <1>5 DEF Digits
<1>9. 4 \in r <=> ((4 \in x) # (4 \in y)) # g[4] BY <1>4, <1>5 DEF Digits
<1>10. w - 1 \in (x \cap Not(y, w)) \cup ((x \cup Not(y, w)) \cap Not(r, w)) <=> ~ g[w]
  <2>1. (w - 1 \in Not(y, w) <=> w - 1 \notin y) /\ (w - 1 \in Not(r, w) <=> w - 1 \notin r)
    BY <1>5 DEF Not
  <2>2. CASE w - 1 \in x /\ w - 1 \in y BY <2>1, <2>2, <1>6, <1>7, <1>8
  <2>3. CASE w - 1 \in x /\ w - 1 \notin y BY <2>1, <2>3, <1>6, <1>7, <1>8
  <2>4. CASE w - 1 \notin x /\ w - 1 \in y BY <2>1, <2>4, <1>6, <1>7, <1>8
  <2>5. CASE w - 1 \notin x /\ w - 1 \notin y BY <2>1, <2>5, <1>6, <1>7, <1>8
  <2> QED BY <2>2, <2>3, <2>4, <2>5
<1>11. w - 1 \in Xor(x, y) \cap Xor(x, r) <=> g[w] # g[w - 1]
  BY <1>5, <1>6, <1>7, <1>8 DEF Xor
<1>12. 4 \in Xor(Xor(x, Not(y, w)), r) <=> ~ g[4]
  BY <1>5, <1>6, <1>9 DEF Xor, Not
<1>13. SB_Bits(r, x, y, w) = (IF g[w] # g[w - 1] THEN {"OF"} ELSE {})
                             \cup (IF g[4] THEN {"AF"} ELSE {}) \cup (IF g[w] THEN {"CF"} ELSE {})
  BY <1>6, <1>10, <1>11, <1>12 DEF SB_Bits
<1>14. ChainFlags(g, w) = (IF g[w] # g[w - 1] THEN {"OF"} ELSE {})
                          \cup (IF g[4] THEN {"AF"} ELSE {}) \cup (IF g[w] THEN {"CF"} ELSE {})
  BY <1>6 DEF ChainFlags
<1> QED BY <1>1, <1>2, <1>13, <1>14

\* -y borrows unless y is zero.
LEMMA NegativeBorrows ==
  ASSUME NEW w \in Nat, NEW y \in SUBSET Positions(w)
  PROVE  Borrow({}, y, FALSE, w)[w] <=> y # {}
<1>1. PICK b : b = Borrow({}, y, FALSE, w) OBVIOUS
<1>2. FALSE \in BOOLEAN OBVIOUS
<1>3. BorrowRule(b, {}, y, FALSE, w) BY <1>1, <1>2, BorrowBits
<1>4. /\ ~ b[0]
      /\ \A i \in 0 .. w : b[i] \in BOOLEAN
      /\ \A i \in 0 .. w - 1 : b[i + 1] <=> i \in y \/ b[i]
  BY <1>3 DEF BorrowRule
<1>5. ASSUME b[w] PROVE y # {}
  <2> DEFINE T == {i \in 0 .. w : b[i]}
  <2>1. T \subseteq Nat /\ T # {} BY <1>5
  <2>2. PICK m \in T : \A k \in T : m <= k BY <2>1, LeastNumber
  <2>3. m \in 0 .. w /\ b[m] /\ m # 0 BY <1>4, <2>2
  <2>4. m - 1 \in 0 .. w /\ m - 1 \in 0 .. w - 1 /\ m - 1 + 1 = m /\ ~(m <= m - 1) BY <2>3
  <2>5. ~ b[m - 1] BY <2>2, <2>4
  <2>6. b[m - 1 + 1] <=> m - 1 \in y \/ b[m - 1] BY <1>4, <2>4
  <2> QED BY <2>3, <2>4, <2>5, <2>6
<1>6. ASSUME NEW j \in y PROVE b[w]
  <2> DEFINE T == {i \in j + 1 .. w : ~ b[i]}
  <2>1. j \in 0 .. w - 1 /\ j + 1 \in 0 .. w BY DEF Positions
  <2> SUFFICES ASSUME ~ b[w] PROVE FALSE OBVIOUS
  <2>2. T \subseteq Nat /\ T # {} BY <2>1
  <2>3. PICK m \in T : \A k \in T : m <= k BY <2>2, LeastNumber
  <2>4. m \in j + 1 .. w /\ ~ b[m] BY <2>3
  <2>5. b[j + 1] BY <1>4, <2>1
  <2>6. m # j + 1 BY <2>4, <2>5
  <2>7. m - 1 \in j + 1 .. w /\ m - 1 \in 0 .. w - 1 /\ m - 1 + 1 = m /\ ~(m <= m - 1)
    BY <2>1, <2>4, <2>6
  <2>8. b[m - 1] BY <2>3, <2>7
  <2>9. b[m - 1 + 1] BY <1>4, <2>7, <2>8
  <2> QED BY <2>4, <2>7, <2>9
<1> QED BY <1>1, <1>5, <1>6

\* What MatchesArithmetic says of an outcome o of the instruction x.
Matches(o, x) ==
  LET ref == Reference(x)
  IN /\ o.dst = ref.dst /\ o.fault = ref.fault
     /\ Xor(o.f, ref.f) \subseteq DeviantFlags(x)

\* What the reference asks of a sum or a difference.
LEMMA SumReference ==
  ASSUME NEW x, x.op \in Additions \cup Subtractions
  PROVE  Reference(x) = RefSum(x)
<1>1. x.op \in {"ADD", "ADC", "INC", "SUB", "SBB", "CMP", "DEC", "NEG"}
  BY DEF Additions, Subtractions
<1>2. x.op \notin Shifts \cup Rotations BY <1>1 DEF Shifts, Rotations
<1>3. x.op \notin DoubleShifts BY <1>1 DEF DoubleShifts
<1>4. x.op \notin Products /\ x.op \notin Divisions BY <1>1 DEF Products, Divisions
<1> QED BY <1>2, <1>3, <1>4 DEF Reference

\* A sum leaves what its chain of carries gives, but for the flags of a register
\* added to itself.
LEMMA SumsMatch ==
  ASSUME NEW x, WellFormed(x), x.op \in Additions
  PROVE  Matches(Interpreted(x), x)
<1> DEFINE c == "CF" \in x.f
<1>1. /\ x.w \in Nat /\ x.w > 4 /\ x.dst \in SUBSET Positions(x.w) /\ x.src \in SUBSET Positions(x.w)
      /\ x.same \in BOOLEAN /\ c \in BOOLEAN /\ FALSE \in BOOLEAN /\ {0} \in SUBSET Positions(x.w)
  BY DEF WellFormed, Additions, Divisions, Positions
<1>2. Reference(x) = RefSum(x) BY SumReference
<1>3. x.op \in {"ADD", "ADC"} /\ x.same => DeviantFlags(x) = {"OF", "AF", "CF"}
  BY DEF DeviantFlags
<1>4. \A r, g : Xor(Replaced(x.f, Arithmetic, AD_Bits(r, x.dst, r, x.w) \cup ResultFlags(r, x.w)),
                    Replaced(x.f, Arithmetic, ChainFlags(g, x.w) \cup ResultFlags(r, x.w)))
                  \subseteq {"OF", "AF", "CF"}
  <2>1. \A r : AD_Bits(r, x.dst, r, x.w) \subseteq {"OF", "AF", "CF"} BY DEF AD_Bits
  <2>2. \A g : ChainFlags(g, x.w) \subseteq {"OF", "AF", "CF"} BY DEF ChainFlags
  <2> QED BY <2>1, <2>2 DEF Xor, Replaced
<1>5. CASE x.op = "ADD"
  <2> DEFINE r == Plus(x.dst, x.src, FALSE, x.w)
             g == Ripple(x.dst, x.src, FALSE, x.w)
  <2>1. Interpreted(x) = Outcome(r, Replaced(x.f, Arithmetic,
          AD_Bits(r, x.dst, Reread(x, r), x.w) \cup ResultFlags(r, x.w)))
    BY <1>5 DEF Interpreted, ADD, AD_FLAGS, WithAll
  <2>2. RefSum(x) = Outcome(r, Replaced(x.f, Arithmetic, ChainFlags(g, x.w) \cup ResultFlags(r, x.w)))
    BY <1>5 DEF RefSum, Additions, Plus
  <2>3. AD_Bits(r, x.dst, x.src, x.w) = ChainFlags(g, x.w) BY <1>1, SumFlags
  <2> HIDE DEF r, g
  <2>4. CASE x.same
    <3>1. Reread(x, r) = r BY <2>4 DEF Reread
    <3> QED BY <1>2, <1>3, <1>4, <1>5, <2>1, <2>2, <2>4, <3>1 DEF Matches, Outcome
  <2>5. CASE ~ x.same
    <3>1. Reread(x, r) = x.src BY <2>5 DEF Reread
    <3>2. Interpreted(x) = RefSum(x) BY <2>1, <2>2, <2>3, <3>1
    <3> QED BY <1>2, <3>2 DEF Matches, Xor
  <2> QED BY <2>4, <2>5
<1>6. CASE x.op = "ADC"
  <2> DEFINE r == Plus(x.dst, x.src, c, x.w)
             g == Ripple(x.dst, x.src, c, x.w)
  <2>1. Interpreted(x) = Outcome(r, Replaced(x.f, Arithmetic,
          AD_Bits(r, x.dst, Reread(x, r), x.w) \cup ResultFlags(r, x.w)))
    BY <1>6 DEF Interpreted, ADC, AD_FLAGS, WithAll
  <2>2. RefSum(x) = Outcome(r, Replaced(x.f, Arithmetic, ChainFlags(g, x.w) \cup ResultFlags(r, x.w)))
    BY <1>6 DEF RefSum, Additions, Plus
  <2>3. AD_Bits(r, x.dst, x.src, x.w) = ChainFlags(g, x.w) BY <1>1, SumFlags
  <2> HIDE DEF r, g
  <2>4. CASE x.same
    <3>1. Reread(x, r) = r BY <2>4 DEF Reread
    <3> QED BY <1>2, <1>3, <1>4, <1>6, <2>1, <2>2, <2>4, <3>1 DEF Matches, Outcome
  <2>5. CASE ~ x.same
    <3>1. Reread(x, r) = x.src BY <2>5 DEF Reread
    <3>2. Interpreted(x) = RefSum(x) BY <2>1, <2>2, <2>3, <3>1
    <3> QED BY <1>2, <3>2 DEF Matches, Xor
  <2> QED BY <2>4, <2>5
<1>7. CASE x.op = "INC"
  <2> DEFINE r == Plus(x.dst, {0}, FALSE, x.w)
             g == Ripple(x.dst, {0}, FALSE, x.w)
  <2>1. Interpreted(x) = Outcome(r, Replaced(x.f, Arithmetic \ {"CF"},
          AD_Bits(r, x.dst, {0}, x.w) \cup ResultFlags(r, x.w)))
    BY <1>7 DEF Interpreted, INC, AD_FLAGS, WithAll
  <2>2. RefSum(x) = Outcome(r, Replaced(x.f, Arithmetic \ {"CF"}, ChainFlags(g, x.w) \cup ResultFlags(r, x.w)))
    BY <1>7 DEF RefSum, Additions, Plus
  <2>3. AD_Bits(r, x.dst, {0}, x.w) = ChainFlags(g, x.w) BY <1>1, SumFlags
  <2>4. Interpreted(x) = RefSum(x) BY <2>1, <2>2, <2>3
  <2> QED BY <1>2, <2>4 DEF Matches, Xor
<1> QED BY <1>5, <1>6, <1>7 DEF Additions

\* A difference leaves what its chain of borrows gives, with the same exception.
LEMMA DifferencesMatch ==
  ASSUME NEW x, WellFormed(x), x.op \in Subtractions
  PROVE  Matches(Interpreted(x), x)
<1> DEFINE c == "CF" \in x.f
<1>1. /\ x.w \in Nat /\ x.w > 4 /\ x.dst \in SUBSET Positions(x.w) /\ x.src \in SUBSET Positions(x.w)
      /\ x.same \in BOOLEAN /\ c \in BOOLEAN /\ FALSE \in BOOLEAN
      /\ {0} \in SUBSET Positions(x.w) /\ {} \in SUBSET Positions(x.w)
  BY DEF WellFormed, Subtractions, Divisions, Positions
<1>2. Reference(x) = RefSum(x) BY SumReference
<1>3. x.op \in {"SUB", "SBB"} /\ x.same => DeviantFlags(x) = {"OF", "AF", "CF"}
  BY DEF DeviantFlags
<1>4. \A r, g : Xor(Replaced(x.f, Arithmetic, SB_Bits(r, x.dst, r, x.w) \cup ResultFlags(r, x.w)),
                    Replaced(x.f, Arithmetic, ChainFlags(g, x.w) \cup ResultFlags(r, x.w)))
                  \subseteq {"OF", "AF", "CF"}
  <2>1. \A r : SB_Bits(r, x.dst, r, x.w) \subseteq {"OF", "AF", "CF"} BY DEF SB_Bits
  <2>2. \A g : ChainFlags(g, x.w) \subseteq {"OF", "AF", "CF"} BY DEF ChainFlags
  <2> QED BY <2>1, <2>2 DEF Xor, Replaced
<1>5. \A a, b \in SUBSET Positions(x.w) : \A d \in BOOLEAN :
        LET g == Borrow(a, b, d, x.w)
            r == Plus(a, Not(b, x.w), ~d, x.w)
        IN /\ SB_Bits(r, a, b, x.w) = ChainFlags(g, x.w)
           /\ Xor(Xor(a, b), {i \in Positions(x.w) : g[i]}) = r
  <2> SUFFICES ASSUME NEW a \in SUBSET Positions(x.w), NEW b \in SUBSET Positions(x.w), NEW d \in BOOLEAN
               PROVE  LET g == Borrow(a, b, d, x.w)
                          r == Plus(a, Not(b, x.w), ~d, x.w)
                      IN /\ SB_Bits(r, a, b, x.w) = ChainFlags(g, x.w)
                         /\ Xor(Xor(a, b), {i \in Positions(x.w) : g[i]}) = r
    OBVIOUS
  <2>1. PICK g : g = Borrow(a, b, d, x.w) OBVIOUS
  <2>2. PICK r : r = Plus(a, Not(b, x.w), ~d, x.w) OBVIOUS
  <2>3. SB_Bits(r, a, b, x.w) = ChainFlags(g, x.w) BY <1>1, <2>1, <2>2, DifferenceFlags
  <2>4. Digits(r, g, a, b, x.w) BY <1>1, <2>1, <2>2, MinusBits
  <2>5. BorrowRule(g, a, b, d, x.w) BY <1>1, <2>1, BorrowBits
  <2>6. \A i \in Positions(x.w) : g[i] \in BOOLEAN BY <1>1, <2>5 DEF BorrowRule, Positions
  <2>7. Xor(Xor(a, b), {i \in Positions(x.w) : g[i]}) = r BY <1>1, <2>4, <2>6, DigitsAreXor
  <2> QED BY <2>1, <2>2, <2>3, <2>7
<1>6. CASE x.op = "SUB"
  <2> DEFINE r == Minus(x.dst, x.src, x.w)
             g == Borrow(x.dst, x.src, FALSE, x.w)
  <2>1. Interpreted(x) = Outcome(r, Replaced(x.f, Arithmetic,
          SB_Bits(r, x.dst, Reread(x, r), x.w) \cup ResultFlags(r, x.w)))
    BY <1>6 DEF Interpreted, SUB, SB_FLAGS, WithAll
  <2>2. r = Plus(x.dst, Not(x.src, x.w), ~FALSE, x.w) BY DEF Minus
  <2>3. /\ SB_Bits(r, x.dst, x.src, x.w) = ChainFlags(g, x.w)
        /\ Xor(Xor(x.dst, x.src), {i \in Positions(x.w) : g[i]}) = r
    BY <1>1, <1>5, <2>2
  <2>4. RefSum(x) = Outcome(r, Replaced(x.f, Arithmetic, ChainFlags(g, x.w) \cup ResultFlags(r, x.w)))
    BY <1>6, <2>3 DEF RefSum, Additions
  <2> HIDE DEF r, g
  <2>5. CASE x.same
    <3>1. Reread(x, r) = r BY <2>5 DEF Reread
    <3> QED BY <1>2, <1>3, <1>4, <1>6, <2>1, <2>4, <2>5, <3>1 DEF Matches, Outcome
  <2>6. CASE ~ x.same
    <3>1. Reread(x, r) = x.src BY <2>6 DEF Reread
    <3>2. Interpreted(x) = RefSum(x) BY <2>1, <2>3, <2>4, <3>1
    <3> QED BY <1>2, <3>2 DEF Matches, Xor
  <2> QED BY <2>5, <2>6
<1>7. CASE x.op = "SBB"
  <2> DEFINE r == Plus(x.dst, Not(x.src, x.w), "CF" \notin x.f, x.w)
             g == Borrow(x.dst, x.src, c, x.w)
  <2>1. Interpreted(x) = Outcome(r, Replaced(x.f, Arithmetic,
          SB_Bits(r, x.dst, Reread(x, r), x.w) \cup ResultFlags(r, x.w)))
    BY <1>7 DEF Interpreted, SBB, SB_FLAGS, WithAll
  <2>2. r = Plus(x.dst, Not(x.src, x.w), ~c, x.w) BY DEF Minus
  <2>3. /\ SB_Bits(r, x.dst, x.src, x.w) = ChainFlags(g, x.w)
        /\ Xor(Xor(x.dst, x.src), {i \in Positions(x.w) : g[i]}) = r
    BY <1>1, <1>5, <2>2
  <2>4. RefSum(x) = Outcome(r, Replaced(x.f, Arithmetic, ChainFlags(g, x.w) \cup ResultFlags(r, x.w)))
    BY <1>7, <2>3 DEF RefSum, Additions
  <2> HIDE DEF r, g
  <2>5. CASE x.same
    <3>1. Reread(x, r) = r BY <2>5 DEF Reread
    <3> QED BY <1>2, <1>3, <1>4, <1>7, <2>1, <2>4, <2>5, <3>1 DEF Matches, Outcome
  <2>6. CASE ~ x.same
    <3>1. Reread(x, r) = x.src BY <2>6 DEF Reread
    <3>2. Interpreted(x) = RefSum(x) BY <2>1, <2>3, <2>4, <3>1
    <3> QED BY <1>2, <3>2 DEF Matches, Xor
  <2> QED BY <2>5, <2>6
<1>8. CASE x.op = "CMP"
  <2> DEFINE r == Minus(x.dst, x.src, x.w)
             g == Borrow(x.dst, x.src, FALSE, x.w)
  <2>1. Interpreted(x) = Outcome(x.dst, Replaced(x.f, Arithmetic,
          SB_Bits(r, x.dst, x.src, x.w) \cup ResultFlags(r, x.w)))
    BY <1>8 DEF Interpreted, CMP, SB_FLAGS, WithAll
  <2>2. r = Plus(x.dst, Not(x.src, x.w), ~FALSE, x.w) BY DEF Minus
  <2>3. /\ SB_Bits(r, x.dst, x.src, x.w) = ChainFlags(g, x.w)
        /\ Xor(Xor(x.dst, x.src), {i \in Positions(x.w) : g[i]}) = r
    BY <1>1, <1>5, <2>2
  <2>4. RefSum(x) = Outcome(x.dst, Replaced(x.f, Arithmetic, ChainFlags(g, x.w) \cup ResultFlags(r, x.w)))
    BY <1>8, <2>3 DEF RefSum, Additions
  <2>5. Interpreted(x) = RefSum(x) BY <2>1, <2>3, <2>4
  <2> QED BY <1>2, <2>5 DEF Matches, Xor
<1>9. CASE x.op = "DEC"
  <2> DEFINE r == Minus(x.dst, {0}, x.w)
             g == Borrow(x.dst, {0}, FALSE, x.w)
  <2>1. Interpreted(x) = Outcome(r, Replaced(x.f, Arithmetic \ {"CF"},
          SB_Bits(r, x.dst, {0}, x.w) \cup ResultFlags(r, x.w)))
    BY <1>9 DEF Interpreted, DEC, SB_FLAGS, WithAll
  <2>2. r = Plus(x.dst, Not({0}, x.w), ~FALSE, x.w) BY DEF Minus
  <2>3. /\ SB_Bits(r, x.dst, {0}, x.w) = ChainFlags(g, x.w)
        /\ Xor(Xor(x.dst, {0}), {i \in Positions(x.w) : g[i]}) = r
    BY <1>1, <1>5, <2>2
  <2>4. RefSum(x) = Outcome(r, Replaced(x.f, Arithmetic \ {"CF"}, ChainFlags(g, x.w) \cup ResultFlags(r, x.w)))
    BY <1>9, <2>3 DEF RefSum, Additions
  <2>5. Interpreted(x) = RefSum(x) BY <2>1, <2>3, <2>4
  <2> QED BY <1>2, <2>5 DEF Matches, Xor
<1>10. CASE x.op = "NEG"
  <2> DEFINE r == Minus({}, x.dst, x.w)
             g == Borrow({}, x.dst, FALSE, x.w)
             f == Replaced(x.f, Arithmetic, SB_Bits(r, {}, x.dst, x.w) \cup ResultFlags(r, x.w))
  <2>1. Interpreted(x) = Outcome(r, With(f, "CF", x.dst # {}))
    BY <1>10 DEF Interpreted, NEG, SB_FLAGS, WithAll
  <2>2. r = Plus({}, Not(x.dst, x.w), ~FALSE, x.w) BY DEF Minus
  <2>3. /\ SB_Bits(r, {}, x.dst, x.w) = ChainFlags(g, x.w)
        /\ Xor(Xor({}, x.dst), {i \in Positions(x.w) : g[i]}) = r
    BY <1>1, <1>5, <2>2
  <2>4. RefSum(x) = Outcome(r, Replaced(x.f, Arithmetic, ChainFlags(g, x.w) \cup ResultFlags(r, x.w)))
    BY <1>10, <2>3 DEF RefSum, Additions
  <2>5. g[x.w] <=> x.dst # {} BY <1>1, NegativeBorrows
  <2> HIDE DEF r, g
  <2>6. "CF" \in f <=> x.dst # {}
    BY <2>3, <2>5 DEF Replaced, Arithmetic, ChainFlags, ResultFlags
  <2>7. With(f, "CF", x.dst # {}) = f BY <2>6 DEF With
  <2>8. Interpreted(x) = RefSum(x) BY <2>1, <2>3, <2>4, <2>7
  <2> QED BY <1>2, <2>8 DEF Matches, Xor
<1> QED BY <1>6, <1>7, <1>8, <1>9, <1>10 DEF Subtractions

---------------------------------------------------------------------------
(* Shifts and rotations.                                                   *)

\* A remainder is unique.
LEMMA Quotient ==
  ASSUME NEW w \in Nat, w > 0, NEW k \in Nat, NEW q \in Nat, NEW r \in 0 .. w - 1, k = q * w + r
  PROVE  k % w = r
OBVIOUS

\* A remainder is below the divisor, and the next one follows it.
LEMMA NextRemainder ==
  ASSUME NEW w \in Nat, w > 0, NEW k \in Nat
  PROVE  /\ k % w \in 0 .. w - 1
         /\ (k + 1) % w = IF k % w = w - 1 THEN 0 ELSE (k % w) + 1
<1> DEFINE r == k % w
           q == k \div w
<1>1. r \in 0 .. w - 1 /\ q \in Nat /\ k = w * q + r OBVIOUS
<1> HIDE DEF r, q
<1>2. CASE r = w - 1
  <2>1. k + 1 \in Nat /\ k + 1 = (q + 1) * w + 0 /\ q + 1 \in Nat /\ 0 \in 0 .. w - 1 BY <1>1, <1>2
  <2>2. (k + 1) % w = 0 BY <2>1, Quotient
  <2> QED BY <1>1, <1>2, <2>2 DEF r
<1>3. CASE r # w - 1
  <2>1. k + 1 \in Nat /\ k + 1 = q * w + (r + 1) /\ r + 1 \in 0 .. w - 1 BY <1>1, <1>3
  <2>2. (k + 1) % w = r + 1 BY <1>1, <2>1, Quotient
  <2> QED BY <1>1, <1>3, <2>2 DEF r
<1> QED BY <1>2, <1>3

\* Every bit of a word shifted to the left.
LEMMA ShlBits ==
  ASSUME NEW w \in Nat, NEW x, NEW n, NEW i
  PROVE  i \in Shl(x, n, w) <=> i \in Positions(w) /\ i - n \in x
BY DEF Shl

\* Every bit of a word shifted to the right.
LEMMA ShrBits ==
  ASSUME NEW x, x \subseteq Nat, NEW n \in Nat, NEW i
  PROVE  i \in Shr(x, n) <=> i \in Nat /\ i + n \in x
<1>1. ASSUME i \in Shr(x, n) PROVE i \in Nat /\ i + n \in x
  <2>1. PICK j \in {m \in x : m >= n} : i = j - n BY <1>1 DEF Shr
  <2>2. j \in Nat /\ j >= n /\ j \in x BY <2>1
  <2> QED BY <2>1, <2>2
<1>2. ASSUME i \in Nat, i + n \in x PROVE i \in Shr(x, n)
  <2>1. i + n >= n /\ i = i + n - n BY <1>2
  <2> QED BY <1>2, <2>1 DEF Shr
<1> QED BY <1>1, <1>2

\* The equation of ManyBits has one solution.
Solution(g, op, v, c, n, w) ==
  /\ g = [k \in 0 .. n |-> g[k]]
  /\ g[0] = [v |-> v, c |-> c]
  /\ \A k \in 0 .. n : k # 0 => g[k] = OneBit(op, g[k - 1].v, g[k - 1].c, w)

\* A recursive function equals a closed form that satisfies its equation: the
\* least count at which they differed would have a smaller one.
LEMMA Repeated ==
  ASSUME NEW op, NEW v, NEW c, NEW w, NEW n \in Nat, NEW g, Solution(g, op, v, c, n, w)
  PROVE  ManyBits(op, v, c, n, w) = g[n]
<1>0. /\ g = [k \in 0 .. n |-> g[k]] /\ g[0] = [v |-> v, c |-> c]
      /\ \A k \in 0 .. n : k # 0 => g[k] = OneBit(op, g[k - 1].v, g[k - 1].c, w)
  BY DEF Solution
<1> DEFINE Solves(f) == f = [k \in 0 .. n |->
                               IF k = 0 THEN [v |-> v, c |-> c]
                               ELSE OneBit(op, f[k - 1].v, f[k - 1].c, w)]
           after == CHOOSE f : Solves(f)
           T == {k \in 0 .. n : after[k] # g[k]}
<1>1. Solves(g)
  <2>1. [k \in 0 .. n |-> g[k]] = [k \in 0 .. n |-> IF k = 0 THEN [v |-> v, c |-> c]
                                                   ELSE OneBit(op, g[k - 1].v, g[k - 1].c, w)]
    BY <1>0
  <2> QED BY <1>0, <2>1
<1>2. Solves(after)
  <2> HIDE DEF Solves
  <2> QED BY <1>1
<1>3. ManyBits(op, v, c, n, w) = after[n] BY DEF ManyBits
<1> HIDE DEF after
<1>4. \A k \in 0 .. n : after[k] = IF k = 0 THEN [v |-> v, c |-> c]
                                  ELSE OneBit(op, after[k - 1].v, after[k - 1].c, w)
  BY <1>2
<1> SUFFICES ASSUME T # {} PROVE FALSE BY <1>3
<1>5. T \subseteq Nat OBVIOUS
<1> HIDE DEF T
<1>6. PICK m \in T : \A k \in T : m <= k BY <1>5, LeastNumber
<1>7. m \in 0 .. n /\ after[m] # g[m] BY DEF T
<1>8. m # 0 BY <1>0, <1>4, <1>7
<1>9. m - 1 \in 0 .. n /\ ~(m <= m - 1) BY <1>7, <1>8
<1>10. after[m - 1] = g[m - 1] BY <1>6, <1>9 DEF T
<1> QED BY <1>0, <1>4, <1>7, <1>8, <1>10

\* A word shifted by k at once, and the bit that left it last.
Moved(op, v, c, k, w) ==
  CASE op = "SHL" -> [v |-> Shl(v, k, w), c |-> IF k = 0 THEN c ELSE w - k \in v]
    [] op = "SHR" -> [v |-> Shr(v, k), c |-> IF k = 0 THEN c ELSE k - 1 \in v]
    [] op = "SAR" ->
         [v |-> {i \in Positions(w) : i + k \in v \/ (i + k >= w /\ w - 1 \in v)},
          c |-> IF k = 0 THEN c ELSE k - 1 \in v \/ (k - 1 >= w /\ w - 1 \in v)]
    [] op = "ROL" ->
         LET r == Shl(v, k % w, w) \cup Shr(v, w - (k % w))
         IN [v |-> r, c |-> IF k = 0 THEN c ELSE 0 \in r]
    [] op = "ROR" ->
         LET r == Shr(v, k % w) \cup Shl(v, w - (k % w), w)
         IN [v |-> r, c |-> IF k = 0 THEN c ELSE w - 1 \in r]
    [] op = "RCL" ->
         LET m == k % (w + 1)
         IN IF m = 0 THEN [v |-> v, c |-> c]
            ELSE [v |-> Shl(v, m, w) \cup Bit(c, m - 1) \cup Shr(v, w + 1 - m), c |-> w - m \in v]
    [] op = "RCR" ->
         LET m == k % (w + 1)
         IN IF m = 0 THEN [v |-> v, c |-> c]
            ELSE [v |-> Shr(v, m) \cup Bit(c, w - m) \cup Shl(v, w + 1 - m, w), c |-> m - 1 \in v]

\* One more bit to the left, from the closed form.
LEMMA MovedShl ==
  ASSUME NEW w \in Nat, w > 1, NEW v \in SUBSET Positions(w), NEW c \in BOOLEAN, NEW k \in Nat,
         NEW m, m = Moved("SHL", v, c, k, w)
  PROVE  /\ Moved("SHL", v, c, 0, w) = [v |-> v, c |-> c]
         /\ Moved("SHL", v, c, k + 1, w) = OneBit("SHL", m.v, m.c, w)
<1>1. Shl(v, 0, w) = v
  <2>1. \A i \in Positions(w) : i - 0 = i BY DEF Positions
  <2> QED BY <2>1 DEF Shl
<1>2. m.v = Shl(v, k, w) BY DEF Moved
<1>3. Shl(v, k + 1, w) = Shl(m.v, 1, w)
  <2>1. \A i \in Positions(w) : i - (k + 1) \in v <=> i - 1 \in Positions(w) /\ i - 1 - k \in v
    <3> SUFFICES ASSUME NEW i \in Positions(w) PROVE i - (k + 1) \in v <=> i - 1 \in Positions(w) /\ i - 1 - k \in v
      OBVIOUS
    <3>1. i - (k + 1) = i - 1 - k BY DEF Positions
    <3>2. i - 1 - k \in v => i - 1 \in Positions(w) BY DEF Positions
    <3> QED BY <3>1, <3>2
  <2> QED BY <1>2, <2>1 DEF Shl
<1>4. w - (k + 1) \in v <=> w - 1 \in m.v
  <2>1. w - (k + 1) = w - 1 - k /\ w - 1 \in Positions(w) BY DEF Positions
  <2> QED BY <1>2, <2>1 DEF Shl
<1> QED BY <1>1, <1>3, <1>4 DEF Moved, OneBit

\* One more bit to the right.
LEMMA MovedShr ==
  ASSUME NEW w \in Nat, w > 1, NEW v \in SUBSET Positions(w), NEW c \in BOOLEAN, NEW k \in Nat,
         NEW m, m = Moved("SHR", v, c, k, w)
  PROVE  /\ Moved("SHR", v, c, 0, w) = [v |-> v, c |-> c]
         /\ Moved("SHR", v, c, k + 1, w) = OneBit("SHR", m.v, m.c, w)
<1>1. v \subseteq Nat BY DEF Positions
<1>2. \A n \in Nat : \A i : i \in Shr(v, n) <=> i \in Nat /\ i + n \in v BY <1>1, ShrBits
<1>3. Shr(v, 0) = v
  <2>1. \A i : i \in Shr(v, 0) <=> i \in Nat /\ i + 0 \in v BY <1>2
  <2>2. \A i \in Nat : i + 0 = i OBVIOUS
  <2>3. \A i : i \in Shr(v, 0) <=> i \in v BY <1>1, <2>1, <2>2
  <2> QED BY <2>3
<1>4. m.v = Shr(v, k) /\ m.v \subseteq Nat BY <1>2 DEF Moved
<1>5. \A i : i \in Shr(m.v, 1) <=> i \in Nat /\ i + 1 \in m.v BY <1>4, ShrBits
<1>6. Shr(v, k + 1) = Shr(m.v, 1)
  <2>1. \A i : i \in Shr(v, k + 1) <=> i \in Nat /\ i + (k + 1) \in v
    <3>1. k + 1 \in Nat OBVIOUS
    <3> QED BY <1>1, <3>1, ShrBits
  <2>2. \A i : i \in Shr(m.v, 1) <=> i \in Nat /\ i + 1 + k \in v BY <1>2, <1>4, <1>5
  <2>3. \A i \in Nat : i + (k + 1) = i + 1 + k OBVIOUS
  <2>4. \A i : i \in Shr(v, k + 1) <=> i \in Shr(m.v, 1) BY <2>1, <2>2, <2>3
  <2> QED BY <2>4
<1>7. k + 1 - 1 \in v <=> 0 \in m.v BY <1>2, <1>4
<1> QED BY <1>3, <1>6, <1>7 DEF Moved, OneBit

\* One more bit to the right, the sign repeated.
LEMMA MovedSar ==
  ASSUME NEW w \in Nat, w > 1, NEW v \in SUBSET Positions(w), NEW c \in BOOLEAN, NEW k \in Nat,
         NEW m, m = Moved("SAR", v, c, k, w)
  PROVE  /\ Moved("SAR", v, c, 0, w) = [v |-> v, c |-> c]
         /\ Moved("SAR", v, c, k + 1, w) = OneBit("SAR", m.v, m.c, w)
<1> DEFINE top == w - 1 \in v
           U(n) == {i \in Positions(w) : i + n \in v \/ (i + n >= w /\ top)}
<1>1. U(0) = v
  <2>1. \A i \in Positions(w) : i + 0 = i /\ ~(i + 0 >= w) BY DEF Positions
  <2> QED BY <2>1
<1>2. m.v = U(k) /\ m.v \subseteq Nat BY DEF Moved, Positions
<1>3. w - 1 \in Positions(w) /\ w - 1 \in Nat BY DEF Positions
<1>4. w - 1 \in m.v <=> top
  <2>1. w - 1 + k \in v => k = 0 BY DEF Positions
  <2>2. w - 1 + 0 = w - 1 /\ (k # 0 <=> w - 1 + k >= w) OBVIOUS
  <2> QED BY <1>2, <1>3, <2>1, <2>2
<1>5. \A i : i \in Shr(m.v, 1) <=> i \in Nat /\ i + 1 \in m.v BY <1>2, ShrBits
<1>6. U(k + 1) = Shr(m.v, 1) \cup Bit(w - 1 \in m.v, w - 1)
  <2>1. ASSUME NEW i \in Positions(w)
        PROVE  i \in U(k + 1) <=> i + 1 \in m.v \/ (top /\ i = w - 1)
    <3>1. i + (k + 1) = i + 1 + k BY DEF Positions
    <3>2. i + 1 \in Positions(w) <=> i # w - 1 BY DEF Positions
    <3>3. i = w - 1 => i + 1 + k >= w /\ i + 1 + k \notin v BY DEF Positions
    <3> QED BY <1>2, <3>1, <3>2, <3>3
  <2>2. \A i : i \in Nat /\ i + 1 \in m.v => i \in Positions(w) BY <1>2 DEF Positions
  <2>3. \A i : i \in Bit(w - 1 \in m.v, w - 1) <=> top /\ i = w - 1 BY <1>4 DEF Bit
  <2>4. Positions(w) \subseteq Nat BY DEF Positions
  <2>5. \A i : i \in U(k + 1) <=> i \in Positions(w) /\ (i + 1 \in m.v \/ (top /\ i = w - 1))
    BY <2>1
  <2>6. \A i : i \in Shr(m.v, 1) \cup Bit(w - 1 \in m.v, w - 1)
               <=> i \in Positions(w) /\ (i + 1 \in m.v \/ (top /\ i = w - 1))
    BY <1>3, <1>5, <2>2, <2>3, <2>4
  <2> QED BY <2>5, <2>6
<1>7. (k + 1 - 1 \in v \/ (k + 1 - 1 >= w /\ top)) = (0 \in m.v)
  <2>1. 0 \in Positions(w) /\ 0 + k = k /\ k + 1 - 1 = k BY DEF Positions
  <2> QED BY <1>2, <2>1
<1>8. \A n : Moved("SAR", v, c, n, w)
               = [v |-> U(n), c |-> IF n = 0 THEN c ELSE n - 1 \in v \/ (n - 1 >= w /\ top)]
  BY DEF Moved
<1>9. OneBit("SAR", m.v, m.c, w) = [v |-> Shr(m.v, 1) \cup Bit(w - 1 \in m.v, w - 1), c |-> 0 \in m.v]
  BY DEF OneBit
<1>10. k + 1 # 0 OBVIOUS
<1>11. Moved("SAR", v, c, 0, w) = [v |-> U(0), c |-> c] BY <1>8
<1>12. Moved("SAR", v, c, k + 1, w) = [v |-> U(k + 1), c |-> 0 \in m.v]
  <2> HIDE DEF U
  <2>1. Moved("SAR", v, c, k + 1, w)
          = [v |-> U(k + 1), c |-> k + 1 - 1 \in v \/ (k + 1 - 1 >= w /\ top)]
    BY <1>8, <1>10
  <2> HIDE DEF top
  <2> QED BY <1>7, <2>1, Zenon
<1> HIDE DEF U, top
<1> QED BY <1>1, <1>6, <1>9, <1>11, <1>12

\* The bits of a word rotated, in a circle of w bits and in one of w + 1.
LEMMA RolBits ==
  ASSUME NEW w \in Nat, NEW v \in SUBSET Positions(w), NEW m \in 0 .. w, NEW i
  PROVE  i \in Shl(v, m, w) \cup Shr(v, w - m) <=> i \in Positions(w) /\ (i - m \in v \/ i + (w - m) \in v)
<1>1. w - m \in Nat /\ v \subseteq Nat BY DEF Positions
<1>2. i \in Shr(v, w - m) <=> i \in Nat /\ i + (w - m) \in v BY <1>1, ShrBits
<1>3. i \in Nat /\ i + (w - m) \in v => i \in Positions(w) BY <1>1 DEF Positions
<1>4. i \in Positions(w) => i \in Nat BY DEF Positions
<1> QED BY <1>2, <1>3, <1>4, ShlBits

\* The bits of ROR.
LEMMA RorBits ==
  ASSUME NEW w \in Nat, NEW v \in SUBSET Positions(w), NEW m \in 0 .. w, NEW i
  PROVE  i \in Shr(v, m) \cup Shl(v, w - m, w) <=> i \in Positions(w) /\ (i + m \in v \/ i - (w - m) \in v)
<1>1. m \in Nat /\ v \subseteq Nat BY DEF Positions
<1>2. i \in Shr(v, m) <=> i \in Nat /\ i + m \in v BY <1>1, ShrBits
<1>3. i \in Nat /\ i + m \in v => i \in Positions(w) BY <1>1 DEF Positions
<1>4. i \in Positions(w) => i \in Nat BY DEF Positions
<1> QED BY <1>2, <1>3, <1>4, ShlBits

\* The bits of RCL, the carry among them.
LEMMA RclBits ==
  ASSUME NEW w \in Nat, NEW v \in SUBSET Positions(w), NEW c \in BOOLEAN, NEW m \in 1 .. w, NEW i
  PROVE  i \in Shl(v, m, w) \cup Bit(c, m - 1) \cup Shr(v, w + 1 - m)
           <=> i \in Positions(w) /\ (i - m \in v \/ (c /\ i = m - 1) \/ i + (w + 1 - m) \in v)
<1>1. w + 1 - m \in Nat /\ v \subseteq Nat /\ m - 1 \in Positions(w) BY DEF Positions
<1>2. i \in Shr(v, w + 1 - m) <=> i \in Nat /\ i + (w + 1 - m) \in v BY <1>1, ShrBits
<1>3. i \in Nat /\ i + (w + 1 - m) \in v => i \in Positions(w) BY <1>1 DEF Positions
<1>4. i \in Positions(w) => i \in Nat BY DEF Positions
<1>5. i \in Bit(c, m - 1) <=> c /\ i = m - 1 BY DEF Bit
<1> QED BY <1>1, <1>2, <1>3, <1>4, <1>5, ShlBits

\* The bits of RCR.
LEMMA RcrBits ==
  ASSUME NEW w \in Nat, NEW v \in SUBSET Positions(w), NEW c \in BOOLEAN, NEW m \in 1 .. w, NEW i
  PROVE  i \in Shr(v, m) \cup Bit(c, w - m) \cup Shl(v, w + 1 - m, w)
           <=> i \in Positions(w) /\ (i + m \in v \/ (c /\ i = w - m) \/ i - (w + 1 - m) \in v)
<1>1. m \in Nat /\ v \subseteq Nat /\ w - m \in Positions(w) BY DEF Positions
<1>2. i \in Shr(v, m) <=> i \in Nat /\ i + m \in v BY <1>1, ShrBits
<1>3. i \in Nat /\ i + m \in v => i \in Positions(w) BY <1>1 DEF Positions
<1>4. i \in Positions(w) => i \in Nat BY DEF Positions
<1>5. i \in Bit(c, w - m) <=> c /\ i = w - m BY DEF Bit
<1> QED BY <1>1, <1>2, <1>3, <1>4, <1>5, ShlBits

\* One more bit of ROL: the count wraps at the width.
LEMMA MovedRol ==
  ASSUME NEW w \in Nat, w > 1, NEW v \in SUBSET Positions(w), NEW c \in BOOLEAN, NEW k \in Nat,
         NEW m, m = Moved("ROL", v, c, k, w)
  PROVE  /\ Moved("ROL", v, c, 0, w) = [v |-> v, c |-> c]
         /\ Moved("ROL", v, c, k + 1, w) = OneBit("ROL", m.v, m.c, w)
<1> DEFINE R(n) == Shl(v, n, w) \cup Shr(v, w - n)
<1>1. \A n \in 0 .. w : \A i : i \in R(n) <=> i \in Positions(w) /\ (i - n \in v \/ i + (w - n) \in v)
  BY RolBits
<1> HIDE DEF R
<1>2. R(0) = v
  <2>1. \A i \in Positions(w) : i - 0 = i /\ i + (w - 0) \notin v BY DEF Positions
  <2>2. \A i : i \in R(0) <=> i \in v BY <1>1, <2>1
  <2> QED BY <2>2
<1>3. \A n \in Nat : Moved("ROL", v, c, n, w)
        = [v |-> R(n % w), c |-> IF n = 0 THEN c ELSE 0 \in R(n % w)]
  BY DEF Moved, R
<1>4. k % w \in 0 .. w - 1 /\ (k + 1) % w = (IF k % w = w - 1 THEN 0 ELSE (k % w) + 1) /\ 0 % w = 0
  <2>1. 0 % w = 0 OBVIOUS
  <2>2. w > 0 OBVIOUS
  <2> QED BY <2>1, <2>2, NextRemainder, Zenon
<1>5. PICK n \in 0 .. w - 1 : n = k % w BY <1>4
<1>6. PICK n1 \in 0 .. w - 1 : n1 = (k + 1) % w BY <1>4
<1>7. n1 = IF n = w - 1 THEN 0 ELSE n + 1 BY <1>4, <1>5, <1>6
<1>8. n \in 0 .. w /\ n1 \in 0 .. w /\ w - 1 \in Positions(w) /\ 0 \in Positions(w) BY DEF Positions
<1>9. m.v = R(n) BY <1>3, <1>5
<1>10. w - 1 \in R(n) <=> w - 1 - n \in v
  <2>1. w - 1 + (w - n) \notin v BY DEF Positions
  <2> QED BY <1>1, <1>8, <2>1
<1>11. \A i : i \in Shl(R(n), 1, w) \cup Bit(w - 1 \in R(n), 0)
              <=> i \in Positions(w) /\ (i - 1 \in R(n) \/ (w - 1 - n \in v /\ i = 0))
  <2>1. \A i : i \in Bit(w - 1 \in R(n), 0) <=> w - 1 - n \in v /\ i = 0 BY <1>10 DEF Bit
  <2> QED BY <1>8, <2>1, ShlBits
<1>12. ASSUME NEW i \in Positions(w)
       PROVE  i \in R(n1) <=> i - 1 \in R(n) \/ (w - 1 - n \in v /\ i = 0)
  <2>1. i - 1 \in R(n) <=> i # 0 /\ (i - 1 - n \in v \/ i - 1 + (w - n) \in v)
    <3>1. i - 1 \in Positions(w) <=> i # 0 BY DEF Positions
    <3> QED BY <1>1, <1>8, <3>1
  <2>2. i \in R(n1) <=> i - n1 \in v \/ i + (w - n1) \in v BY <1>1, <1>8
  <2>3. CASE n = w - 1
    <3>1. n1 = 0 BY <1>7, <2>3
    <3>2. /\ i - n1 = i /\ i + (w - n1) \notin v /\ i - 1 - n \notin v /\ i - 1 + (w - n) = i
          /\ w - 1 - n = 0
      BY <2>3, <3>1 DEF Positions
    <3> QED BY <2>1, <2>2, <3>2
  <2>4. CASE n # w - 1
    <3>1. n1 = n + 1 BY <1>7, <2>4
    <3>2. /\ i - n1 = i - 1 - n /\ i + (w - n1) = i - 1 + (w - n) /\ (i = 0 => i - 1 - n \notin v)
          /\ (i = 0 => i - 1 + (w - n) = w - 1 - n)
      BY <3>1 DEF Positions
    <3> QED BY <2>1, <2>2, <3>2
  <2> QED BY <2>3, <2>4
<1>13. R(n1) = Shl(R(n), 1, w) \cup Bit(w - 1 \in R(n), 0)
  <2>1. \A i : i \in R(n1) => i \in Positions(w) BY <1>1, <1>8
  <2>2. \A i : i \in R(n1) <=> i \in Shl(R(n), 1, w) \cup Bit(w - 1 \in R(n), 0)
    BY <1>11, <1>12, <2>1
  <2> QED BY <2>2
<1>14. (0 \in R(n1)) = (w - 1 \in R(n))
  <2>1. 0 - 1 \notin R(n) BY <1>1, <1>8 DEF Positions
  <2> QED BY <1>8, <1>10, <1>12, <2>1
<1>15. OneBit("ROL", m.v, m.c, w) = [v |-> Shl(R(n), 1, w) \cup Bit(w - 1 \in R(n), 0), c |-> w - 1 \in R(n)]
  BY <1>9 DEF OneBit
<1>16. Moved("ROL", v, c, k + 1, w) = [v |-> R(n1), c |-> 0 \in R(n1)]
  <2>1. k + 1 \in Nat /\ k + 1 # 0 OBVIOUS
  <2> QED BY <1>3, <1>6, <2>1
<1>17. Moved("ROL", v, c, 0, w) = [v |-> v, c |-> c] BY <1>2, <1>3, <1>4
<1> QED BY <1>13, <1>14, <1>15, <1>16, <1>17

\* One more bit of ROR.
LEMMA MovedRor ==
  ASSUME NEW w \in Nat, w > 1, NEW v \in SUBSET Positions(w), NEW c \in BOOLEAN, NEW k \in Nat,
         NEW m, m = Moved("ROR", v, c, k, w)
  PROVE  /\ Moved("ROR", v, c, 0, w) = [v |-> v, c |-> c]
         /\ Moved("ROR", v, c, k + 1, w) = OneBit("ROR", m.v, m.c, w)
<1> DEFINE R(n) == Shr(v, n) \cup Shl(v, w - n, w)
<1>1. \A n \in 0 .. w : \A i : i \in R(n) <=> i \in Positions(w) /\ (i + n \in v \/ i - (w - n) \in v)
  BY RorBits
<1> HIDE DEF R
<1>2. R(0) = v
  <2>1. \A i \in Positions(w) : i + 0 = i /\ i - (w - 0) \notin v BY DEF Positions
  <2>2. \A i : i \in R(0) <=> i \in v BY <1>1, <2>1
  <2> QED BY <2>2
<1>3. \A n \in Nat : Moved("ROR", v, c, n, w)
        = [v |-> R(n % w), c |-> IF n = 0 THEN c ELSE w - 1 \in R(n % w)]
  BY DEF Moved, R
<1>4. k % w \in 0 .. w - 1 /\ (k + 1) % w = (IF k % w = w - 1 THEN 0 ELSE (k % w) + 1) /\ 0 % w = 0
  <2>1. 0 % w = 0 OBVIOUS
  <2>2. w > 0 OBVIOUS
  <2> QED BY <2>1, <2>2, NextRemainder, Zenon
<1>5. PICK n \in 0 .. w - 1 : n = k % w BY <1>4
<1>6. PICK n1 \in 0 .. w - 1 : n1 = (k + 1) % w BY <1>4
<1>7. n1 = IF n = w - 1 THEN 0 ELSE n + 1 BY <1>4, <1>5, <1>6
<1>8. n \in 0 .. w /\ n1 \in 0 .. w /\ w - 1 \in Positions(w) /\ 0 \in Positions(w) BY DEF Positions
<1>9. m.v = R(n) BY <1>3, <1>5
<1>10. 0 \in R(n) <=> n \in v
  <2>1. 0 - (w - n) \notin v /\ 0 + n = n BY DEF Positions
  <2> QED BY <1>1, <1>8, <2>1
<1>11. \A i : i \in Shr(R(n), 1) \cup Bit(0 \in R(n), w - 1)
              <=> i \in Positions(w) /\ (i + 1 \in R(n) \/ (n \in v /\ i = w - 1))
  <2>1. \A i : i \in Bit(0 \in R(n), w - 1) <=> n \in v /\ i = w - 1 BY <1>10 DEF Bit
  <2>2. R(n) \subseteq Nat BY <1>1, <1>8 DEF Positions
  <2>3. \A i : i \in Shr(R(n), 1) <=> i \in Nat /\ i + 1 \in R(n) BY <2>2, ShrBits
  <2>4. \A i \in Nat : i + 1 \in R(n) => i \in Positions(w) BY <1>1, <1>8 DEF Positions
  <2>5. \A i \in Positions(w) : i \in Nat BY DEF Positions
  <2> QED BY <1>8, <2>1, <2>3, <2>4, <2>5
<1>12. ASSUME NEW i \in Positions(w)
       PROVE  i \in R(n1) <=> i + 1 \in R(n) \/ (n \in v /\ i = w - 1)
  <2>1. i + 1 \in R(n) <=> i # w - 1 /\ (i + 1 + n \in v \/ (i + 1) - (w - n) \in v)
    <3>1. i + 1 \in Positions(w) <=> i # w - 1 BY DEF Positions
    <3>2. PICK j : j = i + 1 OBVIOUS
    <3>3. j \in R(n) <=> j \in Positions(w) /\ (j + n \in v \/ j - (w - n) \in v) BY <1>1, <1>8
    <3> QED BY <3>1, <3>2, <3>3, Zenon
  <2>2. i \in R(n1) <=> i + n1 \in v \/ i - (w - n1) \in v BY <1>1, <1>8
  <2>3. CASE n = w - 1
    <3>1. n1 = 0 BY <1>7, <2>3
    <3>2. i + n1 = i /\ i - (w - n1) \notin v /\ i + 1 + n \notin v /\ (i + 1) - (w - n) = i
      BY <2>3, <3>1 DEF Positions
    <3> QED BY <2>1, <2>2, <2>3, <3>2
  <2>4. CASE n # w - 1
    <3>1. n1 = n + 1 BY <1>7, <2>4
    <3>2. /\ i + n1 = i + 1 + n /\ i - (w - n1) = (i + 1) - (w - n)
          /\ (i = w - 1 => i + 1 + n \notin v) /\ (i = w - 1 => (i + 1) - (w - n) = n)
      BY <3>1 DEF Positions
    <3> QED BY <2>1, <2>2, <3>2
  <2> QED BY <2>3, <2>4
<1>13. R(n1) = Shr(R(n), 1) \cup Bit(0 \in R(n), w - 1)
  <2>1. \A i : i \in R(n1) => i \in Positions(w) BY <1>1, <1>8
  <2>2. \A i : i \in R(n1) <=> i \in Shr(R(n), 1) \cup Bit(0 \in R(n), w - 1)
    BY <1>11, <1>12, <2>1
  <2> QED BY <2>2
<1>14. (w - 1 \in R(n1)) = (0 \in R(n))
  <2>1. w - 1 + 1 \notin R(n) BY <1>1, <1>8 DEF Positions
  <2> QED BY <1>8, <1>10, <1>12, <2>1
<1>15. OneBit("ROR", m.v, m.c, w) = [v |-> Shr(R(n), 1) \cup Bit(0 \in R(n), w - 1), c |-> 0 \in R(n)]
  BY <1>9 DEF OneBit
<1>16. Moved("ROR", v, c, k + 1, w) = [v |-> R(n1), c |-> w - 1 \in R(n1)]
  <2>1. k + 1 \in Nat /\ k + 1 # 0 OBVIOUS
  <2> QED BY <1>3, <1>6, <2>1
<1>17. Moved("ROR", v, c, 0, w) = [v |-> v, c |-> c] BY <1>2, <1>3, <1>4
<1> QED BY <1>13, <1>14, <1>15, <1>16, <1>17

\* One more bit of RCL: the count wraps at the width and the carry.
LEMMA MovedRcl ==
  ASSUME NEW w \in Nat, w > 1, NEW v \in SUBSET Positions(w), NEW c \in BOOLEAN, NEW k \in Nat,
         NEW m, m = Moved("RCL", v, c, k, w)
  PROVE  /\ Moved("RCL", v, c, 0, w) = [v |-> v, c |-> c]
         /\ Moved("RCL", v, c, k + 1, w) = OneBit("RCL", m.v, m.c, w)
<1> DEFINE R(n) == IF n = 0 THEN v ELSE Shl(v, n, w) \cup Bit(c, n - 1) \cup Shr(v, w + 1 - n)
           C(n) == IF n = 0 THEN c ELSE w - n \in v
<1>1. \A n \in 0 .. w : \A i :
        i \in R(n) <=> i \in Positions(w) /\ (i - n \in v \/ (c /\ i = n - 1) \/ i + (w + 1 - n) \in v)
  <2>1. \A n \in 1 .. w : n # 0 OBVIOUS
  <2>2. \A i \in Positions(w) : i - 0 = i /\ i # 0 - 1 /\ i + (w + 1 - 0) \notin v BY DEF Positions
  <2>3. \A n \in 0 .. w : n = 0 \/ n \in 1 .. w OBVIOUS
  <2>4. R(0) = v /\ \A n \in 1 .. w : R(n) = Shl(v, n, w) \cup Bit(c, n - 1) \cup Shr(v, w + 1 - n)
    BY <2>1
  <2> HIDE DEF R
  <2>5. \A i : i \in v => i \in Positions(w) OBVIOUS
  <2>6. \A n \in 1 .. w : \A i : i \in R(n)
          <=> i \in Positions(w) /\ (i - n \in v \/ (c /\ i = n - 1) \/ i + (w + 1 - n) \in v)
    <3>1. \A n \in 1 .. w : \A i : i \in Shl(v, n, w) \cup Bit(c, n - 1) \cup Shr(v, w + 1 - n)
            <=> i \in Positions(w) /\ (i - n \in v \/ (c /\ i = n - 1) \/ i + (w + 1 - n) \in v)
      BY RclBits
    <3> QED BY <2>4, <3>1
  <2> QED BY <2>2, <2>3, <2>4, <2>5, <2>6
<1>2. R(0) = v /\ C(0) = c OBVIOUS
<1>0. PICK z \in Nat : z = w + 1 OBVIOUS
<1>3. \A n \in Nat : Moved("RCL", v, c, n, w) = [v |-> R(n % z), c |-> C(n % z)]
  BY <1>0 DEF Moved
<1>4. \A n \in 0 .. w : C(n) \in BOOLEAN /\ (n # 0 => C(n) = (w - n \in v))
  <2>1. \A n \in 0 .. w : n # 0 => C(n) = (w - n \in v) OBVIOUS
  <2>2. \A n : (w - n \in v) \in BOOLEAN OBVIOUS
  <2> HIDE DEF C
  <2> QED BY <1>2, <2>1, <2>2
<1> HIDE DEF R, C
<1>5. k % z \in 0 .. z - 1 /\ (k + 1) % z = (IF k % z = z - 1 THEN 0 ELSE (k % z) + 1) /\ 0 % z = 0
  <2>1. z > 0 BY <1>0
  <2>2. 0 % z = 0 BY <2>1
  <2> QED BY <2>1, <2>2, NextRemainder, Zenon
<1>6. z - 1 = w BY <1>0
<1>7. PICK n \in 0 .. w : n = k % z BY <1>5, <1>6
<1>8. PICK n1 \in 0 .. w : n1 = (k + 1) % z
  <2>1. 0 \in 0 .. w /\ \A j \in 0 .. w : j # w => j + 1 \in 0 .. w OBVIOUS
  <2> QED BY <1>5, <1>6, <1>7, <2>1, Zenon
<1>9. n1 = IF n = w THEN 0 ELSE n + 1 BY <1>5, <1>6, <1>7, <1>8, Zenon
<1>10. w - 1 \in Positions(w) /\ 0 \in Positions(w) BY DEF Positions
<1>11. m = [v |-> R(n), c |-> C(n)] BY <1>3, <1>7
<1>12. \A i : i \in Shl(R(n), 1, w) \cup Bit(C(n), 0)
              <=> i \in Positions(w) /\ (i - 1 \in R(n) \/ (C(n) /\ i = 0))
  <2>1. \A i : i \in Bit(C(n), 0) <=> C(n) /\ i = 0 BY <1>4 DEF Bit
  <2> QED BY <1>10, <2>1, ShlBits
<1>13. ASSUME NEW i \in Positions(w)
       PROVE  i \in R(n1) <=> i - 1 \in R(n) \/ (C(n) /\ i = 0)
  <2>1. i - 1 \in R(n) <=> i # 0 /\ (i - 1 - n \in v \/ (c /\ i - 1 = n - 1) \/ i - 1 + (w + 1 - n) \in v)
    <3>1. i - 1 \in Positions(w) <=> i # 0 BY DEF Positions
    <3> QED BY <1>1, <3>1
  <2>2. i \in R(n1) <=> i - n1 \in v \/ (c /\ i = n1 - 1) \/ i + (w + 1 - n1) \in v BY <1>1
  <2>3. CASE n = w
    <3>1. n1 = 0 BY <1>9, <2>3
    <3>2. /\ i - n1 = i /\ i # n1 - 1 /\ i + (w + 1 - n1) \notin v
          /\ i - 1 - n \notin v /\ i - 1 # n - 1 /\ i - 1 + (w + 1 - n) = i
          /\ w - n = 0 /\ n # 0
      BY <2>3, <3>1 DEF Positions
    <3>3. C(n) = (0 \in v) BY <1>4, <3>2
    <3> QED BY <2>1, <2>2, <3>2, <3>3
  <2>4. CASE n # w
    <3>1. n1 = n + 1 BY <1>9, <2>4
    <3>2. /\ i - n1 = i - 1 - n /\ (i = n1 - 1 <=> i - 1 = n - 1)
          /\ i + (w + 1 - n1) = i - 1 + (w + 1 - n)
          /\ (i = 0 => i - 1 - n \notin v /\ (i = n1 - 1 <=> n = 0) /\ i - 1 + (w + 1 - n) = w - n)
          /\ (n = 0 => w - n \notin v)
      BY <3>1 DEF Positions
    <3>3. C(n) <=> (n = 0 /\ c) \/ w - n \in v BY <1>2, <1>4, <3>2
    <3> QED BY <2>1, <2>2, <3>2, <3>3
  <2> QED BY <2>3, <2>4
<1>14. R(n1) = Shl(R(n), 1, w) \cup Bit(C(n), 0)
  <2>1. \A i : i \in R(n1) => i \in Positions(w) BY <1>1
  <2>2. \A i : i \in R(n1) <=> i \in Shl(R(n), 1, w) \cup Bit(C(n), 0)
    BY <1>12, <1>13, <2>1
  <2> QED BY <2>2
<1>15. C(n1) = (w - 1 \in R(n))
  <2>1. w - 1 \in R(n) <=> w - 1 - n \in v \/ (c /\ w - 1 = n - 1) \/ w - 1 + (w + 1 - n) \in v
    BY <1>1, <1>10
  <2>2. w - 1 + (w + 1 - n) \notin v /\ (w - 1 = n - 1 <=> n = w) BY DEF Positions
  <2>3. CASE n = w
    <3>1. n1 = 0 /\ w - 1 - n \notin v BY <1>9, <2>3 DEF Positions
    <3> QED BY <1>2, <2>1, <2>2, <2>3, <3>1
  <2>4. CASE n # w
    <3>1. n1 = n + 1 /\ n1 # 0 /\ w - n1 = w - 1 - n BY <1>9, <2>4
    <3> QED BY <1>4, <2>1, <2>2, <2>4, <3>1
  <2> QED BY <2>3, <2>4
<1>16. OneBit("RCL", m.v, m.c, w) = [v |-> Shl(R(n), 1, w) \cup Bit(C(n), 0), c |-> w - 1 \in R(n)]
  <2>1. m.v = R(n) /\ m.c = C(n) BY <1>11
  <2> QED BY <2>1 DEF OneBit
<1>17. Moved("RCL", v, c, k + 1, w) = [v |-> R(n1), c |-> C(n1)]
  <2>1. k + 1 \in Nat OBVIOUS
  <2> QED BY <1>3, <1>8, <2>1
<1>18. Moved("RCL", v, c, 0, w) = [v |-> v, c |-> c] BY <1>2, <1>3, <1>5
<1> QED BY <1>14, <1>15, <1>16, <1>17, <1>18

\* One more bit of RCR.
LEMMA MovedRcr ==
  ASSUME NEW w \in Nat, w > 1, NEW v \in SUBSET Positions(w), NEW c \in BOOLEAN, NEW k \in Nat,
         NEW m, m = Moved("RCR", v, c, k, w)
  PROVE  /\ Moved("RCR", v, c, 0, w) = [v |-> v, c |-> c]
         /\ Moved("RCR", v, c, k + 1, w) = OneBit("RCR", m.v, m.c, w)
<1> DEFINE R(n) == IF n = 0 THEN v ELSE Shr(v, n) \cup Bit(c, w - n) \cup Shl(v, w + 1 - n, w)
           C(n) == IF n = 0 THEN c ELSE n - 1 \in v
<1>1. \A n \in 0 .. w : \A i :
        i \in R(n) <=> i \in Positions(w) /\ (i + n \in v \/ (c /\ i = w - n) \/ i - (w + 1 - n) \in v)
  <2>1. \A n \in 1 .. w : n # 0 OBVIOUS
  <2>2. \A i \in Positions(w) : i + 0 = i /\ i # w - 0 /\ i - (w + 1 - 0) \notin v BY DEF Positions
  <2>3. \A n \in 0 .. w : n = 0 \/ n \in 1 .. w OBVIOUS
  <2>4. R(0) = v /\ \A n \in 1 .. w : R(n) = Shr(v, n) \cup Bit(c, w - n) \cup Shl(v, w + 1 - n, w)
    BY <2>1
  <2> HIDE DEF R
  <2>5. \A i : i \in v => i \in Positions(w) OBVIOUS
  <2>6. \A n \in 1 .. w : \A i : i \in R(n)
          <=> i \in Positions(w) /\ (i + n \in v \/ (c /\ i = w - n) \/ i - (w + 1 - n) \in v)
    <3>1. \A n \in 1 .. w : \A i : i \in Shr(v, n) \cup Bit(c, w - n) \cup Shl(v, w + 1 - n, w)
            <=> i \in Positions(w) /\ (i + n \in v \/ (c /\ i = w - n) \/ i - (w + 1 - n) \in v)
      BY RcrBits
    <3> QED BY <2>4, <3>1
  <2> QED BY <2>2, <2>3, <2>4, <2>5, <2>6
<1>2. R(0) = v /\ C(0) = c OBVIOUS
<1>0. PICK z \in Nat : z = w + 1 OBVIOUS
<1>3. \A n \in Nat : Moved("RCR", v, c, n, w) = [v |-> R(n % z), c |-> C(n % z)]
  BY <1>0 DEF Moved
<1>4. \A n \in 0 .. w : C(n) \in BOOLEAN /\ (n # 0 => C(n) = (n - 1 \in v))
  <2>1. \A n \in 0 .. w : n # 0 => C(n) = (n - 1 \in v) OBVIOUS
  <2>2. \A n : (n - 1 \in v) \in BOOLEAN OBVIOUS
  <2> HIDE DEF C
  <2> QED BY <1>2, <2>1, <2>2
<1> HIDE DEF R, C
<1>5. k % z \in 0 .. z - 1 /\ (k + 1) % z = (IF k % z = z - 1 THEN 0 ELSE (k % z) + 1) /\ 0 % z = 0
  <2>1. z > 0 BY <1>0
  <2>2. 0 % z = 0 BY <2>1
  <2> QED BY <2>1, <2>2, NextRemainder, Zenon
<1>6. z - 1 = w BY <1>0
<1>7. PICK n \in 0 .. w : n = k % z BY <1>5, <1>6
<1>8. PICK n1 \in 0 .. w : n1 = (k + 1) % z
  <2>1. 0 \in 0 .. w /\ \A j \in 0 .. w : j # w => j + 1 \in 0 .. w OBVIOUS
  <2> QED BY <1>5, <1>6, <1>7, <2>1, Zenon
<1>9. n1 = IF n = w THEN 0 ELSE n + 1 BY <1>5, <1>6, <1>7, <1>8, Zenon
<1>10. w - 1 \in Positions(w) /\ 0 \in Positions(w) BY DEF Positions
<1>11. m = [v |-> R(n), c |-> C(n)] BY <1>3, <1>7
<1>12. \A i : i \in Shr(R(n), 1) \cup Bit(C(n), w - 1)
              <=> i \in Positions(w) /\ (i + 1 \in R(n) \/ (C(n) /\ i = w - 1))
  <2>1. \A i : i \in Bit(C(n), w - 1) <=> C(n) /\ i = w - 1 BY <1>4 DEF Bit
  <2>2. R(n) \subseteq Nat BY <1>1 DEF Positions
  <2>3. \A i : i \in Shr(R(n), 1) <=> i \in Nat /\ i + 1 \in R(n) BY <2>2, ShrBits
  <2>4. \A i \in Nat : i + 1 \in R(n) => i \in Positions(w) BY <1>1 DEF Positions
  <2>5. \A i \in Positions(w) : i \in Nat BY DEF Positions
  <2> QED BY <1>10, <2>1, <2>3, <2>4, <2>5
<1>13. ASSUME NEW i \in Positions(w)
       PROVE  i \in R(n1) <=> i + 1 \in R(n) \/ (C(n) /\ i = w - 1)
  <2>1. i + 1 \in R(n) <=> i # w - 1 /\ (i + 1 + n \in v \/ (c /\ i + 1 = w - n) \/ (i + 1) - (w + 1 - n) \in v)
    <3>1. i + 1 \in Positions(w) <=> i # w - 1 BY DEF Positions
    <3>2. PICK j : j = i + 1 OBVIOUS
    <3>3. j \in R(n) <=> j \in Positions(w) /\ (j + n \in v \/ (c /\ j = w - n) \/ j - (w + 1 - n) \in v)
      BY <1>1
    <3> QED BY <3>1, <3>2, <3>3, Zenon
  <2>2. i \in R(n1) <=> i + n1 \in v \/ (c /\ i = w - n1) \/ i - (w + 1 - n1) \in v BY <1>1
  <2>3. CASE n = w
    <3>1. n1 = 0 BY <1>9, <2>3
    <3>2. /\ i + n1 = i /\ i # w - n1 /\ i - (w + 1 - n1) \notin v
          /\ i + 1 + n \notin v /\ i + 1 # w - n /\ (i + 1) - (w + 1 - n) = i
          /\ n - 1 = w - 1 /\ n # 0
      BY <2>3, <3>1 DEF Positions
    <3>3. C(n) = (w - 1 \in v) BY <1>4, <3>2
    <3> QED BY <2>1, <2>2, <3>2, <3>3
  <2>4. CASE n # w
    <3>1. n1 = n + 1 BY <1>9, <2>4
    <3>2. /\ i + n1 = i + 1 + n /\ (i = w - n1 <=> i + 1 = w - n)
          /\ i - (w + 1 - n1) = (i + 1) - (w + 1 - n)
          /\ (i = w - 1 => i + 1 + n \notin v /\ (i = w - n1 <=> n = 0) /\ (i + 1) - (w + 1 - n) = n - 1)
          /\ (n = 0 => n - 1 \notin v)
      BY <3>1 DEF Positions
    <3>3. C(n) <=> (n = 0 /\ c) \/ n - 1 \in v BY <1>2, <1>4, <3>2
    <3> QED BY <2>1, <2>2, <3>2, <3>3
  <2> QED BY <2>3, <2>4
<1>14. R(n1) = Shr(R(n), 1) \cup Bit(C(n), w - 1)
  <2>1. \A i : i \in R(n1) => i \in Positions(w) BY <1>1
  <2>2. \A i : i \in R(n1) <=> i \in Shr(R(n), 1) \cup Bit(C(n), w - 1)
    BY <1>12, <1>13, <2>1
  <2> QED BY <2>2
<1>15. C(n1) = (0 \in R(n))
  <2>1. 0 \in R(n) <=> 0 + n \in v \/ (c /\ 0 = w - n) \/ 0 - (w + 1 - n) \in v
    BY <1>1, <1>10
  <2>2. 0 - (w + 1 - n) \notin v /\ (0 = w - n <=> n = w) /\ 0 + n = n BY DEF Positions
  <2>3. CASE n = w
    <3>1. n1 = 0 /\ n \notin v BY <1>9, <2>3 DEF Positions
    <3> QED BY <1>2, <2>1, <2>2, <2>3, <3>1
  <2>4. CASE n # w
    <3>1. n1 = n + 1 /\ n1 # 0 /\ n1 - 1 = n BY <1>9, <2>4
    <3> QED BY <1>4, <2>1, <2>2, <2>4, <3>1
  <2> QED BY <2>3, <2>4
<1>16. OneBit("RCR", m.v, m.c, w) = [v |-> Shr(R(n), 1) \cup Bit(C(n), w - 1), c |-> 0 \in R(n)]
  <2>1. m.v = R(n) /\ m.c = C(n) BY <1>11
  <2> QED BY <2>1 DEF OneBit
<1>17. Moved("RCR", v, c, k + 1, w) = [v |-> R(n1), c |-> C(n1)]
  <2>1. k + 1 \in Nat OBVIOUS
  <2> QED BY <1>3, <1>8, <2>1
<1>18. Moved("RCR", v, c, 0, w) = [v |-> v, c |-> c] BY <1>2, <1>3, <1>5
<1> QED BY <1>14, <1>15, <1>16, <1>17, <1>18

\* The closed form satisfies the equation of ManyBits, whatever the operation.
LEMMA MovedStep ==
  ASSUME NEW op \in Shifts \cup Rotations, NEW w \in Nat, w > 1, NEW v \in SUBSET Positions(w),
         NEW c \in BOOLEAN, NEW k \in Nat, NEW m, m = Moved(op, v, c, k, w)
  PROVE  /\ Moved(op, v, c, 0, w) = [v |-> v, c |-> c]
         /\ Moved(op, v, c, k + 1, w) = OneBit(op, m.v, m.c, w)
<1>1. op \in {"SHL", "SHR", "SAR", "ROL", "ROR", "RCL", "RCR"} BY DEF Shifts, Rotations
<1>2. CASE op = "SHL" BY <1>2, MovedShl
<1>3. CASE op = "SHR" BY <1>3, MovedShr
<1>4. CASE op = "SAR" BY <1>4, MovedSar
<1>5. CASE op = "ROL" BY <1>5, MovedRol
<1>6. CASE op = "ROR" BY <1>6, MovedRor
<1>7. CASE op = "RCL" BY <1>7, MovedRcl
<1>8. CASE op = "RCR" BY <1>8, MovedRcr
<1> QED BY <1>1, <1>2, <1>3, <1>4, <1>5, <1>6, <1>7, <1>8

\* n shifts by one bit are one shift by n.
LEMMA ManyBitsIsMoved ==
  ASSUME NEW op \in Shifts \cup Rotations, NEW w \in Nat, w > 1, NEW v \in SUBSET Positions(w),
         NEW c \in BOOLEAN, NEW n \in Nat
  PROVE  ManyBits(op, v, c, n, w) = Moved(op, v, c, n, w)
<1> DEFINE M(k) == Moved(op, v, c, k, w)
<1>1. PICK g : g = [k \in 0 .. n |-> M(k)] OBVIOUS
<1>2. \A k \in 0 .. n : g[k] = M(k) BY <1>1
<1>3. M(0) = [v |-> v, c |-> c]
  <2>1. 0 \in Nat OBVIOUS
  <2> QED BY <2>1, MovedStep
<1>4. \A k \in Nat : M(k + 1) = OneBit(op, M(k).v, M(k).c, w) BY MovedStep
<1> HIDE DEF M
<1>5. 0 \in 0 .. n /\ n \in 0 .. n OBVIOUS
<1>6. ASSUME NEW k \in 0 .. n, k # 0 PROVE g[k] = OneBit(op, g[k - 1].v, g[k - 1].c, w)
  <2>1. PICK j \in Nat : j = k - 1 /\ j \in 0 .. n /\ j + 1 = k BY <1>6
  <2>2. g[k] = M(j + 1) /\ g[j] = M(j) BY <1>2, <2>1
  <2>3. g[k] = OneBit(op, g[j].v, g[j].c, w) BY <1>4, <2>2
  <2> QED BY <2>1, <2>3
<1>7. g = [k \in 0 .. n |-> g[k]] BY <1>1
<1>8. Solution(g, op, v, c, n, w) BY <1>2, <1>3, <1>5, <1>6, <1>7 DEF Solution
<1>9. g[n] = M(n) BY <1>2, <1>5
<1> QED BY <1>8, <1>9, Repeated DEF M

\* The flags of a shift or a rotation, as the macros write them and as the
\* reference does.
OneFlag(f, n, over) == IF n = 1 THEN With(f, "OF", over) ELSE f
CarryFlag(f1, n, cf) == IF n > 0 THEN With(f1, "CF", cf) ELSE f1
MacroFlags(f2, n, r, w) == IF n # 0 THEN SAHLR_FLAGS(f2, r, w) ELSE f2
RefFlags(f, n, s, cf, over, r, w) ==
  Replaced(f, (IF n = 0 THEN {} ELSE {"CF"} \cup s) \cup (IF n = 1 THEN {"OF"} ELSE {}),
           (IF cf THEN {"CF"} ELSE {}) \cup (IF over THEN {"OF"} ELSE {}) \cup ResultFlags(r, w))

\* The macros of a shift leave the flags the reference asks for.
LEMMA FlagsOfShift ==
  ASSUME NEW f, NEW n \in Nat, NEW cf \in BOOLEAN, NEW over \in BOOLEAN, NEW r, NEW w
  PROVE  MacroFlags(CarryFlag(OneFlag(f, n, over), n, cf), n, r, w)
           = RefFlags(f, n, {"SF", "ZF", "PF"}, cf, over, r, w)
<1>1. ResultFlags(r, w) \subseteq {"SF", "ZF", "PF"} BY DEF ResultFlags
<1> USE DEF MacroFlags, CarryFlag, OneFlag, RefFlags
<1>2. CASE n = 0 BY <1>2 DEF Replaced
<1>3. CASE n = 1 BY <1>1, <1>3 DEF Replaced, With, SAHLR_FLAGS, WithAll
<1>4. CASE n # 0 /\ n # 1 BY <1>1, <1>4 DEF Replaced, With, SAHLR_FLAGS, WithAll
<1> QED BY <1>2, <1>3, <1>4

\* So do the macros of a rotation.
LEMMA FlagsOfRotation ==
  ASSUME NEW f, NEW n \in Nat, NEW cf \in BOOLEAN, NEW over \in BOOLEAN, NEW r, NEW w
  PROVE  CarryFlag(OneFlag(f, n, over), n, cf) = RefFlags(f, n, {}, cf, over, r, w)
<1>1. ResultFlags(r, w) \subseteq {"SF", "ZF", "PF"} BY DEF ResultFlags
<1> USE DEF CarryFlag, OneFlag, RefFlags
<1>2. CASE n = 0 BY <1>2 DEF Replaced
<1>3. CASE n = 1 BY <1>1, <1>3 DEF Replaced, With
<1>4. CASE n # 0 /\ n # 1 BY <1>1, <1>4 DEF Replaced, With
<1> QED BY <1>2, <1>3, <1>4

\* What the macros write in OF after a shift or a rotation by one.
OverOf(x) ==
  LET top == x.w - 1 \in x.dst
  IN CASE x.op \in {"SHL", "ROL", "RCL"} -> top # (x.w - 2 \in x.dst)
       [] x.op = "SHR" -> top
       [] x.op = "SAR" -> FALSE
       [] x.op = "ROR" -> top # (0 \in x.dst)
       [] x.op = "RCR" -> top # ("CF" \in x.f)

\* What the reference has there, from the result.
RefOver(x, r) ==
  CASE x.op \in {"SHL", "ROL", "RCL"} -> (x.w - 1 \in r.v) # r.c
    [] x.op = "SHR" -> x.w - 1 \in x.dst
    [] x.op = "SAR" -> FALSE
    [] x.op \in {"ROR", "RCR"} -> (x.w - 1 \in r.v) # (x.w - 2 \in r.v)

\* The reference as one shift: its result r and, when the count is one, its OF.
Shifted(x, n, r, over) ==
  Outcome(r.v, RefFlags(x.f, n, IF x.op \in Shifts THEN {"SF", "ZF", "PF"} ELSE {}, r.c, over, r.v, x.w))

\* OF of a count of 1, against the reference.
LEMMA OverOfOne ==
  ASSUME NEW x, WellFormed(x), x.op \in Shifts \cup Rotations, NEW c \in BOOLEAN, c = ("CF" \in x.f),
         NEW r, r = OneBit(x.op, x.dst, c, x.w)
  PROVE  OverOf(x) = RefOver(x, r)
<1> DEFINE w == x.w
           v == x.dst
<1>1. w \in Nat /\ w > 1 /\ v \in SUBSET Positions(w)
  BY DEF WellFormed, Shifts, Rotations, Divisions
<1>2. x.op \in {"SHL", "SHR", "SAR", "ROL", "ROR", "RCL", "RCR"} BY DEF Shifts, Rotations
<1>3. /\ w - 1 \in Positions(w) /\ w - 2 \in Positions(w) /\ w - 1 # 0 /\ w - 2 # w - 1
      /\ w - 1 - 1 = w - 2 /\ w - 2 + 1 = w - 1 /\ w - 1 + 1 = w /\ w \notin v /\ v \subseteq Nat
  BY <1>1 DEF Positions
<1>4. w - 1 \in Shl(v, 1, w) <=> w - 2 \in v
  <2>1. w - 1 \in Shl(v, 1, w) <=> w - 1 \in Positions(w) /\ w - 1 - 1 \in v BY <1>1, ShlBits
  <2> QED BY <2>1, <1>3
<1>5. w - 1 \notin Shr(v, 1) /\ (w - 2 \in Shr(v, 1) <=> w - 1 \in v)
  <2>1. w - 1 \in Nat /\ w - 2 \in Nat /\ 1 \in Nat BY <1>1
  <2>2. \A i : i \in Shr(v, 1) <=> i \in Nat /\ i + 1 \in v BY <1>3, <2>1, ShrBits
  <2> QED BY <1>3, <2>1, <2>2
<1>6. \A b \in BOOLEAN : \A i : w - 1 \notin Bit(b, 0) /\ w - 2 \notin Bit(b, w - 1) /\ (w - 1 \in Bit(b, w - 1) <=> b)
  BY <1>3 DEF Bit
<1>7. (w - 1 \in v) \in BOOLEAN /\ (0 \in v) \in BOOLEAN OBVIOUS
<1>8. CASE x.op \in {"SHL", "ROL", "RCL"}
  <2>1. r.c = (w - 1 \in v) BY <1>8 DEF OneBit
  <2>2. x.op = "SHL" => r.v = Shl(v, 1, w) BY DEF OneBit
  <2>3. x.op = "ROL" => r.v = Shl(v, 1, w) \cup Bit(w - 1 \in v, 0) BY DEF OneBit
  <2>4. x.op = "RCL" => r.v = Shl(v, 1, w) \cup Bit(c, 0) BY DEF OneBit
  <2>5. w - 1 \in r.v <=> w - 2 \in v
    <3>1. CASE x.op = "SHL" BY <1>4, <2>2, <3>1
    <3>2. CASE x.op = "ROL"
      <4>1. w - 1 \notin Bit(w - 1 \in v, 0) BY <1>3 DEF Bit
      <4> QED BY <1>4, <2>3, <3>2, <4>1
    <3>3. CASE x.op = "RCL"
      <4>1. w - 1 \notin Bit(c, 0) BY <1>3 DEF Bit
      <4> QED BY <1>4, <2>4, <3>3, <4>1
    <3> QED BY <1>8, <3>1, <3>2, <3>3
  <2>6. OverOf(x) = ((w - 1 \in v) # (w - 2 \in v)) BY <1>8 DEF OverOf
  <2>7. ((w - 1 \in v) # (w - 2 \in v)) = ((w - 1 \in r.v) # r.c) BY <2>1, <2>5
  <2>8. RefOver(x, r) = ((w - 1 \in r.v) # r.c) BY <1>8 DEF RefOver
  <2> QED BY <2>6, <2>7, <2>8, Zenon
<1>9. CASE x.op = "SHR" BY <1>9 DEF OverOf, RefOver
<1>10. CASE x.op = "SAR" BY <1>10 DEF OverOf, RefOver
<1>11. CASE x.op = "ROR"
  <2>1. r.v = Shr(v, 1) \cup Bit(0 \in v, w - 1) BY <1>11 DEF OneBit
  <2>2. (w - 1 \in r.v <=> 0 \in v) /\ (w - 2 \in r.v <=> w - 1 \in v) BY <1>5, <1>6, <1>7, <2>1
  <2> QED BY <1>11, <2>2 DEF OverOf, RefOver
<1>12. CASE x.op = "RCR"
  <2>1. r.v = Shr(v, 1) \cup Bit(c, w - 1) BY <1>12 DEF OneBit
  <2>2. (w - 1 \in r.v <=> c) /\ (w - 2 \in r.v <=> w - 1 \in v) BY <1>5, <1>6, <1>7, <2>1
  <2>3. w - 1 \in r.v <=> "CF" \in x.f BY <2>2
  <2> QED BY <1>12, <2>2, <2>3 DEF OverOf, RefOver
<1> QED BY <1>2, <1>8, <1>9, <1>10, <1>11, <1>12

\* The carry of the closed form is a bit.
LEMMA MovedCarry ==
  ASSUME NEW op \in Shifts \cup Rotations, NEW w, NEW v, NEW c \in BOOLEAN, NEW k
  PROVE  Moved(op, v, c, k, w).c \in BOOLEAN
<1>1. op \in {"SHL", "SHR", "SAR", "ROL", "ROR", "RCL", "RCR"} BY DEF Shifts, Rotations
<1>2. CASE op = "SHL"
  <2>1. Moved(op, v, c, k, w).c = IF k = 0 THEN c ELSE w - k \in v BY <1>2 DEF Moved
  <2>2. CASE k = 0 BY <2>1, <2>2
  <2>3. CASE ~ (k = 0)
    <3>1. Moved(op, v, c, k, w).c = (w - k \in v) BY <2>1, <2>3, Zenon
    <3>2. (w - k \in v) \in BOOLEAN OBVIOUS
    <3> QED BY <3>1, <3>2, Zenon
  <2> QED BY <2>2, <2>3
<1>3. CASE op = "SHR"
  <2>1. Moved(op, v, c, k, w).c = IF k = 0 THEN c ELSE k - 1 \in v BY <1>3 DEF Moved
  <2>2. CASE k = 0 BY <2>1, <2>2
  <2>3. CASE ~ (k = 0)
    <3>1. Moved(op, v, c, k, w).c = (k - 1 \in v) BY <2>1, <2>3, Zenon
    <3>2. (k - 1 \in v) \in BOOLEAN OBVIOUS
    <3> QED BY <3>1, <3>2, Zenon
  <2> QED BY <2>2, <2>3
<1>4. CASE op = "SAR"
  <2>1. Moved(op, v, c, k, w).c = IF k = 0 THEN c ELSE k - 1 \in v \/ (k - 1 >= w /\ w - 1 \in v)
    BY <1>4 DEF Moved
  <2>2. CASE k = 0 BY <2>1, <2>2
  <2>3. CASE ~ (k = 0)
    <3>1. Moved(op, v, c, k, w).c = (k - 1 \in v \/ (k - 1 >= w /\ w - 1 \in v)) BY <2>1, <2>3, Zenon
    <3>2. (k - 1 \in v \/ (k - 1 >= w /\ w - 1 \in v)) \in BOOLEAN OBVIOUS
    <3> QED BY <3>1, <3>2, Zenon
  <2> QED BY <2>2, <2>3
<1>5. CASE op = "ROL"
  <2>1. PICK r : r = Shl(v, k % w, w) \cup Shr(v, w - (k % w)) OBVIOUS
  <2>2. Moved(op, v, c, k, w).c = IF k = 0 THEN c ELSE 0 \in r BY <1>5, <2>1 DEF Moved
  <2>3. CASE k = 0 BY <2>2, <2>3
  <2>4. CASE ~ (k = 0)
    <3>1. Moved(op, v, c, k, w).c = (0 \in r) BY <2>2, <2>4, Zenon
    <3>2. (0 \in r) \in BOOLEAN OBVIOUS
    <3> QED BY <3>1, <3>2, Zenon
  <2> QED BY <2>3, <2>4
<1>6. CASE op = "ROR"
  <2>1. PICK r : r = Shr(v, k % w) \cup Shl(v, w - (k % w), w) OBVIOUS
  <2>2. Moved(op, v, c, k, w).c = IF k = 0 THEN c ELSE w - 1 \in r BY <1>6, <2>1 DEF Moved
  <2>3. CASE k = 0 BY <2>2, <2>3
  <2>4. CASE ~ (k = 0)
    <3>1. Moved(op, v, c, k, w).c = (w - 1 \in r) BY <2>2, <2>4, Zenon
    <3>2. (w - 1 \in r) \in BOOLEAN OBVIOUS
    <3> QED BY <3>1, <3>2, Zenon
  <2> QED BY <2>3, <2>4
<1>7. CASE op = "RCL"
  <2>1. Moved(op, v, c, k, w).c = IF k % (w + 1) = 0 THEN c ELSE w - (k % (w + 1)) \in v BY <1>7 DEF Moved
  <2>2. CASE k % (w + 1) = 0 BY <2>1, <2>2
  <2>3. CASE ~ (k % (w + 1) = 0)
    <3>1. Moved(op, v, c, k, w).c = (w - (k % (w + 1)) \in v) BY <2>1, <2>3, Zenon
    <3>2. (w - (k % (w + 1)) \in v) \in BOOLEAN OBVIOUS
    <3> QED BY <3>1, <3>2, Zenon
  <2> QED BY <2>2, <2>3
<1>8. CASE op = "RCR"
  <2>1. Moved(op, v, c, k, w).c = IF k % (w + 1) = 0 THEN c ELSE (k % (w + 1)) - 1 \in v BY <1>8 DEF Moved
  <2>2. CASE k % (w + 1) = 0 BY <2>1, <2>2
  <2>3. CASE ~ (k % (w + 1) = 0)
    <3>1. Moved(op, v, c, k, w).c = ((k % (w + 1)) - 1 \in v) BY <2>1, <2>3, Zenon
    <3>2. ((k % (w + 1)) - 1 \in v) \in BOOLEAN OBVIOUS
    <3> QED BY <3>1, <3>2, Zenon
  <2> QED BY <2>2, <2>3
<1> QED BY <1>1, <1>2, <1>3, <1>4, <1>5, <1>6, <1>7, <1>8

\* The closed form of one bit.
LEMMA MovedOne ==
  ASSUME NEW op \in Shifts \cup Rotations, NEW w \in Nat, w > 1, NEW v \in SUBSET Positions(w), NEW c \in BOOLEAN
  PROVE  Moved(op, v, c, 1, w) = OneBit(op, v, c, w)
<1>1. 0 \in Nat /\ 0 + 1 = 1 OBVIOUS
<1>2. PICK m : m = Moved(op, v, c, 0, w) OBVIOUS
<1>3. m = [v |-> v, c |-> c] /\ Moved(op, v, c, 0 + 1, w) = OneBit(op, m.v, m.c, w)
  BY <1>1, <1>2, MovedStep
<1>4. m.v = v /\ m.c = c BY <1>3
<1> QED BY <1>1, <1>3, <1>4

\* What the reference asks of a shift or a rotation, in closed form.
LEMMA ShiftReference ==
  ASSUME NEW x, WellFormed(x), x.op \in Shifts \cup Rotations, NEW c \in BOOLEAN, c = ("CF" \in x.f),
         NEW n, n = x.n % 32, NEW r, r = Moved(x.op, x.dst, c, n, x.w)
  PROVE  /\ n \in 0 .. 31 /\ r.c \in BOOLEAN
         /\ \E over \in BOOLEAN : Reference(x) = Shifted(x, n, r, over) /\ (n = 1 => over = OverOf(x))
<1> DEFINE over == RefOver(x, r)
<1>1. x.w \in Nat /\ x.w > 1 /\ x.dst \in SUBSET Positions(x.w) /\ x.n \in Nat
  BY DEF WellFormed, Shifts, Rotations, Divisions
<1>2. x.op \in {"SHL", "SHR", "SAR", "ROL", "ROR", "RCL", "RCR"} BY DEF Shifts, Rotations
<1>3. n \in 0 .. 31 /\ n \in Nat BY <1>1
<1>4. over \in BOOLEAN
  <2>1. CASE x.op \in {"SHL", "ROL", "RCL"} BY <2>1 DEF RefOver
  <2>2. CASE x.op \in {"ROR", "RCR"} BY <2>2 DEF RefOver
  <2>3. CASE x.op = "SHR" BY <2>3 DEF RefOver
  <2>4. CASE x.op = "SAR" BY <2>4 DEF RefOver
  <2> QED BY <1>2, <2>1, <2>2, <2>3, <2>4
<1>6. r.c \in BOOLEAN BY MovedCarry
<1>7. ManyBits(x.op, x.dst, c, n, x.w) = r BY <1>1, <1>3, ManyBitsIsMoved, Zenon
<1>8. Reference(x) = RefShift(x)
  <2>1. x.op \notin DoubleShifts \cup Additions \cup Subtractions \cup Products \cup Divisions
    BY <1>2 DEF DoubleShifts, Additions, Subtractions, Products, Divisions
  <2> QED BY <2>1 DEF Reference
<1>9. RefShift(x) = Shifted(x, n, r, over) BY <1>7 DEF RefShift, Shifted, RefOver, RefFlags
<1>10. n = 1 => over = OverOf(x)
  <2> SUFFICES ASSUME n = 1 PROVE over = OverOf(x) OBVIOUS
  <2>1. r = OneBit(x.op, x.dst, c, x.w) BY <1>1, MovedOne, Zenon
  <2> QED BY <2>1, OverOfOne, Zenon
<1> QED BY <1>3, <1>4, <1>6, <1>8, <1>9, <1>10

\* A macro of this form leaves what a shift promises.
LEMMA ShiftMatches ==
  ASSUME NEW x, WellFormed(x), x.op \in Shifts, NEW c \in BOOLEAN, c = ("CF" \in x.f),
         NEW n, n = x.n % 32, NEW r, r = Moved(x.op, x.dst, c, n, x.w),
         Interpreted(x) = Outcome(r.v, MacroFlags(CarryFlag(OneFlag(x.f, n, OverOf(x)), n, r.c), n, r.v, x.w))
  PROVE  Matches(Interpreted(x), x)
<1>0. x.op \in Shifts \cup Rotations OBVIOUS
<1>1. PICK over \in BOOLEAN :
        /\ n \in 0 .. 31 /\ r.c \in BOOLEAN /\ Reference(x) = Shifted(x, n, r, over)
        /\ n = 1 => over = OverOf(x)
  BY <1>0, ShiftReference, Zenon
<1>2. OneFlag(x.f, n, OverOf(x)) = OneFlag(x.f, n, over)
  <2>1. CASE n = 1 BY <1>1, <2>1, Zenon
  <2>2. CASE n # 1 BY <2>2 DEF OneFlag
  <2> QED BY <2>1, <2>2
<1>3. n \in Nat BY <1>1
<1>4. MacroFlags(CarryFlag(OneFlag(x.f, n, over), n, r.c), n, r.v, x.w)
        = RefFlags(x.f, n, {"SF", "ZF", "PF"}, r.c, over, r.v, x.w)
  BY <1>1, <1>3, FlagsOfShift
<1>5. (IF x.op \in Shifts THEN {"SF", "ZF", "PF"} ELSE {}) = {"SF", "ZF", "PF"} OBVIOUS
<1>6. Interpreted(x) = Reference(x) BY <1>1, <1>2, <1>4, <1>5, Zenon DEF Shifted
<1> QED BY <1>6 DEF Matches, Xor

\* A macro of this form leaves what a rotation promises.
LEMMA RotationMatches ==
  ASSUME NEW x, WellFormed(x), x.op \in Rotations, NEW c \in BOOLEAN, c = ("CF" \in x.f),
         NEW n, n = x.n % 32, NEW r, r = Moved(x.op, x.dst, c, n, x.w), NEW g,
         Xor(g, CarryFlag(OneFlag(x.f, n, OverOf(x)), n, r.c)) \subseteq DeviantFlags(x),
         Interpreted(x) = Outcome(r.v, g)
  PROVE  Matches(Interpreted(x), x)
<1>0. x.op \in Shifts \cup Rotations /\ x.op \notin Shifts BY DEF Shifts, Rotations
<1>1. PICK over \in BOOLEAN :
        /\ n \in 0 .. 31 /\ r.c \in BOOLEAN /\ Reference(x) = Shifted(x, n, r, over)
        /\ n = 1 => over = OverOf(x)
  BY <1>0, ShiftReference, Zenon
<1>2. OneFlag(x.f, n, OverOf(x)) = OneFlag(x.f, n, over)
  <2>1. CASE n = 1 BY <1>1, <2>1, Zenon
  <2>2. CASE n # 1 BY <2>2 DEF OneFlag
  <2> QED BY <2>1, <2>2
<1>3. n \in Nat BY <1>1
<1>4. PICK ref : ref = RefFlags(x.f, n, {}, r.c, over, r.v, x.w) OBVIOUS
<1>5. CarryFlag(OneFlag(x.f, n, over), n, r.c) = ref
  BY <1>1, <1>3, <1>4, FlagsOfRotation
<1>6. (IF x.op \in Shifts THEN {"SF", "ZF", "PF"} ELSE {}) = {} BY <1>0
<1>7. Reference(x) = Outcome(r.v, ref) BY <1>1, <1>4, <1>6, Zenon DEF Shifted
<1>8. Xor(g, ref) \subseteq DeviantFlags(x) BY <1>2, <1>5
<1> QED BY <1>7, <1>8 DEF Matches, Outcome

\* SHL, SHR and SAR, by any count.
LEMMA ShiftsMatch ==
  ASSUME NEW x, WellFormed(x), x.op \in Shifts
  PROVE  Matches(Interpreted(x), x)
<1> DEFINE w == x.w
           v == x.dst
<1>0. ("CF" \in x.f) \in BOOLEAN OBVIOUS
<1>1. PICK c \in BOOLEAN : c = ("CF" \in x.f) BY <1>0, Zenon
<1>2. PICK n : n = x.n % 32 OBVIOUS
<1>3. PICK r : r = Moved(x.op, v, c, n, w) OBVIOUS
<1>4. w \in Nat /\ w > 1 /\ v \in SUBSET Positions(w) /\ x.n \in Nat
  BY DEF WellFormed, Shifts, Divisions
<1>5. n \in 0 .. 31 /\ n \in Nat BY <1>2, <1>4
<1>6. PICK f1 : f1 = OneFlag(x.f, n, OverOf(x)) OBVIOUS
<1>7. PICK f2 : f2 = CarryFlag(f1, n, r.c) OBVIOUS
<1>8. v \subseteq Nat BY <1>4 DEF Positions
<1>9. \A i : i \in Shr(v, n) <=> i \in Nat /\ i + n \in v BY <1>5, <1>8, ShrBits
<1>10. n >= w => Shl(v, n, w) = {} /\ Shr(v, n) = {}
  <2>1. n >= w => Shl(v, n, w) = {} BY <1>4, <1>5 DEF Shl, Positions
  <2>2. n >= w => Shr(v, n) = {} BY <1>4, <1>5, <1>9 DEF Positions
  <2> QED BY <2>1, <2>2
<1>11. n > w => w - n \notin v /\ n - 1 \notin v BY <1>4, <1>5 DEF Positions
<1> SUFFICES Interpreted(x) = Outcome(r.v, MacroFlags(f2, n, r.v, x.w))
  BY <1>1, <1>2, <1>3, <1>6, <1>7, ShiftMatches, Zenon
<1>12. CASE x.op = "SHL"
  <2>1. r = [v |-> Shl(v, n, w), c |-> IF n = 0 THEN c ELSE w - n \in v] BY <1>3, <1>12 DEF Moved
  <2>2. OverOf(x) = ((w - 1 \in v) # (w - 2 \in v)) BY <1>12 DEF OverOf
  <2>3. Interpreted(x) = SHL(x) BY <1>12 DEF Interpreted
  <2>4. f2 = IF n > w THEN f1 \ {"CF"} ELSE IF n > 0 THEN With(f1, "CF", w - n \in v) ELSE f1
    <3>1. CASE n > w
      <4>0. n > 0 /\ n # 0 BY <1>4, <1>5, <3>1
      <4>1. ~ r.c /\ n > 0 BY <1>11, <2>1, <3>1, <4>0
      <4> QED BY <1>7, <3>1, <4>1 DEF With, CarryFlag
    <3>2. CASE ~ (n > w) /\ n > 0
      <4>1. r.c = (w - n \in v) BY <2>1, <3>2
      <4> QED BY <1>7, <3>2, <4>1 DEF CarryFlag
    <3>3. CASE ~ (n > w) /\ ~ (n > 0) BY <1>7, <3>3 DEF CarryFlag
    <3> QED BY <3>1, <3>2, <3>3
  <2>5. r.v = IF n >= w THEN {} ELSE Shl(v, n, w) BY <1>10, <2>1
  <2>6. f1 = IF n = 1 THEN With(x.f, "OF", (w - 1 \in v) # (w - 2 \in v)) ELSE x.f BY <1>6, <2>2 DEF OneFlag
  <2> QED BY <1>2, <2>3, <2>4, <2>5, <2>6, Zenon DEF SHL, MacroFlags
<1>13. CASE x.op = "SHR"
  <2>1. r = [v |-> Shr(v, n), c |-> IF n = 0 THEN c ELSE n - 1 \in v] BY <1>3, <1>13 DEF Moved
  <2>2. OverOf(x) = (w - 1 \in v) BY <1>13 DEF OverOf
  <2>3. Interpreted(x) = SHR(x) BY <1>13 DEF Interpreted
  <2>4. f2 = IF n > w THEN f1 \ {"CF"} ELSE IF n > 0 THEN With(f1, "CF", n - 1 \in v) ELSE f1
    <3>1. CASE n > w
      <4>0. n > 0 /\ n # 0 BY <1>4, <1>5, <3>1
      <4>1. ~ r.c /\ n > 0 BY <1>11, <2>1, <3>1, <4>0
      <4> QED BY <1>7, <3>1, <4>1 DEF With, CarryFlag
    <3>2. CASE ~ (n > w) /\ n > 0
      <4>1. r.c = (n - 1 \in v) BY <2>1, <3>2
      <4> QED BY <1>7, <3>2, <4>1 DEF CarryFlag
    <3>3. CASE ~ (n > w) /\ ~ (n > 0) BY <1>7, <3>3 DEF CarryFlag
    <3> QED BY <3>1, <3>2, <3>3
  <2>5. r.v = IF n >= w THEN {} ELSE Shr(v, n) BY <1>10, <2>1
  <2>6. f1 = IF n = 1 THEN With(x.f, "OF", w - 1 \in v) ELSE x.f BY <1>6, <2>2 DEF OneFlag
  <2> QED BY <1>2, <2>3, <2>4, <2>5, <2>6, Zenon DEF SHR, MacroFlags
<1>14. CASE x.op = "SAR"
  <2> DEFINE sign == w - 1 \in v
  <2>1. r = [v |-> {i \in Positions(w) : i + n \in v \/ (i + n >= w /\ sign)},
             c |-> IF n = 0 THEN c ELSE n - 1 \in v \/ (n - 1 >= w /\ sign)]
    BY <1>3, <1>14 DEF Moved
  <2>2. OverOf(x) = FALSE BY <1>14 DEF OverOf
  <2>3. Interpreted(x) = SAR(x) BY <1>14 DEF Interpreted
  <2>4. f2 = IF n >= w THEN With(f1, "CF", sign) ELSE IF n > 0 THEN With(f1, "CF", n - 1 \in v) ELSE f1
    <3>1. CASE n >= w
      <4>1. n > 0 /\ n # 0 BY <1>4, <1>5, <3>1
      <4>2. (n - 1 \in v \/ (n - 1 >= w /\ sign)) <=> sign
        <5>1. n - 1 \in v => n - 1 = w - 1 BY <1>4, <1>5, <3>1 DEF Positions
        <5>2. n - 1 = w - 1 \/ n - 1 >= w BY <1>4, <1>5, <3>1
        <5>3. n - 1 = w - 1 => (n - 1 \in v <=> sign) OBVIOUS
        <5> QED BY <5>1, <5>2, <5>3
      <4>3. r.c = sign BY <2>1, <4>1, <4>2
      <4> QED BY <1>7, <3>1, <4>1, <4>3 DEF CarryFlag
    <3>2. CASE ~ (n >= w) /\ n > 0
      <4>1. ~ (n - 1 >= w) /\ n # 0 BY <1>4, <1>5, <3>2
      <4>2. r.c = (n - 1 \in v) BY <2>1, <4>1
      <4> QED BY <1>7, <3>2, <4>2 DEF CarryFlag
    <3>3. CASE ~ (n >= w) /\ ~ (n > 0) BY <1>7, <3>3 DEF CarryFlag
    <3> QED BY <3>1, <3>2, <3>3
  <2>5. r.v = IF n >= w THEN (IF sign THEN Positions(w) ELSE {}) ELSE Sar(v, n, w)
    <3>1. \A i \in Positions(w) : n >= w => i + n >= w /\ i + n \notin v BY <1>4, <1>5 DEF Positions
    <3>2. CASE n >= w
      <4>1. CASE sign BY <2>1, <3>1, <3>2, <4>1
      <4>2. CASE ~ sign BY <2>1, <3>1, <3>2, <4>2
      <4> QED BY <4>1, <4>2
    <3>3. CASE ~ (n >= w)
      <4>1. \A i \in Positions(w) : i + n >= w <=> i >= w - n BY <1>4, <1>5 DEF Positions
      <4>2. \A i \in Nat : i + n \in v => i \in Positions(w) BY <1>4, <1>5 DEF Positions
      <4>3. \A i \in Positions(w) : i \in Nat BY DEF Positions
      <4>4. Sar(v, n, w) = {i \in Positions(w) : i + n \in v \/ (i + n >= w /\ sign)}
        <5>1. CASE sign
          <6>1. Sar(v, n, w) = Shr(v, n) \cup {i \in Positions(w) : i >= w - n} BY <5>1 DEF Sar
          <6> QED BY <1>9, <4>1, <4>2, <4>3, <5>1, <6>1
        <5>2. CASE ~ sign
          <6>1. Sar(v, n, w) = Shr(v, n) BY <5>2 DEF Sar
          <6> QED BY <1>9, <4>1, <4>2, <4>3, <5>2, <6>1
        <5> QED BY <5>1, <5>2
      <4> QED BY <2>1, <3>3, <4>4
    <3> QED BY <3>2, <3>3
  <2>6. f1 = IF n = 1 THEN x.f \ {"OF"} ELSE x.f BY <1>6, <2>2 DEF With, OneFlag
  <2> QED BY <1>2, <2>3, <2>4, <2>5, <2>6, Zenon DEF SAR, MacroFlags
<1> QED BY <1>12, <1>13, <1>14 DEF Shifts

\* ROL, ROR, RCL and RCR, by any count.
LEMMA RotationsMatch ==
  ASSUME NEW x, WellFormed(x), x.op \in Rotations
  PROVE  Matches(Interpreted(x), x)
<1> DEFINE w == x.w
           v == x.dst
<1>0. ("CF" \in x.f) \in BOOLEAN OBVIOUS
<1>1. PICK c \in BOOLEAN : c = ("CF" \in x.f) BY <1>0, Zenon
<1>2. PICK n : n = x.n % 32 OBVIOUS
<1>3. PICK r : r = Moved(x.op, v, c, n, w) OBVIOUS
<1>4. w \in Nat /\ w > 1 /\ v \in SUBSET Positions(w) /\ x.n \in Nat
  BY DEF WellFormed, Rotations, Divisions
<1>5. n \in 0 .. 31 /\ n \in Nat BY <1>2, <1>4
<1>6. PICK f1 : f1 = OneFlag(x.f, n, OverOf(x)) OBVIOUS
<1>7. PICK f2 : f2 = CarryFlag(f1, n, r.c) OBVIOUS
<1>8. PICK m : m = n % w OBVIOUS
<1>9. PICK k : k = n % (w + 1) OBVIOUS
<1>10. m \in 0 .. w - 1 /\ m \in 0 .. w
  <2>1. w > 0 BY <1>4
  <2>2. m \in 0 .. w - 1 BY <1>4, <1>5, <1>8, <2>1, NextRemainder, Zenon
  <2> QED BY <1>4, <2>2
<1>11. k \in 0 .. w
  <2>1. PICK z \in Nat : z = w + 1 BY <1>4
  <2>2. z > 0 BY <1>4, <2>1
  <2>3. k \in 0 .. z - 1 BY <1>5, <1>9, <2>1, <2>2, NextRemainder, Zenon
  <2> QED BY <1>4, <2>1, <2>3
<1>12. k = 0 => n # 1
  <2>1. PICK z \in Nat : z = w + 1 BY <1>4
  <2>2. z > 0 /\ 1 \in 0 .. z - 1 /\ 1 \in Nat /\ 0 \in Nat /\ 1 = 0 * z + 1 BY <1>4, <2>1
  <2>3. 1 % z = 1 BY <2>2, Quotient, Zenon
  <2>4. n = 1 => k = 1 BY <1>9, <2>1, <2>3, Zenon
  <2> QED BY <2>4
<1>13. k # 0 => n # 0
  <2>1. PICK z \in Nat : z = w + 1 BY <1>4
  <2>2. z > 0 /\ 0 \in 0 .. z - 1 /\ 0 \in Nat /\ 0 = 0 * z + 0 BY <1>4, <2>1
  <2>3. 0 % z = 0 BY <2>2, Quotient, Zenon
  <2>4. n = 0 => k = 0 BY <1>9, <2>1, <2>3, Zenon
  <2> QED BY <2>4
<1>14. \A g : Xor(g, f2) \subseteq DeviantFlags(x) /\ Interpreted(x) = Outcome(r.v, g) => Matches(Interpreted(x), x)
  BY <1>1, <1>2, <1>3, <1>6, <1>7, RotationMatches, Zenon
<1>15. \A b : n # 0 /\ r.c = b => f2 = With(f1, "CF", b)
  <2>1. n # 0 => n > 0 BY <1>5
  <2> QED BY <1>7, <2>1 DEF CarryFlag
<1>16. \A b : n = 0 => Xor(With(f1, "CF", b), f2) \subseteq {"CF"}
  <2>1. n = 0 => f2 = f1 BY <1>7 DEF CarryFlag
  <2> QED BY <2>1 DEF With, Xor
<1>17. \A g : Xor(g, g) = {} BY DEF Xor
<1>18. k = 0 /\ r.c = c => f2 = f1
  <2>1. CASE n = 0 BY <1>7, <2>1 DEF CarryFlag
  <2>2. CASE n # 0 /\ k = 0
    <3>1. f1 = x.f BY <1>6, <1>12, <2>2 DEF OneFlag
    <3>2. With(x.f, "CF", c) = x.f BY <1>1 DEF With
    <3> QED BY <1>15, <2>2, <3>1, <3>2, Zenon
  <2> QED BY <2>1, <2>2
<1>19. CASE x.op = "ROL"
  <2>1. PICK s : s = Shl(v, m, w) \cup Shr(v, w - m) OBVIOUS
  <2>2. r = [v |-> s, c |-> IF n = 0 THEN c ELSE 0 \in s] BY <1>3, <1>8, <1>19, <2>1, Zenon DEF Moved
  <2>3. (IF m > 0 THEN Shl(v, m, w) \cup Shr(v, w - m) ELSE v) = s
    <3>1. CASE m > 0 BY <2>1, <3>1
    <3>2. CASE m = 0
      <4>1. \A i : i \in s <=> i \in Positions(w) /\ (i - m \in v \/ i + (w - m) \in v)
        BY <1>4, <1>10, <2>1, RolBits, Zenon
      <4>2. \A i \in Positions(w) : i - m = i /\ i + (w - m) \notin v BY <1>4, <3>2 DEF Positions
      <4>3. \A i : i \in s <=> i \in v BY <1>4, <4>1, <4>2
      <4> QED BY <3>2, <4>3
    <3> QED BY <1>10, <3>1, <3>2
  <2>4. OverOf(x) = ((w - 1 \in v) # (w - 2 \in v)) BY <1>19 DEF OverOf
  <2>5. f1 = IF n = 1 THEN With(x.f, "OF", (w - 1 \in v) # (w - 2 \in v)) ELSE x.f BY <1>6, <2>4 DEF OneFlag
  <2>6. ROL(x) = Outcome(s, With(f1, "CF", 0 \in s)) BY <1>2, <1>8, <2>1, <2>3, <2>5, Zenon DEF ROL
  <2>7. Interpreted(x) = Outcome(r.v, With(f1, "CF", 0 \in s)) BY <1>19, <2>2, <2>6 DEF Interpreted
  <2>8. Xor(With(f1, "CF", 0 \in s), f2) \subseteq DeviantFlags(x)
    <3>1. CASE n # 0
      <4>1. r.c = (0 \in s) BY <2>2, <3>1
      <4>2. f2 = With(f1, "CF", 0 \in s) BY <1>15, <3>1, <4>1
      <4> QED BY <1>17, <4>2
    <3>2. CASE n = 0
      <4>1. DeviantFlags(x) = {"CF"} BY <1>2, <1>19, <3>2 DEF DeviantFlags
      <4> QED BY <1>16, <3>2, <4>1
    <3> QED BY <3>1, <3>2
  <2> QED BY <1>14, <2>7, <2>8
<1>20. CASE x.op = "ROR"
  <2>1. PICK s : s = Shr(v, m) \cup Shl(v, w - m, w) OBVIOUS
  <2>2. r = [v |-> s, c |-> IF n = 0 THEN c ELSE w - 1 \in s] BY <1>3, <1>8, <1>20, <2>1, Zenon DEF Moved
  <2>3. (IF m > 0 THEN Shl(v, w - m, w) \cup Shr(v, m) ELSE v) = s
    <3>1. CASE m > 0 BY <2>1, <3>1
    <3>2. CASE m = 0
      <4>1. \A i : i \in s <=> i \in Positions(w) /\ (i + m \in v \/ i - (w - m) \in v)
        BY <1>4, <1>10, <2>1, RorBits, Zenon
      <4>2. \A i \in Positions(w) : i + m = i /\ i - (w - m) \notin v BY <1>4, <3>2 DEF Positions
      <4>3. \A i : i \in s <=> i \in v BY <1>4, <4>1, <4>2
      <4> QED BY <3>2, <4>3
    <3> QED BY <1>10, <3>1, <3>2
  <2>4. OverOf(x) = ((w - 1 \in v) # (0 \in v)) BY <1>20 DEF OverOf
  <2>5. f1 = IF n = 1 THEN With(x.f, "OF", (w - 1 \in v) # (0 \in v)) ELSE x.f BY <1>6, <2>4 DEF OneFlag
  <2>6. ROR(x) = Outcome(s, With(f1, "CF", w - 1 \in s)) BY <1>2, <1>8, <2>1, <2>3, <2>5, Zenon DEF ROR
  <2>7. Interpreted(x) = Outcome(r.v, With(f1, "CF", w - 1 \in s)) BY <1>20, <2>2, <2>6 DEF Interpreted
  <2>8. Xor(With(f1, "CF", w - 1 \in s), f2) \subseteq DeviantFlags(x)
    <3>1. CASE n # 0
      <4>1. r.c = (w - 1 \in s) BY <2>2, <3>1
      <4>2. f2 = With(f1, "CF", w - 1 \in s) BY <1>15, <3>1, <4>1
      <4> QED BY <1>17, <4>2
    <3>2. CASE n = 0
      <4>1. DeviantFlags(x) = {"CF"} BY <1>2, <1>20, <3>2 DEF DeviantFlags
      <4> QED BY <1>16, <3>2, <4>1
    <3> QED BY <3>1, <3>2
  <2> QED BY <1>14, <2>7, <2>8
<1>21. CASE x.op = "RCL"
  <2>1. PICK s : s = Shl(v, k, w) \cup Bit(c, k - 1) \cup Shr(v, w + 1 - k) OBVIOUS
  <2>2. r = IF k = 0 THEN [v |-> v, c |-> c] ELSE [v |-> s, c |-> w - k \in v]
    BY <1>3, <1>9, <1>21, <2>1, Zenon DEF Moved
  <2>3. OverOf(x) = ((w - 1 \in v) # (w - 2 \in v)) BY <1>21 DEF OverOf
  <2>4. f1 = IF n = 1 THEN With(x.f, "OF", (w - 1 \in v) # (w - 2 \in v)) ELSE x.f BY <1>6, <2>3 DEF OneFlag
  <2>5. RCL(x) = IF k = 0 THEN Outcome(v, f1) ELSE Outcome(s, With(f1, "CF", w - k \in v))
    BY <1>1, <1>2, <1>9, <2>1, <2>4, Zenon DEF RCL
  <2>6. Interpreted(x) = RCL(x) BY <1>21 DEF Interpreted
  <2>7. CASE k = 0
    <3>1. r.v = v /\ r.c = c BY <2>2, <2>7
    <3>2. Interpreted(x) = Outcome(r.v, f1) BY <2>5, <2>6, <2>7, <3>1
    <3>3. Xor(f1, f2) \subseteq DeviantFlags(x) BY <1>17, <1>18, <2>7, <3>1
    <3> QED BY <1>14, <3>2, <3>3
  <2>8. CASE k # 0
    <3>1. r.v = s /\ r.c = (w - k \in v) BY <2>2, <2>8
    <3>2. Interpreted(x) = Outcome(r.v, With(f1, "CF", w - k \in v)) BY <2>5, <2>6, <2>8, <3>1
    <3>3. Xor(With(f1, "CF", w - k \in v), f2) \subseteq DeviantFlags(x) BY <1>13, <1>15, <1>17, <2>8, <3>1
    <3> QED BY <1>14, <3>2, <3>3
  <2> QED BY <2>7, <2>8
<1>22. CASE x.op = "RCR"
  <2>1. PICK s : s = Shr(v, k) \cup Bit(c, w - k) \cup Shl(v, w + 1 - k, w) OBVIOUS
  <2>2. r = IF k = 0 THEN [v |-> v, c |-> c] ELSE [v |-> s, c |-> k - 1 \in v]
    BY <1>3, <1>9, <1>22, <2>1, Zenon DEF Moved
  <2>3. OverOf(x) = ((w - 1 \in v) # ("CF" \in x.f)) BY <1>22 DEF OverOf
  <2>4. f1 = IF n = 1 THEN With(x.f, "OF", (w - 1 \in v) # ("CF" \in x.f)) ELSE x.f BY <1>6, <2>3 DEF OneFlag
  <2>5. RCR(x) = IF k = 0 THEN Outcome(v, f1) ELSE Outcome(s, With(f1, "CF", k - 1 \in v))
    BY <1>1, <1>2, <1>9, <2>1, <2>4, Zenon DEF RCR
  <2>6. Interpreted(x) = RCR(x) BY <1>22 DEF Interpreted
  <2>7. CASE k = 0
    <3>1. r.v = v /\ r.c = c BY <2>2, <2>7
    <3>2. Interpreted(x) = Outcome(r.v, f1) BY <2>5, <2>6, <2>7, <3>1
    <3>3. Xor(f1, f2) \subseteq DeviantFlags(x) BY <1>17, <1>18, <2>7, <3>1
    <3> QED BY <1>14, <3>2, <3>3
  <2>8. CASE k # 0
    <3>1. r.v = s /\ r.c = (k - 1 \in v) BY <2>2, <2>8
    <3>2. Interpreted(x) = Outcome(r.v, With(f1, "CF", k - 1 \in v)) BY <2>5, <2>6, <2>8, <3>1
    <3>3. Xor(With(f1, "CF", k - 1 \in v), f2) \subseteq DeviantFlags(x) BY <1>13, <1>15, <1>17, <2>8, <3>1
    <3> QED BY <1>14, <3>2, <3>3
  <2> QED BY <2>7, <2>8
<1> QED BY <1>19, <1>20, <1>21, <1>22 DEF Rotations

\* The flags of a double shift by 1 .. w.
LEMMA FlagsOfDouble ==
  ASSUME NEW f, NEW n \in Nat, n # 0, NEW cf \in BOOLEAN, NEW over \in BOOLEAN, NEW r, NEW w
  PROVE  SAHLR_FLAGS(OneFlag(With(f, "CF", cf), n, over), r, w)
           = Replaced(f, (IF n = 0 THEN {} ELSE {"CF", "SF", "ZF", "PF"}) \cup (IF n = 1 THEN {"OF"} ELSE {}),
                      (IF cf THEN {"CF"} ELSE {}) \cup (IF over THEN {"OF"} ELSE {}) \cup ResultFlags(r, w))
<1>1. ResultFlags(r, w) \subseteq {"SF", "ZF", "PF"} BY DEF ResultFlags
<1>2. CASE n = 1 BY <1>1, <1>2 DEF Replaced, With, SAHLR_FLAGS, WithAll, OneFlag
<1>3. CASE n # 1 BY <1>1, <1>3 DEF Replaced, With, SAHLR_FLAGS, WithAll, OneFlag
<1> QED BY <1>2, <1>3

\* What the reference makes of the shift of the concatenation, by result and
\* bit shifted out.
RefDoubled(x, n, v, gone) ==
  Outcome(v, Replaced(x.f, (IF n = 0 THEN {} ELSE {"CF", "SF", "ZF", "PF"}) \cup (IF n = 1 THEN {"OF"} ELSE {}),
                      (IF gone THEN {"CF"} ELSE {})
                      \cup (IF (x.w - 1 \in v) # (x.w - 1 \in x.dst) THEN {"OF"} ELSE {})
                      \cup ResultFlags(v, x.w)))

\* Nothing is shifted by 0, and the bit shifted out is read for any other count.
Counted(x, n, v, gone, b) ==
  /\ n = DoubleCount(x) /\ n <= x.w
  /\ n = 0 => v = x.dst
  /\ n # 0 => b = gone

\* What SHLD and SHRD do with their result is what the reference does.
LEMMA DoubledIsReference ==
  ASSUME NEW x, NEW n \in Nat, x.w \in Nat, NEW gone \in BOOLEAN, NEW v, NEW b \in BOOLEAN,
         Counted(x, n, v, gone, b)
  PROVE  Doubled(x, v, gone) = RefDoubled(x, n, v, b)
<1>0. n <= x.w /\ n = DoubleCount(x) /\ (n = 0 => v = x.dst) /\ (n # 0 => b = gone) BY DEF Counted
<1>1. CASE n = 0
  <2>1. Doubled(x, v, gone) = Outcome(x.dst, x.f) BY <1>0, <1>1 DEF Doubled
  <2>2. RefDoubled(x, n, v, b) = Outcome(x.dst, x.f) BY <1>0, <1>1 DEF RefDoubled, Replaced
  <2> QED BY <2>1, <2>2
<1>2. CASE n # 0
  <2>1. PICK over \in BOOLEAN : over = (x.w - 1 \in Xor(v, x.dst))
    <3>1. (x.w - 1 \in Xor(v, x.dst)) \in BOOLEAN OBVIOUS
    <3> QED BY <3>1, Zenon
  <2>2. over <=> ((x.w - 1 \in v) # (x.w - 1 \in x.dst))
    <3>1. x.w - 1 \in Xor(v, x.dst) <=> ((x.w - 1 \in v) # (x.w - 1 \in x.dst)) BY DEF Xor
    <3> QED BY <2>1, <3>1
  <2>3. Doubled(x, v, gone) = Outcome(v, SAHLR_FLAGS(OneFlag(With(x.f, "CF", gone), n, over), v, x.w))
    <3>1. n > 0 /\ n <= x.w BY <1>0, <1>2
    <3> QED BY <1>0, <2>1, <3>1, Zenon DEF Doubled, OneFlag
  <2>4. (IF (x.w - 1 \in v) # (x.w - 1 \in x.dst) THEN {"OF"} ELSE {}) = IF over THEN {"OF"} ELSE {}
    BY <2>2
  <2>5. RefDoubled(x, n, v, b)
          = Outcome(v, Replaced(x.f, (IF n = 0 THEN {} ELSE {"CF", "SF", "ZF", "PF"}) \cup (IF n = 1 THEN {"OF"} ELSE {}),
                    (IF gone THEN {"CF"} ELSE {}) \cup (IF over THEN {"OF"} ELSE {}) \cup ResultFlags(v, x.w)))
    <3>1. b = gone BY <1>0, <1>2, Zenon
    <3> QED BY <2>4, <3>1, Zenon DEF RefDoubled
  <2>6. SAHLR_FLAGS(OneFlag(With(x.f, "CF", gone), n, over), v, x.w)
          = Replaced(x.f, (IF n = 0 THEN {} ELSE {"CF", "SF", "ZF", "PF"}) \cup (IF n = 1 THEN {"OF"} ELSE {}),
                     (IF gone THEN {"CF"} ELSE {}) \cup (IF over THEN {"OF"} ELSE {}) \cup ResultFlags(v, x.w))
    BY <1>2, FlagsOfDouble
  <2> QED BY <2>3, <2>5, <2>6, Zenon
<1> QED BY <1>1, <1>2

\* The bits of both concatenations.
LEMMA HighBits ==
  ASSUME NEW w \in Nat, NEW dst \in SUBSET Positions(w), NEW src \in SUBSET Positions(w), NEW i \in Nat
  PROVE  i \in {j + w : j \in dst} \cup src <=> (i >= w /\ i - w \in dst) \/ (i < w /\ i \in src)
<1>1. i \in {j + w : j \in dst} <=> i >= w /\ i - w \in dst
  <2>1. ASSUME i \in {j + w : j \in dst} PROVE i >= w /\ i - w \in dst
    <3>1. PICK j \in dst : i = j + w BY <2>1
    <3>2. j \in Nat BY DEF Positions
    <3>3. i - w = j /\ i >= w BY <3>1, <3>2
    <3> QED BY <3>3
  <2>2. ASSUME i >= w, i - w \in dst PROVE i \in {j + w : j \in dst}
    <3>1. PICK j \in dst : j = i - w BY <2>2
    <3>2. i = j + w BY <3>1
    <3> QED BY <3>2
  <2> QED BY <2>1, <2>2
<1>2. i \in src => i < w BY DEF Positions
<1> QED BY <1>1, <1>2

\* A concatenation shifted: the half kept is v, and the bit that left it last.
LeftRule(high, v, r, n, dst, w) ==
  /\ Shr(r.v, w) = v
  /\ high \in SUBSET Positions(2 * w)
  /\ n = 0 => v = dst
  /\ n # 0 => r.c = (w - n \in dst)
  /\ r.c \in BOOLEAN

RightRule(low, v, r, n, dst, w) ==
  /\ r.v \cap Positions(w) = v
  /\ low \in SUBSET Positions(2 * w)
  /\ n = 0 => v = dst
  /\ n # 0 => r.c = (n - 1 \in dst)
  /\ r.c \in BOOLEAN

\* SHLD on the concatenation of both words.
LEMMA LeftOfBoth ==
  ASSUME NEW w \in Nat, w > 1, NEW dst \in SUBSET Positions(w), NEW src \in SUBSET Positions(w), NEW n \in 0 .. w,
         NEW high, high = {j + w : j \in dst} \cup src,
         NEW v, v = IF n = w THEN src ELSE Shl(dst, n, w) \cup Shr(src, w - n),
         NEW c \in BOOLEAN, NEW r, r = Moved("SHL", high, c, n, 2 * w)
  PROVE  LeftRule(high, v, r, n, dst, w)
<1>1. \A i \in Nat : i \in high <=> (i >= w /\ i - w \in dst) \/ (i < w /\ i \in src) BY HighBits
<1>2. high \subseteq Nat
  <2>1. \A j \in dst : j + w \in Nat BY DEF Positions
  <2>2. src \subseteq Nat BY DEF Positions
  <2> QED BY <2>1, <2>2
<1>3. high \in SUBSET Positions(2 * w)
  <2>1. \A i \in Nat : i - w \in dst => i \in Positions(2 * w) BY DEF Positions
  <2>2. \A i \in Nat : i \in src => i \in Positions(2 * w) BY DEF Positions
  <2> QED BY <1>1, <1>2, <2>1, <2>2
<1>40. PICK gone \in Nat : gone = 2 * w - n
  <2>1. 2 * w - n \in Nat OBVIOUS
  <2> QED BY <2>1
<1>41. PICK s : s = Shl(high, n, 2 * w) OBVIOUS
<1>4. r = [v |-> s, c |-> IF n = 0 THEN c ELSE gone \in high] BY <1>40, <1>41, Zenon DEF Moved
<1>5. \A i : i \in s <=> i \in Positions(2 * w) /\ i - n \in high BY <1>2, <1>41, ShlBits
<1>6. s \subseteq Nat /\ r.v = s BY <1>4, <1>5 DEF Positions
<1>7. \A i : i \in Shr(r.v, w) <=> i \in Nat /\ i + w \in s BY <1>6, ShrBits
<1>8. \A i : i \in Shr(r.v, w) <=> i \in Positions(w) /\ ((i >= n /\ i - n \in dst) \/ (i < n /\ i + (w - n) \in src))
  <2>1. ASSUME NEW i \in Nat
        PROVE  i + w \in s
                 <=> i \in Positions(w) /\ ((i >= n /\ i - n \in dst) \/ (i < n /\ i + (w - n) \in src))
    <3>1. i + w \in Positions(2 * w) <=> i \in Positions(w) BY DEF Positions
    <3>2. PICK j \in Nat : j = i + w - n OBVIOUS
    <3>3. j - w = i - n /\ j = i + (w - n) /\ (j >= w <=> i >= n) /\ (j < w <=> i < n) BY <3>2
    <3>4. j \in high <=> (i >= n /\ i - n \in dst) \/ (i < n /\ i + (w - n) \in src) BY <1>1, <3>3
    <3>5. i + w - n = (i + w) - n OBVIOUS
    <3> QED BY <1>5, <3>1, <3>2, <3>4, <3>5
  <2>2. \A i \in Positions(w) : i \in Nat BY DEF Positions
  <2> QED BY <1>7, <2>1, <2>2
<1>9. \A i : i \in v <=> i \in Positions(w) /\ ((i >= n /\ i - n \in dst) \/ (i < n /\ i + (w - n) \in src))
  <2>1. CASE n = w
    <3>1. \A i \in Positions(w) : i < n /\ ~(i >= n) /\ i + (w - n) = i BY <2>1 DEF Positions
    <3> QED BY <2>1, <3>1
  <2>2. CASE n # w
    <3>1. src \subseteq Nat /\ w - n \in Nat BY DEF Positions
    <3>2. \A i : i \in Shr(src, w - n) <=> i \in Nat /\ i + (w - n) \in src BY <3>1, ShrBits
    <3>3. \A i : i \in Shl(dst, n, w) <=> i \in Positions(w) /\ i - n \in dst BY ShlBits
    <3>4. \A i \in Nat : i + (w - n) \in src => i < n /\ i \in Positions(w) BY DEF Positions
    <3>5. \A i \in Positions(w) : i \in Nat /\ (i - n \in dst => i >= n) BY DEF Positions
    <3> QED BY <2>2, <3>2, <3>3, <3>4, <3>5
  <2> QED BY <2>1, <2>2
<1>10. Shr(r.v, w) = v BY <1>8, <1>9
<1>11. n = 0 => v = dst
  <2>1. n = 0 => \A i \in Positions(w) : i >= n /\ ~(i < n) /\ i - n = i BY DEF Positions
  <2> QED BY <1>9, <2>1
<1>12. n # 0 => r.c = (w - n \in dst)
  <2>1. gone >= w /\ ~(gone < w) /\ gone - w = w - n BY <1>40
  <2>2. gone \in high <=> w - n \in dst BY <1>1, <2>1
  <2>3. n # 0 => r.c = (gone \in high) BY <1>4
  <2> QED BY <2>2, <2>3
<1>13. r.c \in BOOLEAN
  <2>1. CASE n = 0
    <3>1. r = [v |-> s, c |-> c] BY <1>4, <2>1, Zenon
    <3> QED BY <3>1
  <2>2. CASE n # 0
    <3>1. (w - n \in dst) \in BOOLEAN OBVIOUS
    <3> QED BY <1>12, <2>2, <3>1, Zenon
  <2> QED BY <2>1, <2>2
<1> QED BY <1>3, <1>10, <1>11, <1>12, <1>13, Zenon DEF LeftRule

\* SHRD on the concatenation of both words.
LEMMA RightOfBoth ==
  ASSUME NEW w \in Nat, w > 1, NEW dst \in SUBSET Positions(w), NEW src \in SUBSET Positions(w), NEW n \in 0 .. w,
         NEW low, low = dst \cup {j + w : j \in src},
         NEW v, v = IF n = w THEN src ELSE Shr(dst, n) \cup Shl(src, w - n, w),
         NEW c \in BOOLEAN, NEW r, r = Moved("SHR", low, c, n, 2 * w)
  PROVE  RightRule(low, v, r, n, dst, w)
<1>1. \A i \in Nat : i \in low <=> (i >= w /\ i - w \in src) \/ (i < w /\ i \in dst)
  <2>1. low = {j + w : j \in src} \cup dst OBVIOUS
  <2> QED BY <2>1, HighBits
<1>2. low \subseteq Nat
  <2>1. \A j \in src : j + w \in Nat BY DEF Positions
  <2>2. dst \subseteq Nat BY DEF Positions
  <2> QED BY <2>1, <2>2
<1>3. low \in SUBSET Positions(2 * w)
  <2>1. \A i \in Nat : i - w \in src => i \in Positions(2 * w) BY DEF Positions
  <2>2. \A i \in Nat : i \in dst => i \in Positions(2 * w) BY DEF Positions
  <2> QED BY <1>1, <1>2, <2>1, <2>2
<1>40. PICK s : s = Shr(low, n) OBVIOUS
<1>4. r = [v |-> s, c |-> IF n = 0 THEN c ELSE n - 1 \in low] BY <1>40, Zenon DEF Moved
<1>5. \A i : i \in s <=> i \in Nat /\ i + n \in low
  <2>1. n \in Nat OBVIOUS
  <2> QED BY <1>2, <1>40, <2>1, ShrBits
<1>50. r.v = s BY <1>4
<1>6. \A i : i \in r.v \cap Positions(w)
               <=> i \in Positions(w) /\ ((i + n >= w /\ i - (w - n) \in src) \/ (i + n < w /\ i + n \in dst))
  <2>1. ASSUME NEW i \in Positions(w)
        PROVE  i + n \in low <=> (i + n >= w /\ i - (w - n) \in src) \/ (i + n < w /\ i + n \in dst)
    <3>1. PICK j \in Nat : j = i + n BY DEF Positions
    <3>2. j - w = i - (w - n) BY <3>1 DEF Positions
    <3>3. j \in low <=> (j >= w /\ j - w \in src) \/ (j < w /\ j \in dst) BY <1>1
    <3> QED BY <3>1, <3>2, <3>3
  <2>2. \A i \in Positions(w) : i \in Nat BY DEF Positions
  <2> QED BY <1>5, <1>50, <2>1, <2>2
<1>7. \A i : i \in v <=> i \in Positions(w) /\ ((i + n >= w /\ i - (w - n) \in src) \/ (i + n < w /\ i + n \in dst))
  <2>1. CASE n = w
    <3>1. \A i \in Positions(w) : i + n >= w /\ ~(i + n < w) /\ i - (w - n) = i BY <2>1 DEF Positions
    <3> QED BY <2>1, <3>1
  <2>2. CASE n # w
    <3>1. dst \subseteq Nat /\ w - n \in Nat /\ n \in Nat BY DEF Positions
    <3>2. \A i : i \in Shr(dst, n) <=> i \in Nat /\ i + n \in dst BY <3>1, ShrBits
    <3>3. \A i : i \in Shl(src, w - n, w) <=> i \in Positions(w) /\ i - (w - n) \in src BY ShlBits
    <3>4. \A i \in Nat : i + n \in dst => i + n < w /\ i \in Positions(w) BY DEF Positions
    <3>5. \A i \in Positions(w) : i \in Nat /\ (i - (w - n) \in src => i + n >= w) BY DEF Positions
    <3> QED BY <2>2, <3>2, <3>3, <3>4, <3>5
  <2> QED BY <2>1, <2>2
<1>8. r.v \cap Positions(w) = v BY <1>6, <1>7
<1>9. n = 0 => v = dst
  <2>1. n = 0 => \A i \in Positions(w) : ~(i + n >= w) /\ i + n < w /\ i + n = i BY DEF Positions
  <2> QED BY <1>7, <2>1
<1>10. n # 0 => r.c = (n - 1 \in dst)
  <2> SUFFICES ASSUME n # 0 PROVE r.c = (n - 1 \in dst) OBVIOUS
  <2>1. PICK j \in Nat : j = n - 1 OBVIOUS
  <2>2. ~(j >= w) /\ j < w BY <2>1
  <2>3. j \in low <=> n - 1 \in dst BY <1>1, <2>1, <2>2
  <2>4. r.c = (n - 1 \in low) BY <1>4
  <2> QED BY <2>1, <2>3, <2>4
<1>11. r.c \in BOOLEAN
  <2>1. CASE n = 0
    <3>1. r = [v |-> s, c |-> c] BY <1>4, <2>1, Zenon
    <3> QED BY <3>1
  <2>2. CASE n # 0
    <3>1. (n - 1 \in dst) \in BOOLEAN OBVIOUS
    <3> QED BY <1>10, <2>2, <3>1, Zenon
  <2> QED BY <2>1, <2>2
<1> QED BY <1>3, <1>8, <1>9, <1>10, <1>11, Zenon DEF RightRule

\* What the reference asks of a double shift.
LEMMA DoubleReference ==
  ASSUME NEW x, x.op \in DoubleShifts
  PROVE  Reference(x) = RefDouble(x) /\ DeviantFlags(x) = {}
<1>1. x.op \in {"SHLD", "SHRD"} BY DEF DoubleShifts
<1>2. x.op \notin Shifts \cup Rotations BY <1>1 DEF Shifts, Rotations
<1>3. x.op \notin Additions \cup Subtractions BY <1>1 DEF Additions, Subtractions
<1>4. x.op \notin Products /\ x.op \notin Divisions BY <1>1 DEF Products, Divisions
<1>5. Reference(x) = RefDouble(x) BY <1>2, <1>3, <1>4 DEF Reference
<1>6. DeviantFlags(x) = {} BY <1>1 DEF DeviantFlags
<1> QED BY <1>5, <1>6

\* A double shift that does not deviate moves the concatenation of both words.
LEMMA DoublesMatch ==
  ASSUME NEW x, WellFormed(x), x.op \in DoubleShifts, ~ DeviantResult(x)
  PROVE  Matches(Interpreted(x), x)
<1> DEFINE w == x.w
           dst == x.dst
           src == x.src
<1>1. /\ w \in Nat /\ w > 1 /\ w <= 32 /\ dst \in SUBSET Positions(w) /\ src \in SUBSET Positions(w)
      /\ x.n \in Nat /\ x.imm \in BOOLEAN
  BY DEF WellFormed, DoubleShifts, Divisions
<1>2. PICK n : n = DoubleCount(x) OBVIOUS
<1>20. n \in Nat
  <2>1. CASE x.imm BY <1>1, <1>2, <2>1 DEF DoubleCount
  <2>2. CASE ~ x.imm BY <1>1, <1>2, <2>2 DEF DoubleCount
  <2> QED BY <2>1, <2>2
<1>3. n <= w /\ ~(x.imm /\ x.n = 32)
  <2>1. ~(n > w) /\ ~(x.imm /\ x.n = 32) BY <1>2, Zenon DEF DeviantResult
  <2> QED BY <1>1, <1>20, <2>1
<1>4. n \in Nat /\ n = x.n % 32
  <2>1. CASE x.imm
    <3>1. n = x.n BY <1>2, <2>1 DEF DoubleCount
    <3>2. n \in Nat /\ n < 32 BY <1>1, <1>3, <2>1, <3>1
    <3>3. n % 32 = n BY <3>2
    <3> QED BY <3>1, <3>2, <3>3
  <2>2. CASE ~ x.imm
    <3>1. n = x.n % 32 BY <1>2, <2>2 DEF DoubleCount
    <3> QED BY <1>1, <3>1
  <2> QED BY <2>1, <2>2
<1>5. n \in 0 .. w BY <1>3, <1>4, <1>1
<1>6. Reference(x) = RefDouble(x) /\ DeviantFlags(x) = {} BY DoubleReference
<1>7. PICK no \in BOOLEAN : no = FALSE OBVIOUS
<1>8. 2 * w \in Nat /\ 2 * w > 1 BY <1>1
<1>9. "SHL" \in Shifts \cup Rotations /\ "SHR" \in Shifts \cup Rotations BY DEF Shifts
<1> SUFFICES Interpreted(x) = Reference(x)
  BY <1>6 DEF Matches, Xor
<1>10. CASE x.op = "SHLD"
  <2>1. PICK high : high = {j + w : j \in dst} \cup src OBVIOUS
  <2>2. PICK v : v = IF n = w THEN src ELSE Shl(dst, n, w) \cup Shr(src, w - n) OBVIOUS
  <2>3. PICK r : r = Moved("SHL", high, no, n, 2 * w) OBVIOUS
  <2>4. /\ Shr(r.v, w) = v /\ high \in SUBSET Positions(2 * w)
        /\ (n = 0 => v = dst) /\ (n # 0 => r.c = (w - n \in dst)) /\ r.c \in BOOLEAN
    <3>1. LeftRule(high, v, r, n, dst, w) BY <1>1, <1>5, <2>1, <2>2, <2>3, LeftOfBoth, Zenon
    <3> QED BY <3>1, Zenon DEF LeftRule
  <2>5. ManyBits("SHL", high, no, n, 2 * w) = r BY <1>4, <1>8, <1>9, <2>3, <2>4, ManyBitsIsMoved
  <2>6. ManyBits("SHL", {j + w : j \in dst} \cup src, FALSE, n, 2 * w) = r BY <1>7, <2>1, <2>5, Zenon
  <2>7. RefDouble(x) = RefDoubled(x, n, v, r.c)
    BY <1>4, <1>10, <2>4, <2>6, Zenon DEF RefDouble, RefDoubled
  <2>8. PICK gone \in BOOLEAN : gone = (w - n \in dst)
    <3>1. (w - n \in dst) \in BOOLEAN OBVIOUS
    <3> QED BY <3>1, Zenon
  <2>9. Interpreted(x) = Doubled(x, v, gone)
    <3>1. Interpreted(x) = SHLD(x) BY <1>10 DEF Interpreted
    <3> QED BY <1>2, <2>2, <2>8, <3>1, Zenon DEF SHLD
  <2>10. PICK b \in BOOLEAN : b = r.c BY <2>4, Zenon
  <2>11. n # 0 => b = gone BY <2>4, <2>8, <2>10, Zenon
  <2>12. n = 0 => v = dst BY <2>4
  <2>13. Counted(x, n, v, gone, b) BY <1>2, <1>3, <2>11, <2>12 DEF Counted
  <2>14. Doubled(x, v, gone) = RefDoubled(x, n, v, b) BY <1>1, <1>4, <2>13, DoubledIsReference
  <2> QED BY <1>6, <2>7, <2>9, <2>10, <2>14
<1>11. CASE x.op = "SHRD"
  <2>1. PICK low : low = dst \cup {j + w : j \in src} OBVIOUS
  <2>2. PICK v : v = IF n = w THEN src ELSE Shr(dst, n) \cup Shl(src, w - n, w) OBVIOUS
  <2>3. PICK r : r = Moved("SHR", low, no, n, 2 * w) OBVIOUS
  <2>4. /\ r.v \cap Positions(w) = v /\ low \in SUBSET Positions(2 * w)
        /\ (n = 0 => v = dst) /\ (n # 0 => r.c = (n - 1 \in dst)) /\ r.c \in BOOLEAN
    <3>1. RightRule(low, v, r, n, dst, w) BY <1>1, <1>5, <2>1, <2>2, <2>3, RightOfBoth, Zenon
    <3> QED BY <3>1, Zenon DEF RightRule
  <2>5. ManyBits("SHR", low, no, n, 2 * w) = r BY <1>4, <1>8, <1>9, <2>3, <2>4, ManyBitsIsMoved
  <2>6. ManyBits("SHR", dst \cup {j + w : j \in src}, FALSE, n, 2 * w) = r BY <1>7, <2>1, <2>5, Zenon
  <2>7. RefDouble(x) = RefDoubled(x, n, v, r.c)
    BY <1>4, <1>11, <2>4, <2>6, Zenon DEF RefDouble, RefDoubled
  <2>8. PICK gone \in BOOLEAN : gone = (n - 1 \in dst)
    <3>1. (n - 1 \in dst) \in BOOLEAN OBVIOUS
    <3> QED BY <3>1, Zenon
  <2>9. Interpreted(x) = Doubled(x, v, gone)
    <3>1. Interpreted(x) = SHRD(x) BY <1>11 DEF Interpreted
    <3> QED BY <1>2, <2>2, <2>8, <3>1, Zenon DEF SHRD
  <2>10. PICK b \in BOOLEAN : b = r.c BY <2>4, Zenon
  <2>11. n # 0 => b = gone BY <2>4, <2>8, <2>10, Zenon
  <2>12. n = 0 => v = dst BY <2>4
  <2>13. Counted(x, n, v, gone, b) BY <1>2, <1>3, <2>11, <2>12 DEF Counted
  <2>14. Doubled(x, v, gone) = RefDoubled(x, n, v, b) BY <1>1, <1>4, <2>13, DoubledIsReference
  <2> QED BY <1>6, <2>7, <2>9, <2>10, <2>14
<1> QED BY <1>10, <1>11 DEF DoubleShifts

---------------------------------------------------------------------------
\* Once the interpreter has run, out is what its macro leaves of insn.
OutInv ==
  /\ insn \in Insns /\ need \in Needs /\ pc \in Nat
  /\ pc > 0 => out = Interpreted(insn)

\* Whatever the words of the translator do, they leave the outcome of the
\* interpreter alone: it ran first and runs once.
THEOREM InterpreterFirst == Spec => []OutInv
<1>1. Init => OutInv BY DEF Init, OutInv
<1>2. OutInv /\ [Next]_vars => OutInv'
  <2> SUFFICES ASSUME OutInv, [Next]_vars PROVE OutInv' OBVIOUS
  <2>1. CASE Interpret BY <2>1 DEF Interpret, OutInv
  <2>2. CASE ExecuteWord BY <2>2 DEF ExecuteWord, OutInv
  <2>3. CASE UNCHANGED vars BY <2>3 DEF vars, OutInv
  <2> QED BY <2>1, <2>2, <2>3 DEF Next
<1> QED BY <1>1, <1>2, PTL DEF Spec

\* Shifts, rotations, double shifts, sums and differences of every width the
\* assumption admits, by every count and with every flag found: the macros leave
\* the word, the fault and the flags of the instruction, but where the code is
\* named to deviate.  Products and quotients stay with TLC, which has them as
\* numbers.
THEOREM MacrosMatchArithmetic ==
  Spec => [](insn.op \notin Products \cup Divisions => MatchesArithmetic)
<1>1. OutInv => (insn.op \notin Products \cup Divisions => MatchesArithmetic)
  <2> SUFFICES ASSUME OutInv, insn.op \notin Products \cup Divisions, pc > 0, ~ DeviantResult(insn)
               PROVE  Matches(out, insn)
    BY DEF MatchesArithmetic, Matches
  <2>1. out = Interpreted(insn) BY DEF OutInv
  <2>2. WellFormed(insn) BY AluInputs DEF OutInv
  <2>3. insn.op \in Shifts \cup Rotations \cup DoubleShifts \cup Additions \cup Subtractions
    BY <2>2 DEF WellFormed
  <2>4. CASE insn.op \in Shifts BY <2>1, <2>2, <2>4, ShiftsMatch
  <2>5. CASE insn.op \in Rotations BY <2>1, <2>2, <2>5, RotationsMatch
  <2>6. CASE insn.op \in DoubleShifts BY <2>1, <2>2, <2>6, DoublesMatch
  <2>7. CASE insn.op \in Additions BY <2>1, <2>2, <2>7, SumsMatch
  <2>8. CASE insn.op \in Subtractions BY <2>1, <2>2, <2>8, DifferencesMatch
  <2> QED BY <2>3, <2>4, <2>5, <2>6, <2>7, <2>8
<1> QED BY <1>1, InterpreterFirst, PTL

---------------------------------------------------------------------------
(* The words of the translator.  A machine is what Loaded makes, without   *)
(* products; Run relates the machines before and after a list of words.    *)

Machine(a, b, n, r, d, f) ==
  [op0 |-> a, op1 |-> b, count |-> n, res |-> r, res2 |-> {}, dst |-> d, f |-> f, fault |-> "none"]

Run(R, c, e, x) ==
  \E cs : /\ cs[0] = c /\ cs[Len(R)] = e
          /\ \A i \in 1 .. Len(R) : cs[i] = Performed(R[i], cs[i - 1], x)

\* No word.
LEMMA RunEmpty ==
  ASSUME NEW x, NEW c, NEW e, Run(<<>>, c, e, x)
  PROVE  e = c
<1>1. Len(<<>>) = 0 OBVIOUS
<1> QED BY <1>1 DEF Run

\* One word.
LEMMA RunOne ==
  ASSUME NEW x, NEW c, NEW e, NEW a, Run(<<a>>, c, e, x)
  PROVE  e = Performed(a, c, x)
<1>1. Len(<<a>>) = 1 /\ <<a>>[1] = a OBVIOUS
<1>2. PICK cs : /\ cs[0] = c /\ cs[1] = e
                /\ \A i \in 1 .. 1 : cs[i] = Performed(<<a>>[i], cs[i - 1], x)
  BY <1>1 DEF Run
<1>3. 1 \in 1 .. 1 /\ 1 - 1 = 0 OBVIOUS
<1>4. cs[1] = Performed(<<a>>[1], cs[1 - 1], x) BY <1>2, <1>3
<1> QED BY <1>1, <1>2, <1>3, <1>4

\* Two lists.
LEMMA RunConcat ==
  ASSUME NEW x, NEW c, NEW e, NEW T, NEW R \in Seq(T), NEW Q \in Seq(T), Run(R \o Q, c, e, x)
  PROVE  \E m : Run(R, c, m, x) /\ Run(Q, m, e, x)
<1>1. /\ Len(R) \in Nat /\ Len(Q) \in Nat /\ Len(R \o Q) = Len(R) + Len(Q)
      /\ \A i \in 1 .. Len(R) : (R \o Q)[i] = R[i]
      /\ \A i \in 1 .. Len(Q) : (R \o Q)[Len(R) + i] = Q[i]
  OBVIOUS
<1>2. PICK P : P = R \o Q OBVIOUS
<1>3. PICK cs : /\ cs[0] = c /\ cs[Len(P)] = e
                /\ \A i \in 1 .. Len(P) : cs[i] = Performed(P[i], cs[i - 1], x)
  BY <1>2 DEF Run
<1>4. PICK k \in Nat : k = Len(R) BY <1>1
<1>5. Run(R, c, cs[k], x)
  <2>1. \A i \in 1 .. k : i \in 1 .. Len(P) BY <1>1, <1>2, <1>4
  <2>2. \A i \in 1 .. k : cs[i] = Performed(R[i], cs[i - 1], x) BY <1>1, <1>2, <1>3, <1>4, <2>1
  <2> QED BY <1>3, <1>4, <2>2 DEF Run
<1>6. Run(Q, cs[k], e, x)
  <2>1. PICK ds : ds = [i \in 0 .. Len(Q) |-> cs[k + i]] OBVIOUS
  <2>2. ds[0] = cs[k] /\ ds[Len(Q)] = e
    <3>1. 0 \in 0 .. Len(Q) /\ Len(Q) \in 0 .. Len(Q) /\ k + 0 = k /\ k + Len(Q) = Len(P) BY <1>1, <1>2, <1>4
    <3> QED BY <1>3, <2>1, <3>1
  <2>3. ASSUME NEW i \in 1 .. Len(Q) PROVE ds[i] = Performed(Q[i], ds[i - 1], x)
    <3>1. /\ k + i \in 1 .. Len(P) /\ (k + i) - 1 = k + (i - 1)
          /\ i \in 0 .. Len(Q) /\ i - 1 \in 0 .. Len(Q)
      BY <1>1, <1>2, <1>4
    <3>2. P[k + i] = Q[i] BY <1>1, <1>2, <1>4
    <3>3. ds[i] = cs[k + i] /\ ds[i - 1] = cs[k + (i - 1)] BY <2>1, <3>1
    <3>4. cs[k + i] = Performed(P[k + i], cs[(k + i) - 1], x) BY <1>3, <3>1
    <3> QED BY <3>1, <3>2, <3>3, <3>4
  <2> QED BY <2>2, <2>3 DEF Run
<1> QED BY <1>5, <1>6

\* A flag word runs when its flag is wanted.
LEMMA RunFlag ==
  ASSUME NEW x, NEW c, NEW e, NEW g, NEW word, NEW D, Run(Flag({g}, word, D), c, e, x)
  PROVE  /\ g \in D => e = Performed(word, c, x)
         /\ g \notin D => e = c
<1>1. CASE g \in D
  <2>1. Flag({g}, word, D) = <<word>> BY <1>1 DEF Flag
  <2>2. Run(<<word>>, c, e, x) BY <2>1
  <2> QED BY <1>1, <2>2, RunOne
<1>2. CASE g \notin D
  <2>1. Flag({g}, word, D) = <<>> BY <1>2 DEF Flag
  <2>2. Run(<<>>, c, e, x) BY <2>1
  <2> QED BY <1>2, <2>2, RunEmpty
<1> QED BY <1>1, <1>2

---------------------------------------------------------------------------
\* The flags f of a machine that has decided those of S, by words that run
\* only for flags of D: the ones decided and read are those of v, the others
\* still those found.
Agrees(f, found, v, D, S) ==
  /\ \A h \in D \cap S : h \in f <=> h \in v
  /\ \A h : h \notin S => (h \in f <=> h \in found)

\* A machine with these registers and such flags.
Stage(c, a, b, n, r, d, found, v, D, S) ==
  \E f : c = Machine(a, b, n, r, d, f) /\ Agrees(f, found, v, D, S)

\* A flag word leaves val in its flag g and nothing else changed.
Decides(word, g, val, x, a, b, n, r, d, f) ==
  \E f1 : /\ Performed(word, Machine(a, b, n, r, d, f), x) = Machine(a, b, n, r, d, f1)
          /\ g \in f1 <=> val
          /\ \A h : h # g => (h \in f1 <=> h \in f)

\* A flag word leaves in its flag what v has; any other word changes registers
\* alone.
RightFlag(word, g, x, a, b, n, r, d, found, v, D, S) ==
  \A f : Agrees(f, found, v, D, S) => Decides(word, g, g \in v, x, a, b, n, r, d, f)

Moves(word, x, a, b, n, r, d, a1, b1, n1, r1, d1, found, v, D, S) ==
  \A f : Agrees(f, found, v, D, S) =>
           Performed(word, Machine(a, b, n, r, d, f), x) = Machine(a1, b1, n1, r1, d1, f)

\* A flag word decides its flag, whether it is there or left out.
LEMMA FlagStage ==
  ASSUME NEW x, NEW c, NEW e, NEW a, NEW b, NEW n, NEW r, NEW d, NEW found, NEW v, NEW D, NEW S,
         NEW g, NEW word, Stage(c, a, b, n, r, d, found, v, D, S), g \notin S,
         Run(Flag({g}, word, D), c, e, x), RightFlag(word, g, x, a, b, n, r, d, found, v, D, S)
  PROVE  Stage(e, a, b, n, r, d, found, v, D, S \cup {g})
<1>1. PICK f : c = Machine(a, b, n, r, d, f) /\ Agrees(f, found, v, D, S) BY DEF Stage
<1>2. CASE g \notin D
  <2>1. e = c BY <1>2, RunFlag
  <2>2. Agrees(f, found, v, D, S \cup {g}) BY <1>1, <1>2 DEF Agrees
  <2> QED BY <1>1, <2>1, <2>2 DEF Stage
<1>3. CASE g \in D
  <2>1. e = Performed(word, c, x) BY <1>3, RunFlag
  <2>2. PICK f1 : /\ Performed(word, c, x) = Machine(a, b, n, r, d, f1)
                  /\ g \in f1 <=> g \in v
                  /\ \A h : h # g => (h \in f1 <=> h \in f)
    BY <1>1 DEF RightFlag, Decides
  <2>3. Agrees(f1, found, v, D, S \cup {g}) BY <1>1, <2>2 DEF Agrees
  <2> QED BY <2>1, <2>2, <2>3 DEF Stage
<1> QED BY <1>2, <1>3

\* A word that moves the registers keeps what has been decided.
LEMMA WordStage ==
  ASSUME NEW x, NEW c, NEW e, NEW a, NEW b, NEW n, NEW r, NEW d, NEW found, NEW v, NEW D, NEW S,
         NEW a1, NEW b1, NEW n1, NEW r1, NEW d1, NEW word,
         Stage(c, a, b, n, r, d, found, v, D, S), Run(<<word>>, c, e, x),
         Moves(word, x, a, b, n, r, d, a1, b1, n1, r1, d1, found, v, D, S)
  PROVE  Stage(e, a1, b1, n1, r1, d1, found, v, D, S)
<1>1. PICK f : c = Machine(a, b, n, r, d, f) /\ Agrees(f, found, v, D, S) BY DEF Stage
<1>2. e = Performed(word, c, x) BY RunOne
<1>3. e = Machine(a1, b1, n1, r1, d1, f) BY <1>1, <1>2 DEF Moves
<1> QED BY <1>1, <1>3 DEF Stage

\* With every flag decided that differs between found and v, the machine has
\* the flags of v.
Settled(found, v, D, S) == \A h \in D : h \notin S => (h \in found <=> h \in v)
Leaves(c, d, v, D) == c.dst = d /\ c.fault = "none" /\ Xor(c.f, v) \cap D = {}

\* When what was not decided needs no change, the machine is right.
LEMMA LastStage ==
  ASSUME NEW c, NEW a, NEW b, NEW n, NEW r, NEW d, NEW found, NEW v, NEW D, NEW S,
         Stage(c, a, b, n, r, d, found, v, D, S), Settled(found, v, D, S)
  PROVE  Leaves(c, d, v, D)
<1>1. PICK f : c = Machine(a, b, n, r, d, f) /\ Agrees(f, found, v, D, S) BY DEF Stage
<1>2. c.dst = d /\ c.fault = "none" /\ c.f = f BY <1>1 DEF Machine
<1>3. \A h \in D : h \in f <=> h \in v BY <1>1 DEF Agrees, Settled
<1> QED BY <1>2, <1>3 DEF Xor, Leaves

---------------------------------------------------------------------------
\* Which engine function performs a word.
LEMMA WordKinds ==
  ASSUME NEW c, NEW x
  PROVE  /\ \A word \in ShiftWords : Performed(word, c, x) = ShiftWord(word, c, x.w)
         /\ \A word \in ShiftFlagWords : Performed(word, c, x) = ShiftFlagWord(word, c, x.w)
         /\ \A word \in ArithmeticFlagWords : Performed(word, c, x) = ArithmeticFlagWord(word, c, x.w)
         /\ \A word \in {"SET_1_OP1", "OP0_OP1_0_OP0", "ADD", "ADC", "SUB", "SBB", "WRITE_RES", "DIV", "IDIV", "IDIV8"} :
              Performed(word, c, x) = ArithmeticWord(word, c, x.w, x)
         /\ Performed("SET_COUNT", c, x) = SET_COUNT(c, x)
<1>1. \A word \in ShiftWords : word # "SET_COUNT" BY DEF ShiftWords, Shifts, Rotations, DoubleShifts
<1>2. \A word \in ShiftFlagWords : word # "SET_COUNT" /\ word \notin ShiftWords
  BY DEF ShiftFlagWords, ShiftWords, Shifts, Rotations, DoubleShifts
<1>3. \A word \in ArithmeticFlagWords : word # "SET_COUNT" /\ word \notin ShiftWords /\ word \notin ShiftFlagWords
  BY DEF ArithmeticFlagWords, ShiftFlagWords, ShiftWords, Shifts, Rotations, DoubleShifts
<1>4. \A word \in {"SET_1_OP1", "OP0_OP1_0_OP0", "ADD", "ADC", "SUB", "SBB", "WRITE_RES", "DIV", "IDIV", "IDIV8"} :
        word # "SET_COUNT" /\ word \notin ShiftWords /\ word \notin ShiftFlagWords /\ word \notin ArithmeticFlagWords
  BY DEF ArithmeticFlagWords, ShiftFlagWords, ShiftWords, Shifts, Rotations, DoubleShifts
<1> QED BY <1>1, <1>2, <1>3, <1>4 DEF Performed

\* Words that move operands, and the count.
LEMMA MovingWords ==
  ASSUME NEW x, NEW a, NEW b, NEW n, NEW r, NEW d, NEW f, NEW c, c = Machine(a, b, n, r, d, f)
  PROVE  /\ Performed("SET_1_OP1", c, x) = Machine(a, {0}, n, r, d, f)
         /\ Performed("OP0_OP1_0_OP0", c, x) = Machine({}, a, n, r, d, f)
         /\ Performed("WRITE_RES", c, x) = Machine(a, b, n, r, r, f)
         /\ Performed("SET_COUNT", c, x) = Machine(a, b, IF x.op \in DoubleShifts THEN DoubleCount(x) ELSE x.n % 32, r, d, f)
<1>1. Performed("SET_1_OP1", c, x) = Machine(a, {0}, n, r, d, f)
  <2>1. Performed("SET_1_OP1", c, x) = ArithmeticWord("SET_1_OP1", c, x.w, x) BY WordKinds
  <2>2. ArithmeticWord("SET_1_OP1", c, x.w, x) = [c EXCEPT !.op1 = {0}] BY DEF ArithmeticWord
  <2> QED BY <2>1, <2>2 DEF Machine
<1>2. Performed("OP0_OP1_0_OP0", c, x) = Machine({}, a, n, r, d, f)
  <2>1. Performed("OP0_OP1_0_OP0", c, x) = ArithmeticWord("OP0_OP1_0_OP0", c, x.w, x) BY WordKinds
  <2>2. ArithmeticWord("OP0_OP1_0_OP0", c, x.w, x) = [c EXCEPT !.op1 = c.op0, !.op0 = {}] BY DEF ArithmeticWord
  <2> QED BY <2>1, <2>2 DEF Machine
<1>3. Performed("WRITE_RES", c, x) = Machine(a, b, n, r, r, f)
  <2>1. Performed("WRITE_RES", c, x) = ArithmeticWord("WRITE_RES", c, x.w, x) BY WordKinds
  <2>2. ArithmeticWord("WRITE_RES", c, x.w, x) = [c EXCEPT !.dst = c.res] BY DEF ArithmeticWord
  <2> QED BY <2>1, <2>2 DEF Machine
<1>4. Performed("SET_COUNT", c, x) = Machine(a, b, IF x.op \in DoubleShifts THEN DoubleCount(x) ELSE x.n % 32, r, d, f)
  <2>1. Performed("SET_COUNT", c, x) = SET_COUNT(c, x) BY WordKinds
  <2>2. SET_COUNT(c, x) = [c EXCEPT !.count = IF x.op \in DoubleShifts THEN DoubleCount(x) ELSE x.n % 32] BY DEF SET_COUNT
  <2> QED BY <2>1, <2>2 DEF Machine
<1> QED BY <1>1, <1>2, <1>3, <1>4

\* Words that add and subtract.
PlainSum(a, b, w) == Plus(a, b, FALSE, w)

\* What the word ADD does to the registers.
LEMMA AddWord ==
  ASSUME NEW x, NEW a, NEW b, NEW n, NEW r, NEW d, NEW f
  PROVE  Performed("ADD", Machine(a, b, n, r, d, f), x) = Machine(a, b, n, PlainSum(a, b, x.w), d, f)
<1>1. PICK c : c = Machine(a, b, n, r, d, f) OBVIOUS
<1>2. Performed("ADD", c, x) = ArithmeticWord("ADD", c, x.w, x) BY WordKinds
<1>3. ArithmeticWord("ADD", c, x.w, x) = [c EXCEPT !.res = Plus(c.op0, c.op1, FALSE, x.w)] BY DEF ArithmeticWord
<1> QED BY <1>1, <1>2, <1>3 DEF Machine, PlainSum

\* The word ADC.
LEMMA AdcWord ==
  ASSUME NEW x, NEW a, NEW b, NEW n, NEW r, NEW d, NEW f, NEW k, k = Plus(a, b, "CF" \in f, x.w)
  PROVE  Performed("ADC", Machine(a, b, n, r, d, f), x) = Machine(a, b, n, k, d, f)
<1>1. PICK c : c = Machine(a, b, n, r, d, f) OBVIOUS
<1>2. Performed("ADC", c, x) = ArithmeticWord("ADC", c, x.w, x) BY WordKinds
<1>3. ArithmeticWord("ADC", c, x.w, x) = [c EXCEPT !.res = Plus(c.op0, c.op1, "CF" \in c.f, x.w)] BY DEF ArithmeticWord
<1> QED BY <1>1, <1>2, <1>3 DEF Machine

\* The word SUB.
LEMMA SubWord ==
  ASSUME NEW x, NEW a, NEW b, NEW n, NEW r, NEW d, NEW f, NEW k, k = Minus(a, b, x.w)
  PROVE  Performed("SUB", Machine(a, b, n, r, d, f), x) = Machine(a, b, n, k, d, f)
<1>1. PICK c : c = Machine(a, b, n, r, d, f) OBVIOUS
<1>2. Performed("SUB", c, x) = ArithmeticWord("SUB", c, x.w, x) BY WordKinds
<1>3. ArithmeticWord("SUB", c, x.w, x) = [c EXCEPT !.res = Minus(c.op0, c.op1, x.w)] BY DEF ArithmeticWord
<1> QED BY <1>1, <1>2, <1>3 DEF Machine

\* The word SBB.
LEMMA SbbWord ==
  ASSUME NEW x, NEW a, NEW b, NEW n, NEW r, NEW d, NEW f, NEW k, k = Plus(a, Not(b, x.w), "CF" \notin f, x.w)
  PROVE  Performed("SBB", Machine(a, b, n, r, d, f), x) = Machine(a, b, n, k, d, f)
<1>1. PICK c : c = Machine(a, b, n, r, d, f) OBVIOUS
<1>2. Performed("SBB", c, x) = ArithmeticWord("SBB", c, x.w, x) BY WordKinds
<1>3. ArithmeticWord("SBB", c, x.w, x) = [c EXCEPT !.res = Plus(c.op0, Not(c.op1, x.w), "CF" \notin c.f, x.w)] BY DEF ArithmeticWord
<1> QED BY <1>1, <1>2, <1>3 DEF Machine

\* The flag words of sums and differences.
LEMMA SumFlagWords ==
  ASSUME NEW x, NEW a, NEW b, NEW n, NEW r, NEW d, NEW f
  PROVE  /\ Decides("SF", "SF", x.w - 1 \in r, x, a, b, n, r, d, f)
         /\ Decides("ZF", "ZF", r = {}, x, a, b, n, r, d, f)
         /\ Decides("PF", "PF", Parity(r), x, a, b, n, r, d, f)
         /\ Decides("AD_OF", "OF", "OF" \in AD_Bits(r, a, b, x.w), x, a, b, n, r, d, f)
         /\ Decides("AD_AF", "AF", "AF" \in AD_Bits(r, a, b, x.w), x, a, b, n, r, d, f)
         /\ Decides("AD_CF", "CF", "CF" \in AD_Bits(r, a, b, x.w), x, a, b, n, r, d, f)
         /\ Decides("SB_OF", "OF", "OF" \in SB_Bits(r, a, b, x.w), x, a, b, n, r, d, f)
         /\ Decides("SB_AF", "AF", "AF" \in SB_Bits(r, a, b, x.w), x, a, b, n, r, d, f)
         /\ Decides("SB_CF", "CF", "CF" \in SB_Bits(r, a, b, x.w), x, a, b, n, r, d, f)
         /\ Decides("NEG_CF", "CF", b # {}, x, a, b, n, r, d, f)
<1> DEFINE c == Machine(a, b, n, r, d, f)
<1>0. c.op0 = a /\ c.op1 = b /\ c.count = n /\ c.res = r /\ c.f = f BY DEF Machine
<1>1. \A g, val : SetF(c, g, val) = Machine(a, b, n, r, d, With(f, g, val)) BY DEF Machine, SetF
<1>2. \A g, val : \A h : h \in With(f, g, val) <=> IF h = g THEN val ELSE h \in f BY DEF With
<1> HIDE DEF c
<1>10. Decides("SF", "SF", x.w - 1 \in r, x, a, b, n, r, d, f)
  <2>1. Performed("SF", c, x) = ArithmeticFlagWord("SF", c, x.w) BY WordKinds DEF ArithmeticFlagWords
  <2>2. ArithmeticFlagWord("SF", c, x.w) = SetF(c, "SF", x.w - 1 \in c.res) BY DEF ArithmeticFlagWord
  <2>3. PICK f1 : f1 = With(f, "SF", x.w - 1 \in r) OBVIOUS
  <2>4. Performed("SF", c, x) = Machine(a, b, n, r, d, f1) BY <1>0, <1>1, <2>1, <2>2, <2>3, Zenon
  <2>5. \A h : h \in f1 <=> IF h = "SF" THEN x.w - 1 \in r ELSE h \in f BY <1>2, <2>3
  <2> QED BY <2>4, <2>5 DEF Decides, c
<1>11. Decides("ZF", "ZF", r = {}, x, a, b, n, r, d, f)
  <2>1. Performed("ZF", c, x) = ArithmeticFlagWord("ZF", c, x.w) BY WordKinds DEF ArithmeticFlagWords
  <2>2. ArithmeticFlagWord("ZF", c, x.w) = SetF(c, "ZF", c.res = {}) BY DEF ArithmeticFlagWord
  <2>3. PICK f1 : f1 = With(f, "ZF", r = {}) OBVIOUS
  <2>4. Performed("ZF", c, x) = Machine(a, b, n, r, d, f1) BY <1>0, <1>1, <2>1, <2>2, <2>3
  <2>5. \A h : h \in f1 <=> IF h = "ZF" THEN r = {} ELSE h \in f BY <1>2, <2>3
  <2> QED BY <2>4, <2>5 DEF Decides, c
<1>12. Decides("PF", "PF", Parity(r), x, a, b, n, r, d, f)
  <2>1. Performed("PF", c, x) = ArithmeticFlagWord("PF", c, x.w) BY WordKinds DEF ArithmeticFlagWords
  <2>2. ArithmeticFlagWord("PF", c, x.w) = SetF(c, "PF", Parity(c.res)) BY DEF ArithmeticFlagWord
  <2>3. PICK f1 : f1 = With(f, "PF", Parity(r)) OBVIOUS
  <2>4. Performed("PF", c, x) = Machine(a, b, n, r, d, f1) BY <1>0, <1>1, <2>1, <2>2, <2>3, Zenon
  <2>5. \A h : h \in f1 <=> IF h = "PF" THEN Parity(r) ELSE h \in f BY <1>2, <2>3
  <2> QED BY <2>4, <2>5 DEF Decides, c
<1>13. Decides("AD_OF", "OF", "OF" \in AD_Bits(r, a, b, x.w), x, a, b, n, r, d, f)
  <2>1. Performed("AD_OF", c, x) = ArithmeticFlagWord("AD_OF", c, x.w) BY WordKinds DEF ArithmeticFlagWords
  <2>2. ArithmeticFlagWord("AD_OF", c, x.w) = SetF(c, "OF", "OF" \in AD_Bits(c.res, c.op0, c.op1, x.w)) BY DEF ArithmeticFlagWord
  <2>3. PICK f1 : f1 = With(f, "OF", "OF" \in AD_Bits(r, a, b, x.w)) OBVIOUS
  <2>4. Performed("AD_OF", c, x) = Machine(a, b, n, r, d, f1) BY <1>0, <1>1, <2>1, <2>2, <2>3, Zenon
  <2>5. \A h : h \in f1 <=> IF h = "OF" THEN "OF" \in AD_Bits(r, a, b, x.w) ELSE h \in f BY <1>2, <2>3
  <2> QED BY <2>4, <2>5 DEF Decides, c
<1>14. Decides("AD_AF", "AF", "AF" \in AD_Bits(r, a, b, x.w), x, a, b, n, r, d, f)
  <2>1. Performed("AD_AF", c, x) = ArithmeticFlagWord("AD_AF", c, x.w) BY WordKinds DEF ArithmeticFlagWords
  <2>2. ArithmeticFlagWord("AD_AF", c, x.w) = SetF(c, "AF", "AF" \in AD_Bits(c.res, c.op0, c.op1, x.w)) BY DEF ArithmeticFlagWord
  <2>3. PICK f1 : f1 = With(f, "AF", "AF" \in AD_Bits(r, a, b, x.w)) OBVIOUS
  <2>4. Performed("AD_AF", c, x) = Machine(a, b, n, r, d, f1) BY <1>0, <1>1, <2>1, <2>2, <2>3, Zenon
  <2>5. \A h : h \in f1 <=> IF h = "AF" THEN "AF" \in AD_Bits(r, a, b, x.w) ELSE h \in f BY <1>2, <2>3
  <2> QED BY <2>4, <2>5 DEF Decides, c
<1>15. Decides("AD_CF", "CF", "CF" \in AD_Bits(r, a, b, x.w), x, a, b, n, r, d, f)
  <2>1. Performed("AD_CF", c, x) = ArithmeticFlagWord("AD_CF", c, x.w) BY WordKinds DEF ArithmeticFlagWords
  <2>2. ArithmeticFlagWord("AD_CF", c, x.w) = SetF(c, "CF", "CF" \in AD_Bits(c.res, c.op0, c.op1, x.w)) BY DEF ArithmeticFlagWord
  <2>3. PICK f1 : f1 = With(f, "CF", "CF" \in AD_Bits(r, a, b, x.w)) OBVIOUS
  <2>4. Performed("AD_CF", c, x) = Machine(a, b, n, r, d, f1) BY <1>0, <1>1, <2>1, <2>2, <2>3, Zenon
  <2>5. \A h : h \in f1 <=> IF h = "CF" THEN "CF" \in AD_Bits(r, a, b, x.w) ELSE h \in f BY <1>2, <2>3
  <2> QED BY <2>4, <2>5 DEF Decides, c
<1>16. Decides("SB_OF", "OF", "OF" \in SB_Bits(r, a, b, x.w), x, a, b, n, r, d, f)
  <2>1. Performed("SB_OF", c, x) = ArithmeticFlagWord("SB_OF", c, x.w) BY WordKinds DEF ArithmeticFlagWords
  <2>2. ArithmeticFlagWord("SB_OF", c, x.w) = SetF(c, "OF", "OF" \in SB_Bits(c.res, c.op0, c.op1, x.w)) BY DEF ArithmeticFlagWord
  <2>3. PICK f1 : f1 = With(f, "OF", "OF" \in SB_Bits(r, a, b, x.w)) OBVIOUS
  <2>4. Performed("SB_OF", c, x) = Machine(a, b, n, r, d, f1) BY <1>0, <1>1, <2>1, <2>2, <2>3, Zenon
  <2>5. \A h : h \in f1 <=> IF h = "OF" THEN "OF" \in SB_Bits(r, a, b, x.w) ELSE h \in f BY <1>2, <2>3
  <2> QED BY <2>4, <2>5 DEF Decides, c
<1>17. Decides("SB_AF", "AF", "AF" \in SB_Bits(r, a, b, x.w), x, a, b, n, r, d, f)
  <2>1. Performed("SB_AF", c, x) = ArithmeticFlagWord("SB_AF", c, x.w) BY WordKinds DEF ArithmeticFlagWords
  <2>2. ArithmeticFlagWord("SB_AF", c, x.w) = SetF(c, "AF", "AF" \in SB_Bits(c.res, c.op0, c.op1, x.w)) BY DEF ArithmeticFlagWord
  <2>3. PICK f1 : f1 = With(f, "AF", "AF" \in SB_Bits(r, a, b, x.w)) OBVIOUS
  <2>4. Performed("SB_AF", c, x) = Machine(a, b, n, r, d, f1) BY <1>0, <1>1, <2>1, <2>2, <2>3, Zenon
  <2>5. \A h : h \in f1 <=> IF h = "AF" THEN "AF" \in SB_Bits(r, a, b, x.w) ELSE h \in f BY <1>2, <2>3
  <2> QED BY <2>4, <2>5 DEF Decides, c
<1>18. Decides("SB_CF", "CF", "CF" \in SB_Bits(r, a, b, x.w), x, a, b, n, r, d, f)
  <2>1. Performed("SB_CF", c, x) = ArithmeticFlagWord("SB_CF", c, x.w) BY WordKinds DEF ArithmeticFlagWords
  <2>2. ArithmeticFlagWord("SB_CF", c, x.w) = SetF(c, "CF", "CF" \in SB_Bits(c.res, c.op0, c.op1, x.w)) BY DEF ArithmeticFlagWord
  <2>3. PICK f1 : f1 = With(f, "CF", "CF" \in SB_Bits(r, a, b, x.w)) OBVIOUS
  <2>4. Performed("SB_CF", c, x) = Machine(a, b, n, r, d, f1) BY <1>0, <1>1, <2>1, <2>2, <2>3, Zenon
  <2>5. \A h : h \in f1 <=> IF h = "CF" THEN "CF" \in SB_Bits(r, a, b, x.w) ELSE h \in f BY <1>2, <2>3
  <2> QED BY <2>4, <2>5 DEF Decides, c
<1>19. Decides("NEG_CF", "CF", b # {}, x, a, b, n, r, d, f)
  <2>1. Performed("NEG_CF", c, x) = ArithmeticFlagWord("NEG_CF", c, x.w) BY WordKinds DEF ArithmeticFlagWords
  <2>2. ArithmeticFlagWord("NEG_CF", c, x.w) = SetF(c, "CF", c.op1 # {}) BY DEF ArithmeticFlagWord
  <2>3. PICK f1 : f1 = With(f, "CF", b # {}) OBVIOUS
  <2>4. Performed("NEG_CF", c, x) = Machine(a, b, n, r, d, f1) BY <1>0, <1>1, <2>1, <2>2, <2>3, Zenon
  <2>5. \A h : h \in f1 <=> IF h = "CF" THEN b # {} ELSE h \in f BY <1>2, <2>3
  <2> QED BY <2>4, <2>5 DEF Decides, c
<1> QED BY <1>10, <1>11, <1>12, <1>13, <1>14, <1>15, <1>16, <1>17, <1>18, <1>19

---------------------------------------------------------------------------
\* The words of everything but products and divisions.
PlainWords ==
  {"SET_COUNT", "SET_1_OP1", "OP0_OP1_0_OP0", "ADD", "ADC", "SUB", "SBB", "WRITE_RES"}
  \cup ShiftWords \cup ShiftFlagWords \cup ArithmeticFlagWords

\* A flag word that may be left out is a list of such words.
LEMMA FlagIsPlain ==
  ASSUME NEW g, NEW word \in PlainWords, NEW D
  PROVE  Flag(g, word, D) \in Seq(PlainWords)
<1>1. <<word>> \in Seq(PlainWords) /\ <<>> \in Seq(PlainWords) OBVIOUS
<1> QED BY <1>1 DEF Flag

\* The words R take machine c to one with these registers that has decided S.
Reaches(R, c, x, a, b, n, r, d, found, v, D, S) ==
  /\ R \in Seq(PlainWords)
  /\ \A m : Run(R, c, m, x) => Stage(m, a, b, n, r, d, found, v, D, S)

\* The words R leave v, as far as D is concerned, and the word d.
Translates(R, c, x, d, v, D) ==
  /\ R \in Seq(PlainWords)
  /\ \A e : Run(R, c, e, x) => Leaves(e, d, v, D)

\* No word has run.
LEMMA Starts ==
  ASSUME NEW x, NEW a, NEW b, NEW n, NEW r, NEW d, NEW found, NEW v, NEW D, NEW c,
         c = Machine(a, b, n, r, d, found)
  PROVE  Reaches(<<>>, c, x, a, b, n, r, d, found, v, D, {})
<1>1. <<>> \in Seq(PlainWords) OBVIOUS
<1>2. Agrees(found, found, v, D, {}) BY DEF Agrees
<1>3. Stage(c, a, b, n, r, d, found, v, D, {}) BY <1>2 DEF Stage
<1>4. \A m : Run(<<>>, c, m, x) => m = c BY RunEmpty
<1> QED BY <1>1, <1>3, <1>4 DEF Reaches

\* A flag word behind a list.
LEMMA ThenFlag ==
  ASSUME NEW x, NEW c, NEW a, NEW b, NEW n, NEW r, NEW d, NEW found, NEW v, NEW D, NEW S, NEW R,
         NEW g, g \notin S, NEW word \in PlainWords,
         Reaches(R, c, x, a, b, n, r, d, found, v, D, S),
         RightFlag(word, g, x, a, b, n, r, d, found, v, D, S)
  PROVE  Reaches(R \o Flag({g}, word, D), c, x, a, b, n, r, d, found, v, D, S \cup {g})
<1>1. PICK Q : Q = Flag({g}, word, D) OBVIOUS
<1>2. R \in Seq(PlainWords) /\ Q \in Seq(PlainWords) BY <1>1, FlagIsPlain DEF Reaches
<1>3. R \o Q \in Seq(PlainWords) BY <1>2
<1>4. ASSUME NEW m, Run(R \o Q, c, m, x) PROVE Stage(m, a, b, n, r, d, found, v, D, S \cup {g})
  <2>1. PICK k : Run(R, c, k, x) /\ Run(Q, k, m, x) BY <1>2, <1>4, RunConcat
  <2>2. Stage(k, a, b, n, r, d, found, v, D, S) BY <2>1 DEF Reaches
  <2> QED BY <1>1, <2>1, <2>2, FlagStage
<1> QED BY <1>1, <1>3, <1>4 DEF Reaches

\* A word that moves the registers behind a list.
LEMMA ThenWord ==
  ASSUME NEW x, NEW c, NEW a, NEW b, NEW n, NEW r, NEW d, NEW found, NEW v, NEW D, NEW S, NEW R,
         NEW a1, NEW b1, NEW n1, NEW r1, NEW d1, NEW word \in PlainWords,
         Reaches(R, c, x, a, b, n, r, d, found, v, D, S),
         Moves(word, x, a, b, n, r, d, a1, b1, n1, r1, d1, found, v, D, S)
  PROVE  Reaches(R \o <<word>>, c, x, a1, b1, n1, r1, d1, found, v, D, S)
<1>2. R \in Seq(PlainWords) /\ <<word>> \in Seq(PlainWords)
  <2>1. <<word>> \in Seq(PlainWords) OBVIOUS
  <2> QED BY <2>1 DEF Reaches
<1>3. R \o <<word>> \in Seq(PlainWords) BY <1>2
<1>4. ASSUME NEW m, Run(R \o <<word>>, c, m, x) PROVE Stage(m, a1, b1, n1, r1, d1, found, v, D, S)
  <2>1. PICK k : Run(R, c, k, x) /\ Run(<<word>>, k, m, x) BY <1>2, <1>4, RunConcat
  <2>2. Stage(k, a, b, n, r, d, found, v, D, S) BY <2>1 DEF Reaches
  <2> QED BY <2>1, <2>2, WordStage
<1> QED BY <1>3, <1>4 DEF Reaches

\* The list is complete.
LEMMA Ends ==
  ASSUME NEW x, NEW c, NEW a, NEW b, NEW n, NEW r, NEW d, NEW found, NEW v, NEW D, NEW S, NEW R,
         Reaches(R, c, x, a, b, n, r, d, found, v, D, S), Settled(found, v, D, S)
  PROVE  Translates(R, c, x, d, v, D)
<1>1. ASSUME NEW e, Run(R, c, e, x) PROVE Leaves(e, d, v, D)
  <2>1. Stage(e, a, b, n, r, d, found, v, D, S) BY <1>1 DEF Reaches
  <2> QED BY <2>1, LastStage
<1> QED BY <1>1 DEF Reaches, Translates

\* Lists without their parentheses.
LEMMA Associates ==
  ASSUME NEW T, NEW P \in Seq(T), NEW Q \in Seq(T), NEW R \in Seq(T)
  PROVE  P \o (Q \o R) = (P \o Q) \o R
<1> DEFINE s == P \o (Q \o R)
           t == (P \o Q) \o R
<1>1. s \in Seq(T) /\ t \in Seq(T) OBVIOUS
<1>2. Len(s) = Len(P) + Len(Q) + Len(R) /\ Len(t) = Len(P) + Len(Q) + Len(R) OBVIOUS
<1>3. \A i \in 1 .. Len(s) : s[i] = t[i] OBVIOUS
<1> HIDE DEF s, t
<1>4. s = t BY <1>1, <1>2, <1>3
<1> QED BY <1>4 DEF s, t

\* Two words behind a list.
LEMMA TwoWords ==
  ASSUME NEW T, NEW R \in Seq(T), NEW a \in T, NEW b \in T
  PROVE  R \o <<a, b>> = (R \o <<a>>) \o <<b>>
<1>1. <<a>> \in Seq(T) /\ <<b>> \in Seq(T) /\ <<a, b>> \in Seq(T) OBVIOUS
<1>2. PICK p \in Seq(T) : p = <<a>> BY <1>1
<1>3. PICK q \in Seq(T) : q = <<b>> BY <1>1
<1>4. PICK s \in Seq(T) : s = <<a, b>> BY <1>1
<1>5. p \o q = s
  <2>1. /\ Len(p) = 1 /\ p[1] = a /\ Len(q) = 1 /\ q[1] = b
        /\ Len(s) = 2 /\ s[1] = a /\ s[2] = b
    BY <1>2, <1>3, <1>4
  <2>0. /\ p \o q \in Seq(T) /\ Len(p \o q) = Len(p) + Len(q)
        /\ \A i \in 1 .. Len(p) : (p \o q)[i] = p[i]
        /\ \A i \in 1 .. Len(q) : (p \o q)[Len(p) + i] = q[i]
    OBVIOUS
  <2>2. PICK u \in Seq(T) : u = p \o q BY <2>0
  <2>3. Len(u) = 2 /\ u[1] = a /\ u[2] = b
    <3>1. 1 \in 1 .. 1 /\ 1 + 1 = 2 OBVIOUS
    <3>2. u[1] = a BY <2>0, <2>1, <2>2, <3>1
    <3>3. u[1 + 1] = b BY <2>0, <2>1, <2>2, <3>1
    <3> QED BY <2>0, <2>1, <2>2, <3>1, <3>2, <3>3
  <2>4. \A i \in 1 .. 2 : u[i] = s[i] BY <2>1, <2>3
  <2>5. u = s BY <2>1, <2>3, <2>4
  <2> QED BY <2>2, <2>5
<1>6. R \o (p \o q) = (R \o p) \o q BY Associates
<1> QED BY <1>2, <1>3, <1>4, <1>5, <1>6

\* A flag word is right when it decides what v has.
LEMMA RightWhen ==
  ASSUME NEW x, NEW a, NEW b, NEW n, NEW r, NEW d, NEW found, NEW v, NEW D, NEW S, NEW g, NEW word,
         \A f : Decides(word, g, g \in v, x, a, b, n, r, d, f)
  PROVE  RightFlag(word, g, x, a, b, n, r, d, found, v, D, S)
BY DEF RightFlag

\* v has the flags of the result r; those of the sum, or of the difference, of
\* a and b; those found.
ResultTarget(v, r, w) ==
  ("SF" \in v <=> w - 1 \in r) /\ ("ZF" \in v <=> r = {}) /\ ("PF" \in v <=> Parity(r))
BitsTarget(v, bits, h) == h \in v <=> h \in bits
Kept(v, found, h) == h \in v <=> h \in found

\* The flags of a sum or a difference whose macro replaces those of S.
LEMMA Targets ==
  ASSUME NEW f, NEW S, NEW bits, bits \subseteq {"OF", "AF", "CF"}, NEW r, NEW w,
         NEW v, v = WithAll(f, S, bits \cup ResultFlags(r, w)),
         "SF" \in S, "ZF" \in S, "PF" \in S
  PROVE  /\ ResultTarget(v, r, w)
         /\ \A h \in S \cap {"OF", "AF", "CF"} : BitsTarget(v, bits, h)
         /\ \A h : h \notin S => Kept(v, f, h)
<1>1. ResultFlags(r, w) \subseteq {"SF", "ZF", "PF"} BY DEF ResultFlags
<1>2. /\ "SF" \in ResultFlags(r, w) <=> w - 1 \in r
      /\ "ZF" \in ResultFlags(r, w) <=> r = {}
      /\ "PF" \in ResultFlags(r, w) <=> Parity(r)
  BY DEF ResultFlags
<1>3. \A h : h \in v <=> IF h \in S THEN h \in bits \cup ResultFlags(r, w) ELSE h \in f
  BY DEF WithAll, Replaced
<1> QED BY <1>1, <1>2, <1>3 DEF ResultTarget, BitsTarget, Kept

\* The words of SF, ZF and PF.
LEMMA ResultWords ==
  ASSUME NEW x, NEW a, NEW b, NEW n, NEW r, NEW d, NEW found, NEW v, NEW D, ResultTarget(v, r, x.w)
  PROVE  \A S : /\ RightFlag("SF", "SF", x, a, b, n, r, d, found, v, D, S)
                /\ RightFlag("ZF", "ZF", x, a, b, n, r, d, found, v, D, S)
                /\ RightFlag("PF", "PF", x, a, b, n, r, d, found, v, D, S)
<1>1. ASSUME NEW f
      PROVE  /\ Decides("SF", "SF", "SF" \in v, x, a, b, n, r, d, f)
             /\ Decides("ZF", "ZF", "ZF" \in v, x, a, b, n, r, d, f)
             /\ Decides("PF", "PF", "PF" \in v, x, a, b, n, r, d, f)
  <2>1. /\ Decides("SF", "SF", x.w - 1 \in r, x, a, b, n, r, d, f)
        /\ Decides("ZF", "ZF", r = {}, x, a, b, n, r, d, f)
        /\ Decides("PF", "PF", Parity(r), x, a, b, n, r, d, f)
    BY SumFlagWords
  <2>2. ("SF" \in v <=> x.w - 1 \in r) /\ ("ZF" \in v <=> r = {}) /\ ("PF" \in v <=> Parity(r))
    BY DEF ResultTarget
  <2>3. Decides("SF", "SF", "SF" \in v, x, a, b, n, r, d, f) BY <2>1, <2>2 DEF Decides
  <2>4. Decides("ZF", "ZF", "ZF" \in v, x, a, b, n, r, d, f) BY <2>1, <2>2 DEF Decides
  <2>5. Decides("PF", "PF", "PF" \in v, x, a, b, n, r, d, f) BY <2>1, <2>2 DEF Decides
  <2> QED BY <2>3, <2>4, <2>5
<1> QED BY <1>1, RightWhen

\* The words of OF, AF and CF of a sum, and of a difference.
LEMMA SumOverWord ==
  ASSUME NEW x, NEW a, NEW b, NEW n, NEW r, NEW d, NEW found, NEW v, NEW D, NEW bits,
         bits = AD_Bits(r, a, b, x.w), BitsTarget(v, bits, "OF")
  PROVE  \A S : RightFlag("AD_OF", "OF", x, a, b, n, r, d, found, v, D, S)
<1>1. ASSUME NEW f PROVE Decides("AD_OF", "OF", "OF" \in v, x, a, b, n, r, d, f)
  <2>1. Decides("AD_OF", "OF", "OF" \in bits, x, a, b, n, r, d, f) BY SumFlagWords
  <2> QED BY <2>1 DEF BitsTarget, Decides
<1> QED BY <1>1, RightWhen

\* AD_AF.
LEMMA SumHalfWord ==
  ASSUME NEW x, NEW a, NEW b, NEW n, NEW r, NEW d, NEW found, NEW v, NEW D, NEW bits,
         bits = AD_Bits(r, a, b, x.w), BitsTarget(v, bits, "AF")
  PROVE  \A S : RightFlag("AD_AF", "AF", x, a, b, n, r, d, found, v, D, S)
<1>1. ASSUME NEW f PROVE Decides("AD_AF", "AF", "AF" \in v, x, a, b, n, r, d, f)
  <2>1. Decides("AD_AF", "AF", "AF" \in bits, x, a, b, n, r, d, f) BY SumFlagWords
  <2> QED BY <2>1 DEF BitsTarget, Decides
<1> QED BY <1>1, RightWhen

\* AD_CF.
LEMMA SumCarryWord ==
  ASSUME NEW x, NEW a, NEW b, NEW n, NEW r, NEW d, NEW found, NEW v, NEW D, NEW bits,
         bits = AD_Bits(r, a, b, x.w), BitsTarget(v, bits, "CF")
  PROVE  \A S : RightFlag("AD_CF", "CF", x, a, b, n, r, d, found, v, D, S)
<1>1. ASSUME NEW f PROVE Decides("AD_CF", "CF", "CF" \in v, x, a, b, n, r, d, f)
  <2>1. Decides("AD_CF", "CF", "CF" \in bits, x, a, b, n, r, d, f) BY SumFlagWords
  <2> QED BY <2>1 DEF BitsTarget, Decides
<1> QED BY <1>1, RightWhen

\* SB_OF.
LEMMA DifferenceOverWord ==
  ASSUME NEW x, NEW a, NEW b, NEW n, NEW r, NEW d, NEW found, NEW v, NEW D, NEW bits,
         bits = SB_Bits(r, a, b, x.w), BitsTarget(v, bits, "OF")
  PROVE  \A S : RightFlag("SB_OF", "OF", x, a, b, n, r, d, found, v, D, S)
<1>1. ASSUME NEW f PROVE Decides("SB_OF", "OF", "OF" \in v, x, a, b, n, r, d, f)
  <2>1. Decides("SB_OF", "OF", "OF" \in bits, x, a, b, n, r, d, f) BY SumFlagWords
  <2> QED BY <2>1 DEF BitsTarget, Decides
<1> QED BY <1>1, RightWhen

\* SB_AF.
LEMMA DifferenceHalfWord ==
  ASSUME NEW x, NEW a, NEW b, NEW n, NEW r, NEW d, NEW found, NEW v, NEW D, NEW bits,
         bits = SB_Bits(r, a, b, x.w), BitsTarget(v, bits, "AF")
  PROVE  \A S : RightFlag("SB_AF", "AF", x, a, b, n, r, d, found, v, D, S)
<1>1. ASSUME NEW f PROVE Decides("SB_AF", "AF", "AF" \in v, x, a, b, n, r, d, f)
  <2>1. Decides("SB_AF", "AF", "AF" \in bits, x, a, b, n, r, d, f) BY SumFlagWords
  <2> QED BY <2>1 DEF BitsTarget, Decides
<1> QED BY <1>1, RightWhen

\* SB_CF.
LEMMA DifferenceCarryWord ==
  ASSUME NEW x, NEW a, NEW b, NEW n, NEW r, NEW d, NEW found, NEW v, NEW D, NEW bits,
         bits = SB_Bits(r, a, b, x.w), BitsTarget(v, bits, "CF")
  PROVE  \A S : RightFlag("SB_CF", "CF", x, a, b, n, r, d, found, v, D, S)
<1>1. ASSUME NEW f PROVE Decides("SB_CF", "CF", "CF" \in v, x, a, b, n, r, d, f)
  <2>1. Decides("SB_CF", "CF", "CF" \in bits, x, a, b, n, r, d, f) BY SumFlagWords
  <2> QED BY <2>1 DEF BitsTarget, Decides
<1> QED BY <1>1, RightWhen

\* compile_add_like, behind the words op1 that set the operands a and b.
LEMMA AddWordsAgree ==
  ASSUME NEW x, NEW D, D \subseteq Arithmetic, NEW op1, NEW carry \in BOOLEAN, NEW cflag \in BOOLEAN,
         NEW c, NEW a, NEW b, NEW n, NEW r0, NEW d0, NEW r, NEW v,
         Reaches(op1, c, x, a, b, n, r0, d0, x.f, v, D, {}),
         r = (IF carry THEN Plus(a, b, "CF" \in x.f, x.w) ELSE PlainSum(a, b, x.w)),
         v = AD_FLAGS(x.f, IF cflag THEN Arithmetic ELSE Arithmetic \ {"CF"}, r, a, b, x.w)
  PROVE  Translates(compile_add_like(op1, carry, cflag, D), c, x, r, v, D)
<1> DEFINE sum == IF carry THEN "ADC" ELSE "ADD"
           T == {"OF", "SF", "ZF", "AF"} \cup (IF cflag THEN {"CF"} ELSE {})
<1>1. PICK bits : bits = AD_Bits(r, a, b, x.w) OBVIOUS
<1>2. PICK S : S = (IF cflag THEN Arithmetic ELSE Arithmetic \ {"CF"}) OBVIOUS
<1>3. /\ ResultTarget(v, r, x.w)
      /\ \A h \in S \cap {"OF", "AF", "CF"} : BitsTarget(v, bits, h)
      /\ \A h : h \notin S => Kept(v, x.f, h)
  <2>1. bits \subseteq {"OF", "AF", "CF"} BY <1>1 DEF AD_Bits
  <2>2. v = WithAll(x.f, S, bits \cup ResultFlags(r, x.w)) BY <1>1, <1>2 DEF AD_FLAGS
  <2>3. "SF" \in S /\ "ZF" \in S /\ "PF" \in S BY <1>2 DEF Arithmetic
  <2> QED BY <2>1, <2>2, <2>3, Targets
<1>4. /\ BitsTarget(v, bits, "OF") /\ BitsTarget(v, bits, "AF")
      /\ cflag => BitsTarget(v, bits, "CF")
  BY <1>2, <1>3 DEF Arithmetic
<1>16. Arithmetic \ S \subseteq {"CF"} /\ (~ cflag => "CF" \notin S)
  BY <1>2 DEF Arithmetic
<1>5. /\ sum \in PlainWords /\ "WRITE_RES" \in PlainWords
      /\ {"AD_OF", "SF", "ZF", "AD_AF", "AD_CF", "PF"} \subseteq PlainWords
  BY DEF PlainWords, ArithmeticFlagWords
<1>6. Reaches(op1 \o <<sum>>, c, x, a, b, n, r, d0, x.f, v, D, {})
  <2>1. ASSUME NEW f, Agrees(f, x.f, v, D, {})
        PROVE  Performed(sum, Machine(a, b, n, r0, d0, f), x) = Machine(a, b, n, r, d0, f)
    <3>1. "CF" \in f <=> "CF" \in x.f BY <2>1 DEF Agrees
    <3>2. CASE carry
      <4>1. r = Plus(a, b, "CF" \in f, x.w) BY <3>1, <3>2
      <4>2. Performed("ADC", Machine(a, b, n, r0, d0, f), x) = Machine(a, b, n, r, d0, f) BY <4>1, AdcWord
      <4> QED BY <3>2, <4>2
    <3>3. CASE ~ carry
      <4>1. r = PlainSum(a, b, x.w) BY <3>3
      <4>2. Performed("ADD", Machine(a, b, n, r0, d0, f), x) = Machine(a, b, n, PlainSum(a, b, x.w), d0, f) BY AddWord
      <4> QED BY <3>3, <4>1, <4>2
    <3> QED BY <3>2, <3>3
  <2>2. Moves(sum, x, a, b, n, r0, d0, a, b, n, r, d0, x.f, v, D, {}) BY <2>1 DEF Moves
  <2> HIDE DEF sum
  <2> QED BY <1>5, <2>2, ThenWord
<1> DEFINE P0 == op1 \o <<sum, "WRITE_RES">>
           P1 == P0 \o Flag({"OF"}, "AD_OF", D)
           P2 == P1 \o Flag({"SF"}, "SF", D)
           P3 == P2 \o Flag({"ZF"}, "ZF", D)
           P4 == P3 \o Flag({"AF"}, "AD_AF", D)
           P5 == P4 \o (IF cflag THEN Flag({"CF"}, "AD_CF", D) ELSE <<>>)
           P6 == P5 \o Flag({"PF"}, "PF", D)
<1>7. compile_add_like(op1, carry, cflag, D) = P6 BY DEF compile_add_like
<1> HIDE DEF P6
<1>8. Reaches(P0, c, x, a, b, n, r, r, x.f, v, D, {})
  <2>1. op1 \in Seq(PlainWords) BY DEF Reaches
  <2> HIDE DEF sum
  <2>2. P0 = (op1 \o <<sum>>) \o <<"WRITE_RES">> BY <1>5, <2>1, TwoWords
  <2>3. Moves("WRITE_RES", x, a, b, n, r, d0, a, b, n, r, r, x.f, v, D, {}) BY MovingWords DEF Moves
  <2> HIDE DEF P0
  <2> QED BY <1>5, <1>6, <2>2, <2>3, ThenWord
<1> HIDE DEF P0
<1>9. Reaches(P1, c, x, a, b, n, r, r, x.f, v, D, {"OF"})
  <2>1. RightFlag("AD_OF", "OF", x, a, b, n, r, r, x.f, v, D, {}) BY <1>1, <1>4, SumOverWord
  <2>2. Reaches(P1, c, x, a, b, n, r, r, x.f, v, D, {} \cup {"OF"}) BY <1>5, <1>8, <2>1, ThenFlag
  <2> QED BY <2>2
<1> HIDE DEF P1
<1>10. Reaches(P2, c, x, a, b, n, r, r, x.f, v, D, {"OF", "SF"})
  <2>1. RightFlag("SF", "SF", x, a, b, n, r, r, x.f, v, D, {"OF"}) BY <1>3, ResultWords
  <2>2. Reaches(P2, c, x, a, b, n, r, r, x.f, v, D, {"OF"} \cup {"SF"}) BY <1>5, <1>9, <2>1, ThenFlag
  <2> QED BY <2>2
<1> HIDE DEF P2
<1>11. Reaches(P3, c, x, a, b, n, r, r, x.f, v, D, {"OF", "SF", "ZF"})
  <2>1. RightFlag("ZF", "ZF", x, a, b, n, r, r, x.f, v, D, {"OF", "SF"}) BY <1>3, ResultWords
  <2>2. Reaches(P3, c, x, a, b, n, r, r, x.f, v, D, {"OF", "SF"} \cup {"ZF"}) BY <1>5, <1>10, <2>1, ThenFlag
  <2> QED BY <2>2
<1> HIDE DEF P3
<1>12. Reaches(P4, c, x, a, b, n, r, r, x.f, v, D, {"OF", "SF", "ZF", "AF"})
  <2>1. RightFlag("AD_AF", "AF", x, a, b, n, r, r, x.f, v, D, {"OF", "SF", "ZF"}) BY <1>1, <1>4, SumHalfWord
  <2>2. Reaches(P4, c, x, a, b, n, r, r, x.f, v, D, {"OF", "SF", "ZF"} \cup {"AF"}) BY <1>5, <1>11, <2>1, ThenFlag
  <2> QED BY <2>2
<1> HIDE DEF P4
<1>13. Reaches(P5, c, x, a, b, n, r, r, x.f, v, D, T)
  <2>1. CASE cflag
    <3>1. P5 = P4 \o Flag({"CF"}, "AD_CF", D) BY <2>1
    <3>2. RightFlag("AD_CF", "CF", x, a, b, n, r, r, x.f, v, D, {"OF", "SF", "ZF", "AF"})
      BY <1>1, <1>4, <2>1, SumCarryWord
    <3>3. Reaches(P4 \o Flag({"CF"}, "AD_CF", D), c, x, a, b, n, r, r, x.f, v, D, {"OF", "SF", "ZF", "AF"} \cup {"CF"})
      BY <1>5, <1>12, <3>2, ThenFlag
    <3> QED BY <2>1, <3>1, <3>3
  <2>2. CASE ~ cflag
    <3>1. P4 \in Seq(PlainWords) BY <1>12 DEF Reaches
    <3>2. P5 = P4 BY <2>2, <3>1, ConcatEmptySeq
    <3>3. T = {"OF", "SF", "ZF", "AF"} BY <2>2
    <3> QED BY <1>12, <3>2, <3>3
  <2> QED BY <2>1, <2>2
<1> HIDE DEF P5
<1>14. Reaches(P6, c, x, a, b, n, r, r, x.f, v, D, T \cup {"PF"})
  <2>1. RightFlag("PF", "PF", x, a, b, n, r, r, x.f, v, D, T) BY <1>3, ResultWords
  <2>2. "PF" \notin T OBVIOUS
  <2> HIDE DEF T
  <2>3. Reaches(P5 \o Flag({"PF"}, "PF", D), c, x, a, b, n, r, r, x.f, v, D, T \cup {"PF"})
    BY <1>5, <1>13, <2>1, <2>2, ThenFlag
  <2>4. P6 = P5 \o Flag({"PF"}, "PF", D) BY DEF P6
  <2> QED BY <2>3, <2>4, Zenon
<1>15. Settled(x.f, v, D, T \cup {"PF"})
  <2>1. ASSUME NEW h \in D, h \notin T \cup {"PF"} PROVE h = "CF" /\ ~ cflag BY <2>1 DEF Arithmetic
  <2> QED BY <1>3, <1>16, <2>1 DEF Settled, Kept
<1> HIDE DEF T
<1> QED BY <1>7, <1>14, <1>15, Ends

\* NEG_CF.
LEMMA NegCarryWord ==
  ASSUME NEW x, NEW a, NEW b, NEW n, NEW r, NEW d, NEW found, NEW v, NEW D,
         "CF" \in v <=> b # {}
  PROVE  \A S : RightFlag("NEG_CF", "CF", x, a, b, n, r, d, found, v, D, S)
<1>1. ASSUME NEW f PROVE Decides("NEG_CF", "CF", "CF" \in v, x, a, b, n, r, d, f)
  <2>1. Decides("NEG_CF", "CF", b # {}, x, a, b, n, r, d, f) BY SumFlagWords
  <2> QED BY <2>1 DEF Decides
<1> QED BY <1>1, RightWhen

\* What the carry word cf of a difference has to leave.
CarryTarget(cf, v, found, bits, b) ==
  \/ cf = "SB_CF" /\ BitsTarget(v, bits, "CF")
  \/ cf = "NEG_CF" /\ ("CF" \in v <=> b # {})
  \/ cf = "none" /\ Kept(v, found, "CF")

\* compile_sub_like, behind the words op1 that set the operands a and b.
LEMMA SubWordsAgree ==
  ASSUME NEW x, NEW D, D \subseteq Arithmetic, NEW op1, NEW write \in BOOLEAN, NEW carry \in BOOLEAN,
         NEW cf, NEW c, NEW a, NEW b, NEW n, NEW r0, NEW d0, NEW r, NEW v,
         Reaches(op1, c, x, a, b, n, r0, d0, x.f, v, D, {}),
         r = (IF carry THEN Plus(a, Not(b, x.w), "CF" \notin x.f, x.w) ELSE Minus(a, b, x.w)),
         NEW bits, bits = SB_Bits(r, a, b, x.w),
         ResultTarget(v, r, x.w), BitsTarget(v, bits, "OF"), BitsTarget(v, bits, "AF"),
         CarryTarget(cf, v, x.f, bits, b)
  PROVE  Translates(compile_sub_like(op1, write, carry, cf, D), c, x, IF write THEN r ELSE d0, v, D)
<1> DEFINE diff == IF carry THEN "SBB" ELSE "SUB"
           d == IF write THEN r ELSE d0
           T == {"OF", "SF", "ZF", "AF"} \cup (IF cf = "none" THEN {} ELSE {"CF"})
           P0 == op1 \o <<diff>>
           P1 == P0 \o (IF write THEN <<"WRITE_RES">> ELSE <<>>)
           P2 == P1 \o Flag({"OF"}, "SB_OF", D)
           P3 == P2 \o Flag({"SF"}, "SF", D)
           P4 == P3 \o Flag({"ZF"}, "ZF", D)
           P5 == P4 \o Flag({"AF"}, "SB_AF", D)
           P6 == P5 \o (IF cf = "none" THEN <<>> ELSE Flag({"CF"}, cf, D))
           P7 == P6 \o Flag({"PF"}, "PF", D)
<1>1. /\ diff \in PlainWords /\ "WRITE_RES" \in PlainWords
      /\ {"SB_OF", "SF", "ZF", "SB_AF", "SB_CF", "NEG_CF", "PF"} \subseteq PlainWords
  BY DEF PlainWords, ArithmeticFlagWords
<1>2. Reaches(P0, c, x, a, b, n, r, d0, x.f, v, D, {})
  <2>1. ASSUME NEW f, Agrees(f, x.f, v, D, {})
        PROVE  Performed(diff, Machine(a, b, n, r0, d0, f), x) = Machine(a, b, n, r, d0, f)
    <3>1. "CF" \in f <=> "CF" \in x.f BY <2>1 DEF Agrees
    <3>2. CASE carry
      <4>1. r = Plus(a, Not(b, x.w), "CF" \notin f, x.w) BY <3>1, <3>2
      <4>2. Performed("SBB", Machine(a, b, n, r0, d0, f), x) = Machine(a, b, n, r, d0, f) BY <4>1, SbbWord
      <4> QED BY <3>2, <4>2
    <3>3. CASE ~ carry
      <4>1. r = Minus(a, b, x.w) BY <3>3
      <4>2. Performed("SUB", Machine(a, b, n, r0, d0, f), x) = Machine(a, b, n, r, d0, f) BY <4>1, SubWord
      <4> QED BY <3>3, <4>2
    <3> QED BY <3>2, <3>3
  <2>2. Moves(diff, x, a, b, n, r0, d0, a, b, n, r, d0, x.f, v, D, {}) BY <2>1 DEF Moves
  <2> HIDE DEF diff
  <2> QED BY <1>1, <2>2, ThenWord
<1>3. compile_sub_like(op1, write, carry, cf, D) = P7 BY DEF compile_sub_like
<1> HIDE DEF P7, P0
<1>4. Reaches(P1, c, x, a, b, n, r, d, x.f, v, D, {})
  <2>1. CASE write
    <3>1. Moves("WRITE_RES", x, a, b, n, r, d0, a, b, n, r, r, x.f, v, D, {}) BY MovingWords DEF Moves
    <3>2. Reaches(P0 \o <<"WRITE_RES">>, c, x, a, b, n, r, r, x.f, v, D, {}) BY <1>1, <1>2, <3>1, ThenWord
    <3> QED BY <2>1, <3>2
  <2>2. CASE ~ write
    <3>1. P0 \in Seq(PlainWords) BY <1>2 DEF Reaches
    <3>2. P1 = P0 BY <2>2, <3>1, ConcatEmptySeq
    <3>3. d = d0 BY <2>2
    <3> QED BY <1>2, <3>2, <3>3
  <2> QED BY <2>1, <2>2
<1> HIDE DEF P1
<1>16. PICK k : k = d OBVIOUS
<1>5. Reaches(P1, c, x, a, b, n, r, k, x.f, v, D, {}) BY <1>4, <1>16
<1> HIDE DEF d
<1>9. Reaches(P2, c, x, a, b, n, r, k, x.f, v, D, {"OF"})
  <2>1. RightFlag("SB_OF", "OF", x, a, b, n, r, k, x.f, v, D, {}) BY DifferenceOverWord
  <2>2. Reaches(P2, c, x, a, b, n, r, k, x.f, v, D, {} \cup {"OF"}) BY <1>1, <1>5, <2>1, ThenFlag
  <2> QED BY <2>2
<1> HIDE DEF P2
<1>10. Reaches(P3, c, x, a, b, n, r, k, x.f, v, D, {"OF", "SF"})
  <2>1. RightFlag("SF", "SF", x, a, b, n, r, k, x.f, v, D, {"OF"}) BY ResultWords
  <2>2. Reaches(P3, c, x, a, b, n, r, k, x.f, v, D, {"OF"} \cup {"SF"}) BY <1>1, <1>9, <2>1, ThenFlag
  <2> QED BY <2>2
<1> HIDE DEF P3
<1>11. Reaches(P4, c, x, a, b, n, r, k, x.f, v, D, {"OF", "SF", "ZF"})
  <2>1. RightFlag("ZF", "ZF", x, a, b, n, r, k, x.f, v, D, {"OF", "SF"}) BY ResultWords
  <2>2. Reaches(P4, c, x, a, b, n, r, k, x.f, v, D, {"OF", "SF"} \cup {"ZF"}) BY <1>1, <1>10, <2>1, ThenFlag
  <2> QED BY <2>2
<1> HIDE DEF P4
<1>12. Reaches(P5, c, x, a, b, n, r, k, x.f, v, D, {"OF", "SF", "ZF", "AF"})
  <2>1. RightFlag("SB_AF", "AF", x, a, b, n, r, k, x.f, v, D, {"OF", "SF", "ZF"}) BY DifferenceHalfWord
  <2>2. Reaches(P5, c, x, a, b, n, r, k, x.f, v, D, {"OF", "SF", "ZF"} \cup {"AF"}) BY <1>1, <1>11, <2>1, ThenFlag
  <2> QED BY <2>2
<1> HIDE DEF P5
<1>13. Reaches(P6, c, x, a, b, n, r, k, x.f, v, D, T)
  <2>1. CASE cf # "none"
    <3>1. P6 = P5 \o Flag({"CF"}, cf, D) BY <2>1
    <3>2. RightFlag(cf, "CF", x, a, b, n, r, k, x.f, v, D, {"OF", "SF", "ZF", "AF"})
      <4>1. CASE cf = "SB_CF"
        <5>1. BitsTarget(v, bits, "CF") BY <4>1 DEF CarryTarget
        <5> QED BY <4>1, <5>1, DifferenceCarryWord
      <4>2. CASE cf = "NEG_CF"
        <5>1. "CF" \in v <=> b # {} BY <4>2 DEF CarryTarget
        <5> QED BY <4>2, <5>1, NegCarryWord
      <4> QED BY <2>1, <4>1, <4>2 DEF CarryTarget
    <3>3. cf \in PlainWords BY <1>1, <2>1 DEF CarryTarget
    <3>4. Reaches(P5 \o Flag({"CF"}, cf, D), c, x, a, b, n, r, k, x.f, v, D, {"OF", "SF", "ZF", "AF"} \cup {"CF"})
      BY <1>12, <3>2, <3>3, ThenFlag
    <3> QED BY <2>1, <3>1, <3>4
  <2>2. CASE cf = "none"
    <3>1. P5 \in Seq(PlainWords) BY <1>12 DEF Reaches
    <3>2. P6 = P5 BY <2>2, <3>1, ConcatEmptySeq
    <3>3. T = {"OF", "SF", "ZF", "AF"} BY <2>2
    <3> QED BY <1>12, <3>2, <3>3
  <2> QED BY <2>1, <2>2
<1> HIDE DEF P6
<1>14. Reaches(P7, c, x, a, b, n, r, k, x.f, v, D, T \cup {"PF"})
  <2>1. RightFlag("PF", "PF", x, a, b, n, r, k, x.f, v, D, T) BY ResultWords
  <2>2. "PF" \notin T OBVIOUS
  <2> HIDE DEF T
  <2>3. Reaches(P6 \o Flag({"PF"}, "PF", D), c, x, a, b, n, r, k, x.f, v, D, T \cup {"PF"})
    BY <1>1, <1>13, <2>1, <2>2, ThenFlag
  <2> QED BY <2>3 DEF P7
<1>15. Settled(x.f, v, D, T \cup {"PF"})
  <2>1. ASSUME NEW h \in D, h \notin T \cup {"PF"} PROVE h = "CF" /\ cf = "none" BY <2>1 DEF Arithmetic
  <2> QED BY <2>1 DEF Settled, Kept, CarryTarget
<1> HIDE DEF T
<1>17. Translates(P7, c, x, k, v, D) BY <1>14, <1>15, Ends
<1> QED BY <1>3, <1>16, <1>17 DEF d

---------------------------------------------------------------------------
\* The flag words of shifts: what the flag has to be for the word to be right,
\* when it sets it and when it leaves it.
LEMMA ShlOverWord ==
  ASSUME NEW x, NEW a, NEW b, NEW n, NEW r, NEW d, NEW found, NEW v, NEW D, NEW S, "OF" \notin S,
         "OF" \in v <=> (IF n = 1 THEN (x.w - 1 \in a) # (x.w - 2 \in a) ELSE "OF" \in found)
  PROVE  RightFlag("SHL_OF", "OF", x, a, b, n, r, d, found, v, D, S)
<1>1. ASSUME NEW f, Agrees(f, found, v, D, S)
      PROVE  Decides("SHL_OF", "OF", "OF" \in v, x, a, b, n, r, d, f)
  <2>1. PICK c : c = Machine(a, b, n, r, d, f) OBVIOUS
  <2>2. c.op0 = a /\ c.op1 = b /\ c.count = n /\ c.res = r /\ c.f = f BY <2>1 DEF Machine
  <2>3. Performed("SHL_OF", c, x) = ShiftFlagWord("SHL_OF", c, x.w) BY WordKinds DEF ShiftFlagWords
  <2>4. ShiftFlagWord("SHL_OF", c, x.w) = SetWhen(c, c.count = 1, "OF", (x.w - 1 \in c.op0) # (x.w - 2 \in c.op0)) BY DEF ShiftFlagWord
  <2>5. CASE n = 1
    <3>1. ShiftFlagWord("SHL_OF", c, x.w) = SetF(c, "OF", (x.w - 1 \in c.op0) # (x.w - 2 \in c.op0)) BY <2>2, <2>4, <2>5 DEF SetWhen
    <3>2. PICK f1 : f1 = With(f, "OF", (x.w - 1 \in a) # (x.w - 2 \in a)) OBVIOUS
    <3>3. SetF(c, "OF", (x.w - 1 \in c.op0) # (x.w - 2 \in c.op0)) = Machine(a, b, n, r, d, f1) BY <2>1, <2>2, <3>2 DEF SetF, Machine, With
    <3>4. \A h : h \in f1 <=> IF h = "OF" THEN (x.w - 1 \in a) # (x.w - 2 \in a) ELSE h \in f BY <3>2 DEF With
    <3> QED BY <2>1, <2>3, <2>5, <3>1, <3>3, <3>4 DEF Decides
  <2>6. CASE ~ (n = 1)
    <3>1. ShiftFlagWord("SHL_OF", c, x.w) = c BY <2>2, <2>4, <2>6 DEF SetWhen
    <3>2. "OF" \in f <=> "OF" \in found BY <1>1 DEF Agrees
    <3> QED BY <2>1, <2>3, <2>6, <3>1, <3>2 DEF Decides
  <2> QED BY <2>5, <2>6
<1> QED BY <1>1 DEF RightFlag

\* RCL_OF.
LEMMA RclOverWord ==
  ASSUME NEW x, NEW a, NEW b, NEW n, NEW r, NEW d, NEW found, NEW v, NEW D, NEW S, "OF" \notin S,
         "OF" \in v <=> (IF n = 1 THEN (x.w - 1 \in a) # (x.w - 2 \in a) ELSE "OF" \in found)
  PROVE  RightFlag("RCL_OF", "OF", x, a, b, n, r, d, found, v, D, S)
<1>1. ASSUME NEW f, Agrees(f, found, v, D, S)
      PROVE  Decides("RCL_OF", "OF", "OF" \in v, x, a, b, n, r, d, f)
  <2>1. PICK c : c = Machine(a, b, n, r, d, f) OBVIOUS
  <2>2. c.op0 = a /\ c.op1 = b /\ c.count = n /\ c.res = r /\ c.f = f BY <2>1 DEF Machine
  <2>3. Performed("RCL_OF", c, x) = ShiftFlagWord("RCL_OF", c, x.w) BY WordKinds DEF ShiftFlagWords
  <2>4. ShiftFlagWord("RCL_OF", c, x.w) = SetWhen(c, c.count = 1, "OF", (x.w - 1 \in c.op0) # (x.w - 2 \in c.op0)) BY DEF ShiftFlagWord
  <2>5. CASE n = 1
    <3>1. ShiftFlagWord("RCL_OF", c, x.w) = SetF(c, "OF", (x.w - 1 \in c.op0) # (x.w - 2 \in c.op0)) BY <2>2, <2>4, <2>5 DEF SetWhen
    <3>2. PICK f1 : f1 = With(f, "OF", (x.w - 1 \in a) # (x.w - 2 \in a)) OBVIOUS
    <3>3. SetF(c, "OF", (x.w - 1 \in c.op0) # (x.w - 2 \in c.op0)) = Machine(a, b, n, r, d, f1) BY <2>1, <2>2, <3>2 DEF SetF, Machine, With
    <3>4. \A h : h \in f1 <=> IF h = "OF" THEN (x.w - 1 \in a) # (x.w - 2 \in a) ELSE h \in f BY <3>2 DEF With
    <3> QED BY <2>1, <2>3, <2>5, <3>1, <3>3, <3>4 DEF Decides
  <2>6. CASE ~ (n = 1)
    <3>1. ShiftFlagWord("RCL_OF", c, x.w) = c BY <2>2, <2>4, <2>6 DEF SetWhen
    <3>2. "OF" \in f <=> "OF" \in found BY <1>1 DEF Agrees
    <3> QED BY <2>1, <2>3, <2>6, <3>1, <3>2 DEF Decides
  <2> QED BY <2>5, <2>6
<1> QED BY <1>1 DEF RightFlag

\* SHR_OF.
LEMMA ShrOverWord ==
  ASSUME NEW x, NEW a, NEW b, NEW n, NEW r, NEW d, NEW found, NEW v, NEW D, NEW S, "OF" \notin S,
         "OF" \in v <=> (IF n = 1 THEN x.w - 1 \in a ELSE "OF" \in found)
  PROVE  RightFlag("SHR_OF", "OF", x, a, b, n, r, d, found, v, D, S)
<1>1. ASSUME NEW f, Agrees(f, found, v, D, S)
      PROVE  Decides("SHR_OF", "OF", "OF" \in v, x, a, b, n, r, d, f)
  <2>1. PICK c : c = Machine(a, b, n, r, d, f) OBVIOUS
  <2>2. c.op0 = a /\ c.op1 = b /\ c.count = n /\ c.res = r /\ c.f = f BY <2>1 DEF Machine
  <2>3. Performed("SHR_OF", c, x) = ShiftFlagWord("SHR_OF", c, x.w) BY WordKinds DEF ShiftFlagWords
  <2>4. ShiftFlagWord("SHR_OF", c, x.w) = SetWhen(c, c.count = 1, "OF", x.w - 1 \in c.op0) BY DEF ShiftFlagWord
  <2>5. CASE n = 1
    <3>1. ShiftFlagWord("SHR_OF", c, x.w) = SetF(c, "OF", x.w - 1 \in c.op0) BY <2>2, <2>4, <2>5 DEF SetWhen
    <3>2. PICK f1 : f1 = With(f, "OF", x.w - 1 \in a) OBVIOUS
    <3>3. SetF(c, "OF", x.w - 1 \in c.op0) = Machine(a, b, n, r, d, f1) BY <2>1, <2>2, <3>2 DEF SetF, Machine, With
    <3>4. \A h : h \in f1 <=> IF h = "OF" THEN x.w - 1 \in a ELSE h \in f BY <3>2 DEF With
    <3> QED BY <2>1, <2>3, <2>5, <3>1, <3>3, <3>4 DEF Decides
  <2>6. CASE ~ (n = 1)
    <3>1. ShiftFlagWord("SHR_OF", c, x.w) = c BY <2>2, <2>4, <2>6 DEF SetWhen
    <3>2. "OF" \in f <=> "OF" \in found BY <1>1 DEF Agrees
    <3> QED BY <2>1, <2>3, <2>6, <3>1, <3>2 DEF Decides
  <2> QED BY <2>5, <2>6
<1> QED BY <1>1 DEF RightFlag

\* SAR_OF.
LEMMA SarOverWord ==
  ASSUME NEW x, NEW a, NEW b, NEW n, NEW r, NEW d, NEW found, NEW v, NEW D, NEW S, "OF" \notin S,
         "OF" \in v <=> (IF n = 1 THEN FALSE ELSE "OF" \in found)
  PROVE  RightFlag("SAR_OF", "OF", x, a, b, n, r, d, found, v, D, S)
<1>1. ASSUME NEW f, Agrees(f, found, v, D, S)
      PROVE  Decides("SAR_OF", "OF", "OF" \in v, x, a, b, n, r, d, f)
  <2>1. PICK c : c = Machine(a, b, n, r, d, f) OBVIOUS
  <2>2. c.op0 = a /\ c.op1 = b /\ c.count = n /\ c.res = r /\ c.f = f BY <2>1 DEF Machine
  <2>3. Performed("SAR_OF", c, x) = ShiftFlagWord("SAR_OF", c, x.w) BY WordKinds DEF ShiftFlagWords
  <2>4. ShiftFlagWord("SAR_OF", c, x.w) = SetWhen(c, c.count = 1, "OF", FALSE) BY DEF ShiftFlagWord
  <2>5. CASE n = 1
    <3>1. ShiftFlagWord("SAR_OF", c, x.w) = SetF(c, "OF", FALSE) BY <2>2, <2>4, <2>5 DEF SetWhen
    <3>2. PICK f1 : f1 = With(f, "OF", FALSE) OBVIOUS
    <3>3. SetF(c, "OF", FALSE) = Machine(a, b, n, r, d, f1) BY <2>1, <2>2, <3>2 DEF SetF, Machine, With
    <3>4. \A h : h \in f1 <=> IF h = "OF" THEN FALSE ELSE h \in f BY <3>2 DEF With
    <3> QED BY <2>1, <2>3, <2>5, <3>1, <3>3, <3>4 DEF Decides
  <2>6. CASE ~ (n = 1)
    <3>1. ShiftFlagWord("SAR_OF", c, x.w) = c BY <2>2, <2>4, <2>6 DEF SetWhen
    <3>2. "OF" \in f <=> "OF" \in found BY <1>1 DEF Agrees
    <3> QED BY <2>1, <2>3, <2>6, <3>1, <3>2 DEF Decides
  <2> QED BY <2>5, <2>6
<1> QED BY <1>1 DEF RightFlag

\* RCR_OF, which reads CF: it runs before CF is decided.
LEMMA RcrOverWord ==
  ASSUME NEW x, NEW a, NEW b, NEW n, NEW r, NEW d, NEW found, NEW v, NEW D, NEW S, "OF" \notin S, "CF" \notin S,
         "OF" \in v <=> (IF n = 1 THEN (x.w - 1 \in a) # ("CF" \in found) ELSE "OF" \in found)
  PROVE  RightFlag("RCR_OF", "OF", x, a, b, n, r, d, found, v, D, S)
<1>1. ASSUME NEW f, Agrees(f, found, v, D, S)
      PROVE  Decides("RCR_OF", "OF", "OF" \in v, x, a, b, n, r, d, f)
  <2>1. PICK c : c = Machine(a, b, n, r, d, f) OBVIOUS
  <2>2. c.op0 = a /\ c.op1 = b /\ c.count = n /\ c.res = r /\ c.f = f BY <2>1 DEF Machine
  <2>3. Performed("RCR_OF", c, x) = ShiftFlagWord("RCR_OF", c, x.w) BY WordKinds DEF ShiftFlagWords
  <2>4. ShiftFlagWord("RCR_OF", c, x.w) = SetWhen(c, c.count = 1, "OF", (x.w - 1 \in c.op0) # ("CF" \in c.f)) BY DEF ShiftFlagWord
  <2>5. CASE n = 1
    <3>1. ShiftFlagWord("RCR_OF", c, x.w) = SetF(c, "OF", (x.w - 1 \in c.op0) # ("CF" \in c.f)) BY <2>2, <2>4, <2>5 DEF SetWhen
    <3>2. PICK f1 : f1 = With(f, "OF", (x.w - 1 \in a) # ("CF" \in f)) OBVIOUS
    <3>3. SetF(c, "OF", (x.w - 1 \in c.op0) # ("CF" \in c.f)) = Machine(a, b, n, r, d, f1) BY <2>1, <2>2, <3>2 DEF SetF, Machine, With
    <3>4. \A h : h \in f1 <=> IF h = "OF" THEN (x.w - 1 \in a) # ("CF" \in f) ELSE h \in f BY <3>2 DEF With
    <3>5. "CF" \in f <=> "CF" \in found BY <1>1 DEF Agrees
    <3> QED BY <2>1, <2>3, <2>5, <3>1, <3>3, <3>4, <3>5 DEF Decides
  <2>6. CASE ~ (n = 1)
    <3>1. ShiftFlagWord("RCR_OF", c, x.w) = c BY <2>2, <2>4, <2>6 DEF SetWhen
    <3>2. "OF" \in f <=> "OF" \in found BY <1>1 DEF Agrees
    <3> QED BY <2>1, <2>3, <2>6, <3>1, <3>2 DEF Decides
  <2> QED BY <2>5, <2>6
<1> QED BY <1>1 DEF RightFlag

\* ROR_OF.
LEMMA RorOverWord ==
  ASSUME NEW x, NEW a, NEW b, NEW n, NEW r, NEW d, NEW found, NEW v, NEW D, NEW S, "OF" \notin S,
         "OF" \in v <=> (IF n = 1 THEN (x.w - 1 \in a) # (0 \in a) ELSE "OF" \in found)
  PROVE  RightFlag("ROR_OF", "OF", x, a, b, n, r, d, found, v, D, S)
<1>1. ASSUME NEW f, Agrees(f, found, v, D, S)
      PROVE  Decides("ROR_OF", "OF", "OF" \in v, x, a, b, n, r, d, f)
  <2>1. PICK c : c = Machine(a, b, n, r, d, f) OBVIOUS
  <2>2. c.op0 = a /\ c.op1 = b /\ c.count = n /\ c.res = r /\ c.f = f BY <2>1 DEF Machine
  <2>3. Performed("ROR_OF", c, x) = ShiftFlagWord("ROR_OF", c, x.w) BY WordKinds DEF ShiftFlagWords
  <2>4. ShiftFlagWord("ROR_OF", c, x.w) = SetWhen(c, c.count = 1, "OF", (x.w - 1 \in c.op0) # (0 \in c.op0)) BY DEF ShiftFlagWord
  <2>5. CASE n = 1
    <3>1. ShiftFlagWord("ROR_OF", c, x.w) = SetF(c, "OF", (x.w - 1 \in c.op0) # (0 \in c.op0)) BY <2>2, <2>4, <2>5 DEF SetWhen
    <3>2. PICK f1 : f1 = With(f, "OF", (x.w - 1 \in a) # (0 \in a)) OBVIOUS
    <3>3. SetF(c, "OF", (x.w - 1 \in c.op0) # (0 \in c.op0)) = Machine(a, b, n, r, d, f1) BY <2>1, <2>2, <3>2 DEF SetF, Machine, With
    <3>4. \A h : h \in f1 <=> IF h = "OF" THEN (x.w - 1 \in a) # (0 \in a) ELSE h \in f BY <3>2 DEF With
    <3> QED BY <2>1, <2>3, <2>5, <3>1, <3>3, <3>4 DEF Decides
  <2>6. CASE ~ (n = 1)
    <3>1. ShiftFlagWord("ROR_OF", c, x.w) = c BY <2>2, <2>4, <2>6 DEF SetWhen
    <3>2. "OF" \in f <=> "OF" \in found BY <1>1 DEF Agrees
    <3> QED BY <2>1, <2>3, <2>6, <3>1, <3>2 DEF Decides
  <2> QED BY <2>5, <2>6
<1> QED BY <1>1 DEF RightFlag

\* SHXD_OF.
LEMMA DoubleOverWord ==
  ASSUME NEW x, NEW a, NEW b, NEW n, NEW r, NEW d, NEW found, NEW v, NEW D, NEW S, "OF" \notin S,
         "OF" \in v <=> (IF n = 1 THEN x.w - 1 \in Xor(r, a) ELSE "OF" \in found)
  PROVE  RightFlag("SHXD_OF", "OF", x, a, b, n, r, d, found, v, D, S)
<1>1. ASSUME NEW f, Agrees(f, found, v, D, S)
      PROVE  Decides("SHXD_OF", "OF", "OF" \in v, x, a, b, n, r, d, f)
  <2>1. PICK c : c = Machine(a, b, n, r, d, f) OBVIOUS
  <2>2. c.op0 = a /\ c.op1 = b /\ c.count = n /\ c.res = r /\ c.f = f BY <2>1 DEF Machine
  <2>3. Performed("SHXD_OF", c, x) = ShiftFlagWord("SHXD_OF", c, x.w) BY WordKinds DEF ShiftFlagWords
  <2>4. ShiftFlagWord("SHXD_OF", c, x.w) = SetWhen(c, c.count = 1, "OF", x.w - 1 \in Xor(c.res, c.op0)) BY DEF ShiftFlagWord
  <2>5. CASE n = 1
    <3>1. ShiftFlagWord("SHXD_OF", c, x.w) = SetF(c, "OF", x.w - 1 \in Xor(c.res, c.op0)) BY <2>2, <2>4, <2>5 DEF SetWhen
    <3>2. PICK f1 : f1 = With(f, "OF", x.w - 1 \in Xor(r, a)) OBVIOUS
    <3>3. SetF(c, "OF", x.w - 1 \in Xor(c.res, c.op0)) = Machine(a, b, n, r, d, f1) BY <2>1, <2>2, <3>2 DEF SetF, Machine, With
    <3>4. \A h : h \in f1 <=> IF h = "OF" THEN x.w - 1 \in Xor(r, a) ELSE h \in f BY <3>2 DEF With
    <3> QED BY <2>1, <2>3, <2>5, <3>1, <3>3, <3>4 DEF Decides
  <2>6. CASE ~ (n = 1)
    <3>1. ShiftFlagWord("SHXD_OF", c, x.w) = c BY <2>2, <2>4, <2>6 DEF SetWhen
    <3>2. "OF" \in f <=> "OF" \in found BY <1>1 DEF Agrees
    <3> QED BY <2>1, <2>3, <2>6, <3>1, <3>2 DEF Decides
  <2> QED BY <2>5, <2>6
<1> QED BY <1>1 DEF RightFlag

\* SHL_CF.
LEMMA ShlCarryWord ==
  ASSUME NEW x, NEW a, NEW b, NEW n, NEW r, NEW d, NEW found, NEW v, NEW D, NEW S, "CF" \notin S,
         "CF" \in v <=> (IF n > 0 THEN n <= x.w /\ x.w - n \in a ELSE "CF" \in found)
  PROVE  RightFlag("SHL_CF", "CF", x, a, b, n, r, d, found, v, D, S)
<1>1. ASSUME NEW f, Agrees(f, found, v, D, S)
      PROVE  Decides("SHL_CF", "CF", "CF" \in v, x, a, b, n, r, d, f)
  <2>1. PICK c : c = Machine(a, b, n, r, d, f) OBVIOUS
  <2>2. c.op0 = a /\ c.op1 = b /\ c.count = n /\ c.res = r /\ c.f = f BY <2>1 DEF Machine
  <2>3. Performed("SHL_CF", c, x) = ShiftFlagWord("SHL_CF", c, x.w) BY WordKinds DEF ShiftFlagWords
  <2>4. ShiftFlagWord("SHL_CF", c, x.w) = SetWhen(c, c.count > 0, "CF", c.count <= x.w /\ x.w - c.count \in c.op0) BY DEF ShiftFlagWord
  <2>5. CASE n > 0
    <3>1. ShiftFlagWord("SHL_CF", c, x.w) = SetF(c, "CF", c.count <= x.w /\ x.w - c.count \in c.op0) BY <2>2, <2>4, <2>5 DEF SetWhen
    <3>2. PICK f1 : f1 = With(f, "CF", n <= x.w /\ x.w - n \in a) OBVIOUS
    <3>3. SetF(c, "CF", c.count <= x.w /\ x.w - c.count \in c.op0) = Machine(a, b, n, r, d, f1) BY <2>1, <2>2, <3>2 DEF SetF, Machine, With
    <3>4. \A h : h \in f1 <=> IF h = "CF" THEN n <= x.w /\ x.w - n \in a ELSE h \in f BY <3>2 DEF With
    <3> QED BY <2>1, <2>3, <2>5, <3>1, <3>3, <3>4 DEF Decides
  <2>6. CASE ~ (n > 0)
    <3>1. ShiftFlagWord("SHL_CF", c, x.w) = c BY <2>2, <2>4, <2>6 DEF SetWhen
    <3>2. "CF" \in f <=> "CF" \in found BY <1>1 DEF Agrees
    <3> QED BY <2>1, <2>3, <2>6, <3>1, <3>2 DEF Decides
  <2> QED BY <2>5, <2>6
<1> QED BY <1>1 DEF RightFlag

\* SHR_CF.
LEMMA ShrCarryWord ==
  ASSUME NEW x, NEW a, NEW b, NEW n, NEW r, NEW d, NEW found, NEW v, NEW D, NEW S, "CF" \notin S,
         "CF" \in v <=> (IF n > 0 THEN n <= x.w /\ n - 1 \in a ELSE "CF" \in found)
  PROVE  RightFlag("SHR_CF", "CF", x, a, b, n, r, d, found, v, D, S)
<1>1. ASSUME NEW f, Agrees(f, found, v, D, S)
      PROVE  Decides("SHR_CF", "CF", "CF" \in v, x, a, b, n, r, d, f)
  <2>1. PICK c : c = Machine(a, b, n, r, d, f) OBVIOUS
  <2>2. c.op0 = a /\ c.op1 = b /\ c.count = n /\ c.res = r /\ c.f = f BY <2>1 DEF Machine
  <2>3. Performed("SHR_CF", c, x) = ShiftFlagWord("SHR_CF", c, x.w) BY WordKinds DEF ShiftFlagWords
  <2>4. ShiftFlagWord("SHR_CF", c, x.w) = SetWhen(c, c.count > 0, "CF", c.count <= x.w /\ c.count - 1 \in c.op0) BY DEF ShiftFlagWord
  <2>5. CASE n > 0
    <3>1. ShiftFlagWord("SHR_CF", c, x.w) = SetF(c, "CF", c.count <= x.w /\ c.count - 1 \in c.op0) BY <2>2, <2>4, <2>5 DEF SetWhen
    <3>2. PICK f1 : f1 = With(f, "CF", n <= x.w /\ n - 1 \in a) OBVIOUS
    <3>3. SetF(c, "CF", c.count <= x.w /\ c.count - 1 \in c.op0) = Machine(a, b, n, r, d, f1) BY <2>1, <2>2, <3>2 DEF SetF, Machine, With
    <3>4. \A h : h \in f1 <=> IF h = "CF" THEN n <= x.w /\ n - 1 \in a ELSE h \in f BY <3>2 DEF With
    <3> QED BY <2>1, <2>3, <2>5, <3>1, <3>3, <3>4 DEF Decides
  <2>6. CASE ~ (n > 0)
    <3>1. ShiftFlagWord("SHR_CF", c, x.w) = c BY <2>2, <2>4, <2>6 DEF SetWhen
    <3>2. "CF" \in f <=> "CF" \in found BY <1>1 DEF Agrees
    <3> QED BY <2>1, <2>3, <2>6, <3>1, <3>2 DEF Decides
  <2> QED BY <2>5, <2>6
<1> QED BY <1>1 DEF RightFlag

\* SAR_CF.
LEMMA SarCarryWord ==
  ASSUME NEW x, NEW a, NEW b, NEW n, NEW r, NEW d, NEW found, NEW v, NEW D, NEW S, "CF" \notin S,
         "CF" \in v <=> (IF n > 0 THEN IF n >= x.w THEN x.w - 1 \in a ELSE n - 1 \in a ELSE "CF" \in found)
  PROVE  RightFlag("SAR_CF", "CF", x, a, b, n, r, d, found, v, D, S)
<1>1. ASSUME NEW f, Agrees(f, found, v, D, S)
      PROVE  Decides("SAR_CF", "CF", "CF" \in v, x, a, b, n, r, d, f)
  <2>1. PICK c : c = Machine(a, b, n, r, d, f) OBVIOUS
  <2>2. c.op0 = a /\ c.op1 = b /\ c.count = n /\ c.res = r /\ c.f = f BY <2>1 DEF Machine
  <2>3. Performed("SAR_CF", c, x) = ShiftFlagWord("SAR_CF", c, x.w) BY WordKinds DEF ShiftFlagWords
  <2>4. ShiftFlagWord("SAR_CF", c, x.w) = SetWhen(c, c.count > 0, "CF", IF c.count >= x.w THEN x.w - 1 \in c.op0 ELSE c.count - 1 \in c.op0) BY DEF ShiftFlagWord
  <2>5. CASE n > 0
    <3>1. ShiftFlagWord("SAR_CF", c, x.w) = SetF(c, "CF", IF c.count >= x.w THEN x.w - 1 \in c.op0 ELSE c.count - 1 \in c.op0) BY <2>2, <2>4, <2>5 DEF SetWhen
    <3>2. PICK f1 : f1 = With(f, "CF", IF n >= x.w THEN x.w - 1 \in a ELSE n - 1 \in a) OBVIOUS
    <3>3. SetF(c, "CF", IF c.count >= x.w THEN x.w - 1 \in c.op0 ELSE c.count - 1 \in c.op0) = Machine(a, b, n, r, d, f1) BY <2>1, <2>2, <3>2 DEF SetF, Machine, With
    <3>4. \A h : h \in f1 <=> IF h = "CF" THEN IF n >= x.w THEN x.w - 1 \in a ELSE n - 1 \in a ELSE h \in f BY <3>2 DEF With
    <3> QED BY <2>1, <2>3, <2>5, <3>1, <3>3, <3>4 DEF Decides
  <2>6. CASE ~ (n > 0)
    <3>1. ShiftFlagWord("SAR_CF", c, x.w) = c BY <2>2, <2>4, <2>6 DEF SetWhen
    <3>2. "CF" \in f <=> "CF" \in found BY <1>1 DEF Agrees
    <3> QED BY <2>1, <2>3, <2>6, <3>1, <3>2 DEF Decides
  <2> QED BY <2>5, <2>6
<1> QED BY <1>1 DEF RightFlag

\* SHLD_CF.
LEMMA ShldCarryWord ==
  ASSUME NEW x, NEW a, NEW b, NEW n, NEW r, NEW d, NEW found, NEW v, NEW D, NEW S, "CF" \notin S,
         "CF" \in v <=> (IF n > 0 /\ n <= x.w THEN x.w - n \in a ELSE "CF" \in found)
  PROVE  RightFlag("SHLD_CF", "CF", x, a, b, n, r, d, found, v, D, S)
<1>1. ASSUME NEW f, Agrees(f, found, v, D, S)
      PROVE  Decides("SHLD_CF", "CF", "CF" \in v, x, a, b, n, r, d, f)
  <2>1. PICK c : c = Machine(a, b, n, r, d, f) OBVIOUS
  <2>2. c.op0 = a /\ c.op1 = b /\ c.count = n /\ c.res = r /\ c.f = f BY <2>1 DEF Machine
  <2>3. Performed("SHLD_CF", c, x) = ShiftFlagWord("SHLD_CF", c, x.w) BY WordKinds DEF ShiftFlagWords
  <2>4. ShiftFlagWord("SHLD_CF", c, x.w) = SetWhen(c, c.count > 0 /\ c.count <= x.w, "CF", x.w - c.count \in c.op0) BY DEF ShiftFlagWord
  <2>5. CASE n > 0 /\ n <= x.w
    <3>1. ShiftFlagWord("SHLD_CF", c, x.w) = SetF(c, "CF", x.w - c.count \in c.op0) BY <2>2, <2>4, <2>5 DEF SetWhen
    <3>2. PICK f1 : f1 = With(f, "CF", x.w - n \in a) OBVIOUS
    <3>3. SetF(c, "CF", x.w - c.count \in c.op0) = Machine(a, b, n, r, d, f1) BY <2>1, <2>2, <3>2 DEF SetF, Machine, With
    <3>4. \A h : h \in f1 <=> IF h = "CF" THEN x.w - n \in a ELSE h \in f BY <3>2 DEF With
    <3> QED BY <2>1, <2>3, <2>5, <3>1, <3>3, <3>4 DEF Decides
  <2>6. CASE ~ (n > 0 /\ n <= x.w)
    <3>1. ShiftFlagWord("SHLD_CF", c, x.w) = c BY <2>2, <2>4, <2>6 DEF SetWhen
    <3>2. "CF" \in f <=> "CF" \in found BY <1>1 DEF Agrees
    <3> QED BY <2>1, <2>3, <2>6, <3>1, <3>2 DEF Decides
  <2> QED BY <2>5, <2>6
<1> QED BY <1>1 DEF RightFlag

\* SHRD_CF.
LEMMA ShrdCarryWord ==
  ASSUME NEW x, NEW a, NEW b, NEW n, NEW r, NEW d, NEW found, NEW v, NEW D, NEW S, "CF" \notin S,
         "CF" \in v <=> (IF n > 0 /\ n <= x.w THEN n - 1 \in a ELSE "CF" \in found)
  PROVE  RightFlag("SHRD_CF", "CF", x, a, b, n, r, d, found, v, D, S)
<1>1. ASSUME NEW f, Agrees(f, found, v, D, S)
      PROVE  Decides("SHRD_CF", "CF", "CF" \in v, x, a, b, n, r, d, f)
  <2>1. PICK c : c = Machine(a, b, n, r, d, f) OBVIOUS
  <2>2. c.op0 = a /\ c.op1 = b /\ c.count = n /\ c.res = r /\ c.f = f BY <2>1 DEF Machine
  <2>3. Performed("SHRD_CF", c, x) = ShiftFlagWord("SHRD_CF", c, x.w) BY WordKinds DEF ShiftFlagWords
  <2>4. ShiftFlagWord("SHRD_CF", c, x.w) = SetWhen(c, c.count > 0 /\ c.count <= x.w, "CF", c.count - 1 \in c.op0) BY DEF ShiftFlagWord
  <2>5. CASE n > 0 /\ n <= x.w
    <3>1. ShiftFlagWord("SHRD_CF", c, x.w) = SetF(c, "CF", c.count - 1 \in c.op0) BY <2>2, <2>4, <2>5 DEF SetWhen
    <3>2. PICK f1 : f1 = With(f, "CF", n - 1 \in a) OBVIOUS
    <3>3. SetF(c, "CF", c.count - 1 \in c.op0) = Machine(a, b, n, r, d, f1) BY <2>1, <2>2, <3>2 DEF SetF, Machine, With
    <3>4. \A h : h \in f1 <=> IF h = "CF" THEN n - 1 \in a ELSE h \in f BY <3>2 DEF With
    <3> QED BY <2>1, <2>3, <2>5, <3>1, <3>3, <3>4 DEF Decides
  <2>6. CASE ~ (n > 0 /\ n <= x.w)
    <3>1. ShiftFlagWord("SHRD_CF", c, x.w) = c BY <2>2, <2>4, <2>6 DEF SetWhen
    <3>2. "CF" \in f <=> "CF" \in found BY <1>1 DEF Agrees
    <3> QED BY <2>1, <2>3, <2>6, <3>1, <3>2 DEF Decides
  <2> QED BY <2>5, <2>6
<1> QED BY <1>1 DEF RightFlag

\* RCL_CF.
LEMMA RclCarryWord ==
  ASSUME NEW x, NEW a, NEW b, NEW n, NEW r, NEW d, NEW found, NEW v, NEW D, NEW S, "CF" \notin S,
         "CF" \in v <=> (IF n > 0 THEN x.w - n \in a ELSE "CF" \in found)
  PROVE  RightFlag("RCL_CF", "CF", x, a, b, n, r, d, found, v, D, S)
<1>1. ASSUME NEW f, Agrees(f, found, v, D, S)
      PROVE  Decides("RCL_CF", "CF", "CF" \in v, x, a, b, n, r, d, f)
  <2>1. PICK c : c = Machine(a, b, n, r, d, f) OBVIOUS
  <2>2. c.op0 = a /\ c.op1 = b /\ c.count = n /\ c.res = r /\ c.f = f BY <2>1 DEF Machine
  <2>3. Performed("RCL_CF", c, x) = ShiftFlagWord("RCL_CF", c, x.w) BY WordKinds DEF ShiftFlagWords
  <2>4. ShiftFlagWord("RCL_CF", c, x.w) = SetWhen(c, c.count > 0, "CF", x.w - c.count \in c.op0) BY DEF ShiftFlagWord
  <2>5. CASE n > 0
    <3>1. ShiftFlagWord("RCL_CF", c, x.w) = SetF(c, "CF", x.w - c.count \in c.op0) BY <2>2, <2>4, <2>5 DEF SetWhen
    <3>2. PICK f1 : f1 = With(f, "CF", x.w - n \in a) OBVIOUS
    <3>3. SetF(c, "CF", x.w - c.count \in c.op0) = Machine(a, b, n, r, d, f1) BY <2>1, <2>2, <3>2 DEF SetF, Machine, With
    <3>4. \A h : h \in f1 <=> IF h = "CF" THEN x.w - n \in a ELSE h \in f BY <3>2 DEF With
    <3> QED BY <2>1, <2>3, <2>5, <3>1, <3>3, <3>4 DEF Decides
  <2>6. CASE ~ (n > 0)
    <3>1. ShiftFlagWord("RCL_CF", c, x.w) = c BY <2>2, <2>4, <2>6 DEF SetWhen
    <3>2. "CF" \in f <=> "CF" \in found BY <1>1 DEF Agrees
    <3> QED BY <2>1, <2>3, <2>6, <3>1, <3>2 DEF Decides
  <2> QED BY <2>5, <2>6
<1> QED BY <1>1 DEF RightFlag

\* RCR_CF.
LEMMA RcrCarryWord ==
  ASSUME NEW x, NEW a, NEW b, NEW n, NEW r, NEW d, NEW found, NEW v, NEW D, NEW S, "CF" \notin S,
         "CF" \in v <=> (IF n > 0 THEN n - 1 \in a ELSE "CF" \in found)
  PROVE  RightFlag("RCR_CF", "CF", x, a, b, n, r, d, found, v, D, S)
<1>1. ASSUME NEW f, Agrees(f, found, v, D, S)
      PROVE  Decides("RCR_CF", "CF", "CF" \in v, x, a, b, n, r, d, f)
  <2>1. PICK c : c = Machine(a, b, n, r, d, f) OBVIOUS
  <2>2. c.op0 = a /\ c.op1 = b /\ c.count = n /\ c.res = r /\ c.f = f BY <2>1 DEF Machine
  <2>3. Performed("RCR_CF", c, x) = ShiftFlagWord("RCR_CF", c, x.w) BY WordKinds DEF ShiftFlagWords
  <2>4. ShiftFlagWord("RCR_CF", c, x.w) = SetWhen(c, c.count > 0, "CF", c.count - 1 \in c.op0) BY DEF ShiftFlagWord
  <2>5. CASE n > 0
    <3>1. ShiftFlagWord("RCR_CF", c, x.w) = SetF(c, "CF", c.count - 1 \in c.op0) BY <2>2, <2>4, <2>5 DEF SetWhen
    <3>2. PICK f1 : f1 = With(f, "CF", n - 1 \in a) OBVIOUS
    <3>3. SetF(c, "CF", c.count - 1 \in c.op0) = Machine(a, b, n, r, d, f1) BY <2>1, <2>2, <3>2 DEF SetF, Machine, With
    <3>4. \A h : h \in f1 <=> IF h = "CF" THEN n - 1 \in a ELSE h \in f BY <3>2 DEF With
    <3> QED BY <2>1, <2>3, <2>5, <3>1, <3>3, <3>4 DEF Decides
  <2>6. CASE ~ (n > 0)
    <3>1. ShiftFlagWord("RCR_CF", c, x.w) = c BY <2>2, <2>4, <2>6 DEF SetWhen
    <3>2. "CF" \in f <=> "CF" \in found BY <1>1 DEF Agrees
    <3> QED BY <2>1, <2>3, <2>6, <3>1, <3>2 DEF Decides
  <2> QED BY <2>5, <2>6
<1> QED BY <1>1 DEF RightFlag

\* ROL_CF.
LEMMA RolCarryWord ==
  ASSUME NEW x, NEW a, NEW b, NEW n, NEW r, NEW d, NEW found, NEW v, NEW D, NEW S, "CF" \notin S,
         "CF" \in v <=> (0 \in r)
  PROVE  RightFlag("ROL_CF", "CF", x, a, b, n, r, d, found, v, D, S)
<1>1. ASSUME NEW f, Agrees(f, found, v, D, S)
      PROVE  Decides("ROL_CF", "CF", "CF" \in v, x, a, b, n, r, d, f)
  <2>1. PICK c : c = Machine(a, b, n, r, d, f) OBVIOUS
  <2>2. c.op0 = a /\ c.op1 = b /\ c.count = n /\ c.res = r /\ c.f = f BY <2>1 DEF Machine
  <2>3. Performed("ROL_CF", c, x) = ShiftFlagWord("ROL_CF", c, x.w) BY WordKinds DEF ShiftFlagWords
  <2>4. ShiftFlagWord("ROL_CF", c, x.w) = SetF(c, "CF", 0 \in c.res) BY DEF ShiftFlagWord
  <2>5. PICK f1 : f1 = With(f, "CF", 0 \in r) OBVIOUS
  <2>6. SetF(c, "CF", 0 \in c.res) = Machine(a, b, n, r, d, f1) BY <2>1, <2>2, <2>5 DEF SetF, Machine, With
  <2>7. \A h : h \in f1 <=> IF h = "CF" THEN 0 \in r ELSE h \in f BY <2>5 DEF With
  <2> QED BY <2>1, <2>3, <2>4, <2>6, <2>7 DEF Decides
<1> QED BY <1>1 DEF RightFlag

\* ROR_CF.
LEMMA RorCarryWord ==
  ASSUME NEW x, NEW a, NEW b, NEW n, NEW r, NEW d, NEW found, NEW v, NEW D, NEW S, "CF" \notin S,
         "CF" \in v <=> (x.w - 1 \in r)
  PROVE  RightFlag("ROR_CF", "CF", x, a, b, n, r, d, found, v, D, S)
<1>1. ASSUME NEW f, Agrees(f, found, v, D, S)
      PROVE  Decides("ROR_CF", "CF", "CF" \in v, x, a, b, n, r, d, f)
  <2>1. PICK c : c = Machine(a, b, n, r, d, f) OBVIOUS
  <2>2. c.op0 = a /\ c.op1 = b /\ c.count = n /\ c.res = r /\ c.f = f BY <2>1 DEF Machine
  <2>3. Performed("ROR_CF", c, x) = ShiftFlagWord("ROR_CF", c, x.w) BY WordKinds DEF ShiftFlagWords
  <2>4. ShiftFlagWord("ROR_CF", c, x.w) = SetF(c, "CF", x.w - 1 \in c.res) BY DEF ShiftFlagWord
  <2>5. PICK f1 : f1 = With(f, "CF", x.w - 1 \in r) OBVIOUS
  <2>6. SetF(c, "CF", x.w - 1 \in c.res) = Machine(a, b, n, r, d, f1) BY <2>1, <2>2, <2>5 DEF SetF, Machine, With
  <2>7. \A h : h \in f1 <=> IF h = "CF" THEN x.w - 1 \in r ELSE h \in f BY <2>5 DEF With
  <2> QED BY <2>1, <2>3, <2>4, <2>6, <2>7 DEF Decides
<1> QED BY <1>1 DEF RightFlag

\* SHIFT_SF.
LEMMA ShiftSignWord ==
  ASSUME NEW x, NEW a, NEW b, NEW n, NEW r, NEW d, NEW found, NEW v, NEW D, NEW S, "SF" \notin S,
         "SF" \in v <=> (IF n # 0 /\ (x.w = 32 => n <= 32) THEN x.w - 1 \in r ELSE "SF" \in found)
  PROVE  RightFlag("SHIFT_SF", "SF", x, a, b, n, r, d, found, v, D, S)
<1>1. ASSUME NEW f, Agrees(f, found, v, D, S)
      PROVE  Decides("SHIFT_SF", "SF", "SF" \in v, x, a, b, n, r, d, f)
  <2>1. PICK c : c = Machine(a, b, n, r, d, f) OBVIOUS
  <2>2. c.op0 = a /\ c.op1 = b /\ c.count = n /\ c.res = r /\ c.f = f BY <2>1 DEF Machine
  <2>3. Performed("SHIFT_SF", c, x) = ShiftFlagWord("SHIFT_SF", c, x.w) BY WordKinds DEF ShiftFlagWords
  <2>4. ShiftFlagWord("SHIFT_SF", c, x.w) = SetWhen(c, c.count # 0 /\ (x.w = 32 => c.count <= 32), "SF", x.w - 1 \in c.res) BY DEF ShiftFlagWord
  <2>5. CASE n # 0 /\ (x.w = 32 => n <= 32)
    <3>1. ShiftFlagWord("SHIFT_SF", c, x.w) = SetF(c, "SF", x.w - 1 \in c.res) BY <2>2, <2>4, <2>5 DEF SetWhen
    <3>2. PICK f1 : f1 = With(f, "SF", x.w - 1 \in r) OBVIOUS
    <3>3. SetF(c, "SF", x.w - 1 \in c.res) = Machine(a, b, n, r, d, f1) BY <2>1, <2>2, <3>2 DEF SetF, Machine, With
    <3>4. \A h : h \in f1 <=> IF h = "SF" THEN x.w - 1 \in r ELSE h \in f BY <3>2 DEF With
    <3> QED BY <2>1, <2>3, <2>5, <3>1, <3>3, <3>4 DEF Decides
  <2>6. CASE ~ (n # 0 /\ (x.w = 32 => n <= 32))
    <3>1. ShiftFlagWord("SHIFT_SF", c, x.w) = c BY <2>2, <2>4, <2>6 DEF SetWhen
    <3>2. "SF" \in f <=> "SF" \in found BY <1>1 DEF Agrees
    <3> QED BY <2>1, <2>3, <2>6, <3>1, <3>2 DEF Decides
  <2> QED BY <2>5, <2>6
<1> QED BY <1>1 DEF RightFlag

\* SHIFT_ZF.
LEMMA ShiftZeroWord ==
  ASSUME NEW x, NEW a, NEW b, NEW n, NEW r, NEW d, NEW found, NEW v, NEW D, NEW S, "ZF" \notin S,
         "ZF" \in v <=> (IF n # 0 /\ (x.w = 32 => n <= 32) THEN r = {} ELSE "ZF" \in found)
  PROVE  RightFlag("SHIFT_ZF", "ZF", x, a, b, n, r, d, found, v, D, S)
<1>1. ASSUME NEW f, Agrees(f, found, v, D, S)
      PROVE  Decides("SHIFT_ZF", "ZF", "ZF" \in v, x, a, b, n, r, d, f)
  <2>1. PICK c : c = Machine(a, b, n, r, d, f) OBVIOUS
  <2>2. c.op0 = a /\ c.op1 = b /\ c.count = n /\ c.res = r /\ c.f = f BY <2>1 DEF Machine
  <2>3. Performed("SHIFT_ZF", c, x) = ShiftFlagWord("SHIFT_ZF", c, x.w) BY WordKinds DEF ShiftFlagWords
  <2>4. ShiftFlagWord("SHIFT_ZF", c, x.w) = SetWhen(c, c.count # 0 /\ (x.w = 32 => c.count <= 32), "ZF", c.res = {}) BY DEF ShiftFlagWord
  <2>5. CASE n # 0 /\ (x.w = 32 => n <= 32)
    <3>1. ShiftFlagWord("SHIFT_ZF", c, x.w) = SetF(c, "ZF", c.res = {}) BY <2>2, <2>4, <2>5 DEF SetWhen
    <3>2. PICK f1 : f1 = With(f, "ZF", r = {}) OBVIOUS
    <3>3. SetF(c, "ZF", c.res = {}) = Machine(a, b, n, r, d, f1) BY <2>1, <2>2, <3>2 DEF SetF, Machine, With
    <3>4. \A h : h \in f1 <=> IF h = "ZF" THEN r = {} ELSE h \in f BY <3>2 DEF With
    <3> QED BY <2>1, <2>3, <2>5, <3>1, <3>3, <3>4 DEF Decides
  <2>6. CASE ~ (n # 0 /\ (x.w = 32 => n <= 32))
    <3>1. ShiftFlagWord("SHIFT_ZF", c, x.w) = c BY <2>2, <2>4, <2>6 DEF SetWhen
    <3>2. "ZF" \in f <=> "ZF" \in found BY <1>1 DEF Agrees
    <3> QED BY <2>1, <2>3, <2>6, <3>1, <3>2 DEF Decides
  <2> QED BY <2>5, <2>6
<1> QED BY <1>1 DEF RightFlag

\* SHIFT_PF.
LEMMA ShiftParityWord ==
  ASSUME NEW x, NEW a, NEW b, NEW n, NEW r, NEW d, NEW found, NEW v, NEW D, NEW S, "PF" \notin S,
         "PF" \in v <=> (IF n # 0 /\ (x.w = 32 => n <= 32) THEN Parity(r) ELSE "PF" \in found)
  PROVE  RightFlag("SHIFT_PF", "PF", x, a, b, n, r, d, found, v, D, S)
<1>1. ASSUME NEW f, Agrees(f, found, v, D, S)
      PROVE  Decides("SHIFT_PF", "PF", "PF" \in v, x, a, b, n, r, d, f)
  <2>1. PICK c : c = Machine(a, b, n, r, d, f) OBVIOUS
  <2>2. c.op0 = a /\ c.op1 = b /\ c.count = n /\ c.res = r /\ c.f = f BY <2>1 DEF Machine
  <2>3. Performed("SHIFT_PF", c, x) = ShiftFlagWord("SHIFT_PF", c, x.w) BY WordKinds DEF ShiftFlagWords
  <2>4. ShiftFlagWord("SHIFT_PF", c, x.w) = SetWhen(c, c.count # 0 /\ (x.w = 32 => c.count <= 32), "PF", Parity(c.res)) BY DEF ShiftFlagWord
  <2>5. CASE n # 0 /\ (x.w = 32 => n <= 32)
    <3>1. ShiftFlagWord("SHIFT_PF", c, x.w) = SetF(c, "PF", Parity(c.res)) BY <2>2, <2>4, <2>5 DEF SetWhen
    <3>2. PICK f1 : f1 = With(f, "PF", Parity(r)) OBVIOUS
    <3>3. SetF(c, "PF", Parity(c.res)) = Machine(a, b, n, r, d, f1) BY <2>1, <2>2, <3>2 DEF SetF, Machine, With
    <3>4. \A h : h \in f1 <=> IF h = "PF" THEN Parity(r) ELSE h \in f BY <3>2 DEF With
    <3> QED BY <2>1, <2>3, <2>5, <3>1, <3>3, <3>4 DEF Decides
  <2>6. CASE ~ (n # 0 /\ (x.w = 32 => n <= 32))
    <3>1. ShiftFlagWord("SHIFT_PF", c, x.w) = c BY <2>2, <2>4, <2>6 DEF SetWhen
    <3>2. "PF" \in f <=> "PF" \in found BY <1>1 DEF Agrees
    <3> QED BY <2>1, <2>3, <2>6, <3>1, <3>2 DEF Decides
  <2> QED BY <2>5, <2>6
<1> QED BY <1>1 DEF RightFlag

---------------------------------------------------------------------------
\* The words that shift.
SetRes(c, k) == [c EXCEPT !.res = k]
SetCountRes(c, m, k) == [c EXCEPT !.count = m, !.res = k]

\* The registers after a result, or a count and a result.
LEMMA ResultSet ==
  ASSUME NEW a, NEW b, NEW n, NEW r, NEW d, NEW f, NEW k, NEW m
  PROVE  /\ SetRes(Machine(a, b, n, r, d, f), k) = Machine(a, b, n, k, d, f)
         /\ SetCountRes(Machine(a, b, n, r, d, f), m, k) = Machine(a, b, m, k, d, f)
<1>1. PICK c : c = Machine(a, b, n, r, d, f) OBVIOUS
<1>2. PICK e : e = SetRes(c, k) OBVIOUS
<1>3. e = Machine(a, b, n, k, d, f) BY <1>1, <1>2 DEF Machine, SetRes
<1>4. PICK g : g = SetCountRes(c, m, k) OBVIOUS
<1>5. g = Machine(a, b, m, k, d, f) BY <1>1, <1>4 DEF Machine, SetCountRes
<1> QED BY <1>1, <1>2, <1>3, <1>4, <1>5

\* The word SHR.
LEMMA ShrWord ==
  ASSUME NEW x, NEW a, NEW b, NEW n, NEW r, NEW d, NEW f, NEW k, k = (IF n >= x.w THEN {} ELSE Shr(a, n))
  PROVE  Performed("SHR", Machine(a, b, n, r, d, f), x) = Machine(a, b, n, k, d, f)
<1>1. PICK c : c = Machine(a, b, n, r, d, f) OBVIOUS
<1>2. c.op0 = a /\ c.op1 = b /\ c.count = n /\ c.f = f BY <1>1 DEF Machine
<1>3. Performed("SHR", c, x) = ShiftWord("SHR", c, x.w) BY WordKinds DEF ShiftWords, Shifts, Rotations, DoubleShifts
<1>4. ShiftWord("SHR", c, x.w) = [c EXCEPT !.res = IF c.count >= x.w THEN {} ELSE Shr(c.op0, c.count)] BY DEF ShiftWord
<1>5. SetRes(c, k) = Machine(a, b, n, k, d, f) BY <1>1, ResultSet
<1>6. k = (IF c.count >= x.w THEN {} ELSE Shr(c.op0, c.count)) BY <1>2
<1> QED BY <1>1, <1>3, <1>4, <1>5, <1>6 DEF SetRes, SetCountRes

\* The word SHL.
LEMMA ShlWord ==
  ASSUME NEW x, NEW a, NEW b, NEW n, NEW r, NEW d, NEW f, NEW k, k = (IF n >= x.w THEN {} ELSE Shl(a, n, x.w))
  PROVE  Performed("SHL", Machine(a, b, n, r, d, f), x) = Machine(a, b, n, k, d, f)
<1>1. PICK c : c = Machine(a, b, n, r, d, f) OBVIOUS
<1>2. c.op0 = a /\ c.op1 = b /\ c.count = n /\ c.f = f BY <1>1 DEF Machine
<1>3. Performed("SHL", c, x) = ShiftWord("SHL", c, x.w) BY WordKinds DEF ShiftWords, Shifts, Rotations, DoubleShifts
<1>4. ShiftWord("SHL", c, x.w) = [c EXCEPT !.res = IF c.count >= x.w THEN {} ELSE Shl(c.op0, c.count, x.w)] BY DEF ShiftWord
<1>5. SetRes(c, k) = Machine(a, b, n, k, d, f) BY <1>1, ResultSet
<1>6. k = (IF c.count >= x.w THEN {} ELSE Shl(c.op0, c.count, x.w)) BY <1>2
<1> QED BY <1>1, <1>3, <1>4, <1>5, <1>6 DEF SetRes, SetCountRes

\* The word SAR.
LEMMA SarWord ==
  ASSUME NEW x, NEW a, NEW b, NEW n, NEW r, NEW d, NEW f, NEW k, k = (IF n < x.w THEN Sar(a, n, x.w) ELSE IF x.w - 1 \in a THEN Positions(x.w) ELSE {})
  PROVE  Performed("SAR", Machine(a, b, n, r, d, f), x) = Machine(a, b, n, k, d, f)
<1>1. PICK c : c = Machine(a, b, n, r, d, f) OBVIOUS
<1>2. c.op0 = a /\ c.op1 = b /\ c.count = n /\ c.f = f BY <1>1 DEF Machine
<1>3. Performed("SAR", c, x) = ShiftWord("SAR", c, x.w) BY WordKinds DEF ShiftWords, Shifts, Rotations, DoubleShifts
<1>4. ShiftWord("SAR", c, x.w) = [c EXCEPT !.res = IF c.count < x.w THEN Sar(c.op0, c.count, x.w)
                                     ELSE IF x.w - 1 \in c.op0 THEN Positions(x.w) ELSE {}] BY DEF ShiftWord
<1>5. SetRes(c, k) = Machine(a, b, n, k, d, f) BY <1>1, ResultSet
<1>6. k = (IF c.count < x.w THEN Sar(c.op0, c.count, x.w)
                                     ELSE IF x.w - 1 \in c.op0 THEN Positions(x.w) ELSE {}) BY <1>2
<1> QED BY <1>1, <1>3, <1>4, <1>5, <1>6 DEF SetRes, SetCountRes

\* The word SHLD.
LEMMA ShldWord ==
  ASSUME NEW x, NEW a, NEW b, NEW n, NEW r, NEW d, NEW f, NEW k, k = (IF n = 0 \/ n > x.w THEN a ELSE IF n = x.w THEN b
              ELSE Shl(a, n, x.w) \cup Shr(b, x.w - n))
  PROVE  Performed("SHLD", Machine(a, b, n, r, d, f), x) = Machine(a, b, n, k, d, f)
<1>1. PICK c : c = Machine(a, b, n, r, d, f) OBVIOUS
<1>2. c.op0 = a /\ c.op1 = b /\ c.count = n /\ c.f = f BY <1>1 DEF Machine
<1>3. Performed("SHLD", c, x) = ShiftWord("SHLD", c, x.w) BY WordKinds DEF ShiftWords, Shifts, Rotations, DoubleShifts
<1>4. ShiftWord("SHLD", c, x.w) = [c EXCEPT !.res = IF c.count = 0 \/ c.count > x.w THEN c.op0
                                     ELSE IF c.count = x.w THEN c.op1
                                     ELSE Shl(c.op0, c.count, x.w) \cup Shr(c.op1, x.w - c.count)] BY DEF ShiftWord
<1>5. SetRes(c, k) = Machine(a, b, n, k, d, f) BY <1>1, ResultSet
<1>6. k = (IF c.count = 0 \/ c.count > x.w THEN c.op0
                                     ELSE IF c.count = x.w THEN c.op1
                                     ELSE Shl(c.op0, c.count, x.w) \cup Shr(c.op1, x.w - c.count)) BY <1>2
<1> QED BY <1>1, <1>3, <1>4, <1>5, <1>6 DEF SetRes, SetCountRes

\* The word SHRD.
LEMMA ShrdWord ==
  ASSUME NEW x, NEW a, NEW b, NEW n, NEW r, NEW d, NEW f, NEW k, k = (IF n = 0 \/ n > x.w THEN a ELSE IF n = x.w THEN b
              ELSE Shr(a, n) \cup Shl(b, x.w - n, x.w))
  PROVE  Performed("SHRD", Machine(a, b, n, r, d, f), x) = Machine(a, b, n, k, d, f)
<1>1. PICK c : c = Machine(a, b, n, r, d, f) OBVIOUS
<1>2. c.op0 = a /\ c.op1 = b /\ c.count = n /\ c.f = f BY <1>1 DEF Machine
<1>3. Performed("SHRD", c, x) = ShiftWord("SHRD", c, x.w) BY WordKinds DEF ShiftWords, Shifts, Rotations, DoubleShifts
<1>4. ShiftWord("SHRD", c, x.w) = [c EXCEPT !.res = IF c.count = 0 \/ c.count > x.w THEN c.op0
                                     ELSE IF c.count = x.w THEN c.op1
                                     ELSE Shr(c.op0, c.count) \cup Shl(c.op1, x.w - c.count, x.w)] BY DEF ShiftWord
<1>5. SetRes(c, k) = Machine(a, b, n, k, d, f) BY <1>1, ResultSet
<1>6. k = (IF c.count = 0 \/ c.count > x.w THEN c.op0
                                     ELSE IF c.count = x.w THEN c.op1
                                     ELSE Shr(c.op0, c.count) \cup Shl(c.op1, x.w - c.count, x.w)) BY <1>2
<1> QED BY <1>1, <1>3, <1>4, <1>5, <1>6 DEF SetRes, SetCountRes

\* The words that rotate, by the remainder of the count.
IsReduced(m, n, z) == m = n % z
IsRcl(k, m, a, f, w) ==
  k = (IF m = 0 THEN a ELSE Shl(a, m, w) \cup Bit("CF" \in f, m - 1) \cup Shr(a, w + 1 - m))
IsRcr(k, m, a, f, w) ==
  k = (IF m = 0 THEN a ELSE Shr(a, m) \cup Bit("CF" \in f, w - m) \cup Shl(a, w + 1 - m, w))
IsRol(k, m, a, f, w) == k = (Shl(a, m, w) \cup Shr(a, w - m))
IsRor(k, m, a, f, w) == k = (Shl(a, w - m, w) \cup Shr(a, m))

\* The word RCL.
LEMMA RclWord ==
  ASSUME NEW x, NEW a, NEW b, NEW n, NEW r, NEW d, NEW f, NEW m, NEW k,
         IsReduced(m, n, x.w + 1), IsRcl(k, m, a, f, x.w)
  PROVE  Performed("RCL", Machine(a, b, n, r, d, f), x) = Machine(a, b, m, k, d, f)
<1>0. m = n % (x.w + 1) BY DEF IsReduced
<1>1. PICK c : c = Machine(a, b, n, r, d, f) OBVIOUS
<1>2. c.op0 = a /\ c.op1 = b /\ c.count = n /\ c.f = f BY <1>1 DEF Machine
<1>3. Performed("RCL", c, x) = ShiftWord("RCL", c, x.w) BY WordKinds DEF ShiftWords, Shifts, Rotations, DoubleShifts
<1>4. ShiftWord("RCL", c, x.w) = [c EXCEPT !.count = m, !.res = IF m = 0 THEN c.op0
                                     ELSE Shl(c.op0, m, x.w) \cup Bit("CF" \in c.f, m - 1) \cup Shr(c.op0, x.w + 1 - m)]
  <2>1. PICK k1 : k1 = c.count % (x.w + 1) OBVIOUS
  <2>2. ShiftWord("RCL", c, x.w) = [c EXCEPT !.count = k1, !.res = IF k1 = 0 THEN c.op0
                                     ELSE Shl(c.op0, k1, x.w) \cup Bit("CF" \in c.f, k1 - 1) \cup Shr(c.op0, x.w + 1 - k1)]
    BY <2>1 DEF ShiftWord
  <2>3. k1 = m BY <1>0, <1>2, <2>1, Zenon
  <2> QED BY <2>2, <2>3, Zenon
<1>5. SetCountRes(c, m, k) = Machine(a, b, m, k, d, f) BY <1>1, ResultSet
<1>6. k = (IF m = 0 THEN c.op0
                                     ELSE Shl(c.op0, m, x.w) \cup Bit("CF" \in c.f, m - 1) \cup Shr(c.op0, x.w + 1 - m)) BY <1>2 DEF IsRcl
<1> QED BY <1>1, <1>3, <1>4, <1>5, <1>6 DEF SetRes, SetCountRes

\* The word RCR.
LEMMA RcrWord ==
  ASSUME NEW x, NEW a, NEW b, NEW n, NEW r, NEW d, NEW f, NEW m, NEW k,
         IsReduced(m, n, x.w + 1), IsRcr(k, m, a, f, x.w)
  PROVE  Performed("RCR", Machine(a, b, n, r, d, f), x) = Machine(a, b, m, k, d, f)
<1>0. m = n % (x.w + 1) BY DEF IsReduced
<1>1. PICK c : c = Machine(a, b, n, r, d, f) OBVIOUS
<1>2. c.op0 = a /\ c.op1 = b /\ c.count = n /\ c.f = f BY <1>1 DEF Machine
<1>3. Performed("RCR", c, x) = ShiftWord("RCR", c, x.w) BY WordKinds DEF ShiftWords, Shifts, Rotations, DoubleShifts
<1>4. ShiftWord("RCR", c, x.w) = [c EXCEPT !.count = m, !.res = IF m = 0 THEN c.op0
                                     ELSE Shr(c.op0, m) \cup Bit("CF" \in c.f, x.w - m) \cup Shl(c.op0, x.w + 1 - m, x.w)]
  <2>1. PICK k1 : k1 = c.count % (x.w + 1) OBVIOUS
  <2>2. ShiftWord("RCR", c, x.w) = [c EXCEPT !.count = k1, !.res = IF k1 = 0 THEN c.op0
                                     ELSE Shr(c.op0, k1) \cup Bit("CF" \in c.f, x.w - k1) \cup Shl(c.op0, x.w + 1 - k1, x.w)]
    BY <2>1 DEF ShiftWord
  <2>3. k1 = m BY <1>0, <1>2, <2>1, Zenon
  <2> QED BY <2>2, <2>3, Zenon
<1>5. SetCountRes(c, m, k) = Machine(a, b, m, k, d, f) BY <1>1, ResultSet
<1>6. k = (IF m = 0 THEN c.op0
                                     ELSE Shr(c.op0, m) \cup Bit("CF" \in c.f, x.w - m) \cup Shl(c.op0, x.w + 1 - m, x.w)) BY <1>2 DEF IsRcr
<1> QED BY <1>1, <1>3, <1>4, <1>5, <1>6 DEF SetRes, SetCountRes

\* The word ROL.
LEMMA RolWord ==
  ASSUME NEW x, NEW a, NEW b, NEW n, NEW r, NEW d, NEW f, NEW m, NEW k,
         IsReduced(m, n, x.w), IsRol(k, m, a, f, x.w)
  PROVE  Performed("ROL", Machine(a, b, n, r, d, f), x) = Machine(a, b, m, k, d, f)
<1>0. m = n % (x.w) BY DEF IsReduced
<1>1. PICK c : c = Machine(a, b, n, r, d, f) OBVIOUS
<1>2. c.op0 = a /\ c.op1 = b /\ c.count = n /\ c.f = f BY <1>1 DEF Machine
<1>3. Performed("ROL", c, x) = ShiftWord("ROL", c, x.w) BY WordKinds DEF ShiftWords, Shifts, Rotations, DoubleShifts
<1>4. ShiftWord("ROL", c, x.w) = [c EXCEPT !.count = m, !.res = Shl(c.op0, m, x.w) \cup Shr(c.op0, x.w - m)]
  <2>1. PICK k1 : k1 = c.count % x.w OBVIOUS
  <2>2. ShiftWord("ROL", c, x.w) = [c EXCEPT !.count = k1, !.res = Shl(c.op0, k1, x.w) \cup Shr(c.op0, x.w - k1)]
    BY <2>1 DEF ShiftWord
  <2>3. k1 = m BY <1>0, <1>2, <2>1, Zenon
  <2> QED BY <2>2, <2>3, Zenon
<1>5. SetCountRes(c, m, k) = Machine(a, b, m, k, d, f) BY <1>1, ResultSet
<1>6. k = (Shl(c.op0, m, x.w) \cup Shr(c.op0, x.w - m)) BY <1>2 DEF IsRol
<1> QED BY <1>1, <1>3, <1>4, <1>5, <1>6 DEF SetRes, SetCountRes

\* The word ROR.
LEMMA RorWord ==
  ASSUME NEW x, NEW a, NEW b, NEW n, NEW r, NEW d, NEW f, NEW m, NEW k,
         IsReduced(m, n, x.w), IsRor(k, m, a, f, x.w)
  PROVE  Performed("ROR", Machine(a, b, n, r, d, f), x) = Machine(a, b, m, k, d, f)
<1>0. m = n % (x.w) BY DEF IsReduced
<1>1. PICK c : c = Machine(a, b, n, r, d, f) OBVIOUS
<1>2. c.op0 = a /\ c.op1 = b /\ c.count = n /\ c.f = f BY <1>1 DEF Machine
<1>3. Performed("ROR", c, x) = ShiftWord("ROR", c, x.w) BY WordKinds DEF ShiftWords, Shifts, Rotations, DoubleShifts
<1>4. ShiftWord("ROR", c, x.w) = [c EXCEPT !.count = m, !.res = Shl(c.op0, x.w - m, x.w) \cup Shr(c.op0, m)]
  <2>1. PICK k1 : k1 = c.count % x.w OBVIOUS
  <2>2. ShiftWord("ROR", c, x.w) = [c EXCEPT !.count = k1, !.res = Shl(c.op0, x.w - k1, x.w) \cup Shr(c.op0, k1)]
    BY <2>1 DEF ShiftWord
  <2>3. k1 = m BY <1>0, <1>2, <2>1, Zenon
  <2> QED BY <2>2, <2>3, Zenon
<1>5. SetCountRes(c, m, k) = Machine(a, b, m, k, d, f) BY <1>1, ResultSet
<1>6. k = (Shl(c.op0, x.w - m, x.w) \cup Shr(c.op0, m)) BY <1>2 DEF IsRor
<1> QED BY <1>1, <1>3, <1>4, <1>5, <1>6 DEF SetRes, SetCountRes

---------------------------------------------------------------------------
\* The three flag words every shift ends with.
LEMMA ShiftFlagsReach ==
  ASSUME NEW x, NEW c, NEW a, NEW b, NEW n, NEW r, NEW d, NEW found, NEW v, NEW D, NEW S, NEW R,
         "SF" \notin S, "ZF" \notin S, "PF" \notin S,
         Reaches(R, c, x, a, b, n, r, d, found, v, D, S),
         RightFlag("SHIFT_SF", "SF", x, a, b, n, r, d, found, v, D, S),
         RightFlag("SHIFT_ZF", "ZF", x, a, b, n, r, d, found, v, D, S \cup {"SF"}),
         RightFlag("SHIFT_PF", "PF", x, a, b, n, r, d, found, v, D, (S \cup {"SF"}) \cup {"ZF"})
  PROVE  Reaches(R \o ShiftFlags(D), c, x, a, b, n, r, d, found, v, D, S \cup {"SF", "ZF", "PF"})
<1> DEFINE F1 == Flag({"SF"}, "SHIFT_SF", D)
           F2 == Flag({"ZF"}, "SHIFT_ZF", D)
           F3 == Flag({"PF"}, "SHIFT_PF", D)
<1>1. {"SHIFT_SF", "SHIFT_ZF", "SHIFT_PF"} \subseteq PlainWords BY DEF PlainWords, ShiftFlagWords
<1>2. Reaches(R \o F1, c, x, a, b, n, r, d, found, v, D, S \cup {"SF"}) BY <1>1, ThenFlag
<1>3. Reaches((R \o F1) \o F2, c, x, a, b, n, r, d, found, v, D, (S \cup {"SF"}) \cup {"ZF"})
  <2>1. "ZF" \notin S \cup {"SF"} OBVIOUS
  <2> HIDE DEF F1
  <2> QED BY <1>1, <1>2, <2>1, ThenFlag
<1>4. Reaches(((R \o F1) \o F2) \o F3, c, x, a, b, n, r, d, found, v, D, ((S \cup {"SF"}) \cup {"ZF"}) \cup {"PF"})
  <2>1. "PF" \notin (S \cup {"SF"}) \cup {"ZF"} OBVIOUS
  <2> HIDE DEF F1, F2
  <2> QED BY <1>1, <1>3, <2>1, ThenFlag
<1>5. ((R \o F1) \o F2) \o F3 = R \o ShiftFlags(D)
  <2>1. F1 \in Seq(PlainWords) /\ F2 \in Seq(PlainWords) /\ F3 \in Seq(PlainWords) BY <1>1, FlagIsPlain
  <2>2. R \in Seq(PlainWords) BY DEF Reaches
  <2>3. ShiftFlags(D) = (F1 \o F2) \o F3 BY DEF ShiftFlags
  <2> HIDE DEF F1, F2, F3
  <2>4. F1 \o F2 \in Seq(PlainWords) BY <2>1
  <2>5. (R \o F1) \o F2 = R \o (F1 \o F2) BY <2>1, <2>2, ConcatAssociative
  <2>6. (R \o (F1 \o F2)) \o F3 = R \o ((F1 \o F2) \o F3) BY <2>1, <2>2, <2>4, ConcatAssociative
  <2> QED BY <2>3, <2>5, <2>6
<1>6. ((S \cup {"SF"}) \cup {"ZF"}) \cup {"PF"} = S \cup {"SF", "ZF", "PF"} OBVIOUS
<1> QED BY <1>4, <1>5, <1>6

\* Where every shift starts: the machine as it is loaded, the count set.
LEMMA CountReach ==
  ASSUME NEW x, NEW a, NEW b, NEW found, NEW v, NEW D, NEW n,
         n = (IF x.op \in DoubleShifts THEN DoubleCount(x) ELSE x.n % 32),
         NEW c, c = Machine(a, b, 0, {}, a, found)
  PROVE  Reaches(<<"SET_COUNT">>, c, x, a, b, n, {}, a, found, v, D, {})
<1>1. Reaches(<<>>, c, x, a, b, 0, {}, a, found, v, D, {}) BY Starts
<1>2. ASSUME NEW f PROVE Performed("SET_COUNT", Machine(a, b, 0, {}, a, f), x) = Machine(a, b, n, {}, a, f)
  <2>1. PICK m : m = Machine(a, b, 0, {}, a, f) OBVIOUS
  <2>2. Performed("SET_COUNT", m, x) = SET_COUNT(m, x) BY WordKinds
  <2>3. SET_COUNT(m, x) = [m EXCEPT !.count = n] BY Zenon DEF SET_COUNT
  <2>4. [m EXCEPT !.count = n] = Machine(a, b, n, {}, a, f) BY <2>1 DEF Machine
  <2> QED BY <2>1, <2>2, <2>3, <2>4
<1>3. Moves("SET_COUNT", x, a, b, 0, {}, a, a, b, n, {}, a, found, v, D, {}) BY <1>2 DEF Moves
<1>4. "SET_COUNT" \in PlainWords BY DEF PlainWords
<1>5. <<>> \o <<"SET_COUNT">> = <<"SET_COUNT">>
  <2>1. <<"SET_COUNT">> \in Seq(PlainWords) BY <1>4
  <2> QED BY <2>1, ConcatEmptySeq
<1>6. Reaches(<<>> \o <<"SET_COUNT">>, c, x, a, b, n, {}, a, found, v, D, {}) BY <1>1, <1>3, <1>4, ThenWord
<1> QED BY <1>5, <1>6

\* compile_shift, from its words.
LEMMA ShiftTranslates ==
  ASSUME NEW x, NEW D, D \subseteq Arithmetic, NEW op \in PlainWords, NEW of \in PlainWords, NEW cf \in PlainWords,
         NEW a, NEW b, NEW n, x.op \notin DoubleShifts, n = x.n % 32, NEW r, NEW v,
         NEW c, c = Machine(a, b, 0, {}, a, x.f),
         RightFlag(of, "OF", x, a, b, n, {}, a, x.f, v, D, {}),
         RightFlag(cf, "CF", x, a, b, n, {}, a, x.f, v, D, {"OF"}),
         \A f : Performed(op, Machine(a, b, n, {}, a, f), x) = Machine(a, b, n, r, a, f),
         \A S : /\ "SF" \notin S => RightFlag("SHIFT_SF", "SF", x, a, b, n, r, r, x.f, v, D, S)
                /\ "ZF" \notin S => RightFlag("SHIFT_ZF", "ZF", x, a, b, n, r, r, x.f, v, D, S)
                /\ "PF" \notin S => RightFlag("SHIFT_PF", "PF", x, a, b, n, r, r, x.f, v, D, S),
         Kept(v, x.f, "AF")
  PROVE  Translates(compile_shift(op, of, cf, D), c, x, r, v, D)
<1> DEFINE P0 == <<"SET_COUNT">> \o Flag({"OF"}, of, D)
           P1 == P0 \o Flag({"CF"}, cf, D)
           P2 == P1 \o <<op, "WRITE_RES">>
<1>0. "WRITE_RES" \in PlainWords BY DEF PlainWords
<1>1. Reaches(<<"SET_COUNT">>, c, x, a, b, n, {}, a, x.f, v, D, {}) BY CountReach, Zenon
<1>2. Reaches(P0, c, x, a, b, n, {}, a, x.f, v, D, {"OF"})
  <2>1. Reaches(P0, c, x, a, b, n, {}, a, x.f, v, D, {} \cup {"OF"}) BY <1>1, ThenFlag
  <2> QED BY <2>1
<1> HIDE DEF P0
<1>3. Reaches(P1, c, x, a, b, n, {}, a, x.f, v, D, {"OF", "CF"})
  <2>1. Reaches(P1, c, x, a, b, n, {}, a, x.f, v, D, {"OF"} \cup {"CF"}) BY <1>2, ThenFlag
  <2> QED BY <2>1
<1> HIDE DEF P1
<1>4. Reaches(P1 \o <<op>>, c, x, a, b, n, r, a, x.f, v, D, {"OF", "CF"})
  <2>1. Moves(op, x, a, b, n, {}, a, a, b, n, r, a, x.f, v, D, {"OF", "CF"}) BY DEF Moves
  <2> QED BY <1>3, <2>1, ThenWord
<1>5. Reaches(P2, c, x, a, b, n, r, r, x.f, v, D, {"OF", "CF"})
  <2>1. P1 \in Seq(PlainWords) BY <1>3 DEF Reaches
  <2>2. P2 = (P1 \o <<op>>) \o <<"WRITE_RES">> BY <1>0, <2>1, TwoWords
  <2>3. Moves("WRITE_RES", x, a, b, n, r, a, a, b, n, r, r, x.f, v, D, {"OF", "CF"}) BY MovingWords DEF Moves
  <2> HIDE DEF P2
  <2> QED BY <1>0, <1>4, <2>2, <2>3, ThenWord
<1> HIDE DEF P2
<1>6. PICK S : S = {"OF", "CF"} OBVIOUS
<1>7. Reaches(P2 \o ShiftFlags(D), c, x, a, b, n, r, r, x.f, v, D, S \cup {"SF", "ZF", "PF"})
  <2>1. "SF" \notin S /\ "ZF" \notin S \cup {"SF"} /\ "PF" \notin (S \cup {"SF"}) \cup {"ZF"} BY <1>6
  <2>2. /\ RightFlag("SHIFT_SF", "SF", x, a, b, n, r, r, x.f, v, D, S)
        /\ RightFlag("SHIFT_ZF", "ZF", x, a, b, n, r, r, x.f, v, D, S \cup {"SF"})
        /\ RightFlag("SHIFT_PF", "PF", x, a, b, n, r, r, x.f, v, D, (S \cup {"SF"}) \cup {"ZF"})
    BY <2>1
  <2>3. Reaches(P2, c, x, a, b, n, r, r, x.f, v, D, S) BY <1>5, <1>6
  <2>4. "ZF" \notin S /\ "PF" \notin S BY <1>6
  <2> QED BY <2>1, <2>2, <2>3, <2>4, ShiftFlagsReach
<1>8. Settled(x.f, v, D, S \cup {"SF", "ZF", "PF"}) BY <1>6 DEF Settled, Kept, Arithmetic
<1>9. Translates(P2 \o ShiftFlags(D), c, x, r, v, D) BY <1>7, <1>8, Ends
<1> QED BY <1>9 DEF P2, P1, P0, compile_shift

\* compile_double, from its words.
LEMMA DoubleTranslates ==
  ASSUME NEW x, NEW D, D \subseteq Arithmetic, NEW op \in PlainWords, NEW of \in PlainWords, NEW cf \in PlainWords,
         NEW a, NEW b, NEW n, x.op \in DoubleShifts, n = DoubleCount(x), NEW r, NEW v,
         NEW c, c = Machine(a, b, 0, {}, a, x.f),
         RightFlag(cf, "CF", x, a, b, n, {}, a, x.f, v, D, {}),
         \A f : Performed(op, Machine(a, b, n, {}, a, f), x) = Machine(a, b, n, r, a, f),
         RightFlag(of, "OF", x, a, b, n, r, r, x.f, v, D, {"CF"}),
         \A S : /\ "SF" \notin S => RightFlag("SHIFT_SF", "SF", x, a, b, n, r, r, x.f, v, D, S)
                /\ "ZF" \notin S => RightFlag("SHIFT_ZF", "ZF", x, a, b, n, r, r, x.f, v, D, S)
                /\ "PF" \notin S => RightFlag("SHIFT_PF", "PF", x, a, b, n, r, r, x.f, v, D, S),
         Kept(v, x.f, "AF")
  PROVE  Translates(compile_double(op, cf, of, D), c, x, r, v, D)
<1> DEFINE P0 == <<"SET_COUNT">> \o Flag({"CF"}, cf, D)
           P1 == P0 \o <<op, "WRITE_RES">>
           P2 == P1 \o Flag({"OF"}, of, D)
<1>0. "WRITE_RES" \in PlainWords BY DEF PlainWords
<1>1. Reaches(<<"SET_COUNT">>, c, x, a, b, n, {}, a, x.f, v, D, {}) BY CountReach, Zenon
<1>2. Reaches(P0, c, x, a, b, n, {}, a, x.f, v, D, {"CF"})
  <2>1. Reaches(P0, c, x, a, b, n, {}, a, x.f, v, D, {} \cup {"CF"}) BY <1>1, ThenFlag
  <2> QED BY <2>1
<1> HIDE DEF P0
<1>3. Reaches(P0 \o <<op>>, c, x, a, b, n, r, a, x.f, v, D, {"CF"})
  <2>1. Moves(op, x, a, b, n, {}, a, a, b, n, r, a, x.f, v, D, {"CF"}) BY DEF Moves
  <2> QED BY <1>2, <2>1, ThenWord
<1>4. Reaches(P1, c, x, a, b, n, r, r, x.f, v, D, {"CF"})
  <2>1. P0 \in Seq(PlainWords) BY <1>2 DEF Reaches
  <2>2. P1 = (P0 \o <<op>>) \o <<"WRITE_RES">> BY <1>0, <2>1, TwoWords
  <2>3. Moves("WRITE_RES", x, a, b, n, r, a, a, b, n, r, r, x.f, v, D, {"CF"}) BY MovingWords DEF Moves
  <2> HIDE DEF P1
  <2> QED BY <1>0, <1>3, <2>2, <2>3, ThenWord
<1> HIDE DEF P1
<1>5. Reaches(P2, c, x, a, b, n, r, r, x.f, v, D, {"CF", "OF"})
  <2>1. Reaches(P2, c, x, a, b, n, r, r, x.f, v, D, {"CF"} \cup {"OF"}) BY <1>4, ThenFlag
  <2> QED BY <2>1
<1> HIDE DEF P2
<1>6. PICK S : S = {"CF", "OF"} OBVIOUS
<1>7. Reaches(P2 \o ShiftFlags(D), c, x, a, b, n, r, r, x.f, v, D, S \cup {"SF", "ZF", "PF"})
  <2>1. "SF" \notin S /\ "ZF" \notin S \cup {"SF"} /\ "PF" \notin (S \cup {"SF"}) \cup {"ZF"} BY <1>6
  <2>2. /\ RightFlag("SHIFT_SF", "SF", x, a, b, n, r, r, x.f, v, D, S)
        /\ RightFlag("SHIFT_ZF", "ZF", x, a, b, n, r, r, x.f, v, D, S \cup {"SF"})
        /\ RightFlag("SHIFT_PF", "PF", x, a, b, n, r, r, x.f, v, D, (S \cup {"SF"}) \cup {"ZF"})
    BY <2>1
  <2>3. Reaches(P2, c, x, a, b, n, r, r, x.f, v, D, S) BY <1>5, <1>6
  <2>4. "ZF" \notin S /\ "PF" \notin S BY <1>6
  <2> QED BY <2>1, <2>2, <2>3, <2>4, ShiftFlagsReach
<1>8. Settled(x.f, v, D, S \cup {"SF", "ZF", "PF"}) BY <1>6 DEF Settled, Kept, Arithmetic
<1>9. Translates(P2 \o ShiftFlags(D), c, x, r, v, D) BY <1>7, <1>8, Ends
<1> QED BY <1>9 DEF P2, P1, P0, compile_double

\* The words of a rotation; its word leaves the count reduced to m.
RotationWords(op, of, cf, D) ==
  <<"SET_COUNT">> \o Flag({"OF"}, of, D) \o <<op>> \o Flag({"CF"}, cf, D) \o <<"WRITE_RES">>

\* The list of a rotation.
LEMMA RotationTranslates ==
  ASSUME NEW x, NEW D, D \subseteq Arithmetic, NEW op \in PlainWords, NEW of \in PlainWords, NEW cf \in PlainWords,
         NEW a, NEW b, NEW n, x.op \notin DoubleShifts, n = x.n % 32, NEW m, NEW r, NEW v,
         NEW c, c = Machine(a, b, 0, {}, a, x.f),
         RightFlag(of, "OF", x, a, b, n, {}, a, x.f, v, D, {}),
         Moves(op, x, a, b, n, {}, a, a, b, m, r, a, x.f, v, D, {"OF"}),
         RightFlag(cf, "CF", x, a, b, m, r, a, x.f, v, D, {"OF"}),
         Kept(v, x.f, "SF"), Kept(v, x.f, "ZF"), Kept(v, x.f, "AF"), Kept(v, x.f, "PF")
  PROVE  Translates(RotationWords(op, of, cf, D), c, x, r, v, D)
<1> DEFINE P0 == <<"SET_COUNT">> \o Flag({"OF"}, of, D)
           P1 == P0 \o <<op>>
           P2 == P1 \o Flag({"CF"}, cf, D)
<1>0. "WRITE_RES" \in PlainWords BY DEF PlainWords
<1>1. Reaches(<<"SET_COUNT">>, c, x, a, b, n, {}, a, x.f, v, D, {}) BY CountReach, Zenon
<1>2. Reaches(P0, c, x, a, b, n, {}, a, x.f, v, D, {"OF"})
  <2>1. Reaches(P0, c, x, a, b, n, {}, a, x.f, v, D, {} \cup {"OF"}) BY <1>1, ThenFlag
  <2> QED BY <2>1
<1> HIDE DEF P0
<1>3. Reaches(P1, c, x, a, b, m, r, a, x.f, v, D, {"OF"}) BY <1>2, ThenWord
<1> HIDE DEF P1
<1>4. Reaches(P2, c, x, a, b, m, r, a, x.f, v, D, {"OF", "CF"})
  <2>1. Reaches(P2, c, x, a, b, m, r, a, x.f, v, D, {"OF"} \cup {"CF"}) BY <1>3, ThenFlag
  <2> QED BY <2>1
<1> HIDE DEF P2
<1>5. Reaches(P2 \o <<"WRITE_RES">>, c, x, a, b, m, r, r, x.f, v, D, {"OF", "CF"})
  <2>1. Moves("WRITE_RES", x, a, b, m, r, a, a, b, m, r, r, x.f, v, D, {"OF", "CF"}) BY MovingWords DEF Moves
  <2> QED BY <1>0, <1>4, <2>1, ThenWord
<1>6. Settled(x.f, v, D, {"OF", "CF"}) BY DEF Settled, Kept, Arithmetic
<1>7. Translates(P2 \o <<"WRITE_RES">>, c, x, r, v, D) BY <1>5, <1>6, Ends
<1> QED BY <1>7 DEF P2, P1, P0, RotationWords

---------------------------------------------------------------------------
\* A translation that leaves what the interpreter leaves, but for the flags
\* both are known to treat unlike.
Matched(x, D) ==
  \E v : /\ Translates(Compiled(x, D), Loaded(x), x, Interpreted(x).dst, v, D)
         /\ Xor(v, Interpreted(x).f) \subseteq TranslatedUnlike(x)
         /\ Interpreted(x).fault = "none"

\* A list that leaves exactly what the macro leaves.
LEMMA MatchedBy ==
  ASSUME NEW x, NEW D, NEW R, NEW c, NEW r, NEW v, Compiled(x, D) = R, Loaded(x) = c,
         Interpreted(x) = Outcome(r, v), Translates(R, c, x, r, v, D)
  PROVE  Matched(x, D)
<1>1. Interpreted(x).dst = r /\ Interpreted(x).f = v /\ Interpreted(x).fault = "none" BY DEF Outcome
<1>2. Xor(v, v) = {} BY DEF Xor
<1> QED BY <1>1, <1>2 DEF Matched

\* The machine a list starts on.
LEMMA LoadedIs ==
  ASSUME NEW x, x.op \notin Divisions
  PROVE  Loaded(x) = Machine(x.dst, x.src, 0, {}, x.dst, x.f)
BY DEF Loaded, Machine

\* The words SHIFT_SF, SHIFT_ZF and SHIFT_PF against the macros of shifts.
LEMMA ShiftResultWords ==
  ASSUME NEW x, NEW a, NEW b, NEW n \in 0 .. 31, NEW r, NEW d, NEW D, NEW f2, NEW v,
         v = MacroFlags(f2, n, r, x.w),
         Kept(f2, x.f, "SF"), Kept(f2, x.f, "ZF"), Kept(f2, x.f, "PF"), Kept(f2, x.f, "AF")
  PROVE  /\ \A S : /\ "SF" \notin S => RightFlag("SHIFT_SF", "SF", x, a, b, n, r, d, x.f, v, D, S)
                   /\ "ZF" \notin S => RightFlag("SHIFT_ZF", "ZF", x, a, b, n, r, d, x.f, v, D, S)
                   /\ "PF" \notin S => RightFlag("SHIFT_PF", "PF", x, a, b, n, r, d, x.f, v, D, S)
         /\ Kept(v, x.f, "AF")
         /\ Kept(v, f2, "CF") /\ Kept(v, f2, "OF")
<1>1. /\ "SF" \in ResultFlags(r, x.w) <=> x.w - 1 \in r
      /\ "ZF" \in ResultFlags(r, x.w) <=> r = {}
      /\ "PF" \in ResultFlags(r, x.w) <=> Parity(r)
      /\ ResultFlags(r, x.w) \subseteq {"SF", "ZF", "PF"}
  BY DEF ResultFlags
<1>2. \A h : h \in v <=> IF n # 0 /\ h \in {"SF", "ZF", "PF"} THEN h \in ResultFlags(r, x.w) ELSE h \in f2
  <2>1. CASE n = 0 BY <2>1 DEF MacroFlags
  <2>2. CASE n # 0 BY <2>2 DEF MacroFlags, SAHLR_FLAGS, WithAll, Replaced
  <2> QED BY <2>1, <2>2
<1>3. n <= 32 OBVIOUS
<1>4. "SF" \in v <=> (IF n # 0 /\ (x.w = 32 => n <= 32) THEN x.w - 1 \in r ELSE "SF" \in x.f)
  BY <1>1, <1>2, <1>3 DEF Kept
<1>5. "ZF" \in v <=> (IF n # 0 /\ (x.w = 32 => n <= 32) THEN r = {} ELSE "ZF" \in x.f)
  BY <1>1, <1>2, <1>3 DEF Kept
<1>6. "PF" \in v <=> (IF n # 0 /\ (x.w = 32 => n <= 32) THEN Parity(r) ELSE "PF" \in x.f)
  BY <1>1, <1>2, <1>3 DEF Kept
<1>7. ASSUME NEW S, "SF" \notin S PROVE RightFlag("SHIFT_SF", "SF", x, a, b, n, r, d, x.f, v, D, S)
  BY <1>4, <1>7, ShiftSignWord
<1>8. ASSUME NEW S, "ZF" \notin S PROVE RightFlag("SHIFT_ZF", "ZF", x, a, b, n, r, d, x.f, v, D, S)
  BY <1>5, <1>8, ShiftZeroWord
<1>9. ASSUME NEW S, "PF" \notin S PROVE RightFlag("SHIFT_PF", "PF", x, a, b, n, r, d, x.f, v, D, S)
  BY <1>6, <1>9, ShiftParityWord
<1>10. Kept(v, x.f, "AF") /\ Kept(v, f2, "CF") /\ Kept(v, f2, "OF") BY <1>2 DEF Kept
<1> QED BY <1>7, <1>8, <1>9, <1>10

\* What every shift assumes of its count and its width.
LEMMA CountIsSmall ==
  ASSUME NEW x, WellFormed(x), NEW n, n = x.n % 32
  PROVE  n \in 0 .. 31
<1>1. x.n \in Nat BY DEF WellFormed
<1> QED BY <1>1

\* SHR.
LEMMA ShrAgrees ==
  ASSUME NEW x, WellFormed(x), x.op = "SHR", NEW D, D \subseteq Arithmetic
  PROVE  Matched(x, D)
<1>1. PICK n : n = x.n % 32 OBVIOUS
<1>2. n \in 0 .. 31 BY <1>1, CountIsSmall
<1>3. PICK a : a = x.dst OBVIOUS
<1>4. PICK w : w = x.w OBVIOUS
<1>5. w \in Nat /\ w > 1 BY <1>4 DEF WellFormed
<1>6. PICK f1 : f1 = (IF n = 1 THEN With(x.f, "OF", w - 1 \in a) ELSE x.f) OBVIOUS
<1>7. PICK f2 : f2 = (IF n > w THEN f1 \ {"CF"} ELSE IF n > 0 THEN With(f1, "CF", n - 1 \in a) ELSE f1) OBVIOUS
<1>8. PICK r : r = (IF n >= w THEN {} ELSE Shr(a, n)) OBVIOUS
<1>9. PICK v : v = MacroFlags(f2, n, r, w) OBVIOUS
<1>10. Interpreted(x) = Outcome(r, v)
  <2>1. Interpreted(x) = SHR(x) BY DEF Interpreted
  <2> QED BY <1>1, <1>3, <1>4, <1>6, <1>7, <1>8, <1>9, <2>1, Zenon DEF SHR, MacroFlags
<1>11. \A h : h \notin {"CF", "OF"} => Kept(f2, x.f, h) BY <1>6, <1>7 DEF With, Kept
<1>12. "OF" \in f2 <=> (IF n = 1 THEN w - 1 \in a ELSE "OF" \in x.f) BY <1>6, <1>7 DEF With
<1>13. "CF" \in f2 <=> (IF n > 0 THEN n <= w /\ n - 1 \in a ELSE "CF" \in x.f) BY <1>2, <1>5, <1>6, <1>7 DEF With
<1>14. /\ \A S : /\ "SF" \notin S => RightFlag("SHIFT_SF", "SF", x, a, x.src, n, r, r, x.f, v, D, S)
                 /\ "ZF" \notin S => RightFlag("SHIFT_ZF", "ZF", x, a, x.src, n, r, r, x.f, v, D, S)
                 /\ "PF" \notin S => RightFlag("SHIFT_PF", "PF", x, a, x.src, n, r, r, x.f, v, D, S)
       /\ Kept(v, x.f, "AF")
       /\ Kept(v, f2, "CF") /\ Kept(v, f2, "OF")
  <2>1. Kept(f2, x.f, "SF") /\ Kept(f2, x.f, "ZF") /\ Kept(f2, x.f, "PF") /\ Kept(f2, x.f, "AF") BY <1>11
  <2> QED BY <1>2, <1>4, <1>9, <2>1, ShiftResultWords
<1>15. RightFlag("SHR_OF", "OF", x, a, x.src, n, {}, a, x.f, v, D, {})
  <2>1. "OF" \in v <=> (IF n = 1 THEN x.w - 1 \in a ELSE "OF" \in x.f) BY <1>4, <1>12, <1>14 DEF Kept
  <2>2. "OF" \notin {} OBVIOUS
  <2> QED BY <2>1, <2>2, ShrOverWord
<1>16. RightFlag("SHR_CF", "CF", x, a, x.src, n, {}, a, x.f, v, D, {"OF"})
  <2>1. "CF" \in v <=> (IF n > 0 THEN n <= x.w /\ n - 1 \in a ELSE "CF" \in x.f) BY <1>4, <1>13, <1>14 DEF Kept
  <2>2. "CF" \notin {"OF"} OBVIOUS
  <2> QED BY <2>1, <2>2, ShrCarryWord
<1>17. ASSUME NEW f PROVE Performed("SHR", Machine(a, x.src, n, {}, a, f), x) = Machine(a, x.src, n, r, a, f)
  <2>1. r = (IF n >= x.w THEN {} ELSE Shr(a, n)) BY <1>4, <1>8
  <2> QED BY <2>1, ShrWord
<1>18. PICK c : c = Machine(a, x.src, 0, {}, a, x.f) OBVIOUS
<1>19. /\ x.op \notin DoubleShifts /\ x.op \notin Divisions
       /\ "SHR" \in PlainWords /\ "SHR_OF" \in PlainWords /\ "SHR_CF" \in PlainWords
  BY DEF DoubleShifts, Divisions, PlainWords, ShiftWords, Shifts, ShiftFlagWords
<1>20. Translates(compile_shift("SHR", "SHR_OF", "SHR_CF", D), c, x, r, v, D)
  BY <1>1, <1>14, <1>15, <1>16, <1>17, <1>18, <1>19, ShiftTranslates
<1>21. Compiled(x, D) = compile_shift("SHR", "SHR_OF", "SHR_CF", D) BY DEF Compiled, Divisions
<1>22. Loaded(x) = c BY <1>3, <1>18, <1>19, LoadedIs
<1> QED BY <1>10, <1>20, <1>21, <1>22, MatchedBy

\* SHL.
LEMMA ShlAgrees ==
  ASSUME NEW x, WellFormed(x), x.op = "SHL", NEW D, D \subseteq Arithmetic
  PROVE  Matched(x, D)
<1>1. PICK n : n = x.n % 32 OBVIOUS
<1>2. n \in 0 .. 31 BY <1>1, CountIsSmall
<1>3. PICK a : a = x.dst OBVIOUS
<1>4. PICK w : w = x.w OBVIOUS
<1>5. w \in Nat /\ w > 1 BY <1>4 DEF WellFormed
<1>6. PICK f1 : f1 = (IF n = 1 THEN With(x.f, "OF", (w - 1 \in a) # (w - 2 \in a)) ELSE x.f) OBVIOUS
<1>7. PICK f2 : f2 = (IF n > w THEN f1 \ {"CF"} ELSE IF n > 0 THEN With(f1, "CF", w - n \in a) ELSE f1) OBVIOUS
<1>8. PICK r : r = (IF n >= w THEN {} ELSE Shl(a, n, w)) OBVIOUS
<1>9. PICK v : v = MacroFlags(f2, n, r, w) OBVIOUS
<1>10. Interpreted(x) = Outcome(r, v)
  <2>1. Interpreted(x) = SHL(x) BY DEF Interpreted
  <2> QED BY <1>1, <1>3, <1>4, <1>6, <1>7, <1>8, <1>9, <2>1, Zenon DEF SHL, MacroFlags
<1>11. \A h : h \notin {"CF", "OF"} => Kept(f2, x.f, h) BY <1>6, <1>7 DEF With, Kept
<1>12. "OF" \in f2 <=> (IF n = 1 THEN (w - 1 \in a) # (w - 2 \in a) ELSE "OF" \in x.f) BY <1>6, <1>7 DEF With
<1>13. "CF" \in f2 <=> (IF n > 0 THEN n <= w /\ w - n \in a ELSE "CF" \in x.f) BY <1>2, <1>5, <1>6, <1>7 DEF With
<1>14. /\ \A S : /\ "SF" \notin S => RightFlag("SHIFT_SF", "SF", x, a, x.src, n, r, r, x.f, v, D, S)
                 /\ "ZF" \notin S => RightFlag("SHIFT_ZF", "ZF", x, a, x.src, n, r, r, x.f, v, D, S)
                 /\ "PF" \notin S => RightFlag("SHIFT_PF", "PF", x, a, x.src, n, r, r, x.f, v, D, S)
       /\ Kept(v, x.f, "AF")
       /\ Kept(v, f2, "CF") /\ Kept(v, f2, "OF")
  <2>1. Kept(f2, x.f, "SF") /\ Kept(f2, x.f, "ZF") /\ Kept(f2, x.f, "PF") /\ Kept(f2, x.f, "AF") BY <1>11
  <2> QED BY <1>2, <1>4, <1>9, <2>1, ShiftResultWords
<1>15. RightFlag("SHL_OF", "OF", x, a, x.src, n, {}, a, x.f, v, D, {})
  <2>1. "OF" \in v <=> (IF n = 1 THEN (x.w - 1 \in a) # (x.w - 2 \in a) ELSE "OF" \in x.f) BY <1>4, <1>12, <1>14 DEF Kept
  <2>2. "OF" \notin {} OBVIOUS
  <2> QED BY <2>1, <2>2, ShlOverWord
<1>16. RightFlag("SHL_CF", "CF", x, a, x.src, n, {}, a, x.f, v, D, {"OF"})
  <2>1. "CF" \in v <=> (IF n > 0 THEN n <= x.w /\ x.w - n \in a ELSE "CF" \in x.f) BY <1>4, <1>13, <1>14 DEF Kept
  <2>2. "CF" \notin {"OF"} OBVIOUS
  <2> QED BY <2>1, <2>2, ShlCarryWord
<1>17. ASSUME NEW f PROVE Performed("SHL", Machine(a, x.src, n, {}, a, f), x) = Machine(a, x.src, n, r, a, f)
  <2>1. r = (IF n >= x.w THEN {} ELSE Shl(a, n, x.w)) BY <1>4, <1>8
  <2> QED BY <2>1, ShlWord
<1>18. PICK c : c = Machine(a, x.src, 0, {}, a, x.f) OBVIOUS
<1>19. /\ x.op \notin DoubleShifts /\ x.op \notin Divisions
       /\ "SHL" \in PlainWords /\ "SHL_OF" \in PlainWords /\ "SHL_CF" \in PlainWords
  BY DEF DoubleShifts, Divisions, PlainWords, ShiftWords, Shifts, ShiftFlagWords
<1>20. Translates(compile_shift("SHL", "SHL_OF", "SHL_CF", D), c, x, r, v, D)
  BY <1>1, <1>14, <1>15, <1>16, <1>17, <1>18, <1>19, ShiftTranslates
<1>21. Compiled(x, D) = compile_shift("SHL", "SHL_OF", "SHL_CF", D) BY DEF Compiled, Divisions
<1>22. Loaded(x) = c BY <1>3, <1>18, <1>19, LoadedIs
<1> QED BY <1>10, <1>20, <1>21, <1>22, MatchedBy

\* SAR.
LEMMA SarAgrees ==
  ASSUME NEW x, WellFormed(x), x.op = "SAR", NEW D, D \subseteq Arithmetic
  PROVE  Matched(x, D)
<1>1. PICK n : n = x.n % 32 OBVIOUS
<1>2. n \in 0 .. 31 BY <1>1, CountIsSmall
<1>3. PICK a : a = x.dst OBVIOUS
<1>4. PICK w : w = x.w OBVIOUS
<1>5. w \in Nat /\ w > 1 BY <1>4 DEF WellFormed
<1>6. PICK f1 : f1 = (IF n = 1 THEN x.f \ {"OF"} ELSE x.f) OBVIOUS
<1>7. PICK f2 : f2 = (IF n >= w THEN With(f1, "CF", w - 1 \in a) ELSE IF n > 0 THEN With(f1, "CF", n - 1 \in a) ELSE f1) OBVIOUS
<1>8. PICK r : r = (IF n < w THEN Sar(a, n, w) ELSE IF w - 1 \in a THEN Positions(w) ELSE {}) OBVIOUS
<1>9. PICK v : v = MacroFlags(f2, n, r, w) OBVIOUS
<1>10. Interpreted(x) = Outcome(r, v)
  <2>1. Interpreted(x) = SAR(x) BY DEF Interpreted
  <2>2. n < w <=> ~ (n >= w) BY <1>2, <1>5
  <2>3. r = (IF n >= w THEN (IF w - 1 \in a THEN Positions(w) ELSE {}) ELSE Sar(a, n, w)) BY <1>8, <2>2
  <2> QED BY <1>1, <1>3, <1>4, <1>6, <1>7, <1>9, <2>1, <2>3, Zenon DEF SAR, MacroFlags
<1>11. \A h : h \notin {"CF", "OF"} => Kept(f2, x.f, h) BY <1>6, <1>7 DEF With, Kept
<1>12. "OF" \in f2 <=> (IF n = 1 THEN FALSE ELSE "OF" \in x.f) BY <1>6, <1>7 DEF With
<1>13. "CF" \in f2 <=> (IF n > 0 THEN IF n >= w THEN w - 1 \in a ELSE n - 1 \in a ELSE "CF" \in x.f) BY <1>2, <1>5, <1>6, <1>7 DEF With
<1>14. /\ \A S : /\ "SF" \notin S => RightFlag("SHIFT_SF", "SF", x, a, x.src, n, r, r, x.f, v, D, S)
                 /\ "ZF" \notin S => RightFlag("SHIFT_ZF", "ZF", x, a, x.src, n, r, r, x.f, v, D, S)
                 /\ "PF" \notin S => RightFlag("SHIFT_PF", "PF", x, a, x.src, n, r, r, x.f, v, D, S)
       /\ Kept(v, x.f, "AF")
       /\ Kept(v, f2, "CF") /\ Kept(v, f2, "OF")
  <2>1. Kept(f2, x.f, "SF") /\ Kept(f2, x.f, "ZF") /\ Kept(f2, x.f, "PF") /\ Kept(f2, x.f, "AF") BY <1>11
  <2> QED BY <1>2, <1>4, <1>9, <2>1, ShiftResultWords
<1>15. RightFlag("SAR_OF", "OF", x, a, x.src, n, {}, a, x.f, v, D, {})
  <2>1. "OF" \in v <=> (IF n = 1 THEN FALSE ELSE "OF" \in x.f) BY <1>4, <1>12, <1>14 DEF Kept
  <2>2. "OF" \notin {} OBVIOUS
  <2> QED BY <2>1, <2>2, SarOverWord
<1>16. RightFlag("SAR_CF", "CF", x, a, x.src, n, {}, a, x.f, v, D, {"OF"})
  <2>1. "CF" \in v <=> (IF n > 0 THEN IF n >= x.w THEN x.w - 1 \in a ELSE n - 1 \in a ELSE "CF" \in x.f) BY <1>4, <1>13, <1>14 DEF Kept
  <2>2. "CF" \notin {"OF"} OBVIOUS
  <2> QED BY <2>1, <2>2, SarCarryWord
<1>17. ASSUME NEW f PROVE Performed("SAR", Machine(a, x.src, n, {}, a, f), x) = Machine(a, x.src, n, r, a, f)
  <2>1. r = (IF n < x.w THEN Sar(a, n, x.w) ELSE IF x.w - 1 \in a THEN Positions(x.w) ELSE {}) BY <1>4, <1>8
  <2> QED BY <2>1, SarWord
<1>18. PICK c : c = Machine(a, x.src, 0, {}, a, x.f) OBVIOUS
<1>19. /\ x.op \notin DoubleShifts /\ x.op \notin Divisions
       /\ "SAR" \in PlainWords /\ "SAR_OF" \in PlainWords /\ "SAR_CF" \in PlainWords
  BY DEF DoubleShifts, Divisions, PlainWords, ShiftWords, Shifts, ShiftFlagWords
<1>20. Translates(compile_shift("SAR", "SAR_OF", "SAR_CF", D), c, x, r, v, D)
  BY <1>1, <1>14, <1>15, <1>16, <1>17, <1>18, <1>19, ShiftTranslates
<1>21. Compiled(x, D) = compile_shift("SAR", "SAR_OF", "SAR_CF", D) BY DEF Compiled, Divisions
<1>22. Loaded(x) = c BY <1>3, <1>18, <1>19, LoadedIs
<1> QED BY <1>10, <1>20, <1>21, <1>22, MatchedBy

---------------------------------------------------------------------------
\* The aliased sums are translated right and interpreted wrong.
LEMMA MatchedUnlike ==
  ASSUME NEW x, NEW D, NEW R, NEW c, NEW r, NEW v, NEW u, Compiled(x, D) = R, Loaded(x) = c,
         Interpreted(x) = Outcome(r, u), Translates(R, c, x, r, v, D), Xor(v, u) \subseteq TranslatedUnlike(x)
  PROVE  Matched(x, D)
<1>1. Interpreted(x).dst = r /\ Interpreted(x).f = u /\ Interpreted(x).fault = "none" BY DEF Outcome
<1> QED BY <1>1 DEF Matched

\* The flags of an operand read again are flags known to differ.
LEMMA AliasUnlike ==
  ASSUME NEW x, NEW r, x.op \in {"ADD", "ADC", "SUB", "SBB"}, x.same \in BOOLEAN
  PROVE  /\ Xor(AD_FLAGS(x.f, Arithmetic, r, x.dst, x.src, x.w),
                AD_FLAGS(x.f, Arithmetic, r, x.dst, Reread(x, r), x.w)) \subseteq TranslatedUnlike(x)
         /\ Xor(SB_FLAGS(x.f, Arithmetic, r, x.dst, x.src, x.w),
                SB_FLAGS(x.f, Arithmetic, r, x.dst, Reread(x, r), x.w)) \subseteq TranslatedUnlike(x)
<1>1. CASE ~ x.same
  <2>1. Reread(x, r) = x.src BY <1>1 DEF Reread
  <2> QED BY <2>1 DEF Xor
<1>2. CASE x.same
  <2>1. TranslatedUnlike(x) = {"OF", "AF", "CF"} BY <1>2 DEF TranslatedUnlike, DoubleShifts
  <2>2. \A b : /\ AD_Bits(r, x.dst, b, x.w) \subseteq {"OF", "AF", "CF"}
               /\ SB_Bits(r, x.dst, b, x.w) \subseteq {"OF", "AF", "CF"}
    BY DEF AD_Bits, SB_Bits
  <2>3. \A p, q : p \subseteq {"OF", "AF", "CF"} /\ q \subseteq {"OF", "AF", "CF"} =>
          Xor(WithAll(x.f, Arithmetic, p \cup ResultFlags(r, x.w)), WithAll(x.f, Arithmetic, q \cup ResultFlags(r, x.w)))
            \subseteq {"OF", "AF", "CF"}
    BY DEF Xor, WithAll, Replaced
  <2> QED BY <2>1, <2>2, <2>3 DEF AD_FLAGS, SB_FLAGS
<1> QED BY <1>1, <1>2

\* The words that set the operands of INC and DEC, and of NEG.
LEMMA OperandReach ==
  ASSUME NEW x, NEW a, NEW b, NEW found, NEW v, NEW D, NEW c, c = Machine(a, b, 0, {}, a, found)
  PROVE  /\ Reaches(<<"SET_1_OP1">>, c, x, a, {0}, 0, {}, a, found, v, D, {})
         /\ Reaches(<<"OP0_OP1_0_OP0">>, c, x, {}, a, 0, {}, a, found, v, D, {})
<1>1. Reaches(<<>>, c, x, a, b, 0, {}, a, found, v, D, {}) BY Starts
<1>2. Moves("SET_1_OP1", x, a, b, 0, {}, a, a, {0}, 0, {}, a, found, v, D, {}) BY MovingWords DEF Moves
<1>3. Moves("OP0_OP1_0_OP0", x, a, b, 0, {}, a, {}, a, 0, {}, a, found, v, D, {}) BY MovingWords DEF Moves
<1>4. "SET_1_OP1" \in PlainWords /\ "OP0_OP1_0_OP0" \in PlainWords BY DEF PlainWords
<1>5. \A word \in PlainWords : <<>> \o <<word>> = <<word>>
  <2>1. \A word \in PlainWords : <<word>> \in Seq(PlainWords) OBVIOUS
  <2> QED BY <2>1, ConcatEmptySeq
<1>6. Reaches(<<>> \o <<"SET_1_OP1">>, c, x, a, {0}, 0, {}, a, found, v, D, {}) BY <1>1, <1>2, <1>4, ThenWord
<1>7. Reaches(<<>> \o <<"OP0_OP1_0_OP0">>, c, x, {}, a, 0, {}, a, found, v, D, {}) BY <1>1, <1>3, <1>4, ThenWord
<1> QED BY <1>4, <1>5, <1>6, <1>7

\* ADD and ADC.
LEMMA AddAgrees ==
  ASSUME NEW x, WellFormed(x), x.op \in {"ADD", "ADC"}, NEW D, D \subseteq Arithmetic
  PROVE  Matched(x, D)
<1>1. PICK carry \in BOOLEAN : carry <=> x.op = "ADC"
  <2>1. (x.op = "ADC") \in BOOLEAN OBVIOUS
  <2> QED BY <2>1
<1>2. PICK cflag \in BOOLEAN : cflag OBVIOUS
<1>3. PICK r : r = (IF carry THEN Plus(x.dst, x.src, "CF" \in x.f, x.w) ELSE PlainSum(x.dst, x.src, x.w)) OBVIOUS
<1>4. PICK v : v = AD_FLAGS(x.f, IF cflag THEN Arithmetic ELSE Arithmetic \ {"CF"}, r, x.dst, x.src, x.w) OBVIOUS
<1>5. PICK u : u = AD_FLAGS(x.f, Arithmetic, r, x.dst, Reread(x, r), x.w) OBVIOUS
<1>6. Interpreted(x) = Outcome(r, u)
  <2>1. CASE x.op = "ADD"
    <3>1. Interpreted(x) = ADD(x) BY <2>1 DEF Interpreted
    <3>2. r = Plus(x.dst, x.src, FALSE, x.w) BY <1>1, <1>3, <2>1 DEF PlainSum
    <3> QED BY <1>5, <3>1, <3>2 DEF ADD
  <2>2. CASE x.op = "ADC"
    <3>1. Interpreted(x) = ADC(x) BY <2>2 DEF Interpreted
    <3>2. r = Plus(x.dst, x.src, "CF" \in x.f, x.w) BY <1>1, <1>3, <2>2
    <3> QED BY <1>5, <3>1, <3>2 DEF ADC
  <2> QED BY <2>1, <2>2
<1>7. x.op \notin Divisions /\ x.same \in BOOLEAN BY DEF Divisions, WellFormed
<1>8. PICK c : c = Machine(x.dst, x.src, 0, {}, x.dst, x.f) OBVIOUS
<1>9. Reaches(<<>>, c, x, x.dst, x.src, 0, {}, x.dst, x.f, v, D, {}) BY <1>8, Starts
<1>10. Translates(compile_add_like(<<>>, carry, cflag, D), c, x, r, v, D)
  BY <1>3, <1>4, <1>9, AddWordsAgree
<1>11. Compiled(x, D) = compile_add_like(<<>>, carry, cflag, D)
  <2>1. CASE x.op = "ADD"
    <3>1. Compiled(x, D) = compile_add_like(<<>>, FALSE, TRUE, D) BY <2>1 DEF Compiled, Divisions
    <3> QED BY <1>1, <1>2, <2>1, <3>1
  <2>2. CASE x.op = "ADC"
    <3>1. Compiled(x, D) = compile_add_like(<<>>, TRUE, TRUE, D) BY <2>2 DEF Compiled, Divisions
    <3> QED BY <1>1, <1>2, <2>2, <3>1
  <2> QED BY <2>1, <2>2
<1>12. Loaded(x) = c BY <1>7, <1>8, LoadedIs
<1>13. Xor(v, u) \subseteq TranslatedUnlike(x)
  <2>1. v = AD_FLAGS(x.f, Arithmetic, r, x.dst, x.src, x.w) BY <1>2, <1>4
  <2> QED BY <1>5, <1>7, <2>1, AliasUnlike
<1> QED BY <1>6, <1>10, <1>11, <1>12, <1>13, MatchedUnlike

\* INC.
LEMMA IncAgrees ==
  ASSUME NEW x, WellFormed(x), x.op = "INC", NEW D, D \subseteq Arithmetic
  PROVE  Matched(x, D)
<1>1. PICK carry \in BOOLEAN : ~ carry OBVIOUS
<1>2. PICK cflag \in BOOLEAN : ~ cflag OBVIOUS
<1>3. PICK r : r = (IF carry THEN Plus(x.dst, {0}, "CF" \in x.f, x.w) ELSE PlainSum(x.dst, {0}, x.w)) OBVIOUS
<1>4. PICK v : v = AD_FLAGS(x.f, IF cflag THEN Arithmetic ELSE Arithmetic \ {"CF"}, r, x.dst, {0}, x.w) OBVIOUS
<1>6. Interpreted(x) = Outcome(r, v)
  <2>1. Interpreted(x) = INC(x) BY DEF Interpreted
  <2>2. r = Plus(x.dst, {0}, FALSE, x.w) BY <1>1, <1>3 DEF PlainSum
  <2>3. v = AD_FLAGS(x.f, Arithmetic \ {"CF"}, r, x.dst, {0}, x.w) BY <1>2, <1>4
  <2> QED BY <2>1, <2>2, <2>3 DEF INC
<1>7. x.op \notin Divisions BY DEF Divisions
<1>8. PICK c : c = Machine(x.dst, x.src, 0, {}, x.dst, x.f) OBVIOUS
<1>9. Reaches(<<"SET_1_OP1">>, c, x, x.dst, {0}, 0, {}, x.dst, x.f, v, D, {}) BY <1>8, OperandReach
<1>10. Translates(compile_add_like(<<"SET_1_OP1">>, carry, cflag, D), c, x, r, v, D)
  BY <1>3, <1>4, <1>9, AddWordsAgree
<1>11. Compiled(x, D) = compile_add_like(<<"SET_1_OP1">>, carry, cflag, D)
  <2>1. Compiled(x, D) = compile_add_like(<<"SET_1_OP1">>, FALSE, FALSE, D) BY DEF Compiled, Divisions
  <2> QED BY <1>1, <1>2, <2>1
<1>12. Loaded(x) = c BY <1>7, <1>8, LoadedIs
<1> QED BY <1>6, <1>10, <1>11, <1>12, MatchedBy

\* What the words of a difference have to leave is what SET_SB_FLAGS leaves.
LEMMA DifferenceTargets ==
  ASSUME NEW f, NEW S, S \in {Arithmetic, Arithmetic \ {"CF"}}, NEW r, NEW a, NEW b, NEW w
  PROVE  LET v == SB_FLAGS(f, S, r, a, b, w)
             bits == SB_Bits(r, a, b, w)
         IN /\ ResultTarget(v, r, w) /\ BitsTarget(v, bits, "OF") /\ BitsTarget(v, bits, "AF")
            /\ S = Arithmetic => BitsTarget(v, bits, "CF")
            /\ S # Arithmetic => Kept(v, f, "CF")
<1>1. PICK bits : bits = SB_Bits(r, a, b, w) OBVIOUS
<1>2. PICK v : v = WithAll(f, S, bits \cup ResultFlags(r, w)) OBVIOUS
<1>3. bits \subseteq {"OF", "AF", "CF"} BY <1>1 DEF SB_Bits
<1>4. "SF" \in S /\ "ZF" \in S /\ "PF" \in S /\ "OF" \in S /\ "AF" \in S BY DEF Arithmetic
<1>5. /\ ResultTarget(v, r, w)
      /\ \A h \in S \cap {"OF", "AF", "CF"} : BitsTarget(v, bits, h)
      /\ \A h : h \notin S => Kept(v, f, h)
  <2>1. "SF" \in S /\ "ZF" \in S /\ "PF" \in S BY <1>4
  <2> QED BY <1>2, <1>3, <2>1, Targets
<1>6. BitsTarget(v, bits, "OF") /\ BitsTarget(v, bits, "AF") BY <1>4, <1>5
<1>7. S = Arithmetic => BitsTarget(v, bits, "CF") BY <1>5 DEF Arithmetic
<1>8. S # Arithmetic => Kept(v, f, "CF") BY <1>5
<1>9. v = SB_FLAGS(f, S, r, a, b, w) BY <1>1, <1>2 DEF SB_FLAGS
<1> QED BY <1>1, <1>5, <1>6, <1>7, <1>8, <1>9

\* SUB, SBB and CMP.
LEMMA SubAgrees ==
  ASSUME NEW x, WellFormed(x), x.op \in {"SUB", "SBB", "CMP"}, NEW D, D \subseteq Arithmetic
  PROVE  Matched(x, D)
<1>1. PICK carry \in BOOLEAN : carry <=> x.op = "SBB"
  <2>1. (x.op = "SBB") \in BOOLEAN OBVIOUS
  <2> QED BY <2>1
<1>2. PICK write \in BOOLEAN : write <=> x.op # "CMP"
  <2>1. (x.op # "CMP") \in BOOLEAN OBVIOUS
  <2> QED BY <2>1
<1>3. PICK r : r = (IF carry THEN Plus(x.dst, Not(x.src, x.w), "CF" \notin x.f, x.w) ELSE Minus(x.dst, x.src, x.w)) OBVIOUS
<1>4. PICK v : v = SB_FLAGS(x.f, Arithmetic, r, x.dst, x.src, x.w) OBVIOUS
<1>5. PICK u : u = (IF write THEN SB_FLAGS(x.f, Arithmetic, r, x.dst, Reread(x, r), x.w) ELSE v) OBVIOUS
<1>20. PICK d : d = (IF write THEN r ELSE x.dst) OBVIOUS
<1>6. Interpreted(x) = Outcome(d, u)
  <2>1. CASE x.op = "SUB"
    <3>1. Interpreted(x) = SUB(x) BY <2>1 DEF Interpreted
    <3>2. r = Minus(x.dst, x.src, x.w) /\ d = r BY <1>1, <1>2, <1>3, <1>20, <2>1
    <3>3. u = SB_FLAGS(x.f, Arithmetic, r, x.dst, Reread(x, r), x.w) BY <1>2, <1>5, <2>1
    <3> QED BY <3>1, <3>2, <3>3 DEF SUB
  <2>2. CASE x.op = "SBB"
    <3>1. Interpreted(x) = SBB(x) BY <2>2 DEF Interpreted
    <3>2. r = Plus(x.dst, Not(x.src, x.w), "CF" \notin x.f, x.w) /\ d = r BY <1>1, <1>2, <1>3, <1>20, <2>2
    <3>3. u = SB_FLAGS(x.f, Arithmetic, r, x.dst, Reread(x, r), x.w) BY <1>2, <1>5, <2>2
    <3> QED BY <3>1, <3>2, <3>3 DEF SBB
  <2>3. CASE x.op = "CMP"
    <3>1. Interpreted(x) = CMP(x) BY <2>3 DEF Interpreted
    <3>2. r = Minus(x.dst, x.src, x.w) /\ d = x.dst BY <1>1, <1>2, <1>3, <1>20, <2>3
    <3>3. u = v BY <1>2, <1>5, <2>3
    <3> QED BY <1>4, <3>1, <3>2, <3>3 DEF CMP
  <2> QED BY <2>1, <2>2, <2>3
<1>7. x.op \notin Divisions /\ x.same \in BOOLEAN BY DEF Divisions, WellFormed
<1>8. PICK c : c = Machine(x.dst, x.src, 0, {}, x.dst, x.f) OBVIOUS
<1>9. Reaches(<<>>, c, x, x.dst, x.src, 0, {}, x.dst, x.f, v, D, {}) BY <1>8, Starts
<1>21. PICK bits : bits = SB_Bits(r, x.dst, x.src, x.w) OBVIOUS
<1>22. /\ ResultTarget(v, r, x.w) /\ BitsTarget(v, bits, "OF") /\ BitsTarget(v, bits, "AF")
       /\ BitsTarget(v, bits, "CF")
  BY <1>4, <1>21, DifferenceTargets
<1>23. CarryTarget("SB_CF", v, x.f, bits, x.src) BY <1>22 DEF CarryTarget
<1>10. Translates(compile_sub_like(<<>>, write, carry, "SB_CF", D), c, x, d, v, D)
  <2>1. Translates(compile_sub_like(<<>>, write, carry, "SB_CF", D), c, x, IF write THEN r ELSE x.dst, v, D)
    BY <1>3, <1>9, <1>21, <1>22, <1>23, SubWordsAgree
  <2> QED BY <1>20, <2>1
<1>11. Compiled(x, D) = compile_sub_like(<<>>, write, carry, "SB_CF", D)
  <2>1. CASE x.op = "SUB"
    <3>1. Compiled(x, D) = compile_sub_like(<<>>, TRUE, FALSE, "SB_CF", D) BY <2>1 DEF Compiled, Divisions
    <3> QED BY <1>1, <1>2, <2>1, <3>1
  <2>2. CASE x.op = "SBB"
    <3>1. Compiled(x, D) = compile_sub_like(<<>>, TRUE, TRUE, "SB_CF", D) BY <2>2 DEF Compiled, Divisions
    <3> QED BY <1>1, <1>2, <2>2, <3>1
  <2>3. CASE x.op = "CMP"
    <3>1. Compiled(x, D) = compile_sub_like(<<>>, FALSE, FALSE, "SB_CF", D) BY <2>3 DEF Compiled, Divisions
    <3> QED BY <1>1, <1>2, <2>3, <3>1
  <2> QED BY <2>1, <2>2, <2>3
<1>12. Loaded(x) = c BY <1>7, <1>8, LoadedIs
<1>13. Xor(v, u) \subseteq TranslatedUnlike(x)
  <2>1. CASE write
    <3>1. u = SB_FLAGS(x.f, Arithmetic, r, x.dst, Reread(x, r), x.w) BY <1>5, <2>1
    <3>2. x.op \in {"ADD", "ADC", "SUB", "SBB"} BY <1>2, <2>1
    <3> QED BY <1>4, <1>7, <3>1, <3>2, AliasUnlike
  <2>2. CASE ~ write
    <3>1. u = v BY <1>5, <2>2
    <3> QED BY <3>1 DEF Xor
  <2> QED BY <2>1, <2>2
<1> QED BY <1>6, <1>10, <1>11, <1>12, <1>13, MatchedUnlike

\* DEC.
LEMMA DecAgrees ==
  ASSUME NEW x, WellFormed(x), x.op = "DEC", NEW D, D \subseteq Arithmetic
  PROVE  Matched(x, D)
<1>1. PICK carry \in BOOLEAN : ~ carry OBVIOUS
<1>2. PICK write \in BOOLEAN : write OBVIOUS
<1>3. PICK r : r = (IF carry THEN Plus(x.dst, Not({0}, x.w), "CF" \notin x.f, x.w) ELSE Minus(x.dst, {0}, x.w)) OBVIOUS
<1>4. PICK v : v = SB_FLAGS(x.f, Arithmetic \ {"CF"}, r, x.dst, {0}, x.w) OBVIOUS
<1>6. Interpreted(x) = Outcome(r, v)
  <2>1. Interpreted(x) = DEC(x) BY DEF Interpreted
  <2>2. r = Minus(x.dst, {0}, x.w) BY <1>1, <1>3
  <2> QED BY <1>4, <2>1, <2>2 DEF DEC
<1>7. x.op \notin Divisions BY DEF Divisions
<1>8. PICK c : c = Machine(x.dst, x.src, 0, {}, x.dst, x.f) OBVIOUS
<1>9. Reaches(<<"SET_1_OP1">>, c, x, x.dst, {0}, 0, {}, x.dst, x.f, v, D, {}) BY <1>8, OperandReach
<1>21. PICK bits : bits = SB_Bits(r, x.dst, {0}, x.w) OBVIOUS
<1>22. /\ ResultTarget(v, r, x.w) /\ BitsTarget(v, bits, "OF") /\ BitsTarget(v, bits, "AF")
       /\ Kept(v, x.f, "CF")
  <2>1. PICK S : S = Arithmetic \ {"CF"} OBVIOUS
  <2>2. S # Arithmetic /\ S \in {Arithmetic, Arithmetic \ {"CF"}} BY <2>1 DEF Arithmetic
  <2>3. v = SB_FLAGS(x.f, S, r, x.dst, {0}, x.w) BY <1>4, <2>1
  <2> QED BY <1>21, <2>2, <2>3, DifferenceTargets
<1>23. CarryTarget("none", v, x.f, bits, {0}) BY <1>22 DEF CarryTarget
<1>10. Translates(compile_sub_like(<<"SET_1_OP1">>, write, carry, "none", D), c, x, r, v, D)
  <2>1. Translates(compile_sub_like(<<"SET_1_OP1">>, write, carry, "none", D), c, x, IF write THEN r ELSE x.dst, v, D)
    BY <1>3, <1>9, <1>21, <1>22, <1>23, SubWordsAgree
  <2> QED BY <1>2, <2>1
<1>11. Compiled(x, D) = compile_sub_like(<<"SET_1_OP1">>, write, carry, "none", D)
  <2>1. Compiled(x, D) = compile_sub_like(<<"SET_1_OP1">>, TRUE, FALSE, "none", D) BY DEF Compiled, Divisions
  <2> QED BY <1>1, <1>2, <2>1
<1>12. Loaded(x) = c BY <1>7, <1>8, LoadedIs
<1> QED BY <1>6, <1>10, <1>11, <1>12, MatchedBy

\* NEG.
LEMMA NegAgrees ==
  ASSUME NEW x, WellFormed(x), x.op = "NEG", NEW D, D \subseteq Arithmetic
  PROVE  Matched(x, D)
<1>1. PICK carry \in BOOLEAN : ~ carry OBVIOUS
<1>2. PICK write \in BOOLEAN : write OBVIOUS
<1>3. PICK r : r = (IF carry THEN Plus({}, Not(x.dst, x.w), "CF" \notin x.f, x.w) ELSE Minus({}, x.dst, x.w)) OBVIOUS
<1>4. PICK u : u = SB_FLAGS(x.f, Arithmetic, r, {}, x.dst, x.w) OBVIOUS
<1>5. PICK v : v = With(u, "CF", x.dst # {}) OBVIOUS
<1>6. Interpreted(x) = Outcome(r, v)
  <2>1. Interpreted(x) = NEG(x) BY DEF Interpreted
  <2>2. r = Minus({}, x.dst, x.w) BY <1>1, <1>3
  <2> QED BY <1>4, <1>5, <2>1, <2>2 DEF NEG
<1>7. x.op \notin Divisions BY DEF Divisions
<1>8. PICK c : c = Machine(x.dst, x.src, 0, {}, x.dst, x.f) OBVIOUS
<1>9. Reaches(<<"OP0_OP1_0_OP0">>, c, x, {}, x.dst, 0, {}, x.dst, x.f, v, D, {}) BY <1>8, OperandReach
<1>21. PICK bits : bits = SB_Bits(r, {}, x.dst, x.w) OBVIOUS
<1>22. ResultTarget(u, r, x.w) /\ BitsTarget(u, bits, "OF") /\ BitsTarget(u, bits, "AF")
  BY <1>4, <1>21, DifferenceTargets
<1>24. /\ ResultTarget(v, r, x.w) /\ BitsTarget(v, bits, "OF") /\ BitsTarget(v, bits, "AF")
       /\ "CF" \in v <=> x.dst # {}
  <2>1. \A h : h # "CF" => (h \in v <=> h \in u) BY <1>5 DEF With
  <2>2. "CF" \in v <=> x.dst # {} BY <1>5 DEF With
  <2> QED BY <1>22, <2>1, <2>2 DEF ResultTarget, BitsTarget
<1>23. CarryTarget("NEG_CF", v, x.f, bits, x.dst) BY <1>24 DEF CarryTarget
<1>10. Translates(compile_sub_like(<<"OP0_OP1_0_OP0">>, write, carry, "NEG_CF", D), c, x, r, v, D)
  <2>1. Translates(compile_sub_like(<<"OP0_OP1_0_OP0">>, write, carry, "NEG_CF", D), c, x, IF write THEN r ELSE x.dst, v, D)
    BY <1>3, <1>9, <1>21, <1>23, <1>24, SubWordsAgree
  <2> QED BY <1>2, <2>1
<1>11. Compiled(x, D) = compile_sub_like(<<"OP0_OP1_0_OP0">>, write, carry, "NEG_CF", D)
  <2>1. Compiled(x, D) = compile_sub_like(<<"OP0_OP1_0_OP0">>, TRUE, FALSE, "NEG_CF", D) BY DEF Compiled, Divisions
  <2> QED BY <1>1, <1>2, <2>1
<1>12. Loaded(x) = c BY <1>7, <1>8, LoadedIs
<1> QED BY <1>6, <1>10, <1>11, <1>12, MatchedBy

---------------------------------------------------------------------------
\* What the words of a double shift by n leave in v: r is the word they leave,
\* out the bit they shift out.
DoubleTouches(x, n) == n # 0 /\ (x.w = 32 => n <= 32)
DoubleTarget(v, x, n, r, gone) ==
  /\ "OF" \in v <=> (IF n = 1 THEN x.w - 1 \in Xor(r, x.dst) ELSE "OF" \in x.f)
  /\ "CF" \in v <=> (IF n > 0 /\ n <= x.w THEN gone ELSE "CF" \in x.f)
  /\ "SF" \in v <=> (IF DoubleTouches(x, n) THEN x.w - 1 \in r ELSE "SF" \in x.f)
  /\ "ZF" \in v <=> (IF DoubleTouches(x, n) THEN r = {} ELSE "ZF" \in x.f)
  /\ "PF" \in v <=> (IF DoubleTouches(x, n) THEN Parity(r) ELSE "PF" \in x.f)
  /\ Kept(v, x.f, "AF")

\* The flags of the words of a double shift, against those of its macro.
LEMMA DoubledFlags ==
  ASSUME NEW x, WellFormed(x), x.op \in DoubleShifts, NEW n, n = DoubleCount(x), NEW r0, NEW gone \in BOOLEAN,
         NEW r, r = (IF n = 0 \/ n > x.w THEN x.dst ELSE r0), NEW o, o = Doubled(x, r0, gone)
  PROVE  /\ o.dst = r /\ o.fault = "none"
         /\ \E v : DoubleTarget(v, x, n, r, gone) /\ Xor(v, o.f) \subseteq TranslatedUnlike(x)
<1>1. n \in Nat /\ x.w \in {16, 32}
  <2>1. x.n \in Nat /\ x.imm \in BOOLEAN /\ x.w \in {16, 32} BY DEF WellFormed
  <2>2. x.n % 32 \in Nat BY <2>1
  <2> QED BY <2>1, <2>2 DEF DoubleCount
<1>2. PICK f1 : f1 = With(x.f, "CF", gone) OBVIOUS
<1>3. PICK f2 : f2 = (IF n = 1 THEN With(f1, "OF", x.w - 1 \in Xor(r0, x.dst)) ELSE f1) OBVIOUS
<1>4. o = (IF n > 0 /\ n <= x.w THEN Outcome(r0, SAHLR_FLAGS(f2, r0, x.w)) ELSE Outcome(x.dst, x.f))
  BY <1>2, <1>3, Zenon DEF Doubled
<1>5. /\ "SF" \in ResultFlags(r, x.w) <=> x.w - 1 \in r
      /\ "ZF" \in ResultFlags(r, x.w) <=> r = {}
      /\ "PF" \in ResultFlags(r, x.w) <=> Parity(r)
      /\ ResultFlags(r, x.w) \subseteq {"SF", "ZF", "PF"}
  BY DEF ResultFlags
<1>6. CASE n > 0 /\ n <= x.w
  <2>1. r = r0 /\ DoubleTouches(x, n) BY <1>1, <1>6 DEF DoubleTouches
  <2>2. o.dst = r /\ o.fault = "none" /\ o.f = SAHLR_FLAGS(f2, r, x.w) BY <1>4, <1>6, <2>1 DEF Outcome
  <2>3. \A h : h \in o.f <=> IF h \in {"SF", "ZF", "PF"} THEN h \in ResultFlags(r, x.w) ELSE h \in f2
    BY <2>2 DEF SAHLR_FLAGS, WithAll, Replaced
  <2>4. "OF" \in f2 <=> (IF n = 1 THEN x.w - 1 \in Xor(r, x.dst) ELSE "OF" \in x.f) BY <1>2, <1>3, <2>1 DEF With
  <2>5. ("CF" \in f2 <=> gone) /\ ("AF" \in f2 <=> "AF" \in x.f) BY <1>2, <1>3 DEF With
  <2>6. DoubleTarget(o.f, x, n, r, gone) BY <1>5, <1>6, <2>1, <2>3, <2>4, <2>5 DEF DoubleTarget, Kept
  <2>7. Xor(o.f, o.f) = {} BY DEF Xor
  <2> QED BY <2>2, <2>6, <2>7
<1>7. CASE n = 0 \/ (n > x.w /\ x.w = 32)
  <2>1. r = x.dst /\ ~ DoubleTouches(x, n) /\ n # 1 /\ ~ (n > 0 /\ n <= x.w) BY <1>1, <1>7 DEF DoubleTouches
  <2>2. o.dst = r /\ o.fault = "none" /\ o.f = x.f BY <1>4, <2>1 DEF Outcome
  <2>3. DoubleTarget(o.f, x, n, r, gone) BY <2>1, <2>2 DEF DoubleTarget, Kept
  <2>4. Xor(o.f, o.f) = {} BY DEF Xor
  <2> QED BY <2>2, <2>3, <2>4
<1>8. CASE n > x.w /\ x.w = 16
  <2>1. r = x.dst /\ DoubleTouches(x, n) /\ n # 1 /\ ~ (n > 0 /\ n <= x.w) BY <1>1, <1>8 DEF DoubleTouches
  <2>2. o.dst = r /\ o.fault = "none" /\ o.f = x.f BY <1>4, <2>1 DEF Outcome
  <2>3. PICK v : v = SAHLR_FLAGS(x.f, r, x.w) OBVIOUS
  <2>4. \A h : h \in v <=> IF h \in {"SF", "ZF", "PF"} THEN h \in ResultFlags(r, x.w) ELSE h \in x.f
    BY <2>3 DEF SAHLR_FLAGS, WithAll, Replaced
  <2>5. DoubleTarget(v, x, n, r, gone) BY <1>5, <2>1, <2>4 DEF DoubleTarget, Kept
  <2>6. TranslatedUnlike(x) = {"SF", "ZF", "PF"} BY <1>8 DEF TranslatedUnlike, DoubleShifts
  <2>7. Xor(v, o.f) \subseteq TranslatedUnlike(x) BY <2>2, <2>4, <2>6 DEF Xor
  <2> QED BY <2>2, <2>5, <2>7
<1>9. n = 0 \/ (n > 0 /\ n <= x.w) \/ (n > x.w /\ x.w = 32) \/ (n > x.w /\ x.w = 16) BY <1>1
<1> QED BY <1>6, <1>7, <1>8, <1>9

\* SHLD.
LEMMA ShldAgrees ==
  ASSUME NEW x, WellFormed(x), x.op = "SHLD", NEW D, D \subseteq Arithmetic
  PROVE  Matched(x, D)
<1>1. PICK n : n = DoubleCount(x) OBVIOUS
<1>2. PICK a : a = x.dst OBVIOUS
<1>3. PICK b : b = x.src OBVIOUS
<1>4. PICK gone \in BOOLEAN : gone = (x.w - n \in a)
  <2>1. (x.w - n \in a) \in BOOLEAN OBVIOUS
  <2> QED BY <2>1, Zenon
<1>5. PICK r0 : r0 = (IF n = x.w THEN b ELSE Shl(a, n, x.w) \cup Shr(b, x.w - n)) OBVIOUS
<1>6. PICK r : r = (IF n = 0 \/ n > x.w THEN x.dst ELSE r0) OBVIOUS
<1>7. PICK o : o = Doubled(x, r0, gone) OBVIOUS
<1>8. Interpreted(x) = o
  <2>1. Interpreted(x) = SHLD(x) BY DEF Interpreted
  <2> QED BY <1>1, <1>2, <1>3, <1>4, <1>5, <1>7, <2>1, Zenon DEF SHLD
<1>9. x.op \in DoubleShifts /\ x.op \notin Divisions BY DEF DoubleShifts, Divisions
<1>10. /\ o.dst = r /\ o.fault = "none"
       /\ \E v : DoubleTarget(v, x, n, r, gone) /\ Xor(v, o.f) \subseteq TranslatedUnlike(x)
  BY <1>1, <1>6, <1>7, <1>9, DoubledFlags
<1>11. PICK v : DoubleTarget(v, x, n, r, gone) /\ Xor(v, o.f) \subseteq TranslatedUnlike(x) BY <1>10
<1>12. RightFlag("SHLD_CF", "CF", x, a, b, n, {}, a, x.f, v, D, {})
  <2>1. "CF" \in v <=> (IF n > 0 /\ n <= x.w THEN x.w - n \in a ELSE "CF" \in x.f) BY <1>4, <1>11 DEF DoubleTarget
  <2>2. "CF" \notin {} OBVIOUS
  <2> QED BY <2>1, <2>2, ShldCarryWord
<1>13. RightFlag("SHXD_OF", "OF", x, a, b, n, r, r, x.f, v, D, {"CF"})
  <2>1. "OF" \in v <=> (IF n = 1 THEN x.w - 1 \in Xor(r, a) ELSE "OF" \in x.f) BY <1>2, <1>11 DEF DoubleTarget
  <2>2. "OF" \notin {"CF"} OBVIOUS
  <2> QED BY <2>1, <2>2, DoubleOverWord
<1>14. \A S : /\ "SF" \notin S => RightFlag("SHIFT_SF", "SF", x, a, b, n, r, r, x.f, v, D, S)
              /\ "ZF" \notin S => RightFlag("SHIFT_ZF", "ZF", x, a, b, n, r, r, x.f, v, D, S)
              /\ "PF" \notin S => RightFlag("SHIFT_PF", "PF", x, a, b, n, r, r, x.f, v, D, S)
  <2>1. "SF" \in v <=> (IF n # 0 /\ (x.w = 32 => n <= 32) THEN x.w - 1 \in r ELSE "SF" \in x.f)
    BY <1>11 DEF DoubleTarget, DoubleTouches
  <2>2. "ZF" \in v <=> (IF n # 0 /\ (x.w = 32 => n <= 32) THEN r = {} ELSE "ZF" \in x.f)
    BY <1>11 DEF DoubleTarget, DoubleTouches
  <2>3. "PF" \in v <=> (IF n # 0 /\ (x.w = 32 => n <= 32) THEN Parity(r) ELSE "PF" \in x.f)
    BY <1>11 DEF DoubleTarget, DoubleTouches
  <2>4. ASSUME NEW S, "SF" \notin S PROVE RightFlag("SHIFT_SF", "SF", x, a, b, n, r, r, x.f, v, D, S)
    BY <2>1, <2>4, ShiftSignWord
  <2>5. ASSUME NEW S, "ZF" \notin S PROVE RightFlag("SHIFT_ZF", "ZF", x, a, b, n, r, r, x.f, v, D, S)
    BY <2>2, <2>5, ShiftZeroWord
  <2>6. ASSUME NEW S, "PF" \notin S PROVE RightFlag("SHIFT_PF", "PF", x, a, b, n, r, r, x.f, v, D, S)
    BY <2>3, <2>6, ShiftParityWord
  <2> QED BY <2>4, <2>5, <2>6
<1>15. ASSUME NEW f PROVE Performed("SHLD", Machine(a, b, n, {}, a, f), x) = Machine(a, b, n, r, a, f)
  <2>1. r = (IF n = 0 \/ n > x.w THEN a ELSE IF n = x.w THEN b ELSE Shl(a, n, x.w) \cup Shr(b, x.w - n)) BY <1>2, <1>5, <1>6
  <2> QED BY <2>1, ShldWord
<1>16. PICK c : c = Machine(a, b, 0, {}, a, x.f) OBVIOUS
<1>17. "SHLD" \in PlainWords /\ "SHXD_OF" \in PlainWords /\ "SHLD_CF" \in PlainWords
  BY DEF PlainWords, ShiftWords, DoubleShifts, ShiftFlagWords
<1>18. Kept(v, x.f, "AF") BY <1>11 DEF DoubleTarget
<1>19. Translates(compile_double("SHLD", "SHLD_CF", "SHXD_OF", D), c, x, r, v, D)
  BY <1>1, <1>9, <1>12, <1>13, <1>14, <1>15, <1>16, <1>17, <1>18, DoubleTranslates
<1>20. Compiled(x, D) = compile_double("SHLD", "SHLD_CF", "SHXD_OF", D) BY DEF Compiled, Divisions
<1>21. Loaded(x) = c BY <1>2, <1>3, <1>9, <1>16, LoadedIs
<1> QED BY <1>8, <1>10, <1>11, <1>19, <1>20, <1>21 DEF Matched

\* SHRD.
LEMMA ShrdAgrees ==
  ASSUME NEW x, WellFormed(x), x.op = "SHRD", NEW D, D \subseteq Arithmetic
  PROVE  Matched(x, D)
<1>1. PICK n : n = DoubleCount(x) OBVIOUS
<1>2. PICK a : a = x.dst OBVIOUS
<1>3. PICK b : b = x.src OBVIOUS
<1>4. PICK gone \in BOOLEAN : gone = (n - 1 \in a)
  <2>1. (n - 1 \in a) \in BOOLEAN OBVIOUS
  <2> QED BY <2>1, Zenon
<1>5. PICK r0 : r0 = (IF n = x.w THEN b ELSE Shr(a, n) \cup Shl(b, x.w - n, x.w)) OBVIOUS
<1>6. PICK r : r = (IF n = 0 \/ n > x.w THEN x.dst ELSE r0) OBVIOUS
<1>7. PICK o : o = Doubled(x, r0, gone) OBVIOUS
<1>8. Interpreted(x) = o
  <2>1. Interpreted(x) = SHRD(x) BY DEF Interpreted
  <2> QED BY <1>1, <1>2, <1>3, <1>4, <1>5, <1>7, <2>1, Zenon DEF SHRD
<1>9. x.op \in DoubleShifts /\ x.op \notin Divisions BY DEF DoubleShifts, Divisions
<1>10. /\ o.dst = r /\ o.fault = "none"
       /\ \E v : DoubleTarget(v, x, n, r, gone) /\ Xor(v, o.f) \subseteq TranslatedUnlike(x)
  BY <1>1, <1>6, <1>7, <1>9, DoubledFlags
<1>11. PICK v : DoubleTarget(v, x, n, r, gone) /\ Xor(v, o.f) \subseteq TranslatedUnlike(x) BY <1>10
<1>12. RightFlag("SHRD_CF", "CF", x, a, b, n, {}, a, x.f, v, D, {})
  <2>1. "CF" \in v <=> (IF n > 0 /\ n <= x.w THEN n - 1 \in a ELSE "CF" \in x.f) BY <1>4, <1>11 DEF DoubleTarget
  <2>2. "CF" \notin {} OBVIOUS
  <2> QED BY <2>1, <2>2, ShrdCarryWord
<1>13. RightFlag("SHXD_OF", "OF", x, a, b, n, r, r, x.f, v, D, {"CF"})
  <2>1. "OF" \in v <=> (IF n = 1 THEN x.w - 1 \in Xor(r, a) ELSE "OF" \in x.f) BY <1>2, <1>11 DEF DoubleTarget
  <2>2. "OF" \notin {"CF"} OBVIOUS
  <2> QED BY <2>1, <2>2, DoubleOverWord
<1>14. \A S : /\ "SF" \notin S => RightFlag("SHIFT_SF", "SF", x, a, b, n, r, r, x.f, v, D, S)
              /\ "ZF" \notin S => RightFlag("SHIFT_ZF", "ZF", x, a, b, n, r, r, x.f, v, D, S)
              /\ "PF" \notin S => RightFlag("SHIFT_PF", "PF", x, a, b, n, r, r, x.f, v, D, S)
  <2>1. "SF" \in v <=> (IF n # 0 /\ (x.w = 32 => n <= 32) THEN x.w - 1 \in r ELSE "SF" \in x.f)
    BY <1>11 DEF DoubleTarget, DoubleTouches
  <2>2. "ZF" \in v <=> (IF n # 0 /\ (x.w = 32 => n <= 32) THEN r = {} ELSE "ZF" \in x.f)
    BY <1>11 DEF DoubleTarget, DoubleTouches
  <2>3. "PF" \in v <=> (IF n # 0 /\ (x.w = 32 => n <= 32) THEN Parity(r) ELSE "PF" \in x.f)
    BY <1>11 DEF DoubleTarget, DoubleTouches
  <2>4. ASSUME NEW S, "SF" \notin S PROVE RightFlag("SHIFT_SF", "SF", x, a, b, n, r, r, x.f, v, D, S)
    BY <2>1, <2>4, ShiftSignWord
  <2>5. ASSUME NEW S, "ZF" \notin S PROVE RightFlag("SHIFT_ZF", "ZF", x, a, b, n, r, r, x.f, v, D, S)
    BY <2>2, <2>5, ShiftZeroWord
  <2>6. ASSUME NEW S, "PF" \notin S PROVE RightFlag("SHIFT_PF", "PF", x, a, b, n, r, r, x.f, v, D, S)
    BY <2>3, <2>6, ShiftParityWord
  <2> QED BY <2>4, <2>5, <2>6
<1>15. ASSUME NEW f PROVE Performed("SHRD", Machine(a, b, n, {}, a, f), x) = Machine(a, b, n, r, a, f)
  <2>1. r = (IF n = 0 \/ n > x.w THEN a ELSE IF n = x.w THEN b ELSE Shr(a, n) \cup Shl(b, x.w - n, x.w)) BY <1>2, <1>5, <1>6
  <2> QED BY <2>1, ShrdWord
<1>16. PICK c : c = Machine(a, b, 0, {}, a, x.f) OBVIOUS
<1>17. "SHRD" \in PlainWords /\ "SHXD_OF" \in PlainWords /\ "SHRD_CF" \in PlainWords
  BY DEF PlainWords, ShiftWords, DoubleShifts, ShiftFlagWords
<1>18. Kept(v, x.f, "AF") BY <1>11 DEF DoubleTarget
<1>19. Translates(compile_double("SHRD", "SHRD_CF", "SHXD_OF", D), c, x, r, v, D)
  BY <1>1, <1>9, <1>12, <1>13, <1>14, <1>15, <1>16, <1>17, <1>18, DoubleTranslates
<1>20. Compiled(x, D) = compile_double("SHRD", "SHRD_CF", "SHXD_OF", D) BY DEF Compiled, Divisions
<1>21. Loaded(x) = c BY <1>2, <1>3, <1>9, <1>16, LoadedIs
<1> QED BY <1>8, <1>10, <1>11, <1>19, <1>20, <1>21 DEF Matched

---------------------------------------------------------------------------
\* A rotation by no bit leaves the word: Shl by 0 and by the whole width.
LEMMA NoRotation ==
  ASSUME NEW w \in Nat, w > 1, NEW a, a \subseteq Positions(w)
  PROVE  /\ Shl(a, 0, w) \cup Shr(a, w - 0) = a
         /\ Shl(a, w - 0, w) \cup Shr(a, 0) = a
<1>1. a \subseteq Nat /\ w - 0 = w BY DEF Positions
<1>2. \A i : i \in Shr(a, 0) <=> i \in Nat /\ i + 0 \in a BY <1>1, ShrBits
<1>3. \A i : i \in Shr(a, w) <=> i \in Nat /\ i + w \in a BY <1>1, ShrBits
<1>4. Shr(a, 0) = a
  <2>1. \A i \in Nat : i + 0 = i OBVIOUS
  <2> QED BY <1>1, <1>2, <2>1
<1>5. Shr(a, w) = {}
  <2>1. \A i \in Nat : i + w \notin a BY DEF Positions
  <2> QED BY <1>3, <2>1
<1>6. Shl(a, 0, w) = a
  <2>1. \A i \in Positions(w) : i - 0 = i BY DEF Positions
  <2>2. \A i : i \in Shl(a, 0, w) <=> i \in Positions(w) /\ i - 0 \in a BY DEF Shl
  <2> QED BY <2>1, <2>2
<1>7. Shl(a, w, w) = {} BY DEF Shl, Positions
<1> QED BY <1>1, <1>4, <1>5, <1>6, <1>7

\* The remainders of the count are numbers.
LEMMA CountIsReduced ==
  ASSUME NEW x, WellFormed(x), NEW n, n = x.n % 32
  PROVE  n % x.w \in Nat /\ n % (x.w + 1) \in Nat
<1>1. n \in Nat BY CountIsSmall
<1>2. x.w \in Nat /\ x.w > 0 BY DEF WellFormed
<1>3. PICK w \in Nat : w = x.w BY <1>2
<1>4. PICK z \in Nat : z = x.w + 1 /\ z > 0 BY <1>2
<1>5. n % w \in 0 .. w - 1 BY <1>1, <1>2, <1>3, NextRemainder
<1>6. n % z \in 0 .. z - 1 BY <1>1, <1>4, NextRemainder
<1>7. \A k : k \in 0 .. w - 1 \/ k \in 0 .. z - 1 => k \in Nat OBVIOUS
<1>8. n % w \in Nat BY <1>5, <1>7
<1>9. n % z \in Nat BY <1>6, <1>7
<1> QED BY <1>3, <1>4, <1>8, <1>9, Zenon

\* RCL.
LEMMA RclAgrees ==
  ASSUME NEW x, WellFormed(x), x.op = "RCL", NEW D, D \subseteq Arithmetic
  PROVE  Matched(x, D)
<1>1. PICK n : n = x.n % 32 OBVIOUS
<1>2. PICK m : m = n % (x.w + 1) OBVIOUS
<1>3. PICK a : a = x.dst OBVIOUS
<1>4. PICK w : w = x.w OBVIOUS
<1>5. w \in Nat /\ w > 1 /\ a \subseteq Positions(w) /\ x.op \notin Divisions
  BY <1>3, <1>4 DEF WellFormed, Divisions
<1>6. m \in Nat BY <1>1, <1>2, CountIsReduced, Zenon
<1>7. PICK f1 : f1 = (IF n = 1 THEN With(x.f, "OF", (w - 1 \in a) # (w - 2 \in a)) ELSE x.f) OBVIOUS
<1>8. PICK r : r = (IF m = 0 THEN a ELSE Shl(a, m, w) \cup Bit("CF" \in x.f, m - 1) \cup Shr(a, w + 1 - m)) OBVIOUS
<1>9. PICK v : v = (IF m = 0 THEN f1 ELSE With(f1, "CF", w - m \in a)) OBVIOUS
<1>10. Interpreted(x) = Outcome(r, v)
  <2>1. Interpreted(x) = RCL(x) BY DEF Interpreted
  <2>2. CASE m = 0 BY <1>1, <1>2, <1>3, <1>4, <1>7, <1>8, <1>9, <2>1, <2>2, Zenon DEF RCL
  <2>3. CASE m # 0 BY <1>1, <1>2, <1>3, <1>4, <1>7, <1>8, <1>9, <2>1, <2>3, Zenon DEF RCL
  <2> QED BY <2>2, <2>3
<1>11. \A h : h \notin {"CF", "OF"} => Kept(v, x.f, h) BY <1>7, <1>9 DEF With, Kept
<1>12. RightFlag("RCL_OF", "OF", x, a, x.src, n, {}, a, x.f, v, D, {})
  <2>1. "OF" \in v <=> (IF n = 1 THEN (x.w - 1 \in a) # (x.w - 2 \in a) ELSE "OF" \in x.f) BY <1>4, <1>7, <1>9 DEF With
  <2>2. "OF" \notin {} OBVIOUS
  <2> QED BY <2>1, <2>2, RclOverWord
<1>13. RightFlag("RCL_CF", "CF", x, a, x.src, m, r, a, x.f, v, D, {"OF"})
  <2>1. "CF" \in v <=> (IF m > 0 THEN x.w - m \in a ELSE "CF" \in x.f) BY <1>4, <1>6, <1>7, <1>9 DEF With
  <2>2. "CF" \notin {"OF"} OBVIOUS
  <2> QED BY <2>1, <2>2, RclCarryWord
<1>14. Moves("RCL", x, a, x.src, n, {}, a, a, x.src, m, r, a, x.f, v, D, {"OF"})
  <2>1. ASSUME NEW f, Agrees(f, x.f, v, D, {"OF"})
        PROVE  Performed("RCL", Machine(a, x.src, n, {}, a, f), x) = Machine(a, x.src, m, r, a, f)
    <3>1. "CF" \in f <=> "CF" \in x.f BY <2>1 DEF Agrees
    <3>2. \A i : Bit("CF" \in f, i) = Bit("CF" \in x.f, i) BY <3>1 DEF Bit
    <3>3. r = (IF m = 0 THEN a ELSE Shl(a, m, x.w) \cup Bit("CF" \in f, m - 1) \cup Shr(a, x.w + 1 - m)) BY <1>4, <1>8, <3>2
    <3>4. IsReduced(m, n, x.w + 1) BY <1>2, Zenon DEF IsReduced
    <3>5. IsRcl(r, m, a, f, x.w) BY <3>3 DEF IsRcl
    <3> QED BY <3>4, <3>5, RclWord
  <2> QED BY <2>1 DEF Moves
<1>15. PICK c : c = Machine(a, x.src, 0, {}, a, x.f) OBVIOUS
<1>16. x.op \notin DoubleShifts /\ "RCL" \in PlainWords /\ "RCL_OF" \in PlainWords /\ "RCL_CF" \in PlainWords
  BY DEF DoubleShifts, PlainWords, ShiftWords, Rotations, ShiftFlagWords
<1>17. Kept(v, x.f, "SF") /\ Kept(v, x.f, "ZF") /\ Kept(v, x.f, "AF") /\ Kept(v, x.f, "PF") BY <1>11
<1>18. Translates(RotationWords("RCL", "RCL_OF", "RCL_CF", D), c, x, r, v, D)
  BY <1>1, <1>12, <1>13, <1>14, <1>15, <1>16, <1>17, RotationTranslates
<1>19. Compiled(x, D) = RotationWords("RCL", "RCL_OF", "RCL_CF", D)
  <2>1. Compiled(x, D) = compile_rcl(D) BY DEF Compiled, Divisions
  <2> QED BY <2>1 DEF compile_rcl, RotationWords
<1>20. Loaded(x) = c BY <1>3, <1>5, <1>15, LoadedIs
<1> QED BY <1>10, <1>18, <1>19, <1>20, MatchedBy

\* RCR.
LEMMA RcrAgrees ==
  ASSUME NEW x, WellFormed(x), x.op = "RCR", NEW D, D \subseteq Arithmetic
  PROVE  Matched(x, D)
<1>1. PICK n : n = x.n % 32 OBVIOUS
<1>2. PICK m : m = n % (x.w + 1) OBVIOUS
<1>3. PICK a : a = x.dst OBVIOUS
<1>4. PICK w : w = x.w OBVIOUS
<1>5. w \in Nat /\ w > 1 /\ a \subseteq Positions(w) /\ x.op \notin Divisions
  BY <1>3, <1>4 DEF WellFormed, Divisions
<1>6. m \in Nat BY <1>1, <1>2, CountIsReduced, Zenon
<1>7. PICK f1 : f1 = (IF n = 1 THEN With(x.f, "OF", (w - 1 \in a) # ("CF" \in x.f)) ELSE x.f) OBVIOUS
<1>8. PICK r : r = (IF m = 0 THEN a ELSE Shr(a, m) \cup Bit("CF" \in x.f, w - m) \cup Shl(a, w + 1 - m, w)) OBVIOUS
<1>9. PICK v : v = (IF m = 0 THEN f1 ELSE With(f1, "CF", m - 1 \in a)) OBVIOUS
<1>10. Interpreted(x) = Outcome(r, v)
  <2>1. Interpreted(x) = RCR(x) BY DEF Interpreted
  <2>2. CASE m = 0 BY <1>1, <1>2, <1>3, <1>4, <1>7, <1>8, <1>9, <2>1, <2>2, Zenon DEF RCR
  <2>3. CASE m # 0 BY <1>1, <1>2, <1>3, <1>4, <1>7, <1>8, <1>9, <2>1, <2>3, Zenon DEF RCR
  <2> QED BY <2>2, <2>3
<1>11. \A h : h \notin {"CF", "OF"} => Kept(v, x.f, h) BY <1>7, <1>9 DEF With, Kept
<1>12. RightFlag("RCR_OF", "OF", x, a, x.src, n, {}, a, x.f, v, D, {})
  <2>1. "OF" \in v <=> (IF n = 1 THEN (x.w - 1 \in a) # ("CF" \in x.f) ELSE "OF" \in x.f) BY <1>4, <1>7, <1>9 DEF With
  <2>2. "OF" \notin {} /\ "CF" \notin {} OBVIOUS
  <2> QED BY <2>1, <2>2, RcrOverWord
<1>13. RightFlag("RCR_CF", "CF", x, a, x.src, m, r, a, x.f, v, D, {"OF"})
  <2>1. "CF" \in v <=> (IF m > 0 THEN m - 1 \in a ELSE "CF" \in x.f) BY <1>4, <1>6, <1>7, <1>9 DEF With
  <2>2. "CF" \notin {"OF"} OBVIOUS
  <2> QED BY <2>1, <2>2, RcrCarryWord
<1>14. Moves("RCR", x, a, x.src, n, {}, a, a, x.src, m, r, a, x.f, v, D, {"OF"})
  <2>1. ASSUME NEW f, Agrees(f, x.f, v, D, {"OF"})
        PROVE  Performed("RCR", Machine(a, x.src, n, {}, a, f), x) = Machine(a, x.src, m, r, a, f)
    <3>1. "CF" \in f <=> "CF" \in x.f BY <2>1 DEF Agrees
    <3>2. \A i : Bit("CF" \in f, i) = Bit("CF" \in x.f, i) BY <3>1 DEF Bit
    <3>3. r = (IF m = 0 THEN a ELSE Shr(a, m) \cup Bit("CF" \in f, x.w - m) \cup Shl(a, x.w + 1 - m, x.w)) BY <1>4, <1>8, <3>2
    <3>4. IsReduced(m, n, x.w + 1) BY <1>2, Zenon DEF IsReduced
    <3>5. IsRcr(r, m, a, f, x.w) BY <3>3 DEF IsRcr
    <3> QED BY <3>4, <3>5, RcrWord
  <2> QED BY <2>1 DEF Moves
<1>15. PICK c : c = Machine(a, x.src, 0, {}, a, x.f) OBVIOUS
<1>16. x.op \notin DoubleShifts /\ "RCR" \in PlainWords /\ "RCR_OF" \in PlainWords /\ "RCR_CF" \in PlainWords
  BY DEF DoubleShifts, PlainWords, ShiftWords, Rotations, ShiftFlagWords
<1>17. Kept(v, x.f, "SF") /\ Kept(v, x.f, "ZF") /\ Kept(v, x.f, "AF") /\ Kept(v, x.f, "PF") BY <1>11
<1>18. Translates(RotationWords("RCR", "RCR_OF", "RCR_CF", D), c, x, r, v, D)
  BY <1>1, <1>12, <1>13, <1>14, <1>15, <1>16, <1>17, RotationTranslates
<1>19. Compiled(x, D) = RotationWords("RCR", "RCR_OF", "RCR_CF", D)
  <2>1. Compiled(x, D) = compile_rcr(D) BY DEF Compiled, Divisions
  <2> QED BY <2>1 DEF compile_rcr, RotationWords
<1>20. Loaded(x) = c BY <1>3, <1>5, <1>15, LoadedIs
<1> QED BY <1>10, <1>18, <1>19, <1>20, MatchedBy

\* ROL.
LEMMA RolAgrees ==
  ASSUME NEW x, WellFormed(x), x.op = "ROL", NEW D, D \subseteq Arithmetic
  PROVE  Matched(x, D)
<1>1. PICK n : n = x.n % 32 OBVIOUS
<1>2. PICK m : m = n % x.w OBVIOUS
<1>3. PICK a : a = x.dst OBVIOUS
<1>4. PICK w : w = x.w OBVIOUS
<1>5. w \in Nat /\ w > 1 /\ a \subseteq Positions(w) /\ x.op \notin Divisions
  BY <1>3, <1>4 DEF WellFormed, Divisions
<1>6. m \in Nat BY <1>1, <1>2, CountIsReduced, Zenon
<1>7. PICK f1 : f1 = (IF n = 1 THEN With(x.f, "OF", (w - 1 \in a) # (w - 2 \in a)) ELSE x.f) OBVIOUS
<1>8. PICK r : r = (IF m > 0 THEN Shl(a, m, w) \cup Shr(a, w - m) ELSE a) OBVIOUS
<1>9. PICK v : v = (With(f1, "CF", 0 \in r)) OBVIOUS
<1>10. Interpreted(x) = Outcome(r, v)
  <2>1. Interpreted(x) = ROL(x) BY DEF Interpreted
  <2> QED BY <1>1, <1>2, <1>3, <1>4, <1>7, <1>8, <1>9, <2>1, Zenon DEF ROL
<1>11. \A h : h \notin {"CF", "OF"} => Kept(v, x.f, h) BY <1>7, <1>9 DEF With, Kept
<1>12. RightFlag("SHL_OF", "OF", x, a, x.src, n, {}, a, x.f, v, D, {})
  <2>1. "OF" \in v <=> (IF n = 1 THEN (x.w - 1 \in a) # (x.w - 2 \in a) ELSE "OF" \in x.f) BY <1>4, <1>7, <1>9 DEF With
  <2>2. "OF" \notin {} OBVIOUS
  <2> QED BY <2>1, <2>2, ShlOverWord
<1>13. RightFlag("ROL_CF", "CF", x, a, x.src, m, r, a, x.f, v, D, {"OF"})
  <2>1. "CF" \in v <=> (0 \in r) BY <1>4, <1>9 DEF With
  <2>2. "CF" \notin {"OF"} OBVIOUS
  <2> QED BY <2>1, <2>2, RolCarryWord
<1>14. Moves("ROL", x, a, x.src, n, {}, a, a, x.src, m, r, a, x.f, v, D, {"OF"})
  <2>1. r = Shl(a, m, x.w) \cup Shr(a, x.w - m)
    <3>1. CASE m = 0 BY <1>4, <1>5, <1>8, <3>1, NoRotation
    <3>2. CASE m > 0 BY <1>4, <1>8, <3>2
    <3> QED BY <1>6, <3>1, <3>2
  <2>2. ASSUME NEW f
        PROVE  Performed("ROL", Machine(a, x.src, n, {}, a, f), x) = Machine(a, x.src, m, r, a, f)
    <3>1. IsReduced(m, n, x.w) BY <1>2, Zenon DEF IsReduced
    <3>2. IsRol(r, m, a, f, x.w) BY <2>1 DEF IsRol
    <3> QED BY <3>1, <3>2, RolWord
  <2> QED BY <2>2 DEF Moves
<1>15. PICK c : c = Machine(a, x.src, 0, {}, a, x.f) OBVIOUS
<1>16. x.op \notin DoubleShifts /\ "ROL" \in PlainWords /\ "SHL_OF" \in PlainWords /\ "ROL_CF" \in PlainWords
  BY DEF DoubleShifts, PlainWords, ShiftWords, Rotations, ShiftFlagWords
<1>17. Kept(v, x.f, "SF") /\ Kept(v, x.f, "ZF") /\ Kept(v, x.f, "AF") /\ Kept(v, x.f, "PF") BY <1>11
<1>18. Translates(RotationWords("ROL", "SHL_OF", "ROL_CF", D), c, x, r, v, D)
  BY <1>1, <1>12, <1>13, <1>14, <1>15, <1>16, <1>17, RotationTranslates
<1>19. Compiled(x, D) = RotationWords("ROL", "SHL_OF", "ROL_CF", D)
  <2>1. Compiled(x, D) = compile_rol(D) BY DEF Compiled, Divisions
  <2> QED BY <2>1 DEF compile_rol, RotationWords
<1>20. Loaded(x) = c BY <1>3, <1>5, <1>15, LoadedIs
<1> QED BY <1>10, <1>18, <1>19, <1>20, MatchedBy

\* ROR.
LEMMA RorAgrees ==
  ASSUME NEW x, WellFormed(x), x.op = "ROR", NEW D, D \subseteq Arithmetic
  PROVE  Matched(x, D)
<1>1. PICK n : n = x.n % 32 OBVIOUS
<1>2. PICK m : m = n % x.w OBVIOUS
<1>3. PICK a : a = x.dst OBVIOUS
<1>4. PICK w : w = x.w OBVIOUS
<1>5. w \in Nat /\ w > 1 /\ a \subseteq Positions(w) /\ x.op \notin Divisions
  BY <1>3, <1>4 DEF WellFormed, Divisions
<1>6. m \in Nat BY <1>1, <1>2, CountIsReduced, Zenon
<1>7. PICK f1 : f1 = (IF n = 1 THEN With(x.f, "OF", (w - 1 \in a) # (0 \in a)) ELSE x.f) OBVIOUS
<1>8. PICK r : r = (IF m > 0 THEN Shl(a, w - m, w) \cup Shr(a, m) ELSE a) OBVIOUS
<1>9. PICK v : v = (With(f1, "CF", w - 1 \in r)) OBVIOUS
<1>10. Interpreted(x) = Outcome(r, v)
  <2>1. Interpreted(x) = ROR(x) BY DEF Interpreted
  <2> QED BY <1>1, <1>2, <1>3, <1>4, <1>7, <1>8, <1>9, <2>1, Zenon DEF ROR
<1>11. \A h : h \notin {"CF", "OF"} => Kept(v, x.f, h) BY <1>7, <1>9 DEF With, Kept
<1>12. RightFlag("ROR_OF", "OF", x, a, x.src, n, {}, a, x.f, v, D, {})
  <2>1. "OF" \in v <=> (IF n = 1 THEN (x.w - 1 \in a) # (0 \in a) ELSE "OF" \in x.f) BY <1>4, <1>7, <1>9 DEF With
  <2>2. "OF" \notin {} OBVIOUS
  <2> QED BY <2>1, <2>2, RorOverWord
<1>13. RightFlag("ROR_CF", "CF", x, a, x.src, m, r, a, x.f, v, D, {"OF"})
  <2>1. "CF" \in v <=> (x.w - 1 \in r) BY <1>4, <1>9 DEF With
  <2>2. "CF" \notin {"OF"} OBVIOUS
  <2> QED BY <2>1, <2>2, RorCarryWord
<1>14. Moves("ROR", x, a, x.src, n, {}, a, a, x.src, m, r, a, x.f, v, D, {"OF"})
  <2>1. r = Shl(a, x.w - m, x.w) \cup Shr(a, m)
    <3>1. CASE m = 0 BY <1>4, <1>5, <1>8, <3>1, NoRotation
    <3>2. CASE m > 0 BY <1>4, <1>8, <3>2
    <3> QED BY <1>6, <3>1, <3>2
  <2>2. ASSUME NEW f
        PROVE  Performed("ROR", Machine(a, x.src, n, {}, a, f), x) = Machine(a, x.src, m, r, a, f)
    <3>1. IsReduced(m, n, x.w) BY <1>2, Zenon DEF IsReduced
    <3>2. IsRor(r, m, a, f, x.w) BY <2>1 DEF IsRor
    <3> QED BY <3>1, <3>2, RorWord
  <2> QED BY <2>2 DEF Moves
<1>15. PICK c : c = Machine(a, x.src, 0, {}, a, x.f) OBVIOUS
<1>16. x.op \notin DoubleShifts /\ "ROR" \in PlainWords /\ "ROR_OF" \in PlainWords /\ "ROR_CF" \in PlainWords
  BY DEF DoubleShifts, PlainWords, ShiftWords, Rotations, ShiftFlagWords
<1>17. Kept(v, x.f, "SF") /\ Kept(v, x.f, "ZF") /\ Kept(v, x.f, "AF") /\ Kept(v, x.f, "PF") BY <1>11
<1>18. Translates(RotationWords("ROR", "ROR_OF", "ROR_CF", D), c, x, r, v, D)
  BY <1>1, <1>12, <1>13, <1>14, <1>15, <1>16, <1>17, RotationTranslates
<1>19. Compiled(x, D) = RotationWords("ROR", "ROR_OF", "ROR_CF", D)
  <2>1. Compiled(x, D) = compile_ror(D) BY DEF Compiled, Divisions
  <2> QED BY <2>1 DEF compile_ror, RotationWords
<1>20. Loaded(x) = c BY <1>3, <1>5, <1>15, LoadedIs
<1> QED BY <1>10, <1>18, <1>19, <1>20, MatchedBy

---------------------------------------------------------------------------
(* Every list at once, and the specification.                              *)

\* Whatever the instruction and whichever flags are wanted, its words leave
\* what its macro leaves; products and quotients apart.
LEMMA EveryListMatches ==
  ASSUME NEW x, WellFormed(x), x.op \notin Products \cup Divisions, NEW D, D \subseteq Arithmetic
  PROVE  Matched(x, D)
<1>1. x.op \in {"SHL", "SHR", "SAR", "ROL", "ROR", "RCL", "RCR", "SHLD", "SHRD", "ADD", "ADC",
                "INC", "SUB", "SBB", "CMP", "DEC", "NEG"}
  BY DEF WellFormed, Shifts, Rotations, DoubleShifts, Additions, Subtractions
<1>2. CASE x.op = "SHL" BY <1>2, ShlAgrees
<1>3. CASE x.op = "SHR" BY <1>3, ShrAgrees
<1>4. CASE x.op = "SAR" BY <1>4, SarAgrees
<1>5. CASE x.op = "ROL" BY <1>5, RolAgrees
<1>6. CASE x.op = "ROR" BY <1>6, RorAgrees
<1>7. CASE x.op = "RCL" BY <1>7, RclAgrees
<1>8. CASE x.op = "RCR" BY <1>8, RcrAgrees
<1>9. CASE x.op = "SHLD" BY <1>9, ShldAgrees
<1>10. CASE x.op = "SHRD" BY <1>10, ShrdAgrees
<1>11. CASE x.op \in {"ADD", "ADC"} BY <1>11, AddAgrees
<1>12. CASE x.op = "INC" BY <1>12, IncAgrees
<1>13. CASE x.op \in {"SUB", "SBB", "CMP"} BY <1>13, SubAgrees
<1>14. CASE x.op = "DEC" BY <1>14, DecAgrees
<1>15. CASE x.op = "NEG" BY <1>15, NegAgrees
<1> QED
  BY <1>1, <1>2, <1>3, <1>4, <1>5, <1>6, <1>7, <1>8, <1>9, <1>10, <1>11, <1>12, <1>13, <1>14, <1>15

\* No word but a division touches the fault.
KeepsFault(c, e) == "fault" \in DOMAIN c => "fault" \in DOMAIN e /\ e.fault = c.fault

\* Setting a flag keeps it.
LEMMA FlagsKeepFault ==
  ASSUME NEW c, NEW g, NEW b, NEW cond
  PROVE  KeepsFault(c, SetF(c, g, b)) /\ KeepsFault(c, SetWhen(c, cond, g, b))
<1>1. KeepsFault(c, SetF(c, g, b)) BY DEF KeepsFault, SetF
<1>2. KeepsFault(c, c) BY DEF KeepsFault
<1> QED BY <1>1, <1>2 DEF SetWhen

\* Setting a register keeps it.
LEMMA RegistersKeepFault ==
  ASSUME NEW c, NEW m, NEW k
  PROVE  /\ KeepsFault(c, [c EXCEPT !.res = k]) /\ KeepsFault(c, [c EXCEPT !.count = m])
         /\ KeepsFault(c, [c EXCEPT !.op1 = k]) /\ KeepsFault(c, [c EXCEPT !.dst = k])
         /\ KeepsFault(c, [c EXCEPT !.count = m, !.res = k])
         /\ KeepsFault(c, [c EXCEPT !.op1 = k, !.op0 = m])
BY DEF KeepsFault

\* The flag words of shifts keep it.
LEMMA FlagWordsKeepFault ==
  ASSUME NEW c, NEW w, NEW word \in ShiftFlagWords
  PROVE  KeepsFault(c, ShiftFlagWord(word, c, w))
<1>1. PICK n : n = c.count OBVIOUS
<1>2. \A g, b, cond : KeepsFault(c, SetF(c, g, b)) /\ KeepsFault(c, SetWhen(c, cond, g, b)) BY FlagsKeepFault
<1> QED BY <1>2 DEF ShiftFlagWord, ShiftFlagWords

\* The flag words of sums, differences and products keep it.
LEMMA ArithmeticFlagWordsKeepFault ==
  ASSUME NEW c, NEW w, NEW word \in ArithmeticFlagWords
  PROVE  KeepsFault(c, ArithmeticFlagWord(word, c, w))
<1>1. \A g, b : KeepsFault(c, SetF(c, g, b)) BY FlagsKeepFault
<1>2. \A b : KeepsFault(c, SetF(SetF(c, "CF", b), "OF", b))
  <2>1. \A b : LET e == SetF(c, "CF", b) IN KeepsFault(c, e) /\ KeepsFault(e, SetF(e, "OF", b)) BY FlagsKeepFault
  <2> QED BY <2>1 DEF KeepsFault
<1> QED BY <1>1, <1>2 DEF ArithmeticFlagWord, ArithmeticFlagWords

\* The words that shift keep it.
LEMMA ShiftWordsKeepFault ==
  ASSUME NEW c, NEW w, NEW word \in ShiftWords
  PROVE  KeepsFault(c, ShiftWord(word, c, w))
<1>1. /\ \A k : KeepsFault(c, [c EXCEPT !.res = k])
      /\ \A m, k : KeepsFault(c, [c EXCEPT !.count = m, !.res = k])
  BY RegistersKeepFault
<1> QED BY <1>1 DEF ShiftWord, ShiftWords, Shifts, Rotations, DoubleShifts

\* Every word but a division keeps it.
LEMMA PlainWordsKeepFault ==
  ASSUME NEW x, NEW c, NEW word \in PlainWords
  PROVE  KeepsFault(c, Performed(word, c, x))
<1>0. PICK w : w = x.w OBVIOUS
<1>1. CASE word \in ShiftWords
  <2>1. Performed(word, c, x) = ShiftWord(word, c, w) BY <1>0, <1>1, WordKinds
  <2>2. KeepsFault(c, ShiftWord(word, c, w)) BY <1>1, ShiftWordsKeepFault
  <2> QED BY <2>1, <2>2
<1>2. CASE word \in ShiftFlagWords
  <2>1. Performed(word, c, x) = ShiftFlagWord(word, c, w) BY <1>0, <1>2, WordKinds
  <2>2. KeepsFault(c, ShiftFlagWord(word, c, w)) BY <1>2, FlagWordsKeepFault
  <2> QED BY <2>1, <2>2
<1>3. CASE word \in ArithmeticFlagWords
  <2>1. Performed(word, c, x) = ArithmeticFlagWord(word, c, w) BY <1>0, <1>3, WordKinds
  <2>2. KeepsFault(c, ArithmeticFlagWord(word, c, w)) BY <1>3, ArithmeticFlagWordsKeepFault
  <2> QED BY <2>1, <2>2
<1>4. CASE word = "SET_COUNT"
  <2>1. Performed(word, c, x) = SET_COUNT(c, x) BY <1>4, WordKinds
  <2>2. KeepsFault(c, SET_COUNT(c, x)) BY RegistersKeepFault DEF SET_COUNT
  <2> QED BY <2>1, <2>2
<1>5. CASE word \in {"SET_1_OP1", "OP0_OP1_0_OP0", "ADD", "ADC", "SUB", "SBB", "WRITE_RES"}
  <2>1. Performed(word, c, x) = ArithmeticWord(word, c, x.w, x) BY <1>5, WordKinds
  <2>2. KeepsFault(c, ArithmeticWord(word, c, x.w, x)) BY <1>5, RegistersKeepFault DEF ArithmeticWord
  <2> QED BY <2>1, <2>2
<1> QED BY <1>1, <1>2, <1>3, <1>4, <1>5 DEF PlainWords

\* The machine after the first n words of P.
RanTo(P, n, c, e, x) ==
  \E cs : /\ cs[0] = c /\ cs[n] = e
          /\ \A i \in 1 .. n : cs[i] = Performed(P[i], cs[i - 1], x)

\* Before the first word.
LEMMA RanNone ==
  ASSUME NEW P, NEW c, NEW x
  PROVE  RanTo(P, 0, c, c, x)
<1>1. PICK cs : cs = [i \in {0} |-> c] OBVIOUS
<1>2. cs[0] = c /\ 1 .. 0 = {} BY <1>1
<1> QED BY <1>2 DEF RanTo

\* After the first word.
LEMMA RanOne ==
  ASSUME NEW P, NEW c, NEW e, NEW x, RanTo(P, 1, c, e, x)
  PROVE  e = Performed(P[1], c, x)
<1>1. PICK cs : cs[0] = c /\ cs[1] = e /\ \A i \in 1 .. 1 : cs[i] = Performed(P[i], cs[i - 1], x)
  BY DEF RanTo
<1>2. 1 \in 1 .. 1 /\ 1 - 1 = 0 OBVIOUS
<1>3. cs[1] = Performed(P[1], cs[1 - 1], x) BY <1>1, <1>2
<1> QED BY <1>1, <1>2, <1>3

\* After one word more.
LEMMA RanNext ==
  ASSUME NEW P, NEW n \in Nat, NEW c, NEW e, NEW x, RanTo(P, n, c, e, x)
  PROVE  RanTo(P, n + 1, c, Performed(P[n + 1], e, x), x)
<1>1. PICK cs : cs[0] = c /\ cs[n] = e /\ \A i \in 1 .. n : cs[i] = Performed(P[i], cs[i - 1], x)
  BY DEF RanTo
<1>2. PICK g : g = Performed(P[n + 1], e, x) OBVIOUS
<1>3. PICK ds : ds = [i \in 0 .. n + 1 |-> IF i = n + 1 THEN g ELSE cs[i]] OBVIOUS
<1>4. ds[0] = c /\ ds[n + 1] = g BY <1>1, <1>3
<1>5. ASSUME NEW i \in 1 .. n + 1 PROVE ds[i] = Performed(P[i], ds[i - 1], x)
  <2>1. i - 1 \in 0 .. n + 1 /\ i - 1 # n + 1 /\ i \in 0 .. n + 1 OBVIOUS
  <2>2. ds[i - 1] = cs[i - 1] BY <1>3, <2>1
  <2>3. CASE i = n + 1
    <3>1. i - 1 = n BY <2>3
    <3> QED BY <1>1, <1>2, <1>4, <2>2, <2>3, <3>1
  <2>4. CASE i # n + 1
    <3>1. i \in 1 .. n BY <2>4
    <3>2. ds[i] = cs[i] BY <1>3, <2>1, <2>4
    <3>3. cs[i] = Performed(P[i], cs[i - 1], x) BY <1>1, <3>1
    <3> QED BY <2>2, <3>2, <3>3
  <2> QED BY <2>3, <2>4
<1> QED BY <1>2, <1>4, <1>5 DEF RanTo

\* pc words but one have run, on the machine Loaded makes; none has set a fault
\* but a division.
JitInv ==
  /\ OutInv
  /\ pc = 0 => cpu = Loaded(insn)
  /\ pc > 0 => /\ pc - 1 = 0 \/ pc - 1 \in 1 .. Len(Compiled(insn, need))
               /\ RanTo(Compiled(insn, need), pc - 1, Loaded(insn), cpu, insn)
  /\ insn.op \notin Products \cup Divisions => "fault" \in DOMAIN cpu /\ cpu.fault = "none"

\* The invariant holds before the interpreter has run.
LEMMA JitInit == Init => JitInv
<1> SUFFICES ASSUME Init PROVE JitInv OBVIOUS
<1>1. OutInv BY DEF Init, OutInv
<1>2. cpu = Loaded(insn) /\ pc = 0 BY DEF Init
<1>3. "fault" \in DOMAIN Loaded(insn) /\ Loaded(insn).fault = "none" BY DEF Loaded
<1> QED BY <1>1, <1>2, <1>3 DEF JitInv

\* Every word keeps it.
LEMMA JitNext == JitInv /\ [Next]_vars => JitInv'
<1> SUFFICES ASSUME JitInv, [Next]_vars PROVE JitInv' OBVIOUS
<1>1. CASE Interpret
  <2>1. OutInv' BY <1>1 DEF Interpret, JitInv, OutInv
  <2>2. pc' = 1 /\ cpu' = Loaded(insn) /\ insn' = insn /\ need' = need BY <1>1 DEF Interpret, JitInv
  <2>3. PICK P : P = Compiled(insn, need) OBVIOUS
  <2>4. P = Compiled(insn, need)' BY <2>2, <2>3
  <2>5. RanTo(P, 0, Loaded(insn), cpu', insn) BY <2>2, RanNone
  <2>6. pc' - 1 = 0 BY <2>2
  <2>7. (RanTo(Compiled(insn, need), pc - 1, Loaded(insn), cpu, insn))' BY <2>2, <2>4, <2>5, <2>6
  <2>8. (insn.op \notin Products \cup Divisions => "fault" \in DOMAIN cpu /\ cpu.fault = "none")'
    BY <1>1 DEF Interpret, JitInv
  <2> QED BY <2>1, <2>2, <2>6, <2>7, <2>8 DEF JitInv
<1>2. CASE ExecuteWord
  <2>1. OutInv' BY <1>2 DEF ExecuteWord, JitInv, OutInv
  <2>2. PICK P : P = Compiled(insn, need) OBVIOUS
  <2>3. /\ pc \in 1 .. Len(P) /\ cpu' = Performed(P[pc], cpu, insn) /\ pc' = pc + 1
        /\ insn' = insn /\ need' = need
    BY <1>2, <2>2 DEF ExecuteWord
  <2>4. P = Compiled(insn, need)' BY <2>2, <2>3
  <2>5. pc \in Nat /\ pc > 0 BY <2>3 DEF JitInv, OutInv
  <2>6. PICK n \in Nat : n = pc - 1 BY <2>5
  <2>7. pc = n + 1 /\ pc' - 1 = n + 1 BY <2>3, <2>5, <2>6
  <2>8. RanTo(P, n, Loaded(insn), cpu, insn) BY <2>2, <2>5, <2>6 DEF JitInv
  <2>9. RanTo(P, n + 1, Loaded(insn), cpu', insn) BY <2>3, <2>7, <2>8, RanNext
  <2>10. (RanTo(Compiled(insn, need), pc - 1, Loaded(insn), cpu, insn))' BY <2>3, <2>4, <2>7, <2>9
  <2>11. (pc - 1 \in 1 .. Len(Compiled(insn, need)))' BY <2>3, <2>4, <2>7
  <2>12. ASSUME insn.op \notin Products \cup Divisions
         PROVE  "fault" \in DOMAIN cpu' /\ cpu'.fault = "none"
    <3>1. "fault" \in DOMAIN cpu /\ cpu.fault = "none" BY <2>12 DEF JitInv
    <3>2. WellFormed(insn) /\ need \subseteq Arithmetic BY AluInputs DEF JitInv, OutInv
    <3>3. P \in Seq(PlainWords) BY <2>2, <2>12, <3>2, EveryListMatches DEF Matched, Translates
    <3>4. P[pc] \in PlainWords BY <2>3, <3>3
    <3>5. KeepsFault(cpu, cpu') BY <2>3, <3>4, PlainWordsKeepFault
    <3> QED BY <3>1, <3>5 DEF KeepsFault
  <2> QED BY <2>1, <2>3, <2>10, <2>11, <2>12 DEF JitInv
<1>3. CASE UNCHANGED vars BY <1>3 DEF vars, JitInv, OutInv
<1> QED BY <1>1, <1>2, <1>3 DEF Next

\* The word of a division is the division of the interpreter.
LEMMA DivisionWord ==
  ASSUME NEW x, x.op \in Divisions
  PROVE  LET e == Performed(x.op, Loaded(x), x)
         IN e.dst = Interpreted(x).dst /\ e.f = Interpreted(x).f /\ e.fault = Interpreted(x).fault
<1>0. PICK c : c = Loaded(x) OBVIOUS
<1>1. Performed(x.op, c, x) = Divided(c, Interpreted(x))
  <2>1. Performed(x.op, c, x) = ArithmeticWord(x.op, c, x.w, x) BY WordKinds DEF Divisions
  <2>2. ArithmeticWord(x.op, c, x.w, x) = Divided(c, Interpreted(x))
    <3>1. CASE x.op = "DIV" BY <3>1 DEF ArithmeticWord, Interpreted
    <3>2. CASE x.op = "IDIV" BY <3>2 DEF ArithmeticWord, Interpreted
    <3>3. CASE x.op = "IDIV8" BY <3>3 DEF ArithmeticWord, Interpreted
    <3> QED BY <3>1, <3>2, <3>3 DEF Divisions
  <2> QED BY <2>1, <2>2
<1>2. \E v, f, z : Interpreted(x) = [dst |-> v, f |-> f, fault |-> z]
  <2>1. \A q, r : \E v, f, z : Halves(q, r, x) = [dst |-> v, f |-> f, fault |-> z] BY DEF Halves, Outcome
  <2>2. \E v, f, z : Faults(x) = [dst |-> v, f |-> f, fault |-> z] BY DEF Faults
  <2>3. \A n, d : \E v, f, z : SignedDivision(n, d, x) = [dst |-> v, f |-> f, fault |-> z]
    <3> SUFFICES ASSUME NEW n, NEW d
                 PROVE  \E v, f, z : SignedDivision(n, d, x) = [dst |-> v, f |-> f, fault |-> z]
      OBVIOUS
    <3>1. SignedDivision(n, d, x) = Faults(x)
          \/ \E q, r : SignedDivision(n, d, x) = Halves(q, r, x)
      BY DEF SignedDivision
    <3> QED BY <2>1, <2>2, <3>1
  <2>4. CASE x.op = "DIV"
    <3>1. DIV(x) = Faults(x) \/ \E q, r : DIV(x) = Halves(q, r, x) BY DEF DIV
    <3>2. Interpreted(x) = DIV(x) BY <2>4 DEF Interpreted
    <3> QED BY <2>1, <2>2, <3>1, <3>2
  <2>5. CASE x.op = "IDIV"
    <3>1. Interpreted(x) = IDIV(x) BY <2>5 DEF Interpreted
    <3>2. \E n, d : IDIV(x) = SignedDivision(n, d, x) BY DEF IDIV
    <3> QED BY <2>3, <3>1, <3>2
  <2>6. CASE x.op = "IDIV8"
    <3>1. Interpreted(x) = IDIV8(x) BY <2>6 DEF Interpreted
    <3>2. \E n, d : IDIV8(x) = SignedDivision(n, d, x) BY DEF IDIV8
    <3> QED BY <2>3, <3>1, <3>2
  <2> QED BY <2>4, <2>5, <2>6 DEF Divisions
<1>3. PICK v, f, z : Interpreted(x) = [dst |-> v, f |-> f, fault |-> z] BY <1>2
<1>4. PICK o : o = Interpreted(x) OBVIOUS
<1>5. PICK e : e = Divided(c, o) OBVIOUS
<1>6. e.dst = v /\ e.f = f /\ e.fault = z BY <1>0, <1>3, <1>4, <1>5 DEF Divided, Loaded
<1> QED BY <1>0, <1>1, <1>3, <1>4, <1>5, <1>6

\* All words have run: the division has stopped, or the list is complete.
LEMMA AllWordsHaveRun ==
  ASSUME JitInv, NEW P, P = Compiled(insn, need), Len(P) \in Nat, pc > 0, ~ (pc - 1 < Len(P))
  PROVE  Run(P, Loaded(insn), cpu, insn)
<1>1. pc \in Nat BY DEF JitInv, OutInv
<1>2. pc - 1 = Len(P)  BY <1>1 DEF JitInv
<1>3. RanTo(P, pc - 1, Loaded(insn), cpu, insn) BY DEF JitInv
<1> QED BY <1>2, <1>3 DEF Run, RanTo

\* The translation of every instruction but a product, whichever flag words it
\* leaves out, ends with the word, the fault and the flags that are read, of the
\* macro of the interpreter; the flags in which they are known to differ excepted.
THEOREM TranslationAgrees == Spec => [](insn.op \notin Products => JitAgrees)
<1>1. JitInv => (insn.op \notin Products => JitAgrees)
  <2> SUFFICES ASSUME JitInv, insn.op \notin Products,
                      pc > Len(Compiled(insn, need)) \/ cpu.fault # "none"
               PROVE  /\ cpu.dst = out.dst /\ cpu.fault = out.fault
                      /\ Xor(cpu.f, out.f) \cap need \subseteq TranslatedUnlike(insn)
    BY DEF JitAgrees
  <2>1. pc \in Nat /\ WellFormed(insn) /\ need \subseteq Arithmetic BY AluInputs DEF JitInv, OutInv
  <2>2. PICK P : P = Compiled(insn, need) OBVIOUS
  <2>3. CASE insn.op \in Divisions
    <3>1. P = <<insn.op>> BY <2>2, <2>3 DEF Compiled, Divisions
    <3>2. Len(P) = 1 /\ P[1] = insn.op BY <3>1
    <3>3. Loaded(insn).fault = "none" BY DEF Loaded
    <3>4. pc > 0 BY <2>1, <2>2, <3>2, <3>3 DEF JitInv
    <3>5. pc # 1
      <4>1. ASSUME pc = 1 PROVE cpu = Loaded(insn)
        <5>1. RanTo(P, 0, Loaded(insn), cpu, insn) BY <2>2, <3>4, <4>1 DEF JitInv
        <5> QED BY <5>1 DEF RanTo
      <4> QED BY <2>2, <3>2, <3>3, <4>1
    <3>6. pc - 1 = 1 BY <2>1, <2>2, <3>2, <3>4, <3>5 DEF JitInv
    <3>7. RanTo(P, 1, Loaded(insn), cpu, insn) BY <2>2, <3>4, <3>6 DEF JitInv
    <3>8. cpu = Performed(insn.op, Loaded(insn), insn) BY <3>2, <3>7, RanOne
    <3>9. out = Interpreted(insn) BY <3>4 DEF JitInv, OutInv
    <3>10. cpu.dst = out.dst /\ cpu.f = out.f /\ cpu.fault = out.fault
      BY <2>3, <3>8, <3>9, DivisionWord
    <3> QED BY <3>10 DEF Xor
  <2>4. CASE insn.op \notin Divisions
    <3>1. cpu.fault = "none" BY <2>4 DEF JitInv
    <3>2. PICK v : /\ Translates(P, Loaded(insn), insn, Interpreted(insn).dst, v, need)
                   /\ Xor(v, Interpreted(insn).f) \subseteq TranslatedUnlike(insn)
                   /\ Interpreted(insn).fault = "none"
      BY <2>1, <2>2, <2>4, EveryListMatches DEF Matched
    <3>3. Len(P) \in Nat BY <3>2 DEF Translates
    <3>4. pc > 0 /\ ~ (pc - 1 < Len(P)) BY <2>1, <2>2, <3>1, <3>3
    <3>5. Run(P, Loaded(insn), cpu, insn) BY <2>2, <3>3, <3>4, AllWordsHaveRun
    <3>6. Leaves(cpu, Interpreted(insn).dst, v, need) BY <3>2, <3>5 DEF Translates
    <3>7. out = Interpreted(insn) BY <3>4 DEF JitInv, OutInv
    <3>8. cpu.dst = out.dst /\ cpu.fault = out.fault BY <3>2, <3>6, <3>7 DEF Leaves
    <3>9. Xor(cpu.f, v) \cap need = {} BY <3>6 DEF Leaves
    <3>10. Xor(cpu.f, out.f) \cap need \subseteq Xor(v, out.f) BY <3>9 DEF Xor
    <3> QED BY <3>2, <3>7, <3>8, <3>10
  <2> QED BY <2>3, <2>4
<1> QED BY <1>1, JitInit, JitNext, PTL DEF Spec

=============================================================================
