--------------------------- MODULE SegmentLimits ---------------------------
(***************************************************************************)
(* The checks of both engines on offsets, as numbers: limits of segments,  *)
(* the ends of the stack and the I/O permission bitmap, with the unsigned  *)
(* arithmetic of C.  What a failing check does to the handler it is in is  *)
(* in Operands and JitTransfers; here is when it fails.                    *)
(*                                                                         *)
(* The functions of jit.c and interpreter.c are the same but for pops in   *)
(* real mode.  The theorems hold for words of any size.                    *)
(***************************************************************************)
EXTENDS Integers, TLAPS

CONSTANTS Offsets,  \* how many values uint32_t has
          Half,     \* how many values uint16_t has
          Page      \* bytes in a unit of a granular limit

Words == /\ Half \in Nat /\ Offsets \in Nat /\ Page \in Nat
         /\ 16 <= Page /\ Page < Half /\ Half < Offsets

\* Bytes in an operand of the memory functions.
Widths == {1, 2, 4, 8, 16}

Wrap(n) == n % Offsets

\* The hidden part of a segment register, with the register it is in.
Segment == [reg : {"CS", "SS", "DS"},
            firstb : 0 .. Offsets - 1, lastb : 0 .. Offsets - 1,
            is32 : BOOLEAN, isnull : BOOLEAN,
            readable : BOOLEAN, writable : BOOLEAN, executable : BOOLEAN]

-----------------------------------------------------------------------------
(* Loading a segment register.                                             *)

\* The limit field of a descriptor, in bytes or in units of 4 kB; it has as many
\* bits as a granular limit needs.
elimit(limit, granular) == IF granular THEN limit * Page + (Page - 1) ELSE limit

\* A descriptor of code or data.
Descriptor == [limit : Nat, granular : BOOLEAN, b : BOOLEAN, code : BOOLEAN, rw : BOOLEAN]

\* The test for segments that expand down, (stype&0x1C) == 0x04, asks for a
\* descriptor of the system, which nobody loads here: every segment expands up.
load_segment_descriptor(seg, null, desc) ==
  [reg |-> seg.reg, firstb |-> 0, lastb |-> elimit(desc.limit, desc.granular),
   is32 |-> desc.b, isnull |-> null, readable |-> ~desc.code \/ desc.rw,
   writable |-> ~desc.code /\ desc.rw, executable |-> desc.code]

\* Outside protected mode only CS gets its limit back: the others keep the one
\* they had in protected mode.
set_sreg_real(seg) ==
  IF seg.reg = "CS"
  THEN [seg EXCEPT !.firstb = 0, !.lastb = Half - 1, !.is32 = FALSE, !.isnull = FALSE,
                   !.readable = TRUE, !.writable = TRUE, !.executable = TRUE]
  ELSE [seg EXCEPT !.firstb = 0]

-----------------------------------------------------------------------------
(* The memory functions: "passes", or the exception they raise, with (0)   *)
(* where it has an error code.                                             *)

Beyond(seg, offset, n) == offset < seg.firstb \/ offset > Wrap(seg.lastb - (n - 1))

\* Outside protected mode words are checked as bytes are.
BeyondReal(seg, offset, n) == Beyond(seg, offset, IF n = 2 THEN 1 ELSE n)

Checked(denied, misaligned, beyond, limit) ==
  IF denied THEN "GP(0)"
  ELSE IF misaligned THEN "AC"
  ELSE IF beyond THEN limit ELSE "passes"

LimitFault(seg) == IF seg.reg = "SS" THEN "SS(0)" ELSE "GP(0)"
LimitFaultReal(seg) == IF seg.reg = "SS" THEN "SS" ELSE "GP"

\* ac: CR0.AM, EFLAGS.AC and CPL 3.
Misaligned(offset, n, ac) == ac /\ offset % n # 0

\* 8, 16 and 32 bits; wider reads are of data only and exempt no register.
mem_read_protected(seg, offset, n, data, ac) ==
  Checked(\/ seg.isnull /\ ~(n <= 4 /\ data /\ seg.reg \in {"SS", "CS"})
          \/ data /\ ~seg.readable
          \/ ~data /\ ~seg.executable,
          Misaligned(offset, n, ac), Beyond(seg, offset, n), LimitFault(seg))

\* 128 bits for SSE: a misaligned operand is #GP(0) at any level.
mem_read128_sse_protected(seg, offset) ==
  Checked(seg.isnull \/ ~seg.readable \/ offset % 16 # 0, FALSE,
          Beyond(seg, offset, 16), LimitFault(seg))

mem_write_protected(seg, offset, n, ac) ==
  Checked(seg.isnull \/ ~seg.writable,
          Misaligned(offset, n, ac), Beyond(seg, offset, n), LimitFault(seg))

mem_read128_sse_real(seg, offset) ==
  IF offset % 16 # 0 THEN "GP"
  ELSE Checked(FALSE, FALSE, Beyond(seg, offset, 16), LimitFaultReal(seg))

mem_read_real(seg, offset, n) ==
  Checked(FALSE, FALSE, BeyondReal(seg, offset, n), LimitFaultReal(seg))

mem_write_real(seg, offset, n) == mem_read_real(seg, offset, n)

\* The functions update_mem_callbacks installs; virtual-8086 mode has none of
\* its own.
mem_read(protected, seg, offset, n, data, ac) ==
  IF protected THEN mem_read_protected(seg, offset, n, data, ac)
               ELSE mem_read_real(seg, offset, n)
mem_write(protected, seg, offset, n, ac) ==
  IF protected THEN mem_write_protected(seg, offset, n, ac)
               ELSE mem_write_real(seg, offset, n)

-----------------------------------------------------------------------------
(* The stack.  sp is ESP or SP, as SS.is32 says; the upper half of ESP is  *)
(* left alone in the second case.                                          *)

Stack(ss) == IF ss.is32 THEN Offsets ELSE Half

\* push16, push32: n is 2 or 4.
Below(ss, sp, n) == (sp - n) % Stack(ss)
PushPasses(ss, sp, n) == ~Beyond(ss, Below(ss, sp, n), n)
Pushed(ss, sp, n) == Below(ss, sp, n)

\* pop16, pop32 of the interpreter, and of the JIT in protected mode: of the
\* operand its last byte is checked.
LastByte(ss, sp, n) == (sp + n - 1) % Stack(ss)
PopPasses(ss, sp, n) ==
  ~(LastByte(ss, sp, n) < ss.firstb \/ LastByte(ss, sp, n) > ss.lastb)
Popped(ss, sp, n) == (sp + n) % Stack(ss)

\* pop16_nonprotected, pop32_nonprotected of the JIT: no limit, 64 kB.
PopPassesNonprotected(sp, n) == ~(sp > Half - n)

-----------------------------------------------------------------------------
(* check_io_permission_bit_map: the byte and the bit of each of the one,   *)
(* two or four ports of an access, the next byte being met at bit 8.  A    *)
(* set bit forbids its port; map is the segment of the task as bits.       *)

Start(port, base) == [addr |-> base + (port \div 8), bit |-> port % 8]
Following(at) == IF at.bit + 1 = 8 THEN [addr |-> at.addr + 1, bit |-> 0]
                                   ELSE [addr |-> at.addr, bit |-> at.bit + 1]
At(port, base, k) ==
  LET first == Start(port, base)
      second == Following(first)
      third == Following(second)
  IN  <<first, second, third, Following(third)>>[k + 1]

check_io_permission_bit_map(tr, base, port, nbits, map) ==
  /\ tr.tss_is32 /\ ~(tr.lastb < 103)
  /\ \A k \in 0 .. nbits - 1 :
       LET at == At(port, base, k)
       IN  tr.firstb <= at.addr /\ at.addr <= tr.lastb /\ map[at.addr][at.bit] = 0

-----------------------------------------------------------------------------
(* What the checks are for.                                                *)

Operand(offset, n) == offset .. offset + n - 1
Inside(seg, offset, n) ==
  \A b \in Operand(offset, n) : seg.firstb <= b /\ b <= seg.lastb

\* x % m where x has left 0 .. m - 1 by less than m.
LEMMA Modulo ==
  ASSUME NEW m \in Nat, NEW x \in Int, -m <= x, x < 2 * m, m > 0
  PROVE  x % m = IF x < 0 THEN x + m ELSE IF x < m THEN x ELSE x - m
OBVIOUS

\* The limit check of an operand of n bytes is right about every offset, as
\* long as the segment is not shorter than the operand.
THEOREM LimitIsExact ==
  ASSUME Words, NEW seg \in Segment, NEW n \in Widths, n - 1 <= seg.lastb,
         NEW offset \in 0 .. Offsets - 1
  PROVE  ~Beyond(seg, offset, n) <=> Inside(seg, offset, n)
<1>1. n \in Nat /\ 1 <= n /\ n <= 16 BY DEF Widths
<1>2. seg.lastb \in 0 .. Offsets - 1 /\ seg.firstb \in 0 .. Offsets - 1 BY DEF Segment
<1>3. Wrap(seg.lastb - (n - 1)) = seg.lastb - (n - 1)
  BY <1>1, <1>2, Modulo DEF Wrap, Words
<1>4. ~Beyond(seg, offset, n) <=> seg.firstb <= offset /\ offset + n - 1 <= seg.lastb
  BY <1>1, <1>2, <1>3 DEF Beyond
<1>5. offset \in Operand(offset, n) /\ offset + n - 1 \in Operand(offset, n)
  BY <1>1 DEF Operand
<1>6. \A b \in Operand(offset, n) : b \in Int /\ offset <= b /\ b <= offset + n - 1
  BY <1>1 DEF Operand
<1> QED BY <1>1, <1>2, <1>4, <1>5, <1>6 DEF Inside

\* A segment shorter than the operand has practically no limit: lastb - (n - 1)
\* wraps, and only the last offsets of the address space are refused.
THEOREM TinySegmentsAreOpen ==
  ASSUME Words, NEW seg \in Segment, NEW n \in Widths, seg.lastb < n - 1, seg.firstb = 0,
         NEW offset \in 0 .. Offsets - 1
  PROVE  /\ ~Inside(seg, offset, n)
         /\ ~Beyond(seg, offset, n) <=> offset <= Offsets - (n - 1) + seg.lastb
<1>1. n \in Nat /\ 1 <= n /\ n <= 16 BY DEF Widths
<1>2. seg.lastb \in 0 .. Offsets - 1 BY DEF Segment
<1>3. Wrap(seg.lastb - (n - 1)) = Offsets - (n - 1) + seg.lastb
  BY <1>1, <1>2, Modulo DEF Wrap, Words
<1>4. offset + n - 1 \in Operand(offset, n) /\ ~(offset + n - 1 <= seg.lastb)
  BY <1>1, <1>2 DEF Operand
<1> QED BY <1>1, <1>2, <1>3, <1>4 DEF Beyond, Inside, Words

\* A segment with a granular limit is never that short: an access that passes in
\* protected mode stays inside it, whatever its width and type.
THEOREM GranularSegmentsHold ==
  ASSUME Words, NEW old \in Segment, NEW null \in BOOLEAN,
         NEW desc \in Descriptor, desc.granular, elimit(desc.limit, TRUE) < Offsets,
         NEW n \in Widths, NEW offset \in 0 .. Offsets - 1,
         NEW data \in BOOLEAN, NEW ac \in BOOLEAN
  PROVE  LET seg == load_segment_descriptor(old, null, desc)
         IN  \/ mem_read_protected(seg, offset, n, data, ac) = "passes"
             \/ mem_write_protected(seg, offset, n, ac) = "passes"
             => Inside(seg, offset, n)
<1> DEFINE top == elimit(desc.limit, TRUE)
           L == desc.limit * Page
           seg == load_segment_descriptor(old, null, desc)
<1>1. Page \in Nat /\ 16 <= Page /\ Offsets \in Nat /\ 0 < Offsets BY DEF Words
<1>2. L \in Nat BY <1>1 DEF Descriptor
<1>3. top = L + (Page - 1) /\ top < Offsets BY DEF elimit
<1>4. top \in 0 .. Offsets - 1 /\ 15 <= top
  <2> HIDE DEF L, top
  <2> QED BY <1>1, <1>2, <1>3
<1>5. seg \in Segment /\ seg.lastb = top
  <2> DEFINE r == ~desc.code \/ desc.rw
             w == ~desc.code /\ desc.rw
  <2>1. elimit(desc.limit, desc.granular) = top BY DEF elimit
  <2>2. seg = [reg |-> old.reg, firstb |-> 0, lastb |-> top, is32 |-> desc.b,
               isnull |-> null, readable |-> r, writable |-> w, executable |-> desc.code]
    BY <2>1 DEF load_segment_descriptor
  <2>3. /\ r \in BOOLEAN /\ w \in BOOLEAN
        /\ desc.b \in BOOLEAN /\ desc.code \in BOOLEAN
    BY DEF Descriptor
  <2>4. old.reg \in {"CS", "SS", "DS"} BY DEF Segment
  <2>5. 0 \in 0 .. Offsets - 1 BY <1>1
  <2> HIDE DEF seg, top, r, w
  <2>6. seg \in Segment
    <3>1. null \in BOOLEAN /\ top \in 0 .. Offsets - 1 BY <1>4
    <3> QED BY <2>2, <2>3, <2>4, <2>5, <3>1, Zenon DEF Segment
  <2>7. seg.lastb = top BY <2>2
  <2> QED BY <2>6, <2>7
<1> HIDE DEF seg, top
<1>6. n - 1 <= seg.lastb BY <1>1, <1>4, <1>5 DEF Widths
<1>7. ~Beyond(seg, offset, n) <=> Inside(seg, offset, n) BY <1>5, <1>6, LimitIsExact
<1>8. LimitFault(seg) # "passes" BY DEF LimitFault
<1>9. mem_read_protected(seg, offset, n, data, ac) = "passes" => ~Beyond(seg, offset, n)
  BY <1>8 DEF mem_read_protected, Checked
<1>10. mem_write_protected(seg, offset, n, ac) = "passes" => ~Beyond(seg, offset, n)
  BY <1>8 DEF mem_write_protected, Checked
<1> QED BY <1>7, <1>9, <1>10 DEF seg

\* What a push puts on a stack that is not shorter than the operand, a pop of the
\* same width accepts, and it leaves the pointer where it was: in both engines,
\* in real mode of the JIT if the stack is one of 16 bits.
THEOREM PopUndoesPush ==
  ASSUME Words, NEW ss \in Segment, ss.firstb = 0, NEW n \in {2, 4}, n - 1 <= ss.lastb,
         NEW sp \in 0 .. Stack(ss) - 1, PushPasses(ss, sp, n)
  PROVE  LET top == Pushed(ss, sp, n)
         IN  /\ Inside(ss, top, n)
             /\ PopPasses(ss, top, n) /\ Popped(ss, top, n) = sp
             /\ ~ss.is32 /\ ss.lastb < Half => PopPassesNonprotected(top, n)
<1> DEFINE top == Pushed(ss, sp, n)
           M == Stack(ss)
<1>1. M \in Nat /\ 16 < M /\ M <= Offsets /\ Offsets \in Nat /\ Half \in Nat
  BY DEF Words, Stack
<1>2. sp \in 0 .. M - 1 OBVIOUS
<1>3. top = (sp - n) % M BY DEF Pushed, Below
<1>4. ss.lastb \in 0 .. Offsets - 1 BY DEF Segment
<1>5. top = IF sp < n THEN sp - n + M ELSE sp - n
  <2>1. -M <= sp - n /\ sp - n < 2 * M /\ M > 0 /\ sp - n \in Int BY <1>1, <1>2
  <2> HIDE DEF M
  <2>2. (sp - n) % M = IF sp - n < 0 THEN sp - n + M ELSE IF sp - n < M THEN sp - n ELSE sp - n - M
    BY <1>1, <2>1, Modulo
  <2> QED BY <1>1, <1>2, <1>3, <2>2
<1>6. top \in 0 .. Offsets - 1 /\ top < M BY <1>1, <1>2, <1>5
<1>7. Inside(ss, top, n)
  <2>1. ~Beyond(ss, top, n) BY DEF PushPasses, Pushed
  <2> QED BY <1>6, <2>1, LimitIsExact DEF Widths
<1>8. top + n - 1 <= ss.lastb
  <2>1. top + n - 1 \in Operand(top, n) BY <1>6 DEF Operand
  <2> QED BY <1>7, <2>1 DEF Inside
<1>9. top + n - 1 < M \/ (M <= ss.lastb /\ top + n - 1 < 2 * M)
  <2> HIDE DEF top, M
  <2> QED BY <1>1, <1>4, <1>6, <1>8
<1>10. LastByte(ss, top, n) \in 0 .. ss.lastb
  <2> HIDE DEF top, M
  <2>1. LastByte(ss, top, n) = (top + n - 1) % M BY DEF LastByte, M
  <2>2. (top + n - 1) % M = IF top + n - 1 < M THEN top + n - 1 ELSE top + n - 1 - M
    BY <1>1, <1>6, <1>9, Modulo
  <2> QED BY <1>4, <1>6, <1>8, <1>9, <1>1, <2>1, <2>2
<1>12. PopPasses(ss, top, n)
  <2> HIDE DEF top
  <2> QED BY <1>4, <1>10 DEF PopPasses
<1>13. Popped(ss, top, n) = sp
  <2> HIDE DEF top, M
  <2>1. Popped(ss, top, n) = (top + n) % M BY DEF Popped, M
  <2>2. (top + n) % M = IF top + n < M THEN top + n ELSE top + n - M
    BY <1>1, <1>6, Modulo
  <2> QED BY <1>1, <1>2, <1>5, <2>1, <2>2
<1>14. ~ss.is32 /\ ss.lastb < Half => PopPassesNonprotected(top, n)
  <2> HIDE DEF top
  <2> QED BY <1>1, <1>4, <1>6, <1>8 DEF PopPassesNonprotected
<1> QED BY <1>7, <1>12, <1>13, <1>14

\* Where the operand does not reach over the end of the stack a pop is checked
\* exactly, although only its last byte is.
THEOREM PopIsExact ==
  ASSUME Words, NEW ss \in Segment, ss.firstb = 0, NEW n \in {2, 4},
         NEW sp \in 0 .. Stack(ss) - 1, sp + n <= Stack(ss)
  PROVE  PopPasses(ss, sp, n) <=> Inside(ss, sp, n)
<1> DEFINE M == Stack(ss)
<1>1. M \in Nat /\ 16 < M BY DEF Words, Stack
<1>2. sp \in Nat /\ sp + n <= M /\ n \in Nat /\ 0 < n OBVIOUS
<1>3. ss.lastb \in Nat BY DEF Segment, Words
<1>4. LastByte(ss, sp, n) = sp + n - 1
  <2> HIDE DEF M
  <2>1. LastByte(ss, sp, n) = (sp + n - 1) % M BY DEF LastByte, M
  <2> QED BY <1>1, <1>2, <2>1, Modulo
<1>5. PopPasses(ss, sp, n) <=> sp + n - 1 <= ss.lastb
  BY <1>2, <1>3, <1>4 DEF PopPasses
<1>6. sp + n - 1 \in Operand(sp, n) BY <1>2 DEF Operand
<1>7. \A b \in Operand(sp, n) : b \in Nat /\ b <= sp + n - 1 BY <1>2 DEF Operand
<1> QED BY <1>2, <1>3, <1>5, <1>6, <1>7 DEF Inside

\* Over the end of a 16-bit stack of 64 kB the two engines differ outside
\* protected mode: the interpreter checks the byte SP wraps to and reads on behind
\* the segment, the JIT raises #SS.
THEOREM PopsDifferAtTheEnd ==
  ASSUME Words, NEW ss \in Segment, ss.firstb = 0, ss.lastb = Half - 1, ~ss.is32,
         NEW n \in {2, 4}, NEW sp \in Half - n + 1 .. Half - 1
  PROVE  PopPasses(ss, sp, n) /\ ~PopPassesNonprotected(sp, n) /\ ~Inside(ss, sp, n)
<1>1. Half \in Nat /\ 16 < Half BY DEF Words
<1>2. LastByte(ss, sp, n) = (sp + n - 1) % Half BY DEF LastByte, Stack
<1>3. (sp + n - 1) % Half = sp + n - 1 - Half BY <1>1, Modulo
<1>4. PopPasses(ss, sp, n) BY <1>1, <1>2, <1>3 DEF PopPasses
<1>5. ~PopPassesNonprotected(sp, n) BY <1>1 DEF PopPassesNonprotected
<1>6. sp + n - 1 \in Operand(sp, n) /\ ~(sp + n - 1 <= ss.lastb) BY <1>1 DEF Operand
<1> QED BY <1>4, <1>5, <1>6 DEF Inside

\* The walk of the permission check meets the bit of each port of the access.
LEMMA WalkMeetsEveryPort ==
  ASSUME NEW port \in Nat, NEW base \in Nat, NEW k \in 0 .. 3
  PROVE  At(port, base, k) = [addr |-> base + ((port + k) \div 8), bit |-> (port + k) % 8]
<1> DEFINE Place(j) == [addr |-> base + ((port + j) \div 8), bit |-> (port + j) % 8]
<1>1. Start(port, base) = Place(0) BY DEF Start
<1>2. ASSUME NEW j \in Nat PROVE Following(Place(j)) = Place(j + 1)
  <2>1. CASE (port + j) % 8 = 7
    <3>1. (port + j + 1) \div 8 = ((port + j) \div 8) + 1 /\ (port + j + 1) % 8 = 0 BY <2>1
    <3> QED BY <2>1, <3>1 DEF Following
  <2>2. CASE (port + j) % 8 # 7
    <3>1. /\ (port + j + 1) \div 8 = (port + j) \div 8
          /\ (port + j + 1) % 8 = ((port + j) % 8) + 1
          /\ ((port + j) % 8) + 1 # 8
      BY <2>2
    <3> QED BY <3>1 DEF Following
  <2> QED BY <2>1, <2>2
<1> HIDE DEF Place
<1>3. /\ Following(Place(0)) = Place(1)
      /\ Following(Place(1)) = Place(2)
      /\ Following(Place(2)) = Place(3)
  <2>1. Following(Place(0)) = Place(0 + 1) BY <1>2
  <2>2. Following(Place(1)) = Place(1 + 1) BY <1>2
  <2>3. Following(Place(2)) = Place(2 + 1) BY <1>2
  <2> QED BY <2>1, <2>2, <2>3
<1>4. At(port, base, k) = Place(k) BY <1>1, <1>3 DEF At
<1> QED BY <1>4 DEF Place

\* An access to one, two or four ports is permitted exactly when each of them has
\* its bit clear, within the limit of the task's segment, across bytes included.
THEOREM PermissionIsExact ==
  ASSUME Words, NEW tr, tr.tss_is32, tr.lastb \in Nat, 103 <= tr.lastb, tr.firstb = 0,
         NEW base \in Nat, NEW port \in Nat, NEW nbits \in {1, 2, 4}, NEW map
  PROVE  check_io_permission_bit_map(tr, base, port, nbits, map) <=>
           \A p \in port .. port + nbits - 1 :
             base + (p \div 8) <= tr.lastb /\ map[base + (p \div 8)][p % 8] = 0
<1> DEFINE Free(p) == base + (p \div 8) <= tr.lastb /\ map[base + (p \div 8)][p % 8] = 0
<1>1. ASSUME NEW k \in 0 .. nbits - 1
      PROVE  /\ At(port, base, k).addr = base + ((port + k) \div 8)
             /\ At(port, base, k).bit = (port + k) % 8
             /\ 0 <= base + ((port + k) \div 8)
  <2>1. k \in 0 .. 3 OBVIOUS
  <2>2. At(port, base, k) = [addr |-> base + ((port + k) \div 8), bit |-> (port + k) % 8]
    BY <2>1, WalkMeetsEveryPort
  <2>3. 0 <= base + ((port + k) \div 8) BY <2>1
  <2> QED BY <2>2, <2>3
<1>2. check_io_permission_bit_map(tr, base, port, nbits, map) <=>
        \A k \in 0 .. nbits - 1 : Free(port + k)
  <2>1. check_io_permission_bit_map(tr, base, port, nbits, map) <=>
          \A k \in 0 .. nbits - 1 :
            /\ tr.firstb <= At(port, base, k).addr
            /\ At(port, base, k).addr <= tr.lastb
            /\ map[At(port, base, k).addr][At(port, base, k).bit] = 0
    BY DEF check_io_permission_bit_map
  <2> QED BY <1>1, <2>1
<1> HIDE DEF Free
<1>3. (\A k \in 0 .. nbits - 1 : Free(port + k)) <=> \A p \in port .. port + nbits - 1 : Free(p)
  <2>1. ASSUME \A k \in 0 .. nbits - 1 : Free(port + k), NEW p \in port .. port + nbits - 1
        PROVE  Free(p)
    <3>1. p - port \in 0 .. nbits - 1 /\ port + (p - port) = p OBVIOUS
    <3> QED BY <2>1, <3>1
  <2>2. ASSUME \A p \in port .. port + nbits - 1 : Free(p), NEW k \in 0 .. nbits - 1
        PROVE  Free(port + k)
    <3>1. port + k \in port .. port + nbits - 1 OBVIOUS
    <3> QED BY <2>2, <3>1
  <2> QED BY <2>1, <2>2
<1> QED BY <1>2, <1>3 DEF Free
=============================================================================
