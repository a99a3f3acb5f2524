------------------------------ MODULE MCInterp ------------------------------
(***************************************************************************)
(* Every handler of the interpreter, and the bytecode the JIT compiles     *)
(* every integer and system instruction to, one instruction at a time.     *)
(***************************************************************************)
EXTENDS InsnSteps, InterpArith, InterpMove, InterpFlow, InterpSystem

Jit == INSTANCE JitInsns

InterpInsns ==
  UNION {ArithInsns, BitsInsns, MoveInsns, FlowInsns, SystemInsns, Jit!JitInsnSet}

\* EXCEPTION returns to _old_EIP.  The JIT moves EIP last and restores nothing,
\* but HLT takes back what it has added.
IsCompiled(n) == Len(n) >= 2 /\ n[2] = "compiled"
InterpRollback(n) == IF IsCompiled(n) /\ n[1] # "jit hlt" THEN {} ELSE {"EIP"}

LoadFar == {"lds", "les", "lfs", "lgs", "lss"}
Vectored == {"int", "int3", "into", "iret"}
SregOf(op) == CASE op = "lds" -> "DS" [] op = "les" -> "ES" [] op = "lfs" -> "FS"
                [] op = "lgs" -> "GS" [] op = "lss" -> "SS"

\* The interpreter.  Flags set before a store that may fault; pops and counters
\* that move before the last check; a port read before the store; LLDT's early
\* isnull; and what a handler has finished when the access bit it could not
\* set has raised an exception (segment loads and far transfers).  The
\* instructions that enter handlers and switch tasks can be retried in no
\* respect.
HandlerRereads ==
  {"adc", "sbb", "rcl", "rcr"} \X {"CF"}
  \cup {"enter", "popa", "pusha", "pop", "popf", "ret", "call"} \X {"ESP"}
  \cup {"loop", "loope", "loopne"} \X {"ECX"}
  \cup {<<"enter", "EBP">>, <<"ins", "io">>, <<"lldt", "LDTR">>, <<"ltr", "descriptor">>}
  \cup {"mov", "pop", "jmp", "call", "ret"} \X {"descriptor"}
  \cup {"mov", "ret"} \X Sregs
  \cup {<<"pop", "SS">>, <<"jmp", "CS">>, <<"call", "CS">>, <<"call", "SS">>}
  \cup LoadFar \X (Gprs \cup {"descriptor"})
  \cup {<<op, SregOf(op)>> : op \in LoadFar}
  \cup Vectored \X Component

\* The JIT.  ADC and SBB set CF after the store, and a bit that could not be
\* set raises nothing; but XCHG writes the register before the memory operand,
\* and CALL has moved EIP to its target when it pushes.
BytecodeRereads ==
  {"jit rcl", "jit rcr"} \X {"CF"}
  \cup {"jit enter", "jit popa", "jit pusha", "jit pop", "jit popf", "jit ret"} \X {"ESP"}
  \cup {"jit loop", "jit loope", "jit loopne"} \X {"ECX"}
  \cup {"jit xchg"} \X Gprs
  \cup {"jit call"} \X {"EIP", "ESP", "SS", "descriptor"}
  \cup {<<"jit enter", "EBP">>, <<"jit ins", "io">>, <<"jit lldt", "LDTR">>}
  \cup {"jit int", "jit into", "jit iret"} \X Component

InterpRereads == HandlerRereads \cup BytecodeRereads

\* What changes after the access or busy bit of a descriptor could not be
\* written, and the ZF that LAR and LSL clear when the descriptor cannot be
\* read.
InterpTrails ==
  {"lar", "lsl"} \X {"ZF"}
  \cup {"jmp"} \X {"CS", "EIP"}
  \cup {"call"} \X {"CS", "EIP", "ESP", "SS", "descriptor", "stack"}
  \cup {"ret"} \X ({"ESP", "descriptor"} \cup Sregs)
  \cup LoadFar \X Gprs
  \cup Vectored \X Component

InterpDoubles == {"in", "out", "ins", "outs", "call", "ret", "int", "int3", "into", "iret"}

\* The JIT's words ignore a bit of a descriptor they could not set, a bitmap
\* or a descriptor (LAR, LSL) they could not read, what RET far found wrong
\* with the offset, and where FSAVE and FRSTOR stopped.
InterpForgets ==
  {"jit mov", "jit pop", "jit lds", "jit les", "jit lfs", "jit lgs", "jit lss", "jit ltr",
   "jit jmp", "jit call", "jit ret", "jit int", "jit into", "jit iret", "jit in", "jit out",
   "jit ins", "jit outs", "jit lar", "jit lsl", "jit fsave", "jit frstor"}

\* The premise of RestartsAlwaysTransparent, for every handler: no step reads
\* what an attempt cut short may have left, InterpRereads excepted.
ASSUME HandlersInOrder == \A i \in Insns : InOrder(i)

\* The premises of QuietAfterEveryDelivery and EveryFaultRaisesOne, likewise.
ASSUME HandlersQuietAfter == \A i \in Insns : QuietAfter(i)
ASSUME HandlersRaiseOnce == \A i \in Insns : RaisesOnce(i)

-----------------------------------------------------------------------------
(* The checks that decide whether a step faults, with words of 6 and 5     *)
(* bits: the theorems of SegmentLimits, evaluated.                         *)

Limits == INSTANCE SegmentLimits WITH Offsets <- 64, Half <- 32, Page <- 16

SegmentUpTo(lastb, is32) ==
  [reg |-> "SS", firstb |-> 0, lastb |-> lastb, is32 |-> is32, isnull |-> FALSE,
   readable |-> TRUE, writable |-> TRUE, executable |-> FALSE]

\* An access that passes is within the limit, if the segment is not shorter.
ASSUME AccessesInside ==
  \A lastb, offset \in 0 .. 63, n \in Limits!Widths, data, ac \in BOOLEAN :
    LET seg == SegmentUpTo(lastb, TRUE)
    IN  lastb >= n - 1 /\ Limits!mem_read(TRUE, seg, offset, n, data, ac) = "passes"
        => Limits!Inside(seg, offset, n)

\* Outside protected mode a word may stick out of the segment by one byte.
ASSUME WordsStickOut ==
  \A lastb, offset \in 0 .. 63, n \in Limits!Widths :
    LET seg == SegmentUpTo(lastb, TRUE)
    IN  lastb >= n - 1 /\ Limits!mem_write(FALSE, seg, offset, n, FALSE) = "passes"
        => Limits!Inside(seg, offset, n) \/ (n = 2 /\ offset = lastb)

\* The stack: what is pushed can be popped.
ASSUME PushedIsPopped ==
  \A lastb \in 3 .. 63, is32 \in BOOLEAN, n \in {2, 4} :
    LET ss == SegmentUpTo(lastb, is32)
    IN  \A sp \in 0 .. Limits!Stack(ss) - 1 :
          Limits!PushPasses(ss, sp, n) =>
            LET top == Limits!Pushed(ss, sp, n)
            IN  Limits!PopPasses(ss, top, n) /\ Limits!Popped(ss, top, n) = sp

\* The bitmap: every port of the access is asked for, and no other.
ASSUME PortsAsked ==
  \A port \in 0 .. 17, forbidden \in 0 .. 23, nbits \in {1, 2, 4} :
    LET tr == [tss_is32 |-> TRUE, firstb |-> 0, lastb |-> 106]
        map == [a \in 104 .. 106 |->
                  [b \in 0 .. 7 |-> IF (a - 104) * 8 + b = forbidden THEN 1 ELSE 0]]
    IN  Limits!check_io_permission_bit_map(tr, 104, port, nbits, map)
          <=> forbidden \notin port .. port + nbits - 1

=============================================================================
