------------------------------- MODULE MCFpu --------------------------------
(***************************************************************************)
(* Every handler of the x87 unit, of the interpreter and of the JIT, over  *)
(* a stack of three registers, with three of the exceptions: the others    *)
(* are recorded by the same checks.                                        *)
(***************************************************************************)
EXTENDS Fpu, FpuInsns

Jit == INSTANCE JitFpu
InsnsOfBoth == FpuInsnSet \cup Jit!JitFpuInsnSet

SomeExceptions == {"IE", "DE", "PE"}
\* What StopsAlwaysBeforeMoves (FpuProofs) asks of the handlers.
ASSUME HandlersOrdered == \A s \in InsnsOfBoth : Ordered(s)
\* FISTP to 16 bits stores after it was suspended, and is not among them.
ASSUME StoresAnyway == \A s \in Jit!compile_fist_int16(Jit!POP) : ~Ordered(s)

\* What StackFaultsAlwaysRecorded asks: every handler has checked what it uses.
Sure(s) ==
  LET f[k \in 1 .. Len(s) + 1] == IF k = 1 THEN Nothing ELSE After(f[k - 1], s[k - 1])
  IN f
ASSUME HandlersChecked == \A s \in InsnsOfBoth : Outline(Sure(s), s)

AllMasks == SUBSET SomeExceptions

=============================================================================
