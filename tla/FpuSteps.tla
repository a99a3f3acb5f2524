------------------------------ MODULE FpuSteps ------------------------------
(***************************************************************************)
(* What a handler of an x87 instruction is made of.  Values of registers   *)
(* are left out: a register is used or empty, and a comparison of values   *)
(* is a choice.  A step is an operation, the index i of the ST(i) it is    *)
(* about and the exception it may raise; an operation that has no use for  *)
(* one of them carries ST(0) or "IE".                                      *)
(***************************************************************************)
EXTENDS Naturals, Sequences

CONSTANT NRegs

ASSUME NRegsAssumption == NRegs \in Nat \ {0}

Regs == 0..(NRegs - 1)

\* The FPU_STATUS bits a check can set, in the order of the register.
AllExceptions == {"IE", "DE", "ZE", "OE", "UE", "PE"}

\* Checks of the unit's exceptions; steps after which the handler may return
\* early; steps that push, pop or free registers; and the others.
Checking == {"under", "select", "over", "raise"}
Stopping == Checking \cup {"access", "write", "pending"}
Moving == {"push", "push copy", "pop", "free", "initialise"}
Plain == {"use", "set", "copy", "exchange", "clear", "load cw",
          "load control", "load status", "load tags"}

FpuStep == [do : Stopping \cup Moving \cup Plain, i : Regs, e : AllExceptions]

Plainly(do) == {<<[do |-> do, i |-> 0, e |-> "IE"]>>}
At(do, i) == {<<[do |-> do, i |-> i, e |-> "IE"]>>}

\* After a check has suspended the handler these are executed all the same.
\* (Only the JIT has any behind a check; its BC_FPU_POP and the like test
\* fpu_ok.)
UnguardedPop == {"access", "select", "pop"}
Unguarded == {"access", "select"}

\* Memory is accessed, an address decoded or CR0 tested: the guest exception
\* that may result ends the handler.  Write is a store that a suspended
\* handler does not reach.
Access == Plainly("access")
Read == Access
Write == Plainly("write")
\* FPU_CHECK_EXCEPTIONS
Pending == Plainly("pending")
\* FPU_CHECK_STACK_UNDERFLOW and FPU_CHECK_STACK_OVERFLOW.  ("select" is the
\* underflow check of BC_FPU_SELECT_ST0.)
Under(i) == At("under", i)
Over == Plainly("over")
\* The checks of one exception: its condition may or may not hold.
Raise(e) == {<<[do |-> "raise", i |-> 0, e |-> e]>>}

\* The value of ST(i) is read; ST(i) is computed from its old value.
Use(i) == At("use", i)
Set(i) == At("set", i)

Push == Plainly("push")
PushCopy(i) == At("push copy", i)
Pop == Plainly("pop")

=============================================================================
