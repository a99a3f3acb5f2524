------------------------------ MODULE GuestIsa ------------------------------
(***************************************************************************)
(* The guest program as the translation cache sees it.  A byte of memory   *)
(* is an opcode: its kind and its length, which depends on whether the     *)
(* code segment is a 32-bit one, are constants.  Values an instruction     *)
(* computes are left open: a store writes any pair of Stores, a jump goes  *)
(* to any address of Targets.                                              *)
(***************************************************************************)
EXTENDS Integers

CONSTANTS
  MaxAddr,      \* addresses are 0..MaxAddr
  Byte,         \* the values a byte of memory takes
  Kind,         \* Kind[b]: what the instruction whose opcode is b does
  InstLen,      \* InstLen[b, m]: its length when decoded in mode m
  MaxLen,       \* longest instruction
  Fetchable,    \* addresses an instruction fetch may read (CS limit)
  Stores,       \* <<address, byte>> pairs a store or the host may write
  Remaps,       \* <<begin, last, byte>>: host remappings, byte fills the range
  HostCalls,    \* calls the host makes between two instructions
  Targets,      \* where a jump may go
  Handler,      \* entry point of the exception and interrupt handler
  HandlerIs32,  \* mode of the handler's code segment
  Push,         \* <<address, byte>> pairs the delivery of an exception writes
  InitMem       \* memory when the machine starts

Addr == 0 .. MaxAddr
Kinds == {"seq", "store", "jump", "far", "cr0", "out", "halt"}

ASSUME ConstantsAssumption ==
  /\ MaxAddr \in Nat
  /\ MaxLen \in Nat \ {0}
  /\ Kind \in [Byte -> Kinds]
  /\ InstLen \in [Byte \X BOOLEAN -> 1 .. MaxLen]
  /\ Fetchable \subseteq Addr
  /\ Stores \subseteq Addr \X Byte
  /\ Push \subseteq Addr \X Byte
  /\ Remaps \subseteq Addr \X Addr \X Byte
  /\ HostCalls \subseteq {"write", "remap", "clear", "reset"}
  /\ Targets \subseteq Addr
  /\ Handler \in Addr
  /\ HandlerIs32 \in BOOLEAN
  /\ InitMem \in [Addr -> Byte]

\* Memory m after the byte w[2] is written at w[1].
Written(m, w) == [m EXCEPT ![w[1]] = w[2]]

\* Memory m after the range r[1]..r[2] is remapped to bytes r[3].
Filled(m, r) == [a \in Addr |-> IF a \in r[1] .. r[2] THEN r[3] ELSE m[a]]

=============================================================================
