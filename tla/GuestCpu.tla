------------------------------ MODULE GuestCpu ------------------------------
(***************************************************************************)
(* What the translation cache of the JIT promises: the guest program runs  *)
(* as if every instruction were fetched and decoded from memory at the     *)
(* moment it is executed.  This is the machine the interpreter implements  *)
(* literally (exec_inst in interpreter.c reads the opcode at CS:EIP each   *)
(* time); jit.c replaces it by a cache of decoded pages.                   *)
(***************************************************************************)
EXTENDS GuestIsa

VARIABLES mem, eip, is32, halted
vars == <<mem, eip, is32, halted>>

Init ==
  /\ mem = InitMem
  /\ eip \in Targets
  /\ is32 \in BOOLEAN
  /\ halted = FALSE

Opcode == mem[eip]
Size == InstLen[Opcode, is32]
Decodes == eip \in Fetchable /\ eip .. (eip + Size - 1) \subseteq Fetchable
Executes(k) == ~halted /\ Decodes /\ Kind[Opcode] = k

Sequential ==
  /\ Executes("seq")
  /\ eip' = eip + Size
  /\ UNCHANGED <<mem, is32, halted>>

StoreInst ==
  /\ Executes("store")
  /\ \E w \in Stores : mem' = Written(mem, w)
  /\ eip' = eip + Size
  /\ UNCHANGED <<is32, halted>>

Jump ==
  /\ Executes("jump")
  /\ eip' \in Targets
  /\ UNCHANGED <<mem, is32, halted>>

FarJump ==
  /\ Executes("far")
  /\ eip' \in Targets
  /\ is32' \in BOOLEAN
  /\ UNCHANGED <<mem, halted>>

MoveToCR0 ==
  /\ Executes("cr0")
  /\ eip' = eip + Size
  /\ is32' \in BOOLEAN
  /\ UNCHANGED <<mem, halted>>

PortOutput ==
  /\ Executes("out")
  /\ eip' = eip + Size
  /\ \/ UNCHANGED mem
     \/ \E r \in Remaps : mem' = Filled(mem, r)
  /\ UNCHANGED <<is32, halted>>

Halt ==
  /\ Executes("halt")
  /\ eip' = eip + Size
  /\ halted' = TRUE
  /\ UNCHANGED <<mem, is32>>

\* An exception: a fetch that fails, or an instruction that faults.
Fault ==
  /\ ~halted
  /\ eip' = Handler
  /\ is32' = HandlerIs32
  /\ \E w \in Push : mem' = Written(mem, w)
  /\ UNCHANGED halted

\* A hardware interrupt; it is also what ends a HLT.
Interrupt ==
  /\ eip' = Handler
  /\ is32' = HandlerIs32
  /\ halted' = FALSE
  /\ \E w \in Push : mem' = Written(mem, w)

\* Writes and remappings the host makes between two instructions.
HostWrite ==
  /\ \/ "write" \in HostCalls /\ \E w \in Stores : mem' = Written(mem, w)
     \/ "remap" \in HostCalls /\ \E r \in Remaps : mem' = Filled(mem, r)
  /\ UNCHANGED <<eip, is32, halted>>

Next ==
  \/ Sequential \/ StoreInst \/ Jump \/ FarJump \/ MoveToCR0 \/ PortOutput
  \/ Halt \/ Fault \/ Interrupt \/ HostWrite

Spec == Init /\ [][Next]_vars

=============================================================================
