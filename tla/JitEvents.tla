------------------------------ MODULE JitEvents -----------------------------
(***************************************************************************)
(* How the JIT takes interrupts and delivers exceptions: the test of       *)
(* IA32_jit_exec_next_inst between two instructions, the shadow of STI and *)
(* MOV SS, REP instructions that stop after every iteration, HLT, and the  *)
(* loop of exception_body and goto_eip that ends each call.                *)
(*                                                                         *)
(* A program is a sequence of kinds of instruction at addresses 1, 2, ...; *)
(* its main part ends in a jump to 1 and is followed by the one handler    *)
(* all gates lead to.  It has one string instruction, run word by word.    *)
(* Delivery is the one through a gate of the IDT to the same level         *)
(* (interruption_protected_intra_pl).  A frame of the stack is what one    *)
(* delivery pushes.                                                        *)
(***************************************************************************)
EXTENDS StringOps

CONSTANTS
  Programs,   \* the programs: [main, handler], sequences of kinds, and their [string]
  Gates,      \* what the IDT may hold: functions from Vectors to gate kinds
  CountMax,   \* the largest value of ECX, 2^32 - 1 in the code
  MaxFrames   \* frames that fit below the limit of the stack segment

Kinds == {"plain", "load", "ud", "sti", "cli", "popf", "movss", "hlt",
          "setcx", "string", "int", "iret", "call", "jmp", "edge", "absent"}
Branches == {"hlt", "int", "iret", "call", "jmp"}

WithCode == {"GP", "NP", "SS", "PF"}
Vectors == WithCode \cup {"UD", "irq", "soft"}
NoVector == "none"
GateKinds == {"int", "trap", "outside", "absent", "badsegment"}

MAX_NESTED_EXCEPTIONS == 5

ASSUME EventsAssumption ==
  /\ CountMax \in Nat \ {0}
  /\ MaxFrames \in Nat
  /\ Gates \subseteq [Vectors -> GateKinds]
  /\ Programs \subseteq [main : Seq(Kinds), handler : Seq(Kinds), string : StringInsns]
  /\ \A p \in Programs : p.main # <<>> /\ p.handler # <<>>
                         /\ Last(p.main) = "jmp" /\ Last(p.handler) \in {"iret", "jmp", "absent"}

VARIABLES
  prog, gate,      \* the guest's code and IDT, which it does not change here
  eip, iff, ecx,   \* EIP, EFLAGS.IF, ECX
  zf,              \* EFLAGS.ZF
  frames,          \* what deliveries have pushed and no IRET has popped
  intr,            \* _intr, the line the host drives
  inhibit,         \* _inhibit_interrupt
  exc,             \* _exception: vec and use_error_code
  located,         \* _current_page # NULL, and _current_pos is the place of eip
  pos,             \* in a string instruction, the word _current_pos or pos is at
  halted,          \* _current_pos is at BC_HALT
  phase,           \* where the call of IA32_jit_exec_next_inst stands
  after,           \* what follows goto_eip: the end of the call or the loop
  counter,         \* deliveries tried by exception_body
  origin,          \* history: the instruction under way
  shadow,          \* history: the last instruction allows no interrupt after it
  wanted, performed, \* history: iterations asked of the REP, and done
  gathered,        \* history: words of the operation run since it was entered
  lost             \* history: an interrupt of the host could not be delivered

guest == <<prog, gate>>
counts == <<ecx, zf>>
position == <<located, pos, halted>>
history == <<origin, shadow, wanted, performed, gathered, lost>>
vars == <<prog, gate, eip, iff, ecx, zf, frames, intr, inhibit, exc, located, pos,
          halted, phase, after, counter, origin, shadow, wanted, performed, gathered, lost>>

Code == prog.main \o prog.handler
Handler == Len(prog.main) + 1
Inst == Code[eip]
Nothing == [vec |-> NoVector, code |-> FALSE]

(***************************************************************************)
(* The macros EXCEPTION and EXCEPTION_ERROR_CODE: both write every field.  *)
(***************************************************************************)
\* As EXCEPTION, with the vector written alone.
EXCEPTION_vector_only(v) == exc' = [exc EXCEPT !.vec = v]

EXCEPTION(v) == exc' = [vec |-> v, code |-> FALSE]
EXCEPTION_ERROR_CODE(v) == exc' = [vec |-> v, code |-> TRUE]

Init ==
  /\ prog \in Programs /\ gate \in Gates
  /\ eip = 1 /\ iff = FALSE /\ ecx = 0 /\ zf = FALSE /\ frames = <<>>
  /\ intr = FALSE /\ inhibit = FALSE /\ exc = Nothing
  /\ located = FALSE /\ pos = 1 /\ halted = FALSE
  /\ phase = "idle" /\ after = "idle" /\ counter = 0
  /\ origin = 1 /\ shadow = FALSE /\ wanted = 0 /\ performed = 0 /\ gathered = 0 /\ lost = FALSE

(***************************************************************************)
(* interruption: the gate and the stack are checked before anything is     *)
(* pushed.                                                                 *)
(***************************************************************************)
Room == Len(frames) < MaxFrames

Usable(v) == gate[v] \in {"int", "trap"}

Accepted(v, ret, code) ==
  /\ Usable(v) /\ Room
  /\ frames' = Append(frames, [ret |-> ret, iff |-> iff, vec |-> v, code |-> code])
  /\ eip' = Handler
  /\ iff' = (iff /\ gate[v] # "int")

\* interruption_protected: beyond the limit of the IDT, or marked not present.
GateRefuses(v) ==
  \/ gate[v] = "outside" /\ EXCEPTION_ERROR_CODE("GP")
  \/ gate[v] = "absent" /\ EXCEPTION_ERROR_CODE("NP")

\* interruption_protected_trap_int_gate: the code segment is wrong, or not present.
SegmentRefuses(v) ==
  /\ gate[v] = "badsegment"
  /\ EXCEPTION_ERROR_CODE("GP") \/ EXCEPTION_ERROR_CODE("NP")

StackRefuses(v) == Usable(v) /\ ~Room /\ EXCEPTION_ERROR_CODE("SS")

Refused(v) ==
  /\ GateRefuses(v) \/ SegmentRefuses(v) \/ StackRefuses(v)
  /\ UNCHANGED <<frames, eip, iff>>

(***************************************************************************)
(* The host drives the line, and makes the JIT forget the page it is in.   *)
(***************************************************************************)
SetIntr ==
  /\ phase = "idle"
  /\ intr' = ~intr
  /\ UNCHANGED <<guest, eip, iff, counts, frames, inhibit, exc, position, phase, after,
                 counter, history>>

Forget ==
  /\ phase = "idle" /\ located
  /\ located' = FALSE /\ pos' = 1 /\ halted' = FALSE
  /\ UNCHANGED <<guest, eip, iff, counts, frames, intr, inhibit, exc, phase, after,
                 counter, history>>

(***************************************************************************)
(* IA32_jit_exec_next_inst.                                                *)
(***************************************************************************)
TakesInterrupt == intr /\ ~inhibit /\ iff

\* As Cleared, with the shadow of the instruction before left in place.
NeverCleared == inhibit

Cleared == FALSE

ExecNextInst ==
  /\ phase = "idle" /\ ~TakesInterrupt
  /\ inhibit' = Cleared
  /\ shadow' = FALSE /\ gathered' = 0
  /\ origin' = eip
  /\ phase' = IF located THEN "run" ELSE "fetch"
  /\ after' = "run"
  /\ UNCHANGED <<guest, eip, iff, counts, frames, intr, exc, position, counter, wanted,
                 performed, lost>>

Acknowledge ==
  /\ phase = "idle" /\ TakesInterrupt
  /\ intr' \in BOOLEAN
  /\ after' = "idle"
  /\ \/ /\ Accepted("irq", eip, FALSE)
        /\ phase' = "fetch"
        /\ pos' = 1 /\ halted' = FALSE
        /\ UNCHANGED <<exc, lost>>
     \/ /\ Refused("irq")
        /\ lost' = TRUE
        /\ UNCHANGED <<phase, pos, halted>>
  /\ UNCHANGED <<guest, counts, inhibit, located, counter, origin, shadow, wanted,
                 performed, gathered>>

(***************************************************************************)
(* goto_eip_body: the place of eip, in a page already decoded or by        *)
(* decoding a block.                                                       *)
(***************************************************************************)
Unfetchable == Inst \in {"edge", "absent"}

GotoEip ==
  /\ phase = "fetch"
  /\ located' = TRUE /\ pos' = 1 /\ halted' = FALSE
  /\ phase' = after
  /\ origin' = eip /\ gathered' = 0
  /\ UNCHANGED <<guest, eip, iff, counts, frames, intr, inhibit, after, counter, shadow,
                 wanted, performed, lost>>

Cached ==
  /\ Inst # "absent"
  /\ UNCHANGED exc
  /\ GotoEip

\* A fault after the first instruction of a block is forgotten, but only its vector.
BlockMeetsFault ==
  \E j \in DOMAIN Code :
    /\ j > eip /\ Code[j] \in {"edge", "absent"}
    /\ \A i \in eip .. (j - 1) : Code[i] \notin Branches

Decode ==
  /\ Inst # "absent" /\ exc.vec = NoVector
  /\ \/ UNCHANGED exc
     \/ BlockMeetsFault /\ exc' = [exc EXCEPT !.code = TRUE]
  /\ GotoEip

FetchFault ==
  /\ phase = "fetch" /\ Unfetchable
  /\ EXCEPTION_ERROR_CODE("PF")
  /\ origin' = eip
  /\ located' = FALSE /\ pos' = 1 /\ halted' = FALSE
  /\ phase' = "deliver" /\ counter' = 0
  /\ UNCHANGED <<guest, eip, iff, counts, frames, intr, inhibit, after, shadow, wanted,
                 performed, gathered, lost>>

\* dis_insts begins with assert ( jit->_exception.vec == -1 ).
AssertionFails ==
  /\ phase = "fetch" /\ exc.vec # NoVector
  /\ phase' = "asserted"
  /\ UNCHANGED <<guest, eip, iff, counts, frames, intr, inhibit, exc, position, after,
                 counter, history>>

(***************************************************************************)
(* exception_body: deliveries are tried until one is accepted.             *)
(***************************************************************************)
\* As ReturnEip, with the instruction after the faulting one.
ReturnNext == IF eip < Len(Code) THEN eip + 1 ELSE eip

ReturnEip == eip

\* As Delivered, with the vector left in place.
DeliveredKeepsVector == exc' = [exc EXCEPT !.code = FALSE]

Delivered == exc' = Nothing

Deliver ==
  /\ phase = "deliver"
  /\ Accepted(exc.vec, ReturnEip, exc.code)
  /\ Delivered
  /\ phase' = "fetch"
  /\ UNCHANGED <<guest, counts, intr, inhibit, position, after, counter, history>>

\* As NextTry, with the tries not counted.
SameTry == counter

NextTry == counter + 1

DeliverAgain ==
  /\ phase = "deliver"
  /\ Refused(exc.vec)
  /\ counter' = NextTry
  /\ phase' = IF NextTry < MAX_NESTED_EXCEPTIONS THEN "deliver" ELSE "exited"
  /\ UNCHANGED <<guest, counts, intr, inhibit, position, after, history>>

(***************************************************************************)
(* exec_inst.  A block goes on in the bytecode, or ends in BC_GOTO_EIP in  *)
(* the same call.                                                          *)
(***************************************************************************)
Running(ks) == phase = "run" /\ Inst \in ks

Retire ==
  /\ eip' = eip + 1 /\ pos' = 1
  /\ \/ phase' = "idle"
     \/ phase' = "fetch"
  /\ after' = "idle" /\ gathered' = 0
  /\ UNCHANGED <<guest, intr, located, counter, origin, lost>>

Branch ==
  /\ phase' = "fetch" /\ after' = "idle"
  /\ UNCHANGED <<guest, counts, intr, inhibit, exc, position, counter, history>>

Raise ==
  /\ phase' = "deliver" /\ counter' = 0 /\ after' = "idle"
  /\ UNCHANGED <<guest, iff, counts, intr, inhibit, position, history>>

Plain ==
  /\ Running({"plain", "edge", "load"})
  /\ UNCHANGED <<iff, counts, frames, inhibit, exc, halted, shadow, wanted, performed>>
  /\ Retire

MemoryFault ==
  /\ Running({"load", "movss", "popf"})
  /\ EXCEPTION_ERROR_CODE("PF")
  /\ UNCHANGED <<eip, frames>>
  /\ Raise

Undefined ==
  /\ Running({"ud"})
  /\ EXCEPTION("UD")
  /\ UNCHANGED <<eip, frames>>
  /\ Raise

\* As Inhibits, with every STI opening a shadow.
InhibitsAlways == TRUE

Inhibits == ~iff

Sti ==
  /\ Running({"sti"})
  /\ iff' = TRUE
  /\ inhibit' = (inhibit \/ Inhibits)
  /\ shadow' = ~iff
  /\ UNCHANGED <<counts, frames, exc, halted, wanted, performed>>
  /\ Retire

Cli ==
  /\ Running({"cli"})
  /\ iff' = FALSE
  /\ UNCHANGED <<counts, frames, inhibit, exc, halted, shadow, wanted, performed>>
  /\ Retire

Popf ==
  /\ Running({"popf"})
  /\ iff' \in BOOLEAN
  /\ UNCHANGED <<counts, frames, inhibit, exc, halted, shadow, wanted, performed>>
  /\ Retire

MoveToSS ==
  /\ Running({"movss"})
  /\ inhibit' = TRUE /\ shadow' = TRUE
  /\ UNCHANGED <<iff, counts, frames, exc, halted, wanted, performed>>
  /\ Retire

SetCount ==
  /\ Running({"setcx"})
  /\ \E c \in 0 .. CountMax : ecx' = c /\ wanted' = c
  /\ performed' = 0
  /\ UNCHANGED <<iff, zf, frames, inhibit, exc, halted, shadow>>
  /\ Retire

(***************************************************************************)
(* String instructions, one word at a time: BC_INCn_PC_IF_ECX_IS_0, the    *)
(* operation, BC_DECn_PC_IF_REP32.  While the count lasts the position     *)
(* goes back to the operation, past the test, and the call ends.           *)
(***************************************************************************)
OnWord(ws) == Running({"string"}) /\ prog.string.words[pos].w \in ws
Distance == prog.string.words[pos].n
Immediate == prog.string.words[pos + 1].n

StayInCall ==
  /\ phase' = "run"
  /\ UNCHANGED <<guest, eip, iff, frames, intr, inhibit, exc, halted, after, counter,
                 origin, shadow, wanted, lost>>

Skipped(n) == IF ecx = 0 THEN n ELSE 0

RepTest ==
  /\ \/ OnWord({"inc"}) /\ pos' = pos + Skipped(Distance) + 1
     \/ OnWord({"incimm"}) /\ pos' = pos + 1 + Skipped(Immediate) + 1
  /\ UNCHANGED <<counts, located, performed, gathered>>
  /\ StayInCall

Gather ==
  /\ OnWord({"offset", "read"})
  /\ pos' = pos + 1 /\ gathered' = gathered + 1
  /\ UNCHANGED <<counts, located, performed>>
  /\ StayInCall

\* The operation counts if the words before it were run in the same call: what they
\* read is in local variables of exec_inst.
Whole == gathered = Cardinality({i \in DOMAIN prog.string.words :
                                   prog.string.words[i].w \in {"offset", "read"}})

Apply ==
  /\ OnWord(Applying)
  /\ pos' = pos + 1 /\ gathered' = 0
  /\ performed' = IF Whole /\ prog.string.prefix # "none" THEN performed + 1 ELSE performed
  /\ \/ UNCHANGED located
     \/ OnWord(Storing) /\ located' = FALSE
  /\ UNCHANGED counts
  /\ StayInCall

StringFault ==
  /\ OnWord(Faulting \cup {"read"})
  /\ EXCEPTION_ERROR_CODE("PF")
  /\ UNCHANGED <<eip, frames>>
  /\ Raise

SetFlag ==
  /\ OnWord(OptionalFlags \cup {"ZF"})
  /\ pos' = pos + 1
  /\ \/ UNCHANGED zf
     \/ OnWord({"ZF"}) /\ zf' = ~zf
  /\ UNCHANGED <<ecx, located, performed, gathered>>
  /\ StayInCall

Decremented == (ecx + CountMax) % (CountMax + 1)

Continues ==
  /\ Decremented # 0
  /\ OnWord({"repe"}) => zf
  /\ OnWord({"repne"}) => ~zf

Back == IF OnWord({"dec"}) THEN pos - Distance ELSE pos + 1 - 1 - Immediate
Forward == IF OnWord({"dec"}) THEN pos + 1 ELSE pos + 2

RepNext ==
  /\ OnWord({"dec", "repe", "repne"})
  /\ ecx' = Decremented
  /\ IF Continues
     THEN /\ pos' = Back /\ phase' = "idle" /\ after' = "idle"
          /\ UNCHANGED <<guest, eip, iff, zf, frames, intr, inhibit, exc, located, halted,
                         counter, history>>
     ELSE /\ pos' = Forward
          /\ UNCHANGED <<zf, located, performed, gathered>>
          /\ StayInCall

StringEnd ==
  /\ OnWord({"eip"})
  /\ UNCHANGED <<iff, counts, frames, inhibit, exc, halted, shadow, wanted, performed>>
  /\ Retire

\* EIP is advanced before BC_HALT, which stays at its own position.
Halt ==
  /\ Running({"hlt"}) /\ ~halted
  /\ eip' = eip + 1 /\ halted' = TRUE /\ phase' = "idle" /\ after' = "idle"
  /\ UNCHANGED <<guest, iff, counts, frames, intr, inhibit, exc, located, pos, counter,
                 history>>

StayHalted ==
  /\ phase = "run" /\ halted
  /\ phase' = "idle" /\ after' = "idle"
  /\ UNCHANGED <<guest, eip, iff, counts, frames, intr, inhibit, exc, position, counter,
                 history>>

Jump ==
  /\ Running({"jmp"})
  /\ eip' = 1
  /\ UNCHANGED <<iff, frames>>
  /\ Branch

\* CALL near to the next address: jmp_near sets EIP, then the return address is pushed.
CallNear ==
  /\ Running({"call"})
  /\ eip' = eip + 1
  /\ \/ UNCHANGED <<iff, frames>> /\ Branch
     \/ EXCEPTION_ERROR_CODE("PF") /\ UNCHANGED frames /\ Raise

SoftwareInterrupt ==
  /\ Running({"int"})
  /\ \/ Accepted("soft", eip + 1, FALSE) /\ Branch
     \/ Refused("soft") /\ Raise

\* iret_protected pops EIP into its register, then checks the segment of CS.
Iret ==
  /\ Running({"iret"})
  /\ \/ frames = <<>> /\ EXCEPTION_ERROR_CODE("SS") /\ UNCHANGED <<eip, frames>> /\ Raise
     \/ /\ frames # <<>>
        /\ eip' = Last(frames).ret /\ frames' = Front(frames)
        /\ \/ iff' = Last(frames).iff /\ Branch
           \/ EXCEPTION_ERROR_CODE("GP") /\ Raise

ExecInst ==
  \/ StayHalted
  \/ /\ ~halted
     /\ \/ Plain \/ MemoryFault \/ Undefined \/ Sti \/ Cli \/ Popf \/ MoveToSS
        \/ SetCount \/ RepTest \/ Gather \/ Apply \/ StringFault \/ SetFlag \/ RepNext
        \/ StringEnd \/ Halt \/ Jump \/ CallNear
        \/ SoftwareInterrupt \/ Iret

Jit == ExecNextInst \/ Acknowledge \/ Cached \/ Decode \/ FetchFault \/ AssertionFails
       \/ Deliver \/ DeliverAgain \/ ExecInst
Next == SetIntr \/ Forget \/ Jit

Spec == Init /\ [][Next]_vars
\* The host keeps calling IA32_jit_exec_next_inst, and a call runs until it returns.
FairSpec == Spec /\ WF_vars(Jit)

(***************************************************************************)
(* Properties.                                                             *)
(***************************************************************************)

\* No interrupt is taken right after a STI that set IF or a load of SS, with the
\* flag of the shadow cleared before the instruction that may set it again
\* (jit.c 5836), and no other instruction delays an interrupt.
ShadowLastsOneInstruction == phase = "idle" => (inhibit <=> shadow)

\* A frame holds an error code if and only if its vector has one: what was left in
\* use_error_code by an exception the decoder ignored, by one delivered before or
\* by a nested one does not reach the stack of the guest.
ErrorCodeMatchesVector ==
  \A i \in DOMAIN frames : frames[i].code <=> frames[i].vec \in WithCode

\* A call that returns leaves no exception pending, except one that stands for an
\* interrupt of the host whose delivery failed (jit.c 5846).
NothingPending == phase = "idle" /\ exc.vec # NoVector => lost

\* A repeated string instruction is left when its count is zero, or when ZF stops a
\* comparison, and after as many whole operations as the count went down, however
\* many interrupts, faults and lost pages came between them.
RepeatsExactly ==
  [][OnWord({"eip"}) /\ prog.string.prefix # "none" =>
       /\ performed + ecx = wanted
       /\ \/ ecx = 0
          \/ prog.string.prefix = "repe" /\ ~zf
          \/ prog.string.prefix = "repne" /\ zf]_vars

\* Every call of the host ends: goto_eip and exception_body may take turns only
\* until the stack of the guest is full, and then the tries are counted.
EveryCallEnds ==
  phase \in {"run", "fetch", "deliver"} ~> phase \in {"idle", "asserted", "exited"}

\* While the host holds the line and IF stays set, interrupts are taken again and
\* again: neither the shadow, nor HLT, nor a long REP keeps them out for ever.
InterruptsTaken ==
  <>[](intr /\ iff) => []<><<Acknowledge>>_vars \/ <>(phase \in {"asserted", "exited"})

\* The handler of a fault is told the address of the instruction that faulted
\* (exception_body returns to EIP because it is still the old one), for the kinds
\* of instruction not in kinds.
FaultReported(kinds) ==
  phase = "deliver" /\ phase' = "fetch" /\ Code[origin] \notin kinds
    => Last(frames').ret = origin

\* The return address an exception of an instruction pushes is that of the
\* instruction (exception_body saves the EIP it finds): every step that enters
\* the handler of a fault, but for CALL near and IRET, which have changed EIP
\* before the step that may fault.
FaultReportsItsInstructionUnlessMoved == [][FaultReported({"call", "iret"})]_vars

=============================================================================
