-------------------------------- MODULE Fpu ---------------------------------
(***************************************************************************)
(* The x87 unit as the handlers of interpreter_fpu.h and the words of the  *)
(* JIT see it: the register stack, the exceptions recorded in the status   *)
(* word and their summary ES.  A handler is executed step by step; a check *)
(* whose exception is unmasked sets ES and suspends it: the interpreter    *)
(* returns, the JIT skips the words that test fpu_ok.  When the next       *)
(* instruction meets ES the program stops (fpu_check_exceptions exits), so *)
(* such a state has no successor.                                          *)
(***************************************************************************)
EXTENDS FpuSteps

CONSTANTS
  Insns,       \* the handlers: sequences of steps
  Exceptions,  \* the exceptions considered (all of them in the code)
  MaskChoices  \* what a program loads into the mask bits of FPU_CONTROL

ASSUME FpuAssumption ==
  /\ Insns \subseteq Seq(FpuStep)
  /\ "IE" \in Exceptions /\ Exceptions \subseteq AllExceptions
  /\ MaskChoices \subseteq SUBSET Exceptions

VARIABLES
  top,     \* FPU_TOP
  used,    \* the registers whose tag is not EMPTY
  exc,     \* the exception bits of FPU_STATUS
  sf, es,  \* FPU_STATUS_SF and FPU_STATUS_ES
  masked,  \* the mask bits of FPU_CONTROL
  loaded,  \* control or ES were loaded and nothing has recomputed ES
  rest,    \* what is left of the handler under way
  moved,   \* it has pushed, popped or freed, or stored after it stopped
  stopped, \* it has ended early or is suspended
  bad      \* it has used an empty register or pushed over a used one

status == <<exc, sf, es>>
stack == <<top, used>>
vars == <<top, used, exc, sf, es, masked, loaded, rest, moved, stopped, bad>>

ST(i) == (top + i) % NRegs
NewTop == (top + NRegs - 1) % NRegs

Summary(e, m) == e \ m # {}

\* After reset FPU_CONTROL is 0: nothing is masked.
Init ==
  /\ top = 0 /\ used = {}
  /\ exc = {} /\ sf = FALSE /\ es = FALSE
  /\ masked = {}
  /\ loaded = FALSE
  /\ rest = <<>> /\ moved = FALSE /\ stopped = FALSE /\ bad = FALSE

Begin ==
  /\ rest = <<>>
  /\ rest' \in Insns
  /\ moved' = FALSE /\ stopped' = FALSE /\ bad' = FALSE
  /\ UNCHANGED <<stack, status, masked, loaded>>

At_step(do) == rest # <<>> /\ rest[1].do = do /\ (stopped => do \in Unguarded)
Here == ST(rest[1].i)

Continue == rest' = Tail(rest) /\ UNCHANGED stopped
Suspend == rest' = Tail(rest) /\ stopped' = TRUE
Stop == rest' = <<>> /\ stopped' = TRUE

\* What a suspended handler does not execute.
Skip ==
  /\ stopped /\ rest # <<>> /\ rest[1].do \notin Unguarded
  /\ Continue
  /\ UNCHANGED <<stack, status, masked, loaded, moved, bad>>

\* A check has found its exception: it is recorded and, unless it is masked,
\* summarised and the handler suspended.
Found(e) ==
  /\ exc' = exc \cup {e}
  /\ IF e \in masked THEN UNCHANGED es /\ Continue ELSE es' = TRUE /\ Suspend

Accessing ==
  /\ \/ At_step("access") /\ moved' = (moved \/ stopped)
     \/ At_step("write") /\ UNCHANGED moved
  /\ Continue \/ Stop
  /\ UNCHANGED <<stack, status, masked, loaded, bad>>

CheckPending ==
  /\ At_step("pending")
  /\ ~es
  /\ Continue
  /\ UNCHANGED <<stack, status, masked, loaded, moved, bad>>

StackFault(fault) ==
  IF fault THEN sf' = TRUE /\ Found("IE") ELSE Continue /\ UNCHANGED status

\* As CheckUnderflow, of the top of the stack whichever register is meant.
CheckUnderflowOfTop ==
  /\ At_step("under") \/ At_step("select")
  /\ StackFault(top \notin used)
  /\ UNCHANGED <<stack, masked, loaded, moved, bad>>

CheckUnderflow ==
  /\ At_step("under") \/ At_step("select")
  /\ StackFault(Here \notin used)
  /\ UNCHANGED <<stack, masked, loaded, moved, bad>>

CheckOverflow ==
  /\ At_step("over")
  /\ StackFault(NewTop \in used)
  /\ UNCHANGED <<stack, masked, loaded, moved, bad>>

CheckException ==
  /\ At_step("raise")
  /\ \/ Continue /\ UNCHANGED status
     \/ rest[1].e \in Exceptions /\ Found(rest[1].e) /\ UNCHANGED sf
  /\ UNCHANGED <<stack, masked, loaded, moved, bad>>

UseRegister ==
  /\ At_step("use")
  /\ bad' = (bad \/ Here \notin used)
  /\ Continue
  /\ UNCHANGED <<stack, status, masked, loaded, moved>>

\* fpu_update_tag never makes a register empty.
SetRegister ==
  /\ At_step("set")
  /\ used' = used \cup {Here}
  /\ bad' = (bad \/ Here \notin used)
  /\ Continue
  /\ UNCHANGED <<top, status, masked, loaded, moved>>

\* Pushed registers get a tag of their own or, in FLD ST(i), that of ST(i).
Pushing ==
  /\ \/ At_step("push") /\ used' = used \cup {NewTop}
     \/ /\ At_step("push copy")
        /\ used' = IF Here \in used THEN used \cup {NewTop} ELSE used \ {NewTop}
  /\ top' = NewTop
  /\ bad' = (bad \/ NewTop \in used)
  /\ moved' = TRUE
  /\ Continue
  /\ UNCHANGED <<status, masked, loaded>>

Popping ==
  /\ At_step("pop")
  /\ used' = used \ {top}
  /\ top' = ST(1)
  /\ bad' = (bad \/ top \notin used)
  /\ moved' = TRUE
  /\ Continue
  /\ UNCHANGED <<status, masked, loaded>>

Freeing ==
  /\ At_step("free")
  /\ used' = used \ {Here}
  /\ moved' = TRUE
  /\ Continue
  /\ UNCHANGED <<top, status, masked, loaded, bad>>

\* FST ST(i) and FXCH copy tags along with values.
Copying ==
  /\ \/ At_step("copy") /\ used' = IF top \in used THEN used \cup {Here} ELSE used \ {Here}
     \/ /\ At_step("exchange")
        /\ used' = {r \in Regs : CASE r = top -> Here \in used
                                   [] r = Here -> top \in used
                                   [] OTHER -> r \in used}
  /\ bad' = (bad \/ top \notin used \/ (At_step("exchange") /\ Here \notin used))
  /\ Continue
  /\ UNCHANGED <<top, status, masked, loaded, moved>>

NoExceptions == exc' = {} /\ sf' = FALSE /\ es' = FALSE

Clearing ==
  /\ At_step("clear")
  /\ NoExceptions
  /\ loaded' = FALSE
  /\ Continue
  /\ UNCHANGED <<stack, masked, moved, bad>>

Initialising ==
  /\ At_step("initialise")
  /\ NoExceptions
  /\ masked' = Exceptions
  /\ top' = 0 /\ used' = {}
  /\ loaded' = FALSE
  /\ moved' = TRUE
  /\ Continue
  /\ UNCHANGED bad

\* As Updated, with ES left alone.
UpdatedNever == es' = es
\* fpu_update_exceptions
Updated == es' = Summary(exc, masked')

LoadingCw ==
  /\ At_step("load cw")
  /\ masked' \in MaskChoices
  /\ Updated
  /\ loaded' = FALSE
  /\ Continue
  /\ UNCHANGED <<stack, exc, sf, moved, bad>>

\* The parts of an image FRSTOR reads, one access after another.  Nothing in
\* the image is checked and TOP is not part of what it assigns.
LoadingControl ==
  /\ At_step("load control")
  /\ masked' \in MaskChoices
  /\ loaded' = TRUE
  /\ Continue
  /\ UNCHANGED <<stack, status, moved, bad>>

LoadingStatus ==
  /\ At_step("load status")
  /\ exc' \in SUBSET Exceptions
  /\ sf' \in BOOLEAN /\ es' \in BOOLEAN
  /\ loaded' = TRUE
  /\ Continue
  /\ UNCHANGED <<stack, masked, moved, bad>>

LoadingTags ==
  /\ At_step("load tags")
  /\ used' \in SUBSET Regs
  /\ Continue
  /\ UNCHANGED <<top, status, masked, loaded, moved, bad>>

Next ==
  \/ Begin \/ Skip
  \/ Accessing \/ CheckPending \/ CheckUnderflow \/ CheckOverflow \/ CheckException
  \/ UseRegister \/ SetRegister \/ Pushing \/ Popping \/ Freeing \/ Copying
  \/ Clearing \/ Initialising \/ LoadingCw
  \/ LoadingControl \/ LoadingStatus \/ LoadingTags

Spec == Init /\ [][Next]_vars

-----------------------------------------------------------------------------
TypeOK ==
  /\ top \in Regs /\ used \subseteq Regs
  /\ exc \subseteq Exceptions /\ masked \subseteq Exceptions
  /\ {sf, es, loaded, moved, stopped, bad} \subseteq BOOLEAN
  /\ rest \in Seq(FpuStep)

\* ES says at every moment whether an unmasked exception is recorded, though
\* the checks, FCLEX, FINIT, FSAVE and FLDCW each change only their part of
\* it (fpu_update_exceptions is called by the interpreter's FLDCW alone).  The
\* exception is what FRSTOR, and in the JIT FLDCW, loads: nothing recomputes it.
ESIsSummary == ~loaded => (es <=> Summary(exc, masked))

\* A handler that ends early, on a fault of the guest or an unmasked FPU
\* exception, has pushed, popped and freed nothing: executed again it meets
\* the same stack.  Nor does a suspended one store or pop afterwards, "es
\* suspen l'operació" (jit_exec.h:3041).  (FRSTOR does neither, it replaces
\* the tags.)
StoppedBeforeMoving == stopped => ~moved

\* A handler whose checks and accesses all precede its moves, and its accesses
\* that nothing guards the checks.
Ordered(s) ==
  /\ \A j, k \in DOMAIN s : s[j].do \in Moving /\ s[k].do \in Stopping => k < j
  /\ \A j, k \in DOMAIN s : s[j].do = "access" /\ s[k].do \in Checking => j < k

\* What the steps of a handler have made sure of, unless they recorded that it
\* is not so or suspended the handler: these ST(i) are used, and there is room
\* for one more register.
Nothing == [known |-> {}, room |-> FALSE]

\* The registers a step takes to be used.
Needs(step) ==
  CASE step.do \in {"use", "set"} -> {step.i}
    [] step.do \in {"pop", "copy"} -> {0}
    [] step.do = "exchange" -> {0, step.i}
    [] OTHER -> {}

Pushes == {"push", "push copy"}
Wiping == {"clear", "initialise", "load cw", "load control", "load status"}
Touching == {"use", "set", "pop", "copy", "exchange"} \cup Pushes

Below(known) == {(i + 1) % NRegs : i \in known}
Above(known) == {i \in Regs : (i + 1) % NRegs \in known \ {0}}

KnownAfter(known, step) ==
  CASE step.do \in {"under", "select", "copy"} -> known \cup {step.i}
    [] step.do = "push" -> {0} \cup Below(known)
    [] step.do = "push copy" -> Below(known) \ {0}
    [] step.do = "pop" -> Above(known)
    [] step.do = "free" -> known \ {step.i}
    [] step.do \in Wiping \cup {"load tags"} -> {}
    [] OTHER -> known

RoomAfter(room, step) ==
  step.do = "over" \/ (room /\ step.do \in Stopping \cup {"use", "set", "exchange"})

After(sure, step) == [known |-> KnownAfter(sure.known, step),
                      room |-> RoomAfter(sure.room, step)]

\* The checks of a handler cover its uses: an outline of what it is sure of
\* before each step.  What it has recorded it does not wipe away itself.
Outline(sure, s) ==
  /\ \A k \in 1 .. Len(s) :
       /\ sure[k + 1] = After(sure[k], s[k])
       /\ Needs(s[k]) \subseteq sure[k].known
       /\ s[k].do \in Pushes => sure[k].room
  /\ \A j, k \in 1 .. Len(s) : j < k /\ s[k].do \in Wiping => s[j].do \notin Touching

\* No handler reads an empty register, or pushes over one in use, unless the
\* program masked the invalid operation and SF and IE tell it.
StackFaultRecorded == bad => sf /\ "IE" \in exc /\ "IE" \in masked

=============================================================================
