----------------------------- MODULE FpuProofs ------------------------------
(***************************************************************************)
(* What holds of the x87 unit for every size of the stack and every set of *)
(* handlers made of FpuSteps.                                              *)
(***************************************************************************)
EXTENDS Fpu, TLAPS

LEMMA StepTyped ==
  ASSUME TypeOK, rest # <<>>
  PROVE  /\ rest[1] \in FpuStep
         /\ rest[1].i \in Regs /\ rest[1].e \in AllExceptions
         /\ Tail(rest) \in Seq(FpuStep)
<1>1. rest[1] \in FpuStep /\ Tail(rest) \in Seq(FpuStep)
  BY DEF TypeOK
<1>2. QED
  BY <1>1 DEF FpuStep

LEMMA RegsTyped ==
  ASSUME TypeOK
  PROVE  /\ \A i \in Regs : ST(i) \in Regs
         /\ ST(1) \in Regs
         /\ NewTop \in Regs
         /\ 0 \in Regs
<1>1. NRegs \in Nat /\ NRegs > 0 /\ top \in Nat
  BY NRegsAssumption DEF TypeOK, Regs
<1>2. \A n \in Nat : n % NRegs \in Regs
  BY <1>1 DEF Regs
<1>3. /\ \A i \in Regs : top + i \in Nat
      /\ top + 1 \in Nat /\ top + NRegs - 1 \in Nat
  BY <1>1 DEF Regs
<1>4. QED
  BY <1>1, <1>2, <1>3 DEF ST, NewTop, Regs

\* What a handler does with the bytes ahead of it.
LEMMA RestTyped ==
  ASSUME TypeOK, rest # <<>>, Continue \/ Suspend \/ Stop
  PROVE  rest' \in Seq(FpuStep) /\ stopped' \in BOOLEAN
<1>1. Tail(rest) \in Seq(FpuStep)
  BY StepTyped
<1>2. <<>> \in Seq(FpuStep) /\ stopped \in BOOLEAN
  BY DEF TypeOK
<1>3. QED
  BY <1>1, <1>2 DEF Continue, Suspend, Stop

LEMMA FoundTyped ==
  ASSUME TypeOK, rest # <<>>, NEW e \in Exceptions, Found(e)
  PROVE  exc' \subseteq Exceptions /\ es' \in BOOLEAN
         /\ rest' \in Seq(FpuStep) /\ stopped' \in BOOLEAN
<1>1. Continue \/ Suspend
  BY DEF Found
<1>2. exc' \subseteq Exceptions /\ es' \in BOOLEAN
  BY DEF Found, TypeOK
<1>3. QED
  BY <1>1, <1>2, RestTyped

-----------------------------------------------------------------------------
(***************************************************************************)
(* Types                                                                   *)
(***************************************************************************)
LEMMA InitTyped == Init => TypeOK
<1>1. 0 \in Regs
  BY NRegsAssumption DEF Regs
<1>2. <<>> \in Seq(FpuStep)
  OBVIOUS
<1>3. QED
  BY <1>1, <1>2 DEF Init, TypeOK

\* The checks leave the stack and the mask alone.
LEMMA ChecksTyped ==
  ASSUME TypeOK,
         \/ Accessing \/ CheckPending \/ Skip
         \/ CheckUnderflow \/ CheckOverflow \/ CheckException
  PROVE  TypeOK'
<1>1. CASE Accessing \/ CheckPending \/ Skip
  <2>1. rest # <<>> /\ (Continue \/ Stop)
    BY <1>1 DEF Accessing, CheckPending, Skip, At_step
  <2>2. rest' \in Seq(FpuStep) /\ stopped' \in BOOLEAN
    BY <2>1, RestTyped
  <2>3. UNCHANGED <<top, used, exc, sf, es, masked, loaded, bad>>
    BY <1>1 DEF Accessing, CheckPending, Skip, stack, status
  <2>4. moved' \in BOOLEAN
    BY <1>1 DEF Accessing, CheckPending, Skip, TypeOK
  <2>5. QED
    BY <2>2, <2>3, <2>4 DEF TypeOK
<1>2. CASE CheckUnderflow \/ CheckOverflow
  <2>1. rest # <<>> /\ (StackFault(Here \notin used) \/ StackFault(NewTop \in used))
    BY <1>2 DEF CheckUnderflow, CheckOverflow, At_step
  <2>2. UNCHANGED <<top, used, masked, loaded, moved, bad>>
    BY <1>2 DEF CheckUnderflow, CheckOverflow, stack
  <2>3. \/ Continue /\ UNCHANGED status
        \/ sf' = TRUE /\ Found("IE")
    BY <2>1 DEF StackFault
  <2>4. CASE Continue /\ UNCHANGED status
    <3>1. rest' \in Seq(FpuStep) /\ stopped' \in BOOLEAN
      BY <2>1, <2>4, RestTyped
    <3>2. UNCHANGED <<exc, sf, es>>
      BY <2>4 DEF status
    <3>3. QED
      BY <2>2, <3>1, <3>2 DEF TypeOK
  <2>5. CASE sf' = TRUE /\ Found("IE")
    <3>1. /\ exc' \subseteq Exceptions /\ es' \in BOOLEAN
          /\ rest' \in Seq(FpuStep) /\ stopped' \in BOOLEAN
      BY <2>1, <2>5, FpuAssumption, FoundTyped
    <3>2. QED
      BY <2>2, <2>5, <3>1 DEF TypeOK
  <2>6. QED
    BY <2>3, <2>4, <2>5
<1>3. CASE CheckException
  <2>1. /\ rest # <<>>
        /\ UNCHANGED <<top, used, masked, loaded, moved, bad>>
        /\ \/ Continue /\ UNCHANGED status
           \/ rest[1].e \in Exceptions /\ Found(rest[1].e) /\ UNCHANGED sf
    BY <1>3 DEF CheckException, At_step, stack
  <2>2. CASE Continue /\ UNCHANGED status
    <3>1. rest' \in Seq(FpuStep) /\ stopped' \in BOOLEAN
      BY <2>1, <2>2, RestTyped
    <3>2. UNCHANGED <<exc, sf, es>>
      BY <2>2 DEF status
    <3>3. QED
      BY <2>1, <3>1, <3>2 DEF TypeOK
  <2>3. CASE rest[1].e \in Exceptions /\ Found(rest[1].e) /\ UNCHANGED sf
    <3>1. /\ exc' \subseteq Exceptions /\ es' \in BOOLEAN
          /\ rest' \in Seq(FpuStep) /\ stopped' \in BOOLEAN
      BY <2>1, <2>3, FoundTyped
    <3>2. QED
      BY <2>1, <2>3, <3>1 DEF TypeOK
  <2>4. QED
    BY <2>1, <2>2, <2>3
<1>4. QED
  BY <1>1, <1>2, <1>3

\* The steps that read or move registers leave the status alone.
Registers == UseRegister \/ SetRegister \/ Pushing \/ Popping \/ Freeing \/ Copying

LEMMA RegistersTyped ==
  ASSUME TypeOK, Registers
  PROVE  TypeOK'
<1>1. rest # <<>> /\ Continue
  BY DEF Registers, UseRegister, SetRegister, Pushing, Popping, Freeing, Copying, At_step
<1>2. rest' \in Seq(FpuStep) /\ stopped' \in BOOLEAN
  BY <1>1, RestTyped
<1>3. Here \in Regs /\ NewTop \in Regs /\ ST(1) \in Regs
  BY <1>1, StepTyped, RegsTyped DEF Here
<1>4. UNCHANGED <<exc, sf, es, masked, loaded>>
  BY DEF Registers, UseRegister, SetRegister, Pushing, Popping, Freeing, Copying, status
<1>5. top' \in Regs
  BY <1>3 DEF Registers, UseRegister, SetRegister, Pushing, Popping, Freeing, Copying,
              stack, TypeOK
<1>6. used' \subseteq Regs
  <2>1. used \subseteq Regs /\ top \in Regs
    BY DEF TypeOK
  <2>2. CASE UseRegister
    BY <2>1, <2>2 DEF UseRegister, stack
  <2>3. CASE SetRegister
    BY <1>3, <2>1, <2>3 DEF SetRegister
  <2>4. CASE Pushing
    BY <1>3, <2>1, <2>4 DEF Pushing
  <2>5. CASE Popping
    BY <2>1, <2>5 DEF Popping
  <2>6. CASE Freeing
    BY <2>1, <2>6 DEF Freeing
  <2>7. CASE Copying
    BY <1>3, <2>1, <2>7 DEF Copying
  <2>8. QED
    BY <2>2, <2>3, <2>4, <2>5, <2>6, <2>7 DEF Registers
<1>7. moved' \in BOOLEAN /\ bad' \in BOOLEAN
  BY DEF Registers, UseRegister, SetRegister, Pushing, Popping, Freeing, Copying, TypeOK
<1>8. QED
  BY <1>2, <1>4, <1>5, <1>6, <1>7 DEF TypeOK

\* The steps that write the status and control words.
Control == Clearing \/ Initialising \/ LoadingCw
             \/ LoadingControl \/ LoadingStatus \/ LoadingTags

LEMMA ControlTyped ==
  ASSUME TypeOK, Control
  PROVE  TypeOK'
<1>1. rest # <<>> /\ Continue
  BY DEF Control, Clearing, Initialising, LoadingCw, LoadingControl, LoadingStatus,
         LoadingTags, At_step
<1>2. rest' \in Seq(FpuStep) /\ stopped' \in BOOLEAN
  BY <1>1, RestTyped
<1>3. 0 \in Regs
  BY RegsTyped
<1>4. MaskChoices \subseteq SUBSET Exceptions
  BY FpuAssumption
<1>5. top' \in Regs /\ used' \subseteq Regs
  BY <1>3 DEF Control, Clearing, Initialising, LoadingCw, LoadingControl, LoadingStatus,
              LoadingTags, stack, TypeOK
<1>6. exc' \subseteq Exceptions
  BY DEF Control, Clearing, Initialising, LoadingCw, LoadingControl, LoadingStatus,
         LoadingTags, NoExceptions, status, TypeOK
<1>7. masked' \subseteq Exceptions
  BY <1>4 DEF Control, Clearing, Initialising, LoadingCw, LoadingControl, LoadingStatus,
              LoadingTags, TypeOK
<1>8. sf' \in BOOLEAN /\ es' \in BOOLEAN
  BY DEF Control, Clearing, Initialising, LoadingCw, LoadingControl, LoadingStatus,
         LoadingTags, NoExceptions, Updated, Summary, status, TypeOK
<1>9. loaded' \in BOOLEAN /\ moved' \in BOOLEAN /\ bad' \in BOOLEAN
  BY DEF Control, Clearing, Initialising, LoadingCw, LoadingControl, LoadingStatus,
         LoadingTags, TypeOK
<1>10. QED
  BY <1>2, <1>5, <1>6, <1>7, <1>8, <1>9 DEF TypeOK

LEMMA NextCases ==
  ASSUME Next
  PROVE  \/ Begin \/ Skip
         \/ Accessing \/ CheckPending \/ CheckUnderflow \/ CheckOverflow \/ CheckException
         \/ Registers
         \/ Control
  BY DEF Next, Registers, Control

LEMMA StepKeepsTypes ==
  ASSUME TypeOK, [Next]_vars
  PROVE  TypeOK'
<1>1. CASE Begin
  <2>1. rest' \in Seq(FpuStep)
    BY <1>1, FpuAssumption DEF Begin
  <2>2. QED
    BY <1>1, <2>1 DEF Begin, TypeOK, stack, status
<1>2. CASE Next
  BY <1>1, <1>2, NextCases, ChecksTyped, RegistersTyped, ControlTyped
<1>3. CASE UNCHANGED vars
  BY <1>3 DEF vars, TypeOK
<1>4. QED
  BY <1>2, <1>3

\* For every size of the register stack and every set of handlers, TOP and
\* the registers a handler touches stay on the stack, and the status word
\* holds exceptions only.
THEOREM FpuTyped == Spec => []TypeOK
<1>1. Init => TypeOK
  BY InitTyped
<1>2. TypeOK /\ [Next]_vars => TypeOK'
  BY StepKeepsTypes
<1>3. QED
  BY <1>1, <1>2, PTL DEF Spec

-----------------------------------------------------------------------------
(***************************************************************************)
(* The summary of the exceptions                                           *)
(***************************************************************************)
LEMMA FoundKeepsSummary ==
  ASSUME ESIsSummary, NEW e, Found(e), UNCHANGED <<masked, loaded>>
  PROVE  ESIsSummary'
<1>1. SUFFICES ASSUME ~loaded
              PROVE  es' <=> Summary(exc', masked)
  BY DEF ESIsSummary, Summary
<1>2. es <=> exc \ masked # {}
  BY <1>1 DEF ESIsSummary, Summary
<1>3. exc' = exc \cup {e}
  BY DEF Found
<1>4. CASE e \in masked
  <2>1. es' = es
    BY <1>4 DEF Found
  <2>2. exc' \ masked = exc \ masked
    BY <1>3, <1>4
  <2>3. QED
    BY <1>2, <2>1, <2>2 DEF Summary
<1>5. CASE e \notin masked
  <2>1. es' = TRUE
    BY <1>5 DEF Found
  <2>2. e \in exc' \ masked
    BY <1>3, <1>5
  <2>3. QED
    BY <2>1, <2>2 DEF Summary
<1>6. QED
  BY <1>4, <1>5

LEMMA StepKeepsSummary ==
  ASSUME ESIsSummary, [Next]_vars
  PROVE  ESIsSummary'
<1>1. CASE UNCHANGED <<exc, es, masked, loaded>>
  BY <1>1 DEF ESIsSummary, Summary
<1>2. CASE CheckUnderflow \/ CheckOverflow \/ CheckException
  <2>1. UNCHANGED <<masked, loaded>>
    BY <1>2 DEF CheckUnderflow, CheckOverflow, CheckException
  <2>2. UNCHANGED <<exc, es>> \/ \E e \in AllExceptions \cup Exceptions : Found(e)
    BY <1>2 DEF CheckUnderflow, CheckOverflow, CheckException, StackFault, status,
               AllExceptions
  <2>3. CASE UNCHANGED <<exc, es>>
    BY <1>1, <2>1, <2>3
  <2>4. CASE \E e \in AllExceptions \cup Exceptions : Found(e)
    BY <2>1, <2>4, FoundKeepsSummary
  <2>5. QED
    BY <2>2, <2>3, <2>4
<1>3. CASE Clearing \/ Initialising
  <2>1. exc' = {} /\ es' = FALSE
    BY <1>3 DEF Clearing, Initialising, NoExceptions
  <2>2. QED
    BY <2>1 DEF ESIsSummary, Summary
<1>4. CASE LoadingCw
  <2>1. es' = Summary(exc, masked') /\ exc' = exc
    BY <1>4 DEF LoadingCw, Updated
  <2>2. QED
    BY <2>1 DEF ESIsSummary, Summary
<1>5. CASE LoadingControl
  BY <1>5 DEF LoadingControl, ESIsSummary
<1>6. CASE LoadingStatus
  BY <1>6 DEF LoadingStatus, ESIsSummary
<1>7. CASE \/ Begin \/ Skip \/ Accessing \/ CheckPending \/ Registers \/ LoadingTags
           \/ UNCHANGED vars
  <2>1. UNCHANGED <<exc, es, masked, loaded>>
    BY <1>7 DEF Begin, Skip, Accessing, CheckPending, Registers, UseRegister, SetRegister,
                Pushing, Popping, Freeing, Copying, LoadingTags, status, vars
  <2>2. QED
    BY <1>1, <2>1
<1>8. QED
  BY <1>2, <1>3, <1>4, <1>5, <1>6, <1>7, NextCases DEF Control

\* Whatever the handlers do and however they are cut short, ES is set exactly
\* when an unmasked exception is recorded, until FRSTOR loads both words.
THEOREM ESAlwaysSummary == Spec => []ESIsSummary
<1>1. Init => ESIsSummary
  BY DEF Init, ESIsSummary, Summary
<1>2. ESIsSummary /\ [Next]_vars => ESIsSummary'
  BY StepKeepsSummary
<1>3. QED
  BY <1>1, <1>2, PTL DEF Spec

-----------------------------------------------------------------------------
(***************************************************************************)
(* Handlers that end early                                                 *)
(***************************************************************************)
HandlersAreOrdered == \A s \in Insns : Ordered(s)

\* Behind the first move of a handler nothing can end it any more, and when it
\* is suspended no access is left that nothing guards.
Moved ==
  /\ Ordered(rest)
  /\ moved => \A k \in DOMAIN rest : rest[k].do \notin Stopping
  /\ stopped => ~moved /\ \A k \in DOMAIN rest : rest[k].do # "access"

LEMMA TailOrdered ==
  ASSUME TypeOK, Moved, rest # <<>>
  PROVE  /\ Ordered(Tail(rest))
         /\ moved => \A k \in DOMAIN Tail(rest) : Tail(rest)[k].do \notin Stopping
         /\ rest[1].do \in Moving =>
              \A k \in DOMAIN Tail(rest) : Tail(rest)[k].do \notin Stopping
         /\ stopped \/ rest[1].do \in Checking =>
              \A k \in DOMAIN Tail(rest) : Tail(rest)[k].do # "access"
<1>1. rest \in Seq(FpuStep)
  BY DEF TypeOK
<1>2. \A k \in DOMAIN Tail(rest) :
        k \in Nat /\ k > 0 /\ k + 1 \in DOMAIN rest /\ Tail(rest)[k] = rest[k + 1]
  BY <1>1
<1>3. 1 \in DOMAIN rest
  BY <1>1
<1>4. /\ \A j, k \in DOMAIN rest : rest[j].do \in Moving /\ rest[k].do \in Stopping => k < j
      /\ \A j, k \in DOMAIN rest : rest[j].do = "access" /\ rest[k].do \in Checking => j < k
  BY DEF Moved, Ordered
<1>5. Ordered(Tail(rest))
  <2>1. ASSUME NEW j \in DOMAIN Tail(rest), NEW k \in DOMAIN Tail(rest),
               Tail(rest)[j].do \in Moving, Tail(rest)[k].do \in Stopping
        PROVE  k < j
    <3>1. rest[j + 1].do \in Moving /\ rest[k + 1].do \in Stopping
      BY <1>2, <2>1
    <3>2. k + 1 < j + 1
      BY <1>2, <1>4, <3>1
    <3>3. QED
      BY <1>2, <3>2
  <2>2. ASSUME NEW j \in DOMAIN Tail(rest), NEW k \in DOMAIN Tail(rest),
               Tail(rest)[j].do = "access", Tail(rest)[k].do \in Checking
        PROVE  j < k
    <3>1. rest[j + 1].do = "access" /\ rest[k + 1].do \in Checking
      BY <1>2, <2>2
    <3>2. j + 1 < k + 1
      BY <1>2, <1>4, <3>1
    <3>3. QED
      BY <1>2, <3>2
  <2>3. QED
    BY <2>1, <2>2 DEF Ordered
<1>6. moved => \A k \in DOMAIN Tail(rest) : Tail(rest)[k].do \notin Stopping
  BY <1>2 DEF Moved
<1>7. ASSUME rest[1].do \in Moving, NEW k \in DOMAIN Tail(rest),
             Tail(rest)[k].do \in Stopping
      PROVE  FALSE
  <2>1. rest[k + 1].do \in Stopping
    BY <1>2, <1>7
  <2>2. k + 1 < 1
    BY <1>2, <1>3, <1>4, <1>7, <2>1
  <2>3. QED
    BY <1>2, <2>2
<1>8. stopped => \A k \in DOMAIN Tail(rest) : Tail(rest)[k].do # "access"
  BY <1>2 DEF Moved
<1>9. ASSUME rest[1].do \in Checking, NEW k \in DOMAIN Tail(rest),
             Tail(rest)[k].do = "access"
      PROVE  FALSE
  <2>1. rest[k + 1].do = "access"
    BY <1>2, <1>9
  <2>2. k + 1 < 1
    BY <1>2, <1>3, <1>4, <1>9, <2>1
  <2>3. QED
    BY <1>2, <2>2
<1>10. QED
  BY <1>5, <1>6, <1>7, <1>8, <1>9

\* A step that continues and moves nothing, or moves; one that suspends; one
\* that stops.
LEMMA ContinueKeepsMoved ==
  ASSUME TypeOK, Moved, rest # <<>>, Continue,
         UNCHANGED moved \/ (rest[1].do \in Moving /\ ~stopped)
  PROVE  Moved'
<1>1. rest' = Tail(rest) /\ stopped' = stopped
  BY DEF Continue
<1>2. Ordered(Tail(rest))
  BY TailOrdered
<1>3. moved' => \A k \in DOMAIN Tail(rest) : Tail(rest)[k].do \notin Stopping
  BY TailOrdered
<1>4. stopped => \A k \in DOMAIN Tail(rest) : Tail(rest)[k].do # "access"
  BY TailOrdered
<1>5. stopped => ~moved'
  BY DEF Moved
<1>6. QED
  BY <1>1, <1>2, <1>3, <1>4, <1>5 DEF Moved, Ordered

LEMMA NotMovedBefore ==
  ASSUME TypeOK, Moved, rest # <<>>, rest[1].do \in Stopping
  PROVE  ~moved
<1>1. 1 \in DOMAIN rest
  BY DEF TypeOK
<1>2. QED
  BY <1>1 DEF Moved

LEMMA SuspendKeepsMoved ==
  ASSUME TypeOK, Moved, rest # <<>>, rest[1].do \in Checking, Suspend, UNCHANGED moved
  PROVE  Moved'
<1>1. ~moved
  BY NotMovedBefore DEF Stopping
<1>2. rest' = Tail(rest) /\ ~moved'
  BY <1>1 DEF Suspend
<1>3. Ordered(Tail(rest)) /\ \A k \in DOMAIN Tail(rest) : Tail(rest)[k].do # "access"
  BY TailOrdered
<1>4. QED
  BY <1>2, <1>3 DEF Moved, Ordered

LEMMA StopKeepsMoved ==
  ASSUME TypeOK, Moved, rest # <<>>, rest[1].do \in Stopping, Stop, UNCHANGED moved
  PROVE  Moved'
<1>1. rest' = <<>> /\ ~moved'
  BY NotMovedBefore DEF Stop
<1>2. DOMAIN rest' = {}
  BY <1>1
<1>3. QED
  BY <1>1, <1>2 DEF Moved, Ordered

LEMMA StepKeepsMoved ==
  ASSUME HandlersAreOrdered, TypeOK, Moved, [Next]_vars
  PROVE  Moved'
<1>1. CASE Begin
  <2>1. Ordered(rest') /\ moved' = FALSE /\ stopped' = FALSE
    BY <1>1 DEF Begin, HandlersAreOrdered
  <2>2. QED
    BY <2>1 DEF Moved, Ordered
<1>2. CASE Skip
  BY <1>2, ContinueKeepsMoved DEF Skip
<1>3. CASE Accessing \/ CheckPending
  <2>1. rest # <<>> /\ rest[1].do \in Stopping /\ 1 \in DOMAIN rest
    BY <1>3 DEF Accessing, CheckPending, At_step, Stopping, TypeOK
  <2>2. UNCHANGED moved
    <3>1. stopped => rest[1].do # "access"
      BY <2>1 DEF Moved
    <3>2. moved \in BOOLEAN
      BY DEF TypeOK
    <3>3. CASE At_step("access") /\ moved' = (moved \/ stopped)
      BY <3>1, <3>2, <3>3 DEF At_step
    <3>4. QED
      BY <1>3, <3>3 DEF Accessing, CheckPending
  <2>3. Continue \/ Stop
    BY <1>3 DEF Accessing, CheckPending
  <2>4. QED
    BY <2>1, <2>2, <2>3, ContinueKeepsMoved, StopKeepsMoved
<1>4. CASE CheckUnderflow \/ CheckOverflow \/ CheckException
  <2>1. rest # <<>> /\ rest[1].do \in Checking /\ UNCHANGED moved
    BY <1>4 DEF CheckUnderflow, CheckOverflow, CheckException, At_step, Checking
  <2>2. Continue \/ Suspend
    BY <1>4 DEF CheckUnderflow, CheckOverflow, CheckException, StackFault, Found
  <2>3. QED
    BY <2>1, <2>2, ContinueKeepsMoved, SuspendKeepsMoved
<1>5. CASE Registers \/ Control
  <2>1. rest # <<>> /\ Continue
    BY <1>5 DEF Registers, UseRegister, SetRegister, Pushing, Popping, Freeing, Copying,
                Control, Clearing, Initialising, LoadingCw, LoadingControl, LoadingStatus,
                LoadingTags, At_step
  <2>2. UNCHANGED moved \/ (rest[1].do \in Moving /\ ~stopped)
    BY <1>5 DEF Registers, UseRegister, SetRegister, Pushing, Popping, Freeing, Copying,
                Control, Clearing, Initialising, LoadingCw, LoadingControl, LoadingStatus,
                LoadingTags, At_step, Moving, Unguarded
  <2>3. QED
    BY <2>1, <2>2, ContinueKeepsMoved
<1>6. CASE UNCHANGED vars
  BY <1>6 DEF vars, Moved, Ordered
<1>7. QED
  BY <1>1, <1>2, <1>3, <1>4, <1>5, <1>6, NextCases

\* Handlers whose checks and accesses precede their moves, as all those of
\* interpreter_fpu.h and all but one of the JIT's do, can always be executed
\* again over the same stack.
THEOREM StopsAlwaysBeforeMoves ==
  ASSUME HandlersAreOrdered
  PROVE  Spec => []StoppedBeforeMoving
<1>1. Init => TypeOK /\ Moved
  <2>1. Init => Moved
    BY DEF Init, Moved, Ordered
  <2>2. QED
    BY <2>1, InitTyped
<1>2. (TypeOK /\ Moved) /\ [Next]_vars => (TypeOK /\ Moved)'
  BY StepKeepsTypes, StepKeepsMoved
<1>3. TypeOK /\ Moved => StoppedBeforeMoving
  BY DEF Moved, StoppedBeforeMoving
<1>4. QED
  BY <1>1, <1>2, <1>3, PTL DEF Spec

-----------------------------------------------------------------------------
(***************************************************************************)
(* Stack faults                                                            *)
(***************************************************************************)
LEMMA Wraps ==
  ASSUME NEW n \in Nat, n < 2 * NRegs
  PROVE  n % NRegs = IF n < NRegs THEN n ELSE n - NRegs
<1>1. NRegs \in Nat /\ NRegs > 0
  BY NRegsAssumption
<1>2. CASE n < NRegs
  BY <1>1, <1>2
<1>3. CASE ~(n < NRegs)
  BY <1>1, <1>3
<1>4. QED
  BY <1>2, <1>3

\* ST(i) is one register for every i, and where it is when TOP moves.
LEMMA STDistinct ==
  ASSUME TypeOK, NEW i \in Regs, NEW j \in Regs, ST(i) = ST(j)
  PROVE  i = j
<1>1. NRegs \in Nat /\ top \in Nat /\ top < NRegs /\ i \in Nat /\ i < NRegs
      /\ j \in Nat /\ j < NRegs
  BY NRegsAssumption DEF TypeOK, Regs
<1> DEFINE w(n) == IF n < NRegs THEN n ELSE n - NRegs
<1>2. \A n \in Nat : n < 2 * NRegs => n % NRegs = w(n)
  BY Wraps
<1>3. /\ top + i \in Nat /\ top + i < 2 * NRegs
      /\ top + j \in Nat /\ top + j < 2 * NRegs
  BY <1>1
<1>4. ST(i) = w(top + i) /\ ST(j) = w(top + j)
  BY <1>2, <1>3 DEF ST
<1>5. w(top + i) = w(top + j)
  BY <1>4
<1>6. QED
  BY <1>1, <1>5

LEMMA Rotations ==
  ASSUME TypeOK, NEW i \in Regs
  PROVE  /\ (i + 1) % NRegs \in Regs
         /\ top' = NewTop => ST(0)' = NewTop /\ (ST((i + 1) % NRegs))' = ST(i)
         /\ top' = ST(1) => ST(i)' = ST((i + 1) % NRegs)
         /\ ST(0) = top
<1>1. NRegs \in Nat /\ NRegs > 0 /\ top \in Nat /\ top < NRegs /\ i \in Nat /\ i < NRegs
  BY NRegsAssumption DEF TypeOK, Regs
<1> DEFINE w(n) == IF n < NRegs THEN n ELSE n - NRegs
<1>2. \A n \in Nat : n < 2 * NRegs => n % NRegs = w(n)
  BY Wraps
<1>3. (i + 1) % NRegs = w(i + 1)
  BY <1>1, <1>2
<1>4. w(i + 1) \in Nat /\ w(i + 1) < NRegs
  BY <1>1
<1>5. /\ NewTop = w(top + NRegs - 1) /\ NewTop \in Nat /\ NewTop < NRegs
  <2>1. top + NRegs - 1 \in Nat /\ top + NRegs - 1 < 2 * NRegs
    BY <1>1
  <2>2. NewTop = w(top + NRegs - 1)
    BY <1>2, <2>1 DEF NewTop
  <2>3. QED
    BY <1>1, <2>2
<1>6. ST(0) = top
  BY <1>1, <1>2 DEF ST
<1>7. ST(i) = w(top + i)
  BY <1>1, <1>2 DEF ST
<1>8. ASSUME top' = NewTop
      PROVE  ST(0)' = NewTop /\ (ST((i + 1) % NRegs))' = ST(i)
  <2>1. ST(0)' = w(NewTop)
    <3>1. ST(0)' = (NewTop + 0) % NRegs
      BY <1>8 DEF ST
    <3>2. NewTop + 0 = NewTop /\ NewTop < 2 * NRegs
      BY <1>1, <1>5
    <3>3. QED
      BY <1>2, <1>5, <3>1, <3>2
  <2>2. (ST((i + 1) % NRegs))' = (NewTop + w(i + 1)) % NRegs
    BY <1>3, <1>8 DEF ST
  <2>3. NewTop + w(i + 1) \in Nat /\ NewTop + w(i + 1) < 2 * NRegs
    BY <1>1, <1>4, <1>5
  <2>4. (NewTop + w(i + 1)) % NRegs = w(NewTop + w(i + 1))
    BY <1>2, <2>3
  <2>5. QED
    BY <1>1, <1>5, <1>7, <2>1, <2>2, <2>4
<1>9. ASSUME top' = ST(1)
      PROVE  ST(i)' = ST((i + 1) % NRegs)
  <2>1. top' = w(top + 1) /\ top' \in Nat /\ top' < NRegs
    BY <1>1, <1>2, <1>9 DEF ST
  <2>2. ST(i)' = w(top' + i)
    BY <1>1, <1>2, <2>1 DEF ST
  <2>3. ST((i + 1) % NRegs) = w(top + w(i + 1))
    <3>1. top + w(i + 1) \in Nat /\ top + w(i + 1) < 2 * NRegs
      BY <1>1, <1>4
    <3>2. QED
      BY <1>2, <1>3, <3>1 DEF ST
  <2>4. QED
    BY <1>1, <2>1, <2>2, <2>3
<1>10. QED
  BY <1>1, <1>3, <1>4, <1>6, <1>8, <1>9 DEF Regs

HandlersCheck == \A s \in Insns : \E sure : sure[1] = Nothing /\ Outline(sure, s)

Recorded == sf /\ "IE" \in exc /\ "IE" \in masked
Facts(sure) ==
  /\ \A i \in sure.known : ST(i) \in used
  /\ sure.room => NewTop \notin used

\* The inductive invariant: what is left of the handler has an outline, and
\* what it begins with is true unless a fault was recorded or the handler was
\* suspended.
Checked ==
  /\ bad => Recorded /\ \A k \in 1 .. Len(rest) : rest[k].do \notin Wiping
  /\ \E sure : /\ Outline(sure, rest)
               /\ sure[1].known \subseteq Regs
               /\ Recorded \/ stopped \/ Facts(sure[1])

LEMMA OutlineTail ==
  ASSUME NEW s \in Seq(FpuStep), s # <<>>, NEW sure, Outline(sure, s)
  PROVE  /\ Outline([k \in 1 .. Len(s) |-> sure[k + 1]], Tail(s))
         /\ [k \in 1 .. Len(s) |-> sure[k + 1]][1] = After(sure[1], s[1])
         /\ Needs(s[1]) \subseteq sure[1].known
         /\ s[1].do \in Pushes => sure[1].room
         /\ s[1].do \in Touching => \A k \in 1 .. Len(Tail(s)) : Tail(s)[k].do \notin Wiping
<1> DEFINE n == [k \in 1 .. Len(s) |-> sure[k + 1]]
           t == Tail(s)
<1>1. Len(s) \in Nat /\ Len(s) >= 1 /\ Len(t) \in Nat /\ Len(t) = Len(s) - 1
  OBVIOUS
<1>2. \A k \in 1 .. Len(t) : t[k] = s[k + 1]
  OBVIOUS
<1>3. \A k \in 1 .. Len(s) : n[k] = sure[k + 1]
  OBVIOUS
<1> HIDE DEF n, t
<1>4. /\ \A k \in 1 .. Len(s) : sure[k + 1] = After(sure[k], s[k])
      /\ \A k \in 1 .. Len(s) : Needs(s[k]) \subseteq sure[k].known
      /\ \A k \in 1 .. Len(s) : s[k].do \in Pushes => sure[k].room
      /\ \A j, k \in 1 .. Len(s) : j < k /\ s[k].do \in Wiping => s[j].do \notin Touching
  BY DEF Outline
<1>5. ASSUME NEW k \in 1 .. Len(t)
      PROVE  /\ n[k + 1] = After(n[k], t[k])
             /\ Needs(t[k]) \subseteq n[k].known
             /\ t[k].do \in Pushes => n[k].room
  <2>1. k \in 1 .. Len(s)
    BY <1>1
  <2>2. PICK m \in 1 .. Len(s) : m = k + 1
    BY <1>1
  <2>3. n[k] = sure[m] /\ n[m] = sure[m + 1] /\ t[k] = s[m]
    BY <1>2, <1>3, <2>1, <2>2
  <2>4. sure[m + 1] = After(sure[m], s[m])
    BY <1>4
  <2>5. Needs(s[m]) \subseteq sure[m].known
    BY <1>4
  <2>6. s[m].do \in Pushes => sure[m].room
    BY <1>4
  <2>7. QED
    BY <2>2, <2>3, <2>4, <2>5, <2>6
<1>6. ASSUME NEW j \in 1 .. Len(t), NEW k \in 1 .. Len(t), j < k, t[k].do \in Wiping
      PROVE  t[j].do \notin Touching
  <2>1. j + 1 \in 1 .. Len(s) /\ k + 1 \in 1 .. Len(s) /\ j + 1 < k + 1
    BY <1>1, <1>6
  <2>2. t[k] = s[k + 1] /\ t[j] = s[j + 1]
    BY <1>2
  <2>3. QED
    BY <1>4, <1>6, <2>1, <2>2
<1>7. ASSUME s[1].do \in Touching, NEW k \in 1 .. Len(t) PROVE t[k].do \notin Wiping
  <2>1. 1 \in 1 .. Len(s) /\ k + 1 \in 1 .. Len(s) /\ 1 < k + 1 /\ t[k] = s[k + 1]
    BY <1>1, <1>2
  <2>2. QED
    BY <1>4, <1>7, <2>1
<1>8. /\ n[1] = After(sure[1], s[1])
      /\ Needs(s[1]) \subseteq sure[1].known
      /\ s[1].do \in Pushes => sure[1].room
  <2>1. PICK m \in 1 .. Len(s) : m = 1
    BY <1>1
  <2>2. n[m] = sure[m + 1] /\ sure[m + 1] = After(sure[m], s[m])
    BY <1>3, <1>4
  <2>3. Needs(s[m]) \subseteq sure[m].known
    BY <1>4
  <2>4. s[m].do \in Pushes => sure[m].room
    BY <1>4
  <2>5. QED
    BY <2>1, <2>2, <2>3, <2>4
<1>9. Outline(n, t)
  BY <1>5, <1>6 DEF Outline
<1>10. QED
  BY <1>7, <1>8, <1>9, Zenon DEF n, t

LEMMA AfterTyped ==
  ASSUME NEW step \in FpuStep, NEW sure, sure.known \subseteq Regs
  PROVE  After(sure, step).known \subseteq Regs
<1>1. step.i \in Regs /\ NRegs \in Nat /\ NRegs > 0
  BY NRegsAssumption DEF FpuStep
<1>2. \A i \in Regs : (i + 1) % NRegs \in Regs
  BY <1>1 DEF Regs
<1>3. 0 \in Regs
  BY <1>1 DEF Regs
<1>4. Below(sure.known) \subseteq Regs /\ Above(sure.known) \subseteq Regs
  BY <1>2 DEF Below, Above
<1>5. KnownAfter(sure.known, step) \subseteq Regs
  BY <1>1, <1>3, <1>4 DEF KnownAfter
<1>6. QED
  BY <1>5 DEF After

\* A step is done and the next one follows.
LEMMA Advance ==
  ASSUME TypeOK, Checked, rest # <<>>, rest' = Tail(rest),
         bad' => Recorded' /\ (bad \/ rest[1].do \in Touching),
         NEW sure, Outline(sure, rest), sure[1].known \subseteq Regs,
         NEW next, next = After(sure[1], rest[1]),
         Recorded' \/ stopped' \/ Facts(next)'
  PROVE  Checked'
<1> DEFINE n == [k \in 1 .. Len(rest) |-> sure[k + 1]]
<1>1. rest \in Seq(FpuStep)
  BY DEF TypeOK
<1>2. Outline(n, Tail(rest)) /\ n[1] = next
      /\ (rest[1].do \in Touching =>
             \A k \in 1 .. Len(Tail(rest)) : Tail(rest)[k].do \notin Wiping)
  BY <1>1, OutlineTail
<1>3. next.known \subseteq Regs
  BY StepTyped, AfterTyped
<1>4. ASSUME bad' PROVE \A k \in 1 .. Len(Tail(rest)) : Tail(rest)[k].do \notin Wiping
  <2>1. CASE rest[1].do \in Touching
    BY <1>2, <2>1
  <2>2. CASE bad
    <3>1. \A k \in 1 .. Len(rest) : rest[k].do \notin Wiping
      BY <2>2 DEF Checked
    <3>2. \A k \in 1 .. Len(Tail(rest)) : k + 1 \in 1 .. Len(rest) /\ Tail(rest)[k] = rest[k + 1]
      BY <1>1
    <3>3. QED
      BY <3>1, <3>2
  <2>3. QED
    BY <1>4, <2>1, <2>2
<1> HIDE DEF n
<1>5. \E m : /\ Outline(m, rest')
             /\ m[1].known \subseteq Regs
             /\ Recorded' \/ stopped' \/ Facts(m[1])'
  <2>1. PICK m : m = n
    OBVIOUS
  <2>2. Outline(m, rest') /\ m[1] = next
    BY <1>2, <2>1
  <2>3. QED
    BY <1>3, <2>2
<1>6. QED
  BY <1>4, <1>5, Zenon DEF Checked

\* What was recorded stays so while nobody wipes it.
LEMMA StaysRecorded ==
  ASSUME Recorded, exc \subseteq exc', sf' = sf \/ sf' = TRUE, masked' = masked
  PROVE  Recorded'
  BY DEF Recorded

\* A check that suspends its handler, or records and goes on, or finds nothing.
LEMMA StackFaultRecords ==
  ASSUME TypeOK, NEW fault \in BOOLEAN, StackFault(fault), UNCHANGED masked
  PROVE  /\ rest' = Tail(rest)
         /\ Recorded => Recorded'
         /\ stopped => stopped'
         /\ fault => Recorded' \/ stopped'
<1>1. CASE fault
  <2>1. sf' = TRUE /\ exc' = exc \cup {"IE"} /\ (Continue \/ Suspend)
    BY <1>1 DEF StackFault, Found
  <2>2. "IE" \in masked => Recorded'
    BY <2>1 DEF Recorded
  <2>3. "IE" \notin masked => stopped'
    BY <1>1 DEF StackFault, Found, Suspend
  <2>4. rest' = Tail(rest) /\ (stopped => stopped')
    BY <2>1 DEF Continue, Suspend
  <2>5. QED
    BY <2>1, <2>2, <2>3, <2>4, StaysRecorded
<1>2. CASE ~fault
  <2>1. Continue /\ UNCHANGED status
    BY <1>2 DEF StackFault
  <2>2. QED
    BY <1>2, <2>1 DEF Continue, status, Recorded
<1>3. QED
  BY <1>1, <1>2

LEMMA UnderflowChecked ==
  ASSUME TypeOK, Checked, CheckUnderflow
  PROVE  Checked'
<1>1. rest # <<>> /\ rest[1].do \in {"under", "select"}
      /\ UNCHANGED <<top, used, masked, bad>> /\ StackFault(Here \notin used)
  BY DEF CheckUnderflow, At_step, stack
<1>2. /\ rest' = Tail(rest)
      /\ Recorded => Recorded'
      /\ stopped => stopped'
      /\ Here \notin used => Recorded' \/ stopped'
  BY <1>1, StackFaultRecords
<1>3. PICK sure : /\ Outline(sure, rest)
                  /\ sure[1].known \subseteq Regs
                  /\ Recorded \/ stopped \/ Facts(sure[1])
  BY DEF Checked
<1>4. PICK next : next = After(sure[1], rest[1])
  OBVIOUS
<1>5. next.known = sure[1].known \cup {rest[1].i} /\ (next.room => sure[1].room)
  <2>1. next.known = sure[1].known \cup {rest[1].i}
    <3>1. next.known = KnownAfter(sure[1].known, rest[1])
      BY <1>4 DEF After
    <3>2. KnownAfter(sure[1].known, rest[1]) = sure[1].known \cup {rest[1].i}
      BY <1>1 DEF KnownAfter, Wiping
    <3>3. QED
      BY <3>1, <3>2
  <2>2. next.room => sure[1].room
    BY <1>1, <1>4 DEF After, RoomAfter
  <2>3. QED
    BY <2>1, <2>2
<1>6. Recorded' \/ stopped' \/ Facts(next)'
  <2>1. CASE Facts(sure[1]) /\ Here \in used
    BY <1>1, <1>5, <2>1 DEF Facts, Here, ST, NewTop
  <2>2. QED
    BY <1>2, <1>3, <2>1
<1>7. bad' => Recorded' /\ bad
  BY <1>1, <1>2 DEF Checked
<1>8. QED
  BY <1>1, <1>2, <1>3, <1>4, <1>6, <1>7, Advance

LEMMA OverflowChecked ==
  ASSUME TypeOK, Checked, CheckOverflow
  PROVE  Checked'
<1>1. rest # <<>> /\ rest[1].do = "over"
      /\ UNCHANGED <<top, used, masked, bad>> /\ StackFault(NewTop \in used)
  BY DEF CheckOverflow, At_step, stack
<1>2. /\ rest' = Tail(rest)
      /\ Recorded => Recorded'
      /\ stopped => stopped'
      /\ NewTop \in used => Recorded' \/ stopped'
  <2>1. CASE NewTop \in used
    <3>1. StackFault(TRUE)
      BY <1>1, <2>1 DEF StackFault
    <3>2. QED
      BY <1>1, <3>1, StackFaultRecords
  <2>2. CASE NewTop \notin used
    <3>1. StackFault(FALSE)
      BY <1>1, <2>2 DEF StackFault
    <3>2. QED
      BY <1>1, <2>2, <3>1, StackFaultRecords
  <2>3. QED
    BY <2>1, <2>2
<1>3. PICK sure : /\ Outline(sure, rest)
                  /\ sure[1].known \subseteq Regs
                  /\ Recorded \/ stopped \/ Facts(sure[1])
  BY DEF Checked
<1>4. PICK next : next = After(sure[1], rest[1])
  OBVIOUS
<1>5. next.known = sure[1].known
  BY <1>1, <1>4 DEF After, KnownAfter, RoomAfter, Wiping
<1>6. Recorded' \/ stopped' \/ Facts(next)'
  <2>1. CASE Facts(sure[1]) /\ NewTop \notin used
    BY <1>1, <1>5, <2>1 DEF Facts, ST, NewTop
  <2>2. QED
    BY <1>2, <1>3, <2>1
<1>7. bad' => Recorded' /\ bad
  BY <1>1, <1>2 DEF Checked
<1>8. QED
  BY <1>1, <1>2, <1>3, <1>4, <1>6, <1>7, Advance

\* A handler that has ended has nothing left to be sure of.
LEMMA EmptyChecked ==
  ASSUME rest' = <<>>, stopped' \/ ~bad', bad' => Recorded'
  PROVE  Checked'
<1> DEFINE sure == [k \in {1} |-> Nothing]
<1>1. Len(rest') = 0 /\ 1 .. 0 = {}
  BY DEF Nothing
<1>2. sure[1] = Nothing
  OBVIOUS
<1>3. Nothing.known = {} /\ Nothing.room = FALSE
  BY DEF Nothing
<1> HIDE DEF sure
<1>4. Outline(sure, rest')
  BY <1>1 DEF Outline
<1>5. sure[1].known \subseteq Regs
  BY <1>2, <1>3
<1>6. Facts(sure[1])'
  <2>1. PICK next : next = Nothing
    OBVIOUS
  <2>2. Facts(next)'
    BY <1>3, <2>1 DEF Facts
  <2>3. QED
    BY <1>2, <2>1, <2>2
<1>7. QED
  BY <1>1, <1>4, <1>5, <1>6 DEF Checked

\* Steps that concern other exceptions, or nothing that is recorded.
LEMMA OthersChecked ==
  ASSUME TypeOK, Checked, Accessing \/ CheckPending \/ CheckException
  PROVE  Checked'
<1>1. rest # <<>> /\ rest[1].do \in {"access", "write", "pending", "raise"}
      /\ UNCHANGED <<top, used, masked, bad>>
  BY DEF Accessing, CheckPending, CheckException, At_step, stack
<1>2. /\ Recorded => Recorded'
      /\ stopped => stopped'
      /\ rest' = Tail(rest) \/ (rest' = <<>> /\ stopped')
  <2>1. CASE Accessing \/ CheckPending
    BY <2>1 DEF Accessing, CheckPending, Continue, Stop, status, Recorded
  <2>2. CASE CheckException
    <3>1. CASE Continue /\ UNCHANGED status
      BY <2>2, <3>1 DEF CheckException, Continue, status, Recorded
    <3>2. CASE Found(rest[1].e) /\ UNCHANGED sf
      <4>1. exc \subseteq exc' /\ (Continue \/ Suspend)
        BY <3>2 DEF Found
      <4>2. QED
        BY <1>1, <3>2, <4>1, StaysRecorded DEF Continue, Suspend
    <3>3. QED
      BY <2>2, <3>1, <3>2 DEF CheckException
  <2>3. QED
    BY <2>1, <2>2
<1>3. PICK sure : /\ Outline(sure, rest)
                  /\ sure[1].known \subseteq Regs
                  /\ Recorded \/ stopped \/ Facts(sure[1])
  BY DEF Checked
<1>4. PICK next : next = After(sure[1], rest[1])
  OBVIOUS
<1>5. next.known = sure[1].known /\ (next.room => sure[1].room)
  BY <1>1, <1>4 DEF After, KnownAfter, RoomAfter, Wiping
<1>6. Recorded' \/ stopped' \/ Facts(next)'
  <2>1. CASE Facts(sure[1])
    BY <1>1, <1>5, <2>1 DEF Facts, ST, NewTop
  <2>2. QED
    BY <1>2, <1>3, <2>1
<1>7. bad' => Recorded' /\ bad
  BY <1>1, <1>2 DEF Checked
<1>8. CASE rest' = Tail(rest)
  BY <1>1, <1>3, <1>4, <1>6, <1>7, <1>8, Advance
<1>9. CASE rest' = <<>> /\ stopped'
  BY <1>7, <1>9, EmptyChecked
<1>10. QED
  BY <1>2, <1>8, <1>9

\* The steps that touch registers, and those that free some: never suspended.
LEMMA TouchChecked ==
  ASSUME TypeOK, Checked, rest # <<>>, rest[1].do \in Touching \cup {"free"},
         ~stopped, Continue, UNCHANGED <<status, masked>>,
         NEW sure, Outline(sure, rest), sure[1].known \subseteq Regs,
         Recorded \/ stopped \/ Facts(sure[1]),
         bad' => bad \/ rest[1].do \in Touching,
         NEW next, next = After(sure[1], rest[1]),
         Facts(sure[1]) => Facts(next)' /\ bad' = bad
  PROVE  Checked'
<1>1. Recorded => Recorded'
  BY DEF status, Recorded
<1>2. Recorded' \/ stopped' \/ Facts(next)'
  BY <1>1
<1>3. bad' => Recorded' /\ (bad \/ rest[1].do \in Touching)
  BY <1>1 DEF Checked
<1>4. rest' = Tail(rest)
  BY DEF Continue
<1>5. QED
  BY <1>2, <1>3, <1>4, Advance

IsSure(sure) ==
  /\ Outline(sure, rest)
  /\ sure[1].known \subseteq Regs
  /\ Recorded \/ stopped \/ Facts(sure[1])
  /\ Needs(rest[1]) \subseteq sure[1].known
  /\ rest[1].do \in Pushes => sure[1].room

LEMMA SureOfRest ==
  ASSUME TypeOK, Checked, rest # <<>>
  PROVE  \E sure : IsSure(sure)
<1>1. PICK sure : /\ Outline(sure, rest)
                  /\ sure[1].known \subseteq Regs
                  /\ Recorded \/ stopped \/ Facts(sure[1])
  BY DEF Checked
<1>2. rest \in Seq(FpuStep)
  BY DEF TypeOK
<1>3. Needs(rest[1]) \subseteq sure[1].known /\ (rest[1].do \in Pushes => sure[1].room)
  BY <1>1, <1>2, OutlineTail
<1>4. IsSure(sure)
  BY <1>1, <1>3 DEF IsSure
<1>5. QED
  BY <1>4

LEMMA UseChecked ==
  ASSUME TypeOK, Checked, UseRegister \/ SetRegister
  PROVE  Checked'
<1>1. rest # <<>> /\ rest[1].do \in {"use", "set"} /\ ~stopped /\ Continue
      /\ UNCHANGED <<top, status, masked>>
      /\ bad' = (bad \/ Here \notin used)
      /\ (used' = used \/ used' = used \cup {Here})
  BY DEF UseRegister, SetRegister, At_step, stack, Unguarded
<1>0. PICK sure : IsSure(sure)
  BY <1>1, SureOfRest
<1>2. /\ Outline(sure, rest)
      /\ sure[1].known \subseteq Regs
      /\ Recorded \/ stopped \/ Facts(sure[1])
      /\ Needs(rest[1]) \subseteq sure[1].known
  BY <1>0 DEF IsSure
<1>3. PICK next : next = After(sure[1], rest[1])
  OBVIOUS
<1>4. next.known = sure[1].known
  BY <1>1, <1>3 DEF After, KnownAfter, Wiping
<1>5. next.room => sure[1].room
  BY <1>1, <1>3 DEF After, RoomAfter
<1>6. rest[1].i \in sure[1].known
  <2>1. Needs(rest[1]) = {rest[1].i}
    BY <1>1 DEF Needs
  <2>2. QED
    BY <1>2, <2>1
<1>7. ASSUME Facts(sure[1]) PROVE Facts(next)' /\ bad' = bad
  <2>1. Here \in used
    BY <1>6, <1>7 DEF Facts, Here
  <2>2. used' = used /\ bad' = bad
    BY <1>1, <2>1 DEF TypeOK
  <2>3. Facts(next)'
    BY <1>1, <1>4, <1>5, <1>7, <2>2 DEF Facts, ST, NewTop
  <2>4. QED
    BY <2>2, <2>3
<1>8. rest[1].do \in Touching
  BY <1>1 DEF Touching
<1>9. QED
  BY <1>1, <1>2, <1>3, <1>7, <1>8, TouchChecked

LEMMA FreeChecked ==
  ASSUME TypeOK, Checked, Freeing
  PROVE  Checked'
<1>1. rest # <<>> /\ rest[1].do = "free" /\ ~stopped /\ Continue
      /\ UNCHANGED <<top, status, masked, bad>> /\ used' = used \ {Here}
  BY DEF Freeing, At_step, Unguarded
<1>0. PICK sure : IsSure(sure)
  BY <1>1, SureOfRest
<1>2. /\ Outline(sure, rest)
      /\ sure[1].known \subseteq Regs
      /\ Recorded \/ stopped \/ Facts(sure[1])
      /\ Needs(rest[1]) \subseteq sure[1].known
  BY <1>0 DEF IsSure
<1>3. PICK next : next = After(sure[1], rest[1])
  OBVIOUS
<1>4. next.known = sure[1].known \ {rest[1].i}
  <2>1. KnownAfter(sure[1].known, rest[1]) = sure[1].known \ {rest[1].i}
    BY <1>1 DEF KnownAfter, Wiping
  <2>2. QED
    BY <1>3, <2>1 DEF After
<1>5. ~next.room
  <2>1. RoomAfter(sure[1].room, rest[1]) = FALSE
    BY <1>1 DEF RoomAfter, Stopping, Checking
  <2>2. QED
    BY <1>3, <2>1 DEF After
<1>6. ASSUME Facts(sure[1]) PROVE Facts(next)'
  <2>1. ASSUME NEW i \in next.known PROVE ST(i)' \in used'
    <3>1. i \in Regs /\ ST(i) \in used /\ i # rest[1].i /\ rest[1].i \in Regs
      BY <1>1, <1>2, <1>4, <1>6, <2>1, StepTyped DEF Facts
    <3>2. ST(i) # Here
      BY <3>1, STDistinct DEF Here
    <3>3. ST(i)' = ST(i)
      BY <1>1 DEF ST
    <3>4. QED
      BY <1>1, <3>1, <3>2, <3>3
  <2>2. QED
    BY <1>5, <2>1 DEF Facts
<1>7. QED
  BY <1>1, <1>2, <1>3, <1>6, TouchChecked

LEMMA PushChecked ==
  ASSUME TypeOK, Checked, Pushing
  PROVE  Checked'
<1>1. rest # <<>> /\ rest[1].do \in Pushes /\ ~stopped /\ Continue
      /\ UNCHANGED <<status, masked>> /\ top' = NewTop
      /\ bad' = (bad \/ NewTop \in used)
  BY DEF Pushing, At_step, Unguarded, Pushes
<1>2. PICK sure : IsSure(sure)
  BY <1>1, SureOfRest
<1>3. /\ Outline(sure, rest)
      /\ sure[1].known \subseteq Regs
      /\ Recorded \/ stopped \/ Facts(sure[1])
  BY <1>2 DEF IsSure
<1>4. sure[1].room
  BY <1>1, <1>2 DEF IsSure
<1>5. PICK next : next = After(sure[1], rest[1])
  OBVIOUS
<1>6. ~next.room
  <2>1. RoomAfter(sure[1].room, rest[1]) = FALSE
    BY <1>1 DEF RoomAfter, Stopping, Checking, Pushes
  <2>2. QED
    BY <1>5, <2>1 DEF After
<1>7. \A i \in Below(sure[1].known) : \E j \in sure[1].known : i = (j + 1) % NRegs
  BY DEF Below
<1>8. ASSUME Facts(sure[1]) PROVE Facts(next)' /\ bad' = bad
  <2>1. NewTop \notin used /\ \A j \in sure[1].known : ST(j) \in used /\ ST(j) # NewTop
    BY <1>4, <1>8 DEF Facts
  <2>2. bad' = bad
    BY <1>1, <2>1 DEF TypeOK
  <2>3. \A j \in sure[1].known : (ST((j + 1) % NRegs))' = ST(j)
    BY <1>1, <1>3, Rotations
  <2>4. 0 \in Regs /\ ST(0)' = NewTop
    BY <1>1, RegsTyped, Rotations
  <2>5. ASSUME NEW i \in Below(sure[1].known) PROVE ST(i)' \in used
    <3>1. PICK j \in sure[1].known : i = (j + 1) % NRegs
      BY <1>7
    <3>2. (ST((j + 1) % NRegs))' = ST(j)
      BY <2>3
    <3>3. QED
      BY <2>1, <3>1, <3>2
  <2>6. ASSUME NEW i \in next.known PROVE ST(i)' \in used'
    <3>1. CASE rest[1].do = "push"
      <4>1. KnownAfter(sure[1].known, rest[1]) = {0} \cup Below(sure[1].known)
        BY <3>1 DEF KnownAfter, Wiping
      <4>2. i \in {0} \cup Below(sure[1].known)
        BY <1>5, <2>6, <4>1 DEF After
      <4>3. used' = used \cup {NewTop}
        BY <3>1 DEF Pushing, At_step
      <4>4. QED
        BY <2>4, <2>5, <4>2, <4>3
    <3>2. CASE rest[1].do = "push copy"
      <4>1. KnownAfter(sure[1].known, rest[1]) = Below(sure[1].known) \ {0}
        BY <3>2 DEF KnownAfter, Wiping
      <4>2. i \in Below(sure[1].known)
        BY <1>5, <2>6, <4>1 DEF After
      <4>3. used \subseteq used'
        BY <2>1, <3>2 DEF Pushing, At_step
      <4>4. QED
        BY <2>5, <4>2, <4>3
    <3>3. QED
      BY <1>1, <3>1, <3>2 DEF Pushes
  <2>7. QED
    BY <1>6, <2>2, <2>6 DEF Facts
<1>9. rest[1].do \in Touching
  BY <1>1 DEF Touching
<1>10. QED
  BY <1>1, <1>3, <1>5, <1>8, <1>9, TouchChecked

LEMMA PopChecked ==
  ASSUME TypeOK, Checked, Popping
  PROVE  Checked'
<1>1. rest # <<>> /\ rest[1].do = "pop" /\ ~stopped /\ Continue
      /\ UNCHANGED <<status, masked>> /\ top' = ST(1) /\ used' = used \ {top}
      /\ bad' = (bad \/ top \notin used)
  BY DEF Popping, At_step, Unguarded
<1>2. PICK sure : IsSure(sure)
  BY <1>1, SureOfRest
<1>3. /\ Outline(sure, rest)
      /\ sure[1].known \subseteq Regs
      /\ Recorded \/ stopped \/ Facts(sure[1])
      /\ Needs(rest[1]) \subseteq sure[1].known
  BY <1>2 DEF IsSure
<1>4. 0 \in sure[1].known
  <2>1. Needs(rest[1]) = {0}
    BY <1>1 DEF Needs
  <2>2. QED
    BY <1>3, <2>1
<1>5. PICK next : next = After(sure[1], rest[1])
  OBVIOUS
<1>6. ~next.room
  <2>1. RoomAfter(sure[1].room, rest[1]) = FALSE
    BY <1>1 DEF RoomAfter, Stopping, Checking
  <2>2. QED
    BY <1>5, <2>1 DEF After
<1>7. next.known = Above(sure[1].known)
  <2>1. KnownAfter(sure[1].known, rest[1]) = Above(sure[1].known)
    BY <1>1 DEF KnownAfter, Wiping
  <2>2. QED
    BY <1>5, <2>1 DEF After
<1>8. ASSUME Facts(sure[1]) PROVE Facts(next)' /\ bad' = bad
  <2>1. 0 \in Regs /\ ST(0) = top
    BY RegsTyped, Rotations
  <2>2. top \in used /\ \A j \in sure[1].known : ST(j) \in used
    BY <1>4, <1>8, <2>1 DEF Facts
  <2>3. bad' = bad
    BY <1>1, <2>2 DEF TypeOK
  <2>4. ASSUME NEW i \in next.known PROVE ST(i)' \in used'
    <3>1. PICK j : j = (i + 1) % NRegs
      OBVIOUS
    <3>2. i \in Regs /\ j \in sure[1].known \ {0}
      BY <1>7, <3>1 DEF Above
    <3>3. ST(i)' = ST(j)
      BY <1>1, <3>1, <3>2, Rotations
    <3>4. j \in Regs /\ ST(j) # top
      BY <1>3, <2>1, <3>2, STDistinct
    <3>5. QED
      BY <1>1, <2>2, <3>2, <3>3, <3>4
  <2>5. QED
    BY <1>6, <2>3, <2>4 DEF Facts
<1>9. rest[1].do \in Touching
  BY <1>1 DEF Touching
<1>10. QED
  BY <1>1, <1>3, <1>5, <1>8, <1>9, TouchChecked

LEMMA CopyChecked ==
  ASSUME TypeOK, Checked, Copying
  PROVE  Checked'
<1>1. rest # <<>> /\ rest[1].do \in {"copy", "exchange"} /\ ~stopped /\ Continue
      /\ UNCHANGED <<top, status, masked>>
      /\ bad' = (bad \/ top \notin used \/ (rest[1].do = "exchange" /\ Here \notin used))
  BY DEF Copying, At_step, Unguarded
<1>2. PICK sure : IsSure(sure)
  BY <1>1, SureOfRest
<1>3. /\ Outline(sure, rest)
      /\ sure[1].known \subseteq Regs
      /\ Recorded \/ stopped \/ Facts(sure[1])
      /\ Needs(rest[1]) \subseteq sure[1].known
  BY <1>2 DEF IsSure
<1>4. PICK next : next = After(sure[1], rest[1])
  OBVIOUS
<1>5. 0 \in Regs /\ ST(0) = top /\ rest[1].i \in Regs
  BY <1>1, StepTyped, RegsTyped, Rotations
<1>6. 0 \in sure[1].known
  <2>1. 0 \in Needs(rest[1])
    BY <1>1 DEF Needs
  <2>2. QED
    BY <1>3, <2>1
<1>7. CASE rest[1].do = "copy"
  <2>1. next.known = sure[1].known \cup {rest[1].i}
    <3>1. KnownAfter(sure[1].known, rest[1]) = sure[1].known \cup {rest[1].i}
      BY <1>7 DEF KnownAfter, Wiping
    <3>2. QED
      BY <1>4, <3>1 DEF After
  <2>2. ~next.room
    <3>1. RoomAfter(sure[1].room, rest[1]) = FALSE
      BY <1>7 DEF RoomAfter, Stopping, Checking
    <3>2. QED
      BY <1>4, <3>1 DEF After
  <2>3. ASSUME Facts(sure[1]) PROVE Facts(next)' /\ bad' = bad
    <3>1. top \in used /\ \A j \in sure[1].known : ST(j) \in used
      BY <1>5, <1>6, <2>3 DEF Facts
    <3>2. bad' = bad
      BY <1>1, <1>7, <3>1 DEF TypeOK
    <3>3. used' = used \cup {Here}
      BY <1>7, <3>1 DEF Copying, At_step
    <3>4. ASSUME NEW i \in next.known PROVE ST(i)' \in used'
      BY <1>1, <2>1, <3>1, <3>3 DEF Here, ST
    <3>5. QED
      BY <2>2, <3>2, <3>4 DEF Facts
  <2>4. rest[1].do \in Touching
    BY <1>1 DEF Touching
  <2>5. QED
    BY <1>1, <1>3, <1>4, <2>3, <2>4, TouchChecked
<1>8. CASE rest[1].do = "exchange"
  <2>1. next.known = sure[1].known
    <3>1. KnownAfter(sure[1].known, rest[1]) = sure[1].known
      BY <1>8 DEF KnownAfter, Wiping
    <3>2. QED
      BY <1>4, <3>1 DEF After
  <2>2. next.room => sure[1].room
    BY <1>4, <1>8 DEF After, RoomAfter
  <2>3. rest[1].i \in sure[1].known
    <3>1. rest[1].i \in Needs(rest[1])
      BY <1>8 DEF Needs
    <3>2. QED
      BY <1>3, <3>1
  <2>4. ASSUME Facts(sure[1]) PROVE Facts(next)' /\ bad' = bad
    <3>1. top \in used /\ Here \in used /\ used \subseteq Regs
      BY <1>5, <1>6, <2>3, <2>4 DEF Facts, Here, TypeOK
    <3>2. bad' = bad
      BY <1>1, <3>1 DEF TypeOK
    <3>3. used' = {r \in Regs : CASE r = top -> Here \in used
                                 [] r = Here -> top \in used
                                 [] OTHER -> r \in used}
      BY <1>8 DEF Copying, At_step
    <3>4. used' = used
      BY <3>1, <3>3
    <3>5. Facts(next)'
      BY <1>1, <2>1, <2>2, <2>4, <3>4 DEF Facts, ST, NewTop
    <3>6. QED
      BY <3>2, <3>5
  <2>5. rest[1].do \in Touching
    BY <1>1 DEF Touching
  <2>6. QED
    BY <1>1, <1>3, <1>4, <2>4, <2>5, TouchChecked
<1>9. QED
  BY <1>1, <1>7, <1>8

LEMMA SkipChecked ==
  ASSUME TypeOK, Checked, Skip
  PROVE  Checked'
<1>1. rest # <<>> /\ rest' = Tail(rest) /\ stopped'
      /\ UNCHANGED <<status, masked, bad>>
  BY DEF Skip, Continue
<1>2. PICK sure : IsSure(sure)
  BY <1>1, SureOfRest
<1>3. Outline(sure, rest) /\ sure[1].known \subseteq Regs
  BY <1>2 DEF IsSure
<1>4. PICK next : next = After(sure[1], rest[1])
  OBVIOUS
<1>5. bad' => Recorded' /\ bad
  BY <1>1 DEF Checked, Recorded, status
<1>6. QED
  BY <1>1, <1>3, <1>4, <1>5, Advance

\* A handler that writes the status or control word has touched no register.
LEMMA ControlChecked ==
  ASSUME TypeOK, Checked, Control
  PROVE  Checked'
<1>1. /\ rest # <<>> /\ Continue /\ rest[1].do \in Wiping \cup {"load tags"}
      /\ bad' = bad
  BY DEF Control, Clearing, Initialising, LoadingCw, LoadingControl, LoadingStatus,
         LoadingTags, At_step, Wiping
<1>2. rest' = Tail(rest)
  BY <1>1 DEF Continue
<1>3. PICK sure : IsSure(sure)
  BY <1>1, SureOfRest
<1>4. Outline(sure, rest) /\ sure[1].known \subseteq Regs
  BY <1>3 DEF IsSure
<1>5. PICK next : next = After(sure[1], rest[1])
  OBVIOUS
<1>6. next.known = {}
  <2>1. KnownAfter(sure[1].known, rest[1]) = {}
    BY <1>1 DEF KnownAfter, Wiping
  <2>2. QED
    BY <1>5, <2>1 DEF After
<1>7. ~next.room
  <2>1. RoomAfter(sure[1].room, rest[1]) = FALSE
    BY <1>1 DEF RoomAfter, Wiping, Stopping, Checking
  <2>2. QED
    BY <1>5, <2>1 DEF After
<1>8. Facts(next)'
  BY <1>6, <1>7 DEF Facts
<1>9. bad' => Recorded' /\ bad
  <2>1. CASE rest[1].do \in Wiping
    <3>1. 1 \in 1 .. Len(rest)
      <4>1. rest \in Seq(FpuStep) /\ rest # <<>>
        BY <1>1 DEF TypeOK
      <4>2. QED
        BY <4>1
    <3>2. ~bad
      BY <2>1, <3>1 DEF Checked
    <3>3. QED
      BY <1>1, <3>2
  <2>2. CASE rest[1].do = "load tags"
    <3>1. UNCHANGED <<exc, sf, masked>>
      BY <2>2 DEF Control, Clearing, Initialising, LoadingCw, LoadingControl, LoadingStatus,
                  LoadingTags, At_step, status
    <3>2. QED
      BY <1>1, <3>1 DEF Checked, Recorded
  <2>3. QED
    BY <1>1, <2>1, <2>2
<1>10. QED
  BY <1>1, <1>2, <1>4, <1>5, <1>8, <1>9, Advance

LEMMA BeginChecked ==
  ASSUME HandlersCheck, Begin
  PROVE  Checked'
<1>1. PICK s : s = rest'
  OBVIOUS
<1>2. s \in Insns /\ ~bad'
  BY <1>1 DEF Begin
<1>3. PICK o : o[1] = Nothing /\ Outline(o, s)
  BY <1>2 DEF HandlersCheck
<1>4. Nothing.known = {} /\ Nothing.room = FALSE
  BY DEF Nothing
<1>5. o[1].known \subseteq Regs
  BY <1>3, <1>4
<1>6. Facts(o[1])'
  <2>1. PICK next : next = Nothing
    OBVIOUS
  <2>2. Facts(next)'
    BY <1>4, <2>1 DEF Facts
  <2>3. QED
    BY <1>3, <2>1, <2>2
<1>7. Outline(o, rest')
  BY <1>1, <1>3
<1>8. QED
  BY <1>2, <1>5, <1>6, <1>7 DEF Checked

LEMMA InitChecked == Init => Checked
<1>1. ASSUME Init PROVE Checked
  <2> DEFINE o == [k \in {1} |-> Nothing]
  <2>1. rest = <<>> /\ ~bad /\ Len(rest) = 0 /\ 1 .. 0 = {}
    BY <1>1 DEF Init
  <2>2. o[1] = Nothing /\ Nothing.known = {} /\ Nothing.room = FALSE
    BY DEF Nothing
  <2> HIDE DEF o
  <2>3. Outline(o, rest)
    BY <2>1 DEF Outline
  <2>4. Facts(o[1])
    BY <2>2 DEF Facts
  <2>5. o[1].known \subseteq Regs
    BY <2>2
  <2>6. QED
    BY <2>1, <2>3, <2>4, <2>5 DEF Checked
<1>2. QED
  BY <1>1

LEMMA StepKeepsChecked ==
  ASSUME HandlersCheck, TypeOK, Checked, [Next]_vars
  PROVE  Checked'
<1>1. CASE Begin
  BY <1>1, BeginChecked
<1>2. CASE Skip
  BY <1>2, SkipChecked
<1>3. CASE Accessing \/ CheckPending \/ CheckException
  BY <1>3, OthersChecked
<1>4. CASE CheckUnderflow \/ CheckOverflow
  BY <1>4, UnderflowChecked, OverflowChecked
<1>5. CASE Registers
  BY <1>5, UseChecked, PushChecked, PopChecked, FreeChecked, CopyChecked DEF Registers
<1>6. CASE Control
  BY <1>6, ControlChecked
<1>7. CASE UNCHANGED vars
  BY <1>7 DEF vars, Checked, Recorded, Facts, ST, NewTop
<1>8. QED
  BY <1>1, <1>2, <1>3, <1>4, <1>5, <1>6, <1>7, NextCases

\* Handlers that check what they use, as the run finds all those of
\* interpreter_fpu.h and of the JIT's words do, never read an empty register
\* or push over one in use unnoticed, whatever the size of the stack, the
\* masks and the exceptions that cut them short.
THEOREM StackFaultsAlwaysRecorded ==
  ASSUME HandlersCheck
  PROVE  Spec => []StackFaultRecorded
<1>1. Init => TypeOK /\ Checked
  BY InitTyped, InitChecked
<1>2. (TypeOK /\ Checked) /\ [Next]_vars => (TypeOK /\ Checked)'
  BY StepKeepsTypes, StepKeepsChecked
<1>3. TypeOK /\ Checked => StackFaultRecorded
  BY DEF Checked, Recorded, StackFaultRecorded
<1>4. QED
  BY <1>1, <1>2, <1>3, PTL DEF Spec

=============================================================================
