--------------------------- MODULE JitEventsProofs --------------------------
(***************************************************************************)
(* What holds of interrupts and exceptions for every program, every IDT,   *)
(* every size of ECX and of the stack (IInv), and of repeated string       *)
(* instructions, whatever interrupts them (RepInv).                        *)
(***************************************************************************)
EXTENDS JitEvents, SequenceTheorems, FiniteSetTheorems, TLAPS

Frames == [ret : Nat, iff : BOOLEAN, vec : Vectors, code : BOOLEAN]
Exceptions == [vec : Vectors \cup {NoVector}, code : BOOLEAN]

\* What an exception of an instruction, of a fetch or of a delivery writes.
Raised == {[vec |-> v, code |-> TRUE] : v \in WithCode} \cup {[vec |-> "UD", code |-> FALSE]}

Typed ==
  /\ prog \in Programs
  /\ eip \in Nat /\ iff \in BOOLEAN
  /\ frames \in Seq(Frames)
  /\ exc \in Exceptions
  /\ inhibit \in BOOLEAN /\ shadow \in BOOLEAN /\ lost \in BOOLEAN

\* The shadow is cleared by the call that runs the next instruction, so that STI
\* and the load of SS find it clear.
ShadowInv ==
  /\ after \in {"idle", "run"}
  /\ inhibit = shadow
  /\ phase = "run" => after = "run"
  /\ after = "run" => ~inhibit

\* What is to be delivered was written whole by one of the two macros.
CodeInv == phase = "deliver" => exc \in Raised

PendingInv == phase \notin {"deliver", "exited"} /\ exc.vec # NoVector => lost

\* EIP is moved by no instruction that may fault afterwards but CALL and IRET.
OriginInv ==
  /\ phase = "run" => origin = eip
  /\ phase = "deliver" => origin = eip \/ Code[origin] \in {"call", "iret"}

IInv == Typed /\ ShadowInv /\ CodeInv /\ PendingInv /\ OriginInv /\ ErrorCodeMatchesVector

-----------------------------------------------------------------------------
(***************************************************************************)
(* What the steps do to the state these invariants relate.                 *)
(***************************************************************************)
LEMMA RaisedWhole ==
  /\ \A v \in WithCode : EXCEPTION_ERROR_CODE(v) => exc' \in Raised
  /\ EXCEPTION("UD") => exc' \in Raised
  BY DEF EXCEPTION_ERROR_CODE, EXCEPTION, Raised

LEMMA RaisedTyped ==
  \A e \in Raised : e \in Exceptions /\ e.vec \in Vectors /\ (e.code <=> e.vec \in WithCode)
<1>1. TAKE e \in Raised
<1>2. CASE e = [vec |-> "UD", code |-> FALSE]
  BY <1>2 DEF Exceptions, Vectors, WithCode
<1>3. ASSUME NEW v \in WithCode, e = [vec |-> v, code |-> TRUE]
      PROVE  e \in Exceptions /\ e.vec \in Vectors /\ (e.code <=> e.vec \in WithCode)
  BY <1>3 DEF Exceptions, Vectors
<1>4. QED
  BY <1>2, <1>3 DEF Raised

LEMMA RefusedRaises ==
  ASSUME NEW v, Refused(v)
  PROVE  exc' \in Raised /\ UNCHANGED <<frames, eip, iff>>
<1>1. /\ EXCEPTION_ERROR_CODE("GP") => exc' \in Raised
      /\ EXCEPTION_ERROR_CODE("NP") => exc' \in Raised
      /\ EXCEPTION_ERROR_CODE("SS") => exc' \in Raised
  BY RaisedWhole DEF WithCode
<1>2. QED
  BY <1>1 DEF Refused, GateRefuses, SegmentRefuses, StackRefuses

Stays ==
  /\ phase' = "run"
  /\ UNCHANGED <<eip, iff, frames, exc, inhibit, shadow, after>>

Faults ==
  /\ phase' = "deliver" /\ after' = "idle" /\ exc' \in Raised
  /\ UNCHANGED <<inhibit, shadow>>
  /\ eip' = eip \/ Inst \in {"call", "iret"}

Leaves ==
  /\ phase' \in {"idle", "fetch"} /\ after' = "idle" /\ UNCHANGED exc
  /\ \/ UNCHANGED <<inhibit, shadow>>
     \/ inhibit' = TRUE /\ shadow' = TRUE
     \/ inhibit' = (inhibit \/ ~iff) /\ shadow' = ~iff

\* An instruction, or a part of one, goes on, raises an exception or ends.
LEMMA ExecStep ==
  ASSUME ExecInst
  PROVE  phase = "run" /\ UNCHANGED <<prog, lost, origin>> /\ (Stays \/ Faults \/ Leaves)
<1> USE DEF Running, guest, counts, position, history
<1>1. ASSUME StayHalted PROVE UNCHANGED <<prog, lost, origin>> /\ phase = "run" /\ Leaves
  BY <1>1 DEF StayHalted, Leaves
<1>2. ASSUME Plain \/ Cli \/ Popf \/ SetCount PROVE UNCHANGED <<prog, lost, origin>> /\ phase = "run" /\ Leaves
  BY <1>2 DEF Plain, Cli, Popf, SetCount, Retire, Leaves
<1>3. ASSUME Sti \/ MoveToSS PROVE UNCHANGED <<prog, lost, origin>> /\ phase = "run" /\ Leaves
  BY <1>3 DEF Sti, Inhibits, MoveToSS, Retire, Leaves
<1>4. ASSUME MemoryFault \/ Undefined \/ StringFault
      PROVE  UNCHANGED <<prog, lost, origin>> /\ phase = "run" /\ Faults
  <2>1. EXCEPTION_ERROR_CODE("PF") \/ EXCEPTION("UD")
    BY <1>4 DEF MemoryFault, Undefined, StringFault
  <2>2. exc' \in Raised
    BY <2>1, RaisedWhole DEF WithCode
  <2>3. QED
    BY <1>4, <2>2 DEF MemoryFault, Undefined, StringFault, OnWord, Raise, Faults
<1>5. ASSUME RepTest \/ Gather \/ Apply \/ SetFlag
      PROVE  UNCHANGED <<prog, lost, origin>> /\ phase = "run" /\ Stays
  BY <1>5 DEF RepTest, Gather, Apply, SetFlag, OnWord, StayInCall, Stays
<1>6. ASSUME RepNext PROVE UNCHANGED <<prog, lost, origin>> /\ phase = "run" /\ (Stays \/ Leaves)
  BY <1>6 DEF RepNext, OnWord, StayInCall, Stays, Leaves
<1>7. ASSUME StringEnd \/ Halt PROVE UNCHANGED <<prog, lost, origin>> /\ phase = "run" /\ Leaves
  BY <1>7 DEF StringEnd, Halt, OnWord, Retire, Leaves
<1>8. ASSUME Jump PROVE UNCHANGED <<prog, lost, origin>> /\ phase = "run" /\ Leaves
  BY <1>8 DEF Jump, Branch, Leaves
<1>9. ASSUME CallNear PROVE UNCHANGED <<prog, lost, origin>> /\ phase = "run" /\ (Faults \/ Leaves)
  <2>1. EXCEPTION_ERROR_CODE("PF") => exc' \in Raised
    BY RaisedWhole DEF WithCode
  <2>2. QED
    BY <1>9, <2>1 DEF CallNear, Branch, Raise, Faults, Leaves
<1>10. ASSUME SoftwareInterrupt
       PROVE  UNCHANGED <<prog, lost, origin>> /\ phase = "run" /\ (Faults \/ Leaves)
  <2>1. Refused("soft") => exc' \in Raised /\ eip' = eip
    BY RefusedRaises
  <2>2. QED
    BY <1>10, <2>1 DEF SoftwareInterrupt, Branch, Raise, Faults, Leaves
<1>11. ASSUME Iret PROVE UNCHANGED <<prog, lost, origin>> /\ phase = "run" /\ (Faults \/ Leaves)
  <2>1. /\ EXCEPTION_ERROR_CODE("SS") => exc' \in Raised
        /\ EXCEPTION_ERROR_CODE("GP") => exc' \in Raised
    BY RaisedWhole DEF WithCode
  <2>2. QED
    BY <1>11, <2>1 DEF Iret, Branch, Raise, Faults, Leaves
<1>12. QED
  BY <1>1, <1>2, <1>3, <1>4, <1>5, <1>6, <1>7, <1>8, <1>9, <1>10, <1>11 DEF ExecInst

\* A delivery pushes the address it is given and enters the handler.
LEMMA AcceptedPushes ==
  ASSUME Typed, NEW v \in Vectors, NEW ret \in Nat, NEW code \in BOOLEAN,
         Accepted(v, ret, code)
  PROVE  /\ frames' \in Seq(Frames) /\ eip' \in Nat /\ iff' \in BOOLEAN
         /\ Last(frames').ret = ret
         /\ (ErrorCodeMatchesVector /\ (code <=> v \in WithCode)) => ErrorCodeMatchesVector'
<1> DEFINE f == [ret |-> ret, iff |-> iff, vec |-> v, code |-> code]
<1>1. f \in Frames /\ frames \in Seq(Frames) /\ frames' = Append(frames, f)
  BY DEF Typed, Frames, Accepted
<1>2. /\ frames' \in Seq(Frames) /\ Len(frames') = Len(frames) + 1
      /\ \A i \in 1 .. Len(frames) : frames'[i] = frames[i]
      /\ frames'[Len(frames) + 1] = f
  BY <1>1, AppendProperties
<1>3. eip' \in Nat
  <2>1. prog.main \in Seq(Kinds)
    BY EventsAssumption DEF Typed
  <2>2. QED
    BY <2>1 DEF Accepted, Handler
<1>4. iff' \in BOOLEAN
  BY DEF Accepted
<1>5. Last(frames').ret = ret
  BY <1>2 DEF Last
<1>6. ASSUME ErrorCodeMatchesVector, code <=> v \in WithCode
      PROVE  ErrorCodeMatchesVector'
  <2>1. SUFFICES ASSUME NEW i \in DOMAIN frames'
                 PROVE  frames'[i].code <=> frames'[i].vec \in WithCode
    BY DEF ErrorCodeMatchesVector
  <2>2. Len(frames) \in Nat /\ DOMAIN frames = 1 .. Len(frames) /\ DOMAIN frames' = 1 .. Len(frames')
    BY <1>1, <1>2
  <2>3. CASE i \in 1 .. Len(frames)
    BY <1>2, <1>6, <2>2, <2>3 DEF ErrorCodeMatchesVector
  <2>4. CASE i = Len(frames) + 1
    BY <1>2, <1>6, <2>4
  <2>5. QED
    BY <1>2, <2>1, <2>2, <2>3, <2>4
<1>7. QED
  BY <1>2, <1>3, <1>4, <1>5, <1>6

\* An IRET pops a frame that was pushed.
LEMMA IretPops ==
  ASSUME Typed, frames # <<>>, frames' = Front(frames)
  PROVE  /\ frames' \in Seq(Frames) /\ Last(frames) \in Frames
         /\ ErrorCodeMatchesVector => ErrorCodeMatchesVector'
<1>1. frames \in Seq(Frames) /\ Len(frames) \in Nat /\ Len(frames) > 0
      /\ \A i \in 1 .. Len(frames) : frames[i] \in Frames
  BY DEF Typed
<1>2. /\ frames' \in Seq(Frames) /\ Len(frames') = Len(frames) - 1
      /\ \A i \in 1 .. Len(frames) - 1 : frames'[i] = frames[i]
  <2>1. 1 \in Int /\ Len(frames) - 1 \in Int
        /\ \A i \in 1 .. Len(frames) - 1 : frames[i] \in Frames
    BY <1>1
  <2> DEFINE m == Len(frames) - 1
  <2>2. /\ SubSeq(frames, 1, m) \in Seq(Frames)
        /\ Len(SubSeq(frames, 1, m)) = IF 1 <= m THEN m - 1 + 1 ELSE 0
        /\ \A i \in 1 .. m - 1 + 1 : SubSeq(frames, 1, m)[i] = frames[1 + i - 1]
    <3> HIDE DEF m
    <3>1. m \in Int /\ \A i \in 1 .. m : frames[i] \in Frames
      BY <2>1 DEF m
    <3>2. QED
      BY <2>1, <3>1, SubSeqProperties
  <2>3. QED
    <3>1. frames' = SubSeq(frames, 1, m)
      BY DEF Front
    <3>2. \A i \in 1 .. m : frames'[i] = frames[i]
      <4>1. m \in Int
        BY <1>1
      <4> HIDE DEF m
      <4>2. TAKE i \in 1 .. m
      <4>3. i \in 1 .. m - 1 + 1 /\ 1 + i - 1 = i
        BY <4>1
      <4>4. QED
        BY <2>2, <3>1, <4>3
    <3>3. m \in Nat
      BY <1>1
    <3>4. Len(frames') = m
      <4>1. Len(SubSeq(frames, 1, m)) = m
        <5> HIDE DEF m
        <5>1. QED
          BY <2>2, <3>3
      <4>2. QED
        BY <3>1, <4>1
    <3>5. QED
      BY <2>2, <3>1, <3>2, <3>4
<1>3. Last(frames) \in Frames
  BY <1>1 DEF Last
<1>4. ASSUME ErrorCodeMatchesVector PROVE ErrorCodeMatchesVector'
  BY <1>1, <1>2, <1>4 DEF ErrorCodeMatchesVector
<1>5. QED
  BY <1>2, <1>3, <1>4

\* The guest's registers and its stack after an instruction.
LEMMA ExecTyped ==
  ASSUME Typed, ExecInst
  PROVE  /\ eip' \in Nat /\ iff' \in BOOLEAN /\ frames' \in Seq(Frames)
         /\ ErrorCodeMatchesVector => ErrorCodeMatchesVector'
<1> DEFINE Goal == /\ eip' \in Nat /\ iff' \in BOOLEAN /\ frames' \in Seq(Frames)
                   /\ ErrorCodeMatchesVector => ErrorCodeMatchesVector'
<1>1. eip \in Nat /\ eip + 1 \in Nat /\ iff \in BOOLEAN /\ frames \in Seq(Frames)
  BY DEF Typed
<1>2. frames' = frames => (ErrorCodeMatchesVector => ErrorCodeMatchesVector')
  BY DEF ErrorCodeMatchesVector
<1>3. ASSUME Plain \/ Cli \/ Popf \/ SetCount \/ Sti \/ MoveToSS \/ StringEnd \/ Halt PROVE Goal
  BY <1>1, <1>2, <1>3 DEF Plain, Cli, Popf, SetCount, Sti, MoveToSS, StringEnd, Halt, Retire, counts
<1>4. ASSUME StayHalted \/ MemoryFault \/ Undefined \/ StringFault PROVE Goal
  BY <1>1, <1>2, <1>4 DEF StayHalted, MemoryFault, Undefined, StringFault, Raise
<1>5. ASSUME RepTest \/ Gather \/ Apply \/ SetFlag \/ RepNext PROVE Goal
  BY <1>1, <1>2, <1>5 DEF RepTest, Gather, Apply, SetFlag, RepNext, StayInCall
<1>6. ASSUME Jump \/ CallNear PROVE Goal
  BY <1>1, <1>2, <1>6 DEF Jump, CallNear, Branch, Raise
<1>7. ASSUME SoftwareInterrupt PROVE Goal
  <2>1. CASE Refused("soft")
    BY <1>1, <1>2, <2>1, RefusedRaises
  <2>2. CASE Accepted("soft", eip + 1, FALSE)
    <3>1. "soft" \in Vectors /\ FALSE \in BOOLEAN /\ "soft" \notin WithCode
      BY DEF Vectors, WithCode
    <3>2. QED
      BY <1>1, <2>2, <3>1, AcceptedPushes
  <2>3. QED
    BY <1>7, <2>1, <2>2 DEF SoftwareInterrupt
<1>8. ASSUME Iret PROVE Goal
  <2>1. CASE frames = <<>> /\ UNCHANGED <<eip, frames>> /\ Raise
    BY <1>1, <1>2, <2>1 DEF Raise
  <2>2. CASE frames # <<>>
    <3>1. frames' = Front(frames) /\ eip' = Last(frames).ret
          /\ (iff' = Last(frames).iff \/ iff' = iff)
      BY <1>8, <2>2 DEF Iret, Raise
    <3>2. QED
      BY <1>1, <2>2, <3>1, IretPops DEF Frames
  <2>3. QED
    BY <1>8, <2>1, <2>2 DEF Iret
<1>9. QED
  BY <1>3, <1>4, <1>5, <1>6, <1>7, <1>8 DEF ExecInst

-----------------------------------------------------------------------------
(***************************************************************************)
(* The invariant                                                           *)
(***************************************************************************)
LEMMA InitIInv == Init => IInv
<1>1. SUFFICES ASSUME Init PROVE IInv
  OBVIOUS
<1>2. /\ frames = <<>> /\ exc = [vec |-> NoVector, code |-> FALSE]
      /\ phase = "idle" /\ after = "idle"
  BY <1>1 DEF Init, Nothing
<1>3. exc \in Exceptions /\ exc.vec = NoVector
  BY <1>2 DEF Exceptions
<1>4. <<>> \in Seq(Frames) /\ DOMAIN <<>> = {}
  OBVIOUS
<1>5. Typed
  BY <1>1, <1>2, <1>3, <1>4 DEF Init, Typed
<1>6. ShadowInv /\ CodeInv /\ PendingInv /\ OriginInv
  BY <1>1, <1>2, <1>3 DEF Init, ShadowInv, CodeInv, PendingInv, OriginInv
<1>7. ErrorCodeMatchesVector
  BY <1>2, <1>4 DEF ErrorCodeMatchesVector
<1>8. QED
  BY <1>5, <1>6, <1>7 DEF IInv

LEMMA ExecInstIInv ==
  ASSUME IInv, ExecInst
  PROVE  IInv'
<1> USE DEF IInv
<1>1. phase = "run" /\ UNCHANGED <<prog, lost, origin>> /\ (Stays \/ Faults \/ Leaves)
  BY ExecStep
<1>2. exc' = exc \/ exc' \in Raised
  BY <1>1 DEF Stays, Faults, Leaves
<1>3. exc' \in Exceptions
  BY <1>2, RaisedTyped DEF Typed
<1>4. inhibit' \in BOOLEAN /\ shadow' \in BOOLEAN
  BY <1>1 DEF Typed, Stays, Faults, Leaves
<1>5. Typed' /\ ErrorCodeMatchesVector'
  BY <1>1, <1>3, <1>4, ExecTyped DEF Typed
<1>6. ShadowInv'
  <2>1. inhibit = FALSE /\ shadow = FALSE /\ after = "run"
    BY <1>1 DEF Typed, ShadowInv
  <2>2. inhibit' = shadow'
    <3>1. CASE Stays \/ Faults
      BY <2>1, <3>1 DEF Stays, Faults
    <3>2. CASE Leaves
      <4>1. CASE inhibit' = (inhibit \/ ~iff) /\ shadow' = ~iff
        <5>1. (inhibit \/ ~iff) = ~iff
          BY <2>1
        <5>2. QED
          BY <4>1, <5>1, Zenon
      <4>2. CASE UNCHANGED <<inhibit, shadow>>
        BY <2>1, <4>2
      <4>3. QED
        BY <3>2, <4>1, <4>2 DEF Leaves
    <3>3. QED
      BY <1>1, <3>1, <3>2
  <2>3. QED
    BY <1>1, <2>1, <2>2 DEF ShadowInv, Stays, Faults, Leaves
<1>7. CodeInv'
  BY <1>1 DEF CodeInv, Stays, Faults, Leaves
<1>8. PendingInv'
  BY <1>1 DEF PendingInv, Stays, Faults, Leaves
<1>9. OriginInv'
  <2>1. Code' = Code /\ origin' = origin /\ origin = eip /\ Code[origin] = Inst
    BY <1>1 DEF OriginInv, Code, Inst
  <2>2. QED
    BY <1>1, <2>1 DEF OriginInv, Stays, Faults, Leaves
<1>10. QED
  BY <1>5, <1>6, <1>7, <1>8, <1>9

\* A step that leaves the guest's state, the exception and the shadow alone.
Quiet == UNCHANGED <<prog, eip, iff, frames, exc, inhibit, shadow, lost>>

LEMMA QuietKeeps ==
  ASSUME Typed, Quiet
  PROVE  Typed' /\ Code' = Code /\ (ErrorCodeMatchesVector => ErrorCodeMatchesVector')
<1>1. Typed'
  BY DEF Typed, Quiet
<1>2. Code' = Code /\ (ErrorCodeMatchesVector => ErrorCodeMatchesVector')
  BY DEF Quiet, Code, ErrorCodeMatchesVector
<1>3. QED
  BY <1>1, <1>2

LEMMA HostIInv ==
  ASSUME IInv, SetIntr \/ Forget
  PROVE  IInv'
<1> USE DEF IInv
<1>1. Quiet /\ UNCHANGED <<phase, after, origin>>
  BY DEF SetIntr, Forget, Quiet, guest, history
<1>2. Typed' /\ Code' = Code /\ ErrorCodeMatchesVector'
  BY <1>1, QuietKeeps
<1>3. ShadowInv' /\ CodeInv' /\ PendingInv'
  BY <1>1 DEF Quiet, ShadowInv, CodeInv, PendingInv
<1>4. OriginInv'
  BY <1>1, <1>2 DEF Quiet, OriginInv
<1>5. QED
  BY <1>2, <1>3, <1>4

LEMMA ExecNextInstIInv ==
  ASSUME IInv, ExecNextInst
  PROVE  IInv'
<1> USE DEF IInv
<1>1. /\ phase = "idle" /\ phase' \in {"run", "fetch"} /\ after' = "run" /\ origin' = eip
      /\ inhibit' = FALSE /\ shadow' = FALSE
      /\ UNCHANGED <<prog, eip, iff, frames, exc, lost>>
  BY DEF ExecNextInst, Cleared, guest
<1>2. Typed' /\ ErrorCodeMatchesVector'
  BY <1>1 DEF Typed, ErrorCodeMatchesVector
<1>3. ShadowInv' /\ CodeInv' /\ PendingInv' /\ OriginInv'
  BY <1>1 DEF ShadowInv, CodeInv, PendingInv, OriginInv
<1>4. QED
  BY <1>2, <1>3

LEMMA AcknowledgeIInv ==
  ASSUME IInv, Acknowledge
  PROVE  IInv'
<1> USE DEF IInv
<1>1. /\ phase = "idle" /\ phase' \in {"idle", "fetch"} /\ after' = "idle"
      /\ UNCHANGED <<prog, inhibit, shadow, origin>>
  BY DEF Acknowledge, guest
<1>2. ShadowInv' /\ CodeInv' /\ OriginInv'
  BY <1>1 DEF ShadowInv, CodeInv, OriginInv
<1>3. CASE Accepted("irq", eip, FALSE) /\ UNCHANGED <<exc, lost>>
  <2>1. "irq" \in Vectors /\ FALSE \in BOOLEAN /\ "irq" \notin WithCode /\ eip \in Nat
    BY DEF Vectors, WithCode, Typed
  <2>2. /\ frames' \in Seq(Frames) /\ eip' \in Nat /\ iff' \in BOOLEAN
        /\ ErrorCodeMatchesVector'
    BY <1>3, <2>1, AcceptedPushes
  <2>3. Typed' /\ PendingInv'
    BY <1>1, <1>3, <2>2 DEF Typed, PendingInv
  <2>4. QED
    BY <1>2, <2>2, <2>3
<1>4. CASE Refused("irq") /\ lost' = TRUE
  <2>1. exc' \in Exceptions /\ UNCHANGED <<frames, eip, iff>>
    BY <1>4, RefusedRaises, RaisedTyped
  <2>2. Typed' /\ PendingInv' /\ ErrorCodeMatchesVector'
    BY <1>1, <1>4, <2>1 DEF Typed, PendingInv, ErrorCodeMatchesVector
  <2>3. QED
    BY <1>2, <2>2
<1>5. QED
  BY <1>3, <1>4 DEF Acknowledge

LEMMA GotoEipIInv ==
  ASSUME IInv, Cached \/ Decode \/ AssertionFails
  PROVE  IInv'
<1> USE DEF IInv
<1>1. /\ phase = "fetch" /\ UNCHANGED <<prog, eip, iff, frames, inhibit, shadow, after, lost>>
      /\ (phase' = after /\ origin' = eip) \/ phase' = "asserted"
  BY DEF Cached, Decode, AssertionFails, GotoEip, guest, history
<1>2. exc' = exc \/ exc' = [exc EXCEPT !.code = TRUE]
  BY DEF Cached, Decode, AssertionFails
<1>3. exc' \in Exceptions /\ exc'.vec = exc.vec
  BY <1>2 DEF Typed, Exceptions
<1>4. Typed' /\ ErrorCodeMatchesVector'
  BY <1>1, <1>3 DEF Typed, ErrorCodeMatchesVector
<1>5. QED
  BY <1>1, <1>3, <1>4 DEF ShadowInv, CodeInv, PendingInv, OriginInv

LEMMA FetchFaultIInv ==
  ASSUME IInv, FetchFault
  PROVE  IInv'
<1> USE DEF IInv
<1>1. /\ phase' = "deliver" /\ origin' = eip
      /\ UNCHANGED <<prog, eip, iff, frames, inhibit, shadow, after, lost>>
  BY DEF FetchFault, guest
<1>2. exc' \in Raised
  BY RaisedWhole DEF FetchFault, WithCode
<1>3. Typed' /\ ErrorCodeMatchesVector'
  BY <1>1, <1>2, RaisedTyped DEF Typed, ErrorCodeMatchesVector
<1>4. ShadowInv' /\ CodeInv' /\ PendingInv' /\ OriginInv'
  BY <1>1, <1>2 DEF ShadowInv, CodeInv, PendingInv, OriginInv
<1>5. QED
  BY <1>3, <1>4

\* What is delivered, and what its frame holds.
LEMMA DeliverEffect ==
  ASSUME IInv, Deliver
  PROVE  /\ frames' \in Seq(Frames) /\ eip' \in Nat /\ iff' \in BOOLEAN
         /\ Last(frames').ret = eip
         /\ ErrorCodeMatchesVector'
<1>1. exc \in Raised /\ eip \in Nat
  BY DEF IInv, CodeInv, Deliver, Typed
<1>2. exc.vec \in Vectors /\ exc.code \in BOOLEAN /\ (exc.code <=> exc.vec \in WithCode)
  BY <1>1, RaisedTyped DEF Exceptions
<1>3. Accepted(exc.vec, eip, exc.code)
  BY DEF Deliver, ReturnEip
<1>4. QED
  BY <1>1, <1>2, <1>3, AcceptedPushes DEF IInv

LEMMA DeliverIInv ==
  ASSUME IInv, Deliver
  PROVE  IInv'
<1>1. /\ phase' = "fetch" /\ exc' = [vec |-> NoVector, code |-> FALSE]
      /\ UNCHANGED <<prog, inhibit, shadow, after, lost, origin>>
  BY DEF Deliver, Delivered, Nothing, guest, history
<1>2. exc' \in Exceptions /\ exc'.vec = NoVector
  BY <1>1 DEF Exceptions
<1>3. Typed' /\ ErrorCodeMatchesVector'
  BY <1>1, <1>2, DeliverEffect DEF IInv, Typed
<1>4. ShadowInv' /\ CodeInv' /\ PendingInv' /\ OriginInv'
  BY <1>1, <1>2 DEF IInv, ShadowInv, CodeInv, PendingInv, OriginInv
<1>5. QED
  BY <1>3, <1>4 DEF IInv

LEMMA DeliverAgainIInv ==
  ASSUME IInv, DeliverAgain
  PROVE  IInv'
<1> USE DEF IInv
<1>1. /\ phase = "deliver" /\ phase' \in {"deliver", "exited"}
      /\ UNCHANGED <<prog, inhibit, shadow, after, lost, origin>>
  BY DEF DeliverAgain, guest, history
<1>2. exc' \in Raised /\ UNCHANGED <<frames, eip, iff>>
  BY RefusedRaises DEF DeliverAgain
<1>3. Typed' /\ ErrorCodeMatchesVector' /\ Code' = Code
  BY <1>1, <1>2, RaisedTyped DEF Typed, ErrorCodeMatchesVector, Code
<1>4. ShadowInv' /\ CodeInv' /\ PendingInv' /\ OriginInv'
  BY <1>1, <1>2, <1>3 DEF ShadowInv, CodeInv, PendingInv, OriginInv
<1>5. QED
  BY <1>3, <1>4

LEMMA NextIInv == IInv /\ [Next]_vars => IInv'
<1>1. SUFFICES ASSUME IInv, [Next]_vars PROVE IInv'
  OBVIOUS
<1>2. CASE UNCHANGED vars
  BY <1>1, <1>2 DEF vars, IInv, Typed, ShadowInv, CodeInv, PendingInv, OriginInv, Code,
                    ErrorCodeMatchesVector
<1>3. CASE SetIntr \/ Forget
  BY <1>1, <1>3, HostIInv
<1>4. CASE ExecNextInst
  BY <1>1, <1>4, ExecNextInstIInv
<1>5. CASE Acknowledge
  BY <1>1, <1>5, AcknowledgeIInv
<1>6. CASE Cached \/ Decode \/ AssertionFails
  BY <1>1, <1>6, GotoEipIInv
<1>7. CASE FetchFault
  BY <1>1, <1>7, FetchFaultIInv
<1>8. CASE Deliver
  BY <1>1, <1>8, DeliverIInv
<1>9. CASE DeliverAgain
  BY <1>1, <1>9, DeliverAgainIInv
<1>10. CASE ExecInst
  BY <1>1, <1>10, ExecInstIInv
<1>11. QED
  BY <1>1, <1>2, <1>3, <1>4, <1>5, <1>6, <1>7, <1>8, <1>9, <1>10 DEF Next, Jit

\* The invariant behind the theorems of this module: the shadow, the pending
\* exception and the instruction under way, in every phase of a call.
THEOREM EventsInvariant == Spec => []IInv
<1>1. IInv /\ [Next]_vars => IInv'
  BY NextIInv
<1>2. QED
  BY <1>1, InitIInv, PTL DEF Spec

-----------------------------------------------------------------------------
\* No interrupt is kept out but after STI from IF clear and after a load of SS, and
\* none is let in there: what _inhibit_interrupt says between two calls.
THEOREM ShadowIsExact == Spec => []ShadowLastsOneInstruction
<1>1. IInv => ShadowLastsOneInstruction
  BY DEF IInv, ShadowInv, ShadowLastsOneInstruction
<1>2. QED
  BY <1>1, EventsInvariant, PTL

\* No frame of the guest has an error code its vector has not, or lacks one it has,
\* whatever the decoder left in use_error_code.
THEOREM ErrorCodesAreRight == Spec => []ErrorCodeMatchesVector
<1>1. IInv => ErrorCodeMatchesVector
  BY DEF IInv
<1>2. QED
  BY <1>1, EventsInvariant, PTL

\* Only the failed delivery of an interrupt of the host leaves an exception behind.
THEOREM OnlyInterruptsAreLeft == Spec => []NothingPending
<1>1. IInv => NothingPending
  BY DEF IInv, PendingInv, NothingPending
<1>2. QED
  BY <1>1, EventsInvariant, PTL

\* The handler of a fault gets the address of the instruction, unless that is a near
\* call or an IRET.
THEOREM FaultsReportTheirInstruction == Spec => FaultReportsItsInstructionUnlessMoved
<1>1. IInv /\ [Next]_vars => [FaultReported({"call", "iret"})]_vars
  <2>1. SUFFICES ASSUME IInv, [Next]_vars, phase = "deliver", phase' = "fetch",
                        Code[origin] \notin {"call", "iret"}
                 PROVE  Last(frames').ret = origin
    BY DEF FaultReported
  <2>2. Deliver
    <3>1. ~ExecInst
      BY <2>1, ExecStep
    <3>2. phase # phase'
      BY <2>1
    <3>3. QED
      BY <2>1, <3>1, <3>2 DEF Next, Jit, vars, SetIntr, Forget, ExecNextInst, Acknowledge,
                               Cached, Decode, GotoEip, FetchFault, AssertionFails, DeliverAgain
  <2>3. Last(frames').ret = eip
    BY <2>1, <2>2, DeliverEffect
  <2>4. origin = eip
    BY <2>1 DEF IInv, OriginInv
  <2>5. QED
    BY <2>3, <2>4
<1>2. QED
  BY <1>1, EventsInvariant, PTL DEF Spec, FaultReportsItsInstructionUnlessMoved

-----------------------------------------------------------------------------
(***************************************************************************)
(* Repeated string instructions.  The bytecode of each, whatever flags it  *)
(* computes, has the shape below: a head that tests the count, an          *)
(* operation, a tail that goes back to it.  The distances the compile_*    *)
(* functions count by hand lead from the head past the tail and from the   *)
(* tail to the first word of the operation.                                *)
(***************************************************************************)
Gathering == {"offset", "read"}
FlagNames == OptionalFlags \cup {"ZF"}
Controls == {"inc", "incimm", "imm", "dec", "rep", "repe", "repne", "eip"}
Records == [w : Gathering \cup Applying \cup FlagNames \cup Controls, n : Nat]

\* Words that gather operands, one that applies the operation, words that set flags.
OpShape(op, g) ==
  /\ op \in Seq(Records) /\ g \in Nat /\ g < Len(op)
  /\ \A i \in 1 .. g : op[i].w \in Gathering
  /\ op[g + 1].w \in Applying
  /\ \A i \in g + 2 .. Len(op) : op[i].w \in FlagNames

Head1(s) == IF s.prefix = "rep" THEN 1 ELSE 2
Reads(ws) == {i \in DOMAIN ws : ws[i].w \in Gathering}
Gathers(s) == Cardinality(Reads(s.words))
Size(s) == IF s.prefix = "rep" THEN s.words[1].n - 1 ELSE s.words[2].n - 2

Laid(s, h, g, m) ==
  /\ h \in {1, 2} /\ g \in Nat /\ m \in Nat /\ g < m
  /\ Len(s.words) = h + m + h + 1
  /\ Reads(s.words) = h + 1 .. h + g
  /\ s.words[h + g + 1].w \in Applying
  /\ \A i \in h + g + 2 .. h + m : s.words[i].w \in FlagNames
  /\ IF s.prefix = "rep"
     THEN h = 1 /\ s.words[1] = Word("inc", m + 1) /\ s.words[m + 2] = Word("dec", m)
     ELSE /\ h = 2 /\ s.words[1].w = "incimm" /\ s.words[2] = Word("imm", m + 2)
          /\ s.words[m + 3].w = s.prefix /\ s.words[m + 4] = Word("imm", m)
  /\ s.words[h + m + h + 1] = Op("eip")

Shape(s) == Laid(s, Head1(s), Gathers(s), Size(s))

MadeOf(x, a, b, c, d) ==
  /\ x \in Seq(Records) /\ Len(x) = Len(a) + Len(b) + Len(c) + Len(d)
  /\ \A i \in 1 .. Len(a) : x[i] = a[i]
  /\ \A i \in 1 .. Len(b) : x[Len(a) + i] = b[i]
  /\ \A i \in 1 .. Len(c) : x[Len(a) + Len(b) + i] = c[i]
  /\ \A i \in 1 .. Len(d) : x[Len(a) + Len(b) + Len(c) + i] = d[i]

LEMMA FourParts ==
  ASSUME NEW a \in Seq(Records), NEW b \in Seq(Records), NEW c \in Seq(Records),
         NEW d \in Seq(Records), NEW x, x = ((a \o b) \o c) \o d
  PROVE  MadeOf(x, a, b, c, d)
<1> DEFINE y == a \o b
           z == y \o c
<1>1. /\ Len(a) \in Nat /\ Len(b) \in Nat /\ Len(c) \in Nat /\ Len(d) \in Nat OBVIOUS
<1>2. /\ y \in Seq(Records) /\ Len(y) = Len(a) + Len(b)
      /\ \A i \in 1 .. Len(a) + Len(b) : y[i] = IF i <= Len(a) THEN a[i] ELSE b[i - Len(a)]
  BY ConcatProperties
<1> HIDE DEF y
<1>3. /\ z \in Seq(Records) /\ Len(z) = Len(y) + Len(c)
      /\ \A i \in 1 .. Len(y) + Len(c) : z[i] = IF i <= Len(y) THEN y[i] ELSE c[i - Len(y)]
  BY <1>2, ConcatProperties
<1>4. x = z \o d BY DEF y
<1> HIDE DEF z
<1>5. /\ x \in Seq(Records) /\ Len(x) = Len(z) + Len(d)
      /\ \A i \in 1 .. Len(z) + Len(d) : x[i] = IF i <= Len(z) THEN z[i] ELSE d[i - Len(z)]
  BY <1>3, <1>4, ConcatProperties
<1> DEFINE la == Len(a)
           lb == Len(b)
           lc == Len(c)
           ld == Len(d)
<1>6. la \in Nat /\ lb \in Nat /\ lc \in Nat /\ ld \in Nat
      /\ Len(y) = la + lb /\ Len(z) = la + lb + lc /\ Len(x) = la + lb + lc + ld
  BY <1>1, <1>2, <1>3, <1>5
<1>7. /\ \A i \in 1 .. la + lb : y[i] = IF i <= la THEN a[i] ELSE b[i - la]
      /\ \A i \in 1 .. la + lb + lc : z[i] = IF i <= la + lb THEN y[i] ELSE c[i - (la + lb)]
      /\ \A i \in 1 .. la + lb + lc + ld :
           x[i] = IF i <= la + lb + lc THEN z[i] ELSE d[i - (la + lb + lc)]
  BY <1>2, <1>3, <1>5, <1>6
<1> HIDE DEF la, lb, lc, ld
<1>8. \A i \in 1 .. la : x[i] = a[i]
  <2>1. TAKE i \in 1 .. la
  <2>2. i \in 1 .. la + lb /\ i \in 1 .. la + lb + lc /\ i \in 1 .. la + lb + lc + ld
        /\ i <= la /\ i <= la + lb /\ i <= la + lb + lc
    BY <1>6
  <2> QED BY <1>7, <2>2
<1>9. \A i \in 1 .. lb : x[la + i] = b[i]
  <2>1. TAKE i \in 1 .. lb
  <2> DEFINE k == la + i
  <2>2. k \in 1 .. la + lb /\ k \in 1 .. la + lb + lc /\ k \in 1 .. la + lb + lc + ld
        /\ ~(k <= la) /\ k <= la + lb /\ k <= la + lb + lc /\ k - la = i
    BY <1>6
  <2> HIDE DEF k
  <2>3. x[k] = b[i] BY <1>7, <2>2
  <2> QED BY <2>3 DEF k
<1>10. \A i \in 1 .. lc : x[la + lb + i] = c[i]
  <2>1. TAKE i \in 1 .. lc
  <2> DEFINE k == la + lb + i
  <2>2. k \in 1 .. la + lb + lc /\ k \in 1 .. la + lb + lc + ld
        /\ ~(k <= la + lb) /\ k <= la + lb + lc /\ k - (la + lb) = i
    BY <1>6
  <2> HIDE DEF k
  <2>3. x[k] = c[i] BY <1>7, <2>2
  <2> QED BY <2>3 DEF k
<1>11. \A i \in 1 .. ld : x[la + lb + lc + i] = d[i]
  <2>1. TAKE i \in 1 .. ld
  <2> DEFINE k == la + lb + lc + i
  <2>2. k \in 1 .. la + lb + lc + ld /\ ~(k <= la + lb + lc) /\ k - (la + lb + lc) = i
    BY <1>6
  <2> HIDE DEF k
  <2>3. x[k] = d[i] BY <1>7, <2>2
  <2> QED BY <2>3 DEF k
<1> QED BY <1>5, <1>6, <1>8, <1>9, <1>10, <1>11 DEF la, lb, lc, ld, MadeOf

\* An operation of any shape, between a head and a tail with these distances.
LEMMA ShapeOf ==
  ASSUME NEW op, NEW g, OpShape(op, g), NEW prefix \in {"rep", "repe", "repne"},
         NEW a, NEW c, NEW s,
         s = [prefix |-> prefix, words |-> ((a \o op) \o c) \o update_eip],
         IF prefix = "rep"
         THEN a = <<Word("inc", Len(op) + 1)>> /\ c = <<Word("dec", Len(op))>>
         ELSE /\ a = <<Op("incimm"), Word("imm", Len(op) + 2)>>
              /\ c = <<Op(prefix), Word("imm", Len(op))>>
  PROVE  Shape(s)
<1> DEFINE h == IF prefix = "rep" THEN 1 ELSE 2
           m == Len(op)
           ws == s.words
<1>1. op \in Seq(Records) /\ m \in Nat /\ g \in Nat /\ g < m BY DEF OpShape
<1>2. /\ h \in {1, 2} /\ h = Head1(s) /\ s.prefix = prefix
      /\ ws = ((a \o op) \o c) \o update_eip
  BY DEF Head1
<1>3. /\ a \in Seq(Records) /\ c \in Seq(Records) /\ update_eip \in Seq(Records)
      /\ Len(a) = h /\ Len(c) = h /\ Len(update_eip) = 1 /\ update_eip[1] = Op("eip")
      /\ IF prefix = "rep"
         THEN a[1] = Word("inc", m + 1) /\ c[1] = Word("dec", m)
         ELSE /\ a[1] = Op("incimm") /\ a[2] = Word("imm", m + 2)
              /\ c[1] = Op(prefix) /\ c[2] = Word("imm", m)
  <2>1. m + 1 \in Nat /\ m + 2 \in Nat /\ m \in Nat BY <1>1
  <2>2. \A n \in Nat : /\ Word("inc", n) \in Records /\ Word("dec", n) \in Records
                       /\ Word("imm", n) \in Records
    BY DEF Word, Records, Controls
  <2>3. Op("incimm") \in Records /\ Op(prefix) \in Records /\ Op("eip") \in Records
    BY DEF Op, Word, Records, Controls
  <2> HIDE DEF m
  <2>4. update_eip \in Seq(Records) /\ Len(update_eip) = 1 /\ update_eip[1] = Op("eip")
    BY <2>3 DEF update_eip
  <2>5. CASE prefix = "rep"
    <3>1. a = <<Word("inc", m + 1)>> /\ c = <<Word("dec", m)>> BY <2>5 DEF m
    <3> QED BY <2>1, <2>2, <2>4, <2>5, <3>1
  <2>6. CASE prefix # "rep"
    <3>1. a = <<Op("incimm"), Word("imm", m + 2)>> /\ c = <<Op(prefix), Word("imm", m)>>
      BY <2>6 DEF m
    <3> QED BY <2>1, <2>2, <2>3, <2>4, <2>6, <3>1
  <2> QED BY <2>5, <2>6
<1>4. /\ ws \in Seq(Records) /\ Len(ws) = h + m + h + 1
      /\ \A i \in 1 .. h : ws[i] = a[i]
      /\ \A i \in 1 .. m : ws[h + i] = op[i]
      /\ \A i \in 1 .. h : ws[h + m + i] = c[i]
      /\ \A i \in 1 .. 1 : ws[h + m + h + i] = update_eip[i]
  <2> HIDE DEF h, m, ws
  <2>1. MadeOf(ws, a, op, c, update_eip) BY <1>1, <1>2, <1>3, FourParts
  <2>2. Len(op) = m BY DEF m
  <2>3. ws \in Seq(Records) /\ Len(ws) = h + m + h + 1
        /\ (\A i \in 1 .. h : ws[i] = a[i])
        /\ (\A i \in 1 .. m : ws[h + i] = op[i])
        /\ (\A i \in 1 .. h : ws[h + m + i] = c[i])
        /\ (\A i \in 1 .. 1 : ws[h + m + h + i] = update_eip[i])
    <3>1. Len(a) = h /\ Len(c) = h /\ Len(update_eip) = 1 BY <1>3
    <3> QED BY <2>1, <2>2, <3>1, Zenon DEF MadeOf
  <2> QED BY <2>3
<1> HIDE DEF h, m, ws
<1>0. h \in Nat /\ h >= 1 BY <1>2
<1>5. /\ \A i \in 1 .. g : op[i].w \in Gathering
      /\ op[g + 1].w \in Applying
      /\ \A i \in g + 2 .. m : op[i].w \in FlagNames
  BY DEF OpShape, m
<1>6. ws[h + m + h + 1] = Op("eip") /\ Op("eip").w = "eip"
  BY <1>3, <1>4 DEF Op, Word
<1>7. \A i \in 1 .. h : ws[i].w \notin Gathering /\ ws[h + m + i].w \notin Gathering
  <2>1. ASSUME NEW i \in 1 .. h
        PROVE  a[i].w \notin Gathering /\ c[i].w \notin Gathering
    <3>1. CASE prefix = "rep"
      <4>1. i = 1 BY <1>2, <3>1 DEF h
      <4> QED BY <1>3, <3>1, <4>1 DEF Word, Gathering
    <3>2. CASE prefix # "rep"
      <4>1. i = 1 \/ i = 2 BY <1>2, <3>2 DEF h
      <4> QED BY <1>3, <3>2, <4>1 DEF Word, Op, Gathering
    <3> QED BY <3>1, <3>2
  <2> QED BY <1>4, <2>1
<1>8. Reads(ws) = h + 1 .. h + g
  <2>1. DOMAIN ws = 1 .. h + m + h + 1 BY <1>4
  <2>2. ASSUME NEW i \in 1 .. h + m + h + 1
        PROVE  ws[i].w \in Gathering <=> i \in h + 1 .. h + g
    <3>1. CASE i \in 1 .. h
      <4>1. i \notin h + 1 .. h + g BY <1>0, <1>1, <3>1
      <4> QED BY <1>7, <3>1, <4>1
    <3>2. CASE i \in h + 1 .. h + g
      <4> DEFINE k == i - h
      <4>1. k \in 1 .. g /\ k \in 1 .. m /\ h + k = i BY <1>0, <1>1, <3>2
      <4> HIDE DEF k
      <4>2. ws[i] = op[k] BY <1>4, <4>1
      <4> QED BY <1>5, <3>2, <4>1, <4>2
    <3>3. CASE i = h + g + 1
      <4>1. g + 1 \in 1 .. m /\ h + (g + 1) = i /\ i \notin h + 1 .. h + g
        BY <1>0, <1>1, <3>3
      <4>2. ws[i] = op[g + 1] BY <1>4, <4>1
      <4>3. \A w \in Applying : w \notin Gathering
        BY DEF Applying, Comparisons, PortReads, Loads, Writes, PortWrites, Gathering
      <4> QED BY <1>5, <4>1, <4>2, <4>3
    <3>4. CASE i \in h + g + 2 .. h + m
      <4> DEFINE k == i - h
      <4>1. k \in g + 2 .. m /\ k \in 1 .. m /\ h + k = i /\ i \notin h + 1 .. h + g
        BY <1>0, <1>1, <3>4
      <4> HIDE DEF k
      <4>2. ws[i] = op[k] BY <1>4, <4>1
      <4>3. \A w \in FlagNames : w \notin Gathering
        BY DEF FlagNames, OptionalFlags, Gathering
      <4> QED BY <1>5, <4>1, <4>2, <4>3
    <3>5. CASE i \in h + m + 1 .. h + m + h
      <4> DEFINE k == i - (h + m)
      <4>1. k \in 1 .. h /\ h + m + k = i /\ i \notin h + 1 .. h + g
        BY <1>0, <1>1, <3>5
      <4> HIDE DEF k
      <4> QED BY <1>7, <4>1
    <3>6. CASE i = h + m + h + 1
      <4>1. i \notin h + 1 .. h + g BY <1>0, <1>1, <3>6
      <4> QED BY <1>6, <3>6, <4>1 DEF Gathering
    <3>7. \/ i \in 1 .. h \/ i \in h + 1 .. h + g \/ i = h + g + 1
          \/ i \in h + g + 2 .. h + m \/ i \in h + m + 1 .. h + m + h
          \/ i = h + m + h + 1
      BY <1>0, <1>1
    <3> QED BY <3>1, <3>2, <3>3, <3>4, <3>5, <3>6, <3>7
  <2>3. \A i \in h + 1 .. h + g : i \in 1 .. h + m + h + 1 BY <1>0, <1>1
  <2> QED BY <2>1, <2>2, <2>3 DEF Reads
<1>9. Gathers(s) = g
  <2>1. h + 1 \in Int /\ h + g \in Int BY <1>1, <1>2
  <2>2. Cardinality(h + 1 .. h + g) = IF h + 1 > h + g THEN 0 ELSE (h + g) - (h + 1) + 1
    BY <2>1, FS_Interval
  <2>3. Cardinality(h + 1 .. h + g) = g BY <1>1, <1>2, <2>2
  <2> QED BY <1>8, <2>3 DEF Gathers, ws
<1>10. ws[h + g + 1].w \in Applying
  <2>1. g + 1 \in 1 .. m /\ h + (g + 1) = h + g + 1 BY <1>1, <1>2
  <2>2. ws[h + (g + 1)] = op[g + 1] BY <1>4, <2>1
  <2> QED BY <1>5, <2>1, <2>2
<1>11. \A i \in h + g + 2 .. h + m : ws[i].w \in FlagNames
  <2>1. TAKE i \in h + g + 2 .. h + m
  <2> DEFINE k == i - h
  <2>2. k \in g + 2 .. m /\ k \in 1 .. m /\ h + k = i BY <1>1, <1>2
  <2> HIDE DEF k
  <2> QED BY <1>4, <1>5, <2>2
<1>12. IF s.prefix = "rep"
       THEN h = 1 /\ ws[1] = Word("inc", m + 1) /\ ws[m + 2] = Word("dec", m)
       ELSE /\ h = 2 /\ ws[1].w = "incimm" /\ ws[2] = Word("imm", m + 2)
            /\ ws[m + 3].w = s.prefix /\ ws[m + 4] = Word("imm", m)
  <2>1. CASE prefix = "rep"
    <3>1. h = 1 /\ 1 \in 1 .. h /\ h + m + 1 = m + 2 BY <1>1, <2>1 DEF h
    <3>2. ws[1] = a[1] /\ ws[m + 2] = c[1] BY <1>4, <3>1
    <3> QED BY <1>2, <1>3, <2>1, <3>1, <3>2
  <2>2. CASE prefix # "rep"
    <3>1. /\ h = 2 /\ 1 \in 1 .. h /\ 2 \in 1 .. h
          /\ h + m + 1 = m + 3 /\ h + m + 2 = m + 4
      BY <1>1, <2>2 DEF h
    <3>2. ws[1] = a[1] /\ ws[2] = a[2] /\ ws[m + 3] = c[1] /\ ws[m + 4] = c[2]
      BY <1>4, <3>1
    <3>3. a[1].w = "incimm" /\ c[1].w = prefix BY <1>3, <2>2 DEF Op, Word
    <3> QED BY <1>2, <1>3, <2>2, <3>1, <3>2, <3>3
  <2> QED BY <2>1, <2>2
<1>13. Size(s) = m
  <2>1. \A x : Word("inc", x).n = x /\ Word("imm", x).n = x BY DEF Word
  <2>2. CASE s.prefix = "rep"
    <3>1. Size(s) = ws[1].n - 1 /\ ws[1] = Word("inc", m + 1) BY <1>12, <2>2 DEF Size, ws
    <3> QED BY <1>1, <2>1, <3>1
  <2>3. CASE s.prefix # "rep"
    <3>1. Size(s) = ws[2].n - 2 /\ ws[2] = Word("imm", m + 2) BY <1>12, <2>3 DEF Size, ws
    <3> QED BY <1>1, <2>1, <3>1
  <2> QED BY <2>2, <2>3
<1>14. Laid(s, h, g, m)
  BY <1>1, <1>2, <1>4, <1>6, <1>8, <1>10, <1>11, <1>12 DEF Laid, ws
<1> QED BY <1>2, <1>9, <1>13, <1>14 DEF Shape

\* A comparison sets ZF and one flag more for every word the count adds.
LEMMA FlagWordsCounted ==
  ASSUME NEW flags \in SUBSET OptionalFlags
  PROVE  /\ FlagWords(flags) \in Seq(Records) /\ Cardinality(flags) \in Nat
         /\ Len(FlagWords(flags)) = Cardinality(flags) + 1
         /\ \A i \in 1 .. Len(FlagWords(flags)) : FlagWords(flags)[i].w \in FlagNames
<1> DEFINE T == {Op(f) : f \in flags}
           r == [f \in flags |-> Op(f)]
<1>1. IsFiniteSet(flags) /\ Cardinality(flags) \in Nat
  <2>1. IsFiniteSet({"OF", "SF", "AF", "CF", "PF"})
    <3>1. IsFiniteSet({}) /\ IsFiniteSet({} \cup {"OF"}) BY FS_EmptySet, FS_AddElement
    <3>2. IsFiniteSet({"OF"} \cup {"SF"}) BY <3>1, FS_AddElement
    <3>3. IsFiniteSet({"OF", "SF"} \cup {"AF"}) BY <3>2, FS_AddElement
    <3>4. IsFiniteSet({"OF", "SF", "AF"} \cup {"CF"}) BY <3>3, FS_AddElement
    <3>5. IsFiniteSet({"OF", "SF", "AF", "CF"} \cup {"PF"}) BY <3>4, FS_AddElement
    <3> QED BY <3>5
  <2>2. IsFiniteSet(flags) BY <2>1, FS_Subset DEF OptionalFlags
  <2> QED BY <2>2, FS_CardinalityType
<1>2. IsFiniteSet(T) /\ Cardinality(T) = Cardinality(flags)
  <2>1. r \in Surjection(flags, T) /\ r \in Injection(flags, T)
    BY DEF Surjection, Injection, IsInjective, Op, Word
  <2> QED BY <1>1, <2>1, FS_Surjection
<1>3. \A x \in T : x \in Records /\ x.w \in FlagNames
  BY DEF Op, Word, Records, FlagNames
<1> HIDE DEF T
<1> DEFINE n == Cardinality(flags)
           v == SetToSeq(T)
<1>4. v \in [1 .. n -> T]
  <2>1. ExistsBijection(1 .. n, T) BY <1>2, FS_CardinalityType
  <2>2. \E p \in [1 .. n -> T] : IsInjective(p)
    BY <2>1 DEF ExistsBijection, Bijection, Injection, IsInjective
  <2> QED BY <1>2, <2>2 DEF SetToSeq
<1>5. v \in Seq(Records) /\ Len(v) = n /\ \A i \in 1 .. n : v[i].w \in FlagNames
  <2> HIDE DEF v, n
  <2>1. n \in Nat BY <1>1 DEF n
  <2>2. v \in [1 .. n -> Records] BY <1>3, <1>4
  <2> QED BY <1>3, <1>4, <2>1, <2>2
<1>6. <<Op("ZF")>> \in Seq(Records) /\ Len(<<Op("ZF")>>) = 1 /\ <<Op("ZF")>>[1].w \in FlagNames
  BY DEF Op, Word, Records, FlagNames
<1> DEFINE z == <<Op("ZF")>>
           y == v \o z
<1>7. FlagWords(flags) = y BY DEF FlagWords, T
<1>8. /\ y \in Seq(Records) /\ Len(y) = n + 1
      /\ \A i \in 1 .. n + 1 : y[i] = IF i <= n THEN v[i] ELSE z[i - n]
  <2> HIDE DEF v, z, n
  <2>0. z \in Seq(Records) /\ Len(z) = 1 BY <1>6 DEF z
  <2> QED BY <1>5, <2>0, ConcatProperties
<1>9. \A i \in 1 .. n + 1 : y[i].w \in FlagNames
  <2> HIDE DEF v, z, n, y
  <2>1. n \in Nat /\ z[1].w \in FlagNames BY <1>1, <1>6 DEF n, z
  <2>2. TAKE i \in 1 .. n + 1
  <2>3. CASE i \in 1 .. n BY <1>5, <1>8, <2>3
  <2>4. CASE i = n + 1 BY <1>8, <2>1, <2>4
  <2> QED BY <2>1, <2>3, <2>4
<1> QED BY <1>1, <1>7, <1>8, <1>9

\* An operation that applies words it has gathered, or none, sets no flag yet.
Bare(op, g) == OpShape(op, g) /\ Len(op) = g + 1

LEMMA BareOperations ==
  \A w \in Applying : /\ Bare(compile_read_si \o <<Op(w)>>, 2)
                      /\ Bare(<<Op(w)>>, 0)
<1>1. SUFFICES ASSUME NEW w \in Applying
               PROVE  Bare(compile_read_si \o <<Op(w)>>, 2) /\ Bare(<<Op(w)>>, 0)
  OBVIOUS
<1>2. Op(w) \in Records /\ Op(w).w = w BY DEF Op, Word, Records
<1>3. /\ Op("offset") \in Records /\ Op("offset").w = "offset"
      /\ Op("read") \in Records /\ Op("read").w = "read"
  BY DEF Op, Word, Records, Gathering
<1>4. Bare(<<Op(w)>>, 0)
  <2>1. <<Op(w)>> \in Seq(Records) /\ Len(<<Op(w)>>) = 1 /\ <<Op(w)>>[1].w = w BY <1>2
  <2> QED BY <2>1 DEF Bare, OpShape
<1>5. Bare(compile_read_si \o <<Op(w)>>, 2)
  <2> DEFINE a == compile_read_si
             b == <<Op(w)>>
             y == a \o b
  <2>1. /\ a \in Seq(Records) /\ Len(a) = 2 /\ a[1].w = "offset" /\ a[2].w = "read"
        /\ b \in Seq(Records) /\ Len(b) = 1 /\ b[1].w = w
    BY <1>2, <1>3 DEF compile_read_si
  <2> HIDE DEF a, b
  <2>2. /\ y \in Seq(Records) /\ Len(y) = Len(a) + Len(b)
        /\ \A i \in 1 .. Len(a) + Len(b) : y[i] = IF i <= Len(a) THEN a[i] ELSE b[i - Len(a)]
    BY <2>1, ConcatProperties
  <2> HIDE DEF y
  <2>3. Len(y) = 3 /\ y[1] = a[1] /\ y[2] = a[2] /\ y[3] = b[1] BY <2>1, <2>2
  <2>4. \A i \in 1 .. 2 : y[i].w \in Gathering
    <3>1. TAKE i \in 1 .. 2
    <3>2. i = 1 \/ i = 2 OBVIOUS
    <3> QED BY <2>1, <2>3, <3>2 DEF Gathering
  <2>5. OpShape(y, 2) BY <2>1, <2>2, <2>3, <2>4 DEF OpShape
  <2> QED BY <2>3, <2>5 DEF Bare, a, b, y
<1> QED BY <1>4, <1>5

LEMMA FlagsAfterBare ==
  ASSUME NEW op, NEW g, Bare(op, g), NEW flags \in SUBSET OptionalFlags
  PROVE  /\ OpShape(op \o FlagWords(flags), g)
         /\ Len(op \o FlagWords(flags)) = g + 2 + Cardinality(flags)
<1> DEFINE fw == FlagWords(flags)
           n == Cardinality(flags)
           y == op \o fw
<1>1. /\ fw \in Seq(Records) /\ n \in Nat /\ Len(fw) = n + 1
      /\ \A i \in 1 .. n + 1 : fw[i].w \in FlagNames
  <2>1. Len(fw) = n + 1 BY FlagWordsCounted
  <2> QED BY <2>1, FlagWordsCounted
<1>2. /\ op \in Seq(Records) /\ g \in Nat /\ Len(op) = g + 1
      /\ \A i \in 1 .. g : op[i].w \in Gathering
      /\ op[g + 1].w \in Applying
  BY DEF Bare, OpShape
<1> HIDE DEF fw, n
<1>3. /\ y \in Seq(Records) /\ Len(y) = (g + 1) + (n + 1)
      /\ \A i \in 1 .. (g + 1) + (n + 1) : y[i] = IF i <= g + 1 THEN op[i] ELSE fw[i - (g + 1)]
  <2>1. /\ y \in Seq(Records) /\ Len(y) = Len(op) + Len(fw)
        /\ \A i \in 1 .. Len(op) + Len(fw) : y[i] = IF i <= Len(op) THEN op[i] ELSE fw[i - Len(op)]
    BY <1>1, <1>2, ConcatProperties
  <2> QED BY <1>1, <1>2, <2>1
<1> HIDE DEF y
<1>4. \A i \in 1 .. g : y[i].w \in Gathering
  <2>1. TAKE i \in 1 .. g
  <2>2. i \in 1 .. (g + 1) + (n + 1) /\ i <= g + 1 BY <1>1, <1>2
  <2> QED BY <1>2, <1>3, <2>2
<1>5. y[g + 1].w \in Applying
  <2>1. g + 1 \in 1 .. (g + 1) + (n + 1) /\ g + 1 <= g + 1 BY <1>1, <1>2
  <2> QED BY <1>2, <1>3, <2>1
<1>6. \A i \in g + 2 .. Len(y) : y[i].w \in FlagNames
  <2>1. TAKE i \in g + 2 .. Len(y)
  <2> DEFINE k == i - (g + 1)
  <2>2. k \in 1 .. n + 1 /\ i \in 1 .. (g + 1) + (n + 1) /\ ~(i <= g + 1) BY <1>1, <1>2, <1>3
  <2>3. y[i] = fw[k] BY <1>3, <2>2
  <2> HIDE DEF k
  <2> QED BY <1>1, <2>2, <2>3
<1>7. g < Len(y) /\ Len(y) = g + 2 + n BY <1>1, <1>2, <1>3
<1>8. OpShape(y, g) BY <1>2, <1>3, <1>4, <1>5, <1>6, <1>7 DEF OpShape
<1> QED BY <1>7, <1>8 DEF fw, n, y

\* Every repeated string instruction has that shape, for whatever flags it computes:
\* the words compile_movs, compile_outs, compile_stos and compile_ins count as a
\* constant, and those compile_cmps and compile_scas add up flag by flag.
THEOREM DistancesAreRight == \A s \in StringInsns : s.prefix # "none" => Shape(s)
<1>1. SUFFICES ASSUME NEW s \in StringInsns, s.prefix # "none" PROVE Shape(s)
  OBVIOUS
<1>2. ASSUME NEW op, NEW g, Bare(op, g), NEW skip, skip = g + 2, NEW back, back = g + 1,
             s = [prefix |-> "rep", words |-> Repeated("rep", skip, back, op) \o update_eip]
      PROVE  Shape(s)
  <2>1. OpShape(op, g) /\ Len(op) = back /\ Len(op) + 1 = skip
    BY <1>2 DEF Bare, OpShape
  <2>2. s = [prefix |-> "rep",
             words |-> ((<<Word("inc", Len(op) + 1)>> \o op) \o <<Word("dec", Len(op))>>) \o update_eip]
    BY <1>2, <2>1 DEF Repeated
  <2> QED BY <2>1, <2>2, ShapeOf
<1>3. ASSUME s \in Plainly("rep") PROVE Shape(s)
  <2>1. \A w \in {"movs", "outs", "stos", "ins"} : w \in Applying
    BY DEF Applying, Comparisons, PortReads, Loads, Writes, PortWrites
  <2>2. s.prefix = "rep" /\ s = [prefix |-> "rep", words |-> s.words]
        /\ s.words \in {compile_movs("rep"), compile_outs("rep"), compile_stos("rep"), compile_ins("rep")}
    BY <1>3 DEF Plainly
  <2>3. CASE s.words = compile_movs("rep")
    <3>1. Bare(compile_read_si \o <<Op("movs")>>, 2) BY <2>1, BareOperations
    <3>2. s = [prefix |-> "rep",
               words |-> Repeated("rep", 4, 3, compile_read_si \o <<Op("movs")>>) \o update_eip]
      BY <2>2, <2>3 DEF compile_movs
    <3>3. 4 = 2 + 2 /\ 3 = 2 + 1 OBVIOUS
    <3> QED BY <1>2, <3>1, <3>2, <3>3
  <2>4. CASE s.words = compile_outs("rep")
    <3>1. Bare(compile_read_si \o <<Op("outs")>>, 2) BY <2>1, BareOperations
    <3>2. s = [prefix |-> "rep",
               words |-> Repeated("rep", 4, 3, compile_read_si \o <<Op("outs")>>) \o update_eip]
      BY <2>2, <2>4 DEF compile_outs
    <3>3. 4 = 2 + 2 /\ 3 = 2 + 1 OBVIOUS
    <3> QED BY <1>2, <3>1, <3>2, <3>3
  <2>5. CASE s.words = compile_stos("rep")
    <3>1. Bare(<<Op("stos")>>, 0) BY <2>1, BareOperations
    <3>2. s = [prefix |-> "rep",
               words |-> Repeated("rep", 2, 1, <<Op("stos")>>) \o update_eip]
      BY <2>2, <2>5 DEF compile_stos
    <3>3. 2 = 0 + 2 /\ 1 = 0 + 1 OBVIOUS
    <3> QED BY <1>2, <3>1, <3>2, <3>3
  <2>6. CASE s.words = compile_ins("rep")
    <3>1. Bare(<<Op("ins")>>, 0) BY <2>1, BareOperations
    <3>2. s = [prefix |-> "rep",
               words |-> Repeated("rep", 2, 1, <<Op("ins")>>) \o update_eip]
      BY <2>2, <2>6 DEF compile_ins
    <3>3. 2 = 0 + 2 /\ 1 = 0 + 1 OBVIOUS
    <3> QED BY <1>2, <3>1, <3>2, <3>3
  <2> QED BY <2>2, <2>3, <2>4, <2>5, <2>6
<1>4. ASSUME NEW p \in {"repe", "repne"}, NEW fs \in SUBSET OptionalFlags, NEW op, NEW g,
             Bare(op, g), NEW n, n = g + 2 + Cardinality(fs),
             s = [prefix |-> p, words |-> Compared(p, n, op \o FlagWords(fs)) \o update_eip]
      PROVE  Shape(s)
  <2> DEFINE all == op \o FlagWords(fs)
  <2>1. OpShape(all, g) /\ Len(all) = n
    BY <1>4, FlagsAfterBare
  <2> HIDE DEF all
  <2>2. s = [prefix |-> p,
             words |-> ((<<Op("incimm"), Word("imm", Len(all) + 2)>> \o all)
                         \o <<Op(p), Word("imm", Len(all))>>) \o update_eip]
    BY <1>4, <2>1 DEF Compared, all
  <2> QED BY <2>1, <2>2, ShapeOf
<1>5. ASSUME NEW p \in {"repe", "repne"}, NEW fs \in SUBSET OptionalFlags, s \in Comparing(p, fs)
      PROVE  Shape(s)
  <2>1. "cmps" \in Applying /\ "scas" \in Applying
    BY DEF Applying, Comparisons
  <2>2. s = [prefix |-> p, words |-> s.words]
        /\ s.words \in {compile_cmps(p, fs), compile_scas(p, fs)}
    BY <1>5 DEF Comparing
  <2>3. cmps_words(fs) = 2 + 2 + Cardinality(fs) /\ scas_words(fs) = 0 + 2 + Cardinality(fs)
    BY FlagWordsCounted DEF cmps_words, scas_words
  <2>4. CASE s.words = compile_cmps(p, fs)
    BY <1>4, <2>1, <2>2, <2>3, <2>4, BareOperations DEF compile_cmps
  <2>5. CASE s.words = compile_scas(p, fs)
    BY <1>4, <2>1, <2>2, <2>3, <2>5, BareOperations DEF compile_scas
  <2> QED BY <2>2, <2>4, <2>5
<1>6. \/ s \in Plainly("rep")
      \/ \E p \in {"repe", "repne"}, fs \in SUBSET OptionalFlags : s \in Comparing(p, fs)
  BY <1>1 DEF StringInsns, Plainly, Comparing
<1> QED BY <1>3, <1>5, <1>6

-----------------------------------------------------------------------------
(***************************************************************************)
(* Where a repeated instruction stands between two steps, with a head of h *)
(* words, g words that gather operands and m words in its operation.       *)
(***************************************************************************)
InOperation == phase = "run" /\ Inst = "string"

\* The count is over, or the comparison has stopped it.
Over == \/ ecx = 0
        \/ prog.string.prefix = "repe" /\ ~zf
        \/ prog.string.prefix = "repne" /\ zf

Stands(h, g, m) ==
  /\ pos = 1 \/ pos \in h + 1 .. h + m + 1 \/ pos = h + m + h + 1
  /\ pos = 1 => gathered = 0
  /\ pos \in h + 1 .. h + g + 1 => gathered = pos - (h + 1)
  /\ pos \in h + 1 .. h + m + 1 => ecx # 0
  /\ pos = h + m + h + 1 => Over

Applied(h, g, m) == InOperation /\ pos \in h + g + 2 .. h + m + 1

\* Between two calls the position is the first word of the instruction at EIP, or the
\* first word of the operation while the count lasts: what was gathered before is
\* never needed.  The count and the iterations done agree but between the word
\* that applies the operation and the one that counts it.
Repeating(h, g, m) ==
  /\ ecx \in 0 .. CountMax /\ performed \in Nat /\ wanted \in Nat
  /\ halted => pos = 1
  /\ phase = "idle" => pos = 1 \/ (pos = h + 1 /\ ecx # 0 /\ Inst = "string")
  /\ phase = "run" /\ Inst # "string" => pos = 1
  /\ InOperation => Stands(h, g, m)
  /\ performed + ecx = wanted + (IF Applied(h, g, m) THEN 1 ELSE 0)

RepInv ==
  prog.string.prefix # "none" =>
    Repeating(Head1(prog.string), Gathers(prog.string), Size(prog.string))

\* The same for instructions of given distances, which a step leaves alone.
RepeatingInsn(h, g, m) ==
  /\ h \in {1, 2} /\ g \in Nat /\ m \in Nat /\ g < m
  /\ Laid(prog.string, h, g, m)
  /\ prog.string.prefix \in {"rep", "repe", "repne"}
  /\ Repeating(h, g, m)

LEMMA WordsPlaced ==
  ASSUME NEW s, NEW h, NEW g, NEW m, Laid(s, h, g, m), s.prefix \in {"rep", "repe", "repne"},
         NEW p, p = 1 \/ p \in h + 1 .. h + m + 1 \/ p = h + m + h + 1
  PROVE  /\ s.words[p].w \in {"inc", "incimm"} => p = 1
         /\ s.words[p].w \in Gathering => p \in h + 1 .. h + g
         /\ s.words[p].w \in Applying => p = h + g + 1
         /\ s.words[p].w \in FlagNames => p \in h + g + 2 .. h + m
         /\ s.words[p].w \in {"dec", "repe", "repne"} => p = h + m + 1
         /\ s.words[p].w = "eip" => p = h + m + h + 1
<1> DEFINE W == s.words[p].w
<1>1. /\ h \in {1, 2} /\ h \in Nat /\ h >= 1 /\ g \in Nat /\ m \in Nat /\ g < m
      /\ Reads(s.words) = h + 1 .. h + g
      /\ s.words[h + g + 1].w \in Applying
      /\ \A i \in h + g + 2 .. h + m : s.words[i].w \in FlagNames
      /\ s.words[h + m + h + 1].w = "eip"
  <2>1. Op("eip").w = "eip" BY DEF Op, Word
  <2>2. h \in {1, 2} /\ s.words[h + m + h + 1] = Op("eip") BY DEF Laid
  <2>3. h \in Nat /\ h >= 1 BY <2>2
  <2> QED BY <2>1, <2>2, <2>3 DEF Laid
<1>2. s.words[1].w \in {"inc", "incimm"} /\ s.words[h + m + 1].w \in {"dec", "repe", "repne"}
  <2>1. CASE s.prefix = "rep" BY <1>1, <2>1 DEF Laid, Word
  <2>2. CASE s.prefix # "rep"
    <3>1. h = 2 /\ h + m + 1 = m + 3 /\ s.words[m + 3].w = s.prefix /\ s.words[1].w = "incimm"
      BY <1>1, <2>2 DEF Laid
    <3> QED BY <2>2, <3>1
  <2> QED BY <2>1, <2>2
<1>3. \/ p = 1 /\ W \in {"inc", "incimm"}
      \/ p \in h + 1 .. h + g /\ W \in Gathering
      \/ p = h + g + 1 /\ W \in Applying
      \/ p \in h + g + 2 .. h + m /\ W \in FlagNames
      \/ p = h + m + 1 /\ W \in {"dec", "repe", "repne"}
      \/ p = h + m + h + 1 /\ W = "eip"
  <2>1. \/ p = 1 \/ p \in h + 1 .. h + g \/ p = h + g + 1 \/ p \in h + g + 2 .. h + m
        \/ p = h + m + 1 \/ p = h + m + h + 1
    BY <1>1
  <2>2. p \in h + 1 .. h + g => W \in Gathering BY <1>1 DEF Reads
  <2> QED BY <1>1, <1>2, <2>1, <2>2
<1> HIDE DEF W
<1>4. /\ W \in {"inc", "incimm"} => W \notin Gathering /\ W \notin Applying /\ W \notin FlagNames
                                    /\ W \notin {"dec", "repe", "repne"} /\ W # "eip"
      /\ W \in Gathering => W \notin Applying /\ W \notin FlagNames
                            /\ W \notin {"dec", "repe", "repne"} /\ W # "eip"
      /\ W \in Applying => W \notin FlagNames /\ W \notin {"dec", "repe", "repne"} /\ W # "eip"
      /\ W \in FlagNames => W \notin {"dec", "repe", "repne"} /\ W # "eip"
      /\ W \in {"dec", "repe", "repne"} => W # "eip"
  BY DEF Gathering, Applying, Comparisons, PortReads, Loads, Writes, PortWrites, FlagNames,
         OptionalFlags
<1> QED BY <1>3, <1>4 DEF W

\* A step that ends the call, raises an exception or begins the instruction anew.
LEMMA OutsideRepeating ==
  ASSUME NEW h, NEW g, NEW m, RepeatingInsn(h, g, m), ~Applied(h, g, m),
         UNCHANGED <<prog, ecx, performed, wanted>>, halted' => pos' = 1,
         phase' \notin {"idle", "run"} \/ (pos' = 1 /\ (phase' = "run" => gathered' = 0))
  PROVE  RepeatingInsn(h, g, m)'
<1>1. h \in Nat /\ h >= 1 /\ g \in Nat /\ m \in Nat BY DEF RepeatingInsn
<1>2. ~Applied(h, g, m)' BY <1>1 DEF Applied, InOperation
<1>3. InOperation' => Stands(h, g, m)' BY <1>1 DEF InOperation, Stands
<1>4. ~Applied(h, g, m) /\ performed + ecx = wanted + 0 BY DEF RepeatingInsn, Repeating
<1>5. performed' + ecx' = wanted' + (IF Applied(h, g, m)' THEN 1 ELSE 0)
  BY <1>2, <1>4
<1>6. Repeating(h, g, m)'
  BY <1>3, <1>5 DEF RepeatingInsn, Repeating
<1> QED BY <1>6 DEF RepeatingInsn

\* A word of the instruction that is not at its beginning, or is.
LEMMA AtWord ==
  ASSUME NEW h, NEW g, NEW m, RepeatingInsn(h, g, m), phase = "run", Inst = "string"
  PROVE  /\ h \in Nat /\ h >= 1 /\ g \in Nat /\ m \in Nat /\ g < m /\ pos \in Nat
         /\ Stands(h, g, m)
         /\ ecx \in 0 .. CountMax /\ performed \in Nat /\ wanted \in Nat
         /\ performed + ecx = wanted + (IF pos \in h + g + 2 .. h + m + 1 THEN 1 ELSE 0)
         /\ OnWord({"inc", "incimm"}) => pos = 1
         /\ OnWord(Gathering) => pos \in h + 1 .. h + g
         /\ OnWord(Applying) => pos = h + g + 1
         /\ OnWord(FlagNames) => pos \in h + g + 2 .. h + m
         /\ OnWord({"dec", "repe", "repne"}) => pos = h + m + 1
         /\ OnWord({"eip"}) => pos = h + m + h + 1
<1>1. /\ h \in {1, 2} /\ g \in Nat /\ m \in Nat /\ g < m /\ Repeating(h, g, m)
  BY DEF RepeatingInsn
<1>2. h \in Nat /\ h >= 1 BY <1>1
<1>3. InOperation /\ Stands(h, g, m) BY <1>1 DEF InOperation, Repeating
<1>4. pos = 1 \/ pos \in h + 1 .. h + m + 1 \/ pos = h + m + h + 1 BY <1>3 DEF Stands
<1>5. pos \in Nat BY <1>1, <1>2, <1>4
<1>6. Laid(prog.string, h, g, m) /\ prog.string.prefix \in {"rep", "repe", "repne"}
  BY DEF RepeatingInsn
<1>7. Applied(h, g, m) <=> pos \in h + g + 2 .. h + m + 1 BY <1>3 DEF Applied
<1>8. /\ ecx \in 0 .. CountMax /\ performed \in Nat /\ wanted \in Nat
      /\ performed + ecx = wanted + (IF pos \in h + g + 2 .. h + m + 1 THEN 1 ELSE 0)
  BY <1>1, <1>7 DEF Repeating
<1> DEFINE W == prog.string.words[pos].w
<1>9. /\ W \in {"inc", "incimm"} => pos = 1
      /\ W \in Gathering => pos \in h + 1 .. h + g
      /\ W \in Applying => pos = h + g + 1
      /\ W \in FlagNames => pos \in h + g + 2 .. h + m
      /\ W \in {"dec", "repe", "repne"} => pos = h + m + 1
      /\ W = "eip" => pos = h + m + h + 1
  BY <1>4, <1>6, WordsPlaced
<1>10. \A ws : OnWord(ws) => W \in ws BY DEF OnWord
<1> HIDE DEF W
<1> QED BY <1>1, <1>2, <1>3, <1>5, <1>8, <1>9, <1>10

\* A step to another word of the same instruction.
LEMMA InsideRepeating ==
  ASSUME NEW h, NEW g, NEW m, RepeatingInsn(h, g, m), ~halted, Inst = "string",
         phase' = "run", UNCHANGED <<prog, eip, halted, wanted>>,
         ecx' \in 0 .. CountMax, performed' \in Nat, Stands(h, g, m)',
         performed' + ecx' = wanted' + (IF pos' \in h + g + 2 .. h + m + 1 THEN 1 ELSE 0)
  PROVE  RepeatingInsn(h, g, m)'
<1>1. Inst' = Inst BY DEF Inst, Code
<1>2. InOperation' BY <1>1 DEF InOperation
<1>3. Applied(h, g, m)' <=> pos' \in h + g + 2 .. h + m + 1 BY <1>2 DEF Applied
<1>4. wanted' \in Nat BY DEF RepeatingInsn, Repeating
<1>5. performed' + ecx' = wanted' + (IF Applied(h, g, m)' THEN 1 ELSE 0) BY <1>3
<1>6. Repeating(h, g, m)' BY <1>1, <1>4, <1>5 DEF Repeating
<1> QED BY <1>6 DEF RepeatingInsn

LEMMA RepTestKeeps ==
  ASSUME NEW h, NEW g, NEW m, RepeatingInsn(h, g, m), ~halted, RepTest
  PROVE  RepeatingInsn(h, g, m)'
<1>1. /\ phase = "run" /\ Inst = "string" /\ OnWord({"inc", "incimm"})
      /\ phase' = "run" /\ UNCHANGED <<prog, eip, halted, wanted, ecx, zf, performed, gathered>>
  BY DEF RepTest, OnWord, Running, StayInCall, guest, counts
<1>2. /\ h \in Nat /\ h >= 1 /\ g \in Nat /\ m \in Nat /\ g < m /\ pos = 1
      /\ gathered = 0 /\ ecx \in 0 .. CountMax /\ performed \in Nat /\ wanted \in Nat
      /\ performed + ecx = wanted + (IF pos \in h + g + 2 .. h + m + 1 THEN 1 ELSE 0)
  BY <1>1, AtWord DEF Stands
<1>3. performed + ecx = wanted + 0
  <2>1. pos \notin h + g + 2 .. h + m + 1 BY <1>2
  <2> QED BY <1>2, <2>1
<1>4. pos' = IF ecx = 0 THEN h + m + h + 1 ELSE h + 1
  <2>1. Laid(prog.string, h, g, m) BY DEF RepeatingInsn
  <2>2. CASE prog.string.prefix = "rep"
    <3>1. h = 1 /\ prog.string.words[1].w = "inc" /\ prog.string.words[1].n = m + 1
      BY <2>1, <2>2 DEF Laid, Word
    <3>2. pos' = pos + Skipped(Distance) + 1 /\ Distance = m + 1
      BY <1>2, <3>1 DEF RepTest, OnWord, Distance
    <3> QED BY <1>2, <3>1, <3>2 DEF Skipped
  <2>3. CASE prog.string.prefix # "rep"
    <3>1. h = 2 /\ prog.string.words[1].w = "incimm" /\ prog.string.words[2].n = m + 2
      BY <2>1, <2>3 DEF Laid, Word
    <3>2. pos + 1 = 2 BY <1>2
    <3>3. pos' = pos + 1 + Skipped(Immediate) + 1 /\ Immediate = m + 2
      BY <1>2, <3>1, <3>2 DEF RepTest, OnWord, Immediate
    <3> QED BY <1>2, <3>1, <3>3 DEF Skipped
  <2> QED BY <2>2, <2>3
<1>5. Stands(h, g, m)' /\ pos' \notin h + g + 2 .. h + m + 1
  <2>1. CASE ecx = 0
    <3>1. Over' BY <1>1, <2>1 DEF Over
    <3> QED BY <1>1, <1>2, <1>4, <2>1, <3>1 DEF Stands
  <2>2. CASE ecx # 0
    <3>1. pos' = h + 1 /\ gathered' = 0 /\ ecx' # 0 BY <1>1, <1>2, <1>4, <2>2
    <3> QED BY <1>2, <3>1 DEF Stands
  <2> QED BY <2>1, <2>2
<1>6. performed' + ecx' = wanted' + (IF pos' \in h + g + 2 .. h + m + 1 THEN 1 ELSE 0)
  BY <1>1, <1>3, <1>5
<1> QED BY <1>1, <1>2, <1>5, <1>6, InsideRepeating

LEMMA GatherKeeps ==
  ASSUME NEW h, NEW g, NEW m, RepeatingInsn(h, g, m), ~halted, Gather
  PROVE  RepeatingInsn(h, g, m)'
<1>1. /\ phase = "run" /\ Inst = "string" /\ OnWord(Gathering)
      /\ pos' = pos + 1 /\ gathered' = gathered + 1
      /\ phase' = "run" /\ UNCHANGED <<prog, eip, halted, wanted, ecx, performed>>
  BY DEF Gather, Gathering, OnWord, Running, StayInCall, guest, counts
<1>2. /\ h \in Nat /\ h >= 1 /\ g \in Nat /\ m \in Nat /\ g < m
      /\ pos \in h + 1 .. h + g /\ Stands(h, g, m)
      /\ ecx \in 0 .. CountMax /\ performed \in Nat /\ wanted \in Nat
      /\ performed + ecx = wanted + (IF pos \in h + g + 2 .. h + m + 1 THEN 1 ELSE 0)
  BY <1>1, AtWord
<1>3. pos \notin h + g + 2 .. h + m + 1 /\ pos' \notin h + g + 2 .. h + m + 1
  BY <1>1, <1>2
<1>4. Stands(h, g, m)'
  <2>1. gathered = pos - (h + 1) /\ ecx # 0 BY <1>2 DEF Stands
  <2>2. gathered' = pos' - (h + 1) /\ pos' \in h + 2 .. h + g + 1 /\ ecx' # 0
    BY <1>1, <1>2, <2>1
  <2>3. pos' # 1 /\ pos' \in h + 1 .. h + m + 1 /\ pos' # h + m + h + 1
    BY <1>2, <2>2
  <2> QED BY <2>2, <2>3 DEF Stands
<1>5. performed' + ecx' = wanted' + (IF pos' \in h + g + 2 .. h + m + 1 THEN 1 ELSE 0)
  BY <1>1, <1>2, <1>3
<1> QED BY <1>1, <1>2, <1>4, <1>5, InsideRepeating

\* The words gathered were gathered in this call, so the operation is whole.
LEMMA ApplyKeeps ==
  ASSUME NEW h, NEW g, NEW m, RepeatingInsn(h, g, m), ~halted, Apply
  PROVE  RepeatingInsn(h, g, m)'
<1>1. /\ phase = "run" /\ Inst = "string" /\ OnWord(Applying) /\ pos' = pos + 1
      /\ performed' = IF Whole /\ prog.string.prefix # "none" THEN performed + 1 ELSE performed
      /\ phase' = "run" /\ UNCHANGED <<prog, eip, halted, wanted, ecx>>
  BY DEF Apply, OnWord, Running, StayInCall, guest, counts
<1>2. /\ h \in Nat /\ h >= 1 /\ g \in Nat /\ m \in Nat /\ g < m
      /\ pos = h + g + 1 /\ Stands(h, g, m)
      /\ ecx \in 0 .. CountMax /\ performed \in Nat /\ wanted \in Nat
      /\ performed + ecx = wanted + (IF pos \in h + g + 2 .. h + m + 1 THEN 1 ELSE 0)
  BY <1>1, AtWord
<1>3. pos \notin h + g + 2 .. h + m + 1 /\ pos' \in h + g + 2 .. h + m + 1
  BY <1>1, <1>2
<1>4. gathered = g /\ ecx # 0
  BY <1>2 DEF Stands
<1>5. Cardinality(Reads(prog.string.words)) = g
  <2>1. Reads(prog.string.words) = h + 1 .. h + g BY DEF RepeatingInsn, Laid
  <2>2. h + 1 \in Int /\ h + g \in Int BY <1>2
  <2>3. Cardinality(h + 1 .. h + g) = IF h + 1 > h + g THEN 0 ELSE (h + g) - (h + 1) + 1
    BY <2>2, FS_Interval
  <2> QED BY <1>2, <2>1, <2>3
<1>6. Whole /\ prog.string.prefix # "none"
  <2>1. Whole BY <1>4, <1>5 DEF Whole, Reads, Gathering
  <2> QED BY <2>1 DEF RepeatingInsn
<1>7. performed' = performed + 1 BY <1>1, <1>6
<1>8. Stands(h, g, m)' BY <1>1, <1>2, <1>3, <1>4 DEF Stands
<1>9. performed' + ecx' = wanted' + (IF pos' \in h + g + 2 .. h + m + 1 THEN 1 ELSE 0)
  BY <1>1, <1>2, <1>3, <1>7
<1>10. performed' \in Nat /\ ecx' \in 0 .. CountMax BY <1>1, <1>2, <1>7
<1> QED BY <1>1, <1>8, <1>9, <1>10, InsideRepeating

LEMMA SetFlagKeeps ==
  ASSUME NEW h, NEW g, NEW m, RepeatingInsn(h, g, m), ~halted, SetFlag
  PROVE  RepeatingInsn(h, g, m)'
<1>1. /\ phase = "run" /\ Inst = "string" /\ OnWord(FlagNames) /\ pos' = pos + 1
      /\ phase' = "run" /\ UNCHANGED <<prog, eip, halted, wanted, ecx, performed>>
  BY DEF SetFlag, FlagNames, OnWord, Running, StayInCall, guest
<1>2. /\ h \in Nat /\ h >= 1 /\ g \in Nat /\ m \in Nat /\ g < m
      /\ pos \in h + g + 2 .. h + m /\ Stands(h, g, m)
      /\ ecx \in 0 .. CountMax /\ performed \in Nat /\ wanted \in Nat
      /\ performed + ecx = wanted + (IF pos \in h + g + 2 .. h + m + 1 THEN 1 ELSE 0)
  BY <1>1, AtWord
<1>3. pos \in h + g + 2 .. h + m + 1 /\ pos' \in h + g + 2 .. h + m + 1
  BY <1>1, <1>2
<1>4. ecx # 0 BY <1>2 DEF Stands
<1>5. Stands(h, g, m)' BY <1>1, <1>2, <1>3, <1>4 DEF Stands
<1>6. performed' + ecx' = wanted' + (IF pos' \in h + g + 2 .. h + m + 1 THEN 1 ELSE 0)
  BY <1>1, <1>2, <1>3
<1> QED BY <1>1, <1>2, <1>5, <1>6, InsideRepeating

LEMMA DecrementedIsOneLess ==
  ASSUME ecx \in 0 .. CountMax, ecx # 0
  PROVE  Decremented = ecx - 1
<1>1. CountMax \in Nat /\ CountMax + 1 > 0 /\ ecx - 1 \in 0 .. CountMax /\ ecx \in Nat
  BY EventsAssumption
<1> DEFINE k == ecx - 1
           n == CountMax + 1
<1>2. k \in Nat /\ n \in Nat /\ n > 0 /\ k < n /\ ecx + CountMax = k + n BY <1>1
<1> HIDE DEF k, n
<1>3. (k + n) % n = k BY <1>2
<1> QED BY <1>2, <1>3 DEF Decremented, k, n

LEMMA RepNextKeeps ==
  ASSUME NEW h, NEW g, NEW m, RepeatingInsn(h, g, m), ~halted, RepNext
  PROVE  RepeatingInsn(h, g, m)'
<1>1. phase = "run" /\ Inst = "string" /\ OnWord({"dec", "repe", "repne"}) /\ ecx' = Decremented
  BY DEF RepNext, OnWord, Running
<1>2. /\ h \in Nat /\ h >= 1 /\ g \in Nat /\ m \in Nat /\ g < m
      /\ pos = h + m + 1 /\ Stands(h, g, m)
      /\ ecx \in 0 .. CountMax /\ performed \in Nat /\ wanted \in Nat
      /\ performed + ecx = wanted + (IF pos \in h + g + 2 .. h + m + 1 THEN 1 ELSE 0)
  BY <1>1, AtWord
<1>3. ecx # 0 BY <1>2 DEF Stands
<1>4. ecx' = ecx - 1 BY <1>1, <1>2, <1>3, DecrementedIsOneLess
<1>5. ecx' \in 0 .. CountMax /\ performed + ecx' = wanted + 0
  <2>1. CountMax \in Nat BY EventsAssumption
  <2>2. pos \in h + g + 2 .. h + m + 1 BY <1>2
  <2> QED BY <1>2, <1>3, <1>4, <2>1, <2>2
<1>6. Laid(prog.string, h, g, m) /\ prog.string.prefix \in {"rep", "repe", "repne"}
  BY DEF RepeatingInsn
<1>7. /\ Back = h + 1 /\ Forward = h + m + h + 1
      /\ prog.string.prefix = "rep" => OnWord({"dec"})
      /\ prog.string.prefix # "rep" => OnWord({prog.string.prefix})
  <2>1. CASE prog.string.prefix = "rep"
    <3>1. h = 1 /\ prog.string.words[m + 2] = Word("dec", m) /\ pos = m + 2
      BY <1>2, <1>6, <2>1 DEF Laid
    <3>2. prog.string.words[pos].w = "dec" /\ prog.string.words[pos].n = m BY <3>1 DEF Word
    <3>3. OnWord({"dec"}) /\ Distance = m BY <1>1, <3>2 DEF OnWord, Distance
    <3>4. Back = pos - m /\ Forward = pos + 1 BY <3>3 DEF Back, Forward
    <3> QED BY <1>2, <2>1, <3>1, <3>3, <3>4
  <2>2. CASE prog.string.prefix # "rep"
    <3>1. /\ h = 2 /\ prog.string.words[m + 3].w = prog.string.prefix
          /\ prog.string.words[m + 4] = Word("imm", m) /\ pos = m + 3 /\ pos + 1 = m + 4
      BY <1>2, <1>6, <2>2 DEF Laid
    <3>2. prog.string.words[pos].w = prog.string.prefix /\ Immediate = m
      BY <3>1 DEF Word, Immediate
    <3>3. OnWord({prog.string.prefix}) /\ ~OnWord({"dec"})
      BY <1>1, <1>6, <2>2, <3>2 DEF OnWord
    <3>4. Back = pos + 1 - 1 - m /\ Forward = pos + 2 BY <3>2, <3>3 DEF Back, Forward
    <3> QED BY <1>2, <2>2, <3>1, <3>3, <3>4
  <2> QED BY <2>1, <2>2
<1>8. CASE Continues
  <2>1. /\ pos' = h + 1 /\ phase' = "idle" /\ ecx' # 0
        /\ UNCHANGED <<prog, eip, halted, performed, wanted>>
    BY <1>1, <1>7, <1>8 DEF RepNext, Continues, guest, history
  <2>2. Inst' = "string" BY <1>1, <2>1 DEF Inst, Code
  <2>3. ~InOperation' /\ ~Applied(h, g, m)' BY <2>1 DEF InOperation, Applied
  <2>4. performed' + ecx' = wanted' + (IF Applied(h, g, m)' THEN 1 ELSE 0)
    BY <1>5, <2>1, <2>3
  <2>5. Repeating(h, g, m)'
    BY <1>2, <1>5, <2>1, <2>2, <2>3, <2>4 DEF Repeating
  <2> QED BY <2>1, <2>5 DEF RepeatingInsn
<1>9. CASE ~Continues
  <2>1. /\ pos' = h + m + h + 1 /\ phase' = "run"
        /\ UNCHANGED <<prog, eip, halted, performed, wanted, zf>>
    BY <1>7, <1>9 DEF RepNext, StayInCall, guest
  <2>2. Over'
    <3>1. CASE ecx' = 0 BY <3>1 DEF Over
    <3>2. CASE ecx' # 0
      <4>1. (OnWord({"repe"}) /\ ~zf) \/ (OnWord({"repne"}) /\ zf)
        BY <1>1, <1>9, <3>2 DEF Continues
      <4>2. OnWord({"repe"}) => prog.string.prefix = "repe"
        BY <1>6, <1>7 DEF OnWord
      <4>3. OnWord({"repne"}) => prog.string.prefix = "repne"
        BY <1>6, <1>7 DEF OnWord
      <4> QED BY <2>1, <4>1, <4>2, <4>3 DEF Over
    <3> QED BY <3>1, <3>2
  <2>3. pos' \notin h + 1 .. h + m + 1 /\ pos' # 1 BY <1>2, <2>1
  <2>4. Stands(h, g, m)' /\ pos' \notin h + g + 2 .. h + m + 1
    <3>1. pos' \notin h + 1 .. h + g + 1 /\ pos' \notin h + g + 2 .. h + m + 1
      BY <1>2, <2>3
    <3> QED BY <2>1, <2>2, <2>3, <3>1 DEF Stands
  <2>5. performed' + ecx' = wanted' + (IF pos' \in h + g + 2 .. h + m + 1 THEN 1 ELSE 0)
    BY <1>5, <2>1, <2>4
  <2> QED BY <1>1, <1>2, <1>5, <2>1, <2>4, <2>5, InsideRepeating
<1> QED BY <1>8, <1>9

\* Instructions of other kinds run from their first word.
LEMMA OthersRepeating ==
  ASSUME NEW h, NEW g, NEW m, RepeatingInsn(h, g, m), phase = "run", Inst # "string"
  PROVE  pos = 1 /\ ~Applied(h, g, m)
BY DEF RepeatingInsn, Repeating, Applied, InOperation

LEMMA ExecKeeps ==
  ASSUME NEW h, NEW g, NEW m, RepeatingInsn(h, g, m), ExecInst
  PROVE  RepeatingInsn(h, g, m)'
<1> USE DEF Running, guest, counts, position, history
<1>1. ASSUME StayHalted PROVE RepeatingInsn(h, g, m)'
  <2>1. pos = 1 /\ h >= 1 /\ h \in Nat /\ g \in Nat /\ m \in Nat
    BY <1>1 DEF StayHalted, RepeatingInsn, Repeating
  <2>2. ~Applied(h, g, m) BY <2>1 DEF Applied
  <2> QED BY <1>1, <2>1, <2>2, OutsideRepeating DEF StayHalted
<1>2. ASSUME ~halted, Plain \/ Sti \/ Cli \/ Popf \/ MoveToSS PROVE RepeatingInsn(h, g, m)'
  <2>1. /\ phase = "run" /\ Inst # "string" /\ phase' \in {"idle", "fetch"} /\ pos' = 1
        /\ UNCHANGED <<prog, ecx, performed, wanted>>
    BY <1>2 DEF Plain, Sti, Cli, Popf, MoveToSS, Retire
  <2> QED BY <2>1, OthersRepeating, OutsideRepeating
<1>3. ASSUME ~halted, MemoryFault \/ Undefined PROVE RepeatingInsn(h, g, m)'
  <2>1. /\ phase = "run" /\ Inst # "string" /\ phase' = "deliver" /\ ~halted'
        /\ UNCHANGED <<prog, ecx, performed, wanted>>
    BY <1>3 DEF MemoryFault, Undefined, Raise
  <2> QED BY <2>1, OthersRepeating, OutsideRepeating
<1>4. ASSUME ~halted, SetCount PROVE RepeatingInsn(h, g, m)'
  <2>1. /\ phase' \in {"idle", "fetch"} /\ pos' = 1 /\ UNCHANGED prog
        /\ performed' = 0 /\ ecx' \in 0 .. CountMax /\ wanted' = ecx'
    BY <1>4 DEF SetCount, Retire
  <2>2. ~InOperation' /\ ~Applied(h, g, m)' BY <2>1 DEF InOperation, Applied
  <2>3. CountMax \in Nat BY EventsAssumption
  <2>4. performed' + ecx' = wanted' + 0 /\ performed' \in Nat /\ wanted' \in Nat
    BY <2>1, <2>3
  <2>5. performed' + ecx' = wanted' + (IF Applied(h, g, m)' THEN 1 ELSE 0) BY <2>2, <2>4
  <2>6. Repeating(h, g, m)' BY <2>1, <2>2, <2>4, <2>5 DEF Repeating
  <2> QED BY <2>1, <2>6 DEF RepeatingInsn
<1>5. ASSUME ~halted, StringFault PROVE RepeatingInsn(h, g, m)'
  <2>1. /\ phase = "run" /\ Inst = "string" /\ (OnWord(Gathering) \/ OnWord(Applying))
        /\ phase' = "deliver" /\ ~halted' /\ UNCHANGED <<prog, ecx, performed, wanted>>
    BY <1>5 DEF StringFault, OnWord, Raise, Faulting, Gathering
  <2>2. /\ h \in Nat /\ h >= 1 /\ g \in Nat /\ m \in Nat
        /\ pos \in h + 1 .. h + g \/ pos = h + g + 1
    BY <2>1, AtWord
  <2>3. ~Applied(h, g, m) BY <2>2 DEF Applied
  <2> QED BY <2>1, <2>3, OutsideRepeating
<1>6. ASSUME ~halted, StringEnd PROVE RepeatingInsn(h, g, m)'
  <2>1. /\ phase = "run" /\ Inst = "string" /\ OnWord({"eip"})
        /\ phase' \in {"idle", "fetch"} /\ pos' = 1 /\ UNCHANGED <<prog, ecx, performed, wanted>>
    BY <1>6 DEF StringEnd, OnWord, Retire
  <2>2. h \in Nat /\ h >= 1 /\ g \in Nat /\ m \in Nat /\ pos = h + m + h + 1
    BY <2>1, AtWord
  <2>3. ~Applied(h, g, m) BY <2>2 DEF Applied
  <2> QED BY <2>1, <2>3, OutsideRepeating
<1>7. ASSUME ~halted, Halt PROVE RepeatingInsn(h, g, m)'
  <2>1. /\ phase = "run" /\ Inst # "string" /\ phase' = "idle" /\ pos' = pos
        /\ UNCHANGED <<prog, ecx, performed, wanted>>
    BY <1>7 DEF Halt
  <2> QED BY <2>1, OthersRepeating, OutsideRepeating
<1>8. ASSUME ~halted, Jump \/ CallNear \/ SoftwareInterrupt \/ Iret PROVE RepeatingInsn(h, g, m)'
  <2>1. phase = "run" /\ Inst # "string" /\ (Branch \/ Raise)
    BY <1>8 DEF Jump, CallNear, SoftwareInterrupt, Iret
  <2>2. /\ phase' \in {"fetch", "deliver"} /\ ~halted'
        /\ UNCHANGED <<prog, ecx, performed, wanted>>
    BY <1>8, <2>1 DEF Branch, Raise
  <2> QED BY <2>1, <2>2, OthersRepeating, OutsideRepeating
<1>9. ASSUME ~halted, RepTest \/ Gather \/ Apply \/ SetFlag \/ RepNext
      PROVE  RepeatingInsn(h, g, m)'
  BY <1>9, RepTestKeeps, GatherKeeps, ApplyKeeps, SetFlagKeeps, RepNextKeeps
<1> QED
  BY <1>1, <1>2, <1>3, <1>4, <1>5, <1>6, <1>7, <1>8, <1>9 DEF ExecInst

\* Between two calls, or where the position does not matter.
LEMMA SamePlaceRepeating ==
  ASSUME NEW h, NEW g, NEW m, RepeatingInsn(h, g, m), phase = "idle",
         phase' \in {"idle", "run"}, phase' = "run" => gathered' = 0,
         UNCHANGED <<prog, eip, pos, halted, ecx, performed, wanted>>
  PROVE  RepeatingInsn(h, g, m)'
<1>1. h \in Nat /\ h >= 1 /\ g \in Nat /\ m \in Nat /\ g < m BY DEF RepeatingInsn
<1>2. Inst' = Inst BY DEF Inst, Code
<1>3. /\ ecx \in 0 .. CountMax /\ performed \in Nat /\ wanted \in Nat
      /\ halted => pos = 1
      /\ pos = 1 \/ (pos = h + 1 /\ ecx # 0 /\ Inst = "string")
  BY DEF RepeatingInsn, Repeating
<1>4. ~Applied(h, g, m)
  BY DEF Applied, InOperation
<1>5. performed + ecx = wanted + 0
  BY <1>4 DEF RepeatingInsn, Repeating
<1>6. pos \notin h + g + 2 .. h + m + 1 BY <1>1, <1>3
<1>7. ~Applied(h, g, m)' BY <1>6 DEF Applied
<1>8. performed' + ecx' = wanted' + (IF Applied(h, g, m)' THEN 1 ELSE 0) BY <1>5, <1>7
<1>9. ASSUME InOperation' PROVE Stands(h, g, m)'
  <2>1. gathered' = 0 BY <1>9 DEF InOperation
  <2>2. pos' = 1 \/ (pos' = h + 1 /\ ecx' # 0) BY <1>3
  <2>3. 1 \notin h + 1 .. h + m + 1 /\ 1 \notin h + 1 .. h + g + 1 /\ h + m + h + 1 # 1
        /\ h + 1 \in h + 1 .. h + m + 1 /\ h + 1 # 1 /\ h + 1 # h + m + h + 1
        /\ (h + 1) - (h + 1) = 0
    BY <1>1
  <2> QED BY <2>1, <2>2, <2>3 DEF Stands
<1>10. Inst' # "string" => pos' = 1
  BY <1>2, <1>3
<1>11. Repeating(h, g, m)'
  BY <1>2, <1>3, <1>8, <1>9, <1>10 DEF Repeating
<1> QED BY <1>11 DEF RepeatingInsn

LEMMA NextKeepsRepeating ==
  ASSUME IInv, [Next]_vars, NEW h, NEW g, NEW m, RepeatingInsn(h, g, m)
  PROVE  RepeatingInsn(h, g, m)'
<1> USE DEF guest, counts, position, history
<1>1. ASSUME UNCHANGED vars PROVE RepeatingInsn(h, g, m)'
  BY <1>1 DEF vars, RepeatingInsn, Repeating, Stands, Applied, InOperation, Over, Inst, Code
<1>2. ASSUME SetIntr PROVE RepeatingInsn(h, g, m)'
  BY <1>2, SamePlaceRepeating DEF SetIntr
<1>3. ASSUME Forget PROVE RepeatingInsn(h, g, m)'
  <2>1. ~Applied(h, g, m) BY <1>3 DEF Forget, Applied, InOperation
  <2> QED BY <1>3, <2>1, OutsideRepeating DEF Forget
<1>4. ASSUME ExecNextInst PROVE RepeatingInsn(h, g, m)'
  <2>1. phase = "idle" /\ ~Applied(h, g, m)
    BY <1>4 DEF ExecNextInst, Applied, InOperation
  <2>2. UNCHANGED <<prog, eip, pos, halted, ecx, performed, wanted>> /\ gathered' = 0
    BY <1>4 DEF ExecNextInst
  <2>3. phase' = "run" \/ phase' = "fetch" BY <1>4 DEF ExecNextInst
  <2>4. CASE phase' = "run" BY <2>1, <2>2, <2>4, SamePlaceRepeating
  <2>5. CASE phase' = "fetch"
    <3>1. halted' => pos' = 1 BY <2>2 DEF RepeatingInsn, Repeating
    <3> QED BY <2>1, <2>2, <2>5, <3>1, OutsideRepeating
  <2> QED BY <2>3, <2>4, <2>5
<1>5. ASSUME Acknowledge PROVE RepeatingInsn(h, g, m)'
  <2>1. phase = "idle" /\ ~Applied(h, g, m)
    BY <1>5 DEF Acknowledge, Applied, InOperation
  <2>2. UNCHANGED <<prog, ecx, performed, wanted>> BY <1>5 DEF Acknowledge
  <2>3. CASE phase' = "fetch" /\ pos' = 1 BY <2>1, <2>2, <2>3, OutsideRepeating
  <2>4. CASE Refused("irq") /\ UNCHANGED <<phase, pos, halted>>
    <3>1. eip' = eip BY <2>4 DEF Refused
    <3> QED BY <2>1, <2>2, <2>4, <3>1, SamePlaceRepeating
  <2> QED BY <1>5, <2>3, <2>4 DEF Acknowledge
<1>6. ASSUME Cached \/ Decode PROVE RepeatingInsn(h, g, m)'
  <2>1. /\ phase = "fetch" /\ pos' = 1 /\ gathered' = 0
        /\ UNCHANGED <<prog, ecx, performed, wanted>>
    BY <1>6 DEF Cached, Decode, GotoEip
  <2>2. ~Applied(h, g, m) BY <2>1 DEF Applied, InOperation
  <2> QED BY <2>1, <2>2, OutsideRepeating
<1>7. ASSUME FetchFault \/ AssertionFails PROVE RepeatingInsn(h, g, m)'
  <2>1. /\ phase = "fetch" /\ phase' \in {"deliver", "asserted"}
        /\ UNCHANGED <<prog, ecx, performed, wanted>>
    BY <1>7 DEF FetchFault, AssertionFails
  <2>2. halted' => pos' = 1
    BY <1>7 DEF FetchFault, AssertionFails, RepeatingInsn, Repeating
  <2>3. ~Applied(h, g, m) BY <2>1 DEF Applied, InOperation
  <2> QED BY <2>1, <2>2, <2>3, OutsideRepeating
<1>8. ASSUME Deliver \/ DeliverAgain PROVE RepeatingInsn(h, g, m)'
  <2>1. /\ phase = "deliver" /\ phase' \in {"fetch", "deliver", "exited"}
        /\ UNCHANGED <<prog, ecx, performed, wanted, pos, halted>>
    BY <1>8 DEF Deliver, DeliverAgain
  <2>2. halted' => pos' = 1 BY <2>1 DEF RepeatingInsn, Repeating
  <2>3. ~Applied(h, g, m) BY <2>1 DEF Applied, InOperation
  <2> QED BY <2>1, <2>2, <2>3, OutsideRepeating
<1> QED
  BY <1>1, <1>2, <1>3, <1>4, <1>5, <1>6, <1>7, <1>8, ExecKeeps DEF Next, Jit

\* What the words that jump and the words that count hold makes the count of a
\* repeated instruction exact: an inductive invariant with the distances of
\* DistancesAreRight.
THEOREM RepeatingInvariant == Spec => []RepInv
<1>1. \A s \in StringInsns :
        s.prefix # "none" => Shape(s) /\ s.prefix \in {"rep", "repe", "repne"}
  BY DistancesAreRight DEF StringInsns, Plainly, Comparing
<1>2. Typed => prog.string \in StringInsns
  BY EventsAssumption DEF Typed
<1>3. Init => RepInv
  <2>1. SUFFICES ASSUME Init, prog.string.prefix # "none"
                 PROVE  Repeating(Head1(prog.string), Gathers(prog.string), Size(prog.string))
    BY DEF RepInv
  <2>2. \A h, g, m : Repeating(h, g, m)
    BY <2>1, EventsAssumption DEF Init, Repeating, InOperation, Applied
  <2> QED BY <2>2
<1>4. IInv /\ RepInv /\ [Next]_vars => RepInv'
  <2>1. SUFFICES ASSUME IInv, RepInv, [Next]_vars, prog'.string.prefix # "none"
                 PROVE  Repeating(Head1(prog.string), Gathers(prog.string), Size(prog.string))'
    BY DEF RepInv
  <2>2. prog' = prog
    <3>1. ExecInst => prog' = prog BY ExecStep
    <3> QED
      BY <2>1, <3>1 DEF vars, Next, Jit, SetIntr, Forget, ExecNextInst, Acknowledge, Cached,
                        Decode, GotoEip, FetchFault, AssertionFails, Deliver, DeliverAgain, guest
  <2>3. \E h, g, m : h = Head1(prog.string) /\ g = Gathers(prog.string) /\ m = Size(prog.string)
    OBVIOUS
  <2>4. PICK h, g, m : h = Head1(prog.string) /\ g = Gathers(prog.string) /\ m = Size(prog.string)
    BY <2>3
  <2>5. prog.string.prefix # "none" /\ Laid(prog.string, h, g, m)
        /\ prog.string.prefix \in {"rep", "repe", "repne"}
    <3>1. prog.string.prefix # "none" /\ prog.string \in StringInsns
      BY <1>2, <2>1, <2>2 DEF IInv
    <3> QED BY <1>1, <2>4, <3>1 DEF Shape
  <2>6. RepeatingInsn(h, g, m)
    <3>1. Repeating(h, g, m) BY <2>1, <2>4, <2>5 DEF RepInv
    <3> QED BY <2>5, <3>1 DEF RepeatingInsn, Laid
  <2>7. RepeatingInsn(h, g, m)' BY <2>1, <2>6, NextKeepsRepeating
  <2>8. /\ h = Head1(prog'.string) /\ g = Gathers(prog'.string) /\ m = Size(prog'.string)
    BY <2>2, <2>4
  <2> QED BY <2>7, <2>8 DEF RepeatingInsn
<1> QED BY <1>3, <1>4, EventsInvariant, PTL DEF Spec

\* A REP is left when its count, or the flag a comparison looks at, says so, and after
\* exactly the iterations the count went down by, for every count and every size of
\* ECX, whatever interrupts, faults and lost pages come between its words.
THEOREM StringsRepeatExactly == Spec => RepeatsExactly
<1>1. RepInv /\ IInv /\ [Next]_vars =>
        [OnWord({"eip"}) /\ prog.string.prefix # "none" =>
           /\ performed + ecx = wanted
           /\ \/ ecx = 0
              \/ prog.string.prefix = "repe" /\ ~zf
              \/ prog.string.prefix = "repne" /\ zf]_vars
  <2>1. SUFFICES ASSUME RepInv, IInv, OnWord({"eip"}), prog.string.prefix # "none"
                 PROVE  performed + ecx = wanted /\ Over
    BY DEF Over
  <2>2. prog.string \in StringInsns BY <2>1, EventsAssumption DEF IInv, Typed
  <2>3. Shape(prog.string) /\ prog.string.prefix \in {"rep", "repe", "repne"}
    BY <2>1, <2>2, DistancesAreRight DEF StringInsns, Plainly, Comparing
  <2>4. PICK h, g, m : h = Head1(prog.string) /\ g = Gathers(prog.string) /\ m = Size(prog.string)
    OBVIOUS
  <2>5. RepeatingInsn(h, g, m)
    BY <2>1, <2>3, <2>4 DEF RepInv, RepeatingInsn, Shape, Laid
  <2>6. phase = "run" /\ Inst = "string" BY <2>1 DEF OnWord, Running
  <2>7. /\ h \in Nat /\ h >= 1 /\ g \in Nat /\ m \in Nat /\ pos = h + m + h + 1
        /\ Stands(h, g, m) /\ performed \in Nat /\ wanted \in Nat /\ ecx \in 0 .. CountMax
        /\ performed + ecx = wanted + (IF pos \in h + g + 2 .. h + m + 1 THEN 1 ELSE 0)
    BY <2>1, <2>5, <2>6, AtWord
  <2>8. pos \notin h + g + 2 .. h + m + 1 BY <2>7
  <2>9. CountMax \in Nat BY EventsAssumption
  <2>10. performed + ecx = wanted BY <2>7, <2>8, <2>9
  <2>11. Over BY <2>7 DEF Stands
  <2> QED BY <2>10, <2>11
<1> QED BY <1>1, RepeatingInvariant, EventsInvariant, PTL DEF Spec, RepeatsExactly

=============================================================================
