----------------------------- MODULE InsnSteps -----------------------------
(***************************************************************************)
(* One guest instruction from its first byte to its end.  Any step that    *)
(* may fault does so at any time: the exception is delivered, its handler  *)
(* repairs the cause and returns, and the instruction starts again from    *)
(* the beginning over the state the aborted attempt left behind.           *)
(***************************************************************************)
EXTENDS Steps

CONSTANTS
  Insns,      \* the instructions: records of a name and a path
  Rollback(_),\* the components an exception restores, by the instruction's name
  MaxFaults,  \* how many attempts may be cut short
  \* What is known not to hold, as pairs of an operation and a component, or
  \* operations: see the properties.
  Rereads, Trails, Doubles, Forgets

ASSUME StepsAssumption ==
  /\ \A i \in Insns : i.p \in Seq(Step)
  /\ MaxFaults \in Nat

VARIABLES
  insn,       \* the instruction under way
  pc,         \* the next step of its path
  dirty,      \* components this attempt has written
  stale,      \* components earlier attempts wrote and nobody restored
  delivered,  \* exceptions delivered during this attempt
  late,       \* components written after one of them
  forgotten,  \* faults of this attempt whose exception nobody delivers
  faults      \* attempts cut short so far

vars == <<insn, pc, dirty, stale, delivered, late, forgotten, faults>>

Running == pc <= Len(insn.p)
Next_step == insn.p[pc]

\* What instruction i leaves behind when an exception is delivered.
Kept(i) == Component \ Rollback(i.n)

Init ==
  /\ insn \in Insns
  /\ pc = 1
  /\ dirty = {} /\ stale = {} /\ late = {}
  /\ delivered = 0 /\ forgotten = 0
  /\ faults = 0

\* The step has its effect.
Execute ==
  /\ Running /\ Next_step.fault # "fails"
  /\ pc' = pc + 1
  /\ dirty' = dirty \cup Next_step.w
  /\ late' = IF delivered > 0 THEN late \cup Next_step.w ELSE late
  /\ UNCHANGED <<insn, stale, delivered, forgotten, faults>>

\* As Restart, with EIP left where the attempt had moved it.
RestartKeepingEip ==
  /\ pc' = 1
  /\ stale' = stale \cup dirty
  /\ dirty' = {} /\ late' = {}
  /\ delivered' = 0 /\ forgotten' = 0
  /\ faults' = faults + 1
  /\ UNCHANGED insn

\* The instruction begins again after an attempt that was cut short.
Restart ==
  /\ pc' = 1
  /\ stale' = stale \cup (dirty \cap Kept(insn))
  /\ dirty' = {} /\ late' = {}
  /\ delivered' = 0 /\ forgotten' = 0
  /\ faults' = faults + 1
  /\ UNCHANGED insn

\* As Abort, with an EXCEPTION that does not leave the handler.
AbortReturningTooLate ==
  /\ Running /\ faults < MaxFaults
  /\ Next_step.fault = "aborts"
  /\ delivered' = delivered + 1
  /\ pc' = pc + 1
  /\ UNCHANGED <<insn, dirty, stale, late, forgotten, faults>>

\* As Abort, with a handler that is left and an exception that is not delivered.
AbortInSilence ==
  /\ Running /\ faults < MaxFaults
  /\ Next_step.fault = "aborts"
  /\ forgotten' = forgotten + 1
  /\ pc' = Len(insn.p) + 1
  /\ UNCHANGED <<insn, dirty, stale, delivered, late, faults>>

\* EXCEPTION ... return: the handler of the instruction is left.
Abort ==
  /\ Running /\ faults < MaxFaults
  /\ Next_step.fault = "aborts"
  /\ Restart

\* The helper has delivered an exception and its caller raises another one.
AbortTwice ==
  /\ Running /\ faults < MaxFaults
  /\ Next_step.fault = "aborts twice"
  /\ delivered' = delivered + 2
  /\ pc' = Len(insn.p) + 1
  /\ UNCHANGED <<insn, dirty, stale, late, forgotten, faults>>

\* The exception is delivered but the handler of the instruction goes on.
GoOn ==
  /\ Running /\ faults < MaxFaults
  /\ Next_step.fault = "goes on"
  /\ delivered' = delivered + 1
  /\ pc' = pc + 1
  /\ UNCHANGED <<insn, dirty, stale, late, forgotten, faults>>

\* The exception is recorded; neither the helper nor its caller delivers it.
Forget ==
  /\ Running /\ faults < MaxFaults
  /\ Next_step.fault \in {"forgotten", "fails"}
  /\ forgotten' = forgotten + 1
  /\ pc' = pc + 1
  /\ UNCHANGED <<insn, dirty, stale, delivered, late, faults>>

\* The exception of a completed attempt returns to the instruction.
RestartCompleted ==
  /\ ~Running /\ delivered > 0 /\ faults < MaxFaults
  /\ Restart

Next == Execute \/ Abort \/ AbortTwice \/ GoOn \/ Forget \/ RestartCompleted

Spec == Init /\ [][Next]_vars

---------------------------------------------------------------------------
TypeOK ==
  /\ pc \in 1 .. Len(insn.p) + 1
  /\ {dirty, stale, late} \subseteq SUBSET Component
  /\ {delivered, forgotten} \subseteq Nat
  /\ faults \in 0 .. MaxFaults

Op == insn.n[1]

\* An instruction that is executed again after a fault computes from the state
\* it found the first time: no step reads a component that an attempt cut
\* short has changed and this attempt has not set again.  (EXCEPTION returns
\* to _old_EIP and restores nothing else.)  Rereads lists the operations that
\* do, with what they see changed.
RestartTransparent ==
  Running => \A c \in Next_step.r \cap (stale \ dirty) : <<Op, c>> \in Rereads

\* What the first k steps of a path write, and what they have written whatever
\* happened: a step that may fail and go on need not have written.
Written(p, k) == UNION {p[i].w : i \in 1 .. k}
Surely(p, k) ==
  UNION {p[i].w : i \in {j \in 1 .. k : p[j].fault \notin {"goes on", "forgotten", "fails"}}}

\* What attempts of an instruction that were cut short may leave changed.
Left(i) ==
  {c \in Kept(i) :
     \E k \in 1 .. Len(i.p) :
       \/ i.p[k].fault \in {"aborts", "aborts twice"} /\ c \in Written(i.p, k - 1)
       \/ i.p[k].fault = "goes on" /\ c \in Written(i.p, Len(i.p))}

\* No step of the path reads what an aborted attempt may have left changed,
\* unless an earlier step of the same attempt has surely set it again.
InOrder(i) ==
  LET left == Left(i)
  IN \A k \in 1 .. Len(i.p) :
       \A c \in i.p[k].r \cap (left \ Surely(i.p, k - 1)) :
         <<i.n[1], c>> \in Rereads

\* Once an exception has been delivered the registers are those of its
\* handler: the rest of the instruction that raised it changes none of them.
\* Trails lists what does: helpers whose failure is only logged.
NothingAfterDelivery ==
  \A c \in late : <<Op, c>> \in Trails

\* No step that follows one whose handler goes on after an exception writes
\* anything, Trails excepted.
QuietAfter(i) ==
  \A k \in 1 .. Len(i.p) :
    i.p[k].fault = "goes on" =>
      \A j \in k + 1 .. Len(i.p) : \A c \in i.p[j].w : <<i.n[1], c>> \in Trails

\* At most one step of the path goes on after an exception, and no step raises
\* one twice or keeps one for itself, Doubles and Forgets excepted.
RaisesOnce(i) ==
  /\ \/ i.n[1] \in Doubles
     \/ /\ \A k \in 1 .. Len(i.p) : i.p[k].fault # "aborts twice"
        /\ \A j, k \in 1 .. Len(i.p) :
             i.p[j].fault = "goes on" /\ i.p[k].fault = "goes on" => j = k
  /\ \/ i.n[1] \in Forgets
     \/ \A k \in 1 .. Len(i.p) : i.p[k].fault \notin {"forgotten", "fails"}

\* One fault raises one exception: the caller of a helper that has delivered
\* one raises no second, and none is recorded that nobody delivers (the JIT
\* would meet it later: _exception is overwritten, or not -1 where
\* IA32_jit_exec_next_inst asserts it is).  Doubles and Forgets list the
\* operations for which it is not so.
OneExceptionPerFault ==
  /\ delivered > 1 => Op \in Doubles
  /\ forgotten > 0 => Op \in Forgets

=============================================================================
