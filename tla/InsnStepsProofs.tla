--------------------------- MODULE InsnStepsProofs ---------------------------
(***************************************************************************)
(* The machine of InsnSteps for any instructions and any number of faults. *)
(* Whether a restarted instruction can read what its aborted attempts left *)
(* behind is a question about the order of its steps alone.                *)
(***************************************************************************)
EXTENDS InsnSteps, TLAPS

\* Why an exception has been delivered and the attempt was not begun again: a
\* step failed and the handler went on, or its caller raised another one.
WentOn(p) == \E k \in 1 .. Len(p) : p[k].fault = "goes on"
GaveUp(p, done) ==
  \E k \in 1 .. Len(p) : p[k].fault = "aborts twice" /\ done \subseteq Written(p, k - 1)

\* The inductive invariant: how far the attempt has come bounds what it has
\* written, and the path bounds what earlier attempts left.
Progress ==
  /\ insn \in Insns
  /\ pc \in 1 .. Len(insn.p) + 1
  /\ faults \in 0 .. MaxFaults
  /\ delivered \in Nat /\ forgotten \in Nat
  /\ dirty \subseteq Written(insn.p, pc - 1) \cup Written(insn.p, Len(insn.p))
  /\ Running => dirty \subseteq Written(insn.p, pc - 1)
  /\ Running => Surely(insn.p, pc - 1) \subseteq dirty
  /\ late \subseteq dirty
  /\ stale \subseteq Left(insn)
  /\ delivered > 0 => WentOn(insn.p) \/ (~Running /\ GaveUp(insn.p, dirty))

---------------------------------------------------------------------------
LEMMA StepFields ==
  ASSUME NEW i \in Insns, NEW k \in 1 .. Len(i.p)
  PROVE  /\ i.p[k].r \subseteq Component
         /\ i.p[k].w \subseteq Component
         /\ i.p[k].fault \in Faults
         /\ Len(i.p) \in Nat
PROOF
  <1>1. i.p \in Seq(Step)
    BY StepsAssumption DEF StepsAssumption
  <1>2. i.p[k] \in Step /\ Len(i.p) \in Nat
    BY <1>1
  <1> QED BY <1>2 DEF Step

LEMMA PathLength ==
  ASSUME NEW i \in Insns
  PROVE  Len(i.p) \in Nat
PROOF
  <1>1. i.p \in Seq(Step)
    BY StepsAssumption DEF StepsAssumption
  <1> QED BY <1>1

LEMMA Interval ==
  ASSUME NEW k \in Nat \ {0}
  PROVE  1 .. k = (1 .. (k - 1)) \cup {k}
PROOF OBVIOUS

\* One more step adds what that step writes.
LEMMA OneMoreWritten ==
  ASSUME NEW p, NEW k \in Nat \ {0}
  PROVE  Written(p, k) = Written(p, k - 1) \cup p[k].w
PROOF
  <1>1. 1 .. k = (1 .. (k - 1)) \cup {k}
    BY Interval
  <1> QED BY <1>1, Zenon DEF Written

LEMMA OneMoreSurely ==
  ASSUME NEW p, NEW k \in Nat \ {0}
  PROVE  Surely(p, k) \subseteq Surely(p, k - 1) \cup p[k].w
PROOF
  <1>1. 1 .. k = (1 .. (k - 1)) \cup {k}
    BY Interval
  <1> QED BY <1>1, Zenon DEF Surely

LEMMA SurelySkips ==
  ASSUME NEW p, NEW k \in Nat \ {0}, p[k].fault \in {"goes on", "forgotten", "fails"}
  PROVE  Surely(p, k) = Surely(p, k - 1)
PROOF
  <1>1. 1 .. k = (1 .. (k - 1)) \cup {k}
    BY Interval
  <1> QED BY <1>1, Zenon DEF Surely

LEMMA NothingWritten ==
  ASSUME NEW p
  PROVE  Written(p, 0) = {} /\ Surely(p, 0) = {}
PROOF
  <1>1. 1 .. 0 = {}
    OBVIOUS
  <1> QED BY <1>1, Zenon DEF Written, Surely

LEMMA WrittenIsComponents ==
  ASSUME NEW i \in Insns, NEW k \in 0 .. Len(i.p)
  PROVE  Written(i.p, k) \subseteq Component
PROOF
  <1>1. ASSUME NEW j \in 1 .. k PROVE i.p[j].w \subseteq Component
    <2>1. j \in 1 .. Len(i.p)
      BY PathLength
    <2> QED BY <2>1, StepFields
  <1> QED BY <1>1, Zenon DEF Written

LEMMA WrittenGrows ==
  ASSUME NEW i \in Insns, NEW k \in 0 .. Len(i.p)
  PROVE  Written(i.p, k) \subseteq Written(i.p, Len(i.p))
PROOF
  <1>1. 1 .. k \subseteq 1 .. Len(i.p)
    BY PathLength
  <1> QED BY <1>1, Zenon DEF Written

\* Where the counter can be.
LEMMA InRange ==
  ASSUME Progress
  PROVE  /\ insn \in Insns /\ Len(insn.p) \in Nat
         /\ pc \in Nat \ {0} /\ pc - 1 \in 0 .. Len(insn.p)
         /\ Running => pc \in 1 .. Len(insn.p)
         /\ ~Running => pc = Len(insn.p) + 1
         /\ delivered \in Nat /\ forgotten \in Nat /\ faults \in 0 .. MaxFaults
PROOF
  <1>1. insn \in Insns
    BY DEF Progress
  <1>2. Len(insn.p) \in Nat
    BY <1>1, PathLength
  <1>3. pc \in 1 .. Len(insn.p) + 1
    BY DEF Progress
  <1>4. delivered \in Nat /\ forgotten \in Nat /\ faults \in 0 .. MaxFaults
    BY Zenon DEF Progress
  <1> QED BY <1>1, <1>2, <1>3, <1>4 DEF Running

---------------------------------------------------------------------------
LEMMA Initially == Init => Progress
PROOF
  <1> SUFFICES ASSUME Init PROVE Progress
    OBVIOUS
  <1>1. Len(insn.p) \in Nat
    BY PathLength DEF Init
  <1>2. Surely(insn.p, 0) = {}
    BY NothingWritten
  <1> QED BY <1>1, <1>2, StepsAssumption DEF Init, Progress, Running, StepsAssumption

\* Restart forgets the attempt; what it leaves is on the path's account.
LEMMA RestartKeepsProgress ==
  ASSUME Progress, Restart, faults < MaxFaults, dirty \cap Kept(insn) \subseteq Left(insn)
  PROVE  Progress'
PROOF
  <1>1. Len(insn.p) \in Nat /\ insn' = insn
    BY InRange DEF Restart
  <1>2. Surely(insn.p, 0) = {}
    BY NothingWritten
  <1>3. pc' = 1 /\ dirty' = {} /\ late' = {} /\ delivered' = 0 /\ faults' = faults + 1
        /\ stale' = stale \cup (dirty \cap Kept(insn))
    BY DEF Restart
  <1>4. faults' \in 0 .. MaxFaults
    BY <1>3, InRange, StepsAssumption DEF StepsAssumption
  <1>5. stale' \subseteq Left(insn') /\ insn' \in Insns
    BY <1>1, <1>3 DEF Progress
  <1>6. pc' \in 1 .. Len(insn'.p) + 1 /\ pc' - 1 = 0
    BY <1>1, <1>3
  <1>7. Surely(insn'.p, pc' - 1) \subseteq dirty'
    BY <1>1, <1>2, <1>6
  <1>8. dirty' = {} /\ late' = {} /\ delivered' \in Nat /\ ~(delivered' > 0)
        /\ forgotten' \in Nat
    BY <1>3 DEF Restart
  <1> QED BY <1>4, <1>5, <1>6, <1>7, <1>8 DEF Progress

LEMMA ExecuteKeepsProgress ==
  ASSUME Progress, Execute
  PROVE  Progress'
PROOF
  <1> DEFINE p == insn.p
  <1>1. Len(p) \in Nat /\ pc \in 1 .. Len(p) /\ insn' = insn /\ pc' = pc + 1
    BY InRange DEF Execute
  <1>2. pc \in Nat \ {0} /\ pc' - 1 = pc
    BY <1>1
  <1>3. Written(p, pc) = Written(p, pc - 1) \cup p[pc].w
    BY <1>2, OneMoreWritten
  <1>4. Surely(p, pc) \subseteq Surely(p, pc - 1) \cup p[pc].w
    BY <1>2, OneMoreSurely
  <1>5. dirty' = dirty \cup p[pc].w
    BY DEF Execute, Next_step
  <1>6. dirty \subseteq Written(p, pc - 1) /\ Surely(p, pc - 1) \subseteq dirty
    BY DEF Progress, Execute
  <1>7. dirty' \subseteq Written(p, pc) /\ Surely(p, pc) \subseteq dirty'
    BY <1>3, <1>4, <1>5, <1>6
  <1>8. late' \subseteq dirty'
    BY <1>5 DEF Progress, Execute, Next_step
  <1>9. pc' \in 1 .. Len(p) + 1
    BY <1>1
  <1>10. insn' \in Insns /\ faults' \in 0 .. MaxFaults /\ delivered' \in Nat
         /\ forgotten' \in Nat
         /\ stale' \subseteq Left(insn) /\ delivered' = delivered
    BY <1>1 DEF Progress, Execute
  <1>11. delivered' > 0 => WentOn(p)
    BY <1>10 DEF Progress, Execute
  <1>12. dirty' \subseteq Written(p, pc' - 1) /\ Surely(p, pc' - 1) \subseteq dirty'
    BY <1>2, <1>7
  <1> HIDE DEF p
  <1>13. insn'.p = p /\ Left(insn') = Left(insn)
    BY <1>1 DEF p
  <1> QED BY <1>8, <1>9, <1>10, <1>11, <1>12, <1>13 DEF Progress, Running

LEMMA AbortKeepsProgress ==
  ASSUME Progress, Abort
  PROVE  Progress'
PROOF
  <1>1. Len(insn.p) \in Nat /\ pc \in 1 .. Len(insn.p) /\ insn \in Insns
    BY InRange DEF Abort
  <1>2. dirty \subseteq Written(insn.p, pc - 1) /\ insn.p[pc].fault = "aborts"
    BY DEF Progress, Abort, Next_step
  <1>3. Written(insn.p, pc - 1) \subseteq Component
    <2>1. pc - 1 \in 0 .. Len(insn.p)
      BY <1>1
    <2> QED BY <1>1, <2>1, WrittenIsComponents
  <1>4. dirty \cap Kept(insn) \subseteq Left(insn)
    BY <1>1, <1>2, <1>3 DEF Left
  <1> QED BY <1>4, RestartKeepsProgress DEF Abort

LEMMA AbortTwiceKeepsProgress ==
  ASSUME Progress, AbortTwice
  PROVE  Progress'
PROOF
  <1>1. Len(insn.p) \in Nat /\ pc \in 1 .. Len(insn.p) /\ insn \in Insns
    BY InRange DEF AbortTwice
  <1>2. insn.p[pc].fault = "aborts twice"
    BY DEF AbortTwice, Next_step
  <1>3. pc' = Len(insn.p) + 1 /\ insn' = insn /\ dirty' = dirty /\ late' = late
        /\ stale' = stale /\ faults' = faults /\ delivered' = delivered + 2
        /\ forgotten' = forgotten
    BY DEF AbortTwice
  <1>4. pc' - 1 = Len(insn.p) /\ ~(pc' <= Len(insn.p)) /\ pc' \in 1 .. Len(insn.p) + 1
    BY <1>1, <1>3
  <1>5. pc - 1 \in 0 .. Len(insn.p)
    BY <1>1
  <1>6. Written(insn.p, pc - 1) \subseteq Written(insn.p, Len(insn.p))
    BY <1>1, <1>5, WrittenGrows
  <1>7. dirty' \subseteq Written(insn'.p, pc' - 1) \cup Written(insn'.p, Len(insn'.p))
    BY <1>3, <1>4, <1>6 DEF Progress
  <1>8. delivered' \in Nat /\ forgotten' \in Nat /\ faults' \in 0 .. MaxFaults
    BY <1>3, InRange
  <1>9. late' \subseteq dirty' /\ stale' \subseteq Left(insn') /\ insn' \in Insns
    BY <1>3 DEF Progress
  <1>10. ~Running'
    BY <1>3, <1>4 DEF Running
  <1>11. dirty' \subseteq Written(insn'.p, pc - 1)
    BY <1>3 DEF Progress, AbortTwice
  <1>12. GaveUp(insn'.p, dirty')
    BY <1>1, <1>2, <1>3, <1>11 DEF GaveUp
  <1> QED BY <1>3, <1>4, <1>7, <1>8, <1>9, <1>10, <1>12 DEF Progress

LEMMA GoOnKeepsProgress ==
  ASSUME Progress, GoOn
  PROVE  Progress'
PROOF
  <1>1. Len(insn.p) \in Nat /\ pc \in 1 .. Len(insn.p) /\ insn \in Insns
        /\ insn' = insn /\ pc' = pc + 1 /\ dirty' = dirty
    BY InRange DEF GoOn
  <1>2. insn.p[pc].fault = "goes on"
    BY DEF GoOn, Next_step
  <1>3. pc \in Nat \ {0} /\ pc' - 1 = pc
    BY <1>1
  <1>4. Surely(insn.p, pc) = Surely(insn.p, pc - 1)
    BY <1>2, <1>3, SurelySkips
  <1>5. Written(insn.p, pc) = Written(insn.p, pc - 1) \cup insn.p[pc].w
    BY <1>3, OneMoreWritten
  <1>6. dirty' \subseteq Written(insn'.p, pc' - 1) /\ Surely(insn'.p, pc' - 1) \subseteq dirty'
    BY <1>1, <1>3, <1>4, <1>5 DEF Progress, GoOn
  <1>7. late' \subseteq dirty' /\ stale' \subseteq Left(insn') /\ insn' \in Insns
    BY <1>1 DEF Progress, GoOn
  <1>8. pc' \in 1 .. Len(insn'.p) + 1
    BY <1>1
  <1>10. faults' = faults /\ delivered' = delivered + 1 /\ forgotten' = forgotten
    BY DEF GoOn
  <1>11. faults' \in 0 .. MaxFaults /\ delivered' \in Nat /\ forgotten' \in Nat
    BY <1>10, InRange
  <1>9. WentOn(insn'.p)
    BY <1>1, <1>2 DEF WentOn
  <1> QED BY <1>6, <1>7, <1>8, <1>9, <1>11 DEF Progress, Running

LEMMA ForgetKeepsProgress ==
  ASSUME Progress, Forget
  PROVE  Progress'
PROOF
  <1>1. Len(insn.p) \in Nat /\ pc \in 1 .. Len(insn.p) /\ insn \in Insns
        /\ insn' = insn /\ pc' = pc + 1 /\ dirty' = dirty
    BY InRange DEF Forget
  <1>2. insn.p[pc].fault \in {"forgotten", "fails"}
    BY DEF Forget, Next_step
  <1>3. pc \in Nat \ {0} /\ pc' - 1 = pc
    BY <1>1
  <1>4. Surely(insn.p, pc) = Surely(insn.p, pc - 1)
    BY <1>2, <1>3, SurelySkips
  <1>5. Written(insn.p, pc) = Written(insn.p, pc - 1) \cup insn.p[pc].w
    BY <1>3, OneMoreWritten
  <1>6. dirty' \subseteq Written(insn'.p, pc' - 1) /\ Surely(insn'.p, pc' - 1) \subseteq dirty'
    BY <1>1, <1>3, <1>4, <1>5 DEF Progress, Forget
  <1>7. late' \subseteq dirty' /\ stale' \subseteq Left(insn') /\ insn' \in Insns
    BY <1>1 DEF Progress, Forget
  <1>8. pc' \in 1 .. Len(insn'.p) + 1
    BY <1>1
  <1>9. faults' \in 0 .. MaxFaults /\ delivered' \in Nat /\ forgotten' \in Nat
    BY InRange DEF Forget
  <1>10. delivered' > 0 => WentOn(insn'.p)
    BY <1>1 DEF Progress, Forget
  <1> QED BY <1>6, <1>7, <1>8, <1>9, <1>10 DEF Progress, Running

LEMMA RestartCompletedKeepsProgress ==
  ASSUME Progress, RestartCompleted
  PROVE  Progress'
PROOF
  <1>1. Len(insn.p) \in Nat /\ insn \in Insns /\ pc = Len(insn.p) + 1
    BY InRange DEF RestartCompleted
  <1>2. dirty \subseteq Written(insn.p, Len(insn.p))
    <2>1. pc - 1 = Len(insn.p)
      BY <1>1
    <2> QED BY <2>1 DEF Progress
  <1>3. Written(insn.p, Len(insn.p)) \subseteq Component
    BY <1>1, WrittenIsComponents
  <1>4. ASSUME WentOn(insn.p) PROVE dirty \cap Kept(insn) \subseteq Left(insn)
    <2>1. PICK k \in 1 .. Len(insn.p) : insn.p[k].fault = "goes on"
      BY <1>4 DEF WentOn
    <2> SUFFICES ASSUME NEW c \in dirty \cap Kept(insn) PROVE c \in Left(insn)
      OBVIOUS
    <2>2. c \in Kept(insn) /\ c \in Written(insn.p, Len(insn.p))
      BY <1>2
    <2> QED BY <2>1, <2>2, Zenon DEF Left
  <1>5. ASSUME GaveUp(insn.p, dirty) PROVE dirty \cap Kept(insn) \subseteq Left(insn)
    <2>1. PICK k \in 1 .. Len(insn.p) :
            insn.p[k].fault = "aborts twice" /\ dirty \subseteq Written(insn.p, k - 1)
      BY <1>5 DEF GaveUp
    <2> SUFFICES ASSUME NEW c \in dirty \cap Kept(insn) PROVE c \in Left(insn)
      OBVIOUS
    <2>2. c \in Kept(insn) /\ c \in Written(insn.p, k - 1)
      BY <2>1
    <2> QED BY <2>1, <2>2, Zenon DEF Left
  <1>6. WentOn(insn.p) \/ GaveUp(insn.p, dirty)
    BY DEF Progress, RestartCompleted
  <1>7. dirty \cap Kept(insn) \subseteq Left(insn)
    BY <1>4, <1>5, <1>6
  <1> QED BY <1>7, RestartKeepsProgress DEF RestartCompleted

LEMMA Inductive == Progress /\ [Next]_vars => Progress'
PROOF
  <1> SUFFICES ASSUME Progress, [Next]_vars PROVE Progress'
    OBVIOUS
  <1>1. CASE Execute BY <1>1, ExecuteKeepsProgress
  <1>2. CASE Abort BY <1>2, AbortKeepsProgress
  <1>3. CASE AbortTwice BY <1>3, AbortTwiceKeepsProgress
  <1>4. CASE GoOn BY <1>4, GoOnKeepsProgress
  <1>5. CASE RestartCompleted BY <1>5, RestartCompletedKeepsProgress
  <1>6. CASE Forget BY <1>6, ForgetKeepsProgress
  <1>7. CASE UNCHANGED vars BY <1>7 DEF Progress, Running, vars
  <1> QED BY <1>1, <1>2, <1>3, <1>4, <1>5, <1>6, <1>7 DEF Next

---------------------------------------------------------------------------
\* Every attempt stays on its path and touches components only, for any
\* instructions and any number of faults.
THEOREM StepsTyped == Spec => []TypeOK
PROOF
  <1>1. ASSUME Progress PROVE TypeOK
    <2>1. Len(insn.p) \in Nat /\ insn \in Insns /\ pc - 1 \in 0 .. Len(insn.p)
      BY <1>1, InRange
    <2>2. Written(insn.p, pc - 1) \subseteq Component
          /\ Written(insn.p, Len(insn.p)) \subseteq Component
      BY <2>1, WrittenIsComponents
    <2>3. dirty \subseteq Component /\ late \subseteq Component
      BY <1>1, <2>2 DEF Progress
    <2>4. stale \subseteq Component
      BY <1>1 DEF Progress, Left, Kept
    <2> QED BY <1>1, <2>3, <2>4 DEF Progress, TypeOK
  <1> QED BY <1>1, Initially, Inductive, PTL DEF Spec

\* An instruction whose steps are in order is transparent to restarts however
\* often it faults: that it reads nothing an aborted attempt changed follows
\* from its path, which the run checks, for any number of faults.
THEOREM RestartsAlwaysTransparent ==
  Spec => [](InOrder(insn) => RestartTransparent)
PROOF
  <1>1. ASSUME Progress, InOrder(insn) PROVE RestartTransparent
    <2> SUFFICES ASSUME Running, NEW c \in Next_step.r \cap (stale \ dirty)
                 PROVE <<Op, c>> \in Rereads
      BY DEF RestartTransparent
    <2>1. insn \in Insns /\ pc \in 1 .. Len(insn.p)
      BY <1>1, InRange
    <2>2. c \in Left(insn) \ Surely(insn.p, pc - 1)
      BY <1>1 DEF Progress
    <2>3. c \in insn.p[pc].r
      BY DEF Next_step
    <2> QED BY <1>1, <2>1, <2>2, <2>3 DEF InOrder, Op
  <1> QED BY <1>1, Initially, Inductive, PTL DEF Spec

---------------------------------------------------------------------------
\* What an attempt has delivered and forgotten so far, and what it has written
\* since, all on the account of the steps it has passed.
Passed(k) == k < pc
WentOnAt(k) == Passed(k) /\ insn.p[k].fault = "goes on"

Account ==
  /\ delivered > 0 => \E k \in 1 .. Len(insn.p) :
                         WentOnAt(k) \/ insn.p[k].fault = "aborts twice"
  /\ delivered > 1 =>
       \/ \E k \in 1 .. Len(insn.p) : insn.p[k].fault = "aborts twice"
       \/ \E j, k \in 1 .. Len(insn.p) : j # k /\ WentOnAt(j) /\ WentOnAt(k)
  /\ forgotten > 0 =>
       \E k \in 1 .. Len(insn.p) : insn.p[k].fault \in {"forgotten", "fails"}
  /\ Running /\ delivered > 0 => \E k \in 1 .. Len(insn.p) : WentOnAt(k)
  /\ \A c \in late :
       \E k, j \in 1 .. Len(insn.p) :
         WentOnAt(k) /\ k < j /\ c \in insn.p[j].w

LEMMA AccountInitially == Init => Account
PROOF BY DEF Init, Account

\* A step that is passed stays passed.
LEMMA StaysPassed ==
  ASSUME pc \in Nat, pc' \in Nat, pc < pc', insn' = insn, NEW k \in Nat, WentOnAt(k)
  PROVE  WentOnAt(k)'
PROOF
  <1>1. k < pc
    BY DEF WentOnAt, Passed
  <1>2. k < pc'
    BY <1>1
  <1>3. insn'.p[k].fault = "goes on"
    BY DEF WentOnAt
  <1> QED BY <1>2, <1>3 DEF WentOnAt, Passed

LEMMA RestartClearsAccount ==
  ASSUME Restart
  PROVE  Account'
PROOF
  <1>1. ~(delivered' > 0) /\ ~(delivered' > 1) /\ ~(forgotten' > 0) /\ late' = {}
    BY DEF Restart
  <1> QED BY <1>1 DEF Account

LEMMA ExecuteKeepsAccount ==
  ASSUME Progress, Account, Execute
  PROVE  Account'
PROOF
  <1>1. Running /\ pc \in 1 .. Len(insn.p) /\ Len(insn.p) \in Nat /\ insn' = insn
        /\ pc' = pc + 1
    BY InRange DEF Execute
  <1>2. delivered' = delivered /\ forgotten' = forgotten
    BY DEF Execute
  <1>3. ASSUME NEW k \in 1 .. Len(insn.p), WentOnAt(k) PROVE WentOnAt(k)'
    <2>1. pc \in Nat /\ pc' \in Nat /\ pc < pc' /\ k \in Nat
      BY <1>1
    <2> QED BY <1>1, <1>3, <2>1, StaysPassed
  <1>4. ASSUME NEW c \in late'
        PROVE  \E k, j \in 1 .. Len(insn.p) : WentOnAt(k)' /\ k < j /\ c \in insn.p[j].w
    <2>1. CASE c \in late
      <3>1. PICK k \in 1 .. Len(insn.p), j \in 1 .. Len(insn.p) :
              WentOnAt(k) /\ k < j /\ c \in insn.p[j].w
        BY <2>1 DEF Account
      <3> QED BY <3>1, <1>3
    <2>2. CASE c \notin late
      <3>1. delivered > 0 /\ c \in insn.p[pc].w
        BY <1>4, <2>2 DEF Execute, Next_step
      <3>2. PICK k \in 1 .. Len(insn.p) : WentOnAt(k)
        BY <3>1, <1>1 DEF Account
      <3>3. k < pc
        BY <3>2 DEF WentOnAt, Passed
      <3> QED BY <1>1, <1>3, <3>1, <3>2, <3>3
    <2> QED BY <2>1, <2>2
  <1> QED BY <1>1, <1>2, <1>3, <1>4 DEF Account

LEMMA GoOnKeepsAccount ==
  ASSUME Progress, Account, GoOn
  PROVE  Account'
PROOF
  <1>1. Running /\ pc \in 1 .. Len(insn.p) /\ Len(insn.p) \in Nat /\ insn' = insn
        /\ pc' = pc + 1 /\ delivered \in Nat
    BY InRange DEF GoOn
  <1>2. delivered' = delivered + 1 /\ forgotten' = forgotten /\ late' = late
        /\ insn.p[pc].fault = "goes on"
    BY DEF GoOn, Next_step
  <1>3. ASSUME NEW k \in 1 .. Len(insn.p), WentOnAt(k) PROVE WentOnAt(k)'
    <2>1. pc \in Nat /\ pc' \in Nat /\ pc < pc' /\ k \in Nat
      BY <1>1
    <2> QED BY <1>1, <1>3, <2>1, StaysPassed
  <1>4. PICK n \in 1 .. Len(insn.p) : n = pc
    BY <1>1
  <1>5. WentOnAt(n)'
    <2>1. n < pc'
      BY <1>1, <1>4
    <2>2. insn'.p[n].fault = "goes on"
      BY <1>1, <1>2, <1>4
    <2> QED BY <2>1, <2>2 DEF WentOnAt, Passed
  <1>6. ASSUME delivered' > 1
        PROVE  \E j, k \in 1 .. Len(insn.p) : j # k /\ WentOnAt(j)' /\ WentOnAt(k)'
    <2>1. delivered \in Nat /\ delivered' = delivered + 1 /\ delivered' > 1
      BY <1>1, <1>2, <1>6
    <2>2. delivered > 0
      BY <2>1
    <2>3. PICK k \in 1 .. Len(insn.p) : WentOnAt(k)
      BY <1>1, <2>2 DEF Account
    <2>4. k < n
      BY <1>4, <2>3 DEF WentOnAt, Passed
    <2>5. k # n
      BY <1>1, <2>4
    <2>6. WentOnAt(k)'
      BY <1>3, <2>3
    <2> QED BY <1>5, <2>5, <2>6
  <1>7. ASSUME NEW c \in late'
        PROVE  \E k, j \in 1 .. Len(insn.p) : WentOnAt(k)' /\ k < j /\ c \in insn.p[j].w
    <2>1. PICK k \in 1 .. Len(insn.p), j \in 1 .. Len(insn.p) :
            WentOnAt(k) /\ k < j /\ c \in insn.p[j].w
      BY <1>2, <1>7 DEF Account
    <2> QED BY <1>3, <2>1
  <1> QED BY <1>1, <1>2, <1>5, <1>6, <1>7 DEF Account

LEMMA ForgetKeepsAccount ==
  ASSUME Progress, Account, Forget
  PROVE  Account'
PROOF
  <1>1. Running /\ pc \in 1 .. Len(insn.p) /\ Len(insn.p) \in Nat /\ insn' = insn
        /\ pc' = pc + 1
    BY InRange DEF Forget
  <1>2. delivered' = delivered /\ late' = late
        /\ insn.p[pc].fault \in {"forgotten", "fails"}
    BY DEF Forget, Next_step
  <1>3. ASSUME NEW k \in 1 .. Len(insn.p), WentOnAt(k) PROVE WentOnAt(k)'
    <2>1. pc \in Nat /\ pc' \in Nat /\ pc < pc' /\ k \in Nat
      BY <1>1
    <2> QED BY <1>1, <1>3, <2>1, StaysPassed
  <1>4. ASSUME NEW c \in late'
        PROVE  \E k, j \in 1 .. Len(insn.p) : WentOnAt(k)' /\ k < j /\ c \in insn.p[j].w
    BY <1>2, <1>3, <1>4 DEF Account
  <1> QED BY <1>1, <1>2, <1>3, <1>4 DEF Account

LEMMA AbortTwiceKeepsAccount ==
  ASSUME Progress, Account, AbortTwice
  PROVE  Account'
PROOF
  <1>1. pc \in 1 .. Len(insn.p) /\ insn' = insn
        /\ forgotten' = forgotten /\ late' = late /\ insn.p[pc].fault = "aborts twice"
    BY InRange DEF AbortTwice, Next_step
  <1>2. ~Running'
    <2>1. insn' = insn /\ pc' = Len(insn.p) + 1 /\ Len(insn.p) \in Nat
      BY InRange DEF AbortTwice
    <2>2. ~(pc' <= Len(insn'.p))
      BY <2>1
    <2> QED BY <2>2 DEF Running
  <1>3. ASSUME NEW k \in 1 .. Len(insn.p), WentOnAt(k) PROVE WentOnAt(k)'
    <2>1. pc' = Len(insn.p) + 1 /\ Len(insn.p) \in Nat /\ pc \in 1 .. Len(insn.p)
      BY InRange DEF AbortTwice
    <2>2. pc \in Nat /\ pc' \in Nat /\ pc < pc' /\ k \in Nat
      BY <2>1
    <2> QED BY <1>1, <1>3, <2>2, StaysPassed
  <1>4. ASSUME NEW c \in late'
        PROVE  \E k, j \in 1 .. Len(insn.p) : WentOnAt(k)' /\ k < j /\ c \in insn.p[j].w
    BY <1>1, <1>3, <1>4 DEF Account
  <1> QED BY <1>1, <1>2, <1>4 DEF Account

LEMMA AccountInductive == Progress /\ Account /\ [Next]_vars => Account'
PROOF
  <1> SUFFICES ASSUME Progress, Account, [Next]_vars PROVE Account'
    OBVIOUS
  <1>1. CASE Execute BY <1>1, ExecuteKeepsAccount
  <1>2. CASE Abort BY <1>2, RestartClearsAccount DEF Abort
  <1>3. CASE AbortTwice BY <1>3, AbortTwiceKeepsAccount
  <1>4. CASE GoOn BY <1>4, GoOnKeepsAccount
  <1>5. CASE RestartCompleted BY <1>5, RestartClearsAccount DEF RestartCompleted
  <1>6. CASE Forget BY <1>6, ForgetKeepsAccount
  <1>7. CASE UNCHANGED vars
    BY <1>7 DEF Account, WentOnAt, Passed, Running, vars
  <1> QED BY <1>1, <1>2, <1>3, <1>4, <1>5, <1>6, <1>7 DEF Next

LEMMA AccountKept == Spec => []Account
PROOF
  <1> QED BY Initially, Inductive, AccountInitially, AccountInductive, PTL DEF Spec

\* Whatever has been delivered, the rest of the attempt changes nothing but
\* what Trails lists: it follows from the order of the steps alone, for any
\* number of faults and restarts.
THEOREM QuietAfterEveryDelivery ==
  Spec => [](QuietAfter(insn) => NothingAfterDelivery)
PROOF
  <1>1. ASSUME Progress, Account, QuietAfter(insn) PROVE NothingAfterDelivery
    <2> SUFFICES ASSUME NEW c \in late PROVE <<Op, c>> \in Trails
      BY DEF NothingAfterDelivery
    <2>1. PICK k \in 1 .. Len(insn.p), j \in 1 .. Len(insn.p) :
            WentOnAt(k) /\ k < j /\ c \in insn.p[j].w
      BY <1>1 DEF Account
    <2>2. Len(insn.p) \in Nat
      BY <1>1, InRange
    <2>3. j \in k + 1 .. Len(insn.p)
      BY <2>1, <2>2
    <2>4. insn.p[k].fault = "goes on"
      BY <2>1 DEF WentOnAt
    <2> QED BY <1>1, <2>1, <2>3, <2>4 DEF QuietAfter, Op
  <1> QED BY <1>1, Initially, Inductive, AccountKept, PTL DEF Spec

\* One fault raises one exception, and somebody delivers it, in every attempt
\* of an instruction none but one of whose steps goes on after a fault.
THEOREM EveryFaultRaisesOne ==
  Spec => [](RaisesOnce(insn) => OneExceptionPerFault)
PROOF
  <1>1. ASSUME Account, RaisesOnce(insn) PROVE OneExceptionPerFault
    <2>1. ASSUME delivered > 1, Op \notin Doubles PROVE FALSE
      BY <1>1, <2>1 DEF Account, RaisesOnce, WentOnAt, Op
    <2>2. ASSUME forgotten > 0, Op \notin Forgets PROVE FALSE
      BY <1>1, <2>2 DEF Account, RaisesOnce, Op
    <2> QED BY <2>1, <2>2 DEF OneExceptionPerFault
  <1> QED BY <1>1, AccountKept, PTL

=============================================================================
