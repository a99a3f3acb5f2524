------------------------------ MODULE JitFlags ------------------------------
(***************************************************************************)
(* Lazy flags.  When jit.c decodes a block it passes over it backwards and *)
(* finds, for each instruction, the flags somebody may read before they    *)
(* are written again; compile emits the bytecode that computes a flag only *)
(* for those.  The guest must not be able to tell.                         *)
(*                                                                         *)
(* A guest program is a sequence of instructions in pages.  Blocks of it   *)
(* are decoded when they are reached, and forgotten a page at a time.  The *)
(* values of the flags are not modelled: stale holds the flags whose value *)
(* is not the one the completed instructions have given them, and ahead    *)
(* those an instruction that has not completed has already written.        *)
(*                                                                         *)
(* An exception, or an interrupt between two iterations of a repeated      *)
(* instruction, saves the flags as they are and comes back to the same     *)
(* instruction with the flags it saved.                                    *)
(***************************************************************************)
EXTENDS FlagTemplates

CONSTANTS
  Len_,        \* instructions of the program
  PageLen,     \* instructions of a page
  Insts        \* the instructions it may hold

ASSUME ProgramAssumption ==
  /\ Len_ \in Nat \ {0} /\ PageLen \in Nat \ {0}
  /\ Insts \subseteq Inst

VARIABLES
  prog,        \* the guest's program
  decoded,     \* the instructions with an entry in their page
  want,        \* DisEntry.flags of each decoded instruction
  n, first, flags,     \* the pass over _dis_v: position, start, live flags
  pc, u,       \* instruction and bytecode in execution
  stale, ahead, skipped

passVars == <<n, first, flags>>
runVars == <<pc, u, stale, ahead, skipped>>
vars == <<prog, decoded, want, passVars, runVars>>

Pos == 1 .. Len_
PageOf(k) == (k - 1) \div PageLen
Code == Template[prog[pc]]
Idle == 0        \* no pass under way

Init ==
  /\ prog \in [Pos -> Insts]
  /\ decoded = {} /\ want = [k \in Pos |-> Flags]
  /\ n = Idle /\ first = 1 /\ flags = Flags
  /\ pc = 1 /\ u = 1 /\ stale = {} /\ ahead = {} /\ skipped = {}

-----------------------------------------------------------------------------
(* dis_insts *)

\* A block from lo may end at hi: at a branch, before a decoded instruction or
\* at the end of the page, or earlier when the next one cannot be decoded.
IsBlock(lo, hi) ==
  /\ lo <= hi /\ PageOf(lo) = PageOf(hi)
  /\ \A k \in lo .. hi : k \notin decoded
  /\ \A k \in lo .. (hi - 1) : ~ branch(prog[k])

\* As Decode, with no flag alive at the end of the block.
DecodeNothingAlive ==
  /\ n = Idle /\ u = 1 /\ pc \notin decoded
  /\ \E hi \in Pos : IsBlock(pc, hi) /\ n' = hi
  /\ first' = pc /\ flags' = {}
  /\ UNCHANGED <<prog, decoded, want, runVars>>
\* goto_eip finds no entry at pc.
Decode ==
  /\ n = Idle /\ u = 1 /\ pc \notin decoded
  /\ \E hi \in Pos : IsBlock(pc, hi) /\ n' = hi
  /\ first' = pc /\ flags' = Flags
  /\ UNCHANGED <<prog, decoded, want, runVars>>

\* As Before, taking away the modified flags after adding the needed ones.
NeededThenModified(i, live) ==
  IF repe(i) THEN live \cup req_flags(i) \cup {"ZF"}
             ELSE (live \cup req_flags(i)) \ chg_flags(i)
\* As Before, without the case of the prefixes.
RepeatedAlwaysRuns(i, live) == (live \ chg_flags(i)) \cup req_flags(i)
\* The flags alive before i, when those of live are after it.
Before(i, live) ==
  IF repe(i) THEN live \cup req_flags(i) \cup {"ZF"}
             ELSE (live \ chg_flags(i)) \cup req_flags(i)

\* One iteration of the pass; compile follows the last one.
Pass ==
  /\ n # Idle
  /\ want' = [want EXCEPT ![n] = flags]
  /\ flags' = Before(prog[n], flags)
  /\ decoded' = decoded \cup {n}
  /\ n' = IF n = first THEN Idle ELSE n - 1
  /\ UNCHANGED <<prog, first, runVars>>

\* The page of position k is taken apart, by the host or by a store.
Forget(k) ==
  /\ n = Idle /\ u = 1
  /\ decoded' = {d \in decoded : PageOf(d) # PageOf(k)}
  /\ decoded' # decoded
  /\ UNCHANGED <<prog, want, passVars, runVars>>

-----------------------------------------------------------------------------
(* The loop over bytecode *)

Running == n = Idle /\ pc \in decoded /\ u <= Len(Code)
At(op) == Running /\ Code[u].op = op
runOnly == UNCHANGED <<prog, decoded, want, passVars>>

Wanted(G) == {g \in G : g \cap want[pc] # {}}
WriteFlags(G) ==
  /\ stale' = stale \ UNION Wanted(G)
  /\ ahead' = ahead \cup UNION Wanted(G)
  /\ skipped' = skipped \cup UNION (G \ Wanted(G))

\* Flags are read, or memory is accessed without an exception.
Step ==
  /\ At("access") \/ At("use")
  /\ u' = u + 1
  /\ runOnly /\ UNCHANGED <<pc, stale, ahead, skipped>>

\* exception: the handler returns to the instruction, which starts again.
Fault ==
  /\ At("access")
  /\ u' = 1 /\ skipped' = {}
  /\ runOnly /\ UNCHANGED <<pc, stale, ahead>>

ComputeFlags ==
  /\ At("set") \/ At("counted")
  /\ WriteFlags(Code[u].groups)
  /\ u' = u + 1
  /\ runOnly /\ UNCHANGED pc

\* A count for which the word leaves its flags alone.
CountIdle ==
  /\ At("counted")
  /\ u' = u + 1
  /\ runOnly /\ UNCHANGED <<pc, stale, ahead, skipped>>

WriteAlways ==
  /\ At("always")
  /\ stale' = stale \ UNION Code[u].groups
  /\ ahead' = ahead \cup UNION Code[u].groups
  /\ u' = u + 1
  /\ runOnly /\ UNCHANGED <<pc, skipped>>

\* What an instruction, or an iteration of it, did is now the guest's state.
Commit == stale' = stale \cup skipped /\ ahead' = {} /\ skipped' = {}

EcxIs0(zero) ==
  /\ At("ifecx")
  /\ u' = IF zero THEN Len(Code) + 1 ELSE u + 1
  /\ runOnly /\ UNCHANGED <<pc, stale, ahead, skipped>>

\* Back to the operation, with a stop in between: an interrupt taken there
\* comes back through the beginning of the instruction.
Repeat(interrupt) ==
  /\ At("again")
  /\ u' = IF interrupt THEN 1 ELSE 2
  /\ Commit
  /\ runOnly /\ UNCHANGED pc

LeaveLoop ==
  /\ At("again")
  /\ u' = u + 1
  /\ runOnly /\ UNCHANGED <<pc, stale, ahead, skipped>>

\* update_eip, or the jump.
Retire ==
  /\ n = Idle /\ pc \in decoded /\ u = Len(Code) + 1
  /\ u' = 1
  /\ \/ branch(prog[pc]) /\ pc' \in Pos
     \/ pc' = IF pc = Len_ THEN 1 ELSE pc + 1
  /\ Commit
  /\ runOnly

Next ==
  \/ Decode \/ Pass \/ \E k \in Pos : Forget(k)
  \/ Step \/ Fault \/ ComputeFlags \/ CountIdle \/ WriteAlways
  \/ \E zero \in BOOLEAN : EcxIs0(zero)
  \/ \E interrupt \in BOOLEAN : Repeat(interrupt)
  \/ LeaveLoop \/ Retire

Spec == Init /\ [][Next]_vars

-----------------------------------------------------------------------------
(* What the pass relies on: INSTS_METADATA says the truth of the templates *)

Word == [op : {"access", "use", "set", "counted", "always", "ifecx", "again"},
         groups : SUBSET SUBSET Flags]

\* The pass takes f for dead before i, whatever comes after, or for alive.
Kills(i, f) == ~ repe(i) /\ f \in chg_flags(i) /\ f \notin req_flags(i)
Needs(i, f) == f \in req_flags(i) \/ (repe(i) /\ f = "ZF")

\* A flag that is read is needed; a branch has every flag anyway.
ReadsAreNeeded(i) ==
  \A k \in DOMAIN Template[i] : Template[i][k].op = "use" =>
    \A f \in UNION Template[i][k].groups :
      Needs(i, f) \/ (branch(i) /\ ~ Kills(i, f))
\* A flag the pass takes for dead is written on every path, when wanted.
KilledIsWritten(i) ==
  \A f \in Flags : Kills(i, f) =>
    \E k \in DOMAIN Template[i] : /\ Template[i][k].op \in {"set", "always"}
                                 /\ f \in UNION Template[i][k].groups
\* Only repeated instructions loop; they test a flag of theirs that is always
\* written, and omit none that they need.
LoopsAreRepeated(i) ==
  /\ \A k \in DOMAIN Template[i] :
       /\ Template[i][k].op \in {"ifecx", "again"} => repe(i)
       /\ Template[i][k].op = "again" => \A f \in UNION Template[i][k].groups :
            \E m \in 1 .. (k - 1) : /\ Template[i][m].op = "always"
                                   /\ f \in UNION Template[i][m].groups
       /\ repe(i) /\ Template[i][k].op \in {"set", "counted"} =>
            \A f \in UNION Template[i][k].groups : ~ Needs(i, f)
  /\ repe(i) => ~ branch(i) /\ Len(Template[i]) > 1 /\ Template[i][1].op = "ifecx"
Sound(i) == /\ Template[i] \in Seq(Word) /\ req_flags(i) \subseteq Flags
            /\ ReadsAreNeeded(i) /\ KilledIsWritten(i) /\ LoopsAreRepeated(i)
TableSound == \A i \in Insts : Sound(i)

\* An exception can start i again without i reading its own flags: it reads a
\* flag before it writes it, and cannot fail once it has written it.
Writes == {"set", "counted", "always"}
RestartsCleanly(i) ==
  \A k, m \in DOMAIN Template[i] :
    /\ Template[i][k].op = "use" /\ Template[i][m].op \in Writes
    /\ \E f \in UNION Template[i][k].groups : f \in UNION Template[i][m].groups
    => m > k /\ \A a \in DOMAIN Template[i] : a > m => Template[i][a].op # "access"

-----------------------------------------------------------------------------
TypeOK ==
  /\ prog \in [Pos -> Insts] /\ decoded \subseteq Pos
  /\ want \in [Pos -> SUBSET Flags]
  /\ n \in Pos \cup {Idle} /\ first \in Pos /\ flags \subseteq Flags
  /\ pc \in Pos /\ u \in 1 .. (Len(Code) + 1)
  /\ stale \subseteq Flags /\ ahead \subseteq Flags /\ skipped \subseteq Flags

Reads == IF Running /\ Code[u].op \in {"use", "again"}
         THEN UNION Code[u].groups ELSE {}

\* No instruction reads a flag whose computation was omitted, however the
\* program was cut into blocks and whatever was forgotten and decoded again.
ReadsAreComputed == Reads \cap stale = {}

\* A flag that is not up to date between two instructions will be written
\* before it is read, further on in the same straight line of code and in the
\* same page: the code that is executed next may have been decoded from another
\* starting point.
Dead(f, k) ==
  \E j \in k .. Len_ :
    /\ Kills(prog[j], f)
    /\ \A m \in k .. (j - 1) :
         ~ Needs(prog[m], f) /\ ~ branch(prog[m]) /\ PageOf(m) = PageOf(j)
StaleIsDead == u = 1 => \A f \in stale : Dead(f, pc)

\* When the straight line ends, at a jump or at the end of a page, every flag
\* has its value: what comes next may be any code.
JumpsLeaveNothingStale ==
  [][pc' # pc /\ (branch(prog[pc]) \/ PageOf(pc') # PageOf(pc))
       => stale' = {}]_vars

\* An exception restarts an instruction with the flags it had: it reads none
\* that its first attempt has written.  (A loop tests the ZF of its iteration.)
RestartReadsOriginal ==
  Running /\ Code[u].op = "use" => (UNION Code[u].groups) \cap ahead = {}

\* The same, but for the rotations through the carry, which write CF before
\* the result they have computed from it.
OnlyRotationsReadTheirOwnCarry ==
  prog[pc] \notin {"RCL", "RCR"} => RestartReadsOriginal
=============================================================================
