----------------------------- MODULE MCJitPages -----------------------------
(***************************************************************************)
(* Small instances of JitPages.  The guest's opcodes:                      *)
(*   n one byte, nothing to see     w one byte, a store                    *)
(*   m one byte in 16-bit mode, two in 32-bit mode                         *)
(*   j a jump     f a far jump, which may change the mode                  *)
(*   c a write to CR0     o a write to a port     h HLT                    *)
(***************************************************************************)
EXTENDS JitPages

MCKind == [b \in Byte |->
  CASE b = "w" -> "store" [] b = "j" -> "jump" [] b = "f" -> "far"
    [] b = "c" -> "cr0" [] b = "o" -> "out" [] b = "h" -> "halt"
    [] OTHER -> "seq"]
MCInstLen == [x \in Byte \X BOOLEAN |-> IF x[1] = "m" /\ x[2] THEN 2 ELSE 1]

\* One area of two pages.
OneArea == <<[first |-> 0, last |-> 1]>>

CoreByte == {"n", "m", "w", "j", "f"}
CoreMem == [a \in Addr |-> CASE a = 0 -> "w" [] a = 1 -> "m" [] a = 2 -> "n"
                             [] a = 3 -> "m" [] a = 4 -> "f" [] OTHER -> "j"]
CoreStores == {<<1, "n">>, <<1, "m">>, <<3, "f">>}
\* The same program with a two-byte instruction across the page boundary.
OverlapMem == [CoreMem EXCEPT ![2] = "m"]
CorePush == {<<1, "m">>}

\* Two areas with a hole between them; an instruction of page 2 may reach page
\* 3, and the last byte of page 3 cannot be fetched.
TwoAreas == <<[first |-> 0, last |-> 0], [first |-> 2, last |-> 3]>>
AreasByte == {"n", "m", "o", "c"}
AreasMem == [a \in Addr |-> CASE a = 0 -> "o" [] a = 4 -> "c" [] a = 5 -> "m"
                              [] OTHER -> "n"]
AreasRemaps == {<<0, 4, "n">>, <<6, 7, "c">>}
AreasPush == {<<1, "c">>}

\* HLT, with an interrupt to end it; code that is entered at the second byte of an
\* instruction (address 1) and then at the first, in 32-bit mode; a write to CR0
\* right before an instruction whose length depends on the mode, which in 32-bit
\* mode is that instruction and in 16-bit mode leaves the HLT to be met; after the
\* HLT address 6, which cannot be fetched. Stores and pushes remove the page in
\* execution, or nothing; the handler can always be fetched.
HaltByte == {"n", "m", "f", "h", "c", "w"}
HaltMem == [a \in Addr |-> CASE a = 1 -> "f" [] a = 2 -> "w" [] a = 3 -> "c"
                             [] a = 5 -> "h" [] a \in {0, 4} -> "m"
                             [] OTHER -> "n"]
OnePage == <<[first |-> 0, last |-> 0]>>
HaltStores == {<<0, "m">>, <<7, "n">>}
HaltPush == {<<0, "m">>, <<7, "n">>}

\* The hypotheses of the theorems of JitPagesProofs hold of every instance: the
\* host remaps from inside an area, and calls the cache between two instructions
\* only where the guest has no HLT; no instruction is fetched from one area into
\* the next.
ASSUME HostRemapsAreas == RemapsBeginInAreas
ASSUME HostLeavesHalt == HaltKept
ASSUME AreasAreApart == AreasApart

=============================================================================
