----------------------------- MODULE StringOps ------------------------------
(***************************************************************************)
(* The bytecode of the string instructions, as jit_compile.h emits it.  A  *)
(* repeated instruction is one operation between a test of the count and a *)
(* decrement that goes back to the operation; both jump over a number of   *)
(* words that each compile_* function counts by hand.                      *)
(*                                                                         *)
(* A word is a record [w, n]: what it is, and the distance it holds.       *)
(***************************************************************************)
EXTENDS Naturals, Sequences, SequencesExt, FiniteSets

Word(w, n) == [w |-> w, n |-> n]
Op(w) == Word(w, 0)

\* The flags a comparison computes only when they are alive; ZF is always computed.
OptionalFlags == {"OF", "SF", "AF", "CF", "PF"}

\* BC_SET32_ESI_OFFSET and the read through the segment.
compile_read_si == <<Op("offset"), Op("read")>>
update_eip == <<Op("eip")>>

FlagWords(flags) == SetToSeq({Op(f) : f \in flags}) \o <<Op("ZF")>>

\* As cmps_words, without the word that is always there for ZF.
cmps_words_but_zf(flags) == 3 + Cardinality(flags)

cmps_words(flags) == 4 + Cardinality(flags)
scas_words(flags) == 2 + Cardinality(flags)

\* BC_INCIMM_PC_IF_ECX_IS_0 and BC_DECIMM_PC_IF_REPE32 take their distance from the
\* word after them.
Compared(prefix, nwords, op) ==
  IF prefix = "none" THEN op
  ELSE <<Op("incimm"), Word("imm", nwords + 2)>> \o op
       \o <<Op(prefix), Word("imm", nwords)>>

Repeated(prefix, skip, back, op) ==
  IF prefix = "none" THEN op ELSE <<Word("inc", skip)>> \o op \o <<Word("dec", back)>>

compile_cmps(prefix, flags) ==
  Compared(prefix, cmps_words(flags), compile_read_si \o <<Op("cmps")>> \o FlagWords(flags))
    \o update_eip
compile_scas(prefix, flags) ==
  Compared(prefix, scas_words(flags), <<Op("scas")>> \o FlagWords(flags)) \o update_eip
compile_movs(prefix) ==
  Repeated(prefix, 4, 3, compile_read_si \o <<Op("movs")>>) \o update_eip
compile_outs(prefix) ==
  Repeated(prefix, 4, 3, compile_read_si \o <<Op("outs")>>) \o update_eip
compile_stos(prefix) == Repeated(prefix, 2, 1, <<Op("stos")>>) \o update_eip
compile_ins(prefix) == Repeated(prefix, 2, 1, <<Op("ins")>>) \o update_eip
compile_lods == compile_read_si \o <<Op("lods")>> \o update_eip

(***************************************************************************)
(* A string instruction: its prefix and its words.                         *)
(***************************************************************************)
Plainly(prefix) ==
  {[prefix |-> prefix, words |-> ws] :
     ws \in {compile_movs(prefix), compile_outs(prefix), compile_stos(prefix),
             compile_ins(prefix)}}
Comparing(prefix, flags) ==
  {[prefix |-> prefix, words |-> ws] :
     ws \in {compile_cmps(prefix, flags), compile_scas(prefix, flags)}}

StringInsns ==
  Plainly("rep") \cup Plainly("none")
  \cup {[prefix |-> "none", words |-> compile_lods]}
  \cup UNION {Comparing(p, fs) : p \in {"repe", "repne", "none"}, fs \in SUBSET OptionalFlags}

\* What the word of the operation does, by the access it makes.
Comparisons == {"cmps", "scas"}
PortReads == {"ins"}      \* read a port, then write memory
Loads == {"lods"}
Writes == {"movs", "stos"}
PortWrites == {"outs"}

Applying == Comparisons \cup PortReads \cup Loads \cup Writes \cup PortWrites
\* The words that touch memory or a port, and may fault.
Faulting == Applying \ Loads
\* The words in which the host or a store may make the JIT drop the page under way.
Storing == Writes \cup PortReads \cup PortWrites

=============================================================================
