------------------------------- MODULE Steps -------------------------------
(***************************************************************************)
(* A vocabulary for the handlers of guest instructions.  A handler is      *)
(* described by the set of paths it may take; a path is the sequence of    *)
(* steps one execution makes, in the order of the code.  A step names the  *)
(* components of the machine it reads and writes and says whether it may   *)
(* raise a fault instead of writing.  Most faults abort the handler; after *)
(* some the code has delivered the exception and yet goes on, after others *)
(* the caller raises a second one or nobody delivers the first.  Values    *)
(* are left out: what is kept is what is touched, in what order, and where *)
(* a handler may be cut short.                                             *)
(*                                                                         *)
(* a ** b is "a, then b" and a \cup b "a or b".                            *)
(***************************************************************************)
EXTENDS Naturals, Sequences, FiniteSets

Flags == {"CF", "PF", "AF", "ZF", "SF", "OF"}
SystemFlags == {"TF", "IF", "DF", "IOPL", "NT", "RF", "VM", "AC", "ID"}
Gprs == {"EAX", "ECX", "EDX", "EBX", "ESP", "EBP", "ESI", "EDI"}
Sregs == {"ES", "CS", "SS", "DS", "FS", "GS"}
SystemRegs == {"CR0", "CR2", "CR3", "CR4", "GDTR", "IDTR", "LDTR", "TR", "DR",
               "TLB", "halted", "descriptor"}
Fpu == {"st", "fstatus", "fcontrol", "fpointers"}
\* Memory by the role it plays: data, the stack, code, and devices.  (The
\* fields "mem" and "stack" of one instruction are taken not to overlap its
\* own bytes.)
Bus == {"mem", "stack", "code", "io"}
Component == Flags \cup SystemFlags \cup Gprs \cup Sregs \cup SystemRegs
               \cup Fpu \cup Bus \cup {"EIP"}

\* What every access to memory depends on besides its address.
Paging == {"CR0", "CR3", "CR4", "CS"}

\* Steps that read code bytes, and steps that only choose a branch.
\* ("disp": the bytes of an address, whose number it decides.)
Fetches == {"ib", "iw", "id", "disp"}
Tests == {"op16", "op32", "ad16", "ad32", "memory", "register"}
Kinds == Fetches \cup Tests \cup {"load", "store", "alu", "check"}

Faults == {"never", "aborts", "aborts twice", "goes on", "forgotten", "fails"}

Step == [kind : Kinds, r : SUBSET Component, w : SUBSET Component,
         fault : Faults]

a ** b == {s \o t : s \in a, t \in b}
Nop == {<<>>}
Do(kind, r, w, fault) == {<<[kind |-> kind, r |-> r, w |-> w, fault |-> fault]>>}

\* Alternatives the mode of the code or the prefixes of the instruction decide.
Test(kind) == Do(kind, {}, {}, "never")
OpSize(a16, a32) == Test("op16") ** a16 \cup Test("op32") ** a32
AdSize(a16, a32) == Test("ad16") ** a16 \cup Test("ad32") ** a32

\* Computation on registers, flags and values already read.
Alu(r, w) == Do("alu", r, w, "never")

\* A condition that raises an exception.
Check(r) == Do("check", r, {}, "aborts")

\* Data access through a segment; Sys accesses descriptor tables and the like.
Load == Do("load", {"mem"} \cup Sregs \cup Paging, {}, "aborts")
Store == Do("store", Sregs \cup Paging, {"mem"}, "aborts")
SysLoad(r) == Do("load", r \cup Paging, {}, "aborts")
SysStore(r, w) == Do("store", r \cup Paging, w, "aborts")

\* An access whose failure is only logged: the exception was delivered, the
\* handler carries on in the state the delivery left.
Unchecked(kind, r, w) == Do(kind, r \cup Paging, w, "goes on")

\* An access whose failure records an exception that nobody delivers.
Forgotten(kind, r, w) == Do(kind, r \cup Paging, w, "forgotten")

\* Where the code goes on differently when an access of that sort fails: the
\* access on the path of its failure, and on the path of its success.
Failing(kind, r) == Do(kind, r \cup Paging, {}, "fails")
Succeeding(kind, r) == Do(kind, r \cup Paging, {}, "never")

\* An instruction: every path of its handler under one name.
Insn(name, paths) == {[n |-> name, p |-> p] : p \in paths}

---------------------------------------------------------------------------
\* Seen from outside: what a path of a handler fetches besides an address, the
\* alternatives that led to it, and whether it ends in #UD because the operand
\* is a register.
Shape(p) ==
  LET Count(kind) == Cardinality({k \in DOMAIN p : p[k].kind = kind})
  IN [tests |-> {p[k].kind : k \in DOMAIN p} \cap Tests,
      bytes |-> Count("ib") + 2 * Count("iw") + 4 * Count("id"),
      rejects |-> \E k \in DOMAIN p : k + 1 = Len(p) /\ p[k].kind = "register"
                                         /\ p[k + 1].kind = "check"]

ShapesIn(handlers) ==
  [n \in {h.n : h \in handlers} |-> {Shape(h.p) : h \in {h \in handlers : h.n = n}}]

=============================================================================
