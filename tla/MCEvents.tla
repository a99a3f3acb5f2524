------------------------------ MODULE MCEvents ------------------------------
(***************************************************************************)
(* Five programs: repetition and HLT; the shadows, with a handler that may *)
(* fault; a block whose tail cannot be fetched after an instruction that   *)
(* raises an exception without an error code; a near call and an IRET with *)
(* nothing to return to; a handler that is never present.  Five contents   *)
(* of the IDT.                                                             *)
(***************************************************************************)
EXTENDS JitEvents

MCStrings ==
  {[prefix |-> "rep", words |-> compile_movs("rep")],
   [prefix |-> "rep", words |-> compile_ins("rep")],
   [prefix |-> "none", words |-> compile_outs("none")]}
  \cup Comparing("repe", {}) \cup Comparing("repne", {"OF", "CF"})
Lods == [prefix |-> "none", words |-> compile_lods]

MCPrograms ==
  {[main |-> <<"sti", "setcx", "string", "hlt", "jmp">>, handler |-> <<"iret">>,
    string |-> s] : s \in MCStrings}
  \cup
  {[main |-> <<"sti", "movss", "plain", "cli", "popf", "int", "jmp">>,
    handler |-> <<"load", "iret">>, string |-> Lods],
   [main |-> <<"sti", "ud", "edge", "jmp">>, handler |-> <<"string", "iret">>,
    string |-> Lods],
   [main |-> <<"sti", "call", "iret", "jmp">>, handler |-> <<"iret">>, string |-> Lods],
   [main |-> <<"sti", "hlt", "load", "jmp">>, handler |-> <<"absent">>,
    string |-> Lods]}

CallPrograms ==
  {[main |-> <<"plain", "plain", "call", "jmp">>, handler |-> <<"iret">>, string |-> Lods]}

AllGates(k) == [v \in Vectors |-> k]
MCGates ==
  {AllGates("int"), AllGates("trap"), AllGates("outside"),
   [AllGates("int") EXCEPT !["irq"] = "absent"],
   [AllGates("int") EXCEPT !["PF"] = "badsegment", !["soft"] = "absent"]}

IntGates == {AllGates("int")}

\* The return address of a fault is its instruction's, whatever the instruction, as
\* the comments of exception_body say: it is called before EIP is updated.
FaultAlwaysReportsItsInstruction == [][FaultReported({})]_vars

=============================================================================
