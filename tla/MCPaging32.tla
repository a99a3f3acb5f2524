----------------------------- MODULE MCPaging32 -----------------------------
(***************************************************************************)
(* Small instances of Paging32.  Two entries a table, four frames: frame 0 *)
(* is a directory, frames 1 and 2 its tables, frame 3 data or a second     *)
(* directory.                                                              *)
(***************************************************************************)
EXTENDS Paging32

E(frame, rw, us) == [p |-> TRUE, rw |-> rw, us |-> us, frame |-> frame]
Absent == [p |-> FALSE, rw |-> FALSE, us |-> FALSE, frame |-> 0]

\* The directory and the first table are mapped, so the guest edits them.
MCInitMem == [w \in Phys |->
  CASE w = <<0, 0>> -> E(1, TRUE, TRUE)
    [] w = <<1, 0>> -> E(0, TRUE, TRUE)
    [] w = <<1, 1>> -> E(1, TRUE, FALSE)
    [] w = <<2, 0>> -> E(3, TRUE, TRUE)
    [] w = <<3, 0>> -> E(2, FALSE, TRUE)
    [] OTHER -> Absent]

\* Each word only takes entries that keep the tables private.
MCStored == {<<<<0, 0>>, E(1, FALSE, FALSE)>>, <<<<0, 1>>, E(2, TRUE, TRUE)>>,
             <<<<1, 0>>, Absent>>, <<<<1, 1>>, E(2, TRUE, TRUE)>>,
             <<<<2, 0>>, E(1, TRUE, FALSE)>>}

\* The second entry of the directory may map the directory itself.
SelfMapped == {<<<<0, 1>>, E(0, TRUE, TRUE)>>, <<<<0, 0>>, E(1, TRUE, FALSE)>>}

Ctx(cpl, implicit, wp) ==
  [cpl |-> cpl, implicit |-> implicit, wp |-> wp,
   smep |-> FALSE, smap |-> FALSE, ac |-> FALSE]
Level0 == Ctx(0, FALSE, TRUE)
Level3 == Ctx(3, FALSE, TRUE)
System == Ctx(3, TRUE, FALSE)
MCContexts == {Level0, Level3}

Op(l, kind, ctx, odd, straddles) ==
  [l |-> l, kind |-> kind, ctx |-> ctx, odd |-> odd, straddles |-> straddles]

\* Stores to the directory, to both tables and across two pages; reads of the
\* processor and of user mode, and a fetch.
MCOperands == {
  Op(<<0, 0, 0>>, "write", Level0, FALSE, FALSE),
  Op(<<0, 0, 1>>, "write", Level0, FALSE, TRUE),
  Op(<<0, 1, 1>>, "write", Level3, FALSE, TRUE),
  Op(<<1, 0, 0>>, "read", System, FALSE, FALSE),
  Op(<<1, 0, 0>>, "read", System, TRUE, FALSE),
  Op(<<1, 1, 1>>, "fetch", Level3, FALSE, TRUE)}

=============================================================================
