----------------------------- MODULE PagedMemory -----------------------------
(***************************************************************************)
(* What 32-bit paging promises a guest: every access walks the tables as   *)
(* they are in memory at that moment.  There is no cache, so there is      *)
(* nothing to flush.  It is how the interpreter pages: what is written     *)
(* here is page32_translate_addr and the mem_p32 functions of              *)
(* interpreter.c, so that the JIT's pager, which implements it, and the    *)
(* interpreter give a guest the same memory.                               *)
(***************************************************************************)
EXTENDS PageTables

VARIABLES mem, cr2, cr3, pg, reply, todo

vars == <<mem, cr2, cr3, pg, reply, todo>>

Init ==
  /\ mem = InitMem /\ cr2 = <<0, 0, 0>> /\ cr3 = 0 /\ pg = FALSE
  /\ reply = Done /\ todo = <<>>

\* The rights of a page of user or supervisor mode, with or without writing.
\* A user-mode fetch is not restricted.
Allowed(part, user, writable) ==
  LET ctx == part.ctx
      reachable == user /\ ctx.smap => ctx.ac /\ ctx.cpl < 3
  IN  IF Supervisor(ctx)
      THEN CASE part.kind = "fetch" -> user => ~ctx.smep
             [] part.kind = "read"  -> reachable
             [] part.kind = "write" -> reachable /\ (ctx.wp => writable)
      ELSE /\ part.kind = "read" => user
           /\ part.kind = "write" => user /\ writable

Pde(i) == mem[<<cr3, i>>]
Pte(i, j) == mem[<<Pde(i).frame, j>>]

Walk(part) ==
  LET l == part.l
      pde == Pde(l[1])
      pte == Pte(l[1], l[2])
  IN  IF ~pde.p \/ ~pte.p THEN PageFault(part, FALSE)
      ELSE IF Allowed(part, pde.us /\ pte.us, pde.rw /\ pte.rw)
           THEN Reached(<<pte.frame, l[3]>>)
           ELSE PageFault(part, TRUE)

Answer(part) == IF pg THEN Walk(part) ELSE Reached(Flat(part.l))

\* The first of parts; a fault abandons the others.
Do(parts) ==
  LET part == Head(parts)
      r == Answer(part)
  IN  /\ ~pg => Flat(part.l) \in Phys
      /\ reply' = r
      /\ IF r.fault = "PF"
         THEN cr2' = part.l /\ todo' = <<>> /\ UNCHANGED mem
         ELSE /\ todo' = Tail(parts)
              /\ IF part.kind = "write"
                 THEN \E e \in Storable(mem, r.at) : mem' = [mem EXCEPT ![r.at] = e]
                 ELSE UNCHANGED mem
              /\ UNCHANGED cr2
      /\ UNCHANGED <<cr3, pg>>

Access(op) == todo = <<>> /\ Do(Parts(op))

Continue == todo # <<>> /\ Do(todo)

Privileged(ctx) == todo = <<>> /\ reply' = IF ctx.cpl = 0 THEN Done ELSE GeneralProtection

MovCR3(frame, ctx) ==
  /\ Privileged(ctx)
  /\ cr3' = IF ctx.cpl = 0 THEN frame ELSE cr3
  /\ UNCHANGED <<mem, cr2, pg, todo>>

SwitchTask(frame) ==
  /\ todo = <<>> /\ pg /\ cr3' = frame
  /\ UNCHANGED <<mem, cr2, pg, reply, todo>>

MovCR0(on, ctx) ==
  /\ Privileged(ctx)
  /\ pg' = IF ctx.cpl = 0 THEN on ELSE pg
  /\ UNCHANGED <<mem, cr2, cr3, todo>>

Invlpg(ctx) == Privileged(ctx) /\ UNCHANGED <<mem, cr2, cr3, pg, todo>>

\* A tracer that reads the guest's code leaves the address in CR2.
Trace(op) ==
  LET part == [l |-> op.l, kind |-> "fetch", ctx |-> op.ctx] IN
  /\ todo = <<>>
  /\ cr2' = IF Answer(part).fault = "PF" THEN op.l ELSE cr2
  /\ UNCHANGED <<mem, cr3, pg, reply, todo>>

Reset ==
  /\ todo = <<>> /\ pg' = FALSE /\ cr3' = 0 /\ cr2' = <<0, 0, 0>>
  /\ UNCHANGED <<mem, reply, todo>>

Next ==
  \/ \E op \in Operands : Access(op) \/ Trace(op)
  \/ Continue
  \/ \E ctx \in Contexts :
       \/ \E frame \in Directories : MovCR3(frame, ctx)
       \/ \E on \in BOOLEAN : MovCR0(on, ctx)
       \/ Invlpg(ctx)
  \/ \E frame \in Directories : SwitchTask(frame)
  \/ Reset

Spec == Init /\ [][Next]_vars

=============================================================================
