------------------------------ MODULE Paging32 ------------------------------
(***************************************************************************)
(* The pager of jit_pag.h and the linear memory functions over it.  The    *)
(* tables the guest has walked are kept in p32, and there is no INVLPG:    *)
(* every store through the pager calls paging_32b_addr_changed, which      *)
(* reloads what the store changed.  This module is PagedMemory with that   *)
(* cache between the guest and its tables.                                 *)
(*                                                                         *)
(* Addresses of tables are counted in frames, which they are aligned to.   *)
(***************************************************************************)
EXTENDS PageTables

VARIABLES mem, cr2, cr3, pg, reply, todo,   \* as in PagedMemory
          p32                               \* _pag32

vars == <<mem, cr2, cr3, pg, reply, todo, p32>>

L2 == [active : BOOLEAN, error : BOOLEAN, svm_addr : BOOLEAN,
       writing_allowed : BOOLEAN, base_addr : Frame]
L1 == [active : BOOLEAN, error : BOOLEAN, svm_addr : BOOLEAN,
       writing_allowed : BOOLEAN, base_addr : Frame, v4kB : [Index -> L2]]
Paging32b == [base_addr : Frame, addr_min : Nat, addr_max : Nat,
              a : Seq(Index), v : [Index -> L1]]

Inactive == [active |-> FALSE, error |-> FALSE, svm_addr |-> FALSE,
             writing_allowed |-> FALSE, base_addr |-> 0]
NoTable == [j \in Index |-> Inactive]      \* v4kB is NULL, or just allocated
InactiveL1 == [active |-> FALSE, error |-> FALSE, svm_addr |-> FALSE,
               writing_allowed |-> FALSE, base_addr |-> 0, v4kB |-> NoTable]

New == [base_addr |-> 0, addr_min |-> 0, addr_max |-> 0, a |-> <<>>,
        v |-> [i \in Index |-> InactiveL1]]

\* Every entry is inactive and holds no table.
Cleared(v) == [i \in Index |-> [v[i] EXCEPT !.active = FALSE, !.v4kB = NoTable]]

\* paging_32b_CR3_changed, with the new value of CR3.
CR3Changed(p, frame) ==
  [base_addr |-> frame, addr_min |-> frame, addr_max |-> frame + 1,
   a |-> <<>>, v |-> Cleared(p.v)]

-----------------------------------------------------------------------------
(***************************************************************************)
(* The tables the pager keeps.                                             *)
(***************************************************************************)

\* The range of addresses that hold a table grows with the table at frame.
NeverWiden(p, frame) == [p EXCEPT !.addr_min = @]
Widen(p, frame) ==
  [p EXCEPT !.addr_min = IF frame < @ THEN frame ELSE @,
            !.addr_max = IF frame + 1 > @ THEN frame + 1 ELSE @]

\* paging_32b_alloc_page: entry i is read from the directory.
WithEntry(p, m, i) ==
  LET pde == m[<<p.base_addr, i>>] IN
  IF pde.p
  THEN [Widen(p, pde.frame) EXCEPT
          !.v[i] = [active |-> TRUE, error |-> FALSE, svm_addr |-> ~pde.us,
                    writing_allowed |-> pde.rw, base_addr |-> pde.frame,
                    v4kB |-> NoTable]]
  ELSE [p EXCEPT !.v[i] = [@ EXCEPT !.active = TRUE, !.error = TRUE]]

AddAlways(p, m, i, add_actives) == [WithEntry(p, m, i) EXCEPT !.a = Append(@, i)]
AllocPage(p, m, i, add_actives) ==
  [WithEntry(p, m, i) EXCEPT !.a = IF add_actives THEN Append(@, i) ELSE @]

\* paging_32b_active_4kB: entry j of the table of entry i is read.
WithoutDirectoryRights(d, pte) ==
  [active |-> TRUE, error |-> ~pte.p, svm_addr |-> ~pte.us,
   writing_allowed |-> pte.rw, base_addr |-> pte.frame]
Entry4kB(d, pte) ==
  [active |-> TRUE, error |-> ~pte.p, svm_addr |-> ~pte.us \/ d.svm_addr,
   writing_allowed |-> pte.rw /\ d.writing_allowed, base_addr |-> pte.frame]

Active4kB(p, m, i, j) ==
  [p EXCEPT !.v[i].v4kB[j] =
     LET pte == m[<<p.v[i].base_addr, j>>] IN
     IF pte.p THEN Entry4kB(p.v[i], pte)
     ELSE [@ EXCEPT !.active = TRUE, !.error = TRUE]]

\* The levels paging_32b_translate activates for l.
WithDirectory(p, m, i) == IF p.v[i].active THEN p ELSE AllocPage(p, m, i, TRUE)
WithTable(p, m, i, j) ==
  IF p.v[i].error \/ p.v[i].v4kB[j].active THEN p ELSE Active4kB(p, m, i, j)
Activated(p, m, l) == WithTable(WithDirectory(p, m, l[1]), m, l[1], l[2])

\* paging_32b_check_access.
CheckAccess(ctx, svm_addr, writing_allowed, kind) ==
  LET explicit_svm == ctx.cpl < 3
      smap_ok == ctx.smap => ctx.ac /\ explicit_svm
  IN
  IF explicit_svm \/ ctx.implicit
  THEN \/ kind = "fetch" /\ (svm_addr \/ ~ctx.smep)
       \/ /\ kind = "write"
          /\ \/ svm_addr /\ (ctx.wp => writing_allowed)
             \/ ~svm_addr /\ ctx.wp /\ writing_allowed /\ smap_ok
             \/ ~svm_addr /\ ~ctx.wp /\ smap_ok
       \/ kind = "read" /\ (svm_addr \/ smap_ok)
  ELSE \/ kind = "fetch"
       \/ kind = "write" /\ ~svm_addr /\ writing_allowed
       \/ kind = "read" /\ ~svm_addr

\* What paging_32b_translate answers once the levels of part.l are active.
Translated(p, part) ==
  LET d == p.v[part.l[1]]
      t == d.v4kB[part.l[2]]
  IN  IF d.error \/ t.error THEN PageFault(part, FALSE)
      ELSE IF CheckAccess(part.ctx, t.svm_addr, t.writing_allowed, part.kind)
           THEN Reached(<<t.base_addr, part.l[3]>>)
           ELSE PageFault(part, TRUE)

(***************************************************************************)
(* paging_32b_addr_changed: the word w has been stored, m is the memory    *)
(* after it.                                                               *)
(***************************************************************************)

\* Entry i of the directory, when active, is read again, its table forgotten.
KeepTable(p, m, i) ==
  IF p.v[i].active
  THEN [WithEntry(p, m, i) EXCEPT !.v[i].v4kB = p.v[i].v4kB]
  ELSE p
Reload(p, m, i) ==
  IF p.v[i].active
  THEN AllocPage([p EXCEPT !.v[i] = [@ EXCEPT !.active = FALSE, !.v4kB = NoTable]],
                 m, i, FALSE)
  ELSE p

\* Positions in a of the tables at frame.
TablesAt(p, frame) ==
  {n \in 1 .. Len(p.a) : ~p.v[p.a[n]].error /\ p.v[p.a[n]].base_addr = frame}

\* Entry j of the table of entry i, when active, is read again.
Reload4kB(p, m, i, j) == IF p.v[i].v4kB[j].active THEN Active4kB(p, m, i, j) ELSE p

\* The pager becomes q.  Of the tables at an address only the first is reloaded.
InRange(p, frame) == frame \in p.addr_min .. (p.addr_max - 1)
AddrChanged(p, m, w, q) ==
  \/ ~InRange(p, w[1]) /\ q = p
  \/ InRange(p, w[1]) /\ w[1] = p.base_addr /\ q = Reload(p, m, w[2])
  \/ /\ InRange(p, w[1]) /\ w[1] # p.base_addr
     /\ \/ TablesAt(p, w[1]) = {} /\ q = p
        \/ \E n \in TablesAt(p, w[1]) :
             /\ \A k \in TablesAt(p, w[1]) : n <= k
             /\ q = Reload4kB(p, m, p.a[n], w[2])

-----------------------------------------------------------------------------
(***************************************************************************)
(* The accesses: mem_p32_* when paging is on, mem_readl* and mem_writel*   *)
(* when it is off.                                                         *)
(***************************************************************************)
Init ==
  /\ mem = InitMem /\ cr2 = <<0, 0, 0>> /\ cr3 = 0 /\ pg = FALSE
  /\ reply = Done /\ todo = <<>> /\ p32 = New

Store(part, p, w) ==
  IF part.kind = "write"
  THEN \E e \in Storable(mem, w) :
         /\ mem' = [mem EXCEPT ![w] = e]
         /\ IF pg THEN AddrChanged(p, mem', w, p32') ELSE p32' = p
  ELSE p32' = p /\ UNCHANGED mem

DoPaged(parts) ==
  LET part == Head(parts)
      p == Activated(p32, mem, part.l)
      r == Translated(p, part)
  IN  /\ pg
      /\ reply' = r
      /\ IF r.fault = "PF"
         THEN cr2' = part.l /\ todo' = <<>> /\ p32' = p /\ UNCHANGED mem
         ELSE todo' = Tail(parts) /\ Store(part, p, r.at) /\ UNCHANGED cr2
      /\ UNCHANGED <<cr3, pg>>

DoFlat(parts) ==
  LET part == Head(parts) IN
  /\ ~pg /\ Flat(part.l) \in Phys
  /\ reply' = Reached(Flat(part.l))
  /\ todo' = Tail(parts)
  /\ Store(part, p32, Flat(part.l))
  /\ UNCHANGED <<cr2, cr3, pg>>

Do(parts) == DoPaged(parts) \/ DoFlat(parts)

Access(op) == todo = <<>> /\ Do(Parts(op))

\* The second word of an operand; nothing runs between the two.
Continue == todo # <<>> /\ Do(todo)

-----------------------------------------------------------------------------
(***************************************************************************)
(* The control registers.  check_seg_level0 refuses the guest below        *)
(* level 0.                                                                *)
(***************************************************************************)
Privileged(ctx) == todo = <<>> /\ reply' = IF ctx.cpl = 0 THEN Done ELSE GeneralProtection

\* MOV CR3.
MovCR3(frame, ctx) ==
  /\ Privileged(ctx)
  /\ IF ctx.cpl = 0 THEN cr3' = frame /\ p32' = CR3Changed(p32, frame)
     ELSE UNCHANGED <<cr3, p32>>
  /\ UNCHANGED <<mem, cr2, pg, todo>>

\* The CR3 of the new task, at the end of switch_task.
SwitchTask(frame) ==
  /\ todo = <<>> /\ pg
  /\ cr3' = frame /\ p32' = CR3Changed(p32, frame)
  /\ UNCHANGED <<mem, cr2, pg, reply, todo>>

\* update_mem_callbacks, with the new CR0.PG: the pager starts empty.
Callbacks(on) == IF on /\ ~pg THEN CR3Changed(p32, cr3) ELSE p32

\* MOV CR0, in protected mode.
MovCR0(on, ctx) ==
  /\ Privileged(ctx)
  /\ IF ctx.cpl = 0 THEN pg' = on /\ p32' = Callbacks(on) ELSE UNCHANGED <<pg, p32>>
  /\ UNCHANGED <<mem, cr2, cr3, todo>>

\* BC_INVLPG does nothing.
Invlpg(ctx) == Privileged(ctx) /\ UNCHANGED <<mem, cr2, cr3, pg, todo, p32>>

\* dis_mem_read_trace: no exception is recorded, but CR2 and the cache are.
Trace(op) ==
  LET part == [l |-> op.l, kind |-> "fetch", ctx |-> op.ctx]
      p == Activated(p32, mem, op.l)
  IN  /\ todo = <<>>
      /\ cr2' = IF pg /\ Translated(p, part).fault = "PF" THEN op.l ELSE cr2
      /\ p32' = IF pg THEN p ELSE p32
      /\ UNCHANGED <<mem, cr3, pg, reply, todo>>

\* IA32_cpu_init and IA32_jit_reset: the cache is left until PG is set.
Reset ==
  /\ todo = <<>> /\ pg' = FALSE /\ cr3' = 0 /\ cr2' = <<0, 0, 0>>
  /\ UNCHANGED <<mem, reply, todo, p32>>

Next ==
  \/ \E op \in Operands : Access(op) \/ Trace(op)
  \/ Continue
  \/ \E ctx \in Contexts :
       \/ \E frame \in Directories : MovCR3(frame, ctx)
       \/ \E on \in BOOLEAN : MovCR0(on, ctx)
       \/ Invlpg(ctx)
  \/ \E frame \in Directories : SwitchTask(frame)
  \/ Reset

Spec == Init /\ [][Next]_vars

-----------------------------------------------------------------------------
(***************************************************************************)
(* Properties.                                                             *)
(***************************************************************************)

\* The pager is a Paging32b and memory holds entries: every index and address
\* the functions of jit_pag.h compute is within its array.
TypeOK ==
  /\ mem \in [Phys -> Entry] /\ cr2 \in Linear /\ cr3 \in Frame /\ pg \in BOOLEAN
  /\ todo \in Seq(Part) /\ p32 \in Paging32b

\* a lists each active entry of the directory once, so it never outgrows its
\* IA32_JIT_P32_L1_SIZE places and paging_32b_clear frees every table, however
\* often addr_changed turned an entry off and on again.
ActivesListed ==
  /\ \A n, k \in 1 .. Len(p32.a) : p32.a[n] = p32.a[k] => n = k
  /\ \A i \in Index : p32.v[i].active <=> \E n \in 1 .. Len(p32.a) : p32.a[n] = i
  /\ \A i \in Index : ~p32.v[i].active => p32.v[i].v4kB = NoTable

\* While paging is on, the directory and every table the pager keeps are in
\* [addr_min, addr_max), outside of which addr_changed looks for nothing.
TablesInRange ==
  pg => /\ p32.base_addr = cr3 /\ InRange(p32, cr3)
        /\ \A i \in Index : p32.v[i].active /\ ~p32.v[i].error =>
             InRange(p32, p32.v[i].base_addr)

\* What the entries of the pager should be, memory being what it is.
FreshL1(i) ==
  LET d == p32.v[i]
      pde == mem[<<cr3, i>>]
  IN  d.active => /\ d.error <=> ~pde.p
                  /\ pde.p => /\ d.svm_addr <=> ~pde.us
                              /\ d.writing_allowed <=> pde.rw
                              /\ d.base_addr = pde.frame
FreshL2(i, j) ==
  LET d == p32.v[i]
      t == d.v4kB[j]
      pte == mem[<<d.base_addr, j>>]
  IN  d.active /\ ~d.error /\ t.active =>
        /\ t.error <=> ~pte.p
        /\ pte.p => /\ t.svm_addr <=> ~pte.us \/ d.svm_addr
                    /\ t.writing_allowed <=> pte.rw /\ d.writing_allowed
                    /\ t.base_addr = pte.frame

\* While paging is on, what the pager keeps is what the tables in memory say:
\* paging_32b_addr_changed reloads what a store changed, as its comment has it.
TlbFresh == pg => \A i, j \in Index : FreshL1(i) /\ FreshL2(i, j)

\* The guest's tables are its own: no two present entries of the directory
\* share a table and none uses the directory as a table.
TablesPrivate ==
  \A i \in Index : mem[<<cr3, i>>].p =>
    /\ mem[<<cr3, i>>].frame # cr3
    /\ \A k \in Index : mem[<<cr3, k>>].p /\ k # i =>
         mem[<<cr3, k>>].frame # mem[<<cr3, i>>].frame

Memory == INSTANCE PagedMemory

\* A guest with private tables sees PagedMemory: the rights and the word every
\* access reaches are those of the tables in memory, and no cache shows.
ImplementsPagedMemory == Memory!Spec

=============================================================================
