------------------------------ MODULE JitPages ------------------------------
(***************************************************************************)
(* The translation cache of jit.c: pages of decoded instructions, the two  *)
(* lists they are kept in, the decoder of a block, the loop that executes  *)
(* bytecode and the calls by which the host invalidates pages.             *)
(*                                                                         *)
(* The JIT runs in one thread, but the host answers a memory or port       *)
(* access of an instruction by invalidating pages, the one in execution    *)
(* included.  Each action below is a step between two such points.  A call *)
(* that removes several pages leaves in doomed the slots it has not        *)
(* reached yet, and nothing else runs until doomed is empty.               *)
(*                                                                         *)
(* CS has base 0 and paging is off, so EIP is the physical address.        *)
(***************************************************************************)
EXTENDS GuestIsa, Sequences, FiniteSets

CONSTANTS
  PageSize,       \* bytes of a page, 2^bits_page
  Areas,          \* sequence of [first, last]: page numbers of each area
  OverlapWindow,  \* the 16 of addr_changed and area_remapped
  MaxPages        \* pages malloc may hand out

NoPage == 0
Page == 1 .. MaxPages
NULL_ENTRY == 0
PAD_ENTRY == 1
NoEntry == -1     \* (uint32_t) -1, the first_entry of an empty page

Slot == UNION {Areas[i].first .. Areas[i].last : i \in DOMAIN Areas}
Offset == 0 .. (PageSize - 1)

ASSUME PagesAssumption ==
  /\ PageSize \in Nat /\ PageSize >= MaxLen
  /\ OverlapWindow \in Nat /\ OverlapWindow > MaxLen
  /\ MaxPages \in Nat
  /\ Areas \in Seq([first : Nat, last : Nat])
  /\ \A i \in DOMAIN Areas :
       /\ Areas[i].first <= Areas[i].last
       /\ i > 1 => Areas[i - 1].last < Areas[i].first

VARIABLES
  mem, eip, is32,            \* the guest
  map,                       \* _mem_map: the page of each slot
  next, prev, pages, pages_tail, free_pages, allocated,
  entries, first_entry, last_entry, overlap_next_page, v,   \* per page
  current_page, current_pos, lock_page, free_lock_page,
  pc, after,                 \* where the JIT is, where goto_eip returns to
  pos, dis, doomed

guestVars == <<mem, eip, is32>>
listVars == <<map, next, prev, pages, pages_tail, free_pages, allocated>>
pageVars == <<entries, first_entry, last_entry, overlap_next_page, v>>
runVars == <<current_page, current_pos, lock_page, free_lock_page>>
localVars == <<pc, after, pos, dis, doomed>>
vars == <<guestVars, listVars, pageVars, runVars, localVars>>

SlotOf(a) == a \div PageSize
OffsetOf(a) == a % PageSize

\* The page before s, when s is not the first page of its area.
Before(s) == {t \in Slot : t = s - 1 /\ \E i \in DOMAIN Areas :
                             {t, s} \subseteq Areas[i].first .. Areas[i].last}

(***************************************************************************)
(* Bytecode.  A word stands for the words compile emits up to the next     *)
(* point where the loop may stop: an instruction (with its bytes), the     *)
(* BC_INCn_EIP or BC_INCn_EIP_NOSTOP after it, or BC_GOTO_EIP.             *)
(***************************************************************************)
Blank == [ind |-> NULL_ENTRY, is32 |-> FALSE]
Inst(bytes) == [op |-> Kind[bytes[1]], bytes |-> bytes]
IncByOne(n, stop) == [op |-> "inc", len |-> 1, stop |-> stop]
Inc(n, stop) == [op |-> "inc", len |-> n, stop |-> stop]
GotoWord == [op |-> "goto"]

Branch(k) == k \in {"jump", "far", "halt"}
EndsBlock(k) == Branch(k) \/ k = "cr0"
OpOf(d) == Kind[d.bytes[1]]

compile(d) ==
  CASE OpOf(d) = "halt" -> <<Inc(Len(d.bytes), FALSE), Inst(d.bytes)>>
    [] OpOf(d) \in {"jump", "far"} -> <<Inst(d.bytes)>>
    [] OTHER -> <<Inst(d.bytes), Inc(Len(d.bytes), TRUE)>>

\* A final BC_INCn_EIP becomes BC_INCn_EIP_NOSTOP and BC_GOTO_EIP follows it.
WithGoto(code) ==
  Append([i \in DOMAIN code |->
            IF i = Len(code) /\ code[i].op = "inc"
            THEN [code[i] EXCEPT !.stop = FALSE] ELSE code[i]],
         GotoWord)

\* Positions count from 2: v[0] and v[1] are reserved.
WordAt(p, i) == v[p][i - 1]
Word == WordAt(lock_page, pos)

Init ==
  /\ mem = InitMem /\ eip \in Targets /\ is32 \in BOOLEAN
  /\ map = [s \in Slot |-> NoPage]
  /\ next = [p \in Page |-> NoPage] /\ prev = [p \in Page |-> NoPage]
  /\ pages = NoPage /\ pages_tail = NoPage /\ free_pages = NoPage
  /\ allocated = 0
  /\ entries = [p \in Page |-> [o \in Offset |-> Blank]]
  /\ first_entry = [p \in Page |-> NoEntry]
  /\ last_entry = [p \in Page |-> 0]
  /\ overlap_next_page = [p \in Page |-> 0]
  /\ v = [p \in Page |-> <<>>]
  /\ current_page = NoPage /\ current_pos = 0
  /\ lock_page = NoPage /\ free_lock_page = FALSE
  /\ pc = "idle" /\ after = "idle" /\ pos = 0 /\ dis = <<>> /\ doomed = {}

At(where) == pc = where /\ doomed = {}

-----------------------------------------------------------------------------
(***************************************************************************)
(* The page lists.                                                         *)
(***************************************************************************)

\* get_new_page, from the free list or from malloc.
NeverReuse == FALSE
Reuse == free_pages # NoPage
GetNewPage(s) ==
  LET p == IF Reuse THEN free_pages ELSE allocated + 1
      stale == first_entry[p] .. last_entry[p] IN
  /\ p \in Page
  /\ IF Reuse
     THEN /\ free_pages' = next[p]
          /\ entries' = [entries EXCEPT ![p] =
               [o \in Offset |-> IF first_entry[p] # NoEntry /\ o \in stale
                                 THEN Blank ELSE entries[p][o]]]
          /\ UNCHANGED allocated
     ELSE /\ allocated' = p
          /\ UNCHANGED <<free_pages, entries>>
  /\ first_entry' = [first_entry EXCEPT ![p] = NoEntry]
  /\ last_entry' = [last_entry EXCEPT ![p] = 0]
  /\ overlap_next_page' = [overlap_next_page EXCEPT ![p] = 0]
  /\ v' = [v EXCEPT ![p] = <<>>]
  /\ next' = [next EXCEPT ![p] = pages]
  /\ prev' = [q \in Page |-> IF q = p THEN NoPage
                             ELSE IF q = pages THEN p ELSE prev[q]]
  /\ pages' = p
  /\ pages_tail' = IF pages = NoPage THEN p ELSE pages_tail
  /\ map' = [map EXCEPT ![s] = p]
  /\ current_page' = p
  /\ UNCHANGED <<current_pos, lock_page, free_lock_page>>

\* A page goes to the free list at once unless exec_inst is running it.
AlwaysRelease(p) == TRUE
Releasable(p) == p # lock_page

\* remove_page.  pg and at are current_page and current_pos when it is called.
RemovePage(s, pg, at) ==
  LET p == map[s]
      n == next[p]
      b == prev[p] IN
  /\ map' = [map EXCEPT ![s] = NoPage]
  /\ current_page' = IF pg = p THEN NoPage ELSE pg
  /\ current_pos' = IF pg = p THEN 0 ELSE at
  /\ pages_tail' = IF n = NoPage THEN b ELSE pages_tail
  /\ pages' = IF b = NoPage THEN n ELSE pages
  /\ next' = [q \in Page |-> IF q = p /\ Releasable(p) THEN free_pages
                             ELSE IF q = b THEN n ELSE next[q]]
  /\ prev' = [q \in Page |-> IF q = p /\ Releasable(p) THEN NoPage
                             ELSE IF q = n THEN b ELSE prev[q]]
  /\ IF Releasable(p)
     THEN free_pages' = p /\ UNCHANGED free_lock_page
     ELSE free_lock_page' = TRUE /\ UNCHANGED free_pages
  /\ UNCHANGED <<allocated, lock_page>>

\* A call that removes pages goes on with the next one.
RemoveDoomed ==
  \E s \in doomed :
    /\ \A t \in doomed : s <= t
    /\ RemovePage(s, current_page, current_pos)
    /\ doomed' = doomed \ {s}
    /\ UNCHANGED <<guestVars, pageVars, pc, after, pos, dis>>

-----------------------------------------------------------------------------
(***************************************************************************)
(* What the host's calls remove.                                           *)
(***************************************************************************)
Mapped(S) == {s \in S \cap Slot : map[s] # NoPage}

OverlappingButLast(a) ==
  {t \in Mapped(Before(SlotOf(a))) :
     /\ OffsetOf(a) < OverlapWindow
     /\ OffsetOf(a) + 1 < overlap_next_page[map[t]]}

\* The page before the one of address a, if its last instruction reaches a.
OverlappingBefore(a) ==
  {t \in Mapped(Before(SlotOf(a))) :
     /\ OffsetOf(a) < OverlapWindow
     /\ OffsetOf(a) < overlap_next_page[map[t]]}

ChangedSparingLocked(a) ==
  {s \in Mapped({SlotOf(a)}) :
     map[s] # lock_page /\ entries[map[s]][OffsetOf(a)].ind # NULL_ENTRY}

\* IA32_jit_addr_changed(a).
ChangedSlots(a) ==
  IF Mapped({SlotOf(a)}) = {} THEN {}
  ELSE OverlappingBefore(a) \cup
       {s \in {SlotOf(a)} : entries[map[s]][OffsetOf(a)].ind # NULL_ENTRY}

\* IA32_jit_area_remapped(begin, last): tmp_b when the loop reaches area i.
InArea(a, i) == SlotOf(a) \in Areas[i].first .. Areas[i].last
CursorAtBegin(begin, last) == [i \in 1 .. Len(Areas) |-> begin]
Cursor(begin, last) ==
  LET c[i \in 1 .. Len(Areas)] ==
        IF i = 1 THEN begin
        ELSE IF c[i - 1] <= last /\ InArea(c[i - 1], i - 1)
             THEN Areas[i].first * PageSize ELSE c[i - 1]
  IN c

RemappedSlots(begin, last) ==
  LET c == Cursor(begin, last)
      hit == {i \in DOMAIN Areas : c[i] <= last /\ InArea(c[i], i)} IN
  UNION {OverlappingBefore(c[i]) \cup
         Mapped({s \in SlotOf(c[i]) .. SlotOf(last) : s <= Areas[i].last})
         : i \in hit}

\* The memory effect of a store or a remapping and the call that follows it.
HostStores(W) ==
  \E w \in W : mem' = Written(mem, w) /\ doomed' = ChangedSlots(w[1])
HostRemaps ==
  \E r \in Remaps : mem' = Filled(mem, r) /\ doomed' = RemappedSlots(r[1], r[2])

-----------------------------------------------------------------------------
(***************************************************************************)
(* Calls of the host between two instructions.                             *)
(***************************************************************************)

\* IA32_jit_exec_next_inst when no interrupt is accepted: exec_inst begins.
ExecNextInst ==
  /\ At("idle")
  /\ IF current_page = NoPage THEN pc' = "goto" /\ after' = "lock"
                              ELSE pc' = "lock" /\ UNCHANGED after
  /\ UNCHANGED <<guestVars, listVars, pageVars, runVars, pos, dis, doomed>>

\* IA32_jit_exec_next_inst when an interrupt is accepted.
Interrupt ==
  /\ At("idle")
  /\ HostStores(Push)
  /\ eip' = Handler /\ is32' = HandlerIs32
  /\ pc' = "goto" /\ after' = "idle"
  /\ UNCHANGED <<listVars, pageVars, runVars, pos, dis>>

HostWrite ==
  /\ At("idle")
  /\ \/ "write" \in HostCalls /\ HostStores(Stores)
     \/ "remap" \in HostCalls /\ HostRemaps
  /\ UNCHANGED <<eip, is32, listVars, pageVars, runVars, pc, after, pos, dis>>

\* IA32_jit_clear_areas.
ClearAreas ==
  /\ At("idle") /\ "clear" \in HostCalls
  /\ doomed' = Mapped(Slot)
  /\ UNCHANGED <<guestVars, listVars, pageVars, runVars, pc, after, pos, dis>>

\* IA32_jit_reset.
Reset ==
  /\ At("idle") /\ "reset" \in HostCalls
  /\ current_page' = NoPage /\ current_pos' = 0
  /\ UNCHANGED <<guestVars, listVars, pageVars, lock_page, free_lock_page,
                 localVars>>

-----------------------------------------------------------------------------
(***************************************************************************)
(* goto_eip_body: find, or decode, the bytecode of the instruction at EIP. *)
(***************************************************************************)
Eslot == SlotOf(eip)
Entry == entries[map[Eslot]][OffsetOf(eip)]
InSlot == At("goto") /\ Eslot \in Slot

\* The entry is the start of an instruction decoded in the present mode.
UsableInAnyMode(e) == e.ind > PAD_ENTRY
Usable(e) == e.ind > PAD_ENTRY /\ e.is32 = is32

OutOfRange ==
  /\ At("goto") /\ Eslot \notin Slot
  /\ pc' = "exit"
  /\ UNCHANGED <<guestVars, listVars, pageVars, runVars, after, pos, dis, doomed>>

NewPage ==
  /\ InSlot /\ map[Eslot] = NoPage
  /\ GetNewPage(Eslot)
  /\ UNCHANGED <<guestVars, localVars>>

Hit ==
  /\ InSlot /\ map[Eslot] # NoPage
  /\ Usable(Entry)
  /\ current_page' = map[Eslot] /\ current_pos' = Entry.ind
  /\ pc' = after
  /\ UNCHANGED <<guestVars, listVars, pageVars, lock_page, free_lock_page,
                 after, pos, dis, doomed>>

\* EIP is inside a decoded instruction, or was decoded in the other mode.
Stale ==
  /\ InSlot /\ map[Eslot] # NoPage
  /\ Entry.ind # NULL_ENTRY /\ ~Usable(Entry)
  /\ RemovePage(Eslot, map[Eslot], Entry.ind)
  /\ UNCHANGED <<guestVars, pageVars, localVars>>

\* dis_insts is called.
Decode ==
  LET p == map[Eslot]
      o == OffsetOf(eip) IN
  /\ InSlot /\ p # NoPage /\ Entry.ind = NULL_ENTRY
  /\ current_page' = p /\ current_pos' = NULL_ENTRY
  /\ first_entry' = [first_entry EXCEPT ![p] =
                       IF @ = NoEntry \/ o < @ THEN o ELSE @]
  /\ last_entry' = [last_entry EXCEPT ![p] = IF o > @ THEN o ELSE @]
  /\ dis' = <<>> /\ pc' = "dis"
  /\ UNCHANGED <<guestVars, listVars, entries, overlap_next_page, v, lock_page,
                 free_lock_page, after, pos, doomed>>

-----------------------------------------------------------------------------
(***************************************************************************)
(* dis_insts, one instruction of the block at a time.                      *)
(***************************************************************************)
DisAddr == IF dis = <<>> THEN eip
           ELSE dis[Len(dis)].addr + Len(dis[Len(dis)].bytes)
DisLen == InstLen[mem[DisAddr], is32]
DisEntry == entries[current_page][OffsetOf(DisAddr)]
Decodable == /\ DisAddr \in Fetchable
             /\ DisAddr .. (DisAddr + DisLen - 1) \subseteq Fetchable

LastDis == dis[Len(dis)]

\* The block is over: a branch, a write to CR0, the end of the page or an
\* instruction that is already decoded.
BlockEnds ==
  /\ dis # <<>>
  /\ \/ EndsBlock(OpOf(LastDis))
     \/ OffsetOf(LastDis.addr) + Len(LastDis.bytes) >= PageSize
     \/ DisEntry.ind > PAD_ENTRY

\* The block is ready to be compiled from position p->N on.  A fetch that faults
\* after some instructions ends it: the fault is left for the next time.
DisEnd ==
  /\ At("dis") /\ dis # <<>> /\ (BlockEnds \/ ~Decodable)
  /\ current_pos' = Len(v[current_page]) + 2
  /\ pc' = "compile"
  /\ UNCHANGED <<guestVars, listVars, pageVars, current_page, lock_page,
                 free_lock_page, after, pos, dis, doomed>>

CompileInst ==
  LET p == current_page
      e == OffsetOf(dis[1].addr) IN
  /\ At("compile") /\ dis # <<>>
  /\ entries' = [entries EXCEPT ![p][e].ind = Len(v[p]) + 2]
  /\ v' = [v EXCEPT ![p] = @ \o compile(dis[1])]
  /\ dis' = Tail(dis)
  /\ UNCHANGED <<guestVars, listVars, first_entry, last_entry,
                 overlap_next_page, runVars, pc, after, pos, doomed>>

\* A block that does not end in a branch ends in a BC_GOTO_EIP; goto_eip_body
\* returns with the first position of the block.
CompileEnd ==
  LET p == current_page IN
  /\ At("compile") /\ dis = <<>>
  /\ v' = [v EXCEPT ![p] =
             IF Branch(@[Len(@)].op) THEN @ ELSE WithGoto(@)]
  /\ pc' = after
  /\ UNCHANGED <<guestVars, listVars, entries, first_entry, last_entry,
                 overlap_next_page, runVars, after, pos, dis, doomed>>

\* The fetch of the first instruction faults.
DisFault ==
  /\ At("dis") /\ ~Decodable /\ dis = <<>>
  /\ RemovePage(Eslot, current_page, current_pos)
  /\ pc' = "exc"
  /\ UNCHANGED <<guestVars, pageVars, after, pos, dis, doomed>>

\* last_entry and overlap_next_page after an instruction of n bytes at offset e.
LastStart(e, n, last) == IF e + n >= PageSize THEN PageSize - 1 ELSE last
LastPast(e, n, last) == IF e + n >= PageSize THEN PageSize ELSE last
LastWithoutTail(e, n, last) ==
  IF e + n >= PageSize THEN PageSize - 1 ELSE IF e > last THEN e ELSE last
LastEntry(e, n, last) ==
  IF e + n >= PageSize THEN PageSize - 1
  ELSE IF e + n - 1 > last THEN e + n - 1 ELSE last
Overlap(e, n, overlap) == IF e + n >= PageSize THEN e + n - PageSize ELSE overlap

\* One more instruction.  Its bytes in the page are marked as padding up to the
\* first one already in use; if there is one the page is removed and goto_eip
\* starts again.
DisInst ==
  LET p == current_page
      e == OffsetOf(DisAddr)
      bytes == {o \in e .. (e + DisLen - 1) : o < PageSize}
      used == {o \in bytes : entries[p][o].ind # NULL_ENTRY}
      marked == {o \in bytes : \A u \in used : o < u} IN
  /\ At("dis") /\ ~BlockEnds /\ Decodable
  /\ entries' = [entries EXCEPT ![p] = [o \in Offset |->
       IF o \in marked THEN [ind |-> PAD_ENTRY, is32 |-> is32]
                       ELSE entries[p][o]]]
  /\ last_entry' = [last_entry EXCEPT ![p] = LastEntry(e, DisLen, @)]
  /\ overlap_next_page' = [overlap_next_page EXCEPT ![p] = Overlap(e, DisLen, @)]
  /\ IF used = {}
     THEN /\ dis' = Append(dis, [addr |-> DisAddr,
                bytes |-> [i \in 1 .. DisLen |-> mem[DisAddr + i - 1]]])
          /\ UNCHANGED <<listVars, runVars, pc>>
     ELSE /\ RemovePage(Eslot, current_page, current_pos)
          /\ dis' = <<>> /\ pc' = "goto"
  /\ UNCHANGED <<guestVars, first_entry, v, after, pos, doomed>>

-----------------------------------------------------------------------------
(***************************************************************************)
(* exception_body: the guest enters the handler and goto_eip is retried;   *)
(* the program ends when the exceptions nest too deep.                     *)
(***************************************************************************)
ExceptionBody ==
  /\ At("exc")
  /\ HostStores(Push)
  /\ eip' = Handler /\ is32' = HandlerIs32
  /\ pc' = "goto"
  /\ UNCHANGED <<listVars, pageVars, runVars, after, pos, dis>>

ExceptionGivesUp ==
  /\ At("exc")
  /\ pc' = "exit"
  /\ UNCHANGED <<guestVars, listVars, pageVars, runVars, after, pos, dis, doomed>>

-----------------------------------------------------------------------------
(***************************************************************************)
(* exec_inst: the loop over the bytecode of the locked page.               *)
(***************************************************************************)
Lock ==
  /\ At("lock")
  /\ lock_page' = current_page /\ pos' = current_pos
  /\ pc' = "run"
  /\ UNCHANGED <<guestVars, listVars, pageVars, current_page, current_pos,
                 free_lock_page, after, dis, doomed>>

Running(op) == At("run") /\ Word.op = op
Advance == pos' = pos + 1 /\ UNCHANGED <<pc, after>>
LeaveByGoto == pc' = "goto" /\ after' = "stop" /\ UNCHANGED pos

\* BC_HALT found again: _current_pos already points at it.
NeverHalting == FALSE
Halting == current_page # NoPage /\ current_pos = pos

ExecSeq ==
  /\ Running("seq")
  /\ Advance
  /\ UNCHANGED <<guestVars, listVars, pageVars, runVars, dis, doomed>>

ExecStore ==
  /\ Running("store")
  /\ HostStores(Stores)
  /\ Advance
  /\ UNCHANGED <<eip, is32, listVars, pageVars, runVars, dis>>

ExecOut ==
  /\ Running("out")
  /\ HostRemaps \/ UNCHANGED <<mem, doomed>>
  /\ Advance
  /\ UNCHANGED <<eip, is32, listVars, pageVars, runVars, dis>>

ExecCR0 ==
  /\ Running("cr0")
  /\ is32' \in BOOLEAN
  /\ Advance
  /\ UNCHANGED <<mem, eip, listVars, pageVars, runVars, dis, doomed>>

ExecJump ==
  /\ Running("jump")
  /\ eip' \in Targets
  /\ LeaveByGoto
  /\ UNCHANGED <<mem, is32, listVars, pageVars, runVars, dis, doomed>>

ExecFar ==
  /\ Running("far")
  /\ eip' \in Targets /\ is32' \in BOOLEAN
  /\ LeaveByGoto
  /\ UNCHANGED <<mem, listVars, pageVars, runVars, dis, doomed>>

\* The EIP a fault is reported with: BC_HALT takes its length back.
FaultAtCurrentEip == eip
FaultEip == IF Word.op = "halt" THEN eip - Len(Word.bytes) ELSE eip

\* The instruction raises an exception instead of executing.
ExecFault ==
  /\ At("run") /\ Word.op \in Kinds
  /\ Word.op = "halt" => ~Halting
  /\ eip' = FaultEip
  /\ pc' = "exc" /\ after' = "stop"
  /\ UNCHANGED <<mem, is32, listVars, pageVars, runVars, pos, dis, doomed>>

\* BC_INCn_EIP, BC_INCn_EIP_NOSTOP.
ExecInc ==
  /\ Running("inc")
  /\ eip' = eip + Word.len
  /\ IF Word.stop
     THEN current_pos' = pos + 1 /\ pc' = "stop" /\ UNCHANGED <<pos, after>>
     ELSE Advance /\ UNCHANGED current_pos
  /\ UNCHANGED <<mem, is32, listVars, pageVars, current_page, lock_page,
                 free_lock_page, dis, doomed>>

ExecGoto ==
  /\ Running("goto")
  /\ LeaveByGoto
  /\ UNCHANGED <<guestVars, listVars, pageVars, runVars, dis, doomed>>

\* BC_HALT: the next call finds it again.
ExecHalt ==
  /\ Running("halt")
  /\ current_pos' = pos
  /\ pc' = "stop"
  /\ UNCHANGED <<guestVars, listVars, pageVars, current_page, lock_page,
                 free_lock_page, after, pos, dis, doomed>>

\* The end of exec_inst: a page removed while it ran can be reused now.
Stop ==
  /\ At("stop")
  /\ IF free_lock_page
     THEN /\ prev' = [prev EXCEPT ![lock_page] = NoPage]
          /\ next' = [next EXCEPT ![lock_page] = free_pages]
          /\ free_pages' = lock_page
     ELSE UNCHANGED <<prev, next, free_pages>>
  /\ free_lock_page' = FALSE /\ lock_page' = NoPage
  /\ pc' = "idle" /\ pos' = 0
  /\ UNCHANGED <<guestVars, map, pages, pages_tail, allocated, pageVars,
                 current_page, current_pos, after, dis, doomed>>

Exited == pc = "exit" /\ UNCHANGED vars

-----------------------------------------------------------------------------
HostCall == ExecNextInst \/ Interrupt \/ HostWrite \/ ClearAreas \/ Reset
GotoEip == OutOfRange \/ NewPage \/ Hit \/ Stale \/ Decode
DisInsts == DisInst \/ DisFault \/ DisEnd \/ CompileInst \/ CompileEnd
Exec == \/ Lock \/ ExecSeq \/ ExecStore \/ ExecOut \/ ExecCR0 \/ ExecJump
        \/ ExecFar \/ ExecFault \/ ExecInc \/ ExecGoto \/ ExecHalt \/ Stop
JitStep == \/ RemoveDoomed \/ GotoEip \/ DisInsts
           \/ ExceptionBody \/ ExceptionGivesUp \/ Exec

Next == HostCall \/ JitStep \/ Exited
Spec == Init /\ [][Next]_vars

\* A call of the host runs to its end: the JIT is one synchronous thread.
FairSpec == Spec /\ WF_vars(JitStep)

-----------------------------------------------------------------------------
(***************************************************************************)
(* Properties.                                                             *)
(***************************************************************************)
Live == {map[s] : s \in Slot} \ {NoPage}
Deferred == IF free_lock_page THEN {lock_page} ELSE {}
Free == ((1 .. allocated) \ Live) \ Deferred
PageOrNone == Page \cup {NoPage}

ListTypeOK ==
  /\ map \in [Slot -> PageOrNone]
  /\ next \in [Page -> PageOrNone] /\ prev \in [Page -> PageOrNone]
  /\ {pages, pages_tail, free_pages} \subseteq PageOrNone
  /\ allocated \in 0 .. MaxPages
  /\ {current_page, lock_page} \subseteq PageOrNone
  /\ free_lock_page \in BOOLEAN
  /\ pc \in {"idle", "goto", "dis", "compile", "exc", "lock", "run", "stop", "exit"}
  /\ after \in {"idle", "lock", "stop"}
  /\ doomed \subseteq Slot

\* Types: among them, no index leaves the entries of a page.
TypeOK ==
  /\ ListTypeOK
  /\ mem \in [Addr -> Byte] /\ eip \in Nat /\ is32 \in BOOLEAN
  /\ entries \in [Page -> [Offset -> [ind : Nat, is32 : BOOLEAN]]]
  /\ first_entry \in [Page -> Offset \cup {NoEntry}]
  /\ last_entry \in [Page -> Offset]
  /\ overlap_next_page \in [Page -> 0 .. (MaxLen - 1)]
  /\ {current_pos, pos} \subseteq Nat

\* Every slot has a page of its own, and a page that a pending removal will
\* take is still there (the assertion of remove_page).
MapOK ==
  /\ \A s \in Slot : map[s] \in 0 .. allocated
  /\ \A s, t \in Slot : map[s] = map[t] /\ map[s] # NoPage => s = t
  /\ \A s \in doomed : map[s] # NoPage

\* The pages in use are linked both ways, between _pages and _pages_tail, and
\* no link of theirs leads to a page that was freed.
LiveListOK ==
  /\ {pages, pages_tail} \subseteq Live \cup {NoPage}
  /\ pages = NoPage <=> pages_tail = NoPage
  /\ \A p \in Live :
       /\ {next[p], prev[p]} \subseteq Live \cup {NoPage}
       /\ next[p] = NoPage <=> p = pages_tail
       /\ prev[p] = NoPage <=> p = pages
       /\ next[p] # NoPage => prev[next[p]] = p
       /\ prev[p] # NoPage => next[prev[p]] = p

\* The free list holds removed pages only, each of them once.
FreeListOK ==
  /\ free_pages \in Free \cup {NoPage}
  /\ \A p \in Free :
       /\ next[p] \in Free \cup {NoPage}
       /\ next[p] # NoPage => next[p] # free_pages
       /\ \A q \in Free : next[p] = next[q] /\ next[p] # NoPage => p = q

\* The page exec_inst runs is never reused under it: it is in the map, or its
\* release waits for the end of exec_inst.
LockOK ==
  /\ lock_page = NoPage => ~free_lock_page
  /\ lock_page # NoPage => /\ lock_page \in 1 .. allocated
                           /\ free_lock_page <=> lock_page \notin Live
  /\ current_page \in Live \cup {NoPage}

\* Where the JIT is tells whether a page is locked, and goto_eip works on the
\* page of EIP.
PhaseOK ==
  /\ pc \in {"lock", "dis", "compile"} => current_page # NoPage /\ doomed = {}
  /\ pc \in {"dis", "compile"} => Eslot \in Slot /\ map[Eslot] = current_page
  /\ pc \in {"idle", "lock"} => lock_page = NoPage
  /\ pc \in {"run", "stop"} => lock_page # NoPage
  /\ pc \in {"goto", "dis", "compile", "exc"} =>
       (lock_page # NoPage <=> after = "stop")

\* remove_page and get_new_page keep the two lists, the map and the lock
\* consistent: no removal, however nested in the execution of the page it
\* removes, frees a page twice or leaves a pointer to a page that was freed.
ListsConsistent == MapOK /\ LiveListOK /\ FreeListOK /\ LockOK
                   /\ PhaseOK

\* The pages met following next from p.
Chain(p) ==
  LET c[n \in 0 .. MaxPages] ==
        IF n = 0 THEN {p} \ {NoPage}
        ELSE c[n - 1] \cup ({next[q] : q \in c[n - 1]} \ {NoPage})
  IN c[MaxPages]

\* No page is lost: every page malloc returned can be reached from _pages (and
\* then some slot maps it) or from _free_pages, or waits for the end of
\* exec_inst; and there is never more than one page more than slots.
NoPageLost ==
  /\ Chain(pages) = Live
  /\ Chain(free_pages) = Free
  /\ allocated <= Cardinality(Slot) + 1

\* What get_new_page clears, first_entry..last_entry, covers every entry the
\* earlier life of the page left: a recycled page starts blank.
RecycledPageIsBlank ==
  \A p \in Page : \A o \in Offset :
    entries[p][o].ind # NULL_ENTRY =>
      first_entry[p] # NoEntry /\ o \in first_entry[p] .. last_entry[p]

\* The instruction decoded at offset o of page p, with the bytes it was decoded
\* from: BC_HALT comes after its BC_INCn_EIP_NOSTOP.
DecodedAt(p, o) ==
  LET w == WordAt(p, entries[p][o].ind) IN
  IF w.op = "inc" THEN WordAt(p, entries[p][o].ind + 1) ELSE w

Decoded(s) == IF map[s] = NoPage \/ s \in doomed THEN {}
              ELSE {o \in Offset : entries[map[s]][o].ind > PAD_ENTRY}
Settled == pc \in {"idle", "lock", "run", "stop", "goto"}

\* A page that no pending removal will take holds no instruction whose bytes
\* in the page were written after they were decoded, nor one decoded with
\* another length; the bytes it has in the next page are left aside.
CodeIsFresh ==
  Settled =>
    \A s \in Slot : \A o \in Decoded(s) :
      LET b == DecodedAt(map[s], o).bytes IN
      /\ Len(b) = InstLen[b[1], entries[map[s]][o].is32]
      /\ \A i \in 1 .. Len(b) :
           o + i <= PageSize => mem[s * PageSize + o + i - 1] = b[i]

\* The same for all the bytes of every instruction: "Elimina la pagina
\* anterior si te overlapping en eixa zona" (addr_changed).
OverlapIsFresh ==
  Settled =>
    \A s \in Slot : \A o \in Decoded(s) :
      LET b == DecodedAt(map[s], o).bytes IN
      \A i \in 1 .. Len(b) : mem[s * PageSize + o + i - 1] = b[i]

\* What RemapRemovesRange needs of the host: the code removes nothing of a range
\* that begins outside the areas.
RemapsBeginInAreas == \A r \in Remaps : SlotOf(r[1]) \in Slot /\ r[1] <= r[2]

\* What OverlapIsFresh needs of the areas: no instruction is fetched across the
\* end of one into the next.
AreasApart ==
  \A a \in Fetchable : SlotOf(a) - 1 \in Slot =>
    \E i \in DOMAIN Areas :
      {SlotOf(a) - 1, SlotOf(a)} \subseteq Areas[i].first .. Areas[i].last

\* What it needs of the stores: the code removes nothing when the page of the
\* address has no instruction, even if the page before has one that reaches it.
StoresFindCode ==
  \A w \in Stores \cup Push :
    mem' = Written(mem, w) /\ mem' # mem /\ ~HostRemaps =>
      OverlappingBefore(w[1]) = {} \/ Mapped({SlotOf(w[1])}) # {}

\* Remapping a range removes every page of the range: "Elimina totes les
\* pagines en el rang" (area_remapped).
RemapRemovesRange ==
  \A r \in Remaps :
    Mapped(SlotOf(r[1]) .. SlotOf(r[2])) \subseteq RemappedSlots(r[1], r[2])

\* Between two calls the position to resume at is the instruction at EIP,
\* decoded in the present mode, or the BC_GOTO_EIP that will look for it.
ResumesAtEip ==
  (At("idle") \/ At("lock")) /\ current_page # NoPage =>
    LET w == WordAt(current_page, current_pos)
        i == IF w.op = "inc" THEN WordAt(current_page, current_pos + 1) ELSE w IN
    \/ w.op \in {"goto", "halt"}
    \/ /\ SlotOf(eip) \in Slot /\ map[SlotOf(eip)] = current_page
       /\ entries[current_page][OffsetOf(eip)] =
            [ind |-> current_pos, is32 |-> is32]
       /\ i.op \in Kinds /\ i.bytes[1] = mem[eip]

-----------------------------------------------------------------------------
(***************************************************************************)
(* Refinement.  EIP is advanced by the word after the instruction, so the  *)
(* guest's EIP is already past an instruction whose BC_INCn_EIP is still   *)
(* to come, and has not reached a HLT whose BC_INCn_EIP came first.        *)
(***************************************************************************)
Halted ==
  /\ pc \in {"idle", "lock", "run", "stop"}
  /\ current_page # NoPage /\ current_pos > PAD_ENTRY
  /\ WordAt(current_page, current_pos).op = "halt"

GuestEip ==
  IF pc # "run" THEN eip
  ELSE CASE Word.op = "halt" -> IF Halted THEN eip ELSE eip - Len(Word.bytes)
         [] Word.op = "inc" ->
              IF pos < Len(v[lock_page]) + 1
                 /\ WordAt(lock_page, pos + 1).op = "halt" /\ ~Word.stop
              THEN eip ELSE eip + Word.len
         [] OTHER -> eip

Guest == INSTANCE GuestCpu WITH eip <- GuestEip, halted <- Halted

\* The cache is invisible: what the JIT executes is what a machine that decodes
\* every instruction from memory when it executes it could execute.
ImplementsGuest == Guest!Spec

\* What the HLT of the guest needs of the host: the code forgets that the guest
\* is halted when a call of the host removes the page of the HLT.
HaltKept == HostCalls # {} => \A b \in Byte : Kind[b] # "halt"

\* HLT lasts until an interrupt: "Bucle infinit" (BC_HALT).
HaltLastsUntilInterrupt == [][Halted => Halted' \/ Interrupt]_vars

\* Every call of the host returns, or the program exits: also when goto_eip has
\* to remove the page and start again because an instruction overlaps one that is
\* decoded, and when a fetch faults. The handler can be fetched; a handler that
\* cannot is EveryCallEnds of JitEvents.
CallsReturn == (pc \notin {"idle", "exit"}) ~> (pc \in {"idle", "exit"})

=============================================================================
