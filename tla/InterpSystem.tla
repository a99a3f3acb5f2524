---------------------------- MODULE InterpSystem ----------------------------
(***************************************************************************)
(* What the interpreter does to enter an interrupt handler, step by step,  *)
(* and the handlers that are neither arithmetic, data movement nor         *)
(* transfer of control.                                                    *)
(*                                                                         *)
(* The first part is the real-mode vector, gates to the same and to an     *)
(* inner level and out of virtual-8086 mode, task gates and the task       *)
(* switch: the steps of INT n, INT3 and INTO, of IRET from a nested task,  *)
(* and of every exception that another handler raises.  Paths on which the *)
(* source stops the program (errors found by switch_task, gates of 16 bits *)
(* out of virtual-8086 mode) are left out.                                 *)
(*                                                                         *)
(* The second part is decimal adjustment, flags, stack frames, segment and *)
(* table registers, descriptor queries, software interrupts and IRET.      *)
(***************************************************************************)
EXTENDS Operands

EFLAGS == Flags \cup SystemFlags
SetFlags(w) == Alu({}, w)

---------------------------------------------------------------------------
\* Room for three words, the three pushes with the flags cleared after the
\* first, then the vector.
interruption_real ==
  Check({"IDTR"}) ** Check({"ESP", "SS"})
  ** Alu(EFLAGS, {}) ** push16 ** SetFlags({"IF", "TF", "AC"})
  ** Alu({"CS"}, {}) ** push16 ** Alu({"EIP"}, {}) ** push16
  ** SysLoad({"IDTR", "mem"}) ** Alu({}, {"EIP"})
  ** SysLoad({"IDTR", "mem"}) ** Alu({}, {"CS"})

int_read_segment_descriptor ==
  Check({"GDTR", "LDTR"}) ** SysLoad({"GDTR", "LDTR", "descriptor"})
                          ** SysLoad({"GDTR", "LDTR", "descriptor"})

GateFlags == {{"IF", "TF", "NT", "VM", "RF"}, {"TF", "NT", "VM", "RF"}}
ClearGateFlags == UNION {SetFlags(w) : w \in GateFlags}

\* EFLAGS, CS and EIP are pushed, the last two after what precedes them.
PushReturn(push) ==
  Alu(EFLAGS, {}) ** push ** Alu({"CS"}, {}) ** push ** Alu({"EIP"}, {}) ** push

\* CS and EIP change before the error code is pushed.
IntraGate(push) ==
  PushReturn(push) ** set_segment_descriptor_access_bit
  ** Alu({}, {"CS"}) ** Alu({}, {"EIP"}) ** (Nop \cup push) ** ClearGateFlags

interruption_protected_intra_pl ==
  Check({"ESP", "SS"}) ** Check({"CS"}) ** (IntraGate(push32) \cup IntraGate(push16))

\* The stack of the inner level, from the TSS; the TSS may be of 16 bits.
InnerStack ==
  Check({"TR"}) ** SysLoad({"TR", "mem"}) ** SysLoad({"TR", "mem"})
  ** int_read_segment_descriptor ** Check({}) ** Check({}) ** Check({})

interruption_protected_from_vm86 ==
  InnerStack ** Alu(EFLAGS, {}) ** ClearGateFlags
  ** Alu({"SS", "ESP"}, {}) ** Alu({}, {"SS", "ESP"})
  ** Alu({"GS"}, {}) ** push32 ** Alu({"FS"}, {}) ** push32
  ** Alu({"DS"}, {}) ** push32 ** Alu({"ES"}, {}) ** push32
  ** push32 ** push32 ** push32
  ** Alu({"CS"}, {}) ** push32 ** Alu({"EIP"}, {}) ** push32 ** (Nop \cup push32)
  ** Alu({}, {"GS", "FS", "DS", "ES"}) ** Alu({}, {"CS"}) ** Alu({}, {"EIP"})

\* SS and ESP are those of the handler before the first of the pushes.
InterGate(push) ==
  Alu({"SS", "ESP"}, {"SS", "ESP"}) ** push ** push ** PushReturn(push)
  ** (Nop \cup push) ** ClearGateFlags ** Alu({}, {"CS"}) ** Alu({}, {"EIP"})

interruption_protected_inter_pl ==
  InnerStack ** (InterGate(push32) \cup InterGate(push16))

interruption_protected_trap_int_gate ==
  int_read_segment_descriptor ** Check({"CS", "VM"}) **
  (interruption_protected_inter_pl \cup interruption_protected_from_vm86
     \cup interruption_protected_intra_pl)

---------------------------------------------------------------------------
\* A data segment of the new task: a null selector, or its descriptor, whose
\* access bit may have to be set.
TaskSegment(seg, how) ==
  CASE how = "null" -> Alu({}, {seg})
    [] how = "accessed" -> int_read_segment_descriptor ** Check({"CS"})
                           ** load_segment_descriptor(seg)
    [] how = "not accessed" -> int_read_segment_descriptor ** Check({"CS"})
                               ** load_segment_descriptor(seg)
                               ** Unchecked("store", {"GDTR", "LDTR"}, {"descriptor"})

\* CS and SS of the new task are never null.
switch_task_set_sreg(seg, how) ==
  IF seg \in {"CS", "SS"} /\ how = "null" THEN Check({})
  ELSE TaskSegment(seg, how)

SaveTask ==
  LET Save(r) == Do("store", {"TR"} \cup r \cup Paging, {"mem"}, "aborts")
  IN Save({"EIP"}) ** Save(EFLAGS) ** Save({"EAX"}) ** Save({"ECX"}) ** Save({"EDX"})
     ** Save({"EBX"}) ** Save({"ESP"}) ** Save({"EBP"}) ** Save({"ESI"}) ** Save({"EDI"})
     ** Save({"ES"}) ** Save({"CS"}) ** Save({"SS"}) ** Save({"DS"}) ** Save({"FS"})
     ** Save({"GS"})

\* One register of the new task: its read may fault, then it changes.
LoadReg(r) == SysLoad({"TR", "mem"}) ** Alu({}, {r})
LoadSeg(seg, how) == SysLoad({"TR", "mem"}) ** switch_task_set_sreg(seg, how)

\* The outgoing task is saved, TR moves, the local table and the registers of
\* the incoming task are loaded one by one; CR3 comes after the segments,
\* EFLAGS last.  The segments take their alternatives together.
switch_task(links) ==
  LET Mark == SysStore({"GDTR"}, {"descriptor"})
  IN SysLoad({"GDTR", "descriptor"}) ** SysLoad({"GDTR", "descriptor"})
     ** SysLoad({"TR", "mem"}) ** SysLoad({"TR", "mem"})
     ** SysLoad({"mem"}) ** SysLoad({"mem"})
     ** SysLoad({"GDTR", "TR", "descriptor"}) ** Mark
     ** SaveTask
     ** SysLoad({"mem"})
     ** (IF links THEN SysStore({"TR"}, {"mem"}) ** Mark ELSE Nop)
     ** Alu({}, {"TR"}) ** SysLoad({"TR", "mem"})
     ** (Alu({}, {"LDTR"}) \cup int_read_segment_descriptor ** Alu({}, {"LDTR"}))
     ** LoadReg("EIP") ** LoadReg("EAX") ** LoadReg("ECX") ** LoadReg("EDX")
     ** LoadReg("EBX") ** LoadReg("ESP") ** LoadReg("EBP") ** LoadReg("ESI")
     ** LoadReg("EDI")
     ** (UNION {LoadSeg("CS", how) ** LoadSeg("SS", how) ** LoadSeg("ES", how)
                ** LoadSeg("DS", how) ** LoadSeg("FS", how) ** LoadSeg("GS", how) :
                  how \in {"accessed", "not accessed"}}
         \cup LoadSeg("CS", "accessed") ** LoadSeg("SS", "accessed")
              ** LoadSeg("ES", "null") ** LoadSeg("DS", "null")
              ** LoadSeg("FS", "null") ** LoadSeg("GS", "null"))
     ** SysLoad({"TR", "mem"}) ** Alu({"CR0", "CR3"}, {"CR3"}) ** SetFlags(EFLAGS)

interruption_protected_task_gate ==
  Check({}) ** switch_task(TRUE) ** (Nop \cup push32) ** Check({"CS", "EIP"})

---------------------------------------------------------------------------
\* The gate is read and checked, its type selects the way in.
interruption_protected ==
  Check({"IDTR"}) ** SysLoad({"IDTR", "mem"}) ** SysLoad({"IDTR", "mem"})
  ** Check({"CS"}) ** Check({})
  ** (interruption_protected_task_gate \cup interruption_protected_trap_int_gate)

\* A processor at rest wakes whether or not the handler can be entered.
interruption ==
  Alu({}, {"halted"}) ** Alu({"CR0"}, {}) ** (interruption_real \cup interruption_protected)

---------------------------------------------------------------------------

OnlyPriv == Check({"CR0", "VM", "CS"})
OnlyProtected == Check({"CR0", "VM"})

---------------------------------------------------------------------------
\* Accumulator and flags.
aad == Insn(<<"aad", "imm8">>, IB ** Alu({"EAX"}, {"EAX", "SF", "ZF", "PF"}))
aam == Insn(<<"aam", "imm8">>, IB ** Check({}) ** Alu({"EAX"}, {"EAX", "SF", "ZF", "PF"}))
aas == Insn(<<"aas", "">>, Alu({"EAX", "AF"}, {"EAX", "AF", "CF"}))
daa == Insn(<<"daa", "">>, Alu({"EAX", "AF", "CF"}, {"EAX"} \cup (Flags \ {"OF"})))
das == Insn(<<"das", "">>, Alu({"EAX", "AF", "CF"}, {"EAX"} \cup (Flags \ {"OF"})))
cbw_cwde == Insn(<<"cbw_cwde", "">>, OpSize(Alu({"EAX"}, {"EAX"}), Alu({"EAX"}, {"EAX"})))
cwd_cdq == Insn(<<"cwd_cdq", "">>, OpSize(Alu({"EAX"}, {"EDX"}), Alu({"EAX"}, {"EDX"})))
clc == Insn(<<"clc", "">>, Alu({}, {"CF"}))
cmc == Insn(<<"cmc", "">>, Alu({"CF"}, {"CF"}))
stc == Insn(<<"stc", "">>, Alu({}, {"CF"}))
cld == Insn(<<"cld", "">>, Alu({}, {"DF"}))
std == Insn(<<"std", "">>, Alu({}, {"DF"}))
lahf == Insn(<<"lahf", "">>, Alu(Flags, {"EAX"}))
sahf == Insn(<<"sahf", "">>, Alu({"EAX"}, Flags \ {"OF"}))
nop == Insn(<<"nop", "">>, Nop)
cpuid == Insn(<<"cpuid", "">>, Alu({"EAX"}, {"EAX", "EBX", "ECX", "EDX"}))

\* The interrupt flag: by level against IOPL, or its virtual image.
IfPermission == Check({"CR0", "VM", "CS", "IOPL", "CR4"})
cli == Insn(<<"cli", "">>, IfPermission ** Alu({}, {"IF"}))
sti == Insn(<<"sti", "">>, IfPermission ** Alu({"IF"}, {"IF"}))

clts == Insn(<<"clts", "">>, OnlyPriv ** Alu({"CR0"}, {"CR0"}))
hlt == Insn(<<"hlt", "">>, OnlyPriv ** Alu({}, {"halted"}))
wbinvd == Insn(<<"wbinvd", "">>, OnlyPriv)

---------------------------------------------------------------------------
\* BOUND reads the two bounds and then stops the program.
bound == Insn(<<"bound", "r_m">>,
              OpSize(IB ** get_addr_mode_r16(Load ** Load, Check({})),
                     IB ** get_addr_mode_r32(Load ** Load, Check({}))))

\* ENTER pushes the frame pointer, copies level-1 pointers of the enclosing
\* frames, walking EBP down, and pushes the new one.  Levels 0 to 3 stand for
\* 0 to 31.
EnterFrames(push) ==
  LET copy == Alu({"EBP"}, {"EBP"}) ** Load ** push
  IN Nop \cup push \cup copy ** push \cup copy ** copy ** push

enter_op(push) ==
  IW ** IB ** Alu({"EBP"}, {}) ** push ** Alu({"ESP"}, {}) ** EnterFrames(push)
  ** Alu({}, {"EBP"}) ** Alu({"ESP"}, {"ESP"})
enter == Insn(<<"enter", "imm16_imm8">>, OpSize(enter_op(push16), enter_op(push32)))

\* ESP takes EBP before the pop that may fault.
leave ==
  Insn(<<"leave", "">>, Alu({"EBP", "SS"}, {"ESP"})
                        ** OpSize(pop16, pop32) ** Alu({}, {"EBP"}))

pop_rm ==
  Insn(<<"pop", "rm">>, OpSize(get_addr_mode_r16(pop16 ** Store, pop16 ** Alu({}, Gprs)),
                               get_addr_mode_r32(pop32 ** Store, pop32 ** Alu({}, Gprs))))
pop_r == Insn(<<"pop", "r">>, Pop ** Alu({}, Gprs))

\* The selector is popped before it is known to be loadable.
pop_sreg(seg) == Insn(<<"pop", "sreg", seg>>, Pop ** set_sreg(seg))
pop_DS == pop_sreg("DS")
pop_ES == pop_sreg("ES")
pop_SS == pop_sreg("SS")
pop_FS == pop_sreg("FS")
pop_GS == pop_sreg("GS")

popa ==
  LET all(pop) == pop ** Alu({}, {"EDI"}) ** pop ** Alu({}, {"ESI"}) ** pop ** Alu({}, {"EBP"})
                  ** Alu({"ESP"}, {"ESP"})
                  ** pop ** Alu({}, {"EBX"}) ** pop ** Alu({}, {"EDX"})
                  ** pop ** Alu({}, {"ECX"}) ** pop ** Alu({}, {"EAX"})
  IN Insn(<<"popa", "">>, OpSize(all(pop16), all(pop32)))

\* In virtual-8086 mode the level is checked after the pop.
popf ==
  Insn(<<"popf", "">>, Pop ** (Alu({"VM", "CS", "IOPL"}, EFLAGS)
                               \cup Check({"VM", "IOPL"}) ** Alu({}, EFLAGS)))

push_rm ==
  Insn(<<"push", "rm">>, OpSize(get_addr_mode_r16(Load ** push16, Alu(Gprs, {}) ** push16),
                                get_addr_mode_r32(Load ** push32, Alu(Gprs, {}) ** push32)))
push_r == Insn(<<"push", "r">>, Alu(Gprs, {}) ** Push)
push_imm8 == Insn(<<"push", "imm8">>, IB ** Push)
push_imm == Insn(<<"push", "imm">>, OpSize(IW ** push16, ID ** push32))
push_sreg(seg) == Insn(<<"push", "sreg", seg>>, Alu({seg}, {}) ** Push)
push_CS == push_sreg("CS")
push_SS == push_sreg("SS")
push_DS == push_sreg("DS")
push_ES == push_sreg("ES")
push_FS == push_sreg("FS")
push_GS == push_sreg("GS")

\* ESP as it was at the beginning is the fifth register pushed.
pusha ==
  LET put(r, push) == Alu({r}, {}) ** push
      all(push) == Alu({"ESP"}, {}) ** put("EAX", push) ** put("ECX", push) ** put("EDX", push)
                   ** put("EBX", push) ** push ** put("EBP", push) ** put("ESI", push)
                   ** put("EDI", push)
  IN Insn(<<"pusha", "">>, OpSize(all(push16), all(push32)))

pushf == Insn(<<"pushf", "">>, Alu(EFLAGS, {}) ** Push)

---------------------------------------------------------------------------
\* Software interrupts.
int3 == Insn(<<"int3", "">>, interruption)
int_imm8 == Insn(<<"int", "imm8">>, IB ** interruption)
into == Insn(<<"into", "">>, Alu({"OF"}, {}) ** (Nop \cup interruption))

\* CS changes between the pops; EIP is checked when all three words are gone.
iret_real ==
  OpSize(pop16 ** pop16 ** Alu({}, {"CS"}) ** pop16, pop32 ** pop32 ** Alu({}, {"CS"}) ** pop32)
  ** SetFlags(EFLAGS) ** Alu({}, {"CS"}) ** Check({}) ** Alu({}, {"EIP"})

iret_v86 == Check({"IOPL"}) ** iret_real

\* The return to the same level only reads the descriptor and checks EIP.
iret_protected_same_pl ==
  read_segment_descriptor ** Check({}) ** Alu({"CS", "IOPL"}, EFLAGS) ** Alu({}, {"CS"})

\* EFLAGS changes before the stack segment is found to be good; the access
\* bits are left alone.
iret_protected_outer_pl ==
  OpSize(pop16 ** pop16, pop32 ** pop32)
  ** read_segment_descriptor ** Check({}) ** Alu({"CS", "IOPL"}, EFLAGS)
  ** read_segment_descriptor ** Check({}) ** Check({})
  ** Alu({}, {"SS"}) ** Alu({}, {"ESP"})
  ** Alu({"ES", "FS", "GS", "DS"}, {"ES", "FS", "GS", "DS"}) ** Alu({}, {"CS"})

\* Already in virtual-8086 mode the six words of the outer stack are popped.
iret_to_virtual8086_mode ==
  Check({"CS"}) ** Alu({}, {"CS"}) ** SetFlags(EFLAGS)
  ** pop32 ** pop32 ** pop32 ** Alu({}, {"ES"}) ** pop32 ** Alu({}, {"DS"})
  ** pop32 ** Alu({}, {"FS"}) ** pop32 ** Alu({}, {"GS"})
  ** Alu({}, {"SS"}) ** Alu({}, {"ESP"})

iret_protected ==
  SysLoad({"TR", "mem"}) ** switch_task(FALSE) ** Check({"CS", "EIP"})
  \cup OpSize(pop16 ** Alu({}, {"EIP"}) ** pop16 ** pop16,
              pop32 ** Alu({}, {"EIP"}) ** pop32 ** pop32)
       ** (iret_to_virtual8086_mode \cup iret_protected_outer_pl \cup iret_protected_same_pl)

iret == Insn(<<"iret", "">>,
             Alu({"CR0"}, {}) ** (iret_real
                                  \cup Alu({"VM"}, {}) ** iret_v86
                                  \cup Alu({"VM", "NT"}, {}) ** iret_protected))

---------------------------------------------------------------------------
\* Queries on a selector.  A descriptor that cannot be read gives the answer
\* "no"; when it was memory that failed the exception has been delivered too.
DescriptorQuery(yes) ==
  LET word == {"GDTR", "LDTR", "descriptor"} \cup Paging
      readable == Do("load", word, {}, "never")
      failing == Do("load", word, {}, "goes on")
      no == Alu({}, {"ZF"})
  IN Alu({"GDTR", "LDTR"}, {}) **
       (no \cup failing ** no \cup readable ** failing ** no
           \cup readable ** readable ** (Alu({"CS"}, {}) ** no \cup Alu({"CS"}, yes)))

Query(name) ==
  LET rest == DescriptorQuery(Gprs \cup {"ZF"})
      mem == OnlyProtected ** Load ** rest
      reg == OnlyProtected ** Alu(Gprs, {}) ** rest
  IN Insn(<<name, "r_rm">>, OpSize(IB ** get_addr_mode_r16(mem, reg),
                                   IB ** get_addr_mode_r32(mem, reg)))
lar == Query("lar")
lsl == Query("lsl")

\* VERR and VERW clear ZF before they read the descriptor.
verr_verw(name) ==
  LET rest == Alu({}, {"ZF"}) **
              (Nop \cup Alu({"GDTR", "LDTR"}, {})
                        ** SysLoad({"GDTR", "LDTR", "descriptor"})
                        ** SysLoad({"GDTR", "LDTR", "descriptor"})
                        ** (Nop \cup Alu({"CS"}, {"ZF"})))
  IN Insn(<<name, "rm16">>, get_addr_mode_r16(OnlyProtected ** Load ** rest,
                                              OnlyProtected ** Alu(Gprs, {}) ** rest))
verr == verr_verw("verr")
verw == verr_verw("verw")

---------------------------------------------------------------------------
\* The offset register changes after the segment.
lsreg_r_m16_off(name, seg) ==
  LET mem == Load ** Load ** set_sreg(seg) ** Alu({}, Gprs)
  IN Insn(<<name, "r_m16_off">>, OpSize(IB ** get_addr_mode_r16(mem, Check({})),
                                        IB ** get_addr_mode_r32(mem, Check({}))))
lds_r_m16_off == lsreg_r_m16_off("lds", "DS")
lss_r_m16_off == lsreg_r_m16_off("lss", "SS")
lfs_r_m16_off == lsreg_r_m16_off("lfs", "FS")
lgs_r_m16_off == lsreg_r_m16_off("lgs", "GS")
les_r_m16_off == lsreg_r_m16_off("les", "ES")

lea_r_m ==
  Insn(<<"lea", "r_m">>, OpSize(IB ** get_addr_mode_r16(Alu({}, Gprs), Check({})),
                                IB ** get_addr_mode_r32(Alu({}, Gprs), Check({}))))

\* LGDT and LIDT read their operand before they check the level.
LoadTable(name, table) ==
  Insn(<<name, "m16_32">>,
       get_addr_mode_r(Load ** Load ** OnlyPriv ** Alu({}, {table}), Check({})))
lgdt == LoadTable("lgdt", "GDTR")
lidt == LoadTable("lidt", "IDTR")

StoreTable(name, table) ==
  Insn(<<name, "m16_32">>, get_addr_mode_r(Alu({table}, {}) ** Store ** Store, Check({})))
sgdt == StoreTable("sgdt", "GDTR")
sidt == StoreTable("sidt", "IDTR")

\* LLDT with a null selector empties LDTR; the level is checked on the other
\* branch only.
lldt ==
  LET load == Check({}) ** read_segment_descriptor **
              (Alu({}, {"LDTR"})
               \cup Alu({}, {"LDTR"}) ** Check({"CS"}) ** Check({}) ** Check({})
                    ** Alu({}, {"LDTR"}))
  IN Insn(<<"lldt", "rm16">>, get_addr_mode_r16(OnlyProtected ** Load ** load,
                                                OnlyProtected ** Alu(Gprs, {}) ** load))

\* LTR marks TR as valid before it checks the level.
ltr ==
  LET load == Check({}) ** Check({}) ** read_segment_descriptor
              ** Alu({}, {"TR"}) ** Check({"CS"}) ** Check({}) ** Check({})
              ** Alu({}, {"TR"}) ** set_tss_segment_descriptor_busy_bit
  IN Insn(<<"ltr", "rm16">>, get_addr_mode_r16(OnlyProtected ** Load ** load,
                                               OnlyProtected ** Alu(Gprs, {}) ** load))

lmsw ==
  Insn(<<"lmsw", "rm16">>, get_addr_mode_r16(OnlyPriv ** Load ** Alu({"CR0"}, {"CR0"}),
                                             OnlyPriv ** Alu({"CR0"} \cup Gprs, {"CR0"})))

smsw == Insn(<<"smsw", "rm">>, get_addr_mode_r(Alu({"CR0"}, {}) ** Store, Alu({"CR0"}, Gprs)))
sldt == Insn(<<"sldt", "rm16">>, get_addr_mode_r16(Alu({"LDTR"}, {}) ** Store, Alu({"LDTR"}, Gprs)))
str == Insn(<<"str", "rm16">>,
            get_addr_mode_r16(OnlyProtected ** Alu({"TR"}, {}) ** Store,
                              OnlyProtected ** Alu({"TR"}, Gprs)))

---------------------------------------------------------------------------
\* Strings: LODS and STOS.
LodsBody == get_addr_dsesi ** Load ** Alu({}, {"EAX"})
            ** Alu({"ESI", "DF"}, {"ESI"}) ** TRY_REP
StosBody == Alu({"EDI", "EAX"}, {}) ** Store ** Alu({"EDI", "DF"}, {"EDI"}) ** TRY_REP

Strings(name, body) ==
  Insn(<<name, "b">>, RepCounterIsNot0(body))
  \cup Insn(<<name, "wd">>, OpSize(RepCounterIsNot0(body), RepCounterIsNot0(body)))
lods == Strings("lods", LodsBody)
stos == Strings("stos", StosBody)

\* The store may fault while the register still holds its value.
xchg_A_r == Insn(<<"xchg", "A_r">>, OpSize(Alu(Gprs, Gprs), Alu(Gprs, Gprs)))
xchg_r_rm ==
  LET mem == Load ** Alu(Gprs, {}) ** Store ** Alu({}, Gprs)
      reg == Alu(Gprs, Gprs)
  IN Insn(<<"xchg", "r8_rm8">>, IB ** get_addr_mode_r8(mem, reg))
     \cup Insn(<<"xchg", "r_rm">>, OpSize(IB ** get_addr_mode_r16(mem, reg),
                                          IB ** get_addr_mode_r32(mem, reg)))
xlatb == Insn(<<"xlatb", "">>, Alu({"EBX", "EAX"}, {}) ** Load ** Alu({}, {"EAX"}))

SystemInsns ==
  UNION {aad, aam, aas, daa, das, cbw_cwde, cwd_cdq, clc, cmc, stc, cld, std, lahf,
         sahf, nop, cpuid, cli, sti, clts, hlt, wbinvd, bound, enter, leave, pop_rm,
         pop_r, pop_DS, pop_ES, pop_SS, pop_FS, pop_GS, popa, popf, push_rm, push_r,
         push_imm8, push_imm, push_CS, push_SS, push_DS, push_ES, push_FS, push_GS,
         pusha, pushf, int3, int_imm8, into, iret, lar, lsl, verr, verw,
         lds_r_m16_off, lss_r_m16_off, lfs_r_m16_off, lgs_r_m16_off, les_r_m16_off,
         lea_r_m, lgdt, lidt, sgdt, sidt, lldt, ltr, lmsw, smsw, sldt, str, lods,
         stos, xchg_A_r, xchg_r_rm, xlatb}

=============================================================================
