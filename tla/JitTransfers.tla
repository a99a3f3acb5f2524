---------------------------- MODULE JitTransfers ----------------------------
(***************************************************************************)
(* The functions of jit_exec.h that the JIT's words call for the stack,    *)
(* segment registers, far transfers, interrupts and task switches, step by *)
(* step.  They differ from the interpreter's in two ways.  A helper that   *)
(* fails records the exception and answers false; the word delivers it, so *)
(* a failure whose answer nobody looks at stays recorded.  And EIP is not  *)
(* advanced until the end of the instruction, but not restored either.     *)
(* Paths on which the source stops the program (descriptors that expand    *)
(* down, gates and TSS that remain to be implemented, errors found by      *)
(* switch_task) are left out.                                              *)
(***************************************************************************)
EXTENDS Steps

EFLAGS == Flags \cup SystemFlags
ProtectedMode == Alu({"CR0", "VM"}, {})
SetEIP == Alu({}, {"EIP"})
Load_CS == Alu({}, {"CS"})

---------------------------------------------------------------------------
\* IF (or its virtual copy) if the privilege level allows it.
cli == Check({"CR0", "CR4", "VM", "IOPL", "CS"}) ** Alu({}, {"IF"})
sti == Check({"CR0", "CR4", "VM", "IOPL", "CS", "IF"}) ** Alu({}, {"IF"})

load_segment_descriptor(seg) == Alu({}, {seg})

\* The limits of the table, then two words.
read_segment_descriptor ==
  Check({"GDTR", "LDTR"}) ** SysLoad({"GDTR", "LDTR", "descriptor"})
                          ** SysLoad({"GDTR", "LDTR", "descriptor"})

\* The access bit is set when it is clear.  A failing write prints a warning.
set_segment_descriptor_access_bit ==
  Nop \cup Forgotten("store", {"GDTR", "LDTR"}, {"descriptor"})

\* Limits, access, and only then the pointer.
PushWord == Do("store", {"ESP", "SS"} \cup Paging, {"stack"}, "aborts") ** Alu({"ESP"}, {"ESP"})
PopWord == Do("load", {"ESP", "SS", "stack"} \cup Paging, {}, "aborts") ** Alu({"ESP"}, {"ESP"})
push32 == PushWord
push16 == PushWord
pop32_protected == PopWord
pop32_nonprotected == PopWord
pop32 == ProtectedMode ** (pop32_protected \cup pop32_nonprotected)
pop16_protected == PopWord
pop16_nonprotected == PopWord
pop16 == ProtectedMode ** (pop16_protected \cup pop16_nonprotected)
Push == OpSize(push16, push32)
Pop == OpSize(pop16, pop32)

\* The value is popped before virtual-8086 mode may refuse it.
PoppedFlags(kept) ==
  Alu({"VM"} \cup {"CS", "IOPL"}, {}) **
  (Nop \cup Check({"CR4", "IOPL"})) ** Alu(EFLAGS, EFLAGS \ kept)
pop32_eflags == pop32 ** PoppedFlags({"VM"})
pop16_eflags == pop16 ** PoppedFlags({"VM", "RF", "AC", "ID"})

---------------------------------------------------------------------------
\* Far JMP and CALL.  An answer of false is passed up to the word.
call_jmp_far_protected_code(is_call) ==
  Check({"CS"}) ** Check({}) **
  (IF is_call
     THEN Check({"SS", "ESP"}) ** Check({}) **
          OpSize(Alu({"CS"}, {}) ** push16 ** push16, Alu({"CS"}, {}) ** push32 ** push32)
     ELSE Check({}))
  ** set_segment_descriptor_access_bit ** Load_CS ** SetEIP

\* SS and ESP are those of the inner level before the first of the pushes.
call_far_protected_gate_more_pl ==
  Check({"TR"}) ** SysLoad({"TR", "mem"}) ** SysLoad({"TR", "mem"})
  ** Check({}) ** read_segment_descriptor ** Check({}) ** Check({}) ** Check({})
  ** set_segment_descriptor_access_bit ** set_segment_descriptor_access_bit
  ** Alu({"SS", "ESP"}, {"SS", "ESP"})
  ** push32 ** push32 ** Alu({"CS"}, {}) ** push32 ** push32
  ** Load_CS ** SetEIP

call_far_protected_gate ==
  Check({"CS"}) ** Check({}) ** Check({}) ** read_segment_descriptor
  ** Check({"CS"}) ** Check({}) ** call_far_protected_gate_more_pl

call_jmp_far_protected(is_call) ==
  Check({}) ** read_segment_descriptor **
  ( Check({})
    \cup call_jmp_far_protected_code(is_call)
    \cup IF is_call THEN call_far_protected_gate ELSE {} )

jmp_far_nonprotected == Check({}) ** Load_CS ** SetEIP
jmp_far == ProtectedMode ** (call_jmp_far_protected(FALSE) \cup jmp_far_nonprotected)

\* The target is compared with the limits of the code segment.
jmp_near == Check({"CS"}) ** SetEIP

call_far_nonprotected ==
  Check({"SS", "ESP"}) ** Alu({"CS"}, {}) ** push16 ** push16 ** Load_CS ** SetEIP
call_far == ProtectedMode ** (call_jmp_far_protected(TRUE) \cup call_far_nonprotected)

---------------------------------------------------------------------------
\* CS cannot be loaded; SS takes no null selector; every descriptor that is
\* loaded is marked afterwards.
set_sreg(seg) ==
  LET Null == Alu({}, {seg})
      Descriptor == read_segment_descriptor ** Check({"CS"}) ** Check({})
                    ** load_segment_descriptor(seg) ** set_segment_descriptor_access_bit
      Protected == IF seg = "CS" THEN Check({})
                   ELSE IF seg = "SS" THEN Check({}) ** Descriptor
                   ELSE Null \cup Descriptor
  IN ProtectedMode ** (Protected \cup Alu({}, {seg}))

\* A bit of the map that says no and a read that fails give the same answer:
\* io_check_permission raises #GP over the exception of the read, which is lost.
check_io_permission_bit_map(then, else) ==
  LET Read == Succeeding("load", {"TR", "mem"})
      Fail == Failing("load", {"TR", "mem"})
  IN (Read ** Read \cup Read ** Read ** Read) ** (then \cup else)
     \cup (Fail \cup Read ** Fail \cup Read ** Read ** Fail) ** else
io_check_permission(then) ==
  Alu({"CR0", "CS", "IOPL", "VM"}, {})
  ** (then \cup check_io_permission_bit_map(then, Check({"TR"})))

check_seg_level0 == Check({"CS", "CR0", "VM"})
check_seg_level0_novm == Check({"CS", "CR0", "VM"})

---------------------------------------------------------------------------
\* IRET.  EIP is popped where it is used, before anything is checked.
AnyPop == pop16 \cup pop32
ReadCode == read_segment_descriptor ** Check({"EIP"})
SetFlags == Alu({"CS", "IOPL"}, EFLAGS)

iret_protected_same_pl == ReadCode ** SetFlags ** Load_CS

\* The flags are those of the outer level before its stack has been checked.
iret_protected_outer_pl ==
  AnyPop ** AnyPop ** ReadCode ** SetFlags
  ** read_segment_descriptor ** Check({}) ** Check({})
  ** Alu({}, {"SS"}) ** Alu({}, {"ESP"})
  ** Alu({"ES", "FS", "GS", "DS"}, {"ES", "FS", "GS", "DS"}) ** Load_CS

\* CS and VM change before the remaining six words are popped.
iret_to_virtual8086_mode ==
  Check({"EIP", "CS"}) ** Load_CS ** Alu({}, EFLAGS)
  ** pop32 ** pop32 ** pop32 ** Alu({}, {"ES"}) ** pop32 ** Alu({}, {"DS"})
  ** pop32 ** Alu({}, {"FS"}) ** pop32 ** Alu({}, {"GS"})
  ** Alu({}, {"SS"}) ** Alu({}, {"ESP"})

iret_protected(switch_task) ==
  Alu({"NT"}, {}) **
  ( SysLoad({"TR", "mem"}) ** switch_task ** Check({"EIP", "CS"})
    \cup AnyPop ** SetEIP ** AnyPop ** AnyPop ** Alu({"CS"}, {}) **
         (iret_to_virtual8086_mode \cup iret_protected_outer_pl \cup iret_protected_same_pl) )

\* CS and the flags are loaded before EIP is compared with 64 KiB.
iret_real ==
  AnyPop ** AnyPop ** Load_CS ** AnyPop ** Alu({}, EFLAGS) ** Check({}) ** SetEIP
iret_v86 ==
  Check({"IOPL"}) ** AnyPop ** AnyPop ** Load_CS ** AnyPop
  ** Alu({"IOPL", "VM"}, EFLAGS \ {"IOPL"}) ** Check({}) ** SetEIP

iret(switch_task) ==
  Alu({"CR0", "VM"}, {}) ** (iret_real \cup iret_v86 \cup iret_protected(switch_task))

---------------------------------------------------------------------------
\* RET far.  The stack is read where it is and moves once.  When the offset
\* cannot be read or lies outside the segment, ret_far_protected returns -1,
\* which is true: the exception is recorded and the word goes on as if the
\* return had been made, at the EIP it had.
StackRead == {"SS", "ESP", "stack"}

ret_far_protected_same_pl ==
  LET Offset == Succeeding("load", StackRead)
  IN Failing("load", StackRead) \cup Offset ** Failing("check", {})
     \cup Offset ** Alu({"ESP"}, {"ESP"}) ** SetEIP
            ** set_segment_descriptor_access_bit ** Load_CS

ret_far_protected ==
  Check({"SS", "ESP"}) ** SysLoad(StackRead) ** Check({}) ** read_segment_descriptor
  ** Check({"CS"}) ** Check({}) ** ret_far_protected_same_pl

ret_far_nonprotected ==
  Check({"SS", "ESP"}) ** pop16 ** pop16 ** SetEIP ** Load_CS

ret_far == ProtectedMode ** (ret_far_protected \cup ret_far_nonprotected)

---------------------------------------------------------------------------
\* ENTER: the frame pointer moves down while the display is copied.
enter(push) ==
  LET Level == Alu({"EBP"}, {"EBP"}) ** SysLoad({"SS", "EBP", "stack"}) ** push
      Frame == Alu({}, {"EBP"}) ** Alu({"ESP"}, {"ESP"})
  IN Alu({"EBP"}, {}) ** push ** (Nop \cup push \cup Level ** push \cup Level ** Level ** push)
     ** Frame
enter16 == enter(push16)
enter32 == enter(push32)

\* What LAR and LSL accept decides ZF; nothing is raised.
lar_check_segment_descriptor == Alu({"CS"}, {})
lsl_check_segment_descriptor == Alu({"CS"}, {})

\* LDTR and TR are marked as not null before the privilege level, the type and
\* the present bit are checked.
lldt ==
  Check({}) ** read_segment_descriptor ** Alu({}, {"LDTR"})
  ** (Nop \cup Check({"CS"}) ** Check({}) ** Alu({}, {"LDTR"}))

set_tss_segment_descriptor_busy_bit ==
  Nop \cup Forgotten("store", {"GDTR"}, {"descriptor"})

ltr ==
  Check({}) ** read_segment_descriptor ** Alu({}, {"TR"})
  ** Check({"CS"}) ** Check({}) ** Alu({}, {"TR"}) ** set_tss_segment_descriptor_busy_bit

verr_verw ==
  Alu({}, {"ZF"}) ** Alu({"GDTR", "LDTR"}, {})
  ** (Nop \cup SysLoad({"GDTR", "LDTR", "descriptor"}) ** SysLoad({"GDTR", "LDTR", "descriptor"})
               ** (Nop \cup Alu({"CS"}, {"ZF"})))

---------------------------------------------------------------------------
\* The task switch.
int_read_segment_descriptor ==
  Check({"GDTR", "LDTR"}) ** SysLoad({"GDTR", "LDTR", "descriptor"})
                          ** SysLoad({"GDTR", "LDTR", "descriptor"})

\* A segment of the new task: null (not CS and SS), or loaded from a
\* descriptor and marked afterwards.  The segments take these together.
switch_task_set_sreg(seg, how) ==
  LET Descriptor == int_read_segment_descriptor ** Check({"CS"}) ** load_segment_descriptor(seg)
  IN IF how = "null" /\ seg \notin {"CS", "SS"} THEN Alu({}, {seg})
     ELSE IF how = "marked" THEN Descriptor ** Forgotten("store", {"GDTR", "LDTR"}, {"descriptor"})
     ELSE Descriptor

\* The old task is saved register by register, TR moves, and the registers of
\* the new one replace those of the old one by one: any access may fail.
switch_task(links) ==
  LET TSS(r) == SysLoad({"TR", "mem"} \cup r)
      Save(r) == Do("store", {"TR"} \cup r \cup Paging, {"mem"}, "aborts")
      Busy == SysStore({"GDTR"}, {"descriptor"})
      Register(r) == TSS({}) ** Alu({}, {r})
      Segments(how) ==
        TSS({}) ** switch_task_set_sreg("CS", how) ** TSS({}) ** switch_task_set_sreg("SS", how)
        ** TSS({}) ** switch_task_set_sreg("ES", how) ** TSS({}) ** switch_task_set_sreg("DS", how)
        ** TSS({}) ** switch_task_set_sreg("FS", how) ** TSS({}) ** switch_task_set_sreg("GS", how)
  IN SysLoad({"GDTR", "descriptor"}) ** SysLoad({"GDTR", "descriptor"})
     ** TSS({}) ** TSS({}) ** SysLoad({"mem"}) ** SysLoad({"mem"})
     ** SysLoad({"GDTR", "TR", "descriptor"}) ** Busy
     ** Alu(EFLAGS, {}) ** Save({}) ** Save({})
     ** Save({"EAX"}) ** Save({"ECX"}) ** Save({"EDX"}) ** Save({"EBX"})
     ** Save({"ESP"}) ** Save({"EBP"}) ** Save({"ESI"}) ** Save({"EDI"})
     ** Save({"ES"}) ** Save({"CS"}) ** Save({"SS"}) ** Save({"DS"}) ** Save({"FS"}) ** Save({"GS"})
     ** SysLoad({"mem"})
     ** (IF links THEN SysStore({"TR"}, {"mem"}) ** Busy ELSE Nop)
     ** Alu({}, {"TR"}) ** TSS({})
     ** (Alu({}, {"LDTR"}) \cup int_read_segment_descriptor ** Alu({}, {"LDTR"}))
     ** Register("EIP") ** Register("EAX") ** Register("ECX") ** Register("EDX") ** Register("EBX")
     ** Register("ESP") ** Register("EBP") ** Register("ESI") ** Register("EDI")
     ** (UNION {Segments(how) : how \in {"null", "loaded", "marked"}})
     ** TSS({}) ** (Nop \cup Alu({"CR0", "CR3"}, {"CR3"}) ** Alu({}, {"TLB"})) ** Alu({}, EFLAGS)

---------------------------------------------------------------------------
\* Entering the handler of an interrupt or exception.
ClearFlags ==
  Alu({}, {"IF", "TF", "NT", "VM", "RF"}) \cup Alu({}, {"TF", "NT", "VM", "RF"})
PushReturn(push, old_EIP) ==
  Alu(EFLAGS, {}) ** push ** Alu({"CS"}, {}) ** push ** Alu(old_EIP, {}) ** push

\* CS and EIP are those of the handler before the error code is pushed.
interruption_protected_intra_pl(old_EIP) ==
  LET Enter(push) ==
        PushReturn(push, old_EIP) ** set_segment_descriptor_access_bit ** Load_CS ** SetEIP
        ** (Nop \cup push)
  IN Check({"SS", "ESP"}) ** Check({"CS"}) ** (Enter(push32) \cup Enter(push16)) ** ClearFlags

\* The stack of the inner level, from a TSS of 16 or 32 bits.
InnerStack ==
  Check({"TR"}) ** SysLoad({"TR", "mem"}) ** SysLoad({"TR", "mem"})
  ** int_read_segment_descriptor ** Check({}) ** Check({}) ** Check({})

interruption_protected_from_vm86(old_EIP) ==
  InnerStack ** Alu(EFLAGS, {}) ** ClearFlags
  ** Alu({"SS", "ESP"}, {}) ** Alu({}, {"SS"}) ** Alu({}, {"ESP"})
  ** Alu({"GS"}, {}) ** push32 ** Alu({"FS"}, {}) ** push32
  ** Alu({"DS"}, {}) ** push32 ** Alu({"ES"}, {}) ** push32
  ** push32 ** push32 ** push32 ** Alu({"CS"}, {}) ** push32
  ** Alu(old_EIP, {}) ** push32 ** (Nop \cup push32)
  ** Alu({}, {"GS", "FS", "DS", "ES"}) ** Load_CS ** SetEIP

interruption_protected_inter_pl(old_EIP) ==
  LET Enter(push) == push ** push ** PushReturn(push, old_EIP) ** (Nop \cup push)
  IN Check({}) ** InnerStack ** Alu({"SS", "ESP"}, {}) ** Alu({}, {"SS"}) ** Alu({}, {"ESP"})
     ** (Enter(push32) \cup Enter(push16)) ** ClearFlags ** Load_CS ** SetEIP

interruption_protected_trap_int_gate(old_EIP) ==
  int_read_segment_descriptor ** Check({"CS"}) ** Check({}) **
  ( interruption_protected_inter_pl(old_EIP)
    \cup Check({"VM"}) ** interruption_protected_from_vm86(old_EIP)
    \cup Check({"VM"}) ** interruption_protected_intra_pl(old_EIP) )

interruption_protected_task_gate(old_EIP) ==
  Check({}) ** Alu(old_EIP, {}) ** switch_task(TRUE) ** (Nop \cup push32) ** Check({"EIP", "CS"})

interruption_protected(old_EIP) ==
  Check({"VM", "IOPL"}) ** Check({"IDTR"}) ** SysLoad({"IDTR", "mem"}) ** SysLoad({"IDTR", "mem"})
  ** Check({"CS"}) ** Check({})
  ** (interruption_protected_task_gate(old_EIP) \cup interruption_protected_trap_int_gate(old_EIP))

\* EIP changes between the two reads of the vector, after the three pushes.
interruption_nonprotected(old_EIP) ==
  Check({"IDTR"}) ** Check({"SS", "ESP"})
  ** Alu(EFLAGS, {}) ** push16 ** Alu({}, {"IF", "TF", "AC"})
  ** Alu({"CS"}, {}) ** push16 ** Alu(old_EIP, {}) ** push16
  ** SysLoad({"IDTR", "mem"}) ** SetEIP ** SysLoad({"IDTR", "mem"}) ** Load_CS

interruption(old_EIP) ==
  Alu({"CR0"}, {}) ** (interruption_protected(old_EIP) \cup interruption_nonprotected(old_EIP))

---------------------------------------------------------------------------
\* The next instruction is fetched, decoded and compiled before any of it is
\* executed.  (One that has been is entered as it was compiled; JitPages.)
goto_eip_body == SysLoad({"EIP", "code"})

---------------------------------------------------------------------------
\* FSAVE and FRSTOR transfer the whole unit word by word (as few here as tell
\* the parts apart).  The first that fails ends it, and nobody delivers the
\* exception.  FSAVE initialises the unit when the last word has been stored;
\* FRSTOR has by then changed what it has read.
fpu_begin_op(check) == Check({"CR0"}) ** (IF check THEN Check({"fstatus"}) ELSE Nop)
Saved == Do("store", Sregs \cup Paging, {"mem"}, "never")
NotSaved == Failing("store", Sregs)
Restored == Succeeding("load", {"mem"} \cup Sregs)
NotRestored == Failing("load", {"mem"} \cup Sregs)
fsave_common == NotSaved \cup Alu({"st"}, {}) ** Saved ** (NotSaved \cup Saved ** Alu({}, Fpu))
fpu_save32 ==
  NotSaved \cup Alu({"fcontrol", "fstatus"}, {}) ** Saved
                ** (NotSaved \cup Alu({"st", "fpointers"}, {}) ** Saved ** fsave_common)
frstor_common ==
  NotRestored \cup Restored ** Alu({}, {"st"}) ** (NotRestored \cup Restored ** Alu({}, {"st"}))
fpu_rstor32 ==
  NotRestored \cup Restored ** Alu({}, {"fcontrol"}) **
  (NotRestored \cup Restored ** Alu({}, {"fstatus"}) **
  (NotRestored \cup Restored ** Alu({}, {"st"}) **
  (NotRestored \cup Restored ** Alu({}, {"fpointers"}) ** frstor_common)))

=============================================================================
