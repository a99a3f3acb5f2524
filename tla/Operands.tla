------------------------------ MODULE Operands ------------------------------
(***************************************************************************)
(* The helpers of the interpreter that handlers share: fetching immediate  *)
(* bytes, decoding the operand a ModR/M byte names, the stack, loading a   *)
(* segment register, permission for I/O and the REP prefixes.              *)
(*                                                                         *)
(* A register named by a field of the instruction is any of Gprs.  The     *)
(* LOCK prefix is disabled in the code (QLOCKED is always false), so the   *)
(* #UD a locked instruction would raise is no step.                        *)
(***************************************************************************)
EXTENDS Steps

\* The three fetches: read through CS, then advance EIP.
Fetch(kind) == Do(kind, {"EIP", "code"} \cup Paging, {"EIP"}, "aborts")
IB == Fetch("ib")
IW == Fetch("iw")
ID == Fetch("id")
Disp == Fetch("disp")

---------------------------------------------------------------------------
\* Effective addresses.  The SIB byte and the displacement are fetched before
\* the registers of the address are read; InterpDecoder says how many bytes.
ReadAddressRegs == Alu(Gprs, {})

get_addr_16bit == (Nop \cup Disp) ** ReadAddressRegs

\* With mod 0 a base of 5 means a 32-bit displacement.
get_addr_sib(mod) == Disp ** (IF mod = 0 THEN Nop \cup Disp ELSE Nop)

get_addr_32bit ==
  ( (Nop \cup Disp \cup get_addr_sib(0))
    \cup (Nop \cup get_addr_sib(1)) ** Disp ) ** ReadAddressRegs

\* The operand is in memory or in a register: what each alternative does next.
get_addr_mode(mem, reg) ==
  Test("memory") ** AdSize(get_addr_16bit, get_addr_32bit) ** mem
  \cup Test("register") ** reg

get_addr_mode_r8(mem, reg)      == get_addr_mode(mem, reg)
get_addr_mode_rm8_r16(mem, reg) == get_addr_mode(mem, reg)
get_addr_mode_r16(mem, reg)     == get_addr_mode(mem, reg)
get_addr_mode_rm8_r32(mem, reg) == get_addr_mode(mem, reg)
get_addr_mode_rm16_r32(mem, reg) == get_addr_mode(mem, reg)
get_addr_mode_r32(mem, reg)     == get_addr_mode(mem, reg)

\* The reg field must name one of the six segment registers: #UD otherwise.
get_addr_mode_sreg16(mem, reg)  == Check({}) ** get_addr_mode(mem, reg)
get_addr_mode_sreg32(mem, reg)  == Check({}) ** get_addr_mode(mem, reg)

\* A control register and a general register; there is no memory form.
get_addr_mode_cr == Nop

get_addr_moffs == AdSize(IW, ID)

\* The operands of string instructions.
get_addrs_dsesi_esedi == Alu({"ESI", "EDI"}, {})
get_addr_dsesi == Alu({"ESI"}, {})

\* 16- and 32-bit operands are decoded by two functions of the same form.
get_addr_mode_r(mem, reg) ==
  OpSize(get_addr_mode_r16(mem, reg), get_addr_mode_r32(mem, reg))

---------------------------------------------------------------------------
\* The stack: the access is checked and made first, then the pointer moves.
PushAccess == Do("store", {"ESP", "SS"} \cup Paging, {"stack"}, "aborts")
PopAccess == Do("load", {"ESP", "SS", "stack"} \cup Paging, {}, "aborts")
push16 == PushAccess ** Alu({"ESP"}, {"ESP"})
push32 == PushAccess ** Alu({"ESP"}, {"ESP"})
pop16 == PopAccess ** Alu({"ESP"}, {"ESP"})
pop32 == PopAccess ** Alu({"ESP"}, {"ESP"})
Push == OpSize(push16, push32)
Pop == OpSize(pop16, pop32)

---------------------------------------------------------------------------
\* Reading the descriptor a selector names: table limit, then two words.
read_segment_descriptor ==
  Check({"GDTR", "LDTR"}) ** SysLoad({"GDTR", "LDTR", "descriptor"})
                          ** SysLoad({"GDTR", "LDTR", "descriptor"})

load_segment_descriptor(seg) == Alu({}, {seg})

\* The access bit is set when it is clear.  A failing write is only reported.
set_segment_descriptor_access_bit ==
  Nop \cup Unchecked("store", {"GDTR", "LDTR"}, {"descriptor"})

set_tss_segment_descriptor_busy_bit ==
  Nop \cup Unchecked("store", {"GDTR"}, {"descriptor"})

\* Segment register seg receives a selector: from the selector alone in real
\* and virtual-8086 mode and when it is null, otherwise through its descriptor.
set_sreg(seg) ==
  Alu({"CR0", "VM"}, {seg})
  \cup Check({"CR0", "VM", "CS"}) ** read_segment_descriptor
         ** Check({"CS"})
         ** load_segment_descriptor(seg) ** set_segment_descriptor_access_bit

---------------------------------------------------------------------------
\* The bitmap of the TSS: "not permitted" is the answer too when one of the
\* reads fails, whose exception has then been delivered, and the caller raises
\* #GP on top of it.
check_io_permission_bit_map ==
  LET Read == Do("load", {"TR", "mem"} \cup Paging, {}, "aborts twice")
  IN Read ** Read ** (Nop \cup Read) ** Check({"TR"})

---------------------------------------------------------------------------
\* The repeat prefixes.  The counter is tested before the instruction; after
\* an iteration it is decremented and, when another one is due, EIP returns
\* to the instruction.
RepCounterIsNot0(body) == Nop \cup Alu({"ECX"}, {}) ** body
run_rep == Alu({"ECX"}, {"ECX"}) ** (Nop \cup Alu({}, {"EIP"}))
run_repe == Alu({"ECX", "ZF"}, {"ECX"}) ** (Nop \cup Alu({}, {"EIP"}))
run_repne == Alu({"ECX", "ZF"}, {"ECX"}) ** (Nop \cup Alu({}, {"EIP"}))

TRY_REP == Nop \cup run_rep
TRY_REPE_REPNE == Nop \cup run_repe \cup run_repne

=============================================================================
