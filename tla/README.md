# IA32: a TLA+ verification project

IA32 is an emulator of a 32-bit x86 processor written in C.  It is a library: a
host (a PC emulator) gives it memory and port callbacks and asks it to execute
one instruction at a time.  It has two engines over the same CPU state, an
interpreter and a JIT that translates pages of memory to bytecode.  These
modules model what is hard to reach with a test in both of them.  Of the JIT:
the translation cache and the pager, which keep a copy of something the guest
may change at any moment; the flags it does not compute because it takes them
for dead; the delivery of interrupts and exceptions, with the bytecode of the
repeated string instructions it interrupts.  Of both: each instruction, whether a
handler of the interpreter or the bytecode the JIT compiles, as the steps a fault
may cut short, the x87 unit included; what they take the bytes of an instruction
to be, one against the other; their arithmetic, word by word, against one
reference; and the checks of limits, as numbers.

Comments of the source are in Catalan; they are quoted with a translation.

## The system

| part | files | state | operations | modules |
|---|---|---|---|---|
| translation cache | `jit.c`, `jit_exec.h`, `jit_compile.h` | `_mem_map`, the lists `_pages` and `_free_pages`, per page `entries`, `v`, `first_entry`, `last_entry`, `overlap_next_page`; `_current_page`, `_current_pos`, `_lock_page`, `_free_lock_page` | `IA32_jit_exec_next_inst`, `IA32_jit_addr_changed`, `IA32_jit_area_remapped`, `IA32_jit_clear_areas`, `IA32_jit_reset`; inside: `goto_eip`, `dis_insts`, `get_new_page`, `remove_page`, `exec_inst` | `GuestIsa`, `GuestCpu`, `JitPages` |
| pager | `jit_pag.h`, `mem_p32_*` and `update_mem_callbacks` in `jit.c` | `_pag32`: the entries of the directory and of the tables met so far, the list of active ones, the range of addresses that hold tables; CR0.PG, CR2, CR3 | translated reads, writes and fetches of 8, 16 and 32 bits, `paging_32b_addr_changed`, `paging_32b_CR3_changed`, MOV CR0/CR3, INVLPG, task switch, tracing, reset | `PageTables`, `PagedMemory`, `Paging32` |
| lazy flags | `dis_insts`, `jit_compile.h` | `flags` of each decoded instruction | the backward pass over a block; the bytecodes `compile` leaves out | `FlagTemplates`, `JitFlags` |
| interrupts and exceptions | `jit_exec.h`, `jit.c` | `_exception`, `_intr`, `_inhibit_interrupt`, the IDT, the stack | `IA32_jit_set_intr`, `exec_next_inst`, STI/CLI, `interruption*`, `exception` | `StringOps`, `JitEvents` |
| segmentation and transfers | `interpreter.c`, `interpreter_call_jmp.h`, `jit_exec.h` | segment registers and their hidden part, GDT, LDT, TSS, CPL | far CALL/JMP/RET/IRET, gates, `switch_task`, LLDT, LTR, LAR, LSL, VERR | `InterpFlow`, `InterpSystem`, `JitTransfers`, `JitInsns` |
| stack, procedure and string instructions | `interpreter_{mov,other,call_jmp}.h`, `jit_exec.h`, `jit_compile.h` | registers and the stack | PUSH, POP, CALL, RET, ENTER, LEAVE, PUSHA, POPA; MOVS, STOS, CMPS, SCAS, INS, OUTS with REP | `InterpMove`, `InterpFlow`, `InterpSystem`, `JitTransfers`, `JitInsns`, `StringOps` |
| integer arithmetic | `jit_exec.h`, `interpreter_{add,cmp_sub,lop,shift_rols,mul_div,bits_bytes,set}.h` | registers, EFLAGS | one function or bytecode per instruction and operand size | `Alu`, `InterpArith`, `JitInsns` |
| segment limits | `jit.c`, `interpreter.c`, `jit_exec.h` | hidden part of the segment registers | the checks of `mem_read*`, `mem_write*`, `push*` and `pop*` | `SegmentLimits`, `Operands`, `JitTransfers` |
| I/O permission | `jit_exec.h`, `interpreter.c`, `interpreter_io.h` | bitmap in the TSS | IN, OUT, INS, OUTS | `SegmentLimits`, `InterpSystem`, `JitInsns` |
| interpreter | `interpreter*.{c,h}` | `_old_EIP`, `_halted`, prefixes | `IA32_exec_next_inst` | `Steps`, `Operands`, `InsnSteps`, `InterpTables`, `InterpDecoder`, `Interp*`; its pager is `PagedMemory` |
| FPU | `interpreter_fpu.h`, `jit_exec.h`, `jit_compile.h` | register stack, TOP, tag, status and control words | the x87 instructions | `FpuSteps`, `FpuInsns`, `JitFpu`, `Fpu` |
| disassembler and address words | `dis.c`, `compile_get_addr` in `jit_compile.h`, `jit_exec.h` | prefixes met, bytes kept and counted, `offset` | `IA32_dis`, the words that set and add to `offset` | `DisTables`, `Disassembler`, `Decode` |
| CPU | `cpu.c`, `IA32.h` | all registers | `IA32_cpu_init`, `IA32_cpu_init_model` | parts, in `Paging32` and `Fpu` |

How they interact.  The host calls `IA32_jit_exec_next_inst`; the JIT either
delivers an interrupt or runs bytecode from `_current_pos` to the next stop.  A
memory instruction goes through the segment limit check, then through the
pager when CR0.PG is set, then to the host's callback.  The host, inside the
callback or between two calls, tells the JIT what was written with
`IA32_jit_addr_changed` and what was remapped with `IA32_jit_area_remapped`:
pages are therefore removed in the middle of the loop that executes them.  The
decoder reads through the same callbacks and may fault.  Everything runs in
one thread; what makes it hard is re-entry: the host's callback, the decoder
and the exception handler all change the structures a caller up the stack is
using.

What makes each part correct:

- translation cache: the guest cannot tell it from a machine that decodes every
  instruction when it executes it; no page is freed twice, leaked or reused
  under the loop; HLT lasts until an interrupt; every call returns.
- pager: every access gets the rights and the physical word the tables in
  memory give at that moment, although there is no INVLPG.
- lazy flags: no instruction reads a flag whose computation was left out, and an
  instruction that is restarted reads the flags it had the first time.
- interrupts: none is delivered in the shadow of STI, none is lost, and the
  exception record is empty whenever a block is decoded.
- both engines, per instruction: one that faults can be restarted, since an
  exception of the interpreter restores EIP and nothing else, and one of the JIT
  nothing at all; once the exception is delivered the registers are those of its
  handler; one fault raises one exception, and none is recorded and forgotten.
- limits: an access that passes is inside its segment, what was pushed can be
  popped, a port is reached only if its bit of the bitmap is clear.
- FPU: an instruction that ends early has not moved the register stack; the
  summary bit is up to date; no register is used empty.
- strings: a repeated instruction, however interrupted, runs its operation once
  per count and ends where the first difference is.
- decoding: both engines take the same bytes for the same instruction on the same
  operand, and go on at the same byte, whatever was decoded before.
- arithmetic: both engines compute the result and the flags of the
  architecture for every operand and count.

## The modules

    GuestIsa  <-- GuestCpu   (abstract: no cache)
       ^             ^
       |             | implements
    JitPages --------+        <-- JitPagesProofs
       ^
    MCJitPages

    PageTables <-- PagedMemory  (abstract: no TLB)
       ^               ^
       |               | implements
    Paging32 ----------+      <-- Paging32Proofs
       ^
    MCPaging32

    FlagTemplates <-- JitFlags <-- JitFlagsProofs

    Steps <-- InsnSteps <-- InsnStepsProofs
      ^           ^
      |           +--------------------------- MCInterp --> SegmentLimits
      +-- Operands <-- InterpArith, InterpMove, <--+
      |                InterpFlow, InterpSystem    |
      +-- JitTransfers <-- JitInsns <--------------+

    FpuSteps <-- Fpu <-- FpuProofs
      ^           ^
      |           +-- MCFpu
      +-- FpuInsns <----+
      +-- JitFpu <------+

    StringOps <-- JitEvents <-- JitEventsProofs
                      ^
                   MCEvents

    AluRef <-- Alu <-- MCAlu, AluProofs

    OpcodeRows <-- DisTables <-- Disassembler <--+
         ^                                       +-- Decode <-- MCDecode
         +-- InterpTables <-- InterpDecoder <----+
               Interp* (above) <---+

### The translation cache: `JitPages`

`GuestIsa` has the guest program: a byte is an opcode with a kind and a length,
the length depending on the mode of the code segment.  What instructions compute
is left open (a store writes any of `Stores`, a jump goes to any of `Targets`),
because what matters to the cache is where an instruction ends, what it may
invalidate and where EIP goes.  `GuestCpu` is the machine without a cache;
it is what `IA32_exec_next_inst` of the interpreter does.

`JitPages` keeps the variables of the code under their names.  Sequences of
bytecode words between two points where the loop may stop are one word, with
the bytes the instruction was decoded from as a history; `BC_INCn_EIP`,
`BC_INCn_EIP_NOSTOP`, `BC_GOTO_EIP` and `BC_HALT` are words of their own because
the position where the loop stops and resumes depends on them.  `pc` says
where in the JIT's call the execution is; `after` where `goto_eip` returns to.
Removing several pages takes one step per page (`doomed`).

| code | action |
|---|---|
| `IA32_jit_exec_next_inst` | `ExecNextInst`, `Interrupt` |
| `goto_eip_body` | `OutOfRange`, `NewPage`, `Hit`, `Stale`, `Decode` |
| `dis_insts`, `compile` | `DisInst`, `DisFault`, `DisEnd`, `CompileInst`, `CompileEnd` |
| `exception_body` | `ExceptionBody`, `ExceptionGivesUp` |
| `exec_inst` | `Lock`, `ExecSeq`, `ExecStore`, `ExecOut`, `ExecCR0`, `ExecJump`, `ExecFar`, `ExecFault`, `ExecInc`, `ExecGoto`, `ExecHalt`, `Stop` |
| host between calls | `HostWrite`, `ClearAreas`, `Reset` |

`ExecFault` may raise an exception at any instruction, before it takes effect;
`ExceptionBody` is a successful delivery, whose stores may remove pages too, and
`ExceptionGivesUp` the exit of the program when deliveries nest too deep.
Assumed: the base of CS is 0, paging is off (the pager has its own module), and
the host reports every write to memory that was decoded, as `IA32.h` asks for.

### The pager: `Paging32`

`PageTables` has the guest's side: memory counted in words that read as entries,
linear addresses as two indices and an offset, contexts (CPL, implicit supervisor
access, WP, SMEP, SMAP, AC) and operands, which may be odd or straddle two
words.  `PagedMemory` walks the tables in memory on every access, which is how the
interpreter pages (`page32_translate_addr` and `mem_p32_*` of `interpreter.c`, from
which its definitions are taken): that `Paging32` implements it says that the two
engines page alike.  The interpreter exits the program when CR0.WP, AM and others
are set (`interpreter_mov.h:649`); `PagedMemory` keeps them, as the JIT does.  `Paging32`
adds `p32`, the structure of `jit_pag.h`, between the two, with the functions of
`jit_pag.h` as operators from one value of it to the next:

| code | definition |
|---|---|
| `paging_32b_alloc_page`, `active_4kB`, `translate` | `AllocPage`, `Active4kB`, `Activated`, `Translated` |
| `paging_32b_check_access` | `CheckAccess` |
| `paging_32b_addr_changed` | `AddrChanged` |
| `mem_p32_*`, `mem_readl*`, `mem_writel*` | `Access`, `Continue` over `DoPaged`, `DoFlat` |
| MOV CR3, MOV CR0, INVLPG | `MovCR3`, `MovCR0`, `Invlpg` |
| `switch_task`, `update_mem_callbacks` | `SwitchTask`, `Callbacks` |
| `dis_mem_read_trace`, `IA32_cpu_init` with `IA32_jit_reset` | `Trace`, `Reset` |

What the code does and the model keeps: user mode may fetch from any present
page; accessed and dirty bits are never written; an odd operand is read byte by
byte and the bytes lose the implicit supervisor right; a store that straddles
two pages leaves its first half when the second faults; tracing leaves CR2 and
the cache changed.  Left out: PSE (the code exits), and the 64- and 128-bit reads,
which translate only their first address.

### The flags nobody reads: `FlagTemplates`, `JitFlags`

`FlagTemplates` has the two tables that must agree.  `INSTS_METADATA` is the table
of `jit.c` with the flags an instruction needs and those it surely modifies.
`Template` is what `compile` emits, as a sequence of words that read flags, set
groups of flags when `e->flags` holds one of them, set flags always, or access
memory; the order is that of the `compile_*` function.  One name stands for the
instructions that treat flags alike, of every width: `SUB` for SUB and CMP,
`AND` for the logical ones, `SHL` for the shifts.  `IMUL` has two or three
operands, `IMUL1` one.  Not in the table: AAA, AAS, CLC, STC, LAR, LSL, VERR and
VERW.

`JitFlags` runs programs of these instructions.  The values of flags are not
modelled; `stale` holds the flags whose value is not the one the completed
instructions gave them, `ahead` those the instruction under way has already
written.  What is stale is overwritten before it is read, in its own page
(`StaleIsDead`), and nothing is when control leaves the straight line, by a jump or
past the end of a page (`JumpsLeaveNothingStale`).

| code | action |
|---|---|
| `dis_insts`: a block of `_dis_v` | `Decode` (any end a block can have) |
| `dis_insts`: the pass over `_dis_v` | `Pass`, `Before` |
| `remove_page` | `Forget` |
| `exec_inst`: a word | `Step`, `ComputeFlags`, `CountIdle`, `WriteAlways` |
| `BC_INCIMM_PC_IF_ECX_IS_0`, `BC_DECIMM_PC_IF_REP*` | `EcxIs0`, `Repeat`, `LeaveLoop` |
| `exception` | `Fault` |
| `update_eip` and jumps | `Retire` |

Where an exception or an interrupt enters a handler the saved EFLAGS may hold dead
flags: the handler can see that, by design of the code; the instruction it comes
back to cannot.  Left out: `_optimize_flags` off, where every flag is alive, and
a store that changes a later instruction of the block under way, against which
the code has no defence.

### One instruction: `Steps`, `Operands`, `Interp*`, `JitTransfers`, `JitInsns`, `InsnSteps`

`Steps` is a vocabulary: an instruction is the set of the paths it may take, a path
the sequence of its steps, a step the components of the machine it reads and
writes and what happens when it faults.  A fault `aborts` the instruction; in some
helpers of the interpreter the exception is delivered and the handler `goes on`,
or its caller raises a second one (`aborts twice`); in the JIT, whose helpers record
an exception and leave its delivery to the word that called them, it may be
`forgotten`, and a path on which the code goes on as if a read had failed begins
with a step that `fails`.

`Operands` has the helpers the interpreter's handlers share (fetches, effective
addresses, the stack, segment loads, the I/O permission, REP), and the `Interp*`
modules one definition per handler or per macro that defines handlers of three
widths.  `JitTransfers` has the functions of `jit_exec.h` the words call, `JitInsns`
what `compile` emits for each instruction, word by word.  Names are those of the
source:

| module | source |
|---|---|
| `InterpArith` | `interpreter_add.h`, `interpreter_cmp_sub.h`, `interpreter_lop.h`, `interpreter_shift_rols.h`, `interpreter_mul_div.h`, `interpreter_bits_bytes.h`, `interpreter_set.h` |
| `InterpMove` | `interpreter_mov.h`, the string instructions of `interpreter_other.h` and `interpreter_io.h` |
| `InterpFlow` | `interpreter_call_jmp.h` |
| `InterpSystem` | `interruption*`, `switch_task`, descriptors and their access bits in `interpreter.c`; the rest of `interpreter_other.h`; IN and OUT |
| `JitTransfers` | the stack, segment registers, far transfers, gates, interrupts, task switches, LLDT, LTR and the I/O permission of `jit_exec.h` |
| `JitInsns` | `compile` and the `compile_*` functions of `jit_compile.h`, the words they emit in `exec_inst` of `jit_exec.h` |

`InsnSteps` runs one path: `Execute` a step; `Abort`, `AbortTwice`, `GoOn` or `Forget`
at a step that faults; `Restart` after it.  `EXCEPTION` of the interpreter returns to
`_old_EIP` and restores nothing else; the JIT moves EIP in its last word and restores
nothing, but HLT takes back what it has added (`Rollback`).  The value of nothing
is modelled: a component is either as the first attempt found it or not.  The three
properties have tables of the operations known not to obey them (`Rereads`,
`Trails`, `Doubles` and `Forgets`, given in `MCInterp`); each entry is a defect of
the code or the way the handler was written, and a new one would be found.  Of the
interpreter:

- ADC, SBB, RCL and RCR set CF before a write that may fault; LOOP decrements
  before its limit check; ENTER, PUSHA, POPA, POP, POPF, RET and CALL move ESP
  before their last check; INS reads its port before the store.
- When the access bit of a descriptor cannot be written, `set_sreg` has delivered
  the exception and its caller goes on loading the segment (`interpreter.c:923`);
  LLDT and LTR change `isnull` before they check.
- A failed read of the I/O bitmap is reported twice, as its own exception and as
  #GP; so are failures inside far transfers.
- INT, INTO, INT3 and IRET can be retried in no respect.

Of the JIT: ADC and SBB are right, and a bit of a descriptor that cannot be set raises
nothing; but the exception stays recorded (`Forgets`), as it does when a bitmap, a
descriptor of LAR or LSL, or the area of FSAVE and FRSTOR cannot be read.  XCHG
writes its register before the memory operand, so that after a fault of the write
the restarted instruction exchanges the wrong value (`jit_compile.h:1643`); CALL has
moved EIP to its target when it pushes.  ENTER, POPA, PUSHA, POP, POPF, RET, LOOP,
INS, RCL, RCR and the instructions that enter handlers are as in the interpreter.

### Limits: `SegmentLimits`

In those modules whether a check fails is a choice.  `SegmentLimits` has the checks
themselves, as numbers with the unsigned arithmetic of C: what loading a segment
register makes of the limit of a descriptor, the memory functions of protected
and real mode (`mem_read*`, `mem_write*`), `push*` and `pop*` with a stack pointer of 16
or 32 bits, and the walk of `check_io_permission_bit_map`.  It has no state: the
`ASSUME`s of `MCInterp` evaluate it for words of six and five bits, and its theorems
hold for words of every size.  What they say of the code:

- An access that passes is inside its segment if that is not shorter than the
  operand (`LimitIsExact`), which a granular limit never is (`GranularSegmentsHold`).
  In a shorter one `lastb-3` wraps and nearly every offset passes
  (`TinySegmentsAreOpen`; `jit.c:2516`, `interpreter.c:3120`).
- Outside protected mode the second byte of a word is not checked, which is meant
  (`jit.c:2754` names two programs that need it); `WordsStickOut`.
- What is pushed can be popped (`PopUndoesPush`), but a pop checks its last byte only:
  over the end of a 16-bit stack the interpreter reads behind the segment where the
  JIT raises #SS, by 64 kB and not by the limit (`PopsDifferAtTheEnd`).
- A port access is permitted exactly when the bit of each of its ports is clear
  (`PermissionIsExact`); the processor reads two bytes always, and would refuse an
  access whose second byte is beyond the limit though no bit of it is needed.

### The x87 unit: `FpuSteps`, `FpuInsns`, `JitFpu`, `Fpu`

Handlers are sequences of checks and moves of the register stack: `FpuInsns`
has one definition per handler of the interpreter, `JitFpu` one per function of
`compile` and word of the JIT.  `Fpu` executes them, those of both engines mixed, over
one stack of `NRegs` registers.  In the interpreter a check whose exception is
unmasked sets ES and the handler returns.  In the JIT it sets `fpu_ok` to false
(`Suspend`) and the words that follow must skip themselves (`Skip`), but those that
access memory and a few others do not look (`Unguarded`).  When the next instruction
meets ES `fpu_check_exception` exits the program, so such a state has no successor.
Which exceptions an operation raises depends on `long double` values of the host
and is a choice.  Met on the way: FCHS clears C0 for C1; FRSTOR restores neither TOP
nor ES, and the JIT's FLDCW does not compute ES again (`loaded` marks both); FSAVE
stores the status without TOP.

### Interrupts, exceptions and repetition: `StringOps`, `JitEvents`

`StringOps` is what `compile_cmps` and the six other compilers of string
instructions emit, with the lengths of their jumps, which the code counts by hand.
`JitEvents` runs small programs under `IA32_jit_exec_next_inst`:

| code | action |
|---|---|
| `IA32_jit_set_intr`; a page removed by the host | `SetIntr`; `Forget` |
| `IA32_jit_exec_next_inst`: instruction or interrupt | `ExecNextInst`, `Acknowledge` |
| `goto_eip_body`, `dis_insts` and its assertion | `Cached`, `Decode`, `FetchFault`, `AssertionFails` |
| `exception_body`, `interruption_protected_intra_pl` | `Deliver`, `DeliverAgain`, by `Accepted` and `Refused` |
| words of string instructions | `RepTest`, `Gather`, `Apply`, `SetFlag`, `RepNext`, `StringFault`, `StringEnd` |
| STI, CLI, POPF, MOV SS, HLT, JMP, CALL near, INT, IRET | `Sti`, `Cli`, `Popf`, `MoveToSS`, `Halt` with `StayHalted`, `Jump`, `CallNear`, `SoftwareInterrupt`, `Iret` |
| any other instruction, with its fault | `Plain`, `MemoryFault`, `Undefined` |

The IDT is any of five tables; a handler may be absent, so that the delivery of
its fetch fault fails in turn.  Left out here, and only steps in `JitTransfers`:
gates to an inner level, task gates, virtual-8086 mode, a push that faults after
the check of space.

### Arithmetic: `AluRef`, `Alu`

Words are sets of bit positions, since the integers of a model checker do not
have 32 bits.  `AluRef` defines shifts and rotations as one bit at a time, sums
by carries, differences by borrows, products and quotients by numbers.  `Alu`
has the macros of the interpreter and the words of the bytecode, and lets a run
execute the one after the other, leaving out the flag words nobody needs.
`DeviantFlags`, `DeviantResult` and `TranslatedUnlike` name where the engines
differ from the reference or from each other:

- ROL and ROR by 0 set CF.
- ADD, ADC, SUB and SBB of a register with itself compute their flags from the
  result in the interpreter, whose macro names its source again after the write
  (`interpreter_add.h:1186`); the JIT is right.
- IMUL with two or three operands sets CF and OF by signs only.
- SHLD and SHRD by an immediate do not mask it.
- IDIV of 8 bits divides AL, not AX; the most negative dividend by -1 is undefined
  behaviour in C and left out.
- The JIT's one-operand IMUL never writes SF; its 16-bit double shifts by more than
  16 write SF, ZF and PF where the interpreter does not.

### What the bytes mean: `OpcodeRows`, `DisTables`, `InterpTables`, `Disassembler`, `InterpDecoder`, `Decode`

The emulator has two decoders.  The JIT compiles what `IA32_dis` makes of an
instruction; the interpreter has tables of its own and fetches operands as its
handlers go.  `DisTables` and `InterpTables` are their switches, row by row, each
from its own source file and with that file's names.  `Disassembler` has the
prefix handlers, what each of the `inst_*` encoders reads, and the forms of
address; `Decode` the words `compile_get_addr` makes of a form and what `IA32_jit` does
with them; `InterpDecoder` the address the interpreter computes and the bytes a
handler fetches, taken from its paths in the `Interp*` modules (`Shape` of `Steps`),
so that these are checked as well.  A value is the set of registers and constants
it is the sum of, with their factors and the width it was last cut to.

| code | action of `Decode` |
|---|---|
| prefix handlers of `dis.c`; the rest of `IA32_dis` and `compile_get_addr` | `DisPrefix`; `DisOpcode` |
| a word of `IA32_jit` | `ExecuteWord` |
| `IA32_exec_next_inst`; its return | `IA32_exec_next_inst`; `InterpReturn` |
| prefix handlers of `interpreter.c`, before and after the nested `exec_inst` | `InterpPrefix`, `InterpUnwind` |
| a handler; `unk_inst`, which exits | `InterpOpcode` |
| a fetch or a handler that faults | `InterpFault` |

`SameRow` says when the two names of an operation mean the same; it lists the
spellings that differ, without looking at the byte.  The prefixes of the interpreter
outlive an instruction if anything goes wrong in `InterpUnwind`, so a second
instruction follows the first.  Left out: the register a field of ModR/M names
and the fields that name no segment or control register, the segment of XLAT and
of string operands, and fetches of the disassembler that fail, which begin again
from nothing.  `SameOperation` compares the sizes as the two decoders switch them (the
operand's, the address's) when the operation is chosen; that a row of the disassembler
then names the 16-bit or the 32-bit mnemonic its size asks for is not compared.

## The runs

| run | instance | what it shows |
|---|---|---|
| `jit_core` | two pages of three bytes; stores to one address of each, jumps, far jumps, faults, an interrupt; one- and two-byte instructions | `ListsConsistent`, `NoPageLost`, `RecycledPageIsBlank`, `CodeIsFresh`, `ResumesAtEip` and that `JitPages` implements `GuestCpu` |
| `jit_areas` | three pages of two bytes in two areas with a hole; remappings, CR0, clear and reset | removal by range (`RemapRemovesRange`), instructions across pages (`OverlapIsFresh`), blocks that end at CR0 |
| `jit_halt` | one page of eight bytes, fair: code entered at either byte of an instruction, a store that removes the page, CR0, HLT, an address that cannot be fetched | every call returns (`CallsReturn`), through repeated decodings and faults of the fetch; HLT ends only by an interrupt; refinement |
| `paging` | two-entry tables in four frames; the guest's directory and first table are mapped so that it edits both; two directories; user, level 0 and implicit accesses | types, the list of active entries, the range, freshness of the cache; `Paging32` implements `PagedMemory` |
| `flags` | every program of three instructions of 29 kinds, pages of two | `ReadsAreComputed`, `StaleIsDead`, `JumpsLeaveNothingStale`, `OnlyRotationsReadTheirOwnCarry` |
| `interp` | every path of the interpreter's 340 handlers and of the JIT's bytecode for every integer and system instruction, two faults each; limits with words of 6 and 5 bits | `RestartTransparent`, `NothingAfterDelivery`, `OneExceptionPerFault` |
| `fpu` | any sequence of the x87 instructions of both engines over three registers, three exceptions, all masks | `ESIsSummary`, `StoppedBeforeMoving`, `StackFaultRecorded` |
| `events` | five programs, each string instruction, five IDTs, counts up to 3, three frames, fair | frames, the shadow of STI and MOV SS, error codes, pending exceptions, repetition; every call ends and interrupts are taken |
| `alu` | shifts of 8, 16 and 32 bits by every count, sums of sample words, products and quotients of all 4-bit words | `MatchesArithmetic`, `JitAgrees` |
| `decode` | every opcode with five prefix sequences in both sizes of code, every address, the longest encodings, one fault, two instructions | `SameOperation`, `SameAddress`, `SameBytes`, `BytesFit` |
| `jit_overlap`, `events_eip` | the same with one more possibility | disagreements with the comments, below |

Bounds.  Two pages are the least for an instruction that crosses a boundary and
for a list with two ends; a third page object exists because the page in
execution may be removed while its successor is allocated, and `NoPageLost`
shows that no more are ever needed.  Instructions of one and two bytes give
every relation between two decodings of the same bytes: equal, one inside the
other, overlapping at the boundary.  `jit_halt` is about what may repeat inside one call: an
instruction that meets an entry already decoded inside it, so that `goto_eip` removes the
page and starts again, and an address that cannot be fetched, met as the first of a
block, where it is delivered, or after others, where it is forgotten until EIP gets
there.  Both happen within a page, so one is enough; a block that ends at a write to CR0
or at HLT, and a page that is removed under way, come in between.  Its handler can be
fetched: `goto_eip` retries for as long as one cannot (`jit_exec.h:6083`), which is the subject of `EveryCallEnds`.
The refinement leaves open at which instruction a fault comes, so a fetch fault raised
too early would not be noticed; one that is lost would.  Three instructions are one that leaves a
flag out, one that decides whether it may and one that reads it, with a page
boundary after the second; no value of a flag, count or operand occurs, so
`CountIdle` and `EcxIs0` stand for every count.  Of the 35 kinds `flags` drops
DEC, SETA, JP, JE and LAHF, which differ from INC, SETG, JS and PUSHF at most in
which flags they read, and `IMUL1`, whose row is wrong (below).  Two entries a
table give a table that is changed and another that is not, a walk that stays
in the same table and one that does not, and the wrap of the last index; four
frames hold a directory, two tables and data.  Two faults are the least for an
attempt that reads what an earlier one changed after it was itself restarted; a
theorem removes the bound.  Three registers give the FPU an empty, a used and a
wrapped position; its other three exceptions are recorded by the same checks.
Words of six and five bits with a page of 16 bytes keep the order of 32, 16 and 12
bits and let every operand, of 1 to 16 bytes, wrap; the theorems remove this bound.
A count of 3 has a first, a middle and a last iteration; three frames are one
more than the deliveries a program needs to fail inside a failure, and let the
stack's end be met (`MaxFrames` is also why `EveryCallEnds` holds: a handler that
is never present pushes frames until there is no room).  Sample words of `alu`
are the corners (0, all ones, the top bit, all but it) and mixed words; carries
ripple through all of them.  `decode` has all 512 opcodes, all operations of
every group and both kinds of operand, all registers of the x87 rows and all SIB
bytes; prefixes come alone, in both orders of one group, repeated, and all four
groups at once.  An opcode reads ModR/M in the same way as any other, so addresses
are swept with one opcode.  Two followers, one per size of code, have operands whose
size, segment and repetition any switch left over would change; one fault is
enough, since an attempt begins with the switches the last one left.  Values of
constants are in the `.cfg` files and the
`MC` modules, with a comment on each.

Fairness.  `FairSpec` has weak fairness of the steps inside a call of the host
(`JitStep`): the JIT runs in the host's thread and never waits.  In `JitPages` the
host itself is not assumed to call anything; in `JitEvents` the call itself is
one of the fair steps, since an interrupt is taken only if the host goes on
executing instructions, while raising an interrupt is never fair.  Deadlock is
checked where the program goes on for ever (`jit_*`, `flags`, `paging`).  It is
not where it may stop: `interp`, `alu` and `decode` end with their instructions, `fpu` exits
at a pending exception, and `events` at an assertion of `dis_insts` (below).

### Disagreements with the source's comments

- `jit_overlap`: `IA32_jit_addr_changed` removes the previous page, whose last
  instruction reaches the written byte, only if the page of the byte has code.
- `events_eip`: CALL near has moved EIP when its push faults, so that the handler
  returns to the target; "not updated yet" says `exception_body` of the EIP it
  saves.  IRET pops into EIP likewise.

### Other deviations met while modelling

They are outside the properties' premises or in their tables of exceptions:

- INSTS_METADATA says of every IMUL that it surely modifies SF (`jit.c:1422`); with
  one operand no word sets it (`jit_compile.h:1224`).  After ADD; IMUL; JS the jump
  sees the SF from before the ADD.  The run `flags` and its proofs leave `IMUL1` out.
- RCL and RCR of the JIT write CF before the result (`jit_compile.h:1512`).  If the
  write faults the restarted instruction rotates through its own carry;
  `OnlyRotationsReadTheirOwnCarry` exempts them, and nothing else.
- `update_eip` has no word for instructions of 13 bytes, or of 15 and more, and
  exits the program (`jit_compile.h:92`); repeated prefixes make any length legal
  for both decoders, which never raise #GP for it.
- An instruction that needs an operand in memory and has a register is #UD for
  the interpreter, and for the JIT an unknown one, at which it exits
  (`jit_exec.h:6225`); other unknown bytes end the program in both engines.
- BT and its kin with a bit offset in a register shift it logically in the JIT
  (`jit_exec.h:6270`) and arithmetically in the interpreter
  (`interpreter_bits_bytes.h:291`).
- `compile_cmps` exits at REPNE with 16-bit addresses (`jit_compile.h:4473`); RET with
  an immediate adds it to ESP or SP by the address size (`jit_compile.h:4063`).
- The first prefix of a group wins in both engines, the processor takes the last; the
  rotations through the carry by an immediate of a byte (C0 /2, /3) are in neither
  table, nor are AAA, ARPL, IN of a word from an immediate port and LOCK.
- `IA32_jit_area_remapped` removes nothing when the range begins outside every
  area (`jit.c:5789`).  `RemapRemovesRange` speaks of ranges that begin in one.
- `IA32_jit_addr_changed` looks for an instruction that begins in the page before only
  within the area of the address (`jit.c:5756`).  `NoStaleOverlap` speaks of
  programs that do not run from one area into the next (`AreasApart`).
- HLT is forgotten when the host invalidates its page (`jit_exec.h:8445`): the
  instance of `jit_halt` has no host writes.  `OnlyHaltIsForgotten` proves that this
  is the only way the guest can notice the cache.
- With a directory that maps itself, the copy of the directory kept as a table goes
  stale (`jit_pag.h:441`); `paging` and its theorems assume private tables.
- An interrupt whose delivery fails leaves `_exception.vec` set (`jit.c:5846`); the
  next block that is decoded stops at the assertion of `jit.c:5354`
  (`AssertionFails`; `NothingPending` exempts it), and `IA32_jit_reset` does not
  clear it.
- `interruption_protected` tests a constant where the type of the interruption is
  meant (`interpreter.c:2054`, `jit_exec.h:5774`), nesting beyond
  `MAX_NESTED_INT` returns 0 where the processor would shut down, and the check of
  stack space uses the D bit of the code segment, not the size of the gate.
- Limits: `ret_near32` has no limit check; reads of 64 and 128 bits through the
  pager translate only their first address.  The test for segments that expand
  down, `(stype&0x1C) == 0x04`, is true of no descriptor of data (`interpreter.c:897`,
  `jit_exec.h:549`): they are taken to expand up.  #AC is raised without its error
  code.  The functions for virtual-8086 mode are missing (`jit.c:2943`).
- `ret_far_protected` answers -1, which is true, when the offset cannot be read or is
  beyond the limit (`jit_exec.h:2341`): the exception stays recorded, the immediate
  of RET is added to ESP, and execution goes on at the EIP of the RET.
- The JIT's BSR and BSF of zero change the destination, the interpreter's do not
  (a comment at `jit_compile.h:6470` says so).
- FISTP of 16 bits stores what the last one left when it has been suspended
  (`jit_compile.h:6172`; `StoresAnyway` of `MCFpu`), and FBSTP of the JIT writes its ten
  bytes one over the other, at one offset (`jit_exec.h:3688`), where the interpreter
  counts it up (`interpreter_fpu.h:717`).
- An underflow in the JIT's FCHS that is not masked ends the program, since
  `exception` is called with no vector (`jit_exec.h:5942`).

## The proofs

`JitPagesProofs` proves, for every set of areas, every page size and every
program, `ListsAlwaysConsistent`: `Spec => []ListsConsistent`.  `ListsConsistent`
(the map, the doubly linked list, the free list, the lock and the phase) with
the list types is inductive as it stands.  The lemmas on `remove_page` and
`get_new_page` show that each keeps the map injective, unlinks or links one page
and leaves the lock consistent; `RemoveLock` is the argument for the page in
execution: removed, it is in neither list until `Stop`.
The second half of the module adds the bytecode, for every program, page size
and length of instruction (`CacheInv`).  Its inductive invariant says that an
entry beyond `PAD_ENTRY` leads into the bytecode of its page, that the bytecode
of every page but the one `compile` is adding to ends in a word the loop leaves
by, that BC_HALT comes after the increment it takes back, that the decoder stays
between `first_entry` and `last_entry`, which is all `get_new_page` clears, and
that `current_pos` and `pos` are in the bytecode.  From it follow `CacheTyped`,
`RecycledAlwaysBlank` and `NeverRunsPastBytecode`: the loop of `exec_inst` never
reads past the bytecode of the page it has locked, removed under it or not.

`NoPageIsEverLost`, in the same module and without hypotheses, says that every page
is reached from `_pages` or `_free_pages`, or held by `exec_inst`, and that there is
never more than one page more than there are slots.  `ListsConsistent` does not
imply it: a ring of pages that point at each other, reached from neither list,
satisfies every equation on neighbours.  `ChainInv` excludes it with a rank, a
function that is smaller at a page than at the next one of its list (`Ranked`), and
with the predecessor of every page but the first (`FreeLinked`).  A page that is put
in front gets the rank 0 and all others one more (`RankPush`); of the pages the
head does not reach the one of least rank would have a predecessor that is not
reached either (`Least`).

The third part of the module goes from the lists and the bytecode to what they are
for.  Its inductive invariant is `JitInv`:

- `BlockInv`: at every entry where an instruction begins, the words of the bytecode
  are those of the bytes it was decoded from, each of these bytes has an entry, so
  that a write to it is noticed, and the words lead on to the next instruction, to
  `BC_GOTO_EIP` or to the place where `compile` will put it;
- `MemInv`: these bytes are the ones in memory, unless the page waits in `doomed`
  to be removed (`DoomInv`);
- `BlockDisInv`: the same of the instructions decoded and not yet compiled;
- `Ready` and `RunInv`: where `current_pos` and `pos` are, with respect to EIP, in
  each phase of a call, also when the page under `pos` is gone;
- `HaltInv`: where BC_HALT is and what EIP is there.

From it follow `CodeAlwaysFresh` and `AlwaysResumesAtEip`; `RemapsRemoveRange` needs no
invariant.  The refinement of `GuestCpu` is proved action by action: a step that
executes the first word of an instruction maps to the instruction of the bytes
in memory (`MemInv`), every other step to a stutter.  One step is neither: a
call of the host between two instructions that removes the page of a HLT makes the
JIT forget that the guest is halted (`Forgets`).  `OnlyHaltIsForgotten` is the
refinement with that step allowed, for every guest; `CacheIsInvisible` is the
refinement itself and `HaltOnlyEndsByInterrupt` what it means for HLT, both from
`HaltKept`: the host makes no such calls or the guest has no HLT.  The
theorems of this part assume `RemapsBeginInAreas`.  Both hypotheses are about what the
host calls, since the code does nothing about either (see the deviations above),
and `MCJitPages` has them as assumptions, so that TLC evaluates them for every
instance.

`NoStaleOverlap`, the last part of the module, is `OverlapIsFresh`: freshness of the
bytes that an instruction has in the page after its own.  `PastInv` says that they are in memory, and that
`overlap_next_page` counts the bytes of the one instruction of the page that can
have any: a second one would find the last byte of the page taken when it is
decoded (`CoversLast`).  A store or a remapping that changes such a byte therefore
finds the page of the instruction in `OverlappingBefore` (`Overlaps`).  It has two
hypotheses more, and without either the code leaves stale instructions.  `AreasApart`:
no instruction is fetched across the end of one area into the next, since the code
looks for the page before only within the area; `MCJitPages` assumes it too.
`StoresFindCode`, of every step: no store hits the last instruction of a page in a
next page that has no code itself, for `addr_changed` then returns before it looks at
the page before.  The run `jit_overlap` finds exactly such a store; the theorem says
that there is no other way.  `StoresFindCode` is about steps, so no run has it as a
hypothesis: `jit_areas` checks `OverlapIsFresh` where the calls of the host meet it.

`Paging32Proofs` proves, for every number of frames and entries:

- `PagerTyped`, `ActivesAlwaysListed`, `TablesAlwaysInRange`, without hypotheses
  on the guest.  The inductive invariant `PagerInv` adds to them that the entries
  not in error have a base address within the range (`Ranged`), because
  `addr_changed` looks for nothing outside it.
- `TlbAlwaysFresh` and `PagerImplementsMemory` under `[]TablesPrivate`: no two
  present entries of the directory share a table, and the directory is not one of
  its tables.  The hypothesis is necessary: `addr_changed` reloads the first of
  the tables at an address, and a directory only as a directory.  It is an assumption on the guest's stores, since the code does
  nothing about it.  The instance of `paging` satisfies it by its choice of
  `Stored`.

`CheckAccessIsTheRule` proves the nested conditions of `paging_32b_check_access`
equal to the rule `PagedMemory` states, for all contexts.

`JitFlagsProofs` proves first `TablesAreSound` and `TemplatesRestart`: for each kind of
instruction but `IMUL1`, the row of INSTS_METADATA says the truth about the words
(a lemma per kind, all alike); and no kind but the two rotations both reads a
flag it writes and can fault after writing it.  From them it proves, for programs and pages of every length and every choice of instructions without
`IMUL1`, the properties of the run `flags` and its types: `FlagsTyped`, `FlagsAlwaysComputed`, `StaleAlwaysDead`, `JumpsAlwaysComplete` and
`RestartsAlwaysClean`.  The inductive invariant `IInv` adds to types that every
flag outside `want[k]` is `Dead` after `k` (`PassInv`, with the same of the pass
under way), and that what is stale is dead from the instruction under way on,
unless it is one it has yet to write (`ExecInv`).  `Dead(f, k)` speaks of the
program from `k`, not of the blocks it was cut into: that is why forgetting a page
and decoding it from another start cannot break it.  The hypothesis on `IMUL1` is
necessary: with it `ReadsAreComputed` fails for ADD; IMUL; JS.

`InsnStepsProofs` proves the types, `StepsTyped`, and `RestartsAlwaysTransparent` for any set
of instructions and any number of faults, from `\A i \in Insns : InOrder(i)`:
no step reads what an attempt cut short may have left, unless an earlier step
has surely set it again.  The invariant is that `stale` lies within `Left` of the
path and that what has been executed and could not go on after a failure is in
`dirty`.  That the handlers and the bytecode are in order, their table of exceptions
granted, is `HandlersInOrder`, an assumption of `MCInterp` that TLC evaluates; together they
remove the bound of two faults from the run.  `QuietAfterEveryDelivery` and `EveryFaultRaisesOne`
do the same for the other two properties of the run, from `QuietAfter` (no step after
one whose handler goes on writes anything, the table `Trails` granted) and
`RaisesOnce` (at most one step of a path goes on after its exception, and none raises
it twice or keeps it for itself, `Doubles` and `Forgets` granted), which `MCInterp`
evaluates as `HandlersQuietAfter` and `HandlersRaiseOnce`.  A handler changed for the
worse is reported by these assumptions, before the run begins.

`SegmentLimits` holds its own theorems, named above.  They have no state: each is
arithmetic over words of any size, from the order of the three sizes (`Words`); a
difference that wraps is taken apart by `Modulo`.

`FpuProofs` proves `FpuTyped`, `ESAlwaysSummary` for any handlers, and
`StopsAlwaysBeforeMoves` from `HandlersOrdered`, which says of each handler that
no step that may end it follows one that moves the stack, and which TLC evaluates
in `MCFpu`.  `StackFaultsAlwaysRecorded` needs `HandlersCheck`: along every handler, what
has been checked for being empty or full (`After`, step by step) covers what each
step uses or overwrites (`Outline`).  The invariant says that what has been checked is
either so or recorded as a stack fault.  `MCFpu` evaluates the hypothesis as
`HandlersChecked`, with the function `Sure` as its witness.

`JitEventsProofs` proves, for every program, every IDT and every size of ECX and
of the stack, the three invariants of the run `events` and its action property
`FaultReportsItsInstructionUnlessMoved`: `ShadowIsExact`, `ErrorCodesAreRight`,
`OnlyInterruptsAreLeft` and `FaultsReportTheirInstruction`.  `IInv` adds what they
need in the other phases of a call: that the shadow is clear from the start of a
call to the end of its instruction, through any deliveries in between
(`ShadowInv`); that what waits for delivery was written whole, vector and error
code, by one macro (`CodeInv`), which is not so of an exception the decoder
forgets; and that EIP is that of the instruction under way until it ends, or until
CALL or IRET has moved it (`OriginInv`).  `ExecStep` says once for all
instructions that each goes on, raises or leaves.

The last part of the module is about repeated string instructions.
`DistancesAreRight` says of every one that `StringOps` lays out, for every prefix and
every subset of the flags, that its words have one `Shape`: a head of one or two
words, words that gather operands, one that applies the operation, words that set
flags, a tail; and that the two distances, which the code counts by hand, are those
of the shape.  From the shape, and from nothing else about the words, follows the
invariant `RepInv`: the position is at the first word of the instruction, in its
operation or at its end; inside the operation ECX is not zero, and what has been
gathered was gathered in this call; `performed` is the count done, plus one between
the word that applies the operation and the one that counts it; and a halted or
forgotten position is the first word.  `StringsRepeatExactly` is `RepeatsExactly` for
every program, count and size of ECX.

`AluProofs` proves `MacrosMatchArithmetic` and `TranslationAgrees`, which are
`MatchesArithmetic` but for products and quotients, and `JitAgrees` but for products:
for words of every width, every count, every flag found and every set of flags read
afterwards.  Their hypothesis is `AluInputs` of `Alu`: the operands have the width
of the instruction, a sum has more than 4 bits (AF), a double shift 16 or 32.

- Sums and differences: `Ripple` and `Borrow` of `AluRef` are recursive functions, and
  so is "n times by one bit".  `ChainExists` and `Repeated` give their values without
  recursion, by a least counterexample (`LeastNumber`): a carry is there if some bit
  below generates it and all in between pass it on.  From this every bit of a sum
  (`PlusBits`), the three flags from bitwise expressions (`SumFlags`, `DifferenceFlags`)
  and that a borrow is the missing carry of the sum with the complement.
- Shifts and rotations: `Moved` is what n steps by one bit leave, in closed form, with
  the count modulo the width, or the width and one for a rotation through CF;
  `MovedStep` is one step more.
- The words of the translator: `Reaches` says of a list of words which registers and
  which flags the machine has after it, whatever the list found; one lemma per word
  and one per instruction (`ShrAgrees`, ...).  A flag word left out is a flag nobody
  reads (`ThenFlag`).  The order counts: `RcrOverWord` reads CF and needs it undecided.
  The invariant `JitInv` says that the first words of the list have run and that none
  but a division has set the fault.

Only model-checked: the properties of `Decode`, which are
facts about two finite tables that a run over all rows decides; products and
quotients, against the reference and, for products, between the engines, since the
provers know nothing of powers of two; and liveness (`CallsReturn`,
`EveryCallEnds`, `InterruptsTaken` need fairness, which the prover does not handle).
The induction theorems of the library cannot be used, as they take an operator for
parameter.  Where a proof needs induction over the naturals it takes a least
counterexample instead (lemmas `Least` and `LeastNumber`, from the well-foundedness of the order of
Nat).

## Not modelled, and what is left

- Values of selectors and descriptors: whether a check of a far transfer, a gate or
  a task switch passes is a choice, so that two checks are never taken to depend
  on each other.  Paths on which the source stops the program are left out.
- AAA, AAS, CLC, STC, LAR, LSL, VERR and VERW in the tables of flags; `_optimize_flags`
  off, where every flag is alive.
- The mnemonic, of 16 or of 32 bits, each row of the disassembler chooses from the
  size of operand or address.
- A store that changes a later instruction of the block under way, against which
  the code has no defence.
- Values of AND, OR, XOR, TEST, BT, BSF, SETcc and the decimal adjustments: one C
  expression each, which a model would only repeat.
- Which register a field of ModR/M names, invalid segment and control registers, and
  the segments of XLAT and string operands, in the comparison of the decoders.
- Floating-point values (`long double` of the host); MMX and SSE, which
  are under `#if 0` in the disassembler, so that the JIT exits at them, and a few
  moves and sums in the interpreter; FCOM and FSUBR of ST(i), at which
  the JIT exits; CPUID's tables; the big-endian variants (`IA32_BE`).
- `jit.c` from 3019 to 5175 prints bytecode for debugging, and from 290 to 1268 numbers
  the words; with `print_pages`, tracing and the text of the disassembler they are
  output only.
- Theorems worth having next: products and quotients of `Alu`, with a recursive
  function for the powers of two.
