# BB6502 in TLA+

BB6502 is a 65C02 computer in Verilog: a CPU core with a memory management unit
of its own, a disk controller, a serial console, a boot ROM, and a small kernel
that runs up to four programs cooperatively. This directory models the parts
where its own logic is, checks them with TLC on small instances and proves the
most important properties with TLAPS for every instance.

Paths below are relative to the repository's root.

## 1. The system

| Component | Where | State | Operations |
|---|---|---|---|
| MMU and bus | `rtl/mmu6502.v`, `rtl/tb.v` | page table, user and write bits, mode, fault register; NMI input, RAM | translate, register read/write, fault, mode switch on VPB or fault |
| Disk controller | `rtl/tb.v` | LBA, 512-byte buffer, data pointer, busy, error; the image file | register accesses, read and write command |
| Block driver | `sw/kernel/src/block.c` | its loop counters, `zp_ptr` | `block_read`, `block_write` |
| Boot ROM | `sw/boot/boot.s` | `ZP_PTR`, `ZP_COUNT`, `ZP_LBA`, `$FE/$FF` | reset, load the kernel; trampoline, `ret_user_mode`, NMI |
| Loader | `main.c`, `proc.c` | `plist`, `nprocs`, `block_buf` | `spawn_bbx`, `main` |
| Scheduler and switch | `proc.c`, `yield.s` | `plist[].state/SP/mmu_ppn_table`, `plist_idx` | `schedule_process`, `do_yield`, `sched_start` |
| System calls | `brk.s`, `syscalls.c`, user side `syslib.s` | `ZP_SYS_NUM`, the caller's syscall block and stack page | BRK entry, dispatch, nine services, stubs |
| Console | `tb.v`, `kernel.c`, `boot.s`, `tools/gpu.c` | receiver and transmitter registers, keyboard file and read position, FIFO, 80x25 screen | poll, send, receive, draw |
| Debugger | `rtl/dbg/`, hooks in `tb.v` | mode, step count, breakpoint list, symbols, typed keys | stop, step, continue, breakpoints, reset, dump |
| Image tools | `tools/*.py`, `tools/mkbbx.c` | none | sequential conversions |

How they interact. Everything the CPU does goes through the MMU: RAM addresses
are translated in user mode and left alone in kernel mode. A program calls the
kernel with BRK: the CPU pushes its frame onto the *program's* stack page, the
vector fetch (VPB) switches the MMU to kernel mode, the ROM jumps through
`$FE/$FF` to `_brk_handler`. The handler finds the frame, the call's number, the
arguments and the buffers by translating addresses itself, with the page table
that is still in the MMU. From there on the kernel's own pushes go to physical
page 0, at the *program's* stack pointer. `do_yield` saves SP and page table in
`plist` and loads those of the next program; `ret_user_mode` leaves kernel mode
and the RTI pops the frame on whatever stack page is mapped by then.

The console is three processes: the simulation, the monitor `gpu.c`, and the user
behind either keyboard. Characters go from the software to the ACIA and, through
a FIFO, to the monitor's screen; keys go through a file that the monitor and the
debugger append to and the test bench polls. The debugger is called by the test
bench once per instruction, and simulated time stands still until it returns; it
acts on the machine only by not returning, by a reset request that the test
bench turns into a pulse, and by ending the simulation.

What is hard. There are no threads and no interrupts, but (a) two programs'
contexts are swapped under one instruction stream, and a mistake made at one
switch is executed at another; (b) four pieces of code translate addresses by
hand and must agree with the hardware; (c) the MMU acts on the falling and RAM
on the rising clock edge; (d) the disk and the console are polled register
protocols; (e) loading goes through several steps that can each fail, and the
results are ignored; (f) a reset can come at any instruction and keeps RAM;
(g) the debugger's mode, step count and reset pulse evolve over many calls, and
its command line shares the keyboard with the program; (h) the monitor starts
and draws at its own pace.
`PROJECT.json` lists these hazards line by line.

## 2. Modules

| Module | Models | Refines / extends |
|---|---|---|
| `AddressSpace` | MMU translation, `spawn_bbx`'s page table, `u_zp`, `u_ptr`, the handler's two pointers, the loader's copy target | |
| `Mmu` | MMU and bus, one clock edge per action | |
| `Coroutines` | what the kernel promises: programs with private registers, stack, syscall block; only `sys_yield` passes the turn | |
| `Kernel` | the run time: stubs, BRK entry, services, scheduler, switch | extends `AddressSpace` |
| `KernelRefinement` | where `Coroutines`' state is in `Kernel`'s | `Kernel` implements `Coroutines` |
| `BlockDevice` | what `block_read`/`block_write` promise: one request moves one sector or fails | |
| `Disk` | driver and controller, one register access per action | implements `BlockDevice` |
| `Startup` | boot ROM, kernel start, loader, then the programs' memory use; resets | extends `AddressSpace` |
| `Console` | ACIA and GPU port by the clock, `puts_inline`, `k_print`, the key calls, the monitor's start and loop | extends `Screen` |
| `Screen` | the monitor's text grid, and the endless sheet it should show the end of | |
| `RunControl` | what the debugger promises: an instruction runs only when asked for, never past a breakpoint, no stop without a reason | |
| `Debugger` | hooks and reset pulse of the test bench, `dbgOnFetch`, the modes, the command loop, one action per command | implements `RunControl`; extends the next two |
| `Breakpoints` | the breakpoint array: growth, names' memory, removal by shifting | |
| `DebugSymbols` | reading the symbol files, looking names up | |
| `MemoryView` | `simReadMem` against the read mux, the rows and the arguments of `m` | extends `AddressSpace` |
| `AddressSpaceProofs`, `MmuProofs`, `KernelProofs`, `DiskProofs`, `StartupProofs`, `ConsoleProofs`, `DebuggerProofs` | theorems about the module of the name (`AddressSpaceProofs` also about `MemoryView` and the probes of `MCAddressSpace`) | |
| `Induction` | induction over numbers, folds and recursive functions, as lemmas about sets | |
| `MC*` | instances for TLC | |

`Kernel` begins where `Startup` ends (`main` has spawned the programs), and
takes from it that the programs' page tables are distinct (`KernelAssumption`,
established for `spawn_bbx`'s tables by `StackPagesDistinct`). `Kernel` uses a
block call as one step, which is what `Disk` implements.

Definitions named "seeded fault" are wrong forms of the definition next to
them. They are used by nothing; `PROJECT.json` pairs each with a property that
notices it.

### Correspondence with the code

`Kernel`. `at` is `"user"` or the kernel routine the CPU is in, `pc` the user
address as `<<process, place, call>>`. `stk[page][offset]` are the stack pages
cell by cell: a return address is two cells (`Lo`, `Hi`), the status byte is one
and carries the B flag and the carry; popping two halves that do not belong
together gives `Lost`. All pushes and pulls go to `ppn[0]`'s page in user mode;
`KernelWork` is what the kernel's JSRs write at the caller's SP on page 0. The
syscall block is `abi[page]`. A register the code may not rely on holds `Junk`
(`Clobbered` after the kernel has run). `CallStub`, `Brk`, `BrkHandler`, one
action per service, `DoYield`, `RetUserMode` and `StubReturn` follow one call
around; `Compute`, `Push` and `Pull` are anything a program may do in between.

`Mmu`. A byte is the set of its 1 bits, so widths are constants. `Fall` is the
two negedge blocks, `Rise` the NMI register (`NmiRegister`) and the RAM write of
`tb.v`, together with the CPU putting the next cycle on the bus. The CPU is any legal sequence of
cycles. `owed`, `written`, `began` and `hit` only record what happened.

`Disk`. `pc` is the place in `block_read` or `block_write`; `Drain` and `Fill`
move one byte. A sector is two pages of `PageLen` bytes, as the X and Y loops see
it. Blocks past the end of the image read as zeros and `disk_lba * 512` does not
overflow, so an image is a function on all block numbers.

`Startup`. RAM is 64 sectors with a tag saying which block was copied there or
who wrote last; the kernel's writes to its own variables are not recorded.
`LoadSector` is one turn of the boot ROM's loop with its byte-wise counters,
`SpawnHeader`/`SpawnBlock`/`SpawnDone` are `spawn_bbx` between its returns.
`MachineReset` is the debugger's. `nprocs` is 0 whenever the kernel starts
because its BSS lies inside the loaded, padded image (`kernel.cfg`).

`Console`. A device cycle (`Cycle`) is the four clocked blocks of `tb.v` together:
`Transmit`, `Receive`, and the writes. `at` is where the software is; every
software step takes one cycle, and `Idle` is any number of cycles in between.
Keys are numbered as they are typed, so order and loss can be stated. The FIFO
is `gpu` beyond `drawn`; a write to a full one blocks the whole simulation, which
is why `GpuWrite` has a guard. `since`, `overrun`, `asked`, `got`, `early` only
record. `Screen` is `put_char` as a function on a record of grid and cursor.

`Debugger`. `clk` says which clock edge is next; `Posedge` is the CPU, the latch of
`dbg_fetch` and the reset counter, `Negedge` the edge without a call. The call is
one of `HandleStp`, `StopAtOnce`, `Run`, `Step`, each a path through
`dbgShouldStop`; when it stops, `ui` is `"command"` or `"stp"` and the machine
holds until a command resumes it. The CPU is `Follow`: which instructions may
come after which. `tty` holds keys typed and not read, whoever will read them.
`Breakpoints` makes each turn of `dbgRmvBp`'s loop a step, and `heap` is the
memory its entries own. `m` asks for the addresses it was not given: its questions
are the values `"from"` and `"to"` of `ui`, and a line typed ahead as a command may
become an answer. Commands that only display are one action, `OtherCommand`. The
symbol table is opened by the first file that can be read (`OpenTable`, or
`OpenTableFails` when its `malloc` fails).
`RunControl`'s state is in `Debugger`'s as the substitution in `Control` says: the
instruction at hand, whether it may run, how many more may follow.

## 3. Runs

| Run | Question | Instance |
|---|---|---|
| `address_space` | do the hand-written translations agree with the MMU? | all 8 blocks, all 32 pages, 13 offsets around byte, 256-byte, sector and page boundaries, SP at both ends and around the frame's wrap; dumps from each of these and from the same places in the upper half |
| `mmu` | what happens across half clocks? | 4 pages, 2-bit bytes, 1-bit frame numbers, writes to each kind of register |
| `disk` | does the register protocol move the right bytes? | 4 blocks of 4 bytes, 2-byte block numbers, overlapping buffers, 3 calls in a row, with and without image |
| `kernel_switch` | do contexts survive? | 2 programs with different registers, 1 pushed byte, yield and getc |
| `kernel_services` | does every service act on its caller? | all nine calls of `syslib.s` between two programs, a reserved number, exit and return from main |
| `kernel_fair` | does everyone get on? | 3 programs, fairness |
| `startup` | is what runs what was on the disk? | 3 programs of 1, 7 and 2 blocks, kernel from block 253, any overwritten heads, blocks 0, 214, 220 unreadable or the whole disk, 2 resets |
| `debugger` | does the machine stop where and only where it should? | 5 instructions, 2 breakpoint addresses, 2 keys typed ahead, 2-cycle reset, poll every 2nd instruction, 2 symbol files |
| `console` | does every character and key arrive, once and in order? | 6-cycle transmitter, 2-bit bytes, 1-byte FIFO, 2x2 screen, 3 keys, 8 characters, 1 reset |
| `address_doc`, `startup_doc`, `debugger_doc` | three statements of the sources that do not hold | see below |

Why the bounds are enough. *Kernel*: every pair of a leaving and an entering
process occurs with two; three are used where order matters. The stack page has
16 cells, more than the deepest use (crt0's JSR, one pushed byte, a stub and a
frame: 11), with one byte of depth enough to make frames sit at different
offsets. The proofs cover all sizes. *Mmu*: two bytes of permissions and one
entry written is the least where a wrong byte, a wrong entry and a stale bit
differ. *Disk*: two pages of two bytes, two LBA bytes and a third call make both
loops wrap, carry the block number and meet the pointer and registers of an
earlier call of each kind. *Startup*: block 253 makes the kernel's block numbers
carry into the second byte, seven blocks bring hello2's image to the sector
before disktest's C stack; a second reset meets the state a first one left. *Debugger*:
the program has a one-byte instruction before a two-byte one, so a breakpoint on
the next instruction and one on its second byte differ, a branch back to run over
a breakpoint again, and an STP; an array of one entry grows at the second
breakpoint, and two entries at one address stand next to each other; the symbol
table grows while the second file is read and both files define one name. Two
typed keys are enough to have a Ctrl-C behind another key, and a command and its
Enter. *Console*: six cycles leave time for everything the software does between
two characters, as 87 do, and still make it wait; the banner wraps Y within the
message and carries at its end; a 2x2 screen wraps and scrolls within a message;
three keys are one in the register, one in the file and one to come.

What they show, beyond agreement with the code as read:

- `ImplementsCoroutines`: programs cannot tell the kernel from one that gives
  each its own CPU, except for `sys_yield`'s order and `sys_exit`'s stop.
- `KernelIntact`, `ProgramsIntact`: the fixed memory plan of `main.c` works as
  long as images stay below eight sectors and the kernel below `$0E00`; the C
  stack of each program is in the block *below* its own (for hello the tail of
  the kernel's), as `docs/memory-map.md` says. `GETTING_STARTED.md:180` ("Each
  process uses blocks `base` and `base + 1`") leaves that block out.

- `ImplementsRunControl`: no cycle of the machine, no order of commands and no
  typed-ahead key makes the debugger let an instruction pass that it should have
  stopped at, and a reset is never seen as an instruction. The step mode's
  wider range (below) is part of the abstract specification, as `Near`.
- `KeysArrive`: keys the debugger sends after the monitor has opened the FIFO, which
  starts the simulation, and before it truncates the keyboard file may be lost, and
  as the test bench's read position does not go back, later keys instead of those it
  had already read. There are never more lost than were sent that early (`early`),
  none is lost behind the first `2 * early`, and none is ever doubled or reordered.
- `KernelFindsFrame`: the handler reads BRK's frame with `(zp),y`, which leaves the
  stack page where the CPU's pushes wrap. It finds a byte exactly if that byte did
  not wrap: a program has to keep SP above 2 when it makes a call.
- `DumpShowsMemory`: a dump ends and shows its range also at `$FFFF`.

Three runs are expected to fail:

- `startup_doc`: `main` ignores `spawn_bbx`'s results. With no program loaded the
  scheduler starts anyway and RTI finds no frame.
- `address_doc`: `syscalls.c` says that a buffer over a page boundary is not
  physically contiguous. With `spawn_bbx`'s tables it is.
- `debugger_doc`: the manual says that `s n` stops early at a breakpoint.
  `dbgCheckIfAtBp` is asked for the range from the instruction to its end, both
  included, and the end is the next instruction: a step command stops one
  instruction early, at one that has no breakpoint.

Also met while modelling, with no run of its own: a user store that faults is not
suppressed. The MMU is back in kernel mode by the time RAM takes the store, so it
goes to the physical page of the virtual page's number. `StoresLand` says so.

### Fairness

`Kernel!Fairness`: weak fairness of the CPU (the clock runs; it executes
something or polls), weak fairness of `KeyArrives` (somebody types; without it
`do_getc` holds the machine, by design), and strong fairness of each program's
call of `sys_yield`: the demo programs' loops call it in every round, and
`docs/processes.md` states that a program that never does keeps the CPU. Strong,
because a program's other calls disable that call again and again. `Disk` and
`Startup` need only that the CPU keeps running. `Console` needs that the simulation
runs on and that the monitor is scheduled, both weakly, and nothing of the user or
of what programs call; `Served` says of a reader only that it gets a key that is
there. `Debugger` needs that vvp simulates while it can, and that every
instruction of the program ends (strong fairness of the positive edges at which
one is fetched: the CPU may take any number of cycles, and a clock edge is not
always positive). It assumes nothing of the user: a prompt may wait for ever.

## 4. Proofs

`tlapm` checks every theorem and lemma of the seven `*Proofs` modules and of
`Induction`. All invariants and action properties of the passing runs are proved
for every value of the constants, and so are the three refinements; what is left
to TLC is liveness.

**Induction.** A theorem of the library about induction takes the property as an
operator, which the provers at hand cannot instantiate. A property of numbers
is therefore used as the *set* of the numbers that have it: `LeastNumber`
(from the well-foundedness of inclusion on finite sets) gives
`InductionOverNat`. `FoldExists` and `RecursionExists` say that the functions by
which `FoldLeft` and a recursive function are defined exist. On them rest
the digits of a block number (`Disk`), the folding of characters into a screen
(`Screen`), the first symbol of a name (`DebugSymbols`) and the rows of a dump
(`MemoryView`).

**AddressSpaceProofs**: for every page table and address, `u_ptr`, `u_zp`, the
number pointer are the MMU's translation, and the frame pointer is where the frame
does not wrap, and only there; `spawn_bbx`'s
tables are rotations of the identity, hence permutations, with distinct stack
pages for distinct blocks; a block transfer reaches the caller's bytes exactly
if it does not run over the end of RAM; `simReadMem` takes a byte from where the
CPU's read would. The run's seven invariants follow for any offsets,
stack pointers and dump lengths (`ProbeAssumption`). For `DumpShowsMemory` the
recursion over rows is unrolled into `RowsFrom`, flattened by
`DumpFlattens`, and a range given, asked for, or half of each is followed through
the truncation to 16 bits (`RangeTaken`). Borrow and page
arithmetic is split into division facts because the SMT solver does not decide
`\div` and `%` over large terms.

**MmuProofs**: `OneNmiPerFault` is inductive together with the relation between
`faultReg`, `nmi` and the edge; `StoresLand` needs that between the edges the
mode and the table change only by a fault, a vector fetch or a control write,
none of which is a RAM store, and that a fault leaves the MMU in kernel mode.
`ReadBack` splits a write by the register it goes to: a byte of the permission
bits replaces its row of pages and no other.

**KernelProofs**, from `KernelAssumption` (one to four programs with distinct
stack pages, none the kernel's; anything else arbitrary) and `StackRoom` (what a
program has pushed, two bytes of crt0's JSR and the eight of a call fit its stack
page, as they must for any of this to hold on a 6502, whose SP wraps silently):

- `SchedInv`, the inductive invariant behind `OneRunning` and `RoundRobin`:
  `plist_idx` is a process, exactly that one is running, the saved tables are the
  programs' own and the MMU holds the current one. It is stronger than
  `OneRunning` because `RoundRobin` needs to know that the scan always finds the
  next process waiting (`ScheduleTakesNext`).
- `ContextsUntouched` follows from it: user pushes go to `ppn[0]` of the running
  process, kernel pushes to page 0, and the pages are distinct (`PagesApart`).
- `TypeOK` is inductive with `SchedInv` and the fact that between a call's number
  being read and served it stays one of the programs' calls (`TypeInv`).
- `RightProcessRuns` needs `FrameInv`, which says cell by cell what is on the
  stack pages: at each user address what RTS will find, in each kernel routine the
  frame of the call it serves, and under every suspended process's saved SP
  the frame of its `sys_yield` or the one `spawn_bbx` forged (`Suspension`).
- `KernelImplementsCoroutines` maps each action to a step of one program, to
  `sys_yield`'s passing of the turn, or to a stutter; what a suspended program will
  see when it resumes is read off its frame.

**DiskProofs**, for any sector of two pages, number base and number of bytes in a
block number (`DiskAssumption`: these are not degenerate, and every buffer lies
in memory): `DiskInv` says that in the middle of a transfer the driver's counters
(X, Y and `zp_ptr`, or `i`) and the controller's pointer agree on the next byte,
that the bytes behind it have arrived, and that the digits behind `k` are in the
LBA registers; that all digits together are the number again is an induction
over them. `DiskImplementsBlockDevice` is the refinement: one `BlockDevice`
step for each call, its command and its return. `CallsAdvance` is `CallsComplete`
without the fairness: the driver never has to wait, and each of its steps makes
the number of those that are left (`Remaining`) smaller.

**StartupProofs**, for every memory plan that fits. `LayoutAssumption` says what
fitting is: the kernel's blocks and the programs' are different blocks of the
disk, a program's zero page, stack and image are nobody else's and no other
program's C stack, the kernel's image ends before the first program and before its
C stack, and no image reaches the kernel's variables. `main.c`'s table and the sizes
`kernel.cfg` gives satisfy it (TLC evaluates it for the instance of the run);
`docs/memory-map.md` asks for the same. `StartupInv` is inductive: the boot ROM's
loop stands after n sectors with pointer, block number and count in step
(`Loading`), `spawn_bbx`'s after b blocks (`Copying`), every counted process has its
program in place (`Placed`), and nothing writes below the first program but
the boot ROM (`KernelUntouched`). `Counted` is there because `sched_start` takes
`plist[0]` for a process without looking at `nprocs`, and `plist` keeps
what a reset left there: if it ever got an SP, some program is loadable, and
then this boot has loaded one too. The invariant was checked by TLC on the run's
instance before it was proved.
`NeverStranded` is the safety half of `Boots`: a machine with a good program never halts,
hangs or leaves the kernel through a missing frame (on the run's instance `Boots` says so
too, since nothing but a reset leads out of those states). It adds `Fresh` (from the first
load to `sched_start` process 0 is one of this boot, with `spawn_bbx`'s frame still on its
stack, although `plist` and RAM keep what the boot before left) and `Reasons` (which
fault of the disk each dead end needs). `BootAdvances` is what else `Boots` needs: a
natural number (`Remaining`) that every step but a reset makes smaller until a
boot has ended.

**ConsoleProofs**, from `RomAssumption` (after each call of `puts_inline` in the ROM
comes a string that ends in a zero, and code that goes on to the next call or to the
kernel, as `boot.s` has it, its two messages before a halt aside) and `CharacterAssumption` (the
four control characters `put_char` knows are different and none is printable):

- `TxPaced`: the counter is what is left of the character (`PaceInv`), and the
  software is about to write only after it has seen the ready bit (`WriteInv`).
- `KeysArrive`: the keys read, the one in the register and those of the file
  behind the read position are in order (`OrderInv`). As many keys have been taken
  out of the file as the position says, the file holds all keys typed since it was
  emptied, and those the position has passed have arrived but for the first
  `2 * early` (`CompleteInv`). The three pieces are put together by `IncreasingConcat`.
- `OutputsAgree`: what was asked for is what was sent followed by what is still to
  be printed, which in the ROM is the text from `ZP_PTR` + Y on (`PrintInv`,
  `PlaceInv`). Carries into the high byte are part of it.
- `ScreenShowsPaper`: one character keeps a screen at the end of the endless sheet
  (`PutCharShows`, one case per kind of character), hence any text does.

**DebuggerProofs**, from `BreakpointsAssumption` (the array's first size is not 0
and no block is the null pointer), `DebugSymbolsAssumption` and `DebuggerAssumption`
(each instruction goes to instructions of the program, the reset vector leads to the
first, and no instruction runs past the end of the address space, into the vectors, so
that the 16 bits of `pc + length` do not wrap):

- `BpListSound` is inductive with the types of the list: `ListIsChangedBySteps`
  reduces a step of the debugger to one of the list, `AppendKeepsNames` and
  `RemoveAtKeepsNames` say what growing and shifting do to the names' memory.
- `RemovalIsComplete` needs `ScanInv` as well: no entry in front of the scan is at
  its address. It holds because a removal leaves the index where it is.
- `SymbolTableSound`: of the lines read so far every label's first occurrence is in
  the table and found first, unless a `malloc` or `realloc` has failed (`SymbolInv`).
- `TypeOK` and `DebuggerImplementsRunControl` share `MachineInv`: the debugger is
  called only for an instruction no reset has undone, stands in the command loop
  never at an STP, and a fetch is where the instruction before it leads. Simulated
  cycles that begin no instruction, loading and most keys are stutters.

Only model-checked: the liveness properties `EveryoneRuns`, `CallsReturn`,
`CallsComplete`, `Boots`, `InterruptStops`, `ResetStops` and `Served`, because
fairness and ENABLED are outside the prover's reach (for `Boots` and `CallsComplete`
what they need besides is proved, see above); and the three runs
that refute statements of the sources.

## 5. Not modelled, and the plan

Not modelled: the CPU core (a submodule, used as documented); the debugger's
windows, disassembly and wording, the spelling of its commands, over-long lines
in symbol files; the calls of the simulator interface that only display; SDL
drawing and the monitor's translation of key codes; the end of the monitor (it
takes the simulation with it); the image tools. `spawn_bbx`'s refusal of a fifth
process is in `SpawnHeader` but no memory plan that keeps processes apart reaches
it. `calloc` and `malloc` succeed in `Breakpoints`, as `dbgSetBp` takes for granted;
`realloc` may fail, and in `DebugSymbols` both may. The demo programs are not modelled
as such: `Kernel` runs arbitrary ones. A boot ROM read that fails for a kernel block
alone does not occur (the test bench fails all reads or none), so its unlooked-at error
bit is only met with no image, where the boot record's check stops the machine. An
image of more than 56 blocks would not end below `$8000`, where virtual RAM does, and
is left out.

What could follow: the rest of the debugger's interface to the simulator
(registers and signals read for display), and liveness proofs should a prover for
fairness become available.
