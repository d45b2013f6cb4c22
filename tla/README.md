# A verification of holyos 0.01

holyos is a small kernel for 32-bit PCs: GRUB loads it, it sets up memory, a
PS/2 keyboard and a text screen, and runs a command line. This directory holds
TLA+ modules that model the parts of it that keep state, TLC configurations that
check them on small instances, and proofs, checked by TLAPS, of what holds for
every value of the constants.

Paths are relative to `src/`. Names of operators and variables are those of the
C code where the code has a name. Operators that end in `Mutant` are wrong on
purpose: each is a plausible bug in the definition that follows it, and
PROJECT.json names the property that finds it. Nothing else uses them.

## The system

| part | state | operations | hard because |
|---|---|---|---|
| boot, `kmain` (`boot/`, `kernel/main.c`) | none | initialise everything in a fixed order, enable interrupts, poll for keys | the order; results of some initialisations are not looked at |
| input core (`drivers/input/input.c`) | ring `buffer/head/tail`, `lock`, driver table | push (interrupt), pop and poll (main loop), register, select | interrupt against loop, a spin lock taken by both, a full ring |
| PS/2 keyboard (`drivers/input/ps2/`) | `shift_pressed`; the controller's output buffer | decode a byte, push an event; self-test at boot | edges of IRQ1 while the handler runs; shift against refused events |
| interrupts, PIC, IDT (`kernel/cpu/`, `kernel/asm/`) | handler table, masks | dispatch, EOI, mask, unmask | unhandled and spurious vectors, order of EOI |
| spin lock (`kernel/cpu/spinlock.c`) | one word | lock, trylock, unlock | not reentrant, interrupts stay enabled |
| terminal (`kernel/tty/tty.c`) | line `buffer`, `buf_pos`, cursor | key press, put a character, commands | the buffer's end, wrapping, scrolling, erasing |
| video (`drivers/video/`) | screen cells, driver table | write, clear, scroll, select | - |
| physical memory (`kernel/mm/pmm.c`) | `pmm_bitmap`, `pmm_used_blocks` | init from the memory map, allocate, free, count | 32-bit wrapping, rounding, frame 0 against NULL |
| virtual memory (`kernel/mm/vmm.c`) | directory, tables, `next_virt` | map, allocate, free a page | two allocations in one, tables reached through the identity map |
| heap (`kernel/mm/heap.c`) | block list, `heap_end`, `heap_size`, `heap_lock` | kmalloc, kfree, krealloc, counts | long sequences of splits and merges, growth, reentrancy |
| PCI scan (`drivers/pci/pci.c`) | none | recursive scan | malformed bridges |
| serial, kprintf, strings (`drivers/serial/`, `kernel/kprintf.c`, `lib/`) | none | output, formatting | numeric edges |

How they interact. The keyboard raises IRQ1; `interrupt_handler` calls
`ps2kbd_handler`, which reads the byte, keeps the shift state and calls
`input_push_event`. The loop at the end of `kmain` polls `input_has_events`, pops
and calls `tty_handle_keypress`, which edits the line, runs commands and writes to
the screen through the video driver. This is the only concurrency: one CPU, one
thread, and one interrupt that can come between any two of the thread's
instructions; they share the ring and its lock. The heap takes pages from `vmm.c`,
which takes frames from `pmm.c`; all three are called by the thread only.

What makes each part correct: keys reach the terminal decoded, once and in order,
or are lost to a full ring; a command is what was typed and not erased, and the
screen shows it; a frame, a page and a heap block are in one hand at a time, none
is lost, and a failure leaves things as they were. PROJECT.json lists every part
under `components` and under `hazards` what can go wrong, line by line.

## Modules

| module | models | checked by (run) | proofs |
|---|---|---|---|
| `Boot` | `pmm_init` to `sti`: memory, the controller, the choice of drivers | `MCBoot` (`boot`, `boot_absent`) | `BootProofs` |
| `Input` | the path of a key from the controller to the terminal | `MCConsole` | `ConsoleProofs` |
| `Console` | `Input` composed with `Tty`: the running kernel | `MCConsole` (`console`) | `ConsoleProofs` |
| `EventQueue` | abstract: a bounded queue that may hang | refined by `Input` | `ConsoleProofs` |
| `Tty` | terminal and VGA text screen | `MCTty` (`tty`), `MCConsole` | `TtyProofs` |
| `LineDiscipline` | abstract: what a line editor runs | refined by `Tty` | `TtyProofs` |
| `Interrupts` | dispatch, handler table, both PICs, exceptions | `MCInterrupts` (`interrupts`) | `DeviceProofs` |
| `Pmm` | physical memory manager | `MCPmm` (`pmm`), `MCBoot` | `BootProofs` |
| `Paging` | functions of `vmm.c` over the set of free frames | `Vmm`, `Heap` | `VmmProofs` |
| `Vmm` | virtual memory manager | `MCVmm` (`vmm`) | `VmmProofs` |
| `Heap` | kernel heap over `Paging`, with other callers of `vmm.c` | `MCHeap` (`heap`, `heap_room`, `heap_krealloc`) | `HeapProofs` |
| `PciScan` | enumeration of the PCI buses, the display's probe | `MCPciScan` (`pci`) | `PciScanProofs` |
| `Kprintf` | a log line from format to wire | `MCKprintf` (`kprintf`) | `DeviceProofs` |

`NatFacts` holds the induction and arithmetic lemmas the proof modules share.

`Boot` extends `Pmm` (its memory map and bitmap are the real ones), `Console` extends
`Input` and instantiates `Tty`, `Vmm` and `Heap` extend `Paging`. Where two modules meet
without being composed, one checks what the other starts from: `Boot`'s `Handover` is the
`Init` of `Input` up to the exceptions it names (a byte waits only with its interrupt),
and `Interrupts` justifies the one-interrupt-at-a-time PIC of `Input`.

### Boot

`kmain` runs with interrupts disabled, so its calls are a sequence, `Program`, with `pc`
the next one; the frames `vmm_init` and `heap_init` take, the commands of the constructor
`i8042_init` and of `i8042_check`, the comparison through a null pointer, the
registration of the handler, `video_init` and `tty_init`. Beside it a controller executes
commands late (`ibf`), answers its self-test late (`reply`), and takes bytes of keyboard
and mouse whenever a port is enabled and its one output buffer free. It may be good, fail
its test, never answer it, or be absent with a bus of ones or of zeros. IRQ1 is recorded
while masked; whether the PIC keeps the request of a byte that was read (`latches`) is
open, for emulators and chips differ.

`boot` runs six memory maps scaled so that the largest needs a bitmap that fills its own
first entry, as a map of 4 GiB does, with at most two bytes arriving (one to be drained and
one to slip in, in every order). `KeyboardFound` says exactly when the keyboard is found:
the self-test takes a byte that slips in for its answer, and `best->priority` of a null
pointer reads the word at address 4, which is the second entry of the bitmap on a PC; that
is above a driver's only once four frames of it are in use, which takes a first entry that
was full from the start.
`Handover` says what the loop starts from: a waiting key has its interrupt, an interrupt
without a byte is one the PIC kept of a drained byte, only a mouse's byte blocks the
keyboard, the screen has a driver, and no frame of the kernel's image was given away, as
long as four frames below it were free. `BootEnds` holds with a fair CPU and a fair
controller; nothing makes bytes arrive. Deadlock is not checked: a polling loop that never
ends is a state without a step here.

### Input

The main loop (`main`) and the handler (`irq`) each have a program counter whose
steps are those that touch shared state: poll, lock, take, advance, unlock, handle;
read, lock, push, unlock, EOI. The handler can start between any two steps of the
loop and, as it runs with interrupts disabled, the loop takes no step until it has
finished. The controller is `obf` (a byte waits), the PIC `irr` and `isr`. A keyboard
holds the next byte back until the last is read. `accepted`, `lost`, `handled` and
`typed` are history. A spin is a step that changes nothing.

It shows what is wrong with the code: the loop takes the lock with interrupts enabled, and
an interrupt inside its critical section spins for ever. `Wedged` names that state,
`WedgeIsForever` says that nothing moves again, and every liveness property has it as the
one exception.

### Console

The whole path: each step of `Input` with the terminal unchanged, except that `Handle`
gives the character of the event (`Passed`, by the key map `KeyChar`) to
`tty_handle_keypress`. `console` explores every interleaving for four bytes of one key and
a shift; a ring of three slots holds two events, so that four bytes fill, overflow and wrap
it, and a line buffer of two is filled by them too. Bytes are read once and what the
terminal gets is the decoding, by definition and not by running state, of the accepted
bytes in order (`EndToEnd`); the unlocked poll is safe (`PollNotStale`); the lock excludes
(`LockDiscipline`); a byte always has its interrupt (`InterruptPerByte`); and the commands
that run are the lines as typed (`CommandsAsTyped`), whatever the interrupts did.
`EveryKeyHandled` says that a byte is handled or refused by a full ring unless the machine
wedges; `ImplementsQueue` is the refinement of `EventQueue`.

Fairness is weak, one condition for the steps of the handler and one for those of the
loop: the CPU always executes something, the handler when there is one and the loop
otherwise. Nothing is assumed of the user, and no fairness makes the wedge go away. The
terminal can always take a key, so that `Console` needs no other.

### Tty

One action per key. A character is a model value; the special ones are named. The
buffer is an array with stale bytes and the terminator stored past its end, in the
low byte of `buf_pos`, which is where the structure puts it (tty.h:14-17). The screen
is rows of cells and a cursor, `output` everything written since it was cleared.
`tty` bounds a run to seven keys on two rows of five columns with a line buffer
of four: a prompt of two characters and a line of four wrap, two lines scroll, and
the buffer fills. `ScreenIsTail` compares the screen with that of a terminal tall
enough never to scroll; `SeenIsLine` says the screen ends with prompt and line unless a
back space has met a tab or a wrapped line (`slipped`): the code that would move to the row
above (tty.c:91-92) is inside the test `xpos > 0` and never runs. `ImplementsLine` is the
refinement of `LineDiscipline`, whose only licence is to lose a full line: line 57 then
stores the terminator in `buf_pos`, and what was typed is not executed.

### Interrupts

`stack` is the nest of interrupts being served, `words` what they have left on the kernel
stack, `imr`, `irr` and `isr` those of both controllers with the slave on line 2. Stubs
disable interrupts, so IRQs do not nest, but exceptions do. Registering a handler takes two
steps, storing and unmasking, with interrupts possible between them. `interrupts` has three
devices (one on the slave), handlers asked for six vectors, two exceptions, one of which
pushes an error code, and four events of the environment, three deep. `ReturnsClean` says
that every return leaves the stack and the controllers as they were: each interrupt's
lines are in service until its EOI and none else. `StopCause`: the machine stops only for
an exception or a spurious interrupt nobody handles. `Served`: a request is served unless
the machine stops or its line is masked, by line 2 too for the slave's, which
`pic_unmask_irq` never unmasks. The CPU takes a pending interrupt (weak fairness of
`Serve`); nothing makes drivers register. Vector 17 pushes an error code that its stub
(`ISR_NOERR`) does not expect; it is not among the run's exceptions, because alignment
checks need user mode, which this kernel does not have. Deadlock is not checked: `hlt`.

### Pmm

`pmm_init` is a function of the memory map, with the uint32_t arithmetic of the code;
allocation takes the lowest free frame. `pmm` runs 36 maps in an address space of
32 bytes with frames of two: aligned and unaligned regions, a hole, regions that end at
the top or wrap. `Ownership` is the main invariant. `OwnedIsUsable` says that a frame in use is
available memory, clear of the bitmap. `FreeCountSkew` says by how much the free count is
off: reserved frames stay set but are not counted as used (pmm.c:98-101), so that
`pmm_get_free_page_count` is above the number of pages `pmm_is_page_free` calls free.

### Paging and Vmm

A virtual page has an entry (the frame, or 0), each directory slot a table's frame.
After `vmm_init` tables are written at their physical addresses, which works while the
first table maps them to themselves (`Reachable`); anything else ends the model in
`faulted`, as the kernel's handler halts the machine. `vmm` uses tables of six
entries so that the second table is needed after six pages, and lets pages be freed
twice and `next_virt` pass the end: properties hold until it wraps (`Wrapped`), and what
happens then is explored up to the fault it leads to. Frame 0 is never free at boot on
a PC, where it holds the bitmap, but freeing an unmapped page releases it.

### Heap

The list is the sequence of its blocks in order; `heap_end` is a variable of its own,
and a page is linked after the block it points to, wherever that is. `UsedByte` is what
the frame of a new page holds, because `heap_expand` does not write it. Other code
allocates and frees pages between calls, and may leave its frames dirty. The model
stops where the code's behaviour is no longer defined: after a fault, in the self-deadlock
of `krealloc`, and when a block reaches into memory of others (`Overreach`).
`heap` has pages of twelve bytes with headers of two, so that a page holds two blocks of
the small request, up to three heap pages, up to three pointers held at a time, and a
request whose rounding wraps to 0 beside the ordinary ones; a table boundary is met by
`Vmm`'s run.

### PciScan

The recursion of `pci_scan_bus` is an explicit `stack`, one frame for each call; one step
looks at one function. `StackDepth` is what the 16 KiB of boot.s hold. `pci` runs the scan
over 6,561 configuration spaces of three buses with bridges to every bus, up, down and
back. `ScanIsExact` compares what was listed with the functions behind the host bridge,
defined by a least fixed point and not by a walk; a gap in the functions of the host
controller hides what follows it (pci.c:155). `StackSuffices`: on buses numbered as firmware
does, upwards, the recursion is no deeper than there are buses; a bridge that leads back
makes it leave the stack. `ScanEnds` is its end, and compares the list with the probe of
`vga.c`, which looks at function 0 only. Deadlock is not checked: the scan ends.

### Kprintf

One step is one turn of `vsnprintf`'s loop. A format is a sequence of items, text or a
directive with its argument, and characters are codes; `itoa` and `itoh` are recursive
functions that follow the loops of the code (`Digits`; `Start` and `Rest`). An int has
`HexDigits` hexadecimal digits; an argument is of its directive's type; and what lies
beyond a format (`Beyond`) has no second `%` before a terminator. The run `kprintf` has an int of eight bits, every
number in both bases, every line of up to two items of nine kinds, a `%` at the end, seven
buffer sizes, and a serial port that is good, fails its test, or is never ready.
`LineIsFormatted` compares with numerals by place value, of `Whole`, the items the loop
comes to with room for all of them; it holds but for the smallest int
(`itoa` gives `-(`), a `%` before the terminator, which makes the loop run on into what
follows it in memory, and `sprintf`, whose SIZE_MAX wraps the buffer's end to below its
start so that it stores nothing (nothing calls it). Directives with a width, as the
`0x%02X` of several log lines, are not supported by the code and come out as typed.
`LineSent`: the line leaves the machine whole and in order; weak fairness of the CPU and of
the port's shift register. Deadlock is not checked: the call returns.

## Findings

Each of these runs is expected to be violated; PROJECT.json quotes the lines.

- `boot_absent`: without a controller the constructor waits for ever before the check
  that would notice.
- `heap_room`: `heap_expand` takes a 4 KiB page for 64 KiB.
- `heap_krealloc`: a growing `krealloc` waits for its own lock.

Passing properties state the others exactly, as their exceptions: `WedgeIsForever` and
`EveryKeyHandled` (the interrupt inside the loop's critical section), `ImplementsLine` and
`CommandsAsTyped` (a full line is not executed), `SeenIsLine` (the back space in column
0), `FreeCountSkew` (the free count), `NullMeansFull` and `CleanFailure` (frame 0),
`OwnedIsUsable` and `InitStaysInBitmap` (unaligned regions, 4 GiB),
`FaultOnlyBeyondLowMemory` (the second page table), `UsedIsHeld` and `SmallRequestServed`
(recycled frames), `OverreachOnlyAtGaps`, `HeldBacked` (rounding that wraps),
`KeyboardFound` and `Handover` (a byte taken for the self-test's answer, the null pointer's
priority, the missing driver, the mouse), `Served` (the cascade line), `ScanIsExact` and
`StackSuffices` (gaps, bridges that lead back), `LineIsFormatted` (the smallest int, `%`).

## Proofs

TLAPS proves, for every value of the constants that satisfies the named assumptions, the
theorems PROJECT.json lists. The properties they state are those of the runs. The
arguments:

- `ConsoleProofs`, the path of a key. `TypeCorrect`. `ControlInv` ties both program
  counters to the lock, the controller and the PIC, and gives `MutualExclusion`,
  `NoLostInterrupt`, `PollIsStable` and `WedgePersists` (mutual exclusion alone is not
  inductive: that the loop finds the lock free needs that the handler has released it
  when it returns). `DecodeInv` keeps the books of the handler: which bytes it has
  accepted, and that the shift flag is that of the bytes read so far. `StreamInv` keeps
  those of the loop: `handled`, then the event in the loop's hand, then the ring from
  `tail` to `head` are the accepted bytes in order. Together they are `EndToEndHolds`,
  and, with the ring as a sequence, `QueueIsImplemented`, the safety part of
  `ImplementsQueue`, one lemma per step.
- The terminal at the end of that path. `ConsoleIsInput` carries all of this to the
  kernel with its terminal, and `CommandsTyped` is the theorem about the whole of it: by
  `TerminalInv` line and commands are at each step what the reference editor makes of
  the events handled, and by `StreamInv` those are the keys as typed.
- `TtyProofs`. `TtyImplementsLine` from `LineInv` (the buffer holds the typed line and 0
  after it, which is why `strlen` finds its length). `ScreenTail` compares the screen
  with the page character by character: their rows agree counted from the cursor, and
  below its cursor the page is blank (`Beside`), without which the blank row of a scroll
  would differ. `SeenIsTyped` from `SeenInv`: the prompt and the line end at the cursor,
  which every printable character extends and a back space in a row shortens.
  `CursorOnScreen`, `PromptKept`.
- `BootProofs`, first about `Pmm`. `PmmInv` is the types, `Ownership` and the book of the
  counter (that `pmm_used_blocks` never goes below zero needs the book); from it
  `OwnershipHolds`, `FreeCountHolds`, `NullMeansFullHolds` and `OwnedUsable` (a frame in use
  is available memory, from the arithmetic of the memory map), and `InitStays`, about the
  function `pmm_init` alone. Then `Boot`: `BootIsPmm` carries all of this to the boot, which
  refines `Pmm`, and `KeyboardIsFound` and `HandsOver` follow from `BInv`, which says by the
  place in `Program` what the controller will be once it has executed the command it has
  (`Due`, and nothing else pending but one answer), what waits in its buffer and at the PIC
  by when it came (`Arrivals`), and what has been decided (`Drivers`). Neither property is
  inductive: that the read at the self-test gets the answer unless a byte came in between
  needs that both ports are disabled when `AA` is executed, and this that no command is
  ever lost. Frames are counted below the image (`Frames`): four are taken, each the lowest.
  For the same reason a bitmap whose first entry has a free frame has at most the three
  lowest bits of its second set when the priorities are compared (`Low`), and 7 is below 10.
- `VmmProofs`, first about the functions of `Paging`, then `Vmm`. `VmmInv` has two
  phases. Until `next_virt` wraps (`Early`) every frame has one use and every table lies
  in low memory; afterwards (`Late`) allocations overwrite the identity map from page 0
  on, and once the page of the directory is overwritten every call faults, so that
  `next_virt` never comes back to `FirstPage`. It gives `FramesAreConserved`,
  `IdentityIsKept`, `FailuresAreClean` and `FaultsAreOutOfLowMemory`.
- `DeviceProofs`, first about `Interrupts`. `ServiceInv` says that only the outermost interrupt can be one the
  PICs gave, all inside it are exceptions, its lines are the ones in service, and an
  unmasked line has a handler; `ReturnsAreClean` and `StopsForCause`. Then `Kprintf`:
  the digits `itoa` collects are those of each place (`DigitsAre`), the first loop of
  `itoh` stops at the highest place (`StartIs`) and the second writes the places from there
  down (`RestIs`: a digit of a remainder is that of the number, `DigitOfMod`), so that
  what is stored for an item is what it stands for (`StoredIs`). `Building` says that the
  buffer is what the first n items store, cut at its end, and that the others are left;
  once the cut is reached later items change nothing (`CutStays`). `LinesAreFormatted`.
- `PciScanProofs`. `ScanInv`: every call walks a bus behind the host bridge, has listed
  what comes before its place on that bus, and a bus entered is being walked or has
  been. `StackIsEnough`: on numbered buses each call is on a higher bus than its caller;
  `ScanFindsAll`.
- `HeapProofs`, all seven safety properties of the heap from one invariant, `Whole`, of the
  record a call works on (`Heap` during a call). The list is in the order in which its
  pages were handed out (`Listed`): every block ends where the next begins or before it,
  in an order of addresses (`Key`) in which those below `FirstPage` come last, as
  `next_virt` gets there only past the top, and all of them below `next_virt` (`Top`). Addresses alone would not do:
  after the wrap the newest block has the lowest address, and a merged block can reach
  over pages of others. The memory manager is `Sound` for the pages handed out, so that
  none is handed out twice: `next_virt` never gets past the page after the directory's
  (the lemmas are those of `VmmProofs`, by INSTANCE). Sizes and headers add up to
  `heap_size` (`Bytes`); a heap without a first page is `Barren` and never gets one, as
  `heap_expand` would link it to nothing; every pointer is backed (`HeldIn`), every used
  block held or lost (`UsedIn`). These give `TypesAreKept`, `BytesAreAccounted`,
  `ListIsWhole`, `PointersAreBacked` and `UsedBlocksAreHeld`. `OverreachNeedsGap` needs that
  each block lies from the start of one page of the heap to the end of another
  (`InPages`), which splitting and merging keep because a block they make lies between
  blocks they had (`Spans`), and that consecutive pages cannot straddle `FirstPage`
  (`OneSide`). `SmallRequestsAreServed` follows `heap_expand` turn by turn (`Served`): either
  its first turn found no page, or a block is large enough or every new page is lost.

The proofs corrected the model in places where the runs could not: `Paging` assumes that
the first page to be handed out lies past the first table (`FirstPage > PageEntries`);
`Interrupts` assumes that vector 17, whose stub leaves its error code behind, does not
occur; `InitStaysInBitmap` had left out the bitmap that reaches beyond the last whole
frame (a map whose only region is `<<6, 3>>`, now in the run); the screen's theorems need
that no key returns the carriage and that the prompt is printable; and the heap's that
pages and headers are multiples of the alignment and that asking `heap_expand` for the
payload of a page does not wrap. The assumptions are named, TLC evaluates them, and the
code justifies each.

Recursive functions over a sequence (`Write`, `Lines`, `Merged`, `Total`) and the turns of
`heap_expand` are reasoned about by `RecExists` of `NatFacts`, which proves that such a
function exists, and induction on a set of numbers; those whose argument shrinks (`Digits`,
`Start`, `Rest`) by `RecMeasure`, with the step as a function and not as an operator.

Only model-checked: liveness (`EveryKeyHandled`, `Served`, `BootEnds`, `ScanEnds`,
`LineSent`) and the fairness of `ImplementsQueue`, which need ENABLED.

## Bounds

Every bound is a constant of a configuration: bytes typed (`MaxKeys` of `Input`), keys
pressed (of `Tty`), bytes arriving in the boot (`MaxBytes`), events of the environment and
nesting (`MaxEvents`, `MaxDepth`), pointers held (`MaxHeld`), slots, columns, rows, frames,
pages, requests, buses. They are the smallest at which the cases named above happen.
Counters wrap where the code's do (`uint32`, `Advance`, `size32`, `Wrapped`) with a smaller
modulus. Deadlock is checked for `Pmm`, `Console` and `Tty`, which never stop; in `Vmm` and
`Heap` the machine halts on a fault, and the other modules end.

## Not modelled

The encoding of GDT and IDT entries, CR0 and CR3, and the contents of `kmain`'s banner are
constants or single instructions. The VESA driver is commented out. Called by nothing, and
left out: `serial_read`, `i8042_write_data`, `spinlock_trylock`, `atoi`, `video_put_pixel`,
`video_set_mode`, the class names and header accessors of the scan beyond those it uses.
Colours and the wording of messages are left out. Driver tables hold one driver each, set
by constructors; a full table cannot happen in this kernel.

## Plan

Every safety property the runs check is proved. What is left are the parts named above as
not modelled, and a proof of the liveness properties once the prover knows ENABLED.
