--------------------------------- MODULE Boot ---------------------------------
(***************************************************************************)
(* From pmm_init to sti: what kmain does to memory, to the i8042 and to    *)
(* the driver tables before the loop of module Input starts, and what it   *)
(* hands to that loop.                                                     *)
(*                                                                         *)
(* kmain is one thread with interrupts disabled, so each call is a step of *)
(* Program; the controller, the keyboard and the mouse run beside it.  A   *)
(* command is executed some time after it is written, a byte may arrive    *)
(* whenever its port is enabled and the output buffer is empty, and IRQ1   *)
(* is recorded by the PIC although it is masked.                           *)
(***************************************************************************)
EXTENDS Pmm

CONSTANTS
  Priority,  \* VIDEO_PRIORITY_PS2 and VIDEO_PRIORITY_VGA, both 10
  LowWords,  \* what firmware may have left in the word at address 4
  Image,     \* the frames the linker places the kernel in
  MaxBytes   \* bound: how often in the boot a byte arrives

ASSUME BootAssumption ==
  Priority \in Nat /\ Priority >= 7 /\ LowWords \subseteq Int /\ Image \subseteq Nat /\ MaxBytes \in Nat

VARIABLES
  pc,        \* next step of Program
  lowWord,   \* the word at address 4, where the bitmap does not lie over it
  kind,      \* the controller: good, fails its self-test, never answers it,
             \* or absent with a bus that reads as ones or as zeros
  latches,   \* the PIC keeps the request of a byte that was read (as QEMU's does)
  display,   \* vga_probe finds a display (module PciScan)
  ibf, obf,  \* the command the controller has not executed, the byte it holds
  reply,     \* the self-test's answer, waiting for the output buffer
  ports,     \* the ports that are enabled
  irr,       \* IRQ1 requested
  input,     \* ps2kbd_handler is registered and IRQ1 unmasked
  screen,    \* video_init chose the display's driver
  tty,       \* where tty_init took the screen's size from
  came       \* history: what arrived, and before which step

frames  == <<mmap, pmm_bitmap, pmm_used_blocks, result, owned>>
machine == <<lowWord, kind, latches, display>>
i8042   == <<ibf, obf, reply, ports, irr>>
bootVars == <<frames, machine, i8042, pc, input, screen, tty, came>>

ProbeMutant == <<"compare", "status", "AD", "A7", "AA", "read", "A8">>
\* The comparison of the priorities and i8042_check.
Probe == <<"compare", "status", "AD", "A7", "AA", "read", "AE", "A8">>
\* i8042_init, which init_ctors calls first.
Constructors == <<"AD", "A7", "drain", "AE", "A8">>
Program ==
  <<"frame", "frame", "frame", "frame">>          \* vmm_init and heap_init
  \o Constructors
  \o Probe \o <<"register">>                     \* input_init
  \o <<"video", "tty", "sti">>
Commands == {"AD", "A7", "AE", "A8", "AA"}
Ready    == Len(Program) + 1
At(op)   == pc < Ready /\ Program[pc] = op
Where(op) == CHOOSE i \in DOMAIN Program : Program[i] = op
Go        == pc' = pc + 1
NoDriver  == pc' = Where("video")

BootInit ==
  /\ Init
  /\ pc = 1 /\ lowWord \in LowWords
  /\ kind \in {"good", "faulty", "mute", "ones", "zeros"}
  /\ latches \in BOOLEAN /\ display \in BOOLEAN
  /\ ibf = "none" /\ reply = "none" /\ ports \in {{"key"}, {"key", "aux"}}
  /\ obf \in (IF kind \in {"ones", "zeros"} THEN {"none"} ELSE {"none", "key", "aux"})
  \* pic_init has reset the request of a byte the boot loader left.
  /\ irr = FALSE /\ input = FALSE /\ screen = FALSE /\ tty = "unset" /\ came = {}

-----------------------------------------------------------------------------
(* The controller. *)

InputFullMutant == kind = "ones" \/ obf # "none"
InputFull  == kind = "ones" \/ ibf # "none"
OutputFull == kind = "ones" \/ obf # "none"

Executed(cmd) ==
  CASE cmd = "AD" -> ports \ {"key"} [] cmd = "AE" -> ports \cup {"key"}
    [] cmd = "A7" -> ports \ {"aux"} [] cmd = "A8" -> ports \cup {"aux"}
    [] OTHER -> ports

Execute ==
  /\ ibf # "none"
  /\ ibf' = "none" /\ ports' = Executed(ibf)
  /\ reply' = IF ibf = "AA" /\ kind # "mute" THEN kind ELSE reply
  /\ UNCHANGED <<frames, machine, pc, obf, irr, input, screen, tty, came>>

Answer ==
  /\ reply # "none" /\ obf = "none"
  /\ obf' = reply /\ reply' = "none"
  /\ UNCHANGED <<frames, machine, pc, ibf, ports, irr, input, screen, tty, came>>

Arrive(port) ==
  /\ pc < Ready /\ kind \notin {"ones", "zeros"} /\ Cardinality(came) < MaxBytes
  /\ port \in ports /\ obf = "none" /\ reply = "none"
  /\ obf' = port /\ irr' = (irr \/ port = "key")
  /\ came' = came \cup {<<port, pc>>}
  /\ UNCHANGED <<frames, machine, pc, ibf, reply, ports, input, screen, tty>>

-----------------------------------------------------------------------------
(* kmain. *)

Frame ==
  /\ At("frame") /\ pmm_alloc_page_aligned /\ Go
  /\ UNCHANGED <<machine, i8042, input, screen, tty, came>>

i8042_write_cmd ==
  /\ \E cmd \in Commands :
       At(cmd) /\ ~InputFull /\ ibf' = IF kind = "zeros" THEN "none" ELSE cmd
  /\ Go
  /\ UNCHANGED <<frames, machine, obf, reply, ports, irr, input, screen, tty, came>>

\* The byte is read; IRQ1's line falls.
Taken == obf' = "none" /\ irr' = (irr /\ latches)

DrainMutant ==
  /\ At("drain") /\ Go
  /\ UNCHANGED <<frames, machine, i8042, input, screen, tty, came>>
Drain ==
  /\ At("drain")
  /\ IF OutputFull THEN Taken /\ UNCHANGED pc ELSE Go /\ UNCHANGED <<obf, irr>>
  /\ UNCHANGED <<frames, machine, ibf, reply, ports, input, screen, tty, came>>

\* best->priority of a null pointer is the word at address 4: the second
\* entry of the bitmap where pmm_init has put it at address 0.  An int's top
\* bit is its sign.
Entry(i)  == i * PMM_BITS_PER_ENTRY .. (i + 1) * PMM_BITS_PER_ENTRY - 1
Word(i) ==
  LET bit(k) == IF (i + 1) * PMM_BITS_PER_ENTRY - k \in pmm_bitmap THEN 1 ELSE 0
      high[k \in 0 .. PMM_BITS_PER_ENTRY] ==  \* the int of the k highest bits
        IF k = 0 THEN 0 ELSE IF k = 1 THEN -bit(k) ELSE 2 * high[k - 1] + bit(k)
  IN  high[PMM_BITS_PER_ENTRY]
NullPriority ==
  IF BitmapAddr(mmap) = 0 /\ pmm_bitmap_size(mmap) > 1 THEN Word(1) ELSE lowWord
Skipped == Priority < NullPriority

Compare ==
  /\ At("compare") /\ IF Skipped THEN NoDriver ELSE Go
  /\ UNCHANGED <<frames, machine, i8042, input, screen, tty, came>>

Status ==
  /\ At("status") /\ IF kind \in {"ones", "zeros"} THEN NoDriver ELSE Go
  /\ UNCHANGED <<frames, machine, i8042, input, screen, tty, came>>

i8042_read_data ==
  /\ At("read") /\ OutputFull
  /\ Taken
  /\ IF obf = "good" THEN Go ELSE NoDriver
  /\ UNCHANGED <<frames, machine, ibf, reply, ports, input, screen, tty, came>>

\* ps2kbd_init: the handler is set, then IRQ1 unmasked, interrupts still off.
ps2kbd_init ==
  /\ At("register") /\ Go
  /\ input' = TRUE
  /\ UNCHANGED <<frames, machine, i8042, screen, tty, came>>

video_init ==
  /\ At("video") /\ Go
  /\ screen' = (display /\ ~Skipped)
  /\ UNCHANGED <<frames, machine, i8042, input, tty, came>>

\* The driver is not asked for: the size may be that of a null pointer's.
tty_init ==
  /\ At("tty") /\ Go
  /\ tty' = IF screen THEN "driver" ELSE "null"
  /\ UNCHANGED <<frames, machine, i8042, input, screen, came>>

cpu_enable_interrupts ==
  /\ At("sti") /\ Go
  /\ UNCHANGED <<frames, machine, i8042, input, screen, tty, came>>

Cpu == \/ Frame \/ i8042_write_cmd \/ Drain \/ Compare \/ Status \/ i8042_read_data
       \/ ps2kbd_init \/ video_init \/ tty_init \/ cpu_enable_interrupts
BootNext == Cpu \/ Execute \/ Answer \/ \E port \in {"key", "aux"} : Arrive(port)

\* The CPU runs and the controller works; nothing makes bytes arrive.
BootSpec ==
  /\ BootInit /\ [][BootNext]_bootVars
  /\ WF_bootVars(Cpu) /\ WF_bootVars(Execute) /\ WF_bootVars(Answer)

-----------------------------------------------------------------------------
(* Properties. *)

\* A byte that comes after the drain of i8042_init and before the self-test.
Between == \E x \in came : x[2] \in Where("drain") + 1 .. Where("AA")

\* input.c, i8042.c: a working controller is found, unless a byte slips in
\* between the two initialisations, for it is taken for the self-test's answer
\* and the keyboard stays disabled, or the null pointer's priority is above
\* the driver's.  That takes a word firmware left or, where the memory of the
\* bitmap's second entry is available, a first entry without a free frame.
KeyboardFound ==
  /\ pc = Ready => (input <=> kind = "good" /\ ~Between /\ ~Skipped)
  /\ pc > Where("drain") /\ Skipped /\ Entry(1) \subseteq Freed(mmap) =>
       lowWord > Priority \/ Entry(0) \subseteq BootBits(mmap)

\* What kmain hands to its loop: IRQ1 is requested exactly when a key waits,
\* so that the handler finds a byte, unless the PIC kept the request of a byte
\* that was drained; only a mouse's byte can block the keyboard; the screen's
\* size is real if there is one, unless drivers are skipped; and none of the
\* kernel's own frames are in use by others if four frames below it were free.
Handover ==
  pc = Ready =>
    /\ input => /\ obf \in {"none", "key", "aux"} /\ (obf = "key" => irr)
                /\ irr /\ obf # "key" =>
                     latches /\ \E x \in came : x[1] = "key" /\ x[2] <= Where("drain")
                /\ obf = "aux" => \E x \in came : x[1] = "aux"
                /\ Executed(ibf) = {"key", "aux"} /\ reply = "none"
    /\ tty = "null" => ~display \/ Skipped
    /\ Cardinality((Blocks(mmap) \ BootBits(mmap)) \cap 0 .. Smallest(Image) - 1) >= 4
         => owned \cap Image = {}

\* i8042.c: the boot ends, unless the controller reads as ones or never
\* answers its self-test and no other byte is taken for the answer.
BootEnds ==
  kind \in {"good", "faulty", "zeros"} => <>(pc = Ready)

\* i8042.c: a controller that is not there is noticed by its status.
AbsentIsNoticed == kind = "ones" => <>(pc = Ready)
=============================================================================
