-------------------------------- MODULE Input --------------------------------
(***************************************************************************)
(* The path of a key press through the kernel: the i8042 raises IRQ1, the  *)
(* handler ps2kbd_handler decodes the byte and pushes an event into the    *)
(* ring of input.c, the loop at the end of kmain polls the ring, pops an   *)
(* event and hands it to the terminal.                                     *)
(*                                                                         *)
(* There is one CPU.  The main loop runs with interrupts enabled and can   *)
(* be preempted between any two of its steps; the handler runs with        *)
(* interrupts disabled (interrupt gate and cli), so main takes no step     *)
(* while it is active.  Both sides take the same spin lock.                *)
(*                                                                         *)
(* A byte of the keyboard is its low seven bits and the release bit.  Keys *)
(* other than the two shifts behave alike, so a few model values stand for *)
(* all of them; the character of a key is the pair of key and shift state. *)
(***************************************************************************)
EXTENDS Naturals, Sequences

CONSTANTS INPUT_BUFFER_SIZE,  \* slots of the ring (256 in input.h)
          Keys,               \* scan codes of ordinary keys
          ShiftKeys,          \* scan codes of the shift keys (0x2A, 0x36)
          MaxKeys             \* bound: bytes the keyboard sends in a run

ASSUME InputAssumption ==
  /\ INPUT_BUFFER_SIZE \in Nat \ {0}
  /\ Keys \cap ShiftKeys = {}
  /\ 0 \notin Keys \cup ShiftKeys
  /\ MaxKeys \in Nat

VARIABLES
  typed,          \* every byte the keyboard has put in the controller, in order
  obf,            \* i8042 status bit "output buffer full"
  irr, isr,       \* PIC: IRQ1 requested, IRQ1 in service
  lock,           \* input.c: the spin lock
  buffer, head, tail,
  shift_pressed,  \* ps2kbd.c
  main,           \* next step of the loop of kmain
  event,          \* its local variable
  irq,            \* next step of the interrupt handler, or "none"
  irqEvent,       \* the handler's local variable
  accepted,       \* history: positions in typed of the events the ring took
  lost,           \* history: how many events the ring refused
  handled         \* history: events passed to tty_handle_keypress

ring     == <<lock, buffer, head, tail>>
device   == <<typed, obf, irr, isr>>
history  == <<accepted, lost, handled>>
vars     == <<device, ring, shift_pressed, main, event, irq, irqEvent, history>>

-----------------------------------------------------------------------------
Slots == 0 .. INPUT_BUFFER_SIZE - 1
Codes == Keys \cup ShiftKeys
Byte  == [code : Codes, up : BOOLEAN]
NUL   == <<>>
Ascii == {NUL} \cup (Keys \X {0, 1})
Event == [type : {"KEY_PRESSED", "KEY_RELEASED"}, scancode : Codes \cup {0}, ascii : Ascii]
ZeroEvent == [type |-> "KEY_PRESSED", scancode |-> 0, ascii |-> NUL]

\* keymap.c: both tables hold 0 for the shift keys.
keymap_to_ascii(code, shift) == IF code \in ShiftKeys THEN NUL ELSE <<code, shift>>

ShiftAfterMutant(old, b) == IF b.code \in ShiftKeys /\ ~b.up THEN 1 ELSE old

\* The flag shift_pressed after the handler has looked at byte b.
ShiftAfter(old, b) ==
  IF b.code \in ShiftKeys THEN (IF b.up THEN 0 ELSE 1) ELSE old

MakeEvent(b, shift) ==
  [type     |-> IF b.up THEN "KEY_RELEASED" ELSE "KEY_PRESSED",
   scancode |-> b.code,
   ascii    |-> IF b.up THEN NUL ELSE keymap_to_ascii(b.code, shift)]

NextSlotMutant(i) == i + 1
NextSlot(i) == (i + 1) % INPUT_BUFFER_SIZE

RingFullMutant  == FALSE
RingFull  == NextSlot(head) = tail

input_has_events == head # tail

-----------------------------------------------------------------------------
Init ==
  /\ typed = <<>> /\ obf = FALSE /\ irr = FALSE /\ isr = FALSE
  /\ lock = 0 /\ head = 0 /\ tail = 0
  /\ buffer = [i \in Slots |-> ZeroEvent]
  /\ shift_pressed = 0
  /\ main = "poll" /\ event = ZeroEvent
  /\ irq = "none" /\ irqEvent = ZeroEvent
  /\ accepted = <<>> /\ lost = 0 /\ handled = <<>>

\* The keyboard delivers its next byte: it holds bytes back while the output
\* buffer is full, and a byte that arrives raises IRQ1.
KeyArrives(b) ==
  /\ Len(typed) < MaxKeys /\ ~obf
  /\ typed' = Append(typed, b)
  /\ obf' = TRUE /\ irr' = TRUE
  /\ UNCHANGED <<isr, ring, shift_pressed, main, event, irq, irqEvent, history>>

-----------------------------------------------------------------------------
(* The interrupt handler. *)

\* The CPU accepts IRQ1: the PIC does not offer it again until the EOI, and
\* the main loop always runs with interrupts enabled.
TakeIrq ==
  /\ irq = "none" /\ irr /\ ~isr
  /\ irr' = FALSE /\ isr' = TRUE
  /\ irq' = "read"
  /\ UNCHANGED <<typed, obf, ring, shift_pressed, main, event, irqEvent, history>>

\* i8042_read_data waits for the output buffer, then the byte is decoded.
ReadByte ==
  /\ irq = "read" /\ obf
  /\ LET b == typed[Len(typed)] IN
       /\ shift_pressed' = ShiftAfter(shift_pressed, b)
       /\ irqEvent' = MakeEvent(b, shift_pressed')
  /\ obf' = FALSE
  /\ irq' = "lock"
  /\ UNCHANGED <<typed, irr, isr, ring, main, event, history>>

IrqLockMutant ==
  /\ irq = "lock"
  /\ lock' = 1
  /\ irq' = "push"
  /\ UNCHANGED <<device, buffer, head, tail, shift_pressed, main, event, irqEvent, history>>

\* spinlock_lock: take the lock, or spin on it without changing anything.
IrqLock ==
  /\ irq = "lock"
  /\ IF lock = 0 THEN lock' = 1 /\ irq' = "push" ELSE UNCHANGED <<lock, irq>>
  /\ UNCHANGED <<device, buffer, head, tail, shift_pressed, main, event, irqEvent, history>>

input_push_event ==
  /\ irq = "push"
  /\ IF RingFull
       THEN /\ lost' = lost + 1
            /\ UNCHANGED <<buffer, head, accepted>>
       ELSE /\ buffer' = [buffer EXCEPT ![head] = irqEvent]
            /\ head' = NextSlot(head)
            /\ accepted' = Append(accepted, Len(accepted) + lost + 1)
            /\ UNCHANGED lost
  /\ irq' = "unlock"
  /\ UNCHANGED <<device, lock, tail, shift_pressed, main, event, irqEvent, handled>>

IrqUnlock ==
  /\ irq = "unlock"
  /\ lock' = 0
  /\ irq' = "eoi"
  /\ UNCHANGED <<device, buffer, head, tail, shift_pressed, main, event, irqEvent, history>>

EoiMutant ==
  /\ irq = "eoi"
  /\ isr' = FALSE /\ irr' = FALSE
  /\ irq' = "none"
  /\ UNCHANGED <<typed, obf, ring, shift_pressed, main, event, irqEvent, history>>

\* pic_send_eoi(1) and iret.
Eoi ==
  /\ irq = "eoi"
  /\ isr' = FALSE
  /\ irq' = "none"
  /\ UNCHANGED <<typed, obf, irr, ring, shift_pressed, main, event, irqEvent, history>>

-----------------------------------------------------------------------------
(* The main loop: while (true) if (input_has_events()) handle(pop()). *)

MainRuns(pc) == main = pc /\ irq = "none"

\* head and tail are read without the lock.  Only head can change between the
\* two reads, so the pair acts as one read at the moment head is read.
Poll ==
  /\ MainRuns("poll")
  /\ main' = IF input_has_events THEN "lock" ELSE "poll"
  /\ UNCHANGED <<device, ring, shift_pressed, event, irq, irqEvent, history>>

MainLockMutant ==
  /\ MainRuns("lock")
  /\ main' = "take"
  /\ UNCHANGED <<device, ring, shift_pressed, event, irq, irqEvent, history>>
MainLock ==
  /\ MainRuns("lock")
  /\ IF lock = 0 THEN lock' = 1 /\ main' = "take" ELSE UNCHANGED <<lock, main>>
  /\ UNCHANGED <<device, buffer, head, tail, shift_pressed, event, irq, irqEvent, history>>

PopTake ==
  /\ MainRuns("take")
  /\ IF tail # head
       THEN event' = buffer[tail] /\ main' = "advance"
       ELSE event' = ZeroEvent /\ main' = "unlock"
  /\ UNCHANGED <<device, ring, shift_pressed, irq, irqEvent, history>>

PopAdvance ==
  /\ MainRuns("advance")
  /\ tail' = NextSlot(tail)
  /\ main' = "unlock"
  /\ UNCHANGED <<device, lock, buffer, head, shift_pressed, event, irq, irqEvent, history>>

MainUnlock ==
  /\ MainRuns("unlock")
  /\ lock' = 0
  /\ main' = "handle"
  /\ UNCHANGED <<device, buffer, head, tail, shift_pressed, event, irq, irqEvent, history>>

\* tty_handle_keypress(event): what the terminal does with it is module Tty's.
Handle ==
  /\ MainRuns("handle")
  /\ handled' = Append(handled, event)
  /\ main' = "poll"
  /\ UNCHANGED <<device, ring, shift_pressed, event, irq, irqEvent, accepted, lost>>

IrqStep  == TakeIrq \/ ReadByte \/ IrqLock \/ input_push_event \/ IrqUnlock \/ Eoi
MainStep == Poll \/ MainLock \/ PopTake \/ PopAdvance \/ MainUnlock \/ Handle
Next     == (\E b \in Byte : KeyArrives(b)) \/ IrqStep \/ MainStep

\* The CPU always executes something: the handler when one is active or
\* requested, the loop otherwise.  Nothing makes the user type.
Fairness == WF_vars(IrqStep) /\ WF_vars(MainStep)
Spec     == Init /\ [][Next]_vars /\ Fairness

-----------------------------------------------------------------------------
(* Derived state. *)

MainHolds == main \in {"take", "advance", "unlock"}
IrqHolds  == irq \in {"push", "unlock"}

\* The handler preempted the loop inside its critical section.
Wedged == irq = "lock" /\ MainHolds

Occupied     == (head + INPUT_BUFFER_SIZE - tail) % INPUT_BUFFER_SIZE
RingContents == [i \in 1 .. Occupied |-> buffer[(tail + i - 1) % INPUT_BUFFER_SIZE]]
InHand       == IF main \in {"unlock", "handle"} THEN <<event>> ELSE <<>>

\* How many of the typed bytes the handler has read.
Decoded == IF obf THEN Len(typed) - 1 ELSE Len(typed)

\* Position of the last byte among the first n that belongs to a key of K, 0 if none.
LastOf(K, n) ==
  LET at == {j \in 1 .. n : typed[j].code \in K}
  IN  IF at = {} THEN 0 ELSE CHOOSE j \in at : \A k \in at : k <= j

Down(K, n) == LastOf(K, n) # 0 /\ ~typed[LastOf(K, n)].up

\* The event the i-th byte stands for, by definition: no state is carried along.
EventOf(i) == MakeEvent(typed[i], IF Down(ShiftKeys, i) THEN 1 ELSE 0)

-----------------------------------------------------------------------------
(* Safety. *)

TypeOK ==
  /\ typed \in Seq(Byte)
  /\ obf \in BOOLEAN /\ irr \in BOOLEAN /\ isr \in BOOLEAN
  /\ lock \in {0, 1} /\ head \in Slots /\ tail \in Slots
  /\ buffer \in [Slots -> Event]
  /\ shift_pressed \in {0, 1}
  /\ main \in {"poll", "lock", "take", "advance", "unlock", "handle"}
  /\ irq \in {"none", "read", "lock", "push", "unlock", "eoi"}
  /\ event \in Event /\ irqEvent \in Event
  /\ accepted \in Seq(Nat) /\ lost \in Nat /\ handled \in Seq(Event)

\* input.c: the lock word is set exactly while one side is between its lock
\* and its unlock, never both; so a handler that spins waits for the loop it
\* has preempted, and the loop itself never spins.
LockDiscipline ==
  /\ ~(MainHolds /\ IrqHolds)
  /\ lock = 1 <=> MainHolds \/ IrqHolds
  /\ irq = "none" /\ main = "lock" => lock = 0

\* ps2kbd.c, pic.c: a byte waiting in the controller always has its interrupt
\* to come or being served, and the handler never waits for a byte.
InterruptPerByte ==
  /\ obf <=> irr \/ irq = "read"
  /\ isr <=> irq # "none"

\* input.c, ps2kbd.c, kmain: every byte is accepted or refused once, none read
\* twice; what the terminal has been given, what the loop holds and what is in
\* the ring are the decodings of the accepted bytes, in the order typed.
EndToEnd ==
  /\ Decoded = Len(accepted) + lost + (IF irq \in {"lock", "push"} THEN 1 ELSE 0)
  /\ \A j \in 1 .. Len(accepted) : accepted[j] \in (IF j = 1 THEN 1 ELSE accepted[j - 1] + 1) .. Decoded
  /\ handled \o InHand \o RingContents = [k \in 1 .. Len(accepted) |-> EventOf(accepted[k])]

\* kmain reads head and tail without the lock and pops later: the ring has
\* not become empty in between.
PollNotStale == main \in {"lock", "take", "advance"} => head # tail

\* Once the handler waits for the loop it has preempted, neither side ever
\* moves again: no event is pushed, popped or handled.
WedgeIsForever ==
  [][Wedged => Wedged' /\ UNCHANGED <<ring, main, shift_pressed, isr, history>>]_vars

-----------------------------------------------------------------------------
(* Liveness and refinement. *)

\* Every byte typed is handed to the terminal or refused by a full ring,
\* unless the machine wedges.
EveryKeyHandled ==
  \A n \in 1 .. MaxKeys : (Len(typed) >= n) ~> (Len(handled) + lost >= n \/ Wedged)

\* The input layer implements the abstract event queue.
Queue == INSTANCE EventQueue WITH
           Capacity  <- INPUT_BUFFER_SIZE - 1,
           queue     <- RingContents,
           delivered <- handled \o InHand,
           alive     <- ~Wedged

ImplementsQueue == Queue!Spec
=============================================================================
