------------------------------ MODULE Interrupts ------------------------------
(***************************************************************************)
(* Interrupt dispatch: the stubs of asm/interrupt.s, interrupt_handler and *)
(* the handler table of interrupt.c, and the two 8259 controllers that     *)
(* pic.c programs, with the numbers the code uses.                         *)
(*                                                                         *)
(* The stubs run with interrupts disabled, so IRQs do not nest; exceptions *)
(* do.  What a handler does to its device is its driver's module's (Input  *)
(* for IRQ1); here it runs and returns.                                    *)
(***************************************************************************)
EXTENDS Naturals, Sequences

CONSTANTS Drivers,     \* the vectors drivers ask a handler for
          Lines,       \* the IRQ lines with a device
          Exceptions,  \* the exceptions that occur
          MaxEvents,   \* bound: requests, exceptions and maskings in a run
          MaxDepth     \* bound: interrupts inside each other

ASSUME InterruptAssumption ==
  /\ Drivers \subseteq 0 .. 255 /\ Lines \subseteq (0 .. 15) \ {2}
  \* An alignment check (17) needs privilege level 3, which nothing runs at.
  /\ Exceptions \subseteq (0 .. 31) \ {17} /\ MaxEvents \in Nat /\ MaxDepth \in Nat

VARIABLES
  handlers,       \* interrupt_handlers: the vectors that have one
  asked,          \* the vector a registration under way still has to finish, or None
  imr, irr, isr,  \* masked, requested and in-service lines of both PICs
  enabled,        \* kmain has executed sti
  stack,          \* the interrupts being served, outermost first
  words,          \* words they have pushed on the kernel stack
  halted,         \* interrupt_handler's endless hlt
  events          \* how many events the environment has made

table == <<handlers, asked, imr>>
cpu   == <<enabled, stack, words, halted>>
vars  == <<table, irr, isr, cpu, events>>

None == 256
Top  == stack[Len(stack)]
Idle == stack = <<>> /\ ~halted

-----------------------------------------------------------------------------
(* The 8259 pair in fully nested mode; the slave sits on the master's line 2. *)

Level(irq) == IF irq >= 8 THEN 2 ELSE irq
Above(i, j) == Level(i) < Level(j) \/ (Level(i) = Level(j) /\ i < j)
Blocked(irq) ==
  \E s \in isr : IF s < 8 THEN s <= Level(irq) ELSE irq >= 8 /\ s <= irq
Reaches(irq) == irq \notin imr /\ (irq >= 8 => 2 \notin imr)
Offered == {irq \in irr : Reaches(irq) /\ ~Blocked(irq)}
Cascade(irq) == IF irq >= 8 THEN {2} ELSE {}

\* A non-specific EOI ends the highest-priority interrupt in service.
Highest(S) == {i \in S : \A j \in S : i <= j}
pic_send_eoiMutant(irq) == isr \ Highest(isr \cap (IF irq >= 8 THEN 8 .. 15 ELSE 0 .. 7))
pic_send_eoi(irq) ==
  isr \ (Highest(isr \cap 0 .. 7)
         \cup (IF irq >= 8 THEN Highest(isr \cap 8 .. 15) ELSE {}))

-----------------------------------------------------------------------------
Init ==
  /\ handlers = {} /\ asked = None
  /\ imr = 0 .. 15 /\ irr = {} /\ isr = {}
  /\ enabled = FALSE /\ stack = <<>> /\ words = 0 /\ halted = FALSE
  /\ events = 0

Event == events < MaxEvents /\ events' = events + 1

\* A device raises its line; a request is recorded once, masked or not.
Raise(irq) ==
  /\ Event /\ irr' = irr \cup {irq}
  /\ UNCHANGED <<table, isr, cpu>>

\* The words the CPU pushes: flags, cs, eip, and an error code for some.
Pushed(v) == IF v \in {8, 10, 11, 12, 13, 14, 17, 21, 29, 30} THEN 4 ELSE 3
StubPushesMutant(v) == IF v \in {8, 10, 11, 12, 13} THEN 1 ELSE 2
\* ISR_ERR pushes the number, ISR_NOERR and IRQ a zero before it.
StubPushes(v) == IF v \in {8, 10, 11, 12, 13, 14, 21, 29, 30} THEN 1 ELSE 2

\* `acks`: the lines the PICs put in service for it.
Enter(v, acks) ==
  /\ stack' = Append(stack, [int_no |-> v, acks |-> acks, handled |-> FALSE])
  /\ words' = words + Pushed(v) + StubPushes(v)
  /\ isr' = isr \cup acks
  /\ UNCHANGED <<table, enabled, halted>>

\* INTA: the PIC gives the vector of the line of highest priority.
Accept ==
  /\ Idle /\ enabled
  /\ \E irq \in Offered :
       /\ \A other \in Offered \ {irq} : Above(irq, other)
       /\ Enter(32 + irq, {irq} \cup Cascade(irq))
       /\ irr' = irr \ {irq}
  /\ UNCHANGED events

\* The line falls before INTA: the PIC gives its line 7, and marks nothing,
\* but the master has marked the cascade.
Spurious ==
  /\ Idle /\ enabled /\ Event
  /\ \E irq \in Offered :
       /\ Enter(IF irq >= 8 THEN 47 ELSE 39, Cascade(irq))
       /\ irr' = irr \ {irq}

\* An exception may strike the loop or a handler.
Exception ==
  /\ ~halted /\ Len(stack) < MaxDepth /\ Event
  /\ stack # <<>> => ~Top.handled
  /\ \E v \in Exceptions : Enter(v, {})
  /\ UNCHANGED irr

-----------------------------------------------------------------------------
\* interrupt_handler: the handler runs and returns, or the machine stops.
Dispatch ==
  /\ stack # <<>> /\ ~halted /\ ~Top.handled
  /\ IF Top.int_no \in handlers
       THEN stack' = [stack EXCEPT ![Len(stack)].handled = TRUE] /\ UNCHANGED halted
       ELSE halted' = TRUE /\ UNCHANGED stack
  /\ UNCHANGED <<table, irr, isr, enabled, words, events>>

IsIrq(v) == 32 <= v /\ v < 48

\* The EOI, then the stub's add $8, %esp and iret.
Return ==
  /\ stack # <<>> /\ ~halted /\ Top.handled
  /\ isr' = IF IsIrq(Top.int_no) THEN pic_send_eoi(Top.int_no - 32) ELSE isr
  /\ words' = words - 5
  /\ stack' = SubSeq(stack, 1, Len(stack) - 1)
  /\ UNCHANGED <<table, irr, enabled, halted, events>>

\* interrupt_register_handler: the handler is stored first,
Register(v) ==
  /\ Idle /\ asked = None
  /\ handlers' = IF v < 48 THEN handlers \cup {v} ELSE handlers
  /\ asked' = IF IsIrq(v) THEN v ELSE None
  /\ UNCHANGED <<imr, irr, isr, cpu, events>>

UnmaskedMutant(irq) == imr \ {irq % 8}
Unmasked(irq) == imr \ {irq}

\* then its line is unmasked, and no other: not the cascade of a slave's.
pic_unmask_irq ==
  /\ Idle /\ asked # None
  /\ imr' = Unmasked(asked - 32)
  /\ asked' = None
  /\ UNCHANGED <<handlers, irr, isr, cpu, events>>

pic_mask_irq(irq) ==
  /\ Idle /\ asked = None /\ Event
  /\ imr' = imr \cup {irq}
  /\ UNCHANGED <<handlers, asked, irr, isr, cpu>>

cpu_enable_interrupts ==
  /\ Idle /\ ~enabled
  /\ enabled' = TRUE
  /\ UNCHANGED <<table, irr, isr, stack, words, halted, events>>

Serve == Accept \/ Dispatch \/ Return
Call  == \/ cpu_enable_interrupts \/ pic_unmask_irq
         \/ \E v \in Drivers : Register(v)
Next  == \/ Serve \/ Call \/ Spurious \/ Exception
         \/ \E irq \in Lines : Raise(irq) \/ pic_mask_irq(irq)

\* The CPU takes a pending interrupt before the loop's next instruction.
Spec == Init /\ [][Next]_vars /\ WF_vars(Serve)

-----------------------------------------------------------------------------
(* Properties. *)

\* pic.c, interrupt.s: whatever is served, in whatever nesting and spurious
\* or not, each interrupt's lines are in service until its EOI and none else,
\* and when the loop runs again its stack and the PICs are as they were.
ReturnsClean ==
  /\ isr = UNION {stack[i].acks : i \in DOMAIN stack}
  /\ words = 5 * Len(stack)

\* interrupt.c: a line is unmasked only when its handler is there, so that
\* the machine stops only for an exception or a spurious interrupt that has
\* none.
StopCause ==
  halted => Top.int_no < 32 \/ (Top.int_no \in {39, 47} /\ Top.int_no - 32 \notin Top.acks)

\* pic.c: a request is served, unless the machine stops or the line is
\* masked; the slave's lines are masked by line 2 too, which registering
\* their handlers does not unmask.
Served ==
  \A irq \in Lines : (irq \in irr /\ enabled) ~> (irq \notin irr \/ halted \/ ~Reaches(irq))
=============================================================================
