---------------------------- MODULE DeviceProofs ----------------------------
(* Proofs about modules Interrupts, for every set of drivers, devices and   *)
(* exceptions and every depth of nesting, and Kprintf, for every format,    *)
(* every size of the buffer and every width of an int.                      *)
EXTENDS Interrupts, Kprintf, NatFacts, SequenceTheorems

-----------------------------------------------------------------------------
(* Interrupts.                                                              *)
(* The inductive invariant: only the outermost interrupt can be one the     *)
(* PICs gave, for they give none while the stub runs; whatever is nested in *)
(* it is an exception.  What a PIC gave in earnest has a handler, for its   *)
(* line was unmasked.                                                       *)

Entry == [int_no : Nat, acks : SUBSET (0 .. 15), handled : BOOLEAN]

Given(e, H) == \E irq \in 0 .. 15 : /\ e.int_no = 32 + irq /\ e.acks = {irq} \cup Cascade(irq)
                                    /\ e.int_no \in H
Inner(e)    == e.int_no < 32 /\ e.acks = {}
Unwanted(e) == (e.int_no = 39 /\ e.acks = {}) \/ (e.int_no = 47 /\ e.acks = {2})
Outer(e, H) == Given(e, H) \/ Inner(e) \/ Unwanted(e)

StackInv ==
  /\ stack \in Seq(Entry)
  /\ \A i \in 2 .. Len(stack) : Inner(stack[i])
  /\ stack # <<>> => Outer(stack[1], handlers)
  /\ isr = IF stack = <<>> THEN {} ELSE stack[1].acks
  /\ words = 5 * Len(stack)
  /\ halted => stack # <<>> /\ Top.int_no \notin handlers

LineInv ==
  /\ irr \subseteq 0 .. 15 /\ handlers \subseteq Nat
  /\ \A irq \in (0 .. 15) \ imr : 32 + irq \in handlers
  /\ asked = None \/ (IsIrq(asked) /\ asked \in handlers)

ServiceInv == StackInv /\ LineInv

-----------------------------------------------------------------------------
(* The CPU's and the stub's words, the EOI, and the stack of interrupts. *)

\* An interrupt's return takes off what its entry put on: five words.
LEMMA FiveWords ==
  ASSUME NEW v \in 0 .. 47, v # 17
  PROVE  Pushed(v) + StubPushes(v) = 5
BY DEF Pushed, StubPushes

\* The EOI ends all the PICs have in service for the outermost interrupt.
LEMMA EoiEnds ==
  ASSUME NEW e, Given(e, handlers) \/ Unwanted(e), isr = e.acks
  PROVE  IsIrq(e.int_no) /\ pic_send_eoi(e.int_no - 32) = {}
<1>1. CASE Given(e, handlers)
  <2>1. PICK irq \in 0 .. 15 : e.int_no = 32 + irq /\ e.acks = {irq} \cup Cascade(irq)
    BY <1>1 DEF Given
  <2>2. e.int_no - 32 = irq /\ IsIrq(e.int_no)
    BY <2>1 DEF IsIrq
  <2>3. CASE irq >= 8
    <3>1. isr = {irq, 2}
      BY <2>1, <2>3 DEF Cascade
    <3>2. isr \cap 0 .. 7 = {2} /\ isr \cap 8 .. 15 = {irq}
      BY <2>1, <2>3, <3>1
    <3>3. Highest({2}) = {2} /\ Highest({irq}) = {irq}
      BY <2>1 DEF Highest
    <3> QED BY <2>2, <2>3, <3>1, <3>2, <3>3 DEF pic_send_eoi
  <2>4. CASE irq < 8
    <3>1. isr = {irq}
      BY <2>1, <2>4 DEF Cascade
    <3>2. isr \cap 0 .. 7 = {irq}
      BY <2>1, <2>4, <3>1
    <3>3. Highest({irq}) = {irq}
      BY <2>1 DEF Highest
    <3> QED BY <2>2, <3>1, <3>2, <3>3 DEF pic_send_eoi
  <2> QED BY <2>3, <2>4
<1>2. CASE e.int_no = 39 /\ e.acks = {}
  BY <1>2 DEF IsIrq, pic_send_eoi, Highest
<1>3. CASE e.int_no = 47 /\ e.acks = {2}
  <2>1. isr \cap 0 .. 7 = {2} /\ Highest({2}) = {2}
    BY <1>3 DEF Highest
  <2> QED BY <1>3, <2>1 DEF IsIrq, pic_send_eoi
<1> QED BY <1>1, <1>2, <1>3 DEF Unwanted

LEMMA NotFirst ==
  ASSUME NEW n \in Nat, n # 0, n # 1
  PROVE  n \in 2 .. n /\ n \in 1 .. n
OBVIOUS

LEMMA TopOf ==
  ASSUME stack \in Seq(Entry), stack # <<>>
  PROVE  /\ Len(stack) \in Nat \ {0} /\ Top = stack[Len(stack)] /\ Top \in Entry
         /\ stack[1] \in Entry
BY DEF Top

-----------------------------------------------------------------------------
LEMMA InitInv == Init => ServiceInv
BY DEF Init, ServiceInv, StackInv, LineInv, Entry

\* An interrupt of the PICs begins while the loop runs.
LEMMA EnterFromLoop ==
  ASSUME ServiceInv, Idle, NEW v \in 0 .. 47, v # 17, NEW acks \in SUBSET (0 .. 15), Enter(v, acks),
         irr' \subseteq irr,
         Outer([int_no |-> v, acks |-> acks, handled |-> FALSE], handlers)
  PROVE  ServiceInv'
<1> DEFINE e == [int_no |-> v, acks |-> acks, handled |-> FALSE]
<1>1. stack = <<>> /\ isr = {} /\ words = 0 /\ halted = FALSE
  BY DEF ServiceInv, StackInv, Idle
<1>2. stack' = <<e>> /\ isr' = acks /\ words' = 5 /\ halted' = halted
  <2>1. Append(<<>>, e) = <<e>>
    OBVIOUS
  <2>2. Pushed(v) \in Nat /\ StubPushes(v) \in Nat
    BY DEF Pushed, StubPushes
  <2>3. words' = words + Pushed(v) + StubPushes(v)
    BY DEF Enter
  <2>4. words' = 5
    <3>1. Pushed(v) + StubPushes(v) = 5
      BY FiveWords
    <3> QED BY <1>1, <2>2, <2>3, <3>1
  <2> QED BY <1>1, <2>1, <2>4 DEF Enter
<1>3. e \in Entry /\ <<e>> \in Seq(Entry) /\ Len(<<e>>) = 1 /\ <<e>>[1] = e /\ <<e>> # <<>>
  <2>1. e \in Entry
    BY DEF Entry
  <2> HIDE DEF e
  <2> QED BY <2>1
<1>4. handlers' = handlers /\ imr' = imr /\ asked' = asked
  BY DEF Enter, table
<1> HIDE DEF e
<1>5. Outer(stack'[1], handlers')
  BY <1>2, <1>3, <1>4 DEF Outer, Given, Inner, Unwanted, e
<1>6. StackInv'
  BY <1>1, <1>2, <1>3, <1>5 DEF StackInv, e
<1>7. LineInv'
  BY <1>4 DEF ServiceInv, LineInv
<1> QED BY <1>6, <1>7 DEF ServiceInv

LEMMA StepInv == ServiceInv /\ [Next]_vars => ServiceInv'
<1> SUFFICES ASSUME ServiceInv, [Next]_vars PROVE ServiceInv'
  OBVIOUS
<1> USE InterruptAssumption
<1>1. StackInv /\ LineInv
  BY DEF ServiceInv
<1>2. CASE Accept
  <2>1. PICK irq \in Offered : /\ Enter(32 + irq, {irq} \cup Cascade(irq))
                               /\ irr' = irr \ {irq}
    BY <1>2 DEF Accept
  <2>2. irq \in 0 .. 15 /\ irq \notin imr
    BY <1>1, <2>1 DEF Offered, Reaches, LineInv
  <2>3. Outer([int_no |-> 32 + irq, acks |-> {irq} \cup Cascade(irq), handled |-> FALSE], handlers)
    BY <1>1, <2>2 DEF Outer, Given, LineInv
  <2>4. 32 + irq \in 0 .. 47 /\ 32 + irq # 17 /\ {irq} \cup Cascade(irq) \in SUBSET (0 .. 15)
    BY <2>2 DEF Cascade
  <2> QED BY <1>2, <2>1, <2>3, <2>4, EnterFromLoop DEF Accept
<1>3. CASE Spurious
  <2>1. PICK irq \in Offered : /\ Enter(IF irq >= 8 THEN 47 ELSE 39, Cascade(irq))
                               /\ irr' = irr \ {irq}
    BY <1>3 DEF Spurious
  <2>2. irq \in 0 .. 15
    BY <1>1, <2>1 DEF Offered, LineInv
  <2>3. CASE irq >= 8
    <3>1. Enter(47, {2}) /\ irr' \subseteq irr
      BY <2>1, <2>2, <2>3 DEF Cascade
    <3>2. Outer([int_no |-> 47, acks |-> {2}, handled |-> FALSE], handlers)
      BY DEF Outer, Unwanted
    <3>3. {2} \in SUBSET (0 .. 15) /\ {} \in SUBSET (0 .. 15) /\ 47 \in 0 .. 47 /\ 39 \in 0 .. 47
          /\ 47 # 17 /\ 39 # 17
      OBVIOUS
    <3>4. Idle
      BY <1>3 DEF Spurious
    <3> QED BY <3>1, <3>2, <3>3, <3>4, EnterFromLoop
  <2>4. CASE irq < 8
    <3>1. Enter(39, {}) /\ irr' \subseteq irr
      BY <2>1, <2>2, <2>4 DEF Cascade
    <3>2. Outer([int_no |-> 39, acks |-> {}, handled |-> FALSE], handlers)
      BY DEF Outer, Unwanted
    <3>3. {2} \in SUBSET (0 .. 15) /\ {} \in SUBSET (0 .. 15) /\ 47 \in 0 .. 47 /\ 39 \in 0 .. 47
          /\ 47 # 17 /\ 39 # 17
      OBVIOUS
    <3>4. Idle
      BY <1>3 DEF Spurious
    <3> QED BY <3>1, <3>2, <3>3, <3>4, EnterFromLoop
  <2> QED BY <2>2, <2>3, <2>4
<1>4. CASE Exception
  <2>1. PICK v \in Exceptions : Enter(v, {})
    BY <1>4 DEF Exception
  <2> DEFINE e == [int_no |-> v, acks |-> {}, handled |-> FALSE]
             n == Len(stack)
  <2>2. /\ stack' = Append(stack, e) /\ isr' = isr /\ halted' = halted /\ halted = FALSE
        /\ handlers' = handlers /\ imr' = imr /\ asked' = asked /\ irr' = irr
    BY <1>4, <2>1 DEF Exception, Enter, table
  <2>3. words' = words + 5
    <3>1. Pushed(v) \in Nat /\ StubPushes(v) \in Nat /\ Pushed(v) + StubPushes(v) = 5
      BY FiveWords DEF Pushed, StubPushes
    <3>2. words \in Nat
      BY <1>1 DEF StackInv
    <3> QED BY <2>1, <3>1, <3>2 DEF Enter
  <2>4. e \in Entry /\ Inner(e) /\ v \in Nat
    BY DEF Entry, Inner
  <2> HIDE DEF e
  <2>5. /\ stack' \in Seq(Entry) /\ Len(stack') = n + 1 /\ n \in Nat /\ stack'[n + 1] = e
        /\ \A i \in 1 .. n : stack'[i] = stack[i]
        /\ stack = <<>> <=> n = 0
    BY <1>1, <2>2, <2>4 DEF StackInv
  <2>6. \A i \in 2 .. Len(stack') : Inner(stack'[i])
    BY <1>1, <2>4, <2>5 DEF StackInv
  <2>7. Outer(stack'[1], handlers')
    <3>1. CASE n = 0
      BY <2>4, <2>5, <3>1 DEF Outer, Inner
    <3>2. CASE n # 0
      <4>1. stack'[1] = stack[1] /\ Outer(stack[1], handlers)
        BY <1>1, <2>5, <3>2 DEF StackInv
      <4> QED BY <2>2, <4>1
    <3> QED BY <3>1, <3>2
  <2>8. isr' = IF stack' = <<>> THEN {} ELSE stack'[1].acks
    <3>1. CASE n = 0
      BY <1>1, <2>2, <2>4, <2>5, <3>1 DEF StackInv, Inner
    <3>2. CASE n # 0
      BY <1>1, <2>2, <2>5, <3>2 DEF StackInv
    <3> QED BY <3>1, <3>2
  <2>9. StackInv'
    <3>1. words' = 5 * Len(stack')
      BY <1>1, <2>3, <2>5 DEF StackInv
    <3> QED BY <2>2, <2>5, <2>6, <2>7, <2>8, <3>1 DEF StackInv
  <2> QED BY <1>1, <2>2, <2>9 DEF ServiceInv, LineInv
<1>5. CASE Dispatch
  <2>1. /\ isr' = isr /\ words' = words /\ handlers' = handlers /\ imr' = imr /\ asked' = asked
        /\ irr' = irr /\ stack # <<>>
    BY <1>5 DEF Dispatch, table
  <2>2. LineInv'
    BY <1>1, <2>1 DEF LineInv
  <2>3. CASE Top.int_no \notin handlers
    <3>1. halted' /\ stack' = stack
      BY <1>5, <2>3 DEF Dispatch
    <3>2. Top' = Top
      BY <3>1 DEF Top
    <3>3. StackInv'
      BY <1>1, <2>1, <2>3, <3>1, <3>2 DEF StackInv, Outer, Given, Inner, Unwanted
    <3> QED BY <2>2, <3>3 DEF ServiceInv
  <2>4. CASE Top.int_no \in handlers
    <3>1. /\ stack' = [stack EXCEPT ![Len(stack)].handled = TRUE] /\ halted' = halted
          /\ halted = FALSE
      BY <1>5, <2>4 DEF Dispatch
    <3>2. /\ stack' \in Seq(Entry) /\ Len(stack') = Len(stack) /\ Len(stack) \in Nat \ {0}
          /\ \A i \in 1 .. Len(stack) : stack'[i].int_no = stack[i].int_no /\ stack'[i].acks = stack[i].acks
      <4> DEFINE n == Len(stack)
                 e == [stack[n] EXCEPT !.handled = TRUE]
      <4>1. stack \in Seq(Entry) /\ n \in Nat \ {0} /\ n \in 1 .. n /\ stack[n] \in Entry
        BY <1>1, <2>1 DEF StackInv
      <4>2. e \in Entry /\ e.int_no = stack[n].int_no /\ e.acks = stack[n].acks
        BY <4>1 DEF Entry
      <4>3. stack' = [stack EXCEPT ![n] = e]
        BY <3>1
      <4> HIDE DEF n, e
      <4>4. n = Len(stack)
        BY DEF n
      <4> QED BY <4>1, <4>2, <4>3, <4>4, ExceptSeq
    <3>3. Outer(stack'[1], handlers')
      <4>1. /\ Outer(stack[1], handlers)
            /\ stack'[1].int_no = stack[1].int_no /\ stack'[1].acks = stack[1].acks
        BY <1>1, <2>1, <3>2 DEF StackInv
      <4> QED BY <2>1, <4>1 DEF Outer, Given, Inner, Unwanted
    <3>4. StackInv'
      BY <1>1, <2>1, <3>1, <3>2, <3>3 DEF StackInv, Inner
    <3> QED BY <2>2, <3>4 DEF ServiceInv
  <2> QED BY <2>3, <2>4
<1>6. CASE Return
  <2> DEFINE n == Len(stack)
  <2>1. /\ stack # <<>> /\ halted = FALSE /\ halted' = halted
        /\ isr' = IF IsIrq(Top.int_no) THEN pic_send_eoi(Top.int_no - 32) ELSE isr
        /\ words' = words - 5 /\ stack' = SubSeq(stack, 1, n - 1)
        /\ handlers' = handlers /\ imr' = imr /\ asked' = asked /\ irr' = irr
    BY <1>6 DEF Return, table, ServiceInv
  <2>2. n \in Nat \ {0} /\ Top = stack[n] /\ stack \in Seq(Entry)
    BY <1>1, <2>1, TopOf DEF StackInv
  <2>3. /\ stack' \in Seq(Entry) /\ Len(stack') = n - 1 /\ \A i \in 1 .. n - 1 : stack'[i] = stack[i]
        /\ stack' = <<>> <=> n = 1
    <3> HIDE DEF n
    <3>1. 1 \in Int /\ n - 1 \in Nat /\ \A i \in 1 .. n - 1 : stack[i] \in Entry
      BY <2>2 DEF n
    <3>2. /\ stack' \in Seq(Entry) /\ Len(stack') = (IF 1 <= n - 1 THEN n - 1 - 1 + 1 ELSE 0)
          /\ \A i \in 1 .. n - 1 - 1 + 1 : stack'[i] = stack[1 + i - 1]
      BY <2>1, <3>1, SubSeqProperties
    <3>3. Len(stack') = n - 1 /\ \A i \in 1 .. n - 1 : stack'[i] = stack[i]
      BY <2>2, <3>2
    <3> QED BY <2>2, <3>2, <3>3, EmptySeq
  <2>4. LineInv'
    BY <1>1, <2>1 DEF LineInv
  <2>5. words' = 5 * Len(stack')
    BY <1>1, <2>1, <2>2, <2>3 DEF StackInv
  <2>6. \A i \in 2 .. Len(stack') : Inner(stack'[i])
    BY <1>1, <2>2, <2>3 DEF StackInv
  <2>7. stack' # <<>> => Outer(stack'[1], handlers')
    <3>1. Outer(stack[1], handlers) /\ (n # 1 => stack'[1] = stack[1])
      BY <1>1, <2>1, <2>2, <2>3 DEF StackInv
    <3> QED BY <2>1, <2>3, <3>1
  <2>8. isr' = IF stack' = <<>> THEN {} ELSE stack'[1].acks
    <3>1. CASE n = 1
      <4>1. isr = Top.acks /\ Outer(Top, handlers) /\ stack' = <<>>
        BY <1>1, <2>1, <2>2, <2>3, <3>1 DEF StackInv
      <4>2. CASE Inner(Top)
        BY <2>1, <4>1, <4>2 DEF Inner, IsIrq, pic_send_eoi, Highest
      <4>3. CASE ~Inner(Top)
        BY <2>1, <4>1, <4>3, EoiEnds DEF Outer
      <4> QED BY <4>2, <4>3
    <3>2. CASE n # 1
      <4>1. Inner(Top) /\ Top \in Entry
        <5>1. n \in 2 .. n /\ n \in 1 .. n
          BY <2>2, <3>2, NotFirst
        <5> QED BY <1>1, <2>2, <5>1 DEF StackInv
      <4>2. ~IsIrq(Top.int_no)
        BY <4>1 DEF Inner, IsIrq, Entry
      <4> QED BY <1>1, <2>1, <2>2, <2>3, <3>2, <4>2 DEF StackInv
    <3> QED BY <3>1, <3>2
  <2>9. StackInv'
    BY <2>1, <2>3, <2>5, <2>6, <2>7, <2>8 DEF StackInv, Inner
  <2> QED BY <2>4, <2>9 DEF ServiceInv
<1>7. ASSUME NEW v \in Drivers, Register(v) PROVE ServiceInv'
  <2>1. /\ Idle /\ stack' = stack /\ halted' = halted /\ isr' = isr /\ words' = words /\ irr' = irr
        /\ imr' = imr /\ handlers \subseteq handlers' /\ handlers' \subseteq handlers \cup {v}
        /\ asked' = None \/ (asked' = v /\ IsIrq(v) /\ v \in handlers')
    BY <1>7 DEF Register, cpu, IsIrq
  <2>2. StackInv'
    BY <1>1, <2>1 DEF StackInv, Idle
  <2>3. LineInv'
    BY <1>1, <2>1 DEF LineInv, IsIrq
  <2> QED BY <2>2, <2>3 DEF ServiceInv
<1>8. CASE pic_unmask_irq
  <2>1. /\ Idle /\ stack' = stack /\ halted' = halted /\ isr' = isr /\ words' = words /\ irr' = irr
        /\ imr' = imr \ {asked - 32} /\ handlers' = handlers /\ asked' = None /\ asked # None
    BY <1>8 DEF pic_unmask_irq, cpu, Unmasked
  <2>2. StackInv'
    BY <1>1, <2>1 DEF StackInv, Idle
  <2>3. LineInv'
    <3>1. 32 + (asked - 32) = asked /\ asked \in handlers
      <4>1. asked \in handlers /\ asked \in Nat
        BY <1>1, <2>1 DEF LineInv
      <4> QED BY <4>1
    <3>2. \A irq \in (0 .. 15) \ imr' : irq = asked - 32 \/ irq \in (0 .. 15) \ imr
      BY <2>1
    <3> QED BY <1>1, <2>1, <3>1, <3>2 DEF LineInv
  <2> QED BY <2>2, <2>3 DEF ServiceInv
<1>9. CASE cpu_enable_interrupts \/ UNCHANGED vars
  <2>1. /\ stack' = stack /\ halted' = halted /\ isr' = isr /\ words' = words /\ irr' = irr
        /\ imr' = imr /\ handlers' = handlers /\ asked' = asked
    BY <1>9 DEF cpu_enable_interrupts, vars, table, cpu
  <2> QED BY <1>1, <2>1 DEF ServiceInv, StackInv, LineInv, Outer, Given, Inner, Unwanted, Top
<1>10. ASSUME NEW irq \in Lines, Raise(irq) \/ pic_mask_irq(irq) PROVE ServiceInv'
  <2>1. /\ stack' = stack /\ halted' = halted /\ isr' = isr /\ words' = words /\ irr' \subseteq irr \cup {irq}
        /\ imr \subseteq imr' /\ handlers' = handlers /\ asked' = asked
    BY <1>10 DEF Raise, pic_mask_irq, table, cpu
  <2>2. irq \in 0 .. 15
    BY <1>10
  <2>3. LineInv'
    BY <1>1, <2>1, <2>2 DEF LineInv
  <2> QED BY <1>1, <2>1, <2>3 DEF ServiceInv, StackInv, Top
<1> QED BY <1>2, <1>3, <1>4, <1>5, <1>6, <1>7, <1>8, <1>9, <1>10 DEF Next, Serve, Call

LEMMA InvAlways == Spec => []ServiceInv
<1> QED BY InitInv, StepInv, PTL DEF Spec

-----------------------------------------------------------------------------
\* interrupt.s, pic.c: whatever drivers, devices and exceptions there are and
\* however deep they nest, a line is in service exactly while its interrupt is,
\* and every return takes off the stack what its entry put on it.
THEOREM ReturnsAreClean == Spec => []ReturnsClean
<1>1. ServiceInv => ReturnsClean
  <2> SUFFICES ASSUME ServiceInv PROVE isr = UNION {stack[i].acks : i \in DOMAIN stack}
    BY DEF ServiceInv, StackInv, ReturnsClean
  <2>1. /\ stack \in Seq(Entry) /\ Len(stack) \in Nat /\ DOMAIN stack = 1 .. Len(stack)
        /\ \A i \in 2 .. Len(stack) : stack[i].acks = {}
        /\ isr = IF stack = <<>> THEN {} ELSE stack[1].acks
    BY DEF ServiceInv, StackInv, Inner
  <2>2. CASE stack = <<>>
    BY <2>1, <2>2
  <2>3. CASE stack # <<>>
    <3>1. 1 \in DOMAIN stack /\ \A i \in DOMAIN stack : i = 1 \/ stack[i].acks = {}
      BY <2>1, <2>3
    <3> QED BY <2>1, <2>3, <3>1
  <2> QED BY <2>2, <2>3
<1> QED BY <1>1, InvAlways, PTL

\* interrupt.c: whatever is registered and in whichever order, the machine
\* stops only for an exception or a spurious interrupt without a handler.
THEOREM StopsForCause == Spec => []StopCause
<1>1. ServiceInv => StopCause
  <2> SUFFICES ASSUME ServiceInv, halted
               PROVE  Top.int_no < 32 \/ (Top.int_no \in {39, 47} /\ Top.int_no - 32 \notin Top.acks)
    BY DEF StopCause
  <2>1. stack # <<>> /\ Top.int_no \notin handlers /\ Len(stack) \in Nat \ {0} /\ Top = stack[Len(stack)]
    BY TopOf DEF ServiceInv, StackInv
  <2>2. CASE Len(stack) = 1
    BY <2>1, <2>2 DEF ServiceInv, StackInv, Outer, Given, Inner, Unwanted
  <2>3. CASE Len(stack) # 1
    <3>1. Len(stack) \in 2 .. Len(stack)
      BY <2>1, <2>3, NotFirst
    <3> QED BY <2>1, <3>1 DEF ServiceInv, StackInv, Inner
  <2> QED BY <2>2, <2>3
<1> QED BY <1>1, InvAlways, PTL

-----------------------------------------------------------------------------
(* Kprintf: powers and places. *)

LEMMA PowerIs ==
  ASSUME NEW b \in Nat
  PROVE  /\ Power(b, 0) = 1
         /\ \A k \in Nat : Power(b, k) \in Nat /\ Power(b, k + 1) = b * Power(b, k)
<1> DEFINE P(f) == f = [i \in Nat |-> IF i = 0 THEN 1 ELSE b * f[i - 1]]
           g == CHOOSE f : P(f)
           step == [x \in Nat \X Nat |-> b * x[2]]
<1>1. \E f : P(f)
  <2>1. step \in [Nat \X Nat -> Nat] /\ 1 \in Nat
    BY SMT
  <2>2. PICK f \in [Nat -> Nat] : NatRecursion(f, 1, step)
    <3> HIDE DEF step
    <3> QED BY <2>1, RecNat
  <2>3. ASSUME NEW i \in Nat PROVE f[i] = IF i = 0 THEN 1 ELSE b * f[i - 1]
    <3>1. CASE i = 0
      BY <2>2, <3>1 DEF NatRecursion
    <3>2. CASE i # 0
      <4>1. i - 1 \in Nat /\ i - 1 + 1 = i
        BY <3>2
      <4>2. f[i - 1 + 1] = step[<<i - 1 + 1, f[i - 1]>>]
        BY <2>2, <4>1 DEF NatRecursion
      <4>3. <<i, f[i - 1]>> \in Nat \X Nat
        BY <4>1
      <4> QED BY <3>2, <4>1, <4>2, <4>3
    <3> QED BY <3>1, <3>2
  <2>4. P(f)
    <3> HIDE DEF step
    <3> QED BY <2>2, <2>3
  <2> QED BY <2>4
<1>2. P(g)
  <2> HIDE DEF P
  <2> QED BY <1>1
<1>3. \A k : Power(b, k) = g[k]
  BY DEF Power
<1> HIDE DEF g
<1>4. g[0] = 1 /\ \A k \in Nat : g[k + 1] = b * g[k]
  BY <1>2
<1>5. \A k \in Nat : k \in {n \in Nat : g[n] \in Nat}
  <2> DEFINE D == {n \in Nat : g[n] \in Nat}
  <2>1. 0 \in D
    BY <1>4
  <2>2. ASSUME NEW n \in Nat, n \in D PROVE n + 1 \in D
    <3>1. g[n] \in Nat /\ g[n + 1] = b * g[n]
      BY <1>4, <2>2
    <3> HIDE DEF P
    <3>2. b * g[n] \in Nat
      BY <3>1, SMT
    <3> QED BY <3>1, <3>2
  <2> HIDE DEF D, P
  <2>3. \A k \in Nat : k \in D
    BY <2>1, <2>2, NatInd
  <2> QED BY <2>3 DEF D
<1> QED BY <1>3, <1>4, <1>5

\* A power of two or more is greater than its exponent, and grows with it.
LEMMA PowerAbove ==
  ASSUME NEW b \in Nat, b >= 2
  PROVE  \A k \in Nat : Power(b, k) \in Nat \ {0} /\ k < Power(b, k) /\ Power(b, k) < Power(b, k + 1)
<1> DEFINE D == {k \in Nat : k < Power(b, k)}
<1>1. 0 \in D
  BY PowerIs
<1>2. ASSUME NEW k \in Nat, k \in D PROVE k + 1 \in D
  <2> DEFINE p == Power(b, k)
  <2>1. p \in Nat /\ k < p /\ Power(b, k + 1) = b * p
    BY <1>2, PowerIs
  <2> HIDE DEF p
  <2>2. b * p >= p + p
    BY <2>1, SMT
  <2> QED BY <2>1, <2>2
<1>3. \A k \in Nat : k \in D
  <2> HIDE DEF D
  <2> QED BY <1>1, <1>2, NatInd
<1>4. ASSUME NEW k \in Nat
      PROVE  Power(b, k) \in Nat \ {0} /\ k < Power(b, k) /\ Power(b, k) < Power(b, k + 1)
  <2> DEFINE p == Power(b, k)
  <2>1. p \in Nat /\ k < p /\ Power(b, k + 1) = b * p
    BY <1>3, PowerIs
  <2> HIDE DEF p
  <2>2. b * p >= p + p
    BY <2>1, SMT
  <2>3. p \in Nat \ {0} /\ p < b * p
    BY <2>1, <2>2
  <2> QED BY <2>1, <2>3 DEF p
<1> QED BY <1>4

LEMMA PowerMono ==
  ASSUME NEW b \in Nat, b >= 2, NEW j \in Nat, NEW k \in Nat, j <= k
  PROVE  Power(b, j) <= Power(b, k)
<1> DEFINE D == {i \in Nat : Power(b, j) <= Power(b, j + i)}
<1>1. 0 \in D
  BY PowerIs
<1>2. ASSUME NEW i \in Nat, i \in D PROVE i + 1 \in D
  <2>1. j + i \in Nat /\ j + i + 1 \in Nat /\ j + (i + 1) = j + i + 1
    OBVIOUS
  <2>2. Power(b, j + i) < Power(b, j + i + 1)
    BY <2>1, PowerAbove
  <2>3. Power(b, j + i) \in Nat /\ Power(b, j + i + 1) \in Nat /\ Power(b, j) \in Nat
    BY <2>1, PowerIs
  <2>4. Power(b, j) <= Power(b, j + i)
    BY <1>2
  <2>5. Power(b, j) <= Power(b, j + i + 1)
    BY ONLY <2>2, <2>3, <2>4, SMT
  <2> QED BY <2>1, <2>5
<1>3. \A i \in Nat : i \in D
  <2> HIDE DEF D
  <2> QED BY <1>1, <1>2, NatInd
<1>4. k - j \in D /\ j + (k - j) = k
  BY <1>3
<1> QED BY <1>4

\* Places is what its definition asks for, and nothing else is.
LEMMA PlacesIs ==
  ASSUME NEW n \in Nat, NEW b \in Nat, b >= 2
  PROVE  /\ Places(n, b) \in Nat \ {0} /\ n < Power(b, Places(n, b))
         /\ Places(n, b) = 1 \/ n >= Power(b, Places(n, b) - 1)
         /\ \A k \in Nat \ {0} :
              n < Power(b, k) /\ (k = 1 \/ n >= Power(b, k - 1)) => Places(n, b) = k
<1> DEFINE S == {k \in Nat \ {0} : n < Power(b, k)}
           Q(k) == n < Power(b, k) /\ (k = 1 \/ n >= Power(b, k - 1))
<1>1. n + 1 \in S
  <2>1. n + 1 < Power(b, n + 1) /\ Power(b, n + 1) \in Nat
    BY PowerAbove
  <2> QED BY <2>1
<1>2. PICK k \in S : \A j \in S : k <= j
  <2> HIDE DEF S
  <2>1. S \in SUBSET Nat
    BY DEF S
  <2> QED BY <1>1, <2>1, NatMin
<1>3. k \in 1 .. n + 1 /\ Q(k)
  <2>1. k <= n + 1 /\ k \in Nat \ {0} /\ n < Power(b, k)
    BY <1>1, <1>2
  <2>2. ASSUME k # 1 PROVE n >= Power(b, k - 1)
    <3>1. k - 1 \in Nat \ {0} /\ k - 1 \notin S
      BY <1>2, <2>1, <2>2
    <3>2. Power(b, k - 1) \in Nat
      BY <3>1, PowerIs
    <3> QED BY <3>1, <3>2
  <2> QED BY <2>1, <2>2
<1>4. Places(n, b) \in 1 .. n + 1 /\ Q(Places(n, b))
  <2> HIDE DEF Q
  <2> QED BY <1>3 DEF Places, Q
<1>5. ASSUME NEW i \in Nat \ {0}, NEW j \in Nat \ {0}, Q(i), Q(j) PROVE ~(i < j)
  <2> SUFFICES ASSUME i < j PROVE FALSE
    OBVIOUS
  <2>1. j - 1 \in Nat /\ i <= j - 1 /\ j # 1
    OBVIOUS
  <2>2. Power(b, i) <= Power(b, j - 1) /\ Power(b, i) \in Nat /\ Power(b, j - 1) \in Nat
    BY <2>1, PowerMono, PowerIs
  <2> QED BY <1>5, <2>1, <2>2
<1>6. Places(n, b) \in Nat \ {0}
  BY <1>4
<1>7. ASSUME NEW i \in Nat \ {0}, Q(i) PROVE Places(n, b) = i
  BY <1>4, <1>5, <1>6, <1>7
<1> QED BY <1>4, <1>6, <1>7

-----------------------------------------------------------------------------
(* Digits. *)

LEMMA PlaceDiv ==
  ASSUME NEW n \in Nat, NEW b \in Nat, b >= 2, NEW i \in Nat
  PROVE  (n \div b) \div Power(b, i) = n \div Power(b, i + 1)
<1> DEFINE p == Power(b, i)
<1>1. p \in Nat \ {0}
  BY PowerAbove
<1>2. Power(b, i + 1) = b * p
  BY PowerIs
<1> HIDE DEF p
<1>3. b \in Nat \ {0}
  OBVIOUS
<1>4. (n \div b) \div p = n \div (b * p)
  BY <1>1, <1>3, DivDiv
<1> QED BY <1>2, <1>4 DEF p

LEMMA PlacesStep ==
  ASSUME NEW n \in Nat, NEW b \in Nat, b >= 2
  PROVE  /\ n < b => Places(n, b) = 1
         /\ n >= b => Places(n, b) = Places(n \div b, b) + 1
<1>1. Power(b, 0) = 1 /\ Power(b, 1) = b
  <2>1. Power(b, 0) = 1 /\ Power(b, 0 + 1) = b * Power(b, 0)
    BY PowerIs
  <2> QED BY <2>1
<1>2. ASSUME n < b PROVE Places(n, b) = 1
  BY <1>1, <1>2, PlacesIs
<1>3. ASSUME n >= b PROVE Places(n, b) = Places(n \div b, b) + 1
  <2> DEFINE q == n \div b
             p == Places(q, b)
  <2>1. q \in Nat /\ b * q <= n /\ n < b * q + b
    BY DivType
  <2>2. q >= 1
    BY <1>3, <2>1, SMT
  <2> HIDE DEF q
  <2>3. p \in Nat \ {0} /\ q < Power(b, p) /\ (p = 1 \/ q >= Power(b, p - 1))
    BY <2>1, PlacesIs
  <2> HIDE DEF p
  <2>4. n < Power(b, p + 1)
    <3> DEFINE w == Power(b, p)
    <3>1. w \in Nat /\ Power(b, p + 1) = b * w /\ q + 1 <= w
      BY <2>1, <2>3, PowerIs
    <3> HIDE DEF w
    <3>2. b * (q + 1) <= b * w /\ b * (q + 1) = b * q + b
      BY <2>1, <3>1, SMT
    <3>3. b * q \in Nat /\ b * w \in Nat
      BY <2>1, <3>1, SMT
    <3> QED BY <2>1, <3>1, <3>2, <3>3
  <2>5. n >= Power(b, p)
    <3>1. CASE p = 1
      BY <1>1, <1>3, <3>1
    <3>2. CASE p # 1
      <4> DEFINE e == p - 1
                 w == Power(b, e)
      <4>1. e \in Nat /\ e + 1 = p
        BY <2>3, <3>2
      <4>2. q >= w
        BY <2>3, <3>2
      <4> HIDE DEF e
      <4>3. w \in Nat /\ Power(b, e + 1) = b * w
        BY <4>1, PowerIs
      <4> HIDE DEF w
      <4>4. b * q >= b * w
        BY <2>1, <4>2, <4>3, SMT
      <4>5. b * q \in Nat /\ b * w \in Nat
        BY <2>1, <4>3, SMT
      <4> QED BY <2>1, <4>1, <4>3, <4>4, <4>5
    <3> QED BY <3>1, <3>2
  <2> DEFINE k == p + 1
  <2>6. k \in Nat \ {0} /\ k - 1 = p
    BY <2>3
  <2>7. n < Power(b, k) /\ n >= Power(b, k - 1)
    BY <2>4, <2>5, <2>6
  <2>8. Places(n, b) = k
    <3> HIDE DEF k
    <3> QED BY <2>6, <2>7, PlacesIs
  <2> QED BY <2>8 DEF p, q
<1> QED BY <1>2, <1>3

-----------------------------------------------------------------------------
(* itoa. *)

LEMMA Prepend ==
  ASSUME NEW a \in Int, NEW s \in Seq(Int)
  PROVE  /\ <<a>> \o s \in Seq(Int) /\ Len(<<a>> \o s) = Len(s) + 1
         /\ (<<a>> \o s)[1] = a
         /\ \A j \in 1 .. Len(s) : (<<a>> \o s)[j + 1] = s[j]
OBVIOUS

LEMMA DigitsStep ==
  \A n \in Nat : /\ Digits[n] \in Seq(Int)
                 /\ n < 10 => Digits[n] = <<48 + (n % 10)>>
                 /\ n >= 10 => Digits[n] = <<48 + (n % 10)>> \o Digits[n \div 10]
<1> DEFINE P(f) == f = [n \in Nat |-> <<48 + (n % 10)>> \o IF n \div 10 > 0 THEN f[n \div 10] ELSE <<>>]
           g == CHOOSE f : P(f)
           S == Seq(Int)
           one(n) == <<48 + (n % 10)>>
           m == [n \in Nat |-> n \div 10]
           base == [n \in Nat |-> one(n)]
           next == [n \in Nat |-> n \div 10]
           step == [x \in Nat \X S |-> one(x[1]) \o x[2]]
<1>1. ASSUME NEW n \in Nat
      PROVE  one(n) \in Seq(Int) /\ one(n) \o <<>> = one(n) /\ n \div 10 \in Nat
             /\ (n \div 10 > 0 => (n \div 10) \div 10 < n \div 10)
  <2>1. n % 10 \in Nat
    BY ModType
  <2>2. n \div 10 \in Nat /\ (n \div 10 > 0 => (n \div 10) \div 10 < n \div 10)
    OBVIOUS
  <2> QED BY <2>1, <2>2
<1> HIDE DEF one
<1>2. m \in [Nat -> Nat] /\ next \in [Nat -> Nat] /\ base \in [Nat -> S]
  BY <1>1
<1>3. step \in [Nat \X S -> S]
  <2>1. ASSUME NEW n \in Nat, NEW s \in S PROVE one(n) \o s \in S
    BY <1>1
  <2> QED BY <2>1
<1>4. \A n \in Nat : m[n] > 0 => m[next[n]] < m[n]
  BY <1>1
<1>5. PICK f \in [Nat -> S] : MeasureRecursion(f, Nat, m, base, next, step)
  <2> HIDE DEF m, base, next, step, S
  <2> QED BY <1>2, <1>3, <1>4, RecMeasure
<1>6. ASSUME NEW n \in Nat
      PROVE  f[n] = one(n) \o IF n \div 10 > 0 THEN f[n \div 10] ELSE <<>>
  <2>1. CASE n \div 10 > 0
    <3>1. n \div 10 \in Nat /\ m[n] # 0 /\ next[n] = n \div 10 /\ f[n \div 10] \in S
      BY <1>1, <2>1
    <3>2. f[n] = step[<<n, f[n \div 10]>>]
      <4> HIDE DEF m, base, next, step
      <4> QED BY <1>5, <3>1 DEF MeasureRecursion
    <3>3. <<n, f[n \div 10]>> \in Nat \X S
      BY <3>1
    <3>4. step[<<n, f[n \div 10]>>] = one(n) \o f[n \div 10]
      BY <3>3
    <3> QED BY <2>1, <3>2, <3>4
  <2>2. CASE ~(n \div 10 > 0)
    <3>1. m[n] = 0
      BY <1>1, <2>2
    <3>2. f[n] = base[n]
      <4> HIDE DEF m, base, next, step
      <4> QED BY <1>5, <3>1 DEF MeasureRecursion
    <3> QED BY <1>1, <2>2, <3>2
  <2> QED BY <2>1, <2>2
<1>7. P(f)
  <2> HIDE DEF m, base, next, step
  <2> QED BY <1>6 DEF one
<1>8. P(g)
  <2> HIDE DEF P
  <2> QED BY <1>7
<1>9. Digits = g
  BY DEF Digits
<1> HIDE DEF g
<1>10. \A n \in Nat : g[n] = one(n) \o IF n \div 10 > 0 THEN g[n \div 10] ELSE <<>>
  BY <1>8 DEF one
<1>11. \A n \in Nat : g[n] \in Seq(Int)
  <2> DEFINE Bad == {n \in Nat : g[n] \notin Seq(Int)}
  <2> SUFFICES ASSUME Bad # {} PROVE FALSE
    OBVIOUS
  <2>1. PICK n \in Bad : \A k \in Bad : n <= k
    BY NatMin
  <2>2. CASE n \div 10 > 0
    <3>1. n \div 10 \in Nat /\ n \div 10 < n
      BY <2>2
    <3>2. g[n \div 10] \in Seq(Int)
      <4> DEFINE k == n \div 10
      <4>1. k \in Nat /\ ~(n <= k)
        BY <3>1
      <4> HIDE DEF k
      <4>2. k \notin Bad
        <5> HIDE DEF Bad
        <5> QED BY <2>1, <4>1
      <4> QED BY <4>1, <4>2 DEF k
    <3>3. g[n] = one(n) \o g[n \div 10]
      BY <1>10, <2>2
    <3>4. one(n) \o g[n \div 10] \in Seq(Int)
      BY <1>1, <3>2
    <3>5. g[n] \notin Seq(Int)
      OBVIOUS
    <3> QED BY <3>3, <3>4, <3>5
  <2>3. CASE ~(n \div 10 > 0)
    <3>1. g[n] = one(n)
      BY <1>1, <1>10, <2>3
    <3>2. g[n] \notin Seq(Int) /\ one(n) \in Seq(Int)
      BY <1>1
    <3> QED BY <3>1, <3>2
  <2> QED BY <2>2, <2>3
<1>12. ASSUME NEW n \in Nat
       PROVE  /\ n < 10 => g[n] = one(n)
              /\ n >= 10 => g[n] = one(n) \o g[n \div 10]
  <2>1. (n < 10 => ~(n \div 10 > 0)) /\ (n >= 10 => n \div 10 > 0)
    OBVIOUS
  <2> QED BY <1>1, <1>10, <2>1
<1> QED BY <1>9, <1>11, <1>12 DEF one

\* The loop of itoa collects the places of n, from the lowest.
LEMMA DigitsAre ==
  ASSUME NEW n \in Nat
  PROVE  /\ Digits[n] \in Seq(Int) /\ Len(Digits[n]) = Places(n, 10)
         /\ \A j \in 1 .. Places(n, 10) : Digits[n][j] = 48 + ((n \div Power(10, j - 1)) % 10)
<1> DEFINE Good(k) == /\ Len(Digits[k]) = Places(k, 10)
                      /\ \A j \in 1 .. Places(k, 10) : Digits[k][j] = 48 + ((k \div Power(10, j - 1)) % 10)
           Bad == {k \in Nat : ~Good(k)}
<1> SUFFICES ASSUME Bad # {} PROVE FALSE
  BY DigitsStep
<1>1. PICK k \in Bad : \A i \in Bad : k <= i
  BY NatMin
<1>2. Power(10, 0) = 1 /\ Power(10, 1) = 10
  <2>1. Power(10, 0) = 1 /\ Power(10, 0 + 1) = 10 * Power(10, 0)
    BY PowerIs
  <2> QED BY <2>1
<1>3. CASE k < 10
  <2>1. Places(k, 10) = 1
    BY <1>2, <1>3, PlacesIs
  <2>2. Digits[k] = <<48 + (k % 10)>>
    BY <1>3, DigitsStep
  <2>3. k \div 1 = k
    OBVIOUS
  <2>4. Good(k)
    BY <1>2, <2>1, <2>2, <2>3
  <2> QED BY <2>4
<1>4. CASE k >= 10
  <2> DEFINE q == k \div 10
             p == Places(q, 10)
             s == Digits[q]
             a == 48 + (k % 10)
  <2>1. q \in Nat /\ q < k /\ a \in Int /\ q >= 1
    BY <1>4
  <2>2. Good(q)
    BY <1>1, <2>1
  <2>3. p \in Nat \ {0} /\ s \in Seq(Int) /\ Len(s) = p
    <3>1. p \in Nat \ {0}
      <4> HIDE DEF q
      <4>1. \A b \in Nat : b >= 2 => Places(q, b) \in Nat \ {0}
        BY <2>1, PlacesIs
      <4>2. 10 \in Nat /\ 10 >= 2
        OBVIOUS
      <4> QED BY ONLY <4>1, <4>2, Zenon
    <3>2. s \in Seq(Int)
      <4> HIDE DEF q
      <4> QED BY <2>1, DigitsStep
    <3>3. Len(s) = p
      BY <2>2
    <3> QED BY <3>1, <3>2, <3>3
  <2>4. Digits[k] = <<a>> \o s
    BY <1>4, DigitsStep
  <2>5. Places(k, 10) = p + 1
    BY <1>4, PlacesStep
  <2>6. ASSUME NEW j \in 1 .. p + 1
        PROVE  Digits[k][j] = 48 + ((k \div Power(10, j - 1)) % 10)
    <3>1. CASE j = 1
      <4>1. (<<a>> \o s)[1] = a
        BY <2>1, <2>3, Prepend
      <4>2. k \div 1 = k
        OBVIOUS
      <4>3. j - 1 = 0 /\ Power(10, j - 1) = 1
        BY <1>2, <3>1
      <4> HIDE DEF s
      <4> QED BY <2>4, <3>1, <4>1, <4>2, <4>3
    <3>2. CASE j # 1
      <4> DEFINE i == j - 1
      <4>1. i \in 1 .. p /\ i + 1 = j /\ i - 1 \in Nat /\ i - 1 + 1 = i
        BY <2>3, <3>2
      <4>2. (<<a>> \o s)[i + 1] = s[i]
        BY <2>1, <2>3, <4>1, Prepend
      <4>3. s[i] = 48 + ((q \div Power(10, i - 1)) % 10)
        BY <2>2, <4>1
      <4>4. q \div Power(10, i - 1) = k \div Power(10, i)
        <5> DEFINE e == i - 1
        <5>1. e \in Nat /\ e + 1 = i
          BY <4>1
        <5> HIDE DEF e, i
        <5>2. (k \div 10) \div Power(10, e) = k \div Power(10, e + 1)
          <6>1. \A b \in Nat : b >= 2 => (k \div b) \div Power(b, e) = k \div Power(b, e + 1)
            BY <5>1, PlaceDiv
          <6>2. 10 \in Nat /\ 10 >= 2
            OBVIOUS
          <6> QED BY ONLY <6>1, <6>2, Zenon
        <5> QED BY <5>1, <5>2 DEF e
      <4> HIDE DEF i, s, q, p, a
      <4>5. Digits[k][j] = s[i]
        BY <2>4, <4>1, <4>2
      <4>6. j - 1 = i
        BY DEF i
      <4> QED BY <4>3, <4>4, <4>5, <4>6
    <3> QED BY <3>1, <3>2
  <2>7. Len(Digits[k]) = p + 1
    BY <2>1, <2>3, <2>4, Prepend
  <2>8. Good(k)
    <3> HIDE DEF p
    <3> QED BY <2>5, <2>6, <2>7
  <2> QED BY <2>8
<1> QED BY <1>3, <1>4

-----------------------------------------------------------------------------
(* itoh. *)

LEMMA PowerSum ==
  ASSUME NEW b \in Nat, NEW j \in Nat, NEW k \in Nat
  PROVE  Power(b, j + k) = Power(b, j) * Power(b, k)
<1> DEFINE D == {i \in Nat : Power(b, j + i) = Power(b, j) * Power(b, i)}
<1>1. 0 \in D
  <2> DEFINE p == Power(b, j)
  <2>1. p \in Nat /\ Power(b, 0) = 1 /\ j + 0 = j
    BY PowerIs
  <2> HIDE DEF p
  <2>2. p = p * 1
    BY <2>1
  <2> QED BY <2>1, <2>2 DEF p
<1>2. ASSUME NEW i \in Nat, i \in D PROVE i + 1 \in D
  <2> DEFINE p == Power(b, j)
             q == Power(b, i)
             n == j + i
  <2>1. n \in Nat /\ j + (i + 1) = n + 1
    OBVIOUS
  <2>2. p \in Nat /\ q \in Nat
    BY PowerIs
  <2>3. Power(b, n) = p * q
    BY <1>2
  <2>4. Power(b, i + 1) = b * q
    BY PowerIs
  <2> HIDE DEF n, p, q
  <2>5. Power(b, n + 1) = b * Power(b, n)
    BY <2>1, PowerIs
  <2>6. b * (p * q) = p * (b * q)
    BY <2>2, SMT
  <2>7. Power(b, n + 1) = p * Power(b, i + 1)
    BY <2>3, <2>4, <2>5, <2>6
  <2> QED BY <2>1, <2>7 DEF p
<1>3. \A i \in Nat : i \in D
  <2> HIDE DEF D
  <2> QED BY <1>1, <1>2, NatInd
<1> QED BY <1>3

LEMMA StartStep ==
  ASSUME NEW u \in Nat
  PROVE  \A e \in Nat : Start(u, e) = IF u \div e = 0 /\ e >= 16 THEN Start(u, e \div 16) ELSE e
<1> DEFINE P(f) == f = [e \in Nat |-> IF u \div e = 0 /\ e >= 16 THEN f[e \div 16] ELSE e]
           g == CHOOSE f : P(f)
           go(e) == u \div e = 0 /\ e >= 16
           m == [e \in Nat |-> IF go(e) THEN e ELSE 0]
           base == [e \in Nat |-> e]
           next == [e \in Nat |-> e \div 16]
           step == [x \in Nat \X Nat |-> x[2]]
<1>1. ASSUME NEW e \in Nat PROVE e \div 16 \in Nat /\ (e > 0 => e \div 16 < e)
  OBVIOUS
<1>2. ASSUME NEW e \in Nat PROVE go(e) => e > 0
  OBVIOUS
<1> HIDE DEF go
<1>3. m \in [Nat -> Nat] /\ base \in [Nat -> Nat] /\ next \in [Nat -> Nat]
  BY <1>1
<1>4. step \in [Nat \X Nat -> Nat]
  OBVIOUS
<1>5. \A e \in Nat : m[e] > 0 => m[next[e]] < m[e]
  <2> SUFFICES ASSUME NEW e \in Nat, m[e] > 0 PROVE m[next[e]] < m[e]
    OBVIOUS
  <2>1. m[e] = e /\ next[e] = e \div 16 /\ e > 0
    OBVIOUS
  <2>2. e \div 16 \in Nat /\ e \div 16 < e
    BY <1>1, <2>1
  <2>3. m[e \div 16] <= e \div 16 /\ m[e \div 16] \in Nat
    BY <2>2
  <2> HIDE DEF m, next
  <2> QED BY <2>1, <2>2, <2>3
<1>6. PICK f \in [Nat -> Nat] : MeasureRecursion(f, Nat, m, base, next, step)
  <2> HIDE DEF m, base, next, step
  <2> QED BY <1>3, <1>4, <1>5, RecMeasure
<1>7. ASSUME NEW e \in Nat PROVE f[e] = IF go(e) THEN f[e \div 16] ELSE e
  <2>1. f[e] = IF m[e] = 0 THEN base[e] ELSE step[<<e, f[next[e]]>>]
    <3> HIDE DEF m, base, next, step
    <3> QED BY <1>6 DEF MeasureRecursion
  <2>2. next[e] = e \div 16 /\ base[e] = e /\ e \div 16 \in Nat
    BY <1>1
  <2>3. m[e] = 0 <=> ~go(e)
    BY <1>2
  <2>4. step[<<e, f[e \div 16]>>] = f[e \div 16]
    <3>1. <<e, f[e \div 16]>> \in Nat \X Nat
      BY <2>2
    <3> QED BY <3>1
  <2> HIDE DEF m, base, next, step
  <2> QED BY <2>1, <2>2, <2>3, <2>4
<1>8. P(f)
  BY <1>7 DEF go
<1>9. P(g)
  <2> HIDE DEF P
  <2> QED BY <1>8
<1>10. \A d : Start(u, d) = g[d]
  BY DEF Start
<1> HIDE DEF g
<1>11. \A e \in Nat : g[e] = IF u \div e = 0 /\ e >= 16 THEN g[e \div 16] ELSE e
  BY <1>9
<1> QED BY <1>10, <1>11

\* The first loop of itoh stops at the highest place of u.
LEMMA StartIs ==
  \A k \in Nat : \A u \in Nat :
    u < Power(16, k + 1) => Start(u, Power(16, k)) = Power(16, Places(u, 16) - 1)
<1> DEFINE D == {k \in Nat : \A u \in Nat :
                   u < Power(16, k + 1) => Start(u, Power(16, k)) = Power(16, Places(u, 16) - 1)}
<1>1. 0 \in D
  <2> SUFFICES ASSUME NEW u \in Nat, u < Power(16, 0 + 1)
               PROVE  Start(u, Power(16, 0)) = Power(16, Places(u, 16) - 1)
    OBVIOUS
  <2>1. Power(16, 0) = 1 /\ Power(16, 0 + 1) = 16 * Power(16, 0)
    BY PowerIs
  <2>2. Places(u, 16) = 1
    BY <2>1, PlacesStep
  <2>3. Start(u, 1) = 1
    BY StartStep
  <2> QED BY <2>1, <2>2, <2>3
<1>2. ASSUME NEW k \in Nat, k \in D PROVE k + 1 \in D
  <2> SUFFICES ASSUME NEW u \in Nat, u < Power(16, k + 1 + 1)
               PROVE  Start(u, Power(16, k + 1)) = Power(16, Places(u, 16) - 1)
    OBVIOUS
  <2> DEFINE d == Power(16, k + 1)
             e == Power(16, k)
  <2>1. e \in Nat \ {0} /\ d = 16 * e
    <3>1. \A b \in Nat : b >= 2 => Power(b, k) \in Nat \ {0} /\ Power(b, k + 1) = b * Power(b, k)
      BY PowerAbove, PowerIs
    <3> QED BY <3>1
  <2> HIDE DEF e
  <2>2. d \in Nat /\ d >= 16 /\ d \div 16 = e
    BY <2>1
  <2> HIDE DEF d
  <2>3. CASE u < d
    <3>1. u \div d = 0
      BY <2>2, <2>3, DivUnique
    <3>2. Start(u, d) = Start(u, e)
      BY <2>2, <3>1, StartStep
    <3>3. Start(u, e) = Power(16, Places(u, 16) - 1)
      BY <1>2, <2>3 DEF d, e
    <3> QED BY <3>2, <3>3 DEF d
  <2>4. CASE u >= d
    <3>1. u \div d # 0
      <4>1. u < d * (u \div d) + d
        BY <2>2, DivType
      <4> QED BY <2>2, <2>4, <4>1
    <3>2. Start(u, d) = d
      BY <2>2, <3>1, StartStep
    <3>3. Places(u, 16) = k + 1 + 1
      <4> DEFINE n == k + 1 + 1
      <4>1. n \in Nat \ {0} /\ n - 1 = k + 1
        OBVIOUS
      <4>2. u < Power(16, n) /\ u >= Power(16, n - 1)
        BY <2>4, <4>1 DEF d
      <4>3. 16 \in Nat /\ 16 >= 2
        OBVIOUS
      <4> HIDE DEF n
      <4> QED BY ONLY <4>1, <4>2, <4>3, u \in Nat, PlacesIs, Zenon DEF n
    <3>4. Places(u, 16) - 1 = k + 1
      BY <3>3
    <3> QED BY <3>2, <3>4 DEF d
  <2> QED BY <2>2, <2>3, <2>4
<1>3. \A k \in Nat : k \in D
  <2> HIDE DEF D
  <2> QED BY <1>1, <1>2, NatInd
<1> QED BY <1>3

\* The second loop of itoh, with the statement after it.
LEMMA RestStep ==
  /\ Rest \in [Nat -> [Nat -> Seq(Int)]]
  /\ \A d \in Nat, i \in Nat :
       Rest[d][i] = IF d >= 15 THEN <<HexChar(i \div d)>> \o Rest[d \div 16][i % d]
                    ELSE <<HexChar(i)>>
<1> DEFINE S == [Nat -> Seq(Int)]
           P(f) == f = [d \in Nat |->
                         [i \in Nat |-> IF d >= 15 THEN <<HexChar(i \div d)>> \o f[d \div 16][i % d]
                                        ELSE <<HexChar(i)>>]]
           g == CHOOSE f : P(f)
           m == [d \in Nat |-> IF d >= 15 THEN d ELSE 0]
           low == [i \in Nat |-> <<HexChar(i)>>]
           base == [d \in Nat |-> low]
           next == [d \in Nat |-> d \div 16]
           high(d, r) == [i \in Nat |-> <<HexChar(i \div d)>> \o r[i % d]]
           step == [x \in Nat \X S |-> IF x[1] >= 15 THEN high(x[1], x[2]) ELSE low]
<1>1. ASSUME NEW i \in Nat PROVE HexChar(i) \in Int /\ <<HexChar(i)>> \in Seq(Int)
  BY DEF HexChar
<1>2. ASSUME NEW d \in Nat, d >= 15, NEW i \in Nat PROVE i \div d \in Nat /\ i % d \in Nat
  BY <1>2, DivType, ModType
<1>3. ASSUME NEW d \in Nat, d >= 15, NEW r \in S PROVE high(d, r) \in S
  <2>1. ASSUME NEW i \in Nat PROVE <<HexChar(i \div d)>> \o r[i % d] \in Seq(Int)
    <3>1. <<HexChar(i \div d)>> \in Seq(Int) /\ r[i % d] \in Seq(Int)
      BY <1>1, <1>2, <1>3
    <3> QED BY <3>1
  <2> QED BY <2>1
<1>4. low \in S
  BY <1>1
<1> HIDE DEF S, low, high
<1>5. m \in [Nat -> Nat] /\ next \in [Nat -> Nat] /\ base \in [Nat -> S] /\ step \in [Nat \X S -> S]
  <2>1. step \in [Nat \X S -> S]
    <3>1. ASSUME NEW x \in Nat \X S PROVE (IF x[1] >= 15 THEN high(x[1], x[2]) ELSE low) \in S
      <4>1. x[1] \in Nat /\ x[2] \in S
        OBVIOUS
      <4> QED BY <1>3, <1>4, <4>1
    <3> QED BY <3>1
  <2> QED BY <1>4, <2>1
<1>6. \A d \in Nat : m[d] > 0 => m[next[d]] < m[d]
  <2> SUFFICES ASSUME NEW d \in Nat, m[d] > 0 PROVE m[next[d]] < m[d]
    OBVIOUS
  <2>1. m[d] = d /\ next[d] = d \div 16 /\ d > 0 /\ d \div 16 \in Nat /\ d \div 16 < d
    OBVIOUS
  <2>2. m[d \div 16] <= d \div 16 /\ m[d \div 16] \in Nat
    BY <2>1
  <2> HIDE DEF m, next
  <2> QED BY <2>1, <2>2
<1>7. PICK f \in [Nat -> S] : MeasureRecursion(f, Nat, m, base, next, step)
  <2> HIDE DEF m, base, next, step
  <2> QED BY <1>5, <1>6, RecMeasure
<1>8. ASSUME NEW d \in Nat PROVE f[d] = IF d >= 15 THEN high(d, f[d \div 16]) ELSE low
  <2>1. f[d] = IF m[d] = 0 THEN base[d] ELSE step[<<d, f[next[d]]>>]
    <3> HIDE DEF m, base, next, step
    <3> QED BY <1>7 DEF MeasureRecursion
  <2>2. next[d] = d \div 16 /\ base[d] = low /\ d \div 16 \in Nat /\ (m[d] = 0 <=> ~(d >= 15))
    OBVIOUS
  <2>3. d >= 15 => step[<<d, f[d \div 16]>>] = high(d, f[d \div 16])
    <3>1. <<d, f[d \div 16]>> \in Nat \X S
      BY <2>2
    <3> QED BY <3>1
  <2> HIDE DEF m, base, next, step
  <2> QED BY <2>1, <2>2, <2>3
<1>9. P(f)
  <2>1. ASSUME NEW d \in Nat
        PROVE  f[d] = [i \in Nat |-> IF d >= 15 THEN <<HexChar(i \div d)>> \o f[d \div 16][i % d]
                                     ELSE <<HexChar(i)>>]
    <3>1. CASE d >= 15
      BY <1>8, <3>1 DEF high
    <3>2. CASE ~(d >= 15)
      BY <1>8, <3>2 DEF low
    <3> QED BY <3>1, <3>2
  <2> HIDE DEF m, base, next, step
  <2> QED BY <2>1
<1>10. P(g)
  <2> HIDE DEF P
  <2> QED BY <1>9
<1>11. Rest = g
  BY DEF Rest
<1> HIDE DEF g
<1>12. ASSUME NEW d \in Nat, NEW i \in Nat
       PROVE  g[d][i] = IF d >= 15 THEN <<HexChar(i \div d)>> \o g[d \div 16][i % d]
                        ELSE <<HexChar(i)>>
  <2>1. g[d] = [j \in Nat |-> IF d >= 15 THEN <<HexChar(j \div d)>> \o g[d \div 16][j % d]
                              ELSE <<HexChar(j)>>]
    BY <1>10
  <2> HIDE DEF P
  <2> QED BY <2>1
<1>13. \A d \in Nat : g[d] \in S
  <2> DEFINE Bad == {d \in Nat : g[d] \notin S}
  <2> SUFFICES ASSUME Bad # {} PROVE FALSE
    OBVIOUS
  <2>1. PICK d \in Bad : \A e \in Bad : d <= e
    BY NatMin
  <2>2. g[d] = [i \in Nat |-> IF d >= 15 THEN <<HexChar(i \div d)>> \o g[d \div 16][i % d]
                              ELSE <<HexChar(i)>>]
    BY <1>10
  <2> HIDE DEF P
  <2>3. CASE d >= 15
    <3>1. d \div 16 \in Nat /\ d \div 16 < d
      BY <2>3
    <3>2. g[d \div 16] \in S
      BY <2>1, <3>1
    <3>3. high(d, g[d \div 16]) \in S
      BY <1>3, <2>3, <3>2
    <3>4. g[d] = high(d, g[d \div 16])
      BY <2>2, <2>3 DEF high
    <3>5. g[d] \notin S
      OBVIOUS
    <3> QED BY <3>3, <3>4, <3>5
  <2>4. CASE ~(d >= 15)
    <3>1. g[d] = low
      BY <2>2, <2>4 DEF low
    <3>2. g[d] \notin S
      OBVIOUS
    <3> QED BY <1>4, <3>1, <3>2
  <2> QED BY <2>3, <2>4
<1>14. g \in [Nat -> S]
  <2>1. g = [d \in Nat |-> g[d]]
    BY <1>10
  <2> HIDE DEF P
  <2> QED BY <1>13, <2>1
<1> QED BY <1>11, <1>12, <1>14 DEF S

\* From the place k it collects k + 1 digits, the highest first.
HexDigit(n, i) == HexChar((n \div Power(16, i)) % 16)
Hex(n, k, s) == /\ s \in Seq(Int) /\ Len(s) = k + 1
                /\ \A j \in 1 .. k + 1 : s[j] = HexDigit(n, k + 1 - j)

LEMMA DigitOfRest ==
  ASSUME NEW n \in Nat, NEW k \in Nat, NEW i \in 0 .. k
  PROVE  HexDigit(n % Power(16, k + 1), i) = HexDigit(n, i)
<1> DEFINE e == Power(16, i)
           c == Power(16, k - i)
           d == k - i
<1>0. d \in Nat /\ i \in Nat /\ i + (d + 1) = k + 1 /\ 16 \in Nat \ {0} /\ 16 >= 2 /\ d + 1 \in Nat
  OBVIOUS
<1> HIDE DEF d
<1>1. \A b \in Nat : b >= 2 => Power(b, i) \in Nat \ {0} /\ Power(b, d) \in Nat \ {0}
                               /\ Power(b, d + 1) = b * Power(b, d)
                               /\ Power(b, i + (d + 1)) = Power(b, i) * Power(b, d + 1)
  <2> SUFFICES ASSUME NEW b \in Nat, b >= 2
               PROVE  /\ Power(b, i) \in Nat \ {0} /\ Power(b, d) \in Nat \ {0}
                      /\ Power(b, d + 1) = b * Power(b, d)
                      /\ Power(b, i + (d + 1)) = Power(b, i) * Power(b, d + 1)
    OBVIOUS
  <2> DEFINE j == d + 1
  <2>1. j \in Nat
    BY <1>0
  <2>2. Power(b, i) \in Nat \ {0} /\ Power(b, d) \in Nat \ {0}
    BY <1>0, PowerAbove
  <2>3. Power(b, d + 1) = b * Power(b, d)
    BY <1>0, PowerIs
  <2> HIDE DEF j
  <2>4. Power(b, i + j) = Power(b, i) * Power(b, j)
    BY <1>0, <2>1, PowerSum
  <2> QED BY <2>2, <2>3, <2>4 DEF j
<1>2. e \in Nat \ {0} /\ c \in Nat \ {0} /\ Power(16, k + 1) = e * (16 * c)
  BY <1>0, <1>1 DEF d
<1> HIDE DEF e, c
<1>3. ((n % (e * (16 * c))) \div e) % 16 = (n \div e) % 16
  <2>1. \A b \in Nat \ {0} : ((n % (e * (b * c))) \div e) % b = (n \div e) % b
    BY <1>2, DigitOfMod
  <2> QED BY <1>0, <2>1, Zenon
<1> QED BY <1>2, <1>3 DEF e, HexDigit

LEMMA RestIs ==
  \A k \in Nat : \A n \in Nat : n < Power(16, k + 1) => Hex(n, k, Rest[Power(16, k)][n])
<1> DEFINE D == {k \in Nat : \A n \in Nat :
                   n < Power(16, k + 1) => Hex(n, k, Rest[Power(16, k)][n])}
<1>1. 0 \in D
  <2> SUFFICES ASSUME NEW n \in Nat, n < Power(16, 0 + 1)
               PROVE  Hex(n, 0, Rest[Power(16, 0)][n])
    OBVIOUS
  <2>1. Power(16, 0) = 1 /\ Power(16, 0 + 1) = 16 * Power(16, 0)
    BY PowerIs
  <2>2. Rest[1][n] = <<HexChar(n)>>
    <3>1. 1 \in Nat /\ ~(1 >= 15)
      OBVIOUS
    <3> QED BY ONLY <3>1, n \in Nat, RestStep, Zenon
  <2>3. n \div 1 = n /\ n % 16 = n
    BY <2>1
  <2>4. HexDigit(n, 0) = HexChar(n)
    BY <2>1, <2>3 DEF HexDigit
  <2>5. HexChar(n) \in Int
    BY DEF HexChar
  <2> DEFINE s == <<HexChar(n)>>
  <2>6. s \in Seq(Int) /\ Len(s) = 0 + 1 /\ s[1] = HexDigit(n, 0)
    BY <2>4, <2>5
  <2> HIDE DEF s
  <2>7. ASSUME NEW j \in 1 .. 0 + 1 PROVE s[j] = HexDigit(n, 0 + 1 - j)
    <3>1. j = 1 /\ 0 + 1 - j = 0
      OBVIOUS
    <3> QED BY <2>6, <3>1
  <2>8. Hex(n, 0, s)
    BY <2>6, <2>7 DEF Hex
  <2> QED BY <2>1, <2>2, <2>8 DEF s
<1>2. ASSUME NEW k \in Nat, k \in D PROVE k + 1 \in D
  <2> SUFFICES ASSUME NEW n \in Nat, n < Power(16, k + 1 + 1)
               PROVE  Hex(n, k + 1, Rest[Power(16, k + 1)][n])
    OBVIOUS
  <2> DEFINE d == Power(16, k + 1)
             e == Power(16, k)
             r == n % d
             a == HexChar(n \div d)
             s == Rest[e][r]
  <2>0. \A i \in Nat : i < d => Hex(i, k, Rest[e][i])
    BY <1>2
  <2> HIDE DEF D
  <2>1. e \in Nat \ {0} /\ d = 16 * e /\ Power(16, k + 1 + 1) = 16 * d
    <3>1. \A b \in Nat : b >= 2 => Power(b, k) \in Nat \ {0} /\ Power(b, k + 1) = b * Power(b, k)
      BY PowerAbove, PowerIs
    <3> DEFINE i == k + 1
    <3>2. i \in Nat
      OBVIOUS
    <3> HIDE DEF i
    <3>3. \A b \in Nat : Power(b, i + 1) = b * Power(b, i)
      BY <3>2, PowerIs
    <3> QED BY <3>1, <3>3 DEF i
  <2> HIDE DEF e
  <2>2. d \in Nat \ {0} /\ d >= 16 /\ d \div 16 = e
    BY <2>1
  <2> HIDE DEF d
  <2>3. n \div d \in 0 .. 15
    <3>1. n \div d \in Nat /\ d * (n \div d) <= n
      BY <2>2, DivType
    <3> DEFINE q == n \div d
    <3>2. n < 16 * d
      BY <2>1
    <3> HIDE DEF q
    <3>3. q \in Nat /\ d * q < 16 * d
      BY <2>2, <3>1, <3>2 DEF q
    <3>4. q >= 16 => d * q >= d * 16
      BY <2>2, <3>3, SMT
    <3>5. d * q \in Nat
      BY <2>2, <3>3, SMT
    <3>6. q < 16
      BY <2>2, <3>3, <3>4, <3>5
    <3> QED BY <3>3, <3>6 DEF q
  <2>4. r \in Nat /\ r < d
    <3>1. n % d \in 0 .. d - 1
      BY <2>2, ModType
    <3> QED BY <2>2, <3>1
  <2> HIDE DEF r
  <2>5. Rest[d][n] = <<a>> \o s
    <3>1. d \in Nat /\ d >= 15
      BY <2>2
    <3>2. Rest[d][n] = <<HexChar(n \div d)>> \o Rest[d \div 16][n % d]
      BY ONLY <3>1, n \in Nat, RestStep, Zenon
    <3> QED BY <2>2, <3>2 DEF r
  <2>6. Hex(r, k, s)
    BY <2>0, <2>4
  <2>7. a \in Int /\ a = HexDigit(n, k + 1)
    <3> DEFINE q == n \div d
    <3>1. q % 16 = q
      BY <2>3
    <3> QED BY <2>3, <3>1 DEF HexChar, HexDigit, d
  <2> HIDE DEF a, s
  <2>8. ASSUME NEW j \in 1 .. k + 1 PROVE s[j] = HexDigit(n, k + 1 - j)
    <3> DEFINE i == k + 1 - j
    <3>1. i \in 0 .. k
      OBVIOUS
    <3> HIDE DEF i
    <3>2. HexDigit(n % d, i) = HexDigit(n, i)
      BY <3>1, DigitOfRest DEF d
    <3>3. s[j] = HexDigit(r, k + 1 - j)
      BY <2>6 DEF Hex
    <3> QED BY <3>2, <3>3 DEF r, i
  <2>9. Hex(n, k + 1, <<a>> \o s)
    <3> DEFINE t == <<a>> \o s
    <3>1. s \in Seq(Int) /\ Len(s) = k + 1
      BY <2>6 DEF Hex
    <3>2. t \in Seq(Int) /\ Len(t) = k + 1 + 1 /\ t[1] = a /\ \A j \in 1 .. k + 1 : t[j + 1] = s[j]
      BY <2>7, <3>1, Prepend
    <3> HIDE DEF t
    <3>3. ASSUME NEW j \in 1 .. k + 1 + 1 PROVE t[j] = HexDigit(n, k + 1 + 1 - j)
      <4>1. CASE j = 1
        <5>1. k + 1 + 1 - j = k + 1
          BY <4>1
        <5> QED BY <2>7, <3>2, <4>1, <5>1
      <4>2. CASE j # 1
        <5> DEFINE i == j - 1
        <5>1. i \in 1 .. k + 1 /\ j = i + 1 /\ k + 1 + 1 - j = k + 1 - i
          BY <4>2
        <5> HIDE DEF i
        <5> QED BY <2>8, <3>2, <5>1
      <4> QED BY <4>1, <4>2
    <3>4. Hex(n, k + 1, t)
      BY <3>2, <3>3 DEF Hex
    <3> QED BY <3>4 DEF t
  <2> QED BY <2>5, <2>9 DEF d
<1>3. \A k \in Nat : k \in D
  <2> HIDE DEF D
  <2> QED BY <1>1, <1>2, NatInd
<1> QED BY <1>3

-----------------------------------------------------------------------------
(* What is stored is what it stands for. *)

\* The range of an int.
LEMMA MinIs ==
  /\ HexDigits \in Nat \ {0} /\ Power(16, HexDigits) \in Nat \ {0}
  /\ MIN \in Int /\ MIN < 0 /\ Power(16, HexDigits) = -2 * MIN
<1> DEFINE k == HexDigits - 1
           e == Power(16, k)
<1>1. HexDigits \in Nat \ {0} /\ k \in Nat /\ k + 1 = HexDigits
  BY KprintfAssumption
<1> HIDE DEF k
<1>2. \A b \in Nat : b >= 2 => Power(b, k) \in Nat \ {0} /\ Power(b, k + 1) = b * Power(b, k)
  BY <1>1, PowerAbove, PowerIs
<1>3. e \in Nat \ {0} /\ Power(16, HexDigits) = 16 * e
  BY <1>1, <1>2
<1> HIDE DEF e
<1>4. (16 * e) \div 2 = 8 * e
  BY <1>3
<1>5. MIN = -(8 * e)
  BY <1>3, <1>4 DEF MIN
<1> QED BY <1>1, <1>3, <1>5

LEMMA ModOfNegative ==
  ASSUME NEW d \in Nat \ {0}, NEW n \in Int, -d <= n, n < 0
  PROVE  n % d = n + d
<1> DEFINE q == n \div d
           r == n % d
<1>1. q \in Int /\ r \in 0 .. d - 1 /\ n = d * q + r
  BY SMT
<1> HIDE DEF q, r
<1>2. q <= -1
  <2>1. q >= 0 => d * q >= 0
    BY <1>1, SMT
  <2>2. d * q \in Int
    BY <1>1, SMT
  <2> QED BY <1>1, <2>1, <2>2
<1>3. q >= -1
  <2>1. q + 2 <= 0 => d * (q + 2) <= 0
    BY <1>1, SMT
  <2>2. d * (q + 2) = d * q + 2 * d
    BY <1>1, SMT
  <2>3. d * q \in Int
    BY <1>1, SMT
  <2> QED BY <1>1, <2>1, <2>2, <2>3
<1>4. q = -1
  BY <1>1, <1>2, <1>3
<1>5. d * (-1) = -d
  OBVIOUS
<1>6. r = n + d
  BY <1>1, <1>4, <1>5
<1> QED BY <1>6 DEF r

LEMMA NumeralType ==
  ASSUME NEW n \in Nat, NEW b \in Nat, b >= 2
  PROVE  /\ Numeral(n, b) \in Seq(Int) /\ Len(Numeral(n, b)) = Places(n, b)
         /\ \A i \in 1 .. Places(n, b) :
              Numeral(n, b)[i] = HexChar((n \div Power(b, Places(n, b) - i)) % b)
<1> DEFINE k == Places(n, b)
           f == [i \in 1 .. k |-> HexChar((n \div Power(b, k - i)) % b)]
<1>1. k \in Nat \ {0}
  BY PlacesIs
<1>2. Numeral(n, b) = f
  BY DEF Numeral
<1> HIDE DEF k
<1>3. ASSUME NEW i \in 1 .. k PROVE f[i] \in Int
  <2>1. k - i \in Nat
    BY <1>1
  <2>2. Power(b, k - i) \in Nat \ {0}
    BY <2>1, PowerAbove
  <2> DEFINE x == (n \div Power(b, k - i)) % b
  <2>3. x \in Nat
    <3>1. n \div Power(b, k - i) \in Nat
      BY <2>2, DivType
    <3> DEFINE y == n \div Power(b, k - i)
    <3> HIDE DEF y
    <3>2. y \in Nat => y % b \in 0 .. b - 1
      BY ModType
    <3> QED BY <3>1, <3>2 DEF y
  <2>4. f[i] = HexChar(x)
    OBVIOUS
  <2> HIDE DEF x, f
  <2> QED BY <2>3, <2>4 DEF HexChar
<1>4. f \in Seq(Int) /\ Len(f) = k
  <2>1. f \in [1 .. k -> Int]
    BY <1>3
  <2>2. DOMAIN f = 1 .. k
    OBVIOUS
  <2> HIDE DEF f
  <2>3. Len(f) = k
    BY <1>1, <2>2
  <2> QED BY <1>1, <2>1, <2>3
<1> QED BY <1>2, <1>4 DEF k

LEMMA SameSeq ==
  ASSUME NEW s \in Seq(Int), NEW t \in Seq(Int), Len(s) = Len(t),
         \A i \in 1 .. Len(s) : s[i] = t[i]
  PROVE  s = t
OBVIOUS

\* itoh writes the number, modulo 2^32, in hexadecimal.
LEMMA ItohIs ==
  ASSUME NEW n \in MIN .. -MIN - 1
  PROVE  itoh(n) = Numeral(IF n < 0 THEN n + Power(16, HexDigits) ELSE n, 16)
<1> DEFINE d == Power(16, HexDigits)
           u == n % d
           k == HexDigits - 1
           p == Places(u, 16)
           h == p - 1
           s == Rest[Power(16, h)][u]
           t == Numeral(u, 16)
<1>1. d \in Nat \ {0} /\ MIN \in Int /\ MIN < 0 /\ d = -2 * MIN /\ HexDigits \in Nat \ {0}
  BY MinIs
<1>2. n \in Int /\ -d <= n /\ n < d
  BY <1>1
<1>3. u = (IF n < 0 THEN n + d ELSE n) /\ u \in Nat /\ u < d
  <2> HIDE DEF d
  <2>1. CASE n < 0
    BY <1>1, <1>2, <2>1, ModOfNegative
  <2>2. CASE ~(n < 0)
    BY <1>1, <1>2, <2>2
  <2> QED BY <2>1, <2>2
<1>4. k \in Nat /\ k + 1 = HexDigits
  BY <1>1
<1> HIDE DEF u, k
<1>5. p \in Nat \ {0} /\ u < Power(16, p)
  BY <1>3, PlacesIs
<1> HIDE DEF p
<1>6. h \in Nat /\ h + 1 = p
  BY <1>5
<1>7. Start(u, Power(16, k)) = Power(16, h)
  BY <1>3, <1>4, StartIs DEF p
<1>8. itoh(n) = s
  BY <1>7 DEF itoh, u, k
<1> HIDE DEF h
<1>9. Hex(u, h, s)
  BY <1>3, <1>5, <1>6, RestIs
<1>10. t \in Seq(Int) /\ Len(t) = p
       /\ \A i \in 1 .. p : t[i] = HexChar((u \div Power(16, p - i)) % 16)
  <2>1. \A b \in Nat : b >= 2 =>
          /\ Numeral(u, b) \in Seq(Int) /\ Len(Numeral(u, b)) = Places(u, b)
          /\ \A i \in 1 .. Places(u, b) :
               Numeral(u, b)[i] = HexChar((u \div Power(b, Places(u, b) - i)) % b)
    BY <1>3, NumeralType
  <2>2. 16 \in Nat /\ 16 >= 2
    OBVIOUS
  <2> QED BY ONLY <2>1, <2>2, Zenon DEF p, t
<1> HIDE DEF s, t
<1>11. s \in Seq(Int) /\ Len(s) = p /\ \A i \in 1 .. p : s[i] = HexChar((u \div Power(16, p - i)) % 16)
  BY <1>6, <1>9 DEF Hex, HexDigit
<1>12. s = t
  BY <1>10, <1>11, SameSeq
<1> QED BY <1>3, <1>8, <1>12 DEF t, d

LEMMA ReverseIs ==
  ASSUME NEW s \in Seq(Int)
  PROVE  /\ Reverse(s) \in Seq(Int) /\ Len(Reverse(s)) = Len(s)
         /\ \A i \in 1 .. Len(s) : Reverse(s)[i] = s[Len(s) - i + 1]
<1> DEFINE n == Len(s)
           f == [i \in 1 .. n |-> s[n - i + 1]]
<1>1. Reverse(s) = f
  BY DEF Reverse
<1>2. n \in Nat /\ \A i \in 1 .. n : n - i + 1 \in 1 .. n
  OBVIOUS
<1>3. f \in [1 .. n -> Int] /\ DOMAIN f = 1 .. n
  BY <1>2
<1>4. \A i \in 1 .. n : f[i] = s[n - i + 1]
  OBVIOUS
<1> HIDE DEF f, n
<1>5. Len(f) = n /\ f \in Seq(Int)
  BY <1>2, <1>3
<1> QED BY <1>1, <1>4, <1>5 DEF n

\* itoa writes every number but the smallest in decimal.
LEMMA ReverseDigits ==
  ASSUME NEW n \in Nat
  PROVE  Reverse(Digits[n]) = Numeral(n, 10)
<1> DEFINE p == Places(n, 10)
           s == Digits[n]
           t == Numeral(n, 10)
           r == Reverse(s)
<1>1. p \in Nat \ {0}
  BY PlacesIs
<1>2. s \in Seq(Int) /\ Len(s) = p /\ \A j \in 1 .. p : s[j] = 48 + ((n \div Power(10, j - 1)) % 10)
  BY DigitsAre
<1>3. t \in Seq(Int) /\ Len(t) = p
      /\ \A i \in 1 .. p : t[i] = HexChar((n \div Power(10, p - i)) % 10)
  BY NumeralType
<1> HIDE DEF p, s, t
<1>4. r \in Seq(Int) /\ Len(r) = p /\ \A i \in 1 .. p : r[i] = s[p - i + 1]
  BY <1>2, ReverseIs
<1> HIDE DEF r
<1>5. ASSUME NEW i \in 1 .. p PROVE r[i] = t[i]
  <2> DEFINE j == p - i + 1
             e == p - i
             x == n \div Power(10, e)
  <2>1. j \in 1 .. p /\ j - 1 = e /\ e \in Nat
    BY <1>1
  <2>2. x \in Nat
    <3>1. \A b \in Nat : b >= 2 => Power(b, e) \in Nat \ {0}
      BY <2>1, PowerAbove
    <3>2. Power(10, e) \in Nat \ {0}
      BY <3>1
    <3> HIDE DEF e
    <3> QED BY <3>2, DivType
  <2>3. r[i] = 48 + (x % 10)
    BY <1>2, <1>4, <2>1
  <2>4. t[i] = HexChar(x % 10)
    BY <1>3
  <2> HIDE DEF x
  <2>5. x % 10 \in 0 .. 9
    BY <2>2, ModType
  <2> QED BY <2>3, <2>4, <2>5 DEF HexChar
<1>6. r = t
  BY <1>3, <1>4, <1>5, SameSeq
<1> QED BY <1>6 DEF r, s, t

LEMMA ReverseSign ==
  ASSUME NEW s \in Seq(Int), NEW a \in Int
  PROVE  Reverse(s \o <<a>>) = <<a>> \o Reverse(s)
<1> DEFINE t == s \o <<a>>
           r == Reverse(s)
           q == Reverse(t)
           n == Len(s)
<1>1. n \in Nat /\ t \in Seq(Int) /\ Len(t) = n + 1 /\ t[n + 1] = a /\ \A i \in 1 .. n : t[i] = s[i]
  OBVIOUS
<1>2. r \in Seq(Int) /\ Len(r) = n /\ \A i \in 1 .. n : r[i] = s[n - i + 1]
  BY ReverseIs
<1> HIDE DEF t, r, n
<1>3. q \in Seq(Int) /\ Len(q) = n + 1 /\ \A i \in 1 .. n + 1 : q[i] = t[n + 1 - i + 1]
  <2>1. q \in Seq(Int) /\ Len(q) = Len(t) /\ \A i \in 1 .. Len(t) : q[i] = t[Len(t) - i + 1]
    BY <1>1, ReverseIs
  <2> HIDE DEF q
  <2>2. Len(t) = n + 1
    BY <1>1
  <2>3. ASSUME NEW i \in 1 .. n + 1 PROVE q[i] = t[n + 1 - i + 1]
    <3>1. i \in 1 .. Len(t)
      BY <2>2
    <3>2. q[i] = t[Len(t) - i + 1]
      BY <2>1, <3>1
    <3>3. Len(t) - i + 1 = n + 1 - i + 1
      BY <1>1, <2>2
    <3> QED BY <3>2, <3>3
  <2> QED BY <2>1, <2>2, <2>3
<1> DEFINE w == <<a>> \o r
<1>4. w \in Seq(Int) /\ Len(w) = n + 1 /\ w[1] = a /\ \A j \in 1 .. n : w[j + 1] = r[j]
  BY <1>2, Prepend
<1> HIDE DEF q, w
<1>5. ASSUME NEW i \in 1 .. n + 1 PROVE q[i] = w[i]
  <2>1. CASE i = 1
    <3>1. n + 1 - i + 1 = n + 1
      BY <1>1, <2>1
    <3> QED BY <1>1, <1>3, <1>4, <2>1, <3>1
  <2>2. CASE i # 1
    <3> DEFINE j == i - 1
               k == n - j + 1
    <3>1. j \in 1 .. n /\ j + 1 = i /\ k \in 1 .. n /\ n + 1 - i + 1 = k
      BY <1>1, <2>2
    <3>2. r[j] = s[k]
      BY <1>2, <3>1
    <3> HIDE DEF j, k
    <3>3. w[i] = r[j]
      BY <1>4, <3>1
    <3>4. q[i] = t[k] /\ t[k] = s[k]
      BY <1>1, <1>3, <3>1
    <3> QED BY <3>2, <3>3, <3>4
  <2> QED BY <2>1, <2>2
<1>6. q = w
  BY <1>3, <1>4, <1>5, SameSeq
<1> QED BY <1>6 DEF q, w, t, r

LEMMA ItoaIs ==
  ASSUME NEW n \in MIN .. -MIN - 1
  PROVE  /\ itoa(n) \in Seq(Int)
         /\ n # MIN => itoa(n) = IF n < 0 THEN <<45>> \o Numeral(-n, 10) ELSE Numeral(n, 10)
<1>1. MIN \in Int /\ MIN < 0 /\ n \in Int
  BY MinIs
<1>2. CASE n >= 0
  <2>1. itoa(n) = Reverse(Digits[n] \o <<>>) /\ n \in Nat
    <3>1. n \in Nat /\ ~(n < 0)
      BY <1>1, <1>2
    <3> QED BY ONLY <3>1, Zenon DEF itoa
  <2>2. Digits[n] \in Seq(Int)
    BY <2>1, DigitsAre
  <2>3. Digits[n] \o <<>> = Digits[n]
    BY <2>2
  <2>4. itoa(n) = Numeral(n, 10)
    BY <2>1, <2>3, ReverseDigits
  <2>5. itoa(n) \in Seq(Int)
    BY <2>1, <2>4, NumeralType
  <2> QED BY <1>2, <2>1, <2>4, <2>5
<1>3. CASE n < 0 /\ n # MIN
  <2> DEFINE m == -n
  <2>1. m \in Nat /\ m # -MIN /\ ~(m < 0)
    BY <1>1, <1>3
  <2>2. itoa(n) = Reverse(Digits[m] \o <<45>>)
    BY <1>3, <2>1 DEF itoa, Wrapped
  <2> HIDE DEF m
  <2>3. Digits[m] \in Seq(Int)
    BY <2>1, DigitsAre
  <2>4. itoa(n) = <<45>> \o Numeral(m, 10)
    BY <2>1, <2>2, <2>3, ReverseSign, ReverseDigits
  <2>5. Numeral(m, 10) \in Seq(Int)
    BY <2>1, NumeralType
  <2>6. itoa(n) \in Seq(Int)
    BY <2>4, <2>5
  <2> QED BY <1>3, <2>4, <2>6 DEF m
<1>4. CASE n = MIN
  <2> DEFINE x == -MIN
             s == <<48 - (x % 10)>> \o <<45>>
  <2>1. -n = -MIN /\ n < 0
    BY <1>1, <1>4
  <2>2. itoa(n) = Reverse(s)
    BY <1>1, <1>4, <2>1 DEF itoa, Wrapped
  <2>3. x \in Nat
    BY <1>1
  <2> HIDE DEF x
  <2>4. x % 10 \in Int
    BY <2>3
  <2>5. s \in Seq(Int)
    BY <2>4
  <2> HIDE DEF s
  <2>6. itoa(n) \in Seq(Int)
    BY <2>2, <2>5, ReverseIs
  <2> QED BY <1>4, <2>6
<1> QED BY <1>1, <1>2, <1>3, <1>4

\* What vsnprintf stores is what the item stands for, the smallest int in
\* decimal aside.
LEMMA StoredIs ==
  ASSUME NEW item \in Items
  PROVE  /\ Stored(item) \in Seq(Int)
         /\ ~(item.kind = "d" /\ item.arg = MIN) => Stored(item) = Meaning(item)
<1>1. \/ item.kind \in {"d", "x"} /\ item.arg \in MIN .. -MIN - 1
      \/ item.kind \in {"text", "c", "other"} /\ item.arg \in Int
      \/ item.kind = "s" /\ item.arg \in Seq(Int)
      \/ item.kind \in {"null", "%", "lone"}
  BY KprintfAssumption
<1>2. CASE item.kind = "d"
  <2>1. item.arg \in MIN .. -MIN - 1 /\ Stored(item) = itoa(item.arg)
    BY <1>1, <1>2 DEF Stored
  <2>2. Meaning(item) = IF item.arg < 0 THEN <<45>> \o Numeral(-item.arg, 10) ELSE Numeral(item.arg, 10)
    BY <1>2 DEF Meaning
  <2> DEFINE n == item.arg
             s == Stored(item)
             t == Meaning(item)
  <2> HIDE DEF n, s, t
  <2>3. n \in MIN .. -MIN - 1 /\ s = itoa(n)
        /\ t = IF n < 0 THEN <<45>> \o Numeral(-n, 10) ELSE Numeral(n, 10)
    BY <2>1, <2>2 DEF n, s, t
  <2>4. s \in Seq(Int) /\ (n # MIN => s = t)
    BY <2>3, ItoaIs
  <2> QED BY <1>2, <2>4 DEF n, s, t
<1>3. CASE item.kind = "x"
  <2> DEFINE n == item.arg
  <2>1. n \in MIN .. -MIN - 1 /\ Stored(item) = itoh(n)
    BY <1>1, <1>3 DEF Stored
  <2>2. Meaning(item) = Numeral(IF n < 0 THEN n + Power(16, HexDigits) ELSE n, 16)
    BY <1>3 DEF Meaning
  <2> HIDE DEF n
  <2>3. Stored(item) = Meaning(item)
    BY <2>1, <2>2, ItohIs
  <2> DEFINE u == IF n < 0 THEN n + Power(16, HexDigits) ELSE n
  <2>4. u \in Nat
    BY <2>1, MinIs
  <2> HIDE DEF u
  <2>5. Numeral(u, 16) \in Seq(Int)
    BY <2>4, NumeralType
  <2> QED BY <2>2, <2>3, <2>5 DEF u
<1>4. CASE item.kind \notin {"d", "x"}
  <2>1. Meaning(item) = Stored(item)
    BY <1>4 DEF Meaning
  <2>2. Stored(item) \in Seq(Int)
    BY <1>1, <1>4 DEF Stored, Null
  <2> QED BY <2>1, <2>2
<1> QED BY <1>2, <1>3, <1>4

-----------------------------------------------------------------------------
(* A line as it is built. *)

LEMMA CutIs ==
  ASSUME NEW s \in Seq(Int), NEW e \in Int
  PROVE  /\ Cut(s, e) \in Seq(Int) /\ Len(Cut(s, e)) <= IF e < 0 THEN 0 ELSE e
         /\ e <= 0 => Cut(s, e) = <<>>
         /\ Len(s) <= e => Cut(s, e) = s
         /\ Len(Cut(s, e)) < e => Len(s) < e
         /\ \A t \in Seq(Int) : e <= Len(s) => Cut(s \o t, e) = Cut(s, e)
<1> DEFINE n == Len(s)
           c == Cut(s, e)
<1>1. n \in Nat
  OBVIOUS
<1>2. CASE e <= 0
  <2>1. ASSUME NEW t \in Seq(Int) PROVE Cut(t, e) = <<>>
    <3>1. Cut(t, e) = SubSeq(t, 1, e)
      BY <1>2 DEF Cut
    <3> QED BY <1>2, <3>1
  <2>2. \A t \in Seq(Int) : s \o t \in Seq(Int)
    OBVIOUS
  <2>3. n <= e => s = <<>>
    BY <1>2
  <2>4. c = <<>>
    BY <2>1
  <2>5. c \in Seq(Int) /\ Len(c) = 0
    BY <2>4
  <2>6. ASSUME NEW t \in Seq(Int) PROVE Cut(s \o t, e) = c
    BY <2>1, <2>2, <2>4
  <2> HIDE DEF c
  <2>7. /\ c \in Seq(Int) /\ Len(c) <= IF e < 0 THEN 0 ELSE e
        /\ e <= 0 => c = <<>>
        /\ n <= e => c = s
        /\ Len(c) < e => n < e
        /\ \A t \in Seq(Int) : e <= n => Cut(s \o t, e) = c
    BY <1>1, <1>2, <2>3, <2>4, <2>5, <2>6
  <2> QED BY <2>7 DEF c
<1>3. CASE e > 0 /\ n <= e
  <2>1. c = s
    <3>1. c = SubSeq(s, 1, n)
      BY <1>1, <1>3 DEF Cut
    <3> QED BY <3>1
  <2>2. ASSUME NEW t \in Seq(Int), e <= n PROVE Cut(s \o t, e) = c
    <3>1. e = n
      BY <1>1, <1>3, <2>2
    <3>2. Cut(s \o t, e) = SubSeq(s \o t, 1, n)
      <4>1. Len(s \o t) >= n
        OBVIOUS
      <4> QED BY <1>1, <3>1, <4>1 DEF Cut
    <3>3. SubSeq(s \o t, 1, n) = s
      OBVIOUS
    <3> QED BY <2>1, <3>2, <3>3
  <2> QED BY <1>1, <1>3, <2>1, <2>2
<1>4. CASE e > 0 /\ n > e
  <2>1. c = SubSeq(s, 1, e)
    BY <1>1, <1>4 DEF Cut
  <2>2. c \in Seq(Int) /\ Len(c) = e
    BY <1>1, <1>4, <2>1
  <2>3. ASSUME NEW t \in Seq(Int) PROVE Cut(s \o t, e) = c
    <3>1. Cut(s \o t, e) = SubSeq(s \o t, 1, e)
      <4>1. Len(s \o t) >= n
        OBVIOUS
      <4> QED BY <1>1, <1>4, <4>1 DEF Cut
    <3>2. SubSeq(s \o t, 1, e) = SubSeq(s, 1, e)
      BY <1>1, <1>4
    <3> QED BY <2>1, <3>1, <3>2
  <2> QED BY <1>1, <1>4, <2>2, <2>3
<1> QED BY <1>1, <1>2, <1>3, <1>4

LEMMA WholeIs ==
  ASSUME line \in Formats
  PROVE  /\ line \in Seq(Items) /\ Whole \in Seq(Items) /\ Len(line) <= Len(Whole)
         /\ \A i \in 1 .. Len(line) : Whole[i] = line[i]
         /\ \A i \in 1 .. Len(Whole) :
              Whole[i].kind = "lone" => i = Len(line) /\ Whole = line \o Beyond
         /\ Len(line) < Len(Whole) => line # <<>> /\ line[Len(line)].kind = "lone"
<1>1. line \in Seq(Items) /\ Beyond \in Seq(Items)
      /\ (\A i \in 1 .. Len(line) : line[i].kind = "lone" => i = Len(line))
      /\ (\A i \in 1 .. Len(Beyond) : Beyond[i].kind # "lone")
  BY KprintfAssumption
<1>2. CASE \E i \in DOMAIN line : line[i].kind = "lone"
  <2>1. Whole = line \o Beyond
    BY <1>2 DEF Whole
  <2>2. PICK i \in DOMAIN line : line[i].kind = "lone"
    BY <1>2
  <2>3. i \in 1 .. Len(line) /\ i = Len(line)
    BY <1>1, <2>2
  <2> DEFINE w == line \o Beyond
  <2>4. w \in Seq(Items) /\ Len(line) <= Len(w) /\ \A j \in 1 .. Len(line) : w[j] = line[j]
    BY <1>1
  <2>5. ASSUME NEW j \in 1 .. Len(w), w[j].kind = "lone" PROVE j = Len(line)
    <3>1. CASE j <= Len(line)
      BY <1>1, <2>4, <2>5, <3>1
    <3>2. CASE j > Len(line)
      <4>1. j - Len(line) \in 1 .. Len(Beyond) /\ w[j] = Beyond[j - Len(line)]
        BY <1>1, <3>2
      <4> QED BY <1>1, <2>5, <4>1
    <3> QED BY <1>1, <3>1, <3>2
  <2>6. line # <<>> /\ line[Len(line)].kind = "lone"
    BY <2>2, <2>3
  <2> HIDE DEF w
  <2>7. Whole = w
    BY <2>1 DEF w
  <2> QED BY <1>1, <2>1, <2>4, <2>5, <2>6, <2>7
<1>3. CASE ~\E i \in DOMAIN line : line[i].kind = "lone"
  <2>1. Whole = line
    BY <1>3 DEF Whole
  <2>2. \A i \in 1 .. Len(line) : line[i].kind # "lone"
    BY <1>1, <1>3
  <2> QED BY <1>1, <2>1, <2>2
<1> QED BY <1>2, <1>3

\* The items left after the first n.
Left(n) == IF n < Len(line) THEN SubSeq(line, n + 1, Len(line))
           ELSE SubSeq(Whole, n + 1, Len(Whole))

LEMMA SuffixIs ==
  ASSUME NEW s \in Seq(Items), NEW n \in 0 .. Len(s) - 1
  PROVE  LET r == SubSeq(s, n + 1, Len(s))
         IN  r # <<>> /\ Head(r) = s[n + 1] /\ Tail(r) = SubSeq(s, n + 1 + 1, Len(s))
<1>1. Len(SubSeq(s, n + 1, Len(s))) = Len(s) - n
  OBVIOUS
<1>2. n + 1 \in 1 .. Len(s) /\ Len(s) \in 1 .. Len(s) /\ n + 1 <= Len(s)
  OBVIOUS
<1>3. Head(SubSeq(s, n + 1, Len(s))) = s[n + 1]
      /\ Tail(SubSeq(s, n + 1, Len(s))) = SubSeq(s, n + 1 + 1, Len(s))
  BY <1>2, HeadTailOfSubSeq
<1> DEFINE r == SubSeq(s, n + 1, Len(s))
<1>4. Len(r) # 0
  <2>1. Len(s) - n # 0
    OBVIOUS
  <2> QED BY <1>1, <2>1
<1> HIDE DEF r
<1>5. r # <<>>
  BY <1>4
<1> QED BY <1>3, <1>5 DEF r

LEMMA LeftIs ==
  ASSUME line \in Formats
  PROVE  /\ Left(0) = line /\ Left(Len(Whole)) = <<>>
         /\ \A n \in 0 .. Len(Whole) - 1 :
              /\ Left(n) # <<>> /\ Head(Left(n)) = Whole[n + 1]
              /\ Left(n + 1) = IF Whole[n + 1].kind = "lone" THEN Beyond ELSE Tail(Left(n))
<1> DEFINE w == Whole
           l == Len(line)
           m == Len(w)
<1>1. line \in Seq(Items) /\ w \in Seq(Items) /\ l \in Nat /\ m \in Nat /\ l <= m
  BY WholeIs
<1>2. \A i \in 1 .. l : w[i] = line[i]
  BY WholeIs
<1>3. \A i \in 1 .. m : w[i].kind = "lone" => i = l /\ w = line \o Beyond
  BY WholeIs
<1>4. l < m => line # <<>> /\ line[l].kind = "lone"
  BY WholeIs
<1> HIDE DEF w
<1>5. Left(0) = line
  <2>1. CASE l = 0
    <3>1. m = 0
      BY <1>1, <1>4, <2>1
    <3>2. Left(0) = SubSeq(w, 1, 0)
      BY <2>1, <3>1 DEF Left, w
    <3> QED BY <1>1, <2>1, <3>2
  <2>2. CASE l # 0
    <3>1. Left(0) = SubSeq(line, 1, l)
      BY <1>1, <2>2 DEF Left
    <3> QED BY <1>1, <3>1
  <2> QED BY <2>1, <2>2
<1>6. Left(m) = <<>>
  <2>1. Left(m) = SubSeq(w, m + 1, m)
    BY <1>1 DEF Left, w
  <2> QED BY <1>1, <2>1
<1>7. ASSUME NEW n \in 0 .. m - 1
      PROVE  /\ Left(n) # <<>> /\ Head(Left(n)) = w[n + 1]
             /\ Left(n + 1) = IF w[n + 1].kind = "lone" THEN Beyond ELSE Tail(Left(n))
  <2>1. CASE n < l
    <3>1. Left(n) = SubSeq(line, n + 1, l)
      BY <2>1 DEF Left
    <3>2. Left(n) # <<>> /\ Head(Left(n)) = line[n + 1] /\ n + 1 \in 1 .. l
          /\ Tail(Left(n)) = SubSeq(line, n + 1 + 1, l)
      BY <1>1, <2>1, <3>1, SuffixIs
    <3>3. line[n + 1] = w[n + 1]
      BY <1>2, <3>2
    <3>4. CASE w[n + 1].kind = "lone"
      <4>1. n + 1 = l /\ w = line \o Beyond
        <5> DEFINE j == n + 1
        <5>1. j \in 1 .. m
          BY <1>1
        <5> HIDE DEF j
        <5>2. w[j].kind = "lone" => j = l /\ w = line \o Beyond
          BY <1>3, <5>1
        <5> QED BY <3>4, <5>2 DEF j
      <4>2. Left(n + 1) = SubSeq(line \o Beyond, l + 1, Len(line \o Beyond))
        <5>1. Left(l) = SubSeq(w, l + 1, m)
          BY <1>1 DEF Left, w
        <5> QED BY ONLY <4>1, <5>1
      <4>3. Beyond \in Seq(Items)
        BY KprintfAssumption
      <4>4. SubSeq(line \o Beyond, l + 1, Len(line \o Beyond)) = Beyond
        BY <1>1, <4>3
      <4> QED BY <3>2, <3>3, <3>4, <4>2, <4>4
    <3>5. CASE w[n + 1].kind # "lone"
      <4>1. CASE n + 1 < l
        <5>1. Left(n + 1) = SubSeq(line, n + 1 + 1, l)
          BY <4>1 DEF Left
        <5> QED BY <3>2, <3>3, <3>5, <5>1
      <4>2. CASE ~(n + 1 < l)
        <5>1. n + 1 = l /\ m = l
          BY <1>1, <1>4, <2>1, <3>3, <3>5, <4>2
        <5>2. Left(n + 1) = SubSeq(w, m + 1, m)
          BY <1>1, <5>1 DEF Left, w
        <5>3. SubSeq(w, m + 1, m) = <<>> /\ SubSeq(line, n + 1 + 1, l) = <<>>
          BY <1>1, <5>1
        <5> QED BY <3>2, <3>3, <3>5, <5>2, <5>3
      <4> QED BY <4>1, <4>2
    <3> QED BY <3>4, <3>5
  <2>2. CASE ~(n < l)
    <3>1. Left(n) = SubSeq(w, n + 1, m) /\ Left(n + 1) = SubSeq(w, n + 1 + 1, m)
      BY <1>1, <2>2 DEF Left, w
    <3>2. Left(n) # <<>> /\ Head(Left(n)) = w[n + 1] /\ Tail(Left(n)) = SubSeq(w, n + 1 + 1, m)
      BY <1>1, <3>1, SuffixIs
    <3>3. w[n + 1].kind # "lone"
      BY <1>1, <1>3, <2>2
    <3> QED BY <3>1, <3>2, <3>3
  <2> QED BY <1>1, <2>1, <2>2
<1> QED BY <1>5, <1>6, <1>7 DEF w

\* What the items up to each of a line store, from none of them to all.
Accumulates(T, w) ==
  /\ T \in [0 .. Len(w) -> Seq(Int)] /\ T[0] = <<>>
  /\ \A i \in 1 .. Len(w) : T[i] = T[i - 1] \o Stored(w[i])

LEMMA Accumulated ==
  ASSUME NEW w \in Seq(Items)
  PROVE  \E T : Accumulates(T, w)
<1> DEFINE n == Len(w)
           S == Seq(Int)
           step == [x \in (1 .. n) \X S |-> x[2] \o Stored(w[x[1]])]
<1>1. n \in Nat /\ <<>> \in S
  OBVIOUS
<1>2. step \in [(1 .. n) \X S -> S]
  <2>1. ASSUME NEW i \in 1 .. n, NEW s \in S PROVE s \o Stored(w[i]) \in S
    <3>1. w[i] \in Items
      OBVIOUS
    <3>2. Stored(w[i]) \in Seq(Int)
      BY <3>1, StoredIs
    <3> QED BY <3>2
  <2> QED BY <2>1
<1>3. PICK T \in [0 .. n -> S] : Recursion(T, n, <<>>, step)
  <2> HIDE DEF step, S, n
  <2> QED BY <1>1, <1>2, RecExists
<1>4. T[0] = <<>>
  <2>1. 0 \in 0 .. n
    BY <1>1
  <2> HIDE DEF step, n
  <2> QED BY <1>3, <2>1 DEF Recursion
<1>5. ASSUME NEW i \in 1 .. n PROVE T[i] = T[i - 1] \o Stored(w[i])
  <2>1. i \in 0 .. n /\ i # 0 /\ i - 1 \in 0 .. n
    OBVIOUS
  <2>2. T[i] = step[<<i, T[i - 1]>>]
    <3> HIDE DEF step
    <3> QED BY <1>3, <2>1 DEF Recursion
  <2>3. <<i, T[i - 1]>> \in (1 .. n) \X S
    BY <2>1
  <2> QED BY <2>2, <2>3
<1>6. Accumulates(T, w)
  BY <1>4, <1>5 DEF Accumulates
<1> QED BY <1>6

LEMMA AccumulatesStep ==
  ASSUME NEW w \in Seq(Items), NEW T, Accumulates(T, w), NEW j \in 1 .. Len(w), NEW k, k = j - 1
  PROVE  T[k] \in Seq(Int) /\ Stored(w[j]) \in Seq(Int) /\ T[j] = T[k] \o Stored(w[j])
<1>1. j - 1 \in 0 .. Len(w) /\ w[j] \in Items
  OBVIOUS
<1>2. Stored(w[j]) \in Seq(Int)
  BY <1>1, StoredIs
<1>3. T \in [0 .. Len(w) -> Seq(Int)] /\ T[j] = T[j - 1] \o Stored(w[j])
  BY DEF Accumulates
<1> QED BY <1>1, <1>2, <1>3

\* Once the buffer is full, what follows changes nothing.
LEMMA CutStays ==
  ASSUME NEW w \in Seq(Items), NEW T, Accumulates(T, w), NEW e \in Int,
         NEW n \in 0 .. Len(w), e <= Len(T[n])
  PROVE  Cut(T[Len(w)], e) = Cut(T[n], e)
<1> DEFINE m == Len(w)
           D == {i \in Nat : n + i <= m =>
                   e <= Len(T[n + i]) /\ Cut(T[n + i], e) = Cut(T[n], e)}
<1>1. 0 \in D
  OBVIOUS
<1>2. ASSUME NEW i \in Nat, i \in D PROVE i + 1 \in D
  <2> SUFFICES ASSUME n + (i + 1) <= m
               PROVE  e <= Len(T[n + (i + 1)]) /\ Cut(T[n + (i + 1)], e) = Cut(T[n], e)
    OBVIOUS
  <2> DEFINE k == n + i
             j == k + 1
             s == T[k]
             t == Stored(w[j])
  <2>1. j \in 1 .. m /\ k = j - 1 /\ n + (i + 1) = j
    OBVIOUS
  <2>2. e <= Len(s) /\ Cut(s, e) = Cut(T[n], e)
    BY <1>2
  <2> HIDE DEF k, j
  <2>3. s \in Seq(Int) /\ t \in Seq(Int) /\ T[j] = s \o t
    BY <2>1, AccumulatesStep
  <2> HIDE DEF s, t
  <2>6. Cut(s \o t, e) = Cut(s, e)
    BY <2>2, <2>3, CutIs
  <2>7. Len(s \o t) >= Len(s)
    BY <2>3
  <2>8. e <= Len(s \o t)
    <3>1. Len(s) \in Nat /\ Len(s \o t) \in Nat
      BY <2>3
    <3> QED BY <2>2, <2>7, <3>1
  <2> QED BY <2>1, <2>2, <2>3, <2>6, <2>8
<1>3. \A i \in Nat : i \in D
  <2> HIDE DEF D
  <2> QED BY <1>1, <1>2, NatInd
<1> DEFINE i == m - n
<1>4. i \in Nat /\ n + i = m
  OBVIOUS
<1>5. i \in D
  <2> HIDE DEF D, i
  <2> QED BY <1>3, <1>4
<1> HIDE DEF i
<1>6. Cut(T[n + i], e) = Cut(T[n], e)
  BY <1>4, <1>5
<1> QED BY <1>4, <1>6

\* All of them together are the line's text, without the smallest int.
LEMMA TextIs ==
  ASSUME NEW w \in Seq(Items), NEW T, Accumulates(T, w),
         \A i \in DOMAIN w : ~(w[i].kind = "d" /\ w[i].arg = MIN)
  PROVE  Text(w) = T[Len(w)]
<1> DEFINE n == Len(w)
           seqs == [i \in DOMAIN w |-> Meaning(w[i])]
           P(f) == f = [i \in 1 .. Len(seqs) |-> IF i = 1 THEN seqs[i] ELSE f[i - 1] \o seqs[i]]
           g == CHOOSE f : P(f)
<1>1. n \in Nat /\ DOMAIN w = 1 .. n /\ DOMAIN seqs = 1 .. n
  OBVIOUS
<1>2. ASSUME NEW i \in 1 .. n PROVE seqs[i] = Stored(w[i]) /\ seqs[i] \in Seq(Int)
  <2>1. w[i] \in Items /\ ~(w[i].kind = "d" /\ w[i].arg = MIN) /\ seqs[i] = Meaning(w[i])
    BY <1>1
  <2> QED BY <2>1, StoredIs
<1>3. seqs = [i \in 1 .. n |-> seqs[i]]
  BY <1>1
<1>4. Text(w) = FlattenSeq(seqs)
  BY DEF Text
<1> HIDE DEF seqs
<1>5. seqs \in Seq(Seq(Int)) /\ Len(seqs) = n
  <2>1. seqs \in [1 .. n -> Seq(Int)]
    BY <1>2, <1>3
  <2> QED BY <1>1, <2>1
<1>6. T[0] = <<>> /\ \A i \in 1 .. n : T[i] = T[i - 1] \o seqs[i] /\ T[i] \in Seq(Int)
  BY <1>2 DEF Accumulates
<1>0. n # 0 => T[1] = seqs[1]
  <2> SUFFICES ASSUME n # 0 PROVE T[1] = seqs[1]
    OBVIOUS
  <2>1. 1 \in 1 .. n /\ 1 - 1 = 0
    BY <1>1
  <2> HIDE DEF n
  <2>2. T[1] = T[1 - 1] \o seqs[1] /\ seqs[1] \in Seq(Int)
    BY <1>2, <1>6, <2>1
  <2>3. T[1 - 1] = <<>>
    BY <1>6, <2>1
  <2>4. <<>> \o seqs[1] = seqs[1]
    BY <2>2
  <2> QED BY ONLY <2>2, <2>3, <2>4
<1>7. CASE n = 0
  <2>1. FlattenSeq(seqs) = seqs /\ seqs = <<>>
    BY <1>5, <1>7 DEF FlattenSeq
  <2> QED BY <1>4, <1>6, <1>7, <2>1
<1>8. CASE n # 0
  <2>1. FlattenSeq(seqs) = g[n]
    BY <1>5, <1>8 DEF FlattenSeq
  <2> DEFINE f == [i \in 1 .. n |-> T[i]]
  <2>2. P(f)
    <3>1. ASSUME NEW i \in 1 .. n PROVE T[i] = IF i = 1 THEN seqs[i] ELSE f[i - 1] \o seqs[i]
      <4>1. CASE i = 1
        BY <1>0, <1>8, <4>1
      <4>2. CASE i # 1
        <5>1. f[i - 1] = T[i - 1]
          BY <4>2
        <5> QED BY <1>6, <4>2, <5>1
      <4> QED BY <4>1, <4>2
    <3> QED BY <1>5, <3>1
  <2>3. P(g)
    <3> HIDE DEF P, f
    <3> QED BY <2>2
  <2> HIDE DEF g
  <2>4. \A i \in 1 .. n : g[i] = IF i = 1 THEN seqs[i] ELSE g[i - 1] \o seqs[i]
    BY <1>5, <2>3
  <2> DEFINE D == {i \in Nat : i + 1 <= n => g[i + 1] = T[i + 1]}
  <2>5. 0 \in D
    <3>1. 1 \in 1 .. n
      BY <1>1, <1>8
    <3>2. g[1] = seqs[1]
      BY <2>4, <3>1
    <3> QED BY <1>0, <1>8, <3>2
  <2>6. ASSUME NEW i \in Nat, i \in D PROVE i + 1 \in D
    <3> SUFFICES ASSUME i + 1 + 1 <= n PROVE g[i + 1 + 1] = T[i + 1 + 1]
      OBVIOUS
    <3> DEFINE k == i + 1 + 1
    <3>1. k \in 1 .. n /\ k # 1 /\ k - 1 = i + 1
      OBVIOUS
    <3>2. g[i + 1] = T[i + 1]
      BY <2>6
    <3> HIDE DEF k
    <3>3. g[k] = g[k - 1] \o seqs[k] /\ T[k] = T[k - 1] \o seqs[k]
      BY <1>6, <2>4, <3>1
    <3> QED BY <3>1, <3>2, <3>3 DEF k
  <2>7. \A i \in Nat : i \in D
    <3> HIDE DEF D
    <3> QED BY <2>5, <2>6, NatInd
  <2>8. n - 1 \in Nat /\ n - 1 + 1 = n
    BY <1>1, <1>8
  <2> DEFINE j == n - 1
  <2>9. j \in D
    <3> HIDE DEF D
    <3> QED BY <2>7, <2>8
  <2> HIDE DEF j, n
  <2>10. g[j + 1] = T[j + 1]
    <3>1. j + 1 <= n
      BY <1>1, <2>8 DEF j
    <3> QED BY <2>9, <3>1
  <2>11. g[n] = T[n]
    BY <2>8, <2>10 DEF j
  <2> QED BY <1>4, <2>1, <2>11 DEF n
<1> QED BY <1>7, <1>8

-----------------------------------------------------------------------------
(* The inductive invariant: what vsnprintf has stored is what the first n   *)
(* items store, cut where the buffer ends, and what it has not looked at    *)
(* are the others; it leaves the loop when there are none or no room.  The  *)
(* items are those of Whole: after a lone % they go on in what lies beyond. *)

Building ==
  /\ line \in Formats /\ size \in Sizes
  /\ \E T : /\ Accumulates(T, Whole)
            /\ \E n \in 0 .. Len(Whole) :
                 /\ fmt = Left(n) /\ buf = Cut(T[n], End)
                 /\ pc \in {"send", "done"} => fmt = <<>> \/ End <= Len(buf)

LEMMA EndIs ==
  ASSUME size \in Sizes
  PROVE  /\ size \in 0 .. SIZE_MAX /\ SIZE_MAX \in Nat /\ End \in Int
         /\ End < 0 <=> size \in {0, SIZE_MAX}
         /\ End >= 0 => End = size - 1
BY KprintfAssumption DEF End

LEMMA BuildingAtFirst ==
  ASSUME KprintfInit PROVE Building
<1>1. line \in Formats /\ size \in Sizes /\ fmt = line /\ buf = <<>> /\ pc = "serial"
  BY DEF KprintfInit
<1>2. Whole \in Seq(Items) /\ Left(0) = line
  BY <1>1, WholeIs, LeftIs
<1> DEFINE w == Whole
<1> HIDE DEF w
<1>3. w \in Seq(Items)
  BY <1>2 DEF w
<1>4. PICK T : Accumulates(T, w)
  BY <1>3, Accumulated
<1>5. T[0] = <<>> /\ 0 \in 0 .. Len(w)
  BY <1>3, <1>4 DEF Accumulates
<1>6. <<>> \in Seq(Int) /\ End \in Int
  BY <1>1, EndIs
<1>7. Cut(<<>>, End) = <<>>
  <2>1. End <= 0 \/ Len(<<>>) <= End
    BY <1>6
  <2> QED BY <1>6, <2>1, CutIs
<1>8. /\ fmt = Left(0) /\ buf = Cut(T[0], End)
      /\ pc \in {"send", "done"} => fmt = <<>> \/ End <= Len(buf)
  BY <1>1, <1>2, <1>5, <1>7
<1> QED BY <1>1, <1>4, <1>5, <1>8 DEF Building, w

LEMMA BuildingStays ==
  ASSUME Building, [KprintfNext]_kprintfVars PROVE Building'
<1> DEFINE w == Whole
<1>1. line \in Formats /\ size \in Sizes
  BY DEF Building
<1>2. UNCHANGED <<line, size>>
  BY DEF KprintfNext, Cpu, serial8086_init, vsnprintf, serial_write, Finish, Shift, kprintfVars
<1>3. Whole' = w /\ End' = End /\ \A n : Left(n)' = Left(n)
  BY <1>2 DEF Whole, End, Left
<1>4. w \in Seq(Items) /\ End \in Int
  BY <1>1, WholeIs, EndIs
<1> HIDE DEF w
<1>5. PICK T : Accumulates(T, w)
               /\ \E n \in 0 .. Len(w) :
                    /\ fmt = Left(n) /\ buf = Cut(T[n], End)
                    /\ pc \in {"send", "done"} => fmt = <<>> \/ End <= Len(buf)
  BY DEF Building, w
<1>6. PICK n \in 0 .. Len(w) : /\ fmt = Left(n) /\ buf = Cut(T[n], End)
                               /\ pc \in {"send", "done"} => fmt = <<>> \/ End <= Len(buf)
  BY <1>5
<1> DEFINE Same(k) == /\ fmt' = Left(k) /\ buf' = Cut(T[k], End)
                      /\ pc' \in {"send", "done"} => fmt' = <<>> \/ End <= Len(buf')
<1>7. \A k \in 0 .. Len(w) : Same(k) => Building'
  BY <1>1, <1>2, <1>3, <1>5 DEF Building
<1>8. CASE vsnprintf /\ fmt # <<>> /\ Len(buf) < End
  <2> DEFINE s == T[n]
             j == n + 1
             i == w[j]
  <2>1. n # Len(w)
    BY <1>1, <1>6, <1>8, LeftIs DEF w
  <2>2. n \in 0 .. Len(w) - 1 /\ j \in 1 .. Len(w) /\ n = j - 1 /\ j \in 0 .. Len(w)
    BY <1>4, <2>1
  <2>3. Head(fmt) = i /\ Left(j) = IF i.kind = "lone" THEN Beyond ELSE Tail(fmt)
    BY <1>1, <1>6, <2>2, LeftIs DEF w
  <2> HIDE DEF j
  <2>4. s \in Seq(Int) /\ Stored(i) \in Seq(Int) /\ T[j] = s \o Stored(i)
    BY <1>4, <1>5, <2>2, AccumulatesStep
  <2> HIDE DEF s, i
  <2>5. buf = Cut(s, End)
    BY <1>6 DEF s
  <2>6. Len(s) < End
    BY <1>4, <1>8, <2>4, <2>5, CutIs
  <2>7. buf = s
    <3>1. Len(s) <= End
      BY <1>4, <2>4, <2>6
    <3> QED BY <1>4, <2>4, <2>5, <3>1, CutIs
  <2>8. buf' = Cut(buf \o Stored(i), End) /\ fmt' = Left(j) /\ pc' = "format"
    BY <1>8, <2>3 DEF vsnprintf
  <2>9. Same(j)
    BY <2>4, <2>7, <2>8
  <2> HIDE DEF Same
  <2> QED BY <1>7, <2>2, <2>9
<1>9. CASE vsnprintf /\ ~(fmt # <<>> /\ Len(buf) < End)
  <2>1. buf \in Seq(Int)
    <3>1. T[n] \in Seq(Int)
      BY <1>5 DEF Accumulates
    <3> QED BY <1>4, <1>6, <3>1, CutIs
  <2>2. fmt = <<>> \/ End <= Len(buf)
    BY <1>4, <1>9, <2>1
  <2>3. Same(n)
    BY <1>6, <1>9, <2>2 DEF vsnprintf
  <2> HIDE DEF Same
  <2> QED BY <1>7, <2>3
<1>10. CASE serial8086_init \/ serial_write \/ Finish \/ Shift \/ UNCHANGED kprintfVars
  <2>1. fmt' = fmt /\ buf' = buf /\ (pc' \in {"send", "done"} => pc \in {"send", "done"})
    BY <1>10 DEF serial8086_init, serial_write, Finish, Shift, kprintfVars
  <2>2. Same(n)
    BY <1>6, <2>1
  <2> HIDE DEF Same
  <2> QED BY <1>7, <2>2
<1> QED BY <1>8, <1>9, <1>10 DEF KprintfNext, Cpu

LEMMA BuildingIsFormatted ==
  ASSUME Building PROVE LineIsFormatted
<1> SUFFICES ASSUME pc \in {"send", "done"}
             PROVE  /\ Len(buf) < size \/ size = 0
                    /\ size \in {0, SIZE_MAX} => buf = <<>>
                    /\ LET sure == \A i \in DOMAIN Whole : ~(Whole[i].kind = "d" /\ Whole[i].arg = MIN)
                       IN  sure /\ size \notin {0, SIZE_MAX} => buf = Cut(Text(Whole), size - 1)
  BY DEF LineIsFormatted
<1> DEFINE w == Whole
<1>1. line \in Formats /\ size \in Sizes
  BY DEF Building
<1>2. w \in Seq(Items)
  BY <1>1, WholeIs
<1>3. \A n \in 0 .. Len(w) : Left(n) = <<>> => n = Len(w)
  <2>1. Len(w) \in Nat
    BY <1>2
  <2> SUFFICES ASSUME NEW n \in 0 .. Len(w), n # Len(w) PROVE Left(n) # <<>>
    OBVIOUS
  <2>2. n \in 0 .. Len(w) - 1
    BY <2>1
  <2> QED BY <1>1, <2>2, LeftIs
<1> HIDE DEF w
<1>4. PICK T : Accumulates(T, w)
               /\ \E n \in 0 .. Len(w) :
                    /\ fmt = Left(n) /\ buf = Cut(T[n], End)
                    /\ pc \in {"send", "done"} => fmt = <<>> \/ End <= Len(buf)
  BY DEF Building, w
<1>5. PICK n \in 0 .. Len(w) : /\ fmt = Left(n) /\ buf = Cut(T[n], End)
                               /\ fmt = <<>> \/ End <= Len(buf)
  BY <1>4
<1>6. /\ size \in 0 .. SIZE_MAX /\ SIZE_MAX \in Nat /\ End \in Int
      /\ End < 0 <=> size \in {0, SIZE_MAX}
      /\ End >= 0 => End = size - 1
  BY <1>1, EndIs
<1> DEFINE s == T[n]
           all == T[Len(w)]
<1>7. s \in Seq(Int) /\ all \in Seq(Int)
  <2>1. Len(w) \in 0 .. Len(w)
    BY <1>2
  <2> QED BY <1>4, <2>1 DEF Accumulates
<1> HIDE DEF s, all
<1>8. buf = Cut(s, End)
  BY <1>5 DEF s
<1>9. buf \in Seq(Int) /\ Len(buf) \in Nat /\ Len(buf) <= (IF End < 0 THEN 0 ELSE End)
      /\ (End <= 0 => buf = <<>>)
  <2>1. buf \in Seq(Int) /\ Len(buf) <= (IF End < 0 THEN 0 ELSE End) /\ (End <= 0 => buf = <<>>)
    BY <1>6, <1>7, <1>8, CutIs
  <2> QED BY <2>1
<1>10. buf = Cut(all, End)
  <2>1. CASE n = Len(w)
    BY <1>5, <2>1 DEF all
  <2>2. CASE n # Len(w)
    <3>1. End <= Len(buf)
      BY <1>3, <1>5, <2>2
    <3>2. End <= Len(s)
      <4>1. ~(Len(s) < End)
        <5>1. Len(s) < End => buf = s
          <6>1. Len(s) < End => Len(s) <= End
            BY <1>6, <1>7
          <6> QED BY <1>6, <1>7, <1>8, <6>1, CutIs
        <5> QED BY <1>6, <1>7, <3>1, <5>1
      <4> QED BY <1>6, <1>7, <4>1
    <3>3. Cut(all, End) = Cut(s, End)
      <4>1. End <= Len(T[n])
        BY <3>2 DEF s
      <4> QED BY <1>2, <1>4, <1>6, <4>1, CutStays DEF s, all
    <3> QED BY <1>8, <3>3
  <2> QED BY <2>1, <2>2
<1>11. Len(buf) < size \/ size = 0
  BY <1>6, <1>9
<1>12. size \in {0, SIZE_MAX} => buf = <<>>
  BY <1>6, <1>9
<1>13. ASSUME \A i \in DOMAIN w : ~(w[i].kind = "d" /\ w[i].arg = MIN), size \notin {0, SIZE_MAX}
       PROVE  buf = Cut(Text(w), size - 1)
  <2>1. Text(w) = all
    BY <1>2, <1>4, <1>13, TextIs DEF all
  <2>2. End = size - 1
    BY <1>6, <1>13
  <2> QED BY <1>10, <2>1, <2>2
<1> QED BY <1>11, <1>12, <1>13 DEF w

\* Every line is its format's text, cut where the buffer ends, for numbers
\* of any width but the smallest: LineIsFormatted of Kprintf.
THEOREM LinesAreFormatted ==
  KprintfSpec => []LineIsFormatted
<1>1. KprintfInit => Building
  BY BuildingAtFirst
<1>2. Building /\ [KprintfNext]_kprintfVars => Building'
  BY BuildingStays
<1>3. Building => LineIsFormatted
  BY BuildingIsFormatted
<1> QED BY <1>1, <1>2, <1>3, PTL DEF KprintfSpec
=============================================================================
