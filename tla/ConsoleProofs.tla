---------------------------- MODULE ConsoleProofs ----------------------------
(* Proofs about module Input, for every ring size and every set of keys, and *)
(* at the end about module Console, which composes it with the terminal.     *)
EXTENDS Console, NatFacts, SequenceTheorems

\* The index arithmetic of the ring without the modulus.
LEMMA NextSlotValue ==
  ASSUME NEW i \in Slots
  PROVE  NextSlot(i) = (IF i = INPUT_BUFFER_SIZE - 1 THEN 0 ELSE i + 1)
BY InputAssumption DEF Slots, NextSlot

LEMMA NextSlotInSlots ==
  ASSUME NEW i \in Slots
  PROVE  NextSlot(i) \in Slots
BY NextSlotValue, InputAssumption DEF Slots

\* What the handler builds from a byte is an event.
LEMMA MakeEventType ==
  ASSUME NEW b \in Byte, NEW s \in {0, 1}
  PROVE  MakeEvent(b, s) \in Event
BY DEF Byte, MakeEvent, Event, Ascii, Codes, keymap_to_ascii

\* The output buffer flag is only ever set with a byte behind it.
FlagHasByte == obf => typed # <<>>

\* Input: every variable keeps its type.  TypeOK alone is not inductive: the
\* handler reads the last byte of typed, which must exist.
THEOREM TypeCorrect == Spec => [](TypeOK /\ FlagHasByte)
<1>1. Init => TypeOK /\ FlagHasByte
  BY InputAssumption DEF Init, TypeOK, Slots, Event, ZeroEvent, Ascii, FlagHasByte
<1>2. TypeOK /\ FlagHasByte /\ [Next]_vars => TypeOK' /\ FlagHasByte'
  <2> SUFFICES ASSUME TypeOK, FlagHasByte, [Next]_vars PROVE TypeOK' /\ FlagHasByte'
    OBVIOUS
  <2> USE DEF TypeOK, FlagHasByte, device, ring, history
  <2>1. ASSUME NEW b \in Byte, KeyArrives(b) PROVE TypeOK' /\ FlagHasByte'
    BY <2>1 DEF KeyArrives
  <2>2. CASE TakeIrq
    BY <2>2 DEF TakeIrq
  <2>3. CASE ReadByte
    <3> DEFINE b == typed[Len(typed)]
    <3>1. b \in Byte
      BY <2>3 DEF ReadByte
    <3>2. shift_pressed' \in {0, 1} /\ irqEvent' \in Event
      BY <2>3, <3>1, MakeEventType DEF ReadByte, ShiftAfter
    <3> QED
      BY <2>3, <3>2 DEF ReadByte
  <2>4. CASE IrqLock
    BY <2>4 DEF IrqLock
  <2>5. CASE input_push_event
    <3>1. head' \in Slots /\ buffer' \in [Slots -> Event]
      BY <2>5, NextSlotInSlots DEF input_push_event
    <3>2. accepted' \in Seq(Nat) /\ lost' \in Nat
      <4> DEFINE n == Len(accepted) + lost + 1
      <4>1. n \in Nat
        OBVIOUS
      <4>2. Append(accepted, n) \in Seq(Nat)
        BY <4>1
      <4>3. CASE RingFull
        BY <2>5, <4>3 DEF input_push_event
      <4>4. CASE ~RingFull
        BY <2>5, <4>2, <4>4 DEF input_push_event
      <4> QED
        BY <4>3, <4>4
    <3> QED
      BY <2>5, <3>1, <3>2 DEF input_push_event
  <2>6. CASE IrqUnlock
    BY <2>6 DEF IrqUnlock
  <2>7. CASE Eoi
    BY <2>7 DEF Eoi
  <2>8. CASE Poll
    BY <2>8 DEF Poll, MainRuns
  <2>9. CASE MainLock
    BY <2>9 DEF MainLock, MainRuns
  <2>10. CASE PopTake
    BY <2>10 DEF PopTake, MainRuns, Event, ZeroEvent, Ascii
  <2>11. CASE PopAdvance
    BY <2>11, NextSlotInSlots DEF PopAdvance, MainRuns
  <2>12. CASE MainUnlock
    BY <2>12 DEF MainUnlock, MainRuns
  <2>13. CASE Handle
    BY <2>13 DEF Handle, MainRuns
  <2>14. CASE UNCHANGED vars
    BY <2>14 DEF vars
  <2> QED
    BY <2>1, <2>2, <2>3, <2>4, <2>5, <2>6, <2>7, <2>8, <2>9, <2>10, <2>11, <2>12, <2>13, <2>14
    DEF Next, IrqStep, MainStep
<1> QED
  BY <1>1, <1>2, PTL DEF Spec

-----------------------------------------------------------------------------
\* While the handler is about to read, no second request is pending.
NoSecondRequest == irq = "read" => ~irr

\* The control invariant: the lock word, the interrupt lines and the loop's
\* view of the ring together.  NoSecondRequest is the strengthening that makes
\* InterruptPerByte inductive.
ControlInv == LockDiscipline /\ InterruptPerByte /\ NoSecondRequest /\ PollNotStale

LEMMA ControlInvStep ==
  ASSUME TypeOK, TypeOK', ControlInv, [Next]_vars
  PROVE  ControlInv'
<1> USE DEF TypeOK, ControlInv, LockDiscipline, InterruptPerByte, NoSecondRequest,
            PollNotStale, MainHolds, IrqHolds, device, ring, history
<1>1. ASSUME NEW b \in Byte, KeyArrives(b) PROVE ControlInv'
  BY <1>1 DEF KeyArrives
<1>2. CASE TakeIrq
  BY <1>2 DEF TakeIrq
<1>3. CASE ReadByte
  BY <1>3 DEF ReadByte
<1>4. CASE IrqLock
  BY <1>4 DEF IrqLock
<1>5. CASE input_push_event
  <2>1. head' # tail' \/ ~(main \in {"lock", "take", "advance"})
    <3>1. CASE RingFull
      BY <1>5, <3>1 DEF input_push_event
    <3>2. CASE ~RingFull
      BY <1>5, <3>2 DEF input_push_event, RingFull
    <3> QED
      BY <3>1, <3>2
  <2> QED
    BY <1>5, <2>1 DEF input_push_event
<1>6. CASE IrqUnlock
  BY <1>6 DEF IrqUnlock
<1>7. CASE Eoi
  BY <1>7 DEF Eoi
<1>8. CASE Poll
  BY <1>8 DEF Poll, MainRuns, input_has_events
<1>9. CASE MainLock
  BY <1>9 DEF MainLock, MainRuns
<1>10. CASE PopTake
  BY <1>10 DEF PopTake, MainRuns
<1>11. CASE PopAdvance
  BY <1>11 DEF PopAdvance, MainRuns
<1>12. CASE MainUnlock
  BY <1>12 DEF MainUnlock, MainRuns
<1>13. CASE Handle
  BY <1>13 DEF Handle, MainRuns
<1>14. CASE UNCHANGED vars
  BY <1>14 DEF vars
<1> QED
  BY <1>1, <1>2, <1>3, <1>4, <1>5, <1>6, <1>7, <1>8, <1>9, <1>10, <1>11, <1>12, <1>13, <1>14
  DEF Next, IrqStep, MainStep

\* Input: the control invariant holds in every reachable state, for every ring
\* size and every set of keys.
THEOREM ControlInvariant == Spec => []ControlInv
<1>1. Init => ControlInv
  BY DEF Init, ControlInv, LockDiscipline, InterruptPerByte, NoSecondRequest,
         PollNotStale, MainHolds, IrqHolds
<1>2. TypeOK /\ TypeOK' /\ ControlInv /\ [Next]_vars => ControlInv'
  BY ControlInvStep
<1> QED
  BY <1>1, <1>2, TypeCorrect, PTL DEF Spec

\* input.c, spinlock.c: the lock word is set exactly while one side is inside
\* its critical section, and never both.
THEOREM MutualExclusion == Spec => []LockDiscipline
BY ControlInvariant, PTL DEF ControlInv

\* i8042.c, pic.c: no byte waits without an interrupt, no handler without a byte.
THEOREM NoLostInterrupt == Spec => []InterruptPerByte
BY ControlInvariant, PTL DEF ControlInv

\* kmain: the unlocked test of the ring is still true when the event is popped.
THEOREM PollIsStable == Spec => []PollNotStale
BY ControlInvariant, PTL DEF ControlInv

\* Once the handler waits for the loop it has preempted, nothing of the kernel
\* changes any more.
THEOREM WedgePersists == Spec => WedgeIsForever
<1>1. TypeOK /\ ControlInv /\ [Next]_vars
        => [Wedged => Wedged' /\ UNCHANGED <<ring, main, shift_pressed, isr, history>>]_vars
  <2> SUFFICES ASSUME TypeOK, ControlInv, Next, Wedged
               PROVE  Wedged' /\ UNCHANGED <<ring, main, shift_pressed, isr, history>>
    OBVIOUS
  <2>1. irq = "lock" /\ lock = 1
    BY DEF Wedged, ControlInv, LockDiscipline
  <2>2. CASE \E b \in Byte : KeyArrives(b)
    BY <2>2 DEF KeyArrives, Wedged, MainHolds, ring, history
  <2>3. CASE IrqStep
    BY <2>1, <2>3 DEF IrqStep, TakeIrq, ReadByte, IrqLock, input_push_event, IrqUnlock, Eoi,
                      Wedged, MainHolds, ring, device, history
  <2>4. CASE MainStep
    BY <2>1, <2>4 DEF MainStep, Poll, MainLock, PopTake, PopAdvance, MainUnlock, Handle, MainRuns
  <2> QED
    BY <2>2, <2>3, <2>4 DEF Next
<1> QED
  BY <1>1, TypeCorrect, ControlInvariant, PTL DEF Spec, WedgeIsForever

-----------------------------------------------------------------------------
(* From the byte to the event: what the handler has decoded.  The operators  *)
(* LastOf, Down and EventOf of Input take the bytes typed from the variable; *)
(* here the bytes are a parameter, so that a step can be reasoned about.     *)

LastIn(t, K, n) ==
  LET at == {j \in 1 .. n : t[j].code \in K}
  IN  IF at = {} THEN 0 ELSE CHOOSE j \in at : \A k \in at : k <= j
DownIn(t, n) == LastIn(t, ShiftKeys, n) # 0 /\ ~t[LastIn(t, ShiftKeys, n)].up
EvOf(t, i)   == MakeEvent(t[i], IF DownIn(t, i) THEN 1 ELSE 0)

LEMMA EventOfIs ==
  ASSUME NEW i
  PROVE  EventOf(i) = EvOf(typed, i)
BY DEF EventOf, EvOf, Down, DownIn, LastOf, LastIn

\* Where the last key of K among the first n bytes is.
LEMMA LastInIs ==
  ASSUME NEW t, NEW K, NEW n \in Nat
  PROVE  /\ LastIn(t, K, n) \in 0 .. n
         /\ LastIn(t, K, n) = 0 => \A j \in 1 .. n : t[j].code \notin K
         /\ LastIn(t, K, n) # 0 => /\ t[LastIn(t, K, n)].code \in K
                                   /\ \A j \in 1 .. n : t[j].code \in K => j <= LastIn(t, K, n)
<1> DEFINE at == {j \in 1 .. n : t[j].code \in K}
<1>1. CASE at = {}
  BY <1>1 DEF LastIn
<1>2. CASE at # {}
  <2> DEFINE g == CHOOSE j \in at : \A k \in at : k <= j
  <2>1. at \in SUBSET Nat /\ \A x \in at : x <= n
    OBVIOUS
  <2>2. \E j \in at : \A k \in at : k <= j
    <3> HIDE DEF at
    <3> QED BY <1>2, <2>1, NatMax
  <2>3. g \in at /\ \A k \in at : k <= g
    <3> HIDE DEF at
    <3> QED BY <2>2
  <2>4. LastIn(t, K, n) = g
    BY <1>2 DEF LastIn
  <2> HIDE DEF g
  <2> QED BY <2>3, <2>4
<1> QED BY <1>1, <1>2

\* The shift state one byte later.
LEMMA DownStep ==
  ASSUME NEW t, NEW n \in Nat
  PROVE  DownIn(t, n + 1) <=> IF t[n + 1].code \in ShiftKeys THEN ~t[n + 1].up ELSE DownIn(t, n)
<1> DEFINE p == LastIn(t, ShiftKeys, n)
           q == LastIn(t, ShiftKeys, n + 1)
<1>1. /\ p \in 0 .. n /\ q \in 0 .. n + 1
      /\ p = 0 => \A j \in 1 .. n : t[j].code \notin ShiftKeys
      /\ p # 0 => t[p].code \in ShiftKeys /\ \A j \in 1 .. n : t[j].code \in ShiftKeys => j <= p
      /\ q = 0 => \A j \in 1 .. n + 1 : t[j].code \notin ShiftKeys
      /\ q # 0 => t[q].code \in ShiftKeys /\ \A j \in 1 .. n + 1 : t[j].code \in ShiftKeys => j <= q
  BY LastInIs
<1>2. DownIn(t, n) <=> p # 0 /\ ~t[p].up
  BY DEF DownIn
<1>3. DownIn(t, n + 1) <=> q # 0 /\ ~t[q].up
  BY DEF DownIn
<1> HIDE DEF p, q
<1>4. CASE t[n + 1].code \in ShiftKeys
  <2>1. q = n + 1
    BY <1>1, <1>4
  <2> QED BY <1>3, <1>4, <2>1
<1>5. CASE t[n + 1].code \notin ShiftKeys
  <2>1. q # n + 1
    BY <1>1, <1>5
  <2>2. p = q
    BY <1>1, <2>1
  <2> QED BY <1>2, <1>3, <1>5, <2>2
<1> QED BY <1>4, <1>5

\* A byte's event and the shift state at it do not change when more are typed.
LEMMA EvOfStable ==
  ASSUME NEW t, NEW u, NEW n \in Nat, NEW i \in 0 .. n, \A j \in 1 .. n : u[j] = t[j]
  PROVE  (DownIn(u, i) <=> DownIn(t, i)) /\ (i # 0 => EvOf(u, i) = EvOf(t, i))
<1> DEFINE p == LastIn(t, ShiftKeys, i)
           q == LastIn(u, ShiftKeys, i)
<1>1. /\ p \in 0 .. i /\ q \in 0 .. i
      /\ p = 0 => \A j \in 1 .. i : t[j].code \notin ShiftKeys
      /\ p # 0 => t[p].code \in ShiftKeys /\ \A j \in 1 .. i : t[j].code \in ShiftKeys => j <= p
      /\ q = 0 => \A j \in 1 .. i : u[j].code \notin ShiftKeys
      /\ q # 0 => u[q].code \in ShiftKeys /\ \A j \in 1 .. i : u[j].code \in ShiftKeys => j <= q
  BY LastInIs
<1>2. /\ DownIn(t, i) <=> p # 0 /\ ~t[p].up
      /\ DownIn(u, i) <=> q # 0 /\ ~u[q].up
  BY DEF DownIn
<1> HIDE DEF p, q
<1>3. p = q /\ (p # 0 => t[p] = u[p])
  BY <1>1
<1>4. DownIn(u, i) <=> DownIn(t, i)
  BY <1>2, <1>3
<1>5. i # 0 => t[i] = u[i]
  OBVIOUS
<1> QED BY <1>4, <1>5 DEF EvOf

-----------------------------------------------------------------------------
(* The books of the handler: every byte read is accepted, refused or being   *)
(* pushed, and the flag shift_pressed is the shift state of the last one.    *)

Pending == IF irq \in {"lock", "push"} THEN 1 ELSE 0

DecodeInv ==
  /\ Decoded = Len(accepted) + lost + Pending
  /\ \A j \in 1 .. Len(accepted) : accepted[j] \in 1 .. Len(accepted) + lost
  /\ \A j \in 2 .. Len(accepted) : accepted[j - 1] < accepted[j]
  /\ shift_pressed = (IF DownIn(typed, Decoded) THEN 1 ELSE 0)
  /\ Pending = 1 => irqEvent = EvOf(typed, Decoded)

LEMMA DecodedType ==
  ASSUME TypeOK, FlagHasByte
  PROVE  Decoded \in Nat /\ Decoded <= Len(typed) /\ (obf => Decoded + 1 = Len(typed))
<1>1. Len(typed) \in Nat /\ (typed # <<>> => Len(typed) # 0)
  BY DEF TypeOK
<1> QED BY <1>1 DEF Decoded, FlagHasByte

LEMMA DecodeInvStep ==
  ASSUME TypeOK, FlagHasByte, ControlInv, DecodeInv, [Next]_vars
  PROVE  DecodeInv'
<1>a. Len(typed) \in Nat /\ Len(accepted) \in Nat /\ lost \in Nat
  BY DEF TypeOK
<1>1. ASSUME NEW b \in Byte, KeyArrives(b) PROVE DecodeInv'
  <2>1. /\ typed' = Append(typed, b) /\ ~obf /\ obf'
        /\ UNCHANGED <<accepted, lost, irq, irqEvent, shift_pressed>>
    BY <1>1 DEF KeyArrives, history
  <2>2. Decoded' = Decoded /\ Decoded = Len(typed)
    BY <1>a, <2>1 DEF Decoded, TypeOK
  <2>3. \A j \in 1 .. Len(typed) : typed'[j] = typed[j]
    BY <2>1 DEF TypeOK
  <2>4. /\ DownIn(typed', Decoded) <=> DownIn(typed, Decoded)
        /\ Decoded # 0 => EvOf(typed', Decoded) = EvOf(typed, Decoded)
    <3> DEFINE d == Decoded
               u == typed'
    <3>1. d \in 0 .. Len(typed) /\ \A j \in 1 .. Len(typed) : u[j] = typed[j]
      BY <1>a, <2>2, <2>3
    <3> HIDE DEF d, u
    <3>2. (DownIn(u, d) <=> DownIn(typed, d)) /\ (d # 0 => EvOf(u, d) = EvOf(typed, d))
      BY <1>a, <3>1, EvOfStable
    <3> QED BY <3>2 DEF d, u
  <2>5. Pending' = Pending /\ (Pending = 1 => Decoded # 0)
    BY <1>a, <2>1 DEF Pending, DecodeInv
  <2> QED BY <2>1, <2>2, <2>4, <2>5 DEF DecodeInv
<1>2. CASE ReadByte
  <2> DEFINE b == typed[Len(typed)]
  <2>1. /\ irq = "read" /\ irq' = "lock" /\ obf /\ ~obf'
        /\ shift_pressed' = ShiftAfter(shift_pressed, b)
        /\ irqEvent' = MakeEvent(b, shift_pressed')
        /\ UNCHANGED <<typed, accepted, lost>>
    BY <1>2 DEF ReadByte, history
  <2>2. Decoded' = Len(typed) /\ Decoded + 1 = Len(typed) /\ Decoded \in Nat
    BY <2>1, DecodedType DEF Decoded
  <2>3. b.up \in BOOLEAN
    <3>1. b \in Byte
      BY <1>a, <2>2 DEF TypeOK
    <3> QED BY <3>1 DEF Byte
  <2>4. shift_pressed' = (IF DownIn(typed, Len(typed)) THEN 1 ELSE 0)
    <3>1. DownIn(typed, Len(typed))
            <=> IF b.code \in ShiftKeys THEN ~b.up ELSE DownIn(typed, Decoded)
      BY <2>2, DownStep
    <3>2. shift_pressed = (IF DownIn(typed, Decoded) THEN 1 ELSE 0)
      BY DEF DecodeInv
    <3> QED BY <2>1, <3>1, <3>2 DEF ShiftAfter
  <2>5. irqEvent' = EvOf(typed, Len(typed))
    BY <2>1, <2>4 DEF EvOf
  <2>6. Pending' = 1 /\ Pending = 0
    BY <2>1 DEF Pending
  <2>7. Decoded' = Len(accepted) + lost + 1
    BY <1>a, <2>2, <2>6 DEF DecodeInv
  <2> QED BY <2>1, <2>2, <2>4, <2>5, <2>6, <2>7 DEF DecodeInv
<1>3. CASE input_push_event
  <2>1. /\ irq = "push" /\ irq' = "unlock"
        /\ UNCHANGED <<typed, obf, shift_pressed>>
    BY <1>3 DEF input_push_event, device
  <2>2. Decoded' = Decoded /\ Pending = 1 /\ Pending' = 0
    BY <2>1 DEF Decoded, Pending
  <2>3. Decoded = Len(accepted) + lost + 1
    BY <2>2 DEF DecodeInv
  <2>4. CASE RingFull
    <3>1. lost' = lost + 1 /\ accepted' = accepted
      BY <1>3, <2>4 DEF input_push_event
    <3>2. \A j \in 1 .. Len(accepted) : accepted[j] \in 1 .. Len(accepted) + (lost + 1)
      BY <1>a DEF DecodeInv
    <3>3. Decoded = Len(accepted) + (lost + 1) + 0
      BY <1>a, <2>3
    <3> QED BY <2>1, <2>2, <3>1, <3>2, <3>3 DEF DecodeInv
  <2>5. CASE ~RingFull
    <3> DEFINE n == Len(accepted) + lost + 1
    <3>1. lost' = lost /\ accepted' = Append(accepted, n) /\ n \in Nat
      BY <1>3, <1>a, <2>5 DEF input_push_event
    <3>2. /\ Len(accepted') = Len(accepted) + 1
          /\ \A j \in 1 .. Len(accepted) : accepted'[j] = accepted[j]
          /\ accepted'[Len(accepted) + 1] = n
      BY <3>1 DEF TypeOK
    <3>3. \A j \in 1 .. Len(accepted) : accepted[j] \in 1 .. Len(accepted) + lost
      BY DEF DecodeInv
    <3>4. \A j \in 1 .. Len(accepted) + 1 : accepted'[j] \in 1 .. Len(accepted) + 1 + lost
      <4> SUFFICES ASSUME NEW j \in 1 .. Len(accepted) + 1
                   PROVE  accepted'[j] \in 1 .. Len(accepted) + 1 + lost
        OBVIOUS
      <4>1. CASE j = Len(accepted) + 1
        BY <1>a, <3>2, <4>1
      <4>2. CASE j \in 1 .. Len(accepted)
        BY <1>a, <3>2, <3>3, <4>2
      <4> QED BY <1>a, <4>1, <4>2
    <3>5. \A j \in 2 .. Len(accepted) + 1 : accepted'[j - 1] < accepted'[j]
      <4> SUFFICES ASSUME NEW j \in 2 .. Len(accepted) + 1
                   PROVE  accepted'[j - 1] < accepted'[j]
        OBVIOUS
      <4>1. CASE j = Len(accepted) + 1
        <5>1. j - 1 \in 1 .. Len(accepted)
          BY <1>a, <4>1
        <5>2. accepted'[j - 1] \in 1 .. Len(accepted) + lost
          BY <3>2, <3>3, <5>1
        <5> QED BY <1>a, <3>2, <4>1, <5>2
      <4>2. CASE j \in 2 .. Len(accepted)
        <5>1. accepted[j - 1] < accepted[j]
          BY <4>2 DEF DecodeInv
        <5>2. j \in 1 .. Len(accepted) /\ j - 1 \in 1 .. Len(accepted)
          BY <1>a, <4>2
        <5> QED BY <3>2, <5>1, <5>2
      <4> QED BY <1>a, <4>1, <4>2
    <3>6. Decoded = Len(accepted) + 1 + lost + 0
      BY <1>a, <2>3
    <3> HIDE DEF n
    <3> QED BY <2>1, <2>2, <3>1, <3>2, <3>4, <3>5, <3>6 DEF DecodeInv
  <2> QED BY <2>4, <2>5
<1>4. ASSUME UNCHANGED <<typed, obf, accepted, lost, shift_pressed, irqEvent>>, Pending' = Pending
      PROVE  DecodeInv'
  <2>1. Decoded' = Decoded
    BY <1>4 DEF Decoded
  <2> QED BY <1>4, <2>1 DEF DecodeInv
<1> USE DEF device, ring, history, vars, Pending
<1>5. CASE TakeIrq
  BY <1>4, <1>5 DEF TakeIrq
<1>6. CASE IrqLock
  BY <1>4, <1>6 DEF IrqLock
<1>7. CASE IrqUnlock
  BY <1>4, <1>7 DEF IrqUnlock
<1>8. CASE Eoi
  BY <1>4, <1>8 DEF Eoi
<1>9. CASE MainStep
  BY <1>4, <1>9 DEF MainStep, Poll, MainLock, PopTake, PopAdvance, MainUnlock, Handle
<1>10. CASE UNCHANGED vars
  BY <1>4, <1>10
<1> QED
  BY <1>1, <1>2, <1>3, <1>5, <1>6, <1>7, <1>8, <1>9, <1>10 DEF Next, IrqStep

LEMMA DecodeAlways == Spec => []DecodeInv
<1>1. Init => DecodeInv
  <2> SUFFICES ASSUME Init PROVE DecodeInv
    OBVIOUS
  <2>1. Decoded = 0 /\ Pending = 0 /\ Len(accepted) = 0 /\ lost = 0
    BY DEF Init, Decoded, Pending
  <2>2. ~DownIn(typed, 0)
    BY LastInIs DEF DownIn
  <2> QED BY <2>1, <2>2 DEF Init, DecodeInv
<1>2. TypeOK /\ FlagHasByte /\ ControlInv /\ DecodeInv /\ [Next]_vars => DecodeInv'
  BY DecodeInvStep
<1> QED
  BY <1>1, <1>2, TypeCorrect, ControlInvariant, PTL DEF Spec

-----------------------------------------------------------------------------
(* The ring as a sequence: how many events it holds, and in which slots.     *)

Occ(h, t)  == (h + INPUT_BUFFER_SIZE - t) % INPUT_BUFFER_SIZE
Slot(t, i) == (t + i - 1) % INPUT_BUFFER_SIZE

LEMMA OccIs ==
  ASSUME NEW h \in Slots, NEW t \in Slots
  PROVE  /\ Occ(h, t) = (IF h >= t THEN h - t ELSE h + INPUT_BUFFER_SIZE - t)
         /\ Occ(h, t) \in 0 .. INPUT_BUFFER_SIZE - 1
         /\ Occ(h, t) = 0 <=> h = t
BY InputAssumption DEF Slots, Occ

LEMMA SlotIs ==
  ASSUME NEW t \in Slots, NEW i \in 1 .. INPUT_BUFFER_SIZE
  PROVE  /\ Slot(t, i) = (IF t + i - 1 < INPUT_BUFFER_SIZE THEN t + i - 1
                                                           ELSE t + i - 1 - INPUT_BUFFER_SIZE)
         /\ Slot(t, i) \in Slots
BY InputAssumption DEF Slots, Slot

\* A push fills the slot after the last and no other; NextSlot(h) # t is ~RingFull.
LEMMA PushSlot ==
  ASSUME NEW h \in Slots, NEW t \in Slots, NextSlot(h) # t
  PROVE  /\ Occ(NextSlot(h), t) = Occ(h, t) + 1
         /\ Slot(t, Occ(h, t) + 1) = h
         /\ \A i \in 1 .. Occ(h, t) : Slot(t, i) # h /\ Slot(t, i) \in Slots
<1> DEFINE N == INPUT_BUFFER_SIZE
           s == NextSlot(h)
           o == Occ(h, t)
           p == Occ(s, t)
<1>1. s \in Slots /\ s = (IF h = N - 1 THEN 0 ELSE h + 1) /\ s # t
  BY NextSlotValue, NextSlotInSlots
<1>2. N \in Nat \ {0} /\ h \in 0 .. N - 1 /\ t \in 0 .. N - 1
  BY InputAssumption DEF Slots
<1>3. o = (IF h >= t THEN h - t ELSE h + N - t) /\ o \in 0 .. N - 1
  BY OccIs
<1>4. p = (IF s >= t THEN s - t ELSE s + N - t) /\ p \in 0 .. N - 1
  BY <1>1, OccIs
<1>5. \A i \in 1 .. N : /\ Slot(t, i) = (IF t + i - 1 < N THEN t + i - 1 ELSE t + i - 1 - N)
                        /\ Slot(t, i) \in Slots
  BY SlotIs
<1> HIDE DEF N, s, o, p
<1>6. p = o + 1
  BY <1>1, <1>2, <1>3, <1>4
<1>7. Slot(t, o + 1) = h
  <2>1. o + 1 \in 1 .. N
    BY <1>2, <1>3, <1>4, <1>6
  <2>2. Slot(t, o + 1) = (IF t + (o + 1) - 1 < N THEN t + (o + 1) - 1 ELSE t + (o + 1) - 1 - N)
    BY <1>5, <2>1
  <2> QED BY <1>2, <1>3, <2>2
<1>8. ASSUME NEW i \in 1 .. o PROVE Slot(t, i) # h /\ Slot(t, i) \in Slots
  <2>1. i \in 1 .. N
    BY <1>2, <1>3
  <2>2. Slot(t, i) = (IF t + i - 1 < N THEN t + i - 1 ELSE t + i - 1 - N) /\ Slot(t, i) \in Slots
    BY <1>5, <2>1
  <2> QED BY <1>2, <1>3, <2>2
<1> QED BY <1>6, <1>7, <1>8 DEF s, o, p

\* A pop moves every slot forward by one.
LEMMA PopSlot ==
  ASSUME NEW h \in Slots, NEW t \in Slots, h # t
  PROVE  /\ Occ(h, NextSlot(t)) = Occ(h, t) - 1
         /\ Slot(t, 1) = t
         /\ \A i \in 1 .. Occ(h, t) - 1 : Slot(NextSlot(t), i) = Slot(t, i + 1)
<1> DEFINE N == INPUT_BUFFER_SIZE
           s == NextSlot(t)
           o == Occ(h, t)
           p == Occ(h, s)
<1>1. s \in Slots /\ s = (IF t = N - 1 THEN 0 ELSE t + 1)
  BY NextSlotValue, NextSlotInSlots
<1>2. N \in Nat \ {0} /\ h \in 0 .. N - 1 /\ t \in 0 .. N - 1 /\ s \in 0 .. N - 1
  BY <1>1, InputAssumption DEF Slots
<1>3. o = (IF h >= t THEN h - t ELSE h + N - t) /\ o \in 0 .. N - 1
  BY OccIs
<1>4. p = (IF h >= s THEN h - s ELSE h + N - s) /\ p \in 0 .. N - 1
  BY <1>1, OccIs
<1>5. \A i \in 1 .. N : /\ Slot(t, i) = (IF t + i - 1 < N THEN t + i - 1 ELSE t + i - 1 - N)
                        /\ Slot(s, i) = (IF s + i - 1 < N THEN s + i - 1 ELSE s + i - 1 - N)
  BY <1>1, SlotIs
<1> HIDE DEF N, s, o, p
<1>6. p = o - 1
  BY <1>1, <1>2, <1>3, <1>4
<1>7. Slot(t, 1) = t
  <2>1. 1 \in 1 .. N
    BY <1>2
  <2>2. Slot(t, 1) = (IF t + 1 - 1 < N THEN t + 1 - 1 ELSE t + 1 - 1 - N)
    BY <1>5, <2>1
  <2> QED BY <1>2, <2>2
<1>8. ASSUME NEW i \in 1 .. o - 1 PROVE Slot(s, i) = Slot(t, i + 1)
  <2>1. i \in 1 .. N /\ i + 1 \in 1 .. N
    BY <1>2, <1>3
  <2>2. /\ Slot(t, i + 1) = (IF t + (i + 1) - 1 < N THEN t + (i + 1) - 1 ELSE t + (i + 1) - 1 - N)
        /\ Slot(s, i) = (IF s + i - 1 < N THEN s + i - 1 ELSE s + i - 1 - N)
    BY <1>5, <2>1
  <2> QED BY <1>1, <1>2, <1>3, <2>2
<1> QED BY <1>6, <1>7, <1>8 DEF s, o, p

-----------------------------------------------------------------------------
(* The books of the main loop: what the terminal has been given, what the    *)
(* loop holds and what is in the ring are the accepted bytes' events, place  *)
(* by place.  Between reading a slot and advancing tail the event is still   *)
(* the ring's, and the loop's copy equals it.                                *)

Held == IF main \in {"unlock", "handle"} THEN 1 ELSE 0

StreamInv ==
  /\ Len(handled) + Held + Occ(head, tail) = Len(accepted)
  /\ \A i \in 1 .. Len(handled) : handled[i] = EvOf(typed, accepted[i])
  /\ Held = 1 => event = EvOf(typed, accepted[Len(handled) + 1])
  /\ main = "advance" => event = buffer[tail]
  /\ \A i \in 1 .. Occ(head, tail) :
       buffer[Slot(tail, i)] = EvOf(typed, accepted[Len(handled) + Held + i])

LEMMA StreamTypes ==
  ASSUME TypeOK, DecodeInv, StreamInv
  PROVE  /\ Len(handled) \in Nat /\ Len(accepted) \in Nat /\ Len(typed) \in Nat
         /\ Occ(head, tail) \in Nat /\ Held \in {0, 1}
BY OccIs DEF TypeOK, Held

\* A step that leaves the ring and the histories alone.
LEMMA StreamKept ==
  ASSUME StreamInv, UNCHANGED <<typed, head, tail, buffer, accepted, handled, event>>,
         Held' = Held, main' = "advance" => main = "advance"
  PROVE  StreamInv'
BY DEF StreamInv

LEMMA StreamInvStep ==
  ASSUME TypeOK, FlagHasByte, ControlInv, DecodeInv, StreamInv, [Next]_vars
  PROVE  StreamInv'
<1> DEFINE o == Occ(head, tail)
           l == Len(handled)
           n == Len(accepted)
<1>a. /\ l \in Nat /\ n \in Nat /\ Len(typed) \in Nat /\ o \in Nat /\ Held \in {0, 1}
      /\ l + Held + o = n
      /\ head \in Slots /\ tail \in Slots
  BY StreamTypes DEF StreamInv, TypeOK
<1>1. ASSUME NEW b \in Byte, KeyArrives(b) PROVE StreamInv'
  <2> DEFINE u == typed'
  <2>1. u = Append(typed, b) /\ UNCHANGED <<head, tail, buffer, accepted, handled, event, main>>
    BY <1>1 DEF KeyArrives, ring, history
  <2>2. \A j \in 1 .. Len(typed) : u[j] = typed[j]
    BY <2>1 DEF TypeOK
  <2> HIDE DEF u
  <2>3. \A j \in 1 .. Len(typed) : EvOf(u, j) = EvOf(typed, j)
    <3> SUFFICES ASSUME NEW j \in 1 .. Len(typed) PROVE EvOf(u, j) = EvOf(typed, j)
      OBVIOUS
    <3>1. j \in 0 .. Len(typed) /\ j # 0
      BY <1>a
    <3>2. j # 0 => EvOf(u, j) = EvOf(typed, j)
      BY <1>a, <2>2, <3>1, EvOfStable
    <3> QED BY <3>1, <3>2
  <2>4. \A j \in 1 .. n : EvOf(u, accepted[j]) = EvOf(typed, accepted[j])
    <3>1. \A j \in 1 .. n : accepted[j] \in 1 .. Len(typed)
      <4>1. n + lost <= Len(typed) /\ n + lost \in Nat
        <5>1. Decoded \in Nat /\ Decoded <= Len(typed)
          BY DecodedType
        <5>2. Decoded = n + lost + Pending /\ Pending \in {0, 1} /\ lost \in Nat
          BY DEF DecodeInv, Pending, TypeOK
        <5> QED BY <1>a, <5>1, <5>2
      <4>2. \A j \in 1 .. n : accepted[j] \in 1 .. n + lost
        BY DEF DecodeInv
      <4> QED BY <1>a, <4>1, <4>2
    <3> QED BY <2>3, <3>1
  <2>5. Held' = Held
    BY <2>1 DEF Held
  <2>6. \A i \in 1 .. l : handled[i] = EvOf(u, accepted[i])
    <3>1. \A i \in 1 .. l : i \in 1 .. n
      BY <1>a
    <3> QED BY <2>4, <3>1 DEF StreamInv
  <2>7. Held = 1 => event = EvOf(u, accepted[l + 1])
    <3>1. Held = 1 => l + 1 \in 1 .. n
      BY <1>a
    <3> QED BY <2>4, <3>1 DEF StreamInv
  <2>8. \A i \in 1 .. o : buffer[Slot(tail, i)] = EvOf(u, accepted[l + Held + i])
    <3>1. \A i \in 1 .. o : l + Held + i \in 1 .. n
      BY <1>a
    <3> QED BY <2>4, <3>1 DEF StreamInv
  <2> QED BY <2>1, <2>5, <2>6, <2>7, <2>8 DEF StreamInv, u
<1>2. CASE input_push_event
  <2>1. irq = "push" /\ UNCHANGED <<typed, tail, event, main, handled>> /\ Held' = Held
    BY <1>2 DEF input_push_event, device, Held
  <2>2. main # "advance"
    BY <2>1 DEF ControlInv, LockDiscipline, MainHolds, IrqHolds
  <2>3. CASE RingFull
    <3>1. UNCHANGED <<buffer, head, accepted>>
      BY <1>2, <2>3 DEF input_push_event
    <3> QED BY <2>1, <3>1, StreamKept
  <2>4. CASE ~RingFull
    <3> DEFINE k == n + lost + 1
    <3>1. /\ buffer' = [buffer EXCEPT ![head] = irqEvent]
          /\ head' = NextSlot(head)
          /\ accepted' = Append(accepted, k)
      BY <1>2, <2>4 DEF input_push_event
    <3>2. /\ Occ(head', tail) = o + 1
          /\ Slot(tail, o + 1) = head
          /\ \A i \in 1 .. o : Slot(tail, i) # head /\ Slot(tail, i) \in Slots
      BY <1>a, <2>4, <3>1, PushSlot DEF RingFull
    <3>3. k = Decoded /\ k \in Nat /\ irqEvent = EvOf(typed, k)
      <4>1. Pending = 1 /\ lost \in Nat
        BY <2>1 DEF Pending, TypeOK
      <4> QED BY <1>a, <4>1 DEF DecodeInv
    <3>4. /\ Len(accepted') = n + 1
          /\ \A j \in 1 .. n : accepted'[j] = accepted[j]
          /\ accepted'[n + 1] = k
      BY <3>1, <3>3 DEF TypeOK
    <3>5. \A i \in 1 .. l : handled[i] = EvOf(typed, accepted'[i])
      <4>1. \A i \in 1 .. l : i \in 1 .. n
        BY <1>a
      <4> QED BY <3>4, <4>1 DEF StreamInv
    <3>6. Held = 1 => event = EvOf(typed, accepted'[l + 1])
      <4>1. Held = 1 => l + 1 \in 1 .. n
        BY <1>a
      <4> QED BY <3>4, <4>1 DEF StreamInv
    <3>7. ASSUME NEW i \in 1 .. o + 1
          PROVE  buffer'[Slot(tail, i)] = EvOf(typed, accepted'[l + Held + i])
      <4>1. CASE i = o + 1
        <5>1. l + Held + i = n + 1
          BY <1>a, <4>1
        <5>2. buffer'[head] = irqEvent
          BY <1>a, <3>1 DEF TypeOK
        <5> QED BY <3>2, <3>3, <3>4, <4>1, <5>1, <5>2
      <4>2. CASE i \in 1 .. o
        <5>1. l + Held + i \in 1 .. n
          BY <1>a, <4>2
        <5>2. buffer'[Slot(tail, i)] = buffer[Slot(tail, i)]
          BY <3>1, <3>2, <4>2 DEF TypeOK
        <5> QED BY <3>4, <4>2, <5>1, <5>2 DEF StreamInv
      <4> QED BY <1>a, <4>1, <4>2
    <3>8. l + Held + (o + 1) = n + 1
      BY <1>a
    <3> HIDE DEF k
    <3> QED BY <2>1, <2>2, <3>2, <3>4, <3>5, <3>6, <3>7, <3>8 DEF StreamInv
  <2> QED BY <2>3, <2>4
<1>3. CASE PopTake
  <2>1. /\ main = "take" /\ head # tail
        /\ UNCHANGED <<typed, head, tail, buffer, accepted, handled>>
    BY <1>3 DEF PopTake, MainRuns, device, ring, history, ControlInv, PollNotStale
  <2>2. event' = buffer[tail] /\ main' = "advance"
    BY <1>3, <2>1 DEF PopTake
  <2>3. Held = 0 /\ Held' = 0
    BY <2>1, <2>2 DEF Held
  <2> QED BY <2>1, <2>2, <2>3 DEF StreamInv
<1>4. CASE PopAdvance
  <2>1. /\ main = "advance" /\ main' = "unlock" /\ head # tail /\ tail' = NextSlot(tail)
        /\ UNCHANGED <<typed, head, buffer, accepted, handled, event>>
    BY <1>4 DEF PopAdvance, MainRuns, device, history, ControlInv, PollNotStale
  <2>2. Held = 0 /\ Held' = 1
    BY <2>1 DEF Held
  <2>3. /\ Occ(head, tail') = o - 1
        /\ Slot(tail, 1) = tail
        /\ \A i \in 1 .. o - 1 : Slot(tail', i) = Slot(tail, i + 1)
    BY <1>a, <2>1, PopSlot
  <2>4. o >= 1
    BY <1>a, <2>1, OccIs
  <2>5. event = EvOf(typed, accepted[l + 1])
    <3>1. 1 \in 1 .. o /\ l + 0 + 1 = l + 1
      BY <1>a, <2>4
    <3> QED BY <2>1, <2>2, <2>3, <3>1 DEF StreamInv
  <2>6. ASSUME NEW i \in 1 .. o - 1
        PROVE  buffer[Slot(tail', i)] = EvOf(typed, accepted[l + 1 + i])
    <3>1. i + 1 \in 1 .. o /\ l + 0 + (i + 1) = l + 1 + i
      BY <1>a
    <3> QED BY <2>2, <2>3, <3>1 DEF StreamInv
  <2>7. l + 1 + (o - 1) = n
    BY <1>a, <2>2
  <2> QED BY <2>1, <2>2, <2>3, <2>5, <2>6, <2>7 DEF StreamInv
<1>5. CASE Handle
  <2>1. /\ main = "handle" /\ main' = "poll" /\ handled' = Append(handled, event)
        /\ UNCHANGED <<typed, head, tail, buffer, accepted, event>>
    BY <1>5 DEF Handle, MainRuns, device, ring
  <2>2. Held = 1 /\ Held' = 0
    BY <2>1 DEF Held
  <2>3. /\ Len(handled') = l + 1
        /\ \A j \in 1 .. l : handled'[j] = handled[j]
        /\ handled'[l + 1] = event
    BY <2>1 DEF TypeOK
  <2>4. \A i \in 1 .. l + 1 : handled'[i] = EvOf(typed, accepted[i])
    <3>1. event = EvOf(typed, accepted[l + 1])
      BY <2>2 DEF StreamInv
    <3>2. \A i \in 1 .. l + 1 : i = l + 1 \/ i \in 1 .. l
      BY <1>a
    <3> QED BY <2>3, <3>1, <3>2 DEF StreamInv
  <2>5. \A i \in 1 .. o : l + 1 + 0 + i = l + Held + i
    BY <1>a, <2>2
  <2>6. l + 1 + 0 + o = n
    BY <1>a, <2>2
  <2> QED BY <2>1, <2>2, <2>3, <2>4, <2>5, <2>6 DEF StreamInv
<1> USE DEF device, ring, history, vars, Held
<1>6. CASE TakeIrq
  BY <1>6, StreamKept DEF TakeIrq
<1>7. CASE ReadByte
  BY <1>7, StreamKept DEF ReadByte
<1>8. CASE IrqLock
  BY <1>8, StreamKept DEF IrqLock
<1>9. CASE IrqUnlock
  BY <1>9, StreamKept DEF IrqUnlock
<1>10. CASE Eoi
  BY <1>10, StreamKept DEF Eoi
<1>11. CASE Poll
  BY <1>11, StreamKept DEF Poll, MainRuns
<1>12. CASE MainLock
  BY <1>12, StreamKept DEF MainLock, MainRuns
<1>13. CASE MainUnlock
  BY <1>13, StreamKept DEF MainUnlock, MainRuns
<1>14. CASE UNCHANGED vars
  BY <1>14, StreamKept
<1> QED
  BY <1>1, <1>2, <1>3, <1>4, <1>5, <1>6, <1>7, <1>8, <1>9, <1>10, <1>11, <1>12, <1>13, <1>14
  DEF Next, IrqStep, MainStep

LEMMA StreamAlways == Spec => []StreamInv
<1>1. Init => StreamInv
  <2> SUFFICES ASSUME Init PROVE StreamInv
    OBVIOUS
  <2>1. head = tail /\ head \in Slots /\ tail \in Slots
    BY InputAssumption DEF Init, Slots
  <2>2. Occ(head, tail) = 0
    BY <2>1, OccIs
  <2>3. Held = 0 /\ handled = <<>> /\ accepted = <<>> /\ main = "poll"
    BY DEF Init, Held
  <2> QED BY <2>2, <2>3 DEF StreamInv
<1>2. TypeOK /\ FlagHasByte /\ ControlInv /\ DecodeInv /\ StreamInv /\ [Next]_vars => StreamInv'
  BY StreamInvStep
<1> QED
  BY <1>1, <1>2, TypeCorrect, ControlInvariant, DecodeAlways, PTL DEF Spec

-----------------------------------------------------------------------------
(* The books, read as sequences. *)

\* RingContents with the ring as parameters.
RingSeq(b, h, t) == [i \in 1 .. Occ(h, t) |-> b[Slot(t, i)]]

LEMMA RingSeqIs ==
  ASSUME NEW b \in [Slots -> Event], NEW h \in Slots, NEW t \in Slots
  PROVE  /\ RingSeq(b, h, t) \in Seq(Event) /\ Len(RingSeq(b, h, t)) = Occ(h, t)
         /\ Occ(h, t) \in Nat
         /\ \A i \in 1 .. Occ(h, t) : RingSeq(b, h, t)[i] = b[Slot(t, i)]
<1> DEFINE o == Occ(h, t)
<1>1. o \in 0 .. INPUT_BUFFER_SIZE - 1
  BY OccIs
<1>2. RingSeq(b, h, t) = [i \in 1 .. o |-> b[Slot(t, i)]]
  BY DEF RingSeq
<1> HIDE DEF o
<1>3. \A i \in 1 .. o : Slot(t, i) \in Slots
  <2> SUFFICES ASSUME NEW i \in 1 .. o PROVE Slot(t, i) \in Slots
    OBVIOUS
  <2>1. i \in 1 .. INPUT_BUFFER_SIZE
    BY <1>1, InputAssumption
  <2> QED BY <2>1, SlotIs
<1>4. o \in Nat /\ \A i \in 1 .. o : b[Slot(t, i)] \in Event
  BY <1>1, <1>3, InputAssumption
<1> QED BY <1>2, <1>4 DEF o

LEMMA RingContentsIs ==
  ASSUME TypeOK
  PROVE  /\ RingContents \in Seq(Event) /\ Len(RingContents) = Occ(head, tail)
         /\ Occ(head, tail) \in Nat
         /\ \A i \in 1 .. Occ(head, tail) : RingContents[i] = buffer[Slot(tail, i)]
<1>1. RingContents = RingSeq(buffer, head, tail)
  BY DEF RingContents, Occupied, RingSeq, Occ, Slot
<1>2. buffer \in [Slots -> Event] /\ head \in Slots /\ tail \in Slots
  BY DEF TypeOK
<1> QED BY <1>1, <1>2, RingSeqIs

\* Two sequences whose elements continue one another are one sequence.
Starts(s, f) == \A i \in 1 .. Len(s) : s[i] = f[i]
Continues(r, f, l) == \A i \in 1 .. Len(r) : r[i] = f[l + i]

LEMMA Joined ==
  ASSUME NEW S, NEW s \in Seq(S), NEW r \in Seq(S), NEW f, NEW n \in Nat, n = Len(s) + Len(r),
         Starts(s, f), Continues(r, f, Len(s))
  PROVE  s \o r = [i \in 1 .. n |-> f[i]]
<1> DEFINE c == s \o r
           l == Len(s)
<1>1. /\ c \in Seq(S) /\ Len(c) = n
      /\ \A i \in 1 .. n : c[i] = IF i <= l THEN s[i] ELSE r[i - l]
  BY ConcatProperties
<1>2. l \in Nat /\ Len(r) \in Nat /\ n = l + Len(r)
  BY LenProperties
<1>3. c = [i \in 1 .. n |-> c[i]]
  <2>1. c \in [1 .. n -> S]
    BY <1>1, LenProperties
  <2> HIDE DEF c
  <2> QED BY <2>1
<1> HIDE DEF c, l
<1>4. ASSUME NEW i \in 1 .. n PROVE c[i] = f[i]
  <2>1. CASE i <= l
    <3>1. i \in 1 .. l
      BY <1>2, <2>1
    <3> QED BY <1>1, <2>1, <3>1 DEF l, Starts
  <2>2. CASE ~(i <= l)
    <3>1. i - l \in 1 .. Len(r) /\ l + (i - l) = i
      BY <1>2, <2>2
    <3>2. r[i - l] = f[l + (i - l)]
      BY <3>1 DEF l, Continues
    <3> QED BY <1>1, <2>2, <3>1, <3>2
  <2> QED BY <2>1, <2>2
<1> QED BY <1>3, <1>4 DEF c

LEMMA Appended ==
  ASSUME NEW S, NEW s \in Seq(S), NEW x \in S, NEW n \in Nat, Len(s) = n
  PROVE  Append(s, x) = [i \in 1 .. n + 1 |-> IF i = n + 1 THEN x ELSE s[i]]
<1> DEFINE a == Append(s, x)
<1>1. /\ a \in Seq(S) /\ Len(a) = n + 1 /\ a[n + 1] = x
      /\ \A i \in 1 .. n : a[i] = s[i]
  OBVIOUS
<1>2. a \in [1 .. n + 1 -> S]
  BY <1>1, LenProperties
<1> HIDE DEF a
<1>3. a = [i \in 1 .. n + 1 |-> a[i]]
  BY <1>2
<1>4. \A i \in 1 .. n + 1 : a[i] = IF i = n + 1 THEN x ELSE s[i]
  BY <1>1
<1> QED BY <1>3, <1>4 DEF a

LEMMA InHandIs ==
  ASSUME TypeOK
  PROVE  /\ InHand \in Seq(Event) /\ Len(InHand) = Held
         /\ Held = 1 => InHand[1] = event
BY DEF InHand, Held, TypeOK

\* input.c, ps2kbd.c, kmain: every byte is accepted or refused once and none
\* read twice; the terminal, the loop and the ring together hold the decodings
\* of the accepted bytes, in the order typed, with the shift state of the press.
THEOREM EndToEndHolds == Spec => []EndToEnd
<1>1. ASSUME TypeOK, DecodeInv, StreamInv
      PROVE  handled \o InHand \o RingContents = [k \in 1 .. Len(accepted) |-> EventOf(accepted[k])]
  <2> DEFINE l == Len(handled)
             h == Held
             n == Len(accepted)
             o == Occ(head, tail)
             R == RingContents
             f == [i \in 1 .. n |-> EvOf(typed, accepted[i])]
  <2>1. l \in Nat /\ n \in Nat /\ o \in Nat /\ h \in {0, 1} /\ l + h + o = n
    BY <1>1, StreamTypes DEF StreamInv
  <2>2. /\ handled \in Seq(Event) /\ InHand \in Seq(Event) /\ R \in Seq(Event)
        /\ Len(handled) = l /\ Len(InHand) = h /\ Len(R) = o
    BY <1>1, InHandIs, RingContentsIs DEF TypeOK
  <2>3. /\ \A i \in 1 .. l : handled[i] = f[i]
        /\ \A i \in 1 .. h : InHand[i] = f[l + i]
        /\ \A i \in 1 .. o : R[i] = f[l + h + i]
    <3> HIDE DEF f
    <3>1. \A i \in 1 .. n : f[i] = EvOf(typed, accepted[i])
      BY DEF f
    <3>2. \A i \in 1 .. l : i \in 1 .. n /\ handled[i] = EvOf(typed, accepted[i])
      BY <1>1, <2>1 DEF StreamInv
    <3>3. \A i \in 1 .. h : l + i \in 1 .. n /\ InHand[i] = EvOf(typed, accepted[l + i])
      <4>1. h = 1 => InHand[1] = EvOf(typed, accepted[l + 1])
        BY <1>1, InHandIs DEF StreamInv
      <4>2. \A i \in 1 .. h : h = 1 /\ i = 1 /\ l + i \in 1 .. n
        BY <2>1
      <4> QED BY <4>1, <4>2
    <3>4. \A i \in 1 .. o : l + h + i \in 1 .. n /\ R[i] = EvOf(typed, accepted[l + h + i])
      <4>1. \A i \in 1 .. o : R[i] = EvOf(typed, accepted[l + h + i])
        BY <1>1, RingContentsIs DEF StreamInv
      <4> QED BY <2>1, <4>1
    <3> QED BY <3>1, <3>2, <3>3, <3>4
  <2> HIDE DEF l, h, n, o, R
  <2>4. handled \o InHand = [i \in 1 .. l + h |-> f[i]]
    <3> DEFINE k == l + h
    <3>1. k \in Nat /\ k = Len(handled) + Len(InHand)
      BY <2>1, <2>2
    <3>2. Starts(handled, f)
      BY <2>2, <2>3 DEF Starts
    <3>3. Continues(InHand, f, Len(handled))
      BY <2>2, <2>3 DEF Continues
    <3>4. handled \in Seq(Event) /\ InHand \in Seq(Event)
      BY <2>2
    <3> HIDE DEF f, k
    <3>5. handled \o InHand = [i \in 1 .. k |-> f[i]]
      BY <3>1, <3>2, <3>3, <3>4, Joined
    <3> QED BY <3>5 DEF k
  <2>5. handled \o InHand \in Seq(Event) /\ Len(handled \o InHand) = l + h
    BY <2>2, ConcatProperties
  <2>6. \A i \in 1 .. l + h : (handled \o InHand)[i] = f[i]
    <3> HIDE DEF f
    <3> QED BY <2>4
  <2>7. handled \o InHand \o R = [i \in 1 .. n |-> f[i]]
    <3> DEFINE s == handled \o InHand
    <3>1. s \in Seq(Event) /\ n = Len(s) + Len(R) /\ n \in Nat /\ R \in Seq(Event)
      BY <2>1, <2>2, <2>5
    <3>2. Starts(s, f)
      BY <2>5, <2>6 DEF Starts
    <3>3. Continues(R, f, Len(s))
      BY <2>2, <2>3, <2>5 DEF Continues
    <3> HIDE DEF s, f
    <3>4. s \o R = [i \in 1 .. n |-> f[i]]
      BY <3>1, <3>2, <3>3, Joined
    <3> QED BY <3>4 DEF s
  <2> QED BY <2>7, EventOfIs DEF R, n
<1>2. ASSUME TypeOK, DecodeInv, NEW j \in 1 .. Len(accepted)
      PROVE  accepted[j] \in (IF j = 1 THEN 1 ELSE accepted[j - 1] + 1) .. Decoded
  <2>1. accepted[j] \in 1 .. Len(accepted) + lost /\ Len(accepted) \in Nat /\ lost \in Nat
    BY <1>2 DEF DecodeInv, TypeOK
  <2>2. Decoded = Len(accepted) + lost \/ Decoded = Len(accepted) + lost + 1
    <3>1. Decoded = Len(accepted) + lost + Pending /\ Pending \in {0, 1}
      BY <1>2 DEF DecodeInv, Pending
    <3> QED BY <2>1, <3>1
  <2>3. CASE j = 1
    BY <2>1, <2>2, <2>3
  <2>4. CASE j # 1
    <3>1. accepted[j - 1] < accepted[j] /\ j - 1 \in 1 .. Len(accepted)
      BY <1>2, <2>1, <2>4 DEF DecodeInv
    <3>2. accepted[j - 1] \in 1 .. Len(accepted) + lost
      BY <1>2, <3>1 DEF DecodeInv
    <3> QED BY <2>1, <2>2, <2>4, <3>1, <3>2
  <2> QED BY <2>3, <2>4
<1>3. TypeOK /\ DecodeInv /\ StreamInv => EndToEnd
  BY <1>1, <1>2 DEF EndToEnd, DecodeInv, Pending
<1> QED BY <1>3, TypeCorrect, DecodeAlways, StreamAlways, PTL

-----------------------------------------------------------------------------
(* The event queue of module EventQueue.  The queue's contents are those of  *)
(* the ring, what it has delivered is what the loop has popped, and it is    *)
(* alive until the handler waits for the loop it has preempted.              *)

LEMMA RingLimit ==
  ASSUME NEW h \in Slots, NEW t \in Slots
  PROVE  /\ NextSlot(h) = t => Occ(h, t) = INPUT_BUFFER_SIZE - 1
         /\ NextSlot(h) # t => Occ(h, t) < INPUT_BUFFER_SIZE - 1
<1> DEFINE N == INPUT_BUFFER_SIZE
           s == NextSlot(h)
           o == Occ(h, t)
<1>1. s = (IF h = N - 1 THEN 0 ELSE h + 1)
  BY NextSlotValue
<1>2. N \in Nat \ {0} /\ h \in 0 .. N - 1 /\ t \in 0 .. N - 1
  BY InputAssumption DEF Slots
<1>3. o = (IF h >= t THEN h - t ELSE h + N - t)
  BY OccIs
<1> HIDE DEF N, s, o
<1>4. (s = t => o = N - 1) /\ (s # t => o < N - 1)
  BY <1>1, <1>2, <1>3
<1> QED BY <1>4 DEF N, s, o

LEMMA RingPush ==
  ASSUME NEW b \in [Slots -> Event], NEW h \in Slots, NEW t \in Slots, NEW e \in Event,
         NextSlot(h) # t
  PROVE  RingSeq([b EXCEPT ![h] = e], NextSlot(h), t) = Append(RingSeq(b, h, t), e)
<1> DEFINE c == [b EXCEPT ![h] = e]
           r == RingSeq(b, h, t)
           q == RingSeq(c, NextSlot(h), t)
           o == Occ(h, t)
<1>1. c \in [Slots -> Event] /\ c[h] = e /\ \A j \in Slots : j # h => c[j] = b[j]
  OBVIOUS
<1>2. /\ Occ(NextSlot(h), t) = o + 1
      /\ Slot(t, o + 1) = h
      /\ \A i \in 1 .. o : Slot(t, i) # h /\ Slot(t, i) \in Slots
  BY PushSlot
<1> HIDE DEF c
<1>3. r \in Seq(Event) /\ Len(r) = o /\ o \in Nat /\ \A i \in 1 .. o : r[i] = b[Slot(t, i)]
  BY RingSeqIs
<1>4. q \in Seq(Event) /\ Len(q) = o + 1 /\ \A i \in 1 .. o + 1 : q[i] = c[Slot(t, i)]
  <2> DEFINE n == NextSlot(h)
  <2>1. n \in Slots /\ Occ(n, t) = o + 1
    BY <1>2, NextSlotInSlots
  <2> HIDE DEF n, o
  <2>2. /\ RingSeq(c, n, t) \in Seq(Event) /\ Len(RingSeq(c, n, t)) = Occ(n, t)
        /\ \A i \in 1 .. Occ(n, t) : RingSeq(c, n, t)[i] = c[Slot(t, i)]
    BY <1>1, <2>1, RingSeqIs
  <2> QED BY <2>1, <2>2 DEF n
<1> HIDE DEF r, q, o
<1>5. /\ Append(r, e) \in Seq(Event) /\ Len(Append(r, e)) = o + 1
      /\ \A i \in 1 .. o : Append(r, e)[i] = r[i]
      /\ Append(r, e)[o + 1] = e
  BY <1>3, AppendProperties
<1>6. ASSUME NEW i \in 1 .. o + 1 PROVE q[i] = Append(r, e)[i]
  <2>1. CASE i = o + 1
    BY <1>1, <1>2, <1>4, <1>5, <2>1
  <2>2. CASE i \in 1 .. o
    BY <1>1, <1>2, <1>3, <1>4, <1>5, <2>2
  <2> QED BY <1>3, <2>1, <2>2
<1>7. q = Append(r, e)
  BY <1>4, <1>5, <1>6, SeqEqual
<1> QED BY <1>7 DEF q, r, c

LEMMA RingPop ==
  ASSUME NEW b \in [Slots -> Event], NEW h \in Slots, NEW t \in Slots, h # t
  PROVE  /\ RingSeq(b, h, t) # <<>>
         /\ Head(RingSeq(b, h, t)) = b[t]
         /\ RingSeq(b, h, NextSlot(t)) = Tail(RingSeq(b, h, t))
<1> DEFINE r == RingSeq(b, h, t)
           q == RingSeq(b, h, NextSlot(t))
           o == Occ(h, t)
<1>1. /\ Occ(h, NextSlot(t)) = o - 1
      /\ Slot(t, 1) = t
      /\ \A i \in 1 .. o - 1 : Slot(NextSlot(t), i) = Slot(t, i + 1)
  BY PopSlot
<1>2. r \in Seq(Event) /\ Len(r) = o /\ o \in Nat /\ \A i \in 1 .. o : r[i] = b[Slot(t, i)]
  BY RingSeqIs
<1>3. o # 0
  BY OccIs
<1>4. /\ q \in Seq(Event) /\ Len(q) = o - 1 /\ o - 1 \in Nat
      /\ \A i \in 1 .. o - 1 : q[i] = b[Slot(NextSlot(t), i)]
  <2> DEFINE n == NextSlot(t)
  <2>1. n \in Slots /\ Occ(h, n) = o - 1
    BY <1>1, NextSlotInSlots
  <2> HIDE DEF n, o
  <2>2. /\ RingSeq(b, h, n) \in Seq(Event) /\ Len(RingSeq(b, h, n)) = Occ(h, n)
        /\ Occ(h, n) \in Nat
        /\ \A i \in 1 .. Occ(h, n) : RingSeq(b, h, n)[i] = b[Slot(n, i)]
    BY <2>1, RingSeqIs
  <2> QED BY <2>1, <2>2 DEF n
<1> HIDE DEF r, q, o
<1>5. r # <<>> /\ r[1] = b[t] /\ Head(r) = r[1]
  <2>1. 1 \in 1 .. o
    BY <1>2, <1>3
  <2>2. r # <<>>
    BY <1>2, <1>3
  <2> QED BY <1>1, <1>2, <2>1, <2>2
<1>6. /\ Tail(r) \in Seq(Event) /\ Len(Tail(r)) = o - 1
      /\ \A i \in 1 .. o - 1 : Tail(r)[i] = r[i + 1]
  BY <1>2, <1>5, HeadTailProperties
<1>7. ASSUME NEW i \in 1 .. o - 1 PROVE q[i] = Tail(r)[i]
  <2>1. i + 1 \in 1 .. o
    BY <1>2
  <2> QED BY <1>1, <1>2, <1>4, <1>6, <2>1
<1>8. q = Tail(r)
  BY <1>4, <1>6, <1>7, SeqEqual
<1> QED BY <1>5, <1>8 DEF r, q

LEMMA QueueStutters ==
  ASSUME UNCHANGED <<head, tail, buffer, lost>>, UNCHANGED (handled \o InHand), UNCHANGED Wedged
  PROVE  UNCHANGED Queue!vars
BY DEF Queue!vars, RingContents, Occupied

\* input.c, kmain: a step of the handler or of the loop is a step of the queue
\* or leaves it as it is.
LEMMA QueueStep ==
  ASSUME TypeOK, ControlInv, DecodeInv, StreamInv, [Next]_vars
  PROVE  [Queue!Next]_(Queue!vars)
<1>a. /\ buffer \in [Slots -> Event] /\ head \in Slots /\ tail \in Slots
      /\ irqEvent \in Event /\ event \in Event /\ handled \in Seq(Event) /\ lost \in Nat
  BY DEF TypeOK
<1>b. RingContents = RingSeq(buffer, head, tail) /\ RingContents' = RingSeq(buffer', head', tail')
  BY DEF RingContents, Occupied, RingSeq, Occ, Slot
<1> USE DEF device, ring, history, InHand, Wedged
<1>1. ASSUME NEW b \in Byte, KeyArrives(b) PROVE UNCHANGED Queue!vars
  BY <1>1, QueueStutters DEF KeyArrives, MainHolds
<1>2. CASE TakeIrq
  BY <1>2, QueueStutters DEF TakeIrq, MainHolds
<1>3. CASE ReadByte
  <2>1. /\ irq = "read" /\ irq' = "lock"
        /\ UNCHANGED <<head, tail, buffer, lost, handled, event, main>>
    BY <1>3 DEF ReadByte
  <2>2. CASE MainHolds
    <3>1. RingContents # <<>> \/ handled \o InHand # <<>>
      <4>1. CASE main \in {"take", "advance"}
        <5>1. head # tail
          BY <4>1 DEF ControlInv, PollNotStale
        <5> QED BY <1>a, <1>b, <5>1, RingPop
      <4>2. CASE main = "unlock"
        <5>1. handled \o <<event>> # <<>>
          BY <1>a
        <5> QED BY <4>2, <5>1
      <4> QED BY <2>2, <4>1, <4>2 DEF MainHolds
    <3>2. ~Wedged /\ Wedged'
      BY <2>1, <2>2 DEF MainHolds
    <3>3. UNCHANGED <<RingContents, handled \o InHand, lost>>
      BY <2>1 DEF RingContents, Occupied
    <3>4. Queue!Hang
      BY <3>1, <3>2, <3>3 DEF Queue!Hang
    <3> QED BY <3>4 DEF Queue!Next
  <2>3. CASE ~MainHolds
    BY <2>1, <2>3, QueueStutters DEF MainHolds
  <2> QED BY <2>2, <2>3
<1>4. CASE IrqLock
  <2>1. lock = 0 => ~MainHolds
    BY DEF ControlInv, LockDiscipline
  <2> QED BY <1>4, <2>1, QueueStutters DEF IrqLock, MainHolds
<1>5. CASE input_push_event
  <2>1. irq = "push" /\ irq' = "unlock" /\ UNCHANGED <<tail, handled, event, main>>
    BY <1>5 DEF input_push_event
  <2>2. ~Wedged /\ ~Wedged' /\ UNCHANGED (handled \o InHand)
    BY <2>1
  <2>3. CASE RingFull
    <3>1. lost' = lost + 1 /\ UNCHANGED <<buffer, head>>
      BY <1>5, <2>3 DEF input_push_event
    <3>2. Len(RingContents) = INPUT_BUFFER_SIZE - 1
      BY <1>a, <2>3, RingLimit, RingContentsIs DEF RingFull
    <3>3. UNCHANGED RingContents
      BY <1>b, <2>1, <3>1
    <3>4. Queue!Lose
      BY <2>2, <3>1, <3>2, <3>3 DEF Queue!Lose
    <3> QED BY <3>4 DEF Queue!Next
  <2>4. CASE ~RingFull
    <3>1. /\ buffer' = [buffer EXCEPT ![head] = irqEvent]
          /\ head' = NextSlot(head) /\ UNCHANGED lost
      BY <1>5, <2>4 DEF input_push_event
    <3>2. Len(RingContents) < INPUT_BUFFER_SIZE - 1
      BY <1>a, <2>4, RingLimit, RingContentsIs DEF RingFull
    <3>3. RingContents' = Append(RingContents, irqEvent)
      BY <1>a, <1>b, <2>1, <2>4, <3>1, RingPush DEF RingFull
    <3>4. Queue!Accept(irqEvent)
      BY <2>2, <3>1, <3>2, <3>3 DEF Queue!Accept
    <3> QED BY <1>a, <3>4 DEF Queue!Next
  <2> QED BY <2>3, <2>4
<1>6. CASE IrqUnlock
  BY <1>6, QueueStutters DEF IrqUnlock
<1>7. CASE Eoi
  BY <1>7, QueueStutters DEF Eoi
<1>8. CASE Poll
  BY <1>8, QueueStutters DEF Poll, MainRuns
<1>9. CASE MainLock
  BY <1>9, QueueStutters DEF MainLock, MainRuns
<1>10. CASE PopTake
  <2>1. main = "take" => head # tail
    BY DEF ControlInv, PollNotStale
  <2> QED BY <1>10, <2>1, QueueStutters DEF PopTake, MainRuns
<1>11. CASE PopAdvance
  <2>1. /\ main = "advance" /\ main' = "unlock" /\ irq = "none" /\ irq' = "none"
        /\ tail' = NextSlot(tail) /\ head # tail
        /\ UNCHANGED <<head, buffer, lost, handled, event>>
    BY <1>11 DEF PopAdvance, MainRuns, ControlInv, PollNotStale
  <2>2. event = buffer[tail]
    BY <2>1 DEF StreamInv
  <2>3. RingContents # <<>> /\ Head(RingContents) = event /\ RingContents' = Tail(RingContents)
    BY <1>a, <1>b, <2>1, <2>2, RingPop
  <2>4. (handled \o InHand)' = Append(handled \o InHand, event)
    <3>1. handled \o <<>> = handled /\ handled \o <<event>> = Append(handled, event)
      BY <1>a
    <3> QED BY <2>1, <3>1
  <2>5. Queue!Deliver
    BY <2>1, <2>3, <2>4 DEF Queue!Deliver
  <2> QED BY <2>5 DEF Queue!Next
<1>12. CASE MainUnlock
  BY <1>12, QueueStutters DEF MainUnlock, MainRuns
<1>13. CASE Handle
  <2>1. /\ main = "handle" /\ main' = "poll" /\ irq = "none" /\ irq' = "none"
        /\ handled' = Append(handled, event) /\ UNCHANGED <<head, tail, buffer, lost>>
    BY <1>13 DEF Handle, MainRuns
  <2>2. (handled \o InHand)' = handled \o InHand
    <3>1. handled \o <<event>> = Append(handled, event) /\ Append(handled, event) \o <<>> = Append(handled, event)
      BY <1>a
    <3> QED BY <2>1, <3>1
  <2> QED BY <2>1, <2>2, QueueStutters
<1>14. CASE UNCHANGED vars
  BY <1>14, QueueStutters DEF vars, MainHolds
<1> QED
  BY <1>1, <1>2, <1>3, <1>4, <1>5, <1>6, <1>7, <1>8, <1>9, <1>10, <1>11, <1>12, <1>13, <1>14
  DEF Next, IrqStep, MainStep

\* input.c, ps2kbd.c, kmain: the input layer implements the bounded queue that
\* loses an event only when it is full and delivers in order; it may hang, but
\* only once it has accepted something.  This is ImplementsQueue but for the
\* fairness of Deliver, which is liveness and stays with TLC.
THEOREM QueueIsImplemented == Spec => Queue!Init /\ [][Queue!Next]_(Queue!vars)
<1>1. Init => Queue!Init
  <2> SUFFICES ASSUME Init PROVE Queue!Init
    OBVIOUS
  <2>1. head = tail /\ head \in Slots /\ tail \in Slots
    BY InputAssumption DEF Init, Slots
  <2>2. Occ(head, tail) = 0
    BY <2>1, OccIs
  <2>3. RingContents = <<>>
    BY <2>2 DEF RingContents, Occupied, Occ
  <2>4. handled \o InHand = <<>> /\ lost = 0 /\ ~Wedged
    BY DEF Init, InHand, Wedged
  <2> QED BY <2>3, <2>4 DEF Queue!Init
<1>2. TypeOK /\ ControlInv /\ DecodeInv /\ StreamInv /\ [Next]_vars => [Queue!Next]_(Queue!vars)
  BY QueueStep
<1> QED
  BY <1>1, <1>2, TypeCorrect, ControlInvariant, DecodeAlways, StreamAlways, PTL DEF Spec

-----------------------------------------------------------------------------
(* The composition: Console takes the steps of Input, and passes the events  *)
(* to the terminal.                                                          *)

\* kmain, tty.c: whatever the terminal does with a key, the running kernel
\* moves the keys as Input does, under the same fairness; so everything
\* proved of Input holds of the kernel.
THEOREM ConsoleIsInput == ConsoleSpec => Spec
<1>1. ConsoleInit => Init
  BY DEF ConsoleInit
<1>2. [ConsoleNext]_consoleVars => [Next]_vars
  BY DEF ConsoleNext, consoleVars, Loop, Handler, Keyboard, HandleKey, Next, MainStep
<1> QED BY <1>1, <1>2, PTL DEF ConsoleSpec, Spec

(* The terminal of Console is that of module TtyProofs, name by name. *)
TP == INSTANCE TtyProofs WITH
       buffer <- lineBuffer, typed <- chars, NUL <- NulChar,
       KeyChars <- {KeyChar[a] : a \in Ascii}

LEMMA PutSame == ASSUME NEW d, NEW c, NEW h PROVE T!PutChar(d, c, h) = TP!PutChar(d, c, h)
BY DEF T!PutChar, TP!PutChar, T!ScrollIf, TP!ScrollIf, T!Wrap, TP!Wrap, T!Place, TP!Place, T!Scroll, TP!Scroll,
  T!NewRow, TP!NewRow, T!Draw, TP!Draw, T!At, TP!At, T!BlankRow, TP!BlankRow, T!Cols, TP!Cols
LEMMA WriteSame == ASSUME NEW d, NEW s, NEW h PROVE T!Write(d, s, h) = TP!Write(d, s, h)
BY PutSame DEF T!Write, TP!Write
LEMMA TtyHolds == TP!TtyAssumption
BY TerminalAssumption DEF T!TtyAssumption, TP!TtyAssumption, T!Special, TP!Special, T!Text, TP!Text
LEMMA KeySame ==
  ASSUME NEW c \in {KeyChar[a] : a \in Ascii}, T!tty_handle_keypress(c)
  PROVE TP!tty_handle_keypress(c)
<1>1. ASSUME NEW d, NEW s PROVE T!tty_write(d, s) = TP!tty_write(d, s)
  BY WriteSame DEF T!tty_write, TP!tty_write
<1>2. T!Enter => TP!Enter
  <2>1. T!CString(T!Terminated) = TP!CString(TP!Terminated)
    BY DEF T!CString, TP!CString, T!strlen, TP!strlen, T!Terminated, TP!Terminated, T!IsFull, TP!IsFull
  <2>2. T!PosAfter = TP!PosAfter
    BY DEF T!PosAfter, TP!PosAfter, T!IsFull, TP!IsFull
  <2>3. ASSUME NEW l PROVE T!Clears(l) = TP!Clears(l) /\ T!Reply(l) = TP!Reply(l)
    BY DEF T!Clears, TP!Clears, T!Reply, TP!Reply, T!IsEcho, TP!IsEcho, T!IsPrefix, TP!IsPrefix
  <2>4. ASSUME NEW h PROVE T!Cleared(h) = TP!Cleared(h)
    BY DEF T!Cleared, TP!Cleared, T!BlankRow, TP!BlankRow, T!At, TP!At, T!Cols, TP!Cols
  <2>5. T!EmptyBuffer = TP!EmptyBuffer
    BY DEF T!EmptyBuffer, TP!EmptyBuffer, T!Index, TP!Index
  <2> QED BY <1>1, <2>1, <2>2, <2>3, <2>4, <2>5 DEF T!Enter, TP!Enter
<1>3. T!Erase => TP!Erase
  BY <1>1 DEF T!Erase, TP!Erase
<1>4. T!Insert(c) => TP!Insert(c)
  BY <1>1 DEF T!Insert, TP!Insert
<1> QED BY <1>2, <1>3, <1>4 DEF T!tty_handle_keypress, TP!tty_handle_keypress, T!vars, TP!vars

-----------------------------------------------------------------------------
(* The reference editor of Console. *)

EditState == [line : Seq(Char), run : Seq(Seq(Char))]
Unedited  == [line |-> <<>>, run |-> <<>>]

\* at[i] is the editor after the first i characters of cs.
Editing(at, cs) ==
  /\ at \in [0 .. Len(cs) -> EditState]
  /\ at[0] = Unedited
  /\ \A i \in 1 .. Len(cs) : at[i] = Edited(at[i - 1], cs[i])

LEMMA EditedType ==
  ASSUME NEW s \in EditState, NEW c \in Char
  PROVE  Edited(s, c) \in EditState
<1> DEFINE l == s.line
           r == s.run
<1>1. l \in Seq(Char) /\ r \in Seq(Seq(Char)) /\ s = [line |-> l, run |-> r]
  BY DEF EditState
<1>2. /\ <<>> \in Seq(Char) /\ Append(l, c) \in Seq(Char) /\ Append(r, l) \in Seq(Seq(Char))
      /\ l # <<>> => Front(l) \in Seq(Char)
  BY <1>1 DEF Front
<1> HIDE DEF l, r
<1>3. /\ s.line = l /\ s.run = r
      /\ \A new : [s EXCEPT !.line = new] = [line |-> new, run |-> r]
  BY <1>1
<1> QED BY <1>1, <1>2, <1>3 DEF Edited, EditState

LEMMA LinesIs ==
  ASSUME NEW cs \in Seq(Char)
  PROVE  \E at : Editing(at, cs) /\ Lines(cs) = at[Len(cs)]
<1> DEFINE n == Len(cs)
           P(at) == at = [i \in 0 .. n |-> IF i = 0 THEN Unedited ELSE Edited(at[i - 1], cs[i])]
           g == CHOOSE at : P(at)
           step == [x \in (1 .. n) \X EditState |-> Edited(x[2], cs[x[1]])]
           D == {i \in Nat : i <= n => g[i] \in EditState}
<1>1. n \in Nat /\ \A i \in 1 .. n : cs[i] \in Char
  OBVIOUS
<1>2. Unedited \in EditState
  BY DEF Unedited, EditState
<1>3. ASSUME NEW i \in 1 .. n, NEW s \in EditState
      PROVE  Edited(s, cs[i]) \in EditState
  BY <1>1, EditedType
<1>4. \E at : P(at)
  <2>1. PICK at \in [0 .. n -> EditState] : Recursion(at, n, Unedited, step)
    <3>1. step \in [(1 .. n) \X EditState -> EditState]
      BY <1>3
    <3>2. n \in Nat
      OBVIOUS
    <3> HIDE DEF step, n, g, D, P
    <3> QED BY <1>2, <3>1, <3>2, RecExists
  <2>2. ASSUME NEW i \in 0 .. n
        PROVE  at[i] = IF i = 0 THEN Unedited ELSE Edited(at[i - 1], cs[i])
    <3>1. CASE i = 0
      BY <2>1, <3>1 DEF Recursion
    <3>2. CASE i # 0
      <4>1. <<i, at[i - 1]>> \in (1 .. n) \X EditState
        BY <2>1, <3>2
      <4> QED BY <2>1, <3>2, <4>1 DEF Recursion
    <3> QED BY <3>1, <3>2
  <2>3. P(at)
    <3> HIDE DEF step, n
    <3> QED BY <2>1, <2>2
  <2> QED BY <2>3
<1>5. P(g)
  <2> HIDE DEF P
  <2> QED BY <1>4
<1>6. Lines(cs) = g[n]
  BY DEF Lines, Unedited
<1> HIDE DEF g, n, step
<1>7. 0 \in D
  BY <1>1, <1>2, <1>5
<1>8. ASSUME NEW i \in Nat, i \in D PROVE i + 1 \in D
  <2> SUFFICES ASSUME i + 1 <= n PROVE g[i + 1] \in EditState
    OBVIOUS
  <2>1. g[i] \in EditState /\ i + 1 \in 1 .. n /\ i + 1 \in 0 .. n
    BY <1>1, <1>8
  <2>2. g[i + 1] = Edited(g[i], cs[i + 1])
    BY <1>1, <1>5, <2>1
  <2> QED BY <1>3, <2>1, <2>2
<1>9. \A i \in Nat : i \in D
  <2> HIDE DEF D
  <2> QED BY <1>7, <1>8, NatInd
<1>10. Editing(g, cs)
  <2>1. g \in [0 .. n -> EditState] /\ g[0] = Unedited
    BY <1>1, <1>5, <1>9
  <2>2. \A i \in 1 .. n : g[i] = Edited(g[i - 1], cs[i])
    BY <1>1, <1>5
  <2> QED BY <2>1, <2>2 DEF Editing, n
<1> QED BY <1>6, <1>10 DEF n

LEMMA LinesEmpty == Lines(<<>>) = Unedited
<1>1. <<>> \in Seq(Char) /\ Len(<<>>) = 0
  OBVIOUS
<1> QED BY <1>1, LinesIs DEF Editing

\* One character more.
LEMMA LinesAppend ==
  ASSUME NEW cs \in Seq(Char), NEW c \in Char
  PROVE  Lines(Append(cs, c)) = Edited(Lines(cs), c)
<1> DEFINE n == Len(cs)
           ds == Append(cs, c)
<1>1. /\ n \in Nat /\ ds \in Seq(Char) /\ Len(ds) = n + 1 /\ ds[n + 1] = c
      /\ \A i \in 1 .. n : ds[i] = cs[i]
  OBVIOUS
<1>2. PICK a : Editing(a, cs) /\ Lines(cs) = a[n]
  BY LinesIs
<1>3. PICK b : Editing(b, ds) /\ Lines(ds) = b[n + 1]
  BY <1>1, LinesIs
<1> HIDE DEF ds
<1> DEFINE D == {i \in Nat : i <= n => a[i] = b[i]}
<1>4. 0 \in D
  BY <1>2, <1>3 DEF Editing
<1>5. ASSUME NEW i \in Nat, i \in D PROVE i + 1 \in D
  <2> SUFFICES ASSUME i + 1 <= n PROVE a[i + 1] = b[i + 1]
    OBVIOUS
  <2>1. i + 1 \in 1 .. n /\ i + 1 \in 1 .. Len(ds) /\ (i + 1) - 1 = i
    BY <1>1
  <2>2. a[i] = b[i] /\ cs[i + 1] = ds[i + 1]
    BY <1>1, <1>5, <2>1
  <2>3. a[i + 1] = Edited(a[i], cs[i + 1])
    BY <1>2, <2>1 DEF Editing
  <2>4. b[i + 1] = Edited(b[i], ds[i + 1])
    BY <1>3, <2>1 DEF Editing
  <2> QED BY <2>2, <2>3, <2>4
<1>6. \A i \in Nat : i \in D
  <2> HIDE DEF D
  <2> QED BY <1>4, <1>5, NatInd
<1>7. a[n] = b[n]
  BY <1>1, <1>6
<1>8. b[n + 1] = Edited(b[n], c)
  <2>1. n + 1 \in 1 .. Len(ds) /\ (n + 1) - 1 = n
    BY <1>1
  <2> QED BY <1>1, <1>3, <2>1 DEF Editing
<1> QED BY <1>2, <1>3, <1>7, <1>8 DEF ds

-----------------------------------------------------------------------------
(* The terminal is the reference editor over the keys it was given. *)

HandledChars == [i \in 1 .. Len(handled) |-> KeyChar[handled[i].ascii]]

TerminalInv ==
  /\ TP!LineInv
  /\ Lines(HandledChars) = [line |-> TP!line, run |-> executed]

LEMMA EventChar ==
  ASSUME NEW e \in Event
  PROVE  Passed(e) \in {KeyChar[a] : a \in Ascii} /\ Passed(e) \in Char
BY ConsoleAssumption DEF Event, Passed

LEMMA HandledCharsType ==
  ASSUME TypeOK
  PROVE  HandledChars \in Seq(Char) /\ Len(HandledChars) = Len(handled)
<1> DEFINE n == Len(handled)
<1>1. n \in Nat /\ \A i \in 1 .. n : handled[i] \in Event
  BY DEF TypeOK
<1> HIDE DEF n
<1>2. \A i \in 1 .. n : KeyChar[handled[i].ascii] \in Char
  BY <1>1, EventChar DEF Passed
<1>3. HandledChars = [i \in 1 .. n |-> KeyChar[handled[i].ascii]]
  BY DEF HandledChars, n
<1> QED BY <1>1, <1>2, <1>3 DEF n

LEMMA TerminalStart == ConsoleInit => TerminalInv
<1> SUFFICES ASSUME ConsoleInit PROVE TerminalInv
  OBVIOUS
<1>1. TP!LineInv /\ TP!line = <<>> /\ executed = <<>>
  <2>1. lineBuffer = TP!EmptyBuffer /\ buf_pos = 0 /\ executed = <<>>
    BY DEF ConsoleInit, T!Init, T!EmptyBuffer, TP!EmptyBuffer, T!Index, TP!Index
  <2> QED BY <2>1, TtyHolds DEF TP!LineInv, TP!EmptyBuffer, TP!Index, TP!line, TP!TtyAssumption, TP!Special
<1>2. HandledChars = <<>>
  BY DEF ConsoleInit, Init, HandledChars
<1> QED BY <1>1, <1>2, LinesEmpty DEF TerminalInv, Unedited

LEMMA TerminalStep ==
  ASSUME TypeOK, TerminalInv, [ConsoleNext]_consoleVars
  PROVE  TerminalInv'
<1>1. CASE UNCHANGED <<terminal, handled>>
  BY <1>1 DEF TerminalInv, terminal, TP!LineInv, TP!line, HandledChars
<1>2. ASSUME HandleKey PROVE TerminalInv'
  <2> DEFINE s == [line |-> TP!line, run |-> executed]
  <2>0. PICK c \in {KeyChar[a] : a \in Ascii} : c = Passed(event) /\ c \in Char
    BY EventChar DEF TypeOK
  <2>1. c \in {KeyChar[a] : a \in Ascii} /\ c \in Char
    BY <2>0
  <2>2. TP!tty_handle_keypress(c)
    BY <1>2, <2>0, KeySame DEF HandleKey
  <2>3. /\ TP!LineInv'
        /\ c = NulChar => TP!line' = TP!line /\ executed' = executed
        /\ c = NewLine => TP!EnterLine(TP!line, TP!line', executed, executed')
        /\ c = BackSpace => TP!EraseLine(TP!line, TP!line') /\ executed' = executed
        /\ c \notin {NulChar, NewLine, BackSpace} =>
              TP!InsertLine(TP!line, TP!line', c) /\ executed' = executed
    <3>1. TP!LineInv
      BY DEF TerminalInv
    <3> QED BY <2>1, <2>2, <3>1, TtyHolds, TP!KeyOnLine
  <2>4. [line |-> TP!line', run |-> executed'] = Edited(s, c)
    <3>1. NulChar \notin {NewLine, BackSpace} /\ NewLine # BackSpace
      BY TtyHolds DEF TP!TtyAssumption
    <3> QED BY <2>3, <3>1 DEF Edited, Front, TP!EnterLine, TP!EraseLine, TP!InsertLine
  <2>5. HandledChars' = Append(HandledChars, c)
    <3>1. handled' = Append(handled, event) /\ handled \in Seq(Event) /\ event \in Event
      BY <1>2 DEF HandleKey, Handle, TypeOK
    <3> DEFINE n == Len(handled)
    <3>2. /\ n \in Nat /\ Len(handled') = n + 1 /\ handled'[n + 1] = event
          /\ \A i \in 1 .. n : handled'[i] = handled[i]
      BY <3>1
    <3>3. HandledChars' = [i \in 1 .. n + 1 |-> KeyChar[handled'[i].ascii]]
      BY <3>2 DEF HandledChars
    <3>4. /\ HandledChars \in Seq(Char) /\ Len(HandledChars) = n
          /\ \A i \in 1 .. n : HandledChars[i] = KeyChar[handled[i].ascii]
      BY HandledCharsType DEF HandledChars
    <3> DEFINE h == HandledChars
    <3>5. h \in Seq(Char) /\ Len(h) = n
      BY <3>4
    <3>6. \A i \in 1 .. n + 1 : KeyChar[handled'[i].ascii] = IF i = n + 1 THEN c ELSE h[i]
      BY <2>0, <3>2, <3>4 DEF Passed
    <3> HIDE DEF n, h
    <3>7. Append(h, c) = [i \in 1 .. n + 1 |-> IF i = n + 1 THEN c ELSE h[i]]
      BY <3>2, <3>5, <2>1, Appended
    <3> QED BY <3>3, <3>6, <3>7 DEF h
  <2>6. Lines(HandledChars') = Edited(Lines(HandledChars), c)
    <3> QED BY <2>1, <2>5, HandledCharsType, LinesAppend
  <2> QED BY <2>3, <2>4, <2>6 DEF TerminalInv
<1> QED
  BY <1>1, <1>2 DEF ConsoleNext, Loop, Handler, Keyboard, consoleVars, vars, history, IrqStep,
     TakeIrq, ReadByte, IrqLock, input_push_event, IrqUnlock, Eoi,
     KeyArrives, Poll, MainLock, PopTake, PopAdvance, MainUnlock

\* tty.c, input.c, ps2kbd.c: for every ring, line buffer, key map and typing,
\* and whatever the interrupts do, the commands that have run are the lines of
\* the accepted keys as they were typed, each once and in order; only a line as
\* long as the buffer is missing.
THEOREM CommandsTyped == ConsoleSpec => []CommandsAsTyped
<1>1. TypeOK /\ TerminalInv /\ [ConsoleNext]_consoleVars => TerminalInv'
  BY TerminalStep
<1>2. TypeOK /\ DecodeInv /\ StreamInv /\ TerminalInv => CommandsAsTyped
  <2> SUFFICES ASSUME TypeOK, DecodeInv, StreamInv, TerminalInv PROVE CommandsAsTyped
    OBVIOUS
  <2> DEFINE n == Len(handled)
  <2>1. n \in Nat /\ n <= Len(accepted) /\ Len(accepted) \in Nat
    BY StreamTypes DEF StreamInv
  <2>2. \A i \in 1 .. n : handled[i] = EventOf(accepted[i])
    BY <2>1, EventOfIs DEF StreamInv
  <2>3. TypedChars(n) = HandledChars
    BY <2>2 DEF TypedChars, HandledChars
  <2> QED BY <2>3 DEF CommandsAsTyped, TerminalInv
<1> QED
  BY <1>1, <1>2, TerminalStart, ConsoleIsInput, TypeCorrect, DecodeAlways, StreamAlways, PTL
     DEF ConsoleSpec
=============================================================================
