---------------------------- MODULE PciScanProofs ----------------------------
(* Proofs about module PciScan, for every number of buses, slots and        *)
(* functions, every size of the boot stack and every configuration space.   *)
EXTENDS PciScan, SequenceTheorems, TLAPS

Calls  == DOMAIN stack
Logged == {listed[i] : i \in DOMAIN listed}

FrameType == [bus : Bus, device : 0 .. Slots, function : Func]

\* A call that is past function 0 is at a device that has more of them.
AtFunction(f) ==
  f.function # 0 => /\ f.device \in Slot
                    /\ config[<<f.bus, f.device, 0>>].present
                    /\ config[<<f.bus, f.device, 0>>].multi

Types ==
  /\ config \in Machines /\ host \in 0 .. Funcs
  /\ stack \in Seq(FrameType) /\ listed \in Seq(Function) /\ overrun \in BOOLEAN
  /\ Single => host = Funcs
  /\ overrun => stack # <<>>
  /\ \A i \in Calls : AtFunction(stack[i])

(* The inductive invariant. *)

\* Every call walks a bus behind the host bridge.
Sound ==
  /\ \A i \in Calls : stack[i].bus \in Reachable
  /\ Logged \subseteq Enumerable

\* A call on numbered buses is on a higher bus than the one that made it.
Deep ==
  /\ Ascending => \A i \in Calls : /\ i - 1 <= stack[i].bus
                                   /\ \A j \in Calls : i < j => stack[i].bus < stack[j].bus
  /\ overrun => ~Ascending \/ StackDepth < Buses

\* A bus was entered from the host controller or through a bridge logged.
Caused(b) ==
  \/ b \in Roots /\ b < host
  \/ \E y \in Logged : Bridge(y) /\ config[y].secondary = b

Before(x, f) == x[2] < f.device \/ (x[2] = f.device /\ x[3] < f.function)

Once ==
  Ascending /\ Tree =>
    /\ \A i, j \in DOMAIN listed : listed[i] = listed[j] => i = j
    /\ \A x \in Logged : Caused(x[1])
    /\ \A i \in Calls : Caused(stack[i].bus)
    /\ \A i \in Calls : \A x \in Logged : x[1] = stack[i].bus => Before(x, stack[i])

\* A bus that was entered is being walked, or has been.
Walked(b) == Visible(b) \subseteq Logged \/ \E i \in Calls : stack[i].bus = b

Complete ==
  /\ \A i \in Calls : \A x \in Visible(stack[i].bus) : Before(x, stack[i]) => x \in Logged
  /\ ~overrun => \A x \in Logged : Bridge(x) => Walked(config[x].secondary)
  /\ NoGap => \A r \in Roots : r < host => Walked(r)

ScanInv == Types /\ Sound /\ Deep /\ Once /\ Complete

-----------------------------------------------------------------------------
LEMMA SizeFacts ==
  /\ Buses \in Nat \ {0} /\ Slots \in Nat \ {0} /\ Funcs \in Nat \ {0} /\ Funcs <= Buses
  /\ StackDepth \in Nat \ {0}
  /\ 0 \in Bus /\ 0 \in Func /\ 0 \in 0 .. Slots
  /\ \A n \in Nat : n < Funcs => n \in Bus /\ n \in Func
BY PciAssumption DEF Bus, Func

LEMMA ConfigType ==
  ASSUME config \in Machines, NEW x \in Function
  PROVE  config[x] \in Answer /\ config[x].secondary \in Bus
BY PciAssumption DEF Answer

LEMMA PlaceType ==
  ASSUME NEW f \in FrameType, f.device # Slots
  PROVE  /\ Place(f) \in Function /\ f.device \in Slot
         /\ Place(f)[1] = f.bus /\ Place(f)[2] = f.device /\ Place(f)[3] = f.function
BY SizeFacts DEF FrameType, Place, Function, Slot

LEMMA AfterType ==
  ASSUME NEW f \in FrameType, f.device # Slots
  PROVE  After(f) \in FrameType /\ After(f).bus = f.bus /\ AtFunction(After(f))
<1>1. f.device \in Nat /\ f.device + 1 \in 0 .. Slots /\ f.function + 1 \in Nat \ {0} /\ f.device \in Slot
  BY SizeFacts DEF FrameType, Func, Slot
<1>2. CASE More(f.bus, f.device, f.function + 1)
  <2>1. After(f) = [f EXCEPT !.function = @ + 1] /\ f.function + 1 \in Func
    BY <1>1, <1>2, SizeFacts DEF After, More
  <2> QED BY <1>1, <1>2, <2>1 DEF FrameType, AtFunction, More
<1>3. CASE ~More(f.bus, f.device, f.function + 1)
  <2>1. After(f) = [f EXCEPT !.device = @ + 1, !.function = 0]
    BY <1>3 DEF After
  <2> QED BY <1>1, <2>1, SizeFacts DEF FrameType, AtFunction
<1> QED BY <1>2, <1>3

\* Going on to the next function passes the one looked at, and no other that
\* is visible.
LEMMA AfterPasses ==
  ASSUME config \in Machines, NEW f \in FrameType, f.device # Slots
  PROVE  /\ Before(Place(f), After(f)) /\ ~Before(Place(f), f)
         /\ \A x \in Function : Before(x, f) => Before(x, After(f))
         /\ \A x \in Visible(f.bus) : Before(x, After(f)) => Before(x, f) \/ x = Place(f)
<1>1. /\ f.device \in Nat /\ f.function \in Nat
      /\ \A x \in Function : x[1] \in Nat /\ x[2] \in Nat /\ x[3] \in Nat /\ x[3] < Funcs /\ x = <<x[1], x[2], x[3]>>
  BY SizeFacts DEF FrameType, Func, Slot, Bus, Function
<1>2. \A x \in Visible(f.bus) : /\ x \in Function /\ x[1] = f.bus
                                /\ x[3] # 0 => config[<<f.bus, x[2], 0>>].present /\ config[<<f.bus, x[2], 0>>].multi
  BY DEF Visible, Function, FrameType
<1>3. Place(f) = <<f.bus, f.device, f.function>>
  BY DEF Place
<1>4. CASE More(f.bus, f.device, f.function + 1)
  <2>1. After(f).device = f.device /\ After(f).function = f.function + 1
    BY <1>4 DEF After, FrameType
  <2>2. ASSUME NEW x \in Visible(f.bus), Before(x, After(f)) PROVE Before(x, f) \/ x = Place(f)
    <3>1. x \in Function /\ x[1] = f.bus /\ x[2] \in Nat /\ x[3] \in Nat /\ x = <<x[1], x[2], x[3]>>
      BY <1>1, <1>2, <2>2
    <3> QED BY <1>1, <1>3, <2>1, <2>2, <3>1 DEF Before
  <2>3. \A x \in Function : Before(x, f) => Before(x, After(f))
    BY <1>1, <2>1 DEF Before
  <2> QED BY <1>1, <1>3, <2>1, <2>2, <2>3 DEF Before
<1>5. CASE ~More(f.bus, f.device, f.function + 1)
  <2>1. After(f).device = f.device + 1 /\ After(f).function = 0
    BY <1>5 DEF After, FrameType
  <2>2. ASSUME NEW x \in Visible(f.bus), Before(x, After(f)) PROVE Before(x, f) \/ x = Place(f)
    <3>1. x \in Function /\ x[1] = f.bus /\ x[2] \in Nat /\ x[3] \in Nat /\ x[3] < Funcs /\ x = <<x[1], x[2], x[3]>>
      BY <1>1, <1>2, <2>2
    <3>2. x[2] < f.device \/ x[2] = f.device
      BY <1>1, <2>1, <2>2, <3>1 DEF Before
    <3>3. ASSUME x[2] = f.device, f.function < x[3] PROVE FALSE
      <4>1. x[3] # 0 /\ f.function + 1 < Funcs
        BY <1>1, <3>1, <3>3, SizeFacts
      <4> QED BY <1>2, <1>5, <2>2, <3>3, <4>1 DEF More
    <3> QED BY <1>1, <1>3, <3>1, <3>2, <3>3 DEF Before
  <2> QED BY <1>1, <1>3, <2>1, <2>2 DEF Before
<1> QED BY <1>4, <1>5

-----------------------------------------------------------------------------
(* What the steps do to the stack and to the log. *)

LEMMA Appended ==
  ASSUME NEW S, NEW s \in Seq(S), NEW e \in S
  PROVE  /\ Append(s, e) \in Seq(S) /\ Len(Append(s, e)) = Len(s) + 1 /\ Len(s) \in Nat
         /\ DOMAIN s = 1 .. Len(s) /\ DOMAIN Append(s, e) = 1 .. Len(s) + 1
         /\ \A i \in 1 .. Len(s) : Append(s, e)[i] = s[i]
         /\ Append(s, e)[Len(s) + 1] = e
OBVIOUS

\* The calls are the m before and one more on bus b.
Pushed(m, b) ==
  /\ Len(stack') = m + 1 /\ DOMAIN stack' = 1 .. m + 1
  /\ stack'[m + 1] = Frame(b)

LEMMA TopFacts ==
  ASSUME Types, stack # <<>>
  PROVE  LET m == Len(stack)
         IN  /\ m \in Nat \ {0} /\ m \in Calls /\ Calls = 1 .. m
             /\ Top = stack[m] /\ Top \in FrameType
BY DEF Types, Top, Calls

Injective(s) == \A i, j \in DOMAIN s : s[i] = s[j] => i = j

Looked(m, x) ==
  /\ stack' \in Seq(FrameType) /\ listed' \in Seq(Function) /\ ~overrun /\ overrun' \in BOOLEAN
  /\ Top.device # Slots
  /\ Logged' = IF config[x].present THEN Logged \cup {x} ELSE Logged
  /\ \A i \in 1 .. m - 1 : stack'[i] = stack[i]
  /\ stack'[m] = After(Top)
  /\ Bridge(x) /\ ~overrun' => Pushed(m, config[x].secondary)
  /\ ~(Bridge(x) /\ ~overrun') => Len(stack') = m /\ DOMAIN stack' = 1 .. m
  /\ overrun' <=> Bridge(x) /\ m >= StackDepth
  /\ Injective(listed) /\ x \notin Logged => Injective(listed')

LEMMA LookFacts ==
  ASSUME Types, Look
  PROVE  Looked(Len(stack), Place(Top))
<1> DEFINE m == Len(stack)
           x == Place(Top)
<1>1. /\ stack # <<>> /\ Top.device < Slots /\ ~overrun
      /\ listed' = IF Here.present THEN Append(listed, Place(Top)) ELSE listed
      /\ overrun' = (Bridge(x) /\ m >= StackDepth)
      /\ stack' = IF Bridge(x) /\ ~overrun' THEN Append(Advanced, Frame(Secondary(x))) ELSE Advanced
  BY DEF Look
<1>2. m \in Nat \ {0} /\ m \in 1 .. m /\ Top = stack[m] /\ Top \in FrameType /\ stack \in Seq(FrameType)
  BY <1>1, TopFacts DEF Types, Calls
<1>3. Top.device # Slots
  BY <1>1, <1>2, SizeFacts DEF FrameType
<1>4. x \in Function /\ After(Top) \in FrameType /\ Frame(config[x].secondary) \in FrameType
  <2>1. x \in Function
    BY <1>2, <1>3, PlaceType
  <2>2. config[x].secondary \in Bus
    BY <2>1, ConfigType DEF Types
  <2>3. After(Top) \in FrameType
    BY <1>2, <1>3, AfterType
  <2> QED BY <2>1, <2>2, <2>3, SizeFacts DEF Frame, FrameType
<1>5. /\ Advanced \in Seq(FrameType) /\ Len(Advanced) = m /\ DOMAIN Advanced = 1 .. m
      /\ \A i \in 1 .. m : Advanced[i] = IF i = m THEN After(Top) ELSE stack[i]
  <2>1. Advanced = [stack EXCEPT ![m] = After(Top)]
    BY DEF Advanced
  <2>2. /\ Advanced \in Seq(FrameType) /\ Len(Advanced) = m
        /\ \A i \in 1 .. m : Advanced[i] = IF i = m THEN After(Top) ELSE stack[i]
    BY <1>2, <1>4, <2>1, ExceptSeq
  <2> QED BY <2>2
<1>6. /\ Logged' = IF config[x].present THEN Logged \cup {x} ELSE Logged
      /\ Injective(listed) /\ x \notin Logged => Injective(listed')
  <2>1. CASE config[x].present
    <3>1. listed' = Append(listed, x) /\ listed \in Seq(Function)
      BY <1>1, <2>1 DEF Here, Types
    <3>2. /\ Len(listed) \in Nat /\ DOMAIN listed = 1 .. Len(listed) /\ DOMAIN listed' = 1 .. Len(listed) + 1
          /\ \A i \in 1 .. Len(listed) : listed'[i] = listed[i]
          /\ listed'[Len(listed) + 1] = x
      BY <1>4, <3>1, Appended
    <3>3. Logged' = Logged \cup {x}
      BY <3>2 DEF Logged
    <3>4. ASSUME Injective(listed), x \notin Logged, NEW i \in DOMAIN listed', NEW j \in DOMAIN listed',
                 listed'[i] = listed'[j]
          PROVE  i = j
      <4>1. i = Len(listed) + 1 \/ i \in 1 .. Len(listed)
        BY <3>2, <3>4
      <4>2. j = Len(listed) + 1 \/ j \in 1 .. Len(listed)
        BY <3>2, <3>4
      <4>3. \A k \in 1 .. Len(listed) : listed[k] # x
        BY <3>2, <3>4 DEF Logged
      <4> QED BY <3>2, <3>4, <4>1, <4>2, <4>3 DEF Injective
    <3> QED BY <2>1, <3>3, <3>4 DEF Injective
  <2>2. CASE ~config[x].present
    BY <1>1, <2>2 DEF Here, Logged
  <2> QED BY <2>1, <2>2
<1>7. listed' \in Seq(Function)
  BY <1>1, <1>4 DEF Types
<1>8. overrun' \in BOOLEAN /\ (overrun' <=> Bridge(x) /\ m >= StackDepth)
  BY <1>1
<1>9. CASE Bridge(x) /\ ~overrun'
  <2>1. stack' = Append(Advanced, Frame(config[x].secondary))
    BY <1>1, <1>9 DEF Secondary
  <2> HIDE DEF Advanced, m, x
  <2>2. /\ stack' \in Seq(FrameType) /\ Len(stack') = m + 1 /\ DOMAIN stack' = 1 .. m + 1
        /\ \A i \in 1 .. m : stack'[i] = Advanced[i]
        /\ stack'[m + 1] = Frame(config[x].secondary)
    BY <1>4, <1>5, <2>1, Appended
  <2>3. \A i \in 1 .. m - 1 : stack'[i] = stack[i]
    <3>1. \A i \in 1 .. m - 1 : i \in 1 .. m /\ i # m
      BY <1>2
    <3> QED BY <1>2, <1>5, <2>2, <3>1
  <2>4. stack'[m] = After(Top)
    BY <1>2, <1>5, <2>2
  <2> HIDE DEF m, x
  <2> QED BY <1>1, <1>3, <1>6, <1>7, <1>8, <1>9, <2>2, <2>3, <2>4 DEF Looked, Pushed, m, x
<1>10. CASE ~(Bridge(x) /\ ~overrun')
  <2>1. stack' = Advanced
    BY <1>1, <1>10
  <2>2. \A i \in 1 .. m - 1 : stack'[i] = stack[i]
    BY <1>2, <1>5, <2>1
  <2>3. stack'[m] = After(Top) /\ Len(stack') = m /\ DOMAIN stack' = 1 .. m /\ stack' \in Seq(FrameType)
    BY <1>2, <1>5, <2>1
  <2> HIDE DEF m, x
  <2> QED BY <1>1, <1>3, <1>6, <1>7, <1>8, <1>10, <2>2, <2>3 DEF Looked, m, x
<1> QED BY <1>9, <1>10

Returned(m) ==
  /\ stack' \in Seq(FrameType) /\ Len(stack') = m - 1 /\ DOMAIN stack' = 1 .. m - 1
  /\ \A i \in 1 .. m - 1 : stack'[i] = stack[i]

LEMMA ReturnFacts ==
  ASSUME Types, Return
  PROVE  Returned(Len(stack))
<1> DEFINE m == Len(stack)
<1>1. stack # <<>> /\ stack' = SubSeq(stack, 1, m - 1)
  BY DEF Return
<1>2. /\ m \in Nat \ {0} /\ m - 1 \in Nat /\ 1 \in Int /\ stack \in Seq(FrameType)
      /\ \A i \in 1 .. m - 1 : stack[i] \in FrameType
  BY <1>1, TopFacts DEF Types, Calls
<1>3. /\ stack' \in Seq(FrameType) /\ Len(stack') = (IF 1 <= m - 1 THEN m - 1 - 1 + 1 ELSE 0)
      /\ \A i \in 1 .. m - 1 - 1 + 1 : stack'[i] = stack[1 + i - 1]
  BY <1>1, <1>2, SubSeqProperties
<1> HIDE DEF m
<1>4. Len(stack') = m - 1 /\ \A i \in 1 .. m - 1 : stack'[i] = stack[i]
  BY <1>2, <1>3
<1> QED BY <1>3, <1>4 DEF Returned, m

HostFound(r) == r \in Roots /\ r \in Bus /\ stack' = <<Frame(r)>> /\ host' = r + 1
HostEnds     == host' = Funcs /\ stack' = <<>> /\ ~Single /\ host \notin Roots

LEMMA NextHostFacts ==
  ASSUME Types, NextHost
  PROVE  /\ stack = <<>> /\ overrun = FALSE /\ overrun' = overrun /\ listed' = listed
         /\ host \in Nat /\ host < Funcs
         /\ HostFound(host) \/ HostEnds
<1>1. /\ stack = <<>> /\ host < Funcs /\ overrun' = overrun /\ listed' = listed /\ host \in Nat
      /\ overrun = FALSE /\ ~Single
  <2>1. ~Single
    BY SizeFacts DEF NextHost, Types
  <2> QED BY <2>1, SizeFacts DEF NextHost, Types
<1>2. host \in Func /\ host \in Bus
  BY <1>1, SizeFacts
<1>3. CASE config[<<0, 0, host>>].present
  BY <1>1, <1>2, <1>3 DEF NextHost, Roots, HostFound
<1>4. CASE ~config[<<0, 0, host>>].present
  BY <1>1, <1>2, <1>4 DEF NextHost, Roots, HostEnds
<1> QED BY <1>1, <1>3, <1>4

\* The configuration space is never written.
LEMMA ConfigKept ==
  ASSUME config' = config
  PROVE  /\ Roots' = Roots /\ Single' = Single /\ Reachable' = Reachable /\ Enumerable' = Enumerable
         /\ Ascending' = Ascending /\ Tree' = Tree /\ NoGap' = NoGap
         /\ \A b : Visible(b)' = Visible(b)
         /\ \A x : Bridge(x)' = Bridge(x)
<1>1. Single' = Single /\ Roots' = Roots
  BY DEF Single, Roots
<1>2. \A b : Visible(b)' = Visible(b)
  BY DEF Visible
<1>3. \A x : Bridge(x)' = Bridge(x)
  BY DEF Bridge
<1>4. \A b : Behind(b)' = Behind(b)
  BY DEF Behind, Visible, Bridge
<1>5. \A S : Closed(S)' = Closed(S)
  BY <1>1, <1>4 DEF Closed
<1>6. Reachable' = Reachable
  BY <1>5 DEF Reachable
<1>7. Enumerable' = Enumerable
  BY <1>2, <1>6 DEF Enumerable
<1> QED BY <1>1, <1>2, <1>3, <1>6, <1>7 DEF Ascending, Tree, NoGap, Bridge

LEMMA ReachableFacts ==
  /\ \A r \in Roots : r \in Bus => r \in Reachable
  /\ \A b \in Reachable : b \in Bus
  /\ \A b \in Reachable, x \in Function :
       x \in Visible(b) /\ Bridge(x) /\ config[x].secondary \in Bus => config[x].secondary \in Reachable
<1>1. ASSUME NEW r \in Roots, r \in Bus PROVE r \in Reachable
  BY <1>1 DEF Reachable, Closed
<1>2. ASSUME NEW b \in Reachable, NEW x \in Visible(b), Bridge(x), config[x].secondary \in Bus
      PROVE  config[x].secondary \in Reachable
  <2>1. config[x].secondary \in Behind(b)
    BY <1>2 DEF Behind
  <2>2. \A S \in SUBSET Bus : Closed(S) => b \in S /\ Behind(b) \subseteq S
    BY DEF Reachable, Closed
  <2> QED BY <1>2, <2>1, <2>2 DEF Reachable
<1> QED BY <1>1, <1>2 DEF Reachable

-----------------------------------------------------------------------------
LEMMA InitInv == Init => ScanInv
<1> SUFFICES ASSUME Init PROVE ScanInv
  OBVIOUS
<1>1. /\ config \in Machines /\ listed = <<>> /\ overrun = FALSE /\ Logged = {}
      /\ listed \in Seq(Function) /\ DOMAIN listed = {}
  BY DEF Init, Logged
<1>2. CASE Single /\ stack = <<Frame(0)>> /\ host = Funcs
  <2>1. Frame(0) \in FrameType /\ Frame(0).bus = 0 /\ Frame(0).function = 0 /\ Frame(0).device = 0
    BY SizeFacts DEF Frame, FrameType
  <2>2. stack \in Seq(FrameType) /\ Calls = {1} /\ stack[1] = Frame(0) /\ stack # <<>>
    BY <1>2, <2>1 DEF Calls
  <2>3. Types
    <3>1. Funcs \in 0 .. Funcs
      BY SizeFacts
    <3>2. \A i \in Calls : AtFunction(stack[i])
      BY <2>1, <2>2 DEF AtFunction
    <3> QED BY <1>1, <1>2, <2>2, <3>1, <3>2 DEF Types
  <2>4. Roots = {0}
    BY <1>2 DEF Roots
  <2>5. Sound
    BY <1>1, <2>1, <2>2, <2>4, ReachableFacts, SizeFacts DEF Sound
  <2>6. Deep
    BY <1>1, <2>1, <2>2 DEF Deep
  <2>7. Once
    BY <1>1, <1>2, <2>1, <2>2, <2>4, SizeFacts DEF Once, Caused
  <2>8. Complete
    <3>1. \A x \in Visible(0) : ~Before(x, Frame(0))
      <4>1. \A x \in Visible(0) : x[2] \in Nat /\ x[3] \in Nat
        BY DEF Visible, Slot, Func
      <4> QED BY <2>1, <4>1 DEF Before
    <3> QED BY <1>1, <2>1, <2>2, <2>4, <3>1 DEF Complete, Walked
  <2> QED BY <2>3, <2>5, <2>6, <2>7, <2>8 DEF ScanInv
<1>3. CASE ~Single /\ stack = <<>> /\ host = 0
  <2>1. stack \in Seq(FrameType) /\ Calls = {}
    BY <1>3 DEF Calls
  <2>2. \A r \in Roots : ~(r < 0)
    BY <1>3 DEF Roots, Func
  <2>3. Types
    <3>1. 0 \in 0 .. Funcs
      BY SizeFacts
    <3> QED BY <1>1, <1>3, <2>1, <3>1 DEF Types
  <2>4. Sound /\ Deep
    BY <1>1, <2>1 DEF Sound, Deep
  <2>5. Once
    BY <1>1, <2>1 DEF Once
  <2>6. Complete
    BY <1>1, <1>3, <2>1, <2>2 DEF Complete
  <2> QED BY <2>3, <2>4, <2>5, <2>6 DEF ScanInv
<1> QED BY <1>2, <1>3 DEF Init

LEMMA StepTypes ==
  ASSUME Types, Next
  PROVE  Types' /\ config' = config
<1>1. config' = config /\ Single' = Single
  BY DEF Next, NextHost, Look, Return, Single
<1>2. \A f : AtFunction(f)' = AtFunction(f)
  BY <1>1 DEF AtFunction
<1>3. CASE NextHost
  <2>1. HostFound(host) \/ HostEnds
    BY <1>3, NextHostFacts
  <2>2. /\ stack = <<>> /\ overrun' = FALSE /\ listed' = listed /\ host \in Nat /\ host < Funcs
    BY <1>3, NextHostFacts
  <2>3. CASE HostFound(host)
    <3>1. Frame(host) \in FrameType /\ Frame(host).function = 0
      BY <2>3, SizeFacts DEF HostFound, Frame, FrameType
    <3>2. stack' \in Seq(FrameType) /\ DOMAIN stack' = {1} /\ stack'[1] = Frame(host)
      BY <2>3, <3>1 DEF HostFound
    <3>3. ~Single
      BY <2>2, SizeFacts DEF Types
    <3>4. AtFunction(Frame(host))
      BY <3>1 DEF AtFunction
    <3>5. host + 1 \in 0 .. Funcs
      BY <2>2, SizeFacts
    <3> QED BY <1>1, <1>2, <2>2, <2>3, <3>2, <3>3, <3>4, <3>5 DEF Types, Calls, HostFound
  <2>4. CASE HostEnds
    <3>1. stack' \in Seq(FrameType) /\ DOMAIN stack' = {}
      BY <2>4 DEF HostEnds
    <3>2. Funcs \in 0 .. Funcs
      BY SizeFacts
    <3> QED BY <1>1, <2>2, <2>4, <3>1, <3>2 DEF Types, Calls, HostEnds
  <2> QED BY <2>1, <2>3, <2>4
<1>4. CASE Look
  <2> DEFINE m == Len(stack)
             x == Place(Top)
  <2>1. Looked(m, x) /\ host' = host /\ stack # <<>>
    BY <1>4, LookFacts DEF Look
  <2>2. m \in Nat \ {0} /\ Calls = 1 .. m /\ Top = stack[m] /\ Top \in FrameType
    BY <2>1, TopFacts
  <2> HIDE DEF m, x
  <2>3. AtFunction(After(Top))
    BY <2>1, <2>2, AfterType DEF Looked
  <2>4. \A b : AtFunction(Frame(b))
    BY DEF Frame, AtFunction
  <2>5. \A i \in 1 .. m : AtFunction(stack'[i])
    <3>1. \A i \in 1 .. m : i = m \/ i \in 1 .. m - 1
      BY <2>2
    <3> QED BY <2>1, <2>2, <2>3, <3>1 DEF Looked, Types
  <2>6. \A i \in DOMAIN stack' : AtFunction(stack'[i])
    <3>1. \A i \in 1 .. m + 1 : i = m + 1 \/ i \in 1 .. m
      BY <2>2
    <3> QED BY <2>1, <2>2, <2>4, <2>5, <3>1 DEF Looked, Pushed
  <2>7. stack' # <<>>
    <3>1. Len(stack') # 0
      BY <2>1, <2>2 DEF Looked, Pushed
    <3> QED BY <3>1
  <2> QED BY <1>1, <1>2, <2>1, <2>6, <2>7 DEF Types, Looked, Calls
<1>5. CASE Return
  <2> DEFINE m == Len(stack)
  <2>1. Returned(m) /\ overrun = FALSE /\ UNCHANGED <<config, host, listed, overrun>> /\ stack # <<>>
    BY <1>5, ReturnFacts DEF Return, Types
  <2>2. m \in Nat \ {0} /\ Calls = 1 .. m
    BY <2>1, TopFacts
  <2> HIDE DEF m
  <2>3. \A i \in DOMAIN stack' : AtFunction(stack'[i])
    BY <2>1, <2>2 DEF Returned, Types
  <2> QED BY <1>1, <1>2, <2>1, <2>3 DEF Types, Returned, Calls
<1> QED BY <1>1, <1>3, <1>4, <1>5 DEF Next

-----------------------------------------------------------------------------
(* The parts of the invariant are kept. *)

\* The function looked at is one the walk should look at.
LEMMA PlaceVisible ==
  ASSUME Types, Sound, stack # <<>>, Top.device # Slots
  PROVE  LET x == Place(Top)
         IN  /\ x \in Function /\ x[1] = Top.bus /\ Top.bus \in Reachable
             /\ config[x].secondary \in Bus
             /\ config[x].present => x \in Visible(Top.bus) /\ x \in Enumerable
<1> DEFINE x == Place(Top)
<1>1. Top \in FrameType /\ AtFunction(Top) /\ Top.bus \in Reachable
  BY TopFacts DEF Types, Sound
<1>2. /\ x \in Function /\ x[1] = Top.bus /\ x[2] = Top.device /\ x[3] = Top.function
      /\ x = <<Top.bus, Top.device, Top.function>> /\ Top.device \in Slot
  BY <1>1, PlaceType DEF Place
<1>3. config[x].present => x \in Visible(Top.bus)
  BY <1>1, <1>2 DEF Visible, AtFunction, FrameType
<1>4. config[x].secondary \in Bus
  BY <1>2, ConfigType DEF Types
<1> QED BY <1>1, <1>2, <1>3, <1>4 DEF Enumerable

LEMMA StepSound ==
  ASSUME Types, Sound, Next
  PROVE  Sound'
<1>1. config' = config /\ Reachable' = Reachable /\ Enumerable' = Enumerable
  BY StepTypes, ConfigKept
<1>2. CASE NextHost
  <2>1. (HostFound(host) \/ HostEnds) /\ Logged' = Logged
    BY <1>2, NextHostFacts DEF Logged
  <2>2. \A i \in DOMAIN stack' : stack'[i].bus \in Reachable
    BY <2>1, ReachableFacts DEF HostFound, HostEnds, Frame
  <2> QED BY <1>1, <2>1, <2>2 DEF Sound, Calls
<1>3. CASE Look
  <2> DEFINE m == Len(stack)
             x == Place(Top)
  <2>1. Looked(m, x) /\ stack # <<>>
    BY <1>3, LookFacts DEF Look
  <2>2. m \in Nat \ {0} /\ Calls = 1 .. m /\ Top = stack[m] /\ Top \in FrameType
    BY <2>1, TopFacts
  <2>3. /\ x \in Function /\ Top.bus \in Reachable /\ config[x].secondary \in Bus
        /\ config[x].present => x \in Visible(Top.bus) /\ x \in Enumerable
    BY <2>1, PlaceVisible DEF Looked
  <2> HIDE DEF m, x
  <2>4. After(Top).bus = Top.bus
    BY <2>1, <2>2, AfterType DEF Looked
  <2>5. Bridge(x) => config[x].secondary \in Reachable
    BY <2>3, ReachableFacts DEF Bridge
  <2>6. \A i \in 1 .. m : stack'[i].bus \in Reachable
    <3>1. \A i \in 1 .. m : i = m \/ i \in 1 .. m - 1
      BY <2>2
    <3> QED BY <2>1, <2>2, <2>3, <2>4, <3>1 DEF Looked, Sound
  <2>7. \A i \in DOMAIN stack' : stack'[i].bus \in Reachable
    <3>1. \A i \in 1 .. m + 1 : i = m + 1 \/ i \in 1 .. m
      BY <2>2
    <3> QED BY <2>1, <2>5, <2>6, <3>1 DEF Looked, Pushed, Frame
  <2>8. Logged' \subseteq Enumerable
    BY <2>1, <2>3 DEF Looked, Sound
  <2> QED BY <1>1, <2>7, <2>8 DEF Sound, Calls
<1>4. CASE Return
  <2>1. Returned(Len(stack)) /\ Logged' = Logged /\ Calls = 1 .. Len(stack) /\ Len(stack) \in Nat
    BY <1>4, ReturnFacts, TopFacts DEF Return, Logged
  <2> QED BY <1>1, <2>1 DEF Sound, Calls, Returned
<1> QED BY <1>2, <1>3, <1>4 DEF Next

LEMMA StepDeep ==
  ASSUME Types, Sound, Deep, Next
  PROVE  Deep'
<1>1. config' = config /\ Ascending' = Ascending
  BY StepTypes, ConfigKept
<1>2. CASE NextHost
  <2>1. (HostFound(host) \/ HostEnds) /\ overrun' = FALSE
    BY <1>2, NextHostFacts
  <2>2. Ascending => \A i \in DOMAIN stack' : /\ i - 1 <= stack'[i].bus
                                              /\ \A j \in DOMAIN stack' : i < j => stack'[i].bus < stack'[j].bus
    <3>1. CASE HostFound(host)
      <4>1. DOMAIN stack' = {1} /\ stack'[1].bus = host /\ host \in Nat
        BY <3>1 DEF HostFound, Frame, Bus
      <4> QED BY <4>1
    <3>2. CASE HostEnds
      BY <3>2 DEF HostEnds
    <3> QED BY <2>1, <3>1, <3>2
  <2> QED BY <1>1, <2>1, <2>2 DEF Deep, Calls
<1>3. CASE Look
  <2> DEFINE m == Len(stack)
             x == Place(Top)
  <2>1. Looked(m, x) /\ stack # <<>>
    BY <1>3, LookFacts DEF Look
  <2>2. /\ m \in Nat \ {0} /\ Calls = 1 .. m /\ Top = stack[m] /\ Top \in FrameType
        /\ stack \in Seq(FrameType) /\ \A i \in Calls : stack[i].bus \in Nat
    <3>1. m \in Nat \ {0} /\ Calls = 1 .. m /\ Top = stack[m] /\ Top \in FrameType
      BY <2>1, TopFacts
    <3>2. \A i \in Calls : stack[i] \in FrameType
      BY DEF Types, Calls
    <3> QED BY <3>1, <3>2 DEF Types, FrameType, Bus
  <2>3. x \in Function /\ x[1] = Top.bus /\ config[x].secondary \in Bus
    BY <2>1, PlaceVisible DEF Looked
  <2> HIDE DEF m, x
  <2>4. After(Top).bus = Top.bus
    BY <2>1, <2>2, AfterType DEF Looked
  <2>5. \A i \in 1 .. m : stack'[i].bus = stack[i].bus
    <3>1. \A i \in 1 .. m : i = m \/ i \in 1 .. m - 1
      BY <2>2
    <3> QED BY <2>1, <2>2, <2>4, <3>1 DEF Looked
  <2>6. ASSUME Ascending PROVE \A i \in DOMAIN stack' : 
            /\ i - 1 <= stack'[i].bus
            /\ \A j \in DOMAIN stack' : i < j => stack'[i].bus < stack'[j].bus
    <3>1. \A i \in 1 .. m : /\ i - 1 <= stack'[i].bus /\ stack'[i].bus \in Nat
                            /\ \A j \in 1 .. m : i < j => stack'[i].bus < stack'[j].bus
      BY <2>2, <2>5, <2>6 DEF Deep
    <3>2. CASE Bridge(x) /\ ~overrun'
      <4>1. DOMAIN stack' = 1 .. m + 1 /\ stack'[m + 1].bus = config[x].secondary
        BY <2>1, <3>2 DEF Looked, Pushed, Frame
      <4>2. config[x].secondary \in Nat /\ stack'[m].bus < config[x].secondary
        BY <2>2, <2>3, <2>5, <2>6, <3>2 DEF Ascending, Bus
      <4>3. \A i \in 1 .. m : stack'[i].bus <= stack'[m].bus
        BY <2>2, <3>1
      <4>4. m <= config[x].secondary
        BY <2>2, <3>1, <4>2
      <4>5. \A i \in 1 .. m : stack'[i].bus < config[x].secondary
        BY <2>2, <3>1, <4>2, <4>3
      <4>6. \A i \in 1 .. m + 1 : i = m + 1 \/ i \in 1 .. m
        BY <2>2
      <4>7. ASSUME NEW i \in 1 .. m + 1 PROVE i - 1 <= stack'[i].bus
        <5>1. CASE i \in 1 .. m
          BY <3>1, <5>1
        <5>2. CASE i = m + 1
          BY <2>2, <4>1, <4>4, <5>2
        <5> QED BY <4>6, <4>7, <5>1, <5>2
      <4>8. ASSUME NEW i \in 1 .. m + 1, NEW j \in 1 .. m + 1, i < j PROVE stack'[i].bus < stack'[j].bus
        <5>1. i \in 1 .. m
          BY <2>2, <4>8
        <5> QED BY <3>1, <4>1, <4>5, <4>6, <4>8, <5>1
      <4> QED BY <4>1, <4>7, <4>8
    <3>3. CASE ~(Bridge(x) /\ ~overrun')
      <4>1. DOMAIN stack' = 1 .. m
        BY <2>1, <3>3 DEF Looked
      <4> QED BY <3>1, <4>1
    <3> QED BY <3>2, <3>3
  <2>7. ASSUME overrun', Ascending PROVE StackDepth < Buses
    <3>1. Bridge(x) /\ m >= StackDepth
      BY <2>1, <2>7 DEF Looked
    <3>2. Top.bus < config[x].secondary /\ m - 1 <= Top.bus /\ Top.bus \in Nat
      BY <2>2, <2>3, <2>7, <3>1 DEF Ascending, Deep
    <3>3. config[x].secondary \in Nat /\ config[x].secondary <= Buses - 1
      BY <2>3, SizeFacts DEF Bus
    <3> QED BY <2>2, <3>1, <3>2, <3>3, SizeFacts
  <2> QED BY <1>1, <2>6, <2>7 DEF Deep, Calls
<1>4. CASE Return
  <2>1. Returned(Len(stack)) /\ overrun' = overrun /\ Calls = 1 .. Len(stack) /\ Len(stack) \in Nat
    BY <1>4, ReturnFacts, TopFacts DEF Return
  <2>2. \A i \in DOMAIN stack' : i \in Calls /\ stack'[i] = stack[i]
    BY <2>1 DEF Returned
  <2> QED BY <1>1, <2>1, <2>2 DEF Deep, Calls
<1> QED BY <1>2, <1>3, <1>4 DEF Next

LEMMA LoggedType == Types => Logged \subseteq Function
BY DEF Types, Logged

LEMMA CausedKept ==
  ASSUME config' = config, Logged \subseteq Logged', host \in Nat, host' \in Nat, host <= host'
  PROVE  \A b : Caused(b) => Caused(b)'
<1>1. Roots' = Roots /\ \A x : Bridge(x)' = Bridge(x)
  BY ConfigKept
<1>2. \A r \in Roots : r \in Nat
  BY DEF Roots, Func
<1>3. \A b \in Roots : b < host => b < host'
  BY <1>2
<1> QED BY <1>1, <1>3 DEF Caused

LEMMA StepOnce ==
  ASSUME Types, Sound, Deep, Once, Next
  PROVE  Once'
<1>1. /\ config' = config /\ Ascending' = Ascending /\ Tree' = Tree /\ Roots' = Roots
      /\ \A x : Bridge(x)' = Bridge(x)
  BY StepTypes, ConfigKept
<1> DEFINE C(b) == \/ b \in Roots /\ b < host'
                   \/ \E y \in Logged' : Bridge(y) /\ config[y].secondary = b
<1>0. \A b : Caused(b)' <=> C(b)
  BY <1>1 DEF Caused
<1> HIDE DEF C
<1> SUFFICES ASSUME Ascending, Tree
             PROVE  /\ Injective(listed')
                    /\ \A x \in Logged' : C(x[1])
                    /\ \A i \in DOMAIN stack' : C(stack'[i].bus)
                    /\ \A i \in DOMAIN stack' : \A x \in Logged' : x[1] = stack'[i].bus => Before(x, stack'[i])
  BY <1>0, <1>1 DEF Once, Injective, Calls
<1>2. /\ Injective(listed)
      /\ \A x \in Logged : Caused(x[1])
      /\ \A i \in Calls : Caused(stack[i].bus)
      /\ \A i \in Calls : \A x \in Logged : x[1] = stack[i].bus => Before(x, stack[i])
  BY DEF Once, Injective
<1>3. /\ \A y \in Function : Bridge(y) => config[y].secondary \notin Roots
      /\ \A y, z \in Function : Bridge(y) /\ Bridge(z) /\ config[y].secondary = config[z].secondary => y = z
  BY DEF Tree
<1>4. Logged \subseteq Function /\ host \in Nat
  BY LoggedType DEF Types
<1>5. CASE NextHost
  <2>1. /\ (HostFound(host) \/ HostEnds) /\ listed' = listed /\ Logged' = Logged /\ host < Funcs
    BY <1>5, NextHostFacts DEF Logged
  <2>2. host' \in Nat /\ host <= host'
    BY <1>4, <2>1, SizeFacts DEF HostFound, HostEnds
  <2>3. \A b : Caused(b) => C(b)
    BY <1>0, <1>1, <1>4, <2>1, <2>2, CausedKept
  <2>4. CASE HostFound(host)
    <3>1. DOMAIN stack' = {1} /\ stack'[1].bus = host /\ host \in Roots /\ host' = host + 1
      BY <2>4 DEF HostFound, Frame
    <3>2. C(host)
      BY <1>4, <3>1 DEF C
    <3>3. ~Caused(host)
      BY <1>3, <1>4, <3>1 DEF Caused
    <3> QED BY <1>2, <2>1, <2>3, <3>1, <3>2, <3>3
  <2>5. CASE HostEnds
    BY <1>2, <2>1, <2>3, <2>5 DEF HostEnds
  <2> QED BY <2>1, <2>4, <2>5
<1>6. CASE Look
  <2> DEFINE m == Len(stack)
             x == Place(Top)
  <2>1. Looked(m, x) /\ stack # <<>> /\ host' = host
    BY <1>6, LookFacts DEF Look
  <2>2. /\ m \in Nat \ {0} /\ m \in Calls /\ Calls = 1 .. m /\ Top = stack[m] /\ Top \in FrameType
        /\ \A i \in Calls : stack[i].bus \in Nat
    <3>1. m \in Nat \ {0} /\ m \in Calls /\ Calls = 1 .. m /\ Top = stack[m] /\ Top \in FrameType
      BY <2>1, TopFacts
    <3>2. \A i \in Calls : stack[i] \in FrameType
      BY DEF Types, Calls
    <3> QED BY <3>1, <3>2 DEF FrameType, Bus
  <2>3. x \in Function /\ x[1] = Top.bus /\ config[x].secondary \in Bus
    BY <2>1, PlaceVisible DEF Looked
  <2>4. /\ Before(x, After(Top)) /\ ~Before(x, Top)
        /\ \A y \in Function : Before(y, Top) => Before(y, After(Top))
    BY <2>1, <2>2, AfterPasses DEF Looked, Types
  <2> HIDE DEF m, x
  <2>5. After(Top).bus = Top.bus
    BY <2>1, <2>2, AfterType DEF Looked
  <2>6. x \notin Logged
    BY <1>2, <2>2, <2>3, <2>4
  <2>7. Injective(listed') /\ Logged \subseteq Logged' /\ Logged' \subseteq Logged \cup {x}
    BY <1>2, <2>1, <2>6 DEF Looked
  <2>8. \A b : Caused(b) => C(b)
    BY <1>0, <1>1, <1>4, <2>1, <2>7, CausedKept
  <2>9. \A y \in Logged' : C(y[1])
    BY <1>2, <2>2, <2>3, <2>7, <2>8
  <2>10. \A i \in 1 .. m : stack'[i].bus = stack[i].bus
    <3>1. \A i \in 1 .. m : i = m \/ i \in 1 .. m - 1
      BY <2>2
    <3> QED BY <2>1, <2>2, <2>5, <3>1 DEF Looked
  <2>11. ASSUME NEW i \in 1 .. m
         PROVE  C(stack'[i].bus) /\ \A y \in Logged' : y[1] = stack'[i].bus => Before(y, stack'[i])
    <3>1. C(stack'[i].bus)
      BY <1>2, <2>2, <2>8, <2>10
    <3>2. CASE i = m
      <4>1. stack'[i] = After(Top) /\ stack'[i].bus = Top.bus
        BY <2>1, <2>2, <2>5, <3>2 DEF Looked
      <4>2. \A y \in Logged' : y[1] = Top.bus => Before(y, After(Top))
        BY <1>2, <1>4, <2>2, <2>4, <2>7
      <4> QED BY <3>1, <4>1, <4>2
    <3>3. CASE i # m
      <4>1. i < m /\ i \in 1 .. m - 1 /\ i \in Calls
        BY <2>2, <3>3
      <4>2. stack[i].bus # Top.bus
        BY <2>2, <4>1 DEF Deep
      <4>3. stack'[i] = stack[i]
        BY <2>1, <4>1 DEF Looked
      <4>4. \A y \in Logged' : y[1] = stack[i].bus => Before(y, stack[i])
        BY <1>2, <2>3, <2>7, <4>1, <4>2
      <4> QED BY <3>1, <4>3, <4>4
    <3> QED BY <3>1, <3>2, <3>3
  <2>12. CASE Bridge(x) /\ ~overrun'
    <3> DEFINE b == config[x].secondary
    <3>1. DOMAIN stack' = 1 .. m + 1 /\ stack'[m + 1].bus = b
      BY <2>1, <2>12 DEF Looked, Pushed, Frame
    <3>2. x \in Logged'
      BY <2>1, <2>12 DEF Looked, Bridge
    <3>3. C(b)
      BY <2>12, <3>2 DEF C
    <3>4. ~Caused(b)
      BY <1>3, <1>4, <2>3, <2>6, <2>12 DEF Caused
    <3>5. x[1] # b
      <4>1. x[1] \in Nat /\ b \in Nat /\ b > x[1]
        BY <2>2, <2>3, <2>12 DEF Ascending, Bus
      <4> QED BY <4>1
    <3>6. \A y \in Logged' : y[1] # b
      BY <1>2, <2>7, <3>4, <3>5
    <3>7. \A i \in 1 .. m + 1 : i = m + 1 \/ i \in 1 .. m
      BY <2>2
    <3> HIDE DEF b
    <3> QED BY <2>7, <2>9, <2>11, <3>1, <3>3, <3>6, <3>7
  <2>13. CASE ~(Bridge(x) /\ ~overrun')
    <3>1. DOMAIN stack' = 1 .. m
      BY <2>1, <2>13 DEF Looked
    <3> QED BY <2>7, <2>9, <2>11, <3>1
  <2> QED BY <2>12, <2>13
<1>7. CASE Return
  <2>1. /\ Returned(Len(stack)) /\ listed' = listed /\ Logged' = Logged /\ host' = host
        /\ Calls = 1 .. Len(stack) /\ Len(stack) \in Nat
    BY <1>7, ReturnFacts, TopFacts DEF Return, Logged
  <2>2. \A i \in DOMAIN stack' : i \in Calls /\ stack'[i] = stack[i]
    BY <2>1 DEF Returned
  <2>3. \A b : Caused(b) => C(b)
    BY <1>0, <1>1, <1>4, <2>1, CausedKept
  <2> QED BY <1>2, <2>1, <2>2, <2>3
<1> QED BY <1>5, <1>6, <1>7 DEF Next

LEMMA FirstOfAll ==
  \A b, c : \A x \in Visible(b) : ~Before(x, Frame(c))
<1>1. \A b : \A x \in Visible(b) : x[2] \in Nat /\ x[3] \in Nat
  BY DEF Visible, Slot, Func
<1> QED BY <1>1 DEF Before, Frame

LEMMA StepComplete ==
  ASSUME Types, Sound, Complete, Next
  PROVE  Complete'
<1>1. /\ config' = config /\ Roots' = Roots /\ NoGap' = NoGap
      /\ \A x : Bridge(x)' = Bridge(x)
      /\ \A b : Visible(b)' = Visible(b)
  BY StepTypes, ConfigKept
<1> DEFINE W(b) == Visible(b) \subseteq Logged' \/ \E i \in DOMAIN stack' : stack'[i].bus = b
<1>2. \A b : Walked(b)' <=> W(b)
  BY <1>1 DEF Walked, Calls
<1> SUFFICES /\ \A i \in DOMAIN stack' : \A x \in Visible(stack'[i].bus) : Before(x, stack'[i]) => x \in Logged'
             /\ ~overrun' => \A x \in Logged' : Bridge(x) => W(config[x].secondary)
             /\ NoGap => \A r \in Roots : r < host' => W(r)
  <2> HIDE DEF W
  <2> QED BY <1>1, <1>2 DEF Complete, Calls
<1>3. /\ \A i \in Calls : \A x \in Visible(stack[i].bus) : Before(x, stack[i]) => x \in Logged
      /\ ~overrun => \A x \in Logged : Bridge(x) => Walked(config[x].secondary)
      /\ NoGap => \A r \in Roots : r < host => Walked(r)
  BY DEF Complete
<1>4. \A r \in Roots : r \in Nat
  BY DEF Roots, Func
<1>5. CASE NextHost
  <2>1. /\ (HostFound(host) \/ HostEnds) /\ Logged' = Logged /\ host < Funcs /\ host \in Nat
        /\ stack = <<>> /\ ~overrun /\ ~overrun'
    BY <1>5, NextHostFacts DEF Logged
  <2>2. \A b : Walked(b) => W(b)
    BY <2>1 DEF Walked, Calls
  <2>3. ASSUME NoGap, NEW r \in Roots, r < host' PROVE W(r)
    <3>1. CASE r < host
      BY <1>3, <2>2, <2>3, <3>1
    <3>2. CASE r = host
      <4>1. DOMAIN stack' = {1} /\ stack'[1].bus = host
        BY <2>1, <2>3, <3>2 DEF HostFound, HostEnds, Frame
      <4> QED BY <3>2, <4>1
    <3>3. CASE host < r
      <4>1. HostEnds
        BY <1>4, <2>1, <2>3, <3>3 DEF HostFound
      <4>2. host \in 0 .. r
        BY <1>4, <2>1, <2>3, <3>3
      <4> QED BY <2>3, <4>1, <4>2 DEF HostEnds, NoGap
    <3> QED BY <1>4, <2>1, <2>3, <3>1, <3>2, <3>3
  <2>4. \A i \in DOMAIN stack' : \A x \in Visible(stack'[i].bus) : ~Before(x, stack'[i])
    <3>1. CASE HostFound(host)
      <4>1. DOMAIN stack' = {1} /\ stack'[1] = Frame(host)
        BY <3>1 DEF HostFound
      <4> QED BY <4>1, FirstOfAll
    <3>2. CASE HostEnds
      BY <3>2 DEF HostEnds
    <3> QED BY <2>1, <3>1, <3>2
  <2> HIDE DEF W
  <2> QED BY <1>3, <2>1, <2>2, <2>3, <2>4
<1>6. CASE Look
  <2> DEFINE m == Len(stack)
             x == Place(Top)
  <2>1. Looked(m, x) /\ stack # <<>> /\ host' = host
    BY <1>6, LookFacts DEF Look
  <2>2. m \in Nat \ {0} /\ m \in Calls /\ Calls = 1 .. m /\ Top = stack[m] /\ Top \in FrameType
    BY <2>1, TopFacts
  <2>3. x \in Function
    BY <2>1, PlaceVisible DEF Looked
  <2>4. \A y \in Visible(Top.bus) : Before(y, After(Top)) => Before(y, Top) \/ y = x
    BY <2>1, <2>2, AfterPasses DEF Looked, Types
  <2> HIDE DEF m, x
  <2>5. After(Top).bus = Top.bus
    BY <2>1, <2>2, AfterType DEF Looked
  <2>6. Logged \subseteq Logged' /\ Logged' \subseteq Logged \cup {x} /\ (config[x].present => x \in Logged')
    BY <2>1 DEF Looked
  <2>7. \A i \in 1 .. m : stack'[i].bus = stack[i].bus /\ i \in DOMAIN stack'
    <3>1. \A i \in 1 .. m : i = m \/ i \in 1 .. m - 1
      BY <2>2
    <3>2. 1 .. m \subseteq DOMAIN stack'
      BY <2>1, <2>2 DEF Looked, Pushed
    <3> QED BY <2>1, <2>2, <2>5, <3>1, <3>2 DEF Looked
  <2>8. \A b : Walked(b) => W(b)
    BY <2>2, <2>6, <2>7 DEF Walked
  <2>9. \A i \in 1 .. m : \A y \in Visible(stack'[i].bus) : Before(y, stack'[i]) => y \in Logged'
    <3>1. ASSUME NEW y \in Visible(Top.bus), Before(y, After(Top)) PROVE y \in Logged'
      <4>1. config[y].present
        BY <3>1 DEF Visible
      <4> QED BY <1>3, <2>2, <2>4, <2>6, <3>1, <4>1
    <3>2. \A i \in 1 .. m : i = m \/ i \in 1 .. m - 1
      BY <2>2
    <3> QED BY <1>3, <2>1, <2>2, <2>5, <2>6, <3>1, <3>2 DEF Looked
  <2>10. \A i \in DOMAIN stack' : \A y \in Visible(stack'[i].bus) : Before(y, stack'[i]) => y \in Logged'
    <3>1. CASE Bridge(x) /\ ~overrun'
      <4>1. DOMAIN stack' = 1 .. m + 1 /\ stack'[m + 1] = Frame(config[x].secondary)
        BY <2>1, <3>1 DEF Looked, Pushed
      <4>2. \A i \in 1 .. m + 1 : i = m + 1 \/ i \in 1 .. m
        BY <2>2
      <4> QED BY <2>9, <4>1, <4>2, FirstOfAll
    <3>2. CASE ~(Bridge(x) /\ ~overrun')
      <4>1. DOMAIN stack' = 1 .. m
        BY <2>1, <3>2 DEF Looked
      <4> QED BY <2>9, <4>1
    <3> QED BY <3>1, <3>2
  <2>11. ASSUME ~overrun', Bridge(x) PROVE W(config[x].secondary)
    <3>1. m + 1 \in DOMAIN stack' /\ stack'[m + 1].bus = config[x].secondary
      BY <2>1, <2>2, <2>11 DEF Looked, Pushed, Frame
    <3> QED BY <3>1
  <2>12. ~overrun
    BY <2>1 DEF Looked
  <2> HIDE DEF W
  <2> QED BY <1>3, <2>1, <2>6, <2>8, <2>10, <2>11, <2>12
<1>7. CASE Return
  <2> DEFINE m == Len(stack)
  <2>1. /\ Returned(m) /\ Logged' = Logged /\ host' = host /\ overrun' = overrun
        /\ m \in Nat \ {0} /\ m \in Calls /\ Calls = 1 .. m /\ Top = stack[m] /\ Top.device = Slots
    BY <1>7, ReturnFacts, TopFacts DEF Return, Logged
  <2> HIDE DEF m
  <2>2. \A i \in DOMAIN stack' : i \in Calls /\ stack'[i] = stack[i]
    BY <2>1 DEF Returned
  <2>3. Visible(Top.bus) \subseteq Logged
    <3>1. \A y \in Visible(Top.bus) : Before(y, Top)
      BY <2>1, SizeFacts DEF Visible, Slot, Before
    <3> QED BY <1>3, <2>1, <3>1
  <2>4. ASSUME NEW b, Walked(b) PROVE W(b)
    <3>1. CASE Visible(b) \subseteq Logged
      BY <2>1, <3>1
    <3>2. ASSUME NEW i \in Calls, stack[i].bus = b PROVE W(b)
      <4>1. CASE i = m
        BY <2>1, <2>3, <3>2, <4>1
      <4>2. CASE i # m
        <5>1. i \in DOMAIN stack'
          BY <2>1, <3>2, <4>2 DEF Returned
        <5> QED BY <2>2, <3>2, <5>1
      <4> QED BY <4>1, <4>2
    <3> QED BY <2>4, <3>1, <3>2 DEF Walked
  <2> HIDE DEF W
  <2> QED BY <1>3, <2>1, <2>2, <2>4
<1> QED BY <1>5, <1>6, <1>7 DEF Next

LEMMA InvAlways == Spec => []ScanInv
<1>1. ScanInv /\ [Next]_vars => ScanInv'
  <2>1. ASSUME ScanInv, Next PROVE ScanInv'
    BY <2>1, StepTypes, StepSound, StepDeep, StepOnce, StepComplete DEF ScanInv
  <2>2. ASSUME ScanInv, UNCHANGED vars PROVE ScanInv'
    <3>1. /\ config' = config /\ host' = host /\ stack' = stack /\ listed' = listed /\ overrun' = overrun
          /\ Logged' = Logged /\ Calls' = Calls
      BY <2>2 DEF vars, Logged, Calls
    <3>2. /\ Roots' = Roots /\ Single' = Single /\ Reachable' = Reachable /\ Enumerable' = Enumerable
          /\ Ascending' = Ascending /\ Tree' = Tree /\ NoGap' = NoGap
          /\ \A b : Visible(b)' = Visible(b)
          /\ \A x : Bridge(x)' = Bridge(x)
      BY <3>1, ConfigKept
    <3>3. Types'
      BY <2>2, <3>1, <3>2 DEF ScanInv, Types, AtFunction
    <3>4. Sound' /\ Deep'
      BY <2>2, <3>1, <3>2 DEF ScanInv, Sound, Deep
    <3>5. Once'
      BY <2>2, <3>1, <3>2 DEF ScanInv, Once, Caused
    <3>6. Complete'
      BY <2>2, <3>1, <3>2 DEF ScanInv, Complete, Walked
    <3> QED BY <3>3, <3>4, <3>5, <3>6 DEF ScanInv
  <2> QED BY <2>1, <2>2
<1> QED BY <1>1, InitInv, PTL DEF Spec

-----------------------------------------------------------------------------
\* pci.c, boot.s: however many buses firmware has numbered, the recursion of
\* pci_scan_bus is never deeper, and leaves the stack only when a bridge leads
\* back or the stack holds fewer calls than there are buses.
THEOREM StackIsEnough == Spec => []StackSuffices
<1>1. ScanInv => StackSuffices
  <2> SUFFICES ASSUME ScanInv, Ascending PROVE Len(stack) <= Buses
    BY DEF ScanInv, Deep, StackSuffices
  <2>1. CASE stack = <<>>
    BY <2>1, SizeFacts
  <2>2. CASE stack # <<>>
    <3>1. Len(stack) \in Nat \ {0} /\ Len(stack) \in Calls /\ Top = stack[Len(stack)] /\ Top \in FrameType
      BY <2>2, TopFacts DEF ScanInv
    <3>2. Len(stack) - 1 <= Top.bus /\ Top.bus \in Nat /\ Top.bus <= Buses - 1
      BY <3>1, SizeFacts DEF ScanInv, Deep, FrameType, Bus
    <3> QED BY <3>1, <3>2, SizeFacts
  <2> QED BY <2>1, <2>2
<1> QED BY <1>1, InvAlways, PTL

\* pci.c: for every configuration space pci_init logs only functions behind
\* the host bridge, each once where firmware has numbered the buses as a tree,
\* and all of them unless the host controller's functions have a gap.
THEOREM ScanFindsAll == Spec => []ScanIsExact
<1>1. ScanInv => ScanIsExact
  <2> SUFFICES ASSUME ScanInv PROVE ScanIsExact
    OBVIOUS
  <2>1. \A i \in DOMAIN listed : listed[i] \in Enumerable
    BY DEF ScanInv, Sound, Logged
  <2>2. Ascending /\ Tree => \A i, j \in DOMAIN listed : listed[i] = listed[j] => i = j
    BY DEF ScanInv, Once
  <2>3. ASSUME Done, NoGap, NEW x \in Enumerable PROVE \E i \in DOMAIN listed : listed[i] = x
    <3> DEFINE S == {b \in Bus : Visible(b) \subseteq Logged}
    <3>1. Calls = {} /\ host = Funcs /\ ~overrun
      BY <2>3 DEF Done, Calls, ScanInv, Types
    <3>2. \A b : Walked(b) => Visible(b) \subseteq Logged
      BY <3>1 DEF Walked
    <3>3. Roots \subseteq S
      <4>1. \A r \in Roots : r \in Bus /\ r < Funcs
        BY SizeFacts DEF Roots, Func, Bus
      <4> QED BY <2>3, <3>1, <3>2, <4>1 DEF ScanInv, Complete
    <3>4. ASSUME NEW b \in S PROVE Behind(b) \subseteq S
      <4>1. ASSUME NEW y \in Visible(b), Bridge(y) PROVE config[y].secondary \in S
        <5>1. y \in Logged
          BY <4>1
        <5>2. Visible(config[y].secondary) \subseteq Logged
          BY <3>1, <3>2, <4>1, <5>1 DEF ScanInv, Complete
        <5>3. config[y].secondary \in Bus
          <6>1. y \in Function
            BY <5>1, LoggedType DEF ScanInv
          <6> QED BY <6>1, ConfigType DEF ScanInv, Types
        <5> QED BY <5>2, <5>3
      <4> QED BY <4>1 DEF Behind
    <3>5. Closed(S) /\ S \in SUBSET Bus
      BY <3>3, <3>4 DEF Closed
    <3>6. PICK b \in Reachable : x \in Visible(b)
      BY <2>3 DEF Enumerable
    <3>7. b \in S
      BY <3>5 DEF Reachable
    <3>8. x \in Logged
      BY <3>6, <3>7
    <3> QED BY <3>8 DEF Logged
  <2> QED BY <2>1, <2>2, <2>3 DEF ScanIsExact
<1> QED BY <1>1, InvAlways, PTL
=============================================================================
