------------------------------- MODULE PciScan -------------------------------
(***************************************************************************)
(* The enumeration of drivers/pci/pci.c: pci_init walks the functions of   *)
(* every device of a bus and recurses through PCI-to-PCI bridges; and the  *)
(* flat search of drivers/video/vga.c for a display.                       *)
(*                                                                         *)
(* One step looks at one function.  The recursion of pci_scan_bus is an    *)
(* explicit stack, a frame for each nested call, on the 16 KiB of boot.s.  *)
(***************************************************************************)
EXTENDS Naturals, Sequences

CONSTANTS Buses, Slots, Funcs,  \* 256, 32 and 8
          StackDepth,           \* nested pci_scan_bus calls the boot stack holds
          Machines              \* the configuration spaces a machine may have

Bus      == 0 .. Buses - 1
Slot     == 0 .. Slots - 1
Func     == 0 .. Funcs - 1
Function == Bus \X Slot \X Func
Answer   == [present : BOOLEAN, multi : BOOLEAN,
             class : {"bridge", "display", "other"}, secondary : Bus]

\* What pci_read_config returns when nobody answers: every bit is 1.
Ones == [present |-> FALSE, multi |-> TRUE, class |-> "other", secondary |-> Buses - 1]

ASSUME PciAssumption ==
  /\ Buses \in Nat \ {0} /\ Slots \in Nat \ {0} /\ Funcs \in 1 .. Buses
  /\ StackDepth \in Nat \ {0}
  /\ Machines \subseteq [Function -> Answer]
  /\ \A m \in Machines : \A x \in Function : ~m[x].present => m[x] = Ones

VARIABLES
  config,   \* the configuration space, never written
  host,     \* pci_init: the next function of the host controller, Funcs when done
  stack,    \* the frames of pci_scan_bus, with the function each looks at next
  listed,   \* the functions logged so far
  overrun   \* the recursion has left the stack

vars == <<config, host, stack, listed, overrun>>

Frame(b)  == [bus |-> b, device |-> 0, function |-> 0]
Place(f)  == <<f.bus, f.device, f.function>>
Top       == stack[Len(stack)]
Here      == config[Place(Top)]
Single    == ~config[<<0, 0, 0>>].multi

Init ==
  /\ config \in Machines
  /\ listed = <<>> /\ overrun = FALSE
  /\ IF Single THEN stack = <<Frame(0)>> /\ host = Funcs
               ELSE stack = <<>> /\ host = 0

-----------------------------------------------------------------------------
\* pci_init: function f of the host controller stands for bus f; the first
\* function that is absent ends the loop.
NextHost ==
  /\ stack = <<>> /\ host < Funcs
  /\ IF config[<<0, 0, host>>].present
       THEN stack' = <<Frame(host)>> /\ host' = host + 1
       ELSE host' = Funcs /\ UNCHANGED stack
  /\ UNCHANGED <<config, listed, overrun>>

MoreMutant(b, d, n) == config[<<b, d, 0>>].present /\ n < Funcs
\* pci_scan_device goes on to function n of the device.
More(b, d, n) == config[<<b, d, 0>>].present /\ config[<<b, d, 0>>].multi /\ n < Funcs

After(f) ==
  IF More(f.bus, f.device, f.function + 1)
    THEN [f EXCEPT !.function = @ + 1]
    ELSE [f EXCEPT !.device = @ + 1, !.function = 0]

Advanced == [stack EXCEPT ![Len(stack)] = After(Top)]
Bridge(x) == config[x].present /\ config[x].class = "bridge"

SecondaryMutant(x) == x[1]
Secondary(x) == config[x].secondary

\* pci_scan_function, and pci_scan_bus of the bus behind a bridge.
Look ==
  /\ stack # <<>> /\ ~overrun /\ Top.device < Slots
  /\ listed' = IF Here.present THEN Append(listed, Place(Top)) ELSE listed
  /\ overrun' = (Bridge(Place(Top)) /\ Len(stack) >= StackDepth)
  /\ stack' = IF Bridge(Place(Top)) /\ ~overrun'
                THEN Append(Advanced, Frame(Secondary(Place(Top))))
                ELSE Advanced
  /\ UNCHANGED <<config, host>>

Return ==
  /\ stack # <<>> /\ ~overrun /\ Top.device = Slots
  /\ stack' = SubSeq(stack, 1, Len(stack) - 1)
  /\ UNCHANGED <<config, host, listed, overrun>>

Next == NextHost \/ Look \/ Return
Spec == Init /\ [][Next]_vars /\ WF_vars(Next)

Done == stack = <<>> /\ host = Funcs

ProbeMutant == \E d \in Slot : config[<<0, d, 0>>].class = "display"

\* is_vga_pci_present: function 0 of every slot of every bus, bridges or not.
vga_probe == \E b \in Bus, d \in Slot : config[<<b, d, 0>>].class = "display"

-----------------------------------------------------------------------------
(* What the walk should find, from the configuration space alone. *)

Visible(b) ==
  {x \in {b} \X Slot \X Func :
     /\ config[x].present
     /\ x[3] # 0 => config[<<b, x[2], 0>>].present /\ config[<<b, x[2], 0>>].multi}
Behind(b) == {config[x].secondary : x \in {y \in Visible(b) : Bridge(y)}}
Roots     == IF Single THEN {0} ELSE {f \in Func : config[<<0, 0, f>>].present}

Closed(S)    == Roots \subseteq S /\ \A b \in S : Behind(b) \subseteq S
Reachable    == {b \in Bus : \A S \in SUBSET Bus : Closed(S) => b \in S}
Enumerable   == UNION {Visible(b) : b \in Reachable}

\* Firmware numbers buses so that each bridge leads to a higher one,
Ascending == \A x \in Function : Bridge(x) => config[x].secondary > x[1]
\* and so that no two lead to the same.
Tree == \A x, y \in Function : Bridge(x) =>
          config[x].secondary \notin Roots
          /\ (Bridge(y) /\ config[x].secondary = config[y].secondary => x = y)
\* The functions of the host controller are numbered without a gap.
NoGap == \A f \in Roots : \A g \in 0 .. f : g \in Roots \/ Single

-----------------------------------------------------------------------------
(* Properties. *)

\* pci.c: no function is logged that is not behind the host bridge, none
\* twice where every bus is entered through one bridge, and when the walk is
\* over none is missing, unless the host controller's functions have a gap.
ScanIsExact ==
  /\ \A i \in DOMAIN listed : listed[i] \in Enumerable
  /\ Ascending /\ Tree => \A i, j \in DOMAIN listed : listed[i] = listed[j] => i = j
  /\ Done /\ NoGap => \A x \in Enumerable : \E i \in DOMAIN listed : listed[i] = x

\* pci.c, boot.s: on buses firmware has numbered the recursion is never
\* deeper than there are buses and stays on the stack; a bridge that leads
\* back makes it leave the stack.
StackSuffices ==
  /\ Ascending => Len(stack) <= Buses
  /\ overrun => ~Ascending \/ StackDepth < Buses

\* pci.c: pci_init returns, and the display it lists is one the VGA driver's
\* probe finds unless no display is a function 0, whatever the bridges are.
ScanEnds ==
  <>(\/ overrun
     \/ /\ Done
        /\ ~vga_probe => \A i \in DOMAIN listed :
                           config[listed[i]].class = "display" => listed[i][3] # 0)
=============================================================================
