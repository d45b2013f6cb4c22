------------------------------ MODULE MCPciScan ------------------------------
(***************************************************************************)
(* PciScan on three buses of two slots of two functions.  Four places may  *)
(* be empty, a display or another device, or a bridge to any bus: back to  *)
(* the root, to the same bus from two sides, or down a chain.  The host    *)
(* controller may be absent, single, or have a second function.            *)
(***************************************************************************)
EXTENDS PciScan

Dev(class, multi, sec) ==
  [present |-> TRUE, multi |-> multi, class |-> class, secondary |-> sec]
Plain   == {Ones, Dev("other", FALSE, 0), Dev("display", TRUE, 0)}
Bridges == {Dev("bridge", m, s) : m \in BOOLEAN, s \in Bus}

Machine(hostdev, second, slot, one, deep) ==
  [x \in Function |->
     CASE x = <<0, 0, 0>> -> hostdev
       [] x = <<0, 0, 1>> -> second
       [] x = <<0, 1, 0>> -> slot
       [] x = <<0, 1, 1>> -> Dev("display", FALSE, 0)
       [] x = <<1, 0, 1>> -> one
       [] x = <<1, 0, 0>> -> Dev("other", TRUE, 0)
       [] x = <<2, 1, 0>> -> deep
       [] OTHER -> Ones]

MCMachines ==
  {Machine(h, f, s, o, d) :
     h \in {Ones, Dev("other", FALSE, 0), Dev("other", TRUE, 0)},
     f \in {Ones, Dev("other", FALSE, 0), Dev("bridge", FALSE, 2)},
     s \in Plain \cup Bridges, o \in Plain \cup Bridges, d \in Plain \cup Bridges}
=============================================================================
