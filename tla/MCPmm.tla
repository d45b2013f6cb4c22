-------------------------------- MODULE MCPmm --------------------------------
(***************************************************************************)
(* Pmm on frames of two bytes, entries of two bits and an address space of *)
(* 32 bytes.  The maps are those of a PC in small: available low memory, a *)
(* reserved hole, available memory above it, with every combination of     *)
(* aligned and unaligned bounds, regions that reach the end of the address *)
(* space or pass it, and one that holds the bitmap in the last, partial    *)
(* frame of memory.                                                        *)
(***************************************************************************)
EXTENDS Pmm

Reg(a, l, free) == [addr |-> a, len |-> l, available |-> free]

PcMap(low, hole, high) ==
  <<Reg(0, low, TRUE), Reg(low, hole, FALSE), Reg(low + hole, high, TRUE)>>

MCMaps ==
  {PcMap(low, hole, high) : low \in {1, 4, 7}, hole \in {1, 4}, high \in {1, 4, 7, 12}}
  \cup {<<Reg(a, l, TRUE)>> : a \in {0, 2, 3}, l \in {2, 9, 14}}
  \cup {<<Reg(0, 4, TRUE), Reg(20, 12, TRUE)>>, <<Reg(0, 6, TRUE), Reg(26, 9, TRUE)>>,
        <<Reg(6, 3, TRUE)>>}
=============================================================================
