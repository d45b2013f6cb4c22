-------------------------------- MODULE MCBoot --------------------------------
(***************************************************************************)
(* Boot on frames of two bytes, bitmap entries of eight bits and an        *)
(* address space of 256 bytes: the largest maps need a bitmap of eight     *)
(* frames, as 4 GiB needs one of 32, and its own frames then fill the      *)
(* bitmap's first entry.  The kernel lies in frames 20 to 23.              *)
(***************************************************************************)
EXTENDS Boot

Reg(a, l, free) == [addr |-> a, len |-> l, available |-> free]

\* Low memory of so many bytes, a hole of four, memory up to `top`.
Pc(low, top) ==
  <<Reg(0, low, TRUE), Reg(low, 4, FALSE), Reg(low + 4, top - low - 4, TRUE)>>

MCMaps  == {Pc(36, 100), Pc(36, 206), Pc(36, 224), Pc(36, 254), Pc(8, 100),
            <<Reg(4, 100, TRUE)>>}
MCSmall == {Pc(36, 100)}
MCImage == 20 .. 23
MCWords == {-4, 11}
MCWord  == {-4}
=============================================================================
