-------------------------------- MODULE MCVmm --------------------------------
(***************************************************************************)
(* Vmm with page tables of six entries and a directory of four.  Pages are *)
(* handed out from 12 up, so that the second page table is needed at page  *)
(* 18 and next_virt wraps after page 23.  The sets of frames run out at    *)
(* the page, at the table, or reach above the identity map's six frames.   *)
(***************************************************************************)
EXTENDS Vmm

MCFrameSets == {{2, 3}, {2, 3, 4}, {1, 2, 3, 4, 5}, 1 .. 6, {1, 3, 5, 7, 9}, 1 .. 9}
=============================================================================
