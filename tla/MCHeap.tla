-------------------------------- MODULE MCHeap --------------------------------
(***************************************************************************)
(* Heap with pages of 12 bytes, headers of 2, and 18 pages in the address  *)
(* space, of which 12 .. 17 are handed out.  The heap has no page at all   *)
(* or up to three; of the frames it grows by one holds something already.  *)
(* Requests are of a small block that wants rounding, a whole page's       *)
(* payload, more than a page, and a size whose rounding wraps at 216, for  *)
(* as many pointers as MaxHeld at a time.                                  *)
(***************************************************************************)
EXTENDS Heap

MCFrameSets == {{2, 3, 4}, 1 .. 6}
MCDirtySets == {{6}}
MCRequests  == {3, 10, 14, 215}

MCClean   == {{}}
MCOneSet  == {1 .. 6}
MCLarge   == {3, 14}
MCGrowing == {3, 10}
=============================================================================
