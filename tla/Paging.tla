-------------------------------- MODULE Paging --------------------------------
(***************************************************************************)
(* The functions of kernel/mm/vmm.c over those of kernel/mm/pmm.c: the     *)
(* page directory and tables, and virtual pages handed out one after the   *)
(* other from FirstPage up, each backed by a frame.                        *)
(*                                                                         *)
(* With paging on, the kernel reaches a page table at its physical address *)
(* through the identity map of the first PageEntries frames.  A table that *)
(* is not mapped there faults, or is some other page: the machine halts.   *)
(*                                                                         *)
(* The functions take and return a record, so that modules Vmm and Heap    *)
(* can call them, the latter in a loop.                                    *)
(***************************************************************************)
EXTENDS Integers, FiniteSets

CONSTANTS
  PageEntries,  \* entries of a page table (1024)
  DirEntries,   \* entries of the directory (1024)
  FirstPage,    \* number of the first virtual page handed out (0xC0000)
  FrameSets     \* the sets of frames pmm_init may leave free

Pages == 0 .. PageEntries * DirEntries - 1
Dirs  == 0 .. DirEntries - 1

ASSUME PagingAssumption ==
  /\ PageEntries \in Nat \ {0} /\ DirEntries \in Nat \ {0}
  /\ FirstPage \in Pages /\ FirstPage > PageEntries
  \* pmm_init leaves the frames vmm_init takes, below the identity map's end
  /\ \A F \in FrameSets : /\ F \subseteq Nat
                          /\ Cardinality(F \cap 1 .. PageEntries - 1) >= 2
                          /\ 0 \notin F

VM == [free    : SUBSET Nat,       \* pmm.c: the frames that are free
       dir     : Nat,              \* frame of the directory
       table   : [Dirs -> Nat],    \* frame of each page table, 0 if not present
       entry   : [Pages -> Nat],   \* frame each page maps to, 0 if not present
       next    : Pages,            \* next_virt, as a page number
       faulted : BOOLEAN]

LowestMutant(F) == CHOOSE f \in F : \A g \in F : g <= f
Lowest(F) == CHOOSE f \in F : \A g \in F : f <= g

-----------------------------------------------------------------------------
(* Calls of pmm.c.  Frame 0 is taken like any other but reads as a failure. *)

NoFrame(v)   == v.free = {} \/ Lowest(v.free) = 0
Frame(v)     == Lowest(v.free)
TakeFrame(v) == [v EXCEPT !.free = IF @ = {} THEN {} ELSE @ \ {Lowest(@)}]
pmm_free_page(v, f) == [v EXCEPT !.free = @ \cup {f}]

-----------------------------------------------------------------------------
\* Frame f is at its physical address, through the identity map.
Reachable(v, f) == f < PageEntries /\ v.entry[f] = f

\* The directory and the table of a page are read and written in place.
Walkable(v, page) == Reachable(v, v.dir) /\ Reachable(v, v.table[page \div PageEntries])
Fault(v) == [v EXCEPT !.faulted = TRUE]

SetEntryMutant(v, page, frame) == [v EXCEPT !.entry[page % PageEntries] = frame]
SetEntry(v, page, frame) ==
  IF Walkable(v, page) THEN [v EXCEPT !.entry[page] = frame] ELSE Fault(v)

\* A new table is cleared before the directory names it.
NewTable(v, d) ==
  IF Reachable(v, Frame(v))
    THEN [TakeFrame(v) EXCEPT !.table[d] = Frame(v)]
    ELSE Fault(TakeFrame(v))

\* vmm_map_page: ok is what it returns, unless it faults.
vmm_map_page(v, page, frame) ==
  LET d == page \div PageEntries
      made == IF v.table[d] = 0 THEN NewTable(v, d) ELSE v
  IN  CASE ~Reachable(v, v.dir) -> [ok |-> TRUE, vm |-> Fault(v)]
        [] Reachable(v, v.dir) /\ v.table[d] = 0 /\ NoFrame(v) ->
             [ok |-> FALSE, vm |-> TakeFrame(v)]
        [] Reachable(v, v.dir) /\ ~(v.table[d] = 0 /\ NoFrame(v)) ->
             [ok |-> TRUE,
              vm |-> IF made.faulted THEN made ELSE SetEntry(made, page, frame)]

GiveBackMutant(v, f) == v
\* After a mapping that failed the frame goes back; the page number is spent.
GiveBack(v, f) == pmm_free_page(v, f)

AdvanceMutant(page) == page
Advance(page) == (page + 1) % (PageEntries * DirEntries)

\* vmm_alloc_page: page is what it returns, 0 for failure.
AllocPage(v) ==
  IF NoFrame(v) THEN [page |-> 0, vm |-> TakeFrame(v)]
  ELSE LET mapped == vmm_map_page([TakeFrame(v) EXCEPT !.next = Advance(@)], v.next, Frame(v))
       IN  IF mapped.ok
             THEN [page |-> v.next, vm |-> mapped.vm]
             ELSE [page |-> 0, vm |-> GiveBack(mapped.vm, Frame(v))]

\* vmm_free_page: whatever the entry holds goes to pmm.c, 0 when the page is
\* not mapped; a page whose table is missing is left alone.
ClearedMutant(v, page) == v
Cleared(v, page) == [v EXCEPT !.entry[page] = 0]

FreePage(v, page) ==
  LET t == v.table[page \div PageEntries]
  IN  IF Reachable(v, v.dir) /\ t = 0 THEN v
      ELSE IF Walkable(v, page) THEN Cleared(pmm_free_page(v, v.entry[page]), page)
      ELSE Fault(v)

\* vmm_init: two frames before paging is on, the second for the identity map.
Booted(F) ==
  LET dir == Lowest(F)
      kpd == Lowest(F \ {dir})
  IN  [free    |-> F \ {dir, kpd},
       dir     |-> dir,
       table   |-> [d \in Dirs |-> IF d = 0 THEN kpd ELSE 0],
       entry   |-> [p \in Pages |-> IF p < PageEntries THEN p ELSE 0],
       next    |-> FirstPage,
       faulted |-> FALSE]
=============================================================================
