--------------------------------- MODULE Vmm ---------------------------------
(***************************************************************************)
(* The virtual memory manager of kernel/mm/vmm.c, called in any order: one *)
(* thread calls it, so that each call is one step, a function of Paging.   *)
(***************************************************************************)
EXTENDS Paging

VARIABLES
  frames,  \* the frames pmm_init left free, never written
  vm,      \* the memory manager, a record of module Paging
  given,   \* history: the pages callers hold
  result   \* the page vmm_alloc_page returned last, 0 for failure

vars == <<frames, vm, given, result>>

Init ==
  /\ frames \in FrameSets
  /\ vm = Booted(frames)
  /\ given = {} /\ result = 0

\* After a fault the machine is halted: nothing happens any more.
vmm_alloc_page ==
  LET r == AllocPage(vm) IN
    /\ ~vm.faulted
    /\ vm' = r.vm
    /\ result' = IF r.vm.faulted THEN result ELSE r.page
    /\ given' = IF r.vm.faulted THEN given ELSE given \cup ({r.page} \ {0})
    /\ UNCHANGED frames

\* A caller frees a page it holds, or once more a page it held.
Issued == {p \in Pages : FirstPage <= p /\ (p < vm.next \/ vm.next < FirstPage)}
vmm_free_page(page) ==
  /\ ~vm.faulted
  /\ vm' = FreePage(vm, page)
  /\ given' = given \ {page}
  /\ UNCHANGED <<frames, result>>

Next == vmm_alloc_page \/ \E page \in Issued : vmm_free_page(page)
Spec == Init /\ [][Next]_vars

-----------------------------------------------------------------------------
(* Properties. *)

\* next_virt has passed the top of the address space.
Wrapped == vm.next < FirstPage

Mapped == {p \in Pages : FirstPage <= p /\ vm.entry[p] # 0}
Tables == {d \in Dirs : vm.table[d] # 0}

\* vmm.c: until next_virt wraps no frame is lost and none serves two purposes:
\* each is free, or the directory, or one page table, or behind one page, and
\* the pages with a frame are those callers hold.
FramesConserved ==
  ~Wrapped /\ ~vm.faulted =>
    /\ given = Mapped
    /\ frames = (vm.free \ {0}) \cup {vm.dir} \cup {vm.table[d] : d \in Tables}
                                \cup {vm.entry[p] : p \in Mapped}
    /\ \A d, e \in Tables : vm.table[d] = vm.table[e] => d = e
    /\ \A p, q \in Mapped : vm.entry[p] = vm.entry[q] => p = q
    /\ \A d \in Tables, p \in Mapped : vm.table[d] # vm.entry[p]
    /\ vm.dir \notin vm.free /\ \A d \in Tables : vm.table[d] \notin vm.free \cup {vm.dir}
    /\ \A p \in Mapped : vm.entry[p] \notin vm.free \cup {vm.dir}

\* vmm.c: an allocation that fails keeps no frame and changes no mapping, at
\* whichever of its two frames it fails; only frame 0 may be lost to it.
CleanFailure ==
  [][vmm_alloc_page /\ result' = 0 /\ ~vm'.faulted /\ ~Wrapped
       => /\ vm'.free \ {0} = vm.free \ {0}
          /\ vm'.table = vm.table /\ vm'.entry = vm.entry]_vars

\* vmm.c: the identity map of low memory stays as vmm_init made it, whatever
\* is allocated and freed, until next_virt wraps.
IdentityKept == ~Wrapped => \A p \in 0 .. PageEntries - 1 : vm.entry[p] = p

\* vmm.c: mapping and unmapping reach every page table they touch, except for
\* a table that is missing when the identity map covers no free frame that
\* could hold it beside the page's own.
FaultOnlyBeyondLowMemory ==
  [][~vm.faulted /\ vm'.faulted /\ ~Wrapped
       => /\ vm.table[vm.next \div PageEntries] = 0 /\ vm'.next # vm.next
          /\ Cardinality({f \in vm.free : f < PageEntries}) <= 1]_vars
=============================================================================
