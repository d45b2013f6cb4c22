--------------------------------- MODULE Heap ---------------------------------
(***************************************************************************)
(* The kernel heap of kernel/mm/heap.c over module Paging: a list of       *)
(* blocks, each a header and its payload, grown page by page.              *)
(*                                                                         *)
(* The kernel has one thread and no interrupt handler uses the heap, so a  *)
(* call is one step.  The list is the sequence of the blocks met from      *)
(* heap_start; heap_end is a pointer of its own, which only the code keeps *)
(* on the last of them.  Callers pass pointers they hold, so the magic of  *)
(* a header is always found.  Pages go to other callers of vmm.c as well.  *)
(***************************************************************************)
EXTENDS Paging, Sequences, SequencesExt

CONSTANTS
  PAGE_SIZE,         \* bytes in a page (4096)
  HeaderSize,        \* sizeof(heap_block_t) (16)
  HEAP_ALIGNMENT,    \* (16)
  HEAP_EXPAND_SIZE,  \* (0x10000, sixteen pages)
  DirtySets,         \* the sets of frames whose memory may not be 0 at boot
  Requests,          \* sizes callers ask for
  MaxHeld            \* bound: pointers callers hold at once

AddressSpace == PAGE_SIZE * PageEntries * DirEntries  \* 2^32, the modulus of size_t

ASSUME HeapAssumption ==
  /\ HeaderSize \in Nat \ {0} /\ PAGE_SIZE \in Nat /\ HeaderSize < PAGE_SIZE
  /\ HEAP_ALIGNMENT \in Nat \ {0}
  /\ PAGE_SIZE % HEAP_ALIGNMENT = 0 /\ HeaderSize % HEAP_ALIGNMENT = 0
  \* asking heap_expand for the payload of a page does not wrap
  /\ HEAP_EXPAND_SIZE \in Nat \ {0} /\ PAGE_SIZE + HeaderSize + HEAP_EXPAND_SIZE <= AddressSpace
  /\ Requests \subseteq 1 .. AddressSpace - 1 /\ MaxHeld \in Nat
  /\ DirtySets \subseteq SUBSET Nat

VARIABLES
  vm,         \* the memory manager, a record of module Paging
  dirty,      \* the frames whose memory is not 0
  blocks,     \* the list from heap_start
  heap_end,   \* address of a block, 0 for none
  heap_size,
  heap_lock,  \* held by a thread that will never release it
  pages,      \* history: the pages of the heap
  others,     \* history: the pages other callers of vmm.c hold
  held        \* history: the size asked for, of each pointer a caller holds

vars == <<vm, dirty, blocks, heap_end, heap_size, heap_lock, pages, others, held>>

Block == [addr : Nat, size : Nat, used : BOOLEAN]
size32(n) == n % AddressSpace

-----------------------------------------------------------------------------
(* The list. *)

\* heap_expand leaves `used` as the page's frame has it.
UsedByte(v, page) == v.entry[page] \in dirty

PageBlockMutant(page, used) ==
  [addr |-> page * PAGE_SIZE, size |-> PAGE_SIZE, used |-> used]
PageBlock(page, used) ==
  [addr |-> page * PAGE_SIZE, size |-> PAGE_SIZE - HeaderSize, used |-> used]

\* heap_end->next = block, which ends the list if heap_end is in it.
Linked(bs, end, block) ==
  LET at == SelectInSeq(bs, LAMBDA b : b.addr = end)
  IN  IF at = 0 THEN bs ELSE Append(SubSeq(bs, 1, at), block)

find_free_block(bs, size) == SelectInSeq(bs, LAMBDA b : ~b.used /\ b.size >= size)

\* split_block: the two blocks that b becomes.
Split(b, size) ==
  <<[b EXCEPT !.size = size],
    [addr |-> b.addr + HeaderSize + size, size |-> b.size - size - HeaderSize, used |-> FALSE]>>

WorthMutant(b, size) == b.size >= size
WorthSplitting(b, size) == b.size >= size + HeaderSize + HEAP_ALIGNMENT

\* Block i is cut to size where that leaves a block worth having.
Trimmed(h, i, size) ==
  LET two == Split(h.blocks[i], size)
  IN  IF ~WorthSplitting(h.blocks[i], size) THEN h
      ELSE [h EXCEPT !.blocks = SubSeq(@, 1, i - 1) \o two \o SubSeq(@, i + 1, Len(@)),
                     !.end    = IF @ = two[1].addr THEN two[2].addr ELSE @]

JoinHeadersMutant(done, b) ==
  IF done # <<>> /\ ~Last(done).used /\ ~b.used
    THEN Append(Front(done), [Last(done) EXCEPT !.size = @ + b.size])
    ELSE Append(done, b)
JoinUsedMutant(done, b) ==
  IF done # <<>> /\ ~Last(done).used
    THEN Append(Front(done), [Last(done) EXCEPT !.size = @ + HeaderSize + b.size])
    ELSE Append(done, b)
Join(done, b) ==
  IF done # <<>> /\ ~Last(done).used /\ ~b.used
    THEN Append(Front(done), [Last(done) EXCEPT !.size = @ + HeaderSize + b.size])
    ELSE Append(done, b)

MergedEndMutant(bs, merged, end) == end
\* heap_end moves when the block it merged was the last.
MergedEnd(bs, merged, end) ==
  IF bs # <<>> /\ Last(bs).addr # Last(merged).addr THEN Last(merged).addr ELSE end

\* The walk over the list; done[i] is what its first i blocks become.
Merged(bs) ==
  LET done[i \in 0 .. Len(bs)] == IF i = 0 THEN <<>> ELSE Join(done[i - 1], bs[i])
  IN  done[Len(bs)]
merge_blocks(h) ==
  LET merged == Merged(h.blocks)
  IN  [h EXCEPT !.blocks = merged, !.end = MergedEnd(h.blocks, merged, @)]

-----------------------------------------------------------------------------
(* Calls, as functions of a record h of the heap. *)

Current == [blocks |-> blocks, end |-> heap_end, size |-> heap_size,
            vm |-> vm, pages |-> pages, more |-> TRUE]

\* One turn of heap_expand's loop: a page that cannot be had ends it.
Expand(h) ==
  LET r     == AllocPage(h.vm)
      block == PageBlock(r.page, UsedByte(r.vm, r.page))
  IN  IF ~h.more THEN h
      ELSE IF r.vm.faulted \/ r.page = 0 THEN [h EXCEPT !.vm = r.vm, !.more = FALSE]
      ELSE [h EXCEPT !.vm = r.vm, !.blocks = Linked(@, h.end, block), !.end = block.addr,
                     !.size = @ + PAGE_SIZE, !.pages = @ \cup {r.page}]

ExpandPagesMutant(size) == size32(size + HeaderSize) \div HEAP_EXPAND_SIZE
\* The pages that heap_expand(size) asks for.
ExpandPages(size) ==
  size32(size32(size + HeaderSize) + HEAP_EXPAND_SIZE - 1) \div HEAP_EXPAND_SIZE

heap_expand(h, size) ==
  LET turn[i \in 0 .. ExpandPages(size)] == IF i = 0 THEN h ELSE Expand(turn[i - 1])
  IN  turn[ExpandPages(size)]

Rounded(n) == LET m == size32(n + HEAP_ALIGNMENT - 1) IN m - (m % HEAP_ALIGNMENT)

\* kmalloc's search, and its second after the heap has grown.
Searched(h, size) ==
  IF find_free_block(h.blocks, size) # 0 THEN h
  ELSE heap_expand(h, size32(size + HeaderSize))

Taken(h, i) == [h EXCEPT !.blocks[i].used = TRUE]
BlockOf(bs, p) == SelectInSeq(bs, LAMBDA b : b.addr + HeaderSize = p)
FreedMutant(h, p) == h
Freed(h, p) == [h EXCEPT !.blocks[BlockOf(h.blocks, p)].used = FALSE]

\* heap_init after vmm_init; the heap stays empty if it has no page.
Created(v) ==
  LET r == AllocPage(v)
  IN  IF r.vm.faulted \/ r.page = 0
        THEN [blocks |-> <<>>, end |-> 0, size |-> 0, vm |-> r.vm, pages |-> {}]
        ELSE [blocks |-> <<PageBlock(r.page, FALSE)>>, end |-> r.page * PAGE_SIZE,
              size |-> PAGE_SIZE, vm |-> r.vm, pages |-> {r.page}]

-----------------------------------------------------------------------------
Becomes(h) ==
  /\ blocks' = h.blocks /\ heap_end' = h.end /\ heap_size' = h.size
  /\ vm' = h.vm /\ pages' = h.pages

Init ==
  /\ \E F \in FrameSets : LET h == Created(Booted(F)) IN
       /\ blocks = h.blocks /\ heap_end = h.end /\ heap_size = h.size
       /\ vm = h.vm /\ pages = h.pages
  /\ dirty \in DirtySets
  /\ heap_lock = FALSE /\ others = {} /\ held = <<>>

\* A block reaches into memory that is not the heap's.
End(b)    == b.addr + HeaderSize + b.size
Within(b) == (b.addr \div PAGE_SIZE) .. ((End(b) - 1) \div PAGE_SIZE) \subseteq pages
Overreach == \E i \in DOMAIN blocks : ~Within(blocks[i])

\* What the code does next is defined: the machine is not halted, its thread
\* does not spin on heap_lock, and the headers are in the heap's own memory.
Running == ~vm.faulted /\ ~heap_lock /\ ~Overreach

WithSize(p, n) == [q \in DOMAIN held \cup {p} |-> IF q = p THEN n ELSE held[q]]
Without(p)     == [q \in DOMAIN held \ {p} |-> held[q]]

\* kmalloc(n); a request of 0 bytes returns at once and changes nothing.
kmalloc(n) ==
  LET size  == Rounded(n)
      found == Searched(Current, size)
      i     == find_free_block(found.blocks, size)
  IN  /\ Running /\ Cardinality(DOMAIN held) < MaxHeld
      /\ IF i = 0 \/ found.vm.faulted
           THEN Becomes(found) /\ UNCHANGED held
           ELSE /\ Becomes(Taken(Trimmed(found, i, size), i))
                /\ held' = WithSize(found.blocks[i].addr + HeaderSize, n)
      /\ UNCHANGED <<dirty, heap_lock, others>>

kfree(p) ==
  /\ Running
  /\ Becomes(merge_blocks(Freed(Current, p)))
  /\ held' = Without(p)
  /\ UNCHANGED <<dirty, heap_lock, others>>

\* krealloc(p, n) of a block that is large enough, in place.
krealloc_in_place(p, n) ==
  /\ Running
  /\ blocks[BlockOf(blocks, p)].size >= Rounded(n)
  /\ Becomes(Trimmed(Current, BlockOf(blocks, p), Rounded(n)))
  /\ held' = WithSize(p, n)
  /\ UNCHANGED <<dirty, heap_lock, others>>

\* krealloc(p, n) of a block that is not: it calls kmalloc with heap_lock
\* held, which waits for heap_lock, so that the rest of it is never reached.
krealloc_grow(p, n) ==
  /\ Running
  /\ blocks[BlockOf(blocks, p)].size < Rounded(n)
  /\ heap_lock' = TRUE
  /\ UNCHANGED <<vm, dirty, blocks, heap_end, heap_size, pages, others, held>>

-----------------------------------------------------------------------------
(* Other code of the kernel takes pages of its own and gives them back,    *)
(* with or without having written to them.                                 *)

OtherAlloc ==
  LET r == AllocPage(vm) IN
    /\ Running
    /\ vm' = r.vm
    /\ others' = IF r.vm.faulted THEN others ELSE others \cup ({r.page} \ {0})
    /\ UNCHANGED <<dirty, blocks, heap_end, heap_size, heap_lock, pages, held>>

OtherFree(page) ==
  /\ Running
  /\ vm' = FreePage(vm, page)
  /\ dirty' \in {dirty, dirty \cup {vm.entry[page]}}
  /\ others' = others \ {page}
  /\ UNCHANGED <<blocks, heap_end, heap_size, heap_lock, pages, held>>

Next ==
  \/ \E n \in Requests : kmalloc(n)
  \/ \E p \in DOMAIN held : kfree(p)
  \/ \E p \in DOMAIN held, n \in Requests : krealloc_in_place(p, n) \/ krealloc_grow(p, n)
  \/ OtherAlloc
  \/ \E page \in others : OtherFree(page)

Spec == Init /\ [][Next]_vars

-----------------------------------------------------------------------------
(* Properties. *)

TypeOK ==
  /\ vm \in VM /\ dirty \subseteq Nat
  /\ blocks \in Seq(Block) /\ heap_end \in Nat /\ heap_size \in Nat
  /\ heap_lock \in BOOLEAN
  /\ pages \subseteq Pages /\ others \subseteq Pages \ pages
  /\ \A p \in DOMAIN held : held[p] \in Requests

Total(sizes) ==
  LET sum[i \in 0 .. Len(sizes)] == IF i = 0 THEN 0 ELSE sum[i - 1] + sizes[i]
  IN  sum[Len(sizes)]

\* heap.c: what get_allocated_memory and get_free_memory add up to, with a
\* header for each block, is get_heap_size: no byte of a page is lost to
\* splitting and merging or counted twice.
Accounted == Total([i \in DOMAIN blocks |-> HeaderSize + blocks[i].size]) = heap_size

\* heap.c: whatever was split and merged, no two blocks overlap, and heap_end
\* is the last of them, so that the next page is linked after all there are.
ListWhole ==
  /\ \A i, j \in DOMAIN blocks : i # j =>
       End(blocks[i]) <= blocks[j].addr \/ End(blocks[j]) <= blocks[i].addr
  /\ blocks # <<>> => heap_end = Last(blocks).addr

Consecutive == \A p, q \in pages : p .. q \subseteq pages
\* heap.c: a block reaches into memory that is not the heap's only when the
\* heap's pages are not consecutive: merge_blocks does not look at addresses.
OverreachOnlyAtGaps == Overreach => ~Consecutive

\* heap.c: every pointer a caller holds is aligned and the payload of a used
\* block that has the size asked for, unless rounding that size up wrapped.
HeldBacked ==
  \A p \in DOMAIN held :
    /\ p % HEAP_ALIGNMENT = 0
    /\ \E i \in DOMAIN blocks : /\ blocks[i].addr + HeaderSize = p /\ blocks[i].used
                                /\ \/ blocks[i].size >= held[p]
                                   \/ held[p] > AddressSpace - HEAP_ALIGNMENT

\* heap.c: every used block is some caller's, except for whole pages whose
\* frame was not 0 when heap_expand linked them: these are lost for good.
UsedIsHeld ==
  \A i \in DOMAIN blocks : blocks[i].used =>
    \/ blocks[i].addr + HeaderSize \in DOMAIN held
    \/ /\ blocks[i] = PageBlock(blocks[i].addr \div PAGE_SIZE, TRUE)
       /\ vm.entry[blocks[i].addr \div PAGE_SIZE] \in dirty

\* What a call of kmalloc(n) would find now.
Result(n) == Searched(Current, Rounded(n))
Fails(n)  == ~Result(n).vm.faulted /\ find_free_block(Result(n).blocks, Rounded(n)) = 0

\* heap.c: a request that fits one page fails only when no page can be had,
\* or when every page that is had is lost to its frame's contents.
SmallRequestServed ==
  Running => \A n \in Requests : Fails(n) /\ Rounded(n) <= PAGE_SIZE - HeaderSize =>
    LET new == Result(n).pages \ pages
    IN  \/ new = {} /\ (Cardinality(vm.free) < 2 \/ vm.next = 0)
        \/ new # {} /\ \A p \in new : Result(n).vm.entry[p] \in dirty

\* heap.c:10-11, 28: kmalloc fails only if heap_expand gets fewer pages than
\* it computes for the request.
ExpandMakesRoom ==
  Running => \A n \in Requests : Fails(n) =>
    Cardinality(Result(n).pages \ pages) < ExpandPages(size32(Rounded(n) + HeaderSize))

\* heap.c:185-197: krealloc goes on with what its kmalloc returns, so that the
\* lock it holds is released when it returns.
LockReleased == ~heap_lock
=============================================================================
